----------------------------- MODULE RoomBookings -----------------------------
(***************************************************************************)
(* The rooms of one interface's channels, the room of each schedule that   *)
(* records some of them, which is a copy of its channels' room, and the    *)
(* calendar rows of the room's roster, which are a copy of the schedule's  *)
(* assignees.  Requests read, write the row of a schedule and reconcile    *)
(* its calendar rows in statements of their own (schedule-routes.ts,       *)
(* channel-room-routes.ts, room-roster-store.ts, room-routes.ts).          *)
(*                                                                         *)
(* The node has no default room.  Manual rows of the roster are left out,  *)
(* and so is who may book.                                                 *)
(***************************************************************************)
EXTENDS RoomPromise, Records, Naturals, FiniteSets

CONSTANTS
  Room,
  Channel,
  First,       \* the schedule there is at the beginning
  Selections,  \* the channels a schedule may record
  Group,
  Teams,       \* whom a schedule may be assigned to, members of Group or not
  Call,        \* requests in flight
  MaxCalls, MaxFailures    \* bounds

RoomBookingsAssumption ==
  /\ First \in Schedule /\ NoRoom \notin Room
  /\ \A sel \in Selections : sel \subseteq Channel

VARIABLES
  rooms,       \* the rooms there are
  groups,      \* the groups there are
  asked, failures

places == <<rooms, groups, home>>
history == <<spoilt, undone>>
vars == <<places, bookings, roster, call, asked, failures, history>>

Idle == [pc |-> "idle"]
InFlight(q) == call[q].pc # "idle"
At(q, pc) == call[q].pc = pc
Row(room, sel, who) == [is |-> "there", room |-> room, sel |-> sel, who |-> who]
Members == UNION Teams

TypeOK ==
  /\ rooms \subseteq Room /\ groups \subseteq Group
  /\ home \in [Channel -> Room \cup {NoRoom}]
  /\ \A s \in Schedule :
       \/ bookings[s].is \in {"unused", "gone"}
       \/ bookings[s] \in [is : {"there"}, room : Room \cup {NoRoom},
                           sel : Selections, who : SUBSET Members]
  /\ roster \subseteq [schedule : Schedule, room : Room, subject : Members]
  /\ \A q \in Call : InFlight(q) => call[q].scope \subseteq Schedule
  /\ spoilt \subseteq Schedule /\ undone \subseteq Schedule

Init ==
  /\ rooms = Room /\ groups = Group
  /\ home \in [Channel -> Room]
  /\ \E sel \in Selections, who \in Teams :
       LET row == Row(ResolvedRoom(home, sel), sel, who) IN
       /\ Cardinality(Homes(home, sel)) = 1
       /\ bookings = [s \in Schedule |-> IF s = First THEN row ELSE [is |-> "unused"]]
       /\ roster = RowsOf(First, row)
  /\ call = [q \in Call |-> Idle]
  /\ asked = 0 /\ failures = 0 /\ spoilt = {} /\ undone = {}

-----------------------------------------------------------------------------
(* Requests *)

\* A request begins.  Two that may write one schedule race.
Begin(q, scope, fields) ==
  LET races(p) == InFlight(p) /\ call[p].scope \cap scope # {} IN
  /\ ~InFlight(q) /\ asked < MaxCalls /\ asked' = asked + 1
  /\ call' = [p \in Call |->
                IF p = q
                THEN Over(fields, [scope |-> scope, todo |-> {}, moved |-> {},
                                   raced |-> \E o \in Call : races(o)])
                ELSE IF races(p) THEN [call[p] EXCEPT !.raced = TRUE] ELSE call[p]]
  /\ undone' = undone \ scope

Goes(q, fields) == call' = [call EXCEPT ![q] = Over(fields, @)]

\* A request ends: what it wrote alone is in order again.
Ends(q, spoils, mends) ==
  /\ call' = [call EXCEPT ![q] = Idle]
  /\ spoilt' = IF call[q].raced THEN spoilt \cup call[q].scope
               ELSE (spoilt \cup spoils) \ mends

\* A request that has a list takes the next schedule of it, or ends.
Continues(q, moved, spoils) ==
  LET todo == call[q].todo IN
  IF todo = {} THEN Ends(q, spoils, moved)
  ELSE LET s == CHOOSE t \in todo : TRUE IN
       /\ Goes(q, [pc |-> "read", s |-> s, todo |-> todo \ {s}, moved |-> moved,
                   undoing |-> FALSE])
       /\ spoilt' = spoilt \cup spoils

\* What a request makes of the row it read.
Set(q, row) ==
  LET c == call[q] IN
  CASE c.kind = "patch" -> Row(c.room, c.sel, c.who)
    [] c.kind = "assign" -> [row EXCEPT !.room = IF c.undoing THEN c.listed[c.s] ELSE c.new[c.s]]
    [] c.kind = "group" -> [row EXCEPT !.who = c.listed[c.s]]
    [] OTHER -> row

\* PATCH: the schedule and its node are read, the channels' room is resolved, and
\* a selection that spans rooms is refused.
BeginPatch(q, s) ==
  /\ Booked(s)
  /\ \E sel \in Selections, who \in Teams \cup {bookings[s].who} :
       /\ Cardinality(Homes(home, sel)) <= 1
       /\ who \cap Group \subseteq groups \/ who = bookings[s].who
       /\ Begin(q, {s}, [kind |-> "patch", pc |-> "read", s |-> s, sel |-> sel, who |-> who,
                         room |-> ResolvedRoom(home, sel)])
  /\ UNCHANGED <<places, bookings, roster, failures, spoilt>>

BeginCreate(q, s) ==
  /\ bookings[s].is = "unused" /\ \A p \in Call : InFlight(p) => s \notin call[p].scope
  /\ \E sel \in Selections, who \in Teams :
       /\ Cardinality(Homes(home, sel)) <= 1 /\ who \cap Group \subseteq groups
       /\ Begin(q, {s}, [kind |-> "create", pc |-> "write", s |-> s,
                         row |-> Row(ResolvedRoom(home, sel), sel, who)])
  /\ UNCHANGED <<places, bookings, roster, failures, spoilt>>

\* Moving an occurrence rewrites the series and clones it, room and all.
BeginMove(q, s, clone) ==
  /\ Booked(s) /\ bookings[clone].is = "unused"
  /\ \A p \in Call : InFlight(p) => clone \notin call[p].scope
  /\ Begin(q, {s, clone}, [kind |-> "move", pc |-> "read", s |-> s, clone |-> clone,
                           before |-> bookings[s]])
  /\ UNCHANGED <<places, bookings, roster, failures, spoilt>>

\* The schedule runner, and a skip, write the row back with its next run.
BeginAdvance(q, s) ==
  /\ Booked(s)
  /\ Begin(q, {s}, [kind |-> "advance", pc |-> "read", s |-> s])
  /\ UNCHANGED <<places, bookings, roster, failures, spoilt>>

BeginDelete(q, s) ==
  /\ Booked(s)
  /\ Begin(q, {s}, [kind |-> "delete", pc |-> "delete", s |-> s])
  /\ UNCHANGED <<places, bookings, roster, failures, spoilt>>

\* PUT of channel rooms: rooms that are there, for some channels.
BeginAssign(q) ==
  /\ \E channels \in SUBSET Channel \ {{}} :
       \E to \in [channels -> rooms \cup {NoRoom}] :
         Begin(q, Schedule, [kind |-> "assign", pc |-> "assign", to |-> to,
                             left |-> channels])
  /\ UNCHANGED <<places, bookings, roster, failures, spoilt>>

BeginDeleteGroup(q, g) ==
  /\ g \in groups /\ groups' = groups \ {g}
  /\ Begin(q, Schedule, [kind |-> "group", pc |-> "strip", group |-> g])
  /\ UNCHANGED <<rooms, home, bookings, roster, failures, spoilt>>

\* A room that a schedule names is in use.
BeginDeleteRoom(q, r) ==
  /\ r \in rooms /\ \A s \in Schedule : Booked(s) => bookings[s].room # r
  /\ Begin(q, Schedule, [kind |-> "room", pc |-> "drop", room |-> r])
  /\ UNCHANGED <<places, bookings, roster, failures, spoilt>>

-----------------------------------------------------------------------------
(* The update of a schedule, and the reconciliation of its calendar rows *)

\* A schedule that is gone is passed over.
UpdateRead(q) ==
  LET s == call[q].s IN
  /\ At(q, "read")
  /\ IF Booked(s)
     THEN Goes(q, [pc |-> "write", row |-> Set(q, bookings[s])]) /\ UNCHANGED spoilt
     ELSE IF call[q].kind \in {"assign", "group"} THEN Continues(q, call[q].moved, {})
     ELSE Ends(q, {}, {})
  /\ UNCHANGED <<places, bookings, roster, asked, failures, undone>>

\* Whether the foreign key holds: a schedule's room is there, or none.
RoomThere(row) == row.room \in rooms \cup {NoRoom}

\* The whole row, inserted or updated.
UpdateWrite(q) ==
  LET c == call[q] IN
  /\ At(q, "write") /\ RoomThere(c.row)
  /\ bookings' = [bookings EXCEPT ![c.s] = c.row]
  /\ CASE c.kind \in {"patch", "create"} \/ (c.kind = "assign" /\ ~c.undoing) ->
            Goes(q, [pc |-> "clear"]) /\ UNCHANGED <<spoilt, undone>>
       [] c.kind = "assign" /\ c.undoing ->
            /\ Continues(q, c.moved, {c.s})
            /\ undone' = IF c.raced THEN undone ELSE undone \cup {c.s}
       [] c.kind = "group" -> Continues(q, {}, {}) /\ UNCHANGED undone
       [] c.kind = "advance" -> Ends(q, {}, {}) /\ UNCHANGED undone
       [] c.kind = "move" ->
            Goes(q, [kind |-> "create", s |-> c.clone, row |-> c.before])
            /\ UNCHANGED <<spoilt, undone>>
  /\ UNCHANGED <<places, roster, asked, failures>>

\* A request ends with a schedule it wrote, which is in order, unless it is the
\* clone of one that was not.
EndsWith(q) ==
  LET c == call[q] IN
  IF "clone" \in DOMAIN c /\ c.before.room # ResolvedRoom(home, c.before.sel)
  THEN Ends(q, {c.s}, {}) ELSE Ends(q, {}, {c.s})

\* The next schedule of an assignment, or the end of the others.
Reconciled(q) ==
  IF call[q].kind = "assign" THEN Continues(q, call[q].moved \cup {call[q].s}, {})
  ELSE EndsWith(q)

\* Mutant: a schedule whose channels have no room any more keeps its rows.
ClearRowsKept(q) ==
  LET c == call[q] IN
  /\ At(q, "clear")
  /\ IF c.kind # "delete" /\ RowsOf(c.s, c.row) = {}
     THEN UNCHANGED roster /\ Reconciled(q)
     ELSE /\ roster' = {x \in roster : x.schedule # c.s}
          /\ Goes(q, [pc |-> "insert"]) /\ UNCHANGED spoilt
  /\ UNCHANGED <<places, bookings, asked, failures, undone>>

\* reconcileCalendar deletes the schedule's calendar rows, and inserts them anew.
ClearRows(q) ==
  LET c == call[q] IN
  /\ At(q, "clear")
  /\ roster' = {x \in roster : x.schedule # c.s}
  /\ IF c.kind # "delete" /\ RowsOf(c.s, c.row) # {}
     THEN Goes(q, [pc |-> "insert"]) /\ UNCHANGED spoilt
     ELSE Reconciled(q)
  /\ UNCHANGED <<places, bookings, asked, failures, undone>>

\* The foreign keys refuse the rows of a schedule or a room that is gone.
RowsFit(c) == Booked(c.s) /\ c.row.room \in rooms

InsertRows(q) ==
  LET c == call[q] IN
  /\ At(q, "insert") /\ RowsFit(c)
  /\ roster' = roster \cup RowsOf(c.s, c.row)
  /\ Reconciled(q)
  /\ UNCHANGED <<places, bookings, asked, failures, undone>>

-----------------------------------------------------------------------------
(* The other statements *)

\* A deleted schedule takes its roster rows with it, and they are removed again.
DeleteRow(q) ==
  LET s == call[q].s IN
  /\ At(q, "delete")
  /\ IF Booked(s)
     THEN /\ bookings' = [bookings EXCEPT ![s] = [is |-> "gone"]]
          /\ roster' = {x \in roster : x.schedule # s}
          /\ Goes(q, [pc |-> "clear"]) /\ UNCHANGED spoilt
     ELSE Ends(q, {}, {}) /\ UNCHANGED <<bookings, roster>>
  /\ UNCHANGED <<places, asked, failures, undone>>

NextChannel(c) == CHOOSE channel \in c.left : TRUE

AssignChannel(q) ==
  LET c == NextChannel(call[q]) IN
  /\ At(q, "assign") /\ call[q].to[c] \in rooms \cup {NoRoom}
  /\ home' = [home EXCEPT ![c] = call[q].to[c]]
  /\ Goes(q, [left |-> call[q].left \ {c},
              pc |-> IF call[q].left = {c} THEN "find" ELSE "assign"])
  /\ UNCHANGED <<rooms, groups, bookings, roster, asked, failures, history>>

FindNode(q) ==
  /\ At(q, "find")
  /\ Goes(q, [pc |-> "list", homes |-> home])
  /\ UNCHANGED <<places, bookings, roster, asked, failures, history>>

\* Mutant: a schedule whose channels now span rooms stays where it is.
RehomedSingle(homes, row) ==
  IF Cardinality(Homes(homes, row.sel)) > 1 THEN row.room ELSE ResolvedRoom(homes, row.sel)

\* The room of a schedule after an assignment: none when its channels span rooms.
Rehomed(homes, row) == ResolvedRoom(homes, row.sel)

\* reconcileNodeSchedules: the schedules are listed, and those whose room changes
\* are taken one by one.
ListSchedules(q) ==
  LET there == {s \in Schedule : Booked(s)}
      new == [s \in there |-> Rehomed(call[q].homes, bookings[s])]
      changed == {s \in there : new[s] # bookings[s].room} IN
  /\ At(q, "list") /\ call[q].kind = "assign"
  /\ IF changed = {} THEN Ends(q, {}, {})
     ELSE LET s == CHOOSE t \in changed : TRUE IN
          /\ Goes(q, [pc |-> "read", s |-> s, todo |-> changed \ {s}, undoing |-> FALSE,
                      new |-> new, listed |-> [t \in there |-> bookings[t].room]])
          /\ UNCHANGED spoilt
  /\ UNCHANGED <<places, bookings, roster, asked, failures, undone>>

\* removeGroupSubject; the assignments are then listed and rewritten one by one.
StripGroup(q) ==
  /\ At(q, "strip")
  /\ roster' = {x \in roster : x.subject # call[q].group}
  /\ Goes(q, [pc |-> "list"])
  /\ UNCHANGED <<places, bookings, asked, failures, history>>

ListAssigned(q) ==
  LET assigned == {s \in Schedule : Booked(s) /\ call[q].group \in bookings[s].who} IN
  /\ At(q, "list") /\ call[q].kind = "group"
  /\ IF assigned = {} THEN Ends(q, {}, {})
     ELSE LET s == CHOOSE t \in assigned : TRUE IN
          /\ Goes(q, [pc |-> "read", s |-> s, todo |-> assigned \ {s},
                      listed |-> [t \in assigned |-> bookings[t].who \ {call[q].group}]])
          /\ UNCHANGED spoilt
  /\ UNCHANGED <<places, bookings, roster, asked, failures, undone>>

\* A room that a schedule was given meanwhile stays; its channels and its roster
\* go with it.  Schedules that it shared are not moved to the room that is left.
DropRoom(q) ==
  LET r == call[q].room
      homes == [c \in Channel |-> IF home[c] = r THEN NoRoom ELSE home[c]]
      shared == {s \in Schedule : Booked(s) /\
                   ResolvedRoom(homes, bookings[s].sel) # ResolvedRoom(home, bookings[s].sel)} IN
  /\ At(q, "drop")
  /\ IF r \in rooms /\ \A s \in Schedule : Booked(s) => bookings[s].room # r
     THEN /\ rooms' = rooms \ {r} /\ home' = homes
          /\ roster' = {x \in roster : x.room # r}
          /\ Ends(q, shared, {})
     ELSE Ends(q, {}, {}) /\ UNCHANGED <<rooms, home, roster>>
  /\ UNCHANGED <<groups, bookings, asked, failures, undone>>

-----------------------------------------------------------------------------
(* Failures *)

\* Mutant: the row is left in the new room.
AfterRosterKept(c) == "next"

\* When the roster could not be reconciled, the schedule is moved back.
AfterRoster(c) == "undo"

\* A statement that a foreign key refuses, or that fails.  One schedule that could
\* not be moved does not hold up the others; the row of a moved occurrence's series
\* is written back when its clone fails.
Fails(q) ==
  LET c == call[q]
      refused == \/ At(q, "write") /\ ~RoomThere(c.row)
                 \/ At(q, "insert") /\ ~RowsFit(c)
                 \/ At(q, "assign") /\ c.to[NextChannel(c)] \notin rooms \cup {NoRoom}
      undoes == c.pc \in {"clear", "insert"} /\ AfterRoster(c) = "undo" IN
  /\ InFlight(q)
  /\ IF refused THEN UNCHANGED failures
     ELSE failures < MaxFailures /\ failures' = failures + 1
  /\ IF c.kind = "assign" /\ c.pc \in {"read", "write", "clear", "insert"}
     THEN IF undoes
          THEN Goes(q, [pc |-> "read", undoing |-> TRUE]) /\ UNCHANGED <<spoilt, undone>>
          ELSE /\ Continues(q, c.moved, {c.s})
               /\ undone' = IF c.pc \in {"clear", "insert"} /\ ~c.raced
                            THEN undone \cup {c.s} ELSE undone
     ELSE IF c.kind = "create" /\ "clone" \in DOMAIN c /\ At(q, "write")
     THEN /\ Goes(q, [kind |-> "advance", pc |-> "read",
                      s |-> CHOOSE s \in c.scope : s # c.clone])
          /\ UNCHANGED <<spoilt, undone>>
     ELSE Ends(q, c.scope, {}) /\ UNCHANGED undone
  /\ UNCHANGED <<places, bookings, roster, asked>>

Restart ==
  /\ failures < MaxFailures /\ failures' = failures + 1
  /\ \E q \in Call : InFlight(q)
  /\ call' = [q \in Call |-> Idle]
  /\ spoilt' = spoilt \cup UNION {call[q].scope : q \in {p \in Call : InFlight(p)}}
  /\ UNCHANGED <<places, bookings, roster, asked, undone>>

Next ==
  \/ Restart
  \/ \E q \in Call :
       \/ \E s \in Schedule :
            \/ BeginPatch(q, s) \/ BeginCreate(q, s) \/ BeginAdvance(q, s) \/ BeginDelete(q, s)
            \/ \E clone \in Schedule : BeginMove(q, s, clone)
       \/ \E g \in Group : BeginDeleteGroup(q, g)
       \/ \E r \in Room : BeginDeleteRoom(q, r)
       \/ BeginAssign(q)
       \/ UpdateRead(q) \/ UpdateWrite(q) \/ ClearRows(q) \/ InsertRows(q)
       \/ DeleteRow(q) \/ AssignChannel(q) \/ FindNode(q) \/ ListSchedules(q)
       \/ StripGroup(q) \/ ListAssigned(q) \/ DropRoom(q)
       \/ Fails(q)

Spec == Init /\ [][Next]_vars

===============================================================================
