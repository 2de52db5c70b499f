---------------------------- MODULE BookingsProofs ----------------------------
(***************************************************************************)
(* What the controller promises of schedules and of the captures it        *)
(* starts, for any number of requests and failures.                        *)
(*                                                                         *)
(* The rooms of schedules and their rosters agree: RoomsAgree of           *)
(* RoomBookings, for any rooms, channels, schedules and groups.  The       *)
(* inductive invariant says what a request that is alone with its          *)
(* schedules may rely on - what it read still is so, and only the one that *)
(* it is writing is out of order - and that two that are not alone know    *)
(* it.  A step of a request is shown to write no more than it reserves     *)
(* (RoomStep), and such a step to keep the invariant, whoever else is in   *)
(* flight (RoomStepKept).                                                  *)
(*                                                                         *)
(* Starts of captures that check a snapshot and insert later leave no two  *)
(* captures at odds: CapturesFit of CaptureStart, for any number of        *)
(* starts, asks, jobs, retries, ticks and crashes, any capacity and any    *)
(* length of a capture.  The inductive invariant says why: only the first  *)
(* of the lock's queue goes on, no time passes under the lock, and what it *)
(* has read can only have shrunk when it decides - a job it did not read   *)
(* is a retry, and one that was claimed meanwhile in time holds no more    *)
(* than it did queued.                                                     *)
(***************************************************************************)
EXTENDS RoomBookings, CapturePromise, FiniteSetTheorems, SequenceTheorems, TLAPS

CONSTANTS Start, Asks, MaxJobs, MaxTime, MaxCrashes

VARIABLES recordings, tail, start, crashes

Cap == INSTANCE CaptureStart

-----------------------------------------------------------------------------
(* Rooms and rosters *)

\* A whole schedule.
IsBooking(b) == b = Row(b.room, b.sel, b.who)

\* The statements about one schedule, and what every request remembers.
ItemPcs == {"read", "write", "clear", "insert"}
CallFields == {"kind", "pc", "scope", "todo", "moved", "raced"}

\* The steps a request of a kind goes through, and what it remembers at each.
StepsOf(kind) ==
  CASE kind = "patch" -> ItemPcs
    [] kind = "create" -> ItemPcs \ {"read"}
    [] kind \in {"move", "advance"} -> {"read", "write"}
    [] kind = "delete" -> {"delete", "clear"}
    [] kind = "assign" -> {"assign", "find", "list"} \cup ItemPcs
    [] kind = "group" -> {"strip", "list", "read", "write"}
    [] kind = "room" -> {"drop"}

CallKinds == {"patch", "create", "move", "advance", "delete", "assign", "group", "room"}
Wide == {"assign", "group", "room"}

KindFields(r) ==
  CASE r.kind = "patch" -> {"s", "sel", "who", "room"}
    [] r.kind = "move" -> {"s", "clone", "before"}
    [] r.kind \in {"create", "advance", "delete"} -> {"s"}
    [] r.kind = "assign" /\ r.pc = "list" -> {"homes"}
    [] r.kind = "assign" /\ r.pc \in ItemPcs -> {"s", "undoing", "new", "listed"}
    [] r.kind = "group" /\ r.pc \in ItemPcs -> {"s", "group", "listed"}
    [] r.kind = "group" /\ r.pc \notin ItemPcs -> {"group"}
    [] r.kind = "room" -> {"room"}
    [] OTHER -> {}

\* A request in flight is one of a kind, at a step of it, with what it remembers there.
CallRec(r) ==
  /\ r.kind \in CallKinds /\ r.pc \in StepsOf(r.kind)
  /\ CallFields \cup KindFields(r) \subseteq DOMAIN r
  /\ r.raced \in BOOLEAN
  /\ r.scope \subseteq Schedule /\ r.scope # {}
  /\ r.kind \in Wide => r.scope = Schedule
  /\ r.todo \subseteq Schedule /\ r.moved \subseteq Schedule
  /\ r.kind # "assign" \/ r.pc \notin ItemPcs => r.moved = {}
  /\ r.kind \notin Wide \/ r.pc \in ItemPcs => r.s \in r.scope
  /\ r.pc \in {"write", "clear", "insert"} /\ r.kind # "delete" =>
       "row" \in DOMAIN r /\ IsBooking(r.row)
  /\ r.kind = "assign" /\ r.pc \in ItemPcs => r.undoing \in BOOLEAN
  /\ r.kind \in {"patch", "delete"} => "clone" \notin DOMAIN r
  /\ r.kind = "create" /\ "clone" \in DOMAIN r =>
       /\ "before" \in DOMAIN r /\ r.s = r.clone
       /\ \E o \in r.scope : o # r.clone
  /\ r.kind = "move" =>
       /\ r.scope = {r.s, r.clone} /\ r.clone # r.s /\ IsBooking(r.before)

\* Requests, schedules and history are what they should be.
RoomTypes ==
  /\ DOMAIN call = Call
  /\ \A q \in Call : InFlight(q) => CallRec(call[q])
  /\ DOMAIN bookings = Schedule
  /\ \A s \in Schedule : Booked(s) => IsBooking(bookings[s])
  /\ spoilt \subseteq Schedule /\ undone \subseteq Schedule

\* Two requests in flight that may write one schedule know of each other.
MutuallyRaced ==
  \A p, q \in Call : p # q /\ InFlight(p) /\ InFlight(q)
                     /\ call[p].scope \cap call[q].scope # {} => call[p].raced

\* A schedule that no request in flight may write is in order.
Settled ==
  \A s \in Schedule \ spoilt :
    (\A q \in Call : InFlight(q) => s \notin call[q].scope) => InOrder(s)

\* A schedule is in its channels' room, and in the roster as its row says, but for the
\* assignments to a group that is being deleted.
Placed(s) == bookings[s].room = ResolvedRoom(home, bookings[s].sel)
Rostered(s) == RowsThere(s) = IF Booked(s) THEN RowsOf(s, bookings[s]) ELSE {}
Stripped(s, group) ==
  /\ RowsThere(s) = IF Booked(s)
                    THEN {x \in RowsOf(s, bookings[s]) : x.subject # group} ELSE {}
  /\ Booked(s) => Placed(s)

\* What a request that is alone may rely on: what it read still is so, and only the
\* schedule that it is writing may be out of order.
Holding(q) ==
  LET r == call[q] IN
  /\ \A t \in r.scope \ spoilt : (t = r.s /\ r.pc \in {"clear", "insert"}) \/ InOrder(t)
  /\ r.kind \in {"patch", "move", "advance"} /\ r.pc \in {"read", "write"} => Booked(r.s)
  /\ r.kind = "patch" /\ r.pc = "read" => r.room = ResolvedRoom(home, r.sel)
  /\ r.kind \in {"move", "advance"} /\ r.pc = "write" => r.row = bookings[r.s]
  /\ r.kind \in {"patch", "create"} /\ r.pc # "read" =>
       IF "clone" \in DOMAIN r THEN r.row = r.before
       ELSE r.row.room = ResolvedRoom(home, r.row.sel)
  /\ r.kind \in {"patch", "create"} /\ r.pc \in {"clear", "insert"} => bookings[r.s] = r.row
  /\ r.kind = "create" /\ r.pc = "write" /\ "clone" \in DOMAIN r =>
       \A t \in r.scope \ {r.clone} : Booked(t)
  /\ r.pc = "insert" => RowsThere(r.s) = {}
  /\ r.kind = "delete" /\ r.pc = "clear" => ~Booked(r.s) /\ RowsThere(r.s) = {}

\* For an assignment, the schedules on its list, which are still in their old rooms,
\* may be too, and those it moved are in order.
AssignHolding(q) ==
  LET r == call[q] IN
  /\ r.pc \notin ItemPcs => \A t \in Schedule \ spoilt : Rostered(t)
  /\ r.pc = "list" => r.homes = home
  /\ r.pc \in ItemPcs =>
       /\ r.s \notin r.todo /\ (r.todo \cup {r.s}) \cap r.moved = {}
       /\ \A t \in r.todo \cup {r.s} : Booked(t) /\ r.listed[t] # r.new[t]
       /\ \A t \in Schedule : Booked(t) => r.new[t] = ResolvedRoom(home, bookings[t].sel)
       /\ \A t \in Schedule \ (spoilt \cup {r.s}) : Rostered(t)
       /\ \A t \in Schedule \ (spoilt \cup {r.s} \cup r.todo) : InOrder(t)
       /\ \A t \in r.moved : InOrder(t)
  /\ r.pc \in {"read", "write"} /\ ~r.undoing /\ r.s \notin spoilt => Rostered(r.s)
  /\ r.pc = "write" =>
       r.row = [bookings[r.s] EXCEPT !.room = IF r.undoing THEN r.listed[r.s] ELSE r.new[r.s]]
  /\ r.pc \in {"clear", "insert"} =>
       ~r.undoing /\ r.row = bookings[r.s] /\ r.row.room = r.new[r.s]
  /\ r.pc = "insert" => RowsThere(r.s) = {}

\* For the deletion of a group, only assignments of the group are amiss.
GroupHolding(q) ==
  LET r == call[q] IN
  /\ r.pc = "strip" => \A t \in Schedule \ spoilt : InOrder(t)
  /\ r.pc # "strip" => \A t \in Schedule \ spoilt : Stripped(t, r.group)
  /\ r.pc \in ItemPcs =>
       /\ r.s \notin r.todo
       /\ \A t \in r.todo \cup {r.s} :
            Booked(t) /\ r.listed[t] = bookings[t].who \ {r.group}
       /\ \A t \in Schedule \ (r.todo \cup {r.s}) :
            Booked(t) => r.group \notin bookings[t].who
  /\ r.pc = "write" => r.row = [bookings[r.s] EXCEPT !.who = r.listed[r.s]]

Informed(q) ==
  LET r == call[q] IN
  CASE r.kind = "assign" -> AssignHolding(q)
    [] r.kind = "group" -> GroupHolding(q)
    [] r.kind = "room" -> \A t \in Schedule \ spoilt : InOrder(t)
    [] OTHER -> Holding(q)

\* The schedules whose rows a request may still write.
Reserved(q) ==
  LET r == call[q] IN
  IF r.kind = "assign" /\ r.pc \in ItemPcs THEN r.todo \cup {r.s} ELSE r.scope

\* A move that was undone is left alone by every request in flight.
UndoneAside == \A q \in Call : InFlight(q) => undone \cap Reserved(q) = {}

\* The inductive invariant of the rooms.
RoomInv ==
  /\ RoomTypes /\ MutuallyRaced /\ Settled
  /\ \A q \in Call : InFlight(q) /\ ~call[q].raced => Informed(q)
  /\ UndoneAside /\ RetryDetects

\* What a request writes: rows it reserves, and calendar rows of its schedules.
RoomWrites(q) ==
  /\ DOMAIN bookings' = Schedule
  /\ \A t \in Schedule : Booked(t)' => IsBooking(bookings'[t])
  /\ \A t \in Schedule \ Reserved(q) : bookings'[t] = bookings[t]
  /\ \A t \in Schedule \ call[q].scope : RowsThere(t)' = RowsThere(t)
  /\ home' = home \/ Reserved(q) = Schedule

\* A move is undone by an assignment that is alone, which is then done with it.
RoomUndoes(q) ==
  \/ undone' = undone
  \/ /\ ~call[q].raced /\ call[q].scope = Schedule
     /\ \E s \in Schedule :
          /\ undone' = undone \cup {s} /\ (InFlight(q)' => s \notin Reserved(q)')
          /\ (Booked(s) => ~Placed(s))'

\* A step of a request in flight, and what it must know after it.
RoomStep(q) ==
  LET c == call[q] IN
  /\ InFlight(q)
  /\ DOMAIN call' = Call /\ \A o \in Call \ {q} : call'[o] = call[o]
  /\ InFlight(q)' =>
       /\ CallRec(call'[q]) /\ call'[q].scope = c.scope /\ call'[q].raced = c.raced
       /\ Reserved(q)' \subseteq Reserved(q)
  /\ RoomWrites(q) /\ RoomUndoes(q)
  /\ spoilt' \subseteq Schedule /\ spoilt' \ c.scope = spoilt \ c.scope
  /\ IF InFlight(q)' THEN ~c.raced => Informed(q)'
     ELSE \A t \in c.scope \ spoilt' : ~c.raced /\ InOrder(t)'

\* In order are schedules in their room, with their rows.
LEMMA RoomOrdered ==
  ASSUME NEW s
  PROVE  InOrder(s) <=> Rostered(s) /\ (Booked(s) => Placed(s))
BY DEF InOrder, Rostered, Placed

\* What a request reserves is in its scope.
LEMMA RoomReserved ==
  ASSUME NEW q, CallRec(call[q])
  PROVE  /\ Reserved(q) \subseteq call[q].scope /\ call[q].scope \subseteq Schedule
         /\ call[q].scope # {}
BY DEF CallRec, Reserved, Wide, ItemPcs

\* A schedule that nobody wrote is as it was.
LEMMA RoomSame ==
  ASSUME NEW s, home' = home, bookings'[s] = bookings[s], RowsThere(s)' = RowsThere(s)
  PROVE  InOrder(s)' <=> InOrder(s)
BY DEF InOrder, Booked

\* Nor is a request disturbed by one with which it shares no schedule.
LEMMA RoomUndisturbed ==
  ASSUME RoomTypes, NEW q \in Call, InFlight(q), call'[q] = call[q],
         call[q].kind \notin Wide,
         Holding(q), home' = home,
         \A t \in call[q].scope : /\ bookings'[t] = bookings[t]
                                  /\ RowsThere(t)' = RowsThere(t)
                                  /\ t \in spoilt' <=> t \in spoilt
  PROVE  Holding(q)'
<1>1. CallRec(call[q])
  BY DEF RoomTypes
<1>2. call[q].s \in call[q].scope
  BY <1>1 DEF CallRec
<1>3. \A t \in call[q].scope : InOrder(t)' <=> InOrder(t)
  BY RoomSame
<1>4. \A t \in call[q].scope : Booked(t)' <=> Booked(t)
  BY DEF Booked
<1> DEFINE r == call[q]
<1>5. r.scope \subseteq Schedule
  BY <1>1 DEF CallRec
<1>6. \A t \in r.scope \ spoilt' : (t = r.s /\ r.pc \in {"clear", "insert"}) \/ InOrder(t)'
  BY <1>3 DEF Holding
<1> QED
  BY <1>2, <1>4, <1>6 DEF Holding

\* The invariant survives such a step.
LEMMA RoomStepKept ==
  ASSUME RoomInv, NEW q \in Call, RoomStep(q)
  PROVE  RoomInv'
<1> DEFINE c == call[q]
<1>0. /\ RoomTypes /\ MutuallyRaced /\ Settled /\ UndoneAside /\ RetryDetects
      /\ \A o \in Call : InFlight(o) /\ ~call[o].raced => Informed(o)
  BY DEF RoomInv
<1>1. /\ InFlight(q) /\ CallRec(c)
      /\ DOMAIN call' = Call /\ \A o \in Call \ {q} : call'[o] = call[o]
  BY <1>0 DEF RoomStep, RoomTypes
<1>2. \A o \in Call \ {q} : InFlight(o)' <=> InFlight(o)
  BY <1>1 DEF InFlight
<1>3. /\ \A o \in Call : InFlight(o) => CallRec(call[o])
      /\ Reserved(q) \subseteq c.scope /\ c.scope \subseteq Schedule /\ c.scope # {}
  BY <1>0, <1>1, RoomReserved DEF RoomTypes
<1>4. InFlight(q)' =>
        /\ CallRec(call'[q]) /\ call'[q].scope = c.scope /\ call'[q].raced = c.raced
        /\ Reserved(q)' \subseteq Reserved(q)
  BY DEF RoomStep
<1>5. /\ DOMAIN bookings' = Schedule
      /\ \A t \in Schedule : Booked(t)' => IsBooking(bookings'[t])
      /\ \A t \in Schedule \ Reserved(q) : bookings'[t] = bookings[t]
      /\ \A t \in Schedule \ c.scope : RowsThere(t)' = RowsThere(t)
      /\ home' = home \/ Reserved(q) = Schedule
      /\ spoilt' \subseteq Schedule /\ spoilt' \ c.scope = spoilt \ c.scope
  BY DEF RoomStep, RoomWrites
<1>6. \/ undone' = undone
      \/ /\ ~c.raced /\ c.scope = Schedule
         /\ \E s \in Schedule :
              /\ undone' = undone \cup {s} /\ (InFlight(q)' => s \notin Reserved(q)')
              /\ (Booked(s) => ~Placed(s))'
  BY DEF RoomStep, RoomUndoes
<1>7. IF InFlight(q)' THEN ~c.raced => Informed(q)'
      ELSE \A t \in c.scope \ spoilt' : ~c.raced /\ InOrder(t)'
  BY DEF RoomStep
<1> HIDE DEF c
<1>8. RoomTypes'
  <2>1. \A o \in Call : InFlight(o)' => CallRec(call'[o])
    BY <1>1, <1>2, <1>3, <1>4
  <2>2. undone' \subseteq Schedule
    BY <1>0, <1>6 DEF RoomTypes
  <2> QED
    BY <1>1, <1>5, <2>1, <2>2 DEF RoomTypes
<1>9. MutuallyRaced'
  <2> SUFFICES ASSUME NEW o \in Call, NEW p \in Call, p # o,
                      InFlight(p)', InFlight(o)',
                      call'[p].scope \cap call'[o].scope # {}
               PROVE  call'[p].raced
    BY DEF MutuallyRaced
  <2>1. \A x \in {o, p} : /\ InFlight(x) /\ call'[x].scope = call[x].scope
                          /\ call'[x].raced = call[x].raced
    BY <1>1, <1>2, <1>4 DEF c
  <2> QED
    BY <1>0, <2>1 DEF MutuallyRaced
<1>10. \A t \in Schedule \ c.scope : InOrder(t)' <=> InOrder(t)
  BY <1>3, <1>5, RoomSame
<1>11. Settled'
  <2> SUFFICES ASSUME NEW s \in Schedule \ spoilt',
                      \A o \in Call : InFlight(o)' => s \notin call'[o].scope
               PROVE  InOrder(s)'
    BY DEF Settled
  <2>1. CASE s \in c.scope
    <3>1. ~InFlight(q)'
      BY <1>4, <2>1
    <3> QED
      BY <1>7, <2>1, <3>1
  <2>2. CASE s \notin c.scope
    <3>1. s \notin spoilt
      BY <1>5, <2>2
    <3>2. \A o \in Call : InFlight(o) => s \notin call[o].scope
      BY <1>1, <1>2, <2>2 DEF c
    <3> QED
      BY <1>0, <1>10, <2>2, <3>1, <3>2 DEF Settled
  <2> QED
    BY <2>1, <2>2
<1>12. ASSUME NEW o \in Call, InFlight(o)', ~call'[o].raced
       PROVE  Informed(o)'
  <2>1. CASE o = q
    BY <1>4, <1>7, <1>12, <2>1
  <2>2. CASE o # q
    <3>1. InFlight(o) /\ call'[o] = call[o] /\ ~call[o].raced
      BY <1>1, <1>2, <1>12, <2>2
    <3>2. call[o].scope \cap c.scope = {}
      BY <1>0, <1>1, <2>2, <3>1 DEF MutuallyRaced, c
    <3>3. CallRec(call[o]) /\ call[o].scope \subseteq Schedule
      BY <1>3, <3>1 DEF CallRec
    <3>4. call[o].kind \notin Wide
      BY <1>3, <3>2, <3>3 DEF CallRec
    <3>5. Holding(o)
      BY <1>0, <3>1, <3>4 DEF Informed, Wide
    <3>6. home' = home
      BY <1>3, <1>5, <3>2, <3>3, RoomReserved, <3>1
    <3>7. \A t \in call[o].scope : /\ bookings'[t] = bookings[t]
                                   /\ RowsThere(t)' = RowsThere(t)
                                   /\ t \in spoilt' <=> t \in spoilt
      BY <1>3, <1>5, <3>2, <3>3
    <3>8. Holding(o)'
      BY <1>0, <3>1, <3>4, <3>5, <3>6, <3>7, RoomUndisturbed
    <3> QED
      BY <3>1, <3>4, <3>8 DEF Informed, Wide
  <2> QED
    BY <2>1, <2>2
<1>13. ASSUME NEW o \in Call, InFlight(o)'
       PROVE  undone' \cap Reserved(o)' = {}
  <2>1. CASE o = q
    BY <1>0, <1>1, <1>4, <1>6, <1>13, <2>1 DEF UndoneAside
  <2>2. CASE o # q
    <3>1. InFlight(o) /\ call'[o] = call[o]
      BY <1>1, <1>2, <1>13, <2>2
    <3>2. Reserved(o)' = Reserved(o)
      BY <3>1 DEF Reserved
    <3>3. CallRec(call[o]) /\ Reserved(o) \subseteq Schedule
      BY <1>3, <3>1, RoomReserved
    <3>4. c.scope = Schedule => c.raced
      <4>1. call[o].scope \subseteq Schedule /\ call[o].scope # {}
        BY <3>3, RoomReserved
      <4> QED
        BY <1>0, <1>1, <2>2, <3>1, <4>1 DEF MutuallyRaced, c
    <3>5. undone' = undone
      BY <1>6, <3>4
    <3> QED
      BY <1>0, <3>1, <3>2, <3>5 DEF UndoneAside
  <2> QED
    BY <2>1, <2>2
<1>14. RetryDetects'
  <2>1. undone \cap Reserved(q) = {}
    BY <1>0, <1>1 DEF UndoneAside
  <2>2. ASSUME NEW s \in undone
        PROVE  (Booked(s) => ~Placed(s))'
    <3>1. s \in Schedule /\ s \notin Reserved(q)
      BY <1>0, <2>1, <2>2 DEF RoomTypes
    <3>2. home' = home /\ bookings'[s] = bookings[s]
      BY <1>5, <3>1
    <3>3. Booked(s) => ~Placed(s)
      BY <1>0, <2>2 DEF RetryDetects, Placed
    <3> QED
      BY <3>2, <3>3 DEF Booked, Placed
  <2>3. \A s \in undone' : (Booked(s) => ~Placed(s))'
    BY <1>6, <2>2
  <2> QED
    BY <2>3 DEF RetryDetects, Placed
<1> QED
  BY <1>8, <1>9, <1>11, <1>12, <1>13, <1>14 DEF RoomInv, UndoneAside

\* The rows of a schedule are its own.
LEMMA RoomRows ==
  ASSUME NEW s, NEW booking
  PROVE  \A x \in RowsOf(s, booking) : x.schedule = s
BY DEF RowsOf

\* The invariant holds before the first request.
LEMMA RoomInit ==
  ASSUME RoomBookingsAssumption, Init
  PROVE  RoomInv
<1>1. /\ DOMAIN call = Call /\ \A q \in Call : ~InFlight(q)
      /\ spoilt = {} /\ undone = {}
  BY DEF Init, Idle, InFlight
<1>2. First \in Schedule
  BY DEF RoomBookingsAssumption
<1>3. PICK sel \in Selections, who \in Teams :
        /\ bookings = [s \in Schedule |->
                          IF s = First THEN Row(ResolvedRoom(home, sel), sel, who)
                          ELSE [is |-> "unused"]]
        /\ roster = RowsOf(First, Row(ResolvedRoom(home, sel), sel, who))
  BY Zenon DEF Init
<1> DEFINE booking == Row(ResolvedRoom(home, sel), sel, who)
<1>4. /\ DOMAIN bookings = Schedule /\ bookings[First] = booking
      /\ \A s \in Schedule \ {First} : bookings[s] = [is |-> "unused"]
      /\ roster = RowsOf(First, booking)
  BY <1>2, <1>3
<1>5. /\ booking.is = "there" /\ booking.room = ResolvedRoom(home, booking.sel)
      /\ IsBooking(booking)
  BY DEF Row, IsBooking
<1> HIDE DEF booking
<1>6. Booked(First) /\ \A s \in Schedule \ {First} : ~Booked(s)
  BY <1>4, <1>5 DEF Booked
<1>7. RoomTypes
  BY <1>1, <1>4, <1>5, <1>6 DEF RoomTypes
<1>8. \A x \in roster : x.schedule = First
  BY <1>4, RoomRows
<1>9. RowsThere(First) = RowsOf(First, booking)
  BY <1>4, <1>8 DEF RowsThere
<1>10. \A s \in Schedule \ {First} : RowsThere(s) = {}
  BY <1>8 DEF RowsThere
<1>11. \A s \in Schedule : InOrder(s)
  BY <1>4, <1>5, <1>6, <1>9, <1>10 DEF InOrder
<1> QED
  BY <1>1, <1>7, <1>11
     DEF RoomInv, MutuallyRaced, Settled, UndoneAside, RetryDetects

\* What setting some fields of a request leaves.
LEMMA RoomOver ==
  ASSUME NEW fields, NEW record
  PROVE  /\ DOMAIN Over(fields, record) = DOMAIN fields \cup DOMAIN record
         /\ \A name \in DOMAIN fields : Over(fields, record)[name] = fields[name]
         /\ \A name \in DOMAIN record \ DOMAIN fields :
              Over(fields, record)[name] = record[name]
BY DEF Over

\* A request that learns that it races remembers the rest.
LEMMA RoomMarked ==
  ASSUME NEW r, CallRec(r)
  PROVE  CallRec([r EXCEPT !.raced = TRUE])
<1> DEFINE m == [r EXCEPT !.raced = TRUE]
<1>1. DOMAIN m = DOMAIN r /\ m.raced = TRUE
  BY DEF CallRec, CallFields
<1>2. /\ m.kind = r.kind /\ m.pc = r.pc /\ m.scope = r.scope /\ m.todo = r.todo
      /\ m.moved = r.moved /\ m.s = r.s /\ m.row = r.row /\ m.undoing = r.undoing
      /\ m.clone = r.clone /\ m.before = r.before
  OBVIOUS
<1>3. KindFields(m) = KindFields(r)
  BY <1>2 DEF KindFields
<1> HIDE DEF m
<1>4. CallRec(m)
  BY <1>1, <1>2, <1>3 DEF CallRec
<1> QED
  BY <1>4 DEF m

\* A request in flight may write one of these schedules.
Contended(scope) ==
  \E o \in Call : InFlight(o) /\ call[o].scope \cap scope # {}

\* What a request that begins remembers, and what it may rely on when it is alone.
LEMMA RoomNew ==
  ASSUME RoomInv, NEW q \in Call, NEW scope \in SUBSET Schedule, NEW fields,
         Begin(q, scope, fields),
         home' = home, bookings' = bookings, roster' = roster, spoilt' = spoilt,
         {"scope", "todo", "moved", "raced"} \cap DOMAIN fields = {}
  PROVE  /\ DOMAIN call'[q] = DOMAIN fields \cup {"scope", "todo", "moved", "raced"}
         /\ \A name \in DOMAIN fields : call'[q][name] = fields[name]
         /\ call'[q].scope = scope /\ call'[q].todo = {} /\ call'[q].moved = {}
         /\ call'[q].raced \in BOOLEAN
         /\ call'[q].raced <=> Contended(scope)
         /\ ~call'[q].raced => \A t \in scope \ spoilt' : InOrder(t)'
<1> DEFINE rest == [scope |-> scope, todo |-> {}, moved |-> {},
                    raced |-> Contended(scope)]
<1>1. call'[q] = Over(fields, rest)
  BY DEF Begin, Contended
<1>2. /\ DOMAIN rest = {"scope", "todo", "moved", "raced"}
      /\ rest.scope = scope /\ rest.todo = {} /\ rest.moved = {}
      /\ rest.raced = Contended(scope)
  OBVIOUS
<1> HIDE DEF rest
<1>3. /\ DOMAIN call'[q] = DOMAIN fields \cup DOMAIN rest
      /\ \A name \in DOMAIN fields : call'[q][name] = fields[name]
      /\ \A name \in DOMAIN rest \ DOMAIN fields : call'[q][name] = rest[name]
  <2>1. /\ DOMAIN Over(fields, rest) = DOMAIN fields \cup DOMAIN rest
        /\ \A name \in DOMAIN fields : Over(fields, rest)[name] = fields[name]
        /\ \A name \in DOMAIN rest \ DOMAIN fields :
             Over(fields, rest)[name] = rest[name]
    BY RoomOver
  <2> QED
    BY <1>1, <2>1
<1>4. /\ call'[q].scope = scope /\ call'[q].todo = {} /\ call'[q].moved = {}
      /\ call'[q].raced = Contended(scope)
  BY <1>2, <1>3
<1>5. ASSUME ~call'[q].raced
      PROVE  \A t \in scope \ spoilt' : InOrder(t)'
  <2>0. \A t \in scope : InOrder(t)' <=> InOrder(t)
    BY RoomSame DEF RowsThere
  <2>1. \A o \in Call : InFlight(o) => call[o].scope \cap scope = {}
    BY <1>4, <1>5 DEF Contended
  <2> QED
    BY <2>0, <2>1 DEF RoomInv, Settled
<1>6. call'[q].raced \in BOOLEAN /\ (call'[q].raced <=> Contended(scope))
  BY <1>4, Zenon DEF Contended
<1> QED
  BY <1>2, <1>3, <1>4, <1>5, <1>6

\* The invariant survives the beginning of a request.
LEMMA RoomBegins ==
  ASSUME RoomInv, NEW q \in Call, NEW scope \in SUBSET Schedule, scope # {}, NEW fields,
         Begin(q, scope, fields),
         home' = home, bookings' = bookings, roster' = roster, spoilt' = spoilt,
         CallRec(call'[q]), call'[q].scope = scope,
         call'[q].pc \notin ItemPcs \/ call'[q].kind # "assign",
         call'[q].raced <=> Contended(scope),
         ~call'[q].raced => Informed(q)'
  PROVE  RoomInv'
<1>0. /\ RoomTypes /\ MutuallyRaced /\ Settled /\ UndoneAside /\ RetryDetects
      /\ \A o \in Call : InFlight(o) /\ ~call[o].raced => Informed(o)
  BY DEF RoomInv
<1> DEFINE races(o) == InFlight(o) /\ call[o].scope \cap scope # {}
<1>1. /\ ~InFlight(q) /\ DOMAIN call' = Call /\ undone' = undone \ scope
      /\ \A o \in Call \ {q} :
           call'[o] = IF races(o) THEN [call[o] EXCEPT !.raced = TRUE] ELSE call[o]
  BY DEF Begin
<1>2. \A o \in Call \ {q} : InFlight(o) => CallRec(call[o]) /\ call[o].raced \in BOOLEAN
  BY <1>0 DEF RoomTypes, CallRec
<1>3. \A o \in Call \ {q} :
        /\ InFlight(o)' <=> InFlight(o)
        /\ InFlight(o) =>
             /\ CallRec(call'[o]) /\ call'[o].scope = call[o].scope
             /\ Reserved(o)' = Reserved(o)
             /\ IF races(o) THEN call'[o].raced = TRUE ELSE call'[o] = call[o]
  <2> SUFFICES ASSUME NEW o \in Call \ {q}
               PROVE  /\ InFlight(o)' <=> InFlight(o)
                      /\ InFlight(o) =>
                           /\ CallRec(call'[o]) /\ call'[o].scope = call[o].scope
                           /\ Reserved(o)' = Reserved(o)
                           /\ IF races(o) THEN call'[o].raced = TRUE ELSE call'[o] = call[o]
    OBVIOUS
  <2>1. CASE ~races(o)
    <3>1. call'[o] = call[o]
      BY <1>1, <2>1
    <3> QED
      BY <1>2, <2>1, <3>1 DEF InFlight, Reserved
  <2>2. CASE races(o)
    <3> DEFINE m == [call[o] EXCEPT !.raced = TRUE]
    <3>1. call'[o] = m /\ InFlight(o) /\ CallRec(call[o])
      BY <1>1, <1>2, <2>2
    <3>2. "raced" \in DOMAIN call[o]
      BY <3>1 DEF CallRec, CallFields
    <3>3. /\ m.raced = TRUE /\ m.scope = call[o].scope /\ m.pc = call[o].pc
          /\ m.kind = call[o].kind /\ m.todo = call[o].todo /\ m.s = call[o].s
      BY <3>2
    <3>4. CallRec(m)
      BY <3>1, RoomMarked
    <3> HIDE DEF m
    <3> QED
      BY <2>2, <3>1, <3>3, <3>4 DEF InFlight, Reserved
  <2> QED
    BY <2>1, <2>2
<1> HIDE DEF races
<1>4. InFlight(q)'
  BY DEF CallRec, CallKinds, StepsOf, ItemPcs, InFlight
<1>5. RoomTypes'
  <2>1. \A o \in Call : InFlight(o)' => CallRec(call'[o])
    BY <1>3
  <2> QED
    BY <1>0, <1>1, <2>1 DEF RoomTypes, Booked
<1>6. MutuallyRaced'
  <2> SUFFICES ASSUME NEW o \in Call, NEW p \in Call, p # o,
                      InFlight(p)', InFlight(o)',
                      call'[p].scope \cap call'[o].scope # {}
               PROVE  call'[p].raced
    BY DEF MutuallyRaced
  <2>1. CASE p = q
    BY <1>3, <2>1 DEF races, Contended
  <2>2. CASE o = q
    BY <1>3, <2>2 DEF races, Contended
  <2>3. CASE p # q /\ o # q
    BY <1>0, <1>3, <2>3 DEF MutuallyRaced
  <2> QED
    BY <2>1, <2>2, <2>3
<1>7. \A s \in Schedule : InOrder(s)' <=> InOrder(s)
  BY RoomSame DEF RowsThere
<1>8. Settled'
  <2> SUFFICES ASSUME NEW s \in Schedule \ spoilt,
                      \A o \in Call : InFlight(o)' => s \notin call'[o].scope
               PROVE  InOrder(s)
    BY <1>7 DEF Settled
  <2>1. \A o \in Call : InFlight(o) => s \notin call[o].scope
    BY <1>1, <1>3
  <2> QED
    BY <1>0, <2>1 DEF Settled
<1>9. ASSUME NEW o \in Call, InFlight(o)', ~call'[o].raced
      PROVE  Informed(o)'
  <2>1. CASE o = q
    BY <1>9, <2>1
  <2>2. CASE o # q
    <3>1. InFlight(o) /\ call'[o] = call[o] /\ ~races(o) /\ CallRec(call[o])
      BY <1>2, <1>3, <1>9, <2>2
    <3>2. call[o].kind \notin Wide
      BY <3>1 DEF CallRec, races
    <3>3. Holding(o)
      BY <1>0, <1>9, <3>1, <3>2 DEF Informed, Wide
    <3>4. call[o].scope \subseteq Schedule
      BY <3>1 DEF CallRec
    <3>5. \A t \in call[o].scope : /\ bookings'[t] = bookings[t]
                                   /\ RowsThere(t)' = RowsThere(t)
                                   /\ t \in spoilt' <=> t \in spoilt
      BY DEF RowsThere
    <3>6. Holding(o)'
      BY <1>0, <3>1, <3>2, <3>3, <3>5, RoomUndisturbed
    <3> QED
      BY <3>1, <3>2, <3>6 DEF Informed, Wide
  <2> QED
    BY <2>1, <2>2
<1>10. UndoneAside'
  <2>1. Reserved(q)' = scope
    BY DEF Reserved
  <2>2. \A o \in Call : InFlight(o)' => undone' \cap Reserved(o)' = {}
    BY <1>0, <1>1, <1>3, <2>1 DEF UndoneAside
  <2> QED
    BY <2>2 DEF UndoneAside
<1>11. RetryDetects'
  BY <1>0, <1>1 DEF RetryDetects, Booked
<1> QED
  BY <1>5, <1>6, <1>8, <1>9, <1>10, <1>11 DEF RoomInv

\* A restart ends every request, and leaves behind what they may have been writing.
LEMMA RoomRestart ==
  ASSUME RoomInv, Restart
  PROVE  RoomInv'
<1>1. /\ DOMAIN call' = Call /\ \A q \in Call : ~InFlight(q)'
      /\ UNCHANGED <<home, bookings, roster, undone>>
      /\ spoilt' = spoilt \cup UNION {call[q].scope : q \in {p \in Call : InFlight(p)}}
  BY DEF Restart, Idle, InFlight, places
<1>2. \A q \in Call : InFlight(q) => call[q].scope \subseteq Schedule
  BY DEF RoomInv, RoomTypes, CallRec
<1>3. RoomTypes'
  BY <1>1, <1>2 DEF RoomInv, RoomTypes, Booked
<1>4. \A s \in Schedule : InOrder(s)' <=> InOrder(s)
  BY <1>1, RoomSame DEF RowsThere
<1>5. Settled'
  <2> SUFFICES ASSUME NEW s \in Schedule \ spoilt' PROVE InOrder(s)
    BY <1>4 DEF Settled
  <2>1. s \notin spoilt /\ \A q \in Call : InFlight(q) => s \notin call[q].scope
    BY <1>1
  <2> QED
    BY <2>1 DEF RoomInv, Settled
<1>6. RetryDetects'
  BY <1>1 DEF RoomInv, RetryDetects, Booked
<1> QED
  BY <1>1, <1>3, <1>5, <1>6 DEF RoomInv, MutuallyRaced, UndoneAside

\* Nothing of it changes when nothing changes.
LEMMA RoomStutters ==
  ASSUME RoomInv, UNCHANGED vars
  PROVE  RoomInv'
<1>1. UNCHANGED <<home, bookings, roster, call, spoilt, undone>>
  BY DEF vars, places, history
<1>2. \A q \in Call : /\ InFlight(q)' <=> InFlight(q)
                      /\ Reserved(q)' = Reserved(q)
  BY <1>1 DEF InFlight, Reserved
<1>3. \A s \in Schedule : /\ InOrder(s)' <=> InOrder(s)
                          /\ Booked(s)' <=> Booked(s)
                          /\ RowsThere(s)' = RowsThere(s)
  BY <1>1, RoomSame DEF RowsThere, Booked
<1>4. RoomTypes' /\ MutuallyRaced' /\ Settled' /\ UndoneAside'
  BY <1>1, <1>2, <1>3 DEF RoomInv, RoomTypes, MutuallyRaced, Settled, UndoneAside
<1>5. RetryDetects'
  BY <1>1 DEF RoomInv, RetryDetects, Booked
<1>6. \A q \in Call : Informed(q) => Informed(q)'
  BY <1>1 DEF Informed, Holding, AssignHolding, GroupHolding, InOrder, Booked, RowsThere,
              Rostered, Stripped, Placed
<1> QED
  BY <1>1, <1>2, <1>4, <1>5, <1>6 DEF RoomInv

\* A patch resolves the room of the channels it asks for, and no one moves them
\* while it is alone.
LEMMA RoomBeginPatch ==
  ASSUME RoomInv, NEW q \in Call, NEW s \in Schedule, BeginPatch(q, s)
  PROVE  RoomInv'
<1>1. /\ home' = home /\ bookings' = bookings /\ roster' = roster /\ spoilt' = spoilt
      /\ Booked(s)
  BY DEF BeginPatch, Booked, places
<1>2. PICK sel, who, room :
        /\ Begin(q, {s}, [kind |-> "patch", pc |-> "read", s |-> s, sel |-> sel,
                                who |-> who, room |-> room])
        /\ room = ResolvedRoom(home, sel)
  BY DEF BeginPatch
<1> DEFINE fields == [kind |-> "patch", pc |-> "read", s |-> s, sel |-> sel, who |-> who,
                      room |-> room]
           r == call'[q]
<1>3. /\ DOMAIN fields = {"kind", "pc", "s", "sel", "who", "room"}
      /\ fields.kind = "patch"
      /\ fields.pc = "read"
      /\ fields.s = s
      /\ fields.sel = sel
      /\ fields.who = who
      /\ fields.room = room
  OBVIOUS
<1> HIDE DEF fields
<1>4. Begin(q, {s}, fields)
  BY <1>2 DEF fields
<1>5. {s} \in SUBSET Schedule /\ {s} # {}
  BY <1>1
<1>6. /\ DOMAIN r = DOMAIN fields \cup {"scope", "todo", "moved", "raced"}
      /\ \A name \in DOMAIN fields : r[name] = fields[name]
      /\ r.scope = {s} /\ r.todo = {} /\ r.moved = {}
      /\ r.raced \in BOOLEAN /\ (r.raced <=> Contended({s}))
      /\ ~r.raced => \A t \in {s} \ spoilt' : InOrder(t)'
  <2>1. {"scope", "todo", "moved", "raced"} \cap DOMAIN fields = {}
    BY <1>3
  <2> QED
    BY <1>1, <1>4, <1>5, <2>1, RoomNew
<1>7. /\ r.kind = "patch"
      /\ r.pc = "read"
      /\ r.s = s
      /\ r.sel = sel
      /\ r.who = who
      /\ r.room = room
  BY <1>3, <1>6
<1>8. DOMAIN r = {"kind", "pc", "s", "sel", "who", "room", "scope", "todo", "moved", "raced"}
  BY <1>3, <1>6
<1> HIDE DEF r
<1>9. CallRec(r)
  BY <1>1, <1>2, <1>5, <1>6, <1>7, <1>8
     DEF CallRec, CallKinds, StepsOf, ItemPcs, CallFields, KindFields, Wide
<1>10. ~r.raced => Informed(q)'
  BY <1>1, <1>2, <1>6, <1>7, <1>8 DEF Informed, Holding, r, Booked
<1>11. r.pc \notin ItemPcs \/ r.kind # "assign"
  BY <1>7 DEF ItemPcs
<1> QED
  BY <1>1, <1>4, <1>5, <1>6, <1>9, <1>10, <1>11, RoomBegins DEF r

\* So does the creation of a schedule.
LEMMA RoomBeginCreate ==
  ASSUME RoomInv, NEW q \in Call, NEW s \in Schedule, BeginCreate(q, s)
  PROVE  RoomInv'
<1>1. /\ home' = home /\ bookings' = bookings /\ roster' = roster /\ spoilt' = spoilt
  BY DEF BeginCreate, Booked, places
<1>2. PICK new :
        /\ Begin(q, {s}, [kind |-> "create", pc |-> "write", s |-> s, row |-> new])
        /\ IsBooking(new) /\ new.room = ResolvedRoom(home, new.sel)
  <2>1. PICK sel, who :
          Begin(q, {s}, [kind |-> "create", pc |-> "write", s |-> s,
                               row |-> Row(ResolvedRoom(home, sel), sel, who)])
    BY DEF BeginCreate
  <2> DEFINE new == Row(ResolvedRoom(home, sel), sel, who)
  <2>2. IsBooking(new) /\ new.room = ResolvedRoom(home, new.sel)
    BY DEF IsBooking, Row
  <2> HIDE DEF new
  <2>3. Begin(q, {s}, [kind |-> "create", pc |-> "write", s |-> s, row |-> new])
    BY <2>1 DEF new
  <2> QED
    BY <2>2, <2>3
<1> DEFINE fields == [kind |-> "create", pc |-> "write", s |-> s, row |-> new]
           r == call'[q]
<1>3. /\ DOMAIN fields = {"kind", "pc", "s", "row"}
      /\ fields.kind = "create"
      /\ fields.pc = "write"
      /\ fields.s = s
      /\ fields.row = new
  OBVIOUS
<1> HIDE DEF fields
<1>4. Begin(q, {s}, fields)
  BY <1>2 DEF fields
<1>5. {s} \in SUBSET Schedule /\ {s} # {}
  BY <1>1
<1>6. /\ DOMAIN r = DOMAIN fields \cup {"scope", "todo", "moved", "raced"}
      /\ \A name \in DOMAIN fields : r[name] = fields[name]
      /\ r.scope = {s} /\ r.todo = {} /\ r.moved = {}
      /\ r.raced \in BOOLEAN /\ (r.raced <=> Contended({s}))
      /\ ~r.raced => \A t \in {s} \ spoilt' : InOrder(t)'
  <2>1. {"scope", "todo", "moved", "raced"} \cap DOMAIN fields = {}
    BY <1>3
  <2> QED
    BY <1>1, <1>4, <1>5, <2>1, RoomNew
<1>7. /\ r.kind = "create"
      /\ r.pc = "write"
      /\ r.s = s
      /\ r.row = new
  BY <1>3, <1>6
<1>8. DOMAIN r = {"kind", "pc", "s", "row", "scope", "todo", "moved", "raced"}
  BY <1>3, <1>6
<1> HIDE DEF r
<1>9. CallRec(r)
  BY <1>1, <1>2, <1>5, <1>6, <1>7, <1>8
     DEF CallRec, CallKinds, StepsOf, ItemPcs, CallFields, KindFields, Wide
<1>10. ~r.raced => Informed(q)'
  BY <1>1, <1>2, <1>6, <1>7, <1>8 DEF Informed, Holding, r, Booked
<1>11. r.pc \notin ItemPcs \/ r.kind # "assign"
  BY <1>7 DEF ItemPcs
<1> QED
  BY <1>1, <1>4, <1>5, <1>6, <1>9, <1>10, <1>11, RoomBegins DEF r

\* The move of an occurrence copies the series, room and all.
LEMMA RoomBeginMove ==
  ASSUME RoomInv, NEW q \in Call, NEW s \in Schedule, NEW clone \in Schedule,
         BeginMove(q, s, clone)
  PROVE  RoomInv'
<1>1. /\ home' = home /\ bookings' = bookings /\ roster' = roster /\ spoilt' = spoilt
      /\ Booked(s) /\ clone # s
  BY DEF BeginMove, Booked, places
<1>2. PICK before :
        /\ Begin(q, {s, clone}, [kind |-> "move", pc |-> "read", s |-> s,
                                       clone |-> clone, before |-> before])
        /\ IsBooking(before)
  <2>1. IsBooking(bookings[s])
    BY <1>1 DEF RoomInv, RoomTypes
  <2> QED
    BY <2>1 DEF BeginMove
<1> DEFINE fields == [kind |-> "move", pc |-> "read", s |-> s, clone |-> clone,
                      before |-> before]
           r == call'[q]
<1>3. /\ DOMAIN fields = {"kind", "pc", "s", "clone", "before"}
      /\ fields.kind = "move"
      /\ fields.pc = "read"
      /\ fields.s = s
      /\ fields.clone = clone
      /\ fields.before = before
  OBVIOUS
<1> HIDE DEF fields
<1>4. Begin(q, {s, clone}, fields)
  BY <1>2 DEF fields
<1>5. {s, clone} \in SUBSET Schedule /\ {s, clone} # {}
  BY <1>1
<1>6. /\ DOMAIN r = DOMAIN fields \cup {"scope", "todo", "moved", "raced"}
      /\ \A name \in DOMAIN fields : r[name] = fields[name]
      /\ r.scope = {s, clone} /\ r.todo = {} /\ r.moved = {}
      /\ r.raced \in BOOLEAN /\ (r.raced <=> Contended({s, clone}))
      /\ ~r.raced => \A t \in {s, clone} \ spoilt' : InOrder(t)'
  <2>1. {"scope", "todo", "moved", "raced"} \cap DOMAIN fields = {}
    BY <1>3
  <2> QED
    BY <1>1, <1>4, <1>5, <2>1, RoomNew
<1>7. /\ r.kind = "move"
      /\ r.pc = "read"
      /\ r.s = s
      /\ r.clone = clone
      /\ r.before = before
  BY <1>3, <1>6
<1>8. DOMAIN r = {"kind", "pc", "s", "clone", "before", "scope", "todo", "moved", "raced"}
  BY <1>3, <1>6
<1> HIDE DEF r
<1>9. CallRec(r)
  BY <1>1, <1>2, <1>5, <1>6, <1>7, <1>8
     DEF CallRec, CallKinds, StepsOf, ItemPcs, CallFields, KindFields, Wide
<1>10. ~r.raced => Informed(q)'
  BY <1>1, <1>2, <1>6, <1>7, <1>8 DEF Informed, Holding, r, Booked
<1>11. r.pc \notin ItemPcs \/ r.kind # "assign"
  BY <1>7 DEF ItemPcs
<1> QED
  BY <1>1, <1>4, <1>5, <1>6, <1>9, <1>10, <1>11, RoomBegins DEF r

\* The next run of a schedule is that of one there is.
LEMMA RoomBeginAdvance ==
  ASSUME RoomInv, NEW q \in Call, NEW s \in Schedule, BeginAdvance(q, s)
  PROVE  RoomInv'
<1>1. /\ home' = home /\ bookings' = bookings /\ roster' = roster /\ spoilt' = spoilt
      /\ Booked(s)
  BY DEF BeginAdvance, Booked, places
<1>2. Begin(q, {s}, [kind |-> "advance", pc |-> "read", s |-> s])
  BY DEF BeginAdvance
<1> DEFINE fields == [kind |-> "advance", pc |-> "read", s |-> s]
           r == call'[q]
<1>3. /\ DOMAIN fields = {"kind", "pc", "s"}
      /\ fields.kind = "advance"
      /\ fields.pc = "read"
      /\ fields.s = s
  OBVIOUS
<1> HIDE DEF fields
<1>4. Begin(q, {s}, fields)
  BY <1>2 DEF fields
<1>5. {s} \in SUBSET Schedule /\ {s} # {}
  BY <1>1
<1>6. /\ DOMAIN r = DOMAIN fields \cup {"scope", "todo", "moved", "raced"}
      /\ \A name \in DOMAIN fields : r[name] = fields[name]
      /\ r.scope = {s} /\ r.todo = {} /\ r.moved = {}
      /\ r.raced \in BOOLEAN /\ (r.raced <=> Contended({s}))
      /\ ~r.raced => \A t \in {s} \ spoilt' : InOrder(t)'
  <2>1. {"scope", "todo", "moved", "raced"} \cap DOMAIN fields = {}
    BY <1>3
  <2> QED
    BY <1>1, <1>4, <1>5, <2>1, RoomNew
<1>7. /\ r.kind = "advance"
      /\ r.pc = "read"
      /\ r.s = s
  BY <1>3, <1>6
<1>8. DOMAIN r = {"kind", "pc", "s", "scope", "todo", "moved", "raced"}
  BY <1>3, <1>6
<1> HIDE DEF r
<1>9. CallRec(r)
  BY <1>1, <1>2, <1>5, <1>6, <1>7, <1>8
     DEF CallRec, CallKinds, StepsOf, ItemPcs, CallFields, KindFields, Wide
<1>10. ~r.raced => Informed(q)'
  BY <1>1, <1>2, <1>6, <1>7, <1>8 DEF Informed, Holding, r, Booked
<1>11. r.pc \notin ItemPcs \/ r.kind # "assign"
  BY <1>7 DEF ItemPcs
<1> QED
  BY <1>1, <1>4, <1>5, <1>6, <1>9, <1>10, <1>11, RoomBegins DEF r

\* A deletion need not find the schedule.
LEMMA RoomBeginDelete ==
  ASSUME RoomInv, NEW q \in Call, NEW s \in Schedule, BeginDelete(q, s)
  PROVE  RoomInv'
<1>1. /\ home' = home /\ bookings' = bookings /\ roster' = roster /\ spoilt' = spoilt
  BY DEF BeginDelete, Booked, places
<1>2. Begin(q, {s}, [kind |-> "delete", pc |-> "delete", s |-> s])
  BY DEF BeginDelete
<1> DEFINE fields == [kind |-> "delete", pc |-> "delete", s |-> s]
           r == call'[q]
<1>3. /\ DOMAIN fields = {"kind", "pc", "s"}
      /\ fields.kind = "delete"
      /\ fields.pc = "delete"
      /\ fields.s = s
  OBVIOUS
<1> HIDE DEF fields
<1>4. Begin(q, {s}, fields)
  BY <1>2 DEF fields
<1>5. {s} \in SUBSET Schedule /\ {s} # {}
  BY <1>1
<1>6. /\ DOMAIN r = DOMAIN fields \cup {"scope", "todo", "moved", "raced"}
      /\ \A name \in DOMAIN fields : r[name] = fields[name]
      /\ r.scope = {s} /\ r.todo = {} /\ r.moved = {}
      /\ r.raced \in BOOLEAN /\ (r.raced <=> Contended({s}))
      /\ ~r.raced => \A t \in {s} \ spoilt' : InOrder(t)'
  <2>1. {"scope", "todo", "moved", "raced"} \cap DOMAIN fields = {}
    BY <1>3
  <2> QED
    BY <1>1, <1>4, <1>5, <2>1, RoomNew
<1>7. /\ r.kind = "delete"
      /\ r.pc = "delete"
      /\ r.s = s
  BY <1>3, <1>6
<1>8. DOMAIN r = {"kind", "pc", "s", "scope", "todo", "moved", "raced"}
  BY <1>3, <1>6
<1> HIDE DEF r
<1>9. CallRec(r)
  BY <1>1, <1>2, <1>5, <1>6, <1>7, <1>8
     DEF CallRec, CallKinds, StepsOf, ItemPcs, CallFields, KindFields, Wide
<1>10. ~r.raced => Informed(q)'
  BY <1>1, <1>2, <1>6, <1>7, <1>8 DEF Informed, Holding, r, Booked
<1>11. r.pc \notin ItemPcs \/ r.kind # "assign"
  BY <1>7 DEF ItemPcs
<1> QED
  BY <1>1, <1>4, <1>5, <1>6, <1>9, <1>10, <1>11, RoomBegins DEF r

\* An assignment of channels concerns every schedule.
LEMMA RoomBeginAssign ==
  ASSUME RoomInv, NEW q \in Call, RoomBookingsAssumption, BeginAssign(q)
  PROVE  RoomInv'
<1>1. /\ home' = home /\ bookings' = bookings /\ roster' = roster /\ spoilt' = spoilt
  BY DEF BeginAssign, Booked, places
<1>2. PICK to, left :
        /\ Begin(q, Schedule, [kind |-> "assign", pc |-> "assign", to |-> to,
                                     left |-> left])
  BY DEF BeginAssign
<1> DEFINE fields == [kind |-> "assign", pc |-> "assign", to |-> to, left |-> left]
           r == call'[q]
<1>3. /\ DOMAIN fields = {"kind", "pc", "to", "left"}
      /\ fields.kind = "assign"
      /\ fields.pc = "assign"
      /\ fields.to = to
      /\ fields.left = left
  OBVIOUS
<1> HIDE DEF fields
<1>4. Begin(q, Schedule, fields)
  BY <1>2 DEF fields
<1>5. Schedule \in SUBSET Schedule /\ Schedule # {}
  BY <1>1 DEF RoomBookingsAssumption
<1>6. /\ DOMAIN r = DOMAIN fields \cup {"scope", "todo", "moved", "raced"}
      /\ \A name \in DOMAIN fields : r[name] = fields[name]
      /\ r.scope = Schedule /\ r.todo = {} /\ r.moved = {}
      /\ r.raced \in BOOLEAN /\ (r.raced <=> Contended(Schedule))
      /\ ~r.raced => \A t \in Schedule \ spoilt' : InOrder(t)'
  <2>1. {"scope", "todo", "moved", "raced"} \cap DOMAIN fields = {}
    BY <1>3
  <2> QED
    BY <1>1, <1>4, <1>5, <2>1, RoomNew
<1>7. /\ r.kind = "assign"
      /\ r.pc = "assign"
      /\ r.to = to
      /\ r.left = left
  BY <1>3, <1>6
<1>8. DOMAIN r = {"kind", "pc", "to", "left", "scope", "todo", "moved", "raced"}
  BY <1>3, <1>6
<1> HIDE DEF r
<1>9. CallRec(r)
  BY <1>1, <1>2, <1>5, <1>6, <1>7, <1>8
     DEF CallRec, CallKinds, StepsOf, ItemPcs, CallFields, KindFields, Wide
<1>10. ~r.raced => Informed(q)'
  BY <1>1, <1>2, <1>6, <1>7, <1>8 DEF Informed, AssignHolding, r, InOrder, Rostered, ItemPcs
<1>11. r.pc \notin ItemPcs \/ r.kind # "assign"
  BY <1>7 DEF ItemPcs
<1> QED
  BY <1>1, <1>4, <1>5, <1>6, <1>9, <1>10, <1>11, RoomBegins DEF r

\* So does the deletion of a group.
LEMMA RoomBeginDeleteGroup ==
  ASSUME RoomInv, NEW q \in Call, NEW g, RoomBookingsAssumption,
         BeginDeleteGroup(q, g)
  PROVE  RoomInv'
<1>1. /\ home' = home /\ bookings' = bookings /\ roster' = roster /\ spoilt' = spoilt
  BY DEF BeginDeleteGroup, Booked, places
<1>2. Begin(q, Schedule, [kind |-> "group", pc |-> "strip", group |-> g])
  BY DEF BeginDeleteGroup
<1> DEFINE fields == [kind |-> "group", pc |-> "strip", group |-> g]
           r == call'[q]
<1>3. /\ DOMAIN fields = {"kind", "pc", "group"}
      /\ fields.kind = "group"
      /\ fields.pc = "strip"
      /\ fields.group = g
  OBVIOUS
<1> HIDE DEF fields
<1>4. Begin(q, Schedule, fields)
  BY <1>2 DEF fields
<1>5. Schedule \in SUBSET Schedule /\ Schedule # {}
  BY <1>1 DEF RoomBookingsAssumption
<1>6. /\ DOMAIN r = DOMAIN fields \cup {"scope", "todo", "moved", "raced"}
      /\ \A name \in DOMAIN fields : r[name] = fields[name]
      /\ r.scope = Schedule /\ r.todo = {} /\ r.moved = {}
      /\ r.raced \in BOOLEAN /\ (r.raced <=> Contended(Schedule))
      /\ ~r.raced => \A t \in Schedule \ spoilt' : InOrder(t)'
  <2>1. {"scope", "todo", "moved", "raced"} \cap DOMAIN fields = {}
    BY <1>3
  <2> QED
    BY <1>1, <1>4, <1>5, <2>1, RoomNew
<1>7. /\ r.kind = "group"
      /\ r.pc = "strip"
      /\ r.group = g
  BY <1>3, <1>6
<1>8. DOMAIN r = {"kind", "pc", "group", "scope", "todo", "moved", "raced"}
  BY <1>3, <1>6
<1> HIDE DEF r
<1>9. CallRec(r)
  BY <1>1, <1>2, <1>5, <1>6, <1>7, <1>8
     DEF CallRec, CallKinds, StepsOf, ItemPcs, CallFields, KindFields, Wide
<1>10. ~r.raced => Informed(q)'
  BY <1>1, <1>2, <1>6, <1>7, <1>8 DEF Informed, GroupHolding, r, ItemPcs
<1>11. r.pc \notin ItemPcs \/ r.kind # "assign"
  BY <1>7 DEF ItemPcs
<1> QED
  BY <1>1, <1>4, <1>5, <1>6, <1>9, <1>10, <1>11, RoomBegins DEF r

\* And that of a room.
LEMMA RoomBeginDeleteRoom ==
  ASSUME RoomInv, NEW q \in Call, NEW room, RoomBookingsAssumption,
         BeginDeleteRoom(q, room)
  PROVE  RoomInv'
<1>1. /\ home' = home /\ bookings' = bookings /\ roster' = roster /\ spoilt' = spoilt
  BY DEF BeginDeleteRoom, Booked, places
<1>2. Begin(q, Schedule, [kind |-> "room", pc |-> "drop", room |-> room])
  BY DEF BeginDeleteRoom
<1> DEFINE fields == [kind |-> "room", pc |-> "drop", room |-> room]
           r == call'[q]
<1>3. /\ DOMAIN fields = {"kind", "pc", "room"}
      /\ fields.kind = "room"
      /\ fields.pc = "drop"
      /\ fields.room = room
  OBVIOUS
<1> HIDE DEF fields
<1>4. Begin(q, Schedule, fields)
  BY <1>2 DEF fields
<1>5. Schedule \in SUBSET Schedule /\ Schedule # {}
  BY <1>1 DEF RoomBookingsAssumption
<1>6. /\ DOMAIN r = DOMAIN fields \cup {"scope", "todo", "moved", "raced"}
      /\ \A name \in DOMAIN fields : r[name] = fields[name]
      /\ r.scope = Schedule /\ r.todo = {} /\ r.moved = {}
      /\ r.raced \in BOOLEAN /\ (r.raced <=> Contended(Schedule))
      /\ ~r.raced => \A t \in Schedule \ spoilt' : InOrder(t)'
  <2>1. {"scope", "todo", "moved", "raced"} \cap DOMAIN fields = {}
    BY <1>3
  <2> QED
    BY <1>1, <1>4, <1>5, <2>1, RoomNew
<1>7. /\ r.kind = "room"
      /\ r.pc = "drop"
      /\ r.room = room
  BY <1>3, <1>6
<1>8. DOMAIN r = {"kind", "pc", "room", "scope", "todo", "moved", "raced"}
  BY <1>3, <1>6
<1> HIDE DEF r
<1>9. CallRec(r)
  BY <1>1, <1>2, <1>5, <1>6, <1>7, <1>8
     DEF CallRec, CallKinds, StepsOf, ItemPcs, CallFields, KindFields, Wide
<1>10. ~r.raced => Informed(q)'
  BY <1>1, <1>2, <1>6, <1>7, <1>8 DEF Informed, InOrder, r, ItemPcs
<1>11. r.pc \notin ItemPcs \/ r.kind # "assign"
  BY <1>7 DEF ItemPcs
<1> QED
  BY <1>1, <1>4, <1>5, <1>6, <1>9, <1>10, <1>11, RoomBegins DEF r

\* A request that goes on remembers what it does not set.
LEMMA RoomGoes ==
  ASSUME RoomInv, NEW q \in Call, NEW fields, Goes(q, fields)
  PROVE  /\ DOMAIN call' = Call /\ \A o \in Call \ {q} : call'[o] = call[o]
         /\ call'[q] = Over(fields, call[q])
         /\ DOMAIN call'[q] = DOMAIN fields \cup DOMAIN call[q]
         /\ \A name \in DOMAIN fields : call'[q][name] = fields[name]
         /\ \A name \in DOMAIN call[q] \ DOMAIN fields : call'[q][name] = call[q][name]
<1>1. /\ DOMAIN call' = Call /\ \A o \in Call \ {q} : call'[o] = call[o]
      /\ call'[q] = Over(fields, call[q])
  BY DEF RoomInv, RoomTypes, Goes
<1>2. /\ DOMAIN Over(fields, call[q]) = DOMAIN fields \cup DOMAIN call[q]
      /\ \A name \in DOMAIN fields : Over(fields, call[q])[name] = fields[name]
      /\ \A name \in DOMAIN call[q] \ DOMAIN fields :
           Over(fields, call[q])[name] = call[q][name]
  BY RoomOver
<1> QED
  BY <1>1, <1>2

\* The step to the next statement about one schedule.
LEMMA RoomItem ==
  ASSUME NEW c, CallRec(c), NEW fields, NEW r,
         {"pc"} \subseteq DOMAIN fields, DOMAIN fields \subseteq {"pc", "row"},
         DOMAIN r = DOMAIN fields \cup DOMAIN c,
         \A name \in DOMAIN fields : r[name] = fields[name],
         \A name \in DOMAIN c \ DOMAIN fields : r[name] = c[name],
         fields.pc \in StepsOf(c.kind) \cap (ItemPcs \cup {"delete"}),
         c.kind \notin Wide \/ c.pc \in ItemPcs,
         fields.pc \in {"write", "clear", "insert"} /\ c.kind # "delete" =>
           IF "row" \in DOMAIN fields THEN IsBooking(fields.row)
           ELSE c.pc \in {"write", "clear", "insert"}
  PROVE  /\ CallRec(r) /\ r.pc = fields.pc /\ r.kind = c.kind /\ r.scope = c.scope
         /\ r.raced = c.raced /\ r.todo = c.todo /\ r.moved = c.moved /\ r.s = c.s
         /\ \A name \in DOMAIN c \ {"pc", "row"} : r[name] = c[name]
         /\ "clone" \in DOMAIN r <=> "clone" \in DOMAIN c
<1>1. CallFields \cup KindFields(c) \subseteq DOMAIN c
  BY DEF CallRec
<1>2. /\ r.pc = fields.pc /\ r.kind = c.kind /\ r.scope = c.scope
      /\ r.raced = c.raced /\ r.todo = c.todo /\ r.moved = c.moved
      /\ "clone" \in DOMAIN r <=> "clone" \in DOMAIN c
      /\ \A name \in DOMAIN c \ {"pc", "row"} : r[name] = c[name]
  BY <1>1 DEF CallFields
<1>3. "s" \in DOMAIN c /\ r.s = c.s
  BY <1>1, <1>2 DEF KindFields, CallRec, CallKinds, Wide, StepsOf, ItemPcs
<1>4. KindFields(r) = KindFields(c)
  BY <1>2 DEF KindFields, CallRec, CallKinds, Wide, StepsOf, ItemPcs
<1>5. /\ "clone" \in DOMAIN c => r.clone = c.clone
      /\ "before" \in DOMAIN c => r.before = c.before
      /\ "undoing" \in DOMAIN c => r.undoing = c.undoing
  BY <1>2
<1>6. r.pc \in {"write", "clear", "insert"} /\ r.kind # "delete" =>
        "row" \in DOMAIN r /\ IsBooking(r.row)
  <2> SUFFICES ASSUME r.pc \in {"write", "clear", "insert"}, r.kind # "delete"
               PROVE  "row" \in DOMAIN r /\ IsBooking(r.row)
    OBVIOUS
  <2>1. CASE "row" \in DOMAIN fields
    BY <1>2, <2>1
  <2>2. CASE "row" \notin DOMAIN fields
    <3>1. "row" \in DOMAIN c /\ IsBooking(c.row)
      BY <1>2, <2>2 DEF CallRec
    <3> QED
      BY <2>2, <3>1
  <2> QED
    BY <2>1, <2>2
<1>7. CallFields \cup KindFields(r) \subseteq DOMAIN r
  BY <1>1, <1>4
<1>8. r.kind = "assign" /\ r.pc \in ItemPcs => r.undoing \in BOOLEAN
  BY <1>1, <1>2, <1>5 DEF CallRec, KindFields, Wide
<1>9. r.kind = "move" => /\ r.scope = {r.s, r.clone} /\ r.clone # r.s /\ IsBooking(r.before)
  BY <1>1, <1>2, <1>3, <1>5 DEF CallRec, KindFields
<1>10. r.kind = "create" /\ "clone" \in DOMAIN r =>
       /\ "before" \in DOMAIN r /\ r.s = r.clone
       /\ \E o \in r.scope : o # r.clone
  BY <1>2, <1>3, <1>5 DEF CallRec
<1>11. r.pc \in StepsOf(r.kind) /\ r.kind \in CallKinds
  BY <1>2 DEF CallRec
<1>12. r.kind \notin Wide \/ r.pc \in ItemPcs => r.s \in r.scope
  BY <1>2, <1>3 DEF CallRec
<1>13. /\ r.raced \in BOOLEAN /\ r.scope \subseteq Schedule /\ r.scope # {}
       /\ r.kind \in Wide => r.scope = Schedule
       /\ r.todo \subseteq Schedule /\ r.moved \subseteq Schedule
       /\ r.kind \in {"patch", "delete"} => "clone" \notin DOMAIN r
  BY <1>2 DEF CallRec
<1>14. r.kind # "assign" \/ r.pc \notin ItemPcs => r.moved = {}
  <2>1. c.kind = "assign" => r.pc \in ItemPcs
    BY <1>2 DEF StepsOf, ItemPcs, Wide
  <2> QED
    BY <1>2, <2>1 DEF CallRec
<1> QED
  BY <1>14, <1>2, <1>3, <1>5, <1>6, <1>7, <1>8, <1>9, <1>10, <1>11, <1>12, <1>13 DEF CallRec

\* What a request alone leaves unspoilt when it ends is in order.
LEMMA RoomEnds ==
  ASSUME RoomInv, NEW q \in Call, InFlight(q), RoomWrites(q), RoomUndoes(q),
         NEW spoils, spoils \subseteq call[q].scope,
         NEW mends, mends \subseteq call[q].scope,
         Ends(q, spoils, mends),
         ~call[q].raced => \A t \in call[q].scope :
                             t \in mends \/ t \notin spoilt \cup spoils => InOrder(t)'
  PROVE  RoomStep(q)
<1>1. /\ DOMAIN call' = Call /\ \A o \in Call \ {q} : call'[o] = call[o]
      /\ ~InFlight(q)'
      /\ spoilt' = IF call[q].raced THEN spoilt \cup call[q].scope
                   ELSE (spoilt \cup spoils) \ mends
  BY DEF RoomInv, RoomTypes, Ends, Idle, InFlight
<1>2. call[q].scope \subseteq Schedule /\ spoilt \subseteq Schedule /\ call[q].raced \in BOOLEAN
  BY DEF RoomInv, RoomTypes, CallRec
<1>3. spoilt' \subseteq Schedule /\ spoilt' \ call[q].scope = spoilt \ call[q].scope
  BY <1>1, <1>2
<1>4. \A t \in call[q].scope \ spoilt' : ~call[q].raced /\ InOrder(t)'
  BY <1>1, <1>2
<1> QED
  BY <1>1, <1>3, <1>4 DEF RoomStep

\* An assignment that is done with a schedule takes the next one, knowing as much of
\* it, or ends.
LEMMA RoomMoving ==
  ASSUME RoomInv, NEW q \in Call, InFlight(q), RoomWrites(q),
         call[q].kind = "assign", call[q].pc \in ItemPcs,
         NEW moved, moved \subseteq Schedule, NEW spoils, spoils \subseteq Schedule,
         Continues(q, moved, spoils), home' = home,
         \/ undone' = undone
         \/ /\ ~call[q].raced /\ undone' = undone \cup {call[q].s}
            /\ \A t \in Schedule : t = call[q].s /\ Booked(t)' => ~Placed(t)',
         ~call[q].raced =>
           /\ call[q].s \notin call[q].todo /\ call[q].todo \cap moved = {}
           /\ \A t \in call[q].todo : Booked(t)' /\ call[q].listed[t] # call[q].new[t]
           /\ \A t \in Schedule :
                Booked(t)' => call[q].new[t] = ResolvedRoom(home', bookings'[t].sel)
           /\ \A t \in Schedule \ (spoilt \cup spoils) : Rostered(t)'
           /\ \A t \in Schedule \ (spoilt \cup spoils \cup call[q].todo) : InOrder(t)'
           /\ \A t \in moved : InOrder(t)'
  PROVE  RoomStep(q)
<1> DEFINE c == call[q]
<1>1. CallRec(c) /\ spoilt \subseteq Schedule
  BY DEF RoomInv, RoomTypes
<1>2. /\ c.scope = Schedule /\ c.raced \in BOOLEAN /\ c.s \in Schedule
      /\ c.todo \subseteq Schedule
      /\ CallFields \cup {"s", "undoing", "new", "listed"} \subseteq DOMAIN c
  BY <1>1 DEF CallRec, Wide, KindFields
<1>3. CASE c.todo = {}
  <2>1. Ends(q, spoils, moved)
    BY <1>3 DEF Continues
  <2>2. ~InFlight(q)'
    BY <2>1 DEF Ends, Idle, InFlight, RoomInv, RoomTypes
  <2>3. RoomUndoes(q)
    BY <1>2, <2>2 DEF RoomUndoes, Placed, Booked
  <2> QED
    BY <1>2, <1>3, <2>1, <2>3, RoomEnds
<1>4. CASE c.todo # {}
  <2>1. PICK s \in c.todo :
          /\ Goes(q, [pc |-> "read", s |-> s, todo |-> c.todo \ {s}, moved |-> moved,
                            undoing |-> FALSE])
          /\ spoilt' = spoilt \cup spoils
    BY <1>4 DEF Continues
  <2> DEFINE fields == [pc |-> "read", s |-> s, todo |-> c.todo \ {s}, moved |-> moved,
                        undoing |-> FALSE]
             r == call'[q]
  <2>2. /\ DOMAIN fields = {"pc", "s", "todo", "moved", "undoing"}
        /\ fields.pc = "read" /\ fields.s = s /\ fields.todo = c.todo \ {s}
        /\ fields.moved = moved /\ fields.undoing = FALSE
    OBVIOUS
  <2> HIDE DEF fields
  <2>3. Goes(q, fields)
    BY <2>1 DEF fields
  <2>4. /\ DOMAIN call' = Call /\ \A o \in Call \ {q} : call'[o] = call[o]
        /\ DOMAIN r = DOMAIN fields \cup DOMAIN c
        /\ \A name \in DOMAIN fields : r[name] = fields[name]
        /\ \A name \in DOMAIN c \ DOMAIN fields : r[name] = c[name]
    BY <2>3, RoomGoes
  <2> HIDE DEF r
  <2>5. /\ r.pc = "read" /\ r.s = s /\ r.todo = c.todo \ {s} /\ r.moved = moved
        /\ r.undoing = FALSE
    BY <2>2, <2>4
  <2>6. /\ r.kind = "assign" /\ r.scope = Schedule /\ r.raced = c.raced
        /\ r.new = c.new /\ r.listed = c.listed
    BY <1>2, <2>2, <2>4 DEF CallFields
  <2>7. CallFields \cup {"s", "undoing", "new", "listed"} \subseteq DOMAIN r
    BY <1>2, <2>4
  <2>8. CallRec(r)
    BY <1>1, <1>2, <2>5, <2>6, <2>7
       DEF CallRec, CallKinds, StepsOf, ItemPcs, KindFields, Wide
  <2>9. InFlight(q)'
    BY <2>5 DEF InFlight, r
  <2>10. Reserved(q)' = c.todo /\ Reserved(q) = c.todo \cup {c.s}
    BY <2>1, <2>5, <2>6 DEF Reserved, ItemPcs, r
  <2>11. ~c.raced => Informed(q)'
    <3> SUFFICES ASSUME ~c.raced PROVE AssignHolding(q)'
      BY <2>6 DEF Informed, r
    <3>1. /\ s \notin r.todo /\ (r.todo \cup {s}) \cap r.moved = {}
          /\ \A t \in r.todo \cup {s} : Booked(t)' /\ r.listed[t] # r.new[t]
          /\ \A t \in Schedule :
               Booked(t)' => r.new[t] = ResolvedRoom(home', bookings'[t].sel)
          /\ \A t \in Schedule \ (spoilt' \cup {s}) : Rostered(t)'
          /\ \A t \in Schedule \ (spoilt' \cup {s} \cup r.todo) : InOrder(t)'
          /\ \A t \in r.moved : InOrder(t)'
      BY <2>1, <2>5, <2>6
    <3>2. s \notin spoilt' => Rostered(s)'
      BY <1>2, <2>1
    <3> QED
      BY <2>5, <3>1, <3>2 DEF AssignHolding, ItemPcs, r
  <2>12. RoomUndoes(q)
    <3>1. CASE undone' = undone
      BY <3>1 DEF RoomUndoes
    <3>2. CASE undone' # undone
      <4>1. ~c.raced /\ c.s \notin c.todo
        BY <3>2
      <4> QED
        BY <1>2, <2>10, <3>2, <4>1 DEF RoomUndoes, Placed, Booked
    <3> QED
      BY <3>1, <3>2
  <2>13. spoilt' \subseteq Schedule /\ spoilt' \ c.scope = spoilt \ c.scope
    BY <1>1, <1>2, <2>1
  <2> QED
    BY <1>2, <2>4, <2>6, <2>8, <2>9, <2>10, <2>11, <2>12, <2>13 DEF RoomStep, r
<1> QED
  BY <1>3, <1>4

\* So does the deletion of a group.
LEMMA RoomStripping ==
  ASSUME RoomInv, NEW q \in Call, InFlight(q), RoomWrites(q),
         call[q].kind = "group", call[q].pc \in ItemPcs,
         Continues(q, {}, {}), home' = home, undone' = undone,
         NEW group, group = call[q].group,
         ~call[q].raced =>
           /\ \A t \in call[q].todo :
                Booked(t)' /\ call[q].listed[t] = bookings'[t].who \ {group}
           /\ \A t \in Schedule \ call[q].todo :
                Booked(t)' => group \notin bookings'[t].who
           /\ \A t \in Schedule \ spoilt : Stripped(t, group)'
  PROVE  RoomStep(q)
<1> DEFINE c == call[q]
<1>1. CallRec(c) /\ spoilt \subseteq Schedule
  BY DEF RoomInv, RoomTypes
<1>2. /\ c.scope = Schedule /\ c.raced \in BOOLEAN /\ c.s \in Schedule
      /\ c.todo \subseteq Schedule
      /\ CallFields \cup {"s", "group", "listed"} \subseteq DOMAIN c
  BY <1>1 DEF CallRec, Wide, KindFields
<1>3. CASE c.todo = {}
  <2>1. Ends(q, {}, {})
    BY <1>3 DEF Continues
  <2>2. RoomUndoes(q)
    BY DEF RoomUndoes
  <2>3. ASSUME ~c.raced, NEW t \in Schedule, t \notin spoilt
        PROVE  InOrder(t)'
    <3>1. /\ Stripped(t, group)'
          /\ Booked(t)' => group \notin bookings'[t].who
      BY <1>3, <2>3
    <3>2. Booked(t)' => \A x \in RowsOf(t, bookings'[t]) : x.subject # group
      BY <3>1 DEF RowsOf
    <3> QED
      BY <3>1, <3>2 DEF Stripped, InOrder, Placed
  <2> QED
    BY <1>2, <2>1, <2>2, <2>3, RoomEnds
<1>4. CASE c.todo # {}
  <2>1. PICK s \in c.todo :
          /\ Goes(q, [pc |-> "read", s |-> s, todo |-> c.todo \ {s}, moved |-> {},
                            undoing |-> FALSE])
          /\ spoilt' = spoilt
    BY <1>4 DEF Continues
  <2> DEFINE fields == [pc |-> "read", s |-> s, todo |-> c.todo \ {s}, moved |-> {},
                        undoing |-> FALSE]
             r == call'[q]
  <2>2. /\ DOMAIN fields = {"pc", "s", "todo", "moved", "undoing"}
        /\ fields.pc = "read" /\ fields.s = s /\ fields.todo = c.todo \ {s}
        /\ fields.moved = {}
    OBVIOUS
  <2> HIDE DEF fields
  <2>3. Goes(q, fields)
    BY <2>1 DEF fields
  <2>4. /\ DOMAIN call' = Call /\ \A o \in Call \ {q} : call'[o] = call[o]
        /\ DOMAIN r = DOMAIN fields \cup DOMAIN c
        /\ \A name \in DOMAIN fields : r[name] = fields[name]
        /\ \A name \in DOMAIN c \ DOMAIN fields : r[name] = c[name]
    BY <2>3, RoomGoes
  <2> HIDE DEF r
  <2>5. /\ r.pc = "read" /\ r.s = s /\ r.todo = c.todo \ {s} /\ r.moved = {}
    BY <2>2, <2>4
  <2>6. /\ r.kind = "group" /\ r.scope = Schedule /\ r.raced = c.raced
        /\ r.group = group /\ r.listed = c.listed
    BY <1>2, <2>2, <2>4 DEF CallFields
  <2>7. CallFields \cup {"s", "group", "listed"} \subseteq DOMAIN r
    BY <1>2, <2>4
  <2>8. CallRec(r)
    BY <1>1, <1>2, <2>5, <2>6, <2>7
       DEF CallRec, CallKinds, StepsOf, ItemPcs, KindFields, Wide
  <2>9. InFlight(q)'
    BY <2>5 DEF InFlight, r
  <2>10. Reserved(q)' = Schedule /\ Reserved(q) = Schedule
    BY <1>2, <2>6 DEF Reserved, r
  <2>11. ~c.raced => Informed(q)'
    <3> SUFFICES ASSUME ~c.raced PROVE GroupHolding(q)'
      BY <2>6 DEF Informed, r
    <3>1. /\ s \notin r.todo
          /\ \A t \in r.todo \cup {s} :
               Booked(t)' /\ r.listed[t] = bookings'[t].who \ {group}
          /\ \A t \in Schedule \ (r.todo \cup {s}) :
               Booked(t)' => group \notin bookings'[t].who
          /\ \A t \in Schedule \ spoilt' : Stripped(t, group)'
      BY <2>1, <2>5, <2>6
    <3> QED
      BY <2>5, <2>6, <3>1 DEF GroupHolding, ItemPcs, r
  <2>12. RoomUndoes(q)
    BY DEF RoomUndoes
  <2> QED
    BY <1>1, <1>2, <2>1, <2>4, <2>6, <2>8, <2>9, <2>10, <2>11, <2>12 DEF RoomStep, r
<1> QED
  BY <1>3, <1>4

\* A step that writes no row leaves the schedules as they are.
LEMMA RoomUnwritten ==
  ASSUME RoomInv, NEW q \in Call, home' = home, bookings' = bookings, roster' = roster
  PROVE  /\ RoomWrites(q)
         /\ \A t : /\ InOrder(t)' <=> InOrder(t)
                   /\ Rostered(t)' <=> Rostered(t)
                   /\ Booked(t)' <=> Booked(t)
                   /\ RowsThere(t)' = RowsThere(t)
         /\ \A t, g : Stripped(t, g)' <=> Stripped(t, g)
<1>1. \A t : /\ InOrder(t)' <=> InOrder(t)
             /\ Rostered(t)' <=> Rostered(t)
             /\ Booked(t)' <=> Booked(t)
             /\ RowsThere(t)' = RowsThere(t)
  BY DEF InOrder, Rostered, Booked, RowsThere
<1>2. \A t, g : Stripped(t, g)' <=> Stripped(t, g)
  BY <1>1 DEF Stripped, Placed
<1>3. RoomWrites(q)
  BY <1>1 DEF RoomWrites, RoomInv, RoomTypes
<1> QED
  BY <1>1, <1>2, <1>3

\* What a request makes of a whole schedule is whole.
LEMMA RoomSetRow ==
  ASSUME NEW q \in Call, NEW booking, IsBooking(booking)
  PROVE  /\ IsBooking(Set(q, booking))
         /\ call[q].kind = "patch" =>
              /\ Set(q, booking).room = call[q].room
              /\ Set(q, booking).sel = call[q].sel
         /\ call[q].kind \in {"move", "advance"} => Set(q, booking) = booking
         /\ call[q].kind = "assign" =>
              Set(q, booking) =
                [booking EXCEPT !.room = IF call[q].undoing THEN call[q].listed[call[q].s]
                                         ELSE call[q].new[call[q].s]]
         /\ call[q].kind = "group" =>
              Set(q, booking) = [booking EXCEPT !.who = call[q].listed[call[q].s]]
<1>1. DOMAIN booking = {"is", "room", "sel", "who"} /\ booking.is = "there"
  BY DEF IsBooking, Row
<1>2. \A x : [booking EXCEPT !.room = x] = Row(x, booking.sel, booking.who)
  BY <1>1 DEF Row
<1>8. \A x : [booking EXCEPT !.who = x] = Row(booking.room, booking.sel, x)
  BY <1>1 DEF Row
<1>3. \A room, sel, who : /\ IsBooking(Row(room, sel, who))
                          /\ Row(room, sel, who).room = room
                          /\ Row(room, sel, who).sel = sel
  BY DEF IsBooking, Row
<1>4. CASE call[q].kind = "patch"
  <2>1. Set(q, booking) = Row(call[q].room, call[q].sel, call[q].who)
    BY <1>4 DEF Set
  <2> QED
    BY <1>3, <1>4, <2>1
<1>5. CASE call[q].kind = "assign"
  <2> DEFINE room == IF call[q].undoing THEN call[q].listed[call[q].s]
                     ELSE call[q].new[call[q].s]
  <2>1. Set(q, booking) = [booking EXCEPT !.room = room]
    BY <1>5 DEF Set
  <2> HIDE DEF room
  <2>2. IsBooking([booking EXCEPT !.room = room])
    BY <1>2, <1>3
  <2> QED
    BY <1>5, <2>1, <2>2 DEF room
<1>6. CASE call[q].kind = "group"
  <2> DEFINE who == call[q].listed[call[q].s]
  <2>1. Set(q, booking) = [booking EXCEPT !.who = who]
    BY <1>6 DEF Set
  <2> HIDE DEF who
  <2>2. IsBooking([booking EXCEPT !.who = who])
    BY <1>8, <1>3
  <2> QED
    BY <1>6, <2>1, <2>2 DEF who
<1>7. CASE call[q].kind \notin {"patch", "assign", "group"}
  BY <1>7 DEF Set
<1> QED
  BY <1>4, <1>5, <1>6, <1>7

\* The read of a schedule.
LEMMA RoomUpdateRead ==
  ASSUME RoomInv, NEW q \in Call, UpdateRead(q)
  PROVE  RoomStep(q)
<1> DEFINE c == call[q]
<1>1. /\ c.pc = "read" /\ InFlight(q)
      /\ home' = home /\ bookings' = bookings /\ roster' = roster /\ undone' = undone
  BY DEF UpdateRead, At, InFlight, places
<1>2. CallRec(c) /\ spoilt \subseteq Schedule /\ (~c.raced => Informed(q))
  BY <1>1 DEF RoomInv, RoomTypes
<1>3. /\ c.kind \in {"patch", "move", "advance", "assign", "group"} /\ c.s \in c.scope
      /\ c.scope \subseteq Schedule /\ c.moved \subseteq Schedule
      /\ c.kind # "assign" => c.moved = {}
      /\ c.kind \in Wide => c.scope = Schedule
      /\ CallFields \cup KindFields(c) \subseteq DOMAIN c
  BY <1>1, <1>2 DEF CallRec, CallKinds, StepsOf, ItemPcs, Wide
<1>4. /\ RoomWrites(q) /\ RoomUndoes(q)
  BY <1>1, RoomUnwritten DEF RoomUndoes
<1>7. PICK s, group : s = c.s /\ group = c.group
  OBVIOUS
<1>5. CASE Booked(c.s)
  <2>1. PICK new : /\ new = Set(q, bookings[c.s])
                   /\ Goes(q, [pc |-> "write", row |-> new]) /\ spoilt' = spoilt
    BY <1>5 DEF UpdateRead, Booked
  <2> DEFINE fields == [pc |-> "write", row |-> new]
             r == call'[q]
  <2>2. DOMAIN fields = {"pc", "row"} /\ fields.pc = "write" /\ fields.row = new
    OBVIOUS
  <2> HIDE DEF fields
  <2>3. Goes(q, fields)
    BY <2>1 DEF fields
  <2>4. /\ DOMAIN call' = Call /\ \A o \in Call \ {q} : call'[o] = call[o]
        /\ DOMAIN r = DOMAIN fields \cup DOMAIN c
        /\ \A name \in DOMAIN fields : r[name] = fields[name]
        /\ \A name \in DOMAIN c \ DOMAIN fields : r[name] = c[name]
    BY <2>3, RoomGoes
  <2>5. IsBooking(bookings[c.s])
    BY <1>3, <1>5 DEF RoomInv, RoomTypes
  <2>6. IsBooking(new)
    BY <2>1, <2>5, RoomSetRow
  <2> HIDE DEF r
  <2>7. /\ CallRec(r) /\ r.pc = "write" /\ r.kind = c.kind /\ r.scope = c.scope
        /\ r.raced = c.raced /\ r.todo = c.todo /\ r.moved = c.moved /\ r.s = c.s
        /\ \A name \in DOMAIN c \ {"pc", "row"} : r[name] = c[name]
        /\ "clone" \in DOMAIN r <=> "clone" \in DOMAIN c
    <3>1. fields.pc \in StepsOf(c.kind) \cap (ItemPcs \cup {"delete"})
      BY <1>3, <2>2 DEF StepsOf, ItemPcs
    <3>2. c.kind \notin Wide \/ c.pc \in ItemPcs
      BY <1>1 DEF ItemPcs
    <3> HIDE DEF c
    <3> QED
      BY <1>2, <2>2, <2>4, <2>6, <3>1, <3>2, RoomItem
  <2>8. r.row = new
    BY <2>2, <2>4
  <2>9. InFlight(q)' /\ Reserved(q)' = Reserved(q)
    BY <1>1, <2>7 DEF InFlight, Reserved, ItemPcs, r
  <2>10. ~c.raced => Informed(q)'
    <3> SUFFICES ASSUME ~c.raced PROVE Informed(q)'
      OBVIOUS
    <3>1. CASE c.kind \in {"patch", "move", "advance"}
      <4>1. Holding(q)
        BY <1>2, <3>1 DEF Informed
      <4>2. \A t \in c.scope \ spoilt : InOrder(t)
        BY <1>1, <4>1 DEF Holding
      <4>3. \A t \in r.scope \ spoilt' : InOrder(t)'
        BY <1>1, <2>1, <2>7, <4>2, RoomUnwritten
      <4>4. Booked(s)' /\ bookings'[s] = bookings[s] /\ r.s = s
        BY <1>1, <1>5, <1>7, <2>7, RoomUnwritten
      <4>5. r.kind \in {"move", "advance"} => r.row = bookings[s]
        BY <1>7, <2>1, <2>5, <2>7, <2>8, RoomSetRow
      <4>6. r.kind = "patch" => /\ "clone" \notin DOMAIN r
                                /\ r.row.room = ResolvedRoom(home, r.row.sel)
        <5> SUFFICES ASSUME r.kind = "patch"
                     PROVE  /\ "clone" \notin DOMAIN r
                            /\ r.row.room = ResolvedRoom(home, r.row.sel)
          OBVIOUS
        <5>1. c.room = ResolvedRoom(home, c.sel)
          BY <1>1, <2>7, <4>1 DEF Holding
        <5>2. r.row.room = c.room /\ r.row.sel = c.sel
          BY <2>1, <2>5, <2>7, <2>8, RoomSetRow
        <5> QED
          BY <2>7, <5>1, <5>2 DEF CallRec
      <4>7. Holding(q)'
        BY <1>1, <2>7, <3>1, <4>3, <4>4, <4>5, <4>6 DEF Holding, r
      <4> QED
        BY <2>7, <3>1, <4>7 DEF Informed, r
    <3>2. CASE c.kind = "assign"
      <4>1. AssignHolding(q)
        BY <1>2, <3>2 DEF Informed
      <4>2. /\ "undoing" \in DOMAIN c /\ "new" \in DOMAIN c /\ "listed" \in DOMAIN c
        BY <1>1, <1>3, <3>2 DEF KindFields, ItemPcs
      <4>3. r.undoing = c.undoing /\ r.new = c.new /\ r.listed = c.listed
        BY <2>7, <4>2
      <4>4. r.row = [bookings'[r.s] EXCEPT !.room = IF r.undoing THEN r.listed[r.s]
                                                  ELSE r.new[r.s]]
        BY <1>1, <2>1, <2>5, <2>7, <2>8, <3>2, <4>3, RoomSetRow
      <4>5. /\ s \notin r.todo /\ (r.todo \cup {s}) \cap r.moved = {}
            /\ \A t \in r.todo \cup {s} : Booked(t)' /\ r.listed[t] # r.new[t]
            /\ \A t \in Schedule :
                 Booked(t)' => r.new[t] = ResolvedRoom(home', bookings'[t].sel)
            /\ \A t \in Schedule \ (spoilt' \cup {s}) : Rostered(t)'
            /\ \A t \in Schedule \ (spoilt' \cup {s} \cup r.todo) : InOrder(t)'
            /\ \A t \in r.moved : InOrder(t)'
            /\ ~r.undoing /\ s \notin spoilt' => Rostered(s)'
        <5>1. /\ s \notin c.todo /\ (c.todo \cup {s}) \cap c.moved = {}
              /\ \A t \in c.todo \cup {s} : Booked(t) /\ c.listed[t] # c.new[t]
              /\ \A t \in Schedule :
                   Booked(t) => c.new[t] = ResolvedRoom(home, bookings[t].sel)
              /\ \A t \in Schedule \ (spoilt \cup {s}) : Rostered(t)
              /\ \A t \in Schedule \ (spoilt \cup {s} \cup c.todo) : InOrder(t)
              /\ \A t \in c.moved : InOrder(t)
              /\ ~c.undoing /\ s \notin spoilt => Rostered(s)
          BY <1>1, <1>7, <4>1 DEF AssignHolding, ItemPcs
        <5> QED
          BY <1>1, <2>1, <2>7, <4>3, <5>1, RoomUnwritten
      <4>6. AssignHolding(q)'
        BY <1>7, <2>7, <4>4, <4>5 DEF AssignHolding, ItemPcs, r
      <4> QED
        BY <2>7, <3>2, <4>6 DEF Informed, r
    <3>3. CASE c.kind = "group"
      <4>1. GroupHolding(q)
        BY <1>2, <3>3 DEF Informed
      <4>2. /\ "group" \in DOMAIN c /\ "listed" \in DOMAIN c
        BY <1>1, <1>3, <3>3 DEF KindFields, ItemPcs
      <4>3. r.group = group /\ r.listed = c.listed
        BY <1>7, <2>7, <4>2
      <4>4. r.row = [bookings'[r.s] EXCEPT !.who = r.listed[r.s]]
        BY <1>1, <2>1, <2>5, <2>7, <2>8, <3>3, <4>3, RoomSetRow
      <4>5. /\ s \notin r.todo
            /\ \A t \in r.todo \cup {s} :
                 Booked(t)' /\ r.listed[t] = bookings'[t].who \ {group}
            /\ \A t \in Schedule \ (r.todo \cup {s}) :
                 Booked(t)' => group \notin bookings'[t].who
            /\ \A t \in Schedule \ spoilt' : Stripped(t, group)'
        <5>1. /\ s \notin c.todo
              /\ \A t \in c.todo \cup {s} :
                   Booked(t) /\ c.listed[t] = bookings[t].who \ {group}
              /\ \A t \in Schedule \ (c.todo \cup {s}) :
                   Booked(t) => group \notin bookings[t].who
              /\ \A t \in Schedule \ spoilt : Stripped(t, group)
          BY <1>1, <1>7, <4>1 DEF GroupHolding, ItemPcs
        <5> QED
          BY <1>1, <2>1, <2>7, <4>3, <5>1, RoomUnwritten
      <4>6. GroupHolding(q)'
        BY <1>7, <2>7, <4>3, <4>4, <4>5 DEF GroupHolding, ItemPcs, r
      <4> QED
        BY <2>7, <3>3, <4>6 DEF Informed, r
    <3> QED
      BY <1>3, <3>1, <3>2, <3>3
  <2> QED
    BY <1>1, <1>2, <1>4, <2>1, <2>4, <2>7, <2>9, <2>10 DEF RoomStep, r
<1>6. CASE ~Booked(c.s)
  <2>0. c.raced
    <3> SUFFICES ASSUME ~c.raced PROVE FALSE
      OBVIOUS
    <3> QED
      BY <1>1, <1>2, <1>3, <1>6
         DEF Informed, Holding, AssignHolding, GroupHolding, ItemPcs
  <2>1. CASE c.kind = "assign"
    <3>1. Continues(q, c.moved, {}) /\ c.pc \in ItemPcs
      BY <1>1, <1>6, <2>1 DEF UpdateRead, Booked, ItemPcs
    <3> QED
      BY <1>1, <1>3, <1>4, <2>0, <2>1, <3>1, RoomMoving
  <2>2. CASE c.kind = "group"
    <3>1. Continues(q, {}, {}) /\ c.pc \in ItemPcs
      BY <1>1, <1>3, <1>6, <2>2 DEF UpdateRead, Booked, ItemPcs
    <3> QED
      BY <1>1, <1>3, <1>4, <2>0, <2>2, <3>1, RoomStripping
  <2>3. CASE c.kind \notin {"assign", "group"}
    <3>1. Ends(q, {}, {})
      BY <1>6, <2>3 DEF UpdateRead, Booked
    <3> QED
      BY <1>1, <1>4, <2>0, <3>1, RoomEnds
  <2> QED
    BY <2>1, <2>2, <2>3
<1> QED
  BY <1>5, <1>6

\* The write of a schedule leaves the others and every calendar row.
LEMMA RoomWritten ==
  ASSUME RoomInv, NEW q \in Call, InFlight(q), NEW s, s = call[q].s,
         call[q].pc = "write", bookings' = [bookings EXCEPT ![s] = call[q].row],
         home' = home, roster' = roster
  PROVE  /\ RoomWrites(q) /\ s \in Schedule /\ s \in call[q].scope
         /\ bookings'[s] = call[q].row /\ IsBooking(call[q].row) /\ Booked(s)'
         /\ \A t : RowsThere(t)' = RowsThere(t)
         /\ \A t \in Schedule \ {s} : /\ bookings'[t] = bookings[t]
                                      /\ Booked(t)' <=> Booked(t)
                                      /\ Rostered(t)' <=> Rostered(t)
                                      /\ InOrder(t)' <=> InOrder(t)
                                      /\ \A g : Stripped(t, g)' <=> Stripped(t, g)
<1> DEFINE c == call[q]
<1>1. CallRec(c)
  BY DEF RoomInv, RoomTypes
<1>2. /\ s \in Reserved(q) /\ s \in c.scope /\ c.scope \subseteq Schedule
      /\ IsBooking(c.row)
  BY <1>1 DEF CallRec, Reserved, ItemPcs, StepsOf, CallKinds
<1>3. DOMAIN bookings = Schedule /\ \A t \in Schedule : Booked(t) => IsBooking(bookings[t])
  BY DEF RoomInv, RoomTypes
<1>4. /\ DOMAIN bookings' = Schedule /\ bookings'[s] = c.row
      /\ \A t \in Schedule \ {s} : bookings'[t] = bookings[t]
  BY <1>2, <1>3
<1>5. c.row.is = "there"
  BY <1>2 DEF IsBooking, Row
<1>6. \A t : RowsThere(t)' = RowsThere(t)
  BY DEF RowsThere
<1>7. \A t \in Schedule \ {s} : /\ Booked(t)' <=> Booked(t)
                                /\ Rostered(t)' <=> Rostered(t)
                                /\ InOrder(t)' <=> InOrder(t)
  BY <1>4, <1>6 DEF Booked, Rostered, InOrder
<1>8. \A t \in Schedule \ {s} : \A g : Stripped(t, g)' <=> Stripped(t, g)
  BY <1>4, <1>6 DEF Booked, Stripped, Placed
<1>9. Booked(s)'
  BY <1>4, <1>5 DEF Booked
<1>10. RoomWrites(q)
  BY <1>2, <1>3, <1>4, <1>6, <1>7, <1>9 DEF RoomWrites
<1> QED
  BY <1>2, <1>4, <1>6, <1>7, <1>8, <1>9, <1>10

\* The write of a schedule.
LEMMA RoomUpdateWrite ==
  ASSUME RoomInv, NEW q \in Call, UpdateWrite(q)
  PROVE  RoomStep(q)
<1> DEFINE c == call[q]
<1>1. /\ c.pc = "write" /\ InFlight(q) /\ home' = home /\ roster' = roster
      /\ bookings' = [bookings EXCEPT ![c.s] = c.row]
  BY DEF UpdateWrite, At, InFlight, places
<1>2. CallRec(c) /\ spoilt \subseteq Schedule /\ (~c.raced => Informed(q))
  BY <1>1 DEF RoomInv, RoomTypes
<1>3. PICK s, group : s = c.s /\ group = c.group
  OBVIOUS
<1>4. /\ RoomWrites(q) /\ s \in Schedule /\ s \in c.scope
      /\ bookings'[s] = c.row /\ IsBooking(c.row) /\ Booked(s)'
      /\ \A t : RowsThere(t)' = RowsThere(t)
      /\ \A t \in Schedule \ {s} : /\ bookings'[t] = bookings[t]
                                   /\ Booked(t)' <=> Booked(t)
                                   /\ Rostered(t)' <=> Rostered(t)
                                   /\ InOrder(t)' <=> InOrder(t)
                                   /\ \A g : Stripped(t, g)' <=> Stripped(t, g)
  BY <1>1, <1>3, RoomWritten
<1>5. /\ c.kind \in {"patch", "create", "move", "advance", "assign", "group"}
      /\ c.scope \subseteq Schedule /\ c.moved \subseteq Schedule
      /\ c.kind \in Wide => c.scope = Schedule
      /\ CallFields \cup KindFields(c) \subseteq DOMAIN c /\ "row" \in DOMAIN c
      /\ c.kind = "assign" => c.undoing \in BOOLEAN
  BY <1>1, <1>2 DEF CallRec, CallKinds, StepsOf, ItemPcs, Wide
<1>6. Booked(s) => IsBooking(bookings[s])
  BY <1>4 DEF RoomInv, RoomTypes
<1>7. CASE c.kind \in {"patch", "create"} \/ (c.kind = "assign" /\ ~c.undoing)
  <2>1. /\ Goes(q, [pc |-> "clear"]) /\ spoilt' = spoilt /\ undone' = undone
    BY <1>7 DEF UpdateWrite
  <2> DEFINE fields == [pc |-> "clear"]
             r == call'[q]
  <2>2. DOMAIN fields = {"pc"} /\ fields.pc = "clear"
    OBVIOUS
  <2> HIDE DEF fields
  <2>3. Goes(q, fields)
    BY <2>1 DEF fields
  <2>4. /\ DOMAIN call' = Call /\ \A o \in Call \ {q} : call'[o] = call[o]
        /\ DOMAIN r = DOMAIN fields \cup DOMAIN c
        /\ \A name \in DOMAIN fields : r[name] = fields[name]
        /\ \A name \in DOMAIN c \ DOMAIN fields : r[name] = c[name]
    BY <2>3, RoomGoes
  <2> HIDE DEF r
  <2>5. /\ CallRec(r) /\ r.pc = "clear" /\ r.kind = c.kind /\ r.scope = c.scope
        /\ r.raced = c.raced /\ r.todo = c.todo /\ r.moved = c.moved /\ r.s = c.s
        /\ \A name \in DOMAIN c \ {"pc", "row"} : r[name] = c[name]
        /\ "clone" \in DOMAIN r <=> "clone" \in DOMAIN c
    <3>1. fields.pc \in StepsOf(c.kind) \cap (ItemPcs \cup {"delete"})
      BY <1>7, <2>2 DEF StepsOf, ItemPcs
    <3>2. c.kind \notin Wide \/ c.pc \in ItemPcs
      BY <1>1 DEF ItemPcs
    <3>3. c.pc \in {"write", "clear", "insert"} /\ "row" \notin DOMAIN fields
      BY <1>1, <2>2
    <3> HIDE DEF c
    <3> QED
      BY <1>2, <2>2, <2>4, <3>1, <3>2, <3>3, RoomItem
  <2>6. r.row = c.row
    BY <1>5, <2>2, <2>4
  <2>7. InFlight(q)' /\ Reserved(q)' = Reserved(q)
    BY <1>1, <2>5 DEF InFlight, Reserved, ItemPcs, r
  <2>8. ~c.raced => Informed(q)'
    <3> SUFFICES ASSUME ~c.raced PROVE Informed(q)'
      OBVIOUS
    <3>1. CASE c.kind \in {"patch", "create"}
      <4>1. Holding(q)
        BY <1>2, <3>1 DEF Informed
      <4>2. \A t \in r.scope \ spoilt' : t = s \/ InOrder(t)'
        BY <1>1, <1>4, <1>5, <2>1, <2>5, <4>1 DEF Holding
      <4>3. IF "clone" \in DOMAIN r THEN r.row = r.before
            ELSE r.row.room = ResolvedRoom(home', r.row.sel)
        <5>1. "clone" \in DOMAIN c => "before" \in DOMAIN c
          BY <1>2, <3>1 DEF CallRec
        <5> QED
          BY <1>1, <2>5, <2>6, <3>1, <4>1, <5>1 DEF Holding
      <4>4. Holding(q)'
        BY <1>3, <1>4, <2>5, <2>6, <3>1, <4>2, <4>3 DEF Holding, r
      <4> QED
        BY <2>5, <3>1, <4>4 DEF Informed, r
    <3>2. CASE c.kind = "assign" /\ ~c.undoing
      <4>1. AssignHolding(q)
        BY <1>2, <3>2 DEF Informed
      <4>2. r.undoing = c.undoing /\ r.new = c.new /\ r.listed = c.listed
        BY <1>1, <1>5, <2>5, <3>2 DEF KindFields, ItemPcs
      <4>3. /\ s \notin c.todo /\ (c.todo \cup {s}) \cap c.moved = {}
            /\ \A t \in c.todo \cup {s} : Booked(t) /\ c.listed[t] # c.new[t]
            /\ \A t \in Schedule :
                 Booked(t) => c.new[t] = ResolvedRoom(home, bookings[t].sel)
            /\ \A t \in Schedule \ (spoilt \cup {s}) : Rostered(t)
            /\ \A t \in Schedule \ (spoilt \cup {s} \cup c.todo) : InOrder(t)
            /\ \A t \in c.moved : InOrder(t)
            /\ c.row = [bookings[s] EXCEPT !.room = c.new[s]]
        BY <1>1, <1>3, <3>2, <4>1 DEF AssignHolding, ItemPcs
      <4>4. c.row.room = c.new[s] /\ c.row.sel = bookings[s].sel
        BY <1>6, <4>3 DEF IsBooking, Row
      <4>5. /\ \A t \in c.todo \cup {s} : Booked(t)'
            /\ \A t \in Schedule :
                 Booked(t)' => c.new[t] = ResolvedRoom(home', bookings'[t].sel)
            /\ \A t \in Schedule \ (spoilt' \cup {s}) : Rostered(t)'
            /\ \A t \in Schedule \ (spoilt' \cup {s} \cup c.todo) : InOrder(t)'
            /\ \A t \in c.moved : InOrder(t)'
        <5>1. c.todo \subseteq Schedule
          BY <1>2 DEF CallRec
        <5> QED
          BY <1>1, <1>4, <1>5, <2>1, <4>3, <4>4, <5>1
      <4>6. AssignHolding(q)'
        BY <1>3, <1>4, <2>5, <2>6, <3>2, <4>2, <4>3, <4>4, <4>5 DEF AssignHolding,
           ItemPcs, r
      <4> QED
        BY <2>5, <3>2, <4>6 DEF Informed, r
    <3> QED
      BY <1>7, <3>1, <3>2
  <2>9. RoomUndoes(q)
    BY <2>1 DEF RoomUndoes
  <2> QED
    BY <1>1, <1>2, <1>4, <2>1, <2>4, <2>5, <2>7, <2>8, <2>9 DEF RoomStep, r
<1>8. CASE c.kind = "assign" /\ c.undoing
  <2>1. /\ Continues(q, c.moved, {s})
        /\ undone' = IF c.raced THEN undone ELSE undone \cup {s}
    BY <1>3, <1>8 DEF UpdateWrite
  <2>2. ASSUME ~c.raced
        PROVE  /\ s \notin c.todo /\ c.todo \cap c.moved = {}
               /\ \A t \in c.todo : Booked(t)' /\ c.listed[t] # c.new[t]
               /\ \A t \in Schedule :
                    Booked(t)' => c.new[t] = ResolvedRoom(home', bookings'[t].sel)
               /\ \A t \in Schedule \ (spoilt \cup {s}) : Rostered(t)'
               /\ \A t \in Schedule \ (spoilt \cup {s} \cup c.todo) : InOrder(t)'
               /\ \A t \in c.moved : InOrder(t)'
               /\ bookings'[s].room # ResolvedRoom(home', bookings'[s].sel)
    <3>1. AssignHolding(q)
      BY <1>2, <1>8, <2>2 DEF Informed
    <3>2. /\ s \notin c.todo /\ (c.todo \cup {s}) \cap c.moved = {}
          /\ \A t \in c.todo \cup {s} : Booked(t) /\ c.listed[t] # c.new[t]
          /\ \A t \in Schedule : Booked(t) => c.new[t] = ResolvedRoom(home, bookings[t].sel)
          /\ \A t \in Schedule \ (spoilt \cup {s}) : Rostered(t)
          /\ \A t \in Schedule \ (spoilt \cup {s} \cup c.todo) : InOrder(t)
          /\ \A t \in c.moved : InOrder(t)
          /\ c.row = [bookings[s] EXCEPT !.room = c.listed[s]]
      BY <1>1, <1>3, <1>8, <3>1 DEF AssignHolding, ItemPcs
    <3>3. c.row.room = c.listed[s] /\ c.row.sel = bookings[s].sel
      BY <1>6, <3>2 DEF IsBooking, Row
    <3>4. c.todo \subseteq Schedule
      BY <1>2 DEF CallRec
    <3>5. \A t \in c.todo : Booked(t)' /\ c.listed[t] # c.new[t]
      BY <1>4, <3>2, <3>4
    <3>6. \A t \in Schedule : Booked(t)' => c.new[t] = ResolvedRoom(home', bookings'[t].sel)
      BY <1>1, <1>4, <3>2, <3>3
    <3>7. /\ \A t \in Schedule \ (spoilt \cup {s}) : Rostered(t)'
          /\ \A t \in Schedule \ (spoilt \cup {s} \cup c.todo) : InOrder(t)'
      BY <1>4, <3>2
    <3>8. \A t \in c.moved : InOrder(t)'
      BY <1>4, <1>5, <3>2
    <3>9. bookings'[s].room # ResolvedRoom(home', bookings'[s].sel)
      <4>1. c.listed[s] # c.new[s] /\ c.new[s] = ResolvedRoom(home, bookings[s].sel)
        BY <1>4, <3>2
      <4>2. bookings'[s].room = c.listed[s] /\ bookings'[s].sel = bookings[s].sel
        BY <1>4, <3>3
      <4> QED
        BY <1>1, <4>1, <4>2
    <3> QED
      BY <3>2, <3>5, <3>6, <3>7, <3>8, <3>9
  <2>3. \/ undone' = undone
        \/ /\ ~c.raced /\ undone' = undone \cup {s}
           /\ \A t \in Schedule : t = s /\ Booked(t)' => ~Placed(t)'
    BY <2>1, <2>2 DEF Placed
  <2>4. c.pc \in ItemPcs
    BY <1>1 DEF ItemPcs
  <2>5. {s} \subseteq Schedule /\ c.moved \subseteq Schedule
    BY <1>4, <1>5
  <2> QED
    BY <1>1, <1>3, <1>4, <1>8, <2>1, <2>2, <2>3, <2>4, <2>5, RoomMoving
<1>9. CASE c.kind = "group"
  <2>1. Continues(q, {}, {}) /\ undone' = undone
    BY <1>9 DEF UpdateWrite
  <2>2. ASSUME ~c.raced
        PROVE  /\ \A t \in c.todo :
                    Booked(t)' /\ c.listed[t] = bookings'[t].who \ {group}
               /\ \A t \in Schedule \ c.todo : Booked(t)' => group \notin bookings'[t].who
               /\ \A t \in Schedule \ spoilt : Stripped(t, group)'
    <3>1. GroupHolding(q)
      BY <1>2, <1>9, <2>2 DEF Informed
    <3>2. /\ s \notin c.todo
          /\ \A t \in c.todo \cup {s} :
               Booked(t) /\ c.listed[t] = bookings[t].who \ {group}
          /\ \A t \in Schedule \ (c.todo \cup {s}) :
               Booked(t) => group \notin bookings[t].who
          /\ \A t \in Schedule \ spoilt : Stripped(t, group)
          /\ c.row = [bookings[s] EXCEPT !.who = c.listed[s]]
      BY <1>1, <1>3, <1>9, <3>1 DEF GroupHolding, ItemPcs
    <3>3. /\ c.row.who = bookings[s].who \ {group} /\ c.row.sel = bookings[s].sel
          /\ c.row.room = bookings[s].room
      BY <1>6, <3>2 DEF IsBooking, Row
    <3>4. c.todo \subseteq Schedule
      BY <1>2 DEF CallRec
    <3>5. {x \in RowsOf(s, c.row) : x.subject # group}
            = {x \in RowsOf(s, bookings[s]) : x.subject # group}
      BY <3>3 DEF RowsOf
    <3>6. s \notin spoilt => Stripped(s, group)'
      BY <1>1, <1>4, <3>2, <3>3, <3>5 DEF Stripped, Placed
    <3> QED
      BY <1>1, <1>4, <3>2, <3>3, <3>4, <3>6
  <2>3. c.pc \in ItemPcs
    BY <1>1 DEF ItemPcs
  <2> QED
    BY <1>1, <1>3, <1>4, <1>9, <2>1, <2>2, <2>3, RoomStripping
<1>10. CASE c.kind = "advance"
  <2>1. Ends(q, {}, {}) /\ undone' = undone
    BY <1>10 DEF UpdateWrite
  <2>2. ASSUME ~c.raced, NEW t \in c.scope, t \notin spoilt
        PROVE  InOrder(t)'
    <3>1. Holding(q)
      BY <1>2, <1>10, <2>2 DEF Informed
    <3>2. InOrder(t) /\ c.row = bookings[s]
      BY <1>1, <1>3, <1>10, <2>2, <3>1 DEF Holding
    <3>3. bookings'[t] = bookings[t]
      BY <1>4, <1>5, <2>2, <3>2
    <3> QED
      BY <1>1, <1>4, <3>2, <3>3, RoomSame
  <2>3. RoomUndoes(q)
    BY <2>1 DEF RoomUndoes
  <2> QED
    BY <1>1, <1>4, <2>1, <2>2, <2>3, RoomEnds
<1>11. CASE c.kind = "move"
  <2>1. PICK clone, before :
          /\ clone = c.clone /\ before = c.before
          /\ Goes(q, [kind |-> "create", s |-> clone, row |-> before])
          /\ spoilt' = spoilt /\ undone' = undone
    BY <1>11 DEF UpdateWrite
  <2> DEFINE fields == [kind |-> "create", s |-> clone, row |-> before]
             r == call'[q]
  <2>2. /\ DOMAIN fields = {"kind", "s", "row"} /\ fields.kind = "create"
        /\ fields.s = clone /\ fields.row = before
    OBVIOUS
  <2> HIDE DEF fields
  <2>3. Goes(q, fields)
    BY <2>1 DEF fields
  <2>4. /\ DOMAIN call' = Call /\ \A o \in Call \ {q} : call'[o] = call[o]
        /\ DOMAIN r = DOMAIN fields \cup DOMAIN c
        /\ \A name \in DOMAIN fields : r[name] = fields[name]
        /\ \A name \in DOMAIN c \ DOMAIN fields : r[name] = c[name]
    BY <2>3, RoomGoes
  <2> HIDE DEF r
  <2>5. /\ r.kind = "create" /\ r.s = clone /\ r.row = before
    BY <2>2, <2>4
  <2>6. CallFields \cup {"s", "clone", "before"} \subseteq DOMAIN c
    BY <1>5, <1>11 DEF KindFields
  <2>7. /\ r.pc = "write" /\ r.scope = c.scope /\ r.raced = c.raced
        /\ r.todo = c.todo /\ r.moved = c.moved /\ r.clone = clone /\ r.before = before
        /\ CallFields \cup {"s", "clone", "before", "row"} \subseteq DOMAIN r
    BY <1>1, <2>1, <2>2, <2>4, <2>6 DEF CallFields
  <2>8. /\ clone \in c.scope /\ clone # s /\ IsBooking(before) /\ c.moved = {}
        /\ c.raced \in BOOLEAN /\ c.todo \subseteq Schedule
    BY <1>2, <1>3, <1>11, <2>1 DEF CallRec
  <2>9. CallRec(r)
    BY <1>4, <1>5, <2>5, <2>7, <2>8
       DEF CallRec, CallKinds, StepsOf, ItemPcs, KindFields, Wide
  <2>10. InFlight(q)' /\ Reserved(q)' = Reserved(q)
    BY <1>1, <1>11, <2>5, <2>7 DEF InFlight, Reserved, r
  <2>11. ~c.raced => Informed(q)'
    <3> SUFFICES ASSUME ~c.raced PROVE Holding(q)'
      BY <2>5 DEF Informed, r
    <3>1. Holding(q)
      BY <1>2, <1>11 DEF Informed
    <3>2. /\ c.row = bookings[s] /\ \A t \in c.scope \ spoilt : InOrder(t)
      BY <1>1, <1>3, <1>11, <3>1 DEF Holding
    <3>3. \A t \in c.scope : bookings'[t] = bookings[t]
      BY <1>4, <1>5, <3>2
    <3>4. \A t \in r.scope \ spoilt' : InOrder(t)'
      BY <1>1, <1>4, <2>1, <2>7, <3>2, <3>3, RoomSame
    <3>5. \A t \in r.scope \ {r.clone} : Booked(t)'
      <4>1. c.scope = {s, clone} /\ Booked(s)
        BY <1>1, <1>2, <1>3, <1>11, <2>1, <3>1 DEF CallRec, Holding
      <4> QED
        BY <2>7, <3>3, <4>1 DEF Booked
    <3> QED
      BY <2>5, <2>7, <3>4, <3>5 DEF Holding, r
  <2>12. RoomUndoes(q)
    BY <2>1 DEF RoomUndoes
  <2> QED
    BY <1>1, <1>2, <1>4, <2>1, <2>4, <2>7, <2>9, <2>10, <2>11, <2>12 DEF RoomStep, r
<1> QED
  BY <1>5, <1>7, <1>8, <1>9, <1>10, <1>11

\* A request that has reconciled the calendar rows of a schedule takes the next one, or
\* ends.
LEMMA RoomReconciled ==
  ASSUME RoomInv, NEW q \in Call, InFlight(q), NEW s, s = call[q].s,
         call[q].pc \in {"clear", "insert"}, Reconciled(q),
         home' = home, bookings' = bookings, undone' = undone,
         \A t \in Schedule \ {s} : RowsThere(t)' = RowsThere(t),
         ~call[q].raced => Rostered(s)'
  PROVE  RoomStep(q)
<1> DEFINE c == call[q]
<1>1. CallRec(c) /\ spoilt \subseteq Schedule /\ (~c.raced => Informed(q))
  BY DEF RoomInv, RoomTypes
<1>2. /\ c.kind \in {"patch", "create", "delete", "assign"} /\ s \in c.scope
      /\ c.scope \subseteq Schedule /\ c.moved \subseteq Schedule
      /\ c.todo \subseteq Schedule
      /\ c.kind \in Wide => c.scope = Schedule
      /\ c.pc \in ItemPcs
  BY <1>1 DEF CallRec, CallKinds, StepsOf, ItemPcs, Wide
<1>3. \A t : Booked(t)' <=> Booked(t)
  BY DEF Booked
<1>4. \A t \in Schedule \ {s} : /\ Rostered(t)' <=> Rostered(t)
                                /\ InOrder(t)' <=> InOrder(t)
  BY <1>3 DEF Rostered, InOrder
<1>5. RoomWrites(q)
  BY <1>2, <1>3 DEF RoomWrites, RoomInv, RoomTypes
<1>6. RoomUndoes(q)
  BY DEF RoomUndoes
<1>7. CASE c.kind = "assign"
  <2>1. Continues(q, c.moved \cup {s}, {})
    BY <1>7 DEF Reconciled
  <2>2. ASSUME ~c.raced
        PROVE  /\ s \notin c.todo /\ c.todo \cap (c.moved \cup {s}) = {}
               /\ \A t \in c.todo : Booked(t)' /\ c.listed[t] # c.new[t]
               /\ \A t \in Schedule :
                    Booked(t)' => c.new[t] = ResolvedRoom(home', bookings'[t].sel)
               /\ \A t \in Schedule \ spoilt : Rostered(t)'
               /\ \A t \in Schedule \ (spoilt \cup c.todo) : InOrder(t)'
               /\ \A t \in c.moved \cup {s} : InOrder(t)'
    <3>1. AssignHolding(q)
      BY <1>1, <1>7, <2>2 DEF Informed
    <3>2. /\ s \notin c.todo /\ (c.todo \cup {s}) \cap c.moved = {}
          /\ \A t \in c.todo \cup {s} : Booked(t) /\ c.listed[t] # c.new[t]
          /\ \A t \in Schedule : Booked(t) => c.new[t] = ResolvedRoom(home, bookings[t].sel)
          /\ \A t \in Schedule \ (spoilt \cup {s}) : Rostered(t)
          /\ \A t \in Schedule \ (spoilt \cup {s} \cup c.todo) : InOrder(t)
          /\ \A t \in c.moved : InOrder(t)
          /\ bookings[s].room = c.new[s]
      BY <1>2, <3>1 DEF AssignHolding
    <3>3. InOrder(s)'
      <4>1. bookings[s].room = ResolvedRoom(home, bookings[s].sel)
        BY <1>2, <3>2
      <4> QED
        BY <2>2, <4>1 DEF InOrder, Rostered
    <3>4. \A t \in c.todo : Booked(t)'
      BY <1>3, <3>2
    <3>5. \A t \in Schedule : Booked(t)' => c.new[t] = ResolvedRoom(home', bookings'[t].sel)
      BY <1>3, <3>2
    <3>6. /\ \A t \in Schedule \ spoilt : Rostered(t)'
          /\ \A t \in Schedule \ (spoilt \cup c.todo) : InOrder(t)'
      BY <1>4, <2>2, <3>2, <3>3
    <3>7. \A t \in c.moved \cup {s} : InOrder(t)'
      BY <1>2, <1>4, <3>2, <3>3
    <3> QED
      BY <3>2, <3>4, <3>5, <3>6, <3>7
  <2>3. c.moved \cup {s} \subseteq Schedule
    BY <1>2
  <2> QED
    BY <1>2, <1>5, <1>7, <2>1, <2>2, <2>3, RoomMoving
<1>8. CASE c.kind # "assign"
  <2>1. IF "clone" \in DOMAIN c /\ c.before.room # ResolvedRoom(home, c.before.sel)
        THEN Ends(q, {s}, {}) ELSE Ends(q, {}, {s})
    BY <1>8 DEF Reconciled, EndsWith
  <2>2. c.kind \in {"patch", "create", "delete"}
    BY <1>2, <1>8
  <2>3. ASSUME ~c.raced
        PROVE  /\ \A t \in c.scope \ (spoilt \cup {s}) : InOrder(t)'
               /\ \/ "clone" \in DOMAIN c /\ c.before.room # ResolvedRoom(home, c.before.sel)
                  \/ InOrder(s)'
    <3>1. Holding(q)
      BY <1>1, <2>2, <2>3 DEF Informed
    <3>2. \A t \in c.scope \ (spoilt \cup {s}) : InOrder(t)
      BY <3>1 DEF Holding
    <3>3. \A t \in c.scope \ (spoilt \cup {s}) : InOrder(t)'
      BY <1>2, <1>4, <3>2
    <3>4. CASE c.kind = "delete"
      <4>1. c.pc = "clear"
        BY <1>1, <3>4 DEF CallRec, StepsOf
      <4>2. ~Booked(s)
        BY <3>1, <3>4, <4>1 DEF Holding
      <4>3. InOrder(s)'
        BY <1>3, <2>3, <4>2 DEF Rostered, InOrder
      <4> QED
        BY <3>3, <4>3
    <3>5. CASE c.kind \in {"patch", "create"}
      <4>1. /\ bookings[s] = c.row
            /\ IF "clone" \in DOMAIN c THEN c.row = c.before
               ELSE c.row.room = ResolvedRoom(home, c.row.sel)
        BY <3>1, <3>5 DEF Holding
      <4>2. bookings[s].room = ResolvedRoom(home, bookings[s].sel) => InOrder(s)'
        BY <2>3 DEF Rostered, InOrder
      <4> QED
        BY <3>3, <4>1, <4>2
    <3> QED
      BY <2>2, <3>4, <3>5
  <2>4. CASE "clone" \in DOMAIN c /\ c.before.room # ResolvedRoom(home, c.before.sel)
    <3>1. Ends(q, {s}, {})
      BY <2>1, <2>4
    <3>2. {s} \subseteq c.scope
      BY <1>2
    <3> QED
      BY <1>5, <1>6, <2>3, <3>1, <3>2, RoomEnds
  <2>5. CASE ~("clone" \in DOMAIN c /\ c.before.room # ResolvedRoom(home, c.before.sel))
    <3>1. Ends(q, {}, {s})
      BY <2>1, <2>5
    <3>2. {s} \subseteq c.scope
      BY <1>2
    <3> QED
      BY <1>5, <1>6, <2>3, <2>5, <3>1, <3>2, RoomEnds
  <2> QED
    BY <2>4, <2>5
<1> QED
  BY <1>7, <1>8

\* The deletion of a schedule's calendar rows.
LEMMA RoomClearRows ==
  ASSUME RoomInv, NEW q \in Call, ClearRows(q)
  PROVE  RoomStep(q)
<1> DEFINE c == call[q]
<1>1. /\ c.pc = "clear" /\ InFlight(q)
      /\ home' = home /\ bookings' = bookings /\ undone' = undone
      /\ roster' = {x \in roster : x.schedule # c.s}
  BY DEF ClearRows, At, InFlight, places
<1>2. CallRec(c) /\ spoilt \subseteq Schedule /\ (~c.raced => Informed(q))
  BY <1>1 DEF RoomInv, RoomTypes
<1>3. PICK s : s = c.s
  OBVIOUS
<1>4. /\ c.kind \in {"patch", "create", "delete", "assign"} /\ s \in c.scope
      /\ c.scope \subseteq Schedule
      /\ c.kind \in Wide => c.scope = Schedule
      /\ CallFields \cup KindFields(c) \subseteq DOMAIN c
      /\ c.kind # "delete" => "row" \in DOMAIN c
  BY <1>1, <1>2, <1>3 DEF CallRec, CallKinds, StepsOf, ItemPcs, Wide
<1>5. RowsThere(s)' = {} /\ \A t \in Schedule \ {s} : RowsThere(t)' = RowsThere(t)
  BY <1>1, <1>3 DEF RowsThere
<1>6. \A t : Booked(t)' <=> Booked(t)
  BY <1>1 DEF Booked
<1>7. CASE c.kind # "delete" /\ RowsOf(s, c.row) # {}
  <2>1. Goes(q, [pc |-> "insert"]) /\ spoilt' = spoilt
    BY <1>3, <1>7 DEF ClearRows
  <2> DEFINE fields == [pc |-> "insert"]
             r == call'[q]
  <2>2. DOMAIN fields = {"pc"} /\ fields.pc = "insert"
    OBVIOUS
  <2> HIDE DEF fields
  <2>3. Goes(q, fields)
    BY <2>1 DEF fields
  <2>4. /\ DOMAIN call' = Call /\ \A o \in Call \ {q} : call'[o] = call[o]
        /\ DOMAIN r = DOMAIN fields \cup DOMAIN c
        /\ \A name \in DOMAIN fields : r[name] = fields[name]
        /\ \A name \in DOMAIN c \ DOMAIN fields : r[name] = c[name]
    BY <2>3, RoomGoes
  <2> HIDE DEF r
  <2>5. /\ CallRec(r) /\ r.pc = "insert" /\ r.kind = c.kind /\ r.scope = c.scope
        /\ r.raced = c.raced /\ r.todo = c.todo /\ r.moved = c.moved /\ r.s = c.s
        /\ \A name \in DOMAIN c \ {"pc", "row"} : r[name] = c[name]
        /\ "clone" \in DOMAIN r <=> "clone" \in DOMAIN c
    <3>1. fields.pc \in StepsOf(c.kind) \cap (ItemPcs \cup {"delete"})
      BY <1>4, <1>7, <2>2 DEF StepsOf, ItemPcs
    <3>2. c.kind \notin Wide \/ c.pc \in ItemPcs
      BY <1>1 DEF ItemPcs
    <3>3. c.pc \in {"write", "clear", "insert"} /\ "row" \notin DOMAIN fields
      BY <1>1, <2>2
    <3> HIDE DEF c
    <3> QED
      BY <1>2, <2>2, <2>4, <3>1, <3>2, <3>3, RoomItem
  <2>6. r.row = c.row
    BY <1>4, <1>7, <2>2, <2>4
  <2>7. InFlight(q)' /\ Reserved(q)' = Reserved(q)
    BY <1>1, <2>5 DEF InFlight, Reserved, ItemPcs, r
  <2>8. \A t \in Schedule \ {s} : /\ Rostered(t)' <=> Rostered(t)
                                  /\ InOrder(t)' <=> InOrder(t)
    BY <1>1, <1>5, <1>6 DEF Rostered, InOrder
  <2>9. ~c.raced => Informed(q)'
    <3> SUFFICES ASSUME ~c.raced PROVE Informed(q)'
      OBVIOUS
    <3>1. CASE c.kind \in {"patch", "create"}
      <4>1. Holding(q)
        BY <1>2, <3>1 DEF Informed
      <4>2. \A t \in r.scope \ spoilt' : t = s \/ InOrder(t)'
        BY <1>3, <1>4, <2>1, <2>5, <2>8, <4>1 DEF Holding
      <4>3. IF "clone" \in DOMAIN r THEN r.row = r.before
            ELSE r.row.room = ResolvedRoom(home', r.row.sel)
        <5>1. "clone" \in DOMAIN c => "before" \in DOMAIN c
          BY <1>2, <3>1 DEF CallRec
        <5> QED
          BY <1>1, <2>5, <2>6, <3>1, <4>1, <5>1 DEF Holding
      <4>4. bookings'[s] = r.row
        BY <1>1, <1>3, <2>6, <3>1, <4>1 DEF Holding
      <4>5. Holding(q)'
        BY <1>3, <1>5, <2>5, <3>1, <4>2, <4>3, <4>4 DEF Holding, r
      <4> QED
        BY <2>5, <3>1, <4>5 DEF Informed, r
    <3>2. CASE c.kind = "assign"
      <4>1. AssignHolding(q)
        BY <1>2, <3>2 DEF Informed
      <4>2. r.undoing = c.undoing /\ r.new = c.new /\ r.listed = c.listed
        BY <1>1, <1>4, <2>5, <3>2 DEF KindFields, ItemPcs
      <4>3. /\ s \notin c.todo /\ (c.todo \cup {s}) \cap c.moved = {}
            /\ \A t \in c.todo \cup {s} : Booked(t) /\ c.listed[t] # c.new[t]
            /\ \A t \in Schedule :
                 Booked(t) => c.new[t] = ResolvedRoom(home, bookings[t].sel)
            /\ \A t \in Schedule \ (spoilt \cup {s}) : Rostered(t)
            /\ \A t \in Schedule \ (spoilt \cup {s} \cup c.todo) : InOrder(t)
            /\ \A t \in c.moved : InOrder(t)
            /\ ~c.undoing /\ c.row = bookings[s] /\ c.row.room = c.new[s]
        BY <1>1, <1>3, <3>2, <4>1 DEF AssignHolding, ItemPcs
      <4>4. c.moved \subseteq Schedule
        BY <1>2 DEF CallRec
      <4>5. /\ \A t \in c.todo \cup {s} : Booked(t)'
            /\ \A t \in Schedule :
                 Booked(t)' => c.new[t] = ResolvedRoom(home', bookings'[t].sel)
        BY <1>1, <1>6, <4>3
      <4>6. /\ \A t \in Schedule \ (spoilt' \cup {s}) : Rostered(t)'
            /\ \A t \in Schedule \ (spoilt' \cup {s} \cup c.todo) : InOrder(t)'
            /\ \A t \in c.moved : InOrder(t)'
        BY <2>1, <2>8, <4>3, <4>4
      <4>7. AssignHolding(q)'
        BY <1>1, <1>3, <1>5, <2>5, <2>6, <3>2, <4>2, <4>3, <4>5, <4>6
           DEF AssignHolding, ItemPcs, r
      <4> QED
        BY <2>5, <3>2, <4>7 DEF Informed, r
    <3> QED
      BY <1>4, <1>7, <3>1, <3>2
  <2>10. RoomUndoes(q)
    BY <1>1 DEF RoomUndoes
  <2>11. RoomWrites(q)
    BY <1>1, <1>4, <1>5, <1>6 DEF RoomWrites, RoomInv, RoomTypes
  <2> QED
    BY <1>1, <1>2, <2>1, <2>4, <2>5, <2>7, <2>9, <2>10, <2>11 DEF RoomStep, r
<1>8. CASE ~(c.kind # "delete" /\ RowsOf(s, c.row) # {})
  <2>1. Reconciled(q)
    BY <1>3, <1>8 DEF ClearRows
  <2>2. ~c.raced => Rostered(s)'
    <3> SUFFICES ASSUME ~c.raced PROVE Rostered(s)'
      OBVIOUS
    <3>1. CASE c.kind = "delete"
      <4>1. ~Booked(s)
        BY <1>1, <1>2, <1>3, <3>1 DEF Informed, Holding
      <4> QED
        BY <1>5, <1>6, <4>1 DEF Rostered
    <3>2. CASE c.kind # "delete"
      <4>1. bookings[s] = c.row
        BY <1>1, <1>2, <1>3, <1>4, <3>2 DEF Informed, Holding, AssignHolding
      <4> QED
        BY <1>1, <1>5, <1>8, <3>2, <4>1 DEF Rostered
    <3> QED
      BY <3>1, <3>2
  <2> QED
    BY <1>1, <1>3, <1>5, <2>1, <2>2, RoomReconciled
<1> QED
  BY <1>7, <1>8

\* Their insertion.
LEMMA RoomInsertRows ==
  ASSUME RoomInv, NEW q \in Call, InsertRows(q)
  PROVE  RoomStep(q)
<1> DEFINE c == call[q]
<1>1. PICK s, new : s = c.s /\ new = c.row
  OBVIOUS
<1>2. /\ c.pc = "insert" /\ InFlight(q) /\ Reconciled(q)
      /\ home' = home /\ bookings' = bookings /\ undone' = undone
      /\ roster' = roster \cup RowsOf(s, new)
  BY <1>1 DEF InsertRows, At, InFlight, places
<1>3. CallRec(c) /\ (~c.raced => Informed(q))
  BY <1>2 DEF RoomInv, RoomTypes
<1>4. c.kind \in {"patch", "create", "assign"}
  BY <1>2, <1>3 DEF CallRec, CallKinds, StepsOf, ItemPcs
<1>5. \A x \in RowsOf(s, new) : x.schedule = s
  BY RoomRows
<1>6. /\ RowsThere(s)' = RowsThere(s) \cup RowsOf(s, new)
      /\ \A t \in Schedule \ {s} : RowsThere(t)' = RowsThere(t)
  BY <1>2, <1>5 DEF RowsThere
<1>7. ~c.raced => Rostered(s)'
  <2> SUFFICES ASSUME ~c.raced PROVE Rostered(s)'
    OBVIOUS
  <2>1. bookings[s] = new /\ RowsThere(s) = {}
    BY <1>1, <1>2, <1>3, <1>4 DEF Informed, Holding, AssignHolding
  <2>2. IsBooking(new)
    BY <1>1, <1>2, <1>3, <1>4 DEF CallRec
  <2>3. Booked(s)'
    BY <1>2, <2>1, <2>2 DEF Booked, IsBooking, Row
  <2> QED
    BY <1>2, <1>6, <2>1, <2>3 DEF Rostered
<1> QED
  BY <1>1, <1>2, <1>6, <1>7, RoomReconciled

\* The deletion of a schedule.
LEMMA RoomDeleteRow ==
  ASSUME RoomInv, NEW q \in Call, DeleteRow(q)
  PROVE  RoomStep(q)
<1> DEFINE c == call[q]
<1>1. /\ c.pc = "delete" /\ InFlight(q) /\ home' = home /\ undone' = undone
  BY DEF DeleteRow, At, InFlight, places
<1>2. CallRec(c) /\ spoilt \subseteq Schedule /\ (~c.raced => Informed(q))
  BY <1>1 DEF RoomInv, RoomTypes
<1>3. PICK s : s = c.s
  OBVIOUS
<1>4. /\ c.kind = "delete" /\ s \in c.scope /\ c.scope \subseteq Schedule
      /\ CallFields \cup {"s"} \subseteq DOMAIN c
  BY <1>1, <1>2, <1>3 DEF CallRec, CallKinds, StepsOf, ItemPcs, Wide, KindFields
<1>5. ~c.raced => \A t \in c.scope \ spoilt : InOrder(t)
  BY <1>1, <1>2, <1>4 DEF Informed, Holding
<1>6. RoomUndoes(q)
  BY <1>1 DEF RoomUndoes
<1>7. CASE Booked(s)
  <2>1. /\ Goes(q, [pc |-> "clear"]) /\ spoilt' = spoilt
        /\ bookings' = [bookings EXCEPT ![s] = [is |-> "gone"]]
        /\ roster' = {x \in roster : x.schedule # s}
    BY <1>3, <1>7 DEF DeleteRow, Booked
  <2> DEFINE fields == [pc |-> "clear"]
             r == call'[q]
  <2>2. DOMAIN fields = {"pc"} /\ fields.pc = "clear"
    OBVIOUS
  <2> HIDE DEF fields
  <2>3. Goes(q, fields)
    BY <2>1 DEF fields
  <2>4. /\ DOMAIN call' = Call /\ \A o \in Call \ {q} : call'[o] = call[o]
        /\ DOMAIN r = DOMAIN fields \cup DOMAIN c
        /\ \A name \in DOMAIN fields : r[name] = fields[name]
        /\ \A name \in DOMAIN c \ DOMAIN fields : r[name] = c[name]
    BY <2>3, RoomGoes
  <2> HIDE DEF r
  <2>5. /\ CallRec(r) /\ r.pc = "clear" /\ r.kind = c.kind /\ r.scope = c.scope
        /\ r.raced = c.raced /\ r.s = c.s
    <3>1. fields.pc \in StepsOf(c.kind) \cap (ItemPcs \cup {"delete"})
      BY <1>4, <2>2 DEF StepsOf, ItemPcs
    <3>2. c.kind \notin Wide
      BY <1>4 DEF Wide
    <3> QED
      BY <1>2, <1>4, <2>2, <2>4, <3>1, <3>2, RoomItem
  <2>6. InFlight(q)' /\ Reserved(q)' = Reserved(q) /\ Reserved(q) = c.scope
    BY <1>4, <2>5 DEF InFlight, Reserved, r
  <2>7. DOMAIN bookings = Schedule /\ \A t \in Schedule : Booked(t) => IsBooking(bookings[t])
    BY DEF RoomInv, RoomTypes
  <2>8. /\ DOMAIN bookings' = Schedule /\ bookings'[s].is = "gone"
        /\ \A t \in Schedule \ {s} : bookings'[t] = bookings[t]
    BY <1>4, <2>1, <2>7
  <2>9. RowsThere(s)' = {} /\ \A t \in Schedule \ {s} : RowsThere(t)' = RowsThere(t)
    BY <2>1 DEF RowsThere
  <2>10. ~Booked(s)' /\ \A t \in Schedule \ {s} : Booked(t)' <=> Booked(t)
    BY <2>8 DEF Booked
  <2>11. \A t \in Schedule \ {s} : InOrder(t)' <=> InOrder(t)
    BY <1>1, <2>8, <2>9, <2>10 DEF InOrder
  <2>12. RoomWrites(q)
    BY <1>1, <1>4, <2>6, <2>7, <2>8, <2>9, <2>10 DEF RoomWrites
  <2>13. ~c.raced => Informed(q)'
    <3> SUFFICES ASSUME ~c.raced PROVE Holding(q)'
      BY <1>4, <2>5 DEF Informed, r
    <3>1. \A t \in r.scope \ spoilt' : t = s \/ InOrder(t)'
      BY <1>4, <1>5, <2>1, <2>5, <2>11
    <3> QED
      BY <1>3, <1>4, <2>5, <2>9, <2>10, <3>1 DEF Holding, r
  <2> QED
    BY <1>1, <1>2, <1>6, <2>1, <2>4, <2>5, <2>6, <2>12, <2>13 DEF RoomStep, r
<1>8. CASE ~Booked(s)
  <2>1. Ends(q, {}, {}) /\ bookings' = bookings /\ roster' = roster
    BY <1>3, <1>8 DEF DeleteRow, Booked
  <2>2. RoomWrites(q) /\ \A t : InOrder(t)' <=> InOrder(t)
    BY <1>1, <2>1, RoomUnwritten
  <2> QED
    BY <1>1, <1>5, <1>6, <2>1, <2>2, RoomEnds
<1> QED
  BY <1>7, <1>8

\* A request about every schedule.
LEMMA RoomWide ==
  ASSUME RoomInv, NEW q \in Call, InFlight(q), call[q].kind \in Wide,
         call[q].pc \notin ItemPcs
  PROVE  /\ CallRec(call[q]) /\ CallFields \cup KindFields(call[q]) \subseteq DOMAIN call[q]
         /\ call[q].scope = Schedule /\ Schedule # {} /\ call[q].raced \in BOOLEAN
         /\ call[q].todo \subseteq Schedule /\ call[q].moved = {}
         /\ Reserved(q) = Schedule
         /\ ~call[q].raced => Informed(q)
BY DEF RoomInv, RoomTypes, CallRec, Reserved

\* The assignment of a channel's room.
LEMMA RoomAssignChannel ==
  ASSUME RoomInv, NEW q \in Call, AssignChannel(q)
  PROVE  RoomStep(q)
<1> DEFINE c == call[q]
<1>1. /\ c.pc = "assign" /\ InFlight(q)
      /\ bookings' = bookings /\ roster' = roster /\ spoilt' = spoilt /\ undone' = undone
  BY DEF AssignChannel, At, InFlight, history
<1>2. PICK left, pc : /\ pc \in {"assign", "find"}
                      /\ Goes(q, [left |-> left, pc |-> pc])
  BY DEF AssignChannel
<1>3. c.kind = "assign" /\ c.kind \in Wide /\ c.pc \notin ItemPcs
  BY <1>1 DEF RoomInv, RoomTypes, CallRec, CallKinds, StepsOf, ItemPcs, Wide
<1>4. /\ CallRec(c) /\ CallFields \cup KindFields(c) \subseteq DOMAIN c
      /\ c.scope = Schedule /\ Schedule # {} /\ c.raced \in BOOLEAN
      /\ c.todo \subseteq Schedule /\ c.moved = {}
      /\ Reserved(q) = Schedule
      /\ ~c.raced => Informed(q)
  BY <1>1, <1>3, RoomWide
<1> DEFINE fields == [left |-> left, pc |-> pc]
           r == call'[q]
<1>5. DOMAIN fields = {"left", "pc"} /\ fields.pc = pc
  OBVIOUS
<1> HIDE DEF fields
<1>6. Goes(q, fields)
  BY <1>2 DEF fields
<1>7. /\ DOMAIN call' = Call /\ \A o \in Call \ {q} : call'[o] = call[o]
      /\ DOMAIN r = DOMAIN fields \cup DOMAIN c
      /\ \A name \in DOMAIN fields : r[name] = fields[name]
      /\ \A name \in DOMAIN c \ DOMAIN fields : r[name] = c[name]
  BY <1>6, RoomGoes
<1> HIDE DEF r
<1>8. /\ r.pc = pc /\ r.kind = "assign" /\ r.scope = Schedule /\ r.raced = c.raced
      /\ r.todo = c.todo /\ r.moved = {} /\ CallFields \subseteq DOMAIN r
  BY <1>3, <1>4, <1>5, <1>7 DEF CallFields
<1>9. CallRec(r)
  BY <1>2, <1>4, <1>8 DEF CallRec, CallKinds, StepsOf, ItemPcs, KindFields, Wide
<1>10. InFlight(q)' /\ Reserved(q)' = Schedule
  BY <1>2, <1>8 DEF InFlight, Reserved, ItemPcs, r
<1>11. \A t : /\ Rostered(t)' <=> Rostered(t)
              /\ Booked(t)' <=> Booked(t)
              /\ RowsThere(t)' = RowsThere(t)
  BY <1>1 DEF Rostered, Booked, RowsThere
<1>12. ~c.raced => Informed(q)'
  <2> SUFFICES ASSUME ~c.raced PROVE AssignHolding(q)'
    BY <1>8 DEF Informed, r
  <2>1. \A t \in Schedule \ spoilt' : Rostered(t)'
    BY <1>1, <1>3, <1>4, <1>11 DEF Informed, AssignHolding
  <2> QED
    BY <1>2, <1>8, <2>1 DEF AssignHolding, ItemPcs, r
<1>13. RoomWrites(q) /\ RoomUndoes(q)
  BY <1>1, <1>4, <1>11 DEF RoomWrites, RoomUndoes, RoomInv, RoomTypes
<1> QED
  BY <1>1, <1>4, <1>7, <1>8, <1>9, <1>10, <1>12, <1>13
     DEF RoomStep, r, RoomInv, RoomTypes

\* The read of the channels' rooms after the assignment.
LEMMA RoomFindNode ==
  ASSUME RoomInv, NEW q \in Call, FindNode(q)
  PROVE  RoomStep(q)
<1> DEFINE c == call[q]
<1>1. /\ c.pc = "find" /\ InFlight(q) /\ home' = home
      /\ bookings' = bookings /\ roster' = roster /\ spoilt' = spoilt /\ undone' = undone
  BY DEF FindNode, At, InFlight, history, places
<1>2. PICK homes : homes = home /\ Goes(q, [pc |-> "list", homes |-> homes])
  BY DEF FindNode
<1>3. c.kind = "assign" /\ c.kind \in Wide /\ c.pc \notin ItemPcs
  BY <1>1 DEF RoomInv, RoomTypes, CallRec, CallKinds, StepsOf, ItemPcs, Wide
<1>4. /\ CallRec(c) /\ CallFields \cup KindFields(c) \subseteq DOMAIN c
      /\ c.scope = Schedule /\ Schedule # {} /\ c.raced \in BOOLEAN
      /\ c.todo \subseteq Schedule /\ c.moved = {}
      /\ Reserved(q) = Schedule
      /\ ~c.raced => Informed(q)
  BY <1>1, <1>3, RoomWide
<1> DEFINE fields == [pc |-> "list", homes |-> homes]
           r == call'[q]
<1>5. DOMAIN fields = {"pc", "homes"} /\ fields.pc = "list" /\ fields.homes = homes
  OBVIOUS
<1> HIDE DEF fields
<1>6. Goes(q, fields)
  BY <1>2 DEF fields
<1>7. /\ DOMAIN call' = Call /\ \A o \in Call \ {q} : call'[o] = call[o]
      /\ DOMAIN r = DOMAIN fields \cup DOMAIN c
      /\ \A name \in DOMAIN fields : r[name] = fields[name]
      /\ \A name \in DOMAIN c \ DOMAIN fields : r[name] = c[name]
  BY <1>6, RoomGoes
<1> HIDE DEF r
<1>8. /\ r.pc = "list" /\ r.kind = "assign" /\ r.scope = Schedule /\ r.raced = c.raced
      /\ r.todo = c.todo /\ r.moved = {} /\ r.homes = homes
      /\ CallFields \cup {"homes"} \subseteq DOMAIN r
  BY <1>3, <1>4, <1>5, <1>7 DEF CallFields
<1>9. CallRec(r)
  BY <1>4, <1>8 DEF CallRec, CallKinds, StepsOf, ItemPcs, KindFields, Wide
<1>10. InFlight(q)' /\ Reserved(q)' = Schedule
  BY <1>8 DEF InFlight, Reserved, ItemPcs, r
<1>11. RoomWrites(q) /\ \A t : Rostered(t)' <=> Rostered(t)
  BY <1>1, RoomUnwritten
<1>12. ~c.raced => Informed(q)'
  <2> SUFFICES ASSUME ~c.raced PROVE AssignHolding(q)'
    BY <1>8 DEF Informed, r
  <2>1. \A t \in Schedule \ spoilt' : Rostered(t)'
    BY <1>1, <1>3, <1>4, <1>11 DEF Informed, AssignHolding
  <2> QED
    BY <1>1, <1>2, <1>8, <2>1 DEF AssignHolding, ItemPcs, r
<1>13. RoomUndoes(q)
  BY <1>1 DEF RoomUndoes
<1> QED
  BY <1>1, <1>4, <1>7, <1>8, <1>9, <1>10, <1>11, <1>12, <1>13
     DEF RoomStep, r, RoomInv, RoomTypes

\* The list of the schedules whose room changes.
LEMMA RoomListSchedules ==
  ASSUME RoomInv, NEW q \in Call, ListSchedules(q)
  PROVE  RoomStep(q)
<1> DEFINE c == call[q]
<1>1. /\ c.pc = "list" /\ c.kind = "assign" /\ InFlight(q) /\ home' = home
      /\ bookings' = bookings /\ roster' = roster /\ undone' = undone
  BY DEF ListSchedules, At, InFlight, places
<1>2. c.kind \in Wide /\ c.pc \notin ItemPcs
  BY <1>1 DEF ItemPcs, Wide
<1>3. /\ CallRec(c) /\ CallFields \cup KindFields(c) \subseteq DOMAIN c
      /\ c.scope = Schedule /\ Schedule # {} /\ c.raced \in BOOLEAN
      /\ c.todo \subseteq Schedule /\ c.moved = {}
      /\ Reserved(q) = Schedule
      /\ ~c.raced => Informed(q)
  BY <1>1, <1>2, RoomWide
<1>4. /\ RoomWrites(q) /\ RoomUndoes(q)
      /\ \A t : /\ InOrder(t)' <=> InOrder(t)
                /\ Rostered(t)' <=> Rostered(t)
                /\ Booked(t)' <=> Booked(t)
  BY <1>1, RoomUnwritten DEF RoomUndoes
<1>5. ~c.raced => /\ \A t \in Schedule \ spoilt : Rostered(t)
                  /\ c.homes = home
  BY <1>1, <1>2, <1>3 DEF Informed, AssignHolding
<1> DEFINE there == {s \in Schedule : Booked(s)}
           moves == [s \in there |-> ResolvedRoom(c.homes, bookings[s].sel)]
           changed == {s \in there : moves[s] # bookings[s].room}
<1>6. IF changed = {} THEN Ends(q, {}, {})
      ELSE LET s == CHOOSE t \in changed : TRUE IN
           /\ Goes(q, [pc |-> "read", s |-> s, todo |-> changed \ {s},
                             undoing |-> FALSE, new |-> moves,
                             listed |-> [t \in there |-> bookings[t].room]])
           /\ spoilt' = spoilt
  BY Zenon DEF ListSchedules, Rehomed, Booked
<1>7. ~c.raced => \A t \in Schedule : Booked(t) => moves[t] = ResolvedRoom(home, bookings[t].sel)
  BY <1>5
<1>8. ~c.raced => \A t \in Schedule \ (spoilt \cup changed) : InOrder(t)
  BY <1>5, <1>7, RoomOrdered DEF Placed
<1>9. CASE changed = {}
  BY <1>1, <1>3, <1>4, <1>6, <1>8, <1>9, RoomEnds
<1>10. CASE changed # {}
  <2>1. PICK s, todo, new, listed :
          /\ s \in changed /\ todo = changed \ {s} /\ new = moves
          /\ listed = [t \in there |-> bookings[t].room]
          /\ Goes(q, [pc |-> "read", s |-> s, todo |-> todo, undoing |-> FALSE,
                            new |-> new, listed |-> listed])
          /\ spoilt' = spoilt
    BY <1>6, <1>10
  <2>2. /\ s \in Schedule /\ s \notin todo /\ todo \subseteq Schedule
        /\ changed = todo \cup {s}
        /\ \A t \in todo \cup {s} : Booked(t) /\ listed[t] # new[t]
    BY <2>1
  <2>3. ~c.raced => /\ \A t \in Schedule : Booked(t) => new[t] = ResolvedRoom(home, bookings[t].sel)
                    /\ \A t \in Schedule \ (spoilt \cup {s} \cup todo) : InOrder(t)
    BY <1>7, <1>8, <2>1, <2>2
  <2> HIDE DEF changed, moves, there
  <2> DEFINE fields == [pc |-> "read", s |-> s, todo |-> todo, undoing |-> FALSE,
                        new |-> new, listed |-> listed]
             r == call'[q]
  <2>4. /\ DOMAIN fields = {"pc", "s", "todo", "undoing", "new", "listed"}
        /\ fields.pc = "read" /\ fields.s = s /\ fields.todo = todo
        /\ fields.undoing = FALSE /\ fields.new = new /\ fields.listed = listed
    OBVIOUS
  <2> HIDE DEF fields
  <2>5. Goes(q, fields)
    BY <2>1 DEF fields
  <2>6. /\ DOMAIN call' = Call /\ \A o \in Call \ {q} : call'[o] = call[o]
        /\ DOMAIN r = DOMAIN fields \cup DOMAIN c
        /\ \A name \in DOMAIN fields : r[name] = fields[name]
        /\ \A name \in DOMAIN c \ DOMAIN fields : r[name] = c[name]
    BY <2>5, RoomGoes
  <2> HIDE DEF r
  <2>7. /\ r.pc = "read" /\ r.s = s /\ r.todo = todo /\ r.undoing = FALSE
        /\ r.new = new /\ r.listed = listed
    BY <2>4, <2>6
  <2>8. /\ r.kind = "assign" /\ r.scope = Schedule /\ r.raced = c.raced /\ r.moved = {}
        /\ CallFields \cup {"s", "undoing", "new", "listed"} \subseteq DOMAIN r
    BY <1>1, <1>3, <2>4, <2>6 DEF CallFields
  <2>9. CallRec(r)
    BY <1>3, <2>2, <2>7, <2>8 DEF CallRec, CallKinds, StepsOf, ItemPcs, KindFields, Wide
  <2>10. InFlight(q)' /\ Reserved(q)' \subseteq Schedule
    BY <2>2, <2>7, <2>8 DEF InFlight, Reserved, r
  <2>11. ~c.raced => Informed(q)'
    <3> SUFFICES ASSUME ~c.raced PROVE AssignHolding(q)'
      BY <2>8 DEF Informed, r
    <3>1. \A t \in Schedule : Booked(t)' => new[t] = ResolvedRoom(home', bookings'[t].sel)
      BY <1>1, <1>4, <2>3
    <3>2. \A t \in Schedule \ spoilt' : Rostered(t)'
      BY <1>4, <1>5, <2>1
    <3>3. \A t \in Schedule \ (spoilt' \cup {s} \cup todo) : InOrder(t)'
      BY <1>4, <2>1, <2>3
    <3>4. \A t \in todo \cup {s} : Booked(t)' /\ listed[t] # new[t]
      BY <1>4, <2>2
    <3> QED
      BY <2>2, <2>7, <2>8, <3>1, <3>2, <3>3, <3>4 DEF AssignHolding, ItemPcs, r
  <2> QED
    BY <1>1, <1>3, <1>4, <2>1, <2>6, <2>8, <2>9, <2>10, <2>11
       DEF RoomStep, r, RoomInv, RoomTypes
<1> QED
  BY <1>9, <1>10

\* The removal of a group from the roster.
LEMMA RoomStripGroup ==
  ASSUME RoomInv, NEW q \in Call, StripGroup(q)
  PROVE  RoomStep(q)
<1> DEFINE c == call[q]
<1>1. /\ c.pc = "strip" /\ InFlight(q) /\ home' = home
      /\ Goes(q, [pc |-> "list"])
      /\ bookings' = bookings /\ spoilt' = spoilt /\ undone' = undone
  BY DEF StripGroup, At, InFlight, history, places
<1>2. PICK group : group = c.group /\ roster' = {x \in roster : x.subject # group}
  BY DEF StripGroup
<1>3. c.kind = "group" /\ c.kind \in Wide /\ c.pc \notin ItemPcs
  BY <1>1 DEF RoomInv, RoomTypes, CallRec, CallKinds, StepsOf, ItemPcs, Wide
<1>4. /\ CallRec(c) /\ CallFields \cup KindFields(c) \subseteq DOMAIN c
      /\ c.scope = Schedule /\ Schedule # {} /\ c.raced \in BOOLEAN
      /\ c.todo \subseteq Schedule /\ c.moved = {}
      /\ Reserved(q) = Schedule
      /\ ~c.raced => Informed(q)
  BY <1>1, <1>3, RoomWide
<1>5. "group" \in DOMAIN c
  BY <1>3, <1>4 DEF KindFields
<1> DEFINE fields == [pc |-> "list"]
           r == call'[q]
<1>6. DOMAIN fields = {"pc"} /\ fields.pc = "list"
  OBVIOUS
<1> HIDE DEF fields
<1>7. Goes(q, fields)
  BY <1>1 DEF fields
<1>8. /\ DOMAIN call' = Call /\ \A o \in Call \ {q} : call'[o] = call[o]
      /\ DOMAIN r = DOMAIN fields \cup DOMAIN c
      /\ \A name \in DOMAIN fields : r[name] = fields[name]
      /\ \A name \in DOMAIN c \ DOMAIN fields : r[name] = c[name]
  BY <1>7, RoomGoes
<1> HIDE DEF r
<1>9. /\ r.pc = "list" /\ r.kind = "group" /\ r.scope = Schedule /\ r.raced = c.raced
      /\ r.todo = c.todo /\ r.moved = {} /\ r.group = group
      /\ CallFields \cup {"group"} \subseteq DOMAIN r
  BY <1>2, <1>3, <1>4, <1>5, <1>6, <1>8 DEF CallFields
<1>10. CallRec(r)
  BY <1>4, <1>9 DEF CallRec, CallKinds, StepsOf, ItemPcs, KindFields, Wide
<1>11. InFlight(q)' /\ Reserved(q)' = Schedule
  BY <1>9 DEF InFlight, Reserved, r
<1>12. \A t : /\ RowsThere(t)' = {x \in RowsThere(t) : x.subject # group}
              /\ Booked(t)' <=> Booked(t)
              /\ Placed(t)' <=> Placed(t)
  BY <1>1, <1>2 DEF RowsThere, Booked, Placed
<1>13. ~c.raced => Informed(q)'
  <2> SUFFICES ASSUME ~c.raced PROVE GroupHolding(q)'
    BY <1>9 DEF Informed, r
  <2>1. \A t \in Schedule \ spoilt : InOrder(t)
    BY <1>1, <1>3, <1>4 DEF Informed, GroupHolding
  <2>2. ASSUME NEW t \in Schedule \ spoilt
        PROVE  Stripped(t, group)'
    <3>1. Rostered(t) /\ (Booked(t) => Placed(t))
      BY <2>1, <2>2, RoomOrdered
    <3> QED
      BY <1>1, <1>12, <3>1 DEF Rostered, Stripped
  <2> QED
    BY <1>1, <1>9, <2>2 DEF GroupHolding, ItemPcs, r
<1>14. RoomWrites(q) /\ RoomUndoes(q)
  BY <1>1, <1>4, <1>12 DEF RoomWrites, RoomUndoes, RoomInv, RoomTypes
<1> QED
  BY <1>1, <1>4, <1>8, <1>9, <1>10, <1>11, <1>13, <1>14
     DEF RoomStep, r, RoomInv, RoomTypes

\* The list of the schedules that were assigned to it.
LEMMA RoomListAssigned ==
  ASSUME RoomInv, NEW q \in Call, ListAssigned(q)
  PROVE  RoomStep(q)
<1> DEFINE c == call[q]
<1>1. /\ c.pc = "list" /\ c.kind = "group" /\ InFlight(q) /\ home' = home
      /\ bookings' = bookings /\ roster' = roster /\ undone' = undone
  BY DEF ListAssigned, At, InFlight, places
<1>2. c.kind \in Wide /\ c.pc \notin ItemPcs
  BY <1>1 DEF ItemPcs, Wide
<1>3. /\ CallRec(c) /\ CallFields \cup KindFields(c) \subseteq DOMAIN c
      /\ c.scope = Schedule /\ Schedule # {} /\ c.raced \in BOOLEAN
      /\ c.todo \subseteq Schedule /\ c.moved = {}
      /\ Reserved(q) = Schedule
      /\ ~c.raced => Informed(q)
  BY <1>1, <1>2, RoomWide
<1>4. /\ RoomWrites(q) /\ RoomUndoes(q)
      /\ \A t : /\ InOrder(t)' <=> InOrder(t)
                /\ Booked(t)' <=> Booked(t)
      /\ \A t, g : Stripped(t, g)' <=> Stripped(t, g)
  BY <1>1, RoomUnwritten DEF RoomUndoes
<1>5. PICK group : group = c.group
  OBVIOUS
<1>6. ~c.raced => \A t \in Schedule \ spoilt : Stripped(t, group)
  BY <1>1, <1>3, <1>5 DEF Informed, GroupHolding
<1> DEFINE assigned == {s \in Schedule : Booked(s) /\ group \in bookings[s].who}
<1>7. IF assigned = {} THEN Ends(q, {}, {})
      ELSE LET s == CHOOSE t \in assigned : TRUE IN
           /\ Goes(q, [pc |-> "read", s |-> s, todo |-> assigned \ {s},
                       listed |-> [t \in assigned |-> bookings[t].who \ {group}]])
           /\ spoilt' = spoilt
  BY <1>5, Zenon DEF ListAssigned, Booked
<1>8. CASE assigned = {}
  <2>1. ASSUME ~c.raced, NEW t \in Schedule, t \notin spoilt
        PROVE  InOrder(t)'
    <3>1. Stripped(t, group) /\ (Booked(t) => group \notin bookings[t].who)
      BY <1>6, <1>8, <2>1
    <3>2. Booked(t) => \A x \in RowsOf(t, bookings[t]) : x.subject # group
      BY <3>1 DEF RowsOf
    <3> QED
      BY <1>4, <3>1, <3>2 DEF Stripped, InOrder, Placed
  <2> QED
    BY <1>1, <1>3, <1>4, <1>7, <1>8, <2>1, RoomEnds
<1>9. CASE assigned # {}
  <2>1. PICK s, todo, listed :
          /\ s \in assigned /\ todo = assigned \ {s}
          /\ listed = [t \in assigned |-> bookings[t].who \ {group}]
          /\ Goes(q, [pc |-> "read", s |-> s, todo |-> todo, listed |-> listed])
          /\ spoilt' = spoilt
    BY <1>7, <1>9
  <2>2. /\ s \in Schedule /\ s \notin todo /\ todo \subseteq Schedule
        /\ \A t \in todo \cup {s} : Booked(t) /\ listed[t] = bookings[t].who \ {group}
        /\ \A t \in Schedule \ (todo \cup {s}) : Booked(t) => group \notin bookings[t].who
    BY <2>1
  <2> HIDE DEF assigned
  <2> DEFINE fields == [pc |-> "read", s |-> s, todo |-> todo, listed |-> listed]
             r == call'[q]
  <2>4. /\ DOMAIN fields = {"pc", "s", "todo", "listed"}
        /\ fields.pc = "read" /\ fields.s = s /\ fields.todo = todo
        /\ fields.listed = listed
    OBVIOUS
  <2> HIDE DEF fields
  <2>5. Goes(q, fields)
    BY <2>1 DEF fields
  <2>6. /\ DOMAIN call' = Call /\ \A o \in Call \ {q} : call'[o] = call[o]
        /\ DOMAIN r = DOMAIN fields \cup DOMAIN c
        /\ \A name \in DOMAIN fields : r[name] = fields[name]
        /\ \A name \in DOMAIN c \ DOMAIN fields : r[name] = c[name]
    BY <2>5, RoomGoes
  <2> HIDE DEF r
  <2>7. /\ r.pc = "read" /\ r.s = s /\ r.todo = todo /\ r.listed = listed
    BY <2>4, <2>6
  <2>8. "group" \in DOMAIN c
    BY <1>1, <1>2, <1>3 DEF KindFields
  <2>9. /\ r.kind = "group" /\ r.scope = Schedule /\ r.raced = c.raced /\ r.moved = {}
        /\ r.group = group
        /\ CallFields \cup {"s", "group", "listed"} \subseteq DOMAIN r
    BY <1>1, <1>3, <1>5, <2>4, <2>6, <2>8 DEF CallFields
  <2>10. CallRec(r)
    BY <1>3, <2>2, <2>7, <2>9 DEF CallRec, CallKinds, StepsOf, ItemPcs, KindFields, Wide
  <2>11. InFlight(q)' /\ Reserved(q)' = Schedule
    BY <2>7, <2>9 DEF InFlight, Reserved, r
  <2>12. ~c.raced => Informed(q)'
    <3> SUFFICES ASSUME ~c.raced PROVE GroupHolding(q)'
      BY <2>9 DEF Informed, r
    <3>1. \A t \in Schedule \ spoilt' : Stripped(t, group)'
      BY <1>4, <1>6, <2>1
    <3>2. /\ \A t \in todo \cup {s} : Booked(t)' /\ listed[t] = bookings'[t].who \ {group}
          /\ \A t \in Schedule \ (todo \cup {s}) :
               Booked(t)' => group \notin bookings'[t].who
      BY <1>1, <1>4, <2>2
    <3> QED
      BY <2>2, <2>7, <2>9, <3>1, <3>2 DEF GroupHolding, ItemPcs, r
  <2> QED
    BY <1>1, <1>3, <1>4, <2>1, <2>6, <2>9, <2>10, <2>11, <2>12
       DEF RoomStep, r, RoomInv, RoomTypes
<1> QED
  BY <1>8, <1>9

\* The deletion of a room.
LEMMA RoomDropRoom ==
  ASSUME RoomInv, NEW q \in Call, DropRoom(q)
  PROVE  RoomStep(q)
<1> DEFINE c == call[q]
<1>1. /\ c.pc = "drop" /\ InFlight(q) /\ bookings' = bookings /\ undone' = undone
  BY DEF DropRoom, At, InFlight
<1>2. c.kind = "room" /\ c.kind \in Wide /\ c.pc \notin ItemPcs
  BY <1>1 DEF RoomInv, RoomTypes, CallRec, CallKinds, StepsOf, ItemPcs, Wide
<1>3. /\ c.scope = Schedule /\ Reserved(q) = Schedule
      /\ ~c.raced => \A t \in Schedule \ spoilt : InOrder(t)
  BY <1>1, <1>2, RoomWide DEF Informed
<1>4. RoomUndoes(q)
  BY <1>1 DEF RoomUndoes
<1>5. PICK room : room = c.room
  OBVIOUS
<1> DEFINE homes == [channel \in Channel |->
                       IF home[channel] = room THEN NoRoom ELSE home[channel]]
           shared == {s \in Schedule : Booked(s) /\
                        ResolvedRoom(homes, bookings[s].sel) # ResolvedRoom(home, bookings[s].sel)}
<1>6. \/ /\ \A s \in Schedule : Booked(s) => bookings[s].room # room
         /\ home' = homes /\ roster' = {x \in roster : x.room # room}
         /\ Ends(q, shared, {})
      \/ Ends(q, {}, {}) /\ home' = home /\ roster' = roster
  BY <1>5, Zenon DEF DropRoom, Booked
<1>7. CASE /\ \A s \in Schedule : Booked(s) => bookings[s].room # room
           /\ home' = homes /\ roster' = {x \in roster : x.room # room}
           /\ Ends(q, shared, {})
  <2>1. RoomWrites(q)
    BY <1>1, <1>3 DEF RoomWrites, Booked, RoomInv, RoomTypes
  <2>2. ASSUME ~c.raced, NEW t \in Schedule, t \notin spoilt \cup shared
        PROVE  InOrder(t)'
    <3>1. InOrder(t)
      BY <1>3, <2>2
    <3>2. RowsThere(t)' = {x \in RowsThere(t) : x.room # room}
      BY <1>7 DEF RowsThere
    <3>3. Booked(t) => \A x \in RowsOf(t, bookings[t]) : x.room # room
      BY <1>7 DEF RowsOf
    <3>4. Booked(t) => ResolvedRoom(home', bookings[t].sel) = ResolvedRoom(home, bookings[t].sel)
      BY <1>7, <2>2
    <3>5. Booked(t)' <=> Booked(t)
      BY <1>1 DEF Booked
    <3>6. RowsThere(t)' = RowsThere(t)
      BY <3>1, <3>2, <3>3 DEF InOrder
    <3> QED
      BY <1>1, <3>1, <3>4, <3>5, <3>6 DEF InOrder
  <2>3. shared \subseteq c.scope
    BY <1>3
  <2> HIDE DEF shared, homes
  <2> QED
    BY <1>1, <1>3, <1>4, <1>7, <2>1, <2>2, <2>3, RoomEnds
<1>8. CASE Ends(q, {}, {}) /\ home' = home /\ roster' = roster
  BY <1>1, <1>3, <1>4, <1>8, RoomUnwritten, RoomEnds
<1> QED
  BY <1>6, <1>7, <1>8

\* An assignment that could not reconcile a schedule's rows moves it back.
LEMMA RoomMovesBack ==
  ASSUME RoomInv, NEW q \in Call, call[q].kind = "assign",
         call[q].pc \in {"clear", "insert"},
         Goes(q, [pc |-> "read", undoing |-> TRUE]),
         home' = home, bookings' = bookings, roster' = roster,
         spoilt' = spoilt, undone' = undone
  PROVE  RoomStep(q)
<1> DEFINE c == call[q]
           fields == [pc |-> "read", undoing |-> TRUE]
           r == call'[q]
<1>1. InFlight(q)
  BY DEF InFlight
<1>2. CallRec(c) /\ spoilt \subseteq Schedule /\ (~c.raced => Informed(q))
  BY <1>1 DEF RoomInv, RoomTypes
<1>3. DOMAIN fields = {"pc", "undoing"} /\ fields.pc = "read" /\ fields.undoing = TRUE
  OBVIOUS
<1> HIDE DEF fields
<1>4. Goes(q, fields)
  BY DEF fields
<1>5. /\ DOMAIN call' = Call /\ \A o \in Call \ {q} : call'[o] = call[o]
      /\ DOMAIN r = DOMAIN fields \cup DOMAIN c
      /\ \A name \in DOMAIN fields : r[name] = fields[name]
      /\ \A name \in DOMAIN c \ DOMAIN fields : r[name] = c[name]
  BY <1>4, RoomGoes
<1>6. PICK s, todo, moved, new, listed :
        s = c.s /\ todo = c.todo /\ moved = c.moved /\ new = c.new /\ listed = c.listed
  OBVIOUS
<1>7. /\ CallFields \cup {"s", "undoing", "new", "listed"} \subseteq DOMAIN c
      /\ c.scope = Schedule /\ s \in Schedule /\ c.raced \in BOOLEAN
      /\ todo \subseteq Schedule /\ moved \subseteq Schedule
  BY <1>2, <1>6 DEF CallRec, KindFields, Wide, ItemPcs
<1> HIDE DEF r
<1>8. /\ r.pc = "read" /\ r.undoing = TRUE /\ r.kind = "assign" /\ r.scope = Schedule
      /\ r.raced = c.raced /\ r.s = s /\ r.todo = todo /\ r.moved = moved
      /\ r.new = new /\ r.listed = listed
      /\ CallFields \cup {"s", "undoing", "new", "listed"} \subseteq DOMAIN r
  BY <1>3, <1>5, <1>6, <1>7 DEF CallFields
<1>9. CallRec(r)
  BY <1>2, <1>7, <1>8 DEF CallRec, CallKinds, StepsOf, ItemPcs, KindFields, Wide
<1>10. /\ InFlight(q)' /\ Reserved(q) = todo \cup {s} /\ Reserved(q)' = todo \cup {s}
  BY <1>6, <1>8 DEF InFlight, Reserved, ItemPcs, r
<1>11. /\ RoomWrites(q) /\ RoomUndoes(q)
       /\ \A t : /\ InOrder(t)' <=> InOrder(t)
                 /\ Rostered(t)' <=> Rostered(t)
                 /\ Booked(t)' <=> Booked(t)
  BY RoomUnwritten DEF RoomUndoes
<1>12. ~c.raced => Informed(q)'
  <2> SUFFICES ASSUME ~c.raced PROVE AssignHolding(q)'
    BY <1>8 DEF Informed, r
  <2>1. /\ s \notin todo /\ (todo \cup {s}) \cap moved = {}
        /\ \A t \in todo \cup {s} : Booked(t) /\ listed[t] # new[t]
        /\ \A t \in Schedule : Booked(t) => new[t] = ResolvedRoom(home, bookings[t].sel)
        /\ \A t \in Schedule \ (spoilt \cup {s}) : Rostered(t)
        /\ \A t \in Schedule \ (spoilt \cup {s} \cup todo) : InOrder(t)
        /\ \A t \in moved : InOrder(t)
    BY <1>2, <1>6 DEF Informed, AssignHolding, ItemPcs
  <2>2. /\ \A t \in todo \cup {s} : Booked(t)' /\ listed[t] # new[t]
        /\ \A t \in Schedule : Booked(t)' => new[t] = ResolvedRoom(home', bookings'[t].sel)
        /\ \A t \in Schedule \ (spoilt' \cup {s}) : Rostered(t)'
        /\ \A t \in Schedule \ (spoilt' \cup {s} \cup todo) : InOrder(t)'
        /\ \A t \in moved : InOrder(t)'
    BY <1>11, <2>1
  <2> QED
    BY <1>8, <2>1, <2>2 DEF AssignHolding, ItemPcs, r
<1> QED
  BY <1>1, <1>2, <1>5, <1>7, <1>8, <1>9, <1>10, <1>11, <1>12 DEF RoomStep, r

\* The move of an occurrence that could not clone the series writes it back.
LEMMA RoomWritesBack ==
  ASSUME RoomInv, NEW q \in Call, call[q].kind = "create", "clone" \in DOMAIN call[q],
         call[q].pc = "write",
         Goes(q, [kind |-> "advance", pc |-> "read",
                        s |-> CHOOSE s \in call[q].scope : s # call[q].clone]),
         home' = home, bookings' = bookings, roster' = roster,
         spoilt' = spoilt, undone' = undone
  PROVE  RoomStep(q)
<1> DEFINE c == call[q]
<1>1. InFlight(q)
  BY DEF InFlight
<1>2. CallRec(c) /\ spoilt \subseteq Schedule /\ (~c.raced => Informed(q))
  BY <1>1 DEF RoomInv, RoomTypes
<1>3. PICK s \in c.scope : /\ s # c.clone
                           /\ Goes(q, [kind |-> "advance", pc |-> "read", s |-> s])
  BY <1>2 DEF CallRec
<1> DEFINE fields == [kind |-> "advance", pc |-> "read", s |-> s]
           r == call'[q]
<1>4. /\ DOMAIN fields = {"kind", "pc", "s"} /\ fields.kind = "advance"
      /\ fields.pc = "read" /\ fields.s = s
  OBVIOUS
<1> HIDE DEF fields
<1>5. Goes(q, fields)
  BY <1>3 DEF fields
<1>6. /\ DOMAIN call' = Call /\ \A o \in Call \ {q} : call'[o] = call[o]
      /\ DOMAIN r = DOMAIN fields \cup DOMAIN c
      /\ \A name \in DOMAIN fields : r[name] = fields[name]
      /\ \A name \in DOMAIN c \ DOMAIN fields : r[name] = c[name]
  BY <1>5, RoomGoes
<1>7. /\ CallFields \cup {"s"} \subseteq DOMAIN c /\ c.moved = {}
      /\ c.todo \subseteq Schedule
      /\ c.raced \in BOOLEAN /\ c.scope \subseteq Schedule /\ c.scope # {}
  BY <1>2 DEF CallRec, KindFields
<1> HIDE DEF r
<1>8. /\ r.kind = "advance" /\ r.pc = "read" /\ r.s = s /\ r.scope = c.scope
      /\ r.raced = c.raced /\ r.todo = c.todo /\ r.moved = {}
      /\ CallFields \cup {"s"} \subseteq DOMAIN r
  BY <1>4, <1>6, <1>7 DEF CallFields
<1>9. CallRec(r)
  BY <1>3, <1>7, <1>8 DEF CallRec, CallKinds, StepsOf, ItemPcs, KindFields, Wide
<1>10. InFlight(q)' /\ Reserved(q)' = c.scope /\ Reserved(q) = c.scope
  BY <1>8 DEF InFlight, Reserved, r
<1>11. /\ RoomWrites(q) /\ RoomUndoes(q)
       /\ \A t : InOrder(t)' <=> InOrder(t)
       /\ \A t : Booked(t)' <=> Booked(t)
  BY RoomUnwritten DEF RoomUndoes
<1>12. ~c.raced => Informed(q)'
  <2> SUFFICES ASSUME ~c.raced PROVE Holding(q)'
    BY <1>8 DEF Informed, r
  <2>1. Booked(s) /\ \A t \in c.scope \ spoilt : InOrder(t)
    BY <1>2, <1>3 DEF Informed, Holding
  <2>2. Booked(s)' /\ \A t \in c.scope \ spoilt' : InOrder(t)'
    BY <1>11, <2>1
  <2> QED
    BY <1>8, <2>2 DEF Holding, r
<1> QED
  BY <1>1, <1>2, <1>6, <1>7, <1>8, <1>9, <1>10, <1>11, <1>12 DEF RoomStep, r

\* A statement that fails.
LEMMA RoomFails ==
  ASSUME RoomInv, NEW q \in Call, Fails(q)
  PROVE  RoomStep(q)
<1> DEFINE c == call[q]
<1>1. /\ InFlight(q) /\ home' = home /\ bookings' = bookings /\ roster' = roster
  BY DEF Fails, places
<1>2. CallRec(c) /\ spoilt \subseteq Schedule /\ (~c.raced => Informed(q))
  BY <1>1 DEF RoomInv, RoomTypes
<1>3. CASE c.kind = "assign" /\ c.pc \in {"clear", "insert"}
  <2>1. /\ Goes(q, [pc |-> "read", undoing |-> TRUE])
        /\ spoilt' = spoilt /\ undone' = undone
    BY <1>3 DEF Fails, AfterRoster
  <2> QED
    BY <1>1, <1>3, <2>1, RoomMovesBack
<1>4. CASE c.kind = "assign" /\ c.pc \in {"read", "write"}
  <2>1. Continues(q, c.moved, {c.s}) /\ undone' = undone
    BY <1>4 DEF Fails
  <2>2. c.pc \in ItemPcs /\ c.moved \subseteq Schedule /\ {c.s} \subseteq Schedule
    BY <1>2, <1>4 DEF ItemPcs, CallRec
  <2>3. RoomWrites(q) /\ \A t : /\ InOrder(t)' <=> InOrder(t)
                                /\ Rostered(t)' <=> Rostered(t)
                                /\ Booked(t)' <=> Booked(t)
    BY <1>1, RoomUnwritten
  <2>4. PICK s, todo, moved, new, listed :
          s = c.s /\ todo = c.todo /\ moved = c.moved /\ new = c.new /\ listed = c.listed
    OBVIOUS
  <2>5. ~c.raced =>
          /\ s \notin todo /\ todo \cap moved = {}
          /\ \A t \in todo : Booked(t)' /\ listed[t] # new[t]
          /\ \A t \in Schedule :
               Booked(t)' => new[t] = ResolvedRoom(home', bookings'[t].sel)
          /\ \A t \in Schedule \ (spoilt \cup {s}) : Rostered(t)'
          /\ \A t \in Schedule \ (spoilt \cup {s} \cup todo) : InOrder(t)'
          /\ \A t \in moved : InOrder(t)'
    <3> SUFFICES ASSUME ~c.raced
                 PROVE  /\ s \notin todo /\ todo \cap moved = {}
                        /\ \A t \in todo : Booked(t)' /\ listed[t] # new[t]
                        /\ \A t \in Schedule :
                             Booked(t)' => new[t] = ResolvedRoom(home', bookings'[t].sel)
                        /\ \A t \in Schedule \ (spoilt \cup {s}) : Rostered(t)'
                        /\ \A t \in Schedule \ (spoilt \cup {s} \cup todo) : InOrder(t)'
                        /\ \A t \in moved : InOrder(t)'
      OBVIOUS
    <3>1. /\ s \notin todo /\ (todo \cup {s}) \cap moved = {}
          /\ \A t \in todo \cup {s} : Booked(t) /\ listed[t] # new[t]
          /\ \A t \in Schedule : Booked(t) => new[t] = ResolvedRoom(home, bookings[t].sel)
          /\ \A t \in Schedule \ (spoilt \cup {s}) : Rostered(t)
          /\ \A t \in Schedule \ (spoilt \cup {s} \cup todo) : InOrder(t)
          /\ \A t \in moved : InOrder(t)
      BY <1>2, <1>4, <2>2, <2>4 DEF Informed, AssignHolding
    <3> QED
      BY <1>1, <2>3, <3>1
  <2>6. RoomStep(q)
    BY <1>1, <1>4, <2>1, <2>2, <2>3, <2>4, <2>5, RoomMoving
  <2> QED
    BY <2>6
<1>5. CASE c.kind = "create" /\ "clone" \in DOMAIN c /\ c.pc = "write"
  <2>1. /\ Goes(q, [kind |-> "advance", pc |-> "read",
                          s |-> CHOOSE s \in c.scope : s # c.clone])
        /\ spoilt' = spoilt /\ undone' = undone
    BY <1>5 DEF Fails, At
  <2> QED
    BY <1>1, <1>5, <2>1, RoomWritesBack
<1>6. CASE /\ ~(c.kind = "assign" /\ c.pc \in ItemPcs)
           /\ ~(c.kind = "create" /\ "clone" \in DOMAIN c /\ c.pc = "write")
  <2>1. Ends(q, c.scope, {}) /\ undone' = undone
    BY <1>6 DEF Fails, At, ItemPcs
  <2>2. RoomWrites(q) /\ RoomUndoes(q)
    BY <1>1, <2>1, RoomUnwritten DEF RoomUndoes
  <2> QED
    BY <1>1, <2>1, <2>2, RoomEnds
<1> QED
  BY <1>3, <1>4, <1>5, <1>6 DEF ItemPcs

\* Every step keeps the invariant.
LEMMA RoomNext ==
  ASSUME RoomBookingsAssumption, RoomInv, [Next]_vars
  PROVE  RoomInv'
<1>1. CASE UNCHANGED vars
  BY <1>1, RoomStutters
<1>2. CASE Restart
  BY <1>2, RoomRestart
<1>3. ASSUME NEW q \in Call, NEW s \in Schedule,
             \/ BeginPatch(q, s) \/ BeginCreate(q, s)
             \/ BeginAdvance(q, s) \/ BeginDelete(q, s)
             \/ \E clone \in Schedule : BeginMove(q, s, clone)
      PROVE  RoomInv'
  BY <1>3, RoomBeginPatch, RoomBeginCreate, RoomBeginAdvance, RoomBeginDelete, RoomBeginMove
<1>4. ASSUME NEW q \in Call, NEW g \in Group, BeginDeleteGroup(q, g)
      PROVE  RoomInv'
  BY <1>4, RoomBeginDeleteGroup
<1>5. ASSUME NEW q \in Call, NEW r \in Room, BeginDeleteRoom(q, r)
      PROVE  RoomInv'
  BY <1>5, RoomBeginDeleteRoom
<1>6. ASSUME NEW q \in Call, BeginAssign(q)
      PROVE  RoomInv'
  BY <1>6, RoomBeginAssign
<1>7. ASSUME NEW q \in Call,
             \/ UpdateRead(q) \/ UpdateWrite(q) \/ ClearRows(q)
             \/ InsertRows(q) \/ DeleteRow(q) \/ AssignChannel(q)
             \/ FindNode(q) \/ ListSchedules(q) \/ StripGroup(q)
             \/ ListAssigned(q) \/ DropRoom(q) \/ Fails(q)
      PROVE  RoomInv'
  <2>1. RoomStep(q)
    BY <1>7, RoomUpdateRead, RoomUpdateWrite, RoomClearRows, RoomInsertRows, RoomDeleteRow,
       RoomAssignChannel, RoomFindNode, RoomListSchedules, RoomStripGroup, RoomListAssigned,
       RoomDropRoom, RoomFails
  <2> QED
    BY <2>1, RoomStepKept
<1> QED
  BY <1>1, <1>2, <1>3, <1>4, <1>5, <1>6, <1>7, Zenon DEF Next

\* What the invariant says of a moment with no request in flight.
LEMMA RoomIdle ==
  ASSUME RoomInv
  PROVE  RoomsAgree
<1>1. BookingsAgree
  <2> SUFFICES ASSUME \A q \in DOMAIN call : call[q].pc = "idle",
                      NEW s \in Schedule \ spoilt
               PROVE  InOrder(s)
    BY DEF BookingsAgree
  <2> QED
    BY DEF RoomInv, RoomTypes, Settled, InFlight
<1> QED
  BY <1>1 DEF RoomsAgree, RoomInv

\* Schedules that no race or failure left behind are in the room of their channels, with
\* their assignees in its roster, whenever no request is in flight; and a move that was
\* undone is detected again (room-roster-store.ts, channel-room-routes.ts).
THEOREM RoomsAreAgreed ==
  ASSUME RoomBookingsAssumption
  PROVE  Spec => []RoomsAgree
<1>1. Init => RoomInv
  BY RoomInit
<1>2. RoomInv /\ [Next]_vars => RoomInv'
  BY RoomNext
<1>3. RoomInv => RoomsAgree
  BY RoomIdle
<1> QED
  BY <1>1, <1>2, <1>3, PTL DEF Spec

-----------------------------------------------------------------------------
(* The starts of captures *)

\* TypeOK with the fields of the records.
Statuses == {"queued", "running", "stop_requested", "completed", "failed"}
JobRec == [recording : Nat, status : Statuses, startedAt : Nat \cup {Cap!Never}, ask : Asks,
           group : Nat]
StartRec == [pc : {"idle", "waits", "decide", "create", "job"}, ask : Asks \cup {{}},
             at : Nat, seen : SUBSET JobRec, group : Nat]

Types ==
  /\ now \in 0..MaxTime /\ crashes \in 0..MaxCrashes /\ unchecked \in BOOLEAN
  /\ recordings \in Seq(Nat) /\ jobs \in Seq(JobRec) /\ tail \in Seq(Start)
  /\ start \in [Start -> StartRec]
  /\ \A s \in Start : start[s].pc # "idle" => start[s].ask \in Asks
  /\ retried \subseteq Cap!Jobs /\ late \subseteq Cap!Jobs

\* Nothing is dated in the future, what is queued was not started, and what was
\* started in time was started within the window it was queued for.
Dates ==
  /\ \A r \in 1..Len(recordings) : recordings[r] <= now
  /\ \A j \in Cap!Jobs :
       /\ jobs[j].recording \in 1..Len(recordings)
       /\ jobs[j].startedAt <= now
       /\ jobs[j].status = "queued" => jobs[j].startedAt = Cap!Never
       /\ jobs[j].startedAt # Cap!Never /\ Cap!ActiveCapture(jobs[j]) /\ j \notin late =>
            jobs[j].startedAt < recordings[jobs[j].recording] + Seconds

\* The starts in the lock's queue are those under way, each once; the first has
\* the lock, and no time passes until the queue is empty.
Lock ==
  /\ \A i, k \in 1..Len(tail) : tail[i] = tail[k] => i = k
  /\ \A i \in 1..Len(tail) : start[tail[i]].pc # "idle"
  /\ \A s \in Start : start[s].pc # "idle" =>
       start[s].at = now /\ \E i \in 1..Len(tail) : tail[i] = s
  /\ \A s \in Start : start[s].pc \notin {"idle", "waits"} => Len(tail) >= 1 /\ tail[1] = s

\* A job that holds its channels: its command has not lasted its time.
Since(job) == IF job.startedAt # Cap!Never THEN job.startedAt ELSE recordings[job.recording]
Live(job) == Cap!ActiveCapture(job) /\ now < Since(job) + Seconds

Exclusive ==
  \A j, k \in Cap!Jobs :
    (j # k /\ Live(jobs[j]) /\ Live(jobs[k]) /\ Cap!Checked(j) /\ Cap!Checked(k)
       /\ jobs[j].ask.key = jobs[k].ask.key)
      => jobs[j].ask.channels \cap jobs[k].ask.channels = {}

Shared ==
  (retried = {} /\ late = {}) =>
    \A j, k \in Cap!Jobs :
      (Live(jobs[j]) /\ Live(jobs[k]) /\ jobs[j].ask.key = jobs[k].ask.key)
        => jobs[j].group = jobs[k].group

\* The interfaces in use.
Keys == {jobs[j].ask.key : j \in {i \in Cap!Jobs : Cap!ActiveCapture(jobs[i])}}

Fits == (retried # {} => unchecked) /\ (~unchecked => Cardinality(Keys) <= Capacity)

\* What a start has read before it decides: a copy of every job that is active and
\* no retry, older by at most a claim.
Copy(copy, job) ==
  /\ Cap!ActiveCapture(copy) /\ copy.recording = job.recording /\ copy.ask = job.ask
  /\ copy.group = job.group
  /\ copy.startedAt = job.startedAt \/ (copy.startedAt = Cap!Never /\ job.startedAt = now)

SeenKeys(seen) == {c.ask.key : c \in {i \in seen : Cap!ActiveCapture(i)}}

StartInformed(s) ==
  /\ \A c \in start[s].seen : c.recording \in 1..Len(recordings) /\ c.startedAt <= now
  /\ \A j \in Cap!Jobs : Cap!ActiveCapture(jobs[j]) /\ j \notin retried =>
       \E c \in start[s].seen : Copy(c, jobs[j])
  /\ (retried = {} /\ late = {}) =>
       \A c, d \in start[s].seen :
         Live(c) /\ Live(d) /\ c.ask.key = d.ask.key => c.group = d.group
  /\ IsFiniteSet(SeenKeys(start[s].seen))
  /\ ~unchecked => Cardinality(SeenKeys(start[s].seen)) <= Capacity

\* What a start that decided can rely on until its job is there.
Granting(s) ==
  /\ \A j \in Cap!Jobs :
       Live(jobs[j]) /\ Cap!Checked(j) /\ jobs[j].ask.key = start[s].ask.key =>
         jobs[j].ask.channels \cap start[s].ask.channels = {}
  /\ (retried = {} /\ late = {}) =>
       \A j \in Cap!Jobs :
         Live(jobs[j]) /\ jobs[j].ask.key = start[s].ask.key => jobs[j].group = start[s].group
  /\ ~unchecked /\ start[s].ask.adHoc => Cardinality(Keys \cup {start[s].ask.key}) <= Capacity
  /\ start[s].pc = "job" => Len(recordings) >= 1 /\ recordings[Len(recordings)] = now

Decided == \A s \in Start : start[s].pc = "decide" => StartInformed(s)
Accepted == \A s \in Start : start[s].pc \in {"create", "job"} => Granting(s)

IInv == Types /\ Dates /\ Lock /\ Exclusive /\ Shared /\ Fits /\ Decided /\ Accepted

-----------------------------------------------------------------------------
(* Types, dates and the lock *)

\* The instance counts as this module does.
LEMMA Counts ==
  ASSUME NEW S
  PROVE  Cap!Cardinality(S) = Cardinality(S)
BY Zenon DEF Cap!Cardinality, Cardinality

\* What the assumption says of the constants.
LEMMA Consts ==
  ASSUME Cap!CaptureStartAssumption
  PROVE  /\ Seconds \in Nat /\ Seconds >= 1 /\ Capacity \in Nat /\ MaxTime \in Nat
         /\ \A ask \in Asks : ask.adHoc \in BOOLEAN
BY DEF Cap!CaptureStartAssumption

\* The invariant holds initially.
LEMMA InitIInv ==
  ASSUME Cap!CaptureStartAssumption, Cap!Init
  PROVE  IInv
<1> USE Consts DEF Cap!Init, Cap!Jobs
<1>1. Cap!Jobs = {} /\ Keys = {}
  BY DEF Keys
<1>2. Types
  <2>1. Cap!Idle \in StartRec
    BY DEF Cap!Idle, StartRec
  <2>2. start \in [Start -> StartRec] /\ \A s \in Start : start[s].pc = "idle"
    BY <2>1 DEF Cap!Idle
  <2>3. recordings \in Seq(Nat) /\ jobs \in Seq(JobRec) /\ tail \in Seq(Start)
    OBVIOUS
  <2>4. now \in 0..MaxTime /\ crashes \in 0..MaxCrashes
    BY DEF Cap!CaptureStartAssumption
  <2> QED
    BY <1>1, <2>2, <2>3, <2>4 DEF Types
<1>3. Dates /\ Lock
  BY <1>1 DEF Dates, Lock, Cap!Idle
<1>4. Exclusive /\ Shared /\ Decided /\ Accepted
  BY <1>1 DEF Exclusive, Shared, Decided, Accepted, Cap!Idle
<1>5. Fits
  BY <1>1, FS_EmptySet DEF Fits
<1> QED
  BY <1>2, <1>3, <1>4, <1>5 DEF IInv

\* The steps of a start as they change its record.
LEMMA StartMoves ==
  ASSUME Cap!CaptureStartAssumption, Types, NEW s \in Start, Cap!StartStep(s)
  PROVE  /\ start[s].pc # "idle"
         /\ \/ /\ Cap!ReadJobs(s) /\ start[s].pc = "waits" /\ tail # <<>> /\ Head(tail) = s
               /\ start' = [start EXCEPT ![s] = [start[s] EXCEPT !.pc = "decide",
                                                                 !.seen = Cap!ToSet(jobs)]]
               /\ UNCHANGED <<now, recordings, jobs, tail, crashes, unchecked, retried, late>>
            \/ /\ start[s].pc = "decide" /\ start' = [start EXCEPT ![s] = Cap!Idle]
               /\ tail' = Tail(tail)
               /\ UNCHANGED <<now, recordings, jobs, crashes, unchecked, retried, late>>
            \/ /\ Cap!Accept(s) /\ start[s].pc = "decide"
               /\ \E group \in Nat :
                    start' = [start EXCEPT ![s] = [start[s] EXCEPT !.pc = "create", !.seen = {},
                                                                   !.group = group]]
               /\ UNCHANGED <<now, recordings, jobs, tail, crashes, unchecked, retried, late>>
            \/ /\ start[s].pc = "create"
               /\ start' = [start EXCEPT ![s] = [start[s] EXCEPT !.pc = "job"]]
               /\ recordings' = Append(recordings, start[s].at)
               /\ UNCHANGED <<now, jobs, tail, crashes, unchecked, retried, late>>
            \/ /\ Cap!CreateJob(s) /\ start[s].pc = "job" /\ start' = [start EXCEPT ![s] = Cap!Idle]
               /\ tail' = Tail(tail)
<1>1. CASE Cap!ReadJobs(s)
  BY <1>1 DEF Cap!ReadJobs, Cap!Set, Cap!Granted
<1>2. CASE Cap!Reject(s)
  BY <1>2 DEF Cap!Reject, Cap!Leave, Cap!Set
<1>3. CASE Cap!Accept(s)
  <2> DEFINE joinable == Cap!Joinable(s, Cap!Claims(start[s].seen))
  <2>1. start[s].seen \subseteq JobRec /\ Len(recordings) \in Nat
    BY DEF Types, StartRec
  <2>2. joinable \subseteq Nat
    BY <2>1 DEF Cap!Joinable, Cap!Claims, JobRec
  <2>3. Cap!NewGroup \in Nat
    BY <2>1 DEF Cap!NewGroup
  <2>4. \E group \in IF joinable = {} THEN {Cap!NewGroup} ELSE joinable :
           start' = [start EXCEPT ![s] = [start[s] EXCEPT !.pc = "create", !.seen = {},
                                                          !.group = group]]
    BY <1>3 DEF Cap!Accept, Cap!Set
  <2> HIDE DEF joinable
  <2>5. \E group \in Nat :
           start' = [start EXCEPT ![s] = [start[s] EXCEPT !.pc = "create", !.seen = {},
                                                          !.group = group]]
    BY <2>2, <2>3, <2>4
  <2> QED
    BY <1>3, <2>5 DEF Cap!Accept
<1>4. CASE Cap!CreateRecording(s)
  BY <1>4 DEF Cap!CreateRecording, Cap!Set
<1>5. CASE Cap!CreateJob(s)
  BY <1>5 DEF Cap!CreateJob, Cap!Leave, Cap!Set
<1> QED
  BY <1>1, <1>2, <1>3, <1>4, <1>5 DEF Cap!StartStep

\* The elements of a sequence after its first.
LEMMA TailElements ==
  ASSUME NEW S, NEW q \in Seq(S), Len(q) >= 1
  PROVE  /\ Tail(q) \in Seq(S) /\ Len(Tail(q)) = Len(q) - 1 /\ Head(q) = q[1]
         /\ \A i \in 1..Len(Tail(q)) : Tail(q)[i] = q[i + 1] /\ i + 1 \in 1..Len(q)
OBVIOUS

\* What the jobs become: the number of jobs and the fields that a step keeps.
LEMMA JobSteps ==
  ASSUME Cap!CaptureStartAssumption, Types, Dates
  PROVE  /\ \A j \in Cap!Jobs : Cap!StopJob(j) \/ Cap!EndJob(j) =>
              /\ Cap!Jobs' = Cap!Jobs /\ jobs' \in Seq(JobRec)
              /\ \A k \in Cap!Jobs :
                   /\ jobs'[k].recording = jobs[k].recording /\ jobs'[k].ask = jobs[k].ask
                   /\ jobs'[k].group = jobs[k].group /\ jobs'[k].startedAt = jobs[k].startedAt
                   /\ Cap!ActiveCapture(jobs'[k]) => Cap!ActiveCapture(jobs[k])
                   /\ jobs'[k].status = "queued" => jobs[k].status = "queued"
         /\ Cap!Claim =>
              /\ Cap!Jobs' = Cap!Jobs /\ jobs' \in Seq(JobRec) /\ late \subseteq late' /\ late' \subseteq Cap!Jobs
              /\ \A k \in Cap!Jobs :
                   /\ jobs'[k].recording = jobs[k].recording /\ jobs'[k].ask = jobs[k].ask
                   /\ jobs'[k].group = jobs[k].group
                   /\ \/ jobs'[k] = jobs[k]
                      \/ /\ jobs[k].status = "queued" /\ jobs'[k].status = "running"
                         /\ jobs'[k].startedAt = now
                         /\ k \in late' \/ now < recordings[jobs[k].recording] + Seconds
<1>0. jobs \in Seq(JobRec) /\ \A k \in Cap!Jobs : jobs[k] \in JobRec
  BY DEF Types, Cap!Jobs
<1>t. now \in Nat /\ \A k \in Cap!Jobs : recordings[jobs[k].recording] \in Nat
  BY Consts, SMTT(20) DEF Types, Dates
<1>1. ASSUME NEW j \in Cap!Jobs, Cap!StopJob(j) \/ Cap!EndJob(j)
      PROVE  /\ Cap!Jobs' = Cap!Jobs /\ jobs' \in Seq(JobRec)
             /\ \A k \in Cap!Jobs :
                  /\ jobs'[k].recording = jobs[k].recording /\ jobs'[k].ask = jobs[k].ask
                  /\ jobs'[k].group = jobs[k].group /\ jobs'[k].startedAt = jobs[k].startedAt
                  /\ Cap!ActiveCapture(jobs'[k]) => Cap!ActiveCapture(jobs[k])
                  /\ jobs'[k].status = "queued" => jobs[k].status = "queued"
  <2>1. PICK status \in {"stop_requested", "completed", "failed"} :
          jobs' = [jobs EXCEPT ![j].status = status]
    BY <1>1 DEF Cap!StopJob, Cap!EndJob, Cap!Becomes
  <2>2. Cap!ActiveCapture(jobs[j])
    BY <1>1 DEF Cap!StopJob, Cap!EndJob, Cap!ActiveCapture
  <2>3. jobs' \in Seq(JobRec) /\ Len(jobs') = Len(jobs)
    <3>1. jobs \in [1..Len(jobs) -> JobRec] /\ Len(jobs) \in Nat
      BY <1>0
    <3>2. [jobs[j] EXCEPT !.status = status] \in JobRec
      BY <1>0, <2>1 DEF JobRec, Statuses
    <3>3. jobs' \in [1..Len(jobs) -> JobRec]
      BY <2>1, <3>1, <3>2
    <3> QED
      BY <3>1, <3>3
  <2>4. ASSUME NEW k \in Cap!Jobs
        PROVE  jobs'[k] = IF k = j THEN [jobs[j] EXCEPT !.status = status] ELSE jobs[k]
    BY <1>0, <2>1 DEF Cap!Jobs
  <2>5. ASSUME NEW k \in Cap!Jobs
        PROVE  /\ jobs'[k].recording = jobs[k].recording /\ jobs'[k].ask = jobs[k].ask
               /\ jobs'[k].group = jobs[k].group /\ jobs'[k].startedAt = jobs[k].startedAt
               /\ Cap!ActiveCapture(jobs'[k]) => Cap!ActiveCapture(jobs[k])
               /\ jobs'[k].status = "queued" => jobs[k].status = "queued"
    <3>1. jobs[k] \in JobRec /\ jobs[j] \in JobRec
      BY <1>0
    <3> QED
      BY <2>2, <2>4, <3>1 DEF JobRec
  <2> QED
    BY <2>3, <2>5 DEF Cap!Jobs
<1>2. ASSUME Cap!Claim
      PROVE  /\ Cap!Jobs' = Cap!Jobs /\ jobs' \in Seq(JobRec) /\ late \subseteq late'
             /\ late' \subseteq Cap!Jobs
             /\ \A k \in Cap!Jobs :
                  /\ jobs'[k].recording = jobs[k].recording /\ jobs'[k].ask = jobs[k].ask
                  /\ jobs'[k].group = jobs[k].group
                  /\ \/ jobs'[k] = jobs[k]
                     \/ /\ jobs[k].status = "queued" /\ jobs'[k].status = "running"
                        /\ jobs'[k].startedAt = now
                        /\ k \in late' \/ now < recordings[jobs[k].recording] + Seconds
  <2> DEFINE queued == {j \in Cap!Jobs : jobs[j].status = "queued"}
             oldest == CHOOSE j \in queued : \A k \in queued : j <= k
             members == {j \in queued : jobs[j].group = jobs[oldest].group}
  <2>1. /\ jobs' = [j \in Cap!Jobs |-> IF j \in members
                                   THEN [jobs[j] EXCEPT !.status = "running", !.startedAt = now]
                                   ELSE jobs[j]]
        /\ late' = late \cup {j \in members : now >= recordings[jobs[j].recording] + Seconds}
    BY <1>2 DEF Cap!Claim
  <2>2. members \subseteq {j \in Cap!Jobs : jobs[j].status = "queued"}
    OBVIOUS
  <2> HIDE DEF members
  <2>3. ASSUME NEW k \in Cap!Jobs
        PROVE  jobs'[k] = IF k \in members
                          THEN [jobs[k] EXCEPT !.status = "running", !.startedAt = now]
                          ELSE jobs[k]
    BY <2>1
  <2>4. ASSUME NEW k \in Cap!Jobs
        PROVE  jobs'[k] \in JobRec
    BY <1>0, <1>t, <2>3 DEF JobRec, Statuses
  <2>5. jobs' \in Seq(JobRec) /\ Len(jobs') = Len(jobs)
    <3>1. Len(jobs) \in Nat /\ Cap!Jobs = 1..Len(jobs)
      BY <1>0 DEF Cap!Jobs
    <3>2. jobs' \in [1..Len(jobs) -> JobRec]
      BY <2>1, <2>4, <3>1
    <3> QED
      BY <3>1, <3>2
  <2>6. ASSUME NEW k \in Cap!Jobs
        PROVE  /\ jobs'[k].recording = jobs[k].recording /\ jobs'[k].ask = jobs[k].ask
               /\ jobs'[k].group = jobs[k].group
               /\ \/ jobs'[k] = jobs[k]
                  \/ /\ jobs[k].status = "queued" /\ jobs'[k].status = "running"
                     /\ jobs'[k].startedAt = now
                     /\ k \in late' \/ now < recordings[jobs[k].recording] + Seconds
    <3>1. jobs[k] \in JobRec
      BY <1>0
    <3>2. CASE k \notin members
      BY <2>3, <3>2
    <3>3. CASE k \in members
      <4>1. /\ jobs'[k].recording = jobs[k].recording /\ jobs'[k].ask = jobs[k].ask
            /\ jobs'[k].group = jobs[k].group /\ jobs'[k].status = "running"
            /\ jobs'[k].startedAt = now /\ jobs[k].status = "queued"
        BY <2>2, <2>3, <3>1, <3>3 DEF JobRec
      <4>2. k \in late' \/ now < recordings[jobs[k].recording] + Seconds
        <5>1. now >= recordings[jobs[k].recording] + Seconds => k \in late'
          BY <2>1, <3>3
        <5>2. now \in Nat /\ recordings[jobs[k].recording] + Seconds \in Nat
          BY <1>t, Consts
        <5> QED
          BY <5>1, <5>2
      <4> QED
        BY <4>1, <4>2
    <3> QED
      BY <3>2, <3>3
  <2>7. Cap!Jobs' = Cap!Jobs
    BY <2>5 DEF Cap!Jobs
  <2>8. late \subseteq late' /\ late' \subseteq Cap!Jobs
    BY <2>1, <2>2 DEF Types
  <2> QED
    BY <2>5, <2>6, <2>7, <2>8
<1> QED
  BY <1>1, <1>2

\* What a step that adds a job appends.
LEMMA Appended ==
  ASSUME NEW S, NEW q \in Seq(S), NEW e \in S, NEW q1, q1 = Append(q, e)
  PROVE  /\ q1 \in Seq(S) /\ Len(q1) = Len(q) + 1 /\ Len(q) \in Nat /\ q1[Len(q) + 1] = e
         /\ \A i \in 1..Len(q) : q1[i] = q[i]
OBVIOUS

\* Every step keeps the types.
LEMMA StepTypes ==
  ASSUME Cap!CaptureStartAssumption, IInv, [Cap!Next]_Cap!vars
  PROVE  Types'
<1> USE Consts
<1>0. Types /\ Dates /\ Lock
  BY DEF IInv
<1>i. Cap!Idle \in StartRec /\ Cap!Idle.pc = "idle"
  BY DEF Cap!Idle, StartRec
<1>j. \A k \in Cap!Jobs : jobs[k] \in JobRec
  BY <1>0 DEF Types, Cap!Jobs
<1>1. ASSUME NEW s \in Start, Cap!Enter(s)
      PROVE  Types'
  <2>1. PICK ask \in Asks :
          /\ start' = [start EXCEPT ![s] = [Cap!Idle EXCEPT !.pc = "waits", !.ask = ask, !.at = now]]
          /\ tail' = Append(tail, s)
          /\ UNCHANGED <<now, recordings, jobs, crashes, unchecked, retried, late>>
    BY <1>1 DEF Cap!Enter, Cap!Set
  <2> DEFINE rec == [Cap!Idle EXCEPT !.pc = "waits", !.ask = ask, !.at = now]
  <2>2. rec \in StartRec /\ rec.ask = ask
    <3>1. now \in Nat
      BY <1>0 DEF Types
    <3> QED
      BY <1>i, <3>1 DEF StartRec
  <2> HIDE DEF rec
  <2>3. start' \in [Start -> StartRec] /\ tail' \in Seq(Start)
    BY <1>0, <2>1, <2>2 DEF Types, rec
  <2>4. ASSUME NEW t \in Start, start'[t].pc # "idle"
        PROVE  start'[t].ask \in Asks
    BY <1>0, <2>1, <2>2, <2>4 DEF Types, rec
  <2> QED
    BY <1>0, <2>1, <2>3, <2>4 DEF Types, Cap!Jobs
<1>2. ASSUME NEW s \in Start, Cap!StartStep(s)
      PROVE  Types'
  <2>0. start \in [Start -> StartRec] /\ start[s] \in StartRec
    BY <1>0 DEF Types
  <2>m. start[s].pc # "idle" /\ start[s].ask \in Asks
    BY <1>0, <1>2, StartMoves DEF Types
  <2>1. CASE
          /\ start' = [start EXCEPT ![s] = [start[s] EXCEPT !.pc = "decide", !.seen = Cap!ToSet(jobs)]]
             /\ UNCHANGED <<now, recordings, jobs, tail, crashes, unchecked, retried, late>>
    <3> DEFINE rec == [start[s] EXCEPT !.pc = "decide", !.seen = Cap!ToSet(jobs)]
    <3>1. Cap!ToSet(jobs) \subseteq JobRec
      BY <1>0 DEF Cap!ToSet, Types
    <3>2. rec \in StartRec /\ rec.ask = start[s].ask
      BY <2>0, <3>1 DEF StartRec
    <3> HIDE DEF rec
    <3>3. /\ start' \in [Start -> StartRec]
          /\ \A t \in Start : start'[t] = IF t = s THEN rec ELSE start[t]
      BY <2>0, <2>1, <3>2 DEF rec
    <3> QED
      BY <1>0, <2>m, <2>1, <3>2, <3>3 DEF Types, Cap!Jobs
  <2>2. CASE /\ start' = [start EXCEPT ![s] = Cap!Idle] /\ tail' = Tail(tail)
          /\ start[s].pc = "decide"
             /\ UNCHANGED <<now, recordings, jobs, crashes, unchecked, retried, late>>
    <3>1. /\ start' \in [Start -> StartRec]
          /\ \A t \in Start : start'[t] = IF t = s THEN Cap!Idle ELSE start[t]
      BY <1>i, <2>0, <2>2
    <3>2. Len(tail) >= 1
      BY <1>0, <2>2 DEF Lock
    <3>3. tail' \in Seq(Start)
      BY <1>0, <2>2, <3>2, TailElements DEF Types
    <3> QED
      BY <1>0, <1>i, <2>2, <3>1, <3>3 DEF Types, Cap!Jobs
  <2>3. ASSUME NEW group \in Nat,
               start' = [start EXCEPT ![s] = [start[s] EXCEPT !.pc = "create", !.seen = {},
                                                              !.group = group]],
               UNCHANGED <<now, recordings, jobs, tail, crashes, unchecked, retried, late>>
        PROVE  Types'
    <3> DEFINE rec == [start[s] EXCEPT !.pc = "create", !.seen = {}, !.group = group]
    <3>1. rec \in StartRec /\ rec.ask = start[s].ask
      BY <2>0 DEF StartRec
    <3> HIDE DEF rec
    <3>2. /\ start' \in [Start -> StartRec]
          /\ \A t \in Start : start'[t] = IF t = s THEN rec ELSE start[t]
      BY <2>0, <2>3, <3>1 DEF rec
    <3> QED
      BY <1>0, <2>m, <2>3, <3>1, <3>2 DEF Types, Cap!Jobs
  <2>4. CASE /\ start' = [start EXCEPT ![s] = [start[s] EXCEPT !.pc = "job"]]
             /\ recordings' = Append(recordings, start[s].at)
             /\ UNCHANGED <<now, jobs, tail, crashes, unchecked, retried, late>>
    <3> DEFINE rec == [start[s] EXCEPT !.pc = "job"]
    <3>1. rec \in StartRec /\ rec.ask = start[s].ask /\ start[s].at \in Nat
      BY <2>0 DEF StartRec
    <3> HIDE DEF rec
    <3>2. /\ start' \in [Start -> StartRec]
          /\ \A t \in Start : start'[t] = IF t = s THEN rec ELSE start[t]
      BY <2>0, <2>4, <3>1 DEF rec
    <3>3. recordings' \in Seq(Nat)
      BY <1>0, <2>4, <3>1 DEF Types
    <3> QED
      BY <1>0, <2>m, <2>4, <3>1, <3>2, <3>3 DEF Types, Cap!Jobs
  <2>5. CASE Cap!CreateJob(s)
    <3> DEFINE job == [recording |-> Len(recordings), status |-> "queued", startedAt |-> Cap!Never,
                       ask |-> start[s].ask, group |-> start[s].group]
    <3>1. /\ jobs' = Append(jobs, job) /\ start' = [start EXCEPT ![s] = Cap!Idle]
          /\ tail' = Tail(tail)
          /\ unchecked' = (unchecked \/ ~start[s].ask.adHoc) /\ start[s].pc = "job"
          /\ UNCHANGED <<now, recordings, crashes, retried, late>>
      BY <2>5 DEF Cap!CreateJob, Cap!Leave, Cap!Set
    <3>2. job \in JobRec
      BY <1>0, <2>0, <2>m DEF JobRec, StartRec, Statuses, Types
    <3> HIDE DEF job
    <3>3. jobs' \in Seq(JobRec) /\ Len(jobs') = Len(jobs) + 1 /\ Len(jobs) \in Nat
      BY <1>0, <3>1, <3>2, Appended DEF Types
    <3>4. /\ start' \in [Start -> StartRec]
          /\ \A t \in Start : start'[t] = IF t = s THEN Cap!Idle ELSE start[t]
      BY <1>i, <2>0, <3>1
    <3>5. tail' \in Seq(Start)
      <4>1. Len(tail) >= 1
        BY <1>0, <3>1 DEF Lock
      <4> QED
        BY <1>0, <3>1, <4>1, TailElements DEF Types
    <3>6. Cap!Jobs \subseteq Cap!Jobs'
      BY <3>3 DEF Cap!Jobs
    <3>7. unchecked' \in BOOLEAN
      BY <1>0, <3>1 DEF Types
    <3> QED
      BY <1>0, <1>i, <3>1, <3>3, <3>4, <3>5, <3>6, <3>7 DEF Types
  <2> QED
    BY <1>0, <1>2, <2>1, <2>2, <2>3, <2>4, <2>5, StartMoves
<1>3. CASE Cap!Crash
  <2>1. start' \in [Start -> StartRec] /\ \A t \in Start : start'[t].pc = "idle"
    BY <1>3, <1>i DEF Cap!Crash
  <2>2. tail' \in Seq(Start) /\ crashes' \in 0..MaxCrashes
    BY <1>0, <1>3 DEF Cap!Crash, Types, Cap!CaptureStartAssumption
  <2> QED
    BY <1>0, <1>3, <2>1, <2>2 DEF Cap!Crash, Types, Cap!Jobs
<1>4. CASE Cap!Claim
  BY <1>0, <1>4, JobSteps DEF Cap!Claim, Types
<1>5. ASSUME NEW j \in Cap!Jobs, Cap!StopJob(j) \/ Cap!EndJob(j)
      PROVE  Types'
  <2>1. Cap!Jobs' = Cap!Jobs /\ jobs' \in Seq(JobRec)
    BY <1>0, <1>5, JobSteps
  <2> QED
    BY <1>0, <1>5, <2>1 DEF Cap!StopJob, Cap!EndJob, Types
<1>6. ASSUME NEW j \in Cap!Jobs, Cap!RetryJob(j)
      PROVE  Types'
  <2> DEFINE job == [jobs[j] EXCEPT !.status = "queued", !.startedAt = Cap!Never]
             r == jobs[j].recording
  <2>1. /\ jobs' = Append(jobs, job) /\ recordings' = [recordings EXCEPT ![r] = now]
        /\ retried' = retried \cup {Len(jobs) + 1} /\ unchecked' = TRUE
        /\ UNCHANGED <<now, tail, start, crashes, late>>
    BY <1>6 DEF Cap!RetryJob
  <2>2. job \in JobRec
    BY <1>j DEF JobRec, Statuses
  <2> HIDE DEF job
  <2>3. jobs' \in Seq(JobRec) /\ Len(jobs') = Len(jobs) + 1 /\ Len(jobs) \in Nat
    BY <1>0, <2>1, <2>2, Appended DEF Types
  <2>4. Cap!Jobs \subseteq Cap!Jobs' /\ Len(jobs) + 1 \in Cap!Jobs'
    BY <2>3 DEF Cap!Jobs
  <2>5. recordings' \in Seq(Nat)
    BY <1>0, <2>1 DEF Types, Dates
  <2> QED
    BY <1>0, <2>1, <2>3, <2>4, <2>5 DEF Types
<1>7. CASE Cap!Tick
  <2>1. now' \in 0..MaxTime
    BY <1>0, <1>7 DEF Cap!Tick, Types
  <2> QED
    BY <1>0, <1>7, <2>1 DEF Cap!Tick, Types, Cap!Jobs
<1>8. CASE UNCHANGED Cap!vars
  BY <1>0, <1>8 DEF Cap!vars, Types, Cap!Jobs
<1> QED
  BY <1>1, <1>2, <1>3, <1>4, <1>5, <1>6, <1>7, <1>8 DEF Cap!Next

\* Every step keeps the order of the lock.
LEMMA StepLock ==
  ASSUME Cap!CaptureStartAssumption, IInv, [Cap!Next]_Cap!vars
  PROVE  Lock'
<1>0. Types /\ Lock
  BY DEF IInv
<1>a. start \in [Start -> StartRec] /\ tail \in Seq(Start) /\ Len(tail) \in Nat
  BY <1>0 DEF Types
<1>b. \A i \in 1..Len(tail) : tail[i] \in Start
  BY <1>a
<1>1. ASSUME NEW s \in Start, Cap!Enter(s)
      PROVE  Lock'
  <2>1. PICK ask \in Asks :
          /\ start' = [start EXCEPT ![s] = [Cap!Idle EXCEPT !.pc = "waits", !.ask = ask, !.at = now]]
          /\ tail' = Append(tail, s) /\ start[s].pc = "idle" /\ now' = now
    BY <1>1 DEF Cap!Enter, Cap!Set
  <2> DEFINE rec == [Cap!Idle EXCEPT !.pc = "waits", !.ask = ask, !.at = now]
  <2>2. rec.pc = "waits" /\ rec.at = now
    BY DEF Cap!Idle
  <2> HIDE DEF rec
  <2>3. \A t \in Start : start'[t] = IF t = s THEN rec ELSE start[t]
    BY <1>a, <2>1 DEF rec
  <2>4. /\ Len(tail') = Len(tail) + 1 /\ tail'[Len(tail) + 1] = s
        /\ \A i \in 1..Len(tail) : tail'[i] = tail[i]
    BY <1>a, <2>1, Appended
  <2>5. \A i \in 1..Len(tail) : tail[i] # s
    BY <1>0, <2>1 DEF Lock
  <2>6. \A i, k \in 1..Len(tail') : tail'[i] = tail'[k] => i = k
    BY <1>0, <1>a, <2>4, <2>5 DEF Lock
  <2>7. \A i \in 1..Len(tail') : start'[tail'[i]].pc # "idle"
    BY <1>0, <1>a, <1>b, <2>2, <2>3, <2>4 DEF Lock
  <2>8. ASSUME NEW t \in Start, start'[t].pc # "idle"
        PROVE  start'[t].at = now' /\ \E i \in 1..Len(tail') : tail'[i] = t
    <3>1. CASE t = s
      BY <1>a, <2>1, <2>2, <2>3, <2>4, <3>1
    <3>2. CASE t # s
      <4>1. PICK i \in 1..Len(tail) : tail[i] = t
        BY <1>0, <2>3, <2>8, <3>2 DEF Lock
      <4>2. i \in 1..Len(tail') /\ tail'[i] = t
        BY <1>a, <2>4, <4>1
      <4> QED
        BY <1>0, <2>1, <2>3, <2>8, <3>2, <4>2 DEF Lock
    <3> QED
      BY <3>1, <3>2
  <2>9. ASSUME NEW t \in Start, start'[t].pc \notin {"idle", "waits"}
        PROVE  Len(tail') >= 1 /\ tail'[1] = t
    BY <1>0, <1>a, <2>2, <2>3, <2>4, <2>9 DEF Lock
  <2> QED
    BY <2>6, <2>7, <2>8, <2>9 DEF Lock
\* The starts stay where they are; only the first goes on.
<1>2. ASSUME tail' = tail, now' = now,
             \A t \in Start : start'[t] = start[t] \/
               (/\ start'[t].pc # "idle" /\ start[t].pc # "idle" /\ start'[t].at = start[t].at
                /\ Len(tail) >= 1 /\ tail[1] = t)
      PROVE  Lock'
  BY <1>0, <1>a, <1>b, <1>2 DEF Lock
\* The first leaves.
<1>3. ASSUME NEW s \in Start, Len(tail) >= 1, tail[1] = s, now' = now, tail' = Tail(tail),
             start' = [start EXCEPT ![s] = Cap!Idle]
      PROVE  Lock'
  <2>1. \A t \in Start : start'[t] = IF t = s THEN Cap!Idle ELSE start[t]
    BY <1>a, <1>3
  <2>2. /\ Len(tail') = Len(tail) - 1
        /\ \A i \in 1..Len(tail') : tail'[i] = tail[i + 1] /\ i + 1 \in 1..Len(tail)
    BY <1>a, <1>3, TailElements
  <2>3. ASSUME NEW i \in 1..Len(tail'), NEW k \in 1..Len(tail'), tail'[i] = tail'[k]
        PROVE  i = k
    <3>1. i + 1 \in 1..Len(tail) /\ k + 1 \in 1..Len(tail) /\ tail[i + 1] = tail[k + 1]
      BY <2>2, <2>3
    <3>2. i + 1 = k + 1
      BY <1>0, <3>1 DEF Lock
    <3> QED
      BY <3>2
  <2>4. \A i \in 1..Len(tail') : tail'[i] # s
    BY <1>0, <1>a, <1>3, <2>2 DEF Lock
  <2>5. \A i \in 1..Len(tail') : start'[tail'[i]].pc # "idle"
    BY <1>0, <1>b, <2>1, <2>2, <2>4 DEF Lock
  <2>6. ASSUME NEW t \in Start, start'[t].pc # "idle"
        PROVE  /\ start'[t].at = now' /\ \E i \in 1..Len(tail') : tail'[i] = t
               /\ start'[t].pc = "waits"
    <3>1. t # s /\ start'[t] = start[t]
      BY <2>1, <2>6 DEF Cap!Idle
    <3>2. PICK i \in 1..Len(tail) : tail[i] = t
      BY <1>0, <2>6, <3>1 DEF Lock
    <3>3. i - 1 \in 1..Len(tail') /\ tail'[i - 1] = t
      BY <1>a, <1>3, <2>2, <3>1, <3>2
    <3>4. start[t].pc = "waits"
      BY <1>0, <1>3, <2>6, <3>1 DEF Lock
    <3>5. \E m \in 1..Len(tail') : tail'[m] = t
      BY <3>3
    <3>6. start'[t].at = now'
      BY <1>0, <1>3, <2>6, <3>1 DEF Lock
    <3> QED
      BY <3>1, <3>4, <3>5, <3>6
  <2> QED
    BY <2>3, <2>5, <2>6 DEF Lock
<1>4. ASSUME NEW s \in Start, Cap!StartStep(s)
      PROVE  Lock'
  <2>1. start[s].pc # "idle"
    BY <1>0, <1>4, StartMoves
  <2>2. start[s].pc # "waits" => Len(tail) >= 1 /\ tail[1] = s
    BY <1>0, <2>1 DEF Lock
  <2>3. start[s] \in StartRec
    BY <1>a
  <2>4. CASE /\ tail' = Tail(tail) /\ start' = [start EXCEPT ![s] = Cap!Idle] /\ now' = now
             /\ start[s].pc # "waits"
    BY <1>3, <2>2, <2>4
  <2>5. CASE Cap!ReadJobs(s)
    <3>1. Len(tail) >= 1 /\ tail[1] = s
      BY <1>a, <2>5 DEF Cap!ReadJobs, Cap!Granted
    <3>2. \A t \in Start : start'[t] =
            IF t = s THEN [start[s] EXCEPT !.pc = "decide", !.seen = Cap!ToSet(jobs)]
                     ELSE start[t]
      BY <1>a, <2>5 DEF Cap!ReadJobs, Cap!Set
    <3>3. start'[s].pc = "decide" /\ start'[s].at = start[s].at
      BY <2>3, <3>2 DEF StartRec
    <3> QED
      BY <1>2, <2>1, <2>5, <3>1, <3>2, <3>3 DEF Cap!ReadJobs
  <2>6. ASSUME NEW group \in Nat, start[s].pc = "decide", tail' = tail, now' = now,
               start' = [start EXCEPT ![s] = [start[s] EXCEPT !.pc = "create", !.seen = {},
                                                              !.group = group]]
        PROVE  Lock'
    <3>1. \A t \in Start : start'[t] =
            IF t = s THEN [start[s] EXCEPT !.pc = "create", !.seen = {}, !.group = group]
                     ELSE start[t]
      BY <1>a, <2>6
    <3>2. start'[s].pc = "create" /\ start'[s].at = start[s].at
      BY <2>3, <3>1 DEF StartRec
    <3> QED
      BY <1>2, <2>1, <2>2, <2>6, <3>1, <3>2
  <2>7. CASE Cap!CreateRecording(s)
    <3>1. \A t \in Start : start'[t] =
            IF t = s THEN [start[s] EXCEPT !.pc = "job"]
                     ELSE start[t]
      BY <1>a, <2>7 DEF Cap!CreateRecording, Cap!Set
    <3>2. start'[s].pc = "job" /\ start'[s].at = start[s].at
      BY <2>3, <3>1 DEF StartRec
    <3> QED
      BY <1>2, <2>1, <2>2, <2>7, <3>1, <3>2 DEF Cap!CreateRecording
  <2>8. CASE Cap!Reject(s)
    BY <2>4, <2>8 DEF Cap!Reject, Cap!Leave, Cap!Set
  <2>9. CASE Cap!CreateJob(s)
    BY <2>4, <2>9 DEF Cap!CreateJob, Cap!Leave, Cap!Set
  <2>10. CASE Cap!Accept(s)
    BY <1>0, <1>4, <2>4, <2>6, <2>10, StartMoves DEF Cap!Accept
  <2> QED
    BY <1>4, <2>5, <2>7, <2>8, <2>9, <2>10 DEF Cap!StartStep
<1>5. CASE Cap!Crash
  <2>1. tail' = <<>> /\ \A t \in Start : start'[t].pc = "idle"
    BY <1>5 DEF Cap!Crash, Cap!Idle
  <2> QED
    BY <2>1 DEF Lock
<1>6. CASE Cap!Tick
  <2>1. tail = <<>> /\ tail' = tail /\ start' = start
    BY <1>6 DEF Cap!Tick
  <2>2. \A t \in Start : start[t].pc = "idle"
    BY <1>0, <2>1 DEF Lock
  <2> QED
    BY <2>1, <2>2 DEF Lock
<1>7. CASE UNCHANGED <<tail, start, now>>
  BY <1>2, <1>7
<1> QED
  BY <1>1, <1>4, <1>5, <1>6, <1>7
  DEF Cap!Next, Cap!vars, Cap!Claim, Cap!StopJob, Cap!EndJob, Cap!RetryJob

-----------------------------------------------------------------------------
(* What the jobs hold *)

\* The interfaces in use are finitely many.
LEMMA KeysFinite ==
  ASSUME Types
  PROVE  IsFiniteSet(Keys)
<1> DEFINE S == {i \in Cap!Jobs : Cap!ActiveCapture(jobs[i])}
           f == [i \in S |-> jobs[i].ask.key]
<1>1. Len(jobs) \in Nat
  BY DEF Types
<1>2. IsFiniteSet(Cap!Jobs)
  BY <1>1, FS_Interval DEF Cap!Jobs
<1>3. IsFiniteSet(S)
  BY <1>2, FS_Subset
<1>4. f \in Surjection(S, Keys)
  BY DEF Surjection, Keys
<1> QED
  BY <1>3, <1>4, FS_Surjection

\* A step that lets every job hold no more than it did, or was claimed late, and adds
\* jobs by retries only.
Carried ==
  /\ Cap!Jobs \subseteq Cap!Jobs' /\ \A j \in Cap!Jobs' : j \in Cap!Jobs \/ j \in retried'
  /\ \A j \in Cap!Jobs :
       /\ jobs'[j].ask = jobs[j].ask /\ jobs'[j].group = jobs[j].group
       /\ Cap!ActiveCapture(jobs'[j]) => Cap!ActiveCapture(jobs[j])
       /\ Live(jobs[j])' /\ j \notin late' => Live(jobs[j])
  /\ retried \subseteq retried' /\ late \subseteq late' /\ (unchecked => unchecked')
  /\ retried' # {} => retried = retried' \/ unchecked'
  /\ ~unchecked' => Cap!Jobs' = Cap!Jobs

\* Such a step keeps captures apart, or together, and within the capacity.
LEMMA Carry ==
  ASSUME Cap!CaptureStartAssumption, Types, Exclusive, Shared, Fits, Carried
  PROVE  Exclusive' /\ Shared' /\ Fits' /\ (~unchecked' => Keys' \subseteq Keys)
<1>1. Exclusive'
  <2> SUFFICES ASSUME NEW j \in Cap!Jobs', NEW k \in Cap!Jobs', j # k,
                      Live(jobs[j])', Live(jobs[k])', Cap!Checked(j)', Cap!Checked(k)',
                      jobs'[j].ask.key = jobs'[k].ask.key
               PROVE  jobs'[j].ask.channels \cap jobs'[k].ask.channels = {}
    BY DEF Exclusive
  <2>1. j \in Cap!Jobs /\ k \in Cap!Jobs /\ Cap!Checked(j) /\ Cap!Checked(k)
    BY DEF Carried, Cap!Checked
  <2>2. Live(jobs[j]) /\ Live(jobs[k])
    BY <2>1 DEF Carried, Cap!Checked
  <2> QED
    BY <2>1, <2>2 DEF Exclusive, Carried
<1>2. Shared'
  <2> SUFFICES ASSUME NEW j \in Cap!Jobs', NEW k \in Cap!Jobs', retried' = {}, late' = {},
                      Live(jobs[j])', Live(jobs[k])', jobs'[j].ask.key = jobs'[k].ask.key
               PROVE  jobs'[j].group = jobs'[k].group
    BY DEF Shared
  <2>1. j \in Cap!Jobs /\ k \in Cap!Jobs /\ retried = {} /\ late = {}
    BY DEF Carried
  <2>2. Live(jobs[j]) /\ Live(jobs[k])
    BY <2>1 DEF Carried
  <2> QED
    BY <2>1, <2>2 DEF Shared, Carried
<1>3. ASSUME ~unchecked'
      PROVE  Keys' \subseteq Keys
  BY <1>3 DEF Keys, Carried
<1>4. Fits'
  <2>1. retried' # {} => unchecked'
    BY DEF Carried, Fits
  <2>2. ASSUME ~unchecked'
        PROVE  Cardinality(Keys') <= Capacity
    <3>1. Cardinality(Keys) <= Capacity /\ IsFiniteSet(Keys) /\ Keys' \subseteq Keys
      BY <1>3, <2>2, KeysFinite DEF Fits, Carried
    <3>2. Cardinality(Keys') <= Cardinality(Keys) /\ IsFiniteSet(Keys')
      BY <3>1, FS_Subset
    <3>3. Cardinality(Keys') \in Nat /\ Cardinality(Keys) \in Nat
      BY <3>1, <3>2, FS_CardinalityType
    <3> QED
      BY <3>1, <3>2, <3>3, Consts
  <2> QED
    BY <2>1, <2>2 DEF Fits
<1> QED
  BY <1>1, <1>2, <1>3, <1>4

\* What a start relies on, it can go on relying on.
LEMMA CarryGranting ==
  ASSUME Cap!CaptureStartAssumption, Types, Carried, NEW s \in Start, Granting(s),
         start'[s].ask = start[s].ask, start'[s].group = start[s].group,
         start'[s].pc = "job" => Len(recordings') >= 1 /\ recordings'[Len(recordings')] = now',
         ~unchecked' => Keys' \subseteq Keys
  PROVE  Granting(s)'
<1>1. ASSUME NEW j \in Cap!Jobs', Live(jobs[j])', Cap!Checked(j)', jobs'[j].ask.key = start'[s].ask.key
      PROVE  jobs'[j].ask.channels \cap start'[s].ask.channels = {}
  <2>1. j \in Cap!Jobs /\ Cap!Checked(j)
    BY <1>1 DEF Carried, Cap!Checked
  <2>2. Live(jobs[j])
    BY <1>1, <2>1 DEF Carried, Cap!Checked
  <2> QED
    BY <1>1, <2>1, <2>2 DEF Granting, Carried
<1>2. ASSUME retried' = {}, late' = {}, NEW j \in Cap!Jobs', Live(jobs[j])',
             jobs'[j].ask.key = start'[s].ask.key
      PROVE  jobs'[j].group = start'[s].group
  <2>1. j \in Cap!Jobs /\ retried = {} /\ late = {}
    BY <1>2 DEF Carried
  <2>2. Live(jobs[j])
    BY <1>2, <2>1 DEF Carried
  <2> QED
    BY <1>2, <2>1, <2>2 DEF Granting, Carried
<1>3. ASSUME ~unchecked', start'[s].ask.adHoc
      PROVE  Cardinality(Keys' \cup {start'[s].ask.key}) <= Capacity
  <2> DEFINE K == Keys \cup {start[s].ask.key}
             L == Keys' \cup {start'[s].ask.key}
  <2>1. ~unchecked /\ start[s].ask.adHoc /\ L \subseteq K
    BY <1>3 DEF Carried
  <2>2. Cardinality(K) <= Capacity
    BY <2>1 DEF Granting
  <2>3. IsFiniteSet(K)
    BY KeysFinite, FS_AddElement
  <2> HIDE DEF K, L
  <2>4. Cardinality(L) <= Cardinality(K) /\ IsFiniteSet(L)
    BY <2>1, <2>3, FS_Subset
  <2>5. Cardinality(L) \in Nat /\ Cardinality(K) \in Nat
    BY <2>3, <2>4, FS_CardinalityType
  <2>6. Cardinality(L) <= Capacity
    BY <2>2, <2>4, <2>5, Consts
  <2> QED
    BY <2>6 DEF L
<1> QED
  BY <1>1, <1>2, <1>3 DEF Granting

\* Every step but the creation of a job is such a step, and keeps the dates.
LEMMA StepCarried ==
  ASSUME Cap!CaptureStartAssumption, IInv, [Cap!Next]_Cap!vars,
         \A s \in Start : ~Cap!CreateJob(s)
  PROVE  Carried /\ Dates'
<1> USE Consts
<1>0. Types /\ Dates /\ Lock
  BY DEF IInv
<1>a. /\ jobs \in Seq(JobRec) /\ Len(jobs) \in Nat /\ recordings \in Seq(Nat)
      /\ Len(recordings) \in Nat /\ now \in Nat
  BY <1>0 DEF Types
<1>b. \A k \in Cap!Jobs : jobs[k] \in JobRec
  BY <1>a DEF Cap!Jobs
<1>c. \A k \in Cap!Jobs : jobs[k].recording \in 1..Len(recordings) /\ recordings[jobs[k].recording] \in Nat
  BY <1>0, <1>a DEF Dates
<1>d. \A k \in Cap!Jobs : jobs[k].startedAt \in Nat \cup {Cap!Never}
  BY <1>b DEF JobRec
<1>1. ASSUME UNCHANGED <<now, recordings, jobs, unchecked, retried, late>>
      PROVE  Carried /\ Dates'
  <2>1. Cap!Jobs' = Cap!Jobs /\ \A k \in Cap!Jobs : jobs'[k] = jobs[k] /\ (Live(jobs[k])' => Live(jobs[k]))
    BY <1>1 DEF Cap!Jobs, Live, Since
  <2>2. Carried
    BY <1>1, <2>1 DEF Carried
  <2>3. Dates'
    BY <1>0, <1>1, <2>1 DEF Dates
  <2> QED
    BY <2>2, <2>3
<1>2. ASSUME NEW s \in Start, Cap!CreateRecording(s)
      PROVE  Carried /\ Dates'
  <2>1. /\ recordings' = Append(recordings, start[s].at) /\ start[s].pc = "create"
        /\ UNCHANGED <<now, jobs, unchecked, retried, late>>
    BY <1>2 DEF Cap!CreateRecording
  <2>2. start[s].at = now
    BY <1>0, <2>1 DEF Lock
  <2>3. /\ Len(recordings') = Len(recordings) + 1 /\ recordings'[Len(recordings) + 1] = now
        /\ \A r \in 1..Len(recordings) : recordings'[r] = recordings[r]
    BY <1>a, <2>1, <2>2, Appended
  <2>4. ASSUME NEW k \in Cap!Jobs
        PROVE  /\ jobs'[k] = jobs[k]
               /\ recordings'[jobs[k].recording] = recordings[jobs[k].recording]
               /\ Live(jobs[k])' => Live(jobs[k])
    BY <1>c, <2>1, <2>3 DEF Live, Since
  <2>5. Cap!Jobs' = Cap!Jobs
    BY <2>1 DEF Cap!Jobs
  <2>6. Carried
    BY <2>1, <2>4, <2>5 DEF Carried
  <2>7. \A r \in 1..Len(recordings') : recordings'[r] <= now'
    BY <1>0, <1>a, <2>1, <2>3 DEF Dates
  <2>8. \A k \in Cap!Jobs' : jobs'[k].recording \in 1..Len(recordings')
    BY <1>a, <1>c, <2>3, <2>4, <2>5
  <2>9. Dates'
    BY <1>0, <2>1, <2>4, <2>5, <2>7, <2>8 DEF Dates
  <2> QED
    BY <2>6, <2>9
<1>3. ASSUME NEW i \in Cap!Jobs, Cap!StopJob(i) \/ Cap!EndJob(i)
      PROVE  Carried /\ Dates'
  <2>1. UNCHANGED <<now, recordings, unchecked, retried, late>>
    BY <1>3 DEF Cap!StopJob, Cap!EndJob
  <2>2. /\ Cap!Jobs' = Cap!Jobs
        /\ \A k \in Cap!Jobs :
             /\ jobs'[k].recording = jobs[k].recording /\ jobs'[k].ask = jobs[k].ask
             /\ jobs'[k].group = jobs[k].group /\ jobs'[k].startedAt = jobs[k].startedAt
             /\ Cap!ActiveCapture(jobs'[k]) => Cap!ActiveCapture(jobs[k])
             /\ jobs'[k].status = "queued" => jobs[k].status = "queued"
    BY <1>0, <1>3, JobSteps
  <2>3. \A k \in Cap!Jobs : Live(jobs[k])' => Live(jobs[k])
    BY <2>1, <2>2 DEF Live, Since, Cap!ActiveCapture
  <2>4. Carried
    BY <2>1, <2>2, <2>3 DEF Carried
  <2>5. Dates'
    BY <1>0, <2>1, <2>2 DEF Dates
  <2> QED
    BY <2>4, <2>5
<1>4. CASE Cap!Claim
  <2>1. UNCHANGED <<now, recordings, unchecked, retried>>
    BY <1>4 DEF Cap!Claim
  <2>2. /\ Cap!Jobs' = Cap!Jobs /\ late \subseteq late'
        /\ \A k \in Cap!Jobs :
             /\ jobs'[k].recording = jobs[k].recording /\ jobs'[k].ask = jobs[k].ask
             /\ jobs'[k].group = jobs[k].group
             /\ \/ jobs'[k] = jobs[k]
                \/ /\ jobs[k].status = "queued" /\ jobs'[k].status = "running"
                   /\ jobs'[k].startedAt = now
                   /\ k \in late' \/ now < recordings[jobs[k].recording] + Seconds
    BY <1>0, <1>4, JobSteps
  <2>3. ASSUME NEW k \in Cap!Jobs
        PROVE  /\ Cap!ActiveCapture(jobs'[k]) => Cap!ActiveCapture(jobs[k])
               /\ Live(jobs[k])' /\ k \notin late' => Live(jobs[k])
    <3>1. CASE jobs'[k] = jobs[k]
      BY <2>1, <3>1 DEF Live, Since, Cap!ActiveCapture
    <3>2. CASE jobs'[k] # jobs[k]
      <4>1. Cap!ActiveCapture(jobs[k]) /\ jobs[k].startedAt = Cap!Never
        BY <1>0, <2>2, <3>2 DEF Cap!ActiveCapture, Dates
      <4>2. k \notin late' => now < Since(jobs[k]) + Seconds
        BY <2>2, <3>2, <4>1 DEF Since
      <4> QED
        BY <4>1, <4>2 DEF Live
    <3> QED
      BY <3>1, <3>2
  <2>4. Carried
    BY <2>1, <2>2, <2>3 DEF Carried
  <2>5. Dates'
    <3> SUFFICES ASSUME NEW k \in Cap!Jobs
                 PROVE  /\ jobs'[k].recording \in 1..Len(recordings)
                        /\ jobs'[k].startedAt <= now
                        /\ jobs'[k].status = "queued" => jobs'[k].startedAt = Cap!Never
                        /\ jobs'[k].startedAt # Cap!Never /\ Cap!ActiveCapture(jobs'[k]) /\ k \notin late' =>
                             jobs'[k].startedAt < recordings[jobs'[k].recording] + Seconds
      BY <1>0, <2>1, <2>2 DEF Dates
    <3>1. CASE jobs'[k] = jobs[k]
      BY <1>0, <2>2, <3>1 DEF Dates
    <3>2. CASE jobs'[k] # jobs[k]
      <4>1. /\ jobs'[k].recording = jobs[k].recording /\ jobs'[k].status = "running"
            /\ jobs'[k].startedAt = now
            /\ k \in late' \/ now < recordings[jobs[k].recording] + Seconds
        BY <2>2, <3>2
      <4>2. now <= now /\ jobs[k].recording \in 1..Len(recordings)
        BY <1>a, <1>c
      <4> QED
        BY <4>1, <4>2
    <3> QED
      BY <3>1, <3>2
  <2> QED
    BY <2>4, <2>5
<1>5. ASSUME NEW i \in Cap!Jobs, Cap!RetryJob(i)
      PROVE  Carried /\ Dates'
  <2> DEFINE job == [jobs[i] EXCEPT !.status = "queued", !.startedAt = Cap!Never]
             r == jobs[i].recording
             n == Len(jobs) + 1
  <2>1. /\ jobs' = Append(jobs, job) /\ recordings' = [recordings EXCEPT ![r] = now]
        /\ retried' = retried \cup {n} /\ unchecked' = TRUE
        /\ UNCHANGED <<now, late>>
        /\ \A k \in Cap!Jobs : ~(jobs[k].recording = r /\ Cap!ActiveCapture(jobs[k]))
    BY <1>5 DEF Cap!RetryJob
  <2>2. /\ job \in JobRec /\ job.recording = r /\ job.startedAt = Cap!Never
        /\ job.status = "queued"
        /\ r \in 1..Len(recordings)
    BY <1>b, <1>c DEF JobRec, Statuses
  <2> HIDE DEF job, r
  <2>3. /\ Len(jobs') = n /\ jobs'[n] = job /\ \A k \in Cap!Jobs : jobs'[k] = jobs[k]
    BY <1>a, <2>1, <2>2, Appended DEF Cap!Jobs
  <2>4. /\ Cap!Jobs \subseteq Cap!Jobs' /\ \A k \in Cap!Jobs' : k \in Cap!Jobs \/ k = n
    BY <1>a, <2>3, SMTT(20) DEF Cap!Jobs
  <2>5. /\ Len(recordings') = Len(recordings)
        /\ \A q \in 1..Len(recordings) : recordings'[q] = IF q = r THEN now ELSE recordings[q]
    BY <1>a, <2>1, <2>2
  <2>6. ASSUME NEW k \in Cap!Jobs
        PROVE  Live(jobs[k])' => Live(jobs[k])
    <3>1. Cap!ActiveCapture(jobs[k]) => recordings'[jobs[k].recording] = recordings[jobs[k].recording]
      BY <1>c, <2>1, <2>5
    <3> QED
      BY <2>1, <2>3, <3>1 DEF Live, Since, Cap!ActiveCapture
  <2>7. Carried
    BY <2>1, <2>3, <2>4, <2>6 DEF Carried
  <2>8. \A q \in 1..Len(recordings') : recordings'[q] <= now'
    BY <1>0, <1>a, <2>1, <2>5 DEF Dates
  <2>9. ASSUME NEW k \in Cap!Jobs'
        PROVE  /\ jobs'[k].recording \in 1..Len(recordings')
               /\ jobs'[k].startedAt <= now'
               /\ jobs'[k].status = "queued" => jobs'[k].startedAt = Cap!Never
               /\ jobs'[k].startedAt # Cap!Never /\ Cap!ActiveCapture(jobs'[k]) /\ k \notin late' =>
                    jobs'[k].startedAt < recordings'[jobs'[k].recording] + Seconds
    <3>1. CASE k \in Cap!Jobs
      <4>1. Cap!ActiveCapture(jobs[k]) => recordings'[jobs[k].recording] = recordings[jobs[k].recording]
        BY <1>c, <2>1, <2>5, <3>1
      <4> QED
        BY <1>0, <2>1, <2>3, <2>5, <3>1, <4>1 DEF Dates
    <3>2. CASE k = n
      BY <1>a, <2>1, <2>2, <2>3, <2>5, <3>2 DEF Cap!Never
    <3> QED
      BY <2>4, <3>1, <3>2
  <2>10. Dates'
    BY <2>8, <2>9 DEF Dates
  <2> QED
    BY <2>7, <2>10
<1>6. CASE Cap!Tick
  <2>1. now' = now + 1 /\ UNCHANGED <<recordings, jobs, unchecked, retried, late>>
    BY <1>6 DEF Cap!Tick
  <2>2. Cap!Jobs' = Cap!Jobs
    BY <2>1 DEF Cap!Jobs
  <2>3. \A k \in Cap!Jobs : Live(jobs[k])' => Live(jobs[k])
    <3> SUFFICES ASSUME NEW k \in Cap!Jobs, Live(jobs[k])'
                 PROVE  Live(jobs[k])
      OBVIOUS
    <3>1. Since(jobs[k])' = Since(jobs[k]) /\ Since(jobs[k]) \in Int
      BY <1>c, <1>d, <2>1 DEF Since, Cap!Never
    <3>2. Cap!ActiveCapture(jobs[k]) /\ now + 1 < Since(jobs[k]) + Seconds
      BY <2>1, <3>1 DEF Live, Cap!ActiveCapture
    <3> QED
      BY <1>a, <3>1, <3>2 DEF Live
  <2>4. Carried
    BY <2>1, <2>2, <2>3 DEF Carried
  <2>5. \A r \in 1..Len(recordings) : recordings[r] \in Nat
    BY <1>a
  <2>6. \A r \in 1..Len(recordings) : recordings[r] <= now + 1
    BY <1>0, <1>a, <2>5 DEF Dates
  <2>7. \A k \in Cap!Jobs : jobs[k].startedAt <= now + 1
    BY <1>0, <1>a, <1>d DEF Dates, Cap!Never
  <2>8. Dates'
    BY <1>0, <2>1, <2>2, <2>6, <2>7 DEF Dates
  <2> QED
    BY <2>4, <2>8
<1>7. ASSUME NEW s \in Start, Cap!StartStep(s), ~Cap!CreateRecording(s)
      PROVE  Carried /\ Dates'
  BY <1>1, <1>7 DEF Cap!StartStep, Cap!ReadJobs, Cap!Reject, Cap!Accept
<1> QED
  BY <1>1, <1>2, <1>3, <1>4, <1>5, <1>6, <1>7 DEF Cap!Next, Cap!vars, Cap!Enter, Cap!Crash

-----------------------------------------------------------------------------
(* The start that has the lock *)

\* Only the start that has the lock goes on.
LEMMA OnlyHolder ==
  ASSUME Cap!CaptureStartAssumption, IInv, NEW s \in Start, start[s].pc \notin {"idle",
         "waits"},
         NEW t \in Start, Cap!StartStep(t)
  PROVE  t = s
<1>0. Types /\ Lock
  BY DEF IInv
<1>1. Len(tail) >= 1 /\ tail[1] = s
  BY <1>0 DEF Lock
<1>2. start[t].pc # "idle" /\ (start[t].pc = "waits" => Head(tail) = t)
  BY <1>0, StartMoves DEF Cap!ReadJobs
<1>3. Head(tail) = tail[1]
  BY <1>0, <1>1 DEF Types
<1> QED
  BY <1>0, <1>1, <1>2, <1>3 DEF Lock

\* What happens while a start stands still that has the lock.
LEMMA WhileHeld ==
  ASSUME Cap!CaptureStartAssumption, IInv, [Cap!Next]_Cap!vars, NEW s \in Start,
         start[s].pc \notin {"idle", "waits"}, start'[s] = start[s]
  PROVE  /\ \A t \in Start : ~Cap!StartStep(t)
         /\ now' = now
         /\ \/ UNCHANGED <<now, recordings, jobs, unchecked, retried, late>>
            \/ Cap!Claim \/ \E j \in Cap!Jobs : Cap!StopJob(j) \/ Cap!EndJob(j) \/ Cap!RetryJob(j)
<1>0. Types /\ Lock
  BY DEF IInv
<1>1. ASSUME NEW t \in Start, Cap!StartStep(t)
      PROVE  FALSE
  <2>1. t = s
    BY <1>1, OnlyHolder
  <2>2. start[s] \in StartRec /\ start \in [Start -> StartRec]
    BY <1>0 DEF Types
  <2>3. Cap!StartStep(s)
    BY <1>1, <2>1
  <2>4. CASE start' = [start EXCEPT ![s] = Cap!Idle]
    BY <2>2, <2>4 DEF Cap!Idle
  <2>5. CASE start' = [start EXCEPT ![s] = [start[s] EXCEPT !.pc = "job"]]
          /\ start[s].pc = "create"
    BY <2>2, <2>5 DEF StartRec
  <2>6. ASSUME NEW group \in Nat, start[s].pc = "decide",
               start' = [start EXCEPT ![s] = [start[s] EXCEPT !.pc = "create", !.seen = {},
                                                              !.group = group]]
        PROVE  FALSE
    BY <2>2, <2>6 DEF StartRec
  <2> QED
    BY <1>0, <2>3, <2>4, <2>5, <2>6, StartMoves
<1>2. ~Cap!Crash
  BY DEF Cap!Crash, Cap!Idle
<1>3. ~Cap!Tick
  BY <1>0 DEF Cap!Tick, Lock
<1> QED
  BY <1>1, <1>2, <1>3 DEF Cap!Next, Cap!vars, Cap!Enter, Cap!Claim, Cap!StopJob,
     Cap!EndJob, Cap!RetryJob

\* What a start has read stays a sound picture of the jobs until it decides.
LEMMA StaysInformed ==
  ASSUME Cap!CaptureStartAssumption, IInv, [Cap!Next]_Cap!vars, NEW s \in Start,
         start[s].pc = "decide", start'[s] = start[s], Types'
  PROVE  StartInformed(s)'
<1> USE Consts
<1>0. Types /\ Dates /\ StartInformed(s)
  BY DEF IInv, Decided
<1>1. /\ \A t \in Start : ~Cap!StartStep(t)
      /\ now' = now
      /\ \/ UNCHANGED <<now, recordings, jobs, unchecked, retried, late>>
         \/ Cap!Claim \/ \E j \in Cap!Jobs : Cap!StopJob(j) \/ Cap!EndJob(j) \/ Cap!RetryJob(j)
  BY WhileHeld
<1>2. Carried /\ Dates'
  BY <1>1, StepCarried DEF Cap!StartStep
<1>3. Len(recordings') = Len(recordings) /\ (retried' = {} => recordings' = recordings)
  <2>1. ASSUME NEW j \in Cap!Jobs, Cap!RetryJob(j)
        PROVE  /\ recordings' = [recordings EXCEPT ![jobs[j].recording] = now]
               /\ retried' # {}
    BY <2>1 DEF Cap!RetryJob
  <2>2. recordings \in Seq(Nat) /\ now \in Nat
    BY <1>0 DEF Types
  <2>3. CASE recordings' = recordings
    BY <2>3
  <2>4. ASSUME NEW j \in Cap!Jobs, Cap!RetryJob(j)
        PROVE  Len(recordings') = Len(recordings) /\ retried' # {}
    <3>1. jobs[j].recording \in 1..Len(recordings)
      BY <1>0 DEF Dates
    <3> QED
      BY <2>1, <2>2, <2>4, <3>1
  <2> QED
    BY <1>1, <2>3, <2>4 DEF Cap!Claim, Cap!StopJob, Cap!EndJob
<1>4. \A c \in start[s].seen : c.recording \in 1..Len(recordings) /\ c.startedAt <= now
  BY <1>0 DEF StartInformed
<1>5. ASSUME NEW j \in Cap!Jobs', Cap!ActiveCapture(jobs'[j]), j \notin retried'
      PROVE  \E c \in start[s].seen : Copy(c, jobs[j])'
  <2>1. j \in Cap!Jobs /\ Cap!ActiveCapture(jobs[j]) /\ j \notin retried
    BY <1>2, <1>5 DEF Carried
  <2>2. PICK c \in start[s].seen : Copy(c, jobs[j])
    BY <1>0, <2>1 DEF StartInformed
  <2>3. /\ jobs'[j].recording = jobs[j].recording /\ jobs'[j].ask = jobs[j].ask
        /\ jobs'[j].group = jobs[j].group
        /\ \/ jobs'[j].startedAt = jobs[j].startedAt
           \/ jobs[j].startedAt = Cap!Never /\ jobs'[j].startedAt = now
    <3>1. CASE UNCHANGED jobs
      BY <3>1
    <3>2. ASSUME NEW i \in Cap!Jobs, Cap!StopJob(i) \/ Cap!EndJob(i)
          PROVE  /\ jobs'[j].recording = jobs[j].recording /\ jobs'[j].ask = jobs[j].ask
                 /\ jobs'[j].group = jobs[j].group
                 /\ jobs'[j].startedAt = jobs[j].startedAt
      BY <1>0, <2>1, <3>2, JobSteps
    <3>3. CASE Cap!Claim
      <4>1. /\ jobs'[j].recording = jobs[j].recording /\ jobs'[j].ask = jobs[j].ask
            /\ jobs'[j].group = jobs[j].group
            /\ \/ jobs'[j] = jobs[j]
               \/ jobs[j].status = "queued" /\ jobs'[j].startedAt = now
        BY <1>0, <2>1, <3>3, JobSteps
      <4>2. jobs[j].status = "queued" => jobs[j].startedAt = Cap!Never
        BY <1>0, <2>1 DEF Dates
      <4> QED
        BY <4>1, <4>2
    <3>4. ASSUME NEW i \in Cap!Jobs, Cap!RetryJob(i)
          PROVE  jobs'[j] = jobs[j]
      <4> DEFINE job == [jobs[i] EXCEPT !.status = "queued", !.startedAt = Cap!Never]
      <4>1. jobs[i] \in JobRec
        BY <1>0, <3>4 DEF Types, Cap!Jobs
      <4>2. job \in JobRec
        BY <4>1 DEF JobRec, Statuses
      <4>3. jobs' = Append(jobs, job)
        BY <3>4 DEF Cap!RetryJob
      <4> HIDE DEF job
      <4> QED
        BY <1>0, <2>1, <4>2, <4>3, Appended DEF Types, Cap!Jobs
    <3> QED
      BY <1>1, <3>1, <3>2, <3>3, <3>4
  <2>4. Copy(c, jobs[j])'
    BY <1>1, <2>1, <2>2, <2>3, <1>5 DEF Copy, Cap!ActiveCapture
  <2> QED
    BY <2>4
<1>6. ASSUME retried' = {}, late' = {}, NEW c \in start[s].seen, NEW d \in start[s].seen,
             Live(c)', Live(d)', c.ask.key = d.ask.key
      PROVE  c.group = d.group
  <2>1. retried = {} /\ late = {} /\ recordings' = recordings
    BY <1>2, <1>3, <1>6 DEF Carried
  <2>2. Live(c) /\ Live(d)
    BY <1>1, <1>6, <2>1 DEF Live, Since, Cap!ActiveCapture
  <2> QED
    BY <1>0, <1>6, <2>1, <2>2 DEF StartInformed
<1>7. IsFiniteSet(SeenKeys(start[s].seen))
      /\ (~unchecked' => Cardinality(SeenKeys(start[s].seen)) <= Capacity)
  BY <1>0, <1>2 DEF StartInformed, Carried
<1>8. SeenKeys(start[s].seen)' = SeenKeys(start[s].seen)
  BY DEF SeenKeys, Cap!ActiveCapture
<1> QED
  <2>1. start'[s].seen = start[s].seen
    OBVIOUS
  <2> QED
    BY <1>1, <1>3, <1>4, <1>5, <1>6, <1>7, <1>8, <2>1 DEF StartInformed

\* A start that reads the jobs under the lock has a sound picture of them.
LEMMA ReadInforms ==
  ASSUME Cap!CaptureStartAssumption, IInv, NEW s \in Start, Cap!ReadJobs(s)
  PROVE  StartInformed(s)'
<1>0. Types /\ Dates /\ Shared /\ Fits
  BY DEF IInv
<1>1. /\ start'[s].seen = Cap!ToSet(jobs)
      /\ UNCHANGED <<now, recordings, jobs, unchecked, retried, late>>
  <2>1. start[s] \in StartRec /\ start \in [Start -> StartRec]
    BY <1>0 DEF Types
  <2> QED
    BY <2>1 DEF Cap!ReadJobs, Cap!Set, StartRec
<1>2. \A j \in Cap!Jobs : jobs[j] \in Cap!ToSet(jobs)
  BY <1>0 DEF Cap!ToSet, Types, Cap!Jobs
<1>3. \A c \in Cap!ToSet(jobs) : \E j \in Cap!Jobs : c = jobs[j]
  BY <1>0 DEF Cap!ToSet, Types, Cap!Jobs
<1>4. SeenKeys(Cap!ToSet(jobs)) = Keys
  BY <1>2, <1>3 DEF SeenKeys, Keys
<1>5. \A c \in Cap!ToSet(jobs) : c.recording \in 1..Len(recordings) /\ c.startedAt <= now
  BY <1>0, <1>3 DEF Dates
<1>6. \A j \in Cap!Jobs : Cap!ActiveCapture(jobs[j]) => \E c \in Cap!ToSet(jobs) : Copy(c, jobs[j])
  BY <1>2 DEF Copy
<1>7. (retried = {} /\ late = {}) =>
        \A c, d \in Cap!ToSet(jobs) : Live(c) /\ Live(d) /\ c.ask.key = d.ask.key => c.group = d.group
  BY <1>0, <1>3 DEF Shared
<1>8. IsFiniteSet(SeenKeys(Cap!ToSet(jobs)))
      /\ (~unchecked => Cardinality(SeenKeys(Cap!ToSet(jobs))) <= Capacity)
  BY <1>0, <1>4, KeysFinite DEF Fits
<1>9. /\ Cap!Jobs' = Cap!Jobs /\ (\A c : Live(c)' <=> Live(c))
      /\ \A j \in Cap!Jobs, c \in Cap!ToSet(jobs) : Copy(c, jobs[j])' <=> Copy(c, jobs[j])
      /\ SeenKeys(Cap!ToSet(jobs))' = SeenKeys(Cap!ToSet(jobs))
  BY <1>1 DEF Cap!Jobs, Live, Since, Copy, SeenKeys, Cap!ActiveCapture, Cap!ToSet
<1> QED
  BY <1>1, <1>5, <1>6, <1>7, <1>8, <1>9 DEF StartInformed

\* A job that holds its channels has a copy, among what was read, that holds them.
LEMMA LiveCopy ==
  ASSUME Cap!CaptureStartAssumption, IInv, NEW s \in Start, StartInformed(s),
         NEW j \in Cap!Jobs,
         Live(jobs[j]), Cap!Checked(j)
  PROVE  \E c \in start[s].seen :
           Live(c) /\ c.ask = jobs[j].ask /\ c.group = jobs[j].group
<1> USE Consts
<1>0. Types /\ Dates
  BY DEF IInv
<1>1. PICK c \in start[s].seen : Copy(c, jobs[j])
  BY DEF StartInformed, Cap!Checked, Live
<1>2. CASE c.startedAt = jobs[j].startedAt
  BY <1>1, <1>2 DEF Copy, Live, Since
<1>3. CASE c.startedAt = Cap!Never /\ jobs[j].startedAt = now
        /\ c.startedAt # jobs[j].startedAt
  <2>1. now < recordings[jobs[j].recording] + Seconds
    BY <1>0, <1>3 DEF Dates, Live, Cap!Checked
  <2> QED
    BY <1>1, <1>3, <2>1 DEF Copy, Live, Since
<1> QED
  BY <1>1, <1>2, <1>3 DEF Copy

\* What was read and holds its channels is a claim that overlaps the start, and only
\* that is.
LEMMA LiveClaims ==
  ASSUME Cap!CaptureStartAssumption, IInv, NEW s \in Start, start[s].pc = "decide"
  PROVE  /\ \A c \in start[s].seen : Live(c) =>
              \E claim \in Cap!Claims(start[s].seen) :
                /\ claim.key = c.ask.key /\ claim.channels = c.ask.channels
                /\ claim.group = c.group /\ Cap!Overlap(s, claim)
         /\ \A claim \in Cap!Claims(start[s].seen) : Cap!Overlap(s, claim) =>
              \E c \in start[s].seen :
                Live(c) /\ claim.key = c.ask.key /\ claim.group = c.group
<1> USE Consts
<1>0. Types /\ Dates /\ Lock /\ StartInformed(s)
  BY DEF IInv, Decided
<1>1. start[s].at = now /\ now \in Nat
  BY <1>0 DEF Lock, Types
<1>2. start[s].seen \subseteq JobRec
  BY <1>0 DEF Types, StartRec
<1>3. ASSUME NEW c \in start[s].seen
      PROVE  Since(c) \in Int /\ Since(c) <= now
  <2>1. c.recording \in 1..Len(recordings) /\ c.startedAt <= now
    BY <1>0 DEF StartInformed
  <2>2. recordings[c.recording] \in Nat /\ recordings[c.recording] <= now
    BY <1>0, <2>1, SMTT(20) DEF Types, Dates
  <2>3. c.startedAt \in Nat \cup {Cap!Never}
    BY <1>2 DEF JobRec
  <2> QED
    BY <2>1, <2>2, <2>3 DEF Since
<1>4. ASSUME NEW c \in start[s].seen, Live(c)
      PROVE  \E claim \in Cap!Claims(start[s].seen) :
               /\ claim.key = c.ask.key /\ claim.channels = c.ask.channels
               /\ claim.group = c.group /\ Cap!Overlap(s, claim)
  <2> DEFINE claim == [from |-> Since(c), key |-> c.ask.key, channels |-> c.ask.channels,
                       group |-> c.group]
  <2>1. claim \in Cap!Claims(start[s].seen)
    BY <1>4 DEF Cap!Claims, Since, Live
  <2>2. Cap!Overlap(s, claim)
    BY <1>1, <1>3, <1>4 DEF Cap!Overlap, Live
  <2> QED
    BY <2>1, <2>2
<1>5. ASSUME NEW claim \in Cap!Claims(start[s].seen), Cap!Overlap(s, claim)
      PROVE  \E c \in start[s].seen :
               Live(c) /\ claim.key = c.ask.key /\ claim.group = c.group
  <2>1. PICK c \in start[s].seen :
          /\ Cap!ActiveCapture(c)
          /\ claim = [from |-> Since(c), key |-> c.ask.key, channels |-> c.ask.channels,
                      group |-> c.group]
    BY <1>5 DEF Cap!Claims, Since
  <2>2. Live(c)
    BY <1>1, <1>3, <1>5, <2>1 DEF Cap!Overlap, Live
  <2> QED
    BY <2>1, <2>2
<1> QED
  BY <1>4, <1>5

\* A start that is accepted can rely on its channels, its capture and its place.
LEMMA AcceptGrants ==
  ASSUME Cap!CaptureStartAssumption, IInv, NEW s \in Start, Cap!Accept(s)
  PROVE  Granting(s)'
<1> USE Consts
<1> DEFINE seen == start[s].seen
           claims == Cap!Claims(seen)
           joinable == Cap!Joinable(s, claims)
           ask == start[s].ask
<1>0. Types /\ Fits /\ StartInformed(s) /\ start[s].pc = "decide"
  BY DEF IInv, Decided, Cap!Accept
<1>1. PICK group \in (IF joinable = {} THEN {Cap!NewGroup} ELSE joinable) :
        start' = [start EXCEPT ![s] = [start[s] EXCEPT !.pc = "create", !.seen = {},
                                                       !.group = group]]
  BY DEF Cap!Accept, Cap!Set
<1>2. /\ UNCHANGED <<now, recordings, jobs, unchecked, retried, late>>
      /\ Cap!Conflicts(s, claims) = {} /\ (ask.adHoc => ~Cap!OverCapacity(s, claims))
  BY DEF Cap!Accept, Cap!Refused
<1>3. start'[s].pc = "create" /\ start'[s].ask = ask /\ start'[s].group = group
  <2>1. start[s] \in StartRec /\ start \in [Start -> StartRec]
    BY <1>0 DEF Types
  <2> QED
    BY <1>1, <2>1 DEF StartRec
<1>4. ASSUME NEW j \in Cap!Jobs, Live(jobs[j]), Cap!Checked(j), jobs[j].ask.key = ask.key
      PROVE  jobs[j].ask.channels \cap ask.channels = {}
  <2>1. PICK c \in seen : Live(c) /\ c.ask = jobs[j].ask
    BY <1>0, <1>4, LiveCopy
  <2>2. PICK claim \in claims : /\ claim.key = c.ask.key /\ claim.channels = c.ask.channels
                                /\ Cap!Overlap(s, claim)
    BY <1>0, <2>1, LiveClaims
  <2> QED
    BY <1>2, <1>4, <2>1, <2>2 DEF Cap!Conflicts
<1>5. ASSUME retried = {}, late = {}, NEW j \in Cap!Jobs, Live(jobs[j]), jobs[j].ask.key = ask.key
      PROVE  jobs[j].group = group
  <2>1. PICK c \in seen : Live(c) /\ c.ask = jobs[j].ask /\ c.group = jobs[j].group
    BY <1>0, <1>5, LiveCopy DEF Cap!Checked
  <2>2. PICK claim \in claims : /\ claim.key = c.ask.key /\ claim.group = c.group
                                /\ Cap!Overlap(s, claim)
    BY <1>0, <2>1, LiveClaims
  <2>3. claim.group \in joinable
    BY <1>5, <2>1, <2>2 DEF Cap!Joinable
  <2>4. PICK other \in claims : /\ other.key = ask.key /\ Cap!Overlap(s, other)
                                /\ group = other.group
    BY <1>1, <2>3 DEF Cap!Joinable
  <2>5. PICK d \in seen : Live(d) /\ other.key = d.ask.key /\ other.group = d.group
    BY <1>0, <2>4, LiveClaims
  <2>6. c.group = d.group
    BY <1>0, <1>5, <2>1, <2>4, <2>5 DEF StartInformed
  <2> QED
    BY <2>1, <2>4, <2>5, <2>6
<1>6. ASSUME ~unchecked, ask.adHoc
      PROVE  Cardinality(Keys \cup {ask.key}) <= Capacity
  <2> DEFINE K == Keys \cup {ask.key}
             S == SeenKeys(seen)
  <2>1. Keys \subseteq S
    <3> SUFFICES ASSUME NEW j \in Cap!Jobs, Cap!ActiveCapture(jobs[j])
                 PROVE  jobs[j].ask.key \in S
      BY DEF Keys
    <3>1. j \notin retried
      BY <1>0, <1>6 DEF Fits
    <3>2. PICK c \in seen : Copy(c, jobs[j])
      BY <1>0, <3>1 DEF StartInformed
    <3> QED
      BY <3>2 DEF Copy, SeenKeys
  <2>2. IsFiniteSet(S) /\ Cardinality(S) <= Capacity
    BY <1>0, <1>6 DEF StartInformed
  <2>3. {claim.key : claim \in claims} = S
    <3>1. ASSUME NEW claim \in claims
          PROVE  claim.key \in S
      <4>1. PICK c \in {i \in seen : Cap!ActiveCapture(i)} : claim.key = c.ask.key
        BY <3>1 DEF Cap!Claims
      <4> QED
        BY <4>1 DEF SeenKeys
    <3>2. ASSUME NEW c \in {i \in seen : Cap!ActiveCapture(i)}
          PROVE  \E claim \in claims : claim.key = c.ask.key
      <4> DEFINE claim == [from |-> Since(c), key |-> c.ask.key, channels |-> c.ask.channels,
                           group |-> c.group]
      <4>1. claim \in claims /\ claim.key = c.ask.key
        BY DEF Cap!Claims, Since
      <4> QED
        BY <4>1
    <3> HIDE DEF claims
    <3> QED
      BY <3>1, <3>2 DEF SeenKeys
  <2>4. ask.key \in S \/ ~(Cardinality(S) >= Capacity)
    BY <1>2, <1>6, <2>3, Counts DEF Cap!OverCapacity
  <2>5. IsFiniteSet(S \cup {ask.key})
        /\ Cardinality(S \cup {ask.key}) = IF ask.key \in S THEN Cardinality(S) ELSE Cardinality(S) + 1
    BY <2>2, FS_AddElement
  <2>6. K \subseteq S \cup {ask.key}
    BY <2>1
  <2> HIDE DEF K, S
  <2>7. Cardinality(K) <= Cardinality(S \cup {ask.key}) /\ IsFiniteSet(K)
    BY <2>5, <2>6, FS_Subset
  <2>8. Cardinality(K) \in Nat /\ Cardinality(S) \in Nat
    BY <2>2, <2>7, FS_CardinalityType
  <2>9. Cardinality(K) <= Capacity
    BY <2>2, <2>4, <2>5, <2>7, <2>8
  <2> QED
    BY <2>9 DEF K
<1>7. /\ Cap!Jobs' = Cap!Jobs /\ Keys' = Keys
      /\ \A j \in Cap!Jobs : (Live(jobs[j])' <=> Live(jobs[j])) /\ (Cap!Checked(j)' <=> Cap!Checked(j))
  BY <1>2 DEF Cap!Jobs, Keys, Live, Since, Cap!ActiveCapture, Cap!Checked
<1> HIDE DEF seen, claims, joinable
<1> QED
  BY <1>2, <1>3, <1>4, <1>5, <1>6, <1>7 DEF Granting

\* The new job of a start keeps captures apart, or together, and within the capacity.
LEMMA CreateFits ==
  ASSUME Cap!CaptureStartAssumption, IInv, NEW s \in Start, Cap!CreateJob(s)
  PROVE  Dates' /\ Exclusive' /\ Shared' /\ Fits'
<1> USE Consts
<1> DEFINE n == Len(jobs) + 1
           job == [recording |-> Len(recordings), status |-> "queued", startedAt |-> Cap!Never,
                   ask |-> start[s].ask, group |-> start[s].group]
<1>0. /\ Types /\ Dates /\ Exclusive /\ Shared /\ Fits /\ Granting(s) /\ start[s].pc = "job"
      /\ start[s].ask \in Asks
  BY DEF IInv, Accepted, Cap!CreateJob, Types
<1>1. /\ jobs' = Append(jobs, job) /\ unchecked' = (unchecked \/ ~start[s].ask.adHoc)
      /\ UNCHANGED <<now, recordings, retried, late>>
  BY DEF Cap!CreateJob
<1>2. Len(recordings) >= 1 /\ recordings[Len(recordings)] = now /\ now \in Nat
  BY <1>0 DEF Granting, Types
<1>3. job \in JobRec /\ Cap!ActiveCapture(job) /\ jobs \in Seq(JobRec) /\ recordings \in Seq(Nat)
  BY <1>0 DEF JobRec, StartRec, Statuses, Types, Cap!ActiveCapture
<1>4. /\ job.ask = start[s].ask /\ job.group = start[s].group /\ job.startedAt = Cap!Never
      /\ job.recording = Len(recordings) /\ job.status = "queued"
  OBVIOUS
<1> HIDE DEF job
<1>5. /\ Len(jobs') = n /\ jobs'[n] = job /\ \A k \in Cap!Jobs : jobs'[k] = jobs[k]
      /\ Cap!Jobs \subseteq Cap!Jobs' /\ \A k \in Cap!Jobs' : k \in Cap!Jobs \/ k = n
  BY <1>1, <1>3, Appended DEF Cap!Jobs
<1>6. /\ \A k \in Cap!Jobs : Live(jobs[k])' => Live(jobs[k])
      /\ \A k \in Cap!Jobs : Cap!Checked(k)' <=> Cap!Checked(k)
  BY <1>1, <1>5 DEF Live, Since, Cap!ActiveCapture, Cap!Checked
<1>7. Dates'
  <2>1. ASSUME NEW k \in Cap!Jobs'
        PROVE  /\ jobs'[k].recording \in 1..Len(recordings)
               /\ jobs'[k].startedAt <= now
               /\ jobs'[k].status = "queued" => jobs'[k].startedAt = Cap!Never
               /\ jobs'[k].startedAt # Cap!Never /\ Cap!ActiveCapture(jobs'[k]) /\ k \notin late =>
                    jobs'[k].startedAt < recordings[jobs'[k].recording] + Seconds
    <3>1. CASE k \in Cap!Jobs
      BY <1>0, <1>5, <3>1 DEF Dates
    <3>2. CASE k = n
      BY <1>2, <1>3, <1>4, <1>5, <3>2 DEF Cap!Never
    <3> QED
      BY <1>5, <2>1, <3>1, <3>2
  <2> QED
    BY <1>0, <1>1, <2>1 DEF Dates
<1>8. Exclusive'
  <2> SUFFICES ASSUME NEW j \in Cap!Jobs', NEW k \in Cap!Jobs', j # k,
                      Live(jobs[j])', Live(jobs[k])', Cap!Checked(j)', Cap!Checked(k)',
                      jobs'[j].ask.key = jobs'[k].ask.key
               PROVE  jobs'[j].ask.channels \cap jobs'[k].ask.channels = {}
    BY DEF Exclusive
  <2>1. CASE j \in Cap!Jobs /\ k \in Cap!Jobs
    BY <1>0, <1>5, <1>6, <2>1 DEF Exclusive
  <2>2. CASE j \in Cap!Jobs /\ k = n
    <3>1. Live(jobs[j]) /\ Cap!Checked(j) /\ jobs[j].ask.key = start[s].ask.key
      BY <1>4, <1>5, <1>6, <2>2
    <3>2. jobs[j].ask.channels \cap start[s].ask.channels = {}
      BY <1>0, <2>2, <3>1 DEF Granting
    <3> QED
      BY <1>4, <1>5, <2>2, <3>2
  <2>3. CASE k \in Cap!Jobs /\ j = n
    <3>1. Live(jobs[k]) /\ Cap!Checked(k) /\ jobs[k].ask.key = start[s].ask.key
      BY <1>4, <1>5, <1>6, <2>3
    <3>2. jobs[k].ask.channels \cap start[s].ask.channels = {}
      BY <1>0, <2>3, <3>1 DEF Granting
    <3> QED
      BY <1>4, <1>5, <2>3, <3>2
  <2> QED
    BY <1>5, <2>1, <2>2, <2>3
<1>9. Shared'
  <2> SUFFICES ASSUME NEW j \in Cap!Jobs', NEW k \in Cap!Jobs', retried' = {}, late' = {},
                      Live(jobs[j])', Live(jobs[k])', jobs'[j].ask.key = jobs'[k].ask.key
               PROVE  jobs'[j].group = jobs'[k].group
    BY DEF Shared
  <2>1. ASSUME NEW i \in Cap!Jobs, Live(jobs[i])', jobs[i].ask.key = start[s].ask.key
        PROVE  jobs[i].group = start[s].group
    BY <1>0, <1>1, <1>6, <2>1 DEF Granting
  <2>2. CASE j \in Cap!Jobs /\ k \in Cap!Jobs
    BY <1>0, <1>1, <1>5, <1>6, <2>2 DEF Shared
  <2>3. CASE j \in Cap!Jobs /\ k = n
    BY <1>4, <1>5, <2>1, <2>3
  <2>4. CASE k \in Cap!Jobs /\ j = n
    BY <1>4, <1>5, <2>1, <2>4
  <2>5. CASE k = n /\ j = n
    BY <2>5
  <2> QED
    BY <1>5, <2>2, <2>3, <2>4, <2>5
<1>10. Fits'
  <2>1. Keys' \subseteq Keys \cup {start[s].ask.key}
    <3>1. ASSUME NEW k \in Cap!Jobs', Cap!ActiveCapture(jobs'[k])
          PROVE  jobs'[k].ask.key \in Keys \cup {start[s].ask.key}
      BY <1>4, <1>5, <3>1 DEF Keys
    <3> QED
      BY <3>1 DEF Keys
  <2>2. ASSUME ~unchecked'
        PROVE  Cardinality(Keys') <= Capacity
    <3> DEFINE K == Keys \cup {start[s].ask.key}
    <3>1. Cardinality(K) <= Capacity
      BY <1>0, <1>1, <2>2 DEF Granting
    <3>2. IsFiniteSet(K)
      BY <1>0, KeysFinite, FS_AddElement
    <3> HIDE DEF K
    <3>3. Cardinality(Keys') <= Cardinality(K) /\ IsFiniteSet(Keys')
      BY <2>1, <3>2, FS_Subset DEF K
    <3>4. Cardinality(Keys') \in Nat /\ Cardinality(K) \in Nat
      BY <3>2, <3>3, FS_CardinalityType
    <3> QED
      BY <3>1, <3>3, <3>4
  <2> QED
    BY <1>0, <1>1, <2>2 DEF Fits
<1> QED
  BY <1>7, <1>8, <1>9, <1>10

-----------------------------------------------------------------------------
(* The invariant *)

\* Every step keeps the invariant.
LEMMA StepIInv ==
  ASSUME Cap!CaptureStartAssumption, IInv, [Cap!Next]_Cap!vars
  PROVE  IInv'
<1>0. Types' /\ Lock' /\ Types
  BY StepTypes, StepLock DEF IInv
<1>a. start \in [Start -> StartRec]
  BY <1>0 DEF Types
\* How a start comes to decide, or to have decided.
<1>1. ASSUME NEW s \in Start, start'[s] # start[s]
      PROVE  /\ start'[s].pc = "decide" => Cap!ReadJobs(s)
             /\ start'[s].pc = "create" => Cap!Accept(s)
             /\ start'[s].pc = "job" => Cap!CreateRecording(s)
  <2>1. ASSUME NEW t \in Start, Cap!Enter(t) PROVE start'[s].pc \in {"idle", "waits"}
    BY <1>1, <1>a, <2>1 DEF Cap!Enter, Cap!Set, Cap!Idle
  <2>2. CASE Cap!Crash
    BY <2>2 DEF Cap!Crash, Cap!Idle
  <2>3. CASE Cap!StartStep(s)
    <3>1. start[s] \in StartRec
      BY <1>a
    <3>2. CASE Cap!ReadJobs(s)
      BY <1>a, <3>1, <3>2 DEF Cap!ReadJobs, Cap!Set, StartRec
    <3>3. CASE Cap!Reject(s) \/ Cap!CreateJob(s)
      BY <1>a, <3>3 DEF Cap!Reject, Cap!CreateJob, Cap!Leave, Cap!Set, Cap!Idle
    <3>4. CASE Cap!Accept(s)
      <4>1. PICK group : start' = [start EXCEPT ![s] = [start[s] EXCEPT !.pc = "create", !.seen = {},
                                                                        !.group = group]]
        BY <3>4 DEF Cap!Accept, Cap!Set
      <4>2. start'[s].pc = "create"
        BY <1>a, <3>1, <4>1 DEF StartRec
      <4> QED
        BY <3>4, <4>2
    <3>5. CASE Cap!CreateRecording(s)
      BY <1>a, <3>1, <3>5 DEF Cap!CreateRecording, Cap!Set, StartRec
    <3> QED
      BY <2>3, <3>2, <3>3, <3>4, <3>5 DEF Cap!StartStep
  <2>4. ASSUME NEW t \in Start, Cap!StartStep(t), t # s PROVE FALSE
    <3>1. start'[s] = start[s]
      BY <1>a, <2>4 DEF Cap!StartStep, Cap!ReadJobs, Cap!Reject, Cap!Accept,
         Cap!CreateRecording, Cap!CreateJob, Cap!Leave, Cap!Set
    <3> QED
      BY <1>1, <3>1
  <2> QED
    BY <1>1, <2>1, <2>2, <2>3, <2>4 DEF Cap!Next, Cap!vars, Cap!Claim, Cap!StopJob,
       Cap!EndJob, Cap!RetryJob, Cap!Tick
<1>2. Decided'
  <2> SUFFICES ASSUME NEW s \in Start, start'[s].pc = "decide"
               PROVE  StartInformed(s)'
    BY DEF Decided
  <2> QED
    BY <1>0, <1>1, StaysInformed, ReadInforms
<1>3. CASE \E s \in Start : Cap!CreateJob(s)
  <2>1. PICK s \in Start : Cap!CreateJob(s)
    BY <1>3
  <2>2. Dates' /\ Exclusive' /\ Shared' /\ Fits'
    BY <2>1, CreateFits
  <2>3. Accepted'
    <3> SUFFICES ASSUME NEW t \in Start, start'[t].pc \in {"create", "job"}
                 PROVE  FALSE
      BY DEF Accepted
    <3>1. start'[s] = Cap!Idle /\ Cap!Idle.pc = "idle"
      BY <1>a, <2>1 DEF Cap!CreateJob, Cap!Leave, Cap!Set, Cap!Idle
    <3>2. t # s /\ start'[t] = start[t]
      BY <1>a, <2>1, <3>1 DEF Cap!CreateJob, Cap!Leave, Cap!Set
    <3>3. s = t
      BY <2>1, <3>2, OnlyHolder DEF Cap!StartStep
    <3> QED
      BY <3>2, <3>3
  <2> QED
    BY <1>0, <1>2, <2>2, <2>3 DEF IInv
<1>4. CASE \A s \in Start : ~Cap!CreateJob(s)
  <2>1. Carried /\ Dates'
    BY <1>4, StepCarried
  <2>2. Exclusive' /\ Shared' /\ Fits' /\ (~unchecked' => Keys' \subseteq Keys)
    BY <2>1, Carry DEF IInv
  <2>3. Accepted'
    <3> SUFFICES ASSUME NEW s \in Start, start'[s].pc \in {"create", "job"}
                 PROVE  Granting(s)'
      BY DEF Accepted
    <3>1. CASE start'[s] = start[s]
      <4>1. Granting(s)
        BY <3>1 DEF IInv, Accepted
      <4>2. ~Cap!CreateRecording(s) /\ now' = now /\ \A t \in Start : ~Cap!StartStep(t)
        BY <3>1, WhileHeld DEF Cap!StartStep
      <4>3. ASSUME start[s].pc = "job"
            PROVE  Len(recordings') >= 1 /\ recordings'[Len(recordings')] = now'
        <5>1. /\ \/ UNCHANGED <<now, recordings, jobs, unchecked, retried, late>>
                 \/ Cap!Claim \/ \E j \in Cap!Jobs : Cap!StopJob(j) \/ Cap!EndJob(j) \/ Cap!RetryJob(j)
          BY <3>1, <4>3, WhileHeld
        <5>2. Len(recordings) >= 1 /\ recordings[Len(recordings)] = now
          BY <4>1, <4>3 DEF Granting
        <5>3. ASSUME NEW j \in Cap!Jobs, Cap!RetryJob(j)
              PROVE  Len(recordings') >= 1 /\ recordings'[Len(recordings')] = now'
          <6>1. /\ recordings' = [recordings EXCEPT ![jobs[j].recording] = now]
                /\ now' = now
                /\ recordings \in Seq(Nat) /\ now \in Nat
            BY <1>0, <5>3 DEF Cap!RetryJob, Types
          <6>2. jobs[j].recording \in 1..Len(recordings)
            BY DEF IInv, Dates
          <6> QED
            BY <5>2, <6>1, <6>2
        <5>4. CASE UNCHANGED <<recordings, now>>
          BY <5>2, <5>4
        <5> QED
          BY <5>1, <5>3, <5>4 DEF Cap!Claim, Cap!StopJob, Cap!EndJob
      <4> QED
        BY <1>0, <2>1, <2>2, <3>1, <4>1, <4>3, CarryGranting
    <3>2. CASE Cap!Accept(s)
      BY <3>2, AcceptGrants
    <3>3. CASE Cap!CreateRecording(s)
      <4>1. /\ start[s].pc = "create" /\ recordings' = Append(recordings, start[s].at)
            /\ now' = now /\ start' = [start EXCEPT ![s] = [start[s] EXCEPT !.pc = "job"]]
        BY <3>3 DEF Cap!CreateRecording, Cap!Set
      <4>2. Granting(s) /\ start[s].at = now /\ recordings \in Seq(Nat) /\ now \in Nat
        BY <1>0, <4>1 DEF IInv, Accepted, Lock, Types
      <4>3. start'[s].ask = start[s].ask /\ start'[s].group = start[s].group
        <5>1. start[s] \in StartRec
          BY <1>a
        <5> QED
          BY <1>a, <4>1, <5>1 DEF StartRec
      <4>4. Len(recordings') >= 1 /\ recordings'[Len(recordings')] = now'
        BY <4>1, <4>2
      <4> QED
        BY <1>0, <2>1, <2>2, <4>2, <4>3, <4>4, CarryGranting
    <3> QED
      BY <1>1, <3>1, <3>2, <3>3
  <2> QED
    BY <1>0, <1>2, <2>1, <2>2, <2>3 DEF IInv
<1> QED
  BY <1>3, <1>4

\* The invariant holds throughout.
THEOREM StartInvariant ==
  ASSUME Cap!CaptureStartAssumption
  PROVE  Cap!Spec => []IInv
<1>1. Cap!Init => IInv
  BY InitIInv
<1>2. IInv /\ [Cap!Next]_Cap!vars => IInv'
  BY StepIInv
<1> QED
  BY <1>1, <1>2, PTL DEF Cap!Spec

\* The property the run of Stores checks, for any number of starts, jobs, asks, ticks
\* and crashes, any capacity and any length of a capture: no channel is captured
\* twice, one device has one capture, and operators stay within the capacity.
THEOREM StartsFit ==
  ASSUME Cap!CaptureStartAssumption
  PROVE  Cap!Spec => []CapturesFit
<1> USE Consts
<1>1. ASSUME IInv
      PROVE  Cap!CapturesFit
  <2>1. ASSUME NEW j \in Cap!Jobs, Cap!Capturing(j)
        PROVE  Live(jobs[j])
    BY <2>1 DEF Cap!Capturing, Live, Since, Cap!ActiveCapture
  <2>2. Cap!ChannelsExclusive
    BY <1>1, <2>1 DEF Cap!ChannelsExclusive, Exclusive, IInv
  <2>3. Cap!DeviceShared
    BY <1>1, <2>1 DEF Cap!DeviceShared, Shared, IInv
  <2>4. Cap!CapacityKept
    BY <1>1, Counts DEF Cap!CapacityKept, Fits, Keys, IInv
  <2> QED
    BY <2>2, <2>3, <2>4 DEF Cap!CapturesFit
<1>2. IInv => CapturesFit
  BY <1>1, Counts DEF Cap!CapturesFit, CapturesFit, Cap!ChannelsExclusive,
     ChannelsExclusive,
              Cap!DeviceShared, DeviceShared, Cap!CapacityKept, CapacityKept,
              Cap!Capturing, Capturing, Cap!Checked, Checked, Cap!Jobs, Jobs,
              Cap!ActiveCapture, ActiveCapture, Cap!Never, Never
<1> QED
  BY <1>2, StartInvariant, PTL
===============================================================================
