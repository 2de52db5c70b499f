---------------------------- MODULE NodeInventory ----------------------------
(***************************************************************************)
(* The audio interfaces of one node (node-inventory-reconcile.ts, node-    *)
(* store.ts): the agent reports its devices when it starts, and the report *)
(* is reconciled into interface rows and their channels, one statement at  *)
(* a time, beside the edits of operators.                                  *)
(*                                                                         *)
(* A channel's alias and its room are one label.  An operator who edits    *)
(* the reference of an interface makes it another device; that edit is     *)
(* left out.                                                               *)
(***************************************************************************)
EXTENDS InventoryPromise, Records

CONSTANTS
  Port,        \* hardware paths
  Layouts,     \* what may be plugged in: functions from devices to [count, port]
  MaxCount,    \* channels of a device
  Label,       \* labels operators give
  Unlabelled,  \* the default alias and no room
  Reporter, Editor,                        \* requests in flight
  MaxReports, MaxEdits, MaxFaults      \* bounds

NodeInventoryAssumption ==
  /\ MaxCount \in Nat
  /\ \A layout \in Layouts :
       /\ DOMAIN layout \subseteq Device
       /\ \A d \in DOMAIN layout : layout[d].count \in 1..MaxCount /\ layout[d].port \in Port

VARIABLES
  proc,        \* the requests in flight
  up,          \* whether the store still uses its database
  reports, edits, faults

counters == <<reports, edits, faults>>
vars == <<interfaces, proc, up, counters, given, torn, raced, shown>>

Index == 1..MaxCount
Idle == [pc |-> "idle"]
InFlight(q) == proc[q].pc # "idle"
Proc == Reporter \cup Editor

TypeOK ==
  /\ up \in BOOLEAN
  /\ \A r \in Interfaces :
       /\ interfaces[r].ref \in Device
       /\ interfaces[r].count \in Index /\ interfaces[r].port \in Port
       /\ interfaces[r].channels \subseteq
            [index : Index, label : Label \cup {Unlabelled}, by : 1..MaxReports]
  /\ \A q \in Proc : proc[q].pc \in {"idle", "device", "channels", "missing", "write", "label"}
  /\ given \in [Device -> [Index -> Label \cup {Unlabelled}]]
  /\ torn \subseteq Interfaces /\ raced \subseteq Device

Init ==
  /\ interfaces = <<>> /\ up = TRUE
  /\ proc = [q \in Proc |-> Idle]
  /\ reports = 0 /\ edits = 0 /\ faults = 0
  /\ given = [d \in Device |-> [i \in Index |-> Unlabelled]]
  /\ torn = {} /\ raced = {} /\ shown = NoReport

\* A request starts: whoever is in flight has met it.
Starts(q, fields) ==
  /\ up /\ ~InFlight(q)
  /\ proc' = [p \in Proc |->
                IF p = q THEN Over(fields, [met |-> {o \in Proc : InFlight(o)}])
                ELSE IF InFlight(p) THEN [proc[p] EXCEPT !.met = @ \cup {q}] ELSE Idle]
  /\ shown' = NoReport

Goes(q, fields) == proc' = [proc EXCEPT ![q] = Over(fields, @)]
Ends(q) == proc' = [proc EXCEPT ![q] = Idle]

RaceOn(q, d) == raced' = IF proc[q].met \cap Reporter # {} THEN raced \cup {d} ELSE raced

-----------------------------------------------------------------------------
(* A report of the agent *)

Fault == faults < MaxFaults /\ faults' = faults + 1

\* Mutant: devices are matched by where they are plugged in.
MatchesPort(row, d, facts) == row.port = facts.port

\* interfaceRowKey, incomingInterfaceKey
Matches(row, d, facts) == row.ref = d

\* Mutant: only the facts are compared, and a device that is back stays absent.
ChangedFacts(row, facts) == row.count # facts.count \/ row.port # facts.port

\* wasAbsent, interfaceRowChanged: the shortcut leaves the other rows alone.
Changed(row, facts) == row.absent \/ row.count # facts.count \/ row.port # facts.port

\* The agent starts and reports what it finds plugged in; it may have died and
\* started again before its last report was answered.  The rows are listed once:
\* of several with one key the map keeps one.
BeginReport(q) ==
  /\ reports < MaxReports /\ reports' = reports + 1
  /\ IF \E p \in Reporter : InFlight(p) THEN Fault ELSE UNCHANGED faults
  /\ \E report \in Layouts :
       LET of(d) == {r \in Interfaces : Matches(interfaces[r], d, report[d])}
           known == {d \in DOMAIN report : of(d) # {}}
       IN  \E existing \in [known -> Interfaces] :
             /\ \A d \in known : existing[d] \in of(d)
             /\ Starts(q, [pc |-> "device", report |-> report, number |-> reports + 1,
                           existing |-> existing,
                           todo |-> {d \in DOMAIN report :
                                       d \in known => Changed(interfaces[existing[d]], report[d])},
                           gone |-> {r \in Interfaces :
                                       /\ ~interfaces[r].absent
                                       /\ \A d \in DOMAIN report : r \notin of(d)}])
  /\ UNCHANGED <<interfaces, up, edits, given, torn, raced>>

\* The devices are taken in the order of the report.
NextDevice(q) == CHOOSE d \in proc[q].todo : TRUE

InsertRow(q) ==
  LET d == NextDevice(q)
      facts == proc[q].report[d] IN
  /\ proc[q].pc = "device" /\ proc[q].todo # {} /\ d \notin DOMAIN proc[q].existing
  /\ interfaces' = Append(interfaces,
                     [ref |-> d, count |-> facts.count, port |-> facts.port,
                      absent |-> FALSE, channels |-> {}])
  /\ Goes(q, [pc |-> "missing", row |-> Len(interfaces) + 1, have |-> {}])
  /\ RaceOn(q, d)
  /\ UNCHANGED <<up, counters, given, torn, shown>>

\* The agent's facts replace the row's; the operator's alias is not touched.
UpdateRow(q) ==
  LET d == NextDevice(q)
      facts == proc[q].report[d]
      row == proc[q].existing[d] IN
  /\ proc[q].pc = "device" /\ proc[q].todo # {} /\ d \in DOMAIN proc[q].existing
  /\ interfaces' = [interfaces EXCEPT ![row].count = facts.count, ![row].port = facts.port,
                                      ![row].absent = FALSE]
  /\ Goes(q, [pc |-> "channels", row |-> row])
  /\ RaceOn(q, d)
  /\ UNCHANGED <<up, counters, given, torn, shown>>

\* reconcilePersistedChannels: the channels are listed, and those beyond the
\* count are deleted; then the missing ones are inserted.
DropChannels(q) ==
  LET row == proc[q].row
      old == interfaces[row].channels
      stale == {c \in old : c.index > proc[q].report[NextDevice(q)].count} IN
  /\ proc[q].pc = "channels"
  /\ interfaces' = [interfaces EXCEPT ![row].channels = old \ stale]
  /\ given' = [given EXCEPT ![interfaces[row].ref] =
                 [i \in Index |-> IF \E c \in stale : c.index = i THEN Unlabelled ELSE @[i]]]
  /\ Goes(q, [pc |-> "missing", have |-> {c.index : c \in old}])
  /\ UNCHANGED <<up, counters, torn, raced, shown>>

InsertChannels(q) ==
  LET row == proc[q].row
      missing == 1..proc[q].report[NextDevice(q)].count \ proc[q].have IN
  /\ proc[q].pc = "missing"
  /\ interfaces' = [interfaces EXCEPT ![row].channels = @ \cup
                [index : missing, label : {Unlabelled}, by : {proc[q].number}]]
  /\ torn' = torn \ {row}
  /\ Goes(q, [pc |-> "device", todo |-> proc[q].todo \ {NextDevice(q)}])
  /\ UNCHANGED <<up, counters, given, raced, shown>>

Lowest(numbers) == CHOOSE n \in numbers : \A o \in numbers : n <= o

\* A row the report does not name is flagged, never deleted.
MarkAbsent(q) ==
  LET r == Lowest(proc[q].gone) IN
  /\ proc[q].pc = "device" /\ proc[q].todo = {} /\ proc[q].gone # {}
  /\ interfaces' = [interfaces EXCEPT ![r].absent = TRUE]
  /\ Goes(q, [gone |-> proc[q].gone \ {r}])
  /\ RaceOn(q, interfaces[r].ref)
  /\ UNCHANGED <<up, counters, given, torn, shown>>

EndReport(q) ==
  /\ proc[q].pc = "device" /\ proc[q].todo = {} /\ proc[q].gone = {}
  /\ Ends(q)
  /\ shown' = IF proc[q].met = {} THEN proc[q].report ELSE NoReport
  /\ UNCHANGED <<interfaces, up, counters, given, torn, raced>>

-----------------------------------------------------------------------------
(* An edit of an operator *)

\* PATCH of an interface: the row is read, and the fields that are not edited are
\* written back as they were read; and the assignment of rooms to channels.
BeginEdit(q) ==
  /\ edits < MaxEdits /\ edits' = edits + 1
  /\ \E row \in Interfaces, port \in Port, todo \in SUBSET Index, label \in Label :
       \/ Starts(q, [pc |-> "write", row |-> row, port |-> port, todo |-> todo, label |-> label])
       \/ /\ todo # {} /\ port = interfaces[row].port
          /\ Starts(q, [pc |-> "label", row |-> row, todo |-> todo, label |-> label])
  /\ UNCHANGED <<interfaces, up, reports, faults, given, torn, raced>>

WriteRow(q) ==
  /\ proc[q].pc = "write"
  /\ interfaces' = [interfaces EXCEPT ![proc[q].row].port = proc[q].port]
  /\ IF proc[q].todo = {} THEN Ends(q) ELSE Goes(q, [pc |-> "label"])
  /\ UNCHANGED <<up, counters, given, torn, raced, shown>>

\* A channel that is not there takes no label.
LabelChannel(q) ==
  LET row == proc[q].row
      i == Lowest(proc[q].todo)
      mine == {c \in interfaces[row].channels : c.index = i} IN
  /\ proc[q].pc = "label"
  /\ interfaces' = [interfaces EXCEPT ![row].channels =
                (@ \ mine) \cup {[c EXCEPT !.label = proc[q].label] : c \in mine}]
  /\ given' = IF mine = {} THEN given
              ELSE [given EXCEPT ![interfaces[row].ref][i] = proc[q].label]
  /\ IF proc[q].todo = {i} THEN Ends(q) ELSE Goes(q, [todo |-> proc[q].todo \ {i}])
  /\ UNCHANGED <<up, counters, torn, raced, shown>>

-----------------------------------------------------------------------------
(* Faults *)

\* The rows whose channels are between their row and their last insert.
Cut(requests) == {proc[q].row : q \in {p \in requests : proc[p].pc \in {"channels", "missing"}}}

\* A statement fails: the request ends there.  After a report that failed the
\* store uses its database no more, until the controller is started again.
StoreFails(q) ==
  /\ Fault /\ InFlight(q)
  /\ Ends(q) /\ up' = (up /\ q \notin Reporter) /\ torn' = torn \cup Cut({q})
  /\ UNCHANGED <<interfaces, reports, edits, given, raced, shown>>

Restart ==
  /\ Fault \/ (~up /\ UNCHANGED faults)
  /\ proc' = [q \in Proc |-> Idle] /\ up' = TRUE /\ torn' = torn \cup Cut(Proc)
  /\ UNCHANGED <<interfaces, reports, edits, given, raced, shown>>

Next ==
  \/ Restart
  \/ \E q \in Reporter :
       \/ BeginReport(q) \/ InsertRow(q) \/ UpdateRow(q)
       \/ DropChannels(q) \/ InsertChannels(q) \/ MarkAbsent(q) \/ EndReport(q)
  \/ \E q \in Editor : BeginEdit(q) \/ WriteRow(q) \/ LabelChannel(q)
  \/ \E q \in Proc : StoreFails(q)

Spec == Init /\ [][Next]_vars

=============================================================================
