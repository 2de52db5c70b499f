---------------------------- MODULE HealthEvents ----------------------------
(***************************************************************************)
(* Health events of one recording and the health badge on its row          *)
(* (watchdog-runner.ts, health-routes.ts, health-store.ts, health-sync.ts).*)
(*                                                                         *)
(* The watchdog's pass opens, updates and resolves one event per check.    *)
(* Operators acknowledge, suppress, resolve and reopen events, and agents  *)
(* report events of their own.  Each of them then derives the badge anew,  *)
(* in several reads and a compare-and-set.  What a check finds is chosen   *)
(* freely here; WatchdogSignal models it.                                  *)
(***************************************************************************)
EXTENDS HealthPromise, Integers, FiniteSets

CONSTANTS
  Checks,     \* the watchdog's checks, in their order
  Request,    \* concurrent requests
  Watchdog,   \* the watchdog's pass
  Attempts,   \* HEALTH_SYNC_COMMIT_ATTEMPTS
  MaxEvents, MaxRequests, MaxPasses   \* bounds

HealthEventsAssumption ==
  /\ Attempts \in Nat \ {0} /\ Watchdog \notin Request /\ Len(Checks) \in Nat \ {0}
  /\ MaxRequests \in Nat /\ MaxPasses \in Nat
  /\ \A n \in 1..Len(Checks) : Severity[Checks[n]] \in {"warning", "critical"}

VARIABLES
  requests, passes

vars == <<row, events, proc, requests, passes, clash, revived>>

Procs == Request \cup {Watchdog}
Kinds == {Checks[n] : n \in 1..Len(Checks)} \cup {Reported}
Statuses == {"open", "acknowledged", "suppressed", "resolved"}
Actions == {"acknowledge", "suppress", "resolve", "reopen"}

Idle == [pc |-> "idle", check |-> 0, event |-> 0, seen |-> "none", action |-> "none",
         row |-> row, health |-> "none", left |-> 0]

TypeOK ==
  /\ row.status \in {"recording", "ended"}
  /\ row.health \in {"unknown", "healthy", "warning", "critical"}
  /\ \A e \in Events : events[e].kind \in Kinds /\ events[e].status \in Statuses
  /\ \A p \in Procs : proc[p].pc \in {"idle", "check", "write", "row", "find", "list", "current",
                                      "commit"}
  /\ requests \in 0..MaxRequests /\ passes \in 0..MaxPasses
  /\ clash \in BOOLEAN /\ revived \subseteq Events

Init ==
  /\ row = [status |-> "recording", health |-> "unknown"]
  /\ events = <<>>
  /\ proc = [p \in Procs |-> Idle]
  /\ requests = 0 /\ passes = 0 /\ clash = FALSE /\ revived = {}

Goes(p, fields) == proc' = [proc EXCEPT ![p] = fields]

\* Deriving the badge begins once the event is written.
Syncing(p) == proc[p].pc \in {"find", "list", "current", "commit"}
ThenSync(p) ==
  /\ Goes(p, [proc[p] EXCEPT !.pc = "find"])
  /\ clash' = \E q \in Procs \ {p} : Syncing(q)

\* The pass goes on to its next check.
Done(p) ==
  Goes(p, IF p = Watchdog /\ proc[p].check < Len(Checks)
          THEN [Idle EXCEPT !.pc = "check", !.check = proc[p].check + 1]
          ELSE Idle)

-----------------------------------------------------------------------------
(* syncRecordingHealth *)

FindRow(p) ==
  /\ proc[p].pc = "find"
  /\ Goes(p, [proc[p] EXCEPT !.pc = "list", !.row = row])
  /\ UNCHANGED <<row, events, requests, passes, clash, revived>>

\* Mutant: a health that was set is left as it is.
ListEventsOnce(p) ==
  /\ proc[p].pc = "list"
  /\ IF proc[p].row.health \in {"unknown", Badge} /\ events # <<>>
     THEN Goes(p, [proc[p] EXCEPT !.pc = "current", !.health = Badge,
                                  !.left = Attempts])
     ELSE Done(p)
  /\ UNCHANGED <<row, events, requests, passes, clash, revived>>

\* All events of the recording that are not resolved give its health.
ListEvents(p) ==
  /\ proc[p].pc = "list"
  /\ IF proc[p].row.health = Badge
     THEN Done(p)
     ELSE Goes(p, [proc[p] EXCEPT !.pc = "current", !.health = Badge,
                                  !.left = Attempts])
  /\ UNCHANGED <<row, events, requests, passes, clash, revived>>

ReadCurrent(p) ==
  /\ proc[p].pc = "current"
  /\ IF row.health = proc[p].health
     THEN Done(p)
     ELSE Goes(p, [proc[p] EXCEPT !.pc = "commit", !.row = row])
  /\ UNCHANGED <<row, events, requests, passes, clash, revived>>

\* The compare-and-set is on the recording's status.
Commit(p) ==
  /\ proc[p].pc = "commit" /\ row.status = proc[p].row.status
  /\ row' = [proc[p].row EXCEPT !.health = proc[p].health]
  /\ Done(p)
  /\ UNCHANGED <<events, requests, passes, clash, revived>>

CommitLost(p) ==
  /\ proc[p].pc = "commit" /\ row.status # proc[p].row.status
  /\ IF proc[p].left > 1
     THEN /\ Goes(p, [proc[p] EXCEPT !.pc = "current", !.left = @ - 1])
          /\ UNCHANGED clash
     ELSE Done(p) /\ clash' = TRUE
  /\ UNCHANGED <<row, events, requests, passes, revived>>

\* A store call throws: the pass, or the request, ends there.
Abandon(p) ==
  /\ Syncing(p)
  /\ Goes(p, Idle) /\ clash' = TRUE
  /\ UNCHANGED <<row, events, requests, passes, revived>>

-----------------------------------------------------------------------------
(* The watchdog's pass *)

\* The pass watches recordings that are being recorded.
BeginPass ==
  /\ proc[Watchdog].pc = "idle" /\ row.status = "recording" /\ passes < MaxPasses
  /\ Goes(Watchdog, [Idle EXCEPT !.pc = "check", !.check = 1])
  /\ passes' = passes + 1
  /\ UNCHANGED <<row, events, requests, clash, revived>>

Kind == Checks[proc[Watchdog].check]

\* Mutant: acknowledged and suppressed events are overlooked.
ActiveOfOpen(kind) ==
  LET found == {e \in Events : events[e].kind = kind /\ events[e].status = "open"}
  IN  IF found = {} THEN 0 ELSE CHOOSE e \in found : \A f \in found : f <= e

\* The newest active event of the check's kind, if there is one.
ActiveOf(kind) ==
  LET found == {e \in Events : events[e].kind = kind /\ Unresolved(e)}
  IN  IF found = {} THEN 0 ELSE CHOOSE e \in found : \A f \in found : f <= e

Check ==
  LET existing == ActiveOf(Kind)
  IN  /\ proc[Watchdog].pc = "check"
      /\ \E bad \in BOOLEAN :
           IF ~bad /\ existing = 0
           THEN Done(Watchdog)
           ELSE Goes(Watchdog, [proc[Watchdog] EXCEPT
                       !.pc = "write", !.event = existing,
                       !.seen = IF existing = 0 THEN "none" ELSE events[existing].status,
                       !.action = IF ~bad THEN "resolve" ELSE "alert"])
      /\ UNCHANGED <<row, events, requests, passes, clash, revived>>

Opens(kind) ==
  /\ Len(events) < MaxEvents
  /\ events' = Append(events, [kind |-> kind, status |-> "open"])

\* An event is written with the status it had when the pass listed it.
WriteCheck ==
  LET me == proc[Watchdog]
      status == IF me.action = "resolve" THEN "resolved" ELSE me.seen
  IN  /\ me.pc = "write"
      /\ IF me.event = 0
         THEN Opens(Kind) /\ UNCHANGED revived
         ELSE /\ events' = [events EXCEPT ![me.event].status = status]
              /\ revived' = IF ~Unresolved(me.event) /\ status # "resolved"
                            THEN revived \cup {me.event} ELSE revived
      /\ ThenSync(Watchdog)
      /\ UNCHANGED <<row, requests, passes>>

-----------------------------------------------------------------------------
(* Requests *)

\* POST of an agent or an operator.
Report(q) ==
  /\ proc[q].pc = "idle" /\ requests < MaxRequests
  /\ Opens(Reported) /\ ThenSync(q)
  /\ requests' = requests + 1
  /\ UNCHANGED <<row, passes, revived>>

\* The lifecycle route finds the event; a resolved one can only be reopened.
FindEvent(q) ==
  /\ proc[q].pc = "idle" /\ requests < MaxRequests
  /\ \E e \in Events, action \in Actions :
       /\ Unresolved(e) \/ action = "reopen"
       /\ Goes(q, [Idle EXCEPT !.pc = "write", !.event = e, !.seen = events[e].status,
                               !.action = action])
  /\ requests' = requests + 1
  /\ UNCHANGED <<row, events, passes, clash, revived>>

\* Mutant: reopening has a status of its own.
LifecycleReopened(action, seen) ==
  [acknowledge |-> "acknowledged", suppress |-> "suppressed", resolve |-> "resolved",
   reopen |-> "reopened"][action]

\* healthLifecycleUpdate
Lifecycle(action, seen) ==
  CASE action = "acknowledge" -> IF seen = "suppressed" THEN "suppressed" ELSE "acknowledged"
    [] action = "suppress" -> "suppressed"
    [] action = "resolve" -> "resolved"
    [] action = "reopen" -> "open"

WriteLifecycle(q) ==
  LET me == proc[q]
      status == Lifecycle(me.action, me.seen)
  IN  /\ me.pc = "write"
      /\ events' = [events EXCEPT ![me.event].status = status]
      /\ revived' = IF ~Unresolved(me.event) /\ status # "resolved"
                    THEN revived \cup {me.event} ELSE revived
      /\ ThenSync(q)
      /\ UNCHANGED <<row, requests, passes>>

\* The job ends: its recording is read, and written with its new status.
ReadRow(q) ==
  /\ proc[q].pc = "idle" /\ row.status = "recording" /\ requests < MaxRequests
  /\ Goes(q, [Idle EXCEPT !.pc = "row", !.row = row])
  /\ requests' = requests + 1
  /\ UNCHANGED <<row, events, passes, clash, revived>>

WriteRow(q) ==
  /\ proc[q].pc = "row"
  /\ IF row.status = "recording"
     THEN /\ row' = [proc[q].row EXCEPT !.status = "ended"]
          /\ clash' = (clash \/ row.health # proc[q].row.health)
     ELSE UNCHANGED <<row, clash>>
  /\ Goes(q, Idle)
  /\ UNCHANGED <<events, requests, passes, revived>>

SyncStep(p) == FindRow(p) \/ ListEvents(p) \/ ReadCurrent(p) \/ Commit(p) \/ CommitLost(p)

Next ==
  \/ BeginPass \/ Check \/ WriteCheck
  \/ \E q \in Request :
       Report(q) \/ FindEvent(q) \/ WriteLifecycle(q) \/ ReadRow(q) \/ WriteRow(q)
  \/ \E p \in Procs : SyncStep(p) \/ Abandon(p)

Spec == Init /\ [][Next]_vars

=============================================================================
