--------------------------- MODULE ScheduleRunner ---------------------------
(***************************************************************************)
(* Schedules (schedule-runner.ts, schedule-routes.ts, schedule-occurrence- *)
(* routes.ts): the runner's pass over the due schedules against the edits  *)
(* operators make meanwhile.                                               *)
(*                                                                         *)
(* A schedule is one row.  Every change of it is scheduleStore.update,     *)
(* which reads the row, merges and writes it whole; list, find and delete  *)
(* are single steps.  Starting the recording is an outcome here.           *)
(***************************************************************************)
EXTENDS ScheduleEngine

CONSTANTS
  Schedule,    \* identities of schedules
  First,       \* the one that exists at the start
  Rules,       \* recurrences operators choose from
  Starts,      \* instants operators move occurrences to
  Delay,       \* retryScheduleAfterFailure, in ticks
  Edits,       \* which requests operators make
  MaxEdits, MaxFaults, MaxTime,   \* bounds
  NoRow, NoSchedule

\* Instants whose dates the scans reach, and starts that their buffer precedes.
Instants == {t \in Nat : DateOf(t) \in Dates}
Times == Instants \cup {NoTime}
Buffered == {t \in Instants : t >= Early}

\* A recurrence: of its fields, a mode reads those it has.
Rule ==
  [mode : Recurring \cup {"once", "always_on"}, every : Nat \ {0}, days : SUBSET Nat,
   day : Nat \ {0}, at : Buffered, skips : SUBSET Dates]

Row == [enabled : BOOLEAN, next : Times, rule : Rule, slot : Times]

ASSUME ScheduleRunnerAssumption ==
  /\ ScheduleEngineAssumption /\ Delay \in Nat \ {0}
  /\ MaxEdits \in Nat /\ MaxFaults \in Nat /\ MaxTime \in Nat /\ MaxTime + Delay \in Instants
  /\ First \in Schedule /\ Rules \subseteq Rule /\ Starts \subseteq Buffered
  /\ NoRow \notin Row

VARIABLES
  now,
  table,       \* the rows; `slot` of a row is history: the occurrence it waits for
  runner,      \* a pass: the snapshot it listed, the schedule at hand, its update
  req,         \* an operator's request
  edits, faults,
  runs,        \* history: the occurrences queued for each schedule
  again,       \* history: schedules with an occurrence queued a second time
  cut,         \* history: schedules whose run was queued and not recorded
  stale,       \* history: schedules written by one that had not seen the last write
  slipped      \* history: schedules whose run was once put off into another date

vars == <<now, table, runner, req, edits, faults, runs, again, cut, stale, slipped>>
history == <<runs, again, cut, stale, slipped>>

Present(s) == table[s] # NoRow
Idle == [pc |-> "idle", at |-> 0, todo |-> {}, id |-> NoSchedule, snap |-> NoRow,
         upd |-> NoRow, row |-> NoRow, queued |-> FALSE]
Quiet == [pc |-> "idle", kind |-> "none", id |-> NoSchedule, before |-> NoRow,
          upd |-> NoRow, row |-> NoRow, clone |-> NoRow]

NewRow(rule, next) == [enabled |-> TRUE, next |-> next, rule |-> rule, slot |-> next]

TypeOK ==
  /\ now \in 0..MaxTime /\ edits \in 0..MaxEdits /\ faults \in 0..MaxFaults
  /\ \A s \in Schedule : Present(s) => /\ table[s].enabled \in BOOLEAN
                                       /\ table[s].next \in Nat \cup {NoTime}
                                       /\ table[s].rule.skips \subseteq Dates
  /\ runner.pc \in {"idle", "next", "queue", "read", "write"}
  /\ req.pc \in {"idle", "read", "write", "create", "rollbackRead", "rollbackWrite"}
  /\ again \subseteq Schedule /\ cut \subseteq Schedule
  /\ stale \subseteq Schedule /\ slipped \subseteq Schedule

\* One schedule, created at instant 0.
Init ==
  /\ now = 0 /\ edits = 0 /\ faults = 0
  /\ \E rule \in Rules :
       table = [s \in Schedule |->
                  IF s = First THEN NewRow(rule, NextRunAt(rule, 0, NoTime, NoTime)) ELSE NoRow]
  /\ runner = Idle /\ req = Quiet
  /\ runs = [s \in Schedule |-> {}] /\ again = {} /\ cut = {} /\ stale = {} /\ slipped = {}

Fault == faults < MaxFaults /\ faults' = faults + 1

\* A pass and a request last less than a tick.
Tick ==
  /\ now < MaxTime /\ runner.pc = "idle" /\ req.pc = "idle"
  /\ now' = now + 1
  /\ UNCHANGED <<table, runner, req, edits, faults, history>>

-----------------------------------------------------------------------------
(* scheduleStore.update: the fields of an update over the row that is read *)

\* History: the occurrence a row waits for is that of its nextRunAt; a retry
\* still waits for the one it had.
Sets(upd) == Over(upd, [slot |-> upd.next])

\* A retry that fell on another date than the occurrence it stands for.
Strayed(row) == row.next # NoTime /\ DateOf(row.next) # DateOf(row.slot)

\* `seen` is the row its writer computed from and `read` the one it merged into:
\* another write in between is lost or undone.
Store(s, upd, read, seen) ==
  /\ table' = [table EXCEPT ![s] = Over(upd, read)]
  /\ stale' = IF table[s] = read /\ read = seen THEN stale ELSE stale \cup {s}
  /\ slipped' = IF Strayed(Over(upd, read)) THEN slipped \cup {s} ELSE slipped

-----------------------------------------------------------------------------
(* The runner's pass *)

\* runDueSchedules lists the schedules once; `now` is that of the whole pass.
BeginPass ==
  LET due == {s \in Schedule : Present(s) /\ IsDue(table[s], now)}
  IN  /\ runner.pc = "idle" /\ due # {}
      /\ runner' = [Idle EXCEPT !.pc = "next", !.at = now,
                                !.todo = {<<s, table[s]>> : s \in due}]
      /\ UNCHANGED <<now, table, req, edits, faults, history>>

\* The next due schedule: skipped by an exception of its own, or to be queued.
Consider ==
  /\ runner.pc = "next"
  /\ \E entry \in runner.todo :
       LET snap == entry[2]
           taken == [runner EXCEPT !.todo = @ \ {entry}, !.id = entry[1], !.snap = snap]
       IN  runner' = IF IsSkipped(snap)
                     THEN [taken EXCEPT !.pc = "read", !.upd = Sets(Skipping(snap))]
                     ELSE [taken EXCEPT !.pc = "queue"]
  /\ UNCHANGED <<now, table, req, edits, faults, history>>

EndPass ==
  /\ runner.pc = "next" /\ runner.todo = {}
  /\ runner' = Idle
  /\ UNCHANGED <<now, table, req, edits, faults, history>>

\* queueScheduledRecordings created the recording and its job.
Queued ==
  /\ runner.pc = "queue"
  /\ LET s == runner.id
         slot == runner.snap.slot
     IN  /\ runs' = [runs EXCEPT ![s] = @ \cup {slot}]
         /\ again' = IF slot \in runs[s] THEN again \cup {s} ELSE again
  /\ runner' = [runner EXCEPT !.pc = "read", !.queued = TRUE,
                              !.upd = Sets(Advanced(runner.snap, runner.at))]
  /\ UNCHANGED <<now, table, req, edits, faults, cut, stale, slipped>>

Retrying == [runner EXCEPT !.pc = "read", !.queued = FALSE,
               !.upd = [next |-> runner.at + Delay, slot |-> runner.snap.slot]]

\* Busy channels, a selection across rooms, an unknown node, or an error:
\* nothing was queued and the schedule is tried again later.
Deferred ==
  /\ runner.pc = "queue" /\ Fault
  /\ runner' = Retrying
  /\ UNCHANGED <<now, table, req, edits, history>>

UpdateRead ==
  /\ runner.pc = "read"
  /\ runner' = IF Present(runner.id)
               THEN [runner EXCEPT !.pc = "write", !.row = table[runner.id]]
               ELSE [runner EXCEPT !.pc = "next", !.queued = FALSE]
  /\ UNCHANGED <<now, table, req, edits, faults, history>>

\* The update was computed from the snapshot and is laid over the row just read.
UpdateWrite ==
  /\ runner.pc = "write"
  /\ Store(runner.id, runner.upd, runner.row, runner.snap)
  /\ runner' = [runner EXCEPT !.pc = "next", !.queued = FALSE]
  /\ UNCHANGED <<now, req, edits, faults, runs, again, cut>>

CutOff == cut' = IF runner.queued THEN cut \cup {runner.id} ELSE cut

\* The update throws: a schedule that was queued or deferred is tried again; a
\* retry that throws, and a skip, end the pass.
UpdateFails ==
  /\ runner.pc \in {"read", "write"} /\ Fault /\ CutOff
  /\ runner' = IF runner.queued THEN Retrying ELSE Idle
  /\ UNCHANGED <<now, table, req, edits, runs, again, stale, slipped>>

\* The audit entry after the update throws.
AuditFails ==
  /\ runner.pc = "write" /\ runner.queued /\ Fault /\ CutOff
  /\ Store(runner.id, runner.upd, runner.row, runner.snap)
  /\ runner' = [Retrying EXCEPT !.snap = Over(runner.upd, runner.row)]
  /\ UNCHANGED <<now, req, edits, runs, again>>

\* The controller stops and starts again.
Restart ==
  /\ runner.pc # "idle" \/ req.pc # "idle"
  /\ Fault /\ CutOff
  /\ runner' = Idle /\ req' = Quiet
  /\ UNCHANGED <<now, table, edits, runs, again, stale, slipped>>

-----------------------------------------------------------------------------
(* Requests of operators *)

\* The route found the schedule and computed its update from what it saw.
Begin(s, kind, upd, clone) ==
  /\ req' = [Quiet EXCEPT !.pc = "read", !.kind = kind, !.id = s, !.before = table[s],
                          !.upd = upd, !.clone = clone]
  /\ edits' = edits + 1
  /\ UNCHANGED <<now, table, runner, faults, history>>

Allowed(kind) == kind \in Edits /\ req.pc = "idle" /\ edits < MaxEdits

\* PATCH enabled.
Toggle(s) ==
  /\ Allowed("toggle") /\ Present(s)
  /\ Begin(s, "toggle", [enabled |-> ~table[s].enabled], NoRow)

\* PATCH recurrence: the next run is counted from now.
Reschedule(s, rule) ==
  /\ Allowed("reschedule") /\ Present(s) /\ rule.mode \in Recurring
  /\ Begin(s, "reschedule",
           Sets([rule |-> rule, next |-> NextRunAt(rule, now, NoTime, NoTime)]), NoRow)

SkipNext(s) ==
  /\ Allowed("skip") /\ Present(s) /\ table[s].next # NoTime
  /\ Begin(s, "skip", Sets(Skipping(table[s])), NoRow)

\* A one-off moves in place, to any instant.
MoveOnce(s, start) ==
  /\ Allowed("move") /\ Present(s) /\ table[s].rule.mode = "once"
  /\ LET rule == [table[s].rule EXCEPT !.at = start]
     IN  Begin(s, "moveOnce",
               Sets([rule |-> rule, next |-> NextRunAt(rule, now, NoTime, NoTime)]), NoRow)

\* A recurring instance that the calendar shows is skipped and cloned into a one-off
\* without buffers, at any instant.
Move(s, date, start) ==
  LET before == table[s]
      rule == WithSkip(before.rule, date)
      phase == IF before.next # NoTime THEN before.next ELSE RunAt(date)
      clone == [NewRow([before.rule EXCEPT !.mode = "once", !.at = start, !.skips = {}], start)
                  EXCEPT !.enabled = before.enabled]
  IN  /\ Allowed("move") /\ Present(s) /\ before.rule.mode \in Recurring
      /\ RunAt(date) > now /\ OnPhase(before.rule, DateOf(phase), date)
      /\ Begin(s, "move", Sets([rule |-> rule, next |-> NextRunAt(rule, now, NoTime, phase)]),
               clone)

\* DELETE is one statement.
Delete(s) ==
  /\ Allowed("delete") /\ Present(s)
  /\ table' = [table EXCEPT ![s] = NoRow] /\ edits' = edits + 1
  /\ UNCHANGED <<now, runner, req, faults, history>>

RequestRead ==
  /\ req.pc \in {"read", "rollbackRead"}
  /\ req' = IF Present(req.id)
            THEN [req EXCEPT !.pc = IF @ = "read" THEN "write" ELSE "rollbackWrite",
                             !.row = table[req.id]]
            ELSE Quiet
  /\ UNCHANGED <<now, table, runner, edits, faults, history>>

RequestWrite ==
  /\ req.pc = "write"
  /\ Store(req.id, req.upd, req.row, req.before)
  /\ req' = IF req.kind = "move" THEN [req EXCEPT !.pc = "create"] ELSE Quiet
  \* A one-off that is moved is a new occurrence, wherever it is moved to.
  /\ runs' = IF req.kind = "moveOnce"
             THEN [runs EXCEPT ![req.id] = @ \ {req.upd.slot}] ELSE runs
  /\ UNCHANGED <<now, runner, edits, faults, again, cut>>

\* The clone of a moved occurrence is a schedule of its own, of which nothing has
\* been queued: an identity is never used again in the code.
Create(s) ==
  /\ req.pc = "create" /\ table[s] = NoRow /\ s # req.id
  /\ table' = [table EXCEPT ![s] = req.clone]
  /\ runs' = [runs EXCEPT ![s] = {}]
  /\ req' = Quiet
  /\ UNCHANGED <<now, runner, edits, faults, again, cut, stale, slipped>>

CreateFails ==
  /\ req.pc = "create" /\ Fault
  /\ req' = [req EXCEPT !.pc = "rollbackRead"]
  /\ UNCHANGED <<now, table, runner, edits, history>>

Rollback ==
  /\ req.pc = "rollbackWrite"
  /\ Store(req.id, [next |-> req.before.next, rule |-> req.before.rule,
                    slot |-> req.before.slot],
           req.row, Over(req.upd, req.before))
  /\ req' = Quiet
  /\ UNCHANGED <<now, runner, edits, faults, runs, again, cut>>

RunnerStep ==
  \/ BeginPass \/ Consider \/ EndPass \/ Queued \/ UpdateRead \/ UpdateWrite

RequestStep ==
  RequestRead \/ RequestWrite \/ Rollback \/ \E s \in Schedule : Create(s)

Ask(s) ==
  \/ Toggle(s) \/ SkipNext(s) \/ Delete(s)
  \/ \E rule \in Rules : Reschedule(s, rule)
  \/ \E start \in Starts :
       MoveOnce(s, start) \/ \E date \in Dates : Move(s, date, start)

Next ==
  \/ Tick \/ RunnerStep \/ RequestStep
  \/ Deferred \/ UpdateFails \/ AuditFails \/ Restart \/ CreateFails
  \/ \E s \in Schedule : Ask(s)

Spec == Init /\ [][Next]_vars

\* Time passes, the runner's timer comes, passes and requests go on.
Fairness == WF_vars(Tick) /\ WF_vars(RunnerStep) /\ WF_vars(RequestStep)

-----------------------------------------------------------------------------
(* Properties *)

\* An occurrence is recorded once: it is queued again only if the pass that
\* queued it failed before it noted so, or if someone wrote back an old row.
RunOnce == again \subseteq cut \cup stale

\* The occurrences of a row that are still to come.
Coming(row) ==
  {d \in Dates : /\ OnPhase(row.rule, DateOf(row.slot), d)
                 /\ d \notin row.rule.skips /\ RunAt(d) > now /\ RunAt(d) >= row.next}

PassedOver(old, new) ==
  /\ old.rule.mode \in Recurring /\ old.rule.mode = new.rule.mode
  /\ old.next # NoTime /\ new.next # old.next /\ new.next # NoTime
  /\ \E d \in Coming([old EXCEPT !.rule = new.rule]) : RunAt(d) < new.next

\* However a schedule advances (after a run, a skip, a move, a retry), it does
\* not pass over an occurrence that has yet to come and was not skipped: "Each
\* occurrence creates one recording" (SCHEDULER_BASELINE.md).
OccurrencesKept ==
  [][\A s \in Schedule \ stale' :
       ~(Present(s) /\ Present(s)' /\ req.kind # "reschedule"
           /\ PassedOver(table[s], table'[s]))]_vars

\* The same, unless the pending run is put off into another date, or a rollback
\* brings back what was before the move of a schedule whose run once was.
ComingKept ==
  [][\A s \in Schedule \ stale' :
       ~(/\ Present(s) /\ Present(s)' /\ req.kind # "reschedule"
         /\ ~Strayed(table[s]) /\ ~Strayed(table'[s])
         /\ req.pc = "rollbackWrite" => s \notin slipped
         /\ PassedOver(table[s], table'[s]))]_vars

\* The calendar, asked from the next run on, shows that run first, asked from
\* behind it the run the advance will set, and asked from any instant to come
\* nothing that will not run (unless a run put off took an occurrence with it,
\* as OccurrencesKept says): the two scans anchor the every-n phase differently.
CalendarAgrees ==
  \A s \in Schedule \ stale :
    LET row == table[s]
        following == Advanced(row, row.next).next
    IN  (/\ Present(s) /\ row.rule.mode \in Recurring /\ row.next # NoTime
         /\ row.next = row.slot /\ ~IsSkipped(row))
          => /\ \A from \in (now + 1)..row.next :
                  s \notin slipped \/ from = row.next => CalendarFrom(row, from) = row.next
             /\ following # NoTime => CalendarFrom(row, row.next + 1) = following

\* A one-off that is due is recorded in the end, or waits for a retry beyond
\* the bound on time, unless an operator steps in again.
OnceRuns ==
  \A s \in Schedule, n \in 0..MaxEdits :
    (/\ Present(s) /\ table[s].rule.mode = "once" /\ IsDue(table[s], now) /\ ~IsSkipped(table[s])
     /\ req.pc = "idle" /\ edits = n)
      ~> \/ runs[s] # {} \/ ~Present(s) \/ edits > n \/ s \in stale
         \/ table[s].enabled /\ table[s].next > MaxTime
=============================================================================
