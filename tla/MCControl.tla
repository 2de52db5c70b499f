------------------------------ MODULE MCControl ------------------------------
(***************************************************************************)
(* Two of the controller's loops, under their fairness: the schedule      *)
(* runner (ScheduleRunner) and the lease runner (RecordingJobs).  They     *)
(* share no state, so a behaviour is one of either, chosen by the initial  *)
(* state.                                                                  *)
(***************************************************************************)
EXTENDS ScheduleRunner, TLC

CONSTANTS
  s1, s2,          \* schedules
  q1, r1, none, lr \* a request, a recording that captures alone, the lease runner

VARIABLES part, rows, recOf, created, slots, held, known, wins

\* Months of three and two days, and a rule of each kind: monthly on the last
\* day, which only the longer months have.
Firsts == 0 :> 0 @@ 1 :> 3 @@ 2 :> 5 @@ 3 :> 8 @@ 4 :> 10
Recurs(mode, every) ==
  [mode |-> mode, every |-> every, days |-> {0}, day |-> 3, at |-> 2, skips |-> {}]
OneOff == Recurs("once", 1)
SomeRules == {Recurs("daily", 1), Recurs("weekly", 2), Recurs("monthly", 1), OneOff}

\* A job and its retry, one request at a time beside the lease runner.
Leases == INSTANCE RecordingJobs
  WITH req <- slots, Recording <- {r1}, Group <- {}, NoGroup <- none,
       GroupOf <- r1 :> none, MaxJobs <- 2, Request <- {q1}, LeaseRunner <- lr,
       Calls <- {"sweep", "claimGroup", "heartbeat", "stop", "complete", "fail", "retry"}

jobVars == <<rows, recOf, created, slots, held, known, wins>>
allVars == <<part, vars, jobVars>>

ControlInit ==
  /\ part \in {"schedules", "leases"}
  /\ Init /\ Leases!Init
  /\ part # "schedules" => table[First].rule = OneOff

\* A step of one part leaves the other alone.
Schedules(A) == part = "schedules" /\ A
Lease(A) == part = "leases" /\ A

ControlNext ==
  \/ Schedules(Next) /\ UNCHANGED <<part, jobVars>>
  \/ Lease(Leases!Next) /\ UNCHANGED <<part, vars>>

\* The fairness of each part, for the behaviours that are its own.
ControlSpec ==
  /\ ControlInit /\ [][ControlNext]_allVars
  /\ WF_vars(Schedules(Tick)) /\ WF_vars(Schedules(RunnerStep))
  /\ WF_vars(Schedules(RequestStep))
  /\ \A s \in Leases!Slot : WF_jobVars(Lease(Leases!Step(s)))
  /\ WF_jobVars(Lease(Leases!BeginSweep)) /\ WF_jobVars(Lease(Leases!EndSweep))
  /\ \A j \in Leases!Job :
       /\ WF_jobVars(Lease(Leases!Orphaned(j) /\ Leases!Elapse(j)))
       /\ WF_jobVars(Lease(rows[j].status = "stop_requested" /\ Leases!Elapse(j)))

\* The properties of the part that is an instance.
ControlTypes == TypeOK /\ Leases!TypeOK
LeasesEnd == Leases!LeasesEnd
==============================================================================
