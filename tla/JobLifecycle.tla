---------------------------- MODULE JobLifecycle -----------------------------
(***************************************************************************)
(* What the job table promises of each job, whatever requests overlap: the *)
(* lifecycle of RecordingJobStatus with its compare-and-set transitions    *)
(* (NON_TERMINAL_SOURCES and STOPPABLE_SOURCES of recording-jobs.ts), one  *)
(* claim per job, no way back to "queued", and ids that are never reused.  *)
(* Renew is wider than a lifecycle should be: it is what is left to        *)
(* promise of a heartbeat that upserts the row it read earlier.            *)
(***************************************************************************)
CONSTANT Job

VARIABLES
  status,   \* the lifecycle status of each job
  claimed   \* jobs an agent won

vars == <<status, claimed>>

Active    == {"queued", "running", "stop_requested"}
Stoppable == {"queued", "running"}
Terminal  == {"completed", "failed", "cancelled"}

TypeOK ==
  /\ status \in [Job -> Active \cup Terminal \cup {"unborn", "absent"}]
  /\ claimed \subseteq Job

Init ==
  /\ status = [j \in Job |-> "unborn"]
  /\ claimed = {}

Move(j, from, to) ==
  /\ status[j] \in from
  /\ status' = [status EXCEPT ![j] = to]

Queue(j) == Move(j, {"unborn"}, "queued") /\ UNCHANGED claimed

Claim(j) ==
  /\ j \notin claimed
  /\ Move(j, {"queued"}, "running")
  /\ claimed' = claimed \cup {j}

Stop(j) == Move(j, Stoppable, "stop_requested") /\ UNCHANGED claimed

End(j, outcome) == Move(j, Active, outcome) /\ UNCHANGED claimed

Remove(J) ==
  /\ status' = [j \in Job |-> IF j \in J THEN "absent" ELSE status[j]]
  /\ \A j \in J : status[j] # "unborn"
  /\ UNCHANGED claimed

Renew(j) ==
  /\ j \in claimed
  /\ status' = [status EXCEPT ![j] = "running"]
  /\ UNCHANGED claimed

Next ==
  \/ \E j \in Job :
       \/ Queue(j) \/ Claim(j) \/ Stop(j) \/ Renew(j)
       \/ \E outcome \in Terminal : End(j, outcome)
  \/ \E J \in SUBSET Job : Remove(J)

Spec == Init /\ [][Next]_vars
==============================================================================
