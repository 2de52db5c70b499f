-------------------------------- MODULE MCRows --------------------------------
(***************************************************************************)
(* Two instances of Recordings over the same variables, checked together:  *)
(* "settled", all that ends a job with a working store, and "edits", a job *)
(* and its retry under stops, deletions, the upload runner, outages and    *)
(* restarts.  The initial state chooses one.                               *)
(***************************************************************************)
EXTENDS Recordings, TLC

CONSTANTS q1, q2, uploads

VARIABLE part

EditCalls ==
  {"start", "claimGroup", "upload", "raw", "chunk", "heartbeat", "expire", "reportFailed",
   "stop", "retry", "delete", "runner", "outage", "restart"}

Edits == INSTANCE Recordings WITH Calls <- EditCalls, Request <- {q1}

allVars == <<part, vars, history>>

RowsInit ==
  /\ part \in {"settled", "edits"}
  /\ IF part = "edits" THEN Edits!Init ELSE Init

\* A step of one part.
Settled(A) == part = "settled" /\ A
Edited(A) == part = "edits" /\ A

RowsNext ==
  \/ Settled(Next) /\ UNCHANGED part
  \/ Edited(Edits!Next) /\ UNCHANGED part

\* FairSpec of Recordings for the first part, its RetriedUploads for the second.
RowsSpec ==
  /\ RowsInit /\ [][RowsNext]_allVars
  /\ \A s \in Slot : WF_vars(Settled(StepOf(s)))
  /\ \A s \in Request : SF_vars(Settled(BeginExpire(s)))
  /\ \A s \in Edits!Slot : WF_vars(Edited(Edits!StepOf(s)))
  /\ \A j \in Edits!Job : SF_vars(Edited(Edits!Replay(j)))
  /\ <>[][Edited(Edits!Fault) => \E s \in Edits!Slot : Edits!StepOf(s)]_vars

\* The properties of Recordings that are about the environment of one part.
RowTypes == IF part = "edits" THEN Edits!TypeOK ELSE TypeOK
RowSettles == part = "settled" => Settles
RowsQueued == part = "edits" => Edits!CachedIsQueued
===============================================================================
