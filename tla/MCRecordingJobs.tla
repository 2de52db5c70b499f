--------------------------- MODULE MCRecordingJobs ---------------------------
(* Model values and capture groups for the runs of RecordingJobs. *)
EXTENDS RecordingJobs, TLC

CONSTANTS r1, r2, g, none, q1, q2, runner

\* Two recordings of one capture group: their jobs share a device.
Grouped == r1 :> g @@ r2 :> g

\* One recording that captures alone.
Alone == r1 :> none

TwoSlots == Permutations({q1, q2})
==============================================================================
