---------------------------- MODULE MCRecordings -----------------------------
(* Model values for the runs of Recordings. *)
EXTENDS Recordings, TLC

CONSTANTS q1, q2, uploads

TwoSlots == Permutations({q1, q2})
==============================================================================
