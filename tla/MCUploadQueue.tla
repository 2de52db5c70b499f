---------------------------- MODULE MCUploadQueue ----------------------------
(* Model values for the runs of UploadQueue. *)
EXTENDS UploadQueue, TLC

CONSTANTS smb, s3, q1, q2

TwoPolicies == Permutations({smb, s3})
==============================================================================
