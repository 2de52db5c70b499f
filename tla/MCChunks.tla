------------------------------- MODULE MCChunks -------------------------------
(* Model values for the run of ChunkDelivery by itself. *)
EXTENDS ChunkDelivery

CONSTANT d1
===============================================================================
