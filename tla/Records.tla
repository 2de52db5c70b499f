------------------------------- MODULE Records -------------------------------
(* Records whose fields differ from step to step. *)

\* A record with some of its fields set, or added to it.
Over(fields, record) ==
  [name \in DOMAIN fields \cup DOMAIN record |->
     IF name \in DOMAIN fields THEN fields[name] ELSE record[name]]
==============================================================================
