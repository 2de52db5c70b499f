---------------------------- MODULE NodeEnrollment ----------------------------
(***************************************************************************)
(* The two credentials of one node: the token its agent shows the          *)
(* controller, and the SSH key with which the controller's Ansible runner  *)
(* logs in at the node.  They are replaced by the day-0 bootstrap          *)
(* (bootstrap.rs, node-bootstrap-routes.ts), by operators, and by the runs *)
(* of the runner (runner.py, the role recorder_node), which may overlap.   *)
(*                                                                         *)
(* A token and a key are numbers; 0 is none.  A run starts at a node whose *)
(* key the controller has; what the runner takes from its configuration    *)
(* and its options when the controller gives it nothing is left out.       *)
(***************************************************************************)
EXTENDS CredentialPromise, Records

CONSTANTS
  Request,     \* bootstraps, rotations and runs in flight
  Kinds,       \* bound: those that are made
  Nobody,
  MaxTokens, MaxBegun, MaxFaults      \* bounds

NodeEnrollmentAssumption ==
  Kinds \subseteq {"bootstrap", "token", "key", "deploy", "trust"}

VARIABLES
  bootstraps,  \* node_bootstrap_tokens
  boot,        \* the node: the bootstrap its agent waits for
  req,
  made, begun, faults

counters == <<made, begun, faults>>
node == <<env, authorized>>
vars == <<bootstraps, active, node, boot, req, counters, admitted>>

Made == 0..(2 * MaxBegun + 1)
Idle == [pc |-> "idle"]
InFlight(q) == req[q].pc # "idle"

TypeOK ==
  /\ bootstraps \in [1..MaxTokens -> {"none", "fresh", "consumed", "expired"}]
  /\ active \in [{"token", "key"} -> SUBSET (Made \ {0})]
  /\ env \in Made /\ authorized \in Made /\ made \in Made
  /\ boot \in Request \cup {Nobody}
  /\ \A q \in Request : InFlight(q) => req[q].kind \in Kinds /\ req[q].met \subseteq Request

\* enroll inserts the node and its first token, which nobody has placed yet.
Init ==
  /\ bootstraps = [t \in 1..MaxTokens |-> "none"]
  /\ active = [what \in {"token", "key"} |-> IF what = "token" THEN {1} ELSE {}]
  /\ env = 0 /\ authorized = 0
  /\ boot = Nobody /\ req = [q \in Request |-> Idle]
  /\ made = 1 /\ begun = 0 /\ faults = 0
  /\ admitted = FALSE

\* A request starts: whoever is in flight has met it.
Starts(q, fields) ==
  LET others == {o \in Request : InFlight(o)} IN
  /\ ~InFlight(q) /\ begun < MaxBegun /\ begun' = begun + 1
  /\ fields.kind \in Kinds
  /\ req' = [p \in Request |->
               IF p = q THEN Over(fields, [token |-> 0, key |-> 0, met |-> others,
                                           was |-> admitted /\ others = {}])
               ELSE IF InFlight(p) THEN [req[p] EXCEPT !.met = @ \cup {q}] ELSE Idle]
  /\ admitted' = FALSE

At(q, kinds, pc) == InFlight(q) /\ req[q].pc = pc /\ req[q].kind \in kinds
Goes(q, fields) == req' = [req EXCEPT ![q] = Over(fields, @)]
Ends(q) == req' = [req EXCEPT ![q] = Idle]

\* A request that met no other ends well.
EndsWell(q) ==
  /\ Ends(q)
  /\ admitted' = (req[q].met = {} /\ (req[q].was \/ req[q].kind \in {"bootstrap", "deploy"}))

Fault == faults < MaxFaults /\ faults' = faults + 1

-----------------------------------------------------------------------------
(* Bootstrap tokens *)

Issue(t) ==
  /\ bootstraps[t] = "none" /\ bootstraps' = [bootstraps EXCEPT ![t] = "fresh"]
  /\ UNCHANGED <<active, node, boot, req, counters, admitted>>

Lapse(t) ==
  /\ bootstraps[t] = "fresh" /\ bootstraps' = [bootstraps EXCEPT ![t] = "expired"]
  /\ UNCHANGED <<active, node, boot, req, counters, admitted>>

-----------------------------------------------------------------------------
(* The bootstrap *)

\* run_bootstrap: a new key, whose public half replaces authorized_keys before
\* anything is sent.  The installer may be run again with the token it used.
BeginBootstrap(q) ==
  /\ boot = Nobody /\ boot' = q
  /\ \E t \in 1..MaxTokens :
       /\ bootstraps[t] # "none"
       /\ Starts(q, [kind |-> "bootstrap", pc |-> "consume", with |-> t, key |-> made + 1])
  /\ made' = made + 1 /\ authorized' = made + 1
  /\ UNCHANGED <<bootstraps, active, env, faults>>

\* One update: only an unused token that has not expired is consumed.
Consume(q) ==
  /\ At(q, {"bootstrap"}, "consume")
  /\ IF bootstraps[req[q].with] = "fresh"
     THEN /\ bootstraps' = [bootstraps EXCEPT ![req[q].with] = "consumed"]
          /\ Goes(q, [pc |-> "revoke key"])
     ELSE Goes(q, [pc |-> "rejected"]) /\ UNCHANGED bootstraps
  /\ UNCHANGED <<active, node, boot, counters, admitted>>

\* The agent is told, if it still waits: it writes the token, or gives up.
Answer(q) ==
  /\ At(q, {"bootstrap"}, "answer") \/ At(q, {"bootstrap"}, "rejected")
  /\ IF boot = q /\ req[q].pc = "answer"
     THEN env' = req[q].token /\ EndsWell(q)
     ELSE Ends(q) /\ UNCHANGED <<env, admitted>>
  /\ boot' = IF boot = q THEN Nobody ELSE boot
  /\ UNCHANGED <<bootstraps, active, authorized, counters>>

-----------------------------------------------------------------------------
(* The transaction that replaces a credential: rotateCredential, persistActive *)

\* The two statements of the transaction.
Revoking(what) == IF what = "key" THEN "revoke key" ELSE "revoke token"
Inserting(what) == IF what = "key" THEN "insert key" ELSE "insert token"

\* Where a request goes on when its transaction is committed, or is rolled back.
AfterCommit(kind, what) ==
  CASE kind = "bootstrap" -> IF what = "key" THEN "revoke token" ELSE "answer"
    [] kind \in {"token", "key"} -> "place"
    [] OTHER -> "connect"

RolledBack(kind) == IF kind \in {"bootstrap", "token", "key"} THEN "rejected" ELSE "connect"

\* The rows without revokedAt are revoked.
Revoke(q, what) ==
  /\ InFlight(q) /\ req[q].pc = Revoking(what)
  /\ Goes(q, [pc |-> Inserting(what), revoked |-> active[what]])
  /\ UNCHANGED <<bootstraps, active, node, boot, counters, admitted>>

\* Mutant: without the unique index.
InsertTwo(q, what) ==
  LET new == IF what = "key" THEN req[q].key ELSE made + 1 IN
  /\ InFlight(q) /\ req[q].pc = Inserting(what)
  /\ active' = [active EXCEPT ![what] = (@ \ req[q].revoked) \cup {new}]
  /\ Goes(q, Over([pc |-> AfterCommit(req[q].kind, what)], [field \in {what} |-> new]))
  /\ made' = IF what = "key" THEN made ELSE new
  /\ UNCHANGED <<bootstraps, node, boot, begun, faults, admitted>>

\* The new row is inserted and all is committed, unless another transaction has
\* inserted one in between: the unique index of active rows rolls this one back.
Insert(q, what) ==
  LET new == IF what = "key" THEN req[q].key ELSE made + 1 IN
  /\ InFlight(q) /\ req[q].pc = Inserting(what)
  /\ IF active[what] \subseteq req[q].revoked
     THEN /\ active' = [active EXCEPT ![what] = {new}]
          /\ Goes(q, Over([pc |-> AfterCommit(req[q].kind, what)], [field \in {what} |-> new]))
          /\ made' = IF what = "key" THEN made ELSE new
     ELSE Goes(q, [pc |-> RolledBack(req[q].kind)]) /\ UNCHANGED <<active, made>>
  /\ UNCHANGED <<bootstraps, node, boot, begun, faults, admitted>>

-----------------------------------------------------------------------------
(* An operator rotates a credential and places it at the node by hand *)

BeginRotation(q, what) ==
  /\ Starts(q, [kind |-> what, pc |-> Revoking(what),
                key |-> IF what = "key" THEN made + 1 ELSE 0])
  /\ made' = IF what = "key" THEN made + 1 ELSE made
  /\ UNCHANGED <<bootstraps, active, node, boot, faults>>

Place(q) ==
  /\ At(q, {"token", "key"}, "place")
  /\ IF req[q].kind = "token" THEN env' = req[q].token /\ UNCHANGED authorized
     ELSE authorized' = req[q].key /\ UNCHANGED env
  /\ EndsWell(q)
  /\ UNCHANGED <<bootstraps, active, boot, counters>>

\* The rotation was refused, or the operator leaves the rest to a run.
EndRotation(q) ==
  /\ At(q, {"token", "key"}, "rejected") \/ At(q, {"token", "key"}, "place")
  /\ Ends(q)
  /\ UNCHANGED <<bootstraps, active, node, boot, counters, admitted>>

-----------------------------------------------------------------------------
(* A run of the runner *)

\* Mutant: rotate_trust mints as well, and does not write the env file.
ProvisionsAll(kind) == TRUE

\* TOKEN_PROVISION_ACTIONS
Provisions(kind) == kind = "deploy"

\* "deploy" stands for install_dependencies and update_binary.
BeginRun(q, kind) ==
  /\ Starts(q, [kind |-> kind, pc |-> "fetch"])
  /\ UNCHANGED <<bootstraps, active, node, boot, made, faults>>

\* The material: the active key, and for some actions a fresh token.
Fetch(q) ==
  /\ At(q, {"deploy", "trust"}, "fetch") /\ active["key"] # {}
  /\ \E key \in active["key"] :
       Goes(q, [pc |-> IF Provisions(req[q].kind) THEN "revoke token" ELSE "connect",
                key |-> key])
  /\ UNCHANGED <<bootstraps, active, node, boot, counters, admitted>>

\* The runner logs in with the key it fetched, or with a password if its
\* configuration has one, and the play installs the public key.
Connect(q) ==
  /\ At(q, {"deploy", "trust"}, "connect")
  /\ authorized' = req[q].key
  /\ IF req[q].kind = "trust" THEN EndsWell(q)
     ELSE Goes(q, [pc |-> "write"]) /\ UNCHANGED admitted
  /\ UNCHANGED <<bootstraps, active, env, boot, counters>>

\* The node lets the key in no more: the run fails.
Unreachable(q) ==
  /\ At(q, {"deploy", "trust"}, "connect") /\ authorized # req[q].key
  /\ Ends(q)
  /\ UNCHANGED <<bootstraps, active, node, boot, counters, admitted>>

\* The env file is written anew, without a token when none was minted.
WriteEnv(q) ==
  /\ At(q, {"deploy"}, "write")
  /\ env' = req[q].token
  /\ IF req[q].token = 0 THEN Ends(q) /\ UNCHANGED admitted ELSE EndsWell(q)
  /\ UNCHANGED <<bootstraps, active, authorized, boot, counters>>

-----------------------------------------------------------------------------
(* Faults *)

\* A store call fails, or a play.  The material route goes on when no token could
\* be minted; everybody else gives up.
Fails(q) ==
  /\ Fault /\ InFlight(q)
  /\ IF req[q].kind = "bootstrap" THEN Goes(q, [pc |-> "rejected"])
     ELSE IF req[q].pc \in {"revoke token", "insert token"}
     THEN Goes(q, [pc |-> RolledBack(req[q].kind)])
     ELSE Ends(q)
  /\ UNCHANGED <<bootstraps, active, node, boot, made, begun, admitted>>

\* The agent's bootstrap dies or times out, wherever the controller is with it.
AgentGivesUp ==
  /\ boot # Nobody /\ Fault /\ boot' = Nobody
  /\ UNCHANGED <<bootstraps, active, node, req, made, begun, admitted>>

\* The controller restarts: the runs whose material is fetched go on.
Restart ==
  /\ Fault
  /\ LET stays(q) == InFlight(q) /\ req[q].pc \in {"connect", "write", "place"} IN
     req' = [q \in Request |-> IF stays(q) THEN req[q] ELSE Idle]
  /\ boot' = Nobody
  /\ UNCHANGED <<bootstraps, active, node, made, begun, admitted>>

Next ==
  \/ \E t \in 1..MaxTokens : Issue(t) \/ Lapse(t)
  \/ \E q \in Request :
       \/ BeginBootstrap(q) \/ Consume(q) \/ Answer(q)
       \/ \E what \in {"token", "key"} :
            BeginRotation(q, what) \/ Revoke(q, what) \/ Insert(q, what)
       \/ Place(q) \/ EndRotation(q)
       \/ \E kind \in {"deploy", "trust"} : BeginRun(q, kind)
       \/ Fetch(q) \/ Connect(q) \/ Unreachable(q) \/ WriteEnv(q)
       \/ Fails(q)
  \/ AgentGivesUp \/ Restart

Spec == Init /\ [][Next]_vars

=============================================================================
