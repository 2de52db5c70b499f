--------------------------- MODULE CredentialPromise ---------------------------
(***************************************************************************)
(* What the credentials of a node promise; how they are replaced is        *)
(* NodeEnrollment.                                                         *)
(***************************************************************************)
EXTENDS FiniteSets, Naturals

VARIABLES
  active,      \* rows without revokedAt: of node_credentials and node_ssh_credentials
  env,         \* the node: RAKKR_CONTROLLER_TOKEN in the agent's env file
  authorized,  \* the node: the key in authorized_keys
  admitted     \* history: whoever ended last left the node as it should be

\* A node keeps exactly one active token from its enrollment on and at most one
\* active key, whatever rotations, bootstraps and runs race or fail: none of them
\* leaves it locked out with none, and none leaves a stale one valid.
OneCredential ==
  Cardinality(active["token"]) = 1 /\ Cardinality(active["key"]) <= 1

\* A bootstrap or a deployment that ended well and met no other request leaves the
\* node admitted, whatever failed before: the token in its env file is the active
\* one, and so is the key it lets in.  Rotations that are placed and runs that only
\* renew trust keep it so ("restart_service and rotate_trust do not rewrite the
\* env, so they must not mint", runner.py).
AdmittedNode ==
  admitted => env \in active["token"] /\ authorized \in active["key"]

\* Requests that replace credentials in the database and at the node, which agree
\* on them one after the other, leave one of a kind and the node let in.
CredentialsKept == OneCredential /\ AdmittedNode
================================================================================
