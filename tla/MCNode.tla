------------------------------- MODULE MCNode -------------------------------
(***************************************************************************)
(* The recorder's side of the system: AgentCapture (whole-file jobs),      *)
(* ChunkDelivery (chunked ones) and CacheRetention (what stays on its      *)
(* disk).  They share no state, so a behaviour is one of either, chosen by *)
(* the initial state.                                                      *)
(***************************************************************************)
EXTENDS AgentCapture, ChunkPromise, CachePromise, TLC

CONSTANTS a, b, c, Chunks, Deleting, Tries, ChunkFaults,
          v1, v2, loop     \* the workers and the main loop beside the cache

VARIABLES part, job, rows, put, pass, mark, agent, saved, chunkFaults,
          lock, take, cacheFaults

C == INSTANCE ChunkDelivery WITH faults <- chunkFaults, MaxFaults <- ChunkFaults

\* A job and a member that shares its capture; and a retry of the job.
Pair == {<<a, b>>, <<c>>}
Recordings == a :> 1 @@ b :> 2 @@ c :> 1

\* Takes under a policy by age and size, by free disk, and one that deletes at once.
Limit(age, bytes, free) == [age |-> age, bytes |-> bytes, free |-> free, now |-> FALSE]
Unlimited == 99
SomePolicies == <<"size", "disk", "upload">>
SomeLimits ==
  "size" :> Limit(1, 4, 0) @@ "disk" :> Limit(Unlimited, Unlimited, 3)
    @@ "upload" :> [Limit(Unlimited, Unlimited, 0) EXCEPT !.now = TRUE]

Cache == INSTANCE CacheRetention
  WITH state <- take, faults <- cacheFaults, Recording <- 1..3,
       Assigned <- <<{"size"}, {"disk", "upload"}, {"size"}>>, RawSize <- <<2, 1, 2>>, OutSize <- 1,
       Capacity <- 9, Worker <- {v1, v2}, Main <- loop, Nobody <- NoJob, NoTake <- NoJob,
       MaxTime <- 1, MaxFaults <- 1

ASSUME C!ChunkDeliveryAssumption
ASSUME Cache!CacheRetentionAssumption

chunkVars == <<rec, job, rows, items, kept, put, pass, mark, agent, local, saved,
               closed, guessed, chunkFaults>>
cacheVars ==
  <<clock, files, manifest, policy, lock, take, doing, cacheFaults, delivered, orphaned>>
allVars == <<part, vars, chunkVars, cacheVars>>

NodeInit ==
  /\ part \in {"agent", "chunks", "cache"} /\ Init /\ C!Init /\ Cache!Init
  /\ part # "cache" => policy[2] = "disk"

\* What a run can afford: the retry comes second, and with one fault at most.
RetryBounded == <<c>> \in queued' \/ (<<a, b>> \notin queued' /\ faults' < 2)

NodeNext ==
  \/ part = "agent" /\ Next /\ RetryBounded /\ UNCHANGED <<part, chunkVars, cacheVars>>
  \/ part = "chunks" /\ C!Next /\ UNCHANGED <<part, vars, cacheVars>>
  \/ part = "cache" /\ Cache!Next /\ UNCHANGED <<part, vars, chunkVars>>

\* The fairness of each module, for the behaviours that are its own.
Agent(A) == part = "agent" /\ A
Delivery(A) == part = "chunks" /\ A

NodeSpec ==
  /\ NodeInit /\ [][NodeNext]_allVars
  /\ WF_vars(Agent(MainStep)) /\ WF_vars(Agent(LinkReturns))
  /\ SF_vars(Agent(Tick))
  /\ SF_vars(Agent(RecoverUpload /\ state' # state))
  /\ SF_vars(Agent(RecoverFails /\ state' # state))
  /\ WF_chunkVars(Delivery(C!PutStep)) /\ WF_chunkVars(Delivery(C!PassStep))
  /\ WF_chunkVars(Delivery(C!MarkStep)) /\ WF_chunkVars(Delivery(C!AgentStep))

\* The properties of the parts that are instances, and the types of all.
NodeTypes == TypeOK /\ C!TypeOK /\ Cache!TypeOK
ChunksReconciled == C!ChunksReconciled
====
