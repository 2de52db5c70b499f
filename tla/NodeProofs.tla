------------------------------ MODULE NodeProofs ------------------------------
(***************************************************************************)
(* What a recorder and the controller keep of a recording after its        *)
(* capture and of each other, for any number of chunks, destinations,      *)
(* takes, workers, requests, devices, tries and faults.                    *)
(*                                                                         *)
(* No chunk of a chunked recording is lost, and a recording that reads     *)
(* `uploaded` is whole: ChunksKept of ChunkDelivery.  The inductive        *)
(* invariant says what the copies that the controller's requests, passes   *)
(* and markings carry across their awaits may claim: a chunk that a copy   *)
(* calls uploaded is at a destination, and a total that a copy carries is  *)
(* none or the true one as long as no total was guessed.                   *)
(*                                                                         *)
(* No file of a delivered take leaks from the recorder's cache:            *)
(* NothingLeaks of CacheRetention.  A sweep and a worker meet only at the  *)
(* manifest's lock, and whoever holds it has read the manifest as it is.   *)
(*                                                                         *)
(* What a sweep plans fits every policy and asks for no more: SweepFits.   *)
(* Sizes are counted in bytes, so that they add up by cardinality, and     *)
(* every induction is the search for a least counterexample.               *)
(*                                                                         *)
(* The credentials of a node (NodeEnrollment) and its audio interfaces     *)
(* (NodeInventory): what requests in flight, which have met or not, still  *)
(* know of rows they read some statements ago.                             *)
(***************************************************************************)
EXTENDS ChunkDelivery, CachePromise, CredentialPromise, InventoryPromise, FiniteSetTheorems,
        WellFoundedInduction, TLAPS

CONSTANTS
  Recording, Assigned, RawSize, OutSize, Capacity,
  Worker, Main, Nobody, NoTake, MaxTime, CacheFaults,
  Request, Kinds, MaxTokens, MaxBegun, MaxStoreFaults,
  Port, Layouts, MaxCount, Label, Unlabelled, Reporter, Editor, MaxReports, MaxLabelEdits

VARIABLES
  lock, state, cacheFaults,
  bootstraps, boot, enrolling, made, begun, enrollFaults,
  reporting, storeUp, reports, labelEdits, storeFaults

Cache == INSTANCE CacheRetention WITH faults <- cacheFaults, MaxFaults <- CacheFaults
Enrollment == INSTANCE NodeEnrollment
  WITH req <- enrolling, faults <- enrollFaults, MaxFaults <- MaxStoreFaults
Inventory == INSTANCE NodeInventory
  WITH proc <- reporting, up <- storeUp, faults <- storeFaults, edits <- labelEdits,
       MaxFaults <- MaxStoreFaults, MaxEdits <- MaxLabelEdits

\* The types of the records.
Statuses == Preserved \cup {"none", "failed"}
ChunkRow == [status : Statuses, total : Nat]
ChunkRows == [Chunk -> ChunkRow]
ItemSets == [Chunk -> [Dest -> SUBSET {"queued", "succeeded", "failed"}]]
Recs == Secured \cup {"recording", "completed", "failed"}

\* TypeOK with the fields of the records: the controller's stores,
StoreTypes ==
  /\ rec \in Recs
  /\ job \in {"running"} \cup Ended
  /\ rows \in ChunkRows
  /\ items \in ItemSets
  /\ kept \subseteq Chunk

\* the chunk upload,
PutTypes ==
  put \in [pc : {"idle", "store", "upsert", "enqueue", "list", "stamp", "cached",
                 "complete", "accepted", "refused"},
           chunk : Chunk, total : Nat, rec : Recs, row : ChunkRow, rows : ChunkRows,
           todo : SUBSET Dest]

\* the upload runner's pass,
PassTypes ==
  /\ pass \in [pc : {"idle", "work", "rows", "reread", "chunks", "final", "save"},
               items : ItemSets, rows : ChunkRows, status : {"none", "partial", "uploaded"}]
  /\ pass.pc = "save" => pass.status # "none"

\* the marking of a recording whose job ended,
MarkTypes ==
  mark \in [pc : {"idle", "chunks", "save"}, end : {"none"} \cup Ended,
            preserved : BOOLEAN, had : BOOLEAN]

\* and the agent with its state file.
Agents ==
  [pc : {"capturing", "sending", "finish", "done", "down", "recovering", "resending"},
   next : Nat \ {0}, chunk : Chunk, total : Nat, tries : Nat, up : Nat,
   pending : SUBSET Chunk, todo : SUBSET Chunk, told : BOOLEAN]

Saves ==
  [status : {"running", "partial", "completed", "failed", "cancelled"},
   up : Nat, pending : SUBSET Chunk, total : Nat]

NodeTypes ==
  /\ closed \subseteq Chunk /\ local \subseteq Chunk
  /\ agent \in Agents /\ saved \in Saves

Types == StoreTypes /\ PutTypes /\ PassTypes /\ MarkTypes /\ NodeTypes

\* The chunks that a destination has, and with them those in the cache.
Arrived == {k \in Chunk : Delivered(k)}
Safe == {k \in Chunk : k \in kept \/ Delivered(k)}

\* The phases of an upload whose object is stored.
InStore == {"upsert", "enqueue", "list", "stamp", "cached"}

\* The chunk of a request is safe from the storing of its object to its answer, and
\* the agent that waits for an answer waits for that of its own chunk.
Requests ==
  /\ put.pc \in InStore => put.chunk \in Safe
  /\ agent.pc \in {"capturing", "finish", "done", "recovering"} => put.pc = "idle"
  /\ agent.pc \in {"sending", "resending"} =>
       /\ put.pc \in InStore \cup {"store"} => put.chunk = agent.chunk
       /\ put.pc \in {"complete", "accepted"} => agent.chunk \in Safe

\* What a row, or a copy of one, calls uploaded is at a destination; what a pass
\* listed as delivered still is.
Witnessed ==
  /\ \A k \in Chunk, d \in Dest :
       "succeeded" \in pass.items[k][d] => "succeeded" \in items[k][d]
  /\ \A k \in Chunk : rows[k].status = "uploaded" => k \in Arrived
  /\ \A k \in Chunk : pass.rows[k].status = "uploaded" => k \in Arrived
  /\ \A k \in Chunk : put.rows[k].status = "uploaded" => k \in Arrived
  /\ put.row.status = "uploaded" => put.chunk \in Arrived

\* A total is not known, or the true one.
Exact(total) == total \in {0, Chunks}

\* The totals of the rows, of their copies and of the upload in flight.
TrueTotals ==
  /\ \A k \in Chunk : Exact(rows[k].total) /\ Exact(pass.rows[k].total) /\ Exact(put.rows[k].total)
  /\ Exact(put.row.total) /\ Exact(put.total)

\* The totals the agent sends: true from its state file on.  A recovery that has
\* nothing to send may carry any.
AgentTotals ==
  /\ agent.pc = "down" => saved.total # 0
  /\ agent.pc \notin {"recovering", "resending"} => Exact(agent.total)
  /\ agent.pc = "resending" => Exact(agent.total) /\ Exact(saved.total)
  /\ agent.pc = "recovering" =>
       \/ agent.todo = {} /\ agent.pending = {}
       \/ Exact(agent.total) /\ Exact(saved.total)
  /\ saved.pending # {} => Exact(saved.total)

\* A recording that is uploaded, or will be written so, is whole.
Whole ==
  /\ rec = "uploaded" => Arrived = Chunk
  /\ put.rec = "uploaded" => Arrived = Chunk
  /\ pass.status = "uploaded" => Arrived = Chunk

\* As long as no total was guessed.
WhenSure == guessed = {} => TrueTotals /\ AgentTotals /\ Whole

\* The inductive invariant.
IInv == Types /\ ChunkKept /\ Requests /\ Witnessed /\ WhenSure

-----------------------------------------------------------------------------

\* What the assumption on the constants says of the chunks.
LEMMA Consts ==
  ASSUME ChunkDeliveryAssumption
  PROVE  /\ Chunks \in Nat /\ Chunks >= 1 /\ Chunk = 1..Chunks /\ 1 \in Chunk
         /\ Chunks \in Chunk /\ Chunk \subseteq Nat
         /\ IsFiniteSet(Chunk) /\ Cardinality(Chunk) = Chunks
<1>1. Chunks \in Nat /\ Chunks >= 1
  BY DEF ChunkDeliveryAssumption
<1>2. IsFiniteSet(1..Chunks) /\ Cardinality(1..Chunks) = Chunks
  BY <1>1, FS_Interval
<1> QED
  BY <1>1, <1>2 DEF Chunk

\* The highest chunk of a set is one of its chunks (recovered_chunk_total).
LEMMA HighestIsIn ==
  ASSUME ChunkDeliveryAssumption, NEW S \in SUBSET Chunk, S # {}
  PROVE  Highest(S) \in S
<1> DEFINE T == {Chunks - k : k \in S}
<1>1. \A k \in S : k \in Nat /\ k <= Chunks /\ Chunks \in Nat
  BY Consts
<1>2. T \subseteq Nat /\ T # {}
  BY <1>1
<1>3. PICK n \in T : \A m \in T : <<m, n>> \notin OpToRel(<, Nat)
  BY <1>2, NatLessThanWellFounded, WFMin
<1>4. \A m \in T : n <= m
  <2> SUFFICES ASSUME NEW m \in T, ~(n <= m)
               PROVE  FALSE
    OBVIOUS
  <2> HIDE DEF T
  <2>1. m \in Nat /\ n \in Nat /\ m < n
    BY <1>2
  <2>2. <<m, n>> \in OpToRel(<, Nat)
    BY <2>1 DEF OpToRel
  <2> QED
    BY <1>3, <2>2
<1>5. PICK k \in S : Chunks - k = n
  BY <1>3
<1>6. ASSUME NEW other \in S
      PROVE  other <= k
  <2>1. n <= Chunks - other
    BY <1>4
  <2> HIDE DEF T
  <2> QED
    BY <1>1, <1>5, <2>1
<1> QED
  BY <1>5, <1>6 DEF Highest

\* A recovered total is a number.
LEMMA TotalIsNatural ==
  ASSUME ChunkDeliveryAssumption, NodeTypes
  PROVE  RecoveredTotal(saved) \in Nat
<1>1. saved.total \in Nat /\ saved.up \in Nat /\ saved.pending \in SUBSET Chunk
  BY DEF NodeTypes, Saves
<1>2. Cardinality(saved.pending) \in Nat
  BY <1>1, Consts, FS_Subset, FS_CardinalityType
<1>3. saved.pending # {} => Highest(saved.pending) \in Nat
  BY <1>1, Consts, HighestIsIn
<1> QED
  BY <1>1, <1>2, <1>3 DEF RecoveredTotal, Larger

\* The invariant holds initially.
LEMMA InitIInv ==
  ASSUME ChunkDeliveryAssumption, Init
  PROVE  IInv
<1> USE Consts DEF Init
<1>1. NoRow \in ChunkRow /\ NoRows \in ChunkRows /\ NoItems \in ItemSets
  BY DEF NoRow, NoRows, NoItems, ChunkRow, ChunkRows, ItemSets, Statuses
<1>2. Types
  BY <1>1 DEF Types, StoreTypes, PutTypes, PassTypes, MarkTypes, NodeTypes, Agents, Saves,
     Recs, NoPut, NoPass, NoMark, Recorder, Ended
<1>3. ChunkKept /\ Requests
  BY DEF ChunkKept, Requests, InStore, NoPut, Recorder
<1>4. Witnessed
  BY DEF Witnessed, NoRows, NoRow, NoPass, NoPut, NoItems
<1>5. WhenSure
  BY DEF WhenSure, TrueTotals, AgentTotals, Whole, Exact, NoRows, NoRow, NoPut, NoPass, Recorder
<1> QED
  BY <1>2, <1>3, <1>4, <1>5 DEF IInv

-----------------------------------------------------------------------------
(* Types *)

\* The empty records have their types.
LEMMA Shapes ==
  ASSUME ChunkDeliveryAssumption
  PROVE  /\ NoRow \in ChunkRow /\ NoRows \in ChunkRows /\ NoItems \in ItemSets
         /\ NoPut \in [pc : {"idle"}, chunk : Chunk, total : Nat, rec : Recs,
                       row : ChunkRow, rows : ChunkRows, todo : SUBSET Dest]
         /\ NoPass \in [pc : {"idle"}, items : ItemSets, rows : ChunkRows, status : {"none"}]
<1>1. NoRow \in ChunkRow /\ NoRows \in ChunkRows /\ NoItems \in ItemSets
  BY DEF NoRow, NoRows, NoItems, ChunkRow, ChunkRows, ItemSets, Statuses
<1> QED
  BY <1>1, Consts DEF NoPut, NoPass, Recs

\* The steps of a chunk upload keep the types.
LEMMA PutStepTypes ==
  ASSUME ChunkDeliveryAssumption, Types, PutStep
  PROVE  Types'
<1> USE DEF Types, Put, PutStays, controller, node
<1>0. put.chunk \in Chunk /\ put.total \in Nat /\ put.rec \in Recs /\ put.row \in ChunkRow
      /\ put.rows \in ChunkRows /\ put.todo \in SUBSET Dest
  BY DEF PutTypes
<1>1. CASE PutScope
  <2>1. agent.chunk \in Chunk /\ agent.total \in Nat /\ rec \in Recs
    BY DEF NodeTypes, Agents, StoreTypes
  <2>2. PutTypes'
    BY <1>1, <2>1, Shapes DEF PutScope, PutTypes
  <2> QED
    BY <1>1, <2>2 DEF PutScope, StoreTypes, PassTypes, MarkTypes, NodeTypes
<1>2. CASE PutStore
  <2>1. rows[put.chunk] \in ChunkRow
    BY <1>0 DEF StoreTypes, ChunkRows
  <2>2. PutTypes'
    BY <1>2, <2>1, Shapes DEF PutStore, PutTypes
  <2>3. kept' \subseteq Chunk
    BY <1>2, <1>0 DEF PutStore, StoreTypes
  <2> QED
    BY <1>2, <2>2, <2>3 DEF PutStore, StoreTypes, PassTypes, MarkTypes, NodeTypes
<1>3. CASE PutUpsert
  <2>1. Stored(put.row, put.total) \in ChunkRow
    BY <1>0 DEF Stored, ChunkRow, Statuses, Preserved
  <2>2. rows' \in ChunkRows
    BY <1>3, <2>1 DEF PutUpsert, StoreTypes, ChunkRows
  <2>3. PutTypes'
    BY <1>3, Shapes DEF PutUpsert, PutTypes
  <2> QED
    BY <1>3, <2>2, <2>3 DEF PutUpsert, StoreTypes, PassTypes, MarkTypes, NodeTypes
<1>4. CASE PutEnqueue
  <2>1. items' \in ItemSets
    <3>1. CASE items' = items
      BY <3>1 DEF StoreTypes
    <3>2. CASE \E d \in put.todo : items' = [items EXCEPT ![put.chunk][d] = @ \cup {"queued"}]
      BY <3>2, <1>0 DEF StoreTypes, ItemSets
    <3> QED
      BY <1>4, <3>1, <3>2 DEF PutEnqueue
  <2>2. PutTypes'
    BY <1>4, Shapes DEF PutEnqueue, PutTypes
  <2> QED
    BY <1>4, <2>1, <2>2 DEF PutEnqueue, StoreTypes, PassTypes, MarkTypes, NodeTypes
<1>5. CASE PutList
  <2>1. PutTypes'
    BY <1>5 DEF PutList, PutTypes, StoreTypes
  <2> QED
    BY <1>5, <2>1 DEF PutList, StoreTypes, PassTypes, MarkTypes, NodeTypes
<1>6. CASE PutStamp
  <2>1. \A k \in Chunk : [put.rows[k] EXCEPT !.total = put.total] \in ChunkRow
    BY <1>0 DEF ChunkRows, ChunkRow
  <2>2. Stamped(put.rows, put.total) \in ChunkRows
    BY <2>1 DEF Stamped, StoreTypes, ChunkRows
  <2>3. PutTypes'
    BY <1>6, Shapes DEF PutStamp, PutTypes
  <2> QED
    BY <1>6, <2>2, <2>3 DEF PutStamp, StoreTypes, PassTypes, MarkTypes, NodeTypes
<1>7. CASE PutCached
  <2>1. rec' \in Recs
    BY <1>7, <1>0 DEF PutCached, Recs, Secured
  <2>2. PutTypes'
    BY <1>7, Shapes DEF PutCached, PutTypes
  <2> QED
    BY <1>7, <2>1, <2>2 DEF PutCached, StoreTypes, PassTypes, MarkTypes, NodeTypes
<1>8. CASE PutComplete
  <2>1. job' \in {"running"} \cup Ended
    BY <1>8 DEF PutComplete, StoreTypes, Ended
  <2>2. PutTypes'
    BY <1>8, Shapes DEF PutComplete, PutTypes
  <2> QED
    BY <1>8, <2>1, <2>2 DEF PutComplete, StoreTypes, PassTypes, MarkTypes, NodeTypes
<1> QED
  BY <1>1, <1>2, <1>3, <1>4, <1>5, <1>6, <1>7, <1>8 DEF PutStep

\* A settled row is a row.
LEMMA SettledIsRow ==
  ASSUME ChunkDeliveryAssumption, PassTypes, NEW k \in Chunk
  PROVE  Settled(k) \in ChunkRow
<1>1. pass.rows[k] \in ChunkRow
  BY DEF PassTypes, ChunkRows
<1>2. ChunkStatus(Listed(k)) \in Statuses
  BY DEF ChunkStatus, Statuses, Preserved
<1> QED
  BY <1>1, <1>2 DEF Settled, ChunkRow

\* The steps of a pass keep the types.
LEMMA PassStepTypes ==
  ASSUME ChunkDeliveryAssumption, Types, PassStep \/ RetryItem
  PROVE  Types'
<1> USE DEF Types, Pass, PassStays, node
<1>1. CASE Attempt
  <2>1. items' \in ItemSets
    BY <1>1 DEF Attempt, StoreTypes, ItemSets
  <2>2. PassTypes'
    BY <1>1, Shapes DEF Attempt, PassTypes
  <2> QED
    BY <1>1, <2>1, <2>2 DEF Attempt, StoreTypes, PutTypes, MarkTypes, NodeTypes
<1>2. CASE PassList
  <2>1. PassTypes'
    BY <1>2 DEF PassList, PassTypes, StoreTypes
  <2> QED
    BY <1>2, <2>1 DEF PassList, StoreTypes, PutTypes, MarkTypes, NodeTypes
<1>3. CASE PassRows
  <2>1. PassTypes'
    BY <1>3 DEF PassRows, PassTypes, StoreTypes
  <2> QED
    BY <1>3, <2>1 DEF PassRows, StoreTypes, PutTypes, MarkTypes, NodeTypes
<1>4. CASE PassReread
  <2>1. PassTypes'
    BY <1>4, Shapes DEF PassReread, PassTypes
  <2> QED
    BY <1>4, <2>1 DEF PassReread, StoreTypes, PutTypes, MarkTypes, NodeTypes
<1>5. CASE PassChunks
  <2>1. \A k \in Chunk : Settled(k) \in ChunkRow
    BY SettledIsRow
  <2>2. [k \in Chunk |-> Settled(k)] \in ChunkRows
    BY <2>1 DEF ChunkRows
  <2>3. PassTypes'
    BY <1>5, <2>2, Shapes DEF PassChunks, PassTypes
  <2>4. rows' \in ChunkRows
    BY <1>5, <2>1 DEF PassChunks, ChunkRows, StoreTypes
  <2>5. kept' \subseteq Chunk
    BY <1>5 DEF PassChunks, StoreTypes
  <2> QED
    BY <1>5, <2>3, <2>4, <2>5 DEF PassChunks, StoreTypes, PutTypes, MarkTypes, NodeTypes
<1>6. CASE PassJob
  <2>1. Finalization(pass.rows, job \in Ended) \in {"none", "partial", "uploaded"}
    BY DEF Finalization
  <2>2. PassTypes'
    BY <1>6, <2>1, Shapes DEF PassJob, PassTypes
  <2> QED
    BY <1>6, <2>2 DEF PassJob, StoreTypes, PutTypes, MarkTypes, NodeTypes
<1>7. CASE PassSave
  <2>1. PassTypes'
    BY <1>7, Shapes DEF PassSave, PassTypes
  <2>2. rec' \in Recs
    BY <1>7 DEF PassSave, PassTypes, Recs, Secured
  <2> QED
    BY <1>7, <2>1, <2>2 DEF PassSave, StoreTypes, PutTypes, MarkTypes, NodeTypes
<1>8. CASE RetryItem
  <2>1. items' \in ItemSets
    BY <1>8 DEF RetryItem, StoreTypes, ItemSets
  <2> QED
    BY <1>8, <2>1 DEF RetryItem, StoreTypes, PassTypes, PutTypes, MarkTypes, NodeTypes
<1> QED
  BY <1>1, <1>2, <1>3, <1>4, <1>5, <1>6, <1>7, <1>8 DEF PassStep

\* The end of a job keeps the types.
LEMMA EndTypes ==
  ASSUME StoreTypes, MarkTypes, NEW status \in Ended, End(status)
  PROVE  job' \in {"running"} \cup Ended /\ MarkTypes'
BY DEF End, StoreTypes, MarkTypes, NoMark, AnySecured

\* So do the marking, the lease runner and the retry of an item.
LEMMA EndingStepTypes ==
  ASSUME ChunkDeliveryAssumption, Types, MarkStep \/ Expire
  PROVE  Types'
<1> USE DEF Types, controller, node
<1>1. CASE Expire
  <2>1. job' \in {"running"} \cup Ended /\ MarkTypes'
    BY <1>1, EndTypes DEF Expire, Ended
  <2> QED
    BY <1>1, <2>1 DEF Expire, StoreTypes, PutTypes, PassTypes, NodeTypes
<1>2. CASE MarkChunks
  <2>1. MarkTypes'
    BY <1>2 DEF MarkChunks, MarkTypes, AnySecured
  <2> QED
    BY <1>2, <2>1 DEF MarkChunks, StoreTypes, PutTypes, PassTypes, NodeTypes
<1>3. CASE MarkSave
  <2>1. MarkTypes'
    BY <1>3 DEF MarkSave, MarkTypes, NoMark
  <2>2. rec' \in Recs
    BY <1>3 DEF MarkSave, TerminalStatus, Recs, Secured
  <2> QED
    BY <1>3, <2>1, <2>2 DEF MarkSave, StoreTypes, PutTypes, PassTypes, NodeTypes
<1> QED
  BY <1>1, <1>2, <1>3 DEF MarkStep

AgentAct ==
  AgentStep \/ CloseNothing \/ CaptureFails \/ Stop \/ Crash

\* So do the steps of the agent.
LEMMA AgentStepTypes ==
  ASSUME ChunkDeliveryAssumption, Types, AgentAct
  PROVE  Types'
<1> USE DEF Types, DeliveryStays, AgentStays, controller, node
<1>0. /\ agent.next \in Nat \ {0} /\ agent.chunk \in Chunk /\ agent.total \in Nat
      /\ agent.tries \in Nat /\ agent.up \in Nat
      /\ agent.pending \subseteq Chunk /\ agent.todo \subseteq Chunk
      /\ saved.up \in Nat /\ saved.total \in Nat /\ saved.pending \subseteq Chunk
      /\ agent \in Agents /\ saved \in Saves /\ closed \subseteq Chunk
      /\ local \subseteq Chunk
  BY DEF NodeTypes, Agents, Saves
<1>00. /\ [Recorder EXCEPT !.pc = "done"] \in Agents
       /\ [Recorder EXCEPT !.pc = "down"] \in Agents
  <2>1. Recorder \in Agents
    <3>1. 1 \in Nat \ {0} /\ 0 \in Nat
      OBVIOUS
    <3> QED
      BY <3>1, Consts DEF Recorder, Agents
  <2> QED
    BY <2>1 DEF Agents
<1>000. ASSUME agent' \in Agents, saved' \in Saves, closed' \subseteq Chunk, local' \subseteq Chunk
        PROVE  NodeTypes'
  BY <1>000 DEF NodeTypes, Agents, Saves
<1>p. ASSUME put' = NoPut
      PROVE  PutTypes'
  BY <1>p, Shapes DEF PutTypes
<1>1. CASE CloseChunk
  <2>1. agent.next \in Chunk /\ agent.next + 1 \in Nat /\ Chunks \in Nat
    BY <1>0, <1>1, Consts DEF CloseChunk
  <2>2. agent' \in Agents
    <3> DEFINE total == IF agent.next = Chunks THEN Chunks ELSE 0
               pc == IF agent.next = Chunks THEN "finish" ELSE agent.pc
    <3>1. total \in Nat /\ agent.next + 1 \in Nat \ {0} /\ 0 \in Nat
      BY <1>0, <2>1
    <3>2. pc \in {"finish", "capturing"}
      BY <1>1 DEF CloseChunk
    <3>3. \/ agent' = [agent EXCEPT !.pc = "sending", !.chunk = agent.next,
                                   !.next = agent.next + 1, !.tries = 0, !.total = total]
          \/ agent' = [agent EXCEPT !.pc = pc, !.next = agent.next + 1]
      BY <1>1 DEF CloseChunk
    <3> HIDE DEF total, pc
    <3> QED
      BY <1>0, <2>1, <3>1, <3>2, <3>3 DEF Agents
  <2>3. closed' \subseteq Chunk /\ local' \subseteq Chunk
    BY <1>0, <1>1, <2>1 DEF CloseChunk
  <2>4. NodeTypes'
    BY <1>0, <1>1, <1>000, <2>2, <2>3 DEF CloseChunk
  <2> QED
    BY <1>1, <2>4 DEF CloseChunk, StoreTypes, PutTypes, PassTypes, MarkTypes
<1>2. CASE Answer
  <2>1. agent' \in Agents /\ saved' \in Saves /\ local' \subseteq Chunk
    <3>1. PICK ok \in BOOLEAN :
             IF ~ok /\ agent.tries + 1 < Tries
             THEN agent' = [agent EXCEPT !.tries = @ + 1] /\ UNCHANGED <<local, saved>>
             ELSE LET k == agent.chunk
                      up == IF ok THEN agent.up + 1 ELSE agent.up
                      pending == IF ok THEN agent.pending ELSE agent.pending \cup {k} IN
                  /\ agent' = [agent EXCEPT
                                 !.pc = IF k = Chunks THEN "finish" ELSE "capturing",
                                 !.up = up, !.pending = pending, !.told = ok /\ agent.total # 0]
                  /\ local' = AfterSend(ok)
                  /\ Save("running", up, pending, agent.total)
      BY <1>2 DEF Answer
    <3>2. CASE ~ok /\ agent.tries + 1 < Tries
      BY <1>0, <3>1, <3>2 DEF Agents
    <3>3. CASE ~(~ok /\ agent.tries + 1 < Tries)
      <4> DEFINE up == IF ok THEN agent.up + 1 ELSE agent.up
                 pending == IF ok THEN agent.pending ELSE agent.pending \cup {agent.chunk}
      <4>1. up \in Nat /\ pending \in SUBSET Chunk
        BY <1>0
      <4>2. /\ agent' = [agent EXCEPT
                          !.pc = IF agent.chunk = Chunks THEN "finish" ELSE "capturing",
                          !.up = up, !.pending = pending, !.told = ok /\ agent.total # 0]
            /\ local' = AfterSend(ok)
            /\ saved' = [status |-> "running", up |-> up, pending |-> pending,
                         total |-> agent.total]
        BY <3>1, <3>3 DEF Save
      <4> HIDE DEF up, pending
      <4>3. agent' \in Agents
        BY <1>0, <4>1, <4>2 DEF Agents
      <4>4. saved' \in Saves
        BY <1>0, <4>1, <4>2 DEF Saves
      <4> QED
        BY <1>0, <4>2, <4>3, <4>4 DEF AfterSend
    <3> QED
      BY <3>2, <3>3
  <2>2. closed' = closed /\ put' = NoPut
    BY <1>2 DEF Answer
  <2>3. NodeTypes' /\ PutTypes'
    BY <1>0, <1>000, <1>p, <2>1, <2>2
  <2> QED
    BY <1>2, <2>3 DEF Answer, StoreTypes, PassTypes, MarkTypes
<1>3. CASE Finish
  <2>1. agent' \in Agents /\ UNCHANGED <<closed, local>>
    BY <1>3, <1>00 DEF Finish
  <2>2. (IF agent.next > Chunks THEN Chunks ELSE agent.up) \in Nat
    BY <1>0, Consts
  <2>3. saved' \in Saves
    BY <1>0, <1>3, <2>2 DEF Finish, Save, Saves
  <2>4. job' \in {"running"} \cup Ended /\ MarkTypes'
    BY <1>3, EndTypes DEF Finish, Ended, StoreTypes, MarkTypes
  <2>5. NodeTypes'
    BY <1>0, <1>000, <2>1, <2>3
  <2> QED
    BY <1>3, <2>4, <2>5 DEF Finish, StoreTypes, PutTypes, PassTypes
<1>4. CASE Unanswered
  BY <1>4, <1>p DEF Unanswered, StoreTypes, PassTypes, MarkTypes, NodeTypes
<1>5. CASE Recover
  <2>1. RecoveredTotal(saved) \in Nat /\ saved.pending \cap local \in SUBSET Chunk
    BY <1>0, TotalIsNatural
  <2>2. agent' \in Agents
    BY <1>0, <1>5, <2>1 DEF Recover, Agents
  <2>3. NodeTypes'
    BY <1>0, <1>5, <1>000, <2>2 DEF Recover
  <2> QED
    BY <1>5, <2>3 DEF Recover, StoreTypes, PutTypes, PassTypes, MarkTypes
<1>6. CASE Resend
  <2>1. agent' \in Agents
    BY <1>0, <1>6 DEF Resend, Agents
  <2>2. NodeTypes'
    BY <1>0, <1>6, <1>000, <2>1 DEF Resend
  <2> QED
    BY <1>6, <2>2 DEF Resend, StoreTypes, PutTypes, PassTypes, MarkTypes
<1>7. CASE Reanswer
  <2>1. agent' \in Agents
    <3> DEFINE up == IF put.pc = "accepted" THEN agent.up + 1 ELSE agent.up
               pending == IF put.pc = "accepted" THEN agent.pending
                          ELSE agent.pending \cup {agent.chunk}
               todo == agent.todo \ {agent.chunk}
    <3>1. up \in Nat /\ pending \in SUBSET Chunk /\ todo \in SUBSET Chunk
      BY <1>0
    <3>2. agent' = [agent EXCEPT !.pc = "recovering", !.todo = todo, !.up = up,
                                 !.pending = pending]
      BY <1>7 DEF Reanswer
    <3> HIDE DEF up, pending, todo
    <3> QED
      BY <1>0, <3>1, <3>2 DEF Agents
  <2>2. local' \subseteq Chunk
    BY <1>0, <1>7 DEF Reanswer, AfterSend
  <2>3. NodeTypes' /\ PutTypes'
    BY <1>0, <1>7, <1>000, <1>p, <2>1, <2>2 DEF Reanswer
  <2> QED
    BY <1>7, <2>3 DEF Reanswer, StoreTypes, PassTypes, MarkTypes
<1>8. CASE Recovered
  <2>1. agent' \in Agents
    BY <1>8, <1>00 DEF Recovered
  <2>2. saved' \in Saves
    BY <1>0, <1>8 DEF Recovered, Save, Saves
  <2>3. job' \in {"running"} \cup Ended /\ MarkTypes'
    BY <1>8, EndTypes DEF Recovered, Ended, StoreTypes, MarkTypes
  <2>4. NodeTypes'
    BY <1>0, <1>8, <1>000, <2>1, <2>2 DEF Recovered
  <2> QED
    BY <1>8, <2>3, <2>4 DEF Recovered, StoreTypes, PutTypes, PassTypes
<1>9. CASE CloseNothing
  <2>1. agent' \in Agents
    BY <1>0, <1>9 DEF CloseNothing, Agents
  <2>2. NodeTypes'
    BY <1>0, <1>9, <1>000, <2>1 DEF CloseNothing
  <2> QED
    BY <1>9, <2>2 DEF CloseNothing, StoreTypes, PutTypes, PassTypes, MarkTypes
<1>10. CASE CaptureFails
  <2>1. agent' \in Agents
    BY <1>10, <1>00 DEF CaptureFails
  <2>2. saved' \in Saves
    BY <1>0, <1>10 DEF CaptureFails, Save, Saves
  <2>3. job' \in {"running"} \cup Ended /\ MarkTypes'
    BY <1>10, EndTypes DEF CaptureFails, Ended, StoreTypes, MarkTypes
  <2>4. NodeTypes'
    BY <1>0, <1>10, <1>000, <2>1, <2>2 DEF CaptureFails
  <2> QED
    BY <1>10, <2>3, <2>4 DEF CaptureFails, StoreTypes, PutTypes, PassTypes
<1>11. CASE Stop
  <2>1. agent' \in Agents
    BY <1>11, <1>00 DEF Stop
  <2>2. saved' \in Saves
    BY <1>0, <1>11 DEF Stop, Save, Saves
  <2>3. job' \in {"running"} \cup Ended /\ MarkTypes'
    BY <1>11, EndTypes DEF Stop, Ended, StoreTypes, MarkTypes
  <2>4. NodeTypes'
    BY <1>0, <1>11, <1>000, <2>1, <2>2 DEF Stop
  <2> QED
    BY <1>11, <2>3, <2>4 DEF Stop, StoreTypes, PutTypes, PassTypes
<1>12. CASE Crash
  <2>1. NodeTypes'
    BY <1>0, <1>12, <1>00, <1>000 DEF Crash
  <2> QED
    BY <1>12, <2>1 DEF Crash, StoreTypes, PutTypes, PassTypes, MarkTypes
<1> QED
  BY <1>1, <1>2, <1>3, <1>4, <1>5, <1>6, <1>7, <1>8, <1>9, <1>10, <1>11, <1>12
  DEF AgentAct, AgentStep

\* Every step keeps the types.
LEMMA StepTypes ==
  ASSUME ChunkDeliveryAssumption, Types, [Next]_vars
  PROVE  Types'
<1>1. CASE UNCHANGED vars
  BY <1>1 DEF vars, Types, StoreTypes, PutTypes, PassTypes, MarkTypes, NodeTypes
<1>2. CASE Next
  BY <1>2, PutStepTypes, PassStepTypes, EndingStepTypes, AgentStepTypes DEF Next, AgentAct
<1> QED
  BY <1>1, <1>2

-----------------------------------------------------------------------------
(* What is delivered stays so. *)

\* What a destination has it keeps.
LEMMA DeliveryLasts ==
  ASSUME ChunkDeliveryAssumption, Types, [Next]_vars
  PROVE  \A k \in Chunk, d \in Dest :
           "succeeded" \in items[k][d] => "succeeded" \in items'[k][d]
<1> USE DEF ItemSets
<1>0. items \in ItemSets
  BY DEF Types, StoreTypes
<1>1. CASE UNCHANGED items
  BY <1>1
<1>2. CASE PutEnqueue
  <2>1. items' = items \/ \E k \in Chunk, d \in Dest :
          items' = [items EXCEPT ![k][d] = @ \cup {"queued"}]
    BY <1>2 DEF PutEnqueue, Types, PutTypes
  <2> QED
    BY <1>0, <2>1
<1>3. CASE Attempt
  <2>1. PICK k \in Chunk, d \in Dest, result \in {"succeeded", "failed"} :
          items' = [items EXCEPT ![k][d] = (@ \ {"queued"}) \cup {result}]
    BY <1>3 DEF Attempt
  <2> QED
    BY <1>0, <2>1
<1>4. CASE RetryItem
  <2>1. PICK k \in Chunk, d \in Dest :
          items' = [items EXCEPT ![k][d] = (@ \ {"failed"}) \cup {"queued"}]
    BY <1>4 DEF RetryItem
  <2> QED
    BY <1>0, <2>1
<1> QED
  BY <1>1, <1>2, <1>3, <1>4
  DEF Next, vars, PutStep, PassStep, MarkStep, AgentStep, PutScope, PutStore, PutUpsert, PutList,
      PutStamp, PutCached, PutComplete, PassList, PassRows, PassReread, PassChunks, PassJob,
      PassSave, MarkChunks, MarkSave, CloseChunk, Answer, Finish, Unanswered, Recover, Resend,
      Reanswer, Recovered, CloseNothing, CaptureFails, Stop, Crash, Expire, controller,
      DeliveryStays, AgentStays

\* A chunk that arrived stays so.
LEMMA StaysArrived ==
  ASSUME ChunkDeliveryAssumption, Types, [Next]_vars
  PROVE  Arrived \subseteq Arrived'
<1>1. \A i \in Chunk, d \in Dest :
        "succeeded" \in items[i][d] => "succeeded" \in items'[i][d]
  BY DeliveryLasts
<1> QED
  BY <1>1 DEF Arrived, Delivered

\* A chunk released from the cache is delivered.
LEMMA ReleasedArrived ==
  ASSUME ChunkDeliveryAssumption, Types, Witnessed, NEW k \in Chunk, Releasable(k)
  PROVE  k \in Arrived
<1>1. PICK d \in Dest : pass.items[k][d] # {}
  BY DEF Releasable, ChunkDeliveryAssumption
<1>2. pass.items[k][d] \subseteq {"succeeded"}
  BY DEF Releasable, Listed
<1>3. "succeeded" \in pass.items[k][d]
  BY <1>1, <1>2
<1> QED
  BY <1>3 DEF Arrived, Delivered, Witnessed

\* A chunk that is safe stays so: the cache releases only what arrived.
LEMMA StaysSafe ==
  ASSUME ChunkDeliveryAssumption, Types, Witnessed, [Next]_vars
  PROVE  Safe \subseteq Safe'
<1> SUFFICES ASSUME NEW k \in Safe
             PROVE  k \in Safe'
  OBVIOUS
<1>0. k \in Chunk /\ (k \in kept \/ k \in Arrived)
  BY DEF Safe, Arrived
<1>i. ASSUME k \in kept' \/ k \in Arrived'
      PROVE  k \in Safe'
  BY <1>0, <1>i DEF Safe, Arrived
<1>1. CASE k \in Arrived
  BY <1>1, <1>i, StaysArrived
<1>2. CASE k \notin Arrived /\ k \in kept
  <2>1. CASE PassChunks
    <3>1. ~Releasable(k)
      BY <1>0, <1>2, ReleasedArrived
    <3> QED
      BY <1>2, <1>i, <2>1, <3>1 DEF PassChunks
  <2>2. CASE PutStore
    BY <1>2, <1>i, <2>2 DEF PutStore
  <2>3. CASE UNCHANGED kept
    BY <1>2, <1>i, <2>3
  <2> QED
    BY <2>1, <2>2, <2>3
    DEF Next, vars, PutStep, PassStep, MarkStep, AgentStep, PutScope, PutUpsert, PutEnqueue,
        PutList, PutStamp, PutCached, PutComplete, Attempt, PassList, PassRows, PassReread,
        PassJob, PassSave, RetryItem, MarkChunks, MarkSave, CloseChunk, Answer, Finish,
        Unanswered, Recover, Resend, Reanswer, Recovered, CloseNothing, CaptureFails, Stop,
        Crash, Expire, controller, DeliveryStays, AgentStays
<1> QED
  BY <1>0, <1>1, <1>2

-----------------------------------------------------------------------------
(* Requests, and the chunks themselves *)

\* The chunk of a request stays safe until the answer.
LEMMA StepRequests ==
  ASSUME ChunkDeliveryAssumption, Types, Requests, Witnessed, [Next]_vars
  PROVE  Requests'
<1> USE DEF Requests, InStore, Put, PutStays, node
<1>0. Safe \subseteq Safe' /\ put.chunk \in Chunk
  BY StaysSafe DEF Types, PutTypes
<1>1. CASE PutScope
  BY <1>0, <1>1, ZenonT(40) DEF PutScope, NoPut, Types, PutTypes
<1>2. CASE PutStore
  <2>1. put.chunk \in kept' => put.chunk \in Safe'
    BY <1>0 DEF Safe
  <2> QED
    BY <1>0, <1>2, <2>1 DEF PutStore, NoPut, Types, PutTypes
<1>3. CASE PutUpsert \/ PutList \/ PutStamp
  BY <1>0, <1>3 DEF PutUpsert, PutList, PutStamp, Types, PutTypes
<1>4. CASE PutEnqueue
  BY <1>0, <1>4 DEF PutEnqueue, NoPut, Types, PutTypes
<1>5. CASE PutCached \/ PutComplete
  BY <1>0, <1>5 DEF PutCached, PutComplete, NoPut, Types, PutTypes
<1>6. CASE UNCHANGED <<put, agent>>
  BY <1>0, <1>6
<1>7. CASE AgentAct
  <2> USE DEF Types, NodeTypes, Agents, AgentStays, DeliveryStays, NoPut, Recorder
  <2>1. CASE CloseChunk \/ CloseNothing
    BY <1>0, <2>1 DEF CloseChunk, CloseNothing
  <2>2. CASE Answer
    <3>1. put' = NoPut
      BY <2>2 DEF Answer
    <3> QED
      BY <3>1
  <2>3. CASE Finish \/ CaptureFails \/ Stop \/ Recovered
    <3>1. put' = put /\ agent'.pc = "done" /\ put.pc = "idle"
      BY <2>3 DEF Finish, CaptureFails, Stop, Recovered
    <3> QED
      BY <3>1
  <2>4. CASE Crash
    BY <1>0, <2>4 DEF Crash
  <2>5. CASE Unanswered \/ Reanswer
    <3>1. put' = NoPut
      BY <2>5 DEF Unanswered, Reanswer
    <3> QED
      BY <3>1
  <2>6. CASE Recover \/ Resend
    <3>1. put' = put /\ put.pc = "idle"
      BY <2>6 DEF Recover, Resend
    <3> QED
      BY <3>1
  <2> QED
    BY <1>7, <2>1, <2>2, <2>3, <2>4, <2>5, <2>6 DEF AgentAct, AgentStep
<1> QED
  BY <1>1, <1>2, <1>3, <1>4, <1>5, <1>6, <1>7
  DEF Next, vars, PutStep, PassStep, MarkStep, Attempt, PassList, PassRows, PassReread,
      PassChunks, PassJob, PassSave, PassStays, RetryItem, MarkChunks, MarkSave, Expire, AgentAct

\* A chunk leaves the node only when it is safe.
LEMMA StepKept ==
  ASSUME ChunkDeliveryAssumption, Types, Requests, Witnessed, ChunkKept, [Next]_vars
  PROVE  ChunkKept'
<1>1. \A k \in closed : k \in local \/ k \in Safe
  BY DEF ChunkKept, Safe, Types, NodeTypes
<1>2. Safe \subseteq Safe'
  BY StaysSafe
<1>3. ASSUME \A k \in closed' : k \in local' \/ k \in Safe'
      PROVE  ChunkKept'
  BY <1>3 DEF ChunkKept, Safe
<1>4. CASE UNCHANGED <<closed, local>>
  BY <1>1, <1>2, <1>3, <1>4
<1>5. CASE CloseChunk
  BY <1>1, <1>2, <1>3, <1>5 DEF CloseChunk
<1>6. CASE Answer \/ Reanswer
  <2>1. /\ closed' = closed
        /\ local' = local \/ (local' = local \ {agent.chunk} /\ put.pc = "accepted")
    BY <1>6 DEF Answer, Reanswer, AfterSend
  <2>2. put.pc = "accepted" => agent.chunk \in Safe
    BY <1>6 DEF Requests, Answer, Reanswer
  <2> QED
    BY <1>1, <1>2, <1>3, <2>1, <2>2
<1> QED
  BY <1>4, <1>5, <1>6
  DEF Next, vars, node, PutStep, PassStep, MarkStep, AgentStep, PutScope, PutStore, PutUpsert,
      PutEnqueue, PutList, PutStamp, PutCached, PutComplete, PutStays, Attempt, PassList,
      PassRows, PassReread, PassChunks, PassJob, PassSave, PassStays, RetryItem, MarkChunks,
      MarkSave, Expire, Finish, Unanswered, Recover, Resend, Recovered, CloseNothing,
      CaptureFails, Stop, Crash

-----------------------------------------------------------------------------
(* What rows and copies say *)

\* A row that a pass settles as uploaded is at a destination.
LEMMA SettledArrived ==
  ASSUME ChunkDeliveryAssumption, PassTypes, Witnessed, NEW k \in Chunk,
         Settled(k).status = "uploaded"
  PROVE  k \in Arrived
<1>0. /\ pass.rows[k] \in ChunkRow
      /\ \A d \in Dest : pass.items[k][d] \subseteq {"queued", "succeeded", "failed"}
  BY DEF PassTypes, ChunkRows, ItemSets
<1>1. CASE Listed(k) = {}
  <2>1. pass.rows[k].status = "uploaded"
    BY <1>0, <1>1 DEF Settled, ChunkRow
  <2> QED
    BY <2>1 DEF Witnessed
<1>2. CASE Listed(k) # {}
  <2>1. ChunkStatus(Listed(k)) = "uploaded"
    BY <1>0, <1>2 DEF Settled, ChunkRow
  <2>2. "queued" \notin Listed(k) /\ "failed" \notin Listed(k)
    BY <2>1 DEF ChunkStatus
  <2>3. PICK d \in Dest : pass.items[k][d] # {}
    BY <1>2 DEF Listed
  <2>4. "succeeded" \in pass.items[k][d]
    BY <1>0, <2>2, <2>3 DEF Listed
  <2> QED
    BY <2>4 DEF Witnessed, Arrived, Delivered
<1> QED
  BY <1>1, <1>2

\* No stale copy calls a chunk uploaded that is not.
LEMMA StepWitnessed ==
  ASSUME ChunkDeliveryAssumption, Types, Witnessed, [Next]_vars
  PROVE  Witnessed'
<1> USE DEF Put, PutStays, Pass, PassStays, node, controller
<1>0. /\ Arrived \subseteq Arrived'
      /\ \A k \in Chunk, d \in Dest :
           "succeeded" \in items[k][d] => "succeeded" \in items'[k][d]
      /\ put.chunk \in Chunk
  BY StaysArrived, DeliveryLasts DEF Types, PutTypes
<1>w. /\ \A k \in Chunk, d \in Dest :
           "succeeded" \in pass.items[k][d] => "succeeded" \in items'[k][d]
      /\ \A k \in Chunk : rows[k].status = "uploaded" => k \in Arrived'
      /\ \A k \in Chunk : pass.rows[k].status = "uploaded" => k \in Arrived'
      /\ \A k \in Chunk : put.rows[k].status = "uploaded" => k \in Arrived'
      /\ put.row.status = "uploaded" => put.chunk \in Arrived'
  BY <1>0 DEF Witnessed
<1>n. /\ \A k \in Chunk : NoRows[k].status # "uploaded" /\ NoPut.rows[k].status # "uploaded"
                        /\ NoPass.rows[k].status # "uploaded"
      /\ \A k \in Chunk, d \in Dest :
            "succeeded" \notin NoItems[k][d] /\ "succeeded" \notin NoPass.items[k][d]
      /\ NoPut.row.status # "uploaded" /\ NoRow.status # "uploaded"
  BY DEF NoRows, NoRow, NoPut, NoPass, NoItems
<1>s. ASSUME \A k \in Chunk, d \in Dest :
               "succeeded" \in pass'.items[k][d] => "succeeded" \in items'[k][d],
             \A k \in Chunk : rows'[k].status = "uploaded" => k \in Arrived',
             \A k \in Chunk : pass'.rows[k].status = "uploaded" => k \in Arrived',
             \A k \in Chunk : put'.rows[k].status = "uploaded" => k \in Arrived',
             put'.row.status = "uploaded" => put'.chunk \in Arrived'
      PROVE  Witnessed'
  BY <1>s DEF Witnessed
<1>1. CASE UNCHANGED <<rows, pass, put>>
  BY <1>1, <1>w, <1>s
<1>2. CASE UNCHANGED <<rows, pass>> /\ put'.row.status # "uploaded"
           /\ \A k \in Chunk :
                put'.rows[k].status = "uploaded" => put.rows[k].status = "uploaded"
  BY <1>2, <1>w, <1>s
<1>3. CASE /\ UNCHANGED <<rows, put>>
           /\ pass' = NoPass \/ (pass'.items = pass.items /\ pass'.rows = pass.rows)
  BY <1>3, <1>w, <1>s, <1>n
<1>4. CASE PutScope
  <2>1. put'.row = NoRow /\ put'.rows = NoRows
    BY <1>4 DEF PutScope, NoPut
  <2> QED
    BY <1>4, <1>n, <2>1, <1>2 DEF PutScope
<1>5. CASE PutStore
  <2>1. \/ put'.rows = put.rows /\ put'.row = rows[put.chunk] /\ put'.chunk = put.chunk
        \/ put'.row = NoRow /\ put'.rows = NoRows
    BY <1>5 DEF PutStore, NoPut, Types, PutTypes
  <2> QED
    BY <1>5, <1>0, <1>n, <1>w, <1>s, <2>1 DEF PutStore
<1>6. CASE PutUpsert
  <2>1. put'.rows = put.rows /\ put'.row = NoRow /\ pass' = pass
    BY <1>6 DEF PutUpsert, Types, PutTypes
  <2>2. Stored(put.row, put.total).status = "uploaded" => put.row.status = "uploaded"
    BY DEF Stored
  <2>3. \A k \in Chunk : rows'[k] = IF k = put.chunk THEN Stored(put.row, put.total) ELSE rows[k]
    BY <1>6, <1>0 DEF PutUpsert, Types, StoreTypes, ChunkRows
  <2>4. \A k \in Chunk : rows'[k].status = "uploaded" => k \in Arrived'
    BY <1>w, <2>2, <2>3
  <2> QED
    BY <1>n, <1>w, <1>s, <2>1, <2>4
<1>7. CASE PutEnqueue
  <2>1. \/ put'.rows = put.rows /\ put'.row = put.row /\ put'.chunk = put.chunk
        \/ put'.row = NoRow /\ put'.rows = NoRows
    BY <1>7 DEF PutEnqueue, NoPut, Types, PutTypes
  <2> QED
    BY <1>7, <1>n, <1>w, <1>s, <2>1 DEF PutEnqueue
<1>8. CASE PutList
  <2>1. put'.rows = rows /\ put'.row = put.row /\ put'.chunk = put.chunk
    BY <1>8 DEF PutList, Types, PutTypes
  <2> QED
    BY <1>8, <1>w, <1>s, <2>1 DEF PutList
<1>9. CASE PutStamp
  <2>1. put'.rows = NoRows /\ put'.row = put.row /\ put'.chunk = put.chunk /\ pass' = pass
    BY <1>9 DEF PutStamp, Types, PutTypes
  <2>2. \A k \in Chunk : put.rows[k] \in ChunkRow
    BY DEF Types, PutTypes, ChunkRows
  <2>3. \A k \in Chunk : rows'[k].status \in {put.rows[k].status, rows[k].status}
    BY <1>9, <2>2 DEF PutStamp, Stamped, ChunkRow
  <2>4. \A k \in Chunk : rows'[k].status = "uploaded" => k \in Arrived'
    BY <1>w, <2>3
  <2> QED
    BY <1>n, <1>w, <1>s, <2>1, <2>4
<1>10. CASE PutCached \/ PutComplete
  <2>1. put'.row = NoRow /\ put'.rows = NoRows
    BY <1>10 DEF PutCached, PutComplete, NoPut
  <2> QED
    BY <1>10, <1>n, <2>1, <1>2 DEF PutCached, PutComplete
<1>11. CASE PassList
  <2>1. pass'.items = items /\ pass'.rows = pass.rows
    BY <1>11 DEF PassList, Types, PassTypes
  <2> QED
    BY <1>11, <1>w, <1>s, <2>1 DEF PassList
<1>12. CASE PassRows
  <2>1. pass'.items = pass.items /\ pass'.rows = rows
    BY <1>12 DEF PassRows, Types, PassTypes
  <2> QED
    BY <1>12, <1>w, <1>s, <2>1 DEF PassRows
<1>13. CASE PassReread
  <2>1. pass' = NoPass \/ (pass'.items = pass.items /\ pass'.rows = pass.rows)
    BY <1>13 DEF PassReread, Types, PassTypes
  <2> QED
    BY <1>13, <1>3, <2>1 DEF PassReread
<1>14. CASE PassChunks
  <2>1. pass'.items = NoItems /\ pass'.rows = [k \in Chunk |-> Settled(k)] /\ put' = put
    BY <1>14 DEF PassChunks, Types, PassTypes
  <2>2. \A k \in Chunk : Settled(k).status = "uploaded" => k \in Arrived'
    BY <1>0, SettledArrived DEF Types
  <2>3. \A k \in Chunk : rows'[k] = Settled(k) \/ rows'[k] = rows[k]
    BY <1>14 DEF PassChunks
  <2>4. \A k \in Chunk : rows'[k].status = "uploaded" => k \in Arrived'
    BY <1>w, <2>2, <2>3
  <2>5. \A k \in Chunk : pass'.rows[k].status = "uploaded" => k \in Arrived'
    BY <2>1, <2>2
  <2> QED
    BY <1>n, <1>w, <1>s, <2>1, <2>4, <2>5
<1>15. CASE Attempt \/ PassJob \/ PassSave
  <2>1. pass' = NoPass \/ (pass'.items = NoPass.items /\ pass'.rows = NoPass.rows)
    BY <1>15 DEF Attempt, PassJob, PassSave, NoPass
  <2>2. UNCHANGED <<rows, put>>
    BY <1>15 DEF Attempt, PassJob, PassSave
  <2> QED
    BY <1>n, <1>w, <1>s, <2>1, <2>2
<1>16. CASE Answer \/ Reanswer \/ Unanswered
  <2>1. put' = NoPut /\ UNCHANGED <<rows, pass>>
    BY <1>16 DEF Answer, Reanswer, Unanswered, AgentStays, DeliveryStays
  <2> QED
    BY <1>n, <1>w, <1>s, <2>1
<1> QED
  BY <1>1, <1>4, <1>5, <1>6, <1>7, <1>8, <1>9, <1>10, <1>11, <1>12, <1>13, <1>14, <1>15, <1>16
  DEF Next, vars, PutStep, PassStep, MarkStep, AgentStep, RetryItem, MarkChunks, MarkSave, Expire,
      CloseChunk, Finish, Recover, Resend, Recovered, CloseNothing, CaptureFails, Stop, Crash,
      AgentStays, DeliveryStays

-----------------------------------------------------------------------------
(* Totals, while they are not guessed *)

\* A pass that finds the recording uploaded finds it whole: the rows it has are as
\* many as there are chunks, because the total is the true one.
LEMMA FinalIsWhole ==
  ASSUME ChunkDeliveryAssumption, PassTypes, Witnessed, TrueTotals, NEW done \in BOOLEAN,
         Finalization(pass.rows, done) = "uploaded"
  PROVE  Arrived = Chunk
<1> DEFINE present == {k \in Chunk : pass.rows[k].status # "none"}
           totals == {pass.rows[k].total : k \in present} \ {0}
           total == IF totals = {} THEN 0 ELSE CHOOSE t \in totals : TRUE
           whole == total # 0 /\ Cardinality(present) >= total
<1>1. whole /\ \A k \in present : pass.rows[k].status = "uploaded"
  BY DEF Finalization
<1>2. totals \subseteq {Chunks}
  BY DEF TrueTotals, Exact
<1>3. total = Chunks
  BY <1>1, <1>2
<1>4. Cardinality(present) >= Chunks
  BY <1>1, <1>3
<1>5. present = Chunk
  <2>1. present \subseteq Chunk
    OBVIOUS
  <2> HIDE DEF present, totals, total, whole
  <2>2. Cardinality(present) \in Nat /\ Cardinality(present) <= Cardinality(Chunk)
        /\ (Cardinality(Chunk) = Cardinality(present) => Chunk = present)
    BY <2>1, Consts, FS_Subset, FS_CardinalityType
  <2> QED
    BY <1>4, <2>2, Consts
<1> QED
  BY <1>1, <1>5 DEF Witnessed, Arrived

\* Write-backs of stale rows do not spoil the totals.
LEMMA StepTotals ==
  ASSUME ChunkDeliveryAssumption, Types, TrueTotals, AgentTotals, [Next]_vars
  PROVE  TrueTotals'
<1> USE DEF Put, PutStays, Pass, PassStays, node, controller, TrueTotals
<1>0. /\ \A k \in Chunk : rows[k] \in ChunkRow /\ put.rows[k] \in ChunkRow
                          /\ pass.rows[k] \in ChunkRow
      /\ put.row \in ChunkRow /\ put.chunk \in Chunk
  BY DEF Types, StoreTypes, PutTypes, PassTypes, ChunkRows
<1>n. /\ \A k \in Chunk : Exact(NoRows[k].total) /\ Exact(NoPut.rows[k].total)
                          /\ Exact(NoPass.rows[k].total)
      /\ Exact(NoRow.total) /\ Exact(NoPut.row.total) /\ Exact(NoPut.total)
  BY DEF NoRows, NoRow, NoPut, NoPass, Exact
<1>1. CASE UNCHANGED <<rows, pass, put>>
  BY <1>1
<1>2. CASE PutScope
  <2>1. put'.row = NoRow /\ put'.rows = NoRows /\ put'.total \in {agent.total, NoPut.total}
    BY <1>2 DEF PutScope, NoPut
  <2>2. Exact(agent.total)
    BY <1>2 DEF PutScope, AgentTotals
  <2> QED
    BY <1>2, <1>n, <2>1, <2>2 DEF PutScope
<1>3. CASE PutStore
  <2>1. \/ put'.rows = put.rows /\ put'.row = rows[put.chunk] /\ put'.total = put.total
        \/ put'.row = NoRow /\ put'.rows = NoRows /\ put'.total = NoPut.total
    BY <1>3 DEF PutStore, NoPut, Types, PutTypes
  <2> QED
    BY <1>3, <1>0, <1>n, <2>1 DEF PutStore
<1>4. CASE PutUpsert
  <2>1. put'.rows = put.rows /\ put'.row = NoRow /\ put'.total = put.total /\ pass' = pass
    BY <1>4 DEF PutUpsert, Types, PutTypes
  <2>2. Exact(Stored(put.row, put.total).total)
    BY DEF Stored
  <2>3. \A k \in Chunk : rows'[k] = IF k = put.chunk THEN Stored(put.row, put.total) ELSE rows[k]
    BY <1>4, <1>0 DEF PutUpsert, Types, StoreTypes, ChunkRows
  <2> QED
    BY <1>n, <2>1, <2>2, <2>3
<1>5. CASE PutEnqueue
  <2>1. \/ put'.rows = put.rows /\ put'.row = put.row /\ put'.total = put.total
        \/ put'.row = NoRow /\ put'.rows = NoRows /\ put'.total = NoPut.total
    BY <1>5 DEF PutEnqueue, NoPut, Types, PutTypes
  <2> QED
    BY <1>5, <1>n, <2>1 DEF PutEnqueue
<1>6. CASE PutList
  <2>1. put'.rows = rows /\ put'.row = put.row /\ put'.total = put.total
    BY <1>6 DEF PutList, Types, PutTypes
  <2> QED
    BY <1>6, <2>1 DEF PutList
<1>7. CASE PutStamp
  <2>1. put'.rows = NoRows /\ put'.row = put.row /\ put'.total = put.total /\ pass' = pass
    BY <1>7 DEF PutStamp, Types, PutTypes
  <2>2. \A k \in Chunk : rows'[k].total \in {put.total, rows[k].total}
    BY <1>7, <1>0 DEF PutStamp, Stamped, ChunkRow
  <2>3. \A k \in Chunk : Exact(rows'[k].total)
    BY <2>2
  <2> QED
    BY <1>n, <2>1, <2>3
<1>8. CASE PutCached \/ PutComplete
  <2>1. put'.row = NoRow /\ put'.rows = NoRows /\ put'.total = NoPut.total
    BY <1>8 DEF PutCached, PutComplete, NoPut
  <2> QED
    BY <1>8, <1>n, <2>1 DEF PutCached, PutComplete
<1>9. CASE PassList \/ PassReread
  <2>1. pass'.rows \in {pass.rows, NoPass.rows} /\ UNCHANGED <<rows, put>>
    BY <1>9 DEF PassList, PassReread, Types, PassTypes
  <2> QED
    BY <1>n, <2>1
<1>10. CASE PassRows
  <2>1. pass'.rows = rows /\ UNCHANGED <<rows, put>>
    BY <1>10 DEF PassRows, Types, PassTypes
  <2> QED
    BY <2>1
<1>11. CASE PassChunks
  <2>1. pass'.rows = [k \in Chunk |-> Settled(k)] /\ put' = put
    BY <1>11 DEF PassChunks, Types, PassTypes
  <2>2. \A k \in Chunk : Settled(k).total = pass.rows[k].total
    BY <1>0 DEF Settled, ChunkRow
  <2>3. \A k \in Chunk : rows'[k] = Settled(k) \/ rows'[k] = rows[k]
    BY <1>11 DEF PassChunks
  <2>4. \A k \in Chunk : Exact(rows'[k].total)
    BY <2>2, <2>3
  <2>5. \A k \in Chunk : Exact(pass'.rows[k].total)
    BY <2>1, <2>2
  <2> QED
    BY <2>1, <2>4, <2>5
<1>12. CASE Attempt \/ PassJob \/ PassSave
  <2>1. pass'.rows = NoPass.rows /\ UNCHANGED <<rows, put>>
    BY <1>12 DEF Attempt, PassJob, PassSave, NoPass
  <2> QED
    BY <1>n, <2>1
<1>13. CASE Answer \/ Reanswer \/ Unanswered
  <2>1. put' = NoPut /\ UNCHANGED <<rows, pass>>
    BY <1>13 DEF Answer, Reanswer, Unanswered, AgentStays, DeliveryStays
  <2> QED
    BY <1>n, <2>1
<1> QED
  BY <1>1, <1>2, <1>3, <1>4, <1>5, <1>6, <1>7, <1>8, <1>9, <1>10, <1>11, <1>12, <1>13
  DEF Next, vars, PutStep, PassStep, MarkStep, AgentStep, RetryItem, MarkChunks, MarkSave, Expire,
      CloseChunk, Finish, Recover, Resend, Recovered, CloseNothing, CaptureFails, Stop, Crash,
      AgentStays, DeliveryStays

\* The agent sends true totals, while none was guessed.
LEMMA StepAgentTotals ==
  ASSUME ChunkDeliveryAssumption, Types, AgentTotals, [Next]_vars, guessed' = {}
  PROVE  AgentTotals' /\ guessed = {}
<1> USE DEF AgentTotals, AgentStays, DeliveryStays, Exact
<1>0. agent \in Agents /\ saved \in Saves
  BY DEF Types, NodeTypes
<1>1. CASE UNCHANGED <<agent, saved, guessed>>
  BY <1>1
<1>2. CASE CloseChunk
  <2>1. /\ agent'.total \in {0, Chunks, agent.total}
        /\ agent'.pc \in {"sending", "finish", "capturing"}
    BY <1>0, <1>2 DEF CloseChunk, Agents
  <2> QED
    BY <1>2, <2>1 DEF CloseChunk
<1>3. CASE CloseNothing
  BY <1>0, <1>3 DEF CloseNothing, Agents
<1>4. CASE Answer
  <2>1. agent'.total = agent.total /\ agent'.pc \in {"sending", "finish", "capturing"}
    BY <1>0, <1>4, ZenonT(40) DEF Answer, Agents
  <2>2. saved' = saved \/ saved'.total = agent.total
    BY <1>4 DEF Answer, Save
  <2> QED
    BY <1>4, <2>1, <2>2 DEF Answer
<1>5. CASE Finish
  <2>1. agent'.pc = "done" /\ agent'.total = 0 /\ guessed = {}
    BY <1>5 DEF Finish, Recorder
  <2>2. ASSUME saved'.pending # {}
        PROVE  saved'.total = Chunks
    <3>1. agent.pending # {}
      BY <1>5, <2>2 DEF Finish, Save
    <3>2. ~(agent.next <= Chunks)
      BY <1>5, <3>1 DEF Finish
    <3>3. agent.next > Chunks
      BY <1>0, <3>2, Consts DEF Agents
    <3> QED
      BY <1>5, <3>1, <3>3 DEF Finish, Save
  <2> QED
    BY <2>1, <2>2
<1>6. CASE CaptureFails \/ Stop
  <2>1. agent'.pc = "done" /\ agent'.total = 0 /\ guessed' = guessed
    BY <1>6 DEF CaptureFails, Stop, Recorder
  <2>2. saved'.total = 0
    BY <1>6 DEF CaptureFails, Stop, Save
  <2> QED
    BY <2>1, <2>2
<1>7. CASE Crash
  <2>1. agent'.pc = "down" /\ agent'.total = 0 /\ saved' = saved
    BY <1>7 DEF Crash, Recorder
  <2>2. guessed = {} /\ saved.total # 0
    BY <1>7 DEF Crash
  <2> QED
    BY <2>1, <2>2
<1>8. CASE Recover
  <2>1. /\ agent'.pc = "recovering" /\ agent'.todo \subseteq saved.pending
        /\ agent'.pending = {}
        /\ agent'.total = RecoveredTotal(saved) /\ saved' = saved /\ agent.pc = "down"
    BY <1>0, <1>8 DEF Recover, Agents
  <2>2. RecoveredTotal(saved) = saved.total
    BY <2>1 DEF RecoveredTotal
  <2> QED
    BY <1>8, <2>1, <2>2 DEF Recover
<1>9. CASE Resend
  <2>1. agent'.pc = "resending" /\ agent'.total = agent.total /\ saved' = saved
    BY <1>0, <1>9 DEF Resend, Agents
  <2> QED
    BY <1>9, <2>1 DEF Resend
<1>10. CASE Reanswer
  <2>1. agent'.pc = "recovering" /\ agent'.total = agent.total /\ saved' = saved
    BY <1>0, <1>10 DEF Reanswer, Agents
  <2> QED
    BY <1>10, <2>1 DEF Reanswer
<1>11. CASE Recovered
  <2>1. agent'.pc = "done" /\ agent'.total = 0 /\ guessed' = guessed
    BY <1>11 DEF Recovered, Recorder
  <2>2. saved'.pending # {} => agent.pending # {} /\ saved'.total = saved.total
    BY <1>11 DEF Recovered, Save
  <2> QED
    BY <1>11, <2>1, <2>2 DEF Recovered
<1> QED
  BY <1>1, <1>2, <1>3, <1>4, <1>5, <1>6, <1>7, <1>8, <1>9, <1>10, <1>11
  DEF Next, vars, node, PutStep, PassStep, MarkStep, AgentStep, PutScope, PutStore, PutUpsert,
      PutEnqueue, PutList, PutStamp, PutCached, PutComplete, PutStays, Attempt, PassList,
      PassRows, PassReread, PassChunks, PassJob, PassSave, PassStays, RetryItem, MarkChunks,
      MarkSave, Expire, Unanswered

\* The status of the recording, or a stale copy of it, is `uploaded` only of a whole
\* one.
LEMMA StepWhole ==
  ASSUME ChunkDeliveryAssumption, Types, Witnessed, TrueTotals, Whole, [Next]_vars
  PROVE  Whole'
<1> USE DEF Whole, Put, PutStays, Pass, PassStays, node, controller
<1>0. Arrived = Chunk => Arrived' = Chunk
  BY StaysArrived DEF Arrived
<1>n. NoPut.rec # "uploaded" /\ NoPass.status # "uploaded"
  BY DEF NoPut, NoPass
<1>1. CASE /\ rec' = rec /\ put'.rec \in {put.rec, rec, NoPut.rec}
           /\ pass'.status \in {pass.status, NoPass.status}
  BY <1>0, <1>n, <1>1
<1>2. CASE PutScope \/ PutStore \/ PutUpsert \/ PutEnqueue \/ PutList \/ PutStamp \/ PutComplete
  <2>1. put'.rec \in {put.rec, rec, NoPut.rec} /\ rec' = rec /\ pass' = pass
    BY <1>2 DEF PutScope, PutStore, PutUpsert, PutEnqueue, PutList, PutStamp, PutComplete, NoPut,
                Types, PutTypes
  <2> QED
    BY <1>1, <2>1
<1>3. CASE PutCached
  <2>1. put'.rec = NoPut.rec /\ pass' = pass /\ (rec' = "uploaded" => put.rec = "uploaded")
    BY <1>3 DEF PutCached, NoPut
  <2> QED
    BY <1>0, <1>n, <2>1
<1>4. CASE PassList \/ PassRows \/ PassReread \/ PassChunks \/ Attempt
  <2>1. pass'.status \in {pass.status, NoPass.status} /\ rec' = rec /\ put' = put
    BY <1>4 DEF PassList, PassRows, PassReread, PassChunks, Attempt, NoPass, Types, PassTypes
  <2> QED
    BY <1>1, <2>1
<1>5. CASE PassJob
  <2>1. rec' = rec /\ put' = put
    BY <1>5 DEF PassJob
  <2>2. pass'.status \in {"none", Finalization(pass.rows, job \in Ended)}
    <3>1. CASE pass' = NoPass
      BY <3>1 DEF NoPass
    <3>2. CASE pass'.status = Finalization(pass.rows, job \in Ended)
      BY <3>2
    <3> QED
      BY <1>5, <3>1, <3>2 DEF PassJob, NoPass
  <2>3. (job \in Ended) \in BOOLEAN
    OBVIOUS
  <2>4. Finalization(pass.rows, job \in Ended) = "uploaded" => Arrived = Chunk
    BY <2>3, FinalIsWhole DEF Types
  <2>5. pass'.status = "uploaded" => Arrived = Chunk
    BY <2>2, <2>4
  <2> QED
    BY <1>0, <2>1, <2>5
<1>6. CASE PassSave
  <2>1. rec' = pass.status /\ put' = put /\ pass' = NoPass
    BY <1>6 DEF PassSave
  <2> QED
    BY <1>0, <1>n, <2>1
<1>7. CASE MarkSave
  <2>1. rec' = "uploaded" => rec = "uploaded"
    BY <1>7 DEF MarkSave, TerminalStatus
  <2> QED
    BY <1>0, <1>7, <2>1 DEF MarkSave
<1>8. CASE Answer \/ Reanswer \/ Unanswered
  <2>1. put' = NoPut /\ UNCHANGED <<rec, pass>>
    BY <1>8 DEF Answer, Reanswer, Unanswered, AgentStays, DeliveryStays
  <2> QED
    BY <1>1, <2>1
<1>9. CASE UNCHANGED <<rec, put, pass>>
  BY <1>1, <1>9
<1> QED
  BY <1>2, <1>3, <1>4, <1>5, <1>6, <1>7, <1>8, <1>9
  DEF Next, vars, PutStep, PassStep, MarkStep, AgentStep, RetryItem, MarkChunks, Expire,
      CloseChunk, Finish, Recover, Resend, Recovered, CloseNothing, CaptureFails, Stop, Crash,
      AgentStays, DeliveryStays

-----------------------------------------------------------------------------

\* Every step keeps the invariant.
THEOREM StepIInv ==
  ASSUME ChunkDeliveryAssumption, IInv, [Next]_vars
  PROVE  IInv'
<1>1. Types'
  BY StepTypes DEF IInv
<1>2. Requests' /\ ChunkKept' /\ Witnessed'
  BY StepRequests, StepKept, StepWitnessed DEF IInv
<1>3. WhenSure'
  <2> SUFFICES ASSUME guessed' = {}
               PROVE  TrueTotals' /\ AgentTotals' /\ Whole'
    BY DEF WhenSure
  <2>1. guessed = {}
    BY DEF IInv, Next, vars, node, PutStep, PassStep, MarkStep, AgentStep, PutScope, PutStore,
       PutUpsert, PutEnqueue, PutList, PutStamp, PutCached, PutComplete, PutStays, Attempt,
       PassList, PassRows, PassReread, PassChunks, PassJob, PassSave, PassStays, RetryItem,
       MarkChunks, MarkSave, Expire, Unanswered, CloseChunk, Answer, Finish, Recover, Resend,
       Reanswer, Recovered, CloseNothing, CaptureFails, Stop, Crash, AgentStays
  <2>2. TrueTotals /\ AgentTotals /\ Whole
    BY <2>1 DEF IInv, WhenSure
  <2> QED
    BY <2>2, StepTotals, StepAgentTotals, StepWhole DEF IInv
<1> QED
  BY <1>1, <1>2, <1>3 DEF IInv

\* The invariant holds throughout.
THEOREM ChunkInvariant ==
  ASSUME ChunkDeliveryAssumption
  PROVE  Spec => []IInv
<1>1. Init => IInv
  BY InitIInv
<1>2. IInv /\ [Next]_vars => IInv'
  BY StepIInv
<1> QED
  BY <1>1, <1>2, PTL DEF Spec

\* The property the run of NodeParts checks, for any number of chunks, destinations,
\* tries and faults: a closed chunk is on the node, in the cache or delivered, and a
\* recording that reads `uploaded` is whole unless a total was guessed.
THEOREM NoChunkIsLost ==
  ASSUME ChunkDeliveryAssumption
  PROVE  Spec => []ChunksKept
<1>1. IInv => ChunksKept
  <2>1. IInv => UploadedIsWhole
    BY DEF IInv, WhenSure, Whole, UploadedIsWhole, Arrived, Types, NodeTypes
  <2> QED
    BY <2>1 DEF IInv, ChunksKept
<1> QED
  BY <1>1, ChunkInvariant, PTL

-----------------------------------------------------------------------------
(* The cache of a recorder: the inductive invariant *)

\* What a process does is a record of these fields and no others.
Shape(w) ==
  [pc |-> w.pc, rec |-> w.rec, free |-> w.free, loaded |-> w.loaded,
   cands |-> w.cands, plan |-> w.plan, left |-> w.left, gone |-> w.gone]

CacheShapes ==
  /\ doing = [p \in Cache!Process |-> doing[p]]
  /\ \A p \in Cache!Process : doing[p] = Shape(doing[p]) /\ doing[p].rec \in Recording \cup {NoTake}

CacheTypes ==
  /\ manifest \in [Recording -> Nat]
  /\ \A f \in files : f.rec \in Recording
  /\ delivered \subseteq Recording /\ state \in delivered \cup {NoTake}

\* Whoever has read the manifest to write it has its lock, and reads it as it is.
Exclusive ==
  \A p \in Cache!Process :
    /\ Cache!At(p, "tracking") \/ Cache!At(p, "delete") <=> lock = p
    /\ lock = p => doing[p].loaded = manifest

\* An idle process has no take, nor has the main loop in its sweeps.
Idles ==
  \A p \in Cache!Process :
    /\ Cache!At(p, "idle") => doing[p].rec = NoTake
    /\ p = Main => /\ ~Cache!At(p, "capture")
                   /\ Cache!At(p, "sweep") \/ Cache!At(p, "delete") => doing[p].rec = NoTake

\* A take that is still captured has a file, is its worker's alone, and was not uploaded.
Captures ==
  /\ \A p \in Cache!Process \ {Main} :
       Cache!At(p, "capture") \/ Cache!At(p, "sweep") \/ Cache!At(p, "delete") =>
         doing[p].rec \in Recording \ delivered
  /\ \A p \in Cache!Process : doing[p].rec \in Recording \ delivered =>
       /\ \E f \in files : f.rec = doing[p].rec
       /\ \A q \in Cache!Process \ {p} : doing[q].rec # doing[p].rec

\* What comes after the upload is about an uploaded take, and so is the manifest.
Uploads ==
  /\ \A p \in Cache!Process :
       Cache!At(p, "apply") \/ Cache!At(p, "tracking") \/ Cache!At(p,
       "done") => doing[p].rec \in delivered
  /\ Cache!Listed \subseteq delivered

\* A sweep removes files of uploaded takes only, and every file of what it drops.
Sweeps ==
  \A p \in Cache!Process : Cache!At(p, "delete") =>
    /\ doing[p].gone \subseteq delivered
    /\ \A f \in doing[p].left : f.rec \in delivered
    /\ \A f \in files : f.rec \in doing[p].gone => f \in doing[p].left

\* A take that is done with is in the manifest, was kept out by a fault, or is gone.
Tracked ==
  \A p \in Cache!Process : Cache!At(p, "done") =>
    \/ doing[p].rec \in Cache!Listed \cup orphaned
    \/ \A f \in files : f.rec # doing[p].rec

\* NothingLeaks over the processes and the manifest's takes.
WithinReach ==
  \A f \in files :
    f.rec \in delivered \ orphaned =>
      f.rec \in Cache!Listed \/ \E p \in Cache!Process : doing[p].rec = f.rec

CacheInv ==
  /\ CacheShapes /\ CacheTypes /\ Exclusive /\ Idles /\ Captures /\ Uploads /\ Sweeps
  /\ Tracked
  /\ WithinReach

-----------------------------------------------------------------------------
(* The cache of a recorder: what a step keeps *)

\* The fields of a new piece of work.
LEMMA WorkFields ==
  ASSUME NEW pc, NEW take
  PROVE  /\ Cache!Work(pc, take).pc = pc /\ Cache!Work(pc, take).rec = take
         /\ Cache!Work(pc, take) = Shape(Cache!Work(pc, take))
BY DEF Cache!Work, Shape

\* A step of one process, field by field.
LEMMA OneGoes ==
  ASSUME CacheShapes, NEW p \in Cache!Process, NEW w, Cache!Goes(p, w),
         w = Shape(w), w.rec \in Recording \cup {NoTake}
  PROVE  /\ CacheShapes'
         /\ \A q \in Cache!Process :
              /\ doing'[q].pc = IF q = p THEN w.pc ELSE doing[q].pc
              /\ doing'[q].rec = IF q = p THEN w.rec ELSE doing[q].rec
              /\ doing'[q].loaded = IF q = p THEN w.loaded ELSE doing[q].loaded
              /\ doing'[q].left = IF q = p THEN w.left ELSE doing[q].left
              /\ doing'[q].gone = IF q = p THEN w.gone ELSE doing[q].gone
<1>1. \A q \in Cache!Process : doing'[q] = IF q = p THEN w ELSE doing[q]
  BY DEF CacheShapes, Cache!Goes
<1>2. doing' = [q \in Cache!Process |-> doing'[q]]
  BY DEF CacheShapes, Cache!Goes
<1>3. CacheShapes'
  BY <1>1, <1>2 DEF CacheShapes
<1> QED
  BY <1>1, <1>3

\* The fields of a sweep's record that has a file less to delete.
LEMMA LeftFields ==
  ASSUME NEW x, x = Shape(x), NEW f, NEW w, w = [x EXCEPT !.left = @ \ {f}]
  PROVE  /\ w = Shape(w) /\ w.pc = x.pc /\ w.rec = x.rec /\ w.loaded = x.loaded
         /\ w.left = x.left \ {f} /\ w.gone = x.gone
<1>1. w = [Shape(x) EXCEPT !.left = @ \ {f}]
  OBVIOUS
<1> QED
  BY DEF Shape

\* A recorder writes the files of a take.
LEMMA CaptureKeeps ==
  ASSUME CacheInv, Cache!CacheRetentionAssumption, NEW p \in Cache!Process,
         NEW r \in Recording, Cache!Capture(p, r)
  PROVE  CacheInv'
<1> DEFINE w == Cache!Work("capture", r)
<1> USE DEF CacheInv
<1>1. /\ w = Shape(w) /\ w.pc = "capture" /\ w.rec = r
  BY DEF Shape, Cache!Work
<1>2. w.rec \in Recording \cup {NoTake}
  BY <1>1
<1>3. Cache!Goes(p, w)
  BY DEF Cache!Capture
<1> HIDE DEF w
<1>4. /\ CacheShapes'
      /\ \A q \in Cache!Process :
           /\ doing'[q].pc = IF q = p THEN "capture" ELSE doing[q].pc
           /\ doing'[q].rec = IF q = p THEN r ELSE doing[q].rec
           /\ q # p => doing'[q].loaded = doing[q].loaded
           /\ q # p => doing'[q].left = doing[q].left
           /\ q # p => doing'[q].gone = doing[q].gone
  BY OneGoes, <1>1, <1>3
<1>5. Cache!File(r, "raw", RawSize[r]).rec = r
  BY DEF Cache!File
<1>6. CacheTypes'
  BY DEF Cache!Capture, CacheTypes, Cache!File
<1>7. Exclusive'
  BY <1>4 DEF Cache!Capture, Cache!At, Exclusive
<1>8. Idles'
  BY <1>4 DEF Cache!Capture, Cache!At, Idles, Cache!CacheRetentionAssumption
<1>9. Captures'
  <2>1. r \in Recording \ delivered /\ (\A f \in files : f.rec # r) /\ delivered' = delivered
    BY DEF Cache!Capture, Cache!Unused, Cache!FilesOf
  <2>2. \A q \in Cache!Process \ {p} : doing[q].rec # r
    BY <2>1 DEF Captures
  <2>3. \E f \in files' : f.rec = r
    BY <1>5 DEF Cache!Capture
  <2>4. files \subseteq files'
    BY DEF Cache!Capture
  <2> QED
    BY <1>4, <2>1, <2>3, <2>4 DEF Captures, Cache!At
<1>10. Uploads'
  BY <1>4 DEF Cache!Capture, Cache!At, Uploads, Cache!Listed
<1>11. Sweeps'
  BY <1>4 DEF Cache!Capture, Cache!At, Sweeps, Cache!File, Cache!Unused
<1>12. Tracked'
  BY <1>4 DEF Cache!Capture, Cache!At, Tracked, Uploads, Cache!Listed, Cache!File,
     Cache!Unused
<1>13. WithinReach'
  BY <1>4 DEF Cache!Capture, WithinReach, Idles, Cache!Process, Cache!Listed,
     Cache!CacheRetentionAssumption, Cache!File
<1> QED
  BY <1>4, <1>6, <1>7, <1>8, <1>9, <1>10, <1>11, <1>12, <1>13

\* The upload is done: the take has to be tracked from here on.
LEMMA DeliverKeeps ==
  ASSUME CacheInv, Cache!CacheRetentionAssumption, NEW p \in Cache!Process, Cache!Deliver(p)
  PROVE  CacheInv'
<1> DEFINE w == Cache!Work("apply", doing[p].rec)
<1> USE DEF CacheInv
<1>1. /\ w = Shape(w) /\ w.pc = "apply" /\ w.rec = doing[p].rec
  BY DEF Shape, Cache!Work
<1>2. w.rec \in Recording \cup {NoTake}
  BY <1>1 DEF CacheShapes
<1>3. Cache!Goes(p, w)
  BY DEF Cache!Deliver
<1> HIDE DEF w
<1>4. /\ CacheShapes'
      /\ \A q \in Cache!Process :
           /\ doing'[q].pc = IF q = p THEN "apply" ELSE doing[q].pc
           /\ doing'[q].rec = IF q = p THEN doing[p].rec ELSE doing[q].rec
           /\ q # p => doing'[q].loaded = doing[q].loaded
           /\ q # p => doing'[q].left = doing[q].left
           /\ q # p => doing'[q].gone = doing[q].gone
  BY OneGoes, <1>1, <1>2, <1>3
<1>5. Cache!File(doing[p].rec, "out", OutSize).rec = doing[p].rec
  BY DEF Cache!File
<1>6. CacheTypes'
  BY <1>5 DEF Cache!Deliver, CacheTypes, Captures, Idles
<1>7. Exclusive'
  BY <1>4 DEF Cache!Deliver, Cache!At, Exclusive
<1>8. Idles'
  BY <1>4 DEF Cache!At, Idles
<1>9. Captures'
  BY <1>4 DEF Cache!Deliver, Cache!At, Captures
<1>10. Uploads'
  BY <1>4 DEF Cache!Deliver, Cache!At, Uploads, Cache!Listed
<1>11. Sweeps'
  BY <1>4, <1>5 DEF Cache!Deliver, Cache!At, Sweeps, Captures, Idles
<1>12. Tracked'
  BY <1>4, <1>5 DEF Cache!Deliver, Cache!At, Tracked, Captures, Idles, Cache!Listed
<1>13. WithinReach'
  BY <1>4, <1>5 DEF Cache!Deliver, WithinReach, Cache!Listed
<1> QED
  BY <1>4, <1>6, <1>7, <1>8, <1>9, <1>10, <1>11, <1>12, <1>13

\* A worker takes the lock and reads the manifest it will write back.
LEMMA BeginTrackKeeps ==
  ASSUME CacheInv, Cache!CacheRetentionAssumption, NEW p \in Cache!Process,
         Cache!BeginTrack(p)
  PROVE  CacheInv'
<1> DEFINE w == [Cache!Work("tracking", doing[p].rec) EXCEPT !.loaded = manifest]
<1> USE DEF CacheInv
<1>1. /\ w = Shape(w) /\ w.pc = "tracking" /\ w.rec = doing[p].rec
      /\ w.loaded = manifest
  BY DEF Shape, Cache!Work
<1>2. w.rec \in Recording \cup {NoTake}
  BY <1>1 DEF CacheShapes
<1>3. Cache!Goes(p, w)
  BY DEF Cache!BeginTrack
<1> HIDE DEF w
<1>4. /\ CacheShapes'
      /\ \A q \in Cache!Process :
           /\ doing'[q].pc = IF q = p THEN "tracking" ELSE doing[q].pc
           /\ doing'[q].rec = IF q = p THEN doing[p].rec ELSE doing[q].rec
           /\ doing'[q].loaded = IF q = p THEN manifest ELSE doing[q].loaded
           /\ q # p => doing'[q].left = doing[q].left
           /\ q # p => doing'[q].gone = doing[q].gone
  BY OneGoes, <1>1, <1>2, <1>3
<1>5. CacheTypes'
  BY DEF Cache!BeginTrack, CacheTypes
<1>6. Exclusive'
  BY <1>4 DEF Cache!BeginTrack, Cache!At, Exclusive, Cache!Process,
     Cache!CacheRetentionAssumption, Cache!Acquire
<1>7. Idles'
  BY <1>4 DEF Cache!At, Idles
<1>8. Captures'
  BY <1>4 DEF Cache!BeginTrack, Cache!At, Captures
<1>9. Uploads'
  BY <1>4 DEF Cache!BeginTrack, Cache!At, Uploads, Cache!Listed
<1>10. Sweeps'
  BY <1>4 DEF Cache!BeginTrack, Cache!At, Sweeps
<1>11. Tracked'
  BY <1>4 DEF Cache!BeginTrack, Cache!At, Tracked, Cache!Listed
<1>12. WithinReach'
  BY <1>4 DEF Cache!BeginTrack, WithinReach, Cache!Listed
<1> QED
  BY <1>4, <1>5, <1>6, <1>7, <1>8, <1>9, <1>10, <1>11, <1>12

\* The manifest with the new entry is written.
LEMMA TrackKeeps ==
  ASSUME CacheInv, Cache!CacheRetentionAssumption, NEW p \in Cache!Process, Cache!Track(p)
  PROVE  CacheInv'
<1> DEFINE w == Cache!Work("done", doing[p].rec)
<1> USE DEF CacheInv
<1>1. /\ w = Shape(w) /\ w.pc = "done" /\ w.rec = doing[p].rec
  BY DEF Shape, Cache!Work
<1>2. w.rec \in Recording \cup {NoTake}
  BY <1>1 DEF CacheShapes
<1>3. Cache!Goes(p, w)
  BY DEF Cache!Track
<1> HIDE DEF w
<1>4. /\ CacheShapes'
      /\ \A q \in Cache!Process :
           /\ doing'[q].pc = IF q = p THEN "done" ELSE doing[q].pc
           /\ doing'[q].rec = IF q = p THEN doing[p].rec ELSE doing[q].rec
           /\ q # p => doing'[q].loaded = doing[q].loaded
           /\ q # p => doing'[q].left = doing[q].left
           /\ q # p => doing'[q].gone = doing[q].gone
  BY OneGoes, <1>1, <1>2, <1>3
<1>5. CacheTypes'
  BY DEF Cache!Track, CacheTypes, Exclusive, Cache!Newest
<1>6. Exclusive'
  BY <1>4 DEF Cache!Track, Cache!At, Exclusive, Cache!Process,
     Cache!CacheRetentionAssumption
<1>7. Idles'
  BY <1>4 DEF Cache!At, Idles
<1>8. Captures'
  BY <1>4 DEF Cache!Track, Cache!At, Captures
<1>9. Uploads'
  BY <1>4 DEF Cache!Track, Cache!At, Uploads, Exclusive, Cache!Listed, Cache!Newest
<1>10. Sweeps'
  BY <1>4 DEF Cache!Track, Cache!At, Sweeps
<1>11. Tracked'
  BY <1>4 DEF Cache!Track, Cache!At, Tracked, Exclusive, CacheTypes, Cache!Listed,
     Cache!Newest
<1>12. WithinReach'
  BY <1>4 DEF Cache!Track, WithinReach, Exclusive, CacheTypes, Cache!Listed, Cache!Newest
<1> QED
  BY <1>4, <1>5, <1>6, <1>7, <1>8, <1>9, <1>10, <1>11, <1>12

\* A take that could not be written into the manifest is excused by its fault.
LEMMA TrackFailsKeeps ==
  ASSUME CacheInv, Cache!CacheRetentionAssumption, NEW p \in Cache!Process,
         Cache!TrackFails(p)
  PROVE  CacheInv'
<1> DEFINE w == Cache!Work("done", doing[p].rec)
<1> USE DEF CacheInv
<1>1. /\ w = Shape(w) /\ w.pc = "done" /\ w.rec = doing[p].rec
  BY DEF Shape, Cache!Work
<1>2. w.rec \in Recording \cup {NoTake}
  BY <1>1 DEF CacheShapes
<1>3. Cache!Goes(p, w)
  BY DEF Cache!TrackFails
<1> HIDE DEF w
<1>4. /\ CacheShapes'
      /\ \A q \in Cache!Process :
           /\ doing'[q].pc = IF q = p THEN "done" ELSE doing[q].pc
           /\ doing'[q].rec = IF q = p THEN doing[p].rec ELSE doing[q].rec
           /\ q # p => doing'[q].loaded = doing[q].loaded
           /\ q # p => doing'[q].left = doing[q].left
           /\ q # p => doing'[q].gone = doing[q].gone
  BY OneGoes, <1>1, <1>2, <1>3
<1>5. CacheTypes'
  BY DEF Cache!TrackFails, CacheTypes
<1>6. Exclusive'
  BY <1>4 DEF Cache!TrackFails, Cache!At, Exclusive, Cache!Process,
     Cache!CacheRetentionAssumption
<1>7. Idles'
  BY <1>4 DEF Cache!At, Idles
<1>8. Captures'
  BY <1>4 DEF Cache!TrackFails, Cache!At, Captures
<1>9. Uploads'
  BY <1>4 DEF Cache!TrackFails, Cache!At, Uploads, Cache!Listed
<1>10. Sweeps'
  BY <1>4 DEF Cache!TrackFails, Cache!At, Sweeps
<1>11. Tracked'
  BY <1>4 DEF Cache!TrackFails, Cache!At, Tracked, Cache!Listed
<1>12. WithinReach'
  BY <1>4 DEF Cache!TrackFails, WithinReach, Cache!Listed
<1> QED
  BY <1>4, <1>5, <1>6, <1>7, <1>8, <1>9, <1>10, <1>11, <1>12

\* A worker goes back to its next take.
LEMMA DoneKeeps ==
  ASSUME CacheInv, Cache!CacheRetentionAssumption, NEW p \in Cache!Process, Cache!Done(p)
  PROVE  CacheInv'
<1> DEFINE w == Cache!Idle
<1> USE DEF CacheInv
<1>1. /\ w = Shape(w) /\ w.pc = "idle" /\ w.rec = NoTake
  BY DEF Shape, Cache!Work, Cache!Idle
<1>2. w.rec \in Recording \cup {NoTake}
  BY <1>1
<1>3. Cache!Goes(p, w)
  BY DEF Cache!Done
<1> HIDE DEF w
<1>4. /\ CacheShapes'
      /\ \A q \in Cache!Process :
           /\ doing'[q].pc = IF q = p THEN "idle" ELSE doing[q].pc
           /\ doing'[q].rec = IF q = p THEN NoTake ELSE doing[q].rec
           /\ q # p => doing'[q].loaded = doing[q].loaded
           /\ q # p => doing'[q].left = doing[q].left
           /\ q # p => doing'[q].gone = doing[q].gone
  BY OneGoes, <1>1, <1>3
<1>5. CacheTypes'
  BY DEF Cache!Done, CacheTypes
<1>6. Exclusive'
  BY <1>4 DEF Cache!Done, Cache!At, Exclusive
<1>7. Idles'
  BY <1>4 DEF Cache!At, Idles
<1>8. Captures'
  BY <1>4 DEF Cache!Done, Cache!At, Captures, Cache!CacheRetentionAssumption
<1>9. Uploads'
  BY <1>4 DEF Cache!Done, Cache!At, Uploads, Cache!Listed
<1>10. Sweeps'
  BY <1>4 DEF Cache!Done, Cache!At, Sweeps
<1>11. Tracked'
  BY <1>4 DEF Cache!Done, Cache!At, Tracked, Cache!Listed
<1>12. WithinReach'
  BY <1>4 DEF Cache!Done, WithinReach, Tracked, Cache!Listed
<1> QED
  BY <1>4, <1>5, <1>6, <1>7, <1>8, <1>9, <1>10, <1>11, <1>12

\* A sweep takes the lock and reads the manifest.
LEMMA BeginSweepKeeps ==
  ASSUME CacheInv, Cache!CacheRetentionAssumption, NEW p \in Cache!Process,
         Cache!BeginSweep(p)
  PROVE  CacheInv'
<1> DEFINE w == [Cache!Work("sweep", doing[p].rec) EXCEPT !.free = Cache!Free]
<1> USE DEF CacheInv
<1>1. /\ w = Shape(w) /\ w.pc = "sweep" /\ w.rec = doing[p].rec
  BY DEF Shape, Cache!Work
<1>2. w.rec \in Recording \cup {NoTake}
  BY <1>1 DEF CacheShapes
<1>3. Cache!Goes(p, w)
  BY DEF Cache!BeginSweep
<1> HIDE DEF w
<1>4. /\ CacheShapes'
      /\ \A q \in Cache!Process :
           /\ doing'[q].pc = IF q = p THEN "sweep" ELSE doing[q].pc
           /\ doing'[q].rec = IF q = p THEN doing[p].rec ELSE doing[q].rec
           /\ q # p => doing'[q].loaded = doing[q].loaded
           /\ q # p => doing'[q].left = doing[q].left
           /\ q # p => doing'[q].gone = doing[q].gone
  BY OneGoes, <1>1, <1>2, <1>3
<1>5. CacheTypes'
  BY DEF Cache!BeginSweep, CacheTypes
<1>6. Exclusive'
  BY <1>4 DEF Cache!BeginSweep, Cache!At, Exclusive
<1>7. Idles'
  BY <1>4 DEF Cache!BeginSweep, Cache!At, Idles
<1>8. Captures'
  BY <1>4 DEF Cache!BeginSweep, Cache!At, Captures
<1>9. Uploads'
  BY <1>4 DEF Cache!BeginSweep, Cache!At, Uploads, Cache!Listed
<1>10. Sweeps'
  BY <1>4 DEF Cache!BeginSweep, Cache!At, Sweeps
<1>11. Tracked'
  BY <1>4 DEF Cache!BeginSweep, Cache!At, Tracked, Cache!Listed
<1>12. WithinReach'
  BY <1>4 DEF Cache!BeginSweep, WithinReach, Cache!Listed
<1> QED
  BY <1>4, <1>5, <1>6, <1>7, <1>8, <1>9, <1>10, <1>11, <1>12

\* A sweep plans what to delete from what it read.
LEMMA PlanSweepKeeps ==
  ASSUME CacheInv, Cache!CacheRetentionAssumption, NEW p \in Cache!Process,
         Cache!PlanSweep(p)
  PROVE  CacheInv'
<1> DEFINE cands == Cache!Candidates
<1> DEFINE plan == Cache!Plan(cands, doing[p].free, Policies)
<1> DEFINE planned == {r \in Cache!Listed : \E c \in plan : c.rec = r}
<1> DEFINE left == {f \in files : f.rec \in planned}
<1> DEFINE gone == {r \in Cache!Listed : ~Cache!Present(r)} \cup planned
<1> DEFINE w == [doing[p] EXCEPT
       !.pc = "delete", !.loaded = manifest, !.cands = cands, !.plan = plan,
       !.left = left, !.gone = gone]
<1> USE DEF CacheInv
<1> HIDE DEF left, gone, planned, plan, cands
<1>1. /\ w = Shape(w) /\ w.pc = "delete" /\ w.rec = doing[p].rec
      /\ w.loaded = manifest
      /\ w.left = left
      /\ w.gone = gone
  <2>1. w = [Shape(doing[p]) EXCEPT !.pc = "delete", !.loaded = manifest, !.cands = cands,
                                   !.plan = plan, !.left = left, !.gone = gone]
    BY DEF CacheShapes
  <2> HIDE DEF w
  <2> QED
    BY <2>1 DEF Shape
<1>2. w.rec \in Recording \cup {NoTake}
  BY DEF CacheShapes
<1> USE DEF left, gone, planned, plan, cands
<1>3. /\ Cache!Goes(p, w) /\ Cache!At(p, "sweep") /\ Cache!Acquire(p)
      /\ UNCHANGED <<files, manifest, state, delivered, orphaned>>
  BY DEF Cache!PlanSweep
<1>0. /\ gone \subseteq Cache!Listed /\ \A f \in left : f.rec \in Cache!Listed
      /\ \A f \in files : f.rec \in gone => f \in left
  BY DEF Cache!Present, Cache!FilesOf
<1> HIDE DEF w, left, gone, planned, plan, cands
<1>4. /\ CacheShapes'
      /\ \A q \in Cache!Process :
           /\ doing'[q].pc = IF q = p THEN "delete" ELSE doing[q].pc
           /\ doing'[q].rec = IF q = p THEN doing[p].rec ELSE doing[q].rec
           /\ doing'[q].loaded = IF q = p THEN manifest ELSE doing[q].loaded
           /\ doing'[q].left = IF q = p THEN left ELSE doing[q].left
           /\ doing'[q].gone = IF q = p THEN gone ELSE doing[q].gone
  BY OneGoes, <1>1, <1>2, <1>3
<1>5. CacheTypes'
  BY <1>3 DEF CacheTypes
<1>6. Exclusive'
  BY <1>3, <1>4 DEF Cache!Acquire, Cache!At, Exclusive, Cache!Process,
     Cache!CacheRetentionAssumption
<1>7. Idles'
  BY <1>3, <1>4 DEF Cache!At, Idles
<1>8. Captures'
  BY <1>3, <1>4 DEF Cache!At, Captures
<1>9. Uploads'
  BY <1>3, <1>4 DEF Cache!At, Uploads, Cache!Listed
<1>10. Sweeps'
  BY <1>0, <1>3, <1>4 DEF Cache!At, Sweeps, Uploads
<1>11. Tracked'
  BY <1>3, <1>4 DEF Cache!At, Tracked, Cache!Listed
<1>12. WithinReach'
  BY <1>3, <1>4 DEF WithinReach, Cache!Listed
<1> QED
  BY <1>4, <1>5, <1>6, <1>7, <1>8, <1>9, <1>10, <1>11, <1>12

\* A sweep deletes the next file of its plan.
LEMMA DeleteFileKeeps ==
  ASSUME CacheInv, Cache!CacheRetentionAssumption, NEW p \in Cache!Process,
         Cache!DeleteFile(p)
  PROVE  CacheInv'
<1> USE DEF CacheInv
<1>1. /\ Cache!At(p, "delete") /\ UNCHANGED <<manifest, lock, state, delivered, orphaned>>
      /\ doing[p] = Shape(doing[p]) /\ doing[p].rec \in Recording \cup {NoTake}
  BY DEF Cache!DeleteFile, CacheShapes
<1>2. PICK f \in doing[p].left :
        \/ files' = files \ {f} /\ Cache!Goes(p, [doing[p] EXCEPT !.left = @ \ {f}])
        \/ /\ Cache!Goes(p, [doing[p] EXCEPT !.left = @ \ {f}, !.gone = @ \ {f.rec}])
           /\ UNCHANGED files
  BY DEF Cache!DeleteFile, Cache!NextFile
<1>3. PICK w :
        /\ Cache!Goes(p, w) /\ w = Shape(w) /\ w.pc = doing[p].pc /\ w.rec = doing[p].rec
        /\ w.loaded = doing[p].loaded /\ w.left = doing[p].left \ {f}
        /\ \/ files' = files \ {f} /\ w.gone = doing[p].gone
           \/ files' = files /\ w.gone = doing[p].gone \ {f.rec}
  <2>1. CASE files' = files \ {f} /\ Cache!Goes(p, [doing[p] EXCEPT !.left = @ \ {f}])
    <3> DEFINE w == [doing[p] EXCEPT !.left = @ \ {f}]
    <3>1. w = [doing[p] EXCEPT !.left = @ \ {f}] /\ Cache!Goes(p, w)
      BY <2>1
    <3> HIDE DEF w
    <3> QED
      BY <1>1, <2>1, LeftFields
  <2>2. CASE /\ Cache!Goes(p, [doing[p] EXCEPT !.left = @ \ {f}, !.gone = @ \ {f.rec}])
             /\ UNCHANGED files
    <3> DEFINE w == [doing[p] EXCEPT !.left = @ \ {f}, !.gone = @ \ {f.rec}]
    <3>1. Cache!Goes(p, w) /\ w = [Shape(doing[p]) EXCEPT !.left = @ \ {f}, !.gone = @ \ {f.rec}]
      BY <1>1, <2>2
    <3>2. /\ w = Shape(w) /\ w.pc = doing[p].pc /\ w.rec = doing[p].rec
          /\ w.loaded = doing[p].loaded /\ w.left = doing[p].left \ {f}
          /\ w.gone = doing[p].gone \ {f.rec}
      <4> HIDE DEF w
      <4> QED
        BY <3>1 DEF Shape
    <3> HIDE DEF w
    <3> QED
      BY <2>2, <3>1, <3>2
  <2> QED
    BY <1>2, <2>1, <2>2
<1>4. /\ CacheShapes'
      /\ \A q \in Cache!Process :
           /\ doing'[q].pc = doing[q].pc /\ doing'[q].rec = doing[q].rec
           /\ doing'[q].loaded = doing[q].loaded
           /\ doing'[q].left = IF q = p THEN doing[p].left \ {f} ELSE doing[q].left
           /\ doing'[q].gone = IF q = p THEN w.gone ELSE doing[q].gone
  <2>1. w.rec \in Recording \cup {NoTake} /\ w = Shape(w) /\ Cache!Goes(p, w) /\ CacheShapes
    BY <1>1, <1>3
  <2>2. /\ CacheShapes'
        /\ \A q \in Cache!Process :
             /\ doing'[q].pc = IF q = p THEN w.pc ELSE doing[q].pc
             /\ doing'[q].rec = IF q = p THEN w.rec ELSE doing[q].rec
             /\ doing'[q].loaded = IF q = p THEN w.loaded ELSE doing[q].loaded
             /\ doing'[q].left = IF q = p THEN w.left ELSE doing[q].left
             /\ doing'[q].gone = IF q = p THEN w.gone ELSE doing[q].gone
    <3> HIDE DEF CacheInv
    <3> QED
      BY OneGoes, <2>1
  <2> QED
    BY <1>3, <2>2
<1>5. CacheTypes'
  BY <1>1, <1>3 DEF CacheTypes
<1>6. Exclusive'
  BY <1>1, <1>4 DEF Exclusive, Cache!At
<1>7. Idles'
  BY <1>4 DEF Idles, Cache!At
<1>8. Captures'
  BY <1>1, <1>3, <1>4 DEF Captures, Sweeps, Cache!At
<1>9. Uploads'
  BY <1>1, <1>4 DEF Uploads, Cache!At, Cache!Listed
<1>10. Sweeps'
  BY <1>1, <1>3, <1>4 DEF Sweeps, Cache!At
<1>11. Tracked'
  BY <1>1, <1>3, <1>4 DEF Tracked, Cache!At, Cache!Listed
<1>12. WithinReach'
  BY <1>1, <1>3, <1>4 DEF WithinReach, Cache!Listed
<1> QED
  BY <1>4, <1>5, <1>6, <1>7, <1>8, <1>9, <1>10, <1>11, <1>12

\* The policy that deletes at once needs no entry.
LEMMA DeleteNowKeeps ==
  ASSUME CacheInv, Cache!CacheRetentionAssumption, NEW p \in Cache!Process,
         Cache!DeleteNow(p)
  PROVE  CacheInv'
<1> USE DEF CacheInv
<1>1. /\ Cache!At(p, "apply") /\ doing[p].rec \in delivered
      /\ UNCHANGED <<manifest, lock, state, delivered>>
      /\ files' \subseteq files /\ \A f \in files \ files' : f.rec = doing[p].rec
      /\ orphaned \subseteq orphaned'
  BY DEF Cache!DeleteNow, Cache!FilesOf, Cache!NextFile, Uploads
<1>2. \/ UNCHANGED <<doing, orphaned>>
      \/ /\ Cache!Goes(p, Cache!Work("done", doing[p].rec))
         /\ doing[p].rec \in orphaned' \/ \A f \in files' : f.rec # doing[p].rec
  BY DEF Cache!DeleteNow, Cache!FilesOf
<1>3. /\ Cache!Work("done", doing[p].rec).pc = "done"
      /\ Cache!Work("done", doing[p].rec).rec = doing[p].rec
      /\ Cache!Work("done", doing[p].rec) = Shape(Cache!Work("done", doing[p].rec))
      /\ doing[p].rec \in Recording \cup {NoTake}
  BY WorkFields DEF CacheShapes
<1>4. /\ CacheShapes'
      /\ \A q \in Cache!Process :
           /\ q # p => doing'[q].pc = doing[q].pc
           /\ doing'[q].rec = doing[q].rec
           /\ q # p => /\ doing'[q].loaded = doing[q].loaded
                       /\ doing'[q].left = doing[q].left
                       /\ doing'[q].gone = doing[q].gone
      /\ \/ doing'[p].pc = "apply"
         \/ /\ doing'[p].pc = "done"
            /\ doing[p].rec \in orphaned' \/ \A f \in files' : f.rec # doing[p].rec
  <2>1. CASE UNCHANGED <<doing, orphaned>>
    BY <1>1, <2>1 DEF CacheShapes, Cache!At
  <2>2. CASE /\ Cache!Goes(p, Cache!Work("done", doing[p].rec))
             /\ doing[p].rec \in orphaned' \/ \A f \in files' : f.rec # doing[p].rec
    BY <1>3, <2>2, OneGoes
  <2> QED
    BY <1>2, <2>1, <2>2
<1>5. CacheTypes'
  BY <1>1 DEF CacheTypes
<1>6. Exclusive'
  BY <1>1, <1>4 DEF Exclusive, Cache!At
<1>7. Idles'
  BY <1>4 DEF Idles, Cache!At
<1>8. Captures'
  BY <1>1, <1>4 DEF Captures, Cache!At
<1>9. Uploads'
  BY <1>1, <1>4 DEF Uploads, Cache!At, Cache!Listed
<1>10. Sweeps'
  BY <1>1, <1>4 DEF Sweeps, Cache!At
<1>11. Tracked'
  BY <1>1, <1>4 DEF Tracked, Cache!At, Cache!Listed
<1>12. WithinReach'
  BY <1>1, <1>4 DEF WithinReach, Cache!Listed
<1> QED
  BY <1>4, <1>5, <1>6, <1>7, <1>8, <1>9, <1>10, <1>11, <1>12

\* A sweep writes back the manifest without what it deleted: no other process
\* wrote it in between.
LEMMA EndSweepKeeps ==
  ASSUME CacheInv, Cache!CacheRetentionAssumption, NEW p \in Cache!Process,
         Cache!EndSweep(p)
  PROVE  CacheInv'
<1> DEFINE w == IF p = Main THEN Cache!Idle ELSE Cache!Work("capture", doing[p].rec)
<1> USE DEF CacheInv
<1>1. /\ Cache!At(p, "delete") /\ lock = p /\ lock' = Nobody /\ doing[p].loaded = manifest
      /\ UNCHANGED <<files, state, delivered, orphaned>>
      /\ \A f \in files : f.rec \notin doing[p].gone
      /\ Cache!Goes(p, w)
  BY DEF Cache!EndSweep, Exclusive, Sweeps
<1>2. /\ manifest' \in [Recording -> Nat]
      /\ \A r \in Recording :
           /\ manifest'[r] > 0 => manifest[r] > 0
           /\ manifest[r] > 0 => manifest'[r] > 0 \/ r \in doing[p].gone
  BY <1>1 DEF Cache!EndSweep, Cache!Dropped, CacheTypes
<1>3. /\ w = Shape(w) /\ w.pc = (IF p = Main THEN "idle" ELSE "capture")
      /\ w.rec = doing[p].rec /\ w.rec \in Recording \cup {NoTake}
  BY <1>1, WorkFields DEF CacheShapes, Cache!Idle, Idles
<1> HIDE DEF w
<1>4. /\ CacheShapes'
      /\ \A q \in Cache!Process :
           /\ doing'[q].pc = IF q = p THEN (IF p = Main THEN "idle" ELSE "capture")
                            ELSE doing[q].pc
           /\ doing'[q].rec = doing[q].rec
           /\ q # p => doing'[q].loaded = doing[q].loaded
           /\ q # p => doing'[q].left = doing[q].left
           /\ q # p => doing'[q].gone = doing[q].gone
  BY <1>1, <1>3, OneGoes
<1>5. CacheTypes'
  BY <1>1, <1>2 DEF CacheTypes
<1>6. Exclusive'
  BY <1>1, <1>4 DEF Exclusive, Cache!At, Cache!Process, Cache!CacheRetentionAssumption
<1>7. Idles'
  BY <1>1, <1>4 DEF Idles, Cache!At
<1>8. Captures'
  BY <1>1, <1>4 DEF Captures, Cache!At
<1>9. Uploads'
  BY <1>1, <1>2, <1>4 DEF Uploads, Cache!At, Cache!Listed
<1>10. Sweeps'
  BY <1>1, <1>4 DEF Sweeps, Cache!At
<1>11. Tracked'
  BY <1>1, <1>2, <1>4 DEF Tracked, Cache!At, Cache!Listed
<1>12. WithinReach'
  BY <1>1, <1>2, <1>4 DEF WithinReach, Cache!Listed
<1> QED
  BY <1>4, <1>5, <1>6, <1>7, <1>8, <1>9, <1>10, <1>11, <1>12

\* A crash loses the locks and the plans, never the manifest.
LEMMA RestartKeeps ==
  ASSUME CacheInv, Cache!CacheRetentionAssumption, Cache!Restart
  PROVE  CacheInv'
<1> USE DEF CacheInv
<1>1. /\ UNCHANGED <<files, manifest, state, delivered>> /\ lock' = Nobody
      /\ \A p \in Cache!Process : doing[p].rec # NoTake =>
           doing[p].rec = state \/ doing[p].rec \in orphaned'
      /\ orphaned \subseteq orphaned'
  BY DEF Cache!Restart
<1>2. /\ CacheShapes'
      /\ \A q \in Cache!Process :
           /\ doing'[q].pc = IF q = Main /\ state # NoTake THEN "apply" ELSE "idle"
           /\ doing'[q].rec = IF q = Main THEN state ELSE NoTake
  <2>1. doing' = [p \in Cache!Process |->
                   IF p = Main /\ state # NoTake THEN Cache!Work("apply", state) ELSE Cache!Idle]
    BY DEF Cache!Restart
  <2>2. /\ Cache!Idle.pc = "idle" /\ Cache!Idle.rec = NoTake
        /\ Cache!Idle = Shape(Cache!Idle)
        /\ Cache!Work("apply", state).pc = "apply" /\ Cache!Work("apply", state).rec = state
        /\ Cache!Work("apply", state) = Shape(Cache!Work("apply", state))
    BY WorkFields DEF Cache!Idle
  <2>3. state \in Recording \cup {NoTake}
    BY DEF CacheTypes
  <2> HIDE DEF CacheInv
  <2> QED
    BY <2>1, <2>2, <2>3 DEF CacheShapes
<1>3. CacheTypes'
  BY <1>1 DEF CacheTypes
<1>4. Exclusive'
  BY <1>1, <1>2 DEF Exclusive, Cache!At, Cache!Process, Cache!CacheRetentionAssumption
<1>5. Idles'
  BY <1>2 DEF Idles, Cache!At
<1>6. Captures'
  BY <1>1, <1>2 DEF Captures, CacheTypes, Cache!At, Cache!CacheRetentionAssumption
<1>7. Uploads'
  BY <1>1, <1>2 DEF Uploads, CacheTypes, Cache!At, Cache!Listed
<1>8. Sweeps'
  BY <1>2 DEF Sweeps, Cache!At
<1>9. Tracked'
  BY <1>2 DEF Tracked, Cache!At
<1>10. WithinReach'
  BY <1>1, <1>2 DEF WithinReach, CacheTypes, Cache!Process, Cache!Listed,
     Cache!CacheRetentionAssumption
<1> QED
  BY <1>2, <1>3, <1>4, <1>5, <1>6, <1>7, <1>8, <1>9, <1>10

\* Time passes.
LEMMA TickKeeps ==
  ASSUME CacheInv, Cache!CacheRetentionAssumption, Cache!Tick
  PROVE  CacheInv'
<1> USE DEF CacheInv
<1>1. CacheShapes'
  BY DEF Cache!Tick, CacheShapes
<1>2. CacheTypes'
  BY DEF Cache!Tick, CacheTypes
<1>3. Exclusive'
  BY DEF Cache!Tick, Exclusive, Cache!At
<1>4. Idles'
  BY DEF Cache!Tick, Idles, Cache!At
<1>5. Captures'
  BY DEF Cache!Tick, Captures, Cache!At
<1>6. Uploads'
  BY DEF Cache!Tick, Uploads, Cache!At, Cache!Listed
<1>7. Sweeps'
  BY DEF Cache!Tick, Sweeps, Cache!At
<1>8. Tracked'
  BY DEF Cache!Tick, Tracked, Cache!At, Cache!Listed
<1>9. WithinReach'
  BY DEF Cache!Tick, WithinReach, Cache!Listed
<1> QED
  BY <1>1, <1>2, <1>3, <1>4, <1>5, <1>6, <1>7, <1>8, <1>9

\* A step outside of the cache.
LEMMA StutterKeeps == CacheInv /\ UNCHANGED Cache!vars => CacheInv'
BY DEF CacheInv, Cache!vars, CacheShapes, CacheTypes, Exclusive, Idles, Captures, Uploads,
   Sweeps, Tracked,
   WithinReach, Cache!At, Cache!Listed

------------------------------------------------------------------------------
(* The theorems *)

\* No take is uploaded at first.
THEOREM CacheInit == Cache!CacheRetentionAssumption /\ Cache!Init => CacheInv
<1> SUFFICES ASSUME Cache!CacheRetentionAssumption, Cache!Init
             PROVE  CacheInv
  OBVIOUS
<1>1. \A p \in Cache!Process : doing[p].pc = "idle" /\ doing[p].rec = NoTake
  BY WorkFields DEF Cache!Init, Cache!Idle
<1>2. CacheShapes /\ CacheTypes /\ Exclusive /\ Idles /\ Captures /\ Uploads /\ Sweeps /\ Tracked
  BY WorkFields DEF Cache!Init, Cache!Idle, CacheShapes, CacheTypes, Exclusive, Idles,
     Captures, Uploads, Sweeps,
     Tracked, Cache!At, Cache!Listed, Cache!NoPlaces, Cache!Process,
     Cache!CacheRetentionAssumption
<1> QED
  BY <1>2 DEF CacheInv, WithinReach, Cache!Init

\* Every step of the workers and of the main loop keeps the inductive invariant.
THEOREM CacheStep ==
  Cache!CacheRetentionAssumption /\ CacheInv /\ [Cache!Next]_Cache!vars => CacheInv'
BY TickKeeps, RestartKeeps, CaptureKeeps, DeliverKeeps, BeginTrackKeeps, TrackKeeps,
   TrackFailsKeeps, DeleteNowKeeps, DoneKeeps, BeginSweepKeeps, PlanSweepKeeps,
   DeleteFileKeeps, EndSweepKeeps, StutterKeeps DEF Cache!Next

\* The inductive invariant holds of every behaviour.
THEOREM CacheInvariant ==
  ASSUME Cache!CacheRetentionAssumption
  PROVE  Cache!Spec => []CacheInv
<1>1. Cache!Init => CacheInv
  BY CacheInit
<1>2. CacheInv /\ [Cache!Next]_Cache!vars => CacheInv'
  BY CacheStep
<1> QED
  BY <1>1, <1>2, PTL DEF Cache!Spec

\* No file of an uploaded take is out of the reach of the sweeps, but for takes that a
\* fault kept out of the manifest.
THEOREM NoTakeLeaks ==
  ASSUME Cache!CacheRetentionAssumption
  PROVE  Cache!Spec => []NothingLeaks
<1>1. CacheInv => NothingLeaks
  <2> SUFFICES ASSUME CacheInv
               PROVE  NothingLeaks
    OBVIOUS
  <2>1. DOMAIN doing = Cache!Process
    BY DEF CacheInv, CacheShapes
  <2> QED
    BY <2>1 DEF CacheInv, WithinReach, NothingLeaks, Cache!Listed
<1> QED
  BY <1>1, CacheInvariant, PTL

-----------------------------------------------------------------------------
(* What a sweep plans: sums of sizes *)

Sized(things) == IsFiniteSet(things) /\ \A x \in things : x.size \in Nat

\* A nonempty set of naturals has a least element.
LEMMA LeastNatural ==
  ASSUME NEW S \in SUBSET Nat, S # {}
  PROVE  \E d \in S : \A e \in S : d <= e
<1>1. PICK d \in S : \A e \in S : ~(<<e, d>> \in OpToRel(<, Nat))
  BY NatLessThanWellFounded, WFMin, Zenon
<1>2. ASSUME NEW e \in S, ~(d <= e)
      PROVE  FALSE
  <2>1. e \in Nat /\ d \in Nat /\ e < d
    BY <1>2
  <2>2. <<e, d>> \in OpToRel(<, Nat)
    BY <2>1 DEF OpToRel
  <2> QED  BY <1>1, <2>2
<1> QED  BY <1>1, <1>2, Zenon

\* The bytes of a file.
LEMMA OneFinite ==
  ASSUME NEW x, x.size \in Nat
  PROVE  IsFiniteSet({x} \X (1..x.size))
<1> DEFINE T == {x} \X (1..x.size)
           f == [i \in 1..x.size |-> <<x, i>>]
<1>1. f \in [1..x.size -> T] /\ \A t \in T : \E i \in 1..x.size : f[i] = t
  OBVIOUS
<1>2. f \in Surjection(1..x.size, T)
  BY <1>1 DEF Surjection
<1>3. IsFiniteSet(1..x.size)
  BY FS_Interval
<1> HIDE DEF f, T
<1>4. IsFiniteSet(T)
  BY <1>2, <1>3, FS_Surjection
<1> QED  BY <1>4 DEF T

\* A part of a disk has finitely many bytes.
LEMMA BytesFinite ==
  ASSUME NEW S, Sized(S)
  PROVE  IsFiniteSet(Bytes(S))
<1> DEFINE F == {{x} \X (1..x.size) : x \in S}
           f == [x \in S |-> {x} \X (1..x.size)]
<1>1. f \in [S -> F] /\ \A t \in F : \E x \in S : f[x] = t
  OBVIOUS
<1>2. f \in Surjection(S, F)
  BY <1>1 DEF Surjection
<1>3. \A t \in F : IsFiniteSet(t)
  BY OneFinite DEF Sized
<1> HIDE DEF f, F
<1>4. IsFiniteSet(F)
  BY <1>2, FS_Surjection DEF Sized
<1>5. IsFiniteSet(UNION F)
  BY <1>3, <1>4, FS_UNION
<1> QED  BY <1>5 DEF Bytes, F

\* A size is a natural number, and that of a part is no larger.
LEMMA SizeGrows ==
  ASSUME NEW S, Sized(S), NEW T \in SUBSET S
  PROVE  Sized(T) /\ Size(T) \in Nat /\ Size(S) \in Nat /\ Size(T) <= Size(S)
<1>1. Sized(T)
  BY FS_Subset DEF Sized
<1>2. Bytes(T) \in SUBSET Bytes(S)
  BY DEF Bytes
<1> QED  BY <1>1, <1>2, BytesFinite, FS_Subset, FS_CardinalityType DEF Size

\* Sizes add up.
LEMMA SizeSplits ==
  ASSUME NEW S, Sized(S), NEW T \in SUBSET S
  PROVE  Size(S) = Size(T) + Size(S \ T)
<1>1. Sized(T) /\ Sized(S \ T)
  BY SizeGrows
<1>2. Bytes(S) = Bytes(T) \cup Bytes(S \ T) /\ Bytes(T) \cap Bytes(S \ T) = {}
  <2>1. \A pair : pair \in Bytes(S) <=> pair \in Bytes(T) \/ pair \in Bytes(S \ T)
    BY DEF Bytes
  <2>2. ASSUME NEW pair \in Bytes(T), pair \in Bytes(S \ T) PROVE FALSE
    <3>1. pair[1] \in T
      BY DEF Bytes
    <3>2. pair[1] \in S \ T
      BY <2>2 DEF Bytes
    <3> QED  BY <3>1, <3>2
  <2> QED  BY <2>1, <2>2
<1>3. IsFiniteSet(Bytes(T)) /\ IsFiniteSet(Bytes(S \ T))
  BY <1>1, BytesFinite
<1>4. Cardinality(Bytes(T) \cap Bytes(S \ T)) = 0
  BY <1>2, FS_EmptySet
<1>5. Cardinality(Bytes(T) \cup Bytes(S \ T))
        = Cardinality(Bytes(T)) + Cardinality(Bytes(S \ T))
          - Cardinality(Bytes(T) \cap Bytes(S \ T))
  BY <1>3, FS_Union, Zenon
<1>6. Cardinality(Bytes(T)) \in Nat /\ Cardinality(Bytes(S \ T)) \in Nat
  BY <1>3, FS_CardinalityType
<1> QED  BY <1>2, <1>4, <1>5, <1>6 DEF Size

\* Nothing has no size.
LEMMA SizeEmpty == Size({}) = 0
<1>1. Bytes({}) = {}
  BY DEF Bytes
<1> QED  BY <1>1, FS_EmptySet DEF Size

-----------------------------------------------------------------------------
(* What a sweep plans: the oldest first *)

\* Candidates of different places, with sizes and times.
Ranked(cands) ==
  /\ Sized(cands)
  /\ \A c \in cands : c.at \in Nat /\ c.pos \in Nat
  /\ \A c, d \in cands : c.pos = d.pos => c = d

\* The candidates of a sweep are in a strict order.
LEMMA InOrder ==
  ASSUME NEW cands, Ranked(cands), NEW b \in cands, NEW c \in cands
  PROVE  /\ ~Before(c, c)
         /\ b = c \/ Before(b, c) \/ Before(c, b)
         /\ \A a \in cands : Before(a, b) /\ Before(b, c) => Before(a, c)
<1>1. /\ b.at \in Nat /\ b.pos \in Nat /\ c.at \in Nat /\ c.pos \in Nat
      /\ b.pos = c.pos => b = c
      /\ \A a \in cands : a.at \in Nat /\ a.pos \in Nat
  BY DEF Ranked
<1> QED  BY <1>1 DEF Before

\* A first one of some: the one with the fewest before it.
LEMMA AFirst ==
  ASSUME NEW cands, Ranked(cands), NEW some \in SUBSET cands, some # {}
  PROVE  \E c \in some : \A b \in some : ~Before(b, c)
<1> DEFINE Earlier(c) == {b \in some : Before(b, c)}
           counts == {Cardinality(Earlier(c)) : c \in some}
<1>1. \A c \in some : IsFiniteSet(Earlier(c)) /\ Cardinality(Earlier(c)) \in Nat
  <2>1. IsFiniteSet(some)
    BY FS_Subset DEF Ranked, Sized
  <2> QED  BY <2>1, FS_Subset, FS_CardinalityType
<1>2. counts \in SUBSET Nat /\ counts # {}
  BY <1>1
<1>3. PICK n \in counts : \A m \in counts : n <= m
  <2> HIDE DEF counts
  <2> QED  BY <1>2, LeastNatural
<1>4. PICK c \in some : n = Cardinality(Earlier(c))
  BY <1>3
<1>5. ASSUME NEW b \in some, Before(b, c) PROVE FALSE
  <2>1. Earlier(b) \in SUBSET Earlier(c) /\ b \in Earlier(c) /\ b \notin Earlier(b)
    BY <1>5, InOrder
  <2>2. Cardinality(Earlier(b)) <= n /\ n # Cardinality(Earlier(b))
    <3> HIDE DEF Earlier
    <3> QED  BY <1>1, <1>4, <2>1, FS_Subset
  <2>3. n <= Cardinality(Earlier(b))
    BY <1>3
  <2> QED  BY <1>1, <1>4, <2>2, <2>3
<1> QED  BY <1>5

Eldest(cands, need) == {c \in cands : Size({b \in cands : Before(b, c)}) < need}

\* The oldest make up what is needed, unless they are all.
LEMMA EldestSuffice ==
  ASSUME NEW cands, Ranked(cands), NEW need \in Int
  PROVE  Eldest(cands, need) = cands \/ Size(Eldest(cands, need)) >= need
<1> DEFINE old == Eldest(cands, need)
<1>1. SUFFICES ASSUME old # cands PROVE Size(old) >= need
  OBVIOUS
<1>2. old \in SUBSET cands /\ cands \ old # {}
  BY <1>1 DEF Eldest
<1>3. PICK c \in cands \ old : \A b \in cands \ old : ~Before(b, c)
  BY <1>2, AFirst
<1> DEFINE earlier == {b \in cands : Before(b, c)}
<1>4. earlier \in SUBSET old
  BY <1>3
<1>5. ~(Size(earlier) < need)
  BY <1>3 DEF Eldest
<1>6. Sized(cands)
  BY DEF Ranked
<1>7. Sized(old) /\ Size(old) \in Nat /\ Size(earlier) \in Nat /\ Size(earlier) <= Size(old)
  <2> HIDE DEF earlier, old
  <2> QED  BY <1>2, <1>4, <1>6, SizeGrows
<1> QED  BY <1>5, <1>7

\* They come before all others.
LEMMA EldestFirst ==
  ASSUME NEW cands, Ranked(cands), NEW need \in Int,
         NEW c \in Eldest(cands, need), NEW b \in cands \ Eldest(cands, need)
  PROVE  Before(c, b)
<1> DEFINE Earlier(x) == {y \in cands : Before(y, x)}
<1>1. c \in cands /\ Size(Earlier(c)) < need /\ ~(Size(Earlier(b)) < need)
  BY DEF Eldest
<1>2. SUFFICES ASSUME Before(b, c) PROVE FALSE
  BY <1>1, InOrder
<1>3. Earlier(b) \in SUBSET Earlier(c) /\ Earlier(c) \in SUBSET cands
  BY <1>1, <1>2, InOrder
<1>4. Sized(cands)
  BY DEF Ranked
<1> HIDE DEF Earlier
<1>5. Size(Earlier(b)) \in Nat /\ Size(Earlier(c)) \in Nat /\ Size(Earlier(b)) <= Size(Earlier(c))
  BY <1>3, <1>4, SizeGrows
<1> QED  BY <1>1, <1>5

\* The oldest of something do not suffice without the last of them.
LEMMA EldestNeeded ==
  ASSUME NEW cands, Ranked(cands), NEW need \in Int, NEW c \in Eldest(cands, need),
         \A b \in Eldest(cands, need) : ~Before(c, b)
  PROVE  Size(Eldest(cands, need) \ {c}) < need /\ Size(Eldest(cands, need) \ {c}) \in Nat
<1> DEFINE Earlier == {b \in cands : Before(b, c)}
           others == Eldest(cands, need) \ {c}
<1>1. c \in cands /\ Size(Earlier) < need /\ Earlier \in SUBSET cands
  BY DEF Eldest
<1>2. Eldest(cands, need) \in SUBSET cands
  BY DEF Eldest
<1>3. others \in SUBSET Earlier /\ others \in SUBSET cands
  BY <1>1, <1>2, InOrder
<1>4. Sized(cands)
  BY DEF Ranked
<1> HIDE DEF Earlier, others
<1>5. Sized(Earlier) /\ Size(Earlier) \in Nat
  BY <1>1, <1>4, SizeGrows
<1>6. Size(others) \in Nat /\ Size(others) <= Size(Earlier)
  BY <1>3, <1>5, SizeGrows
<1> QED  BY <1>1, <1>5, <1>6 DEF others

\* So are some of them.
LEMMA RankedPart ==
  ASSUME NEW cands, Ranked(cands), NEW some \in SUBSET cands
  PROVE  Ranked(some)
<1>1. Sized(some)
  BY SizeGrows DEF Ranked
<1> QED  BY <1>1 DEF Ranked

\* The operators of the model are those of the promise.
LEMMA SameSize == \A things : Cache!Size(things) = Size(things)
<1>1. \A things : Cache!Bytes(things) = Bytes(things)
  BY DEF Cache!Bytes, Bytes
<1>2. \A S : Cache!Cardinality(S) = Cardinality(S)
  BY Zenon DEF Cache!Cardinality, Cardinality
<1> QED  BY <1>1, <1>2 DEF Cache!Size, Size

\* And the oldest that a sweep takes are the eldest of above.
LEMMA SameOldest == \A cands, need : Cache!Oldest(cands, need) = Eldest(cands, need)
BY SameSize DEF Cache!Oldest, Eldest, Cache!Before, Before

\* What is planned for one policy, in its three parts.
LEMMA ThreeParts ==
  ASSUME NEW cands, NEW free, NEW plan, NEW p
  PROVE  LET mine == Under(cands, p)
             aged == Aged(mine, p)
             young == mine \ aged
             big == Eldest(young, Size(young) - Limits[p].bytes)
             rest == young \ big
             before == plan \cup aged \cup big
             need == IF free >= Limits[p].free THEN 0 ELSE Limits[p].free - free - Size(before) IN
         Cache!Planned(cands, free, plan, p) = aged \cup big \cup Eldest(rest, need)
<1> DEFINE mine == Under(cands, p)
           aged == Aged(mine, p)
           young == mine \ aged
           big == Eldest(young, Size(young) - Limits[p].bytes)
           rest == young \ big
<1>1. Cache!Under(cands, p) = mine /\ Cache!Aged(mine, p) = aged
  BY DEF Cache!Under, Under, Cache!Aged, Aged
<1>2. mine \ (aged \cup big) = rest
  OBVIOUS
<1>3. Cache!Planned(cands, free, plan, p)
        = aged \cup big \cup
          Eldest(rest, Cache!Shortage(Limits[p].free, free, Size(plan \cup aged \cup big)))
  <2> HIDE DEF mine, aged, rest
  <2> QED  BY <1>1, <1>2, SameSize, SameOldest, Zenon DEF Cache!Planned
<1> HIDE DEF mine, aged, young, big, rest
<1> QED  BY <1>3, Zenon DEF Cache!Shortage, mine, aged, young, big, rest

\* One policy's plan leaves what fits, and takes no more than that needs.
FitsOne(cands, free, plan, p, more, spared) ==
  /\ Size(spared) <= Limits[p].bytes
  /\ spared = {} \/ free + Size(plan \cup more) >= Limits[p].free
  /\ \A c \in more \ Aged(cands, p) :
       /\ \A b \in spared : Before(c, b)
       /\ \/ Size(spared \cup {c}) > Limits[p].bytes
          \/ free + Size((plan \cup more) \ {c}) < Limits[p].free
          \/ \E b \in more : Before(c, b)

\* So it is with what the code plans for a policy.
LEMMA OnePolicyFits ==
  ASSUME NEW cands, Ranked(cands), NEW free \in Int, NEW plan \in SUBSET cands, NEW p,
         Under(plan, p) = {}, clock \in Nat,
         Limits[p].age \in Nat, Limits[p].bytes \in Nat, Limits[p].free \in Nat,
         NEW more, more = Cache!Planned(cands, free, plan, p),
         NEW spared, spared = Under(cands, p) \ more
  PROVE  FitsOne(cands, free, plan, p, more, spared)
<1> DEFINE mine == Under(cands, p)
           aged == Aged(mine, p)
           young == mine \ aged
           much == Size(young) - Limits[p].bytes
           big == Eldest(young, much)
           rest == young \ big
           before == plan \cup aged \cup big
           need == IF free >= Limits[p].free THEN 0 ELSE Limits[p].free - free - Size(before)
           last == Eldest(rest, need)
<1>1. more = aged \cup big \cup last
  BY ThreeParts, Zenon
<1>2. /\ mine \in SUBSET cands /\ aged \in SUBSET mine /\ young \in SUBSET cands
      /\ \A c \in cands : c \in Aged(cands, p) /\ c \in mine => c \in aged
      /\ plan \cap mine = {}
  BY DEF Under, Aged
<1>3. big \in SUBSET young /\ last \in SUBSET rest
  BY DEF Eldest
<1> HIDE DEF mine, aged
<1>4. /\ rest \in SUBSET cands /\ before \in SUBSET cands /\ spared = rest \ last
      /\ plan \cup more = before \cup last /\ before \cap last = {}
  <2>1. spared = mine \ more
    BY DEF mine
  <2> QED  BY <1>1, <1>2, <1>3, <2>1
<1>5. Ranked(young) /\ Ranked(rest)
  BY <1>2, <1>4, RankedPart
<1>6. Sized(cands) /\ Sized(young) /\ Sized(rest)
  BY <1>5 DEF Ranked
<1>7. /\ Size(young) \in Nat /\ Size(rest) \in Nat /\ Size(before) \in Nat
      /\ Size(big) \in Nat /\ Size(last) \in Nat /\ Size(spared) \in Nat
      /\ Size(spared) <= Size(rest)
  <2> HIDE DEF young, big, rest, before, last
  <2> QED  BY <1>3, <1>4, <1>6, <1>2, SizeGrows
<1>8. much \in Int /\ need \in Int
  BY <1>7
<1> HIDE DEF much, need
<1>9. big = young \/ Size(big) >= much
  BY <1>5, <1>8, EldestSuffice
<1>10. last = rest \/ Size(last) >= need
  BY <1>5, <1>8, EldestSuffice
<1>11. \A c \in big, b \in young \ big : Before(c, b)
  BY <1>5, <1>8, EldestFirst
<1>12. \A c \in last, b \in rest \ last : Before(c, b)
  BY <1>5, <1>8, EldestFirst
<1>13. /\ \A c \in big : (\A b \in big : ~Before(c, b)) =>
            Size(big \ {c}) < much /\ Size(big \ {c}) \in Nat
       /\ \A c \in last : (\A b \in last : ~Before(c, b)) =>
            Size(last \ {c}) < need /\ Size(last \ {c}) \in Nat
  BY <1>5, <1>8, EldestNeeded
<1> HIDE DEF big, last, young
<1>14. Size(rest) <= Limits[p].bytes
  <2>1. Size(young) = Size(big) + Size(rest)
    BY <1>3, <1>6, SizeSplits
  <2>2. CASE big = young
    BY <2>2, SizeEmpty
  <2>3. CASE Size(big) >= much
    BY <1>7, <2>1, <2>3 DEF much
  <2> QED  BY <1>9, <2>2, <2>3
<1> HIDE DEF rest, before
<1>15. Size(plan \cup more) = Size(before) + Size(last)
  <2>1. Sized(plan \cup more)
    <3>1. plan \cup more \in SUBSET cands
      BY <1>3, <1>4
    <3> QED  BY <1>6, <3>1, SizeGrows
  <2>2. before \in SUBSET (plan \cup more) /\ (plan \cup more) \ before = last
    BY <1>4
  <2> QED  BY <2>1, <2>2, SizeSplits
<1>16. more \in SUBSET mine
  BY <1>1, <1>2, <1>3 DEF young, rest
<1>17. spared = {} \/ free + Size(plan \cup more) >= Limits[p].free
  BY <1>4, <1>7, <1>10, <1>15 DEF need
<1>18. ASSUME NEW c \in more \ Aged(cands, p)
       PROVE  /\ \A b \in spared : Before(c, b)
              /\ \/ Size(spared \cup {c}) > Limits[p].bytes
                 \/ free + Size((plan \cup more) \ {c}) < Limits[p].free
                 \/ \E b \in more : Before(c, b)
  <2>1. c \in big \/ c \in last
    BY <1>1, <1>2, <1>16 DEF Aged, aged
  <2>2. \A b \in spared : Before(c, b)
    BY <1>3, <1>4, <1>11, <1>12, <2>1 DEF rest
  <2>3. ASSUME \A b \in more : ~Before(c, b), c \in last
        PROVE  free + Size((plan \cup more) \ {c}) < Limits[p].free
    <3>1. Size(last \ {c}) < need /\ Size(last \ {c}) \in Nat
      BY <1>1, <1>13, <2>3
    <3>2. Size((plan \cup more) \ {c}) = Size(before) + Size(last \ {c})
      <4>1. (plan \cup more) \ {c} \in SUBSET cands
        BY <1>3, <1>4
      <4>2. Sized((plan \cup more) \ {c})
        BY <1>6, <4>1, SizeGrows
      <4>3. before \in SUBSET ((plan \cup more) \ {c})
        BY <1>4, <2>3
      <4>4. ((plan \cup more) \ {c}) \ before = last \ {c}
        BY <1>4
      <4> QED  BY <4>2, <4>3, <4>4, SizeSplits
    <3> QED  BY <1>7, <3>1, <3>2 DEF need
  <2>4. ASSUME \A b \in more : ~Before(c, b), c \in big
        PROVE  Size(spared \cup {c}) > Limits[p].bytes
    <3>1. Size(big \ {c}) < much /\ Size(big \ {c}) \in Nat
      BY <1>1, <1>13, <2>4
    <3>2. last = {}
      BY <1>1, <1>3, <1>11, <2>4 DEF rest
    <3>3. big \ {c} \in SUBSET young /\ young \ (big \ {c}) = spared \cup {c}
      BY <1>3, <1>4, <2>4, <3>2 DEF rest
    <3>4. Size(young) = Size(big \ {c}) + Size(spared \cup {c})
      BY <1>6, <3>3, SizeSplits
    <3>5. Size(spared \cup {c}) \in Nat
      <4>1. spared \cup {c} \in SUBSET young
        BY <1>3, <1>4, <2>4 DEF rest
      <4> QED  BY <1>6, <4>1, SizeGrows
    <3> QED  BY <1>7, <3>1, <3>4, <3>5 DEF much
  <2> QED  BY <2>1, <2>2, <2>3, <2>4
<1>19. Size(spared) <= Limits[p].bytes
  BY <1>7, <1>14
<1> QED  BY <1>17, <1>18, <1>19 DEF FitsOne

-----------------------------------------------------------------------------
(* What a sweep plans: one policy after the other *)

\* upTo is what Plan has planned after each of the first policies.
PlanUpTo(cands, free, n, upTo) ==
  upTo = [k \in 0..n |->
           IF k = 0 THEN {} ELSE Cache!Widened(cands, free, upTo[k - 1], Policies[k])]

\* There is such a function: a shortest part without one would have one.
LEMMA PlansExist ==
  ASSUME NEW cands, NEW free, NEW n \in Nat
  PROVE  \E upTo : PlanUpTo(cands, free, n, upTo)
<1> DEFINE Without == {m \in Nat : ~\E upTo : PlanUpTo(cands, free, m, upTo)}
<1>1. SUFFICES ASSUME Without # {} PROVE FALSE
  OBVIOUS
<1>2. PICK m \in Without : \A e \in Without : m <= e
  <2>1. Without \in SUBSET Nat
    OBVIOUS
  <2> HIDE DEF Without
  <2> QED  BY <1>1, <2>1, LeastNatural
<1>3. m # 0
  <2>1. PlanUpTo(cands, free, 0, [k \in 0..0 |-> {}])
    BY DEF PlanUpTo
  <2> QED  BY <2>1
<1>4. m - 1 \in Nat /\ m - 1 \notin Without
  BY <1>2, <1>3
<1>5. PICK shorter : PlanUpTo(cands, free, m - 1, shorter)
  BY <1>4
<1> DEFINE W(plan, k) == Cache!Widened(cands, free, plan, Policies[k])
           upTo == [k \in 0..m |-> IF k = m THEN W(shorter[m - 1], m) ELSE shorter[k]]
<1>6. shorter = [k \in 0..(m - 1) |-> IF k = 0 THEN {} ELSE W(shorter[k - 1], k)]
  BY <1>5 DEF PlanUpTo
<1>7. upTo = [k \in 0..m |-> IF k = 0 THEN {} ELSE W(upTo[k - 1], k)]
  <2> HIDE DEF W
  <2>1. ASSUME NEW k \in 0..m PROVE upTo[k] = IF k = 0 THEN {} ELSE W(upTo[k - 1], k)
    <3>1. CASE k = m
      <4>1. upTo[k - 1] = shorter[m - 1]
        BY <1>3, <1>4, <3>1
      <4> QED  BY <1>3, <3>1, <4>1
    <3>2. CASE k # m
      <4>1. k \in 0..(m - 1) /\ upTo[k] = shorter[k]
        BY <3>2, <1>4
      <4>2. shorter[k] = IF k = 0 THEN {} ELSE W(shorter[k - 1], k)
        BY <1>6, <4>1
      <4>3. k # 0 => k - 1 \in 0..m /\ k - 1 # m
        BY <4>1, <1>4
      <4>4. k # 0 => upTo[k - 1] = shorter[k - 1]
        BY <4>3
      <4> QED  BY <4>1, <4>2, <4>4
    <3> QED  BY <3>1, <3>2
  <2> QED  BY <2>1
<1>8. PlanUpTo(cands, free, m, upTo)
  BY <1>7 DEF PlanUpTo
<1> QED  BY <1>2, <1>8

\* The plan of a sweep is what that function has for all policies.
LEMMA PlanIsUpTo ==
  ASSUME NEW cands, NEW free, Len(Policies) \in Nat
  PROVE  \E upTo : /\ PlanUpTo(cands, free, Len(Policies), upTo)
                   /\ Cache!Plan(cands, free, Policies) = upTo[Len(Policies)]
<1> DEFINE n == Len(Policies)
           upTo == CHOOSE f : PlanUpTo(cands, free, n, f)
<1>1. PlanUpTo(cands, free, n, upTo)
  BY PlansExist
<1>2. Cache!Plan(cands, free, Policies) = upTo[n]
  BY Zenon DEF Cache!Plan, PlanUpTo
<1> QED  BY <1>1, <1>2

\* What the policies are.
PolicyTypes ==
  /\ Len(Policies) \in Nat /\ DOMAIN Policies = 1..Len(Policies)
  /\ \A i, k \in 1..Len(Policies) : Policies[i] = Policies[k] => i = k
  /\ \A k \in 1..Len(Policies) :
       /\ Limits[Policies[k]].age \in Nat /\ Limits[Policies[k]].bytes \in Nat
       /\ Limits[Policies[k]].free \in Nat

\* The assumption of CacheRetention says so.
LEMMA PoliciesTyped == Cache!CacheRetentionAssumption => PolicyTypes
<1> SUFFICES ASSUME Cache!CacheRetentionAssumption PROVE PolicyTypes
  OBVIOUS
<1>1. Policies \in Seq(Cache!Range(Policies)) /\ Cache!IsInjective(Policies)
  BY DEF Cache!CacheRetentionAssumption
<1>2. Len(Policies) \in Nat /\ DOMAIN Policies = 1..Len(Policies)
  BY <1>1
<1>3. \A k \in 1..Len(Policies) : Policies[k] \in Cache!Range(Policies)
  BY <1>2 DEF Cache!Range
<1>4. \A p \in Cache!Range(Policies) :
        Limits[p].age \in Nat /\ Limits[p].bytes \in Nat /\ Limits[p].free \in Nat
  BY DEF Cache!CacheRetentionAssumption
<1> QED  BY <1>1, <1>2, <1>3, <1>4 DEF PolicyTypes, Cache!IsInjective

\* Up to some policy, a plan has candidates of the policies up to there, and what it
\* has that an earlier one had not is of the policies between them.
GrowsTo(cands, upTo, m) ==
  /\ upTo[m] \in SUBSET cands
  /\ \A j \in 0..m :
       /\ upTo[j] \in SUBSET upTo[m]
       /\ \A c \in upTo[m] \ upTo[j] : \E i \in (j + 1)..m : policy[c.rec] = Policies[i]

\* What is planned for a policy is among its candidates.
LEMMA PlannedIsUnder ==
  ASSUME NEW cands, NEW free, NEW plan, NEW p
  PROVE  Cache!Planned(cands, free, plan, p) \in SUBSET Under(cands, p)
<1>1. \A S, need : Eldest(S, need) \in SUBSET S
  BY DEF Eldest
<1>2. \A S : Aged(S, p) \in SUBSET S
  BY DEF Aged
<1> DEFINE mine == Under(cands, p)
           aged == Aged(mine, p)
           young == mine \ aged
           big == Eldest(young, Size(young) - Limits[p].bytes)
           rest == young \ big
           before == plan \cup aged \cup big
           need == IF free >= Limits[p].free THEN 0 ELSE Limits[p].free - free - Size(before)
<1>3. Cache!Planned(cands, free, plan, p) = aged \cup big \cup Eldest(rest, need)
  BY ThreeParts, Zenon
<1>4. aged \in SUBSET mine /\ big \in SUBSET young /\ Eldest(rest, need) \in SUBSET rest
  BY <1>1, <1>2
<1> HIDE DEF mine, aged, big, need
<1> QED  BY <1>3, <1>4 DEF mine

\* Each policy adds what is planned for it.
PlansStepwise(cands, free, n, upTo) ==
  /\ upTo[0] = {}
  /\ \A k \in 1..n :
       upTo[k] = upTo[k - 1] \cup Cache!Planned(cands, free, upTo[k - 1], Policies[k])

\* The function of Plan is such a one.
LEMMA UpToSteps ==
  ASSUME NEW cands, NEW free, NEW n \in Nat, NEW upTo, PlanUpTo(cands, free, n, upTo)
  PROVE  PlansStepwise(cands, free, n, upTo)
<1>1. upTo[0] = {}
  BY DEF PlanUpTo
<1>2. ASSUME NEW k \in 1..n
      PROVE  upTo[k] = upTo[k - 1] \cup Cache!Planned(cands, free, upTo[k - 1], Policies[k])
  <2>1. k \in 0..n /\ k # 0
    OBVIOUS
  <2>2. upTo[k] = Cache!Widened(cands, free, upTo[k - 1], Policies[k])
    BY <2>1 DEF PlanUpTo
  <2> QED  BY <2>2 DEF Cache!Widened
<1> QED  BY <1>1, <1>2 DEF PlansStepwise

\* The first policy that it would not hold for adds candidates of its own only.
LEMMA UpToGrows ==
  ASSUME NEW cands, NEW free, NEW n \in Nat, NEW upTo, PlanUpTo(cands, free, n, upTo),
         NEW m \in 0..n
  PROVE  GrowsTo(cands, upTo, m)
<1> DEFINE Bad == {k \in 0..n : ~GrowsTo(cands, upTo, k)}
<1>1. SUFFICES ASSUME Bad # {} PROVE FALSE
  OBVIOUS
<1>2. PICK k \in Bad : \A e \in Bad : k <= e
  <2>1. Bad \in SUBSET Nat
    OBVIOUS
  <2> HIDE DEF Bad
  <2> QED  BY <1>1, <2>1, LeastNatural
<1>3. k # 0
  <2>1. upTo[0] = {}
    BY UpToSteps DEF PlansStepwise
  <2>2. GrowsTo(cands, upTo, 0)
    BY <2>1 DEF GrowsTo
  <2> QED  BY <1>2, <2>2
<1>4. k - 1 \in 0..n /\ k - 1 \notin Bad /\ k \in 1..n
  BY <1>2, <1>3
<1>5. GrowsTo(cands, upTo, k - 1)
  BY <1>4
<1> DEFINE more == Cache!Planned(cands, free, upTo[k - 1], Policies[k])
<1>6. upTo[k] = upTo[k - 1] \cup more
  <2>1. \A i \in 1..n :
          upTo[i] = upTo[i - 1] \cup Cache!Planned(cands, free, upTo[i - 1], Policies[i])
    BY UpToSteps DEF PlansStepwise
  <2> QED  BY <1>4, <2>1, Zenon
<1>7. more \in SUBSET cands /\ \A c \in more : policy[c.rec] = Policies[k]
  BY PlannedIsUnder DEF Under
<1> HIDE DEF more
<1>8. upTo[k] \in SUBSET cands
  BY <1>5, <1>6, <1>7 DEF GrowsTo
<1>9. ASSUME NEW j \in 0..k
      PROVE  /\ upTo[j] \in SUBSET upTo[k]
             /\ \A c \in upTo[k] \ upTo[j] : \E i \in (j + 1)..k : policy[c.rec] = Policies[i]
  <2>1. CASE j = k
    BY <2>1
  <2>2. CASE j # k
    <3>1. j \in 0..(k - 1)
      BY <1>4, <2>2
    <3>2. /\ upTo[j] \in SUBSET upTo[k - 1]
          /\ \A c \in upTo[k - 1] \ upTo[j] :
               \E i \in (j + 1)..(k - 1) : policy[c.rec] = Policies[i]
      BY <1>5, <3>1 DEF GrowsTo
    <3>3. ASSUME NEW c \in upTo[k] \ upTo[j]
          PROVE  \E i \in (j + 1)..k : policy[c.rec] = Policies[i]
      <4>1. CASE c \in more
        <5>1. k \in (j + 1)..k
          BY <1>4, <3>1
        <5> QED  BY <1>7, <4>1, <5>1
      <4>2. CASE c \in upTo[k - 1]
        <5>1. PICK i \in (j + 1)..(k - 1) : policy[c.rec] = Policies[i]
          BY <3>2, <4>2
        <5>2. i \in (j + 1)..k
          BY <1>4
        <5> QED  BY <5>1, <5>2
      <4> QED  BY <1>6, <4>1, <4>2
    <3> QED  BY <1>6, <3>2, <3>3
  <2> QED  BY <2>1, <2>2
<1>10. GrowsTo(cands, upTo, k)
  BY <1>8, <1>9 DEF GrowsTo
<1> QED  BY <1>2, <1>10

\* SweepFits of one sweep, by the policies of the takes and a time.
FitsAt(policyOf, time, cands, plan, free) ==
  LET of(S, p) == {c \in S : policyOf[c.rec] = p}
      aged(p) == {c \in cands : time - c.at >= Limits[p].age}
      spared == cands \ plan
      upTo(k) == UNION {of(plan, Policies[i]) : i \in 1..k} IN
  \A k \in DOMAIN Policies :
    LET limit == Limits[Policies[k]]
        mine == of(spared, Policies[k]) IN
    /\ Size(mine) <= limit.bytes
    /\ mine = {} \/ free + Size(plan) >= limit.free
    /\ \A c \in of(plan, Policies[k]) \ aged(Policies[k]) :
         /\ \A b \in mine : Before(c, b)
         /\ \/ Size(mine \cup {c}) > limit.bytes
            \/ free + Size(upTo(k) \ {c}) < limit.free
            \/ \E b \in of(plan, Policies[k]) : Before(c, b)

\* A plan fits.
LEMMA PlanFits ==
  ASSUME PolicyTypes, clock \in Nat, NEW cands, Ranked(cands), NEW free \in Int,
         NEW plan, plan = Cache!Plan(cands, free, Policies)
  PROVE  plan \in SUBSET cands /\ FitsAt(policy, clock, cands, plan, free)
<1> DEFINE n == Len(Policies)
<1>1. n \in Nat
  BY DEF PolicyTypes
<1>2. PICK upTo : PlanUpTo(cands, free, n, upTo) /\ plan = upTo[n]
  BY <1>1, PlanIsUpTo
<1> HIDE DEF n
<1>3. \A m \in 0..n : GrowsTo(cands, upTo, m)
  BY <1>1, <1>2, UpToGrows
<1>4. PlansStepwise(cands, free, n, upTo) /\ upTo[0] = {}
  <2>1. PlansStepwise(cands, free, n, upTo)
    BY <1>1, <1>2, UpToSteps
  <2> QED  BY <2>1 DEF PlansStepwise
<1>5. plan \in SUBSET cands
  <2>1. GrowsTo(cands, upTo, n)
    BY <1>1, <1>3
  <2> QED  BY <1>2, <2>1 DEF GrowsTo
<1>6. ASSUME NEW k \in 1..n
      PROVE  LET limit == Limits[Policies[k]]
                 mine == Under(cands \ plan, Policies[k])
                 sofar == UNION {Under(plan, Policies[i]) : i \in 1..k} IN
             /\ Size(mine) <= limit.bytes
             /\ mine = {} \/ free + Size(plan) >= limit.free
             /\ \A c \in Under(plan, Policies[k]) \ Aged(cands, Policies[k]) :
                  /\ \A b \in mine : Before(c, b)
                  /\ \/ Size(mine \cup {c}) > limit.bytes
                     \/ free + Size(sofar \ {c}) < limit.free
                     \/ \E b \in Under(plan, Policies[k]) : Before(c, b)
    <2> DEFINE p == Policies[k]
               more == Cache!Planned(cands, free, upTo[k - 1], p)
               mine == Under(cands \ plan, p)
               sofar == UNION {Under(plan, Policies[i]) : i \in 1..k}
    <2>1. upTo[k] = upTo[k - 1] \cup more /\ k - 1 \in 0..n /\ k \in 0..n
      <3>1. k - 1 \in 0..n /\ k \in 0..n
        BY <1>1
      <3>2. upTo[k] = upTo[k - 1] \cup more
        BY <1>4 DEF PlansStepwise
      <3> QED  BY <3>1, <3>2
    <2>2. more \in SUBSET Under(cands, p)
      BY PlannedIsUnder
    <2>3. \A i, j \in 1..n : Policies[i] = Policies[j] => i = j
      BY DEF PolicyTypes, n
    <2> HIDE DEF more
    <2>4. /\ upTo[k - 1] \in SUBSET cands
          /\ \A c \in upTo[k - 1] : \E i \in 1..(k - 1) : policy[c.rec] = Policies[i]
      <3>1. GrowsTo(cands, upTo, k - 1) /\ 0 \in 0..(k - 1)
        BY <1>3, <2>1
      <3> QED  BY <1>4, <3>1 DEF GrowsTo
    <2>5. /\ upTo[k] \in SUBSET plan
          /\ \A c \in plan \ upTo[k] : \E i \in (k + 1)..n : policy[c.rec] = Policies[i]
      <3>1. GrowsTo(cands, upTo, n)
        BY <1>1, <1>3
      <3> QED  BY <1>2, <3>1 DEF GrowsTo
    <2>6. Under(upTo[k - 1], p) = {}
      <3>1. ASSUME NEW c \in upTo[k - 1] PROVE policy[c.rec] # p
        BY <2>3, <2>4, <1>1
      <3> QED  BY <3>1 DEF Under
    <2>7. Under(plan, p) = more
      <3>1. ASSUME NEW c \in plan, policy[c.rec] = p PROVE c \in more
        <4>1. c \in upTo[k]
          BY <1>1, <2>3, <2>5, <3>1
        <4>2. c \notin upTo[k - 1]
          BY <2>6, <3>1 DEF Under
        <4> QED  BY <2>1, <4>1, <4>2
      <3>2. ASSUME NEW c \in more PROVE c \in plan /\ policy[c.rec] = p
        BY <2>1, <2>2, <2>5 DEF Under
      <3> QED  BY <3>1, <3>2 DEF Under
    <2>8. sofar = upTo[k]
      <3>1. ASSUME NEW c \in upTo[k] PROVE c \in sofar
        <4>1. PICK i \in 1..k : policy[c.rec] = Policies[i]
          <5>1. GrowsTo(cands, upTo, k) /\ 0 \in 0..k
            BY <1>3, <2>1
          <5> QED  BY <1>4, <5>1 DEF GrowsTo
        <4> QED  BY <2>5, <4>1 DEF Under
      <3>2. ASSUME NEW c \in sofar PROVE c \in upTo[k]
        <4>1. PICK i \in 1..k : c \in plan /\ policy[c.rec] = Policies[i]
          BY DEF Under
        <4> QED  BY <1>1, <2>3, <2>5, <4>1
      <3> QED  BY <3>1, <3>2
    <2>9. mine = Under(cands, p) \ more
      BY <2>7 DEF Under
    <2> HIDE DEF mine, sofar
    <2>10. /\ Limits[p].age \in Nat /\ Limits[p].bytes \in Nat /\ Limits[p].free \in Nat
      BY DEF PolicyTypes, n
    <2> HIDE DEF p
    <2> DEFINE before == upTo[k - 1]
    <2> HIDE DEF before
    <2>11. /\ Size(mine) <= Limits[p].bytes
           /\ mine = {} \/ free + Size(before \cup more) >= Limits[p].free
           /\ \A c \in more \ Aged(cands, p) :
                /\ \A b \in mine : Before(c, b)
                /\ \/ Size(mine \cup {c}) > Limits[p].bytes
                   \/ free + Size((before \cup more) \ {c}) < Limits[p].free
                   \/ \E b \in more : Before(c, b)
      <3>1. before \in SUBSET cands /\ Under(before, p) = {}
        BY <2>4, <2>6 DEF before
      <3>2. more = Cache!Planned(cands, free, before, p)
        BY DEF more, before
      <3>3. FitsOne(cands, free, before, p, more, mine)
        BY <2>9, <2>10, <3>1, <3>2, OnePolicyFits
      <3> QED  BY <3>3 DEF FitsOne
    <2>12. Size(upTo[k]) \in Nat /\ Size(plan) \in Nat /\ Size(upTo[k]) <= Size(plan)
      <3>1. Sized(plan)
        BY <1>5, SizeGrows DEF Ranked
      <3> QED  BY <2>5, <3>1, SizeGrows
    <2>13. sofar = before \cup more
      BY <2>1, <2>8 DEF before
    <2>14. mine = {} \/ free + Size(plan) >= Limits[p].free
      <3>1. Size(before \cup more) = Size(upTo[k])
        BY <2>1 DEF before
      <3> QED  BY <2>10, <2>11, <2>12, <3>1
    <2>15. \A c \in Under(plan, p) \ Aged(cands, p) :
             /\ \A b \in mine : Before(c, b)
             /\ \/ Size(mine \cup {c}) > Limits[p].bytes
                \/ free + Size(sofar \ {c}) < Limits[p].free
                \/ \E b \in Under(plan, p) : Before(c, b)
      BY <2>7, <2>11, <2>13, Zenon
    <2> QED  BY <2>11, <2>14, <2>15, Zenon DEF p, mine, sofar
<1>7. DOMAIN Policies = 1..n
  BY DEF PolicyTypes, n
<1>8. FitsAt(policy, clock, cands, plan, free)
  BY <1>6, <1>7, Zenon DEF FitsAt, Under, Aged
<1> QED  BY <1>5, <1>8

-----------------------------------------------------------------------------
(* What a sweep plans: the inductive invariant *)

\* Files have sizes and times.
Measured ==
  /\ clock \in Nat /\ Sized(files)
  /\ \A f \in files : f.at \in Nat

\* No two takes have the same place.
Placed == \A r, q \in Cache!Listed : manifest[r] = manifest[q] => r = q

\* A sweep measured a free disk, and its plan fits what it found.
Planning ==
  \A p \in Cache!Process :
    /\ Cache!At(p, "sweep") => doing[p].free \in Int
    /\ Cache!At(p, "delete") =>
         /\ \A c \in doing[p].cands : c.at \in Nat
         /\ doing[p].plan \in SUBSET doing[p].cands
         /\ FitsAt(policy, clock, doing[p].cands, doing[p].plan, doing[p].free)

SweepInv == Measured /\ Placed /\ Planning

\* The candidates of a sweep have different places, sizes and times.
LEMMA CandidatesRanked ==
  ASSUME CacheTypes, Measured, Placed
  PROVE  Ranked(Cache!Candidates)
<1> DEFINE takes == {r \in Cache!Listed : Cache!Present(r)}
<1>1. IsFiniteSet(takes)
  <2> DEFINE owners == {f.rec : f \in files}
             f == [x \in files |-> x.rec]
  <2>1. f \in [files -> owners] /\ \A t \in owners : \E x \in files : f[x] = t
    OBVIOUS
  <2>2. f \in Surjection(files, owners)
    BY <2>1 DEF Surjection
  <2> HIDE DEF f, owners
  <2>3. IsFiniteSet(owners)
    BY <2>2, FS_Surjection DEF Measured, Sized
  <2>4. takes \in SUBSET owners
    BY DEF Cache!Present, Cache!FilesOf, owners
  <2> QED  BY <2>3, <2>4, FS_Subset
<1>2. IsFiniteSet(Cache!Candidates)
  <2> DEFINE f == [r \in takes |-> Cache!Candidate(r, manifest[r])]
  <2>1. /\ f \in [takes -> Cache!Candidates]
        /\ \A t \in Cache!Candidates : \E r \in takes : f[r] = t
    BY DEF Cache!Candidates
  <2>2. f \in Surjection(takes, Cache!Candidates)
    BY <2>1 DEF Surjection
  <2> HIDE DEF f, takes
  <2> QED  BY <1>1, <2>2, FS_Surjection
<1>3. ASSUME NEW c \in Cache!Candidates
      PROVE  /\ c.size \in Nat /\ c.at \in Nat /\ c.pos \in Nat
             /\ \E r \in Cache!Listed :
                  c.pos = manifest[r] /\ c = Cache!Candidate(r, manifest[r])
  <2>1. PICK r \in takes : c = Cache!Candidate(r, manifest[r])
    BY DEF Cache!Candidates
  <2> DEFINE mine == Cache!FilesOf(r)
             times == {f.at : f \in mine}
  <2>2. c.size = Size(mine) /\ c.at = Cache!Min(times) /\ c.pos = manifest[r]
    BY <2>1, SameSize DEF Cache!Candidate
  <2>3. mine \in SUBSET files /\ mine # {}
    BY DEF Cache!Present, Cache!FilesOf
  <2>4. times \in SUBSET Nat /\ times # {}
    BY <2>3 DEF Measured
  <2> HIDE DEF mine, times
  <2>5. c.size \in Nat
    BY <2>2, <2>3, SizeGrows DEF Measured
  <2>6. c.at \in Nat
    <3>1. \E d \in times : \A e \in times : d <= e
      BY <2>4, LeastNatural
    <3>2. Cache!Min(times) \in times
      BY <3>1 DEF Cache!Min
    <3> QED  BY <2>2, <2>4, <3>2
  <2>7. c.pos \in Nat
    BY <2>2 DEF CacheTypes, Cache!Listed
  <2> QED  BY <2>1, <2>2, <2>5, <2>6, <2>7
<1>4. ASSUME NEW c \in Cache!Candidates, NEW d \in Cache!Candidates, c.pos = d.pos
      PROVE  c = d
  <2>1. PICK r \in Cache!Listed : c.pos = manifest[r] /\ c = Cache!Candidate(r, manifest[r])
    BY <1>3
  <2>2. PICK q \in Cache!Listed : d.pos = manifest[q] /\ d = Cache!Candidate(q, manifest[q])
    BY <1>3
  <2>3. r = q
    BY <1>4, <2>1, <2>2 DEF Placed
  <2> QED  BY <2>1, <2>2, <2>3
<1> QED  BY <1>2, <1>3, <1>4, Zenon DEF Ranked, Sized

\* Time and the files, step by step.
LEMMA MeasuredSteps ==
  ASSUME Cache!CacheRetentionAssumption, Measured, Cache!Next
  PROVE  /\ Measured'
         /\ ~Cache!Tick => UNCHANGED clock
<1>1. CASE Cache!Tick
  BY <1>1 DEF Cache!Tick, Measured, Sized
<1>2. ASSUME UNCHANGED clock, files' \in SUBSET files
      PROVE  Measured'
  BY <1>2, FS_Subset DEF Measured, Sized
<1>3. ASSUME UNCHANGED clock,
             NEW f, files' = files \cup {f}, f.size \in Nat, f.at = clock
      PROVE  Measured'
  <2>1. IsFiniteSet(files')
    BY <1>3, FS_AddElement DEF Measured, Sized
  <2> QED  BY <1>3, <2>1 DEF Measured, Sized
<1>4. ASSUME NEW p \in Cache!Process, NEW r \in Recording, Cache!Capture(p, r)
      PROVE  Measured' /\ UNCHANGED clock
  <2>1. /\ files' = files \cup {Cache!File(r, "raw", RawSize[r])} /\ UNCHANGED clock
    BY <1>4 DEF Cache!Capture
  <2>2. /\ Cache!File(r, "raw", RawSize[r]).size \in Nat
        /\ Cache!File(r, "raw", RawSize[r]).at = clock
    BY DEF Cache!File, Cache!CacheRetentionAssumption
  <2> QED  BY <1>3, <2>1, <2>2
<1>5. ASSUME NEW p \in Cache!Process, Cache!Deliver(p)
      PROVE  Measured' /\ UNCHANGED clock
  <2>1. files' = files \cup {Cache!File(doing[p].rec, "out", OutSize)} /\ UNCHANGED clock
    BY <1>5 DEF Cache!Deliver
  <2>2. /\ Cache!File(doing[p].rec, "out", OutSize).size \in Nat
        /\ Cache!File(doing[p].rec, "out", OutSize).at = clock
    BY DEF Cache!File, Cache!CacheRetentionAssumption
  <2> QED  BY <1>3, <2>1, <2>2
<1>6. ASSUME NEW p \in Cache!Process,
             \/ Cache!BeginTrack(p) \/ Cache!Track(p) \/ Cache!TrackFails(p)
             \/ Cache!DeleteNow(p) \/ Cache!Done(p) \/ Cache!BeginSweep(p)
             \/ Cache!PlanSweep(p) \/ Cache!DeleteFile(p) \/ Cache!EndSweep(p)
      PROVE  files' \in SUBSET files /\ UNCHANGED clock
  BY <1>6 DEF Cache!BeginTrack, Cache!Track, Cache!TrackFails, Cache!DeleteNow, Cache!Done,
     Cache!BeginSweep, Cache!PlanSweep, Cache!DeleteFile, Cache!EndSweep
<1>7. CASE Cache!Restart
  BY <1>2, <1>7 DEF Cache!Restart
<1> QED  BY <1>1, <1>2, <1>4, <1>5, <1>6, <1>7 DEF Cache!Next

\* The manifest is written by whoever has read it and holds its lock: a new take
\* comes first and the others move on.
LEMMA PlacedSteps ==
  ASSUME CacheInv, Placed, Cache!Next
  PROVE  Placed'
<1>1. ASSUME UNCHANGED manifest PROVE Placed'
  BY <1>1 DEF Placed, Cache!Listed
<1>2. ASSUME NEW p \in Cache!Process, Cache!Track(p) PROVE Placed'
  <2>1. manifest' = Cache!Newest(manifest, doing[p].rec)
    BY <1>2 DEF Cache!Track, CacheInv, Exclusive
  <2>2. \A r \in Recording :
          manifest'[r] = IF r = doing[p].rec THEN 1
                         ELSE IF manifest[r] > 0 THEN manifest[r] + 1 ELSE 0
    BY <2>1 DEF Cache!Newest
  <2>3. \A r \in Recording : manifest[r] \in Nat
    BY DEF CacheInv, CacheTypes
  <2> QED  BY <2>2, <2>3 DEF Placed, Cache!Listed
<1>3. ASSUME NEW p \in Cache!Process, Cache!EndSweep(p) PROVE Placed'
  <2>1. \/ UNCHANGED manifest
        \/ \A r \in Recording : manifest'[r] = 0 \/ manifest'[r] = manifest[r]
    BY <1>3 DEF Cache!EndSweep, CacheInv, Exclusive
  <2> QED  BY <1>1, <2>1 DEF Placed, Cache!Listed
<1>4. ASSUME NEW p \in Cache!Process,
             \/ \E r \in Recording : Cache!Capture(p, r)
             \/ Cache!Deliver(p) \/ Cache!BeginTrack(p) \/ Cache!TrackFails(p)
             \/ Cache!DeleteNow(p) \/ Cache!Done(p) \/ Cache!BeginSweep(p)
             \/ Cache!PlanSweep(p) \/ Cache!DeleteFile(p)
      PROVE  UNCHANGED manifest
  BY <1>4 DEF Cache!Capture, Cache!Deliver, Cache!BeginTrack, Cache!TrackFails,
     Cache!DeleteNow, Cache!Done, Cache!BeginSweep, Cache!PlanSweep, Cache!DeleteFile
<1>5. CASE Cache!Tick \/ Cache!Restart
  BY <1>1, <1>5 DEF Cache!Tick, Cache!Restart
<1> QED  BY <1>1, <1>2, <1>3, <1>4, <1>5 DEF Cache!Next

\* A plan that fits still does when some of its takes have become too old.
LEMMA FitsLater ==
  ASSUME NEW policyOf, NEW time \in Nat, NEW later \in Nat, time <= later, NEW cands, NEW plan, NEW free,
         \A c \in cands : c.at \in Nat, PolicyTypes,
         FitsAt(policyOf, time, cands, plan, free)
  PROVE  FitsAt(policyOf, later, cands, plan, free)
<1> DEFINE of(S, p) == {c \in S : policyOf[c.rec] = p}
           aged(p) == {c \in cands : time - c.at >= Limits[p].age}
           older(p) == {c \in cands : later - c.at >= Limits[p].age}
           fit(k, c) ==
             LET mine == of(cands \ plan, Policies[k])
                 upTo == UNION {of(plan, Policies[i]) : i \in 1..k} IN
             /\ \A b \in mine : Before(c, b)
             /\ \/ Size(mine \cup {c}) > Limits[Policies[k]].bytes
                \/ free + Size(upTo \ {c}) < Limits[Policies[k]].free
                \/ \E b \in of(plan, Policies[k]) : Before(c, b)
           whole(k) ==
             LET mine == of(cands \ plan, Policies[k]) IN
             /\ Size(mine) <= Limits[Policies[k]].bytes
             /\ mine = {} \/ free + Size(plan) >= Limits[Policies[k]].free
<1>1. \A k \in DOMAIN Policies :
        whole(k) /\ \A c \in of(plan, Policies[k]) \ aged(Policies[k]) : fit(k, c)
  BY Zenon DEF FitsAt
<1>2. \A k \in DOMAIN Policies : aged(Policies[k]) \in SUBSET older(Policies[k])
  BY DEF PolicyTypes
<1>3. \A k \in DOMAIN Policies :
        whole(k) /\ \A c \in of(plan, Policies[k]) \ older(Policies[k]) : fit(k, c)
  <2> HIDE DEF whole, fit, aged, older, of
  <2> QED  BY <1>1, <1>2
<1> QED  BY <1>3, Zenon DEF FitsAt

\* A process that neither begins nor plans a sweep leaves what is planned.
LEMMA PlanningStays ==
  ASSUME Planning, UNCHANGED <<policy, clock>>,
         \A q \in Cache!Process :
           \/ doing'[q].pc \notin {"sweep", "delete"}
           \/ /\ doing'[q].pc = doing[q].pc /\ doing'[q].free = doing[q].free
              /\ doing'[q].cands = doing[q].cands /\ doing'[q].plan = doing[q].plan
  PROVE  Planning'
<1> SUFFICES ASSUME NEW q \in Cache!Process
             PROVE  /\ doing'[q].pc = "sweep" => doing'[q].free \in Int
                    /\ doing'[q].pc = "delete" =>
                         /\ \A c \in doing'[q].cands : c.at \in Nat
                         /\ doing'[q].plan \in SUBSET doing'[q].cands
                         /\ FitsAt(policy', clock', doing'[q].cands, doing'[q].plan,
                                   doing'[q].free)
  BY DEF Planning, Cache!At
<1> QED  BY DEF Planning, Cache!At

\* What a process does next.
LEMMA NextWork ==
  ASSUME CacheShapes, NEW p \in Cache!Process, NEW w, Cache!Goes(p, w)
  PROVE  \A q \in Cache!Process : doing'[q] = IF q = p THEN w ELSE doing[q]
BY DEF CacheShapes, Cache!Goes

\* A process that goes on to something else than a sweep.
LEMMA PlanningElsewhere ==
  ASSUME CacheShapes, Planning, UNCHANGED <<policy, clock>>,
         NEW p \in Cache!Process, NEW w, Cache!Goes(p, w), w.pc \notin {"sweep", "delete"}
  PROVE  Planning'
BY NextWork, PlanningStays

\* A sweep begins with the free disk.
LEMMA PlanningBegun ==
  ASSUME CacheInv, SweepInv, Cache!CacheRetentionAssumption, NEW p \in Cache!Process,
         Cache!BeginSweep(p)
  PROVE  Planning'
<1> DEFINE w == [Cache!Work("sweep", doing[p].rec) EXCEPT !.free = Cache!Free]
<1>1. w.pc = "sweep" /\ w.free = Cache!Free
  BY DEF Cache!Work
<1>2. Cache!Goes(p, w) /\ UNCHANGED <<policy, clock>>
  BY DEF Cache!BeginSweep
<1>3. Cache!Free \in Int
  <2>1. Size(files) \in Nat
    BY SizeGrows DEF SweepInv, Measured
  <2> QED  BY <2>1, SameSize DEF Cache!Free, Cache!CacheRetentionAssumption
<1> HIDE DEF w
<1>4. \A q \in Cache!Process : doing'[q] = IF q = p THEN w ELSE doing[q]
  BY <1>2, NextWork DEF CacheInv
<1> QED  BY <1>1, <1>2, <1>3, <1>4 DEF SweepInv, Planning, Cache!At

\* A sweep plans by what it measured and the manifest that it read.
LEMMA PlanningPlanned ==
  ASSUME CacheInv, SweepInv, PolicyTypes, NEW p \in Cache!Process, Cache!PlanSweep(p)
  PROVE  Planning'
<1> DEFINE cands == Cache!Candidates
           plan == Cache!Plan(cands, doing[p].free, Policies)
           planned == {r \in Cache!Listed : \E c \in plan : c.rec = r}
           left == {f \in files : f.rec \in planned}
           gone == {r \in Cache!Listed : ~Cache!Present(r)} \cup planned
           w == [doing[p] EXCEPT
                  !.pc = "delete", !.loaded = manifest, !.cands = cands, !.plan = plan,
                  !.left = left, !.gone = gone]
<1>1. Cache!Goes(p, w) /\ UNCHANGED <<policy, clock>> /\ Cache!At(p, "sweep")
  BY DEF Cache!PlanSweep
<1> HIDE DEF left, gone, planned, plan, cands
<1>2. w.pc = "delete" /\ w.cands = cands /\ w.plan = plan /\ w.free = doing[p].free
  <2>1. w = [Shape(doing[p]) EXCEPT !.pc = "delete", !.loaded = manifest, !.cands = cands,
                                   !.plan = plan, !.left = left, !.gone = gone]
    BY DEF CacheInv, CacheShapes
  <2> HIDE DEF w
  <2> QED  BY <2>1 DEF Shape
<1> HIDE DEF w
<1>3. \A q \in Cache!Process : doing'[q] = IF q = p THEN w ELSE doing[q]
  BY <1>1, NextWork DEF CacheInv
<1>4. doing[p].free \in Int /\ clock \in Nat
  BY <1>1 DEF SweepInv, Planning, Measured
<1>5. Ranked(cands)
  BY CandidatesRanked DEF CacheInv, SweepInv, cands
<1>6. plan \in SUBSET cands /\ FitsAt(policy, clock, cands, plan, doing[p].free)
  BY <1>4, <1>5, PlanFits DEF plan
<1>7. \A c \in cands : c.at \in Nat
  BY <1>5 DEF Ranked
<1> QED  BY <1>1, <1>2, <1>3, <1>6, <1>7 DEF SweepInv, Planning, Cache!At

\* The deletions leave the plan as it is.
LEMMA PlanningDeletes ==
  ASSUME CacheInv, SweepInv, NEW p \in Cache!Process, Cache!DeleteFile(p)
  PROVE  Planning'
<1>1. PICK f :
        \/ Cache!Goes(p, [doing[p] EXCEPT !.left = @ \ {f}])
        \/ Cache!Goes(p, [doing[p] EXCEPT !.left = @ \ {f}, !.gone = @ \ {f.rec}])
  BY DEF Cache!DeleteFile
<1>2. PICK w : /\ Cache!Goes(p, w)
               /\ w.pc = doing[p].pc /\ w.free = doing[p].free
               /\ w.cands = doing[p].cands /\ w.plan = doing[p].plan
  <2>1. doing[p] = Shape(doing[p])
    BY DEF CacheInv, CacheShapes
  <2> DEFINE one == [Shape(doing[p]) EXCEPT !.left = @ \ {f}]
             other == [Shape(doing[p]) EXCEPT !.left = @ \ {f}, !.gone = @ \ {f.rec}]
  <2>2. Cache!Goes(p, one) \/ Cache!Goes(p, other)
    BY <1>1, <2>1
  <2>3. /\ one.pc = doing[p].pc /\ one.free = doing[p].free
        /\ one.cands = doing[p].cands /\ one.plan = doing[p].plan
        /\ other.pc = doing[p].pc /\ other.free = doing[p].free
        /\ other.cands = doing[p].cands /\ other.plan = doing[p].plan
    BY DEF Shape
  <2> HIDE DEF one, other
  <2> QED  BY <2>2, <2>3
<1>3. UNCHANGED <<policy, clock>>
  BY DEF Cache!DeleteFile
<1>4. \A q \in Cache!Process : doing'[q] = IF q = p THEN w ELSE doing[q]
  BY <1>2, NextWork DEF CacheInv
<1> QED  BY <1>2, <1>3, <1>4, PlanningStays DEF SweepInv

\* Time passes, and takes get too old.
LEMMA PlanningAges ==
  ASSUME SweepInv, PolicyTypes, Cache!Tick
  PROVE  Planning'
<1>1. clock' = clock + 1 /\ UNCHANGED <<policy, doing>>
  BY DEF Cache!Tick
<1>2. clock \in Nat /\ clock' \in Nat /\ clock <= clock'
  BY <1>1 DEF SweepInv, Measured
<1>3. ASSUME NEW q \in Cache!Process, Cache!At(q, "delete")
      PROVE  FitsAt(policy, clock', doing[q].cands, doing[q].plan, doing[q].free)
  <2>1. /\ \A c \in doing[q].cands : c.at \in Nat
        /\ FitsAt(policy, clock, doing[q].cands, doing[q].plan, doing[q].free)
    BY <1>3 DEF SweepInv, Planning
  <2> QED  BY <1>2, <2>1, FitsLater
<1> QED  BY <1>1, <1>3 DEF SweepInv, Planning, Cache!At

\* Every step keeps what the sweeps plan.
LEMMA PlanningSteps ==
  ASSUME CacheInv, SweepInv, Cache!CacheRetentionAssumption, Cache!Next
  PROVE  Planning'
<1>1. ASSUME NEW p \in Cache!Process, NEW r \in Recording, Cache!Capture(p, r)
      PROVE  Planning'
  <2>1. Cache!Goes(p, Cache!Work("capture", r)) /\ UNCHANGED <<policy, clock>>
    BY <1>1 DEF Cache!Capture
  <2> QED  BY <2>1, WorkFields, PlanningElsewhere DEF CacheInv, SweepInv
<1>2. ASSUME NEW p \in Cache!Process, Cache!Deliver(p)
      PROVE  Planning'
  <2>1. Cache!Goes(p, Cache!Work("apply", doing[p].rec)) /\ UNCHANGED <<policy, clock>>
    BY <1>2 DEF Cache!Deliver
  <2> QED  BY <2>1, WorkFields, PlanningElsewhere DEF CacheInv, SweepInv
<1>3. ASSUME NEW p \in Cache!Process, Cache!BeginTrack(p)
      PROVE  Planning'
  <2> DEFINE w == [Cache!Work("tracking", doing[p].rec) EXCEPT !.loaded = manifest]
  <2>1. Cache!Goes(p, w) /\ UNCHANGED <<policy, clock>>
    BY <1>3 DEF Cache!BeginTrack
  <2>2. w.pc = "tracking"
    BY DEF Cache!Work
  <2> HIDE DEF w
  <2> QED  BY <2>1, <2>2, PlanningElsewhere DEF CacheInv, SweepInv
<1>4. ASSUME NEW p \in Cache!Process, Cache!Track(p) \/ Cache!TrackFails(p)
      PROVE  Planning'
  <2>1. Cache!Goes(p, Cache!Work("done", doing[p].rec)) /\ UNCHANGED <<policy, clock>>
    BY <1>4 DEF Cache!Track, Cache!TrackFails
  <2> QED  BY <2>1, WorkFields, PlanningElsewhere DEF CacheInv, SweepInv
<1>5. ASSUME NEW p \in Cache!Process, Cache!DeleteNow(p)
      PROVE  Planning'
  <2>1. /\ UNCHANGED <<policy, clock>>
        /\ UNCHANGED doing \/ Cache!Goes(p, Cache!Work("done", doing[p].rec))
    BY <1>5 DEF Cache!DeleteNow
  <2>2. CASE UNCHANGED doing
    BY <2>1, <2>2, PlanningStays DEF SweepInv
  <2> QED  BY <2>1, <2>2, WorkFields, PlanningElsewhere DEF CacheInv, SweepInv
<1>6. ASSUME NEW p \in Cache!Process, Cache!Done(p) \/ Cache!EndSweep(p)
      PROVE  Planning'
  <2>1. /\ UNCHANGED <<policy, clock>>
        /\ \/ Cache!Goes(p, Cache!Idle)
           \/ Cache!Goes(p, Cache!Work("capture", doing[p].rec))
    BY <1>6 DEF Cache!Done, Cache!EndSweep
  <2>2. Cache!Idle.pc = "idle"
    BY WorkFields DEF Cache!Idle
  <2> QED  BY <2>1, <2>2, WorkFields, PlanningElsewhere DEF CacheInv, SweepInv
<1>7. CASE Cache!Restart
  <2>1. UNCHANGED <<policy, clock>>
    BY <1>7 DEF Cache!Restart
  <2>2. \A q \in Cache!Process : doing'[q] \in {Cache!Work("apply", state), Cache!Idle}
    BY <1>7 DEF Cache!Restart
  <2>3. Cache!Work("apply", state).pc = "apply" /\ Cache!Idle.pc = "idle"
    BY WorkFields DEF Cache!Idle
  <2> QED  BY <2>1, <2>2, <2>3, PlanningStays DEF SweepInv
<1>8. PolicyTypes
  BY PoliciesTyped
<1> QED  BY <1>1, <1>2, <1>3, <1>4, <1>5, <1>6, <1>7, <1>8, PlanningBegun, PlanningPlanned,
            PlanningDeletes, PlanningAges DEF Cache!Next

\* What a sweep plans fits every policy, and it deletes no take for nothing.
THEOREM SweepsFit ==
  ASSUME Cache!CacheRetentionAssumption
  PROVE  Cache!Spec => []SweepFits
<1>1. Cache!Init => SweepInv
  <2> SUFFICES ASSUME Cache!Init PROVE SweepInv
    OBVIOUS
  <2>1. Measured
    BY FS_EmptySet DEF Cache!Init, Measured, Sized
  <2>2. Placed
    BY DEF Cache!Init, Placed, Cache!Listed, Cache!NoPlaces
  <2>3. \A p \in Cache!Process : doing[p].pc = "idle"
    BY WorkFields DEF Cache!Init, Cache!Idle
  <2> QED  BY <2>1, <2>2, <2>3 DEF SweepInv, Planning, Cache!At
<1>2. CacheInv /\ SweepInv /\ [Cache!Next]_Cache!vars => SweepInv'
  <2> SUFFICES ASSUME CacheInv, SweepInv, [Cache!Next]_Cache!vars PROVE SweepInv'
    OBVIOUS
  <2>1. CASE Cache!Next
    BY <2>1, MeasuredSteps, PlacedSteps, PlanningSteps DEF SweepInv
  <2>2. CASE UNCHANGED Cache!vars
    <3>1. UNCHANGED <<clock, policy, doing, files, manifest>>
      BY <2>2 DEF Cache!vars
    <3>2. Planning'
      BY <3>1, PlanningStays DEF SweepInv
    <3> QED  BY <3>1, <3>2 DEF SweepInv, Measured, Sized, Placed, Cache!Listed
  <2> QED  BY <2>1, <2>2
<1>3. CacheInv /\ SweepInv => SweepFits
  <2> SUFFICES ASSUME CacheInv, SweepInv PROVE SweepFits
    OBVIOUS
  <2>1. DOMAIN doing = Cache!Process
    BY DEF CacheInv, CacheShapes
  <2>2. \A p \in DOMAIN doing : doing[p].pc = "delete" =>
          FitsAt(policy, clock, doing[p].cands, doing[p].plan, doing[p].free)
    BY <2>1 DEF SweepInv, Planning, Cache!At
  <2> QED  BY <2>2, Zenon DEF SweepFits, FitsAt, Under, Aged
<1> QED  BY <1>1, <1>2, <1>3, CacheInvariant, PTL DEF Cache!Spec

-----------------------------------------------------------------------------
(* The credentials of a node *)

\* Where a request of a kind can be.
Stage(kind, pc) ==
  \/ /\ kind = "bootstrap"
     /\ pc \in {"consume", "revoke key", "insert key", "revoke token", "insert token",
                "answer", "rejected"}
  \/ kind = "token" /\ pc \in {"revoke token", "insert token", "place", "rejected"}
  \/ kind = "key" /\ pc \in {"revoke key", "insert key", "place", "rejected"}
  \/ kind = "deploy" /\ pc \in {"fetch", "revoke token", "insert token", "connect", "write"}
  \/ kind = "trust" /\ pc \in {"fetch", "connect"}
Fields == {"kind", "pc", "met", "was", "token", "key"}

WellFormed(r) ==
  /\ Fields \subseteq DOMAIN r
  /\ Stage(r.kind, r.pc)
  /\ r.met \subseteq Request /\ r.was \in BOOLEAN

EnrollmentTypes ==
  /\ DOMAIN enrolling = Request
  /\ \A q \in Request : Enrollment!InFlight(q) => WellFormed(enrolling[q])
  /\ DOMAIN active = {"token", "key"}
  /\ made \in Nat /\ admitted \in BOOLEAN

\* Requests in flight together have met, and while the node is admitted nobody is.
Meetings ==
  /\ \A q, o \in Request :
       Enrollment!InFlight(q) /\ Enrollment!InFlight(o) /\ q # o => o \in enrolling[q].met
  /\ admitted => \A q \in Request : ~Enrollment!InFlight(q)

\* What holds of a request that has met no other: how it stands with the active
\* tokens and keys and with the token and the key at the node.
Undisturbed(r, tokens, keys, token, key) ==
  /\ r.kind = "bootstrap" =>
       /\ key = r.key
       /\ r.pc \in {"revoke token", "insert token", "answer"} => keys = {r.key}
       /\ r.pc = "answer" => tokens = {r.token}
  /\ r.kind = "token" =>
       /\ r.was => key \in keys
       /\ r.pc = "place" => tokens = {r.token}
  /\ r.kind = "key" =>
       /\ r.was => token \in tokens
       /\ r.pc = "place" => keys = {r.key}
  /\ r.kind = "deploy" =>
       /\ r.pc \in {"fetch", "revoke token", "insert token"} => r.token = 0
       /\ r.token # 0 => tokens = {r.token}
       /\ r.pc # "fetch" => r.key \in keys
       /\ r.pc = "write" => key = r.key
  /\ r.kind = "trust" =>
       /\ r.was => token \in tokens
       /\ r.pc # "fetch" => r.key \in keys

Holds(r) == Undisturbed(r, active["token"], active["key"], env, authorized)

EnrollmentInv ==
  /\ EnrollmentTypes /\ Meetings /\ CredentialsKept
  /\ \A q \in Request :
       Enrollment!InFlight(q) /\ enrolling[q].met = {} => Holds(enrolling[q])

\* OneCredential without cardinalities.
Singles ==
  /\ \E token : active["token"] = {token}
  /\ active["key"] = {} \/ \E key : active["key"] = {key}

-----------------------------------------------------------------------------

\* What setting some fields of a record leaves.
LEMMA OverFields ==
  ASSUME NEW fields, NEW record
  PROVE  /\ DOMAIN Enrollment!Over(fields, record) = DOMAIN fields \cup DOMAIN record
         /\ \A name \in DOMAIN fields : Enrollment!Over(fields, record)[name] = fields[name]
         /\ \A name \in DOMAIN record \ DOMAIN fields :
              Enrollment!Over(fields, record)[name] = record[name]
BY DEF Enrollment!Over

\* One credential of a kind, in terms of cardinalities.
LEMMA SinglesCount ==
  Singles => OneCredential
<1>1. \A x : Cardinality({x}) = 1
  BY FS_Singleton
<1>2. Cardinality({}) = 0
  BY FS_EmptySet
<1> SUFFICES ASSUME Singles PROVE OneCredential
  OBVIOUS
<1>3. Cardinality(active["token"]) = 1
  BY <1>1 DEF Singles
<1>4. Cardinality(active["key"]) = 0 \/ Cardinality(active["key"]) = 1
  BY <1>1, <1>2 DEF Singles
<1> QED
  BY <1>3, <1>4 DEF OneCredential

\* The invariant holds before the first request.
LEMMA EnrollmentInit ==
  ASSUME Enrollment!Init
  PROVE  EnrollmentInv
<1>1. /\ DOMAIN enrolling = Request /\ DOMAIN active = {"token", "key"} /\ made \in Nat
      /\ admitted = FALSE /\ active["token"] = {1} /\ active["key"] = {}
      /\ \A q \in Request : ~Enrollment!InFlight(q)
  BY DEF Enrollment!Init, Enrollment!Idle, Enrollment!InFlight
<1>2. OneCredential
  BY <1>1, SinglesCount DEF Singles
<1> QED
  BY <1>1, <1>2 DEF EnrollmentInv, EnrollmentTypes, Meetings, CredentialsKept, AdmittedNode

\* A request goes on: what it wrote concerns the others only when they have met.
LEMMA EnrollmentGoes ==
  ASSUME EnrollmentInv, NEW q \in Request, Enrollment!InFlight(q), NEW r,
         enrolling' = [enrolling EXCEPT ![q] = r], WellFormed(r), r.pc # "idle", r.met = enrolling[q].met,
         r.met = {} => Undisturbed(r, active'["token"], active'["key"], env', authorized'),
         DOMAIN active' = {"token", "key"}, made' \in Nat, OneCredential', admitted' = admitted
  PROVE  EnrollmentInv'
<1>1. /\ DOMAIN enrolling' = Request /\ enrolling'[q] = r
      /\ \A o \in Request \ {q} : enrolling'[o] = enrolling[o]
  BY DEF EnrollmentInv, EnrollmentTypes
<1>2. admitted = FALSE
  BY DEF EnrollmentInv, EnrollmentTypes, Meetings
<1>3. EnrollmentTypes'
  BY <1>1, <1>2 DEF EnrollmentInv, EnrollmentTypes, Enrollment!InFlight, WellFormed
<1>4. Meetings'
  BY <1>1, <1>2 DEF EnrollmentInv, Meetings, Enrollment!InFlight
<1>5. CredentialsKept'
  BY <1>2 DEF CredentialsKept, AdmittedNode
<1>6. ASSUME NEW o \in Request, Enrollment!InFlight(o)', enrolling'[o].met = {}
      PROVE  Holds(enrolling[o])'
  <2>1. o = q
    BY <1>1, <1>6 DEF EnrollmentInv, Meetings, Enrollment!InFlight
  <2> QED
    BY <1>1, <1>6, <2>1 DEF Holds
<1> QED
  BY <1>3, <1>4, <1>5, <1>6 DEF EnrollmentInv

\* A request ends, and says that the node is admitted or nothing.
LEMMA EnrollmentEnds ==
  ASSUME EnrollmentInv, NEW q \in Request, Enrollment!InFlight(q), Enrollment!Ends(q),
         DOMAIN active' = {"token", "key"}, made' \in Nat, OneCredential',
         admitted' \in BOOLEAN,
         admitted' => /\ enrolling[q].met = {}
                      /\ env' \in active'["token"] /\ authorized' \in active'["key"]
  PROVE  EnrollmentInv'
<1>1. /\ DOMAIN enrolling' = Request /\ ~Enrollment!InFlight(q)'
      /\ \A o \in Request \ {q} : enrolling'[o] = enrolling[o]
  BY DEF EnrollmentInv, EnrollmentTypes, Enrollment!Ends, Enrollment!Idle, Enrollment!InFlight
<1>2. ASSUME NEW o \in Request, Enrollment!InFlight(o)'
      PROVE  o # q /\ q \in enrolling[o].met /\ o \in enrolling[q].met
  BY <1>1, <1>2 DEF EnrollmentInv, Meetings, Enrollment!InFlight
<1>3. EnrollmentTypes'
  BY <1>1 DEF EnrollmentInv, EnrollmentTypes, Enrollment!InFlight, WellFormed
<1>4. Meetings'
  BY <1>1, <1>2 DEF EnrollmentInv, Meetings, Enrollment!InFlight
<1>5. CredentialsKept'
  BY DEF CredentialsKept, AdmittedNode
<1> QED
  BY <1>1, <1>2, <1>3, <1>4, <1>5 DEF EnrollmentInv

\* What a request in flight is once some of its fields are set.
LEMMA EnrollmentSet ==
  ASSUME EnrollmentInv, NEW q \in Request, Enrollment!InFlight(q), NEW fields,
         "pc" \in DOMAIN fields, Stage(enrolling[q].kind, fields["pc"]),
         "kind" \notin DOMAIN fields, "met" \notin DOMAIN fields, "was" \notin DOMAIN fields
  PROVE  LET r == Enrollment!Over(fields, enrolling[q]) IN
         /\ WellFormed(r) /\ r.pc = fields["pc"] /\ r.pc # "idle"
         /\ r.kind = enrolling[q].kind /\ r.met = enrolling[q].met /\ r.was = enrolling[q].was
         /\ r.token = IF "token" \in DOMAIN fields THEN fields["token"] ELSE enrolling[q].token
         /\ r.key = IF "key" \in DOMAIN fields THEN fields["key"] ELSE enrolling[q].key
<1>1. WellFormed(enrolling[q])
  BY DEF EnrollmentInv, EnrollmentTypes
<1>2. Fields \subseteq DOMAIN enrolling[q]
  BY <1>1 DEF WellFormed
<1>3. ~Stage(enrolling[q].kind, "idle")
  BY DEF Stage
<1> DEFINE r == Enrollment!Over(fields, enrolling[q])
<1>4. /\ DOMAIN r = DOMAIN fields \cup DOMAIN enrolling[q]
      /\ \A name \in DOMAIN fields : r[name] = fields[name]
      /\ \A name \in DOMAIN enrolling[q] \ DOMAIN fields : r[name] = enrolling[q][name]
  BY OverFields
<1> HIDE DEF r
<1>5. {"kind", "pc", "met", "was", "token", "key"} \subseteq DOMAIN enrolling[q]
  BY <1>2 DEF Fields
<1>6. /\ r.pc = fields["pc"]
      /\ r.kind = enrolling[q].kind /\ r.met = enrolling[q].met /\ r.was = enrolling[q].was
      /\ r.token = IF "token" \in DOMAIN fields THEN fields["token"] ELSE enrolling[q].token
      /\ r.key = IF "key" \in DOMAIN fields THEN fields["key"] ELSE enrolling[q].key
  BY <1>4, <1>5
<1>7. WellFormed(r)
  BY <1>1, <1>2, <1>4, <1>6 DEF WellFormed
<1>8. r.pc # "idle"
  BY <1>3, <1>6
<1> QED
  BY <1>6, <1>7, <1>8 DEF r

\* A request that starts has met whoever is in flight.
LEMMA EnrollmentStarts ==
  ASSUME EnrollmentInv, NEW q \in Request, NEW fields, Enrollment!Starts(q, fields),
         {"kind", "pc"} \subseteq DOMAIN fields,
         Stage(fields["kind"], fields["pc"]),
         "met" \notin DOMAIN fields, "was" \notin DOMAIN fields, active' = active,
         made' \in Nat,
         LET r == Enrollment!Over(fields,
                    [token |-> 0, key |-> 0, met |-> {}, was |-> admitted]) IN
         (\A o \in Request : ~Enrollment!InFlight(o)) =>
           Undisturbed(r, active["token"], active["key"], env', authorized')
  PROVE  EnrollmentInv'
<1> DEFINE others == {o \in Request : Enrollment!InFlight(o)}
           new == Enrollment!Over(fields, [token |-> 0, key |-> 0, met |-> others,
                                           was |-> admitted /\ others = {}])
<1>1. /\ ~Enrollment!InFlight(q) /\ admitted' = FALSE
      /\ enrolling' = [p \in Request |->
                   IF p = q THEN new
                   ELSE IF Enrollment!InFlight(p) THEN [enrolling[p] EXCEPT !.met = @ \cup {q}]
                   ELSE Enrollment!Idle]
  BY DEF Enrollment!Starts
<1>2. admitted \in BOOLEAN
  BY DEF EnrollmentInv, EnrollmentTypes
<1>3. /\ WellFormed(new) /\ new.met = others /\ new.pc # "idle"
  <2>1. ~Stage(fields["kind"], "idle")
    BY DEF Stage
  <2> HIDE DEF others
  <2>2. others \subseteq Request
    BY DEF others
  <2> DEFINE old == [token |-> 0, key |-> 0, met |-> others, was |-> admitted /\ others = {}]
  <2>3. /\ DOMAIN new = DOMAIN fields \cup DOMAIN old
        /\ \A name \in DOMAIN fields : new[name] = fields[name]
        /\ \A name \in DOMAIN old \ DOMAIN fields : new[name] = old[name]
    BY OverFields
  <2>4. DOMAIN old = {"token", "key", "met", "was"} /\ old.met = others /\ old.was \in BOOLEAN
    OBVIOUS
  <2> HIDE DEF new, old
  <2>5. new.pc = fields["pc"] /\ new.kind = fields["kind"] /\ new.met = others
        /\ new.was \in BOOLEAN
    BY <2>3, <2>4
  <2>6. Fields \subseteq DOMAIN new
    BY <2>3, <2>4 DEF Fields
  <2> QED
    BY <2>1, <2>2, <2>5, <2>6 DEF WellFormed
<1>4. ASSUME NEW p \in Request, p # q, Enrollment!InFlight(p)
      PROVE  WellFormed(enrolling'[p]) /\ enrolling'[p].met = enrolling[p].met \cup {q} /\ enrolling'[p].pc # "idle"
  <2>1. WellFormed(enrolling[p])
    BY <1>4 DEF EnrollmentInv, EnrollmentTypes
  <2>2. enrolling'[p] = [enrolling[p] EXCEPT !.met = @ \cup {q}]
    BY <1>1, <1>4
  <2>3. enrolling[p].pc # "idle"
    BY <1>4 DEF Enrollment!InFlight
  <2> QED
    BY <2>1, <2>2, <2>3 DEF WellFormed, Fields
<1>5. \A p \in Request : p # q => (Enrollment!InFlight(p)' <=> Enrollment!InFlight(p))
  BY <1>1, <1>4 DEF Enrollment!InFlight, Enrollment!Idle
<1>6. enrolling'[q] = new /\ DOMAIN enrolling' = Request
  BY <1>1
<1> HIDE DEF new
<1>7. EnrollmentTypes'
  BY <1>1, <1>3, <1>4, <1>5, <1>6 DEF EnrollmentInv, EnrollmentTypes, WellFormed
<1>8. Meetings'
  BY <1>1, <1>3, <1>4, <1>5, <1>6 DEF EnrollmentInv, Meetings
<1>9. CredentialsKept'
  BY <1>1 DEF EnrollmentInv, CredentialsKept, AdmittedNode, OneCredential
<1>10. ASSUME NEW p \in Request, Enrollment!InFlight(p)', enrolling'[p].met = {}
       PROVE  Holds(enrolling[p])'
  <2>1. p = q /\ others = {}
    BY <1>3, <1>4, <1>5, <1>6, <1>10
  <2>2. new = Enrollment!Over(fields, [token |-> 0, key |-> 0, met |-> {}, was |-> admitted])
    BY <1>2, <2>1 DEF new
  <2> QED
    BY <1>6, <2>1, <2>2 DEF Holds
<1> QED
  BY <1>7, <1>8, <1>9, <1>10 DEF EnrollmentInv

\* A request that only goes on, with nothing written.
LEMMA EnrollmentOn ==
  ASSUME EnrollmentInv, NEW q \in Request, Enrollment!InFlight(q), NEW fields,
         Enrollment!Goes(q, fields),
         "pc" \in DOMAIN fields, Stage(enrolling[q].kind, fields["pc"]),
         "kind" \notin DOMAIN fields, "met" \notin DOMAIN fields, "was" \notin DOMAIN fields,
         UNCHANGED <<active, env, authorized, made, admitted>>,
         enrolling[q].met = {} => Undisturbed(Enrollment!Over(fields, enrolling[q]),
                              active["token"], active["key"], env, authorized)
  PROVE  EnrollmentInv'
<1> DEFINE r == Enrollment!Over(fields, enrolling[q])
<1>1. WellFormed(r) /\ r.pc # "idle" /\ r.met = enrolling[q].met
  BY EnrollmentSet
<1>2. enrolling' = [enrolling EXCEPT ![q] = r]
  BY DEF Enrollment!Goes
<1>3. /\ DOMAIN active' = {"token", "key"} /\ made' \in Nat /\ OneCredential'
  BY DEF EnrollmentInv, EnrollmentTypes, CredentialsKept, OneCredential
<1>4. enrolling[q].met = {} =>
        Undisturbed(r, active'["token"], active'["key"], env', authorized')
  OBVIOUS
<1> HIDE DEF r
<1> QED
  BY <1>1, <1>2, <1>3, <1>4, EnrollmentGoes

\* A request that gives up, with nothing written.
LEMMA EnrollmentOff ==
  ASSUME EnrollmentInv, NEW q \in Request, Enrollment!InFlight(q), Enrollment!Ends(q),
         UNCHANGED <<active, made, admitted>>
  PROVE  EnrollmentInv'
<1>1. admitted = FALSE
  BY DEF EnrollmentInv, EnrollmentTypes, Meetings
<1>2. DOMAIN active' = {"token", "key"} /\ made' \in Nat /\ OneCredential'
  BY DEF EnrollmentInv, EnrollmentTypes, CredentialsKept, OneCredential
<1> QED
  BY <1>1, <1>2, EnrollmentEnds

\* A request that ends well.
LEMMA EnrollmentWell ==
  ASSUME EnrollmentInv, NEW q \in Request, Enrollment!InFlight(q), Enrollment!EndsWell(q),
         UNCHANGED <<active, made>>,
         enrolling[q].met = {} /\ (enrolling[q].was \/ enrolling[q].kind \in {"bootstrap", "deploy"}) =>
           env' \in active["token"] /\ authorized' \in active["key"]
  PROVE  EnrollmentInv'
<1>1. DOMAIN active' = {"token", "key"} /\ made' \in Nat /\ OneCredential'
  BY DEF EnrollmentInv, EnrollmentTypes, CredentialsKept, OneCredential
<1>2. /\ Enrollment!Ends(q)
      /\ admitted' = (enrolling[q].met = {} /\ (enrolling[q].was \/ enrolling[q].kind \in {"bootstrap", "deploy"}))
  BY DEF Enrollment!EndsWell
<1>3. enrolling[q].was \in BOOLEAN
  BY DEF EnrollmentInv, EnrollmentTypes, WellFormed
<1>4. admitted' \in BOOLEAN
  BY <1>2, <1>3
<1> QED
  BY <1>1, <1>2, <1>4, EnrollmentEnds

\* What a request in flight is.
LEMMA EnrollmentAt ==
  ASSUME EnrollmentInv, NEW q \in Request, Enrollment!InFlight(q)
  PROVE  /\ Stage(enrolling[q].kind, enrolling[q].pc) /\ enrolling[q].was \in BOOLEAN
         /\ enrolling[q].met = {} => Holds(enrolling[q])
         /\ DOMAIN active = {"token", "key"} /\ made \in Nat /\ OneCredential
BY DEF EnrollmentInv, EnrollmentTypes, WellFormed, CredentialsKept

\* A request starts: it knows the credentials, or has met who changes them.
LEMMA EnrollmentBegins ==
  ASSUME EnrollmentInv, NEW q \in Request,
         \/ Enrollment!BeginBootstrap(q)
         \/ \E what \in {"token", "key"} : Enrollment!BeginRotation(q, what)
         \/ \E kind \in {"deploy", "trust"} : Enrollment!BeginRun(q, kind)
  PROVE  EnrollmentInv'
<1> DEFINE old == [token |-> 0, key |-> 0, met |-> {}, was |-> admitted]
<1>0. /\ made \in Nat /\ admitted \in BOOLEAN
      /\ admitted => env \in active["token"] /\ authorized \in active["key"]
  BY DEF EnrollmentInv, EnrollmentTypes, CredentialsKept, AdmittedNode
<1>9. /\ DOMAIN old = {"token", "key", "met", "was"}
      /\ old["token"] = 0 /\ old["key"] = 0 /\ old["was"] = admitted
  OBVIOUS
<1> HIDE DEF old
<1>1. CASE Enrollment!BeginBootstrap(q)
  <2>1. PICK t : Enrollment!Starts(q, [kind |-> "bootstrap", pc |-> "consume",
                                      with |-> t, key |-> made + 1])
    BY <1>1 DEF Enrollment!BeginBootstrap
  <2> DEFINE fields == [kind |-> "bootstrap", pc |-> "consume", with |-> t, key |-> made + 1]
             r == Enrollment!Over(fields, old)
  <2>2. DOMAIN fields = {"kind", "pc", "with", "key"} /\ fields["kind"] = "bootstrap"
        /\ fields["pc"] = "consume" /\ fields["key"] = made + 1
    OBVIOUS
  <2>3. active' = active /\ made' = made + 1 /\ authorized' = made + 1
    BY <1>1 DEF Enrollment!BeginBootstrap
  <2> HIDE DEF fields
  <2>4. r.kind = "bootstrap" /\ r.pc = "consume" /\ r.key = made + 1
    <3>1. /\ \A name \in DOMAIN fields : r[name] = fields[name]
          /\ \A name \in DOMAIN old \ DOMAIN fields : r[name] = old[name]
      BY OverFields
    <3> HIDE DEF r
    <3> QED
      BY <1>9, <2>2, <3>1
  <2>5. Stage(fields["kind"], fields["pc"])
    BY <2>2 DEF Stage
  <2>6. Undisturbed(r, active["token"], active["key"], env', authorized')
    BY <2>3, <2>4 DEF Undisturbed
  <2>7. made' \in Nat
    BY <1>0, <2>3
  <2>8. Enrollment!Starts(q, fields)
    BY <2>1 DEF fields
  <2> QED
    BY <2>2, <2>3, <2>5, <2>6, <2>7, <2>8, EnrollmentStarts DEF old
<1>2. ASSUME NEW what \in {"token", "key"}, Enrollment!BeginRotation(q, what)
      PROVE  EnrollmentInv'
  <2> DEFINE fields == [kind |-> what, pc |-> Enrollment!Revoking(what),
                        key |-> IF what = "key" THEN made + 1 ELSE 0]
             r == Enrollment!Over(fields, old)
  <2>1. Enrollment!Starts(q, fields) /\ UNCHANGED <<active, env, authorized>>
        /\ made' = IF what = "key" THEN made + 1 ELSE made
    BY <1>2 DEF Enrollment!BeginRotation, Enrollment!node
  <2>2. DOMAIN fields = {"kind", "pc", "key"} /\ fields["kind"] = what
        /\ fields["pc"] = Enrollment!Revoking(what)
    OBVIOUS
  <2> HIDE DEF fields
  <2>3. Stage(what, Enrollment!Revoking(what)) /\ Enrollment!Revoking(what) # "place"
    BY DEF Stage, Enrollment!Revoking
  <2>4. r.kind = what /\ r.pc = Enrollment!Revoking(what) /\ r.was = admitted
    <3>1. /\ \A name \in DOMAIN fields : r[name] = fields[name]
          /\ \A name \in DOMAIN old \ DOMAIN fields : r[name] = old[name]
      BY OverFields
    <3> HIDE DEF r
    <3> QED
      BY <1>9, <2>2, <3>1
  <2>5. Undisturbed(r, active["token"], active["key"], env', authorized')
    BY <1>0, <2>1, <2>3, <2>4 DEF Undisturbed
  <2>6. made' \in Nat
    BY <1>0, <2>1
  <2> QED
    BY <2>1, <2>2, <2>3, <2>5, <2>6, EnrollmentStarts DEF old
<1>3. ASSUME NEW kind \in {"deploy", "trust"}, Enrollment!BeginRun(q, kind)
      PROVE  EnrollmentInv'
  <2> DEFINE fields == [kind |-> kind, pc |-> "fetch"]
             r == Enrollment!Over(fields, old)
  <2>1. Enrollment!Starts(q, fields) /\ UNCHANGED <<active, env, authorized, made>>
    BY <1>3 DEF Enrollment!BeginRun, Enrollment!node
  <2>2. DOMAIN fields = {"kind", "pc"} /\ fields["kind"] = kind /\ fields["pc"] = "fetch"
    OBVIOUS
  <2> HIDE DEF fields
  <2>3. Stage(kind, "fetch")
    BY DEF Stage
  <2>4. r.kind = kind /\ r.pc = "fetch" /\ r.was = admitted /\ r.token = 0
    <3>1. /\ \A name \in DOMAIN fields : r[name] = fields[name]
          /\ \A name \in DOMAIN old \ DOMAIN fields : r[name] = old[name]
      BY OverFields
    <3> HIDE DEF r
    <3> QED
      BY <1>9, <2>2, <3>1
  <2>5. Undisturbed(r, active["token"], active["key"], env', authorized')
    BY <1>0, <2>1, <2>4 DEF Undisturbed
  <2> QED
    BY <1>0, <2>1, <2>2, <2>3, <2>5, EnrollmentStarts DEF old
<1> QED
  BY <1>1, <1>2, <1>3

\* A credential is revoked or inserted on behalf of a request in flight:
\* whoever is beside the request has met it.
LEMMA EnrollmentTransaction ==
  ASSUME EnrollmentInv, NEW q \in Request, NEW what \in {"token", "key"},
         Enrollment!Revoke(q, what) \/ Enrollment!Insert(q, what)
  PROVE  EnrollmentInv'
<1>0. Enrollment!InFlight(q)
  BY DEF Enrollment!Revoke, Enrollment!Insert
<1> DEFINE me == enrolling[q]
<1>1. /\ Stage(me.kind, me.pc) /\ me.was \in BOOLEAN /\ (me.met = {} => Holds(me))
      /\ DOMAIN active = {"token", "key"} /\ made \in Nat /\ OneCredential
  BY <1>0, EnrollmentAt
<1>2. CASE Enrollment!Revoke(q, what)
  <2> DEFINE fields == [pc |-> Enrollment!Inserting(what), revoked |-> active[what]]
             r == Enrollment!Over(fields, me)
  <2>1. /\ Enrollment!Goes(q, fields) /\ me.pc = Enrollment!Revoking(what)
        /\ UNCHANGED <<active, env, authorized, made, admitted>>
    BY <1>2 DEF Enrollment!Revoke, Enrollment!node, Enrollment!counters
  <2>2. DOMAIN fields = {"pc", "revoked"} /\ fields["pc"] = Enrollment!Inserting(what)
    OBVIOUS
  <2> HIDE DEF fields
  <2>3. Stage(me.kind, Enrollment!Inserting(what))
    BY <1>1, <2>1 DEF Stage, Enrollment!Inserting, Enrollment!Revoking
  <2>4. /\ r.pc = Enrollment!Inserting(what) /\ r.kind = me.kind /\ r.was = me.was
        /\ r.token = me.token /\ r.key = me.key
    BY <1>0, <2>2, <2>3, EnrollmentSet
  <2> HIDE DEF r
  <2>5. me.met = {} => Undisturbed(r, active["token"], active["key"], env, authorized)
    BY <1>1, <2>1, <2>4 DEF Undisturbed, Holds, Enrollment!Inserting, Enrollment!Revoking, Stage
  <2> QED
    BY <1>0, <2>1, <2>2, <2>3, <2>5, EnrollmentOn DEF r
<1>3. CASE Enrollment!Insert(q, what) /\ active[what] \subseteq me.revoked
  <2> DEFINE new == IF what = "key" THEN me.key ELSE made + 1
             pc == Enrollment!AfterCommit(me.kind, what)
             placed == [field \in {what} |-> new]
             fields == Enrollment!Over([pc |-> pc], placed)
             r == Enrollment!Over(fields, me)
  <2>1. /\ Enrollment!Goes(q, fields) /\ me.pc = Enrollment!Inserting(what)
        /\ active' = [active EXCEPT ![what] = {new}]
        /\ made' = IF what = "key" THEN made ELSE new
        /\ UNCHANGED <<env, authorized, admitted>>
    BY <1>3 DEF Enrollment!Insert, Enrollment!node
  <2>2. /\ DOMAIN fields = {"pc", what} /\ fields["pc"] = pc /\ fields[what] = new
    <3>1. DOMAIN placed = {what} /\ placed[what] = new /\ what # "pc"
      OBVIOUS
    <3>2. DOMAIN [pc |-> pc] = {"pc"} /\ [pc |-> pc]["pc"] = pc
      OBVIOUS
    <3> DEFINE first == [pc |-> pc]
    <3> HIDE DEF placed, new, pc
    <3>3. /\ DOMAIN fields = DOMAIN first \cup DOMAIN placed
          /\ \A name \in DOMAIN first : fields[name] = first[name]
          /\ \A name \in DOMAIN placed \ DOMAIN first : fields[name] = placed[name]
      BY OverFields
    <3> HIDE DEF fields, first
    <3>4. DOMAIN first = {"pc"} /\ first["pc"] = pc
      BY <3>2 DEF first
    <3> QED
      BY <3>1, <3>3, <3>4
  <2>3. Stage(me.kind, pc)
    BY <1>1, <2>1 DEF Stage, Enrollment!Inserting, Enrollment!AfterCommit
  <2> HIDE DEF fields, pc
  <2>4. /\ WellFormed(r) /\ r.pc = pc /\ r.pc # "idle" /\ r.kind = me.kind
        /\ r.was = me.was /\ r.met = me.met
        /\ r.token = (IF what = "token" THEN new ELSE me.token)
        /\ r.key = (IF what = "key" THEN new ELSE me.key)
    BY <1>0, <2>2, <2>3, EnrollmentSet
  <2>5. enrolling' = [enrolling EXCEPT ![q] = r]
    BY <2>1 DEF Enrollment!Goes
  <2> HIDE DEF r
  <2>6. /\ DOMAIN active' = {"token", "key"} /\ made' \in Nat
        /\ active'[what] = {new} /\ \A other \in {"token", "key"} \ {what} :
             active'[other] = active[other]
    BY <1>1, <2>1
  <2>7. OneCredential'
    <3>1. Cardinality({new}) = 1
      BY FS_Singleton
    <3> HIDE DEF new
    <3> QED
      BY <1>1, <2>6, <3>1 DEF OneCredential
  <2>8. me.met = {} =>
          Undisturbed(r, active'["token"], active'["key"], env', authorized')
    <3> SUFFICES ASSUME me.met = {}
                 PROVE  Undisturbed(r, active'["token"], active'["key"], env, authorized)
      BY <2>1
    <3>1. Undisturbed(me, active["token"], active["key"], env, authorized)
      BY <1>1 DEF Holds
    <3>2. CASE what = "key"
      <4>1. /\ active'["key"] = {me.key} /\ active'["token"] = active["token"]
            /\ r.key = me.key /\ r.token = me.token /\ me.pc = "insert key"
        BY <2>1, <2>4, <2>6, <3>2 DEF Enrollment!Inserting
      <4>2. \/ me.kind = "bootstrap" /\ r.pc = "revoke token"
            \/ me.kind = "key" /\ r.pc = "place"
        BY <1>1, <2>4, <3>2, <4>1 DEF Stage, Enrollment!AfterCommit, pc
      <4> QED
        BY <2>4, <3>1, <4>1, <4>2 DEF Undisturbed
    <3>3. CASE what = "token"
      <4>1. /\ active'["token"] = {r.token} /\ active'["key"] = active["key"]
            /\ r.key = me.key /\ me.pc = "insert token"
        BY <2>1, <2>4, <2>6, <3>3 DEF Enrollment!Inserting
      <4>2. \/ me.kind = "bootstrap" /\ r.pc = "answer"
            \/ me.kind = "token" /\ r.pc = "place"
            \/ me.kind = "deploy" /\ r.pc = "connect"
        BY <1>1, <2>4, <3>3, <4>1 DEF Stage, Enrollment!AfterCommit, pc
      <4> QED
        BY <2>4, <3>1, <4>1, <4>2 DEF Undisturbed
    <3> QED
      BY <3>2, <3>3
  <2> HIDE DEF new
  <2> QED
    BY <1>0, <2>1, <2>4, <2>5, <2>6, <2>7, <2>8, EnrollmentGoes
<1>4. CASE Enrollment!Insert(q, what) /\ ~(active[what] \subseteq me.revoked)
  <2> DEFINE fields == [pc |-> Enrollment!RolledBack(me.kind)]
             r == Enrollment!Over(fields, me)
  <2>1. /\ Enrollment!Goes(q, fields) /\ me.pc = Enrollment!Inserting(what)
        /\ UNCHANGED <<active, env, authorized, made, admitted>>
    BY <1>4 DEF Enrollment!Insert, Enrollment!node
  <2>2. DOMAIN fields = {"pc"} /\ fields["pc"] = Enrollment!RolledBack(me.kind)
    OBVIOUS
  <2> HIDE DEF fields
  <2>3. Stage(me.kind, Enrollment!RolledBack(me.kind))
    BY <1>1, <2>1 DEF Stage, Enrollment!Inserting, Enrollment!RolledBack
  <2>4. /\ r.pc = Enrollment!RolledBack(me.kind) /\ r.kind = me.kind /\ r.was = me.was
        /\ r.token = me.token /\ r.key = me.key
    BY <1>0, <2>2, <2>3, EnrollmentSet
  <2> HIDE DEF r
  <2>5. me.met = {} => Undisturbed(r, active["token"], active["key"], env, authorized)
    BY <1>1, <2>1, <2>4 DEF Undisturbed, Holds, Enrollment!Inserting, Enrollment!RolledBack, Stage
  <2> QED
    BY <1>0, <2>1, <2>2, <2>3, <2>5, EnrollmentOn DEF r
<1> QED
  BY <1>2, <1>3, <1>4

\* A bootstrap consumes its token, and answers.
LEMMA EnrollmentBoot ==
  ASSUME EnrollmentInv, NEW q \in Request, Enrollment!Consume(q) \/ Enrollment!Answer(q)
  PROVE  EnrollmentInv'
<1>0. Enrollment!InFlight(q)
  BY DEF Enrollment!Consume, Enrollment!Answer, Enrollment!At
<1> DEFINE me == enrolling[q]
<1>1. /\ Stage(me.kind, me.pc) /\ me.kind = "bootstrap" /\ (me.met = {} => Holds(me))
  BY <1>0, EnrollmentAt DEF Enrollment!Consume, Enrollment!Answer, Enrollment!At
<1>2. CASE Enrollment!Consume(q)
  <2>1. PICK pc \in {"revoke key", "rejected"} : Enrollment!Goes(q, [pc |-> pc])
    BY <1>2 DEF Enrollment!Consume
  <2> DEFINE fields == [pc |-> pc]
             r == Enrollment!Over(fields, me)
  <2>2. DOMAIN fields = {"pc"} /\ fields["pc"] = pc /\ Enrollment!Goes(q, fields)
    BY <2>1
  <2> HIDE DEF fields
  <2>3. Stage(me.kind, pc)
    BY <1>1 DEF Stage
  <2>4. r.pc = pc /\ r.kind = me.kind /\ r.key = me.key
    BY <1>0, <2>2, <2>3, EnrollmentSet
  <2> HIDE DEF r
  <2>5. me.met = {} => Undisturbed(r, active["token"], active["key"], env, authorized)
    BY <1>1, <2>4 DEF Undisturbed, Holds
  <2>6. UNCHANGED <<active, env, authorized, made, admitted>>
    BY <1>2 DEF Enrollment!Consume, Enrollment!node, Enrollment!counters
  <2> QED
    BY <1>0, <2>2, <2>3, <2>5, <2>6, EnrollmentOn DEF r
<1>3. CASE Enrollment!Answer(q) /\ Enrollment!EndsWell(q) /\ boot = q /\ me.pc = "answer"
  <2>1. env' = me.token /\ UNCHANGED <<active, authorized, made>>
    BY <1>3 DEF Enrollment!Answer, Enrollment!counters
  <2>2. me.met = {} => env' \in active["token"] /\ authorized' \in active["key"]
    BY <1>1, <1>3, <2>1 DEF Holds, Undisturbed
  <2> QED
    BY <1>0, <1>3, <2>1, <2>2, EnrollmentWell
<1>4. CASE Enrollment!Answer(q) /\ ~(boot = q /\ me.pc = "answer")
  BY <1>0, <1>4, EnrollmentOff DEF Enrollment!Answer, Enrollment!counters
<1> QED
  BY <1>2, <1>3, <1>4 DEF Enrollment!Answer

\* A rotated credential is placed on the node, or not.
LEMMA EnrollmentRotation ==
  ASSUME EnrollmentInv, NEW q \in Request, Enrollment!Place(q) \/ Enrollment!EndRotation(q)
  PROVE  EnrollmentInv'
<1>0. Enrollment!InFlight(q)
  BY DEF Enrollment!Place, Enrollment!EndRotation, Enrollment!At
<1> DEFINE me == enrolling[q]
<1>1. CASE Enrollment!Place(q)
  <2>1. /\ me.pc = "place" /\ me.kind \in {"token", "key"} /\ (me.met = {} => Holds(me))
        /\ Enrollment!EndsWell(q) /\ UNCHANGED <<active, made>>
        /\ me.kind = "token" => env' = me.token /\ authorized' = authorized
        /\ me.kind = "key" => authorized' = me.key /\ env' = env
    BY <1>0, <1>1, EnrollmentAt DEF Enrollment!Place, Enrollment!At, Enrollment!counters
  <2>2. me.met = {} /\ me.was => env' \in active["token"] /\ authorized' \in active["key"]
    BY <2>1 DEF Holds, Undisturbed
  <2>3. me.kind \notin {"bootstrap", "deploy"}
    BY <2>1
  <2> QED
    BY <1>0, <2>1, <2>2, <2>3, EnrollmentWell
<1>2. CASE Enrollment!EndRotation(q)
  BY <1>0, <1>2, EnrollmentOff DEF Enrollment!EndRotation, Enrollment!counters
<1> QED
  BY <1>1, <1>2

\* A deployment over SSH reads, connects and writes.
LEMMA EnrollmentRun ==
  ASSUME EnrollmentInv, NEW q \in Request,
         \/ Enrollment!Fetch(q) \/ Enrollment!Connect(q)
         \/ Enrollment!Unreachable(q) \/ Enrollment!WriteEnv(q)
  PROVE  EnrollmentInv'
<1>0. Enrollment!InFlight(q)
  BY DEF Enrollment!Fetch, Enrollment!Connect, Enrollment!Unreachable, Enrollment!WriteEnv,
     Enrollment!At
<1> DEFINE me == enrolling[q]
<1>1. /\ Stage(me.kind, me.pc) /\ me.kind \in {"deploy", "trust"} /\ me.was \in BOOLEAN
      /\ me.met = {} => Undisturbed(me, active["token"], active["key"], env, authorized)
      /\ DOMAIN active = {"token", "key"} /\ made \in Nat /\ OneCredential
  BY <1>0, EnrollmentAt DEF Enrollment!Fetch, Enrollment!Connect, Enrollment!Unreachable,
     Enrollment!WriteEnv, Enrollment!At, Holds
<1>2. CASE Enrollment!Fetch(q)
  <2> DEFINE pc == IF Enrollment!Provisions(me.kind) THEN "revoke token" ELSE "connect"
  <2>1. PICK key \in active["key"] : Enrollment!Goes(q, [pc |-> pc, key |-> key])
    BY <1>2 DEF Enrollment!Fetch
  <2>2. UNCHANGED <<active, env, authorized, made, admitted>> /\ me.pc = "fetch"
    BY <1>2 DEF Enrollment!Fetch, Enrollment!node, Enrollment!counters, Enrollment!At
  <2> DEFINE fields == [pc |-> pc, key |-> key]
             r == Enrollment!Over(fields, me)
  <2>3. DOMAIN fields = {"pc", "key"} /\ fields["pc"] = pc /\ fields["key"] = key
        /\ Enrollment!Goes(q, fields)
    BY <2>1
  <2> HIDE DEF fields
  <2>4. Stage(me.kind, pc) /\ (me.kind = "deploy" => pc = "revoke token")
    BY <1>1 DEF Stage, Enrollment!Provisions
  <2> HIDE DEF pc
  <2>5. /\ r.pc = pc /\ r.kind = me.kind /\ r.key = key /\ r.token = me.token
        /\ r.was = me.was
    BY <1>0, <2>3, <2>4, EnrollmentSet
  <2> HIDE DEF r
  <2>6. me.met = {} => Undisturbed(r, active["token"], active["key"], env, authorized)
    BY <1>1, <2>1, <2>2, <2>4, <2>5 DEF Undisturbed
  <2> QED
    BY <1>0, <2>2, <2>3, <2>4, <2>6, EnrollmentOn DEF r
<1>3. CASE Enrollment!Connect(q)
  <2>1. /\ me.pc = "connect" /\ authorized' = me.key /\ UNCHANGED <<active, env, made>>
    BY <1>3 DEF Enrollment!Connect, Enrollment!counters, Enrollment!At
  <2>2. CASE me.kind = "trust"
    <3>1. Enrollment!EndsWell(q)
      BY <1>3, <2>2 DEF Enrollment!Connect
    <3>2. me.met = {} /\ me.was => env' \in active["token"] /\ authorized' \in active["key"]
      BY <1>1, <2>1, <2>2 DEF Undisturbed
    <3> QED
      BY <1>0, <2>1, <2>2, <3>1, <3>2, EnrollmentWell
  <2>3. CASE me.kind = "deploy"
    <3> DEFINE fields == [pc |-> "write"]
               r == Enrollment!Over(fields, me)
    <3>1. Enrollment!Goes(q, fields) /\ admitted' = admitted
      BY <1>3, <2>3 DEF Enrollment!Connect
    <3>2. DOMAIN fields = {"pc"} /\ fields["pc"] = "write"
      OBVIOUS
    <3> HIDE DEF fields
    <3>3. Stage(me.kind, "write")
      BY <2>3 DEF Stage
    <3>4. /\ WellFormed(r) /\ r.pc = "write" /\ r.pc # "idle" /\ r.kind = me.kind
          /\ r.met = me.met /\ r.key = me.key /\ r.token = me.token
      BY <1>0, <3>2, <3>3, EnrollmentSet
    <3>5. enrolling' = [enrolling EXCEPT ![q] = r]
      BY <3>1 DEF Enrollment!Goes
    <3> HIDE DEF r
    <3>6. me.met = {} =>
            Undisturbed(r, active'["token"], active'["key"], env', authorized')
      BY <1>1, <2>1, <2>3, <3>4 DEF Undisturbed
    <3>7. DOMAIN active' = {"token", "key"} /\ made' \in Nat /\ OneCredential'
      BY <1>1, <2>1 DEF OneCredential
    <3> QED
      BY <1>0, <3>1, <3>4, <3>5, <3>6, <3>7, EnrollmentGoes
  <2> QED
    BY <1>1, <2>2, <2>3
<1>4. CASE Enrollment!Unreachable(q)
  BY <1>0, <1>4, EnrollmentOff DEF Enrollment!Unreachable, Enrollment!counters
<1>5. CASE Enrollment!WriteEnv(q)
  <2>1. /\ me.pc = "write" /\ me.kind = "deploy" /\ env' = me.token
        /\ UNCHANGED <<active, authorized, made>>
    BY <1>5 DEF Enrollment!WriteEnv, Enrollment!counters, Enrollment!At
  <2>2. CASE me.token = 0
    BY <1>0, <1>5, <2>1, <2>2, EnrollmentOff DEF Enrollment!WriteEnv
  <2>3. CASE me.token # 0
    <3>1. Enrollment!EndsWell(q)
      BY <1>5, <2>3 DEF Enrollment!WriteEnv
    <3>2. me.met = {} => env' \in active["token"] /\ authorized' \in active["key"]
      BY <1>1, <2>1, <2>3 DEF Undisturbed
    <3> QED
      BY <1>0, <2>1, <3>1, <3>2, EnrollmentWell
  <2> QED
    BY <2>2, <2>3
<1> QED
  BY <1>2, <1>3, <1>4, <1>5

\* A request fails where it is.
LEMMA EnrollmentFails ==
  ASSUME EnrollmentInv, NEW q \in Request, Enrollment!Fails(q)
  PROVE  EnrollmentInv'
<1>0. Enrollment!InFlight(q) /\ UNCHANGED <<active, env, authorized, made, admitted>>
  BY DEF Enrollment!Fails, Enrollment!node
<1> DEFINE me == enrolling[q]
<1>1. Stage(me.kind, me.pc) /\ (me.met = {} => Holds(me))
  BY <1>0, EnrollmentAt
<1>2. CASE Enrollment!Ends(q)
  BY <1>0, <1>2, EnrollmentOff
<1>3. ASSUME NEW pc, Enrollment!Goes(q, [pc |-> pc]),
             \/ me.kind = "bootstrap" /\ pc = "rejected"
             \/ /\ me.kind # "bootstrap" /\ me.pc \in {"revoke token", "insert token"}
                /\ pc = Enrollment!RolledBack(me.kind)
      PROVE  EnrollmentInv'
  <2> DEFINE fields == [pc |-> pc]
             r == Enrollment!Over(fields, me)
  <2>1. DOMAIN fields = {"pc"} /\ fields["pc"] = pc /\ Enrollment!Goes(q, fields)
    BY <1>3
  <2> HIDE DEF fields
  <2>2. Stage(me.kind, pc)
    BY <1>1, <1>3 DEF Stage, Enrollment!RolledBack
  <2>3. /\ r.pc = pc /\ r.kind = me.kind /\ r.was = me.was
        /\ r.token = me.token /\ r.key = me.key
    BY <1>0, <2>1, <2>2, EnrollmentSet
  <2> HIDE DEF r
  <2>4. me.met = {} => Undisturbed(r, active["token"], active["key"], env, authorized)
    BY <1>1, <1>3, <2>3 DEF Undisturbed, Holds, Enrollment!RolledBack, Stage
  <2> QED
    BY <1>0, <2>1, <2>2, <2>4, EnrollmentOn DEF r
<1> QED
  BY <1>2, <1>3 DEF Enrollment!Fails

\* Steps that leave the credentials and the requests.
LEMMA EnrollmentSame ==
  ASSUME EnrollmentInv, UNCHANGED <<enrolling, active, env, authorized, made, admitted>>
  PROVE  EnrollmentInv'
<1>1. EnrollmentTypes'
  BY DEF EnrollmentInv, EnrollmentTypes, WellFormed, Enrollment!InFlight
<1>2. Meetings' /\ CredentialsKept'
  BY DEF EnrollmentInv, Meetings, Enrollment!InFlight, CredentialsKept, AdmittedNode,
     OneCredential
<1>3. \A q \in Request : (Enrollment!InFlight(q) /\ enrolling[q].met = {} => Holds(enrolling[q]))'
  BY DEF EnrollmentInv, Enrollment!InFlight, Holds
<1> QED
  BY <1>1, <1>2, <1>3 DEF EnrollmentInv

\* The requests that a restart leaves are as they were.
LEMMA EnrollmentRestart ==
  ASSUME EnrollmentInv, Enrollment!Restart
  PROVE  EnrollmentInv'
<1>1. /\ DOMAIN enrolling' = Request /\ UNCHANGED <<active, env, authorized, made, admitted>>
      /\ \A q \in Request : enrolling'[q] = enrolling[q] \/ enrolling'[q] = Enrollment!Idle
  BY DEF Enrollment!Restart, Enrollment!node
<1>2. \A q \in Request : Enrollment!InFlight(q)' => Enrollment!InFlight(q) /\ enrolling'[q] = enrolling[q]
  BY <1>1 DEF Enrollment!InFlight, Enrollment!Idle
<1>3. EnrollmentTypes'
  BY <1>1, <1>2 DEF EnrollmentInv, EnrollmentTypes, WellFormed
<1>4. Meetings' /\ CredentialsKept'
  BY <1>1, <1>2 DEF EnrollmentInv, Meetings, CredentialsKept, AdmittedNode, OneCredential
<1>5. \A q \in Request : (Enrollment!InFlight(q) /\ enrolling[q].met = {} => Holds(enrolling[q]))'
  BY <1>1, <1>2 DEF EnrollmentInv, Holds
<1> QED
  BY <1>3, <1>4, <1>5 DEF EnrollmentInv

\* Every step keeps the invariant.
LEMMA EnrollmentKept ==
  ASSUME EnrollmentInv, [Enrollment!Next]_Enrollment!vars
  PROVE  EnrollmentInv'
<1>1. CASE UNCHANGED Enrollment!vars
  BY <1>1, EnrollmentSame DEF Enrollment!vars, Enrollment!node, Enrollment!counters
<1>2. ASSUME NEW t, Enrollment!Issue(t) \/ Enrollment!Lapse(t) PROVE EnrollmentInv'
  BY <1>2, EnrollmentSame DEF Enrollment!Issue, Enrollment!Lapse, Enrollment!node,
     Enrollment!counters
<1>3. CASE Enrollment!AgentGivesUp
  BY <1>3, EnrollmentSame DEF Enrollment!AgentGivesUp, Enrollment!node
<1>4. CASE Enrollment!Restart
  BY <1>4, EnrollmentRestart
<1>5. ASSUME NEW q \in Request,
             \/ Enrollment!BeginBootstrap(q) \/ Enrollment!Consume(q) \/ Enrollment!Answer(q)
             \/ \E what \in {"token", "key"} :
                  \/ Enrollment!BeginRotation(q, what)
                  \/ Enrollment!Revoke(q, what) \/ Enrollment!Insert(q, what)
             \/ Enrollment!Place(q) \/ Enrollment!EndRotation(q)
             \/ \E kind \in {"deploy", "trust"} : Enrollment!BeginRun(q, kind)
             \/ Enrollment!Fetch(q) \/ Enrollment!Connect(q) \/ Enrollment!Unreachable(q)
             \/ Enrollment!WriteEnv(q) \/ Enrollment!Fails(q)
      PROVE  EnrollmentInv'
  BY <1>5, EnrollmentBegins, EnrollmentBoot, EnrollmentTransaction, EnrollmentRotation,
     EnrollmentRun, EnrollmentFails
<1> QED
  BY <1>1, <1>2, <1>3, <1>4, <1>5 DEF Enrollment!Next

\* Requests that replace credentials in the database and at the node leave one
\* active token and at most one key, and the node let in when they ran one after
\* the other.
THEOREM CredentialsAreKept ==
  Enrollment!Spec => []CredentialsKept
<1>1. Enrollment!Init => EnrollmentInv
  BY EnrollmentInit
<1>2. EnrollmentInv /\ [Enrollment!Next]_Enrollment!vars => EnrollmentInv'
  BY EnrollmentKept
<1>3. EnrollmentInv => CredentialsKept
  BY DEF EnrollmentInv
<1> QED
  BY <1>1, <1>2, <1>3, PTL DEF Enrollment!Spec

-----------------------------------------------------------------------------
(* The interfaces of a node *)

ChannelRec == [index : Inventory!Index, label : Label \cup {Unlabelled}, by : Nat]
InterfaceRec ==
  [ref : Device, count : Inventory!Index, port : Port, absent : BOOLEAN,
   channels : SUBSET ChannelRec]

\* A report that is reconciled, and the device it is at.
Current(r) == CHOOSE d \in r.todo : TRUE
Reconciling(r) == r.pc \in {"channels", "missing"}

ReportFields == {"pc", "met", "report", "number", "existing", "todo", "gone"}
ReportRec(r, table) ==
  /\ ReportFields \subseteq DOMAIN r
  /\ r.report \in Layouts /\ r.number \in Nat /\ r.todo \subseteq DOMAIN r.report
  /\ \A d \in DOMAIN r.existing : r.existing[d] \in 1..Len(table) /\ table[r.existing[d]].ref = d
  /\ r.gone \subseteq 1..Len(table)
  /\ \A k \in r.gone : table[k].ref \notin DOMAIN r.report
  /\ Reconciling(r) =>
       /\ {"row"} \cup (IF r.pc = "missing" THEN {"have"} ELSE {}) \subseteq DOMAIN r
       /\ r.row \in 1..Len(table) /\ table[r.row].ref = Current(r)
       /\ r.todo # {}

EditFields == {"pc", "met", "row", "todo", "label"}
EditRec(r, table) ==
  /\ EditFields \subseteq DOMAIN r
  /\ r.row \in 1..Len(table) /\ r.todo \subseteq Inventory!Index
  /\ r.label \in Label
  /\ r.pc = "write" => "port" \in DOMAIN r /\ r.port \in Port

Sound(q, r, table) ==
  \/ r.pc \in {"device", "channels", "missing"} /\ q \in Reporter /\ ReportRec(r, table)
  \/ r.pc \in {"write", "label"} /\ EditRec(r, table)

InventoryTypes ==
  /\ interfaces \in Seq(InterfaceRec)
  /\ DOMAIN reporting = Inventory!Proc
  /\ \A q \in Inventory!Proc :
       Inventory!InFlight(q) => Sound(q, reporting[q], interfaces)
  /\ given \in [Device -> [Inventory!Index -> Label \cup {Unlabelled}]]
  /\ reports \in Nat

\* Requests in flight together have met; while a report is shown nobody is.
Encounters ==
  /\ \A p, q \in Inventory!Proc :
       Inventory!InFlight(p) /\ Inventory!InFlight(q) /\ p # q => p \in reporting[q].met
  /\ shown # NoReport => \A q \in Inventory!Proc : ~Inventory!InFlight(q)

\* One row for a device, and one report at a time that reconciles it.
Sole ==
  \A k, l \in Interfaces :
    interfaces[k].ref = interfaces[l].ref /\ interfaces[k].ref \notin raced => k = l

Apart ==
  \A p, q \in Inventory!Proc :
    (p # q /\ Reconciling(reporting[p]) /\ Reconciling(reporting[q])
       /\ Current(reporting[p]) = Current(reporting[q]))
      => Current(reporting[p]) \in raced

\* A label that was given is at a channel.
Blank ==
  \A d \in Device \ raced : \A i \in Inventory!Index :
    given[d][i] # Unlabelled =>
      \E k \in Interfaces :
        interfaces[k].ref = d /\ \E c \in interfaces[k].channels : c.index = i

\* The channels of a row, whole when no report is between its row and its channels.
Unique ==
  \A k \in Interfaces : interfaces[k].ref \notin raced =>
    \A c, e \in interfaces[k].channels : c.index = e.index => c = e

Indices(entry) == {c.index : c \in entry.channels}
Entire(k) == Indices(interfaces[k]) = 1..interfaces[k].count

Complete ==
  \A k \in Interfaces :
    \/ interfaces[k].ref \in raced
    \/ k \in torn
    \/ Entire(k)
    \/ \E q \in Inventory!Proc : Reconciling(reporting[q]) /\ reporting[q].row = k

\* What a report knows of the channels it reconciles.
Knows(r, table, races) ==
  Reconciling(r) /\ Current(r) \notin races =>
    /\ table[r.row].count = r.report[Current(r)].count
    /\ r.pc = "missing" =>
         /\ \A c \in table[r.row].channels : c.index <= table[r.row].count
         /\ \A i \in 1..table[r.row].count :
              i \in r.have <=> \E c \in table[r.row].channels : c.index = i

\* A report that has met no other knows the devices it inserts to be new.
Enlisted(r, table) ==
  r.pc \in {"device", "channels", "missing"} /\ r.met \cap Reporter = {} =>
    \A d \in r.todo \ DOMAIN r.existing :
      (Reconciling(r) /\ d = Current(r)) \/ \A k \in 1..Len(table) : table[k].ref # d

\* How far a report that runs alone has come.
AsReported(entry, facts) ==
  ~entry.absent /\ entry.count = facts.count /\ entry.port = facts.port

Progress(r, table, races) ==
  r.pc \in {"device", "channels", "missing"} /\ r.met = {} =>
    /\ \A k \in 1..Len(table) : table[k].ref \notin races =>
         IF table[k].ref \in DOMAIN r.report
         THEN \/ table[k].ref \in r.todo /\ ~(Reconciling(r) /\ r.row = k)
              \/ AsReported(table[k], r.report[table[k].ref])
         ELSE table[k].absent \/ k \in r.gone
    /\ \A d \in DOMAIN r.report \ r.todo : \E k \in 1..Len(table) : table[k].ref = d

Insight(r, table, races) == Knows(r, table, races) /\ Enlisted(r, table) /\ Progress(r, table, races)

InventoryInv ==
  /\ InventoryTypes /\ Encounters /\ Sole /\ Apart /\ LabelsKept /\ Blank /\ Unique
  /\ Complete
  /\ \A q \in Inventory!Proc : Insight(reporting[q], interfaces, raced)
  /\ InventoryWhole

USE DEF Inventory!Proc, Inventory!Interfaces, Interfaces

-----------------------------------------------------------------------------

\* The invariant holds of a node without rows.
LEMMA InventoryInit ==
  ASSUME Inventory!Init
  PROVE  InventoryInv
<1>1. /\ interfaces = <<>> /\ Interfaces = {} /\ DOMAIN reporting = Inventory!Proc
      /\ \A q \in Inventory!Proc : reporting[q].pc = "idle"
      /\ shown = NoReport
  BY DEF Inventory!Init, Inventory!Idle
<1>2. InventoryTypes
  <2>1. given \in [Device -> [Inventory!Index -> Label \cup {Unlabelled}]] /\ reports \in Nat
    BY DEF Inventory!Init
  <2>2. interfaces \in Seq(InterfaceRec)
    BY <1>1
  <2> QED
    BY <1>1, <2>1, <2>2 DEF InventoryTypes, Inventory!InFlight
<1>3. Blank
  BY DEF Inventory!Init, Blank
<1>4. Encounters /\ Sole /\ Apart /\ LabelsKept /\ Unique /\ Complete /\ InventoryWhole
  BY <1>1 DEF Encounters, Sole, Apart, LabelsKept, Unique, Complete, InventoryWhole,
     Inventory!InFlight, Reconciling
<1>5. \A q \in Inventory!Proc : Insight(reporting[q], interfaces, raced)
  BY <1>1 DEF Insight, Knows, Enlisted, Progress, Reconciling
<1> QED
  BY <1>2, <1>3, <1>4, <1>5 DEF InventoryInv

\* A row that is written keeps its reference.
LEMMA RowWritten ==
  ASSUME InventoryTypes, NEW k \in Interfaces, NEW entry \in InterfaceRec,
         entry.ref = interfaces[k].ref, interfaces' = [interfaces EXCEPT ![k] = entry]
  PROVE  /\ interfaces' \in Seq(InterfaceRec) /\ Len(interfaces') = Len(interfaces)
         /\ Len(interfaces) \in Nat
         /\ interfaces'[k] = entry
         /\ \A l \in Interfaces : l # k => interfaces'[l] = interfaces[l]
         /\ \A l \in Interfaces : interfaces'[l].ref = interfaces[l].ref
<1>1. interfaces \in Seq(InterfaceRec) /\ Len(interfaces) \in Nat
  BY DEF InventoryTypes
<1>2. interfaces' \in Seq(InterfaceRec) /\ Len(interfaces') = Len(interfaces)
  BY <1>1
<1>3. interfaces'[k] = entry /\ \A l \in Interfaces : l # k => interfaces'[l] = interfaces[l]
  BY <1>1
<1> QED
  BY <1>1, <1>2, <1>3

\* A request goes on or ends: the others are as sound as they were, and a report
\* that runs alone has no other beside it.
LEMMA InventoryOthers ==
  ASSUME InventoryInv, NEW q \in Inventory!Proc, Inventory!InFlight(q), NEW r,
         reporting' = [reporting EXCEPT ![q] = r],
         interfaces' \in Seq(InterfaceRec), Len(interfaces) <= Len(interfaces'),
         \A k \in Interfaces : interfaces'[k].ref = interfaces[k].ref,
         q \notin Reporter => Len(interfaces') = Len(interfaces),
         given' \in [Device -> [Inventory!Index -> Label \cup {Unlabelled}]],
         reports' = reports,
         r.pc = "idle" \/ (r.met = reporting[q].met /\ Sound(q, r, interfaces')),
         shown' # NoReport => r.pc = "idle" /\ reporting[q].met = {}
  PROVE  /\ InventoryTypes' /\ Encounters' /\ shown = NoReport
         /\ reporting'[q] = r
         /\ \A p \in Inventory!Proc \ {q} :
              /\ reporting'[p] = reporting[p]
              /\ Enlisted(reporting[p], interfaces')
              /\ Progress(reporting[p], interfaces', raced')
<1>0. Len(interfaces) \in Nat /\ Len(interfaces') \in Nat
  BY DEF InventoryInv, InventoryTypes
<1>1. /\ DOMAIN reporting' = Inventory!Proc /\ reporting'[q] = r
      /\ \A p \in Inventory!Proc \ {q} : reporting'[p] = reporting[p]
  BY DEF InventoryInv, InventoryTypes
<1>2. shown = NoReport
  BY DEF InventoryInv, Encounters
<1>3. ASSUME NEW p \in Inventory!Proc \ {q}, Inventory!InFlight(p)
      PROVE  /\ Sound(p, reporting[p], interfaces')
             /\ q \in reporting[p].met /\ p \in reporting[q].met
  <2>1. Sound(p, reporting[p], interfaces)
    BY <1>3 DEF InventoryInv, InventoryTypes
  <2>2. /\ ReportRec(reporting[p], interfaces) => ReportRec(reporting[p], interfaces')
        /\ EditRec(reporting[p], interfaces) => EditRec(reporting[p], interfaces')
    BY <1>0 DEF ReportRec, EditRec
  <2>3. Sound(p, reporting[p], interfaces')
    BY <2>1, <2>2 DEF Sound
  <2>4. q \in reporting[p].met /\ p \in reporting[q].met
    BY <1>3 DEF InventoryInv, Encounters
  <2> QED
    BY <2>3, <2>4
<1>4. InventoryTypes'
  BY <1>1, <1>3 DEF InventoryInv, InventoryTypes, Inventory!InFlight
<1>5. Encounters'
  BY <1>1, <1>3 DEF InventoryInv, Encounters, Inventory!InFlight
<1>6. ASSUME NEW p \in Inventory!Proc \ {q} PROVE Enlisted(reporting[p], interfaces')
  <2> SUFFICES ASSUME reporting[p].pc \in {"device", "channels", "missing"},
                      reporting[p].met \cap Reporter = {}
               PROVE  Enlisted(reporting[p], interfaces')
    BY DEF Enlisted
  <2>1. q \notin Reporter
    BY <1>3 DEF Inventory!InFlight
  <2> QED
    BY <1>0, <2>1 DEF InventoryInv, Insight, Enlisted
<1>7. ASSUME NEW p \in Inventory!Proc \ {q} PROVE Progress(reporting[p], interfaces', raced')
  BY <1>3 DEF Progress, Inventory!InFlight
<1> QED
  BY <1>1, <1>2, <1>4, <1>5, <1>6, <1>7

\* Steps that leave the channels of all rows.
LEMMA InventoryChannels ==
  ASSUME InventoryInv, Len(interfaces') = Len(interfaces),
         \A k \in Interfaces : /\ interfaces'[k].ref = interfaces[k].ref
                               /\ interfaces'[k].channels = interfaces[k].channels,
         given' = given, raced \subseteq raced'
  PROVE  Sole' /\ LabelsKept' /\ Blank' /\ Unique'
<1>1. Sole'
  BY DEF InventoryInv, Sole
<1>2. LabelsKept'
  BY DEF InventoryInv, LabelsKept
<1>3. Blank'
  BY DEF InventoryInv, Blank
<1>4. Unique'
  BY DEF InventoryInv, Unique
<1> QED
  BY <1>1, <1>2, <1>3, <1>4

\* Steps that leave all of what is known of them.
LEMMA InventoryKnows ==
  ASSUME InventoryInv, Len(interfaces') = Len(interfaces),
         \A k \in Interfaces : /\ interfaces'[k].count = interfaces[k].count
                               /\ Indices(interfaces'[k]) = Indices(interfaces[k]),
         raced \subseteq raced', NEW p \in Inventory!Proc
  PROVE  Knows(reporting[p], interfaces', raced')
<1> SUFFICES ASSUME Reconciling(reporting[p])
             PROVE  Knows(reporting[p], interfaces', raced')
  BY DEF Knows
<1>1. reporting[p].row \in Interfaces
  BY DEF InventoryInv, InventoryTypes, Inventory!InFlight, Sound, ReportRec, Reconciling
<1>2. Knows(reporting[p], interfaces, raced)
  BY DEF InventoryInv, Insight
<1>3. \A entry, i : i \in Indices(entry) <=> \E c \in entry.channels : c.index = i
  BY DEF Indices
<1>4. \A k \in Interfaces : \A i :
        (\E c \in interfaces'[k].channels : c.index = i)
          <=> (\E c \in interfaces[k].channels : c.index = i)
  BY <1>3
<1>5. ASSUME NEW k \in Interfaces, NEW c \in interfaces'[k].channels
      PROVE  \E e \in interfaces[k].channels : e.index = c.index
  BY <1>4, <1>5
<1>6. ASSUME Current(reporting[p]) \notin raced', NEW k \in Interfaces, k = reporting[p].row
      PROVE  /\ interfaces'[k].count = reporting[p].report[Current(reporting[p])].count
             /\ reporting[p].pc = "missing" =>
                  /\ \A c \in interfaces'[k].channels : c.index <= interfaces'[k].count
                  /\ \A i \in 1..interfaces'[k].count :
                       i \in reporting[p].have <=> \E c \in interfaces'[k].channels : c.index = i
  <2>1. /\ interfaces[k].count = reporting[p].report[Current(reporting[p])].count
        /\ reporting[p].pc = "missing" =>
             /\ \A c \in interfaces[k].channels : c.index <= interfaces[k].count
             /\ \A i \in 1..interfaces[k].count :
                  i \in reporting[p].have <=> \E c \in interfaces[k].channels : c.index = i
    BY <1>2, <1>6 DEF Knows
  <2>2. interfaces'[k].count = interfaces[k].count
    OBVIOUS
  <2> QED
    BY <1>4, <1>5, <2>1, <2>2
<1> QED
  BY <1>1, <1>6 DEF Knows

\* A report that goes on at its device, or leaves it, is beside no new one.
LEMMA InventoryExclusive ==
  ASSUME InventoryInv, NEW q \in Inventory!Proc, NEW r,
         reporting' = [reporting EXCEPT ![q] = r], raced \subseteq raced',
         Reconciling(r) => Reconciling(reporting[q]) /\ Current(r) = Current(reporting[q])
  PROVE  Apart'
<1>1. reporting'[q] = r /\ \A p \in Inventory!Proc \ {q} : reporting'[p] = reporting[p]
  BY DEF InventoryInv, InventoryTypes
<1> QED
  BY <1>1 DEF InventoryInv, Apart

\* What a report is.
LEMMA InventoryReport ==
  ASSUME InventoryInv, NEW q \in Inventory!Proc,
         reporting[q].pc \in {"device", "channels", "missing"}
  PROVE  /\ Inventory!InFlight(q) /\ q \in Reporter /\ ReportRec(reporting[q], interfaces)
         /\ Insight(reporting[q], interfaces, raced)
BY DEF InventoryInv, InventoryTypes, Inventory!InFlight, Sound

\* What a report is once some of its fields are set.
LEMMA InventorySet ==
  ASSUME InventoryInv, NEW q \in Inventory!Proc,
         reporting[q].pc \in {"device", "channels", "missing"}, NEW fields,
         DOMAIN fields \subseteq {"pc", "row", "have", "todo", "gone"}
  PROVE  LET r == Inventory!Over(fields, reporting[q]) IN
         /\ ReportFields \subseteq DOMAIN r
         /\ r.report = reporting[q].report /\ r.number = reporting[q].number
         /\ r.met = reporting[q].met /\ r.existing = reporting[q].existing
         /\ \A name \in DOMAIN fields : r[name] = fields[name]
         /\ "pc" \notin DOMAIN fields => r.pc = reporting[q].pc
         /\ "todo" \notin DOMAIN fields => r.todo = reporting[q].todo
         /\ "gone" \notin DOMAIN fields => r.gone = reporting[q].gone
         /\ DOMAIN fields \subseteq DOMAIN r
         /\ "row" \in DOMAIN reporting[q] \ DOMAIN fields
              => "row" \in DOMAIN r /\ r.row = reporting[q].row
<1> DEFINE r == Inventory!Over(fields, reporting[q])
<1>1. ReportFields \subseteq DOMAIN reporting[q]
  BY InventoryReport DEF ReportRec
<1>2. /\ DOMAIN r = DOMAIN fields \cup DOMAIN reporting[q]
      /\ \A name \in DOMAIN fields : r[name] = fields[name]
      /\ \A name \in DOMAIN reporting[q] \ DOMAIN fields : r[name] = reporting[q][name]
  BY DEF Inventory!Over
<1> HIDE DEF r
<1>3. ReportFields \subseteq DOMAIN r
  BY <1>1, <1>2
<1>4. /\ r.report = reporting[q].report /\ r.number = reporting[q].number
      /\ r.met = reporting[q].met /\ r.existing = reporting[q].existing
      /\ "pc" \notin DOMAIN fields => r.pc = reporting[q].pc
      /\ "todo" \notin DOMAIN fields => r.todo = reporting[q].todo
      /\ "gone" \notin DOMAIN fields => r.gone = reporting[q].gone
  BY <1>1, <1>2 DEF ReportFields
<1> QED
  BY <1>2, <1>3, <1>4 DEF r

\* A device without a row gets one, without channels yet.
LEMMA InventoryInsertRow ==
  ASSUME InventoryInv, Inventory!NodeInventoryAssumption, NEW q \in Reporter,
         Inventory!InsertRow(q)
  PROVE  InventoryInv'
<1> DEFINE me == reporting[q]
           d == Inventory!NextDevice(q)
           facts == me.report[d]
           new == Len(interfaces) + 1
           entry == [ref |-> d, count |-> facts.count, port |-> facts.port,
                   absent |-> FALSE, channels |-> {}]
           fields == [pc |-> "missing", row |-> new, have |-> {}]
           r == Inventory!Over(fields, me)
<1>1. /\ me.pc = "device" /\ me.todo # {} /\ d \notin DOMAIN me.existing
      /\ interfaces' = Append(interfaces, entry)
      /\ reporting' = [reporting EXCEPT ![q] = r]
      /\ raced' = IF me.met \cap Reporter # {} THEN raced \cup {d} ELSE raced
      /\ given' = given /\ torn' = torn /\ shown' = shown /\ reports' = reports
  BY DEF Inventory!InsertRow, Inventory!Goes, Inventory!RaceOn, Inventory!counters
<1>2. /\ q \in Inventory!Proc /\ Inventory!InFlight(q) /\ ReportRec(me, interfaces)
      /\ Insight(me, interfaces, raced) /\ d = Current(me) /\ d \in me.todo
      /\ Len(interfaces) \in Nat /\ interfaces \in Seq(InterfaceRec)
      /\ d \in DOMAIN me.report
  BY <1>1, InventoryReport DEF InventoryInv, InventoryTypes, Inventory!NextDevice, Current,
     ReportRec
<1>3. entry \in InterfaceRec
  <2>1. d \in Device /\ facts.count \in 1..MaxCount /\ facts.port \in Port
    BY <1>2 DEF ReportRec, Inventory!NodeInventoryAssumption
  <2> QED
    BY <2>1 DEF InterfaceRec, Inventory!Index
<1> HIDE DEF d, facts
<1>4. /\ interfaces' \in Seq(InterfaceRec) /\ Len(interfaces') = new
      /\ interfaces'[new] = entry /\ \A k \in Interfaces : interfaces'[k] = interfaces[k]
      /\ new \notin Interfaces /\ Interfaces' = Interfaces \cup {new}
  <2> HIDE DEF entry
  <2> QED
    BY <1>1, <1>2, <1>3
<1>5. /\ ReportFields \subseteq DOMAIN r /\ r.pc = "missing" /\ r.row = new /\ r.have = {}
      /\ {"row", "have"} \subseteq DOMAIN r
      /\ r.report = me.report /\ r.number = me.number /\ r.met = me.met
      /\ r.existing = me.existing /\ r.todo = me.todo /\ r.gone = me.gone
      /\ Current(r) = d
  <2>1. DOMAIN fields = {"pc", "row", "have"} /\ fields["pc"] = "missing"
        /\ fields["row"] = new /\ fields["have"] = {}
    OBVIOUS
  <2> HIDE DEF fields
  <2> QED
    <3>1. DOMAIN fields \subseteq {"pc", "row", "have", "todo", "gone"}
          /\ "todo" \notin DOMAIN fields /\ "gone" \notin DOMAIN fields
      BY <2>1
    <3>2. /\ ReportFields \subseteq DOMAIN r
          /\ r.report = me.report /\ r.number = me.number
          /\ r.met = me.met /\ r.existing = me.existing
          /\ \A name \in DOMAIN fields : r[name] = fields[name]
          /\ r.todo = me.todo /\ r.gone = me.gone /\ DOMAIN fields \subseteq DOMAIN r
      BY <1>1, <1>2, <3>1, InventorySet
    <3> HIDE DEF r
    <3> QED
      BY <1>2, <2>1, <3>2 DEF Current
<1>6. entry.ref = d /\ entry.count = facts.count /\ entry.port = facts.port /\ entry.channels = {}
      /\ ~entry.absent
  OBVIOUS
<1> HIDE DEF r, entry
<1>7. Sound(q, r, interfaces')
  <2>1. \A k \in Interfaces : k \in 1..Len(interfaces') /\ interfaces'[k].ref = interfaces[k].ref
    BY <1>2, <1>4
  <2>2. ReportRec(r, interfaces')
    BY <1>2, <1>4, <1>5, <1>6, <2>1 DEF ReportRec, Reconciling
  <2> QED
    BY <1>5, <2>2 DEF Sound
<1>8. /\ InventoryTypes' /\ Encounters' /\ shown = NoReport
      /\ reporting'[q] = r
      /\ \A p \in Inventory!Proc \ {q} :
           /\ reporting'[p] = reporting[p]
           /\ Enlisted(reporting[p], interfaces')
           /\ Progress(reporting[p], interfaces', raced')
  <2>1. Len(interfaces) <= Len(interfaces')
        /\ \A k \in Interfaces : interfaces'[k].ref = interfaces[k].ref
    BY <1>2, <1>4
  <2>2. given' \in [Device -> [Inventory!Index -> Label \cup {Unlabelled}]]
    BY <1>1 DEF InventoryInv, InventoryTypes
  <2>3. shown' = NoReport
    BY <1>1, <1>2 DEF InventoryInv, Encounters
  <2> QED
    BY <1>1, <1>2, <1>4, <1>5, <1>7, <2>1, <2>2, <2>3, InventoryOthers
<1>9. raced \subseteq raced'
  BY <1>1
\* No report beside this one, or none that knows of its device.
<1>10. d \notin raced' => \A k \in Interfaces : interfaces[k].ref # d
  BY <1>1, <1>2 DEF Insight, Enlisted, Reconciling
<1>11. Sole'
  BY <1>4, <1>6, <1>9, <1>10 DEF InventoryInv, Sole
<1>12. Apart'
  <2>1. ASSUME NEW p \in Inventory!Proc \ {q}, Reconciling(reporting[p]),
               Current(reporting[p]) = d
        PROVE  d \in raced'
    <3>1. p \in Reporter /\ Inventory!InFlight(p)
      BY <2>1, InventoryReport DEF Reconciling
    <3>2. p \in me.met
      BY <1>2, <3>1 DEF InventoryInv, Encounters
    <3> QED
      BY <1>1, <3>1, <3>2
  <2> QED
    BY <1>5, <1>8, <1>9, <2>1 DEF InventoryInv, Apart
<1>13. LabelsKept' /\ Unique' /\ Blank'
  <2>1. LabelsKept'
    BY <1>1, <1>4, <1>6, <1>9 DEF InventoryInv, LabelsKept
  <2>2. Unique'
    BY <1>4, <1>6, <1>9 DEF InventoryInv, Unique
  <2>3. Blank'
    BY <1>1, <1>4, <1>9 DEF InventoryInv, Blank
  <2> QED
    BY <2>1, <2>2, <2>3
<1>14. Complete'
  <2>1. ASSUME NEW k \in Interfaces
        PROVE  \/ interfaces'[k].ref \in raced' \/ k \in torn' \/ Entire(k)'
               \/ \E p \in Inventory!Proc : Reconciling(reporting'[p]) /\ reporting'[p].row = k
    <3>1. ASSUME NEW p \in Inventory!Proc, Reconciling(reporting[p]) PROVE p # q
      BY <1>1, <3>1 DEF Reconciling
    <3>2. Entire(k) => Entire(k)'
      BY <1>4 DEF Entire, Indices
    <3> QED
      BY <1>1, <1>4, <1>8, <1>9, <3>1, <3>2 DEF InventoryInv, Complete
  <2>2. Reconciling(reporting'[q]) /\ reporting'[q].row = new
    BY <1>5, <1>8 DEF Reconciling
  <2> QED
    BY <1>2, <1>4, <2>1, <2>2 DEF Complete
<1>15. ASSUME NEW p \in Inventory!Proc PROVE Insight(reporting'[p], interfaces', raced')
  <2>1. CASE p # q
    <3>1. Knows(reporting[p], interfaces', raced')
      <4>1. Reconciling(reporting[p]) => reporting[p].row \in Interfaces
        BY InventoryReport DEF Reconciling, ReportRec
      <4>2. Knows(reporting[p], interfaces, raced)
        BY DEF InventoryInv, Insight
      <4> QED
        BY <1>4, <1>9, <4>1, <4>2 DEF Knows
    <3> QED
      BY <1>8, <2>1, <3>1 DEF Insight
  <2>2. CASE p = q
    <3>1. Knows(r, interfaces', raced')
      BY <1>4, <1>5, <1>6 DEF Knows, facts
    <3>2. Enlisted(r, interfaces')
      BY <1>1, <1>2, <1>4, <1>5, <1>6 DEF Insight, Enlisted, Reconciling
    <3>3. Progress(r, interfaces', raced')
      <4> SUFFICES ASSUME me.met = {} PROVE Progress(r, interfaces', raced')
        BY <1>5 DEF Progress
      <4>1. raced' = raced /\ (\A k \in Interfaces : interfaces[k].ref # d)
        BY <1>1, <1>10, <1>2 DEF Insight, Enlisted, Reconciling
      <4>2. Progress(me, interfaces, raced)
        BY <1>2 DEF Insight
      <4>3. ASSUME NEW k \in Interfaces, interfaces'[k].ref \notin raced'
            PROVE  IF interfaces'[k].ref \in DOMAIN r.report
                   THEN \/ interfaces'[k].ref \in r.todo /\ ~(Reconciling(r) /\ r.row = k)
                        \/ AsReported(interfaces'[k], r.report[interfaces'[k].ref])
                   ELSE interfaces'[k].absent \/ k \in r.gone
        BY <1>1, <1>4, <1>5, <4>1, <4>2, <4>3 DEF Progress, Reconciling
      <4>4. AsReported(interfaces'[new], r.report[interfaces'[new].ref])
        BY <1>4, <1>5, <1>6 DEF AsReported, facts
      <4>5. interfaces'[new].ref \in DOMAIN r.report
        BY <1>2, <1>4, <1>5, <1>6
      <4>6. \A e \in DOMAIN r.report \ r.todo : \E k \in 1..Len(interfaces') : interfaces'[k].ref = e
        BY <1>1, <1>4, <1>5, <4>2 DEF Progress
      <4>7. 1..Len(interfaces') = Interfaces \cup {new}
        BY <1>4
      <4> QED
        BY <4>3, <4>4, <4>5, <4>6, <4>7 DEF Progress
    <3> QED
      BY <1>8, <2>2, <3>1, <3>2, <3>3 DEF Insight
  <2> QED
    BY <2>1, <2>2
<1>16. InventoryWhole'
  BY <1>1, <1>8 DEF InventoryWhole
<1> QED
  BY <1>8, <1>11, <1>12, <1>13, <1>14, <1>15, <1>16 DEF InventoryInv

\* The facts of a device replace its row's; its channels come next.
LEMMA InventoryUpdateRow ==
  ASSUME InventoryInv, Inventory!NodeInventoryAssumption, NEW q \in Reporter,
         Inventory!UpdateRow(q)
  PROVE  InventoryInv'
<1> DEFINE me == reporting[q]
           d == Inventory!NextDevice(q)
           facts == me.report[d]
           at == me.existing[d]
           entry == [interfaces[at] EXCEPT !.count = facts.count, !.port = facts.port,
                                         !.absent = FALSE]
           fields == [pc |-> "channels", row |-> at]
           r == Inventory!Over(fields, me)
<1>1. /\ me.pc = "device" /\ me.todo # {} /\ d \in DOMAIN me.existing
      /\ interfaces' = [interfaces EXCEPT ![at].count = facts.count, ![at].port = facts.port,
                                          ![at].absent = FALSE]
      /\ reporting' = [reporting EXCEPT ![q] = r]
      /\ raced' = IF me.met \cap Reporter # {} THEN raced \cup {d} ELSE raced
      /\ given' = given /\ torn' = torn /\ shown' = shown /\ reports' = reports
  BY DEF Inventory!UpdateRow, Inventory!Goes, Inventory!RaceOn, Inventory!counters
<1>2. /\ q \in Inventory!Proc /\ Inventory!InFlight(q) /\ ReportRec(me, interfaces)
      /\ Insight(me, interfaces, raced) /\ d = Current(me) /\ d \in me.todo
      /\ Len(interfaces) \in Nat /\ interfaces \in Seq(InterfaceRec)
      /\ d \in DOMAIN me.report /\ at \in Interfaces /\ interfaces[at].ref = d
  <2>1. q \in Inventory!Proc /\ me.pc \in {"device", "channels", "missing"}
    BY <1>1
  <2>2. /\ Inventory!InFlight(q) /\ ReportRec(me, interfaces)
        /\ Insight(me, interfaces, raced)
    BY <2>1, InventoryReport
  <2>3. d = Current(me) /\ d \in me.todo
    BY <1>1 DEF Inventory!NextDevice, Current
  <2>4. Len(interfaces) \in Nat /\ interfaces \in Seq(InterfaceRec)
    BY DEF InventoryInv, InventoryTypes
  <2> HIDE DEF d
  <2>5. d \in DOMAIN me.report /\ at \in Interfaces /\ interfaces[at].ref = d
    BY <1>1, <2>2, <2>3 DEF ReportRec
  <2> QED
    BY <2>1, <2>2, <2>3, <2>4, <2>5
<1> HIDE DEF d, at
<1>3. /\ entry \in InterfaceRec /\ entry.ref = d /\ entry.channels = interfaces[at].channels
      /\ entry.count = facts.count /\ AsReported(entry, facts)
  <2>1. facts.count \in 1..MaxCount /\ facts.port \in Port
    BY <1>2 DEF ReportRec, Inventory!NodeInventoryAssumption
  <2>2. interfaces[at] \in InterfaceRec
    BY <1>2
  <2> HIDE DEF facts
  <2> QED
    BY <1>2, <2>1, <2>2 DEF InterfaceRec, Inventory!Index, AsReported
<1>4. interfaces' = [interfaces EXCEPT ![at] = entry]
  BY <1>1, <1>2
<1>5. /\ ReportFields \subseteq DOMAIN r /\ r.pc = "channels" /\ r.row = at
      /\ "row" \in DOMAIN r
      /\ r.report = me.report /\ r.number = me.number /\ r.met = me.met
      /\ r.existing = me.existing /\ r.todo = me.todo /\ r.gone = me.gone
      /\ Current(r) = d
  <2>1. DOMAIN fields = {"pc", "row"} /\ fields["pc"] = "channels" /\ fields["row"] = at
    OBVIOUS
  <2> HIDE DEF fields
  <2>2. DOMAIN fields \subseteq {"pc", "row", "have", "todo", "gone"}
        /\ "todo" \notin DOMAIN fields /\ "gone" \notin DOMAIN fields
    BY <2>1
  <2>3. /\ ReportFields \subseteq DOMAIN r
        /\ r.report = me.report /\ r.number = me.number
        /\ r.met = me.met /\ r.existing = me.existing
        /\ \A name \in DOMAIN fields : r[name] = fields[name]
        /\ r.todo = me.todo /\ r.gone = me.gone /\ DOMAIN fields \subseteq DOMAIN r
    BY <1>1, <1>2, <2>2, InventorySet
  <2> HIDE DEF r
  <2> QED
    BY <1>2, <2>1, <2>3 DEF Current
<1> HIDE DEF r, entry
<1>6. /\ interfaces' \in Seq(InterfaceRec) /\ Len(interfaces') = Len(interfaces)
      /\ interfaces'[at] = entry
      /\ \A k \in Interfaces : k # at => interfaces'[k] = interfaces[k]
      /\ \A k \in Interfaces : interfaces'[k].ref = interfaces[k].ref
  BY <1>2, <1>3, <1>4, RowWritten DEF InventoryInv
<1>7. Sound(q, r, interfaces')
  <2>1. ReportRec(r, interfaces')
    BY <1>2, <1>5, <1>6 DEF ReportRec
  <2> QED
    BY <1>5, <2>1 DEF Sound
<1>8. /\ InventoryTypes' /\ Encounters' /\ shown = NoReport
      /\ reporting'[q] = r
      /\ \A p \in Inventory!Proc \ {q} :
           /\ reporting'[p] = reporting[p]
           /\ Enlisted(reporting[p], interfaces')
           /\ Progress(reporting[p], interfaces', raced')
  <2>1. given' \in [Device -> [Inventory!Index -> Label \cup {Unlabelled}]]
    BY <1>1 DEF InventoryInv, InventoryTypes
  <2>2. shown' = NoReport
    BY <1>1, <1>2 DEF InventoryInv, Encounters
  <2>3. Len(interfaces) <= Len(interfaces')
    BY <1>2, <1>6
  <2> QED
    BY <1>1, <1>2, <1>5, <1>6, <1>7, <2>1, <2>2, <2>3, InventoryOthers
<1>9. raced \subseteq raced'
  BY <1>1
<1>10. Sole' /\ LabelsKept' /\ Blank' /\ Unique'
  BY <1>1, <1>3, <1>6, <1>9, InventoryChannels
\* A report that reconciles the device has met this one.
<1>11. ASSUME NEW p \in Inventory!Proc \ {q}, Reconciling(reporting[p]),
              Current(reporting[p]) = d
       PROVE  d \in raced'
  <2>1. p \in Reporter /\ Inventory!InFlight(p)
    BY <1>11, InventoryReport DEF Reconciling
  <2>2. p \in me.met
    BY <1>2, <2>1 DEF InventoryInv, Encounters
  <2> QED
    BY <1>1, <2>1, <2>2
<1>12. Apart'
  BY <1>5, <1>8, <1>9, <1>11 DEF InventoryInv, Apart
<1>13. Complete'
  <2>1. ASSUME NEW k \in Interfaces
        PROVE  \/ interfaces'[k].ref \in raced' \/ k \in torn' \/ Entire(k)'
               \/ \E p \in Inventory!Proc : Reconciling(reporting'[p]) /\ reporting'[p].row = k
    <3>1. ASSUME NEW p \in Inventory!Proc, Reconciling(reporting[p]) PROVE p # q
      BY <1>1, <3>1 DEF Reconciling
    <3>2. k # at => (Entire(k) => Entire(k)')
      BY <1>6 DEF Entire, Indices
    <3>3. Reconciling(reporting'[q]) /\ reporting'[q].row = at
      BY <1>5, <1>8 DEF Reconciling
    <3>4. CASE k = at
      BY <3>3, <3>4
    <3>5. CASE k # at
      <4>1. \/ interfaces[k].ref \in raced \/ k \in torn \/ Entire(k)
            \/ \E p \in Inventory!Proc : Reconciling(reporting[p]) /\ reporting[p].row = k
        BY DEF InventoryInv, Complete
      <4> QED
        BY <1>1, <1>6, <1>8, <1>9, <3>1, <3>2, <3>5, <4>1
    <3> QED
      BY <3>4, <3>5
  <2> QED
    BY <1>6, <2>1 DEF Complete
<1>14. ASSUME NEW p \in Inventory!Proc PROVE Insight(reporting'[p], interfaces', raced')
  <2>1. CASE p # q
    <3>1. Knows(reporting[p], interfaces', raced')
      <4> SUFFICES ASSUME Reconciling(reporting[p]), Current(reporting[p]) \notin raced'
                   PROVE  Knows(reporting[p], interfaces', raced')
        BY DEF Knows
      <4>1. /\ reporting[p].row \in Interfaces
            /\ interfaces[reporting[p].row].ref = Current(reporting[p])
        BY InventoryReport DEF Reconciling, ReportRec
      <4>2. reporting[p].row # at
        BY <1>2, <1>11, <2>1, <4>1
      <4>3. Knows(reporting[p], interfaces, raced)
        BY DEF InventoryInv, Insight
      <4> QED
        BY <1>6, <1>9, <4>1, <4>2, <4>3 DEF Knows
    <3> QED
      BY <1>8, <2>1, <3>1 DEF Insight
  <2>2. CASE p = q
    <3>1. Knows(r, interfaces', raced')
      BY <1>3, <1>5, <1>6 DEF Knows, facts
    <3>2. Enlisted(r, interfaces')
      <4>1. Enlisted(me, interfaces)
        BY <1>2 DEF Insight
      <4> SUFFICES ASSUME me.met \cap Reporter = {}, NEW e \in me.todo \ DOMAIN me.existing
                   PROVE  \A k \in Interfaces : interfaces'[k].ref # e
        BY <1>5, <1>6 DEF Enlisted
      <4>2. \A k \in Interfaces : interfaces[k].ref # e
        BY <1>1, <4>1 DEF Enlisted, Reconciling
      <4> QED
        BY <1>6, <4>2
    <3>3. Progress(r, interfaces', raced')
      <4> SUFFICES ASSUME me.met = {} PROVE Progress(r, interfaces', raced')
        BY <1>5 DEF Progress
      <4>1. raced' = raced
        BY <1>1
      <4>2. Progress(me, interfaces, raced)
        BY <1>2 DEF Insight
      <4>3. ASSUME NEW k \in Interfaces, interfaces'[k].ref \notin raced'
            PROVE  IF interfaces'[k].ref \in DOMAIN r.report
                   THEN \/ interfaces'[k].ref \in r.todo /\ ~(Reconciling(r) /\ r.row = k)
                        \/ AsReported(interfaces'[k], r.report[interfaces'[k].ref])
                   ELSE interfaces'[k].absent \/ k \in r.gone
        <5>1. CASE k = at
          BY <1>2, <1>3, <1>5, <1>6, <5>1 DEF facts
        <5>2. CASE k # at
          BY <1>1, <1>5, <1>6, <4>1, <4>2, <4>3, <5>2 DEF Progress, Reconciling
        <5> QED
          BY <5>1, <5>2
      <4>4. \A e \in DOMAIN r.report \ r.todo : \E k \in 1..Len(interfaces') : interfaces'[k].ref = e
        <5> TAKE e \in DOMAIN r.report \ r.todo
        <5>1. PICK k \in Interfaces : interfaces[k].ref = e
          BY <1>1, <1>5, <4>2 DEF Progress
        <5> QED
          BY <1>6, <5>1
      <4> QED
        BY <1>6, <4>3, <4>4 DEF Progress
    <3> QED
      BY <1>8, <2>2, <3>1, <3>2, <3>3 DEF Insight
  <2> QED
    BY <2>1, <2>2
<1>15. InventoryWhole'
  BY <1>1, <1>8 DEF InventoryWhole
<1> QED
  BY <1>8, <1>10, <1>12, <1>13, <1>14, <1>15 DEF InventoryInv

\* The channels of a row are written: the rest of the rows stays.
LEMMA InventoryChannelsSet ==
  ASSUME InventoryInv, NEW at \in Interfaces, NEW chans \in SUBSET ChannelRec,
         interfaces' = [interfaces EXCEPT ![at].channels = chans], raced' = raced
  PROVE  /\ interfaces' \in Seq(InterfaceRec) /\ Len(interfaces') = Len(interfaces)
         /\ Len(interfaces) \in Nat
         /\ interfaces'[at].channels = chans
         /\ \A k \in Interfaces : k # at => interfaces'[k] = interfaces[k]
         /\ \A k \in Interfaces :
              /\ interfaces'[k].ref = interfaces[k].ref
              /\ interfaces'[k].count = interfaces[k].count
              /\ interfaces'[k].port = interfaces[k].port
              /\ interfaces'[k].absent = interfaces[k].absent
         /\ Sole'
<1> DEFINE entry == [interfaces[at] EXCEPT !.channels = chans]
<1>1. interfaces \in Seq(InterfaceRec) /\ interfaces[at] \in InterfaceRec
  BY DEF InventoryInv, InventoryTypes
<1>2. interfaces' = [interfaces EXCEPT ![at] = entry]
  BY <1>1
<1>3. /\ entry \in InterfaceRec /\ entry.ref = interfaces[at].ref /\ entry.count = interfaces[at].count
      /\ entry.port = interfaces[at].port /\ entry.absent = interfaces[at].absent
      /\ entry.channels = chans
  BY <1>1 DEF InterfaceRec
<1> HIDE DEF entry
<1>4. /\ interfaces' \in Seq(InterfaceRec) /\ Len(interfaces') = Len(interfaces)
      /\ Len(interfaces) \in Nat
      /\ interfaces'[at] = entry
      /\ \A k \in Interfaces : k # at => interfaces'[k] = interfaces[k]
      /\ \A k \in Interfaces : interfaces'[k].ref = interfaces[k].ref
  BY <1>2, <1>3, RowWritten DEF InventoryInv
<1>5. Sole'
  BY <1>4 DEF InventoryInv, Sole
<1> QED
  BY <1>3, <1>4, <1>5

\* What a report that reconciles knows, and who else may be at its row.
LEMMA InventoryReconciled ==
  ASSUME InventoryInv, NEW q \in Inventory!Proc, Reconciling(reporting[q])
  PROVE  /\ Inventory!InFlight(q) /\ q \in Reporter /\ ReportRec(reporting[q], interfaces)
         /\ Insight(reporting[q], interfaces, raced)
         /\ reporting[q].row \in Interfaces
         /\ interfaces[reporting[q].row].ref = Current(reporting[q])
         /\ Current(reporting[q]) \in reporting[q].todo
         /\ Current(reporting[q]) \in DOMAIN reporting[q].report
         /\ \A p \in Inventory!Proc \ {q} :
              Reconciling(reporting[p]) /\ reporting[p].row = reporting[q].row
                => Current(reporting[q]) \in raced /\ Current(reporting[p]) = Current(reporting[q])
<1>1. /\ Inventory!InFlight(q) /\ q \in Reporter /\ ReportRec(reporting[q], interfaces)
      /\ Insight(reporting[q], interfaces, raced)
  BY InventoryReport DEF Reconciling
<1>2. /\ reporting[q].row \in Interfaces
      /\ interfaces[reporting[q].row].ref = Current(reporting[q])
      /\ reporting[q].todo # {} /\ reporting[q].todo \subseteq DOMAIN reporting[q].report
  BY <1>1 DEF ReportRec
<1>3. Current(reporting[q]) \in reporting[q].todo
  BY <1>2 DEF Current
<1>4. ASSUME NEW p \in Inventory!Proc \ {q}, Reconciling(reporting[p]),
             reporting[p].row = reporting[q].row
      PROVE  Current(reporting[q]) \in raced /\ Current(reporting[p]) = Current(reporting[q])
  <2>1. interfaces[reporting[p].row].ref = Current(reporting[p])
    BY <1>4, InventoryReport DEF Reconciling, ReportRec
  <2> QED
    BY <1>2, <1>4, <2>1 DEF InventoryInv, Apart
<1> QED
  BY <1>1, <1>2, <1>3, <1>4

\* Only the report that reconciles a device on its own writes its channels: what
\* the others know of theirs stays.
LEMMA InventoryOthersKnow ==
  ASSUME InventoryInv, NEW q \in Inventory!Proc, Reconciling(reporting[q]),
         Len(interfaces') = Len(interfaces), raced' = raced,
         \A k \in Interfaces : k # reporting[q].row => interfaces'[k] = interfaces[k],
         NEW p \in Inventory!Proc \ {q}
  PROVE  Knows(reporting[p], interfaces', raced')
<1> SUFFICES ASSUME Reconciling(reporting[p]), Current(reporting[p]) \notin raced'
             PROVE  Knows(reporting[p], interfaces', raced')
  BY DEF Knows
<1>1. reporting[p].row \in Interfaces /\ Knows(reporting[p], interfaces, raced)
  BY InventoryReconciled DEF Insight
<1>2. reporting[p].row # reporting[q].row
  BY InventoryReconciled
<1> QED
  BY <1>1, <1>2 DEF Knows

\* The channels that the device lost are deleted with their labels.
LEMMA InventoryDropChannels ==
  ASSUME InventoryInv, Inventory!NodeInventoryAssumption, NEW q \in Reporter,
         Inventory!DropChannels(q)
  PROVE  InventoryInv'
<1> DEFINE me == reporting[q]
           d == Current(me)
           at == me.row
           old == interfaces[at].channels
           limit == me.report[d].count
           extra == {c \in old : c.index > limit}
           gaps == [i \in Inventory!Index |->
                      IF \E c \in extra : c.index = i THEN Unlabelled ELSE given[d][i]]
           fields == [pc |-> "missing", have |-> {c.index : c \in old}]
           r == Inventory!Over(fields, me)
<1>1. me.pc = "channels" /\ Reconciling(me) /\ q \in Inventory!Proc
  BY DEF Inventory!DropChannels, Reconciling
<1>2. /\ Inventory!InFlight(q) /\ q \in Reporter /\ ReportRec(me, interfaces)
      /\ Insight(me, interfaces, raced)
      /\ at \in Interfaces /\ interfaces[at].ref = d /\ d \in me.todo /\ d \in DOMAIN me.report
  BY <1>1, InventoryReconciled
<1>3. /\ interfaces' = [interfaces EXCEPT ![at].channels = old \ extra]
      /\ given' = [given EXCEPT ![d] = gaps]
      /\ reporting' = [reporting EXCEPT ![q] = r]
      /\ raced' = raced /\ torn' = torn /\ shown' = shown /\ reports' = reports
  <2>1. /\ given' = [given EXCEPT ![interfaces[at].ref] =
                       [i \in Inventory!Index |->
                          IF \E c \in extra : c.index = i THEN Unlabelled ELSE @[i]]]
        /\ interfaces' = [interfaces EXCEPT ![at].channels = old \ extra]
        /\ reporting' = [reporting EXCEPT ![q] = r]
        /\ raced' = raced /\ torn' = torn /\ shown' = shown /\ reports' = reports
    BY DEF Inventory!DropChannels, Inventory!Goes, Inventory!NextDevice, Inventory!counters,
       Current
  <2> HIDE DEF extra, d, at, r
  <2> QED
    BY <1>2, <2>1
<1>4. interfaces[at] \in InterfaceRec /\ d \in Device /\ old \in SUBSET ChannelRec
      /\ given \in [Device -> [Inventory!Index -> Label \cup {Unlabelled}]]
  <2>1. interfaces[at] \in InterfaceRec
    BY <1>2 DEF InventoryInv, InventoryTypes
  <2>2. given \in [Device -> [Inventory!Index -> Label \cup {Unlabelled}]]
    BY DEF InventoryInv, InventoryTypes
  <2> QED
    BY <1>2, <2>1, <2>2 DEF InterfaceRec
<1>5. /\ limit \in 1..MaxCount
      /\ \A c \in old : c.index \in Inventory!Index
  BY <1>2, <1>4 DEF ReportRec, Inventory!NodeInventoryAssumption, ChannelRec
<1>6. /\ ReportFields \subseteq DOMAIN r /\ r.pc = "missing" /\ r.row = at
      /\ {"row", "have"} \subseteq DOMAIN r /\ r.have = {c.index : c \in old}
      /\ r.report = me.report /\ r.number = me.number /\ r.met = me.met
      /\ r.existing = me.existing /\ r.todo = me.todo /\ r.gone = me.gone
      /\ Current(r) = d /\ Reconciling(r)
  <2> DEFINE have == {c.index : c \in old}
  <2>1. DOMAIN fields = {"pc", "have"} /\ fields["pc"] = "missing" /\ fields["have"] = have
    OBVIOUS
  <2> HIDE DEF fields, have
  <2>2. DOMAIN fields \subseteq {"pc", "row", "have", "todo", "gone"}
        /\ "todo" \notin DOMAIN fields /\ "gone" \notin DOMAIN fields
        /\ "row" \in DOMAIN me \ DOMAIN fields
    BY <1>1, <1>2, <2>1 DEF ReportRec
  <2>3. /\ ReportFields \subseteq DOMAIN r
        /\ r.report = me.report /\ r.number = me.number
        /\ r.met = me.met /\ r.existing = me.existing
        /\ \A name \in DOMAIN fields : r[name] = fields[name]
        /\ r.todo = me.todo /\ r.gone = me.gone
        /\ "row" \in DOMAIN r /\ r.row = me.row /\ DOMAIN fields \subseteq DOMAIN r
    BY <1>1, <2>2, InventorySet
  <2> HIDE DEF r
  <2>4. r.have = have /\ r.pc = "missing"
    BY <2>1, <2>3
  <2> QED
    BY <2>1, <2>3, <2>4 DEF Current, Reconciling, have
<1>7. /\ interfaces' \in Seq(InterfaceRec) /\ Len(interfaces') = Len(interfaces)
      /\ Len(interfaces) \in Nat
      /\ interfaces'[at].channels = old \ extra
      /\ \A k \in Interfaces : k # at => interfaces'[k] = interfaces[k]
      /\ \A k \in Interfaces :
           /\ interfaces'[k].ref = interfaces[k].ref
           /\ interfaces'[k].count = interfaces[k].count
           /\ interfaces'[k].port = interfaces[k].port
           /\ interfaces'[k].absent = interfaces[k].absent
      /\ Sole'
  <2>1. old \ extra \in SUBSET ChannelRec
    BY <1>4
  <2> QED
    BY <1>2, <1>3, <2>1, InventoryChannelsSet
<1>8. \A c \in extra : c \in old /\ c.index > limit
  OBVIOUS
<1>9. \A c \in old \ extra : c \in old /\ c.index <= limit
  BY <1>5 DEF Inventory!Index
<1>10. \A i \in Inventory!Index : gaps[i] = IF \E c \in extra : c.index = i THEN Unlabelled ELSE given[d][i]
  OBVIOUS
<1>11. gaps \in [Inventory!Index -> Label \cup {Unlabelled}]
  BY <1>4
<1> HIDE DEF d, at, old, limit, extra, gaps, r
<1>12. /\ given' \in [Device -> [Inventory!Index -> Label \cup {Unlabelled}]]
       /\ given'[d] = gaps /\ \A e \in Device \ {d} : given'[e] = given[e]
  BY <1>3, <1>4, <1>11
<1>13. /\ InventoryTypes' /\ Encounters' /\ shown = NoReport
       /\ reporting'[q] = r
       /\ \A p \in Inventory!Proc \ {q} :
            /\ reporting'[p] = reporting[p]
            /\ Enlisted(reporting[p], interfaces')
            /\ Progress(reporting[p], interfaces', raced')
  <2>1. Sound(q, r, interfaces')
    <3>1. ReportRec(r, interfaces')
      BY <1>1, <1>2, <1>6, <1>7 DEF ReportRec, d
    <3> QED
      BY <1>2, <1>6, <3>1 DEF Sound
  <2>2. shown' = NoReport
    BY <1>1, <1>2, <1>3 DEF InventoryInv, Encounters
  <2>3. /\ Len(interfaces) <= Len(interfaces')
        /\ \A k \in Interfaces : interfaces'[k].ref = interfaces[k].ref
    BY <1>7
  <2> QED
    BY <1>1, <1>2, <1>3, <1>6, <1>7, <1>12, <2>1, <2>2, <2>3, InventoryOthers
<1>14. Apart'
  BY <1>1, <1>3, <1>6, InventoryExclusive DEF d
<1>15. Unique'
  <2>1. ASSUME NEW k \in Interfaces, interfaces[k].ref \notin raced,
               NEW c \in interfaces'[k].channels, NEW e \in interfaces'[k].channels,
               c.index = e.index
        PROVE  c = e
    <3>1. c \in interfaces[k].channels /\ e \in interfaces[k].channels
      BY <1>7, <1>9, <2>1 DEF old
    <3> QED
      BY <2>1, <3>1 DEF InventoryInv, Unique
  <2> QED
    BY <1>3, <1>7, <2>1 DEF Unique
<1>16. LabelsKept'
  <2>1. ASSUME NEW k \in Interfaces, interfaces[k].ref \notin raced,
               NEW c \in interfaces'[k].channels
        PROVE  c.label = given'[interfaces[k].ref][c.index]
    <3>1. CASE k = at
      <4>1. c \in old /\ c.index <= limit
        BY <1>7, <1>9, <3>1
      <4>2. c.index \in Inventory!Index /\ ~\E s \in extra : s.index = c.index
        BY <1>5, <1>8, <4>1 DEF Inventory!Index
      <4>3. c.label = given[d][c.index]
        BY <1>2, <2>1, <3>1, <4>1 DEF InventoryInv, LabelsKept, old
      <4> QED
        BY <1>2, <1>10, <1>12, <3>1, <4>2, <4>3
    <3>2. CASE k # at
      <4>1. interfaces[k].ref # d
        BY <1>2, <2>1, <3>2 DEF InventoryInv, Sole
      <4>2. interfaces[k].ref \in Device
        <5>1. interfaces[k] \in InterfaceRec
          BY DEF InventoryInv, InventoryTypes
        <5> QED
          BY <5>1 DEF InterfaceRec
      <4> QED
        BY <1>7, <1>12, <2>1, <3>2, <4>1, <4>2 DEF InventoryInv, LabelsKept
    <3> QED
      BY <3>1, <3>2
  <2> QED
    BY <1>3, <1>7, <2>1 DEF LabelsKept
<1>17. Blank'
  <2>1. ASSUME NEW e \in Device \ raced, NEW i \in Inventory!Index, given'[e][i] # Unlabelled
        PROVE  \E k \in Interfaces :
                 interfaces'[k].ref = e /\ \E c \in interfaces'[k].channels : c.index = i
    <3>1. given[e][i] # Unlabelled /\ (e = d => ~\E s \in extra : s.index = i)
      BY <1>4, <1>10, <1>12, <2>1
    <3>2. PICK k \in Interfaces :
            interfaces[k].ref = e /\ \E c \in interfaces[k].channels : c.index = i
      BY <2>1, <3>1 DEF InventoryInv, Blank
    <3>3. \E c \in interfaces'[k].channels : c.index = i
      BY <1>2, <1>7, <3>1, <3>2 DEF old
    <3> QED
      BY <1>7, <3>2, <3>3
  <2> QED
    BY <1>3, <1>7, <2>1 DEF Blank
<1>18. Complete'
  <2>1. ASSUME NEW k \in Interfaces
        PROVE  \/ interfaces'[k].ref \in raced' \/ k \in torn' \/ Entire(k)'
               \/ \E p \in Inventory!Proc : Reconciling(reporting'[p]) /\ reporting'[p].row = k
    <3>1. CASE k = at
      BY <1>1, <1>6, <1>13, <3>1
    <3>2. CASE k # at
      <4>1. \/ interfaces[k].ref \in raced \/ k \in torn \/ Entire(k)
            \/ \E p \in Inventory!Proc : Reconciling(reporting[p]) /\ reporting[p].row = k
        BY DEF InventoryInv, Complete
      <4>2. Entire(k) => Entire(k)'
        BY <1>7, <3>2 DEF Entire, Indices
      <4> QED
        BY <1>3, <1>7, <1>13, <3>2, <4>1, <4>2 DEF at
    <3> QED
      BY <3>1, <3>2
  <2> QED
    BY <1>7, <2>1 DEF Complete
<1>19. ASSUME NEW p \in Inventory!Proc PROVE Insight(reporting'[p], interfaces', raced')
  <2>1. CASE p # q
    <3>1. Knows(reporting[p], interfaces', raced')
      BY <1>1, <1>3, <1>7, <2>1, InventoryOthersKnow DEF at
    <3> QED
      BY <1>13, <2>1, <3>1 DEF Insight
  <2>2. CASE p = q
    <3>1. Knows(r, interfaces', raced')
      <4> SUFFICES ASSUME d \notin raced PROVE Knows(r, interfaces', raced')
        BY <1>3, <1>6 DEF Knows
      <4>1. interfaces'[at].count = limit
        BY <1>1, <1>2, <1>7 DEF Insight, Knows, d, at, limit
      <4>2. \A c \in interfaces'[at].channels : c.index <= limit
        BY <1>7, <1>9
      <4>3. ASSUME NEW i \in 1..limit
            PROVE  i \in r.have <=> \E c \in interfaces'[at].channels : c.index = i
        <5>1. ASSUME NEW c \in old, c.index = i PROVE c \in old \ extra
          BY <1>5, <1>8, <5>1
        <5> QED
          BY <1>6, <1>7, <1>9, <5>1
      <4> QED
        BY <1>6, <4>1, <4>2, <4>3 DEF Knows, limit
    <3>2. Enlisted(r, interfaces')
      <4>1. Enlisted(me, interfaces)
        BY <1>2 DEF Insight
      <4> QED
        BY <1>1, <1>6, <1>7, <4>1 DEF Enlisted, d
    <3>3. Progress(r, interfaces', raced')
      <4> SUFFICES ASSUME me.met = {} PROVE Progress(r, interfaces', raced')
        BY <1>6 DEF Progress
      <4>1. Progress(me, interfaces, raced)
        BY <1>2 DEF Insight
      <4>2. \A k \in Interfaces : interfaces'[k].ref \notin raced' =>
              IF interfaces'[k].ref \in DOMAIN r.report
              THEN \/ interfaces'[k].ref \in r.todo /\ ~(Reconciling(r) /\ r.row = k)
                   \/ AsReported(interfaces'[k], r.report[interfaces'[k].ref])
              ELSE interfaces'[k].absent \/ k \in r.gone
        BY <1>1, <1>3, <1>6, <1>7, <4>1 DEF Progress, AsReported, Reconciling, at
      <4>3. \A e \in DOMAIN r.report \ r.todo : \E k \in Interfaces : interfaces'[k].ref = e
        <5> TAKE e \in DOMAIN r.report \ r.todo
        <5>1. PICK k \in Interfaces : interfaces[k].ref = e
          BY <1>1, <1>6, <4>1 DEF Progress
        <5> QED
          BY <1>7, <5>1
      <4> QED
        BY <1>7, <4>2, <4>3 DEF Progress
    <3> QED
      BY <1>13, <2>2, <3>1, <3>2, <3>3 DEF Insight
  <2> QED
    BY <2>1, <2>2
<1>20. InventoryWhole'
  BY <1>3, <1>13 DEF InventoryWhole
<1> QED
  BY <1>7, <1>13, <1>14, <1>15, <1>16, <1>17, <1>18, <1>19, <1>20 DEF InventoryInv

\* The missing channels are inserted without a label: none was given to them.
LEMMA InventoryInsertChannels ==
  ASSUME InventoryInv, Inventory!NodeInventoryAssumption, NEW q \in Reporter,
         Inventory!InsertChannels(q)
  PROVE  InventoryInv'
<1> DEFINE me == reporting[q]
           d == Current(me)
           at == me.row
           old == interfaces[at].channels
           limit == me.report[d].count
           missing == 1..limit \ me.have
           fresh == [index : missing, label : {Unlabelled}, by : {me.number}]
           fields == [pc |-> "device", todo |-> me.todo \ {d}]
           r == Inventory!Over(fields, me)
<1>1. me.pc = "missing" /\ Reconciling(me) /\ q \in Inventory!Proc
  BY DEF Inventory!InsertChannels, Reconciling
<1>2. /\ Inventory!InFlight(q) /\ q \in Reporter /\ ReportRec(me, interfaces)
      /\ Insight(me, interfaces, raced)
      /\ at \in Interfaces /\ interfaces[at].ref = d /\ d \in me.todo /\ d \in DOMAIN me.report
  BY <1>1, InventoryReconciled
<1>3. /\ interfaces' = [interfaces EXCEPT ![at].channels = old \cup fresh]
      /\ reporting' = [reporting EXCEPT ![q] = r]
      /\ torn' = torn \ {at}
      /\ given' = given /\ raced' = raced /\ shown' = shown /\ reports' = reports
  <2>1. /\ interfaces' = [interfaces EXCEPT ![at].channels = @ \cup fresh]
        /\ reporting' = [reporting EXCEPT ![q] = r]
        /\ torn' = torn \ {at}
        /\ given' = given /\ raced' = raced /\ shown' = shown /\ reports' = reports
    BY DEF Inventory!InsertChannels, Inventory!Goes, Inventory!NextDevice, Inventory!counters,
       Current
  <2> HIDE DEF fresh, d, at, r
  <2> QED
    BY <1>2, <2>1
<1>4. interfaces[at] \in InterfaceRec /\ d \in Device /\ old \in SUBSET ChannelRec
  <2>1. interfaces[at] \in InterfaceRec
    BY <1>2 DEF InventoryInv, InventoryTypes
  <2> QED
    BY <1>2, <2>1 DEF InterfaceRec
<1>5. limit \in 1..MaxCount /\ me.number \in Nat /\ MaxCount \in Nat
  BY <1>2 DEF ReportRec, Inventory!NodeInventoryAssumption
<1>6. fresh \in SUBSET ChannelRec
  <2>1. missing \subseteq Inventory!Index
    BY <1>5 DEF Inventory!Index
  <2> HIDE DEF missing
  <2> QED
    BY <1>5, <2>1 DEF ChannelRec
<1>7. /\ \A c \in fresh : c.index \in missing /\ c.label = Unlabelled
      /\ \A i \in missing : \E c \in fresh : c.index = i
      /\ \A c, e \in fresh : c.index = e.index => c = e
  <2> HIDE DEF missing
  <2>1. \A c \in fresh : /\ c.index \in missing
                         /\ c = [index |-> c.index, label |-> Unlabelled, by |-> me.number]
    OBVIOUS
  <2>2. \A i \in missing : [index |-> i, label |-> Unlabelled, by |-> me.number] \in fresh
    OBVIOUS
  <2>3. \A c \in fresh : c.index \in missing /\ c.label = Unlabelled
    OBVIOUS
  <2> HIDE DEF fresh
  <2>4. \A i \in missing : \E c \in fresh : c.index = i
    <3> TAKE i \in missing
    <3>1. [index |-> i, label |-> Unlabelled, by |-> me.number].index = i
      OBVIOUS
    <3> QED
      BY <2>2, <3>1
  <2>5. ASSUME NEW c \in fresh, NEW e \in fresh, c.index = e.index PROVE c = e
    <3>1. /\ c = [index |-> c.index, label |-> Unlabelled, by |-> me.number]
          /\ e = [index |-> e.index, label |-> Unlabelled, by |-> me.number]
      BY <2>1
    <3> QED
      BY <2>5, <3>1
  <2> QED
    BY <2>3, <2>4, <2>5
<1>8. /\ ReportFields \subseteq DOMAIN r /\ r.pc = "device" /\ r.todo = me.todo \ {d}
      /\ r.report = me.report /\ r.number = me.number /\ r.met = me.met
      /\ r.existing = me.existing /\ r.gone = me.gone /\ ~Reconciling(r)
  <2> DEFINE todo == me.todo \ {d}
  <2>1. DOMAIN fields = {"pc", "todo"} /\ fields["pc"] = "device" /\ fields["todo"] = todo
    OBVIOUS
  <2> HIDE DEF fields, todo
  <2>2. DOMAIN fields \subseteq {"pc", "row", "have", "todo", "gone"}
        /\ "gone" \notin DOMAIN fields
    BY <2>1
  <2>3. /\ ReportFields \subseteq DOMAIN r
        /\ r.report = me.report /\ r.number = me.number
        /\ r.met = me.met /\ r.existing = me.existing
        /\ \A name \in DOMAIN fields : r[name] = fields[name]
        /\ r.gone = me.gone
    BY <1>1, <2>2, InventorySet
  <2> HIDE DEF r
  <2>4. r.todo = todo /\ r.pc = "device"
    BY <2>1, <2>3
  <2> QED
    BY <2>3, <2>4 DEF Reconciling, todo
<1>9. /\ interfaces' \in Seq(InterfaceRec) /\ Len(interfaces') = Len(interfaces)
      /\ Len(interfaces) \in Nat
      /\ interfaces'[at].channels = old \cup fresh
      /\ \A k \in Interfaces : k # at => interfaces'[k] = interfaces[k]
      /\ \A k \in Interfaces :
           /\ interfaces'[k].ref = interfaces[k].ref
           /\ interfaces'[k].count = interfaces[k].count
           /\ interfaces'[k].port = interfaces[k].port
           /\ interfaces'[k].absent = interfaces[k].absent
      /\ Sole'
  <2>1. old \cup fresh \in SUBSET ChannelRec
    BY <1>4, <1>6
  <2> HIDE DEF fresh
  <2> QED
    BY <1>2, <1>3, <2>1, InventoryChannelsSet
\* Alone at its device, the report knows which channels there are.
<1>10. d \notin raced =>
         /\ interfaces[at].count = limit
         /\ \A c \in old : c.index \in 1..limit
         /\ \A i \in 1..limit : i \in me.have <=> \E c \in old : c.index = i
  <2> SUFFICES ASSUME d \notin raced
               PROVE  /\ interfaces[at].count = limit
                      /\ \A c \in old : c.index \in 1..limit
                      /\ \A i \in 1..limit : i \in me.have <=> \E c \in old : c.index = i
    OBVIOUS
  <2>1. /\ interfaces[at].count = limit
        /\ \A c \in old : c.index <= limit
        /\ \A i \in 1..limit : i \in me.have <=> \E c \in old : c.index = i
    BY <1>1, <1>2 DEF Insight, Knows
  <2>2. \A c \in old : c.index \in 1..MaxCount
    BY <1>4 DEF ChannelRec, Inventory!Index
  <2> HIDE DEF old, limit
  <2> QED
    BY <1>5, <2>1, <2>2
<1>11. \A i \in missing : i \in 1..limit /\ i \notin me.have
  OBVIOUS
<1>12. \A i \in 1..limit : i \notin me.have => i \in missing
  OBVIOUS
<1> HIDE DEF d, at, old, limit, missing, fresh, r
<1>13. /\ InventoryTypes' /\ Encounters' /\ shown = NoReport
       /\ reporting'[q] = r
       /\ \A p \in Inventory!Proc \ {q} :
            /\ reporting'[p] = reporting[p]
            /\ Enlisted(reporting[p], interfaces')
            /\ Progress(reporting[p], interfaces', raced')
  <2>1. Sound(q, r, interfaces')
    <3>1. ReportRec(r, interfaces')
      BY <1>1, <1>2, <1>8, <1>9 DEF ReportRec
    <3> QED
      BY <1>2, <1>8, <3>1 DEF Sound
  <2>2. shown' = NoReport
    BY <1>1, <1>2, <1>3 DEF InventoryInv, Encounters
  <2>3. /\ Len(interfaces) <= Len(interfaces')
        /\ \A k \in Interfaces : interfaces'[k].ref = interfaces[k].ref
    BY <1>9
  <2>4. given' \in [Device -> [Inventory!Index -> Label \cup {Unlabelled}]]
    BY <1>3 DEF InventoryInv, InventoryTypes
  <2> QED
    BY <1>1, <1>2, <1>3, <1>8, <1>9, <2>1, <2>2, <2>3, <2>4, InventoryOthers
<1>14. Apart'
  BY <1>1, <1>3, <1>8, InventoryExclusive
<1>15. Unique'
  <2>1. ASSUME NEW k \in Interfaces, interfaces[k].ref \notin raced,
               NEW c \in interfaces'[k].channels, NEW e \in interfaces'[k].channels,
               c.index = e.index
        PROVE  c = e
    <3>1. CASE k # at
      BY <1>9, <2>1, <3>1 DEF InventoryInv, Unique
    <3>2. CASE k = at
      <4>1. c \in old \cup fresh /\ e \in old \cup fresh /\ d \notin raced
        BY <1>2, <1>9, <2>1, <3>2
      <4>2. ~(c \in old /\ e \in fresh) /\ ~(c \in fresh /\ e \in old)
        BY <1>7, <1>10, <1>11, <2>1, <4>1
      <4>3. c \in old /\ e \in old => c = e
        BY <1>2, <2>1, <3>2 DEF InventoryInv, Unique, old
      <4> QED
        BY <1>7, <2>1, <4>1, <4>2, <4>3
    <3> QED
      BY <3>1, <3>2
  <2> QED
    BY <1>3, <1>9, <2>1 DEF Unique
<1>16. LabelsKept'
  <2>1. ASSUME NEW k \in Interfaces, interfaces[k].ref \notin raced,
               NEW c \in interfaces'[k].channels
        PROVE  c.label = given[interfaces[k].ref][c.index]
    <3>1. c \in interfaces[k].channels => c.label = given[interfaces[k].ref][c.index]
      BY <2>1 DEF InventoryInv, LabelsKept
    <3>2. CASE k = at /\ c \in fresh
      <4>1. c.index \in missing /\ c.label = Unlabelled /\ d \notin raced
        BY <1>2, <1>7, <2>1, <3>2
      <4>2. ~\E e \in old : e.index = c.index
        BY <1>10, <1>11, <4>1
      <4>3. \A l \in Interfaces : interfaces[l].ref = d => l = at
        BY <1>2, <4>1 DEF InventoryInv, Sole
      <4>4. c.index \in Inventory!Index
        BY <1>5, <1>11, <4>1 DEF Inventory!Index
      <4>5. given[d][c.index] = Unlabelled
        BY <1>4, <4>1, <4>2, <4>3, <4>4 DEF InventoryInv, Blank, old
      <4> QED
        BY <1>2, <3>2, <4>1, <4>5
    <3> QED
      BY <1>9, <2>1, <3>1, <3>2 DEF old
  <2> QED
    BY <1>3, <1>9, <2>1 DEF LabelsKept
<1>17. Blank'
  <2>1. \A k \in Interfaces : interfaces[k].channels \subseteq interfaces'[k].channels
    BY <1>9 DEF old
  <2>2. ASSUME NEW e \in Device \ raced, NEW i \in Inventory!Index, given[e][i] # Unlabelled
        PROVE  \E k \in Interfaces :
                 interfaces'[k].ref = e /\ \E c \in interfaces'[k].channels : c.index = i
    <3>1. PICK k \in Interfaces :
            interfaces[k].ref = e /\ \E c \in interfaces[k].channels : c.index = i
      BY <2>2 DEF InventoryInv, Blank
    <3> QED
      BY <1>9, <2>1, <3>1
  <2> QED
    BY <1>3, <1>9, <2>2 DEF Blank
<1>18. Complete'
  <2>1. ASSUME NEW k \in Interfaces
        PROVE  \/ interfaces'[k].ref \in raced' \/ k \in torn' \/ Entire(k)'
               \/ \E p \in Inventory!Proc : Reconciling(reporting'[p]) /\ reporting'[p].row = k
    <3>1. CASE k = at
      <4> SUFFICES ASSUME d \notin raced PROVE Entire(k)'
        BY <1>2, <1>3, <1>9, <3>1
      <4>1. interfaces'[at].count = limit
        BY <1>2, <1>9, <1>10
      <4>2. \A c \in old \cup fresh : c.index \in 1..limit
        BY <1>7, <1>10, <1>11
      <4>3. \A i \in 1..limit : \E c \in old \cup fresh : c.index = i
        BY <1>7, <1>10, <1>12
      <4> QED
        BY <1>9, <3>1, <4>1, <4>2, <4>3 DEF Entire, Indices
    <3>2. CASE k # at
      <4>1. \/ interfaces[k].ref \in raced \/ k \in torn \/ Entire(k)
            \/ \E p \in Inventory!Proc : Reconciling(reporting[p]) /\ reporting[p].row = k
        BY DEF InventoryInv, Complete
      <4>2. Entire(k) => Entire(k)'
        BY <1>9, <3>2 DEF Entire, Indices
      <4> QED
        BY <1>3, <1>9, <1>13, <3>2, <4>1, <4>2 DEF at
    <3> QED
      BY <3>1, <3>2
  <2> QED
    BY <1>9, <2>1 DEF Complete
<1>19. ASSUME NEW p \in Inventory!Proc PROVE Insight(reporting'[p], interfaces', raced')
  <2>1. CASE p # q
    <3>1. Knows(reporting[p], interfaces', raced')
      BY <1>1, <1>3, <1>9, <2>1, InventoryOthersKnow DEF at
    <3> QED
      BY <1>13, <2>1, <3>1 DEF Insight
  <2>2. CASE p = q
    <3>1. Knows(r, interfaces', raced')
      BY <1>8 DEF Knows
    <3>2. Enlisted(r, interfaces')
      <4>1. Enlisted(me, interfaces)
        BY <1>2 DEF Insight
      <4> QED
        BY <1>1, <1>8, <1>9, <4>1 DEF Enlisted, d
    <3>3. Progress(r, interfaces', raced')
      <4> SUFFICES ASSUME me.met = {} PROVE Progress(r, interfaces', raced')
        BY <1>8 DEF Progress
      <4>1. /\ \A k \in Interfaces : interfaces[k].ref \notin raced =>
                 IF interfaces[k].ref \in DOMAIN me.report
                 THEN \/ interfaces[k].ref \in me.todo /\ k # at
                      \/ AsReported(interfaces[k], me.report[interfaces[k].ref])
                 ELSE interfaces[k].absent \/ k \in me.gone
            /\ \A e \in DOMAIN me.report \ me.todo : \E k \in Interfaces : interfaces[k].ref = e
        BY <1>1, <1>2 DEF Insight, Progress, at
      <4>2. \A k \in Interfaces : interfaces'[k].ref \notin raced' =>
              IF interfaces'[k].ref \in DOMAIN r.report
              THEN \/ interfaces'[k].ref \in r.todo /\ ~(Reconciling(r) /\ r.row = k)
                   \/ AsReported(interfaces'[k], r.report[interfaces'[k].ref])
              ELSE interfaces'[k].absent \/ k \in r.gone
        <5> TAKE k \in Interfaces
        <5> SUFFICES ASSUME interfaces[k].ref \notin raced
                     PROVE  IF interfaces[k].ref \in DOMAIN me.report
                            THEN \/ interfaces[k].ref \in me.todo \ {d}
                                 \/ AsReported(interfaces[k], me.report[interfaces[k].ref])
                            ELSE interfaces[k].absent \/ k \in me.gone
          BY <1>3, <1>8, <1>9 DEF AsReported
        <5>1. interfaces[k].ref = d => k = at
          BY <1>2 DEF InventoryInv, Sole
        <5> QED
          BY <4>1, <5>1
      <4>3. \A e \in DOMAIN r.report \ r.todo : \E k \in Interfaces : interfaces'[k].ref = e
        <5> TAKE e \in DOMAIN r.report \ r.todo
        <5>1. PICK k \in Interfaces : interfaces[k].ref = e
          BY <1>2, <1>8, <4>1
        <5> QED
          BY <1>9, <5>1
      <4> QED
        BY <1>9, <4>2, <4>3 DEF Progress
    <3> QED
      BY <1>13, <2>2, <3>1, <3>2, <3>3 DEF Insight
  <2> QED
    BY <2>1, <2>2
<1>20. InventoryWhole'
  BY <1>3, <1>13 DEF InventoryWhole
<1> QED
  BY <1>9, <1>13, <1>14, <1>15, <1>16, <1>17, <1>18, <1>19, <1>20 DEF InventoryInv

\* Steps that leave the indices of all channels, and whoever reconciles them: the
\* rows stay whole, or torn.
LEMMA InventoryComplete ==
  ASSUME InventoryInv, Len(interfaces') = Len(interfaces),
         \A k \in Interfaces : /\ interfaces'[k].ref = interfaces[k].ref
                               /\ interfaces'[k].count = interfaces[k].count
                               /\ Indices(interfaces'[k]) = Indices(interfaces[k]),
         raced \subseteq raced', torn \subseteq torn',
         \A p \in Inventory!Proc : Reconciling(reporting[p]) =>
           \/ reporting[p].row \in torn'
           \/ Reconciling(reporting'[p]) /\ reporting'[p].row = reporting[p].row
  PROVE  Complete'
<1>1. ASSUME NEW k \in Interfaces
      PROVE  \/ interfaces'[k].ref \in raced' \/ k \in torn' \/ Entire(k)'
             \/ \E p \in Inventory!Proc : Reconciling(reporting'[p]) /\ reporting'[p].row = k
  <2>1. \/ interfaces[k].ref \in raced \/ k \in torn \/ Entire(k)
        \/ \E p \in Inventory!Proc : Reconciling(reporting[p]) /\ reporting[p].row = k
    BY DEF InventoryInv, Complete
  <2>2. Entire(k) => Entire(k)'
    BY DEF Entire
  <2> QED
    BY <2>1, <2>2
<1> QED
  BY <1>1 DEF Complete

\* The lowest of some numbers is one of them.
LEMMA InventoryLowest ==
  ASSUME NEW numbers, numbers \subseteq Nat, numbers # {}
  PROVE  Inventory!Lowest(numbers) \in numbers
<1>1. PICK m \in numbers : \A o \in numbers : <<o, m>> \notin OpToRel(<, Nat)
  BY NatLessThanWellFounded, WFMin, Zenon
<1>2. \A o \in numbers : o \in Nat /\ m \in Nat /\ ~(o < m)
  BY <1>1, Zenon DEF OpToRel
<1>3. \A o \in numbers : m <= o
  BY <1>2
<1> QED
  BY <1>3 DEF Inventory!Lowest

\* Channels that differ by their index are as many as their indices.
LEMMA ChannelsCounted ==
  ASSUME NEW chans, NEW n \in Nat, {c.index : c \in chans} = 1..n,
         \A c, e \in chans : c.index = e.index => c = e
  PROVE  Cardinality(chans) = n
<1> DEFINE at == [i \in 1..n |-> CHOOSE c \in chans : c.index = i]
<1>1. \A i \in 1..n : at[i] \in chans /\ at[i].index = i
  <2> TAKE i \in 1..n
  <2>1. \E c \in chans : c.index = i
    OBVIOUS
  <2> QED
    BY <2>1
<1>2. \A c \in chans : c.index \in 1..n /\ at[c.index] = c
  <2> TAKE c \in chans
  <2>1. c.index \in 1..n
    OBVIOUS
  <2> HIDE DEF at
  <2> QED
    BY <1>1, <2>1
<1>3. at \in Bijection(1..n, chans)
  <2>0. DOMAIN at = 1..n
    OBVIOUS
  <2>1. at \in [1..n -> chans]
    BY <1>1
  <2> HIDE DEF at
  <2>2. \A i, j \in 1..n : at[i] = at[j] => i = j
    BY <1>1
  <2>3. \A c \in chans : \E i \in 1..n : at[i] = c
    BY <1>2
  <2> QED
    BY <2>0, <2>1, <2>2, <2>3 DEF Bijection, Injection, Surjection, IsInjective
<1>4. IsFiniteSet(1..n) /\ Cardinality(1..n) = n
  BY FS_Interval
<1> QED
  BY <1>3, <1>4, FS_Bijection DEF ExistsBijection

\* A row whose device is not reported is flagged.
LEMMA InventoryMarkAbsent ==
  ASSUME InventoryInv, NEW q \in Reporter, Inventory!MarkAbsent(q)
  PROVE  InventoryInv'
<1> DEFINE me == reporting[q]
           at == Inventory!Lowest(me.gone)
           entry == [interfaces[at] EXCEPT !.absent = TRUE]
           fields == [gone |-> me.gone \ {at}]
           r == Inventory!Over(fields, me)
<1>1. /\ q \in Inventory!Proc /\ me.pc = "device" /\ me.todo = {} /\ me.gone # {}
      /\ interfaces' = [interfaces EXCEPT ![at].absent = TRUE]
      /\ reporting' = [reporting EXCEPT ![q] = r]
      /\ raced' = IF me.met \cap Reporter # {} THEN raced \cup {interfaces[at].ref} ELSE raced
      /\ given' = given /\ torn' = torn /\ shown' = shown /\ reports' = reports
  BY DEF Inventory!MarkAbsent, Inventory!Goes, Inventory!RaceOn, Inventory!counters
<1>2. /\ Inventory!InFlight(q) /\ ReportRec(me, interfaces)
      /\ Insight(me, interfaces, raced)
  BY <1>1, InventoryReport
<1>3. at \in me.gone /\ at \in Interfaces
  <2>1. me.gone \subseteq Interfaces
    BY <1>2 DEF ReportRec
  <2> QED
    BY <1>1, <2>1, InventoryLowest
<1>4. interfaces \in Seq(InterfaceRec) /\ interfaces[at] \in InterfaceRec
  BY <1>3 DEF InventoryInv, InventoryTypes
<1> HIDE DEF at
<1>5. /\ entry \in InterfaceRec /\ entry.ref = interfaces[at].ref /\ entry.absent = TRUE
      /\ entry.count = interfaces[at].count /\ entry.port = interfaces[at].port
      /\ entry.channels = interfaces[at].channels
  BY <1>4 DEF InterfaceRec
<1>6. interfaces' = [interfaces EXCEPT ![at] = entry]
  BY <1>1, <1>4
<1>7. /\ ReportFields \subseteq DOMAIN r /\ r.pc = "device" /\ r.todo = {}
      /\ r.report = me.report /\ r.number = me.number /\ r.met = me.met
      /\ r.existing = me.existing /\ r.gone = me.gone \ {at} /\ ~Reconciling(r)
  <2> DEFINE gone == me.gone \ {at}
  <2>1. DOMAIN fields = {"gone"} /\ fields["gone"] = gone
    OBVIOUS
  <2> HIDE DEF fields, gone
  <2>2. DOMAIN fields \subseteq {"pc", "row", "have", "todo", "gone"}
        /\ "pc" \notin DOMAIN fields /\ "todo" \notin DOMAIN fields
    BY <2>1
  <2>3. /\ ReportFields \subseteq DOMAIN r
        /\ r.report = me.report /\ r.number = me.number
        /\ r.met = me.met /\ r.existing = me.existing
        /\ \A name \in DOMAIN fields : r[name] = fields[name]
        /\ r.pc = me.pc /\ r.todo = me.todo
    BY <1>1, <2>2, InventorySet
  <2> HIDE DEF r
  <2>4. r.gone = gone
    BY <2>1, <2>3
  <2> QED
    BY <1>1, <2>3, <2>4 DEF Reconciling, gone
<1> HIDE DEF r, entry
<1>8. /\ interfaces' \in Seq(InterfaceRec) /\ Len(interfaces') = Len(interfaces)
      /\ Len(interfaces) \in Nat
      /\ interfaces'[at] = entry
      /\ \A k \in Interfaces : k # at => interfaces'[k] = interfaces[k]
      /\ \A k \in Interfaces : interfaces'[k].ref = interfaces[k].ref
  BY <1>3, <1>5, <1>6, RowWritten DEF InventoryInv
<1>9. /\ \A k \in Interfaces : /\ interfaces'[k].ref = interfaces[k].ref
                               /\ interfaces'[k].count = interfaces[k].count
                               /\ interfaces'[k].port = interfaces[k].port
                               /\ interfaces'[k].channels = interfaces[k].channels
                               /\ Indices(interfaces'[k]) = Indices(interfaces[k])
      /\ raced \subseteq raced'
  BY <1>1, <1>5, <1>8 DEF Indices
<1>10. Sound(q, r, interfaces')
  <2>1. ReportRec(r, interfaces')
    BY <1>1, <1>2, <1>7, <1>8 DEF ReportRec
  <2> QED
    BY <1>7, <2>1 DEF Sound
<1>11. /\ InventoryTypes' /\ Encounters' /\ shown = NoReport
       /\ reporting'[q] = r
       /\ \A p \in Inventory!Proc \ {q} :
            /\ reporting'[p] = reporting[p]
            /\ Enlisted(reporting[p], interfaces')
            /\ Progress(reporting[p], interfaces', raced')
  <2>1. given' \in [Device -> [Inventory!Index -> Label \cup {Unlabelled}]]
    BY <1>1 DEF InventoryInv, InventoryTypes
  <2>2. shown' = NoReport
    BY <1>1, <1>2 DEF InventoryInv, Encounters
  <2>3. Len(interfaces) <= Len(interfaces')
    BY <1>8
  <2> QED
    BY <1>1, <1>2, <1>7, <1>8, <1>10, <2>1, <2>2, <2>3, InventoryOthers
<1>12. Sole' /\ LabelsKept' /\ Blank' /\ Unique'
  BY <1>1, <1>8, <1>9, InventoryChannels
<1>13. Apart'
  BY <1>1, <1>7, <1>9, InventoryExclusive
<1>14. Complete'
  <2>1. \A p \in Inventory!Proc : Reconciling(reporting[p]) =>
          Reconciling(reporting'[p]) /\ reporting'[p].row = reporting[p].row
    BY <1>1, <1>11 DEF Reconciling
  <2> QED
    BY <1>1, <1>8, <1>9, <2>1, InventoryComplete
<1>15. ASSUME NEW p \in Inventory!Proc PROVE Insight(reporting'[p], interfaces', raced')
  <2>1. CASE p # q
    <3>1. Knows(reporting[p], interfaces', raced')
      BY <1>8, <1>9, InventoryKnows
    <3> QED
      BY <1>11, <2>1, <3>1 DEF Insight
  <2>2. CASE p = q
    <3>1. Knows(r, interfaces', raced')
      BY <1>7 DEF Knows
    <3>2. Enlisted(r, interfaces')
      BY <1>7 DEF Enlisted
    <3>3. Progress(r, interfaces', raced')
      <4> SUFFICES ASSUME me.met = {} PROVE Progress(r, interfaces', raced')
        BY <1>7 DEF Progress
      <4>1. raced' = raced
        BY <1>1
      <4>2. Progress(me, interfaces, raced)
        BY <1>2 DEF Insight
      <4>3. ASSUME NEW k \in Interfaces, interfaces'[k].ref \notin raced'
            PROVE  IF interfaces'[k].ref \in DOMAIN r.report
                   THEN \/ interfaces'[k].ref \in r.todo /\ ~(Reconciling(r) /\ r.row = k)
                        \/ AsReported(interfaces'[k], r.report[interfaces'[k].ref])
                   ELSE interfaces'[k].absent \/ k \in r.gone
        <5>1. CASE k = at
          <6>1. interfaces'[k].ref \notin DOMAIN r.report
            BY <1>2, <1>3, <1>7, <1>9, <5>1 DEF ReportRec
          <6> QED
            BY <1>5, <1>8, <5>1, <6>1
        <5>2. CASE k # at
          BY <1>1, <1>7, <1>8, <4>1, <4>2, <4>3, <5>2 DEF Progress, Reconciling
        <5> QED
          BY <5>1, <5>2
      <4>4. \A e \in DOMAIN r.report \ r.todo : \E k \in 1..Len(interfaces') : interfaces'[k].ref = e
        <5> TAKE e \in DOMAIN r.report \ r.todo
        <5>1. PICK k \in Interfaces : interfaces[k].ref = e
          BY <1>1, <1>7, <4>2 DEF Progress
        <5> QED
          BY <1>8, <5>1
      <4> QED
        BY <1>8, <4>3, <4>4 DEF Progress
    <3> QED
      BY <1>11, <2>2, <3>1, <3>2, <3>3 DEF Insight
  <2> QED
    BY <2>1, <2>2
<1>16. InventoryWhole'
  BY <1>1, <1>11 DEF InventoryWhole
<1> QED
  BY <1>11, <1>12, <1>13, <1>14, <1>15, <1>16 DEF InventoryInv

\* The report that ends without having met anybody leaves the inventory whole.
LEMMA InventoryEndReport ==
  ASSUME InventoryInv, NEW q \in Reporter, Inventory!EndReport(q)
  PROVE  InventoryInv'
<1> DEFINE me == reporting[q]
<1>1. /\ q \in Inventory!Proc /\ me.pc = "device" /\ me.todo = {} /\ me.gone = {}
      /\ reporting' = [reporting EXCEPT ![q] = Inventory!Idle]
      /\ shown' = IF me.met = {} THEN me.report ELSE NoReport
      /\ interfaces' = interfaces /\ raced' = raced
      /\ given' = given /\ torn' = torn /\ reports' = reports
      /\ Inventory!Idle.pc = "idle" /\ ~Reconciling(Inventory!Idle) /\ ~Reconciling(me)
  BY DEF Inventory!EndReport, Inventory!Ends, Inventory!counters, Inventory!Idle, Reconciling
<1>2. /\ Inventory!InFlight(q) /\ ReportRec(me, interfaces)
      /\ Insight(me, interfaces, raced)
  BY <1>1, InventoryReport
<1>3. interfaces' \in Seq(InterfaceRec) /\ Len(interfaces') = Len(interfaces)
      /\ Len(interfaces) \in Nat
      /\ given' \in [Device -> [Inventory!Index -> Label \cup {Unlabelled}]]
  BY <1>1 DEF InventoryInv, InventoryTypes
<1>4. /\ InventoryTypes' /\ Encounters' /\ shown = NoReport
      /\ reporting'[q] = Inventory!Idle
      /\ \A p \in Inventory!Proc \ {q} :
           /\ reporting'[p] = reporting[p]
           /\ Enlisted(reporting[p], interfaces')
           /\ Progress(reporting[p], interfaces', raced')
  <2>1. /\ Len(interfaces) <= Len(interfaces')
        /\ \A k \in Interfaces : interfaces'[k].ref = interfaces[k].ref
    BY <1>1, <1>3
  <2>2. shown' # NoReport => Inventory!Idle.pc = "idle" /\ reporting[q].met = {}
    BY <1>1
  <2> QED
    BY <1>1, <1>2, <1>3, <2>1, <2>2, InventoryOthers
<1>5. Sole' /\ LabelsKept' /\ Blank' /\ Unique'
  BY <1>1, InventoryChannels
<1>6. Apart'
  BY <1>1, InventoryExclusive
<1>7. Complete'
  <2>1. \A p \in Inventory!Proc : Reconciling(reporting[p]) =>
          Reconciling(reporting'[p]) /\ reporting'[p].row = reporting[p].row
    BY <1>1, <1>4
  <2> QED
    BY <1>1, <2>1, InventoryComplete
<1>8. ASSUME NEW p \in Inventory!Proc PROVE Insight(reporting'[p], interfaces', raced')
  <2>1. CASE p # q
    <3>1. Knows(reporting[p], interfaces', raced')
      BY <1>1, InventoryKnows
    <3> QED
      BY <1>4, <2>1, <3>1 DEF Insight
  <2>2. CASE p = q
    BY <1>1, <1>4, <2>2 DEF Insight, Knows, Enlisted, Progress
  <2> QED
    BY <2>1, <2>2
<1>9. InventoryWhole'
  <2> SUFFICES ASSUME me.met = {}, shown' = me.report PROVE InventoryWhole'
    BY <1>1 DEF InventoryWhole
  <2>1. \A p \in Inventory!Proc : ~Reconciling(reporting[p])
    <3> SUFFICES ASSUME NEW p \in Inventory!Proc, Reconciling(reporting[p]) PROVE FALSE
      OBVIOUS
    <3>1. p # q /\ Inventory!InFlight(p)
      BY <1>1 DEF Inventory!InFlight, Reconciling
    <3> QED
      BY <1>1, <1>2, <3>1 DEF InventoryInv, Encounters
  <2>2. /\ \A k \in Interfaces : interfaces[k].ref \notin raced =>
             IF interfaces[k].ref \in DOMAIN me.report
             THEN AsReported(interfaces[k], me.report[interfaces[k].ref])
             ELSE interfaces[k].absent
        /\ \A e \in DOMAIN me.report : \E k \in Interfaces : interfaces[k].ref = e
    BY <1>1, <1>2 DEF Insight, Progress
  <2>3. ASSUME NEW d \in Device \ raced, d \in DOMAIN me.report
        PROVE  LET mine == {k \in Interfaces : interfaces[k].ref = d} IN
               \E k \in mine :
                 /\ mine = {k} /\ ~interfaces[k].absent
                 /\ interfaces[k].count = me.report[d].count
                 /\ interfaces[k].port = me.report[d].port
                 /\ k \notin torn =>
                      /\ {c.index : c \in interfaces[k].channels} = 1..me.report[d].count
                      /\ Cardinality(interfaces[k].channels) = me.report[d].count
    <3>1. PICK k \in Interfaces : interfaces[k].ref = d
      BY <2>2, <2>3
    <3>2. {l \in Interfaces : interfaces[l].ref = d} = {k}
      BY <2>3, <3>1 DEF InventoryInv, Sole
    <3>3. AsReported(interfaces[k], me.report[d])
      BY <2>2, <2>3, <3>1
    <3>4. ASSUME k \notin torn
          PROVE  /\ {c.index : c \in interfaces[k].channels} = 1..interfaces[k].count
                 /\ Cardinality(interfaces[k].channels) = interfaces[k].count
      <4>1. {c.index : c \in interfaces[k].channels} = 1..interfaces[k].count
        BY <2>1, <2>3, <3>1, <3>4 DEF InventoryInv, Complete, Entire, Indices
      <4>2. \A c, e \in interfaces[k].channels : c.index = e.index => c = e
        BY <2>3, <3>1 DEF InventoryInv, Unique
      <4>3. interfaces[k] \in InterfaceRec
        BY DEF InventoryInv, InventoryTypes
      <4>4. interfaces[k].count \in Nat
        BY <4>3 DEF InterfaceRec, Inventory!Index
      <4> QED
        BY <4>1, <4>2, <4>4, ChannelsCounted
    <3> QED
      BY <3>1, <3>2, <3>3, <3>4 DEF AsReported
  <2> QED
    BY <1>1, <2>2, <2>3 DEF InventoryWhole
<1> QED
  BY <1>4, <1>5, <1>6, <1>7, <1>8, <1>9 DEF InventoryInv

\* A request starts: those in flight have met it, and it them.
LEMMA InventoryStarts ==
  ASSUME InventoryInv, NEW q \in Inventory!Proc, NEW fields, NEW r,
         Inventory!Starts(q, fields),
         r = Inventory!Over(fields, [met |-> {o \in Inventory!Proc : Inventory!InFlight(o)}]),
         Sound(q, r, interfaces), ~Reconciling(r),
         Enlisted(r, interfaces), Progress(r, interfaces, raced), reports' \in Nat,
         UNCHANGED <<interfaces, given, torn, raced>>,
         "met" \notin DOMAIN fields
  PROVE  InventoryInv'
<1>1. /\ ~Inventory!InFlight(q) /\ shown' = NoReport
      /\ reporting' = [p \in Inventory!Proc |->
                         IF p = q THEN r
                         ELSE IF Inventory!InFlight(p)
                              THEN [reporting[p] EXCEPT !.met = @ \cup {q}]
                              ELSE Inventory!Idle]
      /\ interfaces' = interfaces /\ given' = given /\ torn' = torn /\ raced' = raced
  BY DEF Inventory!Starts
<1>2. r.met = {o \in Inventory!Proc : Inventory!InFlight(o)} /\ r.pc # "idle"
  BY DEF Inventory!Over, Sound
<1>3. reporting'[q] = r
  BY <1>1
<1>4. ASSUME NEW p \in Inventory!Proc \ {q}, Inventory!InFlight(p)
      PROVE  /\ reporting'[p].met = reporting[p].met \cup {q}
             /\ reporting'[p].pc = reporting[p].pc
             /\ Reconciling(reporting'[p]) <=> Reconciling(reporting[p])
             /\ Reconciling(reporting[p]) =>
                  /\ reporting'[p].row = reporting[p].row
                  /\ Current(reporting'[p]) = Current(reporting[p])
             /\ Sound(p, reporting'[p], interfaces)
             /\ Insight(reporting'[p], interfaces, raced)
  <2> DEFINE mine == reporting[p]
             more == [mine EXCEPT !.met = @ \cup {q}]
  <2>1. reporting'[p] = more
    BY <1>1, <1>4
  <2>2. Sound(p, mine, interfaces) /\ Insight(mine, interfaces, raced)
    BY <1>4 DEF InventoryInv, InventoryTypes
  <2>3. {"pc", "met", "todo"} \subseteq DOMAIN mine
    BY <2>2 DEF Sound, ReportRec, EditRec, ReportFields, EditFields
  <2>4. /\ DOMAIN more = DOMAIN mine /\ more.met = mine.met \cup {q}
        /\ \A name \in DOMAIN mine \ {"met"} : more[name] = mine[name]
    BY <2>3
  <2> HIDE DEF mine, more
  <2>5. more.pc = mine.pc /\ more.todo = mine.todo /\ Current(more) = Current(mine)
        /\ (Reconciling(more) <=> Reconciling(mine))
    BY <2>3, <2>4 DEF Current, Reconciling
  <2>6. CASE mine.pc \in {"device", "channels", "missing"}
    <3>1. ReportRec(mine, interfaces) /\ p \in Reporter
      BY <2>2, <2>6 DEF Sound
    <3>2. /\ more.report = mine.report /\ more.number = mine.number
          /\ more.existing = mine.existing /\ more.gone = mine.gone
          /\ Reconciling(mine) => more.row = mine.row
          /\ mine.pc = "missing" => more.have = mine.have
      BY <2>4, <3>1 DEF ReportRec, ReportFields, Reconciling
    <3>3. ReportRec(more, interfaces)
      BY <2>4, <2>5, <3>1, <3>2 DEF ReportRec
    <3>4. Knows(more, interfaces, raced)
      BY <2>2, <2>5, <3>2 DEF Insight, Knows, Reconciling
    <3>5. Enlisted(more, interfaces)
      BY <2>2, <2>4, <2>5, <3>2 DEF Insight, Enlisted
    <3>6. Progress(more, interfaces, raced)
      BY <2>4 DEF Progress
    <3> QED
      BY <2>1, <2>4, <2>5, <2>6, <3>1, <3>2, <3>3, <3>4, <3>5, <3>6 DEF Sound, Insight, mine
  <2>7. CASE mine.pc \in {"write", "label"}
    <3>1. EditRec(mine, interfaces)
      BY <2>2, <2>7 DEF Sound
    <3>2. /\ more.row = mine.row /\ more.label = mine.label
          /\ mine.pc = "write" => more.port = mine.port
      BY <2>4, <2>7, <3>1 DEF EditRec, EditFields
    <3>3. EditRec(more, interfaces)
      BY <2>4, <2>5, <3>1, <3>2 DEF EditRec
    <3>4. ~Reconciling(more) /\ ~Reconciling(mine)
      BY <2>5, <2>7 DEF Reconciling
    <3>5. Insight(more, interfaces, raced)
      BY <2>5, <2>7, <3>4 DEF Insight, Knows, Enlisted, Progress
    <3> QED
      BY <2>1, <2>4, <2>5, <2>7, <3>3, <3>4, <3>5 DEF Sound, mine
  <2> QED
    BY <2>2, <2>6, <2>7 DEF Sound
<1>5. ASSUME NEW p \in Inventory!Proc \ {q}, ~Inventory!InFlight(p)
      PROVE  /\ reporting'[p].pc = "idle" /\ ~Reconciling(reporting'[p])
             /\ Insight(reporting'[p], interfaces, raced) /\ ~Reconciling(reporting[p])
  <2>1. reporting'[p] = Inventory!Idle
    BY <1>1, <1>5
  <2> QED
    BY <1>5, <2>1 DEF Inventory!Idle, Inventory!InFlight, Insight, Knows, Enlisted, Progress,
       Reconciling
<1>6. InventoryTypes'
  <2>1. DOMAIN reporting' = Inventory!Proc
    BY <1>1
  <2> QED
    BY <1>1, <1>3, <1>4, <1>5, <2>1 DEF InventoryInv, InventoryTypes, Inventory!InFlight
<1>7. Encounters'
  <2>1. ASSUME NEW p \in Inventory!Proc, NEW o \in Inventory!Proc, p # o,
               reporting'[p].pc # "idle", reporting'[o].pc # "idle"
        PROVE  p \in reporting'[o].met
    <3>1. (p # q => Inventory!InFlight(p)) /\ (o # q => Inventory!InFlight(o))
      BY <1>5, <2>1
    <3> QED
      BY <1>2, <1>3, <1>4, <2>1, <3>1 DEF InventoryInv, Encounters
  <2> QED
    BY <1>1, <2>1 DEF Encounters, Inventory!InFlight
<1>8. Sole' /\ LabelsKept' /\ Blank' /\ Unique'
  BY <1>1, InventoryChannels
<1>9. Apart'
  <2>1. \A p \in Inventory!Proc : Reconciling(reporting'[p]) =>
          /\ p # q /\ Reconciling(reporting[p])
          /\ Current(reporting'[p]) = Current(reporting[p])
    BY <1>3, <1>4, <1>5
  <2> QED
    BY <1>1, <2>1 DEF InventoryInv, Apart
<1>10. Complete'
  <2>1. ASSUME NEW p \in Inventory!Proc, Reconciling(reporting[p])
        PROVE  Reconciling(reporting'[p]) /\ reporting'[p].row = reporting[p].row
    <3>1. p # q
      BY <1>1, <2>1 DEF Inventory!InFlight, Reconciling
    <3> QED
      BY <1>4, <1>5, <2>1, <3>1
  <2> QED
    BY <1>1, <2>1, InventoryComplete
<1>11. ASSUME NEW p \in Inventory!Proc PROVE Insight(reporting'[p], interfaces', raced')
  <2>1. CASE p = q
    BY <1>1, <1>3, <2>1 DEF Insight, Knows
  <2>2. CASE p # q
    BY <1>1, <1>4, <1>5, <2>2
  <2> QED
    BY <2>1, <2>2
<1>12. InventoryWhole'
  BY <1>1 DEF InventoryWhole
<1> QED
  BY <1>6, <1>7, <1>8, <1>9, <1>10, <1>11, <1>12 DEF InventoryInv

\* A report starts: what the shortcut leaves out agrees with the report.
LEMMA InventoryBeginReport ==
  ASSUME InventoryInv, NEW q \in Reporter, Inventory!BeginReport(q)
  PROVE  InventoryInv'
<1>1. /\ q \in Inventory!Proc /\ reports' = reports + 1
      /\ interfaces' = interfaces /\ given' = given /\ torn' = torn /\ raced' = raced
  BY DEF Inventory!BeginReport
<1> DEFINE of(d) == {k \in Interfaces : interfaces[k].ref = d}
           known(report) == {d \in DOMAIN report : of(d) # {}}
           todo(report, existing) ==
             {d \in DOMAIN report :
                d \in known(report) => Inventory!Changed(interfaces[existing[d]], report[d])}
           gone(report) == {k \in Interfaces : /\ ~interfaces[k].absent
                                               /\ \A d \in DOMAIN report : k \notin of(d)}
           fields(report, existing) ==
             [pc |-> "device", report |-> report, number |-> reports + 1,
              existing |-> existing, todo |-> todo(report, existing), gone |-> gone(report)]
<1>2. PICK report \in Layouts : \E existing \in [known(report) -> Interfaces] :
        /\ \A d \in known(report) : existing[d] \in of(d)
        /\ Inventory!Starts(q, fields(report, existing))
  BY DEF Inventory!BeginReport, Inventory!Matches
<1>3. PICK existing \in [known(report) -> Interfaces] :
        /\ \A d \in known(report) : existing[d] \in of(d)
        /\ Inventory!Starts(q, fields(report, existing))
  BY <1>2
<1> DEFINE f == fields(report, existing)
           others == {o \in Inventory!Proc : Inventory!InFlight(o)}
           r == Inventory!Over(f, [met |-> others])
<1>4. /\ f.pc = "device" /\ f.report = report /\ f.number = reports + 1
      /\ f.existing = existing /\ f.todo = todo(report, existing) /\ f.gone = gone(report)
      /\ DOMAIN f = {"pc", "report", "number", "existing", "todo", "gone"}
  OBVIOUS
<1>5. Inventory!Starts(q, f)
  BY <1>3
<1> HIDE DEF f, others
<1>6. /\ ReportFields \subseteq DOMAIN r
      /\ r.pc = "device" /\ r.report = report /\ r.number = reports + 1
      /\ r.existing = existing /\ r.todo = todo(report, existing) /\ r.gone = gone(report)
  BY <1>4 DEF Inventory!Over, ReportFields
<1> HIDE DEF r
<1>7. /\ \A d \in DOMAIN existing : /\ d \in DOMAIN report /\ existing[d] \in Interfaces
                                    /\ interfaces[existing[d]].ref = d
      /\ \A k \in Interfaces : interfaces[k].ref \in DOMAIN report =>
           interfaces[k].ref \in DOMAIN existing
  BY <1>3
<1>8. /\ todo(report, existing) \subseteq DOMAIN report
      /\ \A d \in DOMAIN report \ todo(report, existing) :
           d \in DOMAIN existing /\ ~Inventory!Changed(interfaces[existing[d]], report[d])
  BY <1>3
<1>9. /\ gone(report) \subseteq Interfaces
      /\ \A k \in gone(report) : interfaces[k].ref \notin DOMAIN report
      /\ \A k \in Interfaces :
           interfaces[k].ref \notin DOMAIN report => interfaces[k].absent \/ k \in gone(report)
  OBVIOUS
<1> HIDE DEF todo, gone, known, of
<1>10. ~Reconciling(r)
  BY <1>6 DEF Reconciling
<1>11. Sound(q, r, interfaces)
  <2>1. reports + 1 \in Nat
    BY DEF InventoryInv, InventoryTypes
  <2>2. ReportRec(r, interfaces)
    BY <1>6, <1>7, <1>8, <1>9, <1>10, <2>1 DEF ReportRec
  <2> QED
    BY <1>6, <2>2 DEF Sound
<1>12. Enlisted(r, interfaces)
  BY <1>6, <1>7, <1>8 DEF Enlisted
<1>13. Progress(r, interfaces, raced)
  <2>1. ASSUME NEW k \in Interfaces, interfaces[k].ref \notin raced
        PROVE  IF interfaces[k].ref \in DOMAIN report
               THEN \/ interfaces[k].ref \in todo(report, existing)
                    \/ AsReported(interfaces[k], report[interfaces[k].ref])
               ELSE interfaces[k].absent \/ k \in gone(report)
    <3>1. CASE interfaces[k].ref \in DOMAIN report \ todo(report, existing)
      <4>1. existing[interfaces[k].ref] = k
        BY <1>7, <1>8, <2>1, <3>1 DEF InventoryInv, Sole
      <4>2. ~Inventory!Changed(interfaces[k], report[interfaces[k].ref])
        BY <1>8, <3>1, <4>1
      <4> QED
        BY <3>1, <4>2 DEF Inventory!Changed, AsReported
    <3> QED
      BY <1>9, <3>1
  <2>2. \A e \in DOMAIN report \ todo(report, existing) :
          \E k \in Interfaces : interfaces[k].ref = e
    BY <1>7, <1>8
  <2> QED
    BY <1>6, <1>10, <2>1, <2>2 DEF Progress
<1>14. reports' \in Nat
  BY <1>1 DEF InventoryInv, InventoryTypes
<1>15. UNCHANGED <<interfaces, given, torn, raced>>
  BY <1>1
<1>16. "met" \notin DOMAIN f
  BY <1>4
<1> QED
  BY <1>1, <1>5, <1>10, <1>11, <1>12, <1>13, <1>14, <1>15, <1>16, InventoryStarts DEF r, others

\* An edit starts.
LEMMA InventoryBeginEdit ==
  ASSUME InventoryInv, NEW q \in Editor, Inventory!BeginEdit(q)
  PROVE  InventoryInv'
<1>1. /\ q \in Inventory!Proc /\ reports' = reports
      /\ interfaces' = interfaces /\ given' = given /\ torn' = torn /\ raced' = raced
  BY DEF Inventory!BeginEdit
<1>2. PICK entry \in Interfaces, port \in Port, todo \in SUBSET Inventory!Index, label \in Label :
        \/ Inventory!Starts(q, [pc |-> "write", row |-> entry, port |-> port, todo |-> todo,
                                label |-> label])
        \/ Inventory!Starts(q, [pc |-> "label", row |-> entry, todo |-> todo, label |-> label])
  BY DEF Inventory!BeginEdit
<1> DEFINE others == {o \in Inventory!Proc : Inventory!InFlight(o)}
<1>3. ASSUME NEW fields, Inventory!Starts(q, fields),
             {"pc", "row", "todo", "label"} \subseteq DOMAIN fields,
             "met" \notin DOMAIN fields,
             fields.pc \in {"write", "label"}, fields.row = entry, fields.todo = todo,
             fields.label = label,
             fields.pc = "write" => "port" \in DOMAIN fields /\ fields.port = port
      PROVE  InventoryInv'
  <2> DEFINE r == Inventory!Over(fields, [met |-> others])
  <2>1. /\ EditFields \subseteq DOMAIN r /\ r.pc = fields.pc /\ r.row = entry /\ r.todo = todo
        /\ r.label = label /\ (r.pc = "write" => "port" \in DOMAIN r /\ r.port = port)
    BY <1>3 DEF Inventory!Over, EditFields
  <2> HIDE DEF r, others
  <2>2. Sound(q, r, interfaces) /\ ~Reconciling(r)
    BY <1>2, <1>3, <2>1 DEF Sound, EditRec, Reconciling
  <2>3. Enlisted(r, interfaces) /\ Progress(r, interfaces, raced)
    BY <1>3, <2>1 DEF Enlisted, Progress
  <2>4. reports' \in Nat
    BY <1>1 DEF InventoryInv, InventoryTypes
  <2>5. UNCHANGED <<interfaces, given, torn, raced>>
    BY <1>1
  <2> QED
    BY <1>1, <1>3, <2>2, <2>3, <2>4, <2>5, InventoryStarts DEF r, others
<1>4. CASE Inventory!Starts(q, [pc |-> "write", row |-> entry, port |-> port, todo |-> todo,
                                label |-> label])
  <2> DEFINE fields == [pc |-> "write", row |-> entry, port |-> port, todo |-> todo,
                        label |-> label]
  <2>1. /\ DOMAIN fields = {"pc", "row", "port", "todo", "label"} /\ fields.pc = "write"
        /\ fields.row = entry /\ fields.port = port /\ fields.todo = todo /\ fields.label = label
    OBVIOUS
  <2>2. Inventory!Starts(q, fields)
    BY <1>4
  <2> HIDE DEF fields
  <2> QED
    BY <1>3, <2>1, <2>2
<1>5. CASE Inventory!Starts(q, [pc |-> "label", row |-> entry, todo |-> todo, label |-> label])
  <2> DEFINE fields == [pc |-> "label", row |-> entry, todo |-> todo, label |-> label]
  <2>1. /\ DOMAIN fields = {"pc", "row", "todo", "label"} /\ fields.pc = "label"
        /\ fields.row = entry /\ fields.todo = todo /\ fields.label = label
    OBVIOUS
  <2>2. Inventory!Starts(q, fields)
    BY <1>5
  <2> HIDE DEF fields
  <2> QED
    BY <1>3, <2>1, <2>2
<1> QED
  BY <1>2, <1>4, <1>5

\* What an edit is.
LEMMA InventoryEdit ==
  ASSUME InventoryInv, NEW q \in Inventory!Proc, reporting[q].pc \in {"write", "label"}
  PROVE  /\ Inventory!InFlight(q) /\ EditRec(reporting[q], interfaces)
         /\ reporting[q].row \in Interfaces /\ ~Reconciling(reporting[q])
         /\ interfaces \in Seq(InterfaceRec) /\ interfaces[reporting[q].row] \in InterfaceRec
         /\ Len(interfaces) \in Nat
<1>1. Inventory!InFlight(q) /\ EditRec(reporting[q], interfaces)
  BY DEF InventoryInv, InventoryTypes, Inventory!InFlight, Sound
<1>2. reporting[q].row \in Interfaces
  BY <1>1 DEF EditRec
<1>3. interfaces \in Seq(InterfaceRec)
  BY DEF InventoryInv, InventoryTypes
<1> QED
  BY <1>1, <1>2, <1>3 DEF Reconciling

\* An edit goes on, or ends.
LEMMA InventoryEditGoes ==
  ASSUME InventoryInv, NEW q \in Inventory!Proc, reporting[q].pc \in {"write", "label"},
         NEW r, NEW fields, DOMAIN fields \subseteq {"pc", "todo"},
         "pc" \in DOMAIN fields => fields.pc = "label",
         "pc" \notin DOMAIN fields => reporting[q].pc = "label",
         "todo" \in DOMAIN fields => fields.todo \subseteq Inventory!Index,
         r = Inventory!Idle \/ r = Inventory!Over(fields, reporting[q])
  PROVE  /\ r.pc = "idle" \/ (r.met = reporting[q].met /\ Sound(q, r, interfaces))
         /\ ~Reconciling(r) /\ Insight(r, interfaces', raced')
<1> DEFINE me == reporting[q]
<1>1. EditRec(me, interfaces)
  BY InventoryEdit
<1>2. CASE r = Inventory!Idle
  <2>1. r.pc = "idle"
    BY <1>2 DEF Inventory!Idle
  <2> QED
    BY <2>1 DEF Reconciling, Insight, Knows, Enlisted, Progress
<1>3. CASE r = Inventory!Over(fields, me)
  <2>1. /\ DOMAIN r = DOMAIN fields \cup DOMAIN me
        /\ \A name \in DOMAIN r :
             r[name] = IF name \in DOMAIN fields THEN fields[name] ELSE me[name]
    BY <1>3 DEF Inventory!Over
  <2>2. EditFields \subseteq DOMAIN me
    BY <1>1 DEF EditRec
  <2>3. /\ r.pc = "label" /\ r.met = me.met /\ r.row = me.row /\ r.label = me.label
        /\ r.todo \subseteq Inventory!Index /\ EditFields \subseteq DOMAIN r
    BY <1>1, <2>1, <2>2 DEF EditRec, EditFields
  <2>4. Sound(q, r, interfaces)
    BY <1>1, <2>3 DEF Sound, EditRec
  <2> QED
    BY <2>3, <2>4 DEF Reconciling, Insight, Knows, Enlisted, Progress
<1> QED
  BY <1>2, <1>3

\* An edit writes the row back: a report beside it has met it.
LEMMA InventoryWriteRow ==
  ASSUME InventoryInv, NEW q \in Editor, Inventory!WriteRow(q)
  PROVE  InventoryInv'
<1> DEFINE me == reporting[q]
           at == me.row
           entry == [interfaces[at] EXCEPT !.port = me.port]
           fields == [pc |-> "label"]
           r == IF me.todo = {} THEN Inventory!Idle ELSE Inventory!Over(fields, me)
<1>1. /\ q \in Inventory!Proc /\ me.pc = "write"
      /\ interfaces' = [interfaces EXCEPT ![at].port = me.port]
      /\ reporting' = [reporting EXCEPT ![q] = r]
      /\ raced' = raced /\ given' = given /\ torn' = torn /\ shown' = shown
      /\ reports' = reports
  BY DEF Inventory!WriteRow, Inventory!Goes, Inventory!Ends, Inventory!counters
<1>2. /\ Inventory!InFlight(q) /\ EditRec(me, interfaces) /\ at \in Interfaces
      /\ ~Reconciling(me) /\ interfaces \in Seq(InterfaceRec)
      /\ interfaces[at] \in InterfaceRec /\ Len(interfaces) \in Nat
  BY <1>1, InventoryEdit
<1>3. /\ entry \in InterfaceRec /\ entry.ref = interfaces[at].ref
      /\ entry.count = interfaces[at].count /\ entry.channels = interfaces[at].channels
  BY <1>1, <1>2 DEF InterfaceRec, EditRec
<1>4. interfaces' = [interfaces EXCEPT ![at] = entry]
  BY <1>1, <1>2
<1> HIDE DEF entry, r
<1>5. /\ interfaces' \in Seq(InterfaceRec) /\ Len(interfaces') = Len(interfaces)
      /\ interfaces'[at] = entry
      /\ \A k \in Interfaces : k # at => interfaces'[k] = interfaces[k]
      /\ \A k \in Interfaces : interfaces'[k].ref = interfaces[k].ref
  BY <1>2, <1>3, <1>4, RowWritten DEF InventoryInv
<1>6. \A k \in Interfaces : /\ interfaces'[k].ref = interfaces[k].ref
                            /\ interfaces'[k].count = interfaces[k].count
                            /\ interfaces'[k].channels = interfaces[k].channels
                            /\ Indices(interfaces'[k]) = Indices(interfaces[k])
  BY <1>3, <1>5 DEF Indices
<1>7. /\ r.pc = "idle" \/ (r.met = reporting[q].met /\ Sound(q, r, interfaces))
      /\ ~Reconciling(r) /\ Insight(r, interfaces', raced')
  <2>1. DOMAIN fields = {"pc"} /\ fields.pc = "label"
    OBVIOUS
  <2>2. r = Inventory!Idle \/ r = Inventory!Over(fields, me)
    BY DEF r
  <2> HIDE DEF fields
  <2> QED
    BY <1>1, <2>1, <2>2, InventoryEditGoes
<1>8. Sound(q, r, interfaces) => Sound(q, r, interfaces')
  BY <1>5 DEF Sound, ReportRec, EditRec
<1>9. /\ InventoryTypes' /\ Encounters' /\ shown = NoReport
      /\ reporting'[q] = r
      /\ \A p \in Inventory!Proc \ {q} :
           /\ reporting'[p] = reporting[p]
           /\ Enlisted(reporting[p], interfaces')
           /\ Progress(reporting[p], interfaces', raced')
  <2>1. given' \in [Device -> [Inventory!Index -> Label \cup {Unlabelled}]]
    BY <1>1 DEF InventoryInv, InventoryTypes
  <2>2. shown' = NoReport
    BY <1>1, <1>2 DEF InventoryInv, Encounters
  <2>3. Len(interfaces) <= Len(interfaces')
    BY <1>2, <1>5
  <2> QED
    BY <1>1, <1>2, <1>5, <1>7, <1>8, <2>1, <2>2, <2>3, InventoryOthers
<1>10. Sole' /\ LabelsKept' /\ Blank' /\ Unique'
  BY <1>1, <1>5, <1>6, InventoryChannels
<1>11. Apart'
  BY <1>1, <1>7, InventoryExclusive
<1>12. Complete'
  <2>1. \A p \in Inventory!Proc : Reconciling(reporting[p]) =>
          Reconciling(reporting'[p]) /\ reporting'[p].row = reporting[p].row
    BY <1>2, <1>9
  <2> QED
    BY <1>1, <1>5, <1>6, <2>1, InventoryComplete
<1>13. ASSUME NEW p \in Inventory!Proc PROVE Insight(reporting'[p], interfaces', raced')
  <2>1. Knows(reporting[p], interfaces', raced')
    BY <1>1, <1>5, <1>6, InventoryKnows
  <2> QED
    BY <1>7, <1>9, <2>1 DEF Insight
<1>14. InventoryWhole'
  BY <1>1, <1>9 DEF InventoryWhole
<1> QED
  BY <1>9, <1>10, <1>11, <1>12, <1>13, <1>14 DEF InventoryInv

\* A channel gets its label, if it is there.
LEMMA InventoryLabelChannel ==
  ASSUME InventoryInv, NEW q \in Editor, Inventory!LabelChannel(q)
  PROVE  InventoryInv'
<1> DEFINE me == reporting[q]
           at == me.row
           old == interfaces[at].channels
           i == Inventory!Lowest(me.todo)
           mine == {c \in old : c.index = i}
           label == me.label
           chans == (old \ mine) \cup {[c EXCEPT !.label = label] : c \in mine}
           d == interfaces[at].ref
           fields == [todo |-> me.todo \ {i}]
           r == IF me.todo = {i} THEN Inventory!Idle ELSE Inventory!Over(fields, me)
<1>1. /\ q \in Inventory!Proc /\ me.pc = "label"
      /\ reporting' = [reporting EXCEPT ![q] = r]
      /\ raced' = raced /\ torn' = torn /\ shown' = shown
      /\ reports' = reports
  BY DEF Inventory!LabelChannel, Inventory!Goes, Inventory!Ends, Inventory!counters
<1>2. /\ Inventory!InFlight(q) /\ EditRec(me, interfaces) /\ at \in Interfaces
      /\ ~Reconciling(me) /\ interfaces \in Seq(InterfaceRec)
      /\ interfaces[at] \in InterfaceRec /\ Len(interfaces) \in Nat
  BY <1>1, InventoryEdit
<1>3. /\ interfaces' = [interfaces EXCEPT ![at].channels = chans]
      /\ given' = IF mine = {} THEN given ELSE [given EXCEPT ![d][i] = label]
  <2>1. /\ interfaces' = [interfaces EXCEPT ![at].channels =
                            (@ \ mine) \cup {[c EXCEPT !.label = label] : c \in mine}]
        /\ given' = IF mine = {} THEN given ELSE [given EXCEPT ![d][i] = label]
    BY DEF Inventory!LabelChannel
  <2> HIDE DEF mine, label, i, at
  <2> QED
    BY <1>2, <2>1
<1>4. /\ d \in Device /\ old \in SUBSET ChannelRec /\ label \in Label
      /\ given \in [Device -> [Inventory!Index -> Label \cup {Unlabelled}]]
  <2>1. given \in [Device -> [Inventory!Index -> Label \cup {Unlabelled}]]
    BY DEF InventoryInv, InventoryTypes
  <2> QED
    BY <1>2, <2>1 DEF InterfaceRec, EditRec
<1> HIDE DEF i
<1>5. /\ \A c \in old : c.index \in Inventory!Index
      /\ \A c \in mine : /\ [c EXCEPT !.label = label] \in ChannelRec
                         /\ [c EXCEPT !.label = label].index = i
                         /\ [c EXCEPT !.label = label].label = label
  BY <1>4 DEF ChannelRec
<1>6. chans \in SUBSET ChannelRec
  BY <1>4, <1>5
\* A channel of the row now is one that was, or the one that is labelled.
<1>7. /\ \A c \in chans : c.index # i => c \in old
      /\ \A c \in chans : c.index = i =>
           \E e \in mine : c = [e EXCEPT !.label = label] /\ c.label = label
      /\ \A c \in old : c.index # i => c \in chans
  BY <1>5
<1>8. \A c \in chans : \E e \in old : e.index = c.index
  BY <1>7
<1>9. \A c \in old : \E e \in chans : e.index = c.index
  <2> TAKE c \in old
  <2>1. CASE c.index = i
    <3>1. c \in mine
      BY <2>1
    <3>2. [c EXCEPT !.label = label] \in chans
      BY <3>1
    <3> QED
      BY <1>5, <2>1, <3>1, <3>2
  <2>2. CASE c.index # i
    BY <1>7, <2>2
  <2> QED
    BY <2>1, <2>2
<1>10. mine # {} => i \in Inventory!Index
  BY <1>5
<1>11. /\ given' \in [Device -> [Inventory!Index -> Label \cup {Unlabelled}]]
       /\ \A e \in Device, j \in Inventory!Index :
            given'[e][j] = IF mine # {} /\ e = d /\ j = i THEN label ELSE given[e][j]
  <2> HIDE DEF mine, label, d
  <2> QED
    BY <1>3, <1>4, <1>10
<1>12. /\ r.pc = "idle" \/ (r.met = reporting[q].met /\ Sound(q, r, interfaces))
       /\ ~Reconciling(r) /\ Insight(r, interfaces', raced')
  <2> DEFINE left == me.todo \ {i}
  <2>1. left \subseteq Inventory!Index
    BY <1>2 DEF EditRec
  <2>2. DOMAIN fields = {"todo"} /\ fields.todo = left
    OBVIOUS
  <2>3. r = Inventory!Idle \/ r = Inventory!Over(fields, me)
    OBVIOUS
  <2> HIDE DEF fields, left, r
  <2> QED
    BY <1>1, <2>1, <2>2, <2>3, InventoryEditGoes
<1> HIDE DEF d, at, old, mine, label, chans, r
<1>13. /\ interfaces' \in Seq(InterfaceRec) /\ Len(interfaces') = Len(interfaces)
       /\ Len(interfaces) \in Nat
       /\ interfaces'[at].channels = chans
       /\ \A k \in Interfaces : k # at => interfaces'[k] = interfaces[k]
       /\ \A k \in Interfaces :
            /\ interfaces'[k].ref = interfaces[k].ref
            /\ interfaces'[k].count = interfaces[k].count
       /\ Sole'
  BY <1>1, <1>2, <1>3, <1>6, InventoryChannelsSet
<1>14. \A k \in Interfaces : Indices(interfaces'[k]) = Indices(interfaces[k])
  <2>1. Indices(interfaces'[at]) = Indices(interfaces[at])
    BY <1>8, <1>9, <1>13 DEF Indices, old
  <2> QED
    BY <1>13, <2>1
<1>15. Sound(q, r, interfaces) => Sound(q, r, interfaces')
  BY <1>13 DEF Sound, ReportRec, EditRec
<1>16. /\ InventoryTypes' /\ Encounters' /\ shown = NoReport
       /\ reporting'[q] = r
       /\ \A p \in Inventory!Proc \ {q} :
            /\ reporting'[p] = reporting[p]
            /\ Enlisted(reporting[p], interfaces')
            /\ Progress(reporting[p], interfaces', raced')
  <2>1. shown' = NoReport
    BY <1>1, <1>2 DEF InventoryInv, Encounters
  <2>2. /\ Len(interfaces) <= Len(interfaces')
        /\ \A k \in Interfaces : interfaces'[k].ref = interfaces[k].ref
    BY <1>13
  <2> QED
    BY <1>1, <1>2, <1>11, <1>12, <1>13, <1>15, <2>1, <2>2, InventoryOthers
<1>17. Apart'
  BY <1>1, <1>12, InventoryExclusive
<1>18. Unique'
  <2>1. ASSUME NEW k \in Interfaces, interfaces[k].ref \notin raced,
               NEW c \in interfaces'[k].channels, NEW e \in interfaces'[k].channels,
               c.index = e.index
        PROVE  c = e
    <3>1. CASE k # at
      BY <1>13, <2>1, <3>1 DEF InventoryInv, Unique
    <3>2. CASE k = at
      <4>0. \A x, y \in old : x.index = y.index => x = y
        BY <2>1, <3>2 DEF InventoryInv, Unique, old
      <4>1. c \in chans /\ e \in chans
        BY <1>13, <2>1, <3>2
      <4>2. CASE c.index = i
        <5>1. PICK x \in mine : c = [x EXCEPT !.label = label]
          BY <1>7, <4>1, <4>2
        <5>2. PICK y \in mine : e = [y EXCEPT !.label = label]
          BY <1>7, <2>1, <4>1, <4>2
        <5>3. x = y
          BY <4>0, <5>1, <5>2 DEF mine
        <5> QED
          BY <5>1, <5>2, <5>3
      <4>3. CASE c.index # i
        BY <1>7, <2>1, <4>0, <4>1, <4>3
      <4> QED
        BY <4>2, <4>3
    <3> QED
      BY <3>1, <3>2
  <2> QED
    BY <1>1, <1>13, <2>1 DEF Unique
<1>19. LabelsKept'
  <2>1. ASSUME NEW k \in Interfaces, interfaces[k].ref \notin raced,
               NEW c \in interfaces'[k].channels
        PROVE  c.label = given'[interfaces[k].ref][c.index]
    <3>1. CASE k = at
      <4>1. c \in chans /\ c.index \in Inventory!Index
        BY <1>5, <1>8, <1>13, <2>1, <3>1
      <4>2. CASE c.index = i
        BY <1>4, <1>7, <1>11, <3>1, <4>1, <4>2 DEF d
      <4>3. CASE c.index # i
        <5>1. c.label = given[d][c.index]
          BY <1>7, <2>1, <3>1, <4>1, <4>3 DEF InventoryInv, LabelsKept, old, d
        <5> QED
          BY <1>4, <1>11, <3>1, <4>1, <4>3, <5>1 DEF d
      <4> QED
        BY <4>2, <4>3
    <3>2. CASE k # at
      <4>1. interfaces[k].ref # d
        BY <1>2, <2>1, <3>2 DEF InventoryInv, Sole, d
      <4>2. interfaces[k] \in InterfaceRec
        BY DEF InventoryInv, InventoryTypes
      <4>3. c \in interfaces[k].channels
        BY <1>13, <2>1, <3>2
      <4>4. interfaces[k].ref \in Device /\ c.index \in Inventory!Index
        BY <4>2, <4>3 DEF InterfaceRec, ChannelRec
      <4> QED
        BY <1>11, <2>1, <4>1, <4>3, <4>4 DEF InventoryInv, LabelsKept
    <3> QED
      BY <3>1, <3>2
  <2> QED
    BY <1>1, <1>13, <2>1 DEF LabelsKept
<1>20. Blank'
  <2>1. ASSUME NEW e \in Device \ raced, NEW j \in Inventory!Index, given'[e][j] # Unlabelled
        PROVE  \E k \in Interfaces :
                 interfaces'[k].ref = e /\ \E c \in interfaces'[k].channels : c.index = j
    <3>1. \E k \in Interfaces :
            interfaces[k].ref = e /\ \E c \in interfaces[k].channels : c.index = j
      <4>1. CASE mine # {} /\ e = d /\ j = i
        BY <1>2, <4>1 DEF mine, old, d
      <4>2. CASE ~(mine # {} /\ e = d /\ j = i)
        BY <1>11, <2>1, <4>2 DEF InventoryInv, Blank
      <4> QED
        BY <4>1, <4>2
    <3>2. PICK k \in Interfaces : interfaces[k].ref = e /\ j \in Indices(interfaces[k])
      BY <3>1 DEF Indices
    <3>3. j \in Indices(interfaces'[k])
      BY <1>14, <3>2
    <3> QED
      BY <1>13, <3>2, <3>3 DEF Indices
  <2> QED
    BY <1>1, <1>13, <2>1 DEF Blank
<1>21. Complete'
  <2>1. \A p \in Inventory!Proc : Reconciling(reporting[p]) =>
          Reconciling(reporting'[p]) /\ reporting'[p].row = reporting[p].row
    BY <1>2, <1>16
  <2> QED
    BY <1>1, <1>13, <1>14, <2>1, InventoryComplete
<1>22. ASSUME NEW p \in Inventory!Proc PROVE Insight(reporting'[p], interfaces', raced')
  <2>1. Knows(reporting[p], interfaces', raced')
    BY <1>1, <1>13, <1>14, InventoryKnows
  <2> QED
    BY <1>12, <1>16, <2>1 DEF Insight
<1>23. InventoryWhole'
  BY <1>1, <1>16 DEF InventoryWhole
<1> QED
  BY <1>13, <1>16, <1>17, <1>18, <1>19, <1>20, <1>21, <1>22, <1>23 DEF InventoryInv

\* A statement fails: the row that was between its statements is torn.
LEMMA InventoryStoreFails ==
  ASSUME InventoryInv, NEW q \in Inventory!Proc, Inventory!StoreFails(q)
  PROVE  InventoryInv'
<1>1. /\ Inventory!InFlight(q)
      /\ reporting' = [reporting EXCEPT ![q] = Inventory!Idle]
      /\ torn' = torn \cup Inventory!Cut({q})
      /\ interfaces' = interfaces /\ raced' = raced /\ given' = given /\ shown' = shown
      /\ reports' = reports
      /\ Inventory!Idle.pc = "idle" /\ ~Reconciling(Inventory!Idle)
  BY DEF Inventory!StoreFails, Inventory!Ends, Inventory!Idle, Reconciling
<1>2. interfaces' \in Seq(InterfaceRec) /\ Len(interfaces') = Len(interfaces)
      /\ Len(interfaces) \in Nat
      /\ given' \in [Device -> [Inventory!Index -> Label \cup {Unlabelled}]]
  BY <1>1 DEF InventoryInv, InventoryTypes
<1>3. shown' = NoReport
  BY <1>1 DEF InventoryInv, Encounters
<1>4. /\ InventoryTypes' /\ Encounters' /\ shown = NoReport
      /\ reporting'[q] = Inventory!Idle
      /\ \A p \in Inventory!Proc \ {q} :
           /\ reporting'[p] = reporting[p]
           /\ Enlisted(reporting[p], interfaces')
           /\ Progress(reporting[p], interfaces', raced')
  <2>1. /\ Len(interfaces) <= Len(interfaces')
        /\ \A k \in Interfaces : interfaces'[k].ref = interfaces[k].ref
    BY <1>1, <1>2
  <2> QED
    BY <1>1, <1>2, <1>3, <2>1, InventoryOthers
<1>5. Sole' /\ LabelsKept' /\ Blank' /\ Unique'
  BY <1>1, InventoryChannels
<1>6. Apart'
  BY <1>1, InventoryExclusive
<1>7. Complete'
  <2>1. Reconciling(reporting[q]) => reporting[q].row \in torn'
    BY <1>1 DEF Inventory!Cut, Reconciling
  <2>2. ASSUME NEW p \in Inventory!Proc, Reconciling(reporting[p])
        PROVE  \/ reporting[p].row \in torn'
               \/ Reconciling(reporting'[p]) /\ reporting'[p].row = reporting[p].row
    BY <1>4, <2>1, <2>2
  <2>3. torn \subseteq torn'
    BY <1>1
  <2> QED
    BY <1>1, <2>2, <2>3, InventoryComplete
<1>8. ASSUME NEW p \in Inventory!Proc PROVE Insight(reporting'[p], interfaces', raced')
  <2>1. CASE p # q
    <3>1. Knows(reporting[p], interfaces', raced')
      BY <1>1, InventoryKnows
    <3> QED
      BY <1>4, <2>1, <3>1 DEF Insight
  <2>2. CASE p = q
    BY <1>1, <1>4, <2>2 DEF Insight, Knows, Enlisted, Progress
  <2> QED
    BY <2>1, <2>2
<1>9. InventoryWhole'
  BY <1>3 DEF InventoryWhole
<1> QED
  BY <1>4, <1>5, <1>6, <1>7, <1>8, <1>9 DEF InventoryInv

\* The controller starts again: the requests are gone, and their rows torn.
LEMMA InventoryRestart ==
  ASSUME InventoryInv, Inventory!Restart
  PROVE  InventoryInv'
<1>1. /\ reporting' = [p \in Inventory!Proc |-> Inventory!Idle]
      /\ torn' = torn \cup Inventory!Cut(Inventory!Proc)
      /\ interfaces' = interfaces /\ raced' = raced /\ given' = given /\ shown' = shown
      /\ reports' = reports
      /\ Inventory!Idle.pc = "idle" /\ ~Reconciling(Inventory!Idle)
  BY DEF Inventory!Restart, Inventory!Idle, Reconciling
<1>2. \A p \in Inventory!Proc : reporting'[p].pc = "idle" /\ ~Reconciling(reporting'[p])
  BY <1>1
<1>3. InventoryTypes'
  BY <1>1, <1>2 DEF InventoryInv, InventoryTypes, Inventory!InFlight
<1>4. Encounters' /\ Apart'
  BY <1>2 DEF Encounters, Apart, Inventory!InFlight
<1>5. Sole' /\ LabelsKept' /\ Blank' /\ Unique'
  BY <1>1, InventoryChannels
<1>6. Complete'
  <2>1. \A p \in Inventory!Proc : Reconciling(reporting[p]) => reporting[p].row \in torn'
    BY <1>1 DEF Inventory!Cut, Reconciling
  <2>2. torn \subseteq torn'
    BY <1>1
  <2> QED
    BY <1>1, <2>1, <2>2, InventoryComplete
<1>7. \A p \in Inventory!Proc : Insight(reporting'[p], interfaces', raced')
  BY <1>2 DEF Insight, Knows, Enlisted, Progress
<1>8. InventoryWhole'
  <2>1. CASE shown = NoReport
    BY <1>1, <2>1 DEF InventoryWhole
  <2>2. CASE shown # NoReport
    <3>1. \A p \in Inventory!Proc : reporting[p].pc = "idle"
      BY <2>2 DEF InventoryInv, Encounters, Inventory!InFlight
    <3>2. torn' = torn
      BY <1>1, <3>1 DEF Inventory!Cut
    <3> QED
      BY <1>1, <3>2 DEF InventoryInv, InventoryWhole
  <2> QED
    BY <2>1, <2>2
<1> QED
  BY <1>3, <1>4, <1>5, <1>6, <1>7, <1>8 DEF InventoryInv

\* A step of the rest of the system leaves the inventory.
LEMMA InventoryStutters ==
  ASSUME InventoryInv, UNCHANGED Inventory!vars
  PROVE  InventoryInv'
<1>1. /\ interfaces' = interfaces /\ reporting' = reporting /\ given' = given /\ torn' = torn
      /\ raced' = raced /\ shown' = shown /\ reports' = reports
  BY DEF Inventory!vars, Inventory!counters
<1>2. InventoryTypes' /\ Encounters'
  BY <1>1 DEF InventoryInv, InventoryTypes, Encounters, Inventory!InFlight
<1>3. Sole' /\ LabelsKept' /\ Blank' /\ Unique'
  BY <1>1, InventoryChannels
<1>4. Apart' /\ Complete'
  BY <1>1 DEF InventoryInv, Apart, Complete, Entire
<1>5. \A p \in Inventory!Proc : Insight(reporting'[p], interfaces', raced')
  BY <1>1 DEF InventoryInv
<1>6. InventoryWhole'
  BY <1>1 DEF InventoryInv, InventoryWhole
<1> QED
  BY <1>2, <1>3, <1>4, <1>5, <1>6 DEF InventoryInv

\* Every step keeps the invariant.
LEMMA InventoryNext ==
  ASSUME InventoryInv, Inventory!NodeInventoryAssumption, [Inventory!Next]_Inventory!vars
  PROVE  InventoryInv'
<1>1. CASE UNCHANGED Inventory!vars
  BY <1>1, InventoryStutters
<1>2. CASE Inventory!Restart
  BY <1>2, InventoryRestart
<1>3. ASSUME NEW q \in Reporter, Inventory!BeginReport(q) PROVE InventoryInv'
  BY <1>3, InventoryBeginReport
<1>4. ASSUME NEW q \in Reporter, Inventory!InsertRow(q) PROVE InventoryInv'
  BY <1>4, InventoryInsertRow
<1>5. ASSUME NEW q \in Reporter, Inventory!UpdateRow(q) PROVE InventoryInv'
  BY <1>5, InventoryUpdateRow
<1>6. ASSUME NEW q \in Reporter, Inventory!DropChannels(q) PROVE InventoryInv'
  BY <1>6, InventoryDropChannels
<1>7. ASSUME NEW q \in Reporter, Inventory!InsertChannels(q) PROVE InventoryInv'
  BY <1>7, InventoryInsertChannels
<1>8. ASSUME NEW q \in Reporter, Inventory!MarkAbsent(q) PROVE InventoryInv'
  BY <1>8, InventoryMarkAbsent
<1>9. ASSUME NEW q \in Reporter, Inventory!EndReport(q) PROVE InventoryInv'
  BY <1>9, InventoryEndReport
<1>10. ASSUME NEW q \in Editor, Inventory!BeginEdit(q) PROVE InventoryInv'
  BY <1>10, InventoryBeginEdit
<1>11. ASSUME NEW q \in Editor, Inventory!WriteRow(q) PROVE InventoryInv'
  BY <1>11, InventoryWriteRow
<1>12. ASSUME NEW q \in Editor, Inventory!LabelChannel(q) PROVE InventoryInv'
  BY <1>12, InventoryLabelChannel
<1>13. ASSUME NEW q \in Inventory!Proc, Inventory!StoreFails(q) PROVE InventoryInv'
  BY <1>13, InventoryStoreFails
<1> QED
  BY <1>1, <1>2, <1>3, <1>4, <1>5, <1>6, <1>7, <1>8, <1>9, <1>10, <1>11, <1>12, <1>13
  DEF Inventory!Next

\* Whatever reports, edits and faults there are: a report that runs alone leaves
\* one row for each device with its facts and its channels, the other rows absent,
\* and each channel with the label it was last given.
THEOREM InventoryIsKept ==
  ASSUME Inventory!NodeInventoryAssumption
  PROVE  Inventory!Spec => []InventoryKept
<1>1. Inventory!Init => InventoryInv
  BY InventoryInit
<1>2. InventoryInv /\ [Inventory!Next]_Inventory!vars => InventoryInv'
  BY InventoryNext
<1>3. InventoryInv => InventoryKept
  BY DEF InventoryInv, InventoryKept
<1> QED
  BY <1>1, <1>2, <1>3, PTL DEF Inventory!Spec
===============================================================================
