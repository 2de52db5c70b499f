---------------------------- MODULE ChunkDelivery ----------------------------
(***************************************************************************)
(* A recording captured in chunks, each of which is uploaded as it closes: *)
(* the agent's delivery of chunks and its recovery of undelivered ones     *)
(* (recording_job_chunked.rs), the controller's chunk upload               *)
(* (agent-cache-uploads.ts), the upload runner's chunk reconciliation      *)
(* (upload-runner.ts) and the marking of a recording whose job ended.      *)
(*                                                                         *)
(* A step is the code between two awaits; the loops over a recording's     *)
(* rows are one step.  The agent has one upload in flight.  An item's      *)
(* attempts are abstracted to their outcome (see UploadQueue).             *)
(***************************************************************************)
EXTENDS ChunkPromise, Naturals, FiniteSets

CONSTANTS
  Chunks,      \* how many chunks a whole capture has
  Deleting,    \* those whose policy releases the cache
  Tries,       \* uploads of a chunk before it is left pending
  MaxFaults    \* bound on crashes, lost answers, retries of items and items that
               \* cannot be stored together

ChunkDeliveryAssumption ==
  Chunks \in Nat \ {0} /\ Tries \in Nat \ {0} /\ MaxFaults \in Nat /\ Deleting \subseteq Dest

Chunk == 1..Chunks
Secured == {"cached", "partial", "uploaded"}     \* RECONCILABLE_RECORDING_STATUSES
Preserved == {"cached", "uploading", "uploaded", "partial"} \* PRESERVED_CHUNK_STATUSES
Final == {"uploaded", "partial", "failed"}
Ended == {"completed", "failed", "cancelled"}

VARIABLES
  job,      \* its job's
  rows,     \* the chunk rows
  put,      \* the chunk upload in flight
  pass,     \* the upload runner's pass
  mark,     \* the marking of a recording whose job ended
  agent,    \* the agent's worker, or its recovery
  saved,    \* the agent's state file
  faults

vars == <<rec, job, rows, items, kept, put, pass, mark, agent, local, saved, closed,
          guessed, faults>>
controller == <<rec, job, rows, items, kept>>
node == <<agent, local, saved, closed, guessed>>

NoRow == [status |-> "none", total |-> 0]
NoRows == [k \in Chunk |-> NoRow]
NoPut == [pc |-> "idle", chunk |-> 1, total |-> 0, rec |-> "recording", row |-> NoRow,
          rows |-> NoRows, todo |-> {}]
NoItems == [k \in Chunk |-> [d \in Dest |-> {}]]
NoPass == [pc |-> "idle", items |-> NoItems, rows |-> NoRows, status |-> "none"]
\* "had" is a history of the secured chunks at the job's end.
NoMark == [pc |-> "idle", end |-> "none", preserved |-> FALSE, had |-> FALSE]

Recorder == [pc |-> "capturing", next |-> 1, chunk |-> 1, total |-> 0, tries |-> 0,
           up |-> 0, pending |-> {}, todo |-> {}, told |-> FALSE]

TypeOK ==
  /\ rec \in Secured \cup {"recording", "completed", "failed"}
  /\ job \in {"running"} \cup Ended
  /\ rows \in [Chunk -> [status : Preserved \cup {"none", "failed"}, total : 0..Chunks]]
  /\ items \in [Chunk -> [Dest -> SUBSET {"queued", "succeeded", "failed"}]]
  /\ guessed \subseteq {"crash", "boundary"}
  /\ kept \subseteq Chunk /\ local \subseteq closed /\ closed \subseteq Chunk
  /\ agent.pc \in {"capturing", "sending", "finish", "done", "down", "recovering", "resending"}
  /\ agent.pending \subseteq Chunk /\ agent.total \in 0..Chunks /\ agent.up \in 0..Chunks

Init ==
  /\ rec = "recording" /\ job = "running"
  /\ rows = NoRows /\ items = NoItems /\ kept = {}
  /\ put = NoPut /\ pass = NoPass /\ mark = NoMark
  /\ agent = Recorder
  /\ local = {} /\ closed = {}
  /\ saved = [status |-> "running", up |-> 0, pending |-> {}, total |-> 0]
  /\ guessed = {} /\ faults = 0

Fault == faults < MaxFaults /\ faults' = faults + 1

-----------------------------------------------------------------------------
(* The controller's chunk upload. *)

Put(next) == put' = next
PutStays == UNCHANGED <<pass, mark, node, faults>>

\* agentJobRecordingScope: not for a job the controller ended, except completed.
Accepts == job \notin {"failed", "cancelled"} /\ rec # "failed"

\* The agent's request, while it waits for the answer.
PutScope ==
  /\ put.pc = "idle" /\ agent.pc \in {"sending", "resending"}
  /\ IF Accepts
     THEN Put([NoPut EXCEPT !.pc = "store", !.chunk = agent.chunk, !.total = agent.total,
                            !.rec = rec])
     ELSE Put([NoPut EXCEPT !.pc = "refused"])
  /\ PutStays /\ UNCHANGED controller

\* storeRecordingChunkFile, findRecordingChunk
PutStore ==
  /\ put.pc = "store"
  /\ \/ /\ kept' = kept \cup {put.chunk}
        /\ Put([put EXCEPT !.pc = "upsert", !.row = rows[put.chunk]])
     \/ Put([NoPut EXCEPT !.pc = "refused"]) /\ UNCHANGED kept
  /\ PutStays /\ UNCHANGED <<rec, job, rows, items>>

\* Mutant of Stored: the total is shifted to one-based like the index.
StoredShifted(row, total) ==
  [status |-> "cached", total |-> IF total = 0 THEN row.total ELSE total + 1]

\* applyStoredChunkRendition, on the copy of the row.
Stored(row, total) ==
  [status |-> IF row.status \in {"uploaded", "partial"} THEN row.status ELSE "cached",
   total |-> IF total = 0 THEN row.total ELSE total]

PutUpsert ==
  /\ put.pc = "upsert"
  /\ rows' = [rows EXCEPT ![put.chunk] = Stored(put.row, put.total)]
  /\ Put([put EXCEPT !.pc = "enqueue", !.row = NoRow, !.todo = Dest])
  /\ PutStays /\ UNCHANGED <<rec, job, items, kept>>

\* queueCachedChunkUpload: an active or delivered item of the same object is reused.
\* A policy whose item cannot be stored is passed over, and the chunk accepted.
PutEnqueue ==
  /\ put.pc = "enqueue"
  /\ \/ \E d \in put.todo :
          /\ Put([put EXCEPT !.todo = @ \ {d}])
          /\ \/ /\ items' = IF items[put.chunk][d] \cap {"queued", "succeeded"} # {} THEN items
                           ELSE [items EXCEPT ![put.chunk][d] = @ \cup {"queued"}]
                /\ UNCHANGED faults
             \/ Fault /\ UNCHANGED items
     \/ /\ put.todo = {}
        /\ Put(IF put.total = 0 THEN [NoPut EXCEPT !.pc = "accepted"] ELSE [put EXCEPT !.pc = "list"])
        /\ UNCHANGED <<items, faults>>
  /\ UNCHANGED <<rec, job, rows, kept, pass, mark, node>>

\* setRecordingChunkTotal lists the rows and writes each one back whole.
PutList ==
  /\ put.pc = "list"
  /\ Put([put EXCEPT !.pc = "stamp", !.rows = rows])
  /\ PutStays /\ UNCHANGED controller

Stamped(copies, total) ==
  [k \in Chunk |-> IF copies[k].status # "none" /\ copies[k].total # total
                   THEN [copies[k] EXCEPT !.total = total] ELSE rows[k]]

PutStamp ==
  /\ put.pc = "stamp"
  /\ rows' = Stamped(put.rows, put.total)
  /\ Put([put EXCEPT !.pc = "cached", !.rows = NoRows])
  /\ PutStays /\ UNCHANGED <<rec, job, items, kept>>

\* markRecordingCachedFromChunks saves the copy that the request began with.
PutCached ==
  /\ put.pc = "cached"
  /\ rec' = IF put.rec \in {"uploaded", "partial"} THEN put.rec ELSE "cached"
  /\ Put([NoPut EXCEPT !.pc = "complete"])
  /\ PutStays /\ UNCHANGED <<job, rows, items, kept>>

PutComplete ==
  /\ put.pc = "complete"
  /\ job' = IF job = "running" THEN "completed" ELSE job
  /\ Put([NoPut EXCEPT !.pc = "accepted"])
  /\ PutStays /\ UNCHANGED <<rec, rows, items, kept>>

PutStep == PutScope \/ PutStore \/ PutUpsert \/ PutEnqueue \/ PutList \/ PutStamp
           \/ PutCached \/ PutComplete

-----------------------------------------------------------------------------
(* The upload runner: items are attempted, then the recording reconciled. *)

Pass(next) == pass' = next
PassStays == UNCHANGED <<job, put, mark, node, faults>>

\* An attempt that needs the cached object, or the last failure of an item.
Attempt ==
  /\ pass.pc \in {"idle", "work"}
  /\ \E k \in Chunk, d \in Dest :
       /\ "queued" \in items[k][d]
       /\ \E result \in {"succeeded", "failed"} :
            /\ result = "succeeded" => k \in kept
            /\ items' = [items EXCEPT ![k][d] = (@ \ {"queued"}) \cup {result}]
  /\ Pass([NoPass EXCEPT !.pc = "work"])
  /\ PassStays /\ UNCHANGED <<rec, rows, kept>>

PassList ==
  /\ pass.pc = "work"
  /\ Pass([pass EXCEPT !.pc = "rows", !.items = items])
  /\ PassStays /\ UNCHANGED <<rec, rows, items, kept>>

PassRows ==
  /\ pass.pc = "rows"
  /\ Pass([pass EXCEPT !.pc = "reread", !.rows = rows])
  /\ PassStays /\ UNCHANGED <<rec, rows, items, kept>>

Reconcilable(status) == status \in Secured

PassReread ==
  /\ pass.pc = "reread"
  /\ IF Reconcilable(rec) THEN Pass([pass EXCEPT !.pc = "chunks"]) ELSE Pass(NoPass)
  /\ PassStays /\ UNCHANGED <<rec, rows, items, kept>>

Listed(k) == UNION {pass.items[k][d] : d \in Dest}

\* chunkUploadStatus
ChunkStatus(statuses) ==
  IF "queued" \in statuses THEN "uploading"
  ELSE IF "failed" \notin statuses THEN "uploaded"
  ELSE IF "succeeded" \in statuses THEN "partial" ELSE "failed"

Settled(k) == [pass.rows[k] EXCEPT !.status = IF Listed(k) = {} THEN @ ELSE ChunkStatus(Listed(k))]

\* deleteChunkCacheIfPolicyAllows: every listed item delivered, one by a policy
\* that releases.  The deletion may be refused, or the upload be unverified.
Releasable(k) ==
  /\ Listed(k) = {"succeeded"}
  /\ \E d \in Deleting : pass.items[k][d] # {}

PassChunks ==
  /\ pass.pc = "chunks"
  /\ \E release \in SUBSET {k \in Chunk : Releasable(k)} : kept' = kept \ release
  /\ rows' = [k \in Chunk |-> IF Settled(k) # pass.rows[k] THEN Settled(k) ELSE rows[k]]
  /\ Pass([pass EXCEPT !.pc = "final", !.items = NoItems, !.rows = [k \in Chunk |-> Settled(k)]])
  /\ PassStays /\ UNCHANGED <<rec, items>>

\* Mutants of Finalization: a known gap is not looked at; a gap is waited for.
FinalizationGapless(copies, captureDone) ==
  LET present == {k \in Chunk : copies[k].status # "none"} IN
  IF \/ \E k \in present : copies[k].status \notin Final
     \/ ~captureDone
     \/ \A k \in present : copies[k].status # "uploaded"
  THEN "none"
  ELSE IF \E k \in present : copies[k].status # "uploaded" THEN "partial" ELSE "uploaded"

FinalizationWaits(copies, captureDone) ==
  LET present == {k \in Chunk : copies[k].status # "none"} IN
  IF \E k \in present : copies[k].status # "uploaded" \/ copies[k].total = 0
                        \/ Cardinality(present) < copies[k].total
  THEN "none" ELSE "uploaded"

\* chunkedRecordingFinalization
Finalization(copies, captureDone) ==
  LET present == {k \in Chunk : copies[k].status # "none"}
      totals == {copies[k].total : k \in present} \ {0}
      total == IF totals = {} THEN 0 ELSE CHOOSE t \in totals : TRUE
      whole == total # 0 /\ Cardinality(present) >= total IN
  IF \/ \E k \in present : copies[k].status \notin Final
     \/ ~(whole \/ captureDone)
     \/ \A k \in present : copies[k].status # "uploaded"
  THEN "none"
  ELSE IF \E k \in present : copies[k].status # "uploaded" THEN "partial"
  ELSE IF whole THEN "uploaded" ELSE "partial"

PassJob ==
  /\ pass.pc = "final"
  /\ LET status == Finalization(pass.rows, job \in Ended) IN
     IF status = "none" \/ ~Reconcilable(rec) THEN Pass(NoPass)
     ELSE Pass([NoPass EXCEPT !.pc = "save", !.status = status])
  /\ PassStays /\ UNCHANGED <<rec, rows, items, kept>>

PassSave ==
  /\ pass.pc = "save"
  /\ rec' = pass.status
  /\ Pass(NoPass)
  /\ PassStays /\ UNCHANGED <<rows, items, kept>>

PassStep == Attempt \/ PassList \/ PassRows \/ PassReread \/ PassChunks \/ PassJob \/ PassSave

\* An operator retries a failed item.
RetryItem ==
  /\ Fault
  /\ \E k \in Chunk, d \in Dest :
       /\ "failed" \in items[k][d]
       /\ items' = [items EXCEPT ![k][d] = (@ \ {"failed"}) \cup {"queued"}]
  /\ UNCHANGED <<rec, job, rows, kept, put, pass, mark, node>>

-----------------------------------------------------------------------------
(* The end of the job: the agent's report or the lease runner. *)

AnySecured == \E k \in Chunk : rows[k].status \in Preserved

\* The job is ended, and its recording will be marked.
End(status) ==
  IF job = "running"
  THEN /\ job' = status
       /\ mark' = [NoMark EXCEPT !.pc = "chunks", !.end = status, !.had = AnySecured]
  ELSE UNCHANGED <<job, mark>>

\* The lease of an agent that captures is renewed at every poll.
Expire ==
  /\ job = "running" /\ agent.pc # "capturing"
  /\ End("failed")
  /\ UNCHANGED <<rec, rows, items, kept, put, pass, node, faults>>

MarkChunks ==
  /\ mark.pc = "chunks"
  /\ mark' = [mark EXCEPT !.pc = "save", !.preserved = AnySecured]
  /\ UNCHANGED <<controller, put, pass, node, faults>>

\* terminalRecordingStatus
TerminalStatus(status, end, preserved) ==
  IF status \in Secured THEN status
  ELSE IF end = "cancelled" THEN "completed"
  ELSE IF preserved THEN "partial" ELSE "failed"

MarkSave ==
  /\ mark.pc = "save"
  /\ rec' = TerminalStatus(rec, mark.end, mark.preserved)
  /\ mark' = NoMark
  /\ UNCHANGED <<job, rows, items, kept, put, pass, node, faults>>

MarkStep == MarkChunks \/ MarkSave

-----------------------------------------------------------------------------
(* The agent. *)

DeliveryStays == UNCHANGED <<rec, rows, items, kept, pass>>
AgentStays == DeliveryStays /\ UNCHANGED guessed
Save(status, up, pending, total) ==
  saved' = [status |-> status, up |-> up, pending |-> pending, total |-> total]

\* A chunk closes; the last one is the trailing chunk, which brings the total.
\* A chunk that cannot be rendered is left on disk and never sent.
CloseChunk ==
  /\ agent.pc = "capturing" /\ agent.next <= Chunks
  /\ LET k == agent.next
         last == k = Chunks IN
     /\ closed' = closed \cup {k}
     /\ local' = local \cup {k}
     /\ \/ agent' = [agent EXCEPT !.pc = "sending", !.chunk = k, !.next = k + 1, !.tries = 0,
                                  !.total = IF last THEN Chunks ELSE 0]
        \/ agent' = [agent EXCEPT !.pc = IF last THEN "finish" ELSE @, !.next = k + 1]
  /\ AgentStays /\ UNCHANGED <<job, put, mark, saved, faults>>

\* The capture ends on a chunk boundary: no trailing chunk brings the total.
CloseNothing ==
  /\ agent.pc = "capturing" /\ agent.next = Chunks
  /\ agent' = [agent EXCEPT !.pc = "finish"]
  /\ AgentStays /\ UNCHANGED <<job, put, mark, local, saved, closed, faults>>

\* Mutant of AfterSend: the file goes when its upload is given up.
AfterSendDropped(ok) == local \ {agent.chunk}

\* delete_chunk_working_files
AfterSend(ok) == IF ok THEN local \ {agent.chunk} ELSE local

\* The answer; a lost one counts as a failure.
Answer ==
  /\ agent.pc = "sending" /\ put.pc \in {"accepted", "refused"}
  /\ put' = NoPut
  /\ \E ok \in BOOLEAN :
       /\ ok => put.pc = "accepted"
       /\ put.pc = "accepted" /\ ~ok => faults < MaxFaults
       /\ faults' = IF put.pc = "accepted" /\ ~ok THEN faults + 1 ELSE faults
       /\ IF ~ok /\ agent.tries + 1 < Tries
          THEN agent' = [agent EXCEPT !.tries = @ + 1] /\ UNCHANGED <<local, saved>>
          ELSE LET k == agent.chunk
                   up == IF ok THEN agent.up + 1 ELSE agent.up
                   pending == IF ok THEN agent.pending ELSE agent.pending \cup {k} IN
               /\ agent' = [agent EXCEPT
                              !.pc = IF k = Chunks THEN "finish" ELSE "capturing",
                              !.up = up, !.pending = pending, !.told = ok /\ agent.total # 0]
               /\ local' = AfterSend(ok)
               /\ Save("running", up, pending, agent.total)
  /\ AgentStays /\ UNCHANGED <<job, mark, closed>>

\* chunked_finish_action, and finalize_undelivered_chunked_total.  Without a
\* trailing chunk the total is the number of chunks uploaded so far.
Finish ==
  /\ agent.pc = "finish"
  /\ LET total == IF agent.next > Chunks THEN Chunks ELSE agent.up
         action == IF agent.pending # {} THEN "partial" ELSE "completed" IN
     IF agent.pending # {} \/ agent.told
     THEN Save(action, agent.up, agent.pending, total) /\ UNCHANGED <<job, mark>>
     ELSE /\ Save(IF agent.up = 0 THEN "failed" ELSE "partial", agent.up, {}, total)
          /\ End("failed")
  /\ guessed' = guessed \cup IF agent.next <= Chunks /\ agent.pending # {}
                            THEN {"boundary"} ELSE {}
  /\ agent' = [Recorder EXCEPT !.pc = "done"]
  /\ DeliveryStays /\ UNCHANGED <<put, local, closed, faults>>

\* finish_partial_after_failure: the capture breaks off.
CaptureFails ==
  /\ agent.pc = "capturing"
  /\ IF agent.up = 0 /\ agent.pending = {}
     THEN Save("failed", 0, {}, 0) /\ End("failed")
     ELSE Save("partial", agent.up, agent.pending, 0) /\ UNCHANGED <<job, mark>>
  /\ agent' = [Recorder EXCEPT !.pc = "done"]
  /\ AgentStays /\ UNCHANGED <<put, local, closed, faults>>

\* The controller's stop: what is pending is forgotten.
Stop ==
  /\ agent.pc = "capturing"
  /\ End("cancelled")
  /\ Save("cancelled", agent.up, {}, 0)
  /\ agent' = [Recorder EXCEPT !.pc = "done"]
  /\ AgentStays /\ UNCHANGED <<put, local, closed, faults>>

\* The agent dies; what it sent is handled to the end, unanswered.
Crash ==
  /\ Fault
  /\ agent' = [Recorder EXCEPT !.pc = "down"]
  /\ guessed' = guessed \cup IF saved.total = 0 THEN {"crash"} ELSE {}
  /\ UNCHANGED <<controller, pass, put, mark, local, saved, closed>>

\* The answer that nobody waits for.
Unanswered ==
  /\ put.pc \in {"accepted", "refused"} /\ agent.pc \notin {"sending", "resending"}
  /\ put' = NoPut
  /\ UNCHANGED <<controller, pass, mark, node, faults>>

Highest(set) == CHOOSE k \in set : \A other \in set : other <= k
Larger(a, b) == IF a > b THEN a ELSE b

\* recovered_chunk_total: when the state does not know it, what was closed counts.
RecoveredTotal(state) ==
  IF state.total # 0 THEN state.total
  ELSE IF state.pending = {} THEN state.up
  ELSE Larger(Highest(state.pending), state.up + Cardinality(state.pending))

\* reconcile_previous_chunked_recording_job
Recover ==
  /\ agent.pc = "down" /\ put.pc = "idle" /\ saved.status \in {"running", "partial"}
  /\ agent' = [agent EXCEPT !.pc = "recovering", !.todo = saved.pending \cap local,
                            !.pending = {}, !.up = saved.up, !.total = RecoveredTotal(saved)]
  /\ AgentStays /\ UNCHANGED <<job, put, mark, local, saved, closed, faults>>

Resend ==
  /\ agent.pc = "recovering" /\ agent.todo # {}
  /\ agent' = [agent EXCEPT !.pc = "resending", !.chunk = CHOOSE k \in agent.todo : TRUE]
  /\ AgentStays /\ UNCHANGED <<job, put, mark, local, saved, closed, faults>>

Reanswer ==
  /\ agent.pc = "resending" /\ put.pc \in {"accepted", "refused"}
  /\ put' = NoPut
  /\ LET ok == put.pc = "accepted"
         k == agent.chunk IN
     /\ agent' = [agent EXCEPT !.pc = "recovering", !.todo = @ \ {k},
                               !.up = IF ok THEN @ + 1 ELSE @,
                               !.pending = IF ok THEN @ ELSE @ \cup {k}]
     /\ local' = AfterSend(ok)
  /\ AgentStays /\ UNCHANGED <<job, mark, saved, closed, faults>>

Recovered ==
  /\ agent.pc = "recovering" /\ agent.todo = {}
  /\ IF agent.up = 0 /\ agent.pending = {}
     THEN Save("failed", 0, {}, saved.total) /\ End("failed")
     ELSE /\ Save(IF agent.pending = {} THEN "completed" ELSE "partial",
                  agent.up, agent.pending, saved.total)
          /\ UNCHANGED <<job, mark>>
  /\ agent' = [Recorder EXCEPT !.pc = "done"]
  /\ AgentStays /\ UNCHANGED <<put, local, closed, faults>>

AgentStep == CloseChunk \/ Answer \/ Finish \/ Unanswered \/ Recover \/ Resend
             \/ Reanswer \/ Recovered

Next ==
  \/ PutStep \/ PassStep \/ MarkStep \/ AgentStep
  \/ CloseNothing \/ CaptureFails \/ Stop \/ Crash \/ Expire \/ RetryItem

Spec == Init /\ [][Next]_vars

\* Requests, passes and markings run to their end, and the agent goes on.
Fairness == WF_vars(PutStep) /\ WF_vars(PassStep) /\ WF_vars(MarkStep) /\ WF_vars(AgentStep)

-----------------------------------------------------------------------------
(* Properties. *)

\* A pass that lists the items of a captured recording after the last of them
\* settled, with no upload in flight, settles the recording.
ChunksReconciled ==
  /\ pass.pc = "work" /\ put.pc = "idle" /\ rec \in Secured
  /\ job \in Ended
  /\ \A k \in Chunk, d \in Dest : "queued" \notin items[k][d]
  /\ \A k \in Chunk : rows[k].status = "none" \/ \A d \in Dest : items[k][d] = {"succeeded"}
  ~> rec \in {"uploaded", "partial"} \/ put.pc # "idle"
=============================================================================
