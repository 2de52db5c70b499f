-------------------------- MODULE RecordingsProofs --------------------------
(***************************************************************************)
(* Proofs about one recording's row: what each handler's step does to the  *)
(* request slots, the row, its jobs and its audio (the ...Does operators,  *)
(* one for each action), the inductive invariant, and the properties of    *)
(* Recordings that follow from it for any number of requests and retries.  *)
(***************************************************************************)
EXTENDS Recordings, TLAPS

Pcs ==
  {"idle", "create", "find", "claim", "save", "scope", "store", "complete", "enqueue", "end",
   "exists", "chunks", "reread", "mark", "job", "transition", "file", "jobs", "items", "row",
   "settled", "release"}
Verdicts == {"none", "failed", "cancelled"}

\* TypeOK, but for the history.
Typed ==
  /\ row \in Row
  /\ file \in BOOLEAN
  /\ chunks \in BOOLEAN
  /\ items \subseteq {"due", "succeeded", "failed"}
  /\ Table!TypeOK
  /\ known \subseteq Job
  /\ acked \subseteq Job
  /\ skipped \subseteq Job
  /\ slot \in [Slot -> SlotState]

JobStatus == Table!Active \cup Table!Terminal \cup {"unborn", "absent"}

\* A request that is not waiting for anything names the job it is about.
Shapes ==
  \A s \in Slot :
    /\ slot[s].pc = "idle" <=> slot[s].op = "none"
    /\ slot[s].op \notin {"none", "stop", "delete", "runner"} => slot[s].job \in Job
    /\ slot[s].op = "start" => slot[s].job = 1
    /\ slot[s].op \in Uploads => slot[s].copy.status \notin {"unborn", "gone"}
    /\ slot[s].op = "chunk" => slot[s].pc \in {"scope", "store"}
    /\ slot[s].op = "runner" /\ slot[s].pc \in {"release", "save"}
         => slot[s].copy.status \in Secured
    /\ slot[s].op = "runner" <=> s = UploadRunner /\ slot[s].pc # "idle"

\* The request in a slot becomes another, or the next step of itself.
Becomes(s, op, pc, job, copy, verdict, flag) ==
  /\ slot' \in [Slot -> SlotState]
  /\ \A t \in Slot \ {s} : slot'[t] = slot[t]
  /\ slot'[s].op = op /\ slot'[s].pc = pc /\ slot'[s].job = job /\ slot'[s].copy = copy
  /\ slot'[s].verdict = verdict /\ slot'[s].flag = flag

Others == \A j \in Job \ {1} : jobs[j] = "unborn"
Held(s) == slot[s].op = "claimGroup" \/ (slot[s].op = "claim" /\ slot[s].pc = "save")
Marking == {"exists", "chunks", "reread", "mark"}

\* A job is held by the request that claimed it, then by the agent.
Holding ==
  /\ known \subseteq claimed /\ acked \subseteq known /\ claimed \subseteq Job
  /\ \A j \in claimed : jobs[j] \notin {"unborn", "queued"}
  /\ \A s \in Slot :
       slot[s].op \in Uploads \cup Reports \cup {"heartbeat"} => slot[s].job \in known
  /\ \A s \in Slot : Held(s) =>
       /\ slot[s].job \in claimed /\ slot[s].job \notin known
       /\ jobs[slot[s].job] \in {"running", "stop_requested", "absent"}
       /\ \A t \in Slot : Held(t) /\ slot[t].job = slot[s].job => s = t

\* Before its row there is nothing of a recording.
Unstarted ==
  row.status = "unborn" =>
    /\ \A s \in Slot : slot[s].pc = "idle"
    /\ \A j \in Job : jobs[j] = "unborn"
    /\ ~chunks /\ items = {}

\* Nothing is retried before the first job was handed out, and a retry has a job.
FirstJob ==
  /\ jobs[1] \in {"unborn", "queued"} \/ (\E s \in Slot : Held(s) /\ slot[s].job = 1) => Others
  /\ \A s \in Slot : slot[s].op = "retry" /\ slot[s].pc # "create" => ~Others

\* What no agent holds a job of has no audio.
Unsecured ==
  known = {} =>
    /\ row.status \notin Secured /\ ~chunks /\ items = {}
    /\ \A s \in Slot : slot[s].copy.status \notin Secured /\ ~slot[s].flag

\* While nothing failed and nothing was retried: what is still to end a recording.
Ends ==
  ~lost /\ Others =>
    /\ row.status = "recording" =>
         \/ jobs[1] \in Table!Active \cup {"absent"}
         \/ \E s \in Slot : slot[s].op = "start" /\ slot[s].pc = "create"
         \/ \E s \in Slot : slot[s].op \in Reports \cup {"expire"} /\ slot[s].pc \in Marking
    /\ \A s \in Slot : slot[s].op \in Uploads /\ slot[s].pc \in {"complete", "enqueue"}
         => row.status # "recording"
    /\ 1 \in acked => row.status # "recording"
    /\ \A s \in Slot : slot[s].op = "raw" => slot[s].copy.status # "recording"

\* A deletion on its own: what each of its phases has removed.
Clean == ~chunks /\ items = {} /\ \A j \in Job : jobs[j] \in {"unborn", "absent"}
Deletes ==
  ~met =>
    /\ row.status = "gone" => Clean /\ \A s \in Request : slot[s].pc = "idle"
    /\ \A s \in Slot : slot[s].op = "delete" =>
         /\ \A t \in Slot \ {s, UploadRunner} : slot[t].pc = "idle"
         /\ slot[s].pc \in {"jobs", "items", "row"} => ~chunks
         /\ slot[s].pc \in {"items", "row"} => \A j \in Job : jobs[j] \in {"unborn", "absent"}
         /\ slot[s].pc = "row" => items = {}

Idles(s) == Becomes(s, "none", "idle", 0, Gone, "none", FALSE)
Steps(s, pc, copy, verdict, flag) == Becomes(s, slot[s].op, pc, slot[s].job, copy, verdict, flag)
Opens(s, op, pc, j) == slot[s].pc = "idle" /\ Becomes(s, op, pc, j, row, "none", FALSE)
Goes(s, pc) == Steps(s, pc, slot[s].copy, slot[s].verdict, slot[s].flag)

\* One job moves, the others do not.
JobGoes(j, to) ==
  /\ jobs' \in [Job -> JobStatus]
  /\ jobs'[j] = to
  /\ \A k \in Job \ {j} : jobs'[k] = jobs[k]
JobsRest == jobs' = jobs /\ claimed' = claimed
RowRests == row' = row
DataRests == file' = file /\ chunks' = chunks /\ items' = items
AgentRests == known' = known /\ acked' = acked /\ skipped' = skipped


BeginStartDoes(s) ==
  /\ s \in Request /\ row = Unborn /\ Opens(s, "start", "create", 1)
  /\ row'.status = "recording" /\ JobsRest /\ DataRests /\ AgentRests

CreateJobDoes(s) ==
  /\ slot[s].op = "start" /\ slot[s].pc = "create" /\ Idles(s)
  /\ jobs[slot[s].job] = "unborn" /\ JobGoes(slot[s].job, "queued") /\ claimed' = claimed
  /\ RowRests /\ DataRests /\ AgentRests

BeginClaimGroupDoes(s) ==
  /\ s \in Request
  /\ \E j \in Job : /\ Opens(s, "claimGroup", "find", j) /\ j \notin claimed
                     /\ jobs[j] = "queued" /\ JobGoes(j, "running") /\ claimed' = claimed \cup {j}
  /\ RowRests /\ DataRests /\ AgentRests

ClaimFindDoes(s) ==
  /\ slot[s].op = "claimGroup" /\ slot[s].pc = "find"
  /\ \/ Steps(s, "save", row, slot[s].verdict, slot[s].flag) /\ known' = known
     \/ Idles(s) /\ known' = known \cup {slot[s].job}
  /\ acked' = acked /\ JobsRest /\ RowRests /\ DataRests

BeginClaimDoes(s) ==
  /\ s \in Request
  /\ \E j \in Job : Opens(s, "claim", "claim", j) /\ jobs[j] = "queued"
  /\ Exists /\ JobsRest /\ RowRests /\ DataRests /\ AgentRests

ClaimJobDoes(s) ==
  /\ slot[s].op = "claim" /\ slot[s].pc = "claim"
  /\ \/ /\ Goes(s, "save") /\ slot[s].job \notin claimed /\ jobs[slot[s].job] = "queued"
        /\ JobGoes(slot[s].job, "running") /\ claimed' = claimed \cup {slot[s].job}
     \/ Idles(s) /\ JobsRest
  /\ RowRests /\ DataRests /\ AgentRests

ClaimSaveDoes(s) ==
  /\ slot[s].op \in {"claimGroup", "claim"} /\ slot[s].pc = "save" /\ Idles(s)
  /\ row'.status = "recording" /\ known' = known \cup {slot[s].job} /\ acked' = acked
  /\ JobsRest /\ DataRests

BeginHeartbeatDoes(s) ==
  /\ s \in Request
  /\ \E j \in known : Opens(s, "heartbeat", "save", j) /\ jobs[j] = "running"
  /\ JobsRest /\ RowRests /\ DataRests /\ AgentRests

HeartbeatSaveDoes(s) ==
  /\ slot[s].op = "heartbeat" /\ slot[s].pc = "save" /\ Idles(s)
  /\ JobGoes(slot[s].job, "running") /\ claimed' = claimed
  /\ RowRests /\ DataRests /\ AgentRests

BeginUploadDoes(s) ==
  /\ s \in Request
  /\ \E op \in Uploads, j \in known : Opens(s, op, "scope", j) /\ (op = "raw" => j \in acked)
  /\ Exists /\ JobsRest /\ RowRests /\ DataRests /\ AgentRests

UploadScopeDoes(s) ==
  /\ slot[s].op \in Uploads /\ slot[s].pc = "scope"
  /\ Goes(s, "store") \/ Idles(s)
  /\ JobsRest /\ RowRests /\ DataRests /\ AgentRests

UploadStoreDoes(s) ==
  /\ slot[s].op \in Uploads /\ slot[s].pc = "store"
  /\ (slot[s].op # "chunk" /\ Goes(s, "save")) \/ Idles(s)
  /\ items' = items /\ JobsRest /\ RowRests /\ AgentRests

UploadSaveDoes(s) ==
  /\ slot[s].op \in Uploads /\ slot[s].pc = "save"
  /\ \/ slot[s].op = "raw" /\ row' = slot[s].copy /\ Idles(s)
     \/ row'.status \in Secured /\ Goes(s, "complete")
  /\ JobsRest /\ DataRests /\ AgentRests

UploadCompleteDoes(s) ==
  /\ slot[s].op \in Uploads /\ slot[s].pc = "complete" /\ Goes(s, "enqueue")
  /\ \/ /\ jobs[slot[s].job] \in Table!Active /\ JobGoes(slot[s].job, "completed")
        /\ claimed' = claimed
     \/ JobsRest
  /\ RowRests /\ DataRests /\ AgentRests

UploadEnqueueDoes(s) ==
  /\ slot[s].op \in Uploads /\ slot[s].pc = "enqueue" /\ Idles(s)
  /\ acked' = acked \cup {slot[s].job} /\ known' = known
  /\ file' = file /\ chunks' = chunks /\ JobsRest /\ RowRests

BeginReportDoes(s) ==
  /\ s \in Request
  /\ \E op \in Reports, j \in known : Opens(s, op, "end", j)
  /\ Exists /\ JobsRest /\ RowRests /\ DataRests /\ AgentRests

ReportEndDoes(s) ==
  /\ slot[s].op \in Reports /\ slot[s].pc = "end"
  /\ \E verdict \in {"failed", "cancelled"} :
       \/ /\ jobs[slot[s].job] \in Table!Active /\ JobGoes(slot[s].job, verdict)
          /\ claimed' = claimed /\ Steps(s, "chunks", slot[s].copy, verdict, slot[s].flag)
       \/ JobsRest /\ Steps(s, "chunks", slot[s].copy, verdict, slot[s].flag)
       \/ JobsRest /\ Idles(s)
  /\ RowRests /\ DataRests /\ AgentRests

BeginExpireDoes(s) ==
  /\ s \in Request /\ slot[s].pc = "idle"
  /\ \E j \in Job, verdict \in {"failed", "cancelled"} :
       /\ ~ClaimInFlight(j) /\ jobs[j] \in {"running", "stop_requested"} /\ JobGoes(j, verdict)
       /\ Becomes(s, "expire", "exists", j, Gone, verdict, FALSE)
  /\ claimed' = claimed /\ RowRests /\ DataRests /\ AgentRests

ExpireFindDoes(s) ==
  /\ slot[s].op = "expire" /\ slot[s].pc = "exists"
  /\ \/ Exists /\ Steps(s, "chunks", row, slot[s].verdict, slot[s].flag)
     \/ ~Exists /\ Idles(s)
  /\ JobsRest /\ RowRests /\ DataRests /\ AgentRests

MarkChunksDoes(s) ==
  /\ slot[s].op \in Reports \cup {"expire"} /\ slot[s].pc = "chunks"
  /\ Steps(s, "reread", slot[s].copy, slot[s].verdict, chunks)
  /\ JobsRest /\ RowRests /\ DataRests /\ AgentRests

MarkRereadDoes(s) ==
  /\ slot[s].op \in Reports \cup {"expire"} /\ slot[s].pc = "reread"
  /\ \E copy \in {row, slot[s].copy} : Steps(s, "mark", copy, slot[s].verdict, slot[s].flag)
  /\ JobsRest /\ RowRests /\ DataRests /\ AgentRests

MarkDoes(s) ==
  /\ slot[s].op \in Reports \cup {"expire"} /\ slot[s].pc = "mark" /\ Idles(s)
  /\ row'.status \in Secured \cup {"completed", "failed"}
  /\ slot[s].copy.status \in Secured => row'.status \in Secured
  /\ row'.status \in Secured => slot[s].copy.status \in Secured \/ slot[s].flag
  /\ JobsRest /\ DataRests /\ AgentRests

BeginStopDoes(s) ==
  /\ s \in Request /\ Opens(s, "stop", "job", 0)
  /\ Exists /\ JobsRest /\ RowRests /\ DataRests /\ AgentRests

StopJobDoes(s) ==
  /\ slot[s].op = "stop" /\ slot[s].pc = "job" /\ Goes(s, "transition")
  /\ \/ \E j \in Job : /\ jobs[j] \in Table!Stoppable /\ JobGoes(j, "stop_requested")
                        /\ claimed' = claimed
     \/ JobsRest
  /\ RowRests /\ DataRests /\ AgentRests

StopTransitionDoes(s) ==
  /\ slot[s].op = "stop" /\ slot[s].pc = "transition" /\ Idles(s)
  /\ RowRests \/ (row.status = "recording" /\ row'.status = "completed")
  /\ JobsRest /\ DataRests /\ AgentRests

BeginRetryDoes(s) ==
  /\ s \in Request
  /\ \E j \in Job : Opens(s, "retry", "create", j)
  /\ Exists /\ JobsRest /\ RowRests /\ DataRests /\ AgentRests

RetryCreateDoes(s) ==
  /\ slot[s].op = "retry" /\ slot[s].pc = "create"
  /\ \/ /\ jobs[slot[s].job] \in {"failed", "cancelled"} /\ Goes(s, "chunks")
        /\ \E j \in Job : jobs[j] = "unborn" /\ JobGoes(j, "queued")
        /\ claimed' = claimed
     \/ Idles(s) /\ JobsRest
  /\ RowRests /\ DataRests /\ AgentRests

RetrySaveDoes(s) ==
  /\ slot[s].op = "retry" /\ slot[s].pc = "save" /\ Idles(s)
  /\ row'.status = "recording" /\ JobsRest /\ DataRests /\ AgentRests

BeginDeleteDoes(s) ==
  /\ s \in Request /\ Opens(s, "delete", "file", 0)
  /\ Exists /\ JobsRest /\ RowRests /\ DataRests /\ AgentRests

DeleteFileDoes(s) ==
  /\ slot[s].op = "delete" /\ slot[s].pc = "file" /\ Goes(s, "chunks")
  /\ chunks' = chunks /\ items' = items /\ JobsRest /\ RowRests /\ AgentRests

PurgeChunksDoes(s) ==
  /\ slot[s].pc = "chunks" /\ chunks' = FALSE
  /\ \/ slot[s].op = "retry" /\ Goes(s, "items")
     \/ slot[s].op = "delete" /\ Goes(s, "jobs")
  /\ file' = file /\ items' = items /\ JobsRest /\ RowRests /\ AgentRests

DeleteJobsDoes(s) ==
  /\ slot[s].op = "delete" /\ slot[s].pc = "jobs" /\ Goes(s, "items")
  /\ jobs' \in [Job -> JobStatus] /\ claimed' = claimed
  /\ \A j \in Job : jobs'[j] = IF jobs[j] = "unborn" THEN "unborn" ELSE "absent"
  /\ RowRests /\ DataRests /\ AgentRests

PurgeItemsDoes(s) ==
  /\ slot[s].pc = "items" /\ items' = {}
  /\ \/ slot[s].op = "retry" /\ Goes(s, "save")
     \/ slot[s].op = "delete" /\ Goes(s, "row")
  /\ file' = file /\ chunks' = chunks /\ JobsRest /\ RowRests /\ AgentRests

DeleteRowDoes(s) ==
  /\ slot[s].op = "delete" /\ slot[s].pc = "row" /\ Idles(s)
  /\ row' = Gone \/ (~Exists /\ RowRests)
  /\ JobsRest /\ DataRests /\ AgentRests

RunnerAttemptDoes(s) ==
  /\ s = UploadRunner /\ slot[s].pc = "idle" /\ items # {}
  /\ Becomes(s, "runner", "settled", 0, Gone, "none", FALSE)
  /\ file' = file /\ chunks' = chunks /\ JobsRest /\ RowRests /\ AgentRests

RunnerSettledDoes(s) ==
  /\ slot[s].op = "runner" /\ slot[s].pc = "settled"
  /\ \/ /\ items # {}
        /\ \E flag \in BOOLEAN : Steps(s, "reread", slot[s].copy, slot[s].verdict, flag)
     \/ Idles(s)
  /\ JobsRest /\ RowRests /\ DataRests /\ AgentRests

RunnerRereadDoes(s) ==
  /\ slot[s].op = "runner" /\ slot[s].pc = "reread"
  /\ \/ row.status \in Secured /\ Steps(s, "release", row, slot[s].verdict, slot[s].flag)
     \/ Idles(s)
  /\ JobsRest /\ RowRests /\ DataRests /\ AgentRests

RunnerReleaseDoes(s) ==
  /\ slot[s].op = "runner" /\ slot[s].pc = "release"
  /\ \E copy \in Row : /\ copy.status = slot[s].copy.status
                        /\ Steps(s, "save", copy, slot[s].verdict, slot[s].flag)
  /\ chunks' = chunks /\ items' = items /\ JobsRest /\ RowRests /\ AgentRests

RunnerPromoteDoes(s) ==
  /\ slot[s].op = "runner" /\ slot[s].pc = "save" /\ Idles(s)
  /\ row'.status \in Secured /\ JobsRest /\ DataRests /\ AgentRests

StoreFailsDoes(s) ==
  /\ slot[s].pc # "idle" /\ Idles(s)
  /\ JobsRest /\ RowRests /\ DataRests /\ AgentRests

\* One request served, one step of it.
Doing(s) ==
  \/ BeginStartDoes(s)
  \/ CreateJobDoes(s)
  \/ BeginClaimGroupDoes(s)
  \/ ClaimFindDoes(s)
  \/ BeginClaimDoes(s)
  \/ ClaimJobDoes(s)
  \/ ClaimSaveDoes(s)
  \/ BeginHeartbeatDoes(s)
  \/ HeartbeatSaveDoes(s)
  \/ BeginUploadDoes(s)
  \/ UploadScopeDoes(s)
  \/ UploadStoreDoes(s)
  \/ UploadSaveDoes(s)
  \/ UploadCompleteDoes(s)
  \/ UploadEnqueueDoes(s)
  \/ BeginReportDoes(s)
  \/ ReportEndDoes(s)
  \/ BeginExpireDoes(s)
  \/ ExpireFindDoes(s)
  \/ MarkChunksDoes(s)
  \/ MarkRereadDoes(s)
  \/ MarkDoes(s)
  \/ BeginStopDoes(s)
  \/ StopJobDoes(s)
  \/ StopTransitionDoes(s)
  \/ BeginRetryDoes(s)
  \/ RetryCreateDoes(s)
  \/ RetrySaveDoes(s)
  \/ BeginDeleteDoes(s)
  \/ DeleteFileDoes(s)
  \/ PurgeChunksDoes(s)
  \/ DeleteJobsDoes(s)
  \/ PurgeItemsDoes(s)
  \/ DeleteRowDoes(s)
  \/ RunnerAttemptDoes(s)
  \/ RunnerSettledDoes(s)
  \/ RunnerRereadDoes(s)
  \/ RunnerReleaseDoes(s)
  \/ RunnerPromoteDoes(s)

LEMMA BecomeMoves ==
  ASSUME Typed, NEW s \in Slot, NEW q \in SlotState, Become(s, q)
  PROVE  Becomes(s, q.op, q.pc, q.job, q.copy, q.verdict, q.flag)
<1>1. slot' = [slot EXCEPT ![s] = q] /\ slot \in [Slot -> SlotState]
  BY DEF Become, Typed
<1>2. slot' \in [Slot -> SlotState] /\ slot'[s] = q /\ \A t \in Slot \ {s} : slot'[t] = slot[t]
  BY <1>1
<1> QED
  BY <1>2 DEF Becomes

LEMMA BeginMoves ==
  ASSUME Typed, NEW s, NEW op \in Ops, NEW j \in Job \cup {0}, NEW pc \in Pcs, Begin(s,
         op, j, pc)
  PROVE  /\ s \in Request /\ slot[s].pc = "idle"
         /\ Becomes(s, op, pc, j, row, "none", FALSE)
<1>1. s \in Slot /\ row \in Row
  BY DEF Begin, Slot, Typed
<1> DEFINE q == [Idle EXCEPT !.op = op, !.job = j, !.pc = pc, !.copy = row]
<1>2. /\ q.op = op /\ q.pc = pc /\ q.job = j /\ q.copy = row /\ q.verdict = "none"
      /\ q.flag = FALSE
      /\ q \in SlotState
  BY <1>1 DEF Idle, SlotState, Pcs, Gone, Row, Status
<1>3. Become(s, q)
  BY DEF Begin, Become
<1> HIDE DEF q
<1>4. Becomes(s, q.op, q.pc, q.job, q.copy, q.verdict, q.flag)
  BY <1>1, <1>2, <1>3, BecomeMoves
<1> QED
  BY <1>2, <1>4 DEF Begin

LEMMA FinishMoves ==
  ASSUME Typed, NEW s \in Slot, Finish(s)
  PROVE  Becomes(s, "none", "idle", 0, Gone, "none", FALSE)
<1>1. Idle \in SlotState /\ Idle.op = "none" /\ Idle.pc = "idle" /\ Idle.job = 0 /\ Idle.copy = Gone
        /\ Idle.verdict = "none" /\ Idle.flag = FALSE
  BY DEF Idle, SlotState, Ops, Gone, Row, Status
<1>2. Becomes(s, Idle.op, Idle.pc, Idle.job, Idle.copy, Idle.verdict, Idle.flag)
  BY <1>1, BecomeMoves DEF Finish
<1> QED
  BY <1>1, <1>2

LEMMA GotoMoves ==
  ASSUME Typed, NEW s \in Slot, NEW pc \in Pcs, Goto(s, pc)
  PROVE  Becomes(s, slot[s].op, pc, slot[s].job, slot[s].copy, slot[s].verdict, slot[s].flag)
<1> DEFINE x == slot[s]
           q == [x EXCEPT !.pc = pc]
<1>1. x \in SlotState
  BY DEF Typed
<1>2. /\ q \in SlotState /\ q.op = x.op /\ q.pc = pc /\ q.job = x.job /\ q.copy = x.copy
      /\ q.verdict = x.verdict /\ q.flag = x.flag
  <2> HIDE DEF x
  <2> QED
    BY <1>1 DEF SlotState, Pcs
<1>3. Become(s, q)
  BY DEF Goto
<1> HIDE DEF q
<1>4. Becomes(s, q.op, q.pc, q.job, q.copy, q.verdict, q.flag)
  BY <1>2, <1>3, BecomeMoves
<1> QED
  BY <1>2, <1>4

LEMMA CopyMoves ==
  ASSUME Typed, NEW s \in Slot, NEW pc \in Pcs, NEW copy \in Row,
         Become(s, [slot[s] EXCEPT !.pc = pc, !.copy = copy])
  PROVE  Becomes(s, slot[s].op, pc, slot[s].job, copy, slot[s].verdict, slot[s].flag)
<1> DEFINE x == slot[s]
           q == [x EXCEPT !.pc = pc, !.copy = copy]
<1>1. x \in SlotState
  BY DEF Typed
<1>2. /\ q \in SlotState /\ q.op = x.op /\ q.pc = pc /\ q.job = x.job /\ q.copy = copy
      /\ q.verdict = x.verdict /\ q.flag = x.flag
  <2> HIDE DEF x
  <2> QED
    BY <1>1 DEF SlotState, Pcs
<1> HIDE DEF q
<1>4. Becomes(s, q.op, q.pc, q.job, q.copy, q.verdict, q.flag)
  BY <1>2, BecomeMoves DEF q
<1> QED
  BY <1>2, <1>4

LEMMA VerdictMoves ==
  ASSUME Typed, NEW s \in Slot, NEW pc \in Pcs, NEW verdict \in Verdicts,
         Become(s, [slot[s] EXCEPT !.pc = pc, !.verdict = verdict])
  PROVE  Becomes(s, slot[s].op, pc, slot[s].job, slot[s].copy, verdict, slot[s].flag)
<1> DEFINE x == slot[s]
           q == [x EXCEPT !.pc = pc, !.verdict = verdict]
<1>1. x \in SlotState
  BY DEF Typed
<1>2. /\ q \in SlotState /\ q.op = x.op /\ q.pc = pc /\ q.job = x.job /\ q.copy = x.copy
      /\ q.verdict = verdict /\ q.flag = x.flag
  <2> HIDE DEF x
  <2> QED
    BY <1>1 DEF SlotState, Pcs, Verdicts
<1> HIDE DEF q
<1>4. Becomes(s, q.op, q.pc, q.job, q.copy, q.verdict, q.flag)
  BY <1>2, BecomeMoves DEF q
<1> QED
  BY <1>2, <1>4

LEMMA FlagMoves ==
  ASSUME Typed, NEW s \in Slot, NEW pc \in Pcs, NEW flag \in BOOLEAN,
         Become(s, [slot[s] EXCEPT !.pc = pc, !.flag = flag])
  PROVE  Becomes(s, slot[s].op, pc, slot[s].job, slot[s].copy, slot[s].verdict, flag)
<1> DEFINE x == slot[s]
           q == [x EXCEPT !.pc = pc, !.flag = flag]
<1>1. x \in SlotState
  BY DEF Typed
<1>2. /\ q \in SlotState /\ q.op = x.op /\ q.pc = pc /\ q.job = x.job /\ q.copy = x.copy
      /\ q.verdict = x.verdict /\ q.flag = flag
  <2> HIDE DEF x
  <2> QED
    BY <1>1 DEF SlotState, Pcs
<1> HIDE DEF q
<1>4. Becomes(s, q.op, q.pc, q.job, q.copy, q.verdict, q.flag)
  BY <1>2, BecomeMoves DEF q
<1> QED
  BY <1>2, <1>4

LEMMA JobMoves ==
  ASSUME Typed, NEW j \in Job
  PROVE  /\ Table!Queue(j) =>
              jobs[j] = "unborn" /\ JobGoes(j, "queued") /\ claimed' = claimed
                /\ Table!TypeOK'
         /\ Table!Claim(j) => /\ jobs[j] = "queued" /\ j \notin claimed /\ JobGoes(j, "running")
                              /\ claimed' = claimed \cup {j} /\ Table!TypeOK'
         /\ Table!Stop(j) => /\ jobs[j] \in Table!Stoppable /\ JobGoes(j, "stop_requested")
                             /\ claimed' = claimed /\ Table!TypeOK'
         /\ Table!Renew(j) => JobGoes(j, "running") /\ claimed' = claimed /\ Table!TypeOK'
         /\ \A to \in {"completed", "failed", "cancelled"} : Table!End(j, to) =>
              /\ jobs[j] \in Table!Active /\ JobGoes(j, to)
              /\ claimed' = claimed /\ Table!TypeOK'
BY DEF Typed, Table!TypeOK, JobGoes, JobStatus, Table!Queue, Table!Claim, Table!Stop,
   Table!Renew,
       Table!End, Table!Move, Table!Active, Table!Terminal, Table!Stoppable

LEMMA JobsStill ==
  ASSUME Typed, JobsStay
  PROVE  JobsRest /\ Table!TypeOK'
BY DEF Typed, Table!TypeOK, JobsStay, JobsRest

LEMMA RowEdited ==
  ASSUME NEW x \in Row, NEW st \in Status
  PROVE  [x EXCEPT !.status = st] \in Row /\ [x EXCEPT !.status = st].status = st
BY DEF Row

LEMMA BeginStartMoves ==
  ASSUME Typed, Shapes, 1 \in Job, NEW s \in Slot, BeginStart(s)
  PROVE  Typed' /\ BeginStartDoes(s)
<1>1. Begin(s, "start", 1, "create") /\ row = Unborn
        /\ row' = [status |-> "recording", cached |-> FALSE] /\ UNCHANGED <<data, agent>> /\ JobsStay
  BY DEF BeginStart
<1>2. s \in Request /\ slot[s].pc = "idle" /\ Becomes(s, "start", "create", 1, row, "none", FALSE)
  BY <1>1, BeginMoves DEF Ops, Pcs
<1>3. JobsRest /\ Table!TypeOK'
  BY <1>1, JobsStill
<1>4. row' \in Row /\ row'.status = "recording"
  BY <1>1 DEF Row, Status
<1> QED
  BY <1>1, <1>2, <1>3, <1>4 DEF Typed, Becomes, Opens, JobsRest, DataRests, AgentRests,
     data, agent, BeginStartDoes

LEMMA CreateJobMoves ==
  ASSUME Typed, Shapes, 1 \in Job, NEW s \in Slot, CreateJob(s)
  PROVE  Typed' /\ CreateJobDoes(s)
<1>1. slot[s].op = "start" /\ slot[s].pc = "create" /\ Table!Queue(slot[s].job) /\ Finish(s)
        /\ UNCHANGED <<row, data, agent>>
  BY DEF CreateJob, At
<1>2. slot[s].job \in Job /\ Idles(s)
  BY <1>1, FinishMoves DEF Shapes, Idles
<1>3. /\ jobs[slot[s].job] = "unborn" /\ JobGoes(slot[s].job, "queued")
      /\ claimed' = claimed
      /\ Table!TypeOK'
  BY <1>1, <1>2, JobMoves
<1> QED
  BY <1>1, <1>2, <1>3 DEF Typed, Idles, Becomes, RowRests, DataRests, AgentRests, data,
     agent, CreateJobDoes

LEMMA BeginClaimGroupMoves ==
  ASSUME Typed, Shapes, 1 \in Job, NEW s \in Slot, BeginClaimGroup(s)
  PROVE  Typed' /\ BeginClaimGroupDoes(s)
<1>1. PICK j \in Job : /\ Begin(s, "claimGroup", j, "find") /\ UNCHANGED <<row, data, agent>>
                       /\ Table!Claim(j)
  BY DEF BeginClaimGroup
<1>2. s \in Request /\ slot[s].pc = "idle" /\ Becomes(s, "claimGroup", "find", j, row, "none", FALSE)
  BY <1>1, BeginMoves DEF Typed, Ops, Pcs, Uploads, Reports
<1>3. jobs[j] = "queued" /\ j \notin claimed /\ JobGoes(j, "running")
        /\ claimed' = claimed \cup {j} /\ Table!TypeOK'
  BY <1>1, JobMoves DEF Doing
<1> QED
  BY <1>1, <1>2, <1>3 DEF Typed, Becomes, Opens, JobsRest, RowRests, DataRests,
     AgentRests, data, agent, BeginClaimGroupDoes

LEMMA ClaimFindMoves ==
  ASSUME Typed, Shapes, 1 \in Job, NEW s \in Slot, ClaimFind(s)
  PROVE  Typed' /\ ClaimFindDoes(s)
<1>1. slot[s].op = "claimGroup" /\ slot[s].pc = "find" /\ JobsStay
        /\ UNCHANGED <<row, data, acked, skipped>>
  BY DEF ClaimFind, At
<1>2. JobsRest /\ Table!TypeOK'
  BY <1>1, JobsStill
<1>3. \/ Steps(s, "save", row, slot[s].verdict, slot[s].flag) /\ known' = known
      \/ Idles(s) /\ known' = known \cup {slot[s].job}
  BY CopyMoves, FinishMoves DEF ClaimFind, Steps, Idles, Typed, Pcs
<1>4. slot[s].job \in Job
  BY <1>1 DEF Shapes
<1>5. slot' \in [Slot -> SlotState]
  BY <1>3 DEF Steps, Idles, Becomes
<1> QED
  BY <1>1, <1>2, <1>3, <1>4, <1>5 DEF Typed, RowRests, DataRests, data, ClaimFindDoes

LEMMA BeginClaimMoves ==
  ASSUME Typed, Shapes, 1 \in Job, NEW s \in Slot, BeginClaim(s)
  PROVE  Typed' /\ BeginClaimDoes(s)
<1>1. PICK j \in Job : /\ Begin(s, "claim", j, "claim") /\ UNCHANGED <<row, data, agent>>
                       /\ JobsStay /\ Exists /\ jobs[j] = "queued"
  BY DEF BeginClaim
<1>2. s \in Request /\ slot[s].pc = "idle" /\ Becomes(s, "claim", "claim", j, row, "none", FALSE)
  BY <1>1, BeginMoves DEF Typed, Ops, Pcs, Uploads, Reports
<1>3. JobsRest /\ Table!TypeOK'
  BY <1>1, JobsStill
<1> QED
  BY <1>1, <1>2, <1>3 DEF Typed, Becomes, Opens, JobsRest, RowRests, DataRests,
     AgentRests, data, agent, BeginClaimDoes

LEMMA ClaimJobMoves ==
  ASSUME Typed, Shapes, 1 \in Job, NEW s \in Slot, ClaimJob(s)
  PROVE  Typed' /\ ClaimJobDoes(s)
<1>1. slot[s].op = "claim" /\ slot[s].pc = "claim" /\ UNCHANGED <<row, data, agent>>
  BY DEF ClaimJob, At
<1>2. slot[s].job \in Job
  BY <1>1 DEF Shapes
<1>3. CASE Table!Claim(slot[s].job) /\ Goto(s, "save")
  <2>1. Goes(s, "save")
    BY <1>3, GotoMoves DEF Goes, Steps, Pcs
  <2>2. /\ slot[s].job \notin claimed /\ jobs[slot[s].job] = "queued"
        /\ JobGoes(slot[s].job, "running") /\ claimed' = claimed \cup {slot[s].job} /\ Table!TypeOK'
    BY <1>2, <1>3, JobMoves
  <2>3. slot' \in [Slot -> SlotState]
    BY <2>1 DEF Goes, Steps, Becomes
  <2> QED
    BY <1>1, <2>1, <2>2, <2>3 DEF Typed, RowRests, DataRests, AgentRests, data, agent,
       ClaimJobDoes
<1>4. CASE JobsStay /\ Finish(s)
  <2>1. Idles(s) /\ JobsRest /\ Table!TypeOK'
    BY <1>4, FinishMoves, JobsStill DEF Idles
  <2>2. slot' \in [Slot -> SlotState]
    BY <2>1 DEF Idles, Becomes
  <2> QED
    BY <1>1, <2>1, <2>2 DEF Typed, RowRests, DataRests, AgentRests, data, agent,
       ClaimJobDoes
<1> QED
  BY <1>3, <1>4 DEF ClaimJob

LEMMA ClaimSaveMoves ==
  ASSUME Typed, Shapes, 1 \in Job, NEW s \in Slot, ClaimSave(s)
  PROVE  Typed' /\ ClaimSaveDoes(s)
<1>1. slot[s].op \in {"claimGroup", "claim"} /\ slot[s].pc = "save" /\ Finish(s) /\ JobsStay
        /\ row' = [slot[s].copy EXCEPT !.status = "recording"]
        /\ known' = known \cup {slot[s].job} /\ UNCHANGED <<data, acked, skipped>>
  BY DEF ClaimSave, At
<1>2. JobsRest /\ Table!TypeOK'
  BY <1>1, JobsStill
<1>3. Idles(s)
  BY <1>1, FinishMoves DEF Idles
<1>4. slot[s].job \in Job /\ slot[s].copy \in Row
  BY <1>1 DEF Shapes, Typed, SlotState
<1>5. row' \in Row /\ row'.status = "recording"
  BY <1>1, <1>4, RowEdited DEF Status
<1> QED
  BY <1>1, <1>2, <1>3, <1>4, <1>5 DEF Typed, Idles, Becomes, DataRests, data, ClaimSaveDoes

LEMMA BeginHeartbeatMoves ==
  ASSUME Typed, Shapes, 1 \in Job, NEW s \in Slot, BeginHeartbeat(s)
  PROVE  Typed' /\ BeginHeartbeatDoes(s)
<1>1. PICK j \in known : /\ Begin(s, "heartbeat", j, "save") /\ UNCHANGED <<row, data, agent>>
                       /\ JobsStay /\ jobs[j] = "running"
  BY DEF BeginHeartbeat
<1>2. s \in Request /\ slot[s].pc = "idle" /\ Becomes(s, "heartbeat", "save", j, row, "none", FALSE)
  BY <1>1, BeginMoves DEF Typed, Ops, Pcs, Uploads, Reports
<1>3. JobsRest /\ Table!TypeOK'
  BY <1>1, JobsStill
<1> QED
  BY <1>1, <1>2, <1>3 DEF Typed, Becomes, Opens, JobsRest, RowRests, DataRests,
     AgentRests, data, agent, BeginHeartbeatDoes

LEMMA HeartbeatSaveMoves ==
  ASSUME Typed, Shapes, 1 \in Job, NEW s \in Slot, HeartbeatSave(s)
  PROVE  Typed' /\ HeartbeatSaveDoes(s)
<1>1. slot[s].op = "heartbeat" /\ slot[s].pc = "save" /\ UNCHANGED <<row, data, agent>>
  BY DEF HeartbeatSave, At
<1>2. Idles(s)
  BY FinishMoves DEF HeartbeatSave, Goes, Steps, Idles, Pcs
<1>3. slot[s].job \in Job /\ JobGoes(slot[s].job, "running") /\ claimed' = claimed /\ Table!TypeOK'
  BY <1>1, JobMoves DEF HeartbeatSave, Shapes, Uploads
<1>4. slot' \in [Slot -> SlotState]
  BY <1>2 DEF Goes, Steps, Idles, Becomes
<1> QED
  BY <1>1, <1>2, <1>3, <1>4 DEF Typed, RowRests, DataRests, AgentRests, data, agent,
     HeartbeatSaveDoes

LEMMA BeginUploadMoves ==
  ASSUME Typed, Shapes, 1 \in Job, NEW s \in Slot, BeginUpload(s)
  PROVE  Typed' /\ BeginUploadDoes(s)
<1>1. PICK op \in Uploads, j \in known : /\ Begin(s, op, j, "scope") /\ UNCHANGED <<row, data, agent>>
                                  /\ JobsStay /\ Exists /\ (op = "raw" => j \in acked)
  BY DEF BeginUpload
<1>2. s \in Request /\ slot[s].pc = "idle" /\ Becomes(s, op, "scope", j, row, "none", FALSE)
  BY <1>1, BeginMoves DEF Typed, Ops, Pcs, Uploads, Reports
<1>3. JobsRest /\ Table!TypeOK'
  BY <1>1, JobsStill
<1> QED
  BY <1>1, <1>2, <1>3 DEF Typed, Becomes, Opens, JobsRest, RowRests, DataRests,
     AgentRests, data, agent, BeginUploadDoes

LEMMA UploadScopeMoves ==
  ASSUME Typed, Shapes, 1 \in Job, NEW s \in Slot, UploadScope(s)
  PROVE  Typed' /\ UploadScopeDoes(s)
<1>1. slot[s].op \in Uploads /\ slot[s].pc = "scope" /\ UNCHANGED <<row, data, agent>>
  BY DEF UploadScope, At
<1>2. Goes(s, "store") \/ Idles(s)
  BY GotoMoves, FinishMoves DEF UploadScope, Goes, Steps, Idles, Pcs
<1>3. JobsRest /\ Table!TypeOK'
  BY JobsStill DEF UploadScope, Shapes, Uploads
<1>4. slot' \in [Slot -> SlotState]
  BY <1>2 DEF Goes, Steps, Idles, Becomes
<1> QED
  BY <1>1, <1>2, <1>3, <1>4 DEF Typed, RowRests, DataRests, AgentRests, data, agent,
     UploadScopeDoes

LEMMA UploadStoreMoves ==
  ASSUME Typed, Shapes, 1 \in Job, NEW s \in Slot, UploadStore(s)
  PROVE  Typed' /\ UploadStoreDoes(s)
<1>1. /\ slot[s].op \in Uploads /\ slot[s].pc = "store" /\ UNCHANGED <<row, items, agent>>
      /\ file' = (file \/ slot[s].op = "upload")
      /\ chunks' = (chunks \/ slot[s].op \in {"chunk", "lastChunk"})
  BY DEF UploadStore, At
<1>2. (slot[s].op # "chunk" /\ Goes(s, "save")) \/ Idles(s)
  BY GotoMoves, FinishMoves DEF UploadStore, Goes, Steps, Idles, Pcs
<1>3. JobsRest /\ Table!TypeOK'
  BY JobsStill DEF UploadStore, Shapes, Uploads
<1>4. slot' \in [Slot -> SlotState]
  BY <1>2 DEF Goes, Steps, Idles, Becomes
<1> QED
  BY <1>1, <1>2, <1>3, <1>4 DEF Typed, RowRests, DataRests, AgentRests, data, agent,
     UploadStoreDoes

LEMMA UploadSaveMoves ==
  ASSUME Typed, Shapes, 1 \in Job, NEW s \in Slot, UploadSave(s)
  PROVE  Typed' /\ UploadSaveDoes(s)
<1>1. slot[s].op \in Uploads /\ slot[s].pc = "save" /\ JobsStay /\ UNCHANGED <<data, agent>>
        /\ row' = WithAudio(slot[s].op, slot[s].copy)
        /\ (IF slot[s].op = "raw" THEN Finish(s) ELSE Goto(s, "complete"))
  BY DEF UploadSave, At
<1>2. JobsRest /\ Table!TypeOK'
  BY <1>1, JobsStill
<1>3. slot[s].copy \in Row
  BY DEF Typed, SlotState
<1>4. CASE slot[s].op = "raw"
  <2>1. row' = slot[s].copy /\ Idles(s)
    BY <1>1, <1>4, FinishMoves DEF WithAudio, Idles
  <2> QED
    BY <1>1, <1>2, <1>3, <1>4, <2>1 DEF Typed, Idles, Becomes, DataRests, AgentRests,
       data, agent, UploadSaveDoes
<1>5. CASE slot[s].op # "raw"
  <2>1. Goes(s, "complete")
    BY <1>1, <1>5, GotoMoves DEF Goes, Steps, Pcs
  <2>2. row' \in Row /\ row'.status \in Secured
    <3>1. slot[s].op \in {"upload", "lastChunk"}
      BY <1>1, <1>5 DEF Shapes, Uploads
    <3>2. CASE slot[s].op = "upload"
      <4>1. row' = [status |-> "cached", cached |-> TRUE]
        BY <1>1, <3>2 DEF WithAudio
      <4> QED
        BY <4>1 DEF Row, Status, Secured
    <3>3. CASE slot[s].op = "lastChunk"
      <4> DEFINE st == IF slot[s].copy.status \in {"uploaded", "partial"}
                       THEN slot[s].copy.status ELSE "cached"
      <4>1. row' = [status |-> st, cached |-> TRUE]
        BY <1>1, <3>3 DEF WithAudio
      <4>2. st \in Secured
        BY DEF Secured
      <4> HIDE DEF st
      <4> QED
        BY <4>1, <4>2 DEF Row, Status
    <3> QED
      BY <3>1, <3>2, <3>3
  <2> QED
    BY <1>1, <1>2, <2>1, <2>2 DEF Typed, Goes, Steps, Becomes, DataRests, AgentRests,
       data, agent, UploadSaveDoes
<1> QED
  BY <1>4, <1>5

LEMMA UploadCompleteMoves ==
  ASSUME Typed, Shapes, 1 \in Job, NEW s \in Slot, UploadComplete(s)
  PROVE  Typed' /\ UploadCompleteDoes(s)
<1>1. slot[s].op \in Uploads /\ slot[s].pc = "complete" /\ Goto(s, "enqueue") /\ UNCHANGED <<row, data, agent>>
  BY DEF UploadComplete, At
<1>2. Goes(s, "enqueue") /\ slot[s].job \in Job
  BY <1>1, GotoMoves DEF Goes, Steps, Pcs, Shapes, Uploads
<1>3. \/ /\ jobs[slot[s].job] \in Table!Active /\ JobGoes(slot[s].job, "completed")
         /\ claimed' = claimed /\ Table!TypeOK'
      \/ JobsRest /\ Table!TypeOK'
  BY <1>2, JobMoves, JobsStill DEF UploadComplete
<1>4. slot' \in [Slot -> SlotState]
  BY <1>2 DEF Goes, Steps, Becomes
<1> QED
  BY <1>1, <1>2, <1>3, <1>4 DEF Typed, RowRests, DataRests, AgentRests, data, agent,
     UploadCompleteDoes

LEMMA UploadEnqueueMoves ==
  ASSUME Typed, Shapes, 1 \in Job, NEW s \in Slot, UploadEnqueue(s)
  PROVE  Typed' /\ UploadEnqueueDoes(s)
<1>1. /\ slot[s].op \in Uploads /\ slot[s].pc = "enqueue" /\ Finish(s) /\ JobsStay
      /\ acked' = acked \cup {slot[s].job} /\ UNCHANGED <<row, file, chunks, known>>
      /\ items' \in {items, items \cup {"due"}}
      /\ skipped' \in {skipped, skipped \cup {slot[s].job}, skipped \ {slot[s].job}}
  BY DEF UploadEnqueue, Enqueued, At
<1>2. Idles(s) /\ JobsRest /\ Table!TypeOK' /\ slot[s].job \in Job
  BY <1>1, FinishMoves, JobsStill DEF Idles, Shapes, Uploads
<1>3. slot' \in [Slot -> SlotState]
  BY <1>2 DEF Idles, Becomes
<1> QED
  BY <1>1, <1>2, <1>3 DEF Typed, RowRests, UploadEnqueueDoes

LEMMA BeginReportMoves ==
  ASSUME Typed, Shapes, 1 \in Job, NEW s \in Slot, BeginReport(s)
  PROVE  Typed' /\ BeginReportDoes(s)
<1>1. PICK op \in Reports, j \in known : /\ Begin(s, op, j, "end") /\ UNCHANGED <<row, data, agent>>
                                  /\ JobsStay /\ Exists 
  BY DEF BeginReport
<1>2. s \in Request /\ slot[s].pc = "idle" /\ Becomes(s, op, "end", j, row, "none", FALSE)
  BY <1>1, BeginMoves DEF Typed, Ops, Pcs, Uploads, Reports
<1>3. JobsRest /\ Table!TypeOK'
  BY <1>1, JobsStill
<1> QED
  BY <1>1, <1>2, <1>3 DEF Typed, Becomes, Opens, JobsRest, RowRests, DataRests,
     AgentRests, data, agent, BeginReportDoes

LEMMA ReportEndMoves ==
  ASSUME Typed, Shapes, 1 \in Job, NEW s \in Slot, ReportEnd(s)
  PROVE  Typed' /\ ReportEndDoes(s)
<1> DEFINE verdict == Verdict(slot[s].op)
<1>1. slot[s].op \in Reports /\ slot[s].pc = "end" /\ UNCHANGED <<row, data, agent>>
        /\ slot[s].job \in Job /\ verdict \in {"failed", "cancelled"}
  BY DEF ReportEnd, At, Verdict, Shapes, Reports, Uploads
<1> DEFINE Marks == Become(s, [slot[s] EXCEPT !.pc = "chunks", !.verdict = verdict])
<1>2. \/ Table!End(slot[s].job, verdict) /\ Marks
      \/ JobsStay /\ Marks
      \/ JobsStay /\ Finish(s)
  BY DEF ReportEnd
<1> HIDE DEF verdict
<1>3. Marks => Steps(s, "chunks", slot[s].copy, verdict, slot[s].flag)
  BY <1>1, VerdictMoves DEF Steps, Pcs, Verdicts
<1>4. Finish(s) => Idles(s)
  BY FinishMoves DEF Idles
<1>5. Table!End(slot[s].job, verdict) =>
        /\ jobs[slot[s].job] \in Table!Active /\ JobGoes(slot[s].job, verdict)
        /\ claimed' = claimed /\ Table!TypeOK'
  BY <1>1, JobMoves DEF Doing
<1>6. Table!TypeOK' /\ slot' \in [Slot -> SlotState]
  BY <1>2, <1>3, <1>4, <1>5, JobsStill DEF Steps, Idles, Becomes
<1> HIDE DEF Marks
<1>7. \/ /\ jobs[slot[s].job] \in Table!Active /\ JobGoes(slot[s].job, verdict)
         /\ claimed' = claimed /\ Steps(s, "chunks", slot[s].copy, verdict, slot[s].flag)
      \/ JobsRest /\ Steps(s, "chunks", slot[s].copy, verdict, slot[s].flag)
      \/ JobsRest /\ Idles(s)
  BY <1>2, <1>3, <1>4, <1>5, JobsStill
<1> QED
  BY <1>1, <1>6, <1>7 DEF Typed, RowRests, DataRests, AgentRests, data, agent, ReportEndDoes

LEMMA BeginExpireMoves ==
  ASSUME Typed, Shapes, 1 \in Job, NEW s \in Slot, BeginExpire(s)
  PROVE  Typed' /\ BeginExpireDoes(s)
<1>1. PICK j \in Job :
        /\ ~ClaimInFlight(j) /\ jobs[j] \in {"running", "stop_requested"}
        /\ LET verdict == IF jobs[j] = "running" THEN "failed" ELSE "cancelled"
           IN Table!End(j, verdict) /\ s \in Request /\ slot[s].pc = "idle"
              /\ Become(s, [Idle EXCEPT !.op = "expire", !.job = j, !.pc = "exists",
                                        !.verdict = verdict])
        /\ UNCHANGED <<row, data, agent>>
  BY DEF BeginExpire
<1> DEFINE verdict == IF jobs[j] = "running" THEN "failed" ELSE "cancelled"
           q == [Idle EXCEPT !.op = "expire", !.job = j, !.pc = "exists", !.verdict = verdict]
<1>2. /\ Table!End(j, verdict) /\ s \in Request /\ slot[s].pc = "idle" /\ Become(s, q)
      /\ verdict \in {"failed", "cancelled"}
  BY <1>1
<1> HIDE DEF verdict
<1>3. /\ q.op = "expire" /\ q.pc = "exists" /\ q.job = j /\ q.copy = Gone
      /\ q.verdict = verdict
      /\ q.flag = FALSE /\ q \in SlotState
  BY <1>2 DEF Idle, SlotState, Ops, Gone, Row, Status
<1> HIDE DEF q
<1>4. Becomes(s, q.op, q.pc, q.job, q.copy, q.verdict, q.flag)
  BY <1>2, <1>3, BecomeMoves
<1>5. JobGoes(j, verdict) /\ claimed' = claimed /\ Table!TypeOK'
  BY <1>2, JobMoves DEF Doing
<1>6. Becomes(s, "expire", "exists", j, Gone, verdict, FALSE)
  BY <1>3, <1>4
<1>7. Typed'
  BY <1>1, <1>4, <1>5 DEF Typed, Becomes, data, agent
<1> QED
  BY <1>1, <1>2, <1>5, <1>6, <1>7 DEF RowRests, DataRests, AgentRests, data, agent,
     BeginExpireDoes

LEMMA ExpireFindMoves ==
  ASSUME Typed, Shapes, 1 \in Job, NEW s \in Slot, ExpireFind(s)
  PROVE  Typed' /\ ExpireFindDoes(s)
<1>1. slot[s].op = "expire" /\ slot[s].pc = "exists" /\ JobsStay
        /\ UNCHANGED <<row, data, agent>>
  BY DEF ExpireFind, At
<1>2. JobsRest /\ Table!TypeOK'
  BY <1>1, JobsStill
<1>3. \/ Exists /\ Steps(s, "chunks", row, slot[s].verdict, slot[s].flag)
      \/ ~Exists /\ Idles(s)
  BY <1>1, CopyMoves, FinishMoves DEF ExpireFind, Steps, Idles, Typed, Pcs, Verdicts
<1>4. slot' \in [Slot -> SlotState]
  BY <1>3 DEF Steps, Idles, Becomes
<1> QED
  BY <1>1, <1>2, <1>3, <1>4 DEF Typed, RowRests, DataRests, AgentRests, data, agent,
     ExpireFindDoes

LEMMA MarkChunksMoves ==
  ASSUME Typed, Shapes, 1 \in Job, NEW s \in Slot, MarkChunks(s)
  PROVE  Typed' /\ MarkChunksDoes(s)
<1>1. slot[s].op \in Reports \cup {"expire"} /\ slot[s].pc = "chunks" /\ JobsStay
        /\ UNCHANGED <<row, data, agent>>
  BY DEF MarkChunks, At
<1>2. JobsRest /\ Table!TypeOK'
  BY <1>1, JobsStill
<1>3. Steps(s, "reread", slot[s].copy, slot[s].verdict, chunks)
  BY <1>1, FlagMoves DEF MarkChunks, Steps, Idles, Typed, Pcs, Verdicts
<1>4. slot' \in [Slot -> SlotState]
  BY <1>3 DEF Steps, Idles, Becomes
<1> QED
  BY <1>1, <1>2, <1>3, <1>4 DEF Typed, RowRests, DataRests, AgentRests, data, agent,
     MarkChunksDoes

LEMMA MarkRereadMoves ==
  ASSUME Typed, Shapes, 1 \in Job, NEW s \in Slot, MarkReread(s)
  PROVE  Typed' /\ MarkRereadDoes(s)
<1>1. slot[s].op \in Reports \cup {"expire"} /\ slot[s].pc = "reread" /\ JobsStay
        /\ UNCHANGED <<row, data, agent>>
  BY DEF MarkReread, At
<1>2. JobsRest /\ Table!TypeOK'
  BY <1>1, JobsStill
<1> DEFINE x == slot[s]
           copy == IF Exists THEN row ELSE x.copy
           q == [x EXCEPT !.pc = "mark", !.copy = IF Exists THEN row ELSE @]
<1>3. x \in SlotState /\ row \in Row /\ Become(s, q)
  BY DEF Typed, MarkReread
<1> HIDE DEF x
<1>4. /\ q.op = x.op /\ q.pc = "mark" /\ q.job = x.job /\ q.copy = copy
      /\ q.verdict = x.verdict
      /\ q.flag = x.flag /\ q \in SlotState
  BY <1>3 DEF SlotState
<1> HIDE DEF q
<1>5. Becomes(s, x.op, "mark", x.job, copy, x.verdict, x.flag)
  BY <1>3, <1>4, BecomeMoves
<1>6. copy \in {row, slot[s].copy} /\ Steps(s, "mark", copy, slot[s].verdict, slot[s].flag)
  BY <1>5 DEF Steps, x
<1>7. Typed'
  BY <1>1, <1>2, <1>5 DEF Typed, Becomes, data, agent
<1> QED
  BY <1>1, <1>2, <1>6, <1>7 DEF RowRests, DataRests, AgentRests, data, agent, MarkRereadDoes

LEMMA MarkMoves ==
  ASSUME Typed, Shapes, 1 \in Job, NEW s \in Slot, Mark(s)
  PROVE  Typed' /\ MarkDoes(s)
<1> DEFINE x == slot[s].copy
           st == TerminalStatus(x.status, slot[s].verdict, slot[s].flag)
<1>1. slot[s].op \in Reports \cup {"expire"} /\ slot[s].pc = "mark" /\ Finish(s) /\ JobsStay
        /\ row' = [x EXCEPT !.status = TerminalStatus(@, slot[s].verdict, slot[s].flag)]
        /\ UNCHANGED <<data, agent>>
  BY DEF Mark, At
<1>2. JobsRest /\ Table!TypeOK' /\ Idles(s)
  BY <1>1, JobsStill, FinishMoves DEF Idles
<1>3. x \in Row /\ slot[s].flag \in BOOLEAN
  BY DEF Typed, SlotState
<1>4. /\ st \in Secured \cup {"completed", "failed"}
      /\ x.status \in Secured => st \in Secured
      /\ st \in Secured => x.status \in Secured \/ slot[s].flag
  BY <1>3 DEF TerminalStatus, Secured
<1>5. row' = [x EXCEPT !.status = st]
  BY <1>1
<1> HIDE DEF st
<1>6. row' \in Row /\ row'.status = st
  BY <1>3, <1>4, <1>5, RowEdited DEF Status, Secured
<1> QED
  BY <1>1, <1>2, <1>4, <1>6 DEF Typed, Idles, Becomes, DataRests, AgentRests, data, agent,
     MarkDoes

LEMMA BeginStopMoves ==
  ASSUME Typed, Shapes, 1 \in Job, NEW s \in Slot, BeginStop(s)
  PROVE  Typed' /\ BeginStopDoes(s)
<1>1. Begin(s, "stop", 0, "job") /\ UNCHANGED <<row, data, agent>> /\ JobsStay /\ Exists
  BY DEF BeginStop
<1>2. s \in Request /\ slot[s].pc = "idle" /\ Becomes(s, "stop", "job", 0, row, "none", FALSE)
  BY <1>1, BeginMoves DEF Typed, Ops, Pcs, Uploads, Reports
<1>3. JobsRest /\ Table!TypeOK'
  BY <1>1, JobsStill
<1> QED
  BY <1>1, <1>2, <1>3 DEF Typed, Becomes, Opens, JobsRest, RowRests, DataRests,
     AgentRests, data, agent, BeginStopDoes

LEMMA StopJobMoves ==
  ASSUME Typed, Shapes, 1 \in Job, NEW s \in Slot, StopJob(s)
  PROVE  Typed' /\ StopJobDoes(s)
<1>1. slot[s].op = "stop" /\ slot[s].pc = "job" /\ Goto(s, "transition")
        /\ UNCHANGED <<row, data, agent>>
  BY DEF StopJob, At
<1>2. Goes(s, "transition")
  BY <1>1, GotoMoves DEF Goes, Steps, Pcs
<1>3. \/ /\ \E j \in Job : /\ jobs[j] \in Table!Stoppable /\ JobGoes(j, "stop_requested")
                           /\ claimed' = claimed
         /\ Table!TypeOK'
      \/ JobsRest /\ Table!TypeOK'
  BY JobMoves, JobsStill DEF StopJob
<1>4. slot' \in [Slot -> SlotState]
  BY <1>2 DEF Goes, Steps, Becomes
<1> QED
  BY <1>1, <1>2, <1>3, <1>4 DEF Typed, RowRests, DataRests, AgentRests, data, agent,
     StopJobDoes

LEMMA StopTransitionMoves ==
  ASSUME Typed, Shapes, 1 \in Job, NEW s \in Slot, StopTransition(s)
  PROVE  Typed' /\ StopTransitionDoes(s)
<1>1. slot[s].op = "stop" /\ slot[s].pc = "transition" /\ Finish(s) /\ JobsStay
        /\ row' = (IF row.status = "recording"
                   THEN [slot[s].copy EXCEPT !.status = "completed"] ELSE row)
        /\ UNCHANGED <<data, agent>>
  BY DEF StopTransition, At
<1>2. JobsRest /\ Table!TypeOK' /\ Idles(s)
  BY <1>1, JobsStill, FinishMoves DEF Idles
<1>3. slot[s].copy \in Row /\ row \in Row
  BY DEF Typed, SlotState
<1>4. row' \in Row /\ (row' = row \/ (row.status = "recording" /\ row'.status = "completed"))
  BY <1>1, <1>3, RowEdited DEF Status
<1> QED
  BY <1>1, <1>2, <1>4 DEF Typed, Idles, Becomes, RowRests, DataRests, AgentRests, data,
     agent, StopTransitionDoes

LEMMA BeginRetryMoves ==
  ASSUME Typed, Shapes, 1 \in Job, NEW s \in Slot, BeginRetry(s)
  PROVE  Typed' /\ BeginRetryDoes(s)
<1>1. PICK j \in Job : /\ Begin(s, "retry", j, "create") /\ UNCHANGED <<row, data, agent>>
                       /\ JobsStay /\ Exists
  BY DEF BeginRetry
<1>2. s \in Request /\ slot[s].pc = "idle" /\ Becomes(s, "retry", "create", j, row, "none", FALSE)
  BY <1>1, BeginMoves DEF Typed, Ops, Pcs, Uploads, Reports
<1>3. JobsRest /\ Table!TypeOK'
  BY <1>1, JobsStill
<1> QED
  BY <1>1, <1>2, <1>3 DEF Typed, Becomes, Opens, JobsRest, RowRests, DataRests,
     AgentRests, data, agent, BeginRetryDoes

LEMMA RetryCreateMoves ==
  ASSUME Typed, Shapes, 1 \in Job, NEW s \in Slot, RetryCreate(s)
  PROVE  Typed' /\ RetryCreateDoes(s)
<1>1. slot[s].op = "retry" /\ slot[s].pc = "create" /\ UNCHANGED <<row, data, agent>>
  BY DEF RetryCreate, At
<1>2. CASE /\ jobs[slot[s].job] \in {"failed", "cancelled"} /\ Goto(s, "chunks")
           /\ \E j \in Job : Table!Queue(j)
  <2>1. Goes(s, "chunks")
    BY <1>2, GotoMoves DEF Goes, Steps, Pcs
  <2>2. /\ \E j \in Job : jobs[j] = "unborn" /\ JobGoes(j, "queued")
        /\ claimed' = claimed /\ Table!TypeOK'
    BY <1>2, JobMoves
  <2>3. slot' \in [Slot -> SlotState]
    BY <2>1 DEF Goes, Steps, Becomes
  <2> QED
    BY <1>1, <1>2, <2>1, <2>2, <2>3 DEF Typed, RowRests, DataRests, AgentRests, data,
       agent, RetryCreateDoes
<1>3. CASE Finish(s) /\ JobsStay
  <2>1. Idles(s) /\ JobsRest /\ Table!TypeOK'
    BY <1>3, FinishMoves, JobsStill DEF Idles
  <2>2. slot' \in [Slot -> SlotState]
    BY <2>1 DEF Idles, Becomes
  <2> QED
    BY <1>1, <2>1, <2>2 DEF Typed, RowRests, DataRests, AgentRests, data, agent,
       RetryCreateDoes
<1> QED
  BY <1>2, <1>3 DEF RetryCreate

LEMMA RetrySaveMoves ==
  ASSUME Typed, Shapes, 1 \in Job, NEW s \in Slot, RetrySave(s)
  PROVE  Typed' /\ RetrySaveDoes(s)
<1>1. /\ slot[s].op = "retry" /\ slot[s].pc = "save" /\ Finish(s) /\ JobsStay
      /\ row' = [status |-> "recording", cached |-> FALSE] /\ UNCHANGED <<data, agent>>
  BY DEF RetrySave, At
<1>2. Idles(s) /\ JobsRest /\ Table!TypeOK'
  BY <1>1, FinishMoves, JobsStill DEF Idles
<1>3. row' \in Row /\ row'.status = "recording"
  BY <1>1 DEF Row, Status
<1>4. slot' \in [Slot -> SlotState]
  BY <1>2 DEF Idles, Becomes
<1> QED
  BY <1>1, <1>2, <1>3, <1>4 DEF Typed, DataRests, AgentRests, data, agent, RetrySaveDoes

LEMMA BeginDeleteMoves ==
  ASSUME Typed, Shapes, 1 \in Job, NEW s \in Slot, BeginDelete(s)
  PROVE  Typed' /\ BeginDeleteDoes(s)
<1>1. Begin(s, "delete", 0, "file") /\ UNCHANGED <<row, data, agent>> /\ JobsStay /\ Exists
  BY DEF BeginDelete
<1>2. s \in Request /\ slot[s].pc = "idle" /\ Becomes(s, "delete", "file", 0, row, "none", FALSE)
  BY <1>1, BeginMoves DEF Typed, Ops, Pcs, Uploads, Reports
<1>3. JobsRest /\ Table!TypeOK'
  BY <1>1, JobsStill
<1> QED
  BY <1>1, <1>2, <1>3 DEF Typed, Becomes, Opens, JobsRest, RowRests, DataRests,
     AgentRests, data, agent, BeginDeleteDoes

LEMMA DeleteFileMoves ==
  ASSUME Typed, Shapes, 1 \in Job, NEW s \in Slot, DeleteFile(s)
  PROVE  Typed' /\ DeleteFileDoes(s)
<1>1. /\ slot[s].op = "delete" /\ slot[s].pc = "file"
      /\ UNCHANGED <<row, chunks, items, agent>>
      /\ file' = (file /\ ~slot[s].copy.cached)
  BY DEF DeleteFile, At
<1>2. Goes(s, "chunks")
  BY GotoMoves DEF DeleteFile, Goes, Steps, Idles, Pcs
<1>3. JobsRest /\ Table!TypeOK'
  BY JobsStill DEF DeleteFile, Shapes, Uploads
<1>4. slot' \in [Slot -> SlotState]
  BY <1>2 DEF Goes, Steps, Idles, Becomes
<1> QED
  BY <1>1, <1>2, <1>3, <1>4 DEF Typed, RowRests, AgentRests, data, agent, DeleteFileDoes

LEMMA PurgeChunksMoves ==
  ASSUME Typed, Shapes, 1 \in Job, NEW s \in Slot, PurgeChunks(s)
  PROVE  Typed' /\ PurgeChunksDoes(s)
<1>1. /\ slot[s].pc = "chunks" /\ chunks' = FALSE /\ UNCHANGED <<row, file, items, agent>>
  BY DEF PurgeChunks, At
<1>2. \/ slot[s].op = "retry" /\ Goes(s, "items")
      \/ slot[s].op = "delete" /\ Goes(s, "jobs")
  BY GotoMoves DEF PurgeChunks, At, Goes, Steps, Idles, Pcs
<1>3. JobsRest /\ Table!TypeOK'
  BY JobsStill DEF PurgeChunks, Shapes, Uploads
<1>4. slot' \in [Slot -> SlotState]
  BY <1>2 DEF Goes, Steps, Idles, Becomes
<1> QED
  BY <1>1, <1>2, <1>3, <1>4 DEF Typed, RowRests, AgentRests, data, agent, PurgeChunksDoes

LEMMA DeleteJobsMoves ==
  ASSUME Typed, Shapes, 1 \in Job, NEW s \in Slot, DeleteJobs(s)
  PROVE  Typed' /\ DeleteJobsDoes(s)
<1>1. slot[s].op = "delete" /\ slot[s].pc = "jobs" /\ Goto(s, "items")
        /\ UNCHANGED <<row, data, agent>>
        /\ Table!Remove({j \in Job : jobs[j] # "unborn"})
  BY DEF DeleteJobs, At
<1>2. Goes(s, "items")
  BY <1>1, GotoMoves DEF Goes, Steps, Pcs
<1>3. /\ jobs' \in [Job -> JobStatus] /\ claimed' = claimed /\ Table!TypeOK'
      /\ \A j \in Job : jobs'[j] = IF jobs[j] = "unborn" THEN "unborn" ELSE "absent"
  BY <1>1 DEF Table!Remove, Typed, Table!TypeOK, JobStatus
<1> QED
  BY <1>1, <1>2, <1>3 DEF Typed, Goes, Steps, Becomes, RowRests, DataRests, AgentRests,
     data, agent, DeleteJobsDoes

LEMMA PurgeItemsMoves ==
  ASSUME Typed, Shapes, 1 \in Job, NEW s \in Slot, PurgeItems(s)
  PROVE  Typed' /\ PurgeItemsDoes(s)
<1>1. /\ slot[s].pc = "items" /\ items' = {} /\ UNCHANGED <<row, file, chunks, agent>>
  BY DEF PurgeItems, At
<1>2. \/ slot[s].op = "retry" /\ Goes(s, "save")
      \/ slot[s].op = "delete" /\ Goes(s, "row")
  BY GotoMoves DEF PurgeItems, At, Goes, Steps, Idles, Pcs
<1>3. JobsRest /\ Table!TypeOK'
  BY JobsStill DEF PurgeItems, Shapes, Uploads
<1>4. slot' \in [Slot -> SlotState]
  BY <1>2 DEF Goes, Steps, Idles, Becomes
<1> QED
  BY <1>1, <1>2, <1>3, <1>4 DEF Typed, RowRests, AgentRests, data, agent, PurgeItemsDoes

LEMMA DeleteRowMoves ==
  ASSUME Typed, Shapes, 1 \in Job, NEW s \in Slot, DeleteRow(s)
  PROVE  Typed' /\ DeleteRowDoes(s)
<1>1. slot[s].op = "delete" /\ slot[s].pc = "row" /\ Finish(s) /\ JobsStay
        /\ row' = (IF Exists THEN Gone ELSE row) /\ UNCHANGED <<data, agent>>
  BY DEF DeleteRow, At
<1>2. JobsRest /\ Table!TypeOK' /\ Idles(s)
  BY <1>1, JobsStill, FinishMoves DEF Idles
<1>3. row' \in Row
  BY <1>1 DEF Typed, Gone, Row, Status
<1> QED
  BY <1>1, <1>2, <1>3 DEF Typed, Idles, Becomes, RowRests, DataRests, AgentRests, data,
     agent, DeleteRowDoes

LEMMA RunnerAttemptMoves ==
  ASSUME Typed, Shapes, 1 \in Job, NEW s \in Slot, RunnerAttempt(s)
  PROVE  Typed' /\ RunnerAttemptDoes(s)
<1> DEFINE q == [Idle EXCEPT !.op = "runner", !.pc = "settled"]
<1>1. s = UploadRunner /\ slot[s].pc = "idle" /\ Become(s, q) /\ JobsStay
        /\ UNCHANGED <<row, file, chunks, agent>>
  BY DEF RunnerAttempt
<1>2. items # {} /\ items' \subseteq {"due", "succeeded", "failed"}
  BY DEF RunnerAttempt, Typed
<1>3. /\ q.op = "runner" /\ q.pc = "settled" /\ q.job = 0 /\ q.copy = Gone
      /\ q.verdict = "none"
      /\ q.flag = FALSE /\ q \in SlotState
  BY DEF Idle, SlotState, Ops, Gone, Row, Status
<1> HIDE DEF q
<1>4. Becomes(s, q.op, q.pc, q.job, q.copy, q.verdict, q.flag)
  BY <1>1, <1>3, BecomeMoves
<1>5. JobsRest /\ Table!TypeOK'
  BY <1>1, JobsStill
<1>6. Becomes(s, "runner", "settled", 0, Gone, "none", FALSE)
  BY <1>3, <1>4
<1> QED
  BY <1>1, <1>2, <1>5, <1>6 DEF Typed, Becomes, RowRests, AgentRests, agent,
     RunnerAttemptDoes

LEMMA RunnerSettledMoves ==
  ASSUME Typed, Shapes, 1 \in Job, NEW s \in Slot, RunnerSettled(s)
  PROVE  Typed' /\ RunnerSettledDoes(s)
<1> DEFINE flag == "failed" \in items
<1>1. slot[s].op = "runner" /\ slot[s].pc = "settled" /\ JobsStay
        /\ UNCHANGED <<row, data, agent>>
  BY DEF RunnerSettled, At
<1>2. JobsRest /\ Table!TypeOK'
  BY <1>1, JobsStill
<1>3. \/ items # {} /\ Become(s, [slot[s] EXCEPT !.pc = "reread", !.flag = flag])
      \/ Finish(s)
  BY DEF RunnerSettled
<1>4. flag \in BOOLEAN
  OBVIOUS
<1> HIDE DEF flag
<1>5. \/ items # {} /\ Steps(s, "reread", slot[s].copy, slot[s].verdict, flag)
      \/ Idles(s)
  BY <1>3, <1>4, FlagMoves, FinishMoves DEF Steps, Idles, Pcs
<1>6. slot' \in [Slot -> SlotState]
  BY <1>5 DEF Steps, Idles, Becomes
<1> QED
  BY <1>1, <1>2, <1>4, <1>5, <1>6 DEF Typed, RowRests, DataRests, AgentRests, data, agent,
     RunnerSettledDoes

LEMMA RunnerRereadMoves ==
  ASSUME Typed, Shapes, 1 \in Job, NEW s \in Slot, RunnerReread(s)
  PROVE  Typed' /\ RunnerRereadDoes(s)
<1>1. slot[s].op = "runner" /\ slot[s].pc = "reread" /\ JobsStay
        /\ UNCHANGED <<row, data, agent>>
  BY DEF RunnerReread, At
<1>2. JobsRest /\ Table!TypeOK'
  BY <1>1, JobsStill
<1>3. \/ row.status \in Secured /\ Steps(s, "release", row, slot[s].verdict, slot[s].flag)
      \/ Idles(s)
  BY <1>1, CopyMoves, FinishMoves DEF RunnerReread, Steps, Idles, Typed, Pcs, Verdicts
<1>4. slot' \in [Slot -> SlotState]
  BY <1>3 DEF Steps, Idles, Becomes
<1> QED
  BY <1>1, <1>2, <1>3, <1>4 DEF Typed, RowRests, DataRests, AgentRests, data, agent,
     RunnerRereadDoes

LEMMA RunnerReleaseMoves ==
  ASSUME Typed, Shapes, 1 \in Job, NEW s \in Slot, RunnerRelease(s)
  PROVE  Typed' /\ RunnerReleaseDoes(s)
<1>1. slot[s].op = "runner" /\ slot[s].pc = "release" /\ JobsStay
        /\ UNCHANGED <<row, chunks, items, agent>>
  BY DEF RunnerRelease, At
<1> DEFINE x == slot[s]
<1>2. PICK release \in BOOLEAN : /\ file' = (file /\ ~release)
                                 /\ Become(s, [x EXCEPT !.pc = "save", !.copy.cached = @ /\ ~release])
  BY DEF RunnerRelease
<1> DEFINE q == [x EXCEPT !.pc = "save", !.copy.cached = @ /\ ~release]
<1>3. x \in SlotState
  BY DEF Typed
<1> HIDE DEF x
<1>4. /\ q.op = x.op /\ q.pc = "save" /\ q.job = x.job /\ q.copy \in Row
      /\ q.copy.status = x.copy.status /\ q.verdict = x.verdict /\ q.flag = x.flag /\ q \in SlotState
  BY <1>2, <1>3 DEF SlotState, Row
<1> HIDE DEF q
<1>5. Becomes(s, q.op, q.pc, q.job, q.copy, q.verdict, q.flag)
  BY <1>2, <1>4, BecomeMoves DEF q
<1>6. \E copy \in Row : /\ copy.status = slot[s].copy.status
                        /\ Steps(s, "save", copy, slot[s].verdict, slot[s].flag)
  BY <1>4, <1>5 DEF Steps, x
<1>7. JobsRest /\ Table!TypeOK' /\ slot' \in [Slot -> SlotState] /\ file' \in BOOLEAN
  BY <1>1, <1>2, <1>5, JobsStill DEF Becomes, Typed
<1> QED
  BY <1>1, <1>6, <1>7 DEF Typed, RowRests, AgentRests, agent, RunnerReleaseDoes

LEMMA RunnerPromoteMoves ==
  ASSUME Typed, Shapes, 1 \in Job, NEW s \in Slot, RunnerPromote(s)
  PROVE  Typed' /\ RunnerPromoteDoes(s)
<1> DEFINE x == slot[s].copy
           st == IF slot[s].flag THEN "partial" ELSE "uploaded"
<1>1. slot[s].op = "runner" /\ slot[s].pc = "save" /\ Finish(s) /\ JobsStay
        /\ row' = [x EXCEPT !.status = st] /\ UNCHANGED <<data, agent>>
  BY DEF RunnerPromote, At
<1>2. JobsRest /\ Table!TypeOK' /\ Idles(s)
  BY <1>1, JobsStill, FinishMoves DEF Idles
<1>3. x \in Row /\ st \in Secured
  BY DEF Typed, SlotState, Secured
<1> HIDE DEF st
<1>4. row' \in Row /\ row'.status \in Secured
  BY <1>1, <1>3, RowEdited DEF Status, Secured
<1> QED
  BY <1>1, <1>2, <1>4 DEF Typed, Idles, Becomes, DataRests, AgentRests, data, agent,
     RunnerPromoteDoes

LEMMA StoreFailsMoves ==
  ASSUME Typed, Shapes, 1 \in Job, NEW s \in Slot, StoreFails(s)
  PROVE  Typed' /\ StoreFailsDoes(s)
<1>1. slot[s].pc # "idle" /\ UNCHANGED <<row, data, agent>>
  BY DEF StoreFails, At
<1>2. Idles(s)
  BY FinishMoves DEF StoreFails, Goes, Steps, Idles, Pcs
<1>3. JobsRest /\ Table!TypeOK'
  BY JobsStill DEF StoreFails, Shapes, Uploads
<1>4. slot' \in [Slot -> SlotState]
  BY <1>2 DEF Goes, Steps, Idles, Becomes
<1> QED
  BY <1>1, <1>2, <1>3, <1>4 DEF Typed, RowRests, DataRests, AgentRests, data, agent,
     StoreFailsDoes

LEMMA ServedDoes ==
  ASSUME Typed, Shapes, 1 \in Job, Served
  PROVE  /\ Typed'
         /\ \E s \in Slot : Doing(s)
<1>1. PICK s \in Slot :
        \/ BeginStart(s)
        \/ CreateJob(s)
        \/ BeginClaimGroup(s)
        \/ ClaimFind(s)
        \/ BeginClaim(s)
        \/ ClaimJob(s)
        \/ ClaimSave(s)
        \/ BeginHeartbeat(s)
        \/ HeartbeatSave(s)
        \/ BeginUpload(s)
        \/ UploadScope(s)
        \/ UploadStore(s)
        \/ UploadSave(s)
        \/ UploadComplete(s)
        \/ UploadEnqueue(s)
        \/ BeginReport(s)
        \/ ReportEnd(s)
        \/ BeginExpire(s)
        \/ ExpireFind(s)
        \/ MarkChunks(s)
        \/ MarkReread(s)
        \/ Mark(s)
        \/ BeginStop(s)
        \/ StopJob(s)
        \/ StopTransition(s)
        \/ BeginRetry(s)
        \/ RetryCreate(s)
        \/ RetrySave(s)
        \/ BeginDelete(s)
        \/ DeleteFile(s)
        \/ PurgeChunks(s)
        \/ DeleteJobs(s)
        \/ PurgeItems(s)
        \/ DeleteRow(s)
        \/ RunnerAttempt(s)
        \/ RunnerSettled(s)
        \/ RunnerReread(s)
        \/ RunnerRelease(s)
        \/ RunnerPromote(s)
  BY DEF Served, StepOf
<1>2. CASE BeginStart(s)
  BY <1>2, BeginStartMoves DEF Doing
<1>3. CASE CreateJob(s)
  BY <1>3, CreateJobMoves DEF Doing
<1>4. CASE BeginClaimGroup(s)
  BY <1>4, BeginClaimGroupMoves DEF Doing
<1>5. CASE ClaimFind(s)
  BY <1>5, ClaimFindMoves DEF Doing
<1>6. CASE BeginClaim(s)
  BY <1>6, BeginClaimMoves DEF Doing
<1>7. CASE ClaimJob(s)
  BY <1>7, ClaimJobMoves DEF Doing
<1>8. CASE ClaimSave(s)
  BY <1>8, ClaimSaveMoves DEF Doing
<1>9. CASE BeginHeartbeat(s)
  BY <1>9, BeginHeartbeatMoves DEF Doing
<1>10. CASE HeartbeatSave(s)
  BY <1>10, HeartbeatSaveMoves DEF Doing
<1>11. CASE BeginUpload(s)
  BY <1>11, BeginUploadMoves DEF Doing
<1>12. CASE UploadScope(s)
  BY <1>12, UploadScopeMoves DEF Doing
<1>13. CASE UploadStore(s)
  BY <1>13, UploadStoreMoves DEF Doing
<1>14. CASE UploadSave(s)
  BY <1>14, UploadSaveMoves DEF Doing
<1>15. CASE UploadComplete(s)
  BY <1>15, UploadCompleteMoves DEF Doing
<1>16. CASE UploadEnqueue(s)
  BY <1>16, UploadEnqueueMoves DEF Doing
<1>17. CASE BeginReport(s)
  BY <1>17, BeginReportMoves DEF Doing
<1>18. CASE ReportEnd(s)
  BY <1>18, ReportEndMoves DEF Doing
<1>19. CASE BeginExpire(s)
  BY <1>19, BeginExpireMoves DEF Doing
<1>20. CASE ExpireFind(s)
  BY <1>20, ExpireFindMoves DEF Doing
<1>21. CASE MarkChunks(s)
  BY <1>21, MarkChunksMoves DEF Doing
<1>22. CASE MarkReread(s)
  BY <1>22, MarkRereadMoves DEF Doing
<1>23. CASE Mark(s)
  BY <1>23, MarkMoves DEF Doing
<1>24. CASE BeginStop(s)
  BY <1>24, BeginStopMoves DEF Doing
<1>25. CASE StopJob(s)
  BY <1>25, StopJobMoves DEF Doing
<1>26. CASE StopTransition(s)
  BY <1>26, StopTransitionMoves DEF Doing
<1>27. CASE BeginRetry(s)
  BY <1>27, BeginRetryMoves DEF Doing
<1>28. CASE RetryCreate(s)
  BY <1>28, RetryCreateMoves DEF Doing
<1>29. CASE RetrySave(s)
  BY <1>29, RetrySaveMoves DEF Doing
<1>30. CASE BeginDelete(s)
  BY <1>30, BeginDeleteMoves DEF Doing
<1>31. CASE DeleteFile(s)
  BY <1>31, DeleteFileMoves DEF Doing
<1>32. CASE PurgeChunks(s)
  BY <1>32, PurgeChunksMoves DEF Doing
<1>33. CASE DeleteJobs(s)
  BY <1>33, DeleteJobsMoves DEF Doing
<1>34. CASE PurgeItems(s)
  BY <1>34, PurgeItemsMoves DEF Doing
<1>35. CASE DeleteRow(s)
  BY <1>35, DeleteRowMoves DEF Doing
<1>36. CASE RunnerAttempt(s)
  BY <1>36, RunnerAttemptMoves DEF Doing
<1>37. CASE RunnerSettled(s)
  BY <1>37, RunnerSettledMoves DEF Doing
<1>38. CASE RunnerReread(s)
  BY <1>38, RunnerRereadMoves DEF Doing
<1>39. CASE RunnerRelease(s)
  BY <1>39, RunnerReleaseMoves DEF Doing
<1>40. CASE RunnerPromote(s)
  BY <1>40, RunnerPromoteMoves DEF Doing
<1> QED
  BY <1>1, <1>2, <1>3, <1>4, <1>5, <1>6, <1>7, <1>8, <1>9, <1>10, <1>11, <1>12, <1>13,
     <1>14, <1>15, <1>16, <1>17, <1>18, <1>19, <1>20, <1>21, <1>22, <1>23, <1>24, <1>25,
     <1>26, <1>27, <1>28, <1>29, <1>30, <1>31, <1>32, <1>33, <1>34, <1>35, <1>36, <1>37,
     <1>38, <1>39, <1>40 DEF Doing

LEMMA ShapesKept ==
  ASSUME Typed, Shapes, 1 \in Job, UploadRunner \notin Request, Served
  PROVE  Shapes'
<1>1. PICK s \in Slot : Doing(s)
  BY ServedDoes
<1>2. CASE BeginStartDoes(s)
  BY <1>2 DEF BeginStartDoes, Shapes, Uploads, Typed, Secured, Becomes, Opens, JobsRest,
     DataRests, AgentRests
<1>3. CASE CreateJobDoes(s)
  BY <1>3 DEF CreateJobDoes, Shapes, Uploads, Typed, Gone, Secured, Becomes, Idles,
     JobGoes, RowRests, DataRests, AgentRests
<1>4. CASE BeginClaimGroupDoes(s)
  BY <1>4 DEF BeginClaimGroupDoes, Shapes, Uploads, Typed, Secured, Becomes, Opens,
     JobGoes, RowRests, DataRests, AgentRests
<1>5. CASE ClaimFindDoes(s)
  BY <1>5 DEF ClaimFindDoes, Shapes, Uploads, Typed, Gone, Secured, Becomes, Steps, Idles,
     JobsRest, RowRests, DataRests
<1>6. CASE BeginClaimDoes(s)
  BY <1>6 DEF BeginClaimDoes, Shapes, Uploads, Typed, Exists, Secured, Becomes, Opens,
     JobsRest, RowRests, DataRests, AgentRests
<1>7. CASE ClaimJobDoes(s)
  BY <1>7 DEF ClaimJobDoes, Shapes, Uploads, Typed, Gone, Secured, Becomes, Steps, Goes,
     Idles, JobGoes, JobsRest, RowRests, DataRests, AgentRests
<1>8. CASE ClaimSaveDoes(s)
  BY <1>8 DEF ClaimSaveDoes, Shapes, Uploads, Typed, Gone, Secured, Becomes, Idles,
     JobsRest, DataRests
<1>9. CASE BeginHeartbeatDoes(s)
  BY <1>9 DEF BeginHeartbeatDoes, Shapes, Uploads, Typed, Secured, Becomes, Opens,
     JobsRest, RowRests, DataRests, AgentRests
<1>10. CASE HeartbeatSaveDoes(s)
  BY <1>10 DEF HeartbeatSaveDoes, Shapes, Uploads, Typed, Gone, Secured, Becomes, Idles,
     JobGoes, RowRests, DataRests, AgentRests
<1>11. CASE BeginUploadDoes(s)
  BY <1>11 DEF BeginUploadDoes, Shapes, Uploads, Typed, Exists, Secured, Becomes, Opens,
     JobsRest, RowRests, DataRests, AgentRests
<1>12. CASE UploadScopeDoes(s)
  BY <1>12 DEF UploadScopeDoes, Shapes, Uploads, Typed, Gone, Secured, Becomes, Steps,
     Goes, Idles, JobsRest, RowRests, DataRests, AgentRests
<1>13. CASE UploadStoreDoes(s)
  BY <1>13 DEF UploadStoreDoes, Shapes, Uploads, Typed, Gone, Secured, Becomes, Steps,
     Goes, Idles, JobsRest, RowRests, AgentRests
<1>14. CASE UploadSaveDoes(s)
  BY <1>14 DEF UploadSaveDoes, Shapes, Uploads, Typed, Gone, Secured, Becomes, Steps,
     Goes, Idles, JobsRest, DataRests, AgentRests
<1>15. CASE UploadCompleteDoes(s)
  BY <1>15 DEF UploadCompleteDoes, Shapes, Uploads, Typed, Secured, Becomes, Steps, Goes,
     JobGoes, JobsRest, RowRests, DataRests, AgentRests
<1>16. CASE UploadEnqueueDoes(s)
  BY <1>16 DEF UploadEnqueueDoes, Shapes, Uploads, Typed, Gone, Secured, Becomes, Idles,
     JobsRest, RowRests
<1>17. CASE BeginReportDoes(s)
  BY <1>17 DEF BeginReportDoes, Shapes, Uploads, Reports, Typed, Exists, Secured, Becomes,
     Opens, JobsRest, RowRests, DataRests, AgentRests
<1>18. CASE ReportEndDoes(s)
  BY <1>18 DEF ReportEndDoes, Shapes, Uploads, Reports, Typed, Gone, Secured, Becomes,
     Steps, Idles, JobGoes, JobsRest, RowRests, DataRests, AgentRests
<1>19. CASE BeginExpireDoes(s)
  BY <1>19 DEF BeginExpireDoes, Shapes, Uploads, Typed, Gone, Secured, Becomes, JobGoes,
     RowRests, DataRests, AgentRests
<1>20. CASE ExpireFindDoes(s)
  BY <1>20 DEF ExpireFindDoes, Shapes, Uploads, Typed, Exists, Gone, Secured, Becomes,
     Steps, Idles, JobsRest, RowRests, DataRests, AgentRests
<1>21. CASE MarkChunksDoes(s)
  BY <1>21 DEF MarkChunksDoes, Shapes, Uploads, Reports, Typed, Secured, Becomes, Steps,
     JobsRest, RowRests, DataRests, AgentRests
<1>22. CASE MarkRereadDoes(s)
  BY <1>22 DEF MarkRereadDoes, Shapes, Uploads, Reports, Typed, Secured, Becomes, Steps,
     JobsRest, RowRests, DataRests, AgentRests
<1>23. CASE MarkDoes(s)
  BY <1>23 DEF MarkDoes, Shapes, Uploads, Reports, Typed, Gone, Secured, Becomes, Idles,
     JobsRest, DataRests, AgentRests
<1>24. CASE BeginStopDoes(s)
  BY <1>24 DEF BeginStopDoes, Shapes, Uploads, Typed, Exists, Secured, Becomes, Opens,
     JobsRest, RowRests, DataRests, AgentRests
<1>25. CASE StopJobDoes(s)
  BY <1>25 DEF StopJobDoes, Shapes, Uploads, Typed, Secured, Becomes, Steps, Goes,
     JobGoes, JobsRest, RowRests, DataRests, AgentRests
<1>26. CASE StopTransitionDoes(s)
  BY <1>26 DEF StopTransitionDoes, Shapes, Uploads, Typed, Gone, Secured, Becomes, Idles,
     JobsRest, RowRests, DataRests, AgentRests
<1>27. CASE BeginRetryDoes(s)
  BY <1>27 DEF BeginRetryDoes, Shapes, Uploads, Typed, Exists, Secured, Becomes, Opens,
     JobsRest, RowRests, DataRests, AgentRests
<1>28. CASE RetryCreateDoes(s)
  BY <1>28 DEF RetryCreateDoes, Shapes, Uploads, Typed, Gone, Secured, Becomes, Steps,
     Goes, Idles, JobGoes, JobsRest, RowRests, DataRests, AgentRests
<1>29. CASE RetrySaveDoes(s)
  BY <1>29 DEF RetrySaveDoes, Shapes, Uploads, Typed, Gone, Secured, Becomes, Idles,
     JobsRest, DataRests, AgentRests
<1>30. CASE BeginDeleteDoes(s)
  BY <1>30 DEF BeginDeleteDoes, Shapes, Uploads, Typed, Exists, Secured, Becomes, Opens,
     JobsRest, RowRests, DataRests, AgentRests
<1>31. CASE DeleteFileDoes(s)
  BY <1>31 DEF DeleteFileDoes, Shapes, Uploads, Typed, Secured, Becomes, Steps, Goes,
     JobsRest, RowRests, AgentRests
<1>32. CASE PurgeChunksDoes(s)
  BY <1>32 DEF PurgeChunksDoes, Shapes, Uploads, Typed, Secured, Becomes, Steps, Goes,
     JobsRest, RowRests, AgentRests
<1>33. CASE DeleteJobsDoes(s)
  BY <1>33 DEF DeleteJobsDoes, Shapes, Uploads, Typed, Secured, Becomes, Steps, Goes,
     RowRests, DataRests, AgentRests
<1>34. CASE PurgeItemsDoes(s)
  BY <1>34 DEF PurgeItemsDoes, Shapes, Uploads, Typed, Secured, Becomes, Steps, Goes,
     JobsRest, RowRests, AgentRests
<1>35. CASE DeleteRowDoes(s)
  BY <1>35 DEF DeleteRowDoes, Shapes, Uploads, Typed, Exists, Gone, Secured, Becomes,
     Idles, JobsRest, RowRests, DataRests, AgentRests
<1>36. CASE RunnerAttemptDoes(s)
  BY <1>36 DEF RunnerAttemptDoes, Shapes, Uploads, Typed, Gone, Secured, Becomes,
     JobsRest, RowRests, AgentRests
<1>37. CASE RunnerSettledDoes(s)
  BY <1>37 DEF RunnerSettledDoes, Shapes, Uploads, Typed, Gone, Secured, Becomes, Steps,
     Idles, JobsRest, RowRests, DataRests, AgentRests
<1>38. CASE RunnerRereadDoes(s)
  BY <1>38 DEF RunnerRereadDoes, Shapes, Uploads, Typed, Gone, Secured, Becomes, Steps,
     Idles, JobsRest, RowRests, DataRests, AgentRests
<1>39. CASE RunnerReleaseDoes(s)
  BY <1>39 DEF RunnerReleaseDoes, Shapes, Uploads, Typed, Secured, Becomes, Steps,
     JobsRest, RowRests, AgentRests
<1>40. CASE RunnerPromoteDoes(s)
  BY <1>40 DEF RunnerPromoteDoes, Shapes, Uploads, Typed, Gone, Secured, Becomes, Idles,
     JobsRest, DataRests, AgentRests
<1> QED
  BY <1>1, <1>2, <1>3, <1>4, <1>5, <1>6, <1>7, <1>8, <1>9, <1>10, <1>11, <1>12, <1>13,
     <1>14, <1>15, <1>16, <1>17, <1>18, <1>19, <1>20, <1>21, <1>22, <1>23, <1>24, <1>25,
     <1>26, <1>27, <1>28, <1>29, <1>30, <1>31, <1>32, <1>33, <1>34, <1>35, <1>36, <1>37,
     <1>38, <1>39, <1>40 DEF Doing

LEMMA HoldingKept ==
  ASSUME Typed, Shapes, Holding, 1 \in Job, UploadRunner \notin Request, Served
  PROVE  Holding'
<1>1. PICK s \in Slot : Doing(s)
  BY ServedDoes
<1>2. CASE BeginStartDoes(s)
  BY <1>2 DEF BeginStartDoes, Shapes, Holding, Held, Uploads, Reports, Typed, Becomes,
     Opens, JobsRest, DataRests, AgentRests
<1>3. CASE CreateJobDoes(s)
  BY <1>3 DEF CreateJobDoes, Shapes, Holding, Held, Uploads, Reports, Typed, Becomes,
     Idles, JobGoes, RowRests, DataRests, AgentRests
<1>4. CASE BeginClaimGroupDoes(s)
  BY <1>4 DEF BeginClaimGroupDoes, Shapes, Holding, Held, Uploads, Reports, Typed,
     Becomes, Opens, JobGoes, RowRests, DataRests, AgentRests
<1>5. CASE ClaimFindDoes(s)
  BY <1>5 DEF ClaimFindDoes, Shapes, Holding, Held, Uploads, Reports, Typed, Becomes,
     Steps, Idles, JobsRest, RowRests, DataRests
<1>6. CASE BeginClaimDoes(s)
  BY <1>6 DEF BeginClaimDoes, Shapes, Holding, Held, Uploads, Reports, Typed, Becomes,
     Opens, JobsRest, RowRests, DataRests, AgentRests
<1>7. CASE ClaimJobDoes(s)
  BY <1>7 DEF ClaimJobDoes, Shapes, Holding, Held, Uploads, Reports, Typed, Becomes,
     Steps, Goes, Idles, JobGoes, JobsRest, RowRests, DataRests, AgentRests
<1>8. CASE ClaimSaveDoes(s)
  BY <1>8 DEF ClaimSaveDoes, Shapes, Holding, Held, Uploads, Reports, Typed, Becomes,
     Idles, JobsRest, DataRests
<1>9. CASE BeginHeartbeatDoes(s)
  BY <1>9 DEF BeginHeartbeatDoes, Shapes, Holding, Held, Uploads, Reports, Typed, Becomes,
     Opens, JobsRest, RowRests, DataRests, AgentRests
<1>10. CASE HeartbeatSaveDoes(s)
  BY <1>10 DEF HeartbeatSaveDoes, Shapes, Holding, Held, Uploads, Reports, Typed, Becomes,
     Idles, JobGoes, RowRests, DataRests, AgentRests
<1>11. CASE BeginUploadDoes(s)
  BY <1>11 DEF BeginUploadDoes, Shapes, Holding, Held, Uploads, Reports, Typed, Becomes,
     Opens, JobsRest, RowRests, DataRests, AgentRests
<1>12. CASE UploadScopeDoes(s)
  BY <1>12 DEF UploadScopeDoes, Shapes, Holding, Held, Uploads, Reports, Typed, Becomes,
     Steps, Goes, Idles, JobsRest, RowRests, DataRests, AgentRests
<1>13. CASE UploadStoreDoes(s)
  BY <1>13 DEF UploadStoreDoes, Shapes, Holding, Held, Uploads, Reports, Typed, Becomes,
     Steps, Goes, Idles, JobsRest, RowRests, AgentRests
<1>14. CASE UploadSaveDoes(s)
  BY <1>14 DEF UploadSaveDoes, Shapes, Holding, Held, Uploads, Reports, Typed, Becomes,
     Steps, Goes, Idles, JobsRest, DataRests, AgentRests
<1>15. CASE UploadCompleteDoes(s)
  BY <1>15 DEF UploadCompleteDoes, Shapes, Holding, Held, Uploads, Reports, Typed,
     Table!Active, Becomes, Steps, Goes, JobGoes, JobsRest, RowRests, DataRests, AgentRests
<1>16. CASE UploadEnqueueDoes(s)
  BY <1>16 DEF UploadEnqueueDoes, Shapes, Holding, Held, Uploads, Reports, Typed, Becomes,
     Idles, JobsRest, RowRests
<1>17. CASE BeginReportDoes(s)
  BY <1>17 DEF BeginReportDoes, Shapes, Holding, Held, Uploads, Reports, Typed, Becomes,
     Opens, JobsRest, RowRests, DataRests, AgentRests
<1>18. CASE ReportEndDoes(s)
  BY <1>18 DEF ReportEndDoes, Shapes, Holding, Held, Uploads, Reports, Typed,
     Table!Active, Becomes, Steps, Idles, JobGoes, JobsRest, RowRests, DataRests, AgentRests
<1>19. CASE BeginExpireDoes(s)
  BY <1>19 DEF BeginExpireDoes, Shapes, Holding, Held, Uploads, Reports, Typed,
     ClaimInFlight, At, Becomes, JobGoes, RowRests, DataRests, AgentRests
<1>20. CASE ExpireFindDoes(s)
  BY <1>20 DEF ExpireFindDoes, Shapes, Holding, Held, Uploads, Reports, Typed, Becomes,
     Steps, Idles, JobsRest, RowRests, DataRests, AgentRests
<1>21. CASE MarkChunksDoes(s)
  BY <1>21 DEF MarkChunksDoes, Shapes, Holding, Held, Uploads, Reports, Typed, Becomes,
     Steps, JobsRest, RowRests, DataRests, AgentRests
<1>22. CASE MarkRereadDoes(s)
  BY <1>22 DEF MarkRereadDoes, Shapes, Holding, Held, Uploads, Reports, Typed, Becomes,
     Steps, JobsRest, RowRests, DataRests, AgentRests
<1>23. CASE MarkDoes(s)
  BY <1>23 DEF MarkDoes, Shapes, Holding, Held, Uploads, Reports, Typed, Becomes, Idles,
     JobsRest, DataRests, AgentRests
<1>24. CASE BeginStopDoes(s)
  BY <1>24 DEF BeginStopDoes, Shapes, Holding, Held, Uploads, Reports, Typed, Becomes,
     Opens, JobsRest, RowRests, DataRests, AgentRests
<1>25. CASE StopJobDoes(s)
  BY <1>25 DEF StopJobDoes, Shapes, Holding, Held, Uploads, Reports, Typed,
     Table!Stoppable, Becomes, Steps, Goes, JobGoes, JobsRest, RowRests, DataRests,
     AgentRests
<1>26. CASE StopTransitionDoes(s)
  BY <1>26 DEF StopTransitionDoes, Shapes, Holding, Held, Uploads, Reports, Typed,
     Becomes, Idles, JobsRest, RowRests, DataRests, AgentRests
<1>27. CASE BeginRetryDoes(s)
  BY <1>27 DEF BeginRetryDoes, Shapes, Holding, Held, Uploads, Reports, Typed, Becomes,
     Opens, JobsRest, RowRests, DataRests, AgentRests
<1>28. CASE RetryCreateDoes(s)
  BY <1>28 DEF RetryCreateDoes, Shapes, Holding, Held, Uploads, Reports, Typed, Becomes,
     Steps, Goes, Idles, JobGoes, JobsRest, RowRests, DataRests, AgentRests
<1>29. CASE RetrySaveDoes(s)
  BY <1>29 DEF RetrySaveDoes, Shapes, Holding, Held, Uploads, Reports, Typed, Becomes,
     Idles, JobsRest, DataRests, AgentRests
<1>30. CASE BeginDeleteDoes(s)
  BY <1>30 DEF BeginDeleteDoes, Shapes, Holding, Held, Uploads, Reports, Typed, Becomes,
     Opens, JobsRest, RowRests, DataRests, AgentRests
<1>31. CASE DeleteFileDoes(s)
  BY <1>31 DEF DeleteFileDoes, Shapes, Holding, Held, Uploads, Reports, Typed, Becomes,
     Steps, Goes, JobsRest, RowRests, AgentRests
<1>32. CASE PurgeChunksDoes(s)
  BY <1>32 DEF PurgeChunksDoes, Shapes, Holding, Held, Uploads, Reports, Typed, Becomes,
     Steps, Goes, JobsRest, RowRests, AgentRests
<1>33. CASE DeleteJobsDoes(s)
  BY <1>33 DEF DeleteJobsDoes, Shapes, Holding, Held, Uploads, Reports, Typed, Becomes,
     Steps, Goes, RowRests, DataRests, AgentRests
<1>34. CASE PurgeItemsDoes(s)
  BY <1>34 DEF PurgeItemsDoes, Shapes, Holding, Held, Uploads, Reports, Typed, Becomes,
     Steps, Goes, JobsRest, RowRests, AgentRests
<1>35. CASE DeleteRowDoes(s)
  BY <1>35 DEF DeleteRowDoes, Shapes, Holding, Held, Uploads, Reports, Typed, Becomes,
     Idles, JobsRest, RowRests, DataRests, AgentRests
<1>36. CASE RunnerAttemptDoes(s)
  BY <1>36 DEF RunnerAttemptDoes, Shapes, Holding, Held, Uploads, Reports, Typed, Becomes,
     JobsRest, RowRests, AgentRests
<1>37. CASE RunnerSettledDoes(s)
  BY <1>37 DEF RunnerSettledDoes, Shapes, Holding, Held, Uploads, Reports, Typed, Becomes,
     Steps, Idles, JobsRest, RowRests, DataRests, AgentRests
<1>38. CASE RunnerRereadDoes(s)
  BY <1>38 DEF RunnerRereadDoes, Shapes, Holding, Held, Uploads, Reports, Typed, Becomes,
     Steps, Idles, JobsRest, RowRests, DataRests, AgentRests
<1>39. CASE RunnerReleaseDoes(s)
  BY <1>39 DEF RunnerReleaseDoes, Shapes, Holding, Held, Uploads, Reports, Typed, Becomes,
     Steps, JobsRest, RowRests, AgentRests
<1>40. CASE RunnerPromoteDoes(s)
  BY <1>40 DEF RunnerPromoteDoes, Shapes, Holding, Held, Uploads, Reports, Typed, Becomes,
     Idles, JobsRest, DataRests, AgentRests
<1> QED
  BY <1>1, <1>2, <1>3, <1>4, <1>5, <1>6, <1>7, <1>8, <1>9, <1>10, <1>11, <1>12, <1>13,
     <1>14, <1>15, <1>16, <1>17, <1>18, <1>19, <1>20, <1>21, <1>22, <1>23, <1>24, <1>25,
     <1>26, <1>27, <1>28, <1>29, <1>30, <1>31, <1>32, <1>33, <1>34, <1>35, <1>36, <1>37,
     <1>38, <1>39, <1>40 DEF Doing

LEMMA UnstartedKept ==
  ASSUME Typed, Shapes, Holding, Unstarted, 1 \in Job, UploadRunner \notin Request, Served
  PROVE  Unstarted'
<1>1. PICK s \in Slot : Doing(s)
  BY ServedDoes
<1>2. CASE BeginStartDoes(s)
  BY <1>2 DEF BeginStartDoes, Shapes, Holding, Unstarted, Becomes, Opens, JobsRest,
     DataRests, AgentRests, Secured, Uploads
<1>3. CASE CreateJobDoes(s)
  BY <1>3 DEF CreateJobDoes, Shapes, Holding, Unstarted, Gone, Becomes, Idles, JobGoes,
     RowRests, DataRests, AgentRests, Secured, Uploads
<1>4. CASE BeginClaimGroupDoes(s)
  BY <1>4 DEF BeginClaimGroupDoes, Shapes, Holding, Unstarted, Becomes, Opens, JobGoes,
     RowRests, DataRests, AgentRests, Secured, Uploads
<1>5. CASE ClaimFindDoes(s)
  BY <1>5 DEF ClaimFindDoes, Shapes, Holding, Unstarted, Gone, Becomes, Steps, Idles,
     JobsRest, RowRests, DataRests, Secured, Uploads
<1>6. CASE BeginClaimDoes(s)
  BY <1>6 DEF BeginClaimDoes, Shapes, Holding, Unstarted, Exists, Becomes, Opens,
     JobsRest, RowRests, DataRests, AgentRests, Secured, Uploads
<1>7. CASE ClaimJobDoes(s)
  BY <1>7 DEF ClaimJobDoes, Shapes, Holding, Unstarted, Gone, Becomes, Steps, Goes, Idles,
     JobGoes, JobsRest, RowRests, DataRests, AgentRests, Secured, Uploads
<1>8. CASE ClaimSaveDoes(s)
  BY <1>8 DEF ClaimSaveDoes, Shapes, Holding, Unstarted, Gone, Becomes, Idles, JobsRest,
     DataRests, Secured, Uploads
<1>9. CASE BeginHeartbeatDoes(s)
  BY <1>9 DEF BeginHeartbeatDoes, Shapes, Holding, Unstarted, Becomes, Opens, JobsRest,
     RowRests, DataRests, AgentRests, Secured, Uploads
<1>10. CASE HeartbeatSaveDoes(s)
  BY <1>10 DEF HeartbeatSaveDoes, Shapes, Holding, Unstarted, Gone, Becomes, Idles,
     JobGoes, RowRests, DataRests, AgentRests, Secured, Uploads
<1>11. CASE BeginUploadDoes(s)
  BY <1>11 DEF BeginUploadDoes, Shapes, Holding, Unstarted, Exists, Uploads, Becomes,
     Opens, JobsRest, RowRests, DataRests, AgentRests, Secured
<1>12. CASE UploadScopeDoes(s)
  BY <1>12 DEF UploadScopeDoes, Shapes, Holding, Unstarted, Uploads, Gone, Becomes, Steps,
     Goes, Idles, JobsRest, RowRests, DataRests, AgentRests, Secured
<1>13. CASE UploadStoreDoes(s)
  BY <1>13 DEF UploadStoreDoes, Shapes, Holding, Unstarted, Uploads, Gone, Becomes, Steps,
     Goes, Idles, JobsRest, RowRests, AgentRests, Secured
<1>14. CASE UploadSaveDoes(s)
  BY <1>14 DEF UploadSaveDoes, Shapes, Holding, Unstarted, Secured, Uploads, Gone,
     Becomes, Steps, Goes, Idles, JobsRest, DataRests, AgentRests
<1>15. CASE UploadCompleteDoes(s)
  BY <1>15 DEF UploadCompleteDoes, Shapes, Holding, Unstarted, Uploads, Becomes, Steps,
     Goes, JobGoes, JobsRest, RowRests, DataRests, AgentRests, Secured
<1>16. CASE UploadEnqueueDoes(s)
  BY <1>16 DEF UploadEnqueueDoes, Shapes, Holding, Unstarted, Uploads, Gone, Becomes,
     Idles, JobsRest, RowRests, Secured
<1>17. CASE BeginReportDoes(s)
  BY <1>17 DEF BeginReportDoes, Shapes, Holding, Unstarted, Exists, Becomes, Opens,
     JobsRest, RowRests, DataRests, AgentRests, Secured, Uploads
<1>18. CASE ReportEndDoes(s)
  BY <1>18 DEF ReportEndDoes, Shapes, Holding, Unstarted, Gone, Becomes, Steps, Idles,
     JobGoes, JobsRest, RowRests, DataRests, AgentRests, Secured, Uploads
<1>19. CASE BeginExpireDoes(s)
  BY <1>19 DEF BeginExpireDoes, Shapes, Holding, Unstarted, Gone, Becomes, JobGoes,
     RowRests, DataRests, AgentRests, Secured, Uploads
<1>20. CASE ExpireFindDoes(s)
  BY <1>20 DEF ExpireFindDoes, Shapes, Holding, Unstarted, Exists, Gone, Becomes, Steps,
     Idles, JobsRest, RowRests, DataRests, AgentRests, Secured, Uploads
<1>21. CASE MarkChunksDoes(s)
  BY <1>21 DEF MarkChunksDoes, Shapes, Holding, Unstarted, Becomes, Steps, JobsRest,
     RowRests, DataRests, AgentRests, Secured, Uploads
<1>22. CASE MarkRereadDoes(s)
  BY <1>22 DEF MarkRereadDoes, Shapes, Holding, Unstarted, Becomes, Steps, JobsRest,
     RowRests, DataRests, AgentRests, Secured, Uploads
<1>23. CASE MarkDoes(s)
  BY <1>23 DEF MarkDoes, Shapes, Holding, Unstarted, Secured, Gone, Becomes, Idles,
     JobsRest, DataRests, AgentRests, Uploads
<1>24. CASE BeginStopDoes(s)
  BY <1>24 DEF BeginStopDoes, Shapes, Holding, Unstarted, Exists, Becomes, Opens,
     JobsRest, RowRests, DataRests, AgentRests, Secured, Uploads
<1>25. CASE StopJobDoes(s)
  BY <1>25 DEF StopJobDoes, Shapes, Holding, Unstarted, Becomes, Steps, Goes, JobGoes,
     JobsRest, RowRests, DataRests, AgentRests, Secured, Uploads
<1>26. CASE StopTransitionDoes(s)
  BY <1>26 DEF StopTransitionDoes, Shapes, Holding, Unstarted, Gone, Becomes, Idles,
     JobsRest, RowRests, DataRests, AgentRests, Secured, Uploads
<1>27. CASE BeginRetryDoes(s)
  BY <1>27 DEF BeginRetryDoes, Shapes, Holding, Unstarted, Exists, Becomes, Opens,
     JobsRest, RowRests, DataRests, AgentRests, Secured, Uploads
<1>28. CASE RetryCreateDoes(s)
  BY <1>28 DEF RetryCreateDoes, Shapes, Holding, Unstarted, Gone, Becomes, Steps, Goes,
     Idles, JobGoes, JobsRest, RowRests, DataRests, AgentRests, Secured, Uploads
<1>29. CASE RetrySaveDoes(s)
  BY <1>29 DEF RetrySaveDoes, Shapes, Holding, Unstarted, Gone, Becomes, Idles, JobsRest,
     DataRests, AgentRests, Secured, Uploads
<1>30. CASE BeginDeleteDoes(s)
  BY <1>30 DEF BeginDeleteDoes, Shapes, Holding, Unstarted, Exists, Becomes, Opens,
     JobsRest, RowRests, DataRests, AgentRests, Secured, Uploads
<1>31. CASE DeleteFileDoes(s)
  BY <1>31 DEF DeleteFileDoes, Shapes, Holding, Unstarted, Becomes, Steps, Goes, JobsRest,
     RowRests, AgentRests, Secured, Uploads
<1>32. CASE PurgeChunksDoes(s)
  BY <1>32 DEF PurgeChunksDoes, Shapes, Holding, Unstarted, Becomes, Steps, Goes,
     JobsRest, RowRests, AgentRests, Secured, Uploads
<1>33. CASE DeleteJobsDoes(s)
  BY <1>33 DEF DeleteJobsDoes, Shapes, Holding, Unstarted, Becomes, Steps, Goes, RowRests,
     DataRests, AgentRests, Secured, Uploads
<1>34. CASE PurgeItemsDoes(s)
  BY <1>34 DEF PurgeItemsDoes, Shapes, Holding, Unstarted, Becomes, Steps, Goes, JobsRest,
     RowRests, AgentRests, Secured, Uploads
<1>35. CASE DeleteRowDoes(s)
  BY <1>35 DEF DeleteRowDoes, Shapes, Holding, Unstarted, Exists, Gone, Becomes, Idles,
     JobsRest, RowRests, DataRests, AgentRests, Secured, Uploads
<1>36. CASE RunnerAttemptDoes(s)
  BY <1>36 DEF RunnerAttemptDoes, Shapes, Holding, Unstarted, Gone, Becomes, JobsRest,
     RowRests, AgentRests, Secured, Uploads
<1>37. CASE RunnerSettledDoes(s)
  BY <1>37 DEF RunnerSettledDoes, Shapes, Holding, Unstarted, Gone, Becomes, Steps, Idles,
     JobsRest, RowRests, DataRests, AgentRests, Secured, Uploads
<1>38. CASE RunnerRereadDoes(s)
  BY <1>38 DEF RunnerRereadDoes, Shapes, Holding, Unstarted, Secured, Gone, Becomes,
     Steps, Idles, JobsRest, RowRests, DataRests, AgentRests, Uploads
<1>39. CASE RunnerReleaseDoes(s)
  BY <1>39 DEF RunnerReleaseDoes, Shapes, Holding, Unstarted, Becomes, Steps, JobsRest,
     RowRests, AgentRests, Secured, Uploads
<1>40. CASE RunnerPromoteDoes(s)
  BY <1>40 DEF RunnerPromoteDoes, Shapes, Holding, Unstarted, Secured, Gone, Becomes,
     Idles, JobsRest, DataRests, AgentRests, Uploads
<1> QED
  BY <1>1, <1>2, <1>3, <1>4, <1>5, <1>6, <1>7, <1>8, <1>9, <1>10, <1>11, <1>12, <1>13,
     <1>14, <1>15, <1>16, <1>17, <1>18, <1>19, <1>20, <1>21, <1>22, <1>23, <1>24, <1>25,
     <1>26, <1>27, <1>28, <1>29, <1>30, <1>31, <1>32, <1>33, <1>34, <1>35, <1>36, <1>37,
     <1>38, <1>39, <1>40 DEF Doing

LEMMA FirstJobKept ==
  ASSUME Typed, Shapes, Holding, FirstJob, 1 \in Job, UploadRunner \notin Request, Served
  PROVE  FirstJob'
<1>1. PICK s \in Slot : Doing(s)
  BY ServedDoes
<1>2. CASE BeginStartDoes(s)
  BY <1>2 DEF BeginStartDoes, Shapes, Holding, FirstJob, Others, Held, Becomes, Opens,
     JobsRest, DataRests, AgentRests, Uploads, Reports
<1>3. CASE CreateJobDoes(s)
  BY <1>3 DEF CreateJobDoes, Shapes, Holding, FirstJob, Others, Held, Becomes, Idles,
     JobGoes, RowRests, DataRests, AgentRests, Uploads, Reports
<1>4. CASE BeginClaimGroupDoes(s)
  BY <1>4 DEF BeginClaimGroupDoes, Shapes, Holding, FirstJob, Others, Held, Becomes,
     Opens, JobGoes, RowRests, DataRests, AgentRests, Uploads, Reports
<1>5. CASE ClaimFindDoes(s)
  BY <1>5 DEF ClaimFindDoes, Shapes, Holding, FirstJob, Others, Held, Becomes, Steps,
     Idles, JobsRest, RowRests, DataRests, Uploads, Reports
<1>6. CASE BeginClaimDoes(s)
  BY <1>6 DEF BeginClaimDoes, Shapes, Holding, FirstJob, Others, Held, Becomes, Opens,
     JobsRest, RowRests, DataRests, AgentRests, Uploads, Reports
<1>7. CASE ClaimJobDoes(s)
  BY <1>7 DEF ClaimJobDoes, Shapes, Holding, FirstJob, Others, Held, Becomes, Steps, Goes,
     Idles, JobGoes, JobsRest, RowRests, DataRests, AgentRests, Uploads, Reports
<1>8. CASE ClaimSaveDoes(s)
  BY <1>8 DEF ClaimSaveDoes, Shapes, Holding, FirstJob, Others, Held, Becomes, Idles,
     JobsRest, DataRests, Uploads, Reports
<1>9. CASE BeginHeartbeatDoes(s)
  BY <1>9 DEF BeginHeartbeatDoes, Shapes, Holding, FirstJob, Others, Held, Becomes, Opens,
     JobsRest, RowRests, DataRests, AgentRests, Uploads, Reports
<1>10. CASE HeartbeatSaveDoes(s)
  BY <1>10 DEF HeartbeatSaveDoes, Shapes, Holding, FirstJob, Others, Held, Becomes, Idles,
     JobGoes, RowRests, DataRests, AgentRests, Uploads, Reports
<1>11. CASE BeginUploadDoes(s)
  BY <1>11 DEF BeginUploadDoes, Shapes, Holding, FirstJob, Others, Held, Uploads, Becomes,
     Opens, JobsRest, RowRests, DataRests, AgentRests, Reports
<1>12. CASE UploadScopeDoes(s)
  BY <1>12 DEF UploadScopeDoes, Shapes, Holding, FirstJob, Others, Held, Uploads, Becomes,
     Steps, Goes, Idles, JobsRest, RowRests, DataRests, AgentRests, Reports
<1>13. CASE UploadStoreDoes(s)
  BY <1>13 DEF UploadStoreDoes, Shapes, Holding, FirstJob, Others, Held, Uploads, Becomes,
     Steps, Goes, Idles, JobsRest, RowRests, AgentRests, Reports
<1>14. CASE UploadSaveDoes(s)
  BY <1>14 DEF UploadSaveDoes, Shapes, Holding, FirstJob, Others, Held, Uploads, Becomes,
     Steps, Goes, Idles, JobsRest, DataRests, AgentRests, Reports
<1>15. CASE UploadCompleteDoes(s)
  BY <1>15 DEF UploadCompleteDoes, Shapes, Holding, FirstJob, Others, Held, Uploads,
     Table!Active, Becomes, Steps, Goes, JobGoes, JobsRest, RowRests, DataRests,
     AgentRests, Reports
<1>16. CASE UploadEnqueueDoes(s)
  BY <1>16 DEF UploadEnqueueDoes, Shapes, Holding, FirstJob, Others, Held, Uploads,
     Becomes, Idles, JobsRest, RowRests, Reports
<1>17. CASE BeginReportDoes(s)
  BY <1>17 DEF BeginReportDoes, Shapes, Holding, FirstJob, Others, Held, Reports, Becomes,
     Opens, JobsRest, RowRests, DataRests, AgentRests, Uploads
<1>18. CASE ReportEndDoes(s)
  BY <1>18 DEF ReportEndDoes, Shapes, Holding, FirstJob, Others, Held, Reports,
     Table!Active, Becomes, Steps, Idles, JobGoes, JobsRest, RowRests, DataRests,
     AgentRests, Uploads
<1>19. CASE BeginExpireDoes(s)
  BY <1>19 DEF BeginExpireDoes, Shapes, Holding, FirstJob, Others, Held, Becomes, JobGoes,
     RowRests, DataRests, AgentRests, Uploads, Reports
<1>20. CASE ExpireFindDoes(s)
  BY <1>20 DEF ExpireFindDoes, Shapes, Holding, FirstJob, Others, Held, Becomes, Steps,
     Idles, JobsRest, RowRests, DataRests, AgentRests, Uploads, Reports
<1>21. CASE MarkChunksDoes(s)
  BY <1>21 DEF MarkChunksDoes, Shapes, Holding, FirstJob, Others, Held, Reports, Becomes,
     Steps, JobsRest, RowRests, DataRests, AgentRests, Uploads
<1>22. CASE MarkRereadDoes(s)
  BY <1>22 DEF MarkRereadDoes, Shapes, Holding, FirstJob, Others, Held, Reports, Becomes,
     Steps, JobsRest, RowRests, DataRests, AgentRests, Uploads
<1>23. CASE MarkDoes(s)
  BY <1>23 DEF MarkDoes, Shapes, Holding, FirstJob, Others, Held, Reports, Becomes, Idles,
     JobsRest, DataRests, AgentRests, Uploads
<1>24. CASE BeginStopDoes(s)
  BY <1>24 DEF BeginStopDoes, Shapes, Holding, FirstJob, Others, Held, Becomes, Opens,
     JobsRest, RowRests, DataRests, AgentRests, Uploads, Reports
<1>25. CASE StopJobDoes(s)
  BY <1>25 DEF StopJobDoes, Shapes, Holding, FirstJob, Others, Held, Table!Stoppable,
     Becomes, Steps, Goes, JobGoes, JobsRest, RowRests, DataRests, AgentRests, Uploads,
     Reports
<1>26. CASE StopTransitionDoes(s)
  BY <1>26 DEF StopTransitionDoes, Shapes, Holding, FirstJob, Others, Held, Becomes,
     Idles, JobsRest, RowRests, DataRests, AgentRests, Uploads, Reports
<1>27. CASE BeginRetryDoes(s)
  BY <1>27 DEF BeginRetryDoes, Shapes, Holding, FirstJob, Others, Held, Becomes, Opens,
     JobsRest, RowRests, DataRests, AgentRests, Uploads, Reports
<1>28. CASE RetryCreateDoes(s)
  BY <1>28 DEF RetryCreateDoes, Shapes, Holding, FirstJob, Others, Held, Becomes, Steps,
     Goes, Idles, JobGoes, JobsRest, RowRests, DataRests, AgentRests, Uploads, Reports
<1>29. CASE RetrySaveDoes(s)
  BY <1>29 DEF RetrySaveDoes, Shapes, Holding, FirstJob, Others, Held, Becomes, Idles,
     JobsRest, DataRests, AgentRests, Uploads, Reports
<1>30. CASE BeginDeleteDoes(s)
  BY <1>30 DEF BeginDeleteDoes, Shapes, Holding, FirstJob, Others, Held, Becomes, Opens,
     JobsRest, RowRests, DataRests, AgentRests, Uploads, Reports
<1>31. CASE DeleteFileDoes(s)
  BY <1>31 DEF DeleteFileDoes, Shapes, Holding, FirstJob, Others, Held, Becomes, Steps,
     Goes, JobsRest, RowRests, AgentRests, Uploads, Reports
<1>32. CASE PurgeChunksDoes(s)
  BY <1>32 DEF PurgeChunksDoes, Shapes, Holding, FirstJob, Others, Held, Becomes, Steps,
     Goes, JobsRest, RowRests, AgentRests, Uploads, Reports
<1>33. CASE DeleteJobsDoes(s)
  BY <1>33 DEF DeleteJobsDoes, Shapes, Holding, FirstJob, Others, Held, Becomes, Steps,
     Goes, RowRests, DataRests, AgentRests, Uploads, Reports
<1>34. CASE PurgeItemsDoes(s)
  BY <1>34 DEF PurgeItemsDoes, Shapes, Holding, FirstJob, Others, Held, Becomes, Steps,
     Goes, JobsRest, RowRests, AgentRests, Uploads, Reports
<1>35. CASE DeleteRowDoes(s)
  BY <1>35 DEF DeleteRowDoes, Shapes, Holding, FirstJob, Others, Held, Becomes, Idles,
     JobsRest, RowRests, DataRests, AgentRests, Uploads, Reports
<1>36. CASE RunnerAttemptDoes(s)
  BY <1>36 DEF RunnerAttemptDoes, Shapes, Holding, FirstJob, Others, Held, Becomes,
     JobsRest, RowRests, AgentRests, Uploads, Reports
<1>37. CASE RunnerSettledDoes(s)
  BY <1>37 DEF RunnerSettledDoes, Shapes, Holding, FirstJob, Others, Held, Becomes, Steps,
     Idles, JobsRest, RowRests, DataRests, AgentRests, Uploads, Reports
<1>38. CASE RunnerRereadDoes(s)
  BY <1>38 DEF RunnerRereadDoes, Shapes, Holding, FirstJob, Others, Held, Becomes, Steps,
     Idles, JobsRest, RowRests, DataRests, AgentRests, Uploads, Reports
<1>39. CASE RunnerReleaseDoes(s)
  BY <1>39 DEF RunnerReleaseDoes, Shapes, Holding, FirstJob, Others, Held, Becomes, Steps,
     JobsRest, RowRests, AgentRests, Uploads, Reports
<1>40. CASE RunnerPromoteDoes(s)
  BY <1>40 DEF RunnerPromoteDoes, Shapes, Holding, FirstJob, Others, Held, Becomes, Idles,
     JobsRest, DataRests, AgentRests, Uploads, Reports
<1> QED
  BY <1>1, <1>2, <1>3, <1>4, <1>5, <1>6, <1>7, <1>8, <1>9, <1>10, <1>11, <1>12, <1>13,
     <1>14, <1>15, <1>16, <1>17, <1>18, <1>19, <1>20, <1>21, <1>22, <1>23, <1>24, <1>25,
     <1>26, <1>27, <1>28, <1>29, <1>30, <1>31, <1>32, <1>33, <1>34, <1>35, <1>36, <1>37,
     <1>38, <1>39, <1>40 DEF Doing

LEMMA UnsecuredKept ==
  ASSUME Typed, Shapes, Holding, Unsecured, 1 \in Job, UploadRunner \notin Request, Served
  PROVE  Unsecured'
<1>1. PICK s \in Slot : Doing(s)
  BY ServedDoes
<1>2. CASE BeginStartDoes(s)
  BY <1>2 DEF BeginStartDoes, Shapes, Holding, Unsecured, Secured, Becomes, Opens,
     JobsRest, DataRests, AgentRests, Uploads, Held, Reports
<1>3. CASE CreateJobDoes(s)
  BY <1>3 DEF CreateJobDoes, Shapes, Holding, Unsecured, Secured, Gone, Becomes, Idles,
     JobGoes, RowRests, DataRests, AgentRests, Uploads, Held, Reports
<1>4. CASE BeginClaimGroupDoes(s)
  BY <1>4 DEF BeginClaimGroupDoes, Shapes, Holding, Unsecured, Secured, Becomes, Opens,
     JobGoes, RowRests, DataRests, AgentRests, Uploads, Held, Reports
<1>5. CASE ClaimFindDoes(s)
  BY <1>5 DEF ClaimFindDoes, Shapes, Holding, Unsecured, Secured, Gone, Becomes, Steps,
     Idles, JobsRest, RowRests, DataRests, Uploads, Held, Reports
<1>6. CASE BeginClaimDoes(s)
  BY <1>6 DEF BeginClaimDoes, Shapes, Holding, Unsecured, Secured, Becomes, Opens,
     JobsRest, RowRests, DataRests, AgentRests, Uploads, Held, Reports
<1>7. CASE ClaimJobDoes(s)
  BY <1>7 DEF ClaimJobDoes, Shapes, Holding, Unsecured, Secured, Gone, Becomes, Steps,
     Goes, Idles, JobGoes, JobsRest, RowRests, DataRests, AgentRests, Uploads, Held, Reports
<1>8. CASE ClaimSaveDoes(s)
  BY <1>8 DEF ClaimSaveDoes, Shapes, Holding, Unsecured, Secured, Gone, Becomes, Idles,
     JobsRest, DataRests, Uploads, Held, Reports
<1>9. CASE BeginHeartbeatDoes(s)
  BY <1>9 DEF BeginHeartbeatDoes, Shapes, Holding, Unsecured, Secured, Becomes, Opens,
     JobsRest, RowRests, DataRests, AgentRests, Uploads, Held, Reports
<1>10. CASE HeartbeatSaveDoes(s)
  BY <1>10 DEF HeartbeatSaveDoes, Shapes, Holding, Unsecured, Secured, Gone, Becomes,
     Idles, JobGoes, RowRests, DataRests, AgentRests, Uploads, Held, Reports
<1>11. CASE BeginUploadDoes(s)
  BY <1>11 DEF BeginUploadDoes, Shapes, Holding, Unsecured, Uploads, Secured, Becomes,
     Opens, JobsRest, RowRests, DataRests, AgentRests, Held, Reports
<1>12. CASE UploadScopeDoes(s)
  BY <1>12 DEF UploadScopeDoes, Shapes, Holding, Unsecured, Uploads, Secured, Gone,
     Becomes, Steps, Goes, Idles, JobsRest, RowRests, DataRests, AgentRests, Held, Reports
<1>13. CASE UploadStoreDoes(s)
  BY <1>13 DEF UploadStoreDoes, Shapes, Holding, Unsecured, Uploads, Secured, Gone,
     Becomes, Steps, Goes, Idles, JobsRest, RowRests, AgentRests, Held, Reports
<1>14. CASE UploadSaveDoes(s)
  BY <1>14 DEF UploadSaveDoes, Shapes, Holding, Unsecured, Uploads, Secured, Gone,
     Becomes, Steps, Goes, Idles, JobsRest, DataRests, AgentRests, Held, Reports
<1>15. CASE UploadCompleteDoes(s)
  BY <1>15 DEF UploadCompleteDoes, Shapes, Holding, Unsecured, Uploads, Secured, Becomes,
     Steps, Goes, JobGoes, JobsRest, RowRests, DataRests, AgentRests, Held, Reports
<1>16. CASE UploadEnqueueDoes(s)
  BY <1>16 DEF UploadEnqueueDoes, Shapes, Holding, Unsecured, Uploads, Secured, Gone,
     Becomes, Idles, JobsRest, RowRests, Held, Reports
<1>17. CASE BeginReportDoes(s)
  BY <1>17 DEF BeginReportDoes, Shapes, Holding, Unsecured, Reports, Secured, Becomes,
     Opens, JobsRest, RowRests, DataRests, AgentRests, Uploads, Held
<1>18. CASE ReportEndDoes(s)
  BY <1>18 DEF ReportEndDoes, Shapes, Holding, Unsecured, Reports, Secured, Gone, Becomes,
     Steps, Idles, JobGoes, JobsRest, RowRests, DataRests, AgentRests, Uploads, Held
<1>19. CASE BeginExpireDoes(s)
  BY <1>19 DEF BeginExpireDoes, Shapes, Holding, Unsecured, Secured, Gone, Becomes,
     JobGoes, RowRests, DataRests, AgentRests, Uploads, Held, Reports
<1>20. CASE ExpireFindDoes(s)
  BY <1>20 DEF ExpireFindDoes, Shapes, Holding, Unsecured, Secured, Gone, Becomes, Steps,
     Idles, JobsRest, RowRests, DataRests, AgentRests, Uploads, Held, Reports
<1>21. CASE MarkChunksDoes(s)
  BY <1>21 DEF MarkChunksDoes, Shapes, Holding, Unsecured, Reports, Secured, Becomes,
     Steps, JobsRest, RowRests, DataRests, AgentRests, Uploads, Held
<1>22. CASE MarkRereadDoes(s)
  BY <1>22 DEF MarkRereadDoes, Shapes, Holding, Unsecured, Reports, Secured, Becomes,
     Steps, JobsRest, RowRests, DataRests, AgentRests, Uploads, Held
<1>23. CASE MarkDoes(s)
  BY <1>23 DEF MarkDoes, Shapes, Holding, Unsecured, Reports, Secured, Gone, Becomes,
     Idles, JobsRest, DataRests, AgentRests, Uploads, Held
<1>24. CASE BeginStopDoes(s)
  BY <1>24 DEF BeginStopDoes, Shapes, Holding, Unsecured, Secured, Becomes, Opens,
     JobsRest, RowRests, DataRests, AgentRests, Uploads, Held, Reports
<1>25. CASE StopJobDoes(s)
  BY <1>25 DEF StopJobDoes, Shapes, Holding, Unsecured, Secured, Becomes, Steps, Goes,
     JobGoes, JobsRest, RowRests, DataRests, AgentRests, Uploads, Held, Reports
<1>26. CASE StopTransitionDoes(s)
  BY <1>26 DEF StopTransitionDoes, Shapes, Holding, Unsecured, Secured, Gone, Becomes,
     Idles, JobsRest, RowRests, DataRests, AgentRests, Uploads, Held, Reports
<1>27. CASE BeginRetryDoes(s)
  BY <1>27 DEF BeginRetryDoes, Shapes, Holding, Unsecured, Secured, Becomes, Opens,
     JobsRest, RowRests, DataRests, AgentRests, Uploads, Held, Reports
<1>28. CASE RetryCreateDoes(s)
  BY <1>28 DEF RetryCreateDoes, Shapes, Holding, Unsecured, Secured, Gone, Becomes, Steps,
     Goes, Idles, JobGoes, JobsRest, RowRests, DataRests, AgentRests, Uploads, Held, Reports
<1>29. CASE RetrySaveDoes(s)
  BY <1>29 DEF RetrySaveDoes, Shapes, Holding, Unsecured, Secured, Gone, Becomes, Idles,
     JobsRest, DataRests, AgentRests, Uploads, Held, Reports
<1>30. CASE BeginDeleteDoes(s)
  BY <1>30 DEF BeginDeleteDoes, Shapes, Holding, Unsecured, Secured, Becomes, Opens,
     JobsRest, RowRests, DataRests, AgentRests, Uploads, Held, Reports
<1>31. CASE DeleteFileDoes(s)
  BY <1>31 DEF DeleteFileDoes, Shapes, Holding, Unsecured, Secured, Becomes, Steps, Goes,
     JobsRest, RowRests, AgentRests, Uploads, Held, Reports
<1>32. CASE PurgeChunksDoes(s)
  BY <1>32 DEF PurgeChunksDoes, Shapes, Holding, Unsecured, Secured, Becomes, Steps, Goes,
     JobsRest, RowRests, AgentRests, Uploads, Held, Reports
<1>33. CASE DeleteJobsDoes(s)
  BY <1>33 DEF DeleteJobsDoes, Shapes, Holding, Unsecured, Secured, Becomes, Steps, Goes,
     RowRests, DataRests, AgentRests, Uploads, Held, Reports
<1>34. CASE PurgeItemsDoes(s)
  BY <1>34 DEF PurgeItemsDoes, Shapes, Holding, Unsecured, Secured, Becomes, Steps, Goes,
     JobsRest, RowRests, AgentRests, Uploads, Held, Reports
<1>35. CASE DeleteRowDoes(s)
  BY <1>35 DEF DeleteRowDoes, Shapes, Holding, Unsecured, Secured, Gone, Becomes, Idles,
     JobsRest, RowRests, DataRests, AgentRests, Uploads, Held, Reports
<1>36. CASE RunnerAttemptDoes(s)
  BY <1>36 DEF RunnerAttemptDoes, Shapes, Holding, Unsecured, Secured, Gone, Becomes,
     JobsRest, RowRests, AgentRests, Uploads, Held, Reports
<1>37. CASE RunnerSettledDoes(s)
  BY <1>37 DEF RunnerSettledDoes, Shapes, Holding, Unsecured, Secured, Gone, Becomes,
     Steps, Idles, JobsRest, RowRests, DataRests, AgentRests, Uploads, Held, Reports
<1>38. CASE RunnerRereadDoes(s)
  BY <1>38 DEF RunnerRereadDoes, Shapes, Holding, Unsecured, Secured, Gone, Becomes,
     Steps, Idles, JobsRest, RowRests, DataRests, AgentRests, Uploads, Held, Reports
<1>39. CASE RunnerReleaseDoes(s)
  BY <1>39 DEF RunnerReleaseDoes, Shapes, Holding, Unsecured, Secured, Becomes, Steps,
     JobsRest, RowRests, AgentRests, Uploads, Held, Reports
<1>40. CASE RunnerPromoteDoes(s)
  BY <1>40 DEF RunnerPromoteDoes, Shapes, Holding, Unsecured, Secured, Gone, Becomes,
     Idles, JobsRest, DataRests, AgentRests, Uploads, Held, Reports
<1> QED
  BY <1>1, <1>2, <1>3, <1>4, <1>5, <1>6, <1>7, <1>8, <1>9, <1>10, <1>11, <1>12, <1>13,
     <1>14, <1>15, <1>16, <1>17, <1>18, <1>19, <1>20, <1>21, <1>22, <1>23, <1>24, <1>25,
     <1>26, <1>27, <1>28, <1>29, <1>30, <1>31, <1>32, <1>33, <1>34, <1>35, <1>36, <1>37,
     <1>38, <1>39, <1>40 DEF Doing

LEMMA EndsKept ==
  ASSUME Typed, Shapes, Holding, Unstarted, FirstJob, Ends, 1 \in Job,
         UploadRunner \notin Request, Served, lost' = lost
  PROVE  Ends'
<1>1. PICK s \in Slot : Doing(s)
  BY ServedDoes
<1>2. CASE BeginStartDoes(s)
  BY <1>2 DEF BeginStartDoes, Unborn, Shapes, Holding, Unstarted, FirstJob, Ends, Others,
     Uploads, Reports, Marking, Table!Active, Becomes, Opens, JobsRest, DataRests,
     AgentRests, Secured, Held
<1>3. CASE CreateJobDoes(s)
  BY <1>3 DEF CreateJobDoes, Gone, Shapes, Holding, Unstarted, FirstJob, Ends, Others,
     Uploads, Reports, Marking, Table!Active, Becomes, Idles, JobGoes, RowRests,
     DataRests, AgentRests, Secured, Held
<1>4. CASE BeginClaimGroupDoes(s)
  BY <1>4 DEF BeginClaimGroupDoes, Shapes, Holding, Unstarted, FirstJob, Ends, Others,
     Uploads, Reports, Marking, Table!Active, Becomes, Opens, JobGoes, RowRests,
     DataRests, AgentRests, Secured, Held
<1>5. CASE ClaimFindDoes(s)
  BY <1>5 DEF ClaimFindDoes, Gone, Shapes, Holding, Unstarted, FirstJob, Ends, Others,
     Uploads, Reports, Marking, Table!Active, Becomes, Steps, Idles, JobsRest, RowRests,
     DataRests, Secured, Held
<1>6. CASE BeginClaimDoes(s)
  BY <1>6 DEF BeginClaimDoes, Shapes, Holding, Unstarted, FirstJob, Ends, Others, Uploads,
     Reports, Marking, Table!Active, Exists, Becomes, Opens, JobsRest, RowRests,
     DataRests, AgentRests, Secured, Held
<1>7. CASE ClaimJobDoes(s)
  BY <1>7 DEF ClaimJobDoes, Gone, Shapes, Holding, Unstarted, FirstJob, Ends, Others,
     Uploads, Reports, Marking, Table!Active, Becomes, Steps, Goes, Idles, JobGoes,
     JobsRest, RowRests, DataRests, AgentRests, Secured, Held
<1>8. CASE ClaimSaveDoes(s)
  BY <1>8 DEF ClaimSaveDoes, Gone, Shapes, Holding, Unstarted, FirstJob, Ends, Others,
     Uploads, Reports, Marking, Table!Active, Becomes, Idles, JobsRest, DataRests,
     Secured, Held
<1>9. CASE BeginHeartbeatDoes(s)
  BY <1>9 DEF BeginHeartbeatDoes, Shapes, Holding, Unstarted, FirstJob, Ends, Others,
     Uploads, Reports, Marking, Table!Active, Becomes, Opens, JobsRest, RowRests,
     DataRests, AgentRests, Secured, Held
<1>10. CASE HeartbeatSaveDoes(s)
  BY <1>10 DEF HeartbeatSaveDoes, Gone, Shapes, Holding, Unstarted, FirstJob, Ends,
     Others, Uploads, Reports, Marking, Table!Active, Becomes, Idles, JobGoes, RowRests,
     DataRests, AgentRests, Secured, Held
<1>11. CASE BeginUploadDoes(s)
  BY <1>11 DEF BeginUploadDoes, Shapes, Holding, Unstarted, FirstJob, Ends, Others,
     Uploads, Reports, Marking, Table!Active, Exists, Becomes, Opens, JobsRest, RowRests,
     DataRests, AgentRests, Secured, Held
<1>12. CASE UploadScopeDoes(s)
  BY <1>12 DEF UploadScopeDoes, Gone, Shapes, Holding, Unstarted, FirstJob, Ends, Others,
     Uploads, Reports, Marking, Table!Active, Becomes, Steps, Goes, Idles, JobsRest,
     RowRests, DataRests, AgentRests, Secured, Held
<1>13. CASE UploadStoreDoes(s)
  BY <1>13 DEF UploadStoreDoes, Gone, Shapes, Holding, Unstarted, FirstJob, Ends, Others,
     Uploads, Reports, Marking, Table!Active, Becomes, Steps, Goes, Idles, JobsRest,
     RowRests, AgentRests, Secured, Held
<1>14. CASE UploadSaveDoes(s)
  BY <1>14 DEF UploadSaveDoes, Gone, Shapes, Holding, Unstarted, FirstJob, Ends, Others,
     Uploads, Reports, Secured, Marking, Table!Active, Becomes, Steps, Goes, Idles,
     JobsRest, DataRests, AgentRests, Held
<1>15. CASE UploadCompleteDoes(s)
  BY <1>15 DEF UploadCompleteDoes, Shapes, Holding, Unstarted, FirstJob, Ends, Others,
     Uploads, Reports, Marking, Table!Active, Becomes, Steps, Goes, JobGoes, JobsRest,
     RowRests, DataRests, AgentRests, Secured, Held
<1>16. CASE UploadEnqueueDoes(s)
  BY <1>16 DEF UploadEnqueueDoes, Gone, Shapes, Holding, Unstarted, FirstJob, Ends,
     Others, Uploads, Reports, Marking, Table!Active, Becomes, Idles, JobsRest, RowRests,
     Secured, Held
<1>17. CASE BeginReportDoes(s)
  BY <1>17 DEF BeginReportDoes, Shapes, Holding, Unstarted, FirstJob, Ends, Others,
     Uploads, Reports, Marking, Table!Active, Exists, Becomes, Opens, JobsRest, RowRests,
     DataRests, AgentRests, Secured, Held
<1>18. CASE ReportEndDoes(s)
  BY <1>18 DEF ReportEndDoes, Gone, Shapes, Holding, Unstarted, FirstJob, Ends, Others,
     Uploads, Reports, Marking, Table!Active, Becomes, Steps, Idles, JobGoes, JobsRest,
     RowRests, DataRests, AgentRests, Secured, Held
<1>19. CASE BeginExpireDoes(s)
  BY <1>19 DEF BeginExpireDoes, Gone, Shapes, Holding, Unstarted, FirstJob, Ends, Others,
     Uploads, Reports, Marking, Table!Active, Becomes, JobGoes, RowRests, DataRests,
     AgentRests, Secured, Held
<1>20. CASE ExpireFindDoes(s)
  BY <1>20 DEF ExpireFindDoes, Gone, Shapes, Holding, Unstarted, FirstJob, Ends, Others,
     Uploads, Reports, Marking, Table!Active, Exists, Becomes, Steps, Idles, JobsRest,
     RowRests, DataRests, AgentRests, Secured, Held
<1>21. CASE MarkChunksDoes(s)
  BY <1>21 DEF MarkChunksDoes, Shapes, Holding, Unstarted, FirstJob, Ends, Others,
     Uploads, Reports, Marking, Table!Active, Becomes, Steps, JobsRest, RowRests,
     DataRests, AgentRests, Secured, Held
<1>22. CASE MarkRereadDoes(s)
  BY <1>22 DEF MarkRereadDoes, Shapes, Holding, Unstarted, FirstJob, Ends, Others,
     Uploads, Reports, Marking, Table!Active, Becomes, Steps, JobsRest, RowRests,
     DataRests, AgentRests, Secured, Held
<1>23. CASE MarkDoes(s)
  BY <1>23 DEF MarkDoes, Gone, Shapes, Holding, Unstarted, FirstJob, Ends, Others,
     Uploads, Reports, Secured, Marking, Table!Active, Becomes, Idles, JobsRest,
     DataRests, AgentRests, Held
<1>24. CASE BeginStopDoes(s)
  BY <1>24 DEF BeginStopDoes, Shapes, Holding, Unstarted, FirstJob, Ends, Others, Uploads,
     Reports, Marking, Table!Active, Exists, Becomes, Opens, JobsRest, RowRests,
     DataRests, AgentRests, Secured, Held
<1>25. CASE StopJobDoes(s)
  BY <1>25 DEF StopJobDoes, Shapes, Holding, Unstarted, FirstJob, Ends, Others, Uploads,
     Reports, Marking, Table!Active, Table!Stoppable, Becomes, Steps, Goes, JobGoes,
     JobsRest, RowRests, DataRests, AgentRests, Secured, Held
<1>26. CASE StopTransitionDoes(s)
  BY <1>26 DEF StopTransitionDoes, Gone, Shapes, Holding, Unstarted, FirstJob, Ends,
     Others, Uploads, Reports, Marking, Table!Active, Becomes, Idles, JobsRest, RowRests,
     DataRests, AgentRests, Secured, Held
<1>27. CASE BeginRetryDoes(s)
  BY <1>27 DEF BeginRetryDoes, Shapes, Holding, Unstarted, FirstJob, Ends, Others,
     Uploads, Reports, Marking, Table!Active, Exists, Becomes, Opens, JobsRest, RowRests,
     DataRests, AgentRests, Secured, Held
<1>28. CASE RetryCreateDoes(s)
  BY <1>28 DEF RetryCreateDoes, Gone, Shapes, Holding, Unstarted, FirstJob, Ends, Others,
     Uploads, Reports, Marking, Table!Active, Becomes, Steps, Goes, Idles, JobGoes,
     JobsRest, RowRests, DataRests, AgentRests, Secured, Held
<1>29. CASE RetrySaveDoes(s)
  BY <1>29 DEF RetrySaveDoes, Gone, Shapes, Holding, Unstarted, FirstJob, Ends, Others,
     Uploads, Reports, Marking, Table!Active, Becomes, Idles, JobsRest, DataRests,
     AgentRests, Secured, Held
<1>30. CASE BeginDeleteDoes(s)
  BY <1>30 DEF BeginDeleteDoes, Shapes, Holding, Unstarted, FirstJob, Ends, Others,
     Uploads, Reports, Marking, Table!Active, Exists, Becomes, Opens, JobsRest, RowRests,
     DataRests, AgentRests, Secured, Held
<1>31. CASE DeleteFileDoes(s)
  BY <1>31 DEF DeleteFileDoes, Shapes, Holding, Unstarted, FirstJob, Ends, Others,
     Uploads, Reports, Marking, Table!Active, Becomes, Steps, Goes, JobsRest, RowRests,
     AgentRests, Secured, Held
<1>32. CASE PurgeChunksDoes(s)
  BY <1>32 DEF PurgeChunksDoes, Shapes, Holding, Unstarted, FirstJob, Ends, Others,
     Uploads, Reports, Marking, Table!Active, Becomes, Steps, Goes, JobsRest, RowRests,
     AgentRests, Secured, Held
<1>33. CASE DeleteJobsDoes(s)
  BY <1>33 DEF DeleteJobsDoes, Shapes, Holding, Unstarted, FirstJob, Ends, Others,
     Uploads, Reports, Marking, Table!Active, Becomes, Steps, Goes, RowRests, DataRests,
     AgentRests, Secured, Held
<1>34. CASE PurgeItemsDoes(s)
  BY <1>34 DEF PurgeItemsDoes, Shapes, Holding, Unstarted, FirstJob, Ends, Others,
     Uploads, Reports, Marking, Table!Active, Becomes, Steps, Goes, JobsRest, RowRests,
     AgentRests, Secured, Held
<1>35. CASE DeleteRowDoes(s)
  BY <1>35 DEF DeleteRowDoes, Gone, Shapes, Holding, Unstarted, FirstJob, Ends, Others,
     Uploads, Reports, Marking, Table!Active, Exists, Becomes, Idles, JobsRest, RowRests,
     DataRests, AgentRests, Secured, Held
<1>36. CASE RunnerAttemptDoes(s)
  BY <1>36 DEF RunnerAttemptDoes, Gone, Shapes, Holding, Unstarted, FirstJob, Ends,
     Others, Uploads, Reports, Marking, Table!Active, Becomes, JobsRest, RowRests,
     AgentRests, Secured, Held
<1>37. CASE RunnerSettledDoes(s)
  BY <1>37 DEF RunnerSettledDoes, Gone, Shapes, Holding, Unstarted, FirstJob, Ends,
     Others, Uploads, Reports, Marking, Table!Active, Becomes, Steps, Idles, JobsRest,
     RowRests, DataRests, AgentRests, Secured, Held
<1>38. CASE RunnerRereadDoes(s)
  BY <1>38 DEF RunnerRereadDoes, Gone, Shapes, Holding, Unstarted, FirstJob, Ends, Others,
     Uploads, Reports, Secured, Marking, Table!Active, Becomes, Steps, Idles, JobsRest,
     RowRests, DataRests, AgentRests, Held
<1>39. CASE RunnerReleaseDoes(s)
  BY <1>39 DEF RunnerReleaseDoes, Shapes, Holding, Unstarted, FirstJob, Ends, Others,
     Uploads, Reports, Marking, Table!Active, Becomes, Steps, JobsRest, RowRests,
     AgentRests, Secured, Held
<1>40. CASE RunnerPromoteDoes(s)
  BY <1>40 DEF RunnerPromoteDoes, Gone, Shapes, Holding, Unstarted, FirstJob, Ends,
     Others, Uploads, Reports, Secured, Marking, Table!Active, Becomes, Idles, JobsRest,
     DataRests, AgentRests, Held
<1> QED
  BY <1>1, <1>2, <1>3, <1>4, <1>5, <1>6, <1>7, <1>8, <1>9, <1>10, <1>11, <1>12, <1>13,
     <1>14, <1>15, <1>16, <1>17, <1>18, <1>19, <1>20, <1>21, <1>22, <1>23, <1>24, <1>25,
     <1>26, <1>27, <1>28, <1>29, <1>30, <1>31, <1>32, <1>33, <1>34, <1>35, <1>36, <1>37,
     <1>38, <1>39, <1>40 DEF Doing

LEMMA DeletesKept ==
  ASSUME Typed, Shapes, Deletes, 1 \in Job, UploadRunner \notin Request, Served,
         met' = (met \/ Meeting')
  PROVE  Deletes'
<1>1. PICK s \in Slot : Doing(s)
  BY ServedDoes
<1> SUFFICES ASSUME ~met' PROVE Deletes'
  BY DEF Deletes
<1>0. /\ ~met /\ DOMAIN slot' = Slot
      /\ \A a \in Slot, t \in Slot :
           slot'[a].op = "delete" /\ t # a /\ t # UploadRunner => slot'[t].pc = "idle"
  <2>1. ~met /\ ~Meeting'
    OBVIOUS
  <2>2. DOMAIN slot' = Slot
    BY ServedDoes DEF Typed
  <2> QED
    BY <2>1, <2>2 DEF Meeting
<1>2. CASE BeginStartDoes(s)
  BY <1>0, <1>2 DEF BeginStartDoes, Shapes, Deletes, Clean, Unborn, Slot, Becomes, Opens,
     JobsRest, DataRests, AgentRests, Secured, Uploads
<1>3. CASE CreateJobDoes(s)
  BY <1>0, <1>3 DEF CreateJobDoes, Shapes, Deletes, Clean, Gone, Slot, Becomes, Idles,
     JobGoes, RowRests, DataRests, AgentRests, Secured, Uploads
<1>4. CASE BeginClaimGroupDoes(s)
  BY <1>0, <1>4 DEF BeginClaimGroupDoes, Shapes, Deletes, Clean, Slot, Becomes, Opens,
     JobGoes, RowRests, DataRests, AgentRests, Secured, Uploads
<1>5. CASE ClaimFindDoes(s)
  BY <1>0, <1>5 DEF ClaimFindDoes, Shapes, Deletes, Clean, Gone, Slot, Becomes, Steps,
     Idles, JobsRest, RowRests, DataRests, Secured, Uploads
<1>6. CASE BeginClaimDoes(s)
  BY <1>0, <1>6 DEF BeginClaimDoes, Shapes, Deletes, Clean, Exists, Slot, Becomes, Opens,
     JobsRest, RowRests, DataRests, AgentRests, Secured, Uploads
<1>7. CASE ClaimJobDoes(s)
  BY <1>0, <1>7 DEF ClaimJobDoes, Shapes, Deletes, Clean, Gone, Slot, Becomes, Steps,
     Goes, Idles, JobGoes, JobsRest, RowRests, DataRests, AgentRests, Secured, Uploads
<1>8. CASE ClaimSaveDoes(s)
  BY <1>0, <1>8 DEF ClaimSaveDoes, Shapes, Deletes, Clean, Gone, Slot, Becomes, Idles,
     JobsRest, DataRests, Secured, Uploads
<1>9. CASE BeginHeartbeatDoes(s)
  <2>1. \E j \in Job : jobs[j] = "running"
    BY <1>9 DEF BeginHeartbeatDoes, Typed
  <2> QED
    BY <1>0, <1>9, <2>1 DEF BeginHeartbeatDoes, Shapes, Deletes, Clean, Slot, Becomes,
       Opens, JobsRest, RowRests, DataRests, AgentRests, Secured, Uploads
<1>10. CASE HeartbeatSaveDoes(s)
  BY <1>0, <1>10 DEF HeartbeatSaveDoes, Shapes, Deletes, Clean, Gone, Slot, Becomes,
     Idles, JobGoes, RowRests, DataRests, AgentRests, Secured, Uploads
<1>11. CASE BeginUploadDoes(s)
  BY <1>0, <1>11 DEF BeginUploadDoes, Shapes, Deletes, Clean, Exists, Uploads, Slot,
     Becomes, Opens, JobsRest, RowRests, DataRests, AgentRests, Secured
<1>12. CASE UploadScopeDoes(s)
  BY <1>0, <1>12 DEF UploadScopeDoes, Shapes, Deletes, Clean, Uploads, Gone, Slot,
     Becomes, Steps, Goes, Idles, JobsRest, RowRests, DataRests, AgentRests, Secured
<1>13. CASE UploadStoreDoes(s)
  BY <1>0, <1>13 DEF UploadStoreDoes, Shapes, Deletes, Clean, Uploads, Gone, Slot,
     Becomes, Steps, Goes, Idles, JobsRest, RowRests, AgentRests, Secured
<1>14. CASE UploadSaveDoes(s)
  BY <1>0, <1>14 DEF UploadSaveDoes, Shapes, Deletes, Clean, Secured, Uploads, Gone, Slot,
     Becomes, Steps, Goes, Idles, JobsRest, DataRests, AgentRests
<1>15. CASE UploadCompleteDoes(s)
  BY <1>0, <1>15 DEF UploadCompleteDoes, Shapes, Deletes, Clean, Uploads, Slot,
     Table!Active, Becomes, Steps, Goes, JobGoes, JobsRest, RowRests, DataRests,
     AgentRests, Secured
<1>16. CASE UploadEnqueueDoes(s)
  BY <1>0, <1>16 DEF UploadEnqueueDoes, Shapes, Deletes, Clean, Uploads, Gone, Slot,
     Becomes, Idles, JobsRest, RowRests, Secured
<1>17. CASE BeginReportDoes(s)
  BY <1>0, <1>17 DEF BeginReportDoes, Shapes, Deletes, Clean, Exists, Reports, Slot,
     Becomes, Opens, JobsRest, RowRests, DataRests, AgentRests, Secured, Uploads
<1>18. CASE ReportEndDoes(s)
  BY <1>0, <1>18 DEF ReportEndDoes, Shapes, Deletes, Clean, Reports, Gone, Slot,
     Table!Active, Becomes, Steps, Idles, JobGoes, JobsRest, RowRests, DataRests,
     AgentRests, Secured, Uploads
<1>19. CASE BeginExpireDoes(s)
  BY <1>0, <1>19 DEF BeginExpireDoes, Shapes, Deletes, Clean, Gone, Slot, Becomes,
     JobGoes, RowRests, DataRests, AgentRests, Secured, Uploads
<1>20. CASE ExpireFindDoes(s)
  BY <1>0, <1>20 DEF ExpireFindDoes, Shapes, Deletes, Clean, Exists, Gone, Slot, Becomes,
     Steps, Idles, JobsRest, RowRests, DataRests, AgentRests, Secured, Uploads
<1>21. CASE MarkChunksDoes(s)
  BY <1>0, <1>21 DEF MarkChunksDoes, Shapes, Deletes, Clean, Reports, Slot, Becomes,
     Steps, JobsRest, RowRests, DataRests, AgentRests, Secured, Uploads
<1>22. CASE MarkRereadDoes(s)
  BY <1>0, <1>22 DEF MarkRereadDoes, Shapes, Deletes, Clean, Reports, Slot, Becomes,
     Steps, JobsRest, RowRests, DataRests, AgentRests, Secured, Uploads
<1>23. CASE MarkDoes(s)
  BY <1>0, <1>23 DEF MarkDoes, Shapes, Deletes, Clean, Secured, Reports, Gone, Slot,
     Becomes, Idles, JobsRest, DataRests, AgentRests, Uploads
<1>24. CASE BeginStopDoes(s)
  BY <1>0, <1>24 DEF BeginStopDoes, Shapes, Deletes, Clean, Exists, Slot, Becomes, Opens,
     JobsRest, RowRests, DataRests, AgentRests, Secured, Uploads
<1>25. CASE StopJobDoes(s)
  BY <1>0, <1>25 DEF StopJobDoes, Shapes, Deletes, Clean, Slot, Table!Stoppable, Becomes,
     Steps, Goes, JobGoes, JobsRest, RowRests, DataRests, AgentRests, Secured, Uploads
<1>26. CASE StopTransitionDoes(s)
  BY <1>0, <1>26 DEF StopTransitionDoes, Shapes, Deletes, Clean, Gone, Slot, Becomes,
     Idles, JobsRest, RowRests, DataRests, AgentRests, Secured, Uploads
<1>27. CASE BeginRetryDoes(s)
  BY <1>0, <1>27 DEF BeginRetryDoes, Shapes, Deletes, Clean, Exists, Slot, Becomes, Opens,
     JobsRest, RowRests, DataRests, AgentRests, Secured, Uploads
<1>28. CASE RetryCreateDoes(s)
  BY <1>0, <1>28 DEF RetryCreateDoes, Shapes, Deletes, Clean, Gone, Slot, Becomes, Steps,
     Goes, Idles, JobGoes, JobsRest, RowRests, DataRests, AgentRests, Secured, Uploads
<1>29. CASE RetrySaveDoes(s)
  BY <1>0, <1>29 DEF RetrySaveDoes, Shapes, Deletes, Clean, Gone, Slot, Becomes, Idles,
     JobsRest, DataRests, AgentRests, Secured, Uploads
<1>30. CASE BeginDeleteDoes(s)
  BY <1>0, <1>30 DEF BeginDeleteDoes, Shapes, Deletes, Clean, Exists, Slot, Becomes,
     Opens, JobsRest, RowRests, DataRests, AgentRests, Secured, Uploads
<1>31. CASE DeleteFileDoes(s)
  BY <1>0, <1>31 DEF DeleteFileDoes, Shapes, Deletes, Clean, Slot, Becomes, Steps, Goes,
     JobsRest, RowRests, AgentRests, Secured, Uploads
<1>32. CASE PurgeChunksDoes(s)
  BY <1>0, <1>32 DEF PurgeChunksDoes, Shapes, Deletes, Clean, Slot, Becomes, Steps, Goes,
     JobsRest, RowRests, AgentRests, Secured, Uploads
<1>33. CASE DeleteJobsDoes(s)
  BY <1>0, <1>33 DEF DeleteJobsDoes, Shapes, Deletes, Clean, Slot, Becomes, Steps, Goes,
     RowRests, DataRests, AgentRests, Secured, Uploads
<1>34. CASE PurgeItemsDoes(s)
  BY <1>0, <1>34 DEF PurgeItemsDoes, Shapes, Deletes, Clean, Slot, Becomes, Steps, Goes,
     JobsRest, RowRests, AgentRests, Secured, Uploads
<1>35. CASE DeleteRowDoes(s)
  BY <1>0, <1>35 DEF DeleteRowDoes, Shapes, Deletes, Clean, Exists, Gone, Slot, Becomes,
     Idles, JobsRest, RowRests, DataRests, AgentRests, Secured, Uploads
<1>36. CASE RunnerAttemptDoes(s)
  BY <1>0, <1>36 DEF RunnerAttemptDoes, Shapes, Deletes, Clean, Gone, Slot, Becomes,
     JobsRest, RowRests, AgentRests, Secured, Uploads
<1>37. CASE RunnerSettledDoes(s)
  BY <1>0, <1>37 DEF RunnerSettledDoes, Shapes, Deletes, Clean, Gone, Slot, Becomes,
     Steps, Idles, JobsRest, RowRests, DataRests, AgentRests, Secured, Uploads
<1>38. CASE RunnerRereadDoes(s)
  BY <1>0, <1>38 DEF RunnerRereadDoes, Shapes, Deletes, Clean, Secured, Gone, Slot,
     Becomes, Steps, Idles, JobsRest, RowRests, DataRests, AgentRests, Uploads
<1>39. CASE RunnerReleaseDoes(s)
  BY <1>0, <1>39 DEF RunnerReleaseDoes, Shapes, Deletes, Clean, Slot, Becomes, Steps,
     JobsRest, RowRests, AgentRests, Secured, Uploads
<1>40. CASE RunnerPromoteDoes(s)
  BY <1>0, <1>40 DEF RunnerPromoteDoes, Shapes, Deletes, Clean, Secured, Gone, Slot,
     Becomes, Idles, JobsRest, DataRests, AgentRests, Uploads
<1> QED
  BY <1>1, <1>2, <1>3, <1>4, <1>5, <1>6, <1>7, <1>8, <1>9, <1>10, <1>11, <1>12, <1>13,
     <1>14, <1>15, <1>16, <1>17, <1>18, <1>19, <1>20, <1>21, <1>22, <1>23, <1>24, <1>25,
     <1>26, <1>27, <1>28, <1>29, <1>30, <1>31, <1>32, <1>33, <1>34, <1>35, <1>36, <1>37,
     <1>38, <1>39, <1>40 DEF Doing

LEMMA FaultKeeps ==
  ASSUME Typed, Shapes, Holding, Unstarted, FirstJob, Unsecured, Deletes, 1 \in Job,
         UploadRunner \notin Request, Fault, met' = (met \/ Meeting')
  PROVE  Typed' /\ Shapes' /\ Holding' /\ Unstarted' /\ FirstJob' /\ Unsecured' /\ Deletes'
<1>1. /\ JobsRest /\ RowRests /\ DataRests /\ AgentRests /\ Typed'
      /\ \A s \in Slot : \/ slot'[s] = slot[s]
                       \/ /\ slot'[s].op = "none" /\ slot'[s].pc = "idle" /\ slot'[s].job = 0
                          /\ slot'[s].copy = Gone /\ slot'[s].flag = FALSE
  <2>1. CASE \E s \in Slot : StoreFails(s)
    <3>1. PICK s \in Slot : Typed' /\ StoreFailsDoes(s)
      BY <2>1, StoreFailsMoves
    <3> QED
      BY <3>1 DEF StoreFailsDoes, Idles, Becomes
  <2>2. CASE Restart
    <3>1. JobsRest /\ Table!TypeOK'
      BY <2>2, JobsStill DEF Restart
    <3>2. Idle \in SlotState /\ Idle.op = "none" /\ Idle.pc = "idle" /\ Idle.job = 0
            /\ Idle.copy = Gone /\ Idle.flag = FALSE
      BY DEF Idle, SlotState, Ops, Gone, Row, Status
    <3>3. slot' = [s \in Slot |-> Idle] /\ UNCHANGED <<row, data, agent>>
      BY <2>2 DEF Restart
    <3>4. \A s \in Slot : slot'[s] = Idle
      BY <3>3
    <3>5. slot' \in [Slot -> SlotState]
      BY <3>2, <3>3
    <3> QED
      BY <3>1, <3>2, <3>3, <3>4, <3>5 DEF Typed, RowRests, DataRests, AgentRests, data,
         agent
  <2> QED
    BY <2>1, <2>2 DEF Fault
<1>2. Shapes'
  BY <1>1 DEF Shapes, Uploads
<1>3. Holding'
  BY <1>1 DEF Holding, Held, Uploads, Reports, JobsRest, AgentRests
<1>4. Unstarted' /\ FirstJob'
  BY <1>1 DEF Unstarted, FirstJob, Held, Others, JobsRest, RowRests, DataRests
<1>5. Unsecured'
  BY <1>1 DEF Unsecured, AgentRests, RowRests, DataRests, Gone, Secured
<1>6. ASSUME ~met' PROVE Deletes'
  <2>1. ~met
    BY <1>6
  <2>2. \A s \in Slot : slot'[s].op = "delete" => slot'[s] = slot[s]
    BY <1>1
  <2>3. \A s \in Slot : slot[s].pc = "idle" => slot'[s].pc = "idle"
    BY <1>1
  <2>4. row' = row /\ chunks' = chunks /\ items' = items /\ jobs' = jobs
    BY <1>1 DEF RowRests, DataRests, JobsRest
  <2> QED
    BY <2>1, <2>2, <2>3, <2>4 DEF Deletes, Clean, Slot
<1> QED
  BY <1>1, <1>2, <1>3, <1>4, <1>5, <1>6 DEF Deletes

------------------------------------------------------------------------------
(* The inductive invariant and the theorems *)

Inv ==
  /\ TypeOK /\ Shapes /\ Holding /\ Unstarted /\ FirstJob /\ Unsecured /\ Ends /\ Deletes

LEMMA InitInv ==
  ASSUME Init
  PROVE  Inv
<1> DEFINE idle == Idle
<1>1. /\ Idle \in SlotState /\ Idle.op = "none" /\ Idle.pc = "idle" /\ Idle.job = 0
      /\ Idle.copy = Gone /\ Idle.flag = FALSE
  BY DEF Idle, SlotState, Ops, Gone, Row, Status
<1>2. \A s \in Slot : slot[s] = Idle
  BY DEF Init
<1>3. row = Unborn /\ Unborn \in Row /\ row.status = "unborn"
  BY DEF Init, Unborn, Row, Status
<1>4. /\ jobs \in [Job -> JobStatus] /\ \A j \in Job : jobs[j] = "unborn"
      /\ claimed = {} /\ known = {} /\ acked = {} /\ items = {} /\ chunks = FALSE /\ file = FALSE
      /\ lost = FALSE /\ met = FALSE
  BY DEF Init, Table!Init, JobStatus
<1>5. 1 \in Job
  BY RecordingsAssumption DEF Job
<1>6. TypeOK
  BY <1>1, <1>3, <1>4 DEF Init, TypeOK, Table!TypeOK, JobStatus
<1>7. Shapes
  BY <1>1, <1>2 DEF Shapes, Uploads
<1>8. Holding /\ Unstarted
  BY <1>1, <1>2, <1>3, <1>4 DEF Holding, Held, Uploads, Reports, Unstarted
<1>9. FirstJob /\ Others
  BY <1>1, <1>2, <1>4, <1>5 DEF FirstJob, Held, Others
<1>10. Unsecured
  BY <1>1, <1>2, <1>3, <1>4 DEF Unsecured, Gone, Secured
<1>11. Ends
  BY <1>1, <1>2, <1>3, <1>4 DEF Ends, Uploads
<1>12. Deletes
  BY <1>1, <1>2, <1>3, <1>4 DEF Deletes
<1> QED
  BY <1>6, <1>7, <1>8, <1>9, <1>10, <1>11, <1>12 DEF Inv

LEMMA NextInv ==
  ASSUME Inv, [Next]_<<vars, history>>
  PROVE  Inv'
<1>1. 1 \in Job /\ UploadRunner \notin Request /\ Typed
  BY RecordingsAssumption DEF Job, Inv, TypeOK, Typed
<1>2. CASE Served /\ UNCHANGED lost /\ met' = (met \/ Meeting')
  <2>1. Typed' /\ Shapes' /\ Holding' /\ Unstarted' /\ FirstJob' /\ Unsecured' /\ Ends'
          /\ Deletes'
    BY <1>1, <1>2, ServedDoes, ShapesKept, HoldingKept, UnstartedKept, FirstJobKept,
       UnsecuredKept,
       EndsKept, DeletesKept DEF Inv
  <2>2. lost' \in BOOLEAN /\ met' \in BOOLEAN
    BY <1>2 DEF Inv, TypeOK
  <2> QED
    BY <2>1, <2>2 DEF Inv, TypeOK, Typed
<1>3. CASE Fault /\ lost' = TRUE /\ met' = (met \/ Meeting')
  <2>1. Typed' /\ Shapes' /\ Holding' /\ Unstarted' /\ FirstJob' /\ Unsecured' /\ Deletes'
    BY <1>1, <1>3, FaultKeeps DEF Inv
  <2>2. lost' \in BOOLEAN /\ met' \in BOOLEAN
    BY <1>3 DEF Inv, TypeOK
  <2>3. Ends'
    BY <1>3 DEF Ends
  <2> QED
    BY <2>1, <2>2, <2>3 DEF Inv, TypeOK, Typed
<1>4. CASE UNCHANGED <<vars, history>>
  BY <1>4 DEF Inv, TypeOK, Table!TypeOK, Shapes, Holding, Held, Unstarted, FirstJob,
     Others, Unsecured, Ends,
     Deletes, Clean, vars, history, data, agent
<1> QED
  BY <1>2, <1>3, <1>4 DEF Next

LEMMA InvHolds ==
  Spec => []Inv
<1>1. Init => Inv
  BY InitInv
<1>2. Inv /\ [Next]_<<vars, history>> => Inv'
  BY NextInv
<1> QED
  BY <1>1, <1>2, PTL DEF Spec

\* Type correctness of one recording's row, its requests, its jobs and its audio
\* (recording-row of the controller's store), for any number of requests and
\* retries.
THEOREM RecordingsTyped ==
  Spec => []TypeOK
<1>1. Inv => TypeOK
  BY DEF Inv
<1> QED
  BY <1>1, InvHolds, PTL

\* RowsHold: a recording shown as recording has a job that can still end it, once
\* nothing is in flight and nothing failed; and a deleted recording leaves nothing
\* behind, even when the controller died half way through the deletion.
THEOREM RowsHoldAlways ==
  Spec => []RowsHold
<1>1. ASSUME Inv PROVE RowsHold
  <2>1. DOMAIN slot = Slot
    BY <1>1 DEF Inv, TypeOK
  <2>2. ActiveHasJob
    BY <1>1, <2>1 DEF ActiveHasJob, Quiet, Inv, Ends, Others, Marking
  <2>3. DeleteLeavesNothing
    BY <1>1, <2>1 DEF DeleteLeavesNothing, Quiet, Inv, Deletes, Clean, Gone
  <2> QED
    BY <2>2, <2>3 DEF RowsHold
<1> QED
  BY <1>1, InvHolds, PTL

\* DowngradesSettled: but for a retry, the claim of its job and a deletion, secured
\* audio is downgraded only by a write built on a copy from before it was secured.
THEOREM DowngradesHold ==
  Spec => DowngradesSettled
<1> DEFINE Settled(s) ==
             /\ slot'[s] # slot[s]
             /\ \/ slot[s].op \in {"retry", "delete"}
                \/ slot[s].op \in {"claim", "claimGroup"} /\ slot[s].job # 1
                \/ slot[s].pc \in {"save", "mark"} /\ slot[s].copy.status \notin Secured
<1>1. ASSUME Inv, [Next]_<<vars, history>>, row.status \in Secured, row'.status \notin Secured
      PROVE  \E s \in DOMAIN slot : Settled(s)
  <2>1. 1 \in Job /\ Typed /\ DOMAIN slot = Slot
    BY <1>1, RecordingsAssumption DEF Job, Inv, TypeOK, Typed
  <2>2. CASE Fault
    BY <1>1, <2>2 DEF Fault, StoreFails, Restart
  <2>3. CASE UNCHANGED <<vars, history>>
    BY <1>1, <2>3 DEF vars
  <2>4. CASE Served
    <3>0. PICK s \in Slot : Doing(s)
      BY <1>1, <2>1, <2>4, ServedDoes DEF Inv
    <3> SUFFICES Settled(s)
      BY <2>1
    <3>1. CASE BeginStartDoes(s)
      BY <1>1, <2>1, <3>1 DEF BeginStartDoes, Idles, Goes, Steps, Becomes, RowRests,
         Unborn, Secured
    <3>2. CASE ClaimSaveDoes(s)
      BY <1>1, <2>1, <3>2 DEF ClaimSaveDoes, Idles, Goes, Steps, Becomes, RowRests, Inv,
         Shapes, Holding, FirstJob, Unsecured, Held, Others
    <3>3. CASE UploadSaveDoes(s)
      BY <1>1, <2>1, <3>3 DEF UploadSaveDoes, Idles, Goes, Steps, Becomes, RowRests,
         Secured, Inv, Shapes
    <3>4. CASE MarkDoes(s)
      BY <1>1, <2>1, <3>4 DEF MarkDoes, Idles, Goes, Steps, Becomes, RowRests, Secured,
         Inv, Shapes
    <3>5. CASE StopTransitionDoes(s)
      BY <1>1, <2>1, <3>5 DEF StopTransitionDoes, Idles, Goes, Steps, Becomes, RowRests,
         Secured, Inv, Shapes
    <3>6. CASE RetrySaveDoes(s)
      BY <1>1, <2>1, <3>6 DEF RetrySaveDoes, Idles, Goes, Steps, Becomes, RowRests, Shapes
    <3>7. CASE DeleteRowDoes(s)
      BY <1>1, <2>1, <3>7 DEF DeleteRowDoes, Idles, Goes, Steps, Becomes, RowRests, Shapes
    <3>8. CASE RunnerPromoteDoes(s)
      BY <1>1, <2>1, <3>8 DEF RunnerPromoteDoes, Idles, Goes, Steps, Becomes, RowRests,
         Secured, Inv, Shapes
    <3> QED
      BY <1>1, <3>0, <3>1, <3>2, <3>3, <3>4, <3>5, <3>6, <3>7, <3>8 DEF RowRests, Doing,
         CreateJobDoes, BeginClaimGroupDoes, ClaimFindDoes, BeginClaimDoes, ClaimJobDoes,
         BeginHeartbeatDoes, HeartbeatSaveDoes, BeginUploadDoes, UploadScopeDoes,
         UploadStoreDoes, UploadCompleteDoes, UploadEnqueueDoes, BeginReportDoes,
         ReportEndDoes, BeginExpireDoes, ExpireFindDoes, MarkChunksDoes, MarkRereadDoes,
         BeginStopDoes, StopJobDoes, BeginRetryDoes, RetryCreateDoes, BeginDeleteDoes,
         DeleteFileDoes, PurgeChunksDoes, DeleteJobsDoes, PurgeItemsDoes,
         RunnerAttemptDoes, RunnerSettledDoes, RunnerRereadDoes, RunnerReleaseDoes
  <2> QED
    BY <1>1, <2>2, <2>3, <2>4 DEF Next
<1>2. Inv /\ [Next]_<<vars, history>> =>
        [row.status \in Secured /\ row'.status \notin Secured
           => \E s \in DOMAIN slot : Settled(s)]_vars
  BY <1>1
<1> QED
  BY <1>2, InvHolds, PTL DEF Spec, DowngradesSettled
=============================================================================
