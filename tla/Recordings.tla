------------------------------ MODULE Recordings ------------------------------
(***************************************************************************)
(* One row of the controller's recordings table beside the jobs that       *)
(* capture it, its audio in the controller's cache and its upload items.   *)
(* The job table itself is RecordingJobs; here its calls are the single    *)
(* steps of JobLifecycle, which it implements.  A request is a slot with a *)
(* program counter: between two awaits nothing else runs, and each step    *)
(* does one store call (and the find before a compare-and-set that checks  *)
(* the same again).  Rows are written whole: find returns a copy, save     *)
(* upserts the copy whatever happened to the row since, transition does so *)
(* only from an allowed stored status.                                     *)
(*                                                                         *)
(* The agent is any client holding a job that a claim gave it: it may      *)
(* upload, replay an upload, report or fall silent in any order.           *)
(***************************************************************************)
EXTENDS Naturals, FiniteSets

CONSTANTS
  Calls,         \* bound: the calls made in a run, "outage" and "restart" too
  MaxJobs,       \* bound: the first job of the recording and its retries
  Request,       \* request slots: how many HTTP requests may be in flight
  UploadRunner   \* the slot of the upload runner, which runs one pass at a time

ASSUME RecordingsAssumption ==
  /\ MaxJobs \in Nat \ {0}
  /\ UploadRunner \notin Request

Job == 1 .. MaxJobs
Slot == Request \cup {UploadRunner}

Secured == {"cached", "uploaded", "partial"}  \* RECONCILABLE_RECORDING_STATUSES
Status == Secured \cup {"unborn", "recording", "completed", "failed", "gone"}

\* What the properties tell apart of RecordingSummary: its status, and whether
\* it names a cached audio file (cached, cachePath, checksum).
Row == [status : Status, cached : BOOLEAN]

VARIABLES
  row,       \* the row; "unborn" before it is inserted, "gone" once deleted
  file,      \* the primary audio file is in the controller's cache
  chunks,    \* some chunk of a chunked recording is stored and cached
  items,     \* the statuses of its upload items: due (queued or retrying), ...
  jobs,      \* the lifecycle status of each of its jobs
  claimed,   \* jobs that were claimed
  known,     \* jobs an agent holds, having received the answer to a claim
  acked,     \* jobs whose primary upload was answered 201
  skipped,   \* jobs whose upload was answered 201 although its enqueue failed
  slot,      \* the requests in flight
  lost,      \* history: a failure or a restart cut a request off
  met        \* history: a deletion was in flight beside another request

vars == <<row, file, chunks, items, jobs, claimed, known, acked, skipped, slot>>
data == <<file, chunks, items>>
agent == <<known, acked, skipped>>
history == <<lost, met>>

Table == INSTANCE JobLifecycle WITH Job <- Job, status <- jobs,
                                    claimed <- claimed

Uploads == {"upload", "raw", "chunk", "lastChunk"}
Reports == {"reportFailed", "reportCancelled"}
Ops == Uploads \cup Reports \cup
       {"none", "start", "claimGroup", "claim", "heartbeat", "expire", "stop",
        "retry", "delete", "runner"}

Unborn == [status |-> "unborn", cached |-> FALSE]
Gone == [status |-> "gone", cached |-> FALSE]
Idle == [op |-> "none", pc |-> "idle", job |-> 0, copy |-> Gone,
         verdict |-> "none", flag |-> FALSE]

SlotState ==
  [op : Ops,
   pc : {"idle", "create", "find", "claim", "save", "scope", "store",
         "complete", "enqueue", "end", "exists", "chunks", "reread", "mark",
         "job", "transition", "file", "jobs", "items", "row", "settled",
         "release"},
   job : Job \cup {0},
   copy : Row,                                  \* the row this request read
   verdict : {"none", "failed", "cancelled"},   \* terminalState of a marking
   flag : BOOLEAN]   \* hasPreservedChunks, or: some destination failed

TypeOK ==
  /\ row \in Row
  /\ file \in BOOLEAN
  /\ chunks \in BOOLEAN
  /\ items \subseteq {"due", "succeeded", "failed"}
  /\ Table!TypeOK
  /\ known \subseteq Job
  /\ acked \subseteq Job
  /\ skipped \subseteq Job
  /\ slot \in [Slot -> SlotState]
  /\ lost \in BOOLEAN /\ met \in BOOLEAN

Init ==
  /\ row = Unborn
  /\ file = FALSE
  /\ chunks = FALSE
  /\ items = {}
  /\ Table!Init
  /\ known = {}
  /\ acked = {}
  /\ skipped = {}
  /\ slot = [s \in Slot |-> Idle]
  /\ lost = FALSE /\ met = FALSE

------------------------------------------------------------------------------
(* Slots *)

Exists == row.status \notin {"unborn", "gone"}

Begin(s, op, j, pc) ==
  /\ op \in Calls
  /\ s \in Request
  /\ slot[s].pc = "idle"
  /\ slot' = [slot EXCEPT ![s] = [Idle EXCEPT !.op = op, !.job = j, !.pc = pc,
                                              !.copy = row]]

At(s, ops, pc) == slot[s].op \in ops /\ slot[s].pc = pc
Become(s, q) == slot' = [slot EXCEPT ![s] = q]
Goto(s, pc) == Become(s, [slot[s] EXCEPT !.pc = pc])
Finish(s) == Become(s, Idle)

JobsStay == UNCHANGED <<jobs, claimed>>

------------------------------------------------------------------------------
(* Start: the row is inserted with status "recording", then its first job *)

BeginStart(s) ==
  /\ row = Unborn
  /\ Begin(s, "start", 1, "create")
  /\ row' = [status |-> "recording", cached |-> FALSE]
  /\ JobsStay /\ UNCHANGED <<data, agent>>

CreateJob(s) ==
  /\ At(s, {"start"}, "create")
  /\ Table!Queue(slot[s].job)
  /\ Finish(s)
  /\ UNCHANGED <<row, data, agent>>

------------------------------------------------------------------------------
(* Claims.  claim-next-group claims, then reads the row and saves it; the   *)
(* other two read the row first, claim, and save that earlier copy.         *)

BeginClaimGroup(s) ==
  \E j \in Job :
    /\ Begin(s, "claimGroup", j, "find")
    /\ Table!Claim(j)
    /\ UNCHANGED <<row, data, agent>>

ClaimFind(s) ==
  /\ At(s, {"claimGroup"}, "find")
  /\ IF Exists
     THEN Become(s, [slot[s] EXCEPT !.pc = "save", !.copy = row])
          /\ UNCHANGED known
     ELSE Finish(s) /\ known' = known \cup {slot[s].job}
  /\ JobsStay /\ UNCHANGED <<row, data, acked, skipped>>

BeginClaim(s) ==
  \E j \in Job :
    /\ Exists
    /\ jobs[j] = "queued"
    /\ Begin(s, "claim", j, "claim")
    /\ JobsStay /\ UNCHANGED <<row, data, agent>>

ClaimJob(s) ==
  /\ At(s, {"claim"}, "claim")
  /\ \/ Table!Claim(slot[s].job) /\ Goto(s, "save")
     \/ jobs[slot[s].job] # "queued" /\ Finish(s) /\ JobsStay
  /\ UNCHANGED <<row, data, agent>>

ClaimSave(s) ==
  /\ At(s, {"claimGroup", "claim"}, "save")
  /\ row' = [slot[s].copy EXCEPT !.status = "recording"]
  /\ known' = known \cup {slot[s].job}
  /\ Finish(s)
  /\ JobsStay /\ UNCHANGED <<data, acked, skipped>>

BeginHeartbeat(s) ==
  \E j \in known :
    /\ jobs[j] = "running"
    /\ Begin(s, "heartbeat", j, "save")
    /\ JobsStay /\ UNCHANGED <<row, data, agent>>

HeartbeatSave(s) ==
  /\ At(s, {"heartbeat"}, "save")
  /\ Table!Renew(slot[s].job)
  /\ Finish(s)
  /\ UNCHANGED <<row, data, agent>>

------------------------------------------------------------------------------
(* The cache-file PUT.  The row is read first; the body streams in between  *)
(* the checks and the save of that copy.  The agent sends the raw master    *)
(* once the primary upload was acknowledged.                                *)

\* Mutant: a replay for a completed job is turned away like a late one.
ScopeOpenOnly(j) == jobs[j] \in Table!Active

\* agentCacheFileJobScope: not for a missing, failed or cancelled job.
ScopeAllows(j) == jobs[j] \in Table!Active \cup {"completed"}

BeginUpload(s) ==
  \E op \in Uploads, j \in known :
    /\ Exists
    /\ row.status # "failed"
    /\ op = "raw" => j \in acked
    /\ Begin(s, op, j, "scope")
    /\ JobsStay /\ UNCHANGED <<row, data, agent>>

UploadScope(s) ==
  /\ At(s, Uploads, "scope")
  /\ \/ ScopeAllows(slot[s].job) /\ Goto(s, "store")
     \/ ~ScopeAllows(slot[s].job) /\ Finish(s)
  /\ JobsStay /\ UNCHANGED <<row, data, agent>>

\* The stored bytes: the recording's own file, a chunk with its row, or a raw
\* master, which no property tells apart.
UploadStore(s) ==
  /\ At(s, Uploads, "store")
  /\ file' = (file \/ slot[s].op = "upload")
  /\ chunks' = (chunks \/ slot[s].op \in {"chunk", "lastChunk"})
  /\ IF slot[s].op = "chunk" THEN Finish(s) ELSE Goto(s, "save")
  /\ JobsStay /\ UNCHANGED <<row, items, agent>>

\* applyStoredRendition and markRecordingCachedFromChunks, on the copy.
WithAudio(op, copy) ==
  CASE op = "raw" -> copy
    [] op = "upload" -> [status |-> "cached", cached |-> TRUE]
    [] op = "lastChunk" ->
         [status |-> IF copy.status \in {"uploaded", "partial"}
                     THEN copy.status ELSE "cached",
          cached |-> TRUE]

UploadSave(s) ==
  /\ At(s, Uploads, "save")
  /\ row' = WithAudio(slot[s].op, slot[s].copy)
  /\ IF slot[s].op = "raw" THEN Finish(s) ELSE Goto(s, "complete")
  /\ JobsStay /\ UNCHANGED <<data, agent>>

\* completeRecordingJob: from an active job only; else the upload goes on.
UploadComplete(s) ==
  /\ At(s, Uploads, "complete")
  /\ \/ Table!End(slot[s].job, "completed")
     \/ jobs[slot[s].job] \notin Table!Active /\ JobsStay
  /\ Goto(s, "enqueue")
  /\ UNCHANGED <<row, data, agent>>

\* reusableUploadQueueItem: an item that is due or has delivered this file is
\* reused, and a failed one gets a successor.
Enqueued(its) ==
  IF its \cap {"due", "succeeded"} = {} THEN its \cup {"due"} ELSE its

\* One on_recording_cached policy.  An enqueue that fails, the lookup of its
\* destination too, is caught: a health event is filed and the upload is answered
\* all the same.  The items of chunks are not modelled here.
UploadEnqueue(s) ==
  /\ At(s, Uploads, "enqueue")
  /\ LET op == slot[s].op
         j == slot[s].job IN
     \/ op = "upload" /\ items' = Enqueued(items) /\ skipped' = skipped \ {j}
     \/ /\ op = "upload" /\ "outage" \in Calls
        /\ skipped' = skipped \cup {j} /\ UNCHANGED items
     \/ op # "upload" /\ UNCHANGED <<items, skipped>>
  /\ acked' = acked \cup {slot[s].job}
  /\ Finish(s)
  /\ JobsStay /\ UNCHANGED <<row, file, chunks, known>>

------------------------------------------------------------------------------
(* Jobs that end without audio: the agent's report, and the expiry pass,    *)
(* whose listener does the same marking.                                    *)

BeginReport(s) ==
  \E op \in Reports, j \in known :
    /\ Exists
    /\ Begin(s, op, j, "end")
    /\ JobsStay /\ UNCHANGED <<row, data, agent>>

Verdict(op) == IF op = "reportFailed" THEN "failed" ELSE "cancelled"

\* A repeated report of the same outcome marks the recording once more.
ReportEnd(s) ==
  /\ At(s, Reports, "end")
  /\ LET verdict == Verdict(slot[s].op)
         Marking == Become(s, [slot[s] EXCEPT !.pc = "chunks",
                                              !.verdict = verdict])
     IN \/ Table!End(slot[s].job, verdict) /\ Marking
        \/ jobs[slot[s].job] = verdict /\ Marking /\ JobsStay
        \/ jobs[slot[s].job] \notin Table!Active \cup {verdict}
           /\ Finish(s) /\ JobsStay
  /\ UNCHANGED <<row, data, agent>>

\* A lease (30 s by default) outlasts the claim request that took it.
ClaimInFlight(j) ==
  \E s \in Slot : slot[s].job = j /\ At(s, {"claimGroup", "claim"}, slot[s].pc)

BeginExpire(s) ==
  \E j \in Job :
    /\ ~ClaimInFlight(j)
    /\ jobs[j] \in {"running", "stop_requested"}
    /\ LET verdict == IF jobs[j] = "running" THEN "failed" ELSE "cancelled"
       IN /\ Table!End(j, verdict)
          /\ "expire" \in Calls
          /\ s \in Request /\ slot[s].pc = "idle"
          /\ Become(s, [Idle EXCEPT !.op = "expire", !.job = j,
                                    !.pc = "exists", !.verdict = verdict])
    /\ UNCHANGED <<row, data, agent>>

ExpireFind(s) ==
  /\ At(s, {"expire"}, "exists")
  /\ \/ Exists /\ Become(s, [slot[s] EXCEPT !.pc = "chunks", !.copy = row])
     \/ ~Exists /\ Finish(s)
  /\ JobsStay /\ UNCHANGED <<row, data, agent>>

MarkChunks(s) ==
  /\ At(s, Reports \cup {"expire"}, "chunks")
  /\ Become(s, [slot[s] EXCEPT !.pc = "reread", !.flag = chunks])
  /\ JobsStay /\ UNCHANGED <<row, data, agent>>

MarkReread(s) ==
  /\ At(s, Reports \cup {"expire"}, "reread")
  /\ Become(s, [slot[s] EXCEPT !.pc = "mark",
                               !.copy = IF Exists THEN row ELSE @])
  /\ JobsStay /\ UNCHANGED <<row, data, agent>>

\* Mutant: a late terminal report downgrades what is already secured.
TerminalStatusAlways(status, verdict, preserved) ==
  IF verdict = "cancelled" THEN "completed"
  ELSE IF preserved THEN "partial" ELSE "failed"

\* Mutants: a cancelled job leaves its recording alone; the verdict is stored.
TerminalStatusOfFailures(status, verdict, preserved) ==
  CASE status \in Secured \/ verdict = "cancelled" -> status
    [] status \notin Secured /\ verdict # "cancelled" ->
         IF preserved THEN "partial" ELSE "failed"
TerminalStatusVerbatim(status, verdict, preserved) ==
  IF status \in Secured THEN status ELSE verdict

\* terminalRecordingStatus
TerminalStatus(status, verdict, preserved) ==
  CASE status \in Secured -> status
    [] status \notin Secured /\ verdict = "cancelled" -> "completed"
    [] status \notin Secured /\ verdict # "cancelled" ->
         IF preserved THEN "partial" ELSE "failed"

Mark(s) ==
  /\ At(s, Reports \cup {"expire"}, "mark")
  /\ row' = [slot[s].copy EXCEPT
               !.status = TerminalStatus(@, slot[s].verdict, slot[s].flag)]
  /\ Finish(s)
  /\ JobsStay /\ UNCHANGED <<data, agent>>

------------------------------------------------------------------------------
(* The operator's calls *)

BeginStop(s) ==
  /\ Exists
  /\ Begin(s, "stop", 0, "job")
  /\ JobsStay /\ UNCHANGED <<row, data, agent>>

StopJob(s) ==
  /\ At(s, {"stop"}, "job")
  /\ \/ \E j \in Job : Table!Stop(j)
     \/ (\A j \in Job : jobs[j] \notin Table!Stoppable) /\ JobsStay
  /\ Goto(s, "transition")
  /\ UNCHANGED <<row, data, agent>>

StopTransition(s) ==
  /\ At(s, {"stop"}, "transition")
  /\ row' = IF row.status = "recording"
            THEN [slot[s].copy EXCEPT !.status = "completed"] ELSE row
  /\ Finish(s)
  /\ JobsStay /\ UNCHANGED <<data, agent>>

BeginRetry(s) ==
  \E j \in Job :
    /\ Exists
    /\ jobs[j] \in {"failed", "cancelled"}
    /\ Begin(s, "retry", j, "create")
    /\ JobsStay /\ UNCHANGED <<row, data, agent>>

\* retryRecordingJob: no other active job, and a new row for the new attempt.
RetryCreate(s) ==
  /\ At(s, {"retry"}, "create")
  /\ IF /\ jobs[slot[s].job] \in {"failed", "cancelled"}
        /\ \A j \in Job : jobs[j] \notin Table!Active
     THEN /\ Goto(s, "chunks")
          /\ \E j \in Job : /\ Table!Queue(j)
                            /\ \A k \in 1 .. j - 1 : jobs[k] # "unborn"
     ELSE Finish(s) /\ JobsStay
  /\ UNCHANGED <<row, data, agent>>

RetrySave(s) ==
  /\ At(s, {"retry"}, "save")
  /\ row' = [status |-> "recording", cached |-> FALSE]
  /\ Finish(s)
  /\ JobsStay /\ UNCHANGED <<data, agent>>

\* Active recordings cannot be deleted.
BeginDelete(s) ==
  /\ Exists
  /\ row.status # "recording"
  /\ Begin(s, "delete", 0, "file")
  /\ JobsStay /\ UNCHANGED <<row, data, agent>>

DeleteFile(s) ==
  /\ At(s, {"delete"}, "file")
  /\ file' = (file /\ ~slot[s].copy.cached)
  /\ Goto(s, "chunks")
  /\ JobsStay /\ UNCHANGED <<row, chunks, items, agent>>

\* Shared by purgeRetriedRecordingChunks and deleteRecordingData.
PurgeChunks(s) ==
  /\ At(s, {"retry", "delete"}, "chunks")
  /\ chunks' = FALSE
  /\ Goto(s, IF slot[s].op = "retry" THEN "items" ELSE "jobs")
  /\ JobsStay /\ UNCHANGED <<row, file, items, agent>>

\* Mutant: the upload items are not swept (nothing cascades to them).
DeleteJobsThenRow(s) ==
  /\ At(s, {"delete"}, "jobs")
  /\ Table!Remove({j \in Job : jobs[j] # "unborn"})
  /\ Goto(s, "row")
  /\ UNCHANGED <<row, data, agent>>

DeleteJobs(s) ==
  /\ At(s, {"delete"}, "jobs")
  /\ Table!Remove({j \in Job : jobs[j] # "unborn"})
  /\ Goto(s, "items")
  /\ UNCHANGED <<row, data, agent>>

PurgeItems(s) ==
  /\ At(s, {"retry", "delete"}, "items")
  /\ items' = {}
  /\ Goto(s, IF slot[s].op = "retry" THEN "save" ELSE "row")
  /\ JobsStay /\ UNCHANGED <<row, file, chunks, agent>>

DeleteRow(s) ==
  /\ At(s, {"delete"}, "row")
  /\ row' = IF Exists THEN Gone ELSE row
  /\ Finish(s)
  /\ JobsStay /\ UNCHANGED <<data, agent>>

------------------------------------------------------------------------------
(* The upload runner: an attempt on the due item, then, in the same pass    *)
(* only, the reconciliation of the recording it touched.                    *)

RunnerAttempt(s) ==
  /\ s = UploadRunner
  /\ "runner" \in Calls
  /\ slot[s].pc = "idle"
  /\ "due" \in items
  /\ \E outcome \in {"succeeded", "failed", "due"} :
       /\ outcome = "succeeded" => file
       /\ items' = (items \ {"due"}) \cup {outcome}
  /\ Become(s, [Idle EXCEPT !.op = "runner", !.pc = "settled"])
  /\ JobsStay /\ UNCHANGED <<row, file, chunks, agent>>

RunnerSettled(s) ==
  /\ At(s, {"runner"}, "settled")
  /\ IF Exists /\ "due" \notin items /\ "succeeded" \in items
     THEN Become(s, [slot[s] EXCEPT !.pc = "reread",
                                    !.flag = "failed" \in items])
     ELSE Finish(s)
  /\ JobsStay /\ UNCHANGED <<row, data, agent>>

RunnerReread(s) ==
  /\ At(s, {"runner"}, "reread")
  /\ IF row.status \in Secured
     THEN Become(s, [slot[s] EXCEPT !.pc = "release", !.copy = row])
     ELSE Finish(s)
  /\ JobsStay /\ UNCHANGED <<row, data, agent>>

\* resolveCacheDeletion: not of a partial upload; else as the policies and the
\* verification of this pass have it.
RunnerRelease(s) ==
  /\ At(s, {"runner"}, "release")
  /\ \E release \in BOOLEAN :
       /\ release => ~slot[s].flag /\ slot[s].copy.cached
       /\ file' = (file /\ ~release)
       /\ Become(s, [slot[s] EXCEPT !.pc = "save",
                                    !.copy.cached = @ /\ ~release])
  /\ JobsStay /\ UNCHANGED <<row, chunks, items, agent>>

RunnerPromote(s) ==
  /\ At(s, {"runner"}, "save")
  /\ row' = [slot[s].copy EXCEPT
               !.status = IF slot[s].flag THEN "partial" ELSE "uploaded"]
  /\ Finish(s)
  /\ JobsStay /\ UNCHANGED <<data, agent>>

------------------------------------------------------------------------------
(* Faults: a store call fails and its request ends with 503; the controller *)
(* restarts and every request in flight is lost.                            *)

StoreFails(s) ==
  /\ "outage" \in Calls
  /\ slot[s].pc # "idle"
  /\ Finish(s)
  /\ JobsStay /\ UNCHANGED <<row, data, agent>>

Restart ==
  /\ "restart" \in Calls
  /\ slot' = [s \in Slot |-> Idle]
  /\ slot' # slot
  /\ JobsStay /\ UNCHANGED <<row, data, agent>>

------------------------------------------------------------------------------
StepOf(s) ==
  \/ CreateJob(s) \/ ClaimFind(s) \/ ClaimJob(s) \/ ClaimSave(s)
  \/ HeartbeatSave(s)
  \/ UploadScope(s) \/ UploadStore(s) \/ UploadSave(s) \/ UploadComplete(s)
  \/ UploadEnqueue(s)
  \/ ReportEnd(s) \/ ExpireFind(s) \/ MarkChunks(s) \/ MarkReread(s) \/ Mark(s)
  \/ StopJob(s) \/ StopTransition(s)
  \/ RetryCreate(s) \/ RetrySave(s) \/ DeleteFile(s) \/ PurgeChunks(s)
  \/ DeleteJobs(s) \/ PurgeItems(s) \/ DeleteRow(s)
  \/ RunnerSettled(s) \/ RunnerReread(s) \/ RunnerRelease(s)
  \/ RunnerPromote(s)

Served ==
  \E s \in Slot :
    \/ BeginStart(s) \/ BeginClaimGroup(s) \/ BeginClaim(s)
    \/ BeginHeartbeat(s) \/ BeginUpload(s) \/ BeginReport(s)
    \/ BeginExpire(s) \/ BeginStop(s) \/ BeginRetry(s) \/ BeginDelete(s)
    \/ RunnerAttempt(s) \/ StepOf(s)

Fault == Restart \/ \E s \in Slot : StoreFails(s)

\* A deletion and another request in flight; the upload runner is none.
Meeting ==
  \E s \in DOMAIN slot : \E t \in DOMAIN slot \ {s, UploadRunner} :
    slot[s].op = "delete" /\ slot[t].pc # "idle"

Next ==
  /\ \/ Served /\ UNCHANGED lost
     \/ Fault /\ lost' = TRUE
  /\ met' = (met \/ Meeting')

Spec == Init /\ [][Next]_<<vars, history>>

Quiet == \A s \in DOMAIN slot : slot[s].pc = "idle"

(***************************************************************************)
(* The event loop runs every handler on to its end, and a lease that is    *)
(* not renewed for ever elapses: no capture lasts for ever.                *)
(***************************************************************************)
Fairness ==
  /\ \A s \in Slot : WF_vars(StepOf(s))
  /\ \A s \in Request : SF_vars(BeginExpire(s))

FairSpec == Spec /\ Fairness

(***************************************************************************)
(* An agent that holds a finished capture keeps its upload pending, across *)
(* its own restarts, until the upload was acknowledged; the controller's   *)
(* restarts and its store's outages do not go on for ever.  (A step that   *)
(* only ends a request is a handler's own, not an outage.)                 *)
(***************************************************************************)
Replay(j) == \E s \in Request : /\ j \notin acked
                                /\ BeginUpload(s)
                                /\ slot'[s].op = "upload" /\ slot'[s].job = j

RetriedUploads ==
  /\ Spec
  /\ \A s \in Slot : WF_vars(StepOf(s))
  /\ \A j \in Job : SF_vars(Replay(j))
  /\ <>[][Fault => \E s \in Slot : StepOf(s)]_vars

------------------------------------------------------------------------------
(* Properties *)

\* When nothing is in flight, a recording shown as recording has a job that can
\* still end it: every way its job ends also moves the recording on.  Not so once
\* it was retried or its deletion began, or a request of it was cut off.
ActiveHasJob ==
  (/\ Quiet /\ ~lost /\ row.status = "recording"
   /\ jobs[1] # "absent" /\ \A j \in Job \ {1} : jobs[j] = "unborn")
    => jobs[1] \in Table!Active

\* Once a job of it was claimed, a recording does not stay "recording" for ever,
\* whatever the agent does or leaves undone.
Unsettled ==
  /\ row.status = "recording"
  /\ \E j \in Job : jobs[j] \in {"running", "stop_requested"} \cup Table!Terminal
Settles == []<>~Unsettled

\* But for a retry, the claim of its job, and a deletion, secured audio is
\* downgraded only by a write built on a copy from before it was secured: a stop
\* never does it, and a terminal marking or the first claim only when it read the
\* row too early.
DowngradesSettled ==
  [][row.status \in Secured /\ row'.status \notin Secured
     => \E s \in DOMAIN slot :
          /\ slot'[s] # slot[s]
          /\ \/ slot[s].op \in {"retry", "delete"}
             \/ slot[s].op \in {"claim", "claimGroup"} /\ slot[s].job # 1
             \/ slot[s].pc \in {"save", "mark"} /\ slot[s].copy.status \notin Secured]_vars

\* A deleted recording leaves no jobs, chunks or upload items behind, even when
\* the controller dies half way: the row goes last, so the rest can be retried.
\* Not so once a deletion met another request (the upload runner is none).
DeleteLeavesNothing ==
  Quiet /\ row = Gone /\ ~met =>
    /\ ~chunks /\ items = {}
    /\ \A j \in Job : jobs[j] \in {"unborn", "absent"}

RowsHold == ActiveHasJob /\ DeleteLeavesNothing

\* Every recording secured by a whole-file upload is queued for its policy, even
\* when the controller dies, or a store call ends the upload, between any two of
\* its steps: the replay is let through although the job is already completed.
\* It is refused once the job failed or was stopped: then only a retry or a
\* deletion moves the recording on.  Excused is the one failure that does not end
\* the upload: a failing enqueue, which is answered like a success and therefore
\* never replayed.
Unqueued ==
  /\ row.status = "cached" /\ file /\ ~chunks /\ items = {}
  /\ skipped = {}
  /\ \A j \in Job : jobs[j] \notin Table!Terminal \ {"completed"}
CachedIsQueued == []<>~Unqueued

------------------------------------------------------------------------------
(* What comments, tests and the documentation say and the code does not keep *)

\* "Once every item is terminal the recording is reconciled to uploaded (all
\* succeeded)": a delivered recording does not go back to cached.
UploadedStands ==
  [][row.status = "uploaded" /\ items = {"succeeded"}
     => row'.status # "cached"]_vars
==============================================================================
