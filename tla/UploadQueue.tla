----------------------------- MODULE UploadQueue -----------------------------
(***************************************************************************)
(* The upload items of one whole-file recording (upload-queue.ts), the     *)
(* upload runner that attempts them and reconciles the recording, the      *)
(* operator's enqueue and retry calls, the purge of a retried recording    *)
(* and the retention runner, which both may take the cached source away.   *)
(*                                                                         *)
(* Each step is one store, file or provider call; the Postgres store makes *)
(* start, succeed, fail and retry atomic, and enqueue two calls (select,   *)
(* then insert).  nextAttemptAt is abstracted to whether it has passed.    *)
(* The items of chunks and the stub provider are left out.                 *)
(***************************************************************************)
EXTENDS Naturals, FiniteSets

CONSTANTS
  Policy,        \* upload policies, each with a destination of its own
  Deleting,      \* those with deleteCacheAfterUpload
  OnlyUploaded,  \* deleteOnlyAfterUploaded of the retention policy
  MaxAttempts,   \* maxAttempts of every item
  MaxItems,      \* bound: items ever inserted; an id is its creation rank
  MaxCuts,       \* bound: controller restarts and outages met by a pass
  Calls,         \* bound: the calls made in a run
  Request        \* request slots: how many HTTP requests may be in flight

ASSUME UploadQueueAssumption ==
  /\ Deleting \subseteq Policy
  /\ OnlyUploaded \in BOOLEAN
  /\ MaxAttempts \in Nat \ {0}
  /\ MaxItems \in Nat
  /\ MaxCuts \in Nat

Item == 1 .. MaxItems

Due == {"queued", "retrying"}                \* dueStatuses, activeStatuses
Settled == {"succeeded", "failed"}
Unsettled == Due \cup {"failed"}             \* UNSETTLED_UPLOAD_STATUSES
Secured == {"cached", "partial", "uploaded"} \* RECONCILABLE_RECORDING_STATUSES

ItemStatus == Due \cup Settled \cup {"absent"}
RowState == [policy : Policy \cup {"none"}, status : ItemStatus,
             attempts : Nat, due : BOOLEAN]
NoItem == [policy |-> "none", status |-> "absent", attempts |-> 0, due |-> FALSE]

\* The recording: its status, and whether it still names a cached file.
Recording == [status : Secured \cup {"recording", "completed"}, named : BOOLEAN]

VARIABLES
  items,      \* upload_queue_items
  inserted,   \* items inserted so far: the ids 1 .. inserted are taken for good
  rec,        \* the recording's row
  file,       \* its audio file is in the controller's cache
  delivered,  \* history: policies whose destination holds the audio
  runner,     \* the upload runner's pass
  retention,  \* the retention runner's pass
  req,        \* the HTTP requests in flight
  cuts        \* history: passes cut short

vars == <<items, inserted, rec, file, delivered, runner, retention, req, cuts>>
table == <<items, inserted>>

NoList == [i \in Item |-> "absent"]
NoPass == [pc |-> "idle", batch |-> {}, item |-> 0, result |-> "none",
           touched |-> {}, verified |-> {}, list |-> NoList,
           copy |-> [status |-> "cached", named |-> FALSE], deleted |-> FALSE]
NoSweep == [pc |-> "idle", list |-> NoList,
            copy |-> [status |-> "cached", named |-> FALSE]]
Idle == [op |-> "none", pc |-> "idle", policy |-> "none", item |-> 0]

Result == {"none", "verified", "unverified", "failed"}

PassState ==
  [pc : {"idle", "start", "upload", "settle", "list", "reread", "release",
         "save"},
   batch : SUBSET Item,            \* due items still to be attempted
   item : Item \cup {0},           \* the item in flight
   result : Result,
   touched : SUBSET Item,          \* items settled in this pass
   verified : SUBSET Item,         \* uploadWasVerified: those it may release
   list : [Item -> ItemStatus],    \* what the reconciliation listed
   copy : Recording,               \* the row it read again
   deleted : BOOLEAN]

SweepState == [pc : {"idle", "list", "reread", "unlink", "save"},
               list : [Item -> ItemStatus], copy : Recording]

RequestState ==
  [op : {"none", "enqueue", "retry", "purge"},
   pc : {"idle", "select", "insert", "retry", "items", "save"},
   policy : Policy \cup {"none"}, item : Item \cup {0}]

TypeOK ==
  /\ items \in [Item -> RowState]
  /\ inserted \in 0 .. MaxItems
  /\ rec \in Recording
  /\ file \in BOOLEAN
  /\ delivered \subseteq Policy
  /\ runner \in PassState
  /\ retention \in SweepState
  /\ req \in [Request -> RequestState]
  /\ cuts \in 0 .. MaxCuts

Init ==
  /\ items = [i \in Item |-> NoItem]
  /\ inserted = 0
  /\ rec = [status |-> "cached", named |-> TRUE]
  /\ file = TRUE
  /\ delivered = {}
  /\ runner = NoPass
  /\ retention = NoSweep
  /\ req = [s \in Request |-> Idle]
  /\ cuts = 0

Statuses == [i \in Item |-> items[i].status]
With(list, statuses) == {i \in Item : list[i] \in statuses}

------------------------------------------------------------------------------
(* HTTP requests: the enqueue of an agent's upload or of an operator, the   *)
(* operator's retry of an item, and the purge of a retried recording.       *)

Begin(s, op, pc, p, i) ==
  /\ op \in Calls
  /\ req[s].pc = "idle"
  /\ req' = [req EXCEPT ![s] = [op |-> op, pc |-> pc, policy |-> p, item |-> i]]
  /\ UNCHANGED <<table, rec, file, delivered, runner, retention, cuts>>

At(s, op, pc) == req[s].op = op /\ req[s].pc = pc
Goto(s, pc) == req' = [req EXCEPT ![s].pc = pc]
Finish(s) == req' = [req EXCEPT ![s] = Idle]

\* recordingHasCachedFile
BeginEnqueue(s) ==
  \E p \in Policy : rec.named /\ Begin(s, "enqueue", "select", p, 0)

\* reusableUploadQueueItem: the destination, path, checksum and policy agree.
Reusable(i, p) ==
  items[i].policy = p /\ items[i].status \in Due \cup {"succeeded"}

EnqueueSelect(s) ==
  /\ At(s, "enqueue", "select")
  /\ IF \E i \in Item : Reusable(i, req[s].policy)
     THEN Finish(s) ELSE Goto(s, "insert")
  /\ UNCHANGED <<table, rec, file, delivered, runner, retention, cuts>>

EnqueueInsert(s) ==
  /\ At(s, "enqueue", "insert")
  /\ inserted < MaxItems
  /\ inserted' = inserted + 1
  /\ items' = [items EXCEPT ![inserted + 1] =
                 [policy |-> req[s].policy, status |-> "queued", attempts |-> 0,
                  due |-> TRUE]]
  /\ Finish(s)
  /\ UNCHANGED <<rec, file, delivered, runner, retention, cuts>>

\* retryableUploadQueueStatuses
BeginRetry(s) ==
  \E i \in Item : items[i].status = "failed" /\ Begin(s, "retry", "retry", "none", i)

\* Mutant: the items are upserted, so that a deleted one is written back.
UpdatesUpsert(i) == TRUE

\* updateItem, the write of retry, succeed and fail: UPDATE-only, which touches
\* no row once the item is deleted.
Updates(i) == items[i].status # "absent"

\* retry(): a fresh attempt budget, due at once.
Retried(i) ==
  IF ~Updates(i) THEN items
  ELSE [items EXCEPT ![i].attempts = 0, ![i].status = "retrying", ![i].due = TRUE]

Retry(s) ==
  /\ At(s, "retry", "retry")
  /\ items' = Retried(req[s].item)
  /\ Finish(s)
  /\ UNCHANGED <<inserted, rec, file, delivered, runner, retention, cuts>>

\* purgeRetriedRecordingChunks, then the retried recording's row.
BeginPurge(s) == rec.status \in Secured /\ Begin(s, "purge", "items", "none", 0)

PurgeItems(s) ==
  /\ At(s, "purge", "items")
  /\ items' = [i \in Item |-> [items[i] EXCEPT !.status = "absent", !.due = FALSE]]
  /\ Goto(s, "save")
  /\ UNCHANGED <<inserted, rec, file, delivered, runner, retention, cuts>>

PurgeSave(s) ==
  /\ At(s, "purge", "save")
  /\ rec' = [status |-> "recording", named |-> FALSE]
  /\ Finish(s)
  /\ UNCHANGED <<table, file, delivered, runner, retention, cuts>>

------------------------------------------------------------------------------
(* The upload runner.  One pass: the due items are listed, each is started, *)
(* sent and settled, then the recording is reconciled if any was settled.   *)

Runner(pc) == runner.pc = pc
RestStays == UNCHANGED <<inserted, retention, req, cuts>>
Pass(next) == runner' = next

\* The lease of an attempt or the backoff of a failed one passes.
Elapse(i) ==
  /\ items[i].status = "retrying" /\ ~items[i].due
  /\ items' = [items EXCEPT ![i].due = TRUE]
  /\ UNCHANGED <<inserted, rec, file, delivered, runner, retention, req, cuts>>

RunnerDue ==
  /\ Runner("idle")
  /\ LET due == {i \in Item : items[i].status \in Due /\ items[i].due}
     IN due # {} /\ Pass([NoPass EXCEPT !.pc = "start", !.batch = due])
  /\ RestStays /\ UNCHANGED <<items, rec, file, delivered>>

\* Mutant: an attempt is not counted.
StartedUncounted(i) ==
  [items EXCEPT ![i].status = "retrying", ![i].due = FALSE]

\* start(): counted and leased, from a due status only.
Started(i) ==
  [items EXCEPT ![i].status = "retrying", ![i].due = FALSE,
                ![i].attempts = @ + 1]

RunnerStart ==
  /\ Runner("start")
  /\ IF runner.batch = {}
     THEN Pass([runner EXCEPT !.pc = IF runner.touched # {}
                                    THEN "list" ELSE "idle"])
          /\ UNCHANGED items
     ELSE \E i \in runner.batch :
            IF items[i].status \in Due
            THEN /\ items' = Started(i)
                 /\ Pass([runner EXCEPT !.pc = "upload", !.item = i,
                                        !.batch = @ \ {i}])
            ELSE Pass([runner EXCEPT !.batch = @ \ {i}]) /\ UNCHANGED items
  /\ RestStays /\ UNCHANGED <<rec, file, delivered>>

\* runProviderUpload: it reads the cached file and sends it; an S3-compatible
\* endpoint may not have verified the checksum.
RunnerUpload ==
  /\ Runner("upload")
  /\ \E result \in Result \ {"none"} :
       /\ result # "failed" => file
       /\ Pass([runner EXCEPT !.pc = "settle", !.result = result])
       /\ delivered' = IF result = "failed" THEN delivered
                       ELSE delivered \cup {items[runner.item].policy}
  /\ RestStays /\ UNCHANGED <<items, rec, file>>

\* Mutant: one attempt more than maxAttempts.
AfterFailureLate(attempts) ==
  IF attempts > MaxAttempts THEN "failed" ELSE "retrying"

\* fail(): terminal once the budget is used up.
AfterFailure(attempts) ==
  IF attempts >= MaxAttempts THEN "failed" ELSE "retrying"

\* succeed() and fail().
RunnerSettle ==
  /\ Runner("settle")
  /\ LET i == runner.item
         ok == runner.result # "failed"
     IN IF ~Updates(i)
        THEN /\ Pass([runner EXCEPT !.pc = "start", !.item = 0, !.result = "none"])
             /\ UNCHANGED items
        ELSE /\ items' = [items EXCEPT
                            ![i].status = IF ok THEN "succeeded"
                                          ELSE AfterFailure(items[i].attempts),
                            ![i].due = FALSE]
             /\ Pass([runner EXCEPT
                        !.pc = "start", !.item = 0, !.result = "none",
                        !.touched = @ \cup {i},
                        !.verified = IF runner.result = "verified"
                                     THEN @ \cup {i} ELSE @])
  /\ RestStays /\ UNCHANGED <<rec, file, delivered>>

\* reconcileRecordingUpload: every item settled and one of them delivered.
RunnerList ==
  /\ Runner("list")
  /\ IF With(Statuses, Due) = {} /\ With(Statuses, {"succeeded"}) # {}
     THEN Pass([runner EXCEPT !.pc = "reread", !.list = Statuses])
     ELSE Pass(NoPass)
  /\ RestStays /\ UNCHANGED <<items, rec, file, delivered>>

\* Mutant: only a recording that was never promoted is promoted.
ReconcilableCached(status) == status = "cached"

\* reconcilableRecording
Reconcilable(status) == status \in Secured

RunnerReread ==
  /\ Runner("reread")
  /\ IF Reconcilable(rec.status)
     THEN Pass([runner EXCEPT !.pc = "release", !.copy = rec])
     ELSE Pass(NoPass)
  /\ RestStays /\ UNCHANGED <<items, rec, file, delivered>>

Wanting(list) ==
  {i \in With(list, {"succeeded"}) : items[i].policy \in Deleting}

\* Mutant: a partial upload releases the cache too.
ReleasablePartial(list, touched, verified) ==
  /\ Wanting(list) \subseteq touched
  /\ Wanting(list) \cap verified # {}

\* resolveCacheDeletion: not of a partial upload; the first succeeded item of a
\* deleting policy decides, by its verification in this very pass.  Items that
\* succeeded in an earlier pass come first; within the pass any may.
Releasable(list, touched, verified) ==
  /\ With(list, {"failed"}) = {}
  /\ Wanting(list) \subseteq touched
  /\ Wanting(list) \cap verified # {}

\* The file system may refuse; a file already gone does not count as deleted.
RunnerRelease ==
  /\ Runner("release")
  /\ \E release \in BOOLEAN :
       /\ release => runner.copy.named /\ Releasable(runner.list, runner.touched,
                                                    runner.verified)
       /\ file' = (file /\ ~release)
       /\ Pass([runner EXCEPT !.pc = "save", !.deleted = release /\ file])
  /\ RestStays /\ UNCHANGED <<items, rec, delivered>>

Outcome(list) == IF With(list, {"failed"}) # {} THEN "partial" ELSE "uploaded"

RunnerSave ==
  /\ Runner("save")
  /\ rec' = [status |-> Outcome(runner.list),
             named |-> runner.copy.named /\ ~runner.deleted]
  /\ Pass(NoPass)
  /\ RestStays /\ UNCHANGED <<items, file, delivered>>

------------------------------------------------------------------------------
(* The retention runner: the recordings are listed, then the items, then    *)
(* the recording is read again and its file deleted.                        *)

Retention(pc) == retention.pc = pc
Sweep(next) ==
  /\ retention' = next
  /\ UNCHANGED <<items, inserted, delivered, runner, req, cuts>>

\* retentionCandidates, as far as the listed row decides.
RetentionBegin ==
  /\ "retention" \in Calls
  /\ Retention("idle")
  /\ rec.named
  /\ rec.status \in IF OnlyUploaded THEN {"uploaded"} ELSE {"cached", "uploaded"}
  /\ Sweep([NoSweep EXCEPT !.pc = "list", !.copy = rec])
  /\ UNCHANGED <<rec, file>>

\* recordingIdsWithUnsettledUploads
Holds(list) == With(list, Unsettled) # {}

RetentionList ==
  /\ Retention("list")
  /\ IF file /\ ~Holds(Statuses)
     THEN Sweep([retention EXCEPT !.pc = "reread", !.list = Statuses])
     ELSE Sweep(NoSweep)
  /\ UNCHANGED <<rec, file>>

RetentionReread ==
  /\ Retention("reread")
  /\ IF rec.status \in {"cached", "uploaded"}
     THEN Sweep([retention EXCEPT !.pc = "unlink", !.copy = rec])
     ELSE Sweep(NoSweep)
  /\ UNCHANGED <<rec, file>>

\* The file system may refuse, which leaves the recording alone.
RetentionUnlink ==
  /\ Retention("unlink")
  /\ \/ /\ file' = (file /\ ~retention.copy.named)
        /\ Sweep([retention EXCEPT !.pc = "save"])
     \/ Sweep(NoSweep) /\ UNCHANGED file
  /\ UNCHANGED rec

RetentionSave ==
  /\ Retention("save")
  /\ rec' = [status |-> IF retention.copy.status = "cached" THEN "completed"
                        ELSE retention.copy.status,
             named |-> FALSE]
  /\ Sweep(NoSweep)
  /\ UNCHANGED file

------------------------------------------------------------------------------
(* A store call of the upload runner's pass fails, which ends the pass; the *)
(* controller restarts, which ends everything in flight.                    *)

Outage ==
  /\ cuts < MaxCuts
  /\ ~Runner("idle")
  /\ cuts' = cuts + 1
  /\ runner' = NoPass
  /\ UNCHANGED <<table, rec, file, delivered, retention, req>>

Restart ==
  /\ cuts < MaxCuts
  /\ cuts' = cuts + 1
  /\ runner' = NoPass
  /\ retention' = NoSweep
  /\ req' = [s \in Request |-> Idle]
  /\ UNCHANGED <<table, rec, file, delivered>>

------------------------------------------------------------------------------
RequestStep(s) ==
  \/ EnqueueSelect(s) \/ EnqueueInsert(s) \/ Retry(s)
  \/ PurgeItems(s) \/ PurgeSave(s)

RunnerStep ==
  \/ RunnerDue \/ RunnerStart \/ RunnerUpload \/ RunnerSettle \/ RunnerList
  \/ RunnerReread \/ RunnerRelease \/ RunnerSave

RetentionStep ==
  \/ RetentionBegin \/ RetentionList \/ RetentionReread \/ RetentionUnlink
  \/ RetentionSave

Next ==
  \/ \E s \in Request :
       BeginEnqueue(s) \/ BeginRetry(s) \/ BeginPurge(s) \/ RequestStep(s)
  \/ \E i \in Item : Elapse(i)
  \/ RunnerStep
  \/ RetentionStep
  \/ Outage
  \/ Restart

Spec == Init /\ [][Next]_vars

(***************************************************************************)
(* The event loop runs a pass on to its end, its interval timer starts the *)
(* next, and every lease and backoff passes.                               *)
(***************************************************************************)
FairSpec ==
  /\ Spec
  /\ WF_vars(RunnerStep)
  /\ \A i \in Item : WF_vars(Elapse(i))

------------------------------------------------------------------------------
(* Properties *)

\* No item is attempted beyond its budget, but for attempts that a restart or an
\* outage cut short after they were counted.
BudgetKept == \A i \in Item : items[i].attempts <= MaxAttempts + cuts

\* Every item is delivered or given up, whatever operators and outages do: none
\* is retried for ever and none is forgotten after a crash in mid-attempt.
ItemsSettle ==
  \A i \in Item : items[i].status \in Due ~> items[i].status \notin Due

\* An item that was deleted with its recording's take is never written back by a
\* runner or an operator that had read it before.
DeletedStays ==
  [][\A i \in Item : i <= inserted /\ items[i].status = "absent"
                     => items'[i].status = "absent"]_vars

\* Whoever deletes the cached source saw every item it listed delivered: only an
\* item that was inserted or retried since may still need it.
ReleasedIsDelivered ==
  [][file /\ ~file' =>
       LET list == IF Runner("release") /\ runner' # runner
                   THEN runner.list ELSE retention.list
       IN \A i \in Item : list[i] # "absent" => items[i].policy \in delivered]_vars

\* A pass that touched the recording and is not cut short brings its status to
\* what its settled items say, a partial one that was retried included.
Reconciled ==
  \A n \in 0 .. MaxCuts :
    /\ runner.touched # {}
    /\ cuts = n
    /\ With(Statuses, Due) = {} /\ With(Statuses, {"succeeded"}) # {}
    ~> \/ rec.status = Outcome(Statuses)
       \/ rec.status \notin Secured
       \/ With(Statuses, Due) # {} \/ With(Statuses, {"succeeded"}) = {}
       \/ cuts # n

------------------------------------------------------------------------------
(* What the documentation says and the code does not keep *)

\* "A delete-cache policy never removes the source while another destination
\* still needs it."
SourceKept ==
  [][file /\ ~file' => With(Statuses, Due) = {}]_vars
==============================================================================
