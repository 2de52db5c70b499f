---------------------------- MODULE RecordingJobs ----------------------------
(***************************************************************************)
(* The controller's recording-job table (apps/api/src/recording-jobs.ts)   *)
(* and every request that reads or writes it, for the jobs of one recorder *)
(* node.  The controller is one event loop: a request runs without         *)
(* interruption between two awaits, and every store call is an await, so a *)
(* request is a slot with a program counter and each step below does one   *)
(* store call (and the find before a compare-and-set that checks the same  *)
(* status again).  The store is the Postgres one: list and find return     *)
(* copies, claim and transition compare and set, save upserts.             *)
(*                                                                         *)
(* Time is abstracted to what leases tell apart: the timer of a running    *)
(* row (leaseExpiresAt) and of a stop_requested row (stopRequestedAt plus  *)
(* the lease) is "live" until it elapses.                                  *)
(***************************************************************************)
EXTENDS Naturals, FiniteSets

CONSTANTS
  Recording,    \* recordings that jobs capture
  Group,        \* capture groups
  NoGroup,      \* a job that captures alone
  GroupOf,      \* the captureGroupId of each recording's job command
  Calls,        \* bound: the calls clients make in a run, and "outage"
  MaxJobs,      \* bound: rows ever inserted; a job id is its creation rank
  Request,      \* request slots: how many HTTP requests may be in flight
  LeaseRunner   \* the slot of the job-lease runner

ASSUME JobsAssumption ==
  /\ MaxJobs \in Nat \ {0}
  /\ Recording # {}
  /\ GroupOf \in [Recording -> Group \cup {NoGroup}]
  /\ LeaseRunner \notin Request
  /\ NoGroup \notin Group

Job == 1 .. MaxJobs
Slot == Request \cup {LeaseRunner}

Active    == {"queued", "running", "stop_requested"}   \* NON_TERMINAL_SOURCES
Stoppable == {"queued", "running"}                     \* STOPPABLE_SOURCES
Terminal  == {"completed", "failed", "cancelled"}
Retryable == {"failed", "cancelled"}

\* A row of recording_jobs; "absent" is no row (not inserted yet, or deleted).
Status == Active \cup Terminal \cup {"absent"}
Row    == [status : Status, timer : {"none", "live", "elapsed"}]
Absent == [status |-> "absent", timer |-> "none"]
Queued == [status |-> "queued", timer |-> "none"]
Leased == [status |-> "running", timer |-> "live"]
Stopping == [status |-> "stop_requested", timer |-> "live"]
Ended(status) == [status |-> status, timer |-> "none"]

\* What a request does: the exported function of recording-jobs.ts it runs.
ClaimOps == {"claimGroup", "claimNext", "claim"}
Ops == ClaimOps \cup {"none", "sweep", "heartbeat", "stop", "stopRecording",
                      "retry", "complete", "cancel", "fail"}

VARIABLES
  rows,     \* the job table
  recOf,    \* the recordingId of each row ever inserted
  created,  \* rows inserted so far: the ids 1 .. created are taken for good
  req,      \* the requests in flight
  held,     \* jobs a live agent worker is capturing and heartbeating
  known,    \* jobs some agent received from a claim (it persists them on disk)
  wins      \* history: successful claims of each job

vars == <<rows, recOf, created, req, held, known, wins>>

NoRows == [j \in Job |-> Absent]
NoList == [j \in Job |-> "absent"]

Idle == [op |-> "none", pc |-> "idle", job |-> 0, snap |-> NoList, todo |-> {},
         won |-> FALSE, members |-> {}, picks |-> {}, got |-> {}]

SlotState ==
  [op : Ops, pc : {"idle", "list", "expire", "act", "save", "respond"},
   job : Job \cup {0},
   snap : [Job -> Status],    \* the statuses the last list() returned
   todo : SUBSET Job,         \* rows of snap the expiry pass still has to move
   won : BOOLEAN,             \* the pass expired something: it lists again
   members : SUBSET Job,      \* the rows a claim call selected,
   picks : SUBSET Job,        \* those it has not tried yet,
   got : SUBSET Job]          \* and those it has won

TypeOK ==
  /\ rows \in [Job -> Row]
  /\ recOf \in [Job -> Recording]
  /\ created \in 0 .. MaxJobs
  /\ req \in [Slot -> SlotState]
  /\ held \subseteq Job
  /\ known \subseteq Job
  /\ wins \in [Job -> Nat]

Init ==
  /\ rows = NoRows
  /\ recOf = [j \in Job |-> CHOOSE r \in Recording : TRUE]
  /\ created = 0
  /\ req = [s \in Slot |-> Idle]
  /\ held = {}
  /\ known = {}
  /\ wins = [j \in Job |-> 0]

------------------------------------------------------------------------------
(* Requests and the expiry pass they start with *)

Become(s, q) == req' = [req EXCEPT ![s] = q]
Finish(s) == Become(s, Idle)

Begin(s, op, j, pc) ==
  /\ req[s].pc = "idle"
  /\ op \in Calls
  /\ Become(s, [Idle EXCEPT !.op = op, !.job = j, !.pc = pc])

\* Mutant: the pass overlooks the leases that ran out.
ExpiredStopsOnly == {j \in Job : /\ rows[j].status = "stop_requested"
                                 /\ rows[j].timer = "elapsed"}

\* isExpired and isStopRequestExpired: the rows the expiry pass will move.
Expired == {j \in Job : /\ rows[j].status \in {"running", "stop_requested"}
                        /\ rows[j].timer = "elapsed"}

Statuses == [j \in Job |-> rows[j].status]

\* The caller goes on to use the list it gets back.
UsesList(q) == \/ q.op \in {"stop", "stopRecording", "retry"}
               \/ q.op \in ClaimOps /\ q.members = {}

\* expireRecordingJobLeases: list(), and straight on when nothing has expired.
List(s) ==
  /\ req[s].pc = "list"
  /\ Become(s, [req[s] EXCEPT !.pc = IF Expired = {} THEN "act" ELSE "expire",
                              !.todo = Expired,
                              !.snap = IF UsesList(req[s]) \/ Expired # {}
                                       THEN Statuses ELSE NoList])
  /\ UNCHANGED <<rows, recOf, created, held, known, wins>>

\* Then one compare-and-set per expired row of that list, newest first, on
\* the status the list showed ...
ExpireOne(s) ==
  /\ req[s].pc = "expire"
  /\ \E j \in req[s].todo :
       LET was == req[s].snap[j]
       IN /\ \A k \in req[s].todo : k <= j
          /\ \/ /\ rows[j].status = was
                /\ rows' = [rows EXCEPT ![j] = Ended(IF was = "running"
                                                     THEN "failed"
                                                     ELSE "cancelled")]
                /\ Become(s, [req[s] EXCEPT !.todo = @ \ {j}, !.won = TRUE])
             \/ /\ rows[j].status # was
                /\ Become(s, [req[s] EXCEPT !.todo = @ \ {j}])
                /\ UNCHANGED rows
  /\ UNCHANGED <<recOf, created, held, known, wins>>

\* ... and a second list() only when something expired.
EndExpiry(s) ==
  /\ req[s].pc = "expire"
  /\ req[s].todo = {}
  /\ Become(s, [req[s] EXCEPT !.pc = "act", !.won = FALSE,
                              !.snap = IF ~UsesList(req[s]) THEN NoList
                                       ELSE IF req[s].won THEN Statuses ELSE @])
  /\ UNCHANGED <<rows, recOf, created, held, known, wins>>

Acting(s, op) == req[s].pc = "act" /\ req[s].op = op

\* The lease runner's tick; its `running` flag is the slot being busy.
BeginSweep ==
  /\ Begin(LeaseRunner, "sweep", 0, "list")
  /\ UNCHANGED <<rows, recOf, created, held, known, wins>>

EndSweep ==
  /\ Acting(LeaseRunner, "sweep")
  /\ Finish(LeaseRunner)
  /\ UNCHANGED <<rows, recOf, created, held, known, wins>>

------------------------------------------------------------------------------
(* Queueing *)

\* createRecordingJob: an ad-hoc start or a schedule run has just created the
\* recording and inserts its first row, queued.
Create(r) ==
  /\ created < MaxJobs
  /\ \A j \in 1 .. created : recOf[j] # r
  /\ created' = created + 1
  /\ rows' = [rows EXCEPT ![created + 1] = Queued]
  /\ recOf' = [recOf EXCEPT ![created + 1] = r]
  /\ UNCHANGED <<req, held, known, wins>>

BeginRetry(s, j) ==
  /\ j <= created
  /\ Begin(s, "retry", j, "list")
  /\ UNCHANGED <<rows, recOf, created, held, known, wins>>

\* The checks of retryRecordingJob, all made on the list.
RetryAllowed(j, table) ==
  /\ table[j] \in Retryable
  /\ \A k \in Job \ {j} : recOf[k] = recOf[j] => table[k] \notin Active

\* Mutant: the retry queues the ended row again.
RetryInPlace(s) ==
  /\ Acting(s, "retry")
  /\ rows' = IF RetryAllowed(req[s].job, req[s].snap)
             THEN [rows EXCEPT ![req[s].job] = Queued] ELSE rows
  /\ Finish(s)
  /\ UNCHANGED <<recOf, created, held, known, wins>>

\* retryRecordingJob inserts a fresh row for the same recording and command.
\* At the bound MaxJobs the insert is left out.
Retry(s) ==
  /\ Acting(s, "retry")
  /\ \/ /\ RetryAllowed(req[s].job, req[s].snap)
        /\ created < MaxJobs
        /\ created' = created + 1
        /\ rows' = [rows EXCEPT ![created + 1] = Queued]
        /\ recOf' = [recOf EXCEPT ![created + 1] = recOf[req[s].job]]
     \/ /\ ~RetryAllowed(req[s].job, req[s].snap) \/ created = MaxJobs
        /\ UNCHANGED <<created, rows, recOf>>
  /\ Finish(s)
  /\ UNCHANGED <<held, known, wins>>

------------------------------------------------------------------------------
(* Claiming *)

\* A worker of the agent asks for work; several workers may ask at once.
BeginClaim(s, op) ==
  /\ op \in {"claimGroup", "claimNext"}
  /\ Begin(s, op, 0, "list")
  /\ UNCHANGED <<rows, recOf, created, held, known, wins>>

\* POST /recording-jobs/:jobId/claim
BeginClaimById(s, j) ==
  /\ j <= created
  /\ "claim" \in Calls
  /\ req[s].pc = "idle"
  /\ Become(s, [Idle EXCEPT !.op = "claim", !.pc = "list",
                            !.members = {j}, !.picks = {j}])
  /\ UNCHANGED <<rows, recOf, created, held, known, wins>>

\* nextRecordingJob picks the oldest queued row of the list; a group claim
\* selects that row and every queued row that shares its capture group.
Selection(op, table) ==
  LET queued  == {j \in Job : table[j] = "queued"}
      primary == {j \in queued : \A k \in queued : j <= k}
      groupOf(j) == GroupOf[recOf[j]]
  IN IF op = "claimNext"
     THEN primary
     ELSE {j \in queued : \E p \in primary :
             j = p \/ (groupOf(p) # NoGroup /\ groupOf(j) = groupOf(p))}

Select(s) ==
  /\ req[s].pc = "act"
  /\ req[s].op \in ClaimOps
  /\ req[s].members = {}
  /\ LET chosen == Selection(req[s].op, req[s].snap)
     IN IF chosen = {}
        THEN Finish(s)
        ELSE Become(s, [req[s] EXCEPT !.pc = "list", !.snap = NoList,
                                      !.members = chosen, !.picks = chosen])
  /\ UNCHANGED <<rows, recOf, created, held, known, wins>>

\* Mutant: the claim saves the row its list showed queued.
CanClaimUnchecked(j) == TRUE

\* store.claim's compare.
CanClaim(j) == rows[j].status = "queued"

\* claimRecordingJob on one selected row, oldest first, after an expiry pass of
\* its own: store.claim is the compare and set on "queued".  A claim-next that
\* lost its row starts over; a group claim goes on with the next member.
ClaimMember(s) ==
  /\ req[s].pc = "act"
  /\ \E j \in req[s].picks :
       LET rest == req[s].picks \ {j}
           next == IF rest = {} THEN "respond" ELSE "list"
       IN /\ \A k \in req[s].picks : j <= k
          /\ \/ /\ CanClaim(j)
                /\ rows' = [rows EXCEPT ![j] = Leased]
                /\ wins' = [wins EXCEPT ![j] = @ + 1]
                /\ Become(s, [req[s] EXCEPT !.picks = rest, !.pc = next,
                                            !.got = @ \cup {j}])
             \/ /\ ~CanClaim(j)
                /\ Become(s, IF req[s].op = "claimNext"
                             THEN [Idle EXCEPT !.op = "claimNext", !.pc = "list"]
                             ELSE [req[s] EXCEPT !.picks = rest, !.pc = next])
                /\ UNCHANGED <<rows, wins>>
  /\ UNCHANGED <<recOf, created, held, known>>

\* The answer reaches the agent, which starts to capture what it got, or is
\* lost: the agent gave up on the request or crashed meanwhile.
Respond(s) ==
  /\ req[s].pc = "respond"
  /\ \/ /\ held' = held \cup req[s].got
        /\ known' = known \cup req[s].got
     \/ UNCHANGED <<held, known>>
  /\ Finish(s)
  /\ UNCHANGED <<rows, recOf, created, wins>>

------------------------------------------------------------------------------
(* The agent's lease: heartbeat, end of the capture, crash *)

BeginHeartbeat(s, j) ==
  /\ j \in held
  /\ Begin(s, "heartbeat", j, "list")
  /\ UNCHANGED <<rows, recOf, created, held, known, wins>>

\* heartbeatRecordingJob finds the row, which must be running ...
HeartbeatFind(s) ==
  /\ Acting(s, "heartbeat")
  /\ IF rows[req[s].job].status = "running"
     THEN Become(s, [req[s] EXCEPT !.pc = "save"])
     ELSE Finish(s)
  /\ UNCHANGED <<rows, recOf, created, held, known, wins>>

\* ... and upserts the whole row it found with a new lease, unconditionally.
HeartbeatSave(s) ==
  /\ req[s].pc = "save"
  /\ rows' = [rows EXCEPT ![req[s].job] = Leased]
  /\ Finish(s)
  /\ UNCHANGED <<recOf, created, held, known, wins>>

\* The agent ends a job it knows, from its worker or from the state it
\* persisted before a crash: the cache-file upload completes it, the other
\* two are reports.  cancelRecordingJob and failRecordingJob run no expiry pass.
BeginEnd(s, op, j) ==
  /\ j \in known
  /\ op \in {"complete", "cancel", "fail"}
  /\ Begin(s, op, j, IF op = "complete" THEN "list" ELSE "act")
  /\ held' = held \ {j}
  /\ UNCHANGED <<rows, recOf, created, known, wins>>

EndStatus == [complete |-> "completed", cancel |-> "cancelled", fail |-> "failed"]

\* Mutant: a find and a save, whatever the row has become.
CanEndAnyRow(j) == rows[j].status # "absent"

\* transition's compare with NON_TERMINAL_SOURCES.
CanEnd(j) == rows[j].status \in Active

\* completeRecordingJob, cancelRecordingJob, failRecordingJob: a transition
\* out of NON_TERMINAL_SOURCES.  The early return on a row already in the
\* target status is the compare-and-set that fails.
End(s) ==
  /\ req[s].pc = "act"
  /\ req[s].op \in DOMAIN EndStatus
  /\ LET j == req[s].job
     IN rows' = IF CanEnd(j)
                THEN [rows EXCEPT ![j] = Ended(EndStatus[req[s].op])]
                ELSE rows
  /\ Finish(s)
  /\ UNCHANGED <<recOf, created, held, known, wins>>

\* The worker polls its job, sees it ended, and stops the capture.
ObserveEnd(j) ==
  /\ j \in held
  /\ rows[j].status \in Terminal \cup {"absent"}
  /\ held' = held \ {j}
  /\ UNCHANGED <<rows, recOf, created, req, known, wins>>

\* The agent process dies: nobody heartbeats its jobs any more.
Crash ==
  /\ held # {}
  /\ held' = {}
  /\ UNCHANGED <<rows, recOf, created, req, known, wins>>

------------------------------------------------------------------------------
(* The operator *)

\* bulk-stop names the job; the recording's stop button names the recording.
BeginStop(s, op, j) ==
  /\ j <= created
  /\ op \in {"stop", "stopRecording"}
  /\ Begin(s, op, j, "list")
  /\ UNCHANGED <<rows, recOf, created, held, known, wins>>

\* The first match of the list, newest row first.
StopTarget(q) ==
  LET matches == {j \in Job : /\ q.snap[j] \in Stoppable
                              /\ \/ j = q.job
                                 \/ /\ q.op = "stopRecording"
                                    /\ recOf[j] = recOf[q.job]}
  IN {j \in matches : \A k \in matches : k <= j}

\* stopRecordingJob and stopRecordingJobById: transition out of queued or running.
Stop(s) ==
  /\ req[s].pc = "act"
  /\ req[s].op \in {"stop", "stopRecording"}
  /\ rows' = [j \in Job |-> IF /\ j \in StopTarget(req[s])
                               /\ rows[j].status \in Stoppable
                            THEN Stopping ELSE rows[j]]
  /\ Finish(s)
  /\ UNCHANGED <<recOf, created, held, known, wins>>

\* deleteRecordingJobsForRecording: the recording is deleted with its rows.
Delete(r) ==
  /\ "delete" \in Calls
  /\ \E j \in Job : recOf[j] = r /\ rows[j] # Absent
  /\ rows' = [j \in Job |-> IF recOf[j] = r THEN Absent ELSE rows[j]]
  /\ UNCHANGED <<recOf, created, req, held, known, wins>>

------------------------------------------------------------------------------
\* Wall-clock time passes the lease of a running row, or the grace period of
\* a stop request.
Elapse(j) ==
  /\ rows[j].timer = "live"
  /\ rows' = [rows EXCEPT ![j].timer = "elapsed"]
  /\ UNCHANGED <<recOf, created, req, held, known, wins>>

\* A store call throws (DatabaseUnavailableError): the request ends there, and
\* what it wrote before stays written.
StoreFails(s) ==
  /\ "outage" \in Calls
  /\ req[s].pc \notin {"idle", "respond"}
  /\ Finish(s)
  /\ UNCHANGED <<rows, recOf, created, held, known, wins>>

Step(s) ==
  \/ List(s) \/ ExpireOne(s) \/ EndExpiry(s)
  \/ Retry(s) \/ Select(s) \/ ClaimMember(s) \/ Respond(s)
  \/ HeartbeatFind(s) \/ HeartbeatSave(s) \/ End(s) \/ Stop(s)

Receive(s) ==
  \/ \E op \in {"claimGroup", "claimNext"} : BeginClaim(s, op)
  \/ \E j \in Job :
       \/ BeginClaimById(s, j) \/ BeginHeartbeat(s, j) \/ BeginRetry(s, j)
       \/ \E op \in {"complete", "cancel", "fail"} : BeginEnd(s, op, j)
       \/ \E op \in {"stop", "stopRecording"} : BeginStop(s, op, j)

Next ==
  \/ BeginSweep \/ EndSweep
  \/ \E s \in Slot : Step(s) \/ StoreFails(s)
  \/ \E s \in Request : Receive(s)
  \/ \E r \in Recording : Create(r) \/ Delete(r)
  \/ \E j \in Job : Elapse(j) \/ ObserveEnd(j)
  \/ Crash

Spec == Init /\ [][Next]_vars

\* No worker heartbeats the row and no claim is about to hand it to one.
Orphaned(j) ==
  /\ rows[j].status = "running"
  /\ j \notin held
  /\ \A s \in Slot : j \notin req[s].got

(***************************************************************************)
(* The event loop runs every handler on to its end and fires the lease     *)
(* runner's interval timer for ever.  Time passes: the lease of a row that *)
(* nobody renews elapses, and so does the grace period of a stop request,  *)
(* which nothing renews.  Nothing is assumed of agents or operators.       *)
(***************************************************************************)
Fairness ==
  /\ \A s \in Slot : WF_vars(Step(s))
  /\ WF_vars(BeginSweep)
  /\ WF_vars(EndSweep)
  /\ \A j \in Job :
       /\ WF_vars(Orphaned(j) /\ Elapse(j))
       /\ WF_vars(rows[j].status = "stop_requested" /\ Elapse(j))

FairSpec == Spec /\ Fairness

------------------------------------------------------------------------------
(* Properties *)

\* No job is ever claimed twice, whatever claims, stops, retries, crashes and
\* expiry passes overlap (the guarantee of claimRecordingJob's comment).
ClaimedOnce == \A j \in Job : wins[j] <= 1

\* A row that ended, or was deleted, is left alone by every request except a
\* heartbeat whose find came before the end: completions, failures, stops,
\* claims and expiry passes built on stale lists all lose their compare and
\* set.
EndsStand ==
  [][\A j \in 1 .. created :
       /\ rows[j].status \in Terminal \cup {"absent"}
       /\ rows'[j].status \notin {rows[j].status, "absent"}
       => \E s \in Slot : req[s].pc = "save" /\ req[s].job = j]_vars

\* A job whose worker is gone (crash, or a claim whose answer was lost) does
\* not stay running, and a stop request that no agent answers is resolved: the
\* lease runner ends them.  (Nothing but the end of its row makes an orphan less
\* of one.)
LeasesEnd ==
  \A j \in Job : []<>~Orphaned(j) /\ []<>(rows[j].status # "stop_requested")

\* Seen from outside, the table is the lifecycle JobLifecycle promises: ids not
\* used yet are "unborn", and the claimed jobs are those with a won claim.
Visible == [j \in Job |-> IF j > created THEN "unborn" ELSE rows[j].status]
Claimed == {j \in Job : wins[j] > 0}
Lifecycle == INSTANCE JobLifecycle WITH status <- Visible, claimed <- Claimed

\* Every interleaving of requests implements that lifecycle.
ImplementsLifecycle == Lifecycle!Spec

------------------------------------------------------------------------------
(* What the documentation says and the code does not keep *)

\* "A controller stop request is honored even mid-capture": a stop request is
\* never turned back into a running job.
StopHonored ==
  [][\A j \in Job : rows[j].status = "stop_requested" => rows'[j].status # "running"]_vars

\* "The agent claims the whole group": of two claim calls in flight, one does
\* not win a member the other selected along with members it did win.
GroupClaimedWhole ==
  \A s, t \in Slot :
    /\ s # t
    /\ req[s].op = "claimGroup" /\ req[t].op = "claimGroup"
    /\ req[s].got # {}
    => req[t].got \cap req[s].members = {}
==============================================================================
