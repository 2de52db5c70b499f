--------------------------- MODULE AgentCapture ---------------------------
(***************************************************************************)
(* The recorder agent (crates/recorder-agent): its workers, which claim    *)
(* jobs, capture, stitch, render and upload; its one state file; the       *)
(* recovery that runs at start and after an outage; what it deletes.       *)
(*                                                                         *)
(* Audio is a set of pieces, captured in order.  A step is the code        *)
(* between two awaits.  The controller is what the agent sees of it.       *)
(***************************************************************************)
EXTENDS Naturals, Sequences, FiniteSets

CONSTANTS
  Job,         \* recording jobs
  RecordingOf, \* the recording each job captures: a job and its retries share one
  Sessions,    \* what is queued for this node: sessions, the answers of one claim each
  Worker,      \* slots of the agent (maxConcurrentRecordings)
  Pieces,      \* how many pieces a whole capture has
  Deletes,     \* jobs whose cache policy deletes after the upload
  MaxFaults,   \* bound on device losses, crashes and outages together
  NoJob, NoFile

Piece == 1..Pieces

File == {"raw", "segment", "stitched", "render"}

\* A session is the primary, then the members that share its capture.  A job is
\* claimed once.
ASSUME AgentCaptureAssumption ==
  /\ \A s \in Sessions : s \in Seq(Job) /\ Len(s) > 0
  /\ \A s, t \in Sessions : \A i \in DOMAIN s, k \in DOMAIN t :
       s[i] = t[k] => s = t /\ i = k
  /\ Pieces \in Nat \ {0} /\ MaxFaults \in Nat
  /\ NoJob \notin Job /\ NoFile \notin File

Ended == {"completed", "failed", "cancelled"}

VARIABLES
  queued,      \* the sessions not claimed yet, those that a retry will queue too
  ctl,         \* the controller's job rows
  received,    \* the audio the controller has of each job
  disk,        \* the audio of each job in the agent's files of its recording
  state,       \* the state file
  work,        \* what each worker is doing
  main,        \* the tick loop and its recovery
  link,        \* whether the controller can be reached
  faults,
  heard,       \* history: the pieces each primary captured
  dropped,     \* history: the pieces of each primary that a loss did not preserve
  exposed,     \* history: jobs whose files something else may have touched
  torn         \* history: jobs whose last segment a crash left unrecorded

history == <<heard, dropped, exposed, torn>>
vars == <<queued, ctl, received, disk, state, work, main, link,
          faults, history>>

NoAudio == [f \in File |-> {}]
NoState == [job |-> NoJob, status |-> "completed", path |-> NoFile,
            master |-> NoFile, segs |-> {}, retained |-> FALSE]
Idle == [pc |-> "idle", jobs |-> <<>>, path |-> NoFile, master |-> NoFile,
         segs |-> {}, linked |-> TRUE]
Resting == [pc |-> "boot", rec |-> NoState, syncFailed |-> FALSE, pending |-> FALSE]

Primary(w) == Head(work[w].jobs)
Holds(w, j) == work[w].pc # "idle" /\ \E i \in DOMAIN work[w].jobs : work[w].jobs[i] = j
Capturing == {"capturing", "lost", "restarted"}
\* A shared session: the jobs that share j's capture, j among them.
Shared(j) == {k \in Job : \E s \in Sessions : s[1] = j /\ \E i \in DOMAIN s : s[i] = k}

Snapshot(j, status, path, master, segs, retained) ==
  [job |-> j, status |-> status, path |-> path, master |-> master,
   segs |-> segs, retained |-> retained]
\* write_job_state knows neither the segments nor the raw master.
Plain(j, status, path) == Snapshot(j, status, path, NoFile, {}, FALSE)

Fault == faults < MaxFaults /\ faults' = faults + 1

Go(w, pc) == work' = [work EXCEPT ![w].pc = pc]
Return(w) == work' = [work EXCEPT ![w] = Idle]

\* A report of the agent: an ended job keeps its end, and a call that fails
\* changes nothing.
Report(j, status) ==
  ctl' = IF link /\ ctl[j] \notin Ended THEN [ctl EXCEPT ![j] = status] ELSE ctl

\* The controller refuses audio for a job it failed or cancelled.
Accepts(j) == link /\ ctl[j] \notin {"failed", "cancelled"}
Attach(j, audio) ==
  /\ received' = [received EXCEPT ![j] = audio]
  /\ ctl' = [ctl EXCEPT ![j] = "completed"]

TypeOK ==
  /\ queued \subseteq Sessions
  /\ ctl \in [Job -> {"queued", "running", "stop_requested"} \cup Ended]
  /\ received \in [Job -> SUBSET Piece]
  /\ disk \in [Job -> [File -> SUBSET Piece]]
  /\ state.job \in Job \cup {NoJob} /\ state.path \in File \cup {NoFile}
  /\ DOMAIN work = Worker /\ link \in BOOLEAN
  /\ heard \in [Job -> SUBSET Piece] /\ dropped \in [Job -> SUBSET Piece]
  /\ exposed \cup torn \subseteq Job

Init ==
  /\ queued = Sessions
  /\ ctl = [j \in Job |-> "queued"]
  /\ received = [j \in Job |-> {}]
  /\ disk = [j \in Job |-> NoAudio]
  /\ state = NoState
  /\ work = [w \in Worker |-> Idle]
  /\ main = Resting
  /\ link = TRUE
  /\ faults = 0
  /\ heard = [j \in Job |-> {}] /\ dropped = [j \in Job |-> {}]
  /\ exposed = {} /\ torn = {}

-----------------------------------------------------------------------------
(* A worker. *)

\* retryRecordingJob: a job is queued for a recording that has one already only
\* when that one failed or was cancelled and no job of it is active.
Rivals(j) == {k \in Job \ {j} : RecordingOf[k] = RecordingOf[j]}
Due(j) ==
  LET earlier == {k \in Rivals(j) : ctl[k] # "queued"} IN
  earlier # {} => /\ \A k \in earlier : ctl[k] \in Ended
                  /\ \E k \in earlier : ctl[k] # "completed"

\* spawn_recording_job_workers, and the claim that a spawned worker starts with.
\* Workers are spawned while a recovery is still pending.
Claim(w, session) ==
  /\ main.pc = "loop" /\ link
  /\ work[w].pc = "idle"
  /\ session \in queued /\ \A i \in DOMAIN session : Due(session[i])
  /\ queued' = queued \ {session}
  /\ ctl' = [j \in Job |-> IF \E i \in DOMAIN session : session[i] = j
                           THEN "running" ELSE ctl[j]]
  /\ work' = [work EXCEPT ![w] = [Idle EXCEPT !.pc = "claimed", !.jobs = session]]
  /\ state' = Plain(Head(session), "running", NoFile)
  /\ UNCHANGED <<received, disk, main, link, faults, history>>

\* The job fails on the agent: reported, written to the state file, over.
GiveUp(w, path) ==
  /\ Report(Primary(w), "failed")
  /\ state' = Plain(Primary(w), "failed", path)
  /\ Return(w)

\* The files are named after the recording: the capture of a retry overwrites what
\* an earlier job of it left, and the two are in each other's way when the agent is
\* still at work on that one.
InHand(j) == main.rec.job = j \/ \E w \in Worker : Holds(w, j)
Overwrite(p) ==
  LET earlier == {k \in Job \ Shared(p) : \E j \in Shared(p) : k \in Rivals(j)}
      hit == {k \in earlier : disk[k] # NoAudio \/ InHand(k)}
  IN /\ disk' = [k \in Job |-> IF k \in earlier THEN NoAudio ELSE disk[k]]
     /\ exposed' = exposed \cup {k \in Job : \E i \in hit : k = i \/ k \in Shared(i)}
                            \cup {j \in Shared(p) : \E k \in earlier : InHand(k)}

\* The disk preflight and the spawn of the capture command.
StartCapture(w) ==
  /\ work[w].pc = "claimed"
  /\ \/ /\ Go(w, "capturing")
        /\ state' = Snapshot(Primary(w), "running", "raw", NoFile, {}, FALSE)
        /\ Overwrite(Primary(w))
        /\ UNCHANGED ctl
     \/ GiveUp(w, NoFile) /\ UNCHANGED <<disk, exposed>>
  /\ UNCHANGED <<queued, received, main, link, faults, heard, dropped, torn>>

\* The capture command writes the next piece, into a file that may be unlinked.
Record(w) ==
  /\ work[w].pc \in {"capturing", "restarted"}
  /\ LET j == Primary(w)
         next == Cardinality(heard[j]) + 1 IN
     /\ next <= Pieces
     /\ heard' = [heard EXCEPT ![j] = @ \cup {next}]
     /\ disk' = IF work[w].linked THEN [disk EXCEPT ![j].raw = @ \cup {next}] ELSE disk
  /\ UNCHANGED <<queued, ctl, received, state, work, main, link, faults, dropped, exposed, torn>>

\* Runtime device loss or disk shortfall: what was captured becomes a segment, or
\* stays where it is when it is too short or cannot be renamed.
LoseDevice(w) ==
  /\ work[w].pc = "capturing"
  /\ Fault
  /\ LET j == Primary(w)
         Lost(segs) == work' = [work EXCEPT ![w].pc = "lost", ![w].linked = TRUE,
                                            ![w].segs = @ \cup segs] IN
     \/ /\ disk' = [disk EXCEPT ![j].segment = @ \cup disk[j].raw, ![j].raw = {}]
        /\ Lost(disk[j].raw)
     \/ Lost({}) /\ UNCHANGED disk
  /\ UNCHANGED <<queued, ctl, received, state, main, link, history>>

\* What was not preserved is removed, or overwritten by the new capture.
Discard(j) ==
  /\ dropped' = [dropped EXCEPT ![j] = @ \cup disk[j].raw]
  /\ disk' = [disk EXCEPT ![j].raw = {}]

\* The capture is spawned again; it runs while the loss is still being reported.
\* When that fails the job does, or, after a disk shortfall, the worker just ends.
Respawn(w) ==
  /\ work[w].pc = "lost"
  /\ \/ Go(w, "restarted") /\ Discard(Primary(w)) /\ UNCHANGED <<ctl, state>>
     \/ /\ \/ GiveUp(w, NoFile)
           \/ Return(w) /\ UNCHANGED <<ctl, state>>
        /\ \/ Discard(Primary(w))
           \/ UNCHANGED <<disk, dropped>>
  /\ UNCHANGED <<queued, received, main, link, faults, heard, exposed, torn>>

RecordSegments(w) ==
  /\ work[w].pc = "restarted"
  /\ Go(w, "capturing")
  /\ state' = Snapshot(Primary(w), "running", "raw", NoFile, work[w].segs, FALSE)
  /\ UNCHANGED <<queued, ctl, received, disk, main, link, faults, history>>

\* A stall, an exit code, a device that stays lost: the capture fails.
CaptureFails(w) ==
  /\ work[w].pc = "capturing"
  /\ GiveUp(w, NoFile)
  /\ UNCHANGED <<queued, received, disk, main, link, faults, history>>

\* handle_terminal_controller_job: the poll finds that the controller ended the
\* job.  A cancellation that cannot be reported leaves the state file as it was.
StopCapture(w) ==
  /\ work[w].pc = "capturing" /\ link
  /\ LET j == Primary(w) IN
     \/ /\ ctl[j] \in {"stop_requested", "cancelled"}
        /\ \/ Report(j, "cancelled") /\ state' = Plain(j, "cancelled", NoFile)
           \/ UNCHANGED <<ctl, state>>
     \/ /\ ctl[j] \in {"failed", "completed"}
        /\ state' = Plain(j, ctl[j], NoFile)
        /\ UNCHANGED ctl
  /\ Return(w)
  /\ UNCHANGED <<queued, received, disk, main, link, faults, history>>

\* try_complete: the capture command exited and its output is long enough.
FinishCapture(w) ==
  /\ work[w].pc = "capturing"
  /\ heard[Primary(w)] = Piece /\ disk[Primary(w)].raw # {}
  /\ Go(w, "captured")
  /\ state' = Snapshot(Primary(w), "captured", "raw", NoFile, work[w].segs, FALSE)
  /\ UNCHANGED <<queued, ctl, received, disk, main, link, faults, history>>

\* The concatenation needs all its inputs, and removes them when it succeeds.
Stitchable(j, segs, path) == segs \subseteq disk[j].segment /\ disk[j][path] # {}
StitchedDisk(j, segs, path) ==
  [disk EXCEPT ![j].stitched = segs \cup disk[j][path],
               ![j].segment = @ \ segs, ![j][path] = {}]

\* Mutant of Stitch: the segments are forgotten and the last part is the master.
StitchNothing(w) ==
  /\ work[w].pc = "captured"
  /\ work' = [work EXCEPT ![w].pc = "rendering", ![w].master = "raw"]
  /\ UNCHANGED <<ctl, disk, state, queued, received, main, link, faults, history>>

Stitch(w) ==
  /\ work[w].pc = "captured"
  /\ LET j == Primary(w)
         segs == work[w].segs IN
     \/ /\ segs = {}
        /\ work' = [work EXCEPT ![w].pc = "rendering", ![w].master = "raw"]
        /\ UNCHANGED <<ctl, disk, state>>
     \/ /\ segs # {} /\ Stitchable(j, segs, "raw")
        /\ disk' = StitchedDisk(j, segs, "raw")
        /\ work' = [work EXCEPT ![w].pc = "rendering", ![w].master = "stitched"]
        /\ UNCHANGED <<ctl, state>>
     \/ segs # {} /\ GiveUp(w, "raw") /\ UNCHANGED disk
  /\ UNCHANGED <<queued, received, main, link, faults, history>>

\* render_capture_output: the output is the master itself or a rendered file.
Render(w) ==
  /\ work[w].pc = "rendering"
  /\ LET j == Primary(w)
         master == work[w].master IN
     \/ /\ disk[j][master] # {}
        /\ work' = [work EXCEPT ![w].pc = "rendered", ![w].path = master]
        /\ UNCHANGED <<ctl, disk, state>>
     \/ /\ disk[j][master] # {}
        /\ disk' = [disk EXCEPT ![j].render = disk[j][master]]
        /\ work' = [work EXCEPT ![w].pc = "rendered", ![w].path = "render"]
        /\ UNCHANGED <<ctl, state>>
     \/ GiveUp(w, master) /\ UNCHANGED disk
  /\ UNCHANGED <<queued, received, main, link, faults, history>>

\* What write_upload_checkpoint_state stores.
UploadState(w, status) ==
  Snapshot(Primary(w), status, work[w].path, work[w].master, work[w].segs, TRUE)

Checkpoint(w) ==
  /\ work[w].pc = "rendered"
  /\ Go(w, "uploading")
  /\ state' = UploadState(w, "upload_pending")
  /\ UNCHANGED <<queued, ctl, received, disk, main, link, faults, history>>

\* upload_recording_renditions: it is attached, or it is attached and the answer
\* is lost, or it is not attached.
Upload(w) ==
  /\ work[w].pc = "uploading"
  /\ LET j == Primary(w)
         audio == disk[j][work[w].path] IN
     \/ /\ Accepts(j) /\ audio # {}
        /\ Attach(j, audio)
        /\ \/ Go(w, "members") /\ state' = UploadState(w, "uploaded")
           \/ Return(w) /\ state' = UploadState(w, "upload_pending")
     \/ /\ Return(w) /\ state' = UploadState(w, "upload_pending")
        /\ UNCHANGED <<ctl, received>>
  /\ UNCHANGED <<queued, disk, main, link, faults, history>>

NextMember(w) == work[w].jobs[2]
WithoutMember(w) == <<Primary(w)>> \o Tail(Tail(work[w].jobs))

\* finalize_secondary_member: a member's audio is rendered from the primary's
\* master; a failure is the member's own.
RenderMember(w) ==
  /\ work[w].pc = "members" /\ Len(work[w].jobs) > 1
  /\ LET m == NextMember(w)
         master == disk[Primary(w)][work[w].master] IN
     \/ /\ master # {}
        /\ disk' = [disk EXCEPT ![m].render = master]
        /\ state' = Plain(m, "running", "render")
        /\ Go(w, "member")
        /\ UNCHANGED <<ctl, exposed>>
     \/ /\ Report(m, "failed")
        /\ state' = Plain(m, "failed", NoFile)
        /\ work' = [work EXCEPT ![w].jobs = WithoutMember(w)]
        /\ exposed' = exposed \cup {m}
        /\ UNCHANGED disk
  /\ UNCHANGED <<queued, received, main, link, faults, heard, dropped, torn>>

UploadMember(w) ==
  /\ work[w].pc = "member"
  /\ work' = [work EXCEPT ![w].pc = "members", ![w].jobs = WithoutMember(w)]
  /\ LET m == NextMember(w) IN
     \/ /\ Accepts(m)
        /\ Attach(m, disk[m].render)
        /\ state' \in {Plain(m, "completed", "render"), Plain(m, "failed", NoFile)}
     \/ /\ Report(m, "failed")
        /\ state' = Plain(m, "failed", NoFile)
        /\ UNCHANGED received
  /\ UNCHANGED <<queued, disk, main, link, faults, history>>

\* apply_recorder_cache_retention, after every member is done.
Retained(j, master, path) ==
  IF j \in Deletes
  THEN [disk EXCEPT ![j] = [f \in File |-> IF f \in {master, path} THEN {} ELSE @[f]]]
  ELSE disk

\* Mutant of Retain: the primary's files go as soon as the primary is uploaded.
RetainEarly(w) ==
  /\ work[w].pc = "members"
  /\ disk' = Retained(Primary(w), work[w].master, work[w].path)
  /\ state' = Plain(Primary(w), "completed", work[w].path)
  /\ Return(w)
  /\ UNCHANGED <<queued, ctl, received, main, link, faults, history>>

Retain(w) ==
  /\ work[w].pc = "members" /\ Len(work[w].jobs) = 1
  /\ LET j == Primary(w) IN
     /\ disk' = Retained(j, work[w].master, work[w].path)
     /\ state' = Plain(j, "completed", work[w].path)
  /\ Return(w)
  /\ UNCHANGED <<queued, ctl, received, main, link, faults, history>>

WorkerStep(w) ==
  \/ StartCapture(w) \/ Record(w) \/ Respawn(w) \/ RecordSegments(w)
  \/ StopCapture(w) \/ FinishCapture(w) \/ CaptureFails(w)
  \/ Stitch(w) \/ Render(w) \/ Checkpoint(w)
  \/ Upload(w) \/ RenderMember(w) \/ UploadMember(w) \/ Retain(w)

-----------------------------------------------------------------------------
(* The tick loop: the node's heartbeat, and the recovery of the last state.   *)

\* reconcile_previous_recording_job reads the state file once and works on that
\* copy while the workers of this process go on.
Reconcile ==
  IF state.status \in Ended
  THEN /\ main' = [main EXCEPT !.pc = "loop", !.syncFailed = FALSE, !.pending = FALSE]
       /\ UNCHANGED exposed
  ELSE /\ main' = [main EXCEPT !.pc = IF state.status = "uploaded" THEN "retain"
                                      ELSE "recover",
                               !.rec = state, !.syncFailed = FALSE]
       /\ exposed' = exposed \cup (Shared(state.job) \ {state.job})
                         \cup {j \in {state.job} : \E w \in Worker : Holds(w, j)}

Boot ==
  /\ main.pc = "boot"
  /\ Reconcile
  /\ UNCHANGED <<queued, ctl, received, disk, state, work, link, faults, heard, dropped, torn>>

\* Mutant of Tick: only the end of an outage reconciles.
TickOnce ==
  /\ main.pc = "loop"
  /\ \/ link /\ main.syncFailed /\ Reconcile
     \/ ~link /\ ~main.syncFailed /\ main' = [main EXCEPT !.syncFailed = TRUE] /\ UNCHANGED exposed
  /\ UNCHANGED <<queued, ctl, received, disk, state, work, link, faults, heard, dropped, torn>>

\* A tick's heartbeat: the first success after a failure reconciles, and so does
\* every success while a recovery is pending.
Tick ==
  /\ main.pc = "loop"
  /\ \/ link /\ (main.syncFailed \/ main.pending) /\ Reconcile
     \/ ~link /\ ~main.syncFailed /\ main' = [main EXCEPT !.syncFailed = TRUE] /\ UNCHANGED exposed
  /\ UNCHANGED <<queued, ctl, received, disk, state, work, link, faults, heard, dropped, torn>>

\* recoverable_restart_output_path
Recoverable(rec) ==
  /\ rec.status \in {"running", "captured", "upload_pending"}
  /\ rec.path # NoFile
  /\ disk[rec.job][rec.path] # {}

Recovered(status) ==
  /\ state' = [main.rec EXCEPT !.status = status]
  /\ main' = [main EXCEPT !.pc = "loop", !.rec = NoState, !.pending = FALSE]
RecoveryPending ==
  main' = [main EXCEPT !.pc = "loop", !.rec = NoState, !.pending = TRUE]

\* plan_restart_stitch: segments that are still there are stitched with the file.
\* A stitching that fails fails the job.
RecoverStitch ==
  /\ main.pc = "recover" /\ Recoverable(main.rec)
  /\ LET rec == main.rec
         needed == rec.segs # {} /\ rec.segs \subseteq disk[rec.job].segment IN
     \/ /\ ~needed
        /\ main' = [main EXCEPT !.pc = "resend",
                                !.rec.master = IF @ = NoFile THEN rec.path ELSE @]
        /\ UNCHANGED <<ctl, disk, state, work>>
     \/ /\ needed
        /\ disk' = StitchedDisk(rec.job, rec.segs, rec.path)
        /\ work' = [w \in Worker |-> IF work[w].pc \in Capturing /\ Primary(w) = rec.job
                                    THEN [work[w] EXCEPT !.linked = FALSE] ELSE work[w]]
        /\ main' = [main EXCEPT !.pc = "resend", !.rec.path = "stitched",
                                !.rec.master = "stitched"]
        /\ UNCHANGED <<ctl, state>>
     \/ needed /\ Report(rec.job, "failed") /\ Recovered("failed") /\ UNCHANGED <<disk, work>>
  /\ UNCHANGED <<queued, received, link, faults, history>>

\* The upload of what was found, and the state that says it was accepted.
RecoverUpload ==
  /\ main.pc = "resend"
  /\ LET rec == main.rec
         audio == disk[rec.job][rec.path] IN
     \/ /\ Accepts(rec.job) /\ audio # {}
        /\ Attach(rec.job, audio)
        /\ \/ /\ state' = [rec EXCEPT !.status = "uploaded"]
              /\ main' = [main EXCEPT !.pc = "retain", !.rec.status = "uploaded"]
           \/ RecoveryPending /\ UNCHANGED state
     \/ RecoveryPending /\ UNCHANGED <<ctl, received, state>>
  /\ UNCHANGED <<queued, disk, work, link, faults, history>>

\* apply_recovered_upload_retention, when the state remembers a policy; then the
\* copy is written back as completed.
RecoverRetain ==
  /\ main.pc = "retain"
  /\ LET rec == main.rec IN
     disk' = IF rec.retained THEN Retained(rec.job, rec.master, rec.path) ELSE disk
  /\ main' = [main EXCEPT !.pc = "close"]
  /\ UNCHANGED <<queued, ctl, received, state, work, link, faults, history>>

RecoverClose ==
  /\ main.pc = "close"
  /\ Recovered("completed")
  /\ UNCHANGED <<queued, ctl, received, disk, work, link, faults, history>>

\* Nothing to upload: the job is reported failed, or the recovery stays pending.
RecoverFails ==
  /\ main.pc = "recover" /\ ~Recoverable(main.rec)
  /\ \/ link /\ Report(main.rec.job, "failed") /\ Recovered("failed")
     \/ RecoveryPending /\ UNCHANGED <<ctl, state>>
  /\ UNCHANGED <<queued, received, disk, work, link, faults, history>>

MainStep == Boot \/ Tick \/ RecoverStitch \/ RecoverUpload \/ RecoverRetain
            \/ RecoverClose \/ RecoverFails

-----------------------------------------------------------------------------
(* The controller, the operator and the faults. *)

\* A worker that captures renews the leases of all its jobs at every poll.
Renews(w, j) == link /\ Holds(w, j) /\ work[w].pc \in Capturing

\* The lease runner fails a running job whose lease ran out, and cancels one
\* whose stop was not answered.
Expire(j) ==
  /\ \/ /\ ctl[j] = "running" /\ \A w \in Worker : ~Renews(w, j)
        /\ ctl' = [ctl EXCEPT ![j] = "failed"]
     \/ /\ ctl[j] = "stop_requested"
        /\ ctl' = [ctl EXCEPT ![j] = "cancelled"]
  /\ UNCHANGED <<queued, received, disk, state, work, main, link, faults, history>>

RequestStop(j) ==
  /\ ctl[j] = "running"
  /\ ctl' = [ctl EXCEPT ![j] = "stop_requested"]
  /\ UNCHANGED <<queued, received, disk, state, work, main, link, faults, history>>

LinkFails ==
  /\ link /\ Fault
  /\ link' = FALSE
  /\ UNCHANGED <<queued, ctl, received, disk, state, work, main, history>>

LinkReturns ==
  /\ ~link
  /\ link' = TRUE
  /\ UNCHANGED <<queued, ctl, received, disk, state, work, main, faults, history>>

\* The agent dies and is started again: the state file and the audio are what
\* is left.
Crash ==
  /\ Fault
  /\ work' = [w \in Worker |-> Idle]
  /\ main' = Resting
  /\ torn' = torn \cup {Primary(w) : w \in {v \in Worker : work[v].pc \in {"lost", "restarted"}}}
  /\ UNCHANGED <<queued, ctl, received, disk, state, link, heard, dropped, exposed>>

Environment ==
  \/ \E j \in Job : Expire(j) \/ RequestStop(j)
  \/ LinkFails \/ LinkReturns \/ Crash

Next ==
  \/ \E w \in Worker : WorkerStep(w) \/ LoseDevice(w) \/ \E s \in Sessions : Claim(w, s)
  \/ MainStep
  \/ Environment

Spec == Init /\ [][Next]_vars

\* The tick loop goes on, an outage ends, and a call that is made again and again
\* is answered.
Fairness ==
  /\ WF_vars(MainStep) /\ WF_vars(LinkReturns)
  /\ SF_vars(Tick)
  /\ SF_vars(RecoverUpload /\ state' # state)
  /\ SF_vars(RecoverFails /\ state' # state)

-----------------------------------------------------------------------------
(* Properties. *)

Files(j) == UNION {disk[j][f] : f \in File}

\* What was captured is at the controller or still on the node, whatever crashed,
\* failed or got lost: nothing is deleted before it is accepted, for the primary
\* and for every job that shares its capture.  Excused are the pieces that a device
\* loss or disk shortfall could not preserve; and jobs whose files were not theirs
\* alone: a recovery handled them that did not know all of them, a member could not
\* be rendered, a retry captured into the same files.
AudioKept ==
  \A s \in Sessions : \A i \in DOMAIN s :
    s[i] \notin exposed =>
      heard[s[1]] \subseteq received[s[i]] \cup Files(s[i]) \cup Files(s[1]) \cup dropped[s[1]]

\* The controller never has a recording that misses its start: an earlier piece
\* is there whenever a later one is, but for those that a loss could not preserve,
\* unless a crash hit the moment between a device loss and the record of its
\* segment.
StartKept ==
  \A s \in Sessions : \A i \in DOMAIN s :
    s[1] \notin exposed \cup torn /\ s[i] \notin exposed =>
      \A p \in received[s[i]] : 1..p \subseteq received[s[i]] \cup dropped[s[1]]

\* A recovery that failed is taken up again until it is done, unless the
\* controller has ended the job, whose audio it then refuses for ever.
RecoveryEnds ==
  main.pending ~> \/ ~main.pending
                  \/ state.job # NoJob /\ ctl[state.job] \in {"failed", "cancelled"}
=============================================================================
