---------------------------- MODULE CaptureStart ----------------------------
(***************************************************************************)
(* How a capture starts (recording-start-routes.ts, scheduled-             *)
(* recordings.ts, channel-conflicts.ts, capture-start-lock.ts): a start    *)
(* reads the jobs, decides on channels and capacity, and only then creates *)
(* its recording and its job.  One recorder node.                          *)
(*                                                                         *)
(* What happens to a job afterwards is RecordingJobs; here it is queued,   *)
(* claimed, ended and retried, each in one step.                           *)
(***************************************************************************)
EXTENDS CapturePromise, SequencesExt

CONSTANTS
  Start,      \* requests that start a capture, and passes of the schedule runner
  Asks,       \* what they ask for: [adHoc, key, channels]
  MaxJobs, MaxTime, MaxCrashes   \* bounds

CaptureStartAssumption ==
  /\ Seconds \in Nat \ {0} /\ Capacity \in Nat /\ MaxJobs \in Nat /\ MaxTime \in Nat
  /\ MaxCrashes \in Nat
  /\ \A ask \in Asks : ask.adHoc \in BOOLEAN /\ ask.channels # {}

VARIABLES
  recordings,  \* recordedAt of each recording
  tail,        \* the starts in the lock's queue; the first holds the lock
  start,       \* of each start: what it asks, since when, what it has read
  crashes

vars == <<now, recordings, jobs, tail, start, crashes, unchecked, retried, late>>

Idle == [pc |-> "idle", ask |-> {}, at |-> 0, seen |-> {}, group |-> 0]

TypeOK ==
  /\ now \in 0..MaxTime /\ crashes \in 0..MaxCrashes /\ unchecked \in BOOLEAN
  /\ \A r \in DOMAIN recordings : recordings[r] \in 0..MaxTime
  /\ \A j \in Jobs : /\ jobs[j].recording \in DOMAIN recordings
                     /\ jobs[j].startedAt \in 0..MaxTime \cup {Never}
                     /\ jobs[j].ask \in Asks
  /\ \A s \in Start : start[s].pc \in {"idle", "waits", "decide", "create", "job"}
  /\ ToSet(tail) \subseteq Start /\ retried \subseteq Jobs /\ late \subseteq Jobs

Init ==
  /\ now = 0 /\ recordings = <<>> /\ jobs = <<>> /\ tail = <<>> /\ crashes = 0
  /\ start = [s \in Start |-> Idle]
  /\ unchecked = FALSE /\ retried = {} /\ late = {}

Set(s, fields) == start' = [start EXCEPT ![s] = fields]

-----------------------------------------------------------------------------
(* Claims on channels *)

\* A claim holds its channels from its start for as long as its command lasts.
Claims(seen) ==
  {[from |-> IF job.startedAt # Never THEN job.startedAt ELSE recordings[job.recording],
    key |-> job.ask.key, channels |-> job.ask.channels, group |-> job.group] :
     job \in {j \in seen : ActiveCapture(j)}}

Overlap(s, claim) ==
  start[s].at < claim.from + Seconds /\ claim.from < start[s].at + Seconds

\* detectChannelConflicts
Conflicts(s, claims) ==
  {claim \in claims : /\ claim.key = start[s].ask.key
                      /\ Overlap(s, claim)
                      /\ claim.channels \cap start[s].ask.channels # {}}

\* activeCaptureSessionKeys, against the capacity of the node.
OverCapacity(s, claims) ==
  LET keys == {claim.key : claim \in claims}
  IN  start[s].ask.key \notin keys /\ Cardinality(keys) >= Capacity

\* resolveCaptureGroupId: the capture it joins, or a new one.
Joinable(s, claims) ==
  {claim.group : claim \in {c \in claims : c.key = start[s].ask.key /\ Overlap(s, c)}}

NewGroup == Len(recordings) + 1

-----------------------------------------------------------------------------
(* A start, under the lock of its node *)

Enter(s) ==
  /\ start[s].pc = "idle" /\ Len(recordings) + Len(tail) < MaxJobs
  /\ \E ask \in Asks : Set(s, [Idle EXCEPT !.pc = "waits", !.ask = ask, !.at = now])
  /\ tail' = Append(tail, s)
  /\ UNCHANGED <<now, recordings, jobs, crashes, unchecked, retried, late>>

\* Mutant: starts do not wait for one another.
GrantedAtOnce(s) == s \in ToSet(tail)

\* withCaptureStartLock runs the next start when the one before it settled.
Granted(s) == tail # <<>> /\ Head(tail) = s

ReadJobs(s) ==
  /\ start[s].pc = "waits" /\ Granted(s)
  /\ Set(s, [start[s] EXCEPT !.pc = "decide", !.seen = ToSet(jobs)])
  /\ UNCHANGED <<now, recordings, jobs, tail, crashes, unchecked, retried, late>>

\* The one that holds the lock is the first of its queue.
Leave(s) == Set(s, Idle) /\ tail' = Tail(tail)

\* Capacity bounds what an operator starts, not what a schedule does.
Refused(s, claims) ==
  \/ Conflicts(s, claims) # {}
  \/ start[s].ask.adHoc /\ OverCapacity(s, claims)

\* The recordings are listed and the start is decided on.
Reject(s) ==
  /\ start[s].pc = "decide" /\ Refused(s, Claims(start[s].seen))
  /\ Leave(s)
  /\ UNCHANGED <<now, recordings, jobs, crashes, unchecked, retried, late>>

Accept(s) ==
  LET claims == Claims(start[s].seen)
      joinable == Joinable(s, claims)
  IN  /\ start[s].pc = "decide" /\ ~Refused(s, claims)
      /\ \E group \in IF joinable = {} THEN {NewGroup} ELSE joinable :
           Set(s, [start[s] EXCEPT !.pc = "create", !.seen = {}, !.group = group])
      /\ UNCHANGED <<now, recordings, jobs, tail, crashes, unchecked, retried, late>>

CreateRecording(s) ==
  /\ start[s].pc = "create"
  /\ recordings' = Append(recordings, start[s].at)
  /\ Set(s, [start[s] EXCEPT !.pc = "job"])
  /\ UNCHANGED <<now, jobs, tail, crashes, unchecked, retried, late>>

CreateJob(s) ==
  /\ start[s].pc = "job"
  /\ jobs' = Append(jobs, [recording |-> Len(recordings), status |-> "queued",
                           startedAt |-> Never, ask |-> start[s].ask,
                           group |-> start[s].group])
  /\ unchecked' = (unchecked \/ ~start[s].ask.adHoc)
  /\ Leave(s)
  /\ UNCHANGED <<now, recordings, crashes, retried, late>>

\* The controller stops: what its requests were about to create is not created.
Crash ==
  /\ crashes < MaxCrashes /\ tail # <<>>
  /\ crashes' = crashes + 1
  /\ start' = [s \in Start |-> Idle] /\ tail' = <<>>
  /\ UNCHANGED <<now, recordings, jobs, unchecked, retried, late>>

-----------------------------------------------------------------------------
(* What becomes of a job *)

Becomes(j, status) == jobs' = [jobs EXCEPT ![j].status = status]

\* The agent claims the oldest queued job and all queued ones of its capture.
Claim ==
  LET queued == {j \in Jobs : jobs[j].status = "queued"}
      oldest == CHOOSE j \in queued : \A k \in queued : j <= k
      members == {j \in queued : jobs[j].group = jobs[oldest].group}
  IN  /\ queued # {}
      /\ jobs' = [j \in Jobs |-> IF j \in members
                                 THEN [jobs[j] EXCEPT !.status = "running", !.startedAt = now]
                                 ELSE jobs[j]]
      /\ late' = late \cup {j \in members : now >= recordings[jobs[j].recording] + Seconds}
      /\ UNCHANGED <<now, recordings, tail, start, crashes, unchecked, retried>>

StopJob(j) ==
  /\ jobs[j].status \in {"queued", "running"}
  /\ Becomes(j, "stop_requested")
  /\ UNCHANGED <<now, recordings, tail, start, crashes, unchecked, retried, late>>

\* Completed by the agent, cancelled, or failed by it or by its lease.
EndJob(j) ==
  /\ jobs[j].status \in {"running", "stop_requested"}
  /\ \E status \in {"completed", "failed"} : Becomes(j, status)
  /\ UNCHANGED <<now, recordings, tail, start, crashes, unchecked, retried, late>>

\* A retry takes no lock and looks for no conflict; the recording is dated anew.
RetryJob(j) ==
  LET r == jobs[j].recording
  IN  /\ jobs[j].status = "failed" /\ Len(jobs) < MaxJobs
      /\ ~\E k \in Jobs : jobs[k].recording = r /\ ActiveCapture(jobs[k])
      /\ jobs' = Append(jobs, [jobs[j] EXCEPT !.status = "queued", !.startedAt = Never])
      /\ recordings' = [recordings EXCEPT ![r] = now]
      /\ retried' = retried \cup {Len(jobs) + 1} /\ unchecked' = TRUE
      /\ UNCHANGED <<now, tail, start, crashes, late>>

\* A start that holds the lock is done within a tick.
Tick ==
  /\ now < MaxTime /\ tail = <<>>
  /\ now' = now + 1
  /\ UNCHANGED <<recordings, jobs, tail, start, crashes, unchecked, retried, late>>

StartStep(s) ==
  ReadJobs(s) \/ Reject(s) \/ Accept(s) \/ CreateRecording(s) \/ CreateJob(s)

Next ==
  \/ \E s \in Start : Enter(s) \/ StartStep(s)
  \/ Crash \/ Claim \/ Tick
  \/ \E j \in Jobs : StopJob(j) \/ EndJob(j) \/ RetryJob(j)

Spec == Init /\ [][Next]_vars
=============================================================================
