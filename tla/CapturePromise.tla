--------------------------- MODULE CapturePromise ---------------------------
(***************************************************************************)
(* What the captures of a recorder node promise, over the jobs that start  *)
(* them; how they start is CaptureStart.                                   *)
(***************************************************************************)
EXTENDS Integers, Sequences, FiniteSets

CONSTANTS
  Seconds,    \* durationSeconds of a capture, in ticks
  Capacity    \* maxConcurrentRecordings of the node

VARIABLES
  now,
  jobs,        \* recording_jobs: [recording, status, startedAt, ask, group]
  unchecked,   \* history: a capture has begun that capacity was not checked for
  retried,     \* history: jobs made by a retry
  late         \* history: jobs claimed after the window they were queued for

Never == -1
Jobs == 1..Len(jobs)
ActiveCapture(job) == job.status \in {"queued", "running", "stop_requested"}

\* A claimed job captures until it ends or its command has lasted its time.
Capturing(j) ==
  /\ jobs[j].status \in {"running", "stop_requested"}
  /\ jobs[j].startedAt # Never /\ now < jobs[j].startedAt + Seconds

Checked(j) == j \notin retried \cup late

\* Concurrent starts never capture a channel twice ("double-capturing the same
\* channels", capture-start-lock.ts), whatever is claimed, stopped and ended
\* between their reads and their writes.  A retry is not checked, and a job
\* claimed after its window no longer holds its channels.
ChannelsExclusive ==
  \A j, k \in Jobs :
    (j # k /\ Capturing(j) /\ Capturing(k) /\ Checked(j) /\ Checked(k)
       /\ jobs[j].ask.key = jobs[k].ask.key)
      => jobs[j].ask.channels \cap jobs[k].ask.channels = {}

\* Captures of one interface at one time are one capture of the device.
DeviceShared ==
  (retried = {} /\ late = {}) =>
    \A j, k \in Jobs :
      (Capturing(j) /\ Capturing(k) /\ jobs[j].ask.key = jobs[k].ask.key)
        => jobs[j].group = jobs[k].group

\* What operators start never exceeds the capacity of the node, until a schedule
\* or a retry, which it does not bind, has started something.
CapacityKept ==
  ~unchecked =>
    Cardinality({jobs[j].ask.key : j \in {i \in Jobs : ActiveCapture(jobs[i])}}) <= Capacity

\* Starts that check a snapshot and insert later leave no two captures that the
\* device, its channels or the node could not carry at once.
CapturesFit == ChannelsExclusive /\ DeviceShared /\ CapacityKept
=============================================================================
