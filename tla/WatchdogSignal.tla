--------------------------- MODULE WatchdogSignal ---------------------------
(***************************************************************************)
(* What the watchdog makes of a recording's meters and of its node's       *)
(* heartbeats (watchdog-runner.ts, watchdog-signal.ts, watchdog-node-      *)
(* liveness.ts, node-liveness.ts, meter-store.ts, api-runners.ts): one     *)
(* node, one recording on it.                                              *)
(*                                                                         *)
(* Frames and the history of samples live in the controller's memory, the  *)
(* heartbeat, the alerts and recordedAt in its database.  Time is kept as  *)
(* ages, so a behaviour may go on for ever.  How an alert is written while *)
(* operators work on it is HealthEvents; a check's result is one step here.*)
(***************************************************************************)
EXTENDS WatchPromise, FiniteSets, FiniteSetsExt

CONSTANTS
  Signals,      \* what the room may sound like: sets of marks
  Checks,       \* names of the checks besides "low"
  Marks,        \* of each of them: the marks it adds up
  Need,         \* seconds of a mark, in ticks: minCumulative...Seconds
  SpeechRequired,  \* qualityMode
  Grace,           \* graceSeconds
  MaxSpan,         \* RAKKR_WATCHDOG_MAX_SAMPLE_SPAN_SECONDS
  OfflineAfter,    \* RAKKR_NODE_OFFLINE_AFTER_SECONDS
  MaxFaults,       \* bound on changes of the signal, ends of the recording and failures
  NoFrame

WatchdogSignalAssumption ==
  /\ {Window, MaxSpan, PassEvery, MaxAge} \subseteq Nat \ {0}
  /\ {Grace, OfflineAfter, MaxFaults} \subseteq Nat
  /\ NoFrame \notin [marks : Signals, age : Nat]
  /\ {"low", "level", "speech"} \cap Checks = {}

VARIABLES
  signal,     \* what the room sounds like now
  up, agent,  \* whether the controller and the agent run
  frame,      \* the last frame of the node and its age
  seen,       \* the age of lastSeenAt
  node,       \* "provisioning" until its first heartbeat
  samples,    \* its history, at most one of an age: [age, lasts, marks]
  last,       \* the age of lastSampleAtMs
  offline,    \* whether the node has an active offline event
  faults

vars == <<signal, up, agent, frame, seen, node, recording, ready, samples, last, idle,
          alerts, offline, faults, good, fresh>>

None == -1
Healthy == {"level", "speech"}
Least(x, y) == IF x <= y THEN x ELSE y

TypeOK ==
  /\ signal \in Signals /\ up \in BOOLEAN /\ agent \in BOOLEAN /\ recording \in BOOLEAN
  /\ frame \in {NoFrame} \cup [marks : Signals, age : 0..(MaxAge + 1)]
  /\ seen \in 0..(OfflineAfter + 1) /\ node \in {"provisioning", "live"}
  /\ ready \in 0..(Grace + Window) /\ last \in -1..MaxSpan /\ idle \in 0..PassEvery
  /\ samples \subseteq
       [age : 0..(Window + 1), lasts : 0..MaxSpan, marks : Signals \cup {{"flat"}}]
  /\ alerts \subseteq Checks \cup {"low"} /\ offline \in BOOLEAN
  /\ faults \in 0..MaxFaults /\ good \in 0..Long
  /\ fresh \in 0..(Window + MaxAge)

Init ==
  /\ signal \in Signals /\ up = TRUE /\ agent = TRUE /\ recording = TRUE
  /\ frame = NoFrame /\ seen = 0 /\ node = "provisioning"
  /\ ready = Grace + Window /\ samples = {} /\ last = None /\ idle = PassEvery
  /\ alerts = {} /\ offline = FALSE /\ faults = 0 /\ good = 0 /\ fresh = 0

Fault == faults < MaxFaults /\ faults' = faults + 1

-----------------------------------------------------------------------------
(* The agent *)

Heard == frame # NoFrame /\ frame.age = 0 /\ frame.marks = signal

\* A frame is kept with the instant it was received at.
SendFrame ==
  /\ agent /\ up /\ ~Heard
  /\ frame' = [marks |-> signal, age |-> 0]
  /\ UNCHANGED <<signal, up, agent, seen, node, recording, ready, samples, last, idle,
                 alerts, offline, faults, good, fresh>>

Heartbeat ==
  /\ agent /\ up /\ (seen # 0 \/ node = "provisioning")
  /\ seen' = 0 /\ node' = "live"
  /\ UNCHANGED <<signal, up, agent, frame, recording, ready, samples, last, idle,
                 alerts, offline, faults, good, fresh>>

AgentFails ==
  /\ agent /\ Fault /\ agent' = FALSE /\ good' = 0
  /\ UNCHANGED <<signal, up, frame, seen, node, recording, ready, samples, last, idle,
                 alerts, offline, fresh>>

AgentReturns ==
  /\ ~agent /\ agent' = TRUE
  /\ UNCHANGED <<signal, up, frame, seen, node, recording, ready, samples, last, idle,
                 alerts, offline, faults, good, fresh>>

\* The room sounds different.
Change ==
  /\ Fault /\ signal' \in Signals \ {signal} /\ good' = 0
  /\ UNCHANGED <<up, agent, frame, seen, node, recording, ready, samples, last, idle,
                 alerts, offline, fresh>>

-----------------------------------------------------------------------------
(* Time *)

\* An agent that runs sends a frame and a heartbeat in every tick the controller
\* answers, and a pass is never late.
Tick ==
  /\ up => idle < PassEvery /\ (agent => Heard /\ seen = 0)
  /\ frame' = IF frame = NoFrame THEN frame
              ELSE [frame EXCEPT !.age = Least(@ + 1, MaxAge + 1)]
  /\ seen' = Least(seen + 1, OfflineAfter + 1)
  /\ ready' = IF ready = 0 THEN 0 ELSE ready - 1
  /\ samples' = {[sample EXCEPT !.age = Least(@ + 1, Window + 1)] : sample \in samples}
  /\ last' = IF last = None THEN None ELSE Least(last + 1, MaxSpan)
  /\ idle' = IF up THEN idle + 1 ELSE 0
  /\ good' = IF agent /\ Healthy \subseteq signal THEN Least(good + 1, Long) ELSE 0
  /\ fresh' = IF up THEN Least(fresh + 1, Window + MaxAge) ELSE 0
  /\ UNCHANGED <<signal, up, agent, node, recording, alerts, offline, faults>>

-----------------------------------------------------------------------------
(* A sample and its evaluation *)

\* Mutant: the last frame counts, however old.
ReadsLast == IF frame # NoFrame THEN frame.marks ELSE {"flat"}

\* Mutant: the age limit is off by one.
ReadsStrict == IF frame # NoFrame /\ frame.age < MaxAge THEN frame.marks ELSE {"flat"}

\* watchdogMeterFrame: a stale frame is none, and none counts as a dead input.
Reads == IF frame # NoFrame /\ frame.age <= MaxAge THEN frame.marks ELSE {"flat"}

\* Mutant: a first sample has no span.
SampledUnset == samples \cup {[age |-> 0, lasts |-> last, marks |-> Reads]}

\* signalSample and pruneHistory; a sample lasts as long as it is since the last one.
Sampled ==
  {sample \in samples \cup
     {[age |-> 0, lasts |-> IF last = None THEN 0 ELSE Least(last, MaxSpan), marks |-> Reads]} :
   sample.age <= Window}

\* signalEvaluation: seconds of the window, and seconds of a mark in it.
Coverage(history) == MapThenSumSet(LAMBDA sample : sample.lasts, history)
Marked(history, mark) == {sample \in history : mark \in sample.marks}
Fills(history, mark) == Coverage(history) >= Need[mark]

\* signalLevelIsBelowPolicy, speechIsBelowPolicy
IsLow(history) ==
  \/ Marked(history, "level") = {}
  \/ \E mark \in {"level"} \cup (IF SpeechRequired THEN {"speech"} ELSE {}) :
       Fills(history, mark) /\ ~Fills(Marked(history, mark), mark)

\* clippingIsAbovePolicy, flatlineIsAbovePolicy, qualityAnomalyIsAbovePolicy,
\* channelCorrelationIsAbovePolicy
IsHigh(check, history) ==
  \E mark \in Marks[check] :
    IF Need[mark] = 0 /\ mark # "correlated"
    THEN Coverage(Marked(history, mark)) > 0
    ELSE Fills(Marked(history, mark), mark)

Bad(check, history) == IF check = "low" THEN IsLow(history) ELSE IsHigh(check, history)

-----------------------------------------------------------------------------
(* A pass *)

\* Mutant: nothing is resolved.
ReconciledUp(checks, history) == alerts \cup {check \in checks : Bad(check, history)}

Reconciled(checks, history) ==
  (alerts \ checks) \cup {check \in checks : Bad(check, history)}

\* reconcileNodeLivenessEvents
NodeSweep == offline' = (node # "provisioning" /\ seen > OfflineAfter)

\* runWatchdogPass: sample, evaluate, reconcile each check, then the nodes.
Pass ==
  /\ up /\ idle > 0
  /\ IF recording
     THEN samples' = Sampled /\ last' = 0
     ELSE samples' = {} /\ last' = None
  /\ alerts' = IF recording /\ ready = 0
               THEN Reconciled(Checks \cup {"low"}, Sampled) ELSE alerts
  /\ NodeSweep /\ idle' = 0
  /\ UNCHANGED <<signal, up, agent, frame, seen, node, recording, ready, faults, good, fresh>>

\* A store call throws: later checks and the nodes have to wait for the next pass.
PassFails ==
  /\ up /\ idle > 0 /\ recording /\ ready = 0 /\ Fault
  /\ samples' = Sampled /\ last' = 0
  /\ \E done \in SUBSET (Checks \cup {"low"}) :
       /\ done # {} => "low" \in done
       /\ alerts' = Reconciled(done, Sampled)
  /\ idle' = 0 /\ good' = 0
  /\ UNCHANGED <<signal, up, agent, frame, seen, node, recording, ready, offline, fresh>>

\* The controller stops: its memory is lost.
Stop ==
  /\ up /\ Fault
  /\ up' = FALSE /\ frame' = NoFrame /\ samples' = {} /\ last' = None
  /\ idle' = 0 /\ fresh' = 0
  /\ UNCHANGED <<signal, agent, seen, node, recording, ready, alerts, offline, good>>

\* The runner's first pass comes at once.
Restart ==
  /\ ~up /\ up' = TRUE /\ idle' = PassEvery
  /\ UNCHANGED <<signal, agent, frame, seen, node, recording, ready, samples, last, alerts,
                 offline, faults, good, fresh>>

\* The job ends; a retry of it dates the recording anew.
End ==
  /\ recording /\ Fault /\ recording' = FALSE
  /\ UNCHANGED <<signal, up, agent, frame, seen, node, ready, samples, last, idle, alerts,
                 offline, good, fresh>>

Retry ==
  /\ ~recording /\ up /\ recording' = TRUE /\ ready' = Grace + Window /\ good' = 0
  /\ UNCHANGED <<signal, up, agent, frame, seen, node, samples, last, idle, alerts,
                 offline, faults, fresh>>

AgentStep == SendFrame \/ Heartbeat

Next ==
  \/ AgentStep \/ Change \/ AgentFails \/ AgentReturns \/ Tick
  \/ Pass \/ PassFails \/ Stop \/ Restart \/ End \/ Retry

Spec == Init /\ [][Next]_vars

\* Time passes, a running agent sends, the runner's timer fires and a stopped
\* controller is started again.
Fairness ==
  /\ WF_vars(Tick) /\ WF_vars(SendFrame) /\ WF_vars(Heartbeat)
  /\ WF_vars(Pass) /\ WF_vars(Restart)

-----------------------------------------------------------------------------
(* Properties *)

\* What lasts is reported, whatever failed on the way: a silent room ("a room
\* that goes silent mid-session is caught", health-watchdog.md), a mark of the
\* signal, and an agent that stays away, unless it was never there.
LastingReported ==
  /\ <>[](recording /\ ("level" \notin signal \/ ~agent)) => <>[]("low" \in alerts)
  /\ <>[](~agent) => <>[](offline \/ node = "provisioning")
  /\ \A check \in Checks :
       <>[](recording /\ agent /\ Marks[check] \cap signal # {}) => <>[](check \in alerts)

\* What has recovered for good is resolved for good, whatever failed before.
RecoveryResolves ==
  <>[](recording /\ agent /\ Healthy = signal) => <>[](alerts = {} /\ ~offline)
=============================================================================
