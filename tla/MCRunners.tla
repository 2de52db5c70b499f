------------------------------ MODULE MCRunners ------------------------------
(***************************************************************************)
(* Two of the controller's loops, under their fairness: the switcher       *)
(* runner (SwitcherRouting) and the watchdog (WatchdogSignal).  They share *)
(* no state, so a behaviour is one of either, chosen by the initial state. *)
(***************************************************************************)
EXTENDS SwitcherRouting, WatchPromise, TLC

CONSTANTS
  ra, rb, u,       \* two rooms and a user
  NoFrame

VARIABLES
  part,
  signal, up, agent, frame, seen, node, samples, last, offline, failures

\* Both rooms at an input, or one of them; the user's desk at either
\* output, or at none.
SomeInputs == {{<<ra, 1>>, <<rb, 2>>}, {<<ra, 2>>}}
SomeOutputs == {{<<u, 1>>}, {<<u, 2>>}, {}}

\* A room with speech, with loud clipping noise, and a dead input.
Watch == INSTANCE WatchdogSignal
  WITH faults <- failures, MaxFaults <- 2,
       Signals <- {{"level", "speech"}, {"clipping", "level"}, {"flat"}},
       Checks <- {"clip", "flatline"},
       Marks <- "clip" :> {"clipping"} @@ "flatline" :> {"flat"},
       Need <- "level" :> 2 @@ "speech" :> 1 @@ "clipping" :> 0 @@ "flat" :> 2,
       SpeechRequired <- TRUE, Grace <- 1, MaxSpan <- 1, OfflineAfter <- 1

ASSUME Watch!WatchdogSignalAssumption

watchVars == <<signal, up, agent, frame, seen, node, recording, ready, samples, last, idle,
               alerts, offline, failures, good, fresh>>
allVars == <<part, vars, watchVars>>

\* A part that is not chosen rests in a state its properties ask nothing of.
RunnersInit ==
  /\ part \in {"switcher", "watchdog"}
  /\ Init /\ Watch!Init
  /\ part # "switcher" => live = {} /\ outputs = {<<u, 1>>} /\ inputs = {<<ra, 2>>}
  /\ part # "watchdog" => signal = Watch!Healthy

\* A step of one part leaves the other alone.
Switcher(A) == part = "switcher" /\ A
Watchdog(A) == part = "watchdog" /\ A

RunnersNext ==
  \/ Switcher(Next) /\ UNCHANGED <<part, watchVars>>
  \/ Watchdog(Watch!Next) /\ UNCHANGED <<part, vars>>

\* The fairness of each part, for the behaviours that are its own.
RunnersSpec ==
  /\ RunnersInit /\ [][RunnersNext]_allVars
  /\ WF_vars(Switcher(BeginPass)) /\ WF_vars(Switcher(PassStep))
  /\ WF_watchVars(Watchdog(Watch!Tick))
  /\ WF_watchVars(Watchdog(Watch!SendFrame)) /\ WF_watchVars(Watchdog(Watch!Heartbeat))
  /\ WF_watchVars(Watchdog(Watch!Pass)) /\ WF_watchVars(Watchdog(Watch!Restart))

\* The properties of the part that is an instance, and the types of both.
RunnerTypes == TypeOK /\ Watch!TypeOK
AlertsFollow == Watch!LastingReported /\ Watch!RecoveryResolves
==============================================================================
