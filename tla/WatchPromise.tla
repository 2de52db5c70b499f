---------------------------- MODULE WatchPromise ----------------------------
(***************************************************************************)
(* What the watchdog promises of a room that is loud; how its frames,      *)
(* samples and alerts come about is WatchdogSignal.                        *)
(***************************************************************************)
EXTENDS Integers

CONSTANTS
  Window,     \* windowSeconds
  MaxAge,     \* RAKKR_WATCHDOG_METER_MAX_AGE_SECONDS
  PassEvery   \* at most so many ticks between passes

VARIABLES
  recording,  \* whether the recording is being recorded
  ready,      \* ticks until grace and window are over
  idle,       \* ticks since the last pass
  alerts,     \* checks with an active event
  good,       \* history: ticks of a healthy room and agent since anything else happened to them
  fresh       \* history: ticks since the controller started

Long == Window + PassEvery + 1

\* "Alert if the signal does not exceed a configurable dBFS threshold for enough
\* cumulative time" (health-watchdog.md): a room that has been loud throughout
\* grace and window is not reported as silent.
LoudIsNotLow ==
  (good = Long /\ recording /\ ready = 0 /\ idle = 0) => "low" \notin alerts

\* It is not, unless the controller started within the window.
LoudStaysClear == fresh >= Window + MaxAge => LoudIsNotLow
=============================================================================
