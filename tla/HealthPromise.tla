---------------------------- MODULE HealthPromise ----------------------------
(***************************************************************************)
(* What the health badge of a recording and the watchdog's events promise  *)
(* to those who look at them; how they are written is HealthEvents.        *)
(***************************************************************************)
EXTENDS Naturals, Sequences

CONSTANTS
  Severity,   \* of each kind of event: "warning" or "critical"
  Reported    \* a kind of event agents report

VARIABLES
  row,       \* the recording: status and healthStatus
  events,    \* health_events: [kind, status]
  proc,      \* the pass and the requests, each at one of its awaits
  clash,     \* history: the last change of the badge met another one
  revived    \* history: events made active again

Events == DOMAIN events
Unresolved(e) == events[e].status # "resolved"

\* recordingHealthStatus: the worst of the active events.
Badge ==
  LET severities == {Severity[events[e].kind] : e \in {f \in Events : Unresolved(f)}}
  IN  IF "critical" \in severities THEN "critical"
      ELSE IF "warning" \in severities THEN "warning" ELSE "healthy"

\* When nothing is under way the badge shows the worst active event, unless the
\* last two changes of it met: a change that ran alone repairs what others left.
BadgeAgrees ==
  (~clash /\ \A p \in DOMAIN proc : proc[p].pc = "idle")
    => row.health = Badge \/ (events = <<>> /\ row.health = "unknown")

\* The watchdog keeps one active event per check: a second one takes an event
\* that somebody brought back.
OneActive ==
  \A e, f \in Events :
    (e < f /\ Unresolved(e) /\ Unresolved(f) /\ events[e].kind = events[f].kind
       /\ events[e].kind # Reported)
      => e \in revived \/ f \in revived

\* Concurrent passes, requests and derivations leave the badge as the events have
\* it, and one event for what the watchdog finds.
HealthAgrees == BadgeAgrees /\ OneActive
==============================================================================
