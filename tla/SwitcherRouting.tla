--------------------------- MODULE SwitcherRouting --------------------------
(***************************************************************************)
(* The reconcile loop of an audio matrix switcher (switcher-routing-       *)
(* runner.ts) against its operators: meetings begin and end, the mappings  *)
(* and the mode are edited, somebody routes by hand, the device goes away. *)
(*                                                                         *)
(* One switcher.  A pass reads what it needs one store after the other,    *)
(* computes the routes it wants, and sets them in one session with the     *)
(* device.  Which meetings are live is given (ScheduleEngine).             *)
(***************************************************************************)
EXTENDS Integers, Sequences, FiniteSets

CONSTANTS
  Room, User,      \* rooms and the users whose desks are fed
  Inputs, Outputs, \* jacks of the device, numbered; 0 is no source
  InputMaps,       \* sets of <<room, input>> operators save
  OutputMaps,      \* sets of <<user, output>> operators save
  MaxEdits, MaxFaults, MaxEvents,   \* bounds
  NoConfig

ASSUME SwitcherRoutingAssumption ==
  /\ Inputs \subseteq Nat \ {0} /\ Outputs \subseteq Nat \ {0}
  /\ \A map \in InputMaps : map \subseteq Room \X Inputs
  /\ \A map \in OutputMaps : map \subseteq User \X Outputs

VARIABLES
  live,       \* <<room, user>>: the user has a live meeting in the room
  inputs, outputs,   \* switcher_input_map and switcher_output_map
  config,     \* [enabled, mode] of the switcher
  routes,     \* the device: the input of each output
  device,     \* whether it answers
  pass,       \* the pass: where it is and what it has read
  reachable,  \* what the runner remembers: "unknown", "yes" or "no"
  events,     \* statuses of the switcher.unreachable events
  edits, faults,
  touched,    \* history: the controller has restarted, or an operator has acted on an event
  during      \* history: all meetings, mappings and modes there were during the pass

vars == <<live, inputs, outputs, config, routes, device, pass, reachable, events, edits,
          faults, touched, during>>

Modes == {"disabled", "observe", "enforce"}
Idle == [pc |-> "idle", live |-> {}, mode |-> "disabled", want |-> {}, todo |-> {}, found |-> {}]
Watched(cfg) == cfg # NoConfig /\ cfg.enabled /\ cfg.mode # "disabled"

TypeOK ==
  /\ live \subseteq Room \X User /\ inputs \subseteq Room \X Inputs
  /\ outputs \subseteq User \X Outputs
  /\ config = NoConfig \/ (config.enabled \in BOOLEAN /\ config.mode \in Modes)
  /\ routes \in [Outputs -> Inputs \cup {0}] /\ device \in BOOLEAN
  /\ pass.pc \in {"idle", "list", "config", "mappings", "routes", "set", "reached", "resolve",
                  "failed"}
  /\ pass.want \subseteq Outputs \X Inputs /\ pass.todo \subseteq pass.want
  /\ reachable \in {"unknown", "yes", "no"} /\ touched \in BOOLEAN
  /\ \A e \in DOMAIN events : events[e] \in {"open", "acknowledged", "resolved"}

Now == [live |-> live, inputs |-> inputs, outputs |-> outputs, modes |-> {config}]
Together(then, now) == [key \in DOMAIN then |-> then[key] \cup now[key]]

Init ==
  /\ live \in SUBSET (Room \X User) /\ inputs \in InputMaps /\ outputs \in OutputMaps
  /\ config = [enabled |-> TRUE, mode |-> "enforce"]
  /\ routes = [output \in Outputs |-> 0] /\ device = TRUE
  /\ pass = Idle /\ reachable = "unknown" /\ events = <<>>
  /\ edits = 0 /\ faults = 0 /\ touched = FALSE /\ during = Now

World == <<live, inputs, outputs, config>>
Fault == faults < MaxFaults /\ faults' = faults + 1

-----------------------------------------------------------------------------
(* What the pass computes *)

\* computeDesiredRoutes: of the rooms a user meets in, the lowest input wins.
Candidates(output) ==
  {input \in Inputs : \E room \in Room, user \in User :
     <<room, user>> \in pass.live /\ <<room, input>> \in inputs /\ <<user, output>> \in outputs}

Desired ==
  {want \in Outputs \X Inputs : /\ want[2] \in Candidates(want[1])
                                /\ \A input \in Candidates(want[1]) : want[2] <= input}

\* Mutant: only outputs without a source are routed.
ChangesUnrouted == {want \in pass.want : routes[want[1]] = 0}

\* diffRoutes
Changes == {want \in pass.want : routes[want[1]] # want[2]}

-----------------------------------------------------------------------------
(* A pass *)

Goes(fields) == pass' = fields

\* The schedules and the users, once for all switchers.
BeginPass ==
  /\ pass.pc = "idle"
  /\ Goes([Idle EXCEPT !.pc = "list", !.live = live])
  /\ during' = Now
  /\ UNCHANGED <<World, routes, device, reachable, events, edits, faults, touched>>

ListSwitchers ==
  /\ pass.pc = "list"
  /\ Goes(IF Watched(config) THEN [pass EXCEPT !.pc = "config"] ELSE Idle)
  /\ UNCHANGED <<World, routes, device, reachable, events, edits, faults, touched, during>>

ResolveConfig ==
  /\ pass.pc = "config"
  /\ Goes(IF config = NoConfig THEN Idle
          ELSE [pass EXCEPT !.pc = "mappings", !.mode = config.mode])
  /\ UNCHANGED <<World, routes, device, reachable, events, edits, faults, touched, during>>

\* Without owned outputs there is nothing to drive.
ReadMappings ==
  /\ pass.pc = "mappings"
  /\ Goes(IF outputs = {} THEN Idle ELSE [pass EXCEPT !.pc = "routes", !.want = Desired])
  /\ UNCHANGED <<World, routes, device, reachable, events, edits, faults, touched, during>>

\* Mutant: the mode is not looked at.
ReadRoutesEnforce ==
  /\ pass.pc = "routes" /\ device
  /\ Goes([pass EXCEPT !.pc = "set", !.todo = Changes])
  /\ UNCHANGED <<World, routes, device, reachable, events, edits, faults, touched, during>>

ReadRoutes ==
  /\ pass.pc = "routes" /\ device
  /\ Goes([pass EXCEPT !.pc = "set", !.todo = IF pass.mode = "enforce" THEN Changes ELSE {}])
  /\ UNCHANGED <<World, routes, device, reachable, events, edits, faults, touched, during>>

\* One crosspoint after the other, lowest output first, each read back.
NextChange == CHOOSE change \in pass.todo : \A other \in pass.todo : change[1] <= other[1]

SetRoute ==
  /\ pass.pc = "set" /\ device /\ pass.todo # {}
  /\ routes' = [routes EXCEPT ![NextChange[1]] = NextChange[2]]
  /\ Goes([pass EXCEPT !.todo = @ \ {NextChange}])
  /\ UNCHANGED <<World, device, reachable, events, edits, faults, touched, during>>

SessionEnds ==
  /\ pass.pc = "set" /\ pass.todo = {}
  /\ Goes([pass EXCEPT !.pc = "reached"])
  /\ UNCHANGED <<World, routes, device, reachable, events, edits, faults, touched, during>>

\* The device does not answer, or it answers and the read-back does not match:
\* what was set so far stays set.
SessionFails ==
  /\ pass.pc \in {"routes", "set"}
  /\ IF device THEN Fault ELSE UNCHANGED faults
  /\ routes' \in IF device /\ pass.pc = "set" /\ pass.todo # {}
                 THEN {routes, [routes EXCEPT ![NextChange[1]] = NextChange[2]]} ELSE {routes}
  /\ Goes([pass EXCEPT !.pc = "failed", !.todo = {}])
  /\ UNCHANGED <<World, device, reachable, events, edits, touched, during>>

\* Mutant: the events are left to the operators.
MarkReachableOnly ==
  /\ pass.pc = "reached"
  /\ Goes(Idle) /\ reachable' = "yes"
  /\ UNCHANGED <<World, routes, device, events, edits, faults, touched, during>>

\* markReachable looks for open events only after a failure it remembers.
MarkReachable ==
  /\ pass.pc = "reached"
  /\ IF reachable = "no"
     THEN /\ Goes([pass EXCEPT !.pc = "resolve",
                               !.found = {e \in DOMAIN events : events[e] = "open"}])
          /\ UNCHANGED reachable
     ELSE Goes(Idle) /\ reachable' = "yes"
  /\ UNCHANGED <<World, routes, device, events, edits, faults, touched, during>>

Resolve ==
  /\ pass.pc = "resolve"
  /\ events' = [e \in DOMAIN events |-> IF e \in pass.found THEN "resolved" ELSE events[e]]
  /\ Goes(Idle) /\ reachable' = "yes"
  /\ UNCHANGED <<World, routes, device, edits, faults, touched, during>>

\* Mutant: every pass that fails opens an event.
MarkUnreachableEach ==
  /\ pass.pc = "failed" /\ Len(events) < MaxEvents
  /\ events' = Append(events, "open")
  /\ Goes(Idle) /\ reachable' = "no"
  /\ UNCHANGED <<World, routes, device, edits, faults, touched, during>>

MarkUnreachable ==
  /\ pass.pc = "failed"
  /\ IF reachable # "no"
     THEN Len(events) < MaxEvents /\ events' = Append(events, "open")
     ELSE UNCHANGED events
  /\ Goes(Idle) /\ reachable' = "no"
  /\ UNCHANGED <<World, routes, device, edits, faults, touched, during>>

\* A store call throws outside the session: the pass is over.  Inside markReachable
\* it counts as a failure of the session.
StoreFails ==
  /\ pass.pc \in {"list", "config", "mappings", "failed", "reached", "resolve"} /\ Fault
  /\ Goes(IF pass.pc \in {"reached", "resolve"} THEN [pass EXCEPT !.pc = "failed"] ELSE Idle)
  /\ UNCHANGED <<World, routes, device, reachable, events, edits, touched, during>>

Restart ==
  /\ Fault
  /\ Goes(Idle) /\ reachable' = "unknown" /\ touched' = TRUE
  /\ UNCHANGED <<World, routes, device, events, edits, during>>

-----------------------------------------------------------------------------
(* Operators, meetings and the device *)

Edit ==
  /\ edits < MaxEdits /\ edits' = edits + 1
  /\ during' = Together(during, Now')
  /\ UNCHANGED <<routes, device, pass, reachable, events, faults, touched>>

\* A meeting begins or ends.
Meet ==
  /\ \E room \in Room, user \in User :
       live' = IF <<room, user>> \in live THEN live \ {<<room, user>>}
               ELSE live \cup {<<room, user>>}
  /\ UNCHANGED <<inputs, outputs, config>>
  /\ Edit

\* PUT mappings replaces both maps in one transaction.
SaveMappings ==
  /\ inputs' \in InputMaps /\ outputs' \in OutputMaps
  /\ config # NoConfig /\ UNCHANGED <<live, config>>
  /\ Edit

UpdateSwitcher ==
  /\ config # NoConfig
  /\ config' \in [enabled : BOOLEAN, mode : Modes] \ {config}
  /\ UNCHANGED <<live, inputs, outputs>>
  /\ Edit

\* Deleting a switcher takes its mappings with it.
DeleteSwitcher ==
  /\ config # NoConfig /\ config' = NoConfig
  /\ inputs' = {} /\ outputs' = {} /\ UNCHANGED live
  /\ Edit

\* Somebody routes at the device.
RouteByHand ==
  /\ device /\ Fault
  /\ \E output \in Outputs, input \in Inputs \cup {0} :
       input # routes[output] /\ routes' = [routes EXCEPT ![output] = input]
  /\ UNCHANGED <<World, device, pass, reachable, events, edits, touched, during>>

Lose ==
  /\ device /\ Fault /\ device' = FALSE
  /\ UNCHANGED <<World, routes, pass, reachable, events, edits, touched, during>>

Return ==
  /\ ~device /\ device' = TRUE
  /\ UNCHANGED <<World, routes, pass, reachable, events, edits, faults, touched, during>>

\* An operator takes an event on, or resolves it.
Lifecycle ==
  /\ edits < MaxEdits /\ edits' = edits + 1
  /\ \E e \in DOMAIN events, status \in {"acknowledged", "resolved"} :
       events[e] # "resolved" /\ events' = [events EXCEPT ![e] = status]
  /\ touched' = TRUE
  /\ UNCHANGED <<World, routes, device, pass, reachable, faults, during>>

PassStep ==
  \/ ListSwitchers \/ ResolveConfig \/ ReadMappings \/ ReadRoutes \/ SetRoute \/ SessionEnds
  \/ (SessionFails /\ ~device) \/ MarkReachable \/ Resolve \/ MarkUnreachable

Next ==
  \/ BeginPass \/ PassStep \/ SessionFails \/ StoreFails \/ Restart
  \/ Meet \/ SaveMappings \/ UpdateSwitcher \/ DeleteSwitcher \/ Lifecycle
  \/ RouteByHand \/ Lose \/ Return

Spec == Init /\ [][Next]_vars

\* The runner's timer, and every pass comes to its end.
Fairness == WF_vars(BeginPass) /\ WF_vars(PassStep)

-----------------------------------------------------------------------------
(* Properties *)

\* A pass moves only outputs a user owns, to a room the user met in, and only
\* in a switcher that enforces: each of them so at some time of the pass
\* ("Owned outputs only", "Live meeting only", switcher-routing.md).
OnlyWanted ==
  [][pass.pc = "set" /\ pass' # pass
       => \A output \in Outputs : routes'[output] # routes[output] =>
            /\ \E room \in Room, user \in User :
                 /\ <<room, user>> \in during.live /\ <<user, output>> \in during.outputs
                 /\ <<room, routes'[output]>> \in during.inputs
            /\ \E cfg \in during.modes : cfg # NoConfig /\ cfg.mode = "enforce"]_vars

\* The routes the world calls for: the lowest input of the rooms a user meets in.
Rooms(user) == {room \in Room : <<room, user>> \in live}
Right ==
  \A user \in User, output \in Outputs : <<user, output>> \in outputs =>
    LET fed == {input \in Inputs : \E room \in Rooms(user) : <<room, input>> \in inputs}
    IN  fed # {} => routes[output] \in fed /\ \A input \in fed : routes[output] <= input

\* When nothing changes any more, every desk hears its meeting, whatever was
\* routed by hand, failed or was cut off before.
Converges ==
  <>[](device /\ Watched(config) /\ config.mode = "enforce") => <>[]Right

Unresolved == {e \in DOMAIN events : events[e] # "resolved"}

\* An outage has one event, as long as the runner remembers it: "a persistent
\* outage does not spawn one event per tick".
OneEvent == ~touched => Cardinality(Unresolved) <= 1

\* "A switcher that goes unreachable opens a single health event that resolves
\* automatically on recovery" (switcher-routing.md).
OutageResolves ==
  <>[](device /\ Watched(config) /\ outputs # {}) => <>[](Unresolved = {})

\* It does, if the controller has not restarted and nobody has taken the event on;
\* and an outage that lasts is reported in any case.
OutagesFollowed ==
  /\ <>[](device /\ Watched(config) /\ outputs # {} /\ ~touched) => <>[](Unresolved = {})
  /\ <>[](~device /\ Watched(config) /\ outputs # {}) => <>[](events # <<>>)
=============================================================================
