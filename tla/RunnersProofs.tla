---------------------------- MODULE RunnersProofs ----------------------------
(***************************************************************************)
(* Proofs about two of the controller's loops.                             *)
(*                                                                         *)
(* The switcher runner (SwitcherRouting), for any rooms, users, jacks and  *)
(* mappings and any number of edits and faults: a pass moves only what the *)
(* world called for while it ran, and an outage opens one event.           *)
(*                                                                         *)
(* The watchdog (WatchdogSignal), for any signals, checks, windows and     *)
(* limits: a room that stays loud is not reported as silent.  The          *)
(* inductive invariant ties what the history says of the room to what the  *)
(* last frame and each sample of the window show.                          *)
(***************************************************************************)
EXTENDS SwitcherRouting, WatchPromise, FiniteSetTheorems, WellFoundedInduction, TLAPS

CONSTANTS
  Signals, Checks, Marks, Need, SpeechRequired, Grace, MaxSpan, OfflineAfter, MaxFailures,
  NoFrame

VARIABLES signal, up, agent, frame, seen, node, samples, last, offline, failures

Watch == INSTANCE WatchdogSignal WITH faults <- failures, MaxFaults <- MaxFailures

-----------------------------------------------------------------------------
(* The switcher runner *)

Config == [enabled : BOOLEAN, mode : Modes]
Steps == {"idle", "list", "config", "mappings", "routes", "set", "reached", "resolve", "failed"}
PassRec ==
  [pc : Steps, live : SUBSET (Room \X User), mode : Modes, want : SUBSET (Outputs \X Inputs),
   todo : SUBSET (Outputs \X Inputs), found : SUBSET Nat]

\* TypeOK with the fields of the records.
Types ==
  /\ live \subseteq Room \X User /\ inputs \subseteq Room \X Inputs
  /\ outputs \subseteq User \X Outputs
  /\ config \in {NoConfig} \cup Config
  /\ routes \in [Outputs -> Inputs \cup {0}] /\ device \in BOOLEAN
  /\ pass \in PassRec /\ pass.todo \subseteq pass.want
  /\ reachable \in {"unknown", "yes", "no"} /\ touched \in BOOLEAN
  /\ events \in Seq({"open", "acknowledged", "resolved"})
  /\ DOMAIN during = {"live", "inputs", "outputs", "modes"}

\* Some room the user of an output met in during the pass has the input.
Wanted(output, input) ==
  \E room \in Room, user \in User :
    /\ <<room, user>> \in during.live /\ <<user, output>> \in during.outputs
    /\ <<room, input>> \in during.inputs
Enforced == \E cfg \in during.modes : cfg # NoConfig /\ cfg.mode = "enforce"

\* What a pass has read and computed was so at some time of the pass.
Witnessed ==
  /\ live \subseteq during.live /\ inputs \subseteq during.inputs
  /\ outputs \subseteq during.outputs /\ config \in during.modes
  /\ pass.live \subseteq during.live
  /\ pass.mode = "enforce" => Enforced
  /\ \A want \in pass.want : Wanted(want[1], want[2])
  /\ pass.todo # {} => pass.pc = "set" /\ pass.mode = "enforce"

\* Until a restart or an operator interferes, an event is unresolved only while the
\* runner remembers the outage, and then it is the only one.
Followed ==
  ~touched =>
    /\ \A e \in DOMAIN events : events[e] # "acknowledged"
    /\ \A e, f \in Unresolved : e = f
    /\ reachable # "no" => Unresolved = {}
    /\ pass.pc = "resolve" => pass.found = Unresolved

IInv == Types /\ Witnessed /\ Followed

-----------------------------------------------------------------------------
(* Lemmas *)

\* The next change is one of those to do: there is a lowest output.
LEMMA NextIsOne ==
  ASSUME Types, pass.todo # {}
  PROVE  NextChange \in pass.todo
<1> DEFINE T == {change[1] : change \in pass.todo}
<1>1. pass.todo \subseteq Outputs \X Inputs /\ Outputs \subseteq Nat
  BY SwitcherRoutingAssumption DEF Types, PassRec
<1>2. T \subseteq Nat /\ T # {}
  BY <1>1
<1>3. PICK n \in T : \A m \in T : <<m, n>> \notin OpToRel(<, Nat)
  BY <1>2, NatLessThanWellFounded, WFMin
<1>4. \A m \in T : n <= m
  <2> SUFFICES ASSUME NEW m \in T, ~(n <= m)
               PROVE  FALSE
    OBVIOUS
  <2> HIDE DEF T
  <2>1. m \in Nat /\ n \in Nat /\ m < n
    BY <1>2
  <2>2. <<m, n>> \in OpToRel(<, Nat)
    BY <2>1 DEF OpToRel
  <2> QED
    BY <1>3, <2>2
<1>5. PICK change \in pass.todo : change[1] = n
  BY <1>3
<1>6. \A other \in pass.todo : change[1] <= other[1]
  BY <1>4, <1>5
<1> QED
  BY <1>5, <1>6 DEF NextChange

\* A step that leaves the world keeps what was witnessed.
LEMMA Quiet ==
  ASSUME Witnessed, UNCHANGED <<World, during>>,
         pass'.live \subseteq pass.live, pass'.mode \in {pass.mode, "disabled"},
         pass'.want \subseteq pass.want, pass'.todo \subseteq pass.todo,
         (pass'.pc = "set" /\ pass'.mode = pass.mode) \/ pass'.todo = {}
  PROVE  Witnessed'
<1>1. UNCHANGED <<live, inputs, outputs, config, during>>
  BY DEF World
<1>2. Enforced' <=> Enforced
  BY <1>1 DEF Enforced
<1>3. \A want \in pass.want : Wanted(want[1], want[2])'
  BY <1>1 DEF Witnessed, Wanted
<1> QED
  BY <1>1, <1>2, <1>3 DEF Witnessed

\* A pass that is over holds nothing.
LEMMA Over ==
  ASSUME Witnessed, UNCHANGED <<World, during>>, pass' = Idle
  PROVE  Witnessed'
<1>1. pass'.live = {} /\ pass'.mode = "disabled" /\ pass'.want = {} /\ pass'.todo = {}
  BY DEF Idle
<1> QED
  BY <1>1, Quiet

\* A pass goes on with what it has.
LEMMA Going ==
  ASSUME Types, NEW pc \in Steps, pass' = [pass EXCEPT !.pc = pc]
  PROVE  /\ pass' \in PassRec /\ pass'.pc = pc /\ pass'.live = pass.live /\ pass'.mode = pass.mode
         /\ pass'.want = pass.want /\ pass'.todo = pass.todo /\ pass'.found = pass.found
BY DEF Types, PassRec

\* A step of the pass that reads only.
LEMMA Reads ==
  ASSUME IInv, UNCHANGED <<World, during, routes, device, reachable, events, touched>>,
         pass' \in PassRec, pass'.pc # "resolve",
         pass'.live \subseteq pass.live, pass'.mode \in {pass.mode, "disabled"},
         pass'.want \subseteq pass.want, pass'.todo \subseteq pass.todo,
         pass'.todo \subseteq pass'.want,
         (pass'.pc = "set" /\ pass'.mode = pass.mode) \/ pass'.todo = {}
  PROVE  IInv'
<1>1. Types'
  BY DEF IInv, Types, World
<1>2. Witnessed'
  BY Quiet DEF IInv
<1>3. Followed'
  BY DEF IInv, Followed, Unresolved
<1> QED
  BY <1>1, <1>2, <1>3 DEF IInv

\* An idle pass holds nothing.
LEMMA IdleRec == Idle \in PassRec /\ Idle.pc = "idle" /\ Idle.todo = {} /\ Idle.want = {}
                 /\ Idle.live = {} /\ Idle.mode = "disabled"
BY DEF Idle, PassRec, Steps, Modes

-----------------------------------------------------------------------------
(* The steps of a pass *)

\* A pass begins with the world as it is.
LEMMA BeginPassKeeps ==
  ASSUME IInv, BeginPass
  PROVE  IInv'
<1>1. UNCHANGED <<live, inputs, outputs, config, routes, device, reachable, events, touched>>
      /\ during' = Now
  BY DEF BeginPass, World
<1>2. /\ during'.live = live /\ during'.inputs = inputs /\ during'.outputs = outputs
      /\ during'.modes = {config} /\ DOMAIN during' = {"live", "inputs", "outputs", "modes"}
  BY <1>1 DEF Now
<1>3. /\ pass' \in PassRec /\ pass'.pc = "list" /\ pass'.live = live
      /\ pass'.want = {} /\ pass'.todo = {} /\ pass'.mode = "disabled"
  BY IdleRec DEF BeginPass, Goes, IInv, Types, PassRec, Steps
<1>4. Types'
  BY <1>1, <1>2, <1>3 DEF IInv, Types
<1>5. Witnessed'
  BY <1>1, <1>2, <1>3 DEF Witnessed
<1>6. Followed'
  BY <1>1, <1>3 DEF IInv, Followed, Unresolved
<1> QED
  BY <1>4, <1>5, <1>6 DEF IInv

\* A switcher that is not watched has no pass.
LEMMA ListSwitchersKeeps ==
  ASSUME IInv, ListSwitchers
  PROVE  IInv'
<1>1. pass' = [pass EXCEPT !.pc = "config"] \/ pass' = Idle
  BY DEF ListSwitchers, Goes
<1> QED
  BY <1>1, Going, IdleRec, Reads DEF ListSwitchers, IInv, Types, Steps, Witnessed

\* The mode the pass remembers was the switcher's.
LEMMA ResolveConfigKeeps ==
  ASSUME IInv, ResolveConfig
  PROVE  IInv'
<1>1. UNCHANGED <<live, inputs, outputs, config, during, routes, device, reachable, events, touched>>
  BY DEF ResolveConfig, World
<1>2. CASE pass' = Idle
  BY <1>1, <1>2, IdleRec, Reads DEF World
<1>3. CASE config # NoConfig /\ pass' = [pass EXCEPT !.pc = "mappings", !.mode = config.mode]
  <2>1. /\ pass' \in PassRec /\ pass'.pc = "mappings" /\ pass'.mode = config.mode
        /\ pass'.live = pass.live /\ pass'.want = pass.want /\ pass'.todo = pass.todo
    BY <1>3 DEF IInv, Types, PassRec, Config, Steps
  <2>2. Types'
    BY <1>1, <2>1 DEF IInv, Types
  <2>3. Witnessed'
    <3>1. pass'.mode = "enforce" => Enforced'
      BY <1>1, <1>3, <2>1 DEF IInv, Witnessed, Enforced
    <3>2. pass'.todo = {}
      BY <2>1 DEF IInv, Witnessed, ResolveConfig
    <3> QED
      BY <1>1, <2>1, <3>1, <3>2 DEF IInv, Witnessed, Wanted
  <2>4. Followed'
    BY <1>1, <2>1 DEF IInv, Followed, Unresolved
  <2> QED
    BY <2>2, <2>3, <2>4 DEF IInv
<1> QED
  BY <1>2, <1>3 DEF ResolveConfig, Goes

\* What is desired is computed from meetings and mappings of the pass.
LEMMA ReadMappingsKeeps ==
  ASSUME IInv, ReadMappings
  PROVE  IInv'
<1>1. UNCHANGED <<live, inputs, outputs, config, during, routes, device, reachable, events, touched>>
  BY DEF ReadMappings, World
<1>2. CASE pass' = Idle
  BY <1>1, <1>2, IdleRec, Reads DEF World
<1>3. CASE pass' = [pass EXCEPT !.pc = "routes", !.want = Desired]
  <2>1. Desired \subseteq Outputs \X Inputs
    BY DEF Desired
  <2>2. /\ pass' \in PassRec /\ pass'.pc = "routes" /\ pass'.mode = pass.mode
        /\ pass'.live = pass.live /\ pass'.want = Desired /\ pass'.todo = pass.todo
    BY <1>3, <2>1 DEF IInv, Types, PassRec, Steps
  <2>3. pass.todo = {}
    BY DEF IInv, Witnessed, ReadMappings
  <2>4. Types'
    BY <1>1, <2>2, <2>3 DEF IInv, Types
  <2>5. \A want \in Desired : Wanted(want[1], want[2])
    BY DEF Desired, Candidates, Wanted, IInv, Witnessed
  <2>6. Witnessed'
    BY <1>1, <2>2, <2>3, <2>5 DEF IInv, Witnessed, Enforced, Wanted
  <2>7. Followed'
    BY <1>1, <2>2 DEF IInv, Followed, Unresolved
  <2> QED
    BY <2>4, <2>6, <2>7 DEF IInv
<1> QED
  BY <1>2, <1>3 DEF ReadMappings, Goes

\* Only a pass that enforces has something to do.
LEMMA ReadRoutesKeeps ==
  ASSUME IInv, ReadRoutes
  PROVE  IInv'
<1> DEFINE todo == IF pass.mode = "enforce" THEN Changes ELSE {}
<1>1. UNCHANGED <<live, inputs, outputs, config, during, routes, device, reachable, events, touched>>
  BY DEF ReadRoutes, World
<1>2. todo \subseteq pass.want /\ (todo # {} => pass.mode = "enforce")
  BY DEF Changes
<1>3. /\ pass' \in PassRec /\ pass'.pc = "set" /\ pass'.mode = pass.mode
      /\ pass'.live = pass.live /\ pass'.want = pass.want /\ pass'.todo = todo
  <2>1. pass' = [pass EXCEPT !.pc = "set", !.todo = todo]
    BY DEF ReadRoutes, Goes
  <2> HIDE DEF todo
  <2> QED
    BY <1>2, <2>1 DEF IInv, Types, PassRec, Steps
<1>4. Types'
  BY <1>1, <1>2, <1>3 DEF IInv, Types
<1>5. Witnessed'
  BY <1>1, <1>2, <1>3 DEF IInv, Witnessed, Enforced, Wanted
<1>6. Followed'
  BY <1>1, <1>3 DEF IInv, Followed, Unresolved
<1> QED
  BY <1>4, <1>5, <1>6 DEF IInv

\* What is set is one of the changes.
LEMMA SetOne ==
  ASSUME IInv, pass.todo # {},
         routes' = [routes EXCEPT ![NextChange[1]] = NextChange[2]]
  PROVE  /\ routes' \in [Outputs -> Inputs \cup {0}]
         /\ \A output \in Outputs : routes'[output] # routes[output] => Wanted(output, routes'[output])
<1>1. NextChange \in pass.todo
  BY NextIsOne DEF IInv
<1>2. NextChange \in pass.want /\ NextChange \in Outputs \X Inputs
  BY <1>1 DEF IInv, Types, PassRec
<1>3. Wanted(NextChange[1], NextChange[2])
  BY <1>2 DEF IInv, Witnessed
<1> QED
  BY <1>2, <1>3 DEF IInv, Types

\* One crosspoint is set.
LEMMA SetRouteKeeps ==
  ASSUME IInv, SetRoute
  PROVE  IInv'
<1>1. UNCHANGED <<live, inputs, outputs, config, during, device, reachable, events, touched>>
  BY DEF SetRoute, World
<1>2. /\ pass' \in PassRec /\ pass'.pc = "set" /\ pass'.mode = pass.mode
      /\ pass'.live = pass.live /\ pass'.want = pass.want /\ pass'.todo \subseteq pass.todo
  BY DEF SetRoute, Goes, IInv, Types, PassRec
<1>3. routes' \in [Outputs -> Inputs \cup {0}]
  BY SetOne DEF SetRoute
<1>4. Types'
  BY <1>1, <1>2, <1>3 DEF IInv, Types
<1>5. Witnessed'
  BY <1>1, <1>2, Quiet DEF IInv, World
<1>6. Followed'
  BY <1>1, <1>2 DEF IInv, Followed, Unresolved
<1> QED
  BY <1>4, <1>5, <1>6 DEF IInv

\* The session ends with everything set.
LEMMA SessionEndsKeeps ==
  ASSUME IInv, SessionEnds
  PROVE  IInv'
BY Going, Reads DEF SessionEnds, Goes, IInv, Types, Steps

\* The session fails with some of it set.
LEMMA SessionFailsKeeps ==
  ASSUME IInv, SessionFails
  PROVE  IInv'
<1>1. UNCHANGED <<live, inputs, outputs, config, during, device, reachable, events, touched>>
  BY DEF SessionFails, World
<1>2. /\ pass' \in PassRec /\ pass'.pc = "failed" /\ pass'.mode = pass.mode
      /\ pass'.live = pass.live /\ pass'.want = pass.want /\ pass'.todo = {}
  BY DEF SessionFails, Goes, IInv, Types, PassRec, Steps
<1>3. routes' \in [Outputs -> Inputs \cup {0}]
  <2>1. routes' = routes \/ (pass.todo # {} /\ routes' = [routes EXCEPT ![NextChange[1]] = NextChange[2]])
    BY DEF SessionFails
  <2> QED
    BY <2>1, SetOne DEF IInv, Types
<1>4. Types'
  BY <1>1, <1>2, <1>3 DEF IInv, Types
<1>5. Witnessed'
  BY <1>1, <1>2, Quiet DEF IInv, World
<1>6. Followed'
  BY <1>1, <1>2 DEF IInv, Followed, Unresolved
<1> QED
  BY <1>4, <1>5, <1>6 DEF IInv

\* A step of the pass that is about its events.
LEMMA Reports ==
  ASSUME IInv, UNCHANGED <<World, during, routes, device, touched>>,
         pass' = Idle \/ (pass' \in PassRec /\ pass'.live = pass.live /\ pass'.mode = pass.mode
                         /\ pass'.want = pass.want /\ pass'.todo = {}),
         reachable' \in {"unknown", "yes", "no"},
         events' \in Seq({"open", "acknowledged", "resolved"}), Followed'
  PROVE  IInv'
<1>1. UNCHANGED <<live, inputs, outputs, config, during, routes, device, touched>>
  BY DEF World
<1>2. pass' \in PassRec /\ pass'.todo = {}
  BY IdleRec
<1>3. Types'
  BY <1>1, <1>2 DEF IInv, Types
<1>4. Witnessed'
  BY Quiet, Over DEF IInv
<1> QED
  BY <1>3, <1>4 DEF IInv

\* A success looks for open events only after a failure it remembers.
LEMMA MarkReachableKeeps ==
  ASSUME IInv, MarkReachable
  PROVE  IInv'
<1>1. pass.todo = {} /\ events \in Seq({"open", "acknowledged", "resolved"})
      /\ UNCHANGED <<World, during, routes, device, touched, events>> /\ pass.pc = "reached"
  BY DEF MarkReachable, IInv, Witnessed, Types
<1>2. CASE reachable # "no" /\ pass' = Idle /\ reachable' = "yes"
  <2>1. Followed'
    BY <1>1, <1>2, IdleRec DEF IInv, Followed, Unresolved
  <2> QED
    BY <1>1, <1>2, <2>1, Reports
<1>3. CASE /\ pass' = [pass EXCEPT !.pc = "resolve",
                               !.found = {e \in DOMAIN events : events[e] = "open"}]
           /\ UNCHANGED reachable
  <2>1. DOMAIN events \subseteq Nat /\ \A e \in DOMAIN events : events[e] \in {"open", "acknowledged", "resolved"}
    BY <1>1
  <2>2. {e \in DOMAIN events : events[e] = "open"} \in SUBSET Nat
    BY <2>1
  <2>3. /\ pass' \in PassRec /\ pass'.live = pass.live /\ pass'.mode = pass.mode
        /\ pass'.want = pass.want /\ pass'.todo = pass.todo
        /\ pass'.found = {e \in DOMAIN events : events[e] = "open"}
    BY <1>3, <2>2 DEF IInv, Types, PassRec, Steps
  <2>4. ~touched => {e \in DOMAIN events : events[e] = "open"} = Unresolved
    BY <2>1 DEF IInv, Followed, Unresolved
  <2>5. Followed'
    BY <1>1, <1>3, <2>3, <2>4 DEF IInv, Followed, Unresolved
  <2> QED
    BY <1>1, <1>3, <2>3, <2>5, Reports DEF IInv, Types
<1> QED
  BY <1>2, <1>3 DEF MarkReachable, Goes

\* The events found are all there are.
LEMMA ResolveKeeps ==
  ASSUME IInv, Resolve
  PROVE  IInv'
<1>1. /\ pass.pc = "resolve" /\ pass' = Idle /\ reachable' = "yes"
      /\ events' = [e \in DOMAIN events |-> IF e \in pass.found THEN "resolved" ELSE events[e]]
      /\ UNCHANGED <<World, during, routes, device, touched>>
  BY DEF Resolve, Goes
<1>2. events \in Seq({"open", "acknowledged", "resolved"})
  BY DEF IInv, Types
<1>3. DOMAIN events' = DOMAIN events /\ events' \in Seq({"open", "acknowledged", "resolved"})
      /\ \A e \in DOMAIN events : events'[e] = IF e \in pass.found THEN "resolved" ELSE events[e]
  <2>1. DOMAIN events = 1..Len(events) /\ Len(events) \in Nat
        /\ \A e \in DOMAIN events : events[e] \in {"open", "acknowledged", "resolved"}
    BY <1>2
  <2> QED
    BY <1>1, <2>1
<1>4. Followed'
  <2>1. ~touched => pass.found = Unresolved
    BY <1>1 DEF IInv, Followed
  <2>2. ~touched => Unresolved' = {}
    BY <1>3, <2>1 DEF Unresolved
  <2>3. ~touched => \A e \in DOMAIN events' : events'[e] # "acknowledged"
    BY <1>3 DEF IInv, Followed
  <2> QED
    BY <1>1, <2>2, <2>3, IdleRec DEF Followed
<1> QED
  BY <1>1, <1>3, <1>4, Reports

\* A failure opens an event only if it remembers none.
LEMMA MarkUnreachableKeeps ==
  ASSUME IInv, MarkUnreachable
  PROVE  IInv'
<1>1. /\ pass.pc = "failed" /\ pass' = Idle /\ reachable' = "no"
      /\ UNCHANGED <<World, during, routes, device, touched>>
      /\ events \in Seq({"open", "acknowledged", "resolved"})
  BY DEF MarkUnreachable, Goes, IInv, Types
<1>2. CASE reachable # "no" /\ events' = Append(events, "open")
  <2>1. /\ events' \in Seq({"open", "acknowledged", "resolved"}) /\ Len(events) \in Nat
        /\ DOMAIN events = 1..Len(events) /\ DOMAIN events' = 1..(Len(events) + 1)
        /\ events'[Len(events) + 1] = "open" /\ \A e \in 1..Len(events) : events'[e] = events[e]
    BY <1>1, <1>2
  <2>2. \A e \in DOMAIN events' : e \in DOMAIN events \/ e = Len(events) + 1
    BY <2>1
  <2>3. ~touched => \A e \in Unresolved' : e = Len(events) + 1
    BY <1>2, <2>1, <2>2 DEF IInv, Followed, Unresolved
  <2>4. Followed'
    BY <1>1, <2>1, <2>2, <2>3, IdleRec DEF IInv, Followed
  <2> QED
    BY <1>1, <2>1, <2>4, Reports
<1>3. CASE reachable = "no" /\ events' = events
  <2>1. Followed'
    BY <1>1, <1>3, IdleRec DEF IInv, Followed, Unresolved
  <2> QED
    BY <1>1, <1>3, <2>1, Reports
<1> QED
  BY <1>2, <1>3 DEF MarkUnreachable

\* A store call that throws ends the pass.
LEMMA StoreFailsKeeps ==
  ASSUME IInv, StoreFails
  PROVE  IInv'
<1>1. /\ UNCHANGED <<World, during, routes, device, reachable, events, touched>>
      /\ pass.pc # "set"
      /\ pass' = [pass EXCEPT !.pc = "failed"] \/ pass' = Idle
  BY DEF StoreFails, Goes
<1>2. pass.todo = {}
  BY <1>1 DEF IInv, Witnessed
<1>3. CASE pass' = Idle
  BY <1>1, <1>3, IdleRec, Reads
<1>4. CASE pass' = [pass EXCEPT !.pc = "failed"]
  BY <1>1, <1>2, <1>4, Going, Reads DEF IInv, Types, Steps
<1> QED
  BY <1>1, <1>3, <1>4

\* A restart forgets the outage: from here on nothing is claimed of events.
LEMMA RestartKeeps ==
  ASSUME IInv, Restart
  PROVE  IInv'
<1>1. /\ pass' = Idle /\ reachable' = "unknown" /\ touched' = TRUE
      /\ UNCHANGED <<live, inputs, outputs, config, during, routes, device, events>>
  BY DEF Restart, Goes, World
<1>2. Types'
  BY <1>1, IdleRec DEF IInv, Types
<1>3. Witnessed'
  BY <1>1, Over DEF IInv, World
<1> QED
  BY <1>1, <1>2, <1>3 DEF IInv, Followed

-----------------------------------------------------------------------------
(* Operators, meetings and the device *)

\* An edit adds the new world to what there was during the pass.
LEMMA EditKeeps ==
  ASSUME IInv, Edit, live' \subseteq Room \X User, inputs' \subseteq Room \X Inputs,
         outputs' \subseteq User \X Outputs, config' \in {NoConfig} \cup Config
  PROVE  IInv'
<1>1. /\ UNCHANGED <<routes, device, pass, reachable, events, touched>>
      /\ during' = Together(during, Now')
  BY DEF Edit
<1>2. /\ during'.live = during.live \cup live' /\ during'.inputs = during.inputs \cup inputs'
      /\ during'.outputs = during.outputs \cup outputs'
      /\ during'.modes = during.modes \cup {config'}
      /\ DOMAIN during' = {"live", "inputs", "outputs", "modes"}
  <2>1. DOMAIN during = {"live", "inputs", "outputs", "modes"}
    BY DEF IInv, Types
  <2>2. Now' = [live |-> live', inputs |-> inputs', outputs |-> outputs', modes |-> {config'}]
    BY DEF Now
  <2> HIDE DEF Now
  <2>3. during' = [key \in DOMAIN during |-> during[key] \cup (Now')[key]]
    BY <1>1 DEF Together
  <2> QED
    BY <2>1, <2>2, <2>3
<1>3. Types'
  BY <1>1, <1>2 DEF IInv, Types
<1>4. Witnessed'
  <2>1. Enforced => Enforced'
    BY <1>2 DEF Enforced
  <2>2. \A output, input : Wanted(output, input) => Wanted(output, input)'
    BY <1>2 DEF Wanted
  <2> QED
    BY <1>1, <1>2, <2>1, <2>2 DEF IInv, Witnessed
<1>5. Followed'
  BY <1>1 DEF IInv, Followed, Unresolved
<1> QED
  BY <1>3, <1>4, <1>5 DEF IInv

\* Meetings, mappings, mode and deletion of the switcher.
LEMMA OperatorKeeps ==
  ASSUME IInv, Meet \/ SaveMappings \/ UpdateSwitcher \/ DeleteSwitcher
  PROVE  IInv'
<1>1. CASE Meet
  BY <1>1, EditKeeps DEF Meet, IInv, Types
<1>2. CASE SaveMappings
  BY <1>2, EditKeeps, SwitcherRoutingAssumption DEF SaveMappings, IInv, Types
<1>3. CASE UpdateSwitcher
  BY <1>3, EditKeeps DEF UpdateSwitcher, IInv, Types, Config
<1>4. CASE DeleteSwitcher
  BY <1>4, EditKeeps DEF DeleteSwitcher, IInv, Types
<1> QED
  BY <1>1, <1>2, <1>3, <1>4

\* An operator acts on an event.
LEMMA LifecycleKeeps ==
  ASSUME IInv, Lifecycle
  PROVE  IInv'
<1>1. /\ touched' = TRUE /\ UNCHANGED <<live, inputs, outputs, config, routes, device, pass, reachable, during>>
      /\ \E e \in DOMAIN events, status \in {"acknowledged", "resolved"} :
           events' = [events EXCEPT ![e] = status]
  BY DEF Lifecycle, World
<1>2. events' \in Seq({"open", "acknowledged", "resolved"})
  BY <1>1 DEF IInv, Types
<1>3. Types'
  BY <1>1, <1>2 DEF IInv, Types
<1>4. Witnessed'
  BY <1>1 DEF IInv, Witnessed, Wanted, Enforced
<1> QED
  BY <1>1, <1>3, <1>4 DEF IInv, Followed

\* The device comes, goes and is routed by hand.
LEMMA DeviceKeeps ==
  ASSUME IInv, RouteByHand \/ Lose \/ Return \/ UNCHANGED vars
  PROVE  IInv'
<1>1. /\ UNCHANGED <<live, inputs, outputs, config, pass, reachable, events, touched, during>>
      /\ device' \in BOOLEAN /\ routes' \in [Outputs -> Inputs \cup {0}]
  BY DEF RouteByHand, Lose, Return, vars, World, IInv, Types
<1>2. Types'
  BY <1>1 DEF IInv, Types
<1>3. Witnessed'
  BY <1>1 DEF IInv, Witnessed, Wanted, Enforced
<1>4. Followed'
  BY <1>1 DEF IInv, Followed, Unresolved
<1> QED
  BY <1>2, <1>3, <1>4 DEF IInv

-----------------------------------------------------------------------------
(* The theorems *)

\* At first no pass runs and no event is open.
THEOREM InitIInv == Init => IInv
<1> SUFFICES ASSUME Init PROVE IInv
  OBVIOUS
<1>1. Types
  <2>1. config \in Config
    BY DEF Init, Config, Modes
  <2>2. DOMAIN during = {"live", "inputs", "outputs", "modes"}
    BY DEF Init, Now
  <2>3. live \subseteq Room \X User /\ inputs \subseteq Room \X Inputs /\ outputs \subseteq User \X Outputs
    BY SwitcherRoutingAssumption DEF Init
  <2>4. routes \in [Outputs -> Inputs \cup {0}] /\ events \in Seq({"open", "acknowledged", "resolved"})
    BY DEF Init
  <2> QED
    BY <2>1, <2>2, <2>3, <2>4, IdleRec DEF Init, Types
<1>2. Witnessed
  BY IdleRec DEF Init, Witnessed, Now
<1>3. Followed
  BY IdleRec DEF Init, Followed, Unresolved
<1> QED
  BY <1>1, <1>2, <1>3 DEF IInv

\* Every step of the runner, its operators and the device keeps the inductive
\* invariant.
THEOREM StepIInv == IInv /\ [Next]_vars => IInv'
<1> SUFFICES ASSUME IInv, [Next]_vars PROVE IInv'
  OBVIOUS
<1>1. CASE PassStep
  BY <1>1, ListSwitchersKeeps, ResolveConfigKeeps, ReadMappingsKeeps, ReadRoutesKeeps,
     SetRouteKeeps, SessionEndsKeeps, SessionFailsKeeps, MarkReachableKeeps, ResolveKeeps,
     MarkUnreachableKeeps DEF PassStep
<1> QED
  BY <1>1, BeginPassKeeps, SessionFailsKeeps, StoreFailsKeeps, RestartKeeps, OperatorKeeps,
     LifecycleKeeps, DeviceKeeps DEF Next

\* The inductive invariant holds of every behaviour.
THEOREM SwitcherInvariant == Spec => []IInv
<1>1. Init => IInv
  BY InitIInv
<1>2. IInv /\ [Next]_vars => IInv'
  BY StepIInv
<1> QED
  BY <1>1, <1>2, PTL DEF Spec

\* The variables have their types.
THEOREM SwitcherTypes == Spec => []TypeOK
<1>1. IInv => TypeOK
  <2> SUFFICES ASSUME IInv PROVE TypeOK
    OBVIOUS
  <2>1. \A e \in DOMAIN events : events[e] \in {"open", "acknowledged", "resolved"}
    BY DEF IInv, Types
  <2>2. config = NoConfig \/ (config.enabled \in BOOLEAN /\ config.mode \in Modes)
    BY DEF IInv, Types, Config
  <2>3. pass.pc \in Steps /\ pass.want \subseteq Outputs \X Inputs
    BY DEF IInv, Types, PassRec
  <2> QED
    BY <2>1, <2>2, <2>3 DEF IInv, Types, TypeOK, Steps
<1> QED
  BY <1>1, SwitcherInvariant, PTL

\* While an outage lasts, the runner opens one event for it, not one per tick
\* (markUnreachable), until a restart forgets it or an operator acts on it.
THEOREM OneEventPerOutage == Spec => []OneEvent
<1>1. IInv => OneEvent
  <2> SUFFICES ASSUME IInv, ~touched PROVE Cardinality(Unresolved) <= 1
    BY DEF OneEvent
  <2>1. \A e, f \in Unresolved : e = f
    BY DEF IInv, Followed
  <2>2. CASE Unresolved = {}
    BY <2>2, FS_EmptySet
  <2>3. CASE Unresolved # {}
    <3>1. PICK e : Unresolved = {e}
      BY <2>1, <2>3
    <3>2. Cardinality({e}) = 1
      BY FS_Singleton
    <3> QED
      BY <3>1, <3>2
  <2> QED
    BY <2>2, <2>3
<1> QED
  BY <1>1, SwitcherInvariant, PTL

\* A pass sets an output only to an input that its user's room had, in a switcher
\* that enforced, at some time of the pass, whatever was edited while it ran.
THEOREM RoutesOnlyWanted == Spec => OnlyWanted
<1>1. ASSUME IInv, [Next]_vars, pass.pc = "set", pass' # pass
      PROVE  \A output \in Outputs : routes'[output] # routes[output] =>
                Wanted(output, routes'[output]) /\ Enforced
  <2>1. CASE pass.todo # {} /\ routes' = [routes EXCEPT ![NextChange[1]] = NextChange[2]]
    BY <1>1, <2>1, SetOne DEF IInv, Witnessed
  <2>2. CASE routes' = routes
    BY <2>2
  <2>3. \/ routes' = routes
        \/ pass.todo # {} /\ routes' = [routes EXCEPT ![NextChange[1]] = NextChange[2]]
    <3>1. CASE PassStep
      BY <1>1, <3>1 DEF PassStep, ListSwitchers, ResolveConfig, ReadMappings, ReadRoutes, SetRoute,
         SessionEnds, SessionFails, MarkReachable, Resolve, MarkUnreachable
    <3>2. CASE Meet \/ SaveMappings \/ UpdateSwitcher \/ DeleteSwitcher
      BY <1>1, <3>2 DEF Meet, SaveMappings, UpdateSwitcher, DeleteSwitcher, Edit
    <3>3. CASE BeginPass \/ SessionFails \/ StoreFails \/ Restart
      BY <1>1, <3>3 DEF BeginPass, SessionFails, StoreFails, Restart
    <3>4. CASE Lifecycle \/ RouteByHand \/ Lose \/ Return \/ UNCHANGED vars
      BY <1>1, <3>4 DEF Lifecycle, RouteByHand, Lose, Return, vars
    <3> QED
      BY <1>1, <3>1, <3>2, <3>3, <3>4 DEF Next
  <2> QED
    BY <2>1, <2>2, <2>3
<1>2. IInv /\ [Next]_vars =>
        [pass.pc = "set" /\ pass' # pass
           => \A output \in Outputs : routes'[output] # routes[output] =>
                /\ \E room \in Room, user \in User :
                     /\ <<room, user>> \in during.live /\ <<user, output>> \in during.outputs
                     /\ <<room, routes'[output]>> \in during.inputs
                /\ \E cfg \in during.modes : cfg # NoConfig /\ cfg.mode = "enforce"]_vars
  BY <1>1 DEF Wanted, Enforced
<1> QED
  BY <1>2, SwitcherInvariant, PTL DEF Spec, OnlyWanted

-----------------------------------------------------------------------------
(* The watchdog *)

SampleRec == [age : 0..(Window + 1), lasts : 0..MaxSpan, marks : Signals \cup {{"flat"}}]
FrameRec == [marks : Signals, age : 0..(MaxAge + 1)]

\* The room is loud and the agent there for as long as the history says.
Loud == good > 0 => agent /\ Watch!Healthy \subseteq signal

\* A frame of that time has been received, and what it says is not old.
Framed ==
  (good > 0 /\ fresh > 0) =>
    /\ frame # NoFrame /\ frame.age <= 1
    /\ Watch!Healthy \subseteq frame.marks

\* Samples taken within that time, by this controller, are loud.
Sampled ==
  \A sample \in samples :
    sample.age <= Window /\ sample.age < good /\ sample.age < fresh
      => Watch!Healthy \subseteq sample.marks

WatchInv ==
  /\ Watch!TypeOK
  /\ Loud /\ Framed /\ Sampled
  /\ fresh > 0 => up
  /\ LoudStaysClear

LEMMA WatchNumbers ==
  ASSUME Watch!WatchdogSignalAssumption
  PROVE  /\ Window \in Nat /\ Window > 0 /\ MaxAge \in Nat /\ MaxAge > 0
         /\ PassEvery \in Nat /\ PassEvery > 0 /\ MaxSpan \in Nat /\ MaxSpan > 0
         /\ Grace \in Nat /\ OfflineAfter \in Nat /\ MaxFailures \in Nat
         /\ Long \in Nat /\ Long > Window /\ Watch!Long = Long
BY DEF Watch!WatchdogSignalAssumption, Long, Watch!Long

\* The samples a pass is left with, when it begins in such a state.
LEMMA NewSamples ==
  ASSUME Watch!WatchdogSignalAssumption, WatchInv
  PROVE  /\ \A sample \in Watch!Sampled :
              sample.age <= Window /\ sample.age < good /\ sample.age < fresh
                => Watch!Healthy \subseteq sample.marks
         /\ \A sample \in Watch!Sampled : sample.age <= Window
         /\ Watch!Sampled # {} /\ Watch!Sampled \subseteq SampleRec
<1> DEFINE span == IF last = Watch!None THEN 0 ELSE Watch!Least(last, MaxSpan)
           new == [age |-> 0, lasts |-> span, marks |-> Watch!Reads]
<1>1. Watch!Sampled = {sample \in samples \cup {new} : sample.age <= Window}
  BY DEF Watch!Sampled
<1>2. span \in 0..MaxSpan
  BY WatchNumbers DEF WatchInv, Watch!TypeOK, Watch!None, Watch!Least
<1>3. /\ new.age = 0 /\ new.lasts = span /\ new.marks = Watch!Reads
  OBVIOUS
<1>4. 0 < good /\ 0 < fresh => Watch!Healthy \subseteq Watch!Reads
  BY WatchNumbers DEF WatchInv, Framed, Watch!Reads, Watch!TypeOK
<1> HIDE DEF new, span
<1>5. new \in Watch!Sampled
  BY <1>1, <1>3, WatchNumbers
<1>6. samples \subseteq SampleRec
  BY DEF WatchInv, Watch!TypeOK, SampleRec
<1>8. new \in SampleRec
  <2>1. Watch!Reads \in Signals \cup {{"flat"}}
    BY DEF WatchInv, Watch!TypeOK, Watch!Reads
  <2> QED
    BY <1>2, <2>1, WatchNumbers DEF SampleRec, new
<1>7. ASSUME NEW sample \in Watch!Sampled
      PROVE  /\ sample \in SampleRec
             /\ sample.age <= Window
             /\ sample.age < good /\ sample.age < fresh => Watch!Healthy \subseteq sample.marks
  <2>1. CASE sample = new
    BY <1>3, <1>4, <1>8, <2>1, WatchNumbers
  <2>2. CASE sample \in samples
    BY <1>1, <1>6, <1>7, <2>2 DEF WatchInv, Sampled
  <2> QED
    BY <1>1, <1>7, <2>1, <2>2
<1> QED
  BY <1>5, <1>7

\* A window that is loud throughout is not low.
LEMMA LoudWindow ==
  ASSUME NEW history, history # {},
         \A sample \in history : Watch!Healthy \subseteq sample.marks
  PROVE  ~Watch!IsLow(history)
<1>1. ASSUME NEW mark \in {"level", "speech"}
      PROVE  Watch!Marked(history, mark) = history
  BY <1>1 DEF Watch!Marked, Watch!Healthy
<1> QED
  BY <1>1 DEF Watch!IsLow

LEMMA FaultBound ==
  ASSUME Watch!WatchdogSignalAssumption, Watch!TypeOK, Watch!Fault
  PROVE  failures' \in 0..MaxFailures
BY WatchNumbers DEF Watch!Fault, Watch!TypeOK

LEMMA PassKeeps ==
  ASSUME Watch!WatchdogSignalAssumption, WatchInv, Watch!Pass
  PROVE  WatchInv'
<1>1. /\ up /\ idle > 0
      /\ \/ recording /\ samples' = Watch!Sampled /\ last' = 0
         \/ ~recording /\ samples' = {} /\ last' = Watch!None
      /\ alerts' = (IF recording /\ ready = 0
                    THEN Watch!Reconciled(Checks \cup {"low"}, Watch!Sampled) ELSE alerts)
      /\ offline' = (node # "provisioning" /\ seen > OfflineAfter) /\ idle' = 0
      /\ UNCHANGED <<signal, up, agent, frame, seen, node, recording, ready, failures, good,
                     fresh>>
  BY DEF Watch!Pass, Watch!NodeSweep
<1>2. Watch!TypeOK'
  <2>1. alerts' \subseteq Checks \cup {"low"}
    BY <1>1 DEF WatchInv, Watch!TypeOK, Watch!Reconciled
  <2>2. samples' \subseteq SampleRec
    BY <1>1, NewSamples
  <2>3. last' \in -1..MaxSpan /\ idle' \in 0..PassEvery
    BY <1>1, WatchNumbers DEF Watch!None
  <2> QED
    BY <1>1, <2>1, <2>2, <2>3 DEF WatchInv, Watch!TypeOK, SampleRec
<1>3. Loud' /\ Framed' /\ (fresh > 0 => up)'
  BY <1>1 DEF WatchInv, Loud, Framed
<1>4. Sampled'
  BY <1>1, NewSamples DEF Sampled, WatchInv
<1>5. LoudStaysClear'
  <2> SUFFICES ASSUME fresh >= Window + MaxAge, good = Long, recording, ready = 0
               PROVE  "low" \notin alerts'
    BY <1>1 DEF LoudStaysClear, LoudIsNotLow, Long
  <2>1. good > Window /\ fresh > Window
    BY WatchNumbers DEF WatchInv, Watch!TypeOK
  <2>3. ASSUME NEW sample \in Watch!Sampled PROVE Watch!Healthy \subseteq sample.marks
    <3>1. sample \in SampleRec /\ sample.age <= Window
      BY NewSamples
    <3>2. sample.age < good /\ sample.age < fresh
      <4>1. sample.age \in Nat
        BY <3>1, WatchNumbers DEF SampleRec
      <4>2. good \in Nat /\ fresh \in Nat
        BY WatchNumbers DEF WatchInv, Watch!TypeOK
      <4> QED
        BY <2>1, <3>1, <4>1, <4>2, WatchNumbers
    <3> QED
      BY <3>1, <3>2, NewSamples
  <2>2. ~Watch!IsLow(Watch!Sampled)
    BY <2>3, NewSamples, LoudWindow
  <2> QED
    BY <1>1, <2>2 DEF Watch!Reconciled, Watch!Bad
<1> QED
  BY <1>2, <1>3, <1>4, <1>5 DEF WatchInv

LEMMA PassFailsKeeps ==
  ASSUME Watch!WatchdogSignalAssumption, WatchInv, Watch!PassFails
  PROVE  WatchInv'
<1>1. /\ up /\ samples' = Watch!Sampled /\ last' = 0 /\ idle' = 0 /\ good' = 0
      /\ failures < MaxFailures /\ failures' = failures + 1
      /\ UNCHANGED <<signal, up, agent, frame, seen, node, recording, ready, offline, fresh>>
  BY DEF Watch!PassFails, Watch!Fault
<1>2. PICK done \in SUBSET (Checks \cup {"low"}) :
        alerts' = Watch!Reconciled(done, Watch!Sampled)
  BY DEF Watch!PassFails
<1>3. alerts' \subseteq Checks \cup {"low"}
  BY <1>2 DEF WatchInv, Watch!TypeOK, Watch!Reconciled
<1>4. Watch!TypeOK'
  BY <1>1, <1>3, NewSamples, WatchNumbers DEF WatchInv, Watch!TypeOK, SampleRec, Watch!None
<1>5. ~(good' > 0) /\ good' # Long
  BY <1>1, WatchNumbers
<1>6. Sampled'
  <2>1. ASSUME NEW sample \in samples' PROVE ~(sample.age < good')
    <3>1. sample \in SampleRec
      BY <1>1, NewSamples
    <3>2. sample.age \in Nat
      BY <3>1, WatchNumbers DEF SampleRec
    <3> QED
      BY <1>1, <3>2
  <2> QED
    BY <2>1 DEF Sampled
<1> QED
  BY <1>1, <1>4, <1>5, <1>6
  DEF WatchInv, Loud, Framed, LoudStaysClear, LoudIsNotLow, Long

LEMMA TickKeeps ==
  ASSUME Watch!WatchdogSignalAssumption, WatchInv, Watch!Tick
  PROVE  WatchInv'
<1>1. /\ up => idle < PassEvery /\ (agent => Watch!Heard /\ seen = 0)
      /\ frame' = IF frame = NoFrame THEN frame
                  ELSE [frame EXCEPT !.age = Watch!Least(@ + 1, MaxAge + 1)]
      /\ seen' = Watch!Least(seen + 1, OfflineAfter + 1)
      /\ ready' = IF ready = 0 THEN 0 ELSE ready - 1
      /\ samples' = {[sample EXCEPT !.age = Watch!Least(@ + 1, Window + 1)] : sample \in samples}
      /\ last' = IF last = Watch!None THEN Watch!None ELSE Watch!Least(last + 1, MaxSpan)
      /\ idle' = IF up THEN idle + 1 ELSE 0
      /\ good' = IF agent /\ Watch!Healthy \subseteq signal THEN Watch!Least(good + 1, Long) ELSE 0
      /\ fresh' = IF up THEN Watch!Least(fresh + 1, Window + MaxAge) ELSE 0
      /\ UNCHANGED <<signal, up, agent, node, recording, alerts, offline, failures>>
  BY WatchNumbers DEF Watch!Tick
<1>2. Watch!TypeOK /\ Loud /\ Framed /\ Sampled /\ (fresh > 0 => up) /\ LoudStaysClear
  BY DEF WatchInv
<1>3. /\ good \in 0..Long /\ good' \in 0..Long /\ good' <= good + 1
      /\ fresh \in 0..(Window + MaxAge) /\ fresh' \in 0..(Window + MaxAge) /\ fresh' <= fresh + 1
  BY <1>1, <1>2, WatchNumbers DEF Watch!TypeOK, Watch!Least
<1>4. /\ \/ frame = NoFrame /\ frame' = NoFrame
         \/ /\ frame # NoFrame /\ frame'.marks = frame.marks /\ frame' \in FrameRec
            /\ frame'.age = Watch!Least(frame.age + 1, MaxAge + 1) /\ frame' # NoFrame
  <2>1. CASE frame = NoFrame
    BY <1>1, <2>1
  <2>2. CASE frame # NoFrame
    <3>1. frame \in FrameRec
      BY <1>2, <2>2 DEF Watch!TypeOK, FrameRec
    <3> DEFINE age == Watch!Least(frame.age + 1, MaxAge + 1)
    <3>2. age \in 0..(MaxAge + 1)
      BY <3>1, WatchNumbers DEF Watch!Least, FrameRec
    <3>3. frame' = [frame EXCEPT !.age = age]
      BY <1>1, <2>2
    <3> HIDE DEF age
    <3>4. frame' \in FrameRec /\ frame'.marks = frame.marks /\ frame'.age = age
      BY <3>1, <3>2, <3>3 DEF FrameRec
    <3>5. FrameRec \subseteq [marks : Signals, age : Nat]
      BY WatchNumbers DEF FrameRec
    <3> QED
      BY <2>2, <3>4, <3>5 DEF Watch!WatchdogSignalAssumption, age
  <2> QED
    BY <2>1, <2>2
<1>5. ASSUME NEW aged \in samples'
      PROVE  /\ aged \in SampleRec
             /\ \E sample \in samples :
               /\ aged.age = Watch!Least(sample.age + 1, Window + 1)
               /\ aged.lasts = sample.lasts /\ aged.marks = sample.marks
  <2>1. PICK sample \in samples :
          aged = [sample EXCEPT !.age = Watch!Least(@ + 1, Window + 1)]
    BY <1>1, <1>5
  <2>2. sample \in SampleRec
    BY <1>2 DEF Watch!TypeOK, SampleRec
  <2> DEFINE age == Watch!Least(sample.age + 1, Window + 1)
  <2>3. aged = [sample EXCEPT !.age = age]
    BY <2>1
  <2>4. age \in 0..(Window + 1)
    BY <2>2, WatchNumbers DEF SampleRec, Watch!Least
  <2> HIDE DEF age
  <2>5. aged.age = age /\ aged.lasts = sample.lasts /\ aged.marks = sample.marks /\ aged \in SampleRec
    BY <2>2, <2>3, <2>4 DEF SampleRec
  <2> QED
    BY <2>5 DEF age
<1>6. Watch!TypeOK'
  <2>1. samples' \subseteq SampleRec
    BY <1>5
  <2>2. /\ seen' \in 0..(OfflineAfter + 1) /\ ready' \in 0..(Grace + Window)
        /\ last' \in -1..MaxSpan /\ idle' \in 0..PassEvery
    BY <1>1, <1>2, WatchNumbers DEF Watch!TypeOK, Watch!Least, Watch!None
  <2>3. frame' = NoFrame \/ frame' \in FrameRec
    BY <1>4
  <2> QED
    <3>1. /\ signal' \in Signals /\ up' \in BOOLEAN /\ agent' \in BOOLEAN
          /\ recording' \in BOOLEAN /\ node' \in {"provisioning", "live"}
          /\ alerts' \subseteq Checks \cup {"low"} /\ offline' \in BOOLEAN
          /\ failures' \in 0..MaxFailures
      BY <1>1, <1>2 DEF Watch!TypeOK
    <3>2. frame' \in {NoFrame} \cup FrameRec
      BY <2>3
    <3>3. good' \in 0..Watch!Long
      BY <1>3, WatchNumbers
    <3> QED
      BY <1>3, <2>1, <2>2, <3>1, <3>2, <3>3 DEF Watch!TypeOK, SampleRec, FrameRec
<1>7. Loud'
  BY <1>1 DEF Loud
<1>8. Framed'
  <2> SUFFICES ASSUME good' > 0, fresh' > 0
               PROVE  /\ frame' # NoFrame /\ frame'.age <= 1
                      /\ Watch!Healthy \subseteq frame'.marks
    BY DEF Framed
  <2>1. up /\ agent /\ Watch!Healthy \subseteq signal
    BY <1>1
  <2>2. frame # NoFrame /\ frame.age = 0 /\ frame.marks = signal
    BY <1>1, <2>1 DEF Watch!Heard
  <2> QED
    BY <1>4, <2>1, <2>2, WatchNumbers DEF Watch!Least
<1>9. Sampled'
  <2> SUFFICES ASSUME NEW aged \in samples', aged.age <= Window, aged.age < good', aged.age < fresh'
               PROVE  Watch!Healthy \subseteq aged.marks
    BY <1>1 DEF Sampled
  <2>1. PICK sample \in samples :
               /\ aged.age = Watch!Least(sample.age + 1, Window + 1)
               /\ aged.lasts = sample.lasts /\ aged.marks = sample.marks
    BY <1>5
  <2>2. sample.age \in 0..(Window + 1)
    BY <1>2 DEF Watch!TypeOK, SampleRec
  <2>3. sample.age <= Window /\ sample.age < good /\ sample.age < fresh
    BY <1>3, <2>1, <2>2, WatchNumbers DEF Watch!Least
  <2> QED
    BY <1>2, <2>1, <2>3 DEF Sampled
<1>10. (fresh > 0 => up)'
  BY <1>1
<1>11. LoudStaysClear'
  <2>1. fresh' >= Window + MaxAge => up
    BY <1>1, WatchNumbers
  <2>2. up => idle' # 0
    BY <1>1, <1>2, WatchNumbers DEF Watch!TypeOK
  <2> QED
    BY <2>1, <2>2 DEF LoudStaysClear, LoudIsNotLow
<1> QED
  BY <1>6, <1>7, <1>8, <1>9, <1>10, <1>11 DEF WatchInv

\* The steps that take no time and take no sample.
LEMMA OtherKeeps ==
  ASSUME Watch!WatchdogSignalAssumption, WatchInv,
         \/ Watch!SendFrame \/ Watch!Heartbeat \/ Watch!Change \/ Watch!AgentFails
         \/ Watch!AgentReturns \/ Watch!Stop \/ Watch!Restart \/ Watch!End \/ Watch!Retry
  PROVE  WatchInv'
<1>1. Watch!TypeOK /\ Loud /\ Framed /\ Sampled /\ (fresh > 0 => up) /\ LoudStaysClear
  BY DEF WatchInv
<1>11. \A sample \in samples : ~(sample.age < 0)
  <2>1. ASSUME NEW sample \in samples PROVE sample.age \in Nat
    BY <1>1, WatchNumbers DEF Watch!TypeOK
  <2> QED
    BY <2>1
<1>12. /\ 0 \in 0..Watch!Long /\ 0 \in 0..PassEvery /\ 0 \in 0..(Window + MaxAge)
       /\ Watch!None \in -1..MaxSpan
  BY WatchNumbers DEF Watch!None
<1>2. CASE Watch!SendFrame
  <2>1. /\ agent /\ up /\ frame' = [marks |-> signal, age |-> 0]
        /\ UNCHANGED <<signal, up, agent, seen, node, recording, ready, samples, last, idle,
                       alerts, offline, failures, good, fresh>>
    BY <1>2 DEF Watch!SendFrame
  <2>2. frame'.marks = signal /\ frame'.age = 0 /\ frame' # NoFrame
    BY <1>1, <2>1 DEF Watch!TypeOK, Watch!WatchdogSignalAssumption
  <2>3. Watch!TypeOK'
    BY <1>1, <2>1, <2>2, WatchNumbers DEF Watch!TypeOK
  <2> QED
    BY <1>1, <2>1, <2>2, <2>3
    DEF WatchInv, Loud, Framed, Sampled, LoudStaysClear, LoudIsNotLow
<1>3. CASE Watch!Heartbeat
  BY <1>1, <1>3, WatchNumbers
  DEF Watch!Heartbeat, WatchInv, Watch!TypeOK, Loud, Framed, Sampled, LoudStaysClear, LoudIsNotLow
<1>4. CASE Watch!Change
  BY <1>1, <1>4, WatchNumbers
  DEF Watch!Change, Watch!Fault, WatchInv, Watch!TypeOK, Loud, Framed, Sampled, LoudStaysClear,
      LoudIsNotLow
<1>5. CASE Watch!AgentFails
  <2>1. Watch!TypeOK'
    <3>1. failures' \in 0..MaxFailures
      BY <1>1, <1>5, FaultBound DEF Watch!AgentFails
    <3> QED
      BY <1>1, <1>5, <3>1, <1>12 DEF Watch!AgentFails, Watch!TypeOK
  <2>2. Loud' /\ Framed' /\ (fresh > 0 => up)'
    BY <1>1, <1>5, WatchNumbers DEF Watch!AgentFails, Watch!TypeOK, Loud, Framed
  <2>3. Sampled'
    BY <1>1, <1>11, <1>5 DEF Watch!AgentFails, Sampled
  <2>4. LoudStaysClear'
    BY <1>1, <1>5, WatchNumbers
    DEF Watch!AgentFails, Watch!TypeOK, LoudStaysClear, LoudIsNotLow
  <2> QED
    BY <2>1, <2>2, <2>3, <2>4 DEF WatchInv
<1>6. CASE Watch!AgentReturns
  BY <1>1, <1>6, WatchNumbers
  DEF Watch!AgentReturns, WatchInv, Watch!TypeOK, Loud, Framed, Sampled, LoudStaysClear,
      LoudIsNotLow
<1>7. CASE Watch!Stop
  <2>1. Watch!TypeOK'
    <3>1. failures' \in 0..MaxFailures
      BY <1>1, <1>7, FaultBound DEF Watch!Stop
    <3> QED
      BY <1>1, <1>7, <3>1, <1>12 DEF Watch!Stop, Watch!TypeOK
  <2>2. Loud' /\ Framed' /\ (fresh > 0 => up)'
    BY <1>1, <1>7, WatchNumbers DEF Watch!Stop, Watch!TypeOK, Loud, Framed
  <2>3. Sampled'
    BY <1>1, <1>11, <1>7 DEF Watch!Stop, Sampled
  <2>4. LoudStaysClear'
    BY <1>1, <1>7, WatchNumbers
    DEF Watch!Stop, Watch!TypeOK, LoudStaysClear, LoudIsNotLow
  <2> QED
    BY <2>1, <2>2, <2>3, <2>4 DEF WatchInv
<1>8. CASE Watch!Restart
  BY <1>1, <1>8, WatchNumbers
  DEF Watch!Restart, WatchInv, Watch!TypeOK, Loud, Framed, Sampled, LoudStaysClear, LoudIsNotLow
<1>9. CASE Watch!End
  <2>1. Watch!TypeOK'
    <3>1. failures' \in 0..MaxFailures
      BY <1>1, <1>9, FaultBound DEF Watch!End
    <3> QED
      BY <1>1, <1>9, <3>1 DEF Watch!End, Watch!TypeOK
  <2>2. Loud' /\ Framed' /\ (fresh > 0 => up)'
    BY <1>1, <1>9, WatchNumbers DEF Watch!End, Watch!TypeOK, Loud, Framed
  <2>3. Sampled'
    BY <1>1, <1>11, <1>9 DEF Watch!End, Sampled
  <2>4. LoudStaysClear'
    BY <1>1, <1>9, WatchNumbers
    DEF Watch!End, Watch!TypeOK, LoudStaysClear, LoudIsNotLow
  <2> QED
    BY <2>1, <2>2, <2>3, <2>4 DEF WatchInv
<1>10. CASE Watch!Retry
  BY <1>1, <1>10, WatchNumbers
  DEF Watch!Retry, WatchInv, Watch!TypeOK, Loud, Framed, Sampled, LoudStaysClear, LoudIsNotLow
<1> QED
  BY <1>2, <1>3, <1>4, <1>5, <1>6, <1>7, <1>8, <1>9, <1>10

LEMMA WatchInvHolds ==
  ASSUME Watch!WatchdogSignalAssumption
  PROVE  Watch!Spec => []WatchInv
<1>1. ASSUME Watch!Init PROVE WatchInv
  <2>1. Watch!TypeOK
    <3>1. /\ 0 \in 0..Watch!Long /\ 0 \in 0..(Window + MaxAge) /\ 0 \in 0..MaxFailures
          /\ 0 \in 0..(OfflineAfter + 1) /\ Grace + Window \in 0..(Grace + Window)
          /\ PassEvery \in 0..PassEvery /\ Watch!None \in -1..MaxSpan
      BY WatchNumbers DEF Watch!None
    <3> QED
      BY <1>1, <3>1 DEF Watch!Init, Watch!TypeOK
  <2>2. Loud /\ Framed /\ Sampled /\ (fresh > 0 => up)
    BY <1>1 DEF Watch!Init, Loud, Framed, Sampled
  <2>3. LoudStaysClear
    BY <1>1, WatchNumbers DEF Watch!Init, LoudStaysClear, LoudIsNotLow
  <2> QED
    BY <2>1, <2>2, <2>3 DEF WatchInv
<1>2. WatchInv /\ [Watch!Next]_Watch!vars => WatchInv'
  <2> SUFFICES ASSUME WatchInv, [Watch!Next]_Watch!vars PROVE WatchInv'
    OBVIOUS
  <2>1. CASE Watch!Next
    BY <2>1, TickKeeps, PassKeeps, PassFailsKeeps, OtherKeeps DEF Watch!Next, Watch!AgentStep
  <2>2. CASE UNCHANGED Watch!vars
    BY <2>2
    DEF Watch!vars, WatchInv, Watch!TypeOK, Loud, Framed, Sampled, LoudStaysClear, LoudIsNotLow
  <2> QED
    BY <2>1, <2>2
<1> QED
  BY <1>1, <1>2, PTL DEF Watch!Spec

\* The types of the watchdog's history, its frames and its alerts
\* (watchdog-runner.ts), for any room, checks and limits.
THEOREM WatchTyped ==
  ASSUME Watch!WatchdogSignalAssumption
  PROVE  Watch!Spec => []Watch!TypeOK
<1>1. WatchInv => Watch!TypeOK
  BY DEF WatchInv
<1> QED
  BY <1>1, WatchInvHolds, PTL

\* LoudStaysClear: a room that was loud throughout grace and window is not reported
\* as silent, unless the controller started within the window.
THEOREM LoudIsNeverLow ==
  ASSUME Watch!WatchdogSignalAssumption
  PROVE  Watch!Spec => []LoudStaysClear
<1>1. WatchInv => LoudStaysClear
  BY DEF WatchInv
<1> QED
  BY <1>1, WatchInvHolds, PTL
==============================================================================
