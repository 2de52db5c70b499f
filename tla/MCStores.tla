------------------------------- MODULE MCStores -------------------------------
(***************************************************************************)
(* What several requests do to the controller's stores at once: the jobs  *)
(* of a recording (RecordingJobs), the starts of captures (CaptureStart),  *)
(* the health of a recording (HealthEvents), the devices of a node         *)
(* (NodeInventory) and its credentials (NodeEnrollment), and the rooms of  *)
(* its channels (RoomBookings).  They share no state, so a behaviour is    *)
(* one of either, chosen by the initial state.                             *)
(***************************************************************************)
EXTENDS RecordingJobs, CapturePromise, HealthPromise, CredentialPromise, InventoryPromise,
        RoomPromise, TLC

CONSTANTS
  r1, g, none, runner,           \* a recording that captures alone
  q1, q2, q3,                    \* requests
  m1, m2, wd,                    \* starts of captures, and the watchdog
  mic, desk, p1, p2, l, unlabelled,  \* devices, ports and a label
  hall, booth, u                 \* rooms and a user

VARIABLES
  part,
  recordings, tail, start, crashes,
  requests, passes,
  report, up, reports, edits, storeFaults,
  bootstraps, boot, change, made, begun, faults,
  rooms, groups, asked, failures

Alone == r1 :> none
Symmetric == Permutations({q1, q2}) \cup Permutations({hall, booth})

\* An operator's and a schedule's capture of two channels of an interface, and
\* a capture of another interface.
Ask4(adHoc, key, channels) == [adHoc |-> adHoc, key |-> key, channels |-> channels]
SomeAsks == {Ask4(TRUE, "i", {1}), Ask4(FALSE, "i", {2}), Ask4(TRUE, "k", {1})}

Starting == INSTANCE CaptureStart
  WITH Start <- {m1, m2}, Asks <- SomeAsks, MaxJobs <- 2, MaxTime <- 2, MaxCrashes <- 1

Severities == "low" :> "critical" @@ "agent" :> "warning"

Health == INSTANCE HealthEvents
  WITH Checks <- <<"low">>, Request <- {q3}, Watchdog <- wd,
       Attempts <- 2, MaxEvents <- 2, MaxRequests <- 2, MaxPasses <- 2

\* Nothing is plugged in; a device at the second port, which may have moved
\* there; or the same with fewer channels at the first and another device.
Facts(n, p) == [count |-> n, port |-> p]
SomeLayouts ==
  {<<>>, mic :> Facts(2, p2), mic :> Facts(1, p1) @@ desk :> Facts(1, p2)}

Inventory == INSTANCE NodeInventory
  WITH proc <- report, faults <- storeFaults,
       Port <- {p1, p2}, Layouts <- SomeLayouts, MaxCount <- 2,
       Label <- {l}, Unlabelled <- unlabelled, Reporter <- {q1, q2}, Editor <- {q3},
       MaxReports <- 3, MaxEdits <- 1, MaxFaults <- 1

Enrollment == INSTANCE NodeEnrollment
  WITH req <- change, Request <- {q1, q2}, Nobody <- none,
       Kinds <- {"bootstrap", "token", "key", "deploy", "trust"},
       MaxTokens <- 2, MaxBegun <- 2, MaxFaults <- 1

\* A schedule of one channel or of both, for nobody or for a user and a group.
Rooms == INSTANCE RoomBookings
  WITH Room <- {hall, booth}, Channel <- {1, 2}, First <- 1,
       Selections <- {{1}, {1, 2}}, Group <- {g}, Teams <- {{}, {u, g}},
       Call <- {q1, q2}, MaxCalls <- 2, MaxFailures <- 1

ASSUME Starting!CaptureStartAssumption
ASSUME Health!HealthEventsAssumption
ASSUME Inventory!NodeInventoryAssumption
ASSUME Enrollment!NodeEnrollmentAssumption
ASSUME Rooms!RoomBookingsAssumption

startVars == <<now, recordings, jobs, tail, start, crashes, unchecked, retried, late>>
healthVars == <<row, events, proc, requests, passes, clash, revived>>
inventoryVars ==
  <<interfaces, report, up, reports, edits, storeFaults, given, torn, raced, shown>>
credentialVars ==
  <<bootstraps, active, env, authorized, boot, change, made, begun, faults, admitted>>
roomVars ==
  <<rooms, groups, home, bookings, roster, call, asked, failures, spoilt, undone>>

StoresInit ==
  /\ part \in {"jobs", "starts", "health", "inventory", "credentials", "rooms"}
  /\ Init /\ Starting!Init /\ Health!Init /\ Inventory!Init /\ Enrollment!Init
  /\ Rooms!Init
  /\ part # "rooms" => bookings[1] = Rooms!Row(home[2], {1}, {})

storeVars == <<part, vars, startVars, healthVars, inventoryVars, credentialVars,
               roomVars>>

\* A step of one part leaves the others alone.
StoresNext ==
  \/ /\ part = "jobs" /\ Next
     /\ UNCHANGED <<part, startVars, healthVars, inventoryVars, credentialVars, roomVars>>
  \/ /\ part = "starts" /\ Starting!Next
     /\ UNCHANGED <<part, vars, healthVars, inventoryVars, credentialVars, roomVars>>
  \/ /\ part = "health" /\ Health!Next
     /\ UNCHANGED <<part, vars, startVars, inventoryVars, credentialVars, roomVars>>
  \/ /\ part = "inventory" /\ Inventory!Next
     /\ UNCHANGED <<part, vars, startVars, healthVars, credentialVars, roomVars>>
  \/ /\ part = "credentials" /\ Enrollment!Next
     /\ UNCHANGED <<part, vars, startVars, healthVars, inventoryVars, roomVars>>
  \/ /\ part = "rooms" /\ Rooms!Next
     /\ UNCHANGED <<part, vars, startVars, healthVars, inventoryVars, credentialVars>>

StoresSpec == StoresInit /\ [][StoresNext]_storeVars

\* The properties of the parts that are instances.
StoreTypes ==
  /\ TypeOK /\ Starting!TypeOK /\ Health!TypeOK /\ Inventory!TypeOK /\ Enrollment!TypeOK
  /\ Rooms!TypeOK
===============================================================================
