\* Every call on one job, two requests at a time and the lease runner; two starts
\* of captures with a crash; two health requests beside two passes of the watchdog;
\* three reports of the devices and an edit, with a fault; two changes of the
\* credentials, with a fault; two requests about rooms, with a failure.
CONSTANTS
  r1 = r1
  g = g
  none = none
  runner = runner
  q1 = q1
  q2 = q2
  q3 = q3
  Severity <- Severities
  Reported = "agent"
  Device = {mic, desk}
  NoReport = none
  Seconds = 2
  Capacity = 1
  m1 = m1
  m2 = m2
  wd = wd
  mic = mic
  desk = desk
  p1 = p1
  p2 = p2
  l = l
  unlabelled = unlabelled
  NoRoom = none
  Schedule = {1, 2}
  hall = hall
  booth = booth
  u = u
  Recording = {r1}
  Group = {g}
  NoGroup = none
  GroupOf <- Alone
  Calls = {"sweep", "claimGroup", "claimNext", "claim", "heartbeat", "stop", "stopRecording", "complete", "cancel", "fail", "retry", "delete", "outage"}
  MaxJobs = 1
  Request = {q1, q2}
  LeaseRunner = runner
SPECIFICATION StoresSpec
SYMMETRY Symmetric
INVARIANTS StoreTypes ClaimedOnce CapturesFit HealthAgrees InventoryKept CredentialsKept RoomsAgree
PROPERTIES EndsStand ImplementsLifecycle
CHECK_DEADLOCK FALSE
