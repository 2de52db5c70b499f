\* A stop request against the heartbeat of the running job.
CONSTANTS
  r1 = r1
  r2 = r2
  g = g
  none = none
  q1 = q1
  q2 = q2
  runner = runner
  Recording = {r1}
  Group = {g}
  NoGroup = none
  GroupOf <- Alone
  Calls = {"claimGroup", "heartbeat", "stop"}
  MaxJobs = 1
  Request = {q1, q2}
  LeaseRunner = runner
SPECIFICATION Spec
SYMMETRY TwoSlots
PROPERTIES StopHonored
