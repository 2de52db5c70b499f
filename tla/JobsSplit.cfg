\* Two workers of one agent ask for work at the same time.
CONSTANTS
  r1 = r1
  r2 = r2
  g = g
  none = none
  q1 = q1
  q2 = q2
  runner = runner
  Recording = {r1, r2}
  Group = {g}
  NoGroup = none
  GroupOf <- Grouped
  Calls = {"claimGroup"}
  MaxJobs = 2
  Request = {q1, q2}
  LeaseRunner = runner
SPECIFICATION Spec
SYMMETRY TwoSlots
INVARIANTS GroupClaimedWhole
