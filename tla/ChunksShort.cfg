\* Three chunks close before the capture ends on a boundary: one is delivered, one
\* fails to render and one is pending when the agent restarts.
CONSTANTS
  d1 = d1
  Chunks = 4
  Dest = {d1}
  Deleting = {d1}
  Tries = 1
  MaxFaults = 1
SPECIFICATION Spec
INVARIANT GapIsPartial
CHECK_DEADLOCK FALSE
