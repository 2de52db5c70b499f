\* A shared capture with two faults and a retry of it with one, a capture of two chunks
\* with one, and three takes in the cache of two workers with one.
CONSTANTS
  a = a
  b = b
  c = c
  Job = {a, b, c}
  RecordingOf <- Recordings
  Sessions <- Pair
  Worker = {w1}
  Pieces = 2
  Deletes = {a}
  MaxFaults = 2
  NoJob = NoJob
  NoFile = NoFile
  Policies <- SomePolicies
  Limits <- SomeLimits
  Chunks = 2
  Dest = {d1}
  Deleting = {d1}
  Tries = 2
  ChunkFaults = 1
  v1 = v1
  v2 = v2
  loop = loop
SPECIFICATION NodeSpec
INVARIANTS NodeTypes AudioKept  ChunksKept NothingLeaks SweepFits
PROPERTIES RecoveryEnds ChunksReconciled
CHECK_DEADLOCK FALSE
