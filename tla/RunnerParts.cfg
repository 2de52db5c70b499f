\* A switcher with one edit and two faults; a recording with two changes of its
\* signal or failures.
CONSTANTS
  ra = ra
  rb = rb
  u = u
  NoFrame = NoFrame
  Room = {ra, rb}
  User = {u}
  Inputs = {1, 2}
  Outputs = {1, 2}
  InputMaps <- SomeInputs
  OutputMaps <- SomeOutputs
  MaxEdits = 1
  MaxFaults = 2
  MaxEvents = 3
  Window = 2
  MaxAge = 1
  PassEvery = 1
  NoConfig = NoConfig
SPECIFICATION RunnersSpec
INVARIANTS RunnerTypes OneEvent LoudStaysClear
PROPERTIES OnlyWanted Converges OutagesFollowed AlertsFollow
CHECK_DEADLOCK FALSE
