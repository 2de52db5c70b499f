\* Two schedules over five ticks; a job and its retry.
CONSTANTS
  s1 = s1
  s2 = s2
  q1 = q1
  r1 = r1
  none = none
  lr = lr
  DayLength = 3
  Hour = 2
  Early = 1
  WeekLength = 2
  Months = 4
  MonthStart <- Firsts
  LastDate = 8
  Schedule = {s1, s2}
  First = s1
  Rules <- SomeRules
  Delay = 1
  Starts = {4, 7}
  Edits = {"toggle", "reschedule", "skip", "move", "delete"}
  MaxEdits = 1
  MaxFaults = 1
  MaxTime = 5
  NoRow = NoRow
  NoSchedule = NoSchedule
SPECIFICATION ControlSpec
INVARIANTS ControlTypes RunOnce CalendarAgrees
PROPERTIES ComingKept OnceRuns LeasesEnd
CHECK_DEADLOCK FALSE
