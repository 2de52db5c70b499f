\* A schedule whose run is put off into the next day.
CONSTANTS
  s1 = s1
  s2 = s2
  m1 = m1
  m2 = m2
  q1 = q1
  wd = wd
  r1 = r1
  none = none
  lr = lr
  DayLength = 3
  Hour = 2
  Early = 1
  WeekLength = 2
  Months = 4
  MonthStart <- Firsts
  LastDate = 8
  Schedule = {s1, s2}
  First = s1
  Rules <- SomeRules
  Delay = 1
  Starts = {4, 7}
  Edits = {"toggle", "reschedule", "skip", "move", "delete"}
  MaxEdits = 0
  MaxFaults = 1
  MaxTime = 5
  NoRow = NoRow
  NoSchedule = NoSchedule
SPECIFICATION ControlSpec

PROPERTY OccurrencesKept
CHECK_DEADLOCK FALSE
