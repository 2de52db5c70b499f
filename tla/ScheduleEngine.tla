--------------------------- MODULE ScheduleEngine ---------------------------
(***************************************************************************)
(* Recurrence of schedules (schedule-engine.ts): when a schedule runs next *)
(* and what the calendar shows of it.                                      *)
(*                                                                         *)
(* Dates are day numbers of the schedule's time zone and every day is      *)
(* DayLength ticks long, so the changes of summer time are left out.  A    *)
(* tick is longer than the minute advanceScheduleAfterRun adds.            *)
(***************************************************************************)
EXTENDS Integers, Records

CONSTANTS
  DayLength,   \* ticks of a day
  Hour,        \* the tick of startTime
  Early,       \* startEarlySeconds, in ticks
  WeekLength,  \* days of a week
  Months,      \* how many months the calendar has
  MonthStart,  \* the first date of each month, and the one after the last
  LastDate     \* how far ahead the scans look (scanDayLimit, scanMonthLimit)

ScheduleEngineAssumption ==
  /\ DayLength \in Nat \ {0} /\ WeekLength \in Nat \ {0} /\ LastDate \in Nat
  /\ Hour \in 0..(DayLength - 1) /\ Early \in 0..Hour
  /\ Months \in Nat \ {0} /\ MonthStart \in [0..Months -> Nat]
  /\ MonthStart[0] = 0 /\ LastDate < MonthStart[Months]
  /\ \A m, n \in 0..Months : m < n => MonthStart[m] < MonthStart[n]

NoTime == -1
Dates == 0..LastDate

\* The instant a recording of date d starts, and the date an instant belongs to.
RunAt(d) == d * DayLength + Hour - Early
DateOf(t) == (t + Early) \div DayLength
LocalDate(t) == t \div DayLength

Week(d) == d \div WeekLength
Month(d) == CHOOSE m \in 0..(Months - 1) : MonthStart[m] <= d /\ d < MonthStart[m + 1]

Recurring == {"daily", "weekly", "monthly"}

\* The date of a monthly rule in its month, clamped to the month's length.
InMonth(rule, d) ==
  LET first == MonthStart[Month(d)]
      length == MonthStart[Month(d) + 1] - first
  IN  d = first + (IF rule.day < length THEN rule.day ELSE length) - 1

\* Every n-th day, week or month, counted from an anchor date.
OnPhase(rule, anchor, d) ==
  \/ rule.mode = "daily" /\ (d - anchor) % rule.every = 0
  \/ /\ rule.mode = "weekly" /\ d % WeekLength \in rule.days
     /\ (Week(d) - Week(anchor)) % rule.every = 0
  \/ /\ rule.mode = "monthly" /\ InMonth(rule, d)
     /\ (Month(d) - Month(anchor)) % rule.every = 0

\* Mutant: the scan begins a day late.
FromDateLate(rule, after, previous, d) ==
  IF previous = NoTime THEN d >= LocalDate(after) ELSE d > DateOf(previous) + 1

\* Where a scan starts: behind the previous run, or where `after` falls.
FromDate(rule, after, previous, d) ==
  IF previous = NoTime
  THEN IF rule.mode = "monthly" THEN Month(d) >= Month(LocalDate(after)) ELSE d >= LocalDate(after)
  ELSE IF rule.mode = "monthly"
       THEN Month(d) >= Month(DateOf(previous)) + rule.every
       ELSE d > DateOf(previous)

Anchor(after, previous, parity) ==
  IF parity # NoTime THEN DateOf(parity)
  ELSE IF previous # NoTime THEN DateOf(previous) ELSE LocalDate(after)

Candidates(rule, after, previous, parity) ==
  {d \in Dates : /\ FromDate(rule, after, previous, d)
                 /\ OnPhase(rule, Anchor(after, previous, parity), d)
                 /\ d \notin rule.skips
                 /\ RunAt(d) > after}

NextRunAt(rule, after, previous, parity) ==
  IF rule.mode = "once" THEN rule.at - Early
  ELSE IF rule.mode = "always_on" THEN (IF previous = NoTime THEN after ELSE NoTime)
  ELSE LET found == Candidates(rule, after, previous, parity)
       IN  IF found = {} THEN NoTime
           ELSE RunAt(CHOOSE d \in found : \A e \in found : d <= e)

\* Mutant: a one-off that ran is not disabled.
AdvancedKept(row, now) ==
  [next |-> IF row.rule.mode \in Recurring
            THEN NextRunAt(row.rule, now, row.next, NoTime) ELSE row.next]

\* advanceScheduleAfterRun: the fields that change once a schedule ran.
Advanced(row, now) ==
  IF row.rule.mode \in Recurring
  THEN [next |-> NextRunAt(row.rule, now, row.next, NoTime)]
  ELSE IF row.rule.mode = "once" THEN [next |-> NoTime, enabled |-> FALSE]
  ELSE [next |-> NoTime]

\* Mutant: only a run whose instant has just come is due.
IsDueNow(row, now) == row.enabled /\ row.next = now

IsDue(row, now) == row.enabled /\ row.next # NoTime /\ row.next <= now
IsSkipped(row) == DateOf(row.next) \in row.rule.skips

\* Mutant: a skip is recorded as the instant of the run, not as its local date.
WithSkipInstant(rule, date) == [rule EXCEPT !.skips = @ \cup {RunAt(date)}]

WithSkip(rule, date) == [rule EXCEPT !.skips = @ \cup {date}]
\* skipNextScheduleOccurrence
Skipping(row) ==
  LET rule == WithSkip(row.rule, DateOf(row.next))
  IN  Over(Advanced([row EXCEPT !.rule = rule], row.next), [rule |-> rule])

\* Mutant: the calendar counts every n-th day from its own beginning.
CalendarFromWindow(row, from) == NextRunAt(row.rule, from - 1, NoTime, NoTime)

\* windowScheduleOccurrences: the first occurrence from an instant on is found
\* with the schedule's own phase, each further one by advancing from the last.
CalendarFrom(row, from) == NextRunAt(row.rule, from - 1, NoTime, row.next)
=============================================================================
