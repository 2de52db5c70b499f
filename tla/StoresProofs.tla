---------------------------- MODULE StoresProofs ----------------------------
(***************************************************************************)
(* The stores of the controller that a loop and operators write at once:   *)
(* the schedules (ScheduleRunner) and the badge of a recording against its *)
(* events (HealthEvents).  For each, an inductive invariant that names     *)
(* what whoever is in flight still knows of rows it read some statements   *)
(* ago.                                                                    *)
(***************************************************************************)
EXTENDS ScheduleRunner, HealthPromise, WellFoundedInduction, TLAPS

CONSTANTS Checks, Request, Watchdog, Attempts, MaxEvents, MaxRequests, MaxPasses

VARIABLES requests, passes

Health == INSTANCE HealthEvents

-----------------------------------------------------------------------------
(* The schedules: what rows, updates, passes and requests are *)

\* A row that waits for an occurrence runs when that comes, or later.
Paired(rec) ==
  /\ rec.next = NoTime <=> rec.slot = NoTime
  /\ rec.slot <= rec.next
Rows == {rec \in Row : Paired(rec)}

Updates ==
  [enabled : BOOLEAN]
    \cup {upd \in [next : Times, slot : Times]
                    \cup [enabled : BOOLEAN, next : Times, slot : Times]
                    \cup [next : Times, rule : Rule, slot : Times]
                    \cup [enabled : BOOLEAN, next : Times, rule : Rule, slot : Times] :
            Paired(upd)}

Passes ==
  [pc : {"idle", "next", "queue", "read", "write"}, at : 0..MaxTime,
   todo : SUBSET (Schedule \X Rows), id : Schedule \cup {NoSchedule}, snap : Rows \cup {NoRow},
   upd : Updates \cup {NoRow}, row : Rows \cup {NoRow}, queued : BOOLEAN]
Requests ==
  [pc : {"idle", "read", "write", "create", "rollbackRead", "rollbackWrite"},
   kind : {"none", "toggle", "reschedule", "skip", "move", "moveOnce"},
   id : Schedule \cup {NoSchedule}, before : Rows \cup {NoRow}, upd : Updates \cup {NoRow},
   row : Rows \cup {NoRow}, clone : Rows \cup {NoRow}]

Types ==
  /\ now \in 0..MaxTime /\ edits \in 0..MaxEdits /\ faults \in 0..MaxFaults
  /\ table \in [Schedule -> Rows \cup {NoRow}] /\ runner \in Passes /\ req \in Requests
  /\ runs \in [Schedule -> SUBSET Times]
  /\ again \subseteq Schedule /\ cut \subseteq Schedule
  /\ stale \subseteq Schedule /\ slipped \subseteq Schedule

\* The three updates of a pass: the run is noted, the occurrence skipped, or the
\* run put off.
Notes ==
  runner.queued /\ IsDue(runner.snap, now) /\ runner.upd = Sets(Advanced(runner.snap, now))
Skips ==
  ~runner.queued /\ IsDue(runner.snap, now) /\ runner.upd = Sets(Skipping(runner.snap))
PutsOff ==
  /\ ~runner.queued
  /\ runner.upd = [next |-> now + Delay, slot |-> runner.upd.slot] /\ runner.upd.slot \in 0..now
  /\ \/ IsDue(runner.snap, now) /\ runner.upd.slot = runner.snap.slot
     \/ runner.id \in cut

Busy == runner.pc \in {"queue", "read", "write"}
Passing ==
  /\ runner.pc = "idle" => runner = Idle
  /\ runner.pc # "idle" => runner.at = now
  /\ runner.queued => runner.pc \in {"read", "write"}
  /\ \A e \in runner.todo : IsDue(e[2], now)
  /\ \A e, f \in runner.todo : e[1] = f[1] => e = f
  /\ Busy => /\ runner.id \in Schedule /\ runner.snap \in Rows
             /\ \A e \in runner.todo : e[1] # runner.id
  /\ runner.pc = "queue" => IsDue(runner.snap, now)
  /\ runner.pc \in {"read", "write"} => runner.upd \in Updates /\ (Notes \/ Skips \/ PutsOff)
  /\ runner.pc = "write" => runner.row \in Rows

\* The updates of requests, computed from the row `before`.
NextFromNow(rule, phase) == Sets([rule |-> rule, next |-> NextRunAt(rule, now, NoTime, phase)])
Phase(rec, date) == IF rec.next # NoTime THEN rec.next ELSE RunAt(date)
Asks(kind, before, upd) ==
  \/ kind = "toggle" /\ upd = [enabled |-> ~before.enabled]
  \/ kind = "skip" /\ before.next # NoTime /\ upd = Sets(Skipping(before))
  \/ /\ kind = "reschedule"
     /\ \E rule \in Rules : rule.mode \in Recurring /\ upd = NextFromNow(rule, NoTime)
  \/ /\ kind = "moveOnce" /\ before.rule.mode = "once"
     /\ \E start \in Starts : upd = NextFromNow([before.rule EXCEPT !.at = start], NoTime)
  \/ /\ kind = "move" /\ before.rule.mode \in Recurring
     /\ \E date \in Dates :
          /\ OnPhase(before.rule, DateOf(Phase(before, date)), date)
          /\ upd = NextFromNow(WithSkip(before.rule, date), Phase(before, date))

Asking ==
  /\ req.pc = "idle" => req = Quiet
  /\ req.pc # "idle" => /\ req.id \in Schedule /\ req.before \in Rows /\ req.upd \in Updates
                        /\ Asks(req.kind, req.before, req.upd)
  /\ req.pc \in {"write", "rollbackWrite"} => req.row \in Rows
  /\ req.pc \in {"create", "rollbackRead", "rollbackWrite"} => req.kind = "move"
  /\ req.kind = "move" =>
       /\ req.clone \in Rows /\ req.clone.rule.mode = "once"
       /\ req.clone.next = req.clone.slot

-----------------------------------------------------------------------------
(* An occurrence is queued once *)

Queueing(s) == runner.queued /\ runner.id = s
Picked(s, rec) ==
  \/ <<s, rec>> \in runner.todo
  \/ runner.pc = "queue" /\ runner.id = s /\ runner.snap = rec

\* Whoever waits for `slot` has not been queued for it; a recurring schedule for
\* none later than it either.
Waits(s, rec) ==
  \A r \in runs[s] :
    IF rec.rule.mode \in Recurring
    THEN r < rec.slot \/ (Queueing(s) /\ r <= rec.slot)
    ELSE r # rec.slot \/ Queueing(s)

Fresh(s) ==
  /\ Present(s) /\ table[s].next # NoTime => Waits(s, table[s])
  /\ \A rec \in Rows : Picked(s, rec) =>
       /\ rec.slot \notin runs[s]
       /\ (Present(s) /\ table[s].next # NoTime /\ table[s].rule.mode \in Recurring)
            => rec.slot <= table[s].slot

\* A move that may still be rolled back.
Moved(s) ==
  (req.id = s /\ req.pc \in {"create", "rollbackRead", "rollbackWrite"} /\ Present(s)) =>
    /\ table[s] = Over(req.upd, req.before)
    /\ req.before.next # NoTime =>
         /\ Waits(s, req.before)
         /\ \A rec \in Rows : Picked(s, rec) => rec.slot <= req.before.slot

Once ==
  /\ \A s \in Schedule : \A r \in runs[s] : r \in 0..now
  /\ \A s \in Schedule \ (cut \cup stale) : Fresh(s) /\ Moved(s)
  /\ RunOnce

-----------------------------------------------------------------------------
(* None is passed over *)

\* Nothing of the phase of an occurrence that was not skipped comes before it.
Ahead(rule, slot) ==
  \A d \in Dates : (/\ OnPhase(rule, DateOf(slot), d) /\ d \notin rule.skips
                    /\ RunAt(d) > now) => RunAt(d) >= slot

\* A row waits for an occurrence of its rule, the first to come (unless a retry
\* was put off into another date).
Good(s, rec) ==
  rec.rule.mode \in Recurring /\ rec.next # NoTime =>
    /\ rec.slot = RunAt(DateOf(rec.slot))
    /\ OnPhase(rec.rule, DateOf(rec.slot), DateOf(rec.slot))
    /\ rec.slot < rec.next => rec.slot <= now
    /\ s \notin slipped => Ahead(rec.rule, rec.slot)
Kept(old, new) == ~Strayed(old) /\ ~Strayed(new) => ~PassedOver(old, new)

Seen(s, rec) == (Strayed(rec) => s \in slipped) /\ (s \notin stale => Good(s, rec))

\* An update that its writer computed from the row it saw.
Meant(s, seen, upd) ==
  s \notin stale => Good(s, Over(upd, seen)) /\ Kept(seen, Over(upd, seen))

TableSeen == \A s \in Schedule : Present(s) => Seen(s, table[s])
PassSeen ==
  /\ \A s \in Schedule, rec \in Rows : <<s, rec>> \in runner.todo => Seen(s, rec)
  /\ Busy => Seen(runner.id, runner.snap)
  /\ runner.pc \in {"read", "write"} => Meant(runner.id, runner.snap, runner.upd)
RequestSeen ==
  req.pc # "idle" =>
    /\ Seen(req.id, req.before)
    /\ req.id \notin stale => Good(req.id, Over(req.upd, req.before))
    /\ req.id \notin stale /\ req.kind # "reschedule" =>
         Kept(req.before, Over(req.upd, req.before))
Agreed == TableSeen /\ PassSeen /\ RequestSeen

IInv == Types /\ Passing /\ Asking /\ Once /\ Agreed

-----------------------------------------------------------------------------
(* Lemmas about dates and the recurrence *)

LEMMA Calendar ==
  /\ DayLength \in Nat \ {0} /\ WeekLength \in Nat \ {0} /\ LastDate \in Nat
  /\ Hour \in 0..(DayLength - 1) /\ Early \in 0..Hour
  /\ Months \in Nat \ {0} /\ MonthStart \in [0..Months -> Nat]
  /\ MonthStart[0] = 0 /\ LastDate < MonthStart[Months]
  /\ \A m, n \in 0..Months : m < n => MonthStart[m] < MonthStart[n]
  BY ScheduleRunnerAssumption DEF ScheduleEngineAssumption

LEMMA Quotient ==
  ASSUME NEW d \in Nat, NEW b \in Nat \ {0}, NEW x \in 0..(b - 1)
  PROVE  (d * b + x) \div b = d
  BY SMTT(30)

\* A date and the instant of its run.
LEMMA RunDate ==
  ASSUME NEW d \in Dates
  PROVE  /\ RunAt(d) \in Instants /\ RunAt(d) # NoTime
         /\ DateOf(RunAt(d)) = d
         /\ LocalDate(RunAt(d)) = d
<1>1. d \in Nat /\ RunAt(d) \in Nat
  BY Calendar, SMT DEF RunAt, Dates
<1>2. /\ Hour \in 0..(DayLength - 1) /\ Hour - Early \in 0..(DayLength - 1)
      /\ RunAt(d) + Early = d * DayLength + Hour
      /\ RunAt(d) = d * DayLength + (Hour - Early)
  BY <1>1, Calendar, SMT DEF RunAt
<1>3. DateOf(RunAt(d)) = d /\ LocalDate(RunAt(d)) = d
  BY <1>1, <1>2, Calendar, Quotient DEF DateOf, LocalDate
<1> QED  BY <1>1, <1>3 DEF Instants, NoTime

LEMMA RunOrder ==
  ASSUME NEW d \in Dates, NEW e \in Dates
  PROVE  /\ RunAt(d) < RunAt(e) <=> d < e
         /\ RunAt(d) <= RunAt(e) <=> d <= e
<1>1. d \in Nat /\ e \in Nat /\ RunAt(d) \in Nat /\ RunAt(e) \in Nat
  BY Calendar, SMT DEF RunAt, Dates
<1>2. d < e => RunAt(d) < RunAt(e)
  BY <1>1, Calendar, SMTT(30) DEF RunAt
<1>3. e < d => RunAt(e) < RunAt(d)
  BY <1>1, Calendar, SMTT(30) DEF RunAt
<1> QED  BY <1>1, <1>2, <1>3, SMT

LEMMA DateOrder ==
  ASSUME NEW t \in Nat
  PROVE  /\ DateOf(t) \in Nat /\ LocalDate(t) \in Nat /\ LocalDate(t) <= DateOf(t)
         /\ \A u \in Nat : t <= u => DateOf(t) <= DateOf(u) /\ LocalDate(t) <= LocalDate(u)
         /\ \A d \in Dates : RunAt(d) > t => d >= LocalDate(t)
<1>1. DateOf(t) \in Nat /\ LocalDate(t) \in Nat /\ LocalDate(t) <= DateOf(t)
  BY Calendar, SMTT(30) DEF DateOf, LocalDate
<1>2. ASSUME NEW u \in Nat, t <= u
      PROVE  DateOf(t) <= DateOf(u) /\ LocalDate(t) <= LocalDate(u)
  BY <1>2, Calendar, SMTT(30) DEF DateOf, LocalDate
<1>3. ASSUME NEW d \in Dates, RunAt(d) > t
      PROVE  d >= LocalDate(t)
  <2>1. d \in Nat /\ t < d * DayLength + DayLength
    BY <1>3, Calendar, SMT DEF RunAt, Dates
  <2>2. d * DayLength \in Nat
    BY <2>1, Calendar, SMT
  <2> QED  BY <2>1, <2>2, Calendar, SMTT(30) DEF LocalDate
<1> QED  BY <1>1, <1>2, <1>3, Zenon

LEMMA InstantsBelow ==
  ASSUME NEW t \in Instants, NEW u \in Nat, u <= t
  PROVE  u \in Instants /\ LocalDate(u) \in Dates
<1>1. t \in Nat /\ DateOf(t) \in 0..LastDate
  BY DEF Instants, Dates
<1>2. /\ DateOf(u) \in Nat /\ LocalDate(u) \in Nat /\ LocalDate(u) <= DateOf(u)
      /\ DateOf(u) <= DateOf(t)
  BY <1>1, DateOrder
<1> QED  BY <1>1, <1>2, Calendar, SMT DEF Instants, Dates

\* Within the bounds every instant has a date.
LEMMA WithinBounds ==
  ASSUME NEW t \in Nat, t <= MaxTime + Delay
  PROVE  t \in Instants /\ LocalDate(t) \in Dates
<1>1. MaxTime + Delay \in Instants
  BY ScheduleRunnerAssumption
<1> QED  BY <1>1, InstantsBelow

LEMMA LeastOf ==
  ASSUME NEW S \in SUBSET Nat, S # {}
  PROVE  LET d == CHOOSE d \in S : \A e \in S : d <= e IN d \in S /\ \A e \in S : d <= e
<1>1. PICK d \in S : \A e \in S : ~(<<e, d>> \in OpToRel(<, Nat))
  BY NatLessThanWellFounded, WFMin, Zenon
<1>2. ASSUME NEW e \in S, ~(d <= e)
      PROVE  FALSE
  <2>1. e \in Nat /\ d \in Nat /\ e < d
    BY <1>2
  <2>2. <<e, d>> \in OpToRel(<, Nat)
    BY <2>1 DEF OpToRel
  <2> QED  BY <1>1, <2>2
<1> QED  BY <1>1, <1>2, Zenon

LEMMA MonthOf ==
  ASSUME NEW d \in Dates
  PROVE  /\ Month(d) \in 0..(Months - 1)
         /\ MonthStart[Month(d)] <= d /\ d < MonthStart[Month(d) + 1]
<1> DEFINE S == {m \in 0..Months : d < MonthStart[m]}
<1>1. d \in Nat /\ d < MonthStart[Months] /\ S \in SUBSET Nat /\ S # {}
  BY Calendar, SMT DEF Dates
<1> HIDE DEF S
<1>2. PICK n \in S : \A e \in S : n <= e
  BY <1>1, LeastOf, Zenon
<1>3. n \in 1..Months /\ d < MonthStart[n] /\ (n - 1) \notin S
  BY <1>1, <1>2, Calendar, SMT DEF S
<1>4. n - 1 \in 0..(Months - 1) /\ MonthStart[n - 1] <= d /\ d < MonthStart[(n - 1) + 1]
  BY <1>1, <1>3, Calendar, SMT DEF S
<1>5. \E m \in 0..(Months - 1) : MonthStart[m] <= d /\ d < MonthStart[m + 1]
  BY <1>4
<1> QED  BY <1>5, Zenon DEF Month

LEMMA MonthOrder ==
  ASSUME NEW d \in Dates, NEW e \in Dates, d <= e
  PROVE  Month(d) <= Month(e)
<1>1. SUFFICES ASSUME Month(e) < Month(d) PROVE FALSE
  BY MonthOf, SMT
<1>2. d \in Nat /\ e \in Nat
  BY DEF Dates
<1>3. /\ Month(d) \in 0..(Months - 1) /\ MonthStart[Month(d)] <= d
      /\ Month(e) \in 0..(Months - 1) /\ e < MonthStart[Month(e) + 1]
  BY MonthOf
<1>4. Month(e) + 1 = Month(d) \/ MonthStart[Month(e) + 1] < MonthStart[Month(d)]
  BY <1>1, <1>3, Calendar, SMT
<1> QED  BY <1>1, <1>2, <1>3, <1>4, Calendar, SMT

\* Differences that an interval divides add up.
LEMMA Divides ==
  ASSUME NEW x \in Int, NEW b \in Nat \ {0}
  PROVE  x % b = 0 <=> \E k \in Int : x = k * b
<1>1. ASSUME x % b = 0 PROVE x = (x \div b) * b /\ x \div b \in Int
  BY <1>1, SMTT(30)
<1>2. ASSUME NEW k \in Int, x = k * b PROVE x % b = 0
  BY <1>2, SMTT(30)
<1> QED  BY <1>1, <1>2, Zenon

LEMMA Congruent ==
  ASSUME NEW x \in Int, NEW y \in Int, NEW z \in Int, NEW b \in Nat \ {0},
         (y - x) % b = 0
  PROVE  (z - x) % b = 0 <=> (z - y) % b = 0
<1>1. PICK k \in Int : y - x = k * b
  BY Divides
<1>2. ASSUME (z - x) % b = 0 PROVE (z - y) % b = 0
  <2>1. PICK j \in Int : z - x = j * b
    BY <1>2, Divides
  <2>2. z - y = (j - k) * b /\ j - k \in Int
    BY <1>1, <2>1, SMTT(30)
  <2> QED  BY <2>2, Divides
<1>3. ASSUME (z - y) % b = 0 PROVE (z - x) % b = 0
  <2>1. PICK j \in Int : z - y = j * b
    <3>1. z - y \in Int
      OBVIOUS
    <3> QED  BY <3>1, <1>3, Divides, Zenon
  <2>2. z - x = (j + k) * b /\ j + k \in Int
    BY <1>1, <2>1, SMTT(30)
  <2> QED  BY <2>2, Divides
<1> QED  BY <1>2, <1>3

LEMMA NoDifference ==
  ASSUME NEW x \in Int, NEW b \in Nat \ {0}
  PROVE  (x - x) % b = 0
  BY SMTT(30)

\* The next month of a phase is no nearer than its interval.
LEMMA NextOfPhase ==
  ASSUME NEW m \in Int, NEW n \in Int, NEW b \in Nat \ {0}, (n - m) % b = 0, m < n
  PROVE  n >= m + b
<1>1. PICK k \in Int : n - m = k * b
  BY Divides
<1>2. k >= 1
  BY <1>1, SMTT(30)
<1>3. k * b >= b
  BY <1>2, SMTT(30)
<1> QED  BY <1>1, <1>3, SMT

LEMMA WeekOf ==
  ASSUME NEW d \in Dates
  PROVE  Week(d) \in Int
  BY Calendar, SMTT(30) DEF Week, Dates

\* A phase is the same from each of its dates, and the monthly date of a month
\* is one date.
LEMMA OnePhase ==
  ASSUME NEW rule \in Rule, NEW a \in Dates, NEW d \in Dates, OnPhase(rule, a, d)
  PROVE  /\ OnPhase(rule, d, d)
         /\ \A e \in Dates : OnPhase(rule, a, e) <=> OnPhase(rule, d, e)
         /\ rule.mode = "monthly" =>
              \A e \in Dates : OnPhase(rule, a, e) /\ Month(e) = Month(d) => e = d
<1>1. /\ rule.every \in Nat \ {0} /\ a \in Int /\ d \in Int
      /\ \A e \in Dates : e \in Int
  BY Calendar DEF Rule, Dates
<1>2. CASE rule.mode = "daily"
  <2>1. a \in Int /\ d \in Int /\ (d - a) % rule.every = 0
    BY <1>1, <1>2 DEF OnPhase
  <2>2. ASSUME NEW e \in Dates
        PROVE  (e - a) % rule.every = 0 <=> (e - d) % rule.every = 0
    <3>1. e \in Int
      BY <1>1, WeekOf, MonthOf
    <3> QED  BY <1>1, <2>1, <3>1, Congruent
  <2>3. (d - d) % rule.every = 0
    BY <1>1, <2>1, NoDifference, Zenon
  <2> QED  BY <1>2, <2>2, <2>3 DEF OnPhase
<1>3. CASE rule.mode = "weekly"
  <2>1. Week(a) \in Int /\ Week(d) \in Int /\ (Week(d) - Week(a)) % rule.every = 0
    BY <1>1, <1>3, WeekOf, MonthOf DEF OnPhase
  <2>2. ASSUME NEW e \in Dates
        PROVE  (Week(e) - Week(a)) % rule.every = 0 <=> (Week(e) - Week(d)) % rule.every = 0
    <3>1. Week(e) \in Int
      BY <1>1, WeekOf, MonthOf
    <3> QED  BY <1>1, <2>1, <3>1, Congruent
  <2>3. (Week(d) - Week(d)) % rule.every = 0
    BY <1>1, <2>1, NoDifference, Zenon
  <2> QED  BY <1>3, <2>2, <2>3 DEF OnPhase
<1>4. CASE rule.mode = "monthly"
  <2>1. Month(a) \in Int /\ Month(d) \in Int /\ (Month(d) - Month(a)) % rule.every = 0
    BY <1>1, <1>4, WeekOf, MonthOf DEF OnPhase
  <2>2. ASSUME NEW e \in Dates
        PROVE  (Month(e) - Month(a)) % rule.every = 0 <=> (Month(e) - Month(d)) % rule.every = 0
    <3>1. Month(e) \in Int
      BY <1>1, WeekOf, MonthOf
    <3> QED  BY <1>1, <2>1, <3>1, Congruent
  <2>3. (Month(d) - Month(d)) % rule.every = 0
    BY <1>1, <2>1, NoDifference, Zenon
  <2>4. ASSUME NEW e \in Dates, OnPhase(rule, a, e), Month(e) = Month(d)
        PROVE  e = d
    BY <1>4, <2>4 DEF OnPhase, InMonth
  <2> QED  BY <1>4, <2>2, <2>3, <2>4 DEF OnPhase
<1> QED  BY <1>2, <1>3, <1>4 DEF OnPhase

LEMMA AnchorsAreDates ==
  ASSUME NEW after \in Instants, NEW previous \in Times, NEW parity \in Times
  PROVE  Anchor(after, previous, parity) \in Dates
  BY InstantsBelow, Calendar DEF Anchor, Times, Instants

\* What a scan finds is the first of its candidates.
LEMMA NextFound ==
  ASSUME NEW rule \in Rule, rule.mode \in Recurring,
         NEW after \in Instants, NEW previous \in Times, NEW parity \in Times
  PROVE  LET next == NextRunAt(rule, after, previous, parity)
             found == Candidates(rule, after, previous, parity)
         IN  /\ next = NoTime => found = {}
             /\ next # NoTime =>
                  /\ next \in Instants /\ next > after
                  /\ DateOf(next) \in found /\ next = RunAt(DateOf(next))
                  /\ \A d \in found : RunAt(d) >= next
                  /\ OnPhase(rule, Anchor(after, previous, parity), DateOf(next))
                  /\ OnPhase(rule, DateOf(next), DateOf(next))
<1> DEFINE next == NextRunAt(rule, after, previous, parity)
           found == Candidates(rule, after, previous, parity)
           least == CHOOSE d \in found : \A e \in found : d <= e
<1>1. next = IF found = {} THEN NoTime ELSE RunAt(least)
  BY DEF NextRunAt, Recurring
<1>2. found \subseteq Dates /\ Dates \subseteq Nat
  BY DEF Candidates, Dates
<1>3. CASE found = {}
  BY <1>1, <1>3
<1>4. CASE found # {}
  <2>1. least \in found /\ \A e \in found : least <= e
    <3> HIDE DEF found
    <3> QED  BY <1>2, <1>4, LeastOf, Zenon
  <2>2. next = RunAt(least) /\ least \in Dates
    BY <1>1, <1>2, <1>4, <2>1
  <2>3. next \in Instants /\ next # NoTime /\ DateOf(next) = least
    BY <2>2, RunDate
  <2>4. \A d \in found : RunAt(d) >= next
    <3>1. \A d \in found : RunAt(least) <= RunAt(d) /\ RunAt(d) \in Nat
      BY <1>2, <2>1, <2>2, RunOrder, RunDate DEF Instants
    <3> QED  BY <2>2, <2>3, <3>1 DEF Instants
  <2>5. /\ next > after
        /\ OnPhase(rule, Anchor(after, previous, parity), least)
    BY <2>1, <2>2 DEF Candidates
  <2>6. OnPhase(rule, least, least)
    BY <2>2, <2>5, OnePhase, AnchorsAreDates
  <2> QED  BY <2>1, <2>2, <2>3, <2>4, <2>5, <2>6
<1> QED  BY <1>3, <1>4

LEMMA NextIsTime ==
  ASSUME NEW rule \in Rule, NEW after \in Instants, NEW previous \in Times, NEW parity \in Times
  PROVE  NextRunAt(rule, after, previous, parity) \in Times
<1>1. CASE rule.mode \in Recurring
  BY <1>1, NextFound, Zenon DEF Times
<1>2. CASE rule.mode = "once"
  <2>1. /\ rule.at \in Instants /\ rule.at \in Nat /\ rule.at >= Early
        /\ NextRunAt(rule, after, previous, parity) = rule.at - Early
    BY <1>2 DEF Rule, Buffered, Instants, NextRunAt
  <2>2. rule.at - Early \in Nat /\ rule.at - Early <= rule.at
    BY <2>1, Calendar, SMT
  <2> QED  BY <2>1, <2>2, InstantsBelow DEF Times
<1>3. CASE rule.mode = "always_on"
  BY <1>3 DEF NextRunAt, Times
<1> QED  BY <1>1, <1>2, <1>3 DEF Rule

-----------------------------------------------------------------------------
(* Lemmas about updates *)

\* An update over a row is a row.
LEMMA Overlaid ==
  ASSUME NEW upd \in Updates, NEW rec \in Rows
  PROVE  LET new == Over(upd, rec)
         IN  /\ new \in Rows
             /\ new.enabled = IF "enabled" \in DOMAIN upd THEN upd.enabled ELSE rec.enabled
             /\ new.rule = IF "rule" \in DOMAIN upd THEN upd.rule ELSE rec.rule
             /\ new.next = IF "next" \in DOMAIN upd THEN upd.next ELSE rec.next
             /\ new.slot = IF "next" \in DOMAIN upd THEN upd.slot ELSE rec.slot
<1> DEFINE new == Over(upd, rec)
           all == {"enabled", "next", "rule", "slot"}
<1>1. rec \in [enabled : BOOLEAN, next : Times, rule : Rule, slot : Times] /\ Paired(rec)
  BY DEF Row, Rows
<1>2. DOMAIN rec = all /\ DOMAIN upd \subseteq all
  BY <1>1 DEF Updates
<1>3. new = [name \in all |-> IF name \in DOMAIN upd THEN upd[name] ELSE rec[name]]
  BY <1>2 DEF Over
<1>4. /\ new.enabled = IF "enabled" \in DOMAIN upd THEN upd.enabled ELSE rec.enabled
      /\ new.rule = IF "rule" \in DOMAIN upd THEN upd.rule ELSE rec.rule
      /\ new.next = IF "next" \in DOMAIN upd THEN upd.next ELSE rec.next
      /\ new.slot = IF "slot" \in DOMAIN upd THEN upd.slot ELSE rec.slot
  BY <1>3
<1>5. /\ "next" \in DOMAIN upd <=> "slot" \in DOMAIN upd
      /\ "next" \in DOMAIN upd => upd.next \in Times /\ upd.slot \in Times /\ Paired(upd)
      /\ "enabled" \in DOMAIN upd => upd.enabled \in BOOLEAN
      /\ "rule" \in DOMAIN upd => upd.rule \in Rule
  BY DEF Updates
<1>6. new = [enabled |-> new.enabled, next |-> new.next, rule |-> new.rule, slot |-> new.slot]
  <2> DEFINE record == [enabled |-> new.enabled, next |-> new.next, rule |-> new.rule,
                        slot |-> new.slot]
  <2>1. DOMAIN record = all /\ \A name \in all : record[name] = new[name]
    OBVIOUS
  <2>2. record = [name \in all |-> record[name]] /\ new = [name \in all |-> new[name]]
    BY <1>3
  <2> QED  BY <2>1, <2>2
<1>7. /\ new.enabled \in BOOLEAN /\ new.rule \in Rule /\ new.next \in Times /\ new.slot \in Times
      /\ Paired(new)
  BY <1>1, <1>4, <1>5 DEF Paired
<1>8. new \in [enabled : BOOLEAN, next : Times, rule : Rule, slot : Times]
  <2> HIDE DEF new
  <2> QED  BY <1>6, <1>7
<1> QED  BY <1>4, <1>5, <1>7, <1>8 DEF Row, Rows

\* Updates that set the next run wait for its occurrence.
LEMMA SetsNext ==
  ASSUME NEW next \in Times, NEW enabled \in BOOLEAN, NEW rule \in Rule
  PROVE  /\ Sets([next |-> next]) = [next |-> next, slot |-> next]
         /\ Sets([next |-> next, enabled |-> enabled])
              = [enabled |-> enabled, next |-> next, slot |-> next]
         /\ Sets([rule |-> rule, next |-> next])
              = [next |-> next, rule |-> rule, slot |-> next]
         /\ Sets(Over([next |-> next], [rule |-> rule]))
              = [next |-> next, rule |-> rule, slot |-> next]
         /\ Sets(Over([next |-> next, enabled |-> enabled], [rule |-> rule]))
              = [enabled |-> enabled, next |-> next, rule |-> rule, slot |-> next]
  BY DEF Sets, Over

LEMMA UpdatesAre ==
  ASSUME NEW next \in Times, NEW slot \in Times, NEW enabled \in BOOLEAN, NEW rule \in Rule,
         next = NoTime <=> slot = NoTime, slot <= next
  PROVE  /\ [enabled |-> enabled] \in Updates
         /\ [next |-> next, slot |-> slot] \in Updates
         /\ [enabled |-> enabled, next |-> next, slot |-> slot] \in Updates
         /\ [next |-> next, rule |-> rule, slot |-> slot] \in Updates
         /\ [enabled |-> enabled, next |-> next, rule |-> rule, slot |-> slot] \in Updates
  BY DEF Updates, Paired

LEMMA TimesOrder ==
  ASSUME NEW t \in Times
  PROVE  t <= t /\ t \in Int /\ (t # NoTime => t \in Instants /\ t \in Nat)
  BY DEF Times, Instants, NoTime

LEMMA RowFields ==
  ASSUME NEW rec \in Rows
  PROVE  /\ rec.enabled \in BOOLEAN /\ rec.next \in Times /\ rec.slot \in Times
         /\ rec.rule \in Rule /\ Paired(rec)
         /\ rec.next # NoTime =>
              /\ rec.next \in Instants /\ rec.slot \in Instants
              /\ rec.next \in Nat /\ rec.slot \in Nat /\ rec.slot <= rec.next
              /\ rec.slot # NoTime
<1>1. /\ rec.enabled \in BOOLEAN /\ rec.next \in Times /\ rec.slot \in Times
      /\ rec.rule \in Rule /\ Paired(rec)
  BY DEF Row, Rows
<1> QED  BY <1>1, TimesOrder DEF Paired

\* The row after a run is noted: the next occurrence of the rule it was computed
\* from, or none.
LEMMA AdvanceIs ==
  ASSUME NEW snap \in Rows, snap.next # NoTime, NEW t \in Instants
  PROVE  LET upd == Sets(Advanced(snap, t))
         IN  /\ upd \in Updates
             /\ \A rec \in Rows :
                  LET new == Over(upd, rec)
                  IN  /\ new \in Rows /\ new.rule = rec.rule /\ new.slot = new.next
                      /\ snap.rule.mode \in Recurring =>
                           new.next = NextRunAt(snap.rule, t, snap.next, NoTime)
                      /\ snap.rule.mode \notin Recurring => new.next = NoTime
<1> DEFINE upd == Sets(Advanced(snap, t))
<1>1. snap.rule \in Rule /\ snap.next \in Times /\ NoTime \in Times /\ NoTime <= NoTime
  BY RowFields, TimesOrder DEF Times
<1>2. CASE snap.rule.mode \in Recurring
  <2> DEFINE next == NextRunAt(snap.rule, t, snap.next, NoTime)
  <2>1. next \in Times /\ next <= next
    BY <1>1, NextIsTime, TimesOrder
  <2>2. Advanced(snap, t) = [next |-> next]
    BY <1>2 DEF Advanced
  <2> HIDE DEF next
  <2>3. upd = [next |-> next, slot |-> next]
    BY <2>1, <2>2, <1>1, SetsNext, Zenon
  <2>4. upd \in Updates
    BY <1>1, <2>1, <2>3, UpdatesAre, Zenon
  <2> USE DEF next
  <2> QED  BY <1>2, <2>3, <2>4, Overlaid
<1>3. CASE snap.rule.mode = "once"
  <2>1. Advanced(snap, t) = [next |-> NoTime, enabled |-> FALSE]
    BY <1>3 DEF Advanced, Recurring
  <2>2. upd = [enabled |-> FALSE, next |-> NoTime, slot |-> NoTime]
    BY <1>1, <2>1, SetsNext, Zenon
  <2>3. upd \in Updates
    BY <1>1, <2>2, UpdatesAre, Zenon
  <2>4. \A rec \in Rows :
          LET new == Over(upd, rec)
          IN  new \in Rows /\ new.rule = rec.rule /\ new.slot = new.next /\ new.next = NoTime
    BY <2>2, <2>3, Overlaid
  <2> HIDE DEF upd
  <2>5. snap.rule.mode \notin Recurring
    BY <1>3 DEF Recurring
  <2> QED  BY <2>3, <2>4, <2>5 DEF upd
<1>4. CASE snap.rule.mode = "always_on"
  <2>1. Advanced(snap, t) = [next |-> NoTime]
    BY <1>4 DEF Advanced, Recurring
  <2>2. upd = [next |-> NoTime, slot |-> NoTime]
    BY <1>1, <2>1, SetsNext, Zenon
  <2>3. upd \in Updates
    BY <1>1, <2>2, UpdatesAre, Zenon
  <2>4. \A rec \in Rows :
          LET new == Over(upd, rec)
          IN  new \in Rows /\ new.rule = rec.rule /\ new.slot = new.next /\ new.next = NoTime
    BY <2>2, <2>3, Overlaid
  <2> HIDE DEF upd
  <2>5. snap.rule.mode \notin Recurring
    BY <1>4 DEF Recurring
  <2> QED  BY <2>3, <2>4, <2>5 DEF upd
<1> QED  BY <1>1, <1>2, <1>3, <1>4 DEF Rule

LEMMA SkippedRule ==
  ASSUME NEW rule \in Rule, NEW d \in Dates
  PROVE  /\ WithSkip(rule, d) \in Rule
         /\ WithSkip(rule, d).mode = rule.mode /\ WithSkip(rule, d).every = rule.every
         /\ WithSkip(rule, d).skips = rule.skips \cup {d}
         /\ \A a, e : OnPhase(WithSkip(rule, d), a, e) <=> OnPhase(rule, a, e)
  BY DEF Rule, WithSkip, OnPhase, InMonth

\* The row after an occurrence is skipped.
LEMMA SkipIs ==
  ASSUME NEW snap \in Rows, snap.next # NoTime
  PROVE  LET upd == Sets(Skipping(snap))
             rule == WithSkip(snap.rule, DateOf(snap.next))
         IN  /\ upd \in Updates /\ rule \in Rule
             /\ \A rec \in Rows :
                  LET new == Over(upd, rec)
                  IN  /\ new \in Rows /\ new.rule = rule /\ new.slot = new.next
                      /\ snap.rule.mode \in Recurring =>
                           new.next = NextRunAt(rule, snap.next, snap.next, NoTime)
                      /\ snap.rule.mode \notin Recurring => new.next = NoTime
<1> DEFINE upd == Sets(Skipping(snap))
           rule == WithSkip(snap.rule, DateOf(snap.next))
           skipped == [snap EXCEPT !.rule = rule]
<1>1. /\ snap.rule \in Rule /\ snap.next \in Times /\ snap.next \in Instants
      /\ NoTime \in Times /\ NoTime <= NoTime
  BY RowFields, TimesOrder DEF Times
<1>2. rule \in Rule /\ rule.mode = snap.rule.mode
  BY <1>1, SkippedRule DEF Instants
<1>3. skipped.rule = rule /\ skipped.next = snap.next
  BY DEF Row, Rows
<1>4. upd = Sets(Over(Advanced(skipped, snap.next), [rule |-> rule]))
  BY DEF Skipping
<1> HIDE DEF upd, rule, skipped
<1>5. CASE snap.rule.mode \in Recurring
  <2> DEFINE next == NextRunAt(rule, snap.next, snap.next, NoTime)
  <2>1. next \in Times /\ next <= next
    BY <1>1, <1>2, NextIsTime, TimesOrder
  <2>2. Advanced(skipped, snap.next) = [next |-> next]
    BY <1>2, <1>3, <1>5 DEF Advanced
  <2> HIDE DEF next
  <2>3. upd = [next |-> next, rule |-> rule, slot |-> next]
    BY <2>1, <2>2, <1>2, <1>4, SetsNext, Zenon
  <2>4. upd \in Updates
    BY <1>2, <2>1, <2>3, UpdatesAre, Zenon
  <2> USE DEF next
  <2>5. \A rec \in Rows :
          LET new == Over(upd, rec)
          IN  new \in Rows /\ new.rule = rule /\ new.slot = new.next /\ new.next = next
    BY <2>3, <2>4, Overlaid
  <2> QED  BY <1>2, <1>5, <2>4, <2>5 DEF upd, rule
<1>6. CASE snap.rule.mode = "once"
  <2>1. Advanced(skipped, snap.next) = [next |-> NoTime, enabled |-> FALSE]
    BY <1>2, <1>3, <1>6 DEF Advanced, Recurring
  <2>2. upd = [enabled |-> FALSE, next |-> NoTime, rule |-> rule, slot |-> NoTime]
    BY <1>1, <1>2, <1>4, <2>1, SetsNext, Zenon
  <2>3. upd \in Updates
    BY <1>1, <1>2, <2>2, UpdatesAre, Zenon
  <2>4. \A rec \in Rows :
          LET new == Over(upd, rec)
          IN  new \in Rows /\ new.rule = rule /\ new.slot = new.next /\ new.next = NoTime
    BY <2>2, <2>3, Overlaid
  <2> QED  BY <1>2, <1>6, <2>3, <2>4 DEF upd, rule, Recurring
<1>7. CASE snap.rule.mode = "always_on"
  <2>1. Advanced(skipped, snap.next) = [next |-> NoTime]
    BY <1>2, <1>3, <1>7 DEF Advanced, Recurring
  <2>2. upd = [next |-> NoTime, rule |-> rule, slot |-> NoTime]
    BY <1>1, <1>2, <1>4, <2>1, SetsNext, Zenon
  <2>3. upd \in Updates
    BY <1>1, <1>2, <2>2, UpdatesAre, Zenon
  <2>4. \A rec \in Rows :
          LET new == Over(upd, rec)
          IN  new \in Rows /\ new.rule = rule /\ new.slot = new.next /\ new.next = NoTime
    BY <2>2, <2>3, Overlaid
  <2> QED  BY <1>2, <1>7, <2>3, <2>4 DEF upd, rule, Recurring
<1> QED  BY <1>1, <1>5, <1>6, <1>7 DEF Rule

\* A run that is put off still waits for its occurrence.
LEMMA PutOffIs ==
  ASSUME NEW t \in 0..MaxTime, NEW slot \in 0..t
  PROVE  LET upd == [next |-> t + Delay, slot |-> slot]
         IN  /\ upd \in Updates
             /\ \A rec \in Rows :
                  LET new == Over(upd, rec)
                  IN  /\ new \in Rows /\ new.rule = rec.rule
                      /\ new.next = t + Delay /\ new.slot = slot
<1>1. MaxTime \in Nat /\ Delay \in Nat \ {0}
  BY ScheduleRunnerAssumption
<1>2. /\ t + Delay \in Nat /\ t + Delay <= MaxTime + Delay
      /\ slot \in Nat /\ slot <= MaxTime + Delay /\ slot <= t + Delay
  BY <1>1, SMT
<1>3. t + Delay \in Times /\ slot \in Times /\ t + Delay # NoTime /\ slot # NoTime
  BY <1>2, WithinBounds DEF Times, NoTime
<1>4. [next |-> t + Delay, slot |-> slot] \in Updates
  BY <1>2, <1>3 DEF Updates, Paired
<1> QED  BY <1>4, Overlaid

\* The row after a request that counts the next run from now.
LEMMA FromNowIs ==
  ASSUME NEW rule \in Rule, NEW phase \in Times, now \in Instants
  PROVE  LET upd == NextFromNow(rule, phase)
         IN  /\ upd \in Updates /\ upd.slot = NextRunAt(rule, now, NoTime, phase)
             /\ \A rec \in Rows :
                  LET new == Over(upd, rec)
                  IN  /\ new \in Rows /\ new.rule = rule /\ new.slot = new.next
                      /\ new.next = NextRunAt(rule, now, NoTime, phase)
<1> DEFINE next == NextRunAt(rule, now, NoTime, phase)
           upd == NextFromNow(rule, phase)
<1>1. NoTime \in Times /\ TRUE \in BOOLEAN
  BY DEF Times
<1>2. next \in Times /\ next <= next
  BY <1>1, NextIsTime, TimesOrder
<1>3. upd = Sets([rule |-> rule, next |-> next])
  BY DEF NextFromNow
<1> HIDE DEF next, upd
<1>4. upd = [next |-> next, rule |-> rule, slot |-> next]
  BY <1>1, <1>2, <1>3, SetsNext, Zenon
<1>5. upd \in Updates
  BY <1>1, <1>2, <1>4, UpdatesAre, Zenon
<1>6. \A rec \in Rows :
        LET new == Over(upd, rec)
        IN  new \in Rows /\ new.rule = rule /\ new.slot = new.next /\ new.next = next
  BY <1>4, <1>5, Overlaid
<1>7. upd.slot = next
  BY <1>4
<1> QED  BY <1>5, <1>6, <1>7 DEF upd, next

LEMMA ToggleIs ==
  ASSUME NEW enabled \in BOOLEAN
  PROVE  LET upd == [enabled |-> enabled]
         IN  /\ upd \in Updates
             /\ \A rec \in Rows :
                  LET new == Over(upd, rec)
                  IN  /\ new \in Rows /\ new.rule = rec.rule
                      /\ new.next = rec.next /\ new.slot = rec.slot
<1>1. [enabled |-> enabled] \in Updates
  BY DEF Updates
<1> QED  BY <1>1, Overlaid

LEMMA PhaseIsTime ==
  ASSUME NEW rec \in Rows, NEW date \in Dates
  PROVE  Phase(rec, date) \in Times /\ Phase(rec, date) # NoTime
  BY RunDate, RowFields DEF Phase, Times

LEMMA MovedRule ==
  ASSUME NEW rule \in Rule, NEW start \in Buffered
  PROVE  /\ [rule EXCEPT !.at = start] \in Rule
         /\ [rule EXCEPT !.at = start].mode = rule.mode
  BY DEF Rule

LEMMA AskedIs ==
  ASSUME NEW kind, NEW before \in Rows, NEW upd, now \in Instants, Asks(kind, before, upd)
  PROVE  upd \in Updates
<1>1. before.rule \in Rule /\ before.enabled \in BOOLEAN /\ NoTime \in Times
  BY RowFields DEF Times
<1>2. CASE kind = "toggle" /\ upd = [enabled |-> ~before.enabled]
  <2>1. (~before.enabled) \in BOOLEAN
    BY <1>1
  <2> QED  BY <1>2, <2>1, ToggleIs, Zenon
<1>3. CASE kind = "skip" /\ before.next # NoTime /\ upd = Sets(Skipping(before))
  BY <1>3, SkipIs, Zenon
<1>4. ASSUME NEW rule \in Rules, upd = NextFromNow(rule, NoTime)
      PROVE  upd \in Updates
  <2>1. rule \in Rule
    BY ScheduleRunnerAssumption
  <2> QED  BY <1>1, <1>4, <2>1, FromNowIs, Zenon
<1>5. ASSUME NEW start \in Starts, upd = NextFromNow([before.rule EXCEPT !.at = start], NoTime)
      PROVE  upd \in Updates
  <2>1. start \in Buffered
    BY ScheduleRunnerAssumption
  <2> QED  BY <1>1, <1>5, <2>1, MovedRule, FromNowIs, Zenon
<1>6. ASSUME NEW date \in Dates,
             upd = NextFromNow(WithSkip(before.rule, date), Phase(before, date))
      PROVE  upd \in Updates
  BY <1>1, <1>6, SkippedRule, PhaseIsTime, FromNowIs, Zenon
<1> QED  BY <1>2, <1>3, <1>4, <1>5, <1>6 DEF Asks

-----------------------------------------------------------------------------
(* Rows, passes and requests keep their shape *)

Shapes == Types /\ Passing /\ Asking

\* What does not touch the pass, or the request, leaves it as it was.
LEMMA PassKept ==
  ASSUME Passing, UNCHANGED <<now, runner>>, cut \subseteq cut'
  PROVE  Passing'
  BY DEF Passing, Notes, Skips, PutsOff, Busy, IsDue

LEMMA RequestKept ==
  ASSUME Asking, UNCHANGED <<now, req>>
  PROVE  Asking'
  BY DEF Asking, Asks, NextFromNow, Phase

\* A write puts a row in the place of the one it names.
LEMMA StoredRow ==
  ASSUME Types, NEW s \in Schedule, NEW upd \in Updates, NEW read \in Rows, NEW seen,
         Store(s, upd, read, seen)
  PROVE  /\ table' \in [Schedule -> Rows \cup {NoRow}]
         /\ table'[s] = Over(upd, read) /\ table'[s] \in Rows
         /\ \A r \in Schedule \ {s} : table'[r] = table[r]
         /\ stale' \subseteq Schedule /\ stale \subseteq stale'
         /\ slipped' \subseteq Schedule /\ slipped \subseteq slipped'
         /\ s \notin stale' => table[s] = seen /\ read = seen
         /\ Strayed(table'[s]) => s \in slipped'
         /\ \A r \in Schedule \ {s} : r \in stale' <=> r \in stale
         /\ \A r \in Schedule \ {s} : r \in slipped' <=> r \in slipped
<1>1. Over(upd, read) \in Rows
  BY Overlaid
<1>2. table' = [table EXCEPT ![s] = Over(upd, read)] /\ table \in [Schedule -> Rows \cup {NoRow}]
  BY DEF Store, Types
<1>3. /\ table' \in [Schedule -> Rows \cup {NoRow}]
      /\ table'[s] = Over(upd, read) /\ table'[s] \in Rows
      /\ \A r \in Schedule \ {s} : table'[r] = table[r]
  BY <1>1, <1>2
<1>4. /\ stale' = IF table[s] = read /\ read = seen THEN stale ELSE stale \cup {s}
      /\ slipped' = IF Strayed(Over(upd, read)) THEN slipped \cup {s} ELSE slipped
      /\ stale \subseteq Schedule /\ slipped \subseteq Schedule
  BY DEF Store, Types
<1> QED  BY <1>3, <1>4

\* Nothing is under way at first.
LEMMA ShapesInit == Init => Shapes
<1> SUFFICES ASSUME Init PROVE Shapes
  OBVIOUS
<1>1. /\ MaxTime \in Nat /\ MaxEdits \in Nat /\ MaxFaults \in Nat /\ Rules \subseteq Rule
      /\ Delay \in Nat
  BY ScheduleRunnerAssumption
<1>2. 0 \in Instants /\ NoTime \in Times
  BY <1>1, WithinBounds DEF Times
<1>3. table \in [Schedule -> Rows \cup {NoRow}]
  <2>1. PICK rule \in Rules :
          table = [s \in Schedule |->
                     IF s = First THEN NewRow(rule, NextRunAt(rule, 0, NoTime, NoTime)) ELSE NoRow]
    BY DEF Init
  <2>2. NextRunAt(rule, 0, NoTime, NoTime) \in Times /\ rule \in Rule
    BY <1>1, <1>2, NextIsTime
  <2>3. NewRow(rule, NextRunAt(rule, 0, NoTime, NoTime)) \in Rows
    <3> DEFINE next == NextRunAt(rule, 0, NoTime, NoTime)
    <3> HIDE DEF next
    <3>1. NewRow(rule, next) \in Rows
      BY <2>2, TimesOrder DEF NewRow, Row, Rows, Paired, next
    <3> QED  BY <3>1 DEF next
  <2> QED  BY <2>1, <2>3
<1>4. Types
  BY <1>1, <1>3 DEF Init, Types, Passes, Requests, Idle, Quiet
<1>5. Passing
  BY DEF Init, Passing, Idle, Busy
<1>6. Asking
  BY DEF Init, Asking, Quiet
<1> QED  BY <1>4, <1>5, <1>6 DEF Shapes

LEMMA InBounds ==
  ASSUME Types
  PROVE  /\ now \in Instants /\ now \in Nat /\ now \in 0..MaxTime /\ now <= MaxTime
         /\ MaxTime \in Nat /\ MaxEdits \in Nat /\ MaxFaults \in Nat /\ Delay \in Nat \ {0}
         /\ \A s \in Schedule : Present(s) <=> table[s] \in Rows
<1>1. MaxTime \in Nat /\ MaxEdits \in Nat /\ MaxFaults \in Nat /\ Delay \in Nat \ {0}
  BY ScheduleRunnerAssumption
<1>2. now \in 0..MaxTime /\ table \in [Schedule -> Rows \cup {NoRow}]
  BY DEF Types
<1>3. now \in Nat /\ now <= MaxTime + Delay /\ now <= MaxTime
  BY <1>1, <1>2, SMT
<1>4. NoRow \notin Rows
  BY ScheduleRunnerAssumption DEF Rows
<1> QED  BY <1>1, <1>2, <1>3, <1>4, WithinBounds DEF Present

LEMMA DueIs ==
  ASSUME Types, NEW rec \in Rows, IsDue(rec, now)
  PROVE  /\ rec.next \in 0..now /\ rec.slot \in 0..now /\ rec.slot <= rec.next
         /\ rec.next # NoTime /\ rec.next \in Instants
<1>1. rec.next # NoTime /\ rec.next <= now /\ now \in Nat
  BY InBounds DEF IsDue
<1> QED  BY <1>1, RowFields, SMT

LEMMA IdleIs ==
  Idle \in Passes /\ Quiet \in Requests
<1>1. 0 \in 0..MaxTime
  BY ScheduleRunnerAssumption
<1> QED  BY <1>1 DEF Idle, Quiet, Passes, Requests

LEMMA TickShapes ==
  ASSUME Shapes, Tick
  PROVE  Shapes'
<1>1. Types /\ Passing /\ Asking
  BY DEF Shapes
<1>2. now' = now + 1 /\ now < MaxTime /\ now \in 0..MaxTime /\ MaxTime \in Nat
  BY <1>1, InBounds DEF Tick
<1>3. runner = Idle /\ req = Quiet /\ UNCHANGED <<table, runner, req, edits, faults, history>>
  BY <1>1 DEF Tick, Passing, Asking
<1>4. now' \in 0..MaxTime
  BY <1>2
<1>5. Types'
  BY <1>1, <1>3, <1>4 DEF Types, history
<1>6. Passing'
  BY <1>3 DEF Passing, Idle, Busy
<1>7. Asking'
  BY <1>3 DEF Asking, Quiet
<1> QED  BY <1>5, <1>6, <1>7 DEF Shapes

LEMMA BeginPassShapes ==
  ASSUME Shapes, BeginPass
  PROVE  Shapes'
<1> DEFINE due == {s \in Schedule : Present(s) /\ IsDue(table[s], now)}
           todo == {<<s, table[s]>> : s \in due}
<1>1. Types /\ Passing /\ Asking
  BY DEF Shapes
<1>2. /\ runner' = [Idle EXCEPT !.pc = "next", !.at = now, !.todo = todo]
      /\ UNCHANGED <<now, table, req, edits, faults, history>>
  BY DEF BeginPass
<1>3. todo \in SUBSET (Schedule \X Rows) /\ now \in 0..MaxTime
  BY <1>1, InBounds
<1>4. /\ \A e \in todo : IsDue(e[2], now)
      /\ \A e, f \in todo : e[1] = f[1] => e = f
  OBVIOUS
<1> HIDE DEF todo
<1>5. Types'
  BY <1>1, <1>2, <1>3 DEF Types, Passes, history, Idle
<1>6. Passing'
  BY <1>2, <1>4 DEF Passing, Idle, Busy
<1>7. Asking'
  BY <1>1, <1>2, RequestKept
<1> QED  BY <1>5, <1>6, <1>7 DEF Shapes

LEMMA ConsiderShapes ==
  ASSUME Shapes, Consider
  PROVE  Shapes'
<1>1. Types /\ Passing /\ Asking
  BY DEF Shapes
<1>2. /\ runner.pc = "next" /\ UNCHANGED <<now, table, req, edits, faults, history>>
  BY DEF Consider
<1>3. PICK entry \in runner.todo :
        LET snap == entry[2]
            taken == [runner EXCEPT !.todo = @ \ {entry}, !.id = entry[1], !.snap = snap]
        IN  runner' = IF IsSkipped(snap)
                      THEN [taken EXCEPT !.pc = "read", !.upd = Sets(Skipping(snap))]
                      ELSE [taken EXCEPT !.pc = "queue"]
  BY DEF Consider
<1>4. /\ entry[1] \in Schedule /\ entry[2] \in Rows /\ IsDue(entry[2], now)
      /\ ~runner.queued /\ runner.at = now
      /\ runner.todo \ {entry} \in SUBSET (Schedule \X Rows)
      /\ \A e \in runner.todo \ {entry} : e[1] # entry[1]
  BY <1>1, <1>2 DEF Passing, Types, Passes
<1>5. Sets(Skipping(entry[2])) \in Updates
  BY <1>1, <1>4, SkipIs, DueIs
<1>6. Types'
  <2>1. runner' \in Passes
    BY <1>1, <1>3, <1>4, <1>5 DEF Types, Passes
  <2> QED  BY <1>1, <1>2, <2>1 DEF Types, history
<1>7. /\ runner'.at = now /\ runner'.id = entry[1] /\ runner'.snap = entry[2]
      /\ runner'.todo = runner.todo \ {entry} /\ ~runner'.queued
      /\ \/ runner'.pc = "queue"
         \/ runner'.pc = "read" /\ runner'.upd = Sets(Skipping(entry[2]))
  BY <1>1, <1>3, <1>4 DEF Types, Passes
<1>8. Passing'
  BY <1>1, <1>2, <1>4, <1>5, <1>7 DEF Passing, Busy, Notes, Skips, PutsOff, IsDue
<1>9. Asking'
  BY <1>1, <1>2, RequestKept
<1> QED  BY <1>6, <1>8, <1>9 DEF Shapes

LEMMA EndPassShapes ==
  ASSUME Shapes, EndPass
  PROVE  Shapes'
<1>1. Types /\ Passing /\ Asking
  BY DEF Shapes
<1>2. runner' = Idle /\ UNCHANGED <<now, table, req, edits, faults, history>>
  BY DEF EndPass
<1>3. Types'
  BY <1>1, <1>2, IdleIs DEF Types, history
<1>4. Passing'
  BY <1>2 DEF Passing, Idle, Busy
<1>5. Asking'
  BY <1>1, <1>2, RequestKept
<1> QED  BY <1>3, <1>4, <1>5 DEF Shapes

LEMMA QueuedShapes ==
  ASSUME Shapes, Queued
  PROVE  Shapes'
<1>1. Types /\ Passing /\ Asking
  BY DEF Shapes
<1>2. /\ runner.pc = "queue" /\ UNCHANGED <<now, table, req, edits, faults, cut, stale, slipped>>
      /\ runner' = [runner EXCEPT !.pc = "read", !.queued = TRUE,
                              !.upd = Sets(Advanced(runner.snap, runner.at))]
      /\ runs' = [runs EXCEPT ![runner.id] = @ \cup {runner.snap.slot}]
      /\ again' = IF runner.snap.slot \in runs[runner.id] THEN again \cup {runner.id} ELSE again
  BY DEF Queued
<1>3. /\ runner.id \in Schedule /\ runner.snap \in Rows /\ IsDue(runner.snap, now)
      /\ runner.at = now
  BY <1>1, <1>2 DEF Passing, Busy
<1>4. runner.snap.slot \in Times /\ runner.snap.next # NoTime
  BY <1>1, <1>3, DueIs, RowFields
<1>5. Sets(Advanced(runner.snap, now)) \in Updates
  BY <1>1, <1>3, <1>4, AdvanceIs, InBounds
<1>6. Types'
  <2>1. runner' \in Passes
    BY <1>1, <1>2, <1>3, <1>5 DEF Types, Passes
  <2> QED  BY <1>1, <1>2, <1>3, <1>4, <2>1 DEF Types
<1>7. /\ runner'.at = now /\ runner'.id = runner.id /\ runner'.snap = runner.snap
      /\ runner'.todo = runner.todo /\ runner'.queued /\ runner'.pc = "read"
      /\ runner'.upd = Sets(Advanced(runner.snap, now))
  BY <1>1, <1>2, <1>3 DEF Types, Passes
<1>8. Passing'
  BY <1>1, <1>2, <1>3, <1>5, <1>7 DEF Passing, Busy, Notes, Skips, PutsOff, IsDue
<1>9. Asking'
  BY <1>1, <1>2, RequestKept
<1> QED  BY <1>6, <1>8, <1>9 DEF Shapes

\* A pass that goes on with an update put off.
LEMMA RetryingIs ==
  ASSUME Types, Passing, runner.pc \in {"queue", "read", "write"}
  PROVE  /\ IsDue(runner.snap, now) =>
              /\ Retrying.upd = [next |-> now + Delay, slot |-> runner.snap.slot]
              /\ runner.snap.slot \in 0..now /\ Retrying \in Passes /\ Retrying.upd \in Updates
         /\ Retrying.pc = "read" /\ ~Retrying.queued /\ Retrying.id = runner.id
         /\ Retrying.todo = runner.todo /\ Retrying.at = now /\ Retrying.snap = runner.snap
<1>1. /\ runner.id \in Schedule /\ runner.snap \in Rows /\ runner.at = now
      /\ runner \in Passes /\ now \in 0..MaxTime
  BY DEF Passing, Busy, Types
<1>2. Retrying = [runner EXCEPT !.pc = "read", !.queued = FALSE,
                    !.upd = [next |-> now + Delay, slot |-> runner.snap.slot]]
  BY <1>1 DEF Retrying
<1>3. /\ Retrying.upd = [next |-> now + Delay, slot |-> runner.snap.slot]
      /\ Retrying.pc = "read" /\ ~Retrying.queued /\ Retrying.id = runner.id
      /\ Retrying.todo = runner.todo /\ Retrying.at = now /\ Retrying.snap = runner.snap
  BY <1>1, <1>2 DEF Passes
<1>4. ASSUME IsDue(runner.snap, now)
      PROVE  /\ runner.snap.slot \in 0..now /\ Retrying \in Passes /\ Retrying.upd \in Updates
  <2>1. runner.snap.slot \in 0..now
    BY <1>1, <1>4, DueIs
  <2>2. Retrying.upd \in Updates
    BY <1>1, <1>3, <2>1, PutOffIs
  <2> QED  BY <1>1, <1>2, <1>3, <2>1, <2>2 DEF Passes
<1> QED  BY <1>3, <1>4

LEMMA DeferredShapes ==
  ASSUME Shapes, Deferred
  PROVE  Shapes'
<1>1. Types /\ Passing /\ Asking
  BY DEF Shapes
<1>2. /\ runner.pc = "queue" /\ runner' = Retrying /\ faults' = faults + 1 /\ faults < MaxFaults
      /\ UNCHANGED <<now, table, req, edits, history>>
  BY DEF Deferred, Fault
<1>3. /\ runner.id \in Schedule /\ runner.snap \in Rows /\ IsDue(runner.snap, now)
      /\ \A e \in runner.todo : e[1] # runner.id
  BY <1>1, <1>2 DEF Passing, Busy
<1>4. /\ runner'.upd = [next |-> now + Delay, slot |-> runner.snap.slot]
      /\ runner.snap.slot \in 0..now /\ runner' \in Passes /\ runner'.upd \in Updates
      /\ runner'.pc = "read" /\ ~runner'.queued /\ runner'.id = runner.id
      /\ runner'.todo = runner.todo /\ runner'.at = now /\ runner'.snap = runner.snap
  BY <1>1, <1>2, <1>3, RetryingIs
<1>5. faults' \in 0..MaxFaults
  BY <1>1, <1>2, InBounds DEF Types
<1>6. Types'
  BY <1>1, <1>2, <1>4, <1>5 DEF Types, history
<1>7. runner'.upd.slot = runner.snap.slot
  BY <1>4
<1>8. Passing'
  BY <1>1, <1>2, <1>3, <1>4, <1>7 DEF Passing, Busy, Notes, Skips, PutsOff, IsDue
<1>9. Asking'
  BY <1>1, <1>2, RequestKept
<1> QED  BY <1>6, <1>8, <1>9 DEF Shapes

LEMMA UpdateReadShapes ==
  ASSUME Shapes, UpdateRead
  PROVE  Shapes'
<1>1. Types /\ Passing /\ Asking
  BY DEF Shapes
<1>2. runner.pc = "read" /\ UNCHANGED <<now, table, req, edits, faults, history>>
  BY DEF UpdateRead
<1>3. /\ runner.id \in Schedule /\ runner \in Passes /\ runner.snap \in Rows /\ runner.at = now
      /\ runner.upd \in Updates /\ (Notes \/ Skips \/ PutsOff)
  BY <1>1, <1>2 DEF Passing, Busy, Types
<1>4. Asking'
  BY <1>1, <1>2, RequestKept
<1>5. CASE Present(runner.id)
  <2>1. runner' = [runner EXCEPT !.pc = "write", !.row = table[runner.id]]
    BY <1>5 DEF UpdateRead
  <2>2. table[runner.id] \in Rows
    BY <1>1, <1>3, <1>5, InBounds
  <2>3. runner' \in Passes
    BY <1>3, <2>1, <2>2 DEF Passes
  <2>4. /\ runner'.pc = "write" /\ runner'.row \in Rows /\ runner'.queued = runner.queued
        /\ runner'.id = runner.id /\ runner'.todo = runner.todo /\ runner'.at = now
        /\ runner'.snap = runner.snap /\ runner'.upd = runner.upd
    BY <1>3, <2>1, <2>2 DEF Passes
  <2>5. Types'
    BY <1>1, <1>2, <2>3 DEF Types, history
  <2>6. Passing'
    BY <1>1, <1>2, <1>3, <2>4 DEF Passing, Busy, Notes, Skips, PutsOff, IsDue, history
  <2> QED  BY <1>4, <2>5, <2>6 DEF Shapes
<1>6. CASE ~Present(runner.id)
  <2>1. runner' = [runner EXCEPT !.pc = "next", !.queued = FALSE]
    BY <1>6 DEF UpdateRead
  <2>2. runner' \in Passes
    BY <1>3, <2>1 DEF Passes
  <2>3. /\ runner'.pc = "next" /\ ~runner'.queued
        /\ runner'.todo = runner.todo /\ runner'.at = now
    BY <1>3, <2>1 DEF Passes
  <2>4. Types'
    BY <1>1, <1>2, <2>2 DEF Types, history
  <2>5. Passing'
    BY <1>1, <1>2, <2>3 DEF Passing, Busy, IsDue
  <2> QED  BY <1>4, <2>4, <2>5 DEF Shapes
<1> QED  BY <1>5, <1>6

LEMMA UpdateWriteShapes ==
  ASSUME Shapes, UpdateWrite
  PROVE  Shapes'
<1>1. Types /\ Passing /\ Asking
  BY DEF Shapes
<1>2. /\ runner.pc = "write" /\ Store(runner.id, runner.upd, runner.row, runner.snap)
      /\ runner' = [runner EXCEPT !.pc = "next", !.queued = FALSE]
      /\ UNCHANGED <<now, req, edits, faults, runs, again, cut>>
  BY DEF UpdateWrite
<1>3. /\ runner.id \in Schedule /\ runner \in Passes /\ runner.at = now
      /\ runner.upd \in Updates /\ runner.row \in Rows
  BY <1>1, <1>2 DEF Passing, Busy, Types
<1>4. /\ table' \in [Schedule -> Rows \cup {NoRow}]
      /\ stale' \subseteq Schedule /\ slipped' \subseteq Schedule
  BY <1>1, <1>2, <1>3, StoredRow
<1>5. /\ runner' \in Passes /\ runner'.pc = "next" /\ ~runner'.queued
      /\ runner'.todo = runner.todo /\ runner'.at = now
  BY <1>2, <1>3 DEF Passes
<1>6. Types'
  BY <1>1, <1>2, <1>4, <1>5 DEF Types
<1>7. Passing'
  BY <1>1, <1>2, <1>5 DEF Passing, Busy, IsDue
<1>8. Asking'
  BY <1>1, <1>2, RequestKept
<1> QED  BY <1>6, <1>7, <1>8 DEF Shapes

LEMMA CutOffIs ==
  ASSUME Types, Passing, CutOff
  PROVE  cut' \subseteq Schedule /\ cut \subseteq cut' /\ (runner.queued => runner.id \in cut')
  BY DEF Types, CutOff, Passing, Busy

LEMMA UpdateFailsShapes ==
  ASSUME Shapes, UpdateFails
  PROVE  Shapes'
<1>1. Types /\ Passing /\ Asking
  BY DEF Shapes
<1>2. /\ runner.pc \in {"read", "write"} /\ CutOff /\ faults' = faults + 1 /\ faults < MaxFaults
      /\ runner' = IF runner.queued THEN Retrying ELSE Idle
      /\ UNCHANGED <<now, table, req, edits, runs, again, stale, slipped>>
  BY DEF UpdateFails, Fault
<1>3. /\ cut' \subseteq Schedule /\ cut \subseteq cut' /\ (runner.queued => runner.id \in cut')
      /\ faults' \in 0..MaxFaults
  BY <1>1, <1>2, CutOffIs, InBounds DEF Types
<1>4. Asking'
  BY <1>1, <1>2, RequestKept
<1>5. CASE runner.queued
  <2>1. /\ runner.id \in Schedule /\ runner.snap \in Rows /\ IsDue(runner.snap, now)
        /\ \A e \in runner.todo : e[1] # runner.id
    BY <1>1, <1>2, <1>5 DEF Passing, Busy, Notes, Skips, PutsOff
  <2>2. /\ runner'.upd = [next |-> now + Delay, slot |-> runner.snap.slot]
        /\ runner.snap.slot \in 0..now /\ runner' \in Passes /\ runner'.upd \in Updates
        /\ runner'.pc = "read" /\ ~runner'.queued /\ runner'.id = runner.id
        /\ runner'.todo = runner.todo /\ runner'.at = now /\ runner'.snap = runner.snap
    BY <1>1, <1>2, <1>5, <2>1, RetryingIs
  <2>3. Types'
    BY <1>1, <1>2, <1>3, <2>2 DEF Types
  <2>4. runner'.upd.slot = runner.snap.slot
    BY <2>2
  <2>5. Passing'
    BY <1>1, <1>2, <2>1, <2>2, <2>4 DEF Passing, Busy, Notes, Skips, PutsOff, IsDue
  <2> QED  BY <1>4, <2>3, <2>5 DEF Shapes
<1>6. CASE ~runner.queued
  <2>1. runner' = Idle
    BY <1>2, <1>6
  <2>2. Types'
    BY <1>1, <1>2, <1>3, <2>1, IdleIs DEF Types
  <2>3. Passing'
    BY <2>1 DEF Passing, Idle, Busy
  <2> QED  BY <1>4, <2>2, <2>3 DEF Shapes
<1> QED  BY <1>5, <1>6

LEMMA AuditFailsShapes ==
  ASSUME Shapes, AuditFails
  PROVE  Shapes'
<1>1. Types /\ Passing /\ Asking
  BY DEF Shapes
<1>2. /\ runner.pc = "write" /\ runner.queued /\ CutOff /\ faults' = faults + 1
      /\ faults < MaxFaults /\ Store(runner.id, runner.upd, runner.row, runner.snap)
      /\ runner' = [Retrying EXCEPT !.snap = Over(runner.upd, runner.row)]
      /\ UNCHANGED <<now, req, edits, runs, again>>
  BY DEF AuditFails, Fault
<1>3. /\ runner.id \in Schedule /\ runner.snap \in Rows /\ IsDue(runner.snap, now)
      /\ runner.upd \in Updates /\ runner.row \in Rows
      /\ \A e \in runner.todo : e[1] # runner.id
  BY <1>1, <1>2 DEF Passing, Busy, Notes, Skips, PutsOff
<1>4. /\ cut' \subseteq Schedule /\ runner.id \in cut' /\ faults' \in 0..MaxFaults
      /\ Over(runner.upd, runner.row) \in Rows
  BY <1>1, <1>2, <1>3, CutOffIs, InBounds, Overlaid DEF Types
<1>5. /\ Retrying.upd = [next |-> now + Delay, slot |-> runner.snap.slot]
      /\ runner.snap.slot \in 0..now /\ Retrying \in Passes /\ Retrying.upd \in Updates
      /\ Retrying.pc = "read" /\ ~Retrying.queued /\ Retrying.id = runner.id
      /\ Retrying.todo = runner.todo /\ Retrying.at = now
  BY <1>1, <1>2, <1>3, RetryingIs
<1>6. /\ runner'.upd = [next |-> now + Delay, slot |-> runner.snap.slot]
      /\ runner' \in Passes /\ runner'.upd \in Updates
      /\ runner'.pc = "read" /\ ~runner'.queued /\ runner'.id = runner.id
      /\ runner'.todo = runner.todo /\ runner'.at = now
      /\ runner'.snap = Over(runner.upd, runner.row)
  BY <1>2, <1>4, <1>5 DEF Passes
<1>7. /\ table' \in [Schedule -> Rows \cup {NoRow}]
      /\ stale' \subseteq Schedule /\ slipped' \subseteq Schedule
  BY <1>1, <1>2, <1>3, StoredRow
<1>8. Types'
  BY <1>1, <1>2, <1>4, <1>6, <1>7 DEF Types
<1>9. runner'.upd.slot = runner.snap.slot /\ now' = now
  BY <1>2, <1>6
<1>10. PutsOff'
  BY <1>4, <1>5, <1>6, <1>9 DEF PutsOff
<1>11. Passing'
  BY <1>1, <1>3, <1>4, <1>6, <1>9, <1>10 DEF Passing, Busy, IsDue
<1>12. Asking'
  BY <1>1, <1>2, RequestKept
<1> QED  BY <1>8, <1>11, <1>12 DEF Shapes

LEMMA RestartShapes ==
  ASSUME Shapes, Restart
  PROVE  Shapes'
<1>1. Types /\ Passing /\ Asking
  BY DEF Shapes
<1>2. /\ CutOff /\ faults' = faults + 1 /\ faults < MaxFaults /\ runner' = Idle /\ req' = Quiet
      /\ UNCHANGED <<now, table, edits, runs, again, stale, slipped>>
  BY DEF Restart, Fault
<1>3. cut' \subseteq Schedule /\ faults' \in 0..MaxFaults
  BY <1>1, <1>2, CutOffIs, InBounds DEF Types
<1>4. Types'
  BY <1>1, <1>2, <1>3, IdleIs DEF Types
<1>5. Passing'
  BY <1>2 DEF Passing, Idle, Busy
<1>6. Asking'
  BY <1>2 DEF Asking, Quiet
<1> QED  BY <1>4, <1>5, <1>6 DEF Shapes

LEMMA RequestReadShapes ==
  ASSUME Shapes, RequestRead
  PROVE  Shapes'
<1>1. Types /\ Passing /\ Asking
  BY DEF Shapes
<1>2. /\ req.pc \in {"read", "rollbackRead"}
      /\ UNCHANGED <<now, table, runner, edits, faults, history>>
  BY DEF RequestRead
<1>3. /\ req.id \in Schedule /\ req.before \in Rows /\ req.upd \in Updates
      /\ Asks(req.kind, req.before, req.upd) /\ req \in Requests
  BY <1>1, <1>2 DEF Asking, Types
<1>4. Passing'
  BY <1>1, <1>2, PassKept DEF history
<1>5. CASE Present(req.id)
  <2>1. req' = [req EXCEPT !.pc = IF @ = "read" THEN "write" ELSE "rollbackWrite",
                           !.row = table[req.id]]
    BY <1>5 DEF RequestRead
  <2>2. table[req.id] \in Rows
    BY <1>1, <1>3, <1>5, InBounds
  <2>3. /\ req' \in Requests /\ req'.id = req.id /\ req'.before = req.before
        /\ req'.upd = req.upd /\ req'.kind = req.kind /\ req'.clone = req.clone
        /\ req'.row \in Rows
        /\ req'.pc = IF req.pc = "read" THEN "write" ELSE "rollbackWrite"
    BY <1>2, <1>3, <2>1, <2>2 DEF Requests
  <2>4. Types'
    BY <1>1, <1>2, <2>3 DEF Types, history
  <2>5. Asks(req.kind, req.before, req.upd)'
    BY <1>2, <1>3, <2>3 DEF Asks, NextFromNow, Phase
  <2>6. Asking'
    BY <1>1, <1>2, <1>3, <2>3, <2>5 DEF Asking
  <2> QED  BY <1>4, <2>4, <2>6 DEF Shapes
<1>6. CASE ~Present(req.id)
  <2>1. req' = Quiet
    BY <1>6 DEF RequestRead
  <2>2. Types'
    BY <1>1, <1>2, <2>1, IdleIs DEF Types, history
  <2>3. Asking'
    BY <2>1 DEF Asking, Quiet
  <2> QED  BY <1>4, <2>2, <2>3 DEF Shapes
<1> QED  BY <1>5, <1>6

LEMMA RequestWriteShapes ==
  ASSUME Shapes, RequestWrite
  PROVE  Shapes'
<1>1. Types /\ Passing /\ Asking
  BY DEF Shapes
<1>2. /\ req.pc = "write" /\ Store(req.id, req.upd, req.row, req.before)
      /\ req' = IF req.kind = "move" THEN [req EXCEPT !.pc = "create"] ELSE Quiet
      /\ runs' = IF req.kind = "moveOnce"
                 THEN [runs EXCEPT ![req.id] = @ \ {req.upd.slot}] ELSE runs
      /\ UNCHANGED <<now, runner, edits, faults, again, cut>>
  BY DEF RequestWrite
<1>3. /\ req.id \in Schedule /\ req.before \in Rows /\ req.upd \in Updates /\ req.row \in Rows
      /\ Asks(req.kind, req.before, req.upd) /\ req \in Requests
  BY <1>1, <1>2 DEF Asking, Types
<1>4. /\ table' \in [Schedule -> Rows \cup {NoRow}]
      /\ stale' \subseteq Schedule /\ slipped' \subseteq Schedule
  BY <1>1, <1>2, <1>3, StoredRow
<1>5. runs' \in [Schedule -> SUBSET Times]
  BY <1>1, <1>2, <1>3 DEF Types
<1>6. Passing'
  BY <1>1, <1>2, PassKept
<1>7. CASE req.kind = "move"
  <2>1. req' = [req EXCEPT !.pc = "create"]
    BY <1>2, <1>7
  <2>2. /\ req' \in Requests /\ req'.id = req.id /\ req'.before = req.before
        /\ req'.upd = req.upd /\ req'.kind = req.kind /\ req'.clone = req.clone
        /\ req'.pc = "create"
    BY <1>3, <2>1 DEF Requests
  <2>3. Types'
    BY <1>1, <1>2, <1>4, <1>5, <2>2 DEF Types
  <2>4. Asks(req.kind, req.before, req.upd)'
    BY <1>2, <1>3, <2>2 DEF Asks, NextFromNow, Phase
  <2>5. Asking'
    BY <1>1, <1>2, <1>3, <1>7, <2>2, <2>4 DEF Asking
  <2> QED  BY <1>6, <2>3, <2>5 DEF Shapes
<1>8. CASE req.kind # "move"
  <2>1. req' = Quiet
    BY <1>2, <1>8
  <2>2. Types'
    BY <1>1, <1>2, <1>4, <1>5, <2>1, IdleIs DEF Types
  <2>3. Asking'
    BY <2>1 DEF Asking, Quiet
  <2> QED  BY <1>6, <2>2, <2>3 DEF Shapes
<1> QED  BY <1>7, <1>8

LEMMA CreateShapes ==
  ASSUME Shapes, NEW s \in Schedule, Create(s)
  PROVE  Shapes'
<1>1. Types /\ Passing /\ Asking
  BY DEF Shapes
<1>2. /\ req.pc = "create" /\ table' = [table EXCEPT ![s] = req.clone] /\ req' = Quiet
      /\ UNCHANGED <<now, runner, edits, faults, again, cut, stale, slipped>>
      /\ runs' = [runs EXCEPT ![s] = {}]
  BY DEF Create
<1>3. req.clone \in Rows
  BY <1>1, <1>2 DEF Asking
<1>4. Types'
  BY <1>1, <1>2, <1>3, IdleIs DEF Types
<1>5. Passing'
  BY <1>1, <1>2, PassKept
<1>6. Asking'
  BY <1>2 DEF Asking, Quiet
<1> QED  BY <1>4, <1>5, <1>6 DEF Shapes

LEMMA CreateFailsShapes ==
  ASSUME Shapes, CreateFails
  PROVE  Shapes'
<1>1. Types /\ Passing /\ Asking
  BY DEF Shapes
<1>2. /\ req.pc = "create" /\ faults' = faults + 1 /\ faults < MaxFaults
      /\ req' = [req EXCEPT !.pc = "rollbackRead"]
      /\ UNCHANGED <<now, table, runner, edits, history>>
  BY DEF CreateFails, Fault
<1>3. /\ req.id \in Schedule /\ req.before \in Rows /\ req.upd \in Updates
      /\ Asks(req.kind, req.before, req.upd) /\ req \in Requests
  BY <1>1, <1>2 DEF Asking, Types
<1>4. /\ req' \in Requests /\ req'.id = req.id /\ req'.before = req.before
      /\ req'.upd = req.upd /\ req'.kind = req.kind /\ req'.clone = req.clone
      /\ req'.pc = "rollbackRead"
  BY <1>2, <1>3 DEF Requests
<1>5. faults' \in 0..MaxFaults
  BY <1>1, <1>2, InBounds DEF Types
<1>6. Types'
  BY <1>1, <1>2, <1>4, <1>5 DEF Types, history
<1>7. Passing'
  BY <1>1, <1>2, PassKept DEF history
<1>8. Asks(req.kind, req.before, req.upd)'
  BY <1>2, <1>3, <1>4 DEF Asks, NextFromNow, Phase
<1>9. Asking'
  BY <1>1, <1>2, <1>3, <1>4, <1>8 DEF Asking
<1> QED  BY <1>6, <1>7, <1>9 DEF Shapes

\* A rollback writes what was there before the move.
Undo == [next |-> req.before.next, rule |-> req.before.rule, slot |-> req.before.slot]
LEMMA UndoIs ==
  ASSUME NEW before \in Rows
  PROVE  LET upd == [next |-> before.next, rule |-> before.rule, slot |-> before.slot]
         IN  /\ upd \in Updates
             /\ \A rec \in Rows :
                  LET new == Over(upd, rec)
                  IN  /\ new \in Rows /\ new.rule = before.rule
                      /\ new.next = before.next /\ new.slot = before.slot
<1> DEFINE upd == [next |-> before.next, rule |-> before.rule, slot |-> before.slot]
<1>1. /\ before.rule \in Rule /\ before.next \in Times /\ before.slot \in Times
      /\ before.next = NoTime <=> before.slot = NoTime
      /\ before.slot <= before.next
  BY RowFields DEF Paired
<1>2. upd \in Updates
  BY <1>1 DEF Updates, Paired
<1> QED  BY <1>2, Overlaid

LEMMA RollbackShapes ==
  ASSUME Shapes, Rollback
  PROVE  Shapes'
<1>1. Types /\ Passing /\ Asking
  BY DEF Shapes
<1>2. /\ req.pc = "rollbackWrite" /\ Store(req.id, Undo, req.row, Over(req.upd, req.before))
      /\ req' = Quiet /\ UNCHANGED <<now, runner, edits, faults, runs, again, cut>>
  BY DEF Rollback, Undo
<1>3. /\ req.id \in Schedule /\ req.before \in Rows /\ req.row \in Rows /\ Undo \in Updates
  BY <1>1, <1>2, UndoIs DEF Asking, Undo
<1>4. /\ table' \in [Schedule -> Rows \cup {NoRow}]
      /\ stale' \subseteq Schedule /\ slipped' \subseteq Schedule
  BY <1>1, <1>2, <1>3, StoredRow
<1>5. Types'
  BY <1>1, <1>2, <1>4, IdleIs DEF Types
<1>6. Passing'
  BY <1>1, <1>2, PassKept
<1>7. Asking'
  BY <1>2 DEF Asking, Quiet
<1> QED  BY <1>5, <1>6, <1>7 DEF Shapes

\* Every request but a deletion begins with an update computed from the row.
Begins(s, kind, upd, clone) ==
  /\ Begin(s, kind, upd, clone) /\ Present(s) /\ req.pc = "idle" /\ edits < MaxEdits
  /\ kind \in {"toggle", "reschedule", "skip", "move", "moveOnce"}
  /\ Asks(kind, table[s], upd)
  /\ clone \in Rows \cup {NoRow}
  /\ kind = "move" => /\ clone \in Rows /\ clone.rule.mode = "once"
                      /\ clone.next = clone.slot

LEMMA CloneIs ==
  ASSUME NEW before \in Rows, NEW start \in Starts
  PROVE  LET clone == [NewRow([before.rule EXCEPT !.mode = "once", !.at = start, !.skips = {}],
                              start) EXCEPT !.enabled = before.enabled]
         IN  /\ clone \in Rows /\ clone.rule.mode = "once"
             /\ clone.slot = start /\ clone.next = start
<1> DEFINE rule == [before.rule EXCEPT !.mode = "once", !.at = start, !.skips = {}]
           clone == [NewRow(rule, start) EXCEPT !.enabled = before.enabled]
<1>1. start \in Buffered /\ before.rule \in Rule /\ before.enabled \in BOOLEAN
  BY RowFields, ScheduleRunnerAssumption
<1>2. rule \in Rule /\ rule.mode = "once"
  BY <1>1 DEF Rule
<1>3. start \in Times /\ start <= start
  BY <1>1 DEF Buffered, Times, Instants
<1> HIDE DEF rule
<1>4. clone = [enabled |-> before.enabled, next |-> start, rule |-> rule, slot |-> start]
  BY DEF NewRow
<1>5. clone \in Rows
  BY <1>1, <1>2, <1>3, <1>4 DEF Row, Rows, Paired
<1>6. clone.rule.mode = "once" /\ clone.slot = start /\ clone.next = start
  BY <1>2, <1>4
<1> QED  BY <1>5, <1>6 DEF rule

LEMMA AskBegins ==
  ASSUME Types, NEW s \in Schedule, Ask(s)
  PROVE  Delete(s) \/ \E kind, upd, clone : Begins(s, kind, upd, clone)
<1>1. CASE Toggle(s)
  <2>1. Begins(s, "toggle", [enabled |-> ~table[s].enabled], NoRow)
    BY <1>1 DEF Toggle, Allowed, Begins, Asks
  <2> QED  BY <2>1
<1>2. CASE SkipNext(s)
  <2>1. Begins(s, "skip", Sets(Skipping(table[s])), NoRow)
    BY <1>2 DEF SkipNext, Allowed, Begins, Asks
  <2> QED  BY <2>1
<1>3. ASSUME NEW rule \in Rules, Reschedule(s, rule)
      PROVE  \E kind, upd, clone : Begins(s, kind, upd, clone)
  <2>1. Begins(s, "reschedule", NextFromNow(rule, NoTime), NoRow)
    BY <1>3 DEF Reschedule, Allowed, Begins, Asks, NextFromNow
  <2> QED  BY <2>1
<1>4. ASSUME NEW start \in Starts, MoveOnce(s, start)
      PROVE  \E kind, upd, clone : Begins(s, kind, upd, clone)
  <2>1. Begins(s, "moveOnce", NextFromNow([table[s].rule EXCEPT !.at = start], NoTime), NoRow)
    BY <1>4 DEF MoveOnce, Allowed, Begins, Asks, NextFromNow
  <2> QED  BY <2>1
<1>5. ASSUME NEW start \in Starts, NEW date \in Dates, Move(s, date, start)
      PROVE  \E kind, upd, clone : Begins(s, kind, upd, clone)
  <2> DEFINE before == table[s]
             upd == NextFromNow(WithSkip(before.rule, date), Phase(before, date))
             clone == [NewRow([before.rule EXCEPT !.mode = "once", !.at = start, !.skips = {}],
                              start) EXCEPT !.enabled = before.enabled]
  <2>1. Present(s) /\ before \in Rows
    BY <1>5, InBounds DEF Move
  <2>2. /\ clone \in Rows /\ clone.rule.mode = "once"
        /\ clone.next = clone.slot
    <3>1. clone \in Rows /\ clone.rule.mode = "once" /\ clone.slot = start /\ clone.next = start
      BY <2>1, CloneIs, Zenon
    <3> HIDE DEF clone
    <3> QED  BY <2>1, <3>1
  <2>3. /\ Begin(s, "move", upd, clone)
        /\ req.pc = "idle" /\ edits < MaxEdits
        /\ before.rule.mode \in Recurring
        /\ OnPhase(before.rule, DateOf(Phase(before, date)), date)
    BY <1>5 DEF Move, Allowed, NextFromNow, Phase
  <2>4. Asks("move", before, upd)
    BY <2>3 DEF Asks
  <2> HIDE DEF clone, upd
  <2>5. Begins(s, "move", upd, clone)
    BY <2>1, <2>2, <2>3, <2>4 DEF Begins
  <2> QED  BY <2>5
<1> QED  BY <1>1, <1>2, <1>3, <1>4, <1>5 DEF Ask

LEMMA BeginsShapes ==
  ASSUME Shapes, NEW s \in Schedule, NEW kind, NEW upd, NEW clone, Begins(s, kind, upd, clone)
  PROVE  Shapes'
<1>1. Types /\ Passing /\ Asking
  BY DEF Shapes
<1>2. /\ req' = [Quiet EXCEPT !.pc = "read", !.kind = kind, !.id = s, !.before = table[s],
                              !.upd = upd, !.clone = clone]
      /\ edits' = edits + 1 /\ edits < MaxEdits
      /\ UNCHANGED <<now, table, runner, faults, history>>
  BY DEF Begins, Begin
<1>3. /\ req'.pc = "read" /\ req'.kind = kind /\ req'.id = s /\ req'.before = table[s]
      /\ req'.upd = upd /\ req'.clone = clone
  BY <1>2 DEF Quiet
<1>4. table[s] \in Rows /\ now \in Instants /\ Asks(kind, table[s], upd)
  BY <1>1, InBounds DEF Begins
<1>5. upd \in Updates
  BY <1>4, AskedIs
<1>6. req' \in Requests
  BY <1>2, <1>4, <1>5 DEF Begins, Quiet, Requests
<1>7. edits' \in 0..MaxEdits
  BY <1>1, <1>2, InBounds DEF Types
<1>8. Types'
  BY <1>1, <1>2, <1>6, <1>7 DEF Types, history
<1>9. Passing'
  BY <1>1, <1>2, PassKept DEF history
<1>10. Asks(req.kind, req.before, req.upd)'
  BY <1>2, <1>3, <1>4 DEF Asks, NextFromNow, Phase
<1>11. Asking'
  BY <1>2, <1>3, <1>4, <1>5, <1>10 DEF Asking, Begins
<1> QED  BY <1>8, <1>9, <1>11 DEF Shapes

LEMMA DeleteShapes ==
  ASSUME Shapes, NEW s \in Schedule, Delete(s)
  PROVE  Shapes'
<1>1. Types /\ Passing /\ Asking
  BY DEF Shapes
<1>2. /\ table' = [table EXCEPT ![s] = NoRow] /\ edits' = edits + 1 /\ edits < MaxEdits
      /\ UNCHANGED <<now, runner, req, faults, history>>
  BY DEF Delete, Allowed
<1>3. edits' \in 0..MaxEdits
  BY <1>1, <1>2, InBounds DEF Types
<1>4. Types'
  BY <1>1, <1>2, <1>3 DEF Types, history
<1>5. Passing'
  BY <1>1, <1>2, PassKept DEF history
<1>6. Asking'
  BY <1>1, <1>2, RequestKept
<1> QED  BY <1>4, <1>5, <1>6 DEF Shapes

LEMMA ShapesStep == Shapes /\ [Next]_vars => Shapes'
<1> SUFFICES ASSUME Shapes, [Next]_vars PROVE Shapes'
  OBVIOUS
<1>1. CASE UNCHANGED vars
  <2>1. Types' /\ Passing' /\ Asking'
    BY <1>1, PassKept, RequestKept DEF vars, Shapes, Types
  <2> QED  BY <2>1 DEF Shapes
<1>2. CASE Tick
  BY <1>2, TickShapes
<1>3. CASE RunnerStep
  BY <1>3, BeginPassShapes, ConsiderShapes, EndPassShapes, QueuedShapes, UpdateReadShapes,
     UpdateWriteShapes DEF RunnerStep
<1>4. CASE RequestStep
  BY <1>4, RequestReadShapes, RequestWriteShapes, RollbackShapes, CreateShapes DEF RequestStep
<1>5. CASE Deferred \/ UpdateFails \/ AuditFails \/ Restart \/ CreateFails
  BY <1>5, DeferredShapes, UpdateFailsShapes, AuditFailsShapes, RestartShapes, CreateFailsShapes
<1>6. ASSUME NEW s \in Schedule, Ask(s)
      PROVE  Shapes'
  <2>1. Types
    BY DEF Shapes
  <2>2. CASE Delete(s)
    BY <2>2, DeleteShapes
  <2>3. CASE \E kind, upd, clone : Begins(s, kind, upd, clone)
    BY <2>3, BeginsShapes
  <2> QED  BY <1>6, <2>1, <2>2, <2>3, AskBegins
<1> QED  BY <1>1, <1>2, <1>3, <1>4, <1>5, <1>6 DEF Next

-----------------------------------------------------------------------------
(* An occurrence is queued once: the steps *)

\* What a row waits for after a run was noted, after a skip, and after a request.
LEMMA NotedLater ==
  ASSUME Types, NEW snap \in Rows, IsDue(snap, now)
  PROVE  LET new == Over(Sets(Advanced(snap, now)), snap)
         IN  /\ new \in Rows
             /\ new.next = NoTime \/ (new.rule.mode \in Recurring /\ new.slot > now)
<1> DEFINE new == Over(Sets(Advanced(snap, now)), snap)
<1>1. snap.next # NoTime /\ now \in Instants /\ snap.rule \in Rule /\ snap.next \in Times
  BY DueIs, InBounds, RowFields
<1>2. /\ new \in Rows /\ new.rule = snap.rule /\ new.slot = new.next
      /\ snap.rule.mode \in Recurring => new.next = NextRunAt(snap.rule, now, snap.next, NoTime)
      /\ snap.rule.mode \notin Recurring => new.next = NoTime
  BY <1>1, AdvanceIs
<1> HIDE DEF new
<1>3. ASSUME snap.rule.mode \in Recurring, new.next # NoTime
      PROVE  new.next > now
  <2>1. new.next = NextRunAt(snap.rule, now, snap.next, NoTime) /\ NoTime \in Times
    BY <1>2, <1>3 DEF Times
  <2> QED  BY <1>1, <1>3, <2>1, NextFound
<1>4. new \in Rows /\ (new.next = NoTime \/ (new.rule.mode \in Recurring /\ new.slot > now))
  BY <1>2, <1>3
<1> QED  BY <1>4 DEF new

LEMMA SkippedLater ==
  ASSUME NEW snap \in Rows, snap.next # NoTime
  PROVE  LET new == Over(Sets(Skipping(snap)), snap)
         IN  /\ new \in Rows
             /\ \/ new.next = NoTime
                \/ /\ new.rule.mode \in Recurring /\ snap.rule.mode \in Recurring
                   /\ new.slot > snap.next
<1> DEFINE new == Over(Sets(Skipping(snap)), snap)
           rule == WithSkip(snap.rule, DateOf(snap.next))
<1>1. snap.rule \in Rule /\ snap.next \in Instants /\ snap.next \in Times /\ NoTime \in Times
  BY RowFields DEF Times
<1>2. /\ new \in Rows /\ new.rule = rule /\ new.slot = new.next /\ rule \in Rule
      /\ snap.rule.mode \in Recurring => new.next = NextRunAt(rule, snap.next, snap.next, NoTime)
      /\ snap.rule.mode \notin Recurring => new.next = NoTime
  BY SkipIs
<1>3. rule.mode = snap.rule.mode
  BY <1>1, SkippedRule DEF Instants
<1> HIDE DEF new, rule
<1>4. ASSUME snap.rule.mode \in Recurring, new.next # NoTime
      PROVE  new.next > snap.next
  BY <1>1, <1>2, <1>3, <1>4, NextFound
<1>5. /\ new \in Rows
      /\ \/ new.next = NoTime
         \/ /\ new.rule.mode \in Recurring /\ snap.rule.mode \in Recurring
            /\ new.slot > snap.next
  BY <1>2, <1>3, <1>4
<1> QED  BY <1>5 DEF new

LEMMA FromNowLater ==
  ASSUME NEW rule \in Rule, NEW phase \in Times, now \in Instants, NEW before \in Rows
  PROVE  LET upd == NextFromNow(rule, phase)
             new == Over(upd, before)
         IN  /\ new \in Rows /\ new.rule = rule /\ upd.slot = new.slot /\ new.slot = new.next
             /\ rule.mode \in Recurring => new.next = NoTime \/ new.slot > now
<1> DEFINE upd == NextFromNow(rule, phase)
           new == Over(upd, before)
           next == NextRunAt(rule, now, NoTime, phase)
<1>1. /\ new \in Rows /\ new.rule = rule /\ upd.slot = next /\ new.slot = new.next
      /\ new.next = next
  BY FromNowIs
<1>2. NoTime \in Times
  BY DEF Times
<1>3. rule.mode \in Recurring => next = NoTime \/ next > now
  BY <1>2, NextFound
<1> HIDE DEF new, upd, next
<1>4. /\ new \in Rows /\ new.rule = rule /\ upd.slot = new.slot /\ new.slot = new.next
      /\ rule.mode \in Recurring => new.next = NoTime \/ new.slot > now
  BY <1>1, <1>3
<1> QED  BY <1>4 DEF new, upd

LEMMA AskedLater ==
  ASSUME NEW kind, NEW before \in Rows, NEW upd, now \in Instants, Asks(kind, before, upd)
  PROVE  LET new == Over(upd, before)
         IN  /\ new \in Rows
             /\ \/ new.next = NoTime
                \/ /\ new.rule.mode = before.rule.mode /\ new.slot = before.slot
                   /\ new.next = before.next
                \/ new.rule.mode \in Recurring /\ new.slot > now
                \/ /\ new.rule.mode \in Recurring /\ before.rule.mode \in Recurring
                   /\ before.next # NoTime /\ new.slot > before.next
                \/ kind = "moveOnce" /\ new.rule.mode = "once" /\ new.slot = upd.slot
             /\ kind = "move" =>
                  before.rule.mode \in Recurring /\ (new.next = NoTime \/ new.next > now)
<1> DEFINE new == Over(upd, before)
<1>1. before.rule \in Rule /\ before.enabled \in BOOLEAN /\ NoTime \in Times
  BY RowFields DEF Times
<1>2. CASE kind = "toggle" /\ upd = [enabled |-> ~before.enabled]
  <2>1. (~before.enabled) \in BOOLEAN
    BY <1>1
  <2>2. /\ new \in Rows /\ new.rule = before.rule /\ new.next = before.next
        /\ new.slot = before.slot
    BY <1>2, <2>1, ToggleIs
  <2> HIDE DEF new
  <2>3. new.rule.mode = before.rule.mode /\ kind # "move"
    BY <1>2, <2>2
  <2> QED  BY <2>2, <2>3 DEF new
<1>3. CASE kind = "skip" /\ before.next # NoTime /\ upd = Sets(Skipping(before))
  <2>1. /\ new \in Rows
        /\ \/ new.next = NoTime
           \/ /\ new.rule.mode \in Recurring /\ before.rule.mode \in Recurring
              /\ new.slot > before.next
    BY <1>3, SkippedLater
  <2> HIDE DEF new
  <2>2. kind # "move"
    BY <1>3
  <2> QED  BY <1>3, <2>1, <2>2 DEF new
<1>4. ASSUME kind = "reschedule", NEW rule \in Rules, rule.mode \in Recurring,
             upd = NextFromNow(rule, NoTime)
      PROVE  /\ new \in Rows
             /\ new.next = NoTime \/ (new.rule.mode \in Recurring /\ new.slot > now)
  <2>1. rule \in Rule
    BY ScheduleRunnerAssumption
  <2>2. /\ new \in Rows /\ new.rule = rule
        /\ rule.mode \in Recurring => new.next = NoTime \/ new.slot > now
    BY <1>1, <1>4, <2>1, FromNowLater
  <2> HIDE DEF new
  <2> QED  BY <1>4, <2>2
<1>5. ASSUME kind = "moveOnce", before.rule.mode = "once", NEW start \in Starts,
             upd = NextFromNow([before.rule EXCEPT !.at = start], NoTime)
      PROVE  new \in Rows /\ new.rule.mode = "once" /\ new.slot = upd.slot
  <2> DEFINE rule == [before.rule EXCEPT !.at = start]
  <2>1. start \in Buffered
    BY ScheduleRunnerAssumption
  <2>2. rule \in Rule /\ rule.mode = "once"
    BY <1>1, <1>5, <2>1, MovedRule
  <2> HIDE DEF rule
  <2>3. new \in Rows /\ new.rule = rule /\ upd.slot = new.slot
    BY <1>1, <1>5, <2>2, FromNowLater DEF rule
  <2> HIDE DEF new
  <2> QED  BY <2>2, <2>3
<1>6. ASSUME before.rule.mode \in Recurring, NEW date \in Dates,
             upd = NextFromNow(WithSkip(before.rule, date), Phase(before, date))
      PROVE  /\ new \in Rows
             /\ new.next = NoTime \/ (new.rule.mode \in Recurring /\ new.slot > now)
             /\ new.slot = new.next
  <2> DEFINE rule == WithSkip(before.rule, date)
             phase == Phase(before, date)
  <2>1. rule \in Rule /\ rule.mode = before.rule.mode /\ phase \in Times
    BY <1>1, SkippedRule, PhaseIsTime
  <2> HIDE DEF rule, phase
  <2>2. /\ new \in Rows /\ new.rule = rule /\ new.slot = new.next
        /\ rule.mode \in Recurring => new.next = NoTime \/ new.slot > now
    BY <1>1, <1>6, <2>1, FromNowLater DEF rule, phase
  <2> HIDE DEF new
  <2> QED  BY <1>6, <2>1, <2>2
<1> HIDE DEF new
<1>7. CASE kind = "reschedule"
  <2>1. /\ new \in Rows
        /\ new.next = NoTime \/ (new.rule.mode \in Recurring /\ new.slot > now)
    BY <1>4, <1>7 DEF Asks
  <2> QED  BY <1>7, <2>1 DEF new
<1>8. CASE kind = "moveOnce"
  <2>1. new \in Rows /\ new.rule.mode = "once" /\ new.slot = upd.slot
    BY <1>5, <1>8 DEF Asks
  <2> QED  BY <1>8, <2>1 DEF new
<1>9. CASE kind = "move"
  <2>1. /\ new \in Rows /\ before.rule.mode \in Recurring
        /\ new.next = NoTime \/ (new.rule.mode \in Recurring /\ new.slot > now)
        /\ new.slot = new.next
    BY <1>6, <1>9 DEF Asks
  <2> QED  BY <2>1 DEF new
<1> QED  BY <1>2, <1>3, <1>7, <1>8, <1>9 DEF Asks

\* A step that does not write a schedule, queue it, list it or end its noting
\* leaves it as fresh as it was,
LEMMA FreshKept ==
  ASSUME NEW s \in Schedule, Fresh(s),
         Present(s)' => table'[s] = table[s], runs'[s] \subseteq runs[s],
         Queueing(s) => Queueing(s)' \/ ~Present(s)',
         \A rec \in Rows : Picked(s, rec)' => Picked(s, rec)
  PROVE  Fresh(s)'
<1>1. ASSUME Present(s)', table'[s].next # NoTime
      PROVE  Waits(s, table[s])'
  <2>1. /\ Present(s) /\ table'[s] = table[s] /\ Waits(s, table[s])
        /\ (Queueing(s) => Queueing(s)')
    BY <1>1 DEF Fresh, Present
  <2> QED  BY <2>1 DEF Waits
<1>2. ASSUME NEW rec \in Rows, Picked(s, rec)'
      PROVE  /\ rec.slot \notin runs'[s]
             /\ (Present(s)' /\ table'[s].next # NoTime /\ table'[s].rule.mode \in Recurring)
                  => rec.slot <= table'[s].slot
  <2>1. /\ rec.slot \notin runs[s]
        /\ (Present(s) /\ table[s].next # NoTime /\ table[s].rule.mode \in Recurring)
             => rec.slot <= table[s].slot
    BY <1>2 DEF Fresh
  <2> QED  BY <2>1 DEF Present
<1> QED  BY <1>1, <1>2 DEF Fresh

\* and so for a move of it.
LEMMA MovedKept ==
  ASSUME NEW s \in Schedule, Moved(s),
         Present(s)' => table'[s] = table[s], runs'[s] \subseteq runs[s],
         Queueing(s) => Queueing(s)' \/ ~Present(s)',
         \A rec \in Rows : Picked(s, rec)' => Picked(s, rec),
         \/ req'.id # s \/ req'.pc \notin {"create", "rollbackRead", "rollbackWrite"}
         \/ /\ req'.id = req.id /\ req'.upd = req.upd /\ req'.before = req.before
            /\ req.pc \in {"create", "rollbackRead", "rollbackWrite"}
  PROVE  Moved(s)'
<1> SUFFICES ASSUME req'.id = s, req'.pc \in {"create", "rollbackRead", "rollbackWrite"},
                    Present(s)'
             PROVE  /\ table'[s] = Over(req'.upd, req'.before)
                    /\ req'.before.next # NoTime =>
                         /\ Waits(s, req.before)'
                         /\ \A rec \in Rows : Picked(s, rec)' => rec.slot <= req'.before.slot
  BY DEF Moved
<1>1. /\ req'.id = req.id /\ req'.upd = req.upd /\ req'.before = req.before
      /\ req.id = s /\ req.pc \in {"create", "rollbackRead", "rollbackWrite"}
      /\ table'[s] = table[s] /\ Present(s) /\ (Queueing(s) => Queueing(s)')
  BY DEF Present
<1>2. /\ table[s] = Over(req.upd, req.before)
      /\ req.before.next # NoTime =>
           /\ Waits(s, req.before)
           /\ \A rec \in Rows : Picked(s, rec) => rec.slot <= req.before.slot
  BY <1>1 DEF Moved
<1>3. req.before.next # NoTime => Waits(s, req.before)'
  BY <1>1, <1>2 DEF Waits
<1> QED  BY <1>1, <1>2, <1>3

LEMMA ListedDue ==
  ASSUME Types, Passing, NEW s, NEW rec \in Rows, Picked(s, rec)
  PROVE  IsDue(rec, now) /\ s \in Schedule
<1>1. runner.todo \in SUBSET (Schedule \X Rows) /\ \A e \in runner.todo : IsDue(e[2], now)
  BY DEF Types, Passes, Passing
<1>2. CASE <<s, rec>> \in runner.todo
  <2>1. IsDue(<<s, rec>>[2], now) /\ <<s, rec>> \in Schedule \X Rows
    BY <1>1, <1>2, Zenon
  <2> QED  BY <2>1
<1>3. CASE runner.pc = "queue" /\ runner.id = s /\ runner.snap = rec
  BY <1>3 DEF Passing, Busy
<1> QED  BY <1>2, <1>3 DEF Picked

\* Steps of the pass and the requests that only go on.
LEMMA OnceKept ==
  ASSUME Types, Once, UNCHANGED <<table, runs, again>>, now' \in Nat, now <= now',
         cut \subseteq cut', stale \subseteq stale',
         \A s \in Schedule \ (cut' \cup stale') :
           /\ Queueing(s) => Queueing(s)' \/ ~Present(s)
           /\ \A rec \in Rows : Picked(s, rec)' => Picked(s, rec)
           /\ \/ req'.id # s \/ req'.pc \notin {"create", "rollbackRead", "rollbackWrite"}
              \/ /\ req'.id = req.id /\ req'.upd = req.upd /\ req'.before = req.before
                 /\ req.pc \in {"create", "rollbackRead", "rollbackWrite"}
  PROVE  Once'
<1>1. \A s \in Schedule : \A r \in runs'[s] : r \in 0..now'
  BY InBounds, SMT DEF Once
<1>2. ASSUME NEW s \in Schedule \ (cut' \cup stale')
      PROVE  Fresh(s)' /\ Moved(s)'
  <2>1. Fresh(s) /\ Moved(s) /\ (Present(s)' <=> Present(s))
    BY DEF Once, Present
  <2> QED  BY <2>1, FreshKept, MovedKept
<1>3. RunOnce'
  BY DEF Once, RunOnce
<1> QED  BY <1>1, <1>2, <1>3 DEF Once

LEMMA BeginPassOnce ==
  ASSUME Types, Passing, Asking, Once, BeginPass
  PROVE  Once'
<1>1. /\ runner.pc = "idle" /\ runner = Idle
      /\ runner' = [Idle EXCEPT !.pc = "next", !.at = now,
                      !.todo = {<<s, table[s]>> : s \in {s \in Schedule : Present(s) /\ IsDue(table[s], now)}}]
      /\ UNCHANGED <<now, table, req, edits, faults, history>>
  BY DEF BeginPass, Passing
<1>2. ASSUME NEW s \in Schedule, NEW rec \in Rows, Picked(s, rec)'
      PROVE  rec = table[s] /\ Present(s) /\ IsDue(rec, now)
  BY <1>1, <1>2 DEF Picked, Idle
<1>3. ASSUME NEW s \in Schedule
      PROVE  ~Queueing(s) /\ ~Queueing(s)'
  BY <1>1 DEF Queueing, Idle
<1>4. ASSUME NEW s \in Schedule \ (cut' \cup stale')
      PROVE  Fresh(s)' /\ Moved(s)'
  <2>1. Fresh(s) /\ Moved(s) /\ UNCHANGED <<table, runs, req, now>>
    BY <1>1 DEF Once, history
  <2>2. Present(s) /\ table[s].next # NoTime => Waits(s, table[s])'
    BY <1>3, <2>1 DEF Fresh, Waits
  <2>3. ASSUME NEW rec \in Rows, Picked(s, rec)'
        PROVE  rec.slot \notin runs[s] /\ rec.slot <= table[s].slot
    <3>1. rec = table[s] /\ Present(s) /\ rec.next # NoTime
      BY <1>2, <2>3 DEF IsDue
    <3>2. Waits(s, rec) /\ ~Queueing(s) /\ rec.slot \in Nat
      BY <1>3, <2>1, <3>1, RowFields DEF Fresh
    <3> QED  BY <3>1, <3>2 DEF Waits
  <2>4. Fresh(s)'
    BY <2>1, <2>2, <2>3 DEF Fresh, Present
  <2>5. ASSUME req.id = s, req.pc \in {"create", "rollbackRead", "rollbackWrite"}, Present(s)
        PROVE  /\ table[s] = Over(req.upd, req.before)
               /\ req.before.next # NoTime => Waits(s, req.before)'
               /\ \A rec \in Rows : ~Picked(s, rec)'
    <3>1. /\ table[s] = Over(req.upd, req.before)
          /\ req.before.next # NoTime => Waits(s, req.before)
      BY <2>1, <2>5 DEF Moved
    <3>2. req.before.next # NoTime => Waits(s, req.before)'
      BY <1>3, <2>1, <3>1 DEF Waits
    <3>3. Asks("move", req.before, req.upd) /\ req.before \in Rows
      BY <2>5 DEF Asking
    <3>4. /\ table[s] \in Rows /\ now \in Nat
          /\ table[s].next = NoTime \/ table[s].next > now
      BY <3>1, <3>3, AskedLater, InBounds
    <3>5. ~IsDue(table[s], now)
      BY <3>4, RowFields, SMT DEF IsDue
    <3> QED  BY <1>2, <3>1, <3>2, <3>5
  <2>6. Moved(s)'
    BY <2>1, <2>5 DEF Moved, Present
  <2> QED  BY <2>4, <2>6
<1>5. (\A s \in Schedule : \A r \in runs'[s] : r \in 0..now') /\ RunOnce'
  BY <1>1 DEF Once, RunOnce, history
<1> QED  BY <1>4, <1>5 DEF Once

LEMMA QueuedOnce ==
  ASSUME Types, Passing, Asking, Once, Queued
  PROVE  Once'
<1> DEFINE q == runner.id
           slot == runner.snap.slot
<1>1. /\ runner.pc = "queue" /\ UNCHANGED <<now, table, req, edits, faults, cut, stale, slipped>>
      /\ runner' = [runner EXCEPT !.pc = "read", !.queued = TRUE,
                              !.upd = Sets(Advanced(runner.snap, runner.at))]
      /\ runs' = [runs EXCEPT ![q] = @ \cup {slot}]
      /\ again' = IF slot \in runs[q] THEN again \cup {q} ELSE again
  BY DEF Queued
<1>2. /\ q \in Schedule /\ runner.snap \in Rows /\ IsDue(runner.snap, now) /\ ~runner.queued
      /\ \A e \in runner.todo : e[1] # q
  BY <1>1 DEF Passing, Busy
<1>3. slot \in 0..now /\ slot \in Nat
  BY <1>2, DueIs, InBounds
<1>4. /\ runner'.pc = "read" /\ runner'.queued /\ runner'.id = q /\ runner'.todo = runner.todo
  BY <1>1 DEF Types, Passes
<1>5. Picked(q, runner.snap)
  BY <1>1 DEF Picked
<1> HIDE DEF slot
<1>6. ASSUME NEW s \in Schedule \ (cut' \cup stale')
      PROVE  Fresh(s)' /\ Moved(s)'
  <2>1. Fresh(s) /\ Moved(s) /\ UNCHANGED <<table, req, now>>
    BY <1>1 DEF Once
  <2>2. \A rec \in Rows : Picked(s, rec)' => s # q /\ Picked(s, rec)
    BY <1>2, <1>4 DEF Picked
  <2>3. CASE s # q
    <3>1. runs'[s] = runs[s] /\ ~Queueing(s)
      BY <1>1, <1>2, <2>3 DEF Queueing, Types
    <3> QED  BY <2>1, <2>2, <3>1, FreshKept, MovedKept
  <2>4. CASE s = q
    <3>1. runs'[s] = runs[s] \cup {slot} /\ Queueing(s)' /\ ~Queueing(s)
      BY <1>1, <1>2, <1>4, <2>4 DEF Queueing, Types
    <3>2. ASSUME Present(s), table[s].next # NoTime
          PROVE  Waits(s, table[s])'
      <4>1. table[s] \in Rows /\ table[s].slot \in Nat
        BY <3>2, InBounds, RowFields
      <4>2. /\ Waits(s, table[s])
            /\ table[s].rule.mode \in Recurring => slot <= table[s].slot
        BY <1>2, <1>5, <2>1, <2>4, <3>2 DEF Fresh, slot
      <4>3. runs[s] \subseteq Nat
        BY InBounds DEF Once
      <4> QED  BY <1>3, <2>1, <3>1, <4>1, <4>2, <4>3 DEF Waits
    <3>3. Fresh(s)'
      BY <2>1, <2>2, <2>4, <3>2 DEF Fresh, Present
    <3>4. ASSUME req.id = s, req.pc \in {"create", "rollbackRead", "rollbackWrite"}, Present(s)
          PROVE  /\ table[s] = Over(req.upd, req.before)
                 /\ req.before.next # NoTime => Waits(s, req.before)'
      <4>1. /\ table[s] = Over(req.upd, req.before)
            /\ req.before.next # NoTime =>
                 Waits(s, req.before) /\ slot <= req.before.slot
        BY <1>2, <1>5, <2>1, <2>4, <3>4 DEF Moved, slot
      <4>2. req.before \in Rows /\ req.before.rule.mode \in Recurring
        BY <3>4 DEF Asking, Asks
      <4>3. runs[s] \subseteq Nat
        BY InBounds DEF Once
      <4>4. ASSUME req.before.next # NoTime PROVE Waits(s, req.before)'
        <5>1. req.before.slot \in Nat
          BY <4>2, <4>4, RowFields
        <5> QED  BY <1>3, <2>1, <3>1, <4>1, <4>2, <4>3, <4>4, <5>1 DEF Waits
      <4> QED  BY <4>1, <4>4
    <3>5. Moved(s)'
      BY <2>1, <2>2, <2>4, <3>4 DEF Moved, Present
    <3> QED  BY <3>3, <3>5
  <2> QED  BY <2>3, <2>4
<1>7. \A s \in Schedule : \A r \in runs'[s] : r \in 0..now'
  BY <1>1, <1>2, <1>3 DEF Once, Types
<1>8. RunOnce'
  <2>1. slot \in runs[q] => q \in cut \cup stale
    BY <1>2, <1>5 DEF Once, Fresh, slot
  <2> QED  BY <1>1, <2>1 DEF Once, RunOnce
<1> QED  BY <1>6, <1>7, <1>8 DEF Once

\* A step that writes one schedule.
LEMMA OthersOnce ==
  ASSUME Types, Once, NEW w \in Schedule, UNCHANGED <<now, again>>,
         \A s \in Schedule : runs'[s] \subseteq runs[s],
         cut \subseteq cut', stale \subseteq stale',
         \A s \in Schedule \ {w} :
           /\ table'[s] = table[s]
           /\ Queueing(s) => Queueing(s)'
           /\ \A rec \in Rows : Picked(s, rec)' => Picked(s, rec)
           /\ \/ req'.id # s \/ req'.pc \notin {"create", "rollbackRead", "rollbackWrite"}
              \/ /\ req'.id = req.id /\ req'.upd = req.upd /\ req'.before = req.before
                 /\ req.pc \in {"create", "rollbackRead", "rollbackWrite"},
         w \notin cut' \cup stale' => Fresh(w)' /\ Moved(w)'
  PROVE  Once'
<1>1. \A s \in Schedule : \A r \in runs'[s] : r \in 0..now'
  BY DEF Once
<1>2. ASSUME NEW s \in Schedule \ (cut' \cup stale'), s # w
      PROVE  Fresh(s)' /\ Moved(s)'
  <2>1. Fresh(s) /\ Moved(s)
    BY DEF Once
  <2> QED  BY <1>2, <2>1, FreshKept, MovedKept
<1>3. RunOnce'
  BY DEF Once, RunOnce
<1> QED  BY <1>1, <1>2, <1>3 DEF Once

LEMMA TickOnce ==
  ASSUME Shapes, Once, Tick
  PROVE  Once'
<1>1. /\ UNCHANGED <<table, runner, req, edits, faults, history>> /\ now' = now + 1
      /\ Types /\ now \in Nat
  BY InBounds DEF Tick, Shapes
<1>2. \A s : /\ Queueing(s)' <=> Queueing(s)
             /\ \A rec : Picked(s, rec)' <=> Picked(s, rec)
  BY <1>1 DEF Queueing, Picked
<1>3. req.pc = "idle"
  BY DEF Tick
<1> QED  BY <1>1, <1>2, <1>3, OnceKept DEF history

LEMMA ConsiderOnce ==
  ASSUME Shapes, Once, Consider
  PROVE  Once'
<1>1. Types /\ Passing /\ UNCHANGED <<now, table, req, edits, faults, history>> /\ now \in Nat
  BY InBounds DEF Shapes, Consider
<1>2. PICK entry \in runner.todo :
        LET snap == entry[2]
            taken == [runner EXCEPT !.todo = @ \ {entry}, !.id = entry[1], !.snap = snap]
        IN  runner' = IF IsSkipped(snap)
                      THEN [taken EXCEPT !.pc = "read", !.upd = Sets(Skipping(snap))]
                      ELSE [taken EXCEPT !.pc = "queue"]
  BY DEF Consider
<1>3. /\ runner.pc = "next" /\ ~runner.queued /\ runner \in Passes
  BY <1>1 DEF Consider, Passing, Types
<1>4. entry \in Schedule \X Rows /\ entry = <<entry[1], entry[2]>>
  BY <1>2, <1>3 DEF Passes
<1>5. /\ runner'.todo = runner.todo \ {entry} /\ runner'.id = entry[1] /\ runner'.snap = entry[2]
  BY <1>2, <1>3 DEF Passes
<1>6. ASSUME NEW s, NEW rec, Picked(s, rec)'
      PROVE  Picked(s, rec)
  <2>1. <<s, rec>> \in runner'.todo \/ (runner'.id = s /\ runner'.snap = rec)
    BY <1>6 DEF Picked
  <2> QED  BY <1>2, <1>4, <1>5, <2>1 DEF Picked
<1>7. \A s : ~Queueing(s)
  BY <1>3 DEF Queueing
<1>8. \/ req.pc \notin {"create", "rollbackRead", "rollbackWrite"}
      \/ req.pc \in {"create", "rollbackRead", "rollbackWrite"}
  OBVIOUS
<1> QED  BY <1>1, <1>6, <1>7, <1>8, OnceKept DEF history

LEMMA EndPassOnce ==
  ASSUME Shapes, Once, EndPass
  PROVE  Once'
<1>1. /\ Types /\ Passing /\ UNCHANGED <<now, table, req, edits, faults, history>> /\ now \in Nat
      /\ runner.pc = "next" /\ runner' = Idle
  BY InBounds DEF Shapes, EndPass
<1>2. \A s : ~Queueing(s) /\ \A rec : ~Picked(s, rec)'
  BY <1>1 DEF Queueing, Picked, Idle, Passing
<1> QED  BY <1>1, <1>2, OnceKept DEF history

LEMMA DeferredOnce ==
  ASSUME Shapes, Once, Deferred
  PROVE  Once'
<1>1. /\ Types /\ Passing /\ UNCHANGED <<now, table, req, edits, history>> /\ now \in Nat
      /\ runner.pc = "queue" /\ runner' = Retrying
  BY InBounds DEF Shapes, Deferred
<1>2. runner'.pc = "read" /\ runner'.todo = runner.todo
  BY <1>1, RetryingIs
<1>3. \A s : ~Queueing(s) /\ \A rec : Picked(s, rec)' => Picked(s, rec)
  BY <1>1, <1>2 DEF Queueing, Picked, Passing
<1> QED  BY <1>1, <1>3, OnceKept DEF history

LEMMA UpdateReadOnce ==
  ASSUME Shapes, Once, UpdateRead
  PROVE  Once'
<1>1. /\ Types /\ Passing /\ UNCHANGED <<now, table, req, edits, faults, history>> /\ now \in Nat
      /\ runner.pc = "read" /\ runner \in Passes
      /\ runner' = IF Present(runner.id)
                   THEN [runner EXCEPT !.pc = "write", !.row = table[runner.id]]
                   ELSE [runner EXCEPT !.pc = "next", !.queued = FALSE]
  BY InBounds DEF Shapes, UpdateRead, Types
<1>2. /\ runner'.pc \in {"write", "next"} /\ runner'.todo = runner.todo /\ runner'.id = runner.id
      /\ Present(runner.id) => runner'.queued = runner.queued
  BY <1>1 DEF Passes
<1>3. ASSUME NEW s
      PROVE  /\ Queueing(s) => Queueing(s)' \/ ~Present(s)
             /\ \A rec : Picked(s, rec)' => Picked(s, rec)
  BY <1>1, <1>2 DEF Queueing, Picked
<1> QED  BY <1>1, <1>3, OnceKept DEF history

LEMMA UpdateFailsOnce ==
  ASSUME Shapes, Once, UpdateFails
  PROVE  Once'
<1>1. /\ Types /\ Passing /\ UNCHANGED <<now, table, req, edits, runs, again, stale, slipped>>
      /\ now \in Nat /\ runner.pc \in {"read", "write"} /\ CutOff
      /\ runner' = IF runner.queued THEN Retrying ELSE Idle
  BY InBounds DEF Shapes, UpdateFails
<1>2. cut \subseteq cut' /\ (runner.queued => runner.id \in cut')
  BY <1>1, CutOffIs
<1>3. runner'.pc \in {"read", "idle"} /\ runner'.todo \subseteq runner.todo
  BY <1>1, RetryingIs DEF Idle
<1>4. ASSUME NEW s \in Schedule \ cut'
      PROVE  ~Queueing(s) /\ \A rec : Picked(s, rec)' => Picked(s, rec)
  BY <1>2, <1>3 DEF Queueing, Picked
<1> QED  BY <1>1, <1>2, <1>4, OnceKept

LEMMA RestartOnce ==
  ASSUME Shapes, Once, Restart
  PROVE  Once'
<1>1. /\ Types /\ Passing /\ UNCHANGED <<now, table, edits, runs, again, stale, slipped>>
      /\ now \in Nat /\ CutOff /\ runner' = Idle /\ req' = Quiet
  BY InBounds DEF Shapes, Restart
<1>2. cut \subseteq cut' /\ (runner.queued => runner.id \in cut')
  BY <1>1, CutOffIs
<1>3. ASSUME NEW s \in Schedule \ cut'
      PROVE  ~Queueing(s) /\ \A rec : Picked(s, rec)' => Picked(s, rec)
  BY <1>1, <1>2 DEF Queueing, Picked, Idle
<1>4. req'.pc = "idle"
  BY <1>1 DEF Quiet
<1> QED  BY <1>1, <1>2, <1>3, <1>4, OnceKept

LEMMA RequestGoesOnOnce ==
  ASSUME Shapes, Once, UNCHANGED <<now, table, runner, history>>,
         \/ req'.pc \notin {"create", "rollbackRead", "rollbackWrite"}
         \/ /\ req'.id = req.id /\ req'.upd = req.upd /\ req'.before = req.before
            /\ req.pc \in {"create", "rollbackRead", "rollbackWrite"}
  PROVE  Once'
<1>1. Types /\ now \in Nat
  BY InBounds DEF Shapes
<1>2. \A s : /\ Queueing(s)' <=> Queueing(s)
             /\ \A rec : Picked(s, rec)' <=> Picked(s, rec)
  BY DEF Queueing, Picked
<1> QED  BY <1>1, <1>2, OnceKept DEF history

LEMMA RequestReadOnce ==
  ASSUME Shapes, Once, RequestRead
  PROVE  Once'
<1>1. /\ UNCHANGED <<now, table, runner, edits, faults, history>> /\ req \in Requests
      /\ req.pc \in {"read", "rollbackRead"}
      /\ req' = IF Present(req.id)
                THEN [req EXCEPT !.pc = IF @ = "read" THEN "write" ELSE "rollbackWrite",
                                 !.row = table[req.id]]
                ELSE Quiet
  BY DEF RequestRead, Shapes, Types
<1>2. \/ req'.pc \notin {"create", "rollbackRead", "rollbackWrite"}
      \/ /\ req'.id = req.id /\ req'.upd = req.upd /\ req'.before = req.before
         /\ req.pc = "rollbackRead"
  BY <1>1 DEF Requests, Quiet
<1> QED  BY <1>1, <1>2, RequestGoesOnOnce

LEMMA CreateFailsOnce ==
  ASSUME Shapes, Once, CreateFails
  PROVE  Once'
<1>1. /\ UNCHANGED <<now, table, runner, edits, history>> /\ req \in Requests
      /\ req.pc = "create" /\ req' = [req EXCEPT !.pc = "rollbackRead"]
  BY DEF CreateFails, Shapes, Types
<1>2. req'.id = req.id /\ req'.upd = req.upd /\ req'.before = req.before
  BY <1>1 DEF Requests
<1> QED  BY <1>1, <1>2, RequestGoesOnOnce

LEMMA BeginsOnce ==
  ASSUME Shapes, Once, NEW s \in Schedule, NEW kind, NEW upd, NEW clone,
         Begins(s, kind, upd, clone)
  PROVE  Once'
<1>1. /\ UNCHANGED <<now, table, runner, faults, history>> /\ req'.pc = "read"
  BY DEF Begins, Begin, Quiet
<1> QED  BY <1>1, RequestGoesOnOnce


\* A row that waits for later than another of its schedule waits as freshly.
LEMMA WaitsLater ==
  ASSUME NEW s \in Schedule, NEW old \in Rows, NEW new \in Rows,
         old.next # NoTime, new.next # NoTime, Waits(s, old), runs[s] \subseteq Nat,
         old.rule.mode \in Recurring, new.rule.mode \in Recurring, new.slot > old.next
  PROVE  /\ \A r \in runs[s] : r < new.slot
         /\ old.slot < new.slot
<1>1. /\ old.slot \in Nat /\ old.next \in Nat /\ old.slot <= old.next /\ new.slot \in Nat
  BY RowFields
<1>2. ASSUME NEW r \in runs[s] PROVE r < new.slot
  <2>1. r \in Nat /\ r <= old.slot
    BY <1>1 DEF Waits
  <2> QED  BY <1>1, <2>1
<1> QED  BY <1>1, <1>2

\* Whoever writes: what a row of the pass is after its update.
LEMMA UpdateWriteOnce ==
  ASSUME Shapes, Shapes', Once, UpdateWrite
  PROVE  Once'
<1>0. PICK w \in Schedule, snap \in Rows, new \in Rows :
         w = runner.id /\ snap = runner.snap /\ new = Over(runner.upd, snap)
  <2>1. runner.id \in Schedule /\ runner.snap \in Rows /\ runner.upd \in Updates
    BY DEF Shapes, Passing, Busy, UpdateWrite
  <2> QED  BY <2>1, Overlaid
<1>1. /\ Types /\ Passing /\ Asking /\ now \in Nat /\ runner \in Passes
      /\ UNCHANGED <<now, req, edits, faults, runs, again, cut>>
      /\ runner.pc = "write" /\ runner' = [runner EXCEPT !.pc = "next", !.queued = FALSE]
      /\ Store(w, runner.upd, runner.row, snap)
  BY <1>0, InBounds DEF Shapes, UpdateWrite, Types
<1>2. /\ w \in Schedule /\ snap \in Rows /\ runner.row \in Rows /\ runner.upd \in Updates
      /\ Notes \/ Skips \/ PutsOff
      /\ \A e \in runner.todo : e[1] # w
  BY <1>0, <1>1 DEF Passing, Busy
<1>3. /\ table'[w] = Over(runner.upd, runner.row) /\ table'[w] \in Rows
      /\ \A r \in Schedule \ {w} : table'[r] = table[r]
      /\ stale \subseteq stale'
      /\ w \notin stale' => table[w] = snap /\ runner.row = snap
  BY <1>1, <1>2, StoredRow
<1>4. /\ runner'.pc = "next" /\ ~runner'.queued /\ runner'.todo = runner.todo
  BY <1>1 DEF Passes
<1>5. ASSUME NEW s \in Schedule \ {w}
      PROVE  ~Queueing(s) /\ \A rec : Picked(s, rec)' => Picked(s, rec)
  BY <1>0, <1>4 DEF Queueing, Picked
<1>6. ~Queueing(w)' /\ \A rec : ~Picked(w, rec)'
  BY <1>2, <1>4 DEF Queueing, Picked
<1>7. ASSUME w \notin cut' \cup stale'
      PROVE  Fresh(w)' /\ Moved(w)'
  <2>1. /\ Fresh(w) /\ Moved(w) /\ table[w] = snap /\ table'[w] = new /\ new \in Rows
        /\ w \notin cut
    BY <1>0, <1>1, <1>2, <1>3, <1>7, Overlaid DEF Once
  <2>2. Present(w) /\ runs[w] \subseteq Nat
    BY <1>1, <1>2, <2>1, InBounds DEF Once
  <2>3. IsDue(snap, now)
    BY <1>0, <1>2, <2>1 DEF Notes, Skips, PutsOff
  <2>4. snap.next # NoTime /\ Waits(w, snap)
    BY <2>1, <2>2, <2>3 DEF Fresh, IsDue
  <2>5. ASSUME new.next # NoTime
        PROVE  Waits(w, new)'
    <3>1. CASE Notes
      <4>1. new.rule.mode \in Recurring /\ new.slot > now
        <5>1. runner.upd = Sets(Advanced(snap, now))
          BY <1>0, <3>1 DEF Notes
        <5> QED  BY <1>0, <1>1, <1>2, <2>3, <2>5, <5>1, NotedLater
      <4>2. \A r \in runs'[w] : r < new.slot
        BY <1>1, <1>2, <2>1, <2>5, <4>1, RowFields DEF Once
      <4> QED  BY <1>1, <4>1, <4>2 DEF Waits
    <3>2. CASE Skips
      <4>1. new.rule.mode \in Recurring /\ snap.rule.mode \in Recurring /\ new.slot > snap.next
        <5>1. runner.upd = Sets(Skipping(snap))
          BY <1>0, <3>2 DEF Skips
        <5> QED  BY <1>0, <1>1, <1>2, <2>4, <2>5, <5>1, SkippedLater
      <4>2. \A r \in runs[w] : r < new.slot
        BY <1>2, <2>1, <2>2, <2>4, <2>5, <4>1, WaitsLater
      <4> QED  BY <1>1, <4>1, <4>2 DEF Waits
    <3>3. CASE PutsOff
      <4>1. new.rule = snap.rule /\ new.slot = snap.slot
        <5>1. /\ runner.upd = [next |-> now + Delay, slot |-> snap.slot]
              /\ snap.slot \in 0..now /\ now \in 0..MaxTime
          BY <1>0, <1>1, <2>1, <3>3, InBounds DEF PutsOff
        <5> QED  BY <1>0, <1>2, <5>1, PutOffIs
      <4>2. ~Queueing(w)
        BY <3>3 DEF PutsOff, Queueing
      <4> QED  BY <1>1, <2>4, <4>1, <4>2 DEF Waits
    <3> QED  BY <1>2, <3>1, <3>2, <3>3
  <2>6. Fresh(w)'
    BY <1>6, <2>1, <2>5 DEF Fresh
  <2>7. ~(req.id = w /\ req.pc \in {"create", "rollbackRead", "rollbackWrite"})
    <3>1. SUFFICES ASSUME req.id = w, req.pc \in {"create", "rollbackRead", "rollbackWrite"}
                   PROVE  FALSE
      OBVIOUS
    <3>2. snap = Over(req.upd, req.before)
      BY <2>1, <2>2, <3>1 DEF Moved
    <3>3. Asks("move", req.before, req.upd) /\ req.before \in Rows /\ now \in Instants
      BY <1>1, <3>1, InBounds DEF Asking
    <3>4. snap.next = NoTime \/ snap.next > now
      BY <3>2, <3>3, AskedLater
    <3> QED  BY <1>2, <2>3, <3>4, <1>1, RowFields, SMT DEF IsDue
  <2>8. Moved(w)'
    BY <1>1, <2>7 DEF Moved
  <2> QED  BY <2>6, <2>8
<1> QED  BY <1>1, <1>2, <1>3, <1>5, <1>7, OthersOnce

LEMMA AuditFailsOnce ==
  ASSUME Shapes, Once, AuditFails
  PROVE  Once'
<1> DEFINE w == runner.id
<1>1. /\ Types /\ Passing /\ UNCHANGED <<now, req, edits, runs, again>> /\ CutOff
      /\ runner.pc = "write" /\ runner.queued
      /\ runner' = [Retrying EXCEPT !.snap = Over(runner.upd, runner.row)]
      /\ Store(w, runner.upd, runner.row, runner.snap)
  BY DEF Shapes, AuditFails
<1>2. w \in Schedule /\ runner.row \in Rows /\ runner.upd \in Updates
  BY <1>1 DEF Passing, Busy
<1>3. (\A r \in Schedule \ {w} : table'[r] = table[r]) /\ stale \subseteq stale'
  BY <1>1, <1>2, StoredRow
<1>4. cut \subseteq cut' /\ w \in cut'
  BY <1>1, CutOffIs
<1>5. runner'.pc = "read" /\ runner'.todo = runner.todo
  <2>1. Retrying.pc = "read" /\ Retrying.todo = runner.todo
    BY <1>1, RetryingIs
  <2>2. [Retrying EXCEPT !.snap = Over(runner.upd, runner.row)].pc = Retrying.pc
        /\ [Retrying EXCEPT !.snap = Over(runner.upd, runner.row)].todo = Retrying.todo
    BY DEF Retrying
  <2> QED  BY <1>1, <2>1, <2>2
<1>6. ASSUME NEW s \in Schedule \ {w}
      PROVE  ~Queueing(s) /\ \A rec : Picked(s, rec)' => Picked(s, rec)
  BY <1>5 DEF Queueing, Picked
<1> QED  BY <1>1, <1>2, <1>3, <1>4, <1>6, OthersOnce

LEMMA CreateOnce ==
  ASSUME Shapes, Shapes', Once, NEW w \in Schedule, Create(w)
  PROVE  Once'
<1>1. /\ Types /\ Asking /\ now \in Nat
      /\ UNCHANGED <<now, runner, edits, faults, again, cut, stale, slipped>>
      /\ req.pc = "create" /\ table[w] = NoRow /\ runs' = [runs EXCEPT ![w] = {}]
      /\ table' = [table EXCEPT ![w] = req.clone] /\ req'.pc = "idle"
  BY InBounds DEF Create, Quiet, Shapes
<1>2. req.clone \in Rows /\ req.clone.rule.mode = "once"
  BY <1>1 DEF Asking
<1>3. /\ table'[w] = req.clone /\ \A s \in Schedule \ {w} : table'[s] = table[s]
      /\ runs'[w] = {} /\ \A s \in Schedule \ {w} : runs'[s] = runs[s]
  BY <1>1 DEF Types
<1>4. \A s : /\ Queueing(s)' <=> Queueing(s)
             /\ \A rec : Picked(s, rec)' <=> Picked(s, rec)
  BY <1>1 DEF Queueing, Picked
<1>5. Fresh(w)'
  <2>1. req.clone.rule.mode \notin Recurring
    BY <1>2 DEF Recurring
  <2> QED  BY <1>3, <2>1 DEF Fresh, Waits
<1>6. Moved(w)'
  BY <1>1 DEF Moved
<1> QED  BY <1>1, <1>3, <1>4, <1>5, <1>6, OthersOnce

LEMMA DeleteOnce ==
  ASSUME Shapes, Shapes', Once, NEW w \in Schedule, Delete(w)
  PROVE  Once'
<1>1. /\ Types /\ table' = [table EXCEPT ![w] = NoRow]
      /\ UNCHANGED <<now, runner, req, faults, history>>
  BY DEF Delete, Shapes
<1>2. ~Present(w)' /\ \A s \in Schedule \ {w} : table'[s] = table[s]
  BY <1>1 DEF Types, Present
<1>3. \A s : /\ Queueing(s)' <=> Queueing(s)
             /\ \A rec : Picked(s, rec)' <=> Picked(s, rec)
  BY <1>1 DEF Queueing, Picked
<1>4. ASSUME w \notin cut' \cup stale'
      PROVE  Fresh(w)' /\ Moved(w)'
  <2>1. Fresh(w)
    BY <1>1, <1>4 DEF Once, history
  <2> QED  BY <1>1, <1>2, <1>3, <2>1 DEF Fresh, Moved, history
<1>5. \/ req.pc \notin {"create", "rollbackRead", "rollbackWrite"}
      \/ req.pc \in {"create", "rollbackRead", "rollbackWrite"}
  OBVIOUS
<1> QED  BY <1>1, <1>2, <1>3, <1>4, <1>5, OthersOnce DEF history

LEMMA RequestWriteOnce ==
  ASSUME Shapes, Shapes', Once, RequestWrite
  PROVE  Once'
<1>0. PICK w \in Schedule, before \in Rows, new \in Rows :
         w = req.id /\ before = req.before /\ new = Over(req.upd, before)
  <2>1. req.id \in Schedule /\ req.before \in Rows /\ req.upd \in Updates
    BY DEF Shapes, Asking, RequestWrite
  <2> QED  BY <2>1, Overlaid
<1>1. /\ Types /\ Passing /\ Asking /\ now \in Nat /\ now \in Instants /\ req \in Requests
      /\ UNCHANGED <<now, runner, edits, faults, again, cut>>
      /\ req.pc = "write" /\ Store(w, req.upd, req.row, before)
      /\ req' = IF req.kind = "move" THEN [req EXCEPT !.pc = "create"] ELSE Quiet
      /\ runs' = IF req.kind = "moveOnce" THEN [runs EXCEPT ![w] = @ \ {req.upd.slot}] ELSE runs
  BY <1>0, InBounds DEF Shapes, RequestWrite, Types
<1>2. /\ w \in Schedule /\ before \in Rows /\ req.row \in Rows /\ req.upd \in Updates
      /\ Asks(req.kind, before, req.upd)
  BY <1>0, <1>1 DEF Asking
<1>3. /\ table'[w] = Over(req.upd, req.row) /\ table'[w] \in Rows
      /\ \A r \in Schedule \ {w} : table'[r] = table[r]
      /\ stale \subseteq stale'
      /\ w \notin stale' => table[w] = before /\ req.row = before
  BY <1>1, <1>2, StoredRow
<1>4. /\ \A s \in Schedule : runs'[s] \subseteq runs[s]
      /\ req.kind = "moveOnce" => runs'[w] = runs[w] \ {req.upd.slot}
      /\ req.kind # "moveOnce" => runs' = runs
  BY <1>1, <1>2 DEF Types
<1>5. /\ req'.id # w => req'.pc = "idle"
      /\ req.kind # "move" => req'.pc = "idle"
      /\ req.kind = "move" => req'.upd = req.upd /\ req'.before = before
  BY <1>0, <1>1 DEF Quiet, Requests
<1>6. \A s : /\ Queueing(s)' <=> Queueing(s)
             /\ \A rec : Picked(s, rec)' <=> Picked(s, rec)
  BY <1>1 DEF Queueing, Picked
<1>7. ASSUME w \notin cut' \cup stale'
      PROVE  Fresh(w)' /\ Moved(w)'
  <2>1. /\ Fresh(w) /\ table[w] = before /\ table'[w] = new /\ new \in Rows
        /\ Present(w) /\ Present(w)'
    <3>1. /\ Fresh(w) /\ table[w] = before /\ table'[w] = new /\ new \in Rows
      BY <1>0, <1>1, <1>2, <1>3, <1>7 DEF Once
    <3>2. NoRow \notin Rows
      BY ScheduleRunnerAssumption DEF Rows
    <3> QED  BY <3>1, <3>2 DEF Present
  <2>2. runs[w] \subseteq 0..now /\ runs'[w] \subseteq runs[w] /\ runs[w] \subseteq Nat
    BY <1>1, <1>2, <1>4 DEF Once
  <2>3. /\ \/ new.next = NoTime
           \/ /\ new.rule.mode = before.rule.mode /\ new.slot = before.slot
              /\ new.next = before.next
           \/ new.rule.mode \in Recurring /\ new.slot > now
           \/ /\ new.rule.mode \in Recurring /\ before.rule.mode \in Recurring
              /\ before.next # NoTime /\ new.slot > before.next
           \/ req.kind = "moveOnce" /\ new.rule.mode = "once" /\ new.slot = req.upd.slot
        /\ req.kind = "move" => before.rule.mode \in Recurring
    BY <1>0, <1>1, <1>2, AskedLater
  <2>4. before.next # NoTime => Waits(w, before)
    BY <2>1 DEF Fresh
  <2>5. \A rec \in Rows : Picked(w, rec) =>
          /\ rec.slot \notin runs[w] /\ rec.slot <= now /\ rec.slot \in Nat
          /\ before.next # NoTime /\ before.rule.mode \in Recurring => rec.slot <= before.slot
    BY <1>1, <2>1, ListedDue, DueIs DEF Fresh
  <2>6. ASSUME new.next # NoTime
        PROVE  Waits(w, new)' /\ \A rec \in Rows : Picked(w, rec) /\ new.rule.mode \in Recurring
                                                     => rec.slot <= new.slot
    <3>1. new.slot \in Nat
      BY <2>1, <2>6, RowFields
    <3>2. CASE /\ new.rule.mode = before.rule.mode /\ new.slot = before.slot
               /\ new.next = before.next
      BY <1>6, <2>2, <2>4, <2>5, <2>6, <3>2 DEF Waits
    <3>3. CASE new.rule.mode \in Recurring /\ new.slot > now
      <4>1. \A r \in runs'[w] : r < new.slot
        BY <1>1, <2>2, <3>1, <3>3
      <4>2. \A rec \in Rows : Picked(w, rec) => rec.slot <= new.slot
        BY <1>1, <2>5, <3>1, <3>3
      <4> QED  BY <3>3, <4>1, <4>2 DEF Waits
    <3>4. CASE /\ new.rule.mode \in Recurring /\ before.rule.mode \in Recurring
               /\ before.next # NoTime /\ new.slot > before.next
      <4>1. /\ \A r \in runs[w] : r < new.slot
            /\ before.slot < new.slot /\ before.slot \in Nat
        <5>1. w \in Schedule /\ before \in Rows
          BY <1>2
        <5> QED  BY <2>1, <2>2, <2>4, <2>6, <3>4, <5>1, WaitsLater, RowFields
      <4>2. \A rec \in Rows : Picked(w, rec) => rec.slot <= new.slot
        BY <2>5, <3>1, <3>4, <4>1
      <4> QED  BY <2>2, <3>4, <4>1, <4>2 DEF Waits
    <3>5. CASE req.kind = "moveOnce" /\ new.rule.mode = "once" /\ new.slot = req.upd.slot
      <4>1. new.slot \notin runs'[w] /\ new.rule.mode \notin Recurring
        BY <1>4, <3>5 DEF Recurring
      <4> QED  BY <3>5, <4>1 DEF Waits
    <3> QED  BY <2>3, <2>6, <3>2, <3>3, <3>4, <3>5
  <2>7. Fresh(w)'
    BY <1>6, <2>1, <2>2, <2>5, <2>6 DEF Fresh
  <2>8. Moved(w)'
    <3>1. CASE req.kind # "move"
      BY <1>5, <3>1 DEF Moved
    <3>2. CASE req.kind = "move"
      <4>1. /\ req'.upd = req.upd /\ req'.before = before /\ runs' = runs
            /\ before.rule.mode \in Recurring
        BY <1>4, <1>5, <2>3, <3>2
      <4>2. before.next # NoTime => Waits(w, before)'
        BY <1>6, <2>4, <4>1 DEF Waits
      <4>3. table'[w] = Over(req'.upd, before) /\ req'.before = before
        BY <1>0, <2>1, <4>1
      <4> QED  BY <1>6, <2>5, <4>1, <4>2, <4>3 DEF Moved
    <3> QED  BY <3>1, <3>2
  <2> QED  BY <2>7, <2>8
<1>8. \A s \in Schedule \ {w} : req'.id # s \/ req'.pc = "idle"
  BY <1>5
<1> QED  BY <1>1, <1>2, <1>3, <1>4, <1>6, <1>7, <1>8, OthersOnce

LEMMA RollbackOnce ==
  ASSUME Shapes, Shapes', Once, Rollback
  PROVE  Once'
<1>0. PICK w \in Schedule, before \in Rows : w = req.id /\ before = req.before
  BY DEF Shapes, Asking, Rollback
<1>1. /\ Types /\ Passing /\ Asking /\ req.pc = "rollbackWrite"
      /\ UNCHANGED <<now, runner, edits, faults, runs, again, cut>>
      /\ Store(w, Undo, req.row, Over(req.upd, before)) /\ req'.pc = "idle"
  BY <1>0 DEF Shapes, Rollback, Quiet, Undo
<1>2. /\ w \in Schedule /\ before \in Rows /\ req.row \in Rows /\ Undo \in Updates
      /\ Over(Undo, req.row) \in Rows /\ Over(Undo, req.row).rule = before.rule
      /\ Over(Undo, req.row).next = before.next /\ Over(Undo, req.row).slot = before.slot
      /\ before.rule.mode \in Recurring
  BY <1>0, <1>1, UndoIs DEF Asking, Asks, Undo
<1>3. /\ table'[w] = Over(Undo, req.row)
      /\ \A r \in Schedule \ {w} : table'[r] = table[r]
      /\ stale \subseteq stale'
      /\ w \notin stale' => table[w] = Over(req.upd, before) /\ req.row = Over(req.upd, before)
  BY <1>1, <1>2, StoredRow
<1>4. \A s : /\ Queueing(s)' <=> Queueing(s)
             /\ \A rec : Picked(s, rec)' <=> Picked(s, rec)
  BY <1>1 DEF Queueing, Picked
<1>5. ASSUME w \notin cut' \cup stale'
      PROVE  Fresh(w)'
  <2>1. Fresh(w) /\ Moved(w) /\ Present(w)
    BY <1>1, <1>2, <1>3, <1>5, AskedIs, InBounds, Overlaid DEF Once
  <2>2. before.next # NoTime =>
          Waits(w, before) /\ \A rec \in Rows : Picked(w, rec) => rec.slot <= before.slot
    BY <1>0, <1>1, <2>1 DEF Moved
  <2>3. before.next # NoTime => Waits(w, table[w])'
    BY <1>1, <1>2, <1>3, <1>4, <2>2 DEF Waits
  <2> QED  BY <1>1, <1>2, <1>3, <1>4, <2>1, <2>2, <2>3 DEF Fresh
<1>6. Moved(w)'
  BY <1>1 DEF Moved
<1> QED  BY <1>1, <1>2, <1>3, <1>4, <1>5, <1>6, OthersOnce

LEMMA OnceInit == Init => Once
<1> SUFFICES ASSUME Init PROVE Once
  OBVIOUS
<1>1. /\ runs = [s \in Schedule |-> {}] /\ again = {} /\ runner = Idle /\ req = Quiet
  BY DEF Init
<1>2. \A s \in Schedule : Fresh(s) /\ Moved(s)
  BY <1>1 DEF Fresh, Moved, Waits, Picked, Idle, Quiet
<1> QED  BY <1>1, <1>2 DEF Once, RunOnce

LEMMA OnceStep == Shapes /\ Shapes' /\ Once /\ [Next]_vars => Once'
<1> SUFFICES ASSUME Shapes, Shapes', Once, [Next]_vars PROVE Once'
  OBVIOUS
<1>1. Types /\ Passing /\ Asking
  BY DEF Shapes
<1>2. CASE UNCHANGED vars
  <2>1. UNCHANGED <<now, table, runner, history, req>>
    BY <1>2 DEF vars, history
  <2> QED  BY <2>1, RequestGoesOnOnce
<1>3. CASE Tick
  BY <1>3, TickOnce
<1>4. CASE RunnerStep
  BY <1>1, <1>4, BeginPassOnce, ConsiderOnce, EndPassOnce, QueuedOnce, UpdateReadOnce,
     UpdateWriteOnce DEF RunnerStep
<1>5. CASE RequestStep
  BY <1>5, RequestReadOnce, RequestWriteOnce, RollbackOnce, CreateOnce DEF RequestStep
<1>6. CASE Deferred \/ UpdateFails \/ AuditFails \/ Restart \/ CreateFails
  BY <1>6, DeferredOnce, UpdateFailsOnce, AuditFailsOnce, RestartOnce, CreateFailsOnce
<1>7. ASSUME NEW s \in Schedule, Ask(s)
      PROVE  Once'
  <2>1. CASE Delete(s)
    BY <2>1, DeleteOnce
  <2>2. CASE \E kind, upd, clone : Begins(s, kind, upd, clone)
    BY <2>2, BeginsOnce
  <2> QED  BY <1>1, <1>7, <2>1, <2>2, AskBegins
<1> QED  BY <1>2, <1>3, <1>4, <1>5, <1>6, <1>7 DEF Next

-----------------------------------------------------------------------------
(* None is passed over: what an update sets *)

\* Behind the previous run a scan looks at every date of the phase.
LEMMA Follows ==
  ASSUME NEW rule \in Rule, rule.mode \in Recurring, NEW after \in Instants,
         NEW previous \in Instants, NEW d \in Dates, d > DateOf(previous),
         OnPhase(rule, DateOf(previous), DateOf(previous)),
         OnPhase(rule, DateOf(previous), d), d \notin rule.skips, RunAt(d) > after
  PROVE  d \in Candidates(rule, after, previous, NoTime)
<1> DEFINE p == DateOf(previous)
<1>1. p \in Dates /\ previous # NoTime
  BY DEF Instants, NoTime
<1>2. Anchor(after, previous, NoTime) = p
  BY <1>1 DEF Anchor
<1>3. CASE rule.mode = "monthly"
  <2>1. /\ rule.every \in Nat \ {0} /\ Month(p) \in Int /\ Month(d) \in Int
        /\ (Month(d) - Month(p)) % rule.every = 0
    BY <1>1, <1>3, MonthOf DEF Rule, OnPhase
  <2>2. Month(p) <= Month(d) /\ Month(p) # Month(d)
    <3>1. p <= d /\ p # d
      BY <1>1 DEF Dates
    <3>2. Month(p) = Month(d) => p = d
      BY <1>1, <1>3, <3>1, OnePhase, Zenon
    <3> QED  BY <1>1, <3>1, <3>2, MonthOrder
  <2>3. Month(d) >= Month(p) + rule.every
    <3>1. Month(p) < Month(d)
      BY <2>1, <2>2
    <3> QED  BY <2>1, <3>1, NextOfPhase, Zenon
  <2>4. FromDate(rule, after, previous, d)
    BY <1>1, <1>3, <2>3 DEF FromDate
  <2> QED  BY <1>2, <2>4 DEF Candidates
<1>4. CASE rule.mode # "monthly"
  <2>1. FromDate(rule, after, previous, d)
    BY <1>1, <1>4 DEF FromDate
  <2> QED  BY <1>2, <2>1 DEF Candidates
<1> QED  BY <1>3, <1>4

\* Without a previous run it looks at every date from an instant on.
LEMMA FollowsNow ==
  ASSUME NEW rule \in Rule, rule.mode \in Recurring, NEW after \in Instants,
         NEW phase \in Times, NEW d \in Dates,
         OnPhase(rule, Anchor(after, NoTime, phase), d), d \notin rule.skips, RunAt(d) > after
  PROVE  d \in Candidates(rule, after, NoTime, phase)
<1>1. LocalDate(after) \in Dates /\ after \in Nat
  BY InstantsBelow DEF Instants
<1>2. LocalDate(after) <= d
  BY <1>1, DateOrder DEF Dates
<1>3. Month(LocalDate(after)) <= Month(d)
  BY <1>1, <1>2, MonthOrder
<1>4. /\ d >= LocalDate(after)
      /\ Month(d) >= Month(LocalDate(after))
  BY <1>1, <1>2, <1>3, MonthOf DEF Dates
<1>5. FromDate(rule, after, NoTime, d)
  BY <1>4 DEF FromDate
<1> QED  BY <1>5 DEF Candidates

LEMMA PassedOverIs ==
  ASSUME NEW old \in Rows, NEW new \in Rows, PassedOver(old, new)
  PROVE  /\ old.rule.mode \in Recurring /\ old.rule.mode = new.rule.mode
         /\ old.next # NoTime /\ new.next # NoTime /\ new.next # old.next
         /\ \E d \in Dates :
              /\ OnPhase(new.rule, DateOf(old.slot), d) /\ d \notin new.rule.skips
              /\ RunAt(d) > now /\ RunAt(d) >= old.next /\ RunAt(d) < new.next
<1> DEFINE rec == [old EXCEPT !.rule = new.rule]
<1>1. rec.rule = new.rule /\ rec.slot = old.slot /\ rec.next = old.next
  BY DEF Rows, Row
<1>2. /\ old.rule.mode \in Recurring /\ old.rule.mode = new.rule.mode
      /\ old.next # NoTime /\ new.next # NoTime /\ new.next # old.next
      /\ \E d \in Coming(rec) : RunAt(d) < new.next
  BY DEF PassedOver
<1> HIDE DEF rec
<1> QED  BY <1>1, <1>2 DEF Coming

\* An occurrence of a date behind that of an instant is behind the instant.
LEMMA Behind ==
  ASSUME NEW t \in Nat, NEW d \in Dates
  PROVE  /\ RunAt(d) \in Nat
         /\ d > DateOf(t) => RunAt(d) > t
         /\ RunAt(d) >= t => d >= DateOf(t)
         /\ RunAt(d) <= t => d <= DateOf(t)
<1>1. RunAt(d) \in Nat /\ DateOf(RunAt(d)) = d /\ d \in Nat /\ DateOf(t) \in Nat
  BY RunDate, DateOrder DEF Instants, Dates
<1>2. /\ t <= RunAt(d) => DateOf(t) <= d
      /\ RunAt(d) <= t => d <= DateOf(t)
  BY <1>1, DateOrder
<1> QED  BY <1>1, <1>2

\* After a run, the next occurrence behind it.
LEMMA NotedGood ==
  ASSUME Types, NEW s, NEW snap \in Rows, NEW new \in Rows, IsDue(snap, now),
         new.rule = snap.rule, new.slot = new.next,
         snap.rule.mode \in Recurring =>
           new.next = NextRunAt(snap.rule, now, snap.next, NoTime),
         snap.rule.mode \notin Recurring => new.next = NoTime,
         Good(s, snap), Strayed(snap) => s \in slipped
  PROVE  /\ Good(s, new) /\ Kept(snap, new)
         /\ new.next # NoTime => DateOf(new.next) > DateOf(snap.next)
<1>1. CASE new.next = NoTime
  BY <1>1, PassedOverIs DEF Good, Kept
<1>2. CASE new.next # NoTime
  <2> DEFINE rule == snap.rule
             prev == snap.next
             p == DateOf(prev)
             n == DateOf(new.next)
  <2>1. /\ rule \in Rule /\ rule.mode \in Recurring /\ now \in Instants /\ now \in Nat
        /\ prev \in Instants /\ prev # NoTime /\ prev \in Nat /\ prev <= now
        /\ snap.slot \in Nat /\ snap.slot <= prev
        /\ new.next = NextRunAt(rule, now, prev, NoTime) /\ NoTime \in Times /\ prev \in Times
    BY <1>2, InBounds, DueIs, RowFields DEF Times, IsDue
  <2>2. p \in Dates /\ Anchor(now, prev, NoTime) = p
    BY <2>1 DEF Instants, Anchor
  <2>3. /\ new.next \in Instants /\ new.next > now /\ new.next = RunAt(n)
        /\ n \in Candidates(rule, now, prev, NoTime)
        /\ \A d \in Candidates(rule, now, prev, NoTime) : RunAt(d) >= new.next
        /\ OnPhase(rule, p, n) /\ OnPhase(rule, n, n)
    BY <1>2, <2>1, <2>2, NextFound
  <2>4. n \in Dates /\ n > p
    <3>1. n \in Dates /\ FromDate(rule, now, prev, n)
      BY <2>3 DEF Candidates
    <3>2. CASE rule.mode = "monthly"
      <4>1. Month(n) >= Month(p) + rule.every /\ rule.every \in Nat \ {0}
        BY <2>1, <3>1, <3>2 DEF FromDate, Rule
      <4>2. ~(Month(n) <= Month(p))
        BY <2>2, <3>1, <4>1, MonthOf
      <4>3. ~(n <= p)
        BY <2>2, <3>1, <4>2, MonthOrder, Zenon
      <4> QED  BY <2>2, <3>1, <4>3 DEF Dates
    <3>3. CASE rule.mode # "monthly"
      BY <2>1, <3>1, <3>3 DEF FromDate
    <3> QED  BY <3>1, <3>2, <3>3
  <2> HIDE DEF rule, prev, p, n
  <2>5. ASSUME ~Strayed(snap)
        PROVE  /\ DateOf(snap.slot) = p /\ OnPhase(rule, p, p)
               /\ \A d \in Dates :
                    /\ OnPhase(rule, p, d) /\ d \notin rule.skips /\ RunAt(d) > now
                    => RunAt(d) >= new.next
    <3>1. /\ DateOf(snap.slot) = p /\ OnPhase(rule, p, p) /\ snap.slot = RunAt(p)
      BY <2>1, <2>5 DEF Strayed, Good, rule, prev, p
    <3>2. ASSUME NEW d \in Dates, OnPhase(rule, p, d), d \notin rule.skips, RunAt(d) > now
          PROVE  RunAt(d) >= new.next
      <4>1. d > p
        <5>1. RunAt(d) \in Nat /\ RunAt(p) \in Nat /\ RunAt(p) < RunAt(d)
          BY <2>1, <2>2, <3>1, <3>2, Behind
        <5> QED  BY <2>2, <3>2, <5>1, RunOrder
      <4>2. d \in Candidates(rule, now, prev, NoTime)
        BY <2>1, <3>1, <3>2, <4>1, Follows DEF p
      <4> QED  BY <2>3, <4>2
    <3> QED  BY <3>1, <3>2
  <2>6. Kept(snap, new)
    <3>1. SUFFICES ASSUME ~Strayed(snap), PassedOver(snap, new) PROVE FALSE
      BY DEF Kept
    <3>2. PICK d \in Dates :
            /\ OnPhase(rule, DateOf(snap.slot), d) /\ d \notin rule.skips
            /\ RunAt(d) > now /\ RunAt(d) < new.next
      BY <3>1, PassedOverIs DEF rule
    <3> QED  BY <2>1, <2>3, <2>5, <3>1, <3>2, Behind DEF Instants
  <2>7. Good(s, new)
    <3>1. ASSUME s \notin slipped PROVE Ahead(rule, new.next)
      <4>1. ASSUME NEW d \in Dates
            PROVE  OnPhase(rule, n, d) <=> OnPhase(rule, p, d)
        BY <2>1, <2>2, <2>3, <2>4, OnePhase
      <4> QED  BY <2>5, <3>1, <4>1 DEF Ahead, n
    <3>2. ~(new.slot < new.next)
      BY <2>3 DEF Instants
    <3>3. /\ new.slot = RunAt(DateOf(new.slot))
          /\ OnPhase(new.rule, DateOf(new.slot), DateOf(new.slot))
          /\ s \notin slipped => Ahead(new.rule, new.slot)
      BY <2>3, <3>1 DEF rule, n
    <3> QED  BY <3>2, <3>3 DEF Good
  <2> QED  BY <2>4, <2>6, <2>7 DEF n, p, prev
<1> QED  BY <1>1, <1>2


\* After a skip, the next occurrence behind the one that is skipped.
LEMMA SkippedGood ==
  ASSUME Types, NEW s, NEW snap \in Rows, NEW new \in Rows, snap.next # NoTime,
         new.rule = WithSkip(snap.rule, DateOf(snap.next)), new.slot = new.next,
         snap.rule.mode \in Recurring =>
           new.next = NextRunAt(new.rule, snap.next, snap.next, NoTime),
         snap.rule.mode \notin Recurring => new.next = NoTime,
         Good(s, snap), Strayed(snap) => s \in slipped
  PROVE  Good(s, new) /\ Kept(snap, new)
<1>1. CASE new.next = NoTime
  BY <1>1, PassedOverIs DEF Good, Kept
<1>2. CASE new.next # NoTime
  <2> DEFINE rule == new.rule
             prev == snap.next
             p == DateOf(prev)
             n == DateOf(new.next)
  <2>1. /\ snap.rule \in Rule /\ snap.rule.mode \in Recurring
        /\ prev \in Instants /\ prev # NoTime /\ prev \in Nat
        /\ snap.slot \in Nat /\ snap.slot <= prev
        /\ new.next = NextRunAt(rule, prev, prev, NoTime) /\ NoTime \in Times /\ prev \in Times
        /\ now \in Nat
    BY <1>2, RowFields, InBounds DEF Times
  <2>2. p \in Dates /\ Anchor(prev, prev, NoTime) = p
    BY <2>1 DEF Instants, Anchor
  <2>3. /\ rule \in Rule /\ rule.mode \in Recurring /\ rule.skips = snap.rule.skips \cup {p}
        /\ \A a, e : OnPhase(rule, a, e) <=> OnPhase(snap.rule, a, e)
    BY <2>1, <2>2, SkippedRule
  <2>4. /\ new.next \in Instants /\ new.next > prev /\ new.next = RunAt(n)
        /\ n \in Candidates(rule, prev, prev, NoTime)
        /\ \A d \in Candidates(rule, prev, prev, NoTime) : RunAt(d) >= new.next
        /\ OnPhase(rule, p, n) /\ OnPhase(rule, n, n)
    BY <1>2, <2>1, <2>2, <2>3, NextFound
  <2>5. n \in Dates
    BY <2>4 DEF Candidates
  <2> HIDE DEF rule, prev, p, n
  <2>6. ASSUME ~Strayed(snap)
        PROVE  /\ DateOf(snap.slot) = p /\ OnPhase(rule, p, p) /\ snap.slot = RunAt(p)
               /\ \A d \in Dates :
                    /\ OnPhase(rule, p, d) /\ d \notin rule.skips /\ d >= p
                    => RunAt(d) >= new.next
    <3>1. /\ DateOf(snap.slot) = p /\ OnPhase(rule, p, p) /\ snap.slot = RunAt(p)
      BY <2>1, <2>3, <2>6 DEF Strayed, Good, rule, prev, p
    <3>2. ASSUME NEW d \in Dates, OnPhase(rule, p, d), d \notin rule.skips, d >= p
          PROVE  RunAt(d) >= new.next
      <4>1. d > p
        BY <2>2, <2>3, <3>2 DEF Dates
      <4>2. RunAt(d) > prev
        BY <2>1, <4>1, Behind DEF p
      <4>3. d \in Candidates(rule, prev, prev, NoTime)
        BY <2>1, <2>3, <3>1, <3>2, <4>1, <4>2, Follows DEF p
      <4> QED  BY <2>4, <4>3
    <3> QED  BY <3>1, <3>2
  <2>7. Kept(snap, new)
    <3>1. SUFFICES ASSUME ~Strayed(snap), PassedOver(snap, new) PROVE FALSE
      BY DEF Kept
    <3>2. PICK d \in Dates :
            /\ OnPhase(rule, DateOf(snap.slot), d) /\ d \notin rule.skips
            /\ RunAt(d) >= prev /\ RunAt(d) < new.next
      BY <3>1, PassedOverIs DEF rule, prev
    <3>3. d >= p
      BY <2>1, <3>2, Behind DEF p
    <3> QED  BY <2>1, <2>4, <2>6, <3>1, <3>2, <3>3, Behind DEF Instants
  <2>8. Good(s, new)
    <3>1. ASSUME s \notin slipped PROVE Ahead(rule, new.next)
      <4>1. ASSUME NEW d \in Dates
            PROVE  OnPhase(rule, n, d) <=> OnPhase(rule, p, d)
        BY <2>2, <2>3, <2>4, <2>5, OnePhase
      <4>2. ASSUME NEW d \in Dates, OnPhase(rule, p, d), d \notin rule.skips, RunAt(d) > now
            PROVE  RunAt(d) >= new.next
        <5>1. Ahead(snap.rule, snap.slot)
          BY <2>1, <3>1 DEF Good, prev
        <5>2. RunAt(d) >= RunAt(p)
          BY <2>3, <2>6, <3>1, <4>2, <5>1 DEF Ahead
        <5>3. d >= p
          BY <2>2, <5>2, RunOrder
        <5> QED  BY <2>6, <3>1, <4>2, <5>3
      <4> QED  BY <4>1, <4>2 DEF Ahead, n
    <3>2. ~(new.slot < new.next)
      BY <2>4 DEF Instants
    <3>3. /\ new.slot = RunAt(DateOf(new.slot))
          /\ OnPhase(new.rule, DateOf(new.slot), DateOf(new.slot))
          /\ s \notin slipped => Ahead(new.rule, new.slot)
      BY <2>4, <3>1 DEF rule, n
    <3> QED  BY <3>2, <3>3 DEF Good
  <2> QED  BY <2>7, <2>8
<1> QED  BY <1>1, <1>2

\* A run that is put off still waits for its occurrence.
LEMMA PutOffGood ==
  ASSUME Types, NEW s, NEW snap \in Rows, NEW new \in Rows, IsDue(snap, now),
         new.rule = snap.rule, new.slot = snap.slot, new.next = now + Delay, Good(s, snap)
  PROVE  /\ Good(s, new)
         /\ Kept(snap, new)
         /\ \A old \in Rows :
              old.next # NoTime /\ DateOf(old.next) > DateOf(snap.next) => Kept(old, new)
<1>1. /\ now \in Nat /\ now \in Instants /\ snap.next \in Nat /\ snap.slot \in Nat
      /\ snap.next <= now /\ snap.slot <= now /\ snap.slot <= snap.next /\ snap.next # NoTime
      /\ Delay \in Nat \ {0} /\ now + Delay \in Nat
  BY InBounds, DueIs, RowFields, SMT DEF IsDue
<1>2. Good(s, new)
  <2>1. SUFFICES ASSUME new.rule.mode \in Recurring
                 PROVE  Ahead(new.rule, new.slot)
    BY <1>1 DEF Good
  <2>2. ASSUME NEW d \in Dates, RunAt(d) > now PROVE RunAt(d) >= snap.slot
    BY <1>1, <2>2, Behind
  <2> QED  BY <2>2 DEF Ahead
<1>3. Kept(snap, new)
  <2>1. SUFFICES ASSUME ~Strayed(snap), ~Strayed(new), PassedOver(snap, new) PROVE FALSE
    BY DEF Kept
  <2>2. PICK d \in Dates : RunAt(d) > now /\ RunAt(d) < now + Delay
    BY <2>1, PassedOverIs
  <2>3. /\ DateOf(snap.next) = DateOf(snap.slot) /\ DateOf(now + Delay) = DateOf(snap.slot)
        /\ snap.slot = RunAt(DateOf(snap.slot))
    <3>1. snap.rule.mode \in Recurring /\ new.next # NoTime
      BY <2>1, PassedOverIs
    <3> QED  BY <1>1, <2>1, <3>1 DEF Good, Strayed
  <2>4. RunAt(d) \in Nat /\ d >= DateOf(snap.next) /\ d <= DateOf(now + Delay)
    <3>1. RunAt(d) \in Nat
      BY <1>1, Behind
    <3>2. RunAt(d) >= snap.next /\ RunAt(d) <= now + Delay
      BY <1>1, <2>2, <3>1
    <3> QED  BY <1>1, <3>1, <3>2, Behind
  <2>5. d = DateOf(snap.slot)
    <3>1. DateOf(snap.slot) \in Nat /\ d \in Nat
      BY <1>1, DateOrder DEF Dates
    <3>2. d >= DateOf(snap.slot) /\ d <= DateOf(snap.slot)
      BY <2>3, <2>4
    <3> QED  BY <3>1, <3>2
  <2> QED  BY <1>1, <2>2, <2>3, <2>4, <2>5
<1>4. ASSUME NEW old \in Rows, old.next # NoTime, DateOf(old.next) > DateOf(snap.next)
      PROVE  Kept(old, new)
  <2>1. SUFFICES ASSUME ~Strayed(new), PassedOver(old, new) PROVE FALSE
    BY DEF Kept
  <2>2. PICK d \in Dates : RunAt(d) >= old.next /\ RunAt(d) < now + Delay
    BY <2>1, PassedOverIs
  <2>3. DateOf(now + Delay) = DateOf(snap.slot)
    <3>1. new.next # NoTime
      BY <2>1, PassedOverIs
    <3> QED  BY <2>1, <3>1 DEF Strayed
  <2>4. old.next \in Nat /\ d >= DateOf(old.next)
    BY <1>4, <2>2, RowFields, Behind
  <2>5. d <= DateOf(snap.slot) /\ DateOf(snap.slot) <= DateOf(snap.next)
    <3>1. RunAt(d) \in Nat
      BY <1>1, Behind
    <3> QED  BY <1>1, <2>2, <2>3, <3>1, Behind, DateOrder
  <2>6. /\ DateOf(snap.slot) \in Nat /\ DateOf(snap.next) \in Nat /\ DateOf(old.next) \in Nat
        /\ d \in Nat
    BY <1>1, <2>4, DateOrder DEF Dates
  <2> QED  BY <1>4, <2>4, <2>5, <2>6
<1> QED  BY <1>2, <1>3, <1>4

\* A run counted from now is the first of its phase to come.
LEMMA FromNowGood ==
  ASSUME Types, NEW s, NEW new \in Rows, NEW phase \in Times, new.slot = new.next,
         new.rule.mode \in Recurring => new.next = NextRunAt(new.rule, now, NoTime, phase)
  PROVE  /\ Good(s, new)
         /\ new.rule.mode \in Recurring /\ new.next # NoTime =>
              /\ OnPhase(new.rule, Anchor(now, NoTime, phase), DateOf(new.next))
              /\ new.next > now
              /\ \A d \in Dates :
                   (/\ OnPhase(new.rule, Anchor(now, NoTime, phase), d)
                    /\ d \notin new.rule.skips /\ RunAt(d) > now) => RunAt(d) >= new.next
<1> DEFINE rule == new.rule
           a == Anchor(now, NoTime, phase)
           n == DateOf(new.next)
<1>1. CASE ~(rule.mode \in Recurring /\ new.next # NoTime)
  BY <1>1 DEF Good
<1>2. CASE rule.mode \in Recurring /\ new.next # NoTime
  <2>1. rule \in Rule /\ now \in Instants /\ NoTime \in Times /\ a \in Dates
    BY RowFields, InBounds, AnchorsAreDates DEF Times
  <2>2. /\ new.next \in Instants /\ new.next > now /\ new.next = RunAt(n)
        /\ n \in Candidates(rule, now, NoTime, phase)
        /\ \A d \in Candidates(rule, now, NoTime, phase) : RunAt(d) >= new.next
        /\ OnPhase(rule, a, n) /\ OnPhase(rule, n, n)
    BY <1>2, <2>1, NextFound
  <2>3. ASSUME NEW d \in Dates, OnPhase(rule, a, d), d \notin rule.skips, RunAt(d) > now
        PROVE  RunAt(d) >= new.next
    <3>1. d \in Candidates(rule, now, NoTime, phase)
      BY <1>2, <2>1, <2>3, FollowsNow
    <3> QED  BY <2>2, <3>1
  <2>4. n \in Dates
    BY <2>2 DEF Candidates
  <2>5. ASSUME NEW d \in Dates
        PROVE  OnPhase(rule, n, d) <=> OnPhase(rule, a, d)
    BY <2>1, <2>2, <2>4, OnePhase
  <2> HIDE DEF rule, a, n
  <2>6. Ahead(rule, new.next)
    BY <2>3, <2>5 DEF Ahead, n
  <2>7. ~(new.slot < new.next)
    BY <2>2 DEF Instants
  <2>8. Good(s, new)
    <3>1. /\ new.slot = RunAt(DateOf(new.slot))
          /\ OnPhase(new.rule, DateOf(new.slot), DateOf(new.slot))
          /\ Ahead(new.rule, new.slot)
      BY <2>2, <2>6 DEF rule, n
    <3> QED  BY <2>7, <3>1 DEF Good
  <2> QED  BY <2>2, <2>3, <2>8 DEF rule, a, n
<1> QED  BY <1>1, <1>2


\* What a request sets, from the row it saw.
LEMMA AskedGood ==
  ASSUME Types, NEW s, NEW kind, NEW before \in Rows, NEW upd, Asks(kind, before, upd),
         Good(s, before), Strayed(before) => s \in slipped
  PROVE  LET new == Over(upd, before)
         IN  /\ new \in Rows /\ Good(s, new)
             /\ kind # "reschedule" => Kept(before, new)
             /\ (/\ kind = "move" /\ before.next # NoTime /\ new.next # NoTime) =>
                  OnPhase(before.rule, DateOf(before.next), DateOf(new.slot))
<1> DEFINE new == Over(upd, before)
<1>1. /\ before.rule \in Rule /\ before.enabled \in BOOLEAN /\ NoTime \in Times
      /\ now \in Instants /\ before.next \in Times
  BY RowFields, InBounds DEF Times
<1>2. CASE kind = "toggle" /\ upd = [enabled |-> ~before.enabled]
  <2>1. (~before.enabled) \in BOOLEAN
    BY <1>1
  <2>2. /\ new \in Rows /\ new.rule = before.rule /\ new.next = before.next
        /\ new.slot = before.slot
    BY <1>2, <2>1, ToggleIs
  <2> HIDE DEF new
  <2>3. Good(s, new)
    BY <2>2 DEF Good
  <2>4. Kept(before, new)
    BY <2>2, PassedOverIs DEF Kept
  <2> QED  BY <1>2, <2>2, <2>3, <2>4 DEF new
<1>3. CASE kind = "skip" /\ before.next # NoTime /\ upd = Sets(Skipping(before))
  <2>1. /\ new \in Rows /\ new.rule = WithSkip(before.rule, DateOf(before.next))
        /\ new.slot = new.next
        /\ before.rule.mode \in Recurring =>
             new.next = NextRunAt(new.rule, before.next, before.next, NoTime)
        /\ before.rule.mode \notin Recurring => new.next = NoTime
    BY <1>3, SkipIs
  <2> HIDE DEF new
  <2>2. Good(s, new) /\ Kept(before, new)
    BY <1>3, <2>1, SkippedGood
  <2> QED  BY <1>3, <2>1, <2>2 DEF new
<1>4. ASSUME NEW rule \in Rule, NEW phase \in Times, upd = NextFromNow(rule, phase)
      PROVE  /\ new \in Rows /\ new.rule = rule /\ new.slot = new.next
             /\ new.next = NextRunAt(new.rule, now, NoTime, phase)
  BY <1>1, <1>4, FromNowIs
<1>5. CASE kind = "reschedule"
  <2>1. PICK rule \in Rules : upd = NextFromNow(rule, NoTime)
    BY <1>5 DEF Asks
  <2>2. rule \in Rule
    BY ScheduleRunnerAssumption
  <2>3. /\ new \in Rows /\ new.slot = new.next
        /\ new.next = NextRunAt(new.rule, now, NoTime, NoTime)
    BY <1>1, <1>4, <2>1, <2>2
  <2> HIDE DEF new
  <2>4. Good(s, new)
    BY <1>1, <2>3, FromNowGood
  <2> QED  BY <1>5, <2>3, <2>4 DEF new
<1>6. CASE kind = "moveOnce"
  <2>1. /\ before.rule.mode = "once"
        /\ \E start \in Starts : upd = NextFromNow([before.rule EXCEPT !.at = start], NoTime)
    BY <1>6 DEF Asks
  <2>2. PICK start \in Starts : upd = NextFromNow([before.rule EXCEPT !.at = start], NoTime)
    BY <2>1
  <2> DEFINE rule == [before.rule EXCEPT !.at = start]
  <2>3. rule \in Rule /\ rule.mode = "once"
    BY <1>1, <2>1, MovedRule, ScheduleRunnerAssumption
  <2> HIDE DEF rule
  <2>4. new \in Rows /\ new.rule = rule
    BY <1>1, <1>4, <2>2, <2>3 DEF rule
  <2> HIDE DEF new
  <2>5. before.rule.mode \notin Recurring /\ new.rule.mode \notin Recurring
    BY <2>1, <2>3, <2>4 DEF Recurring
  <2>6. Good(s, new) /\ Kept(before, new)
    BY <2>4, <2>5, PassedOverIs DEF Good, Kept
  <2> QED  BY <1>6, <2>4, <2>6 DEF new
<1>7. CASE kind = "move"
  <2>1. PICK date \in Dates : /\ before.rule.mode \in Recurring
                              /\ upd = NextFromNow(WithSkip(before.rule, date),
                                                   Phase(before, date))
    BY <1>7 DEF Asks
  <2> DEFINE rule == WithSkip(before.rule, date)
             phase == Phase(before, date)
  <2>2. /\ rule \in Rule /\ rule.mode = before.rule.mode
        /\ \A a, e : OnPhase(rule, a, e) <=> OnPhase(before.rule, a, e)
        /\ phase \in Times /\ phase # NoTime
    BY <1>1, SkippedRule, PhaseIsTime
  <2>3. /\ before.next # NoTime => phase = before.next
        /\ Anchor(now, NoTime, phase) = DateOf(phase)
    BY <2>2 DEF Phase, Anchor
  <2> HIDE DEF rule, phase
  <2>4. /\ new \in Rows /\ new.rule = rule /\ new.slot = new.next
        /\ new.next = NextRunAt(new.rule, now, NoTime, phase)
    BY <1>4, <2>1, <2>2 DEF rule, phase
  <2> HIDE DEF new
  <2>5. /\ Good(s, new)
        /\ new.next # NoTime =>
             /\ OnPhase(rule, DateOf(phase), DateOf(new.next))
             /\ new.next > now
             /\ \A d \in Dates : (/\ OnPhase(rule, DateOf(phase), d)
                                  /\ d \notin rule.skips /\ RunAt(d) > now)
                                   => RunAt(d) >= new.next
    BY <2>1, <2>2, <2>3, <2>4, FromNowGood
  <2>6. Kept(before, new)
    <3>1. SUFFICES ASSUME ~Strayed(before), PassedOver(before, new) PROVE FALSE
      BY DEF Kept
    <3>2. PICK d \in Dates :
            /\ OnPhase(rule, DateOf(before.slot), d) /\ d \notin rule.skips
            /\ RunAt(d) > now /\ RunAt(d) < new.next
      BY <2>4, <3>1, PassedOverIs
    <3>3. before.next # NoTime /\ new.next # NoTime
      BY <2>4, <3>1, PassedOverIs
    <3>4. RunAt(d) >= new.next
      BY <2>3, <2>5, <3>1, <3>2, <3>3 DEF Strayed
    <3>5. RunAt(d) \in Nat /\ new.next \in Nat
      BY <1>1, <2>4, <3>3, RowFields, RunDate DEF Instants
    <3> QED  BY <3>2, <3>4, <3>5
  <2>7. before.next # NoTime /\ new.next # NoTime =>
          OnPhase(before.rule, DateOf(before.next), DateOf(new.slot))
    BY <2>2, <2>3, <2>4, <2>5
  <2> QED  BY <1>7, <2>4, <2>5, <2>6, <2>7 DEF new
<1> HIDE DEF new
<1>8. kind \in {"toggle", "skip", "reschedule", "moveOnce", "move"}
  BY DEF Asks
<1>9. /\ kind = "toggle" => upd = [enabled |-> ~before.enabled]
      /\ kind = "skip" => before.next # NoTime /\ upd = Sets(Skipping(before))
  BY DEF Asks
<1> QED  BY <1>2, <1>3, <1>5, <1>6, <1>7, <1>8, <1>9 DEF new

-----------------------------------------------------------------------------
(* None is passed over: the steps *)

LEMMA SeenLater ==
  ASSUME Types, now' \in Nat, now <= now', slipped \subseteq slipped', stale \subseteq stale',
         NEW s, NEW rec \in Rows
  PROVE  /\ Seen(s, rec) => Seen(s, rec)'
         /\ (s \notin stale' /\ Good(s, rec)) => Good(s, rec)'
<1>1. now \in Nat
  BY InBounds
<1>2. ASSUME Good(s, rec)
      PROVE  Good(s, rec)'
  <2>1. SUFFICES ASSUME rec.rule.mode \in Recurring, rec.next # NoTime
                 PROVE  /\ rec.slot < rec.next => rec.slot <= now'
                        /\ s \notin slipped' => Ahead(rec.rule, rec.slot)'
    BY <1>2 DEF Good
  <2>2. rec.slot \in Nat
    BY <2>1, RowFields
  <2>3. (rec.slot < rec.next => rec.slot <= now) /\ (s \notin slipped => Ahead(rec.rule, rec.slot))
    BY <1>2, <2>1 DEF Good
  <2>4. \A d \in Dates : RunAt(d) \in Nat
    BY <1>1, Behind
  <2>5. Ahead(rec.rule, rec.slot) => Ahead(rec.rule, rec.slot)'
    BY <1>1, <2>4 DEF Ahead
  <2> QED  BY <1>1, <2>2, <2>3, <2>5
<1>3. Strayed(rec) <=> Strayed(rec)'
  BY DEF Strayed
<1> QED  BY <1>2, <1>3 DEF Seen

LEMMA SoundLater ==
  ASSUME Types, UNCHANGED now, slipped \subseteq slipped', stale \subseteq stale',
         NEW s, NEW seen \in Rows, NEW upd \in Updates, Meant(s, seen, upd)
  PROVE  Meant(s, seen, upd)'
<1>1. now' \in Nat /\ now <= now' /\ Over(upd, seen) \in Rows
  BY InBounds, Overlaid
<1>2. Kept(seen, Over(upd, seen)) => Kept(seen, Over(upd, seen))'
  BY DEF Kept, PassedOver, Coming, Strayed
<1> QED  BY <1>1, <1>2, SeenLater DEF Meant

\* Nothing that happens makes an instant, a slip or a lost write undone.
Onward ==
  /\ now' \in Nat /\ now <= now'
  /\ slipped \subseteq slipped' /\ stale \subseteq stale'

LEMMA TableLater ==
  ASSUME Types, TableSeen, Onward,
         \A s \in Schedule : Present(s)' => \/ Present(s) /\ table'[s] = table[s]
                                            \/ Seen(s, table[s])'
  PROVE  TableSeen'
<1>1. ASSUME NEW s \in Schedule, Present(s), table'[s] = table[s]
      PROVE  Seen(s, table[s])'
  <2>1. PICK rec \in Rows : rec = table[s]
    BY <1>1, InBounds
  <2>2. Seen(s, rec)
    BY <1>1, <2>1 DEF TableSeen
  <2>3. Seen(s, rec)'
    BY <2>2, SeenLater DEF Onward
  <2> QED  BY <1>1, <2>1, <2>3
<1> QED  BY <1>1 DEF TableSeen

LEMMA ListedLater ==
  ASSUME Types, PassSeen, Onward, runner'.todo \subseteq runner.todo
  PROVE  \A s \in Schedule, rec \in Rows : <<s, rec>> \in runner'.todo => Seen(s, rec)'
<1> SUFFICES ASSUME NEW s \in Schedule, NEW rec \in Rows, <<s, rec>> \in runner'.todo
             PROVE  Seen(s, rec)'
  OBVIOUS
<1>1. Seen(s, rec)
  BY DEF PassSeen
<1> QED  BY <1>1, SeenLater DEF Onward

LEMMA PassEnds ==
  ASSUME Types, PassSeen, Onward, runner'.todo \subseteq runner.todo,
         runner'.pc \in {"idle", "next"}
  PROVE  PassSeen'
<1>1. \A s \in Schedule, rec \in Rows : <<s, rec>> \in runner'.todo => Seen(s, rec)'
  BY ListedLater
<1> QED  BY <1>1 DEF PassSeen, Busy

LEMMA PassGoesOn ==
  ASSUME Types, PassSeen, Onward, runner'.todo \subseteq runner.todo,
         NEW s, NEW snap, NEW upd,
         runner'.id = s, runner'.snap = snap,
         Seen(s, snap)', runner'.pc = "queue" \/ (runner'.upd = upd /\ Meant(s, snap, upd)')
  PROVE  PassSeen'
<1>1. \A r \in Schedule, rec \in Rows : <<r, rec>> \in runner'.todo => Seen(r, rec)'
  BY ListedLater
<1>2. Seen(runner.id, runner.snap)'
  OBVIOUS
<1>3. runner'.pc # "queue" => Meant(runner.id, runner.snap, runner.upd)'
  OBVIOUS
<1> QED  BY <1>1, <1>2, <1>3 DEF PassSeen

LEMMA PassLater ==
  ASSUME Types, Passing, PassSeen, UNCHANGED <<now, runner>>,
         slipped \subseteq slipped', stale \subseteq stale'
  PROVE  PassSeen'
<1>1. Onward /\ runner'.todo \subseteq runner.todo
  BY InBounds DEF Onward
<1>2. runner \in Passes
  BY DEF Types
<1>3. CASE ~Busy
  BY <1>1, <1>2, <1>3, PassEnds DEF Busy, Passes
<1>4. CASE Busy
  <2>0. PICK s \in Schedule, snap \in Rows : s = runner.id /\ snap = runner.snap
    BY <1>4 DEF Passing
  <2>1. PICK upd : s = runner.id /\ snap = runner.snap /\ upd = runner.upd
    BY <2>0
  <2>2. Seen(s, snap)
    BY <1>4, <2>1 DEF PassSeen
  <2>3. Seen(s, snap)'
    BY <1>1, <2>2, SeenLater DEF Onward
  <2>4. CASE runner.pc = "queue"
    BY <1>1, <2>1, <2>3, <2>4, PassGoesOn
  <2>5. CASE runner.pc \in {"read", "write"}
    <3>1. Meant(s, snap, upd) /\ upd \in Updates
      BY <2>1, <2>5 DEF PassSeen, Passing
    <3>2. Meant(s, snap, upd)'
      BY <3>1, SoundLater
    <3> QED  BY <1>1, <2>1, <2>3, <3>2, PassGoesOn
  <2> QED  BY <1>4, <2>4, <2>5 DEF Busy
<1> QED  BY <1>3, <1>4

LEMMA RequestLater ==
  ASSUME Types, Asking, RequestSeen, now' = now, slipped \subseteq slipped', stale \subseteq stale',
         \/ req'.pc = "idle"
         \/ /\ req.pc # "idle" /\ req'.id = req.id /\ req'.before = req.before
            /\ req'.upd = req.upd /\ req'.kind = req.kind
  PROVE  RequestSeen'
<1>1. CASE req'.pc = "idle"
  BY <1>1 DEF RequestSeen
<1>2. CASE req'.pc # "idle"
  <2>1. PICK s \in Schedule, before \in Rows, upd \in Updates :
          s = req.id /\ before = req.before /\ upd = req.upd
    BY <1>2 DEF Asking
  <2>2. /\ Seen(s, before)
        /\ s \notin stale => Good(s, Over(upd, before))
        /\ s \notin stale /\ req.kind # "reschedule" => Kept(before, Over(upd, before))
    BY <1>2, <2>1 DEF RequestSeen
  <2>3. now' \in Nat /\ now <= now' /\ Over(upd, before) \in Rows
    BY InBounds, Overlaid
  <2>4. Seen(s, before)'
    BY <2>2, <2>3, SeenLater
  <2>5. s \notin stale' => Good(s, Over(upd, before))'
    BY <2>2, <2>3, SeenLater
  <2>6. Kept(before, Over(upd, before)) => Kept(before, Over(upd, before))'
    BY DEF Kept, PassedOver, Coming, Strayed
  <2> QED  BY <1>2, <2>1, <2>2, <2>4, <2>5, <2>6 DEF RequestSeen
<1> QED  BY <1>1, <1>2

LEMMA TickAgreed ==
  ASSUME Shapes, Agreed, Tick
  PROVE  Agreed'
<1>1. /\ Types /\ Passing /\ TableSeen /\ PassSeen /\ RequestSeen
      /\ UNCHANGED <<table, runner, req, edits, faults, history>> /\ now' = now + 1
      /\ runner.pc = "idle" /\ req.pc = "idle" /\ now \in Nat
  BY InBounds DEF Tick, Shapes, Agreed
<1>2. Onward
  BY <1>1 DEF Onward, history
<1>3. TableSeen'
  BY <1>1, <1>2, TableLater DEF Present
<1>4. PassSeen'
  BY <1>1, <1>2, PassEnds
<1>5. RequestSeen'
  BY <1>1 DEF RequestSeen
<1> QED  BY <1>3, <1>4, <1>5 DEF Agreed

\* A step of the pass that writes nothing.
LEMMA PassAgreed ==
  ASSUME Shapes, Agreed, UNCHANGED <<now, table, stale, slipped>>, PassSeen',
         UNCHANGED req \/ req'.pc = "idle"
  PROVE  Agreed'
<1>1. Types /\ Asking /\ TableSeen /\ RequestSeen /\ Onward
  BY InBounds DEF Shapes, Agreed, Onward
<1>2. TableSeen'
  BY <1>1, TableLater DEF Present
<1>3. RequestSeen'
  <2>1. \/ req'.pc = "idle"
        \/ /\ req.pc # "idle" /\ req'.id = req.id /\ req'.before = req.before
           /\ req'.upd = req.upd /\ req'.kind = req.kind
    OBVIOUS
  <2> QED  BY <1>1, <2>1, RequestLater
<1> QED  BY <1>2, <1>3 DEF Agreed

LEMMA BeginPassAgreed ==
  ASSUME Shapes, Agreed, BeginPass
  PROVE  Agreed'
<1>1. /\ Types /\ TableSeen
      /\ runner' = [Idle EXCEPT !.pc = "next", !.at = now,
                      !.todo = {<<s, table[s]>> :
                                  s \in {s \in Schedule : Present(s) /\ IsDue(table[s], now)}}]
      /\ UNCHANGED <<now, table, req, edits, faults, history>>
  BY DEF BeginPass, Shapes, Agreed
<1>2. Onward /\ runner'.pc = "next"
  BY <1>1, InBounds DEF Onward, history, Idle
<1>3. ASSUME NEW s \in Schedule, NEW rec \in Rows, <<s, rec>> \in runner'.todo
      PROVE  Seen(s, rec)'
  <2>1. rec = table[s] /\ Present(s)
    BY <1>1, <1>3 DEF Idle
  <2>2. Seen(s, rec)
    BY <1>1, <2>1 DEF TableSeen
  <2> QED  BY <1>1, <1>2, <2>2, SeenLater DEF Onward
<1>4. PassSeen'
  BY <1>2, <1>3 DEF PassSeen, Busy
<1> QED  BY <1>1, <1>4, PassAgreed DEF history

LEMMA ConsiderAgreed ==
  ASSUME Shapes, Agreed, Consider
  PROVE  Agreed'
<1>1. /\ Types /\ Passing /\ PassSeen /\ runner \in Passes /\ runner.pc = "next"
      /\ UNCHANGED <<now, table, req, edits, faults, history>>
  BY DEF Consider, Shapes, Agreed, Types
<1>2. PICK entry \in runner.todo :
        LET snap == entry[2]
            taken == [runner EXCEPT !.todo = @ \ {entry}, !.id = entry[1], !.snap = snap]
        IN  runner' = IF IsSkipped(snap)
                      THEN [taken EXCEPT !.pc = "read", !.upd = Sets(Skipping(snap))]
                      ELSE [taken EXCEPT !.pc = "queue"]
  BY DEF Consider
<1>3. PICK s \in Schedule, snap \in Rows : entry = <<s, snap>>
  BY <1>1, <1>2 DEF Passes
<1>4. /\ runner'.todo = runner.todo \ {entry} /\ runner'.id = s /\ runner'.snap = snap
      /\ \/ runner'.pc = "queue"
         \/ runner'.pc = "read" /\ runner'.upd = Sets(Skipping(snap))
  BY <1>1, <1>2, <1>3 DEF Passes
<1>5. Onward /\ Seen(s, snap) /\ IsDue(snap, now)
  <2>1. IsDue(<<s, snap>>[2], now)
    BY <1>1, <1>2, <1>3 DEF Passing
  <2> QED  BY <1>1, <1>2, <1>3, <2>1, InBounds DEF Onward, history, PassSeen
<1>6. Seen(s, snap)'
  BY <1>1, <1>5, SeenLater DEF Onward
<1>7. CASE runner'.pc = "queue"
  <2>1. PassSeen'
    BY <1>1, <1>4, <1>5, <1>6, <1>7, PassGoesOn
  <2> QED  BY <1>1, <2>1, PassAgreed DEF history
<1>8. CASE runner'.pc = "read" /\ runner'.upd = Sets(Skipping(snap))
  <2> DEFINE upd == Sets(Skipping(snap))
             new == Over(upd, snap)
  <2>1. snap.next # NoTime
    BY <1>5 DEF IsDue
  <2>2. /\ upd \in Updates /\ new \in Rows
        /\ new.rule = WithSkip(snap.rule, DateOf(snap.next)) /\ new.slot = new.next
        /\ snap.rule.mode \in Recurring =>
             new.next = NextRunAt(new.rule, snap.next, snap.next, NoTime)
        /\ snap.rule.mode \notin Recurring => new.next = NoTime
    BY <2>1, SkipIs
  <2> HIDE DEF new
  <2>3. s \notin stale => Good(s, new) /\ Kept(snap, new)
    BY <1>1, <1>5, <2>1, <2>2, SkippedGood DEF Seen
  <2>4. Meant(s, snap, upd)
    BY <2>3 DEF Meant, new
  <2> HIDE DEF upd
  <2>5. Meant(s, snap, upd)'
    BY <1>1, <1>5, <2>2, <2>4, SoundLater DEF Onward
  <2>6. PassSeen'
    BY <1>1, <1>4, <1>5, <1>6, <1>8, <2>5, PassGoesOn DEF upd
  <2> QED  BY <1>1, <2>6, PassAgreed DEF history
<1> QED  BY <1>4, <1>7, <1>8


LEMMA EndPassAgreed ==
  ASSUME Shapes, Agreed, EndPass
  PROVE  Agreed'
<1>1. /\ Types /\ PassSeen /\ runner' = Idle
      /\ UNCHANGED <<now, table, req, edits, faults, history>>
  BY DEF EndPass, Shapes, Agreed
<1>2. Onward /\ runner'.todo \subseteq runner.todo /\ runner'.pc = "idle"
  BY <1>1, InBounds DEF Onward, history, Idle
<1>3. PassSeen'
  BY <1>1, <1>2, PassEnds
<1> QED  BY <1>1, <1>3, PassAgreed DEF history

\* The run of a due schedule that is put off is sound.
LEMMA PutOffSound ==
  ASSUME Types, NEW s, NEW snap \in Rows, IsDue(snap, now), Seen(s, snap)
  PROVE  LET upd == [next |-> now + Delay, slot |-> snap.slot]
         IN  upd \in Updates /\ Meant(s, snap, upd)
<1> DEFINE upd == [next |-> now + Delay, slot |-> snap.slot]
           new == Over(upd, snap)
<1>1. /\ upd \in Updates /\ new \in Rows /\ new.rule = snap.rule
      /\ new.next = now + Delay /\ new.slot = snap.slot
  BY DueIs, InBounds, PutOffIs
<1> HIDE DEF new
<1>2. s \notin stale => Good(s, new) /\ Kept(snap, new)
  BY <1>1, PutOffGood DEF Seen
<1> QED  BY <1>1, <1>2 DEF Meant, new

\* The run of a due schedule that is noted is sound.
LEMMA NotedSound ==
  ASSUME Types, NEW s, NEW snap \in Rows, IsDue(snap, now), Seen(s, snap)
  PROVE  LET upd == Sets(Advanced(snap, now))
             new == Over(upd, snap)
         IN  /\ upd \in Updates /\ Meant(s, snap, upd)
             /\ new \in Rows /\ new.rule = snap.rule
             /\ s \notin stale /\ new.next # NoTime => DateOf(new.next) > DateOf(snap.next)
<1> DEFINE upd == Sets(Advanced(snap, now))
           new == Over(upd, snap)
<1>1. snap.next # NoTime /\ now \in Instants
  BY DueIs, InBounds
<1>2. /\ upd \in Updates /\ new \in Rows /\ new.rule = snap.rule /\ new.slot = new.next
      /\ snap.rule.mode \in Recurring => new.next = NextRunAt(snap.rule, now, snap.next, NoTime)
      /\ snap.rule.mode \notin Recurring => new.next = NoTime
  BY <1>1, AdvanceIs
<1> HIDE DEF new
<1>3. s \notin stale => /\ Good(s, new) /\ Kept(snap, new)
                        /\ new.next # NoTime => DateOf(new.next) > DateOf(snap.next)
  BY <1>2, NotedGood DEF Seen
<1>4. Meant(s, snap, upd)
  BY <1>3 DEF Meant, new
<1> QED  BY <1>2, <1>3, <1>4 DEF new

LEMMA QueuedAgreed ==
  ASSUME Shapes, Agreed, Queued
  PROVE  Agreed'
<1>1. /\ Types /\ Passing /\ PassSeen /\ runner \in Passes /\ runner.pc = "queue"
      /\ UNCHANGED <<now, table, req, edits, faults, cut, stale, slipped>>
      /\ runner' = [runner EXCEPT !.pc = "read", !.queued = TRUE,
                              !.upd = Sets(Advanced(runner.snap, runner.at))]
  BY DEF Queued, Shapes, Agreed, Types
<1>2. PICK s \in Schedule, snap \in Rows : s = runner.id /\ snap = runner.snap
  BY <1>1 DEF Passing, Busy
<1>3. Onward /\ Seen(s, snap) /\ IsDue(snap, now) /\ runner.at = now
  BY <1>1, <1>2, InBounds DEF Onward, PassSeen, Busy, Passing
<1>4. PICK upd : upd = Sets(Advanced(snap, now))
  OBVIOUS
<1>5. /\ runner'.todo = runner.todo /\ runner'.id = s /\ runner'.snap = snap
      /\ runner'.pc = "read" /\ runner'.upd = upd
  BY <1>1, <1>2, <1>3, <1>4 DEF Passes
<1>6. upd \in Updates /\ Meant(s, snap, upd)
  BY <1>1, <1>3, <1>4, NotedSound
<1>7. Seen(s, snap)' /\ Meant(s, snap, upd)'
  BY <1>1, <1>3, <1>6, SeenLater, SoundLater DEF Onward
<1>8. PassSeen'
  BY <1>1, <1>3, <1>5, <1>7, PassGoesOn
<1> QED  BY <1>1, <1>8, PassAgreed

\* Who puts off a run of the schedule that the pass listed.
LEMMA RetryingSeen ==
  ASSUME Shapes, PassSeen, Busy, IsDue(runner.snap, now), Onward, UNCHANGED now,
         runner' = Retrying
  PROVE  PassSeen'
<1>1. Types /\ Passing /\ runner.pc \in {"queue", "read", "write"}
  BY DEF Shapes, Busy
<1>2. PICK s \in Schedule, snap \in Rows : s = runner.id /\ snap = runner.snap
  BY DEF Passing, Shapes
<1>3. Seen(s, snap)
  BY <1>2 DEF PassSeen
<1>4. PICK upd : upd = [next |-> now + Delay, slot |-> snap.slot]
  OBVIOUS
<1>5. /\ runner'.todo = runner.todo /\ runner'.id = s /\ runner'.snap = snap
      /\ runner'.upd = upd
  BY <1>1, <1>2, <1>4, RetryingIs
<1>6. upd \in Updates /\ Meant(s, snap, upd)
  BY <1>1, <1>2, <1>3, <1>4, PutOffSound
<1>7. Seen(s, snap)' /\ Meant(s, snap, upd)'
  BY <1>1, <1>3, <1>6, SeenLater, SoundLater DEF Onward
<1> QED  BY <1>1, <1>5, <1>7, PassGoesOn

LEMMA DeferredAgreed ==
  ASSUME Shapes, Agreed, Deferred
  PROVE  Agreed'
<1>1. /\ Types /\ Passing /\ PassSeen /\ runner.pc = "queue"
      /\ UNCHANGED <<now, table, req, edits, history>> /\ runner' = Retrying
  BY DEF Deferred, Shapes, Agreed
<1>2. Onward /\ Busy /\ IsDue(runner.snap, now)
  BY <1>1, InBounds DEF Onward, history, Busy, Passing
<1>3. PassSeen'
  BY <1>1, <1>2, RetryingSeen
<1> QED  BY <1>1, <1>3, PassAgreed DEF history

LEMMA UpdateReadAgreed ==
  ASSUME Shapes, Agreed, UpdateRead
  PROVE  Agreed'
<1>1. /\ Types /\ Passing /\ PassSeen /\ runner \in Passes /\ runner.pc = "read"
      /\ UNCHANGED <<now, table, req, edits, faults, history>>
      /\ runner' = IF Present(runner.id)
                   THEN [runner EXCEPT !.pc = "write", !.row = table[runner.id]]
                   ELSE [runner EXCEPT !.pc = "next", !.queued = FALSE]
  BY DEF UpdateRead, Shapes, Agreed, Types
<1>2. Onward /\ runner'.todo \subseteq runner.todo
  BY <1>1, InBounds DEF Onward, history, Passes
<1>3. CASE ~Present(runner.id)
  <2>1. runner'.pc = "next"
    BY <1>1, <1>3 DEF Passes
  <2>2. PassSeen'
    BY <1>1, <1>2, <2>1, PassEnds
  <2> QED  BY <1>1, <2>2, PassAgreed DEF history
<1>4. CASE Present(runner.id)
  <2>1. PICK s \in Schedule, snap \in Rows, upd \in Updates :
          s = runner.id /\ snap = runner.snap /\ upd = runner.upd
    BY <1>1 DEF Passing, Busy
  <2>2. runner'.id = s /\ runner'.snap = snap /\ runner'.upd = upd
    BY <1>1, <1>4, <2>1 DEF Passes
  <2>3. Seen(s, snap) /\ Meant(s, snap, upd)
    BY <1>1, <2>1 DEF PassSeen, Busy
  <2>4. Seen(s, snap)' /\ Meant(s, snap, upd)'
    BY <1>1, <1>2, <2>3, SeenLater, SoundLater DEF Onward
  <2>5. PassSeen'
    BY <1>1, <1>2, <2>2, <2>4, PassGoesOn
  <2> QED  BY <1>1, <2>5, PassAgreed DEF history
<1> QED  BY <1>3, <1>4

LEMMA UpdateFailsAgreed ==
  ASSUME Shapes, Agreed, UpdateFails
  PROVE  Agreed'
<1>1. /\ Types /\ Passing /\ PassSeen /\ runner.pc \in {"read", "write"}
      /\ UNCHANGED <<now, table, req, edits, runs, again, stale, slipped>>
      /\ runner' = IF runner.queued THEN Retrying ELSE Idle
  BY DEF UpdateFails, Shapes, Agreed
<1>2. Onward /\ Busy
  BY <1>1, InBounds DEF Onward, Busy
<1>3. CASE runner.queued
  <2>1. IsDue(runner.snap, now)
    BY <1>1, <1>3 DEF Passing, Notes, Skips, PutsOff
  <2>2. PassSeen'
    BY <1>1, <1>2, <1>3, <2>1, RetryingSeen
  <2> QED  BY <1>1, <2>2, PassAgreed
<1>4. CASE ~runner.queued
  <2>1. runner'.pc = "idle" /\ runner'.todo \subseteq runner.todo
    BY <1>1, <1>4 DEF Idle
  <2>2. PassSeen'
    BY <1>1, <1>2, <2>1, PassEnds
  <2> QED  BY <1>1, <2>2, PassAgreed
<1> QED  BY <1>3, <1>4

LEMMA RestartAgreed ==
  ASSUME Shapes, Agreed, Restart
  PROVE  Agreed'
<1>1. /\ Types /\ PassSeen
      /\ UNCHANGED <<now, table, edits, runs, again, stale, slipped>>
      /\ runner' = Idle /\ req' = Quiet
  BY DEF Restart, Shapes, Agreed
<1>2. Onward /\ runner'.pc = "idle" /\ runner'.todo \subseteq runner.todo /\ req'.pc = "idle"
  BY <1>1, InBounds DEF Onward, Idle, Quiet
<1>3. PassSeen'
  BY <1>1, <1>2, PassEnds
<1> QED  BY <1>1, <1>2, <1>3, PassAgreed

\* The row a writer leaves is the one it computed, or the schedule is stale.
LEMMA WrittenSeen ==
  ASSUME Types, TableSeen, UNCHANGED now, NEW w \in Schedule, NEW upd \in Updates,
         NEW read \in Rows, NEW seen \in Rows, Store(w, upd, read, seen),
         w \notin stale => Good(w, Over(upd, seen))
  PROVE  /\ Onward /\ TableSeen'
         /\ \A s \in Schedule \ {w} : table'[s] = table[s]
         /\ Seen(w, Over(upd, read))'
         /\ w \notin stale' => /\ table[w] = seen /\ read = seen /\ w \notin stale
                               /\ table'[w] = Over(upd, seen)
<1>1. /\ table'[w] = Over(upd, read) /\ Over(upd, read) \in Rows
      /\ \A s \in Schedule \ {w} : table'[s] = table[s]
      /\ stale \subseteq stale' /\ slipped \subseteq slipped'
      /\ w \notin stale' => table[w] = seen /\ read = seen
      /\ Strayed(table'[w]) => w \in slipped'
  BY StoredRow, Overlaid
<1>2. Onward
  BY <1>1, InBounds DEF Onward
<1>3. Seen(w, Over(upd, read))'
  <2>1. PICK new \in Rows : new = Over(upd, read)
    BY <1>1
  <2>2. ASSUME w \notin stale' PROVE Good(w, new)'
    <3>1. Good(w, new)
      BY <1>1, <2>1, <2>2
    <3> QED  BY <1>2, <2>2, <3>1, SeenLater DEF Onward
  <2>3. Strayed(new)' => w \in slipped'
    BY <1>1, <2>1 DEF Strayed
  <2>4. Seen(w, new)'
    BY <2>2, <2>3 DEF Seen
  <2> QED  BY <2>1, <2>4
<1>4. Seen(w, table[w])'
  BY <1>1, <1>3
<1>5. TableSeen'
  BY <1>1, <1>2, <1>4, TableLater DEF Present
<1> QED  BY <1>1, <1>2, <1>3, <1>5

\* A step changes one row at most, and passes over nothing that row had to come.
KeepsComing(w) ==
  /\ \A s \in Schedule \ {w} : table'[s] = table[s]
  /\ (/\ w \notin stale' /\ Present(w) /\ Present(w)' /\ req.kind # "reschedule"
      /\ req.pc = "rollbackWrite" => w \notin slipped) => Kept(table[w], table'[w])

LEMMA UpdateWriteAgreed ==
  ASSUME Shapes, Agreed, UpdateWrite
  PROVE  Agreed' /\ \E w \in Schedule : KeepsComing(w)
<1>1. /\ Types /\ Passing /\ Asking /\ TableSeen /\ PassSeen /\ RequestSeen /\ runner \in Passes
      /\ UNCHANGED <<now, req, edits, faults, runs, again, cut>> /\ runner.pc = "write"
      /\ runner' = [runner EXCEPT !.pc = "next", !.queued = FALSE]
      /\ Store(runner.id, runner.upd, runner.row, runner.snap)
  BY DEF UpdateWrite, Shapes, Agreed, Types
<1>2. PICK w \in Schedule, snap \in Rows, upd \in Updates :
        w = runner.id /\ snap = runner.snap /\ upd = runner.upd
  BY <1>1 DEF Passing, Busy
<1>3. PICK read \in Rows : read = runner.row
  BY <1>1 DEF Passing
<1>4. Store(w, upd, read, snap) /\ Meant(w, snap, upd)
  BY <1>1, <1>2, <1>3 DEF PassSeen
<1>5. /\ Onward /\ TableSeen'
      /\ \A s \in Schedule \ {w} : table'[s] = table[s]
      /\ w \notin stale' => table[w] = snap /\ table'[w] = Over(upd, snap) /\ w \notin stale
  BY <1>1, <1>4, WrittenSeen DEF Meant
<1>6. runner'.pc = "next" /\ runner'.todo = runner.todo
  BY <1>1 DEF Passes
<1>7. PassSeen'
  BY <1>1, <1>5, <1>6, PassEnds
<1>8. RequestSeen'
  BY <1>1, <1>5, RequestLater DEF Onward
<1>9. KeepsComing(w)
  BY <1>4, <1>5 DEF KeepsComing, Meant
<1> QED  BY <1>5, <1>7, <1>8, <1>9 DEF Agreed

LEMMA AuditFailsAgreed ==
  ASSUME Shapes, Agreed, AuditFails
  PROVE  Agreed' /\ \E w \in Schedule : KeepsComing(w)
<1>1. /\ Types /\ Passing /\ Asking /\ TableSeen /\ PassSeen /\ RequestSeen /\ runner \in Passes
      /\ UNCHANGED <<now, req, edits, runs, again>> /\ runner.pc = "write" /\ runner.queued
      /\ runner' = [Retrying EXCEPT !.snap = Over(runner.upd, runner.row)]
      /\ Store(runner.id, runner.upd, runner.row, runner.snap)
  BY DEF AuditFails, Shapes, Agreed, Types
<1>2. PICK w \in Schedule, snap \in Rows, upd \in Updates :
        w = runner.id /\ snap = runner.snap /\ upd = runner.upd
  BY <1>1 DEF Passing, Busy
<1>3. PICK read \in Rows : read = runner.row
  BY <1>1 DEF Passing
<1>4. /\ Store(w, upd, read, snap) /\ Meant(w, snap, upd) /\ Seen(w, snap)
      /\ IsDue(snap, now) /\ upd = Sets(Advanced(snap, now))
  BY <1>1, <1>2, <1>3 DEF PassSeen, Busy, Passing, Notes, Skips, PutsOff
<1>5. /\ Onward /\ TableSeen' /\ Seen(w, Over(upd, read))'
      /\ \A s \in Schedule \ {w} : table'[s] = table[s]
      /\ w \notin stale' => /\ table[w] = snap /\ table'[w] = Over(upd, snap) /\ w \notin stale
                            /\ read = snap
  BY <1>1, <1>4, WrittenSeen DEF Meant
<1>6. PICK noted \in Rows, retry \in Updates :
        noted = Over(upd, read) /\ retry = [next |-> now + Delay, slot |-> snap.slot]
  BY <1>1, <1>4, Overlaid, PutOffSound
<1>7. /\ runner'.todo = runner.todo /\ runner'.id = w /\ runner'.snap = noted
      /\ runner'.upd = retry
  <2>1. /\ Retrying.todo = runner.todo /\ Retrying.id = w
        /\ Retrying.upd = [next |-> now + Delay, slot |-> snap.slot]
    BY <1>1, <1>2, <1>4, RetryingIs
  <2>2. /\ runner'.todo = Retrying.todo /\ runner'.id = Retrying.id
        /\ runner'.upd = Retrying.upd /\ runner'.snap = Over(runner.upd, runner.row)
    BY <1>1 DEF Retrying, Passes
  <2> QED  BY <1>2, <1>3, <1>6, <2>1, <2>2
<1>8. Meant(w, noted, retry)'
  <2> DEFINE new == Over(retry, noted)
  <2>1. SUFFICES ASSUME w \notin stale' PROVE Good(w, new)' /\ Kept(noted, new)'
    BY DEF Meant
  <2>2. /\ noted.rule = snap.rule
        /\ noted.next # NoTime => DateOf(noted.next) > DateOf(snap.next)
        /\ Good(w, snap)
    <3>1. noted = Over(Sets(Advanced(snap, now)), snap) /\ w \notin stale
      BY <1>4, <1>5, <1>6, <2>1
    <3> QED  BY <1>1, <1>4, <3>1, NotedSound DEF Seen
  <2>3. /\ new \in Rows /\ new.rule = noted.rule /\ new.next = now + Delay
        /\ new.slot = snap.slot
    BY <1>1, <1>4, <1>6, DueIs, InBounds, PutOffIs
  <2> HIDE DEF new
  <2>4. /\ Good(w, new)
        /\ noted.next # NoTime => Kept(noted, new)
    BY <1>1, <1>4, <2>2, <2>3, PutOffGood
  <2>5. Kept(noted, new)
    BY <2>3, <2>4, PassedOverIs DEF Kept
  <2>6. Kept(noted, new)'
    BY <1>1, <2>5 DEF Kept, PassedOver, Coming, Strayed
  <2>7. Good(w, new)'
    BY <1>1, <1>5, <2>1, <2>3, <2>4, SeenLater DEF Onward
  <2> QED  BY <2>6, <2>7
<1>9. Seen(w, noted)'
  BY <1>5, <1>6
<1>10. PassSeen'
  BY <1>1, <1>5, <1>7, <1>8, <1>9, PassGoesOn
<1>11. RequestSeen'
  BY <1>1, <1>5, RequestLater DEF Onward
<1>12. KeepsComing(w)
  BY <1>4, <1>5 DEF KeepsComing, Meant
<1> QED  BY <1>5, <1>10, <1>11, <1>12 DEF Agreed

LEMMA RequestReadAgreed ==
  ASSUME Shapes, Agreed, RequestRead
  PROVE  Agreed'
<1>1. /\ Types /\ Passing /\ Asking /\ TableSeen /\ PassSeen /\ RequestSeen /\ req \in Requests
      /\ req.pc \in {"read", "rollbackRead"}
      /\ UNCHANGED <<now, table, runner, edits, faults, history>>
      /\ req' = IF Present(req.id)
                THEN [req EXCEPT !.pc = IF @ = "read" THEN "write" ELSE "rollbackWrite",
                                 !.row = table[req.id]]
                ELSE Quiet
  BY DEF RequestRead, Shapes, Agreed, Types
<1>2. \/ req'.pc = "idle"
      \/ /\ req.pc # "idle" /\ req'.id = req.id /\ req'.before = req.before
         /\ req'.upd = req.upd /\ req'.kind = req.kind
  BY <1>1 DEF Requests, Quiet
<1>3. Onward
  BY <1>1, InBounds DEF Onward, history
<1>4. TableSeen' /\ PassSeen' /\ RequestSeen'
  BY <1>1, <1>2, <1>3, TableLater, PassLater, RequestLater DEF history, Present
<1> QED  BY <1>4 DEF Agreed

LEMMA CreateFailsAgreed ==
  ASSUME Shapes, Agreed, CreateFails
  PROVE  Agreed'
<1>1. /\ Types /\ Passing /\ Asking /\ TableSeen /\ PassSeen /\ RequestSeen /\ req \in Requests
      /\ req.pc = "create" /\ req' = [req EXCEPT !.pc = "rollbackRead"]
      /\ UNCHANGED <<now, table, runner, edits, history>>
  BY DEF CreateFails, Shapes, Agreed, Types
<1>2. /\ req.pc # "idle" /\ req'.id = req.id /\ req'.before = req.before
      /\ req'.upd = req.upd /\ req'.kind = req.kind
  BY <1>1 DEF Requests
<1>3. Onward
  BY <1>1, InBounds DEF Onward, history
<1>4. TableSeen' /\ PassSeen' /\ RequestSeen'
  BY <1>1, <1>2, <1>3, TableLater, PassLater, RequestLater DEF history, Present
<1> QED  BY <1>4 DEF Agreed

LEMMA RequestWriteAgreed ==
  ASSUME Shapes, Agreed, RequestWrite
  PROVE  Agreed' /\ \E w \in Schedule : KeepsComing(w)
<1>1. /\ Types /\ Passing /\ Asking /\ TableSeen /\ PassSeen /\ RequestSeen /\ req \in Requests
      /\ UNCHANGED <<now, runner, edits, faults, again, cut>> /\ req.pc = "write"
      /\ Store(req.id, req.upd, req.row, req.before)
      /\ req' = IF req.kind = "move" THEN [req EXCEPT !.pc = "create"] ELSE Quiet
  BY DEF RequestWrite, Shapes, Agreed, Types
<1>2. PICK w \in Schedule, before \in Rows, upd \in Updates :
        w = req.id /\ before = req.before /\ upd = req.upd
  BY <1>1 DEF Asking
<1>3. PICK read \in Rows : read = req.row
  BY <1>1 DEF Asking
<1>4. /\ Store(w, upd, read, before)
      /\ w \notin stale => Good(w, Over(upd, before))
      /\ w \notin stale /\ req.kind # "reschedule" => Kept(before, Over(upd, before))
  BY <1>1, <1>2, <1>3 DEF RequestSeen
<1>5. /\ Onward /\ TableSeen'
      /\ \A s \in Schedule \ {w} : table'[s] = table[s]
      /\ w \notin stale' => table[w] = before /\ table'[w] = Over(upd, before) /\ w \notin stale
  BY <1>1, <1>4, WrittenSeen
<1>6. \/ req'.pc = "idle"
      \/ /\ req.pc # "idle" /\ req'.id = req.id /\ req'.before = req.before
         /\ req'.upd = req.upd /\ req'.kind = req.kind
  BY <1>1 DEF Requests, Quiet
<1>7. PassSeen' /\ RequestSeen'
  BY <1>1, <1>5, <1>6, PassLater, RequestLater DEF Onward
<1>8. KeepsComing(w)
  BY <1>4, <1>5 DEF KeepsComing
<1> QED  BY <1>5, <1>7, <1>8 DEF Agreed

\* A rollback brings back the occurrence that was moved, which is no later than
\* any other of its phase unless the schedule slipped.
LEMMA UndoneKept ==
  ASSUME Types, NEW s, NEW kind, NEW before \in Rows, NEW upd, NEW new \in Rows,
         Asks(kind, before, upd), kind = "move", Seen(s, before), s \notin stale, s \notin slipped,
         new.rule = before.rule, new.next = before.next, new.slot = before.slot
  PROVE  Kept(Over(upd, before), new)
<1>1. PICK old : old = Over(upd, before)
  OBVIOUS
<1>2. /\ Good(s, before) /\ ~Strayed(before) /\ old \in Rows
      /\ before.next # NoTime /\ old.next # NoTime =>
           OnPhase(before.rule, DateOf(before.next), DateOf(old.slot))
  BY <1>1, AskedGood DEF Seen
<1>3. SUFFICES ASSUME PassedOver(old, new) PROVE FALSE
  BY <1>1 DEF Kept
<1>4. PICK d \in Dates :
        /\ OnPhase(before.rule, DateOf(old.slot), d) /\ d \notin before.rule.skips
        /\ RunAt(d) > now /\ RunAt(d) < before.next
  BY <1>2, <1>3, PassedOverIs
<1>5. /\ before.rule.mode \in Recurring /\ before.next # NoTime /\ old.next # NoTime
      /\ before.rule \in Rule
  BY <1>2, <1>3, PassedOverIs, RowFields
<1>6. /\ before.next \in Instants /\ before.next \in Nat /\ before.slot \in Nat
      /\ before.slot \in Instants /\ old.slot \in Instants /\ before.slot <= before.next
      /\ now \in Nat
  BY <1>2, <1>5, RowFields, InBounds
<1>7. /\ DateOf(before.slot) = DateOf(before.next) /\ before.slot = RunAt(DateOf(before.slot))
      /\ before.slot < before.next => before.slot <= now
      /\ Ahead(before.rule, before.slot)
  BY <1>2, <1>5 DEF Good, Strayed
<1>8. OnPhase(before.rule, DateOf(before.slot), d)
  <2>1. DateOf(before.slot) \in Dates /\ DateOf(old.slot) \in Dates
    BY <1>6 DEF Instants
  <2>2. OnPhase(before.rule, DateOf(before.slot), DateOf(old.slot))
    BY <1>2, <1>5, <1>7
  <2> QED  BY <1>4, <1>5, <2>1, <2>2, OnePhase
<1>9. RunAt(d) >= before.slot /\ RunAt(d) \in Nat
  BY <1>4, <1>6, <1>7, <1>8, Behind DEF Ahead
<1>10. before.slot < before.next
  BY <1>4, <1>6, <1>9
<1>11. d > DateOf(before.next)
  <2>1. RunAt(DateOf(before.slot)) < RunAt(d) /\ DateOf(before.slot) \in Dates
    BY <1>4, <1>6, <1>7, <1>9, <1>10 DEF Instants
  <2> QED  BY <1>7, <2>1, RunOrder
<1> QED  BY <1>4, <1>6, <1>9, <1>11, Behind

LEMMA RollbackAgreed ==
  ASSUME Shapes, Agreed, Rollback
  PROVE  Agreed' /\ \E w \in Schedule : KeepsComing(w)
<1>1. /\ Types /\ Passing /\ Asking /\ TableSeen /\ PassSeen /\ RequestSeen
      /\ UNCHANGED <<now, runner, edits, faults, runs, again, cut>> /\ req.pc = "rollbackWrite"
      /\ Store(req.id, Undo, req.row, Over(req.upd, req.before))
      /\ req'.pc = "idle"
  BY DEF Rollback, Undo, Quiet, Shapes, Agreed
<1>2. PICK w \in Schedule, before \in Rows, upd \in Updates :
        w = req.id /\ before = req.before /\ upd = req.upd
  BY <1>1 DEF Asking
<1>3. PICK read \in Rows, moved \in Rows, undo \in Updates :
        read = req.row /\ moved = Over(upd, before) /\ undo = Undo
  BY <1>1, <1>2, UndoIs, Overlaid DEF Asking, Undo
<1>4. /\ Store(w, undo, read, moved) /\ Seen(w, before) /\ Asks(req.kind, before, upd)
      /\ req.kind = "move"
  BY <1>1, <1>2, <1>3 DEF RequestSeen, Asking
<1>5. \A rec \in Rows : /\ Over(undo, rec) \in Rows /\ Over(undo, rec).rule = before.rule
                        /\ Over(undo, rec).next = before.next
                        /\ Over(undo, rec).slot = before.slot
  BY <1>2, <1>3, UndoIs DEF Undo
<1>6. PICK new \in Rows : /\ new = Over(undo, moved) /\ new.rule = before.rule
                          /\ new.next = before.next /\ new.slot = before.slot
  BY <1>5
<1>7. w \notin stale => Good(w, new)
  BY <1>4, <1>6 DEF Seen, Good
<1>8. /\ Onward /\ TableSeen'
      /\ \A s \in Schedule \ {w} : table'[s] = table[s]
      /\ w \notin stale' => table[w] = moved /\ table'[w] = new /\ w \notin stale
  BY <1>1, <1>4, <1>6, <1>7, WrittenSeen
<1>9. PassSeen' /\ RequestSeen'
  BY <1>1, <1>8, PassLater, RequestLater DEF Onward
<1>10. KeepsComing(w)
  <2>1. SUFFICES ASSUME w \notin stale', w \notin slipped
                 PROVE  Kept(moved, new)
    BY <1>1, <1>8 DEF KeepsComing
  <2>2. w \notin stale
    BY <1>8, <2>1
  <2>3. Kept(Over(upd, before), new)
    BY <1>1, <1>4, <1>6, <2>1, <2>2, UndoneKept
  <2> QED  BY <1>3, <2>3
<1> QED  BY <1>8, <1>9, <1>10 DEF Agreed

LEMMA CreateAgreed ==
  ASSUME Shapes, Agreed, NEW w \in Schedule, Create(w)
  PROVE  Agreed' /\ KeepsComing(w)
<1>1. /\ Types /\ Passing /\ Asking /\ TableSeen /\ PassSeen /\ RequestSeen
      /\ UNCHANGED <<now, runner, edits, faults, again, cut, stale, slipped>>
      /\ req.pc = "create" /\ table[w] = NoRow
      /\ table' = [table EXCEPT ![w] = req.clone] /\ req'.pc = "idle"
  BY DEF Create, Quiet, Shapes, Agreed
<1>2. PICK clone \in Rows : /\ clone = req.clone /\ clone.rule.mode \notin Recurring
                            /\ clone.next = clone.slot
  BY <1>1 DEF Asking, Recurring
<1>3. table'[w] = clone /\ \A s \in Schedule \ {w} : table'[s] = table[s]
  BY <1>1, <1>2 DEF Types
<1>4. Seen(w, clone)'
  BY <1>2 DEF Seen, Strayed, Good
<1>5. Onward
  BY <1>1, InBounds DEF Onward
<1>6. TableSeen'
  BY <1>1, <1>3, <1>4, <1>5, TableLater DEF Present
<1>7. PassSeen' /\ RequestSeen'
  BY <1>1, PassLater, RequestLater
<1>8. KeepsComing(w)
  BY <1>1, <1>3 DEF KeepsComing, Present
<1> QED  BY <1>6, <1>7, <1>8 DEF Agreed

LEMMA DeleteAgreed ==
  ASSUME Shapes, Agreed, NEW w \in Schedule, Delete(w)
  PROVE  Agreed' /\ KeepsComing(w)
<1>1. /\ Types /\ Passing /\ Asking /\ TableSeen /\ PassSeen /\ RequestSeen
      /\ UNCHANGED <<now, runner, req, faults, history>>
      /\ table' = [table EXCEPT ![w] = NoRow]
  BY DEF Delete, Shapes, Agreed
<1>2. ~Present(w)' /\ \A s \in Schedule \ {w} : table'[s] = table[s]
  BY <1>1 DEF Types, Present
<1>3. Onward
  BY <1>1, InBounds DEF Onward, history
<1>4. TableSeen'
  BY <1>1, <1>2, <1>3, TableLater DEF Present
<1>5. PassSeen' /\ RequestSeen'
  BY <1>1, PassLater, RequestLater DEF history
<1>6. KeepsComing(w)
  BY <1>2 DEF KeepsComing
<1> QED  BY <1>4, <1>5, <1>6 DEF Agreed

LEMMA BeginsAgreed ==
  ASSUME Shapes, Agreed, NEW s \in Schedule, NEW kind, NEW upd, NEW clone,
         Begins(s, kind, upd, clone)
  PROVE  Agreed'
<1>1. /\ Types /\ Passing /\ Asking /\ TableSeen /\ PassSeen /\ RequestSeen
      /\ req' = [Quiet EXCEPT !.pc = "read", !.kind = kind, !.id = s, !.before = table[s],
                              !.upd = upd, !.clone = clone]
      /\ UNCHANGED <<now, table, runner, faults, history>>
      /\ Present(s) /\ Asks(kind, table[s], upd)
  BY DEF Begins, Begin, Shapes, Agreed
<1>2. PICK before \in Rows : before = table[s]
  BY <1>1, InBounds
<1>3. /\ req'.id = s /\ req'.before = before /\ req'.upd = upd /\ req'.kind = kind
  BY <1>1, <1>2 DEF Quiet
<1>4. /\ Seen(s, before) /\ Asks(kind, before, upd) /\ upd \in Updates
      /\ Over(upd, before) \in Rows
  <2>1. Asks(kind, before, upd) /\ now \in Instants
    BY <1>1, <1>2, InBounds
  <2>2. upd \in Updates
    BY <2>1, AskedIs
  <2> QED  BY <1>1, <1>2, <2>1, <2>2, Overlaid DEF TableSeen
<1>5. s \notin stale => /\ Good(s, Over(upd, before))
                        /\ kind # "reschedule" => Kept(before, Over(upd, before))
  BY <1>1, <1>4, AskedGood DEF Seen
<1>6. Onward
  BY <1>1, InBounds DEF Onward, history
<1>7. Seen(s, before)'
  BY <1>1, <1>4, <1>6, SeenLater DEF Onward
<1>8. s \notin stale' => Good(s, Over(upd, before))'
  BY <1>1, <1>4, <1>5, <1>6, SeenLater DEF Onward, history
<1>9. s \notin stale' /\ kind # "reschedule" => Kept(before, Over(upd, before))'
  BY <1>1, <1>5 DEF Kept, PassedOver, Coming, Strayed, history
<1>10. RequestSeen'
  BY <1>3, <1>7, <1>8, <1>9 DEF RequestSeen
<1>11. TableSeen' /\ PassSeen'
  BY <1>1, <1>6, TableLater, PassLater DEF history, Present
<1> QED  BY <1>10, <1>11 DEF Agreed

LEMMA AgreedInit == Init => Agreed
<1> SUFFICES ASSUME Init PROVE Agreed
  OBVIOUS
<1>1. Types /\ now = 0 /\ runner = Idle /\ req = Quiet
  BY ShapesInit DEF Shapes, Init
<1>2. PICK rule \in Rules :
        table = [s \in Schedule |->
                   IF s = First THEN NewRow(rule, NextRunAt(rule, 0, NoTime, NoTime)) ELSE NoRow]
  BY DEF Init
<1>3. ASSUME NEW s \in Schedule, Present(s)
      PROVE  Seen(s, table[s])
  <2>1. PICK next : next = NextRunAt(rule, now, NoTime, NoTime)
    OBVIOUS
  <2>2. PICK new \in Rows : new = table[s]
    BY <1>1, <1>3, InBounds
  <2>3. new = NewRow(rule, next)
    BY <1>1, <1>2, <1>3, <2>1, <2>2 DEF Present
  <2>4. new.rule = rule /\ new.next = next /\ new.slot = next
    BY <2>3 DEF NewRow
  <2>5. NoTime \in Times
    BY DEF Times
  <2>6. Good(s, new) /\ ~Strayed(new)
    BY <1>1, <2>1, <2>4, <2>5, FromNowGood DEF Strayed
  <2> QED  BY <2>2, <2>6 DEF Seen
<1>4. PassSeen
  BY <1>1 DEF PassSeen, Busy, Idle
<1>5. RequestSeen
  BY <1>1 DEF RequestSeen, Quiet
<1> QED  BY <1>3, <1>4, <1>5 DEF Agreed, TableSeen

\* Rows that are there and stay are as they were or keep what is to come.
LEMMA AgreedStep ==
  Shapes /\ Agreed /\ [Next]_vars =>
    Agreed' /\ (table' = table \/ \E w \in Schedule : KeepsComing(w))
<1> SUFFICES ASSUME Shapes, Agreed, [Next]_vars
             PROVE  Agreed' /\ (table' = table \/ \E w \in Schedule : KeepsComing(w))
  OBVIOUS
<1>1. CASE UNCHANGED vars
  <2>1. UNCHANGED <<now, table, runner, req, stale, slipped>> /\ Types /\ Passing /\ PassSeen
    BY <1>1 DEF vars, Shapes, Agreed
  <2>2. PassSeen'
    BY <2>1, PassLater
  <2> QED  BY <2>1, <2>2, PassAgreed
<1>2. CASE Tick
  BY <1>2, TickAgreed DEF Tick
<1>3. CASE RunnerStep
  <2>1. CASE UpdateWrite
    BY <2>1, UpdateWriteAgreed
  <2>2. CASE BeginPass \/ Consider \/ EndPass \/ Queued \/ UpdateRead
    <3>1. table' = table
      BY <2>2 DEF BeginPass, Consider, EndPass, Queued, UpdateRead
    <3> QED  BY <2>2, <3>1, BeginPassAgreed, ConsiderAgreed, EndPassAgreed, QueuedAgreed,
                UpdateReadAgreed
  <2> QED  BY <1>3, <2>1, <2>2 DEF RunnerStep
<1>4. CASE RequestStep
  <2>1. RequestRead => table' = table
    BY DEF RequestRead
  <2> QED  BY <1>4, <2>1, RequestReadAgreed, RequestWriteAgreed, RollbackAgreed, CreateAgreed
              DEF RequestStep
<1>5. CASE Deferred \/ UpdateFails \/ AuditFails \/ Restart \/ CreateFails
  <2>1. AuditFails \/ table' = table
    BY <1>5 DEF Deferred, UpdateFails, Restart, CreateFails
  <2> QED  BY <1>5, <2>1, DeferredAgreed, UpdateFailsAgreed, AuditFailsAgreed, RestartAgreed,
              CreateFailsAgreed
<1>6. ASSUME NEW s \in Schedule, Ask(s)
      PROVE  Agreed' /\ (table' = table \/ \E w \in Schedule : KeepsComing(w))
  <2>1. CASE Delete(s)
    BY <2>1, DeleteAgreed
  <2>2. ASSUME NEW kind, NEW upd, NEW clone, Begins(s, kind, upd, clone)
        PROVE  Agreed' /\ table' = table
    BY <2>2, BeginsAgreed DEF Begins, Begin
  <2>3. Types
    BY DEF Shapes
  <2> QED  BY <1>6, <2>1, <2>2, <2>3, AskBegins
<1> QED  BY <1>1, <1>2, <1>3, <1>4, <1>5, <1>6 DEF Next

-----------------------------------------------------------------------------
(* Theorems *)

LEMMA Invariant == Spec => []IInv
<1>1. Init => IInv
  BY ShapesInit, OnceInit, AgreedInit DEF IInv, Shapes
<1>2. IInv /\ [Next]_vars => IInv'
  <2>1. SUFFICES ASSUME IInv, [Next]_vars PROVE IInv'
    OBVIOUS
  <2>2. Shapes'
    BY <2>1, ShapesStep DEF IInv, Shapes
  <2>3. Once' /\ Agreed'
    BY <2>1, <2>2, OnceStep, AgreedStep DEF IInv, Shapes
  <2> QED  BY <2>2, <2>3 DEF IInv, Shapes
<1> QED  BY <1>1, <1>2, PTL DEF Spec

\* The rows, the pass, the request and the histories have their types in every
\* state of the runner and of the requests.
THEOREM SchedulesTyped == Spec => []TypeOK
<1>1. IInv => TypeOK
  <2>1. SUFFICES ASSUME IInv PROVE TypeOK
    OBVIOUS
  <2>2. Types /\ runner \in Passes /\ req \in Requests
    BY <2>1 DEF IInv, Types
  <2>3. ASSUME NEW s \in Schedule, Present(s)
        PROVE  /\ table[s].enabled \in BOOLEAN /\ table[s].next \in Nat \cup {NoTime}
               /\ table[s].rule.skips \subseteq Dates
    <3>1. PICK rec \in Rows : rec = table[s]
      BY <2>2, <2>3, InBounds
    <3>2. /\ rec.enabled \in BOOLEAN /\ rec.next \in Nat \cup {NoTime}
          /\ rec.rule.skips \subseteq Dates
      BY RowFields DEF Rule
    <3> QED  BY <3>1, <3>2
  <2>4. /\ runner.pc \in {"idle", "next", "queue", "read", "write"}
        /\ req.pc \in {"idle", "read", "write", "create", "rollbackRead", "rollbackWrite"}
    BY <2>2 DEF Passes, Requests
  <2> QED  BY <2>2, <2>3, <2>4 DEF TypeOK, Types
<1> QED  BY <1>1, Invariant, PTL

\* An occurrence is queued a second time only after a pass failed between
\* queueing it and noting so, or after someone wrote back a row that had changed.
THEOREM OccurrencesOnce == Spec => []RunOnce
<1>1. IInv => RunOnce
  BY DEF IInv, Once
<1> QED  BY <1>1, Invariant, PTL

\* However a schedule advances, nothing of it that was to come and not skipped is
\* passed over, but where a run is put off into another date.
THEOREM NonePassedOver == Spec => ComingKept
<1> DEFINE Safe == \A s \in Schedule \ stale' :
             ~(/\ Present(s) /\ Present(s)' /\ req.kind # "reschedule"
               /\ ~Strayed(table[s]) /\ ~Strayed(table'[s])
               /\ req.pc = "rollbackWrite" => s \notin slipped
               /\ PassedOver(table[s], table'[s]))
<1>1. IInv /\ [Next]_vars => [Safe]_vars
  <2>1. SUFFICES ASSUME IInv, [Next]_vars, NEW s \in Schedule \ stale',
                        Present(s), Present(s)', req.kind # "reschedule",
                        ~Strayed(table[s]), ~Strayed(table'[s]),
                        req.pc = "rollbackWrite" => s \notin slipped,
                        PassedOver(table[s], table'[s])
                 PROVE  FALSE
    OBVIOUS
  <2>2. table'[s] # table[s]
    BY <2>1 DEF PassedOver
  <2>3. PICK w \in Schedule : KeepsComing(w)
    BY <2>1, <2>2, AgreedStep DEF IInv, Shapes
  <2>4. Kept(table[s], table'[s])
    BY <2>1, <2>2, <2>3 DEF KeepsComing
  <2> QED  BY <2>1, <2>4 DEF Kept
<1>2. Spec => [][Safe]_vars
  BY <1>1, Invariant, PTL DEF Spec
<1> QED  BY <1>2 DEF ComingKept

\* What the calendar finds from the phase of the next run on.
LEMMA CalendarIs ==
  ASSUME Types, NEW s, NEW rec \in Rows, Good(s, rec), rec.rule.mode \in Recurring,
         rec.next # NoTime, rec.next = rec.slot, ~IsSkipped(rec)
  PROVE  /\ \A from \in (now + 1)..rec.next :
              s \notin slipped \/ from = rec.next => CalendarFrom(rec, from) = rec.next
         /\ LET following == Advanced(rec, rec.next).next
            IN  following # NoTime => CalendarFrom(rec, rec.next + 1) = following
<1> DEFINE rule == rec.rule
           next == rec.next
           p == DateOf(next)
<1>1. /\ rule \in Rule /\ next \in Instants /\ next \in Times /\ next \in Nat
      /\ NoTime \in Times /\ now \in Nat
  BY RowFields, InBounds DEF Times
<1>2. /\ p \in Dates /\ next = RunAt(p) /\ OnPhase(rule, p, p) /\ p \notin rule.skips
      /\ s \notin slipped => Ahead(rule, next)
  BY <1>1 DEF Good, Instants, IsSkipped
<1> HIDE DEF rule, next, p
<1>3. ASSUME NEW from \in (now + 1)..next, s \notin slipped \/ from = next
      PROVE  NextRunAt(rule, from - 1, NoTime, next) = next
  <2> DEFINE after == from - 1
             found == Candidates(rule, after, NoTime, next)
             first == NextRunAt(rule, after, NoTime, next)
  <2>1. after \in Nat /\ after < next /\ now <= after /\ after <= next /\ from = after + 1
    BY <1>1
  <2>2. after \in Instants
    BY <1>1, <2>1, InstantsBelow
  <2>3. Anchor(after, NoTime, next) = p
    BY DEF Anchor, p, next
  <2>4. rule.mode \in Recurring
    BY DEF rule
  <2> HIDE DEF after
  <2>5. p \in found
    BY <1>1, <1>2, <2>1, <2>2, <2>3, <2>4, FollowsNow
  <2>6. ASSUME NEW d \in found PROVE RunAt(d) >= next
    <3>1. /\ d \in Dates /\ OnPhase(rule, p, d) /\ d \notin rule.skips /\ RunAt(d) > after
          /\ RunAt(d) \in Nat
      BY <2>1, <2>3, Behind DEF Candidates
    <3>2. CASE s \notin slipped
      BY <1>1, <1>2, <2>1, <3>1, <3>2 DEF Ahead, p
    <3>3. CASE from = next
      BY <1>1, <2>1, <3>1, <3>3
    <3> QED  BY <1>3, <3>2, <3>3
  <2>7. /\ first # NoTime /\ first \in Instants /\ DateOf(first) \in found
        /\ first = RunAt(DateOf(first)) /\ \A d \in found : RunAt(d) >= first
    BY <1>1, <2>2, <2>4, <2>5, NextFound
  <2>8. first >= next /\ next >= first /\ first \in Nat
    BY <1>2, <2>5, <2>6, <2>7 DEF Instants
  <2> QED  BY <1>1, <2>8 DEF after
<1>4. NextRunAt(rule, next, NoTime, next) = NextRunAt(rule, next, next, NoTime)
  <2>1. /\ Anchor(next, NoTime, next) = p /\ Anchor(next, next, NoTime) = p
        /\ LocalDate(next) = p
    BY <1>2, RunDate DEF Anchor, p, next
  <2>2. ASSUME NEW d \in Dates, OnPhase(rule, p, d), d \notin rule.skips, RunAt(d) > next
        PROVE  FromDate(rule, next, next, d) /\ FromDate(rule, next, NoTime, d)
    <3>1. d > p
      <4>1. RunAt(p) < RunAt(d) /\ RunAt(d) \in Nat
        BY <1>1, <1>2, <2>2, Behind
      <4> QED  BY <1>2, <4>1, RunOrder
    <3>2. rule.mode \in Recurring
      BY DEF rule
    <3>3. /\ d \in Candidates(rule, next, next, NoTime)
          /\ d \in Candidates(rule, next, NoTime, next)
      BY <1>1, <1>2, <2>1, <2>2, <3>1, <3>2, Follows, FollowsNow DEF p
    <3> QED  BY <3>3 DEF Candidates
  <2>3. Candidates(rule, next, NoTime, next) = Candidates(rule, next, next, NoTime)
    BY <2>1, <2>2 DEF Candidates
  <2> QED  BY <2>3 DEF NextRunAt, Recurring, rule
<1>5. \A from \in (now + 1)..rec.next :
        s \notin slipped \/ from = rec.next => CalendarFrom(rec, from) = rec.next
  BY <1>3 DEF CalendarFrom, rule, next
<1>6. Advanced(rec, rec.next).next = NextRunAt(rule, next, next, NoTime)
  BY DEF Advanced, rule, next
<1>7. CalendarFrom(rec, rec.next + 1) = NextRunAt(rule, next, NoTime, next)
  <2>1. (next + 1) - 1 = next
    BY <1>1
  <2>2. CalendarFrom(rec, next + 1) = NextRunAt(rule, (next + 1) - 1, NoTime, next)
    BY Zenon DEF CalendarFrom, rule, next
  <2>3. CalendarFrom(rec, next + 1) = NextRunAt(rule, next, NoTime, next)
    BY <2>1, <2>2, Zenon
  <2> QED  BY <2>3 DEF next
<1> QED  BY <1>4, <1>5, <1>6, <1>7

\* The scan of the calendar and that of the runner, anchored at different runs,
\* agree on the next run and on the one behind it.
THEOREM ScansAgree == Spec => []CalendarAgrees
<1>1. IInv => CalendarAgrees
  <2>1. SUFFICES ASSUME IInv, NEW s \in Schedule \ stale, Present(s),
                        table[s].rule.mode \in Recurring, table[s].next # NoTime,
                        table[s].next = table[s].slot, ~IsSkipped(table[s])
                 PROVE  /\ \A from \in (now + 1)..table[s].next :
                             s \notin slipped \/ from = table[s].next =>
                               CalendarFrom(table[s], from) = table[s].next
                        /\ Advanced(table[s], table[s].next).next # NoTime =>
                             CalendarFrom(table[s], table[s].next + 1)
                               = Advanced(table[s], table[s].next).next
    BY DEF CalendarAgrees
  <2>2. Types
    BY <2>1 DEF IInv
  <2>3. PICK rec \in Rows : rec = table[s]
    BY <2>1, <2>2, InBounds
  <2>4. Good(s, rec)
    BY <2>1, <2>3 DEF IInv, Agreed, TableSeen, Seen
  <2> QED  BY <2>1, <2>2, <2>3, <2>4, CalendarIs
<1> QED  BY <1>1, Invariant, PTL

-----------------------------------------------------------------------------
(* The badge and the events of a recording *)

Healths == {"unknown", "healthy", "warning", "critical"}
RowRec == [status : {"recording", "ended"}, health : Healths]
ProcRec ==
  [pc : {"idle", "check", "write", "row", "find", "list", "current", "commit"},
   check : 0..Len(Checks), event : Nat, seen : Health!Statuses \cup {"none"},
   action : Health!Actions \cup {"none", "alert"},
   row : RowRec, health : Healths \cup {"none"}, left : Nat]

EventRec == [kind : Health!Kinds, status : Health!Statuses]

\* Who is where, and with what, among so many events.
Fits(p, r, count) ==
  /\ r.pc = "write" =>
       IF p = Watchdog
       THEN /\ r.event \in 0..count /\ r.action \in {"resolve", "alert"}
            /\ r.event # 0 => r.seen \in Health!Statuses
            /\ r.event = 0 => r.action = "alert"
       ELSE /\ r.event \in 1..count /\ r.action \in Health!Actions
            /\ r.seen \in Health!Statuses
  /\ r.pc = "check" => p = Watchdog
  /\ p = Watchdog /\ r.pc \in {"check", "write"} => r.check # 0
  /\ r.pc = "row" => p # Watchdog
  /\ r.pc \in {"current", "commit"} => r.health \in Healths

HealthTypes ==
  /\ row \in RowRec
  /\ events \in Seq(EventRec)
  /\ proc \in [Health!Procs -> ProcRec]
  /\ \A p \in Health!Procs : Fits(p, proc[p], Len(events))
  /\ requests \in 0..MaxRequests /\ passes \in 0..MaxPasses
  /\ clash \in BOOLEAN /\ revived \subseteq Events

\* What a derivation that ran alone has read.
Derives(p) ==
  /\ proc[p].pc = "list" => proc[p].row.health = row.health
  /\ proc[p].pc \in {"current", "commit"} => proc[p].health = Badge

Alone ==
  ~clash =>
    /\ \A p, q \in Health!Procs : Health!Syncing(p) /\ Health!Syncing(q) => p = q
    /\ \A p \in Health!Procs : Derives(p)
    /\ (\A p \in Health!Procs : ~Health!Syncing(p)) =>
         row.health = Badge \/ (events = <<>> /\ row.health = "unknown")

\* The pass opens an event only when it found no active one of its kind, and what
\* became active since was brought back.
Opening ==
  proc[Watchdog].pc = "write" /\ proc[Watchdog].event = 0
    /\ Health!Kind # Reported =>
    \A e \in Events : Unresolved(e) /\ events[e].kind = Health!Kind => e \in revived

HealthInv == HealthTypes /\ Alone /\ Opening /\ OneActive

USE DEF Health!Procs, Health!Events, Events, Health!Unresolved, Unresolved


\* The invariant holds in a store without events.
LEMMA HealthInit ==
  ASSUME Health!HealthEventsAssumption, Health!Init
  PROVE  HealthInv
<1>1. HealthTypes
  <2>1. row \in RowRec /\ Health!Idle \in ProcRec /\ Health!Idle.pc = "idle"
    <3>1. row \in RowRec
      BY DEF Health!Init, RowRec, Healths
    <3>2. 0 \in 0..Len(Checks)
      BY DEF Health!HealthEventsAssumption
    <3> QED
      BY <3>1, <3>2 DEF Health!Idle, ProcRec
  <2>2. proc \in [Health!Procs -> ProcRec] /\ \A p \in Health!Procs : proc[p].pc = "idle"
    BY <2>1 DEF Health!Init
  <2>3. requests \in 0..MaxRequests /\ passes \in 0..MaxPasses
    BY DEF Health!HealthEventsAssumption, Health!Init
  <2>4. events \in Seq(EventRec)
    BY DEF Health!Init
  <2>5. clash \in BOOLEAN /\ revived \subseteq Events
    BY DEF Health!Init
  <2> QED
    BY <2>1, <2>2, <2>3, <2>4, <2>5 DEF HealthTypes, Fits
<1>2. Alone
  BY DEF Health!Init, Alone, Derives, Health!Idle, Health!Syncing
<1>3. Opening /\ OneActive
  BY DEF Health!Init, Opening, OneActive, Events, Health!Idle
<1> QED BY <1>1, <1>2, <1>3 DEF HealthInv

\* A process moves on; the others stay where they are.
LEMMA HealthGoes ==
  ASSUME HealthTypes, NEW p \in Health!Procs, NEW fields \in ProcRec, Health!Goes(p, fields)
  PROVE  /\ proc' \in [Health!Procs -> ProcRec]
         /\ proc'[p] = fields
         /\ \A q \in Health!Procs \ {p} : proc'[q] = proc[q]
BY DEF HealthTypes, Health!Goes

\* An idle process has the fields of a process.
LEMMA HealthIdle ==
  ASSUME HealthTypes
  PROVE  Health!Idle \in ProcRec
BY DEF HealthTypes, Health!Idle, ProcRec, Health!Statuses, Health!Actions, Healths

\* Where a process is when it is done with its check or its request.
LEMMA HealthDone ==
  ASSUME HealthTypes, Health!HealthEventsAssumption, NEW p \in Health!Procs, Health!Done(p)
  PROVE  \E fields \in ProcRec :
           /\ Health!Goes(p, fields)
           /\ fields.pc \in {"idle", "check"}
           /\ fields.pc = "check" => p = Watchdog /\ fields.check # 0
<1>1. CASE p = Watchdog /\ proc[p].check < Len(Checks)
  <2> DEFINE fields == [Health!Idle EXCEPT !.pc = "check", !.check = proc[p].check + 1]
  <2>1. proc[p].check \in 0..Len(Checks) /\ Len(Checks) \in Nat
    BY DEF HealthTypes, ProcRec, Health!HealthEventsAssumption
  <2>2. fields \in ProcRec /\ fields.pc = "check" /\ fields.check # 0
    <3>1. proc[p].check + 1 \in 0..Len(Checks) /\ proc[p].check + 1 # 0
      BY <1>1, <2>1
    <3> QED
      BY <3>1, HealthIdle DEF ProcRec
  <2>3. Health!Goes(p, fields)
    BY <1>1 DEF Health!Done
  <2> QED BY <1>1, <2>2, <2>3
<1>2. CASE ~(p = Watchdog /\ proc[p].check < Len(Checks))
  BY <1>2, HealthIdle DEF Health!Done, Health!Idle
<1> QED BY <1>1, <1>2

\* What the events say is a badge.
LEMMA HealthBadge ==
  Badge \in Healths
BY DEF Badge, Healths


\* A set of positive numbers up to a bound has a greatest member.
LEMMA Greatest ==
  ASSUME NEW n \in Nat, NEW numbers, numbers \subseteq 1..n, numbers # {}
  PROVE  \E e \in numbers : \A f \in numbers : f <= e
<1> DEFINE gaps == {n - e : e \in numbers}
<1>1. gaps \subseteq Nat /\ gaps # {}
  <2>1. \A e \in numbers : e \in 1..n /\ n - e \in Nat
    OBVIOUS
  <2>2. PICK e \in numbers : TRUE
    OBVIOUS
  <2>3. n - e \in gaps
    BY <2>2
  <2> QED
    BY <2>1, <2>3
<1>2. \E m \in gaps : \A o \in gaps : m <= o
  <2> HIDE DEF gaps
  <2>1. PICK m \in gaps : \A o \in gaps : <<o, m>> \notin OpToRel(<, Nat)
    BY <1>1, NatLessThanWellFounded, WFMin, Zenon
  <2>2. \A o \in gaps : o \in Nat /\ m \in Nat /\ ~(o < m)
    BY <1>1, <2>1, Zenon DEF OpToRel
  <2> QED
    BY <2>2
<1>3. PICK m \in gaps : \A o \in gaps : m <= o
  BY <1>2
<1>4. PICK e \in numbers : m = n - e
  OBVIOUS
<1>5. ASSUME NEW f \in numbers PROVE f <= e
  <2>1. n - f \in gaps
    OBVIOUS
  <2>2. n - e <= n - f /\ e \in 1..n /\ f \in 1..n
    BY <1>3, <1>4, <2>1
  <2> QED
    BY <2>2
<1> QED BY <1>5

\* The newest active event of a kind, or none when there is none.
LEMMA HealthActiveOf ==
  ASSUME HealthTypes, NEW kind
  PROVE  /\ Health!ActiveOf(kind) \in 0..Len(events)
         /\ Health!ActiveOf(kind) = 0 =>
              \A e \in Events : Unresolved(e) => events[e].kind # kind
<1> DEFINE found == {e \in Events : events[e].kind = kind /\ Unresolved(e)}
<1>1. Events = 1..Len(events) /\ Len(events) \in Nat
  BY DEF HealthTypes
<1>2. CASE found = {}
  BY <1>1, <1>2 DEF Health!ActiveOf
<1>3. CASE found # {}
  <2>1. found \subseteq 1..Len(events)
    BY <1>1
  <2>2. \E e \in found : \A f \in found : f <= e
    <3> HIDE DEF found
    <3> QED BY <1>1, <1>3, <2>1, Greatest
  <2>3. Health!ActiveOf(kind) = CHOOSE e \in found : \A f \in found : f <= e
    BY <1>3 DEF Health!ActiveOf
  <2>4. Health!ActiveOf(kind) \in found
    BY <2>2, <2>3
  <2> QED BY <1>1, <2>1, <2>4
<1> QED BY <1>2, <1>3

\* A process goes somewhere, beside what happens to the rest.
LEMMA HealthMoved ==
  ASSUME HealthTypes, NEW p \in Health!Procs, NEW fields \in ProcRec, Health!Goes(p, fields),
         Fits(p, fields, Len(events')), row' \in RowRec, events' \in Seq(EventRec),
         Len(events) <= Len(events'), requests' \in 0..MaxRequests, passes' \in 0..MaxPasses,
         clash' \in BOOLEAN, revived' \subseteq 1..Len(events')
  PROVE  HealthTypes'
<1>1. ASSUME NEW q \in Health!Procs PROVE Fits(q, proc'[q], Len(events'))
  <2>1. Len(events) \in Nat /\ Len(events') \in Nat
    BY DEF HealthTypes
  <2>2. CASE q = p
    BY <2>2, HealthGoes
  <2>3. CASE q # p
    <3>1. proc'[q] = proc[q] /\ Fits(q, proc[q], Len(events))
      BY <2>3, HealthGoes DEF HealthTypes
    <3> QED
      BY <2>1, <3>1 DEF Fits
  <2> QED
    BY <2>2, <2>3
<1>2. proc' \in [Health!Procs -> ProcRec]
  BY HealthGoes
<1>3. revived' \subseteq (DOMAIN events)'
  OBVIOUS
<1> QED
  BY <1>1, <1>2, <1>3 DEF HealthTypes

\* The same when only a process moves.
LEMMA HealthStays ==
  ASSUME HealthTypes, NEW p \in Health!Procs, NEW fields \in ProcRec, Health!Goes(p, fields),
         Fits(p, fields, Len(events)), row' \in RowRec, clash' \in BOOLEAN,
         UNCHANGED <<events, requests, passes, revived>>
  PROVE  HealthTypes'
<1>1. /\ events' \in Seq(EventRec) /\ Len(events') = Len(events) /\ Len(events) \in Nat
      /\ revived' \subseteq 1..Len(events')
      /\ requests' \in 0..MaxRequests /\ passes' \in 0..MaxPasses
  BY DEF HealthTypes
<1> QED
  BY <1>1, HealthMoved

\* A process that is done with its check or its request.
LEMMA HealthDoneStays ==
  ASSUME HealthTypes, Health!HealthEventsAssumption, NEW p \in Health!Procs, Health!Done(p),
         row' \in RowRec, clash' \in BOOLEAN, UNCHANGED <<events, requests, passes, revived>>
  PROVE  HealthTypes'
<1>1. PICK fields \in ProcRec :
        /\ Health!Goes(p, fields)
        /\ fields.pc \in {"idle", "check"}
        /\ fields.pc = "check" => p = Watchdog /\ fields.check # 0
  BY HealthDone
<1>2. Fits(p, fields, Len(events))
  BY <1>1 DEF Fits
<1> QED
  BY <1>1, <1>2, HealthStays

\* The steps of a sync of the badge keep the types.
LEMMA HealthSyncTypes ==
  ASSUME HealthTypes, Health!HealthEventsAssumption, NEW p \in Health!Procs,
         Health!SyncStep(p) \/ Health!Abandon(p)
  PROVE  HealthTypes'
<1>0. proc[p] \in ProcRec /\ row \in RowRec /\ clash \in BOOLEAN /\ Fits(p, proc[p], Len(events))
      /\ Badge \in Healths
  BY HealthBadge DEF HealthTypes
<1>1. CASE Health!FindRow(p)
  <2> DEFINE fields == [proc[p] EXCEPT !.pc = "list", !.row = row]
  <2>1. fields \in ProcRec /\ Fits(p, fields, Len(events))
    BY <1>0 DEF ProcRec, Fits
  <2> QED
    BY <1>0, <1>1, <2>1, HealthStays DEF Health!FindRow
<1>2. CASE Health!ListEvents(p)
  <2> DEFINE fields == [proc[p] EXCEPT !.pc = "current", !.health = Badge, !.left = Attempts]
  <2>1. fields \in ProcRec /\ Fits(p, fields, Len(events))
    BY <1>0 DEF ProcRec, Fits, Health!HealthEventsAssumption
  <2>2. CASE Health!Done(p)
    BY <1>0, <1>2, <2>2, HealthDoneStays DEF Health!ListEvents
  <2>3. CASE Health!Goes(p, fields)
    BY <1>0, <1>2, <2>1, <2>3, HealthStays DEF Health!ListEvents
  <2> QED
    BY <1>2, <2>2, <2>3 DEF Health!ListEvents, Health!Badge, Badge
<1>3. CASE Health!ReadCurrent(p)
  <2> DEFINE fields == [proc[p] EXCEPT !.pc = "commit", !.row = row]
  <2>1. proc[p].pc = "current" => fields \in ProcRec /\ Fits(p, fields, Len(events))
    BY <1>0 DEF ProcRec, Fits
  <2>2. CASE Health!Done(p)
    BY <1>0, <1>3, <2>2, HealthDoneStays DEF Health!ReadCurrent
  <2>3. CASE Health!Goes(p, fields)
    BY <1>0, <1>3, <2>1, <2>3, HealthStays DEF Health!ReadCurrent
  <2> QED
    BY <1>3, <2>2, <2>3 DEF Health!ReadCurrent
<1>4. CASE Health!Commit(p)
  <2>1. row' \in RowRec
    BY <1>0, <1>4 DEF Health!Commit, Fits, ProcRec, RowRec
  <2> QED
    BY <1>0, <1>4, <2>1, HealthDoneStays DEF Health!Commit
<1>5. CASE Health!CommitLost(p)
  <2> DEFINE fields == [proc[p] EXCEPT !.pc = "current", !.left = @ - 1]
  <2>1. CASE Health!Goes(p, fields) /\ proc[p].left > 1 /\ clash' = clash
    <3>1. fields \in ProcRec /\ Fits(p, fields, Len(events))
      <4>1. proc[p].left - 1 \in Nat /\ proc[p].health \in Healths
        BY <1>0, <1>5, <2>1 DEF ProcRec, Fits, Health!CommitLost
      <4> QED
        BY <1>0, <4>1 DEF ProcRec, Fits
    <3> QED
      BY <1>0, <1>5, <2>1, <3>1, HealthStays DEF Health!CommitLost
  <2>2. CASE Health!Done(p) /\ clash' = TRUE
    BY <1>0, <1>5, <2>2, HealthDoneStays DEF Health!CommitLost
  <2> QED
    BY <1>5, <2>1, <2>2 DEF Health!CommitLost
<1>6. CASE Health!Abandon(p)
  <2>1. Health!Idle \in ProcRec /\ Fits(p, Health!Idle, Len(events))
    BY HealthIdle DEF Fits, Health!Idle
  <2> QED
    BY <1>0, <1>6, <2>1, HealthStays DEF Health!Abandon
<1> QED
  BY <1>1, <1>2, <1>3, <1>4, <1>5, <1>6 DEF Health!SyncStep

\* The steps of a pass of the watchdog keep the types.
LEMMA HealthPassTypes ==
  ASSUME HealthTypes, Health!HealthEventsAssumption,
         Health!BeginPass \/ Health!Check \/ Health!WriteCheck
  PROVE  HealthTypes'
<1> DEFINE me == proc[Watchdog]
<1>0. /\ me \in ProcRec /\ row \in RowRec /\ clash \in BOOLEAN /\ Watchdog \in Health!Procs
      /\ Fits(Watchdog, me, Len(events)) /\ Len(events) \in Nat
      /\ DOMAIN events = 1..Len(events)
      /\ \A e \in 1..Len(events) : events[e] \in EventRec
  BY DEF HealthTypes
<1>1. CASE Health!BeginPass
  <2> DEFINE fields == [Health!Idle EXCEPT !.pc = "check", !.check = 1]
  <2>1. 1 \in 0..Len(Checks)
    BY DEF Health!HealthEventsAssumption
  <2>2. fields \in ProcRec
    BY <2>1, HealthIdle DEF ProcRec
  <2>3. fields.pc = "check" /\ fields.check = 1
    BY DEF Health!Idle
  <2>4. Fits(Watchdog, fields, Len(events))
    BY <2>3 DEF Fits
  <2>5. passes' \in 0..MaxPasses
    BY <1>1 DEF Health!BeginPass, HealthTypes, Health!HealthEventsAssumption
  <2> QED
    BY <1>0, <1>1, <2>2, <2>4, <2>5, HealthMoved DEF Health!BeginPass, HealthTypes
<1>2. CASE Health!Check
  <2> DEFINE existing == Health!ActiveOf(Health!Kind)
             to(bad) == [proc[Watchdog] EXCEPT
                           !.pc = "write", !.event = existing,
                           !.seen = IF existing = 0 THEN "none" ELSE events[existing].status,
                           !.action = IF ~bad THEN "resolve" ELSE "alert"]
  <2>1. existing \in 0..Len(events)
    BY HealthActiveOf
  <2>2. PICK bad \in BOOLEAN :
          IF ~bad /\ existing = 0 THEN Health!Done(Watchdog)
          ELSE Health!Goes(Watchdog, to(bad))
    BY <1>2 DEF Health!Check
  <2>3. CASE ~bad /\ existing = 0
    BY <1>0, <1>2, <2>2, <2>3, HealthDoneStays DEF Health!Check
  <2>4. CASE ~(~bad /\ existing = 0)
    <3>0. me.pc = "check"
      BY <1>2 DEF Health!Check
    <3> HIDE DEF existing
    <3>1. /\ existing # 0 => events[existing].status \in Health!Statuses
          /\ me.check # 0
      BY <1>0, <2>1, <3>0 DEF EventRec, Fits
    <3>2. to(bad) \in ProcRec
      <4>1. existing \in Nat
        BY <1>0, <2>1
      <4>2. (IF existing = 0 THEN "none" ELSE events[existing].status)
              \in Health!Statuses \cup {"none"}
        BY <3>1
      <4>3. (IF ~bad THEN "resolve" ELSE "alert") \in Health!Actions \cup {"none", "alert"}
        BY DEF Health!Actions
      <4>4. "write" \in {"idle", "check", "write", "row", "find", "list", "current", "commit"}
        OBVIOUS
      <4> QED
        BY <1>0, <4>1, <4>2, <4>3, <4>4 DEF ProcRec
    <3>3. Fits(Watchdog, to(bad), Len(events))
      BY <1>0, <2>1, <2>4, <3>1 DEF Fits, ProcRec
    <3> QED
      BY <1>0, <1>2, <2>2, <2>4, <3>2, <3>3, HealthStays DEF Health!Check
  <2> QED
    BY <2>3, <2>4
<1>3. CASE Health!WriteCheck
  <2> DEFINE fields == [proc[Watchdog] EXCEPT !.pc = "find"]
             status == IF me.action = "resolve" THEN "resolved" ELSE me.seen
  <2>1. fields \in ProcRec /\ (\A count : Fits(Watchdog, fields, count))
    BY <1>0 DEF ProcRec, Fits
  <2>2. Health!Goes(Watchdog, fields) /\ clash' \in BOOLEAN
    BY <1>3 DEF Health!WriteCheck, Health!ThenSync
  <2>5. row' \in RowRec /\ requests' \in 0..MaxRequests /\ passes' \in 0..MaxPasses
    BY <1>3 DEF Health!WriteCheck, HealthTypes
  <2>3. CASE me.event = 0
    <3>1. events' = Append(events, [kind |-> Health!Kind, status |-> "open"])
          /\ revived' = revived
      BY <1>3, <2>3 DEF Health!WriteCheck, Health!Opens
    <3>2. [kind |-> Health!Kind, status |-> "open"] \in EventRec
      <4>1. me.check \in 1..Len(Checks)
        BY <1>0, <1>3 DEF Health!WriteCheck, Fits, ProcRec, Health!HealthEventsAssumption
      <4>2. Health!Kind \in Health!Kinds
        BY <4>1 DEF Health!Kind, Health!Kinds
      <4> QED
        BY <4>2 DEF EventRec, Health!Statuses
    <3>3. /\ events' \in Seq(EventRec) /\ Len(events') = Len(events) + 1
      BY <3>1, <3>2 DEF HealthTypes
    <3>4. revived' \subseteq 1..Len(events')
      BY <1>0, <3>1, <3>3 DEF HealthTypes
    <3>5. Fits(Watchdog, fields, Len(events')) /\ Len(events) <= Len(events')
      BY <1>0, <2>1, <3>3
    <3> HIDE DEF fields
    <3> QED
      BY <1>0, <2>1, <2>2, <2>5, <3>3, <3>4, <3>5, HealthMoved
  <2>4. CASE me.event # 0
    <3>1. me.event \in 1..Len(events) /\ status \in Health!Statuses
      BY <1>0, <1>3, <2>4 DEF Health!WriteCheck, Fits, Health!Statuses
    <3>2. events' = [events EXCEPT ![me.event].status = status]
          /\ revived' \subseteq revived \cup {me.event}
      BY <1>3, <2>4 DEF Health!WriteCheck
    <3>3. events' \in Seq(EventRec) /\ Len(events') = Len(events)
      <4>1. [events[me.event] EXCEPT !.status = status] \in EventRec
        BY <1>0, <3>1 DEF EventRec
      <4> HIDE DEF status
      <4> QED
        BY <3>1, <3>2, <4>1 DEF HealthTypes
    <3>4. revived' \subseteq 1..Len(events')
      BY <1>0, <3>1, <3>2, <3>3 DEF HealthTypes
    <3>5. Fits(Watchdog, fields, Len(events')) /\ Len(events) <= Len(events')
      BY <1>0, <2>1, <3>3
    <3> HIDE DEF fields
    <3> QED
      BY <1>0, <2>1, <2>2, <2>5, <3>3, <3>4, <3>5, HealthMoved
  <2> QED
    BY <2>3, <2>4
<1> QED
  BY <1>1, <1>2, <1>3

\* The steps of a request keep the types.
LEMMA HealthRequestTypes ==
  ASSUME HealthTypes, Health!HealthEventsAssumption, NEW q \in Request,
         \/ Health!Report(q) \/ Health!FindEvent(q) \/ Health!WriteLifecycle(q)
         \/ Health!ReadRow(q) \/ Health!WriteRow(q)
  PROVE  HealthTypes'
<1> DEFINE me == proc[q]
<1>0. /\ me \in ProcRec /\ row \in RowRec /\ clash \in BOOLEAN /\ q \in Health!Procs
      /\ Fits(q, me, Len(events)) /\ Len(events) \in Nat /\ q # Watchdog
      /\ DOMAIN events = 1..Len(events)
      /\ \A e \in 1..Len(events) : events[e] \in EventRec
  BY DEF HealthTypes, Health!HealthEventsAssumption
<1>1. requests < MaxRequests /\ requests' = requests + 1 => requests' \in 0..MaxRequests
  BY DEF HealthTypes, Health!HealthEventsAssumption
<1>2. CASE Health!Report(q)
  <2> DEFINE fields == [proc[q] EXCEPT !.pc = "find"]
  <2>1. fields \in ProcRec /\ (\A count : Fits(q, fields, count))
    BY <1>0 DEF ProcRec, Fits
  <2>2. Health!Goes(q, fields) /\ clash' \in BOOLEAN
    BY <1>2 DEF Health!Report, Health!ThenSync
  <2>3. events' = Append(events, [kind |-> Reported, status |-> "open"])
    BY <1>2 DEF Health!Report, Health!Opens
  <2>4. [kind |-> Reported, status |-> "open"] \in EventRec
    BY DEF EventRec, Health!Statuses, Health!Kinds
  <2>5. /\ events' \in Seq(EventRec) /\ Len(events') = Len(events) + 1
    BY <2>3, <2>4 DEF HealthTypes
  <2>6. revived' \subseteq 1..Len(events')
    BY <1>0, <1>2, <2>5 DEF HealthTypes, Health!Report
  <2>7. row' \in RowRec /\ requests' \in 0..MaxRequests /\ passes' \in 0..MaxPasses
    BY <1>0, <1>1, <1>2 DEF Health!Report, HealthTypes
  <2>8. Fits(q, fields, Len(events')) /\ Len(events) <= Len(events')
    BY <1>0, <2>1, <2>5
  <2> HIDE DEF fields
  <2> QED
    BY <1>0, <2>1, <2>2, <2>5, <2>6, <2>7, <2>8, HealthMoved
<1>3. CASE Health!FindEvent(q)
  <2>1. PICK e \in Events, action \in Health!Actions :
          Health!Goes(q, [Health!Idle EXCEPT !.pc = "write", !.event = e,
                                            !.seen = events[e].status, !.action = action])
    BY <1>3 DEF Health!FindEvent
  <2> DEFINE fields == [Health!Idle EXCEPT !.pc = "write", !.event = e,
                                           !.seen = events[e].status, !.action = action]
  <2>2. e \in 1..Len(events) /\ e \in Nat /\ events[e].status \in Health!Statuses
    BY <1>0 DEF EventRec
  <2>3. fields \in ProcRec
    BY <2>2, HealthIdle DEF ProcRec
  <2>4. Fits(q, fields, Len(events))
    BY <1>0, <2>2, HealthIdle DEF Fits, ProcRec
  <2>5. /\ UNCHANGED <<row, events, passes, clash, revived>>
        /\ requests' \in 0..MaxRequests
    BY <1>1, <1>3 DEF Health!FindEvent
  <2>6. /\ events' \in Seq(EventRec) /\ Len(events') = Len(events)
        /\ revived' \subseteq 1..Len(events') /\ passes' \in 0..MaxPasses
    BY <1>0, <2>5 DEF HealthTypes
  <2> HIDE DEF fields
  <2>7. Health!Goes(q, fields)
    BY <2>1 DEF fields
  <2> QED
    BY <1>0, <2>3, <2>4, <2>5, <2>6, <2>7, HealthMoved
<1>4. CASE Health!WriteLifecycle(q)
  <2> DEFINE fields == [proc[q] EXCEPT !.pc = "find"]
             status == Health!Lifecycle(me.action, me.seen)
  <2>1. fields \in ProcRec /\ (\A count : Fits(q, fields, count))
    BY <1>0 DEF ProcRec, Fits
  <2>2. Health!Goes(q, fields) /\ clash' \in BOOLEAN
    BY <1>4 DEF Health!WriteLifecycle, Health!ThenSync
  <2>3. me.event \in 1..Len(events) /\ me.action \in Health!Actions
    BY <1>0, <1>4 DEF Health!WriteLifecycle, Fits
  <2>4. status \in Health!Statuses
    BY <2>3 DEF Health!Lifecycle, Health!Actions, Health!Statuses
  <2>5. events' = [events EXCEPT ![me.event].status = status]
        /\ revived' \subseteq revived \cup {me.event}
    BY <1>4 DEF Health!WriteLifecycle
  <2> HIDE DEF status
  <2>6. events' \in Seq(EventRec) /\ Len(events') = Len(events)
    <3>1. [events[me.event] EXCEPT !.status = status] \in EventRec
      BY <1>0, <2>3, <2>4 DEF EventRec
    <3> QED
      BY <2>3, <2>5, <3>1 DEF HealthTypes
  <2>7. revived' \subseteq 1..Len(events')
    BY <1>0, <2>3, <2>5, <2>6 DEF HealthTypes
  <2> QED
    BY <1>0, <1>4, <2>1, <2>2, <2>6, <2>7, HealthMoved DEF Health!WriteLifecycle, HealthTypes
<1>5. CASE Health!ReadRow(q)
  <2> DEFINE fields == [Health!Idle EXCEPT !.pc = "row", !.row = row]
  <2>1. fields \in ProcRec /\ Fits(q, fields, Len(events))
    BY <1>0, HealthIdle DEF ProcRec, Fits
  <2> QED
    BY <1>0, <1>1, <1>5, <2>1, HealthMoved DEF Health!ReadRow, HealthTypes
<1>6. CASE Health!WriteRow(q)
  <2>1. Health!Idle \in ProcRec /\ Fits(q, Health!Idle, Len(events))
    BY HealthIdle DEF Fits, Health!Idle
  <2>2. row' \in RowRec /\ clash' \in BOOLEAN
    BY <1>0, <1>6 DEF Health!WriteRow, ProcRec, RowRec
  <2> QED
    BY <1>0, <1>6, <2>1, <2>2, HealthStays DEF Health!WriteRow
<1> QED
  BY <1>2, <1>3, <1>4, <1>5, <1>6

\* Every step keeps the types.
LEMMA HealthTypesKept ==
  ASSUME HealthTypes, Health!HealthEventsAssumption, [Health!Next]_Health!vars
  PROVE  HealthTypes'
<1>1. CASE UNCHANGED Health!vars
  BY <1>1 DEF Health!vars, HealthTypes, Health!Kinds
<1>2. CASE Health!Next
  BY <1>2, HealthSyncTypes, HealthPassTypes, HealthRequestTypes DEF Health!Next
<1> QED
  BY <1>1, <1>2

-----------------------------------------------------------------------------

SyncPcs == {"find", "list", "current", "commit"}
Agrees == row.health = Badge \/ (events = <<>> /\ row.health = "unknown")

\* A derivation goes on alone, or meets another and says so.
LEMMA HealthAlone ==
  ASSUME HealthTypes, NEW p \in Health!Procs, NEW fields \in ProcRec, Health!Goes(p, fields),
         ~clash' =>
           /\ \A q \in Health!Procs \ {p} : ~Health!Syncing(q)
           /\ fields.pc = "list" => fields.row.health = row'.health
           /\ fields.pc \in {"current", "commit"} => fields.health = Badge'
           /\ fields.pc \notin SyncPcs => Agrees'
  PROVE  Alone'
<1> SUFFICES ASSUME ~clash' PROVE Alone'
  BY DEF Alone
<1>1. \A q \in Health!Procs \ {p} : proc'[q] = proc[q] /\ ~Health!Syncing(q)'
  BY HealthGoes DEF Health!Syncing
<1>2. \A q, o \in Health!Procs : Health!Syncing(q)' /\ Health!Syncing(o)' => q = o
  BY <1>1
<1>3. proc'[p] = fields
  BY HealthGoes
<1>4. ASSUME NEW q \in Health!Procs PROVE Derives(q)'
  BY <1>1, <1>3 DEF Derives, Health!Syncing
<1>5. (\A q \in Health!Procs : ~Health!Syncing(q)') => Agrees'
  BY <1>3 DEF Health!Syncing, SyncPcs
<1> QED
  BY <1>2, <1>4, <1>5 DEF Alone, Agrees

\* Whatever else moves leaves the derivations alone.
LEMMA HealthAside ==
  ASSUME HealthTypes, Alone, NEW p \in Health!Procs, NEW fields \in ProcRec,
         Health!Goes(p, fields), proc[p].pc \notin SyncPcs, fields.pc \notin SyncPcs,
         events' = events, ~clash' => ~clash /\ row'.health = row.health
  PROVE  Alone'
<1> SUFFICES ASSUME ~clash' PROVE Alone'
  BY DEF Alone
<1>1. \A q \in Health!Procs : Health!Syncing(q)' <=> Health!Syncing(q)
  BY HealthGoes DEF Health!Syncing, SyncPcs
<1>2. Badge' = Badge
  BY DEF Badge
<1>3. \A q \in Health!Procs : proc'[q] = proc[q] \/ proc'[q].pc \notin SyncPcs
  BY HealthGoes
<1>4. \A q \in Health!Procs : Derives(q)'
  BY <1>2, <1>3 DEF Derives, Alone, SyncPcs
<1> QED
  BY <1>1, <1>2, <1>4 DEF Alone

\* A step of a sync: it stays true of whoever syncs alone that what it read, and
\* the badge it works out, are those of the events.
LEMMA HealthSyncAlone ==
  ASSUME HealthTypes, Health!HealthEventsAssumption, Alone, NEW p \in Health!Procs,
         Health!SyncStep(p) \/ Health!Abandon(p)
  PROVE  Alone'
<1>0. /\ proc[p] \in ProcRec /\ row \in RowRec /\ clash \in BOOLEAN
      /\ Fits(p, proc[p], Len(events)) /\ Badge \in Healths /\ Health!Badge = Badge
      /\ events' = events /\ Badge' = Badge /\ Health!Syncing(p)
  BY HealthBadge DEF HealthTypes, Badge, Health!Badge, Health!SyncStep, Health!Syncing,
     Health!FindRow, Health!ListEvents, Health!ReadCurrent, Health!Commit, Health!CommitLost,
     Health!Abandon
<1>1. ~clash => \A q \in Health!Procs \ {p} : ~Health!Syncing(q)
  BY <1>0 DEF Alone
<1>2. CASE Health!FindRow(p)
  <2> DEFINE fields == [proc[p] EXCEPT !.pc = "list", !.row = row]
  <2>1. fields \in ProcRec /\ fields.pc = "list" /\ fields.row = row
    BY <1>0 DEF ProcRec
  <2>2. Health!Goes(p, fields) /\ clash' = clash /\ row' = row
    BY <1>2 DEF Health!FindRow
  <2> HIDE DEF fields
  <2> QED
    BY <1>1, <2>1, <2>2, HealthAlone DEF SyncPcs
<1>3. CASE Health!ListEvents(p)
  <2> DEFINE fields == [proc[p] EXCEPT !.pc = "current", !.health = Badge, !.left = Attempts]
  <2>1. fields \in ProcRec /\ fields.pc = "current" /\ fields.health = Badge
    BY <1>0 DEF ProcRec, Health!HealthEventsAssumption
  <2>2. clash' = clash /\ row' = row
    BY <1>3 DEF Health!ListEvents
  <2>3. CASE Health!Goes(p, fields)
    <3> HIDE DEF fields
    <3> QED
      BY <1>0, <1>1, <2>1, <2>2, <2>3, HealthAlone DEF SyncPcs
  <2>4. CASE Health!Done(p) /\ proc[p].row.health = Badge
    <3>1. PICK r \in ProcRec : Health!Goes(p, r) /\ r.pc \in {"idle", "check"}
      BY <2>4, HealthDone
    <3>2. ~clash => Agrees'
      BY <1>0, <1>3, <2>2, <2>4 DEF Agrees, Alone, Derives, Health!ListEvents
    <3> QED
      BY <1>1, <2>2, <3>1, <3>2, HealthAlone
  <2> QED
    BY <1>0, <1>3, <2>3, <2>4 DEF Health!ListEvents
<1>4. CASE Health!ReadCurrent(p)
  <2> DEFINE fields == [proc[p] EXCEPT !.pc = "commit", !.row = row]
  <2>1. fields \in ProcRec /\ fields.pc = "commit" /\ fields.health = proc[p].health
    BY <1>0 DEF ProcRec
  <2>2. clash' = clash /\ row' = row /\ (~clash => proc[p].health = Badge)
    BY <1>4 DEF Health!ReadCurrent, Alone, Derives
  <2>3. CASE Health!Goes(p, fields)
    <3> HIDE DEF fields
    <3> QED
      BY <1>0, <1>1, <2>1, <2>2, <2>3, HealthAlone DEF SyncPcs
  <2>4. CASE Health!Done(p) /\ row.health = proc[p].health
    <3>1. PICK r \in ProcRec : Health!Goes(p, r) /\ r.pc \in {"idle", "check"}
      BY <2>4, HealthDone
    <3>2. ~clash => Agrees'
      BY <1>0, <2>2, <2>4 DEF Agrees
    <3> QED
      BY <1>1, <2>2, <3>1, <3>2, HealthAlone
  <2> QED
    BY <1>4, <2>3, <2>4 DEF Health!ReadCurrent
<1>5. CASE Health!Commit(p)
  <2>1. PICK r \in ProcRec : Health!Goes(p, r) /\ r.pc \in {"idle", "check"}
    BY <1>5, HealthDone DEF Health!Commit
  <2>2. clash' = clash /\ row'.health = proc[p].health /\ (~clash => proc[p].health = Badge)
    BY <1>0, <1>5 DEF Health!Commit, Alone, Derives, ProcRec, RowRec
  <2>3. ~clash => Agrees'
    BY <1>0, <2>2 DEF Agrees
  <2> QED
    BY <1>1, <2>1, <2>2, <2>3, HealthAlone
<1>6. CASE Health!CommitLost(p)
  <2> DEFINE fields == [proc[p] EXCEPT !.pc = "current", !.left = @ - 1]
  <2>1. CASE Health!Goes(p, fields) /\ proc[p].left > 1 /\ clash' = clash
    <3>1. proc[p].left - 1 \in Nat /\ (~clash => proc[p].health = Badge)
      BY <1>0, <1>6, <2>1 DEF ProcRec, Health!CommitLost, Alone, Derives
    <3>2. fields \in ProcRec /\ fields.pc = "current" /\ fields.health = proc[p].health
      BY <1>0, <3>1 DEF ProcRec
    <3> HIDE DEF fields
    <3> QED
      BY <1>0, <1>1, <2>1, <3>1, <3>2, HealthAlone DEF SyncPcs
  <2>2. CASE clash' = TRUE
    BY <2>2 DEF Alone
  <2> QED
    BY <1>6, <2>1, <2>2 DEF Health!CommitLost
<1>7. CASE Health!Abandon(p)
  BY <1>7 DEF Health!Abandon, Alone
<1> QED
  BY <1>2, <1>3, <1>4, <1>5, <1>6, <1>7 DEF Health!SyncStep

\* A derivation begins.
LEMMA HealthBegins ==
  ASSUME HealthTypes, NEW p \in Health!Procs, Health!ThenSync(p)
  PROVE  Alone'
<1> DEFINE fields == [proc[p] EXCEPT !.pc = "find"]
<1>1. fields \in ProcRec /\ fields.pc = "find"
  BY DEF HealthTypes, ProcRec
<1>2. Health!Goes(p, fields)
  BY DEF Health!ThenSync
<1>3. ~clash' => \A q \in Health!Procs \ {p} : ~Health!Syncing(q)
  BY DEF Health!ThenSync
<1> HIDE DEF fields
<1> QED
  BY <1>1, <1>2, <1>3, HealthAlone DEF SyncPcs

\* A step outside of the syncs changes the events only of its own process, which
\* then syncs after it.
LEMMA HealthOthersAlone ==
  ASSUME HealthTypes, Health!HealthEventsAssumption, Alone,
         \/ Health!BeginPass \/ Health!Check \/ Health!WriteCheck
         \/ \E q \in Request : \/ Health!Report(q) \/ Health!FindEvent(q)
                               \/ Health!WriteLifecycle(q)
                               \/ Health!ReadRow(q) \/ Health!WriteRow(q)
  PROVE  Alone'
<1>0. Health!Idle \in ProcRec /\ Watchdog \in Health!Procs
      /\ \A q \in Request : q \in Health!Procs
  BY HealthIdle
<1>1. CASE Health!BeginPass
  <2> DEFINE fields == [Health!Idle EXCEPT !.pc = "check", !.check = 1]
  <2>1. 1 \in 0..Len(Checks)
    BY DEF Health!HealthEventsAssumption
  <2>2. fields \in ProcRec /\ fields.pc = "check"
    BY <1>0, <2>1 DEF ProcRec
  <2>3. /\ Health!Goes(Watchdog, fields) /\ proc[Watchdog].pc = "idle"
        /\ UNCHANGED <<events, clash, row>>
    BY <1>1 DEF Health!BeginPass
  <2> HIDE DEF fields
  <2> QED
    BY <1>0, <2>2, <2>3, HealthAside DEF SyncPcs
<1>2. CASE Health!Check
  <2>0. proc[Watchdog].pc = "check" /\ UNCHANGED <<row, events, clash>>
    BY <1>2 DEF Health!Check
  <2>1. PICK fields \in ProcRec : Health!Goes(Watchdog, fields) /\ fields.pc \notin SyncPcs
    <3>1. CASE Health!Done(Watchdog)
      BY <1>0, <3>1, HealthDone DEF SyncPcs
    <3>2. CASE ~Health!Done(Watchdog)
      <4> DEFINE existing == Health!ActiveOf(Health!Kind)
                 to(bad) == [proc[Watchdog] EXCEPT
                               !.pc = "write", !.event = existing,
                               !.seen = IF existing = 0 THEN "none" ELSE events[existing].status,
                               !.action = IF ~bad THEN "resolve" ELSE "alert"]
      <4>1. PICK bad \in BOOLEAN : Health!Goes(Watchdog, to(bad))
        BY <1>2, <3>2 DEF Health!Check
      <4>2. to(bad).pc = "write" /\ proc' = [proc EXCEPT ![Watchdog] = to(bad)]
        BY <1>0, <4>1 DEF HealthTypes, ProcRec, Health!Goes
      <4>3. proc' \in [Health!Procs -> ProcRec]
        BY <1>2, HealthPassTypes DEF HealthTypes
      <4> HIDE DEF to
      <4>4. to(bad) \in ProcRec
        BY <1>0, <4>2, <4>3 DEF HealthTypes
      <4> QED
        BY <4>1, <4>2, <4>4 DEF SyncPcs
    <3> QED
      BY <3>1, <3>2
  <2> QED
    BY <1>0, <2>0, <2>1, HealthAside DEF SyncPcs
<1>3. CASE Health!WriteCheck
  BY <1>0, <1>3, HealthBegins DEF Health!WriteCheck
<1>4. ASSUME NEW q \in Request, Health!Report(q) \/ Health!WriteLifecycle(q) PROVE Alone'
  BY <1>0, <1>4, HealthBegins DEF Health!Report, Health!WriteLifecycle
<1>5. ASSUME NEW q \in Request, Health!FindEvent(q) \/ Health!ReadRow(q) PROVE Alone'
  <2>1. PICK fields : Health!Goes(q, fields) /\ fields.pc \in {"write", "row"}
    <3>1. CASE Health!FindEvent(q)
      <4>1. PICK e \in Events, action \in Health!Actions :
              Health!Goes(q, [Health!Idle EXCEPT !.pc = "write", !.event = e,
                                               !.seen = events[e].status, !.action = action])
        BY <3>1 DEF Health!FindEvent
      <4>2. [Health!Idle EXCEPT !.pc = "write", !.event = e, !.seen = events[e].status,
                                !.action = action].pc = "write"
        BY DEF Health!Idle
      <4> QED
        BY <4>1, <4>2
    <3>2. CASE Health!ReadRow(q)
      <4>1. Health!Goes(q, [Health!Idle EXCEPT !.pc = "row", !.row = row])
        BY <3>2 DEF Health!ReadRow
      <4>2. [Health!Idle EXCEPT !.pc = "row", !.row = row].pc = "row"
        BY DEF Health!Idle
      <4> QED
        BY <4>1, <4>2
    <3> QED
      BY <1>5, <3>1, <3>2
  <2>2. proc' \in [Health!Procs -> ProcRec]
    BY <1>5, HealthRequestTypes DEF HealthTypes
  <2>3. fields \in ProcRec
    BY <1>0, <2>1, <2>2 DEF HealthTypes, Health!Goes
  <2>4. proc[q].pc = "idle" /\ UNCHANGED <<row, events, clash>>
    BY <1>5 DEF Health!FindEvent, Health!ReadRow
  <2> QED
    BY <1>0, <2>1, <2>3, <2>4, HealthAside DEF SyncPcs
<1>6. ASSUME NEW q \in Request, Health!WriteRow(q) PROVE Alone'
  <2>1. Health!Goes(q, Health!Idle) /\ proc[q].pc = "row" /\ events' = events
    BY <1>6 DEF Health!WriteRow
  <2>2. ~clash' => ~clash /\ row'.health = row.health
    BY <1>0, <1>6 DEF Health!WriteRow, HealthTypes, ProcRec, RowRec
  <2>3. Health!Idle.pc = "idle"
    BY DEF Health!Idle
  <2> QED
    BY <1>0, <2>1, <2>2, <2>3, HealthAside DEF SyncPcs
<1> QED
  BY <1>1, <1>2, <1>3, <1>4, <1>5, <1>6

-----------------------------------------------------------------------------

\* An event that is written keeps its kind, and is brought back or was active.
Rewritten(e, status) ==
  /\ e \in Events /\ events' = [events EXCEPT ![e].status = status]
  /\ revived' = IF ~Unresolved(e) /\ status # "resolved" THEN revived \cup {e} ELSE revived

\* An event that gets a status keeps its kind, and is noted when it comes back.
LEMMA HealthRewritten ==
  ASSUME HealthTypes, NEW e, NEW status, Rewritten(e, status)
  PROVE  /\ (DOMAIN events)' = Events /\ revived \subseteq revived'
         /\ \A f \in Events : events'[f].kind = events[f].kind
         /\ \A f \in Events :
              events'[f].status # "resolved" => Unresolved(f) \/ f \in revived'
<1>1. \A f \in Events : events[f] \in EventRec
  BY DEF HealthTypes
<1>2. (DOMAIN events)' = Events /\ revived \subseteq revived'
  BY DEF Rewritten
<1>3. events'[e].kind = events[e].kind /\ events'[e].status = status
  BY <1>1 DEF Rewritten, EventRec
<1>4. \A f \in Events \ {e} : events'[f] = events[f]
  BY DEF Rewritten
<1> QED
  BY <1>2, <1>3, <1>4 DEF Rewritten

\* No kind gets a second active event by a new status of an event.
LEMMA HealthRewrittenOne ==
  ASSUME HealthTypes, OneActive, NEW e, NEW status, Rewritten(e, status)
  PROVE  OneActive'
<1> USE HealthRewritten
<1> SUFFICES ASSUME NEW f \in Events, NEW g \in Events, f < g,
                    events'[f].status # "resolved", events'[g].status # "resolved",
                    events'[f].kind = events'[g].kind, events'[f].kind # Reported
             PROVE  f \in revived' \/ g \in revived'
  BY DEF OneActive
<1>1. \/ f \in revived' \/ g \in revived'
      \/ Unresolved(f) /\ Unresolved(g)
  OBVIOUS
<1> QED
  BY <1>1 DEF OneActive

\* A report's event, or one that the pass opens.
LEMMA HealthOpened ==
  ASSUME HealthTypes, OneActive, NEW kind, Health!Opens(kind), revived' = revived,
         kind # Reported =>
           \A e \in Events : Unresolved(e) /\ events[e].kind = kind => e \in revived
  PROVE  OneActive'
<1>1. Len(events) \in Nat /\ Events = 1..Len(events)
  BY DEF HealthTypes
<1>2. /\ (DOMAIN events)' = 1..Len(events) + 1
      /\ \A e \in Events : events'[e] = events[e]
      /\ events'[Len(events) + 1] = [kind |-> kind, status |-> "open"]
  BY <1>1 DEF Health!Opens, HealthTypes
<1> SUFFICES ASSUME NEW f \in (DOMAIN events)', NEW g \in (DOMAIN events)', f < g,
                    events'[f].status # "resolved", events'[g].status # "resolved",
                    events'[f].kind = events'[g].kind, events'[f].kind # Reported
             PROVE  f \in revived \/ g \in revived
  BY DEF OneActive
<1>3. f \in Events
  BY <1>1, <1>2
<1>4. CASE g \in Events
  BY <1>2, <1>3, <1>4 DEF OneActive
<1>5. CASE g = Len(events) + 1
  <2>1. events[f].kind = kind /\ Unresolved(f) /\ kind # Reported
    BY <1>2, <1>3, <1>5
  <2> QED
    BY <1>3, <2>1
<1> QED
  BY <1>1, <1>2, <1>4, <1>5

\* The pass is not about to open an event, or was already, and nothing became
\* active of the kind that was not brought back.
LEMMA HealthOpeningStays ==
  ASSUME HealthTypes, Opening, proc'[Watchdog] = proc[Watchdog], revived \subseteq revived',
         \A e \in (DOMAIN events)' :
           \/ events'[e].kind = Reported \/ events'[e].status = "resolved"
           \/ e \in revived'
           \/ e \in Events /\ Unresolved(e) /\ events'[e].kind = events[e].kind
  PROVE  Opening'
BY DEF Opening, Health!Kind

\* No step opens a second active event of a kind.
LEMMA HealthOneKept ==
  ASSUME HealthTypes, Health!HealthEventsAssumption, Opening, OneActive, Health!Next
  PROVE  Opening' /\ OneActive'
<1>0. /\ Watchdog \in Health!Procs
      /\ \A q \in Request : q \in Health!Procs /\ q # Watchdog
      /\ DOMAIN events = 1..Len(events) /\ Len(events) \in Nat
  BY DEF HealthTypes, Health!HealthEventsAssumption
\* Steps that leave the events.
<1>1. ASSUME UNCHANGED <<events, revived>>, proc'[Watchdog] = proc[Watchdog]
      PROVE  Opening' /\ OneActive'
  BY <1>1 DEF Opening, OneActive, Health!Kind
<1>2. ASSUME UNCHANGED <<events, revived>>, proc'[Watchdog].pc # "write"
      PROVE  Opening' /\ OneActive'
  BY <1>2 DEF Opening, OneActive, Health!Kind
<1>3. ASSUME NEW p \in Health!Procs, Health!SyncStep(p) \/ Health!Abandon(p)
      PROVE  Opening' /\ OneActive'
  <2>1. UNCHANGED <<events, revived>>
    BY <1>3 DEF Health!SyncStep, Health!FindRow, Health!ListEvents, Health!ReadCurrent,
       Health!Commit, Health!CommitLost, Health!Abandon
  <2>2. PICK fields : Health!Goes(p, fields) /\ fields.pc # "write"
    <3>1. CASE Health!Done(p)
      BY <3>1, HealthDone
    <3>2. CASE Health!Goes(p, Health!Idle)
      BY <3>2 DEF Health!Idle
    <3>3. ASSUME NEW pc \in SyncPcs, NEW fields,
                 fields.pc = pc, Health!Goes(p, fields)
          PROVE  \E f : Health!Goes(p, f) /\ f.pc # "write"
      BY <3>3 DEF SyncPcs
    <3>4. proc[p] \in ProcRec
      BY DEF HealthTypes
    <3>5. [proc[p] EXCEPT !.pc = "list", !.row = row].pc = "list"
      BY <3>4 DEF ProcRec
    <3>6. [proc[p] EXCEPT !.pc = "current", !.health = Health!Badge, !.left = Attempts].pc = "current"
      BY <3>4 DEF ProcRec
    <3>7. [proc[p] EXCEPT !.pc = "commit", !.row = row].pc = "commit"
      BY <3>4 DEF ProcRec
    <3>8. [proc[p] EXCEPT !.pc = "current", !.left = @ - 1].pc = "current"
      BY <3>4 DEF ProcRec
    <3> QED
      BY <1>3, <3>1, <3>2, <3>3, <3>5, <3>6, <3>7, <3>8 DEF SyncPcs, Health!SyncStep,
         Health!FindRow, Health!ListEvents, Health!ReadCurrent, Health!Commit,
         Health!CommitLost, Health!Abandon
  <2>3. p # Watchdog => proc'[Watchdog] = proc[Watchdog]
    BY <1>0, <2>2 DEF Health!Goes, HealthTypes
  <2>4. p = Watchdog => proc'[Watchdog].pc # "write"
    BY <1>0, <2>2 DEF Health!Goes, HealthTypes
  <2> QED
    BY <1>1, <1>2, <2>1, <2>3, <2>4
<1>4. CASE Health!BeginPass
  <2>1. [Health!Idle EXCEPT !.pc = "check", !.check = 1].pc = "check"
    BY DEF Health!Idle
  <2>2. proc'[Watchdog].pc = "check"
    BY <1>0, <1>4, <2>1 DEF Health!BeginPass, Health!Goes, HealthTypes
  <2> QED
    BY <1>2, <1>4, <2>2 DEF Health!BeginPass
<1>5. CASE Health!Check
  <2>1. UNCHANGED <<events, revived>>
    BY <1>5 DEF Health!Check
  <2>2. CASE Health!Done(Watchdog)
    <3>1. proc'[Watchdog].pc # "write"
      BY <1>0, <2>2, HealthDone, HealthGoes
    <3> QED
      BY <1>2, <2>1, <3>1
  <2>3. CASE ~Health!Done(Watchdog)
    <3> DEFINE existing == Health!ActiveOf(Health!Kind)
               to(bad) == [proc[Watchdog] EXCEPT
                             !.pc = "write", !.event = existing,
                             !.seen = IF existing = 0 THEN "none" ELSE events[existing].status,
                             !.action = IF ~bad THEN "resolve" ELSE "alert"]
    <3>1. PICK bad \in BOOLEAN : Health!Goes(Watchdog, to(bad))
      BY <1>5, <2>3 DEF Health!Check
    <3>2. proc'[Watchdog].event = existing /\ proc'[Watchdog].check = proc[Watchdog].check
      BY <1>0, <3>1 DEF HealthTypes, ProcRec, Health!Goes
    <3>3. existing = 0 => \A e \in Events : Unresolved(e) => events[e].kind # Health!Kind
      BY HealthActiveOf
    <3> HIDE DEF existing
    <3> QED
      BY <2>1, <3>2, <3>3 DEF Opening, OneActive, Health!Kind
  <2> QED
    BY <2>2, <2>3
<1>6. CASE Health!WriteCheck
  <2> DEFINE me == proc[Watchdog]
             status == IF me.action = "resolve" THEN "resolved" ELSE me.seen
  <2>1. proc'[Watchdog].pc = "find"
    BY <1>0, <1>6 DEF Health!WriteCheck, Health!ThenSync, Health!Goes, HealthTypes, ProcRec
  <2>2. Opening'
    BY <2>1 DEF Opening
  <2>3. CASE me.event = 0
    <3>1. me.pc = "write" /\ Health!Opens(Health!Kind) /\ revived' = revived
      BY <1>6, <2>3 DEF Health!WriteCheck
    <3>2. Health!Kind # Reported =>
            \A e \in Events : Unresolved(e) /\ events[e].kind = Health!Kind => e \in revived
      BY <2>3, <3>1 DEF Opening
    <3>3. OneActive'
      BY <3>1, <3>2, HealthOpened
    <3> QED
      BY <2>2, <3>3
  <2>4. CASE me.event # 0
    <3>1. me.event \in Events
      BY <1>0, <1>6, <2>4 DEF Health!WriteCheck, HealthTypes, Fits
    <3>2. Rewritten(me.event, status)
      BY <1>6, <2>4, <3>1 DEF Health!WriteCheck, Rewritten
    <3> QED
      BY <2>2, <3>2, HealthRewrittenOne
  <2> QED
    BY <2>2, <2>3, <2>4
<1>7. ASSUME NEW q \in Request, Health!FindEvent(q) \/ Health!ReadRow(q) \/ Health!WriteRow(q)
      PROVE  Opening' /\ OneActive'
  <2>1. proc'[Watchdog] = proc[Watchdog] /\ UNCHANGED <<events, revived>>
    BY <1>0, <1>7 DEF Health!FindEvent, Health!ReadRow, Health!WriteRow, Health!Goes, HealthTypes
  <2> QED
    BY <1>1, <2>1
<1>8. ASSUME NEW q \in Request, Health!Report(q) PROVE Opening' /\ OneActive'
  <2>1. proc'[Watchdog] = proc[Watchdog] /\ revived' = revived /\ Health!Opens(Reported)
    BY <1>0, <1>8 DEF Health!Report, Health!ThenSync, Health!Goes, HealthTypes
  <2>2. OneActive'
    BY <2>1, HealthOpened
  <2>3. /\ (DOMAIN events)' = 1..Len(events) + 1
        /\ \A e \in Events : events'[e] = events[e]
        /\ events'[Len(events) + 1].kind = Reported
    BY <1>0, <2>1 DEF Health!Opens, HealthTypes
  <2>4. Opening'
    BY <1>0, <2>1, <2>3, HealthOpeningStays
  <2> QED
    BY <2>2, <2>4
<1>9. ASSUME NEW q \in Request, Health!WriteLifecycle(q) PROVE Opening' /\ OneActive'
  <2> DEFINE e == proc[q].event
             status == Health!Lifecycle(proc[q].action, proc[q].seen)
  <2>1. proc'[Watchdog] = proc[Watchdog]
    BY <1>0, <1>9 DEF Health!WriteLifecycle, Health!ThenSync, Health!Goes, HealthTypes
  <2>2. e \in Events
    BY <1>0, <1>9 DEF Health!WriteLifecycle, HealthTypes, Fits
  <2>3. Rewritten(e, status)
    BY <1>9, <2>2 DEF Health!WriteLifecycle, Rewritten
  <2> HIDE DEF status, e
  <2>4. Opening'
    BY <2>1, <2>3, HealthRewritten, HealthOpeningStays
  <2> QED
    BY <2>3, <2>4, HealthRewrittenOne
<1> QED
  BY <1>3, <1>4, <1>5, <1>6, <1>7, <1>8, <1>9 DEF Health!Next

\* Every step keeps the invariant.
LEMMA HealthKept ==
  ASSUME HealthInv, Health!HealthEventsAssumption, [Health!Next]_Health!vars
  PROVE  HealthInv'
<1>1. HealthTypes'
  BY HealthTypesKept DEF HealthInv
<1>2. CASE UNCHANGED Health!vars
  <2>1. /\ Badge' = Badge
        /\ \A p \in Health!Procs : Derives(p)' <=> Derives(p)
        /\ \A p \in Health!Procs : Health!Syncing(p)' <=> Health!Syncing(p)
    BY <1>2 DEF Health!vars, Badge, Derives, Health!Syncing
  <2>2. Alone'
    BY <1>2, <2>1 DEF HealthInv, Alone, Health!vars
  <2>3. Opening' /\ OneActive'
    BY <1>2 DEF HealthInv, Opening, OneActive, Health!Kind, Health!vars
  <2> QED
    BY <1>1, <2>2, <2>3 DEF HealthInv
<1>3. CASE Health!Next
  <2>1. Alone'
    BY <1>3, HealthSyncAlone, HealthOthersAlone DEF HealthInv, Health!Next
  <2>2. Opening' /\ OneActive'
    BY <1>3, HealthOneKept DEF HealthInv
  <2> QED
    BY <1>1, <2>1, <2>2 DEF HealthInv
<1> QED
  BY <1>2, <1>3

\* Concurrent passes, requests and derivations leave the badge as the events have
\* it, and one event for what the watchdog finds.
THEOREM HealthAgreed ==
  ASSUME Health!HealthEventsAssumption
  PROVE  Health!Spec => []HealthAgrees
<1>1. Health!Init => HealthInv
  BY HealthInit
<1>2. HealthInv /\ [Health!Next]_Health!vars => HealthInv'
  BY HealthKept
<1>3. HealthInv => HealthAgrees
  <2> SUFFICES ASSUME HealthInv PROVE HealthAgrees
    OBVIOUS
  <2>1. BadgeAgrees
    <3>1. DOMAIN proc = Health!Procs
      BY DEF HealthInv, HealthTypes
    <3> QED
      BY <3>1 DEF HealthInv, Alone, BadgeAgrees, Health!Syncing
  <2> QED
    BY <2>1 DEF HealthInv, HealthAgrees
<1> QED
  BY <1>1, <1>2, <1>3, PTL DEF Health!Spec
=============================================================================
