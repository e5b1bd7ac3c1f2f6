------------------------------ MODULE Consistency ------------------------------
(***************************************************************************)
(* The flame of one habit (backend/internal/habits/consistency.go): the    *)
(* weighted consistency over a rolling window of days, by days or by weeks *)
(* as the habit's frequency has it, its flame level, and what the stats    *)
(* and the challenges ask of both, over the completions the habit can      *)
(* have: logged in the window, changed or deleted later, seen by a viewer  *)
(* whose date may be a day behind.                                         *)
(*                                                                         *)
(* Dates are numbers, day 0 a Monday; weights are counted in halves and    *)
(* percentages in tenths.                                                  *)
(***************************************************************************)
EXTENDS Integers, FiniteSets, FiniteSetsExt

CONSTANTS
  WindowDays,  \* 60
  Week,        \* days of a week, 7
  CustomDays,  \* the choices of weekdays for a custom habit, the first being Sunday, 0
  LastDay      \* bound on the dates

VARIABLES
  freq, customDays,  \* of the habit, which may change
  created,           \* its creation date
  completions,       \* per date the kind that is logged, or "none"
  today              \* the viewer's local date

vars == <<freq, customDays, created, completions, today>>

Days  == 0 .. LastDay
Kinds == {"minimum", "full"}
WindowStart(t) == t - (WindowDays - 1)

-----------------------------------------------------------------------------
(* The calculator, for completions c.                                      *)

Logged(c) == {d \in Days : c[d] # "none"}

\* GetWeight, in halves.
Weight(kind) == CASE kind = "full" -> 2 [] kind = "minimum" -> 1 [] OTHER -> 0

\* What is logged on a date that may lie outside the bounds.
Kind(c, d) == IF d \in Days THEN c[d] ELSE "none"

\* round1(sum / n * 100), half away from zero, in tenths; sum is in halves.
Round1(sum, n) == (1000 * sum + n) \div (2 * n)

Weekday(d) == (d + 1) % Week

IsApplicableDay(d) == freq = "daily" \/ (freq = "custom" /\ Weekday(d) \in customDays)

IsoWeekStart(d) == d - ((Weekday(d) + Week - 1) % Week)

\* The mean of the weights of the days or weeks that count, 0 if none does.
Share(weights) ==
  LET n == Cardinality(DOMAIN weights)
  IN IF n = 0 THEN 0 ELSE Round1(SumFunction(weights), n)

CalcDailyOrCustom(c, start, end) ==
  Share([d \in {d \in start .. end : IsApplicableDay(d)} |-> Weight(Kind(c, d))])

MaxOf(a, b) == IF a > b THEN a ELSE b
MinOf(a, b) == IF a < b THEN a ELSE b

\* Faulty variant: a week starts on the day the score does.
FirstWeek_Start(start) == start

FirstWeek(start) == IsoWeekStart(start)

\* The days of the week from a Monday on that are between start and end.
Overlap(monday, start, end) == MaxOf(monday, start) .. MinOf(monday + (Week - 1), end)

\* Week by week from the Monday before the start; each counts with its best kind.
CalcWeekly(c, start, end) ==
  LET mondays == {d \in FirstWeek(start) .. end :
                    (d - FirstWeek(start)) % Week = 0 /\ Overlap(d, start, end) # {}}
  IN Share([m \in mondays |->
              Max({0} \cup {Weight(Kind(c, d)) : d \in Overlap(m, start, end)})])

Calc(c, start, end) ==
  IF start > end THEN 0
  ELSE IF freq = "weekly" THEN CalcWeekly(c, start, end) ELSE CalcDailyOrCustom(c, start, end)

\* Faulty variant: any completion moves the start, be it outside the window.
Earliest_Ever(c, t) == Min({created} \cup Logged(c))

\* Backfilled completions count: the score starts at the first of the window.
Earliest(c, t) == Min({created} \cup {d \in Logged(c) : d \in WindowStart(t) .. t})

EffectiveStart(c, t) == MaxOf(WindowStart(t), Earliest(c, t))

Calculate(c, t) == Calc(c, EffectiveStart(c, t), t)

\* CalculateForDateRange, for the milestones of challenges: never before the creation.
CalculateForDateRange(c, start, end) ==
  IF start > end THEN 0 ELSE Calc(c, MaxOf(start, created), end)

-----------------------------------------------------------------------------
(* The flame.                                                              *)

None    == 0
Ember   == 1
Steady  == 2
Strong  == 3
Blazing == 4

\* Every caller passes a previous level of nil: the flame is the one of the rising thresholds,
\* and the falling ones, for a level that fell, are dormant (consistency.go:350-354).
GetFlameLevel(c) ==
  IF c >= 800 THEN Blazing
  ELSE IF c >= 550 THEN Strong
  ELSE IF c >= 300 THEN Steady
  ELSE IF c >= 100 THEN Ember
  ELSE None

\* buildHabitStats: consistency, level, completions in the window, what is done today, all
\* completions, and the calendar, which goes back further than the window.
Stats(c, t) ==
  LET score == Calculate(c, t)
  IN [consistency |-> score,
      flame       |-> GetFlameLevel(score),
      inWindow    |-> Cardinality({d \in Logged(c) : d \in WindowStart(t) .. t}),
      todayKind   |-> Kind(c, t),
      total       |-> Cardinality(Logged(c)),
      dates       |-> {d \in Logged(c) : d <= t}]

-----------------------------------------------------------------------------

\* CompleteHabit: today or earlier in the window, one completion per date.
CompleteHabit(d, kind) ==
  /\ d \in Days \cap (WindowStart(today) .. today) /\ completions[d] = "none"
  /\ completions' = [completions EXCEPT ![d] = kind]
  /\ UNCHANGED <<freq, customDays, created, today>>

\* UpdateCompletion and DeleteCompletion take any date.
ChangeCompletion(d, kind) ==
  /\ completions[d] \notin {"none", kind}
  /\ completions' = [completions EXCEPT ![d] = kind]
  /\ UNCHANGED <<freq, customDays, created, today>>

\* UpdateHabit: another frequency, or other days.
UpdateHabit ==
  /\ \/ freq' \in {"daily", "weekly"} /\ customDays' = {}
     \/ freq' = "custom" /\ customDays' \in CustomDays
  /\ UNCHANGED <<created, completions, today>>

NextDay ==
  /\ today < LastDay /\ today' = today + 1
  /\ UNCHANGED <<freq, customDays, created, completions>>

\* Somebody looks whose date is still the day before.
LookFromBehind ==
  /\ today > created /\ today' = today - 1
  /\ UNCHANGED <<freq, customDays, created, completions>>

Init ==
  /\ \/ freq \in {"daily", "weekly"} /\ customDays = {}
     \/ freq = "custom" /\ customDays \in CustomDays
  /\ created \in Days /\ today = created
  /\ completions = [d \in Days |-> "none"]

Next ==
  \/ \E d \in Days, kind \in Kinds : CompleteHabit(d, kind)
  \/ \E d \in Days, kind \in Kinds \cup {"none"} : ChangeCompletion(d, kind)
  \/ UpdateHabit \/ NextDay \/ LookFromBehind

Spec == Init /\ [][Next]_vars

-----------------------------------------------------------------------------
(* Properties.                                                             *)

TypeOK ==
  /\ freq \in {"daily", "weekly", "custom"} /\ customDays \in CustomDays \cup {{}}
  /\ created \in Days /\ today \in Days
  /\ completions \in [Days -> Kinds \cup {"none"}]

\* What the score counts: the days that apply, or the weeks, between the start and today.
Units ==
  LET days == {d \in EffectiveStart(completions, today) .. today :
                 freq = "weekly" \/ IsApplicableDay(d)}
  IN IF freq = "weekly" THEN {{d \in days : d \div Week = w} : w \in {d \div Week : d \in days}}
     ELSE {{d} : d \in days}

Best(unit) == Max({Weight(completions[d]) : d \in unit})
Sum(units) == SumFunction([unit \in units |-> Best(unit)])

\* The score is the share of the units that were kept, counted without the walk over weeks
\* (consistency.go:259), to half a tenth; all of it only when every unit was kept in full, and
\* none of it only when nothing that counts was logged.
ScoreCounts ==
  LET score == Calculate(completions, today)
      units == Units
      n == Cardinality(units)
  IN /\ n = 0 => score = 0
     /\ n > 0 => /\ 2 * n * score - 1000 * Sum(units) \in -n .. n
                 /\ (score = 1000 <=> \A unit \in units : Best(unit) = 2)
                 /\ (score = 0 <=> \A unit \in units : Best(unit) = 0)

\* To log a date that the score covers, or to make more of one, lowers neither the score nor the
\* flame.  A date of the window before the start is not such a date: it moves the start, and
\* the days up to the old start, which count from then on, may lower both.
LoggingHelps ==
  LET score == Calculate(completions, today)
  IN \A d \in EffectiveStart(completions, today) .. today, kind \in Kinds :
       Weight(kind) > Weight(completions[d]) =>
         LET more == Calculate([completions EXCEPT ![d] = kind], today)
         IN more >= score /\ GetFlameLevel(more) >= GetFlameLevel(score)

\* What is logged after the viewer's today, or was before the window, changes nothing but the
\* calendar and the total (service.go:710-730, consistency_test.go:952).
OnlyWindowCounts ==
  LET seen == [d \in Days |-> IF d \in WindowStart(today) .. today THEN completions[d] ELSE "none"]
      Clipped(c) == [Stats(c, today) EXCEPT !.dates = {}, !.total = 0]
  IN Clipped(completions) = Clipped(seen)

\* A challenge's range that is the window gives the score, unless a backfilled date moved its start.
RangeAgrees ==
  created <= Earliest(completions, today) =>
    CalculateForDateRange(completions, WindowStart(today), today) = Calculate(completions, today)
===============================================================================
