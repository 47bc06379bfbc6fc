------------------------------- MODULE Cron --------------------------------
(***************************************************************************)
(* lib/apscheduler/triggers/cron: the search for the next time that fits   *)
(* the expressions of a cron trigger.  It goes through the fields from the *)
(* year to the second, raises a field to its next value or steps back to   *)
(* raise a greater one, and one pass of its loop is one step here.         *)
(*                                                                         *)
(* The calendar is a parameter: the same rules with shorter months, weeks  *)
(* and hours.  It begins on the first day of a week.                       *)
(***************************************************************************)
EXTENDS Integers, FiniteSets, FiniteSetsExt, Functions

CONSTANTS
  Years,        \* 0..Years-1 are the years datetime has
  MaxYear,      \* greatest year an expression may name
  Months,       \* months in a year, from 1
  MonthDays,    \* MonthDays[y][m]: days of a month, from 1
  WeekDays,     \* days in a week, from 0
  MaxWeek,      \* greatest week number of a year
  ClockMax,     \* ClockMax[f]: greatest hour, minute and second
  Offered,      \* Offered[f]: the sets of expressions a field may be given
  MaxGiven,     \* bound: fields that are given expressions
  AskDates,     \* the dates asked about
  StartDates    \* the start dates a trigger may have, or NoDate

ASSUME CronAssumption ==
  /\ Years \in Nat \ {0} /\ Months \in Nat \ {0} /\ WeekDays \in Nat \ {0}
  /\ MonthDays \in [0..Years - 1 -> [1..Months -> Nat \ {0}]]
  /\ MaxYear \in Nat /\ MaxYear >= Years /\ MaxWeek \in Nat

VARIABLES
  exprs,       \* exprs[f]: the expressions of a field
  asked,       \* the argument of get_next_fire_time: [date, micro]
  start_date,  \* the trigger's, or Nothing
  next_date, fieldnum,
  cronPc       \* "ask", "search", "found", "none", "raised"

cronVars == <<exprs, asked, start_date, next_date, fieldnum, cronPc>>

Nothing == -1
NoDate == [date |-> <<>>, micro |-> FALSE]
Fields == 1..8      \* FIELD_NAMES; week and day of week cannot be set
year == 1
month == 2
day == 3
week == 4
day_of_week == 5
hour == 6
minute == 7
second == 8
Real == Fields \ {week, day_of_week}
MinOf(f) == IF f \in {month, day, week} THEN 1 ELSE 0

----------------------------------------------------------------------------
\* The calendar (datetime, calendar.monthrange, isocalendar).
MonthsBefore(y, m) == {p \in (0..y) \X (1..Months) : p[1] < y \/ p[2] < m}
DaysBefore(y, m) == SumFunction([p \in MonthsBefore(y, m) |-> MonthDays[p[1]][p[2]]])
DayNumber(d) == d[day] - 1 + DaysBefore(d[year], d[month])
Weekday(n) == n % WeekDays
FirstOfYear(y) == DaysBefore(y, 1)
\* A week belongs to the year that its middle day is in.
WeekOf(n) ==
  LET middle == n - Weekday(n) + WeekDays \div 2
      y == Max({z \in 0..Years : FirstOfYear(z) <= middle})
  IN 1 + (middle - FirstOfYear(y)) \div WeekDays

Date(y, m, d, h, mi, s) == [f \in Real |-> CASE f = year -> y [] f = month -> m [] f = day -> d
                                         [] f = hour -> h [] f = minute -> mi [] f = second -> s]
ClockTimes == (0..ClockMax[hour]) \X (0..ClockMax[minute]) \X (0..ClockMax[second])
Dates == UNION {{Date(p[1], p[2], q[1], q[2][1], q[2][2], q[2][3]) :
                   q \in (1..MonthDays[p[1]][p[2]]) \X ClockTimes} :
                p \in (0..Years - 1) \X (1..Months)}

Before(a, b) == \E i \in DOMAIN a : a[i] < b[i] /\ \A k \in DOMAIN a : k < i => a[k] = b[k]
Order(d) == <<d[1], d[2], d[3], d[6], d[7], d[8]>>
\* get_value of the three kinds of fields
Value(d, f) == CASE f = week -> WeekOf(DayNumber(d))
                 [] f = day_of_week -> Weekday(DayNumber(d))
                 [] OTHER -> d[f]
\* get_max; the year's is none that a date could reach
MaxOf(d, f) == CASE f = year -> MaxYear
                 [] f = month -> Months
                 [] f = day -> MonthDays[d[year]][d[month]]
                 [] f = week -> MaxWeek
                 [] f = day_of_week -> WeekDays - 1
                 [] OTHER -> ClockMax[f]

----------------------------------------------------------------------------
\* The expressions: "*" and "*/step", "first-last/step" (also of weekday names), the
\* n-th or last of a weekday in the month, and the month's last day.
StarStep(step) == [kind |-> "all", first |-> 0, last |-> Nothing, step |-> step]
Span(first, last, step) ==
  [kind |-> "range", first |-> first, step |-> step,
   last |-> IF last = Nothing /\ step = 0 THEN first ELSE last]
Position(n, weekday) == [kind |-> "position", option |-> n, weekday |-> weekday]
LastDay == [kind |-> "last"]
LastOption == 5

\* What compile_expression accepts for a field; a step of 0 stands for none.
WellFormed(e, f) ==
  \/ e.kind = "all" /\ e.step \in Nat
  \/ /\ e.kind = "range" /\ e.first \in Nat /\ e.step \in Nat
     /\ e.last \in Nat \union {Nothing}
  \/ f = day /\ e.kind = "last"
  \/ /\ f = day /\ e.kind = "position"
     /\ e.option \in 0..LastOption /\ e.weekday \in 0..WeekDays - 1

ASSUME OfferedAssumption ==
  /\ ClockMax \in [{hour, minute, second} -> Nat]
  /\ \A d \in Dates : WeekOf(DayNumber(d)) <= MaxWeek
  /\ \A f \in Fields : \A E \in Offered[f] : \A e \in E : WellFormed(e, f)
  /\ AskDates \subseteq Dates
  /\ \A s \in StartDates : s = NoDate \/ (s.date \in Dates /\ s.micro \in BOOLEAN)

\* The first value of first, first + step, ... not below what the field has now.
Stepping(e, start, minval, maxval) ==
  LET from == Max({start, minval})
      next == IF e.step = 0 THEN from ELSE from + ((e.step - (from - minval)) % e.step)
  IN IF next <= maxval THEN next ELSE Nothing

\* Mutant: steps are counted from the field's minimum, not from the range's.
StepsFromMin(e, d, f) ==
  LET maxval == IF e.last = Nothing THEN MaxOf(d, f) ELSE Min({MaxOf(d, f), e.last})
  IN Stepping(e, Max({Value(d, f), e.first}), MinOf(f), maxval)

NextOfSpan(e, d, f) ==
  Stepping(e, Value(d, f), Max({MinOf(f), e.first}),
           IF e.last = Nothing THEN MaxOf(d, f) ELSE Min({MaxOf(d, f), e.last}))

NextOfPosition(e, d) ==
  LET last_day == MonthDays[d[year]][d[month]]
      ahead == e.weekday - Weekday(DayNumber([d EXCEPT ![day] = 1])) + 1
      first_hit == IF ahead <= 0 THEN ahead + WeekDays ELSE ahead
      target == IF e.option < LastOption THEN first_hit + e.option * WeekDays
                ELSE first_hit + ((last_day - first_hit) \div WeekDays) * WeekDays
  IN IF target <= last_day /\ target >= d[day] THEN target ELSE Nothing

NextOfExpr(e, d, f) ==
  CASE e.kind = "last" -> MonthDays[d[year]][d[month]]
    [] e.kind = "position" -> NextOfPosition(e, d)
    [] e.kind = "range" -> NextOfSpan(e, d, f)
    [] e.kind = "all" -> Stepping(e, Value(d, f), MinOf(f), MaxOf(d, f))

\* BaseField.get_next_value: the smallest that an expression offers.
NextValue(d, f) ==
  LET offers == {NextOfExpr(e, d, f) : e \in exprs[f]} \ {Nothing}
  IN IF offers = {} THEN Nothing ELSE Min(offers)

----------------------------------------------------------------------------
\* CronTrigger.__init__: fields before the last one given default to "*", those after
\* it to their least value.
DefaultOf(f, given) ==
  IF given = {} \/ f < Max(given) \/ f \in {week, day_of_week, year} THEN {StarStep(0)}
  ELSE {Span(MinOf(f), Nothing, 0)}

CronInit ==
  /\ \E given \in {g \in SUBSET Fields : Cardinality(g) <= MaxGiven} :
       \E pick \in [given -> UNION {Offered[f] : f \in given}] :
         /\ \A f \in given : pick[f] \in Offered[f]
         /\ exprs = [f \in Fields |-> IF f \in given THEN pick[f] ELSE DefaultOf(f, given)]
  /\ asked \in [date : AskDates, micro : BOOLEAN]
  /\ start_date \in StartDates
  /\ next_date = asked.date /\ fieldnum = year /\ cronPc = "ask"

\* The given field is raised by one, or the nearest greater one that is not at its
\* maximum; all smaller ones begin again.
CanRise(d, f) == {g \in Real : g <= f /\ d[g] # MaxOf(d, g)}
Raised(d, f) == IF CanRise(d, f) = {} THEN 0 ELSE Max(CanRise(d, f))
BelowReset(d, f, v) ==
  [g \in Real |-> IF g < f THEN d[g] ELSE IF g = f THEN v ELSE MinOf(g)]

\* _increment_field_value; datetime() raises when the year is beyond its last.
Increment(d, f, anew) ==
  LET r == Raised(d, f) IN
  IF r = year /\ d[year] = Years - 1
  THEN cronPc' = "raised" /\ UNCHANGED <<next_date, fieldnum>>
  ELSE /\ next_date' = IF r = 0 THEN [g \in Real |-> MinOf(g)]
                       ELSE BelowReset(d, r, d[r] + 1)
       /\ fieldnum' = IF anew THEN year ELSE r
       /\ cronPc' = IF r = 0 /\ ~anew THEN "none" ELSE "search"

\* A date and whether it has microseconds, the later of the two.
Later ==
  IF start_date = NoDate THEN asked
  ELSE IF \/ Before([i \in 1..6 |-> asked.date[IF i < 4 THEN i ELSE i + 2]],
                    [i \in 1..6 |-> start_date.date[IF i < 4 THEN i ELSE i + 2]])
          \/ asked.date = start_date.date /\ start_date.micro
       THEN start_date ELSE asked

\* get_next_fire_time begins: the later date, rounded up to a second.
Ask ==
  /\ cronPc = "ask"
  /\ IF Later.micro THEN Increment(Later.date, 8, TRUE)
     ELSE next_date' = Later.date /\ cronPc' = "search" /\ UNCHANGED fieldnum
  /\ UNCHANGED <<exprs, asked, start_date>>

\* One pass of its loop; here too datetime() raises beyond the last year.
Search ==
  /\ cronPc = "search" /\ fieldnum \in Fields
  /\ LET curr == Value(next_date, fieldnum)
         next == NextValue(next_date, fieldnum)
     IN IF next = Nothing THEN Increment(next_date, fieldnum - 1, FALSE)
        ELSE IF next > curr /\ fieldnum \notin Real THEN Increment(next_date, fieldnum, FALSE)
        ELSE IF fieldnum = year /\ next >= Years
        THEN cronPc' = "raised" /\ UNCHANGED <<next_date, fieldnum>>
        ELSE /\ next_date' = IF next > curr THEN BelowReset(next_date, fieldnum, next)
                             ELSE next_date
             /\ fieldnum' = fieldnum + 1 /\ UNCHANGED cronPc
  /\ UNCHANGED <<exprs, asked, start_date>>

Found ==
  /\ cronPc = "search" /\ fieldnum \notin Fields /\ cronPc' = "found"
  /\ UNCHANGED <<exprs, asked, start_date, next_date, fieldnum>>

CronNext == Ask \/ Search \/ Found

CronSpec == CronInit /\ [][CronNext]_cronVars

----------------------------------------------------------------------------
\* What an expression means, said without a search.
Fits(e, d, f) ==
  CASE e.kind = "all" -> e.step = 0 \/ (Value(d, f) - MinOf(f)) % e.step = 0
    [] e.kind = "range" ->
         LET first == Max({e.first, MinOf(f)}) IN
         /\ Value(d, f) >= first /\ (e.last # Nothing => Value(d, f) <= e.last)
         /\ e.step # 0 => (Value(d, f) - first) % e.step = 0
    [] e.kind = "last" -> d[day] = MonthDays[d[year]][d[month]]
    [] e.kind = "position" ->
         LET same == {n \in 1..MonthDays[d[year]][d[month]] :
                        Weekday(DayNumber([d EXCEPT ![day] = n])) = e.weekday}
         IN /\ d[day] \in same
            /\ IF e.option = LastOption THEN d[day] = Max(same)
               ELSE Cardinality({n \in same : n < d[day]}) = e.option

Matches(d) == \A f \in Fields : \E e \in exprs[f] : Fits(e, d, f)

Reached(d) ==   \* not before the date asked for nor the start date
  \A from \in {asked, start_date} \ {NoDate} :
    Before(Order(from.date), Order(d)) \/ (d = from.date /\ ~from.micro)

\* get_next_fire_time returns the earliest time that fits all fields and is not before
\* its argument and the start date; it returns none, or raises, only if there is none.
EarliestMatch ==
  /\ cronPc = "found" =>
       /\ Matches(next_date) /\ Reached(next_date)
       /\ \A d \in Dates : Before(Order(d), Order(next_date)) /\ Reached(d) => ~Matches(d)
  /\ cronPc \in {"none", "raised"} => ~\E d \in Dates : Reached(d) /\ Matches(d)
=============================================================================
