------------------------------- MODULE Interest -------------------------------
(***************************************************************************)
(* The interest functions of src/utils/money-math.util.ts and the calendar *)
(* they read.  A moment is a record of local time: a year, a day of that   *)
(* year counted from zero, and a tick of that day; the code has            *)
(* milliseconds.  Local time is at a fixed distance from universal time.   *)
(* A rate is a whole number of hundredths.                                 *)
(***************************************************************************)
EXTENDS MoneyMath

CONSTANT TicksPerDay

ASSUME TicksAssumption == TicksPerDay \in Nat \ {0}

RateUnit == 100

------------------------------------------------------------------------------
(* The calendar.                                                           *)

\* A faulty variant: the Julian calendar.
IsLeapYearJulian(year) == year % 4 = 0

IsLeapYear(year) == (year % 4 = 0 /\ year % 100 # 0) \/ year % 400 = 0

YearLength(year) == IF IsLeapYear(year) THEN 366 ELSE 365

\* Days before the first of January.
YearStart(year) ==
  365 * year + (year - 1) \div 4 - (year - 1) \div 100 + (year - 1) \div 400

\* What Date holds: a first year of 100, as new Date maps 0 to 99 to 1900.
Moments ==
  {m \in [year : Nat, day : 0 .. 365, tick : 0 .. TicksPerDay - 1] :
     m.year >= 100 /\ m.day < YearLength(m.year)}

DayNumber(m) == YearStart(m.year) + m.day

\* getTime
Instant(m) == DayNumber(m) * TicksPerDay + m.tick

\* new Date(year, 1, 29)
Feb29(year) == [year |-> year, day |-> 59, tick |-> 0]

------------------------------------------------------------------------------

\* A faulty variant: both ends excluded.
HasLeapYearInside(start, end) ==
  \E year \in start.year .. end.year :
    /\ IsLeapYear(year)
    /\ Instant(start) < Instant(Feb29(year))
    /\ Instant(Feb29(year)) < Instant(end)

HasLeapYearBetween(start, end) ==
  \E year \in start.year .. end.year :
    /\ IsLeapYear(year)
    /\ Instant(start) <= Instant(Feb29(year))
    /\ Instant(Feb29(year)) <= Instant(end)

\* Whole days between two moments, in either order.
GetDaysBetween(start, end) ==
  LET diff == Instant(end) - Instant(start)
  IN  (IF diff < 0 THEN -diff ELSE diff) \div TicksPerDay

\* n / d to the nearest cent, a half cent up, for n >= 0.
RoundQuotient(n, d) == Cent * ((2 * n + Cent * d) \div (2 * Cent * d))

HalfCent(n, d) == (2 * n) % (2 * Cent * d) = Cent * d

\* days / diy is a finite decimal, for 365 and 366: twenty digits hold it.
Finite(days, diy) == (10 * days) % diy = 0

\* p.times(r).times(days / diy).toFixed(2), as the set of its outcomes: where
\* the quotient was cut off at twenty digits, half a cent may go either way.
Earned(principal, rate, days, diy) ==
  LET n == principal * rate * days
      d == RateUnit * diy
  IN  {RoundQuotient(n, d)} \cup
        (IF HalfCent(n, d) /\ ~Finite(days, diy) THEN {RoundQuotient(n, d) - Cent}
                                                 ELSE {})

Multiply(amount, rate) == RoundQuotient(amount * rate, RateUnit)

CalculateDailyInterest(principal, rate, days) ==
  Earned(principal, rate, days, 365)

\* A faulty variant: every year has 365 days.
CalculateInterestDaily(principal, rate, start, end) ==
  CalculateDailyInterest(principal, rate, GetDaysBetween(start, end))

CalculateInterestWithLeapYear(principal, rate, start, end) ==
  Earned(principal, rate, GetDaysBetween(start, end),
         IF HasLeapYearBetween(start, end) THEN 366 ELSE 365)
=============================================================================
