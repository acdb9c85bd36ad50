--------------------------- MODULE MoneyMathProofs ---------------------------
(***************************************************************************)
(* The arithmetic of a posting, for balances and amounts of any size.      *)
(***************************************************************************)
EXTENDS MCMoneyMath, TLAPS

\* Nothing changes: what is proved of every balance of whole cents, every amount
\* and every two moments holds of every behaviour.
Typed ==
  /\ before \in Nat /\ WholeCents(before)
  /\ amount \in Int
  /\ start \in Moments /\ end \in Moments

LEMMA SomeMomentsAreMoments == SomeMoments \subseteq Moments
  BY BoundAssumption DEF SomeMoments, Moments

LEMMA AlwaysTyped == Spec => []Typed
<1>1. Init => Typed
  <2>1. NewYear \in Moments
    BY TicksAssumption DEF NewYear, Moments, YearLength, IsLeapYear
  <2>2. CASE Posting
    BY <2>1, <2>2, BoundAssumption DEF Posting, Typed, Balances
  <2>3. CASE Period
    BY <2>3, SomeMomentsAreMoments, BoundAssumption DEF Period, Typed
  <2> QED
    BY <2>2, <2>3 DEF Init
<1>2. Typed /\ [Next]_vars => Typed'
  BY DEF Typed, Next, vars, WholeCents
<1> QED
  BY <1>1, <1>2, PTL DEF Spec

\* A sum with a balance of whole cents rounds like the amount.
LEMMA RoundingShifts ==
  ASSUME NEW b \in Nat, NEW x \in Nat, WholeCents(b)
  PROVE  RoundHalfUp(b + x) = b + RoundHalfUp(x)
  BY DEF RoundHalfUp, WholeCents, Cent

\* A difference rounds to what the amount leaves, a half cent in favour of
\* the balance.
LEMMA RoundingDifference ==
  ASSUME NEW b \in Nat, NEW x \in Nat, WholeCents(b), x <= b
  PROVE  b - RoundHalfUp(b - x) =
           RoundHalfUp(x) - (IF x % 10 = 5 THEN 10 ELSE 0)
  BY DEF RoundHalfUp, WholeCents, Cent

\* A credit row says what the balance gained, whatever fraction of a cent the
\* client sent.
THEOREM CreditsAreExact == Spec => []CreditRowsAreExact
<1>1. Typed => CreditRowsAreExact
  BY RoundingShifts DEF Typed, CreditRowsAreExact, Add, Format, RoundHalfUp, Cent
<1> QED
  BY <1>1, AlwaysTyped, PTL

\* A debit row says what the balance lost, except that at half a cent it says
\* a cent more.
THEOREM DebitsAreExactButForHalves == Spec => []DebitRowsAreExactButForHalves
<1>1. Typed => DebitRowsAreExactButForHalves
  <2> SUFFICES ASSUME Typed, amount > 0, ~LessThan(before, amount)
               PROVE  before - Subtract(before, amount) =
                        Format(amount)
                          - (IF amount % Cent = Cent \div 2 THEN Cent ELSE 0)
    BY DEF DebitRowsAreExactButForHalves
  <2>1. amount \in Nat /\ before \in Nat /\ amount <= before /\ WholeCents(before)
    BY DEF Typed, LessThan, Compare
  <2> QED
    BY <2>1, RoundingDifference DEF Subtract, Format, Cent
<1> QED
  BY <1>1, AlwaysTyped, PTL

\* A debit that passes the check of funds leaves a balance between zero and
\* the one before it.
THEOREM FundsCheckIsEnough == Spec => []FundsCheckSuffices
<1>1. Typed => FundsCheckSuffices
  <2> SUFFICES ASSUME Typed, amount > 0, ~LessThan(before, amount)
               PROVE  Subtract(before, amount) \in 0 .. before
    BY DEF FundsCheckSuffices
  <2>1. amount \in Nat /\ before \in Nat /\ amount <= before
    BY DEF Typed, LessThan, Compare
  <2> QED
    BY <2>1 DEF Subtract, RoundHalfUp, WholeCents, Cent, Typed
<1> QED
  BY <1>1, AlwaysTyped, PTL

\* toFixed(2) returns a nearest cent, of two equally near the one away from
\* zero.
THEOREM RoundsToNearest == Spec => []RoundsToNearestCent
<1>1. Typed => RoundsToNearestCent
  <2> SUFFICES ASSUME Typed PROVE RoundsToNearestCent
    OBVIOUS
  <2> DEFINE f == RoundHalfUp(amount)
  <2>1. amount \in Int /\ f \in Int /\ WholeCents(f)
    BY DEF Typed, RoundHalfUp, WholeCents, Cent
  <2>2. Abs(f - amount) <= 5 /\ (2 * Abs(f - amount) = 10 => Abs(f) > Abs(amount))
    BY DEF Typed, RoundHalfUp, Cent, Abs
  <2>3. ASSUME NEW n \in -Bound .. Bound, WholeCents(n)
        PROVE  Abs(f - amount) <= Abs(n - amount)
    <3>1. n = f \/ n >= f + 10 \/ n <= f - 10
      BY <2>1, <2>3, BoundAssumption DEF WholeCents, Cent
    <3> HIDE DEF f
    <3> QED
      BY <3>1, <2>1, <2>2, <2>3, BoundAssumption DEF Abs
  <2> QED
    BY <2>1, <2>2, <2>3 DEF RoundsToNearestCent, Cent
<1> QED
  BY <1>1, AlwaysTyped, PTL

------------------------------------------------------------------------------
(* The calendar.                                                           *)

\* A year begins where the one before it ends.
LEMMA NextYear ==
  ASSUME NEW y \in Nat
  PROVE  /\ YearStart(y) \in Int
         /\ YearStart(y + 1) = YearStart(y) + YearLength(y)
<1>1. y \div 4 - (y - 1) \div 4 = IF y % 4 = 0 THEN 1 ELSE 0
  BY SMT
<1>2. y \div 100 - (y - 1) \div 100 = IF y % 100 = 0 THEN 1 ELSE 0
  BY SMT
<1>3. y \div 400 - (y - 1) \div 400 = IF y % 400 = 0 THEN 1 ELSE 0
  BY SMT
<1>4. /\ y % 400 = 0 => y % 100 = 0
      /\ y % 100 = 0 => y % 4 = 0
  BY SMT
<1> QED
  BY SMT, <1>1, <1>2, <1>3, <1>4 DEF YearStart, YearLength, IsLeapYear

\* A later year begins after an earlier one has ended.
LEMMA YearsFollow ==
  ASSUME NEW y \in Nat, NEW z \in Nat, y < z
  PROVE  YearStart(y) + YearLength(y) <= YearStart(z)
<1> DEFINE a == y
           b == z - 1
<1>1. a \in Nat /\ b \in Nat /\ a <= b
  BY SMT
<1>2. a \div 4 - a \div 100 <= b \div 4 - b \div 100
  BY SMT, <1>1
<1>3. a \div 400 <= b \div 400
  BY SMT, <1>1
<1>4. YearStart(y + 1) <= YearStart(z)
  BY SMT, <1>1, <1>2, <1>3 DEF YearStart
<1> QED
  BY SMT, <1>4, NextYear

\* A leap year that ends a century begins at the end of a cycle of 400 years.
LEMMA CenturyStart ==
  ASSUME NEW c \in Nat
  PROVE  /\ IsLeapYear(400 * (c + 1))
         /\ YearStart(400 * (c + 1)) = 146097 * c + 146096
<1> DEFINE y == 400 * (c + 1)
<1>1. (y - 1) \div 4 = 100 * c + 99 /\ (y - 1) \div 100 = 4 * c + 3
        /\ (y - 1) \div 400 = c
  BY SMT
<1>2. y % 400 = 0
  BY SMT
<1> QED
  BY SMT, <1>1, <1>2 DEF YearStart, IsLeapYear

\* Year 4(q + 1) of century d of era c.
FourthYear(c, d, q) == 400 * c + 100 * d + 4 * (q + 1)

\* Any other leap year begins at the end of a cycle of four years.
LEMMA FourthYearStart ==
  ASSUME NEW c \in Nat, NEW d \in Nat, NEW q \in Nat, d <= 3, q <= 23
  PROVE  /\ FourthYear(c, d, q) \in Nat
         /\ IsLeapYear(FourthYear(c, d, q))
         /\ YearStart(FourthYear(c, d, q))
              = 146097 * c + 36524 * d + 1461 * q + 1460
<1> DEFINE y == 400 * c + 100 * d + 4 * (q + 1)
<1>1. y \in Nat
  BY SMT
<1>2. (y - 1) \div 4 = 100 * c + 25 * d + q /\ (y - 1) \div 100 = 4 * c + d
        /\ (y - 1) \div 400 = c
  BY SMT
<1>3. y % 4 = 0 /\ y % 100 = 4 * (q + 1)
  BY SMT
<1>4. YearStart(y) = 146097 * c + 36524 * d + 1461 * q + 1460
  BY SMT, <1>2 DEF YearStart
<1>5. IsLeapYear(y)
  BY SMT, <1>3 DEF IsLeapYear
<1> QED
  BY SMT, <1>1, <1>4, <1>5 DEF FourthYear

\* The 29th of February of a leap year ends a cycle of four years.
LEMMA LeapYearsHaveLeapDays ==
  ASSUME NEW y \in Nat, y >= 1, IsLeapYear(y)
  PROVE  LeapDay(YearStart(y) + 59)
<1>1. CASE y % 400 = 0
  <2>1. PICK c \in Nat : y = 400 * (c + 1)
    <3> DEFINE c == y \div 400 - 1
    <3>1. c \in Nat /\ y = 400 * (c + 1)
      BY SMT, <1>1
    <3> HIDE DEF c
    <3> QED
      BY Zenon, <3>1
  <2>2. YearStart(y) = 146097 * c + 146096
    BY SMT, <2>1, CenturyStart
  <2>3. YearStart(y) % 146097 = 146096
    BY SMT, <2>2
  <2> QED
    BY SMT, <2>2, <2>3 DEF LeapDay
<1>2. CASE y % 400 # 0
  <2>1. y % 4 = 0 /\ y % 100 # 0
    BY SMT, <1>2 DEF IsLeapYear
  <2>2. PICK c \in Nat, d \in Nat, q \in Nat :
          d <= 3 /\ q <= 23 /\ y = FourthYear(c, d, q)
    <3> DEFINE c == y \div 400
               d == (y % 400) \div 100
               q == (y % 100) \div 4 - 1
    <3>1. c \in Nat /\ d \in Nat /\ q \in Nat
      BY SMT, <2>1
    <3>2. d <= 3 /\ q <= 23 /\ y = FourthYear(c, d, q)
      BY SMT, <2>1 DEF FourthYear
    <3> HIDE DEF c, d, q
    <3> QED
      BY Zenon, <3>1, <3>2
  <2>4. YearStart(y) = 146097 * c + 36524 * d + 1461 * q + 1460
    BY SMT, <2>2, FourthYearStart
  <2>8. YearStart(y) % 146097 = 36524 * d + 1461 * q + 1460
    BY SMT, <2>2, <2>4
  <2>5. (36524 * d + 1461 * q + 1460) % 36524 = 1461 * q + 1460
    BY SMT, <2>2
  <2>6. (1461 * q + 1460) % 1461 = 1460
    BY SMT
  <2>7. YearStart(y) \in Int
    BY SMT, NextYear
  <2> QED
    BY SMT, <2>8, <2>5, <2>6, <2>7 DEF LeapDay
<1> QED
  BY SMT, <1>1, <1>2

\* Division with remainder, by the lengths of the longer cycles.
LEMMA InEra ==
  ASSUME NEW m \in Nat
  PROVE  \E c \in Nat, e \in Nat : m = 146097 * c + e /\ e < 146097 /\ e = m % 146097
<1> DEFINE c == m \div 146097
           e == m % 146097
<1>1. c \in Nat
  BY SMT
<1>2. e \in Nat
  BY SMT
<1>3. e < 146097
  BY SMT
<1>4. m = 146097 * c + e
  BY SMT
<1> HIDE DEF c
<1> QED
  BY SMT, <1>1, <1>2, <1>3, <1>4

LEMMA InCentury ==
  ASSUME NEW m \in Nat
  PROVE  \E d \in Nat, f \in Nat : m = 36524 * d + f /\ f < 36524 /\ f = m % 36524
<1> DEFINE d == m \div 36524
           f == m % 36524
<1>1. d \in Nat
  BY SMT
<1>2. f \in Nat
  BY SMT
<1>3. f < 36524
  BY SMT
<1>4. m = 36524 * d + f
  BY SMT
<1> HIDE DEF d
<1> QED
  BY SMT, <1>1, <1>2, <1>3, <1>4

\* And every cycle of four years ends with the 29th of February of a leap year.
LEMMA LeapDaysAreInLeapYears ==
  ASSUME NEW n \in Nat, n >= 59, LeapDay(n)
  PROVE  \E y \in Nat : IsLeapYear(y) /\ n = YearStart(y) + 59
<1>1. PICK c \in Nat, e \in Nat :
        n - 59 = 146097 * c + e /\ e < 146097 /\ e = (n - 59) % 146097
  <2> DEFINE m == n - 59
  <2>1. m \in Nat
    BY SMT
  <2> HIDE DEF m
  <2>2. \E c \in Nat, e \in Nat : m = 146097 * c + e /\ e < 146097 /\ e = m % 146097
    BY SMT, <2>1, InEra
  <2> QED
    BY SMT, <2>2 DEF m
<1>2. e = 146096 \/ (e % 36524) % 1461 = 1460
  BY SMT, <1>1 DEF LeapDay
<1>3. CASE e = 146096
  BY SMT, <1>1, <1>3, CenturyStart
<1>4. CASE e # 146096
  <2>1. PICK d \in Nat, f \in Nat :
          e = 36524 * d + f /\ d <= 3 /\ f < 36524 /\ f = e % 36524
    <3>1. PICK d \in Nat, f \in Nat :
            e = 36524 * d + f /\ f < 36524 /\ f = e % 36524
      BY SMT, InCentury
    <3>2. d <= 3
      BY SMT, <1>1, <1>4, <3>1
    <3> QED
      BY SMT, <3>1, <3>2
  <2>2. PICK q \in Nat : f = 1461 * q + 1460 /\ q <= 23
    <3>1. f % 1461 = 1460
      BY SMT, <1>2, <1>4, <2>1
    <3>2. f \div 1461 \in Nat /\ f = 1461 * (f \div 1461) + 1460
      BY SMT, <3>1
    <3> QED
      BY SMT, <2>1, <3>2
  <2>3. n = 146097 * c + 36524 * d + 1461 * q + 1460 + 59
    BY SMT, <1>1, <2>1, <2>2
  <2>4. n = YearStart(FourthYear(c, d, q)) + 59
    BY SMT, <2>1, <2>2, <2>3, FourthYearStart
  <2> QED
    BY SMT, <2>1, <2>2, <2>4, FourthYearStart
<1> QED
  BY SMT, <1>3, <1>4

\* Ticks only matter within a day.
LEMMA DaysOrderInstants ==
  ASSUME NEW a \in Int, NEW b \in Int, NEW t \in Nat, t < TicksPerDay
  PROVE  /\ a * TicksPerDay <= b * TicksPerDay + t <=> a <= b
         /\ a * TicksPerDay + t <= b * TicksPerDay => a <= b
         /\ a * TicksPerDay \in Int /\ b * TicksPerDay \in Int
<1> DEFINE T == TicksPerDay
<1>1. T \in Nat /\ T > 0
  BY TicksAssumption
<1>2. a * T \in Int /\ b * T \in Int
  BY <1>1
<1>3. CASE a <= b
  <2>1. (b - a) * T >= 0
    BY SMT, <1>1, <1>3
  <2>2. a * T <= b * T
    BY SMT, <1>1, <2>1
  <2> QED
    BY SMT, <1>1, <1>2, <1>3, <2>2
<1>4. CASE a > b
  <2>1. (a - b - 1) * T >= 0
    BY SMT, <1>1, <1>4
  <2>2. a * T >= b * T + T
    BY SMT, <1>1, <2>1
  <2> QED
    BY SMT, <1>1, <1>2, <1>4, <2>2
<1> QED
  BY SMT, <1>3, <1>4

\* A moment lies within its year.
LEMMA WithinTheYear ==
  ASSUME NEW m \in Moments
  PROVE  /\ m.year \in Nat /\ m.year >= 100 /\ m.day \in Nat
         /\ m.tick \in Nat /\ m.tick < TicksPerDay
         /\ DayNumber(m) \in Int
         /\ YearStart(m.year) <= DayNumber(m)
         /\ DayNumber(m) < YearStart(m.year) + YearLength(m.year)
         /\ DayNumber(m) >= 365
         /\ Instant(m) = DayNumber(m) * TicksPerDay + m.tick
<1>1. /\ m.year \in Nat /\ m.year >= 100 /\ m.day \in Nat
      /\ m.tick \in Nat /\ m.tick < TicksPerDay
      /\ m.day < YearLength(m.year)
  BY SMT, TicksAssumption DEF Moments
<1>2. YearStart(m.year) \in Int
  BY Zenon, <1>1, NextYear
<1>3. YearStart(1) + YearLength(1) = 730
  BY SMT DEF YearStart, YearLength, IsLeapYear
<1>4. YearStart(m.year) >= 365
  <2>1. 1 < m.year /\ 1 \in Nat
    BY SMT, <1>1
  <2>2. YearStart(1) + YearLength(1) <= YearStart(m.year)
    BY Zenon, <1>1, <2>1, YearsFollow
  <2> QED
    BY SMT, <1>2, <1>3, <2>2
<1>5. YearLength(m.year) \in Int
  BY SMT DEF YearLength
<1> QED
  BY SMT, <1>1, <1>2, <1>4, <1>5 DEF DayNumber, Instant

\* The first tick of the 29th of February, among other moments.
LEMMA Feb29AmongMoments ==
  ASSUME NEW y \in Nat, NEW s \in Moments, NEW e \in Moments
  PROVE  /\ Instant(Feb29(y)) = (YearStart(y) + 59) * TicksPerDay
         /\ Instant(s) <= Instant(Feb29(y)) => DayNumber(s) <= YearStart(y) + 59
         /\ DayNumber(s) < YearStart(y) + 59 => Instant(s) <= Instant(Feb29(y))
         /\ Instant(Feb29(y)) <= Instant(e) <=> YearStart(y) + 59 <= DayNumber(e)
<1> DEFINE n == YearStart(y) + 59
           T == TicksPerDay
<1>1. n \in Int
  BY SMT, NextYear
<1>2. Instant(Feb29(y)) = n * T + 0
  BY Zenon DEF Instant, Feb29, DayNumber
<1>3. n * T \in Int
  BY SMT, <1>1, TicksAssumption
<1>4. Instant(Feb29(y)) = n * T
  BY SMT, <1>2, <1>3
<1> HIDE DEF n
<1>5. Instant(s) <= n * T => DayNumber(s) <= n
  <2>1. /\ DayNumber(s) \in Int /\ s.tick \in Nat /\ s.tick < T
        /\ Instant(s) = DayNumber(s) * T + s.tick
    BY SMT, WithinTheYear
  <2>2. DayNumber(s) * T + s.tick <= n * T => DayNumber(s) <= n
    BY Zenon, <1>1, <2>1, DaysOrderInstants
  <2> QED
    BY Zenon, <2>1, <2>2
<1>6. n * T <= Instant(e) <=> n <= DayNumber(e)
  BY SMT, <1>1, WithinTheYear, DaysOrderInstants
<1>7. DayNumber(s) < n => Instant(s) <= n * T
  <2> SUFFICES ASSUME DayNumber(s) < n PROVE Instant(s) <= n * T
    OBVIOUS
  <2>1. DayNumber(s) \in Int /\ Instant(s) = DayNumber(s) * T + s.tick
          /\ s.tick \in Nat /\ s.tick < T
    BY SMT, WithinTheYear
  <2>2. (n - DayNumber(s) - 1) * T >= 0
    BY SMT, <1>1, <2>1, TicksAssumption
  <2>3. n * T >= DayNumber(s) * T + T
    BY SMT, <1>1, <2>1, <2>2, TicksAssumption
  <2> QED
    BY SMT, <1>3, <2>1, <2>3, TicksAssumption
<1> QED
  BY Zenon, <1>4, <1>5, <1>6, <1>7 DEF n

\* The code finds a leap day in a period exactly if one is there, for all
\* moments.
THEOREM LeapDaysFound == Spec => []LeapDaysAreFound
<1>1. ASSUME NEW s \in Moments, NEW e \in Moments
      PROVE  HasLeapYearBetween(s, e) <=>
               \E n \in DayNumber(s) .. DayNumber(e) :
                 LeapDay(n) /\ Instant(s) <= n * TicksPerDay
  <2>1. ASSUME NEW y \in s.year .. e.year, IsLeapYear(y),
               Instant(s) <= Instant(Feb29(y)), Instant(Feb29(y)) <= Instant(e)
        PROVE  \E n \in DayNumber(s) .. DayNumber(e) :
                 LeapDay(n) /\ Instant(s) <= n * TicksPerDay
    <3>1. y \in Nat /\ y >= 1
      BY SMT, WithinTheYear
    <3> DEFINE n == YearStart(y) + 59
    <3>2. LeapDay(n)
      BY Zenon, <2>1, <3>1, LeapYearsHaveLeapDays
    <3>3. DayNumber(s) <= n /\ n <= DayNumber(e) /\ Instant(s) <= n * TicksPerDay
      BY Zenon, <2>1, <3>1, Feb29AmongMoments
    <3>4. n \in Int
      BY SMT, <3>1, NextYear
    <3> HIDE DEF n
    <3>5. n \in DayNumber(s) .. DayNumber(e)
      BY SMT, <3>3, <3>4, WithinTheYear
    <3> QED
      BY Zenon, <3>2, <3>3, <3>5
  <2>2. ASSUME NEW n \in DayNumber(s) .. DayNumber(e), LeapDay(n),
               Instant(s) <= n * TicksPerDay
        PROVE  \E y \in s.year .. e.year :
                 /\ IsLeapYear(y)
                 /\ Instant(s) <= Instant(Feb29(y))
                 /\ Instant(Feb29(y)) <= Instant(e)
    <3>1. n \in Nat /\ n >= 59 /\ DayNumber(s) <= n /\ n <= DayNumber(e)
      BY SMT, WithinTheYear
    <3>2. PICK y \in Nat : IsLeapYear(y) /\ n = YearStart(y) + 59
      BY Zenon, <2>2, <3>1, LeapDaysAreInLeapYears
    <3>3. y >= s.year
      <4> SUFFICES ASSUME y < s.year PROVE FALSE
        BY SMT, WithinTheYear
      <4>1. YearStart(y) + YearLength(y) <= YearStart(s.year)
        BY SMT, WithinTheYear, YearsFollow
      <4> QED
        BY SMT, <4>1, <3>1, <3>2, NextYear, WithinTheYear DEF YearLength
    <3>4. y <= e.year
      <4> SUFFICES ASSUME e.year < y PROVE FALSE
        BY SMT, WithinTheYear
      <4>1. YearStart(e.year) + YearLength(e.year) <= YearStart(y)
        BY SMT, WithinTheYear, YearsFollow
      <4> QED
        BY SMT, <4>1, <3>1, <3>2, NextYear, WithinTheYear DEF YearLength
    <3>5. y \in s.year .. e.year
      BY SMT, <3>3, <3>4, WithinTheYear
    <3>6. Instant(Feb29(y)) = n * TicksPerDay /\ Instant(Feb29(y)) <= Instant(e)
      BY Zenon, <3>1, <3>2, Feb29AmongMoments
    <3> QED
      BY Zenon, <2>2, <3>2, <3>5, <3>6
  <2> QED
    BY Zenon, <2>1, <2>2 DEF HasLeapYearBetween
<1>2. Typed => LeapDaysAreFound
  BY Zenon, <1>1 DEF Typed, LeapDaysAreFound
<1> QED
  BY <1>2, AlwaysTyped, PTL

\* From a date to the same date a year later there are 366 days if a leap day
\* lies between, and 365 otherwise.
LEMMA AYearHasItsDays ==
  ASSUME NEW s \in Moments, ~(s.day = 59 /\ IsLeapYear(s.year))
  PROVE  /\ YearLater(s) \in Moments
         /\ YearLater(s).tick = s.tick
         /\ DayNumber(YearLater(s)) - DayNumber(s)
              = IF HasLeapYearBetween(s, YearLater(s)) THEN 366 ELSE 365
<1> DEFINE y == s.year
           z == s.year + 1
           e == YearLater(s)
           L == DayNumber(e) - DayNumber(s)
<1>1. /\ y \in Nat /\ y >= 100 /\ s.day \in 0 .. 365 /\ s.tick \in 0 .. TicksPerDay - 1
      /\ s.day < YearLength(y)
      /\ s = [year |-> s.year, day |-> s.day, tick |-> s.tick]
  BY SMT DEF Moments
<1>2. z \in Nat /\ z = y + 1
  BY SMT, <1>1
<1>3. ~(IsLeapYear(y) /\ IsLeapYear(z))
  BY SMT, <1>1 DEF IsLeapYear
<1>4. /\ YearStart(y) \in Int /\ YearStart(z) = YearStart(y) + YearLength(y)
  BY Zenon, <1>1, NextYear
<1>5. /\ e.year = z /\ e.tick = s.tick
      /\ e.day = IF s.day > 59 /\ IsLeapYear(y) THEN s.day - 1
                 ELSE IF s.day >= 59 /\ IsLeapYear(z) THEN s.day + 1
                 ELSE s.day
      /\ e = [year |-> e.year, day |-> e.day, tick |-> e.tick]
  BY SMT, <1>1 DEF YearLater
<1> HIDE DEF e, z, y
<1>6. e.day \in 0 .. 365 /\ e.day < YearLength(z)
  BY SMT, <1>1, <1>3, <1>5 DEF YearLength, y
<1>7. e \in Moments
  BY SMT, <1>1, <1>2, <1>5, <1>6 DEF Moments
<1>8. /\ DayNumber(s) = YearStart(y) + s.day
      /\ DayNumber(e) = YearStart(y) + YearLength(y) + e.day
  BY SMT, <1>4, <1>5 DEF DayNumber, y
<1>9. s.year .. e.year = {y, z}
  BY SMT, <1>1, <1>2, <1>5 DEF y
<1>10. HasLeapYearBetween(s, e) <=>
         \/ IsLeapYear(y) /\ Instant(s) <= Instant(Feb29(y)) /\ Instant(Feb29(y)) <= Instant(e)
         \/ IsLeapYear(z) /\ Instant(s) <= Instant(Feb29(z)) /\ Instant(Feb29(z)) <= Instant(e)
  BY Zenon, <1>9 DEF HasLeapYearBetween
<1>11. HasLeapYearBetween(s, e) <=>
         \/ IsLeapYear(y) /\ s.day < 59
         \/ IsLeapYear(z) /\ s.day >= 59
  <2>1. CASE IsLeapYear(y)
    <3>1. YearLength(y) = 366 /\ ~IsLeapYear(z) /\ s.day # 59
      BY Zenon, <2>1, <1>3 DEF YearLength, y
    <3>2. Instant(s) <= Instant(Feb29(y)) => DayNumber(s) <= YearStart(y) + 59
      BY Zenon, <1>1, <1>7, Feb29AmongMoments
    <3>3. DayNumber(s) < YearStart(y) + 59 => Instant(s) <= Instant(Feb29(y))
      BY Zenon, <1>1, <1>7, Feb29AmongMoments
    <3>4. YearStart(y) + 59 <= DayNumber(e) => Instant(Feb29(y)) <= Instant(e)
      BY Zenon, <1>1, <1>7, Feb29AmongMoments
    <3> QED
      BY SMT, <2>1, <3>1, <3>2, <3>3, <3>4, <1>1, <1>4, <1>6, <1>8, <1>10
  <2>2. CASE ~IsLeapYear(y)
    <3>1. YearLength(y) = 365
      BY Zenon, <2>2 DEF YearLength
    <3>2. DayNumber(s) < YearStart(z) + 59 => Instant(s) <= Instant(Feb29(z))
      BY Zenon, <1>2, <1>7, Feb29AmongMoments
    <3>3. Instant(Feb29(z)) <= Instant(e) <=> YearStart(z) + 59 <= DayNumber(e)
      BY Zenon, <1>2, <1>7, Feb29AmongMoments
    <3>4. IsLeapYear(z) => e.day = IF s.day >= 59 THEN s.day + 1 ELSE s.day
      BY Zenon, <2>2, <1>5
    <3> QED
      BY SMT, <2>2, <3>1, <3>2, <3>3, <3>4, <1>1, <1>4, <1>6, <1>8, <1>10
  <2> QED
    BY Zenon, <2>1, <2>2
<1>12. L = IF HasLeapYearBetween(s, e) THEN 366 ELSE 365
  BY SMT, <1>1, <1>3, <1>4, <1>5, <1>6, <1>8, <1>11 DEF YearLength, y
<1> QED
  BY Zenon, <1>5, <1>7, <1>12 DEF e

\* A whole number of years cancels.
LEMMA WholeYearCancels ==
  ASSUME NEW p \in Nat, NEW r \in Nat, NEW d \in {365, 366}
  PROVE  Earned(p, r, d, d) = {Multiply(p, r)}
<1>1. p * r \in Nat
  BY SMT
<1>2. Finite(d, d)
  BY SMT DEF Finite
<1>3. ASSUME NEW n \in Nat
      PROVE  RoundQuotient(n * d, RateUnit * d) = RoundQuotient(n, RateUnit)
  <2>1. CASE d = 365
    BY SMT, <2>1 DEF RoundQuotient, RateUnit, Cent
  <2>2. CASE d = 366
    BY SMT, <2>2 DEF RoundQuotient, RateUnit, Cent
  <2> QED
    BY <2>1, <2>2
<1>4. RoundQuotient(p * r * d, RateUnit * d) = Multiply(p, r)
  BY Zenon, <1>1, <1>3 DEF Multiply
<1> QED
  BY Zenon, <1>2, <1>4 DEF Earned

\* A year earns the annual rate, for all principals, rates and moments.
THEOREM AYearEarns == Spec => []AYearEarnsTheRate
<1>1. ASSUME NEW s \in Moments, ~(s.day = 59 /\ IsLeapYear(s.year)), NEW p \in Nat
      PROVE  CalculateInterestWithLeapYear(p, Rate, s, YearLater(s)) = {Multiply(p, Rate)}
  <2> DEFINE e == YearLater(s)
             d == IF HasLeapYearBetween(s, e) THEN 366 ELSE 365
             T == TicksPerDay
  <2>1. e \in Moments /\ e.tick = s.tick /\ DayNumber(e) - DayNumber(s) = d
    BY Zenon, <1>1, AYearHasItsDays
  <2>2. d \in {365, 366}
    BY SMT
  <2> HIDE DEF e, d
  <2>3. /\ DayNumber(s) \in Int /\ DayNumber(e) \in Int /\ s.tick \in Nat
        /\ Instant(s) = DayNumber(s) * T + s.tick
        /\ Instant(e) = DayNumber(e) * T + s.tick
    BY SMT, <1>1, <2>1, WithinTheYear
  <2>4. Instant(e) - Instant(s) = d * T
    <3>1. DayNumber(e) = DayNumber(s) + d /\ d \in Nat /\ T \in Nat
      BY SMT, <2>1, <2>2, <2>3, TicksAssumption
    <3>2. DayNumber(e) * T = DayNumber(s) * T + d * T
      BY SMT, <2>3, <3>1
    <3> QED
      BY SMT, <2>3, <3>1, <3>2
  <2>5. d * T >= 0 /\ (d * T) \div T = d
    BY SMT, <2>2, TicksAssumption
  <2>6. GetDaysBetween(s, e) = d
    BY SMT, <2>2, <2>4, <2>5, TicksAssumption DEF GetDaysBetween
  <2>7. CalculateInterestWithLeapYear(p, Rate, s, e) = Earned(p, Rate, d, d)
    BY Zenon, <2>6 DEF CalculateInterestWithLeapYear, d
  <2> QED
    <3>1. Rate \in Nat
      BY Zenon, BoundAssumption
    <3>2. Earned(p, Rate, d, d) = {Multiply(p, Rate)}
      BY SMT, <2>2, <3>1, WholeYearCancels
    <3> QED
      BY Zenon, <2>7, <3>2 DEF e
<1>2. Typed => AYearEarnsTheRate
  BY Zenon, <1>1 DEF Typed, AYearEarnsTheRate
<1> QED
  BY <1>2, AlwaysTyped, PTL
=============================================================================
