----------------------------- MODULE MCMoneyMath -----------------------------
(***************************************************************************)
(* The arithmetic of MoneyMath and Interest over every case within bounds: *)
(* a posting, as the wallet service makes it, from a balance of whole      *)
(* cents and any amount a client may send; and a period in which a balance *)
(* earns interest.                                                         *)
(***************************************************************************)
EXTENDS Interest

CONSTANTS
  Bound,       \* largest balance and amount of a posting, in mills
  Principals,  \* balances that earn interest, in mills
  Rate,        \* the annual rate, in hundredths
  Years, Days, \* years, and days of a year, where a period begins or ends
  MaxYears     \* longest period

ASSUME BoundAssumption ==
  /\ Bound \in Nat
  /\ Rate \in Nat
  /\ Principals \subseteq {x \in Nat : WholeCents(x)}
  /\ Years \subseteq Nat /\ \A y \in Years : y >= 100
  /\ Days \subseteq 0 .. 365

VARIABLES before, amount, start, end

vars == <<before, amount, start, end>>

Balances == {x \in 0 .. Bound : WholeCents(x)}

SomeMoments == {m \in [year : Years, day : Days, tick : 0 .. TicksPerDay - 1] :
                  m.day < YearLength(m.year)}

NewYear == [year |-> 2000, day |-> 0, tick |-> 0]

Posting ==
  /\ before \in Balances /\ amount \in -Bound .. Bound
  /\ start = NewYear /\ end = NewYear

Period ==
  /\ before \in Principals /\ amount = 0
  /\ start \in SomeMoments
  /\ end \in {m \in SomeMoments : m.year - start.year \in -1 .. MaxYears}

Init == Posting \/ Period

Next == UNCHANGED vars

Spec == Init /\ [][Next]_vars

Abs(x) == IF x < 0 THEN -x ELSE x

\* toFixed(2) returns a nearest cent, and the one away from zero for a half.
RoundsToNearestCent ==
  LET f == RoundHalfUp(amount)
  IN  /\ WholeCents(f)
      /\ \A n \in -Bound .. Bound :
           WholeCents(n) => Abs(f - amount) <= Abs(n - amount)
      /\ 2 * Abs(f - amount) = Cent => Abs(f) > Abs(amount)

\* The amount of a credit row is what the balance gained, for any fraction of
\* a cent a client sends.
CreditRowsAreExact ==
  amount > 0 => Add(before, amount) - before = Format(amount)

\* The amount of a debit row is what the balance lost, except at half a cent:
\* there the row says a cent more than was taken.
DebitRowsAreExactButForHalves ==
  amount > 0 /\ ~LessThan(before, amount) =>
    before - Subtract(before, amount) =
      Format(amount) - (IF amount % Cent = Cent \div 2 THEN Cent ELSE 0)

\* The check of funds on exact amounts keeps the rounded balance from going
\* below zero, and a debit never raises it.
FundsCheckSuffices ==
  amount > 0 /\ ~LessThan(before, amount) =>
    Subtract(before, amount) \in 0 .. before

------------------------------------------------------------------------------
(* A calendar of its own: days in cycles of 400, 100 and 4 years that      *)
(* begin on the first of March, so that a cycle of four years ends on the  *)
(* 29th of February.                                                       *)

LeapDay(n) ==
  LET inEra == (n - 59) % 146097
  IN  inEra = 146096 \/ (inEra % 36524) % 1461 = 1460

\* The loop over years finds a leap day in a period exactly if one is there: no
\* century, no first or last year and no time of day is got wrong.
LeapDaysAreFound ==
  HasLeapYearBetween(start, end) <=>
    \E n \in DayNumber(start) .. DayNumber(end) :
      LeapDay(n) /\ Instant(start) <= n * TicksPerDay

\* The same date and time a year later.
YearLater(m) ==
  [year |-> m.year + 1,
   day  |-> IF m.day > 59 /\ IsLeapYear(m.year) THEN m.day - 1
            ELSE IF m.day >= 59 /\ IsLeapYear(m.year + 1) THEN m.day + 1
            ELSE m.day,
   tick |-> m.tick]

\* A year earns the annual rate, wherever it begins and whether or not it has a
\* leap day: the count of days and the choice of 365 or 366 agree.  Only the
\* 29th of February itself has no date a year later.
AYearEarnsTheRate ==
  ~(start.day = 59 /\ IsLeapYear(start.year)) =>
    CalculateInterestWithLeapYear(before, Rate, start, YearLater(start))
      = {Multiply(before, Rate)}
=============================================================================
