SPECIFICATION Spec
CONSTANTS
  Bound = 60
  TicksPerDay = 2
  Principals = {36500, 36600}
  Rate = 5
  Years = {1899, 1900, 1901, 1999, 2000, 2001, 2024, 2025, 2100}
  Days = {0, 58, 59, 60, 365}
  MaxYears = 2
INVARIANTS RoundsToNearestCent CreditRowsAreExact DebitRowsAreExactButForHalves FundsCheckSuffices LeapDaysAreFound AYearEarnsTheRate
