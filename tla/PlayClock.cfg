\* Too short, long enough in part, and longer than suffices.
CONSTANTS
  Durations = {1, 3, 6}
  Minimum = 75
  Least = 2
  Enough = 4
  Word = 32
  MaxTime = 7
  Suspends = TRUE
SPECIFICATION Spec
INVARIANTS
  ClockInv
PROPERTIES
  ScrobbledIsHeard
  RemainHonest
