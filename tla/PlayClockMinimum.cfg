\* Whoever heard 240 seconds of a track heard enough, whatever its minimum.
CONSTANTS
  Durations = {1, 3, 6}
  Minimum = 75
  Least = 2
  Enough = 4
  Word = 32
  MaxTime = 7
  Suspends = TRUE
SPECIFICATION Spec
PROPERTIES
  MinimumKept
