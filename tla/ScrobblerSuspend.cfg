\* A submission that was only stopped is given up.
CONSTANTS
  MaxTracks = 2
  Toggles = FALSE
  Faults = {"suspend"}
SPECIFICATION Spec
PROPERTIES
  GivenUpWhenDead
