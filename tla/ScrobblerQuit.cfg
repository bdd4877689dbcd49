\* The queue is thrown away at the end.
CONSTANTS
  MaxTracks = 2
  Toggles = FALSE
  Faults = {"error"}
SPECIFICATION Spec
INVARIANTS
  KeptForNextTime
