\* Progress, whatever goes wrong.
CONSTANTS
  MaxTracks = 3
  Toggles = FALSE
  Faults = {"error", "unheard", "killed", "fork", "suspend"}
SPECIFICATION FairSpec
PROPERTIES
  SlotIsFreed
  QuitEnds
