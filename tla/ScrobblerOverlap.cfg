\* A track that ends during a submission is lost.
CONSTANTS
  MaxTracks = 3
  Toggles = FALSE
  Faults = {}
SPECIFICATION Spec
INVARIANTS
  NothingLost
