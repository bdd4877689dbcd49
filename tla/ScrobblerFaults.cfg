\* Everything but ^Z goes wrong.
CONSTANTS
  MaxTracks = 4
  Toggles = TRUE
  Faults = {"error", "unheard", "killed", "fork", "interrupt"}
SPECIFICATION Spec
INVARIANTS
  LostOnlyBehind
  LedgerInv
PROPERTIES
  ImplementsLedger
