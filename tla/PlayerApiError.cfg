\* An API error aborts the player.
CONSTANTS
  s1 = s1
  s2 = s2
  a1 = a1
  a2 = a2
  NoStation = NoStation
  Stations = {s1, s2}
  Artists = {a1}
  Requests <- BareUrls
  Commands <- NoCommands
  Background = FALSE
  DelayChange = FALSE
  PerFetch = 1
  MaxTracks = 2
  ServerFaults = {"error"}
  ForkFaults = {}
SPECIFICATION Spec
INVARIANTS
  Survives
