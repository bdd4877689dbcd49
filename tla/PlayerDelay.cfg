\* A terminal with delay-change configured.
CONSTANTS
  s1 = s1
  s2 = s2
  a1 = a1
  a2 = a2
  NoStation = NoStation
  Stations = {s1, s2}
  Artists = {a1}
  Requests <- AllUrls
  Commands <- DelayCommands
  Background = FALSE
  DelayChange = TRUE
  PerFetch = 2
  MaxTracks = 4
  ServerFaults = {}
  ForkFaults = {}
SPECIFICATION Spec
INVARIANTS
  NpFileHonest
  GapHonest
  HeadIsPlaying
  DelayedWaits
PROPERTIES
  DelayedIsNext
  ShiftDropsHeard
