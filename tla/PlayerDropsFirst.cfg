\* A changed station loses its first track.
CONSTANTS
  s1 = s1
  s2 = s2
  a1 = a1
  a2 = a2
  NoStation = NoStation
  Stations = {s1, s2}
  Artists = {a1}
  Requests <- BareUrls
  Commands <- NoCommands
  Background = FALSE
  DelayChange = FALSE
  PerFetch = 2
  MaxTracks = 3
  ServerFaults = {}
  ForkFaults = {}
SPECIFICATION Spec
PROPERTIES
  ShiftDropsHeard
