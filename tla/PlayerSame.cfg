\* A stopped station cannot be chosen again.
CONSTANTS
  s1 = s1
  s2 = s2
  a1 = a1
  a2 = a2
  NoStation = NoStation
  Stations = {s1, s2}
  Artists = {a1}
  Requests <- BareUrls
  Commands <- StopCommand
  Background = FALSE
  DelayChange = FALSE
  PerFetch = 2
  MaxTracks = 3
  ServerFaults = {}
  ForkFaults = {}
SPECIFICATION Spec
PROPERTIES
  SameOnlyWhilePlaying
