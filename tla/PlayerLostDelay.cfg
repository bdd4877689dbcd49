\* A delayed station waits for ever after stop.
CONSTANTS
  s1 = s1
  s2 = s2
  a1 = a1
  a2 = a2
  NoStation = NoStation
  Stations = {s1, s2}
  Artists = {a1}
  Requests <- BareUrls
  Commands <- StopCommand
  Background = FALSE
  DelayChange = TRUE
  PerFetch = 1
  MaxTracks = 2
  ServerFaults = {}
  ForkFaults = {}
SPECIFICATION FairSpec
PROPERTIES
  DelayedIsTaken
