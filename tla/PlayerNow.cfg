\* A terminal where a station change ends the track that plays.
CONSTANTS
  s1 = s1
  s2 = s2
  a1 = a1
  a2 = a2
  NoStation = NoStation
  Stations = {s1, s2}
  Artists = {a1, a2}
  Requests <- BareUrls
  Commands <- NowCommands
  Background = FALSE
  DelayChange = FALSE
  PerFetch = 2
  MaxTracks = 3
  ServerFaults = {"error"}
  ForkFaults = {}
SPECIFICATION FairSpec
INVARIANTS
  UpcomingFromCurrent
  AutobanEnforced
  NoneLeftBehind
PROPERTIES
  StopWorks
  ChangeSettles
