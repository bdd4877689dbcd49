\* A daemon driven over the network, with failing forks, pipes and replies.
CONSTANTS
  s1 = s1
  s2 = s2
  a1 = a1
  a2 = a2
  NoStation = NoStation
  Stations = {s1, s2}
  Artists = {a1}
  Requests <- BareUrls
  Commands <- NetCommands
  Background = TRUE
  DelayChange = TRUE
  PerFetch = 2
  MaxTracks = 4
  ServerFaults = {"error", "lostReply"}
  ForkFaults = {"fork", "pipe"}
SPECIFICATION Spec
INVARIANTS
  IndInv
  PauseIsKnown
  NoWildSignal
PROPERTIES
  ImplementsRadio
