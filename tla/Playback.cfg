\* Two processes, with everything that can go wrong.
CONSTANTS
  Songs = {f1}
  MaxVolume = 1
  Size = 2
  Frames = 2
  PipeBound = 2
  MaxTracks = 2
  Faults = {"stall", "cut", "interrupt", "crash", "device", "disk"}
SPECIFICATION FairSpec
INVARIANTS
  VolumeFollows
  DownloadsHonest
  SilentSoon
PROPERTIES
  KillEnds
