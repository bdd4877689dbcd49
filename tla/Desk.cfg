\* Three stations, each tuned to more than once, and two bookmarks.
CONSTANTS
  Stations = {s1, s2, s3}
  NoStation = NoStation
  Marks <- Marks1
  MaxStations = 4
SPECIFICATION Spec
INVARIANTS
  FilesHonest
