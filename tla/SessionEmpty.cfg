\* An emptied file counts as a session.
CONSTANTS
  MaxHops = 1
  MaxTroubles = 3
  Strings <- Texts
  Settings <- Configurations
SPECIFICATION FairSpec
PROPERTIES
  LogsInAlways
