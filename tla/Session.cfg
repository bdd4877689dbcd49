\* Three troubles in all, a redirect and a crash among them.
CONSTANTS
  MaxHops = 1
  MaxTroubles = 3
  Strings <- Texts
  Settings <- Configurations
SPECIFICATION FairSpec
INVARIANTS
  Reassembled
  RcHonest
PROPERTIES
  KeyKept
  LogsIn
