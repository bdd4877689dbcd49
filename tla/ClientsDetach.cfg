\* One client that sends a command and detaches, as unix.pl does.
CONSTANTS
  Sockets = {c1}
  None = None
  Cmds = {"quiet", "detach"}
  MaxLines = 2
  Ragged = FALSE
  Fragile = {}
SPECIFICATION FairSpec
PROPERTIES
  Detached
