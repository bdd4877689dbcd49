\* Two clients and the keyboard.
CONSTANTS
  Sockets = {c1, c2}
  None = None
  Cmds = {"ask", "detach"}
  MaxLines = 2
  Ragged = TRUE
  Fragile = {c1}
SPECIFICATION LeavingSpec
INVARIANTS
  InOrder
  NothingDropped
  AnswersReachAsker
  SelectWorks
PROPERTIES
  KeyServed
  HangUpNoticed
