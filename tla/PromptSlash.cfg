\* A candidate with a separator in it.
CONSTANTS
  Size = 7
  NeedleSize = 3
  Prefix <- Prefix1
  TagType <- bb
  Keys <- Keys1
  MaxKeys = 8
  Types <- Types1
  Names <- Names1
  Radios <- Radios1
  Popular <- Popular1
  Histories <- Histories1
  Tagged <- Tagged1
SPECIFICATION Spec
INVARIANTS
  TabReturns
\* A prompt whose Tab key does not come back is the end, and so is one whose
\* line has no end, or whose terminal has gone.
CHECK_DEADLOCK FALSE
