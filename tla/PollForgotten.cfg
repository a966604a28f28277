SPECIFICATION FairSpec
CONSTANTS
  Cols = 2
  Rows = 1
  NSCAN = 2
  Scanlines <- Backwards
  NReg = 3
  Color = {0, 1}
  Black = 0
  Drawings <- TwoDrawings
  Modes = {2}
  Slow = TRUE
  MaxDraws = 1
PROPERTIES FramebufferCatchesUp
