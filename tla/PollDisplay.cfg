SPECIFICATION FairSpec
CONSTANTS
  Cols = 2
  Rows = 1
  NSCAN = 2
  Scanlines <- Backwards
  NReg = 4
  Color = {0, 1}
  Black = 0
  Drawings <- BackAndForth
  Modes = {1}
  Slow = TRUE
  MaxDraws = 2
PROPERTIES FramebufferCatchesUp
INVARIANTS TypeOK DamageRemembered ChangesAreMarked
