SPECIFICATION Spec
CONSTANTS
  Width = 1
  Height = 3
  Color = {r, g}
  CursorPixel = CursorPixel
  Blank = Blank
  Rects <- MCRects
  Copies <- MCCopies
  Shift <- MCShift
  Cursors = {arrow}
  Positions <- TwoRows
  CursorRect <- SmallCursor
  CursorMask <- SmallMask
  Encodings <- MixedEncodings
  Slices <- Progressive
  MergeRects = TRUE
  Threaded = FALSE
INVARIANTS TypeOK UpdateSuffices
PROPERTIES ViewerMirrors
