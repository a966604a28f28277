SPECIFICATION FairSpec
CONSTANTS
  Width = 1
  Height = 2
  Color = {r}
  CursorPixel = CursorPixel
  Blank = Blank
  Rects <- MCRects
  Copies <- MCCopies
  Shift <- MCShift
  Cursors = {arrow}
  Positions = {home}
  CursorRect <- NoCursor
  CursorMask <- NoCursor
  Encodings <- CopyRectOnly
  Slices <- WholeScreen
  MergeRects = FALSE
  Threaded = TRUE

PROPERTIES ChangesAreSent
