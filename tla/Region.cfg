SPECIFICATION Spec
CONSTANTS
  Width = 2
  Height = 4
  Shifts <- AllShifts
INVARIANTS WellFormed Exact SendOrderSafe
