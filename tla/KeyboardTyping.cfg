SPECIFICATION Spec
CONSTANTS
  Viewers = {v1, v2}
  Keysym = {"a", "A", "at", "eacute", "Greek_pi", "Shift_L", "Shift_R", "Mode_switch"}
  Latin = {"a", "A", "at", "eacute"}
  NoSymbol = NoSymbol
  Keycode = {1, 2, 3, 4, 5, 6, 7}
  Layout <- MCLayout
  DeleteAt = 1
  MaxHeld = 2
SYMMETRY Symmetry
INVARIANTS TypeOK ModifiersAgree KeysAccounted
PROPERTIES TypedIsSent
