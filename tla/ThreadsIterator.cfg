SPECIFICATION Spec
CONSTANTS
  Clients = {c1, c2}
  Walkers = {w1}
  Null = Null
  SelectFails = FALSE
  GoneCallers = {}
INVARIANT IteratorSafe
SYMMETRY Symmetry
