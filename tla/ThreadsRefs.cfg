SPECIFICATION Spec
CONSTANTS
  Clients = {c1, c2}
  Walkers = {w1}
  Null = Null
  SelectFails = TRUE
  GoneCallers = {}
INVARIANTS TypeOK RefCountExact ListIntact ReferencedIsKept KeptWhileServed NoWakeUpLost
SYMMETRY Symmetry
