SPECIFICATION FairSpec
CONSTANTS
  Clients = {c1}
  Walkers = {w1, w2}
  Null = Null
  SelectFails = TRUE
  GoneCallers = {"all", "match", "scale"}
CHECK_DEADLOCK FALSE
INVARIANTS RefCountExact ReferencedIsKept NoWakeUpLost
PROPERTIES DrainEnds AnnouncedIsSent
