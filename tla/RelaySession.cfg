SPECIFICATION Spec
CONSTANTS
  Helper = {h1}
  MaxSent = 3
  MaxSessions = 2
CHECK_DEADLOCK FALSE
INVARIANTS TypeOK RecordInUse HandshakeFirst PixelChangeKept
