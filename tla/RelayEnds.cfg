SPECIFICATION FairSpec
CONSTANTS
  Helper = {}
  MaxSent = 3
  MaxSessions = 1
CHECK_DEADLOCK FALSE
PROPERTIES AttemptsEnd CloseEnds
