SPECIFICATION FairSpec
CONSTANTS
  Text = {"a", "b"}
  MaxCuts = 2
  MaxOutstanding = 1
PROPERTIES NewTextIsSent PastesEnd
INVARIANTS TypeOK OwnershipKnown OfferedIsLatest FlagHasEvent
