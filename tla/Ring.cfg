\* Replicator to replayer across several laps, checker to receiver on the first.
SPECIFICATION FairSpec
CONSTANTS
  AlignCounts = 17
  Pairs <- Regular
  MaxSent = 9
INVARIANTS TypeOK PositionsAgree
PROPERTIES ImplementsChannel AllReceived
CHECK_DEADLOCK FALSE
