\* The comment at scot-log.cc:121: entries of different sizes after the log has wrapped.
SPECIFICATION Spec
CONSTANTS
  AlignCounts = 10
  Pairs <- MixedSizes
  MaxSent = 7
INVARIANT ReaderNotAhead
CHECK_DEADLOCK FALSE
