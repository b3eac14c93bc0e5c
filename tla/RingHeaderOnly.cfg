\* The comment at scot-log.cc:121: header-only entries after the log has wrapped.
SPECIFICATION Spec
CONSTANTS
  AlignCounts = 10
  Pairs <- HeaderOnly
  MaxSent = 7
INVARIANT ReaderNotAhead
CHECK_DEADLOCK FALSE
