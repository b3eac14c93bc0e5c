\* The assertion of scot-rpli.cc:39 with two keys in one bucket.
SPECIFICATION Spec
CONSTANTS
  c1 = c1
  c2 = c2
  c3 = c3
  c4 = c4
  ListHead = ListHead
  NoCell = NoCell
  Cells <- ThreeCells
  Hash <- LowKeys3
INVARIANT NoAssertFailure
CHECK_DEADLOCK FALSE
