\* Two keys in one bucket, three writers under fair scheduling.
SPECIFICATION FairSpec
CONSTANTS
  c1 = c1
  c2 = c2
  c3 = c3
  c4 = c4
  ListHead = ListHead
  NoCell = NoCell
  Cells <- ThreeCells
  Hash <- LowKeys3
INVARIANTS TypeOK ListSorted
PROPERTIES InsertCompletes WriteCompletes
CHECK_DEADLOCK FALSE
