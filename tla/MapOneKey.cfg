\* Four writers of one key: the versions of the key and their log.
SPECIFICATION Spec
CONSTANTS
  c1 = c1
  c2 = c2
  c3 = c3
  c4 = c4
  ListHead = ListHead
  NoCell = NoCell
  Cells <- FourCells
  Hash <- OneKey4
SYMMETRY OneKeySymmetry
INVARIANTS LogNeverStale LogCovers ChainIsHistory
PROPERTY ImplementsVersionMap
CHECK_DEADLOCK FALSE
