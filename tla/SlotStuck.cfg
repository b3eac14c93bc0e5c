\* The comment at scot-slot.cc:76 against the two stores of the reset.
SPECIFICATION FairSpec
CONSTANTS
  t1 = t1
  t2 = t2
  t3 = t3
  NoThread = NoThread
  Threads <- MCTwoThreads
  SlotCount = 2
  Table = FALSE
PROPERTY LastIndexResets
CHECK_DEADLOCK FALSE
