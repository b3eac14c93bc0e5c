\* The replicator's slots: three threads, two slots per round.
SPECIFICATION FairSpec
CONSTANTS
  t1 = t1
  t2 = t2
  t3 = t3
  NoThread = NoThread
  Threads <- MCThreads
  SlotCount = 2
  Table = TRUE
INVARIANTS TypeOK SlotExclusive HeldIntact NoDanglingEntry CountIsSound Inductive
PROPERTIES RefinesRounds DrainCompletes
CHECK_DEADLOCK FALSE
