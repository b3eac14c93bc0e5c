\* Three nodes, one key, two proposals by any of three threads; two links may break.
SPECIFICATION FairSpec
CONSTANTS
  a = a
  b = b
  c = c
  k1 = k1
  Nobody = Nobody
  NodeCount = 3
  Threads <- MCThreads
  NodeOf <- MCNodeOf
  Keys <- OneKey
  Rules <- TwoRules
  MaxProposals = 2
  Fragile <- OneEach
INVARIANTS TypeOK ThreadOrder ReturnedIsDelivered WaitIsCurrent
PROPERTIES ImplementsHistories EveryProposalSpreads
CHECK_DEADLOCK FALSE
