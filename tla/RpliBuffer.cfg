\* The reuse of the proposer's buffer in mt-test.cc:92, two threads that propose one key.
SPECIFICATION Spec
CONSTANTS
  t1 = t1
  t2 = t2
  k1 = k1
  k2 = k2
  Nobody = Nobody
  Threads <- MCThreads
  Keys <- OneKey
  Kinds <- Pure
  PeerCount = 1
  SlotCount = 2
  SharedBuffer = TRUE
  MaxRequests = 3
INVARIANT PayloadIntact
CHECK_DEADLOCK FALSE
