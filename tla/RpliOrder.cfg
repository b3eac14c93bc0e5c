\* Two threads, two keys, two peers; two rounds of two slots; buffers are reused.
SPECIFICATION FairSpec
CONSTANTS
  t1 = t1
  t2 = t2
  k1 = k1
  k2 = k2
  Nobody = Nobody
  Threads <- MCThreads
  Keys <- MCKeys
  Kinds <- Pure
  PeerCount = 2
  SlotCount = 2
  SharedBuffer = TRUE
  MaxRequests = 4
INVARIANTS TypeOK LogNeverStale ReturnedIsReplicated
PROPERTIES ImplementsReplicatedLog CallsReturn
CHECK_DEADLOCK FALSE
