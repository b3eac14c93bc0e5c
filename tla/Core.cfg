\* Three nodes start in any interleaving, memcached is empty.
SPECIFICATION CoreFairSpec
CONSTANTS
  QuorumSize = 3
  Leftover <- Fresh
  Watched <- OneReceiver
  MaxEntries = 2
INVARIANTS TypeOK WiringIsMutual WritesReachTheirPeer WithdrawnKeysWereFetched CoreTypeOK NothingInvented NoWorkBeforeReady
PROPERTIES ReceivedUnlessEarly AllBuilt
CHECK_DEADLOCK FALSE
