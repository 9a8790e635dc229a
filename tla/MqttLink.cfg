CONSTANTS
  QSIZE = 1
  HQSIZE = 1
  TX_SIZE = 1
  REATTACH_FAILS = 2
  FAILS_MAX = 2
SPECIFICATION FairSpec
INVARIANTS
  SubscriptionAsked
  OneClose
PROPERTIES
  HandshakeSettles
  ErrorIsLeft
