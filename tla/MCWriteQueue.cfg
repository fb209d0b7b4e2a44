SPECIFICATION FairSpec
CONSTANTS
  Senders = {s1, s2}
  Capacity = 2
  MaxMessages = 3
INVARIANTS
  FifoDelivery
  NothingLost
PROPERTIES
  NoZombie
CHECK_DEADLOCK FALSE
