\* Liveness of one message of three segments over a path that loses packets.
CONSTANTS
  long = long
  short = short
  Msgs <- LongOnly
  BodyOf <- TwoBodies
  SegCount <- SegsOf
  Burst = 2
  Chunk = 2
  Timed <- LongOnly
  Brief <- LongOnly
  MaxNet = 26
  Unallowable <- TxOnly
SPECIFICATION FairSpec
PROPERTIES EveryMessageEnds NoOrphan EventuallyDelivered
CHECK_DEADLOCK FALSE
