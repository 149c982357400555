\* Safety of the message transaction: bursts of two, one number in a
\* resend request, a path that holds two packets.
CONSTANTS
  long = long
  short = short
  Msgs <- TwoMsgs
  BodyOf <- TwoBodies
  SegCount <- SegsOf
  Burst = 2
  Chunk = 1
  Timed <- LongOnly
  MaxNet = 2
  Unallowable <- Both
  Brief <- LongOnly
SPECIFICATION Spec
INVARIANTS TypeOK AtMostOnce RejectedWasDelivered NackMeansGone RedoAsks LowestIsReceived PacketsFit
PROPERTY ImplementsDelivery
CHECK_DEADLOCK FALSE
