SPECIFICATION FairSpec
CONSTANTS
  Mains = {"b"}
  MaxTid = 1
  MaxFault = 2

PROPERTIES DeadIsNoticed
CHECK_DEADLOCK FALSE
