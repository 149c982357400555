SPECIFICATION FairSpec
CONSTANTS
  Mains = {"b"}
  MaxTid = 1
  MaxFault = 1
PROPERTIES Recovers DeadIsReaped
CHECK_DEADLOCK FALSE
