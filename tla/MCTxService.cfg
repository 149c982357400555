\* Every way three destinations can be busy, one of them for ever.
CONSTANTS
  d1 = d1
  d2 = d2
  d3 = d3
  Dests <- ThreeDests
  Dead <- OneDead
  Modes = {"all", "once"}
  MaxQueued = 2
SPECIFICATION FairSpec
INVARIANTS TypeOK KeepsOrder NothingLost
PROPERTY EventuallySent
CHECK_DEADLOCK FALSE
