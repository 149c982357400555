SPECIFICATION Spec
CONSTANTS
  Mains = {"a", "b"}
  Mutables = {"a", "b"}
  AutoMode <- OnceBoth
  Creators = {"a", "b"}
  Outsiders = {}
  MaxTid = 2
  MaxUid = 3
  MaxNet = 2
  Wipes = {TRUE, FALSE}
  MaxRestart = 0
INVARIANTS IndexesAgree
CHECK_DEADLOCK FALSE
