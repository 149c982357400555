SPECIFICATION Spec
CONSTANTS
  Mains = {"b"}
  Mutables = {"a"}
  AutoMode <- OnceBoth
  Creators = {"a"}
  Outsiders = {"b"}
  MaxTid = 2
  MaxUid = 3
  MaxNet = 2
  Wipes = {TRUE, FALSE}
  MaxRestart = 1
INVARIANTS TypeOK IndexesAgree UidsAgree NoRaise
PROPERTIES CredentialsKept
CHECK_DEADLOCK FALSE
