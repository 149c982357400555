SPECIFICATION Spec
CONSTANTS
  Names = {n1, n2}
  Roles = {r1}
  Keys = {k1, k2}
  Autos = {"never", "once", "always"}
  Mutable = TRUE
  NoFile = NoFile
  Torn = Torn
  MaxUid = 3
  MaxCrash = 2
INVARIANTS TypeOK RaisedOnlyIfTorn NoGhostFile JoinedPersisted
PROPERTIES KeysKept RejectionSticks
