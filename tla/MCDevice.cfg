SPECIFICATION Spec
CONSTANTS
  People = {u1, u2}
  Things = {x1, x2}
  Calls = {c1, c2}
  Uploads = {"backup"}
  Passwords = {"right", "wrong"}
  Self = "self"
  Default = "hermes_default_session_key"
  None = None
  MaxClock = 2
  MaxEdits = 3
  MaxMade = 3
  MaxIndex = 2
  Parts = 2
SYMMETRY Perms
CONSTRAINT Bounds
INVARIANTS
  FlagMeansKey
  StoredAsShown
  RecoveryKept
  VersionsAgree
  
PROPERTIES
  StepsKeepData
CHECK_DEADLOCK FALSE
