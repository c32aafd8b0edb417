SPECIFICATION PartSpec
CONSTANTS
  s1 = s1
  s2 = s2
  s3 = s3
  s4 = s4
  u1 = u1
  Sockets = {s1, s2}
  Users = {u1}
  Owner <- OwnerDef
  Fanouts = {f1}
  MaxConnections = 2
  User = "user"
  Callers = {"app", "login"}
  Msgs = {m1, m2}
  Loops = {l1}
  MaxEntries = 1
  Managers = {"manager"}
  Slots = {1}
  MaxKeys = 3
  MaxTexts = 2
  None = None
INVARIANTS
  TypeOK
  RegistrationsMatch
  OnlyVerified
  BothSidesAgree
PROPERTIES
  HandshakeEnds
  TicksOnlyRise
  
  OutboxDrains
  SyncRecovers
CHECK_DEADLOCK FALSE
