SPECIFICATION PartSpec
CONSTANTS
  b1 = b1
  b2 = b2
  u1 = u1
  Blobs = {b1, b2}
  To <- ToDef
  Users = {u1}
  Ttls = {1}
  Slack = 0
  MaxTime = 2
  MaxCount = 2
  Handlers = {h1, h2}
  Vias = {"http", "ws"}
  Durable = TRUE
  Accounts = {a1, a2}
  MaxEntries = 3
  MaxSent = 2
  Numbers = {1, 2}
  None = None
SYMMETRY Perms
CONSTRAINT Bounds
INVARIANTS
  DeliveryHonest
  NothingForgotten
  StateBeforeUse
PROPERTIES
  ChannelSpec
CHECK_DEADLOCK FALSE
