SPECIFICATION PartSpec
CONSTANTS
  Keys = {k1}
  NoKey = NoKey
  Tokens = {t1, t2, t3}
  NoToken = NoToken
  Ttls = {2}
  MaxTime = 6
  MaxEntries = 2
  Handlers = {h1, h2}
  Past = 2
  Future = 1
  Retention = 2
  Stamps = {0, 1, 2}
  Outcomes = {"consumed", "rejected", "released"}
  MaxWork = 1
  Blobs = {b1}
  Users = {u1, u2}
  RelayTtls = {0, 1}
  Slack = 1
  RelayTime = 2
  MaxCount = 2
  Sessions = {"roles", "shared"}
  MaxSkip = 2
  MaxSent = 5
SYMMETRY Perms
INVARIANTS
  OnceWhileRetained
  EmptiesOnce
  SessionSound
CHECK_DEADLOCK FALSE
