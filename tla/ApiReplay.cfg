SPECIFICATION Spec
CONSTANTS
  Keys = {k1}
  NoKey = NoKey
  Tokens = {t1, t2, t3}
  NoToken = NoToken
  Ttls = {2}
  MaxTime = 6
  MaxEntries = 2
  Handlers = {h1, h2}
  Past = 2
  Future = 2
  Retention = 2
  Stamps = {0, 1, 2}
  Outcomes = {"consumed"}
  MaxWork = 1
INVARIANTS
  HonouredOnce
CHECK_DEADLOCK FALSE
