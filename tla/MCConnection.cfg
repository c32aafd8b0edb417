SPECIFICATION Spec
CONSTANTS
  Users = {a1, a2}
  Managers = {m1, m2}
  Slots = {1}
  MaxKeys = 3
  None = None
SYMMETRY Perms
CONSTRAINT Bounds
INVARIANTS
  KeysAreRegistered
CHECK_DEADLOCK FALSE
