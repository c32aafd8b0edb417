SPECIFICATION Spec
CONSTANTS
  Sessions = {"roles", "shared"}
  MaxSkip = 2
  MaxSent = 3
INVARIANTS
  AnyOrder
CHECK_DEADLOCK FALSE
