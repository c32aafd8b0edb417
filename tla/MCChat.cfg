SPECIFICATION Spec
CONSTANTS
  People = {u1, u2}
  Things = {x1, x2}
  None = None
  Null = "@null"
  Groups = {"group"}
  Rooms = {"direct", "group"}
  Texts = {"text"}
  ChatOf <- InDirect
  Parties = {u1, u2}
  Members = {u1, u2, "creator", "other"}
  Creator = "creator"
  Dialogs = {x1, x2, "third"}
  Named = {"settings", "contacts"}
  Root = "root"
  MaxKeys = 2
  MaxFlight = 2
  MaxGroupKeys = 3
SYMMETRY Perms
CONSTRAINT Bounds
INVARIANTS
  KnownIsStored
  
  GroupAgrees
  
  
  
  DialogsInOrder
  ChoiceIsKept
PROPERTIES
  StepsNameTheRight
CHECK_DEADLOCK FALSE
