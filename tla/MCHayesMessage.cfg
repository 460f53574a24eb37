CHECK_DEADLOCK FALSE
CONSTANTS
  MaxPlain = 1
  MaxLists = 1
  MaxEvents = 1
  MaxLate = 1
  MaxData = 0
  UserKinds = {"dial"}
  Faults = {}
SPECIFICATION Spec
INVARIANTS NoMessageLost
