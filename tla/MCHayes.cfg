CHECK_DEADLOCK FALSE
CONSTANTS
  MaxPlain = 1
  MaxLists = 2
  MaxEvents = 2
  MaxLate = 1
  MaxData = 1
  UserKinds = {"dial"}
  Faults = {"open", "line", "late", "carrier", "sim"}
SPECIFICATION FairSpec
INVARIANTS QueueAtWork InStepUnlessStrayed NothingOutlivesStop Armed ConnectionReported
  DataCallUndisturbed
PROPERTIES Settles
