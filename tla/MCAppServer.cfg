CONSTANTS
  FdSetSize = 3
  K = 2
  Epoch = 100
  LongMax = 1000
  Conn = {c1, c2, c3}
  ReqLen = 2
  AnsLen = 2
  BufSize = 3
  MaxReq = 2
  Faults = {}
SPECIFICATION Spec
INVARIANTS  CallbacksPrepared WriteArmed NeverBlocks AnswersInOrder
SYMMETRY Symmetry
CHECK_DEADLOCK FALSE
