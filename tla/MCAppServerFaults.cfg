\* Two connections; accept(), malloc() and write() may fail and a signal may cut a
\* write() short. Two answers fill the buffer.
CONSTANTS
  FdSetSize = 3
  K = 2
  Epoch = 100
  LongMax = 1000
  Conn = {c1, c2}
  ReqLen = 1
  AnsLen = 2
  BufSize = 4
  MaxReq = 2
  Faults = {"accept", "memory", "epipe", "signal"}
SPECIFICATION Spec
INVARIANTS  LoopEndsOnlyOnFault
SYMMETRY Symmetry
CHECK_DEADLOCK FALSE
