\* Two clients of two calls each that share one descriptor of the server; the
\* server may die, calls may time out and the programs go on calling.
CONSTANTS
  FdSetSize = 2
  K = 2
  Epoch = 100
  LongMax = 1000
  Conn = {c1, c2}
  ReqLen = 1
  AnsLen = 1
  BufSize = 2
  MaxReq = 2
  Faults = {"accept", "crash", "epipe"}
  ClientFaults = {"timeout"}
SPECIFICATION ClientFairSpec
INVARIANTS  StoredAnswerIsOurs
PROPERTY EveryCallReturns
CHECK_DEADLOCK FALSE
