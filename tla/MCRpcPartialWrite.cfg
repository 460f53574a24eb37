\* One client whose write() is cut short by a signal.
CONSTANTS
  FdSetSize = 3
  K = 2
  Epoch = 100
  LongMax = 1000
  Conn = {c1}
  ReqLen = 3
  AnsLen = 1
  BufSize = 4
  MaxReq = 1
  Faults = {}
  ClientFaults = {"signal"}
SPECIFICATION ClientSpec
INVARIANT BufferIsRestOfRequest
CHECK_DEADLOCK FALSE
