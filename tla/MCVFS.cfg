CHECK_DEADLOCK FALSE
CONSTANTS
  Addr = {a1, a2}
  Fd = {3, 4, 5, 6}
  NoFd = NoFd
  MaxSessions = 3
  MaxFiles = 2
SYMMETRY Symmetry
SPECIFICATION Spec
INVARIANTS RecordedIsOpen  OpenIsRecorded 
