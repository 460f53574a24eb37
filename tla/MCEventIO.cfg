\* Descriptors: two of them, every interleaving of callbacks over arrays of two
\* entries, no timer but one.
CONSTANTS
  FdSetSize = 2
  K = 2
  Epoch = 100
  LongMax = 1000
  Func = {f}
  Cancellable = {f}
  Initial <- OneSecond
  MaxIO = 2
  MaxTimers = 1
  MaxLoop = 2
  MaxWait = 1
SPECIFICATION Spec
INVARIANTS FdSetsMatch TimersKeepLoopAlive
PROPERTY ReturnsOnlyWhenIdle
