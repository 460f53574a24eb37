\* Timers: two of them over two functions that are never cancelled, one
\* descriptor that wakes the loop at any moment.
CONSTANTS
  FdSetSize = 1
  K = 3
  Epoch = 100
  LongMax = 1000
  Func = {f, g}
  Cancellable = {}
  Initial <- Mixed
  MaxIO = 1
  MaxTimers = 2
  MaxLoop = 1
  MaxWait = 2
SPECIFICATION FairSpec
INVARIANTS SelectArgumentValid 
PROPERTIES TimerServed 
