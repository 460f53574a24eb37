CHECK_DEADLOCK FALSE
CONSTANTS
  Start <- MCStart
  Configs <- MCConfigs
  Fd = {3, 4, 5}
  Pid = {1, 2}
  FlagSets = {{}, {"NOCLDWAIT", "RESETHAND"}}
  MaxHups = 2
  MaxWork = 1
SPECIFICATION FairSpec
INVARIANTS RfdsMatch ServicesMatch ChildrenAccounted WaitExclusive 
PROPERTIES Served ComesBack
