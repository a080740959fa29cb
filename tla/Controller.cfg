CONSTANTS
  Threads = {t1, t2}
  None = None
  Configs <- MCConfigs
  Targets <- MCTargets
  Registered <- MCRegistered
  Window = 1
  MaxTime = 3
  MaxSamples = 2
SPECIFICATION FairSpec
INVARIANTS TypeOK CountWithinBounds CountIsPushed SamplesAccounted
PROPERTIES ImplementsBudget CallsEnd
CHECK_DEADLOCK FALSE
