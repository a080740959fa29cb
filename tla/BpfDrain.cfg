CONSTANTS
  t1=t1 t2=t2 t3=t3 None=None
  Tasks={t1,t2,t3} NCpus=1 Affinity<-Anywhere Hooked={t1,t2,t3} Modes={FALSE} MayFail=FALSE DrainInterval=2 StealScan=1
  Masks<-NoMask BlockPhases<-Nowhere Exiting={} MaxPushes=0
SPECIFICATION FairSpec
CHECK_DEADLOCK FALSE
PROPERTIES WaiterDrains
