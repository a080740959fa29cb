CONSTANTS
  t1=t1 t2=t2 t3=t3 None=None
  Tasks={t1,t2,t3} NCpus=2 Affinity<-Anywhere Hooked={t1,t2} Modes={FALSE} MayFail=FALSE DrainInterval=1 StealScan=1
  Masks<-NoMask BlockPhases<-Spinning Exiting={t1,t2} MaxPushes=0
SPECIFICATION OwnershipSpec
CHECK_DEADLOCK FALSE
INVARIANTS CriticalStaysLocal OwnerBacked 
