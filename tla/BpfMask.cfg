CONSTANTS
  t1=t1 t2=t2 t3=t3 None=None
  Tasks={t1,t2} NCpus=2 Affinity<-OneBound Hooked={t1,t2} Modes={TRUE,FALSE} MayFail=TRUE DrainInterval=1 StealScan=1
  Masks<-EitherHalf BlockPhases<-InCS Exiting={t1} MaxPushes=2
SPECIFICATION Spec
CHECK_DEADLOCK FALSE
INVARIANTS TypeOK
PROPERTIES SeenStaysOnActive StatsDeliverToActive
