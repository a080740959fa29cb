CONSTANTS
  t1=t1 t2=t2 t3=t3 None=None
  Tasks={t1,t2,t3} NCpus=2 Affinity<-Anywhere Hooked={t1,t2,t3} Modes={FALSE} MayFail=FALSE DrainInterval=1 StealScan=0
  Masks<-NoMask BlockPhases<-Spinning Exiting={} MaxPushes=0
SPECIFICATION Spec
CHECK_DEADLOCK FALSE
INVARIANTS OneAdmittedPerCpu
SYMMETRY Symmetry
