SPECIFICATION Spec
CONSTANTS
    Threads = {t1, t2, t3}
    Locks = {1, 2}
    None = None
    AdmissionEnabled = TRUE
    MaxHeld = 2
SYMMETRY ThreadSymmetry
INVARIANTS TypeOK MutualExclusion QueueShape
PROPERTIES FifoSlowPath ImplementsMutex
