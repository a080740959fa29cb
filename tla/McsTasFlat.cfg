SPECIFICATION FairSpec
CONSTANTS
    Threads = {t1, t2, t3}
    Locks = {1}
    None = None
    AdmissionEnabled = TRUE
    MaxHeld = 1
INVARIANTS WordTellsCriticalSection
PROPERTIES DeadlockFree
