SPECIFICATION Spec
CONSTANTS
    Threads = {t1, t2, t3}
    Locks = {1, 2}
    None = None
    LOCKED_EMPTY = LOCKED_EMPTY
    MaxHeld = 2
    MaxNodes = 2
SYMMETRY ThreadSymmetry
INVARIANTS NodesAccounted GrantedInOrder AssertionsHold OneAdmitted BoundedBypass
PROPERTIES ImplementsMutex
