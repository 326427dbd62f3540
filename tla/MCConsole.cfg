SPECIFICATION ConsoleSpec
INVARIANTS
    LegsStayHeld
    OwnerIsKept
PROPERTIES
    LockIsCausal
    NothingIsStuck
CHECK_DEADLOCK FALSE
