CONSTANTS
    Stacks <- MCStacks
    None = None
    MaxUpsets = 2
SPECIFICATION FairSpec
INVARIANTS
    SuccessMeansDone
PROPERTIES
    OthersKept
    AccessKept
    EventuallySettled
CHECK_DEADLOCK FALSE
