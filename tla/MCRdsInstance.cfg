CONSTANTS
    Id = {i1, i2, i3}
    NoId = NoId
    Wanted <- MCWanted
    NoWanted = NoWanted
    Setup <- MCSetup
    DeleteAttempts = 2
    MaxUpsets = 2
SPECIFICATION FairSpec
INVARIANTS
    OneLivePurchase
    DestroyLeavesNothing
PROPERTIES
    NamesakesUntouched
    NoRepeatedResize
    EventuallySettled
CHECK_DEADLOCK FALSE
