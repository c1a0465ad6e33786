CONSTANTS
    Id = {i1, i2, i3}
    NoId = NoId
    NoWanted = NoWanted
    Wanted <- MCWanted
    Setup <- MCSetup
SPECIFICATION FairSpec
INVARIANTS
    OneLivePurchase
    DeletedMeansDestroyed
PROPERTIES
    NamesakesAreNotEnded
    EventuallySettled
CHECK_DEADLOCK FALSE
