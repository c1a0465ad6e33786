CONSTANTS
    blue = blue
    green = green
    Fiber <- MCFiber
    Name = {"web"}
    Vpc = {"vpc"}
    nameOf <- MCNameOf
    vpcOf <- MCVpcOf
    Id = {s1, s2, s3}
    NoId = NoId
    NoFiber = NoFiber
    LateRequests = TRUE
    DeleteAttempts = 2
    MaxUpsets = 2
SPECIFICATION FairSpec
INVARIANTS
    NoRefusedCreate
    OnePerName
PROPERTIES
    EventuallySettled
CHECK_DEADLOCK FALSE
