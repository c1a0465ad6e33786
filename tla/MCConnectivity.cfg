CONSTANTS
    Ngw = {n1, n2, n3, n4}
    Eip = {e1, e2, e3, e4}
    Snat = {s1, s2, s3, s4}
    None = None
    Foreign = Foreign
    Edits <- MCEdits
    MaxUpsets = 2
SPECIFICATION FairSpec
INVARIANTS
    OneOfEach
    SuccessMeansDone
PROPERTIES
    EgressKept
    ForeignBindingKept
    EventuallySettled
CHECK_DEADLOCK FALSE
