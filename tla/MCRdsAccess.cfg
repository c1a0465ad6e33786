CONSTANTS
    Op = {full, plain}
    Full = {full}
    Peer = {p1, p2, p3}
    None = None
    Foreign = Foreign
    MaxUpsets = 1
    Laptop = {office, home}
    Loopback = Loopback
    NoGroup = NoGroup
    MaxCommands = 3
SPECIFICATION RdsAccessSpec
INVARIANTS
    AppliedMeansOnboarded
    ReportHolds
PROPERTIES
    NothingShadowed
    EventuallySettled
CHECK_DEADLOCK FALSE
