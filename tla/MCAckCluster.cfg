CONSTANTS
    Cid = {c1, c2, c3}
    Pid = {p1, p2, p3, p4}
    None = None
    Edits <- MCEdits
    MaxUpsets = 3
SPECIFICATION FairSpec
INVARIANTS
    OneCluster
    SuccessMeansDone
PROPERTIES
    ClusterOutlivesChildren
    EventuallySettled
CHECK_DEADLOCK FALSE
