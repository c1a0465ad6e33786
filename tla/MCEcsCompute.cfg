CONSTANTS
    Vm = {i1, i2, i3, i4}
    Disk = {d1, d2, d3, d4}
    None = None
    Group = {"web", "db"}
    groupsOf <- MCGroupsOf
    Edits <- MCEdits
    MaxUpsets = 2
SPECIFICATION FairSpec
INVARIANTS
    OneMachine
    NeverWithoutGroup
    SuccessMeansDone
PROPERTIES
    DiskOutlivesMachine
    EventuallySettled
CHECK_DEADLOCK FALSE
