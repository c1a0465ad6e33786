CONSTANTS
    Creating = Creating
    Running = Running
    Value <- MCValue
    Absent = Absent
    Pending = Pending
    Attempts = 3
    Retries = 1
    a = a
    b = b
    c = c
    d = d
    e = e
    Item <- MCItem
    PageSize = 2
    MaxPages = 3
    MaxChanges = 2
    g1 = g1
    g2 = g2
    g3 = g3
    generated <- MCGenerated
    Id = {i1, i2, i3}
    NoId = NoId
    NoName = NoName
    NameChoice <- MCName
    Part = {"address", "option"}
    Choice = {v1, v2}
    Kind <- GuardedKinds
    MaxGenerations = 3
SPECIFICATION LifecycleSpec
INVARIANTS
    EndsEarlyOnlyForCause
    LossIsBounded
    ReplacementSurvives
    NoGenerationLeftBehind
PROPERTIES
    LoopsEnd
    ImplementsContract
CHECK_DEADLOCK FALSE
