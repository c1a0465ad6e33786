SPECIFICATION ReplaceSpec
CONSTANTS
    g1 = g1
    g2 = g2
    g3 = g3
    a = a
    b = b
    generated <- MCGenerated
    Id = {i1, i2, i3}
    NoId = NoId
    NoName = NoName
    NameChoice <- MCName
    Part = {"address", "option"}
    Choice = {v1, v2}
    Kind <- BareOnly
    MaxGenerations = 3
CHECK_DEADLOCK FALSE
INVARIANT
    ReplacementSurvives
