CONSTANTS
    Ngw = {n1, n2, n3, n4}
    Eip = {e1, e2, e3, e4}
    Snat = {s1, s2, s3, s4}
    None = None
    Foreign = Foreign
    Edits <- MCBilling
    MaxUpsets = 1
SPECIFICATION FairSpec
PROPERTY ReplacementEnds
CHECK_DEADLOCK FALSE
