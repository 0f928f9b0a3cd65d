\* A scan and a thread with one operation, on every tree of MCLoads.
CONSTANTS
    Thread = {main, t1, sc}
    Loader = main
    Scanner = sc
    Loads <- MCLoads
    Byte = {0, 1, 2, 3}
    KeyLen = 3
    Key <- MCKey
    Cap <- MCCap
    PrefixCap = 2
    MaxNode = 12
    MaxOps = 1
    MaxWord = 24
SPECIFICATION ItSpec
INVARIANTS
    LandsOnBound
    SkipsNothingSteady
    StackIsCurrent
CHECK_DEADLOCK FALSE
