\* Two concurrent threads with one operation each, on every tree of MCLoads.
CONSTANTS
    Thread = {main, t1, t2}
    Loader = main
    Loads <- MCLoads
    Byte = {0, 1, 2, 3, 4}
    KeyLen = 3
    Key <- MCKey
    Cap <- MCCap
    PrefixCap = 2
    MaxNode = 12
    MaxOps = 1
    MaxWord = 24
SPECIFICATION Spec
SYMMETRY Symmetry
INVARIANTS
    CommitsOnCurrent
    TreeMatchesMap
    RetiredExactly
    SizesKept
    LinearizableUnlessTorn
CHECK_DEADLOCK FALSE
