\* Two concurrent threads with one operation each, on a chain of inodes.
CONSTANTS
    Thread = {main, t1, t2}
    Loader = main
    Loads <- ChainLoads
    Byte = {0, 1}
    KeyLen = 2
    Key <- ChainKey
    Cap <- MCCap
    PrefixCap = 1
    MaxNode = 10
    MaxOps = 1
    MaxWord = 24
SPECIFICATION Spec
SYMMETRY Symmetry
INVARIANT
    Linearizable
CHECK_DEADLOCK FALSE
