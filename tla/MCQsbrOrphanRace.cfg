\* Three threads and one address, the code's four epoch values.
CONSTANTS
    Thread = {t1, t2, t3}
    Ptr = {p1}
    NoPtr = NoPtr
    EpochCount = 4
    CountBits = 2
    Gap = 1
    EpochBits = 2
SPECIFICATION WordSpec
SYMMETRY Symmetry
INVARIANT
    NoUseAfterFree
