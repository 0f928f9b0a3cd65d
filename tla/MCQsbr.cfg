\* Three threads, the most two bits count, one address and three epoch values
\* (four in the code: the other runs).
CONSTANTS
    Thread = {t1, t2, t3}
    Ptr = {p1}
    NoPtr = NoPtr
    EpochCount = 3
    CountBits = 2
    Gap = 1
    EpochBits = 2
SPECIFICATION WordSpec
SYMMETRY Symmetry
INVARIANTS
    TypeOK
    CountsExact
    OneEpochChanger
    EpochsWithinOne
    GracePeriod
    QueuedOnce
    WordIsState
    SafeWhileOrderly
PROPERTY
    OwnRequestsSafe
