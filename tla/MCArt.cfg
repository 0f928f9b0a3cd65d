\* Every sequence of operations on six keys and every scan of every tree over them;
\* more keys are only looked for.
CONSTANTS
    Byte <- MCByte
    KeyLen = 3
    Key <- MCKey
    Stored <- MCStored
    Cap <- MCCap
    PrefixCap = 2
    v1 = v1
    v2 = v2
    Value = {v1, v2}
    NotFound = NotFound
    t1 = t1
    t2 = t2
    Thread = {t1, t2}
    NoThread = NoThread
    KeyView = FALSE
SPECIFICATION MutexSpec
SYMMETRY Alike
INVARIANTS
    Canonical
    CountsMatchTree
    ScanIsRun
    ScanExact
    ViewKept
PROPERTY
    DictionarySpec
