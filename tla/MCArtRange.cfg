\* Ranges of keys of type key_view.
CONSTANTS
    Byte <- MCByte
    KeyLen = 3
    Key <- MCKey
    Stored <- MCStored
    Cap <- MCCap
    PrefixCap = 2
    v1 = v1
    v2 = v2
    Value = {v1}
    NotFound = NotFound
    t1 = t1
    t2 = t2
    Thread = {t1, t2}
    NoThread = NoThread
    KeyView = TRUE
SPECIFICATION MutexSpec
INVARIANT
    RangeIsVisited
