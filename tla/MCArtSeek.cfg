\* Scans from any key, dead ends of seek included.
CONSTANTS
    Byte <- MCByte
    KeyLen = 3
    Key <- MCKey
    Stored <- MCStored
    Cap <- MCCap
    PrefixCap = 2
    v1 = v1
    v2 = v2
    Value = {v1}
    NotFound = NotFound
    t1 = t1
    t2 = t2
    Thread = {t1, t2}
    NoThread = NoThread
    KeyView = FALSE
SPECIFICATION MutexSpec
INVARIANT
    SeekFindsBound
