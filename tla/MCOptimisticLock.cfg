CONSTANTS
    Thread = {t1, t2}
    NoThread = NoThread
    Field = {left, right}
    Value = {v1, v2}
    Unread = Unread
    MaxWrites = 2
    WordSize <- MCWordSize

SPECIFICATION FairSpec
INVARIANTS OneWriter ReadsAreSnapshot ReadLockCountExact
PROPERTIES ObsoleteOnce ImplementsProtectedData ReadLockReturns
