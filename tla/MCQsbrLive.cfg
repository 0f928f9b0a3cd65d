\* Two threads, one of them the main thread, one address, four epoch values.
CONSTANTS
    Thread = {t1, t2}
    Main = t1
    Ptr = {p1}
    NoPtr = NoPtr
    EpochCount = 4
SPECIFICATION LiveSpec
PROPERTIES
    Reclaimed
    RegistrationEnds
