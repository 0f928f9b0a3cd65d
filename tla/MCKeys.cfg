\* Two encoders, two fields between construction and destruction.
CONSTANTS
    ByteBits = 2
    SizeBytes = 2
    INITIAL_BUFFER_CAPACITY = 4
    MantissaBits = 1
    Encoder = {e1, e2}
    Width = {1, 2}
    Sample <- MCSample
    FloatBytes = 2
    Text <- MCText
    Raw <- MCRaw
    MaxCalls = 2
    WordBytes = 4
SPECIFICATION Spec
SYMMETRY Symmetry
INVARIANTS
    PlainOrderPreserved
    
    RoundTrip
    BufferOwned
    PrefixWordExact
