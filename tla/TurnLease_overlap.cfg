SPECIFICATION FairSpec
CONSTANTS
    a1 = a1
    a2 = a2
    b1 = b1
    a = a
    b = b
    s1 = s1
    s2 = s2
    None = None
    Turns <- ThreeTurns
    Keys <- TwoKeys
    KeyOf <- ThreeTurnsOf
    Sessions <- TwoSessions
    MaxEntries = 1
    MaxEvictions = 1
INVARIANTS
    LeaseIsGivenBack
    OneWriterPerTranscript
PROPERTIES
    ImplementsOneHolder
    WaiterIsServed
CHECK_DEADLOCK FALSE
