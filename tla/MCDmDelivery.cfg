\* Two messages, so that cleanup and ACKs of one meet the codes of the other.
CONSTANTS
    Msgs = {m1, m2}
    DM_SEND_MAX_ATTEMPTS = 2
    RetryWait = 1
    AckWindow = 2
    BufferTTL = 0
    MaxHeard = 3
SPECIFICATION Spec
SYMMETRY Symmetry
INVARIANTS
    TypeOK
    
    CountedOncePerCode
CHECK_DEADLOCK FALSE
