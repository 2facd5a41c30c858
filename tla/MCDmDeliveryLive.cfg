\* One message with the code's three attempts.
CONSTANTS
    Msgs = {m1}
    DM_SEND_MAX_ATTEMPTS = 3
    RetryWait = 1
    AckWindow = 2
    BufferTTL = 1
    MaxHeard = 3
SPECIFICATION FairSpec
PROPERTIES
    PendingDrains
    RetryEnds
    
CHECK_DEADLOCK FALSE
