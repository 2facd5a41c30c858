\* One message, one retry: the smallest instance with two ACK codes.
CONSTANTS
    Msgs = {m1}
    DM_SEND_MAX_ATTEMPTS = 2
    RetryWait = 1
    AckWindow = 2
    BufferTTL = 1
    MaxHeard = 2
SPECIFICATION Spec
INVARIANT AckedAtMostOnce
CHECK_DEADLOCK FALSE
