\* A watchdog resend between two paced sends: which echo releases the second one?
CONSTANTS
    Msgs = {m1, m2}
    None = None
    Gap = 1
    Quiet = 1
    WatchdogDelay = 2
    Window = 3
    SendTime = 1
SPECIFICATION Spec
INVARIANT EchoIsPrevious
CHECK_DEADLOCK FALSE
