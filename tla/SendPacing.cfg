\* Two messages, each with a send, a resend and a watchdog: six tasks for the
\* lock.  No symmetry: RequestServed is a liveness property.
CONSTANTS
    Msgs = {m1, m2}
    None = None
    Gap = 2
    Quiet = 1
    WatchdogDelay = 1
    Window = 2
    SendTime = 1
SPECIFICATION FairSpec
INVARIANTS TypeOK Exclusive Spaced NoisyNoResend
PROPERTY RequestServed
CHECK_DEADLOCK FALSE
