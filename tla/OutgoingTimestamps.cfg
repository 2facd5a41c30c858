\* Three requests of one text in two seconds.
CONSTANTS
    Sends = {s1, s2, s3}
    NoSend = NoSend
    MaxNow = 1
SPECIFICATION FairStampSpec
INVARIANTS
    StampTypeOK
    RowsDistinct
    ReservedByOne
PROPERTIES
    StampsUnique
    SendEnds
CHECK_DEADLOCK FALSE
