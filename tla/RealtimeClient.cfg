SPECIFICATION Spec
CONSTANTS
  Convs = {"p", "f"}
  Prefix = "p"
  Full = "f"
  Page = 1
  EntryCap = 1
  CacheCap = 1
  MaxMsg = 2
  MaxReqs = 2
  Rude = {2}
  MaxAck = 1
  MaxWire = 1
  MaxMoves = 2
  MaxVisits = 3
  Prompt = TRUE
INVARIANTS TypeOK   NoStuckSpinner  SendsInOrder
CHECK_DEADLOCK FALSE
