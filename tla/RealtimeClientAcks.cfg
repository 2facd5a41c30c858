SPECIFICATION Spec
CONSTANTS
  Convs = {"p", "f"}
  Prefix = "p"
  Full = "f"
  Page = 1
  EntryCap = 1
  CacheCap = 1
  MaxMsg = 2
  MaxReqs = 2
  Rude = {2}
  MaxAck = 1
  MaxWire = 1
  MaxMoves = 3
  MaxVisits = 2
  Prompt = TRUE
PROPERTY AckMonotone
CHECK_DEADLOCK FALSE
