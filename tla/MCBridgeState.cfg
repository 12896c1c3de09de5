SPECIFICATION Spec
CONSTANTS
  Ssids = {s1}
  NoSsid = NoSsid
  MaxRetries = 2
  MaxAttempts = 2
  MboxSize = 2
  MaxUpsets = 0
  MaxBegins = 1
  Owners = {c1}
  Nobody = Nobody
INVARIANTS BridgeMeansBridging
CHECK_DEADLOCK FALSE
