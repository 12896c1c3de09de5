SPECIFICATION Spec
CONSTANTS
  Ssids = {s1}
  NoSsid = NoSsid
  MaxRetries = 2
  MaxAttempts = 2
  MboxSize = 2
  MaxUpsets = 1
  MaxBegins = 1
  Owners = {c1}
  Nobody = Nobody
INVARIANTS CycleNeverStuck
CHECK_DEADLOCK FALSE
