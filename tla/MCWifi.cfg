SPECIFICATION FairSpec
CONSTANTS
  Ssids = {s1, s2}
  NoSsid = NoSsid
  MaxRetries = 3
  MaxAttempts = 2
  MboxSize = 2
  MaxUpsets = 2
  MaxBegins = 1
  Owners = {}
  Nobody = Nobody
PROPERTIES CycleEnds Settles
CHECK_DEADLOCK FALSE
