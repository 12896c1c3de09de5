SPECIFICATION Spec
CONSTANTS
  Phones = {p1, p2}
  NoPhone = NoPhone
  BOOTSTRAP_MAX_DONE = 1
  NUM_TARGET_CLASSES = 2
  MaxPairings = 3
  MaxSessions = 2
  RingSize = 8
  Lengths = {1, 3}
  MaxPackets = 0
  BM_MAX = 3
  Inputs <- MCInputs
  MaxBmOps = 0
  MaxBmFaults = 2
  Names = {"n1"}
  Flags = {"hci"}
  Proxies <- MCProxies
  MaxChanges = 0
  MaxBoots = 1
  MaxNvsFaults = 1
  DnsNames = {"n1", "n2"}
  AddressNames = {"n1"}
  DNS_CACHE_SIZE = 1
  DNS_WATCHDOG_TICKS = 2
  MaxQueries = 0
  MaxHangs = 0
  MaxTasks = 2
CHECK_DEADLOCK FALSE
PROPERTY OwnSessionKept
