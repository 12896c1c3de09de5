SPECIFICATION FairSpec
CONSTANTS
  Owners = {c1, c2}
  Nobody = Nobody
  StreamSize = 3
  FrameSize = 2
  ChunkSize = 2
  MaxSessions = 3
INVARIANTS TypeOK SentInOwnSession WakeupChain
PROPERTIES ScriptAnswered
CHECK_DEADLOCK FALSE
