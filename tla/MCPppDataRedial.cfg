SPECIFICATION FairSpec
CONSTANTS
  Owners = {c1}
  Nobody = Nobody
  StreamSize = 2
  FrameSize = 1
  ChunkSize = 1
  MaxSessions = 1
PROPERTIES RedialAnswered
CHECK_DEADLOCK FALSE
