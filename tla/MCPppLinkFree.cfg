SPECIFICATION Spec
CONSTANTS
  Phones = {p1}
  NoSec = {p1}
  Cids = {c1}
  NoCid = NoCid
  NoPhone = NoPhone
  Pcbs = {b1}
  NULL = NULL
  MboxSize = 1
INVARIANTS FreedInsideClose
CHECK_DEADLOCK FALSE
