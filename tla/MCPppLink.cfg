SPECIFICATION FairSpec
CONSTANTS
  Phones = {p1, p2}
  NoSec = {p1}
  Cids = {c1, c2}
  NoCid = NoCid
  NoPhone = NoPhone
  Pcbs = {b1, b2}
  NULL = NULL
  MboxSize = 1
INVARIANTS TypeOK ClaimMatchesChannel AutoModeDecision PcbOwnership RedialArmed HiddenExactlyWhenConnected
CHECK_DEADLOCK FALSE
PROPERTIES HeldAcceptIsDecided HandlerReturns ShownAgain ImplementsService
