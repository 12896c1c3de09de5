SPECIFICATION Spec
CONSTANTS
  Ports = {1, 2, 3}
  Dialled <- MCDialled
  FlowMax = 2
  SessMax = 1
  MaxDials = 3
  UP_SZ = 2
  DOWN_SZ = 3
  Requests <- MCRequests
  Body <- MCBody
  Answers <- MCAnswers
  Base = 4
CHECK_DEADLOCK FALSE
INVARIANTS OneFlowPerPort FlowServesConnection SessionKnowsItsSite RelayedInOrder ChecksumsStayRight
PROPERTIES ClosedOnlyForWant BacklogServed SessionEnds
