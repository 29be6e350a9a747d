CONSTANTS
  Conns = {"c1"}
  Address <- MCAddress
  Calls = {1, 2}
  Plans <- MCPlans
  Dummy = "h1"
  Missing = {"h2"}
  ReqCap = 1
  SendCap = 4
  StreamCap = 1
  MaxEvents = 1
  Closing = {"c1"}
  None = None
SPECIFICATION Spec
INVARIANTS AnswersFit
CHECK_DEADLOCK FALSE
PROPERTIES CallsReturn ConnectionsEnd
