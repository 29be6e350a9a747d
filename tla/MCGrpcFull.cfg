CONSTANTS
  Conns = {"c1", "c2"}
  Address <- MCAddress
  Calls = {1}
  Plans <- FullPlans
  Dummy = "h1"
  Missing = {"h2"}
  ReqCap = 1
  SendCap = 1
  StreamCap = 1
  MaxEvents = 1
  Closing = {}
  None = None
SPECIFICATION Spec
PROPERTIES SendFailureRemoves
CHECK_DEADLOCK FALSE
