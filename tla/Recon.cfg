CONSTANTS
  o1 = o1
  b1 = b1
  Orders = {o1}
  Positions = {p1}
  Bid <- MCBid
  Qty = {1, 2}
  Brokers = {"given", "resolved", "off"}
  Components <- MCComponents
  Slots = {1}
  Clients = {job}
  MaxMoves = 2
  MaxFaults = 1
  None = None
SPECIFICATION ReconSpec
PROPERTIES CompletedRunIsStored ClosedStaysClosed DangerIsReported 
