CONSTANTS
  Scopes <- Activities
  MaxFaults = 1
  Postings = {1, 2}
  RouteOf <- Routes
  Threshold = 1
  MaxScore = 1
  PerRun = 1
  QueueCap = 1
  Fronts = {"telegram"}
  MaxTaps = 2
SPECIFICATION Spec
CHECK_DEADLOCK FALSE
INVARIANT ClosedStaysClosed
 
PROPERTY PendingSettles
 
