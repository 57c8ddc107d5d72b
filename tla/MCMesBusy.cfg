CONSTANTS
  c1 = c1
  c2 = c2
  Clients = {c1}
  Mqtt = Mqtt
  MaxOrders = 2
  Quantity <- MCQuantity
  Suspect = {}
  MaxReports = 8
SPECIFICATION Spec
CHECK_DEADLOCK FALSE
INVARIANT RefusedOnlyIfInvalid
