CONSTANTS
  c1 = c1
  c2 = c2
  Clients = {c1}
  Mqtt = Mqtt
  MaxOrders = 3
  Quantity <- MCQuantity
  Suspect = {2}
  MaxReports = 5
SPECIFICATION Spec
CHECK_DEADLOCK FALSE
INVARIANTS ProtocolTypeOK FirstComeFirst PublishedIsCommitted CountIsProduced NoReportVanishes StationDoneMesDone
PROPERTIES ImplementsOrderBook 
