CONSTANTS
  Gates = {g1}
  MaxFlows = 2
  MaxEdits = 1
  MaxOrders = 2
  LowValues = {TRUE, FALSE}
  Definitions = {TRUE, FALSE}
  Delays = {"none", "future"}
  Offered <- PagesAndAny
SPECIFICATION FairSpec
INVARIANTS EngineDecides OrdersAreSound
PROPERTIES ApprovedIsOrdered
