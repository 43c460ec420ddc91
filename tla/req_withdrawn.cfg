CONSTANTS
  Gates = {g1, g2}
  MaxFlows = 1
  MaxEdits = 1
  MaxOrders = 2
  LowValues = {FALSE}
  Definitions = {TRUE, FALSE}
  Delays = {"none", "future"}
  Offered <- PagesAndWithdrawals
SPECIFICATION Spec
PROPERTIES CancelledIsFinal
