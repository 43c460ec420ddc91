SPECIFICATION SceneSpec
CONSTANTS
  duplicate = duplicate
  price = price
  receipt = receipt
  no = no
  Rows = {duplicate, price, receipt, no}
  KindOf <- Kind
  goods = goods
  service = service
  i1 = i1
  i2 = i2
  r1 = r1
  r2 = r2
  r3 = r3
  OrderLines = {goods, service}
  Ordered <- OneEach
  ReceiptLines = {goods}
  FreeLines = {}
  Bills <- SomeBills
  Invoices = {i1, i2}
  MatchRequests = {r1, r2, r3}
  MaxReceived = 1
  Unbilled = Unbilled
  Header = Header
INVARIANTS VetoStands AgreedIsReceived TwinsAreSeen LedgerIsSound
SYMMETRY AnyRequest
CHECK_DEADLOCK FALSE
