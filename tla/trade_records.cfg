SPECIFICATION Spec
CONSTANTS
  Suppliers = {s1, s2, s3}
  Clerks = {c1, c2}
  NoSupplier = NoSupplier
  MaxDepth = 3
  MaxHierarchyCalls = 4
  Records = {r1, r2, r3}
  Contracts = {k1}
  Stewards = {u1, u2}
  NoRecord = NoRecord
  MaxRecordCalls = 4
  b1 = b1
  b2 = b2
  b3 = b3
  x1 = x1
  x2 = x2
  Bids = {b1, b2, b3}
  Bidders = {x1, x2}
  BidderOf <- TwoOfOneBidder
  Buyers = {p1, p2}
  NoBid = NoBid
  NoBidder = NoBidder
  EventStates = {"draft"}
  MaxSourcingCalls = 5
  Managers = {m1, m2}
  Dates = {d1, d2}
  NoDate = NoDate
  MaxContractCalls = 3
  Entries = {e1, e2, e3}
  Editors = {w1, w2}
  MaxFlagCalls = 6
  Items = {i1, i2}
  TwoWay = {i2}
  Prices = {price1}
  Vendors = {v1, v2}
  Terms = {t1}
  Requesters = {q1, q2}
  Unlinked = Unlinked
  MaxQuantity = 2
  TypedLines <- SomeTyped
  MaxOrders = 2
  MaxOrderLines = 2
  MaxChangeCalls = 4
  Rated = {s1, s2}
  SomeFacts <- FewFacts
  Targets = {"preferred", "approved"}
  Scorers = {z1, z2}
  Unknown = Unknown
  NoRow = NoRow
  MaxReviews = 2
  MaxStatusCalls = 4
  RowChoices <- SomeRows
  Catalog <- SomeItems
  CopySources <- SomeCopies
  Sellers = {y1, y2}
  Sound = {y1}
  None = None
  MaxRows = 2
  MaxClicks = 6
  Codes = {core, tax}
  Questions = {"q1", "q2"}
  Replies = {"a1", "a2"}
  Contents <- SomeContents
  Officers = {o1, o2}
  NoBook = NoBook
  MaxBookCalls = 6
  Questionnaires <- SomeForms
  Words = {3, 4}
  Figures = {4, 6}
  LegacyChecks = {"check"}
  NoForm = NoForm
  MaxRequests = 2
  MaxFills = 3
  Templates = {f1, f2}
  FieldKeys = {"k1", "k2"}
  FirstDraft <- OneQuestion
  NoDraft = NoDraft
  MaxSections = 2
  MaxEdits = 2
  MaxPageCalls = 3
CHECK_DEADLOCK FALSE
SYMMETRY Alike
INVARIANTS TypesOK SuppliersAreSound MergesEndInASurvivor DealsAreSound ReapprovalSettles StatusHasItsReason EntryIsSound ImportsAreSoundAndFair SubmittedAsShown FormsAreFaithful
PROPERTIES RenewalsFormAChain
