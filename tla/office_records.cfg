SPECIFICATION Spec
CONSTANTS
  Definitions = {t1, t2, t3}
  Authors = {a1, a2}
  Questions = {q}
  NoTemplate = NoTemplate
  MaxTemplateCalls = 4
  g1 = g1
  g2 = g2
  Orders = {o1, o2}
  Accounts = {g1, g2}
  LineTotal = 4
  SplitLists <- EitherWay
  InvoiceTotals = {2, 4}
  BudgetAmounts = {4, 6}
  Approvers = {f1, f2}
  MaxInvoices = 2
  MaxBudgetCalls = 5
  StepTasks = {v1, v2, v3}
  Required = 2
  Answerers = {n1, n2}
  MaxAnswers = 4
  LayoutVersions = {1, 2}
  Schemas = {y1, y2}
  Admins = {h1, h2}
  Readers = {i1}
  NoSchema = NoSchema
  MaxLayoutCalls = 3
  key1 = key1
  key2 = key2
  name1 = name1
  name2 = name2
  Blank = Blank
  Keys = {key1, key2}
  Texts = {name1, name2}
  Known = {key1, name1, name2}
  Files <- SomeFiles
  StarterFile <- Starter
  ImportKinds = {"categories", "codes", "accounts", "mappings", "policies", "headers", "addresses", "banks", "departments", "cost_centers", "plants"}
  Uploaders = {j1, j2}
  MaxUploads = 3
  MaxTable = 4
  Objects = {r1}
  MetaFields = {p1}
  Values = {w1}
  Picklists = {l1}
  Curators = {c1, c2}
  NoRef = NoRef
  MaxMetaCalls = 4
  GroupNames = {"g"}
  Operands <- FewOperands
  Designers = {d1, d2}
  Flows <- SomeFlows
  MaxFlowSteps = 4
  MaxDesignClicks = 3
  MaxFlowVersions = 3
  Identifiers = {"a"}
  Literals <- NumberTokens
  Calls <- FewCalls
  Unsupported = {"FOO"}
  Nodes = {"supplier", "type", "form"}
SYMMETRY DesignerSymmetry
CHECK_DEADLOCK FALSE
INVARIANTS TypesOK  BudgetsHold EnoughIsNoticed MetadataIsKept ImportsTakeEffect ReadersAgree DesignsAreSound FormulasAreUnderstood
