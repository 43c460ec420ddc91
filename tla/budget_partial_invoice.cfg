SPECIFICATION Spec
CONSTANTS
  Definitions = {t1}
  Authors = {a1}
  Questions = {q}
  NoTemplate = NoTemplate
  MaxTemplateCalls = 0
  g1 = g1
  g2 = g2
  Orders = {o1}
  Accounts = {g1, g2}
  LineTotal = 4
  SplitLists <- ByAmount
  InvoiceTotals = {2}
  BudgetAmounts = {6}
  Approvers = {f1}
  MaxInvoices = 2
  MaxBudgetCalls = 5
  StepTasks = {v1, v2}
  Required = 2
  Answerers = {n1}
  MaxAnswers = 0
  LayoutVersions = {1}
  Schemas = {y1}
  Admins = {h1}
  Readers = {i1}
  NoSchema = NoSchema
  MaxLayoutCalls = 0
  key1 = key1
  key2 = key2
  name1 = name1
  name2 = name2
  Blank = Blank
  Keys = {key1, key2}
  Texts = {name1, name2}
  Known = {key1, name1, name2}
  Files <- SomeFiles
  StarterFile <- Starter
  ImportKinds = {"categories", "codes", "accounts", "mappings", "policies", "headers", "addresses", "banks", "departments", "cost_centers", "plants"}
  Uploaders = {j1, j2}
  MaxUploads = 4
  MaxTable = 4
  Objects = {r1}
  MetaFields = {p1}
  Values = {w1}
  Picklists = {l1}
  Curators = {c1, c2}
  NoRef = NoRef
  MaxMetaCalls = 4
  GroupNames = {"g"}
  Operands <- FewOperands
  Designers = {d1, d2}
  Flows <- OneFlow
  MaxFlowSteps = 4
  MaxDesignClicks = 3
  MaxFlowVersions = 3
  Identifiers = {"a"}
  Literals <- NumberTokens
  Calls <- FewCalls
  Unsupported = {"FOO"}
  Nodes = {"supplier", "type", "form"}
CHECK_DEADLOCK FALSE
INVARIANTS NoDollarTwice
