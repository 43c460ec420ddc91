SPECIFICATION FairSpec
CONSTANTS
  q1 = q1
  f1 = f1
  f2 = f2
  r1 = r1
  r2 = r2
  d1 = d1
  s1 = s1
  s2 = s2
  Requests = {q1}
  Flows = {f1, f2}
  Suppliers = {s1, s2}
  Registrations = {r1, r2}
  Direct = {d1}
  Chain <- OneRole
  Definition <- TwoSteps
  Converters = 1
  MaxDeleted = 1
  NoSupplier = NoSupplier
  NoRequest = NoRequest
  NoFlow = NoFlow
INVARIANTS OneOfEach OnboardedIsCleared
PROPERTIES CompletionEnds
CHECK_DEADLOCK FALSE
