SPECIFICATION Spec
CONSTANTS
  q1 = q1
  f1 = f1
  f2 = f2
  r1 = r1
  r2 = r2
  d1 = d1
  s1 = s1
  s2 = s2
  Requests = {q1}
  Flows = {f1, f2}
  Suppliers = {s1, s2}
  Registrations = {r1, r2}
  Direct = {d1}
  Chain <- TwoRoles
  Definition <- OneStep
  Converters = 2
  MaxDeleted = 1
  NoSupplier = NoSupplier
  NoRequest = NoRequest
  NoFlow = NoFlow
INVARIANT
  ChainSigned
CHECK_DEADLOCK FALSE
