SPECIFICATION Spec
CONSTANTS
  r1 = r1
  r2 = r2
  r3 = r3
  Request = {r1, r2, r3}
  Form <- MCForm
  MaxSize = 1
  DefaultTtl = 2
  SearchTtl = 1
  MaxTime = 3
SYMMETRY Symmetry
INVARIANTS
  TypeOK
  OneIdentity
  ReadYourRegistration
PROPERTIES
  ImplementsRegistry
  SearchStaleness
CHECK_DEADLOCK FALSE
