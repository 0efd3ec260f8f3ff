SPECIFICATION Spec
CONSTANTS
  r1 = r1
  r2 = r2
  r3 = r3
  Gateway = Gateway
  Request = {r1, r2, r3}
  Form <- MCForm
  MaxSize = 1
  DefaultTtl = 1
  SearchTtl = 0
  MaxTime = 1
  Limit <- One
  Burst <- One
  Window = 1
  MaxRestarts = 1
SYMMETRY Symmetry
INVARIANTS
  TypeOK
  WorkBound
  LoginAgrees
PROPERTY
  KeepsPromise
CHECK_DEADLOCK FALSE
