SPECIFICATION ContractSpec
CONSTANTS
  v1 = v1
  v2 = v2
  k1 = k1
  k2 = k2
  k3 = k3
  Key <- MCKey
  Value <- MCValue
  Pattern <- MCPattern
  MaxSize = 2
  Ttl = {1, 3}
  MaxTime = 4
INVARIANTS
  ContractTypeOK
  SizeBound
  HitIsLatest
PROPERTY
  EvictionIsForced
CHECK_DEADLOCK FALSE
