SPECIFICATION Spec
CONSTANTS
  alice = alice
  bob = bob
  ipA = ipA
  Endpoint = {"user_reg"}
  Client = {alice, bob}
  Address = {ipA}
  PeerAddress <- Shared
  Limit <- MCLimit
  Burst <- MCBurst
  Window = 3
  TicksPerSecond = 2
  MaxTime = 14
  MaxAdmitted = 5
SYMMETRY Symmetry
INVARIANTS
  TypeOK
  RateBound
  BurstHonoured
  SpacedRetryAdmitted
PROPERTIES
  SweepTransparent
  ResetNeverRecedes
CHECK_DEADLOCK FALSE
