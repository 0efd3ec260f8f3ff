SPECIFICATION Spec
CONSTANTS
  alice = alice
  bob = bob
  ipA = ipA
  Endpoint = {"user_reg"}
  Client = {alice}
  Address = {ipA}
  PeerAddress <- Alone
  Limit <- MCLimit
  Burst <- MCBurst
  Window = 3
  TicksPerSecond = 2
  MaxTime = 15
  MaxAdmitted = 4
INVARIANT
  RefusedAtMostAWindow
CHECK_DEADLOCK FALSE
