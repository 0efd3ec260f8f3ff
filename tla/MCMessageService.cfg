SPECIFICATION Spec
CONSTANTS
  r1 = r1
  r2 = r2
  r3 = r3
  ann = ann
  bob = bob
  eve = eve
  inbox = inbox
  work = work
  Request = {r1, r2, r3}
  User = {ann, bob, eve}
  Folder = {inbox, work}
  Owner <- MCOwner
  Seed <- MCSeed
SYMMETRY Symmetry
INVARIANTS
  TypeOK
  OwnMessagesOnly
  CreatedIsDurable
  WholeListOrNone
CHECK_DEADLOCK FALSE
