SPECIFICATION Spec
CONSTANTS
  r1 = r1
  r2 = r2
  r3 = r3
  ann = ann
  bob = bob
  Request = {r1, r2, r3}
  User = {ann, bob}
  Name = {"inbox"}
  MaxSize = 1
  FolderTtl = 1
  MaxTime = 3
SYMMETRY Symmetry
INVARIANTS
  TypeOK
  CreatedIsDurable
  StaleOnlyIfOvertaken
PROPERTY
  StaleNoLongerThanTtl
CHECK_DEADLOCK FALSE
