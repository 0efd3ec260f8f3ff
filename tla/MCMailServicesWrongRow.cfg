SPECIFICATION Spec
CONSTANTS
  r1 = r1
  r2 = r2
  r3 = r3
  alice = alice
  bob = bob
  carol = carol
  cara = cara
  amail = amail
  bmail = bmail
  cmail = cmail
  apass = apass
  bpass = bpass
  cpass = cpass
  Request = {r1, r2, r3}
  Storage = {"sqlite"}
  Form <- MCForm
  Name = {"work"}
  SeedForm <- MCSeedForm
  SeedName = "inbox"
  SeedMail <- MCSeedMail
  Asked = {1, 3}
SYMMETRY Symmetry
INVARIANT
  CreatedAsAsked
CHECK_DEADLOCK FALSE
