SPECIFICATION FairSpec
CONSTANTS
  Request = {r1, r2, r3}
  Shape <- MCShape
  User = {u1, u2, new}
  Tx = {t1, t2, t3}
  Owner <- MCOwner
  Field = {"purpose", "headcount"}
  Value = {a, b}
  Null = Null
  NoOne = NoOne
  PlaceholderVendor = TRUE
  Stored <- MCStored
  u1 = u1
  u2 = u2
  new = new
  t1 = t1
  t2 = t2
  t3 = t3
  a = a
  b = b
INVARIANTS
  LockHasOwner
PROPERTIES
  UserComesWithUpload
  WholeRequests
  NoFieldWrittenBack
  LockGivenBack
CHECK_DEADLOCK FALSE
