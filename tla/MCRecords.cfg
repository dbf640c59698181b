SPECIFICATION Spec
CONSTANTS
  p1 = p1
  p2 = p2
  d1 = d1
  h1 = h1
  h2 = h2
  Id = {p1, p2, d1}
  NewId = {p1, p2}
  Found <- SameName
  Host = {h1, h2}
  Key = {k}
  NoKey = none
  Blank = blank
  MaxActs = 5
  Layers = 2
  Parts = 2
  KindOf <- KindOfHost
  MaxJobs = 2
  u1 = u1
  u2 = u2
  t1 = t1
  t2 = t2
  o1 = o1
  o2 = o2
  User = {u1, u2}
  Email = {a, b}
  Password = {pass, word}
  Salt <- PlainSalts
  Session = {s1, s2}
  Org = {o1, o2}
  Team = {t1, t2}
  Granted <- TwoLevels
CONSTRAINTS
  TwoCalls
  InOrder
  Apart
  TwoGrants
INVARIANTS
  StreamsInOrder
  PanelsAgree
  AccountsWork
  PermissionIsHighest
PROPERTIES
  KeysMoveToKeychain
CHECK_DEADLOCK FALSE
