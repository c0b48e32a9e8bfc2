SPECIFICATION Spec
CONSTANTS
  p1 = p1
  p2 = p2
  u1 = u1
  u2 = u2
  n1 = n1
  n2 = n2
  m1 = m1
  None = None
  Procs = {p1, p2}
  Users = {u1, u2}
  Names = {n1, n2, m1}
  Mails = {m1}
  Sessions = {1}
  Settings <- MCSettings
INVARIANTS BannedIsOut OneRole
PROPERTIES BecomesFresh
CHECK_DEADLOCK FALSE
