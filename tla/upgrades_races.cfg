SPECIFICATION Spec
CONSTANTS
  None = None
  basic = basic
  pro = pro
  Users = {user}
  Packages = {basic, pro}
  Level <- MCLevel
  Decisions = {"SUCCESS", "EXPIRED"}
  Procs = {p1, p2}
  MaxOrders = 2
  MaxTransfers = 2
  MaxFailures = 1
CHECK_DEADLOCK FALSE
SYMMETRY Slots
INVARIANTS
  TypeOK
  
