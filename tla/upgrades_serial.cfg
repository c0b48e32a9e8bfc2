SPECIFICATION Spec
CONSTANTS
  None = None
  basic = basic
  pro = pro
  Users = {user}
  Packages = {basic, pro}
  Level <- MCLevel
  Decisions = {"EXPIRED"}
  Procs = {p1}
  MaxOrders = 3
  MaxTransfers = 2
  MaxFailures = 1
CHECK_DEADLOCK FALSE
INVARIANTS
  OneActiveOrder
  QuotaOfActive
PROPERTIES
  ExpiredIsWithdrawn
  DueOrderExpires
  ExpiredLosesRole
