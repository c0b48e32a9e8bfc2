SPECIFICATION Spec
CONSTANTS
  None = None
  seller = seller
  Users = {seller}
  Photos = {}
  SellerOf <- MCSellerOf
  Price <- MCPrice
  Amounts = {10}
  TransferAmounts = {10}
  Procs = {p1, p2}
  Hooks = {h1}
  ManagerStatuses = {}
  MaxTx = 4
  MaxTransfers = 2
CHECK_DEADLOCK FALSE
SYMMETRY Slots
INVARIANTS
  OverdraftBounded
