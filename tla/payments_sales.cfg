SPECIFICATION Spec
CONSTANTS
  None = None
  seller = seller
  Users = {buyer, seller}
  Photos = {photo}
  SellerOf <- MCSellerOf
  Price <- MCPrice
  Amounts = {10}
  TransferAmounts = {10, 20}
  Procs = {p1}
  Hooks = {h1, h2}
  ManagerStatuses = {"SUCCESS"}
  MaxTx = 3
  MaxTransfers = 2
CHECK_DEADLOCK FALSE
SYMMETRY Slots
INVARIANTS
  TypeOK
  SaleIsPaired
  CreditsBacked
  
PROPERTIES
  SalesAreAtomic
