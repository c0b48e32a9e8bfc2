SPECIFICATION Spec
CONSTANTS
  u1 = u1
  u2 = u2
  Users = {u1, u2}
  None = None
  Models = {"X", "Y"}
  Settings <- MCSettings
  Attempts = 2
  DayLength = 2
  Backfill = 1
  MaxDays = 1
  MaxPhotos = 2
  TopLimit = 1
  MaxCameras = 2
  Located = {1}
  Procs = {p1}
  p1 = p1
  Names = {"A", "B"}
  Prices = {10, 15}
  Months = {1, 2}
  Starts <- MCStarts
  MaxPlans = 2
  MaxWait = 35
  Price = 10
  UpgradePrice = 4
  MaxTx = 3
  Terms = {"first", "second"}
  MaxOffers = 1
INVARIANTS
  
  PartsOfTotal
  
  OneName
  BookedAsOffered
PROPERTIES
  ListedMayOpen
  WaitingNeverPays
CHECK_DEADLOCK FALSE
