SPECIFICATION Spec
CONSTANTS
  c1 = c1
  g1 = g1
  k1 = k1
  None = None
  Users = {c1, g1}
  Packages = {k1}
  Owner <- MCOwner
  Spans <- MCSpans
  Day = 24
  Shoot = 3
  MaxQuota = 2
  Modes = {"serial", "managed", "races"}
  Procs = {p1, p2}
  p1 = p1
  p2 = p2
  MaxBookings = 2
  MaxPhotos = 1
  MaxItems = 1
  Rows <- MCRows
  
PROPERTIES KeepsAgreements
SYMMETRY Slots
CHECK_DEADLOCK FALSE
