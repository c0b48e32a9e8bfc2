SPECIFICATION Spec
CONSTANTS
  Procs = {1, 2}
  Contents = {a, b}
  a = a
  b = b
  None = None
  Attempts = 2
  MaxPhotos = 3
  Settings <- MCSettings
INVARIANTS UsageIsStored OriginalStored SalesSound 
PROPERTIES UploadSucceeds
CHECK_DEADLOCK FALSE
