SPECIFICATION Spec
CONSTANTS
  Procs = {1, 2}
  MaxPackageCount = 1
  Attempts = 2
  MaxPackages = 2
  MaxFiles = 6
  Settings <- MCSettings
  MaxFailures = 1
INVARIANTS CountMatches FilesStored
PROPERTIES UploadSucceeds
CHECK_DEADLOCK FALSE
