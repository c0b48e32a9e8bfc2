SPECIFICATION Spec
CONSTANTS
  p1 = p1
  p2 = p2
  Procs = {p1, p2}
  Users <- MCUsers
  None = None
  Settings <- MCSettings
  Attempts = 2
  MaxPhotos = 2
  MaxFeeds = 1
  MaxComments = 3
  MaxReports = 1
  MaxConversations = 2
  MaxMessages = 2
  MaxParts = 1
INVARIANTS
  ListedIsAllowed
PROPERTIES
  
  Notified
CHECK_DEADLOCK FALSE
