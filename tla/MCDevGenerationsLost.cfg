SPECIFICATION Spec
CONSTANTS
  Requests = {}
  MaxBuilds = 3
PROPERTIES
  ServerChangesAnnounced
CHECK_DEADLOCK FALSE
