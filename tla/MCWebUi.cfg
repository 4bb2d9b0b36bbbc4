SPECIFICATION FairSpec
CONSTANTS
  Dirs <- MCDirs
  Home <- MCHome
  MaxDepth = 2
  MaxFiles = 3
  MaxAsks = 2
  MaxFaults = 1
PROPERTIES
  UploadsAreListed
CHECK_DEADLOCK FALSE
