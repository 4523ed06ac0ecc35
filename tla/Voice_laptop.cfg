CONSTANTS
  Scopes <- Activities
  MaxFaults = 1
  MaxLoops = 2
  MaxTurns = 2
  MaxCasts = 1
  Apps = {"code", "other"}
  AllowedApps = {"code"}
  Names = {"Ann", "Anna"}
  Matching <- Contains
  MaxPeople = 2
  MaxPreviews = 2
  Keys <- KeyWords
  Registry = {"guy", "zuri"}
  MaxRate = 2
  Tracks = {"t1", "t2"}
  Explicit = {"t2"}
  MaxPlaylists = 2
SPECIFICATION LaptopSpec
CHECK_DEADLOCK FALSE
INVARIANT MicOnlyWithConsent
PROPERTY DisplayLeavesThinking
 
