SPECIFICATION DumpSpec
CONSTANTS
  MaxVersions = 3
  Releases <- MCReleases
  HandKept <- MCHandKept
  HandRemoved <- MCHandRemoved
INVARIANTS DeclaredWhereItAppeared DirectoriesRebuilt BaseIsWhatNeverChanges
PROPERTY OlderVersionsStand
