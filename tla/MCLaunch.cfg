SPECIFICATION FairSpec
CONSTANTS
  MaxSessions = 2
  MaxStrangers = 2
INVARIANTS
  OneHelperAtATime
  DirectoryRemoved
PROPERTIES
  EveryStartIsAnswered
  RootLeaves
