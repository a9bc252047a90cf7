CONSTANTS
  Plans <- MCPlans
  Codes <- MCCodes
  HelperMayDie = TRUE
  MaxEntries = 2
SPECIFICATION FairSpec
INVARIANTS
  ShownIsTrue
  OneMoreAfterClose
PROPERTIES
  EverythingEnds
