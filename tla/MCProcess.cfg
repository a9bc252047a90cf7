SPECIFICATION ProcessFairSpec
CONSTANTS
  MaxOutput = 2
  MaxWritten = 4
INVARIANTS
  ResultTellsWhatHappened
  SuccessIsComplete
PROPERTY Returns
