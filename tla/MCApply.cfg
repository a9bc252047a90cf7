SPECIFICATION ApplySpec
CONSTANTS
  Names <- MCNames
  ValidNames <- MCValidNames
  Environments <- MCEnvironments
  MaxMissing = 2
INVARIANTS
  NothingRejected
  InstalledIsSeen
  SkippedIsThere
