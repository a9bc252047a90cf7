SPECIFICATION Spec
CONSTANTS
  Readers = {"idle", "busy", "client", "log"}
  MaxChunk = 2
  MaxLine = 4
  MaxStream = 7
INVARIANTS
  CutDoesNotMatter
  LimitIsForLongLines
  LogIsTheOutput
