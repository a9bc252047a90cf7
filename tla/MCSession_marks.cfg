SPECIFICATION Spec
CONSTANTS
  s1 = s1
  s2 = s2
  s3 = s3
  NoStep = NoStep
  StepId = {s1, s2, s3}
  Plans <- ScxPlan
  ExitCodes = {0, 1}
  Crashes = {}
INVARIANTS
  MarksAreTrue
