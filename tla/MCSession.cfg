SPECIFICATION FairSpec
CONSTANTS
  s1 = s1
  s2 = s2
  s3 = s3
  NoStep = NoStep
  StepId = {s1, s2, s3}
  Plans <- AllPlans
  ExitCodes = {0, 1}
  Crashes = {"helper", "gui"}
INVARIANTS
  HonestUntilStopped
  DependentsFollowSuccess
  AnswersAreCurrent
  QuietWhenDone
  NoErrorsMeansInstalled
PROPERTIES
  KeepsPromise
  SessionEnds
  HelperLeaves
  StoppedCommandDies
