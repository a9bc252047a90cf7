SPECIFICATION Spec
CONSTANTS
  Systems <- UsualAndOlder
  Names <- MCNames
  ValidNames <- MCValidNames
  MaxItems = 2
  MaxPages = 1
  MaxChoices = 2
INVARIANTS
  PlanSuitsSession
  PlanIsTheSelection
  SourcesComeFirst
  SameAsBefore
