SPECIFICATION Spec
CONSTANTS
  Drivers = {"driver"}
  Flatpaks = {"flatpak"}
  Others = {"other"}
  DiskMb <- Sizes
  Free <- AroundTheLimits
INVARIANTS
  GateHolds
  AlarmIsTrue
