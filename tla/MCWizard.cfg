SPECIFICATION FairSpec
CONSTANTS
  steam = steam
  gstreamer = gstreamer
  Item <- Items
  Uncounted <- Skippable
  MaxKernel = 2
INVARIANTS
  UpdateExcludesInstall
  NothingRunsUnseen
  NavigationInSync
  SummaryIsTrue
PROPERTY NavigationUnlocks
