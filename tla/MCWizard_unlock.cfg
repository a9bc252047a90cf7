SPECIFICATION Spec
CONSTANTS
  steam = steam
  gstreamer = gstreamer
  Item <- Items
  Uncounted <- Skippable
  MaxKernel = 1
INVARIANT UnlockedByUpdateOrSkip
