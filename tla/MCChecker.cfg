SPECIFICATION FairSpec
CONSTANTS
  steam = steam
  appimage = appimage
  mesa = mesa
  gaming = gaming
  gpu = gpu
  NoJob = NoJob
  Key = {steam, appimage, mesa}
  Page <- TwoPages
  Cards <- TwoPagesCards
  Quiet = {appimage, mesa}
  Slow = {mesa}
  MaxRefresh = 1
  MaxChange = 1
INVARIANTS
  SpinnerOnlyWhileChecking
  LastAnswerStands
PROPERTIES
  AnswersArrive
  QuitEnds
