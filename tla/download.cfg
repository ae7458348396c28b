SPECIFICATION LiveSpec
CONSTANTS
  Sizes <- TwoPackages
  Resumed = 2
PROPERTIES
  PercentGrows
  EndIsFinal
  DownloadEnds
CHECK_DEADLOCK FALSE
