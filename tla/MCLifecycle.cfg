CONSTANTS
  Bitrates = {250, 500, 1000}
  Supported = {250, 500}
  DefaultRate = 250
  UseDefaults = TRUE
  CliEnable = TRUE
  SafeStreak = 2
  MaxStreak = 3
  StableSeconds = 2
SPECIFICATION Spec
INVARIANTS Unattended BootLoopEnds PendingOnlyUnjoined
PROPERTIES AutostartOnce JoinsEventually
