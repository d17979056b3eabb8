SPECIFICATION FairSpec
CONSTANTS
  Signals <- TwoSignals
  MaxRetries = 3
  MaxOpen = 2
  AutoExecute = TRUE
  MaxTaps = 3
  MaxCrashes = 1
INVARIANTS
  OpenCapHolds
  OneOrderPerSignal
  UnmanagedHasACause
PROPERTIES
  EveryTapAnswered
