SPECIFICATION Spec
CONSTANTS
  Signals <- OneSignal
  MaxRetries = 3
  MaxOpen = 2
  AutoExecute = FALSE
  MaxTaps = 1
  MaxCrashes = 1
INVARIANT RedeliveryIsNoOp
