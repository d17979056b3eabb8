SPECIFICATION Spec
CONSTANTS
  Lots <- SplitLots
  BrokerTp = 3
  Trail = 1
  Adapters <- BothAdapters
INVARIANTS
  VolumeMatchesStage
  ClosedRowIsFlat
  NeverOverclosed
  RunnerRidesToTp3
PROPERTY
  StopKeepsEntry
