SPECIFICATION Spec
CONSTANTS
  Lots <- MicroLots
  BrokerTp = 3
  Trail = 1
  Adapters <- TerminalOnly
INVARIANT RunnerRidesToTp3
