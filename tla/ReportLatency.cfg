SPECIFICATION Spec
CONSTANTS
  TG <- Graph
  TC <- LatentOutput
  Modes <- SetupOnly
  DelayChoices <- OneVaryingDelay
  InitialDelay <- BaseDelay
  MaxChanges = 1
INVARIANTS
  ReportsAgree
