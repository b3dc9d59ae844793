SPECIFICATION Spec
CONSTANTS
  TG <- Graph
  TC <- Constraints
  Mode = "setup"
  Delays <- TwoDelays
  Workers = {w1, w2}
SYMMETRY Symmetry
INVARIANTS
  TypeOK
  NoConflict
  UnconstrainedCounted
PROPERTIES
  ParallelIsSerial
