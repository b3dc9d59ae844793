SPECIFICATION Spec
CONSTANTS
  LastNode = 3
  MinSize = 2
INVARIANTS
  ComponentsFound
