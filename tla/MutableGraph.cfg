SPECIFICATION Spec
CONSTANTS
  NodeNames <- AllPins
  EdgeNames <- AllArcs
  NodeType <- Pins
  EdgeDef <- Arcs
  AllowDangling = TRUE
  MaxNodeIds = 3
  MaxEdgeIds = 3
INVARIANTS
  TypeOK
  ReferencesConsistent
  LevelsCurrent
PROPERTIES
  CompressedIsWalkable
  LayoutFollowsWalk
  ClientSeesCircuit
