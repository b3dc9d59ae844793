SPECIFICATION SetupSpec
CONSTANTS
  NodeNames <- AllPins
  EdgeNames <- AllArcs
  NodeType <- Pins
  EdgeDef <- Arcs
  AllowDangling = TRUE
  MaxNodeIds = 6
  MaxEdgeIds = 5
  File <- EchoedFile
  NodeOrder <- PinOrder
  EdgeOrder <- ArcOrder
  Settings <- SomeSettings
  AnalysisOf <- FullAnalysisOf
  MaxChanges = 2
INVARIANTS
  RenumberingKeepsAnalysis
  EchoVerifies
  ValidatedStartpoints
PROPERTIES
  ClientSeesConstraints
