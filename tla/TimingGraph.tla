----------------------------- MODULE TimingGraph -----------------------------
(***************************************************************************)
(* The levelized timing graph as the walkers and visitors read it.  TG is  *)
(* one levelized graph: ids are integers, as the StrongIds of the code     *)
(* are, and node_in_edges / node_out_edges keep the order in which edges   *)
(* were added, which the visitors follow.  Disabled edges stay in those    *)
(* lists; only the levelization and the visitors skip them.                *)
(***************************************************************************)
EXTENDS TatumBase, Sequences, FiniteSets

CONSTANT TG   \* the record described by GraphOK below

Nodes == TG.nodes
Edges == TG.edges

node_type(n)      == TG.node_type[n]
edge_type(e)      == TG.edge_type[e]
edge_src_node(e)  == TG.src[e]
edge_sink_node(e) == TG.sink[e]
edge_disabled(e)  == e \in TG.disabled

InEdgeLists  == [n \in Nodes |-> SelectSeq(TG.edge_order, LAMBDA e : TG.sink[e] = n)]
OutEdgeLists == [n \in Nodes |-> SelectSeq(TG.edge_order, LAMBDA e : TG.src[e] = n)]

node_in_edges(n)  == InEdgeLists[n]
node_out_edges(n) == OutEdgeLists[n]

InEdges(n)  == {e \in Edges : edge_sink_node(e) = n}

\* Mutant: disabled edges are left out.
OutEdges_Active(n) == {e \in Edges : edge_src_node(e) = n /\ ~edge_disabled(e)}

OutEdges(n) == {e \in Edges : edge_src_node(e) = n}
ActiveInEdges(n) == {e \in InEdges(n) : ~edge_disabled(e)}

(***************************************************************************)
(* The first clock capture edge into a SINK, disabled or not.              *)
(***************************************************************************)
node_clock_capture_edge(n) ==
  LET s == SelectSeq(node_in_edges(n),
                     LAMBDA e : edge_type(e) = "PRIMITIVE_CLOCK_CAPTURE")
  IN  IF node_type(n) = "SINK" /\ s # <<>> THEN Head(s) ELSE NoEdge

(***************************************************************************)
(* The first clock launch edge into a SOURCE.                              *)
(***************************************************************************)
node_clock_launch_edge(n) ==
  LET s == SelectSeq(node_in_edges(n),
                     LAMBDA e : edge_type(e) = "PRIMITIVE_CLOCK_LAUNCH")
  IN  IF node_type(n) = "SOURCE" /\ s # <<>> THEN Head(s) ELSE NoEdge

find_edge(src, sink) ==
  LET s == SelectSeq(node_out_edges(src), LAMBDA e : edge_sink_node(e) = sink)
  IN  IF s = <<>> THEN NoEdge ELSE Head(s)

(***************************************************************************)
(* The result of force_levelize().                                         *)
(***************************************************************************)
node_level(n) == TG.level[n]
LastLevel     == TG.last_level
Levels        == 0 .. LastLevel

level_nodes(l)  == {n \in Nodes : node_level(n) = l}
logical_outputs == {n \in level_nodes(LastLevel) : node_type(n) = "SINK"}

GraphOK ==
  /\ Nodes \subseteq Nat /\ IsFiniteSet(Nodes)
  /\ Edges \subseteq Nat /\ IsFiniteSet(Edges)
  /\ TG.edge_order \in Seq(Edges)
  /\ TG.node_type \in [Nodes -> NodeTypes]
  /\ TG.edge_type \in [Edges -> EdgeTypes]
  /\ TG.src  \in [Edges -> Nodes]
  /\ TG.sink \in [Edges -> Nodes]
  /\ TG.disabled \subseteq Edges
  /\ LastLevel \in Nat \ {0}
  /\ TG.level \in [Nodes -> Levels]

(***************************************************************************)
(* What force_levelize() guarantees of an acyclic graph: an active edge    *)
(* leads to a later level.                                                 *)
(***************************************************************************)
ActiveLevelsIncrease ==
  \A e \in Edges \ TG.disabled :
     node_level(edge_src_node(e)) < node_level(edge_sink_node(e))

ASSUME TGAssumption == GraphOK /\ ActiveLevelsIncrease

(***************************************************************************)
(* The same of every edge, disabled ones included.  This is a restriction  *)
(* on the graphs considered, not a consequence of the levelization: an     *)
(* edge disabled to break a loop leads to its own level or an earlier one. *)
(***************************************************************************)
LevelsIncrease ==
  \A e \in Edges : node_level(edge_src_node(e)) < node_level(edge_sink_node(e))
==============================================================================
