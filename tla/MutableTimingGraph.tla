-------------------------- MODULE MutableTimingGraph --------------------------
(***************************************************************************)
(* TimingGraph as its client builds and modifies it.  Ids are indices: a   *)
(* removal leaves an invalid entry and invalid references behind, until    *)
(* compress() renumbers what is left.  The client knows its parts by name  *)
(* and keeps the id of each, following the maps that compress() and        *)
(* optimize_layout() return.                                               *)
(***************************************************************************)
EXTENDS TatumBase, FiniteSets, FiniteSetsExt, Lists

CONSTANTS NodeNames, EdgeNames,
          NodeType,     \* what the client adds under a name: a type,
          EdgeDef,      \* and for an edge also the names of its ends
          AllowDangling,            \* allow_dangling_combinational_nodes_
          MaxNodeIds, MaxEdgeIds    \* bounds: ids in use, holes included

\* Types are values of the enums of the code, and an edge is added between two nodes.
ASSUME ClientAssumption ==
  /\ NodeType \in [NodeNames -> NodeTypes]
  /\ EdgeDef \in [EdgeNames -> [type : EdgeTypes, src : NodeNames, sink : NodeNames]]

VARIABLES
  nodes,         \* node_ids_ (valid), node_types_, node_in_edges_, node_out_edges_
  edges,         \* edge_ids_ (valid), edge_types_, edge_src_nodes_, edge_sink_nodes_, ...
  is_levelized,
  levelization,  \* level_nodes_, node_levels_, primary_inputs_, logical_outputs_
  node_of, edge_of   \* the ids the client knows its parts by

graph   == [nodes |-> nodes, edges |-> edges]
levels  == <<is_levelized, levelization>>
handles == <<node_of, edge_of>>
vars    == <<nodes, edges, levels, handles>>

(***************************************************************************)
(* A linear_map is a function on 0 .. size - 1.                            *)
(***************************************************************************)
PushBack(f, x) ==
  [i \in 0 .. Cardinality(DOMAIN f) |-> IF i \in DOMAIN f THEN f[i] ELSE x]
EmptyMap == [i \in {} |-> 0]
AllIds(f) == [i \in 1 .. Cardinality(DOMAIN f) |-> i - 1]   \* in order

ValidIds(f) == {i \in DOMAIN f : f[i].valid}
NoHoles == ValidIds(nodes) = DOMAIN nodes /\ ValidIds(edges) = DOMAIN edges

NoLevel == -1   \* LevelId::INVALID()
NotLevelized == [level_nodes |-> EmptyMap, node_level |-> EmptyMap,
                 primary_inputs |-> <<>>, logical_outputs |-> <<>>]

Init ==
  /\ nodes = EmptyMap
  /\ edges = EmptyMap
  /\ is_levelized = FALSE
  /\ levelization = NotLevelized
  /\ node_of = [n \in NodeNames |-> NoNode]
  /\ edge_of = [e \in EdgeNames |-> NoEdge]

(***************************************************************************)
(* A levelization that is not valid cannot be read: the accessors assert   *)
(* is_levelized_ or return INVALID().                                      *)
(***************************************************************************)
SetLevelized(still) ==
  /\ is_levelized' = still
  /\ levelization' = IF still THEN levelization ELSE NotLevelized

InvalidateLevels == SetLevelized(FALSE)

(***************************************************************************)
(* Adding                                                                  *)
(***************************************************************************)
AddNode(g, type) ==
  [g EXCEPT !.nodes = PushBack(@, [valid |-> TRUE, type |-> type, in |-> <<>>, out |-> <<>>])]

AddEdge(g, type, src, sink) ==
  LET e == Cardinality(DOMAIN g.edges)
  IN  [nodes |-> [n \in DOMAIN g.nodes |->
                    [g.nodes[n] EXCEPT !.out = IF n = src  THEN Append(@, e) ELSE @,
                                       !.in  = IF n = sink THEN Append(@, e) ELSE @]],
       edges |-> PushBack(g.edges, [valid |-> TRUE, type |-> type,
                                    src |-> src, sink |-> sink, disabled |-> FALSE])]

add_node(name) ==
  /\ node_of[name] = NoNode
  /\ Cardinality(DOMAIN nodes) < MaxNodeIds
  /\ nodes' = AddNode(graph, NodeType[name]).nodes
  /\ node_of' = [node_of EXCEPT ![name] = Cardinality(DOMAIN nodes)]
  /\ InvalidateLevels
  /\ UNCHANGED <<edges, edge_of>>

add_edge(name) ==
  LET src  == node_of[EdgeDef[name].src]
      sink == node_of[EdgeDef[name].sink]
      g    == AddEdge(graph, EdgeDef[name].type, src, sink)
  IN  /\ edge_of[name] = NoEdge
      /\ NoNode \notin {src, sink}
      /\ Cardinality(DOMAIN edges) < MaxEdgeIds
      /\ nodes' = g.nodes
      /\ edges' = g.edges
      /\ edge_of' = [edge_of EXCEPT ![name] = Cardinality(DOMAIN edges)]
      /\ InvalidateLevels
      /\ UNCHANGED node_of

(***************************************************************************)
(* Removing: the entries of the removed edges in the lists of their ends   *)
(* become invalid references, and their ids are marked invalid.            *)
(***************************************************************************)
Invalidated(seq, removed) == [i \in DOMAIN seq |-> IF seq[i] \in removed THEN NoEdge ELSE seq[i]]

\* Mutant: the references of the sinks are left in place.
RemoveEdges_OneEnd(g, removed) ==
  [nodes |-> [n \in DOMAIN g.nodes |->
                [g.nodes[n] EXCEPT !.out = Invalidated(@, removed)]],
   edges |-> [e \in DOMAIN g.edges |->
                [g.edges[e] EXCEPT !.valid = @ /\ e \notin removed]]]

RemoveEdges(g, removed) ==
  [nodes |-> [n \in DOMAIN g.nodes |->
                [g.nodes[n] EXCEPT !.in  = Invalidated(@, removed),
                                   !.out = Invalidated(@, removed)]],
   edges |-> [e \in DOMAIN g.edges |->
                [g.edges[e] EXCEPT !.valid = @ /\ e \notin removed]]]

Forget(removed) ==
  edge_of' = [name \in EdgeNames |-> IF edge_of[name] \in removed THEN NoEdge ELSE edge_of[name]]

remove_edge(name) ==
  LET removed == {edge_of[name]}
      g       == RemoveEdges(graph, removed)
  IN  /\ edge_of[name] # NoEdge
      /\ nodes' = g.nodes
      /\ edges' = g.edges
      /\ Forget(removed)
      /\ InvalidateLevels
      /\ UNCHANGED node_of

remove_node(name) ==
  LET n       == node_of[name]
      removed == (ToSet(nodes[n].in) \cup ToSet(nodes[n].out)) \ {NoEdge}
      g       == RemoveEdges(graph, removed)
  IN  /\ node_of[name] # NoNode
      /\ nodes' = [g.nodes EXCEPT ![n].valid = FALSE]
      /\ edges' = g.edges
      /\ node_of' = [node_of EXCEPT ![name] = NoNode]
      /\ Forget(removed)
      /\ InvalidateLevels

\* Mutant: the levelization is kept.
LevelizedAfterDisable_Kept(e, disable) == is_levelized

LevelizedAfterDisable(e, disable) == is_levelized /\ edges[e].disabled = disable

disable_edge(name, disable) ==
  LET e == edge_of[name]
  IN  /\ e # NoEdge
      /\ edges' = [edges EXCEPT ![e].disabled = disable]
      /\ SetLevelized(LevelizedAfterDisable(e, disable))
      /\ UNCHANGED <<nodes, handles>>

(***************************************************************************)
(* Levelizing.  The walk starts with the nodes without active fan-in, level*)
(* 0, and goes through the fan-out of the nodes in the order in which it   *)
(* has placed them.  A node is placed when the last of its active in-edges *)
(* is met, in the next level if it has a fan-out at all, else it is put    *)
(* aside for a last level of its own.  The levels are the pieces of that   *)
(* order.  Nodes at or after a loop are never placed.                      *)
(***************************************************************************)
IsActive(g, e) == ~g.edges[e].disabled
ActiveIn(g, n) == {e \in ToSet(g.nodes[n].in) : IsActive(g, e)}
OfType(g, type) == {n \in DOMAIN g.nodes : g.nodes[n].type = type}

WalkStart(g) ==
  LET first == {n \in DOMAIN g.nodes : ActiveIn(g, n) = {}}
  IN  [order |-> Kept(AllIds(g.nodes), first),
       level |-> [n \in DOMAIN g.nodes |-> IF n \in first THEN 0 ELSE NoLevel],
       met   |-> {},
       aside |-> <<>>]

Meet(g, from, walk, e) ==
  LET n    == g.edges[e].sink
      seen == [walk EXCEPT !.met = @ \cup {e}]
  IN  IF ~IsActive(g, e) THEN walk
      ELSE IF ~(ActiveIn(g, n) \subseteq seen.met) THEN seen
      ELSE IF g.nodes[n].out = <<>> THEN [seen EXCEPT !.aside = Append(@, n)]
      ELSE [seen EXCEPT !.order = Append(@, n), !.level[n] = walk.level[from] + 1]

VisitFanout(g, walk, n) ==
  FoldLeft(LAMBDA w, e : Meet(g, n, w, e), walk, g.nodes[n].out)

LevelWalk(g) ==
  FoldLeft(LAMBDA walk, i : IF i \in DOMAIN walk.order THEN VisitFanout(g, walk, walk.order[i])
                                                      ELSE walk,
           WalkStart(g), [i \in 1 .. Cardinality(DOMAIN g.nodes) |-> i])

LevelizationOf(g, walk) ==
  LET last  == 1 + Max({0} \cup {walk.level[n] : n \in ToSet(walk.order)})
      At(l) == IF l = last THEN walk.aside
               ELSE Kept(walk.order, {n \in DOMAIN g.nodes : walk.level[n] = l})
  IN  [level_nodes     |-> [l \in 0 .. last |-> At(l)],
       node_level      |-> [n \in DOMAIN g.nodes |-> IF n \in ToSet(walk.aside) THEN last
                                                                            ELSE walk.level[n]],
       primary_inputs  |-> Kept(At(0), OfType(g, "SOURCE")),
       logical_outputs |-> Kept(walk.aside, OfType(g, "SINK"))]

force_levelize(g) == LevelizationOf(g, LevelWalk(g))

levelize ==
  /\ ~is_levelized
  /\ NoHoles
  /\ is_levelized' = TRUE
  /\ levelization' = force_levelize(graph)
  /\ UNCHANGED <<nodes, edges, handles>>

(***************************************************************************)
(* Renumbering by a map from old to new ids, INVALID() for a dropped one.  *)
(***************************************************************************)
\* Mutant: what is left keeps its ids.
compress_ids_Gaps(f) == [i \in DOMAIN f |-> IF f[i].valid THEN i ELSE NoNode]

compress_ids(f) ==
  [i \in DOMAIN f |-> IF f[i].valid THEN Cardinality({j \in ValidIds(f) : j < i}) ELSE NoNode]

clean_and_reorder_values(f, id_map) ==
  [j \in {id_map[i] : i \in DOMAIN f} \ {NoNode} |-> f[CHOOSE i \in DOMAIN f : id_map[i] = j]]

(***************************************************************************)
(* References to dropped edges go, and those that are invalid already.     *)
(***************************************************************************)
update_valid_refs(seq, id_map) ==
  Mapped(seq, [e \in {f \in DOMAIN id_map : id_map[f] # NoEdge} |-> id_map[e]])

remap_nodes(g, id_map) ==
  [nodes |-> clean_and_reorder_values(g.nodes, id_map),
   edges |-> [e \in DOMAIN g.edges |-> [g.edges[e] EXCEPT !.src = id_map[@], !.sink = id_map[@]]]]

\* Mutant: edges_disabled_ is not reordered.
remap_edges_DisabledKept(g, id_map) ==
  LET moved == clean_and_reorder_values(g.edges, id_map)
  IN  [nodes |-> [n \in DOMAIN g.nodes |->
                    [g.nodes[n] EXCEPT !.in  = update_valid_refs(@, id_map),
                                       !.out = update_valid_refs(@, id_map)]],
       edges |-> [e \in DOMAIN moved |-> [moved[e] EXCEPT !.disabled = g.edges[e].disabled]]]

remap_edges(g, id_map) ==
  [nodes |-> [n \in DOMAIN g.nodes |->
                [g.nodes[n] EXCEPT !.in  = update_valid_refs(@, id_map),
                                   !.out = update_valid_refs(@, id_map)]],
   edges |-> clean_and_reorder_values(g.edges, id_map)]

Follow(node_map, edge_map) ==
  /\ node_of' = [n \in NodeNames |-> IF node_of[n] = NoNode THEN NoNode ELSE node_map[node_of[n]]]
  /\ edge_of' = [e \in EdgeNames |-> IF edge_of[e] = NoEdge THEN NoEdge ELSE edge_map[edge_of[e]]]

(***************************************************************************)
(* identify_combinational_loops: the components of two nodes or more that  *)
(* active edges connect both ways (LoopDetect has the algorithm).          *)
(***************************************************************************)
ActivePairs(g) ==
  {<<g.edges[e].src, g.edges[e].sink>> : e \in {f \in ValidIds(g.edges) : IsActive(g, f)}}

\* Mutant: loops are not looked for.
identify_combinational_loops_None(g) == {}

identify_combinational_loops(g) ==
  LET pairs   == ActivePairs(g)
      closed  == {X \in SUBSET DOMAIN g.nodes : \A p \in pairs : p[1] \in X => p[2] \in X}
      reached == [n \in DOMAIN g.nodes |->
                    {m \in DOMAIN g.nodes : \A X \in closed : n \in X => m \in X}]
      component(n) == {m \in reached[n] : n \in reached[m]}
  IN  {c \in {component(n) : n \in DOMAIN g.nodes} : Cardinality(c) >= 2}

(***************************************************************************)
(* validate_structure of a levelized graph: TRUE, or the code throws.      *)
(* (What it checks of the levelization and of the sizes holds here; see    *)
(* LevelsCurrent.)                                                         *)
(***************************************************************************)
ConnectivityOK(g, n) ==
  LET in  == Len(g.nodes[n].in)
      out == Len(g.nodes[n].out)
  IN  CASE g.nodes[n].type = "SOURCE" -> in <= 1
        [] g.nodes[n].type = "SINK"   -> out = 0
        [] g.nodes[n].type = "IPIN"   -> AllowDangling \/ (in > 0 /\ out > 0)
        [] g.nodes[n].type = "OPIN"   -> AllowDangling \/ out > 0
        [] g.nodes[n].type = "CPIN"   -> in > 0

Drives ==
  {<<"SOURCE", "SINK", "INTERCONNECT">>, <<"SOURCE", "SINK", "PRIMITIVE_COMBINATIONAL">>,
   <<"SOURCE", "OPIN", "PRIMITIVE_COMBINATIONAL">>,
   <<"SOURCE", "IPIN", "INTERCONNECT">>, <<"SOURCE", "CPIN", "INTERCONNECT">>,
   <<"IPIN", "OPIN", "PRIMITIVE_COMBINATIONAL">>, <<"IPIN", "SINK", "PRIMITIVE_COMBINATIONAL">>,
   <<"OPIN", "IPIN", "INTERCONNECT">>, <<"OPIN", "CPIN", "INTERCONNECT">>,
   <<"OPIN", "SINK", "INTERCONNECT">>,
   <<"CPIN", "SOURCE", "PRIMITIVE_CLOCK_LAUNCH">>, <<"CPIN", "SINK", "PRIMITIVE_CLOCK_CAPTURE">>}

EdgeTypeOK(g, e) ==
  LET src  == g.nodes[g.edges[e].src].type
      sink == g.nodes[g.edges[e].sink].type
  IN  <<src, sink, g.edges[e].type>> \in Drives \/ <<src, sink>> = <<"CPIN", "OPIN">>

NoParallelEdges(g) ==
  \A e, f \in DOMAIN g.edges :
     g.edges[e].src = g.edges[f].src /\ g.edges[e].sink = g.edges[f].sink => e = f

validate_structure(g, lv) ==
  /\ \A n \in DOMAIN g.nodes : ConnectivityOK(g, n)
  /\ \A e \in DOMAIN g.edges : EdgeTypeOK(g, e)
  /\ NoParallelEdges(g)
  /\ \A n \in ToSet(lv.primary_inputs) : g.nodes[n].in = <<>>
  /\ identify_combinational_loops(g) = {}

(***************************************************************************)
(* compress() ends with a validation.  If that throws, the renumbering has *)
(* been done and the maps are lost: no id the client has means anything,   *)
(* and the client starts over with a new graph.                            *)
(***************************************************************************)
Compressed ==
  remap_edges(remap_nodes(graph, compress_ids(nodes)), compress_ids(edges))

compress ==
  /\ \E g \in {Compressed} : \E lv \in {force_levelize(g)} :
       /\ validate_structure(g, lv)
       /\ nodes' = g.nodes
       /\ edges' = g.edges
       /\ is_levelized' = TRUE
       /\ levelization' = lv
  /\ Follow(compress_ids(nodes), compress_ids(edges))

compress_throws ==
  /\ ~validate_structure(Compressed, force_levelize(Compressed))
  /\ nodes' = EmptyMap
  /\ edges' = EmptyMap
  /\ InvalidateLevels
  /\ node_of' = [n \in NodeNames |-> NoNode]
  /\ edge_of' = [e \in EdgeNames |-> NoEdge]

(***************************************************************************)
(* optimize_layout(): nodes in the order of their levels, then edges in    *)
(* the order of the in-edges of those.  It asserts a levelized graph, and  *)
(* that every node has a level.                                            *)
(***************************************************************************)
Position(seq) == [x \in ToSet(seq) |-> (CHOOSE i \in DOMAIN seq : seq[i] = x) - 1]

NodesByLevel(lv) ==
  Concatenated([l \in 1 .. Cardinality(DOMAIN lv.level_nodes) |-> lv.level_nodes[l - 1]])

optimize_node_layout(lv) == Position(NodesByLevel(lv))

\* Mutant: the out-edges.
optimize_edge_layout_Out(g, lv) ==
  LET order == NodesByLevel(lv)
  IN  Position(Concatenated([i \in DOMAIN order |-> g.nodes[order[i]].out]))

optimize_edge_layout(g, lv) ==
  LET order == NodesByLevel(lv)
  IN  Position(Concatenated([i \in DOMAIN order |-> g.nodes[order[i]].in]))

OptimizedMaps ==
  LET edge_map(g)       == optimize_edge_layout(g, force_levelize(g))
      maps_of(node_map) == [node |-> node_map, edge |-> edge_map(remap_nodes(graph, node_map))]
  IN  maps_of(optimize_node_layout(levelization))

optimize_layout ==
  /\ is_levelized
  /\ \A n \in DOMAIN nodes : levelization.node_level[n] # NoLevel
  /\ \E maps \in {OptimizedMaps} :
     \E g \in {remap_edges(remap_nodes(graph, maps.node), maps.edge)} :
       /\ nodes' = g.nodes
       /\ edges' = g.edges
       /\ levelization' = force_levelize(g)
       /\ Follow(maps.node, maps.edge)
  /\ UNCHANGED is_levelized

Next == \/ \E n \in NodeNames : add_node(n) \/ remove_node(n)
        \/ \E e \in EdgeNames : \/ add_edge(e) \/ remove_edge(e)
                                \/ \E disable \in BOOLEAN : disable_edge(e, disable)
        \/ levelize \/ compress \/ compress_throws \/ optimize_layout

Spec == Init /\ [][Next]_vars

(***************************************************************************)
(* Properties                                                              *)
(***************************************************************************)
TypeOK ==
  /\ DOMAIN nodes = 0 .. Cardinality(DOMAIN nodes) - 1
  /\ DOMAIN edges = 0 .. Cardinality(DOMAIN edges) - 1
  /\ node_of \in [NodeNames -> DOMAIN nodes \cup {NoNode}]
  /\ edge_of \in [EdgeNames -> DOMAIN edges \cup {NoEdge}]
  /\ is_levelized \in BOOLEAN

(***************************************************************************)
(* A valid edge is once in the fan-out of its source and once in the       *)
(* fan-in of its sink, both valid nodes; the lists hold nothing else but   *)
(* invalid references.                                                     *)
(***************************************************************************)
Occurrences(seq, e) == Cardinality({i \in DOMAIN seq : seq[i] = e})

ReferencesConsistent ==
  /\ \A e \in ValidIds(edges) :
       /\ {edges[e].src, edges[e].sink} \subseteq ValidIds(nodes)
       /\ Occurrences(nodes[edges[e].src].out, e) = 1
       /\ Occurrences(nodes[edges[e].sink].in, e) = 1
  /\ \A n \in DOMAIN nodes :
       /\ ToSet(nodes[n].in) \ {NoEdge}  \subseteq {e \in ValidIds(edges) : edges[e].sink = n}
       /\ ToSet(nodes[n].out) \ {NoEdge} \subseteq {e \in ValidIds(edges) : edges[e].src = n}

(***************************************************************************)
(* A levelization that calls itself valid is that of the graph as it is    *)
(* now: exactly the nodes at or after a loop have no level, the others are *)
(* on one level, and a placed node's active fan-in is on earlier levels.   *)
(* The nodes at or after a loop are the largest set in which each has an   *)
(* active predecessor.                                                     *)
(***************************************************************************)
LevelOf(n) == levelization.node_level[n]

AfterLoop(g) ==
  UNION {X \in SUBSET DOMAIN g.nodes : \A n \in X : \E m \in X : <<m, n>> \in ActivePairs(g)}

LevelsCurrent ==
  is_levelized =>
    /\ {n \in DOMAIN nodes : LevelOf(n) = NoLevel} = AfterLoop(graph)
    /\ \A n \in DOMAIN nodes : LevelOf(n) # NoLevel =>
         Occurrences(NodesByLevel(levelization), n) = 1
    /\ \A p \in ActivePairs(graph) : LevelOf(p[2]) # NoLevel => LevelOf(p[1]) < LevelOf(p[2])

(***************************************************************************)
(* A graph that compress() has validated can be walked: it is one of those *)
(* the walkers assume.                                                     *)
(***************************************************************************)
Record ==
  [nodes      |-> DOMAIN nodes,
   edges      |-> DOMAIN edges,
   node_type  |-> [n \in DOMAIN nodes |-> nodes[n].type],
   edge_type  |-> [e \in DOMAIN edges |-> edges[e].type],
   src        |-> [e \in DOMAIN edges |-> edges[e].src],
   sink       |-> [e \in DOMAIN edges |-> edges[e].sink],
   edge_order |-> AllIds(edges),
   disabled   |-> {e \in DOMAIN edges : ~IsActive(graph, e)},
   level      |-> levelization.node_level,
   last_level |-> Cardinality(DOMAIN levelization.level_nodes) - 1]

Walked == INSTANCE TimingGraph WITH TG <- Record

CompressedIsWalkable ==
  [][compress => Walked!GraphOK' /\ Walked!ActiveLevelsIncrease']_vars

(***************************************************************************)
(* "Make all nodes in a level be contiguous in memory", in the order the   *)
(* walk visits them, and edges in the order the arrival traversal meets    *)
(* them.  The second levelization must not disturb the order.              *)
(***************************************************************************)
Ascending(seq) == \A i \in DOMAIN seq : seq[i] = i - 1

InWalkOrder ==
  LET order == NodesByLevel(levelization)
  IN  /\ Ascending(order)
      /\ Ascending(Concatenated([i \in DOMAIN order |-> nodes[order[i]].in]))

LayoutFollowsWalk == [][optimize_layout => InWalkOrder']_vars

(***************************************************************************)
(* The client's view, by name, and the refinement: the ids it follows lead *)
(* to the circuit it built, with the fan-in and fan-out of every part in   *)
(* the order it added them.                                                *)
(***************************************************************************)
NameIn(handle, id) ==
  IF \E x \in DOMAIN handle : handle[x] = id
  THEN CHOOSE x \in DOMAIN handle : handle[x] = id ELSE "lost"

Known(handle) == {x \in DOMAIN handle : handle[x] # NoNode}

NamedEnds(e) == [type |-> edges[e].type, src  |-> NameIn(node_of, edges[e].src),
                 sink |-> NameIn(node_of, edges[e].sink)]

NamedEdges(seq) == Mapped(seq, [e \in DOMAIN edges |-> NameIn(edge_of, e)])

parts  == [n \in Known(node_of) |-> nodes[node_of[n]].type]
wires  == [e \in Known(edge_of) |->
             [end |-> NamedEnds(edge_of[e]), disabled |-> edges[edge_of[e]].disabled]]
fanin  == [n \in NodeNames |-> IF node_of[n] = NoNode THEN <<>>
                               ELSE NamedEdges(nodes[node_of[n]].in)]
fanout == [n \in NodeNames |-> IF node_of[n] = NoNode THEN <<>>
                               ELSE NamedEdges(nodes[node_of[n]].out)]

Named == INSTANCE Circuit WITH PartNames <- NodeNames, WireNames <- EdgeNames,
                               PartType <- NodeType, Wire <- EdgeDef

ClientSeesCircuit == Named!Spec
==============================================================================
