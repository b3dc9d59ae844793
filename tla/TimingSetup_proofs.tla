-------------------------- MODULE TimingSetup_proofs ---------------------------
(***************************************************************************)
(* Setting up an analysis, for any circuit in the file the client starts   *)
(* from, any constraints and any changes to them and to the graph.  Lemmas *)
(* on loading a file come first; then the invariant of the graph, which    *)
(* survives writing and loading; then what follows from it:                *)
(*   - what has been validated can be walked;                              *)
(*   - only nodes of the kinds the code knows of are start points.         *)
(* Last comes the refinement of the book of constraints: setters, writing  *)
(* and reading in terms of the statements in force, and those statements,  *)
(* by the names of their nodes, are what the client set.                   *)
(***************************************************************************)
EXTENDS TimingSetup, MutableTimingGraph_proofs

(***************************************************************************)
(* Loading is a fold over the nodes, then over the edges.                  *)
(***************************************************************************)
PushNode(none, type, g) == AddNode(g, type)
PushEdge(none, e, g)    == AddEchoEdge(g, e)

NodePushes == INSTANCE FoldLemmas WITH Op <- PushNode, Pick <- Greatest
EdgePushes == INSTANCE FoldLemmas WITH Op <- PushEdge, Pick <- Greatest

LEMMA PushFolds ==
  /\ NodePushes!Basics /\ \A s : Greatest(s) = NodePushes!Greatest(s)
  /\ EdgePushes!Basics /\ \A s : Greatest(s) = EdgePushes!Greatest(s)
<1>1. /\ \A s : Greatest(s) = NodePushes!Greatest(s)
      /\ \A s : Greatest(s) = EdgePushes!Greatest(s)
  BY DEF Greatest, NodePushes!Greatest, EdgePushes!Greatest
<1>2. NodePushes!Basics
  BY FoldBasics, Zenon DEF NodePushes!Basics, NodePushes!Induction, NodePushes!Counted, NodePushes!Greatest
<1>3. EdgePushes!Basics
  BY FoldBasics, Zenon DEF EdgePushes!Basics, EdgePushes!Induction, EdgePushes!Counted, EdgePushes!Greatest
<1>. QED
  BY <1>1, <1>2, <1>3

WithNodes(types)     == FoldLeft(AddNode, EmptyGraph, types)
WithEdges(g, stated) == FoldLeft(AddEchoEdge, g, stated)

LEMMA WithNodesIsFold ==
  ASSUME NEW S, NEW seq \in Seq(S)
  PROVE  WithNodes(seq) = NodePushes!Result(0, EmptyGraph, seq, 1 .. Len(seq))
<1>1. DOMAIN seq = 1 .. Len(seq)
  OBVIOUS
<1>. QED
  BY <1>1 DEF WithNodes, FoldLeft, MapThenFoldSet, NodePushes!Result, NodePushes!Recursive,
              PushNode, Greatest, Max

LEMMA WithEdgesIsFold ==
  ASSUME NEW S, NEW seq \in Seq(S), NEW g
  PROVE  WithEdges(g, seq) = EdgePushes!Result(0, g, seq, 1 .. Len(seq))
<1>1. DOMAIN seq = 1 .. Len(seq)
  OBVIOUS
<1>. QED
  BY <1>1 DEF WithEdges, FoldLeft, MapThenFoldSet, EdgePushes!Result, EdgePushes!Recursive,
              PushEdge, Greatest, Max

LEMMA NoNodes == WithNodes(<<>>) = EmptyGraph
<1>1. <<>> \in Seq({}) /\ Len(<<>>) = 0
  OBVIOUS
<1>2. WithNodes(<<>>) = NodePushes!Result(0, EmptyGraph, <<>>, 1 .. 0)
  BY <1>1, WithNodesIsFold
<1>3. PICK steps : NodePushes!Partial(0, EmptyGraph, <<>>, 0, steps)
  BY PushFolds, NodePushes!FoldSteps
<1>. QED
  BY <1>2, <1>3 DEF NodePushes!Partial

LEMMA NoEdges == \A g : WithEdges(g, <<>>) = g
<1>. SUFFICES ASSUME NEW g PROVE WithEdges(g, <<>>) = g
  OBVIOUS
<1>1. <<>> \in Seq({}) /\ Len(<<>>) = 0
  OBVIOUS
<1>2. WithEdges(g, <<>>) = EdgePushes!Result(0, g, <<>>, 1 .. 0)
  BY <1>1, WithEdgesIsFold
<1>3. PICK steps : EdgePushes!Partial(0, g, <<>>, 0, steps)
  BY PushFolds, EdgePushes!FoldSteps
<1>. QED
  BY <1>2, <1>3 DEF EdgePushes!Partial

LEMMA OneNodeMore ==
  ASSUME NEW S, NEW seq \in Seq(S), NEW x \in S
  PROVE  WithNodes(Append(seq, x)) = AddNode(WithNodes(seq), x)
<1>1. Append(seq, x) \in Seq(S) /\ Len(Append(seq, x)) = Len(seq) + 1
  OBVIOUS
<1>2. WithNodes(Append(seq, x)) = NodePushes!Result(0, EmptyGraph, Append(seq, x), 1 .. Len(seq) + 1)
  BY <1>1, WithNodesIsFold
<1>3. @ = PushNode(0, x, NodePushes!Result(0, EmptyGraph, seq, 1 .. Len(seq)))
  BY PushFolds, NodePushes!FoldAppend
<1>4. @ = PushNode(0, x, WithNodes(seq))
  BY WithNodesIsFold
<1>. QED
  BY <1>2, <1>3, <1>4 DEF PushNode

LEMMA OneEdgeMore ==
  ASSUME NEW S, NEW seq \in Seq(S), NEW x \in S, NEW g
  PROVE  WithEdges(g, Append(seq, x)) = AddEchoEdge(WithEdges(g, seq), x)
<1>1. Append(seq, x) \in Seq(S) /\ Len(Append(seq, x)) = Len(seq) + 1
  OBVIOUS
<1>2. WithEdges(g, Append(seq, x)) = EdgePushes!Result(0, g, Append(seq, x), 1 .. Len(seq) + 1)
  BY <1>1, WithEdgesIsFold
<1>3. @ = PushEdge(0, x, EdgePushes!Result(0, g, seq, 1 .. Len(seq)))
  BY PushFolds, EdgePushes!FoldAppend
<1>4. @ = PushEdge(0, x, WithEdges(g, seq))
  BY WithEdgesIsFold
<1>. QED
  BY <1>2, <1>3, <1>4 DEF PushEdge

(***************************************************************************)
(* What is loaded: the nodes and edges of the file with their numbers as   *)
(* ids, none of them invalid, and each edge in the lists of its ends.      *)
(***************************************************************************)
NodesLoaded(types, r) ==
  /\ DOMAIN r.nodes = 0 .. Len(types) - 1
  /\ \A n \in DOMAIN r.nodes : r.nodes[n].type = types[n + 1]

EdgesLoaded(stated, r) ==
  /\ DOMAIN r.edges = 0 .. Len(stated) - 1
  /\ \A e \in DOMAIN r.edges :
       /\ r.edges[e].type = stated[e + 1].type
       /\ r.edges[e].src = stated[e + 1].src /\ r.edges[e].sink = stated[e + 1].sink
       /\ r.edges[e].disabled = stated[e + 1].disabled

LoadedFrom(types, stated, r) ==
  Whole(r) /\ NodesLoaded(types, r) /\ EdgesLoaded(stated, r)

Stated(E, count) ==
  \A e \in E : e.src \in 0 .. count - 1 /\ e.sink \in 0 .. count - 1 /\ e.disabled \in BOOLEAN

LEMMA EmptyLoaded == LoadedFrom(<<>>, <<>>, EmptyGraph)
<1>1. DOMAIN EmptyMap = {}
  BY DEF EmptyMap
<1>. HIDE DEF EmptyMap
<1>2. EmptyGraph.nodes = EmptyMap /\ EmptyGraph.edges = EmptyMap /\ Sound(EmptyGraph)
  BY NothingIsSound DEF EmptyGraph
<1>3. ValidIds(EmptyMap) = {} /\ 0 .. Len(<<>>) - 1 = {}
  BY <1>1 DEF ValidIds
<1>. QED
  BY <1>1, <1>2, <1>3 DEF LoadedFrom, Whole, NodesFull, EdgesFull, NodesLoaded, EdgesLoaded

LEMMA NodeLoaded ==
  ASSUME NEW S, NEW types \in Seq(S), NEW type \in S, NEW g, LoadedFrom(types, <<>>, g),
         NEW r, r = AddNode(g, type)
  PROVE  LoadedFrom(Append(types, type), <<>>, r)
<1>1. PICK new : new = Cardinality(DOMAIN g.nodes)
  OBVIOUS
<1>2. Sound(g) /\ ValidIds(g.nodes) = DOMAIN g.nodes /\ ValidIds(g.edges) = DOMAIN g.edges
  BY DEF LoadedFrom, Whole, NodesFull, EdgesFull
<1>3. WithNode(g, type, new, r)
  BY <1>1, <1>2, NodeAdded
<1>4. new = Len(types) /\ DOMAIN g.nodes = 0 .. Len(types) - 1 /\ Len(types) \in Nat
  <2>1. Len(types) \in Nat /\ DOMAIN g.nodes = 0 .. Len(types) - 1
    BY DEF LoadedFrom, NodesLoaded
  <2>2. Cardinality(0 .. Len(types) - 1) = Len(types)
    BY <2>1, SizeOfRange
  <2>. QED
    BY <1>1, <2>1, <2>2
<1>5. Whole(r) /\ r.edges = g.edges
  BY <1>2, <1>3 DEF WithNode, Whole, NodesFull, EdgesFull
<1>6. NodesLoaded(Append(types, type), r)
  <2>1. DOMAIN r.nodes = 0 .. Len(types)
    BY <1>3, <1>4 DEF WithNode
  <2>2. Len(Append(types, type)) - 1 = Len(types)
    BY <1>4
  <2>3. ASSUME NEW n \in DOMAIN r.nodes PROVE r.nodes[n].type = Append(types, type)[n + 1]
    <3>1. CASE n = new
      BY <1>3, <1>4, <3>1 DEF WithNode
    <3>2. CASE n # new
      <4>1. n \in DOMAIN g.nodes /\ r.nodes[n] = g.nodes[n]
        BY <1>3, <3>2 DEF WithNode
      <4>2. g.nodes[n].type = types[n + 1]
        BY <4>1 DEF LoadedFrom, NodesLoaded
      <4>3. n + 1 \in 1 .. Len(types)
        BY <1>4, <4>1
      <4>. QED
        BY <4>1, <4>2, <4>3
    <3>. QED
      BY <3>1, <3>2
  <2>. QED
    BY <2>1, <2>2, <2>3 DEF NodesLoaded
<1>7. EdgesLoaded(<<>>, r)
  BY <1>5 DEF LoadedFrom, EdgesLoaded
<1>. QED
  BY <1>5, <1>6, <1>7 DEF LoadedFrom

LEMMA AllNodesLoaded ==
  ASSUME NEW S, NEW types \in Seq(S)
  PROVE  LoadedFrom(types, <<>>, WithNodes(types))
<1>. DEFINE Q == {s \in Seq(S) : LoadedFrom(s, <<>>, WithNodes(s))}
<1>1. <<>> \in Q
  BY EmptyLoaded, NoNodes
<1>2. ASSUME NEW s \in Seq(S), NEW x \in S, s \in Q PROVE Append(s, x) \in Q
  <2>1. PICK g, r : g = WithNodes(s) /\ r = WithNodes(Append(s, x))
    OBVIOUS
  <2>2. r = AddNode(g, x) /\ LoadedFrom(s, <<>>, g)
    BY <1>2, <2>1, OneNodeMore
  <2>3. LoadedFrom(Append(s, x), <<>>, r)
    BY <2>2, NodeLoaded
  <2>. QED
    BY <2>1, <2>3
<1>. HIDE DEF Q
<1>3. \A s \in Seq(S) : s \in Q
  BY <1>1, <1>2, SequenceInduction
<1>. QED
  BY <1>3 DEF Q

LEMMA EdgeLoaded ==
  ASSUME NEW types, NEW E, Stated(E, Len(types)), NEW stated \in Seq(E), NEW e \in E,
         NEW g, LoadedFrom(types, stated, g), NEW r, r = AddEchoEdge(g, e)
  PROVE  LoadedFrom(types, Append(stated, e), r)
<1>1. PICK new : new = Cardinality(DOMAIN g.edges)
  OBVIOUS
<1>2. PICK h : h = AddEdge(g, e.type, e.src, e.sink)
  OBVIOUS
<1>3. Sound(g) /\ ValidIds(g.nodes) = DOMAIN g.nodes /\ ValidIds(g.edges) = DOMAIN g.edges
      /\ DOMAIN g.nodes = 0 .. Len(types) - 1
  BY DEF LoadedFrom, Whole, NodesFull, EdgesFull, NodesLoaded
<1>4. WithEdge(g, e.type, e.src, e.sink, new, h)
  <2>1. PICK type, src, sink : type = e.type /\ src = e.src /\ sink = e.sink
    OBVIOUS
  <2>2. src \in ValidIds(g.nodes) /\ sink \in ValidIds(g.nodes)
    BY <1>3, <2>1 DEF Stated
  <2>3. WithEdge(g, type, src, sink, new, h)
    BY <1>1, <1>2, <1>3, <2>1, <2>2, EdgeAdded
  <2>. QED
    BY <2>1, <2>3
<1>5. /\ Sound(h) /\ h = [nodes |-> h.nodes, edges |-> h.edges]
      /\ DOMAIN h.edges = DOMAIN g.edges \cup {new} /\ DOMAIN h.nodes = DOMAIN g.nodes
      /\ ValidIds(h.edges) = DOMAIN h.edges /\ ValidIds(h.nodes) = DOMAIN h.nodes
  BY <1>3, <1>4 DEF WithEdge, Sound, Typed
<1>6. r = [nodes |-> h.nodes, edges |-> [h.edges EXCEPT ![new].disabled = e.disabled]]
  BY <1>1, <1>2, <1>5 DEF AddEchoEdge
<1>7. WithFlag(h, new, e.disabled, r)
  <2>1. PICK disable : disable = e.disabled
    OBVIOUS
  <2>2. disable \in BOOLEAN /\ new \in DOMAIN h.edges
    BY <1>5, <2>1 DEF Stated
  <2>3. WithFlag(h, new, disable, r)
    BY <1>5, <1>6, <2>1, <2>2, EdgeDisabled
  <2>. QED
    BY <2>1, <2>3
<1>8. Whole(r) /\ r.nodes = h.nodes
  <2>1. r.nodes = h.nodes
    BY <1>6
  <2>. QED
    BY <1>5, <1>7, <2>1 DEF WithFlag, Whole, NodesFull, EdgesFull
<1>9. NodesLoaded(types, r)
  <2>1. \A n \in DOMAIN g.nodes : h.nodes[n].type = g.nodes[n].type
    BY <1>4 DEF WithEdge
  <2>. QED
    BY <1>5, <1>8, <2>1 DEF LoadedFrom, NodesLoaded
<1>10. new = Len(stated) /\ DOMAIN g.edges = 0 .. Len(stated) - 1 /\ Len(stated) \in Nat
  <2>1. Len(stated) \in Nat /\ DOMAIN g.edges = 0 .. Len(stated) - 1
    BY DEF LoadedFrom, EdgesLoaded
  <2>2. Cardinality(0 .. Len(stated) - 1) = Len(stated)
    BY <2>1, SizeOfRange
  <2>. QED
    BY <1>1, <2>1, <2>2
<1>11. EdgesLoaded(Append(stated, e), r)
  <2>1. DOMAIN r.edges = 0 .. Len(Append(stated, e)) - 1
    <3>1. DOMAIN r.edges = DOMAIN g.edges \cup {new}
      BY <1>5, <1>7 DEF WithFlag
    <3>2. Len(Append(stated, e)) = Len(stated) + 1
      OBVIOUS
    <3>. QED
      BY <1>10, <3>1, <3>2
  <2>2. ASSUME NEW d \in DOMAIN r.edges
        PROVE  /\ r.edges[d].type = Append(stated, e)[d + 1].type
               /\ r.edges[d].src = Append(stated, e)[d + 1].src
               /\ r.edges[d].sink = Append(stated, e)[d + 1].sink
               /\ r.edges[d].disabled = Append(stated, e)[d + 1].disabled
    <3>1. d \in DOMAIN h.edges
          /\ r.edges[d].type = h.edges[d].type /\ r.edges[d].src = h.edges[d].src
          /\ r.edges[d].sink = h.edges[d].sink
          /\ r.edges[d].disabled = IF d = new THEN e.disabled ELSE h.edges[d].disabled
      BY <1>7 DEF WithFlag
    <3>2. CASE d = new
      <4>1. h.edges[d] = [valid |-> TRUE, type |-> e.type, src |-> e.src, sink |-> e.sink,
                          disabled |-> FALSE]
        BY <1>4, <3>2 DEF WithEdge
      <4>2. Append(stated, e)[d + 1] = e
        BY <1>10, <3>2
      <4>. QED
        BY <3>1, <3>2, <4>1, <4>2
    <3>3. CASE d # new
      <4>1. d \in DOMAIN g.edges /\ h.edges[d] = g.edges[d]
        BY <1>4, <1>5, <3>1, <3>3 DEF WithEdge
      <4>2. Append(stated, e)[d + 1] = stated[d + 1]
        BY <1>10, <4>1
      <4>3. /\ g.edges[d].type = stated[d + 1].type /\ g.edges[d].src = stated[d + 1].src
            /\ g.edges[d].sink = stated[d + 1].sink /\ g.edges[d].disabled = stated[d + 1].disabled
        BY <4>1 DEF LoadedFrom, EdgesLoaded
      <4>. QED
        BY <3>1, <3>3, <4>1, <4>2, <4>3
    <3>. QED
      BY <3>2, <3>3
  <2>. QED
    BY <2>1, <2>2 DEF EdgesLoaded
<1>. QED
  BY <1>8, <1>9, <1>11 DEF LoadedFrom

LEMMA FileLoaded ==
  ASSUME NEW file, NEW S, NEW types \in Seq(S), types = file.graph.nodes,
         NEW E, Stated(E, Len(types)), NEW stated \in Seq(E), stated = file.graph.edges,
         NEW r, r = graph_of(file)
  PROVE  LoadedFrom(types, stated, r)
<1>1. PICK g : g = WithNodes(types)
  OBVIOUS
<1>. DEFINE Q == {s \in Seq(E) : LoadedFrom(types, s, WithEdges(g, s))}
<1>2. <<>> \in Q
  BY <1>1, AllNodesLoaded, NoEdges
<1>3. ASSUME NEW s \in Seq(E), NEW x \in E, s \in Q PROVE Append(s, x) \in Q
  <2>1. PICK h, k : h = WithEdges(g, s) /\ k = WithEdges(g, Append(s, x))
    OBVIOUS
  <2>2. k = AddEchoEdge(h, x) /\ LoadedFrom(types, s, h)
    BY <1>3, <2>1, OneEdgeMore
  <2>3. LoadedFrom(types, Append(s, x), k)
    BY <2>2, EdgeLoaded
  <2>. QED
    BY <2>1, <2>3
<1>. HIDE DEF Q
<1>4. \A s \in Seq(E) : s \in Q
  BY <1>2, <1>3, SequenceInduction
<1>5. r = WithEdges(g, stated)
  BY <1>1 DEF graph_of, WithNodes, WithEdges
<1>. QED
  BY <1>4, <1>5 DEF Q

(***************************************************************************)
(* The ids of a file are positions in the orders of its names.             *)
(***************************************************************************)
PositionsOK(order, Names, handle) ==
  /\ HandlesOK(handle, Names, 0 .. Len(order) - 1)
  /\ \A x \in Names : handle[x] \in 0 .. Len(order) - 1 /\ order[handle[x] + 1] = x
  /\ \A i \in 0 .. Len(order) - 1 : order[i + 1] \in Names /\ handle[order[i + 1]] = i

LEMMA PositionsAreHandles ==
  ASSUME NEW Names, NEW order, ListsOnce(order, Names), NEW handle, handle = Positions(order)
  PROVE  PositionsOK(order, Names, handle)
<1>1. order \in Seq(Names) /\ Len(order) \in Nat /\ DOMAIN order = 1 .. Len(order)
      /\ \A i \in DOMAIN order : order[i] \in Names
  BY DEF ListsOnce
<1>2. \A x \in Names : x \in ToSet(order)
  <2>. SUFFICES ASSUME NEW x \in Names PROVE x \in ToSet(order)
    OBVIOUS
  <2>1. Occurrences(order, x) = 1 /\ order \in Seq(Names)
    BY DEF ListsOnce
  <2>2. Occurrences(order, x) = 0 <=> x \notin ToSet(order)
    BY <2>1, OccurrencesCount, Zenon
  <2>. QED
    BY <2>1, <2>2
<1>3. ToSet(order) = Names
  BY <1>1, <1>2 DEF ToSet
<1>4. \A i, j \in DOMAIN order : order[i] = order[j] => i = j
  <2>. SUFFICES ASSUME NEW i \in DOMAIN order, NEW j \in DOMAIN order, order[i] = order[j]
                PROVE  i = j
    OBVIOUS
  <2>1. Occurrences(order, order[i]) = 1
    BY <1>1 DEF ListsOnce
  <2>. QED
    BY <1>1, <2>1, OccursAlone
<1>5. \A x \in Names : \E i \in DOMAIN order : order[i] = x
  BY <1>3 DEF ToSet
<1>6. /\ handle = [x \in Names |-> handle[x]]
      /\ \A x \in Names : handle[x] = (CHOOSE i \in DOMAIN order : order[i] = x) - 1
  BY <1>3 DEF Positions
<1>7. ASSUME NEW x \in Names
      PROVE  handle[x] \in 0 .. Len(order) - 1 /\ order[handle[x] + 1] = x
  <2>. DEFINE i == CHOOSE k \in DOMAIN order : order[k] = x
  <2>1. i \in DOMAIN order /\ order[i] = x
    BY <1>5
  <2>2. handle[x] = i - 1
    BY <1>6
  <2>. HIDE DEF i
  <2>3. i \in 1 .. Len(order) /\ (i - 1) + 1 = i
    BY <1>1, <2>1
  <2>. QED
    BY <1>1, <2>1, <2>2, <2>3
<1>8. ASSUME NEW i \in 0 .. Len(order) - 1
      PROVE  order[i + 1] \in Names /\ handle[order[i + 1]] = i
  <2>. DEFINE x == order[i + 1]
  <2>1. i + 1 \in DOMAIN order /\ x \in Names
    BY <1>1
  <2>2. handle[x] \in 0 .. Len(order) - 1 /\ order[handle[x] + 1] = x
    BY <1>7, <2>1
  <2>3. handle[x] + 1 \in DOMAIN order
    BY <1>1, <2>2
  <2>4. handle[x] + 1 = i + 1
    BY <1>4, <2>1, <2>2, <2>3
  <2>. HIDE DEF x
  <2>5. handle[x] = i
    BY <1>1, <2>2, <2>4
  <2>. QED
    BY <2>1, <2>5 DEF x
<1>9. HandlesOK(handle, Names, 0 .. Len(order) - 1)
  <2>1. NoNode \notin 0 .. Len(order) - 1
    BY <1>1 DEF NoNode
  <2>2. handle \in [Names -> 0 .. Len(order) - 1 \cup {NoNode}]
    BY <1>6, <1>7
  <2>3. \A x, y \in Names : handle[x] = handle[y] => x = y
    BY <1>7
  <2>4. \A i \in 0 .. Len(order) - 1 : \E x \in Names : handle[x] = i
    BY <1>8
  <2>. QED
    BY <2>1, <2>2, <2>3, <2>4 DEF HandlesOK
<1>. QED
  BY <1>7, <1>8, <1>9 DEF PositionsOK

(***************************************************************************)
(* The graph of the file is the circuit the client's names stand for.      *)
(***************************************************************************)
Circuited(g, no, eo) ==
  /\ \A x \in DOMAIN PartsOf(g, no) : PartsOf(g, no)[x] = NodeType[x]
  /\ \A w \in DOMAIN WiresOf(g, no, eo) :
       WiresOf(g, no, eo)[w] = [end |-> EdgeDef[w], disabled |-> WiresOf(g, no, eo)[w].disabled]

Started(g, no, eo) ==
  /\ Whole(g) /\ Circuited(g, no, eo)
  /\ HandlesOK(no, NodeNames, ValidIds(g.nodes)) /\ HandlesOK(eo, EdgeNames, ValidIds(g.edges))

LEMMA PositionIsNamed ==
  ASSUME NEW Names, NEW order, NEW handle, PositionsOK(order, Names, handle),
         NEW i \in 0 .. Len(order) - 1
  PROVE  NameIn(handle, i) = order[i + 1]
<1>1. DOMAIN handle = Names
  BY DEF PositionsOK, HandlesOK
<1>2. \E x \in DOMAIN handle : handle[x] = i
  BY <1>1 DEF PositionsOK
<1>. DEFINE x == CHOOSE y \in DOMAIN handle : handle[y] = i
<1>3. x \in Names /\ handle[x] = i
  BY <1>1, <1>2
<1>4. NameIn(handle, i) = x
  BY <1>2 DEF NameIn
<1>. HIDE DEF x
<1>. QED
  BY <1>3, <1>4 DEF PositionsOK

LEMMA FileStarts ==
  ASSUME NEW g, g = graph_of(File), NEW no, no = Positions(NodeOrder), NEW eo, eo = Positions(EdgeOrder)
  PROVE  Started(g, no, eo)
<1>. DEFINE k      == Len(NodeOrder)
            types  == File.graph.nodes
            stated == File.graph.edges
            E      == [type : EdgeTypes, disabled : BOOLEAN, src : 0 .. k - 1, sink : 0 .. k - 1]
<1>1. /\ k \in Nat /\ Len(EdgeOrder) \in Nat
      /\ types \in Seq(NodeTypes) /\ Len(types) = k /\ \A i \in 1 .. k : types[i] = NodeType[NodeOrder[i]]
  <2>1. k \in Nat /\ Len(EdgeOrder) \in Nat /\ \A i \in 1 .. k : NodeOrder[i] \in NodeNames
    BY FileAssumption DEF ListsOnce
  <2>2. types = [i \in 1 .. k |-> NodeType[NodeOrder[i]]]
    BY FileAssumption
  <2>3. \A i \in 1 .. k : NodeType[NodeOrder[i]] \in NodeTypes
    BY <2>1, ClientAssumption
  <2>. HIDE DEF k, types
  <2>. QED
    BY <2>1, <2>2, <2>3
<1>2. stated \in Seq(E) /\ Len(stated) = Len(EdgeOrder) /\ Stated(E, Len(types))
  <2>1. stated \in Seq(E) /\ Len(stated) = Len(EdgeOrder)
    BY FileAssumption
  <2>2. Stated(E, k)
    BY DEF Stated
  <2>. HIDE DEF k, types, stated, E
  <2>. QED
    BY <1>1, <2>1, <2>2
<1>3. LoadedFrom(types, stated, g)
  <2>1. PICK ts, ss, F : ts = types /\ ss = stated /\ F = E
    OBVIOUS
  <2>2. ts \in Seq(NodeTypes) /\ ss \in Seq(F) /\ Stated(F, Len(ts))
    BY <1>1, <1>2, <2>1
  <2>3. ts = File.graph.nodes /\ ss = File.graph.edges
    BY <2>1
  <2>4. LoadedFrom(ts, ss, g)
    BY <2>2, <2>3, FileLoaded
  <2>. QED
    BY <2>1, <2>4
<1>4. PositionsOK(NodeOrder, NodeNames, no) /\ PositionsOK(EdgeOrder, EdgeNames, eo)
  BY FileAssumption, PositionsAreHandles
<1>. HIDE DEF k, types, stated, E
<1>5. /\ Whole(g) /\ DOMAIN g.nodes = 0 .. k - 1 /\ DOMAIN g.edges = 0 .. Len(EdgeOrder) - 1
      /\ \A n \in DOMAIN g.nodes : g.nodes[n].type = types[n + 1]
      /\ \A e \in DOMAIN g.edges : /\ g.edges[e].type = stated[e + 1].type
                                   /\ g.edges[e].src = stated[e + 1].src
                                   /\ g.edges[e].sink = stated[e + 1].sink
  BY <1>1, <1>2, <1>3 DEF LoadedFrom, NodesLoaded, EdgesLoaded
<1>6. HandlesOK(no, NodeNames, ValidIds(g.nodes)) /\ HandlesOK(eo, EdgeNames, ValidIds(g.edges))
  BY <1>4, <1>5 DEF Whole, NodesFull, EdgesFull, PositionsOK, k
<1>7. ASSUME NEW x \in DOMAIN PartsOf(g, no) PROVE PartsOf(g, no)[x] = NodeType[x]
  <2>1. x \in Known(no) /\ PartsOf(g, no)[x] = g.nodes[no[x]].type
    BY DEF PartsOf
  <2>2. x \in NodeNames /\ no[x] \in 0 .. k - 1 /\ NodeOrder[no[x] + 1] = x
    BY <1>4, <2>1 DEF Known, PositionsOK, HandlesOK, k
  <2>3. no[x] + 1 \in 1 .. k
    BY <1>1, <2>2
  <2>. QED
    BY <1>1, <1>5, <2>1, <2>2, <2>3
<1>8. ASSUME NEW w \in DOMAIN WiresOf(g, no, eo)
      PROVE  WiresOf(g, no, eo)[w] = [end |-> EdgeDef[w], disabled |-> WiresOf(g, no, eo)[w].disabled]
  <2>. DEFINE e == eo[w]
              s == stated[e + 1]
  <2>1. /\ w \in Known(eo)
        /\ WiresOf(g, no, eo)[w] =
             [end |-> [type |-> g.edges[e].type, src  |-> NameIn(no, g.edges[e].src),
                       sink |-> NameIn(no, g.edges[e].sink)],
              disabled |-> g.edges[e].disabled]
    BY DEF WiresOf, WireOf
  <2>2. w \in EdgeNames /\ e \in 0 .. Len(EdgeOrder) - 1 /\ EdgeOrder[e + 1] = w
    BY <1>4, <2>1 DEF Known, PositionsOK, HandlesOK
  <2>3. e + 1 \in 1 .. Len(EdgeOrder)
    BY <1>1, <2>2
  <2>4. s \in E
    BY <1>2, <2>3
  <2>5. s.src \in 0 .. k - 1 /\ s.sink \in 0 .. k - 1
    BY SMTT(30), <2>4 DEF E
  <2>6. EdgeDef[w] = [type |-> s.type, src |-> NodeOrder[s.src + 1], sink |-> NodeOrder[s.sink + 1]]
    BY <2>2, <2>3, FileAssumption DEF stated
  <2>7. g.edges[e].type = s.type /\ g.edges[e].src = s.src /\ g.edges[e].sink = s.sink
    BY <1>5, <2>2
  <2>8. NameIn(no, s.src) = NodeOrder[s.src + 1] /\ NameIn(no, s.sink) = NodeOrder[s.sink + 1]
    BY <1>4, <2>5, PositionIsNamed DEF k
  <2>. HIDE DEF e, s
  <2>. QED
    BY <2>1, <2>6, <2>7, <2>8
<1>. QED
  BY <1>5, <1>6, <1>7, <1>8 DEF Started, Circuited

(***************************************************************************)
(* The graph of a file that a graph was written to is that graph, but for  *)
(* the order of its edge lists.                                            *)
(***************************************************************************)
LEMMA WrittenIsLoaded ==
  ASSUME NEW g, Whole(g), NEW file, file.graph = write_timing_graph(g), NEW r, r = graph_of(file)
  PROVE  /\ Whole(r) /\ DOMAIN r.nodes = DOMAIN g.nodes /\ DOMAIN r.edges = DOMAIN g.edges
         /\ \A n \in DOMAIN g.nodes : r.nodes[n].type = g.nodes[n].type
         /\ \A e \in DOMAIN g.edges :
              /\ r.edges[e].type = g.edges[e].type /\ r.edges[e].disabled = g.edges[e].disabled
              /\ r.edges[e].src = g.edges[e].src   /\ r.edges[e].sink = g.edges[e].sink
<1>1. PICK N, M : N = Cardinality(DOMAIN g.nodes) /\ M = Cardinality(DOMAIN g.edges)
  OBVIOUS
<1>2. N \in Nat /\ M \in Nat /\ DOMAIN g.nodes = 0 .. N - 1 /\ DOMAIN g.edges = 0 .. M - 1
  BY <1>1, SizeOfIds DEF Whole, Sound, Typed
<1>3. PICK S, E : S = {g.nodes[n].type : n \in DOMAIN g.nodes} /\ E = {g.edges[e] : e \in DOMAIN g.edges}
  OBVIOUS
<1>4. PICK types, stated : /\ types = [i \in 1 .. N |-> g.nodes[i - 1].type]
                           /\ stated = [i \in 1 .. M |-> g.edges[i - 1]]
  OBVIOUS
<1>5. types = file.graph.nodes /\ stated = file.graph.edges
  BY <1>1, <1>4 DEF write_timing_graph
<1>6. types \in Seq(S) /\ Len(types) = N /\ \A n \in 0 .. N - 1 : types[n + 1] = g.nodes[n].type
  <2>1. \A i \in 1 .. N : i - 1 \in DOMAIN g.nodes
    BY <1>2
  <2>2. \A i \in 1 .. N : g.nodes[i - 1].type \in S
    BY <1>3, <2>1
  <2>3. \A n \in 0 .. N - 1 : n + 1 \in 1 .. N /\ (n + 1) - 1 = n
    BY <1>2
  <2>. QED
    BY <1>2, <1>4, <2>2, <2>3
<1>7. stated \in Seq(E) /\ Len(stated) = M /\ \A e \in 0 .. M - 1 : stated[e + 1] = g.edges[e]
  <2>1. \A i \in 1 .. M : i - 1 \in DOMAIN g.edges
    BY <1>2
  <2>2. \A i \in 1 .. M : g.edges[i - 1] \in E
    BY <1>3, <2>1
  <2>3. \A e \in 0 .. M - 1 : e + 1 \in 1 .. M /\ (e + 1) - 1 = e
    BY <1>2
  <2>. QED
    BY <1>2, <1>4, <2>2, <2>3
<1>8. Stated(E, Len(types))
  <2>1. \A e \in DOMAIN g.edges : /\ g.edges[e].src \in DOMAIN g.nodes /\ g.edges[e].sink \in DOMAIN g.nodes
                                  /\ g.edges[e].disabled \in BOOLEAN
    BY DEF Whole, Sound, NodesFull, EdgesFull, EndsListed, Typed, EdgeShape
  <2>. QED
    BY <1>2, <1>3, <1>6, <2>1 DEF Stated
<1>9. LoadedFrom(types, stated, r)
  BY <1>5, <1>6, <1>7, <1>8, FileLoaded
<1>10. Whole(r) /\ DOMAIN r.nodes = 0 .. N - 1 /\ DOMAIN r.edges = 0 .. M - 1
  BY <1>6, <1>7, <1>9 DEF LoadedFrom, NodesLoaded, EdgesLoaded
<1>11. \A n \in 0 .. N - 1 : r.nodes[n].type = g.nodes[n].type
  BY <1>6, <1>9, <1>10 DEF LoadedFrom, NodesLoaded
<1>12. \A e \in 0 .. M - 1 :
         /\ r.edges[e].type = g.edges[e].type /\ r.edges[e].disabled = g.edges[e].disabled
         /\ r.edges[e].src = g.edges[e].src   /\ r.edges[e].sink = g.edges[e].sink
  <2>. SUFFICES ASSUME NEW e \in 0 .. M - 1
                PROVE  /\ r.edges[e].type = g.edges[e].type /\ r.edges[e].disabled = g.edges[e].disabled
                       /\ r.edges[e].src = g.edges[e].src   /\ r.edges[e].sink = g.edges[e].sink
    OBVIOUS
  <2>1. PICK x : x = stated[e + 1]
    OBVIOUS
  <2>2. r.edges[e].type = x.type /\ r.edges[e].disabled = x.disabled
        /\ r.edges[e].src = x.src /\ r.edges[e].sink = x.sink
    BY <1>9, <1>10, <2>1 DEF LoadedFrom, EdgesLoaded
  <2>3. x = g.edges[e]
    BY <1>7, <2>1
  <2>. QED
    BY <2>2, <2>3
<1>. QED
  BY <1>2, <1>10, <1>11, <1>12

LEMMA ReloadedStarts ==
  ASSUME NEW g, NEW no, NEW eo, Started(g, no, eo), NEW file, file.graph = write_timing_graph(g),
         NEW r, r = graph_of(file)
  PROVE  Started(r, no, eo) /\ PartsOf(r, no) = PartsOf(g, no) /\ WiresOf(r, no, eo) = WiresOf(g, no, eo)
<1>1. /\ Whole(g) /\ Circuited(g, no, eo) /\ HandlesOK(no, NodeNames, ValidIds(g.nodes))
      /\ HandlesOK(eo, EdgeNames, ValidIds(g.edges))
      /\ ValidIds(g.nodes) = DOMAIN g.nodes /\ ValidIds(g.edges) = DOMAIN g.edges
  BY DEF Started, Whole, NodesFull, EdgesFull
<1>2. /\ Whole(r) /\ DOMAIN r.nodes = DOMAIN g.nodes /\ DOMAIN r.edges = DOMAIN g.edges
      /\ ValidIds(r.nodes) = DOMAIN g.nodes /\ ValidIds(r.edges) = DOMAIN g.edges
      /\ \A n \in DOMAIN g.nodes : r.nodes[n].type = g.nodes[n].type
      /\ \A e \in DOMAIN g.edges :
           /\ r.edges[e].type = g.edges[e].type /\ r.edges[e].disabled = g.edges[e].disabled
           /\ r.edges[e].src = g.edges[e].src   /\ r.edges[e].sink = g.edges[e].sink
  BY <1>1, WrittenIsLoaded DEF Whole, NodesFull, EdgesFull
<1>3. /\ \A x \in Known(no) : no[x] \in DOMAIN g.nodes
      /\ \A w \in Known(eo) : eo[w] \in DOMAIN g.edges
  BY <1>1 DEF Known, HandlesOK
<1>4. PartsOf(r, no) = PartsOf(g, no)
  BY <1>2, <1>3 DEF PartsOf
<1>5. WiresOf(r, no, eo) = WiresOf(g, no, eo)
  <2>1. \A w \in Known(eo) :
          /\ r.edges[eo[w]].type = g.edges[eo[w]].type /\ r.edges[eo[w]].disabled = g.edges[eo[w]].disabled
          /\ r.edges[eo[w]].src = g.edges[eo[w]].src   /\ r.edges[eo[w]].sink = g.edges[eo[w]].sink
    BY <1>2, <1>3
  <2>. QED
    BY <2>1 DEF WiresOf, WireOf
<1>. QED
  BY <1>1, <1>2, <1>4, <1>5 DEF Started, Circuited

(***************************************************************************)
(* The invariant: the graph is sound, a levelization that is kept is its   *)
(* own, and it is the circuit of the client's names.  A step of the client *)
(* is one of the graph alone, or a file is loaded.                         *)
(***************************************************************************)
SetupInv == GraphInv /\ AsDefined

LEMMA StartsSound ==
  ASSUME NEW g, NEW no, NEW eo, Started(g, no, eo),
         nodes = g.nodes, edges = g.edges, node_of = no, edge_of = eo, is_levelized = FALSE
  PROVE  SetupInv
<1>1. graph = g /\ Sound(g)
  BY DEF Started, Whole, Sound, Typed, graph
<1>2. GraphInv
  BY <1>1 DEF Started, GraphInv, LevelsOK
<1>3. parts = PartsOf(g, no) /\ wires = WiresOf(g, no, eo)
  BY <1>1, ClientSees
<1>4. AsDefined
  BY <1>3 DEF Started, Circuited, AsDefined
<1>. QED
  BY <1>2, <1>4 DEF SetupInv

LEMMA LoadedSound ==
  ASSUME NEW g, NEW no, NEW eo, Started(g, no, eo),
         nodes' = g.nodes, edges' = g.edges, node_of' = no, edge_of' = eo, is_levelized' = FALSE
  PROVE  SetupInv' /\ parts' = PartsOf(g, no) /\ wires' = WiresOf(g, no, eo)
<1>1. graph' = g /\ Sound(g)
  BY DEF Started, Whole, Sound, Typed, graph
<1>2. GraphInv'
  BY <1>1 DEF Started, GraphInv, LevelsOK
<1>3. parts' = PartsOf(g, no) /\ wires' = WiresOf(g, no, eo)
  BY <1>1, ClientSeesNext
<1>4. AsDefined'
  BY <1>3 DEF Started, Circuited, AsDefined
<1>. QED
  BY <1>2, <1>3, <1>4 DEF SetupInv

LEMMA SetupStartsSound == SetupInit => SetupInv
<1>. SUFFICES ASSUME SetupInit PROVE SetupInv
  OBVIOUS
<1>1. PICK g, no, eo : g = graph_of(File) /\ no = Positions(NodeOrder) /\ eo = Positions(EdgeOrder)
  OBVIOUS
<1>2. nodes = g.nodes /\ edges = g.edges /\ node_of = no /\ edge_of = eo /\ is_levelized = FALSE
  BY <1>1 DEF SetupInit
<1>. QED
  BY <1>1, <1>2, FileStarts, StartsSound

LEMMA StartOverSound ==
  ASSUME StartOver
  PROVE  SetupInv'
<1>1. PICK g, no, eo : g = graph_of(File) /\ no = Positions(NodeOrder) /\ eo = Positions(EdgeOrder)
  OBVIOUS
<1>2. nodes' = g.nodes /\ edges' = g.edges /\ node_of' = no /\ edge_of' = eo /\ is_levelized' = FALSE
  BY <1>1 DEF StartOver, InvalidateLevels, SetLevelized
<1>. QED
  BY <1>1, <1>2, FileStarts, LoadedSound

LEMMA EchoSound ==
  ASSUME SetupInv, Echo
  PROVE  SetupInv' /\ parts' = parts /\ wires' = wires
<1>1. PICK g, no, eo : g = graph /\ no = node_of /\ eo = edge_of
  OBVIOUS
<1>2. Started(g, no, eo) /\ parts = PartsOf(g, no) /\ wires = WiresOf(g, no, eo)
  <2>1. g.nodes = nodes /\ g.edges = edges
    BY <1>1 DEF graph
  <2>2. parts = PartsOf(g, no) /\ wires = WiresOf(g, no, eo)
    BY <1>1, ClientSees
  <2>3. Whole(g)
    BY <1>1 DEF SetupInv, GraphInv, LevelsOK, Echo, Analysable, Validated
  <2>4. Circuited(g, no, eo)
    BY <2>2 DEF SetupInv, AsDefined, Circuited
  <2>. QED
    BY <1>1, <2>1, <2>2, <2>3, <2>4 DEF Started, SetupInv, GraphInv
<1>3. PICK file : /\ file.graph = write_timing_graph(g)
                  /\ nodes' = graph_of(file).nodes /\ edges' = graph_of(file).edges
  BY <1>1 DEF Echo, Written
<1>4. PICK r : r = graph_of(file)
  OBVIOUS
<1>5. Started(r, no, eo) /\ PartsOf(r, no) = PartsOf(g, no) /\ WiresOf(r, no, eo) = WiresOf(g, no, eo)
  BY <1>2, <1>3, <1>4, ReloadedStarts
<1>6. /\ nodes' = r.nodes /\ edges' = r.edges /\ node_of' = no /\ edge_of' = eo
      /\ is_levelized' = FALSE
  BY <1>1, <1>3, <1>4 DEF Echo, InvalidateLevels, SetLevelized, handles
<1>7. SetupInv' /\ parts' = PartsOf(r, no) /\ wires' = WiresOf(r, no, eo)
  BY <1>5, <1>6, LoadedSound
<1>. QED
  BY <1>2, <1>5, <1>7

LEMMA SetupStepsAreGraphSteps ==
  ASSUME [SetupNext]_setup_vars
  PROVE  [Next]_vars \/ StartOver \/ Echo
<1>1. ASSUME NEW s \in Settings, AddStatement(s) PROVE UNCHANGED vars
  BY <1>1 DEF AddStatement
<1>2. ASSUME NEW n \in NodeNames, UnmarkConstantGenerator(n) PROVE UNCHANGED vars
  BY <1>2 DEF UnmarkConstantGenerator
<1>3. ASSUME NEW n \in NodeNames, RemoveNode(n) PROVE Next
  BY <1>3 DEF RemoveNode, Next
<1>4. ASSUME NEW e \in EdgeNames, ChangeEdge(e) PROVE Next
  BY <1>4 DEF ChangeEdge, Next
<1>5. CASE Levelize
  BY <1>5 DEF Levelize, Next
<1>6. CASE CompressAll
  BY <1>6 DEF CompressAll, Next
<1>7. CASE OptimizeAll
  BY <1>7 DEF OptimizeAll, Next
<1>8. CASE UNCHANGED setup_vars
  BY <1>8 DEF setup_vars
<1>. QED
  BY <1>1, <1>2, <1>3, <1>4, <1>5, <1>6, <1>7, <1>8 DEF SetupNext

LEMMA SetupInvIsInductive == SetupInv /\ [SetupNext]_setup_vars => SetupInv'
<1>. SUFFICES ASSUME SetupInv, [SetupNext]_setup_vars PROVE SetupInv'
  OBVIOUS
<1>1. CASE [Next]_vars
  <2>1. GraphInv'
    BY <1>1, GraphInvIsInductive DEF SetupInv
  <2>2. [Named!Next]_(Named!circuit)
    BY <1>1, <2>1, NextIsNamedNext DEF SetupInv
  <2>3. AsDefined'
    BY <2>2, AsDefinedKept DEF SetupInv
  <2>. QED
    BY <2>1, <2>3 DEF SetupInv
<1>2. CASE StartOver
  BY <1>2, StartOverSound
<1>3. CASE Echo
  BY <1>3, EchoSound
<1>. QED
  BY <1>1, <1>2, <1>3, SetupStepsAreGraphSteps

(***************************************************************************)
(* Whatever the client adds, removes, disables, renumbers, writes and      *)
(* loads again, and whatever the analyses give: the graph stays sound, its *)
(* levelization current, and every part what the client's name says it is. *)
(***************************************************************************)
THEOREM SetupStaysSound == SetupSpec => []SetupInv
<1>. QED
  BY SetupStartsSound, SetupInvIsInductive, PTL DEF SetupSpec

(***************************************************************************)
(* Ids, edge lists and levels are right in every setup, loaded or changed. *)
(***************************************************************************)
THEOREM SetupStaysConsistent ==
  SetupSpec => [](TypeOK /\ ReferencesConsistent /\ LevelsCurrent)
<1>1. SetupInv => TypeOK /\ ReferencesConsistent /\ LevelsCurrent
  BY GraphInvTypes, GraphInvReferences, GraphInvLevels DEF SetupInv
<1>. QED
  BY <1>1, SetupStaysSound, PTL

(***************************************************************************)
(* Writing the setup and loading it keeps every part and every wire, with  *)
(* their types, ends and disabled flags, and the ids the client has.       *)
(***************************************************************************)
THEOREM ReloadKeepsCircuit == SetupSpec => [][Echo => parts' = parts /\ wires' = wires]_setup_vars
<1>1. SetupInv /\ [SetupNext]_setup_vars => [Echo => parts' = parts /\ wires' = wires]_setup_vars
  BY EchoSound
<1>. QED
  BY <1>1, SetupStaysSound, PTL DEF SetupSpec

(***************************************************************************)
(* What the constructor of an analyzer has accepted is a timing graph as   *)
(* the walkers, the analyzers and their proofs assume it.                  *)
(***************************************************************************)
THEOREM ValidatedCanBeWalked ==
  SetupSpec => [](Validated => Walked!GraphOK /\ Walked!ActiveLevelsIncrease)
<1>1. SetupInv => (Validated => Walked!GraphOK /\ Walked!ActiveLevelsIncrease)
  BY ValidatedIsWalkable DEF SetupInv, Validated
<1>. QED
  BY <1>1, SetupStaysSound, PTL

(***************************************************************************)
(* Level 0 is the nodes without active fan-in, which the walk starts with. *)
(***************************************************************************)
LEMMA FirstLevel ==
  ASSUME NEW g, Whole(g), NEW lv, lv = force_levelize(g), NEW n \in ToSet(lv.level_nodes[0])
  PROVE  n \in DOMAIN g.nodes /\ ActiveIn(g, n) = {}
<1>1. PICK w, last : w = LevelWalk(g) /\ last = LastOf(w)
  OBVIOUS
<1>2. PICK first : first = {k \in DOMAIN g.nodes : ActiveIn(g, k) = {}}
  OBVIOUS
<1>3. Linked(g) /\ IdRange(DOMAIN g.nodes)
  BY WholeIsLinked DEF Whole, Sound, Typed
<1>4. last \in Nat /\ last > 0
  <2>1. PICK seqs : seqs = [j \in 1 .. last + 1 |-> LevelList(g, w, last, j - 1)]
    OBVIOUS
  <2>. QED
    BY <1>1, <1>3, <2>1, LevelsListed
<1>5. lv.level_nodes = [l \in 0 .. last |-> LevelList(g, w, last, l)]
  BY <1>1 DEF force_levelize, LevelizationOf, LevelList, LastOf
<1>6. lv.level_nodes[0] = Kept(w.order, {k \in DOMAIN g.nodes : w.level[k] = 0})
  <2>1. lv.level_nodes[0] = LevelList(g, w, last, 0)
    BY <1>4, <1>5
  <2>. QED
    BY <1>4, <2>1 DEF LevelList
<1>7. StartFirst(g, w)
  BY <1>1, <1>3, WalkFinishes DEF Finished, WalkOK
<1>8. lv.level_nodes[0] = Kept(AllIds(g.nodes), first)
  BY <1>2, <1>6, <1>7 DEF StartFirst, WalkStart
<1>9. Kept(AllIds(g.nodes), first) \in Seq(DOMAIN g.nodes \cap first)
  <2>1. PICK f : f = g.nodes
    OBVIOUS
  <2>2. AllIds(f) \in Seq(DOMAIN f)
    BY <1>3, <2>1, AllIdsOnce
  <2>3. Kept(AllIds(f), first) \in Seq(DOMAIN f \cap first)
    BY <2>2, KeptOccurrences
  <2>. QED
    BY <2>1, <2>3
<1>10. n \in first
  BY <1>8, <1>9 DEF ToSet
<1>. QED
  BY <1>2, <1>10

(***************************************************************************)
(* What the constructors check leaves in level 0, where the pre-traversal  *)
(* asserts a start point: the start points, nodes whose fan-in is all      *)
(* disabled, undriven SINKs and, if dangling nodes are allowed, IPINs.     *)
(***************************************************************************)
LEMMA StartpointKinds ==
  ASSUME SetupInv, Validated, NEW n \in ToSet(levelization.level_nodes[0])
  PROVE  \/ IsStartpoint(n)
         \/ nodes[n].in # <<>> /\ ActiveIn(graph, n) = {}
         \/ /\ nodes[n].in = <<>>
            /\ nodes[n].type = "SINK" \/ (AllowDangling /\ nodes[n].type = "IPIN")
<1>1. graph.nodes = nodes
  BY DEF graph
<1>2. n \in DOMAIN nodes /\ ActiveIn(graph, n) = {}
  <2>1. PICK g, lv : g = graph /\ lv = levelization
    OBVIOUS
  <2>2. Whole(g) /\ lv = force_levelize(g) /\ n \in ToSet(lv.level_nodes[0])
    BY <2>1 DEF SetupInv, GraphInv, LevelsOK, Validated
  <2>. QED
    BY <1>1, <2>1, <2>2, FirstLevel
<1>. SUFFICES ASSUME nodes[n].in = <<>>
              PROVE  \/ IsStartpoint(n)
                     \/ nodes[n].type = "SINK" \/ (AllowDangling /\ nodes[n].type = "IPIN")
  BY <1>2
<1>3. nodes[n].type \in NodeTypes
  BY <1>2, TypesKnown DEF SetupInv, Validated, NoHoles
<1>4. CASE nodes[n].type = "SOURCE"
  BY <1>4 DEF IsStartpoint
<1>5. CASE nodes[n].type = "OPIN"
  BY <1>1, <1>2, <1>5 DEF IsStartpoint, Validated, validate_timing_graph_constraints
<1>6. ConnectivityOK(graph, n) /\ Len(graph.nodes[n].in) = 0
  BY <1>1, <1>2 DEF Validated, validate_structure
<1>7. CASE nodes[n].type = "IPIN"
  BY <1>1, <1>6, <1>7 DEF ConnectivityOK
<1>8. CASE nodes[n].type = "CPIN"
  BY <1>1, <1>6, <1>8 DEF ConnectivityOK
<1>. QED
  BY <1>3, <1>4, <1>5, <1>7, <1>8 DEF NodeTypes

(***************************************************************************)
(* The assertion of the pre-traversal can fail only for nodes of the kinds *)
(* the property names, in any setup that passed the constructors' checks.  *)
(***************************************************************************)
THEOREM StartpointsAreValidated == SetupSpec => []ValidatedStartpoints
<1>1. SetupInv => ValidatedStartpoints
  BY StartpointKinds DEF ValidatedStartpoints
<1>. QED
  BY <1>1, SetupStaysSound, PTL

(***************************************************************************)
(* The book of constraints.  A statement replaces the one with the same    *)
(* subject among those in force, section by section.                       *)
(***************************************************************************)
SameSubject(s, t) ==
  /\ s.kind = t.kind /\ s.launch = t.launch /\ s.capture = t.capture
  /\ s.kind = "CLOCK_SOURCE" \/ s.node = t.node

Replaced(S, s) == {t \in S : ~SameSubject(t, s)} \cup {s}

IsList(s) == s \in Seq(ToSet(s))

IoEntries(kind, entries) ==
  {Statement(kind, x.node, x.domain, NoDomain, x.time) : x \in ToSet(entries)}
ClockEntries(kind, map) ==
  {Statement(kind, k[3], k[1], k[2], map[k]) : k \in DOMAIN map}
PairEntries(kind, map) ==
  {Statement(kind, NoNode, k[1], k[2], map[k]) : k \in DOMAIN map}
SingleEntries(kind, map) ==
  {Statement(kind, NoNode, d, NoDomain, map[d]) : d \in DOMAIN map}

IoOK(entries, ids) ==
  /\ IsList(entries)
  /\ \A i \in DOMAIN entries :
       /\ entries[i] = [node |-> entries[i].node, domain |-> entries[i].domain,
                        time |-> entries[i].time]
       /\ entries[i].node \in ids /\ IsTime(entries[i].time)
  /\ \A i, j \in DOMAIN entries :
       entries[i].node = entries[j].node /\ entries[i].domain = entries[j].domain => i = j

ClockMapOK(map) ==
  /\ IsFiniteSet(DOMAIN map)
  /\ \A k \in DOMAIN map : k = <<k[1], k[2], NoNode>> /\ IsTime(map[k])

PairMapOK(map) == IsFiniteSet(DOMAIN map) /\ \A k \in DOMAIN map : k = <<k[1], k[2]>>

SingleMapOK(map) == IsFiniteSet(DOMAIN map)

LEMMA ListLonger ==
  ASSUME NEW s, IsList(s), NEW x
  PROVE  /\ IsList(Append(s, x)) /\ ToSet(Append(s, x)) = ToSet(s) \cup {x}
         /\ DOMAIN Append(s, x) = DOMAIN s \cup {Len(s) + 1} /\ Len(s) + 1 \notin DOMAIN s
         /\ Append(s, x)[Len(s) + 1] = x /\ \A i \in DOMAIN s : Append(s, x)[i] = s[i]
<1>1. PICK S : S = ToSet(s)
  OBVIOUS
<1>2. s \in Seq(S) /\ s \in Seq(S \cup {x})
  <2>1. s \in Seq(S)
    BY <1>1 DEF IsList
  <2>2. DOMAIN s = 1 .. Len(s) /\ Len(s) \in Nat /\ \A i \in 1 .. Len(s) : s[i] \in S
    BY <2>1
  <2>. QED
    BY <2>1, <2>2
<1>3. /\ Append(s, x) \in Seq(S \cup {x}) /\ Len(Append(s, x)) = Len(s) + 1
      /\ DOMAIN s = 1 .. Len(s) /\ Len(s) \in Nat /\ DOMAIN Append(s, x) = 1 .. Len(s) + 1
      /\ Append(s, x)[Len(s) + 1] = x /\ \A i \in 1 .. Len(s) : Append(s, x)[i] = s[i]
  BY <1>2, AppendProperties
<1>4. ToSet(Append(s, x)) = S \cup {x}
  BY <1>1, <1>2, ToSetAppend
<1>. QED
  BY <1>1, <1>3, <1>4 DEF IsList

IsPut(map, key, value, r) ==
  /\ DOMAIN r = DOMAIN map \cup {key} /\ IsFiniteSet(DOMAIN r)
  /\ r[key] = value /\ \A k \in DOMAIN map : k # key => r[k] = map[k]

LEMMA PutIn ==
  ASSUME NEW map, IsFiniteSet(DOMAIN map), NEW key, NEW value,
         NEW r, r = Constraints!Put(map, key, value)
  PROVE  IsPut(map, key, value, r)
<1>1. /\ DOMAIN r = DOMAIN map \cup {key}
      /\ r[key] = value /\ \A k \in DOMAIN map : k # key => r[k] = map[k]
  BY DEF Constraints!Put
<1>2. IsFiniteSet(DOMAIN map \cup {key})
  BY FS_AddElement
<1>. QED
  BY <1>1, <1>2 DEF IsPut

LEMMA ClockPut ==
  ASSUME NEW map, ClockMapOK(map), NEW kind, kind # "CLOCK_SOURCE", NEW l, NEW d, NEW value,
         IsTime(value), NEW key, key = <<l, d, NoNode>>, NEW r, r = Constraints!Put(map, key, value)
  PROVE  /\ ClockMapOK(r)
         /\ ClockEntries(kind, r) =
              Replaced(ClockEntries(kind, map), Statement(kind, NoNode, l, d, value))
<1>1. IsPut(map, key, value, r)
  <2>1. IsFiniteSet(DOMAIN map)
    BY DEF ClockMapOK
  <2>. QED
    BY <2>1, PutIn
<1>2. ClockMapOK(r)
  BY <1>1 DEF ClockMapOK, IsPut
<1>3. \A k \in DOMAIN map :
        k = key <=> SameSubject(Statement(kind, k[3], k[1], k[2], map[k]),
                                Statement(kind, NoNode, l, d, value))
  BY DEF ClockMapOK, SameSubject, Statement
<1>4. Statement(kind, key[3], key[1], key[2], r[key]) = Statement(kind, NoNode, l, d, value)
  BY <1>1 DEF IsPut
<1>. QED
  BY <1>1, <1>2, <1>3, <1>4 DEF ClockEntries, Replaced, IsPut

LEMMA PairPut ==
  ASSUME NEW map, PairMapOK(map), NEW kind, kind # "CLOCK_SOURCE", NEW l, NEW d, NEW value,
         NEW r, r = Constraints!Put(map, <<l, d>>, value)
  PROVE  /\ PairMapOK(r)
         /\ PairEntries(kind, r) =
              Replaced(PairEntries(kind, map), Statement(kind, NoNode, l, d, value))
<1>1. PICK key : key = <<l, d>>
  OBVIOUS
<1>2. IsPut(map, key, value, r)
  <2>1. IsFiniteSet(DOMAIN map)
    BY DEF PairMapOK
  <2>. QED
    BY <1>1, <2>1, PutIn
<1>3. PairMapOK(r)
  BY <1>1, <1>2 DEF PairMapOK, IsPut
<1>4. \A k \in DOMAIN map :
        k = key <=> SameSubject(Statement(kind, NoNode, k[1], k[2], map[k]),
                                Statement(kind, NoNode, l, d, value))
  BY <1>1 DEF PairMapOK, SameSubject, Statement
<1>5. Statement(kind, NoNode, key[1], key[2], r[key]) = Statement(kind, NoNode, l, d, value)
  BY <1>1, <1>2 DEF IsPut
<1>. QED
  BY <1>2, <1>3, <1>4, <1>5 DEF PairEntries, Replaced, IsPut

LEMMA SinglePut ==
  ASSUME NEW map, SingleMapOK(map), NEW kind, kind # "CLOCK_SOURCE", NEW d, NEW value,
         NEW r, r = Constraints!Put(map, d, value)
  PROVE  /\ SingleMapOK(r)
         /\ SingleEntries(kind, r) =
              Replaced(SingleEntries(kind, map), Statement(kind, NoNode, d, NoDomain, value))
<1>1. IsPut(map, d, value, r)
  <2>1. IsFiniteSet(DOMAIN map)
    BY DEF SingleMapOK
  <2>. QED
    BY <2>1, PutIn
<1>2. \A k \in DOMAIN map :
        k = d <=> SameSubject(Statement(kind, NoNode, k, NoDomain, map[k]),
                              Statement(kind, NoNode, d, NoDomain, value))
  BY DEF SameSubject, Statement
<1>. QED
  BY <1>1, <1>2 DEF SingleEntries, Replaced, SingleMapOK, IsPut

LEMMA EntryFound ==
  ASSUME NEW S, S \subseteq Nat, S # {}
  PROVE  Constraints!Min(S) \in S
<1>1. Min(S) \in S /\ \A y \in S : Min(S) <= y
  BY MinOfNaturals
<1>. QED
  BY <1>1 DEF Constraints!Min

LEMMA IoEntered ==
  ASSUME NEW entries, NEW ids, IoOK(entries, ids), NEW kind, kind # "CLOCK_SOURCE",
         NEW node \in ids, NEW d, NEW time, IsTime(time),
         NEW r, r = Constraints!SetIoConstraint(entries, node, d, time)
  PROVE  /\ IoOK(r, ids)
         /\ IoEntries(kind, r) =
              Replaced(IoEntries(kind, entries), Statement(kind, node, d, NoDomain, time))
<1>. DEFINE I   == {i \in 1 .. Len(entries) : entries[i].node = node /\ entries[i].domain = d}
            new == [node |-> node, domain |-> d, time |-> time]
<1>1. /\ IsList(entries) /\ DOMAIN entries = 1 .. Len(entries) /\ Len(entries) \in Nat
      /\ \A i \in DOMAIN entries :
           /\ entries[i] = [node |-> entries[i].node, domain |-> entries[i].domain,
                            time |-> entries[i].time]
           /\ entries[i].node \in ids /\ IsTime(entries[i].time)
      /\ \A i, j \in DOMAIN entries :
           entries[i].node = entries[j].node /\ entries[i].domain = entries[j].domain => i = j
  BY DEF IoOK, IsList
<1>2. \A i \in DOMAIN entries :
        i \in I <=> SameSubject(Statement(kind, entries[i].node, entries[i].domain, NoDomain, entries[i].time),
                                Statement(kind, node, d, NoDomain, time))
  BY <1>1 DEF SameSubject, Statement
<1>3. CASE I = {}
  <2>1. r = Append(entries, new)
    BY <1>3 DEF Constraints!SetIoConstraint, Constraints!SelectInSeq
  <2>2. /\ IsList(r) /\ DOMAIN r = DOMAIN entries \cup {Len(entries) + 1}
        /\ Len(entries) + 1 \notin DOMAIN entries
        /\ r[Len(entries) + 1] = new /\ \A i \in DOMAIN entries : r[i] = entries[i]
    BY <1>1, <2>1, ListLonger
  <2>3. PICK last : last = Len(entries) + 1
    OBVIOUS
  <2>4. \A i \in DOMAIN r : /\ r[i] = [node |-> r[i].node, domain |-> r[i].domain, time |-> r[i].time]
                            /\ r[i].node \in ids /\ IsTime(r[i].time)
    BY <1>1, <2>2, <2>3
  <2>5. \A i \in DOMAIN entries : ~(entries[i].node = node /\ entries[i].domain = d)
    BY <1>1, <1>3
  <2>6. \A i, j \in DOMAIN r : r[i].node = r[j].node /\ r[i].domain = r[j].domain => i = j
    BY <1>1, <2>2, <2>3, <2>5
  <2>7. IoEntries(kind, r) = {Statement(kind, r[i].node, r[i].domain, NoDomain, r[i].time) : i \in DOMAIN r}
        /\ IoEntries(kind, entries) =
             {Statement(kind, entries[i].node, entries[i].domain, NoDomain, entries[i].time) : i \in DOMAIN entries}
    BY DEF IoEntries, ToSet
  <2>8. r[last].node = node /\ r[last].domain = d /\ r[last].time = time
    BY <2>2, <2>3
  <2>. QED
    BY <1>2, <1>3, <2>2, <2>3, <2>4, <2>6, <2>7, <2>8 DEF IoOK, Replaced
<1>4. CASE I # {}
  <2>1. PICK p \in I : r = [entries EXCEPT ![p].time = time]
    <3>1. I \subseteq Nat
      OBVIOUS
    <3>2. Constraints!Min(I) \in I
      BY <1>4, <3>1, EntryFound
    <3>3. Constraints!Min(I) # 0
      BY <3>2
    <3>. QED
      BY <1>4, <3>2, <3>3 DEF Constraints!SetIoConstraint, Constraints!SelectInSeq
  <2>2. p \in DOMAIN entries /\ entries[p].node = node /\ entries[p].domain = d
    BY <1>1, <2>1
  <2>3. /\ DOMAIN r = DOMAIN entries /\ \A i \in DOMAIN entries : i # p => r[i] = entries[i]
        /\ r[p] = new
    <3>1. PICK x : x = entries[p]
      OBVIOUS
    <3>2. x = [node |-> node, domain |-> d, time |-> x.time]
      BY <1>1, <2>2, <3>1
    <3>3. DOMAIN r = DOMAIN entries /\ \A i \in DOMAIN entries : i # p => r[i] = entries[i]
      BY <2>1
    <3>4. r[p] = [x EXCEPT !.time = time]
      BY <2>1, <2>2, <3>1
    <3>. QED
      BY <3>2, <3>3, <3>4
  <2>. HIDE DEF I
  <2>4. IsList(r)
    <3>1. PICK n \in Nat : DOMAIN r = 1 .. n
      BY <1>1, <2>3
    <3>2. r = [i \in 1 .. n |-> r[i]]
      BY <2>1, <2>3, <3>1
    <3>3. \A i \in 1 .. n : r[i] \in ToSet(r)
      BY <3>1 DEF ToSet
    <3>. QED
      BY SMTT(30), <3>1, <3>2, <3>3 DEF IsList
  <2>5. \A i \in DOMAIN r : /\ r[i] = [node |-> r[i].node, domain |-> r[i].domain, time |-> r[i].time]
                            /\ r[i].node \in ids /\ IsTime(r[i].time)
    BY <1>1, <2>2, <2>3
  <2>6. \A i \in DOMAIN r : r[i].node = entries[i].node /\ r[i].domain = entries[i].domain
    BY <2>2, <2>3
  <2>7. \A i, j \in DOMAIN r : r[i].node = r[j].node /\ r[i].domain = r[j].domain => i = j
    BY <1>1, <2>3, <2>6
  <2>8. IoEntries(kind, r) = {Statement(kind, r[i].node, r[i].domain, NoDomain, r[i].time) : i \in DOMAIN r}
        /\ IoEntries(kind, entries) =
             {Statement(kind, entries[i].node, entries[i].domain, NoDomain, entries[i].time) : i \in DOMAIN entries}
    BY DEF IoEntries, ToSet
  <2>9. \A i \in DOMAIN entries : i \in I <=> i = p
    BY <1>1, <2>2 DEF I
  <2>10. r[p].node = node /\ r[p].domain = d /\ r[p].time = time
    BY <2>3
  <2>. QED
    BY <1>2, <2>2, <2>3, <2>4, <2>5, <2>7, <2>8, <2>9, <2>10 DEF IoOK, Replaced
<1>. QED
  BY <1>3, <1>4

(***************************************************************************)
(* Clocks, their sources, and constant generators.                         *)
(***************************************************************************)
DomainEntries(names, domains) ==
  {Statement("CLOCK", NoNode, d, NoDomain, names[d + 1]) : d \in ToSet(domains)}
SourceEntries(domains, source) ==
  {Statement("CLOCK_SOURCE", source[d], d, NoDomain, NaN) :
     d \in {x \in ToSet(domains) : source[x] # NoNode}}
GeneratorEntries(gens) ==
  {Statement("CONSTANT_GENERATOR", n, NoDomain, NoDomain, NaN) : n \in gens}

ClocksOK(names, domains, source, all) ==
  /\ IsList(names)
  /\ \A i, j \in DOMAIN names : names[i] = names[j] => i = j
  /\ domains = [i \in 1 .. Len(names) |-> i - 1]
  /\ IsFiniteSet(DOMAIN source)
  /\ \A d \in 0 .. Len(names) - 1 : d \in DOMAIN source /\ source[d] \in all \cup {NoNode}

GeneratorsOK(gens, ids) == gens \subseteq ids /\ IsFiniteSet(gens)

LEMMA DomainIds ==
  ASSUME NEW names, NEW domains, NEW source, NEW all, ClocksOK(names, domains, source, all)
  PROVE  /\ ToSet(domains) = 0 .. Len(names) - 1 /\ Len(names) \in Nat
         /\ domains \in Seq(Int) /\ Len(domains) = Len(names)
         /\ DOMAIN names = 1 .. Len(names) /\ DOMAIN domains = 1 .. Len(names)
         /\ \A d \in ToSet(domains) : d + 1 \in DOMAIN names /\ d \in Nat
<1>1. Len(names) \in Nat /\ DOMAIN names = 1 .. Len(names)
  BY DEF ClocksOK, IsList
<1>2. domains = [i \in 1 .. Len(names) |-> i - 1]
  BY DEF ClocksOK
<1>3. domains \in Seq(Int) /\ Len(domains) = Len(names) /\ DOMAIN domains = 1 .. Len(names)
  BY <1>1, <1>2
<1>4. ToSet(domains) = 0 .. Len(names) - 1
  <2>1. \A i \in 1 .. Len(names) : domains[i] = i - 1
    BY <1>2
  <2>2. ASSUME NEW d \in 0 .. Len(names) - 1 PROVE d \in ToSet(domains)
    <3>1. d + 1 \in 1 .. Len(names) /\ (d + 1) - 1 = d
      BY <1>1
    <3>2. domains[d + 1] = d
      BY <2>1, <3>1
    <3>. QED
      BY <1>3, <3>1, <3>2 DEF ToSet
  <2>3. ASSUME NEW d \in ToSet(domains) PROVE d \in 0 .. Len(names) - 1
    <3>1. PICK i \in 1 .. Len(names) : d = domains[i]
      BY <1>3 DEF ToSet
    <3>. QED
      BY <1>1, <2>1, <3>1
  <2>. QED
    BY <2>2, <2>3
<1>. QED
  BY <1>1, <1>3, <1>4

LEMMA DomainFound ==
  ASSUME NEW c, NEW source, NEW all, ClocksOK(c.names, c.domains, source, all)
  PROVE  /\ \A i \in DOMAIN c.names : Constraints!find_clock_domain(c, c.names[i]) = i - 1
         /\ \A x : x \notin ToSet(c.names) => Constraints!find_clock_domain(c, x) = NoDomain
<1>1. PICK names : names = c.names
  OBVIOUS
<1>2. /\ Len(names) \in Nat /\ DOMAIN names = 1 .. Len(names)
      /\ \A i, j \in DOMAIN names : names[i] = names[j] => i = j
  BY <1>1 DEF ClocksOK, IsList
<1>3. ASSUME NEW i \in DOMAIN names PROVE Constraints!find_clock_domain(c, names[i]) = i - 1
  <2>. DEFINE I == {k \in 1 .. Len(names) : names[k] = names[i]}
  <2>1. I = {i} /\ i \in Nat /\ i # 0
    BY <1>2
  <2>2. Constraints!Min(I) = i
    BY <2>1, EntryFound
  <2>3. Constraints!SelectInSeq(c.names, LAMBDA y : y = names[i]) = i
    BY <1>1, <2>1, <2>2 DEF Constraints!SelectInSeq
  <2>. QED
    BY <2>1, <2>3 DEF Constraints!find_clock_domain
<1>4. ASSUME NEW x, x \notin ToSet(names) PROVE Constraints!find_clock_domain(c, x) = NoDomain
  <2>1. {k \in 1 .. Len(names) : names[k] = x} = {}
    BY <1>2, <1>4 DEF ToSet
  <2>2. Constraints!SelectInSeq(c.names, LAMBDA y : y = x) = 0
    BY <1>1, <2>1 DEF Constraints!SelectInSeq
  <2>. QED
    BY <2>2 DEF Constraints!find_clock_domain, Constraints!NoDomain, NoDomain
<1>. QED
  BY <1>1, <1>3, <1>4

\* One more clock, of a new name.
Declares(names, domains, source, name, id, n2, d2, s2) ==
  /\ name \notin ToSet(names) /\ id = Len(domains)
  /\ n2 = Append(names, name) /\ d2 = Append(domains, id)
  /\ s2 = Constraints!Put(source, id, NoNode)

LEMMA ClockAdded ==
  ASSUME NEW names, NEW domains, NEW source, NEW all, ClocksOK(names, domains, source, all),
         NEW name, NEW id, NEW n2, NEW d2, NEW s2,
         Declares(names, domains, source, name, id, n2, d2, s2)
  PROVE  /\ ClocksOK(n2, d2, s2, all)
         /\ DomainEntries(n2, d2) =
              Replaced(DomainEntries(names, domains), Statement("CLOCK", NoNode, id, NoDomain, name))
         /\ SourceEntries(d2, s2) = SourceEntries(domains, source)
<1>. USE DEF Declares
<1>1. /\ ToSet(domains) = 0 .. Len(names) - 1 /\ Len(names) \in Nat /\ id = Len(names)
      /\ domains \in Seq(Int) /\ Len(domains) = Len(names)
      /\ DOMAIN names = 1 .. Len(names) /\ DOMAIN domains = 1 .. Len(names)
  BY DomainIds
<1>2. IsList(names) /\ IsFiniteSet(DOMAIN source) /\ \A i \in 1 .. Len(names) : domains[i] = i - 1
  BY DEF ClocksOK
<1>3. /\ IsList(n2) /\ DOMAIN n2 = DOMAIN names \cup {Len(names) + 1}
      /\ n2[Len(names) + 1] = name /\ \A i \in DOMAIN names : n2[i] = names[i]
  BY <1>2, ListLonger
<1>4. IsPut(source, id, NoNode, s2)
  BY <1>2, PutIn
<1>5. Len(n2) = id + 1 /\ DOMAIN n2 = 1 .. id + 1
  BY <1>1, <1>3 DEF IsList
<1>6. \A i, j \in DOMAIN n2 : n2[i] = n2[j] => i = j
  <2>1. \A i \in DOMAIN names : names[i] # name
    BY DEF ToSet
  <2>2. \A i, j \in DOMAIN names : names[i] = names[j] => i = j
    BY DEF ClocksOK
  <2>. QED
    BY <1>3, <2>1, <2>2
<1>7. d2 = [i \in 1 .. Len(n2) |-> i - 1]
  <2>1. id \in Int /\ d2 \in Seq(Int) /\ Len(d2) = id + 1
    BY <1>1
  <2>2. \A i \in 1 .. id + 1 : d2[i] = i - 1
    BY <1>1, <1>2
  <2>3. d2 = [i \in 1 .. Len(d2) |-> d2[i]]
    <3>1. \A q \in Seq(Int) : q = [i \in 1 .. Len(q) |-> q[i]]
      OBVIOUS
    <3>. QED
      BY <2>1, <3>1, Zenon
  <2>. QED
    BY <1>5, <2>1, <2>2, <2>3
<1>8. \A d \in 0 .. Len(n2) - 1 : d \in DOMAIN s2 /\ s2[d] \in all \cup {NoNode}
  <2>1. \A d \in 0 .. Len(names) - 1 : d \in DOMAIN source /\ source[d] \in all \cup {NoNode}
    BY DEF ClocksOK
  <2>. QED
    BY <1>1, <1>4, <1>5, <2>1 DEF IsPut
<1>9. ClocksOK(n2, d2, s2, all)
  BY <1>3, <1>4, <1>6, <1>7, <1>8 DEF ClocksOK, IsPut
<1>10. ToSet(d2) = ToSet(domains) \cup {id} /\ id \notin ToSet(domains)
  <2>1. ToSet(d2) = 0 .. Len(n2) - 1
    BY <1>9, DomainIds
  <2>. QED
    BY <1>1, <1>5, <2>1
<1>11. \A d \in ToSet(domains) : n2[d + 1] = names[d + 1] /\ d # id
  BY <1>1, <1>3
<1>12. n2[id + 1] = name
  BY <1>1, <1>3
<1>13. \A d \in ToSet(domains) :
         ~SameSubject(Statement("CLOCK", NoNode, d, NoDomain, names[d + 1]),
                      Statement("CLOCK", NoNode, id, NoDomain, name))
  BY <1>11 DEF SameSubject, Statement
<1>14. DomainEntries(n2, d2) =
         Replaced(DomainEntries(names, domains), Statement("CLOCK", NoNode, id, NoDomain, name))
  <2>. DEFINE old(d) == Statement("CLOCK", NoNode, d, NoDomain, names[d + 1])
              now(d) == Statement("CLOCK", NoNode, d, NoDomain, n2[d + 1])
              added  == Statement("CLOCK", NoNode, id, NoDomain, name)
  <2>1. now(id) = added /\ \A d \in ToSet(domains) : now(d) = old(d) /\ ~SameSubject(old(d), added)
    BY <1>11, <1>12, <1>13
  <2>2. /\ DomainEntries(n2, d2) = {now(d) : d \in ToSet(d2)}
        /\ DomainEntries(names, domains) = {old(d) : d \in ToSet(domains)}
    BY DEF DomainEntries
  <2>. HIDE DEF old, now, added
  <2>3. {now(d) : d \in ToSet(d2)} = {old(d) : d \in ToSet(domains)} \cup {added}
    BY <1>10, <2>1
  <2>4. \A t \in DomainEntries(names, domains) : ~SameSubject(t, added)
    BY <2>1, <2>2
  <2>5. Replaced(DomainEntries(names, domains), added) = DomainEntries(names, domains) \cup {added}
    BY <2>4 DEF Replaced
  <2>6. DomainEntries(n2, d2) = Replaced(DomainEntries(names, domains), added)
    BY <2>2, <2>3, <2>5
  <2>. QED
    BY <2>6 DEF added
<1>15. \A d \in ToSet(domains) : s2[d] = source[d]
  <2>1. \A d \in ToSet(domains) : d \in DOMAIN source
    BY <1>1 DEF ClocksOK
  <2>. QED
    BY <1>4, <1>11, <2>1 DEF IsPut
<1>16. s2[id] = NoNode
  BY <1>4 DEF IsPut
<1>17. {x \in ToSet(d2) : s2[x] # NoNode} = {x \in ToSet(domains) : source[x] # NoNode}
  BY <1>10, <1>15, <1>16
<1>18. SourceEntries(d2, s2) = SourceEntries(domains, source)
  BY <1>15, <1>17 DEF SourceEntries
<1>. QED
  BY <1>9, <1>14, <1>18

LEMMA SourcePut ==
  ASSUME NEW names, NEW domains, NEW source, NEW all, ClocksOK(names, domains, source, all),
         NoNode \notin all, NEW node \in all, NEW d, NEW s2, s2 = Constraints!Put(source, d, node)
  PROVE  /\ ClocksOK(names, domains, s2, all)
         /\ d \in ToSet(domains) =>
              SourceEntries(domains, s2) =
                Replaced(SourceEntries(domains, source),
                         Statement("CLOCK_SOURCE", node, d, NoDomain, NaN))
         /\ d \notin ToSet(domains) => SourceEntries(domains, s2) = SourceEntries(domains, source)
<1>1. IsPut(source, d, node, s2)
  <2>1. IsFiniteSet(DOMAIN source)
    BY DEF ClocksOK
  <2>. QED
    BY <2>1, PutIn
<1>2. ClocksOK(names, domains, s2, all)
  BY <1>1 DEF ClocksOK, IsPut
<1>3. \A x \in ToSet(domains) : s2[x] = IF x = d THEN node ELSE source[x]
  <2>1. \A x \in ToSet(domains) : x \in DOMAIN source
    BY ZenonT(40), DomainIds DEF ClocksOK
  <2>. QED
    BY <1>1, <2>1 DEF IsPut
<1>4. ASSUME d \notin ToSet(domains) PROVE SourceEntries(domains, s2) = SourceEntries(domains, source)
  BY <1>3, <1>4 DEF SourceEntries
<1>5. ASSUME d \in ToSet(domains)
      PROVE  SourceEntries(domains, s2) =
               Replaced(SourceEntries(domains, source),
                        Statement("CLOCK_SOURCE", node, d, NoDomain, NaN))
  <2>1. \A x : x = d <=> SameSubject(Statement("CLOCK_SOURCE", source[x], x, NoDomain, NaN),
                                     Statement("CLOCK_SOURCE", node, d, NoDomain, NaN))
    BY DEF SameSubject, Statement
  <2>2. node # NoNode
    OBVIOUS
  <2>. QED
    BY <1>3, <1>5, <2>1, <2>2 DEF SourceEntries, Replaced
<1>. QED
  BY <1>2, <1>4, <1>5

LEMMA GeneratorMarked ==
  ASSUME NEW gens, NEW ids, GeneratorsOK(gens, ids), NEW n \in ids
  PROVE  /\ GeneratorsOK(gens \cup {n}, ids)
         /\ GeneratorEntries(gens \cup {n}) =
              Replaced(GeneratorEntries(gens),
                       Statement("CONSTANT_GENERATOR", n, NoDomain, NoDomain, NaN))
<1>1. GeneratorsOK(gens \cup {n}, ids)
  <2>1. IsFiniteSet(gens \cup {n})
    BY FS_AddElement DEF GeneratorsOK
  <2>. QED
    BY <2>1 DEF GeneratorsOK
<1>2. \A x : x = n <=> SameSubject(Statement("CONSTANT_GENERATOR", x, NoDomain, NoDomain, NaN),
                                   Statement("CONSTANT_GENERATOR", n, NoDomain, NoDomain, NaN))
  BY DEF SameSubject, Statement
<1>. QED
  BY <1>1, <1>2 DEF GeneratorEntries, Replaced

(***************************************************************************)
(* The record of constraints and its sections.                             *)
(***************************************************************************)
HasFields(c) ==
  c = [names |-> c.names, domains |-> c.domains, source |-> c.source,
       const_gens |-> c.const_gens,
       input  |-> [dt \in {"MAX", "MIN"} |-> c.input[dt]],
       output |-> [dt \in {"MAX", "MIN"} |-> c.output[dt]],
       setup |-> c.setup, hold |-> c.hold, setup_uncertainty |-> c.setup_uncertainty,
       hold_uncertainty |-> c.hold_uncertainty,
       latency |-> [a \in {"EARLY", "LATE"} |-> c.latency[a]]]

ConstraintsOK(c, ids, all) ==
  /\ HasFields(c)
  /\ ClocksOK(c.names, c.domains, c.source, all)
  /\ GeneratorsOK(c.const_gens, ids)
  /\ IoOK(c.input["MAX"], ids) /\ IoOK(c.input["MIN"], ids)
  /\ IoOK(c.output["MAX"], ids) /\ IoOK(c.output["MIN"], ids)
  /\ ClockMapOK(c.setup) /\ ClockMapOK(c.hold)
  /\ PairMapOK(c.setup_uncertainty) /\ PairMapOK(c.hold_uncertainty)
  /\ SingleMapOK(c.latency["EARLY"]) /\ SingleMapOK(c.latency["LATE"])

SectionsAre(c) ==
  /\ Section(c, "CLOCK") = DomainEntries(c.names, c.domains)
  /\ Section(c, "CLOCK_SOURCE") = SourceEntries(c.domains, c.source)
  /\ Section(c, "CONSTANT_GENERATOR") = GeneratorEntries(c.const_gens)
  /\ Section(c, "MAX_INPUT_CONSTRAINT") = IoEntries("MAX_INPUT_CONSTRAINT", c.input["MAX"])
  /\ Section(c, "MIN_INPUT_CONSTRAINT") = IoEntries("MIN_INPUT_CONSTRAINT", c.input["MIN"])
  /\ Section(c, "MAX_OUTPUT_CONSTRAINT") = IoEntries("MAX_OUTPUT_CONSTRAINT", c.output["MAX"])
  /\ Section(c, "MIN_OUTPUT_CONSTRAINT") = IoEntries("MIN_OUTPUT_CONSTRAINT", c.output["MIN"])
  /\ Section(c, "SETUP_CONSTRAINT") = ClockEntries("SETUP_CONSTRAINT", c.setup)
  /\ Section(c, "HOLD_CONSTRAINT") = ClockEntries("HOLD_CONSTRAINT", c.hold)
  /\ Section(c, "SETUP_UNCERTAINTY") = PairEntries("SETUP_UNCERTAINTY", c.setup_uncertainty)
  /\ Section(c, "HOLD_UNCERTAINTY") = PairEntries("HOLD_UNCERTAINTY", c.hold_uncertainty)
  /\ Section(c, "EARLY_SOURCE_LATENCY") = SingleEntries("EARLY_SOURCE_LATENCY", c.latency["EARLY"])
  /\ Section(c, "LATE_SOURCE_LATENCY") = SingleEntries("LATE_SOURCE_LATENCY", c.latency["LATE"])

LEMMA SectionsOf == \A c : SectionsAre(c)
<1>. SUFFICES ASSUME NEW c PROVE SectionsAre(c)
  OBVIOUS
<1>1. Section(c, "CLOCK") = DomainEntries(c.names, c.domains)
  BY DEF Section, DomainEntries
<1>2. Section(c, "CLOCK_SOURCE") = SourceEntries(c.domains, c.source)
  BY DEF Section, SourceEntries
<1>3. Section(c, "CONSTANT_GENERATOR") = GeneratorEntries(c.const_gens)
  BY DEF Section, GeneratorEntries
<1>4. Section(c, "MAX_INPUT_CONSTRAINT") = IoEntries("MAX_INPUT_CONSTRAINT", c.input["MAX"])
  BY DEF Section, IoEntries
<1>5. Section(c, "MIN_INPUT_CONSTRAINT") = IoEntries("MIN_INPUT_CONSTRAINT", c.input["MIN"])
  BY DEF Section, IoEntries
<1>6. Section(c, "MAX_OUTPUT_CONSTRAINT") = IoEntries("MAX_OUTPUT_CONSTRAINT", c.output["MAX"])
  BY DEF Section, IoEntries
<1>7. Section(c, "MIN_OUTPUT_CONSTRAINT") = IoEntries("MIN_OUTPUT_CONSTRAINT", c.output["MIN"])
  BY DEF Section, IoEntries
<1>8. Section(c, "SETUP_CONSTRAINT") = ClockEntries("SETUP_CONSTRAINT", c.setup)
  BY DEF Section, ClockEntries
<1>9. Section(c, "HOLD_CONSTRAINT") = ClockEntries("HOLD_CONSTRAINT", c.hold)
  BY DEF Section, ClockEntries
<1>10. Section(c, "SETUP_UNCERTAINTY") = PairEntries("SETUP_UNCERTAINTY", c.setup_uncertainty)
  BY DEF Section, PairEntries
<1>11. Section(c, "HOLD_UNCERTAINTY") = PairEntries("HOLD_UNCERTAINTY", c.hold_uncertainty)
  BY DEF Section, PairEntries
<1>12. Section(c, "EARLY_SOURCE_LATENCY") = SingleEntries("EARLY_SOURCE_LATENCY", c.latency["EARLY"])
  BY DEF Section, SingleEntries
<1>13. Section(c, "LATE_SOURCE_LATENCY") = SingleEntries("LATE_SOURCE_LATENCY", c.latency["LATE"])
  BY DEF Section, SingleEntries
<1>. QED
  BY <1>1, <1>2, <1>3, <1>4, <1>5, <1>6, <1>7, <1>8,
     <1>9, <1>10, <1>11, <1>12, <1>13 DEF SectionsAre

SameBut(c, r, kind) ==
  /\ HasFields(r)
  /\ kind # "CLOCK" => r.names = c.names /\ r.domains = c.domains
  /\ kind \notin {"CLOCK", "CLOCK_SOURCE"} => r.source = c.source
  /\ kind # "CONSTANT_GENERATOR" => r.const_gens = c.const_gens
  /\ kind # "MAX_INPUT_CONSTRAINT" => r.input["MAX"] = c.input["MAX"]
  /\ kind # "MIN_INPUT_CONSTRAINT" => r.input["MIN"] = c.input["MIN"]
  /\ kind # "MAX_OUTPUT_CONSTRAINT" => r.output["MAX"] = c.output["MAX"]
  /\ kind # "MIN_OUTPUT_CONSTRAINT" => r.output["MIN"] = c.output["MIN"]
  /\ kind # "SETUP_CONSTRAINT" => r.setup = c.setup
  /\ kind # "HOLD_CONSTRAINT" => r.hold = c.hold
  /\ kind # "SETUP_UNCERTAINTY" => r.setup_uncertainty = c.setup_uncertainty
  /\ kind # "HOLD_UNCERTAINTY" => r.hold_uncertainty = c.hold_uncertainty
  /\ kind # "EARLY_SOURCE_LATENCY" => r.latency["EARLY"] = c.latency["EARLY"]
  /\ kind # "LATE_SOURCE_LATENCY" => r.latency["LATE"] = c.latency["LATE"]

LEMMA OthersStay ==
  ASSUME NEW c, NEW r, NEW kind, SameBut(c, r, kind),
         kind = "CLOCK" => SourceEntries(r.domains, r.source) = SourceEntries(c.domains, c.source)
  PROVE  \A k \in Kinds : k # kind => Section(r, k) = Section(c, k)
<1>. SUFFICES ASSUME NEW k \in Kinds, k # kind PROVE Section(r, k) = Section(c, k)
  OBVIOUS
<1>0. SectionsAre(c) /\ SectionsAre(r)
  BY SectionsOf
<1>1. CASE k = "CLOCK"
  BY <1>0, <1>1 DEF SectionsAre, SameBut
<1>2. CASE k = "CLOCK_SOURCE"
  BY <1>0, <1>2 DEF SectionsAre, SameBut
<1>3. CASE k = "CONSTANT_GENERATOR"
  BY <1>0, <1>3 DEF SectionsAre, SameBut
<1>4. CASE k = "MAX_INPUT_CONSTRAINT"
  BY <1>0, <1>4 DEF SectionsAre, SameBut
<1>5. CASE k = "MIN_INPUT_CONSTRAINT"
  BY <1>0, <1>5 DEF SectionsAre, SameBut
<1>6. CASE k = "MAX_OUTPUT_CONSTRAINT"
  BY <1>0, <1>6 DEF SectionsAre, SameBut
<1>7. CASE k = "MIN_OUTPUT_CONSTRAINT"
  BY <1>0, <1>7 DEF SectionsAre, SameBut
<1>8. CASE k = "SETUP_CONSTRAINT"
  BY <1>0, <1>8 DEF SectionsAre, SameBut
<1>9. CASE k = "HOLD_CONSTRAINT"
  BY <1>0, <1>9 DEF SectionsAre, SameBut
<1>10. CASE k = "SETUP_UNCERTAINTY"
  BY <1>0, <1>10 DEF SectionsAre, SameBut
<1>11. CASE k = "HOLD_UNCERTAINTY"
  BY <1>0, <1>11 DEF SectionsAre, SameBut
<1>12. CASE k = "EARLY_SOURCE_LATENCY"
  BY <1>0, <1>12 DEF SectionsAre, SameBut
<1>13. CASE k = "LATE_SOURCE_LATENCY"
  BY <1>0, <1>13 DEF SectionsAre, SameBut
<1>. QED
  BY <1>1, <1>2, <1>3, <1>4, <1>5, <1>6, <1>7, <1>8,
     <1>9, <1>10, <1>11, <1>12, <1>13 DEF Kinds

LEMMA SectionKinds ==
  \A c, k : k \in Kinds => \A t \in Section(c, k) : t.kind = k
<1>. SUFFICES ASSUME NEW c, NEW k \in Kinds, NEW t \in Section(c, k) PROVE t.kind = k
  OBVIOUS
<1>0. SectionsAre(c)
  BY SectionsOf
<1>1. CASE k = "CLOCK"
  BY <1>0, <1>1 DEF SectionsAre, DomainEntries, Statement
<1>2. CASE k = "CLOCK_SOURCE"
  BY <1>0, <1>2 DEF SectionsAre, SourceEntries, Statement
<1>3. CASE k = "CONSTANT_GENERATOR"
  BY <1>0, <1>3 DEF SectionsAre, GeneratorEntries, Statement
<1>4. CASE k = "MAX_INPUT_CONSTRAINT"
  BY <1>0, <1>4 DEF SectionsAre, IoEntries, Statement
<1>5. CASE k = "MIN_INPUT_CONSTRAINT"
  BY <1>0, <1>5 DEF SectionsAre, IoEntries, Statement
<1>6. CASE k = "MAX_OUTPUT_CONSTRAINT"
  BY <1>0, <1>6 DEF SectionsAre, IoEntries, Statement
<1>7. CASE k = "MIN_OUTPUT_CONSTRAINT"
  BY <1>0, <1>7 DEF SectionsAre, IoEntries, Statement
<1>8. CASE k = "SETUP_CONSTRAINT"
  BY <1>0, <1>8 DEF SectionsAre, ClockEntries, Statement
<1>9. CASE k = "HOLD_CONSTRAINT"
  BY <1>0, <1>9 DEF SectionsAre, ClockEntries, Statement
<1>10. CASE k = "SETUP_UNCERTAINTY"
  BY <1>0, <1>10 DEF SectionsAre, PairEntries, Statement
<1>11. CASE k = "HOLD_UNCERTAINTY"
  BY <1>0, <1>11 DEF SectionsAre, PairEntries, Statement
<1>12. CASE k = "EARLY_SOURCE_LATENCY"
  BY <1>0, <1>12 DEF SectionsAre, SingleEntries, Statement
<1>13. CASE k = "LATE_SOURCE_LATENCY"
  BY <1>0, <1>13 DEF SectionsAre, SingleEntries, Statement
<1>. QED
  BY <1>1, <1>2, <1>3, <1>4, <1>5, <1>6, <1>7, <1>8,
     <1>9, <1>10, <1>11, <1>12, <1>13 DEF Kinds

LEMMA SectionEnters ==
  ASSUME NEW c, NEW r, NEW s, s.kind \in Kinds,
         \A k \in Kinds : k # s.kind => Section(r, k) = Section(c, k),
         Section(r, s.kind) = Replaced(Section(c, s.kind), s)
  PROVE  InForce(r) = Replaced(InForce(c), s)
<1>1. \A k \in Kinds : k # s.kind => \A t \in Section(c, k) : ~SameSubject(t, s)
  BY SectionKinds DEF SameSubject
<1>2. ASSUME NEW t \in InForce(r) PROVE t \in Replaced(InForce(c), s)
  <2>1. PICK k \in Kinds : t \in Section(r, k)
    BY <1>2 DEF InForce
  <2>2. CASE k = s.kind
    BY <2>1, <2>2 DEF Replaced, InForce
  <2>3. CASE k # s.kind
    BY <1>1, <2>1, <2>3 DEF Replaced, InForce
  <2>. QED
    BY <2>2, <2>3
<1>3. ASSUME NEW t \in Replaced(InForce(c), s) PROVE t \in InForce(r)
  <2>1. CASE t = s
    <3>1. s \in Section(r, s.kind)
      BY DEF Replaced
    <3>. QED
      BY <2>1, <3>1 DEF InForce
  <2>2. CASE t # s
    <3>1. PICK k \in Kinds : t \in Section(c, k) /\ ~SameSubject(t, s)
      BY <1>3, <2>2 DEF Replaced, InForce
    <3>2. t \in Section(r, k)
      BY <3>1 DEF Replaced
    <3>. QED
      BY <3>2 DEF InForce
  <2>. QED
    BY <2>1, <2>2
<1>. QED
  BY <1>2, <1>3

(***************************************************************************)
(* Reading a statement enters it among those in force.                     *)
(***************************************************************************)
PartOK(c, kind, ids, all) ==
  /\ kind \in {"CLOCK", "CLOCK_SOURCE"} => ClocksOK(c.names, c.domains, c.source, all)
  /\ kind = "CONSTANT_GENERATOR" => GeneratorsOK(c.const_gens, ids)
  /\ kind = "MAX_INPUT_CONSTRAINT" => IoOK(c.input["MAX"], ids)
  /\ kind = "MIN_INPUT_CONSTRAINT" => IoOK(c.input["MIN"], ids)
  /\ kind = "MAX_OUTPUT_CONSTRAINT" => IoOK(c.output["MAX"], ids)
  /\ kind = "MIN_OUTPUT_CONSTRAINT" => IoOK(c.output["MIN"], ids)
  /\ kind = "SETUP_CONSTRAINT" => ClockMapOK(c.setup)
  /\ kind = "HOLD_CONSTRAINT" => ClockMapOK(c.hold)
  /\ kind = "SETUP_UNCERTAINTY" => PairMapOK(c.setup_uncertainty)
  /\ kind = "HOLD_UNCERTAINTY" => PairMapOK(c.hold_uncertainty)
  /\ kind = "EARLY_SOURCE_LATENCY" => SingleMapOK(c.latency["EARLY"])
  /\ kind = "LATE_SOURCE_LATENCY" => SingleMapOK(c.latency["LATE"])

Enters(c, r, s, ids, all) ==
  ConstraintsOK(r, ids, all) /\ InForce(r) = Replaced(InForce(c), s)

LEMMA PartEnters ==
  ASSUME NEW c, NEW ids, NEW all, ConstraintsOK(c, ids, all), NEW s, NEW kind \in Kinds,
         s.kind = kind, NEW r, SameBut(c, r, kind), PartOK(r, kind, ids, all),
         kind = "CLOCK" => SourceEntries(r.domains, r.source) = SourceEntries(c.domains, c.source),
         Section(r, kind) = Replaced(Section(c, kind), s)
  PROVE  Enters(c, r, s, ids, all)
<1>1. InForce(r) = Replaced(InForce(c), s)
  <2>1. \A k \in Kinds : k # kind => Section(r, k) = Section(c, k)
    BY OthersStay
  <2>. QED
    BY <2>1, SectionEnters
<1>2. ClocksOK(r.names, r.domains, r.source, all)
  BY DEF ConstraintsOK, SameBut, PartOK
<1>3. GeneratorsOK(r.const_gens, ids)
  BY DEF ConstraintsOK, SameBut, PartOK
<1>4. /\ IoOK(r.input["MAX"], ids) /\ IoOK(r.input["MIN"], ids)
      /\ IoOK(r.output["MAX"], ids) /\ IoOK(r.output["MIN"], ids)
  BY DEF ConstraintsOK, SameBut, PartOK
<1>5. ClockMapOK(r.setup) /\ ClockMapOK(r.hold)
  BY DEF ConstraintsOK, SameBut, PartOK
<1>6. PairMapOK(r.setup_uncertainty) /\ PairMapOK(r.hold_uncertainty)
  BY DEF ConstraintsOK, SameBut, PartOK
<1>7. SingleMapOK(r.latency["EARLY"]) /\ SingleMapOK(r.latency["LATE"])
  BY DEF ConstraintsOK, SameBut, PartOK
<1>. QED
  BY <1>1, <1>2, <1>3, <1>4, <1>5, <1>6, <1>7 DEF Enters, ConstraintsOK, SameBut

LEMMA MaxInputRead ==
  ASSUME NEW c, NEW ids, NEW all, ConstraintsOK(c, ids, all), NEW s, WellFormed(s, ids, NoNode),
         s.kind = "MAX_INPUT_CONSTRAINT", NEW r, r = Read(c, s)
  PROVE  Enters(c, r, s, ids, all)
<1>1. s = Statement("MAX_INPUT_CONSTRAINT", s.node, s.launch, NoDomain, s.value) /\ s.node \in ids /\ IsTime(s.value)
  BY DEF WellFormed, IoKinds, PairKinds
<1>2. PICK new : new = Constraints!SetIoConstraint(c.input["MAX"], s.node, s.launch, s.value)
  OBVIOUS
<1>3. r = [c EXCEPT !.input["MAX"] = new]
  BY <1>1, <1>2 DEF Read, Constraints!set_input_constraint
<1>4. SameBut(c, r, "MAX_INPUT_CONSTRAINT") /\ r.input["MAX"] = new
  BY <1>3 DEF ConstraintsOK, HasFields, SameBut
<1>5. PICK old : old = c.input["MAX"] /\ IoOK(old, ids)
  BY DEF ConstraintsOK
<1>6. IoOK(new, ids) /\ IoEntries("MAX_INPUT_CONSTRAINT", new) = Replaced(IoEntries("MAX_INPUT_CONSTRAINT", old), s)
  BY <1>1, <1>2, <1>5, IoEntered
<1>7. Section(r, "MAX_INPUT_CONSTRAINT") = Replaced(Section(c, "MAX_INPUT_CONSTRAINT"), s)
  BY <1>4, <1>5, <1>6, SectionsOf DEF SectionsAre
<1>8. PartOK(r, "MAX_INPUT_CONSTRAINT", ids, all)
  BY <1>4, <1>6 DEF PartOK
<1>. QED
  BY <1>4, <1>7, <1>8, PartEnters DEF Kinds

LEMMA MinInputRead ==
  ASSUME NEW c, NEW ids, NEW all, ConstraintsOK(c, ids, all), NEW s, WellFormed(s, ids, NoNode),
         s.kind = "MIN_INPUT_CONSTRAINT", NEW r, r = Read(c, s)
  PROVE  Enters(c, r, s, ids, all)
<1>1. s = Statement("MIN_INPUT_CONSTRAINT", s.node, s.launch, NoDomain, s.value) /\ s.node \in ids /\ IsTime(s.value)
  BY DEF WellFormed, IoKinds, PairKinds
<1>2. PICK new : new = Constraints!SetIoConstraint(c.input["MIN"], s.node, s.launch, s.value)
  OBVIOUS
<1>3. r = [c EXCEPT !.input["MIN"] = new]
  BY <1>1, <1>2 DEF Read, Constraints!set_input_constraint
<1>4. SameBut(c, r, "MIN_INPUT_CONSTRAINT") /\ r.input["MIN"] = new
  BY <1>3 DEF ConstraintsOK, HasFields, SameBut
<1>5. PICK old : old = c.input["MIN"] /\ IoOK(old, ids)
  BY DEF ConstraintsOK
<1>6. IoOK(new, ids) /\ IoEntries("MIN_INPUT_CONSTRAINT", new) = Replaced(IoEntries("MIN_INPUT_CONSTRAINT", old), s)
  BY <1>1, <1>2, <1>5, IoEntered
<1>7. Section(r, "MIN_INPUT_CONSTRAINT") = Replaced(Section(c, "MIN_INPUT_CONSTRAINT"), s)
  BY <1>4, <1>5, <1>6, SectionsOf DEF SectionsAre
<1>8. PartOK(r, "MIN_INPUT_CONSTRAINT", ids, all)
  BY <1>4, <1>6 DEF PartOK
<1>. QED
  BY <1>4, <1>7, <1>8, PartEnters DEF Kinds

LEMMA MaxOutputRead ==
  ASSUME NEW c, NEW ids, NEW all, ConstraintsOK(c, ids, all), NEW s, WellFormed(s, ids, NoNode),
         s.kind = "MAX_OUTPUT_CONSTRAINT", NEW r, r = Read(c, s)
  PROVE  Enters(c, r, s, ids, all)
<1>1. s = Statement("MAX_OUTPUT_CONSTRAINT", s.node, s.launch, NoDomain, s.value) /\ s.node \in ids /\ IsTime(s.value)
  BY DEF WellFormed, IoKinds, PairKinds
<1>2. PICK new : new = Constraints!SetIoConstraint(c.output["MAX"], s.node, s.launch, s.value)
  OBVIOUS
<1>3. r = [c EXCEPT !.output["MAX"] = new]
  BY <1>1, <1>2 DEF Read, Constraints!set_output_constraint
<1>4. SameBut(c, r, "MAX_OUTPUT_CONSTRAINT") /\ r.output["MAX"] = new
  BY <1>3 DEF ConstraintsOK, HasFields, SameBut
<1>5. PICK old : old = c.output["MAX"] /\ IoOK(old, ids)
  BY DEF ConstraintsOK
<1>6. IoOK(new, ids) /\ IoEntries("MAX_OUTPUT_CONSTRAINT", new) = Replaced(IoEntries("MAX_OUTPUT_CONSTRAINT", old), s)
  BY <1>1, <1>2, <1>5, IoEntered
<1>7. Section(r, "MAX_OUTPUT_CONSTRAINT") = Replaced(Section(c, "MAX_OUTPUT_CONSTRAINT"), s)
  BY <1>4, <1>5, <1>6, SectionsOf DEF SectionsAre
<1>8. PartOK(r, "MAX_OUTPUT_CONSTRAINT", ids, all)
  BY <1>4, <1>6 DEF PartOK
<1>. QED
  BY <1>4, <1>7, <1>8, PartEnters DEF Kinds

LEMMA MinOutputRead ==
  ASSUME NEW c, NEW ids, NEW all, ConstraintsOK(c, ids, all), NEW s, WellFormed(s, ids, NoNode),
         s.kind = "MIN_OUTPUT_CONSTRAINT", NEW r, r = Read(c, s)
  PROVE  Enters(c, r, s, ids, all)
<1>1. s = Statement("MIN_OUTPUT_CONSTRAINT", s.node, s.launch, NoDomain, s.value) /\ s.node \in ids /\ IsTime(s.value)
  BY DEF WellFormed, IoKinds, PairKinds
<1>2. PICK new : new = Constraints!SetIoConstraint(c.output["MIN"], s.node, s.launch, s.value)
  OBVIOUS
<1>3. r = [c EXCEPT !.output["MIN"] = new]
  BY <1>1, <1>2 DEF Read, Constraints!set_output_constraint
<1>4. SameBut(c, r, "MIN_OUTPUT_CONSTRAINT") /\ r.output["MIN"] = new
  BY <1>3 DEF ConstraintsOK, HasFields, SameBut
<1>5. PICK old : old = c.output["MIN"] /\ IoOK(old, ids)
  BY DEF ConstraintsOK
<1>6. IoOK(new, ids) /\ IoEntries("MIN_OUTPUT_CONSTRAINT", new) = Replaced(IoEntries("MIN_OUTPUT_CONSTRAINT", old), s)
  BY <1>1, <1>2, <1>5, IoEntered
<1>7. Section(r, "MIN_OUTPUT_CONSTRAINT") = Replaced(Section(c, "MIN_OUTPUT_CONSTRAINT"), s)
  BY <1>4, <1>5, <1>6, SectionsOf DEF SectionsAre
<1>8. PartOK(r, "MIN_OUTPUT_CONSTRAINT", ids, all)
  BY <1>4, <1>6 DEF PartOK
<1>. QED
  BY <1>4, <1>7, <1>8, PartEnters DEF Kinds

LEMMA SetupRead ==
  ASSUME NEW c, NEW ids, NEW all, ConstraintsOK(c, ids, all), NEW s, WellFormed(s, ids, NoNode),
         s.kind = "SETUP_CONSTRAINT", NEW r, r = Read(c, s)
  PROVE  Enters(c, r, s, ids, all)
<1>1. s = Statement("SETUP_CONSTRAINT", NoNode, s.launch, s.capture, s.value) /\ s.node = NoNode /\ IsTime(s.value)
  BY DEF WellFormed, IoKinds, PairKinds
<1>2. PICK new : new = Constraints!Put(c.setup, <<s.launch, s.capture, NoNode>>, s.value)
  OBVIOUS
<1>3. r = [c EXCEPT !.setup = new]
  BY <1>1, <1>2 DEF Read, Constraints!set_setup_constraint
<1>4. SameBut(c, r, "SETUP_CONSTRAINT") /\ r.setup = new
  BY <1>3 DEF ConstraintsOK, HasFields, SameBut
<1>5. PICK old : old = c.setup /\ ClockMapOK(old)
  BY DEF ConstraintsOK
<1>6. ClockMapOK(new) /\ ClockEntries("SETUP_CONSTRAINT", new) = Replaced(ClockEntries("SETUP_CONSTRAINT", old), s)
  <2>1. PICK l, d, value : l = s.launch /\ d = s.capture /\ value = s.value
    OBVIOUS
  <2>2. IsTime(value) /\ new = Constraints!Put(old, <<l, d, NoNode>>, value)
    BY <1>1, <1>2, <1>5, <2>1
  <2>3. PICK t : t = Statement("SETUP_CONSTRAINT", NoNode, l, d, value)
    OBVIOUS
  <2>4. PICK key : key = <<l, d, NoNode>>
    OBVIOUS
  <2>5. new = Constraints!Put(old, key, value)
    BY <2>2, <2>4
  <2>6. ClockMapOK(new) /\ ClockEntries("SETUP_CONSTRAINT", new) = Replaced(ClockEntries("SETUP_CONSTRAINT", old), t)
    BY <1>5, <2>2, <2>3, <2>4, <2>5, ClockPut
  <2>. QED
    BY <1>1, <2>1, <2>3, <2>6
<1>7. Section(r, "SETUP_CONSTRAINT") = Replaced(Section(c, "SETUP_CONSTRAINT"), s)
  BY <1>4, <1>5, <1>6, SectionsOf DEF SectionsAre
<1>8. PartOK(r, "SETUP_CONSTRAINT", ids, all)
  BY <1>4, <1>6 DEF PartOK
<1>. QED
  BY <1>4, <1>7, <1>8, PartEnters DEF Kinds

LEMMA HoldRead ==
  ASSUME NEW c, NEW ids, NEW all, ConstraintsOK(c, ids, all), NEW s, WellFormed(s, ids, NoNode),
         s.kind = "HOLD_CONSTRAINT", NEW r, r = Read(c, s)
  PROVE  Enters(c, r, s, ids, all)
<1>1. s = Statement("HOLD_CONSTRAINT", NoNode, s.launch, s.capture, s.value) /\ s.node = NoNode /\ IsTime(s.value)
  BY DEF WellFormed, IoKinds, PairKinds
<1>2. PICK new : new = Constraints!Put(c.hold, <<s.launch, s.capture, NoNode>>, s.value)
  OBVIOUS
<1>3. r = [c EXCEPT !.hold = new]
  BY <1>1, <1>2 DEF Read, Constraints!set_hold_constraint
<1>4. SameBut(c, r, "HOLD_CONSTRAINT") /\ r.hold = new
  BY <1>3 DEF ConstraintsOK, HasFields, SameBut
<1>5. PICK old : old = c.hold /\ ClockMapOK(old)
  BY DEF ConstraintsOK
<1>6. ClockMapOK(new) /\ ClockEntries("HOLD_CONSTRAINT", new) = Replaced(ClockEntries("HOLD_CONSTRAINT", old), s)
  <2>1. PICK l, d, value : l = s.launch /\ d = s.capture /\ value = s.value
    OBVIOUS
  <2>2. IsTime(value) /\ new = Constraints!Put(old, <<l, d, NoNode>>, value)
    BY <1>1, <1>2, <1>5, <2>1
  <2>3. PICK t : t = Statement("HOLD_CONSTRAINT", NoNode, l, d, value)
    OBVIOUS
  <2>4. PICK key : key = <<l, d, NoNode>>
    OBVIOUS
  <2>5. new = Constraints!Put(old, key, value)
    BY <2>2, <2>4
  <2>6. ClockMapOK(new) /\ ClockEntries("HOLD_CONSTRAINT", new) = Replaced(ClockEntries("HOLD_CONSTRAINT", old), t)
    BY <1>5, <2>2, <2>3, <2>4, <2>5, ClockPut
  <2>. QED
    BY <1>1, <2>1, <2>3, <2>6
<1>7. Section(r, "HOLD_CONSTRAINT") = Replaced(Section(c, "HOLD_CONSTRAINT"), s)
  BY <1>4, <1>5, <1>6, SectionsOf DEF SectionsAre
<1>8. PartOK(r, "HOLD_CONSTRAINT", ids, all)
  BY <1>4, <1>6 DEF PartOK
<1>. QED
  BY <1>4, <1>7, <1>8, PartEnters DEF Kinds

LEMMA SetupUncertaintyRead ==
  ASSUME NEW c, NEW ids, NEW all, ConstraintsOK(c, ids, all), NEW s, WellFormed(s, ids, NoNode),
         s.kind = "SETUP_UNCERTAINTY", NEW r, r = Read(c, s)
  PROVE  Enters(c, r, s, ids, all)
<1>1. s = Statement("SETUP_UNCERTAINTY", NoNode, s.launch, s.capture, s.value) /\ s.node = NoNode
  BY DEF WellFormed, IoKinds, PairKinds
<1>2. PICK new : new = Constraints!Put(c.setup_uncertainty, <<s.launch, s.capture>>, s.value)
  OBVIOUS
<1>3. r = [c EXCEPT !.setup_uncertainty = new]
  BY <1>1, <1>2 DEF Read, Constraints!set_setup_clock_uncertainty
<1>4. SameBut(c, r, "SETUP_UNCERTAINTY") /\ r.setup_uncertainty = new
  BY <1>3 DEF ConstraintsOK, HasFields, SameBut
<1>5. PICK old : old = c.setup_uncertainty /\ PairMapOK(old)
  BY DEF ConstraintsOK
<1>6. PairMapOK(new) /\ PairEntries("SETUP_UNCERTAINTY", new) = Replaced(PairEntries("SETUP_UNCERTAINTY", old), s)
  BY <1>1, <1>2, <1>5, PairPut
<1>7. Section(r, "SETUP_UNCERTAINTY") = Replaced(Section(c, "SETUP_UNCERTAINTY"), s)
  BY <1>4, <1>5, <1>6, SectionsOf DEF SectionsAre
<1>8. PartOK(r, "SETUP_UNCERTAINTY", ids, all)
  BY <1>4, <1>6 DEF PartOK
<1>. QED
  BY <1>4, <1>7, <1>8, PartEnters DEF Kinds

LEMMA HoldUncertaintyRead ==
  ASSUME NEW c, NEW ids, NEW all, ConstraintsOK(c, ids, all), NEW s, WellFormed(s, ids, NoNode),
         s.kind = "HOLD_UNCERTAINTY", NEW r, r = Read(c, s)
  PROVE  Enters(c, r, s, ids, all)
<1>1. s = Statement("HOLD_UNCERTAINTY", NoNode, s.launch, s.capture, s.value) /\ s.node = NoNode
  BY DEF WellFormed, IoKinds, PairKinds
<1>2. PICK new : new = Constraints!Put(c.hold_uncertainty, <<s.launch, s.capture>>, s.value)
  OBVIOUS
<1>3. r = [c EXCEPT !.hold_uncertainty = new]
  BY <1>1, <1>2 DEF Read, Constraints!set_hold_clock_uncertainty
<1>4. SameBut(c, r, "HOLD_UNCERTAINTY") /\ r.hold_uncertainty = new
  BY <1>3 DEF ConstraintsOK, HasFields, SameBut
<1>5. PICK old : old = c.hold_uncertainty /\ PairMapOK(old)
  BY DEF ConstraintsOK
<1>6. PairMapOK(new) /\ PairEntries("HOLD_UNCERTAINTY", new) = Replaced(PairEntries("HOLD_UNCERTAINTY", old), s)
  BY <1>1, <1>2, <1>5, PairPut
<1>7. Section(r, "HOLD_UNCERTAINTY") = Replaced(Section(c, "HOLD_UNCERTAINTY"), s)
  BY <1>4, <1>5, <1>6, SectionsOf DEF SectionsAre
<1>8. PartOK(r, "HOLD_UNCERTAINTY", ids, all)
  BY <1>4, <1>6 DEF PartOK
<1>. QED
  BY <1>4, <1>7, <1>8, PartEnters DEF Kinds

LEMMA EarlyLatencyRead ==
  ASSUME NEW c, NEW ids, NEW all, ConstraintsOK(c, ids, all), NEW s, WellFormed(s, ids, NoNode),
         s.kind = "EARLY_SOURCE_LATENCY", NEW r, r = Read(c, s)
  PROVE  Enters(c, r, s, ids, all)
<1>1. s = Statement("EARLY_SOURCE_LATENCY", NoNode, s.launch, NoDomain, s.value) /\ s.node = NoNode
  BY DEF WellFormed, IoKinds, PairKinds
<1>2. PICK new : new = Constraints!Put(c.latency["EARLY"], s.launch, s.value)
  OBVIOUS
<1>3. r = [c EXCEPT !.latency["EARLY"] = new]
  BY <1>1, <1>2 DEF Read, Constraints!set_source_latency
<1>4. SameBut(c, r, "EARLY_SOURCE_LATENCY") /\ r.latency["EARLY"] = new
  BY <1>3 DEF ConstraintsOK, HasFields, SameBut
<1>5. PICK old : old = c.latency["EARLY"] /\ SingleMapOK(old)
  BY DEF ConstraintsOK
<1>6. SingleMapOK(new) /\ SingleEntries("EARLY_SOURCE_LATENCY", new) = Replaced(SingleEntries("EARLY_SOURCE_LATENCY", old), s)
  BY <1>1, <1>2, <1>5, SinglePut
<1>7. Section(r, "EARLY_SOURCE_LATENCY") = Replaced(Section(c, "EARLY_SOURCE_LATENCY"), s)
  BY <1>4, <1>5, <1>6, SectionsOf DEF SectionsAre
<1>8. PartOK(r, "EARLY_SOURCE_LATENCY", ids, all)
  BY <1>4, <1>6 DEF PartOK
<1>. QED
  BY <1>4, <1>7, <1>8, PartEnters DEF Kinds

LEMMA LateLatencyRead ==
  ASSUME NEW c, NEW ids, NEW all, ConstraintsOK(c, ids, all), NEW s, WellFormed(s, ids, NoNode),
         s.kind = "LATE_SOURCE_LATENCY", NEW r, r = Read(c, s)
  PROVE  Enters(c, r, s, ids, all)
<1>1. s = Statement("LATE_SOURCE_LATENCY", NoNode, s.launch, NoDomain, s.value) /\ s.node = NoNode
  BY DEF WellFormed, IoKinds, PairKinds
<1>2. PICK new : new = Constraints!Put(c.latency["LATE"], s.launch, s.value)
  OBVIOUS
<1>3. r = [c EXCEPT !.latency["LATE"] = new]
  BY <1>1, <1>2 DEF Read, Constraints!set_source_latency
<1>4. SameBut(c, r, "LATE_SOURCE_LATENCY") /\ r.latency["LATE"] = new
  BY <1>3 DEF ConstraintsOK, HasFields, SameBut
<1>5. PICK old : old = c.latency["LATE"] /\ SingleMapOK(old)
  BY DEF ConstraintsOK
<1>6. SingleMapOK(new) /\ SingleEntries("LATE_SOURCE_LATENCY", new) = Replaced(SingleEntries("LATE_SOURCE_LATENCY", old), s)
  BY <1>1, <1>2, <1>5, SinglePut
<1>7. Section(r, "LATE_SOURCE_LATENCY") = Replaced(Section(c, "LATE_SOURCE_LATENCY"), s)
  BY <1>4, <1>5, <1>6, SectionsOf DEF SectionsAre
<1>8. PartOK(r, "LATE_SOURCE_LATENCY", ids, all)
  BY <1>4, <1>6 DEF PartOK
<1>. QED
  BY <1>4, <1>7, <1>8, PartEnters DEF Kinds

\* Three fields of the constraints assigned.
LEMMA ClockFields ==
  ASSUME NEW a1, NEW a2, NEW a3, NEW a4, NEW a5, NEW a6, NEW a7, NEW a8, NEW a9, NEW a10, NEW a11,
         NEW x, NEW y, NEW z, NEW c,
         c = [names |-> a1, domains |-> a2, source |-> a3,
               const_gens |-> a4, input |-> a5, output |-> a6, setup |-> a7,
               hold |-> a8, setup_uncertainty |-> a9,
               hold_uncertainty |-> a10, latency |-> a11],
         NEW r, r = [c EXCEPT !.names = x, !.domains = y, !.source = z]
  PROVE  r = [names |-> x, domains |-> y, source |-> z,
               const_gens |-> a4, input |-> a5, output |-> a6, setup |-> a7,
               hold |-> a8, setup_uncertainty |-> a9,
               hold_uncertainty |-> a10, latency |-> a11]
OBVIOUS

LEMMA ClockRead ==
  ASSUME NEW c, NEW ids, NEW all, ConstraintsOK(c, ids, all), NEW s, WellFormed(s, ids, NoNode),
         s.kind = "CLOCK", NEW r, r = Read(c, s)
  PROVE  /\ ConstraintsOK(r, ids, all)
         /\ Constraints!find_clock_domain(r, s.value) = s.launch => Enters(c, r, s, ids, all)
<1>1. s = Statement("CLOCK", NoNode, s.launch, NoDomain, s.value)
  BY DEF WellFormed, IoKinds, PairKinds
<1>2. PICK name, id : name = s.value /\ id = Len(c.domains)
  OBVIOUS
<1>3. r = Constraints!create_clock_domain(c, name)
  BY <1>1, <1>2 DEF Read
<1>4. /\ ClocksOK(c.names, c.domains, c.source, all) /\ ToSet(c.domains) = 0 .. Len(c.names) - 1
      /\ id = Len(c.names) /\ Len(c.names) \in Nat /\ DOMAIN c.names = 1 .. Len(c.names)
  <2>1. ClocksOK(c.names, c.domains, c.source, all)
    BY DEF ConstraintsOK
  <2>. QED
    BY <1>2, <2>1, DomainIds
<1>5. CASE name \in ToSet(c.names)
  <2>1. PICK i \in DOMAIN c.names : c.names[i] = name
    BY <1>5 DEF ToSet
  <2>2. Constraints!find_clock_domain(c, name) = i - 1
    BY <1>4, <2>1, DomainFound
  <2>3. r = c
    BY <1>3, <1>4, <2>1, <2>2 DEF Constraints!create_clock_domain, Constraints!NoDomain
  <2>4. ASSUME Constraints!find_clock_domain(r, name) = s.launch
        PROVE  Replaced(InForce(c), s) = InForce(c)
    <3>1. s.launch = i - 1 /\ s = Statement("CLOCK", NoNode, i - 1, NoDomain, c.names[i])
      BY <1>1, <1>2, <2>1, <2>2, <2>3, <2>4
    <3>2. i - 1 \in ToSet(c.domains) /\ (i - 1) + 1 = i
      BY <1>4, <2>1
    <3>3. s \in DomainEntries(c.names, c.domains)
      BY <3>1, <3>2 DEF DomainEntries
    <3>4. s \in InForce(c)
      BY <3>3, SectionsOf DEF SectionsAre, InForce, Kinds
    <3>5. ASSUME NEW t \in InForce(c), SameSubject(t, s) PROVE t = s
      <4>1. t \in Section(c, "CLOCK")
        <5>1. PICK k \in Kinds : t \in Section(c, k)
          BY DEF InForce
        <5>2. t.kind = k /\ t.kind = "CLOCK"
          BY <1>1, <3>5, <5>1, SectionKinds DEF SameSubject
        <5>. QED
          BY <5>1, <5>2
      <4>2. PICK d \in ToSet(c.domains) : t = Statement("CLOCK", NoNode, d, NoDomain, c.names[d + 1])
        BY <4>1, SectionsOf DEF SectionsAre, DomainEntries
      <4>3. d = i - 1
        BY <3>1, <3>5, <4>2 DEF SameSubject, Statement
      <4>. QED
        BY <3>1, <3>2, <4>2, <4>3
    <3>. QED
      BY <3>4, <3>5 DEF Replaced
  <2>. QED
    BY <1>2, <2>3, <2>4 DEF Enters
<1>6. CASE name \notin ToSet(c.names)
  <2>1. Constraints!find_clock_domain(c, name) = NoDomain
    BY <1>4, <1>6, DomainFound
  <2>2. PICK n2, d2, s2 : n2 = Append(c.names, name) /\ d2 = Append(c.domains, id)
                          /\ s2 = Constraints!Put(c.source, id, NoNode)
    OBVIOUS
  <2>3. r = [c EXCEPT !.names = n2, !.domains = d2, !.source = s2]
    BY <1>2, <1>3, <2>1, <2>2 DEF Constraints!create_clock_domain, Constraints!NoDomain, NoDomain,
                                  Constraints!NoNode, NoNode
  <2>4. SameBut(c, r, "CLOCK") /\ r.names = n2 /\ r.domains = d2 /\ r.source = s2
    <3>1. PICK a1, a2, a3, a4, a5, a6, a7, a8, a9, a10, a11 :
            /\ a1 = c.names /\ a2 = c.domains /\ a3 = c.source /\ a4 = c.const_gens
            /\ a5 = [dt \in {"MAX", "MIN"} |-> c.input[dt]]
            /\ a6 = [dt \in {"MAX", "MIN"} |-> c.output[dt]]
            /\ a7 = c.setup /\ a8 = c.hold /\ a9 = c.setup_uncertainty /\ a10 = c.hold_uncertainty
            /\ a11 = [a \in {"EARLY", "LATE"} |-> c.latency[a]]
      OBVIOUS
    <3>2. HasFields(c)
      BY DEF ConstraintsOK
    <3>3. c = [names |-> a1, domains |-> a2, source |-> a3, const_gens |-> a4, input |-> a5,
               output |-> a6, setup |-> a7, hold |-> a8, setup_uncertainty |-> a9,
               hold_uncertainty |-> a10, latency |-> a11]
      BY <3>1, <3>2 DEF HasFields
    <3>4. r = [names |-> n2, domains |-> d2, source |-> s2, const_gens |-> a4, input |-> a5,
               output |-> a6, setup |-> a7, hold |-> a8, setup_uncertainty |-> a9,
               hold_uncertainty |-> a10, latency |-> a11]
      BY ZenonT(40), <2>3, <3>3, ClockFields
    <3>5. /\ r.names = n2 /\ r.domains = d2 /\ r.source = s2 /\ r.const_gens = c.const_gens
          /\ r.input = c.input /\ r.output = c.output /\ r.setup = c.setup /\ r.hold = c.hold
          /\ r.setup_uncertainty = c.setup_uncertainty
          /\ r.hold_uncertainty = c.hold_uncertainty /\ r.latency = c.latency
      BY <3>3, <3>4
    <3>6. HasFields(r)
      BY <3>1, <3>4, <3>5 DEF HasFields
    <3>. QED
      BY <3>5, <3>6 DEF SameBut
  <2>5. PICK n1, d1, s1 : n1 = c.names /\ d1 = c.domains /\ s1 = c.source
    OBVIOUS
  <2>6. PICK t : t = Statement("CLOCK", NoNode, id, NoDomain, name)
    OBVIOUS
  <2>7. /\ ClocksOK(n2, d2, s2, all) /\ SourceEntries(d2, s2) = SourceEntries(d1, s1)
        /\ DomainEntries(n2, d2) = Replaced(DomainEntries(n1, d1), t)
    <3>1. ClocksOK(n1, d1, s1, all) /\ Declares(n1, d1, s1, name, id, n2, d2, s2)
      BY <1>2, <1>4, <1>6, <2>2, <2>5 DEF Declares
    <3>2. /\ ClocksOK(n2, d2, s2, all)
          /\ DomainEntries(n2, d2) =
               Replaced(DomainEntries(n1, d1), Statement("CLOCK", NoNode, id, NoDomain, name))
          /\ SourceEntries(d2, s2) = SourceEntries(d1, s1)
      BY <3>1, ClockAdded
    <3>. QED
      BY <2>6, <3>2
  <2>8. Section(r, "CLOCK") = Replaced(Section(c, "CLOCK"), t)
    BY <2>4, <2>5, <2>7, SectionsOf DEF SectionsAre
  <2>9. PartOK(r, "CLOCK", ids, all)
    BY <2>4, <2>7 DEF PartOK
  <2>10. t.kind = "CLOCK"
    BY <2>6 DEF Statement
  <2>11. Enters(c, r, t, ids, all)
    BY <2>4, <2>5, <2>7, <2>8, <2>9, <2>10, PartEnters DEF Kinds
  <2>12. Constraints!find_clock_domain(r, name) = id
    <3>1. ClocksOK(r.names, r.domains, r.source, all)
      BY <2>4, <2>7
    <3>2. id + 1 \in DOMAIN n2 /\ n2[id + 1] = name /\ (id + 1) - 1 = id
      <4>1. IsList(c.names)
        BY <1>4 DEF ClocksOK
      <4>. QED
        BY <1>4, <2>2, <4>1, ListLonger
    <3>3. Constraints!find_clock_domain(r, r.names[id + 1]) = (id + 1) - 1
      BY <2>4, <3>1, <3>2, DomainFound
    <3>. QED
      BY <2>4, <3>2, <3>3
  <2>13. s.launch = id => s = t
    BY <1>1, <1>2, <2>6
  <2>. QED
    BY <1>2, <2>11, <2>12, <2>13 DEF Enters
<1>. QED
  BY <1>5, <1>6

LEMMA SourceRead ==
  ASSUME NEW c, NEW ids, NEW all, ConstraintsOK(c, ids, all), ids \subseteq all, NoNode \notin all,
         NEW s, WellFormed(s, ids, NoNode), s.kind = "CLOCK_SOURCE", NEW r, r = Read(c, s)
  PROVE  /\ s.launch \in ToSet(c.domains) => Enters(c, r, s, ids, all)
         /\ s.launch \notin ToSet(c.domains) =>
              ConstraintsOK(r, ids, all) /\ InForce(r) = InForce(c)
<1>1. s = Statement("CLOCK_SOURCE", s.node, s.launch, NoDomain, NaN) /\ s.node \in all
  BY DEF WellFormed, IoKinds, PairKinds
<1>2. PICK new, node, d : new = Constraints!Put(c.source, d, node) /\ node = s.node /\ d = s.launch
  OBVIOUS
<1>3. r = [c EXCEPT !.source = new]
  BY <1>1, <1>2 DEF Read, Constraints!set_clock_domain_source
<1>4. SameBut(c, r, "CLOCK_SOURCE") /\ r.source = new /\ r.domains = c.domains /\ r.names = c.names
  BY <1>3 DEF ConstraintsOK, HasFields, SameBut
<1>5. PICK old, names, domains : old = c.source /\ names = c.names /\ domains = c.domains
                                 /\ ClocksOK(names, domains, old, all)
  BY DEF ConstraintsOK
<1>6. /\ ClocksOK(names, domains, new, all)
      /\ d \in ToSet(domains) =>
           SourceEntries(domains, new) =
             Replaced(SourceEntries(domains, old), Statement("CLOCK_SOURCE", node, d, NoDomain, NaN))
      /\ d \notin ToSet(domains) => SourceEntries(domains, new) = SourceEntries(domains, old)
  BY <1>1, <1>2, <1>5, SourcePut
<1>7. PartOK(r, "CLOCK_SOURCE", ids, all)
  BY <1>4, <1>5, <1>6 DEF PartOK
<1>8. ASSUME s.launch \in ToSet(c.domains) PROVE Enters(c, r, s, ids, all)
  <2>1. Section(r, "CLOCK_SOURCE") = Replaced(Section(c, "CLOCK_SOURCE"), s)
    BY <1>1, <1>2, <1>4, <1>5, <1>6, <1>8, SectionsOf DEF SectionsAre
  <2>. QED
    BY <1>4, <1>7, <2>1, PartEnters DEF Kinds
<1>9. ASSUME s.launch \notin ToSet(c.domains)
      PROVE  ConstraintsOK(r, ids, all) /\ InForce(r) = InForce(c)
  <2>1. Section(r, "CLOCK_SOURCE") = Section(c, "CLOCK_SOURCE")
    BY <1>2, <1>4, <1>5, <1>6, <1>9, SectionsOf DEF SectionsAre
  <2>2. \A k \in Kinds : k # "CLOCK_SOURCE" => Section(r, k) = Section(c, k)
    BY <1>4, OthersStay
  <2>3. InForce(r) = InForce(c)
    BY <2>1, <2>2 DEF InForce
  <2>4. ConstraintsOK(r, ids, all)
    BY <1>4, <1>7 DEF ConstraintsOK, SameBut, PartOK
  <2>. QED
    BY <2>3, <2>4
<1>. QED
  BY <1>8, <1>9

LEMMA GeneratorRead ==
  ASSUME NEW c, NEW ids, NEW all, ConstraintsOK(c, ids, all), NEW s, WellFormed(s, ids, NoNode),
         s.kind = "CONSTANT_GENERATOR", NEW r, r = Read(c, s)
  PROVE  Enters(c, r, s, ids, all)
<1>1. s = Statement("CONSTANT_GENERATOR", s.node, NoDomain, NoDomain, NaN) /\ s.node \in ids
  BY DEF WellFormed, IoKinds, PairKinds
<1>2. PICK new : new = c.const_gens \cup {s.node}
  OBVIOUS
<1>3. r = [c EXCEPT !.const_gens = new]
  BY <1>1, <1>2 DEF Read, Constraints!set_constant_generator
<1>4. SameBut(c, r, "CONSTANT_GENERATOR") /\ r.const_gens = new
  BY <1>3 DEF ConstraintsOK, HasFields, SameBut
<1>5. PICK old, n : old = c.const_gens /\ n = s.node /\ n \in ids /\ GeneratorsOK(old, ids)
                    /\ new = old \cup {n}
  BY <1>1, <1>2 DEF ConstraintsOK
<1>6. GeneratorsOK(new, ids) /\ GeneratorEntries(new) = Replaced(GeneratorEntries(old), s)
  BY <1>1, <1>5, GeneratorMarked
<1>7. Section(r, "CONSTANT_GENERATOR") = Replaced(Section(c, "CONSTANT_GENERATOR"), s)
  BY <1>4, <1>5, <1>6, SectionsOf DEF SectionsAre
<1>8. PartOK(r, "CONSTANT_GENERATOR", ids, all)
  BY <1>4, <1>6 DEF PartOK
<1>. QED
  BY <1>4, <1>7, <1>8, PartEnters DEF Kinds

(***************************************************************************)
(* A statement is read as what it says: a clock whose id is the one given, *)
(* or a source for a clock that is declared, or any other.                 *)
(***************************************************************************)
Fits(c, r, s) ==
  /\ s.kind = "CLOCK" => Constraints!find_clock_domain(r, s.value) = s.launch
  /\ s.kind = "CLOCK_SOURCE" => s.launch \in ToSet(c.domains)

LEMMA StatementRead ==
  ASSUME NEW c, NEW ids, NEW all, ConstraintsOK(c, ids, all), ids \subseteq all, NoNode \notin all,
         NEW s, WellFormed(s, ids, NoNode), NEW r, r = Read(c, s)
  PROVE  /\ ConstraintsOK(r, ids, all)
         /\ Fits(c, r, s) => InForce(r) = Replaced(InForce(c), s)
         /\ s.kind = "CLOCK_SOURCE" /\ s.launch \notin ToSet(c.domains) => InForce(r) = InForce(c)
<1>1. CASE s.kind = "CLOCK"
  BY <1>1, ClockRead DEF Enters, Fits
<1>2. CASE s.kind = "CLOCK_SOURCE"
  BY <1>2, SourceRead DEF Enters, Fits
<1>3. CASE s.kind \in Kinds \ {"CLOCK", "CLOCK_SOURCE"}
  <2>1. Enters(c, r, s, ids, all)
    BY <1>3, GeneratorRead, MaxInputRead, MinInputRead, MaxOutputRead, MinOutputRead, SetupRead,
       HoldRead, SetupUncertaintyRead, HoldUncertaintyRead, EarlyLatencyRead, LateLatencyRead
       DEF Kinds
  <2>. QED
    BY <1>3, <2>1 DEF Enters
<1>4. s.kind \in Kinds
  BY DEF WellFormed
<1>. QED
  BY <1>1, <1>2, <1>3, <1>4

(***************************************************************************)
(* What is in force: well-formed statements, one of each subject.          *)
(***************************************************************************)
OneEach(S) == \A t, u \in S : SameSubject(t, u) => t = u

AllFormed(S, about) == \A t \in S : WellFormed(t, about, NoNode)

LEMMA IoMembers ==
  ASSUME NEW entries, NEW ids, IoOK(entries, ids), NEW kind \in IoKinds
  PROVE  OneEach(IoEntries(kind, entries)) /\ AllFormed(IoEntries(kind, entries), ids)
<1>. USE DEF IoKinds
<1>1. /\ \A x \in ToSet(entries) : x.node \in ids /\ IsTime(x.time)
      /\ \A x, y \in ToSet(entries) : x.node = y.node /\ x.domain = y.domain => x = y
  BY DEF IoOK, ToSet
<1>2. AllFormed(IoEntries(kind, entries), ids)
  BY <1>1 DEF AllFormed, IoEntries, WellFormed, Statement, Kinds, PairKinds
<1>3. OneEach(IoEntries(kind, entries))
  BY <1>1 DEF OneEach, IoEntries, SameSubject, Statement
<1>. QED
  BY <1>2, <1>3

LEMMA ClockMembers ==
  ASSUME NEW map, NEW ids, ClockMapOK(map), NEW kind \in {"SETUP_CONSTRAINT", "HOLD_CONSTRAINT"}
  PROVE  OneEach(ClockEntries(kind, map)) /\ AllFormed(ClockEntries(kind, map), ids)
<1>1. \A k \in DOMAIN map : k = <<k[1], k[2], NoNode>> /\ IsTime(map[k])
  BY DEF ClockMapOK
<1>2. \A k \in DOMAIN map : k[3] = NoNode
  BY <1>1
<1>3. \A k, m \in DOMAIN map : k[1] = m[1] /\ k[2] = m[2] => k = m
  BY <1>1
<1>4. AllFormed(ClockEntries(kind, map), ids)
  BY <1>1, <1>2 DEF AllFormed, ClockEntries, WellFormed, Statement, Kinds, PairKinds, IoKinds
<1>5. OneEach(ClockEntries(kind, map))
  BY <1>3 DEF OneEach, ClockEntries, SameSubject, Statement
<1>. QED
  BY <1>4, <1>5

LEMMA PairMembers ==
  ASSUME NEW map, NEW ids, PairMapOK(map), NEW kind \in {"SETUP_UNCERTAINTY", "HOLD_UNCERTAINTY"}
  PROVE  OneEach(PairEntries(kind, map)) /\ AllFormed(PairEntries(kind, map), ids)
<1>1. \A k \in DOMAIN map : k = <<k[1], k[2]>>
  BY DEF PairMapOK
<1>2. \A k, m \in DOMAIN map : k[1] = m[1] /\ k[2] = m[2] => k = m
  BY <1>1
<1>3. AllFormed(PairEntries(kind, map), ids)
  BY DEF AllFormed, PairEntries, WellFormed, Statement, Kinds, PairKinds, IoKinds
<1>4. OneEach(PairEntries(kind, map))
  BY <1>2 DEF OneEach, PairEntries, SameSubject, Statement
<1>. QED
  BY <1>3, <1>4

LEMMA SingleMembers ==
  ASSUME NEW map, NEW ids, NEW kind \in {"EARLY_SOURCE_LATENCY", "LATE_SOURCE_LATENCY"}
  PROVE  OneEach(SingleEntries(kind, map)) /\ AllFormed(SingleEntries(kind, map), ids)
<1>1. AllFormed(SingleEntries(kind, map), ids)
  BY DEF AllFormed, SingleEntries, WellFormed, Statement, Kinds, PairKinds, IoKinds
<1>2. OneEach(SingleEntries(kind, map))
  BY DEF OneEach, SingleEntries, SameSubject, Statement
<1>. QED
  BY <1>1, <1>2

LEMMA DomainMembers ==
  ASSUME NEW names, NEW domains, NEW ids
  PROVE  OneEach(DomainEntries(names, domains)) /\ AllFormed(DomainEntries(names, domains), ids)
<1>1. AllFormed(DomainEntries(names, domains), ids)
  BY DEF AllFormed, DomainEntries, WellFormed, Statement, Kinds, PairKinds, IoKinds
<1>2. OneEach(DomainEntries(names, domains))
  BY DEF OneEach, DomainEntries, SameSubject, Statement
<1>. QED
  BY <1>1, <1>2

LEMMA SourceMembers ==
  ASSUME NEW names, NEW domains, NEW source, NEW all, ClocksOK(names, domains, source, all)
  PROVE  OneEach(SourceEntries(domains, source)) /\ AllFormed(SourceEntries(domains, source), all)
<1>1. \A d \in ToSet(domains) : source[d] # NoNode => source[d] \in all
  <2>1. ToSet(domains) = 0 .. Len(names) - 1
    BY DomainIds
  <2>. QED
    BY <2>1 DEF ClocksOK
<1>2. AllFormed(SourceEntries(domains, source), all)
  BY <1>1 DEF AllFormed, SourceEntries, WellFormed, Statement, Kinds, PairKinds, IoKinds
<1>3. OneEach(SourceEntries(domains, source))
  BY DEF OneEach, SourceEntries, SameSubject, Statement
<1>. QED
  BY <1>2, <1>3

LEMMA GeneratorMembers ==
  ASSUME NEW gens, NEW ids, GeneratorsOK(gens, ids)
  PROVE  OneEach(GeneratorEntries(gens)) /\ AllFormed(GeneratorEntries(gens), ids)
<1>1. AllFormed(GeneratorEntries(gens), ids)
  BY DEF GeneratorsOK, AllFormed, GeneratorEntries, WellFormed, Statement, Kinds, PairKinds, IoKinds
<1>2. OneEach(GeneratorEntries(gens))
  BY DEF OneEach, GeneratorEntries, SameSubject, Statement
<1>. QED
  BY <1>1, <1>2

LEMMA SectionMembers ==
  ASSUME NEW c, NEW ids, NEW all, ConstraintsOK(c, ids, all), NEW kind \in Kinds
  PROVE  /\ OneEach(Section(c, kind))
         /\ AllFormed(Section(c, kind), IF kind = "CLOCK_SOURCE" THEN all ELSE ids)
<1>1. SectionsAre(c)
  BY SectionsOf
<1>2. CASE kind = "CLOCK"
  BY <1>1, <1>2, DomainMembers DEF SectionsAre
<1>3. CASE kind = "CLOCK_SOURCE"
  <2>1. ClocksOK(c.names, c.domains, c.source, all)
    BY DEF ConstraintsOK
  <2>. QED
    BY <1>1, <1>3, <2>1, SourceMembers DEF SectionsAre
<1>4. CASE kind = "CONSTANT_GENERATOR"
  <2>1. GeneratorsOK(c.const_gens, ids)
    BY DEF ConstraintsOK
  <2>. QED
    BY <1>1, <1>4, <2>1, GeneratorMembers DEF SectionsAre
<1>5. CASE kind \in IoKinds
  <2>1. PICK entries : Section(c, kind) = IoEntries(kind, entries) /\ IoOK(entries, ids)
    BY <1>1, <1>5 DEF SectionsAre, ConstraintsOK, IoKinds
  <2>2. OneEach(IoEntries(kind, entries)) /\ AllFormed(IoEntries(kind, entries), ids)
    BY <1>5, <2>1, IoMembers
  <2>. QED
    BY <1>5, <2>1, <2>2 DEF IoKinds
<1>6. CASE kind \in {"SETUP_CONSTRAINT", "HOLD_CONSTRAINT"}
  <2>1. PICK map : Section(c, kind) = ClockEntries(kind, map) /\ ClockMapOK(map)
    BY <1>1, <1>6 DEF SectionsAre, ConstraintsOK
  <2>2. OneEach(ClockEntries(kind, map)) /\ AllFormed(ClockEntries(kind, map), ids)
    BY <1>6, <2>1, ClockMembers
  <2>. QED
    BY <1>6, <2>1, <2>2
<1>7. CASE kind \in {"SETUP_UNCERTAINTY", "HOLD_UNCERTAINTY"}
  <2>1. PICK map : Section(c, kind) = PairEntries(kind, map) /\ PairMapOK(map)
    BY <1>1, <1>7 DEF SectionsAre, ConstraintsOK
  <2>2. OneEach(PairEntries(kind, map)) /\ AllFormed(PairEntries(kind, map), ids)
    BY <1>7, <2>1, PairMembers
  <2>. QED
    BY <1>7, <2>1, <2>2
<1>8. CASE kind \in {"EARLY_SOURCE_LATENCY", "LATE_SOURCE_LATENCY"}
  <2>1. PICK map : Section(c, kind) = SingleEntries(kind, map)
    BY <1>1, <1>8 DEF SectionsAre
  <2>2. OneEach(SingleEntries(kind, map)) /\ AllFormed(SingleEntries(kind, map), ids)
    BY <1>8, SingleMembers
  <2>. QED
    BY <1>8, <2>1, <2>2
<1>. QED
  BY <1>2, <1>3, <1>4, <1>5, <1>6, <1>7, <1>8 DEF Kinds, IoKinds

LEMMA InForceMembers ==
  ASSUME NEW c, NEW ids, NEW all, ConstraintsOK(c, ids, all), ids \subseteq all
  PROVE  /\ OneEach(InForce(c))
         /\ \A t \in InForce(c) : /\ t \in Section(c, t.kind) /\ t.kind \in Kinds
                                  /\ WellFormed(t, all, NoNode)
                                  /\ t.kind # "CLOCK_SOURCE" => WellFormed(t, ids, NoNode)
<1>1. ASSUME NEW t \in InForce(c)
      PROVE  /\ t \in Section(c, t.kind) /\ t.kind \in Kinds
             /\ WellFormed(t, IF t.kind = "CLOCK_SOURCE" THEN all ELSE ids, NoNode)
  <2>1. PICK k \in Kinds : t \in Section(c, k)
    BY DEF InForce
  <2>2. t.kind = k
    BY <2>1, SectionKinds
  <2>3. AllFormed(Section(c, k), IF k = "CLOCK_SOURCE" THEN all ELSE ids)
    BY SectionMembers
  <2>. QED
    BY <2>1, <2>2, <2>3 DEF AllFormed
<1>2. ASSUME NEW t \in InForce(c), NEW u \in InForce(c), SameSubject(t, u) PROVE t = u
  <2>1. t.kind = u.kind
    BY <1>2 DEF SameSubject
  <2>2. t \in Section(c, t.kind) /\ u \in Section(c, t.kind) /\ t.kind \in Kinds
    BY <1>1, <2>1
  <2>3. OneEach(Section(c, t.kind))
    BY <2>2, SectionMembers
  <2>. QED
    BY <1>2, <2>2, <2>3 DEF OneEach
<1>3. ASSUME NEW t, WellFormed(t, ids, NoNode) PROVE WellFormed(t, all, NoNode)
  BY <1>3 DEF WellFormed
<1>. QED
  BY <1>1, <1>2, <1>3 DEF OneEach

(***************************************************************************)
(* Statements are read one after the other.                                *)
(***************************************************************************)
ReadNext(none, s, c) == Read(c, s)

Reads == INSTANCE FoldLemmas WITH Op <- ReadNext, Pick <- Greatest

LEMMA ReadFold == Reads!Basics /\ \A s : Greatest(s) = Reads!Greatest(s)
<1>1. \A s : Greatest(s) = Reads!Greatest(s)
  BY DEF Greatest, Reads!Greatest
<1>2. Reads!Basics
  BY FoldBasics, Zenon DEF Reads!Basics, Reads!Induction, Reads!Counted, Reads!Greatest
<1>. QED
  BY <1>1, <1>2

LEMMA ReadingIsFold ==
  ASSUME NEW S, NEW seq \in Seq(S)
  PROVE  constraints_of(seq) = Reads!Result(0, Constraints!NoConstraints, seq, 1 .. Len(seq))
<1>1. DOMAIN seq = 1 .. Len(seq)
  OBVIOUS
<1>. QED
  BY <1>1 DEF constraints_of, FoldLeft, MapThenFoldSet, Reads!Result, Reads!Recursive,
              ReadNext, Greatest, Max

LEMMA NothingRead == constraints_of(<<>>) = Constraints!NoConstraints
<1>1. <<>> \in Seq({}) /\ Len(<<>>) = 0
  OBVIOUS
<1>2. constraints_of(<<>>) = Reads!Result(0, Constraints!NoConstraints, <<>>, 1 .. 0)
  BY <1>1, ReadingIsFold
<1>3. PICK steps : Reads!Partial(0, Constraints!NoConstraints, <<>>, 0, steps)
  BY ReadFold, Reads!FoldSteps
<1>. QED
  BY <1>2, <1>3 DEF Reads!Partial

LEMMA OneMoreRead ==
  ASSUME NEW S, NEW seq \in Seq(S), NEW x \in S
  PROVE  constraints_of(Append(seq, x)) = Read(constraints_of(seq), x)
<1>1. Append(seq, x) \in Seq(S) /\ Len(Append(seq, x)) = Len(seq) + 1
  OBVIOUS
<1>2. constraints_of(Append(seq, x)) =
        Reads!Result(0, Constraints!NoConstraints, Append(seq, x), 1 .. Len(seq) + 1)
  BY <1>1, ReadingIsFold
<1>3. @ = ReadNext(0, x, Reads!Result(0, Constraints!NoConstraints, seq, 1 .. Len(seq)))
  BY ReadFold, Reads!FoldAppend
<1>4. @ = ReadNext(0, x, constraints_of(seq))
  BY ReadingIsFold
<1>. QED
  BY <1>2, <1>3, <1>4 DEF ReadNext

LEMMA NothingInForce ==
  ASSUME NEW ids, NEW all, NEW c, c = Constraints!NoConstraints
  PROVE  ConstraintsOK(c, ids, all) /\ InForce(c) = {} /\ c.domains = <<>> /\ c.names = <<>>
<1>1. /\ c.names = <<>> /\ c.domains = <<>> /\ c.source = << >> /\ c.const_gens = {}
      /\ c.input = [dt \in {"MAX", "MIN"} |-> <<>>] /\ c.output = [dt \in {"MAX", "MIN"} |-> <<>>]
      /\ c.setup = << >> /\ c.hold = << >>
      /\ c.setup_uncertainty = << >> /\ c.hold_uncertainty = << >>
      /\ c.latency = [a \in {"EARLY", "LATE"} |-> << >>]
  BY DEF Constraints!NoConstraints, Constraints!DelayTypes, Constraints!ArrivalKinds
<1>2. HasFields(c)
  BY <1>1 DEF HasFields, Constraints!NoConstraints, Constraints!DelayTypes, Constraints!ArrivalKinds
<1>3. IsFiniteSet({}) /\ DOMAIN <<>> = {} /\ ToSet(<<>>) = {} /\ Len(<<>>) = 0 /\ IsList(<<>>)
  BY FS_EmptySet DEF ToSet, IsList
<1>4. IoOK(<<>>, ids) /\ ClockMapOK(<<>>) /\ PairMapOK(<<>>) /\ SingleMapOK(<<>>) /\ GeneratorsOK({}, ids)
  BY <1>3 DEF IoOK, ClockMapOK, PairMapOK, SingleMapOK, GeneratorsOK
<1>5. ClocksOK(<<>>, <<>>, <<>>, all)
  <2>1. <<>> = [i \in 1 .. 0 |-> i - 1]
    OBVIOUS
  <2>. QED
    BY <1>3, <2>1 DEF ClocksOK
<1>6. ConstraintsOK(c, ids, all)
  BY <1>1, <1>2, <1>4, <1>5 DEF ConstraintsOK
<1>7. \A k \in Kinds : Section(c, k) = {}
  <2>1. /\ DomainEntries(<<>>, <<>>) = {} /\ SourceEntries(<<>>, <<>>) = {} /\ GeneratorEntries({}) = {}
        /\ \A kind : /\ IoEntries(kind, <<>>) = {} /\ ClockEntries(kind, <<>>) = {}
                     /\ PairEntries(kind, <<>>) = {} /\ SingleEntries(kind, <<>>) = {}
    BY <1>3 DEF DomainEntries, SourceEntries, GeneratorEntries, IoEntries, ClockEntries, PairEntries,
                SingleEntries
  <2>2. SectionsAre(c)
    BY SectionsOf
  <2>. QED
    BY <1>1, <2>1, <2>2 DEF SectionsAre, Kinds
<1>. QED
  BY <1>1, <1>6, <1>7 DEF InForce

(***************************************************************************)
(* Whatever well-formed statements a file has, what is read of it is sound.*)
(***************************************************************************)
LEMMA StatementsRead ==
  ASSUME NEW ids, NEW all, ids \subseteq all, NoNode \notin all,
         NEW S, \A s \in S : WellFormed(s, ids, NoNode), NEW seq \in Seq(S)
  PROVE  ConstraintsOK(constraints_of(seq), ids, all)
<1>. DEFINE Q == {q \in Seq(S) : ConstraintsOK(constraints_of(q), ids, all)}
<1>1. <<>> \in Q
  BY NothingRead, NothingInForce
<1>2. ASSUME NEW q \in Seq(S), NEW x \in S, q \in Q PROVE Append(q, x) \in Q
  <2>1. PICK c, r : c = constraints_of(q) /\ r = constraints_of(Append(q, x))
    OBVIOUS
  <2>2. r = Read(c, x) /\ ConstraintsOK(c, ids, all) /\ WellFormed(x, ids, NoNode)
    BY <1>2, <2>1, OneMoreRead
  <2>3. ConstraintsOK(r, ids, all)
    BY <2>2, StatementRead
  <2>. QED
    BY <2>1, <2>3
<1>. HIDE DEF Q
<1>3. \A q \in Seq(S) : q \in Q
  BY <1>1, <1>2, SequenceInduction
<1>. QED
  BY <1>3 DEF Q

(***************************************************************************)
(* Statements that can be read back: one of each subject, the clocks first *)
(* and in the order of their ids, a source only of a clock among them.     *)
(***************************************************************************)
Chain(w, ids) ==
  /\ AllFormed(ToSet(w), ids) /\ OneEach(ToSet(w))
  /\ \A i \in DOMAIN w : w[i].kind = "CLOCK" =>
       w[i].launch = i - 1 /\ \A j \in 1 .. i - 1 : w[j].kind = "CLOCK" /\ w[j].value # w[i].value
  /\ \A i \in DOMAIN w : w[i].kind = "CLOCK_SOURCE" =>
       \E j \in 1 .. i - 1 : w[j].kind = "CLOCK" /\ w[j].launch = w[i].launch

OnlyClocks(w) == \A s \in ToSet(w) : s.kind = "CLOCK"

ReadBack(w, c, ids, all) ==
  /\ ConstraintsOK(c, ids, all) /\ InForce(c) = ToSet(w)
  /\ OnlyClocks(w) => Len(c.domains) = Len(w)

LEMMA NewClockRead ==
  ASSUME NEW c, NEW ids, NEW all, ConstraintsOK(c, ids, all), ids \subseteq all, NoNode \notin all,
         NEW s, WellFormed(s, ids, NoNode), s.kind = "CLOCK", s.value \notin ToSet(c.names),
         NEW r, r = Read(c, s)
  PROVE  /\ Len(r.domains) = Len(c.domains) + 1
         /\ Constraints!find_clock_domain(r, s.value) = Len(c.domains)
<1>1. PICK name, id : name = s.value /\ id = Len(c.domains)
  OBVIOUS
<1>2. ClocksOK(c.names, c.domains, c.source, all) /\ ClocksOK(r.names, r.domains, r.source, all)
  <2>1. ConstraintsOK(r, ids, all)
    BY StatementRead
  <2>. QED
    BY <2>1 DEF ConstraintsOK
<1>3. /\ IsList(c.names) /\ id = Len(c.names) /\ id \in Nat
      /\ Len(r.domains) = Len(r.names) /\ Constraints!find_clock_domain(c, name) = NoDomain
  <2>1. Len(c.domains) = Len(c.names) /\ Len(c.names) \in Nat
    BY <1>2, DomainIds
  <2>2. Len(r.domains) = Len(r.names)
    BY <1>2, DomainIds
  <2>3. Constraints!find_clock_domain(c, name) = NoDomain
    BY <1>1, <1>2, DomainFound
  <2>4. IsList(c.names)
    BY <1>2 DEF ClocksOK
  <2>. QED
    BY <1>1, <2>1, <2>2, <2>3, <2>4
<1>4. r.names = Append(c.names, name)
  <2>1. PICK x, y, z : /\ x = Append(c.names, name) /\ y = Append(c.domains, id)
                       /\ z = Constraints!Put(c.source, id, NoNode)
    OBVIOUS
  <2>2. r = Constraints!create_clock_domain(c, name)
    BY <1>1 DEF Read
  <2>3. r = [c EXCEPT !.names = x, !.domains = y, !.source = z]
    BY <1>1, <1>3, <2>1, <2>2 DEF Constraints!create_clock_domain, Constraints!NoDomain, NoDomain,
                                  Constraints!NoNode, NoNode
  <2>4. "names" \in DOMAIN c
    <3>1. HasFields(c)
      BY DEF ConstraintsOK
    <3>. QED
      BY <3>1 DEF HasFields
  <2>5. r.names = x
    BY <2>3, <2>4
  <2>. QED
    BY <2>1, <2>5
<1>5. id + 1 \in DOMAIN r.names /\ r.names[id + 1] = name /\ Len(r.names) = id + 1
  <2>1. PICK old, new : old = c.names /\ new = Append(old, name)
    OBVIOUS
  <2>2. IsList(old) /\ IsList(new) /\ DOMAIN new = DOMAIN old \cup {Len(old) + 1}
        /\ new[Len(old) + 1] = name
    BY <1>3, <2>1, ListLonger
  <2>3. DOMAIN old = 1 .. Len(old) /\ DOMAIN new = 1 .. Len(new) /\ Len(new) \in Nat /\ Len(old) \in Nat
    BY <2>2 DEF IsList
  <2>4. Len(new) = Len(old) + 1
    BY <2>2, <2>3
  <2>. QED
    BY <1>3, <1>4, <2>1, <2>2, <2>4
<1>6. Constraints!find_clock_domain(r, r.names[id + 1]) = (id + 1) - 1
  BY <1>2, <1>5, DomainFound
<1>. QED
  BY <1>1, <1>3, <1>5, <1>6

LEMMA ChainStep ==
  ASSUME NEW ids, NEW all, ids \subseteq all, NoNode \notin all,
         NEW S, NEW w \in Seq(S), NEW x \in S, NEW v, v = Append(w, x), Chain(v, ids),
         NEW c, ReadBack(w, c, ids, all), NEW r, r = Read(c, x)
  PROVE  ReadBack(v, r, ids, all)
<1>1. /\ ToSet(v) = ToSet(w) \cup {x} /\ DOMAIN v = 1 .. Len(w) + 1 /\ Len(w) \in Nat
      /\ v[Len(w) + 1] = x /\ \A i \in 1 .. Len(w) : v[i] = w[i]
      /\ Len(v) = Len(w) + 1 /\ DOMAIN w = 1 .. Len(w)
  BY ToSetAppend, AppendProperties
<1>2. ConstraintsOK(c, ids, all) /\ WellFormed(x, ids, NoNode)
  BY <1>1 DEF Chain, ReadBack, AllFormed
<1>3. SectionsAre(c) /\ ClocksOK(c.names, c.domains, c.source, all)
  BY <1>2, SectionsOf DEF ConstraintsOK
<1>4. ASSUME x.kind = "CLOCK"
      PROVE  /\ Constraints!find_clock_domain(r, x.value) = x.launch
             /\ Len(r.domains) = Len(v)
  <2>1. x.launch = Len(w) /\ \A j \in 1 .. Len(w) : w[j].kind = "CLOCK" /\ w[j].value # x.value
    BY <1>1, <1>4 DEF Chain
  <2>2. OnlyClocks(w) /\ \A s \in ToSet(w) : s.value # x.value
    BY <1>1, <2>1 DEF OnlyClocks, ToSet
  <2>3. x.value \notin ToSet(c.names)
    <3>. SUFFICES ASSUME NEW i \in DOMAIN c.names, c.names[i] = x.value PROVE FALSE
      BY DEF ToSet
    <3>1. i - 1 \in ToSet(c.domains) /\ (i - 1) + 1 = i
      BY <1>3, DomainIds
    <3>2. Statement("CLOCK", NoNode, i - 1, NoDomain, c.names[i]) \in Section(c, "CLOCK")
      BY <1>3, <3>1 DEF SectionsAre, DomainEntries
    <3>3. Statement("CLOCK", NoNode, i - 1, NoDomain, c.names[i]) \in ToSet(w)
      BY <3>2 DEF InForce, Kinds, ReadBack
    <3>4. Statement("CLOCK", NoNode, i - 1, NoDomain, c.names[i]).value = x.value
      BY DEF Statement
    <3>. QED
      BY <2>2, <3>3, <3>4
  <2>4. Len(c.domains) = Len(w)
    BY <2>2 DEF ReadBack
  <2>5. Len(r.domains) = Len(c.domains) + 1 /\ Constraints!find_clock_domain(r, x.value) = Len(c.domains)
    BY <1>2, <1>4, <2>3, NewClockRead
  <2>. QED
    BY <1>1, <2>1, <2>4, <2>5
<1>5. ASSUME x.kind = "CLOCK_SOURCE" PROVE x.launch \in ToSet(c.domains)
  <2>1. PICK j \in 1 .. Len(w) : w[j].kind = "CLOCK" /\ w[j].launch = x.launch
    BY <1>1, <1>5 DEF Chain
  <2>2. w[j] \in InForce(c)
    BY <1>1, <2>1 DEF ReadBack, ToSet
  <2>3. w[j] \in Section(c, "CLOCK")
    BY <1>2, <2>1, <2>2, InForceMembers
  <2>. QED
    BY <1>3, <2>1, <2>3 DEF SectionsAre, DomainEntries, Statement
<1>6. Fits(c, r, x)
  BY <1>4, <1>5 DEF Fits
<1>7. ConstraintsOK(r, ids, all) /\ InForce(r) = Replaced(InForce(c), x)
  BY <1>2, <1>6, StatementRead
<1>8. Replaced(ToSet(w), x) = ToSet(v)
  <2>1. \A t \in ToSet(w) : SameSubject(t, x) => t = x
    BY <1>1 DEF Chain, OneEach
  <2>. QED
    BY <1>1, <2>1 DEF Replaced
<1>9. OnlyClocks(v) => Len(r.domains) = Len(v)
  BY <1>1, <1>4 DEF OnlyClocks
<1>. QED
  BY <1>7, <1>8, <1>9 DEF ReadBack

LEMMA ChainPrefix ==
  ASSUME NEW ids, NEW S, NEW w \in Seq(S), NEW x \in S, Chain(Append(w, x), ids)
  PROVE  Chain(w, ids)
<1>1. PICK v : v = Append(w, x)
  OBVIOUS
<1>2. /\ ToSet(v) = ToSet(w) \cup {x} /\ DOMAIN v = 1 .. Len(w) + 1 /\ Len(w) \in Nat
      /\ \A i \in 1 .. Len(w) : v[i] = w[i]
      /\ DOMAIN w = 1 .. Len(w)
  BY <1>1, ToSetAppend, AppendProperties
<1>3. Chain(v, ids)
  BY <1>1
<1>4. AllFormed(ToSet(w), ids) /\ OneEach(ToSet(w))
  BY <1>2, <1>3 DEF Chain, AllFormed, OneEach
<1>5. ASSUME NEW i \in DOMAIN w, w[i].kind = "CLOCK"
      PROVE  /\ w[i].launch = i - 1
             /\ \A j \in 1 .. i - 1 : w[j].kind = "CLOCK" /\ w[j].value # w[i].value
  BY <1>2, <1>3, <1>5 DEF Chain
<1>6. ASSUME NEW i \in DOMAIN w, w[i].kind = "CLOCK_SOURCE"
      PROVE  \E j \in 1 .. i - 1 : w[j].kind = "CLOCK" /\ w[j].launch = w[i].launch
  BY <1>2, <1>3, <1>6 DEF Chain
<1>. QED
  BY <1>4, <1>5, <1>6 DEF Chain

LEMMA ChainRead ==
  ASSUME NEW ids, NEW all, ids \subseteq all, NoNode \notin all,
         NEW S, NEW seq \in Seq(S), Chain(seq, ids)
  PROVE  ReadBack(seq, constraints_of(seq), ids, all)
<1>. DEFINE Q == {q \in Seq(S) : Chain(q, ids) => ReadBack(q, constraints_of(q), ids, all)}
<1>1. <<>> \in Q
  <2>1. ToSet(<<>>) = {} /\ Len(<<>>) = 0
    BY DEF ToSet
  <2>2. ReadBack(<<>>, constraints_of(<<>>), ids, all)
    BY <2>1, NothingRead, NothingInForce DEF ReadBack
  <2>. QED
    BY <2>2
<1>2. ASSUME NEW q \in Seq(S), NEW x \in S, q \in Q PROVE Append(q, x) \in Q
  <2>. SUFFICES ASSUME Chain(Append(q, x), ids)
                PROVE  ReadBack(Append(q, x), constraints_of(Append(q, x)), ids, all)
    OBVIOUS
  <2>1. PICK c, r, v : /\ c = constraints_of(q) /\ r = constraints_of(Append(q, x))
                       /\ v = Append(q, x)
    OBVIOUS
  <2>2. r = Read(c, x) /\ ReadBack(q, c, ids, all) /\ Chain(v, ids)
    BY <1>2, <2>1, OneMoreRead, ChainPrefix
  <2>3. ReadBack(v, r, ids, all)
    BY <2>1, <2>2, ChainStep
  <2>. QED
    BY <2>1, <2>3
<1>. HIDE DEF Q
<1>3. \A q \in Seq(S) : q \in Q
  BY <1>1, <1>2, SequenceInduction
<1>. QED
  BY <1>3 DEF Q

(***************************************************************************)
(* The writer lists a set in some order, a list without what it leaves out,*)
(* and one section after the other.                                        *)
(***************************************************************************)
ListOf(b, B) == b \in Seq(B) /\ ToSet(b) = B

LEMMA SetListed ==
  ASSUME NEW S, IsFiniteSet(S)
  PROVE  ListOf(SetToSeq(S), S)
<1>. DEFINE n == Cardinality(S)
            F == {f \in [1 .. n -> S] : IsInjective(f)}
<1>1. n \in Nat /\ IsFiniteSet(1 .. n) /\ Cardinality(1 .. n) = n
  BY FS_CardinalityType, FS_Interval
<1>2. ExistsBijection(1 .. n, S)
  BY <1>1, FS_SameCardinalityBij
<1>3. F # {}
  BY <1>2 DEF ExistsBijection, Bijection, Injection
<1>4. SetToSeq(S) = CHOOSE f \in [1 .. n -> S] : IsInjective(f)
  BY DEF SetToSeq
<1>5. SetToSeq(S) \in F
  BY <1>3, <1>4
<1>6. PICK f : f = SetToSeq(S) /\ f \in [1 .. n -> S] /\ f \in Injection(1 .. n, S)
  BY <1>5 DEF Injection
<1>7. f \in Surjection(1 .. n, S)
  BY <1>1, <1>6, FS_Injection
<1>8. f \in Seq(S) /\ DOMAIN f = 1 .. n
  BY <1>1, <1>6
<1>9. ToSet(f) = S
  BY <1>6, <1>7, <1>8 DEF Surjection, ToSet
<1>. QED
  BY <1>6, <1>8, <1>9 DEF ListOf

LEMMA KeptListed ==
  ASSUME NEW s, IsList(s), NEW T, T \subseteq ToSet(s)
  PROVE  ListOf(Kept(s, T), T)
<1>1. PICK S : S = ToSet(s) /\ s \in Seq(S)
  BY DEF IsList
<1>2. Kept(s, T) \in Seq(S \cap T) /\ S \cap T = T
  BY <1>1, KeptOccurrences
<1>3. ToSet(Kept(s, T)) = T
  <2>. DEFINE f == [x \in T |-> x]
  <2>1. Kept(s, T) = Mapped(s, f)
    BY DEF Kept
  <2>2. DOMAIN f = T /\ \A x \in T : f[x] = x
    OBVIOUS
  <2>. HIDE DEF f
  <2>3. ToSet(Mapped(s, f)) = {f[x] : x \in ToSet(s) \cap DOMAIN f}
    BY <1>1, MappedSet
  <2>. QED
    BY <1>1, <2>1, <2>2, <2>3
<1>. QED
  BY <1>2, <1>3 DEF ListOf

\* A list of statements, one for each element of a list.
LEMMA StatementsListed ==
  ASSUME NEW b, NEW B, ListOf(b, B), NEW f, DOMAIN f = B,
         NEW w, w = [i \in DOMAIN b |-> f[b[i]]]
  PROVE  ListOf(w, {f[x] : x \in B})
<1>1. DOMAIN b = 1 .. Len(b) /\ Len(b) \in Nat /\ \A i \in DOMAIN b : b[i] \in B
  BY DEF ListOf
<1>2. DOMAIN w = 1 .. Len(b) /\ \A i \in 1 .. Len(b) : w[i] = f[b[i]] /\ w[i] \in {f[x] : x \in B}
  BY <1>1
<1>3. w \in Seq({f[x] : x \in B})
  BY <1>1, <1>2
<1>4. ASSUME NEW x \in B PROVE f[x] \in ToSet(w)
  <2>1. PICK i \in DOMAIN b : b[i] = x
    BY DEF ListOf, ToSet
  <2>. QED
    BY <1>1, <1>2, <2>1 DEF ToSet
<1>5. ToSet(w) \subseteq {f[x] : x \in B}
  BY <1>2 DEF ToSet
<1>. QED
  BY <1>3, <1>4, <1>5 DEF ListOf

(***************************************************************************)
(* The list v starts with the clocks, and has the statements S.            *)
(***************************************************************************)
StartsWith(v, clocks, S) ==
  /\ ListOf(v, S) /\ clocks \in Seq(S) /\ Len(clocks) <= Len(v)
  /\ \A i \in 1 .. Len(clocks) : v[i] = clocks[i]
  /\ \A i \in 1 .. Len(v) : i > Len(clocks) => v[i].kind # "CLOCK"

LEMMA NextSection ==
  ASSUME NEW v, NEW clocks, NEW S, StartsWith(v, clocks, S),
         NEW b, NEW B, ListOf(b, B), \A t \in B : t.kind # "CLOCK",
         NEW w, w = v \o b, NEW T, T = S \cup B
  PROVE  StartsWith(w, clocks, T)
<1>1. /\ v \in Seq(T) /\ b \in Seq(T) /\ clocks \in Seq(T) /\ b \in Seq(B)
      /\ Len(v) \in Nat /\ Len(b) \in Nat /\ Len(clocks) \in Nat
      /\ DOMAIN v = 1 .. Len(v) /\ DOMAIN b = 1 .. Len(b)
      /\ ToSet(v) = S /\ ToSet(b) = B
  <2>1. v \in Seq(S) /\ b \in Seq(B) /\ clocks \in Seq(S) /\ ToSet(v) = S /\ ToSet(b) = B
    BY DEF StartsWith, ListOf
  <2>2. S \subseteq T /\ B \subseteq T
    OBVIOUS
  <2>3. \A U, W : U \subseteq W => Seq(U) \subseteq Seq(W)
    OBVIOUS
  <2>. QED
    BY <2>1, <2>2, <2>3
<1>2. /\ w \in Seq(T) /\ Len(w) = Len(v) + Len(b)
      /\ \A i \in 1 .. Len(v) + Len(b) : w[i] = IF i <= Len(v) THEN v[i] ELSE b[i - Len(v)]
  BY <1>1, ConcatProperties
<1>3. DOMAIN w = 1 .. Len(v) + Len(b)
  BY <1>1, <1>2
<1>4. \A i \in 1 .. Len(b) : w[Len(v) + i] = b[i] /\ Len(v) + i \in 1 .. Len(v) + Len(b)
  BY <1>1, <1>2
<1>5. \A i \in 1 .. Len(v) : w[i] = v[i] /\ i \in 1 .. Len(v) + Len(b)
  BY <1>1, <1>2
<1>6. \A i \in 1 .. Len(w) : i > Len(v) => i - Len(v) \in 1 .. Len(b) /\ w[i] = b[i - Len(v)]
  BY <1>1, <1>2
<1>7. ToSet(w) = T
  <2>1. ToSet(w) \subseteq T
    BY <1>2, <1>3 DEF ToSet
  <2>2. S \subseteq ToSet(w)
    BY <1>1, <1>3, <1>5 DEF ToSet
  <2>3. B \subseteq ToSet(w)
    BY <1>1, <1>3, <1>4 DEF ToSet
  <2>. QED
    BY <2>1, <2>2, <2>3
<1>8. Len(clocks) <= Len(v) /\ \A i \in 1 .. Len(clocks) : v[i] = clocks[i]
  BY DEF StartsWith
<1>9. Len(clocks) <= Len(w) /\ \A i \in 1 .. Len(clocks) : w[i] = clocks[i]
  BY <1>1, <1>2, <1>5, <1>8
<1>10. ASSUME NEW i \in 1 .. Len(w), i > Len(clocks) PROVE w[i].kind # "CLOCK"
  <2>1. CASE i <= Len(v)
    BY <1>1, <1>5, <1>10, <2>1 DEF StartsWith
  <2>2. CASE i > Len(v)
    <3>1. b[i - Len(v)] \in B
      BY <1>1, <1>6, <2>2
    <3>. QED
      BY <1>6, <2>2, <3>1
  <2>. QED
    BY <1>1, <1>2, <2>1, <2>2
<1>. QED
  BY <1>1, <1>2, <1>7, <1>9, <1>10 DEF StartsWith, ListOf

\* w starts with, and is, the lines of the clocks.
ClockLines(names, domains, w) ==
  w = [i \in DOMAIN domains |-> Statement("CLOCK", NoNode, domains[i], NoDomain, names[i])]

ClocksFirst(names, domains, w) ==
  /\ StartsWith(w, w, DomainEntries(names, domains)) /\ Len(w) = Len(names)
  /\ \A i \in 1 .. Len(w) : w[i] = Statement("CLOCK", NoNode, i - 1, NoDomain, names[i])

LEMMA ClocksWritten ==
  ASSUME NEW names, NEW domains, NEW source, NEW all, ClocksOK(names, domains, source, all),
         NEW w, ClockLines(names, domains, w)
  PROVE  ClocksFirst(names, domains, w)
<1>. USE DEF ClockLines, ClocksFirst
<1>1. /\ ToSet(domains) = 0 .. Len(names) - 1 /\ Len(names) \in Nat
      /\ domains \in Seq(Int) /\ Len(domains) = Len(names)
      /\ DOMAIN names = 1 .. Len(names) /\ DOMAIN domains = 1 .. Len(names)
  BY DomainIds
<1>2. \A i \in 1 .. Len(names) : domains[i] = i - 1
  BY <1>1 DEF ClocksOK
<1>. DEFINE B == ToSet(domains)
            f == [d \in B |-> Statement("CLOCK", NoNode, d, NoDomain, names[d + 1])]
<1>3. ListOf(domains, B)
  <2>1. \A i \in DOMAIN domains : domains[i] \in B
    BY DEF ToSet
  <2>. QED
    BY SMTT(30), <1>1, <2>1 DEF ListOf
<1>4. \A i \in DOMAIN domains : domains[i] + 1 = i /\ domains[i] \in B
  BY <1>1, <1>2 DEF ToSet
<1>5. w = [i \in DOMAIN domains |-> f[domains[i]]]
  BY <1>4
<1>6. {f[d] : d \in B} = DomainEntries(names, domains) /\ DOMAIN f = B
  BY DEF DomainEntries
<1>. HIDE DEF f, B
<1>7. ListOf(w, DomainEntries(names, domains))
  BY <1>3, <1>5, <1>6, StatementsListed
<1>8. Len(w) = Len(names) /\ DOMAIN w = 1 .. Len(names)
  <2>1. w \in Seq(DomainEntries(names, domains)) /\ DOMAIN w = 1 .. Len(names)
    BY <1>1, <1>7 DEF ListOf
  <2>. QED
    BY <1>1, <2>1
<1>9. \A i \in 1 .. Len(w) : w[i] = Statement("CLOCK", NoNode, i - 1, NoDomain, names[i])
  BY <1>1, <1>2, <1>8
<1>10. StartsWith(w, w, DomainEntries(names, domains))
  BY <1>1, <1>7, <1>8 DEF StartsWith, ListOf
<1>. QED
  BY <1>8, <1>9, <1>10

LEMMA ListedMembers == \A b, B : ListOf(b, B) => \A i \in DOMAIN b : b[i] \in B
BY DEF ListOf

LEMMA DomainsListed ==
  ASSUME NEW names, NEW domains, NEW source, NEW all, ClocksOK(names, domains, source, all)
  PROVE  IsList(domains)
<1>1. /\ domains \in Seq(Int) /\ Len(domains) = Len(names) /\ Len(names) \in Nat
      /\ DOMAIN domains = 1 .. Len(names)
  BY DomainIds
<1>2. \A i \in DOMAIN domains : domains[i] \in ToSet(domains)
  BY DEF ToSet
<1>. QED
  BY <1>1, <1>2 DEF IsList

LEMMA SourcesListed ==
  ASSUME NEW domains, IsList(domains), NEW source, NEW B, B \subseteq ToSet(domains),
         NEW b, b = Kept(domains, B), NEW w,
         w = [i \in DOMAIN b |-> Statement("CLOCK_SOURCE", source[b[i]], b[i], NoDomain, NaN)]
  PROVE  ListOf(w, {Statement("CLOCK_SOURCE", source[d], d, NoDomain, NaN) : d \in B})
<1>. DEFINE f == [d \in B |-> Statement("CLOCK_SOURCE", source[d], d, NoDomain, NaN)]
<1>1. ListOf(b, B)
  BY KeptListed
<1>2. \A i \in DOMAIN b : b[i] \in B
  BY <1>1, ListedMembers, Zenon
<1>3. w = [i \in DOMAIN b |-> f[b[i]]]
  BY <1>2
<1>4. DOMAIN f = B
      /\ {f[d] : d \in B} = {Statement("CLOCK_SOURCE", source[d], d, NoDomain, NaN) : d \in B}
  OBVIOUS
<1>. HIDE DEF f
<1>. QED
  BY <1>1, <1>3, <1>4, StatementsListed

LEMMA SourcesWritten ==
  ASSUME NEW names, NEW domains, NEW source, NEW all, ClocksOK(names, domains, source, all),
         NEW b, b = Kept(domains, {d \in ToSet(domains) : source[d] # NoNode}), NEW w,
         w = [i \in DOMAIN b |-> Statement("CLOCK_SOURCE", source[b[i]], b[i], NoDomain, NaN)]
  PROVE  ListOf(w, SourceEntries(domains, source))
<1>1. IsList(domains)
  BY DomainsListed
<1>2. PICK B : B = {d \in ToSet(domains) : source[d] # NoNode}
  OBVIOUS
<1>3. B \subseteq ToSet(domains) /\ b = Kept(domains, B)
  BY <1>2
<1>4. ListOf(w, {Statement("CLOCK_SOURCE", source[d], d, NoDomain, NaN) : d \in B})
  BY <1>1, <1>3, SourcesListed
<1>. QED
  BY <1>2, <1>4 DEF SourceEntries

LEMMA GeneratorsWritten ==
  ASSUME NEW S, IsFiniteSet(S), NEW gens, gens = SetToSeq(S),
         NEW w, w = [i \in DOMAIN gens |->
                       Statement("CONSTANT_GENERATOR", gens[i], NoDomain, NoDomain, NaN)]
  PROVE  ListOf(w, GeneratorEntries(S))
<1>. DEFINE f == [n \in S |-> Statement("CONSTANT_GENERATOR", n, NoDomain, NoDomain, NaN)]
<1>1. ListOf(gens, S)
  BY SetListed
<1>2. \A i \in DOMAIN gens : gens[i] \in S
  BY <1>1 DEF ListOf
<1>3. w = [i \in DOMAIN gens |-> f[gens[i]]]
  BY <1>2
<1>4. {f[n] : n \in S} = GeneratorEntries(S) /\ DOMAIN f = S
  BY DEF GeneratorEntries
<1>. HIDE DEF f
<1>. QED
  BY <1>1, <1>3, <1>4, StatementsListed

(***************************************************************************)
(* A statement as it is printed: of the kinds that are times, with their   *)
(* digits there.                                                           *)
(***************************************************************************)
Copied(t) ==
  IF t.kind \in TimedKinds THEN Statement(t.kind, t.node, t.launch, t.capture, Printed(t.value)) ELSE t

Copies(S) == {Copied(t) : t \in S}

LEMMA SizeRounded ==
  ASSUME NEW size \in Nat, size < PosInf
  PROVE  Rounded(size) \in Nat /\ Rounded(size) <= PosInf
<1>1. \E u \in {1, 10, 100, 1000} : size < 1000000 * u /\ (u = 1 \/ size >= 100000 * u)
  BY SMT DEF PosInf
<1>2. PICK unit : unit = LastPlace(size)
  OBVIOUS
<1>3. unit \in {1, 10, 100, 1000} /\ size < 1000000 * unit
  BY <1>1, <1>2, SMT DEF LastPlace
<1>4. PICK down : down = size \div unit
  OBVIOUS
<1>5. Rounded(size) = unit * down \/ Rounded(size) = unit * (down + 1)
  BY <1>2, <1>4, SMT DEF Rounded
<1>6. ASSUME NEW r, r = unit * down \/ r = unit * (down + 1)
      PROVE  r \in Nat /\ r <= 1000000000
  <2>1. unit = 1 \/ unit = 10 \/ unit = 100 \/ unit = 1000
    BY <1>3
  <2>2. CASE unit = 1
    BY <1>3, <1>4, <1>6, <2>2, SMT
  <2>3. CASE unit = 10
    BY <1>3, <1>4, <1>6, <2>3, SMT
  <2>4. CASE unit = 100
    BY <1>3, <1>4, <1>6, <2>4, SMT
  <2>5. CASE unit = 1000
    BY <1>3, <1>4, <1>6, <2>5, SMT
  <2>. QED
    BY <2>1, <2>2, <2>3, <2>4, <2>5, SMT
<1>. QED
  BY <1>5, <1>6, SMT DEF PosInf

LEMMA PrintedIsTime ==
  ASSUME NEW t, IsTime(t)
  PROVE  IsTime(Printed(t))
<1>1. t \in Int /\ NegInf <= t /\ t <= PosInf
  BY DEF IsTime
<1>2. CASE IsInf(t)
  BY <1>2, SMT DEF Printed
<1>3. CASE ~IsInf(t) /\ t < 0
  <2>1. -t \in Nat /\ -t < PosInf
    BY <1>1, <1>3, SMT DEF PosInf, NegInf, IsInf
  <2>2. PICK size : size = Rounded(-t)
    OBVIOUS
  <2>3. size \in Nat /\ size <= PosInf
    BY <2>1, <2>2, SizeRounded
  <2>4. Printed(t) = -size
    BY <1>1, <1>3, <2>2, SMT DEF Printed, IsValid, PosInf, NegInf, NaN
  <2>. QED
    BY <2>3, <2>4, SMT DEF IsTime, PosInf, NegInf
<1>4. CASE ~IsInf(t) /\ t >= 0
  <2>1. t \in Nat /\ t < PosInf
    BY <1>1, <1>4, SMT DEF PosInf, NegInf, IsInf
  <2>2. PICK size : size = Rounded(t)
    OBVIOUS
  <2>3. size \in Nat /\ size <= PosInf
    BY <2>1, <2>2, SizeRounded
  <2>4. Printed(t) = size
    BY <1>1, <1>4, <2>2, SMT DEF Printed, IsValid, PosInf, NegInf, NaN
  <2>. QED
    BY <2>3, <2>4, SMT DEF IsTime, PosInf, NegInf
<1>. QED
  BY <1>1, <1>2, <1>3, <1>4, SMT

LEMMA TimesAreValid == \A t : IsTime(t) => IsValid(t)
BY SMT DEF IsTime, IsValid, PosInf, NegInf, NaN

LEMMA CopyOf ==
  ASSUME NEW kind \in TimedKinds, NEW node, NEW l, NEW d, NEW value
  PROVE  Copied(Statement(kind, node, l, d, value)) = Statement(kind, node, l, d, Printed(value))
<1>1. PICK t : t = Statement(kind, node, l, d, value)
  OBVIOUS
<1>2. t.kind = kind /\ t.node = node /\ t.launch = l /\ t.capture = d /\ t.value = value
  BY <1>1 DEF Statement
<1>. QED
  BY <1>1, <1>2 DEF Copied

LEMMA CopyFields ==
  ASSUME NEW t
  PROVE  /\ Copied(t).kind = t.kind /\ Copied(t).node = t.node
         /\ Copied(t).launch = t.launch /\ Copied(t).capture = t.capture
         /\ Copied(t).value = IF t.kind \in TimedKinds THEN Printed(t.value) ELSE t.value
         /\ t.kind \notin TimedKinds => Copied(t) = t
BY DEF Copied, Statement

LEMMA CopiesFormed ==
  ASSUME NEW S, NEW ids, AllFormed(S, ids), OneEach(S)
  PROVE  AllFormed(Copies(S), ids) /\ OneEach(Copies(S))
<1>1. ASSUME NEW t \in S PROVE WellFormed(Copied(t), ids, NoNode)
  <2>1. WellFormed(t, ids, NoNode)
    BY DEF AllFormed
  <2>2. CASE t.kind \notin TimedKinds
    BY <2>1, <2>2, CopyFields
  <2>3. CASE t.kind \in TimedKinds
    <3>1. PICK u : u = Copied(t)
      OBVIOUS
    <3>2. u = Statement(t.kind, t.node, t.launch, t.capture, Printed(t.value))
      BY <2>3, <3>1 DEF Copied
    <3>3. /\ u.kind = t.kind /\ u.node = t.node /\ u.launch = t.launch /\ u.capture = t.capture
          /\ u.value = Printed(t.value)
      BY <2>3, <3>1, CopyFields
    <3>4. u = Statement(u.kind, u.node, u.launch, u.capture, u.value)
      BY <3>2, <3>3
    <3>5. u.kind \in IoKinds \cup {"SETUP_CONSTRAINT", "HOLD_CONSTRAINT"} => IsTime(u.value)
      BY <2>1, <3>3, PrintedIsTime DEF WellFormed
    <3>6. u.kind \notin {"CLOCK_SOURCE", "CONSTANT_GENERATOR"}
      BY <2>3, <3>3 DEF TimedKinds, IoKinds, PairKinds
    <3>. QED
      BY <2>1, <3>1, <3>3, <3>4, <3>5, <3>6 DEF WellFormed
  <2>. QED
    BY <2>2, <2>3
<1>2. ASSUME NEW t \in S, NEW u \in S, SameSubject(Copied(t), Copied(u)) PROVE Copied(t) = Copied(u)
  <2>1. /\ Copied(t).kind = t.kind /\ Copied(t).node = t.node
        /\ Copied(t).launch = t.launch /\ Copied(t).capture = t.capture
    BY CopyFields
  <2>2. /\ Copied(u).kind = u.kind /\ Copied(u).node = u.node
        /\ Copied(u).launch = u.launch /\ Copied(u).capture = u.capture
    BY CopyFields
  <2>3. SameSubject(t, u)
    BY <1>2, <2>1, <2>2 DEF SameSubject
  <2>. QED
    BY <2>3 DEF OneEach
<1>. QED
  BY <1>1, <1>2 DEF AllFormed, OneEach, Copies

LEMMA NothingTimed ==
  /\ \A names, domains : Copies(DomainEntries(names, domains)) = DomainEntries(names, domains)
  /\ \A domains, source : Copies(SourceEntries(domains, source)) = SourceEntries(domains, source)
  /\ \A gens : Copies(GeneratorEntries(gens)) = GeneratorEntries(gens)
<1>1. ASSUME NEW S, \A t \in S : t.kind \in {"CLOCK", "CLOCK_SOURCE", "CONSTANT_GENERATOR"}
      PROVE  Copies(S) = S
  <2>1. \A t \in S : Copied(t) = t
    BY <1>1 DEF Copied, TimedKinds, IoKinds, PairKinds
  <2>. QED
    BY <2>1 DEF Copies
<1>2. \A names, domains : \A t \in DomainEntries(names, domains) : t.kind = "CLOCK"
  BY DEF DomainEntries, Statement
<1>3. \A domains, source : \A t \in SourceEntries(domains, source) : t.kind = "CLOCK_SOURCE"
  BY DEF SourceEntries, Statement
<1>4. \A gens : \A t \in GeneratorEntries(gens) : t.kind = "CONSTANT_GENERATOR"
  BY DEF GeneratorEntries, Statement
<1>. QED
  BY <1>1, <1>2, <1>3, <1>4

LEMMA IoWritten ==
  ASSUME NEW entries, NEW ids, IoOK(entries, ids), NEW kind \in TimedKinds, NEW w,
         w = IoStatements(kind, entries)
  PROVE  ListOf(w, Copies(IoEntries(kind, entries)))
<1>. DEFINE B == ToSet(entries)
            f == [x \in B |-> Statement(kind, x.node, x.domain, NoDomain, Printed(x.time))]
<1>1. IsList(entries) /\ {x \in B : IsValid(x.time)} = B
  BY TimesAreValid DEF IoOK, ToSet
<1>2. PICK valid : valid = Kept(entries, B)
  OBVIOUS
<1>3. ListOf(valid, B)
  BY <1>1, <1>2, KeptListed
<1>4. \A i \in DOMAIN valid : valid[i] \in B
  BY <1>3 DEF ListOf
<1>5. w = [i \in DOMAIN valid |-> f[valid[i]]]
  BY <1>1, <1>2, <1>4 DEF IoStatements
<1>6. {f[x] : x \in B} = Copies(IoEntries(kind, entries)) /\ DOMAIN f = B
  <2>1. \A x \in B : Copied(Statement(kind, x.node, x.domain, NoDomain, x.time)) = f[x]
    BY CopyOf
  <2>2. IoEntries(kind, entries) = {Statement(kind, x.node, x.domain, NoDomain, x.time) : x \in B}
    BY DEF IoEntries
  <2>. QED
    BY <2>1, <2>2 DEF Copies
<1>. HIDE DEF f, B
<1>. QED
  BY <1>3, <1>5, <1>6, StatementsListed

LEMMA ClockMapWritten ==
  ASSUME NEW map, ClockMapOK(map), NEW kind \in TimedKinds, NEW w,
         w = ClockStatements(kind, map)
  PROVE  ListOf(w, Copies(ClockEntries(kind, map)))
<1>. DEFINE B == DOMAIN map
            f == [k \in B |-> Statement(kind, k[3], k[1], k[2], Printed(map[k]))]
<1>1. IsFiniteSet(B) /\ {k \in B : IsValid(map[k])} = B
  BY TimesAreValid DEF ClockMapOK
<1>2. PICK keys : keys = SetToSeq(B)
  OBVIOUS
<1>3. ListOf(keys, B)
  BY <1>1, <1>2, SetListed
<1>4. \A i \in DOMAIN keys : keys[i] \in B
  BY <1>3 DEF ListOf
<1>5. w = [i \in DOMAIN keys |-> f[keys[i]]]
  BY <1>1, <1>2, <1>4 DEF ClockStatements
<1>6. {f[k] : k \in B} = Copies(ClockEntries(kind, map)) /\ DOMAIN f = B
  <2>1. \A k \in B : Copied(Statement(kind, k[3], k[1], k[2], map[k])) = f[k]
    BY CopyOf
  <2>2. ClockEntries(kind, map) = {Statement(kind, k[3], k[1], k[2], map[k]) : k \in B}
    BY DEF ClockEntries
  <2>. QED
    BY <2>1, <2>2 DEF Copies
<1>. HIDE DEF f, B
<1>. QED
  BY <1>3, <1>5, <1>6, StatementsListed

LEMMA PairMapWritten ==
  ASSUME NEW map, PairMapOK(map), NEW kind \in TimedKinds, NEW w,
         w = UncertaintyStatements(kind, map)
  PROVE  ListOf(w, Copies(PairEntries(kind, map)))
<1>. DEFINE B == DOMAIN map
            f == [k \in B |-> Statement(kind, NoNode, k[1], k[2], Printed(map[k]))]
<1>1. IsFiniteSet(B)
  BY DEF PairMapOK
<1>2. PICK keys : keys = SetToSeq(B)
  OBVIOUS
<1>3. ListOf(keys, B)
  BY <1>1, <1>2, SetListed
<1>4. \A i \in DOMAIN keys : keys[i] \in B
  BY <1>3 DEF ListOf
<1>5. w = [i \in DOMAIN keys |-> f[keys[i]]]
  BY <1>2, <1>4 DEF UncertaintyStatements
<1>6. {f[k] : k \in B} = Copies(PairEntries(kind, map)) /\ DOMAIN f = B
  <2>1. \A k \in B : Copied(Statement(kind, NoNode, k[1], k[2], map[k])) = f[k]
    BY CopyOf
  <2>2. PairEntries(kind, map) = {Statement(kind, NoNode, k[1], k[2], map[k]) : k \in B}
    BY DEF PairEntries
  <2>. QED
    BY <2>1, <2>2 DEF Copies
<1>. HIDE DEF f, B
<1>. QED
  BY <1>3, <1>5, <1>6, StatementsListed

LEMMA SingleMapWritten ==
  ASSUME NEW map, SingleMapOK(map), NEW kind \in TimedKinds, NEW w,
         w = LatencyStatements(kind, map)
  PROVE  ListOf(w, Copies(SingleEntries(kind, map)))
<1>. DEFINE B == DOMAIN map
            f == [d \in B |-> Statement(kind, NoNode, d, NoDomain, Printed(map[d]))]
<1>1. IsFiniteSet(B)
  BY DEF SingleMapOK
<1>2. PICK keys : keys = SetToSeq(B)
  OBVIOUS
<1>3. ListOf(keys, B)
  BY <1>1, <1>2, SetListed
<1>4. \A i \in DOMAIN keys : keys[i] \in B
  BY <1>3 DEF ListOf
<1>5. w = [i \in DOMAIN keys |-> f[keys[i]]]
  BY <1>2, <1>4 DEF LatencyStatements
<1>6. {f[d] : d \in B} = Copies(SingleEntries(kind, map)) /\ DOMAIN f = B
  <2>1. \A d \in B : Copied(Statement(kind, NoNode, d, NoDomain, map[d])) = f[d]
    BY CopyOf
  <2>2. SingleEntries(kind, map) = {Statement(kind, NoNode, d, NoDomain, map[d]) : d \in B}
    BY DEF SingleEntries
  <2>. QED
    BY <2>1, <2>2 DEF Copies
<1>. HIDE DEF f, B
<1>. QED
  BY <1>3, <1>5, <1>6, StatementsListed

LEMMA NotClocks ==
  /\ \A domains, source : \A t \in SourceEntries(domains, source) : t.kind # "CLOCK"
  /\ \A gens : \A t \in GeneratorEntries(gens) : t.kind # "CLOCK"
  /\ \A kind, entries : kind # "CLOCK" => \A t \in IoEntries(kind, entries) : t.kind # "CLOCK"
  /\ \A kind, map : kind # "CLOCK" =>
       /\ \A t \in ClockEntries(kind, map) : t.kind # "CLOCK"
       /\ \A t \in PairEntries(kind, map) : t.kind # "CLOCK"
       /\ \A t \in SingleEntries(kind, map) : t.kind # "CLOCK"
BY DEF SourceEntries, GeneratorEntries, IoEntries, ClockEntries, PairEntries, SingleEntries, Statement

LEMMA NoClockCopied == \A S : (\A t \in S : t.kind # "CLOCK") => \A t \in Copies(S) : t.kind # "CLOCK"
BY CopyFields DEF Copies

LEMMA ConstraintsWritten ==
  ASSUME NEW c, NEW ids, NEW all, ConstraintsOK(c, ids, all), NEW w, w = write_timing_constraints(c)
  PROVE  \E clocks : /\ StartsWith(w, clocks, Copies(InForce(c))) /\ Len(clocks) = Len(c.names)
                     /\ \A i \in 1 .. Len(clocks) :
                          clocks[i] = Statement("CLOCK", NoNode, i - 1, NoDomain, c.names[i])
<1>1. PICK b1, sourced, b2, gens, b3 :
        /\ b1 = [i \in DOMAIN c.domains |->
                   Statement("CLOCK", NoNode, c.domains[i], NoDomain, c.names[i])]
        /\ sourced = Kept(c.domains, {d \in ToSet(c.domains) : c.source[d] # NoNode})
        /\ b2 = [i \in DOMAIN sourced |->
                   Statement("CLOCK_SOURCE", c.source[sourced[i]], sourced[i], NoDomain, NaN)]
        /\ gens = SetToSeq(c.const_gens)
        /\ b3 = [i \in DOMAIN gens |->
                   Statement("CONSTANT_GENERATOR", gens[i], NoDomain, NoDomain, NaN)]
  OBVIOUS
<1>2. PICK b4, b5, b6, b7, b8, b9, b10, b11, b12, b13 :
        /\ b4 = IoStatements("MAX_INPUT_CONSTRAINT",  c.input["MAX"])
        /\ b5 = IoStatements("MIN_INPUT_CONSTRAINT",  c.input["MIN"])
        /\ b6 = IoStatements("MAX_OUTPUT_CONSTRAINT", c.output["MAX"])
        /\ b7 = IoStatements("MIN_OUTPUT_CONSTRAINT", c.output["MIN"])
        /\ b8 = ClockStatements("SETUP_CONSTRAINT", c.setup)
        /\ b9 = ClockStatements("HOLD_CONSTRAINT",  c.hold)
        /\ b10 = UncertaintyStatements("SETUP_UNCERTAINTY", c.setup_uncertainty)
        /\ b11 = UncertaintyStatements("HOLD_UNCERTAINTY",  c.hold_uncertainty)
        /\ b12 = LatencyStatements("EARLY_SOURCE_LATENCY", c.latency["EARLY"])
        /\ b13 = LatencyStatements("LATE_SOURCE_LATENCY",  c.latency["LATE"])
  BY SMTT(30)
<1>3. w = b1 \o b2 \o b3 \o b4 \o b5 \o b6 \o b7 \o b8 \o b9 \o b10 \o b11 \o b12 \o b13
  BY ZenonT(40), <1>1, <1>2 DEF write_timing_constraints
<1>4. PICK w2, w3, w4, w5, w6, w7, w8, w9, w10, w11, w12 :
        /\ w2 = b1 \o b2 /\ w3 = w2 \o b3 /\ w4 = w3 \o b4 /\ w5 = w4 \o b5
        /\ w6 = w5 \o b6 /\ w7 = w6 \o b7 /\ w8 = w7 \o b8 /\ w9 = w8 \o b9
        /\ w10 = w9 \o b10 /\ w11 = w10 \o b11 /\ w12 = w11 \o b12
  OBVIOUS
<1>5. w = w12 \o b13
  BY <1>3, <1>4
<1>6. PICK names, domains, source : /\ names = c.names /\ domains = c.domains /\ source = c.source
                                    /\ ClocksOK(names, domains, source, all)
  BY DEF ConstraintsOK
<1>7. PICK B1, B2, B3 : /\ B1 = DomainEntries(names, domains)
                        /\ B2 = SourceEntries(domains, source)
                        /\ B3 = GeneratorEntries(c.const_gens)
  OBVIOUS
<1>8. PICK B4, B5, B6, B7, B8, B9, B10, B11, B12, B13 :
        /\ B4 = Copies(IoEntries("MAX_INPUT_CONSTRAINT",  c.input["MAX"]))
        /\ B5 = Copies(IoEntries("MIN_INPUT_CONSTRAINT",  c.input["MIN"]))
        /\ B6 = Copies(IoEntries("MAX_OUTPUT_CONSTRAINT", c.output["MAX"]))
        /\ B7 = Copies(IoEntries("MIN_OUTPUT_CONSTRAINT", c.output["MIN"]))
        /\ B8 = Copies(ClockEntries("SETUP_CONSTRAINT", c.setup))
        /\ B9 = Copies(ClockEntries("HOLD_CONSTRAINT",  c.hold))
        /\ B10 = Copies(PairEntries("SETUP_UNCERTAINTY", c.setup_uncertainty))
        /\ B11 = Copies(PairEntries("HOLD_UNCERTAINTY",  c.hold_uncertainty))
        /\ B12 = Copies(SingleEntries("EARLY_SOURCE_LATENCY", c.latency["EARLY"]))
        /\ B13 = Copies(SingleEntries("LATE_SOURCE_LATENCY",  c.latency["LATE"]))
  OBVIOUS
<1>9. /\ StartsWith(b1, b1, B1) /\ Len(b1) = Len(names)
      /\ \A i \in 1 .. Len(b1) : b1[i] = Statement("CLOCK", NoNode, i - 1, NoDomain, names[i])
  <2>1. ClockLines(names, domains, b1)
    BY <1>1, <1>6 DEF ClockLines
  <2>2. ClocksFirst(names, domains, b1)
    BY <1>6, <2>1, ClocksWritten
  <2>. QED
    BY <1>7, <2>2 DEF ClocksFirst
<1>10. ListOf(b2, B2) /\ \A t \in B2 : t.kind # "CLOCK"
  <2>1. /\ sourced = Kept(domains, {d \in ToSet(domains) : source[d] # NoNode})
        /\ b2 = [i \in DOMAIN sourced |->
                   Statement("CLOCK_SOURCE", source[sourced[i]], sourced[i], NoDomain, NaN)]
    BY <1>1, <1>6
  <2>2. ListOf(b2, SourceEntries(domains, source))
    BY <1>6, <2>1, SourcesWritten
  <2>. QED
    BY <1>7, <2>2, NotClocks
<1>11. ListOf(b3, B3) /\ \A t \in B3 : t.kind # "CLOCK"
  <2>1. IsFiniteSet(c.const_gens)
    BY DEF ConstraintsOK, GeneratorsOK
  <2>. QED
    BY <1>1, <1>7, <2>1, GeneratorsWritten, NotClocks
<1>12. /\ ListOf(b4, B4) /\ ListOf(b5, B5) /\ ListOf(b6, B6) /\ ListOf(b7, B7)
       /\ \A t \in B4 \cup B5 \cup B6 \cup B7 : t.kind # "CLOCK"
  <2>1. /\ IoOK(c.input["MAX"], ids) /\ IoOK(c.input["MIN"], ids)
        /\ IoOK(c.output["MAX"], ids) /\ IoOK(c.output["MIN"], ids)
    BY DEF ConstraintsOK
  <2>2. ListOf(b4, B4) /\ ListOf(b5, B5)
    BY <1>2, <1>8, <2>1, IoWritten DEF TimedKinds, IoKinds
  <2>3. ListOf(b6, B6) /\ ListOf(b7, B7)
    BY <1>2, <1>8, <2>1, IoWritten DEF TimedKinds, IoKinds
  <2>. QED
    BY <1>8, <2>2, <2>3, NotClocks, NoClockCopied
<1>13. /\ ListOf(b8, B8) /\ ListOf(b9, B9) /\ \A t \in B8 \cup B9 : t.kind # "CLOCK"
  <2>1. ClockMapOK(c.setup) /\ ClockMapOK(c.hold)
    BY DEF ConstraintsOK
  <2>. QED
    BY <1>2, <1>8, <2>1, ClockMapWritten, NotClocks, NoClockCopied DEF TimedKinds, PairKinds
<1>14. /\ ListOf(b10, B10) /\ ListOf(b11, B11) /\ \A t \in B10 \cup B11 : t.kind # "CLOCK"
  <2>1. PairMapOK(c.setup_uncertainty) /\ PairMapOK(c.hold_uncertainty)
    BY DEF ConstraintsOK
  <2>. QED
    BY <1>2, <1>8, <2>1, PairMapWritten, NotClocks, NoClockCopied DEF TimedKinds, PairKinds
<1>15. /\ ListOf(b12, B12) /\ ListOf(b13, B13) /\ \A t \in B12 \cup B13 : t.kind # "CLOCK"
  <2>1. SingleMapOK(c.latency["EARLY"]) /\ SingleMapOK(c.latency["LATE"])
    BY DEF ConstraintsOK
  <2>. QED
    BY <1>2, <1>8, <2>1, SingleMapWritten, NotClocks, NoClockCopied DEF TimedKinds, PairKinds
<1>16. PICK S2, S3, S4, S5, S6, S7, S8, S9, S10, S11, S12, S13 :
        /\ S2 = B1 \cup B2 /\ S3 = S2 \cup B3 /\ S4 = S3 \cup B4 /\ S5 = S4 \cup B5
        /\ S6 = S5 \cup B6 /\ S7 = S6 \cup B7 /\ S8 = S7 \cup B8 /\ S9 = S8 \cup B9
        /\ S10 = S9 \cup B10 /\ S11 = S10 \cup B11 /\ S12 = S11 \cup B12 /\ S13 = S12 \cup B13
  OBVIOUS
<1>17. Copies(InForce(c)) = S13
  <2>1. /\ Copies(Section(c, "CLOCK")) = B1 /\ Copies(Section(c, "CLOCK_SOURCE")) = B2
        /\ Copies(Section(c, "CONSTANT_GENERATOR")) = B3
        /\ Copies(Section(c, "MAX_INPUT_CONSTRAINT")) = B4 /\ Copies(Section(c, "MIN_INPUT_CONSTRAINT")) = B5
        /\ Copies(Section(c, "MAX_OUTPUT_CONSTRAINT")) = B6 /\ Copies(Section(c, "MIN_OUTPUT_CONSTRAINT")) = B7
        /\ Copies(Section(c, "SETUP_CONSTRAINT")) = B8 /\ Copies(Section(c, "HOLD_CONSTRAINT")) = B9
        /\ Copies(Section(c, "SETUP_UNCERTAINTY")) = B10 /\ Copies(Section(c, "HOLD_UNCERTAINTY")) = B11
        /\ Copies(Section(c, "EARLY_SOURCE_LATENCY")) = B12 /\ Copies(Section(c, "LATE_SOURCE_LATENCY")) = B13
    BY <1>6, <1>7, <1>8, SectionsOf, NothingTimed DEF SectionsAre
  <2>2. S13 = B1 \cup B2 \cup B3 \cup B4 \cup B5 \cup B6 \cup B7 \cup B8 \cup B9 \cup B10
              \cup B11 \cup B12 \cup B13
    BY <1>16
  <2>3. Copies(InForce(c)) = UNION {Copies(Section(c, k)) : k \in Kinds}
    BY DEF InForce, Copies
  <2>4. Copies(InForce(c)) \subseteq S13
    <3>. SUFFICES ASSUME NEW k \in Kinds, NEW t \in Copies(Section(c, k)) PROVE t \in S13
      BY <2>3
    <3>. QED
      BY <2>1, <2>2 DEF Kinds
  <2>5. S13 \subseteq Copies(InForce(c))
    <3>. SUFFICES ASSUME NEW t \in S13 PROVE \E k \in Kinds : t \in Copies(Section(c, k))
      BY SMTT(30), <2>3
    <3>. QED
      BY <2>1, <2>2 DEF Kinds
  <2>. QED
    BY <2>4, <2>5
<1>18. StartsWith(w2, b1, S2)
  BY <1>4, <1>9, <1>10, <1>16, NextSection
<1>19. StartsWith(w3, b1, S3)
  BY <1>4, <1>11, <1>16, <1>18, NextSection
<1>20. StartsWith(w4, b1, S4)
  BY <1>4, <1>12, <1>16, <1>19, NextSection
<1>21. StartsWith(w5, b1, S5)
  BY <1>4, <1>12, <1>16, <1>20, NextSection
<1>22. StartsWith(w6, b1, S6)
  BY <1>4, <1>12, <1>16, <1>21, NextSection
<1>23. StartsWith(w7, b1, S7)
  BY <1>4, <1>12, <1>16, <1>22, NextSection
<1>24. StartsWith(w8, b1, S8)
  BY <1>4, <1>13, <1>16, <1>23, NextSection
<1>25. StartsWith(w9, b1, S9)
  BY <1>4, <1>13, <1>16, <1>24, NextSection
<1>26. StartsWith(w10, b1, S10)
  BY <1>4, <1>14, <1>16, <1>25, NextSection
<1>27. StartsWith(w11, b1, S11)
  BY <1>4, <1>14, <1>16, <1>26, NextSection
<1>28. StartsWith(w12, b1, S12)
  BY <1>4, <1>15, <1>16, <1>27, NextSection
<1>29. StartsWith(w, b1, S13)
  BY <1>5, <1>15, <1>16, <1>28, NextSection
<1>. QED
  BY <1>6, <1>9, <1>17, <1>29

(***************************************************************************)
(* Of a graph without removed nodes, what is written is read back.         *)
(***************************************************************************)
LEMMA WrittenIsChain ==
  ASSUME NEW c, NEW ids, ConstraintsOK(c, ids, ids), NEW w, w = write_timing_constraints(c)
  PROVE  ListOf(w, Copies(InForce(c))) /\ Chain(w, ids)
<1>1. PICK clocks : /\ StartsWith(w, clocks, Copies(InForce(c))) /\ Len(clocks) = Len(c.names)
                    /\ \A i \in 1 .. Len(clocks) :
                         clocks[i] = Statement("CLOCK", NoNode, i - 1, NoDomain, c.names[i])
  BY ConstraintsWritten
<1>2. PICK names, domains, source, n :
        /\ names = c.names /\ domains = c.domains /\ source = c.source /\ n = Len(clocks)
        /\ ClocksOK(names, domains, source, ids)
  BY DEF ConstraintsOK
<1>3. /\ Len(w) \in Nat /\ DOMAIN w = 1 .. Len(w) /\ n \in Nat /\ n <= Len(w)
      /\ ListOf(w, Copies(InForce(c))) /\ ToSet(w) = Copies(InForce(c))
  BY <1>1, <1>2 DEF StartsWith, ListOf
<1>4. /\ \A i \in 1 .. n : w[i].kind = "CLOCK" /\ w[i].launch = i - 1 /\ w[i].value = names[i]
      /\ \A i \in 1 .. Len(w) : i > n => w[i].kind # "CLOCK"
  <2>1. \A i \in 1 .. n : w[i] = Statement("CLOCK", NoNode, i - 1, NoDomain, names[i])
    BY <1>1, <1>2 DEF StartsWith
  <2>2. \A i \in 1 .. n : w[i].kind = "CLOCK" /\ w[i].launch = i - 1 /\ w[i].value = names[i]
    <3>1. \A l, v : LET s == Statement("CLOCK", NoNode, l, NoDomain, v)
                   IN  s.kind = "CLOCK" /\ s.launch = l /\ s.value = v
      BY DEF Statement
    <3>. QED
      BY <2>1, <3>1
  <2>. QED
    BY <1>1, <1>2, <2>2 DEF StartsWith
<1>5. \A i, j \in 1 .. n : names[i] = names[j] => i = j
  <2>1. DOMAIN names = 1 .. n
    BY <1>1, <1>2, DomainIds
  <2>. QED
    BY <1>2, <2>1 DEF ClocksOK
<1>6. AllFormed(ToSet(w), ids) /\ OneEach(ToSet(w))
  <2>1. AllFormed(InForce(c), ids) /\ OneEach(InForce(c))
    BY InForceMembers DEF AllFormed
  <2>. QED
    BY <1>3, <2>1, CopiesFormed
<1>7. ASSUME NEW i \in DOMAIN w, w[i].kind = "CLOCK"
      PROVE  w[i].launch = i - 1 /\ \A j \in 1 .. i - 1 : w[j].kind = "CLOCK" /\ w[j].value # w[i].value
  <2>1. i \in 1 .. n
    BY <1>3, <1>4, <1>7
  <2>2. \A j \in 1 .. i - 1 : j \in 1 .. n /\ j # i
    BY <1>3, <2>1
  <2>. QED
    BY <1>4, <1>5, <2>1, <2>2
<1>8. ASSUME NEW i \in DOMAIN w, w[i].kind = "CLOCK_SOURCE"
      PROVE  \E j \in 1 .. i - 1 : w[j].kind = "CLOCK" /\ w[j].launch = w[i].launch
  <2>1. i > n
    BY <1>3, <1>4, <1>8
  <2>2. w[i] \in Section(c, "CLOCK_SOURCE")
    <3>1. PICK t \in InForce(c) : w[i] = Copied(t)
      BY <1>3 DEF ToSet, Copies
    <3>2. t.kind = "CLOCK_SOURCE"
      BY <1>8, <3>1, CopyFields
    <3>3. w[i] = t
      BY <3>1, <3>2 DEF Copied, TimedKinds, IoKinds, PairKinds
    <3>. QED
      BY <3>2, <3>3, InForceMembers
  <2>3. w[i].launch \in ToSet(c.domains)
    BY <2>2, SectionsOf DEF SectionsAre, SourceEntries, Statement
  <2>4. w[i].launch \in 0 .. n - 1
    <3>1. ToSet(domains) = 0 .. Len(names) - 1
      BY <1>2, DomainIds
    <3>. QED
      BY <1>1, <1>2, <2>3, <3>1
  <2>5. w[i].launch + 1 \in 1 .. n /\ (w[i].launch + 1) - 1 = w[i].launch
    BY <1>3, <2>4
  <2>6. w[i].launch + 1 \in 1 .. i - 1
    BY <1>3, <2>1, <2>5
  <2>. QED
    BY <1>4, <2>5, <2>6
<1>. QED
  BY <1>3, <1>6, <1>7, <1>8 DEF Chain

(***************************************************************************)
(* Writing and reading (write_timing_constraints and the loader's          *)
(* callbacks): sound constraints without removed nodes are sound           *)
(* afterwards, and say what they said before, but for the digits of a time *)
(* that are not printed.                                                   *)
(***************************************************************************)
THEOREM ConstraintsEchoed ==
  ASSUME NEW c, NEW ids, ConstraintsOK(c, ids, ids), NoNode \notin ids,
         NEW r, r = constraints_of(write_timing_constraints(c))
  PROVE  ConstraintsOK(r, ids, ids) /\ InForce(r) = {Copied(t) : t \in InForce(c)}
<1>1. PICK w, S : w = write_timing_constraints(c) /\ S = Copies(InForce(c))
  OBVIOUS
<1>2. ListOf(w, S) /\ Chain(w, ids)
  BY <1>1, WrittenIsChain
<1>3. w \in Seq(S) /\ ToSet(w) = S
  BY <1>2 DEF ListOf
<1>4. ReadBack(w, constraints_of(w), ids, ids)
  BY <1>2, <1>3, ChainRead
<1>. QED
  BY <1>1, <1>3, <1>4 DEF ReadBack, Copies

(***************************************************************************)
(* The client's view: statements by the names of their nodes.              *)
(***************************************************************************)
PartAt(handle, n) == IF n = NoNode THEN "none" ELSE NameIn(handle, n)

Naming(handle, ids, all) ==
  /\ HandlesOK(handle, NodeNames, ids) /\ ids \subseteq all /\ NoNode \notin all
  /\ {"none", "lost"} \cap NodeNames = {}

Formed(t, ids, all) ==
  WellFormed(t, all, NoNode) /\ (t.kind # "CLOCK_SOURCE" => WellFormed(t, ids, NoNode))

LEMMA NamesTell ==
  ASSUME NEW handle, NEW ids, NEW all, Naming(handle, ids, all)
  PROVE  /\ PartAt(handle, NoNode) = "none"
         /\ \A n \in ids : /\ PartAt(handle, n) \in NodeNames /\ PartAt(handle, n) = NameIn(handle, n)
                           /\ handle[PartAt(handle, n)] = n
         /\ \A n \in all \ ids : PartAt(handle, n) = "lost"
         /\ \A n, m \in ids \cup {NoNode} : PartAt(handle, n) = PartAt(handle, m) => n = m
         /\ \A n \in all : PartAt(handle, n) = "lost" <=> n \notin ids
         /\ \A x \in NodeNames : handle[x] # NoNode => handle[x] \in ids /\ PartAt(handle, handle[x]) = x
<1>1. OneNameEach(handle, NodeNames, ids) /\ NoNode \notin ids /\ DOMAIN handle = NodeNames
  BY NamesKnown DEF Naming, HandlesOK
<1>2. \A n \in ids : /\ PartAt(handle, n) \in NodeNames /\ PartAt(handle, n) = NameIn(handle, n)
                     /\ handle[PartAt(handle, n)] = n
  BY <1>1 DEF OneNameEach, PartAt
<1>3. ASSUME NEW n \in all \ ids PROVE PartAt(handle, n) = "lost"
  <2>1. \A x \in NodeNames : handle[x] # n
    BY DEF Naming, HandlesOK
  <2>2. n # NoNode
    BY DEF Naming
  <2>. QED
    BY <1>1, <2>1, <2>2 DEF PartAt, NameIn
<1>4. PartAt(handle, NoNode) = "none" /\ "none" \notin NodeNames /\ "lost" \notin NodeNames
  BY DEF PartAt, Naming
<1>5. \A n, m \in ids \cup {NoNode} : PartAt(handle, n) = PartAt(handle, m) => n = m
  BY <1>2, <1>4
<1>6. \A n \in all : PartAt(handle, n) = "lost" <=> n \notin ids
  BY <1>2, <1>3, <1>4
<1>7. \A x \in NodeNames : handle[x] # NoNode => handle[x] \in ids /\ PartAt(handle, handle[x]) = x
  <2>. SUFFICES ASSUME NEW x \in NodeNames, handle[x] # NoNode
                PROVE  handle[x] \in ids /\ PartAt(handle, handle[x]) = x
    OBVIOUS
  <2>1. handle[x] \in ids /\ NameIn(handle, handle[x]) = x
    BY <1>1 DEF OneNameEach
  <2>. QED
    BY <1>2, <2>1
<1>. QED
  BY <1>2, <1>3, <1>4, <1>5, <1>6, <1>7

LEMMA NamedStatement ==
  ASSUME NEW t, NEW about, NEW none, WellFormed(t, about, none), NEW handle, NEW u, u = InNames(t, handle)
  PROVE  /\ u = Statement(t.kind, PartAt(handle, t.node), t.launch, t.capture, t.value)
         /\ u.kind = t.kind /\ u.node = PartAt(handle, t.node)
         /\ u.launch = t.launch /\ u.capture = t.capture /\ u.value = t.value
<1>1. t = [kind |-> t.kind, node |-> t.node, launch |-> t.launch, capture |-> t.capture,
           value |-> t.value]
  BY DEF WellFormed, Statement
<1>2. u = [t EXCEPT !.node = PartAt(handle, t.node)]
  BY <1>1 DEF InNames, PartAt
<1>3. PICK n : n = PartAt(handle, t.node)
  OBVIOUS
<1>4. u = [kind |-> t.kind, node |-> n, launch |-> t.launch, capture |-> t.capture,
           value |-> t.value]
  BY <1>1, <1>2, <1>3
<1>. QED
  BY <1>3, <1>4 DEF Statement

\* The entry of a statement whose node has the name part.
EntryFor(t, part) ==
  IF t.kind = "CLOCK_SOURCE" THEN Entry(t.kind, "none", t.launch, NoDomain, part)
  ELSE Entry(t.kind, part, t.launch, t.capture, t.value)

Hidden(t, part) == t.kind = "CLOCK_SOURCE" /\ part = "lost"

LEMMA NamedEntry ==
  ASSUME NEW t, NEW about, NEW none, WellFormed(t, about, none), NEW handle
  PROVE  /\ EntryOf(InNames(t, handle)) = EntryFor(t, PartAt(handle, t.node))
         /\ Readable(InNames(t, handle)) <=> ~Hidden(t, PartAt(handle, t.node))
<1>1. PICK u : u = InNames(t, handle)
  OBVIOUS
<1>2. /\ u.kind = t.kind /\ u.node = PartAt(handle, t.node)
      /\ u.launch = t.launch /\ u.capture = t.capture /\ u.value = t.value
  BY <1>1, NamedStatement
<1>. QED
  BY <1>1, <1>2 DEF EntryOf, EntryFor, Readable, Hidden

\* The book of the statements T.
BookFrom(T, handle) ==
  {EntryFor(t, PartAt(handle, t.node)) : t \in {u \in T : ~Hidden(u, PartAt(handle, u.node))}}

LEMMA BookIs ==
  ASSUME NEW c, NEW ids, NEW all, \A t \in InForce(c) : Formed(t, ids, all), NEW handle
  PROVE  BookOf(c, handle) = BookFrom(InForce(c), handle)
<1>1. \A t \in InForce(c) :
        /\ EntryOf(InNames(t, handle)) = EntryFor(t, PartAt(handle, t.node))
        /\ Readable(InNames(t, handle)) <=> ~Hidden(t, PartAt(handle, t.node))
  <2>. SUFFICES ASSUME NEW t \in InForce(c)
                PROVE  /\ EntryOf(InNames(t, handle)) = EntryFor(t, PartAt(handle, t.node))
                       /\ Readable(InNames(t, handle)) <=> ~Hidden(t, PartAt(handle, t.node))
    OBVIOUS
  <2>1. WellFormed(t, all, NoNode)
    BY DEF Formed
  <2>. QED
    BY <2>1, NamedEntry
<1>2. BookOf(c, handle) = {EntryOf(s) : s \in {x \in {InNames(t, handle) : t \in InForce(c)} : Readable(x)}}
  BY DEF BookOf
<1>3. ASSUME NEW e \in BookOf(c, handle) PROVE e \in BookFrom(InForce(c), handle)
  <2>1. PICK t \in InForce(c) : Readable(InNames(t, handle)) /\ e = EntryOf(InNames(t, handle))
    BY <1>2
  <2>. QED
    BY <1>1, <2>1 DEF BookFrom
<1>4. ASSUME NEW e \in BookFrom(InForce(c), handle) PROVE e \in BookOf(c, handle)
  <2>1. PICK t \in InForce(c) : /\ ~Hidden(t, PartAt(handle, t.node))
                                /\ e = EntryFor(t, PartAt(handle, t.node))
    BY DEF BookFrom
  <2>2. Readable(InNames(t, handle)) /\ e = EntryOf(InNames(t, handle))
    BY <1>1, <2>1
  <2>. QED
    BY <1>2, <2>2
<1>. QED
  BY <1>3, <1>4

LEMMA SubjectsTell ==
  ASSUME NEW handle, NEW ids, NEW all, Naming(handle, ids, all),
         NEW t, Formed(t, ids, all), NEW u, Formed(u, ids, all),
         NEW p, p = PartAt(handle, t.node), NEW q, q = PartAt(handle, u.node)
  PROVE  Book!SubjectOf(EntryFor(t, p)) = Book!SubjectOf(EntryFor(u, q)) <=> SameSubject(t, u)
<1>1. /\ Book!SubjectOf(EntryFor(t, p)) =
           IF t.kind = "CLOCK_SOURCE" THEN <<t.kind, "none", t.launch, NoDomain>>
           ELSE <<t.kind, p, t.launch, t.capture>>
      /\ Book!SubjectOf(EntryFor(u, q)) =
           IF u.kind = "CLOCK_SOURCE" THEN <<u.kind, "none", u.launch, NoDomain>>
           ELSE <<u.kind, q, u.launch, u.capture>>
  BY DEF Book!SubjectOf, EntryFor, Entry
<1>2. CASE t.kind = "CLOCK_SOURCE" /\ u.kind = "CLOCK_SOURCE"
  <2>1. t.capture = NoDomain /\ u.capture = NoDomain
    BY <1>2 DEF Formed, WellFormed, PairKinds
  <2>. QED
    BY <1>1, <1>2, <2>1 DEF SameSubject
<1>3. CASE t.kind # "CLOCK_SOURCE" /\ u.kind # "CLOCK_SOURCE"
  <2>1. t.node \in ids \cup {NoNode} /\ u.node \in ids \cup {NoNode}
    BY <1>3 DEF Formed, WellFormed
  <2>2. p = q <=> t.node = u.node
    BY <2>1, NamesTell
  <2>. QED
    BY <1>1, <1>3, <2>2 DEF SameSubject
<1>4. CASE (t.kind = "CLOCK_SOURCE" /\ u.kind # "CLOCK_SOURCE")
           \/ (t.kind # "CLOCK_SOURCE" /\ u.kind = "CLOCK_SOURCE")
  BY <1>1, <1>4 DEF SameSubject
<1>. QED
  BY <1>2, <1>3, <1>4

(***************************************************************************)
(* Steps of the book: a statement replaces those of its subject, a mark is *)
(* taken back, a part is forgotten, the nodes are renumbered.              *)
(***************************************************************************)
LEMMA BookStruck ==
  ASSUME NEW handle, NEW ids, NEW all, Naming(handle, ids, all),
         NEW T, \A t \in T : Formed(t, ids, all), NEW u, Formed(u, ids, all),
         NEW R, R = {t \in T : ~SameSubject(t, u)},
         NEW e, e = EntryFor(u, PartAt(handle, u.node))
  PROVE  BookFrom(R, handle) =
           {x \in BookFrom(T, handle) : Book!SubjectOf(x) # Book!SubjectOf(e)}
<1>1. \A t \in T : Book!SubjectOf(EntryFor(t, PartAt(handle, t.node))) = Book!SubjectOf(e)
                     <=> SameSubject(t, u)
  <2>. SUFFICES ASSUME NEW t \in T
                PROVE  Book!SubjectOf(EntryFor(t, PartAt(handle, t.node))) = Book!SubjectOf(e)
                         <=> SameSubject(t, u)
    OBVIOUS
  <2>1. PICK p, q : p = PartAt(handle, t.node) /\ q = PartAt(handle, u.node)
    OBVIOUS
  <2>2. Book!SubjectOf(EntryFor(t, p)) = Book!SubjectOf(EntryFor(u, q)) <=> SameSubject(t, u)
    BY <2>1, SubjectsTell
  <2>. QED
    BY <2>1, <2>2
<1>2. ASSUME NEW x \in BookFrom(R, handle)
      PROVE  x \in BookFrom(T, handle) /\ Book!SubjectOf(x) # Book!SubjectOf(e)
  <2>1. PICK t \in R : ~Hidden(t, PartAt(handle, t.node)) /\ x = EntryFor(t, PartAt(handle, t.node))
    BY DEF BookFrom
  <2>2. t \in T /\ ~SameSubject(t, u)
    OBVIOUS
  <2>. QED
    BY <1>1, <2>1, <2>2 DEF BookFrom
<1>3. ASSUME NEW x \in BookFrom(T, handle), Book!SubjectOf(x) # Book!SubjectOf(e)
      PROVE  x \in BookFrom(R, handle)
  <2>1. PICK t \in T : ~Hidden(t, PartAt(handle, t.node)) /\ x = EntryFor(t, PartAt(handle, t.node))
    BY DEF BookFrom
  <2>2. t \in R
    BY <1>1, <1>3, <2>1
  <2>. QED
    BY <2>1, <2>2 DEF BookFrom
<1>. QED
  BY <1>2, <1>3

LEMMA BookEntered ==
  ASSUME NEW handle, NEW ids, NEW all, Naming(handle, ids, all),
         NEW T, \A t \in T : Formed(t, ids, all), NEW u, Formed(u, ids, all),
         NEW R, R = Replaced(T, u),
         NEW e, e = EntryFor(u, PartAt(handle, u.node)), ~Hidden(u, PartAt(handle, u.node))
  PROVE  BookFrom(R, handle) =
           {x \in BookFrom(T, handle) : Book!SubjectOf(x) # Book!SubjectOf(e)} \cup {e}
<1>1. PICK K : K = {t \in T : ~SameSubject(t, u)}
  OBVIOUS
<1>2. BookFrom(K, handle) = {x \in BookFrom(T, handle) : Book!SubjectOf(x) # Book!SubjectOf(e)}
  BY <1>1, BookStruck
<1>3. R = K \cup {u}
  BY <1>1 DEF Replaced
<1>4. BookFrom(K \cup {u}, handle) = BookFrom(K, handle) \cup {e}
  BY DEF BookFrom
<1>. QED
  BY <1>2, <1>3, <1>4

\* The book of T without the sources at x.
Loses(T, handle, after, x) ==
  BookFrom(T, after) = {e \in BookFrom(T, handle) : ~Book!SourcedAt(e, x)}

LEMMA BookForgets ==
  ASSUME NEW handle, NEW ids, NEW all, Naming(handle, ids, all),
         NEW x \in NodeNames, NEW id \in ids, handle[x] = id,
         NEW after, after = [handle EXCEPT ![x] = NoNode], Naming(after, ids \ {id}, all),
         NEW T, \A t \in T : Formed(t, ids, all),
         \A t \in T : t.kind # "CLOCK_SOURCE" => t.node # id
  PROVE  Loses(T, handle, after, x)
<1>1. PartAt(handle, id) = x /\ PartAt(after, id) = "lost" /\ x # "lost" /\ id # NoNode /\ id \in all
  <2>1. PartAt(handle, id) = x
    BY NamesTell DEF Naming
  <2>2. PartAt(after, id) = "lost"
    <3>1. id \in all \ (ids \ {id})
      BY DEF Naming
    <3>. QED
      BY <3>1, NamesTell
  <2>. QED
    BY <2>1, <2>2 DEF Naming
<1>2. ASSUME NEW n \in all \cup {NoNode}, n # id PROVE PartAt(after, n) = PartAt(handle, n)
  <2>1. CASE n \in ids
    <3>1. PartAt(handle, n) \in NodeNames /\ handle[PartAt(handle, n)] = n /\ n # NoNode
      BY <2>1, NamesTell DEF Naming
    <3>2. after[PartAt(handle, n)] = n
      BY <1>2, <3>1 DEF Naming, HandlesOK
    <3>3. PartAt(after, after[PartAt(handle, n)]) = PartAt(handle, n)
      <4>1. \A y \in NodeNames : after[y] # NoNode => PartAt(after, after[y]) = y
        BY ZenonT(40), NamesTell
      <4>. QED
        BY <3>1, <3>2, <4>1
    <3>. QED
      BY <3>2, <3>3
  <2>2. CASE n = NoNode
    BY <2>2 DEF PartAt
  <2>3. CASE n \in all \ ids
    <3>1. n \in all \ (ids \ {id})
      BY <2>3
    <3>2. PartAt(after, n) = "lost"
      BY <3>1, NamesTell
    <3>3. PartAt(handle, n) = "lost"
      BY <2>3, NamesTell
    <3>. QED
      BY <3>2, <3>3
  <2>. QED
    BY <2>1, <2>2, <2>3
<1>3. \A t \in T : t.node \in all \cup {NoNode}
  BY DEF Formed, WellFormed
<1>4. ASSUME NEW t \in T, t.node # id, ~Hidden(t, PartAt(handle, t.node))
      PROVE  ~Book!SourcedAt(EntryFor(t, PartAt(handle, t.node)), x)
  <2>1. CASE t.kind = "CLOCK_SOURCE"
    <3>1. t.node \in ids \cup {NoNode}
      <4>1. t.node \in all \ ids => PartAt(handle, t.node) = "lost"
        BY NamesTell
      <4>. QED
        BY <1>3, <1>4, <2>1, <4>1 DEF Hidden
    <3>2. PartAt(handle, t.node) # x
      <4>1. PartAt(handle, t.node) = PartAt(handle, id) => t.node = id
        BY <3>1, NamesTell
      <4>. QED
        BY <1>1, <1>4, <4>1
    <3>. QED
      BY <2>1, <3>2 DEF Book!SourcedAt, EntryFor, Entry
  <2>2. CASE t.kind # "CLOCK_SOURCE"
    BY <2>2 DEF Book!SourcedAt, Book!SubjectOf, EntryFor, Entry
  <2>. QED
    BY <2>1, <2>2
<1>5. ASSUME NEW t \in T, t.node = id
      PROVE  /\ Hidden(t, PartAt(after, t.node))
             /\ Book!SourcedAt(EntryFor(t, PartAt(handle, t.node)), x)
  <2>1. t.kind = "CLOCK_SOURCE"
    BY <1>5
  <2>. QED
    BY <1>1, <1>5, <2>1 DEF Hidden, Book!SourcedAt, Book!SubjectOf, EntryFor, Entry
<1>6. ASSUME NEW e \in BookFrom(T, after) PROVE e \in BookFrom(T, handle) /\ ~Book!SourcedAt(e, x)
  <2>1. PICK t \in T : ~Hidden(t, PartAt(after, t.node)) /\ e = EntryFor(t, PartAt(after, t.node))
    BY <1>6 DEF BookFrom
  <2>2. t.node # id
    BY <1>5, <2>1
  <2>3. PartAt(after, t.node) = PartAt(handle, t.node)
    BY <1>2, <1>3, <2>2
  <2>. QED
    BY <1>4, <2>1, <2>2, <2>3 DEF BookFrom
<1>7. ASSUME NEW e \in BookFrom(T, handle), ~Book!SourcedAt(e, x) PROVE e \in BookFrom(T, after)
  <2>1. PICK t \in T : ~Hidden(t, PartAt(handle, t.node)) /\ e = EntryFor(t, PartAt(handle, t.node))
    BY <1>7 DEF BookFrom
  <2>2. t.node # id
    BY <1>5, <1>7, <2>1
  <2>3. PartAt(after, t.node) = PartAt(handle, t.node)
    BY <1>2, <1>3, <2>2
  <2>. QED
    BY <2>1, <2>3 DEF BookFrom
<1>. QED
  BY <1>6, <1>7 DEF Loses

(***************************************************************************)
(* Renumbering the nodes of all: those of ids are left.                    *)
(***************************************************************************)
Renames(map, ids, all, left) ==
  /\ NoNode \notin all /\ ids \subseteq all
  /\ \A n \in all : map[n] # NoNode <=> n \in ids
  /\ \A n, m \in ids : map[n] = map[m] => n = m
  /\ left = {map[n] : n \in ids}

MovedOf(t, map) ==
  Statement(t.kind, Constraints!Moved(t.node, map), t.launch, t.capture, t.value)

Unsourced(t, ids) == t.kind = "CLOCK_SOURCE" /\ t.node \notin ids

Moves(S, R, ids, map) == R = {MovedOf(t, map) : t \in {u \in S : ~Unsourced(u, ids)}}

\* Statements about no node stay as they are.
LEMMA NodelessMoves ==
  ASSUME NEW S, \A t \in S : t = Statement(t.kind, NoNode, t.launch, t.capture, t.value)
                             /\ t.node = NoNode /\ t.kind # "CLOCK_SOURCE",
         NEW ids, NEW map
  PROVE  Moves(S, S, ids, map)
<1>1. \A t \in S : ~Unsourced(t, ids)
  BY DEF Unsourced
<1>2. \A t \in S : MovedOf(t, map) = t
  BY DEF MovedOf, Constraints!Moved, Constraints!NoNode, NoNode
<1>. QED
  BY <1>1, <1>2 DEF Moves

LEMMA GeneratorsMove ==
  ASSUME NEW ids, NEW all, NEW map, NEW left, Renames(map, ids, all, left),
         NEW gens, GeneratorsOK(gens, ids), NEW new, new = {map[n] : n \in gens}
  PROVE  GeneratorsOK(new, left) /\ Moves(GeneratorEntries(gens), GeneratorEntries(new), ids, map)
<1>1. \A n \in gens : n \in ids /\ n # NoNode /\ map[n] \in left
  BY DEF GeneratorsOK, Renames
<1>2. IsFiniteSet(new)
  <2>. DEFINE f == [n \in gens |-> map[n]]
  <2>1. f \in Surjection(gens, new)
    BY DEF Surjection
  <2>2. IsFiniteSet(gens)
    BY DEF GeneratorsOK
  <2>. QED
    BY <2>1, <2>2, FS_Surjection
<1>. DEFINE old(n) == Statement("CONSTANT_GENERATOR", n, NoDomain, NoDomain, NaN)
<1>3. \A n \in gens : /\ MovedOf(old(n), map) = old(map[n]) /\ ~Unsourced(old(n), ids)
  BY <1>1 DEF MovedOf, Statement, Unsourced, Constraints!Moved, Constraints!NoNode, NoNode
<1>4. GeneratorEntries(gens) = {old(n) : n \in gens} /\ GeneratorEntries(new) = {old(n) : n \in new}
  BY DEF GeneratorEntries
<1>. HIDE DEF old
<1>5. {old(n) : n \in new} = {MovedOf(t, map) : t \in {u \in {old(n) : n \in gens} : ~Unsourced(u, ids)}}
  BY <1>3
<1>. QED
  BY <1>1, <1>2, <1>4, <1>5 DEF GeneratorsOK, Moves

LEMMA SourcesMove ==
  ASSUME NEW ids, NEW all, NEW map, NEW left, Renames(map, ids, all, left),
         NEW names, NEW domains, NEW source, ClocksOK(names, domains, source, all),
         NEW new, new = [d \in DOMAIN source |-> Constraints!Moved(source[d], map)]
  PROVE  /\ ClocksOK(names, domains, new, left)
         /\ Moves(SourceEntries(domains, source), SourceEntries(domains, new), ids, map)
<1>1. /\ ToSet(domains) = 0 .. Len(names) - 1
      /\ \A d \in ToSet(domains) : d \in DOMAIN source /\ source[d] \in all \cup {NoNode}
  BY DomainIds DEF ClocksOK
<1>2. \A d \in ToSet(domains) : new[d] = IF source[d] = NoNode THEN NoNode ELSE map[source[d]]
  BY <1>1 DEF Constraints!Moved, Constraints!NoNode, NoNode
<1>3. \A d \in ToSet(domains) : /\ new[d] # NoNode <=> source[d] \in ids
                                /\ source[d] \in ids => new[d] = map[source[d]] /\ new[d] \in left
  BY SMTT(30), <1>1, <1>2 DEF Renames
<1>4. ClocksOK(names, domains, new, left)
  <2>1. \A d \in 0 .. Len(names) - 1 : d \in DOMAIN new /\ new[d] \in left \cup {NoNode}
    BY <1>1, <1>3
  <2>2. DOMAIN new = DOMAIN source
    OBVIOUS
  <2>. QED
    BY <2>1, <2>2 DEF ClocksOK
<1>. DEFINE old(d) == Statement("CLOCK_SOURCE", source[d], d, NoDomain, NaN)
            now(d) == Statement("CLOCK_SOURCE", new[d], d, NoDomain, NaN)
            D      == {x \in ToSet(domains) : source[x] # NoNode}
            N      == {x \in ToSet(domains) : new[x] # NoNode}
<1>5. \A d \in D : (d \in N <=> ~Unsourced(old(d), ids)) /\ (d \in N => MovedOf(old(d), map) = now(d))
  <2>1. \A d \in D : old(d).node = source[d] /\ old(d).kind = "CLOCK_SOURCE" /\ old(d).launch = d
                     /\ old(d).capture = NoDomain /\ old(d).value = NaN
    BY DEF Statement
  <2>2. \A d \in D : Constraints!Moved(source[d], map) = map[source[d]]
    BY DEF Constraints!Moved, Constraints!NoNode, NoNode
  <2>. HIDE DEF old
  <2>3. \A d \in D : d \in N <=> ~Unsourced(old(d), ids)
    BY <1>3, <2>1 DEF Unsourced
  <2>4. \A d \in D : d \in N => MovedOf(old(d), map) = now(d)
    BY <1>3, <2>1, <2>2 DEF MovedOf
  <2>. QED
    BY <2>3, <2>4
<1>6. N \subseteq D
  BY <1>3 DEF Renames
<1>7. SourceEntries(domains, source) = {old(d) : d \in D} /\ SourceEntries(domains, new) = {now(d) : d \in N}
  BY DEF SourceEntries
<1>. HIDE DEF old, now, D, N
<1>8. {now(d) : d \in N} = {MovedOf(t, map) : t \in {u \in {old(d) : d \in D} : ~Unsourced(u, ids)}}
  BY <1>5, <1>6
<1>. QED
  BY <1>4, <1>7, <1>8 DEF Moves

LEMMA ListsItself ==
  ASSUME NEW q, NEW n \in Nat, q = [i \in 1 .. n |-> q[i]]
  PROVE  IsList(q)
<1>1. \A i \in 1 .. n : q[i] \in ToSet(q)
  BY DEF ToSet
<1>. QED
  BY <1>1 DEF IsList

LEMMA IoMoves ==
  ASSUME NEW ids, NEW all, NEW map, NEW left, Renames(map, ids, all, left),
         NEW entries, IoOK(entries, ids), NEW new, new = Constraints!MovedEntries(entries, map),
         NEW kind, kind # "CLOCK_SOURCE"
  PROVE  IoOK(new, left) /\ Moves(IoEntries(kind, entries), IoEntries(kind, new), ids, map)
<1>1. /\ IsList(entries) /\ DOMAIN entries = 1 .. Len(entries) /\ Len(entries) \in Nat
      /\ \A i \in DOMAIN entries :
           /\ entries[i] = [node |-> entries[i].node, domain |-> entries[i].domain,
                            time |-> entries[i].time]
           /\ entries[i].node \in ids /\ IsTime(entries[i].time)
  BY DEF IoOK, IsList
<1>2. /\ DOMAIN new = DOMAIN entries
      /\ \A i \in DOMAIN entries : new[i] = [entries[i] EXCEPT !.node = map[entries[i].node]]
  BY DEF Constraints!MovedEntries
<1>3. \A i \in DOMAIN entries :
        /\ new[i].node = map[entries[i].node] /\ new[i].domain = entries[i].domain
        /\ new[i].time = entries[i].time
        /\ new[i] = [node |-> new[i].node, domain |-> new[i].domain, time |-> new[i].time]
  <2>. SUFFICES ASSUME NEW i \in DOMAIN entries
                PROVE  /\ new[i].node = map[entries[i].node] /\ new[i].domain = entries[i].domain
                       /\ new[i].time = entries[i].time
                       /\ new[i] = [node |-> new[i].node, domain |-> new[i].domain,
                                    time |-> new[i].time]
    OBVIOUS
  <2>1. PICK x, n, d, v : x = entries[i] /\ n = x.node /\ d = x.domain /\ v = x.time
    OBVIOUS
  <2>2. x = [node |-> n, domain |-> d, time |-> v] /\ new[i] = [x EXCEPT !.node = map[n]]
    BY <1>1, <1>2, <2>1
  <2>3. new[i] = [node |-> map[n], domain |-> d, time |-> v]
    BY <2>2
  <2>. QED
    BY <2>1, <2>3
<1>4. IsList(new)
  <2>1. new = [i \in 1 .. Len(entries) |-> new[i]]
    BY <1>1, <1>2 DEF Constraints!MovedEntries
  <2>. QED
    BY <1>1, <2>1, ListsItself
<1>5. \A i \in DOMAIN entries : map[entries[i].node] \in left
  BY <1>1 DEF Renames
<1>6. \A i, j \in DOMAIN new : new[i].node = new[j].node /\ new[i].domain = new[j].domain => i = j
  <2>1. \A i, j \in DOMAIN entries : map[entries[i].node] = map[entries[j].node]
                                       => entries[i].node = entries[j].node
    BY <1>1 DEF Renames
  <2>. QED
    BY <1>2, <1>3, <2>1 DEF IoOK
<1>7. IoOK(new, left)
  BY <1>1, <1>2, <1>3, <1>4, <1>5, <1>6 DEF IoOK
<1>. DEFINE I      == DOMAIN entries
            old(i) == Statement(kind, entries[i].node, entries[i].domain, NoDomain, entries[i].time)
            now(i) == Statement(kind, new[i].node, new[i].domain, NoDomain, new[i].time)
<1>8. \A i \in I : ~Unsourced(old(i), ids) /\ MovedOf(old(i), map) = now(i)
  <2>1. \A i \in I : Constraints!Moved(entries[i].node, map) = map[entries[i].node]
    BY <1>1 DEF Renames, Constraints!Moved, Constraints!NoNode, NoNode
  <2>2. \A i \in I : /\ old(i).kind = kind /\ old(i).node = entries[i].node
                     /\ old(i).launch = entries[i].domain /\ old(i).capture = NoDomain
                     /\ old(i).value = entries[i].time
    BY DEF Statement
  <2>. HIDE DEF old
  <2>3. \A i \in I : ~Unsourced(old(i), ids)
    BY <2>2 DEF Unsourced
  <2>4. \A i \in I : MovedOf(old(i), map) = now(i)
    BY ZenonT(40), <1>3, <2>1, <2>2 DEF MovedOf
  <2>. QED
    BY <2>3, <2>4
<1>9. IoEntries(kind, entries) = {old(i) : i \in I} /\ IoEntries(kind, new) = {now(i) : i \in I}
  BY <1>2 DEF IoEntries, ToSet
<1>. HIDE DEF old, now, I
<1>10. {now(i) : i \in I} = {MovedOf(t, map) : t \in {u \in {old(i) : i \in I} : ~Unsourced(u, ids)}}
  BY <1>8
<1>. QED
  BY <1>7, <1>9, <1>10 DEF Moves

LEMMA NodelessSections ==
  ASSUME NEW c, NEW ids, NEW all, ConstraintsOK(c, ids, all), NEW map,
         NEW kind \in Kinds, kind \notin IoKinds \cup {"CLOCK_SOURCE", "CONSTANT_GENERATOR"}
  PROVE  Moves(Section(c, kind), Section(c, kind), ids, map)
<1>1. ASSUME NEW t \in Section(c, kind)
      PROVE  /\ t = Statement(t.kind, NoNode, t.launch, t.capture, t.value)
             /\ t.node = NoNode /\ t.kind # "CLOCK_SOURCE"
  <2>1. WellFormed(t, ids, NoNode) /\ t.kind = kind
    <3>1. AllFormed(Section(c, kind), ids)
      BY SectionMembers
    <3>. QED
      BY <3>1, SectionKinds DEF AllFormed
  <2>2. t.node = NoNode /\ t = Statement(t.kind, t.node, t.launch, t.capture, t.value)
    BY <2>1 DEF WellFormed
  <2>. QED
    BY <2>1, <2>2
<1>. QED
  BY <1>1, NodelessMoves

LEMMA ConstraintsRemapped ==
  ASSUME NEW ids, NEW all, NEW map, NEW left, Renames(map, ids, all, left),
         NEW c, ConstraintsOK(c, ids, all), NEW r, r = Constraints!remap_nodes(c, map)
  PROVE  ConstraintsOK(r, left, left) /\ Moves(InForce(c), InForce(r), ids, map)
<1>1. PICK source, gens, in, out :
        /\ source = [d \in DOMAIN c.source |-> Constraints!Moved(c.source[d], map)]
        /\ gens = {map[n] : n \in c.const_gens}
        /\ in = [dt \in {"MAX", "MIN"} |-> Constraints!MovedEntries(c.input[dt], map)]
        /\ out = [dt \in {"MAX", "MIN"} |-> Constraints!MovedEntries(c.output[dt], map)]
  OBVIOUS
<1>2. r = [c EXCEPT !.source = source, !.const_gens = gens, !.input = in, !.output = out]
  BY <1>1 DEF Constraints!remap_nodes, Constraints!DelayTypes
<1>3. HasFields(c)
  BY DEF ConstraintsOK
<1>4. /\ r.names = c.names /\ r.domains = c.domains /\ r.source = source /\ r.const_gens = gens
      /\ r.input = in /\ r.output = out /\ r.setup = c.setup /\ r.hold = c.hold
      /\ r.setup_uncertainty = c.setup_uncertainty /\ r.hold_uncertainty = c.hold_uncertainty
      /\ r.latency = c.latency /\ HasFields(r)
  <2>1. PICK a1, a2, a3, a4, a5, a6, a7, a8, a9, a10, a11 :
          /\ a1 = c.names /\ a2 = c.domains /\ a3 = c.source /\ a4 = c.const_gens
          /\ a5 = [dt \in {"MAX", "MIN"} |-> c.input[dt]]
          /\ a6 = [dt \in {"MAX", "MIN"} |-> c.output[dt]]
          /\ a7 = c.setup /\ a8 = c.hold /\ a9 = c.setup_uncertainty /\ a10 = c.hold_uncertainty
          /\ a11 = [a \in {"EARLY", "LATE"} |-> c.latency[a]]
    OBVIOUS
  <2>2. c = [names |-> a1, domains |-> a2, source |-> a3, const_gens |-> a4, input |-> a5,
             output |-> a6, setup |-> a7, hold |-> a8, setup_uncertainty |-> a9,
             hold_uncertainty |-> a10, latency |-> a11]
    BY <1>3, <2>1 DEF HasFields
  <2>3. r = [names |-> a1, domains |-> a2, source |-> source, const_gens |-> gens, input |-> in,
             output |-> out, setup |-> a7, hold |-> a8, setup_uncertainty |-> a9,
             hold_uncertainty |-> a10, latency |-> a11]
    BY ZenonT(40), <1>2, <2>2
  <2>4. /\ r.names = c.names /\ r.domains = c.domains /\ r.source = source /\ r.const_gens = gens
        /\ r.input = in /\ r.output = out /\ r.setup = c.setup /\ r.hold = c.hold
        /\ r.setup_uncertainty = c.setup_uncertainty /\ r.hold_uncertainty = c.hold_uncertainty
        /\ r.latency = c.latency
    BY <2>2, <2>3
  <2>5. /\ in = [dt \in {"MAX", "MIN"} |-> in[dt]] /\ out = [dt \in {"MAX", "MIN"} |-> out[dt]]
    BY <1>1
  <2>6. HasFields(r)
    BY <2>1, <2>3, <2>4, <2>5 DEF HasFields
  <2>. QED
    BY <2>4, <2>6
<1>5. PICK n1, d1, s1 : /\ n1 = c.names /\ d1 = c.domains /\ s1 = c.source
                        /\ ClocksOK(n1, d1, s1, all)
  BY DEF ConstraintsOK
<1>6. ClocksOK(n1, d1, source, left) /\ Moves(SourceEntries(d1, s1), SourceEntries(d1, source), ids, map)
  BY <1>1, <1>5, SourcesMove
<1>7. GeneratorsOK(gens, left) /\ Moves(GeneratorEntries(c.const_gens), GeneratorEntries(gens), ids, map)
  <2>1. GeneratorsOK(c.const_gens, ids)
    BY DEF ConstraintsOK
  <2>. QED
    BY <1>1, <2>1, GeneratorsMove
<1>8. ASSUME NEW old, NEW new, IoOK(old, ids), new = Constraints!MovedEntries(old, map),
             NEW kind \in IoKinds
      PROVE  IoOK(new, left) /\ Moves(IoEntries(kind, old), IoEntries(kind, new), ids, map)
  BY <1>8, IoMoves DEF IoKinds
<1>9. /\ IoOK(c.input["MAX"], ids) /\ in["MAX"] = Constraints!MovedEntries(c.input["MAX"], map)
      /\ IoOK(c.input["MIN"], ids) /\ in["MIN"] = Constraints!MovedEntries(c.input["MIN"], map)
      /\ IoOK(c.output["MAX"], ids) /\ out["MAX"] = Constraints!MovedEntries(c.output["MAX"], map)
      /\ IoOK(c.output["MIN"], ids) /\ out["MIN"] = Constraints!MovedEntries(c.output["MIN"], map)
  BY <1>1 DEF ConstraintsOK
<1>10. ConstraintsOK(r, left, left)
  <2>1. /\ IoOK(in["MAX"], left) /\ IoOK(in["MIN"], left)
        /\ IoOK(out["MAX"], left) /\ IoOK(out["MIN"], left)
    BY <1>8, <1>9 DEF IoKinds
  <2>2. /\ ClockMapOK(c.setup) /\ ClockMapOK(c.hold)
        /\ PairMapOK(c.setup_uncertainty) /\ PairMapOK(c.hold_uncertainty)
        /\ SingleMapOK(c.latency["EARLY"]) /\ SingleMapOK(c.latency["LATE"])
    BY DEF ConstraintsOK
  <2>. QED
    BY <1>4, <1>5, <1>6, <1>7, <2>1, <2>2 DEF ConstraintsOK
<1>11. ASSUME NEW kind \in Kinds PROVE Moves(Section(c, kind), Section(r, kind), ids, map)
  <2>1. SectionsAre(c) /\ SectionsAre(r)
    BY SectionsOf
  <2>2. CASE kind = "CLOCK_SOURCE"
    BY <1>4, <1>5, <1>6, <2>1, <2>2 DEF SectionsAre
  <2>3. CASE kind = "CONSTANT_GENERATOR"
    BY <1>4, <1>7, <2>1, <2>3 DEF SectionsAre
  <2>4. CASE kind \in IoKinds
    <3>1. PICK old, new : /\ Section(c, kind) = IoEntries(kind, old) /\ IoOK(old, ids)
                          /\ Section(r, kind) = IoEntries(kind, new)
                          /\ new = Constraints!MovedEntries(old, map)
      BY <1>4, <1>9, <2>1, <2>4 DEF SectionsAre, IoKinds
    <3>2. Moves(IoEntries(kind, old), IoEntries(kind, new), ids, map)
      BY <1>8, <2>4, <3>1
    <3>. QED
      BY <3>1, <3>2
  <2>5. CASE kind \notin IoKinds \cup {"CLOCK_SOURCE", "CONSTANT_GENERATOR"}
    <3>1. Section(r, kind) = Section(c, kind)
      BY <1>4, <2>1, <2>5 DEF SectionsAre, Kinds, IoKinds
    <3>2. Moves(Section(c, kind), Section(c, kind), ids, map)
      BY <2>5, NodelessSections
    <3>. QED
      BY <3>1, <3>2
  <2>. QED
    BY <2>2, <2>3, <2>4, <2>5
<1>12. Moves(InForce(c), InForce(r), ids, map)
  <2>1. \A k \in Kinds : Section(r, k) = {MovedOf(t, map) : t \in {u \in Section(c, k) : ~Unsourced(u, ids)}}
    BY <1>11 DEF Moves
  <2>2. InForce(r) = {MovedOf(t, map) : t \in {u \in InForce(c) : ~Unsourced(u, ids)}}
    BY <2>1 DEF InForce
  <2>. QED
    BY <2>2 DEF Moves
<1>. QED
  BY <1>10, <1>12

\* Names follow the ids.
LEMMA BookFollows ==
  ASSUME NEW ids, NEW all, NEW map, NEW left, Renames(map, ids, all, left),
         NEW handle, Naming(handle, ids, all), NEW after, Naming(after, left, left),
         \A n \in ids : after[NameIn(handle, n)] = map[n],
         NEW T, \A t \in T : Formed(t, ids, all), NEW R, Moves(T, R, ids, map)
  PROVE  BookFrom(R, after) = BookFrom(T, handle)
<1>1. ASSUME NEW n \in ids PROVE PartAt(after, map[n]) = PartAt(handle, n)
  <2>1. PartAt(handle, n) \in NodeNames /\ PartAt(handle, n) = NameIn(handle, n)
    BY NamesTell
  <2>2. after[PartAt(handle, n)] = map[n] /\ map[n] # NoNode
    BY <2>1 DEF Renames
  <2>3. \A x \in NodeNames : after[x] # NoNode => PartAt(after, after[x]) = x
    BY NamesTell
  <2>. QED
    BY <2>1, <2>2, <2>3
<1>2. \A t \in T : t.node \in all \cup {NoNode} /\ (t.kind # "CLOCK_SOURCE" => t.node \in ids \cup {NoNode})
  BY DEF Formed, WellFormed
<1>3. ASSUME NEW t \in T PROVE Hidden(t, PartAt(handle, t.node)) <=> Unsourced(t, ids)
  <2>1. CASE t.kind # "CLOCK_SOURCE"
    BY <2>1 DEF Hidden, Unsourced
  <2>2. CASE t.kind = "CLOCK_SOURCE"
    <3>1. t.node \in all
      BY <2>2 DEF Formed, WellFormed
    <3>2. PartAt(handle, t.node) = "lost" <=> t.node \notin ids
      BY <3>1, NamesTell
    <3>. QED
      BY <2>2, <3>2 DEF Hidden, Unsourced
  <2>. QED
    BY <2>1, <2>2
<1>4. ASSUME NEW t \in T, ~Unsourced(t, ids), NEW u, u = MovedOf(t, map)
      PROVE  /\ EntryFor(u, PartAt(after, u.node)) = EntryFor(t, PartAt(handle, t.node))
             /\ ~Hidden(u, PartAt(after, u.node))
  <2>1. /\ u.kind = t.kind /\ u.node = Constraints!Moved(t.node, map) /\ u.launch = t.launch
        /\ u.capture = t.capture /\ u.value = t.value
    BY <1>4 DEF MovedOf, Statement
  <2>2. t.node \in ids \cup {NoNode}
    BY <1>2, <1>4 DEF Unsourced
  <2>3. PartAt(after, u.node) = PartAt(handle, t.node)
    <3>1. CASE t.node = NoNode
      BY <2>1, <3>1 DEF Constraints!Moved, Constraints!NoNode, NoNode, PartAt
    <3>2. CASE t.node \in ids /\ t.node # NoNode
      <4>1. u.node = map[t.node]
        BY <2>1, <3>2 DEF Constraints!Moved, Constraints!NoNode, NoNode
      <4>. QED
        BY <1>1, <3>2, <4>1
    <3>. QED
      BY <2>2, <3>1, <3>2
  <2>. QED
    BY <1>3, <1>4, <2>1, <2>3 DEF EntryFor, Hidden
<1>5. R = {MovedOf(t, map) : t \in {u \in T : ~Unsourced(u, ids)}}
  BY DEF Moves
<1>6. ASSUME NEW e \in BookFrom(R, after) PROVE e \in BookFrom(T, handle)
  <2>1. PICK u \in R : e = EntryFor(u, PartAt(after, u.node))
    BY DEF BookFrom
  <2>2. PICK t \in T : ~Unsourced(t, ids) /\ u = MovedOf(t, map)
    BY <1>5
  <2>3. e = EntryFor(t, PartAt(handle, t.node)) /\ ~Hidden(t, PartAt(handle, t.node))
    BY <1>3, <1>4, <2>1, <2>2
  <2>. QED
    BY <2>3 DEF BookFrom
<1>7. ASSUME NEW e \in BookFrom(T, handle) PROVE e \in BookFrom(R, after)
  <2>1. PICK t \in T : /\ ~Hidden(t, PartAt(handle, t.node))
                       /\ e = EntryFor(t, PartAt(handle, t.node))
    BY DEF BookFrom
  <2>2. PICK u : u = MovedOf(t, map)
    OBVIOUS
  <2>3. ~Unsourced(t, ids) /\ u \in R
    BY <1>3, <1>5, <2>1, <2>2
  <2>4. e = EntryFor(u, PartAt(after, u.node)) /\ ~Hidden(u, PartAt(after, u.node))
    BY <1>4, <2>1, <2>2, <2>3
  <2>. QED
    BY <2>3, <2>4 DEF BookFrom
<1>. QED
  BY <1>6, <1>7


(***************************************************************************)
(* Constraints on the nodes ids of a graph with the nodes all, the client  *)
(* knowing those by handle; and what each operation on them does to the    *)
(* book.                                                                   *)
(***************************************************************************)
Seen(c, handle, ids, all) == ConstraintsOK(c, ids, all) /\ Naming(handle, ids, all)

LEMMA BookSeen ==
  ASSUME NEW c, NEW handle, NEW ids, NEW all, Seen(c, handle, ids, all)
  PROVE  /\ \A t \in InForce(c) : Formed(t, ids, all)
         /\ BookOf(c, handle) = BookFrom(InForce(c), handle)
<1>1. \A t \in InForce(c) : Formed(t, ids, all)
  <2>1. ConstraintsOK(c, ids, all) /\ ids \subseteq all
    BY DEF Seen, Naming
  <2>. QED
    BY <2>1, InForceMembers DEF Formed
<1>. QED
  BY <1>1, BookIs

\* u is the statement s, of nodes by name, with the id of its node.
ById(u, s, handle, ids, all) ==
  /\ WellFormed(u, ids, NoNode) /\ Formed(u, ids, all)
  /\ u.kind = s.kind /\ u.launch = s.launch /\ u.value = s.value
  /\ EntryOf(s) = EntryFor(u, PartAt(handle, u.node))
  /\ ~Hidden(u, PartAt(handle, u.node))

LEMMA StatementByName ==
  ASSUME NEW handle, NEW ids, NEW all, Naming(handle, ids, all),
         NEW s, WellFormed(s, NodeNames, "none"),
         NEW node, node = IF s.node \in NodeNames THEN handle[s.node] ELSE NoNode,
         s.node \in NodeNames => node # NoNode,
         NEW u, u = [s EXCEPT !.node = node]
  PROVE  ById(u, s, handle, ids, all)
<1>1. s = [kind |-> s.kind, node |-> s.node, launch |-> s.launch, capture |-> s.capture,
           value |-> s.value]
  BY DEF WellFormed, Statement
<1>2. PICK kind, name, launch, capture, value :
        /\ kind = s.kind /\ name = s.node /\ launch = s.launch /\ capture = s.capture /\ value = s.value
  OBVIOUS
<1>3. u = [kind |-> kind, node |-> node, launch |-> launch, capture |-> capture, value |-> value]
  BY <1>1, <1>2
<1>4. /\ u.kind = s.kind /\ u.node = node /\ u.launch = s.launch /\ u.capture = s.capture
      /\ u.value = s.value
  BY <1>2, <1>3
<1>5. PartAt(handle, node) = name /\ name # "lost" /\ (name \in NodeNames => node \in ids)
      /\ (name = "none" => node = NoNode)
  <2>1. name \in NodeNames \cup {"none"}
    BY <1>2 DEF WellFormed
  <2>2. "none" \notin NodeNames /\ "lost" \notin NodeNames
    BY DEF Naming
  <2>3. CASE name \in NodeNames
    BY <1>2, <2>2, <2>3, NamesTell
  <2>4. CASE name = "none"
    BY <1>2, <2>2, <2>4 DEF PartAt
  <2>. QED
    BY <2>1, <2>3, <2>4
<1>6. u = Statement(u.kind, u.node, u.launch, u.capture, u.value)
  BY <1>3 DEF Statement
<1>7. WellFormed(u, ids, NoNode)
  BY <1>2, <1>4, <1>5, <1>6 DEF WellFormed
<1>8. WellFormed(u, all, NoNode)
  BY <1>7 DEF WellFormed, Naming
<1>9. EntryOf(s) = EntryFor(u, PartAt(handle, u.node)) /\ ~Hidden(u, PartAt(handle, u.node))
  BY <1>2, <1>4, <1>5 DEF EntryOf, EntryFor, Hidden
<1>. QED
  BY <1>4, <1>7, <1>8, <1>9 DEF Formed, ById

LEMMA StatementAdded ==
  ASSUME NEW c, NEW handle, NEW ids, NEW all, Seen(c, handle, ids, all),
         NEW s, WellFormed(s, NodeNames, "none"),
         NEW node, node = IF s.node \in NodeNames THEN handle[s.node] ELSE NoNode,
         s.node \in NodeNames => node # NoNode,
         NEW r, r = Read(c, [s EXCEPT !.node = node]),
         s.kind = "CLOCK" => Constraints!find_clock_domain(r, s.value) = s.launch,
         NEW e, e = EntryOf(s)
  PROVE  /\ ConstraintsOK(r, ids, all)
         /\ \/ BookOf(r, handle) =
                 {x \in BookOf(c, handle) : Book!SubjectOf(x) # Book!SubjectOf(e)} \cup {e}
            \/ BookOf(r, handle) = BookOf(c, handle)
<1>1. ConstraintsOK(c, ids, all) /\ Naming(handle, ids, all) /\ ids \subseteq all /\ NoNode \notin all
  BY DEF Seen, Naming
<1>2. PICK u : u = [s EXCEPT !.node = node]
  OBVIOUS
<1>3. /\ WellFormed(u, ids, NoNode) /\ Formed(u, ids, all)
      /\ u.kind = s.kind /\ u.launch = s.launch /\ u.value = s.value
      /\ EntryOf(s) = EntryFor(u, PartAt(handle, u.node))
      /\ ~Hidden(u, PartAt(handle, u.node))
  <2>1. ById(u, s, handle, ids, all)
    BY <1>1, <1>2, StatementByName
  <2>. QED
    BY <2>1 DEF ById
<1>4. r = Read(c, u)
  BY <1>2
<1>5. /\ ConstraintsOK(r, ids, all)
      /\ Fits(c, r, u) => InForce(r) = Replaced(InForce(c), u)
      /\ u.kind = "CLOCK_SOURCE" /\ u.launch \notin ToSet(c.domains) => InForce(r) = InForce(c)
  BY <1>1, <1>3, <1>4, StatementRead
<1>6. Seen(r, handle, ids, all)
  BY <1>1, <1>5 DEF Seen
<1>7. PICK T, R : T = InForce(c) /\ R = InForce(r)
  OBVIOUS
<1>8. /\ BookOf(c, handle) = BookFrom(T, handle) /\ \A t \in T : Formed(t, ids, all)
      /\ BookOf(r, handle) = BookFrom(R, handle)
  BY <1>6, <1>7, BookSeen
<1>9. CASE Fits(c, r, u)
  <2>1. R = Replaced(T, u)
    BY <1>5, <1>7, <1>9
  <2>2. BookFrom(R, handle) =
          {x \in BookFrom(T, handle) : Book!SubjectOf(x) # Book!SubjectOf(e)} \cup {e}
    BY <1>1, <1>3, <1>8, <2>1, BookEntered
  <2>. QED
    BY <1>5, <1>8, <2>2
<1>10. CASE ~Fits(c, r, u)
  <2>1. u.kind = "CLOCK_SOURCE" /\ u.launch \notin ToSet(c.domains)
    BY <1>3, <1>10 DEF Fits
  <2>. QED
    BY <1>5, <1>7, <1>8, <2>1
<1>. QED
  BY <1>9, <1>10


LEMMA GeneratorsChanged ==
  ASSUME NEW c, HasFields(c), NEW new, NEW r, r = [c EXCEPT !.const_gens = new]
  PROVE  SameBut(c, r, "CONSTANT_GENERATOR") /\ r.const_gens = new
BY DEF HasFields, SameBut

LEMMA OthersKept ==
  ASSUME NEW c, NEW r, SameBut(c, r, "CONSTANT_GENERATOR")
  PROVE  \A k \in Kinds : k # "CONSTANT_GENERATOR" => Section(r, k) = Section(c, k)
<1>1. PICK kind : kind = "CONSTANT_GENERATOR"
  OBVIOUS
<1>2. SameBut(c, r, kind)
      /\ (kind = "CLOCK" => SourceEntries(r.domains, r.source) = SourceEntries(c.domains, c.source))
  BY <1>1
<1>3. \A k \in Kinds : k # kind => Section(r, k) = Section(c, k)
  BY <1>2, OthersStay
<1>. QED
  BY <1>1, <1>3

\* The statements of the subject of u are not in force any more.
Strikes(S, R, u) == R = {t \in S : ~SameSubject(t, u)}

LEMMA GeneratorUnmarked ==
  ASSUME NEW c, NEW ids, NEW all, ConstraintsOK(c, ids, all), NEW n \in ids,
         NEW r, r = Constraints!set_constant_generator(c, n, FALSE),
         NEW u, u = Statement("CONSTANT_GENERATOR", n, NoDomain, NoDomain, NaN)
  PROVE  ConstraintsOK(r, ids, all) /\ Strikes(InForce(c), InForce(r), u)
<1>1. PICK old, new : old = c.const_gens /\ new = old \ {n}
  OBVIOUS
<1>2. r = [c EXCEPT !.const_gens = new]
  BY <1>1 DEF Constraints!set_constant_generator
<1>3. SameBut(c, r, "CONSTANT_GENERATOR") /\ r.const_gens = new
  <2>1. HasFields(c)
    BY DEF ConstraintsOK
  <2>. QED
    BY <1>2, <2>1, GeneratorsChanged
<1>4. GeneratorsOK(new, ids)
  <2>1. GeneratorsOK(old, ids)
    BY <1>1 DEF ConstraintsOK
  <2>2. IsFiniteSet(new)
    BY <1>1, <2>1, FS_Subset DEF GeneratorsOK
  <2>. QED
    BY <1>1, <2>1, <2>2 DEF GeneratorsOK
<1>5. ConstraintsOK(r, ids, all)
  BY <1>3, <1>4 DEF ConstraintsOK, SameBut
<1>6. \A k \in Kinds : k # "CONSTANT_GENERATOR" => Section(r, k) = Section(c, k)
  BY <1>3, OthersKept
<1>7. Section(c, "CONSTANT_GENERATOR") = GeneratorEntries(old)
      /\ Section(r, "CONSTANT_GENERATOR") = GeneratorEntries(new)
  BY <1>1, <1>3, SectionsOf DEF SectionsAre
<1>8. GeneratorEntries(new) = {t \in GeneratorEntries(old) : ~SameSubject(t, u)}
  <2>1. \A m : m = n <=> SameSubject(Statement("CONSTANT_GENERATOR", m, NoDomain, NoDomain, NaN), u)
    BY DEF SameSubject, Statement
  <2>. QED
    BY <1>1, <2>1 DEF GeneratorEntries
<1>9. \A k \in Kinds : k # "CONSTANT_GENERATOR" => \A t \in Section(c, k) : ~SameSubject(t, u)
  <2>1. u.kind = "CONSTANT_GENERATOR"
    BY DEF Statement
  <2>. QED
    BY <2>1, SectionKinds DEF SameSubject
<1>10. \A k \in Kinds : Section(r, k) = {t \in Section(c, k) : ~SameSubject(t, u)}
  BY <1>6, <1>7, <1>8, <1>9
<1>11. InForce(r) = {t \in InForce(c) : ~SameSubject(t, u)}
  <2>1. \A t : t \in InForce(r) <=> \E k \in Kinds : t \in Section(c, k) /\ ~SameSubject(t, u)
    BY <1>10 DEF InForce
  <2>2. \A t : t \in InForce(c) <=> \E k \in Kinds : t \in Section(c, k)
    BY DEF InForce
  <2>. QED
    BY <2>1, <2>2
<1>. QED
  BY <1>5, <1>11 DEF Strikes

\* The book without the subject of e.
StruckOut(c, r, handle, e) ==
  BookOf(r, handle) = {x \in BookOf(c, handle) : Book!SubjectOf(x) # Book!SubjectOf(e)}

MarkOf(name) == Entry("CONSTANT_GENERATOR", name, NoDomain, NoDomain, NaN)

LEMMA GeneratorStruck ==
  ASSUME NEW c, NEW handle, NEW ids, NEW all, Seen(c, handle, ids, all),
         NEW name \in NodeNames, NEW n, n = handle[name], n \in c.const_gens,
         NEW r, r = Constraints!set_constant_generator(c, n, FALSE),
         NEW e, e = MarkOf(name)
  PROVE  ConstraintsOK(r, ids, all) /\ StruckOut(c, r, handle, e)
<1>1. ConstraintsOK(c, ids, all) /\ Naming(handle, ids, all) /\ n \in ids /\ n # NoNode
  BY DEF Seen, Naming, ConstraintsOK, GeneratorsOK
<1>2. PICK u : u = Statement("CONSTANT_GENERATOR", n, NoDomain, NoDomain, NaN)
  OBVIOUS
<1>3. /\ u.kind = "CONSTANT_GENERATOR" /\ u.node = n /\ u.launch = NoDomain
      /\ u.capture = NoDomain /\ u.value = NaN
  BY <1>2 DEF Statement
<1>4. Formed(u, ids, all)
  <2>1. n \in all
    BY <1>1 DEF Naming
  <2>. QED
    BY <1>1, <1>2, <1>3, <2>1 DEF Formed, WellFormed, Kinds, IoKinds, PairKinds
<1>5. e = EntryFor(u, PartAt(handle, u.node))
  <2>1. PartAt(handle, n) = name
    BY <1>1, NamesTell
  <2>. QED
    BY <1>3, <2>1 DEF EntryFor, MarkOf
<1>6. PICK T, R : T = InForce(c) /\ R = InForce(r)
  OBVIOUS
<1>7. ConstraintsOK(r, ids, all) /\ Strikes(T, R, u)
  BY <1>1, <1>2, <1>6, GeneratorUnmarked
<1>8. Seen(r, handle, ids, all)
  BY <1>1, <1>7 DEF Seen
<1>9. /\ BookOf(c, handle) = BookFrom(T, handle) /\ \A t \in T : Formed(t, ids, all)
      /\ BookOf(r, handle) = BookFrom(R, handle)
  BY <1>6, <1>8, BookSeen
<1>10. BookFrom(R, handle) = {x \in BookFrom(T, handle) : Book!SubjectOf(x) # Book!SubjectOf(e)}
  <2>1. R = {t \in T : ~SameSubject(t, u)}
    BY <1>7 DEF Strikes
  <2>. QED
    BY <1>1, <1>4, <1>5, <1>9, <2>1, BookStruck
<1>. QED
  BY <1>7, <1>9, <1>10 DEF StruckOut

\* No constraint is set for the node n.
NoneAt(entries, n) == \A x \in ToSet(entries) : x.node # n

Unconstrained(c, n) ==
  /\ n \notin c.const_gens
  /\ NoneAt(c.input["MAX"], n) /\ NoneAt(c.input["MIN"], n)
  /\ NoneAt(c.output["MAX"], n) /\ NoneAt(c.output["MIN"], n)

LEMMA IoWithout ==
  ASSUME NEW entries, NEW ids, IoOK(entries, ids), NEW n, NoneAt(entries, n)
  PROVE  IoOK(entries, ids \ {n})
<1>1. \A i \in DOMAIN entries : entries[i].node # n
  BY DEF NoneAt, ToSet
<1>. QED
  BY <1>1 DEF IoOK

LEMMA PartLost ==
  ASSUME NEW c, NEW handle, NEW ids, NEW all, Seen(c, handle, ids, all),
         NEW x \in NodeNames, NEW n, n = handle[x], n # NoNode, Unconstrained(c, n),
         NEW after, after = Forgotten(handle, NodeNames, {n})
  PROVE  /\ ConstraintsOK(c, ids \ {n}, all)
         /\ BookOf(c, after) = {e \in BookOf(c, handle) : ~Book!SourcedAt(e, x)}
<1>1. ConstraintsOK(c, ids, all) /\ Naming(handle, ids, all) /\ HandlesOK(handle, NodeNames, ids)
  BY DEF Seen, Naming
<1>2. n \in ids
  BY <1>1 DEF HandlesOK
<1>3. PICK left : left = ids \ {n}
  OBVIOUS
<1>4. Naming(after, left, all)
  <2>1. HandlesOK(after, NodeNames, left)
    BY <1>1, <1>3, HandlesForgotten
  <2>. QED
    BY <1>1, <1>3, <2>1 DEF Naming
<1>5. after = [handle EXCEPT ![x] = NoNode]
  BY <1>1 DEF HandlesOK, Forgotten
<1>6. ConstraintsOK(c, left, all)
  <2>1. GeneratorsOK(c.const_gens, left)
    BY <1>1, <1>3 DEF ConstraintsOK, GeneratorsOK, Unconstrained
  <2>2. /\ IoOK(c.input["MAX"], left) /\ IoOK(c.input["MIN"], left)
        /\ IoOK(c.output["MAX"], left) /\ IoOK(c.output["MIN"], left)
    <3>1. PICK a, b, d, f : /\ a = c.input["MAX"] /\ b = c.input["MIN"]
                            /\ d = c.output["MAX"] /\ f = c.output["MIN"]
      OBVIOUS
    <3>2. /\ IoOK(a, ids) /\ IoOK(b, ids) /\ IoOK(d, ids) /\ IoOK(f, ids)
          /\ NoneAt(a, n) /\ NoneAt(b, n) /\ NoneAt(d, n) /\ NoneAt(f, n)
      BY <1>1, <3>1 DEF ConstraintsOK, Unconstrained
    <3>3. IoOK(a, left) /\ IoOK(b, left) /\ IoOK(d, left) /\ IoOK(f, left)
      BY <1>3, <3>2, IoWithout
    <3>. QED
      BY <3>1, <3>3
  <2>. QED
    BY <1>1, <2>1, <2>2 DEF ConstraintsOK
<1>7. PICK T : T = InForce(c)
  OBVIOUS
<1>8. /\ \A t \in T : Formed(t, ids, all)
      /\ BookOf(c, handle) = BookFrom(T, handle)
  BY <1>7, BookSeen
<1>9. /\ \A t \in T : Formed(t, left, all)
      /\ BookOf(c, after) = BookFrom(T, after)
  <2>1. Seen(c, after, left, all)
    BY <1>4, <1>6 DEF Seen
  <2>. QED
    BY <1>7, <2>1, BookSeen
<1>10. \A t \in T : t.kind # "CLOCK_SOURCE" => t.node # n
  BY <1>2, <1>3, <1>9 DEF Formed, WellFormed, Naming, HandlesOK
<1>11. Loses(T, handle, after, x)
  <2>1. Naming(handle, ids, all) /\ Naming(after, ids \ {n}, all) /\ n \in ids /\ handle[x] = n
    BY <1>1, <1>2, <1>3, <1>4
  <2>. QED
    BY <1>5, <1>8, <1>10, <2>1, BookForgets
<1>. QED
  BY <1>3, <1>6, <1>8, <1>9, <1>11 DEF Loses

LEMMA BookRenumbered ==
  ASSUME NEW c, NEW handle, NEW ids, NEW all, Seen(c, handle, ids, all),
         NEW map, NEW left, Renames(map, ids, all, left),
         NEW after, Naming(after, left, left), \A n \in ids : after[NameIn(handle, n)] = map[n],
         NEW r, r = Constraints!remap_nodes(c, map)
  PROVE  ConstraintsOK(r, left, left) /\ BookOf(r, after) = BookOf(c, handle)
<1>1. ConstraintsOK(c, ids, all) /\ Naming(handle, ids, all)
  BY DEF Seen
<1>2. PICK T, R : T = InForce(c) /\ R = InForce(r)
  OBVIOUS
<1>3. ConstraintsOK(r, left, left) /\ Moves(T, R, ids, map)
  BY <1>1, <1>2, ConstraintsRemapped
<1>4. \A t \in T : Formed(t, ids, all)
  BY <1>2, BookSeen
<1>5. BookOf(r, after) = BookFrom(R, after)
  <2>1. Seen(r, after, left, left)
    BY <1>3 DEF Seen
  <2>. QED
    BY <1>2, <2>1, BookSeen
<1>6. BookFrom(R, after) = BookFrom(T, handle)
  BY <1>1, <1>3, <1>4, BookFollows
<1>7. BookOf(c, handle) = BookFrom(T, handle)
  BY <1>2, BookSeen
<1>. QED
  BY <1>3, <1>5, <1>6, <1>7

LEMMA EntryTranscribed ==
  ASSUME NEW t, NEW part
  PROVE  /\ EntryFor(Copied(t), part) = Transcribed(EntryFor(t, part))
         /\ Hidden(Copied(t), part) <=> Hidden(t, part)
<1>1. PICK u : u = Copied(t)
  OBVIOUS
<1>2. /\ u.kind = t.kind /\ u.launch = t.launch /\ u.capture = t.capture
      /\ u.value = IF t.kind \in TimedKinds THEN Printed(t.value) ELSE t.value
  BY <1>1, CopyFields
<1>3. "CLOCK_SOURCE" \notin TimedKinds
  BY DEF TimedKinds, IoKinds, PairKinds
<1>4. \A kind, l, d, value :
        Transcribed(Entry(kind, part, l, d, value)) =
          Entry(kind, part, l, d, IF kind \in TimedKinds THEN Printed(value) ELSE value)
  BY DEF Transcribed, Entry
<1>5. \A l, d, value :
        Transcribed(Entry("CLOCK_SOURCE", "none", l, d, value)) = Entry("CLOCK_SOURCE", "none", l, d, value)
  BY <1>3 DEF Transcribed, Entry
<1>6. EntryFor(u, part) = Transcribed(EntryFor(t, part))
  <2>1. CASE t.kind = "CLOCK_SOURCE"
    BY <1>2, <1>5, <2>1 DEF EntryFor
  <2>2. CASE t.kind # "CLOCK_SOURCE"
    BY <1>2, <1>4, <2>2 DEF EntryFor
  <2>. QED
    BY <2>1, <2>2
<1>. QED
  BY <1>1, <1>2, <1>6 DEF Hidden

LEMMA BookTranscribed ==
  ASSUME NEW T, NEW handle
  PROVE  BookFrom(Copies(T), handle) = {Transcribed(e) : e \in BookFrom(T, handle)}
<1>1. \A t \in T : /\ Copied(t).node = t.node
                   /\ EntryFor(Copied(t), PartAt(handle, t.node)) =
                        Transcribed(EntryFor(t, PartAt(handle, t.node)))
                   /\ Hidden(Copied(t), PartAt(handle, t.node)) <=> Hidden(t, PartAt(handle, t.node))
  BY CopyFields, EntryTranscribed
<1>2. ASSUME NEW e \in BookFrom(Copies(T), handle) PROVE \E f \in BookFrom(T, handle) : e = Transcribed(f)
  <2>1. PICK u \in Copies(T) : /\ ~Hidden(u, PartAt(handle, u.node))
                               /\ e = EntryFor(u, PartAt(handle, u.node))
    BY <1>2 DEF BookFrom
  <2>2. PICK t \in T : u = Copied(t)
    BY DEF Copies
  <2>3. ~Hidden(t, PartAt(handle, t.node)) /\ e = Transcribed(EntryFor(t, PartAt(handle, t.node)))
    BY <1>1, <2>1, <2>2
  <2>. QED
    BY <2>3 DEF BookFrom
<1>3. ASSUME NEW f \in BookFrom(T, handle) PROVE Transcribed(f) \in BookFrom(Copies(T), handle)
  <2>1. PICK t \in T : /\ ~Hidden(t, PartAt(handle, t.node))
                       /\ f = EntryFor(t, PartAt(handle, t.node))
    BY <1>3 DEF BookFrom
  <2>2. Copied(t) \in Copies(T)
    BY DEF Copies
  <2>3. /\ ~Hidden(Copied(t), PartAt(handle, Copied(t).node))
        /\ Transcribed(f) = EntryFor(Copied(t), PartAt(handle, Copied(t).node))
    BY <1>1, <2>1
  <2>. QED
    BY <2>2, <2>3 DEF BookFrom
<1>. QED
  BY <1>2, <1>3

LEMMA BookReloaded ==
  ASSUME NEW c, NEW handle, NEW ids, Seen(c, handle, ids, ids),
         NEW r, r = constraints_of(write_timing_constraints(c))
  PROVE  /\ ConstraintsOK(r, ids, ids)
         /\ BookOf(r, handle) = {Transcribed(e) : e \in BookOf(c, handle)}
<1>1. ConstraintsOK(c, ids, ids) /\ Naming(handle, ids, ids) /\ NoNode \notin ids
  BY DEF Seen, Naming
<1>2. ConstraintsOK(r, ids, ids) /\ InForce(r) = Copies(InForce(c))
  BY <1>1, ConstraintsEchoed DEF Copies
<1>3. Seen(r, handle, ids, ids)
  BY <1>1, <1>2 DEF Seen
<1>4. BookOf(r, handle) = BookFrom(InForce(r), handle)
  BY <1>3, BookSeen
<1>5. BookOf(c, handle) = BookFrom(InForce(c), handle)
  BY BookSeen
<1>. QED
  BY <1>2, <1>4, <1>5, BookTranscribed


(***************************************************************************)
(* The invariant of the constraints, and what each step of the client does *)
(* to the book.                                                            *)
(***************************************************************************)
ConstraintsInv == ConstraintsOK(tc, ValidIds(nodes), DOMAIN nodes)

BookFollowed == ConstraintsInv' /\ [Book!Amend]_(BookOf(tc, node_of))

BookCopied == ConstraintsInv' /\ Book!Transcribe

LEMMA NodesNamed ==
  ASSUME SetupInv, CanFollow(Settings)
  PROVE  Naming(node_of, ValidIds(nodes), DOMAIN nodes)
<1>1. Sound(graph) /\ graph.nodes = nodes /\ HandlesOK(node_of, NodeNames, ValidIds(nodes))
  BY DEF SetupInv, GraphInv, graph
<1>2. NoNode \notin DOMAIN nodes
  <2>1. PICK k \in Nat : DOMAIN nodes = 0 .. k - 1
    BY <1>1 DEF Sound, Typed, IdRange
  <2>. QED
    BY <2>1 DEF NoNode
<1>3. ValidIds(nodes) \subseteq DOMAIN nodes
  BY DEF ValidIds
<1>. QED
  BY <1>1, <1>2, <1>3 DEF Naming, CanFollow

LEMMA ConstraintsSeen ==
  ASSUME SetupInv, CanFollow(Settings), ConstraintsInv
  PROVE  Seen(tc, node_of, ValidIds(nodes), DOMAIN nodes)
BY NodesNamed DEF Seen, ConstraintsInv

LEMMA UnchangedBook ==
  ASSUME ConstraintsInv, tc' = tc, node_of' = node_of,
         ValidIds(nodes') = ValidIds(nodes), DOMAIN nodes' = DOMAIN nodes
  PROVE  BookFollowed
BY DEF ConstraintsInv, BookFollowed

LEMMA AddStatementBooked ==
  ASSUME SetupInv, CanFollow(Settings), ConstraintsInv, NEW s \in Settings, AddStatement(s)
  PROVE  BookFollowed
<1>1. PICK c, handle, ids, all, r :
        c = tc /\ handle = node_of /\ ids = ValidIds(nodes) /\ all = DOMAIN nodes /\ r = tc'
  OBVIOUS
<1>2. Seen(c, handle, ids, all)
  BY <1>1, ConstraintsSeen
<1>3. WellFormed(s, NodeNames, "none")
  BY DEF CanFollow
<1>4. PICK node : node = IF s.node \in NodeNames THEN handle[s.node] ELSE NoNode
  OBVIOUS
<1>5. /\ s.node \in NodeNames => node # NoNode
      /\ r = Read(c, [s EXCEPT !.node = node])
      /\ s.kind = "CLOCK" => Constraints!find_clock_domain(r, s.value) = s.launch
      /\ UNCHANGED <<nodes, node_of>>
  BY <1>1, <1>4 DEF AddStatement, vars, handles
<1>6. PICK e : e = EntryOf(s)
  OBVIOUS
<1>7. /\ ConstraintsOK(r, ids, all)
      /\ \/ BookOf(r, handle) =
              {x \in BookOf(c, handle) : Book!SubjectOf(x) # Book!SubjectOf(e)} \cup {e}
         \/ BookOf(r, handle) = BookOf(c, handle)
  BY <1>2, <1>3, <1>4, <1>5, <1>6, StatementAdded
<1>8. ConstraintsInv'
  BY <1>1, <1>5, <1>7 DEF ConstraintsInv
<1>9. BookOf(tc, node_of)' = BookOf(r, handle) /\ BookOf(tc, node_of) = BookOf(c, handle)
  BY <1>1, <1>5
<1>10. Book!Enter(e) \/ UNCHANGED BookOf(tc, node_of)
  BY <1>7, <1>9 DEF Book!Enter
<1>11. e \in {EntryOf(t) : t \in Settings}
  BY <1>6
<1>. QED
  BY <1>8, <1>10, <1>11 DEF BookFollowed, Book!Amend

LEMMA UnmarkBooked ==
  ASSUME SetupInv, CanFollow(Settings), ConstraintsInv,
         NEW name \in NodeNames, UnmarkConstantGenerator(name)
  PROVE  BookFollowed
<1>1. PICK c, handle, ids, all, r :
        c = tc /\ handle = node_of /\ ids = ValidIds(nodes) /\ all = DOMAIN nodes /\ r = tc'
  OBVIOUS
<1>2. Seen(c, handle, ids, all)
  BY <1>1, ConstraintsSeen
<1>3. PICK n : n = handle[name]
  OBVIOUS
<1>4. /\ n \in c.const_gens /\ r = Constraints!set_constant_generator(c, n, FALSE)
      /\ UNCHANGED <<nodes, node_of>>
  BY <1>1, <1>3 DEF UnmarkConstantGenerator, vars, handles
<1>5. PICK e : e = MarkOf(name)
  OBVIOUS
<1>6. ConstraintsOK(r, ids, all) /\ StruckOut(c, r, handle, e)
  BY <1>2, <1>3, <1>4, <1>5, GeneratorStruck
<1>7. ConstraintsInv'
  BY <1>1, <1>4, <1>6 DEF ConstraintsInv
<1>8. BookOf(tc, node_of)' = BookOf(r, handle) /\ BookOf(tc, node_of) = BookOf(c, handle)
  BY <1>1, <1>4
<1>9. Book!Strike(e)
  BY <1>6, <1>8 DEF Book!Strike, StruckOut
<1>10. e \in {Entry("CONSTANT_GENERATOR", x, NoDomain, NoDomain, NaN) : x \in NodeNames}
  BY <1>5 DEF MarkOf
<1>. QED
  BY <1>7, <1>9, <1>10 DEF BookFollowed, Book!Amend

LEMMA ChangeEdgeBooked ==
  ASSUME SetupInv, ConstraintsInv, NEW name \in EdgeNames, ChangeEdge(name)
  PROVE  BookFollowed
<1>1. GraphInv /\ tc' = tc
  BY DEF SetupInv, ChangeEdge
<1>2. CASE remove_edge(name)
  <2>1. PICK r : TakenOut({edge_of[name]}, {}, r)
    BY <1>1, <1>2, EdgeTakenOut
  <2>2. graph' = r /\ Pruned(graph, {edge_of[name]}, {}, r) /\ graph.nodes = nodes /\ r.nodes = nodes'
    BY <2>1 DEF TakenOut, graph
  <2>3. DOMAIN nodes' = DOMAIN nodes /\ ValidIds(nodes') = ValidIds(nodes)
    BY <2>2 DEF Pruned
  <2>4. node_of' = node_of
    BY <1>2 DEF remove_edge
  <2>. QED
    BY <1>1, <2>3, <2>4, UnchangedBook
<1>3. ASSUME NEW disable \in BOOLEAN, disable_edge(name, disable) PROVE BookFollowed
  <2>1. nodes' = nodes /\ node_of' = node_of
    BY <1>3 DEF disable_edge, handles
  <2>. QED
    BY <1>1, <2>1, UnchangedBook
<1>. QED
  BY <1>2, <1>3 DEF ChangeEdge

LEMMA RemoveNodeBooked ==
  ASSUME SetupInv, CanFollow(Settings), ConstraintsInv, NEW name \in NodeNames, RemoveNode(name)
  PROVE  BookFollowed
<1>1. PICK c, handle, ids, all, after :
        c = tc /\ handle = node_of /\ ids = ValidIds(nodes) /\ all = DOMAIN nodes /\ after = node_of'
  OBVIOUS
<1>2. Seen(c, handle, ids, all)
  BY <1>1, ConstraintsSeen
<1>3. PICK n, removed : n = handle[name] /\ removed = EdgesAt(graph, n)
  BY SMTT(30)
<1>4. n # NoNode /\ remove_node(name) /\ n \notin ConstrainedNodes /\ tc' = tc
  BY <1>1, <1>3 DEF RemoveNode, remove_node
<1>5. PICK r : TakenOut(removed, {n}, r)
  BY <1>1, <1>3, <1>4, NodeTakenOut DEF SetupInv
<1>6. /\ DOMAIN nodes' = all /\ ValidIds(nodes') = ids \ {n}
      /\ after = Forgotten(handle, NodeNames, {n})
  <2>1. graph' = r /\ Pruned(graph, removed, {n}, r) /\ graph.nodes = nodes /\ r.nodes = nodes'
        /\ node_of' = Forgotten(node_of, NodeNames, {n})
    BY <1>5 DEF TakenOut, graph
  <2>. QED
    BY <1>1, <2>1 DEF Pruned
<1>7. Unconstrained(c, n)
  <2>1. ASSUME NEW a, NEW b, IoOK(a, ids), IoOK(b, ids)
        PROVE  ToSet(a) \cup ToSet(b) \subseteq ToSet(a \o b)
    <3>1. PICK A, B : A = ToSet(a) /\ B = ToSet(b) /\ a \in Seq(A) /\ b \in Seq(B)
      BY <2>1 DEF IoOK, IsList
    <3>2. a \in Seq(A \cup B) /\ b \in Seq(A \cup B)
      BY <3>1
    <3>3. /\ DOMAIN (a \o b) = 1 .. Len(a) + Len(b) /\ Len(a) \in Nat /\ Len(b) \in Nat
          /\ DOMAIN a = 1 .. Len(a) /\ DOMAIN b = 1 .. Len(b)
          /\ \A i \in 1 .. Len(a) : (a \o b)[i] = a[i]
          /\ \A i \in 1 .. Len(b) : (a \o b)[Len(a) + i] = b[i]
      BY <3>2
    <3>4. ASSUME NEW x \in ToSet(a) PROVE x \in ToSet(a \o b)
      <4>1. PICK i \in 1 .. Len(a) : x = a[i]
        BY <3>3, <3>4 DEF ToSet
      <4>2. i \in DOMAIN (a \o b) /\ (a \o b)[i] = x
        BY <3>3, <4>1
      <4>. QED
        BY <4>2 DEF ToSet
    <3>5. ASSUME NEW x \in ToSet(b) PROVE x \in ToSet(a \o b)
      <4>1. PICK i \in 1 .. Len(b) : x = b[i]
        BY <3>3, <3>5 DEF ToSet
      <4>2. Len(a) + i \in DOMAIN (a \o b) /\ (a \o b)[Len(a) + i] = x
        BY <3>3, <4>1
      <4>. QED
        BY <4>2 DEF ToSet
    <3>. QED
      BY <3>4, <3>5
  <2>2. /\ IoOK(c.input["MAX"], ids) /\ IoOK(c.input["MIN"], ids)
        /\ IoOK(c.output["MAX"], ids) /\ IoOK(c.output["MIN"], ids)
    BY <1>2 DEF Seen, ConstraintsOK
  <2>3. \A dt \in {"MAX", "MIN"} :
          ToSet(c.input[dt]) \cup ToSet(c.output[dt]) \subseteq ToSet(c.input[dt] \o c.output[dt])
    BY <2>1, <2>2
  <2>4. n \notin c.const_gens
        /\ \A dt \in {"MAX", "MIN"} : \A x \in ToSet(c.input[dt] \o c.output[dt]) : x.node # n
    BY <1>1, <1>4 DEF ConstrainedNodes
  <2>. QED
    BY <2>3, <2>4 DEF Unconstrained, NoneAt
<1>8. /\ ConstraintsOK(c, ids \ {n}, all)
      /\ BookOf(c, after) = {e \in BookOf(c, handle) : ~Book!SourcedAt(e, name)}
  BY <1>2, <1>3, <1>4, <1>6, <1>7, PartLost
<1>9. ConstraintsInv'
  BY <1>1, <1>4, <1>6, <1>8 DEF ConstraintsInv
<1>10. BookOf(tc, node_of)' = BookOf(c, after) /\ BookOf(tc, node_of) = BookOf(c, handle)
  BY <1>1, <1>4
<1>11. Book!LosePart(name)
  BY <1>8, <1>10 DEF Book!LosePart
<1>. QED
  BY <1>9, <1>11 DEF BookFollowed, Book!Amend


LEMMA RenumberingBooked ==
  ASSUME SetupInv, CanFollow(Settings), ConstraintsInv,
         NEW g, g = graph, NEW nm, NEW em, NEW r, MapsOK(g, nm, em, r), Follow(nm, em),
         nodes' = r.nodes, tc' = Constraints!remap_nodes(tc, nm)
  PROVE  BookFollowed
<1>1. PICK c, handle, f, ids, all, d, after, left :
        /\ c = tc /\ handle = node_of /\ f = nodes /\ ids = ValidIds(nodes) /\ all = DOMAIN nodes
        /\ d = tc' /\ after = node_of' /\ left = {nm[n] : n \in ids}
  OBVIOUS
<1>2. Seen(c, handle, ids, all) /\ Naming(handle, ids, all) /\ HandlesOK(handle, NodeNames, ids)
  BY <1>1, ConstraintsSeen DEF Seen, Naming
<1>3. Renumbers(nm, f) /\ ids = ValidIds(f) /\ all = DOMAIN f
  BY <1>1 DEF MapsOK, graph
<1>4. ValidIds(nodes') = left /\ DOMAIN nodes' = left
  <2>1. ValidIds(r.nodes) = {nm[n] : n \in ValidIds(g.nodes)} /\ ValidIds(r.nodes) = DOMAIN r.nodes
    BY DEF MapsOK, Whole, NodesFull
  <2>2. g.nodes = nodes
    BY DEF graph
  <2>. QED
    BY <1>1, <2>1, <2>2
<1>5. after = Followed(handle, NodeNames, nm)
  BY <1>1, FollowFollows
<1>6. Naming(after, left, left)
  <2>1. HandlesOK(handle, NodeNames, ValidIds(f))
    BY <1>2, <1>3
  <2>2. HandlesOK(Followed(handle, NodeNames, nm), NodeNames, {nm[i] : i \in ValidIds(f)})
    BY <1>3, <2>1, HandlesFollowed
  <2>3. HandlesOK(after, NodeNames, left)
    BY <1>1, <1>3, <1>5, <2>2
  <2>. QED
    BY <1>2, <2>3 DEF Naming, HandlesOK
<1>7. \A n \in ids : after[NameIn(handle, n)] = nm[n]
  <2>1. HandlesOK(handle, NodeNames, ValidIds(f))
    BY <1>2, <1>3
  <2>2. \A n \in ValidIds(f) : after[NameIn(handle, n)] = nm[n]
    BY <1>3, <1>5, <2>1, FollowedKnown
  <2>. QED
    BY <1>3, <2>2
<1>8. Renames(nm, ids, all, left)
  BY <1>1, <1>2, <1>3 DEF Renames, Renumbers, Naming
<1>9. ConstraintsOK(d, left, left) /\ BookOf(d, after) = BookOf(c, handle)
  BY <1>1, <1>2, <1>6, <1>7, <1>8, BookRenumbered
<1>10. ConstraintsInv'
  BY <1>1, <1>4, <1>9 DEF ConstraintsInv
<1>11. UNCHANGED BookOf(tc, node_of)
  BY <1>1, <1>9
<1>. QED
  BY <1>10, <1>11 DEF BookFollowed

LEMMA CompressAllBooked ==
  ASSUME SetupInv, CanFollow(Settings), ConstraintsInv, CompressAll
  PROVE  BookFollowed
<1>1. GraphInv /\ compress
  BY DEF SetupInv, CompressAll
<1>2. PICK g, nm, em, r :
        /\ nm = compress_ids(nodes) /\ g = graph /\ MapsOK(g, nm, em, r) /\ Follow(nm, em)
        /\ nodes' = r.nodes
  BY <1>1, CompressMaps
<1>3. tc' = Constraints!remap_nodes(tc, nm)
  BY <1>2 DEF CompressAll, Renumbered
<1>. QED
  BY <1>2, <1>3, RenumberingBooked

LEMMA OptimizeAllBooked ==
  ASSUME SetupInv, CanFollow(Settings), ConstraintsInv, OptimizeAll
  PROVE  BookFollowed
<1>1. GraphInv /\ optimize_layout
  BY DEF SetupInv, OptimizeAll
<1>2. PICK g, nm, em, r :
        /\ OptimizedMaps = [node |-> nm, edge |-> em]
        /\ g = graph /\ MapsOK(g, nm, em, r) /\ Follow(nm, em) /\ nodes' = r.nodes
  BY <1>1, OptimizeMaps
<1>3. tc' = Constraints!remap_nodes(tc, nm)
  BY <1>2 DEF OptimizeAll, Renumbered
<1>. QED
  BY <1>2, <1>3, RenumberingBooked

LEMMA EchoBooked ==
  ASSUME SetupInv, CanFollow(Settings), ConstraintsInv, Echo
  PROVE  BookCopied
<1>1. PICK c, handle, ids, d :
        c = tc /\ handle = node_of /\ ids = ValidIds(nodes) /\ d = tc'
  OBVIOUS
<1>2. ids = DOMAIN nodes /\ ValidIds(edges) = DOMAIN edges
  BY <1>1 DEF Echo, Analysable, Validated, NoHoles
<1>3. Seen(c, handle, ids, ids)
  BY <1>1, <1>2, ConstraintsSeen
<1>4. PICK file : /\ file.graph = write_timing_graph(graph)
                  /\ file.constraints = write_timing_constraints(c)
                  /\ nodes' = graph_of(file).nodes /\ d = constraints_of(file.constraints)
  BY <1>1 DEF Echo, Written
<1>5. ConstraintsOK(d, ids, ids) /\ BookOf(d, handle) = {Transcribed(e) : e \in BookOf(c, handle)}
  <2>1. d = constraints_of(write_timing_constraints(c))
    BY <1>4
  <2>. QED
    BY <1>3, <2>1, BookReloaded
<1>6. DOMAIN nodes' = ids /\ ValidIds(nodes') = ids
  <2>1. PICK g, r : g = graph /\ r = graph_of(file)
    OBVIOUS
  <2>2. g.nodes = nodes /\ g.edges = edges /\ Sound(g)
    BY <2>1 DEF SetupInv, GraphInv, graph
  <2>3. Whole(g)
    BY <1>1, <1>2, <2>2 DEF Whole, NodesFull, EdgesFull
  <2>4. Whole(r) /\ DOMAIN r.nodes = DOMAIN g.nodes
    BY <1>4, <2>1, <2>3, WrittenIsLoaded
  <2>. QED
    BY <1>2, <1>4, <2>1, <2>2, <2>4 DEF Whole, NodesFull
<1>7. node_of' = node_of
  BY DEF Echo, handles
<1>8. ConstraintsInv'
  BY <1>1, <1>5, <1>6 DEF ConstraintsInv
<1>9. Book!Transcribe
  BY <1>1, <1>5, <1>7 DEF Book!Transcribe
<1>. QED
  BY <1>8, <1>9 DEF BookCopied

(***************************************************************************)
(* The file the client starts from.                                        *)
(***************************************************************************)
LEMMA FileConstraints ==
  ASSUME CanFollow(Settings), NEW f, f = graph_of(File).nodes
  PROVE  ConstraintsOK(constraints_of(File.constraints), ValidIds(f), DOMAIN f)
<1>1. PICK g, no, eo : g = graph_of(File) /\ no = Positions(NodeOrder) /\ eo = Positions(EdgeOrder)
  OBVIOUS
<1>2. PICK k : k = Len(NodeOrder)
  OBVIOUS
<1>3. Whole(g) /\ f = g.nodes /\ HandlesOK(no, NodeNames, ValidIds(g.nodes))
  BY <1>1, FileStarts DEF Started
<1>4. PICK m \in Nat : DOMAIN f = 0 .. m - 1 /\ ValidIds(f) = DOMAIN f
  BY <1>3 DEF Whole, NodesFull, Sound, Typed, IdRange
<1>5. k \in Nat /\ HandlesOK(no, NodeNames, 0 .. k - 1)
  BY <1>1, <1>2, FileAssumption, PositionsAreHandles DEF PositionsOK, ListsOnce
<1>6. 0 .. k - 1 = DOMAIN f
  <2>1. \A i \in 0 .. k - 1 : \E x \in NodeNames : no[x] = i
    BY <1>5 DEF HandlesOK
  <2>2. \A x \in NodeNames : no[x] \in DOMAIN f \cup {NoNode} /\ no[x] \in 0 .. k - 1 \cup {NoNode}
    BY <1>3, <1>4, <1>5 DEF HandlesOK
  <2>3. \A i \in DOMAIN f : \E x \in NodeNames : no[x] = i
    BY <1>3, <1>4 DEF HandlesOK
  <2>4. NoNode \notin 0 .. k - 1 /\ NoNode \notin DOMAIN f
    BY <1>3, <1>4, <1>5 DEF HandlesOK
  <2>. QED
    BY <2>1, <2>2, <2>3, <2>4
<1>7. PICK ids, S, seq : ids = DOMAIN f /\ S = ToSet(File.constraints) /\ seq = File.constraints
  OBVIOUS
<1>8. seq \in Seq(S) /\ NoNode \notin ids /\ \A s \in S : WellFormed(s, ids, NoNode)
  <2>1. NoNode \notin ids
    BY <1>4, <1>7 DEF NoNode
  <2>. QED
    BY <1>2, <1>6, <1>7, <2>1 DEF CanFollow, ToSet
<1>9. ConstraintsOK(constraints_of(seq), ids, ids)
  BY <1>8, StatementsRead
<1>. QED
  BY <1>4, <1>7, <1>9

LEMMA StartOverBooked ==
  ASSUME CanFollow(Settings), StartOver
  PROVE  BookFollowed
<1>1. PICK c, f : c = constraints_of(File.constraints) /\ f = graph_of(File).nodes
  OBVIOUS
<1>2. nodes' = f /\ tc' = c /\ node_of' = Positions(NodeOrder)
  BY <1>1 DEF StartOver
<1>3. ConstraintsOK(c, ValidIds(f), DOMAIN f)
  BY <1>1, FileConstraints
<1>4. ConstraintsInv'
  BY <1>2, <1>3 DEF ConstraintsInv
<1>5. Book!StartOver
  BY <1>1, <1>2 DEF Book!StartOver
<1>. QED
  BY <1>4, <1>5 DEF BookFollowed, Book!Amend

LEMMA BookStarts ==
  ASSUME CanFollow(Settings), SetupInit
  PROVE  ConstraintsInv /\ Book!Init
<1>1. PICK c, f : c = constraints_of(File.constraints) /\ f = graph_of(File).nodes
  OBVIOUS
<1>2. nodes = f /\ tc = c /\ node_of = Positions(NodeOrder)
  BY <1>1 DEF SetupInit
<1>3. ConstraintsOK(c, ValidIds(f), DOMAIN f)
  BY <1>1, FileConstraints
<1>. QED
  BY <1>1, <1>2, <1>3 DEF ConstraintsInv, Book!Init

LEMMA StepsAreBooked ==
  ASSUME CanFollow(Settings), SetupInv, ConstraintsInv, [SetupNext]_setup_vars
  PROVE  IF Echo THEN BookCopied ELSE BookFollowed
<1>. SUFFICES ASSUME ~Echo PROVE BookFollowed
  BY EchoBooked
<1>1. ASSUME NEW s \in Settings, AddStatement(s) PROVE BookFollowed
  BY <1>1, AddStatementBooked
<1>2. ASSUME NEW n \in NodeNames, UnmarkConstantGenerator(n) PROVE BookFollowed
  BY <1>2, UnmarkBooked
<1>3. ASSUME NEW n \in NodeNames, RemoveNode(n) PROVE BookFollowed
  BY <1>3, RemoveNodeBooked
<1>4. ASSUME NEW e \in EdgeNames, ChangeEdge(e) PROVE BookFollowed
  BY <1>4, ChangeEdgeBooked
<1>5. CASE Levelize
  <2>1. nodes' = nodes /\ node_of' = node_of /\ tc' = tc
    BY <1>5 DEF Levelize, levelize, handles
  <2>. QED
    BY <2>1, UnchangedBook
<1>6. CASE CompressAll
  BY <1>6, CompressAllBooked
<1>7. CASE OptimizeAll
  BY <1>7, OptimizeAllBooked
<1>8. CASE StartOver
  BY <1>8, StartOverBooked
<1>9. CASE UNCHANGED setup_vars
  <2>1. nodes' = nodes /\ node_of' = node_of /\ tc' = tc
    BY <1>9 DEF setup_vars, vars, handles
  <2>. QED
    BY <2>1, UnchangedBook
<1>. QED
  BY <1>1, <1>2, <1>3, <1>4, <1>5, <1>6, <1>7, <1>8, <1>9 DEF SetupNext

(***************************************************************************)
(* The constraints stay those of nodes that are in the graph: a constant   *)
(* generator and an I/O constraint are at a valid node, a clock domain has *)
(* one name, and each subject one entry.                                   *)
(***************************************************************************)
THEOREM ConstraintsStaySound ==
  ASSUME CanFollow(Settings)
  PROVE  SetupSpec => []ConstraintsInv
<1>1. SetupInit => ConstraintsInv
  BY BookStarts
<1>2. SetupInv /\ ConstraintsInv /\ [SetupNext]_setup_vars => ConstraintsInv'
  BY StepsAreBooked DEF BookFollowed, BookCopied
<1>. QED
  BY <1>1, <1>2, SetupStaysSound, PTL DEF SetupSpec

(***************************************************************************)
(* Whatever the client sets, renumbers, compresses, writes and loads, what *)
(* it reads of the constraints is what it set, each at the part it set it  *)
(* for; and writing and loading, nothing else, takes from the times the    *)
(* digits that are not printed.                                            *)
(***************************************************************************)
THEOREM SetupKeepsConstraints ==
  ASSUME CanFollow(Settings)
  PROVE  SetupSpec => ClientSeesConstraints
<1>. DEFINE EchoOrNot == IF Echo THEN Book!Transcribe ELSE [Book!Amend]_(BookOf(tc, node_of))
<1>1. SetupInit => Book!Init
  BY BookStarts
<1>2. SetupInv /\ ConstraintsInv /\ [SetupNext]_setup_vars => EchoOrNot
  BY StepsAreBooked DEF BookFollowed, BookCopied
<1>3. EchoOrNot => [Book!Next]_(BookOf(tc, node_of))
  BY DEF Book!Next
<1>4. EchoOrNot => [EchoOrNot]_setup_vars
  OBVIOUS
<1>. QED
  BY <1>1, <1>2, <1>3, <1>4, SetupStaysSound, ConstraintsStaySound, PTL
     DEF SetupSpec, ClientSeesConstraints, Book!Spec

================================================================================
