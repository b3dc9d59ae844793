------------------------ MODULE SerialIncrWalker_proofs ------------------------
(***************************************************************************)
(* Theorems of the incremental walker, for every timing graph, every set   *)
(* of constraints and every delay.  What a visit computes (the operators   *)
(* of AnalysisVisitor) is never expanded: nothing here depends on it.      *)
(***************************************************************************)
EXTENDS SerialIncrWalker, TatumLemmas

(***************************************************************************)
(* The graph                                                               *)
(***************************************************************************)
LEMMA GraphTypes ==
  /\ Nodes \subseteq Nat
  /\ LastLevel \in Nat
  /\ 0 \in Levels /\ LastLevel \in Levels
  /\ \A n \in Nodes : node_level(n) \in Levels
  /\ \A e \in Edges : edge_src_node(e) \in Nodes /\ edge_sink_node(e) \in Nodes
BY TGAssumption
   DEF GraphOK, Levels, node_level, edge_src_node, edge_sink_node

LEMMA EndsOfEdges ==
  ASSUME NEW edges, edges \subseteq Edges
  PROVE  Sources(edges) \subseteq Nodes /\ Sinks(edges) \subseteq Nodes
BY GraphTypes DEF Sources, Sinks

LEMMA NodeEdges ==
  \A n : InEdges(n) \subseteq Edges /\ OutEdges(n) \subseteq Edges
BY DEF InEdges, OutEdges

(***************************************************************************)
(* The queue operations: their types, and that they keep the queues, the   *)
(* enqueued bits and the level range in agreement.                         *)
(***************************************************************************)
LEMMA NewQueueOK == NewQueue \in Queue /\ QueueOK(NewQueue)
BY GraphTypes DEF NewQueue, Queue, QueueOK

LEMMA ClearQueueOK ==
  ASSUME NEW q \in Queue
  PROVE  /\ ClearQueue(q) \in Queue
         /\ QueueOK(q) => QueueOK(ClearQueue(q))
<1>1. ClearQueue(q) \in Queue
  BY GraphTypes DEF ClearQueue, Queue
<1>2. ASSUME QueueOK(q), NEW l \in Levels
      PROVE  ClearQueue(q).nodes[l] = {}
  <2>1. CASE l \in q.min .. q.max
    BY <2>1 DEF ClearQueue
  <2>2. CASE l \notin q.min .. q.max
    <3>1. ClearQueue(q).nodes[l] = q.nodes[l]
      BY <2>2 DEF ClearQueue
    <3>2. \A n \in q.enqueued : node_level(n) # l
      BY <1>2, <2>2, GraphTypes DEF QueueOK, Queue, Levels
    <3>. QED
      BY <3>1, <3>2, <1>2 DEF QueueOK
  <2>. QED
    BY <2>1, <2>2
<1>3. ClearQueue(q).enqueued = {}
  BY DEF ClearQueue
<1>. QED
  BY <1>1, <1>2, <1>3 DEF QueueOK

LEMMA EnqueueNodesOK ==
  ASSUME NEW q \in Queue, NEW nodes, nodes \subseteq Nodes
  PROVE  /\ EnqueueNodes(q, nodes) \in Queue
         /\ QueueOK(q) => QueueOK(EnqueueNodes(q, nodes))
<1>. DEFINE new    == nodes \ q.enqueued
            levels == {node_level(n) : n \in new}
            next   == EnqueueNodes(q, nodes)
<1>0. /\ next.nodes = [l \in Levels |-> q.nodes[l] \cup {n \in new : node_level(n) = l}]
      /\ next.enqueued = q.enqueued \cup new
      /\ next.min = Min(levels \cup {q.min})
      /\ next.max = Max(levels \cup {q.max})
      /\ next = [nodes |-> next.nodes, enqueued |-> next.enqueued,
                 min |-> next.min, max |-> next.max]
  BY DEF EnqueueNodes
<1>1. /\ levels \subseteq Levels
      /\ q.min \in Levels /\ q.max \in Levels
      /\ q.enqueued \subseteq Nodes
      /\ q.nodes \in [Levels -> SUBSET Nodes]
  BY GraphTypes DEF Queue
<1>2. /\ next.min \in levels \cup {q.min}
      /\ \A y \in levels \cup {q.min} : next.min <= y
  <2>1. levels \cup {q.min} \subseteq Nat
    <3>1. Levels \subseteq Nat
      BY GraphTypes DEF Levels
    <3>. HIDE DEF levels
    <3>. QED
      BY <1>1, <3>1
  <2>. QED
    BY <2>1, <1>0, MinOfNaturals
<1>3. /\ next.max \in levels \cup {q.max}
      /\ \A y \in levels \cup {q.max} : y <= next.max
  <2>1. levels \cup {q.max} \subseteq 0 .. LastLevel
    <3>. HIDE DEF levels
    <3>. QED
      BY <1>1 DEF Levels
  <2>2. LastLevel \in Nat /\ levels \cup {q.max} # {}
    BY GraphTypes
  <2>3. /\ Max(levels \cup {q.max}) \in levels \cup {q.max}
        /\ \A y \in levels \cup {q.max} : y <= Max(levels \cup {q.max})
    BY <2>1, <2>2, MaxOfNaturals, Zenon
  <2>. QED
    BY <2>3, <1>0, Zenon
<1>4. next \in Queue
  <2>1. next.nodes \in [Levels -> SUBSET Nodes]
    BY <1>0, <1>1
  <2>2. next.enqueued \in SUBSET Nodes
    BY <1>0, <1>1
  <2>3. next.min \in Levels /\ next.max \in Levels
    BY <1>1, <1>2, <1>3
  <2>. QED
    BY <2>1, <2>2, <2>3, <1>0 DEF Queue
<1>5. ASSUME QueueOK(q) PROVE QueueOK(next)
  <2>1. ASSUME NEW l \in Levels
        PROVE  next.nodes[l] = {n \in next.enqueued : node_level(n) = l}
    <3>1. q.nodes[l] = {n \in q.enqueued : node_level(n) = l}
      BY <1>5 DEF QueueOK
    <3>2. next.nodes[l] = q.nodes[l] \cup {n \in new : node_level(n) = l}
      BY <1>0
    <3>. QED
      BY <3>1, <3>2, <1>0, Zenon
  <2>2. ASSUME NEW n \in next.enqueued
        PROVE  next.min <= node_level(n) /\ node_level(n) <= next.max
    <3>1. CASE n \in new
      BY <3>1, <1>2, <1>3
    <3>2. CASE n \in q.enqueued
      <4>1. q.min <= node_level(n) /\ node_level(n) <= q.max
        BY <3>2, <1>5 DEF QueueOK
      <4>2. next.min <= q.min /\ q.max <= next.max
        BY <1>2, <1>3
      <4>3. /\ node_level(n) \in Int /\ next.min \in Int /\ next.max \in Int
            /\ q.min \in Int /\ q.max \in Int
        BY <3>2, <1>1, <1>2, <1>3, GraphTypes DEF Levels
      <4>. QED
        BY <4>1, <4>2, <4>3
    <3>. QED
      BY <3>1, <3>2, <1>0
  <2>. QED
    BY <2>1, <2>2 DEF QueueOK
<1>. QED
  BY <1>4, <1>5

(***************************************************************************)
(* The inductive invariant: the types, the agreement of the queues, and    *)
(* the nodes left to visit being of the level under way.  The last needs   *)
(* the second, a level's queue holding nodes of that level alone; the      *)
(* second needs the first.                                                 *)
(***************************************************************************)
WalkerInv == TypeOK /\ QueuesOK /\ TodoOnLevel

LEMMA WalkerInvInit == Init => WalkerInv
<1>. SUFFICES ASSUME Init PROVE WalkerInv
  OBVIOUS
<1>1. TypeOK
  BY GraphTypes, NewQueueOK, WalkerAssumption DEF Init, TypeOK, Phases
<1>2. QueuesOK
  BY NewQueueOK DEF Init, QueuesOK
<1>3. TodoOnLevel
  BY DEF Init, TodoOnLevel
<1>. QED
  BY <1>1, <1>2, <1>3 DEF WalkerInv

(***************************************************************************)
(* The nodes taken from a queue's level are nodes of that level.           *)
(***************************************************************************)
LEMMA LevelTodoOK ==
  ASSUME NEW q \in Queue, QueueOK(q), NEW l \in Levels
  PROVE  /\ q.nodes[l] \subseteq Nodes
         /\ LevelTodo(q, l) \subseteq q.nodes[l]
         /\ \A n \in q.nodes[l] : node_level(n) = l
BY DEF Queue, QueueOK, LevelTodo

(***************************************************************************)
(* The queues after an update or a visit.                                  *)
(***************************************************************************)
LEMMA PreparedQueuesOK ==
  ASSUME TypeOK, QueuesOK, NEW edges, edges \subseteq Edges, prepare_incr_update(edges)
  PROVE  /\ arr' \in Queue /\ req' \in Queue /\ modified' \subseteq Nodes
         /\ QueuesOK'
<1>1. /\ ClearQueue(arr) \in Queue /\ QueueOK(ClearQueue(arr))
      /\ ClearQueue(req) \in Queue /\ QueueOK(ClearQueue(req))
  BY ClearQueueOK DEF TypeOK, QueuesOK
<1>2. /\ arr' \in Queue /\ QueueOK(arr')
      /\ req' \in Queue /\ QueueOK(req')
  BY <1>1, EnqueueNodesOK, EndsOfEdges DEF prepare_incr_update
<1>. QED
  BY <1>2 DEF prepare_incr_update, QueuesOK, QueueOK

(***************************************************************************)
(* What a visit does to the walker's own state, whatever it computes: it   *)
(* may invalidate in-edges of the node and enqueue their sources for       *)
(* required times, and out-edges and enqueue their sinks for arrivals.     *)
(***************************************************************************)
LEMMA ArrivalVisitEffect ==
  ASSUME ArrivalVisit
  PROVE  \E backward \in SUBSET InEdges(Min(todo)), forward \in SUBSET OutEdges(Min(todo)) :
           /\ modified' \subseteq modified \cup {Min(todo)}
           /\ invalidated' = invalidated \cup backward \cup forward
           /\ arr' = EnqueueNodes(arr, Sinks(forward))
           /\ req' = EnqueueNodes(req, Sources(backward))
           /\ todo' = todo \ {Min(todo)}
<1>. DEFINE n     == Min(todo)
            edges == ResetInEdges(n)
            visit == [m \in active |->
                        do_arrival_traverse_node(m, delay, tags[m], n,
                          invalidate_node_for_arrival_traversal(m, tags[m][n], edges))]
            backward == IF \E e \in edges : IsCapture(e) THEN InEdges(n) ELSE {}
            forward  == IF Updated(visit) THEN OutEdges(n) ELSE {}
<1>1. /\ modified' = modified \cup (IF Updated(visit) THEN {n} ELSE {})
      /\ invalidated' = invalidated \cup backward \cup forward
      /\ arr' = EnqueueNodes(arr, Sinks(forward))
      /\ req' = EnqueueNodes(req, Sources(backward))
      /\ todo' = todo \ {n}
  BY Zenon DEF ArrivalVisit
<1>2. backward \in SUBSET InEdges(n) /\ forward \in SUBSET OutEdges(n)
  BY Zenon
<1>. HIDE DEF n, visit, backward, forward
<1>3. modified' \subseteq modified \cup {n}
  BY <1>1
<1>4. \E b \in SUBSET InEdges(n), f \in SUBSET OutEdges(n) :
        /\ modified' \subseteq modified \cup {n}
        /\ invalidated' = invalidated \cup b \cup f
        /\ arr' = EnqueueNodes(arr, Sinks(f))
        /\ req' = EnqueueNodes(req, Sources(b))
        /\ todo' = todo \ {n}
  BY <1>1, <1>2, <1>3, Zenon
<1>. QED
  BY <1>4, Zenon DEF n

LEMMA RequiredVisitEffect ==
  ASSUME RequiredVisit
  PROVE  \E backward \in SUBSET InEdges(Min(todo)) :
           /\ modified' \subseteq modified \cup {Min(todo)}
           /\ invalidated' = invalidated \cup backward
           /\ req' = EnqueueNodes(req, Sources(backward))
           /\ todo' = todo \ {Min(todo)}
BY Zenon DEF RequiredVisit

(***************************************************************************)
(* Every step keeps the invariant.                                         *)
(***************************************************************************)
LEMMA WalkerInvStep == WalkerInv /\ [Next]_vars => WalkerInv'
<1>. SUFFICES ASSUME WalkerInv, [Next]_vars PROVE WalkerInv'
  OBVIOUS
<1>. USE DEF WalkerInv
<1>1. ASSUME NEW e \in Edges, NEW d \in DelayChoices[e], invalidate_edge(e, d)
      PROVE  WalkerInv'
  <2>1. TypeOK'
    BY <1>1, WalkerAssumption DEF invalidate_edge, TypeOK, queues, control, results
  <2>2. QueuesOK'
    BY <1>1 DEF invalidate_edge, QueuesOK, QueueOK, queues
  <2>3. TodoOnLevel'
    BY <1>1 DEF invalidate_edge, TodoOnLevel, control
  <2>. QED
    BY <2>1, <2>2, <2>3
<1>2. ASSUME NEW ms \in {Modes} \cup {{m} : m \in Modes}, update_timing(ms)
      PROVE  WalkerInv'
  <2>1. invalidated' \subseteq Edges
    BY <1>2 DEF update_timing, TypeOK
  <2>2. /\ arr' \in Queue /\ req' \in Queue /\ modified' \subseteq Nodes
        /\ QueuesOK'
    BY <1>2, <2>1, PreparedQueuesOK DEF update_timing
  <2>3. /\ arr'.min \in Levels
        /\ QueueOK(arr')
    BY <2>2 DEF Queue, QueuesOK, QueueOK
  <2>4. /\ todo' \subseteq Nodes
        /\ \A n \in todo' : node_level(n) = level'
    BY <1>2, <2>2, <2>3, LevelTodoOK DEF update_timing, StartArrivalTraversal
  <2>5. TypeOK'
    BY <1>2, <2>1, <2>2, <2>3, <2>4, WalkerAssumption
       DEF update_timing, StartArrivalTraversal, TypeOK, Phases
  <2>. QED
    BY <2>2, <2>4, <2>5 DEF TodoOnLevel
<1>3. CASE ArrivalVisit
  <2>. DEFINE n == Min(todo)
  <2>1. n \in todo /\ n \in Nodes
    BY <1>3, GraphTypes, MinOfNaturals DEF ArrivalVisit, TypeOK
  <2>2. PICK backward \in SUBSET Edges, forward \in SUBSET Edges :
          /\ modified' \subseteq modified \cup {n}
          /\ invalidated' = invalidated \cup backward \cup forward
          /\ arr' = EnqueueNodes(arr, Sinks(forward))
          /\ req' = EnqueueNodes(req, Sources(backward))
          /\ todo' = todo \ {n}
    BY <1>3, ArrivalVisitEffect, NodeEdges, Zenon
  <2>3. /\ arr' \in Queue /\ req' \in Queue
        /\ QueuesOK'
    BY <2>2, EnqueueNodesOK, EndsOfEdges DEF TypeOK, QueuesOK, QueueOK
  <2>4. TypeOK'
    BY <1>3, <2>1, <2>2, <2>3 DEF ArrivalVisit, TypeOK, client
  <2>5. TodoOnLevel'
    BY <1>3, <2>2 DEF ArrivalVisit, TodoOnLevel
  <2>. QED
    BY <2>3, <2>4, <2>5
<1>4. CASE ArrivalNextLevel
  <2>1. level + 1 \in Levels
    BY <1>4, GraphTypes DEF ArrivalNextLevel, TypeOK, Queue, Levels
  <2>2. todo' \subseteq Nodes /\ \A n \in todo' : node_level(n) = level'
    BY <1>4, <2>1, LevelTodoOK DEF ArrivalNextLevel, TypeOK, QueuesOK
  <2>3. TypeOK'
    BY <1>4, <2>1, <2>2 DEF ArrivalNextLevel, TypeOK, client, queues
  <2>. QED
    BY <1>4, <2>2, <2>3 DEF ArrivalNextLevel, QueuesOK, QueueOK, TodoOnLevel, queues
<1>5. CASE ArrivalDone
  <2>1. req.max \in Levels
    BY DEF TypeOK, Queue
  <2>2. todo' \subseteq Nodes /\ \A n \in todo' : node_level(n) = level'
    BY <1>5, <2>1, LevelTodoOK DEF ArrivalDone, TypeOK, QueuesOK
  <2>3. TypeOK'
    BY <1>5, <2>1, <2>2 DEF ArrivalDone, TypeOK, Phases, client, queues
  <2>. QED
    BY <1>5, <2>2, <2>3 DEF ArrivalDone, QueuesOK, QueueOK, TodoOnLevel, queues
<1>6. CASE RequiredVisit
  <2>. DEFINE n == Min(todo)
  <2>1. n \in todo /\ n \in Nodes
    BY <1>6, GraphTypes, MinOfNaturals DEF RequiredVisit, TypeOK
  <2>2. PICK backward \in SUBSET Edges :
          /\ modified' \subseteq modified \cup {n}
          /\ invalidated' = invalidated \cup backward
          /\ req' = EnqueueNodes(req, Sources(backward))
          /\ todo' = todo \ {n}
    BY <1>6, RequiredVisitEffect, NodeEdges, Zenon
  <2>3. /\ arr' \in Queue /\ req' \in Queue
        /\ QueuesOK'
    BY <1>6, <2>2, EnqueueNodesOK, EndsOfEdges
       DEF RequiredVisit, TypeOK, QueuesOK, QueueOK
  <2>4. TypeOK'
    BY <1>6, <2>1, <2>2, <2>3 DEF RequiredVisit, TypeOK, client
  <2>5. TodoOnLevel'
    BY <1>6, <2>2 DEF RequiredVisit, TodoOnLevel
  <2>. QED
    BY <2>3, <2>4, <2>5
<1>7. CASE RequiredNextLevel
  <2>1. level - 1 \in Levels
    BY <1>7, GraphTypes DEF RequiredNextLevel, TypeOK, Queue, Levels
  <2>2. todo' \subseteq Nodes /\ \A n \in todo' : node_level(n) = level'
    BY <1>7, <2>1, LevelTodoOK DEF RequiredNextLevel, TypeOK, QueuesOK
  <2>3. TypeOK'
    BY <1>7, <2>1, <2>2 DEF RequiredNextLevel, TypeOK, client, queues
  <2>. QED
    BY <1>7, <2>2, <2>3 DEF RequiredNextLevel, QueuesOK, QueueOK, TodoOnLevel, queues
<1>8. CASE RequiredDone
  <2>1. TypeOK'
    BY <1>8 DEF RequiredDone, TypeOK, Phases, client, queues
  <2>. QED
    BY <1>8, <2>1 DEF RequiredDone, QueuesOK, QueueOK, TodoOnLevel, queues
<1>9. CASE do_update_slack
  <2>1. TypeOK'
    BY <1>9 DEF do_update_slack, TypeOK, Phases, client, queues
  <2>. QED
    BY <1>9, <2>1 DEF do_update_slack, QueuesOK, QueueOK, TodoOnLevel, queues
<1>10. CASE UNCHANGED vars
  <2>1. TypeOK'
    BY <1>10 DEF TypeOK, vars, client, queues, control
  <2>. QED
    BY <1>10, <2>1 DEF QueuesOK, QueueOK, TodoOnLevel, vars, queues, control
<1>. QED
  BY <1>1, <1>2, <1>3, <1>4, <1>5, <1>6, <1>7, <1>8, <1>9, <1>10
     DEF Next, Client, Walk

LEMMA WalkerInvariant == Spec => []WalkerInv
BY WalkerInvInit, WalkerInvStep, PTL DEF Spec

(***************************************************************************)
(* Type correctness: in every reachable state the walker's level index and *)
(* both ends of each queue's range name levels of the graph, so that       *)
(* nodes_to_process is never read out of range (SerialIncrWalker.hpp).     *)
(***************************************************************************)
THEOREM TypeCorrect == Spec => []TypeOK
<1>1. WalkerInv => TypeOK
  BY DEF WalkerInv
<1>. QED
  BY <1>1, WalkerInvariant, PTL

(***************************************************************************)
(* The per-level queues of t_incr_traversal_update, its enqueued bits and  *)
(* its level range always agree: clear() leaves no node behind and no      *)
(* enqueued node is outside the range the traversal walks.                 *)
(***************************************************************************)
THEOREM QueuesAlwaysAgree == Spec => []QueuesOK
<1>1. WalkerInv => QueuesOK
  BY DEF WalkerInv
<1>. QED
  BY <1>1, WalkerInvariant, PTL

(***************************************************************************)
(* Enqueueing nodes that are not on level l leaves the queue of l alone,   *)
(* and enqueues no other node than those given.                            *)
(***************************************************************************)
LEMMA EnqueueElsewhere ==
  ASSUME NEW q \in Queue, NEW nodes, NEW l \in Levels,
         \A n \in nodes : node_level(n) # l
  PROVE  EnqueueNodes(q, nodes).nodes[l] = q.nodes[l]
<1>. DEFINE new == nodes \ q.enqueued
<1>1. EnqueueNodes(q, nodes).nodes[l] = q.nodes[l] \cup {n \in new : node_level(n) = l}
  BY DEF EnqueueNodes
<1>2. {n \in new : node_level(n) = l} = {}
  OBVIOUS
<1>. QED
  BY <1>1, <1>2

LEMMA EnqueuedOnlyGiven ==
  ASSUME NEW q, NEW nodes
  PROVE  EnqueueNodes(q, nodes).enqueued \ q.enqueued \subseteq nodes
BY DEF EnqueueNodes

(***************************************************************************)
(* Where every edge leads to a later level, a visit of a node of the level *)
(* under way enqueues for arrivals at later levels, for required times at  *)
(* earlier ones.                                                           *)
(***************************************************************************)
LEMMA ForwardIsLater ==
  ASSUME LevelsIncrease, NEW n \in Nodes,
         NEW edges \in SUBSET OutEdges(n), NEW k \in Sinks(edges)
  PROVE  node_level(k) > node_level(n)
<1>1. PICK e \in edges : k = edge_sink_node(e)
  BY DEF Sinks
<1>2. e \in Edges /\ edge_src_node(e) = n
  BY DEF OutEdges
<1>3. node_level(n) < node_level(k)
  BY <1>1, <1>2 DEF LevelsIncrease
<1>. QED
  BY <1>1, <1>2, <1>3, GraphTypes DEF Levels

LEMMA BackwardIsEarlier ==
  ASSUME LevelsIncrease, NEW n \in Nodes,
         NEW edges \in SUBSET InEdges(n), NEW k \in Sources(edges)
  PROVE  node_level(k) < node_level(n)
<1>1. PICK e \in edges : k = edge_src_node(e)
  BY DEF Sources
<1>2. e \in Edges /\ edge_sink_node(e) = n
  BY DEF InEdges
<1>. QED
  BY <1>1, <1>2 DEF LevelsIncrease

(***************************************************************************)
(* The node a visit is of.                                                 *)
(***************************************************************************)
LEMMA VisitedNode ==
  ASSUME WalkerInv, todo # {}, phase \in {"arrival", "required"}
  PROVE  /\ Min(todo) \in Nodes
         /\ node_level(Min(todo)) = level
<1>1. Min(todo) \in todo
  BY GraphTypes, MinOfNaturals DEF WalkerInv, TypeOK
<1>. QED
  BY <1>1 DEF WalkerInv, TypeOK, TodoOnLevel

(***************************************************************************)
(* The steps that are not visits change no queue but at the start of an    *)
(* update.                                                                 *)
(***************************************************************************)
LEMMA OnlyVisitsEnqueue ==
  ASSUME [Next]_vars, phase # "idle"
  PROVE  ArrivalVisit \/ RequiredVisit \/ UNCHANGED queues
BY DEF Next, Client, Walk, invalidate_edge, update_timing, ArrivalNextLevel,
       ArrivalDone, RequiredNextLevel, RequiredDone, do_update_slack, vars

(***************************************************************************)
(* On every graph whose edges all lead to later levels (one without        *)
(* disabled edges, or whose disabled edges break no loop), no node is ever *)
(* enqueued where the traversal has already been: every node enqueued by   *)
(* do_arrival_traversal_impl or do_required_traversal_impl is still        *)
(* visited in this update.                                                 *)
(***************************************************************************)
THEOREM EnqueuesOnlyAhead ==
  ASSUME LevelsIncrease
  PROVE  Spec => NoEnqueueBehindCursor
<1>1. WalkerInv /\ [Next]_vars => [EnqueuesAhead]_vars
  <2>. SUFFICES ASSUME WalkerInv, [Next]_vars PROVE EnqueuesAhead
    OBVIOUS
  <2>1. CASE phase = "idle"
    BY <2>1 DEF EnqueuesAhead
  <2>2. CASE phase # "idle" /\ UNCHANGED queues
    BY <2>2 DEF EnqueuesAhead, queues
  <2>3. CASE ArrivalVisit
    <3>1. PICK forward \in SUBSET OutEdges(Min(todo)) :
            arr' = EnqueueNodes(arr, Sinks(forward))
      BY <2>3, ArrivalVisitEffect, Zenon
    <3>2. phase = "arrival" /\ Min(todo) \in Nodes /\ node_level(Min(todo)) = level
      BY <2>3, VisitedNode DEF ArrivalVisit
    <3>3. \A n \in Sinks(forward) : node_level(n) > level
      BY <3>2, ForwardIsLater
    <3>4. \A n \in arr'.enqueued \ arr.enqueued : node_level(n) > level
      BY <3>1, <3>3, EnqueuedOnlyGiven
    <3>. QED
      BY <3>2, <3>4 DEF EnqueuesAhead
  <2>4. CASE RequiredVisit
    <3>1. PICK backward \in SUBSET InEdges(Min(todo)) :
            req' = EnqueueNodes(req, Sources(backward))
      BY <2>4, RequiredVisitEffect, Zenon
    <3>2. phase = "required" /\ Min(todo) \in Nodes /\ node_level(Min(todo)) = level
      BY <2>4, VisitedNode DEF RequiredVisit
    <3>3. \A n \in Sources(backward) : node_level(n) < level
      BY <3>2, BackwardIsEarlier
    <3>4. \A n \in req'.enqueued \ req.enqueued : node_level(n) < level
      BY <3>1, <3>3, EnqueuedOnlyGiven
    <3>. QED
      BY <2>4, <3>2, <3>4 DEF EnqueuesAhead, RequiredVisit
  <2>. QED
    BY <2>1, <2>2, <2>3, <2>4, OnlyVisitsEnqueue
<1>. QED
  BY <1>1, WalkerInvariant, PTL DEF Spec, NoEnqueueBehindCursor

(***************************************************************************)
(* On the same graphs the vector an arrival level iterates over never      *)
(* grows while it is iterated: the pushes in do_arrival_traversal_impl go  *)
(* to other vectors.                                                       *)
(***************************************************************************)
THEOREM IteratedLevelNeverGrows ==
  ASSUME LevelsIncrease
  PROVE  Spec => IteratedLevelFixed
<1>1. WalkerInv /\ [Next]_vars
        => [phase = "arrival" => arr'.nodes[level] = arr.nodes[level]]_vars
  <2>. SUFFICES ASSUME WalkerInv, [Next]_vars, phase = "arrival"
                PROVE  arr'.nodes[level] = arr.nodes[level]
    OBVIOUS
  <2>1. CASE UNCHANGED queues
    BY <2>1 DEF queues
  <2>2. CASE ArrivalVisit
    <3>1. PICK forward \in SUBSET OutEdges(Min(todo)) :
            arr' = EnqueueNodes(arr, Sinks(forward))
      BY <2>2, ArrivalVisitEffect, Zenon
    <3>2. Min(todo) \in Nodes /\ node_level(Min(todo)) = level
      BY <2>2, VisitedNode DEF ArrivalVisit
    <3>3. arr \in Queue /\ level \in Levels
      BY DEF WalkerInv, TypeOK
    <3>4. \A n \in Sinks(forward) : node_level(n) # level
      <4>1. \A n \in Sinks(forward) : node_level(n) > level
        BY <3>2, ForwardIsLater
      <4>. QED
        BY <4>1, <3>3, GraphTypes DEF Levels
    <3>. QED
      BY <3>1, <3>3, <3>4, EnqueueElsewhere
  <2>3. ~RequiredVisit
    BY DEF RequiredVisit
  <2>. QED
    BY <2>1, <2>2, <2>3, OnlyVisitsEnqueue
<1>. QED
  BY <1>1, WalkerInvariant, PTL DEF Spec, IteratedLevelFixed
================================================================================
