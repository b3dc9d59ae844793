--------------------------- MODULE SerialIncrWalker ---------------------------
(***************************************************************************)
(* The incremental analysis: SerialIncrWalker driven by the Incr*Timing-   *)
(* Analyzers.  The client changes edge delays and invalidates the edges;   *)
(* an update re-evaluates only the nodes the invalidated edges lead to,    *)
(* forwards for arrivals, backwards for required times, following the      *)
(* changes it meets.  One action visits one node of one traversal.         *)
(***************************************************************************)
EXTENDS AnalysisVisitor

CONSTANTS Modes,           \* the analyses kept: {"setup"}, {"hold"} or both
          DelayChoices,    \* DelayChoices[e]: the delays the client may give edge e
          InitialDelay,    \* the delays of the edges at construction
          MaxChanges       \* bound: client changes between two updates

ASSUME WalkerAssumption ==
  /\ Modes \subseteq AnalysisModes /\ Modes # {}
  /\ DOMAIN InitialDelay = Edges
  /\ \A e \in Edges : InitialDelay[e] \in DelayChoices[e]
  /\ MaxChanges \in Nat

VARIABLES
  delay,          \* what the delay calculator answers
  invalidated,    \* invalidated_edges_ and edge_invalidated_, which agree
  arr, req,       \* incr_arr_update_, incr_req_update_
  modified,       \* nodes_modified_ and node_is_modified_, which agree
  phase,          \* where the update is: "idle" between updates
  level,          \* level_idx of the traversal under way
  todo,           \* the nodes of that level not visited yet
  active,         \* the modes the update under way was asked for
  never_updated,  \* never_updated_ of the analyzer
  tags, slacks,   \* tags[m][n], slacks[m][n]: the visitors' results
  unconstrained,  \* num_unconstrained_startpoints_ and _endpoints_
  changes         \* client changes since the last update

client  == <<delay, changes>>
queues  == <<arr, req>>
control == <<phase, level, todo, active, never_updated>>
results == <<tags, slacks, unconstrained>>
vars    == <<client, invalidated, queues, modified, control, results>>

(***************************************************************************)
(* t_incr_traversal_update: per level the nodes to process, the set of     *)
(* nodes ever enqueued in this update, and the level range.  A node is     *)
(* enqueued once: its bit stays set after its visit.                       *)
(***************************************************************************)
NewQueue == [nodes |-> [l \in Levels |-> {}], enqueued |-> {}, min |-> 0, max |-> 0]

\* Mutant: the level count for the last level's index.
ClearQueue_Size(q) ==
  [nodes    |-> [l \in Levels |-> IF l \in q.min .. q.max THEN {} ELSE q.nodes[l]],
   enqueued |-> {},
   min      |-> LastLevel + 1,
   max      |-> 0]

\* Mutant: the enqueued bits survive.
ClearQueue_KeepsBits(q) ==
  [nodes    |-> [l \in Levels |-> IF l \in q.min .. q.max THEN {} ELSE q.nodes[l]],
   enqueued |-> q.enqueued,
   min      |-> LastLevel,
   max      |-> 0]

ClearQueue(q) ==
  [nodes    |-> [l \in Levels |-> IF l \in q.min .. q.max THEN {} ELSE q.nodes[l]],
   enqueued |-> {},
   min      |-> LastLevel,
   max      |-> 0]

\* Mutant: the lower end of the level range does not follow.
EnqueueNodes_KeepsMin(q, nodes) ==
  LET new    == nodes \ q.enqueued
      levels == {node_level(n) : n \in new}
  IN  [nodes    |-> [l \in Levels |-> q.nodes[l] \cup {n \in new : node_level(n) = l}],
       enqueued |-> q.enqueued \cup new,
       min      |-> q.min,
       max      |-> Max(levels \cup {q.max})]

EnqueueNodes(q, nodes) ==
  LET new    == nodes \ q.enqueued
      levels == {node_level(n) : n \in new}
  IN  [nodes    |-> [l \in Levels |-> q.nodes[l] \cup {n \in new : node_level(n) = l}],
       enqueued |-> q.enqueued \cup new,
       min      |-> Min(levels \cup {q.min}),
       max      |-> Max(levels \cup {q.max})]

Sources(edges) == {edge_src_node(e) : e \in edges}
Sinks(edges)   == {edge_sink_node(e) : e \in edges}

LevelTodo(q, l) == IF q.min <= q.max THEN q.nodes[l] ELSE {}

Init ==
  /\ delay = InitialDelay
  /\ changes = 0
  /\ invalidated = {}
  /\ arr = NewQueue /\ req = NewQueue
  /\ modified = {}
  /\ phase = "idle" /\ level = 0 /\ todo = {} /\ active = {}
  /\ never_updated = TRUE
  /\ tags   = [m \in Modes |-> [n \in Nodes |-> NoTags]]
  /\ slacks = [m \in Modes |-> [n \in Nodes |-> <<>>]]
  /\ unconstrained = [startpoints |-> 0, endpoints |-> 0]

(***************************************************************************)
(* The client sets the delay of an edge and invalidates the edge.          *)
(***************************************************************************)
invalidate_edge(e, d) ==
  /\ phase = "idle"
  /\ changes < MaxChanges
  /\ changes' = changes + 1
  /\ delay' = [delay EXCEPT ![e] = d]
  /\ invalidated' = invalidated \cup {e}
  /\ UNCHANGED <<queues, modified, control, results>>

(***************************************************************************)
(* update_timing (ms = Modes), update_setup_timing and update_hold_timing  *)
(* up to the first arrival level.  The first update must be of all modes:  *)
(* it invalidates every edge and seeds the start points.                   *)
(***************************************************************************)
PreTraversed(m, n) ==
  IF n \in level_nodes(0) THEN do_arrival_pre_traverse_node(m, tags[m][n], n)
                          ELSE [tags |-> tags[m][n], constrained |-> TRUE]

do_arrival_pre_traversal ==
  /\ tags' = [m \in Modes |-> [n \in Nodes |-> PreTraversed(m, n).tags]]
  /\ unconstrained' = [unconstrained EXCEPT !.startpoints =
       Cardinality({n \in level_nodes(0) : \A m \in Modes : ~PreTraversed(m, n).constrained})]

prepare_incr_update(edges) ==
  /\ modified' = {}
  /\ arr' = EnqueueNodes(ClearQueue(arr), Sinks(edges))
  /\ req' = EnqueueNodes(ClearQueue(req), Sources(edges))

StartArrivalTraversal ==
  /\ phase' = "arrival"
  /\ level' = arr'.min
  /\ todo' = LevelTodo(arr', arr'.min)

update_timing(ms) ==
  /\ phase = "idle"
  /\ never_updated => ms = Modes
  /\ active' = ms
  /\ changes' = 0
  /\ IF never_updated
     THEN /\ invalidated' = Edges
          /\ do_arrival_pre_traversal
     ELSE UNCHANGED <<invalidated, tags, unconstrained>>
  /\ prepare_incr_update(invalidated')
  /\ StartArrivalTraversal
  /\ UNCHANGED <<delay, slacks, never_updated>>

(***************************************************************************)
(* invalidate_node_for_arrival_traversal: the tags that came over an       *)
(* invalidated in-edge are reset.  Over a capture edge, the required tags  *)
(* are reset too, and every source of the SINK is enqueued for the         *)
(* required traversal, which invalidates all its in-edges: those that      *)
(* follow the capture edge are then found invalidated by this very loop.   *)
(* Over a launch edge, all arrival tags are reset.                         *)
(***************************************************************************)
IsCapture(e) == edge_type(e) = "PRIMITIVE_CLOCK_CAPTURE"
IsLaunch(e)  == edge_type(e) = "PRIMITIVE_CLOCK_LAUNCH"

ResetInEdges(n) ==
  LET in    == node_in_edges(n)
      first == SelectInSeq(in, LAMBDA e : e \in invalidated /\ IsCapture(e))
  IN  {in[i] : i \in {j \in DOMAIN in : in[j] \in invalidated \/ (first # 0 /\ j > first)}}

\* Mutant: required times survive a change of the capture clock.
invalidate_node_for_arrival_traversal_KeepsRequired(m, own, edges) ==
  IF \E e \in edges : IsLaunch(e)
  THEN do_reset_node_arrival_tags(m, own)
  ELSE do_reset_node_arrival_tags_from_origin(m, own, Sources(edges))

invalidate_node_for_arrival_traversal(m, own, edges) ==
  LET required == IF \E e \in edges : IsCapture(e)
                  THEN do_reset_node_required_tags(m, own) ELSE own
  IN  IF \E e \in edges : IsLaunch(e)
      THEN do_reset_node_arrival_tags(m, required)
      ELSE do_reset_node_arrival_tags_from_origin(m, required, Sources(edges))

(***************************************************************************)
(* Storing a visit of n: each active mode's container, and whether any of  *)
(* the visitors modified it.                                               *)
(***************************************************************************)
StoreTags(n, visit) ==
  tags' = [m \in Modes |-> IF m \in active THEN [tags[m] EXCEPT ![n] = visit[m].tags]
                                           ELSE tags[m]]

Updated(visit) == \E m \in active : visit[m].modified

(***************************************************************************)
(* One node of do_arrival_traversal_impl.  Nodes of a level are visited in *)
(* id order.  todo is the level as it was when its loop began: a node      *)
(* pushed onto it meanwhile (possible over a disabled edge alone) is not   *)
(* visited, one of the outcomes of growing a vector under iteration.       *)
(***************************************************************************)
ArrivalVisit ==
  /\ phase = "arrival"
  /\ todo # {}
  /\ LET n     == Min(todo)
         edges == ResetInEdges(n)
         visit == [m \in active |->
                     do_arrival_traverse_node(m, delay, tags[m], n,
                       invalidate_node_for_arrival_traversal(m, tags[m][n], edges))]
         backward == IF \E e \in edges : IsCapture(e) THEN InEdges(n) ELSE {}
         forward  == IF Updated(visit) THEN OutEdges(n) ELSE {}
     IN  /\ StoreTags(n, visit)
         /\ modified' = modified \cup (IF Updated(visit) THEN {n} ELSE {})
         /\ invalidated' = invalidated \cup backward \cup forward
         /\ arr' = EnqueueNodes(arr, Sinks(forward))
         /\ req' = EnqueueNodes(req, Sources(backward))
         /\ todo' = todo \ {n}
  /\ UNCHANGED <<client, phase, level, active, never_updated, slacks, unconstrained>>

\* Mutant: the level is advanced after its nodes are taken.
ArrivalNextLevel_Late ==
  /\ phase = "arrival"
  /\ todo = {}
  /\ level < arr.max
  /\ level' = level + 1
  /\ todo' = arr.nodes[level]
  /\ UNCHANGED <<client, invalidated, queues, modified, phase, active, never_updated, results>>

ArrivalNextLevel ==
  /\ phase = "arrival"
  /\ todo = {}
  /\ level < arr.max
  /\ level' = level + 1
  /\ todo' = arr.nodes[level + 1]
  /\ UNCHANGED <<client, invalidated, queues, modified, phase, active, never_updated, results>>

(***************************************************************************)
(* The end of the arrival traversal: on the first update, counting the     *)
(* unconstrained end points; then the first level of the required          *)
(* traversal.                                                              *)
(***************************************************************************)
do_required_pre_traversal ==
  unconstrained' = [unconstrained EXCEPT !.endpoints =
    Cardinality({n \in logical_outputs :
                   \A m \in active : ~do_required_pre_traverse_node(n, tags[m][n])})]

ArrivalDone ==
  /\ phase = "arrival"
  /\ todo = {}
  /\ level >= arr.max
  /\ IF never_updated THEN do_required_pre_traversal ELSE UNCHANGED unconstrained
  /\ phase' = "required"
  /\ level' = req.max
  /\ todo' = LevelTodo(req, req.max)
  /\ UNCHANGED <<client, invalidated, queues, modified, active, never_updated, tags, slacks>>

(***************************************************************************)
(* One node of do_required_traversal_impl.                                 *)
(***************************************************************************)
\* Mutant: required times are merged into, never reset.
invalidate_node_for_required_traversal_None(m, own, n) == own

invalidate_node_for_required_traversal(m, own, n) ==
  do_reset_node_required_tags_from_origin(m, own, Sinks(OutEdges(n) \cap invalidated))

RequiredVisit ==
  /\ phase = "required"
  /\ todo # {}
  /\ LET n     == Min(todo)
         visit == [m \in active |->
                     do_required_traverse_node(m, delay, tags[m], n,
                       invalidate_node_for_required_traversal(m, tags[m][n], n))]
         backward == IF Updated(visit) THEN InEdges(n) ELSE {}
     IN  /\ StoreTags(n, visit)
         /\ modified' = modified \cup (IF Updated(visit) THEN {n} ELSE {})
         /\ invalidated' = invalidated \cup backward
         /\ req' = EnqueueNodes(req, Sources(backward))
         /\ todo' = todo \ {n}
  /\ UNCHANGED <<client, arr, phase, level, active, never_updated, slacks, unconstrained>>

\* Mutant: the level is not decremented.
RequiredNextLevel_Stays ==
  /\ phase = "required"
  /\ todo = {}
  /\ level > req.min
  /\ level' = level
  /\ todo' = req.nodes[level]
  /\ UNCHANGED <<client, invalidated, queues, modified, phase, active, never_updated, results>>

RequiredNextLevel ==
  /\ phase = "required"
  /\ todo = {}
  /\ level > req.min
  /\ level' = level - 1
  /\ todo' = req.nodes[level - 1]
  /\ UNCHANGED <<client, invalidated, queues, modified, phase, active, never_updated, results>>

RequiredDone ==
  /\ phase = "required"
  /\ todo = {}
  /\ level <= req.min
  /\ phase' = "slack"
  /\ UNCHANGED <<client, invalidated, queues, modified, level, todo, active, never_updated, results>>

(***************************************************************************)
(* do_update_slack of the modified nodes, and the return of the update.    *)
(* Only an update of all modes clears the invalidated edges.               *)
(***************************************************************************)
\* Mutant: an update of one mode clears them too.
AllModesUpdated_Always == TRUE

AllModesUpdated == active = Modes

do_update_slack ==
  /\ phase = "slack"
  /\ slacks' = [m \in Modes |-> [n \in Nodes |->
                  IF m \in active /\ n \in modified
                  THEN do_slack_traverse_node(m, tags[m][n], do_reset_node_slack_tags(slacks[m][n]))
                  ELSE slacks[m][n]]]
  /\ IF AllModesUpdated
     THEN invalidated' = {} /\ never_updated' = FALSE
     ELSE UNCHANGED <<invalidated, never_updated>>
  /\ phase' = "idle"
  /\ active' = {}
  /\ UNCHANGED <<client, queues, modified, level, todo, tags, unconstrained>>

Client == \/ \E e \in Edges : \E d \in DelayChoices[e] : invalidate_edge(e, d)
          \/ \E ms \in {Modes} \cup {{m} : m \in Modes} : update_timing(ms)

Walk == \/ ArrivalVisit \/ ArrivalNextLevel \/ ArrivalDone
        \/ RequiredVisit \/ RequiredNextLevel \/ RequiredDone
        \/ do_update_slack

Next == Client \/ Walk

Spec == Init /\ [][Next]_vars

(***************************************************************************)
(* An update is one call: once begun, the walk is not abandoned.  Nothing  *)
(* is assumed of the client.  During an update every step is one of Walk   *)
(* and every step of Walk moves the cursor, so that fairness of the        *)
(* cursor's moves is fairness of Walk.                                     *)
(***************************************************************************)
Phases == {"idle", "arrival", "required", "slack"}

cursor == <<phase, level, todo>>

CursorMoves ==
  /\ phase # "idle"
  /\ phase' \in Phases
  /\ level' \in Levels
  /\ todo' \in SUBSET Nodes

WalkFairness == WF_cursor(CursorMoves)

FairSpec == Spec /\ WalkFairness

(***************************************************************************)
(* Properties                                                              *)
(***************************************************************************)
Queue  == [nodes : [Levels -> SUBSET Nodes], enqueued : SUBSET Nodes,
           min : Levels, max : Levels]

(***************************************************************************)
(* The type of the walker's own state; in particular a level index always  *)
(* names a level, so that nodes_to_process is never read out of range.     *)
(***************************************************************************)
TypeOK ==
  /\ invalidated \subseteq Edges
  /\ arr \in Queue /\ req \in Queue
  /\ modified \subseteq Nodes
  /\ phase \in Phases
  /\ level \in Levels
  /\ todo \subseteq Nodes
  /\ active \subseteq Modes
  /\ never_updated \in BOOLEAN
  /\ changes \in 0 .. MaxChanges

(***************************************************************************)
(* The per-level queues, the enqueued bits and the level range agree at    *)
(* every moment: a set bit is a node in its level's queue, and the range   *)
(* covers every queue that is not empty.  Otherwise clear() would leave    *)
(* nodes of the last update behind, enqueue_node() would drop a node, or   *)
(* the traversal would stop short of one.                                  *)
(***************************************************************************)
QueueOK(q) ==
  /\ \A l \in Levels : q.nodes[l] = {n \in q.enqueued : node_level(n) = l}
  /\ \A n \in q.enqueued : q.min <= node_level(n) /\ node_level(n) <= q.max

QueuesOK == QueueOK(arr) /\ QueueOK(req)

(***************************************************************************)
(* The nodes left to visit are of the level under way.                     *)
(***************************************************************************)
TodoOnLevel ==
  phase \in {"arrival", "required"} => \A n \in todo : node_level(n) = level

(***************************************************************************)
(* No node is enqueued where the traversal that would visit it has already *)
(* been: the arrival traversal enqueues for arrival at later levels only,  *)
(* the required traversal for required times at earlier levels only.       *)
(***************************************************************************)
EnqueuesAhead ==
  /\ phase = "arrival" =>
       \A n \in arr'.enqueued \ arr.enqueued : node_level(n) > level
  /\ phase = "required" =>
       /\ \A n \in req'.enqueued \ req.enqueued : node_level(n) < level
       /\ arr' = arr

NoEnqueueBehindCursor == [][EnqueuesAhead]_vars

(***************************************************************************)
(* The vector of nodes an arrival level iterates over does not grow while  *)
(* it is iterated.  "incr_arr_update_/incr_req_update_ may be modified     *)
(* while do_arrival_traversal_impl()/do_required_traversal_impl() are      *)
(* running" is only safe for the other levels.                             *)
(***************************************************************************)
IteratedLevelFixed ==
  [][phase = "arrival" => arr'.nodes[level] = arr.nodes[level]]_vars

(***************************************************************************)
(* The nodes of mode m whose arrival (required) times may be out of date:  *)
(* between updates, and for a mode the update leaves alone, the sinks      *)
(* (sources) of the invalidated edges; during the update what is left to   *)
(* visit.                                                                  *)
(***************************************************************************)
ToVisit(q, Ahead(_)) == todo \cup {n \in q.enqueued : Ahead(node_level(n))}

AwaitingArrival(m) ==
  CASE m \notin active -> Sinks(invalidated)
    [] m \in active /\ phase = "arrival" -> ToVisit(arr, LAMBDA l : l > level)
    [] OTHER -> {}

AwaitingRequired(m) ==
  CASE m \notin active -> Sources(invalidated)
    [] m \in active /\ phase = "arrival" -> req.enqueued
    [] m \in active /\ phase = "required" -> ToVisit(req, LAMBDA l : l < level)
    [] OTHER -> {}

(***************************************************************************)
(* The times a node would get if it were computed from nothing out of the  *)
(* present times of its fan-in and fan-out.                                *)
(***************************************************************************)
ArrivalResultTypes(n) ==
  IF node_type(n) = "SINK" THEN TagTypes ELSE ArrivalTypes

FreshArrival(m, n) ==
  LET seed == IF n \in level_nodes(0)
              THEN do_arrival_pre_traverse_node(m, NoTags, n).tags ELSE NoTags
  IN  do_arrival_traverse_node(m, delay, tags[m], n, seed).tags

FreshRequired(m, n) ==
  do_required_traverse_node(m, delay, tags[m], n,
                            [tags[m][n] EXCEPT !["DATA_REQUIRED"] = <<>>]).tags

ArrivalConsistent(m, n) ==
  \A type \in ArrivalResultTypes(n) :
     View(tags[m][n])[type] = View(FreshArrival(m, n))[type]

RequiredConsistent(m, n) ==
  node_type(n) # "SINK" => View(tags[m][n]) = View(FreshRequired(m, n))

(***************************************************************************)
(* The walk loses no change: from the first update on, at every moment     *)
(* between and within updates, a node whose times are not those its        *)
(* neighbours now imply is one the walk has still to visit.  It is what    *)
(* the reset by origin, the capture and launch cases of the invalidation,  *)
(* the modified flags and both queues are there to maintain.               *)
(***************************************************************************)
LocallyConsistent ==
  phase # "idle" \/ ~never_updated =>
    \A m \in Modes :
      /\ \A n \in Nodes \ AwaitingArrival(m)  : ArrivalConsistent(m, n)
      /\ \A n \in Nodes \ AwaitingRequired(m) : RequiredConsistent(m, n)

(***************************************************************************)
(* A node whose tags or slacks an update changes is a modified node: it    *)
(* gets its slacks updated, and a client that refreshes the modified nodes *)
(* alone misses nothing.  (The seeding of the start points by the first    *)
(* update is no visit and is not covered: they may not be among its        *)
(* modified nodes.)                                                        *)
(***************************************************************************)
SameResult(m, n) ==
  /\ View(tags'[m][n]) = View(tags[m][n])
  /\ SlackView(slacks'[m][n]) = SlackView(slacks[m][n])

ChangedNodesRecorded ==
  [][phase # "idle" =>
       \A n \in Nodes \ modified' : \A m \in Modes : SameResult(m, n)]_vars

(***************************************************************************)
(* An update returns.                                                      *)
(***************************************************************************)
UpdateTerminates == phase # "idle" ~> phase = "idle"
==============================================================================
