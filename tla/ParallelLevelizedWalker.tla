------------------------ MODULE ParallelLevelizedWalker -----------------------
(***************************************************************************)
(* The full analysis with TBB: ParallelLevelizedWalker driven by a Full*-  *)
(* TimingAnalyzer of one mode.  An update is a sequence of parallel loops  *)
(* (tbb::parallel_for_each), each over the nodes of a level or of the      *)
(* graph.  A worker takes any node of the loop under way and visits it     *)
(* step by step: a step pulls the tags over one edge into the container    *)
(* of the node.  A loop ends when every visit of it has.                   *)
(***************************************************************************)
EXTENDS AnalysisVisitor

CONSTANTS Mode,       \* the analysis: "setup" or "hold"
          Delays,     \* the delay functions the client may set
          Workers     \* TBB's worker threads

(***************************************************************************)
(* A SINK is not on the level of the clock pin that captures it, even if   *)
(* the capture edge is disabled: the levelization keeps nodes with a       *)
(* fan-out, disabled edges included, off the level of the outputs.  (It    *)
(* has no say in a SINK whose in-edges are all disabled.)                  *)
(***************************************************************************)
CaptureOnOtherLevel ==
  \A n \in Nodes : node_clock_capture_edge(n) # NoEdge =>
     node_level(edge_src_node(node_clock_capture_edge(n))) # node_level(n)

(***************************************************************************)
(* What the edge lists of a node hold, and where its capture edge is from. *)
(***************************************************************************)
CaptureIsInEdge ==
  \A n \in Nodes : node_clock_capture_edge(n) \in InEdges(n) \cup {NoEdge}

EdgeListsOK ==
  \A n \in Nodes : /\ node_in_edges(n) \in Seq(InEdges(n))
                  /\ node_out_edges(n) \in Seq(OutEdges(n))

ASSUME ParallelAssumption ==
  /\ Mode \in AnalysisModes
  /\ Workers # {} /\ IsFiniteSet(Workers)
  /\ CaptureOnOtherLevel /\ CaptureIsInEdge
  /\ EdgeListsOK

VARIABLES
  delay,          \* what the delay calculator answers
  updated,        \* whether an update has returned
  phase, level,   \* the loop under way
  pending,        \* its nodes that no worker has taken yet
  job,            \* job[w]: the node worker w visits and its next step
  local,          \* local[w]: w's part of the tbb::combinable counter
  unconstrained,  \* num_unconstrained_startpoints_ and _endpoints_
  modified,       \* nodes_modified_
  tags, slacks    \* the visitor's results, per node

loop    == <<phase, level, pending>>
outcome == <<unconstrained, modified>>
results == <<tags, slacks>>
vars    == <<delay, updated, loop, job, local, outcome, results>>

NoJob   == [node |-> NoNode, step |-> 0]
Busy(w) == job[w] # NoJob

(***************************************************************************)
(* The loops of an update, in order, and the nodes of each.                *)
(***************************************************************************)
Phases == {"idle", "reset", "arrival_pre", "arrival", "required_pre", "required", "slack"}

LoopNodes(ph, l) ==
  CASE ph \in {"reset", "slack"}        -> Nodes
    [] ph \in {"arrival", "required"}   -> level_nodes(l)
    [] ph = "arrival_pre"               -> level_nodes(0)
    [] ph = "required_pre"              -> logical_outputs
    [] OTHER                            -> {}

\* Mutant: one arrival level too many.
NextLoop_PastLast(ph, l) ==
  CASE ph = "reset"                     -> <<"arrival_pre", 0>>
    [] ph = "arrival_pre"               -> <<"arrival", 0>>
    [] ph = "arrival" /\ l <= LastLevel -> <<"arrival", l + 1>>
    [] ph = "arrival" /\ l > LastLevel  -> <<"required_pre", LastLevel>>
    [] ph = "required_pre"              -> <<"required", LastLevel>>
    [] ph = "required" /\ l > 0         -> <<"required", l - 1>>
    [] ph = "required" /\ l <= 0        -> <<"slack", 0>>
    [] ph = "slack"                     -> <<"idle", 0>>

NextLoop(ph, l) ==
  CASE ph = "reset"                     -> <<"arrival_pre", 0>>
    [] ph = "arrival_pre"               -> <<"arrival", 0>>
    [] ph = "arrival" /\ l < LastLevel  -> <<"arrival", l + 1>>
    [] ph = "arrival" /\ l >= LastLevel -> <<"required_pre", LastLevel>>
    [] ph = "required_pre"              -> <<"required", LastLevel>>
    [] ph = "required" /\ l > 0         -> <<"required", l - 1>>
    [] ph = "required" /\ l <= 0        -> <<"slack", 0>>
    [] ph = "slack"                     -> <<"idle", 0>>

Enter(next) ==
  /\ phase' = next[1]
  /\ level' = next[2]
  /\ pending' = LoopNodes(next[1], next[2])

Init ==
  /\ delay \in Delays
  /\ updated = FALSE
  /\ phase = "idle" /\ level = 0 /\ pending = {}
  /\ job = [w \in Workers |-> NoJob]
  /\ local = [w \in Workers |-> 0]
  /\ unconstrained = [startpoints |-> 0, endpoints |-> 0]
  /\ modified = {}
  /\ tags = [n \in Nodes |-> NoTags]
  /\ slacks = [n \in Nodes |-> <<>>]

(***************************************************************************)
(* The client: invalidate_edge() does nothing here, an update is full.     *)
(***************************************************************************)
ChangeDelay ==
  /\ phase = "idle"
  /\ delay' \in Delays
  /\ UNCHANGED <<updated, loop, job, local, outcome, results>>

update_timing ==
  /\ phase = "idle"
  /\ Enter(<<"reset", 0>>)
  /\ UNCHANGED <<delay, updated, job, local, outcome, results>>

(***************************************************************************)
(* The steps of a visit of n: one per edge it pulls over (a disabled one   *)
(* is skipped), and one for the required times of a SINK; a single one in  *)
(* the other loops.                                                        *)
(***************************************************************************)
Steps(n) ==
  CASE phase = "arrival"  -> Len(node_in_edges(n)) + (IF node_type(n) = "SINK" THEN 1 ELSE 0)
    [] phase = "required" -> IF node_type(n) = "CPIN" THEN 0 ELSE Len(node_out_edges(n))
    [] OTHER -> 1

ArrivalStep(n, i) ==
  LET e == node_in_edges(n)[i]
  IN  IF i > Len(node_in_edges(n))
      THEN mark_sink_required_times(Mode, delay, tags, n, tags[n]).tags
      ELSE IF edge_disabled(e) THEN tags[n]
      ELSE do_arrival_traverse_edge(Mode, delay, tags, e, tags[n]).tags

RequiredStep(n, i) ==
  LET e == node_out_edges(n)[i]
  IN  IF edge_disabled(e) THEN tags[n]
      ELSE do_required_traverse_edge(Mode, delay, tags, e, tags[n]).tags

\* Mutant: the tags of the last update are not reset.
StepTags_NoReset(n, i) ==
  CASE phase = "arrival_pre" -> do_arrival_pre_traverse_node(Mode, tags[n], n).tags
    [] phase = "arrival"     -> ArrivalStep(n, i)
    [] phase = "required"    -> RequiredStep(n, i)
    [] OTHER                 -> tags[n]

StepTags(n, i) ==
  CASE phase = "reset"       -> NoTags
    [] phase = "arrival_pre" -> do_arrival_pre_traverse_node(Mode, tags[n], n).tags
    [] phase = "arrival"     -> ArrivalStep(n, i)
    [] phase = "required"    -> RequiredStep(n, i)
    [] OTHER                 -> tags[n]

StepSlacks(n) ==
  CASE phase = "reset" -> <<>>
    [] phase = "slack" -> do_slack_traverse_node(Mode, tags[n], slacks[n])
    [] OTHER           -> slacks[n]

Constrained(n) ==
  CASE phase = "arrival_pre"  -> do_arrival_pre_traverse_node(Mode, tags[n], n).constrained
    [] phase = "required_pre" -> do_required_pre_traverse_node(n, tags[n])
    [] OTHER                  -> TRUE

TakeNode(w) ==
  /\ ~Busy(w)
  /\ \E n \in pending :
       /\ job' = [job EXCEPT ![w] = [node |-> n, step |-> 1]]
       /\ pending' = pending \ {n}
  /\ UNCHANGED <<delay, updated, phase, level, local, outcome, results>>

VisitStep(w) ==
  LET n == job[w].node
      i == job[w].step
  IN  /\ Busy(w)
      /\ i <= Steps(n)
      /\ tags'   = [tags EXCEPT ![n] = StepTags(n, i)]
      /\ slacks' = [slacks EXCEPT ![n] = StepSlacks(n)]
      /\ local'  = IF Constrained(n) THEN local ELSE [local EXCEPT ![w] = @ + 1]
      /\ job'    = [job EXCEPT ![w].step = i + 1]
      /\ UNCHANGED <<delay, updated, loop, outcome>>

FinishNode(w) ==
  /\ Busy(w)
  /\ job[w].step > Steps(job[w].node)
  /\ job' = [job EXCEPT ![w] = NoJob]
  /\ UNCHANGED <<delay, updated, loop, local, outcome, results>>

(***************************************************************************)
(* The end of a loop: parallel_for_each returns when every visit has, and  *)
(* a counting loop combines the workers' counts.  Before the first         *)
(* counting loop, all nodes are made the modified ones.                    *)
(***************************************************************************)
\* Mutant: the largest of the workers' counts.
Combined_Largest == FoldFunction(LAMBDA a, b : IF a > b THEN a ELSE b, 0, local)

Combined == FoldFunction(LAMBDA a, b : a + b, 0, local)

\* Mutant: the loop does not wait for the visits under way.
LoopDone_NoBarrier == phase # "idle" /\ pending = {}

LoopDone == phase # "idle" /\ pending = {} /\ \A w \in Workers : ~Busy(w)

EndLoop ==
  /\ LoopDone
  /\ Enter(NextLoop(phase, level))
  /\ unconstrained' =
       CASE phase = "arrival_pre"  -> [unconstrained EXCEPT !.startpoints = Combined]
         [] phase = "required_pre" -> [unconstrained EXCEPT !.endpoints = Combined]
         [] OTHER -> unconstrained
  /\ modified' = IF phase = "reset" THEN Nodes ELSE modified
  /\ local' = [w \in Workers |-> 0]
  /\ updated' = (updated \/ phase = "slack")
  /\ UNCHANGED <<delay, job, results>>

Next == \/ ChangeDelay \/ update_timing
        \/ \E w \in Workers : TakeNode(w) \/ VisitStep(w) \/ FinishNode(w)
        \/ EndLoop

Spec == Init /\ [][Next]_vars

(***************************************************************************)
(* Properties                                                              *)
(***************************************************************************)
TypeOK ==
  /\ phase \in Phases
  /\ level \in Levels
  /\ pending \subseteq Nodes
  /\ job \in [Workers -> [node : Nodes \cup {NoNode}, step : Nat]]
  /\ updated \in BOOLEAN

(***************************************************************************)
(* The containers a visit reads besides its own at its next step.          *)
(***************************************************************************)
ReadsNext(n, i) ==
  LET pulled  == IF phase = "arrival" THEN node_in_edges(n) ELSE node_out_edges(n)
      capture == node_clock_capture_edge(n)
  IN  CASE phase = "arrival" /\ i <= Len(pulled) /\ ~edge_disabled(pulled[i]) ->
             {edge_src_node(pulled[i])}
        [] phase = "arrival" /\ i > Len(pulled) /\ capture # NoEdge ->
             {edge_src_node(capture)}
        [] phase = "required" /\ ~edge_disabled(pulled[i]) ->
             {edge_sink_node(pulled[i])}
        [] OTHER -> {}

InStep(w) == Busy(w) /\ job[w].step <= Steps(job[w].node)

(***************************************************************************)
(* No data race: of two workers about to make a step, neither writes the   *)
(* container the other writes or reads.  No lock protects the containers;  *)
(* the levels do.                                                          *)
(***************************************************************************)
NoConflict ==
  \A v, w \in Workers : v # w /\ InStep(v) /\ InStep(w) =>
     job[v].node \notin {job[w].node} \cup ReadsNext(job[w].node, job[w].step)

(***************************************************************************)
(* The combined counters: every start point and end point without a        *)
(* constraint is counted once, whichever worker met it.                    *)
(***************************************************************************)
SeedOf(n) == do_arrival_pre_traverse_node(Mode, NoTags, n)

UnconstrainedCounted ==
  updated /\ phase = "idle" =>
    /\ unconstrained.startpoints =
         Cardinality({n \in level_nodes(0) : ~SeedOf(n).constrained})
    /\ unconstrained.endpoints =
         Cardinality({n \in logical_outputs : ~is_constrained(n, tags[n])})
==============================================================================
