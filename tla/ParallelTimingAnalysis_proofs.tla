--------------------- MODULE ParallelTimingAnalysis_proofs ---------------------
(***************************************************************************)
(* The parallel walk and the analysis it makes, for every levelized graph, *)
(* constraints, delays and number of workers, and every interleaving of    *)
(* their visits:                                                           *)
(*   - the visits of a loop never race;                                    *)
(*   - each unconstrained start and end point is counted once;             *)
(*   - an update leaves the tags and slacks of the full serial walk.       *)
(***************************************************************************)
EXTENDS ParallelTimingAnalysis, TatumLemmas

(***************************************************************************)
(* The workers visit different nodes of the loop under way, none of which  *)
(* is still to be taken.  Without it a node could be visited twice, or a   *)
(* visit could outlive its level and meet those of the next.               *)
(***************************************************************************)
JobsInLoop ==
  \A w \in Workers : Busy(w) =>
    /\ job[w].node \in LoopNodes(phase, level) \ pending
    /\ job[w].step >= 1

JobsDiffer ==
  \A v, w \in Workers : v # w /\ Busy(v) /\ Busy(w) => job[v].node # job[w].node

ParInv == /\ TypeOK
          /\ pending \subseteq LoopNodes(phase, level)
          /\ JobsInLoop
          /\ JobsDiffer

(***************************************************************************)
(* The graph, and the loops over it.                                       *)
(***************************************************************************)
LEMMA GraphFacts ==
  /\ Nodes \subseteq Nat /\ NoNode \notin Nodes
  /\ LastLevel \in Nat
  /\ Levels = 0 .. LastLevel /\ 0 \in Levels /\ LastLevel \in Levels
  /\ \A n \in Nodes : node_level(n) \in Levels
BY TGAssumption DEF GraphOK, Levels, node_level, NoNode

LEMMA LoopOverNodes ==
  \A ph, l : LoopNodes(ph, l) \subseteq Nodes
BY DEF LoopNodes, level_nodes, logical_outputs

LEMMA LoopsFollow ==
  ASSUME NEW ph \in Phases \ {"idle"}, NEW l \in Levels
  PROVE  NextLoop(ph, l)[1] \in Phases /\ NextLoop(ph, l)[2] \in Levels
<1>1. CASE ph = "reset"
  <2>1. NextLoop(ph, l) = <<"arrival_pre", 0>>
    BY <1>1 DEF NextLoop
  <2>. QED
    BY <2>1, GraphFacts DEF Phases
<1>2. CASE ph = "slack"
  <2>1. NextLoop(ph, l) = <<"idle", 0>>
    BY <1>2 DEF NextLoop
  <2>. QED
    BY <2>1, GraphFacts DEF Phases
<1>3. CASE ph = "arrival_pre"
  <2>1. NextLoop(ph, l) = <<"arrival", 0>>
    BY <1>3 DEF NextLoop
  <2>. QED
    BY <2>1, GraphFacts DEF Phases
<1>4. CASE ph = "required_pre"
  <2>1. NextLoop(ph, l) = <<"required", LastLevel>>
    BY <1>4 DEF NextLoop
  <2>. QED
    BY <2>1, GraphFacts DEF Phases
<1>5. CASE ph = "arrival"
  BY <1>5, GraphFacts DEF Phases, NextLoop
<1>6. CASE ph = "required"
  BY <1>6, GraphFacts DEF Phases, NextLoop
<1>. QED
  BY <1>1, <1>2, <1>3, <1>4, <1>5, <1>6 DEF Phases

(***************************************************************************)
(* The edges a visit pulls over lead to its node from an earlier level, or *)
(* from its node to a later one.                                           *)
(***************************************************************************)
LEMMA PulledEdges ==
  ASSUME NEW n \in Nodes
  PROVE  /\ \A i \in 1 .. Len(node_in_edges(n)) :
              LET e == node_in_edges(n)[i]
              IN  ~edge_disabled(e) => node_level(edge_src_node(e)) < node_level(n)
         /\ \A i \in 1 .. Len(node_out_edges(n)) :
              LET e == node_out_edges(n)[i]
              IN  ~edge_disabled(e) => node_level(edge_sink_node(e)) > node_level(n)
<1>1. ASSUME NEW e \in InEdges(n), ~edge_disabled(e)
      PROVE  node_level(edge_src_node(e)) < node_level(n)
  BY <1>1, TGAssumption DEF ActiveLevelsIncrease, InEdges, Edges, edge_disabled, edge_sink_node
<1>2. ASSUME NEW e \in OutEdges(n), ~edge_disabled(e)
      PROVE  node_level(edge_sink_node(e)) > node_level(n)
  <2>1. node_level(edge_src_node(e)) < node_level(edge_sink_node(e))
    BY <1>2, TGAssumption DEF ActiveLevelsIncrease, OutEdges, Edges, edge_disabled
  <2>2. /\ edge_src_node(e) = n
        /\ edge_sink_node(e) \in Nodes
    BY TGAssumption DEF OutEdges, Edges, edge_sink_node, GraphOK
  <2>. QED
    BY <2>1, <2>2, GraphFacts
<1>3. ASSUME NEW i \in 1 .. Len(node_in_edges(n))
      PROVE  node_in_edges(n)[i] \in InEdges(n)
  BY ParallelAssumption DEF EdgeListsOK
<1>4. ASSUME NEW i \in 1 .. Len(node_out_edges(n))
      PROVE  node_out_edges(n)[i] \in OutEdges(n)
  BY ParallelAssumption DEF EdgeListsOK
<1>. QED
  BY <1>1, <1>2, <1>3, <1>4

(***************************************************************************)
(* Every worker's containers, read or written, keep to levels that the     *)
(* others do not write.                                                    *)
(***************************************************************************)
LEMMA ReadsOtherLevels ==
  ASSUME NEW n \in Nodes, NEW i \in Nat \ {0}, i <= Steps(n),
         NEW k \in ReadsNext(n, i)
  PROVE  phase \in {"arrival", "required"} /\ node_level(k) # node_level(n)
<1>. DEFINE ins  == node_in_edges(n)
            outs == node_out_edges(n)
<1>1. /\ Len(ins) \in Nat /\ Len(outs) \in Nat
  BY ParallelAssumption DEF EdgeListsOK
<1>2. CASE phase = "arrival" /\ i <= Len(ins)
  <2>1. ~edge_disabled(ins[i]) /\ k = edge_src_node(ins[i])
    BY <1>2 DEF ReadsNext
  <2>2. node_level(k) < node_level(n)
    BY <1>1, <1>2, <2>1, PulledEdges
  <2>3. edge_src_node(ins[i]) \in Nodes
    <3>1. ins[i] \in InEdges(n)
      BY <1>1, <1>2, ParallelAssumption DEF EdgeListsOK
    <3>2. ins[i] \in Edges
      BY <3>1 DEF InEdges
    <3>. QED
      BY <3>2, TGAssumption DEF GraphOK, edge_src_node
  <2>. QED
    BY <1>2, <2>1, <2>2, <2>3, GraphFacts
<1>3. CASE phase = "arrival" /\ i > Len(ins)
  <2>1. node_clock_capture_edge(n) # NoEdge /\ k = edge_src_node(node_clock_capture_edge(n))
    BY <1>1, <1>3 DEF ReadsNext
  <2>. QED
    BY <1>3, <2>1, ParallelAssumption DEF CaptureOnOtherLevel
<1>4. CASE phase = "required"
  <2>1. ~edge_disabled(outs[i]) /\ k = edge_sink_node(outs[i])
    BY <1>4 DEF ReadsNext
  <2>2. i <= Len(outs)
    BY <1>1, <1>4 DEF Steps
  <2>3. node_level(k) > node_level(n)
    BY <1>1, <2>1, <2>2, PulledEdges
  <2>4. edge_sink_node(outs[i]) \in Nodes
    <3>1. outs[i] \in OutEdges(n)
      BY <1>1, <2>2, ParallelAssumption DEF EdgeListsOK
    <3>2. outs[i] \in Edges
      BY <3>1 DEF OutEdges
    <3>. QED
      BY <3>2, TGAssumption DEF GraphOK, edge_sink_node
  <2>. QED
    BY <1>4, <2>1, <2>3, <2>4, GraphFacts
<1>5. CASE phase \notin {"arrival", "required"}
  BY <1>5 DEF ReadsNext
<1>. QED
  BY <1>1, <1>2, <1>3, <1>4, <1>5

LEMMA ParInvNoConflict == ParInv => NoConflict
<1>. SUFFICES ASSUME ParInv, NEW v \in Workers, NEW w \in Workers,
                     v # w, InStep(v), InStep(w)
              PROVE  job[v].node \notin {job[w].node} \cup ReadsNext(job[w].node, job[w].step)
  BY DEF NoConflict
<1>. DEFINE a == job[v].node
            b == job[w].node
<1>1. a # b
  BY DEF ParInv, JobsDiffer, InStep
<1>2. /\ a \in LoopNodes(phase, level) /\ b \in LoopNodes(phase, level)
      /\ a \in Nodes /\ b \in Nodes
      /\ job[w].step \in Nat \ {0} /\ job[w].step <= Steps(b)
  BY LoopOverNodes DEF ParInv, JobsInLoop, InStep, TypeOK
<1>3. ASSUME a \in ReadsNext(b, job[w].step)
      PROVE  FALSE
  <2>1. phase \in {"arrival", "required"} /\ node_level(a) # node_level(b)
    BY <1>2, <1>3, ReadsOtherLevels
  <2>. QED
    BY <1>2, <2>1 DEF LoopNodes, level_nodes
<1>. QED
  BY <1>1, <1>3

(***************************************************************************)
(* The invariant is inductive.                                             *)
(***************************************************************************)
LEMMA ParInvInit == Init => ParInv
<1>. SUFFICES ASSUME Init PROVE ParInv
  OBVIOUS
<1>1. TypeOK
  <2>1. job \in [Workers -> [node : Nodes \cup {NoNode}, step : Nat]]
    BY DEF Init, NoJob
  <2>2. phase \in Phases /\ level \in Levels /\ pending \subseteq Nodes /\ updated \in BOOLEAN
    BY GraphFacts DEF Init, Phases
  <2>. QED
    BY <2>1, <2>2 DEF TypeOK
<1>2. \A w \in Workers : ~Busy(w)
  BY DEF Init, Busy
<1>3. pending \subseteq LoopNodes(phase, level)
  BY DEF Init
<1>. QED
  BY <1>1, <1>2, <1>3 DEF ParInv, JobsInLoop, JobsDiffer

LEMMA EnterLoop ==
  ASSUME ParInv, NEW next, next[1] \in Phases, next[2] \in Levels,
         Enter(next), \A w \in Workers : ~Busy(w), UNCHANGED job, updated' \in BOOLEAN
  PROVE  ParInv'
<1>1. pending' = LoopNodes(phase', level') /\ pending' \subseteq Nodes
  BY LoopOverNodes DEF Enter
<1>2. \A w \in Workers : ~Busy(w)'
  BY DEF Busy, NoJob
<1>. QED
  BY <1>1, <1>2 DEF ParInv, TypeOK, Enter, JobsInLoop, JobsDiffer

LEMMA ParInvStep == ParInv /\ [Next]_vars => ParInv'
<1>. SUFFICES ASSUME ParInv, [Next]_vars PROVE ParInv'
  OBVIOUS
<1>. USE DEF ParInv
<1>0. ASSUME phase = "idle", NEW w \in Workers PROVE ~Busy(w)
  BY <1>0 DEF JobsInLoop, LoopNodes
<1>1. CASE ChangeDelay
  BY <1>1 DEF ChangeDelay, loop, TypeOK, JobsInLoop, JobsDiffer, Busy
<1>2. CASE update_timing
  <2>1. Enter(<<"reset", 0>>) /\ UNCHANGED job /\ updated' \in BOOLEAN
    BY <1>2 DEF update_timing, TypeOK
  <2>2. \A w \in Workers : ~Busy(w)
    BY <1>0, <1>2 DEF update_timing
  <2>3. <<"reset", 0>>[1] \in Phases /\ <<"reset", 0>>[2] \in Levels
    BY GraphFacts DEF Phases
  <2>. QED
    BY <2>1, <2>2, <2>3, EnterLoop
<1>3. ASSUME NEW w \in Workers, TakeNode(w) PROVE ParInv'
  <2>1. PICK n \in pending : /\ job' = [job EXCEPT ![w] = [node |-> n, step |-> 1]]
                             /\ pending' = pending \ {n}
    BY <1>3 DEF TakeNode
  <2>2. UNCHANGED <<phase, level, updated>>
    BY <1>3 DEF TakeNode
  <2>3. TypeOK'
    BY <2>1, <2>2 DEF TypeOK
  <2>4. \A v \in Workers : job'[v] = IF v = w THEN [node |-> n, step |-> 1] ELSE job[v]
    BY <2>1 DEF TypeOK
  <2>5. n \in LoopNodes(phase, level)
    OBVIOUS
  <2>6. JobsInLoop'
    BY <2>1, <2>2, <2>4, <2>5 DEF JobsInLoop, Busy
  <2>7. JobsDiffer'
    BY <2>1, <2>2, <2>4 DEF JobsInLoop, JobsDiffer, Busy
  <2>. QED
    BY <2>1, <2>2, <2>3, <2>6, <2>7
<1>4. ASSUME NEW w \in Workers, VisitStep(w) PROVE ParInv'
  <2>1. /\ Busy(w)
        /\ job' = [job EXCEPT ![w].step = job[w].step + 1]
        /\ UNCHANGED <<phase, level, pending, updated>>
    BY <1>4 DEF VisitStep, loop
  <2>2. TypeOK'
    BY <2>1 DEF TypeOK
  <2>3. \A v \in Workers :
          /\ job'[v].node = job[v].node
          /\ job'[v].step = IF v = w THEN job[v].step + 1 ELSE job[v].step
    BY <2>1 DEF TypeOK
  <2>4. \A v \in Workers : Busy(v)' => Busy(v)
    BY <2>1 DEF TypeOK, Busy
  <2>. QED
    BY <2>1, <2>2, <2>3, <2>4 DEF JobsInLoop, JobsDiffer, TypeOK
<1>5. ASSUME NEW w \in Workers, FinishNode(w) PROVE ParInv'
  <2>1. /\ job' = [job EXCEPT ![w] = NoJob]
        /\ UNCHANGED <<phase, level, pending, updated>>
    BY <1>5 DEF FinishNode, loop
  <2>2. TypeOK'
    BY <2>1 DEF TypeOK, NoJob
  <2>3. \A v \in Workers : Busy(v)' => Busy(v) /\ job'[v] = job[v]
    BY <2>1 DEF TypeOK, Busy
  <2>. QED
    BY <2>1, <2>2, <2>3 DEF JobsInLoop, JobsDiffer
<1>6. CASE EndLoop
  <2>1. /\ Enter(NextLoop(phase, level)) /\ UNCHANGED job /\ updated' \in BOOLEAN
        /\ \A w \in Workers : ~Busy(w)
        /\ phase # "idle"
    BY <1>6 DEF EndLoop, LoopDone, TypeOK
  <2>2. NextLoop(phase, level)[1] \in Phases /\ NextLoop(phase, level)[2] \in Levels
    BY <2>1, LoopsFollow DEF TypeOK
  <2>. QED
    BY <2>1, <2>2, EnterLoop
<1>7. CASE UNCHANGED vars
  BY <1>7 DEF vars, loop, TypeOK, JobsInLoop, JobsDiffer, Busy
<1>. QED
  BY <1>1, <1>2, <1>3, <1>4, <1>5, <1>6, <1>7 DEF Next

LEMMA ParInvariant == Spec => []ParInv
BY ParInvInit, ParInvStep, PTL DEF Spec

(***************************************************************************)
(* Type correctness: the level under way always is one of the graph's.     *)
(***************************************************************************)
THEOREM TypeCorrect == Spec => []TypeOK
<1>1. ParInv => TypeOK
  BY DEF ParInv
<1>. QED
  BY <1>1, ParInvariant, PTL

(***************************************************************************)
(* Race freedom: two visits of a parallel loop under way at the same time  *)
(* never touch a container that one of them writes.                        *)
(***************************************************************************)
THEOREM VisitsNeverRace == Spec => []NoConflict
BY ParInvariant, ParInvNoConflict, PTL

(***************************************************************************)
(* What the combinable counter holds: the workers' counters added up, in   *)
(* any order.                                                              *)
(***************************************************************************)
AddTo(c, x, acc) == x + acc
AnyOf(s) == CHOOSE x \in s : TRUE

Adding == INSTANCE FoldLemmas WITH Op <- AddTo, Pick <- AnyOf

Sum(counts) == Adding!Result(0, 0, counts, Workers)

LEMMA CombinedIsSum ==
  ASSUME local \in [Workers -> Nat]
  PROVE  Combined = Sum(local)
<1>1. DOMAIN local = Workers
  OBVIOUS
<1>. QED
  BY <1>1 DEF Combined, FoldFunction, FoldFunctionOnSet, MapThenFoldSet, Sum,
              Adding!Result, Adding!Recursive, AddTo, AnyOf

LEMMA SumDefined ==
  ASSUME NEW counts
  PROVE  \E it : /\ it[{}] = 0
                 /\ \A s \in SUBSET Workers : s # {} =>
                       /\ AnyOf(s) \in s
                       /\ it[s] = counts[AnyOf(s)] + it[s \ {AnyOf(s)}]
                 /\ Sum(counts) = it[Workers]
<1>1. \A s \in SUBSET Workers : s # {} => AnyOf(s) \in s
  BY DEF AnyOf
<1>2. Adding!Induction /\ Adding!Counted(Workers)
  <2>1. IsFiniteSet(Workers)
    BY ParallelAssumption
  <2>2. Adding!Induction
    BY FoldBasics, Zenon DEF Adding!Induction
  <2>3. Adding!Counted(Workers)
    BY <2>1, SubsetsCounted, Zenon DEF Adding!Counted
  <2>. QED
    BY <2>2, <2>3
<1>3. PICK it : /\ Adding!Recursive(0, 0, counts, Workers, it)
                /\ Adding!Result(0, 0, counts, Workers) = it[Workers]
  BY <1>1, <1>2, Adding!FoldDefined
<1>4. it[{}] = 0
  BY <1>3 DEF Adding!Recursive
<1>5. \A s \in SUBSET Workers : s # {} => it[s] = counts[AnyOf(s)] + it[s \ {AnyOf(s)}]
  BY <1>3 DEF Adding!Recursive, AddTo
<1>. QED
  BY <1>1, <1>3, <1>4, <1>5 DEF Sum

LEMMA SumOfZeros ==
  ASSUME NEW counts, \A w \in Workers : counts[w] = 0
  PROVE  Sum(counts) = 0
<1>1. PICK it : /\ it[{}] = 0
                /\ \A s \in SUBSET Workers : s # {} =>
                     /\ AnyOf(s) \in s
                     /\ it[s] = counts[AnyOf(s)] + it[s \ {AnyOf(s)}]
                /\ Sum(counts) = it[Workers]
  BY SumDefined
<1>. DEFINE Q == {s \in SUBSET Workers : it[s] = 0}
<1>2. {} \in Q
  BY <1>1
<1>3. ASSUME NEW s \in SUBSET Workers, s # {}, \A x \in s : s \ {x} \in Q
      PROVE  s \in Q
  <2>1. AnyOf(s) \in s /\ it[s] = counts[AnyOf(s)] + it[s \ {AnyOf(s)}]
    BY <1>1, <1>3
  <2>2. it[s \ {AnyOf(s)}] = 0
    BY <1>3, <2>1
  <2>. QED
    BY <2>1, <2>2
<1>. HIDE DEF Q
<1>4. \A s \in SUBSET Workers : s \in Q
  BY <1>2, <1>3, SubsetInduction, ParallelAssumption
<1>5. Workers \in Q
  BY <1>4
<1>. QED
  BY <1>1, <1>5 DEF Q

(***************************************************************************)
(* One worker counting one more makes the sum one more, whichever it is.   *)
(***************************************************************************)
LEMMA SumCountsOneMore ==
  ASSUME NEW counts \in [Workers -> Nat], NEW w \in Workers
  PROVE  /\ Sum(counts) \in Nat
         /\ Sum([counts EXCEPT ![w] = @ + 1]) = Sum(counts) + 1
<1>. DEFINE more == [counts EXCEPT ![w] = @ + 1]
<1>1. PICK it : /\ it[{}] = 0
                /\ \A s \in SUBSET Workers : s # {} =>
                     /\ AnyOf(s) \in s
                     /\ it[s] = counts[AnyOf(s)] + it[s \ {AnyOf(s)}]
                /\ Sum(counts) = it[Workers]
  BY SumDefined
<1>2. PICK jt : /\ jt[{}] = 0
                /\ \A s \in SUBSET Workers : s # {} =>
                     /\ AnyOf(s) \in s
                     /\ jt[s] = more[AnyOf(s)] + jt[s \ {AnyOf(s)}]
                /\ Sum(more) = jt[Workers]
  BY SumDefined
<1>. DEFINE Q == {s \in SUBSET Workers : /\ it[s] \in Nat
                                         /\ jt[s] = it[s] + (IF w \in s THEN 1 ELSE 0)}
<1>3. {} \in Q
  BY <1>1, <1>2
<1>4. ASSUME NEW s \in SUBSET Workers, s # {}, \A x \in s : s \ {x} \in Q
      PROVE  s \in Q
  <2>. DEFINE x == AnyOf(s)
              t == s \ {x}
  <2>1. x \in s /\ it[s] = counts[x] + it[t] /\ jt[s] = more[x] + jt[t]
    BY <1>1, <1>2, <1>4
  <2>2. it[t] \in Nat /\ jt[t] = it[t] + (IF w \in t THEN 1 ELSE 0)
    BY <1>4, <2>1
  <2>3. counts[x] \in Nat /\ more[x] = IF x = w THEN counts[x] + 1 ELSE counts[x]
    BY <2>1
  <2>4. w \in s <=> w \in t \/ x = w
    BY <2>1
  <2>5. ~(w \in t /\ x = w)
    OBVIOUS
  <2>. HIDE DEF x, t, more
  <2>6. it[s] \in Nat /\ jt[s] = it[s] + (IF w \in s THEN 1 ELSE 0)
    BY <2>1, <2>2, <2>3, <2>4, <2>5
  <2>. QED
    BY <2>6
<1>. HIDE DEF Q
<1>5. \A s \in SUBSET Workers : s \in Q
  BY <1>3, <1>4, SubsetInduction, ParallelAssumption
<1>6. Workers \in Q
  BY <1>5
<1>7. it[Workers] \in Nat /\ jt[Workers] = it[Workers] + 1
  BY <1>6 DEF Q
<1>. QED
  BY <1>1, <1>2, <1>7

(***************************************************************************)
(* Whether a start point has a constraint does not depend on its tags.     *)
(***************************************************************************)
LEMMA SeedConstraint ==
  ASSUME NEW n, NEW own
  PROVE  do_arrival_pre_traverse_node(Mode, own, n).constrained = SeedOf(n).constrained
BY DEF do_arrival_pre_traverse_node, SeedOf

(***************************************************************************)
(* The nodes of a counting loop that have been visited, and of those the   *)
(* ones it counts.                                                         *)
(***************************************************************************)
Visited(n) ==
  /\ n \notin pending
  /\ \A w \in Workers : Busy(w) /\ job[w].node = n => job[w].step > 1

OpenStarts == {n \in level_nodes(0) : ~SeedOf(n).constrained}
OpenEnds   == {n \in logical_outputs : ~is_constrained(n, tags[n])}

Open == CASE phase = "arrival_pre"  -> OpenStarts
          [] phase = "required_pre" -> OpenEnds
          [] OTHER                  -> {}

(***************************************************************************)
(* The workers together have counted what has been visited; a combined     *)
(* count stays right, as no later loop changes the tags of an end point.   *)
(***************************************************************************)
CountTypes == /\ local \in [Workers -> Nat]
              /\ unconstrained \in [startpoints : Nat, endpoints : Nat]
              /\ tags = [n \in Nodes |-> tags[n]]

CountedSoFar ==
  phase \in {"arrival_pre", "required_pre"} =>
     Sum(local) = Cardinality({n \in Open : Visited(n)})

StartsCounted ==
  phase \in {"arrival", "required_pre", "required", "slack"} \/ (updated /\ phase = "idle") =>
     unconstrained.startpoints = Cardinality(OpenStarts)

EndsCounted ==
  phase \in {"required", "slack"} \/ (updated /\ phase = "idle") =>
     unconstrained.endpoints = Cardinality(OpenEnds)

CountInv == ParInv /\ CountTypes /\ CountedSoFar /\ StartsCounted /\ EndsCounted

LEMMA CountInvCounts == CountInv => UnconstrainedCounted
BY DEF CountInv, StartsCounted, EndsCounted, UnconstrainedCounted, OpenStarts, OpenEnds

LEMMA CountInvInit == Init => CountInv
<1>. SUFFICES ASSUME Init PROVE CountInv
  OBVIOUS
<1>1. CountTypes
  BY DEF Init, CountTypes
<1>2. CountedSoFar /\ StartsCounted /\ EndsCounted
  BY DEF Init, CountedSoFar, StartsCounted, EndsCounted
<1>. QED
  BY <1>1, <1>2, ParInvInit DEF CountInv

(***************************************************************************)
(* No loop after the arrivals changes the tags of an end point: it is on   *)
(* the last level, where all out-edges are disabled.                       *)
(***************************************************************************)
LEMMA EndTagsKept ==
  ASSUME NEW n \in logical_outputs, phase \in {"required_pre", "required", "slack"},
         NEW i \in Nat \ {0}, i <= Steps(n)
  PROVE  StepTags(n, i) = tags[n]
<1>1. CASE phase \in {"required_pre", "slack"}
  BY <1>1 DEF StepTags
<1>2. CASE phase = "required"
  <2>. DEFINE outs == node_out_edges(n)
  <2>1. n \in Nodes /\ node_level(n) = LastLevel
    BY DEF logical_outputs, level_nodes
  <2>2. Len(outs) \in Nat /\ outs \in Seq(OutEdges(n))
    BY <2>1, ParallelAssumption DEF EdgeListsOK
  <2>3. i \in 1 .. Len(outs)
    BY <1>2, <2>2 DEF Steps
  <2>4. outs[i] \in Edges
    BY <2>2, <2>3 DEF OutEdges
  <2>5. edge_sink_node(outs[i]) \in Nodes
    BY <2>4, TGAssumption DEF GraphOK, edge_sink_node
  <2>6. edge_disabled(outs[i])
    <3>1. node_level(edge_sink_node(outs[i])) \in 0 .. LastLevel
      BY <2>5, GraphFacts
    <3>. QED
      BY <2>1, <2>3, <3>1, PulledEdges, GraphFacts
  <2>. QED
    BY <1>2, <2>6 DEF StepTags, RequiredStep
<1>. QED
  BY <1>1, <1>2

(***************************************************************************)
(* A worker that takes a node, or is done with one, leaves the visited     *)
(* nodes what they were; a counting visit adds its own.                    *)
(***************************************************************************)
LEMMA TakenNotVisited ==
  ASSUME ParInv, NEW w \in Workers, TakeNode(w), NEW n
  PROVE  Visited(n)' <=> Visited(n)
<1>1. PICK k \in pending : /\ job' = [job EXCEPT ![w] = [node |-> k, step |-> 1]]
                           /\ pending' = pending \ {k}
  BY DEF TakeNode
<1>2. \A v \in Workers : job'[v] = IF v = w THEN [node |-> k, step |-> 1] ELSE job[v]
  BY <1>1 DEF ParInv, TypeOK
<1>3. ~Busy(w) /\ Busy(w)'
  BY <1>1, <1>2, GraphFacts DEF TakeNode, Busy, NoJob, ParInv, TypeOK
<1>4. \A v \in Workers : v # w => (Busy(v)' <=> Busy(v))
  BY <1>2 DEF Busy
<1>5. CASE n = k
  <2>1. ~Visited(n)
    BY <1>5 DEF Visited
  <2>2. job'[w].node = n /\ ~(job'[w].step > 1)
    BY <1>2, <1>5
  <2>. QED
    BY <1>3, <2>1, <2>2 DEF Visited
<1>6. CASE n # k
  BY <1>1, <1>2, <1>3, <1>4, <1>6 DEF Visited
<1>. QED
  BY <1>5, <1>6

LEMMA FinishedStayVisited ==
  ASSUME ParInv, phase \in {"arrival_pre", "required_pre"},
         NEW w \in Workers, FinishNode(w), NEW n
  PROVE  Visited(n)' <=> Visited(n)
<1>1. job' = [job EXCEPT ![w] = NoJob] /\ pending' = pending
  BY DEF FinishNode, loop
<1>2. \A v \in Workers : job'[v] = IF v = w THEN NoJob ELSE job[v]
  BY <1>1 DEF ParInv, TypeOK
<1>3. ~Busy(w)' /\ \A v \in Workers : v # w => (Busy(v)' <=> Busy(v))
  BY <1>2 DEF Busy
<1>4. job[w].step > 1
  BY DEF FinishNode, Steps
<1>. QED
  BY <1>1, <1>2, <1>3, <1>4 DEF Visited

LEMMA StepVisits ==
  ASSUME ParInv, phase \in {"arrival_pre", "required_pre"},
         NEW w \in Workers, VisitStep(w), NEW n
  PROVE  /\ Visited(n)' <=> Visited(n) \/ n = job[w].node
         /\ ~Visited(job[w].node)
<1>1. /\ Busy(w) /\ pending' = pending
      /\ job' = [job EXCEPT ![w].step = job[w].step + 1]
      /\ job[w].step <= 1
  BY DEF VisitStep, loop, Steps
<1>2. /\ job[w].step = 1
      /\ job[w].node \notin pending
      /\ \A v \in Workers : v # w /\ Busy(v) => job[v].node # job[w].node
  BY <1>1 DEF ParInv, TypeOK, JobsInLoop, JobsDiffer
<1>3. \A v \in Workers :
        /\ job'[v].node = job[v].node
        /\ job'[v].step = IF v = w THEN 2 ELSE job[v].step
  BY <1>1, <1>2 DEF ParInv, TypeOK
<1>4. \A v \in Workers : Busy(v)' <=> Busy(v)
  <2>1. \A v \in Workers : v # w => job'[v] = job[v]
    BY <1>1 DEF ParInv, TypeOK
  <2>2. Busy(w)'
    BY <1>3 DEF Busy, NoJob
  <2>. QED
    BY <1>1, <2>1, <2>2 DEF Busy
<1>5. ~Visited(job[w].node)
  BY <1>1, <1>2 DEF Visited
<1>6. Visited(n)' <=> Visited(n) \/ n = job[w].node
  BY <1>1, <1>2, <1>3, <1>4 DEF Visited
<1>. QED
  BY <1>5, <1>6

(***************************************************************************)
(* The step of a counting loop: the worker's counter and the visited nodes *)
(* to be counted grow together.                                            *)
(***************************************************************************)
LEMMA StepCounts ==
  ASSUME CountInv, phase \in {"arrival_pre", "required_pre"}, NEW w \in Workers, VisitStep(w),
         Open' = Open
  PROVE  Sum(local') = Cardinality({n \in Open' : Visited(n)'})
<1>. DEFINE k    == job[w].node
            seen == {n \in Open : Visited(n)}
<1>1. Sum(local) = Cardinality(seen)
  BY DEF CountInv, CountedSoFar
<1>2. {n \in Open' : Visited(n)'} = IF k \in Open THEN seen \cup {k} ELSE seen
  BY StepVisits DEF CountInv
<1>3. k \notin seen
  BY StepVisits DEF CountInv
<1>4. IsFiniteSet(seen)
  <2>1. seen \subseteq Nodes
    BY DEF Open, OpenStarts, OpenEnds, level_nodes, logical_outputs
  <2>2. IsFiniteSet(Nodes)
    BY TGAssumption DEF GraphOK
  <2>. QED
    BY <2>1, <2>2, FS_Subset, Zenon
<1>5. k \in LoopNodes(phase, level)
  BY DEF CountInv, ParInv, JobsInLoop, VisitStep
<1>6. k \in Open <=> ~Constrained(k)
  <2>1. CASE phase = "arrival_pre"
    BY <1>5, <2>1, SeedConstraint DEF Open, OpenStarts, Constrained, LoopNodes
  <2>2. CASE phase = "required_pre"
    BY <1>5, <2>2 DEF Open, OpenEnds, Constrained, LoopNodes, do_required_pre_traverse_node
  <2>. QED
    BY <2>1, <2>2
<1>7. local' = IF Constrained(k) THEN local ELSE [local EXCEPT ![w] = @ + 1]
  BY DEF VisitStep
<1>8. CASE Constrained(k)
  BY <1>1, <1>2, <1>6, <1>7, <1>8
<1>9. CASE ~Constrained(k)
  <2>1. Sum(local') = Sum(local) + 1
    BY <1>7, <1>9, SumCountsOneMore DEF CountInv, CountTypes
  <2>2. Cardinality(seen \cup {k}) = Cardinality(seen) + 1
    BY <1>3, <1>4, FS_AddElement
  <2>. QED
    BY <1>1, <1>2, <1>6, <1>9, <2>1, <2>2
<1>. QED
  BY <1>8, <1>9

(***************************************************************************)
(* The steps of the invariant.  The start points to be counted never       *)
(* change; the end points are the same as long as their tags are.          *)
(***************************************************************************)
LEMMA StartsFixed == OpenStarts' = OpenStarts
BY DEF OpenStarts, SeedOf

LEMMA EndsFixed ==
  ASSUME \A n \in logical_outputs : tags'[n] = tags[n]
  PROVE  OpenEnds' = OpenEnds
BY DEF OpenEnds, is_constrained, HasTag

LEMMA CountInvKept ==
  ASSUME CountInv, ParInv', UNCHANGED <<phase, updated, local, unconstrained, tags>>,
         phase \in {"arrival_pre", "required_pre"} => \A n : Visited(n)' <=> Visited(n)
  PROVE  CountInv'
<1>1. OpenEnds' = OpenEnds /\ OpenStarts' = OpenStarts
  BY EndsFixed, StartsFixed
<1>2. Open' = Open
  BY <1>1 DEF Open
<1>3. CountedSoFar'
  BY <1>2 DEF CountInv, CountedSoFar
<1>. QED
  BY <1>1, <1>3 DEF CountInv, CountTypes, StartsCounted, EndsCounted

LEMMA CountInvVisit ==
  ASSUME CountInv, ParInv', NEW w \in Workers, VisitStep(w)
  PROVE  CountInv'
<1>. DEFINE k == job[w].node
            i == job[w].step
<1>1. /\ Busy(w) /\ i <= Steps(k) /\ i \in Nat \ {0}
      /\ k \in LoopNodes(phase, level) /\ k \in Nodes
      /\ tags' = [tags EXCEPT ![k] = StepTags(k, i)]
      /\ local' = IF Constrained(k) THEN local ELSE [local EXCEPT ![w] = @ + 1]
      /\ UNCHANGED <<updated, phase, level, pending, unconstrained>>
  BY LoopOverNodes DEF VisitStep, loop, outcome, CountInv, ParInv, JobsInLoop, TypeOK
<1>. HIDE DEF k, i
<1>2. \A n \in Nodes : tags'[n] = IF n = k THEN StepTags(k, i) ELSE tags[n]
  BY <1>1 DEF CountInv, CountTypes
<1>3. CountTypes'
  <2>1. tags' = [n \in Nodes |-> tags'[n]]
    BY <1>1 DEF CountInv, CountTypes
  <2>. QED
    BY <1>1, <2>1 DEF CountInv, CountTypes
<1>4. phase \in {"required_pre", "required", "slack"} => OpenEnds' = OpenEnds
  <2>. SUFFICES ASSUME phase \in {"required_pre", "required", "slack"},
                       NEW n \in logical_outputs
                PROVE  tags'[n] = tags[n]
    BY EndsFixed
  <2>1. n \in Nodes
    BY DEF logical_outputs, level_nodes
  <2>. QED
    BY <1>1, <1>2, <2>1, EndTagsKept
<1>5. StartsCounted'
  BY <1>1, StartsFixed DEF CountInv, StartsCounted
<1>6. EndsCounted'
  <2>1. phase # "idle"
    BY <1>1 DEF LoopNodes
  <2>. QED
    BY <1>1, <1>4, <2>1 DEF CountInv, EndsCounted
<1>7. CountedSoFar'
  <2>. SUFFICES ASSUME phase \in {"arrival_pre", "required_pre"}
                PROVE  Sum(local') = Cardinality({n \in Open' : Visited(n)'})
    BY <1>1 DEF CountedSoFar
  <2>1. Open' = Open
    BY <1>1, <1>4, StartsFixed DEF Open
  <2>. QED
    BY <2>1, StepCounts
<1>. QED
  BY <1>3, <1>5, <1>6, <1>7 DEF CountInv

LEMMA CountInvEndLoop ==
  ASSUME CountInv, ParInv', EndLoop
  PROVE  CountInv'
<1>1. /\ phase # "idle" /\ pending = {} /\ \A w \in Workers : ~Busy(w)
      /\ phase' = NextLoop(phase, level)[1]
      /\ pending' = LoopNodes(phase', level')
      /\ local' = [w \in Workers |-> 0]
      /\ UNCHANGED <<job, tags>>
      /\ unconstrained' =
           CASE phase = "arrival_pre"  -> [unconstrained EXCEPT !.startpoints = Combined]
             [] phase = "required_pre" -> [unconstrained EXCEPT !.endpoints = Combined]
             [] OTHER -> unconstrained
      /\ updated' = (updated \/ phase = "slack")
  BY DEF EndLoop, LoopDone, Enter, results
<1>2. Combined = Sum(local) /\ Sum(local) \in Nat
  <2>1. PICK w \in Workers : TRUE
    BY ParallelAssumption
  <2>. QED
    BY <2>1, CombinedIsSum, SumCountsOneMore DEF CountInv, CountTypes
<1>3. Sum(local') = 0
  BY <1>1, SumOfZeros
<1>4. phase \in {"arrival_pre", "required_pre"} => Sum(local) = Cardinality(Open)
  <2>1. \A n : Visited(n)
    BY <1>1 DEF Visited
  <2>. QED
    BY <2>1 DEF CountInv, CountedSoFar
<1>5. OpenEnds' = OpenEnds /\ OpenStarts' = OpenStarts
  BY <1>1, EndsFixed, StartsFixed
<1>6. CountTypes'
  BY <1>1, <1>2 DEF CountInv, CountTypes
<1>7. CountedSoFar'
  <2>. SUFFICES ASSUME phase' \in {"arrival_pre", "required_pre"}
                PROVE  Sum(local') = Cardinality({n \in Open' : Visited(n)'})
    BY DEF CountedSoFar
  <2>1. \A n \in Open' : n \in pending'
    BY <1>1 DEF Open, OpenStarts, OpenEnds, LoopNodes
  <2>2. {n \in Open' : Visited(n)'} = {}
    BY <2>1 DEF Visited
  <2>. QED
    BY <1>3, <2>2, FS_EmptySet
<1>8. /\ phase' \in {"arrival", "required_pre", "required", "slack"} =>
           phase \in {"arrival_pre", "arrival", "required_pre", "required"}
      /\ phase' \in {"required", "slack"} => phase \in {"required_pre", "required"}
      /\ phase' = "idle" => phase = "slack"
  <2>1. phase \in Phases \ {"idle"} /\ level \in Int /\ LastLevel \in Int
    BY <1>1, GraphFacts DEF CountInv, ParInv, TypeOK
  <2>. QED
    BY <1>1, <2>1 DEF NextLoop, Phases
<1>9. StartsCounted'
  BY <1>1, <1>2, <1>4, <1>5, <1>8 DEF CountInv, CountTypes, StartsCounted, Open
<1>10. EndsCounted'
  BY <1>1, <1>2, <1>4, <1>5, <1>8 DEF CountInv, CountTypes, EndsCounted, Open
<1>. QED
  BY <1>6, <1>7, <1>9, <1>10 DEF CountInv

LEMMA CountInvStep == CountInv /\ [Next]_vars => CountInv'
<1>. SUFFICES ASSUME CountInv, [Next]_vars PROVE CountInv'
  OBVIOUS
<1>0. ParInv /\ ParInv'
  BY ParInvStep DEF CountInv
<1>1. CASE ChangeDelay
  BY <1>0, <1>1, CountInvKept DEF ChangeDelay, loop, outcome, results
<1>2. CASE update_timing
  BY <1>0, <1>2 DEF update_timing, Enter, outcome, results, CountInv, CountTypes,
                    CountedSoFar, StartsCounted, EndsCounted
<1>3. ASSUME NEW w \in Workers, TakeNode(w) PROVE CountInv'
  <2>1. UNCHANGED <<phase, updated, local, unconstrained, tags>>
    BY <1>3 DEF TakeNode, outcome, results
  <2>2. \A n : Visited(n)' <=> Visited(n)
    BY <1>0, <1>3, TakenNotVisited
  <2>. QED
    BY <1>0, <2>1, <2>2, CountInvKept
<1>4. ASSUME NEW w \in Workers, VisitStep(w) PROVE CountInv'
  BY <1>0, <1>4, CountInvVisit
<1>5. ASSUME NEW w \in Workers, FinishNode(w) PROVE CountInv'
  <2>1. UNCHANGED <<phase, updated, local, unconstrained, tags>>
    BY <1>5 DEF FinishNode, loop, outcome, results
  <2>2. phase \in {"arrival_pre", "required_pre"} => \A n : Visited(n)' <=> Visited(n)
    BY <1>0, <1>5, FinishedStayVisited
  <2>. QED
    BY <1>0, <2>1, <2>2, CountInvKept
<1>6. CASE EndLoop
  BY <1>0, <1>6, CountInvEndLoop
<1>7. CASE UNCHANGED vars
  <2>1. UNCHANGED <<phase, updated, local, unconstrained, tags, pending, job>>
    BY <1>7 DEF vars, loop, outcome, results
  <2>2. \A n : Visited(n)' <=> Visited(n)
    BY <2>1 DEF Visited, Busy
  <2>. QED
    BY <1>0, <2>1, <2>2, CountInvKept
<1>. QED
  BY <1>1, <1>2, <1>3, <1>4, <1>5, <1>6, <1>7 DEF Next

(***************************************************************************)
(* Every update counts each unconstrained start and end point once, with   *)
(* any number of workers and however they share the nodes.                 *)
(***************************************************************************)
THEOREM EveryUnconstrainedCounted == Spec => []UnconstrainedCounted
<1>1. Init => CountInv
  BY CountInvInit
<1>2. CountInv /\ [Next]_vars => CountInv'
  BY CountInvStep
<1>3. CountInv => UnconstrainedCounted
  BY CountInvCounts
<1>. QED
  BY <1>1, <1>2, <1>3, PTL DEF Spec

(***************************************************************************)
(* The order of the serial walk has every node once, by level.             *)
(***************************************************************************)
LEMMA PrecedesIsTotalOrder ==
  ASSUME NEW a \in Nodes, NEW b \in Nodes
  PROVE  /\ ~Precedes(a, a)
         /\ a # b => Precedes(a, b) \/ Precedes(b, a)
         /\ Precedes(a, b) => node_level(a) <= node_level(b)
         /\ \A k \in Nodes : Precedes(k, a) /\ Precedes(a, b) => Precedes(k, b)
<1>1. \A n \in Nodes : n \in Int /\ node_level(n) \in Int
  BY GraphFacts DEF Levels
<1>. QED
  BY <1>1 DEF Precedes

Ahead(n) == {k \in Nodes : Precedes(k, n)}

LEMMA NodesRanked ==
  /\ Cardinality(Nodes) \in Nat
  /\ \A n \in Nodes : Cardinality(Ahead(n)) \in 0 .. Cardinality(Nodes) - 1
  /\ \A a, b \in Nodes : Precedes(a, b) => Cardinality(Ahead(a)) < Cardinality(Ahead(b))
<1>1. IsFiniteSet(Nodes) /\ Cardinality(Nodes) \in Nat
  BY TGAssumption, FS_CardinalityType DEF GraphOK
<1>2. ASSUME NEW n \in Nodes
      PROVE  /\ IsFiniteSet(Ahead(n)) /\ Cardinality(Ahead(n)) \in Nat
             /\ n \notin Ahead(n)
             /\ Cardinality(Ahead(n)) < Cardinality(Nodes)
  <2>1. Ahead(n) \in SUBSET Nodes /\ n \notin Ahead(n)
    BY PrecedesIsTotalOrder DEF Ahead
  <2>2. /\ IsFiniteSet(Ahead(n)) /\ Cardinality(Ahead(n)) <= Cardinality(Nodes)
        /\ Cardinality(Nodes) # Cardinality(Ahead(n))
    BY <1>1, <2>1, FS_Subset
  <2>3. Cardinality(Ahead(n)) \in Nat
    BY <2>2, FS_CardinalityType
  <2>. QED
    BY <1>1, <2>1, <2>2, <2>3
<1>3. ASSUME NEW a \in Nodes, NEW b \in Nodes, Precedes(a, b)
      PROVE  Cardinality(Ahead(a)) < Cardinality(Ahead(b))
  <2>1. Ahead(a) \in SUBSET Ahead(b) /\ a \in Ahead(b)
    BY <1>3, PrecedesIsTotalOrder DEF Ahead
  <2>2. /\ Cardinality(Ahead(a)) <= Cardinality(Ahead(b))
        /\ Cardinality(Ahead(b)) # Cardinality(Ahead(a))
    BY <1>2, <2>1, FS_Subset
  <2>. QED
    BY <1>2, <2>2
<1>. QED
  BY <1>1, <1>2, <1>3

LEMMA EveryPlaceTaken ==
  \A i \in 1 .. Cardinality(Nodes) : \E n \in Nodes : Cardinality(Ahead(n)) = i - 1
<1>. DEFINE N     == Cardinality(Nodes)
            places == 0 .. N - 1
            rank   == [n \in Nodes |-> Cardinality(Ahead(n))]
<1>1. N \in Nat
  BY NodesRanked
<1>. HIDE DEF N
<1>2. rank \in [Nodes -> places]
  BY NodesRanked DEF N
<1>3. \A a, b \in Nodes : a # b => rank[a] # rank[b]
  <2>. SUFFICES ASSUME NEW a \in Nodes, NEW b \in Nodes, a # b PROVE rank[a] # rank[b]
    OBVIOUS
  <2>1. rank[a] \in Int /\ rank[b] \in Int
    BY <1>1, <1>2
  <2>2. Precedes(a, b) \/ Precedes(b, a)
    BY PrecedesIsTotalOrder
  <2>3. rank[a] < rank[b] \/ rank[b] < rank[a]
    BY <2>2, NodesRanked
  <2>. QED
    BY <2>1, <2>3
<1>4. IsFiniteSet(places) /\ Cardinality(places) = Cardinality(Nodes)
  <2>1. IsFiniteSet(places) /\ Cardinality(places) = IF 0 > N - 1 THEN 0 ELSE (N - 1) - 0 + 1
    BY <1>1, FS_Interval
  <2>. QED
    BY <1>1, <2>1 DEF N
<1>. HIDE DEF places, rank
<1>5. rank \in Injection(Nodes, places)
  BY <1>2, <1>3 DEF Injection, IsInjective
<1>6. rank \in Surjection(Nodes, places)
  BY <1>4, <1>5, FS_Injection
<1>7. \A p \in places : \E n \in Nodes : rank[n] = p
  BY <1>6 DEF Surjection
<1>. QED
  BY <1>1, <1>7 DEF rank, places, N

LEMMA LevelOrderSorted ==
  /\ LevelOrder \in [1 .. Cardinality(Nodes) -> Nodes]
  /\ \A n \in Nodes : \E i \in 1 .. Cardinality(Nodes) : LevelOrder[i] = n
  /\ \A i, j \in 1 .. Cardinality(Nodes) : i < j =>
        /\ LevelOrder[i] # LevelOrder[j]
        /\ node_level(LevelOrder[i]) <= node_level(LevelOrder[j])
<1>. DEFINE N == Cardinality(Nodes)
<1>1. ASSUME NEW i \in 1 .. N
      PROVE  LevelOrder[i] \in Nodes /\ Cardinality(Ahead(LevelOrder[i])) = i - 1
  <2>1. LevelOrder[i] = CHOOSE n \in Nodes : Cardinality(Ahead(n)) = i - 1
    BY DEF LevelOrder, Ahead
  <2>. QED
    BY <2>1, EveryPlaceTaken
<1>2. LevelOrder \in [1 .. N -> Nodes]
  BY <1>1 DEF LevelOrder
<1>3. ASSUME NEW a \in Nodes, NEW b \in Nodes, Cardinality(Ahead(a)) = Cardinality(Ahead(b))
      PROVE  a = b
  <2>1. Cardinality(Ahead(a)) \in Int
    BY NodesRanked
  <2>. QED
    BY <1>3, <2>1, NodesRanked, PrecedesIsTotalOrder
<1>4. ASSUME NEW n \in Nodes PROVE \E i \in 1 .. N : LevelOrder[i] = n
  <2>. DEFINE i == Cardinality(Ahead(n)) + 1
  <2>1. i \in 1 .. N /\ i - 1 = Cardinality(Ahead(n))
    BY NodesRanked
  <2>2. LevelOrder[i] = n
    BY <1>1, <1>3, <2>1
  <2>. QED
    BY <2>1, <2>2
<1>5. ASSUME NEW i \in 1 .. N, NEW j \in 1 .. N, i < j
      PROVE  /\ LevelOrder[i] # LevelOrder[j]
             /\ node_level(LevelOrder[i]) <= node_level(LevelOrder[j])
  <2>. DEFINE a == LevelOrder[i]
              b == LevelOrder[j]
  <2>1. /\ a \in Nodes /\ Cardinality(Ahead(a)) = i - 1
        /\ b \in Nodes /\ Cardinality(Ahead(b)) = j - 1
    BY <1>1
  <2>. HIDE DEF a, b
  <2>2. a # b /\ ~Precedes(b, a)
    BY <1>5, <2>1, NodesRanked
  <2>3. Precedes(a, b)
    BY <2>1, <2>2, PrecedesIsTotalOrder
  <2>4. node_level(a) <= node_level(b)
    BY <2>1, <2>3, PrecedesIsTotalOrder
  <2>. QED
    BY <2>2, <2>4 DEF a, b
<1>. QED
  BY <1>2, <1>4, <1>5

(***************************************************************************)
(* The folds of a visit over the edges of a node, and of a serial walk     *)
(* over the nodes.                                                         *)
(***************************************************************************)
Greatest(s) == Max(s)

ArrivalPull(c, e, acc) ==
  IF edge_disabled(e) THEN acc
  ELSE Then(acc, do_arrival_traverse_edge(Mode, c.delay, c.tags, e, acc.tags))

RequiredPull(c, e, acc) ==
  IF edge_disabled(e) THEN acc
  ELSE Then(acc, do_required_traverse_edge(Mode, c.delay, c.tags, e, acc.tags))

ArrivalVisit(d, n, ts) ==
  [ts EXCEPT ![n] = do_arrival_traverse_node(Mode, d, ts, n, ts[n]).tags]

RequiredVisit(d, n, ts) ==
  [ts EXCEPT ![n] = do_required_traverse_node(Mode, d, ts, n, ts[n]).tags]

Arrivals  == INSTANCE FoldLemmas WITH Op <- ArrivalPull, Pick <- Greatest
Requireds == INSTANCE FoldLemmas WITH Op <- RequiredPull, Pick <- Greatest
ArrivalWalk  == INSTANCE FoldLemmas WITH Op <- ArrivalVisit, Pick <- Greatest
RequiredWalk == INSTANCE FoldLemmas WITH Op <- RequiredVisit, Pick <- Greatest

LEMMA PullFolds ==
  /\ Arrivals!Basics /\ \A s : Greatest(s) = Arrivals!Greatest(s)
  /\ Requireds!Basics /\ \A s : Greatest(s) = Requireds!Greatest(s)
  /\ ArrivalWalk!Basics /\ \A s : Greatest(s) = ArrivalWalk!Greatest(s)
  /\ RequiredWalk!Basics /\ \A s : Greatest(s) = RequiredWalk!Greatest(s)
<1>1. /\ \A s : Greatest(s) = Arrivals!Greatest(s)
      /\ \A s : Greatest(s) = Requireds!Greatest(s)
      /\ \A s : Greatest(s) = ArrivalWalk!Greatest(s)
      /\ \A s : Greatest(s) = RequiredWalk!Greatest(s)
  BY DEF Greatest, Max, Arrivals!Greatest, Requireds!Greatest, ArrivalWalk!Greatest, RequiredWalk!Greatest
<1>2. Arrivals!Basics
  BY FoldBasics, Zenon DEF Arrivals!Basics, Arrivals!Induction, Arrivals!Counted, Arrivals!Greatest
<1>3. Requireds!Basics
  BY FoldBasics, Zenon DEF Requireds!Basics, Requireds!Induction, Requireds!Counted, Requireds!Greatest
<1>4. ArrivalWalk!Basics
  BY FoldBasics, Zenon DEF ArrivalWalk!Basics, ArrivalWalk!Induction, ArrivalWalk!Counted, ArrivalWalk!Greatest
<1>5. RequiredWalk!Basics
  BY FoldBasics, Zenon DEF RequiredWalk!Basics, RequiredWalk!Induction, RequiredWalk!Counted, RequiredWalk!Greatest
<1>. QED
  BY <1>1, <1>2, <1>3, <1>4, <1>5

Fanin(n)  == Len(node_in_edges(n))
Fanout(n) == Len(node_out_edges(n))

LEMMA EdgeLists ==
  ASSUME NEW n \in Nodes
  PROVE  /\ Fanin(n) \in Nat /\ DOMAIN node_in_edges(n) = 1 .. Fanin(n)
         /\ Fanout(n) \in Nat /\ DOMAIN node_out_edges(n) = 1 .. Fanout(n)
         /\ \A i \in 1 .. Fanin(n) : node_in_edges(n)[i] \in InEdges(n)
         /\ \A i \in 1 .. Fanout(n) : node_out_edges(n)[i] \in OutEdges(n)
BY ParallelAssumption DEF EdgeListsOK, Fanin, Fanout

At(d, ts) == [delay |-> d, tags |-> ts]

ArrivalsPulled(d, ts, n, own) ==
  Arrivals!Result(At(d, ts), Unmodified(own), node_in_edges(n), 1 .. Fanin(n))

RequiredsPulled(d, ts, n, own) ==
  Requireds!Result(At(d, ts), Unmodified(own), node_out_edges(n), 1 .. Fanout(n))

LEMMA ArrivalNodeIsFold ==
  ASSUME NEW d, NEW ts, NEW n \in Nodes, NEW own
  PROVE  do_arrival_traverse_node(Mode, d, ts, n, own) =
           LET arrived == ArrivalsPulled(d, ts, n, own)
           IN  IF node_type(n) = "SINK"
               THEN Then(arrived, mark_sink_required_times(Mode, d, ts, n, arrived.tags))
               ELSE arrived
<1>1. At(d, ts).delay = d /\ At(d, ts).tags = ts
  BY DEF At
<1>2. DOMAIN node_in_edges(n) = 1 .. Fanin(n)
  BY EdgeLists
<1>. QED
  BY <1>1, <1>2 DEF do_arrival_traverse_node, FoldLeft, MapThenFoldSet, ArrivalsPulled,
       Arrivals!Result, Arrivals!Recursive, ArrivalPull, Greatest

LEMMA RequiredNodeIsFold ==
  ASSUME NEW d, NEW ts, NEW n \in Nodes, NEW own
  PROVE  do_required_traverse_node(Mode, d, ts, n, own) =
           IF node_type(n) = "CPIN" THEN Unmodified(own)
                                    ELSE RequiredsPulled(d, ts, n, own)
<1>1. At(d, ts).delay = d /\ At(d, ts).tags = ts
  BY DEF At
<1>2. DOMAIN node_out_edges(n) = 1 .. Fanout(n)
  BY EdgeLists
<1>. QED
  BY <1>1, <1>2 DEF do_required_traverse_node, FoldLeft, MapThenFoldSet, RequiredsPulled,
       Requireds!Result, Requireds!Recursive, RequiredPull, Greatest

(***************************************************************************)
(* What a visit reads of the other containers: those at the far ends of    *)
(* its edges.                                                              *)
(***************************************************************************)
LEMMA ArrivalEdgeReads ==
  ASSUME NEW d, NEW ts, NEW us, NEW e, NEW own,
         ts[edge_src_node(e)] = us[edge_src_node(e)]
  PROVE  do_arrival_traverse_edge(Mode, d, ts, e, own) =
         do_arrival_traverse_edge(Mode, d, us, e, own)
<1>1. ArrivalRequests(Mode, d, ts, e) = ArrivalRequests(Mode, d, us, e)
  BY Zenon DEF ArrivalRequests
<1>. QED
  BY <1>1, Zenon DEF do_arrival_traverse_edge

LEMMA RequiredEdgeReads ==
  ASSUME NEW d, NEW ts, NEW us, NEW e, NEW own,
         ts[edge_sink_node(e)] = us[edge_sink_node(e)]
  PROVE  do_required_traverse_edge(Mode, d, ts, e, own) =
         do_required_traverse_edge(Mode, d, us, e, own)
<1>1. RequiredRequests(Mode, d, ts, e) = RequiredRequests(Mode, d, us, e)
  BY Zenon DEF RequiredRequests
<1>. QED
  BY <1>1, Zenon DEF do_required_traverse_edge

FlipFlopRequests(d, n, e, captures, arrivals) ==
  FlattenSeq([i \in DOMAIN captures |->
    FlattenSeq([j \in DOMAIN arrivals |->
      FlipFlopRequest(Mode, d, n, e, captures[i], arrivals[j])])])

LEMMA SinkReads ==
  ASSUME NEW d, NEW ts, NEW us, NEW n, NEW own,
         node_clock_capture_edge(n) # NoEdge =>
           ts[edge_src_node(node_clock_capture_edge(n))] =
           us[edge_src_node(node_clock_capture_edge(n))]
  PROVE  mark_sink_required_times(Mode, d, ts, n, own) =
         mark_sink_required_times(Mode, d, us, n, own)
<1>. DEFINE e    == node_clock_capture_edge(n)
            arrs == own["DATA_ARRIVAL"]
<1>1. CASE e # NoEdge
  <2>1. /\ SinkRequests(Mode, d, ts, n, arrs) =
             FlipFlopRequests(d, n, e, ts[edge_src_node(e)]["CLOCK_CAPTURE"], arrs)
        /\ SinkRequests(Mode, d, us, n, arrs) =
             FlipFlopRequests(d, n, e, us[edge_src_node(e)]["CLOCK_CAPTURE"], arrs)
    BY <1>1, Zenon DEF SinkRequests, FlipFlopRequests
  <2>2. ts[edge_src_node(e)] = us[edge_src_node(e)]
    BY <1>1
  <2>3. SinkRequests(Mode, d, ts, n, arrs) = SinkRequests(Mode, d, us, n, arrs)
    BY <2>1, <2>2, Zenon
  <2>. QED
    BY <2>3, Zenon DEF mark_sink_required_times
<1>2. CASE e = NoEdge
  <2>1. SinkRequests(Mode, d, ts, n, arrs) = SinkRequests(Mode, d, us, n, arrs)
    BY <1>2, Zenon DEF SinkRequests
  <2>. QED
    BY <2>1, Zenon DEF mark_sink_required_times
<1>. QED
  BY <1>1, <1>2

(***************************************************************************)
(* A visit reads other levels only, so that two states which agree on them *)
(* give it the same result.                                                *)
(***************************************************************************)
AgreeOffLevel(n, ts, us) ==
  \A k \in Nodes : node_level(k) # node_level(n) => ts[k] = us[k]

LEMMA PulledEnds ==
  ASSUME NEW n \in Nodes, NEW ts, NEW us, AgreeOffLevel(n, ts, us)
  PROVE  /\ \A i \in 1 .. Fanin(n) :
              LET e == node_in_edges(n)[i]
              IN  edge_disabled(e) \/ ts[edge_src_node(e)] = us[edge_src_node(e)]
         /\ \A i \in 1 .. Fanout(n) :
              LET e == node_out_edges(n)[i]
              IN  edge_disabled(e) \/ ts[edge_sink_node(e)] = us[edge_sink_node(e)]
         /\ LET e == node_clock_capture_edge(n)
            IN  e # NoEdge => ts[edge_src_node(e)] = us[edge_src_node(e)]
<1>0. /\ \A e \in Edges : edge_src_node(e) \in Nodes /\ edge_sink_node(e) \in Nodes
      /\ \A k \in Nodes : node_level(k) \in Int
  BY TGAssumption, GraphFacts DEF GraphOK, edge_src_node, edge_sink_node, Levels
<1>1. ASSUME NEW i \in 1 .. Fanin(n), ~edge_disabled(node_in_edges(n)[i])
      PROVE  ts[edge_src_node(node_in_edges(n)[i])] = us[edge_src_node(node_in_edges(n)[i])]
  <2>. DEFINE e == node_in_edges(n)[i]
  <2>1. e \in Edges
    BY EdgeLists DEF InEdges
  <2>2. node_level(edge_src_node(e)) < node_level(n)
    BY <1>1, PulledEdges DEF Fanin
  <2>. QED
    BY <1>0, <2>1, <2>2 DEF AgreeOffLevel
<1>2. ASSUME NEW i \in 1 .. Fanout(n), ~edge_disabled(node_out_edges(n)[i])
      PROVE  ts[edge_sink_node(node_out_edges(n)[i])] = us[edge_sink_node(node_out_edges(n)[i])]
  <2>. DEFINE e == node_out_edges(n)[i]
  <2>1. e \in Edges
    BY EdgeLists DEF OutEdges
  <2>2. node_level(edge_sink_node(e)) > node_level(n)
    BY <1>2, PulledEdges DEF Fanout
  <2>. QED
    BY <1>0, <2>1, <2>2 DEF AgreeOffLevel
<1>3. ASSUME node_clock_capture_edge(n) # NoEdge
      PROVE  LET k == edge_src_node(node_clock_capture_edge(n)) IN ts[k] = us[k]
  <2>. DEFINE k == edge_src_node(node_clock_capture_edge(n))
  <2>1. k \in Nodes
    BY <1>3, ParallelAssumption, <1>0 DEF CaptureIsInEdge, InEdges
  <2>2. node_level(k) # node_level(n)
    BY <1>3, ParallelAssumption DEF CaptureOnOtherLevel
  <2>. QED
    BY <2>1, <2>2 DEF AgreeOffLevel
<1>. QED
  BY <1>1, <1>2, <1>3

LEMMA ArrivalVisitReads ==
  ASSUME NEW d, NEW n \in Nodes, NEW ts, NEW us, NEW own, AgreeOffLevel(n, ts, us)
  PROVE  do_arrival_traverse_node(Mode, d, ts, n, own) =
         do_arrival_traverse_node(Mode, d, us, n, own)
<1>. DEFINE list == node_in_edges(n)
<1>1. ASSUME NEW i \in 1 .. Fanin(n), NEW acc
      PROVE  ArrivalPull(At(d, ts), list[i], acc) = ArrivalPull(At(d, us), list[i], acc)
  <2>1. edge_disabled(list[i]) \/ ts[edge_src_node(list[i])] = us[edge_src_node(list[i])]
    BY PulledEnds
  <2>2. /\ At(d, ts).delay = d /\ At(d, ts).tags = ts
        /\ At(d, us).delay = d /\ At(d, us).tags = us
    BY DEF At
  <2>3. CASE edge_disabled(list[i])
    BY <2>3 DEF ArrivalPull
  <2>4. CASE ts[edge_src_node(list[i])] = us[edge_src_node(list[i])]
    <3>1. do_arrival_traverse_edge(Mode, d, ts, list[i], acc.tags) =
          do_arrival_traverse_edge(Mode, d, us, list[i], acc.tags)
      BY <2>4, ArrivalEdgeReads
    <3>. QED
      BY <2>2, <3>1 DEF ArrivalPull
  <2>. QED
    BY <2>1, <2>3, <2>4
<1>2. Fanin(n) \in Nat /\ Arrivals!Basics /\ \A s : Greatest(s) = Arrivals!Greatest(s)
  BY EdgeLists, PullFolds
<1>3. ArrivalsPulled(d, ts, n, own) = ArrivalsPulled(d, us, n, own)
  BY <1>1, <1>2, Arrivals!FoldCongruence DEF ArrivalsPulled
<1>4. ASSUME NEW arrived
      PROVE  mark_sink_required_times(Mode, d, ts, n, arrived) =
             mark_sink_required_times(Mode, d, us, n, arrived)
  BY PulledEnds, SinkReads
<1>. QED
  BY <1>3, <1>4, ArrivalNodeIsFold

LEMMA RequiredVisitReads ==
  ASSUME NEW d, NEW n \in Nodes, NEW ts, NEW us, NEW own, AgreeOffLevel(n, ts, us)
  PROVE  do_required_traverse_node(Mode, d, ts, n, own) =
         do_required_traverse_node(Mode, d, us, n, own)
<1>. DEFINE list == node_out_edges(n)
<1>1. ASSUME NEW i \in 1 .. Fanout(n), NEW acc
      PROVE  RequiredPull(At(d, ts), list[i], acc) = RequiredPull(At(d, us), list[i], acc)
  <2>1. edge_disabled(list[i]) \/ ts[edge_sink_node(list[i])] = us[edge_sink_node(list[i])]
    BY PulledEnds
  <2>2. /\ At(d, ts).delay = d /\ At(d, ts).tags = ts
        /\ At(d, us).delay = d /\ At(d, us).tags = us
    BY DEF At
  <2>3. CASE edge_disabled(list[i])
    BY <2>3 DEF RequiredPull
  <2>4. CASE ts[edge_sink_node(list[i])] = us[edge_sink_node(list[i])]
    <3>1. do_required_traverse_edge(Mode, d, ts, list[i], acc.tags) =
          do_required_traverse_edge(Mode, d, us, list[i], acc.tags)
      BY <2>4, RequiredEdgeReads
    <3>. QED
      BY <2>2, <3>1 DEF RequiredPull
  <2>. QED
    BY <2>1, <2>3, <2>4
<1>2. Fanout(n) \in Nat /\ Requireds!Basics /\ \A s : Greatest(s) = Requireds!Greatest(s)
  BY EdgeLists, PullFolds
<1>3. RequiredsPulled(d, ts, n, own) = RequiredsPulled(d, us, n, own)
  BY <1>1, <1>2, Requireds!FoldCongruence DEF RequiredsPulled
<1>. QED
  BY <1>3, RequiredNodeIsFold

(***************************************************************************)
(* The serial walk: what a node ends with after its arrival traversal      *)
(* (Arrived) and its required traversal (Finished).                        *)
(***************************************************************************)
Seeded      == do_arrival_pre_traversal(Mode, [n \in Nodes |-> NoTags])
Arrived(d)  == do_arrival_traversal(Mode, d, Seeded)
Finished(d) == do_required_traversal(Mode, d, Arrived(d))

ArrivalView(d, n) ==
  [k \in Nodes |-> IF node_level(k) < node_level(n) THEN Arrived(d)[k] ELSE Seeded[k]]

RequiredView(d, n) ==
  [k \in Nodes |-> IF node_level(k) > node_level(n) THEN Finished(d)[k] ELSE Arrived(d)[k]]

OfNodes(ts) == ts = [k \in Nodes |-> ts[k]]

LEMMA SerialArrival ==
  ASSUME NEW d
  PROVE  /\ OfNodes(Seeded) /\ OfNodes(Arrived(d))
         /\ \A n \in Nodes : Arrived(d)[n] =
              do_arrival_traverse_node(Mode, d, ArrivalView(d, n), n, Seeded[n]).tags
<1>. DEFINE N    == Cardinality(Nodes)
            rank == [n \in Nodes |-> node_level(n)]
            done == ArrivalWalk!Result(d, Seeded, LevelOrder, 1 .. N)
<1>1. N \in Nat /\ LevelOrder \in [1 .. N -> Nodes] /\ rank \in [Nodes -> Int]
  BY NodesRanked, LevelOrderSorted, GraphFacts DEF Levels
<1>2. /\ \A n \in Nodes : \E i \in 1 .. N : LevelOrder[i] = n
      /\ \A i, j \in 1 .. N : i < j =>
            LevelOrder[i] # LevelOrder[j] /\ rank[LevelOrder[i]] <= rank[LevelOrder[j]]
  BY <1>1, LevelOrderSorted
<1>3. OfNodes(Seeded) /\ ArrivalWalk!Keyed(Nodes, Seeded)
  BY DEF OfNodes, ArrivalWalk!Keyed, Seeded, do_arrival_pre_traversal
<1>4. ArrivalWalk!VisitsOnly(d, Nodes)
  BY DEF ArrivalWalk!VisitsOnly, ArrivalWalk!Keyed, ArrivalVisit
<1>5. ArrivalWalk!ReadsOthers(d, Nodes, rank)
  <2>. SUFFICES ASSUME NEW n \in Nodes, NEW ts, NEW us,
                       ArrivalWalk!Keyed(Nodes, ts), ArrivalWalk!Keyed(Nodes, us),
                       ts[n] = us[n], \A k \in Nodes : rank[k] # rank[n] => ts[k] = us[k]
                PROVE  ArrivalVisit(d, n, ts)[n] = ArrivalVisit(d, n, us)[n]
    BY DEF ArrivalWalk!ReadsOthers
  <2>1. AgreeOffLevel(n, ts, us)
    BY DEF AgreeOffLevel
  <2>2. do_arrival_traverse_node(Mode, d, ts, n, ts[n]) =
        do_arrival_traverse_node(Mode, d, us, n, us[n])
    BY <2>1, ArrivalVisitReads
  <2>3. n \in DOMAIN ts /\ n \in DOMAIN us
    BY DEF ArrivalWalk!Keyed
  <2>. QED
    BY <2>2, <2>3 DEF ArrivalVisit
<1>6. Arrived(d) = done
  <2>1. DOMAIN LevelOrder = 1 .. N
    BY <1>1
  <2>. QED
    BY <2>1 DEF Arrived, do_arrival_traversal, FoldLeft, MapThenFoldSet, ArrivalWalk!Result,
         ArrivalWalk!Recursive, ArrivalVisit, Greatest
<1>. HIDE DEF N, rank
<1>7. /\ ArrivalWalk!Keyed(Nodes, done)
      /\ \A n \in Nodes :
           done[n] = ArrivalVisit(d, n, ArrivalWalk!Before(Nodes, rank, n, done, Seeded))[n]
  <2>1. ArrivalWalk!InOrder(Nodes, rank, N, LevelOrder)
    BY <1>1, <1>2 DEF ArrivalWalk!InOrder
  <2>. QED
    BY <1>1, <1>3, <1>4, <1>5, <2>1, PullFolds, ArrivalWalk!WalkInOrder
<1>. HIDE DEF done
<1>8. OfNodes(Arrived(d))
  BY <1>6, <1>7 DEF OfNodes, ArrivalWalk!Keyed
<1>9. ASSUME NEW n \in Nodes
      PROVE  Arrived(d)[n] =
               do_arrival_traverse_node(Mode, d, ArrivalView(d, n), n, Seeded[n]).tags
  <2>. DEFINE view == ArrivalView(d, n)
  <2>1. ArrivalWalk!Before(Nodes, rank, n, done, Seeded) = view
    BY <1>6 DEF ArrivalWalk!Before, ArrivalView, rank
  <2>2. n \in DOMAIN view /\ view[n] = Seeded[n]
    BY GraphFacts DEF ArrivalView, Levels
  <2>3. done[n] = ArrivalVisit(d, n, view)[n]
    BY <1>7, <2>1
  <2>. HIDE DEF view
  <2>. QED
    BY <1>6, <2>2, <2>3 DEF ArrivalVisit, view
<1>. QED
  BY <1>3, <1>8, <1>9

LEMMA LevelsAreIntegers == \A k \in Nodes : node_level(k) \in Int
BY GraphFacts DEF Levels

LEMMA ReverseOrderSorted ==
  /\ Reverse(LevelOrder) \in [1 .. Cardinality(Nodes) -> Nodes]
  /\ \A n \in Nodes : \E i \in 1 .. Cardinality(Nodes) : Reverse(LevelOrder)[i] = n
  /\ \A i, j \in 1 .. Cardinality(Nodes) : i < j =>
        /\ Reverse(LevelOrder)[i] # Reverse(LevelOrder)[j]
        /\ node_level(Reverse(LevelOrder)[i]) >= node_level(Reverse(LevelOrder)[j])
<1>. DEFINE N    == Cardinality(Nodes)
            back == Reverse(LevelOrder)
<1>1. N \in Nat /\ LevelOrder \in [1 .. N -> Nodes]
  BY NodesRanked, LevelOrderSorted
<1>. HIDE DEF N
<1>2. Len(LevelOrder) = N
  BY <1>1
<1>3. back = [i \in 1 .. N |-> LevelOrder[(N - i) + 1]]
  BY <1>2 DEF Reverse
<1>4. \A i \in 1 .. N : (N - i) + 1 \in 1 .. N
  BY <1>1
<1>. HIDE DEF back
<1>5. back \in [1 .. N -> Nodes]
  BY <1>1, <1>3, <1>4
<1>6. ASSUME NEW n \in Nodes PROVE \E i \in 1 .. N : back[i] = n
  <2>1. PICK i \in 1 .. N : LevelOrder[i] = n
    BY LevelOrderSorted DEF N
  <2>2. (N - i) + 1 \in 1 .. N /\ (N - ((N - i) + 1)) + 1 = i
    BY <1>1
  <2>. QED
    BY <1>3, <2>1, <2>2
<1>7. ASSUME NEW i \in 1 .. N, NEW j \in 1 .. N, i < j
      PROVE  back[i] # back[j] /\ node_level(back[i]) >= node_level(back[j])
  <2>. DEFINE p == (N - j) + 1
              q == (N - i) + 1
  <2>1. p \in 1 .. N /\ q \in 1 .. N /\ p < q
    BY <1>1, <1>7
  <2>2. back[i] = LevelOrder[q] /\ back[j] = LevelOrder[p]
    BY <1>3
  <2>. HIDE DEF p, q
  <2>3. LevelOrder[p] # LevelOrder[q] /\ node_level(LevelOrder[p]) <= node_level(LevelOrder[q])
    BY <2>1, LevelOrderSorted DEF N
  <2>4. node_level(LevelOrder[p]) \in Int /\ node_level(LevelOrder[q]) \in Int
    BY <1>1, <2>1, LevelsAreIntegers
  <2>. QED
    BY <2>2, <2>3, <2>4
<1>. QED
  BY <1>5, <1>6, <1>7 DEF back, N

LEMMA SerialRequired ==
  ASSUME NEW d
  PROVE  /\ OfNodes(Finished(d))
         /\ \A n \in Nodes : Finished(d)[n] =
              do_required_traverse_node(Mode, d, RequiredView(d, n), n, Arrived(d)[n]).tags
<1>. DEFINE N    == Cardinality(Nodes)
            rank == [n \in Nodes |-> -node_level(n)]
            back == Reverse(LevelOrder)
            base == Arrived(d)
            done == RequiredWalk!Result(d, base, back, 1 .. N)
<1>1. N \in Nat /\ back \in [1 .. N -> Nodes] /\ rank \in [Nodes -> Int]
  BY NodesRanked, ReverseOrderSorted, GraphFacts DEF Levels
<1>. HIDE DEF base
<1>2. /\ \A n \in Nodes : \E i \in 1 .. N : back[i] = n
      /\ \A i, j \in 1 .. N : i < j =>
            back[i] # back[j] /\ rank[back[i]] <= rank[back[j]]
  <2>1. ASSUME NEW i \in 1 .. N, NEW j \in 1 .. N, i < j
        PROVE  back[i] # back[j] /\ rank[back[i]] <= rank[back[j]]
    <3>1. back[i] # back[j] /\ node_level(back[i]) >= node_level(back[j])
      BY <2>1, ReverseOrderSorted
    <3>2. back[i] \in Nodes /\ back[j] \in Nodes
      BY <1>1
    <3>3. node_level(back[i]) \in Int /\ node_level(back[j]) \in Int
      BY <3>2, LevelsAreIntegers
    <3>. HIDE DEF back
    <3>. QED
      BY <3>1, <3>2, <3>3
  <2>. QED
    BY <2>1, ReverseOrderSorted
<1>3. OfNodes(base) /\ RequiredWalk!Keyed(Nodes, base)
  BY SerialArrival DEF OfNodes, RequiredWalk!Keyed, base
<1>4. RequiredWalk!VisitsOnly(d, Nodes)
  BY DEF RequiredWalk!VisitsOnly, RequiredWalk!Keyed, RequiredVisit
<1>5. RequiredWalk!ReadsOthers(d, Nodes, rank)
  <2>. SUFFICES ASSUME NEW n \in Nodes, NEW ts, NEW us,
                       RequiredWalk!Keyed(Nodes, ts), RequiredWalk!Keyed(Nodes, us),
                       ts[n] = us[n], \A k \in Nodes : rank[k] # rank[n] => ts[k] = us[k]
                PROVE  RequiredVisit(d, n, ts)[n] = RequiredVisit(d, n, us)[n]
    BY DEF RequiredWalk!ReadsOthers
  <2>1. AgreeOffLevel(n, ts, us)
    <3>1. \A k \in Nodes : node_level(k) # node_level(n) => rank[k] # rank[n]
      BY GraphFacts DEF Levels
    <3>. QED
      BY <3>1 DEF AgreeOffLevel
  <2>2. do_required_traverse_node(Mode, d, ts, n, ts[n]) =
        do_required_traverse_node(Mode, d, us, n, us[n])
    BY <2>1, RequiredVisitReads
  <2>3. n \in DOMAIN ts /\ n \in DOMAIN us
    BY DEF RequiredWalk!Keyed
  <2>. QED
    BY <2>2, <2>3 DEF RequiredVisit
<1>6. Finished(d) = done
  <2>1. DOMAIN back = 1 .. N
    BY <1>1
  <2>. QED
    BY <2>1 DEF Finished, do_required_traversal, FoldLeft, MapThenFoldSet, base,
         RequiredWalk!Result, RequiredWalk!Recursive, RequiredVisit, Greatest
<1>. HIDE DEF N, back, rank
<1>7. /\ RequiredWalk!Keyed(Nodes, done)
      /\ \A n \in Nodes :
           done[n] = RequiredVisit(d, n, RequiredWalk!Before(Nodes, rank, n, done, base))[n]
  <2>1. RequiredWalk!InOrder(Nodes, rank, N, back)
    BY <1>1, <1>2 DEF RequiredWalk!InOrder
  <2>. QED
    BY <1>1, <1>3, <1>4, <1>5, <2>1, PullFolds, RequiredWalk!WalkInOrder
<1>. HIDE DEF done
<1>8. OfNodes(Finished(d))
  BY <1>6, <1>7 DEF OfNodes, RequiredWalk!Keyed
<1>9. ASSUME NEW n \in Nodes
      PROVE  Finished(d)[n] =
               do_required_traverse_node(Mode, d, RequiredView(d, n), n, Arrived(d)[n]).tags
  <2>. DEFINE view == RequiredView(d, n)
  <2>0. \A k \in Nodes : node_level(k) \in Int
    BY GraphFacts DEF Levels
  <2>1. RequiredWalk!Before(Nodes, rank, n, done, base) = view
    BY <1>6, <2>0 DEF RequiredWalk!Before, RequiredView, base, rank
  <2>2. n \in DOMAIN view /\ view[n] = base[n]
    BY <2>0 DEF RequiredView, base
  <2>3. done[n] = RequiredVisit(d, n, view)[n]
    BY <1>7, <2>1
  <2>. HIDE DEF view
  <2>. QED
    BY <1>6, <2>2, <2>3 DEF RequiredVisit, view, base
<1>. QED
  BY <1>8, <1>9

(***************************************************************************)
(* The tags of a node after the first k steps of its visit, as the         *)
(* parallel walk cuts it: one edge each, then the required times of a SINK.*)
(***************************************************************************)
ArrivalSteps(n) == Fanin(n) + (IF node_type(n) = "SINK" THEN 1 ELSE 0)
RequiredSteps(n) == IF node_type(n) = "CPIN" THEN 0 ELSE Fanout(n)

ArrivalParts(d, n) ==
  CHOOSE steps : Arrivals!Partial(At(d, ArrivalView(d, n)), Unmodified(Seeded[n]),
                                  node_in_edges(n), Fanin(n), steps)

RequiredParts(d, n) ==
  CHOOSE steps : Requireds!Partial(At(d, RequiredView(d, n)), Unmodified(Arrived(d)[n]),
                                   node_out_edges(n), Fanout(n), steps)

ArrivedPart(d, n, k) ==
  IF k <= Fanin(n) THEN ArrivalParts(d, n)[k].tags ELSE Arrived(d)[n]

FinishedPart(d, n, k) ==
  IF node_type(n) = "CPIN" THEN Arrived(d)[n] ELSE RequiredParts(d, n)[k].tags

LEMMA ArrivalStepwise ==
  ASSUME NEW d, NEW n \in Nodes, NEW ts, AgreeOffLevel(n, ts, ArrivalView(d, n))
  PROVE  /\ ArrivedPart(d, n, 0) = Seeded[n]
         /\ ArrivedPart(d, n, ArrivalSteps(n)) = Arrived(d)[n]
         /\ \A i \in 1 .. Fanin(n) :
              LET e   == node_in_edges(n)[i]
                  own == ArrivedPart(d, n, i - 1)
              IN  ArrivedPart(d, n, i) =
                    IF edge_disabled(e) THEN own
                    ELSE do_arrival_traverse_edge(Mode, d, ts, e, own).tags
         /\ node_type(n) = "SINK" =>
              ArrivedPart(d, n, Fanin(n) + 1) =
                mark_sink_required_times(Mode, d, ts, n, ArrivedPart(d, n, Fanin(n))).tags
<1>. DEFINE view  == ArrivalView(d, n)
            list  == node_in_edges(n)
            parts == ArrivalParts(d, n)
            first == Unmodified(Seeded[n])
<1>1. Fanin(n) \in Nat /\ Arrivals!Basics /\ \A s : Greatest(s) = Arrivals!Greatest(s)
  BY EdgeLists, PullFolds
<1>2. \E steps : Arrivals!Partial(At(d, view), first, list, Fanin(n), steps)
  BY <1>1, Arrivals!FoldSteps
<1>3. Arrivals!Partial(At(d, view), first, list, Fanin(n), parts)
  BY <1>2, Zenon DEF ArrivalParts
<1>. HIDE DEF parts, view
<1>4. /\ parts[0] = first
      /\ \A i \in 1 .. Fanin(n) : parts[i] = ArrivalPull(At(d, view), list[i], parts[i - 1])
      /\ ArrivalsPulled(d, view, n, Seeded[n]) = parts[Fanin(n)]
  BY <1>3 DEF Arrivals!Partial, ArrivalsPulled
<1>5. \A k \in 0 .. Fanin(n) : ArrivedPart(d, n, k) = parts[k].tags
  BY <1>1 DEF ArrivedPart, parts
<1>6. ArrivedPart(d, n, 0) = Seeded[n]
  BY <1>1, <1>4, <1>5 DEF Unmodified
<1>7. Arrived(d)[n] =
        IF node_type(n) = "SINK"
        THEN mark_sink_required_times(Mode, d, view, n, parts[Fanin(n)].tags).tags
        ELSE parts[Fanin(n)].tags
  <2>1. Arrived(d)[n] = do_arrival_traverse_node(Mode, d, view, n, Seeded[n]).tags
    BY SerialArrival DEF view
  <2>. QED
    BY <1>4, <2>1, ArrivalNodeIsFold DEF Then
<1>8. ArrivedPart(d, n, ArrivalSteps(n)) = Arrived(d)[n]
  BY <1>1, <1>5, <1>7 DEF ArrivalSteps, ArrivedPart
<1>9. ASSUME NEW i \in 1 .. Fanin(n)
      PROVE  ArrivedPart(d, n, i) =
               IF edge_disabled(list[i]) THEN ArrivedPart(d, n, i - 1)
               ELSE do_arrival_traverse_edge(Mode, d, ts, list[i], ArrivedPart(d, n, i - 1)).tags
  <2>1. /\ ArrivedPart(d, n, i) = parts[i].tags
        /\ ArrivedPart(d, n, i - 1) = parts[i - 1].tags
    BY <1>1, <1>5
  <2>2. parts[i] = ArrivalPull(At(d, view), list[i], parts[i - 1])
    BY <1>4
  <2>3. At(d, view).delay = d /\ At(d, view).tags = view
    BY DEF At
  <2>4. CASE edge_disabled(list[i])
    BY <2>1, <2>2, <2>4 DEF ArrivalPull
  <2>5. CASE ~edge_disabled(list[i])
    <3>1. ts[edge_src_node(list[i])] = view[edge_src_node(list[i])]
      BY <2>5, PulledEnds DEF view
    <3>2. do_arrival_traverse_edge(Mode, d, ts, list[i], parts[i - 1].tags) =
          do_arrival_traverse_edge(Mode, d, view, list[i], parts[i - 1].tags)
      BY <3>1, ArrivalEdgeReads
    <3>. QED
      BY <2>1, <2>2, <2>3, <2>5, <3>2 DEF ArrivalPull, Then
  <2>. QED
    BY <2>4, <2>5
<1>10. ASSUME node_type(n) = "SINK"
       PROVE  ArrivedPart(d, n, Fanin(n) + 1) =
                mark_sink_required_times(Mode, d, ts, n, ArrivedPart(d, n, Fanin(n))).tags
  <2>1. ArrivedPart(d, n, Fanin(n)) = parts[Fanin(n)].tags
    BY <1>1, <1>5
  <2>2. ArrivedPart(d, n, Fanin(n) + 1) = Arrived(d)[n]
    BY <1>1 DEF ArrivedPart
  <2>3. mark_sink_required_times(Mode, d, ts, n, parts[Fanin(n)].tags) =
        mark_sink_required_times(Mode, d, view, n, parts[Fanin(n)].tags)
    BY PulledEnds, SinkReads DEF view
  <2>. QED
    BY <1>7, <1>10, <2>1, <2>2, <2>3
<1>. QED
  BY <1>6, <1>8, <1>9, <1>10

LEMMA RequiredStepwise ==
  ASSUME NEW d, NEW n \in Nodes, NEW ts, AgreeOffLevel(n, ts, RequiredView(d, n))
  PROVE  /\ FinishedPart(d, n, 0) = Arrived(d)[n]
         /\ FinishedPart(d, n, RequiredSteps(n)) = Finished(d)[n]
         /\ node_type(n) # "CPIN" => \A i \in 1 .. Fanout(n) :
              LET e   == node_out_edges(n)[i]
                  own == FinishedPart(d, n, i - 1)
              IN  FinishedPart(d, n, i) =
                    IF edge_disabled(e) THEN own
                    ELSE do_required_traverse_edge(Mode, d, ts, e, own).tags
<1>. DEFINE view  == RequiredView(d, n)
            list  == node_out_edges(n)
            parts == RequiredParts(d, n)
            first == Unmodified(Arrived(d)[n])
<1>1. Fanout(n) \in Nat /\ Requireds!Basics /\ \A s : Greatest(s) = Requireds!Greatest(s)
  BY EdgeLists, PullFolds
<1>2. \E steps : Requireds!Partial(At(d, view), first, list, Fanout(n), steps)
  BY <1>1, Requireds!FoldSteps
<1>3. Requireds!Partial(At(d, view), first, list, Fanout(n), parts)
  BY <1>2, Zenon DEF RequiredParts
<1>. HIDE DEF parts, view
<1>4. /\ parts[0] = first
      /\ \A i \in 1 .. Fanout(n) : parts[i] = RequiredPull(At(d, view), list[i], parts[i - 1])
      /\ RequiredsPulled(d, view, n, Arrived(d)[n]) = parts[Fanout(n)]
  BY <1>3 DEF Requireds!Partial, RequiredsPulled
<1>5. Finished(d)[n] = IF node_type(n) = "CPIN" THEN Arrived(d)[n] ELSE parts[Fanout(n)].tags
  <2>1. Finished(d)[n] = do_required_traverse_node(Mode, d, view, n, Arrived(d)[n]).tags
    BY SerialRequired DEF view
  <2>. QED
    BY <1>4, <2>1, RequiredNodeIsFold DEF Unmodified
<1>6. FinishedPart(d, n, 0) = Arrived(d)[n]
  BY <1>4 DEF FinishedPart, Unmodified, parts
<1>7. FinishedPart(d, n, RequiredSteps(n)) = Finished(d)[n]
  BY <1>5 DEF RequiredSteps, FinishedPart, parts
<1>8. ASSUME node_type(n) # "CPIN", NEW i \in 1 .. Fanout(n)
      PROVE  FinishedPart(d, n, i) =
               IF edge_disabled(list[i]) THEN FinishedPart(d, n, i - 1)
               ELSE do_required_traverse_edge(Mode, d, ts, list[i], FinishedPart(d, n, i - 1)).tags
  <2>1. /\ FinishedPart(d, n, i) = parts[i].tags
        /\ FinishedPart(d, n, i - 1) = parts[i - 1].tags
    BY <1>8 DEF FinishedPart, parts
  <2>2. parts[i] = RequiredPull(At(d, view), list[i], parts[i - 1])
    BY <1>4
  <2>3. At(d, view).delay = d /\ At(d, view).tags = view
    BY DEF At
  <2>4. CASE edge_disabled(list[i])
    BY <2>1, <2>2, <2>4 DEF RequiredPull
  <2>5. CASE ~edge_disabled(list[i])
    <3>1. ts[edge_sink_node(list[i])] = view[edge_sink_node(list[i])]
      BY <2>5, PulledEnds DEF view
    <3>2. do_required_traverse_edge(Mode, d, ts, list[i], parts[i - 1].tags) =
          do_required_traverse_edge(Mode, d, view, list[i], parts[i - 1].tags)
      BY <3>1, RequiredEdgeReads
    <3>. QED
      BY <2>1, <2>2, <2>3, <2>5, <3>2 DEF RequiredPull, Then
  <2>. QED
    BY <2>4, <2>5
<1>. QED
  BY <1>6, <1>7, <1>8

(***************************************************************************)
(* What the parallel walk has of the serial results: the containers of the *)
(* loop under way are as many steps into their visits as the workers have  *)
(* made, all others hold what the loops before left in them.               *)
(***************************************************************************)
TagsPart(n, k) ==
  CASE phase = "reset"        -> NoTags
    [] phase = "arrival_pre"  -> IF k = 0 THEN NoTags ELSE Seeded[n]
    [] phase = "arrival"      -> ArrivedPart(delay, n, k)
    [] phase = "required_pre" -> Arrived(delay)[n]
    [] phase = "required"     -> FinishedPart(delay, n, k)
    [] phase = "slack"        -> Finished(delay)[n]

SlackOf(d, n) == do_slack_traverse_node(Mode, Finished(d)[n], <<>>)

SlacksPart(n, k) == IF phase = "slack" /\ k > 0 THEN SlackOf(delay, n) ELSE <<>>

Reached(n, k) ==
  \/ phase = "reset" /\ k = 0
  \/ tags[n] = TagsPart(n, k) /\ slacks[n] = SlacksPart(n, k)

TagsOutside(n) ==
  CASE phase = "arrival_pre"  -> Seeded[n]
    [] phase = "arrival"      -> IF node_level(n) < level THEN Arrived(delay)[n] ELSE Seeded[n]
    [] phase = "required_pre" -> Arrived(delay)[n]
    [] phase = "required"     -> IF node_level(n) > level THEN Finished(delay)[n]
                                                          ELSE Arrived(delay)[n]

Loop == LoopNodes(phase, level)
Done == {n \in Loop \ pending : \A w \in Workers : Busy(w) => job[w].node # n}

OutsideKept   == \A n \in Nodes \ Loop : tags[n] = TagsOutside(n) /\ slacks[n] = <<>>
PendingAtZero == \A n \in pending : Reached(n, 0)
JobsAtStep    == \A w \in Workers : Busy(w) => /\ job[w].step <= Steps(job[w].node) + 1
                                               /\ Reached(job[w].node, job[w].step - 1)
DoneReached   == \A n \in Done : Reached(n, Steps(n))

SerialInv ==
  /\ ParInv
  /\ DOMAIN tags = Nodes /\ DOMAIN slacks = Nodes
  /\ phase # "idle" => OutsideKept /\ PendingAtZero /\ JobsAtStep /\ DoneReached

LEMMA VisitLengths ==
  ASSUME NEW n \in Nodes
  PROVE  /\ phase \notin {"arrival", "required"} => Steps(n) = 1
         /\ phase = "arrival" => Steps(n) = ArrivalSteps(n)
         /\ phase = "required" => Steps(n) = RequiredSteps(n)
         /\ Steps(n) \in Nat
<1>1. Fanin(n) \in Nat /\ Fanout(n) \in Nat
  BY EdgeLists
<1>2. ArrivalSteps(n) \in Nat /\ RequiredSteps(n) \in Nat
  BY <1>1 DEF ArrivalSteps, RequiredSteps
<1>3. ASSUME phase = "arrival" PROVE Steps(n) = ArrivalSteps(n)
  BY <1>3 DEF Steps, ArrivalSteps, Fanin
<1>4. ASSUME phase = "required" PROVE Steps(n) = RequiredSteps(n)
  BY <1>4 DEF Steps, RequiredSteps, Fanout
<1>5. ASSUME phase \notin {"arrival", "required"} PROVE Steps(n) = 1
  BY <1>5 DEF Steps
<1>. QED
  BY <1>2, <1>3, <1>4, <1>5

(***************************************************************************)
(* The serial parts at the beginning and at the end of a visit.            *)
(***************************************************************************)
LEMMA ArrivedEnds ==
  ASSUME NEW d, NEW n \in Nodes
  PROVE  /\ ArrivedPart(d, n, 0) = Seeded[n]
         /\ ArrivedPart(d, n, ArrivalSteps(n)) = Arrived(d)[n]
<1>1. AgreeOffLevel(n, ArrivalView(d, n), ArrivalView(d, n))
  BY DEF AgreeOffLevel
<1>. QED
  BY <1>1, ArrivalStepwise

LEMMA FinishedEnds ==
  ASSUME NEW d, NEW n \in Nodes
  PROVE  /\ FinishedPart(d, n, 0) = Arrived(d)[n]
         /\ FinishedPart(d, n, RequiredSteps(n)) = Finished(d)[n]
<1>1. AgreeOffLevel(n, RequiredView(d, n), RequiredView(d, n))
  BY DEF AgreeOffLevel
<1>. QED
  BY <1>1, RequiredStepwise

LEMMA SeededValues ==
  ASSUME NEW n \in Nodes
  PROVE  Seeded[n] = IF node_level(n) = 0
                     THEN do_arrival_pre_traverse_node(Mode, NoTags, n).tags
                     ELSE NoTags
BY DEF Seeded, do_arrival_pre_traversal, level_nodes

(***************************************************************************)
(* A step of a visit takes its node from one part to the next.             *)
(***************************************************************************)
LEMMA ArrivalStepReaches ==
  ASSUME SerialInv, phase = "arrival", NEW n \in Loop, NEW i \in 1 .. Steps(n),
         tags[n] = ArrivedPart(delay, n, i - 1)
  PROVE  ArrivalStep(n, i) = ArrivedPart(delay, n, i)
<1>1. n \in Nodes /\ node_level(n) = level
  BY DEF Loop, LoopNodes, level_nodes
<1>2. Fanin(n) \in Nat /\ Steps(n) = ArrivalSteps(n) /\ i \in Nat /\ i >= 1 /\ i <= Steps(n)
  <2>1. Steps(n) \in Nat /\ Steps(n) = ArrivalSteps(n)
    BY <1>1, VisitLengths
  <2>. QED
    BY <1>1, <2>1, EdgeLists
<1>3. AgreeOffLevel(n, tags, ArrivalView(delay, n))
  <2>. SUFFICES ASSUME NEW k \in Nodes, node_level(k) # node_level(n)
                PROVE  tags[k] = ArrivalView(delay, n)[k]
    BY DEF AgreeOffLevel
  <2>1. k \notin Loop
    BY <1>1 DEF Loop, LoopNodes, level_nodes
  <2>2. tags[k] = IF node_level(k) < level THEN Arrived(delay)[k] ELSE Seeded[k]
    BY <2>1 DEF SerialInv, OutsideKept, TagsOutside
  <2>. QED
    BY <1>1, <2>2 DEF ArrivalView
<1>4. CASE i <= Fanin(n)
  <2>1. i \in 1 .. Fanin(n)
    BY <1>2, <1>4
  <2>2. ~(i > Len(node_in_edges(n)))
    BY <1>2, <1>4 DEF Fanin
  <2>. QED
    BY <1>1, <1>3, <2>1, <2>2, ArrivalStepwise DEF ArrivalStep
<1>5. CASE i > Fanin(n)
  <2>1. node_type(n) = "SINK" /\ i = Fanin(n) + 1 /\ i - 1 = Fanin(n)
    BY <1>2, <1>5 DEF ArrivalSteps
  <2>2. i > Len(node_in_edges(n))
    BY <1>5 DEF Fanin
  <2>3. ArrivalStep(n, i) = mark_sink_required_times(Mode, delay, tags, n, tags[n]).tags
    BY <2>2 DEF ArrivalStep
  <2>. QED
    BY <1>1, <1>3, <2>1, <2>3, ArrivalStepwise
<1>. QED
  BY <1>2, <1>4, <1>5

LEMMA RequiredStepReaches ==
  ASSUME SerialInv, phase = "required", NEW n \in Loop, NEW i \in 1 .. Steps(n),
         tags[n] = FinishedPart(delay, n, i - 1)
  PROVE  RequiredStep(n, i) = FinishedPart(delay, n, i)
<1>1. n \in Nodes /\ node_level(n) = level
  BY DEF Loop, LoopNodes, level_nodes
<1>2. Fanout(n) \in Nat /\ Steps(n) = RequiredSteps(n) /\ i \in Nat /\ i >= 1 /\ i <= Steps(n)
  <2>1. Steps(n) \in Nat /\ Steps(n) = RequiredSteps(n)
    BY <1>1, VisitLengths
  <2>. QED
    BY <1>1, <2>1, EdgeLists
<1>3. AgreeOffLevel(n, tags, RequiredView(delay, n))
  <2>. SUFFICES ASSUME NEW k \in Nodes, node_level(k) # node_level(n)
                PROVE  tags[k] = RequiredView(delay, n)[k]
    BY DEF AgreeOffLevel
  <2>1. k \notin Loop
    BY <1>1 DEF Loop, LoopNodes, level_nodes
  <2>2. tags[k] = IF node_level(k) > level THEN Finished(delay)[k] ELSE Arrived(delay)[k]
    BY <2>1 DEF SerialInv, OutsideKept, TagsOutside
  <2>. QED
    BY <1>1, <2>2 DEF RequiredView
<1>4. node_type(n) # "CPIN" /\ i \in 1 .. Fanout(n)
  BY <1>2 DEF RequiredSteps
<1>. QED
  BY <1>1, <1>3, <1>4, RequiredStepwise DEF RequiredStep

LEMMA StepReaches ==
  ASSUME SerialInv, phase # "idle", NEW n \in Loop, NEW i \in 1 .. Steps(n), Reached(n, i - 1)
  PROVE  StepTags(n, i) = TagsPart(n, i) /\ StepSlacks(n) = SlacksPart(n, i)
<1>0. n \in Nodes /\ i \in Nat /\ i > 0 /\ i <= Steps(n) /\ phase \in Phases
  <2>1. n \in Nodes /\ phase \in Phases
    BY LoopOverNodes DEF Loop, SerialInv, ParInv, TypeOK
  <2>2. Steps(n) \in Nat
    BY <2>1, VisitLengths
  <2>. QED
    BY <2>1, <2>2
<1>1. CASE phase = "reset"
  BY <1>0, <1>1 DEF StepTags, StepSlacks, TagsPart, SlacksPart
<1>2. ASSUME phase # "reset"
      PROVE  tags[n] = TagsPart(n, i - 1) /\ slacks[n] = SlacksPart(n, i - 1)
  BY <1>2 DEF Reached
<1>3. CASE phase \in {"arrival_pre", "required_pre", "slack"}
  <2>1. i = 1
    <3>1. Steps(n) = 1
      BY <1>0, <1>3, VisitLengths
    <3>. QED
      BY <1>0, <3>1
  <2>2. tags[n] = TagsPart(n, 0) /\ slacks[n] = <<>>
    BY <1>2, <1>3, <2>1 DEF SlacksPart
  <2>3. CASE phase = "arrival_pre"
    <3>1. node_level(n) = 0
      BY <2>3 DEF Loop, LoopNodes, level_nodes
    <3>. QED
      BY <1>0, <2>1, <2>2, <2>3, <3>1, SeededValues DEF StepTags, StepSlacks, TagsPart, SlacksPart
  <2>4. CASE phase = "required_pre"
    BY <2>1, <2>2, <2>4 DEF StepTags, StepSlacks, TagsPart, SlacksPart
  <2>5. CASE phase = "slack"
    BY <2>1, <2>2, <2>5 DEF StepTags, StepSlacks, TagsPart, SlacksPart, SlackOf
  <2>. QED
    BY <1>3, <2>3, <2>4, <2>5
<1>4. CASE phase = "arrival"
  <2>1. tags[n] = ArrivedPart(delay, n, i - 1) /\ slacks[n] = <<>>
    BY <1>2, <1>4 DEF TagsPart, SlacksPart
  <2>2. ArrivalStep(n, i) = ArrivedPart(delay, n, i)
    BY <1>4, <2>1, ArrivalStepReaches
  <2>. QED
    BY <1>4, <2>1, <2>2 DEF StepTags, StepSlacks, TagsPart, SlacksPart
<1>5. CASE phase = "required"
  <2>1. tags[n] = FinishedPart(delay, n, i - 1) /\ slacks[n] = <<>>
    BY <1>2, <1>5 DEF TagsPart, SlacksPart
  <2>2. RequiredStep(n, i) = FinishedPart(delay, n, i)
    BY <1>5, <2>1, RequiredStepReaches
  <2>. QED
    BY <1>5, <2>1, <2>2 DEF StepTags, StepSlacks, TagsPart, SlacksPart
<1>. QED
  BY <1>0, <1>1, <1>3, <1>4, <1>5 DEF Phases


(***************************************************************************)
(* The steps that keep the loop under way.                                 *)
(***************************************************************************)
LEMMA SameLoop ==
  ASSUME UNCHANGED <<delay, phase, level>>
  PROVE  /\ Loop' = Loop
         /\ \A n : TagsOutside(n)' = TagsOutside(n) /\ Steps(n)' = Steps(n)
         /\ \A n, k : TagsPart(n, k)' = TagsPart(n, k) /\ SlacksPart(n, k)' = SlacksPart(n, k)
BY DEF Loop, TagsOutside, Steps, TagsPart, SlacksPart

LEMMA ReachedKept ==
  ASSUME UNCHANGED <<delay, phase, level>>, NEW n, tags'[n] = tags[n], slacks'[n] = slacks[n]
  PROVE  \A k : Reached(n, k)' <=> Reached(n, k)
BY SameLoop DEF Reached

LEMMA TakeKeepsSerialInv ==
  ASSUME SerialInv, ParInv', NEW w \in Workers, TakeNode(w)
  PROVE  SerialInv'
<1>1. PICK n \in pending : /\ job' = [job EXCEPT ![w] = [node |-> n, step |-> 1]]
                           /\ pending' = pending \ {n}
  BY DEF TakeNode
<1>2. UNCHANGED <<delay, phase, level, tags, slacks>> /\ ~Busy(w)
  BY DEF TakeNode, results
<1>3. \A v \in Workers : job'[v] = IF v = w THEN [node |-> n, step |-> 1] ELSE job[v]
  BY <1>1 DEF SerialInv, ParInv, TypeOK
<1>4. /\ n \in Nodes /\ n \in Loop /\ phase # "idle"
      /\ OutsideKept /\ PendingAtZero /\ JobsAtStep /\ DoneReached
  <2>1. n \in LoopNodes(phase, level)
    BY DEF SerialInv, ParInv
  <2>2. phase # "idle"
    BY <2>1 DEF LoopNodes
  <2>. QED
    BY <2>1, <2>2, LoopOverNodes DEF SerialInv, Loop
<1>5. /\ \A v \in Workers : v # w => (Busy(v)' <=> Busy(v))
      /\ Busy(w)'
  <2>1. job'[w].node = n /\ n # NoNode
    BY <1>3, <1>4, GraphFacts
  <2>. QED
    BY <1>3, <2>1 DEF Busy, NoJob
<1>6. \A m, k : Reached(m, k)' <=> Reached(m, k)
  BY <1>2, ReachedKept
<1>7. Loop' = Loop /\ \A m : Steps(m)' = Steps(m) /\ TagsOutside(m)' = TagsOutside(m)
  BY <1>2, SameLoop
<1>8. OutsideKept'
  BY <1>2, <1>4, <1>7 DEF OutsideKept
<1>9. PendingAtZero'
  BY <1>1, <1>4, <1>6 DEF PendingAtZero
<1>10. JobsAtStep'
  <2>. SUFFICES ASSUME NEW v \in Workers, Busy(v)'
                PROVE  /\ job'[v].step <= Steps(job'[v].node) + 1
                       /\ Reached(job'[v].node, job'[v].step - 1)
    BY <1>6, <1>7 DEF JobsAtStep
  <2>1. CASE v = w
    <3>1. job'[v].node = n /\ job'[v].step = 1
      BY <1>3, <2>1
    <3>2. Steps(n) \in Nat
      BY <1>4, VisitLengths
    <3>. QED
      BY <1>4, <3>1, <3>2 DEF PendingAtZero
  <2>2. CASE v # w
    BY <1>3, <1>4, <1>5, <2>2 DEF JobsAtStep
  <2>. QED
    BY <2>1, <2>2
<1>11. DoneReached'
  <2>1. Done' \subseteq Done
    <3>. SUFFICES ASSUME NEW m \in Done' PROVE m \in Done
      OBVIOUS
    <3>1. m \in Loop /\ m \notin pending' /\ \A v \in Workers : Busy(v)' => job'[v].node # m
      BY <1>7 DEF Done
    <3>2. m # n
      BY <1>3, <1>5, <3>1
    <3>. QED
      BY <1>1, <1>2, <1>3, <1>5, <3>1, <3>2 DEF Done
  <2>. QED
    BY <1>4, <1>6, <1>7, <2>1 DEF DoneReached
<1>. QED
  BY <1>2, <1>8, <1>9, <1>10, <1>11 DEF SerialInv

LEMMA VisitKeepsSerialInv ==
  ASSUME SerialInv, ParInv', NEW w \in Workers, VisitStep(w)
  PROVE  SerialInv'
<1>0. PICK n, i : n = job[w].node /\ i = job[w].step
  OBVIOUS
<1>1. /\ Busy(w) /\ i <= Steps(n)
      /\ tags'   = [tags EXCEPT ![n] = StepTags(n, i)]
      /\ slacks' = [slacks EXCEPT ![n] = StepSlacks(n)]
      /\ job' = [job EXCEPT ![w].step = i + 1]
      /\ UNCHANGED <<delay, phase, level, pending>>
  BY <1>0 DEF VisitStep, loop
<1>2. n \in Loop \ pending /\ i >= 1 /\ i \in Nat
  BY <1>0, <1>1 DEF SerialInv, ParInv, JobsInLoop, TypeOK, Loop
<1>3. /\ n \in Nodes /\ phase # "idle"
      /\ OutsideKept /\ PendingAtZero /\ JobsAtStep /\ DoneReached
  <2>1. n \in Nodes /\ phase # "idle"
    BY <1>2, LoopOverNodes DEF Loop, LoopNodes
  <2>. QED
    BY <2>1 DEF SerialInv
<1>4. \A v \in Workers :
        /\ job'[v].node = job[v].node
        /\ job'[v].step = IF v = w THEN i + 1 ELSE job[v].step
        /\ Busy(v)' <=> Busy(v)
  <2>1. \A v \in Workers :
          /\ job'[v].node = job[v].node
          /\ job'[v].step = IF v = w THEN i + 1 ELSE job[v].step
    BY <1>0, <1>1 DEF SerialInv, ParInv, TypeOK
  <2>2. \A v \in Workers : v # w => job'[v] = job[v]
    BY <1>1 DEF SerialInv, ParInv, TypeOK
  <2>3. Busy(w)'
    BY <1>0, <1>2, <2>1 DEF Busy, NoJob
  <2>. QED
    BY <1>1, <2>1, <2>2, <2>3 DEF Busy
<1>5. \A v \in Workers : v # w /\ Busy(v) => job[v].node # n
  BY <1>0, <1>1 DEF SerialInv, ParInv, JobsDiffer
<1>6. i \in 1 .. Steps(n)
  <2>1. Steps(n) \in Nat
    BY <1>3, VisitLengths
  <2>. QED
    BY <1>1, <1>2, <2>1
<1>7. /\ Loop' = Loop
      /\ \A m : Steps(m)' = Steps(m) /\ TagsOutside(m)' = TagsOutside(m)
      /\ TagsPart(n, i)' = TagsPart(n, i) /\ SlacksPart(n, i)' = SlacksPart(n, i)
  BY <1>1, SameLoop
<1>8. Reached(n, i)'
  <2>1. Reached(n, i - 1)
    BY <1>0, <1>1, <1>3 DEF JobsAtStep
  <2>2. StepTags(n, i) = TagsPart(n, i) /\ StepSlacks(n) = SlacksPart(n, i)
    BY <1>2, <1>3, <1>6, <2>1, StepReaches
  <2>3. tags'[n] = StepTags(n, i) /\ slacks'[n] = StepSlacks(n)
    BY <1>1, <1>3 DEF SerialInv
  <2>. QED
    BY <1>7, <2>2, <2>3 DEF Reached
<1>9. \A m \in Nodes : m # n => tags'[m] = tags[m] /\ slacks'[m] = slacks[m]
  BY <1>1 DEF SerialInv
<1>10. \A m \in Nodes : \A k : m # n => (Reached(m, k)' <=> Reached(m, k))
  BY <1>1, <1>9, ReachedKept
<1>11. Loop \subseteq Nodes /\ pending \subseteq Nodes
  BY LoopOverNodes DEF Loop, SerialInv, ParInv, TypeOK
<1>12. OutsideKept'
  BY <1>2, <1>3, <1>7, <1>9 DEF OutsideKept
<1>13. PendingAtZero'
  BY <1>1, <1>2, <1>3, <1>10, <1>11 DEF PendingAtZero
<1>14. JobsAtStep'
  <2>. SUFFICES ASSUME NEW v \in Workers, Busy(v)', NEW m, NEW k,
                       m = job'[v].node, k = job'[v].step
                PROVE  k <= Steps(m) + 1 /\ Reached(m, k - 1)'
    BY <1>7 DEF JobsAtStep
  <2>1. CASE v = w
    <3>1. m = n /\ k = i + 1
      BY <1>0, <1>4, <2>1
    <3>2. Steps(n) \in Nat
      BY <1>3, VisitLengths
    <3>3. i + 1 <= Steps(n) + 1 /\ k - 1 = i
      BY <1>1, <1>2, <3>1, <3>2
    <3>. QED
      BY <1>8, <3>1, <3>3
  <2>2. CASE v # w
    <3>1. /\ Busy(v) /\ m # n /\ m \in Nodes
          /\ m = job[v].node /\ k = job[v].step
      BY <1>4, <1>5, <1>11, <2>2 DEF SerialInv, ParInv, JobsInLoop, Loop
    <3>2. k <= Steps(m) + 1 /\ Reached(m, k - 1)
      BY <1>3, <3>1 DEF JobsAtStep
    <3>. QED
      BY <1>10, <3>1, <3>2
  <2>. QED
    BY <2>1, <2>2
<1>15. DoneReached'
  <2>1. Done' = Done /\ n \notin Done
    BY <1>0, <1>1, <1>4, <1>7 DEF Done
  <2>2. Done \subseteq Nodes
    BY <1>11 DEF Done
  <2>. QED
    BY <1>3, <1>7, <1>10, <2>1, <2>2 DEF DoneReached
<1>16. DOMAIN tags' = Nodes /\ DOMAIN slacks' = Nodes
  BY <1>1 DEF SerialInv
<1>. QED
  BY <1>12, <1>13, <1>14, <1>15, <1>16 DEF SerialInv

LEMMA FinishKeepsSerialInv ==
  ASSUME SerialInv, ParInv', NEW w \in Workers, FinishNode(w)
  PROVE  SerialInv'
<1>0. PICK n, i : n = job[w].node /\ i = job[w].step
  OBVIOUS
<1>1. /\ Busy(w) /\ i > Steps(n)
      /\ job' = [job EXCEPT ![w] = NoJob]
      /\ UNCHANGED <<delay, phase, level, pending, tags, slacks>>
  BY <1>0 DEF FinishNode, loop, results
<1>2. n \in Loop \ pending /\ i \in Nat
  BY <1>0, <1>1 DEF SerialInv, ParInv, JobsInLoop, TypeOK, Loop
<1>3. /\ n \in Nodes /\ phase # "idle"
      /\ OutsideKept /\ PendingAtZero /\ JobsAtStep /\ DoneReached
  <2>1. n \in Nodes /\ phase # "idle"
    BY <1>2, LoopOverNodes DEF Loop, LoopNodes
  <2>. QED
    BY <2>1 DEF SerialInv
<1>4. /\ ~Busy(w)'
      /\ \A v \in Workers : v # w => job'[v] = job[v] /\ (Busy(v)' <=> Busy(v))
  <2>1. \A v \in Workers : job'[v] = IF v = w THEN NoJob ELSE job[v]
    BY <1>1 DEF SerialInv, ParInv, TypeOK
  <2>. QED
    BY <2>1 DEF Busy
<1>5. \A m, k : Reached(m, k)' <=> Reached(m, k)
  BY <1>1, ReachedKept
<1>6. Loop' = Loop /\ \A m : Steps(m)' = Steps(m) /\ TagsOutside(m)' = TagsOutside(m)
  BY <1>1, SameLoop
<1>7. Reached(n, Steps(n))
  <2>1. Steps(n) \in Nat /\ i <= Steps(n) + 1 /\ Reached(n, i - 1)
    BY <1>0, <1>1, <1>3, VisitLengths DEF JobsAtStep
  <2>2. i - 1 = Steps(n)
    BY <1>1, <1>2, <2>1
  <2>. QED
    BY <2>1, <2>2
<1>8. OutsideKept'
  BY <1>1, <1>3, <1>6 DEF OutsideKept
<1>9. PendingAtZero'
  BY <1>1, <1>3, <1>5 DEF PendingAtZero
<1>10. JobsAtStep'
  BY <1>3, <1>4, <1>5, <1>6 DEF JobsAtStep
<1>11. DoneReached'
  <2>1. Done' \subseteq Done \cup {n}
    BY <1>0, <1>1, <1>4, <1>6 DEF Done
  <2>. QED
    BY <1>3, <1>5, <1>6, <1>7, <2>1 DEF DoneReached
<1>. QED
  BY <1>1, <1>8, <1>9, <1>10, <1>11 DEF SerialInv

(***************************************************************************)
(* What a loop leaves in the containers once all its visits have returned, *)
(* and how the next one finds them.                                        *)
(***************************************************************************)
LEMMA LoopLeaves ==
  ASSUME SerialInv, LoopDone, NEW n \in Nodes
  PROVE  /\ phase = "reset" => tags[n] = NoTags
         /\ phase = "arrival_pre" => tags[n] = Seeded[n]
         /\ phase = "arrival" =>
              tags[n] = IF node_level(n) <= level THEN Arrived(delay)[n] ELSE Seeded[n]
         /\ phase = "required_pre" => tags[n] = Arrived(delay)[n]
         /\ phase = "required" =>
              tags[n] = IF node_level(n) >= level THEN Finished(delay)[n] ELSE Arrived(delay)[n]
         /\ phase = "slack" => tags[n] = Finished(delay)[n]
         /\ slacks[n] = IF phase = "slack" THEN SlackOf(delay, n) ELSE <<>>
<1>1. /\ phase \in Phases \ {"idle"} /\ OutsideKept /\ DoneReached
      /\ pending = {} /\ \A w \in Workers : ~Busy(w)
  BY DEF LoopDone, SerialInv, ParInv, TypeOK
<1>2. node_level(n) \in Int /\ level \in Int /\ Steps(n) \in Nat
  BY GraphFacts, VisitLengths DEF Levels, SerialInv, ParInv, TypeOK
<1>3. n \in Loop => Reached(n, Steps(n))
  BY <1>1 DEF Done, DoneReached
<1>4. n \notin Loop => tags[n] = TagsOutside(n) /\ slacks[n] = <<>>
  BY <1>1 DEF OutsideKept
<1>5. CASE phase \in {"reset", "arrival_pre", "required_pre", "slack"}
  <2>1. Steps(n) = 1
    BY <1>5, VisitLengths
  <2>2. n \in Loop => tags[n] = TagsPart(n, 1) /\ slacks[n] = SlacksPart(n, 1)
    BY <1>3, <2>1 DEF Reached
  <2>3. CASE phase = "reset"
    <3>1. n \in Loop
      BY <2>3 DEF Loop, LoopNodes
    <3>. QED
      BY <2>2, <2>3, <3>1 DEF TagsPart, SlacksPart
  <2>4. CASE phase = "arrival_pre"
    BY <1>4, <2>2, <2>4 DEF TagsPart, SlacksPart, TagsOutside
  <2>5. CASE phase = "required_pre"
    BY <1>4, <2>2, <2>5 DEF TagsPart, SlacksPart, TagsOutside
  <2>6. CASE phase = "slack"
    <3>1. n \in Loop
      BY <2>6 DEF Loop, LoopNodes
    <3>. QED
      BY <2>2, <2>6, <3>1 DEF TagsPart, SlacksPart
  <2>. QED
    BY <1>5, <2>3, <2>4, <2>5, <2>6
<1>6. CASE phase = "arrival"
  <2>1. n \in Loop <=> node_level(n) = level
    BY <1>6 DEF Loop, LoopNodes, level_nodes
  <2>2. n \in Loop => tags[n] = Arrived(delay)[n] /\ slacks[n] = <<>>
    BY <1>3, <1>6, VisitLengths, ArrivedEnds DEF Reached, TagsPart, SlacksPart
  <2>3. n \notin Loop =>
          /\ tags[n] = IF node_level(n) < level THEN Arrived(delay)[n] ELSE Seeded[n]
          /\ slacks[n] = <<>>
    BY <1>4, <1>6 DEF TagsOutside
  <2>. QED
    BY <1>2, <1>6, <2>1, <2>2, <2>3
<1>7. CASE phase = "required"
  <2>1. n \in Loop <=> node_level(n) = level
    BY <1>7 DEF Loop, LoopNodes, level_nodes
  <2>2. n \in Loop => tags[n] = Finished(delay)[n] /\ slacks[n] = <<>>
    BY <1>3, <1>7, VisitLengths, FinishedEnds DEF Reached, TagsPart, SlacksPart
  <2>3. n \notin Loop =>
          /\ tags[n] = IF node_level(n) > level THEN Finished(delay)[n] ELSE Arrived(delay)[n]
          /\ slacks[n] = <<>>
    BY <1>4, <1>7 DEF TagsOutside
  <2>. QED
    BY <1>2, <1>7, <2>1, <2>2, <2>3
<1>. QED
  BY <1>1, <1>5, <1>6, <1>7 DEF Phases

LEMMA LoopFinds ==
  ASSUME SerialInv, EndLoop, NEW n \in Nodes, phase' # "idle"
  PROVE  /\ n \in Loop' => tags[n] = TagsPart(n, 0)'
         /\ n \notin Loop' => tags[n] = TagsOutside(n)'
         /\ slacks[n] = <<>> /\ SlacksPart(n, 0)' = <<>>
<1>1. /\ LoopDone /\ UNCHANGED delay
      /\ phase' = NextLoop(phase, level)[1] /\ level' = NextLoop(phase, level)[2]
  BY DEF EndLoop, Enter
<1>2. phase \in Phases \ {"idle"} /\ level \in Int
  BY <1>1, GraphFacts DEF LoopDone, Levels, SerialInv, ParInv, TypeOK
<1>3. node_level(n) \in Int /\ 0 <= node_level(n) /\ node_level(n) <= LastLevel /\ LastLevel \in Nat
  BY GraphFacts
<1>4. SlacksPart(n, 0)' = <<>>
  BY DEF SlacksPart
<1>5. CASE phase = "reset"
  <2>1. phase' = "arrival_pre" /\ tags[n] = NoTags /\ slacks[n] = <<>>
    BY <1>1, <1>5, LoopLeaves DEF NextLoop
  <2>2. n \in Loop' <=> node_level(n) = 0
    BY <2>1 DEF Loop, LoopNodes, level_nodes
  <2>. QED
    BY <1>4, <2>1, <2>2, SeededValues DEF TagsPart, TagsOutside
<1>6. CASE phase = "arrival_pre"
  <2>1. phase' = "arrival" /\ level' = 0 /\ tags[n] = Seeded[n] /\ slacks[n] = <<>>
    BY <1>1, <1>6, LoopLeaves DEF NextLoop
  <2>2. TagsPart(n, 0)' = Seeded[n]
    BY <1>1, <2>1, ArrivedEnds DEF TagsPart
  <2>3. TagsOutside(n)' = Seeded[n]
    BY <1>1, <1>3, <2>1 DEF TagsOutside
  <2>. QED
    BY <1>4, <2>1, <2>2, <2>3
<1>7. CASE phase = "arrival" /\ level < LastLevel
  <2>1. /\ phase' = "arrival" /\ level' = level + 1 /\ slacks[n] = <<>>
        /\ tags[n] = IF node_level(n) <= level THEN Arrived(delay)[n] ELSE Seeded[n]
    BY <1>1, <1>2, <1>3, <1>7, LoopLeaves DEF NextLoop
  <2>2. n \in Loop' <=> node_level(n) = level'
    BY <2>1 DEF Loop, LoopNodes, level_nodes
  <2>3. TagsPart(n, 0)' = Seeded[n]
    BY <1>1, <2>1, ArrivedEnds DEF TagsPart
  <2>4. TagsOutside(n)' = IF node_level(n) < level' THEN Arrived(delay)[n] ELSE Seeded[n]
    BY <1>1, <2>1 DEF TagsOutside
  <2>. QED
    BY <1>2, <1>3, <1>4, <2>1, <2>2, <2>3, <2>4
<1>8. CASE phase = "arrival" /\ level >= LastLevel
  <2>1. /\ phase' = "required_pre" /\ slacks[n] = <<>>
        /\ tags[n] = IF node_level(n) <= level THEN Arrived(delay)[n] ELSE Seeded[n]
    BY <1>1, <1>2, <1>3, <1>8, LoopLeaves DEF NextLoop
  <2>2. tags[n] = Arrived(delay)[n]
    BY <1>2, <1>3, <1>8, <2>1
  <2>. QED
    BY <1>1, <1>4, <2>1, <2>2 DEF TagsPart, TagsOutside
<1>9. CASE phase = "required_pre"
  <2>1. /\ phase' = "required" /\ level' = LastLevel /\ slacks[n] = <<>>
        /\ tags[n] = Arrived(delay)[n]
    BY <1>1, <1>9, LoopLeaves DEF NextLoop
  <2>2. TagsPart(n, 0)' = Arrived(delay)[n]
    BY <1>1, <2>1, FinishedEnds DEF TagsPart
  <2>3. TagsOutside(n)' = Arrived(delay)[n]
    BY <1>1, <1>3, <2>1 DEF TagsOutside
  <2>. QED
    BY <1>4, <2>1, <2>2, <2>3
<1>10. CASE phase = "required" /\ level > 0
  <2>1. /\ phase' = "required" /\ level' = level - 1 /\ slacks[n] = <<>>
        /\ tags[n] = IF node_level(n) >= level THEN Finished(delay)[n] ELSE Arrived(delay)[n]
    BY <1>1, <1>2, <1>3, <1>10, LoopLeaves DEF NextLoop
  <2>2. n \in Loop' <=> node_level(n) = level'
    BY <2>1 DEF Loop, LoopNodes, level_nodes
  <2>3. TagsPart(n, 0)' = Arrived(delay)[n]
    BY <1>1, <2>1, FinishedEnds DEF TagsPart
  <2>4. TagsOutside(n)' = IF node_level(n) > level' THEN Finished(delay)[n] ELSE Arrived(delay)[n]
    BY <1>1, <2>1 DEF TagsOutside
  <2>. QED
    BY <1>2, <1>3, <1>4, <2>1, <2>2, <2>3, <2>4
<1>11. CASE phase = "required" /\ level <= 0
  <2>1. /\ phase' = "slack" /\ slacks[n] = <<>>
        /\ tags[n] = IF node_level(n) >= level THEN Finished(delay)[n] ELSE Arrived(delay)[n]
    BY <1>1, <1>2, <1>11, LoopLeaves DEF NextLoop
  <2>2. n \in Loop'
    BY <2>1 DEF Loop, LoopNodes
  <2>3. tags[n] = Finished(delay)[n]
    BY <1>2, <1>3, <1>11, <2>1
  <2>. QED
    BY <1>1, <1>4, <2>1, <2>2, <2>3 DEF TagsPart
<1>12. phase # "slack"
  BY <1>1 DEF NextLoop
<1>. QED
  BY <1>2, <1>3, <1>5, <1>6, <1>7, <1>8, <1>9, <1>10, <1>11, <1>12 DEF Phases

LEMMA EndLoopKeepsSerialInv ==
  ASSUME SerialInv, ParInv', EndLoop
  PROVE  SerialInv'
<1>1. /\ pending' = Loop' /\ UNCHANGED <<job, tags, slacks>>
      /\ \A w \in Workers : ~Busy(w)
  BY DEF EndLoop, LoopDone, Enter, Loop, results
<1>2. \A w \in Workers : ~Busy(w)'
  BY <1>1 DEF Busy
<1>3. Loop' \subseteq Nodes
  BY LoopOverNodes DEF Loop
<1>4. ASSUME phase' # "idle" PROVE OutsideKept' /\ PendingAtZero'
  BY <1>1, <1>3, <1>4, LoopFinds DEF OutsideKept, PendingAtZero, Reached
<1>5. JobsAtStep'
  BY <1>2 DEF JobsAtStep
<1>6. DoneReached'
  <2>1. Done' = {}
    BY <1>1 DEF Done
  <2>. QED
    BY <2>1 DEF DoneReached
<1>. QED
  BY <1>1, <1>4, <1>5, <1>6 DEF SerialInv

(***************************************************************************)
(* The invariant.                                                          *)
(***************************************************************************)
LEMMA SerialInvInit == Init => SerialInv
BY ParInvInit DEF Init, SerialInv

LEMMA SerialInvStep == SerialInv /\ [Next]_vars => SerialInv'
<1>. SUFFICES ASSUME SerialInv, [Next]_vars PROVE SerialInv'
  OBVIOUS
<1>0. ParInv'
  BY ParInvStep DEF SerialInv
<1>1. CASE ChangeDelay
  BY <1>0, <1>1 DEF ChangeDelay, loop, results, SerialInv
<1>2. CASE update_timing
  <2>1. /\ phase = "idle" /\ phase' = "reset" /\ pending' = Nodes
        /\ UNCHANGED <<job, tags, slacks>>
    BY <1>2 DEF update_timing, Enter, results, LoopNodes
  <2>2. Loop' = Nodes /\ Done' = {}
    BY <2>1 DEF Loop, LoopNodes, Done
  <2>3. \A w \in Workers : ~Busy(w)'
    BY <2>1 DEF SerialInv, ParInv, JobsInLoop, LoopNodes, Busy
  <2>4. OutsideKept' /\ DoneReached' /\ JobsAtStep'
    BY <2>2, <2>3 DEF OutsideKept, DoneReached, JobsAtStep
  <2>5. PendingAtZero'
    BY <2>1 DEF PendingAtZero, Reached
  <2>. QED
    BY <1>0, <2>1, <2>4, <2>5 DEF SerialInv
<1>3. ASSUME NEW w \in Workers, TakeNode(w) \/ VisitStep(w) \/ FinishNode(w) PROVE SerialInv'
  BY <1>0, <1>3, TakeKeepsSerialInv, VisitKeepsSerialInv, FinishKeepsSerialInv
<1>4. CASE EndLoop
  BY <1>0, <1>4, EndLoopKeepsSerialInv
<1>5. CASE UNCHANGED vars
  <2>1. UNCHANGED <<delay, phase, level, pending, job, tags, slacks>>
    BY <1>5 DEF vars, loop, results
  <2>2. \A w \in Workers : Busy(w)' <=> Busy(w)
    BY <2>1 DEF Busy
  <2>3. Loop' = Loop /\ Done' = Done
    BY <2>1, <2>2 DEF Loop, Done
  <2>4. /\ \A n, k : Reached(n, k)' <=> Reached(n, k)
        /\ \A n : Steps(n)' = Steps(n) /\ TagsOutside(n)' = TagsOutside(n)
    BY <2>1, SameLoop, ReachedKept
  <2>. QED
    BY <1>0, <2>1, <2>2, <2>3, <2>4
    DEF SerialInv, OutsideKept, PendingAtZero, JobsAtStep, DoneReached
<1>. QED
  BY <1>1, <1>2, <1>3, <1>4, <1>5 DEF Next

(***************************************************************************)
(* The refinement: the end of the slack loop is the end of the abstract    *)
(* update, a result complete and serial; every other step of the update is *)
(* a stutter.                                                              *)
(***************************************************************************)
LEMMA SerialResult ==
  ASSUME NEW d, NEW ts, NEW ss,
         \A n \in Nodes : ts[n] = Finished(d)[n] /\ ss[n] = SlackOf(d, n)
  PROVE  ResultOf(ts, ss) = SerialTiming(Mode, d)
<1>. DEFINE serial == [n \in Nodes |-> do_slack_traverse_node(Mode, Finished(d)[n], <<>>)]
<1>1. SerialTiming(Mode, d) = ResultOf(Finished(d), serial)
  BY DEF SerialTiming, full_update_timing, do_update_slack, Finished, Arrived, Seeded
<1>2. \A n \in Nodes : ss[n] = serial[n]
  BY DEF SlackOf
<1>. HIDE DEF serial
<1>. QED
  BY <1>1, <1>2 DEF ResultOf

LEMMA InitRefines == Init => Analyzer!Init
BY DEF Init, Analyzer!Init, result, updating

LEMMA StepRefines ==
  ASSUME SerialInv, [Next]_vars
  PROVE  [Analyzer!Next]_(Analyzer!vars)
<1>0. \A w \in Workers : phase = "idle" => pending = {} /\ ~Busy(w)
  BY DEF SerialInv, ParInv, JobsInLoop, LoopNodes
<1>1. CASE ChangeDelay
  <2>1. Analyzer!ChangeDelay
    BY <1>1 DEF ChangeDelay, loop, results, Analyzer!ChangeDelay, result, updating
  <2>. QED
    BY <2>1 DEF Analyzer!Next
<1>2. CASE update_timing
  <2>1. /\ phase = "idle" /\ phase' = "reset" /\ UNCHANGED <<delay, updated, tags, slacks>>
    BY <1>2 DEF update_timing, Enter, results
  <2>2. updating = {} /\ updating' = Modes /\ Modes \in (SUBSET Modes) \ {{}}
    BY <2>1 DEF updating, Modes
  <2>3. result' = [m \in Modes |-> Unknown]
    BY <2>1 DEF result, Modes
  <2>4. Analyzer!StartUpdate
    BY <2>1, <2>2, <2>3 DEF Analyzer!StartUpdate
  <2>. QED
    BY <2>4 DEF Analyzer!Next
<1>3. ASSUME NEW w \in Workers, TakeNode(w) \/ VisitStep(w) \/ FinishNode(w)
      PROVE  UNCHANGED Analyzer!vars
  <2>1. UNCHANGED <<delay, updated, phase>> /\ phase # "idle"
    BY <1>0, <1>3 DEF TakeNode, VisitStep, FinishNode, loop
  <2>. QED
    BY <2>1 DEF Analyzer!vars, result, updating
<1>4. CASE EndLoop
  <2>1. /\ LoopDone /\ phase \in Phases \ {"idle"} /\ phase' = NextLoop(phase, level)[1]
        /\ updated' = (updated \/ phase = "slack")
        /\ UNCHANGED <<delay, tags, slacks>>
    BY <1>4 DEF EndLoop, LoopDone, Enter, results, SerialInv, ParInv, TypeOK
  <2>2. CASE phase = "slack"
    <3>1. phase' = "idle" /\ updated'
      BY <2>1, <2>2 DEF NextLoop
    <3>2. ResultOf(tags, slacks)' = SerialTiming(Mode, delay)
      <4>1. \A n \in Nodes : tags'[n] = Finished(delay)[n] /\ slacks'[n] = SlackOf(delay, n)
        BY <2>1, <2>2, LoopLeaves
      <4>2. ResultOf(tags', slacks') = SerialTiming(Mode, delay)
        BY <4>1, SerialResult
      <4>. QED
        BY <4>2 DEF ResultOf
    <3>3. updating = Modes /\ Modes # {} /\ updating' = {}
      BY <2>2, <3>1 DEF updating, Modes
    <3>4. result' = [m \in Modes |-> SerialTiming(m, delay)]
      BY <3>1, <3>2 DEF result, Modes
    <3>5. Analyzer!FinishUpdate
      BY <2>1, <3>3, <3>4 DEF Analyzer!FinishUpdate
    <3>. QED
      BY <3>5 DEF Analyzer!Next
  <2>3. CASE phase # "slack"
    <3>1. phase # "idle" /\ phase' # "idle"
      <4>1. level \in Int /\ LastLevel \in Int
        BY GraphFacts DEF Levels, SerialInv, ParInv, TypeOK
      <4>. QED
        BY <2>1, <2>3, <4>1 DEF NextLoop, Phases
    <3>. QED
      BY <2>1, <3>1 DEF Analyzer!vars, result, updating
  <2>. QED
    BY <2>2, <2>3
<1>5. CASE UNCHANGED vars
  BY <1>5 DEF vars, loop, results, Analyzer!vars, result, updating
<1>. QED
  BY <1>1, <1>2, <1>3, <1>4, <1>5 DEF Next

(***************************************************************************)
(* Parallel results are serial results: whatever order the workers take    *)
(* the nodes of a level in, and however their visits interleave, an update *)
(* ends with the tags and slacks the serial walk gives for the current     *)
(* delays, and nothing else touches a result.                              *)
(***************************************************************************)
THEOREM ParallelImplementsSerial == Spec => ParallelIsSerial
<1>1. Init => SerialInv /\ Analyzer!Init
  BY SerialInvInit, InitRefines
<1>2. SerialInv /\ [Next]_vars => SerialInv'
  BY SerialInvStep
<1>3. SerialInv /\ [Next]_vars => [Analyzer!Next]_(Analyzer!vars)
  BY StepRefines
<1>. QED
  BY <1>1, <1>2, <1>3, PTL DEF Spec, ParallelIsSerial, Analyzer!Spec
================================================================================
