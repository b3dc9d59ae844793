# Tatum: a formal model of the timing analyzer

Tatum is a static timing analysis library. A client builds a timing graph,
sets constraints and a delay calculator, and asks an analyzer for the arrival
times, required times and slacks of every node. The incremental analyzers do
the same after a delay change by re-evaluating only what the change can reach.
The documentation promises that their results are those of a full analysis;
the test program (`tatum_test/verify.cpp`) compares the two on sample
circuits. These modules state that promise, the invariants it rests on, and
check or prove them.

All paths below are relative to `src/libtatum/tatum/`.

## The system

| Component | State | Operations | Used by |
|---|---|---|---|
| Timing graph (`TimingGraph.*`) | nodes, edges, their order at each node, disabled edges, levels | add / remove / disable, `compress`, `levelize`, `optimize_layout`, `validate`; queries | everything |
| Constraints (`TimingConstraints.*`) | domains and their sources, pair constraints, uncertainties, I/O delays, latencies, constant generators | setters, `remap_nodes`; queries | visitors |
| Tags (`tags/`) | per node, tags grouped by type, in insertion order | `add`, `set`, `max`, `min`, find, clear | visitors |
| Visitors (`graph_visitors/`, `SetupAnalysis`, `HoldAnalysis`, `SetupHoldAnalysis`) | the tags and slacks of every node | reset, pre-traverse, traverse, slack: of one node | walkers |
| Walkers (`graph_walkers/`) | `SerialIncrWalker`: invalidated edges, two per-level queues, modified nodes; the others: counters | which nodes to visit, in which order | analyzers |
| Analyzers (`analyzers/`) | `never_updated_`, the visitor and the walker | `invalidate_edge`, `update_timing`, `update_setup_timing`, `update_hold_timing`, queries | client |
| Delay calculator (`delay_calc/`) | the client's | delay of an edge | visitors |
| Loop detection, validation (`base/`) | none | strongly connected components, checks of graph and constraints | graph, analyzers |
| Paths and reports (`timing_paths.*`, `report/`, `TimingReporter.*`) | none | trace paths along tag origins, collect the worst, critical path delays, report and compare | client |
| Echo files (`echo_writer.*`, `tatum_test/echo_loader.*`, `libtatumparse`) | none | write a setup and its results, load them | client |
| Test program (`tatum_test/`) | graph, constraints, delays, golden reference | load, levelize, renumber, analyse, verify, echo | |
| `sta_util`, dot writer, scripts | none | histograms, drawings, test runs | client |

A call goes one way: client, analyzer, walker, visitor, tags. A visit of a
node pulls the tags of its fan-in (its fan-out, for required times) and writes
its own container only. There are no callbacks into the analyzer. The hard
behaviours are:

* **staleness** in the incremental walker. What to reset is decided by the
  *origin* recorded in a tag, and three dependencies have no origin: the data
  arrival launched by a clock, the required time at a capture edge, and
  the seeds of the start points. Invalidation and propagation use one
  set of edges, queues shared by setup and hold, one `modified` flag;
* **order**: nodes are enqueued while the levels are walked;
* **protocol**: setup and hold may be updated together or one at a time, with
  any delay changes in between;
* **concurrency** with TBB: nodes of a level visited in parallel, and
  edges invalidated by several threads;
* **renumbering**: `compress` and `optimize_layout` give nodes and edges new
  ids, and constraints, delays and reference results must follow;
* **storage**: a tag container is one array sorted by type that moves when it
  grows, under visits that iterate it;
* **numeric edges**: infinities of constant generators, NaN for "no
  constraint", wildcard domains, counters of eight bits;
* **the same sum twice**: a report adds up every path again and throws if the
  analysis has another value.

`PROJECT.json` lists every such hazard at its line with the properties
that would catch it.

What makes each component correct: the *levelization* puts the ends of every
active edge in increasing levels; a *visit* leaves exactly the tags its
neighbours imply; the *queues* agree with their bits and range; the
*incremental walk* loses no change and returns; an *analyzer* returns the
analysis of the current delays, for the modes asked for, and leaves the other
mode's result alone; a *tag container* is the tags by type that a visitor put
there; a *path* runs from clock to clock with the slack of its endpoint; a
*setup* that is renumbered, or written and loaded, constrains and times the
same parts as before.

## Modules

    TatumBase            ids, times with infinities and NaN
      TimingGraph        the levelized graph (constant TG)
      TimingConstraints  constraint queries (constant TC)
      TimingTags         tags, and the tag container as sequences
        TagStore         the container as it is stored, a state machine
          (implements) TagContainer
          TagStore_proofs
        AnalysisVisitor  one visit of a node, setup or hold
          SerialWalker       full analysis, a function of the delays
          SerialIncrWalker   incremental analysis, a state machine
            IncrTimingAnalysis    it implements TimingAnalyzer
              TimingPaths         paths, critical delays and reports read from it
            SerialIncrWalker_proofs
          ParallelLevelizedWalker    full analysis with TBB, by any number of workers
            ParallelTimingAnalysis   it implements TimingAnalyzer, by SerialWalker
              ParallelTimingAnalysis_proofs
    ConcurrentInvalidate invalidate_edge() called by several threads
      ConcurrentInvalidate_proofs
    TimingAnalyzer       what any analyzer promises (abstract specification)
    Levelization         force_levelize, to check the levels given to TLC
    MutableTimingGraph   the graph under construction, a state machine
      (implements) Circuit   what it promises to the client that builds it
      MutableTimingGraph_proofs
      EchoFile           what is written of a setup and what is read back
        TimingSetup      graph, constraints, delays and results of one client,
                         changed, renumbered, written and loaded
          FullAnalysis     the analysis it is checked with, by SerialWalker
          (implements) ConstraintBook   what the constraints promise
          TimingSetup_proofs
    MutableTimingConstraints   the constraint setters and remap_nodes
    Lists                lists built by going through another one
    LoopDetect           strongly connected components
    TatumLemmas          least and greatest elements, induction, for the proofs
    FoldLemmas           what a fold computes, for the proofs
    MC*                  graphs, constraints, tags and threads for TLC

**Data.** A time is an integer or one of three reserved values for the
infinities and NaN, with the code's arithmetic and comparisons over them. The infinities are
out of reach of the sums of the runs, and integers below 2^24 are floats exactly, so no sum
is rounded; what is rounded is a time that is printed (`EchoFile`). A
tag is a record; a container is a sequence of tags per type, in the order the
code inserts them, because lookup returns the first match and a wildcard
domain matches anything. During an analysis the graph and the constraints are
constants; `TimingSetup` is where they change between analyses.

**`AnalysisVisitor`** is `CommonAnalysisVisitor` with `SetupAnalysisOps` and
`HoldAnalysisOps`. What a visit merges into a container is written as a
sequence of *requests* `[time, origin, base]`, in the code's order, and the
visit is the fold of its requests; the setup and hold comparisons are passed
to the fold.

**`SerialIncrWalker`** follows the code call by call:

| Variable | Code |
|---|---|
| `invalidated` | `invalidated_edges_`, `edge_invalidated_` |
| `arr`, `req` | `incr_arr_update_`, `incr_req_update_` |
| `modified` | `nodes_modified_`, `node_is_modified_` |
| `phase`, `level`, `todo` | where `update_timing_impl` is: the traversal, its `level_idx`, the nodes of the level not yet visited |
| `active` | which of the three update calls is under way |
| `tags`, `slacks` | the visitors' containers, per mode and node |

An update is one action to prepare (`update_timing`), one per node visited
(`ArrivalVisit`, `RequiredVisit`), one per level step, one for the slacks.
The client changes a delay and invalidates its edge between updates, in any
order, and may update any mode once a first update of all modes is made
(before that, the code's one-mode updates assert or differ; the model
leaves them out as its tests do).

The nodes of a level are visited in id order, not in queue order: within a
level the visits commute (a visit reads other levels only), so the order
cannot be told apart by any property stated here. `todo` is the level as it
was when its loop began, which is one of the outcomes the C++ has
when the vector grows under iteration (finding 1).

**`ParallelLevelizedWalker`** is the full analysis with TBB. `phase`, `level`
and `pending` are the `parallel_for_each` under way and its nodes not yet
taken; `job[w]` is the node worker `w` visits and the edge it pulls over next;
`local[w]` is its part of the `tbb::combinable` counter. One step of a visit
is one edge, so that two visits interleave edge by edge and a conflict can be
seen between two accesses. `EndLoop` is the join. `ParallelTimingAnalysis`
refines `TimingAnalyzer` with the serial full walk, as
`IncrTimingAnalysis` does.

**`ConcurrentInvalidate`** is `invalidate_edge` of the incremental walker cut
into its accesses: the membership test, `push_back` to the concurrent vector,
the copy and the installation of the grown bitset, the mark. The bitset is a
plain vector, so these accesses race; the behaviour is then undefined,
and the model has the outcomes in which every access meets the storage
installed at that moment.

**`MutableTimingGraph`** is the graph as its client changes it.

| Variable | Code |
|---|---|
| `nodes` | `node_ids_` (valid or not), `node_types_`, `node_in_edges_`, `node_out_edges_` |
| `edges` | `edge_ids_`, `edge_types_`, `edge_src_nodes_`, `edge_sink_nodes_`, `edges_disabled_` |
| `is_levelized`, `levelization` | `is_levelized_`; `level_nodes_`, `node_levels_`, `primary_inputs_`, `logical_outputs_` |
| `node_of`, `edge_of` | the client's handles: the id of each part it has added |

Ids are indices, and a removal leaves an invalid entry. `compress` and
`optimize_layout` renumber: each is one action that remaps every array,
levelizes, and lets the client's handles follow the returned `GraphIdMaps`.
`compress_throws` is the case where the closing `validate()` fails; the maps
are then lost, so that the client can only start over. What the code asserts or
documents as the caller's duty is a guard: `levelize` needs a graph without
holes, `optimize_layout` a levelization in which every node has a level.
`force_levelize` is the code's walk: `LevelWalk` folds over the places of the
list of placed nodes, `VisitFanout` over the out-edges of a node, and `Meet` counts an
in-edge down and places its sink when it was the last. The code iterates a list that
grows until a level comes out empty; the fold runs to the number of nodes, which the list
cannot exceed. The levels of a
graph that is not levelized are cleared in the model, because no accessor
returns them. `allow_dangling_combinational_nodes_` is a constant.

The refinement `ClientSeesCircuit` names every id by the client's handle for it
and forgets the levels: what is left must behave as `Circuit`, in which
nothing is ever renumbered. A renumbering that forgets one attribute, or a map composed
in the wrong order, is then a step `Circuit` does not have.

**`LoopDetect`** is Tarjan's algorithm as `loop_detect.cpp` runs it, with its
stack, indices and low links, over a graph whose edges the client enables and
disables. `MutableTimingGraph` uses what the algorithm is to return, not
the algorithm.

**`TagStore`** is one tag container of a node, `node_tags_` or `node_slacks_`.

| Variable | Code |
|---|---|
| `store` | `size_`, `capacity_`, the four `num_*_tags_` counters, `tags_` |
| `member` | which of the two containers of `CommonAnalysisOps` it is |
| `marking` | where `mark_sink_required_times` is: the arrivals it goes through, the next one, the capture clocks left |

Every operation of the container is an operator on `store`, index by index;
an insertion shifts the array or moves it to a larger one. The actions are
the calls the visitors make. An array is identified by its capacity, which is
another after every move, and reading a range into an array that has moved
gives `Dangling`, a tag of no domains: that is what the copy at
`CommonAnalysisVisitor.hpp:515` prevents. The counters are counted modulo
`CounterLimit`, and `HasRoom` keeps the visits within it; nothing in the code does
(see the hazards). `VisitorSeesContainer` is the refinement of `TagContainer`, whose
state is what the other modules use: the tags of each type, in order.

**`TimingPaths`** has no state of its own: every operator is a function of the
tags and slacks the incremental analyzer has at that moment, in the mode a
`TagRetriever` selects. Paths are traced from a SINK along `origin`, with the
fallbacks from the exact domains to a wildcard; a failed assertion is `NoTag` or
`NoEdge`. `report_timing_path` returns whether every sanity check of the report passes;
it is the code's running `path`, point by point.

**`MutableTimingConstraints`** is the constraint object as a record, and every
setter and `remap_nodes` an operator that returns the changed one.
**`EchoFile`** is what the writer puts into a file, as a sequence of
statements, and what the loader's callbacks make of each. A time is not read as it was
written: the writer prints it with the stream's default six significant digits (`Time.inl:123`), so that
`Printed` rounds a time of seven digits to tens, one of eight to hundreds, halfway to the even
one, as the C library does. Infinities and NaN are printed as words that the parser reads.
**`TimingSetup`** composes the two with `MutableTimingGraph`:

| Variable | Code (`tatum_test/main.cpp`) |
|---|---|
| those of `MutableTimingGraph` | `timing_graph` |
| `tc` | `timing_constraints` |
| `delays` | `delay_calculator`, by edge id |
| `golden` | `golden_reference` |
| `before`, `changes` | history and bound, not in the code |

The client adds constraints, removes and disables parts, levelizes, compresses or
optimizes and remaps what refers to ids, writes the analysed setup to a file
and loads it. `remap_delay_calculator` serves `optimize_layout` only, as in the test program: it writes at
every new id of the map (`util.cpp:33`), and the map of `compress` has an invalid id for each edge that
was removed. After `compress` the client keeps the delays of the edges that are left by
itself (`compressed_delays`). `Analysable` is what the constructors of the analyzers and the
assertions of the pre-traversal accept; `Analysis` applies the parameter `AnalysisOf` to
the graph, constraints and delays as they are. The runs give it `FullAnalysisOf`, the
walk of `SerialWalker` for both modes. `FileAssumption` says that the file the client
starts from is one of its circuit: a node or an edge for each name, of its type
and between its ends. A statement that makes a clock has the id that `create_clock_domain` gives
the client for it.

`ClientSeesConstraints` names every node by the client's handle and must
then behave as `ConstraintBook`, where no ids exist: one value per subject, the last one set. The
book is read off `InForce`, the statements that the record of constraints amounts to; a clock whose
source was removed is one without a source, and only the marks of constant generators (`Marks`) can
be taken back. Whoever states a constraint that the library does not follow sees
it move or vanish, so the refinement is claimed of the statements it `CanFollow`: of one of the 13
kinds, about a node where the kind has one, and

* a clock constraint has no capture node: `remap_nodes` would leave it behind (finding 4);
* the time of an input, output or clock constraint lies between the infinities and is not NaN: the
  echo writer drops invalid ones.

A book that is written and loaded is not the same book: each time in it is `Transcribed`, to
the digits that are printed. `ClientSeesConstraints` says in its second part that this happens when
the setup is echoed and in no other step. Likewise `before`, which `RenumberingKeepsAnalysis` compares
with, is after an echo the analysis of the old graph by the times as they are printed
(`PrintedConstraints`, `PrintedDelays`): the rounded times enter on both sides of the
comparison, and everything else of the echo on one.

`MCTimingSetup` assumes it of its settings.

**`TimingAnalyzer`** is the abstract specification: delays, a result per mode,
an update that makes the result `Analysis(m, delay)`. `IncrTimingAnalysis`
refines it with `Analysis` the full walk of `SerialWalker`, a mapped result
`Unknown` before the first update and during an update of that mode.

## Runs

| Run | Instance | Shows |
|---|---|---|
| `flip_flop` | a flip-flop with feedback, an input and an output; 4 edges with two delays each; setup and hold by one walker, updates of both or of one in any order | type, queues, `LocallyConsistent`, where nodes are enqueued, modified nodes, refinement of the full analysis; paths, critical path delays and reports read from the incremental results |
| `two_clocks` | two clock domains, a constant generator, a per-node constraint, latencies, a primary input and output, a loop cut by a disabled edge to an earlier level, a disabled capture edge; setup | several tags per node, unconstrained pairs, wildcard domains; nodes enqueued behind the traversal do no harm and the update returns; `find_edge` takes the capture edge disabled or not, so the required times come over it and the walk has to follow disabled edges: a repair of finding 1 that skipped them would leave stale required times |
| `parallel_setup` | a clock, a flip-flop, two gates with the same fan-in, two capturing SINKs, two unconstrained outputs, one capture edge disabled; two delay functions; two workers | no conflict, counts, refinement of the serial analysis |
| `invalidate_threads` | two threads, edges 0..2, four calls | no invalidated edge is lost |
| `mutable_graph` | an output pin and an input pin in a loop, with an output; every sequence of add, remove, disable, levelize, compress, optimize | ends and lists agree, levels are never stale, a validated graph can be walked, the layout is the walk's, refinement of `Circuit` |
| `loop_detect` | all 4096 graphs of four nodes without self edges | the components reported are exactly the strongly connected ones |
| `timing_setup` | a file with a flip-flop, its clock, a tied-off input, an output in another domain, a delay and a constraint of seven digits; up to two changes of graph or constraints between reloads | analyses of all parts survive renumbering and, but for the digits that are not printed, reloading; the reference written is verified exactly if no tag lacks a time; what is validated leaves only the kinds of nodes it names in level 0; refinement of `ConstraintBook` |
| `tag_store` | a node reached from two domains or a constant, two capture clocks | segments, refinement of `TagContainer`, required times for every arrival |
| `false_path` (violation) | an edge disabled between two nodes of one level | finding 1 |
| `invalidate_race` (violation) | as `invalidate_threads` | finding 2 |
| `report_latency` (violation) | `two_clocks` with the output in the domain that has a latency | finding 3 |
| `remap` (violation) | `timing_setup` with per-node clock constraints | finding 4 |

The central property is `LocallyConsistent`: at every moment, inside an update
too, a node whose tags are not those its neighbours now imply is still
waiting to be visited. It breaks when a reset is missed, when a node is
dropped or when a flag is lost, at the step where that happens.
`IncrementalIsFull` is the end-to-end statement. `ChangedNodesRecorded` is what
both the slack update and the client's use of `modified_nodes()` rely on.
`CriticalPathIsCritical` and `CriticalPathDelayIsTight` say what a path and a critical
path delay are for: the latter runs the analysis again with the delay as the
constraint and finds a worst slack of zero, in the code's own words ("the
smallest period we can run the launch clock at while not violating the
constraint").

**Bounds.** `MaxChanges` bounds the delay changes between two updates, not the
number of updates: the state space is closed under any sequence of them. One
change exercises every reset and propagation, and with updates of one mode
changes accumulate for the other. Two delays per changing edge make a dominant
edge lose and regain its rank. Each graph has one of every
structure the walker distinguishes: launch, capture, reconvergence, capture
edge before and after the data edge, SINKs with and without a clock, disabled
edges forward, level, and back. The MC modules assume that the levels they write
down are those `Levelization` computes.

Two workers are enough for a conflict or for a lost count, which concern two
visits; the parallel graph has two nodes that can be visited together on each
level where visits share a neighbour, and two unconstrained outputs that may be
counted by one worker or by two. The workers, and the threads of
`ConcurrentInvalidate`, are interchangeable and its cfgs use symmetry, except
for the run that shows a counterexample. Edges 0..2 give the bitset
three lengths to grow through; four calls let each thread meet the other's
edge while it is being marked and after.

`MaxNodeIds` and `MaxEdgeIds` bound the ids in use, holes included, at three
each: the length of the history between two `compress` is bounded, the number of
them is not. Three parts are enough for a hole in front, in the middle
and at the end, for a part added again under another id, for a loop, and for a
node after a loop. `LoopDetect` needs four nodes so that a finished
component can be met from an unfinished one with an edge back (`LastNode`).

In `timing_setup` `MaxChanges` bounds the changes since the file was last
loaded whole; with two, a constraint meets a removal, a disabled edge or another
value of itself, before or after any renumbering. The ids in the file
follow none of the orders the library produces, so that every renumbering moves
every part. The delay 1000007 and the constraint 1234565 have a digit more than is printed; the
latter lies halfway between two times that can be. In `tag_store` the array starts with the code's three places and
grows once or twice with up to `MaxTags` tags; `CounterLimit` is 5 in place of 256, just
above what the node can get.

Three hazards lie outside what the runs can reach, and `PROJECT.json` says so beside
them. `TimingTag::update` asserts that both tags have the same domains, unless the stored one is a
constant generator's (`TimingTag.inl:53`); the models' `update` has no assertion. The eight bits of the counters overflow beyond
`HasRoom` only. `CriticalPathDelayIsTight` is checked without per-node constraints, with which it
would not hold.

**Fairness.** `WalkFairness` is weak fairness of the steps that move a
traversal on (`CursorMoves`), as long as one is possible: an update once begun is a
synchronous loop that goes on. The client is not assumed to do anything.
`UpdateTerminates` is checked under it.

## Proofs

`SerialIncrWalker_proofs` proves, for every graph, constraint set, delay
function and number of changes that satisfy `TGAssumption` and
`WalkerAssumption`:

* `TypeCorrect`: `Spec => []TypeOK`;
* `QueuesAlwaysAgree`: `Spec => []QueuesOK`;
* `EnqueuesOnlyAhead`: `Spec => NoEnqueueBehindCursor`, if every edge leads to
  a later level (`LevelsIncrease`);
* `IteratedLevelNeverGrows`: `Spec => IteratedLevelFixed`, if so.

The inductive invariant is `WalkerInv == TypeOK /\ QueuesOK /\ TodoOnLevel`.
`TypeOK` alone is not inductive: `level` stays in range because the queue
bounds do, and `ClearQueue` empties only the levels between the bounds, so
that the next update starts from empty queues only if no node was queued
outside them, which is `QueuesOK`. `TodoOnLevel` ties the node being visited to the
level under way, so that with `LevelsIncrease` the ends of its edges are
ahead of the cursor. `TGAssumption` is that the graph is well formed and
that *active* edges lead to later levels, which the levelization guarantees
of a graph without active loops. `LevelsIncrease` is a restriction on the
client's graph: the run `false_path` shows that it cannot be dropped, and
`two_clocks` what still holds without it. A visit enters the proofs only
through the facts that it changes the visited node's tags and that the
propagation uses the edges of that node.

`ParallelTimingAnalysis_proofs` proves, for every finite, non-empty set of workers:

* `TypeCorrect`: `Spec => []TypeOK`;
* `VisitsNeverRace`: `Spec => []NoConflict`, two workers about to make a step
  never touch a container that one of them writes;
* `EveryUnconstrainedCounted`: `Spec => []UnconstrainedCounted`, what the join
  of the workers' counters returns is the number of unconstrained start
  and end points of the graph;
* `ParallelImplementsSerial`: `Spec => ParallelIsSerial`, the parallel analysis
  implements `TimingAnalyzer` with the *serial full walk* as the meaning of a result. This
  is the claim that the two walkers are interchangeable.

The first invariant, `ParInv`, adds to `TypeOK` that the pending nodes and the nodes
being visited belong to the loop under way and that these are all different.
Then two visits of an arrival or required loop are on one level, and what a
visit reads is on another: over an active edge by `TGAssumption`, over a
capture edge by `CaptureOnOtherLevel`. That second assumption is needed
because a disabled capture edge is read all the same; it holds because the
levelization places a node with out-edges before the last level, and a SINK
with an active in-edge on it. It excludes a SINK whose in-edges are all
disabled and whose clock pin has no active fan-in either: both are then on
level 0. `EdgeListsOK` says that the edge lists of a node hold its
own edges; `CaptureIsInEdge`, that the capture edge of a node is one of its
in-edges.

`CountInv`, for the counters: during the two pre-traversals the sum of `local` over the workers is the
number of unconstrained nodes of that loop visited so far, and after the join
the combined number is that of all. A step adds one to one worker's counter
exactly when it visits such a node (`StepVisits`, `StepCounts`), however the nodes are shared out,
and a combined count stays right because no later loop changes the tags of an end
point (`EndTagsKept`): it is on the last level, where every out-edge is disabled.

The argument for the refinement, for every graph, delays and constraints:

1. *The serial walk is a walk by levels.* `SerialWalker` folds the visits over
   a sequence of all nodes sorted by level. The sequence has every node
   once (`NodesRanked`, `EveryPlaceTaken`, `LevelOrderSorted`), and where the visits read only what
   lies earlier, a fold leaves at every node the visit of the containers as the
   fold leaves them (`WalkInOrder`).
2. *A visit reads other levels only* (`ArrivalVisitReads`, `RequiredVisitReads`): two sets of containers
   that agree on the earlier (the later) levels give the same visit.
3. *A visit is its steps.* The serial visit folds the edges, the parallel visit
   pulls over one edge at each step; after the last step the two are equal
   (`ArrivalStepwise`, `RequiredStepwise`, by `FoldSteps`).
4. `SerialInv`, the invariant: the container of each node being visited is as
   many steps into the serial visit as its worker is, the containers of the
   visited nodes are at its end, those of pending nodes at its start, and all
   others hold what the earlier loops left. At a join this gives the next loop its start
   (`LoopLeaves`, `LoopFinds`); after the slack loop it is the serial result.

It rests on `TGAssumption` and `ParallelAssumption`, the latter as above.

`ConcurrentInvalidate_proofs` proves `EdgesNeverLost`, `Spec => []NoEdgeLost`:
for any threads, edges and calls, an edge whose `invalidate_edge` has
returned is in the list, although the bitset may have lost its mark.
The invariant, `ListInv`, is that every mark set anywhere, in the
bitset or in a copy a thread is about to install, is that of a listed edge.

`TagStore_proofs` proves three results. `SegmentsStaySorted`, `Spec => []SegmentsHoldTypes`:
for any tags, any reserve and any growth factor of at least two, the array of a container
stays sorted by type with its segments where the counters say. The invariant,
`StoreOK`, adds to the property that the array is smaller than what `capacity_` can
hold and that its entries are tags. The argument has three parts: an insertion at
the end of a segment leaves the earlier segments, lengthens its own and shifts the later ones
by one (`SegmentsShift`, `InsertSorted`); growing gives room for one more
(`GrownCapacityOK`); what is found by the search lies in the segment of its type, so
that overwriting, merging and resetting change no type (`SameTypesOK`). It rests on
`LimitsAssumption` (the limits of the integers, a factor that grows), on
`TagsAssumption` (slack containers get slacks only) and on the guard `HasRoom`, which is
the caller's duty that the code leaves unsaid: without it a counter wraps.

`StoreImplementsContainer`, `Spec => VisitorSeesContainer`: what the visitors see of the
array, its counters and its moves is `TagContainer`, so that the other modules
may use sequences of tags by type. Each operation on the
array is shown to be the operation on the sequences: an insertion appends to its
segment and moves no other tag out of its own (`AddTagAppends`), the
search in a segment finds the same tag as the search in the sequence
(`SameMatch`), and so for setting, merging and resetting (`SameSet`, `SameMerge`,
`SameReset`). The copy of the arrivals is what makes the marking of a SINK refine: it
reads the arrivals of the moment it began (`MarkStep`).

`MarkingRequiresEveryArrival`, `Spec => EveryArrivalRequired`: when a marking ends,
every arrival has a required time for every capture clock. The inductive invariant is
`StoreInv`: `StoreOK`, every tag in the array is one of the given ones
up to its time (`TagsKnown`), and the arrivals and clocks a marking has
passed are required (`MarkingOK`).

`MutableTimingGraph_proofs` is about the graph under construction, for any
names, types and wiring (`ClientAssumption`: types are those of the enums and an edge
is between two nodes of the client) and any bounds on the ids:

* `IdsInRange`: `Spec => []TypeOK`;
* `ReferencesStayConsistent`: `Spec => []ReferencesConsistent`;
* `LevelsStayCurrent`: `Spec => []LevelsCurrent`;
* `LayoutStaysInWalkOrder`: `Spec => LayoutFollowsWalk`;
* `GraphImplementsCircuit`: `Spec => ClientSeesCircuit`;
* `CompressedCanBeWalked`: `Spec => CompressedIsWalkable`.

The inductive invariant, `GraphInv`, has three parts. *The graph is sound*
(`Sound`): ids are dense, a valid edge is once in each of the lists of its two
ends, the lists hold nothing else but invalid references, and a graph that has
no invalid id has no invalid reference either. *The handles fit* (`HandlesOK`): the
client knows each valid id by exactly one name. *The levelization is the one of this
graph* (`LevelsOK`): if `is_levelized`, there are no holes and `levelization` is
what `force_levelize` returns for the graph as it is. `ReferencesConsistent` alone is not
inductive, because after a renumbering it must be known that no hole was left
in a list; `LevelsCurrent` is not, because it says nothing of the graph.

1. *Each operation leaves a sound graph.* Adding, removing a set of edges, removing a
   node with its edges, renumbering nodes, renumbering edges. `compress_ids` is a
   bijection from the valid ids to an initial segment (`CompressRenumbers`), and so is
   the position in a list that has each id once (`PositionRenumbers`).
2. *The walk of `force_levelize` is complete* (`WalkFinishes`, `LevelizationLevels`). The invariant of the
   walk, `Between`, says after `i` places: the edges met are the active out-edges of the first
   `i` nodes of the order, a node is in the order, or aside, exactly if all its active in-edges
   are met, once, and levels rise along met edges. The order has each node at most once, so that
   the walk is at its end after as many places as there are nodes; then the nodes
   without a level each have an active predecessor without one, and no set with that
   property has a node with a level.
3. *Renumbering makes no loop* (`NoLoopMade`), so that `optimize_layout`, which
   levelizes in between, orders every node and every edge once (`NodesOrderedOnce`,
   `EdgesOrderedOnce`).
4. *The layout stays in the order of the walk.* Two graphs that differ by a renaming of ids (`Renamed`)
   have walks that differ by it, step by step, if they start alike (`MeetAlike`, `FanoutAlike`,
   `WalkAlike`), and so their levels list the same nodes in the same order (`SameOrder`). The starts are the
   catch: the code takes the nodes without active fan-in in the order of their ids, which
   the renaming changes. But those are level 0, which heads the layout (`StartHeads`: level 0
   holds just the start, in its order), so that they get the ids 0, 1, ... in the order in which they
   were, and the walk over the renumbered graph starts as the first one did (`StartKeepsOrder`). The edges
   are then numbered by the fan-ins of *that* graph, and moving them changes neither
   the start nor the order of a fan-in (`ThirdLayout`, `FaninsAscend`).
5. *The refinement.* Seen through the handles, `AddNode` adds a part, `AddEdge` appends a wire to the
   fan-out and fan-in of its ends, `RemoveEdges` drops wires (`TakenOutIsDropped`), and a
   renumbering that the handles follow cannot be seen (`FollowedIsUnseen`): the new lists
   have the new ids of the same elements in the same order.
6. *Compressed graphs can be walked.* `validate` is the guard of `compress`; that it passes means no
   loop is left (`NoLoopLeft`), so every node has a level, and with the types the client
   gave its parts (`PartsStayAsDefined`, proved from the refinement: nothing in `Circuit` changes
   the type of a part) the record handed to the walkers satisfies `GraphOK` and
   `ActiveLevelsIncrease`. These are `TGAssumption`, on which the theorems
   about the walkers rest: what they assume of a graph is here proved of the graphs that
   `compress` accepts.

`TimingSetup_proofs` takes this to the client that loads a setup, changes, renumbers,
analyses and writes it, for any circuit, any file of it (`FileAssumption`), any statements
and any `AnalysisOf`: what is proved of the graph holds whatever the analyses give.

* `SetupStaysSound`: `SetupSpec => []SetupInv`;
* `SetupStaysConsistent`: `TypeOK`, `ReferencesConsistent` and `LevelsCurrent`, now with
  graphs that were loaded, reloaded or started over;
* `ReloadKeepsCircuit`: writing and loading changes no part and no wire the client has a
  name for, neither its type, its ends nor its disabled flag;
* `ValidatedCanBeWalked`: what the constructor of an analyzer accepts satisfies
  `GraphOK` and `ActiveLevelsIncrease`, the `TGAssumption` of the walkers' theorems;
* `StartpointsAreValidated`: `SetupSpec => []ValidatedStartpoints`.

`SetupInv` is `GraphInv` with `AsDefined`: a part has the type, and a wire the ends, that the client
gave it. `GraphInv` alone would not do: that types are those of the enums, which `GraphOK`, the start
points and the reloaded graph need, is known only through the names the client has for its parts.

Two more results are about the constraints, of every client whose settings and
file the library `CanFollow`:

* `ConstraintsStaySound`: `SetupSpec => []ConstraintsInv`. Every constraint is about a node that
  exists and is not removed, a clock's source alone may be one that was; clock domains
  are numbered without holes and named apart; there is one input or output constraint of a
  kind per node and domain, and what the writer would drop is not there;
* `SetupKeepsConstraints`: `SetupSpec => ClientSeesConstraints`, the refinement of
  `ConstraintBook`. Whatever is removed, compressed, optimized, written and
  loaded in between, the client reads the values it set last, about the parts it set them for;
  each echo rounds the times to the digits printed, and no other step changes them.

1. *Loading is a fold* of `AddNode` over the stated nodes, then of the edge callback over
   the stated edges (`FoldSteps`, twice instantiated). Each keeps `Sound`, and ids are positions in the
   file (`FileLoaded`), so that positions are handles (`PositionsAreHandles`).
2. *What is written is such a file* (`WrittenIsLoaded`), of a graph without holes. Loading it gives back
   every node and edge under its id; only the order of the edge lists may change. Hence
   `EchoSound`.
3. *Every other step* that touches the graph is a step of `MutableTimingGraph`
   (`SetupStepsAreGraphSteps`), for which `GraphInv` is known to be inductive.
4. *Level 0 holds the nodes without active fan-in* (`FirstLevel`); which of these the
   validations let through is a case split on their type (`StartpointKinds`).

The refinement is proved on sets of statements, first by node id and then by name:

1. *A setter puts one statement in force* in place of those about the same subject, whatever shape
   the section of the record has (`StatementRead`, from a lemma per setter). A file is
   read statement by statement (`StatementsRead`).
2. *What is written is what is in force, as printed* (`ConstraintsWritten`, `Copied`), each statement once and the clocks
   first, in the order of their ids; read back, each clock gets its id again and
   no statement replaces another (`WrittenIsChain`, `ChainRead`): `ConstraintsEchoed`.
3. *`remap_nodes` moves every statement* to the new id of its node (`ConstraintsRemapped`). It
   drops only the source of a clock that was removed, which the client reads as no source.
4. *By name*, moving along with the handles changes nothing in the book (`BookFollows`), a statement
   put in force is an entry (`StatementAdded`), a mark taken back is one
   struck (`GeneratorStruck`), and removing an unconstrained node loses at most the
   sources at it (`PartLost`).
5. Each action is then a step of the book or leaves it alone (`StepsAreBooked`). The ids
   that `compress` and `optimize_layout` give come from `CompressMaps` and `OptimizeMaps`, that the
   graph is loaded under the same ids from `WrittenIsLoaded`.

**Induction.** Library induction takes an operator as parameter, which
the provers here cannot instantiate. `TatumLemmas` states induction over
the naturals, an initial segment of them and the subsets of a finite set as first-order
facts about a *set* of good elements. `FoldLemmas` has the operator of a fold as a constant, to be
instantiated once for each fold: that the recursion behind a
fold exists (`FoldDefined`), that it takes one element at a time (`FoldSteps`), and what a
walk over a sequence leaves behind (`WalkInOrder`). Its theorems have as hypothesis (`Basics`) the
facts of the library they use, so that an instance carries nothing else into
the proofs around it; every instance proves what it needs of it from `FoldBasics` and `SubsetsCounted` of `TatumLemmas`.

**Only model-checked:**

* `LocallyConsistent`, `ChangedNodesRecorded` and `IncrementalIsFull`, that the
  incremental walk loses no change. They rest on how the tags of neighbours and their
  origins are shaped, which depends on the constraints: wildcard domains beside
  exact ones, constant generators, disabled clock edges. A theorem for every
  graph would need hypotheses on these that the code does not state;
* `RenumberingKeepsAnalysis` and `EchoVerifies`, which compare whole analyses, folds of visits over
  folds of requests, of graphs and constraints under two numberings;
* `ComponentsFound` of `LoopDetect`, whose algorithm is a RECURSIVE operator;
* the properties of paths and reports, functions of the results of the incremental
  analysis above, traced recursively;
* `UpdateTerminates`: liveness under fairness is out of the provers' reach.

## Findings

1. *A vector grows while it is iterated* (`SerialIncrWalker.hpp:132`).
   `do_arrival_traversal_impl` enqueues the sink of every out-edge of a modified
   node, disabled ones too. The levelization ignores disabled edges, so such
   a sink may be on the level under way, and `push_back` then invalidates the
   iterators of the range-for over that level. The class comment says the queues "may be
   modified while do_arrival_traversal_impl()/do_required_traversal_impl() are
   running"; that is safe for other levels only.
2. *The bitset of invalidated edges is not thread safe*
   (`SerialIncrWalker.hpp:216`). The comment at line 439 asks for thread safe
   alternatives with TBB, "since invalidate_edge_impl may be called
   concurrently"; the list is a concurrent vector, the bitset is not. Two
   calls that grow it together lose a mark. The edge stays in
   the list (`EdgesNeverLost`), and another call for it lists it again. That is all there is to
   see in the outcomes modelled: `prepare_incr_update` (line 257) goes through
   `enqueue_arr_node` and `enqueue_req_node`, which mark every listed edge (lines 269 and 275) before
   the first visit asks for marks, so no stale tag survives the next update. Beyond that, an
   unsynchronized resize is undefined behaviour.
3. *Launch latency in the capture path of a report* (`TimingReporter.cpp:549`).
   One function adds up both clock paths and takes the launch latency (late for
   setup, early for hold) for both; the analysis takes the capture latency for
   the capture. On a path to a flip-flop the capture tags overwrite the sum. On
   a path to an output there is no capture path: if the two latencies of the
   output's domain differ, the sanity check of the required time throws.
4. *Per-node clock constraints do not follow a renumbering*
   (`TimingConstraints.cpp:400`). `remap_nodes` ("Update node IDs if they have
   changed") leaves the capture nodes in the keys of the setup and hold
   constraints as they are: the constraint then applies to the node that got the id.

Remarks without a run:

* The start points seeded by the first update are not among its modified nodes
  (`SerialIncrWalker.hpp:83`), unless a traversal changes them.
* `logical_outputs()` is documented as possibly on different levels
  (`TimingGraph.hpp:160`); the code collects the SINKs of the last level
  (`TimingGraph.cpp:443`), so that one whose in-edges are all disabled is missing.
* The comment on `set_allow_dangling_combinational_nodes`
  (`TimingGraph.hpp:248`) says that dangling nodes are an error if the flag is
  true; the code (`TimingGraph.cpp:690`) throws if it is false, and the model
  follows the code.
* 255 tags of a type fit into a container, not the 256 of the comment
  (`TimingTags.hpp:192`): the next wraps the counter.
* The parser hands NaN to every reference time (`tatumparse.y:243`), so that the
  test program compares which tags there are, and no times. Modelled so.
* A critical path delay is taken from the domain pair's constraint
  (`timing_paths.cpp:50`), the slack at a node with a constraint of its own from
  that one; `CriticalPathDelayIsTight` holds without such nodes only.
* `collect_worst_timing_paths` returns one path when asked for none
  (`TimingPathCollector.cpp:54`).

## Not modelled

* Edge slacks: compiled in by `TATUM_CALCULATE_EDGE_SLACKS` only.
* A graph changed under an incremental analyzer: the library has no operation
  that tells an analyzer of it; clients make a new analyzer. `TimingSetup` has graphs
  that change under full analyses.
* The parallel analysis for hold: the loops are the same, the operators are
  `AnalysisVisitor`'s, which `flip_flop` checks for both modes.
* Transitive fan-in and fan-out, `infer_edge_type`, histograms, the dot
  writer, layout of reports, unconstrained reports: queries and formatting that
  nothing else depends on.
* The lexer and the error handling of the parser (generated), command line,
  timing and profiling of the test program, scripts.
