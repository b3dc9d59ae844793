----------------------------- MODULE SerialWalker -----------------------------
(***************************************************************************)
(* A full (non-incremental) analysis: the walk SerialWalker makes for a    *)
(* Full*TimingAnalyzer.  Nothing of an earlier update survives do_reset,   *)
(* so that an update is a function of the delays alone.  It is what the    *)
(* incremental walker is compared with.                                    *)
(***************************************************************************)
EXTENDS AnalysisVisitor

(***************************************************************************)
(* Nodes level by level.  Within a level the order does not matter (the    *)
(* parallel walker takes any); the code follows the levelization's.        *)
(***************************************************************************)
Precedes(a, b) ==
  node_level(a) < node_level(b) \/ (node_level(a) = node_level(b) /\ a < b)

LevelOrder ==
  [i \in 1 .. Cardinality(Nodes) |->
     CHOOSE n \in Nodes : Cardinality({k \in Nodes : Precedes(k, n)}) = i - 1]

do_arrival_pre_traversal(m, tags) ==
  [n \in Nodes |-> IF n \in level_nodes(0)
                   THEN do_arrival_pre_traverse_node(m, tags[n], n).tags
                   ELSE tags[n]]

do_arrival_traversal(m, delay, tags) ==
  FoldLeft(LAMBDA ts, n : [ts EXCEPT ![n] = do_arrival_traverse_node(m, delay, ts, n, @).tags],
           tags, LevelOrder)

do_required_traversal(m, delay, tags) ==
  FoldLeft(LAMBDA ts, n : [ts EXCEPT ![n] = do_required_traverse_node(m, delay, ts, n, @).tags],
           tags, Reverse(LevelOrder))

(***************************************************************************)
(* What a client reads of an analysis: the tags and slacks of every node.  *)
(***************************************************************************)
ResultOf(tags, slacks) ==
  [n \in Nodes |-> [tags |-> View(tags[n]), slacks |-> SlackView(slacks[n])]]

do_update_slack(m, tags) ==
  ResultOf(tags, [n \in Nodes |-> do_slack_traverse_node(m, tags[n], <<>>)])

full_update_timing(m, delay) ==
  LET seeded == do_arrival_pre_traversal(m, [n \in Nodes |-> NoTags])
  IN  do_update_slack(m, do_required_traversal(m, delay, do_arrival_traversal(m, delay, seeded)))
==============================================================================
