------------------------------ MODULE LoopDetect ------------------------------
(***************************************************************************)
(* identify_strongly_connected_components(): Tarjan's algorithm over the   *)
(* active edges of a graph whose client enables and disables them.         *)
(***************************************************************************)
EXTENDS Integers, Sequences, FiniteSets, SequencesExt, FiniteSetsExt

CONSTANTS LastNode,   \* the nodes are 0 .. LastNode, an edge between any two
          MinSize     \* the least size of a component to report

ASSUME LoopDetectAssumption == LastNode \in Nat /\ MinSize \in Nat \ {0}

VARIABLE active   \* active[n]: the sinks of n's active edges

Nodes == 0 .. LastNode
sinks(n) == SelectSeq([i \in 1 .. LastNode + 1 |-> i - 1], LAMBDA m : m \in active[n])

Init == active = [n \in Nodes |-> {}]

disable_edge(n, m, disable) ==
  /\ m # n
  /\ active' = [active EXCEPT ![n] = IF disable THEN @ \ {m} ELSE @ \cup {m}]

Next == \E n, m \in Nodes, disable \in BOOLEAN : disable_edge(n, m, disable)

Spec == Init /\ [][Next]_active

(***************************************************************************)
(* The algorithm.  A state has the next index, the stack, per node its     *)
(* NodeSccInfo, and the components found.                                  *)
(***************************************************************************)
NodeSccInfo == [on_stack |-> FALSE, index |-> -1, low_link |-> -1]

Start == [cur_index |-> 0, stack |-> <<>>, sccs |-> <<>>,
          node_info |-> [n \in Nodes |-> NodeSccInfo]]

Enter(st, n) ==
  [st EXCEPT !.cur_index = @ + 1, !.stack = Append(@, n),
             !.node_info[n] = [on_stack |-> TRUE, index |-> st.cur_index,
                               low_link |-> st.cur_index]]

Lower(st, n, sink) ==
  [st EXCEPT !.node_info[n].low_link = Min({@, st.node_info[sink].low_link})]

\* Mutant: nodes of finished components count too.
SameComponent_Visited(st, sink) == st.node_info[sink].index # -1

SameComponent(st, sink) == st.node_info[sink].on_stack

PopComponent(st, n) ==
  LET from == CHOOSE i \in DOMAIN st.stack : st.stack[i] = n
      scc  == SubSeq(st.stack, from, Len(st.stack))
  IN  [st EXCEPT !.stack = SubSeq(@, 1, from - 1),
                 !.node_info = [m \in Nodes |-> IF m \in ToSet(scc) THEN [@[m] EXCEPT !.on_stack = FALSE]
                                                                   ELSE @[m]],
                 !.sccs = IF Len(scc) >= MinSize THEN Append(@, Reverse(scc)) ELSE @]

RECURSIVE strongconnect(_, _)
strongconnect(st, n) ==
  LET Follow(s, sink) ==
        IF s.node_info[sink].index = -1 THEN Lower(strongconnect(s, sink), n, sink)
        ELSE IF SameComponent(s, sink)  THEN Lower(s, n, sink)
        ELSE s
      done == FoldLeft(Follow, Enter(st, n), sinks(n))
  IN  IF done.node_info[n].low_link = done.node_info[n].index THEN PopComponent(done, n) ELSE done

identify_strongly_connected_components ==
  FoldLeft(LAMBDA st, n : IF st.node_info[n].index = -1 THEN strongconnect(st, n) ELSE st,
           Start, [i \in 1 .. LastNode + 1 |-> i - 1]).sccs

(***************************************************************************)
(* Properties                                                              *)
(***************************************************************************)
Reachable ==
  LET within[k \in 0 .. LastNode] ==
        IF k = 0 THEN [n \in Nodes |-> {n}]
        ELSE LET r == within[k - 1] IN [n \in Nodes |-> r[n] \cup UNION {active[m] : m \in r[n]}]
  IN  within[LastNode]

Components ==
  LET r == Reachable
  IN  {c \in {{m \in Nodes : m \in r[n] /\ n \in r[m]} : n \in Nodes} : Cardinality(c) >= MinSize}

(***************************************************************************)
(* The reported components are the maximal sets of nodes that reach each   *)
(* other, of the size asked for, each once and without repetition.         *)
(***************************************************************************)
ComponentsFound ==
  LET found == identify_strongly_connected_components
  IN  /\ {ToSet(found[i]) : i \in DOMAIN found} = Components
      /\ Len(found) = Cardinality(Components)
      /\ \A i \in DOMAIN found : Len(found[i]) = Cardinality(ToSet(found[i]))
==============================================================================
