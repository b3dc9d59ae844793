----------------------------- MODULE Levelization -----------------------------
(***************************************************************************)
(* TimingGraph::force_levelize of an acyclic graph.  g is a record with    *)
(* the fields of TG (module TimingGraph); Levelized(g) overwrites its      *)
(* previous levelization.                                                  *)
(***************************************************************************)
EXTENDS Integers, FiniteSets, FiniteSetsExt

FaninOf(g, n) == {g.src[e] : e \in {f \in g.edges \ g.disabled : g.sink[f] = n}}

(***************************************************************************)
(* Fan-out counts disabled edges, fan-in does not.                         *)
(***************************************************************************)
HasFanout(g, n) == \E e \in g.edges : g.src[e] = n

(***************************************************************************)
(* The nodes without fan-in are level 0; a node whose fan-in is all placed *)
(* goes one level after the last of it, but for the nodes without fan-out, *)
(* which wait for a last level of their own.                               *)
(***************************************************************************)
Levelized(g) ==
  LET depth[n \in g.nodes] ==
        IF FaninOf(g, n) = {} THEN 0 ELSE 1 + Max({depth[k] : k \in FaninOf(g, n)})
      InLast(n) == FaninOf(g, n) # {} /\ ~HasFanout(g, n)
      last == 1 + Max({0} \cup {depth[n] : n \in {k \in g.nodes : ~InLast(k)}})
  IN  [g EXCEPT !.level      = [n \in g.nodes |-> IF InLast(n) THEN last ELSE depth[n]],
                !.last_level = last]
==============================================================================
