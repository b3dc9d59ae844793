-------------------------- MODULE ConcurrentInvalidate ------------------------
(***************************************************************************)
(* invalidate_edge() of SerialIncrWalker as built with TBB, called by      *)
(* several threads between two updates.  The list of invalidated edges is  *)
(* a tbb::concurrent_vector, but its bitset is a linear_map over a plain   *)
(* std::vector, which a call grows to hold its edge.                       *)
(*                                                                         *)
(* Growing copies the vector and installs the copy; another thread may     *)
(* write in between.  That is a data race: of the outcomes a build can     *)
(* produce, the model has those in which every access meets the storage    *)
(* installed at that moment, and a write beyond its end leaves no mark.    *)
(***************************************************************************)
EXTENDS Naturals, Sequences, SequencesExt

CONSTANTS LastEdge,   \* the edges are 0 .. LastEdge
          Threads,    \* the client's threads
          MaxCalls    \* bound: calls between two updates

ASSUME InvalidateAssumption == LastEdge \in Nat /\ MaxCalls \in Nat

VARIABLES invalidated_edges,   \* in the order of insertion
          marks,               \* edge_invalidated_: marks[e + 1] is e's
          call,                \* call[t]: where thread t is
          calls,               \* calls since the last update
          returned             \* edges whose invalidation has returned since

vars == <<invalidated_edges, marks, call, calls, returned>>

Edges == 0 .. LastEdge

Idle == [at |-> "idle", edge |-> 0, copy |-> <<>>]

Init ==
  /\ invalidated_edges = <<>>
  /\ marks = <<>>
  /\ call = [t \in Threads |-> Idle]
  /\ calls = 0
  /\ returned = {}

is_invalidated(e) == e < Len(marks) /\ marks[e + 1]

(***************************************************************************)
(* A call, step by step: the test, the insertion into the list, growing    *)
(* the bitset if it is too short for the edge, setting the mark.           *)
(***************************************************************************)
invalidate_edge_impl(t, e) ==
  /\ call[t].at = "idle"
  /\ calls < MaxCalls
  /\ calls' = calls + 1
  /\ IF is_invalidated(e)
     THEN returned' = returned \cup {e} /\ UNCHANGED call
     ELSE call' = [call EXCEPT ![t] = [at |-> "push", edge |-> e, copy |-> <<>>]]
          /\ UNCHANGED returned
  /\ UNCHANGED <<invalidated_edges, marks>>

PushBack(t) ==
  /\ call[t].at = "push"
  /\ invalidated_edges' = Append(invalidated_edges, call[t].edge)
  /\ call' = [call EXCEPT ![t].at = "mark"]
  /\ UNCHANGED <<marks, calls, returned>>

Resized(m, e) ==
  [i \in 1 .. e + 1 |-> i <= Len(m) /\ m[i]]

CopyMarks(t) ==
  /\ call[t].at = "mark"
  /\ call' = [call EXCEPT ![t] =
       IF Len(marks) <= call[t].edge
       THEN [@ EXCEPT !.at = "install", !.copy = Resized(marks, call[t].edge)]
       ELSE [@ EXCEPT !.at = "set"]]
  /\ UNCHANGED <<invalidated_edges, marks, calls, returned>>

InstallMarks(t) ==
  /\ call[t].at = "install"
  /\ marks' = call[t].copy
  /\ call' = [call EXCEPT ![t].at = "set"]
  /\ UNCHANGED <<invalidated_edges, calls, returned>>

SetMark(t) ==
  LET e == call[t].edge
  IN  /\ call[t].at = "set"
      /\ marks' = IF e < Len(marks) THEN [marks EXCEPT ![e + 1] = TRUE] ELSE marks
      /\ call' = [call EXCEPT ![t] = Idle]
      /\ returned' = returned \cup {e}
      /\ UNCHANGED <<invalidated_edges, calls>>

(***************************************************************************)
(* The end of an update.  Updates run when no invalidation does.           *)
(***************************************************************************)
Quiet == \A t \in Threads : call[t].at = "idle"

\* Mutant: the bitset survives the list.
clear_invalidated_edges_KeepsMarks ==
  /\ Quiet
  /\ invalidated_edges' = <<>>
  /\ calls' = 0
  /\ returned' = {}
  /\ UNCHANGED <<marks, call>>

clear_invalidated_edges ==
  /\ Quiet
  /\ invalidated_edges' = <<>>
  /\ marks' = <<>>
  /\ calls' = 0
  /\ returned' = {}
  /\ UNCHANGED call

Next == \/ \E t \in Threads :
             \/ \E e \in Edges : invalidate_edge_impl(t, e)
             \/ PushBack(t) \/ CopyMarks(t) \/ InstallMarks(t) \/ SetMark(t)
        \/ clear_invalidated_edges

Spec == Init /\ [][Next]_vars

(***************************************************************************)
(* Properties                                                              *)
(***************************************************************************)
Locations == {"idle", "push", "mark", "install", "set"}

TypeOK ==
  /\ invalidated_edges \in Seq(Edges)
  /\ marks \in Seq(BOOLEAN)
  /\ call \in [Threads -> [at : Locations, edge : Edges, copy : Seq(BOOLEAN)]]
  /\ calls \in Nat
  /\ returned \subseteq Edges

(***************************************************************************)
(* An edge whose invalidation has returned is in the list the next update  *)
(* works from, whatever the other threads do: a mark that was set stands   *)
(* for an insertion, so that the early return of invalidate_edge_impl      *)
(* drops no edge.                                                          *)
(***************************************************************************)
Listed == {invalidated_edges[i] : i \in 1 .. Len(invalidated_edges)}

NoEdgeLost == returned \subseteq Listed

(***************************************************************************)
(* "Set of invalidated edges, and bitset for membership. Use thread safe   *)
(* alternatives when TBB is on, since invalidate_edge_impl may be called   *)
(* concurrently": when no call is under way, every listed edge has its     *)
(* mark.  A listed edge without its mark is listed once more by the next   *)
(* call for it.  The next update marks every edge of the list before its   *)
(* first visit (prepare_incr_update), so that no tag stays as it was.      *)
(***************************************************************************)
ListedAreMarked == Quiet => \A e \in Listed : is_invalidated(e)
==============================================================================
