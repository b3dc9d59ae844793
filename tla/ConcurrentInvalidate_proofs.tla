---------------------- MODULE ConcurrentInvalidate_proofs ---------------------
(***************************************************************************)
(* Proofs about concurrent invalidation, for any edges and threads and any *)
(* number of calls.                                                        *)
(***************************************************************************)
EXTENDS ConcurrentInvalidate, TLAPS

(***************************************************************************)
(* A mark that is set, installed or in a copy about to be, is of an edge   *)
(* in the list; so is the edge of a call that has inserted it.             *)
(***************************************************************************)
MarksListed(m) == \A e \in Edges : e < Len(m) /\ m[e + 1] => e \in Listed

InsertedListed ==
  \A t \in Threads : call[t].at \in {"mark", "install", "set"} => call[t].edge \in Listed

ListInv == /\ TypeOK
           /\ MarksListed(marks)
           /\ \A t \in Threads : call[t].at = "install" => MarksListed(call[t].copy)
           /\ InsertedListed
           /\ NoEdgeLost

LEMMA EdgeFacts == Edges \subseteq Nat /\ 0 \in Edges
BY InvalidateAssumption DEF Edges

LEMMA IdleTyped == Idle \in [at : Locations, edge : Edges, copy : Seq(BOOLEAN)]
BY EdgeFacts DEF Idle, Locations

(***************************************************************************)
(* Growing a bitset sets no mark.                                          *)
(***************************************************************************)
LEMMA ResizedSetsNothing ==
  ASSUME NEW m \in Seq(BOOLEAN), NEW e \in Edges
  PROVE  /\ Resized(m, e) \in Seq(BOOLEAN)
         /\ MarksListed(m) => MarksListed(Resized(m, e))
<1>. DEFINE r == Resized(m, e)
<1>1. e + 1 \in Nat
  BY EdgeFacts
<1>2. \A i \in 1 .. e + 1 : (i <= Len(m) /\ m[i]) \in BOOLEAN
  OBVIOUS
<1>3. r \in [1 .. e + 1 -> BOOLEAN]
  BY <1>2 DEF Resized
<1>4. r \in Seq(BOOLEAN) /\ Len(r) = e + 1
  BY <1>1, <1>3
<1>5. ASSUME MarksListed(m), NEW d \in Edges, d < Len(r), r[d + 1]
      PROVE  d \in Listed
  <2>1. d + 1 \in 1 .. e + 1
    BY <1>1, <1>4, <1>5, EdgeFacts
  <2>2. d + 1 <= Len(m) /\ m[d + 1]
    BY <1>5, <2>1 DEF Resized
  <2>. QED
    BY <1>5, <2>2, EdgeFacts DEF MarksListed
<1>. QED
  BY <1>4, <1>5 DEF MarksListed

LEMMA AppendLists ==
  ASSUME NEW s \in Seq(Edges), NEW e \in Edges
  PROVE  LET t == Append(s, e)
         IN  {t[i] : i \in 1 .. Len(t)} = {s[i] : i \in 1 .. Len(s)} \cup {e}
<1>. DEFINE t == Append(s, e)
<1>1. /\ Len(s) \in Nat /\ Len(t) = Len(s) + 1
      /\ t[Len(s) + 1] = e
      /\ \A i \in 1 .. Len(s) : t[i] = s[i]
  OBVIOUS
<1>2. 1 .. Len(t) = (1 .. Len(s)) \cup {Len(s) + 1}
  BY <1>1
<1>. QED
  BY <1>1, <1>2

LEMMA ListInvInit == Init => ListInv
<1>. SUFFICES ASSUME Init PROVE ListInv
  OBVIOUS
<1>1. TypeOK
  BY IdleTyped DEF Init, TypeOK
<1>2. \A t \in Threads : call[t].at = "idle"
  BY DEF Init, Idle
<1>3. MarksListed(marks)
  BY EdgeFacts DEF Init, MarksListed
<1>. QED
  BY <1>1, <1>2, <1>3 DEF ListInv, InsertedListed, NoEdgeLost, Init

LEMMA ListInvStep == ListInv /\ [Next]_vars => ListInv'
<1>. SUFFICES ASSUME ListInv, [Next]_vars PROVE ListInv'
  OBVIOUS
<1>. USE DEF ListInv
<1>1. ASSUME NEW t \in Threads, NEW e \in Edges, invalidate_edge_impl(t, e)
      PROVE  ListInv'
  <2>1. UNCHANGED <<invalidated_edges, marks>> /\ calls' = calls + 1
    BY <1>1 DEF invalidate_edge_impl
  <2>2. Listed' = Listed
    BY <2>1 DEF Listed
  <2>3. CASE is_invalidated(e)
    <3>1. returned' = returned \cup {e} /\ UNCHANGED call
      BY <1>1, <2>3 DEF invalidate_edge_impl
    <3>2. e \in Listed
      BY <2>3 DEF is_invalidated, MarksListed
    <3>. QED
      BY <2>1, <2>2, <3>1, <3>2 DEF TypeOK, MarksListed, InsertedListed, NoEdgeLost
  <2>4. CASE ~is_invalidated(e)
    <3>. DEFINE new == [at |-> "push", edge |-> e, copy |-> <<>>]
    <3>1. call' = [call EXCEPT ![t] = new] /\ UNCHANGED returned
      BY <1>1, <2>4 DEF invalidate_edge_impl
    <3>2. new \in [at : Locations, edge : Edges, copy : Seq(BOOLEAN)]
      BY DEF Locations
    <3>3. \A u \in Threads : call'[u] = IF u = t THEN new ELSE call[u]
      BY <3>1 DEF TypeOK
    <3>4. TypeOK'
      BY <2>1, <3>1, <3>2 DEF TypeOK
    <3>. QED
      BY <2>1, <2>2, <3>1, <3>3, <3>4 DEF MarksListed, InsertedListed, NoEdgeLost
  <2>. QED
    BY <2>3, <2>4
<1>2. ASSUME NEW t \in Threads, PushBack(t) PROVE ListInv'
  <2>. DEFINE e == call[t].edge
  <2>1. /\ invalidated_edges' = Append(invalidated_edges, e)
        /\ call' = [call EXCEPT ![t].at = "mark"]
        /\ UNCHANGED <<marks, calls, returned>>
    BY <1>2 DEF PushBack
  <2>2. e \in Edges /\ invalidated_edges \in Seq(Edges)
    BY DEF TypeOK
  <2>3. Listed' = Listed \cup {e}
    BY <2>1, <2>2, AppendLists DEF Listed
  <2>4. TypeOK'
    <3>1. invalidated_edges' \in Seq(Edges)
      BY <2>1, <2>2
    <3>2. call' \in [Threads -> [at : Locations, edge : Edges, copy : Seq(BOOLEAN)]]
      BY <2>1 DEF TypeOK, Locations
    <3>. QED
      BY <2>1, <3>1, <3>2 DEF TypeOK
  <2>5. \A u \in Threads :
          /\ call'[u].edge = call[u].edge /\ call'[u].copy = call[u].copy
          /\ u # t => call'[u].at = call[u].at
          /\ call'[t].at = "mark"
    BY <2>1 DEF TypeOK
  <2>. QED
    BY <2>1, <2>3, <2>4, <2>5 DEF MarksListed, InsertedListed, NoEdgeLost
<1>3. ASSUME NEW t \in Threads, CopyMarks(t) PROVE ListInv'
  <2>. DEFINE e == call[t].edge
  <2>1. UNCHANGED <<invalidated_edges, marks, calls, returned>> /\ Listed' = Listed
    BY <1>3 DEF CopyMarks, Listed
  <2>2. e \in Edges /\ e \in Listed /\ marks \in Seq(BOOLEAN)
    BY <1>3 DEF CopyMarks, TypeOK, InsertedListed
  <2>3. CASE Len(marks) <= e
    <3>1. call' = [call EXCEPT ![t] = [call[t] EXCEPT !.at = "install", !.copy = Resized(marks, e)]]
      BY <1>3, <2>3 DEF CopyMarks
    <3>2. Resized(marks, e) \in Seq(BOOLEAN) /\ MarksListed(Resized(marks, e))
      BY <2>2, ResizedSetsNothing
    <3>3. TypeOK'
      BY <2>1, <3>1, <3>2 DEF TypeOK, Locations
    <3>4. \A u \in Threads :
            /\ call'[u].edge = call[u].edge
            /\ call'[u].copy = IF u = t THEN Resized(marks, e) ELSE call[u].copy
            /\ call'[u].at = IF u = t THEN "install" ELSE call[u].at
      BY <3>1 DEF TypeOK
    <3>. QED
      BY <2>1, <2>2, <3>2, <3>3, <3>4 DEF MarksListed, InsertedListed, NoEdgeLost
  <2>4. CASE ~(Len(marks) <= e)
    <3>1. call' = [call EXCEPT ![t] = [call[t] EXCEPT !.at = "set"]]
      BY <1>3, <2>4 DEF CopyMarks
    <3>2. TypeOK'
      BY <2>1, <3>1 DEF TypeOK, Locations
    <3>3. \A u \in Threads :
            /\ call'[u].edge = call[u].edge /\ call'[u].copy = call[u].copy
            /\ call'[u].at = IF u = t THEN "set" ELSE call[u].at
      BY <3>1 DEF TypeOK
    <3>. QED
      BY <2>1, <2>2, <3>2, <3>3 DEF MarksListed, InsertedListed, NoEdgeLost
  <2>. QED
    BY <2>3, <2>4
<1>4. ASSUME NEW t \in Threads, InstallMarks(t) PROVE ListInv'
  <2>1. /\ call[t].at = "install" /\ marks' = call[t].copy
        /\ call' = [call EXCEPT ![t].at = "set"]
        /\ UNCHANGED <<invalidated_edges, calls, returned>> /\ Listed' = Listed
    BY <1>4 DEF InstallMarks, Listed
  <2>2. TypeOK'
    BY <2>1 DEF TypeOK, Locations
  <2>3. \A u \in Threads :
          /\ call'[u].edge = call[u].edge /\ call'[u].copy = call[u].copy
          /\ call'[u].at = IF u = t THEN "set" ELSE call[u].at
    BY <2>1 DEF TypeOK
  <2>. QED
    BY <2>1, <2>2, <2>3 DEF MarksListed, InsertedListed, NoEdgeLost
<1>5. ASSUME NEW t \in Threads, SetMark(t) PROVE ListInv'
  <2>. DEFINE e == call[t].edge
  <2>1. /\ call' = [call EXCEPT ![t] = Idle]
        /\ returned' = returned \cup {e}
        /\ UNCHANGED <<invalidated_edges, calls>> /\ Listed' = Listed
        /\ marks' = IF e < Len(marks) THEN [marks EXCEPT ![e + 1] = TRUE] ELSE marks
    BY <1>5 DEF SetMark, Listed
  <2>2. e \in Edges /\ e \in Listed /\ e \in Nat
    BY <1>5, EdgeFacts DEF SetMark, TypeOK, InsertedListed
  <2>3. /\ marks' \in Seq(BOOLEAN) /\ Len(marks') = Len(marks)
        /\ \A d \in Edges : d # e /\ d < Len(marks) => marks'[d + 1] = marks[d + 1]
    <3>1. marks \in Seq(BOOLEAN)
      BY DEF TypeOK
    <3>2. CASE e < Len(marks)
      <4>1. e + 1 \in 1 .. Len(marks)
        BY <2>2, <3>1, <3>2
      <4>2. marks' = [marks EXCEPT ![e + 1] = TRUE]
        BY <2>1, <3>2
      <4>3. marks' \in Seq(BOOLEAN) /\ Len(marks') = Len(marks)
        BY <3>1, <4>1, <4>2
      <4>4. ASSUME NEW d \in Edges, d # e, d < Len(marks)
            PROVE  marks'[d + 1] = marks[d + 1]
        <5>1. d \in Nat /\ d + 1 # e + 1 /\ d + 1 \in 1 .. Len(marks)
          BY <2>2, <3>1, <4>4, EdgeFacts
        <5>. QED
          BY <3>1, <4>2, <5>1
      <4>. QED
        BY <4>3, <4>4
    <3>3. CASE ~(e < Len(marks))
      BY <2>1, <3>1, <3>3
    <3>. QED
      BY <3>2, <3>3
  <2>4. MarksListed(marks)'
    BY <2>1, <2>2, <2>3 DEF MarksListed
  <2>5. TypeOK'
    BY <2>1, <2>2, <2>3, IdleTyped DEF TypeOK
  <2>6. \A u \in Threads : call'[u] = IF u = t THEN Idle ELSE call[u]
    BY <2>1 DEF TypeOK
  <2>7. \A u \in Threads : call'[u].at # "idle" => call'[u] = call[u]
    BY <2>6 DEF Idle
  <2>. QED
    BY <2>1, <2>2, <2>4, <2>5, <2>7 DEF MarksListed, InsertedListed, NoEdgeLost
<1>6. CASE clear_invalidated_edges
  <2>1. /\ invalidated_edges' = <<>> /\ marks' = <<>> /\ calls' = 0 /\ returned' = {}
        /\ UNCHANGED call /\ \A t \in Threads : call[t].at = "idle"
    BY <1>6 DEF clear_invalidated_edges, Quiet
  <2>2. TypeOK'
    BY <2>1 DEF TypeOK
  <2>3. MarksListed(marks)'
    BY <2>1, EdgeFacts DEF MarksListed
  <2>. QED
    BY <2>1, <2>2, <2>3 DEF InsertedListed, NoEdgeLost
<1>7. CASE UNCHANGED vars
  <2>1. Listed' = Listed /\ UNCHANGED vars
    BY <1>7 DEF vars, Listed
  <2>. QED
    BY <2>1 DEF vars, TypeOK, MarksListed, InsertedListed, NoEdgeLost
<1>. QED
  BY <1>1, <1>2, <1>3, <1>4, <1>5, <1>6, <1>7 DEF Next

(***************************************************************************)
(* No invalidation is lost: an edge whose invalidation has returned is in  *)
(* the list, however the calls of the threads interleave and although the  *)
(* bitset loses marks.                                                     *)
(***************************************************************************)
THEOREM EdgesNeverLost == Spec => []NoEdgeLost
<1>1. ListInv => NoEdgeLost
  BY DEF ListInv
<1>. QED
  BY <1>1, ListInvInit, ListInvStep, PTL DEF Spec
==============================================================================
