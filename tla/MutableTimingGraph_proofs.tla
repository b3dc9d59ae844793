----------------------- MODULE MutableTimingGraph_proofs -----------------------
(***************************************************************************)
(* The timing graph under construction, for any nodes and edges the client *)
(* adds, removes and disables.  Lemmas on lists and on renumbering come    *)
(* first; then what each operation makes of the graph, and what the walk   *)
(* over it finds; then the invariant, and what follows from it:            *)
(*   - its references stay consistent, through every renumbering;          *)
(*   - a levelization that calls itself valid is right for the graph;      *)
(*   - optimize_layout() lays the graph out in the order of the walk;      *)
(*   - the client's ids lead to the circuit it built (Circuit.tla);        *)
(*   - a graph that compress() has validated can be walked.                *)
(***************************************************************************)
EXTENDS MutableTimingGraph, TatumLemmas, SequenceTheorems

(***************************************************************************)
(* Lists.  A fold over a sequence with one more element is one step more   *)
(* than the fold over the sequence.                                        *)
(***************************************************************************)
Greatest(S) == CHOOSE x \in S : \A y \in S : x >= y

Push(f, x, kept)    == IF x \in DOMAIN f THEN Append(kept, f[x]) ELSE kept
Join(none, seq, all) == all \o seq

Pushes == INSTANCE FoldLemmas WITH Op <- Push, Pick <- Greatest
Joins  == INSTANCE FoldLemmas WITH Op <- Join, Pick <- Greatest

LEMMA ListFolds ==
  /\ Pushes!Basics /\ \A s : Greatest(s) = Pushes!Greatest(s)
  /\ Joins!Basics /\ \A s : Greatest(s) = Joins!Greatest(s)
<1>1. /\ \A s : Greatest(s) = Pushes!Greatest(s)
      /\ \A s : Greatest(s) = Joins!Greatest(s)
  BY DEF Greatest, Pushes!Greatest, Joins!Greatest
<1>2. Pushes!Basics
  BY FoldBasics, Zenon DEF Pushes!Basics, Pushes!Induction, Pushes!Counted, Pushes!Greatest
<1>3. Joins!Basics
  BY FoldBasics, Zenon DEF Joins!Basics, Joins!Induction, Joins!Counted, Joins!Greatest
<1>. QED
  BY <1>1, <1>2, <1>3

LEMMA MappedIsFold ==
  ASSUME NEW S, NEW seq \in Seq(S), NEW f
  PROVE  Mapped(seq, f) = Pushes!Result(f, <<>>, seq, 1 .. Len(seq))
<1>1. DOMAIN seq = 1 .. Len(seq)
  OBVIOUS
<1>. QED
  BY <1>1 DEF Mapped, FoldLeft, MapThenFoldSet, Pushes!Result, Pushes!Recursive, Push, Greatest, Max

LEMMA ConcatenatedIsFold ==
  ASSUME NEW S, NEW seqs \in Seq(S)
  PROVE  Concatenated(seqs) = Joins!Result(0, <<>>, seqs, 1 .. Len(seqs))
<1>1. DOMAIN seqs = 1 .. Len(seqs)
  OBVIOUS
<1>. QED
  BY <1>1 DEF Concatenated, FoldLeft, MapThenFoldSet, Joins!Result, Joins!Recursive, Join, Greatest, Max

LEMMA EmptyMapped == \A f : Mapped(<<>>, f) = <<>>
<1>. SUFFICES ASSUME NEW f PROVE Mapped(<<>>, f) = <<>>
  OBVIOUS
<1>1. <<>> \in Seq({}) /\ Len(<<>>) = 0
  OBVIOUS
<1>2. Mapped(<<>>, f) = Pushes!Result(f, <<>>, <<>>, 1 .. 0)
  BY <1>1, MappedIsFold
<1>3. PICK steps : Pushes!Partial(f, <<>>, <<>>, 0, steps)
  BY ListFolds, Pushes!FoldSteps
<1>. QED
  BY <1>2, <1>3 DEF Pushes!Partial

LEMMA MappedAppend ==
  ASSUME NEW S, NEW seq \in Seq(S), NEW x \in S, NEW f
  PROVE  Mapped(Append(seq, x), f) =
           IF x \in DOMAIN f THEN Append(Mapped(seq, f), f[x]) ELSE Mapped(seq, f)
<1>1. Append(seq, x) \in Seq(S) /\ Len(Append(seq, x)) = Len(seq) + 1
  OBVIOUS
<1>2. Mapped(Append(seq, x), f) = Pushes!Result(f, <<>>, Append(seq, x), 1 .. Len(seq) + 1)
  BY <1>1, MappedIsFold
<1>3. @ = Push(f, x, Pushes!Result(f, <<>>, seq, 1 .. Len(seq)))
  BY ListFolds, Pushes!FoldAppend
<1>4. @ = Push(f, x, Mapped(seq, f))
  BY MappedIsFold
<1>. QED
  BY <1>2, <1>3, <1>4 DEF Push

LEMMA EmptyConcatenated == Concatenated(<<>>) = <<>>
<1>1. <<>> \in Seq({}) /\ Len(<<>>) = 0
  OBVIOUS
<1>2. Concatenated(<<>>) = Joins!Result(0, <<>>, <<>>, 1 .. 0)
  BY <1>1, ConcatenatedIsFold
<1>3. PICK steps : Joins!Partial(0, <<>>, <<>>, 0, steps)
  BY ListFolds, Joins!FoldSteps
<1>. QED
  BY <1>2, <1>3 DEF Joins!Partial

LEMMA ConcatenatedAppend ==
  ASSUME NEW S, NEW seqs \in Seq(S), NEW s \in S
  PROVE  Concatenated(Append(seqs, s)) = Concatenated(seqs) \o s
<1>1. Append(seqs, s) \in Seq(S) /\ Len(Append(seqs, s)) = Len(seqs) + 1
  OBVIOUS
<1>2. Concatenated(Append(seqs, s)) = Joins!Result(0, <<>>, Append(seqs, s), 1 .. Len(seqs) + 1)
  BY <1>1, ConcatenatedIsFold
<1>3. @ = Join(0, s, Joins!Result(0, <<>>, seqs, 1 .. Len(seqs)))
  BY ListFolds, Joins!FoldAppend
<1>4. @ = Join(0, s, Concatenated(seqs))
  BY ConcatenatedIsFold
<1>. QED
  BY <1>2, <1>3, <1>4 DEF Join

(***************************************************************************)
(* Induction over sequences: what holds of the empty one, and of one with  *)
(* an element more whenever it holds of the one without.                   *)
(***************************************************************************)
LEMMA SequenceInduction ==
  ASSUME NEW S, NEW Q, <<>> \in Q,
         \A s \in Seq(S), x \in S : s \in Q => Append(s, x) \in Q
  PROVE  \A s \in Seq(S) : s \in Q
<1>. DEFINE Good == {n \in Nat : \A s \in Seq(S) : Len(s) = n => s \in Q}
<1>1. 0 \in Good
  <2>1. \A s \in Seq(S) : Len(s) = 0 => s = <<>>
    BY EmptySeq
  <2>. QED
    BY <2>1
<1>2. ASSUME NEW n \in Nat, n \in Good PROVE n + 1 \in Good
  <2>. SUFFICES ASSUME NEW s \in Seq(S), Len(s) = n + 1 PROVE s \in Q
    OBVIOUS
  <2>. DEFINE front == [i \in 1 .. n |-> s[i]]
              x     == s[n + 1]
  <2>1. front \in Seq(S) /\ Len(front) = n /\ x \in S
    OBVIOUS
  <2>2. s = Append(front, x)
    <3>1. Append(front, x) \in Seq(S) /\ Len(Append(front, x)) = n + 1
      BY <2>1
    <3>2. \A i \in 1 .. n + 1 : Append(front, x)[i] = s[i]
      BY <2>1
    <3>. QED
      BY <3>1, <3>2, SeqEqual
  <2>3. front \in Q
    BY <1>2, <2>1
  <2>. HIDE DEF front, x
  <2>. QED
    BY <2>1, <2>2, <2>3
<1>. HIDE DEF Good
<1>3. \A n \in Nat : n \in Good
  BY <1>1, <1>2, SetInduction
<1>. SUFFICES ASSUME NEW s \in Seq(S) PROVE s \in Q
  OBVIOUS
<1>4. Len(s) \in Nat
  OBVIOUS
<1>. QED
  BY <1>3, <1>4 DEF Good

(***************************************************************************)
(* How often an element occurs.                                            *)
(***************************************************************************)
LEMMA OccurrencesCount ==
  ASSUME NEW S, NEW seq \in Seq(S), NEW x
  PROVE  /\ IsFiniteSet({i \in DOMAIN seq : seq[i] = x})
         /\ Occurrences(seq, x) \in Nat
         /\ Occurrences(seq, x) = 0 <=> x \notin ToSet(seq)
<1>. DEFINE at == {i \in DOMAIN seq : seq[i] = x}
<1>1. IsFiniteSet(at)
  <2>1. IsFiniteSet(1 .. Len(seq)) /\ at \in SUBSET (1 .. Len(seq))
    BY FS_Interval
  <2>. QED
    BY <2>1, FS_Subset
<1>2. Cardinality(at) \in Nat /\ (Cardinality(at) = 0 <=> at = {})
  BY <1>1, FS_CardinalityType, FS_EmptySet
<1>3. at = {} <=> x \notin ToSet(seq)
  BY DEF ToSet
<1>. QED
  BY <1>1, <1>2, <1>3 DEF Occurrences

LEMMA OccursAlone ==
  ASSUME NEW S, NEW seq \in Seq(S), NEW i \in DOMAIN seq, NEW j \in DOMAIN seq,
         Occurrences(seq, seq[i]) = 1, seq[i] = seq[j]
  PROVE  i = j
<1>. DEFINE at == {k \in DOMAIN seq : seq[k] = seq[i]}
<1>1. IsFiniteSet(at) /\ Cardinality(at) = 1
  BY OccurrencesCount DEF Occurrences
<1>2. PICK k : at = {k}
  BY <1>1, FS_Singleton
<1>3. i \in at /\ j \in at
  OBVIOUS
<1>. QED
  BY <1>2, <1>3

LEMMA NoneInEmpty == \A x : Occurrences(<<>>, x) = 0
<1>. SUFFICES ASSUME NEW x PROVE Occurrences(<<>>, x) = 0
  OBVIOUS
<1>1. {i \in DOMAIN <<>> : <<>>[i] = x} = {}
  OBVIOUS
<1>. QED
  BY <1>1, FS_EmptySet DEF Occurrences

LEMMA OccurrencesAppend ==
  ASSUME NEW S, NEW seq \in Seq(S), NEW y \in S, NEW x
  PROVE  Occurrences(Append(seq, y), x) = IF x = y THEN Occurrences(seq, x) + 1
                                                   ELSE Occurrences(seq, x)
<1>. DEFINE at   == {i \in DOMAIN seq : seq[i] = x}
            more == {i \in DOMAIN Append(seq, y) : Append(seq, y)[i] = x}
<1>1. IsFiniteSet(at)
  BY OccurrencesCount
<1>2. more = IF x = y THEN at \cup {Len(seq) + 1} ELSE at
  OBVIOUS
<1>3. Len(seq) + 1 \notin at
  OBVIOUS
<1>4. Cardinality(at \cup {Len(seq) + 1}) = Cardinality(at) + 1
  BY <1>1, <1>3, FS_AddElement
<1>. QED
  BY <1>2, <1>4 DEF Occurrences

LEMMA OccurrencesConcat ==
  ASSUME NEW S, NEW left \in Seq(S), NEW right \in Seq(S), NEW x
  PROVE  Occurrences(left \o right, x) = Occurrences(left, x) + Occurrences(right, x)
<1>. DEFINE Good == {s \in Seq(S) : Occurrences(left \o s, x) = Occurrences(left, x) + Occurrences(s, x)}
<1>1. <<>> \in Good
  <2>1. left \o <<>> = left /\ <<>> \in Seq(S)
    OBVIOUS
  <2>2. Occurrences(left, x) \in Nat /\ Occurrences(<<>>, x) = 0
    BY OccurrencesCount, NoneInEmpty
  <2>. QED
    BY <2>1, <2>2
<1>2. ASSUME NEW s \in Seq(S), NEW y \in S, s \in Good PROVE Append(s, y) \in Good
  <2>1. left \o Append(s, y) = Append(left \o s, y) /\ left \o s \in Seq(S)
    OBVIOUS
  <2>2. Occurrences(Append(left \o s, y), x)
          = IF x = y THEN Occurrences(left \o s, x) + 1 ELSE Occurrences(left \o s, x)
    <3>. DEFINE all == left \o s
    <3>1. all \in Seq(S)
      BY <2>1
    <3>. HIDE DEF all
    <3>2. Occurrences(Append(all, y), x) = IF x = y THEN Occurrences(all, x) + 1 ELSE Occurrences(all, x)
      BY <3>1, OccurrencesAppend
    <3>. QED
      BY <3>2 DEF all
  <2>3. Occurrences(Append(s, y), x) = IF x = y THEN Occurrences(s, x) + 1 ELSE Occurrences(s, x)
    BY OccurrencesAppend
  <2>4. /\ Occurrences(left \o s, x) = Occurrences(left, x) + Occurrences(s, x)
        /\ Occurrences(left, x) \in Nat /\ Occurrences(s, x) \in Nat
    BY <1>2, OccurrencesCount
  <2>5. Append(s, y) \in Seq(S)
    OBVIOUS
  <2>6. Occurrences(left \o Append(s, y), x) = Occurrences(Append(left \o s, y), x)
    BY <2>1
  <2>7. Occurrences(left \o Append(s, y), x) = Occurrences(left, x) + Occurrences(Append(s, y), x)
    BY <2>2, <2>3, <2>4, <2>6
  <2>. QED
    BY <2>5, <2>7
<1>. HIDE DEF Good
<1>3. \A s \in Seq(S) : s \in Good
  BY <1>1, <1>2, SequenceInduction
<1>. QED
  BY <1>3 DEF Good

LEMMA ToSetAppend ==
  ASSUME NEW S, NEW seq \in Seq(S), NEW x \in S
  PROVE  ToSet(Append(seq, x)) = ToSet(seq) \cup {x}
<1>1. DOMAIN Append(seq, x) = DOMAIN seq \cup {Len(seq) + 1}
  OBVIOUS
<1>2. /\ Append(seq, x)[Len(seq) + 1] = x
      /\ \A i \in DOMAIN seq : Append(seq, x)[i] = seq[i]
  OBVIOUS
<1>. QED
  BY <1>1, <1>2, Zenon DEF ToSet

(***************************************************************************)
(* The values along a list.                                                *)
(***************************************************************************)
LEMMA MappedTyped ==
  ASSUME NEW S, NEW seq \in Seq(S), NEW f, NEW T, \A x \in S \cap DOMAIN f : f[x] \in T
  PROVE  Mapped(seq, f) \in Seq(T)
<1>. DEFINE Good == {s \in Seq(S) : Mapped(s, f) \in Seq(T)}
<1>1. <<>> \in Good
  <2>1. <<>> \in Seq(S) /\ <<>> \in Seq(T)
    OBVIOUS
  <2>. QED
    BY <2>1, EmptyMapped
<1>2. ASSUME NEW s \in Seq(S), NEW x \in S, s \in Good PROVE Append(s, x) \in Good
  <2>1. Append(s, x) \in Seq(S)
    OBVIOUS
  <2>2. Mapped(Append(s, x), f) = IF x \in DOMAIN f THEN Append(Mapped(s, f), f[x]) ELSE Mapped(s, f)
    BY MappedAppend
  <2>3. Mapped(s, f) \in Seq(T) /\ (x \in DOMAIN f => f[x] \in T)
    BY <1>2
  <2>4. x \in DOMAIN f => Append(Mapped(s, f), f[x]) \in Seq(T)
    BY <2>3, AppendProperties
  <2>. QED
    BY <2>1, <2>2, <2>3, <2>4
<1>. HIDE DEF Good
<1>3. \A s \in Seq(S) : s \in Good
  BY <1>1, <1>2, SequenceInduction
<1>. QED
  BY <1>3 DEF Good

LEMMA NothingMapped ==
  ASSUME NEW S, NEW seq \in Seq(S), NEW f, S \cap DOMAIN f = {}
  PROVE  Mapped(seq, f) = <<>>
<1>1. Mapped(seq, f) \in Seq({})
  BY MappedTyped
<1>. DEFINE m == Mapped(seq, f)
<1>. HIDE DEF m
<1>2. m \in Seq({}) => m = <<>>
  OBVIOUS
<1>. QED
  BY <1>1, <1>2 DEF m

LEMMA MappedSet ==
  ASSUME NEW S, NEW seq \in Seq(S), NEW f
  PROVE  ToSet(Mapped(seq, f)) = {f[x] : x \in ToSet(seq) \cap DOMAIN f}
<1>. DEFINE Good == {s \in Seq(S) : ToSet(Mapped(s, f)) = {f[x] : x \in ToSet(s) \cap DOMAIN f}}
            T    == {f[x] : x \in DOMAIN f}
<1>1. <<>> \in Good
  <2>1. ToSet(<<>>) = {}
    BY DEF ToSet
  <2>. QED
    BY <2>1, EmptyMapped
<1>2. ASSUME NEW s \in Seq(S), NEW x \in S, s \in Good PROVE Append(s, x) \in Good
  <2>1. Append(s, x) \in Seq(S) /\ ToSet(Append(s, x)) = ToSet(s) \cup {x}
    BY ToSetAppend
  <2>2. Mapped(s, f) \in Seq(T)
    BY MappedTyped
  <2>3. Mapped(Append(s, x), f) = IF x \in DOMAIN f THEN Append(Mapped(s, f), f[x]) ELSE Mapped(s, f)
    BY MappedAppend
  <2>4. x \in DOMAIN f => ToSet(Append(Mapped(s, f), f[x])) = ToSet(Mapped(s, f)) \cup {f[x]}
    <3>. DEFINE y == f[x]
    <3>1. x \in DOMAIN f => y \in T
      OBVIOUS
    <3>. HIDE DEF T, y
    <3>2. y \in T => ToSet(Append(Mapped(s, f), y)) = ToSet(Mapped(s, f)) \cup {y}
      BY <2>2, ToSetAppend
    <3>. QED
      BY <3>1, <3>2 DEF y
  <2>5. ToSet(Mapped(s, f)) = {f[y] : y \in ToSet(s) \cap DOMAIN f}
    BY <1>2
  <2>6. ToSet(Mapped(Append(s, x), f)) = {f[y] : y \in ToSet(Append(s, x)) \cap DOMAIN f}
    BY ZenonT(40), <2>1, <2>3, <2>4, <2>5
  <2>. QED
    BY <2>1, <2>6
<1>. HIDE DEF Good
<1>3. \A s \in Seq(S) : s \in Good
  BY <1>1, <1>2, SequenceInduction
<1>. QED
  BY <1>3 DEF Good

OneToOne(f) == \A x, y \in DOMAIN f : f[x] = f[y] => x = y

LEMMA MappedOccurrences ==
  ASSUME NEW S, NEW seq \in Seq(S), NEW f, OneToOne(f), NEW e \in DOMAIN f
  PROVE  Occurrences(Mapped(seq, f), f[e]) = Occurrences(seq, e)
<1>. DEFINE Good == {s \in Seq(S) : Occurrences(Mapped(s, f), f[e]) = Occurrences(s, e)}
            T    == {f[x] : x \in DOMAIN f}
<1>1. <<>> \in Good
  BY EmptyMapped, NoneInEmpty
<1>2. ASSUME NEW s \in Seq(S), NEW x \in S, s \in Good PROVE Append(s, x) \in Good
  <2>1. Append(s, x) \in Seq(S)
    OBVIOUS
  <2>2. Mapped(s, f) \in Seq(T)
    BY MappedTyped
  <2>3. Mapped(Append(s, x), f) = IF x \in DOMAIN f THEN Append(Mapped(s, f), f[x]) ELSE Mapped(s, f)
    BY MappedAppend
  <2>4. x \in DOMAIN f =>
          /\ f[e] = f[x] <=> e = x
          /\ Occurrences(Append(Mapped(s, f), f[x]), f[e])
               = IF f[e] = f[x] THEN Occurrences(Mapped(s, f), f[e]) + 1
                                ELSE Occurrences(Mapped(s, f), f[e])
    BY <2>2, OccurrencesAppend DEF OneToOne
  <2>5. Occurrences(Append(s, x), e) = IF e = x THEN Occurrences(s, e) + 1 ELSE Occurrences(s, e)
    BY OccurrencesAppend
  <2>6. Occurrences(Mapped(Append(s, x), f), f[e]) = Occurrences(Append(s, x), e)
    BY <1>2, <2>3, <2>4, <2>5
  <2>. QED
    BY <2>1, <2>6
<1>. HIDE DEF Good
<1>3. \A s \in Seq(S) : s \in Good
  BY <1>1, <1>2, SequenceInduction
<1>. QED
  BY <1>3 DEF Good

\* h is first f, then g, for the elements of S.
Composed(S, f, g, h) ==
  \A x \in S : /\ x \in DOMAIN h <=> x \in DOMAIN f /\ f[x] \in DOMAIN g
               /\ x \in DOMAIN h => h[x] = g[f[x]]

LEMMA MappedMapped ==
  ASSUME NEW S, NEW seq \in Seq(S), NEW f, NEW g, NEW h, Composed(S, f, g, h)
  PROVE  Mapped(Mapped(seq, f), g) = Mapped(seq, h)
<1>. DEFINE Good == {s \in Seq(S) : Mapped(Mapped(s, f), g) = Mapped(s, h)}
            T    == {f[x] : x \in DOMAIN f}
<1>1. <<>> \in Good
  BY EmptyMapped
<1>2. ASSUME NEW s \in Seq(S), NEW x \in S, s \in Good PROVE Append(s, x) \in Good
  <2>1. Append(s, x) \in Seq(S) /\ Mapped(Mapped(s, f), g) = Mapped(s, h)
    BY <1>2
  <2>2. Mapped(s, f) \in Seq(T)
    BY MappedTyped
  <2>3. Mapped(Append(s, x), h) = IF x \in DOMAIN h THEN Append(Mapped(s, h), h[x]) ELSE Mapped(s, h)
    BY MappedAppend
  <2>4. Mapped(Append(s, x), f) = IF x \in DOMAIN f THEN Append(Mapped(s, f), f[x]) ELSE Mapped(s, f)
    BY MappedAppend
  <2>5. CASE x \notin DOMAIN f
    BY <2>1, <2>3, <2>4, <2>5 DEF Composed
  <2>6. CASE x \in DOMAIN f
    <3>1. Mapped(Append(Mapped(s, f), f[x]), g)
            = IF f[x] \in DOMAIN g THEN Append(Mapped(Mapped(s, f), g), g[f[x]])
                                   ELSE Mapped(Mapped(s, f), g)
      <4>. DEFINE kept == Mapped(s, f)
                  y    == f[x]
      <4>1. y \in T /\ kept \in Seq(T)
        BY <2>2, <2>6
      <4>. HIDE DEF T, kept, y
      <4>2. Mapped(Append(kept, y), g) = IF y \in DOMAIN g THEN Append(Mapped(kept, g), g[y])
                                                           ELSE Mapped(kept, g)
        BY <4>1, MappedAppend
      <4>. QED
        BY <4>2 DEF kept, y
    <3>2. Mapped(Append(s, x), f) = Append(Mapped(s, f), f[x])
      BY <2>4, <2>6
    <3>3. (x \in DOMAIN h <=> f[x] \in DOMAIN g) /\ (x \in DOMAIN h => h[x] = g[f[x]])
      BY <2>6 DEF Composed
    <3>4. Mapped(Mapped(Append(s, x), f), g) = Mapped(Append(s, x), h)
      BY <2>1, <2>3, <3>1, <3>2, <3>3
    <3>. QED
      BY <2>1, <3>4
  <2>. QED
    BY <2>5, <2>6
<1>. HIDE DEF Good
<1>3. \A s \in Seq(S) : s \in Good
  BY <1>1, <1>2, SequenceInduction
<1>. QED
  BY <1>3 DEF Good

Agree(S, f, g) ==
  \A x \in S : /\ x \in DOMAIN f <=> x \in DOMAIN g
               /\ x \in DOMAIN f => f[x] = g[x]

LEMMA MappedAgree ==
  ASSUME NEW S, NEW seq \in Seq(S), NEW f, NEW g, Agree(S, f, g)
  PROVE  Mapped(seq, f) = Mapped(seq, g)
<1>. DEFINE Good == {s \in Seq(S) : Mapped(s, f) = Mapped(s, g)}
<1>1. <<>> \in Good
  BY EmptyMapped
<1>2. ASSUME NEW s \in Seq(S), NEW x \in S, s \in Good PROVE Append(s, x) \in Good
  <2>1. Append(s, x) \in Seq(S) /\ Mapped(s, f) = Mapped(s, g)
    BY <1>2
  <2>2. Mapped(Append(s, x), f) = IF x \in DOMAIN f THEN Append(Mapped(s, f), f[x]) ELSE Mapped(s, f)
    BY MappedAppend
  <2>3. Mapped(Append(s, x), g) = IF x \in DOMAIN g THEN Append(Mapped(s, g), g[x]) ELSE Mapped(s, g)
    BY MappedAppend
  <2>. QED
    BY SMTT(30), <2>1, <2>2, <2>3 DEF Agree
<1>. HIDE DEF Good
<1>3. \A s \in Seq(S) : s \in Good
  BY <1>1, <1>2, SequenceInduction
<1>. QED
  BY <1>3 DEF Good

LEMMA KeptOccurrences ==
  ASSUME NEW S, NEW seq \in Seq(S), NEW T
  PROVE  /\ Kept(seq, T) \in Seq(S \cap T)
         /\ \A x : Occurrences(Kept(seq, T), x) = IF x \in T THEN Occurrences(seq, x) ELSE 0
<1>. DEFINE f == [x \in T |-> x]
<1>1. Kept(seq, T) = Mapped(seq, f)
  BY DEF Kept
<1>2. DOMAIN f = T /\ OneToOne(f) /\ \A x \in T : f[x] = x
  BY DEF OneToOne
<1>. HIDE DEF f
<1>3. Mapped(seq, f) \in Seq(S \cap T)
  BY <1>2, MappedTyped
<1>4. ASSUME NEW x, x \in T PROVE Occurrences(Mapped(seq, f), x) = Occurrences(seq, x)
  <2>1. Occurrences(Mapped(seq, f), f[x]) = Occurrences(seq, x)
    BY <1>2, <1>4, MappedOccurrences
  <2>. QED
    BY <1>2, <1>4, <2>1
<1>5. ASSUME NEW x, x \notin T PROVE Occurrences(Mapped(seq, f), x) = 0
  <2>1. ToSet(Mapped(seq, f)) = {f[y] : y \in ToSet(seq) \cap DOMAIN f}
    BY MappedSet
  <2>2. x \notin ToSet(Mapped(seq, f))
    BY <1>2, <1>5, <2>1
  <2>. QED
    BY <1>3, <2>2, OccurrencesCount
<1>. QED
  BY <1>1, <1>3, <1>4, <1>5

(***************************************************************************)
(* References made invalid.                                                *)
(***************************************************************************)
LEMMA InvalidatedLists ==
  ASSUME NEW S, NEW seq \in Seq(S), NEW removed
  PROVE  /\ Invalidated(seq, removed) \in Seq(S \cup {NoEdge})
         /\ ToSet(Invalidated(seq, removed)) \ {NoEdge} = ToSet(seq) \ (removed \cup {NoEdge})
         /\ \A e : e \notin removed /\ e # NoEdge =>
              Occurrences(Invalidated(seq, removed), e) = Occurrences(seq, e)
<1>. DEFINE new == Invalidated(seq, removed)
<1>1. /\ DOMAIN new = DOMAIN seq
      /\ \A i \in DOMAIN seq : new[i] = IF seq[i] \in removed THEN NoEdge ELSE seq[i]
  BY DEF Invalidated
<1>2. new \in Seq(S \cup {NoEdge})
  BY DEF Invalidated
<1>. HIDE DEF new
<1>3. ToSet(new) \ {NoEdge} = ToSet(seq) \ (removed \cup {NoEdge})
  BY <1>1 DEF ToSet
<1>4. ASSUME NEW e, e \notin removed, e # NoEdge PROVE Occurrences(new, e) = Occurrences(seq, e)
  <2>1. {i \in DOMAIN new : new[i] = e} = {i \in DOMAIN seq : seq[i] = e}
    BY <1>1, <1>4
  <2>. QED
    BY <2>1 DEF Occurrences
<1>. QED
  BY <1>2, <1>3, <1>4 DEF new

LEMMA InvalidatedMapped ==
  ASSUME NEW S, NEW seq \in Seq(S), NEW removed, NEW f, NEW h, NoEdge \notin DOMAIN f,
         \A x \in S : /\ x \in DOMAIN h <=> x \in DOMAIN f \ removed
                      /\ x \in DOMAIN h => h[x] = f[x]
  PROVE  Mapped(Invalidated(seq, removed), f) = Mapped(seq, h)
<1>. DEFINE Good == {s \in Seq(S) : Mapped(Invalidated(s, removed), f) = Mapped(s, h)}
            T    == S \cup {NoEdge}
<1>1. <<>> \in Good
  <2>1. Invalidated(<<>>, removed) = <<>>
    BY DEF Invalidated
  <2>. QED
    BY <2>1, EmptyMapped
<1>2. ASSUME NEW s \in Seq(S), NEW x \in S, s \in Good PROVE Append(s, x) \in Good
  <2>. DEFINE rest == Invalidated(s, removed)
              y    == IF x \in removed THEN NoEdge ELSE x
  <2>1. Append(s, x) \in Seq(S) /\ Mapped(rest, f) = Mapped(s, h)
    BY <1>2
  <2>2. rest \in Seq(T) /\ y \in T
    BY InvalidatedLists
  <2>3. Invalidated(Append(s, x), removed) = Append(rest, y)
    <3>1. DOMAIN Append(s, x) = 1 .. Len(s) + 1 /\ DOMAIN s = 1 .. Len(s) /\ Len(s) \in Nat
      OBVIOUS
    <3>2. Len(rest) = Len(s)
      BY <3>1 DEF Invalidated
    <3>3. \A i \in 1 .. Len(s) + 1 :
            Append(s, x)[i] = IF i = Len(s) + 1 THEN x ELSE s[i]
      OBVIOUS
    <3>4. /\ Invalidated(Append(s, x), removed) \in Seq(T)
          /\ Len(Invalidated(Append(s, x), removed)) = Len(s) + 1
      <4>1. Invalidated(Append(s, x), removed) \in Seq(T)
        BY <2>1, InvalidatedLists
      <4>2. DOMAIN Invalidated(Append(s, x), removed) = 1 .. Len(s) + 1
        BY <3>1 DEF Invalidated
      <4>. QED
        BY <3>1, <4>1, <4>2
    <3>5. \A i \in 1 .. Len(s) + 1 :
            Invalidated(Append(s, x), removed)[i] = IF i = Len(s) + 1 THEN y ELSE rest[i]
      BY <3>1, <3>3 DEF Invalidated
    <3>. HIDE DEF rest, y
    <3>6. /\ Append(rest, y) \in Seq(T) /\ Len(Append(rest, y)) = Len(s) + 1
          /\ \A i \in 1 .. Len(s) + 1 : Append(rest, y)[i] = IF i = Len(s) + 1 THEN y ELSE rest[i]
      BY <2>2, <3>2
    <3>. QED
      BY <3>4, <3>5, <3>6, SeqEqual
  <2>. HIDE DEF rest, y
  <2>4. Mapped(Append(rest, y), f) = IF y \in DOMAIN f THEN Append(Mapped(rest, f), f[y])
                                                       ELSE Mapped(rest, f)
    BY <2>2, MappedAppend
  <2>5. Mapped(Append(s, x), h) = IF x \in DOMAIN h THEN Append(Mapped(s, h), h[x]) ELSE Mapped(s, h)
    BY MappedAppend
  <2>6. (y \in DOMAIN f <=> x \in DOMAIN h) /\ (x \in DOMAIN h => h[x] = f[y])
    BY DEF y
  <2>7. Mapped(Invalidated(Append(s, x), removed), f) = Mapped(Append(s, x), h)
    BY <2>1, <2>3, <2>4, <2>5, <2>6
  <2>. QED
    BY <2>1, <2>7
<1>. HIDE DEF Good
<1>3. \A s \in Seq(S) : s \in Good
  BY <1>1, <1>2, SequenceInduction
<1>. QED
  BY <1>3 DEF Good

(***************************************************************************)
(* Lists of lists.                                                         *)
(***************************************************************************)
LEMMA ConcatenatedTyped ==
  ASSUME NEW S, NEW seqs \in Seq(Seq(S))
  PROVE  Concatenated(seqs) \in Seq(S)
<1>. DEFINE T    == Seq(S)
            Good == {ss \in Seq(T) : Concatenated(ss) \in Seq(S)}
<1>1. <<>> \in Good
  <2>1. <<>> \in Seq(T) /\ <<>> \in Seq(S)
    OBVIOUS
  <2>. QED
    BY <2>1, EmptyConcatenated
<1>2. ASSUME NEW ss \in Seq(T), NEW s \in T, ss \in Good PROVE Append(ss, s) \in Good
  <2>1. Append(ss, s) \in Seq(T) /\ Concatenated(ss) \in Seq(S)
    BY <1>2
  <2>2. Concatenated(Append(ss, s)) = Concatenated(ss) \o s
    <3>. HIDE DEF T
    <3>. QED
      BY ConcatenatedAppend
  <2>3. Concatenated(ss) \o s \in Seq(S)
    BY <2>1
  <2>. QED
    BY <2>1, <2>2, <2>3
<1>. HIDE DEF Good
<1>3. \A ss \in Seq(T) : ss \in Good
  <2>. HIDE DEF T
  <2>. QED
    BY <1>1, <1>2, SequenceInduction
<1>. QED
  BY <1>3 DEF Good

NowhereIn(x, ss)    == \A j \in DOMAIN ss : Occurrences(ss[j], x) = 0
OnlyAt(x, k, ss)    == \A j \in DOMAIN ss : j # k => Occurrences(ss[j], x) = 0

LEMMA ConcatenatedOccurrences ==
  ASSUME NEW S, NEW seqs \in Seq(Seq(S)), NEW x
  PROVE  /\ NowhereIn(x, seqs) => Occurrences(Concatenated(seqs), x) = 0
         /\ \A k \in DOMAIN seqs : OnlyAt(x, k, seqs) =>
              Occurrences(Concatenated(seqs), x) = Occurrences(seqs[k], x)
<1>. DEFINE T         == Seq(S)
            Holds(ss) == /\ NowhereIn(x, ss) => Occurrences(Concatenated(ss), x) = 0
                         /\ \A k \in DOMAIN ss : OnlyAt(x, k, ss) =>
                              Occurrences(Concatenated(ss), x) = Occurrences(ss[k], x)
            Good      == {ss \in Seq(T) : Holds(ss)}
<1>1. <<>> \in Good
  BY EmptyConcatenated, NoneInEmpty
<1>2. ASSUME NEW ss \in Seq(T), NEW s \in T, ss \in Good PROVE Append(ss, s) \in Good
  <2>. DEFINE more == Append(ss, s)
              n    == Len(ss)
  <2>1. /\ n \in Nat /\ DOMAIN ss = 1 .. n /\ DOMAIN more = 1 .. n + 1
        /\ more[n + 1] = s /\ \A j \in 1 .. n : more[j] = ss[j]
        /\ more \in Seq(T)
    OBVIOUS
  <2>2. Occurrences(Concatenated(more), x) = Occurrences(Concatenated(ss), x) + Occurrences(s, x)
    <3>1. Concatenated(more) = Concatenated(ss) \o s
      <4>. HIDE DEF T
      <4>. QED
        BY ConcatenatedAppend
    <3>2. Concatenated(ss) \in Seq(S)
      BY ConcatenatedTyped
    <3>. QED
      BY <3>1, <3>2, OccurrencesConcat
  <2>3. Occurrences(Concatenated(ss), x) \in Nat /\ Occurrences(s, x) \in Nat
    BY ConcatenatedTyped, OccurrencesCount
  <2>4. \A j \in 1 .. n : Occurrences(ss[j], x) \in Nat
    <3>1. \A j \in 1 .. n : ss[j] \in Seq(S)
      BY <2>1
    <3>. QED
      BY <3>1, OccurrencesCount
  <2>. HIDE DEF more, n
  <2>5. ASSUME NowhereIn(x, more) PROVE Occurrences(Concatenated(more), x) = 0
    <3>1. Occurrences(s, x) = 0 /\ NowhereIn(x, ss)
      <4>1. \A j \in 1 .. n + 1 : Occurrences(more[j], x) = 0
        BY <2>1, <2>5 DEF NowhereIn
      <4>2. \A j \in 1 .. n : Occurrences(more[j], x) = 0
        BY <2>1, <4>1
      <4>3. Occurrences(more[n + 1], x) = 0
        BY <2>1, <4>1
      <4>. QED
        BY <2>1, <4>2, <4>3 DEF NowhereIn
    <3>2. Occurrences(Concatenated(ss), x) = 0
      BY <1>2, <3>1
    <3>. QED
      BY <2>2, <3>1, <3>2
  <2>6. ASSUME NEW k \in DOMAIN more, OnlyAt(x, k, more)
        PROVE  Occurrences(Concatenated(more), x) = Occurrences(more[k], x)
    <3>1. CASE k = n + 1
      <4>1. NowhereIn(x, ss)
        <5>1. \A j \in 1 .. n : j \in DOMAIN more /\ j # k
          BY <2>1, <3>1
        <5>2. \A j \in 1 .. n : Occurrences(more[j], x) = 0
          BY <2>6, <5>1 DEF OnlyAt
        <5>. QED
          BY <2>1, <5>2 DEF NowhereIn
      <4>2. Occurrences(Concatenated(ss), x) = 0
        BY <1>2, <4>1
      <4>. QED
        BY <2>1, <2>2, <2>3, <3>1, <4>2
    <3>2. CASE k # n + 1
      <4>0. k \in 1 .. n /\ n + 1 \in DOMAIN more /\ \A j \in 1 .. n : j \in DOMAIN more
        BY <2>1, <3>2
      <4>1. k \in 1 .. n /\ OnlyAt(x, k, ss) /\ Occurrences(s, x) = 0
        <5>1. \A j \in 1 .. n : j # k => Occurrences(more[j], x) = 0
          BY <2>6, <4>0 DEF OnlyAt
        <5>2. Occurrences(more[n + 1], x) = 0
          BY <2>6, <3>2, <4>0 DEF OnlyAt
        <5>. QED
          BY <2>1, <4>0, <5>1, <5>2 DEF OnlyAt
      <4>2. Occurrences(Concatenated(ss), x) = Occurrences(ss[k], x)
        BY <1>2, <2>1, <4>1
      <4>. QED
        BY <2>1, <2>2, <2>4, <4>1, <4>2
    <3>. QED
      BY <3>1, <3>2
  <2>7. Holds(more)
    BY <2>5, <2>6
  <2>. QED
    BY <2>1, <2>7 DEF more
<1>. HIDE DEF Good
<1>3. \A ss \in Seq(T) : ss \in Good
  <2>. HIDE DEF T
  <2>. QED
    BY <1>1, <1>2, SequenceInduction
<1>. QED
  BY <1>3 DEF Good

(***************************************************************************)
(* Lists mapped as a whole: element by element, and piece by piece.        *)
(***************************************************************************)
LEMMA MappedPlaces ==
  ASSUME NEW S, NEW seq \in Seq(S), NEW f, S \subseteq DOMAIN f
  PROVE  /\ Len(Mapped(seq, f)) = Len(seq)
         /\ \A i \in 1 .. Len(seq) : Mapped(seq, f)[i] = f[seq[i]]
<1>. DEFINE T       == {f[x] : x \in S}
            Fits(s) == /\ Len(Mapped(s, f)) = Len(s)
                       /\ \A i \in 1 .. Len(s) : Mapped(s, f)[i] = f[s[i]]
            Good    == {s \in Seq(S) : Fits(s)}
<1>1. <<>> \in Good
  <2>1. <<>> \in Seq(S) /\ Len(<<>>) = 0
    OBVIOUS
  <2>2. Mapped(<<>>, f) = <<>>
    BY EmptyMapped
  <2>3. Fits(<<>>)
    BY <2>1, <2>2
  <2>. HIDE DEF Fits
  <2>. QED
    BY <2>1, <2>3
<1>2. \A s \in Seq(S) : Mapped(s, f) \in Seq(T)
  <2>1. \A x \in S \cap DOMAIN f : f[x] \in T
    OBVIOUS
  <2>. HIDE DEF T
  <2>. QED
    BY <2>1, MappedTyped
<1>3. ASSUME NEW s \in Seq(S), NEW x \in S, s \in Good PROVE Append(s, x) \in Good
  <2>. DEFINE images == Mapped(s, f)
              long   == Append(s, x)
  <2>1. images \in Seq(T) /\ Fits(s) /\ f[x] \in T
    BY <1>2, <1>3
  <2>2. Mapped(long, f) = Append(images, f[x])
    <3>1. x \in DOMAIN f
      OBVIOUS
    <3>. QED
      BY <3>1, MappedAppend
  <2>3. /\ long \in Seq(S) /\ Len(long) = Len(s) + 1 /\ long[Len(s) + 1] = x
        /\ \A i \in 1 .. Len(s) : long[i] = s[i]
    OBVIOUS
  <2>4. Len(images) = Len(s) /\ \A i \in 1 .. Len(s) : images[i] = f[s[i]]
    BY <2>1
  <2>. DEFINE y == f[x]
  <2>. HIDE DEF images, long, T, y
  <2>5. /\ Len(Append(images, y)) = Len(s) + 1 /\ Append(images, y)[Len(s) + 1] = y
        /\ \A i \in 1 .. Len(s) : Append(images, y)[i] = images[i]
    BY <2>1, <2>4 DEF y
  <2>6. ASSUME NEW i \in 1 .. Len(long) PROVE Mapped(long, f)[i] = f[long[i]]
    <3>1. CASE i = Len(s) + 1
      BY <2>2, <2>3, <2>5, <3>1 DEF y
    <3>2. CASE i # Len(s) + 1
      <4>1. i \in 1 .. Len(s)
        BY <2>3, <3>2
      <4>. QED
        BY <2>2, <2>3, <2>4, <2>5, <4>1 DEF y
    <3>. QED
      BY <3>1, <3>2
  <2>7. Fits(long)
    BY <2>2, <2>3, <2>5, <2>6 DEF y
  <2>. HIDE DEF Fits
  <2>. QED
    BY <2>3, <2>7 DEF long
<1>. HIDE DEF Good
<1>4. seq \in Good
  BY <1>1, <1>3, SequenceInduction
<1>. QED
  BY <1>4 DEF Good

LEMMA MappedSame ==
  ASSUME NEW S, NEW seq \in Seq(S), NEW f, \A x \in S : x \in DOMAIN f /\ f[x] = x
  PROVE  Mapped(seq, f) = seq
<1>. DEFINE image == Mapped(seq, f)
<1>1. S \subseteq DOMAIN f /\ \A i \in 1 .. Len(seq) : f[seq[i]] = seq[i]
  OBVIOUS
<1>2. /\ Len(image) = Len(seq)
      /\ \A i \in 1 .. Len(seq) : image[i] = f[seq[i]]
  BY <1>1, MappedPlaces
<1>4. image \in Seq(S)
  <2>1. \A x \in S \cap DOMAIN f : f[x] \in S
    OBVIOUS
  <2>. QED
    BY <2>1, MappedTyped
<1>. HIDE DEF image
<1>3. \A i \in 1 .. Len(seq) : image[i] = seq[i]
  BY <1>1, <1>2
<1>5. image = seq
  BY <1>2, <1>3, <1>4
<1>. QED
  BY <1>5 DEF image

LEMMA MappedConcat ==
  ASSUME NEW S, NEW a \in Seq(S), NEW b \in Seq(S), NEW f
  PROVE  Mapped(a \o b, f) = Mapped(a, f) \o Mapped(b, f)
<1>. DEFINE T    == {f[x] : x \in DOMAIN f}
            Good == {s \in Seq(S) : Mapped(a \o s, f) = Mapped(a, f) \o Mapped(s, f)}
<1>1. \A s \in Seq(S) : Mapped(s, f) \in Seq(T)
  <2>1. \A x \in S \cap DOMAIN f : f[x] \in T
    OBVIOUS
  <2>. HIDE DEF T
  <2>. QED
    BY <2>1, MappedTyped
<1>2. <<>> \in Good
  <2>1. a \o <<>> = a /\ Mapped(<<>>, f) = <<>> /\ <<>> \in Seq(S)
    BY EmptyMapped
  <2>2. Mapped(a, f) \o <<>> = Mapped(a, f)
    BY <1>1
  <2>. QED
    BY <2>1, <2>2
<1>3. ASSUME NEW s \in Seq(S), NEW x \in S, s \in Good PROVE Append(s, x) \in Good
  <2>1. /\ a \o s \in Seq(S) /\ a \o Append(s, x) = Append(a \o s, x) /\ Append(s, x) \in Seq(S)
    OBVIOUS
  <2>2. /\ Mapped(Append(a \o s, x), f) = IF x \in DOMAIN f THEN Append(Mapped(a \o s, f), f[x])
                                                            ELSE Mapped(a \o s, f)
        /\ Mapped(Append(s, x), f) = IF x \in DOMAIN f THEN Append(Mapped(s, f), f[x]) ELSE Mapped(s, f)
    BY <2>1, MappedAppend
  <2>3. Mapped(a \o s, f) = Mapped(a, f) \o Mapped(s, f)
    BY <1>3
  <2>4. x \in DOMAIN f => Append(Mapped(a, f) \o Mapped(s, f), f[x])
                            = Mapped(a, f) \o Append(Mapped(s, f), f[x])
    <3>. SUFFICES ASSUME x \in DOMAIN f
                  PROVE  Append(Mapped(a, f) \o Mapped(s, f), f[x])
                           = Mapped(a, f) \o Append(Mapped(s, f), f[x])
      OBVIOUS
    <3>. DEFINE c == Mapped(a, f)
                d == Mapped(s, f)
                y == f[x]
    <3>1. c \in Seq(T) /\ d \in Seq(T) /\ y \in T
      BY <1>1
    <3>. HIDE DEF c, d, y, T, Good
    <3>2. Append(c \o d, y) = c \o Append(d, y)
      <4>1. c \o d \in Seq(T) /\ <<y>> \in Seq(T)
        BY <3>1
      <4>2. Append(c \o d, y) = (c \o d) \o <<y>> /\ Append(d, y) = d \o <<y>>
        BY <3>1, <4>1, AppendIsConcat
      <4>3. (c \o d) \o <<y>> = c \o (d \o <<y>>)
        BY SMTT(30), <3>1, <4>1, ConcatAssociative
      <4>. QED
        BY <4>2, <4>3
    <3>. QED
      BY <3>2 DEF c, d, y
  <2>. QED
    BY <2>1, <2>2, <2>3, <2>4
<1>. HIDE DEF Good
<1>4. b \in Good
  BY <1>2, <1>3, SequenceInduction
<1>. QED
  BY <1>4 DEF Good

LEMMA ConcatenatedMapped ==
  ASSUME NEW S, NEW seqs \in Seq(Seq(S)), NEW f,
         NEW images, images = [i \in DOMAIN seqs |-> Mapped(seqs[i], f)]
  PROVE  Mapped(Concatenated(seqs), f) = Concatenated(images)
<1>. DEFINE U    == Seq(S)
            T    == {f[x] : x \in DOMAIN f}
            Im(ss) == [i \in DOMAIN ss |-> Mapped(ss[i], f)]
            Good == {ss \in Seq(U) : Mapped(Concatenated(ss), f) = Concatenated(Im(ss))}
<1>1. \A s \in U : Mapped(s, f) \in Seq(T)
  <2>1. \A x \in S \cap DOMAIN f : f[x] \in T
    OBVIOUS
  <2>. HIDE DEF T
  <2>. QED
    BY <2>1, MappedTyped
<1>2. <<>> \in Good
  <2>1. <<>> \in Seq(U) /\ DOMAIN <<>> = {}
    OBVIOUS
  <2>2. Im(<<>>) = <<>>
    BY <2>1
  <2>. HIDE DEF Im
  <2>. QED
    BY <2>1, <2>2, EmptyConcatenated, EmptyMapped
<1>3. ASSUME NEW ss \in Seq(U), NEW s \in U, ss \in Good PROVE Append(ss, s) \in Good
  <2>. DEFINE k    == Len(ss)
              long == Append(ss, s)
  <2>1. /\ k \in Nat /\ DOMAIN ss = 1 .. k /\ \A i \in 1 .. k : ss[i] \in U
        /\ long \in Seq(U) /\ DOMAIN long = 1 .. k + 1 /\ long[k + 1] = s
        /\ \A i \in 1 .. k : long[i] = ss[i]
    OBVIOUS
  <2>2. Mapped(Concatenated(ss), f) = Concatenated(Im(ss))
    BY <1>3
  <2>3. Concatenated(long) = Concatenated(ss) \o s
    BY ConcatenatedAppend
  <2>4. Concatenated(ss) \in Seq(S) /\ s \in Seq(S)
    BY ConcatenatedTyped
  <2>5. Mapped(Concatenated(long), f) = Mapped(Concatenated(ss), f) \o Mapped(s, f)
    BY <2>3, <2>4, MappedConcat
  <2>. DEFINE V  == Seq(T)
              im == Im(ss)
              m  == Mapped(s, f)
  <2>6. im \in Seq(V) /\ Len(im) = k /\ m \in V
    <3>. DEFINE F(i) == Mapped(ss[i], f)
    <3>1. \A i \in 1 .. k : F(i) \in V
      BY <1>1, <2>1
    <3>2. im = [i \in 1 .. k |-> F(i)] /\ m \in V
      BY <1>1, <2>1
    <3>. HIDE DEF F, V, im, m, k
    <3>. QED
      BY <2>1, <3>1, <3>2
  <2>7. Im(long) = Append(im, m)
    <3>. DEFINE two == Im(long)
    <3>1. DOMAIN two = 1 .. k + 1 /\ two[k + 1] = m /\ \A i \in 1 .. k : two[i] = im[i]
      BY <2>1
    <3>2. two = [i \in 1 .. k + 1 |-> two[i]]
      BY <2>1
    <3>. HIDE DEF two, im, m, V, k, Im
    <3>. HIDE DEF Good, U, T
    <3>0. k \in Nat
      BY <2>1
    <3>3. /\ Append(im, m) \in Seq(V) /\ Len(Append(im, m)) = k + 1 /\ Append(im, m)[k + 1] = m
          /\ \A i \in 1 .. k : Append(im, m)[i] = im[i]
      BY <2>6, <3>0
    <3>4. \A i \in 1 .. k + 1 : two[i] = Append(im, m)[i]
      <4>1. \A i \in 1 .. k + 1 : i = k + 1 \/ i \in 1 .. k
        BY <2>1
      <4>. QED
        BY <3>1, <3>3, <4>1
    <3>5. Append(im, m) = [i \in 1 .. k + 1 |-> Append(im, m)[i]]
      <4>. DEFINE all == Append(im, m)
      <4>1. all \in Seq(V) /\ Len(all) = k + 1
        BY <3>3
      <4>. HIDE DEF all
      <4>2. all = [i \in 1 .. k + 1 |-> all[i]]
        BY <3>0, <4>1
      <4>. QED
        BY <4>2 DEF all
    <3>6. two = Append(im, m)
      BY <3>2, <3>4, <3>5
    <3>. QED
      BY <3>6 DEF two
  <2>. HIDE DEF im, m, V, long, k, Im
  <2>8. Concatenated(Append(im, m)) = Concatenated(im) \o m
    BY <2>6, ConcatenatedAppend
  <2>9. Mapped(Concatenated(long), f) = Concatenated(Im(long))
    BY <2>2, <2>5, <2>7, <2>8 DEF im, m
  <2>. QED
    BY <2>1, <2>9 DEF long
<1>. HIDE DEF Good, Im
<1>4. \A ss \in Seq(U) : ss \in Good
  <2>. HIDE DEF U
  <2>. QED
    BY <1>2, <1>3, SequenceInduction
<1>. QED
  BY <1>4 DEF Good, Im

LEMMA ConcatenatedBegins ==
  ASSUME NEW S, NEW seqs \in Seq(Seq(S)), seqs # <<>>
  PROVE  \E rest \in Seq(S) : Concatenated(seqs) = seqs[1] \o rest
<1>. DEFINE U       == Seq(S)
            Good    == {ss \in Seq(U) : ss # <<>> =>
                          \E rest \in U : Concatenated(ss) = ss[1] \o rest}
<1>1. <<>> \in Good
  OBVIOUS
<1>2. ASSUME NEW ss \in Seq(U), NEW s \in U, ss \in Good PROVE Append(ss, s) \in Good
  <2>1. Append(ss, s) \in Seq(U) /\ Concatenated(Append(ss, s)) = Concatenated(ss) \o s
    BY ConcatenatedAppend
  <2>2. CASE ss = <<>>
    <3>1. Concatenated(ss) = <<>> /\ Append(ss, s)[1] = s /\ <<>> \o s = s /\ s \o <<>> = s
      BY <2>2, EmptyConcatenated
    <3>2. <<>> \in U
      OBVIOUS
    <3>. QED
      BY <2>1, <3>1, <3>2
  <2>3. CASE ss # <<>>
    <3>1. PICK rest \in U : Concatenated(ss) = ss[1] \o rest
      BY <1>2, <2>3
    <3>2. Append(ss, s)[1] = ss[1] /\ ss[1] \in U
      BY <2>3
    <3>. DEFINE first == ss[1]
    <3>3. (first \o rest) \o s = first \o (rest \o s) /\ rest \o s \in U
      <4>1. first \in Seq(S) /\ rest \in Seq(S) /\ s \in Seq(S)
        BY <3>2
      <4>. HIDE DEF first
      <4>. QED
        BY SMTT(30), <4>1
    <3>. QED
      BY <2>1, <3>1, <3>2, <3>3
  <2>. QED
    BY <2>2, <2>3
<1>. HIDE DEF Good
<1>3. \A ss \in Seq(U) : ss \in Good
  <2>. HIDE DEF U
  <2>. QED
    BY <1>1, <1>2, SequenceInduction
<1>. QED
  BY <1>3 DEF Good

(***************************************************************************)
(* Renumbering.  A map gives the valid entries of a linear_map the ids     *)
(* from 0 on, each one of its own, and drops the others.                   *)
(***************************************************************************)
IdRange(ids) == \E k \in Nat : ids = 0 .. k - 1

Renumbers(map, f) ==
  /\ DOMAIN map = DOMAIN f
  /\ \A i \in DOMAIN f : map[i] # NoNode <=> i \in ValidIds(f)
  /\ \A i, j \in ValidIds(f) : map[i] = map[j] => i = j
  /\ IdRange({map[i] : i \in ValidIds(f)})

LEMMA RenumbersSame ==
  ASSUME NEW map, NEW f, NEW h, Renumbers(map, f), DOMAIN h = DOMAIN f, ValidIds(h) = ValidIds(f)
  PROVE  Renumbers(map, h)
BY DEF Renumbers

LEMMA SizeOfRange ==
  ASSUME NEW k \in Nat
  PROVE  IsFiniteSet(0 .. k - 1) /\ Cardinality(0 .. k - 1) = k
<1>1. k - 1 \in Int /\ 0 \in Int
  OBVIOUS
<1>2. /\ IsFiniteSet(0 .. k - 1)
      /\ Cardinality(0 .. k - 1) = IF 0 > k - 1 THEN 0 ELSE k - 1 - 0 + 1
  BY <1>1, FS_Interval
<1>. QED
  BY <1>2

LEMMA SizeOfIds ==
  ASSUME NEW ids, IdRange(ids)
  PROVE  Cardinality(ids) \in Nat /\ ids = 0 .. Cardinality(ids) - 1 /\ IsFiniteSet(ids)
<1>1. PICK k \in Nat : ids = 0 .. k - 1
  BY DEF IdRange
<1>. QED
  BY <1>1, SizeOfRange

(***************************************************************************)
(* compress_ids: the ids of what is left close up.                         *)
(***************************************************************************)
LEMMA CompressRenumbers ==
  ASSUME NEW f, IdRange(DOMAIN f)
  PROVE  Renumbers(compress_ids(f), f)
<1>. DEFINE V    == ValidIds(f)
            B(i) == {j \in V : j < i}
            map  == compress_ids(f)
            size == Cardinality(V)
            T    == 0 .. size - 1
<1>1. V \subseteq DOMAIN f /\ DOMAIN f \subseteq Nat /\ IsFiniteSet(DOMAIN f)
  BY SizeOfIds DEF ValidIds, IdRange
<1>2. IsFiniteSet(V) /\ size \in Nat
  BY <1>1, FS_Subset, FS_CardinalityType
<1>3. \A i : IsFiniteSet(B(i)) /\ Cardinality(B(i)) \in Nat
  <2>1. \A i : B(i) \in SUBSET V
    OBVIOUS
  <2>. QED
    BY <1>2, <2>1, FS_Subset, FS_CardinalityType
<1>4. ASSUME NEW i \in V, NEW j \in V, i < j PROVE Cardinality(B(i)) < Cardinality(B(j))
  <2>1. B(i) \cup {i} \in SUBSET B(j) /\ i \notin B(i)
    BY <1>1, <1>4
  <2>2. Cardinality(B(i) \cup {i}) = Cardinality(B(i)) + 1
    BY <1>3, <2>1, FS_AddElement
  <2>3. Cardinality(B(i) \cup {i}) <= Cardinality(B(j))
    BY <1>3, <2>1, FS_Subset
  <2>. QED
    BY <1>3, <2>2, <2>3
<1>5. ASSUME NEW i \in V PROVE Cardinality(B(i)) < size
  <2>1. B(i) \cup {i} \in SUBSET V /\ i \notin B(i)
    BY <1>1
  <2>2. Cardinality(B(i) \cup {i}) = Cardinality(B(i)) + 1
    BY <1>3, <2>1, FS_AddElement
  <2>3. Cardinality(B(i) \cup {i}) <= size
    BY <1>2, <2>1, FS_Subset
  <2>. QED
    BY <1>2, <1>3, <2>2, <2>3
<1>6. \A i \in V : map[i] = Cardinality(B(i))
  BY <1>1 DEF compress_ids, ValidIds
<1>7. \A i \in DOMAIN f : i \notin V => map[i] = NoNode
  BY DEF compress_ids, ValidIds
<1>8. DOMAIN map = DOMAIN f
  BY DEF compress_ids
<1>. HIDE DEF map, B
<1>9. \A i \in V : map[i] \in T
  BY <1>2, <1>3, <1>5, <1>6
<1>10. \A i, j \in V : map[i] = map[j] => i = j
  <2>. SUFFICES ASSUME NEW i \in V, NEW j \in V, map[i] = map[j], i # j PROVE FALSE
    OBVIOUS
  <2>1. i < j \/ j < i
    BY <1>1
  <2>2. map[i] \in Int /\ (map[i] < map[j] \/ map[j] < map[i])
    BY <1>3, <1>4, <1>6, <2>1
  <2>. QED
    BY <2>2
<1>11. {map[i] : i \in V} = T
  <2>. DEFINE rank == [i \in V |-> map[i]]
  <2>. HIDE DEF T
  <2>1. rank \in Injection(V, T)
    BY <1>9, <1>10 DEF Injection, IsInjective
  <2>2. IsFiniteSet(T) /\ Cardinality(T) = size
    BY <1>2, SizeOfRange DEF T
  <2>3. rank \in Surjection(V, T)
    BY <1>2, <2>1, <2>2, FS_Injection
  <2>. QED
    BY <1>9, <2>3 DEF Surjection
<1>12. \A i \in DOMAIN f : map[i] # NoNode <=> i \in V
  <2>1. \A i \in V : map[i] # NoNode
    BY <1>2, <1>9 DEF NoNode
  <2>. QED
    BY <1>7, <2>1
<1>13. IdRange({map[i] : i \in V})
  BY <1>2, <1>11 DEF IdRange
<1>. HIDE DEF T
<1>. QED
  BY <1>8, <1>10, <1>12, <1>13 DEF Renumbers, V, map

(***************************************************************************)
(* Position: a list with every id once gives each its place in the list.   *)
(***************************************************************************)
LEMMA PositionRenumbers ==
  ASSUME NEW S, NEW seq \in Seq(S), NEW f, ToSet(seq) = DOMAIN f, ValidIds(f) = DOMAIN f,
         \A x \in DOMAIN f : Occurrences(seq, x) = 1
  PROVE  /\ Renumbers(Position(seq), f)
         /\ \A i \in DOMAIN seq : Position(seq)[seq[i]] = i - 1
<1>. DEFINE map == Position(seq)
            k   == Len(seq)
<1>0. k \in Nat /\ DOMAIN seq = 1 .. k
  OBVIOUS
<1>1. ASSUME NEW i \in DOMAIN seq PROVE seq[i] \in DOMAIN f /\ map[seq[i]] = i - 1
  <2>. DEFINE x == seq[i]
              j == CHOOSE j \in DOMAIN seq : seq[j] = x
  <2>1. x \in DOMAIN f
    BY DEF ToSet
  <2>2. j \in DOMAIN seq /\ seq[j] = x
    OBVIOUS
  <2>3. j = i
    <3>. HIDE DEF j
    <3>. QED
      BY <2>1, <2>2, OccursAlone
  <2>. QED
    BY <2>1, <2>3 DEF Position, ToSet
<1>2. DOMAIN map = DOMAIN f
  BY DEF Position
<1>3. \A x \in DOMAIN f : \E i \in DOMAIN seq : x = seq[i]
  BY DEF ToSet
<1>. HIDE DEF map, k
<1>4. \A x \in DOMAIN f : map[x] # NoNode
  BY <1>0, <1>1, <1>3 DEF NoNode
<1>5. \A x, y \in DOMAIN f : map[x] = map[y] => x = y
  <2>. SUFFICES ASSUME NEW x \in DOMAIN f, NEW y \in DOMAIN f, map[x] = map[y] PROVE x = y
    OBVIOUS
  <2>1. PICK i \in DOMAIN seq : x = seq[i]
    BY <1>3
  <2>2. PICK j \in DOMAIN seq : y = seq[j]
    BY <1>3
  <2>. QED
    BY <1>0, <1>1, <2>1, <2>2
<1>6. {map[x] : x \in DOMAIN f} = 0 .. k - 1
  <2>1. \A x \in DOMAIN f : map[x] \in 0 .. k - 1
    BY <1>0, <1>1, <1>3
  <2>2. ASSUME NEW p \in 0 .. k - 1 PROVE \E x \in DOMAIN f : map[x] = p
    <3>1. p + 1 \in DOMAIN seq /\ (p + 1) - 1 = p
      BY <1>0
    <3>. QED
      BY <1>1, <3>1
  <2>. QED
    BY <2>1, <2>2
<1>. QED
  BY <1>0, <1>1, <1>2, <1>4, <1>5, <1>6 DEF Renumbers, IdRange, map

(***************************************************************************)
(* clean_and_reorder_values: every attribute moves with its id.            *)
(***************************************************************************)
LEMMA ReorderedValues ==
  ASSUME NEW f, NEW map, Renumbers(map, f), NEW h, h = clean_and_reorder_values(f, map)
  PROVE  /\ IdRange(DOMAIN h)
         /\ \A i \in ValidIds(f) : map[i] \in DOMAIN h /\ h[map[i]] = f[i]
         /\ \A j \in DOMAIN h : \E i \in ValidIds(f) : j = map[i]
         /\ ValidIds(h) = DOMAIN h
         /\ h = [j \in DOMAIN h |-> h[j]]
<1>. DEFINE V == ValidIds(f)
<1>1. DOMAIN h = {map[i] : i \in DOMAIN f} \ {NoNode} /\ h = [j \in DOMAIN h |-> h[j]]
  <2>. DEFINE image == {map[i] : i \in DOMAIN f} \ {NoNode}
              at(j) == f[CHOOSE i \in DOMAIN f : map[i] = j]
  <2>1. h = [j \in image |-> at(j)]
    BY DEF clean_and_reorder_values
  <2>. HIDE DEF image, at
  <2>2. DOMAIN h = image /\ \A j \in image : h[j] = at(j)
    BY <2>1
  <2>3. h = [j \in DOMAIN h |-> h[j]]
    BY <2>1, <2>2
  <2>. QED
    BY <2>2, <2>3 DEF image
<1>2. V \subseteq DOMAIN f /\ DOMAIN map = DOMAIN f
  BY DEF ValidIds, Renumbers
<1>3. DOMAIN h = {map[i] : i \in V}
  BY <1>1, <1>2 DEF Renumbers
<1>4. ASSUME NEW i \in V PROVE map[i] \in DOMAIN h /\ h[map[i]] = f[i]
  <2>. DEFINE j == CHOOSE j \in DOMAIN f : map[j] = map[i]
  <2>1. j \in DOMAIN f /\ map[j] = map[i]
    BY <1>2
  <2>2. map[i] \in DOMAIN h /\ h[map[i]] = f[j]
    BY <1>3 DEF clean_and_reorder_values
  <2>. HIDE DEF j
  <2>3. j = i
    BY <1>2, <2>1 DEF Renumbers
  <2>. QED
    BY <2>2, <2>3
<1>5. \A j \in DOMAIN h : h[j].valid
  BY <1>3, <1>4 DEF ValidIds
<1>6. IdRange(DOMAIN h)
  BY <1>3 DEF Renumbers
<1>. HIDE DEF V
<1>. QED
  BY <1>1, <1>3, <1>4, <1>5, <1>6 DEF ValidIds, V
(***************************************************************************)
(* Graphs.  The attributes of every id are there and of their types; the   *)
(* references are consistent; a graph without removed edges has no invalid *)
(* references.                                                             *)
(***************************************************************************)
NodeShape(x) ==
  /\ x = [valid |-> x.valid, type |-> x.type, in |-> x.in, out |-> x.out]
  /\ x.valid \in BOOLEAN
  /\ x.in \in Seq(Int) /\ x.out \in Seq(Int)

EdgeShape(x) ==
  /\ x = [valid |-> x.valid, type |-> x.type, src |-> x.src, sink |-> x.sink,
          disabled |-> x.disabled]
  /\ x.valid \in BOOLEAN /\ x.disabled \in BOOLEAN

Typed(g) ==
  /\ g = [nodes |-> g.nodes, edges |-> g.edges]
  /\ IdRange(DOMAIN g.nodes) /\ IdRange(DOMAIN g.edges)
  /\ g.nodes = [n \in DOMAIN g.nodes |-> g.nodes[n]]
  /\ g.edges = [e \in DOMAIN g.edges |-> g.edges[e]]
  /\ \A n \in DOMAIN g.nodes : NodeShape(g.nodes[n])
  /\ \A e \in DOMAIN g.edges : EdgeShape(g.edges[e])

EndsListed(g) ==
  \A e \in ValidIds(g.edges) :
    /\ g.edges[e].src \in ValidIds(g.nodes) /\ g.edges[e].sink \in ValidIds(g.nodes)
    /\ Occurrences(g.nodes[g.edges[e].src].out, e) = 1
    /\ Occurrences(g.nodes[g.edges[e].sink].in, e) = 1

ListsOwned(g) ==
  \A n \in DOMAIN g.nodes :
    /\ \A e \in ToSet(g.nodes[n].in) \ {NoEdge}  : e \in ValidIds(g.edges) /\ g.edges[e].sink = n
    /\ \A e \in ToSet(g.nodes[n].out) \ {NoEdge} : e \in ValidIds(g.edges) /\ g.edges[e].src = n

NodesFull(g) == ValidIds(g.nodes) = DOMAIN g.nodes
EdgesFull(g) == ValidIds(g.edges) = DOMAIN g.edges

NoneInvalid(g) ==
  \A n \in DOMAIN g.nodes : NoEdge \notin ToSet(g.nodes[n].in) /\ NoEdge \notin ToSet(g.nodes[n].out)

Sound(g) == Typed(g) /\ EndsListed(g) /\ ListsOwned(g) /\ (EdgesFull(g) => NoneInvalid(g))
Whole(g) == Sound(g) /\ NodesFull(g) /\ EdgesFull(g)

Extended(f, new, x, h) ==
  /\ IdRange(DOMAIN h) /\ new \in Nat /\ new \notin DOMAIN f /\ DOMAIN h = DOMAIN f \cup {new}
  /\ h = [i \in DOMAIN h |-> h[i]]
  /\ h[new] = x /\ \A i \in DOMAIN f : h[i] = f[i]

LEMMA PushedBack ==
  ASSUME NEW f, IdRange(DOMAIN f), NEW x, NEW h, h = PushBack(f, x),
         NEW new, new = Cardinality(DOMAIN f)
  PROVE  Extended(f, new, x, h)
<1>1. new \in Nat /\ DOMAIN f = 0 .. new - 1
  BY SizeOfIds
<1>2. h = [i \in 0 .. new |-> IF i \in DOMAIN f THEN f[i] ELSE x]
  BY DEF PushBack
<1>3. DOMAIN h = 0 .. new /\ 0 .. new = DOMAIN f \cup {new} /\ new \notin DOMAIN f
  <2>1. 0 .. new = (0 .. new - 1) \cup {new} /\ new \notin 0 .. new - 1
    <3>1. new \in Nat
      BY <1>1
    <3>. QED
      BY <3>1
  <2>2. DOMAIN h = 0 .. new
    BY <1>2
  <2>. QED
    BY <1>1, <2>1, <2>2
<1>4. h = [i \in DOMAIN h |-> h[i]]
  BY <1>2
<1>5. IdRange(DOMAIN h)
  <2>1. new + 1 \in Nat /\ (new + 1) - 1 = new
    BY <1>1
  <2>. QED
    BY <1>3, <2>1 DEF IdRange
<1>6. h[new] = x /\ \A i \in DOMAIN f : h[i] = f[i]
  BY <1>1, <1>2, <1>3
<1>. QED
  BY <1>1, <1>3, <1>4, <1>5, <1>6 DEF Extended

(***************************************************************************)
(* remap_nodes: the nodes move, and the ends of the edges follow.          *)
(***************************************************************************)
NodesMoved(g, map, r) ==
  /\ Sound(r) /\ NodesFull(r)
  /\ DOMAIN r.edges = DOMAIN g.edges /\ ValidIds(r.edges) = ValidIds(g.edges)
  /\ \A e \in DOMAIN g.edges :
       r.edges[e] = [g.edges[e] EXCEPT !.src = map[@], !.sink = map[@]]
  /\ \A n \in ValidIds(g.nodes) : map[n] \in DOMAIN r.nodes /\ r.nodes[map[n]] = g.nodes[n]
  /\ \A m \in DOMAIN r.nodes : \E n \in ValidIds(g.nodes) : m = map[n]

LEMMA NodesRemapped ==
  ASSUME NEW g, Sound(g), NEW map, Renumbers(map, g.nodes), NEW r, r = remap_nodes(g, map)
  PROVE  NodesMoved(g, map, r)
<1>. DEFINE V == ValidIds(g.nodes)
            moved == clean_and_reorder_values(g.nodes, map)
<1>1. Typed(g) /\ EndsListed(g) /\ ListsOwned(g) /\ (EdgesFull(g) => NoneInvalid(g))
  BY DEF Sound
<1>2. /\ r = [nodes |-> r.nodes, edges |-> r.edges]
      /\ r.nodes = moved
      /\ r.edges = [e \in DOMAIN g.edges |-> [g.edges[e] EXCEPT !.src = map[@], !.sink = map[@]]]
  BY DEF remap_nodes
<1>3. /\ IdRange(DOMAIN r.nodes)
      /\ \A n \in V : map[n] \in DOMAIN r.nodes /\ r.nodes[map[n]] = g.nodes[n]
      /\ \A m \in DOMAIN r.nodes : \E n \in V : m = map[n]
      /\ ValidIds(r.nodes) = DOMAIN r.nodes
      /\ r.nodes = [j \in DOMAIN r.nodes |-> r.nodes[j]]
  <2>. DEFINE f == g.nodes
              h == r.nodes
  <2>1. h = clean_and_reorder_values(f, map) /\ Renumbers(map, f)
    BY <1>2
  <2>. HIDE DEF f, h
  <2>2. /\ IdRange(DOMAIN h)
        /\ \A i \in ValidIds(f) : map[i] \in DOMAIN h /\ h[map[i]] = f[i]
        /\ \A j \in DOMAIN h : \E i \in ValidIds(f) : j = map[i]
        /\ ValidIds(h) = DOMAIN h
        /\ h = [j \in DOMAIN h |-> h[j]]
    BY SMTT(30), <2>1, ReorderedValues
  <2>. QED
    BY SMTT(30), <2>2 DEF f, h
<1>4. /\ DOMAIN r.edges = DOMAIN g.edges
      /\ r.edges = [e \in DOMAIN r.edges |-> r.edges[e]]
      /\ \A e \in DOMAIN g.edges :
           r.edges[e] = [g.edges[e] EXCEPT !.src = map[@], !.sink = map[@]]
  BY ZenonT(40), <1>2
<1>5. \A e \in DOMAIN g.edges :
        /\ EdgeShape(r.edges[e])
        /\ r.edges[e].valid = g.edges[e].valid
        /\ r.edges[e].src = map[g.edges[e].src] /\ r.edges[e].sink = map[g.edges[e].sink]
  BY ZenonT(40), <1>1, <1>4 DEF Typed, EdgeShape
<1>6. V \subseteq DOMAIN g.nodes
  BY DEF ValidIds
<1>7. \A m \in DOMAIN r.nodes : NodeShape(r.nodes[m])
  BY <1>1, <1>3, <1>6 DEF Typed
<1>8. Typed(r)
  BY ZenonT(40), <1>1, <1>2, <1>3, <1>4, <1>5, <1>7 DEF Typed
<1>9. ValidIds(r.edges) = ValidIds(g.edges)
  BY <1>4, <1>5 DEF ValidIds
<1>10. EndsListed(r)
  <2>. SUFFICES ASSUME NEW e \in ValidIds(r.edges)
                PROVE  /\ r.edges[e].src \in ValidIds(r.nodes) /\ r.edges[e].sink \in ValidIds(r.nodes)
                       /\ Occurrences(r.nodes[r.edges[e].src].out, e) = 1
                       /\ Occurrences(r.nodes[r.edges[e].sink].in, e) = 1
    BY DEF EndsListed
  <2>1. e \in DOMAIN g.edges /\ e \in ValidIds(g.edges)
    BY <1>9 DEF ValidIds
  <2>2. /\ g.edges[e].src \in V /\ g.edges[e].sink \in V
        /\ Occurrences(g.nodes[g.edges[e].src].out, e) = 1
        /\ Occurrences(g.nodes[g.edges[e].sink].in, e) = 1
    BY <1>1, <2>1 DEF EndsListed
  <2>. QED
    BY <1>3, <1>5, <2>1, <2>2
<1>11. ListsOwned(r)
  <2>. SUFFICES ASSUME NEW m \in DOMAIN r.nodes
                PROVE  /\ \A e \in ToSet(r.nodes[m].in) \ {NoEdge} :
                            e \in ValidIds(r.edges) /\ r.edges[e].sink = m
                       /\ \A e \in ToSet(r.nodes[m].out) \ {NoEdge} :
                            e \in ValidIds(r.edges) /\ r.edges[e].src = m
    BY DEF ListsOwned
  <2>1. PICK n \in V : m = map[n] /\ r.nodes[m] = g.nodes[n]
    BY <1>3
  <2>2. /\ \A e \in ToSet(g.nodes[n].in) \ {NoEdge} : e \in ValidIds(g.edges) /\ g.edges[e].sink = n
        /\ \A e \in ToSet(g.nodes[n].out) \ {NoEdge} : e \in ValidIds(g.edges) /\ g.edges[e].src = n
    BY <1>1, <1>6 DEF ListsOwned
  <2>3. ValidIds(g.edges) \subseteq DOMAIN g.edges
    BY DEF ValidIds
  <2>. QED
    BY <1>5, <1>9, <2>1, <2>2, <2>3
<1>12. EdgesFull(r) => NoneInvalid(r)
  <2>1. EdgesFull(r) => EdgesFull(g)
    BY <1>4, <1>9 DEF EdgesFull
  <2>2. NoneInvalid(g) => NoneInvalid(r)
    BY <1>3, <1>6 DEF NoneInvalid
  <2>. QED
    BY <1>1, <2>1, <2>2
<1>. QED
  BY <1>3, <1>4, <1>8, <1>9, <1>10, <1>11, <1>12 DEF Sound, NodesFull, NodesMoved

(***************************************************************************)
(* remap_edges: the edges move, and the lists follow in their order.       *)
(***************************************************************************)
KeptIds(map) == [e \in {f \in DOMAIN map : map[f] # NoEdge} |-> map[e]]

LEMMA ListRemapped ==
  ASSUME NEW seq \in Seq(Int), NEW map, NEW edge, Renumbers(map, edge)
  PROVE  /\ update_valid_refs(seq, map) \in Seq(Int)
         /\ ToSet(update_valid_refs(seq, map)) = {map[e] : e \in ToSet(seq) \cap ValidIds(edge)}
         /\ \A e \in ValidIds(edge) :
              Occurrences(update_valid_refs(seq, map), map[e]) = Occurrences(seq, e)
<1>. DEFINE f == KeptIds(map)
            V == ValidIds(edge)
<1>1. NoEdge = NoNode
  BY DEF NoEdge, NoNode
<1>2. DOMAIN f = V /\ \A e \in V : f[e] = map[e]
  BY <1>1 DEF KeptIds, Renumbers, ValidIds
<1>3. update_valid_refs(seq, map) = Mapped(seq, f)
  BY DEF update_valid_refs, KeptIds
<1>4. OneToOne(f)
  BY <1>2 DEF OneToOne, Renumbers
<1>5. \A e \in V : f[e] \in Int
  <2>1. PICK k \in Nat : {map[i] : i \in V} = 0 .. k - 1
    BY DEF Renumbers, IdRange
  <2>. QED
    BY <1>2, <2>1
<1>. HIDE DEF f, V
<1>6. Mapped(seq, f) \in Seq(Int)
  BY <1>2, <1>5, MappedTyped
<1>7. ToSet(Mapped(seq, f)) = {f[e] : e \in ToSet(seq) \cap V}
  BY <1>2, MappedSet
<1>8. \A e \in V : Occurrences(Mapped(seq, f), f[e]) = Occurrences(seq, e)
  BY SMTT(30), <1>2, <1>4, MappedOccurrences
<1>. QED
  BY <1>2, <1>3, <1>6, <1>7, <1>8 DEF V

EdgesMoved(g, map, r) ==
  /\ Sound(r) /\ EdgesFull(r)
  /\ DOMAIN r.nodes = DOMAIN g.nodes /\ ValidIds(r.nodes) = ValidIds(g.nodes)
  /\ \A n \in DOMAIN g.nodes :
       r.nodes[n] = [g.nodes[n] EXCEPT !.in  = update_valid_refs(@, map),
                                       !.out = update_valid_refs(@, map)]
  /\ \A e \in ValidIds(g.edges) : map[e] \in DOMAIN r.edges /\ r.edges[map[e]] = g.edges[e]
  /\ \A d \in DOMAIN r.edges : \E e \in ValidIds(g.edges) : d = map[e]

LEMMA EdgesRemapped ==
  ASSUME NEW g, Sound(g), NEW map, Renumbers(map, g.edges), NEW r, r = remap_edges(g, map)
  PROVE  EdgesMoved(g, map, r)
<1>. DEFINE V     == ValidIds(g.edges)
            moved == clean_and_reorder_values(g.edges, map)
<1>1. Typed(g) /\ EndsListed(g) /\ ListsOwned(g)
  BY DEF Sound
<1>2. /\ r = [nodes |-> r.nodes, edges |-> r.edges]
      /\ r.edges = moved
      /\ r.nodes = [n \in DOMAIN g.nodes |->
                      [g.nodes[n] EXCEPT !.in  = update_valid_refs(@, map),
                                         !.out = update_valid_refs(@, map)]]
  BY DEF remap_edges
<1>3. /\ IdRange(DOMAIN r.edges)
      /\ \A e \in V : map[e] \in DOMAIN r.edges /\ r.edges[map[e]] = g.edges[e]
      /\ \A d \in DOMAIN r.edges : \E e \in V : d = map[e]
      /\ ValidIds(r.edges) = DOMAIN r.edges
      /\ r.edges = [j \in DOMAIN r.edges |-> r.edges[j]]
  <2>. DEFINE f == g.edges
              h == r.edges
  <2>1. h = clean_and_reorder_values(f, map) /\ Renumbers(map, f)
    BY <1>2
  <2>. HIDE DEF f, h
  <2>2. /\ IdRange(DOMAIN h)
        /\ \A i \in ValidIds(f) : map[i] \in DOMAIN h /\ h[map[i]] = f[i]
        /\ \A j \in DOMAIN h : \E i \in ValidIds(f) : j = map[i]
        /\ ValidIds(h) = DOMAIN h
        /\ h = [j \in DOMAIN h |-> h[j]]
    BY SMTT(30), <2>1, ReorderedValues
  <2>. QED
    BY <2>2 DEF f, h
<1>4. /\ DOMAIN r.nodes = DOMAIN g.nodes
      /\ r.nodes = [n \in DOMAIN r.nodes |-> r.nodes[n]]
      /\ \A n \in DOMAIN g.nodes :
           r.nodes[n] = [g.nodes[n] EXCEPT !.in  = update_valid_refs(@, map),
                                           !.out = update_valid_refs(@, map)]
  BY ZenonT(40), <1>2
<1>5. \A n \in DOMAIN g.nodes :
        /\ r.nodes[n].valid = g.nodes[n].valid
        /\ r.nodes[n].in = update_valid_refs(g.nodes[n].in, map)
        /\ r.nodes[n].out = update_valid_refs(g.nodes[n].out, map)
        /\ r.nodes[n] = [valid |-> r.nodes[n].valid, type |-> r.nodes[n].type,
                         in |-> r.nodes[n].in, out |-> r.nodes[n].out]
  BY ZenonT(40), <1>1, <1>4 DEF Typed, NodeShape
<1>6. \A n \in DOMAIN g.nodes : g.nodes[n].valid \in BOOLEAN /\ g.nodes[n].in \in Seq(Int)
                                                             /\ g.nodes[n].out \in Seq(Int)
  BY <1>1 DEF Typed, NodeShape
<1>0. \A seq \in Seq(Int) :
            /\ update_valid_refs(seq, map) \in Seq(Int)
            /\ ToSet(update_valid_refs(seq, map)) = {map[e] : e \in ToSet(seq) \cap V}
            /\ \A e \in V : Occurrences(update_valid_refs(seq, map), map[e]) = Occurrences(seq, e)
  <2>. DEFINE edge == g.edges
  <2>1. Renumbers(map, edge)
    OBVIOUS
  <2>. HIDE DEF edge
  <2>2. \A seq \in Seq(Int) :
          /\ update_valid_refs(seq, map) \in Seq(Int)
          /\ ToSet(update_valid_refs(seq, map)) = {map[e] : e \in ToSet(seq) \cap ValidIds(edge)}
          /\ \A e \in ValidIds(edge) :
               Occurrences(update_valid_refs(seq, map), map[e]) = Occurrences(seq, e)
    BY <2>1, ListRemapped
  <2>. QED
    BY <2>2 DEF edge
<1>. HIDE DEF V
<1>7. \A n \in DOMAIN g.nodes : NodeShape(r.nodes[n])
  BY <1>5, <1>6, <1>0 DEF NodeShape
<1>8. V \subseteq DOMAIN g.edges
  BY DEF ValidIds, V
<1>9. \A d \in DOMAIN r.edges : EdgeShape(r.edges[d])
  BY SMTT(30), <1>1, <1>3, <1>8 DEF Typed
<1>10. Typed(r)
  BY ZenonT(40), <1>1, <1>2, <1>3, <1>4, <1>7, <1>9 DEF Typed
<1>11. ValidIds(r.nodes) = ValidIds(g.nodes)
  BY <1>4, <1>5 DEF ValidIds
<1>12. ValidIds(g.nodes) \subseteq DOMAIN g.nodes
  BY DEF ValidIds
<1>13. EndsListed(r)
  <2>. SUFFICES ASSUME NEW d \in ValidIds(r.edges)
                PROVE  /\ r.edges[d].src \in ValidIds(r.nodes) /\ r.edges[d].sink \in ValidIds(r.nodes)
                       /\ Occurrences(r.nodes[r.edges[d].src].out, d) = 1
                       /\ Occurrences(r.nodes[r.edges[d].sink].in, d) = 1
    BY DEF EndsListed
  <2>1. PICK e \in V : d = map[e] /\ r.edges[d] = g.edges[e]
    BY <1>3
  <2>2. /\ g.edges[e].src \in ValidIds(g.nodes) /\ g.edges[e].sink \in ValidIds(g.nodes)
        /\ Occurrences(g.nodes[g.edges[e].src].out, e) = 1
        /\ Occurrences(g.nodes[g.edges[e].sink].in, e) = 1
    BY <1>1 DEF EndsListed, V
  <2>3. \A n \in DOMAIN g.nodes : /\ Occurrences(r.nodes[n].out, d) = Occurrences(g.nodes[n].out, e)
                                  /\ Occurrences(r.nodes[n].in, d) = Occurrences(g.nodes[n].in, e)
    <3>1. \A seq \in Seq(Int) : Occurrences(update_valid_refs(seq, map), d) = Occurrences(seq, e)
      BY <1>0, <2>1
    <3>. QED
      BY <1>5, <1>6, <3>1
  <2>. QED
    BY <1>11, <1>12, <2>1, <2>2, <2>3
<1>14. \A n \in DOMAIN g.nodes :
         /\ ToSet(r.nodes[n].in)  = {map[e] : e \in ToSet(g.nodes[n].in) \cap V}
         /\ ToSet(r.nodes[n].out) = {map[e] : e \in ToSet(g.nodes[n].out) \cap V}
  BY <1>5, <1>6, <1>0
<1>15. \A e \in V : map[e] # NoEdge
  BY <1>8 DEF Renumbers, NoEdge, NoNode, V
<1>16. ListsOwned(r)
  <2>. SUFFICES ASSUME NEW n \in DOMAIN g.nodes
                PROVE  /\ \A d \in ToSet(r.nodes[n].in) \ {NoEdge} :
                            d \in ValidIds(r.edges) /\ r.edges[d].sink = n
                       /\ \A d \in ToSet(r.nodes[n].out) \ {NoEdge} :
                            d \in ValidIds(r.edges) /\ r.edges[d].src = n
    BY <1>4 DEF ListsOwned
  <2>1. /\ \A e \in ToSet(g.nodes[n].in) \ {NoEdge} : g.edges[e].sink = n
        /\ \A e \in ToSet(g.nodes[n].out) \ {NoEdge} : g.edges[e].src = n
    BY <1>1 DEF ListsOwned
  <2>2. NoEdge \notin V
    <3>1. PICK k \in Nat : DOMAIN g.edges = 0 .. k - 1
      BY <1>1 DEF Typed, IdRange
    <3>. QED
      BY <1>8, <3>1 DEF NoEdge
  <2>. QED
    BY SMTT(30), <1>3, <1>14, <2>1, <2>2
<1>17. NoneInvalid(r)
  <2>1. \A n \in DOMAIN g.nodes : NoEdge \notin ToSet(r.nodes[n].in) /\ NoEdge \notin ToSet(r.nodes[n].out)
    BY SMTT(30), <1>14, <1>15
  <2>. QED
    BY <1>4, <2>1 DEF NoneInvalid
<1>. QED
  BY <1>3, <1>4, <1>10, <1>11, <1>13, <1>16, <1>17 DEF Sound, EdgesFull, V, EdgesMoved

(***************************************************************************)
(* Adding, removing and disabling.                                         *)
(***************************************************************************)
WithNode(g, type, new, r) ==
  /\ Sound(r) /\ r.edges = g.edges
  /\ new \in Nat /\ new \notin DOMAIN g.nodes /\ DOMAIN r.nodes = DOMAIN g.nodes \cup {new}
  /\ ValidIds(r.nodes) = ValidIds(g.nodes) \cup {new}
  /\ r.nodes[new] = [valid |-> TRUE, type |-> type, in |-> <<>>, out |-> <<>>]
  /\ \A n \in DOMAIN g.nodes : r.nodes[n] = g.nodes[n]

LEMMA NodeAdded ==
  ASSUME NEW g, Sound(g), NEW type, NEW r, r = AddNode(g, type),
         NEW new, new = Cardinality(DOMAIN g.nodes)
  PROVE  WithNode(g, type, new, r)
<1>. DEFINE x == [valid |-> TRUE, type |-> type, in |-> <<>>, out |-> <<>>]
<1>1. Typed(g) /\ EndsListed(g) /\ ListsOwned(g) /\ (EdgesFull(g) => NoneInvalid(g))
  BY DEF Sound
<1>2. r = [nodes |-> r.nodes, edges |-> r.edges] /\ r.edges = g.edges /\ r.nodes = PushBack(g.nodes, x)
  BY <1>1 DEF AddNode, Typed
<1>3. /\ IdRange(DOMAIN r.nodes) /\ new \in Nat /\ new \notin DOMAIN g.nodes
      /\ DOMAIN r.nodes = DOMAIN g.nodes \cup {new}
      /\ r.nodes = [i \in DOMAIN r.nodes |-> r.nodes[i]]
      /\ r.nodes[new] = x /\ \A i \in DOMAIN g.nodes : r.nodes[i] = g.nodes[i]
  <2>. DEFINE f == g.nodes
              h == r.nodes
  <2>1. h = PushBack(f, x)
    BY <1>2
  <2>3. IdRange(DOMAIN f) /\ new = Cardinality(DOMAIN f)
    BY <1>1 DEF Typed
  <2>. HIDE DEF f, h, x
  <2>2. Extended(f, new, x, h)
    BY <2>1, <2>3, PushedBack
  <2>. QED
    BY <2>2 DEF Extended, f, h
<1>4. NodeShape(x) /\ x.valid /\ x.in = <<>> /\ x.out = <<>>
  BY DEF NodeShape
<1>. HIDE DEF x
<1>5. Typed(r)
  BY <1>1, <1>2, <1>3, <1>4 DEF Typed
<1>6. ValidIds(r.nodes) = ValidIds(g.nodes) \cup {new}
  BY <1>3, <1>4 DEF ValidIds
<1>7. EndsListed(r)
  <2>1. ValidIds(g.nodes) \subseteq DOMAIN g.nodes
    BY DEF ValidIds
  <2>. QED
    BY <1>1, <1>2, <1>3, <1>6, <2>1 DEF EndsListed
<1>8. ToSet(<<>>) = {}
  BY DEF ToSet
<1>9. ListsOwned(r)
  BY <1>1, <1>2, <1>3, <1>4, <1>8 DEF ListsOwned
<1>10. EdgesFull(r) => NoneInvalid(r)
  BY <1>1, <1>2, <1>3, <1>4, <1>8 DEF EdgesFull, NoneInvalid
<1>. QED
  BY <1>2, <1>3, <1>5, <1>6, <1>7, <1>9, <1>10 DEF Sound, x, WithNode

WithEdge(g, type, src, sink, new, r) ==
  /\ Sound(r)
  /\ new \in Nat /\ new \notin DOMAIN g.edges /\ DOMAIN r.edges = DOMAIN g.edges \cup {new}
  /\ ValidIds(r.edges) = ValidIds(g.edges) \cup {new}
  /\ r.edges[new] = [valid |-> TRUE, type |-> type, src |-> src, sink |-> sink,
                     disabled |-> FALSE]
  /\ \A e \in DOMAIN g.edges : r.edges[e] = g.edges[e]
  /\ DOMAIN r.nodes = DOMAIN g.nodes /\ ValidIds(r.nodes) = ValidIds(g.nodes)
  /\ \A n \in DOMAIN g.nodes :
       /\ r.nodes[n].type = g.nodes[n].type
       /\ r.nodes[n].out = IF n = src  THEN Append(g.nodes[n].out, new) ELSE g.nodes[n].out
       /\ r.nodes[n].in  = IF n = sink THEN Append(g.nodes[n].in, new)  ELSE g.nodes[n].in

LEMMA EdgeAdded ==
  ASSUME NEW g, Sound(g), NEW type, NEW src \in ValidIds(g.nodes), NEW sink \in ValidIds(g.nodes),
         NEW r, r = AddEdge(g, type, src, sink), NEW new, new = Cardinality(DOMAIN g.edges)
  PROVE  WithEdge(g, type, src, sink, new, r)
<1>. DEFINE x == [valid |-> TRUE, type |-> type, src |-> src, sink |-> sink, disabled |-> FALSE]
<1>1. Typed(g) /\ EndsListed(g) /\ ListsOwned(g) /\ (EdgesFull(g) => NoneInvalid(g))
  BY DEF Sound
<1>2. /\ r = [nodes |-> r.nodes, edges |-> r.edges] /\ r.edges = PushBack(g.edges, x)
      /\ r.nodes = [n \in DOMAIN g.nodes |->
                      [g.nodes[n] EXCEPT !.out = IF n = src  THEN Append(@, new) ELSE @,
                                         !.in  = IF n = sink THEN Append(@, new) ELSE @]]
  BY DEF AddEdge
<1>3. /\ IdRange(DOMAIN r.edges) /\ new \in Nat /\ new \notin DOMAIN g.edges
      /\ DOMAIN r.edges = DOMAIN g.edges \cup {new}
      /\ r.edges = [i \in DOMAIN r.edges |-> r.edges[i]]
      /\ r.edges[new] = x /\ \A i \in DOMAIN g.edges : r.edges[i] = g.edges[i]
  <2>. DEFINE f == g.edges
              h == r.edges
  <2>1. h = PushBack(f, x)
    BY <1>2
  <2>3. IdRange(DOMAIN f) /\ new = Cardinality(DOMAIN f)
    BY <1>1 DEF Typed
  <2>. HIDE DEF f, h, x
  <2>2. Extended(f, new, x, h)
    BY <2>1, <2>3, PushedBack
  <2>. QED
    BY SMTT(30), <2>2 DEF Extended, f, h
<1>4. EdgeShape(x) /\ x.valid /\ x.src = src /\ x.sink = sink
  BY DEF EdgeShape
<1>. HIDE DEF x
<1>5. \A n \in DOMAIN g.nodes :
        /\ r.nodes[n] = [valid |-> r.nodes[n].valid, type |-> r.nodes[n].type,
                         in |-> r.nodes[n].in, out |-> r.nodes[n].out]
        /\ r.nodes[n].valid = g.nodes[n].valid /\ r.nodes[n].type = g.nodes[n].type
        /\ r.nodes[n].out = IF n = src  THEN Append(g.nodes[n].out, new) ELSE g.nodes[n].out
        /\ r.nodes[n].in  = IF n = sink THEN Append(g.nodes[n].in, new)  ELSE g.nodes[n].in
  <2>. SUFFICES ASSUME NEW n \in DOMAIN g.nodes
                PROVE  /\ r.nodes[n] = [valid |-> r.nodes[n].valid, type |-> r.nodes[n].type,
                                        in |-> r.nodes[n].in, out |-> r.nodes[n].out]
                       /\ r.nodes[n].valid = g.nodes[n].valid /\ r.nodes[n].type = g.nodes[n].type
                       /\ r.nodes[n].out = IF n = src  THEN Append(g.nodes[n].out, new)
                                                       ELSE g.nodes[n].out
                       /\ r.nodes[n].in  = IF n = sink THEN Append(g.nodes[n].in, new)
                                                       ELSE g.nodes[n].in
    OBVIOUS
  <2>. DEFINE x0 == g.nodes[n]
              y  == r.nodes[n]
              i  == IF n = sink THEN Append(x0.in, new)  ELSE x0.in
              o  == IF n = src  THEN Append(x0.out, new) ELSE x0.out
  <2>1. NodeShape(x0)
    BY <1>1 DEF Typed
  <2>2. y = [x0 EXCEPT !.out = IF n = src  THEN Append(@, new) ELSE @,
                       !.in  = IF n = sink THEN Append(@, new) ELSE @]
    BY <1>2
  <2>3. y = [x0 EXCEPT !.out = o, !.in = i]
    <3>1. x0 = [valid |-> x0.valid, type |-> x0.type, in |-> x0.in, out |-> x0.out]
      BY <2>1 DEF NodeShape
    <3>. QED
      BY <2>2, <3>1
  <2>. HIDE DEF x0, y, i, o
  <2>4. /\ y = [valid |-> y.valid, type |-> y.type, in |-> y.in, out |-> y.out]
        /\ y.valid = x0.valid /\ y.type = x0.type /\ y.in = i /\ y.out = o
    BY ZenonT(40), <2>1, <2>3 DEF NodeShape
  <2>. QED
    BY <2>4 DEF x0, y, i, o
<1>6. DOMAIN r.nodes = DOMAIN g.nodes /\ r.nodes = [n \in DOMAIN r.nodes |-> r.nodes[n]]
  BY ZenonT(40), <1>2
<1>7. \A n \in DOMAIN g.nodes : g.nodes[n].valid \in BOOLEAN /\ g.nodes[n].in \in Seq(Int)
                                                             /\ g.nodes[n].out \in Seq(Int)
  BY <1>1 DEF Typed, NodeShape
<1>8. new \in Int
  BY <1>3
<1>9. \A n \in DOMAIN g.nodes : NodeShape(r.nodes[n])
  <2>1. \A seq \in Seq(Int) : Append(seq, new) \in Seq(Int)
    BY <1>8
  <2>. QED
    BY ZenonT(40), <1>5, <1>7, <2>1 DEF NodeShape
<1>10. Typed(r)
  BY <1>1, <1>2, <1>3, <1>4, <1>6, <1>9 DEF Typed
<1>11. ValidIds(r.nodes) = ValidIds(g.nodes)
  BY <1>5, <1>6 DEF ValidIds
<1>12. ValidIds(r.edges) = ValidIds(g.edges) \cup {new}
  BY <1>3, <1>4 DEF ValidIds
<1>13. ValidIds(g.nodes) \subseteq DOMAIN g.nodes /\ ValidIds(g.edges) \subseteq DOMAIN g.edges
  BY DEF ValidIds
<1>14. new # NoEdge
  BY <1>3 DEF NoEdge
<1>15. \A n \in DOMAIN g.nodes : new \notin ToSet(g.nodes[n].in) /\ new \notin ToSet(g.nodes[n].out)
  BY <1>1, <1>3, <1>13, <1>14 DEF ListsOwned
<1>16. \A seq \in Seq(Int) :
         /\ ToSet(Append(seq, new)) = ToSet(seq) \cup {new}
         /\ \A e : Occurrences(Append(seq, new), e) =
                     IF e = new THEN Occurrences(seq, e) + 1 ELSE Occurrences(seq, e)
         /\ new \notin ToSet(seq) => Occurrences(seq, new) = 0
  <2>. SUFFICES ASSUME NEW seq \in Seq(Int)
                PROVE  /\ ToSet(Append(seq, new)) = ToSet(seq) \cup {new}
                       /\ \A e : Occurrences(Append(seq, new), e) =
                                   IF e = new THEN Occurrences(seq, e) + 1 ELSE Occurrences(seq, e)
                       /\ new \notin ToSet(seq) => Occurrences(seq, new) = 0
    OBVIOUS
  <2>1. ToSet(Append(seq, new)) = ToSet(seq) \cup {new}
    BY <1>8, ToSetAppend
  <2>2. \A e : Occurrences(Append(seq, new), e) =
                 IF e = new THEN Occurrences(seq, e) + 1 ELSE Occurrences(seq, e)
    BY <1>8, OccurrencesAppend
  <2>3. new \notin ToSet(seq) => Occurrences(seq, new) = 0
    BY OccurrencesCount
  <2>. QED
    BY <2>1, <2>2, <2>3
<1>17. EndsListed(r)
  <2>. SUFFICES ASSUME NEW e \in ValidIds(r.edges)
                PROVE  /\ r.edges[e].src \in ValidIds(r.nodes) /\ r.edges[e].sink \in ValidIds(r.nodes)
                       /\ Occurrences(r.nodes[r.edges[e].src].out, e) = 1
                       /\ Occurrences(r.nodes[r.edges[e].sink].in, e) = 1
    BY DEF EndsListed
  <2>1. CASE e = new
    <3>1. r.edges[e].src = src /\ r.edges[e].sink = sink
      BY <1>3, <1>4, <2>1
    <3>2. /\ r.nodes[src].out = Append(g.nodes[src].out, new)
          /\ r.nodes[sink].in = Append(g.nodes[sink].in, new)
      BY <1>5, <1>13
    <3>3. /\ Occurrences(g.nodes[src].out, new) = 0
          /\ Occurrences(g.nodes[sink].in, new) = 0
      BY <1>7, <1>13, <1>15, <1>16
    <3>4. /\ Occurrences(r.nodes[src].out, new) = 1
          /\ Occurrences(r.nodes[sink].in, new) = 1
      BY <1>7, <1>13, <1>16, <3>2, <3>3
    <3>. QED
      BY <1>11, <2>1, <3>1, <3>4
  <2>2. CASE e # new
    <3>1. e \in ValidIds(g.edges) /\ r.edges[e] = g.edges[e]
      BY <1>3, <1>12, <1>13, <2>2
    <3>2. /\ g.edges[e].src \in ValidIds(g.nodes) /\ g.edges[e].sink \in ValidIds(g.nodes)
          /\ Occurrences(g.nodes[g.edges[e].src].out, e) = 1
          /\ Occurrences(g.nodes[g.edges[e].sink].in, e) = 1
      BY <1>1, <3>1 DEF EndsListed
    <3>3. \A n \in DOMAIN g.nodes : /\ Occurrences(r.nodes[n].out, e) = Occurrences(g.nodes[n].out, e)
                                    /\ Occurrences(r.nodes[n].in, e) = Occurrences(g.nodes[n].in, e)
      <4>1. \A seq \in Seq(Int) : Occurrences(Append(seq, new), e) = Occurrences(seq, e)
        BY <1>16, <2>2
      <4>. QED
        BY <1>5, <1>7, <4>1
    <3>. QED
      BY <1>11, <1>13, <3>1, <3>2, <3>3
  <2>. QED
    BY <2>1, <2>2
<1>18. \A n \in DOMAIN g.nodes :
         /\ ToSet(r.nodes[n].out) = IF n = src  THEN ToSet(g.nodes[n].out) \cup {new}
                                                ELSE ToSet(g.nodes[n].out)
         /\ ToSet(r.nodes[n].in)  = IF n = sink THEN ToSet(g.nodes[n].in) \cup {new}
                                                ELSE ToSet(g.nodes[n].in)
  BY <1>5, <1>7, <1>16
<1>19. ListsOwned(r)
  <2>. SUFFICES ASSUME NEW n \in DOMAIN g.nodes
                PROVE  /\ \A e \in ToSet(r.nodes[n].in) \ {NoEdge} :
                            e \in ValidIds(r.edges) /\ r.edges[e].sink = n
                       /\ \A e \in ToSet(r.nodes[n].out) \ {NoEdge} :
                            e \in ValidIds(r.edges) /\ r.edges[e].src = n
    BY <1>6 DEF ListsOwned
  <2>1. /\ \A e \in ToSet(g.nodes[n].in) \ {NoEdge}  : e \in ValidIds(g.edges) /\ g.edges[e].sink = n
        /\ \A e \in ToSet(g.nodes[n].out) \ {NoEdge} : e \in ValidIds(g.edges) /\ g.edges[e].src = n
    BY <1>1 DEF ListsOwned
  <2>2. r.edges[new].src = src /\ r.edges[new].sink = sink
    BY <1>3, <1>4
  <2>. QED
    <3>1. /\ ToSet(r.nodes[n].out) \ {NoEdge} \subseteq (ToSet(g.nodes[n].out) \ {NoEdge})
                                                     \cup (IF n = src THEN {new} ELSE {})
          /\ ToSet(r.nodes[n].in) \ {NoEdge} \subseteq (ToSet(g.nodes[n].in) \ {NoEdge})
                                                     \cup (IF n = sink THEN {new} ELSE {})
      BY <1>18
    <3>2. \A e \in ValidIds(g.edges) : e \in ValidIds(r.edges) /\ r.edges[e] = g.edges[e]
      BY <1>3, <1>12, <1>13
    <3>3. new \in ValidIds(r.edges)
      BY <1>12
    <3>. QED
      BY <2>1, <2>2, <3>1, <3>2, <3>3
<1>20. EdgesFull(r) => NoneInvalid(r)
  <2>1. EdgesFull(r) => EdgesFull(g)
    BY <1>3, <1>12, <1>13 DEF EdgesFull
  <2>2. NoneInvalid(g) => NoneInvalid(r)
    <3>1. \A n \in DOMAIN g.nodes :
            /\ NoEdge \notin ToSet(g.nodes[n].in) => NoEdge \notin ToSet(r.nodes[n].in)
            /\ NoEdge \notin ToSet(g.nodes[n].out) => NoEdge \notin ToSet(r.nodes[n].out)
      <4>. SUFFICES ASSUME NEW n \in DOMAIN g.nodes
                    PROVE  /\ ToSet(r.nodes[n].in) \subseteq ToSet(g.nodes[n].in) \cup {new}
                           /\ ToSet(r.nodes[n].out) \subseteq ToSet(g.nodes[n].out) \cup {new}
        BY <1>14
      <4>. QED
        BY <1>18
    <3>. QED
      BY <1>6, <3>1 DEF NoneInvalid
  <2>. QED
    BY <1>1, <2>1, <2>2
<1>. QED
  BY <1>3, <1>5, <1>6, <1>10, <1>11, <1>12, <1>17, <1>19, <1>20 DEF Sound, x, WithEdge

WithFlag(g, e, disable, r) ==
  /\ Sound(r) /\ DOMAIN r.edges = DOMAIN g.edges /\ ValidIds(r.edges) = ValidIds(g.edges)
  /\ \A d \in DOMAIN g.edges :
       /\ r.edges[d].type = g.edges[d].type
       /\ r.edges[d].src = g.edges[d].src /\ r.edges[d].sink = g.edges[d].sink
       /\ r.edges[d].disabled = IF d = e THEN disable ELSE g.edges[d].disabled

LEMMA EdgeDisabled ==
  ASSUME NEW g, Sound(g), NEW e \in DOMAIN g.edges, NEW disable \in BOOLEAN, NEW r,
         r = [nodes |-> g.nodes, edges |-> [g.edges EXCEPT ![e].disabled = disable]]
  PROVE  WithFlag(g, e, disable, r)
<1>1. Typed(g) /\ EndsListed(g) /\ ListsOwned(g) /\ (EdgesFull(g) => NoneInvalid(g))
  BY DEF Sound
<1>2. /\ r.nodes = g.nodes /\ r = [nodes |-> r.nodes, edges |-> r.edges]
      /\ DOMAIN r.edges = DOMAIN g.edges
      /\ r.edges = [d \in DOMAIN g.edges |->
                      IF d = e THEN [g.edges[d] EXCEPT !.disabled = disable] ELSE g.edges[d]]
  BY <1>1 DEF Typed
<1>3. r.edges = [d \in DOMAIN r.edges |-> r.edges[d]]
  BY <1>2
<1>4. \A d \in DOMAIN g.edges :
        /\ EdgeShape(r.edges[d])
        /\ r.edges[d].valid = g.edges[d].valid /\ r.edges[d].type = g.edges[d].type
        /\ r.edges[d].src = g.edges[d].src /\ r.edges[d].sink = g.edges[d].sink
        /\ r.edges[d].disabled = IF d = e THEN disable ELSE g.edges[d].disabled
  BY <1>1, <1>2 DEF Typed, EdgeShape
<1>5. Typed(r)
  BY <1>1, <1>2, <1>3, <1>4 DEF Typed
<1>6. ValidIds(r.edges) = ValidIds(g.edges) /\ ValidIds(g.edges) \subseteq DOMAIN g.edges
  BY SMTT(30), <1>2, <1>4 DEF ValidIds
<1>7. EndsListed(r)
  BY <1>1, <1>2, <1>4, <1>6 DEF EndsListed
<1>8. ListsOwned(r)
  BY <1>1, <1>2, <1>4, <1>6 DEF ListsOwned
<1>9. EdgesFull(r) => NoneInvalid(r)
  BY <1>1, <1>2, <1>6 DEF EdgesFull, NoneInvalid
<1>. QED
  BY <1>2, <1>4, <1>5, <1>6, <1>7, <1>8, <1>9 DEF Sound, WithFlag

LEMMA InvalidatedOccurrences ==
  ASSUME NEW seq \in Seq(Int), NEW removed
  PROVE  /\ Invalidated(seq, removed) \in Seq(Int)
         /\ ToSet(Invalidated(seq, removed)) \subseteq (ToSet(seq) \ removed) \cup {NoEdge}
         /\ \A e : e \notin removed /\ e # NoEdge =>
              Occurrences(Invalidated(seq, removed), e) = Occurrences(seq, e)
<1>. DEFINE inv == Invalidated(seq, removed)
<1>1. DOMAIN inv = DOMAIN seq /\ \A i \in DOMAIN seq : inv[i] = IF seq[i] \in removed THEN NoEdge ELSE seq[i]
  BY DEF Invalidated
<1>2. inv \in Seq(Int)
  <2>1. \A i \in DOMAIN seq : seq[i] \in Int
    OBVIOUS
  <2>2. NoEdge \in Int
    BY DEF NoEdge
  <2>3. \A i \in 1 .. Len(seq) : (IF seq[i] \in removed THEN NoEdge ELSE seq[i]) \in Int
    BY <2>1, <2>2
  <2>4. inv = [i \in 1 .. Len(seq) |-> IF seq[i] \in removed THEN NoEdge ELSE seq[i]]
    BY DEF Invalidated
  <2>5. Len(seq) \in Nat
    OBVIOUS
  <2>. QED
    BY <2>3, <2>4, <2>5
<1>. HIDE DEF inv
<1>3. ToSet(inv) \subseteq (ToSet(seq) \ removed) \cup {NoEdge}
  BY <1>1 DEF ToSet
<1>4. ASSUME NEW e, e \notin removed, e # NoEdge PROVE Occurrences(inv, e) = Occurrences(seq, e)
  <2>1. {i \in DOMAIN inv : inv[i] = e} = {i \in DOMAIN seq : seq[i] = e}
    BY SMTT(30), <1>1, <1>4
  <2>. QED
    BY SMTT(30), <2>1 DEF Occurrences
<1>. QED
  BY <1>2, <1>3, <1>4 DEF inv

WithoutEdges(g, removed, r) ==
  /\ Sound(r)
  /\ DOMAIN r.nodes = DOMAIN g.nodes /\ ValidIds(r.nodes) = ValidIds(g.nodes)
  /\ DOMAIN r.edges = DOMAIN g.edges /\ ValidIds(r.edges) = ValidIds(g.edges) \ removed
  /\ EdgesFull(r) => removed = {}
  /\ \A n \in DOMAIN g.nodes :
       /\ r.nodes[n] = [g.nodes[n] EXCEPT !.in  = Invalidated(@, removed),
                                          !.out = Invalidated(@, removed)]
       /\ NodeShape(g.nodes[n])
  /\ \A e \in DOMAIN g.edges :
       /\ r.edges[e].type = g.edges[e].type
       /\ r.edges[e].src = g.edges[e].src /\ r.edges[e].sink = g.edges[e].sink
       /\ r.edges[e].disabled = g.edges[e].disabled

LEMMA EdgesRemoved ==
  ASSUME NEW g, Sound(g), NEW removed, removed \subseteq ValidIds(g.edges), NEW r,
         r = RemoveEdges(g, removed)
  PROVE  WithoutEdges(g, removed, r)
<1>1. Typed(g) /\ EndsListed(g) /\ ListsOwned(g) /\ (EdgesFull(g) => NoneInvalid(g))
  BY DEF Sound
<1>2. /\ r = [nodes |-> r.nodes, edges |-> r.edges]
      /\ r.nodes = [n \in DOMAIN g.nodes |->
                      [g.nodes[n] EXCEPT !.in  = Invalidated(@, removed),
                                         !.out = Invalidated(@, removed)]]
      /\ r.edges = [e \in DOMAIN g.edges |->
                      [g.edges[e] EXCEPT !.valid = @ /\ e \notin removed]]
  BY ZenonT(40) DEF RemoveEdges
<1>3. /\ DOMAIN r.nodes = DOMAIN g.nodes /\ r.nodes = [n \in DOMAIN r.nodes |-> r.nodes[n]]
      /\ DOMAIN r.edges = DOMAIN g.edges /\ r.edges = [e \in DOMAIN r.edges |-> r.edges[e]]
  BY <1>2
<1>4. \A n \in DOMAIN g.nodes :
        /\ r.nodes[n] = [valid |-> r.nodes[n].valid, type |-> r.nodes[n].type,
                         in |-> r.nodes[n].in, out |-> r.nodes[n].out]
        /\ r.nodes[n].valid = g.nodes[n].valid
        /\ r.nodes[n].out = Invalidated(g.nodes[n].out, removed)
        /\ r.nodes[n].in  = Invalidated(g.nodes[n].in, removed)
  <2>. SUFFICES ASSUME NEW n \in DOMAIN g.nodes
                PROVE  /\ r.nodes[n] = [valid |-> r.nodes[n].valid, type |-> r.nodes[n].type,
                                        in |-> r.nodes[n].in, out |-> r.nodes[n].out]
                       /\ r.nodes[n].valid = g.nodes[n].valid
                       /\ r.nodes[n].out = Invalidated(g.nodes[n].out, removed)
                       /\ r.nodes[n].in  = Invalidated(g.nodes[n].in, removed)
    OBVIOUS
  <2>. DEFINE x == g.nodes[n]
              y == r.nodes[n]
              i == Invalidated(x.in, removed)
              o == Invalidated(x.out, removed)
  <2>1. NodeShape(x)
    BY <1>1 DEF Typed
  <2>2. y = [x EXCEPT !.in = i, !.out = o]
    BY <1>2
  <2>. HIDE DEF x, y, i, o
  <2>3. /\ y = [valid |-> y.valid, type |-> y.type, in |-> y.in, out |-> y.out]
        /\ y.valid = x.valid /\ y.type = x.type /\ y.in = i /\ y.out = o
    BY <2>1, <2>2 DEF NodeShape
  <2>. QED
    BY <2>3 DEF x, y, i, o
<1>5. \A n \in DOMAIN g.nodes : g.nodes[n].valid \in BOOLEAN /\ g.nodes[n].in \in Seq(Int)
                                                             /\ g.nodes[n].out \in Seq(Int)
  BY <1>1 DEF Typed, NodeShape
<1>6. \A e \in DOMAIN g.edges :
        /\ EdgeShape(r.edges[e])
        /\ r.edges[e].valid <=> g.edges[e].valid /\ e \notin removed
        /\ r.edges[e].type = g.edges[e].type
        /\ r.edges[e].src = g.edges[e].src /\ r.edges[e].sink = g.edges[e].sink
        /\ r.edges[e].disabled = g.edges[e].disabled
  <2>. SUFFICES ASSUME NEW e \in DOMAIN g.edges
                PROVE  /\ EdgeShape(r.edges[e])
                       /\ r.edges[e].valid <=> g.edges[e].valid /\ e \notin removed
                       /\ r.edges[e].type = g.edges[e].type
                       /\ r.edges[e].src = g.edges[e].src /\ r.edges[e].sink = g.edges[e].sink
                       /\ r.edges[e].disabled = g.edges[e].disabled
    OBVIOUS
  <2>. DEFINE y == g.edges[e]
              v == y.valid /\ e \notin removed
  <2>1. EdgeShape(y)
    BY <1>1 DEF Typed
  <2>2. r.edges[e] = [y EXCEPT !.valid = v]
    BY <1>2
  <2>3. v \in BOOLEAN
    BY <2>1 DEF EdgeShape
  <2>. HIDE DEF y, v
  <2>4. r.edges[e] = [valid |-> v, type |-> y.type, src |-> y.src, sink |-> y.sink,
                      disabled |-> y.disabled]
    BY <2>1, <2>2 DEF EdgeShape
  <2>5. /\ r.edges[e].valid = v /\ r.edges[e].type = y.type
        /\ r.edges[e].src = y.src /\ r.edges[e].sink = y.sink /\ r.edges[e].disabled = y.disabled
    BY <2>4
  <2>6. EdgeShape(r.edges[e])
    BY <2>1, <2>3, <2>4, <2>5 DEF EdgeShape
  <2>. QED
    BY <2>5, <2>6 DEF y, v
<1>7. \A n \in DOMAIN g.nodes : NodeShape(r.nodes[n])
  <2>. SUFFICES ASSUME NEW n \in DOMAIN g.nodes PROVE NodeShape(r.nodes[n])
    OBVIOUS
  <2>1. PICK x, y : x = g.nodes[n] /\ y = r.nodes[n]
    OBVIOUS
  <2>2. x.valid \in BOOLEAN /\ x.in \in Seq(Int) /\ x.out \in Seq(Int)
    BY <1>5, <2>1
  <2>3. /\ y = [valid |-> y.valid, type |-> y.type, in |-> y.in, out |-> y.out]
        /\ y.valid = x.valid
        /\ y.out = Invalidated(x.out, removed) /\ y.in = Invalidated(x.in, removed)
    BY <1>4, <2>1
  <2>4. Invalidated(x.out, removed) \in Seq(Int) /\ Invalidated(x.in, removed) \in Seq(Int)
    BY <2>2, InvalidatedOccurrences
  <2>5. NodeShape(y)
    BY SMTT(30), <2>2, <2>3, <2>4 DEF NodeShape
  <2>. QED
    BY <2>1, <2>5
<1>8. Typed(r)
  BY <1>1, <1>2, <1>3, <1>6, <1>7 DEF Typed
<1>9. ValidIds(r.nodes) = ValidIds(g.nodes) /\ ValidIds(g.nodes) \subseteq DOMAIN g.nodes
  BY <1>3, <1>4 DEF ValidIds
<1>10. ValidIds(r.edges) = ValidIds(g.edges) \ removed /\ ValidIds(g.edges) \subseteq DOMAIN g.edges
  BY <1>3, <1>6 DEF ValidIds
<1>11. NoEdge \notin DOMAIN g.edges
  BY <1>1 DEF Typed, IdRange, NoEdge
<1>12. EndsListed(r)
  <2>. SUFFICES ASSUME NEW e \in ValidIds(r.edges)
                PROVE  /\ r.edges[e].src \in ValidIds(r.nodes) /\ r.edges[e].sink \in ValidIds(r.nodes)
                       /\ Occurrences(r.nodes[r.edges[e].src].out, e) = 1
                       /\ Occurrences(r.nodes[r.edges[e].sink].in, e) = 1
    BY DEF EndsListed
  <2>1. e \in ValidIds(g.edges) /\ e \notin removed /\ e # NoEdge /\ e \in DOMAIN g.edges
    BY <1>10, <1>11
  <2>2. /\ g.edges[e].src \in ValidIds(g.nodes) /\ g.edges[e].sink \in ValidIds(g.nodes)
        /\ Occurrences(g.nodes[g.edges[e].src].out, e) = 1
        /\ Occurrences(g.nodes[g.edges[e].sink].in, e) = 1
    BY <1>1, <2>1 DEF EndsListed
  <2>3. \A seq \in Seq(Int) : Occurrences(Invalidated(seq, removed), e) = Occurrences(seq, e)
    BY <2>1, InvalidatedOccurrences
  <2>. QED
    <3>1. /\ r.edges[e].src = g.edges[e].src /\ r.edges[e].sink = g.edges[e].sink
          /\ g.edges[e].src \in DOMAIN g.nodes /\ g.edges[e].sink \in DOMAIN g.nodes
      BY <1>6, <1>9, <2>1, <2>2
    <3>2. \A n \in DOMAIN g.nodes : /\ Occurrences(r.nodes[n].out, e) = Occurrences(g.nodes[n].out, e)
                                    /\ Occurrences(r.nodes[n].in, e) = Occurrences(g.nodes[n].in, e)
      BY <1>4, <1>5, <2>3
    <3>. QED
      BY <1>9, <2>2, <3>1, <3>2
<1>13. \A n \in DOMAIN g.nodes :
         /\ ToSet(r.nodes[n].out) \subseteq (ToSet(g.nodes[n].out) \ removed) \cup {NoEdge}
         /\ ToSet(r.nodes[n].in)  \subseteq (ToSet(g.nodes[n].in) \ removed) \cup {NoEdge}
  <2>1. \A seq \in Seq(Int) :
          ToSet(Invalidated(seq, removed)) \subseteq (ToSet(seq) \ removed) \cup {NoEdge}
    BY InvalidatedOccurrences
  <2>. HIDE DEF ToSet
  <2>. QED
    BY <1>4, <1>5, <2>1
<1>14. ListsOwned(r)
  <2>. SUFFICES ASSUME NEW n \in DOMAIN g.nodes
                PROVE  /\ \A e \in ToSet(r.nodes[n].in) \ {NoEdge} :
                            e \in ValidIds(r.edges) /\ r.edges[e].sink = n
                       /\ \A e \in ToSet(r.nodes[n].out) \ {NoEdge} :
                            e \in ValidIds(r.edges) /\ r.edges[e].src = n
    BY <1>3 DEF ListsOwned
  <2>1. /\ \A e \in ToSet(g.nodes[n].in) \ {NoEdge}  : e \in ValidIds(g.edges) /\ g.edges[e].sink = n
        /\ \A e \in ToSet(g.nodes[n].out) \ {NoEdge} : e \in ValidIds(g.edges) /\ g.edges[e].src = n
    BY <1>1 DEF ListsOwned
  <2>. QED
    BY <1>6, <1>10, <1>13, <2>1
<1>15. EdgesFull(r) => removed = {}
  BY <1>3, <1>10 DEF EdgesFull
<1>16. EdgesFull(r) => NoneInvalid(r)
  <2>. SUFFICES ASSUME EdgesFull(r) PROVE NoneInvalid(r)
    OBVIOUS
  <2>1. removed = {} /\ NoneInvalid(g)
    BY <1>1, <1>3, <1>10, <1>15 DEF EdgesFull
  <2>2. \A seq : DOMAIN Invalidated(seq, removed) = DOMAIN seq
                 /\ \A i \in DOMAIN seq : Invalidated(seq, removed)[i] = seq[i]
    BY <2>1 DEF Invalidated
  <2>3. \A seq : ToSet(Invalidated(seq, removed)) = ToSet(seq)
    BY <2>2 DEF ToSet
  <2>4. \A n \in DOMAIN g.nodes : /\ ToSet(r.nodes[n].in) = ToSet(g.nodes[n].in)
                                  /\ ToSet(r.nodes[n].out) = ToSet(g.nodes[n].out)
    BY ZenonT(40), <1>4, <2>3
  <2>. QED
    BY <1>3, <2>1, <2>4 DEF NoneInvalid
<1>17. \A n \in DOMAIN g.nodes :
         /\ r.nodes[n] = [g.nodes[n] EXCEPT !.in  = Invalidated(@, removed),
                                            !.out = Invalidated(@, removed)]
         /\ NodeShape(g.nodes[n])
  BY <1>1, <1>2 DEF Typed
<1>. QED
  BY <1>3, <1>6, <1>8, <1>9, <1>10, <1>12, <1>14, <1>15, <1>16, <1>17 DEF Sound, WithoutEdges

\* Invalidating a node no edge touches any more.
WithoutNode(g, n, r) ==
  /\ Sound(r) /\ DOMAIN r.nodes = DOMAIN g.nodes
  /\ ValidIds(r.nodes) = ValidIds(g.nodes) \ {n}
  /\ \A m \in DOMAIN g.nodes : /\ r.nodes[m].type = g.nodes[m].type
                               /\ r.nodes[m].in = g.nodes[m].in
                               /\ r.nodes[m].out = g.nodes[m].out

LEMMA NodeInvalidated ==
  ASSUME NEW g, Sound(g), NEW n \in DOMAIN g.nodes,
         \A e \in ValidIds(g.edges) : g.edges[e].src # n /\ g.edges[e].sink # n,
         NEW r, r = [nodes |-> [g.nodes EXCEPT ![n].valid = FALSE], edges |-> g.edges]
  PROVE  WithoutNode(g, n, r)
<1>1. Typed(g) /\ EndsListed(g) /\ ListsOwned(g) /\ (EdgesFull(g) => NoneInvalid(g))
  BY DEF Sound
<1>2. /\ r.edges = g.edges /\ r = [nodes |-> r.nodes, edges |-> r.edges]
      /\ DOMAIN r.nodes = DOMAIN g.nodes
      /\ r.nodes = [m \in DOMAIN g.nodes |->
                      IF m = n THEN [g.nodes[m] EXCEPT !.valid = FALSE] ELSE g.nodes[m]]
  BY <1>1 DEF Typed
<1>3. /\ r.edges = g.edges /\ r = [nodes |-> r.nodes, edges |-> r.edges]
      /\ DOMAIN r.nodes = DOMAIN g.nodes
      /\ r.nodes = [m \in DOMAIN r.nodes |-> r.nodes[m]]
  BY <1>2
<1>4. \A m \in DOMAIN g.nodes :
        /\ NodeShape(r.nodes[m])
        /\ r.nodes[m].valid <=> g.nodes[m].valid /\ m # n
        /\ r.nodes[m].type = g.nodes[m].type
        /\ r.nodes[m].in = g.nodes[m].in /\ r.nodes[m].out = g.nodes[m].out
  <2>. SUFFICES ASSUME NEW m \in DOMAIN g.nodes
                PROVE  /\ NodeShape(r.nodes[m])
                       /\ r.nodes[m].valid <=> g.nodes[m].valid /\ m # n
                       /\ r.nodes[m].type = g.nodes[m].type
                       /\ r.nodes[m].in = g.nodes[m].in /\ r.nodes[m].out = g.nodes[m].out
    OBVIOUS
  <2>1. NodeShape(g.nodes[m])
    BY <1>1 DEF Typed
  <2>2. CASE m # n
    BY <1>2, <2>1, <2>2
  <2>3. CASE m = n
    <3>. DEFINE y == g.nodes[m]
    <3>1. NodeShape(y) /\ r.nodes[m] = [y EXCEPT !.valid = FALSE]
      BY <1>2, <2>1, <2>3
    <3>. HIDE DEF y
    <3>2. r.nodes[m] = [valid |-> FALSE, type |-> y.type, in |-> y.in, out |-> y.out]
      BY <3>1 DEF NodeShape
    <3>3. NodeShape(r.nodes[m]) /\ ~r.nodes[m].valid
      BY ZenonT(40), <3>1, <3>2 DEF NodeShape
    <3>. QED
      BY <2>3, <3>2, <3>3 DEF y
  <2>. QED
    BY <2>2, <2>3
<1>5. Typed(r)
  <2>1. IdRange(DOMAIN r.nodes) /\ IdRange(DOMAIN r.edges)
    BY <1>1, <1>3 DEF Typed
  <2>2. /\ r.edges = [e \in DOMAIN r.edges |-> r.edges[e]]
        /\ \A e \in DOMAIN r.edges : EdgeShape(r.edges[e])
    BY <1>1, <1>3 DEF Typed
  <2>3. \A m \in DOMAIN r.nodes : NodeShape(r.nodes[m])
    BY <1>3, <1>4
  <2>. QED
    BY <1>3, <2>1, <2>2, <2>3 DEF Typed
<1>6. ValidIds(r.nodes) = ValidIds(g.nodes) \ {n} /\ ValidIds(g.nodes) \subseteq DOMAIN g.nodes
  BY <1>3, <1>4 DEF ValidIds
<1>7. EndsListed(r)
  <2>. SUFFICES ASSUME NEW e \in ValidIds(g.edges)
                PROVE  /\ g.edges[e].src \in ValidIds(r.nodes) /\ g.edges[e].sink \in ValidIds(r.nodes)
                       /\ Occurrences(r.nodes[g.edges[e].src].out, e) = 1
                       /\ Occurrences(r.nodes[g.edges[e].sink].in, e) = 1
    BY <1>3 DEF EndsListed
  <2>1. /\ g.edges[e].src \in ValidIds(g.nodes) /\ g.edges[e].sink \in ValidIds(g.nodes)
        /\ Occurrences(g.nodes[g.edges[e].src].out, e) = 1
        /\ Occurrences(g.nodes[g.edges[e].sink].in, e) = 1
    BY <1>1 DEF EndsListed
  <2>. QED
    BY <1>4, <1>6, <2>1
<1>8. ListsOwned(r)
  BY <1>1, <1>3, <1>4 DEF ListsOwned
<1>9. EdgesFull(r) => NoneInvalid(r)
  BY <1>1, <1>3, <1>4 DEF EdgesFull, NoneInvalid
<1>. QED
  BY <1>3, <1>4, <1>5, <1>6, <1>7, <1>8, <1>9 DEF Sound, WithoutNode

(***************************************************************************)
(* Levelizing.  What a graph without holes gives the walk.                 *)
(***************************************************************************)
Linked(g) ==
  /\ IdRange(DOMAIN g.nodes) /\ IdRange(DOMAIN g.edges)
  /\ \A n \in DOMAIN g.nodes :
       /\ g.nodes[n].in \in Seq(DOMAIN g.edges) /\ g.nodes[n].out \in Seq(DOMAIN g.edges)
       /\ ToSet(g.nodes[n].in)  = {e \in DOMAIN g.edges : g.edges[e].sink = n}
       /\ ToSet(g.nodes[n].out) = {e \in DOMAIN g.edges : g.edges[e].src = n}
       /\ \A e \in ToSet(g.nodes[n].in)  : Occurrences(g.nodes[n].in, e) = 1
       /\ \A e \in ToSet(g.nodes[n].out) : Occurrences(g.nodes[n].out, e) = 1
  /\ \A e \in DOMAIN g.edges :
       g.edges[e].src \in DOMAIN g.nodes /\ g.edges[e].sink \in DOMAIN g.nodes

LEMMA SequenceWithin ==
  ASSUME NEW S, NEW T, NEW seq \in Seq(S), ToSet(seq) \subseteq T
  PROVE  seq \in Seq(T)
<1>1. \A i \in 1 .. Len(seq) : seq[i] \in T
  BY DEF ToSet
<1>2. seq = [i \in 1 .. Len(seq) |-> seq[i]] /\ Len(seq) \in Nat
  OBVIOUS
<1>. QED
  BY <1>1, <1>2

LEMMA WholeIsLinked ==
  ASSUME NEW g, Whole(g)
  PROVE  Linked(g)
<1>1. Typed(g) /\ EndsListed(g) /\ ListsOwned(g) /\ NoneInvalid(g)
      /\ ValidIds(g.nodes) = DOMAIN g.nodes /\ ValidIds(g.edges) = DOMAIN g.edges
  BY DEF Whole, Sound, NodesFull, EdgesFull
<1>2. \A n \in DOMAIN g.nodes : g.nodes[n].in \in Seq(Int) /\ g.nodes[n].out \in Seq(Int)
  BY <1>1 DEF Typed, NodeShape
<1>3. \A e \in DOMAIN g.edges :
        /\ g.edges[e].src \in DOMAIN g.nodes /\ g.edges[e].sink \in DOMAIN g.nodes
        /\ Occurrences(g.nodes[g.edges[e].src].out, e) = 1
        /\ Occurrences(g.nodes[g.edges[e].sink].in, e) = 1
  BY <1>1 DEF EndsListed
<1>4. ASSUME NEW n \in DOMAIN g.nodes
      PROVE  /\ \A e \in ToSet(g.nodes[n].in)  : e \in DOMAIN g.edges /\ g.edges[e].sink = n
             /\ \A e \in ToSet(g.nodes[n].out) : e \in DOMAIN g.edges /\ g.edges[e].src = n
  BY <1>1 DEF ListsOwned, NoneInvalid
<1>5. \A n \in DOMAIN g.nodes, e \in DOMAIN g.edges :
        /\ g.edges[e].sink = n => e \in ToSet(g.nodes[n].in)
        /\ g.edges[e].src = n => e \in ToSet(g.nodes[n].out)
  <2>1. \A seq \in Seq(Int) : \A e : Occurrences(seq, e) = 1 => e \in ToSet(seq)
    <3>. SUFFICES ASSUME NEW seq \in Seq(Int), NEW e, Occurrences(seq, e) = 1 PROVE e \in ToSet(seq)
      OBVIOUS
    <3>1. Occurrences(seq, e) = 0 <=> e \notin ToSet(seq)
      BY OccurrencesCount
    <3>. QED
      BY <3>1
  <2>. QED
    BY <1>2, <1>3, <2>1
<1>6. ASSUME NEW n \in DOMAIN g.nodes
      PROVE  /\ g.nodes[n].in \in Seq(DOMAIN g.edges) /\ g.nodes[n].out \in Seq(DOMAIN g.edges)
             /\ ToSet(g.nodes[n].in)  = {e \in DOMAIN g.edges : g.edges[e].sink = n}
             /\ ToSet(g.nodes[n].out) = {e \in DOMAIN g.edges : g.edges[e].src = n}
             /\ \A e \in ToSet(g.nodes[n].in)  : Occurrences(g.nodes[n].in, e) = 1
             /\ \A e \in ToSet(g.nodes[n].out) : Occurrences(g.nodes[n].out, e) = 1
  <2>. DEFINE in  == g.nodes[n].in
              out == g.nodes[n].out
              E   == DOMAIN g.edges
  <2>1. in \in Seq(Int) /\ out \in Seq(Int) /\ ToSet(in) \subseteq E /\ ToSet(out) \subseteq E
    BY <1>2, <1>4
  <2>2. in \in Seq(E) /\ out \in Seq(E)
    <3>. HIDE DEF in, out, E
    <3>. QED
      BY <2>1, SequenceWithin
  <2>3. /\ ToSet(in)  = {e \in E : g.edges[e].sink = n}
        /\ ToSet(out) = {e \in E : g.edges[e].src = n}
    BY <1>4, <1>5
  <2>4. /\ \A e \in ToSet(in)  : Occurrences(in, e) = 1
        /\ \A e \in ToSet(out) : Occurrences(out, e) = 1
    BY <1>3, <1>4
  <2>. QED
    BY <2>2, <2>3, <2>4
<1>7. IdRange(DOMAIN g.nodes) /\ IdRange(DOMAIN g.edges)
  BY <1>1 DEF Typed
<1>. QED
  BY <1>3, <1>6, <1>7 DEF Linked

(***************************************************************************)
(* The walk: a node is in the order, or aside, once all its active         *)
(* in-edges are met, and no earlier; levels do not decrease along the      *)
(* order; a met edge starts at a node of the order and goes to a higher    *)
(* level.                                                                  *)
(***************************************************************************)
Active(g) == {e \in DOMAIN g.edges : IsActive(g, e)}

Ordered(g, met, n) ==
  ActiveIn(g, n) \subseteq met /\ (ActiveIn(g, n) = {} \/ g.nodes[n].out # <<>>)
SetAside(g, met, n) ==
  ActiveIn(g, n) \subseteq met /\ ActiveIn(g, n) # {} /\ g.nodes[n].out = <<>>

WalkTyped(g, w) ==
  /\ w = [order |-> w.order, level |-> w.level, met |-> w.met, aside |-> w.aside]
  /\ w.order \in Seq(DOMAIN g.nodes) /\ w.aside \in Seq(DOMAIN g.nodes)
  /\ w.level \in [DOMAIN g.nodes -> Int] /\ w.met \subseteq Active(g)

PlacedOnce(g, w) ==
  \A n \in DOMAIN g.nodes :
    /\ Occurrences(w.order, n) = IF Ordered(g, w.met, n) THEN 1 ELSE 0
    /\ Occurrences(w.aside, n) = IF SetAside(g, w.met, n) THEN 1 ELSE 0

LevelsPlaced(g, w) ==
  /\ \A n \in DOMAIN g.nodes : IF n \in ToSet(w.order) THEN w.level[n] \in Nat
                                                       ELSE w.level[n] = NoLevel
  /\ \A j, k \in 1 .. Len(w.order) : j <= k => w.level[w.order[j]] <= w.level[w.order[k]]

MetRises(g, w) ==
  \A e \in w.met :
    /\ g.edges[e].src \in ToSet(w.order)
    /\ g.edges[e].sink \in ToSet(w.order) => w.level[g.edges[e].src] < w.level[g.edges[e].sink]

\* The nodes on level 0 are those the walk started with, in that order.
StartFirst(g, w) == Kept(w.order, {n \in DOMAIN g.nodes : w.level[n] = 0}) = WalkStart(g).order

WalkOK(g, w) ==
  /\ WalkTyped(g, w) /\ PlacedOnce(g, w) /\ LevelsPlaced(g, w) /\ MetRises(g, w)
  /\ StartFirst(g, w)

\* While the fan-out of the i-th node is visited.
At(g, w, i) ==
  /\ i \in 1 .. Len(w.order)
  /\ \A j \in 1 .. Len(w.order) : w.level[w.order[j]] <= w.level[w.order[i]] + 1
  /\ \A e \in w.met : w.level[g.edges[e].src] <= w.level[w.order[i]]

Longer(old, new) == Len(old) <= Len(new) /\ \A j \in 1 .. Len(old) : new[j] = old[j]

(***************************************************************************)
(* Meeting one active edge.                                                *)
(***************************************************************************)
LEMMA MeetActive ==
  ASSUME NEW g, Linked(g), NEW w, WalkOK(g, w), NEW i, At(g, w, i),
         NEW e \in Active(g), e \notin w.met, g.edges[e].src = w.order[i],
         NEW w2, w2 = Meet(g, w.order[i], w, e)
  PROVE  WalkOK(g, w2) /\ At(g, w2, i) /\ w2.met = w.met \cup {e} /\ Longer(w.order, w2.order)
<1>. DEFINE N    == DOMAIN g.nodes
            E    == DOMAIN g.edges
            from == w.order[i]
            n    == g.edges[e].sink
            met2 == w.met \cup {e}
            k    == Len(w.order)
<1>1. /\ WalkTyped(g, w) /\ PlacedOnce(g, w) /\ LevelsPlaced(g, w) /\ MetRises(g, w)
      /\ StartFirst(g, w)
  BY DEF WalkOK
<1>2. /\ e \in E /\ n \in N /\ IsActive(g, e)
      /\ \A m \in N : ActiveIn(g, m) = {d \in E : g.edges[d].sink = m /\ IsActive(g, d)}
  BY DEF Linked, Active, ActiveIn
<1>3. /\ \A m \in N : m # n => (ActiveIn(g, m) \subseteq met2 <=> ActiveIn(g, m) \subseteq w.met)
      /\ e \in ActiveIn(g, n) /\ ~(ActiveIn(g, n) \subseteq w.met)
  BY <1>2
<1>4. /\ \A m \in N : m # n => /\ Ordered(g, met2, m) <=> Ordered(g, w.met, m)
                               /\ SetAside(g, met2, m) <=> SetAside(g, w.met, m)
      /\ ~Ordered(g, w.met, n) /\ ~SetAside(g, w.met, n)
  BY <1>3 DEF Ordered, SetAside
<1>5. /\ w.order \in Seq(N) /\ w.aside \in Seq(N) /\ w.level \in [N -> Int]
      /\ k \in Nat /\ DOMAIN w.order = 1 .. k
      /\ \A j \in 1 .. k : w.order[j] \in N
      /\ met2 \subseteq Active(g) /\ w.met \subseteq Active(g)
      /\ i \in 1 .. k /\ from \in N
  <2>1. w.order \in Seq(N) /\ w.aside \in Seq(N) /\ w.level \in [N -> Int] /\ i \in 1 .. k
    BY <1>1 DEF WalkTyped, At
  <2>2. k \in Nat /\ DOMAIN w.order = 1 .. k /\ \A j \in 1 .. k : w.order[j] \in N
    BY <2>1
  <2>. QED
    BY <1>1, <2>1, <2>2 DEF WalkTyped
<1>6. ToSet(w.order) = {w.order[j] : j \in 1 .. k}
  BY <1>5 DEF ToSet
<1>7. n \notin ToSet(w.order) /\ w.level[n] = NoLevel
  <2>1. Occurrences(w.order, n) = 0
    BY <1>1, <1>2, <1>4 DEF PlacedOnce
  <2>2. n \notin ToSet(w.order)
    <3>. DEFINE order == w.order
    <3>1. order \in Seq(N) /\ Occurrences(order, n) = 0
      BY <1>5, <2>1
    <3>. HIDE DEF order, n, N
    <3>2. n \notin ToSet(order)
      BY <3>1, OccurrencesCount
    <3>. QED
      BY <3>2 DEF order
  <2>. QED
    BY <1>1, <1>2, <2>2 DEF LevelsPlaced
<1>8. /\ \A j \in 1 .. k : w.order[j] # n /\ w.level[w.order[j]] \in Nat
      /\ from # n /\ w.level[from] \in Nat
  BY <1>1, <1>5, <1>6, <1>7 DEF LevelsPlaced
<1>9. w = [order |-> w.order, level |-> w.level, met |-> w.met, aside |-> w.aside]
  BY <1>1 DEF WalkTyped
<1>10. /\ \A d \in w.met : g.edges[d].src \in ToSet(w.order) /\ w.level[g.edges[d].src] <= w.level[from]
       /\ g.edges[e].src = from /\ from \in ToSet(w.order)
       /\ \A j \in 1 .. k : w.level[w.order[j]] <= w.level[from] + 1
  BY <1>1, <1>5, <1>6 DEF MetRises, At
<1>11. CASE ~(ActiveIn(g, n) \subseteq met2)
  <2>1. w2 = [w EXCEPT !.met = met2]
    BY <1>2, <1>9, <1>11 DEF Meet
  <2>2. /\ w2 = [order |-> w2.order, level |-> w2.level, met |-> w2.met, aside |-> w2.aside]
        /\ w2.order = w.order /\ w2.level = w.level /\ w2.met = met2 /\ w2.aside = w.aside
    BY <1>9, <2>1
  <2>3. ~Ordered(g, met2, n) /\ ~SetAside(g, met2, n)
    BY <1>11 DEF Ordered, SetAside
  <2>4. WalkTyped(g, w2)
    BY <1>5, <2>2 DEF WalkTyped
  <2>5. PlacedOnce(g, w2)
    <3>1. \A m \in N : /\ Ordered(g, met2, m) <=> Ordered(g, w.met, m)
                       /\ SetAside(g, met2, m) <=> SetAside(g, w.met, m)
      BY <1>4, <2>3
    <3>. QED
      BY <1>1, <2>2, <3>1 DEF PlacedOnce
  <2>6. LevelsPlaced(g, w2)
    BY <1>1, <2>2 DEF LevelsPlaced
  <2>7. MetRises(g, w2)
    BY SMTT(30), <1>1, <1>7, <1>10, <2>2 DEF MetRises
  <2>8. At(g, w2, i)
    BY <1>5, <1>8, <1>10, <2>2 DEF At
  <2>9. Longer(w.order, w2.order)
    BY <1>5, <2>2 DEF Longer
  <2>10. StartFirst(g, w2)
    BY <1>1, <2>2 DEF StartFirst
  <2>. QED
    BY <2>2, <2>4, <2>5, <2>6, <2>7, <2>8, <2>9, <2>10 DEF WalkOK
<1>12. CASE ActiveIn(g, n) \subseteq met2 /\ g.nodes[n].out = <<>>
  <2>1. w2 = [[w EXCEPT !.met = met2] EXCEPT !.aside = Append(@, n)]
    BY <1>2, <1>9, <1>12 DEF Meet
  <2>2. /\ w2 = [order |-> w2.order, level |-> w2.level, met |-> w2.met, aside |-> w2.aside]
        /\ w2.order = w.order /\ w2.level = w.level /\ w2.met = met2
        /\ w2.aside = Append(w.aside, n)
    BY <1>9, <2>1
  <2>3. ~Ordered(g, met2, n) /\ SetAside(g, met2, n)
    BY <1>3, <1>12 DEF Ordered, SetAside
  <2>4. WalkTyped(g, w2)
    <3>. DEFINE aside == w.aside
    <3>1. w2.aside \in Seq(N)
      <4>1. aside \in Seq(N) /\ n \in N /\ w2.aside = Append(aside, n)
        BY <1>2, <1>5, <2>2
      <4>. HIDE DEF aside, n, N
      <4>. QED
        BY <4>1
    <3>. QED
      BY <1>5, <2>2, <3>1 DEF WalkTyped
  <2>5. PlacedOnce(g, w2)
    <3>1. \A m \in N : Occurrences(w2.aside, m) = IF m = n THEN Occurrences(w.aside, m) + 1
                                                          ELSE Occurrences(w.aside, m)
      <4>. DEFINE aside == w.aside
      <4>1. aside \in Seq(N) /\ n \in N
        BY <1>2, <1>5
      <4>. HIDE DEF aside, n, N
      <4>2. \A m : Occurrences(Append(aside, n), m) = IF m = n THEN Occurrences(aside, m) + 1
                                                             ELSE Occurrences(aside, m)
        BY <4>1, OccurrencesAppend
      <4>. QED
        BY <2>2, <4>2 DEF aside
    <3>2. \A m \in N : m # n =>
            /\ Occurrences(w2.order, m) = IF Ordered(g, met2, m) THEN 1 ELSE 0
            /\ Occurrences(w2.aside, m) = IF SetAside(g, met2, m) THEN 1 ELSE 0
      BY <1>1, <1>4, <2>2, <3>1 DEF PlacedOnce
    <3>3. /\ Occurrences(w2.order, n) = IF Ordered(g, met2, n) THEN 1 ELSE 0
          /\ Occurrences(w2.aside, n) = IF SetAside(g, met2, n) THEN 1 ELSE 0
      BY <1>1, <1>2, <1>4, <2>2, <2>3, <3>1 DEF PlacedOnce
    <3>. QED
      BY <2>2, <3>2, <3>3 DEF PlacedOnce
  <2>6. LevelsPlaced(g, w2)
    BY SMTT(30), <1>1, <2>2 DEF LevelsPlaced
  <2>7. MetRises(g, w2)
    BY SMTT(30), <1>1, <1>7, <1>10, <2>2 DEF MetRises
  <2>8. At(g, w2, i)
    BY <1>5, <1>8, <1>10, <2>2 DEF At
  <2>9. Longer(w.order, w2.order)
    BY <1>5, <2>2 DEF Longer
  <2>10. StartFirst(g, w2)
    BY <1>1, <2>2 DEF StartFirst
  <2>. QED
    BY <2>2, <2>4, <2>5, <2>6, <2>7, <2>8, <2>9, <2>10 DEF WalkOK
<1>13. CASE ActiveIn(g, n) \subseteq met2 /\ g.nodes[n].out # <<>>
  <2>. DEFINE up == w.level[from] + 1
  <2>1. w2 = [[w EXCEPT !.met = met2] EXCEPT !.order = Append(@, n), !.level[n] = up]
    BY <1>2, <1>9, <1>13 DEF Meet
  <2>2. /\ w2 = [order |-> w2.order, level |-> w2.level, met |-> w2.met, aside |-> w2.aside]
        /\ w2.order = Append(w.order, n) /\ w2.level = [w.level EXCEPT ![n] = up]
        /\ w2.met = met2 /\ w2.aside = w.aside
    BY <1>9, <2>1
  <2>3. Ordered(g, met2, n) /\ ~SetAside(g, met2, n)
    BY <1>3, <1>13 DEF Ordered, SetAside
  <2>4. /\ w2.order \in Seq(N) /\ Len(w2.order) = k + 1 /\ w2.order[k + 1] = n
        /\ \A j \in 1 .. k : w2.order[j] = w.order[j]
    <3>. DEFINE order == w.order
    <3>1. order \in Seq(N) /\ n \in N /\ w2.order = Append(order, n)
      BY <1>2, <1>5, <2>2
    <3>. HIDE DEF order, n, N
    <3>2. /\ w2.order \in Seq(N) /\ Len(w2.order) = Len(order) + 1 /\ w2.order[Len(order) + 1] = n
          /\ \A j \in 1 .. Len(order) : w2.order[j] = order[j]
      BY SMTT(30), <3>1
    <3>. QED
      BY <3>2 DEF order
  <2>5. /\ w2.level \in [N -> Int] /\ w2.level[n] = up /\ up \in Nat
        /\ \A m \in N : m # n => w2.level[m] = w.level[m]
    BY SMTT(30), <1>2, <1>5, <1>8, <2>2
  <2>6. ToSet(w2.order) = ToSet(w.order) \cup {n}
    <3>. DEFINE order == w.order
    <3>1. order \in Seq(N) /\ n \in N /\ w2.order = Append(order, n)
      BY <1>2, <1>5, <2>2
    <3>. HIDE DEF order, n, N
    <3>2. ToSet(w2.order) = ToSet(order) \cup {n}
      BY <3>1, ToSetAppend
    <3>. QED
      BY <3>2 DEF order
  <2>7. WalkTyped(g, w2)
    BY <1>5, <2>2, <2>4, <2>5 DEF WalkTyped
  <2>8. PlacedOnce(g, w2)
    <3>1. \A m \in N : Occurrences(w2.order, m) = IF m = n THEN Occurrences(w.order, m) + 1
                                                          ELSE Occurrences(w.order, m)
      <4>. DEFINE order == w.order
      <4>1. order \in Seq(N) /\ n \in N
        BY <1>2, <1>5
      <4>. HIDE DEF order, n, N
      <4>2. \A m : Occurrences(Append(order, n), m) = IF m = n THEN Occurrences(order, m) + 1
                                                             ELSE Occurrences(order, m)
        BY <4>1, OccurrencesAppend
      <4>. QED
        BY <2>2, <4>2 DEF order
    <3>2. \A m \in N : m # n =>
            /\ Occurrences(w2.order, m) = IF Ordered(g, met2, m) THEN 1 ELSE 0
            /\ Occurrences(w2.aside, m) = IF SetAside(g, met2, m) THEN 1 ELSE 0
      BY <1>1, <1>4, <2>2, <3>1 DEF PlacedOnce
    <3>3. /\ Occurrences(w2.order, n) = IF Ordered(g, met2, n) THEN 1 ELSE 0
          /\ Occurrences(w2.aside, n) = IF SetAside(g, met2, n) THEN 1 ELSE 0
      BY <1>1, <1>2, <1>4, <2>2, <2>3, <3>1 DEF PlacedOnce
    <3>. QED
      BY <2>2, <3>2, <3>3 DEF PlacedOnce
  <2>. HIDE DEF up, n, N, from, k
  <2>9. /\ \A j \in 1 .. k : w2.level[w2.order[j]] = w.level[w.order[j]]
        /\ w2.level[w2.order[k + 1]] = up
        /\ up = w.level[from] + 1
    BY <1>5, <1>8, <2>4, <2>5 DEF up
  <2>10. LevelsPlaced(g, w2)
    <3>1. \A m \in N : IF m \in ToSet(w2.order) THEN w2.level[m] \in Nat ELSE w2.level[m] = NoLevel
      BY <1>1, <2>5, <2>6 DEF LevelsPlaced, N
    <3>2. ASSUME NEW a \in 1 .. k + 1, NEW b \in 1 .. k + 1, a <= b
          PROVE  w2.level[w2.order[a]] <= w2.level[w2.order[b]]
      <4>1. CASE b = k + 1 /\ a # k + 1
        BY SMTT(30), <1>5, <1>10, <2>9, <4>1
      <4>2. CASE b = k + 1 /\ a = k + 1
        BY SMTT(30), <2>5, <2>9, <4>2
      <4>3. CASE b # k + 1
        <5>1. a \in 1 .. k /\ b \in 1 .. k
          <6>1. k \in Nat /\ a \in 1 .. k + 1 /\ b \in 1 .. k + 1 /\ a <= b /\ b # k + 1
            BY <1>5, <3>2, <4>3
          <6>. QED
            BY <6>1
        <5>. QED
          BY <1>1, <2>9, <3>2, <5>1 DEF LevelsPlaced, k
      <4>. QED
        BY <4>1, <4>2, <4>3
    <3>. QED
      BY <2>4, <3>1, <3>2 DEF LevelsPlaced, N
  <2>11. /\ \A m \in ToSet(w.order) : m # n /\ m \in N /\ w2.level[m] = w.level[m]
         /\ w2.level[from] = w.level[from]
    BY SMTT(30), <1>5, <1>6, <1>8, <2>5
  <2>12. MetRises(g, w2)
    <3>. SUFFICES ASSUME NEW d \in met2
                  PROVE  /\ g.edges[d].src \in ToSet(w2.order)
                         /\ g.edges[d].sink \in ToSet(w2.order) =>
                              w2.level[g.edges[d].src] < w2.level[g.edges[d].sink]
      BY <2>2 DEF MetRises
    <3>1. /\ g.edges[d].src \in ToSet(w.order) /\ w.level[g.edges[d].src] <= w.level[from]
          /\ w.level[g.edges[d].src] \in Int
      <4>1. g.edges[d].src \in ToSet(w.order) /\ w.level[g.edges[d].src] <= w.level[from]
        BY <1>8, <1>10
      <4>2. w.level[g.edges[d].src] \in Nat
        BY SMTT(30), <1>6, <1>8, <4>1
      <4>. QED
        BY <4>1, <4>2
    <3>2. CASE g.edges[d].sink = n
      BY <1>8, <2>5, <2>6, <2>9, <2>11, <3>1, <3>2
    <3>3. CASE g.edges[d].sink # n
      <4>1. d \in w.met
        BY <3>3 DEF n
      <4>2. g.edges[d].sink \in ToSet(w.order) => w.level[g.edges[d].src] < w.level[g.edges[d].sink]
        BY <1>1, <4>1 DEF MetRises
      <4>. QED
        BY <2>6, <2>11, <3>1, <3>3, <4>2
    <3>. QED
      BY <3>2, <3>3
  <2>13. At(g, w2, i)
    <3>1. i \in 1 .. k + 1 /\ w2.order[i] = from
      BY SMTT(30), <1>5, <2>4 DEF from
    <3>2. \A j \in 1 .. k + 1 : w2.level[w2.order[j]] <= w.level[from] + 1
      <4>1. \A j \in 1 .. k : w2.level[w2.order[j]] <= w.level[from] + 1
        BY <1>10, <2>9
      <4>2. w2.level[w2.order[k + 1]] <= w.level[from] + 1
        BY <2>5, <2>9
      <4>. QED
        BY SMTT(30), <1>5, <4>1, <4>2
    <3>3. \A d \in met2 : w2.level[g.edges[d].src] <= w.level[from]
      BY <1>8, <1>10, <2>11
    <3>. QED
      BY <2>2, <2>4, <2>11, <3>1, <3>2, <3>3 DEF At
  <2>14. Longer(w.order, w2.order)
    BY <1>5, <2>4 DEF Longer, k
  <2>15. StartFirst(g, w2)
    <3>. DEFINE zero  == {m \in N : w.level[m] = 0}
                start == [m \in zero |-> m]
                order == w.order
    <3>1. {m \in N : w2.level[m] = 0} = zero /\ n \notin zero /\ n \in N
      BY <1>2, <1>7, <1>8, <2>5 DEF up, NoLevel, n, N
    <3>2. order \in Seq(N) /\ Kept(order, zero) = Mapped(order, start) /\ DOMAIN start = zero
          /\ Kept(Append(order, n), zero) = Mapped(Append(order, n), start)
      BY <1>5 DEF Kept
    <3>. HIDE DEF zero, start, order
    <3>3. Mapped(Append(order, n), start) = Mapped(order, start)
      BY <3>1, <3>2, MappedAppend
    <3>. QED
      BY <1>1, <2>2, <3>1, <3>2, <3>3 DEF StartFirst, order, zero, N
  <2>. QED
    BY <2>2, <2>7, <2>8, <2>10, <2>12, <2>13, <2>14, <2>15 DEF WalkOK
<1>. QED
  BY <1>11, <1>12, <1>13

(***************************************************************************)
(* Visiting the fan-out of the next node.  Between two visits, the edges   *)
(* met are those of the nodes visited.                                     *)
(***************************************************************************)
Meets(c, e, walk) == Meet(c[1], c[2], walk, e)

Visits(g, i, walk) ==
  IF i \in DOMAIN walk.order THEN VisitFanout(g, walk, walk.order[i]) ELSE walk

Meetings == INSTANCE FoldLemmas WITH Op <- Meets, Pick <- Greatest
Visiting == INSTANCE FoldLemmas WITH Op <- Visits, Pick <- Greatest

LEMMA WalkFolds ==
  /\ Meetings!Basics /\ \A s : Greatest(s) = Meetings!Greatest(s)
  /\ Visiting!Basics /\ \A s : Greatest(s) = Visiting!Greatest(s)
<1>1. /\ \A s : Greatest(s) = Meetings!Greatest(s)
      /\ \A s : Greatest(s) = Visiting!Greatest(s)
  BY DEF Greatest, Meetings!Greatest, Visiting!Greatest
<1>2. Meetings!Basics
  BY FoldBasics, Zenon DEF Meetings!Basics, Meetings!Induction, Meetings!Counted, Meetings!Greatest
<1>3. Visiting!Basics
  BY FoldBasics, Zenon DEF Visiting!Basics, Visiting!Induction, Visiting!Counted, Visiting!Greatest
<1>. QED
  BY <1>1, <1>2, <1>3

LEMMA VisitIsFold ==
  ASSUME NEW g, NEW n, NEW walk, NEW S, NEW seq \in Seq(S), g.nodes[n].out = seq
  PROVE  VisitFanout(g, walk, n) = Meetings!Result(<<g, n>>, walk, seq, 1 .. Len(seq))
<1>1. DOMAIN seq = 1 .. Len(seq)
  OBVIOUS
<1>. QED
  BY <1>1 DEF VisitFanout, FoldLeft, MapThenFoldSet, Meetings!Result, Meetings!Recursive, Meets,
              Greatest, Max

Stepped(g, n, walk, seq, steps) ==
  /\ steps[0] = walk
  /\ \A i \in 1 .. Len(seq) : steps[i] = Meet(g, n, steps[i - 1], seq[i])
  /\ VisitFanout(g, walk, n) = steps[Len(seq)]

LEMMA VisitSteps ==
  ASSUME NEW g, NEW n, NEW walk, NEW S, NEW seq \in Seq(S), g.nodes[n].out = seq
  PROVE  \E steps : Stepped(g, n, walk, seq, steps)
<1>. DEFINE c == <<g, n>>
            k == Len(seq)
<1>1. k \in Nat
  OBVIOUS
<1>. HIDE DEF c, k
<1>2. PICK steps : Meetings!Partial(c, walk, seq, k, steps)
  BY <1>1, WalkFolds, Meetings!FoldSteps
<1>3. \A i \in 1 .. k : steps[i] = Meet(g, n, steps[i - 1], seq[i])
  BY <1>2 DEF Meetings!Partial, Meets, c
<1>4. steps[0] = walk /\ VisitFanout(g, walk, n) = steps[k]
  BY SMTT(30), <1>2, VisitIsFold DEF Meetings!Partial, c, k
<1>. QED
  BY <1>3, <1>4 DEF Stepped, k

Between(g, w, i) ==
  /\ WalkOK(g, w)
  /\ w.met = {e \in Active(g) :
                \E j \in 1 .. Len(w.order) : j <= i /\ w.order[j] = g.edges[e].src}
  /\ \A k \in 1 .. Len(w.order) : k > i =>
       \A j \in 1 .. Len(w.order) : w.level[w.order[j]] <= w.level[w.order[k]] + 1

LEMMA FanoutVisited ==
  ASSUME NEW g, Linked(g), NEW i \in Nat, NEW w, Between(g, w, i), i + 1 \in 1 .. Len(w.order),
         NEW w2, w2 = VisitFanout(g, w, w.order[i + 1])
  PROVE  Between(g, w2, i + 1)
<1>. DEFINE N     == DOMAIN g.nodes
            E     == DOMAIN g.edges
            n     == w.order[i + 1]
            out   == g.nodes[n].out
            size  == Len(out)
<1>1. WalkOK(g, w) /\ WalkTyped(g, w) /\ PlacedOnce(g, w) /\ LevelsPlaced(g, w) /\ MetRises(g, w)
  BY DEF Between, WalkOK
<1>2. /\ w.order \in Seq(N) /\ Len(w.order) \in Nat /\ DOMAIN w.order = 1 .. Len(w.order)
      /\ n \in N /\ \A j \in 1 .. Len(w.order) : w.order[j] \in N
  <2>1. w.order \in Seq(N)
    BY <1>1 DEF WalkTyped
  <2>. QED
    BY <2>1
<1>3. /\ out \in Seq(E) /\ ToSet(out) = {e \in E : g.edges[e].src = n}
      /\ \A e \in ToSet(out) : Occurrences(out, e) = 1
  BY <1>2 DEF Linked
<1>4. size \in Nat /\ DOMAIN out = 1 .. size /\ \A k \in 1 .. size : out[k] \in ToSet(out)
  <2>1. PICK o : o = out
    OBVIOUS
  <2>2. o \in Seq(E)
    BY <1>3, <2>1
  <2>3. Len(o) \in Nat /\ DOMAIN o = 1 .. Len(o)
    BY <2>2
  <2>. QED
    BY <2>1, <2>3 DEF ToSet
<1>5. At(g, w, i + 1)
  <2>1. \A j \in 1 .. Len(w.order) : w.level[w.order[j]] <= w.level[w.order[i + 1]] + 1
    BY DEF Between
  <2>2. ASSUME NEW e \in w.met PROVE w.level[g.edges[e].src] <= w.level[w.order[i + 1]]
    <3>1. PICK j \in 1 .. Len(w.order) : j <= i /\ w.order[j] = g.edges[e].src
      BY DEF Between
    <3>2. j <= i + 1
      BY <3>1
    <3>. QED
      BY <1>1, <3>1, <3>2 DEF LevelsPlaced
  <2>. QED
    BY <2>1, <2>2 DEF At
<1>6. \A e \in w.met : g.edges[e].src # n
  <2>. SUFFICES ASSUME NEW e \in w.met, g.edges[e].src = n PROVE FALSE
    OBVIOUS
  <2>1. PICK j \in 1 .. Len(w.order) : j <= i /\ w.order[j] = n
    BY DEF Between
  <2>2. Occurrences(w.order, n) = 1
    <3>1. Occurrences(w.order, n) \in {0, 1}
      BY <1>1, <1>2 DEF PlacedOnce
    <3>2. n \in ToSet(w.order)
      BY <1>2 DEF ToSet
    <3>3. Occurrences(w.order, n) # 0
      <4>. DEFINE order == w.order
      <4>1. order \in Seq(N) /\ n \in ToSet(order)
        BY <1>2, <3>2
      <4>. HIDE DEF order, n, N
      <4>2. Occurrences(order, n) # 0
        BY <4>1, OccurrencesCount
      <4>. QED
        BY <4>2 DEF order
    <3>. QED
      BY <3>1, <3>3
  <2>3. j = i + 1
    <3>. DEFINE order == w.order
                last  == i + 1
    <3>1. /\ order \in Seq(N) /\ j \in DOMAIN order /\ last \in DOMAIN order
          /\ order[j] = order[last] /\ Occurrences(order, order[j]) = 1
      BY <1>2, <2>1, <2>2
    <3>. HIDE DEF order, last, N
    <3>2. j = last
      BY <3>1, OccursAlone
    <3>. QED
      BY <3>2 DEF last
  <2>. QED
    BY <2>1, <2>3
<1>7. PICK steps : /\ steps[0] = w
                   /\ \A k \in 1 .. size : steps[k] = Meet(g, n, steps[k - 1], out[k])
                   /\ w2 = steps[size]
  <2>. HIDE DEF n, E
  <2>1. w2 = VisitFanout(g, w, n)
    BY DEF n
  <2>. DEFINE seq == out
  <2>2. g.nodes[n].out = seq /\ seq \in Seq(E)
    BY <1>3
  <2>. HIDE DEF seq
  <2>3. PICK steps : Stepped(g, n, w, seq, steps)
    BY <2>2, VisitSteps
  <2>. QED
    BY <2>1, <2>3 DEF Stepped, seq
<1>. DEFINE Met(k) == {e \in Active(g) : \E j \in 1 .. k : out[j] = e}
            In(k)  == /\ WalkOK(g, steps[k]) /\ At(g, steps[k], i + 1)
                      /\ Longer(w.order, steps[k].order) /\ steps[k].met = w.met \cup Met(k)
            Good   == {k \in Nat : In(k)}
<1>8. 0 \in Good
  <2>1. Met(0) = {} /\ Longer(w.order, w.order)
    BY SMTT(30), <1>2 DEF Longer
  <2>. QED
    BY <1>1, <1>5, <1>7, <2>1
<1>9. ASSUME NEW k \in 0 .. size - 1, k \in Good PROVE k + 1 \in Good
  <2>. DEFINE e  == out[k + 1]
              v  == steps[k]
              v2 == steps[k + 1]
  <2>1. k + 1 \in 1 .. size /\ (k + 1) - 1 = k /\ k \in Nat
    BY SMTT(30), <1>4
  <2>2. v2 = Meet(g, n, v, e)
    BY SMTT(30), <1>7, <2>1
  <2>3. e \in E /\ g.edges[e].src = n /\ Occurrences(out, e) = 1
    BY ZenonT(40), <1>3, <1>4, <2>1
  <2>4. WalkOK(g, v) /\ At(g, v, i + 1) /\ Longer(w.order, v.order) /\ v.met = w.met \cup Met(k)
    BY <1>9
  <2>5. v.order[i + 1] = n
    BY SMTT(30), <2>4 DEF Longer
  <2>6. Met(k + 1) = IF IsActive(g, e) THEN Met(k) \cup {e} ELSE Met(k)
    <3>1. 1 .. k + 1 = (1 .. k) \cup {k + 1}
      BY <2>1
    <3>2. \A d : (\E j \in 1 .. k + 1 : out[j] = d) <=> (\E j \in 1 .. k : out[j] = d) \/ d = e
      BY <3>1
    <3>3. e \in Active(g) <=> IsActive(g, e)
      BY SMTT(30), <2>3 DEF Active
    <3>. HIDE DEF e
    <3>. QED
      BY <3>2, <3>3
  <2>7. e \notin v.met
    <3>1. e \notin w.met
      BY <1>6, <2>3
    <3>2. \A j \in 1 .. k : out[j] # e
      <4>. SUFFICES ASSUME NEW j \in 1 .. k, out[j] = e PROVE FALSE
        OBVIOUS
      <4>. DEFINE seq  == out
                  next == k + 1
      <4>1. /\ seq \in Seq(E) /\ j \in DOMAIN seq /\ next \in DOMAIN seq
            /\ seq[j] = seq[next] /\ Occurrences(seq, seq[j]) = 1
        <5>0. j \in 1 .. size
          <6>1. size \in Nat /\ k \in 0 .. size - 1 /\ j \in 1 .. k
            BY SMTT(30), <1>4
          <6>. HIDE DEF size
          <6>. QED
            BY SMTT(30), <6>1
        <5>1. seq \in Seq(E) /\ j \in DOMAIN seq /\ next \in DOMAIN seq
          BY ZenonT(40), <1>3, <1>4, <2>1, <5>0
        <5>2. seq[j] = seq[next] /\ seq[j] = e
          BY SMTT(30)
        <5>3. Occurrences(seq, e) = 1
          BY <2>3
        <5>. QED
          BY <5>1, <5>2, <5>3
      <4>. HIDE DEF seq, next, E
      <4>2. j = next
        BY SMTT(30), <4>1, OccursAlone
      <4>. QED
        BY <2>1, <4>2 DEF next
    <3>. HIDE DEF e
    <3>3. e \notin Met(k)
      BY <3>2
    <3>. HIDE DEF v, Met
    <3>4. v.met = w.met \cup Met(k)
      BY <2>4
    <3>. QED
      BY <3>1, <3>3, <3>4
  <2>8. CASE IsActive(g, e)
    <3>1. e \in Active(g)
      BY ZenonT(40), <2>3, <2>8 DEF Active
    <3>2. v2 = Meet(g, v.order[i + 1], v, e) /\ g.edges[e].src = v.order[i + 1]
      BY <2>2, <2>3, <2>5
    <3>3. WalkOK(g, v2) /\ At(g, v2, i + 1) /\ v2.met = v.met \cup {e} /\ Longer(v.order, v2.order)
      <4>. DEFINE at == i + 1
      <4>1. At(g, v, at) /\ v2 = Meet(g, v.order[at], v, e) /\ g.edges[e].src = v.order[at]
        BY ZenonT(40), <2>4, <3>2
      <4>. HIDE DEF v, v2, e, at
      <4>2. WalkOK(g, v2) /\ At(g, v2, at) /\ v2.met = v.met \cup {e} /\ Longer(v.order, v2.order)
        BY <2>4, <2>7, <3>1, <4>1, MeetActive
      <4>. QED
        BY SMTT(30), <4>2 DEF at
    <3>4. Longer(w.order, v2.order)
      <4>1. Longer(w.order, v.order) /\ Longer(v.order, v2.order)
        BY <2>4, <3>3
      <4>2. Len(v.order) \in Nat /\ Len(v2.order) \in Nat
        <5>1. v.order \in Seq(N) /\ v2.order \in Seq(N)
          BY ZenonT(40), <2>4, <3>3 DEF WalkOK, WalkTyped
        <5>. QED
          BY SMTT(30), <5>1
      <4>. HIDE DEF v, v2
      <4>. QED
        BY SMTT(30), <1>2, <4>1, <4>2 DEF Longer
    <3>5. v2.met = w.met \cup Met(k + 1)
      BY ZenonT(40), <2>4, <2>6, <2>8, <3>3
    <3>. QED
      BY SMTT(30), <2>1, <3>3, <3>4, <3>5
  <2>9. CASE ~IsActive(g, e)
    <3>1. v2 = v
      BY ZenonT(40), <2>2, <2>9 DEF Meet
    <3>2. e \notin Active(g)
      BY SMTT(30), <2>9 DEF Active
    <3>3. Met(k + 1) = Met(k)
      BY <2>6, <3>2
    <3>. QED
      BY SMTT(30), <2>1, <2>4, <3>1, <3>3
  <2>. QED
    BY <2>8, <2>9
<1>. HIDE DEF Good
<1>10. \A k \in 0 .. size : k \in Good
  BY ZenonT(40), <1>4, <1>8, <1>9, BoundedInduction
<1>11. /\ WalkOK(g, w2) /\ At(g, w2, i + 1) /\ Longer(w.order, w2.order)
       /\ w2.met = w.met \cup Met(size)
  <2>1. In(size)
    <3>1. size \in 0 .. size
      BY <1>4
    <3>2. size \in Good
      BY <1>10, <3>1
    <3>. HIDE DEF In
    <3>. QED
      BY <3>2 DEF Good
  <2>. QED
    BY ZenonT(40), <1>7, <2>1
<1>12. Met(size) = {e \in Active(g) : g.edges[e].src = n}
  <2>1. \A e : (\E j \in 1 .. size : out[j] = e) <=> e \in ToSet(out)
    BY <1>4 DEF ToSet
  <2>. QED
    BY SMTT(30), <1>3, <2>1 DEF Active
<1>13. /\ w2.order \in Seq(N) /\ Len(w2.order) \in Nat /\ Len(w.order) <= Len(w2.order)
       /\ \A j \in 1 .. Len(w.order) : w2.order[j] = w.order[j]
       /\ i + 1 \in 1 .. Len(w2.order)
  <2>1. w2.order \in Seq(N) /\ Len(w.order) <= Len(w2.order)
        /\ \A j \in 1 .. Len(w.order) : w2.order[j] = w.order[j]
    BY ZenonT(40), <1>11 DEF WalkOK, WalkTyped, Longer
  <2>2. Len(w2.order) \in Nat
    BY <2>1
  <2>. QED
    BY <1>2, <2>1, <2>2
<1>14. w2.met = {e \in Active(g) :
                   \E j \in 1 .. Len(w2.order) : j <= i + 1 /\ w2.order[j] = g.edges[e].src}
  <2>1. w.met = {e \in Active(g) :
                   \E j \in 1 .. Len(w.order) : j <= i /\ w.order[j] = g.edges[e].src}
    BY DEF Between
  <2>2. ASSUME NEW s
        PROVE  (\E j \in 1 .. Len(w2.order) : j <= i + 1 /\ w2.order[j] = s)
                 <=> (\E j \in 1 .. Len(w.order) : j <= i /\ w.order[j] = s) \/ s = n
    <3>1. ASSUME NEW j \in 1 .. Len(w2.order), j <= i + 1
          PROVE  j \in 1 .. Len(w.order) /\ w2.order[j] = w.order[j] /\ (j <= i \/ j = i + 1)
      BY <1>2, <1>13, <3>1
    <3>2. ASSUME NEW j \in 1 .. Len(w.order), j <= i + 1
          PROVE  j \in 1 .. Len(w2.order) /\ w2.order[j] = w.order[j]
      BY <1>2, <1>13
    <3>3. w2.order[i + 1] = n
      BY <1>13
    <3>4. (\E j \in 1 .. Len(w2.order) : j <= i + 1 /\ w2.order[j] = s)
            => (\E j \in 1 .. Len(w.order) : j <= i /\ w.order[j] = s) \/ s = n
      BY <3>1, <3>3
    <3>5. s = n => \E j \in 1 .. Len(w2.order) : j <= i + 1 /\ w2.order[j] = s
      BY <1>13, <3>3
    <3>6. (\E j \in 1 .. Len(w.order) : j <= i /\ w.order[j] = s)
            => \E j \in 1 .. Len(w2.order) : j <= i + 1 /\ w2.order[j] = s
      <4>. SUFFICES ASSUME NEW j \in 1 .. Len(w.order), j <= i, w.order[j] = s
                    PROVE  j \in 1 .. Len(w2.order) /\ j <= i + 1 /\ w2.order[j] = s
        BY SMTT(30)
      <4>1. j <= i + 1
        OBVIOUS
      <4>. QED
        BY <3>2, <4>1
    <3>. QED
      BY <3>4, <3>5, <3>6
  <2>3. w2.met = {e \in Active(g) :
                    (\E j \in 1 .. Len(w.order) : j <= i /\ w.order[j] = g.edges[e].src)
                      \/ g.edges[e].src = n}
    BY <1>11, <1>12, <2>1
  <2>. HIDE DEF n
  <2>. QED
    BY <2>2, <2>3
<1>15. ASSUME NEW k \in 1 .. Len(w2.order), k > i + 1, NEW j \in 1 .. Len(w2.order)
       PROVE  w2.level[w2.order[j]] <= w2.level[w2.order[k]] + 1
  <2>1. w2.level[w2.order[j]] <= w2.level[w2.order[i + 1]] + 1
    BY SMTT(30), <1>11 DEF At
  <2>2. w2.level[w2.order[i + 1]] <= w2.level[w2.order[k]]
    <3>1. i + 1 <= k
      BY <1>15
    <3>. QED
      BY <1>11, <1>13, <3>1 DEF WalkOK, LevelsPlaced
  <2>3. \A p \in 1 .. Len(w2.order) : w2.level[w2.order[p]] \in Int
    <3>1. w2.level \in [N -> Int]
      BY ZenonT(40), <1>11 DEF WalkOK, WalkTyped
    <3>2. \A p \in 1 .. Len(w2.order) : w2.order[p] \in N
      BY SMTT(30), <1>13
    <3>. QED
      BY SMTT(30), <3>1, <3>2
  <2>. DEFINE a == w2.level[w2.order[j]]
              b == w2.level[w2.order[i + 1]]
              c == w2.level[w2.order[k]]
  <2>4. a \in Int /\ b \in Int /\ c \in Int /\ a <= b + 1 /\ b <= c
    BY <1>13, <2>1, <2>2, <2>3
  <2>. HIDE DEF a, b, c
  <2>5. a <= c + 1
    BY <2>4
  <2>. QED
    BY SMTT(30), <2>5 DEF a, c
<1>. QED
  BY <1>11, <1>14, <1>15 DEF Between

(***************************************************************************)
(* The whole walk: as many visits as there are nodes are enough, for no    *)
(* node is twice in the order.                                             *)
(***************************************************************************)
Finished(g, w) ==
  WalkOK(g, w) /\ w.met = {e \in Active(g) : g.edges[e].src \in ToSet(w.order)}

LEMMA AllIdsOnce ==
  ASSUME NEW f, IdRange(DOMAIN f)
  PROVE  AllIds(f) \in Seq(DOMAIN f) /\ \A x \in DOMAIN f : Occurrences(AllIds(f), x) = 1
<1>. DEFINE k == Cardinality(DOMAIN f)
<1>1. k \in Nat /\ DOMAIN f = 0 .. k - 1
  BY SizeOfIds
<1>. HIDE DEF k
<1>2. AllIds(f) = [i \in 1 .. k |-> i - 1]
  BY DEF AllIds, k
<1>3. AllIds(f) \in Seq(0 .. k - 1)
  BY <1>1, <1>2
<1>4. ASSUME NEW x \in 0 .. k - 1 PROVE Occurrences(AllIds(f), x) = 1
  <2>1. {i \in DOMAIN AllIds(f) : AllIds(f)[i] = x} = {x + 1}
    BY <1>1, <1>2
  <2>. QED
    BY <2>1, FS_Singleton DEF Occurrences
<1>. QED
  BY <1>1, <1>3, <1>4

LEMMA WalkStarts ==
  ASSUME NEW g, Linked(g)
  PROVE  Between(g, WalkStart(g), 0)
<1>. DEFINE N     == DOMAIN g.nodes
            ids   == AllIds(g.nodes)
            first == {n \in N : ActiveIn(g, n) = {}}
            order == Kept(ids, first)
            w     == WalkStart(g)
<1>1. ids \in Seq(N) /\ \A n \in N : Occurrences(ids, n) = 1
  <2>. DEFINE f == g.nodes
  <2>1. IdRange(DOMAIN f)
    BY DEF Linked
  <2>. HIDE DEF f
  <2>2. AllIds(f) \in Seq(DOMAIN f) /\ \A x \in DOMAIN f : Occurrences(AllIds(f), x) = 1
    BY <2>1, AllIdsOnce
  <2>. QED
    BY <2>2 DEF f
<1>2. order \in Seq(N) /\ \A n \in N : Occurrences(order, n) = IF n \in first THEN 1 ELSE 0
  <2>. HIDE DEF ids, first, N
  <2>1. /\ order \in Seq(N \cap first)
        /\ \A x : Occurrences(order, x) = IF x \in first THEN Occurrences(ids, x) ELSE 0
    BY <1>1, KeptOccurrences
  <2>2. \A T : T \subseteq N => Seq(T) \subseteq Seq(N)
    OBVIOUS
  <2>3. order \in Seq(N)
    BY <2>1, <2>2
  <2>. QED
    BY <1>1, <2>1, <2>3
<1>3. /\ w = [order |-> w.order, level |-> w.level, met |-> w.met, aside |-> w.aside]
      /\ w.order = order /\ w.met = {} /\ w.aside = <<>>
      /\ w.level = [n \in N |-> IF n \in first THEN 0 ELSE NoLevel]
  BY DEF WalkStart
<1>4. \A n \in N : n \in ToSet(order) <=> n \in first
  <2>. SUFFICES ASSUME NEW n \in N PROVE n \in ToSet(order) <=> n \in first
    OBVIOUS
  <2>1. Occurrences(order, n) = IF n \in first THEN 1 ELSE 0
    BY <1>2
  <2>. HIDE DEF order, first, N
  <2>2. Occurrences(order, n) = 0 <=> n \notin ToSet(order)
    BY <1>2, OccurrencesCount
  <2>. QED
    BY <2>1, <2>2
<1>. HIDE DEF order, w, ids
<1>5. WalkTyped(g, w)
  <2>1. w.level \in [N -> Int] /\ <<>> \in Seq(N)
    BY <1>3 DEF NoLevel
  <2>. QED
    BY <1>2, <1>3, <2>1 DEF WalkTyped
<1>6. PlacedOnce(g, w)
  <2>1. \A n \in N : /\ Ordered(g, w.met, n) <=> n \in first
                     /\ ~SetAside(g, w.met, n)
    BY <1>3 DEF Ordered, SetAside
  <2>. QED
    BY <1>2, <1>3, <2>1, NoneInEmpty DEF PlacedOnce
<1>7. \A j \in 1 .. Len(w.order) : w.level[w.order[j]] = 0
  <2>1. \A j \in 1 .. Len(w.order) : w.order[j] \in ToSet(order) /\ w.order[j] \in N
    BY <1>2, <1>3 DEF ToSet
  <2>. QED
    BY <1>3, <1>4, <2>1
<1>8. LevelsPlaced(g, w)
  <2>1. \A n \in N : IF n \in ToSet(w.order) THEN w.level[n] \in Nat ELSE w.level[n] = NoLevel
    BY <1>3, <1>4
  <2>2. \A j, k \in 1 .. Len(w.order) : w.level[w.order[j]] <= w.level[w.order[k]]
    BY <1>7
  <2>. QED
    BY <2>1, <2>2 DEF LevelsPlaced
<1>9. MetRises(g, w)
  BY <1>3 DEF MetRises
<1>10. w.met = {e \in Active(g) :
                  \E j \in 1 .. Len(w.order) : j <= 0 /\ w.order[j] = g.edges[e].src}
  <2>1. \A j \in 1 .. Len(w.order) : ~(j <= 0)
    BY <1>2, <1>3
  <2>. QED
    BY <1>3, <2>1
<1>11. \A k, j \in 1 .. Len(w.order) : w.level[w.order[j]] <= w.level[w.order[k]] + 1
  BY <1>7
<1>12. StartFirst(g, w)
  <2>. DEFINE same == [n \in first |-> n]
  <2>1. {n \in N : w.level[n] = 0} = first
    BY <1>3 DEF NoLevel
  <2>2. order \in Seq(N \cap first)
    <3>. HIDE DEF first, N
    <3>. QED
      BY <1>1, KeptOccurrences DEF order
  <2>3. \A n \in N \cap first : n \in DOMAIN same /\ same[n] = n
    OBVIOUS
  <2>4. Kept(order, first) = Mapped(order, same)
    BY DEF Kept
  <2>. HIDE DEF same, first, N
  <2>5. Mapped(order, same) = order
    BY <2>2, <2>3, MappedSame
  <2>. QED
    BY <1>3, <2>1, <2>4, <2>5 DEF StartFirst, w, N
<1>. QED
  BY <1>5, <1>6, <1>8, <1>9, <1>10, <1>11, <1>12 DEF Between, WalkOK, w

LEMMA WalkIsFold ==
  ASSUME NEW g, NEW k \in Nat, k = Cardinality(DOMAIN g.nodes)
  PROVE  \E steps : /\ steps[0] = WalkStart(g)
                    /\ \A i \in 1 .. k : steps[i] = Visits(g, i, steps[i - 1])
                    /\ LevelWalk(g) = steps[k]
<1>. DEFINE seq   == [i \in 1 .. k |-> i]
            start == WalkStart(g)
<1>1. LevelWalk(g) = Visiting!Result(g, start, seq, 1 .. k)
  <2>1. DOMAIN seq = 1 .. k
    OBVIOUS
  <2>. HIDE DEF start
  <2>2. LevelWalk(g) = FoldLeft(LAMBDA walk, i :
                                  IF i \in DOMAIN walk.order THEN VisitFanout(g, walk, walk.order[i])
                                                             ELSE walk, start, seq)
    BY DEF LevelWalk, start
  <2>. QED
    BY <2>1, <2>2 DEF FoldLeft, MapThenFoldSet, Visiting!Result, Visiting!Recursive, Visits, Greatest, Max
<1>. HIDE DEF seq, start
<1>2. PICK steps : Visiting!Partial(g, start, seq, k, steps)
  BY WalkFolds, Visiting!FoldSteps
<1>3. \A i \in 1 .. k : steps[i] = Visits(g, i, steps[i - 1])
  BY <1>2 DEF Visiting!Partial, seq
<1>. QED
  BY <1>1, <1>2, <1>3 DEF Visiting!Partial, start

LEMMA OrderFits ==
  ASSUME NEW N, NEW k \in Nat, IsFiniteSet(N), Cardinality(N) = k, NEW order \in Seq(N),
         \A n \in N : Occurrences(order, n) \in {0, 1}
  PROVE  Len(order) <= k
<1>. DEFINE size == Len(order)
<1>1. size \in Nat /\ DOMAIN order = 1 .. size /\ order \in [1 .. size -> N]
  OBVIOUS
<1>2. \A i, j \in 1 .. size : order[i] = order[j] => i = j
  <2>. SUFFICES ASSUME NEW i \in 1 .. size, NEW j \in 1 .. size, order[i] = order[j] PROVE i = j
    OBVIOUS
  <2>. DEFINE x == order[i]
  <2>0. x \in N /\ x \in ToSet(order)
    BY <1>1 DEF ToSet
  <2>. HIDE DEF x
  <2>1. Occurrences(order, x) # 0
    BY <2>0, OccurrencesCount
  <2>2. Occurrences(order, x) = 1
    BY <2>0, <2>1
  <2>. QED
    BY <1>1, <2>2, OccursAlone DEF x
<1>3. order \in Injection(1 .. size, N)
  BY <1>1, <1>2 DEF Injection, IsInjective
<1>. HIDE DEF size
<1>4. IsFiniteSet(1 .. size) /\ Cardinality(1 .. size) = size
  <2>1. 1 \in Int /\ size \in Int /\ size \in Nat
    BY <1>1
  <2>2. /\ IsFiniteSet(1 .. size)
        /\ Cardinality(1 .. size) = IF 1 > size THEN 0 ELSE size - 1 + 1
    BY <2>1, FS_Interval
  <2>. QED
    BY <2>1, <2>2
<1>5. Cardinality(1 .. size) <= Cardinality(N)
  BY <1>3, FS_Injection
<1>. QED
  BY <1>4, <1>5 DEF size

LEMMA WalkFinishes ==
  ASSUME NEW g, Linked(g)
  PROVE  Finished(g, LevelWalk(g))
<1>. DEFINE N == DOMAIN g.nodes
            k == Cardinality(N)
<1>1. k \in Nat /\ IsFiniteSet(N)
  BY SizeOfIds DEF Linked
<1>2. PICK steps : /\ steps[0] = WalkStart(g)
                   /\ \A i \in 1 .. k : steps[i] = Visits(g, i, steps[i - 1])
                   /\ LevelWalk(g) = steps[k]
  BY <1>1, WalkIsFold
<1>. DEFINE Good == {i \in Nat : Between(g, steps[i], i)}
<1>3. 0 \in Good
  BY <1>2, WalkStarts
<1>4. ASSUME NEW i \in 0 .. k - 1, i \in Good PROVE i + 1 \in Good
  <2>. DEFINE w  == steps[i]
              w2 == steps[i + 1]
  <2>1. i + 1 \in 1 .. k /\ (i + 1) - 1 = i /\ i \in Nat /\ i + 1 \in Nat
    BY <1>1
  <2>2. Between(g, w, i) /\ w2 = Visits(g, i + 1, w)
    <3>1. steps[i + 1] = Visits(g, i + 1, steps[(i + 1) - 1])
      BY <1>2, <2>1
    <3>. QED
      BY <1>4, <2>1, <3>1
  <2>. HIDE DEF w, w2
  <2>3. w.order \in Seq(N) /\ Len(w.order) \in Nat /\ DOMAIN w.order = 1 .. Len(w.order)
    <3>1. w.order \in Seq(N)
      BY <2>2 DEF Between, WalkOK, WalkTyped
    <3>. QED
      BY <3>1
  <2>4. CASE i + 1 \in DOMAIN w.order
    <3>1. w2 = VisitFanout(g, w, w.order[i + 1])
      BY <2>2, <2>4 DEF Visits
    <3>2. Between(g, w2, i + 1)
      BY <2>1, <2>2, <2>3, <2>4, <3>1, FanoutVisited
    <3>. QED
      BY <2>1, <3>2 DEF w2
  <2>5. CASE i + 1 \notin DOMAIN w.order
    <3>1. w2 = w
      BY <2>2, <2>5 DEF Visits
    <3>2. \A j \in 1 .. Len(w.order) : j <= i /\ j <= i + 1
      BY <2>1, <2>3, <2>5
    <3>3. Between(g, w, i + 1)
      <4>1. WalkOK(g, w)
            /\ w.met = {e \in Active(g) :
                          \E j \in 1 .. Len(w.order) : j <= i /\ w.order[j] = g.edges[e].src}
        BY <2>2 DEF Between
      <4>2. w.met = {e \in Active(g) :
                       \E j \in 1 .. Len(w.order) : j <= i + 1 /\ w.order[j] = g.edges[e].src}
        BY <3>2, <4>1
      <4>3. \A j \in 1 .. Len(w.order) : ~(j > i + 1)
        BY <2>1, <2>3, <3>2
      <4>. QED
        BY <4>1, <4>2, <4>3 DEF Between
    <3>. QED
      BY <2>1, <3>1, <3>3 DEF w2
  <2>. QED
    BY <2>4, <2>5
<1>. HIDE DEF Good
<1>5. \A i \in 0 .. k : i \in Good
  <2>. HIDE DEF k
  <2>. QED
    BY <1>1, <1>3, <1>4, BoundedInduction
<1>. DEFINE w == LevelWalk(g)
<1>6. Between(g, w, k)
  <2>1. k \in 0 .. k
    BY <1>1
  <2>. QED
    BY <1>2, <1>5, <2>1 DEF Good
<1>. HIDE DEF w, k
<1>7. w.order \in Seq(N) /\ WalkOK(g, w)
  BY <1>6 DEF Between, WalkOK, WalkTyped
<1>8. Len(w.order) <= k
  <2>. DEFINE order == w.order
  <2>1. \A n \in N : Occurrences(order, n) \in {0, 1}
    BY <1>7 DEF WalkOK, PlacedOnce
  <2>2. order \in Seq(N) /\ Cardinality(N) = k
    BY <1>7 DEF k
  <2>. HIDE DEF order, N
  <2>3. Len(order) <= k
    BY <1>1, <2>1, <2>2, OrderFits DEF k
  <2>. QED
    BY <2>3 DEF order
<1>9. Len(w.order) \in Nat /\ DOMAIN w.order = 1 .. Len(w.order)
  BY <1>7
<1>10. \A s : (\E j \in 1 .. Len(w.order) : j <= k /\ w.order[j] = s) <=> s \in ToSet(w.order)
  <2>1. \A j \in 1 .. Len(w.order) : j <= k
    BY <1>1, <1>8, <1>9 DEF k
  <2>. QED
    BY <1>9, <2>1 DEF ToSet
<1>11. w.met = {e \in Active(g) : g.edges[e].src \in ToSet(w.order)}
  BY <1>6, <1>10 DEF Between
<1>. QED
  BY <1>7, <1>11 DEF Finished, w

(***************************************************************************)
(* What a levelization says of a whole graph: the nodes without a level    *)
(* are those at or after a loop, every other one is on one level, and      *)
(* active edges go to higher levels.                                       *)
(***************************************************************************)
LevelsRight(g, lv) ==
  /\ \A n \in DOMAIN g.nodes : lv.node_level[n] = NoLevel \/ lv.node_level[n] \in Nat
  /\ NodesByLevel(lv) \in Seq(DOMAIN g.nodes)
  /\ \A n \in DOMAIN g.nodes :
       Occurrences(NodesByLevel(lv), n) = IF lv.node_level[n] = NoLevel THEN 0 ELSE 1
  /\ \A p \in ActivePairs(g) : lv.node_level[p[2]] # NoLevel =>
       lv.node_level[p[1]] # NoLevel /\ lv.node_level[p[1]] < lv.node_level[p[2]]
  /\ {n \in DOMAIN g.nodes : lv.node_level[n] = NoLevel} = AfterLoop(g)
  /\ \E last \in Nat \ {0} : /\ Cardinality(DOMAIN lv.level_nodes) = last + 1
                             /\ lv.node_level \in [DOMAIN g.nodes -> 0 .. last \cup {NoLevel}]

LEMMA LastIsAbove ==
  ASSUME NEW g, NEW w, WalkTyped(g, w), LevelsPlaced(g, w),
         NEW last, last = 1 + Max({0} \cup {w.level[n] : n \in ToSet(w.order)})
  PROVE  last \in Nat /\ last > 0 /\ \A n \in ToSet(w.order) : w.level[n] < last
<1>. DEFINE N == DOMAIN g.nodes
            S == {0} \cup {w.level[n] : n \in ToSet(w.order)}
            k == Len(w.order)
<1>1. /\ w.order \in Seq(N) /\ k \in Nat /\ DOMAIN w.order = 1 .. k
      /\ \A j \in 1 .. k : w.order[j] \in N /\ w.order[j] \in ToSet(w.order)
  <2>1. w.order \in Seq(N)
    BY DEF WalkTyped
  <2>. QED
    BY <2>1 DEF ToSet
<1>2. \A n \in ToSet(w.order) : n \in N /\ w.level[n] \in Nat
  <2>1. \A n \in ToSet(w.order) : n \in N
    BY <1>1 DEF ToSet
  <2>. QED
    BY <2>1 DEF LevelsPlaced
<1>3. \E top \in Nat : S \subseteq 0 .. top
  <2>1. CASE k = 0
    <3>1. ToSet(w.order) = {}
      BY <1>1, <2>1 DEF ToSet
    <3>. QED
      BY <3>1
  <2>2. CASE k # 0
    <3>. DEFINE top == w.level[w.order[k]]
    <3>1. k \in 1 .. k
      BY <1>1, <2>2
    <3>2. top \in Nat
      BY <1>1, <1>2, <3>1
    <3>3. \A n \in ToSet(w.order) : w.level[n] <= top
      <4>1. \A n \in ToSet(w.order) : \E j \in 1 .. k : n = w.order[j]
        BY <1>1 DEF ToSet
      <4>2. \A j \in 1 .. k : w.level[w.order[j]] <= w.level[w.order[k]]
        BY <1>1, <3>1 DEF LevelsPlaced
      <4>. QED
        BY <4>1, <4>2
    <3>. HIDE DEF top
    <3>. QED
      BY <1>2, <3>2, <3>3
  <2>. QED
    BY <2>1, <2>2
<1>4. PICK top \in Nat : S \subseteq 0 .. top
  BY <1>3
<1>5. 0 \in S /\ S # {} /\ \A n \in ToSet(w.order) : w.level[n] \in S
  OBVIOUS
<1>. HIDE DEF S
<1>6. Max(S) \in S /\ \A x \in S : x <= Max(S)
  BY <1>4, <1>5, MaxOfNaturals
<1>7. last = 1 + Max(S)
  BY DEF S
<1>8. Max(S) \in Nat
  <2>1. Max(S) \in 0 .. top
    BY <1>4, <1>6
  <2>. QED
    BY <2>1
<1>. QED
  BY <1>2, <1>5, <1>6, <1>7, <1>8

(***************************************************************************)
(* The list of a level: the nodes of the order on that level, and on the   *)
(* last level those put aside.                                             *)
(***************************************************************************)
LevelList(g, w, last, l) ==
  IF l = last THEN w.aside ELSE Kept(w.order, {n \in DOMAIN g.nodes : w.level[n] = l})

LEMMA LevelLists ==
  ASSUME NEW g, NEW w, Linked(g), WalkOK(g, w),
         NEW last \in Nat, \A n \in ToSet(w.order) : w.level[n] < last,
         NEW seqs, seqs = [j \in 1 .. last + 1 |-> LevelList(g, w, last, j - 1)]
  PROVE  /\ Concatenated(seqs) \in Seq(DOMAIN g.nodes)
         /\ \A n \in DOMAIN g.nodes :
              Occurrences(Concatenated(seqs), n) =
                IF n \in ToSet(w.order) \/ n \in ToSet(w.aside) THEN 1 ELSE 0
<1>. DEFINE N == DOMAIN g.nodes
            On(l) == {n \in N : w.level[n] = l}
            order == w.order
            aside == w.aside
<1>1. /\ order \in Seq(N) /\ aside \in Seq(N) /\ PlacedOnce(g, w) /\ LevelsPlaced(g, w)
  BY DEF WalkOK, WalkTyped
<1>2. \A n \in N : /\ Occurrences(order, n) = IF n \in ToSet(order) THEN 1 ELSE 0
                   /\ Occurrences(aside, n) = IF n \in ToSet(aside) THEN 1 ELSE 0
                   /\ ~(n \in ToSet(order) /\ n \in ToSet(aside))
  <2>. SUFFICES ASSUME NEW n \in N
                PROVE  /\ Occurrences(order, n) = IF n \in ToSet(order) THEN 1 ELSE 0
                       /\ Occurrences(aside, n) = IF n \in ToSet(aside) THEN 1 ELSE 0
                       /\ ~(n \in ToSet(order) /\ n \in ToSet(aside))
    OBVIOUS
  <2>1. /\ Occurrences(order, n) = IF Ordered(g, w.met, n) THEN 1 ELSE 0
        /\ Occurrences(aside, n) = IF SetAside(g, w.met, n) THEN 1 ELSE 0
        /\ ~(Ordered(g, w.met, n) /\ SetAside(g, w.met, n))
    BY <1>1 DEF PlacedOnce, Ordered, SetAside
  <2>2. /\ Occurrences(order, n) = 0 <=> n \notin ToSet(order)
        /\ Occurrences(aside, n) = 0 <=> n \notin ToSet(aside)
    <3>. HIDE DEF order, aside, N
    <3>. QED
      BY <1>1, OccurrencesCount
  <2>. QED
    BY <2>1, <2>2
<1>3. \A l : /\ LevelList(g, w, last, l) \in Seq(N)
             /\ \A n \in N : Occurrences(LevelList(g, w, last, l), n) =
                  IF (l = last /\ n \in ToSet(aside))
                       \/ (l # last /\ n \in ToSet(order) /\ w.level[n] = l) THEN 1 ELSE 0
  <2>. SUFFICES ASSUME NEW l
                PROVE  /\ LevelList(g, w, last, l) \in Seq(N)
                       /\ \A n \in N : Occurrences(LevelList(g, w, last, l), n) =
                            IF (l = last /\ n \in ToSet(aside))
                                 \/ (l # last /\ n \in ToSet(order) /\ w.level[n] = l) THEN 1 ELSE 0
    OBVIOUS
  <2>. DEFINE T == On(l)
  <2>1. /\ Kept(order, T) \in Seq(N)
        /\ \A n : Occurrences(Kept(order, T), n) = IF n \in T THEN Occurrences(order, n) ELSE 0
    <3>0. T \subseteq N
      OBVIOUS
    <3>. HIDE DEF T, order, N
    <3>1. /\ Kept(order, T) \in Seq(N \cap T)
          /\ \A n : Occurrences(Kept(order, T), n) = IF n \in T THEN Occurrences(order, n) ELSE 0
      BY <1>1, KeptOccurrences
    <3>2. Seq(N \cap T) \subseteq Seq(N)
      OBVIOUS
    <3>. QED
      BY <3>1, <3>2
  <2>2. LevelList(g, w, last, l) = IF l = last THEN aside ELSE Kept(order, T)
    BY DEF LevelList
  <2>3. \A n \in N : n \in T <=> w.level[n] = l
    OBVIOUS
  <2>. HIDE DEF T, order, aside, N
  <2>4. CASE l = last
    BY <1>1, <1>2, <2>2, <2>4
  <2>5. CASE l # last
    BY <1>2, <2>1, <2>2, <2>3, <2>5
  <2>. QED
    BY <2>4, <2>5
<1>4. /\ seqs \in Seq(Seq(N)) /\ DOMAIN seqs = 1 .. last + 1
      /\ \A j \in 1 .. last + 1 : seqs[j] = LevelList(g, w, last, j - 1)
  <2>1. \A j \in 1 .. last + 1 : LevelList(g, w, last, j - 1) \in Seq(N)
    BY <1>3
  <2>. DEFINE T    == Seq(N)
              F(j) == LevelList(g, w, last, j - 1)
              size == last + 1
              all  == [j \in 1 .. size |-> F(j)]
  <2>2. size \in Nat /\ seqs = all /\ \A j \in 1 .. size : F(j) \in T
    BY <2>1
  <2>3. all \in Seq(T) /\ DOMAIN all = 1 .. size /\ \A j \in 1 .. size : all[j] = F(j)
    <3>1. size \in Nat /\ \A j \in 1 .. size : F(j) \in T
      BY <2>2
    <3>. HIDE DEF T, F, size
    <3>. QED
      BY <3>1
  <2>. HIDE DEF T, F, size
  <2>. QED
    BY <2>2, <2>3 DEF T, F, size
<1>5. Concatenated(seqs) \in Seq(N)
  <2>. HIDE DEF N
  <2>. QED
    BY <1>4, ConcatenatedTyped
<1>6. ASSUME NEW n \in N
      PROVE  Occurrences(Concatenated(seqs), n) =
               IF n \in ToSet(order) \/ n \in ToSet(aside) THEN 1 ELSE 0
  <2>. DEFINE Here(k) == /\ k \in 1 .. last + 1 /\ Occurrences(seqs[k], n) = 1
                         /\ \A j \in 1 .. last + 1 : j # k => Occurrences(seqs[j], n) = 0
  <2>1. /\ NowhereIn(n, seqs) => Occurrences(Concatenated(seqs), n) = 0
        /\ \A k \in DOMAIN seqs : OnlyAt(n, k, seqs) =>
             Occurrences(Concatenated(seqs), n) = Occurrences(seqs[k], n)
    <3>. HIDE DEF N
    <3>. QED
      BY <1>4, ConcatenatedOccurrences
  <2>2. \A k : Here(k) => Occurrences(Concatenated(seqs), n) = 1
    BY <1>4, <2>1 DEF OnlyAt
  <2>3. \A j \in 1 .. last + 1 :
          Occurrences(seqs[j], n) =
            IF (j = last + 1 /\ n \in ToSet(aside))
                 \/ (j # last + 1 /\ n \in ToSet(order) /\ w.level[n] = j - 1) THEN 1 ELSE 0
    <3>1. \A j \in 1 .. last + 1 : j - 1 = last <=> j = last + 1
      OBVIOUS
    <3>. HIDE DEF N, order, aside
    <3>. QED
      BY <1>3, <1>4, <3>1
  <2>. HIDE DEF Here
  <2>4. CASE n \in ToSet(aside)
    <3>1. n \notin ToSet(order) /\ last + 1 \in 1 .. last + 1
      BY <1>2, <2>4
    <3>. HIDE DEF order, aside, N
    <3>2. Here(last + 1)
      BY <2>3, <2>4, <3>1 DEF Here
    <3>. QED
      BY <2>2, <2>4, <3>2
  <2>5. CASE n \in ToSet(order)
    <3>1. n \notin ToSet(aside)
      BY <1>2, <2>5
    <3>2. w.level[n] \in Nat /\ w.level[n] < last
      BY <1>1, <2>5 DEF LevelsPlaced
    <3>. DEFINE k == w.level[n] + 1
    <3>3. k \in 1 .. last + 1 /\ k # last + 1 /\ k - 1 = w.level[n]
      BY SMTT(30), <3>2
    <3>4. \A j \in 1 .. last + 1 : w.level[n] = j - 1 <=> j = k
      <4>. DEFINE x == w.level[n]
      <4>1. x \in Nat /\ k = x + 1
        BY <3>2
      <4>. HIDE DEF x, k
      <4>2. \A j \in 1 .. last + 1 : x = j - 1 <=> j = k
        BY <4>1
      <4>. QED
        BY <4>2 DEF x
    <3>. HIDE DEF k, order, aside, N
    <3>5. Here(k)
      BY <2>3, <2>5, <3>1, <3>3, <3>4 DEF Here
    <3>. QED
      BY <2>2, <2>5, <3>5
  <2>6. CASE n \notin ToSet(aside) /\ n \notin ToSet(order)
    <3>. HIDE DEF order, aside, N
    <3>1. \A j \in 1 .. last + 1 : Occurrences(seqs[j], n) = 0
      BY <2>3, <2>6
    <3>2. NowhereIn(n, seqs)
      BY <1>4, <3>1 DEF NowhereIn
    <3>. QED
      BY <2>1, <2>6, <3>2
  <2>. QED
    BY <2>4, <2>5, <2>6
<1>. QED
  BY <1>5, <1>6

(***************************************************************************)
(* The levels as lists, one after the other.                               *)
(***************************************************************************)
LastOf(w) == 1 + Max({0} \cup {w.level[n] : n \in ToSet(w.order)})

LEMMA LevelsListed ==
  ASSUME NEW g, Linked(g), NEW w, w = LevelWalk(g), NEW lv, lv = force_levelize(g),
         NEW last, last = LastOf(w),
         NEW seqs, seqs = [j \in 1 .. last + 1 |-> LevelList(g, w, last, j - 1)]
  PROVE  /\ last \in Nat /\ last > 0 /\ \A n \in ToSet(w.order) : w.level[n] < last
         /\ Cardinality(DOMAIN lv.level_nodes) = last + 1
         /\ NodesByLevel(lv) = Concatenated(seqs)
<1>1. lv.level_nodes = [l \in 0 .. last |-> LevelList(g, w, last, l)]
  BY DEF force_levelize, LevelizationOf, LevelList, LastOf
<1>2. Finished(g, w)
  BY WalkFinishes
<1>3. last \in Nat /\ last > 0 /\ \A n \in ToSet(w.order) : w.level[n] < last
  <2>1. WalkTyped(g, w) /\ LevelsPlaced(g, w)
    BY <1>2 DEF Finished, WalkOK
  <2>. QED
    BY <2>1, LastIsAbove DEF LastOf
<1>4. Cardinality(DOMAIN lv.level_nodes) = last + 1
  <2>1. DOMAIN lv.level_nodes = 0 .. (last + 1) - 1 /\ last + 1 \in Nat
    BY <1>1, <1>3
  <2>2. Cardinality(0 .. (last + 1) - 1) = last + 1
    BY <2>1, SizeOfRange
  <2>. QED
    BY <2>1, <2>2
<1>5. \A j \in 1 .. last + 1 : lv.level_nodes[j - 1] = LevelList(g, w, last, j - 1)
  <2>1. \A j \in 1 .. last + 1 : j - 1 \in 0 .. last
    BY <1>3
  <2>. QED
    BY <1>1, <2>1
<1>6. [j \in 1 .. last + 1 |-> lv.level_nodes[j - 1]] =
        [j \in 1 .. last + 1 |-> LevelList(g, w, last, j - 1)]
  BY <1>5
<1>. QED
  BY <1>1, <1>3, <1>4, <1>6 DEF NodesByLevel

LEMMA LevelizationLevels ==
  ASSUME NEW g, Whole(g), NEW lv, lv = force_levelize(g)
  PROVE  LevelsRight(g, lv)
<1>. DEFINE N     == DOMAIN g.nodes
            E     == DOMAIN g.edges
            level == lv.node_level
<1>0. PICK w, last : w = LevelWalk(g) /\ last = LastOf(w)
  OBVIOUS
<1>1. Linked(g) /\ ValidIds(g.edges) = E
  BY WholeIsLinked DEF Whole, EdgesFull
<1>2. level = [n \in N |-> IF n \in ToSet(w.aside) THEN last ELSE w.level[n]]
  BY <1>0 DEF force_levelize, LevelizationOf, LastOf
<1>3. Finished(g, w)
  BY <1>0, <1>1, WalkFinishes
<1>4. /\ WalkOK(g, w) /\ WalkTyped(g, w) /\ PlacedOnce(g, w) /\ LevelsPlaced(g, w) /\ MetRises(g, w)
      /\ w.met = {e \in Active(g) : g.edges[e].src \in ToSet(w.order)}
  BY <1>3 DEF Finished, WalkOK
<1>5. PICK seqs : seqs = [j \in 1 .. last + 1 |-> LevelList(g, w, last, j - 1)]
  OBVIOUS
<1>6. /\ last \in Nat /\ last > 0 /\ \A n \in ToSet(w.order) : w.level[n] < last
      /\ Cardinality(DOMAIN lv.level_nodes) = last + 1 /\ NodesByLevel(lv) = Concatenated(seqs)
  <2>1. Linked(g)
    BY <1>1
  <2>. HIDE DEF N, E, level
  <2>. QED
    BY <1>0, <1>5, <2>1, LevelsListed
<1>7. /\ NodesByLevel(lv) \in Seq(N)
      /\ \A n \in N : Occurrences(NodesByLevel(lv), n) =
                        IF n \in ToSet(w.order) \/ n \in ToSet(w.aside) THEN 1 ELSE 0
  <2>1. /\ Concatenated(seqs) \in Seq(DOMAIN g.nodes)
        /\ \A n \in DOMAIN g.nodes :
             Occurrences(Concatenated(seqs), n) =
               IF n \in ToSet(w.order) \/ n \in ToSet(w.aside) THEN 1 ELSE 0
    BY SMTT(30), <1>1, <1>4, <1>5, <1>6, LevelLists
  <2>. QED
    BY <1>6, <2>1
<1>8. \A n \in N : /\ n \in ToSet(w.order) <=> Ordered(g, w.met, n)
                   /\ n \in ToSet(w.aside) <=> SetAside(g, w.met, n)
  <2>. SUFFICES ASSUME NEW n \in N
                PROVE  /\ n \in ToSet(w.order) <=> Ordered(g, w.met, n)
                       /\ n \in ToSet(w.aside) <=> SetAside(g, w.met, n)
    OBVIOUS
  <2>. DEFINE order == w.order
              aside == w.aside
  <2>1. order \in Seq(N) /\ aside \in Seq(N)
    BY <1>4 DEF WalkTyped
  <2>2. /\ Occurrences(order, n) = IF Ordered(g, w.met, n) THEN 1 ELSE 0
        /\ Occurrences(aside, n) = IF SetAside(g, w.met, n) THEN 1 ELSE 0
    BY <1>4 DEF PlacedOnce
  <2>3. /\ Occurrences(order, n) = 0 <=> n \notin ToSet(order)
        /\ Occurrences(aside, n) = 0 <=> n \notin ToSet(aside)
    <3>. HIDE DEF order, aside, N
    <3>. QED
      BY <2>1, OccurrencesCount
  <2>. QED
    BY <2>2, <2>3
<1>9. \A n \in N : IF n \in ToSet(w.aside) THEN level[n] = last
                   ELSE IF n \in ToSet(w.order) THEN level[n] = w.level[n] /\ w.level[n] \in Nat
                   ELSE level[n] = NoLevel
  BY <1>2, <1>4 DEF LevelsPlaced
<1>10. \A n \in N : /\ level[n] = NoLevel \/ level[n] \in Nat
                    /\ level[n] # NoLevel <=> n \in ToSet(w.order) \/ n \in ToSet(w.aside)
                    /\ level[n] # NoLevel <=> ActiveIn(g, n) \subseteq w.met
  <2>1. \A n \in N : Ordered(g, w.met, n) \/ SetAside(g, w.met, n) <=> ActiveIn(g, n) \subseteq w.met
    BY SMTT(30) DEF Ordered, SetAside
  <2>. QED
    BY <1>6, <1>8, <1>9, <2>1 DEF NoLevel
<1>11. \A e \in Active(g) :
         /\ g.edges[e].src \in N /\ g.edges[e].sink \in N /\ e \in ActiveIn(g, g.edges[e].sink)
         /\ g.nodes[g.edges[e].src].out # <<>>
  <2>. SUFFICES ASSUME NEW e \in Active(g)
                PROVE  /\ g.edges[e].src \in N /\ g.edges[e].sink \in N
                       /\ e \in ActiveIn(g, g.edges[e].sink)
                       /\ g.nodes[g.edges[e].src].out # <<>>
    OBVIOUS
  <2>1. e \in E /\ IsActive(g, e) /\ g.edges[e].src \in N /\ g.edges[e].sink \in N
    BY <1>1 DEF Active, Linked
  <2>2. /\ e \in ToSet(g.nodes[g.edges[e].sink].in)
        /\ e \in ToSet(g.nodes[g.edges[e].src].out)
    BY <1>1, <2>1 DEF Linked
  <2>. QED
    BY <2>1, <2>2 DEF ActiveIn, ToSet
<1>12. \A p : p \in ActivePairs(g) <=>
         \E e \in Active(g) : p = <<g.edges[e].src, g.edges[e].sink>>
  BY <1>1 DEF ActivePairs, Active
<1>13. ASSUME NEW e \in Active(g), level[g.edges[e].sink] # NoLevel
       PROVE  /\ level[g.edges[e].src] # NoLevel
              /\ level[g.edges[e].src] < level[g.edges[e].sink]
  <2>. DEFINE m == g.edges[e].src
              n == g.edges[e].sink
  <2>1. m \in N /\ n \in N /\ e \in w.met /\ g.nodes[m].out # <<>>
    BY <1>10, <1>11, <1>13
  <2>2. m \in ToSet(w.order) /\ (n \in ToSet(w.order) => w.level[m] < w.level[n])
    BY <1>4, <2>1 DEF MetRises
  <2>3. m \notin ToSet(w.aside)
    BY <1>8, <2>1 DEF SetAside
  <2>4. level[m] = w.level[m] /\ w.level[m] \in Nat /\ w.level[m] < last
    BY <1>6, <1>9, <2>1, <2>2, <2>3
  <2>5. CASE n \in ToSet(w.aside)
    BY <1>9, <2>1, <2>4, <2>5 DEF NoLevel
  <2>6. CASE n \notin ToSet(w.aside)
    BY <1>9, <1>10, <1>13, <2>1, <2>2, <2>4, <2>6 DEF NoLevel
  <2>. QED
    BY <2>5, <2>6
<1>14. \A p \in ActivePairs(g) : level[p[2]] # NoLevel =>
         level[p[1]] # NoLevel /\ level[p[1]] < level[p[2]]
  <2>. SUFFICES ASSUME NEW p \in ActivePairs(g), level[p[2]] # NoLevel
                PROVE  level[p[1]] # NoLevel /\ level[p[1]] < level[p[2]]
    OBVIOUS
  <2>1. PICK e \in Active(g) : p = <<g.edges[e].src, g.edges[e].sink>>
    BY <1>12
  <2>2. p[1] = g.edges[e].src /\ p[2] = g.edges[e].sink
    BY <2>1
  <2>. QED
    BY <1>13, <2>2
<1>. DEFINE U == {n \in N : level[n] = NoLevel}
<1>15. ASSUME NEW n \in U PROVE \E m \in U : <<m, n>> \in ActivePairs(g)
  <2>1. PICK e \in ActiveIn(g, n) : e \notin w.met
    BY <1>10
  <2>2. e \in Active(g) /\ g.edges[e].sink = n
    <3>1. e \in ToSet(g.nodes[n].in) /\ IsActive(g, e)
      BY DEF ActiveIn
    <3>. QED
      BY <1>1, <3>1 DEF Linked, Active
  <2>. DEFINE m == g.edges[e].src
  <2>3. m \in N /\ m \notin ToSet(w.order) /\ g.nodes[m].out # <<>>
    BY <1>4, <1>11, <2>1, <2>2
  <2>4. m \notin ToSet(w.aside)
    BY <1>8, <2>3 DEF SetAside
  <2>5. m \in U
    BY <1>10, <2>3, <2>4
  <2>6. <<m, n>> \in ActivePairs(g)
    BY <1>12, <2>2
  <2>. QED
    BY <2>5, <2>6
<1>16. ASSUME NEW X \in SUBSET N, \A n \in X : \E m \in X : <<m, n>> \in ActivePairs(g)
       PROVE  X \subseteq U
  <2>. DEFINE Good == {l \in Nat : \A n \in X : level[n] # NoLevel => level[n] >= l}
  <2>1. 0 \in Good
    BY <1>10
  <2>2. ASSUME NEW l \in Nat, l \in Good PROVE l + 1 \in Good
    <3>. SUFFICES ASSUME NEW n \in X, level[n] # NoLevel PROVE level[n] >= l + 1
      OBVIOUS
    <3>1. PICK m \in X : <<m, n>> \in ActivePairs(g)
      BY <1>16
    <3>2. level[m] # NoLevel /\ level[m] < level[n]
      <4>. DEFINE p == <<m, n>>
      <4>1. p \in ActivePairs(g) /\ p[1] = m /\ p[2] = n
        BY <3>1
      <4>. QED
        BY <1>14, <4>1
    <3>3. level[m] >= l /\ level[m] \in Nat /\ level[n] \in Nat
      BY <1>10, <2>2, <3>2
    <3>. QED
      BY <3>2, <3>3
  <2>. HIDE DEF Good
  <2>3. \A l \in Nat : l \in Good
    BY <2>1, <2>2, SetInduction
  <2>. SUFFICES ASSUME NEW n \in X, level[n] # NoLevel PROVE FALSE
    BY DEF U
  <2>4. level[n] \in Nat /\ level[n] + 1 \in Nat
    BY <1>10
  <2>5. level[n] >= level[n] + 1
    BY <2>3, <2>4 DEF Good
  <2>. QED
    BY <2>4, <2>5
<1>17. U = AfterLoop(g)
  <2>1. U \in SUBSET N
    OBVIOUS
  <2>. HIDE DEF U
  <2>. QED
    BY <1>15, <1>16, <2>1 DEF AfterLoop
<1>18. \A n \in N : Occurrences(NodesByLevel(lv), n) = IF level[n] = NoLevel THEN 0 ELSE 1
  BY <1>7, <1>10
<1>20. level \in [N -> 0 .. last \cup {NoLevel}]
  <2>1. \A n \in N : level[n] \in 0 .. last \cup {NoLevel}
    BY <1>6, <1>9
  <2>. QED
    BY <1>2, <2>1
<1>21. \E top \in Nat \ {0} : /\ Cardinality(DOMAIN lv.level_nodes) = top + 1
                            /\ level \in [N -> 0 .. top \cup {NoLevel}]
  BY <1>6, <1>20
<1>. QED
  BY <1>7, <1>10, <1>14, <1>17, <1>18, <1>21 DEF LevelsRight

(***************************************************************************)
(* compress_ids for nodes and edges leaves a whole graph.                  *)
(***************************************************************************)
LEMMA CompressedIsWhole ==
  ASSUME NEW g, Sound(g), NEW nm, nm = compress_ids(g.nodes), NEW em, em = compress_ids(g.edges),
         NEW mid, mid = remap_nodes(g, nm)
  PROVE  /\ Renumbers(nm, g.nodes) /\ Renumbers(em, g.edges) /\ Renumbers(em, mid.edges)
         /\ Sound(mid) /\ Whole(remap_edges(mid, em))
<1>1. IdRange(DOMAIN g.nodes) /\ IdRange(DOMAIN g.edges)
  BY DEF Sound, Typed
<1>2. Renumbers(nm, g.nodes) /\ Renumbers(em, g.edges)
  <2>. DEFINE f == g.nodes
              h == g.edges
  <2>. HIDE DEF f, h
  <2>1. Renumbers(compress_ids(f), f) /\ Renumbers(compress_ids(h), h)
    BY SMTT(30), <1>1, CompressRenumbers DEF f, h
  <2>. QED
    BY <2>1 DEF f, h
<1>3. /\ Sound(mid) /\ NodesFull(mid)
      /\ DOMAIN mid.edges = DOMAIN g.edges /\ ValidIds(mid.edges) = ValidIds(g.edges)
  <2>1. NodesMoved(g, nm, mid)
    BY <1>2, NodesRemapped
  <2>. QED
    BY <2>1 DEF NodesMoved
<1>4. Renumbers(em, mid.edges)
  BY SMTT(30), <1>2, <1>3 DEF Renumbers
<1>. DEFINE r == remap_edges(mid, em)
<1>. HIDE DEF r
<1>5. /\ Sound(r) /\ EdgesFull(r)
      /\ DOMAIN r.nodes = DOMAIN mid.nodes /\ ValidIds(r.nodes) = ValidIds(mid.nodes)
  <2>1. EdgesMoved(mid, em, r)
    BY <1>3, <1>4, EdgesRemapped DEF r
  <2>. QED
    BY <2>1 DEF EdgesMoved
<1>. QED
  BY <1>2, <1>3, <1>4, <1>5 DEF Whole, NodesFull, r

(***************************************************************************)
(* optimize_layout's maps.  Renumbering the nodes makes no loop, so the    *)
(* levelization of the renumbered graph places every node, too.            *)
(***************************************************************************)
LEMMA NoLoopMade ==
  ASSUME NEW g, Whole(g), NEW map, Renumbers(map, g.nodes), AfterLoop(g) = {},
         NEW r, r = remap_nodes(g, map)
  PROVE  AfterLoop(r) = {}
<1>. DEFINE N == DOMAIN g.nodes
<1>1. ValidIds(g.nodes) = N /\ ValidIds(g.edges) = DOMAIN g.edges /\ Sound(g) /\ Typed(g)
  BY DEF Whole, NodesFull, EdgesFull, Sound
<1>2. /\ DOMAIN r.edges = DOMAIN g.edges /\ ValidIds(r.edges) = ValidIds(g.edges)
      /\ \A e \in DOMAIN g.edges :
           r.edges[e] = [g.edges[e] EXCEPT !.src = map[@], !.sink = map[@]]
      /\ \A m \in DOMAIN r.nodes : \E n \in ValidIds(g.nodes) : m = map[n]
  <2>1. NodesMoved(g, map, r)
    BY <1>1, NodesRemapped
  <2>. QED
    BY <2>1 DEF NodesMoved
<1>3. \A e \in DOMAIN g.edges :
        /\ r.edges[e].src = map[g.edges[e].src] /\ r.edges[e].sink = map[g.edges[e].sink]
        /\ r.edges[e].disabled = g.edges[e].disabled
  BY ZenonT(40), <1>1, <1>2 DEF Typed, EdgeShape
<1>4. \A e \in DOMAIN g.edges : g.edges[e].src \in N /\ g.edges[e].sink \in N
  BY <1>1 DEF Sound, EndsListed
<1>5. \A x, y \in N : map[x] = map[y] => x = y
  BY <1>1 DEF Renumbers
<1>6. ASSUME NEW X \in SUBSET DOMAIN r.nodes,
             \A n \in X : \E m \in X : <<m, n>> \in ActivePairs(r)
      PROVE  X = {}
  <2>. DEFINE Y == {n \in N : map[n] \in X}
  <2>1. ASSUME NEW n \in Y PROVE \E m \in Y : <<m, n>> \in ActivePairs(g)
    <3>1. PICK k \in X : <<k, map[n]>> \in ActivePairs(r)
      BY <1>6
    <3>2. PICK e \in ValidIds(r.edges) :
            IsActive(r, e) /\ <<k, map[n]>> = <<r.edges[e].src, r.edges[e].sink>>
      BY <3>1 DEF ActivePairs
    <3>3. e \in DOMAIN g.edges /\ IsActive(g, e)
      BY <1>1, <1>2, <1>3, <3>2 DEF IsActive
    <3>4. k = map[g.edges[e].src] /\ map[n] = map[g.edges[e].sink]
      BY <1>3, <3>2, <3>3
    <3>5. g.edges[e].sink = n /\ g.edges[e].src \in Y
      BY <1>4, <1>5, <3>3, <3>4
    <3>6. <<g.edges[e].src, n>> \in ActivePairs(g)
      BY <1>1, <3>3, <3>5 DEF ActivePairs
    <3>. QED
      BY <3>5, <3>6
  <2>2. Y \in SUBSET N
    OBVIOUS
  <2>3. Y = {}
    <3>. HIDE DEF Y
    <3>1. Y \subseteq AfterLoop(g)
      BY <2>1, <2>2 DEF AfterLoop
    <3>. QED
      BY <3>1
  <2>4. \A m \in X : \E n \in Y : m = map[n]
    BY ZenonT(40), <1>1, <1>2
  <2>. QED
    BY <2>3, <2>4
<1>. QED
  BY <1>6 DEF AfterLoop

LEMMA NodesOrderedOnce ==
  ASSUME NEW g, Whole(g), NEW lv, LevelsRight(g, lv), AfterLoop(g) = {},
         NEW order, order = NodesByLevel(lv)
  PROVE  /\ order \in Seq(DOMAIN g.nodes) /\ ToSet(order) = DOMAIN g.nodes
         /\ \A n \in DOMAIN g.nodes : Occurrences(order, n) = 1
         /\ Renumbers(Position(order), g.nodes)
         /\ \A i \in DOMAIN order : Position(order)[order[i]] = i - 1
<1>. DEFINE f == g.nodes
            N == DOMAIN f
<1>1. order \in Seq(N) /\ \A n \in N : Occurrences(order, n) = 1
  BY DEF LevelsRight
<1>2. ValidIds(f) = DOMAIN f
  BY DEF Whole, NodesFull
<1>. HIDE DEF f
<1>3. ToSet(order) = N
  <2>1. ToSet(order) \subseteq N
    BY <1>1 DEF ToSet
  <2>2. ASSUME NEW n \in N PROVE n \in ToSet(order)
    <3>. HIDE DEF N
    <3>1. Occurrences(order, n) # 0
      BY <1>1
    <3>. QED
      BY <1>1, <3>1, OccurrencesCount
  <2>. QED
    BY <2>1, <2>2
<1>4. Renumbers(Position(order), f) /\ \A i \in DOMAIN order : Position(order)[order[i]] = i - 1
  BY <1>1, <1>2, <1>3, PositionRenumbers
<1>. QED
  BY <1>1, <1>3, <1>4 DEF f

LEMMA EdgesOrderedOnce ==
  ASSUME NEW g, Whole(g), NEW order \in Seq(DOMAIN g.nodes), ToSet(order) = DOMAIN g.nodes,
         \A n \in DOMAIN g.nodes : Occurrences(order, n) = 1,
         NEW all, all = Concatenated([i \in DOMAIN order |-> g.nodes[order[i]].in])
  PROVE  /\ Renumbers(Position(all), g.edges)
         /\ all \in Seq(DOMAIN g.edges) /\ ToSet(all) = DOMAIN g.edges
         /\ \A i \in DOMAIN all : Position(all)[all[i]] = i - 1
<1>. DEFINE N    == DOMAIN g.nodes
            f    == g.edges
            E    == DOMAIN f
            seqs == [i \in DOMAIN order |-> g.nodes[order[i]].in]
            k    == Len(order)
<1>1. Linked(g) /\ ValidIds(f) = E
  BY WholeIsLinked DEF Whole, EdgesFull
<1>2. /\ k \in Nat /\ DOMAIN order = 1 .. k /\ \A i \in 1 .. k : order[i] \in N
      /\ DOMAIN seqs = 1 .. k /\ \A i \in 1 .. k : seqs[i] = g.nodes[order[i]].in
  OBVIOUS
<1>3. /\ \A n \in N : g.nodes[n].in \in Seq(E)
      /\ \A n \in N : \A e \in E : Occurrences(g.nodes[n].in, e) = IF g.edges[e].sink = n THEN 1 ELSE 0
      /\ \A e \in E : g.edges[e].sink \in N
  <2>1. \A n \in N : g.nodes[n].in \in Seq(E)
                     /\ ToSet(g.nodes[n].in) = {e \in E : g.edges[e].sink = n}
                     /\ \A e \in ToSet(g.nodes[n].in) : Occurrences(g.nodes[n].in, e) = 1
    BY <1>1 DEF Linked
  <2>2. ASSUME NEW n \in N, NEW e \in E
        PROVE  Occurrences(g.nodes[n].in, e) = IF g.edges[e].sink = n THEN 1 ELSE 0
    <3>. DEFINE in == g.nodes[n].in
    <3>1. in \in Seq(E) /\ (e \in ToSet(in) <=> g.edges[e].sink = n)
          /\ (e \in ToSet(in) => Occurrences(in, e) = 1)
      BY <2>1
    <3>. HIDE DEF in, E
    <3>2. Occurrences(in, e) = 0 <=> e \notin ToSet(in)
      BY <3>1, OccurrencesCount
    <3>. QED
      BY <3>1, <3>2 DEF in
  <2>3. \A e \in E : g.edges[e].sink \in N
    BY <1>1 DEF Linked
  <2>. QED
    BY <2>1, <2>2, <2>3
<1>4. seqs \in Seq(Seq(E))
  <2>. DEFINE T    == Seq(E)
              F(i) == g.nodes[order[i]].in
  <2>1. seqs = [i \in 1 .. k |-> F(i)] /\ \A i \in 1 .. k : F(i) \in T
    BY <1>2, <1>3
  <2>. HIDE DEF T, F, k, seqs
  <2>2. seqs \in Seq(T)
    BY <1>2, <2>1
  <2>. QED
    BY <2>2 DEF T
<1>5. all = Concatenated(seqs)
  OBVIOUS
<1>. HIDE DEF seqs, k
<1>6. all \in Seq(E)
  <2>. HIDE DEF E
  <2>. QED
    BY <1>4, <1>5, ConcatenatedTyped
<1>7. ASSUME NEW e \in E PROVE Occurrences(all, e) = 1
  <2>. DEFINE n == g.edges[e].sink
  <2>1. n \in N
    BY <1>3
  <2>2. PICK p \in 1 .. k : order[p] = n
    BY <1>2, <2>1 DEF ToSet
  <2>3. \A j \in 1 .. k : order[j] = n => j = p
    <3>. SUFFICES ASSUME NEW j \in 1 .. k, order[j] = n PROVE j = p
      OBVIOUS
    <3>1. j \in DOMAIN order /\ p \in DOMAIN order /\ order[j] = order[p]
          /\ Occurrences(order, order[j]) = 1
      BY <1>2, <2>1, <2>2
    <3>. HIDE DEF N, n
    <3>. QED
      BY <3>1, OccursAlone
  <2>4. /\ Occurrences(seqs[p], e) = 1
        /\ \A j \in 1 .. k : j # p => Occurrences(seqs[j], e) = 0
    <3>1. \A j \in 1 .. k : seqs[j] = g.nodes[order[j]].in /\ order[j] \in N
      BY <1>2
    <3>2. \A j \in 1 .. k : Occurrences(seqs[j], e) = IF order[j] = n THEN 1 ELSE 0
      <4>. SUFFICES ASSUME NEW j \in 1 .. k
                    PROVE  Occurrences(seqs[j], e) = IF order[j] = n THEN 1 ELSE 0
        OBVIOUS
      <4>1. seqs[j] = g.nodes[order[j]].in /\ order[j] \in N
        BY <3>1
      <4>2. Occurrences(g.nodes[order[j]].in, e) = IF g.edges[e].sink = order[j] THEN 1 ELSE 0
        BY <1>3, <4>1
      <4>. QED
        BY <4>1, <4>2
    <3>. QED
      BY <2>2, <2>3, <3>2
  <2>5. \A q \in DOMAIN seqs : OnlyAt(e, q, seqs) =>
             Occurrences(Concatenated(seqs), e) = Occurrences(seqs[q], e)
    <3>. HIDE DEF E
    <3>. QED
      BY <1>4, ConcatenatedOccurrences
  <2>6. OnlyAt(e, p, seqs)
    BY <1>2, <2>4 DEF OnlyAt
  <2>. QED
    BY <1>2, <1>5, <2>4, <2>5, <2>6
<1>8. ToSet(all) = E
  <2>1. ToSet(all) \subseteq E
    BY <1>6 DEF ToSet
  <2>2. ASSUME NEW e \in E PROVE e \in ToSet(all)
    <3>1. Occurrences(all, e) # 0
      BY <1>7
    <3>. HIDE DEF E
    <3>. QED
      BY <1>6, <3>1, OccurrencesCount
  <2>. QED
    BY <2>1, <2>2
<1>. HIDE DEF f
<1>9. Renumbers(Position(all), f) /\ \A i \in DOMAIN all : Position(all)[all[i]] = i - 1
  BY <1>1, <1>6, <1>7, <1>8, PositionRenumbers
<1>. QED
  BY <1>6, <1>8, <1>9 DEF f

LEMMA OptimizedIsWhole ==
  ASSUME NEW g, Whole(g), NEW lv, lv = force_levelize(g),
         \A n \in DOMAIN g.nodes : lv.node_level[n] # NoLevel,
         NEW nm, nm = optimize_node_layout(lv), NEW mid, mid = remap_nodes(g, nm),
         NEW em, em = optimize_edge_layout(mid, force_levelize(mid))
  PROVE  /\ Renumbers(nm, g.nodes) /\ Renumbers(em, g.edges) /\ Renumbers(em, mid.edges)
         /\ Sound(mid) /\ Whole(remap_edges(mid, em))
<1>1. LevelsRight(g, lv)
  BY LevelizationLevels
<1>2. AfterLoop(g) = {} /\ Sound(g)
  BY <1>1 DEF LevelsRight, Whole
<1>. DEFINE order == NodesByLevel(lv)
<1>. HIDE DEF order
<1>3. Renumbers(nm, g.nodes)
  <2>1. Renumbers(Position(order), g.nodes)
    BY <1>1, <1>2, NodesOrderedOnce DEF order
  <2>. QED
    BY <2>1 DEF optimize_node_layout, order
<1>4. /\ Sound(mid) /\ NodesFull(mid)
      /\ DOMAIN mid.edges = DOMAIN g.edges /\ ValidIds(mid.edges) = ValidIds(g.edges)
  <2>1. NodesMoved(g, nm, mid)
    BY <1>2, <1>3, NodesRemapped
  <2>. QED
    BY <2>1 DEF NodesMoved
<1>5. Whole(mid)
  BY <1>4 DEF Whole, EdgesFull
<1>6. AfterLoop(mid) = {}
  BY <1>2, <1>3, NoLoopMade
<1>. DEFINE lv2  == force_levelize(mid)
            walk == NodesByLevel(lv2)
            all  == Concatenated([i \in DOMAIN walk |-> mid.nodes[walk[i]].in])
<1>. HIDE DEF lv2, walk, all
<1>7. LevelsRight(mid, lv2)
  BY <1>5, LevelizationLevels DEF lv2
<1>8. /\ walk \in Seq(DOMAIN mid.nodes) /\ ToSet(walk) = DOMAIN mid.nodes
      /\ \A n \in DOMAIN mid.nodes : Occurrences(walk, n) = 1
  BY <1>5, <1>6, <1>7, NodesOrderedOnce DEF walk
<1>9. Renumbers(Position(all), mid.edges)
  BY <1>5, <1>8, EdgesOrderedOnce DEF all
<1>10. em = Position(all)
  BY DEF optimize_edge_layout, all, walk, lv2
<1>11. Renumbers(em, mid.edges) /\ Renumbers(em, g.edges)
  BY <1>4, <1>9, <1>10 DEF Renumbers
<1>. DEFINE r == remap_edges(mid, em)
<1>. HIDE DEF r
<1>12. /\ Sound(r) /\ EdgesFull(r)
       /\ DOMAIN r.nodes = DOMAIN mid.nodes /\ ValidIds(r.nodes) = ValidIds(mid.nodes)
  <2>1. EdgesMoved(mid, em, r)
    BY <1>4, <1>11, EdgesRemapped DEF r
  <2>. QED
    BY <2>1 DEF EdgesMoved
<1>. QED
  BY <1>3, <1>4, <1>11, <1>12 DEF Whole, NodesFull, r

(***************************************************************************)
(* Two numberings of one graph.  The walk over the one visits what the     *)
(* walk over the other visits, step by step, if both start alike.          *)
(***************************************************************************)
Bijective(f, S, T) ==
  /\ f \in [S -> T]
  /\ \A x, y \in S : f[x] = f[y] => x = y
  /\ \A z \in T : \E x \in S : z = f[x]

Renamed(g, h, nm, em) ==
  /\ Bijective(nm, DOMAIN g.nodes, DOMAIN h.nodes) /\ Bijective(em, DOMAIN g.edges, DOMAIN h.edges)
  /\ \A n \in DOMAIN g.nodes : h.nodes[nm[n]].out = Mapped(g.nodes[n].out, em)
  /\ \A e \in DOMAIN g.edges : /\ h.edges[em[e]].sink = nm[g.edges[e].sink]
                               /\ h.edges[em[e]].disabled = g.edges[e].disabled

Shaped(N, w) ==
  /\ w = [order |-> w.order, level |-> w.level, met |-> w.met, aside |-> w.aside]
  /\ w.order \in Seq(N) /\ w.aside \in Seq(N) /\ w.level \in [N -> Int]

Alike(g, h, nm, em, w, v) ==
  /\ Shaped(DOMAIN g.nodes, w) /\ Shaped(DOMAIN h.nodes, v)
  /\ v.order = Mapped(w.order, nm) /\ v.aside = Mapped(w.aside, nm)
  /\ \A e \in DOMAIN g.edges : em[e] \in v.met <=> e \in w.met
  /\ \A n \in DOMAIN g.nodes : v.level[nm[n]] = w.level[n]

LEMMA RenamedActive ==
  ASSUME NEW g, NEW h, Linked(g), Linked(h), NEW nm, NEW em, Renamed(g, h, nm, em)
  PROVE  \A n \in DOMAIN g.nodes : ActiveIn(h, nm[n]) = {em[e] : e \in ActiveIn(g, n)}
<1>. DEFINE N == DOMAIN g.nodes
            E == DOMAIN g.edges
            M == DOMAIN h.nodes
            F == DOMAIN h.edges
<1>1. /\ \A n \in N : ActiveIn(g, n) = {e \in E : g.edges[e].sink = n /\ ~g.edges[e].disabled}
      /\ \A m \in M : ActiveIn(h, m) = {d \in F : h.edges[d].sink = m /\ ~h.edges[d].disabled}
  BY DEF Linked, ActiveIn, IsActive
<1>2. /\ \A n \in N : nm[n] \in M
      /\ \A n, k \in N : nm[n] = nm[k] => n = k
      /\ \A e \in E : em[e] \in F
      /\ \A d \in F : \E e \in E : d = em[e]
      /\ \A e \in E : h.edges[em[e]].sink = nm[g.edges[e].sink]
                      /\ h.edges[em[e]].disabled = g.edges[e].disabled
      /\ \A e \in E : g.edges[e].sink \in N
  BY DEF Renamed, Bijective, Linked
<1>3. ASSUME NEW n \in N PROVE ActiveIn(h, nm[n]) = {em[e] : e \in ActiveIn(g, n)}
  <2>1. ASSUME NEW d \in ActiveIn(h, nm[n]) PROVE \E e \in ActiveIn(g, n) : d = em[e]
    <3>1. d \in F /\ h.edges[d].sink = nm[n] /\ ~h.edges[d].disabled
      BY <1>1, <1>2
    <3>2. PICK e \in E : d = em[e]
      BY <1>2, <3>1
    <3>3. g.edges[e].sink = n /\ ~g.edges[e].disabled
      BY <1>2, <3>1, <3>2
    <3>. QED
      BY <1>1, <3>2, <3>3
  <2>2. ASSUME NEW e \in ActiveIn(g, n) PROVE em[e] \in ActiveIn(h, nm[n])
    BY <1>1, <1>2
  <2>. QED
    BY <2>1, <2>2
<1>. QED
  BY <1>3

LEMMA MeetAlike ==
  ASSUME NEW g, NEW h, Linked(g), Linked(h), NEW nm, NEW em, Renamed(g, h, nm, em),
         NEW w, NEW v, Alike(g, h, nm, em, w, v),
         NEW from \in DOMAIN g.nodes, NEW e \in DOMAIN g.edges,
         NEW w2, w2 = Meet(g, from, w, e), NEW v2, v2 = Meet(h, nm[from], v, em[e])
  PROVE  Alike(g, h, nm, em, w2, v2)
<1>. DEFINE N == DOMAIN g.nodes
            E == DOMAIN g.edges
            M == DOMAIN h.nodes
            F == DOMAIN h.edges
            n == g.edges[e].sink
            m == h.edges[em[e]].sink
            metw == w.met \cup {e}
            metv == v.met \cup {em[e]}
<1>1. /\ n \in N /\ m \in M /\ m = nm[n] /\ nm[from] \in M
      /\ IsActive(h, em[e]) <=> IsActive(g, e)
      /\ \A k \in N : nm[k] \in M /\ k \in DOMAIN nm
      /\ \A k, l \in N : nm[k] = nm[l] => k = l
      /\ \A d, c \in E : em[d] = em[c] => d = c
  BY DEF Renamed, Bijective, Linked, IsActive
<1>2. /\ Shaped(N, w) /\ Shaped(M, v)
      /\ v.order = Mapped(w.order, nm) /\ v.aside = Mapped(w.aside, nm)
      /\ \A d \in E : em[d] \in v.met <=> d \in w.met
      /\ \A k \in N : v.level[nm[k]] = w.level[k]
  BY DEF Alike
<1>3. /\ w = [order |-> w.order, level |-> w.level, met |-> w.met, aside |-> w.aside]
      /\ w.order \in Seq(N) /\ w.aside \in Seq(N) /\ w.level \in [N -> Int]
      /\ v = [order |-> v.order, level |-> v.level, met |-> v.met, aside |-> v.aside]
      /\ v.order \in Seq(M) /\ v.aside \in Seq(M) /\ v.level \in [M -> Int]
  BY <1>2 DEF Shaped
<1>4. \A d \in E : em[d] \in metv <=> d \in metw
  BY <1>1, <1>2
<1>5. ActiveIn(h, m) \subseteq metv <=> ActiveIn(g, n) \subseteq metw
  <2>1. ActiveIn(h, nm[n]) = {em[d] : d \in ActiveIn(g, n)}
    BY SMTT(30), <1>1, RenamedActive
  <2>2. ActiveIn(g, n) \subseteq E
    BY SMTT(30), <1>1 DEF ActiveIn, Linked
  <2>. HIDE DEF metv, metw, n, m, E
  <2>. QED
    BY <1>1, <1>4, <2>1, <2>2
<1>6. h.nodes[m].out = <<>> <=> g.nodes[n].out = <<>>
  <2>. DEFINE out   == g.nodes[n].out
              image == h.nodes[m].out
  <2>1. /\ out \in Seq(E) /\ E \subseteq DOMAIN em /\ image = Mapped(out, em)
        /\ image \in Seq(F)
    BY <1>1 DEF Linked, Renamed, Bijective
  <2>. HIDE DEF out, image, E, F
  <2>2. Len(image) = Len(out)
    BY <2>1, MappedPlaces
  <2>3. image = <<>> <=> out = <<>>
    BY <2>1, <2>2
  <2>. QED
    BY <2>3 DEF out, image
<1>7. CASE ~IsActive(g, e)
  <2>1. w2 = w /\ v2 = v
    BY <1>1, <1>7 DEF Meet
  <2>. QED
    BY <2>1
<1>8. CASE IsActive(g, e) /\ ~(ActiveIn(g, n) \subseteq metw)
  <2>1. w2 = [w EXCEPT !.met = metw] /\ v2 = [v EXCEPT !.met = metv]
    BY <1>1, <1>3, <1>5, <1>8 DEF Meet
  <2>2. /\ w2 = [order |-> w.order, level |-> w.level, met |-> metw, aside |-> w.aside]
        /\ v2 = [order |-> v.order, level |-> v.level, met |-> metv, aside |-> v.aside]
    BY <1>3, <2>1
  <2>3. Shaped(N, w2) /\ Shaped(M, v2)
    BY <1>3, <2>2 DEF Shaped
  <2>. QED
    BY SMTT(30), <1>2, <1>4, <2>2, <2>3 DEF Alike
<1>9. CASE IsActive(g, e) /\ ActiveIn(g, n) \subseteq metw /\ g.nodes[n].out = <<>>
  <2>1. /\ w2 = [[w EXCEPT !.met = metw] EXCEPT !.aside = Append(@, n)]
        /\ v2 = [[v EXCEPT !.met = metv] EXCEPT !.aside = Append(@, m)]
    BY <1>1, <1>3, <1>5, <1>6, <1>9 DEF Meet
  <2>2. /\ w2 = [order |-> w.order, level |-> w.level, met |-> metw, aside |-> Append(w.aside, n)]
        /\ v2 = [order |-> v.order, level |-> v.level, met |-> metv, aside |-> Append(v.aside, m)]
    BY <1>3, <2>1
  <2>3. /\ Append(w.aside, n) \in Seq(N) /\ Append(v.aside, m) \in Seq(M)
        /\ Append(v.aside, m) = Mapped(Append(w.aside, n), nm)
    <3>. DEFINE a == w.aside
                b == v.aside
    <3>1. a \in Seq(N) /\ b \in Seq(M) /\ n \in N /\ m \in M /\ m = nm[n] /\ n \in DOMAIN nm
          /\ b = Mapped(a, nm)
      BY <1>1, <1>2, <1>3
    <3>. HIDE DEF a, b, n, m, N, M
    <3>2. Mapped(Append(a, n), nm) = Append(Mapped(a, nm), nm[n])
      BY <3>1, MappedAppend
    <3>. QED
      BY <3>1, <3>2 DEF a, b
  <2>4. Shaped(N, w2) /\ Shaped(M, v2)
    BY <1>3, <2>2, <2>3 DEF Shaped
  <2>. QED
    BY SMTT(30), <1>2, <1>4, <2>2, <2>3, <2>4 DEF Alike
<1>10. CASE IsActive(g, e) /\ ActiveIn(g, n) \subseteq metw /\ g.nodes[n].out # <<>>
  <2>. DEFINE up   == w.level[from] + 1
              down == v.level[nm[from]] + 1
  <2>1. /\ w2 = [[w EXCEPT !.met = metw] EXCEPT !.order = Append(@, n), !.level[n] = up]
        /\ v2 = [[v EXCEPT !.met = metv] EXCEPT !.order = Append(@, m), !.level[m] = down]
    BY <1>1, <1>3, <1>5, <1>6, <1>10 DEF Meet
  <2>2. /\ w2 = [order |-> Append(w.order, n), level |-> [w.level EXCEPT ![n] = up],
                 met |-> metw, aside |-> w.aside]
        /\ v2 = [order |-> Append(v.order, m), level |-> [v.level EXCEPT ![m] = down],
                 met |-> metv, aside |-> v.aside]
    BY <1>3, <2>1
  <2>3. /\ Append(w.order, n) \in Seq(N) /\ Append(v.order, m) \in Seq(M)
        /\ Append(v.order, m) = Mapped(Append(w.order, n), nm)
    <3>. DEFINE a == w.order
                b == v.order
    <3>1. a \in Seq(N) /\ b \in Seq(M) /\ n \in N /\ m \in M /\ m = nm[n] /\ n \in DOMAIN nm
          /\ b = Mapped(a, nm)
      BY <1>1, <1>2, <1>3
    <3>. HIDE DEF a, b, n, m, N, M
    <3>2. Mapped(Append(a, n), nm) = Append(Mapped(a, nm), nm[n])
      BY <3>1, MappedAppend
    <3>. QED
      BY <3>1, <3>2 DEF a, b
  <2>4. up = down /\ up \in Int
    BY <1>2, <1>3
  <2>5. /\ [w.level EXCEPT ![n] = up] \in [N -> Int] /\ [v.level EXCEPT ![m] = down] \in [M -> Int]
        /\ \A k \in N : [v.level EXCEPT ![m] = down][nm[k]] = [w.level EXCEPT ![n] = up][k]
    <3>. DEFINE lw == w.level
                lv == v.level
    <3>1. lw \in [N -> Int] /\ lv \in [M -> Int] /\ \A k \in N : lv[nm[k]] = lw[k]
      BY <1>2, <1>3
    <3>2. n \in N /\ m = nm[n] /\ m \in M
          /\ (\A k \in N : nm[k] \in M) /\ \A k, l \in N : nm[k] = nm[l] => k = l
      BY <1>1
    <3>. HIDE DEF lw, lv, n, m, N, M, up, down
    <3>3. /\ [lw EXCEPT ![n] = up] \in [N -> Int] /\ [lv EXCEPT ![m] = down] \in [M -> Int]
      BY <2>4, <3>1, <3>2
    <3>4. \A k \in N : [lv EXCEPT ![m] = down][nm[k]] = [lw EXCEPT ![n] = up][k]
      BY <2>4, <3>1, <3>2
    <3>. QED
      BY <3>3, <3>4 DEF lw, lv
  <2>. HIDE DEF up, down, n, m, N, M, metw, metv
  <2>6. Shaped(N, w2) /\ Shaped(M, v2)
    BY <1>3, <2>2, <2>3, <2>5 DEF Shaped
  <2>7. /\ v2.order = Mapped(w2.order, nm) /\ v2.aside = Mapped(w2.aside, nm)
        /\ \A d \in E : em[d] \in v2.met <=> d \in w2.met
        /\ \A k \in N : v2.level[nm[k]] = w2.level[k]
    BY <1>2, <1>4, <2>2, <2>3, <2>5
  <2>. QED
    BY SMTT(30), <2>6, <2>7 DEF Alike, N, M
<1>. QED
  BY <1>7, <1>8, <1>9, <1>10

LEMMA FanoutAlike ==
  ASSUME NEW g, NEW h, Linked(g), Linked(h), NEW nm, NEW em, Renamed(g, h, nm, em),
         NEW w, NEW v, Alike(g, h, nm, em, w, v), NEW n \in DOMAIN g.nodes,
         NEW w2, w2 = VisitFanout(g, w, n), NEW v2, v2 = VisitFanout(h, v, nm[n])
  PROVE  Alike(g, h, nm, em, w2, v2)
<1>. DEFINE E     == DOMAIN g.edges
            F     == DOMAIN h.edges
            out   == g.nodes[n].out
            image == h.nodes[nm[n]].out
            k     == Len(out)
<1>1. /\ out \in Seq(E) /\ E \subseteq DOMAIN em /\ image = Mapped(out, em) /\ nm[n] \in DOMAIN h.nodes
  BY DEF Linked, Renamed, Bijective
<1>2. image \in Seq(F) /\ k \in Nat
  BY <1>1 DEF Linked
<1>3. Len(image) = k /\ \A i \in 1 .. k : image[i] = em[out[i]] /\ out[i] \in E
  <2>1. \A i \in 1 .. k : out[i] \in E
    BY <1>1
  <2>. HIDE DEF out, image, E
  <2>2. Len(image) = k /\ \A i \in 1 .. k : image[i] = em[out[i]]
    BY <1>1, MappedPlaces
  <2>. QED
    BY <2>1, <2>2
<1>4. PICK left : Stepped(g, n, w, out, left)
  BY <1>1, VisitSteps
<1>5. PICK right : Stepped(h, nm[n], v, image, right)
  BY <1>2, VisitSteps
<1>. DEFINE Good == {i \in Nat : Alike(g, h, nm, em, left[i], right[i])}
<1>6. 0 \in Good
  BY <1>4, <1>5 DEF Stepped
<1>7. ASSUME NEW i \in 0 .. k - 1, i \in Good PROVE i + 1 \in Good
  <2>. DEFINE d == out[i + 1]
  <2>1. i + 1 \in 1 .. k /\ (i + 1) - 1 = i /\ i + 1 \in Nat
    BY <1>2
  <2>2. d \in E /\ image[i + 1] = em[d]
    BY <1>3, <2>1
  <2>3. left[i + 1] = Meet(g, n, left[i], d)
    BY <1>4, <2>1 DEF Stepped
  <2>4. right[i + 1] = Meet(h, nm[n], right[i], em[d])
    BY <1>3, <1>5, <2>1, <2>2 DEF Stepped
  <2>5. Alike(g, h, nm, em, left[i], right[i])
    BY <1>7
  <2>. HIDE DEF d
  <2>6. Alike(g, h, nm, em, left[i + 1], right[i + 1])
    BY <2>2, <2>3, <2>4, <2>5, MeetAlike
  <2>. QED
    BY <2>1, <2>6
<1>. HIDE DEF Good
<1>8. \A i \in 0 .. k : i \in Good
  <2>. HIDE DEF k
  <2>. QED
    BY <1>2, <1>6, <1>7, BoundedInduction
<1>9. k \in 0 .. k
  BY <1>2
<1>. QED
  BY <1>3, <1>4, <1>5, <1>8, <1>9 DEF Stepped, Good

LEMMA WalkAlike ==
  ASSUME NEW g, NEW h, Linked(g), Linked(h), NEW nm, NEW em, Renamed(g, h, nm, em),
         Alike(g, h, nm, em, WalkStart(g), WalkStart(h))
  PROVE  Alike(g, h, nm, em, LevelWalk(g), LevelWalk(h))
<1>. DEFINE N == DOMAIN g.nodes
            M == DOMAIN h.nodes
            k == Cardinality(N)
<1>1. k \in Nat /\ IsFiniteSet(N)
  BY SizeOfIds DEF Linked
<1>2. k = Cardinality(M)
  <2>1. ExistsBijection(N, M)
    BY DEF Bijection, Injection, IsInjective, Surjection, ExistsBijection, Renamed, Bijective
  <2>. HIDE DEF N, M
  <2>. QED
    BY <1>1, <2>1, FS_Bijection
<1>3. PICK left : /\ left[0] = WalkStart(g)
                  /\ \A i \in 1 .. k : left[i] = Visits(g, i, left[i - 1])
                  /\ LevelWalk(g) = left[k]
  BY <1>1, WalkIsFold
<1>4. PICK right : /\ right[0] = WalkStart(h)
                   /\ \A i \in 1 .. k : right[i] = Visits(h, i, right[i - 1])
                   /\ LevelWalk(h) = right[k]
  BY <1>1, <1>2, WalkIsFold
<1>. DEFINE Good == {i \in Nat : Alike(g, h, nm, em, left[i], right[i])}
<1>5. 0 \in Good
  BY <1>3, <1>4
<1>6. ASSUME NEW i \in 0 .. k - 1, i \in Good PROVE i + 1 \in Good
  <2>. DEFINE w  == left[i]
              v  == right[i]
              w2 == left[i + 1]
              v2 == right[i + 1]
  <2>1. i + 1 \in 1 .. k /\ (i + 1) - 1 = i /\ i + 1 \in Nat
    BY <1>1
  <2>2. Alike(g, h, nm, em, w, v)
    BY <1>6
  <2>3. w2 = Visits(g, i + 1, w) /\ v2 = Visits(h, i + 1, v)
    <3>1. left[i + 1] = Visits(g, i + 1, left[(i + 1) - 1])
      BY <1>3, <2>1
    <3>2. right[i + 1] = Visits(h, i + 1, right[(i + 1) - 1])
      BY <1>4, <2>1
    <3>. QED
      BY <2>1, <3>1, <3>2
  <2>. HIDE DEF w, v, w2, v2
  <2>4. /\ DOMAIN v.order = DOMAIN w.order
        /\ \A j \in DOMAIN w.order : w.order[j] \in N /\ v.order[j] = nm[w.order[j]]
    <3>. DEFINE a == w.order
                b == v.order
    <3>1. a \in Seq(N) /\ b \in Seq(M) /\ b = Mapped(a, nm) /\ N \subseteq DOMAIN nm
      BY <2>2 DEF Alike, Shaped, Renamed, Bijective
    <3>. HIDE DEF a, b, N, M
    <3>2. Len(b) = Len(a) /\ \A j \in 1 .. Len(a) : b[j] = nm[a[j]]
      BY <3>1, MappedPlaces
    <3>3. DOMAIN b = 1 .. Len(b) /\ DOMAIN a = 1 .. Len(a) /\ \A j \in 1 .. Len(a) : a[j] \in N
      BY <3>1
    <3>. QED
      BY <3>2, <3>3 DEF a, b
  <2>5. CASE i + 1 \in DOMAIN w.order
    <3>. DEFINE n == w.order[i + 1]
    <3>1. n \in N /\ w2 = VisitFanout(g, w, n) /\ v2 = VisitFanout(h, v, nm[n])
      BY <2>3, <2>4, <2>5 DEF Visits
    <3>. HIDE DEF n
    <3>2. Alike(g, h, nm, em, w2, v2)
      BY <2>2, <3>1, FanoutAlike
    <3>. QED
      BY <2>1, <3>2 DEF w2, v2
  <2>6. CASE i + 1 \notin DOMAIN w.order
    <3>1. w2 = w /\ v2 = v
      BY <2>3, <2>4, <2>6 DEF Visits
    <3>. QED
      BY <2>1, <2>2, <3>1 DEF w2, v2
  <2>. QED
    BY <2>5, <2>6
<1>. HIDE DEF Good
<1>7. \A i \in 0 .. k : i \in Good
  <2>. HIDE DEF k
  <2>. QED
    BY <1>1, <1>5, <1>6, BoundedInduction
<1>8. k \in 0 .. k
  BY <1>1
<1>. QED
  BY <1>3, <1>4, <1>7, <1>8 DEF Good

LEMMA KeptRenamed ==
  ASSUME NEW N, NEW M, NEW nm, Bijective(nm, N, M), NEW seq \in Seq(N),
         NEW A, NEW B, \A n \in N : nm[n] \in B <=> n \in A
  PROVE  Kept(Mapped(seq, nm), B) = Mapped(Kept(seq, A), nm)
<1>. DEFINE both  == [n \in A \cap N |-> nm[n]]
            keepA == [n \in A |-> n]
            keepB == [m \in B |-> m]
<1>1. DOMAIN nm = N
  BY DEF Bijective
<1>2. Composed(N, nm, keepB, both)
  BY <1>1 DEF Composed
<1>3. Composed(N, keepA, nm, both)
  BY <1>1 DEF Composed
<1>4. Kept(Mapped(seq, nm), B) = Mapped(Mapped(seq, nm), keepB) /\ Kept(seq, A) = Mapped(seq, keepA)
  BY DEF Kept
<1>. HIDE DEF both, keepA, keepB
<1>5. Mapped(Mapped(seq, nm), keepB) = Mapped(seq, both)
  BY <1>2, MappedMapped
<1>6. Mapped(Mapped(seq, keepA), nm) = Mapped(seq, both)
  BY <1>3, MappedMapped
<1>. QED
  BY <1>4, <1>5, <1>6

LEMMA LevelListTyped ==
  ASSUME NEW g, NEW w, Shaped(DOMAIN g.nodes, w), NEW last, NEW l
  PROVE  LevelList(g, w, last, l) \in Seq(DOMAIN g.nodes)
<1>. DEFINE N     == DOMAIN g.nodes
            A     == {n \in N : w.level[n] = l}
            order == w.order
<1>1. order \in Seq(N) /\ w.aside \in Seq(N)
  BY DEF Shaped
<1>2. Seq(N \cap A) \subseteq Seq(N)
  OBVIOUS
<1>3. Kept(order, A) \in Seq(N \cap A)
  <2>. HIDE DEF A, N, order
  <2>. QED
    BY <1>1, KeptOccurrences
<1>. QED
  BY <1>1, <1>2, <1>3 DEF LevelList

LEMMA LevelListRenamed ==
  ASSUME NEW g, NEW h, NEW nm, NEW em, Renamed(g, h, nm, em), NEW w, NEW v,
         Alike(g, h, nm, em, w, v), NEW last, NEW l
  PROVE  LevelList(h, v, last, l) = Mapped(LevelList(g, w, last, l), nm)
<1>. DEFINE N     == DOMAIN g.nodes
            M     == DOMAIN h.nodes
            A     == {n \in N : w.level[n] = l}
            B     == {m \in M : v.level[m] = l}
            order == w.order
<1>1. /\ Bijective(nm, N, M) /\ order \in Seq(N)
      /\ v.order = Mapped(order, nm) /\ v.aside = Mapped(w.aside, nm)
      /\ \A n \in N : v.level[nm[n]] = w.level[n]
  BY DEF Renamed, Alike, Shaped
<1>2. \A n \in N : nm[n] \in B <=> n \in A
  BY <1>1 DEF Bijective
<1>3. Kept(Mapped(order, nm), B) = Mapped(Kept(order, A), nm)
  <2>. HIDE DEF N, M, A, B, order
  <2>. QED
    BY <1>1, <1>2, KeptRenamed
<1>. QED
  BY <1>1, <1>3 DEF LevelList

LEMMA SameLast ==
  ASSUME NEW g, NEW h, NEW nm, NEW em, Renamed(g, h, nm, em), NEW w, NEW v,
         Alike(g, h, nm, em, w, v)
  PROVE  LastOf(v) = LastOf(w)
<1>. DEFINE N     == DOMAIN g.nodes
            order == w.order
<1>1. /\ order \in Seq(N) /\ v.order = Mapped(order, nm) /\ DOMAIN nm = N
      /\ \A n \in N : v.level[nm[n]] = w.level[n]
  BY DEF Renamed, Alike, Shaped, Bijective
<1>2. ToSet(Mapped(order, nm)) = {nm[n] : n \in ToSet(order) \cap DOMAIN nm}
  <2>. HIDE DEF N, order
  <2>. QED
    BY <1>1, MappedSet
<1>3. ToSet(order) \subseteq N
  BY <1>1 DEF ToSet
<1>4. ToSet(v.order) = {nm[n] : n \in ToSet(order)}
  <2>1. ToSet(order) \cap DOMAIN nm = ToSet(order)
    BY <1>1, <1>3
  <2>. QED
    BY <1>1, <1>2, <2>1
<1>5. {v.level[m] : m \in ToSet(v.order)} = {w.level[n] : n \in ToSet(w.order)}
  BY <1>1, <1>3, <1>4
<1>. QED
  BY <1>5 DEF LastOf

(***************************************************************************)
(* Two graphs whose walks start alike are laid out alike.                  *)
(***************************************************************************)
LEMMA SameOrder ==
  ASSUME NEW g, NEW h, Linked(g), Linked(h), NEW nm, NEW em, Renamed(g, h, nm, em),
         Alike(g, h, nm, em, WalkStart(g), WalkStart(h)),
         NEW order, order = NodesByLevel(force_levelize(g)),
         NEW image, image = NodesByLevel(force_levelize(h))
  PROVE  image = Mapped(order, nm)
<1>1. PICK w, v : w = LevelWalk(g) /\ v = LevelWalk(h)
  OBVIOUS
<1>2. PICK lv, lw : lv = force_levelize(g) /\ lw = force_levelize(h)
  OBVIOUS
<1>3. PICK last : last = LastOf(w)
  OBVIOUS
<1>4. Alike(g, h, nm, em, w, v)
  BY <1>1, WalkAlike
<1>5. last = LastOf(v)
  BY <1>3, <1>4, SameLast
<1>. DEFINE seqs   == [j \in 1 .. last + 1 |-> LevelList(g, w, last, j - 1)]
            images == [j \in 1 .. last + 1 |-> LevelList(h, v, last, j - 1)]
<1>6. last \in Nat /\ order = Concatenated(seqs)
  <2>1. seqs = [j \in 1 .. last + 1 |-> LevelList(g, w, last, j - 1)]
    OBVIOUS
  <2>. HIDE DEF seqs
  <2>. QED
    BY <1>1, <1>2, <1>3, <2>1, LevelsListed
<1>7. image = Concatenated(images)
  <2>1. images = [j \in 1 .. last + 1 |-> LevelList(h, v, last, j - 1)]
    OBVIOUS
  <2>. HIDE DEF images
  <2>. QED
    BY <1>1, <1>2, <1>5, <2>1, LevelsListed
<1>8. \A j \in 1 .. last + 1 : LevelList(h, v, last, j - 1) = Mapped(LevelList(g, w, last, j - 1), nm)
  BY <1>4, LevelListRenamed
<1>9. images = [j \in DOMAIN seqs |-> Mapped(seqs[j], nm)]
  BY <1>8
<1>10. seqs \in Seq(Seq(DOMAIN g.nodes))
  <2>1. \A j \in 1 .. last + 1 : LevelList(g, w, last, j - 1) \in Seq(DOMAIN g.nodes)
    BY <1>4, LevelListTyped DEF Alike
  <2>. DEFINE T    == Seq(DOMAIN g.nodes)
              F(j) == LevelList(g, w, last, j - 1)
  <2>2. seqs = [j \in 1 .. last + 1 |-> F(j)] /\ (\A j \in 1 .. last + 1 : F(j) \in T) /\ last + 1 \in Nat
    BY <1>6, <2>1
  <2>. HIDE DEF T, F, seqs
  <2>3. seqs \in Seq(T)
    BY <2>2
  <2>. QED
    BY <2>3 DEF T
<1>. HIDE DEF seqs, images
<1>11. Mapped(Concatenated(seqs), nm) = Concatenated(images)
  <2>. DEFINE N == DOMAIN g.nodes
  <2>. HIDE DEF N
  <2>. QED
    BY <1>9, <1>10, ConcatenatedMapped DEF N
<1>. QED
  BY <1>6, <1>7, <1>11

(***************************************************************************)
(* The starts.  The first ids, in order, are what is kept of all ids.      *)
(***************************************************************************)
Ids(k) == [i \in 1 .. k |-> i - 1]

LEMMA FirstIdsKept ==
  ASSUME NEW k \in Nat, NEW p \in 0 .. k
  PROVE  Kept(Ids(k), 0 .. p - 1) = Ids(p)
<1>. DEFINE S    == 0 .. p - 1
            T    == p .. k - 1
            U    == 0 .. k - 1
            tail == [i \in 1 .. k - p |-> p + i - 1]
            same == [x \in S |-> x]
<1>1. Ids(p) \in Seq(S) /\ tail \in Seq(T) /\ Ids(p) \in Seq(U) /\ tail \in Seq(U)
  <2>1. p \in Nat /\ k - p \in Nat
    OBVIOUS
  <2>2. /\ \A i \in 1 .. p : i - 1 \in S /\ i - 1 \in U
        /\ \A i \in 1 .. k - p : p + i - 1 \in T /\ p + i - 1 \in U
    OBVIOUS
  <2>. HIDE DEF S, T, U
  <2>. QED
    BY <2>1, <2>2 DEF Ids
<1>2. Ids(k) = Ids(p) \o tail
  <2>1. Len(Ids(p)) = p /\ Len(tail) = k - p /\ p \in Nat /\ k - p \in Nat /\ p + (k - p) = k
    BY DEF Ids
  <2>2. Ids(p) \o tail = [i \in 1 .. k |-> IF i <= p THEN Ids(p)[i] ELSE tail[i - p]]
    <3>. DEFINE a == Ids(p)
                b == tail
    <3>1. a \in Seq(U) /\ b \in Seq(U) /\ Len(a) = p /\ Len(b) = k - p
      BY <1>1, <2>1
    <3>. HIDE DEF a, b, U
    <3>2. PICK c : c = a \o b
      OBVIOUS
    <3>3. /\ c \in Seq(U) /\ Len(c) = Len(a) + Len(b)
          /\ \A i \in 1 .. Len(a) + Len(b) : c[i] = IF i <= Len(a) THEN a[i] ELSE b[i - Len(a)]
      BY <3>1, <3>2, ConcatProperties
    <3>4. /\ c = [i \in 1 .. k |-> c[i]]
          /\ \A i \in 1 .. k : c[i] = IF i <= p THEN a[i] ELSE b[i - p]
      BY <2>1, <3>1, <3>3
    <3>5. c = [i \in 1 .. k |-> IF i <= p THEN a[i] ELSE b[i - p]]
      BY <3>4
    <3>. QED
      BY <3>2, <3>5 DEF a, b
  <2>3. \A i \in 1 .. k : (IF i <= p THEN Ids(p)[i] ELSE tail[i - p]) = i - 1
    BY DEF Ids
  <2>. QED
    BY <2>2, <2>3 DEF Ids
<1>3. Kept(Ids(k), S) = Mapped(Ids(k), same)
  BY DEF Kept
<1>4. T \cap DOMAIN same = {} /\ \A x \in S : x \in DOMAIN same /\ same[x] = x
  OBVIOUS
<1>. HIDE DEF S, T, U, same, tail
<1>5. Mapped(Ids(p) \o tail, same) = Mapped(Ids(p), same) \o Mapped(tail, same)
  BY <1>1, MappedConcat
<1>6. Mapped(Ids(p), same) = Ids(p)
  BY <1>1, <1>4, MappedSame
<1>7. Mapped(tail, same) = <<>>
  BY <1>1, <1>4, NothingMapped
<1>8. Ids(p) \o <<>> = Ids(p)
  <2>. DEFINE a == Ids(p)
  <2>. HIDE DEF a
  <2>1. a \in Seq(U)
    BY <1>1 DEF a
  <2>2. a \o <<>> = a
    BY <2>1
  <2>. QED
    BY <2>2 DEF a
<1>. QED
  BY <1>2, <1>3, <1>5, <1>6, <1>7, <1>8 DEF S

FirstOf(g) == {n \in DOMAIN g.nodes : ActiveIn(g, n) = {}}

LEMMA StartsAre ==
  ASSUME NEW g, Linked(g), NEW w, w = WalkStart(g)
  PROVE  /\ Shaped(DOMAIN g.nodes, w) /\ w.met = {} /\ w.aside = <<>>
         /\ w.order = Kept(AllIds(g.nodes), FirstOf(g)) /\ ToSet(w.order) = FirstOf(g)
         /\ w.level = [n \in DOMAIN g.nodes |-> IF n \in FirstOf(g) THEN 0 ELSE NoLevel]
<1>1. WalkTyped(g, w) /\ LevelsPlaced(g, w)
  BY WalkStarts DEF Between, WalkOK
<1>2. /\ w.order = Kept(AllIds(g.nodes), FirstOf(g)) /\ w.met = {} /\ w.aside = <<>>
      /\ w.level = [n \in DOMAIN g.nodes |-> IF n \in FirstOf(g) THEN 0 ELSE NoLevel]
  BY DEF WalkStart, FirstOf
<1>3. Shaped(DOMAIN g.nodes, w)
  BY <1>1 DEF WalkTyped, Shaped
<1>4. \A n \in DOMAIN g.nodes : n \in ToSet(w.order) <=> n \in FirstOf(g)
  BY <1>1, <1>2 DEF LevelsPlaced, NoLevel
<1>5. ToSet(w.order) \subseteq DOMAIN g.nodes
  BY <1>3 DEF Shaped, ToSet
<1>. QED
  BY <1>2, <1>3, <1>4, <1>5 DEF FirstOf

LEMMA FirstRenamed ==
  ASSUME NEW g, NEW h, Linked(g), Linked(h), NEW nm, NEW em, Renamed(g, h, nm, em)
  PROVE  /\ \A n \in DOMAIN g.nodes : nm[n] \in FirstOf(h) <=> n \in FirstOf(g)
         /\ FirstOf(h) = {nm[n] : n \in FirstOf(g)}
<1>1. \A n \in DOMAIN g.nodes : ActiveIn(h, nm[n]) = {em[e] : e \in ActiveIn(g, n)}
  BY RenamedActive
<1>2. /\ \A n \in DOMAIN g.nodes : nm[n] \in DOMAIN h.nodes
      /\ \A m \in DOMAIN h.nodes : \E n \in DOMAIN g.nodes : m = nm[n]
  BY DEF Renamed, Bijective
<1>3. \A n \in DOMAIN g.nodes : nm[n] \in FirstOf(h) <=> n \in FirstOf(g)
  BY SMTT(30), <1>1, <1>2 DEF FirstOf
<1>4. FirstOf(h) \subseteq DOMAIN h.nodes /\ FirstOf(g) \subseteq DOMAIN g.nodes
  BY DEF FirstOf
<1>5. FirstOf(h) = {nm[n] : n \in FirstOf(g)}
  <2>1. ASSUME NEW m \in FirstOf(h) PROVE \E n \in FirstOf(g) : m = nm[n]
    BY <1>2, <1>3, <1>4
  <2>2. ASSUME NEW n \in FirstOf(g) PROVE nm[n] \in FirstOf(h)
    BY <1>3, <1>4
  <2>. QED
    BY <2>1, <2>2
<1>. QED
  BY <1>3, <1>5

LEMMA StartsAlike ==
  ASSUME NEW g, NEW h, Linked(g), Linked(h), NEW nm, NEW em, Renamed(g, h, nm, em),
         NEW w, w = WalkStart(g), NEW v, v = WalkStart(h), v.order = Mapped(w.order, nm)
  PROVE  Alike(g, h, nm, em, w, v)
<1>1. /\ Shaped(DOMAIN g.nodes, w) /\ w.met = {} /\ w.aside = <<>>
      /\ w.level = [n \in DOMAIN g.nodes |-> IF n \in FirstOf(g) THEN 0 ELSE NoLevel]
  BY StartsAre
<1>2. /\ Shaped(DOMAIN h.nodes, v) /\ v.met = {} /\ v.aside = <<>>
      /\ v.level = [n \in DOMAIN h.nodes |-> IF n \in FirstOf(h) THEN 0 ELSE NoLevel]
  BY StartsAre
<1>3. v.aside = Mapped(w.aside, nm)
  BY <1>1, <1>2, EmptyMapped
<1>4. \A n \in DOMAIN g.nodes : v.level[nm[n]] = w.level[n]
  <2>1. \A n \in DOMAIN g.nodes : nm[n] \in FirstOf(h) <=> n \in FirstOf(g)
    BY FirstRenamed
  <2>2. \A n \in DOMAIN g.nodes : nm[n] \in DOMAIN h.nodes
    BY DEF Renamed, Bijective
  <2>. QED
    BY <1>1, <1>2, <2>1, <2>2
<1>. QED
  BY <1>1, <1>2, <1>3, <1>4 DEF Alike

(***************************************************************************)
(* The nodes the walk starts with head the layout.                         *)
(***************************************************************************)
Heads(s, order, N) == \E rest \in Seq(N) : order = s \o rest

LEMMA StartHeads ==
  ASSUME NEW g, Linked(g), NEW order, order = NodesByLevel(force_levelize(g)),
         NEW s, s = WalkStart(g).order
  PROVE  Heads(s, order, DOMAIN g.nodes)
<1>. DEFINE N == DOMAIN g.nodes
<1>1. PICK w, lv, last : w = LevelWalk(g) /\ lv = force_levelize(g) /\ last = LastOf(w)
  OBVIOUS
<1>. DEFINE seqs == [j \in 1 .. last + 1 |-> LevelList(g, w, last, j - 1)]
<1>2. last \in Nat /\ last > 0 /\ order = Concatenated(seqs)
  <2>1. seqs = [j \in 1 .. last + 1 |-> LevelList(g, w, last, j - 1)]
    OBVIOUS
  <2>. HIDE DEF seqs
  <2>. QED
    BY <1>1, <2>1, LevelsListed
<1>3. WalkTyped(g, w) /\ StartFirst(g, w)
  BY <1>1, WalkFinishes DEF Finished, WalkOK
<1>4. seqs \in Seq(Seq(N))
  <2>1. Shaped(N, w)
    BY <1>3 DEF WalkTyped, Shaped
  <2>2. \A j \in 1 .. last + 1 : LevelList(g, w, last, j - 1) \in Seq(N)
    BY <2>1, LevelListTyped
  <2>. DEFINE T    == Seq(N)
              F(j) == LevelList(g, w, last, j - 1)
  <2>3. seqs = [j \in 1 .. last + 1 |-> F(j)] /\ (\A j \in 1 .. last + 1 : F(j) \in T) /\ last + 1 \in Nat
    BY <1>2, <2>2
  <2>. HIDE DEF T, F, seqs
  <2>4. seqs \in Seq(T)
    BY <2>3
  <2>. QED
    BY <2>4 DEF T
<1>5. seqs # <<>> /\ seqs[1] = s
  <2>1. 1 \in 1 .. last + 1 /\ 1 - 1 = 0 /\ 0 # last
    BY <1>2
  <2>2. seqs[1] = LevelList(g, w, last, 0) /\ 1 \in DOMAIN seqs
    BY <2>1
  <2>3. LevelList(g, w, last, 0) = s
    BY <1>3, <2>1 DEF LevelList, StartFirst
  <2>. QED
    BY <2>2, <2>3
<1>. HIDE DEF seqs
<1>6. \E rest \in Seq(N) : Concatenated(seqs) = seqs[1] \o rest
  <2>. HIDE DEF N
  <2>. QED
    BY <1>4, <1>5, ConcatenatedBegins
<1>. QED
  BY <1>2, <1>5, <1>6 DEF Heads

(***************************************************************************)
(* When the nodes are numbered in the order of the walk, the next walk     *)
(* starts in the same order.                                               *)
(***************************************************************************)
LEMMA StartKeepsOrder ==
  ASSUME NEW g, NEW h, Linked(g), Linked(h), NEW nm, NEW em, Renamed(g, h, nm, em),
         NEW order, order = NodesByLevel(force_levelize(g)),
         \A i \in DOMAIN order : nm[order[i]] = i - 1,
         NEW s, s = WalkStart(g).order
  PROVE  WalkStart(h).order = Mapped(s, nm)
<1>. DEFINE N == DOMAIN g.nodes
            M == DOMAIN h.nodes
            p == Len(s)
            k == Cardinality(M)
<1>1. PICK rest \in Seq(N) : order = s \o rest
  <2>1. Heads(s, order, DOMAIN g.nodes)
    BY StartHeads
  <2>. QED
    BY <2>1 DEF Heads
<1>2. PICK w : w = WalkStart(g)
  OBVIOUS
<1>3. s \in Seq(N) /\ ToSet(s) = FirstOf(g)
  BY <1>2, StartsAre DEF Shaped
<1>4. k \in Nat /\ M = 0 .. k - 1
  BY SizeOfIds DEF Linked
<1>5. p \in Nat /\ DOMAIN s = 1 .. p /\ \A i \in 1 .. p : i \in DOMAIN order /\ order[i] = s[i]
  <2>. HIDE DEF N
  <2>. QED
    BY <1>1, <1>3
<1>6. \A i \in 1 .. p : nm[s[i]] = i - 1 /\ s[i] \in N
  <2>1. \A i \in 1 .. p : s[i] \in N
    BY <1>3
  <2>. QED
    BY <1>5, <2>1
<1>. HIDE DEF p, k
<1>7. FirstOf(h) = 0 .. p - 1
  <2>1. FirstOf(h) = {nm[n] : n \in FirstOf(g)}
    BY FirstRenamed
  <2>2. FirstOf(g) = {s[i] : i \in 1 .. p}
    BY <1>3, <1>5 DEF ToSet
  <2>3. FirstOf(h) = {i - 1 : i \in 1 .. p}
    BY <1>6, <2>1, <2>2
  <2>4. \A j \in 0 .. p - 1 : j + 1 \in 1 .. p /\ j = (j + 1) - 1
    BY <1>5
  <2>5. \A i \in 1 .. p : i - 1 \in 0 .. p - 1
    BY <1>5
  <2>. QED
    BY <2>3, <2>4, <2>5
<1>8. p \in 0 .. k
  <2>1. FirstOf(h) \subseteq 0 .. k - 1
    BY <1>4 DEF FirstOf
  <2>2. p = 0 \/ p - 1 \in 0 .. p - 1
    BY <1>5
  <2>3. p = 0 \/ p - 1 \in 0 .. k - 1
    BY <1>7, <2>1, <2>2
  <2>. QED
    BY <1>4, <1>5, <2>3
<1>9. WalkStart(h).order = Ids(p)
  <2>1. WalkStart(h).order = Kept(AllIds(h.nodes), FirstOf(h))
    BY DEF WalkStart, FirstOf
  <2>2. AllIds(h.nodes) = Ids(k)
    BY DEF AllIds, Ids, k
  <2>3. Kept(Ids(k), 0 .. p - 1) = Ids(p)
    BY <1>4, <1>8, FirstIdsKept
  <2>. QED
    BY <1>7, <2>1, <2>2, <2>3
<1>10. Mapped(s, nm) = Ids(p)
  <2>. DEFINE image == Mapped(s, nm)
  <2>1. N \subseteq DOMAIN nm /\ \A n \in N : nm[n] \in M
    BY DEF Renamed, Bijective
  <2>2. Len(image) = p /\ \A i \in 1 .. p : image[i] = nm[s[i]]
    <3>. HIDE DEF N
    <3>. QED
      BY <1>3, <2>1, MappedPlaces DEF p
  <2>3. image \in Seq(M)
    <3>. HIDE DEF N, M
    <3>. QED
      BY <1>3, <2>1, MappedTyped
  <2>. HIDE DEF image
  <2>4. image = [i \in 1 .. p |-> image[i]]
    BY <2>2, <2>3
  <2>5. \A i \in 1 .. p : image[i] = i - 1
    BY <1>6, <2>2
  <2>6. image = [i \in 1 .. p |-> i - 1]
    BY <2>4, <2>5
  <2>. QED
    BY <2>6 DEF Ids, image
<1>. QED
  BY <1>9, <1>10

\* The walk over graphs with the same nodes starts alike.
LEMMA StartStays ==
  ASSUME NEW g, NEW h, Linked(g), Linked(h), NEW nm, NEW em, Renamed(g, h, nm, em),
         DOMAIN h.nodes = DOMAIN g.nodes, \A n \in DOMAIN g.nodes : nm[n] = n,
         NEW s, s = WalkStart(g).order
  PROVE  WalkStart(h).order = Mapped(s, nm)
<1>1. FirstOf(h) = FirstOf(g)
  <2>1. /\ \A n \in DOMAIN g.nodes : nm[n] \in FirstOf(h) <=> n \in FirstOf(g)
    BY FirstRenamed
  <2>. QED
    BY <2>1 DEF FirstOf
<1>2. WalkStart(h).order = s
  BY <1>1 DEF WalkStart, FirstOf, AllIds
<1>3. PICK w : w = WalkStart(g)
  OBVIOUS
<1>. DEFINE N == DOMAIN g.nodes
<1>4. s \in Seq(N)
  BY <1>3, StartsAre DEF Shaped
<1>5. \A n \in N : n \in DOMAIN nm /\ nm[n] = n
  BY DEF Renamed, Bijective
<1>6. Mapped(s, nm) = s
  <2>. HIDE DEF N
  <2>. QED
    BY <1>4, <1>5, MappedSame
<1>. QED
  BY <1>2, <1>6

(***************************************************************************)
(* remap_nodes and remap_edges rename a graph without holes.               *)
(***************************************************************************)
LEMMA NodesMovedRenames ==
  ASSUME NEW g, Whole(g), NEW nm, nm = [n \in DOMAIN g.nodes |-> nm[n]], Renumbers(nm, g.nodes),
         NEW h, NodesMoved(g, nm, h), NEW same, same = [e \in DOMAIN g.edges |-> e]
  PROVE  Renamed(g, h, nm, same)
<1>. DEFINE N == DOMAIN g.nodes
            E == DOMAIN g.edges
<1>1. Linked(g) /\ ValidIds(g.nodes) = N /\ Typed(g)
  BY WholeIsLinked DEF Whole, Sound, NodesFull
<1>2. /\ DOMAIN h.edges = E
      /\ \A e \in E : h.edges[e] = [g.edges[e] EXCEPT !.src = nm[@], !.sink = nm[@]]
      /\ \A n \in N : nm[n] \in DOMAIN h.nodes /\ h.nodes[nm[n]] = g.nodes[n]
      /\ \A m \in DOMAIN h.nodes : \E n \in N : m = nm[n]
      /\ \A i, j \in N : nm[i] = nm[j] => i = j
  BY ZenonT(40), <1>1 DEF NodesMoved, Renumbers
<1>3. Bijective(nm, N, DOMAIN h.nodes)
  BY ZenonT(40), <1>2 DEF Bijective
<1>4. Bijective(same, E, DOMAIN h.edges) /\ \A e \in E : same[e] = e
  BY ZenonT(40), <1>2 DEF Bijective
<1>5. ASSUME NEW n \in N PROVE h.nodes[nm[n]].out = Mapped(g.nodes[n].out, same)
  <2>. DEFINE out == g.nodes[n].out
  <2>1. out \in Seq(E) /\ \A e \in E : e \in DOMAIN same /\ same[e] = e
    BY <1>1, <1>4 DEF Linked
  <2>2. Mapped(out, same) = out
    <3>. HIDE DEF out, E
    <3>. QED
      BY ZenonT(40), <2>1, MappedSame
  <2>. QED
    BY <1>2, <2>2
<1>6. ASSUME NEW e \in E
      PROVE  /\ h.edges[same[e]].sink = nm[g.edges[e].sink]
             /\ h.edges[same[e]].disabled = g.edges[e].disabled
  <2>1. PICK x, y : x = g.edges[e] /\ y = h.edges[e]
    OBVIOUS
  <2>2. x = [valid |-> x.valid, type |-> x.type, src |-> x.src, sink |-> x.sink,
             disabled |-> x.disabled]
    BY SMTT(30), <1>1, <2>1 DEF Typed, EdgeShape
  <2>3. y = [x EXCEPT !.src = nm[@], !.sink = nm[@]]
    BY <1>2, <2>1
  <2>4. y.sink = nm[x.sink] /\ y.disabled = x.disabled
    BY <2>2, <2>3
  <2>. QED
    BY <1>4, <2>1, <2>4
<1>. QED
  BY <1>3, <1>4, <1>5, <1>6 DEF Renamed

LEMMA RefsMapped ==
  ASSUME NEW E, NEW seq \in Seq(E), NEW em, DOMAIN em = E, \A e \in E : em[e] # NoEdge
  PROVE  update_valid_refs(seq, em) = Mapped(seq, em)
<1>. DEFINE kept == KeptIds(em)
<1>1. update_valid_refs(seq, em) = Mapped(seq, kept)
  BY DEF update_valid_refs, KeptIds
<1>2. Agree(E, kept, em)
  BY DEF Agree, KeptIds
<1>. HIDE DEF kept
<1>3. Mapped(seq, kept) = Mapped(seq, em)
  BY SMTT(30), <1>2, MappedAgree
<1>. QED
  BY <1>1, <1>3

LEMMA EdgesMovedRenames ==
  ASSUME NEW g, Whole(g), NEW em, em = [e \in DOMAIN g.edges |-> em[e]], Renumbers(em, g.edges),
         NEW h, EdgesMoved(g, em, h), NEW same, same = [n \in DOMAIN g.nodes |-> n]
  PROVE  /\ Renamed(g, h, same, em) /\ DOMAIN h.nodes = DOMAIN g.nodes
         /\ \A n \in DOMAIN g.nodes : h.nodes[n].in = Mapped(g.nodes[n].in, em)
<1>. DEFINE N == DOMAIN g.nodes
            E == DOMAIN g.edges
<1>1. Linked(g) /\ ValidIds(g.edges) = E /\ Typed(g)
  BY SMTT(30), WholeIsLinked DEF Whole, Sound, EdgesFull
<1>2. /\ DOMAIN h.nodes = N
      /\ \A n \in N : h.nodes[n] = [g.nodes[n] EXCEPT !.in  = update_valid_refs(@, em),
                                                      !.out = update_valid_refs(@, em)]
      /\ \A e \in E : em[e] \in DOMAIN h.edges /\ h.edges[em[e]] = g.edges[e]
      /\ \A d \in DOMAIN h.edges : \E e \in E : d = em[e]
      /\ \A i, j \in E : em[i] = em[j] => i = j
      /\ DOMAIN em = E /\ \A e \in E : em[e] # NoEdge
  BY ZenonT(40), <1>1 DEF EdgesMoved, Renumbers, NoNode, NoEdge
<1>3. Bijective(em, E, DOMAIN h.edges)
  BY ZenonT(40), <1>2 DEF Bijective
<1>4. Bijective(same, N, DOMAIN h.nodes) /\ \A n \in N : same[n] = n
  BY <1>2 DEF Bijective
<1>5. ASSUME NEW n \in N PROVE /\ h.nodes[n].out = Mapped(g.nodes[n].out, em)
                               /\ h.nodes[n].in = Mapped(g.nodes[n].in, em)
  <2>. DEFINE out == g.nodes[n].out
              in  == g.nodes[n].in
  <2>1. out \in Seq(E) /\ in \in Seq(E)
    BY <1>1 DEF Linked
  <2>2. h.nodes[n].out = update_valid_refs(out, em) /\ h.nodes[n].in = update_valid_refs(in, em)
    <3>1. NodeShape(g.nodes[n])
      BY <1>1 DEF Typed
    <3>2. PICK x, y : x = g.nodes[n] /\ y = h.nodes[n]
      BY SMTT(30)
    <3>3. y = [x EXCEPT !.in  = update_valid_refs(@, em), !.out = update_valid_refs(@, em)]
      BY <1>2, <3>2
    <3>4. x = [valid |-> x.valid, type |-> x.type, in |-> x.in, out |-> x.out]
      BY <3>1, <3>2 DEF NodeShape
    <3>5. y.in = update_valid_refs(x.in, em) /\ y.out = update_valid_refs(x.out, em)
      BY <3>3, <3>4
    <3>. QED
      BY <3>2, <3>5
  <2>3. update_valid_refs(out, em) = Mapped(out, em) /\ update_valid_refs(in, em) = Mapped(in, em)
    <3>1. DOMAIN em = E /\ \A e \in E : em[e] # NoEdge
      BY <1>2
    <3>. HIDE DEF out, in, E
    <3>. QED
      BY ZenonT(40), <2>1, <3>1, RefsMapped
  <2>. QED
    BY <2>2, <2>3
<1>6. \A e \in E : /\ h.edges[em[e]].sink = same[g.edges[e].sink]
                   /\ h.edges[em[e]].disabled = g.edges[e].disabled
  <2>1. \A e \in E : g.edges[e].sink \in N
    BY <1>1 DEF Linked
  <2>. QED
    BY <1>2, <1>4, <2>1
<1>. QED
  BY ZenonT(40), <1>2, <1>3, <1>4, <1>5, <1>6 DEF Renamed

(***************************************************************************)
(* The layout: once the nodes are numbered in the order of the walk, the   *)
(* walk over what results visits them in the order of their ids, and the   *)
(* edges in their fan-ins in the order of theirs.  So the edge map made    *)
(* after the first renumbering is right after the second, too.             *)
(***************************************************************************)
InIdOrder(g) ==
  LET order == NodesByLevel(force_levelize(g))
  IN  /\ Ascending(order)
      /\ Ascending(Concatenated([i \in DOMAIN order |-> g.nodes[order[i]].in]))

LEMMA MappedAscends ==
  ASSUME NEW S, NEW seq \in Seq(S), NEW f, S \subseteq DOMAIN f,
         \A i \in DOMAIN seq : f[seq[i]] = i - 1
  PROVE  Ascending(Mapped(seq, f))
<1>. DEFINE image == Mapped(seq, f)
            T     == {f[x] : x \in DOMAIN f}
<1>1. Len(image) = Len(seq) /\ \A i \in 1 .. Len(seq) : image[i] = f[seq[i]]
  BY MappedPlaces
<1>2. image \in Seq(T)
  <2>1. \A x \in S \cap DOMAIN f : f[x] \in T
    OBVIOUS
  <2>. HIDE DEF T
  <2>. QED
    BY <2>1, MappedTyped
<1>. HIDE DEF image, T
<1>3. DOMAIN image = 1 .. Len(seq) /\ DOMAIN seq = 1 .. Len(seq)
  BY <1>1, <1>2
<1>4. \A i \in DOMAIN image : image[i] = i - 1
  BY <1>1, <1>3
<1>. QED
  BY <1>4 DEF Ascending, image

LEMMA SecondLayout ==
  ASSUME NEW g, Whole(g), NEW order, order = NodesByLevel(force_levelize(g)),
         ToSet(order) = DOMAIN g.nodes, order \in Seq(DOMAIN g.nodes),
         NEW nm, nm = Position(order), Renumbers(nm, g.nodes),
         \A i \in DOMAIN order : nm[order[i]] = i - 1,
         NEW mid, NodesMoved(g, nm, mid), Whole(mid),
         NEW order2, order2 = NodesByLevel(force_levelize(mid))
  PROVE  order2 = Mapped(order, nm) /\ Ascending(order2)
<1>1. PICK same : same = [e \in DOMAIN g.edges |-> e]
  OBVIOUS
<1>2. nm = [n \in DOMAIN g.nodes |-> nm[n]]
  BY DEF Position
<1>3. Renamed(g, mid, nm, same) /\ Linked(g) /\ Linked(mid)
  BY <1>1, <1>2, NodesMovedRenames, WholeIsLinked
<1>4. PICK w, v : w = WalkStart(g) /\ v = WalkStart(mid)
  OBVIOUS
<1>5. v.order = Mapped(w.order, nm)
  <2>1. PICK s : s = w.order
    OBVIOUS
  <2>2. WalkStart(mid).order = Mapped(s, nm)
    BY <1>3, <1>4, <2>1, StartKeepsOrder
  <2>. QED
    BY <1>4, <2>1, <2>2
<1>6. Alike(g, mid, nm, same, w, v)
  BY <1>3, <1>4, <1>5, StartsAlike
<1>7. order2 = Mapped(order, nm)
  BY <1>3, <1>4, <1>6, SameOrder
<1>8. Ascending(Mapped(order, nm))
  <2>. DEFINE N == DOMAIN g.nodes
  <2>1. order \in Seq(N) /\ N \subseteq DOMAIN nm
    BY <1>2
  <2>. HIDE DEF N
  <2>. QED
    BY <2>1, MappedAscends
<1>. QED
  BY <1>7, <1>8

LEMMA ThirdLayout ==
  ASSUME NEW mid, Whole(mid), NEW em, em = [e \in DOMAIN mid.edges |-> em[e]],
         Renumbers(em, mid.edges), NEW r, EdgesMoved(mid, em, r), Whole(r),
         NEW order2, order2 = NodesByLevel(force_levelize(mid)), order2 \in Seq(DOMAIN mid.nodes)
  PROVE  NodesByLevel(force_levelize(r)) = order2
<1>1. PICK same : same = [n \in DOMAIN mid.nodes |-> n]
  OBVIOUS
<1>2. /\ Renamed(mid, r, same, em) /\ DOMAIN r.nodes = DOMAIN mid.nodes
      /\ Linked(mid) /\ Linked(r)
  BY <1>1, EdgesMovedRenames, WholeIsLinked
<1>3. \A n \in DOMAIN mid.nodes : n \in DOMAIN same /\ same[n] = n
  BY <1>1
<1>4. PICK w, v : w = WalkStart(mid) /\ v = WalkStart(r)
  OBVIOUS
<1>5. v.order = Mapped(w.order, same)
  <2>1. PICK s : s = w.order
    OBVIOUS
  <2>2. WalkStart(r).order = Mapped(s, same)
    BY <1>2, <1>3, <1>4, <2>1, StartStays
  <2>. QED
    BY <1>4, <2>1, <2>2
<1>6. Alike(mid, r, same, em, w, v)
  BY <1>2, <1>4, <1>5, StartsAlike
<1>7. PICK order3 : order3 = NodesByLevel(force_levelize(r))
  OBVIOUS
<1>8. order3 = Mapped(order2, same)
  BY <1>2, <1>4, <1>6, <1>7, SameOrder
<1>9. Mapped(order2, same) = order2
  <2>. DEFINE N == DOMAIN mid.nodes
  <2>1. order2 \in Seq(N) /\ \A n \in N : n \in DOMAIN same /\ same[n] = n
    BY <1>3
  <2>. HIDE DEF N
  <2>. QED
    BY <2>1, MappedSame
<1>. QED
  BY <1>7, <1>8, <1>9

FaninLists(g, order) == [i \in DOMAIN order |-> g.nodes[order[i]].in]

\* The map numbers the edges in the order of the fan-ins, and r has them by their new ids.
EdgesNumbered(mid, order, em, r) ==
  /\ order \in Seq(DOMAIN mid.nodes) /\ DOMAIN em = DOMAIN mid.edges
  /\ \A n \in DOMAIN mid.nodes : r.nodes[n].in = Mapped(mid.nodes[n].in, em)
  /\ \E all \in Seq(DOMAIN mid.edges) : /\ all = Concatenated(FaninLists(mid, order))
                                       /\ \A i \in DOMAIN all : em[all[i]] = i - 1

LEMMA FaninsAscend ==
  ASSUME NEW mid, Whole(mid), NEW order, NEW em, NEW r, EdgesNumbered(mid, order, em, r)
  PROVE  Ascending(Concatenated(FaninLists(r, order)))
<1>. DEFINE E      == DOMAIN mid.edges
            seqs   == FaninLists(mid, order)
            images == FaninLists(r, order)
            k      == Len(order)
<1>0. /\ order \in Seq(DOMAIN mid.nodes) /\ E \subseteq DOMAIN em
      /\ \A n \in DOMAIN mid.nodes : r.nodes[n].in = Mapped(mid.nodes[n].in, em)
  BY DEF EdgesNumbered
<1>1. k \in Nat /\ DOMAIN order = 1 .. k /\ \A i \in 1 .. k : order[i] \in DOMAIN mid.nodes
  BY <1>0
<1>2. \A n \in DOMAIN mid.nodes : mid.nodes[n].in \in Seq(E)
  BY WholeIsLinked DEF Linked
<1>3. seqs \in Seq(Seq(E))
  <2>. DEFINE T    == Seq(E)
              F(i) == mid.nodes[order[i]].in
  <2>1. seqs = [i \in 1 .. k |-> F(i)] /\ \A i \in 1 .. k : F(i) \in T
    BY <1>1, <1>2 DEF FaninLists
  <2>. HIDE DEF T, F, k, seqs
  <2>2. seqs \in Seq(T)
    BY <1>1, <2>1
  <2>. QED
    BY <2>2 DEF T
<1>4. images = [i \in DOMAIN seqs |-> Mapped(seqs[i], em)]
  <2>1. \A i \in DOMAIN order : r.nodes[order[i]].in = Mapped(seqs[i], em)
    BY <1>0, <1>1 DEF FaninLists
  <2>. QED
    BY <2>1 DEF FaninLists
<1>5. PICK all \in Seq(E) : all = Concatenated(seqs) /\ \A i \in DOMAIN all : em[all[i]] = i - 1
  BY DEF EdgesNumbered
<1>. HIDE DEF seqs, images, E
<1>6. Mapped(all, em) = Concatenated(images)
  BY <1>3, <1>4, <1>5, ConcatenatedMapped
<1>7. Ascending(Mapped(all, em))
  BY <1>0, <1>5, MappedAscends
<1>. QED
  BY <1>6, <1>7 DEF images

LEMMA OptimizedInOrder ==
  ASSUME NEW g, Whole(g), NEW lv, lv = force_levelize(g),
         \A n \in DOMAIN g.nodes : lv.node_level[n] # NoLevel,
         NEW nm, nm = optimize_node_layout(lv), NEW mid, mid = remap_nodes(g, nm),
         NEW em, em = optimize_edge_layout(mid, force_levelize(mid)),
         NEW r, r = remap_edges(mid, em)
  PROVE  InIdOrder(r)
<1>1. LevelsRight(g, lv)
  BY LevelizationLevels
<1>2. AfterLoop(g) = {} /\ Sound(g)
  BY <1>1 DEF LevelsRight, Whole
<1>3. /\ Renumbers(nm, g.nodes) /\ Renumbers(em, mid.edges) /\ Sound(mid) /\ Whole(r)
  BY OptimizedIsWhole
<1>4. PICK order : order = NodesByLevel(lv)
  OBVIOUS
<1>5. /\ order \in Seq(DOMAIN g.nodes) /\ ToSet(order) = DOMAIN g.nodes /\ nm = Position(order)
      /\ \A i \in DOMAIN order : nm[order[i]] = i - 1
  BY <1>1, <1>2, <1>4, NodesOrderedOnce DEF optimize_node_layout
<1>6. NodesMoved(g, nm, mid)
  BY SMTT(30), <1>2, <1>3, NodesRemapped
<1>7. Whole(mid)
  BY <1>3, <1>6 DEF NodesMoved, Whole, EdgesFull
<1>8. PICK lv2 : lv2 = force_levelize(mid)
  OBVIOUS
<1>9. PICK order2 : order2 = NodesByLevel(lv2)
  OBVIOUS
<1>10. PICK all : all = Concatenated([i \in DOMAIN order2 |-> mid.nodes[order2[i]].in])
  OBVIOUS
<1>11. Ascending(order2)
  BY <1>3, <1>4, <1>5, <1>6, <1>7, <1>8, <1>9, SecondLayout
<1>12. LevelsRight(mid, lv2) /\ AfterLoop(mid) = {}
  BY <1>2, <1>3, <1>7, <1>8, LevelizationLevels, NoLoopMade
<1>13. /\ order2 \in Seq(DOMAIN mid.nodes) /\ ToSet(order2) = DOMAIN mid.nodes
       /\ \A n \in DOMAIN mid.nodes : Occurrences(order2, n) = 1
  BY <1>7, <1>9, <1>12, NodesOrderedOnce
<1>14. em = Position(all)
  BY SMTT(30), <1>8, <1>9, <1>10 DEF optimize_edge_layout
<1>15. /\ all \in Seq(DOMAIN mid.edges) /\ ToSet(all) = DOMAIN mid.edges
       /\ \A i \in DOMAIN all : em[all[i]] = i - 1
  BY <1>7, <1>10, <1>13, <1>14, EdgesOrderedOnce
<1>16. em = [e \in DOMAIN mid.edges |-> em[e]] /\ DOMAIN em = DOMAIN mid.edges
  BY <1>14, <1>15 DEF Position
<1>17. EdgesMoved(mid, em, r)
  BY <1>3, EdgesRemapped
<1>18. NodesByLevel(force_levelize(r)) = order2
  BY <1>3, <1>7, <1>8, <1>9, <1>13, <1>16, <1>17, ThirdLayout
<1>19. \A n \in DOMAIN mid.nodes : r.nodes[n].in = Mapped(mid.nodes[n].in, em)
  <2>1. PICK same : same = [n \in DOMAIN mid.nodes |-> n]
    OBVIOUS
  <2>. QED
    BY <1>3, <1>7, <1>16, <1>17, <2>1, EdgesMovedRenames
<1>20. Ascending(Concatenated([i \in DOMAIN order2 |-> r.nodes[order2[i]].in]))
  <2>1. EdgesNumbered(mid, order2, em, r)
    BY <1>10, <1>13, <1>15, <1>16, <1>19 DEF FaninLists, EdgesNumbered
  <2>2. Ascending(Concatenated(FaninLists(r, order2)))
    BY <1>7, <2>1, FaninsAscend
  <2>. QED
    BY <2>2 DEF FaninLists
<1>. QED
  BY <1>11, <1>18, <1>20 DEF InIdOrder

(***************************************************************************)
(* The client's ids: one for each valid entry, of one part, and none for   *)
(* an entry that is gone.                                                  *)
(***************************************************************************)
HandlesOK(handle, Names, ids) ==
  /\ NoNode \notin ids
  /\ handle \in [Names -> ids \cup {NoNode}]
  /\ \A x, y \in Names : handle[x] = handle[y] /\ handle[x] # NoNode => x = y
  /\ \A i \in ids : \E x \in Names : handle[x] = i

LEMMA HandleAdded ==
  ASSUME NEW handle, NEW Names, NEW ids, HandlesOK(handle, Names, ids),
         NEW x \in Names, handle[x] = NoNode, NEW new \in Nat, new \notin ids
  PROVE  HandlesOK([handle EXCEPT ![x] = new], Names, ids \cup {new})
<1>. DEFINE after == [handle EXCEPT ![x] = new]
<1>1. /\ DOMAIN after = Names /\ after = [y \in Names |-> after[y]]
      /\ \A y \in Names : after[y] = IF y = x THEN new ELSE handle[y]
  BY DEF HandlesOK
<1>2. new # NoNode
  BY DEF NoNode
<1>. HIDE DEF after
<1>3. after \in [Names -> ids \cup {new} \cup {NoNode}]
  BY <1>1 DEF HandlesOK
<1>4. \A y, z \in Names : after[y] = after[z] /\ after[y] # NoNode => y = z
  BY <1>1 DEF HandlesOK
<1>5. \A i \in ids \cup {new} : \E y \in Names : after[y] = i
  BY <1>1 DEF HandlesOK
<1>. QED
  BY <1>2, <1>3, <1>4, <1>5 DEF HandlesOK, after

Forgotten(handle, Names, removed) ==
  [x \in Names |-> IF handle[x] \in removed THEN NoNode ELSE handle[x]]

LEMMA HandlesForgotten ==
  ASSUME NEW handle, NEW Names, NEW ids, HandlesOK(handle, Names, ids), NEW removed
  PROVE  HandlesOK(Forgotten(handle, Names, removed), Names, ids \ removed)
<1>. DEFINE after == Forgotten(handle, Names, removed)
<1>1. /\ DOMAIN after = Names /\ after = [y \in Names |-> after[y]]
      /\ \A y \in Names : after[y] = IF handle[y] \in removed THEN NoNode ELSE handle[y]
  BY DEF Forgotten
<1>. HIDE DEF after
<1>2. after \in [Names -> (ids \ removed) \cup {NoNode}]
  BY <1>1 DEF HandlesOK
<1>3. \A y, z \in Names : after[y] = after[z] /\ after[y] # NoNode => y = z
  BY <1>1 DEF HandlesOK
<1>4. \A i \in ids \ removed : \E y \in Names : after[y] = i
  BY <1>1 DEF HandlesOK
<1>. QED
  BY <1>2, <1>3, <1>4 DEF HandlesOK, after

Followed(handle, Names, map) ==
  [x \in Names |-> IF handle[x] = NoNode THEN NoNode ELSE map[handle[x]]]

LEMMA HandlesFollowed ==
  ASSUME NEW handle, NEW Names, NEW f, HandlesOK(handle, Names, ValidIds(f)),
         NEW map, Renumbers(map, f)
  PROVE  HandlesOK(Followed(handle, Names, map), Names, {map[i] : i \in ValidIds(f)})
<1>. DEFINE after == Followed(handle, Names, map)
            V     == ValidIds(f)
            ids   == {map[i] : i \in V}
<1>1. /\ DOMAIN after = Names /\ after = [y \in Names |-> after[y]]
      /\ \A y \in Names : after[y] = IF handle[y] = NoNode THEN NoNode ELSE map[handle[y]]
  BY DEF Followed
<1>2. /\ \A i \in V : map[i] # NoNode
      /\ \A i, j \in V : map[i] = map[j] => i = j
  BY DEF Renumbers, ValidIds
<1>3. /\ handle \in [Names -> V \cup {NoNode}]
      /\ \A x, y \in Names : handle[x] = handle[y] /\ handle[x] # NoNode => x = y
      /\ \A i \in V : \E x \in Names : handle[x] = i
      /\ NoNode \notin V
  BY DEF HandlesOK
<1>. HIDE DEF after, V
<1>4. \A y \in Names : handle[y] # NoNode => handle[y] \in V
  BY <1>3
<1>5. after \in [Names -> ids \cup {NoNode}]
  BY <1>1, <1>4
<1>6. \A y, z \in Names : after[y] = after[z] /\ after[y] # NoNode => y = z
  BY <1>1, <1>2, <1>3, <1>4
<1>7. \A i \in ids : \E y \in Names : after[y] = i
  BY <1>1, <1>3
<1>. QED
  BY ZenonT(40), <1>2, <1>5, <1>6, <1>7 DEF HandlesOK, after, V

(***************************************************************************)
(* The inductive invariant: the graph is sound, the client's ids are those *)
(* of its valid entries, and a levelization that calls itself valid is the *)
(* one of this graph, which has no holes.                                  *)
(***************************************************************************)
LevelsOK(g, valid, lv) ==
  valid \in BOOLEAN /\ (valid => Whole(g) /\ lv = force_levelize(g))

GraphInv ==
  /\ Sound(graph)
  /\ HandlesOK(node_of, NodeNames, ValidIds(nodes))
  /\ HandlesOK(edge_of, EdgeNames, ValidIds(edges))
  /\ LevelsOK(graph, is_levelized, levelization)

LEMMA NothingIsSound ==
  /\ Sound([nodes |-> EmptyMap, edges |-> EmptyMap])
  /\ HandlesOK([n \in NodeNames |-> NoNode], NodeNames, ValidIds(EmptyMap))
  /\ HandlesOK([e \in EdgeNames |-> NoEdge], EdgeNames, ValidIds(EmptyMap))
<1>. DEFINE g == [nodes |-> EmptyMap, edges |-> EmptyMap]
<1>1. DOMAIN EmptyMap = {} /\ EmptyMap = [i \in DOMAIN EmptyMap |-> EmptyMap[i]]
  BY DEF EmptyMap
<1>. HIDE DEF EmptyMap
<1>2. IdRange(DOMAIN EmptyMap) /\ ValidIds(EmptyMap) = {}
  <2>1. {} = 0 .. 0 - 1 /\ 0 \in Nat
    OBVIOUS
  <2>. QED
    BY <1>1, <2>1 DEF IdRange, ValidIds
<1>3. Sound(g)
  BY <1>1, <1>2 DEF Sound, Typed, EndsListed, ListsOwned, NoneInvalid
<1>4. /\ HandlesOK([n \in NodeNames |-> NoNode], NodeNames, {})
      /\ HandlesOK([e \in EdgeNames |-> NoEdge], EdgeNames, {})
  BY DEF HandlesOK, NoNode, NoEdge
<1>. QED
  BY <1>2, <1>3, <1>4

LEMMA InitSound == Init => GraphInv
<1>. SUFFICES ASSUME Init PROVE GraphInv
  OBVIOUS
<1>. DEFINE g == [nodes |-> EmptyMap, edges |-> EmptyMap]
<1>1. /\ nodes = EmptyMap /\ edges = EmptyMap /\ is_levelized = FALSE
      /\ node_of = [n \in NodeNames |-> NoNode] /\ edge_of = [e \in EdgeNames |-> NoEdge]
  BY DEF Init
<1>2. graph = g
  BY <1>1 DEF graph
<1>3. LevelsOK(graph, is_levelized, levelization)
  BY <1>1 DEF LevelsOK
<1>. QED
  BY <1>1, <1>2, <1>3, NothingIsSound DEF GraphInv

LEMMA NodeAddedStep ==
  ASSUME GraphInv, NEW name \in NodeNames, add_node(name)
  PROVE  GraphInv'
<1>1. PICK g : g = graph
  OBVIOUS
<1>2. PICK r : r = AddNode(g, NodeType[name])
  OBVIOUS
<1>3. PICK new : new = Cardinality(DOMAIN nodes)
  OBVIOUS
<1>4. Sound(g) /\ g.nodes = nodes /\ g.edges = edges
  BY <1>1 DEF GraphInv, graph
<1>5. WithNode(g, NodeType[name], new, r)
  BY <1>2, <1>3, <1>4, NodeAdded
<1>6. /\ nodes' = r.nodes /\ edges' = edges /\ edge_of' = edge_of
      /\ node_of' = [node_of EXCEPT ![name] = new] /\ is_levelized' = FALSE
  BY <1>1, <1>2, <1>3 DEF add_node, InvalidateLevels, SetLevelized
<1>7. r.edges = edges /\ ValidIds(r.nodes) = ValidIds(nodes) \cup {new} /\ new \in Nat
      /\ new \notin ValidIds(nodes) /\ Sound(r) /\ graph' = r
  <2>1. r.edges = edges /\ Sound(r) /\ r = [nodes |-> r.nodes, edges |-> r.edges]
    BY <1>4, <1>5 DEF WithNode, Sound, Typed
  <2>2. graph' = r
    BY <1>6, <2>1 DEF graph
  <2>. QED
    BY <1>4, <1>5, <2>1, <2>2 DEF WithNode, ValidIds
<1>8. HandlesOK(node_of', NodeNames, ValidIds(nodes'))
  <2>1. HandlesOK(node_of, NodeNames, ValidIds(nodes)) /\ node_of[name] = NoNode
    BY DEF GraphInv, add_node, NoEdge, NoNode
  <2>2. HandlesOK([node_of EXCEPT ![name] = new], NodeNames, ValidIds(nodes) \cup {new})
    BY <1>7, <2>1, HandleAdded
  <2>. QED
    BY <1>6, <1>7, <2>2
<1>9. HandlesOK(edge_of', EdgeNames, ValidIds(edges'))
  BY <1>6 DEF GraphInv
<1>10. LevelsOK(graph', is_levelized', levelization')
  BY <1>6 DEF LevelsOK
<1>. QED
  BY <1>7, <1>8, <1>9, <1>10 DEF GraphInv

LEMMA EdgeAddedStep ==
  ASSUME GraphInv, NEW name \in EdgeNames, add_edge(name)
  PROVE  GraphInv'
<1>1. PICK g : g = graph
  OBVIOUS
<1>2. PICK src, sink : src = node_of[EdgeDef[name].src] /\ sink = node_of[EdgeDef[name].sink]
  OBVIOUS
<1>. DEFINE type == EdgeDef[name].type
<1>3. PICK r : r = AddEdge(g, type, src, sink)
  OBVIOUS
<1>4. PICK new : new = Cardinality(DOMAIN edges)
  OBVIOUS
<1>5. Sound(g) /\ g.nodes = nodes /\ g.edges = edges
  BY <1>1 DEF GraphInv, graph
<1>6. src \in ValidIds(g.nodes) /\ sink \in ValidIds(g.nodes)
  <2>1. EdgeDef[name].src \in NodeNames /\ EdgeDef[name].sink \in NodeNames
    BY ClientAssumption
  <2>2. src # NoNode /\ sink # NoNode
    BY <1>2 DEF add_edge
  <2>. QED
    BY <1>2, <1>5, <2>1, <2>2 DEF GraphInv, HandlesOK
<1>7. WithEdge(g, type, src, sink, new, r)
  BY <1>3, <1>4, <1>5, <1>6, EdgeAdded
<1>8. /\ nodes' = r.nodes /\ edges' = r.edges /\ node_of' = node_of
      /\ edge_of' = [edge_of EXCEPT ![name] = new] /\ is_levelized' = FALSE
      /\ edge_of[name] = NoEdge
  BY <1>1, <1>2, <1>3, <1>4 DEF add_edge, InvalidateLevels, SetLevelized
<1>9. /\ Sound(r) /\ graph' = r /\ new \in Nat /\ new \notin ValidIds(edges)
      /\ ValidIds(r.nodes) = ValidIds(nodes) /\ ValidIds(r.edges) = ValidIds(edges) \cup {new}
  <2>1. Sound(r) /\ r = [nodes |-> r.nodes, edges |-> r.edges]
    BY <1>7 DEF WithEdge, Sound, Typed
  <2>2. graph' = r
    BY <1>8, <2>1 DEF graph
  <2>. QED
    BY <1>5, <1>7, <2>1, <2>2 DEF WithEdge, ValidIds
<1>10. HandlesOK(edge_of', EdgeNames, ValidIds(edges'))
  <2>1. HandlesOK(edge_of, EdgeNames, ValidIds(edges)) /\ edge_of[name] = NoNode
    BY <1>8 DEF GraphInv, NoEdge, NoNode
  <2>2. HandlesOK([edge_of EXCEPT ![name] = new], EdgeNames, ValidIds(edges) \cup {new})
    BY <1>9, <2>1, HandleAdded
  <2>. QED
    BY <1>8, <1>9, <2>2
<1>11. HandlesOK(node_of', NodeNames, ValidIds(nodes'))
  BY <1>8, <1>9 DEF GraphInv
<1>12. LevelsOK(graph', is_levelized', levelization')
  BY <1>8 DEF LevelsOK
<1>. QED
  BY <1>9, <1>10, <1>11, <1>12 DEF GraphInv

LEMMA ForgetForgets ==
  ASSUME NEW removed, Forget(removed)
  PROVE  edge_of' = Forgotten(edge_of, EdgeNames, removed)
BY DEF Forget, Forgotten, NoEdge, NoNode

(***************************************************************************)
(* Removing: the removed edges are invalid, and so are the entries they had*)
(* in lists; the rest is as it was.                                        *)
(***************************************************************************)
Pruned(g, removed, gone, r) ==
  /\ removed \subseteq ValidIds(g.edges)
  /\ DOMAIN r.edges = DOMAIN g.edges /\ ValidIds(r.edges) = ValidIds(g.edges) \ removed
  /\ DOMAIN r.nodes = DOMAIN g.nodes /\ ValidIds(r.nodes) = ValidIds(g.nodes) \ gone
  /\ \A e \in DOMAIN g.edges : /\ r.edges[e].type = g.edges[e].type
                               /\ r.edges[e].src = g.edges[e].src
                               /\ r.edges[e].sink = g.edges[e].sink
                               /\ r.edges[e].disabled = g.edges[e].disabled
  /\ \A n \in DOMAIN g.nodes : /\ r.nodes[n].type = g.nodes[n].type
                               /\ r.nodes[n].in  = Invalidated(g.nodes[n].in, removed)
                               /\ r.nodes[n].out = Invalidated(g.nodes[n].out, removed)
  /\ \A n \in gone : ToSet(g.nodes[n].in) \cup ToSet(g.nodes[n].out) \subseteq removed \cup {NoEdge}

LEMMA EdgesPruned ==
  ASSUME NEW g, NEW removed, removed \subseteq ValidIds(g.edges),
         NEW r, WithoutEdges(g, removed, r)
  PROVE  Pruned(g, removed, {}, r)
<1>1. ASSUME NEW n \in DOMAIN g.nodes
      PROVE  /\ r.nodes[n].type = g.nodes[n].type
             /\ r.nodes[n].in  = Invalidated(g.nodes[n].in, removed)
             /\ r.nodes[n].out = Invalidated(g.nodes[n].out, removed)
  <2>. DEFINE x == g.nodes[n]
              y == r.nodes[n]
  <2>1. /\ y = [x EXCEPT !.in = Invalidated(@, removed), !.out = Invalidated(@, removed)]
        /\ NodeShape(x)
    BY DEF WithoutEdges
  <2>. HIDE DEF x, y
  <2>2. /\ y.type = x.type /\ y.in = Invalidated(x.in, removed)
        /\ y.out = Invalidated(x.out, removed)
    BY SMTT(30), <2>1 DEF NodeShape
  <2>. QED
    BY <2>2 DEF x, y
<1>2. /\ DOMAIN r.nodes = DOMAIN g.nodes /\ ValidIds(r.nodes) = ValidIds(g.nodes) \ {}
      /\ DOMAIN r.edges = DOMAIN g.edges /\ ValidIds(r.edges) = ValidIds(g.edges) \ removed
      /\ \A e \in DOMAIN g.edges : /\ r.edges[e].type = g.edges[e].type
                                   /\ r.edges[e].src = g.edges[e].src
                                   /\ r.edges[e].sink = g.edges[e].sink
                                   /\ r.edges[e].disabled = g.edges[e].disabled
  BY DEF WithoutEdges
<1>. QED
  BY <1>1, <1>2 DEF Pruned

TakenOut(removed, gone, r) ==
  /\ Sound(r) /\ graph' = r /\ Pruned(graph, removed, gone, r)
  /\ Forget(removed) /\ node_of' = Forgotten(node_of, NodeNames, gone)
  /\ is_levelized' = FALSE

LEMMA EdgeTakenOut ==
  ASSUME GraphInv, NEW name \in EdgeNames, remove_edge(name)
  PROVE  \E r : TakenOut({edge_of[name]}, {}, r)
<1>1. PICK g : g = graph
  OBVIOUS
<1>2. PICK removed : removed = {edge_of[name]}
  OBVIOUS
<1>3. PICK r : r = RemoveEdges(g, removed)
  OBVIOUS
<1>4. Sound(g) /\ g.nodes = nodes /\ g.edges = edges
  BY <1>1 DEF GraphInv, graph
<1>5. /\ nodes' = r.nodes /\ edges' = r.edges /\ node_of' = node_of
      /\ Forget(removed) /\ is_levelized' = FALSE /\ edge_of[name] # NoEdge
  BY <1>1, <1>2, <1>3 DEF remove_edge, InvalidateLevels, SetLevelized
<1>6. removed \subseteq ValidIds(g.edges)
  BY <1>2, <1>4, <1>5 DEF GraphInv, HandlesOK, NoEdge, NoNode
<1>7. WithoutEdges(g, removed, r)
  BY <1>3, <1>4, <1>6, EdgesRemoved
<1>8. Pruned(g, removed, {}, r)
  BY <1>6, <1>7, EdgesPruned
<1>9. Sound(r) /\ graph' = r
  <2>1. Sound(r) /\ r = [nodes |-> r.nodes, edges |-> r.edges]
    BY <1>7 DEF WithoutEdges, Sound, Typed
  <2>. QED
    BY <1>5, <2>1 DEF graph
<1>10. node_of' = Forgotten(node_of, NodeNames, {})
  BY <1>5 DEF GraphInv, HandlesOK, Forgotten
<1>. QED
  BY <1>1, <1>2, <1>5, <1>8, <1>9, <1>10 DEF TakenOut

EdgesAt(g, n) == (ToSet(g.nodes[n].in) \cup ToSet(g.nodes[n].out)) \ {NoEdge}

LEMMA NodeTakenOut ==
  ASSUME GraphInv, NEW name \in NodeNames, remove_node(name)
  PROVE  \E s : TakenOut(EdgesAt(graph, node_of[name]), {node_of[name]}, s)
<1>1. PICK g : g = graph
  OBVIOUS
<1>2. PICK n : n = node_of[name]
  OBVIOUS
<1>3. PICK removed : removed = (ToSet(g.nodes[n].in) \cup ToSet(g.nodes[n].out)) \ {NoEdge}
  OBVIOUS
<1>4. PICK r : r = RemoveEdges(g, removed)
  OBVIOUS
<1>5. PICK s : s = [nodes |-> [r.nodes EXCEPT ![n].valid = FALSE], edges |-> r.edges]
  OBVIOUS
<1>6. Sound(g) /\ g.nodes = nodes /\ g.edges = edges
  BY <1>1 DEF GraphInv, graph
<1>7. /\ nodes' = s.nodes /\ edges' = s.edges
      /\ node_of' = [node_of EXCEPT ![name] = NoNode]
      /\ Forget(removed) /\ is_levelized' = FALSE /\ n # NoNode
  <2>1. (ToSet(nodes[n].in) \cup ToSet(nodes[n].out)) \ {NoEdge} = removed
    BY <1>3, <1>6
  <2>. QED
    BY <1>1, <1>2, <1>4, <1>5, <2>1 DEF remove_node, InvalidateLevels, SetLevelized
<1>8. n \in ValidIds(g.nodes) /\ n \in DOMAIN g.nodes
  BY <1>2, <1>6, <1>7 DEF GraphInv, HandlesOK, ValidIds
<1>9. removed \subseteq ValidIds(g.edges)
  BY <1>3, <1>6, <1>8 DEF Sound, ListsOwned
<1>10. WithoutEdges(g, removed, r)
  BY <1>4, <1>6, <1>9, EdgesRemoved
<1>11. \A e \in ValidIds(r.edges) : r.edges[e].src # n /\ r.edges[e].sink # n
  <2>. SUFFICES ASSUME NEW e \in ValidIds(r.edges)
                PROVE  r.edges[e].src # n /\ r.edges[e].sink # n
    BY SMTT(30)
  <2>1. /\ e \in ValidIds(g.edges) /\ e \notin removed
        /\ r.edges[e].src = g.edges[e].src /\ r.edges[e].sink = g.edges[e].sink
    BY <1>10 DEF WithoutEdges, ValidIds
  <2>2. /\ Occurrences(g.nodes[g.edges[e].src].out, e) = 1
        /\ Occurrences(g.nodes[g.edges[e].sink].in, e) = 1
    BY <1>6, <2>1 DEF Sound, EndsListed
  <2>. DEFINE in  == g.nodes[n].in
              out == g.nodes[n].out
  <2>3. in \in Seq(Int) /\ out \in Seq(Int)
    BY <1>6, <1>8 DEF Sound, Typed, NodeShape
  <2>4. /\ Occurrences(in, e) = 0 <=> e \notin ToSet(in)
        /\ Occurrences(out, e) = 0 <=> e \notin ToSet(out)
    <3>. HIDE DEF in, out
    <3>. QED
      BY <2>3, OccurrencesCount
  <2>5. e # NoEdge
    <3>1. PICK k \in Nat : DOMAIN g.edges = 0 .. k - 1
      BY <1>6 DEF Sound, Typed, IdRange
    <3>. QED
      BY <2>1, <3>1 DEF ValidIds, NoEdge
  <2>6. e \notin ToSet(in) /\ e \notin ToSet(out)
    BY <1>3, <2>1, <2>5
  <2>. QED
    BY <2>1, <2>2, <2>4, <2>6
<1>12. WithoutNode(r, n, s)
  <2>1. Sound(r) /\ n \in DOMAIN r.nodes
    BY <1>8, <1>10 DEF WithoutEdges
  <2>. QED
    BY SMTT(30), <1>5, <1>11, <2>1, NodeInvalidated
<1>13. Sound(s) /\ graph' = s
  <2>1. Sound(s) /\ s = [nodes |-> s.nodes, edges |-> s.edges]
    BY <1>12 DEF WithoutNode, Sound, Typed
  <2>. QED
    BY <1>7, <2>1 DEF graph
<1>14. Pruned(g, removed, {n}, s)
  <2>1. Pruned(g, removed, {}, r)
    BY <1>9, <1>10, EdgesPruned
  <2>2. s.edges = r.edges
    BY <1>5
  <2>3. ToSet(g.nodes[n].in) \cup ToSet(g.nodes[n].out) \subseteq removed \cup {NoEdge}
    BY <1>3
  <2>4. /\ DOMAIN s.nodes = DOMAIN g.nodes /\ ValidIds(s.nodes) = ValidIds(g.nodes) \ {n}
        /\ \A m \in DOMAIN g.nodes : /\ s.nodes[m].type = g.nodes[m].type
                                     /\ s.nodes[m].in  = Invalidated(g.nodes[m].in, removed)
                                     /\ s.nodes[m].out = Invalidated(g.nodes[m].out, removed)
    BY <1>12, <2>1 DEF WithoutNode, Pruned
  <2>. QED
    BY <2>1, <2>2, <2>3, <2>4 DEF Pruned
<1>15. node_of' = Forgotten(node_of, NodeNames, {n})
  BY <1>2, <1>7 DEF GraphInv, HandlesOK, Forgotten
<1>16. TakenOut(removed, {n}, s)
  BY <1>1, <1>7, <1>13, <1>14, <1>15 DEF TakenOut
<1>. QED
  BY <1>1, <1>2, <1>3, <1>16 DEF EdgesAt

LEMMA TakenOutStep ==
  ASSUME GraphInv, NEW removed, NEW gone, NEW r, TakenOut(removed, gone, r)
  PROVE  GraphInv'
<1>1. graph.nodes = nodes /\ graph.edges = edges /\ r.nodes = nodes' /\ r.edges = edges'
  BY DEF graph, TakenOut
<1>2. /\ Sound(r) /\ graph' = r /\ Forget(removed) /\ is_levelized' = FALSE
      /\ ValidIds(nodes') = ValidIds(nodes) \ gone /\ ValidIds(edges') = ValidIds(edges) \ removed
      /\ node_of' = Forgotten(node_of, NodeNames, gone)
  BY <1>1 DEF TakenOut, Pruned
<1>3. HandlesOK(edge_of', EdgeNames, ValidIds(edges'))
  <2>1. HandlesOK(Forgotten(edge_of, EdgeNames, removed), EdgeNames, ValidIds(edges) \ removed)
    BY HandlesForgotten DEF GraphInv
  <2>. QED
    BY <1>2, <2>1, ForgetForgets
<1>4. HandlesOK(node_of', NodeNames, ValidIds(nodes'))
  <2>1. HandlesOK(Forgotten(node_of, NodeNames, gone), NodeNames, ValidIds(nodes) \ gone)
    BY HandlesForgotten DEF GraphInv
  <2>. QED
    BY <1>2, <2>1
<1>5. LevelsOK(graph', is_levelized', levelization')
  BY <1>2 DEF LevelsOK
<1>. QED
  BY <1>2, <1>3, <1>4, <1>5 DEF GraphInv

LEMMA EdgeDisabledStep ==
  ASSUME GraphInv, NEW name \in EdgeNames, NEW disable \in BOOLEAN, disable_edge(name, disable)
  PROVE  GraphInv'
<1>1. PICK g : g = graph
  OBVIOUS
<1>2. PICK e : e = edge_of[name]
  OBVIOUS
<1>3. PICK r : r = [nodes |-> g.nodes, edges |-> [g.edges EXCEPT ![e].disabled = disable]]
  OBVIOUS
<1>4. /\ Sound(g) /\ g = [nodes |-> g.nodes, edges |-> g.edges]
      /\ g.nodes = nodes /\ g.edges = edges
  BY <1>1 DEF GraphInv, graph
<1>5. /\ nodes' = nodes /\ edges' = r.edges /\ node_of' = node_of /\ edge_of' = edge_of
      /\ SetLevelized(is_levelized /\ edges[e].disabled = disable) /\ e # NoEdge
  BY <1>2, <1>3, <1>4 DEF disable_edge, LevelizedAfterDisable, handles
<1>6. e \in DOMAIN g.edges
  BY <1>2, <1>4, <1>5 DEF GraphInv, HandlesOK, NoEdge, NoNode, ValidIds
<1>7. WithFlag(g, e, disable, r)
  BY <1>3, <1>4, <1>6, EdgeDisabled
<1>8. graph' = r /\ r.nodes = g.nodes
  BY <1>3, <1>4, <1>5 DEF graph
<1>9. HandlesOK(edge_of', EdgeNames, ValidIds(edges')) /\ HandlesOK(node_of', NodeNames, ValidIds(nodes'))
  <2>1. ValidIds(r.edges) = ValidIds(edges)
    BY <1>4, <1>7 DEF WithFlag
  <2>. QED
    BY <1>5, <2>1 DEF GraphInv
<1>10. LevelsOK(graph', is_levelized', levelization')
  <2>1. is_levelized \in BOOLEAN
    BY DEF GraphInv, LevelsOK
  <2>2. CASE is_levelized /\ edges[e].disabled = disable
    <3>1. r = g
      <4>. DEFINE f == g.edges
                  x == f[e]
      <4>1. EdgeShape(x) /\ x.disabled = disable /\ f = [d \in DOMAIN f |-> f[d]]
        BY <1>4, <1>6, <2>2 DEF Sound, Typed
      <4>2. [x EXCEPT !.disabled = disable] = x
        BY <4>1 DEF EdgeShape
      <4>3. [f EXCEPT ![e].disabled = disable] = f
        <5>. HIDE DEF f
        <5>. QED
          BY <4>1, <4>2
      <4>. QED
        BY <1>3, <1>4, <4>3
    <3>2. is_levelized' = is_levelized /\ levelization' = levelization
      BY <1>5, <2>1, <2>2 DEF SetLevelized
    <3>3. LevelsOK(g, is_levelized, levelization)
      BY <1>1 DEF GraphInv
    <3>. QED
      BY <1>8, <3>1, <3>2, <3>3
  <2>3. CASE ~(is_levelized /\ edges[e].disabled = disable)
    BY <1>5, <2>3 DEF SetLevelized, LevelsOK
  <2>. QED
    BY <2>2, <2>3
<1>. QED
  BY <1>7, <1>8, <1>9, <1>10 DEF GraphInv, WithFlag

LEMMA LevelizeStep ==
  ASSUME GraphInv, levelize
  PROVE  GraphInv'
<1>1. /\ nodes' = nodes /\ edges' = edges /\ node_of' = node_of /\ edge_of' = edge_of
      /\ is_levelized' = TRUE /\ levelization' = force_levelize(graph) /\ graph' = graph /\ NoHoles
  BY DEF levelize, handles, graph
<1>2. graph.nodes = nodes /\ graph.edges = edges
  BY DEF graph
<1>3. Whole(graph)
  BY <1>1, <1>2 DEF GraphInv, NoHoles, Whole, NodesFull, EdgesFull
<1>4. LevelsOK(graph', is_levelized', levelization')
  BY <1>1, <1>3 DEF LevelsOK
<1>. QED
  BY <1>1, <1>4 DEF GraphInv

(***************************************************************************)
(* Renumbering, and the client following the maps.                         *)
(***************************************************************************)
MapsOK(g, nm, em, r) ==
  /\ Renumbers(nm, g.nodes) /\ Renumbers(em, g.edges)
  /\ r = remap_edges(remap_nodes(g, nm), em) /\ Whole(r)
  /\ ValidIds(r.nodes) = {nm[n] : n \in ValidIds(g.nodes)}
  /\ ValidIds(r.edges) = {em[e] : e \in ValidIds(g.edges)}

LEMMA MapsAreOK ==
  ASSUME NEW g, Sound(g), NEW nm, Renumbers(nm, g.nodes), NEW mid, mid = remap_nodes(g, nm),
         NEW em, Renumbers(em, g.edges), Renumbers(em, mid.edges),
         NEW r, r = remap_edges(mid, em), Whole(r)
  PROVE  MapsOK(g, nm, em, r)
<1>1. NodesMoved(g, nm, mid)
  BY NodesRemapped
<1>2. EdgesMoved(mid, em, r)
  BY <1>1, EdgesRemapped DEF NodesMoved
<1>3. ValidIds(r.nodes) = {nm[n] : n \in ValidIds(g.nodes)}
  <2>1. /\ ValidIds(r.nodes) = DOMAIN mid.nodes
        /\ \A n \in ValidIds(g.nodes) : nm[n] \in DOMAIN mid.nodes
        /\ \A m \in DOMAIN mid.nodes : \E n \in ValidIds(g.nodes) : m = nm[n]
    BY <1>1, <1>2 DEF NodesMoved, NodesFull, EdgesMoved
  <2>. QED
    BY SMTT(30), <2>1
<1>4. ValidIds(r.edges) = {em[e] : e \in ValidIds(g.edges)}
  <2>1. /\ ValidIds(r.edges) = DOMAIN r.edges /\ ValidIds(mid.edges) = ValidIds(g.edges)
        /\ \A e \in ValidIds(mid.edges) : em[e] \in DOMAIN r.edges
        /\ \A d \in DOMAIN r.edges : \E e \in ValidIds(mid.edges) : d = em[e]
    BY <1>1, <1>2 DEF NodesMoved, EdgesFull, EdgesMoved
  <2>. QED
    BY SMTT(30), <2>1
<1>. QED
  BY <1>3, <1>4 DEF MapsOK

LEMMA FollowFollows ==
  ASSUME NEW nm, NEW em, Follow(nm, em)
  PROVE  node_of' = Followed(node_of, NodeNames, nm) /\ edge_of' = Followed(edge_of, EdgeNames, em)
BY DEF Follow, Followed, NoEdge, NoNode

LEMMA RenumberedStep ==
  ASSUME GraphInv, NEW g, g = graph, NEW nm, NEW em, NEW r, MapsOK(g, nm, em, r),
         nodes' = r.nodes, edges' = r.edges, Follow(nm, em),
         is_levelized' = TRUE, levelization' = force_levelize(r)
  PROVE  GraphInv' /\ graph' = r
<1>1. Sound(r) /\ r = [nodes |-> r.nodes, edges |-> r.edges] /\ g.nodes = nodes /\ g.edges = edges
  BY DEF MapsOK, Whole, Sound, Typed, graph
<1>2. graph' = r
  BY <1>1 DEF graph
<1>3. HandlesOK(node_of', NodeNames, ValidIds(nodes'))
  <2>. DEFINE f == g.nodes
  <2>1. HandlesOK(node_of, NodeNames, ValidIds(f)) /\ Renumbers(nm, f)
    BY <1>1 DEF GraphInv, MapsOK
  <2>2. ValidIds(nodes') = {nm[n] : n \in ValidIds(f)}
    BY DEF MapsOK
  <2>. HIDE DEF f
  <2>3. HandlesOK(Followed(node_of, NodeNames, nm), NodeNames, {nm[n] : n \in ValidIds(f)})
    BY <2>1, HandlesFollowed
  <2>. QED
    BY <2>2, <2>3, FollowFollows
<1>4. HandlesOK(edge_of', EdgeNames, ValidIds(edges'))
  <2>. DEFINE f == g.edges
  <2>1. HandlesOK(edge_of, EdgeNames, ValidIds(f)) /\ Renumbers(em, f)
    BY <1>1 DEF GraphInv, MapsOK
  <2>2. ValidIds(edges') = {em[e] : e \in ValidIds(f)}
    BY DEF MapsOK
  <2>. HIDE DEF f
  <2>3. HandlesOK(Followed(edge_of, EdgeNames, em), EdgeNames, {em[e] : e \in ValidIds(f)})
    BY <2>1, HandlesFollowed
  <2>. QED
    BY <2>2, <2>3, FollowFollows
<1>5. LevelsOK(graph', is_levelized', levelization')
  BY <1>2 DEF LevelsOK, MapsOK
<1>. QED
  BY <1>1, <1>2, <1>3, <1>4, <1>5 DEF GraphInv

LEMMA CompressMaps ==
  ASSUME GraphInv, compress
  PROVE  \E g, nm, em, r :
           /\ nm = compress_ids(nodes)
           /\ g = graph /\ MapsOK(g, nm, em, r) /\ Follow(nm, em)
           /\ nodes' = r.nodes /\ edges' = r.edges
           /\ is_levelized' = TRUE /\ levelization' = force_levelize(r)
<1>1. PICK g : g = graph
  OBVIOUS
<1>2. PICK nm, em : nm = compress_ids(g.nodes) /\ em = compress_ids(g.edges)
  OBVIOUS
<1>3. PICK mid : mid = remap_nodes(g, nm)
  OBVIOUS
<1>4. PICK r : r = remap_edges(mid, em)
  OBVIOUS
<1>5. Sound(g) /\ g.nodes = nodes /\ g.edges = edges
  BY <1>1 DEF GraphInv, graph
<1>6. /\ Renumbers(nm, g.nodes) /\ Renumbers(em, g.edges) /\ Renumbers(em, mid.edges)
      /\ Whole(remap_edges(mid, em))
  BY <1>2, <1>3, <1>5, CompressedIsWhole
<1>7. MapsOK(g, nm, em, r)
  BY <1>3, <1>4, <1>5, <1>6, MapsAreOK
<1>8. r = Compressed /\ compress_ids(nodes) = nm /\ compress_ids(edges) = em
  BY <1>1, <1>2, <1>3, <1>4, <1>5 DEF Compressed
<1>9. /\ Follow(nm, em) /\ nodes' = r.nodes /\ edges' = r.edges
      /\ is_levelized' = TRUE /\ levelization' = force_levelize(r)
  BY <1>8 DEF compress
<1>. QED
  BY <1>1, <1>7, <1>8, <1>9

LEMMA OptimizeMaps ==
  ASSUME GraphInv, optimize_layout
  PROVE  \E g, nm, em, r :
           /\ OptimizedMaps = [node |-> nm, edge |-> em]
           /\ g = graph /\ MapsOK(g, nm, em, r) /\ Follow(nm, em)
           /\ nodes' = r.nodes /\ edges' = r.edges
           /\ is_levelized' = TRUE /\ levelization' = force_levelize(r)
<1>1. PICK g, lv : g = graph /\ lv = levelization
  OBVIOUS
<1>2. PICK nm : nm = optimize_node_layout(lv)
  OBVIOUS
<1>3. PICK mid : mid = remap_nodes(g, nm)
  OBVIOUS
<1>4. PICK em : em = optimize_edge_layout(mid, force_levelize(mid))
  OBVIOUS
<1>5. PICK r : r = remap_edges(mid, em)
  OBVIOUS
<1>6. /\ Whole(g) /\ lv = force_levelize(g) /\ Sound(g) /\ g.nodes = nodes /\ g.edges = edges
      /\ is_levelized' = is_levelized /\ is_levelized = TRUE
      /\ \A n \in DOMAIN g.nodes : lv.node_level[n] # NoLevel
  BY <1>1 DEF GraphInv, LevelsOK, optimize_layout, graph
<1>7. /\ Renumbers(nm, g.nodes) /\ Renumbers(em, g.edges) /\ Renumbers(em, mid.edges)
      /\ Whole(remap_edges(mid, em))
  BY <1>2, <1>3, <1>4, <1>6, OptimizedIsWhole
<1>8. MapsOK(g, nm, em, r)
  BY <1>3, <1>5, <1>6, <1>7, MapsAreOK
<1>9. OptimizedMaps = [node |-> nm, edge |-> em]
  BY <1>1, <1>2, <1>3, <1>4 DEF OptimizedMaps
<1>10. /\ Follow(nm, em) /\ nodes' = r.nodes /\ edges' = r.edges
       /\ levelization' = force_levelize(r)
  BY <1>1, <1>3, <1>5, <1>9 DEF optimize_layout
<1>. QED
  BY <1>1, <1>6, <1>8, <1>9, <1>10

LEMMA StartOverStep ==
  ASSUME GraphInv, compress_throws
  PROVE  GraphInv'
<1>1. /\ nodes' = EmptyMap /\ edges' = EmptyMap /\ is_levelized' = FALSE
      /\ levelization' = NotLevelized /\ node_of' = [n \in NodeNames |-> NoNode]
      /\ edge_of' = [e \in EdgeNames |-> NoEdge]
  BY DEF compress_throws, InvalidateLevels, SetLevelized
<1>. DEFINE g == [nodes |-> EmptyMap, edges |-> EmptyMap]
<1>2. graph' = g
  BY <1>1 DEF graph
<1>3. Sound(g) /\ HandlesOK([n \in NodeNames |-> NoNode], NodeNames, ValidIds(EmptyMap))
      /\ HandlesOK([e \in EdgeNames |-> NoEdge], EdgeNames, ValidIds(EmptyMap))
  BY NothingIsSound
<1>4. LevelsOK(graph', is_levelized', levelization')
  BY <1>1 DEF LevelsOK
<1>. QED
  BY <1>1, <1>2, <1>3, <1>4 DEF GraphInv

LEMMA GraphInvIsInductive == GraphInv /\ [Next]_vars => GraphInv'
<1>. SUFFICES ASSUME GraphInv, [Next]_vars PROVE GraphInv'
  OBVIOUS
<1>1. ASSUME NEW n \in NodeNames, add_node(n) PROVE GraphInv'
  BY <1>1, NodeAddedStep
<1>2. ASSUME NEW n \in NodeNames, remove_node(n) PROVE GraphInv'
  BY <1>2, NodeTakenOut, TakenOutStep
<1>3. ASSUME NEW e \in EdgeNames, add_edge(e) PROVE GraphInv'
  BY <1>3, EdgeAddedStep
<1>4. ASSUME NEW e \in EdgeNames, remove_edge(e) PROVE GraphInv'
  BY <1>4, EdgeTakenOut, TakenOutStep
<1>5. ASSUME NEW e \in EdgeNames, NEW disable \in BOOLEAN, disable_edge(e, disable) PROVE GraphInv'
  BY <1>5, EdgeDisabledStep
<1>6. CASE levelize
  BY <1>6, LevelizeStep
<1>7. CASE compress
  BY <1>7, CompressMaps, RenumberedStep
<1>8. CASE optimize_layout
  BY <1>8, OptimizeMaps, RenumberedStep
<1>9. CASE compress_throws
  BY <1>9, StartOverStep
<1>10. CASE UNCHANGED vars
  BY <1>10 DEF vars, levels, handles, GraphInv, graph
<1>. QED
  BY <1>1, <1>2, <1>3, <1>4, <1>5, <1>6, <1>7, <1>8, <1>9, <1>10 DEF Next

(***************************************************************************)
(* The invariant, and what follows from it.                                *)
(***************************************************************************)
THEOREM GraphInvariant == Spec => []GraphInv
<1>1. Init => GraphInv
  BY InitSound
<1>. QED
  BY <1>1, GraphInvIsInductive, PTL DEF Spec

LEMMA GraphInvTypes == GraphInv => TypeOK
<1>. SUFFICES ASSUME GraphInv PROVE TypeOK
  OBVIOUS
<1>1. graph.nodes = nodes /\ graph.edges = edges
  BY DEF graph
<1>2. IdRange(DOMAIN nodes) /\ IdRange(DOMAIN edges)
  BY <1>1 DEF GraphInv, Sound, Typed
<1>3. /\ DOMAIN nodes = 0 .. Cardinality(DOMAIN nodes) - 1
      /\ DOMAIN edges = 0 .. Cardinality(DOMAIN edges) - 1
  BY <1>2, SizeOfIds
<1>4. node_of \in [NodeNames -> ValidIds(nodes) \cup {NoNode}]
  BY DEF GraphInv, HandlesOK
<1>5. edge_of \in [EdgeNames -> ValidIds(edges) \cup {NoEdge}]
  BY DEF GraphInv, HandlesOK, NoEdge, NoNode
<1>6. ValidIds(nodes) \subseteq DOMAIN nodes /\ ValidIds(edges) \subseteq DOMAIN edges
  BY DEF ValidIds
<1>7. is_levelized \in BOOLEAN
  BY DEF GraphInv, LevelsOK
<1>. QED
  BY <1>3, <1>4, <1>5, <1>6, <1>7 DEF TypeOK

(***************************************************************************)
(* Node and edge ids are always 0, 1, ... without a gap, and every id the  *)
(* client holds is one of them: the linear_maps of the graph never read    *)
(* out of range.                                                           *)
(***************************************************************************)
THEOREM IdsInRange == Spec => []TypeOK
<1>. QED
  BY GraphInvTypes, GraphInvariant, PTL

LEMMA GraphInvReferences == GraphInv => ReferencesConsistent
<1>. SUFFICES ASSUME GraphInv PROVE ReferencesConsistent
  OBVIOUS
<1>1. graph.nodes = nodes /\ graph.edges = edges
  BY DEF graph
<1>2. EndsListed(graph) /\ ListsOwned(graph)
  BY DEF GraphInv, Sound
<1>3. \A e \in ValidIds(edges) :
        /\ {edges[e].src, edges[e].sink} \subseteq ValidIds(nodes)
        /\ Occurrences(nodes[edges[e].src].out, e) = 1
        /\ Occurrences(nodes[edges[e].sink].in, e) = 1
  BY <1>1, <1>2 DEF EndsListed
<1>4. \A n \in DOMAIN nodes :
        /\ ToSet(nodes[n].in) \ {NoEdge}  \subseteq {e \in ValidIds(edges) : edges[e].sink = n}
        /\ ToSet(nodes[n].out) \ {NoEdge} \subseteq {e \in ValidIds(edges) : edges[e].src = n}
  BY <1>1, <1>2 DEF ListsOwned
<1>. QED
  BY <1>3, <1>4 DEF ReferencesConsistent

(***************************************************************************)
(* Whatever is added, removed, renumbered and reordered: a valid edge is   *)
(* once in the fan-out of its source and once in the fan-in of its sink,   *)
(* both valid nodes, and the lists hold nothing else but invalid           *)
(* references.                                                             *)
(***************************************************************************)
THEOREM ReferencesStayConsistent == Spec => []ReferencesConsistent
<1>. QED
  BY GraphInvReferences, GraphInvariant, PTL

LEMMA GraphInvLevels == GraphInv => LevelsCurrent
<1>. SUFFICES ASSUME GraphInv, is_levelized
              PROVE  /\ {n \in DOMAIN nodes : LevelOf(n) = NoLevel} = AfterLoop(graph)
                     /\ \A n \in DOMAIN nodes : LevelOf(n) # NoLevel =>
                          Occurrences(NodesByLevel(levelization), n) = 1
                     /\ \A p \in ActivePairs(graph) : LevelOf(p[2]) # NoLevel =>
                          LevelOf(p[1]) < LevelOf(p[2])
  BY DEF LevelsCurrent
<1>1. graph.nodes = nodes
  BY DEF graph
<1>2. LevelsRight(graph, levelization)
  BY LevelizationLevels DEF GraphInv, LevelsOK
<1>. QED
  BY <1>1, <1>2 DEF LevelsRight, LevelOf

(***************************************************************************)
(* A levelization that calls itself valid is right for the graph as it is  *)
(* now, after any sequence of edits: exactly the nodes at or after a loop  *)
(* have no level, every other one is on one level, and active edges lead   *)
(* from lower to higher levels.                                            *)
(***************************************************************************)
THEOREM LevelsStayCurrent == Spec => []LevelsCurrent
<1>. QED
  BY GraphInvLevels, GraphInvariant, PTL

(***************************************************************************)
(* After optimize_layout() the nodes lie in memory in the order in which   *)
(* the levelization made then visits them, and the edges in the order in   *)
(* which the arrival traversal meets them: the second levelization of the  *)
(* code, over the renumbered graph, does not disturb the order.            *)
(***************************************************************************)
LEMMA OptimizedLayout ==
  ASSUME GraphInv, optimize_layout
  PROVE  InWalkOrder'
<1>1. PICK g, lv : g = graph /\ lv = levelization
  OBVIOUS
<1>2. PICK nm : nm = optimize_node_layout(lv)
  OBVIOUS
<1>3. PICK mid : mid = remap_nodes(g, nm)
  OBVIOUS
<1>4. PICK em : em = optimize_edge_layout(mid, force_levelize(mid))
  OBVIOUS
<1>5. PICK r : r = remap_edges(mid, em)
  OBVIOUS
<1>6. /\ Whole(g) /\ lv = force_levelize(g)
      /\ \A n \in DOMAIN g.nodes : lv.node_level[n] # NoLevel
  BY <1>1 DEF GraphInv, LevelsOK, optimize_layout, graph
<1>7. InIdOrder(r)
  BY <1>2, <1>3, <1>4, <1>5, <1>6, OptimizedInOrder
<1>8. OptimizedMaps = [node |-> nm, edge |-> em]
  BY <1>1, <1>2, <1>3, <1>4 DEF OptimizedMaps
<1>9. nodes' = r.nodes /\ levelization' = force_levelize(r)
  BY <1>1, <1>3, <1>5, <1>8 DEF optimize_layout
<1>10. InWalkOrder' <=>
         /\ Ascending(NodesByLevel(levelization'))
         /\ Ascending(Concatenated([i \in DOMAIN NodesByLevel(levelization') |->
                                      nodes'[NodesByLevel(levelization')[i]].in]))
  BY DEF InWalkOrder
<1>. QED
  BY <1>7, <1>9, <1>10 DEF InIdOrder

THEOREM LayoutStaysInWalkOrder == Spec => LayoutFollowsWalk
<1>. DEFINE Laid == InWalkOrder
<1>1. GraphInv /\ optimize_layout => Laid'
  BY OptimizedLayout
<1>2. LayoutFollowsWalk <=> [][optimize_layout => Laid']_vars
  BY DEF LayoutFollowsWalk
<1>. HIDE DEF Laid
<1>. QED
  BY <1>1, <1>2, GraphInvariant, PTL

(***************************************************************************)
(* What the client sees of a graph g through the ids it holds.             *)
(***************************************************************************)
Held(g, no, eo) ==
  /\ Sound(g)
  /\ HandlesOK(no, NodeNames, ValidIds(g.nodes)) /\ HandlesOK(eo, EdgeNames, ValidIds(g.edges))

NameMap(g, eo) == [e \in DOMAIN g.edges |-> NameIn(eo, e)]

PartsOf(g, no) == [n \in Known(no) |-> g.nodes[no[n]].type]

WireOf(g, no, e) ==
  [end |-> [type |-> g.edges[e].type, src |-> NameIn(no, g.edges[e].src),
            sink |-> NameIn(no, g.edges[e].sink)],
   disabled |-> g.edges[e].disabled]

WiresOf(g, no, eo) == [w \in Known(eo) |-> WireOf(g, no, eo[w])]

NamedFaninOf(g, no, eo) ==
  [n \in NodeNames |-> IF no[n] = NoNode THEN <<>> ELSE Mapped(g.nodes[no[n]].in, NameMap(g, eo))]

NamedFanoutOf(g, no, eo) ==
  [n \in NodeNames |-> IF no[n] = NoNode THEN <<>> ELSE Mapped(g.nodes[no[n]].out, NameMap(g, eo))]

LEMMA ClientSees ==
  /\ parts = PartsOf(graph, node_of) /\ wires = WiresOf(graph, node_of, edge_of)
  /\ fanin = NamedFaninOf(graph, node_of, edge_of) /\ fanout = NamedFanoutOf(graph, node_of, edge_of)
<1>1. graph.nodes = nodes /\ graph.edges = edges
  BY DEF graph
<1>. QED
  BY <1>1 DEF parts, wires, fanin, fanout, PartsOf, WiresOf, WireOf, NamedFaninOf, NamedFanoutOf,
              NamedEnds, NamedEdges, NameMap

LEMMA ClientSeesNext ==
  /\ parts' = PartsOf(graph', node_of') /\ wires' = WiresOf(graph', node_of', edge_of')
  /\ fanin' = NamedFaninOf(graph', node_of', edge_of') /\ fanout' = NamedFanoutOf(graph', node_of', edge_of')
<1>1. graph'.nodes = nodes' /\ graph'.edges = edges'
  BY DEF graph
<1>. QED
  BY <1>1 DEF parts, wires, fanin, fanout, PartsOf, WiresOf, WireOf, NamedFaninOf, NamedFanoutOf,
              NamedEnds, NamedEdges, NameMap

(***************************************************************************)
(* Every valid entry has one name.                                         *)
(***************************************************************************)
OneNameEach(handle, Names, ids) ==
  /\ Known(handle) = {x \in Names : handle[x] # NoNode}
  /\ \A x \in Known(handle) : handle[x] \in ids /\ NameIn(handle, handle[x]) = x
  /\ \A i \in ids : /\ NameIn(handle, i) \in Known(handle) /\ NameIn(handle, i) \in Names
                    /\ handle[NameIn(handle, i)] = i

LEMMA NamesKnown ==
  ASSUME NEW handle, NEW Names, NEW ids, HandlesOK(handle, Names, ids)
  PROVE  OneNameEach(handle, Names, ids)
<1>1. DOMAIN handle = Names
  BY DEF HandlesOK
<1>2. Known(handle) = {x \in Names : handle[x] # NoNode}
  BY <1>1 DEF Known
<1>3. ASSUME NEW i \in ids
      PROVE  NameIn(handle, i) \in Names /\ handle[NameIn(handle, i)] = i /\ i # NoNode
  <2>1. \E x \in DOMAIN handle : handle[x] = i
    BY <1>1 DEF HandlesOK
  <2>2. i # NoNode
    BY DEF HandlesOK
  <2>. QED
    BY <1>1, <2>1, <2>2 DEF NameIn
<1>4. ASSUME NEW x \in Known(handle) PROVE handle[x] \in ids /\ NameIn(handle, handle[x]) = x
  <2>1. x \in Names /\ handle[x] # NoNode /\ handle[x] \in ids
    BY <1>2 DEF HandlesOK
  <2>2. NameIn(handle, handle[x]) \in Names /\ handle[NameIn(handle, handle[x])] = handle[x]
    BY <1>3, <2>1
  <2>. QED
    BY <2>1, <2>2 DEF HandlesOK
<1>. QED
  BY <1>2, <1>3, <1>4 DEF OneNameEach

LEMMA SameName ==
  ASSUME NEW handle, NEW Names, NEW ids, HandlesOK(handle, Names, ids),
         NEW x \in Names, NEW i \in ids, handle[x] = i
  PROVE  NameIn(handle, i) = x
<1>1. OneNameEach(handle, Names, ids)
  BY NamesKnown
<1>2. x \in Known(handle)
  BY <1>1 DEF HandlesOK, OneNameEach
<1>. QED
  BY <1>1, <1>2 DEF OneNameEach

Listed(g) == ValidIds(g.edges) \cup {NoEdge}

LEMMA ListsWithin ==
  ASSUME NEW g, Sound(g), NEW n \in DOMAIN g.nodes
  PROVE  g.nodes[n].in \in Seq(Listed(g)) /\ g.nodes[n].out \in Seq(Listed(g))
<1>. DEFINE in  == g.nodes[n].in
            out == g.nodes[n].out
            T   == Listed(g)
<1>1. in \in Seq(Int) /\ out \in Seq(Int)
  BY DEF Sound, Typed, NodeShape
<1>2. ToSet(in) \subseteq T /\ ToSet(out) \subseteq T
  BY DEF Sound, ListsOwned, Listed
<1>. HIDE DEF in, out, T
<1>3. in \in Seq(T) /\ out \in Seq(T)
  BY <1>1, <1>2, SequenceWithin
<1>. QED
  BY <1>3 DEF in, out, T

LEMMA NoEdgeId ==
  ASSUME NEW g, Sound(g)
  PROVE  NoEdge \notin DOMAIN g.edges
<1>1. PICK k \in Nat : DOMAIN g.edges = 0 .. k - 1
  BY DEF Sound, Typed, IdRange
<1>. QED
  BY <1>1 DEF NoEdge

(***************************************************************************)
(* A wire keeps its end when the ids of its ends keep their names.         *)
(***************************************************************************)
EndsFollow(g, no, e, r, no2, d) ==
  /\ r.edges[d].type = g.edges[e].type
  /\ r.edges[d].src  = no2[NameIn(no, g.edges[e].src)]
  /\ r.edges[d].sink = no2[NameIn(no, g.edges[e].sink)]

LEMMA SameWire ==
  ASSUME NEW g, NEW no, NEW eo, Held(g, no, eo), NEW r, NEW no2, NEW eo2, Held(r, no2, eo2),
         NEW e \in ValidIds(g.edges), NEW d \in ValidIds(r.edges), EndsFollow(g, no, e, r, no2, d)
  PROVE  WireOf(r, no2, d).end = WireOf(g, no, e).end
<1>1. /\ g.edges[e].src \in ValidIds(g.nodes) /\ g.edges[e].sink \in ValidIds(g.nodes)
      /\ r.edges[d].src \in ValidIds(r.nodes) /\ r.edges[d].sink \in ValidIds(r.nodes)
  BY DEF Held, Sound, EndsListed
<1>2. HandlesOK(no, NodeNames, ValidIds(g.nodes)) /\ HandlesOK(no2, NodeNames, ValidIds(r.nodes))
  BY DEF Held
<1>3. NameIn(no, g.edges[e].src) \in NodeNames /\ NameIn(no, g.edges[e].sink) \in NodeNames
  <2>1. OneNameEach(no, NodeNames, ValidIds(g.nodes))
    BY <1>2, NamesKnown
  <2>. QED
    BY <1>1, <2>1 DEF OneNameEach
<1>4. /\ NameIn(no2, r.edges[d].src) = NameIn(no, g.edges[e].src)
      /\ NameIn(no2, r.edges[d].sink) = NameIn(no, g.edges[e].sink)
  BY <1>1, <1>2, <1>3, SameName DEF EndsFollow
<1>. QED
  BY <1>4 DEF WireOf, EndsFollow

Listing(f) == f = [k \in DOMAIN f |-> f[k]]

Extends(h, f, x, y) ==
  /\ h = [k \in DOMAIN h |-> h[k]] /\ DOMAIN h = DOMAIN f \cup {x}
  /\ x \notin DOMAIN f /\ h[x] = y /\ \A k \in DOMAIN f : h[k] = f[k]

LEMMA MoreWith ==
  ASSUME NEW f, NEW h, NEW x, NEW y, Extends(h, f, x, y)
  PROVE  h = Named!With(f, x, y)
BY DEF Extends, Named!With

Assigned(handle, x, id, after) == after = [handle EXCEPT ![x] = id]

PartSeen(g, no, eo, r, no2, x, type) ==
  /\ PartsOf(r, no2) = Named!With(PartsOf(g, no), x, type)
  /\ WiresOf(r, no2, eo) = WiresOf(g, no, eo)
  /\ NamedFaninOf(r, no2, eo) = NamedFaninOf(g, no, eo)
  /\ NamedFanoutOf(r, no2, eo) = NamedFanoutOf(g, no, eo)

LEMMA NodeAddedSeen ==
  ASSUME NEW g, NEW no, NEW eo, Held(g, no, eo), NEW r, NEW no2, Held(r, no2, eo),
         NEW x \in NodeNames, no[x] = NoNode, NEW type, NEW new, WithNode(g, type, new, r),
         Assigned(no, x, new, no2)
  PROVE  PartSeen(g, no, eo, r, no2, x, type)
<1>1. /\ HandlesOK(no, NodeNames, ValidIds(g.nodes)) /\ HandlesOK(no2, NodeNames, ValidIds(r.nodes))
      /\ HandlesOK(eo, EdgeNames, ValidIds(g.edges)) /\ Sound(g)
  BY DEF Held
<1>0. /\ OneNameEach(no, NodeNames, ValidIds(g.nodes)) /\ OneNameEach(no2, NodeNames, ValidIds(r.nodes))
      /\ OneNameEach(eo, EdgeNames, ValidIds(g.edges))
  BY <1>1, NamesKnown
<1>2. /\ r.edges = g.edges /\ new \in Nat /\ new \notin DOMAIN g.nodes
      /\ r.nodes[new] = [valid |-> TRUE, type |-> type, in |-> <<>>, out |-> <<>>]
      /\ \A n \in DOMAIN g.nodes : r.nodes[n] = g.nodes[n]
  BY DEF WithNode
<1>3. no2[x] = new /\ new # NoNode /\ \A y \in NodeNames : y # x => no2[y] = no[y]
  BY <1>1, <1>2 DEF HandlesOK, NoNode, Assigned
<1>4. \A y \in Known(no) : y \in NodeNames /\ y # x /\ no[y] \in DOMAIN g.nodes
  BY <1>0 DEF ValidIds, OneNameEach
<1>5. Known(no2) = Known(no) \cup {x}
  <2>1. /\ Known(no) = {y \in NodeNames : no[y] # NoNode}
        /\ Known(no2) = {y \in NodeNames : no2[y] # NoNode}
    BY <1>0 DEF OneNameEach
  <2>. QED
    BY <1>3, <2>1
<1>6. PartsOf(r, no2) = Named!With(PartsOf(g, no), x, type)
  <2>1. \A y \in Known(no) : r.nodes[no2[y]].type = g.nodes[no[y]].type
    BY <1>2, <1>3, <1>4
  <2>2. r.nodes[no2[x]].type = type
    BY <1>2, <1>3
  <2>. QED
    <3>. DEFINE f == PartsOf(g, no)
                h == PartsOf(r, no2)
    <3>1. /\ DOMAIN f = Known(no) /\ DOMAIN h = Known(no2) /\ h = [k \in DOMAIN h |-> h[k]]
          /\ \A y \in Known(no) : f[y] = g.nodes[no[y]].type
          /\ \A y \in Known(no2) : h[y] = r.nodes[no2[y]].type
      BY DEF PartsOf
    <3>. HIDE DEF f, h
    <3>2. \A y \in Known(no) : y \in Known(no2) /\ y # x
      BY <1>4, <1>5
    <3>3. Extends(h, f, x, type)
      <4>1. DOMAIN h = DOMAIN f \cup {x} /\ x \notin DOMAIN f
        BY <1>4, <1>5, <3>1
      <4>2. h[x] = type
        BY <1>5, <2>2, <3>1
      <4>3. ASSUME NEW k \in DOMAIN f PROVE h[k] = f[k]
        <5>1. k \in Known(no) /\ k \in Known(no2)
          BY <3>1, <3>2
        <5>2. f[k] = g.nodes[no[k]].type /\ h[k] = r.nodes[no2[k]].type
          BY <3>1, <5>1
        <5>. QED
          BY <2>1, <5>1, <5>2
      <4>. QED
        BY <3>1, <4>1, <4>2, <4>3 DEF Extends
    <3>4. h = Named!With(f, x, type)
      BY <3>3, MoreWith
    <3>. QED
      BY <3>4 DEF f, h
<1>7. WiresOf(r, no2, eo) = WiresOf(g, no, eo)
  <2>1. ASSUME NEW w \in Known(eo) PROVE WireOf(r, no2, eo[w]) = WireOf(g, no, eo[w])
    <3>. DEFINE e == eo[w]
    <3>1. e \in ValidIds(g.edges) /\ e \in ValidIds(r.edges)
      BY <1>0, <1>2 DEF OneNameEach
    <3>2. g.edges[e].src \in ValidIds(g.nodes) /\ g.edges[e].sink \in ValidIds(g.nodes)
      BY <1>1, <3>1 DEF Sound, EndsListed
    <3>3. \A i \in ValidIds(g.nodes) : no2[NameIn(no, i)] = i
      BY <1>0, <1>3, <1>4 DEF OneNameEach
    <3>. HIDE DEF e
    <3>4. WireOf(r, no2, e).end = WireOf(g, no, e).end
      <4>1. EndsFollow(g, no, e, r, no2, e)
        BY <1>2, <3>2, <3>3 DEF EndsFollow
      <4>. QED
        BY <3>1, <4>1, SameWire
    <3>. QED
      BY <1>2, <3>4 DEF WireOf, e
  <2>. QED
    BY <2>1 DEF WiresOf
<1>8. NameMap(r, eo) = NameMap(g, eo)
  BY <1>2 DEF NameMap
<1>9. ASSUME NEW y \in NodeNames
      PROVE  /\ NamedFaninOf(r, no2, eo)[y] = NamedFaninOf(g, no, eo)[y]
             /\ NamedFanoutOf(r, no2, eo)[y] = NamedFanoutOf(g, no, eo)[y]
  <2>1. CASE y = x
    <3>1. Mapped(<<>>, NameMap(r, eo)) = <<>>
      BY EmptyMapped
    <3>2. r.nodes[new].in = <<>> /\ r.nodes[new].out = <<>>
      BY <1>2
    <3>. QED
      BY <1>3, <2>1, <3>1, <3>2 DEF NamedFaninOf, NamedFanoutOf
  <2>2. CASE y # x /\ no[y] = NoNode
    BY <1>3, <2>2 DEF NamedFaninOf, NamedFanoutOf
  <2>3. CASE y # x /\ no[y] # NoNode
    <3>1. no2[y] = no[y] /\ r.nodes[no[y]] = g.nodes[no[y]]
      BY <1>1, <1>2, <1>3, <2>3 DEF HandlesOK, ValidIds
    <3>. QED
      BY <1>8, <2>3, <3>1 DEF NamedFaninOf, NamedFanoutOf
  <2>. QED
    BY <2>1, <2>2, <2>3
<1>10. NamedFaninOf(r, no2, eo) = NamedFaninOf(g, no, eo) /\ NamedFanoutOf(r, no2, eo) = NamedFanoutOf(g, no, eo)
  BY <1>9 DEF NamedFaninOf, NamedFanoutOf
<1>. QED
  BY <1>6, <1>7, <1>10 DEF PartSeen

Defines(x, type, a, b) == EdgeDef[x] = [type |-> type, src |-> a, sink |-> b]

WireSeen(g, no, eo, r, eo2, x, a, b) ==
  /\ PartsOf(r, no) = PartsOf(g, no)
  /\ WiresOf(r, no, eo2) = Named!With(WiresOf(g, no, eo), x, [end |-> EdgeDef[x], disabled |-> FALSE])
  /\ NamedFanoutOf(r, no, eo2) = [NamedFanoutOf(g, no, eo) EXCEPT ![a] = Append(@, x)]
  /\ NamedFaninOf(r, no, eo2)  = [NamedFaninOf(g, no, eo)  EXCEPT ![b] = Append(@, x)]

LEMMA EdgeAddedSeen ==
  ASSUME NEW g, NEW no, NEW eo, Held(g, no, eo), NEW r, NEW eo2, Held(r, no, eo2),
         NEW x \in EdgeNames, eo[x] = NoNode, NEW a \in NodeNames, NEW b \in NodeNames,
         no[a] # NoNode, no[b] # NoNode, NEW type, Defines(x, type, a, b),
         NEW new, NEW from, NEW to, from = no[a], to = no[b], WithEdge(g, type, from, to, new, r),
         Assigned(eo, x, new, eo2)
  PROVE  WireSeen(g, no, eo, r, eo2, x, a, b)
<1>1. /\ HandlesOK(no, NodeNames, ValidIds(g.nodes)) /\ HandlesOK(eo, EdgeNames, ValidIds(g.edges))
      /\ HandlesOK(eo2, EdgeNames, ValidIds(r.edges)) /\ Sound(g) /\ Sound(r)
  BY DEF Held
<1>2. /\ OneNameEach(no, NodeNames, ValidIds(g.nodes)) /\ OneNameEach(eo, EdgeNames, ValidIds(g.edges))
      /\ OneNameEach(eo2, EdgeNames, ValidIds(r.edges))
  BY <1>1, NamesKnown
<1>3. /\ new \in Nat /\ new \notin DOMAIN g.edges /\ DOMAIN r.edges = DOMAIN g.edges \cup {new}
      /\ ValidIds(r.edges) = ValidIds(g.edges) \cup {new}
      /\ r.edges[new] = [valid |-> TRUE, type |-> type, src |-> no[a], sink |-> no[b],
                         disabled |-> FALSE]
      /\ \A e \in DOMAIN g.edges : r.edges[e] = g.edges[e]
      /\ DOMAIN r.nodes = DOMAIN g.nodes /\ ValidIds(r.nodes) = ValidIds(g.nodes)
  BY DEF WithEdge
<1>4. \A n \in DOMAIN g.nodes :
        /\ r.nodes[n].type = g.nodes[n].type
        /\ r.nodes[n].out = IF n = no[a] THEN Append(g.nodes[n].out, new) ELSE g.nodes[n].out
        /\ r.nodes[n].in  = IF n = no[b] THEN Append(g.nodes[n].in, new)  ELSE g.nodes[n].in
  BY DEF WithEdge
<1>5. /\ eo2[x] = new /\ new # NoNode /\ \A y \in EdgeNames : y # x => eo2[y] = eo[y]
      /\ ValidIds(g.edges) \subseteq DOMAIN g.edges /\ ValidIds(g.nodes) \subseteq DOMAIN g.nodes
  BY <1>1, <1>3 DEF HandlesOK, NoNode, ValidIds, Assigned
<1>6. \A y \in Known(no) : y \in NodeNames /\ no[y] \in DOMAIN g.nodes
  BY <1>2, <1>5 DEF OneNameEach
<1>7. PartsOf(r, no) = PartsOf(g, no)
  BY <1>4, <1>6 DEF PartsOf
<1>8. /\ \A w \in Known(eo) : w \in EdgeNames /\ w # x /\ eo[w] \in ValidIds(g.edges)
      /\ Known(eo2) = Known(eo) \cup {x}
  <2>1. /\ Known(eo) = {y \in EdgeNames : eo[y] # NoNode}
        /\ Known(eo2) = {y \in EdgeNames : eo2[y] # NoNode}
        /\ \A w \in Known(eo) : eo[w] \in ValidIds(g.edges)
    BY <1>2 DEF OneNameEach
  <2>. QED
    BY <1>5, <2>1
<1>9. ASSUME NEW w \in Known(eo)
      PROVE  w \in Known(eo2) /\ WiresOf(r, no, eo2)[w] = WiresOf(g, no, eo)[w]
  <2>. DEFINE e == eo[w]
  <2>1. /\ e \in ValidIds(g.edges) /\ e \in ValidIds(r.edges) /\ r.edges[e] = g.edges[e]
        /\ eo2[w] = e /\ w \in Known(eo2)
    BY <1>3, <1>5, <1>8
  <2>. HIDE DEF e
  <2>2. WireOf(r, no, e) = WireOf(g, no, e)
    BY <2>1 DEF WireOf
  <2>. QED
    BY <2>1, <2>2 DEF WiresOf, e
<1>10. WiresOf(r, no, eo2)[x] = [end |-> EdgeDef[x], disabled |-> FALSE]
  <2>1. NameIn(no, no[a]) = a /\ NameIn(no, no[b]) = b
    <3>1. a \in Known(no) /\ b \in Known(no)
      BY <1>2 DEF OneNameEach
    <3>. QED
      BY <1>2, <3>1 DEF OneNameEach
  <2>2. WireOf(r, no, new) = [end |-> EdgeDef[x], disabled |-> FALSE]
    <3>. DEFINE y == r.edges[new]
    <3>1. y.type = type /\ y.src = no[a] /\ y.sink = no[b] /\ y.disabled = FALSE
      BY <1>3
    <3>. HIDE DEF y
    <3>2. [type |-> y.type, src |-> NameIn(no, y.src), sink |-> NameIn(no, y.sink)] = EdgeDef[x]
      BY <2>1, <3>1 DEF Defines
    <3>. QED
      BY <3>1, <3>2 DEF WireOf, y
  <2>. QED
    BY <1>5, <1>8, <2>2 DEF WiresOf
<1>11. WiresOf(r, no, eo2) = Named!With(WiresOf(g, no, eo), x, [end |-> EdgeDef[x], disabled |-> FALSE])
  <2>. DEFINE f == WiresOf(g, no, eo)
              h == WiresOf(r, no, eo2)
              y == [end |-> EdgeDef[x], disabled |-> FALSE]
  <2>1. DOMAIN f = Known(eo) /\ DOMAIN h = Known(eo2) /\ h = [k \in DOMAIN h |-> h[k]]
    BY DEF WiresOf
  <2>2. h[x] = y /\ \A k \in Known(eo) : h[k] = f[k]
    BY <1>9, <1>10
  <2>3. DOMAIN h = DOMAIN f \cup {x} /\ x \notin DOMAIN f
    BY <1>8, <2>1
  <2>. HIDE DEF f, h, y
  <2>4. Extends(h, f, x, y)
    BY <2>1, <2>2, <2>3 DEF Extends
  <2>. QED
    BY <2>4, MoreWith DEF f, h, y
<1>. DEFINE M1 == NameMap(g, eo)
            M2 == NameMap(r, eo2)
            S  == Listed(g)
<1>12. DOMAIN M1 = DOMAIN g.edges /\ DOMAIN M2 = DOMAIN r.edges
  BY DEF NameMap
<1>13. M2[new] = x /\ new \in DOMAIN M2
  <2>1. x \in Known(eo2)
    BY <1>8
  <2>2. NameIn(eo2, new) = x
    BY <1>2, <1>5, <2>1 DEF OneNameEach
  <2>. QED
    BY <1>3, <2>2 DEF NameMap
<1>14. Agree(S, M2, M1)
  <2>1. NoEdge \notin DOMAIN M1 /\ NoEdge \notin DOMAIN M2
    BY <1>3, <1>5, <1>12, NoEdgeId, <1>1 DEF NoEdge, NoNode
  <2>2. ASSUME NEW e \in ValidIds(g.edges)
        PROVE  e \in DOMAIN M1 /\ e \in DOMAIN M2 /\ M2[e] = M1[e]
    <3>1. NameIn(eo, e) \in Known(eo) /\ eo[NameIn(eo, e)] = e
      BY <1>2 DEF OneNameEach
    <3>2. eo2[NameIn(eo, e)] = e /\ NameIn(eo, e) \in Known(eo2)
      BY <1>5, <1>8, <3>1
    <3>3. NameIn(eo2, e) = NameIn(eo, e)
      BY <1>2, <3>2 DEF OneNameEach
    <3>. QED
      BY <1>3, <1>5, <3>3 DEF NameMap
  <2>. QED
    BY <2>1, <2>2 DEF Agree, Listed
<1>15. \A seq \in Seq(S) : /\ Mapped(seq, M2) = Mapped(seq, M1)
                           /\ Mapped(Append(seq, new), M2) = Append(Mapped(seq, M1), x)
  <2>. SUFFICES ASSUME NEW seq \in Seq(S)
                PROVE  /\ Mapped(seq, M2) = Mapped(seq, M1)
                       /\ Mapped(Append(seq, new), M2) = Append(Mapped(seq, M1), x)
    OBVIOUS
  <2>. DEFINE T == S \cup {new}
  <2>1. seq \in Seq(T) /\ new \in T
    OBVIOUS
  <2>. HIDE DEF M1, M2, S, T
  <2>2. Mapped(seq, M2) = Mapped(seq, M1)
    BY <1>14, MappedAgree
  <2>3. Mapped(Append(seq, new), M2) = Append(Mapped(seq, M2), M2[new])
    BY <1>13, <2>1, MappedAppend
  <2>. QED
    BY <1>13, <2>2, <2>3
<1>16. \A n \in DOMAIN g.nodes : g.nodes[n].in \in Seq(S) /\ g.nodes[n].out \in Seq(S)
  BY <1>1, ListsWithin
<1>. HIDE DEF M1, M2, S
<1>17. \A n \in DOMAIN g.nodes :
         /\ Mapped(r.nodes[n].out, M2) = IF n = no[a] THEN Append(Mapped(g.nodes[n].out, M1), x)
                                                      ELSE Mapped(g.nodes[n].out, M1)
         /\ Mapped(r.nodes[n].in, M2)  = IF n = no[b] THEN Append(Mapped(g.nodes[n].in, M1), x)
                                                      ELSE Mapped(g.nodes[n].in, M1)
  BY ZenonT(40), <1>4, <1>15, <1>16
<1>18. \A y, z \in NodeNames : no[y] # NoNode => /\ no[y] \in DOMAIN g.nodes
                                                 /\ no[y] = no[z] <=> y = z
  BY <1>1, <1>5 DEF HandlesOK
<1>19. NamedFanoutOf(r, no, eo2) = [NamedFanoutOf(g, no, eo) EXCEPT ![a] = Append(@, x)]
  <2>1. \A y \in NodeNames : NamedFanoutOf(r, no, eo2)[y] =
          IF y = a THEN Append(NamedFanoutOf(g, no, eo)[y], x) ELSE NamedFanoutOf(g, no, eo)[y]
    BY <1>17, <1>18 DEF NamedFanoutOf, M1, M2
  <2>. QED
    BY <2>1 DEF NamedFanoutOf
<1>20. NamedFaninOf(r, no, eo2) = [NamedFaninOf(g, no, eo) EXCEPT ![b] = Append(@, x)]
  <2>1. \A y \in NodeNames : NamedFaninOf(r, no, eo2)[y] =
          IF y = b THEN Append(NamedFaninOf(g, no, eo)[y], x) ELSE NamedFaninOf(g, no, eo)[y]
    BY <1>17, <1>18 DEF NamedFaninOf, M1, M2
  <2>. QED
    BY <2>1 DEF NamedFaninOf
<1>. QED
  BY <1>7, <1>11, <1>19, <1>20 DEF WireSeen

LEMMA LessWithout ==
  ASSUME NEW f, NEW h, NEW keys, NEW K, K = DOMAIN f \ keys, DOMAIN h = K,
         Listing(h), \A k \in K : h[k] = f[k]
  PROVE  h = Named!Without(f, keys)
BY DEF Listing, Named!Without

LEMMA SameKept == ASSUME NEW s, NEW T PROVE Named!Kept(s, T) = Kept(s, T)
BY DEF Named!Kept, Named!Mapped, Kept, Mapped, FoldLeft, Named!FoldLeft, MapThenFoldSet,
       Named!MapThenFoldSet, Max, Named!Max

(***************************************************************************)
(* Removing: the removed edges and nodes are gone from view, with their    *)
(* entries in the lists of the others; nothing else changes.               *)
(***************************************************************************)
Lost(handle, Names, removed) == {x \in Names : handle[x] \in removed}

LEMMA ForgottenKnown ==
  ASSUME NEW handle, NEW Names, NEW ids, HandlesOK(handle, Names, ids), NEW removed,
         NEW after, after = Forgotten(handle, Names, removed)
  PROVE  /\ Known(after) = Known(handle) \ Lost(handle, Names, removed)
         /\ \A x \in Known(after) : x \in Known(handle) /\ after[x] = handle[x]
                                    /\ handle[x] \in ids \ removed
<1>1. OneNameEach(handle, Names, ids)
  BY NamesKnown
<1>2. DOMAIN after = Names
      /\ \A y \in Names : after[y] = IF handle[y] \in removed THEN NoNode ELSE handle[y]
  BY DEF Forgotten
<1>3. Known(after) = {y \in Names : after[y] # NoNode}
  BY <1>2 DEF Known
<1>4. Known(handle) = {y \in Names : handle[y] # NoNode} /\ \A y \in Known(handle) : handle[y] \in ids
  BY <1>1 DEF OneNameEach
<1>5. ASSUME NEW y PROVE y \in Known(after) <=> y \in Known(handle) /\ handle[y] \notin removed
  BY <1>2, <1>3, <1>4
<1>6. ASSUME NEW x \in Known(after) PROVE after[x] = handle[x] /\ handle[x] \in ids \ removed
  BY <1>2, <1>3, <1>4, <1>5
<1>7. Known(after) = Known(handle) \ Lost(handle, Names, removed)
  BY <1>4, <1>5 DEF Lost
<1>. QED
  BY <1>5, <1>6, <1>7

LEMMA ListsPruned ==
  ASSUME NEW g, NEW no, NEW eo, Held(g, no, eo), NEW r, NEW no2, NEW eo2, Held(r, no2, eo2),
         NEW removed, NEW gone, Pruned(g, removed, gone, r),
         eo2 = Forgotten(eo, EdgeNames, removed), NEW seq \in Seq(Listed(g)),
         NEW left, left = EdgeNames \ Lost(eo, EdgeNames, removed)
  PROVE  /\ Mapped(Invalidated(seq, removed), NameMap(r, eo2)) = Kept(Mapped(seq, NameMap(g, eo)), left)
         /\ ToSet(seq) \subseteq removed \cup {NoEdge} =>
              Kept(Mapped(seq, NameMap(g, eo)), left) = <<>>
<1>. DEFINE M1 == NameMap(g, eo)
            M2 == NameMap(r, eo2)
            H  == [e \in DOMAIN g.edges \ removed |-> NameIn(eo2, e)]
            S  == Listed(g)
            K  == [w \in left |-> w]
<1>1. /\ HandlesOK(eo, EdgeNames, ValidIds(g.edges)) /\ HandlesOK(eo2, EdgeNames, ValidIds(r.edges))
      /\ Sound(g) /\ Sound(r)
  BY DEF Held
<1>2. OneNameEach(eo, EdgeNames, ValidIds(g.edges)) /\ OneNameEach(eo2, EdgeNames, ValidIds(r.edges))
  BY <1>1, NamesKnown
<1>3. DOMAIN r.edges = DOMAIN g.edges /\ ValidIds(r.edges) = ValidIds(g.edges) \ removed
  BY DEF Pruned
<1>4. /\ DOMAIN M1 = DOMAIN g.edges /\ DOMAIN M2 = DOMAIN g.edges /\ DOMAIN H = DOMAIN g.edges \ removed
      /\ DOMAIN K = left /\ \A w \in left : K[w] = w
      /\ \A e \in DOMAIN g.edges : M1[e] = NameIn(eo, e) /\ M2[e] = NameIn(eo2, e)
      /\ \A e \in DOMAIN H : H[e] = NameIn(eo2, e)
  BY <1>3 DEF NameMap
<1>5. NoEdge \notin DOMAIN g.edges /\ ValidIds(g.edges) \subseteq DOMAIN g.edges
  BY <1>1, NoEdgeId DEF ValidIds
<1>6. ASSUME NEW e \in ValidIds(g.edges)
      PROVE  /\ M1[e] \in left <=> e \notin removed
             /\ e \notin removed => H[e] = M1[e]
  <2>1. NameIn(eo, e) \in EdgeNames /\ eo[NameIn(eo, e)] = e
    BY <1>2 DEF OneNameEach
  <2>2. NameIn(eo, e) \in left <=> e \notin removed
    BY <2>1 DEF Lost
  <2>3. ASSUME e \notin removed PROVE NameIn(eo2, e) = NameIn(eo, e)
    <3>1. eo2[NameIn(eo, e)] = e /\ e \in ValidIds(r.edges)
      BY <1>3, <2>1, <2>3 DEF Forgotten
    <3>. DEFINE x == NameIn(eo, e)
    <3>2. x \in EdgeNames /\ eo2[x] = e
      BY <2>1, <3>1
    <3>. HIDE DEF x
    <3>3. NameIn(eo2, e) = x
      BY <1>1, <3>1, <3>2, SameName
    <3>. QED
      BY <3>3 DEF x
  <2>4. e \notin removed => H[e] = NameIn(eo2, e)
    BY <1>4, <1>5
  <2>. QED
    BY <1>4, <1>5, <2>2, <2>3, <2>4
<1>. HIDE DEF M1, M2, H, K
<1>7. Composed(S, M1, K, H)
  <2>1. ASSUME NEW e \in S
        PROVE  /\ e \in DOMAIN H <=> e \in DOMAIN M1 /\ M1[e] \in DOMAIN K
               /\ e \in DOMAIN H => H[e] = K[M1[e]]
    BY <1>4, <1>5, <1>6 DEF Listed
  <2>. QED
    BY <2>1 DEF Composed
<1>8. \A e \in S : /\ e \in DOMAIN H <=> e \in DOMAIN M2 \ removed
                   /\ e \in DOMAIN H => H[e] = M2[e]
  BY <1>4
<1>9. NoEdge \notin DOMAIN M2
  BY <1>4, <1>5
<1>. HIDE DEF S
<1>10. seq \in Seq(S)
  BY DEF S
<1>11. Mapped(Invalidated(seq, removed), M2) = Mapped(seq, H)
  BY <1>8, <1>9, <1>10, InvalidatedMapped
<1>12. Mapped(Mapped(seq, M1), K) = Mapped(seq, H)
  BY <1>7, <1>10, MappedMapped
<1>13. Kept(Mapped(seq, M1), left) = Mapped(seq, H)
  BY <1>12 DEF Kept, K
<1>14. ASSUME ToSet(seq) \subseteq removed \cup {NoEdge} PROVE Mapped(seq, H) = <<>>
  <2>. DEFINE T == removed \cup {NoEdge}
  <2>1. ToSet(seq) \subseteq T /\ T \cap DOMAIN H = {}
    BY <1>4, <1>5, <1>14
  <2>. HIDE DEF T
  <2>2. seq \in Seq(T)
    BY <1>10, <2>1, SequenceWithin
  <2>. QED
    BY <2>1, <2>2, NothingMapped
<1>. QED
  BY <1>11, <1>13, <1>14 DEF M1, M2

LEMMA PrunedSeen ==
  ASSUME NEW g, NEW no, NEW eo, Held(g, no, eo), NEW r, NEW no2, NEW eo2, Held(r, no2, eo2),
         NEW removed, NEW gone, Pruned(g, removed, gone, r),
         eo2 = Forgotten(eo, EdgeNames, removed), no2 = Forgotten(no, NodeNames, gone),
         NEW left, left = EdgeNames \ Lost(eo, EdgeNames, removed)
  PROVE  /\ PartsOf(r, no2) = Named!Without(PartsOf(g, no), Lost(no, NodeNames, gone))
         /\ WiresOf(r, no2, eo2) = Named!Without(WiresOf(g, no, eo), Lost(eo, EdgeNames, removed))
         /\ NamedFaninOf(r, no2, eo2)  = [y \in NodeNames |-> Kept(NamedFaninOf(g, no, eo)[y], left)]
         /\ NamedFanoutOf(r, no2, eo2) = [y \in NodeNames |-> Kept(NamedFanoutOf(g, no, eo)[y], left)]
<1>. DEFINE V == ValidIds(g.nodes)
            E == ValidIds(g.edges)
<1>1. /\ HandlesOK(no, NodeNames, V) /\ HandlesOK(no2, NodeNames, ValidIds(r.nodes))
      /\ HandlesOK(eo, EdgeNames, E) /\ HandlesOK(eo2, EdgeNames, ValidIds(r.edges))
      /\ Sound(g) /\ Sound(r)
  BY DEF Held
<1>2. OneNameEach(no, NodeNames, V) /\ OneNameEach(eo, EdgeNames, E)
  BY <1>1, NamesKnown
<1>3. /\ DOMAIN r.edges = DOMAIN g.edges /\ ValidIds(r.edges) = E \ removed
      /\ DOMAIN r.nodes = DOMAIN g.nodes /\ ValidIds(r.nodes) = V \ gone
  BY DEF Pruned
<1>4. /\ Known(no2) = Known(no) \ Lost(no, NodeNames, gone)
      /\ \A x \in Known(no2) : x \in Known(no) /\ no2[x] = no[x] /\ no[x] \in V \ gone
  <2>. HIDE DEF V
  <2>. QED
    BY <1>1, ForgottenKnown
<1>5. /\ Known(eo2) = Known(eo) \ Lost(eo, EdgeNames, removed)
      /\ \A x \in Known(eo2) : x \in Known(eo) /\ eo2[x] = eo[x] /\ eo[x] \in E \ removed
  <2>. HIDE DEF E
  <2>. QED
    BY <1>1, ForgottenKnown
<1>6. V \subseteq DOMAIN g.nodes /\ E \subseteq DOMAIN g.edges
  BY DEF ValidIds
<1>7. PartsOf(r, no2) = Named!Without(PartsOf(g, no), Lost(no, NodeNames, gone))
  <2>. DEFINE f == PartsOf(g, no)
              h == PartsOf(r, no2)
  <2>1. DOMAIN f = Known(no) /\ DOMAIN h = Known(no2) /\ Listing(h)
    BY DEF PartsOf, Listing
  <2>2. ASSUME NEW x \in Known(no2) PROVE h[x] = f[x]
    BY <1>4, <1>6 DEF PartsOf, Pruned
  <2>. HIDE DEF f, h
  <2>. QED
    BY <1>4, <2>1, <2>2, LessWithout DEF f, h
<1>8. WiresOf(r, no2, eo2) = Named!Without(WiresOf(g, no, eo), Lost(eo, EdgeNames, removed))
  <2>. DEFINE f == WiresOf(g, no, eo)
              h == WiresOf(r, no2, eo2)
  <2>1. DOMAIN f = Known(eo) /\ DOMAIN h = Known(eo2) /\ Listing(h)
    BY DEF WiresOf, Listing
  <2>2. ASSUME NEW w \in Known(eo2) PROVE h[w] = f[w]
    <3>1. PICK e : e = eo[w]
      OBVIOUS
    <3>2. eo2[w] = e /\ w \in Known(eo) /\ e \in E /\ e \in ValidIds(r.edges) /\ e \in DOMAIN g.edges
      BY <1>3, <1>5, <1>6, <3>1
    <3>3. /\ r.edges[e].type = g.edges[e].type /\ r.edges[e].src = g.edges[e].src
          /\ r.edges[e].sink = g.edges[e].sink /\ r.edges[e].disabled = g.edges[e].disabled
      BY <3>2 DEF Pruned
    <3>4. /\ g.edges[e].src \in V /\ g.edges[e].sink \in V
          /\ r.edges[e].src \in ValidIds(r.nodes) /\ r.edges[e].sink \in ValidIds(r.nodes)
      BY <1>1, <3>2 DEF Sound, EndsListed
    <3>5. \A i \in V : i \notin gone => no2[NameIn(no, i)] = i
      BY <1>2 DEF OneNameEach, Forgotten
    <3>6. EndsFollow(g, no, e, r, no2, e)
      BY <1>3, <3>3, <3>4, <3>5 DEF EndsFollow
    <3>7. WireOf(r, no2, e).end = WireOf(g, no, e).end
      BY <3>2, <3>6, SameWire
    <3>8. WireOf(r, no2, e) = WireOf(g, no, e)
      BY <3>3, <3>7 DEF WireOf
    <3>. QED
      BY <3>1, <3>2, <3>8 DEF WiresOf
  <2>. HIDE DEF f, h
  <2>. QED
    BY <1>5, <2>1, <2>2, LessWithout DEF f, h
<1>. DEFINE M1 == NameMap(g, eo)
            M2 == NameMap(r, eo2)
<1>. HIDE DEF M1, M2
<1>9. ASSUME NEW n \in DOMAIN g.nodes
      PROVE  /\ Mapped(r.nodes[n].in, M2)  = Kept(Mapped(g.nodes[n].in, M1), left)
             /\ Mapped(r.nodes[n].out, M2) = Kept(Mapped(g.nodes[n].out, M1), left)
             /\ n \in gone => /\ Kept(Mapped(g.nodes[n].in, M1), left) = <<>>
                              /\ Kept(Mapped(g.nodes[n].out, M1), left) = <<>>
  <2>. DEFINE in  == g.nodes[n].in
              out == g.nodes[n].out
  <2>1. in \in Seq(Listed(g)) /\ out \in Seq(Listed(g))
    BY <1>1, ListsWithin
  <2>2. /\ r.nodes[n].in = Invalidated(in, removed) /\ r.nodes[n].out = Invalidated(out, removed)
        /\ n \in gone => /\ ToSet(in) \subseteq removed \cup {NoEdge}
                         /\ ToSet(out) \subseteq removed \cup {NoEdge}
    BY DEF Pruned
  <2>. HIDE DEF in, out
  <2>3. /\ Mapped(Invalidated(in, removed), M2) = Kept(Mapped(in, M1), left)
        /\ ToSet(in) \subseteq removed \cup {NoEdge} => Kept(Mapped(in, M1), left) = <<>>
    BY <2>1, ListsPruned DEF M1, M2
  <2>4. /\ Mapped(Invalidated(out, removed), M2) = Kept(Mapped(out, M1), left)
        /\ ToSet(out) \subseteq removed \cup {NoEdge} => Kept(Mapped(out, M1), left) = <<>>
    BY <2>1, ListsPruned DEF M1, M2
  <2>. QED
    BY <2>2, <2>3, <2>4 DEF in, out
<1>10. Kept(<<>>, left) = <<>>
  BY EmptyMapped DEF Kept
<1>11. ASSUME NEW y \in NodeNames
       PROVE  /\ NamedFaninOf(r, no2, eo2)[y]  = Kept(NamedFaninOf(g, no, eo)[y], left)
              /\ NamedFanoutOf(r, no2, eo2)[y] = Kept(NamedFanoutOf(g, no, eo)[y], left)
  <2>1. no2[y] = IF no[y] \in gone THEN NoNode ELSE no[y]
    BY DEF Forgotten
  <2>2. no[y] # NoNode => no[y] \in DOMAIN g.nodes
    BY <1>1, <1>6 DEF HandlesOK
  <2>3. /\ NamedFaninOf(r, no2, eo2)[y]  = IF no2[y] = NoNode THEN <<>> ELSE Mapped(r.nodes[no2[y]].in, M2)
        /\ NamedFanoutOf(r, no2, eo2)[y] = IF no2[y] = NoNode THEN <<>> ELSE Mapped(r.nodes[no2[y]].out, M2)
        /\ NamedFaninOf(g, no, eo)[y]  = IF no[y] = NoNode THEN <<>> ELSE Mapped(g.nodes[no[y]].in, M1)
        /\ NamedFanoutOf(g, no, eo)[y] = IF no[y] = NoNode THEN <<>> ELSE Mapped(g.nodes[no[y]].out, M1)
    BY DEF NamedFaninOf, NamedFanoutOf, M1, M2
  <2>4. CASE no[y] = NoNode
    BY <1>10, <2>1, <2>3, <2>4
  <2>5. CASE no[y] # NoNode /\ no[y] \in gone
    BY <1>9, <2>1, <2>2, <2>3, <2>5
  <2>6. CASE no[y] # NoNode /\ no[y] \notin gone
    BY <1>9, <2>1, <2>2, <2>3, <2>6
  <2>. QED
    BY <2>4, <2>5, <2>6
<1>12. /\ NamedFaninOf(r, no2, eo2)  = [y \in NodeNames |-> Kept(NamedFaninOf(g, no, eo)[y], left)]
       /\ NamedFanoutOf(r, no2, eo2) = [y \in NodeNames |-> Kept(NamedFanoutOf(g, no, eo)[y], left)]
  <2>1. /\ NamedFaninOf(r, no2, eo2)  = [y \in NodeNames |-> NamedFaninOf(r, no2, eo2)[y]]
        /\ NamedFanoutOf(r, no2, eo2) = [y \in NodeNames |-> NamedFanoutOf(r, no2, eo2)[y]]
    BY DEF NamedFaninOf, NamedFanoutOf
  <2>. QED
    BY <1>11, <2>1
<1>. QED
  BY <1>7, <1>8, <1>12

FlagSet(g, no, eo, r, x, disable) ==
  /\ PartsOf(r, no) = PartsOf(g, no)
  /\ WiresOf(r, no, eo) = [WiresOf(g, no, eo) EXCEPT ![x].disabled = disable]
  /\ NamedFaninOf(r, no, eo) = NamedFaninOf(g, no, eo) /\ NamedFanoutOf(r, no, eo) = NamedFanoutOf(g, no, eo)

LEMMA FlagSeen ==
  ASSUME NEW g, NEW no, NEW eo, Held(g, no, eo), NEW r, Held(r, no, eo), NEW x \in Known(eo),
         NEW disable, NEW i, i = eo[x], WithFlag(g, i, disable, r), r.nodes = g.nodes
  PROVE  FlagSet(g, no, eo, r, x, disable)
<1>1. PartsOf(r, no) = PartsOf(g, no)
  BY DEF PartsOf
<1>2. DOMAIN r.edges = DOMAIN g.edges
  BY DEF WithFlag
<1>3. NameMap(r, eo) = NameMap(g, eo)
  BY <1>2 DEF NameMap
<1>4. NamedFaninOf(r, no, eo) = NamedFaninOf(g, no, eo) /\ NamedFanoutOf(r, no, eo) = NamedFanoutOf(g, no, eo)
  BY <1>3 DEF NamedFaninOf, NamedFanoutOf
<1>5. OneNameEach(eo, EdgeNames, ValidIds(g.edges)) /\ HandlesOK(eo, EdgeNames, ValidIds(g.edges))
  BY NamesKnown DEF Held
<1>6. ASSUME NEW w \in Known(eo)
      PROVE  WireOf(r, no, eo[w]) =
               IF w = x THEN [WireOf(g, no, eo[w]) EXCEPT !.disabled = disable]
                        ELSE WireOf(g, no, eo[w])
  <2>1. PICK e : e = eo[w]
    OBVIOUS
  <2>2. e \in DOMAIN g.edges /\ (e = eo[x] <=> w = x)
    BY <1>5, <2>1 DEF OneNameEach, HandlesOK, ValidIds
  <2>3. /\ r.edges[e].type = g.edges[e].type
        /\ r.edges[e].src = g.edges[e].src /\ r.edges[e].sink = g.edges[e].sink
        /\ r.edges[e].disabled = IF w = x THEN disable ELSE g.edges[e].disabled
    BY <2>2 DEF WithFlag
  <2>4. WireOf(r, no, e) = IF w = x THEN [WireOf(g, no, e) EXCEPT !.disabled = disable]
                                    ELSE WireOf(g, no, e)
    BY <2>3 DEF WireOf
  <2>. QED
    BY <2>1, <2>4
<1>7. WiresOf(r, no, eo) = [WiresOf(g, no, eo) EXCEPT ![x].disabled = disable]
  <2>. DEFINE f == WiresOf(g, no, eo)
              h == WiresOf(r, no, eo)
  <2>1. DOMAIN f = Known(eo) /\ DOMAIN h = Known(eo) /\ h = [k \in Known(eo) |-> h[k]]
    BY DEF WiresOf
  <2>2. \A k \in Known(eo) : h[k] = IF k = x THEN [f[k] EXCEPT !.disabled = disable] ELSE f[k]
    BY <1>6 DEF WiresOf
  <2>. HIDE DEF f, h
  <2>3. h = [f EXCEPT ![x] = [f[x] EXCEPT !.disabled = disable]]
    BY <2>1, <2>2
  <2>. QED
    BY <2>3 DEF f, h
<1>. QED
  BY <1>1, <1>4, <1>7 DEF FlagSet

(***************************************************************************)
(* Renumbering: nothing the client sees changes.                           *)
(***************************************************************************)
LEMMA MovedEntries ==
  ASSUME NEW g, Sound(g), NEW nm, NEW em, NEW r, MapsOK(g, nm, em, r)
  PROVE  /\ \A n \in ValidIds(g.nodes) :
              /\ r.nodes[nm[n]].type = g.nodes[n].type
              /\ r.nodes[nm[n]].in  = update_valid_refs(g.nodes[n].in, em)
              /\ r.nodes[nm[n]].out = update_valid_refs(g.nodes[n].out, em)
         /\ \A e \in ValidIds(g.edges) :
              /\ em[e] \in ValidIds(r.edges)
              /\ r.edges[em[e]].type = g.edges[e].type
              /\ r.edges[em[e]].src  = nm[g.edges[e].src]
              /\ r.edges[em[e]].sink = nm[g.edges[e].sink]
              /\ r.edges[em[e]].disabled = g.edges[e].disabled
<1>1. PICK mid : mid = remap_nodes(g, nm)
  OBVIOUS
<1>2. /\ Renumbers(nm, g.nodes) /\ Renumbers(em, g.edges) /\ r = remap_edges(mid, em)
      /\ ValidIds(r.edges) = {em[e] : e \in ValidIds(g.edges)}
  BY <1>1 DEF MapsOK
<1>3. NodesMoved(g, nm, mid)
  BY SMTT(30), <1>1, <1>2, NodesRemapped
<1>4. Renumbers(em, mid.edges)
  BY ZenonT(40), <1>2, <1>3 DEF NodesMoved, Renumbers
<1>5. EdgesMoved(mid, em, r)
  BY <1>2, <1>3, <1>4, EdgesRemapped DEF NodesMoved
<1>6. ASSUME NEW n \in ValidIds(g.nodes)
      PROVE  /\ r.nodes[nm[n]].type = g.nodes[n].type
             /\ r.nodes[nm[n]].in  = update_valid_refs(g.nodes[n].in, em)
             /\ r.nodes[nm[n]].out = update_valid_refs(g.nodes[n].out, em)
  <2>. DEFINE x == g.nodes[n]
              y == r.nodes[nm[n]]
  <2>1. nm[n] \in DOMAIN mid.nodes /\ mid.nodes[nm[n]] = x
    BY <1>3 DEF NodesMoved
  <2>2. y = [x EXCEPT !.in = update_valid_refs(@, em), !.out = update_valid_refs(@, em)]
    BY ZenonT(40), <1>5, <2>1 DEF EdgesMoved
  <2>3. NodeShape(x)
    BY DEF Sound, Typed, ValidIds
  <2>. HIDE DEF x, y
  <2>4. /\ y.type = x.type /\ y.in = update_valid_refs(x.in, em)
        /\ y.out = update_valid_refs(x.out, em)
    BY <2>2, <2>3 DEF NodeShape
  <2>. QED
    BY <2>4 DEF x, y
<1>7. ASSUME NEW e \in ValidIds(g.edges)
      PROVE  /\ em[e] \in ValidIds(r.edges)
             /\ r.edges[em[e]].type = g.edges[e].type
             /\ r.edges[em[e]].src  = nm[g.edges[e].src]
             /\ r.edges[em[e]].sink = nm[g.edges[e].sink]
             /\ r.edges[em[e]].disabled = g.edges[e].disabled
  <2>. DEFINE x == g.edges[e]
              y == r.edges[em[e]]
  <2>1. ValidIds(mid.edges) = ValidIds(g.edges) /\ e \in DOMAIN g.edges
    BY <1>3 DEF NodesMoved, ValidIds
  <2>2. y = mid.edges[e]
    BY <1>5, <2>1 DEF EdgesMoved
  <2>3. mid.edges[e] = [x EXCEPT !.src = nm[@], !.sink = nm[@]]
    BY <1>3, <2>1 DEF NodesMoved
  <2>4. EdgeShape(x)
    BY <2>1 DEF Sound, Typed
  <2>. HIDE DEF x, y
  <2>5. /\ y.type = x.type /\ y.src = nm[x.src] /\ y.sink = nm[x.sink] /\ y.disabled = x.disabled
    BY <2>2, <2>3, <2>4 DEF EdgeShape
  <2>. QED
    BY <1>2, <2>5 DEF x, y
<1>. QED
  BY <1>6, <1>7

LEMMA FollowedKnown ==
  ASSUME NEW handle, NEW Names, NEW f, HandlesOK(handle, Names, ValidIds(f)),
         NEW map, Renumbers(map, f), NEW after, after = Followed(handle, Names, map)
  PROVE  /\ Known(after) = Known(handle)
         /\ \A x \in Known(handle) : after[x] = map[handle[x]] /\ handle[x] \in ValidIds(f)
         /\ \A i \in ValidIds(f) : after[NameIn(handle, i)] = map[i]
<1>1. OneNameEach(handle, Names, ValidIds(f))
  BY NamesKnown
<1>2. DOMAIN after = Names
      /\ \A y \in Names : after[y] = IF handle[y] = NoNode THEN NoNode ELSE map[handle[y]]
  BY DEF Followed
<1>3. \A i \in ValidIds(f) : map[i] # NoNode /\ i # NoNode
  BY DEF Renumbers, ValidIds, HandlesOK
<1>4. Known(after) = {y \in Names : after[y] # NoNode}
  BY <1>2 DEF Known
<1>5. Known(handle) = {y \in Names : handle[y] # NoNode}
      /\ \A y \in Known(handle) : handle[y] \in ValidIds(f)
  BY <1>1 DEF OneNameEach
<1>6. \A y \in Known(handle) : after[y] = map[handle[y]]
  BY <1>2, <1>5
<1>7. Known(after) = Known(handle)
  BY <1>2, <1>3, <1>4, <1>5
<1>8. ASSUME NEW i \in ValidIds(f) PROVE after[NameIn(handle, i)] = map[i]
  <2>1. NameIn(handle, i) \in Known(handle) /\ handle[NameIn(handle, i)] = i
    BY <1>1 DEF OneNameEach
  <2>. QED
    BY <1>6, <2>1
<1>. QED
  BY <1>5, <1>6, <1>7, <1>8

LEMMA RenumberedSeen ==
  ASSUME NEW g, NEW no, NEW eo, Held(g, no, eo), NEW r, NEW no2, NEW eo2, Held(r, no2, eo2),
         NEW nm, NEW em, MapsOK(g, nm, em, r),
         no2 = Followed(no, NodeNames, nm), eo2 = Followed(eo, EdgeNames, em)
  PROVE  /\ PartsOf(r, no2) = PartsOf(g, no) /\ WiresOf(r, no2, eo2) = WiresOf(g, no, eo)
         /\ NamedFaninOf(r, no2, eo2) = NamedFaninOf(g, no, eo) /\ NamedFanoutOf(r, no2, eo2) = NamedFanoutOf(g, no, eo)
<1>. DEFINE f == g.nodes
            h == g.edges
            V == ValidIds(f)
            E == ValidIds(h)
<1>1. /\ HandlesOK(no, NodeNames, V) /\ HandlesOK(no2, NodeNames, ValidIds(r.nodes))
      /\ HandlesOK(eo, EdgeNames, E) /\ HandlesOK(eo2, EdgeNames, ValidIds(r.edges))
      /\ Sound(g) /\ Sound(r) /\ Renumbers(nm, f) /\ Renumbers(em, h)
  BY DEF Held, MapsOK
<1>2. /\ \A n \in V : /\ r.nodes[nm[n]].type = g.nodes[n].type
                      /\ r.nodes[nm[n]].in  = update_valid_refs(g.nodes[n].in, em)
                      /\ r.nodes[nm[n]].out = update_valid_refs(g.nodes[n].out, em)
      /\ \A e \in E : /\ em[e] \in ValidIds(r.edges)
                      /\ r.edges[em[e]].type = g.edges[e].type
                      /\ r.edges[em[e]].src  = nm[g.edges[e].src]
                      /\ r.edges[em[e]].sink = nm[g.edges[e].sink]
                      /\ r.edges[em[e]].disabled = g.edges[e].disabled
  BY <1>1, MovedEntries
<1>3. /\ Known(no2) = Known(no)
      /\ \A x \in Known(no) : no2[x] = nm[no[x]] /\ no[x] \in V
      /\ \A i \in V : no2[NameIn(no, i)] = nm[i]
  <2>. HIDE DEF f
  <2>. QED
    BY <1>1, FollowedKnown
<1>4. /\ Known(eo2) = Known(eo)
      /\ \A x \in Known(eo) : eo2[x] = em[eo[x]] /\ eo[x] \in E
      /\ \A i \in E : eo2[NameIn(eo, i)] = em[i]
  <2>. HIDE DEF h
  <2>. QED
    BY <1>1, FollowedKnown
<1>5. PartsOf(r, no2) = PartsOf(g, no)
  <2>1. ASSUME NEW x \in Known(no) PROVE r.nodes[no2[x]].type = g.nodes[no[x]].type
    <3>1. no2[x] = nm[no[x]] /\ no[x] \in V
      BY <1>3
    <3>. QED
      BY <1>2, <3>1
  <2>. QED
    BY <1>3, <2>1 DEF PartsOf
<1>6. ASSUME NEW w \in Known(eo) PROVE WireOf(r, no2, eo2[w]) = WireOf(g, no, eo[w])
  <2>1. PICK e, d : e = eo[w] /\ d = em[e]
    OBVIOUS
  <2>2. e \in E /\ d \in ValidIds(r.edges) /\ d = eo2[w]
    BY <1>2, <1>4, <2>1
  <2>3. g.edges[e].src \in V /\ g.edges[e].sink \in V
    BY <1>1, <2>2 DEF Sound, EndsListed
  <2>4. EndsFollow(g, no, e, r, no2, d)
    BY ZenonT(40), <1>2, <1>3, <2>1, <2>2, <2>3 DEF EndsFollow
  <2>5. WireOf(r, no2, d).end = WireOf(g, no, e).end
    BY <2>2, <2>4, SameWire
  <2>6. r.edges[d].disabled = g.edges[e].disabled
    BY ZenonT(40), <1>2, <2>1, <2>2
  <2>7. WireOf(r, no2, d) = WireOf(g, no, e)
    BY <2>5, <2>6 DEF WireOf
  <2>. QED
    BY <2>1, <2>2, <2>7
<1>7. WiresOf(r, no2, eo2) = WiresOf(g, no, eo)
  BY <1>4, <1>6 DEF WiresOf
<1>. DEFINE M1 == NameMap(g, eo)
            M2 == NameMap(r, eo2)
            K  == KeptIds(em)
            S  == Listed(g)
<1>8. DOMAIN K = E /\ \A e \in E : K[e] = em[e]
  BY <1>1 DEF KeptIds, Renumbers, ValidIds, NoEdge, NoNode
<1>9. \A e \in E : em[e] \in DOMAIN M2 /\ M2[em[e]] = M1[e] /\ e \in DOMAIN M1
  <2>. SUFFICES ASSUME NEW e \in E
                PROVE  em[e] \in DOMAIN M2 /\ M2[em[e]] = M1[e] /\ e \in DOMAIN M1
    OBVIOUS
  <2>1. PICK x, d : x = NameIn(eo, e) /\ d = em[e]
    OBVIOUS
  <2>2. OneNameEach(eo, EdgeNames, E)
    BY <1>1, NamesKnown
  <2>3. x \in EdgeNames /\ eo2[x] = d /\ d \in ValidIds(r.edges)
    BY <1>2, <1>4, <2>1, <2>2 DEF OneNameEach
  <2>4. NameIn(eo2, d) = x
    BY <1>1, <2>3, SameName
  <2>. QED
    BY <2>1, <2>3, <2>4 DEF NameMap, ValidIds
<1>10. NoEdge \notin DOMAIN M1 /\ NoEdge \notin E
  BY <1>1, NoEdgeId DEF NameMap, ValidIds
<1>. HIDE DEF M1, M2, K
<1>11. Composed(S, K, M2, M1)
  <2>1. ASSUME NEW e \in S
        PROVE  /\ e \in DOMAIN M1 <=> e \in DOMAIN K /\ K[e] \in DOMAIN M2
               /\ e \in DOMAIN M1 => M1[e] = M2[K[e]]
    BY <1>8, <1>9, <1>10 DEF Listed
  <2>. QED
    BY <2>1 DEF Composed
<1>12. \A seq \in Seq(S) : Mapped(update_valid_refs(seq, em), M2) = Mapped(seq, M1)
  <2>. HIDE DEF S
  <2>1. \A seq \in Seq(S) : Mapped(Mapped(seq, K), M2) = Mapped(seq, M1)
    BY <1>11, MappedMapped
  <2>. QED
    BY <2>1 DEF update_valid_refs, K, KeptIds
<1>13. ASSUME NEW n \in V
       PROVE  /\ Mapped(r.nodes[nm[n]].in, M2)  = Mapped(g.nodes[n].in, M1)
              /\ Mapped(r.nodes[nm[n]].out, M2) = Mapped(g.nodes[n].out, M1)
  <2>1. g.nodes[n].in \in Seq(S) /\ g.nodes[n].out \in Seq(S)
    BY <1>1, ListsWithin DEF ValidIds
  <2>. QED
    BY <1>2, <1>12, <2>1
<1>14. ASSUME NEW y \in NodeNames
       PROVE  /\ no2[y] = NoNode <=> no[y] = NoNode
              /\ no[y] # NoNode => no2[y] = nm[no[y]] /\ no[y] \in V
  BY <1>1 DEF HandlesOK, Followed, Renumbers, ValidIds
<1>15. NamedFaninOf(r, no2, eo2) = NamedFaninOf(g, no, eo) /\ NamedFanoutOf(r, no2, eo2) = NamedFanoutOf(g, no, eo)
  <2>1. ASSUME NEW y \in NodeNames
        PROVE  /\ NamedFaninOf(r, no2, eo2)[y] = NamedFaninOf(g, no, eo)[y]
               /\ NamedFanoutOf(r, no2, eo2)[y] = NamedFanoutOf(g, no, eo)[y]
    BY <1>13, <1>14 DEF NamedFaninOf, NamedFanoutOf, M1, M2
  <2>. QED
    BY <2>1 DEF NamedFaninOf, NamedFanoutOf
<1>. QED
  BY <1>5, <1>7, <1>15

(***************************************************************************)
(* Every step of the graph is a step of the circuit, or a stutter.         *)
(***************************************************************************)
LEMMA HeldNow == GraphInv => Held(graph, node_of, edge_of)
<1>1. graph.nodes = nodes /\ graph.edges = edges
  BY DEF graph
<1>. QED
  BY <1>1 DEF GraphInv, Held

LEMMA HeldNext == GraphInv' => Held(graph', node_of', edge_of')
<1>1. graph'.nodes = nodes' /\ graph'.edges = edges'
  BY DEF graph
<1>. QED
  BY <1>1 DEF GraphInv, Held

LEMMA AddNodeIsAddPart ==
  ASSUME GraphInv, GraphInv', NEW x \in NodeNames, add_node(x)
  PROVE  Named!AddPart(x)
<1>1. PICK g, no, eo : g = graph /\ no = node_of /\ eo = edge_of
  OBVIOUS
<1>2. PICK r, no2 : r = graph' /\ no2 = node_of'
  OBVIOUS
<1>3. PICK type, new : type = NodeType[x] /\ new = Cardinality(DOMAIN g.nodes)
  OBVIOUS
<1>4. g.nodes = nodes /\ g.edges = edges /\ r = [nodes |-> nodes', edges |-> edges']
  BY <1>1, <1>2 DEF graph
<1>5. /\ no[x] = NoNode /\ nodes' = AddNode(g, type).nodes /\ edges' = g.edges
      /\ no2 = [no EXCEPT ![x] = new] /\ edge_of' = eo
  BY <1>1, <1>2, <1>3, <1>4 DEF add_node
<1>6. Held(g, no, eo) /\ Held(r, no2, eo)
  BY <1>1, <1>2, <1>5, HeldNow, HeldNext
<1>7. r = AddNode(g, type)
  BY <1>4, <1>5, <1>6 DEF AddNode, Held, Sound, Typed
<1>8. WithNode(g, type, new, r)
  BY <1>3, <1>6, <1>7, NodeAdded DEF Held
<1>9. PartSeen(g, no, eo, r, no2, x, type)
  <2>1. Assigned(no, x, new, no2)
    BY <1>5 DEF Assigned
  <2>. QED
    BY <1>5, <1>6, <1>8, <2>1, NodeAddedSeen
<1>10. x \notin DOMAIN parts
  BY <1>1, <1>5 DEF parts, Known
<1>. QED
  BY <1>1, <1>2, <1>3, <1>5, <1>9, <1>10, ClientSees, ClientSeesNext DEF Named!AddPart, PartSeen

LEMMA AddEdgeIsAddWire ==
  ASSUME GraphInv, GraphInv', NEW x \in EdgeNames, add_edge(x)
  PROVE  Named!AddWire(x)
<1>1. PICK g, no, eo : g = graph /\ no = node_of /\ eo = edge_of
  OBVIOUS
<1>2. PICK r, eo2 : r = graph' /\ eo2 = edge_of'
  OBVIOUS
<1>3. PICK type, a, b, new :
        type = EdgeDef[x].type /\ a = EdgeDef[x].src /\ b = EdgeDef[x].sink
          /\ new = Cardinality(DOMAIN g.edges)
  OBVIOUS
<1>4. g.nodes = nodes /\ g.edges = edges /\ r = [nodes |-> nodes', edges |-> edges']
  BY <1>1, <1>2 DEF graph
<1>5. EdgeDef[x] = [type |-> type, src |-> a, sink |-> b] /\ a \in NodeNames /\ b \in NodeNames
  BY <1>3, ClientAssumption
<1>6. /\ eo[x] = NoNode /\ no[a] # NoNode /\ no[b] # NoNode
      /\ nodes' = AddEdge(g, type, no[a], no[b]).nodes
      /\ edges' = AddEdge(g, type, no[a], no[b]).edges
      /\ eo2 = [eo EXCEPT ![x] = new] /\ node_of' = no
  BY <1>1, <1>2, <1>3, <1>4 DEF add_edge, NoEdge, NoNode
<1>7. Held(g, no, eo) /\ Held(r, no, eo2)
  BY <1>1, <1>2, <1>6, HeldNow, HeldNext
<1>8. r = AddEdge(g, type, no[a], no[b])
  BY <1>4, <1>6 DEF AddEdge
<1>9. WithEdge(g, type, no[a], no[b], new, r)
  <2>1. no[a] \in ValidIds(g.nodes) /\ no[b] \in ValidIds(g.nodes) /\ Sound(g)
    BY <1>5, <1>6, <1>7 DEF Held, HandlesOK
  <2>. QED
    BY <1>3, <1>8, <2>1, EdgeAdded
<1>10. WireSeen(g, no, eo, r, eo2, x, a, b)
  <2>1. PICK from, to : from = no[a] /\ to = no[b]
    OBVIOUS
  <2>2. Defines(x, type, a, b) /\ Assigned(eo, x, new, eo2)
    BY <1>5, <1>6 DEF Defines, Assigned
  <2>. QED
    BY <1>5, <1>6, <1>7, <1>9, <2>1, <2>2, EdgeAddedSeen
<1>11. x \notin DOMAIN wires /\ {a, b} \subseteq DOMAIN parts
  <2>1. DOMAIN no = NodeNames /\ DOMAIN eo = EdgeNames
    BY <1>7 DEF Held, HandlesOK
  <2>. QED
    BY <1>1, <1>5, <1>6, <2>1 DEF parts, wires, Known
<1>. QED
  BY <1>1, <1>2, <1>3, <1>6, <1>10, <1>11, ClientSees, ClientSeesNext
     DEF Named!AddWire, WireSeen

LEMMA DisableIsDisableWire ==
  ASSUME GraphInv, GraphInv', NEW x \in EdgeNames, NEW disable \in BOOLEAN, disable_edge(x, disable)
  PROVE  Named!DisableWire(x, disable)
<1>1. PICK g, no, eo : g = graph /\ no = node_of /\ eo = edge_of
  OBVIOUS
<1>2. PICK r : r = graph'
  OBVIOUS
<1>3. /\ g.nodes = nodes /\ g.edges = edges /\ g = [nodes |-> nodes, edges |-> edges]
      /\ r = [nodes |-> nodes', edges |-> edges']
  BY <1>1, <1>2 DEF graph
<1>4. /\ eo[x] # NoNode /\ nodes' = g.nodes /\ edges' = [g.edges EXCEPT ![eo[x]].disabled = disable]
      /\ node_of' = no /\ edge_of' = eo
  BY <1>1, <1>3 DEF disable_edge, handles, NoEdge, NoNode
<1>5. Held(g, no, eo) /\ Held(r, no, eo)
  BY <1>1, <1>2, <1>4, HeldNow, HeldNext
<1>6. x \in Known(eo) /\ eo[x] \in DOMAIN g.edges
  BY <1>4, <1>5 DEF Held, HandlesOK, Known, ValidIds
<1>7. WithFlag(g, eo[x], disable, r) /\ r.nodes = g.nodes
  <2>1. r = [nodes |-> g.nodes, edges |-> [g.edges EXCEPT ![eo[x]].disabled = disable]]
    BY <1>3, <1>4
  <2>2. PICK e : e = eo[x]
    OBVIOUS
  <2>3. WithFlag(g, e, disable, r)
    BY <1>5, <1>6, <2>1, <2>2, EdgeDisabled DEF Held
  <2>. QED
    BY <2>1, <2>2, <2>3
<1>8. FlagSet(g, no, eo, r, x, disable)
  <2>1. PICK i : i = eo[x]
    OBVIOUS
  <2>. QED
    BY <1>5, <1>6, <1>7, <2>1, FlagSeen
<1>9. x \in DOMAIN wires
  BY <1>1, <1>6 DEF wires
<1>. QED
  BY <1>1, <1>2, <1>4, <1>8, <1>9, ClientSees, ClientSeesNext
     DEF Named!DisableWire, FlagSet

LEMMA TakenOutIsDropped ==
  ASSUME GraphInv, GraphInv', NEW removed, NEW gone, NEW r, TakenOut(removed, gone, r)
  PROVE  /\ parts' = Named!Without(parts, Lost(node_of, NodeNames, gone))
         /\ Named!DropWires(Lost(edge_of, EdgeNames, removed))
<1>1. PICK no, eo : no = node_of /\ eo = edge_of
  OBVIOUS
<1>2. PICK no2, eo2 : no2 = node_of' /\ eo2 = edge_of'
  OBVIOUS
<1>0. PICK g : g = graph
  OBVIOUS
<1>3. Held(g, no, eo) /\ Held(r, no2, eo2) /\ Pruned(g, removed, gone, r)
  BY <1>0, <1>1, <1>2, HeldNow, HeldNext DEF TakenOut
<1>4. PICK left : left = EdgeNames \ Lost(eo, EdgeNames, removed)
  OBVIOUS
<1>5. eo2 = Forgotten(eo, EdgeNames, removed) /\ no2 = Forgotten(no, NodeNames, gone)
  BY <1>1, <1>2, ForgetForgets DEF TakenOut
<1>6. /\ PartsOf(r, no2) = Named!Without(PartsOf(g, no), Lost(no, NodeNames, gone))
      /\ WiresOf(r, no2, eo2) = Named!Without(WiresOf(g, no, eo), Lost(eo, EdgeNames, removed))
      /\ NamedFaninOf(r, no2, eo2)  = [y \in NodeNames |-> Kept(NamedFaninOf(g, no, eo)[y], left)]
      /\ NamedFanoutOf(r, no2, eo2) = [y \in NodeNames |-> Kept(NamedFanoutOf(g, no, eo)[y], left)]
  BY <1>3, <1>4, <1>5, PrunedSeen
<1>7. /\ fanin'  = [y \in NodeNames |-> Named!Kept(fanin[y], left)]
      /\ fanout' = [y \in NodeNames |-> Named!Kept(fanout[y], left)]
  BY <1>0, <1>1, <1>2, <1>6, ClientSees, ClientSeesNext, SameKept DEF TakenOut
<1>8. /\ parts' = Named!Without(parts, Lost(node_of, NodeNames, gone))
      /\ wires' = Named!Without(wires, Lost(edge_of, EdgeNames, removed))
  BY <1>0, <1>1, <1>2, <1>6, ClientSees, ClientSeesNext DEF TakenOut
<1>. QED
  BY <1>1, <1>4, <1>7, <1>8 DEF Named!DropWires

LEMMA RemoveEdgeIsRemoveWire ==
  ASSUME GraphInv, GraphInv', NEW x \in EdgeNames, remove_edge(x)
  PROVE  Named!RemoveWire(x)
<1>1. PICK e : e = edge_of[x]
  OBVIOUS
<1>2. PICK r : TakenOut({e}, {}, r)
  BY <1>1, EdgeTakenOut
<1>3. e # NoNode /\ HandlesOK(edge_of, EdgeNames, ValidIds(edges)) /\ node_of' = node_of
  BY <1>1 DEF remove_edge, GraphInv, NoEdge, NoNode
<1>4. Lost(edge_of, EdgeNames, {e}) = {x}
  BY <1>1, <1>3 DEF Lost, HandlesOK
<1>5. Lost(node_of, NodeNames, {}) = {}
  BY DEF Lost
<1>6. parts' = Named!Without(parts, {}) /\ Named!DropWires({x})
  BY <1>2, <1>4, <1>5, TakenOutIsDropped
<1>7. Named!Without(parts, {}) = parts
  BY DEF Named!Without, parts
<1>8. x \in DOMAIN wires
  BY <1>1, <1>3 DEF wires, Known, HandlesOK
<1>. QED
  BY <1>6, <1>7, <1>8 DEF Named!RemoveWire

(***************************************************************************)
(* The wires at a part are the names of the edges in its two lists.        *)
(***************************************************************************)
LEMMA WiresAt ==
  ASSUME NEW g, NEW no, NEW eo, Held(g, no, eo), NEW x \in NodeNames, NEW n, n = no[x], n # NoNode,
         NEW removed, removed = EdgesAt(g, n)
  PROVE  Lost(eo, EdgeNames, removed) = ToSet(NamedFaninOf(g, no, eo)[x]) \cup ToSet(NamedFanoutOf(g, no, eo)[x])
<1>1. /\ HandlesOK(no, NodeNames, ValidIds(g.nodes)) /\ HandlesOK(eo, EdgeNames, ValidIds(g.edges))
      /\ Sound(g)
  BY DEF Held
<1>2. OneNameEach(eo, EdgeNames, ValidIds(g.edges))
  BY <1>1, NamesKnown
<1>3. n \in DOMAIN g.nodes
  BY <1>1 DEF HandlesOK, ValidIds
<1>. DEFINE M   == NameMap(g, eo)
            S   == Listed(g)
            in  == g.nodes[n].in
            out == g.nodes[n].out
<1>4. in \in Seq(S) /\ out \in Seq(S)
  BY <1>1, <1>3, ListsWithin
<1>5. NamedFaninOf(g, no, eo)[x] = Mapped(in, M) /\ NamedFanoutOf(g, no, eo)[x] = Mapped(out, M)
  BY DEF NamedFaninOf, NamedFanoutOf
<1>6. removed = (ToSet(in) \cup ToSet(out)) \ {NoEdge}
  BY DEF EdgesAt
<1>7. removed \subseteq ValidIds(g.edges)
  BY <1>1, <1>3, <1>6 DEF Sound, ListsOwned
<1>8. NoEdge \notin DOMAIN g.edges /\ ValidIds(g.edges) \subseteq DOMAIN g.edges
  BY <1>1, NoEdgeId DEF ValidIds
<1>9. DOMAIN M = DOMAIN g.edges /\ \A e \in DOMAIN g.edges : M[e] = NameIn(eo, e)
  BY DEF NameMap
<1>. HIDE DEF M, S, in, out
<1>10. /\ ToSet(Mapped(in, M))  = {M[e] : e \in ToSet(in) \cap DOMAIN M}
       /\ ToSet(Mapped(out, M)) = {M[e] : e \in ToSet(out) \cap DOMAIN M}
  BY <1>4, MappedSet
<1>11. removed = (ToSet(in) \cup ToSet(out)) \cap DOMAIN M
  BY <1>6, <1>7, <1>8, <1>9
<1>12. \A w : w \in Lost(eo, EdgeNames, removed) <=> \E e \in removed : w = M[e]
  <2>1. ASSUME NEW w \in EdgeNames, eo[w] \in removed PROVE w = M[eo[w]]
    <3>1. eo[w] # NoNode /\ eo[w] \in ValidIds(g.edges)
      BY <1>1, <1>7, <2>1 DEF HandlesOK
    <3>2. w \in Known(eo)
      BY <1>2, <3>1 DEF OneNameEach
    <3>. QED
      BY <1>2, <1>8, <1>9, <3>1, <3>2 DEF OneNameEach
  <2>2. ASSUME NEW e \in removed PROVE M[e] \in EdgeNames /\ eo[M[e]] = e
    BY <1>2, <1>7, <1>8, <1>9, <2>2 DEF OneNameEach
  <2>. QED
    BY <2>1, <2>2 DEF Lost
<1>. QED
  BY <1>5, <1>10, <1>11, <1>12

LEMMA RemoveNodeIsRemovePart ==
  ASSUME GraphInv, GraphInv', NEW x \in NodeNames, remove_node(x)
  PROVE  Named!RemovePart(x)
<1>1. PICK g, no, eo : g = graph /\ no = node_of /\ eo = edge_of
  OBVIOUS
<1>2. PICK n : n = no[x]
  OBVIOUS
<1>3. PICK removed : removed = EdgesAt(g, n)
  OBVIOUS
<1>4. PICK s : TakenOut(removed, {n}, s)
  BY SMTT(30), <1>1, <1>2, <1>3, NodeTakenOut
<1>5. Held(g, no, eo) /\ n # NoNode
  BY <1>1, <1>2, HeldNow DEF remove_node
<1>6. Lost(node_of, NodeNames, {n}) = {x}
  BY <1>1, <1>2, <1>5 DEF Lost, Held, HandlesOK
<1>7. Lost(edge_of, EdgeNames, removed) = Named!ToSet(fanin[x]) \cup Named!ToSet(fanout[x])
  <2>1. Lost(eo, EdgeNames, removed) =
          ToSet(NamedFaninOf(g, no, eo)[x]) \cup ToSet(NamedFanoutOf(g, no, eo)[x])
    BY <1>2, <1>3, <1>5, WiresAt
  <2>2. \A seq : Named!ToSet(seq) = ToSet(seq)
    BY DEF Named!ToSet, ToSet
  <2>. QED
    BY <1>1, <2>1, <2>2, ClientSees
<1>8. /\ parts' = Named!Without(parts, {x})
      /\ Named!DropWires(Named!ToSet(fanin[x]) \cup Named!ToSet(fanout[x]))
  BY <1>4, <1>6, <1>7, TakenOutIsDropped
<1>9. x \in DOMAIN parts
  BY <1>1, <1>2, <1>5 DEF parts, Known, Held, HandlesOK
<1>. QED
  BY <1>8, <1>9 DEF Named!RemovePart

LEMMA FollowedIsUnseen ==
  ASSUME GraphInv, GraphInv', NEW g, g = graph, NEW nm, NEW em, NEW r, MapsOK(g, nm, em, r),
         graph' = r, Follow(nm, em)
  PROVE  UNCHANGED Named!circuit
<1>1. PICK no, eo : no = node_of /\ eo = edge_of
  OBVIOUS
<1>2. PICK no2, eo2 : no2 = node_of' /\ eo2 = edge_of'
  OBVIOUS
<1>3. Held(g, no, eo) /\ Held(r, no2, eo2)
  BY <1>1, <1>2, HeldNow, HeldNext
<1>4. no2 = Followed(no, NodeNames, nm) /\ eo2 = Followed(eo, EdgeNames, em)
  BY <1>1, <1>2, FollowFollows
<1>5. /\ PartsOf(r, no2) = PartsOf(g, no) /\ WiresOf(r, no2, eo2) = WiresOf(g, no, eo)
      /\ NamedFaninOf(r, no2, eo2) = NamedFaninOf(g, no, eo) /\ NamedFanoutOf(r, no2, eo2) = NamedFanoutOf(g, no, eo)
  BY <1>3, <1>4, RenumberedSeen
<1>6. parts' = parts /\ wires' = wires /\ fanin' = fanin /\ fanout' = fanout
  BY <1>1, <1>2, <1>5, ClientSees, ClientSeesNext
<1>. QED
  BY <1>6 DEF Named!circuit

LEMMA SameIsUnseen ==
  ASSUME graph' = graph, node_of' = node_of, edge_of' = edge_of
  PROVE  UNCHANGED Named!circuit
<1>1. parts' = parts /\ wires' = wires /\ fanin' = fanin /\ fanout' = fanout
  BY ClientSees, ClientSeesNext
<1>. QED
  BY <1>1 DEF Named!circuit

LEMMA NothingSeen ==
  ASSUME NEW g, NEW no, NEW eo, no = [n \in NodeNames |-> NoNode], eo = [e \in EdgeNames |-> NoEdge]
  PROVE  /\ PartsOf(g, no) = <<>> /\ WiresOf(g, no, eo) = <<>>
         /\ NamedFaninOf(g, no, eo) = [n \in NodeNames |-> <<>>]
         /\ NamedFanoutOf(g, no, eo) = [n \in NodeNames |-> <<>>]
<1>1. Known(no) = {} /\ Known(eo) = {}
  BY DEF Known, NoEdge, NoNode
<1>2. PartsOf(g, no) = <<>>
  BY <1>1 DEF PartsOf
<1>3. WiresOf(g, no, eo) = <<>>
  BY <1>1 DEF WiresOf
<1>4. NamedFaninOf(g, no, eo) = [n \in NodeNames |-> <<>>] /\ NamedFanoutOf(g, no, eo) = [n \in NodeNames |-> <<>>]
  BY DEF NamedFaninOf, NamedFanoutOf
<1>. QED
  BY <1>2, <1>3, <1>4

LEMMA NextIsNamedNext ==
  GraphInv /\ GraphInv' /\ [Next]_vars => [Named!Next]_(Named!circuit)
<1>. SUFFICES ASSUME GraphInv, GraphInv', [Next]_vars PROVE [Named!Next]_(Named!circuit)
  OBVIOUS
<1>1. ASSUME NEW n \in NodeNames, add_node(n) PROVE Named!Next
  BY <1>1, AddNodeIsAddPart DEF Named!Next
<1>2. ASSUME NEW n \in NodeNames, remove_node(n) PROVE Named!Next
  BY <1>2, RemoveNodeIsRemovePart DEF Named!Next
<1>3. ASSUME NEW e \in EdgeNames, add_edge(e) PROVE Named!Next
  BY <1>3, AddEdgeIsAddWire DEF Named!Next
<1>4. ASSUME NEW e \in EdgeNames, remove_edge(e) PROVE Named!Next
  BY <1>4, RemoveEdgeIsRemoveWire DEF Named!Next
<1>5. ASSUME NEW e \in EdgeNames, NEW disable \in BOOLEAN, disable_edge(e, disable) PROVE Named!Next
  BY <1>5, DisableIsDisableWire DEF Named!Next
<1>6. CASE levelize
  BY <1>6, SameIsUnseen DEF levelize, handles, graph
<1>7. CASE compress
  BY <1>7, CompressMaps, RenumberedStep, FollowedIsUnseen
<1>8. CASE optimize_layout
  BY <1>8, OptimizeMaps, RenumberedStep, FollowedIsUnseen
<1>9. CASE compress_throws
  <2>1. node_of' = [n \in NodeNames |-> NoNode] /\ edge_of' = [e \in EdgeNames |-> NoEdge]
    BY <1>9 DEF compress_throws
  <2>2. PICK r, no2, eo2 : r = graph' /\ no2 = node_of' /\ eo2 = edge_of'
    OBVIOUS
  <2>3. /\ PartsOf(r, no2) = <<>> /\ WiresOf(r, no2, eo2) = <<>>
        /\ NamedFaninOf(r, no2, eo2) = [n \in NodeNames |-> <<>>]
        /\ NamedFanoutOf(r, no2, eo2) = [n \in NodeNames |-> <<>>]
    BY <2>1, <2>2, NothingSeen
  <2>4. Named!Discard
    BY <2>2, <2>3, ClientSeesNext DEF Named!Discard
  <2>. QED
    BY <2>4 DEF Named!Next
<1>10. CASE UNCHANGED vars
  BY <1>10, SameIsUnseen DEF vars, handles, graph
<1>. QED
  BY <1>1, <1>2, <1>3, <1>4, <1>5, <1>6, <1>7, <1>8, <1>9, <1>10 DEF Next

LEMMA InitIsNamedInit == Init => Named!Init
<1>. SUFFICES ASSUME Init PROVE Named!Init
  OBVIOUS
<1>1. node_of = [n \in NodeNames |-> NoNode] /\ edge_of = [e \in EdgeNames |-> NoEdge]
  BY DEF Init
<1>2. PICK g, no, eo : g = graph /\ no = node_of /\ eo = edge_of
  OBVIOUS
<1>3. /\ PartsOf(g, no) = <<>> /\ WiresOf(g, no, eo) = <<>>
      /\ NamedFaninOf(g, no, eo) = [n \in NodeNames |-> <<>>]
      /\ NamedFanoutOf(g, no, eo) = [n \in NodeNames |-> <<>>]
  BY <1>1, <1>2, NothingSeen
<1>. QED
  BY <1>2, <1>3, ClientSees DEF Named!Init

(***************************************************************************)
(* The ids the client follows lead to the circuit it built: the graph with *)
(* its ids, holes, levels, renumberings and reorderings implements the     *)
(* circuit of named parts and wires of Circuit.                            *)
(***************************************************************************)
THEOREM GraphImplementsCircuit == Spec => ClientSeesCircuit
<1>1. Spec => []GraphInv
  BY GraphInvariant
<1>. QED
  BY <1>1, InitIsNamedInit, NextIsNamedNext, PTL DEF Spec, ClientSeesCircuit, Named!Spec

(***************************************************************************)
(* Every part has the type, and every wire the ends, the client gave it.   *)
(***************************************************************************)
AsDefined ==
  /\ \A x \in DOMAIN parts : parts[x] = NodeType[x]
  /\ \A w \in DOMAIN wires : wires[w] = [end |-> EdgeDef[w], disabled |-> wires[w].disabled]

LEMMA AsDefinedKept ==
  ASSUME AsDefined, [Named!Next]_(Named!circuit)
  PROVE  AsDefined'
<1>1. ASSUME parts' = parts, wires' = wires PROVE AsDefined'
  BY <1>1 DEF AsDefined
<1>2. ASSUME NEW x \in NodeNames, Named!AddPart(x) PROVE AsDefined'
  BY <1>2 DEF AsDefined, Named!AddPart, Named!With
<1>3. ASSUME NEW dropped, wires' = Named!Without(wires, dropped),
             NEW lost, parts' = Named!Without(parts, lost)
      PROVE  AsDefined'
  BY <1>3 DEF AsDefined, Named!Without
<1>4. ASSUME NEW x \in NodeNames, Named!RemovePart(x) PROVE AsDefined'
  BY <1>3, <1>4 DEF Named!RemovePart, Named!DropWires
<1>5. ASSUME NEW w \in EdgeNames, Named!AddWire(w) PROVE AsDefined'
  BY <1>5 DEF AsDefined, Named!AddWire, Named!With
<1>6. ASSUME NEW w \in EdgeNames, Named!RemoveWire(w) PROVE AsDefined'
  <2>1. parts' = Named!Without(parts, {})
    BY <1>6 DEF Named!RemoveWire, Named!Without, parts
  <2>. QED
    BY <1>3, <1>6, <2>1 DEF Named!RemoveWire, Named!DropWires
<1>7. ASSUME NEW w \in EdgeNames, NEW disable \in BOOLEAN, Named!DisableWire(w, disable)
      PROVE  AsDefined'
  <2>1. w \in DOMAIN wires /\ parts' = parts
        /\ wires' = [wires EXCEPT ![w] = [wires[w] EXCEPT !.disabled = disable]]
    BY <1>7 DEF Named!DisableWire
  <2>2. [wires[w] EXCEPT !.disabled = disable] = [end |-> EdgeDef[w], disabled |-> disable]
    BY <2>1 DEF AsDefined
  <2>. QED
    BY <2>1, <2>2 DEF AsDefined
<1>8. CASE Named!Discard
  BY <1>8 DEF AsDefined, Named!Discard
<1>9. CASE UNCHANGED Named!circuit
  BY <1>1, <1>9 DEF Named!circuit
<1>. QED
  BY <1>2, <1>4, <1>5, <1>6, <1>7, <1>8, <1>9 DEF Named!Next

LEMMA PartsStayAsDefined == Spec => []AsDefined
<1>1. Named!Init => AsDefined
  BY DEF Named!Init, AsDefined
<1>2. AsDefined /\ [Named!Next]_(Named!circuit) => AsDefined'
  BY AsDefinedKept
<1>. QED
  BY <1>1, <1>2, GraphImplementsCircuit, PTL DEF ClientSeesCircuit, Named!Spec

LEMMA TypesKnown ==
  ASSUME GraphInv, AsDefined
  PROVE  /\ \A n \in ValidIds(nodes) : nodes[n].type \in NodeTypes
         /\ \A e \in ValidIds(edges) : edges[e].type \in EdgeTypes
<1>1. /\ HandlesOK(node_of, NodeNames, ValidIds(nodes)) /\ HandlesOK(edge_of, EdgeNames, ValidIds(edges))
  BY DEF GraphInv
<1>2. ASSUME NEW n \in ValidIds(nodes) PROVE nodes[n].type \in NodeTypes
  <2>1. PICK x \in NodeNames : node_of[x] = n /\ n # NoNode
    BY <1>1 DEF HandlesOK
  <2>2. x \in DOMAIN parts /\ parts[x] = nodes[n].type
    BY <1>1, <2>1 DEF parts, Known, HandlesOK
  <2>. QED
    BY <2>1, <2>2, ClientAssumption DEF AsDefined
<1>3. ASSUME NEW e \in ValidIds(edges) PROVE edges[e].type \in EdgeTypes
  <2>1. PICK w \in EdgeNames : edge_of[w] = e /\ e # NoNode
    BY <1>1 DEF HandlesOK
  <2>2. w \in DOMAIN wires /\ wires[w].end.type = edges[e].type
    BY <1>1, <2>1 DEF wires, NamedEnds, Known, HandlesOK
  <2>3. wires[w].end = EdgeDef[w]
    BY <2>2 DEF AsDefined
  <2>4. EdgeDef[w].type \in EdgeTypes
    BY ClientAssumption
  <2>. QED
    BY <2>2, <2>3, <2>4
<1>. QED
  BY <1>2, <1>3

(***************************************************************************)
(* Without components of two nodes or more, and without edges from a node  *)
(* to itself, no node is at or after a loop: go back from any node that is *)
(* to one with the fewest nodes behind it.                                 *)
(***************************************************************************)
LEMMA NoLoopLeft ==
  ASSUME NEW g, Whole(g), \A e \in DOMAIN g.edges : EdgeTypeOK(g, e),
         identify_combinational_loops(g) = {}
  PROVE  AfterLoop(g) = {}
<1>. DEFINE N == DOMAIN g.nodes
            P == ActivePairs(g)
            closed  == {X \in SUBSET N : \A p \in P : p[1] \in X => p[2] \in X}
            reached == [n \in N |-> {m \in N : \A X \in closed : n \in X => m \in X}]
            component(n) == {m \in reached[n] : n \in reached[m]}
<1>1. IsFiniteSet(N)
  BY SizeOfIds DEF Whole, Sound, Typed
<1>2. \A n \in N : ~(Cardinality(component(n)) >= 2)
  <2>1. {c \in {component(n) : n \in N} : Cardinality(c) >= 2} = {}
    BY ZenonT(40) DEF identify_combinational_loops
  <2>. HIDE DEF component, N
  <2>. QED
    BY <2>1
<1>3. ASSUME NEW m \in N, NEW n \in N, <<m, n>> \in P PROVE m # n
  <2>1. PICK e \in DOMAIN g.edges : g.edges[e].src = m /\ g.edges[e].sink = n
    BY <1>3 DEF ActivePairs, ValidIds
  <2>2. EdgeTypeOK(g, e)
    OBVIOUS
  <2>. QED
    BY ZenonT(40), <2>1, <2>2 DEF EdgeTypeOK, Drives
<1>4. ASSUME NEW n \in N PROVE n \in reached[n]
  OBVIOUS
<1>5. ASSUME NEW m \in N, NEW n \in N, <<m, n>> \in P PROVE n \in reached[m]
  <2>1. \A X \in closed : m \in X => n \in X
    <3>. DEFINE p == <<m, n>>
    <3>1. p \in P /\ p[1] = m /\ p[2] = n
      BY <1>5
    <3>. HIDE DEF P, p
    <3>. QED
      BY <3>1
  <2>. QED
    BY <2>1
<1>6. ASSUME NEW n \in N, NEW m \in reached[n], NEW k \in reached[m] PROVE m \in N /\ k \in reached[n]
  OBVIOUS
<1>7. \A n \in N : reached[n] \subseteq N
  OBVIOUS
<1>. HIDE DEF reached, P
<1>. SUFFICES ASSUME NEW X \in SUBSET N, X # {}, \A n \in X : \E m \in X : <<m, n>> \in P
              PROVE  FALSE
  BY DEF AfterLoop, P
<1>. DEFINE Back(n) == {m \in X : n \in reached[m]}
            Sizes   == {Cardinality(Back(n)) : n \in X}
<1>8. \A n \in X : IsFiniteSet(Back(n)) /\ Cardinality(Back(n)) \in Nat
  <2>. SUFFICES ASSUME NEW n \in X PROVE IsFiniteSet(Back(n)) /\ Cardinality(Back(n)) \in Nat
    OBVIOUS
  <2>1. Back(n) \subseteq N
    OBVIOUS
  <2>2. IsFiniteSet(Back(n))
    BY <1>1, <2>1, FS_Subset
  <2>. QED
    BY <2>2, FS_CardinalityType
<1>9. PICK n \in X : \A m \in X : Cardinality(Back(n)) <= Cardinality(Back(m))
  <2>. HIDE DEF Back
  <2>1. Sizes \subseteq Nat /\ Sizes # {}
    BY <1>8
  <2>. HIDE DEF Sizes
  <2>2. Min(Sizes) \in Sizes /\ \A y \in Sizes : Min(Sizes) <= y
    BY <2>1, MinOfNaturals
  <2>. QED
    BY <2>2 DEF Sizes
<1>10. PICK m \in X : <<m, n>> \in P
  OBVIOUS
<1>11. n \in reached[m] /\ m # n
  BY <1>3, <1>5, <1>10
<1>12. Back(m) \subseteq Back(n)
  BY <1>6, <1>11
<1>13. Back(m) = Back(n)
  <2>. HIDE DEF Back
  <2>1. Cardinality(Back(m)) <= Cardinality(Back(n))
        /\ (Cardinality(Back(m)) = Cardinality(Back(n)) => Back(m) = Back(n))
    BY <1>8, <1>12, FS_Subset
  <2>2. Cardinality(Back(n)) <= Cardinality(Back(m))
    BY <1>9
  <2>. QED
    BY <1>8, <2>1, <2>2
<1>14. m \in reached[n]
  BY <1>4, <1>13
<1>15. {m, n} \subseteq component(n)
  BY <1>4, <1>11, <1>14
<1>16. Cardinality(component(n)) >= 2
  <2>1. component(n) \subseteq N /\ n \in N
    BY <1>7
  <2>. DEFINE C == component(n)
  <2>. HIDE DEF C
  <2>2. IsFiniteSet(C) /\ {m, n} \subseteq C /\ Cardinality(C) \in Nat
    BY <1>1, <1>15, <2>1, FS_Subset, FS_CardinalityType DEF C
  <2>3. Cardinality({m, n}) = 2
    <3>1. IsFiniteSet({m}) /\ Cardinality({m}) = 1 /\ n \notin {m} /\ {m, n} = {m} \cup {n}
      BY <1>11, FS_Singleton
    <3>. DEFINE S == {m}
    <3>. HIDE DEF S
    <3>2. Cardinality(S \cup {n}) = Cardinality(S) + 1
      BY <3>1, FS_AddElement DEF S
    <3>. QED
      BY <3>1, <3>2 DEF S
  <2>4. Cardinality({m, n}) <= Cardinality(C)
    BY <2>2, FS_Subset
  <2>. QED
    BY <2>2, <2>3, <2>4 DEF C
<1>. QED
  BY <1>2, <1>16

LEMMA ValidatedIsWalkable ==
  ASSUME GraphInv, AsDefined, is_levelized, validate_structure(graph, levelization)
  PROVE  Walked!GraphOK /\ Walked!ActiveLevelsIncrease
<1>1. PICK g, lv : g = graph /\ lv = levelization
  OBVIOUS
<1>2. g.nodes = nodes /\ g.edges = edges
  BY <1>1 DEF graph
<1>3. Whole(g) /\ LevelsRight(g, lv)
  BY <1>1, LevelizationLevels DEF GraphInv, LevelsOK
<1>4. /\ Sound(g) /\ ValidIds(nodes) = DOMAIN nodes /\ ValidIds(edges) = DOMAIN edges
      /\ IdRange(DOMAIN nodes) /\ IdRange(DOMAIN edges)
  BY <1>2, <1>3 DEF Whole, Sound, Typed, NodesFull, EdgesFull
<1>5. /\ DOMAIN nodes \subseteq Nat /\ IsFiniteSet(DOMAIN nodes)
      /\ DOMAIN edges \subseteq Nat /\ IsFiniteSet(DOMAIN edges)
  BY <1>4, SizeOfIds DEF IdRange
<1>6. \A n \in DOMAIN nodes : lv.node_level[n] # NoLevel
  <2>1. AfterLoop(g) = {}
    BY <1>1, <1>3, NoLoopLeft DEF validate_structure
  <2>. QED
    BY <1>2, <1>3, <2>1 DEF LevelsRight
<1>7. PICK last \in Nat \ {0} : /\ Cardinality(DOMAIN lv.level_nodes) = last + 1
                                /\ lv.node_level \in [DOMAIN nodes -> 0 .. last \cup {NoLevel}]
  BY <1>2, <1>3 DEF LevelsRight
<1>8. lv.node_level \in [DOMAIN nodes -> 0 .. last]
  BY <1>6, <1>7
<1>9. AllIds(edges) \in Seq(DOMAIN edges)
  <2>1. PICK f : f = edges
    OBVIOUS
  <2>. QED
    BY <1>4, <2>1, AllIdsOnce
<1>10. /\ \A n \in DOMAIN nodes : nodes[n].type \in NodeTypes
       /\ \A e \in DOMAIN edges : edges[e].type \in EdgeTypes
  BY <1>4, TypesKnown
<1>11. \A e \in DOMAIN edges : edges[e].src \in DOMAIN nodes /\ edges[e].sink \in DOMAIN nodes
  BY <1>2, <1>4 DEF Sound, EndsListed
<1>0. PICK R : R = Record
  OBVIOUS
<1>12. /\ R.nodes = DOMAIN nodes /\ R.edges = DOMAIN edges
       /\ R.node_type = [n \in DOMAIN nodes |-> nodes[n].type]
       /\ R.edge_type = [e \in DOMAIN edges |-> edges[e].type]
       /\ R.src  = [e \in DOMAIN edges |-> edges[e].src]
       /\ R.sink = [e \in DOMAIN edges |-> edges[e].sink]
       /\ R.edge_order = AllIds(edges)
       /\ R.disabled = {e \in DOMAIN edges : ~IsActive(g, e)}
       /\ R.level = lv.node_level /\ R.last_level = last
  BY <1>0, <1>1, <1>7 DEF Record
<1>13. Walked!GraphOK
  <2>1. \A S : Walked!IsFiniteSet(S) <=> IsFiniteSet(S)
    BY DEF Walked!IsFiniteSet, IsFiniteSet
  <2>2. /\ R.nodes \subseteq Nat /\ Walked!IsFiniteSet(R.nodes)
        /\ R.edges \subseteq Nat /\ Walked!IsFiniteSet(R.edges)
        /\ R.edge_order \in Seq(R.edges)
        /\ R.node_type \in [R.nodes -> NodeTypes] /\ R.edge_type \in [R.edges -> EdgeTypes]
        /\ R.src \in [R.edges -> R.nodes] /\ R.sink \in [R.edges -> R.nodes]
        /\ R.disabled \subseteq R.edges
        /\ R.last_level \in Nat \ {0} /\ R.level \in [R.nodes -> 0 .. R.last_level]
    BY <1>5, <1>8, <1>9, <1>10, <1>11, <1>12, <2>1
  <2>. QED
    BY <1>0, <2>2 DEF Walked!GraphOK, Walked!Nodes, Walked!Edges, Walked!LastLevel, Walked!Levels,
                      Walked!NodeTypes, Walked!EdgeTypes, NodeTypes, EdgeTypes
<1>14. Walked!ActiveLevelsIncrease
  <2>1. ASSUME NEW e \in DOMAIN edges, IsActive(g, e)
        PROVE  lv.node_level[edges[e].src] < lv.node_level[edges[e].sink]
    <3>. DEFINE p == <<edges[e].src, edges[e].sink>>
    <3>1. p \in ActivePairs(g)
      BY <1>2, <1>4, <2>1 DEF ActivePairs
    <3>2. p[1] = edges[e].src /\ p[2] = edges[e].sink
      OBVIOUS
    <3>. HIDE DEF p
    <3>. QED
      BY <1>3, <1>6, <1>11, <3>1, <3>2 DEF LevelsRight
  <2>2. \A e \in R.edges \ R.disabled : R.level[R.src[e]] < R.level[R.sink[e]]
    BY <1>12, <2>1
  <2>. QED
    BY <1>0, <2>2 DEF Walked!ActiveLevelsIncrease, Walked!Edges, Walked!node_level,
                Walked!edge_src_node, Walked!edge_sink_node
<1>. QED
  BY <1>13, <1>14

(***************************************************************************)
(* A graph that compress() has validated is one of those the walkers       *)
(* assume: well formed, of known types, with a level for every node and    *)
(* active edges to later levels.                                           *)
(***************************************************************************)
THEOREM CompressedCanBeWalked == Spec => CompressedIsWalkable
<1>. DEFINE Validated == is_levelized /\ validate_structure(graph, levelization)
            OK        == Walked!GraphOK
            Rising    == Walked!ActiveLevelsIncrease
<1>1. GraphInv /\ AsDefined /\ Validated => OK /\ Rising
  BY ValidatedIsWalkable
<1>2. ASSUME compress PROVE Validated'
  <2>1. graph' = [nodes |-> nodes', edges |-> edges']
    BY DEF graph
  <2>2. PICK g : /\ validate_structure(g, levelization') /\ nodes' = g.nodes /\ edges' = g.edges
                 /\ is_levelized' = TRUE /\ g = Compressed
    BY <1>2 DEF compress
  <2>3. g = graph'
    BY <2>1, <2>2 DEF Compressed, remap_edges
  <2>. QED
    BY <2>2, <2>3
<1>3. CompressedIsWalkable <=> [][compress => OK' /\ Rising']_vars
  BY DEF CompressedIsWalkable
<1>. HIDE DEF Validated, OK, Rising
<1>. QED
  BY <1>1, <1>2, <1>3, GraphInvariant, PartsStayAsDefined, PTL

================================================================================
