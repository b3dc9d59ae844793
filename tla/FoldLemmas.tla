------------------------------- MODULE FoldLemmas -------------------------------
(***************************************************************************)
(* What a fold computes.  The community modules define a fold by a         *)
(* recursive function on the subsets of what is folded; here is that this  *)
(* function exists and, for a fold over a sequence, that it goes through   *)
(* the sequence from the left.  A proof instantiates Op with the operator  *)
(* of one fold: c is what else the operator depends on.                    *)
(***************************************************************************)
EXTENDS Sequences, Integers

CONSTANTS Op(_, _, _),   \* Op(c, x, acc): the next element and what is folded so far
          Pick(_)        \* which element of a set is folded last

Greatest(S) == CHOOSE x \in S : \A y \in S : x >= y

(***************************************************************************)
(* What the proofs rest on, for the module that instantiates this one to   *)
(* show: FoldBasics of TatumLemmas.  Hypotheses, so that an instance does  *)
(* not carry the library's theorems: induction; a set whose subsets can be *)
(* counted, as those of a finite set can; and the greatest of some         *)
(* indices.                                                                *)
(***************************************************************************)
Induction ==
  \A S : 0 \in S /\ (\A n \in Nat : n \in S => n + 1 \in S) => \A n \in Nat : n \in S

Counted(S) ==
  \E size : \A s \in SUBSET S :
     /\ size[s] \in Nat /\ size[s] <= size[S]
     /\ size[s] = 0 => s = {}
     /\ \A x \in s : size[s \ {x}] = size[s] - 1

Basics ==
  /\ Induction
  /\ \A n \in Nat : /\ Counted(1 .. n)
                    /\ \A s \in SUBSET (1 .. n) : s # {} => Greatest(s) \in s

LEMMA BoundedInduction ==
  ASSUME Basics, NEW bound \in Nat, NEW S, 0 \in S,
         \A n \in 0 .. bound - 1 : n \in S => n + 1 \in S
  PROVE  \A n \in 0 .. bound : n \in S
<1>. DEFINE T == {n \in Nat : n <= bound => n \in S}
<1>1. 0 \in T
  OBVIOUS
<1>2. ASSUME NEW n \in Nat, n \in T PROVE n + 1 \in T
  <2>. SUFFICES ASSUME n + 1 <= bound PROVE n + 1 \in S
    OBVIOUS
  <2>1. n \in 0 .. bound - 1 /\ n \in S
    BY <1>2
  <2>. QED
    BY <2>1
<1>. HIDE DEF T
<1>3. \A n \in Nat : n \in T
  BY <1>1, <1>2 DEF Basics, Induction
<1>. QED
  BY <1>3 DEF T

Recursive(c, base, f, S, it) ==
  it = [s \in SUBSET S |-> IF s = {} THEN base
                           ELSE LET x == Pick(s) IN Op(c, f[x], it[s \ {x}])]

Result(c, base, f, S) == (CHOOSE it : Recursive(c, base, f, S, it))[S]

(***************************************************************************)
(* The recursion is defined on the subsets of every finite set: built up   *)
(* by the number of elements.                                              *)
(***************************************************************************)
THEOREM FoldDefined ==
  ASSUME Induction, NEW c, NEW base, NEW f, NEW S, Counted(S),
         \A s \in SUBSET S : s # {} => Pick(s) \in s
  PROVE  \E it : Recursive(c, base, f, S, it) /\ Result(c, base, f, S) = it[S]
<1>0. PICK size : \A s \in SUBSET S :
                     /\ size[s] \in Nat /\ size[s] <= size[S]
                     /\ size[s] = 0 => s = {}
                     /\ \A x \in s : size[s \ {x}] = size[s] - 1
  BY DEF Counted
<1>. DEFINE Small(n)   == {s \in SUBSET S : size[s] <= n}
            Next(it, s) == IF s = {} THEN base ELSE LET x == Pick(s) IN Op(c, f[x], it[s \ {x}])
            Exists(n)   == \E it : it = [s \in Small(n) |-> Next(it, s)]
            Good        == {n \in Nat : Exists(n)}
<1>1. \A s \in SUBSET S : size[s] \in Nat /\ size[s] <= size[S]
  BY <1>0
<1>2. \A s \in SUBSET S : s # {} =>
        s \ {Pick(s)} \in SUBSET S /\ size[s \ {Pick(s)}] = size[s] - 1
  BY <1>0
<1>3. Exists(0)
  <2>1. \A s \in Small(0) : s = {}
    BY <1>0
  <2>. DEFINE it == [s \in Small(0) |-> base]
  <2>2. it = [s \in Small(0) |-> Next(it, s)]
    BY <2>1
  <2>. QED
    BY <2>2
<1>4. ASSUME NEW n \in Nat, Exists(n) PROVE Exists(n + 1)
  <2>1. PICK it : it = [s \in Small(n) |-> Next(it, s)]
    BY <1>4
  <2>. DEFINE more == [s \in Small(n + 1) |-> Next(it, s)]
  <2>2. ASSUME NEW s \in Small(n + 1) PROVE Next(more, s) = Next(it, s)
    <3>1. CASE s = {}
      BY <3>1
    <3>2. CASE s # {}
      <4>. DEFINE t == s \ {Pick(s)}
      <4>1. t \in Small(n)
        BY <1>1, <1>2, <3>2
      <4>2. t \in Small(n + 1)
        BY <1>1, <4>1
      <4>3. more[t] = it[t]
        BY <2>1, <4>1, <4>2
      <4>. QED
        BY <3>2, <4>3
    <3>. QED
      BY <3>1, <3>2
  <2>3. more = [s \in Small(n + 1) |-> Next(more, s)]
    BY <2>2
  <2>. HIDE DEF more
  <2>. QED
    BY <2>3
<1>. HIDE DEF Exists
<1>5. Exists(size[S])
  <2>1. 0 \in Good /\ \A n \in Nat : n \in Good => n + 1 \in Good
    BY <1>3, <1>4
  <2>. HIDE DEF Good
  <2>2. \A n \in Nat : n \in Good
    BY <2>1 DEF Induction
  <2>3. size[S] \in Nat
    BY <1>1
  <2>. QED
    BY <2>2, <2>3 DEF Good
<1>6. Small(size[S]) = SUBSET S
  BY <1>1
<1>7. \E it : Recursive(c, base, f, S, it)
  BY <1>5, <1>6 DEF Exists, Recursive
<1>. QED
  BY <1>7 DEF Result

\* The results of folding the first 0, 1, ..., n elements of f.
Partial(c, base, f, n, steps) ==
  /\ steps[0] = base
  /\ \A i \in 1 .. n : steps[i] = Op(c, f[i], steps[i - 1])
  /\ Result(c, base, f, 1 .. n) = steps[n]

(***************************************************************************)
(* A fold that picks the greatest index goes through a sequence: steps[i]  *)
(* is what its first i elements give.                                      *)
(***************************************************************************)
THEOREM FoldSteps ==
  ASSUME Basics, NEW c, NEW base, NEW f, NEW n \in Nat, \A s : Pick(s) = Greatest(s)
  PROVE  \E steps : Partial(c, base, f, n, steps)
<1>1. Induction /\ Counted(1 .. n)
  BY DEF Basics
<1>2. \A s \in SUBSET (1 .. n) : s # {} => Pick(s) \in s
  BY DEF Basics
<1>3. PICK it : Recursive(c, base, f, 1 .. n, it) /\ Result(c, base, f, 1 .. n) = it[1 .. n]
  BY <1>1, <1>2, FoldDefined
<1>. DEFINE steps == [i \in 0 .. n |-> it[1 .. i]]
<1>4. \A i \in 0 .. n : 1 .. i \in SUBSET (1 .. n)
  OBVIOUS
<1>5. steps[0] = base
  <2>1. 1 .. 0 = {}
    OBVIOUS
  <2>2. it[{}] = base
    BY <1>3 DEF Recursive
  <2>. QED
    BY <2>1, <2>2
<1>6. ASSUME NEW i \in 1 .. n PROVE steps[i] = Op(c, f[i], steps[i - 1])
  <2>1. 1 .. i # {} /\ 1 .. i \in SUBSET (1 .. n)
    OBVIOUS
  <2>2. Pick(1 .. i) = i
    <3>. DEFINE last == Greatest(1 .. i)
    <3>1. \E x \in 1 .. i : \A y \in 1 .. i : x >= y
      OBVIOUS
    <3>2. last \in 1 .. i /\ \A y \in 1 .. i : last >= y
      BY <3>1 DEF Greatest
    <3>. HIDE DEF last
    <3>3. last = i
      BY <3>2
    <3>. QED
      BY <3>3 DEF last
  <2>3. (1 .. i) \ {i} = 1 .. i - 1
    OBVIOUS
  <2>4. it[1 .. i] = Op(c, f[Pick(1 .. i)], it[(1 .. i) \ {Pick(1 .. i)}])
    BY <1>3, <2>1 DEF Recursive
  <2>5. it[1 .. i] = Op(c, f[i], it[1 .. i - 1])
    BY <2>2, <2>3, <2>4
  <2>6. i \in 0 .. n /\ i - 1 \in 0 .. n
    OBVIOUS
  <2>. QED
    BY <2>5, <2>6
<1>7. steps[n] = it[1 .. n] /\ DOMAIN steps = 0 .. n
  OBVIOUS
<1>. HIDE DEF steps
<1>. QED
  BY <1>3, <1>5, <1>6, <1>7 DEF Partial

(***************************************************************************)
(* Two folds over one sequence have the same result if their operators     *)
(* agree on its elements.                                                  *)
(***************************************************************************)
THEOREM FoldCongruence ==
  ASSUME Basics, NEW c, NEW d, NEW base, NEW f, NEW n \in Nat, \A s : Pick(s) = Greatest(s),
         \A i \in 1 .. n : \A acc : Op(c, f[i], acc) = Op(d, f[i], acc)
  PROVE  Result(c, base, f, 1 .. n) = Result(d, base, f, 1 .. n)
<1>1. PICK left : Partial(c, base, f, n, left)
  BY FoldSteps
<1>2. PICK right : Partial(d, base, f, n, right)
  BY FoldSteps
<1>. DEFINE Good == {i \in Nat : left[i] = right[i]}
<1>3. 0 \in Good
  BY <1>1, <1>2 DEF Partial
<1>4. ASSUME NEW i \in 0 .. n - 1, i \in Good PROVE i + 1 \in Good
  <2>1. i + 1 \in 1 .. n /\ (i + 1) - 1 = i /\ left[i] = right[i]
    BY <1>4
  <2>2. left[i + 1] = Op(c, f[i + 1], left[i]) /\ right[i + 1] = Op(d, f[i + 1], right[i])
    BY <1>1, <1>2, <2>1 DEF Partial
  <2>3. Op(c, f[i + 1], left[i]) = Op(d, f[i + 1], left[i])
    BY <2>1
  <2>. QED
    BY <2>1, <2>2, <2>3
<1>. HIDE DEF Good
<1>5. \A i \in 0 .. n : i \in Good
  BY <1>3, <1>4, BoundedInduction
<1>6. left[n] = right[n]
  BY <1>5 DEF Good
<1>. QED
  BY <1>1, <1>2, <1>6 DEF Partial

(***************************************************************************)
(* A walk over the elements of N in the order of their rank, where a visit *)
(* changes the value of the element visited and depends on no other of its *)
(* rank: every element ends with what its visit makes of the final values  *)
(* before it and the first values after it.                                *)
(***************************************************************************)
Keyed(N, ts) == ts = [x \in N |-> ts[x]]

InOrder(N, rank, n, f) ==
  /\ rank \in [N -> Int] /\ f \in [1 .. n -> N]
  /\ \A x \in N : \E i \in 1 .. n : f[i] = x
  /\ \A i, j \in 1 .. n : i < j => f[i] # f[j] /\ rank[f[i]] <= rank[f[j]]

Before(N, rank, x, done, base) ==
  [y \in N |-> IF rank[y] < rank[x] THEN done[y] ELSE base[y]]

VisitsOnly(c, N) ==
  \A x \in N : \A ts : Keyed(N, ts) => Op(c, x, ts) = [ts EXCEPT ![x] = Op(c, x, ts)[x]]

ReadsOthers(c, N, rank) ==
  \A x \in N : \A ts, us :
     /\ Keyed(N, ts) /\ Keyed(N, us)
     /\ ts[x] = us[x]
     /\ \A y \in N : rank[y] # rank[x] => ts[y] = us[y]
     => Op(c, x, ts)[x] = Op(c, x, us)[x]

THEOREM WalkInOrder ==
  ASSUME Basics, NEW c, NEW N, NEW base, NEW rank, NEW n \in Nat, NEW f,
         \A s : Pick(s) = Greatest(s), InOrder(N, rank, n, f), Keyed(N, base),
         VisitsOnly(c, N), ReadsOthers(c, N, rank)
  PROVE  LET done == Result(c, base, f, 1 .. n)
         IN  /\ Keyed(N, done)
             /\ \A x \in N : done[x] = Op(c, x, Before(N, rank, x, done, base))[x]
<1>0. /\ rank \in [N -> Int] /\ f \in [1 .. n -> N]
      /\ \A x \in N : \E i \in 1 .. n : f[i] = x
      /\ \A i, j \in 1 .. n : i < j => f[i] # f[j] /\ rank[f[i]] <= rank[f[j]]
  BY DEF InOrder
<1>1. PICK steps : Partial(c, base, f, n, steps)
  BY FoldSteps
<1>. DEFINE Holds(i) == /\ Keyed(N, steps[i])
                        /\ \A j \in 1 .. n : j > i => steps[i][f[j]] = base[f[j]]
                        /\ \A j \in 1 .. n : j <= i => steps[i][f[j]] = steps[j][f[j]]
            Good     == {i \in Nat : Holds(i)}
<1>2. Holds(0)
  BY <1>1 DEF Partial
<1>3. ASSUME NEW i \in 0 .. n - 1, Holds(i) PROVE Holds(i + 1)
  <2>. DEFINE x == f[i + 1]
              v == Op(c, x, steps[i])[x]
  <2>1. i + 1 \in 1 .. n /\ (i + 1) - 1 = i /\ x \in N
    BY <1>0
  <2>2. steps[i + 1] = Op(c, x, steps[i])
    BY <1>1, <2>1 DEF Partial
  <2>3. Op(c, x, steps[i]) = [steps[i] EXCEPT ![x] = v]
    BY <1>3, <2>1 DEF VisitsOnly
  <2>. HIDE DEF v
  <2>4. Keyed(N, steps[i + 1]) /\ \A y \in N : y # x => steps[i + 1][y] = steps[i][y]
    BY <1>3, <2>1, <2>2, <2>3 DEF Keyed
  <2>5. ASSUME NEW j \in 1 .. n, j # i + 1 PROVE steps[i + 1][f[j]] = steps[i][f[j]]
    <3>1. f[j] \in N /\ f[j] # x
      BY <1>0, <2>1, <2>5
    <3>. QED
      BY <2>4, <3>1
  <2>. QED
    BY <1>3, <2>4, <2>5
<1>. HIDE DEF Holds
<1>4. \A i \in 0 .. n : i \in Good
  <2>1. 0 \in Good /\ \A i \in 0 .. n - 1 : i \in Good => i + 1 \in Good
    BY <1>2, <1>3
  <2>. HIDE DEF Good
  <2>. QED
    BY <2>1, BoundedInduction
<1>5. \A i \in 0 .. n : Holds(i)
  BY <1>4
<1>. DEFINE done == steps[n]
<1>6. Keyed(N, done) /\ \A j \in 1 .. n : done[f[j]] = steps[j][f[j]]
  BY <1>0, <1>5 DEF Holds
<1>7. ASSUME NEW x \in N PROVE done[x] = Op(c, x, Before(N, rank, x, done, base))[x]
  <2>. DEFINE view == Before(N, rank, x, done, base)
  <2>1. PICK j \in 1 .. n : f[j] = x
    BY <1>0
  <2>. DEFINE last == steps[j - 1]
  <2>2. j - 1 \in 0 .. n /\ Holds(j - 1)
    BY <1>5
  <2>3. Keyed(N, last) /\ last[x] = base[x]
    BY <2>1, <2>2 DEF Holds
  <2>4. Keyed(N, view) /\ view[x] = base[x]
    BY <1>0 DEF Keyed, Before
  <2>5. ASSUME NEW y \in N, rank[y] # rank[x] PROVE last[y] = view[y]
    <3>1. PICK k \in 1 .. n : f[k] = y
      BY <1>0
    <3>2. rank[y] \in Int /\ rank[x] \in Int /\ k # j
      BY <1>0, <2>1, <2>5, <3>1
    <3>3. CASE k < j
      <4>1. rank[y] < rank[x]
        BY <1>0, <2>1, <2>5, <3>1, <3>2, <3>3
      <4>2. k <= j - 1 /\ last[y] = steps[k][y]
        BY <2>2, <3>1, <3>3 DEF Holds
      <4>3. done[y] = steps[k][y]
        BY <1>6, <3>1
      <4>. QED
        BY <4>1, <4>2, <4>3 DEF Before
    <3>4. CASE k > j
      <4>1. ~(rank[y] < rank[x])
        BY <1>0, <2>1, <2>5, <3>1, <3>2, <3>4
      <4>2. k > j - 1 /\ last[y] = base[y]
        BY <2>2, <3>1, <3>4 DEF Holds
      <4>. QED
        BY <4>1, <4>2 DEF Before
    <3>. QED
      BY <3>2, <3>3, <3>4
  <2>. HIDE DEF view, last
  <2>6. Op(c, x, last)[x] = Op(c, x, view)[x]
    BY <2>3, <2>4, <2>5 DEF ReadsOthers
  <2>7. done[x] = Op(c, x, last)[x]
    BY <1>1, <1>6, <2>1 DEF last, Partial
  <2>. QED
    BY <2>6, <2>7 DEF view
<1>. QED
  BY <1>1, <1>6, <1>7 DEF Partial

(***************************************************************************)
(* A fold over a sequence with one element more is one step more.          *)
(***************************************************************************)
THEOREM FoldAppend ==
  ASSUME Basics, NEW c, NEW base, NEW S, NEW seq \in Seq(S), NEW x \in S, \A s : Pick(s) = Greatest(s)
  PROVE  Result(c, base, Append(seq, x), 1 .. Len(seq) + 1)
           = Op(c, x, Result(c, base, seq, 1 .. Len(seq)))
<1>. DEFINE n    == Len(seq)
            long == Append(seq, x)
<1>0. /\ n \in Nat /\ n + 1 \in Nat /\ long[n + 1] = x
      /\ \A i \in 1 .. n : long[i] = seq[i]
  OBVIOUS
<1>. HIDE DEF n, long
<1>1. PICK left : Partial(c, base, seq, n, left)
  BY <1>0, FoldSteps
<1>2. PICK right : Partial(c, base, long, n + 1, right)
  BY <1>0, FoldSteps
<1>. DEFINE Good == {i \in Nat : left[i] = right[i]}
<1>3. 0 \in Good
  BY <1>1, <1>2 DEF Partial
<1>4. ASSUME NEW i \in 0 .. n - 1, i \in Good PROVE i + 1 \in Good
  <2>1. i + 1 \in 1 .. n /\ i + 1 \in 1 .. n + 1 /\ (i + 1) - 1 = i /\ left[i] = right[i]
    BY <1>0, <1>4
  <2>2. left[i + 1] = Op(c, seq[i + 1], left[i]) /\ right[i + 1] = Op(c, long[i + 1], right[i])
    BY <1>1, <1>2, <2>1 DEF Partial
  <2>. QED
    BY <1>0, <2>1, <2>2
<1>. HIDE DEF Good
<1>5. \A i \in 0 .. n : i \in Good
  BY <1>0, <1>3, <1>4, BoundedInduction
<1>6. left[n] = right[n]
  BY <1>0, <1>5 DEF Good
<1>7. n + 1 \in 1 .. n + 1 /\ (n + 1) - 1 = n
  BY <1>0
<1>8. right[n + 1] = Op(c, x, right[n])
  BY <1>0, <1>2, <1>7 DEF Partial
<1>9. /\ Result(c, base, long, 1 .. n + 1) = right[n + 1]
      /\ Result(c, base, seq, 1 .. n) = left[n]
  BY <1>1, <1>2 DEF Partial
<1>. QED
  BY <1>6, <1>8, <1>9 DEF n, long
================================================================================
