-------------------------- MODULE IncrTimingAnalysis --------------------------
(***************************************************************************)
(* The incremental analysis implements the abstract analyzer with the full *)
(* analysis as the meaning of a result: after an update of a mode, every   *)
(* tag and slack a client can read is what a full analysis under the       *)
(* current delays would have computed, whatever was updated before.        *)
(***************************************************************************)
EXTENDS SerialIncrWalker

Full == INSTANCE SerialWalker

Unknown == << >>

Delays == {d \in [Edges -> UNION {DelayChoices[e] : e \in Edges}] :
             \A e \in Edges : d[e] \in DelayChoices[e]}

result == [m \in Modes |-> IF never_updated \/ m \in active
                           THEN Unknown ELSE Full!ResultOf(tags[m], slacks[m])]

FullTiming(m, d) == Full!full_update_timing(m, d)

Analyzer == INSTANCE TimingAnalyzer
              WITH Analysis <- FullTiming, updating <- active

(***************************************************************************)
(* Incremental results are full results: the refinement.                   *)
(***************************************************************************)
IncrementalIsFull == Analyzer!Spec
==============================================================================
