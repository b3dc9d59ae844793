------------------------ MODULE ParallelTimingAnalysis ------------------------
(***************************************************************************)
(* The parallel analysis implements the abstract analyzer with the serial  *)
(* full analysis as the meaning of a result: whatever order the workers    *)
(* take the nodes of a level in, every tag and slack is the serial one.    *)
(***************************************************************************)
EXTENDS ParallelLevelizedWalker, SerialWalker

Unknown == << >>

Modes    == {Mode}
updating == IF phase = "idle" THEN {} ELSE Modes
result   == [m \in Modes |-> IF updated /\ phase = "idle" THEN ResultOf(tags, slacks)
                                                         ELSE Unknown]

SerialTiming(m, d) == full_update_timing(m, d)

Analyzer == INSTANCE TimingAnalyzer WITH Analysis <- SerialTiming

(***************************************************************************)
(* Parallel results are serial results: the refinement.                    *)
(***************************************************************************)
ParallelIsSerial == Analyzer!Spec
==============================================================================
