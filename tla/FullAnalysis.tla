----------------------------- MODULE FullAnalysis -----------------------------
(***************************************************************************)
(* The full analysis of a graph under constraints, as tatum_test makes it  *)
(* for setup and for hold: a new analyzer walks the whole graph.           *)
(***************************************************************************)
Analyzer(tg, constraints) ==
  INSTANCE SerialWalker WITH TG <- tg, TC <- constraints

FullAnalysisOf(tg, constraints, delay) ==
  [m \in {"setup", "hold"} |-> Analyzer(tg, constraints)!full_update_timing(m, delay)]
===============================================================================
