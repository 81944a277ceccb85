-------------------------- MODULE MCBacktestPipeline --------------------------
(***************************************************************************)
(* BacktestPipeline on small instances.  Task ids, workers and principals  *)
(* are interchangeable; the liveness run does without symmetry.            *)
(***************************************************************************)
EXTENDS PipelineLedger, TLC

Symmetry ==
  Permutations(Tasks) \union Permutations(Workers) \union Permutations(Principals)

===============================================================================
