---------------------------- MODULE PipelineLedger ----------------------------
(***************************************************************************)
(* BacktestPipeline implements TaskLedger: whatever the servers and their  *)
(* databases do, a request the data server has accepted is in exactly one  *)
(* place of its life, which is what the business server's fire-and-forget  *)
(* push relies on.                                                         *)
(***************************************************************************)
EXTENDS BacktestPipeline, FiniteSets

ASSUME WorkersAssumption == IsFiniteSet(Workers)

(* The refinement mapping: what a task returned, or that it was lost with  *)
(* its process, is beneath the ledger.                                     *)
LedgerPhase ==
  [t \in Tasks |-> IF phase[t] \in Returned \union {"lost"} THEN "ended"
                                                           ELSE phase[t]]

LedgerAbout ==
  [t \in Tasks |-> IF about[t] = NoStrategy THEN {} ELSE {about[t]}]

Ledger == INSTANCE TaskLedger WITH
            phase <- LedgerPhase, about <- LedgerAbout,
            Capacity <- Cardinality(Workers)

(* Every step of the pipeline is a step of the ledger or leaves it alone:  *)
(* no request is handed to two workers, goes back to the queue, changes    *)
(* its strategy or ends twice (TakeTask, Return, WorkerCrash).             *)
LedgerSpec == Ledger!Spec

(* With fair workers the ledger's own fairness follows: none of them is    *)
(* idle for ever while a request waits, and no run goes on for ever.       *)
LedgerFairSpec == Ledger!FairSpec

===============================================================================
