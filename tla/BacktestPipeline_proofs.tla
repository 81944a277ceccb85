------------------------ MODULE BacktestPipeline_proofs ------------------------
(***************************************************************************)
(* Theorems about the pipeline, for any number of strategies, tasks,       *)
(* workers and requests, any size of the pool and any number of faults.    *)
(***************************************************************************)
EXTENDS BacktestPipeline, TLAPS

-----------------------------------------------------------------------------
(* Types                                                                   *)

(* Type correctness needs to know that a worker's task is its own.         *)
TypeInv == TypeOK /\ OneWorkerPerTask

(* The strategy a busy worker works for is a strategy.                     *)
LEMMA WorkersStrategy ==
  ASSUME TypeInv, NEW w \in Workers, pc[w] # "idle"
  PROVE  /\ job[w] \in Tasks
         /\ about[job[w]] \in Strategies
         /\ phase[job[w]] = "running"
BY DEF TypeInv, TypeOK, WorkersOK, QueueOK, OneWorkerPerTask, Working

(* The names of the steps of a run.                                        *)
LEMMA StepNames ==
  /\ "idle" \notin Steps
  /\ {"start", "period", "universe", "simulate", "monthly", "finish", "fail"}
       \subseteq Steps
  /\ Tables \subseteq Steps /\ Columns \subseteq Steps
  /\ \A p \in Tables \union Columns : After[p] \in Steps
BY DEF Steps, Tables, KeyedTables, UniqueTables, ChartTables, Columns, After

LEMMA InitTypeInv == Init => TypeInv
BY PipelineAssumption
   DEF Init, TypeInv, TypeOK, DatabaseOK, BusinessOK, QueueOK, WorkersOK,
       CountersOK, HistoryOK, OneWorkerPerTask, Working, Amounts, Statuses,
       Tables, KeyedTables, UniqueTables, ChartTables, Columns, Row, Steps,
       Phases, Returned, IdleRequest

(* Every step of the pipeline keeps the types.                             *)
LEMMA NextTypeInv == TypeInv /\ [Next]_vars => TypeInv'
<1> SUFFICES ASSUME TypeInv, [Next]_vars
             PROVE  TypeInv'
  OBVIOUS
<1> USE DEF TypeInv, TypeOK, database, business, queue, workers, history
<1>1. ASSUME NEW s \in Strategies, CreateStrategy(s)
      PROVE  TypeInv'
  BY <1>1, PipelineAssumption, StepNames
  DEF CreateStrategy,
      DatabaseOK, BusinessOK, QueueOK, WorkersOK, CountersOK, HistoryOK,
      OneWorkerPerTask, Working
<1>2. ASSUME NEW s \in Strategies, CreateInvestProfitInfo(s)
      PROVE  TypeInv'
  <2>1. DatabaseOK'
    <3>1. PICK p \in Principals :
            profit' = [profit EXCEPT ![s].principal = p]
      BY <1>2 DEF CreateInvestProfitInfo
    <3>2. profit' \in [Strategies -> [principal : Amounts \union {Null},
                                     price : Amounts \union {Null}]]
      BY <3>1 DEF DatabaseOK, Amounts
    <3> QED  BY <3>2, <1>2 DEF CreateInvestProfitInfo, DatabaseOK
  <2>2. BusinessOK'
    BY <1>2 DEF CreateInvestProfitInfo, Note, Amounts, BusinessOK, DatabaseOK
  <2>3. QueueOK'
    BY <1>2 DEF CreateInvestProfitInfo, Note, Amounts, QueueOK, BusinessOK
  <2>4. WorkersOK'
    BY <1>2, StepNames, PipelineAssumption DEF CreateInvestProfitInfo, Note, Amounts, WorkersOK, Working
  <2>5. CountersOK'
    BY <1>2, PipelineAssumption DEF CreateInvestProfitInfo, Note, Amounts, CountersOK
  <2>6. HistoryOK'
    <3>1. PICK p \in Principals :
            wanted' = [wanted EXCEPT ![s].principal = p]
      BY <1>2 DEF CreateInvestProfitInfo
    <3>2. wanted' \in [Strategies -> [principal : Amounts \union {Null},
                                     gone : BOOLEAN]]
      BY <3>1 DEF HistoryOK, Amounts
    <3>3. overlap' \in [Strategies -> BOOLEAN]
      BY <1>2 DEF CreateInvestProfitInfo, Note, HistoryOK, Running, Runs
    <3> QED  BY <3>2, <3>3 DEF HistoryOK
  <2>7. OneWorkerPerTask'
    BY <1>2, StepNames DEF CreateInvestProfitInfo, Note, Amounts, OneWorkerPerTask, Working, WorkersOK, QueueOK
  <2> QED  BY <2>1, <2>2, <2>3, <2>4, <2>5, <2>6, <2>7
<1>3. ASSUME NEW s \in Strategies, AddUniversalOnly(s)
      PROVE  TypeInv'
  BY <1>3, PipelineAssumption, StepNames
  DEF AddUniversalOnly,
      DatabaseOK, BusinessOK, QueueOK, WorkersOK, CountersOK, HistoryOK,
      OneWorkerPerTask, Working
<1>4. ASSUME NEW s \in Strategies, UpsertTradingStrategy(s)
      PROVE  TypeInv'
  BY <1>4, PipelineAssumption, StepNames
  DEF UpsertTradingStrategy,
      DatabaseOK, BusinessOK, QueueOK, WorkersOK, CountersOK, HistoryOK,
      OneWorkerPerTask, Working
<1>5. ASSUME NEW s \in Strategies, SoftDelete(s)
      PROVE  TypeInv'
  <2>1. DatabaseOK'
    BY <1>5 DEF SoftDelete, Note, DatabaseOK, BusinessOK
  <2>2. BusinessOK'
    BY <1>5 DEF SoftDelete, Note, BusinessOK, DatabaseOK
  <2>3. QueueOK'
    BY <1>5 DEF SoftDelete, Note, QueueOK, BusinessOK
  <2>4. WorkersOK'
    BY <1>5, StepNames, PipelineAssumption DEF SoftDelete, Note, WorkersOK, Working
  <2>5. CountersOK'
    BY <1>5, PipelineAssumption DEF SoftDelete, Note, CountersOK
  <2>6. HistoryOK'
    BY <1>5 DEF SoftDelete, Note, HistoryOK, BusinessOK
  <2>7. OneWorkerPerTask'
    BY <1>5, StepNames DEF SoftDelete, Note, OneWorkerPerTask, Working, WorkersOK, QueueOK
  <2> QED  BY <2>1, <2>2, <2>3, <2>4, <2>5, <2>6, <2>7
<1>6. ASSUME NEW s \in Strategies, RetryAccepted(s)
      PROVE  TypeInv'
  <2>1. DatabaseOK'
    BY <1>6 DEF RetryAccepted, Enqueue, Phases, DatabaseOK, BusinessOK
  <2>2. BusinessOK'
    BY <1>6 DEF RetryAccepted, Enqueue, Phases, BusinessOK, DatabaseOK
  <2>3. QueueOK'
    BY <1>6 DEF RetryAccepted, Enqueue, Phases, QueueOK, BusinessOK
  <2>4. WorkersOK'
    BY <1>6, StepNames, PipelineAssumption DEF RetryAccepted, Enqueue, Phases, WorkersOK, Working
  <2>5. CountersOK'
    BY <1>6, PipelineAssumption DEF RetryAccepted, Enqueue, Phases, CountersOK
  <2>6. HistoryOK'
    BY <1>6 DEF RetryAccepted, Enqueue, Phases, HistoryOK, BusinessOK
  <2>7. OneWorkerPerTask'
    BY <1>6, StepNames DEF RetryAccepted, Enqueue, Phases, OneWorkerPerTask, Working, WorkersOK, QueueOK
  <2> QED  BY <2>1, <2>2, <2>3, <2>4, <2>5, <2>6, <2>7
<1>7. ASSUME NEW s \in Strategies, RetryRaises(s)
      PROVE  TypeInv'
  <2>1. DatabaseOK'
    BY <1>7 DEF RetryRaises, Enqueue, Phases, Refusal, Fault, DatabaseOK, BusinessOK
  <2>2. BusinessOK'
    BY <1>7 DEF RetryRaises, Enqueue, Phases, Refusal, Fault, BusinessOK, DatabaseOK
  <2>3. QueueOK'
    BY <1>7 DEF RetryRaises, Enqueue, Phases, Refusal, Fault, QueueOK, BusinessOK
  <2>4. WorkersOK'
    BY <1>7, StepNames, PipelineAssumption DEF RetryRaises, Enqueue, Phases, Refusal, Fault, WorkersOK, Working
  <2>5. CountersOK'
    BY <1>7, PipelineAssumption DEF RetryRaises, Enqueue, Phases, Refusal, Fault, CountersOK
  <2>6. HistoryOK'
    BY <1>7 DEF RetryRaises, Enqueue, Phases, Refusal, Fault, HistoryOK, BusinessOK
  <2>7. OneWorkerPerTask'
    BY <1>7, StepNames DEF RetryRaises, Enqueue, Phases, Refusal, Fault, OneWorkerPerTask, Working, WorkersOK, QueueOK
  <2> QED  BY <2>1, <2>2, <2>3, <2>4, <2>5, <2>6, <2>7
<1>8. ASSUME NEW q \in Requests, NEW s \in Strategies, UpdateRead(q, s)
      PROVE  TypeInv'
  <2>1. DatabaseOK'
    BY <1>8 DEF UpdateRead, Note, Amounts, DatabaseOK, BusinessOK
  <2>2. BusinessOK'
    BY <1>8 DEF UpdateRead, Note, Amounts, BusinessOK, DatabaseOK
  <2>3. QueueOK'
    BY <1>8 DEF UpdateRead, Note, Amounts, QueueOK, BusinessOK
  <2>4. WorkersOK'
    BY <1>8, StepNames, PipelineAssumption DEF UpdateRead, Note, Amounts, WorkersOK, Working
  <2>5. CountersOK'
    BY <1>8, PipelineAssumption DEF UpdateRead, Note, Amounts, CountersOK
  <2>6. HistoryOK'
    BY <1>8 DEF UpdateRead, Note, Amounts, HistoryOK, BusinessOK
  <2>7. OneWorkerPerTask'
    BY <1>8, StepNames DEF UpdateRead, Note, Amounts, OneWorkerPerTask, Working, WorkersOK, QueueOK
  <2> QED  BY <2>1, <2>2, <2>3, <2>4, <2>5, <2>6, <2>7
<1>9. ASSUME NEW q \in Requests, NEW s \in Strategies, PushRequested(q, s)
      PROVE  TypeInv'
  BY <1>9, PipelineAssumption, StepNames
  DEF PushRequested, IdleRequest, Statuses,
      DatabaseOK, BusinessOK, QueueOK, WorkersOK, CountersOK, HistoryOK,
      OneWorkerPerTask, Working
<1>10. ASSUME NEW q \in Requests, UpdateSaveRow(q)
      PROVE  TypeInv'
  <2>1. DatabaseOK'
    <3>1. /\ request[q].s \in Strategies
          /\ request[q].status \in Statuses
          /\ request[q].type \in Amounts \union {Null}
      BY <1>10 DEF UpdateSaveRow, BusinessOK
    <3>2. /\ row' \in [Strategies -> {"absent", "live", "deleted"}]
          /\ status' \in [Strategies -> Statuses]
      BY <3>1, <1>10 DEF UpdateSaveRow, DatabaseOK
    <3>3. report' = [report EXCEPT ![request[q].s].type = request[q].type]
      BY <1>10 DEF UpdateSaveRow
    <3>4. report' \in [Strategies -> [type : Amounts \union {Null},
                                     html : Amounts \union {Null}]]
      BY <3>1, <3>3 DEF DatabaseOK
    <3> QED  BY <3>2, <3>4, <1>10 DEF UpdateSaveRow, DatabaseOK
  <2>2. BusinessOK'
    <3>1. request' = [request EXCEPT ![q].pc = "profit"]
      BY <1>10 DEF UpdateSaveRow
    <3>2. request[q].s \in Strategies
      BY <1>10 DEF UpdateSaveRow, BusinessOK
    <3> QED  BY <3>1, <3>2, <1>10 DEF UpdateSaveRow, BusinessOK
  <2>3. QueueOK'
    BY <1>10 DEF UpdateSaveRow, QueueOK, BusinessOK
  <2>4. WorkersOK'
    BY <1>10, StepNames, PipelineAssumption DEF UpdateSaveRow, WorkersOK, Working
  <2>5. CountersOK'
    BY <1>10, PipelineAssumption DEF UpdateSaveRow, CountersOK
  <2>6. HistoryOK'
    BY <1>10 DEF UpdateSaveRow, HistoryOK, BusinessOK
  <2>7. OneWorkerPerTask'
    BY <1>10, StepNames DEF UpdateSaveRow, OneWorkerPerTask, Working, WorkersOK, QueueOK
  <2> QED  BY <2>1, <2>2, <2>3, <2>4, <2>5, <2>6, <2>7
<1>11. ASSUME NEW q \in Requests, UpdateSaveProfit(q)
      PROVE  TypeInv'
  <2>1. DatabaseOK'
    BY <1>11 DEF UpdateSaveProfit, DatabaseOK, BusinessOK
  <2>2. BusinessOK'
    <3>1. request' = [request EXCEPT ![q].pc = "check"] /\ retry' = retry
      BY <1>11 DEF UpdateSaveProfit
    <3>2. request[q].s \in Strategies
      BY <1>11 DEF UpdateSaveProfit, BusinessOK
    <3> QED  BY <3>1, <3>2 DEF BusinessOK
  <2>3. QueueOK'
    BY <1>11 DEF UpdateSaveProfit, QueueOK, BusinessOK
  <2>4. WorkersOK'
    BY <1>11, StepNames, PipelineAssumption DEF UpdateSaveProfit, WorkersOK, Working
  <2>5. CountersOK'
    BY <1>11, PipelineAssumption DEF UpdateSaveProfit, CountersOK
  <2>6. HistoryOK'
    BY <1>11 DEF UpdateSaveProfit, HistoryOK, BusinessOK
  <2>7. OneWorkerPerTask'
    BY <1>11, StepNames DEF UpdateSaveProfit, OneWorkerPerTask, Working, WorkersOK, QueueOK
  <2> QED  BY <2>1, <2>2, <2>3, <2>4, <2>5, <2>6, <2>7
<1>12. ASSUME NEW q \in Requests, UpdateRaises(q) \/ CheckMyStrategy(q)
      PROVE  TypeInv'
  <2>1. CASE UpdateRaises(q)
    BY <2>1, PipelineAssumption, StepNames
    DEF UpdateRaises, IdleRequest, Statuses,
        DatabaseOK, BusinessOK, QueueOK, WorkersOK, CountersOK, HistoryOK,
        OneWorkerPerTask, Working
  <2>2. CASE CheckMyStrategy(q)
    BY <2>2, PipelineAssumption, StepNames
    DEF CheckMyStrategy, IdleRequest, Statuses,
        DatabaseOK, BusinessOK, QueueOK, WorkersOK, CountersOK, HistoryOK,
        OneWorkerPerTask, Working
  <2> QED  BY <1>12, <2>1, <2>2
<1>13. ASSUME NEW q \in Requests, PostAccepted(q)
      PROVE  TypeInv'
  <2>1. DatabaseOK'
    BY <1>13 DEF PostAccepted, Enqueue, Phases, IdleRequest, Statuses, DatabaseOK, BusinessOK
  <2>2. BusinessOK'
    BY <1>13 DEF PostAccepted, Enqueue, Phases, IdleRequest, Statuses, BusinessOK, DatabaseOK
  <2>3. QueueOK'
    BY <1>13 DEF PostAccepted, Enqueue, Phases, IdleRequest, Statuses, QueueOK, BusinessOK
  <2>4. WorkersOK'
    BY <1>13, StepNames, PipelineAssumption DEF PostAccepted, Enqueue, Phases, IdleRequest, Statuses, WorkersOK, Working
  <2>5. CountersOK'
    BY <1>13, PipelineAssumption DEF PostAccepted, Enqueue, Phases, IdleRequest, Statuses, CountersOK
  <2>6. HistoryOK'
    BY <1>13 DEF PostAccepted, Enqueue, Phases, IdleRequest, Statuses, HistoryOK, BusinessOK
  <2>7. OneWorkerPerTask'
    BY <1>13, StepNames DEF PostAccepted, Enqueue, Phases, IdleRequest, Statuses, OneWorkerPerTask, Working, WorkersOK, QueueOK
  <2> QED  BY <2>1, <2>2, <2>3, <2>4, <2>5, <2>6, <2>7
<1>14. ASSUME NEW q \in Requests, PostRefused(q)
      PROVE  TypeInv'
  BY <1>14, PipelineAssumption, StepNames
  DEF PostRefused, Refusal, Fault, IdleRequest, Statuses,
      DatabaseOK, BusinessOK, QueueOK, WorkersOK, CountersOK, HistoryOK,
      OneWorkerPerTask, Working
<1>15. ASSUME RetryScan
      PROVE  TypeInv'
  BY <1>15, PipelineAssumption, StepNames
  DEF RetryScan,
      DatabaseOK, BusinessOK, QueueOK, WorkersOK, CountersOK, HistoryOK,
      OneWorkerPerTask, Working
<1>16. ASSUME BusinessCrash
      PROVE  TypeInv'
  BY <1>16, PipelineAssumption, StepNames
  DEF BusinessCrash, IdleRequest, Statuses,
      DatabaseOK, BusinessOK, QueueOK, WorkersOK, CountersOK, HistoryOK,
      OneWorkerPerTask, Working
<1>17. ASSUME NEW w \in Workers, NEW t \in Tasks, TakeTask(w, t)
      PROVE  TypeInv'
  <2>1. DatabaseOK'
    BY <1>17 DEF TakeTask, Goto, Note, Phases, DatabaseOK
  <2>2. BusinessOK'
    BY <1>17 DEF TakeTask, Goto, Note, Phases, BusinessOK, DatabaseOK
  <2>3. QueueOK'
    BY <1>17 DEF TakeTask, Goto, Note, Phases, QueueOK, BusinessOK
  <2>4. WorkersOK'
    BY <1>17, StepNames, PipelineAssumption DEF TakeTask, Goto, Note, Phases, WorkersOK, Working
  <2>5. CountersOK'
    BY <1>17, PipelineAssumption DEF TakeTask, Goto, Note, Phases, CountersOK
  <2>6. HistoryOK'
    BY <1>17 DEF TakeTask, Goto, Note, Phases, HistoryOK
  <2>7. OneWorkerPerTask'
    BY <1>17, StepNames DEF TakeTask, Goto, Note, Phases, OneWorkerPerTask, Working, WorkersOK, QueueOK
  <2> QED  BY <2>1, <2>2, <2>3, <2>4, <2>5, <2>6, <2>7
<1>18. ASSUME NEW w \in Workers, SetStart(w)
      PROVE  TypeInv'
  <2>1. DatabaseOK'
    BY <1>18 DEF SetStart, Goto, SetStatus, Fault, Statuses, DatabaseOK
  <2>2. BusinessOK'
    BY <1>18 DEF SetStart, Goto, SetStatus, Fault, Statuses, BusinessOK, DatabaseOK
  <2>3. QueueOK'
    BY <1>18 DEF SetStart, Goto, SetStatus, Fault, Statuses, QueueOK, BusinessOK
  <2>4. WorkersOK'
    BY <1>18, StepNames, PipelineAssumption DEF SetStart, Goto, SetStatus, Fault, Statuses, WorkersOK, Working
  <2>5. CountersOK'
    BY <1>18, PipelineAssumption DEF SetStart, Goto, SetStatus, Fault, Statuses, CountersOK
  <2>6. HistoryOK'
    BY <1>18 DEF SetStart, Goto, SetStatus, Fault, Statuses, HistoryOK
  <2>7. OneWorkerPerTask'
    BY <1>18, StepNames DEF SetStart, Goto, SetStatus, Fault, Statuses, OneWorkerPerTask, Working, WorkersOK, QueueOK
  <2> QED  BY <2>1, <2>2, <2>3, <2>4, <2>5, <2>6, <2>7
<1>19. ASSUME NEW w \in Workers, GetPeriodInfo(w)
      PROVE  TypeInv'
  BY <1>19, PipelineAssumption, StepNames
  DEF GetPeriodInfo, Goto, Amounts,
      DatabaseOK, BusinessOK, QueueOK, WorkersOK, CountersOK, HistoryOK,
      OneWorkerPerTask, Working
<1>20. ASSUME NEW w \in Workers, GetPeriodInfoRaises(w)
      PROVE  TypeInv'
  BY <1>20, PipelineAssumption, StepNames
  DEF GetPeriodInfoRaises, Goto, Fault,
      DatabaseOK, BusinessOK, QueueOK, WorkersOK, CountersOK, HistoryOK,
      OneWorkerPerTask, Working
<1>21. ASSUME NEW w \in Workers, NoPortInfo(w)
      PROVE  TypeInv'
  <2>1. DatabaseOK'
    BY <1>21 DEF NoPortInfo, Return, Goto, Phases, Returned, DatabaseOK
  <2>2. BusinessOK'
    BY <1>21 DEF NoPortInfo, Return, Goto, Phases, Returned, BusinessOK, DatabaseOK
  <2>3. QueueOK'
    BY <1>21 DEF NoPortInfo, Return, Goto, Phases, Returned, QueueOK, BusinessOK, OneWorkerPerTask, Working, WorkersOK
  <2>4. WorkersOK'
    BY <1>21, StepNames, PipelineAssumption DEF NoPortInfo, Return, Goto, Phases, Returned, WorkersOK, Working, OneWorkerPerTask, QueueOK
  <2>5. CountersOK'
    BY <1>21, PipelineAssumption DEF NoPortInfo, Return, Goto, Phases, Returned, CountersOK
  <2>6. HistoryOK'
    BY <1>21 DEF NoPortInfo, Return, Goto, Phases, Returned, HistoryOK
  <2>7. OneWorkerPerTask'
    BY <1>21, StepNames DEF NoPortInfo, Return, Goto, Phases, Returned, OneWorkerPerTask, Working, WorkersOK, QueueOK
  <2> QED  BY <2>1, <2>2, <2>3, <2>4, <2>5, <2>6, <2>7
<1>22. ASSUME NEW w \in Workers, GetPortInfoFromDB(w)
      PROVE  TypeInv'
  BY <1>22, PipelineAssumption, StepNames
  DEF GetPortInfoFromDB, Goto,
      DatabaseOK, BusinessOK, QueueOK, WorkersOK, CountersOK, HistoryOK,
      OneWorkerPerTask, Working
<1>23. ASSUME NEW w \in Workers, GetPortInfoFromDBRaises(w)
      PROVE  TypeInv'
  BY <1>23, PipelineAssumption, StepNames
  DEF GetPortInfoFromDBRaises, Goto, Leak, Free, Fault,
      DatabaseOK, BusinessOK, QueueOK, WorkersOK, CountersOK, HistoryOK,
      OneWorkerPerTask, Working
<1>24. ASSUME NEW w \in Workers, Simulate(w)
      PROVE  TypeInv'
  BY <1>24, PipelineAssumption, StepNames
  DEF Simulate, Goto,
      DatabaseOK, BusinessOK, QueueOK, WorkersOK, CountersOK, HistoryOK,
      OneWorkerPerTask, Working
<1>25. ASSUME NEW w \in Workers, GetDBDataRaises(w)
      PROVE  TypeInv'
  <2>1. DatabaseOK'
    BY <1>25 DEF GetDBDataRaises, Goto, Leak, Free, Fault, Statuses, DatabaseOK
  <2>2. BusinessOK'
    BY <1>25 DEF GetDBDataRaises, Goto, Leak, Free, Fault, Statuses, BusinessOK, DatabaseOK
  <2>3. QueueOK'
    BY <1>25 DEF GetDBDataRaises, Goto, Leak, Free, Fault, Statuses, QueueOK, BusinessOK
  <2>4. WorkersOK'
    BY <1>25, StepNames, PipelineAssumption DEF GetDBDataRaises, Goto, Leak, Free, Fault, Statuses, WorkersOK, Working
  <2>5. CountersOK'
    BY <1>25, PipelineAssumption DEF GetDBDataRaises, Goto, Leak, Free, Fault, Statuses, CountersOK
  <2>6. HistoryOK'
    BY <1>25 DEF GetDBDataRaises, Goto, Leak, Free, Fault, Statuses, HistoryOK
  <2>7. OneWorkerPerTask'
    BY <1>25, StepNames DEF GetDBDataRaises, Goto, Leak, Free, Fault, Statuses, OneWorkerPerTask, Working, WorkersOK, QueueOK
  <2> QED  BY <2>1, <2>2, <2>3, <2>4, <2>5, <2>6, <2>7
<1>26. ASSUME NEW w \in Workers, SaveSelect(w)
      PROVE  TypeInv'
  BY <1>26, PipelineAssumption, StepNames
  DEF SaveSelect,
      DatabaseOK, BusinessOK, QueueOK, WorkersOK, CountersOK, HistoryOK,
      OneWorkerPerTask, Working
<1>27. ASSUME NEW w \in Workers, SaveWrite(w)
      PROVE  TypeInv'
  <2>1. DatabaseOK'
    <3> DEFINE s == about[job[w]]
               new == IF seen[w] = "one"
                      THEN {[by |-> r.by, amount |-> amount[w]] : r \in rows[s][pc[w]]}
                      ELSE rows[s][pc[w]]
                             \union {[by |-> job[w], amount |-> amount[w]]}
    <3>1. s \in Strategies /\ job[w] \in Tasks /\ amount[w] \in Amounts
      BY <1>27, WorkersStrategy, StepNames DEF SaveWrite, WorkersOK
    <3>2. pc[w] \in Tables /\ rows' = [rows EXCEPT ![s][pc[w]] = new]
      BY <1>27 DEF SaveWrite
    <3>3. rows[s][pc[w]] \subseteq Row
      BY <3>1, <3>2 DEF DatabaseOK
    <3>4. new \subseteq Row
      BY <3>1, <3>3 DEF Row
    <3> HIDE DEF new, s
    <3>5. rows' \in [Strategies -> [Tables -> SUBSET Row]]
      BY <3>1, <3>2, <3>4 DEF DatabaseOK
    <3> QED  BY <3>5, <1>27 DEF SaveWrite, DatabaseOK
  <2>2. BusinessOK'
    BY <1>27 DEF SaveWrite, Goto, Forget, Row, BusinessOK, DatabaseOK
  <2>3. QueueOK'
    BY <1>27 DEF SaveWrite, Goto, Forget, Row, QueueOK, BusinessOK
  <2>4. WorkersOK'
    BY <1>27, StepNames, PipelineAssumption DEF SaveWrite, Goto, Forget, Row, WorkersOK, Working
  <2>5. CountersOK'
    BY <1>27, PipelineAssumption DEF SaveWrite, Goto, Forget, Row, CountersOK
  <2>6. HistoryOK'
    BY <1>27 DEF SaveWrite, Goto, Forget, Row, HistoryOK
  <2>7. OneWorkerPerTask'
    BY <1>27, StepNames DEF SaveWrite, Goto, Forget, Row, OneWorkerPerTask, Working, WorkersOK, QueueOK
  <2> QED  BY <2>1, <2>2, <2>3, <2>4, <2>5, <2>6, <2>7
<1>28. ASSUME NEW w \in Workers, SaveColumn(w)
      PROVE  TypeInv'
  <2>1. DatabaseOK'
    <3> DEFINE s == about[job[w]]
    <3>1. s \in Strategies /\ amount[w] \in Amounts
      BY <1>28, WorkersStrategy, StepNames DEF SaveColumn, WorkersOK
    <3>2. profit' \in [Strategies -> [principal : Amounts \union {Null},
                                     price : Amounts \union {Null}]]
      BY <3>1, <1>28 DEF SaveColumn, DatabaseOK
    <3>3. report' = IF \/ pc[w] = "type"
                       \/ pc[w] = "html" /\ rows[s]["detail"] # {}
                    THEN [report EXCEPT ![s][pc[w]] = amount[w]]
                    ELSE report
      BY <1>28 DEF SaveColumn
    <3>4. /\ [report EXCEPT ![s]["type"] = amount[w]]
               \in [Strategies -> [type : Amounts \union {Null},
                                  html : Amounts \union {Null}]]
          /\ [report EXCEPT ![s]["html"] = amount[w]]
               \in [Strategies -> [type : Amounts \union {Null},
                                  html : Amounts \union {Null}]]
      BY <3>1 DEF DatabaseOK
    <3> HIDE DEF s
    <3>5. report' \in [Strategies -> [type : Amounts \union {Null},
                                     html : Amounts \union {Null}]]
      BY <3>3, <3>4 DEF DatabaseOK
    <3> QED  BY <3>2, <3>5, <1>28 DEF SaveColumn, DatabaseOK
  <2>2. BusinessOK'
    BY <1>28 DEF SaveColumn, Goto, BusinessOK, DatabaseOK
  <2>3. QueueOK'
    BY <1>28 DEF SaveColumn, Goto, QueueOK, BusinessOK
  <2>4. WorkersOK'
    BY <1>28, StepNames, PipelineAssumption DEF SaveColumn, Goto, WorkersOK, Working
  <2>5. CountersOK'
    BY <1>28, PipelineAssumption DEF SaveColumn, Goto, CountersOK
  <2>6. HistoryOK'
    BY <1>28 DEF SaveColumn, Goto, HistoryOK
  <2>7. OneWorkerPerTask'
    BY <1>28, StepNames DEF SaveColumn, Goto, OneWorkerPerTask, Working, WorkersOK, QueueOK
  <2> QED  BY <2>1, <2>2, <2>3, <2>4, <2>5, <2>6, <2>7
<1>29. ASSUME NEW w \in Workers, SaveRaises(w)
      PROVE  TypeInv'
  <2>1. DatabaseOK'
    BY <1>29 DEF SaveRaises, Goto, Leak, Free, Forget, Fault, Statuses, DuplicateKey, DatabaseOK
  <2>2. BusinessOK'
    BY <1>29 DEF SaveRaises, Goto, Leak, Free, Forget, Fault, Statuses, DuplicateKey, BusinessOK, DatabaseOK
  <2>3. QueueOK'
    BY <1>29 DEF SaveRaises, Goto, Leak, Free, Forget, Fault, Statuses, DuplicateKey, QueueOK, BusinessOK
  <2>4. WorkersOK'
    BY <1>29, StepNames, PipelineAssumption DEF SaveRaises, Goto, Leak, Free, Forget, Fault, Statuses, DuplicateKey, WorkersOK, Working
  <2>5. CountersOK'
    BY <1>29, PipelineAssumption DEF SaveRaises, Goto, Leak, Free, Forget, Fault, Statuses, DuplicateKey, CountersOK
  <2>6. HistoryOK'
    BY <1>29 DEF SaveRaises, Goto, Leak, Free, Forget, Fault, Statuses, DuplicateKey, HistoryOK
  <2>7. OneWorkerPerTask'
    BY <1>29, StepNames DEF SaveRaises, Goto, Leak, Free, Forget, Fault, Statuses, DuplicateKey, OneWorkerPerTask, Working, WorkersOK, QueueOK
  <2> QED  BY <2>1, <2>2, <2>3, <2>4, <2>5, <2>6, <2>7
<1>30. ASSUME NEW w \in Workers, SaveInvestProfitInfoRaises(w)
      PROVE  TypeInv'
  BY <1>30, PipelineAssumption, StepNames
  DEF SaveInvestProfitInfoRaises, Goto, Leak, Free, Fault,
      DatabaseOK, BusinessOK, QueueOK, WorkersOK, CountersOK, HistoryOK,
      OneWorkerPerTask, Working
<1>31. ASSUME NEW w \in Workers, SetSuccess(w)
      PROVE  TypeInv'
  <2>1. DatabaseOK'
    BY <1>31 DEF SetSuccess, SetStatus, Fault, Statuses, Return, Goto, Phases, Returned, DatabaseOK
  <2>2. BusinessOK'
    BY <1>31 DEF SetSuccess, SetStatus, Fault, Statuses, Return, Goto, Phases, Returned, BusinessOK, DatabaseOK
  <2>3. QueueOK'
    BY <1>31 DEF SetSuccess, SetStatus, Fault, Statuses, Return, Goto, Phases, Returned, QueueOK, BusinessOK, OneWorkerPerTask, Working, WorkersOK
  <2>4. WorkersOK'
    BY <1>31, StepNames, PipelineAssumption DEF SetSuccess, SetStatus, Fault, Statuses, Return, Goto, Phases, Returned, WorkersOK, Working, OneWorkerPerTask, QueueOK
  <2>5. CountersOK'
    BY <1>31, PipelineAssumption DEF SetSuccess, SetStatus, Fault, Statuses, Return, Goto, Phases, Returned, CountersOK
  <2>6. HistoryOK'
    BY <1>31 DEF SetSuccess, SetStatus, Fault, Statuses, Return, Goto, Phases, Returned, HistoryOK
  <2>7. OneWorkerPerTask'
    BY <1>31, StepNames DEF SetSuccess, SetStatus, Fault, Statuses, Return, Goto, Phases, Returned, OneWorkerPerTask, Working, WorkersOK, QueueOK
  <2> QED  BY <2>1, <2>2, <2>3, <2>4, <2>5, <2>6, <2>7
<1>32. ASSUME NEW w \in Workers, SetError(w)
      PROVE  TypeInv'
  <2>1. DatabaseOK'
    BY <1>32 DEF SetError, SetStatus, Fault, Statuses, Return, Goto, Phases, Returned, DatabaseOK
  <2>2. BusinessOK'
    BY <1>32 DEF SetError, SetStatus, Fault, Statuses, Return, Goto, Phases, Returned, BusinessOK, DatabaseOK
  <2>3. QueueOK'
    BY <1>32 DEF SetError, SetStatus, Fault, Statuses, Return, Goto, Phases, Returned, QueueOK, BusinessOK, OneWorkerPerTask, Working, WorkersOK
  <2>4. WorkersOK'
    BY <1>32, StepNames, PipelineAssumption DEF SetError, SetStatus, Fault, Statuses, Return, Goto, Phases, Returned, WorkersOK, Working, OneWorkerPerTask, QueueOK
  <2>5. CountersOK'
    BY <1>32, PipelineAssumption DEF SetError, SetStatus, Fault, Statuses, Return, Goto, Phases, Returned, CountersOK
  <2>6. HistoryOK'
    BY <1>32 DEF SetError, SetStatus, Fault, Statuses, Return, Goto, Phases, Returned, HistoryOK
  <2>7. OneWorkerPerTask'
    BY <1>32, StepNames DEF SetError, SetStatus, Fault, Statuses, Return, Goto, Phases, Returned, OneWorkerPerTask, Working, WorkersOK, QueueOK
  <2> QED  BY <2>1, <2>2, <2>3, <2>4, <2>5, <2>6, <2>7
<1>33. ASSUME NEW w \in Workers, PoolExhausted(w)
      PROVE  TypeInv'
  <2>1. DatabaseOK'
    BY <1>33 DEF PoolExhausted, Return, Goto, Phases, Returned, DatabaseOK
  <2>2. BusinessOK'
    BY <1>33 DEF PoolExhausted, Return, Goto, Phases, Returned, BusinessOK, DatabaseOK
  <2>3. QueueOK'
    BY <1>33 DEF PoolExhausted, Return, Goto, Phases, Returned, QueueOK, BusinessOK, OneWorkerPerTask, Working, WorkersOK
  <2>4. WorkersOK'
    BY <1>33, StepNames, PipelineAssumption DEF PoolExhausted, Return, Goto, Phases, Returned, WorkersOK, Working, OneWorkerPerTask, QueueOK
  <2>5. CountersOK'
    BY <1>33, PipelineAssumption DEF PoolExhausted, Return, Goto, Phases, Returned, CountersOK
  <2>6. HistoryOK'
    BY <1>33 DEF PoolExhausted, Return, Goto, Phases, Returned, HistoryOK
  <2>7. OneWorkerPerTask'
    BY <1>33, StepNames DEF PoolExhausted, Return, Goto, Phases, Returned, OneWorkerPerTask, Working, WorkersOK, QueueOK
  <2> QED  BY <2>1, <2>2, <2>3, <2>4, <2>5, <2>6, <2>7
<1>34. ASSUME NEW w \in Workers, WorkerCrash(w)
      PROVE  TypeInv'
  <2>1. DatabaseOK'
    BY <1>34 DEF WorkerCrash, Return, Goto, Phases, Forget, DatabaseOK
  <2>2. BusinessOK'
    BY <1>34 DEF WorkerCrash, Return, Goto, Phases, Forget, BusinessOK, DatabaseOK
  <2>3. QueueOK'
    BY <1>34 DEF WorkerCrash, Return, Goto, Phases, Forget, QueueOK, BusinessOK, OneWorkerPerTask, Working, WorkersOK
  <2>4. WorkersOK'
    BY <1>34, StepNames, PipelineAssumption DEF WorkerCrash, Return, Goto, Phases, Forget, WorkersOK, Working, OneWorkerPerTask, QueueOK
  <2>5. CountersOK'
    BY <1>34, PipelineAssumption DEF WorkerCrash, Return, Goto, Phases, Forget, CountersOK
  <2>6. HistoryOK'
    BY <1>34 DEF WorkerCrash, Return, Goto, Phases, Forget, HistoryOK
  <2>7. OneWorkerPerTask'
    BY <1>34, StepNames DEF WorkerCrash, Return, Goto, Phases, Forget, OneWorkerPerTask, Working, WorkersOK, QueueOK
  <2> QED  BY <2>1, <2>2, <2>3, <2>4, <2>5, <2>6, <2>7
<1>35. CASE UNCHANGED vars
  BY <1>35
  DEF vars, DatabaseOK, BusinessOK, QueueOK, WorkersOK, CountersOK, HistoryOK,
      OneWorkerPerTask, Working
<1> QED
  BY <1>1, <1>2, <1>3, <1>4, <1>5, <1>6, <1>7, <1>8, <1>9, <1>10, <1>11, <1>12, <1>13, <1>14, <1>15, <1>16, <1>17, <1>18, <1>19, <1>20, <1>21, <1>22, <1>23, <1>24, <1>25, <1>26, <1>27, <1>28, <1>29, <1>30, <1>31, <1>32, <1>33, <1>34, <1>35
     DEF Next, BusinessStep, Work

LEMMA AlwaysTypeInv == Spec => []TypeInv
BY InitTypeInv, NextTypeInv, PTL DEF Spec

(* The state of the pipeline keeps its types whatever runs, edits, faults  *)
(* and crashes come together.                                              *)
THEOREM TypeCorrect == Spec => []TypeOK
BY AlwaysTypeInv, PTL DEF TypeInv

(* No backtest is ever worked on by two processes (TakeTask).              *)
THEOREM OneWorker == Spec => []OneWorkerPerTask
BY AlwaysTypeInv, PTL DEF TypeInv

-----------------------------------------------------------------------------
(* Serial writers                                                          *)

(* A strategy that was never written by two at once has one writer.        *)
OneWriter ==
  \A s \in Strategies : ~overlap[s] =>
    /\ \A v, w \in Workers : Runs(v, s) /\ Runs(w, s) => v = w
    /\ \A p, q \in Requests : Edits(p, s) /\ Edits(q, s) => p = q
    /\ ~(Running(s) /\ Edited(s))

(* A worker holds the answer of a select only between it and its write.    *)
SeenInSave == \A w \in Workers : seen[w] # "unread" => pc[w] \in Tables

(* "No row found" is still true when the run writes.                       *)
FreshSelect ==
  \A s \in Strategies, w \in Workers :
    ~overlap[s] /\ Runs(w, s) /\ pc[w] \in KeyedTables /\ seen[w] = "other"
      => rows[s][pc[w]] = {}

(* The steps of a run that know its principal.                             *)
Informed == Steps \ {"start", "period", "fail"}

(* The principal a run works with is still the user's when it is written   *)
(* back.                                                                   *)
FreshAmount ==
  \A s \in Strategies, w \in Workers :
    ~overlap[s] /\ Runs(w, s) /\ pc[w] \in Informed
      /\ profit[s].principal # Null
      => amount[w] = profit[s].principal

(* What an edit has read of a strategy still holds when it is written back. *)
FreshSnapshot ==
  \A s \in Strategies, q \in Requests :
    ~overlap[s] /\ request[q].pc = "row" /\ request[q].s = s
      => row[s] = "live" /\ request[q].status = status[s]

SerialInv ==
  /\ TypeInv
  /\ OneWriter
  /\ SeenInSave
  /\ SerialRows
  /\ FreshSelect
  /\ SerialIntent
  /\ FreshAmount
  /\ FreshSnapshot

(* Which steps disturb what: each lemma expands every action once, so that *)
(* the proofs below look at the few that matter.                           *)
LEMMA RowsSteps ==
  [Next]_vars => rows' = rows \/ \E w \in Workers : SaveWrite(w)
BY DEF Next, BusinessStep, Work, vars, database, business, queue, workers,
   history, CreateStrategy, CreateInvestProfitInfo, AddUniversalOnly,
   UpsertTradingStrategy, SoftDelete, RetryAccepted, RetryRaises, UpdateRead,
   PushRequested, UpdateSaveRow, UpdateSaveProfit, UpdateRaises, CheckMyStrategy,
   PostAccepted, PostRefused, RetryScan, BusinessCrash, TakeTask, SetStart,
   GetPeriodInfo, GetPeriodInfoRaises, NoPortInfo, GetPortInfoFromDB,
   GetPortInfoFromDBRaises, Simulate, GetDBDataRaises, SaveSelect, SaveColumn,
   SaveRaises, SaveInvestProfitInfoRaises, SetSuccess, SetError,
   PoolExhausted, WorkerCrash

LEMMA AmountSteps ==
  [Next]_vars => amount' = amount \/ \E w \in Workers : GetPeriodInfo(w)
BY DEF Next, BusinessStep, Work, vars, database, business, queue, workers,
   history, CreateStrategy, CreateInvestProfitInfo, AddUniversalOnly,
   UpsertTradingStrategy, SoftDelete, RetryAccepted, RetryRaises, UpdateRead,
   PushRequested, UpdateSaveRow, UpdateSaveProfit, UpdateRaises, CheckMyStrategy,
   PostAccepted, PostRefused, RetryScan, BusinessCrash, TakeTask, SetStart,
   GetPeriodInfoRaises, NoPortInfo, GetPortInfoFromDB,
   GetPortInfoFromDBRaises, Simulate, GetDBDataRaises, SaveSelect, SaveWrite,
   SaveColumn, SaveRaises, SaveInvestProfitInfoRaises, SetSuccess, SetError,
   PoolExhausted, WorkerCrash

LEMMA ProfitSteps ==
  [Next]_vars =>
    \/ profit' = profit
    \/ \E s \in Strategies : CreateInvestProfitInfo(s)
    \/ \E q \in Requests : UpdateSaveProfit(q)
    \/ \E w \in Workers : SaveColumn(w)
BY DEF Next, BusinessStep, Work, vars, database, business, queue, workers,
   history, CreateStrategy, AddUniversalOnly, UpsertTradingStrategy,
   SoftDelete, RetryAccepted, RetryRaises, UpdateRead, PushRequested,
   UpdateSaveRow, UpdateRaises, CheckMyStrategy, PostAccepted, PostRefused, RetryScan,
   BusinessCrash, TakeTask, SetStart, GetPeriodInfo, GetPeriodInfoRaises,
   NoPortInfo, GetPortInfoFromDB, GetPortInfoFromDBRaises, Simulate,
   GetDBDataRaises, SaveSelect, SaveWrite, SaveRaises,
   SaveInvestProfitInfoRaises, SetSuccess, SetError, PoolExhausted,
   WorkerCrash

LEMMA WantedSteps ==
  [Next]_vars =>
    \/ wanted' = wanted
    \/ \E s \in Strategies : CreateInvestProfitInfo(s) \/ SoftDelete(s)
    \/ \E q \in Requests : UpdateSaveProfit(q)
BY DEF Next, BusinessStep, Work, vars, database, business, queue, workers,
   history, CreateStrategy, AddUniversalOnly, UpsertTradingStrategy,
   RetryAccepted, RetryRaises, UpdateRead, PushRequested, UpdateSaveRow,
   UpdateRaises, CheckMyStrategy, PostAccepted, PostRefused, RetryScan, BusinessCrash,
   TakeTask, SetStart, GetPeriodInfo, GetPeriodInfoRaises, NoPortInfo,
   GetPortInfoFromDB, GetPortInfoFromDBRaises, Simulate, GetDBDataRaises,
   SaveSelect, SaveWrite, SaveColumn, SaveRaises, SaveInvestProfitInfoRaises,
   SetSuccess, SetError, PoolExhausted, WorkerCrash

LEMMA RowSteps ==
  [Next]_vars =>
    \/ row' = row
    \/ \E s \in Strategies : CreateStrategy(s) \/ SoftDelete(s)
    \/ \E q \in Requests : UpdateSaveRow(q)
BY DEF Next, BusinessStep, Work, vars, database, business, queue, workers,
   history, CreateInvestProfitInfo, AddUniversalOnly, UpsertTradingStrategy,
   RetryAccepted, RetryRaises, UpdateRead, PushRequested, UpdateSaveProfit,
   UpdateRaises, CheckMyStrategy, PostAccepted, PostRefused, RetryScan, BusinessCrash,
   TakeTask, SetStart, GetPeriodInfo, GetPeriodInfoRaises, NoPortInfo,
   GetPortInfoFromDB, GetPortInfoFromDBRaises, Simulate, GetDBDataRaises,
   SaveSelect, SaveWrite, SaveColumn, SaveRaises, SaveInvestProfitInfoRaises,
   SetSuccess, SetError, PoolExhausted, WorkerCrash

(* The status is written by runs, and by updates.                          *)
LEMMA StatusSteps ==
  ASSUME TypeInv, [Next]_vars, NEW s \in Strategies, status'[s] # status[s]
  PROVE  Running(s) \/ \E q \in Requests : UpdateSaveRow(q) /\ request[q].s = s
<1>1. \/ status' = status
      \/ \E w \in Workers : SetStart(w) \/ GetDBDataRaises(w) \/ SaveRaises(w)
                            \/ SetSuccess(w) \/ SetError(w)
      \/ \E q \in Requests : UpdateSaveRow(q)
  BY DEF Next, BusinessStep, Work, vars, database, business, queue, workers,
     history, CreateStrategy, CreateInvestProfitInfo, AddUniversalOnly,
     UpsertTradingStrategy, SoftDelete, RetryAccepted, RetryRaises,
     UpdateRead, PushRequested, UpdateSaveProfit, UpdateRaises, CheckMyStrategy,
     PostAccepted, PostRefused, RetryScan, BusinessCrash, TakeTask,
     GetPeriodInfo, GetPeriodInfoRaises, NoPortInfo, GetPortInfoFromDB,
     GetPortInfoFromDBRaises, Simulate, SaveSelect, SaveWrite, SaveColumn,
     SaveInvestProfitInfoRaises, PoolExhausted, WorkerCrash
<1>2. ASSUME NEW w \in Workers,
             SetStart(w) \/ GetDBDataRaises(w) \/ SaveRaises(w)
               \/ SetSuccess(w) \/ SetError(w)
      PROVE  Running(s)
  <2>1. pc[w] # "idle"
    BY <1>2, StepNames DEF SetStart, GetDBDataRaises, SaveRaises, SetSuccess, SetError
  <2>2. \/ status' = status
        \/ \E code \in Statuses : status' = [status EXCEPT ![about[job[w]]] = code]
    BY <1>2 DEF SetStart, GetDBDataRaises, SaveRaises, SetSuccess, SetError,
                SetStatus, Statuses
  <2>3. about[job[w]] = s
    BY <2>2 DEF TypeInv, TypeOK, DatabaseOK
  <2> QED  BY <2>1, <2>3 DEF Running, Runs, Working
<1>3. ASSUME NEW q \in Requests, UpdateSaveRow(q)
      PROVE  request[q].s = s
  BY <1>3 DEF UpdateSaveRow, TypeInv, TypeOK, DatabaseOK
<1> QED  BY <1>1, <1>2, <1>3

(* The steps in which a writer of a strategy comes in notice an overlap.   *)
LEMMA OverlapSteps ==
  [Next]_vars =>
    \/ overlap' = overlap
    \/ \E s \in Strategies : \/ CreateInvestProfitInfo(s) \/ SoftDelete(s)
                             \/ \E q \in Requests : UpdateRead(q, s)
    \/ \E w \in Workers, t \in Tasks : TakeTask(w, t)
BY DEF Next, BusinessStep, Work, vars, database, business, queue, workers,
   history, CreateStrategy, AddUniversalOnly, UpsertTradingStrategy,
   RetryAccepted, RetryRaises, PushRequested, UpdateSaveRow, UpdateSaveProfit,
   UpdateRaises, CheckMyStrategy, PostAccepted, PostRefused, RetryScan, BusinessCrash,
   SetStart, GetPeriodInfo, GetPeriodInfoRaises, NoPortInfo,
   GetPortInfoFromDB, GetPortInfoFromDBRaises, Simulate, GetDBDataRaises,
   SaveSelect, SaveWrite, SaveColumn, SaveRaises, SaveInvestProfitInfoRaises,
   SetSuccess, SetError, PoolExhausted, WorkerCrash

(* An overlap is remembered.                                               *)
LEMMA OverlapGrows ==
  ASSUME TypeInv, [Next]_vars, NEW s \in Strategies, ~overlap'[s]
  PROVE  ~overlap[s]
<1>1. \/ overlap' = overlap
      \/ \E z \in Strategies, clash \in BOOLEAN :
           overlap' = [overlap EXCEPT ![z] = @ \/ clash]
  <2>1. ASSUME NEW w \in Workers, NEW t \in Tasks, TakeTask(w, t)
        PROVE  about[t] \in Strategies
    BY <2>1 DEF TakeTask, TypeInv, TypeOK, QueueOK
  <2>2. \A z \in Strategies : /\ Busy(z) \in BOOLEAN /\ Running(z) \in BOOLEAN
                             /\ Edited(z) \in BOOLEAN
    BY DEF Busy, Running, Edited
  <2> QED  BY OverlapSteps, <2>1, <2>2
           DEF CreateInvestProfitInfo, SoftDelete, UpdateRead, TakeTask, Note
<1> QED  BY <1>1 DEF TypeInv, TypeOK, HistoryOK

(* A worker's step is about no other worker.                               *)
LEMMA WorkerSteps ==
  TypeInv /\ [Next]_vars =>
    \/ UNCHANGED <<job, pc, amount, seen>>
    \/ \E w \in Workers :
         /\ Work(w) \/ WorkerCrash(w) \/ \E t \in Tasks : TakeTask(w, t)
         /\ \A v \in Workers \ {w} :
              /\ job'[v] = job[v] /\ pc'[v] = pc[v]
              /\ amount'[v] = amount[v] /\ seen'[v] = seen[v]
<1> SUFFICES ASSUME TypeInv, [Next]_vars, ~ UNCHANGED <<job, pc, amount, seen>>
             PROVE  \E w \in Workers :
                      /\ \/ Work(w) \/ WorkerCrash(w)
                         \/ \E t \in Tasks : TakeTask(w, t)
                      /\ \A v \in Workers \ {w} :
                           /\ job'[v] = job[v] /\ pc'[v] = pc[v]
                           /\ amount'[v] = amount[v] /\ seen'[v] = seen[v]
  OBVIOUS
<1>1. PICK w \in Workers :
        Work(w) \/ WorkerCrash(w) \/ \E t \in Tasks : TakeTask(w, t)
  BY DEF Next, BusinessStep, Work, vars, database, business, queue, workers,
     history, CreateStrategy, CreateInvestProfitInfo, AddUniversalOnly,
     UpsertTradingStrategy, SoftDelete, RetryAccepted, RetryRaises,
     UpdateRead, PushRequested, UpdateSaveRow, UpdateSaveProfit,
     UpdateRaises, CheckMyStrategy, PostAccepted, PostRefused, RetryScan, BusinessCrash
<1>2. \A v \in Workers \ {w} :
        /\ job'[v] = job[v] /\ pc'[v] = pc[v]
        /\ amount'[v] = amount[v] /\ seen'[v] = seen[v]
  BY <1>1 DEF Next, BusinessStep, Work, vars, database, business, queue,
     workers, history, TakeTask, SetStart, GetPeriodInfo, GetPeriodInfoRaises,
     NoPortInfo, GetPortInfoFromDB, GetPortInfoFromDBRaises, Simulate,
     GetDBDataRaises, SaveSelect, SaveWrite, SaveColumn, SaveRaises,
     SaveInvestProfitInfoRaises, SetSuccess, SetError, PoolExhausted,
     WorkerCrash, Return, Goto, Forget, TypeInv, TypeOK, WorkersOK
<1> QED  BY <1>1, <1>2

(* A task that a worker has keeps its strategy.                            *)
LEMMA AboutSteps ==
  ASSUME [Next]_vars, TypeInv, NEW t \in Tasks, phase[t] # "unused"
  PROVE  about'[t] = about[t]
BY DEF Next, BusinessStep, Work, vars, database, business, queue, workers,
   history, CreateStrategy, CreateInvestProfitInfo, AddUniversalOnly,
   UpsertTradingStrategy, SoftDelete, RetryAccepted, RetryRaises, UpdateRead,
   PushRequested, UpdateSaveRow, UpdateSaveProfit, UpdateRaises, CheckMyStrategy,
   PostAccepted, PostRefused, RetryScan, BusinessCrash, TakeTask, SetStart,
   GetPeriodInfo, GetPeriodInfoRaises, NoPortInfo, GetPortInfoFromDB,
   GetPortInfoFromDBRaises, Simulate, GetDBDataRaises, SaveSelect, SaveWrite,
   SaveColumn, SaveRaises, SaveInvestProfitInfoRaises, SetSuccess, SetError,
   PoolExhausted, WorkerCrash, TypeInv, TypeOK, QueueOK, Enqueue

(* A run of s in the next state is one in this state, or begins.           *)
LEMMA RunsSteps ==
  ASSUME TypeInv, [Next]_vars, NEW w \in Workers, NEW s \in Strategies,
         Runs(w, s)'
  PROVE  \/ Runs(w, s) /\ job'[w] = job[w]
         \/ \E t \in Tasks : TakeTask(w, t) /\ about[t] = s
<1>1. pc'[w] # "idle" /\ about'[job'[w]] = s
  BY DEF Runs, Working
<1>2. CASE job'[w] = job[w] /\ pc[w] # "idle"
  BY <1>1, <1>2, WorkersStrategy, AboutSteps, "unused" # "running"
     DEF Runs, Working
<1>3. ASSUME NEW t \in Tasks, TakeTask(w, t)
      PROVE  about[t] = s
  <2>1. job'[w] = t /\ about' = about
    BY <1>3 DEF TakeTask, TypeInv, TypeOK, WorkersOK
  <2> QED  BY <1>1, <2>1
<1>4. ASSUME Work(w) \/ WorkerCrash(w)
      PROVE  job'[w] = job[w] /\ pc[w] # "idle"
  BY <1>1, <1>4, StepNames DEF SetStart, GetPeriodInfo, GetPeriodInfoRaises,
     NoPortInfo, GetPortInfoFromDB, GetPortInfoFromDBRaises, Simulate,
     GetDBDataRaises, SaveSelect, SaveWrite, SaveColumn, SaveRaises,
     SaveInvestProfitInfoRaises, SetSuccess, SetError, PoolExhausted,
     WorkerCrash, Work, Return, Goto, Working, TypeInv, TypeOK, WorkersOK
<1>5. CASE UNCHANGED <<job, pc, amount, seen>>
  BY <1>1, <1>2, <1>5
<1> QED  BY <1>1, <1>2, <1>3, <1>4, <1>5, WorkerSteps

(* An edit of s in the next state is one in this state, or begins.         *)
LEMMA EditsSteps ==
  ASSUME TypeInv, [Next]_vars, NEW q \in Requests, NEW s \in Strategies,
         Edits(q, s)'
  PROVE  Edits(q, s) \/ UpdateRead(q, s)
<1>1. \/ request' = request
      \/ BusinessCrash
      \/ \E p \in Requests, z \in Strategies : UpdateRead(p, z) \/ PushRequested(p, z)
      \/ \E p \in Requests : \/ UpdateSaveRow(p) \/ UpdateSaveProfit(p)
                              \/ UpdateRaises(p) \/ CheckMyStrategy(p) \/ PostAccepted(p)
                              \/ PostRefused(p)
  BY DEF Next, BusinessStep, Work, vars, database, business, queue, workers,
     history, CreateStrategy, CreateInvestProfitInfo, AddUniversalOnly,
     UpsertTradingStrategy, SoftDelete, RetryAccepted, RetryRaises, RetryScan,
     TakeTask, SetStart, GetPeriodInfo, GetPeriodInfoRaises, NoPortInfo,
     GetPortInfoFromDB, GetPortInfoFromDBRaises, Simulate, GetDBDataRaises,
     SaveSelect, SaveWrite, SaveColumn, SaveRaises,
     SaveInvestProfitInfoRaises, SetSuccess, SetError, PoolExhausted,
     WorkerCrash
<1>2. ASSUME NEW p \in Requests, NEW z \in Strategies, UpdateRead(p, z)
      PROVE  Edits(q, s) \/ UpdateRead(q, s)
  <2>1. CASE p # q
    <3>1. request'[q] = request[q]
      BY <1>2, <2>1 DEF UpdateRead, TypeInv, TypeOK, BusinessOK
    <3> QED  BY <3>1 DEF Edits
  <2>2. CASE p = q
    <3>1. request'[q].s = z
      BY <1>2, <2>2 DEF UpdateRead, TypeInv, TypeOK, BusinessOK
    <3> QED  BY <1>2, <2>2, <3>1 DEF Edits
  <2> QED  BY <2>1, <2>2
<1>3. CASE request' = request
  BY <1>3 DEF Edits
<1>4. CASE BusinessCrash
  BY <1>4 DEF BusinessCrash, Edits, IdleRequest
<1>5. ASSUME NEW p \in Requests, NEW z \in Strategies, PushRequested(p, z)
      PROVE  Edits(q, s)
  BY <1>5 DEF PushRequested, IdleRequest, Edits, TypeInv, TypeOK, BusinessOK
<1>6. ASSUME NEW p \in Requests,
             \/ UpdateSaveRow(p) \/ UpdateSaveProfit(p) \/ UpdateRaises(p)
             \/ CheckMyStrategy(p)
             \/ PostAccepted(p) \/ PostRefused(p)
      PROVE  Edits(q, s)
  <2>1. CASE UpdateRaises(p) \/ CheckMyStrategy(p) \/ PostAccepted(p) \/ PostRefused(p)
    <3>1. p # q => request'[q] = request[q]
      BY <2>1 DEF UpdateRaises, CheckMyStrategy, PostAccepted, PostRefused, TypeInv, TypeOK,
                  BusinessOK
    <3>2. p = q => request'[q].pc \in {"idle", "post"}
      <4>1. IdleRequest.pc = "idle"
            /\ \A z : [IdleRequest EXCEPT !.pc = "post", !.s = z].pc = "post"
        BY DEF IdleRequest
      <4>2. CASE CheckMyStrategy(p)
        BY <4>1, <4>2 DEF CheckMyStrategy, TypeInv, TypeOK, BusinessOK
      <4>3. CASE PostAccepted(p) \/ PostRefused(p)
        BY <4>1, <4>3 DEF PostAccepted, PostRefused, TypeInv, TypeOK, BusinessOK
      <4>4. CASE UpdateRaises(p)
        BY <4>1, <4>4 DEF UpdateRaises, TypeInv, TypeOK, BusinessOK
      <4> QED  BY <2>1, <4>2, <4>3, <4>4
    <3> QED  BY <3>1, <3>2 DEF Edits
  <2>2. CASE UpdateSaveRow(p) \/ UpdateSaveProfit(p)
    <3>1. PICK x : request' = [request EXCEPT ![p].pc = x]
      BY <2>2 DEF UpdateSaveRow, UpdateSaveProfit
    <3>2. request[p].pc \in {"row", "profit"}
      BY <2>2 DEF UpdateSaveRow, UpdateSaveProfit
    <3>3. CASE p # q
      BY <3>1, <3>3 DEF Edits, TypeInv, TypeOK, BusinessOK
    <3>4. CASE p = q
      <4>1. request'[q].s = request[q].s
        BY <3>1, <3>4 DEF TypeInv, TypeOK, BusinessOK
      <4> QED  BY <3>2, <3>4, <4>1 DEF Edits
    <3> QED  BY <3>3, <3>4
  <2> QED  BY <1>6, <2>1, <2>2
<1> QED  BY <1>1, <1>2, <1>3, <1>4, <1>5, <1>6

(* An edit that has read a strategy keeps what it has read.                *)
LEMMA RowRequestStep ==
  ASSUME TypeInv, [Next]_vars, NEW q \in Requests, request'[q].pc = "row"
  PROVE  request'[q] = request[q] \/ \E z \in Strategies : UpdateRead(q, z)
<1>1. \/ request' = request
      \/ BusinessCrash
      \/ \E p \in Requests, z \in Strategies : UpdateRead(p, z) \/ PushRequested(p, z)
      \/ \E p \in Requests : \/ UpdateSaveRow(p) \/ UpdateSaveProfit(p)
                              \/ UpdateRaises(p) \/ CheckMyStrategy(p) \/ PostAccepted(p)
                              \/ PostRefused(p)
  BY DEF Next, BusinessStep, Work, vars, database, business, queue, workers,
     history, CreateStrategy, CreateInvestProfitInfo, AddUniversalOnly,
     UpsertTradingStrategy, SoftDelete, RetryAccepted, RetryRaises, RetryScan,
     TakeTask, SetStart, GetPeriodInfo, GetPeriodInfoRaises, NoPortInfo,
     GetPortInfoFromDB, GetPortInfoFromDBRaises, Simulate, GetDBDataRaises,
     SaveSelect, SaveWrite, SaveColumn, SaveRaises,
     SaveInvestProfitInfoRaises, SetSuccess, SetError, PoolExhausted,
     WorkerCrash
<1>2. ASSUME NEW p \in Requests, p # q,
             \/ \E z \in Strategies : UpdateRead(p, z) \/ PushRequested(p, z)
             \/ UpdateSaveRow(p) \/ UpdateSaveProfit(p) \/ UpdateRaises(p)
             \/ CheckMyStrategy(p)
             \/ PostAccepted(p) \/ PostRefused(p)
      PROVE  request'[q] = request[q]
  BY <1>2 DEF UpdateRead, PushRequested, UpdateSaveRow, UpdateSaveProfit,
              UpdateRaises, CheckMyStrategy, PostAccepted, PostRefused, TypeInv, TypeOK,
              BusinessOK
<1>3. CASE BusinessCrash
  BY <1>3 DEF BusinessCrash, IdleRequest
<1>4. IdleRequest.pc = "idle"
      /\ \A z, p : [IdleRequest EXCEPT !.pc = p, !.s = z].pc = p
  BY DEF IdleRequest
<1>5. ASSUME NEW z \in Strategies, PushRequested(q, z)
      PROVE  FALSE
  BY <1>4, <1>5 DEF PushRequested, TypeInv, TypeOK, BusinessOK
<1>6. CASE UpdateSaveRow(q) \/ UpdateSaveProfit(q)
  BY <1>6 DEF UpdateSaveRow, UpdateSaveProfit, TypeInv, TypeOK, BusinessOK
<1>7. CASE CheckMyStrategy(q)
  BY <1>4, <1>7 DEF CheckMyStrategy, TypeInv, TypeOK, BusinessOK
<1>8. CASE UpdateRaises(q) \/ PostAccepted(q) \/ PostRefused(q)
  BY <1>4, <1>8 DEF UpdateRaises, PostAccepted, PostRefused, TypeInv, TypeOK, BusinessOK
<1> QED  BY <1>1, <1>2, <1>3, <1>5, <1>6, <1>7, <1>8

(* A strategy gets a second writer only with an overlap.                   *)
LEMMA OneWriterStep ==
  ASSUME SerialInv, [Next]_vars
  PROVE  OneWriter'
<1> SUFFICES ASSUME NEW s \in Strategies, ~overlap'[s]
             PROVE  /\ \A v, w \in Workers : Runs(v, s)' /\ Runs(w, s)' => v = w
                    /\ \A p, q \in Requests : Edits(p, s)' /\ Edits(q, s)' => p = q
                    /\ ~ \E w \in Workers, q \in Requests :
                           Runs(w, s)' /\ Edits(q, s)'
  BY DEF OneWriter, Running, Edited
<1>1. TypeInv /\ ~overlap[s]
  BY OverlapGrows DEF SerialInv
<1>2. /\ \A v, w \in Workers : Runs(v, s) /\ Runs(w, s) => v = w
      /\ \A p, q \in Requests : Edits(p, s) /\ Edits(q, s) => p = q
      /\ ~ \E w \in Workers, q \in Requests : Runs(w, s) /\ Edits(q, s)
  BY <1>1 DEF SerialInv, OneWriter, Running, Edited
<1>3. ASSUME NEW w \in Workers, NEW t \in Tasks, TakeTask(w, t), about[t] = s
      PROVE  /\ \A v \in Workers : ~Runs(v, s)
             /\ \A q \in Requests : ~Edits(q, s) /\ ~Edits(q, s)'
             /\ \A v \in Workers : Runs(v, s)' => v = w
  <2>1. ~Busy(s)
    BY <1>1, <1>3 DEF TakeTask, Note, TypeInv, TypeOK, HistoryOK
  <2>2. \A v \in Workers : ~Runs(v, s)
    BY <2>1 DEF Busy, Running
  <2>3. \A q \in Requests : ~Edits(q, s) /\ ~Edits(q, s)'
    BY <2>1, <1>3 DEF Busy, Edited, Edits, TakeTask, business
  <2>4. ASSUME NEW v \in Workers, Runs(v, s)', v # w
        PROVE  FALSE
    <3>1. job'[v] = job[v] /\ pc'[v] = pc[v] /\ about' = about
      BY <1>1, <1>3, <2>4 DEF TakeTask, Goto, TypeInv, TypeOK, WorkersOK
    <3> QED  BY <3>1, <2>2, <2>4 DEF Runs, Working
  <2> QED  BY <2>2, <2>3, <2>4
<1>4. ASSUME NEW q \in Requests, UpdateRead(q, s)
      PROVE  /\ \A p \in Requests : ~Edits(p, s)
             /\ \A w \in Workers : ~Runs(w, s) /\ ~Runs(w, s)'
             /\ \A p \in Requests : Edits(p, s)' => p = q
  <2>1. ~Busy(s)
    BY <1>1, <1>4 DEF UpdateRead, Note, TypeInv, TypeOK, HistoryOK
  <2>2. \A p \in Requests : ~Edits(p, s)
    BY <2>1 DEF Busy, Edited
  <2>3. \A w \in Workers : ~Runs(w, s) /\ ~Runs(w, s)'
    BY <2>1, <1>4 DEF Busy, Running, Runs, Working, UpdateRead, queue, workers
  <2>4. ASSUME NEW p \in Requests, Edits(p, s)', p # q
        PROVE  FALSE
    <3>1. request'[p] = request[p]
      BY <1>1, <1>4, <2>4 DEF UpdateRead, TypeInv, TypeOK, BusinessOK
    <3> QED  BY <3>1, <2>2, <2>4 DEF Edits
  <2> QED  BY <2>2, <2>3, <2>4
<1>5. CASE \E w \in Workers, t \in Tasks : TakeTask(w, t) /\ about[t] = s
  BY <1>3, <1>5
<1>6. CASE \E q \in Requests : UpdateRead(q, s)
  BY <1>4, <1>6
<1>7. CASE /\ ~ \E w \in Workers, t \in Tasks : TakeTask(w, t) /\ about[t] = s
           /\ ~ \E q \in Requests : UpdateRead(q, s)
  <2>1. \A w \in Workers : Runs(w, s)' => Runs(w, s)
    BY <1>1, <1>7, RunsSteps
  <2>2. \A q \in Requests : Edits(q, s)' => Edits(q, s)
    BY <1>1, <1>7, EditsSteps
  <2> QED  BY <1>2, <2>1, <2>2
<1> QED  BY <1>5, <1>6, <1>7


(* The steps outside the saves.                                            *)
LEMMA SaveNames ==
  /\ KeyedTables \subseteq Tables
  /\ \A p \in Columns \union {"idle", "start", "period", "universe", "simulate",
                              "finish", "fail"} : p \notin Tables
  /\ "daily" \notin KeyedTables
BY DEF Columns, Tables, KeyedTables, UniqueTables, ChartTables

(* The answer of a select is forgotten by whatever follows it.             *)
LEMMA SeenStep ==
  ASSUME SerialInv, [Next]_vars, NEW w \in Workers, seen'[w] # "unread"
  PROVE  /\ pc'[w] \in Tables
         /\ \/ SaveSelect(w)
            \/ pc'[w] = pc[w] /\ seen'[w] = seen[w] /\ job'[w] = job[w]
<1>1. TypeInv /\ (seen[w] # "unread" => pc[w] \in Tables)
  BY DEF SerialInv, SeenInSave
<1>2. CASE UNCHANGED <<job, pc, amount, seen>>
  BY <1>1, <1>2
<1>3. CASE Work(w) \/ WorkerCrash(w) \/ \E t \in Tasks : TakeTask(w, t)
  <2>1. CASE SaveSelect(w)
    BY <2>1 DEF SaveSelect
  <2>2. CASE SaveWrite(w) \/ SaveRaises(w) \/ WorkerCrash(w)
    BY <1>1, <2>2 DEF SaveWrite, SaveRaises, WorkerCrash, Forget, TypeInv, TypeOK,
                      WorkersOK
  <2>3. CASE \/ SetStart(w) \/ GetPeriodInfo(w) \/ GetPeriodInfoRaises(w)
             \/ NoPortInfo(w) \/ GetPortInfoFromDB(w)
             \/ GetPortInfoFromDBRaises(w) \/ Simulate(w) \/ GetDBDataRaises(w)
             \/ SaveColumn(w) \/ SaveInvestProfitInfoRaises(w)
             \/ SetSuccess(w) \/ SetError(w) \/ PoolExhausted(w)
             \/ \E t \in Tasks : TakeTask(w, t)
    <3>1. seen' = seen
      BY <2>3
         DEF SetStart, GetPeriodInfo, GetPeriodInfoRaises, NoPortInfo,
             GetPortInfoFromDB, GetPortInfoFromDBRaises, Simulate,
             GetDBDataRaises, SaveColumn, SaveInvestProfitInfoRaises,
             SetSuccess, SetError, PoolExhausted, TakeTask, workers
    <3>2. pc[w] \notin Tables \/ seen[w] = "unread"
      BY <2>3, SaveNames
         DEF SetStart, GetPeriodInfo, GetPeriodInfoRaises, NoPortInfo,
             GetPortInfoFromDB, GetPortInfoFromDBRaises, Simulate,
             GetDBDataRaises, SaveColumn, SaveInvestProfitInfoRaises,
             SetSuccess, SetError, PoolExhausted, TakeTask, Working, Columns
    <3> QED  BY <1>1, <3>1, <3>2
  <2> QED  BY <1>3, <2>1, <2>2, <2>3 DEF Work
<1>4. ASSUME NEW v \in Workers \ {w},
             \A u \in Workers \ {v} :
               job'[u] = job[u] /\ pc'[u] = pc[u] /\ seen'[u] = seen[u]
      PROVE  pc'[w] = pc[w] /\ seen'[w] = seen[w] /\ job'[w] = job[w]
  BY <1>4
<1> QED  BY <1>1, <1>2, <1>3, <1>4, WorkerSteps

LEMMA SeenInSaveStep ==
  ASSUME SerialInv, [Next]_vars
  PROVE  SeenInSave'
BY SeenStep DEF SeenInSave

(* A save inserts only where there is no row.                              *)
LEMMA SerialRowsStep ==
  ASSUME SerialInv, [Next]_vars
  PROVE  SerialRows'
<1> SUFFICES ASSUME NEW s \in Strategies, ~overlap'[s], NEW t \in KeyedTables
             PROVE  \A r1, r2 \in rows'[s][t] : r1 = r2
  BY DEF SerialRows
<1>1. TypeInv /\ ~overlap[s] /\ t \in Tables
  BY OverlapGrows, SaveNames DEF SerialInv
<1>2. \A r1, r2 \in rows[s][t] : r1 = r2
  BY <1>1 DEF SerialInv, SerialRows
<1>3. CASE rows' = rows
  BY <1>2, <1>3
<1>4. ASSUME NEW w \in Workers, SaveWrite(w)
      PROVE  \A r1, r2 \in rows'[s][t] : r1 = r2
  <2> DEFINE old == rows[about[job[w]]][pc[w]]
             new == IF seen[w] = "one"
                    THEN {[by |-> r.by, amount |-> amount[w]] : r \in old}
                    ELSE old \union {[by |-> job[w], amount |-> amount[w]]}
  <2>1. /\ pc[w] \in Tables /\ seen[w] # "unread"
        /\ rows' = [rows EXCEPT ![about[job[w]]][pc[w]] = new]
    BY <1>4 DEF SaveWrite
  <2>2. pc[w] # "idle" /\ about[job[w]] \in Strategies
    BY <1>1, <2>1, SaveNames, WorkersStrategy
  <2> HIDE DEF new
  <2>3. CASE about[job[w]] = s /\ pc[w] = t
    <3>1. rows'[s][t] = new
      BY <1>1, <2>1, <2>3 DEF TypeInv, TypeOK, DatabaseOK
    <3>2. CASE seen[w] = "one"
      BY <1>2, <2>3, <3>1, <3>2 DEF new
    <3>3. CASE seen[w] = "other"
      <4>1. old = {}
        BY <1>1, <2>2, <2>3, <3>3 DEF SerialInv, FreshSelect, Runs, Working
      <4> QED  BY <3>1, <3>3, <4>1 DEF new
    <3> QED  BY <1>1, <2>1, <3>2, <3>3 DEF TypeInv, TypeOK, WorkersOK
  <2>4. CASE ~(about[job[w]] = s /\ pc[w] = t)
    <3>1. rows'[s][t] = rows[s][t]
      BY <1>1, <2>1, <2>4 DEF TypeInv, TypeOK, DatabaseOK
    <3> QED  BY <1>2, <3>1
  <2> QED  BY <2>3, <2>4
<1> QED  BY <1>3, <1>4, RowsSteps

(* Nobody else inserts between a run's select and its write.               *)
LEMMA FreshSelectStep ==
  ASSUME SerialInv, [Next]_vars
  PROVE  FreshSelect'
<1> SUFFICES ASSUME NEW s \in Strategies, NEW w \in Workers, ~overlap'[s],
                    Runs(w, s)', pc'[w] \in KeyedTables, seen'[w] = "other"
             PROVE  rows'[s][pc'[w]] = {}
  BY DEF FreshSelect
<1>1. TypeInv /\ ~overlap[s]
  BY OverlapGrows DEF SerialInv
<1>2. CASE SaveSelect(w)
  <2>1. /\ rows' = rows /\ pc' = pc /\ job' = job /\ about' = about
        /\ pc[w] # "daily"
    BY <1>2, SaveNames DEF SaveSelect, database, queue
  <2>2. seen' = [seen EXCEPT ![w] =
                   IF pc[w] # "daily" /\ \E r \in rows[about[job[w]]][pc[w]] :
                                            rows[about[job[w]]][pc[w]] = {r}
                   THEN "one" ELSE "other"]
    BY <1>2 DEF SaveSelect
  <2>3. about[job[w]] = s
    BY <2>1 DEF Runs
  <2>4. ~ \E r \in rows[s][pc[w]] : rows[s][pc[w]] = {r}
    BY <1>1, <2>1, <2>2, <2>3 DEF TypeInv, TypeOK, WorkersOK
  <2>5. \A r1, r2 \in rows[s][pc[w]] : r1 = r2
    BY <1>1, <2>1 DEF SerialInv, SerialRows
  <2> QED  BY <2>1, <2>4, <2>5
<1>3. CASE pc'[w] = pc[w] /\ seen'[w] = seen[w] /\ job'[w] = job[w]
  <2>1. Runs(w, s)
    <3>1. pc[w] # "idle"
      BY <1>3 DEF Runs, Working
    <3>2. about'[job[w]] = about[job[w]]
      BY <1>1, <3>1, WorkersStrategy, AboutSteps, "running" # "unused"
    <3> QED  BY <1>3, <3>1, <3>2 DEF Runs, Working
  <2>2. rows[s][pc[w]] = {}
    BY <1>1, <1>3, <2>1 DEF SerialInv, FreshSelect
  <2>3. CASE rows' = rows
    BY <1>3, <2>2, <2>3
  <2>4. ASSUME NEW v \in Workers, SaveWrite(v)
        PROVE  rows'[s][pc'[w]] = {}
    <3>1. v # w
      BY <1>1, <2>4 DEF SaveWrite, Forget, TypeInv, TypeOK, WorkersOK
    <3>2. pc[v] # "idle"
      BY <2>4, SaveNames DEF SaveWrite
    <3>3. about[job[v]] # s
      BY <1>1, <2>1, <3>1, <3>2 DEF SerialInv, OneWriter, Runs, Working
    <3>4. rows'[s] = rows[s]
      BY <1>1, <2>4, <3>3 DEF SaveWrite, TypeInv, TypeOK, DatabaseOK
    <3> QED  BY <1>3, <2>2, <3>4
  <2> QED  BY <2>3, <2>4, RowsSteps
<1> QED  BY <1>2, <1>3, SeenStep


(* A run learns its principal in getPeriodInfo and keeps it.               *)
LEMMA InformedStep ==
  ASSUME TypeInv, [Next]_vars, NEW w \in Workers, pc'[w] \in Informed
  PROVE  \/ GetPeriodInfo(w)
         \/ pc[w] \in Informed /\ amount'[w] = amount[w] /\ job'[w] = job[w]
<1>1. CASE UNCHANGED <<job, pc, amount, seen>>
  BY <1>1
<1>2. CASE WorkerCrash(w) \/ \E t \in Tasks : TakeTask(w, t)
  BY <1>2, StepNames DEF WorkerCrash, TakeTask, Return, Goto, Informed, TypeInv,
                         TypeOK, WorkersOK
<1>3. CASE Work(w)
  <2>1. CASE \/ SetStart(w) \/ GetPeriodInfoRaises(w) \/ NoPortInfo(w)
             \/ SetSuccess(w) \/ SetError(w) \/ PoolExhausted(w)
    BY <2>1, StepNames
       DEF SetStart, GetPeriodInfoRaises, NoPortInfo, SetSuccess, SetError,
           PoolExhausted, Return, Goto, Informed, TypeInv, TypeOK, WorkersOK
  <2>2. CASE \/ GetPortInfoFromDB(w) \/ GetPortInfoFromDBRaises(w) \/ Simulate(w)
             \/ GetDBDataRaises(w) \/ SaveSelect(w) \/ SaveWrite(w) \/ SaveColumn(w)
             \/ SaveRaises(w) \/ SaveInvestProfitInfoRaises(w)
    <3>1. amount' = amount /\ job' = job
      BY <2>2 DEF GetPortInfoFromDB, GetPortInfoFromDBRaises, Simulate,
                  GetDBDataRaises, SaveSelect, SaveWrite, SaveColumn, SaveRaises,
                  SaveInvestProfitInfoRaises, queue
    <3>2. pc[w] \in {"universe", "simulate"} \union Tables \union Columns
      BY <2>2 DEF GetPortInfoFromDB, GetPortInfoFromDBRaises, Simulate,
                  GetDBDataRaises, SaveSelect, SaveWrite, SaveColumn, SaveRaises,
                  SaveInvestProfitInfoRaises, Columns
    <3>3. pc[w] \in Informed
      BY <3>2, StepNames, SaveNames DEF Informed, Columns
    <3> QED  BY <3>1, <3>3
  <2> QED  BY <1>3, <2>1, <2>2 DEF Work
<1>4. ASSUME NEW v \in Workers \ {w},
             \A u \in Workers \ {v} :
               job'[u] = job[u] /\ pc'[u] = pc[u] /\ amount'[u] = amount[u]
      PROVE  pc[w] \in Informed /\ amount'[w] = amount[w] /\ job'[w] = job[w]
  BY <1>4
<1> QED  BY <1>1, <1>2, <1>3, <1>4, WorkerSteps

(* What each step that writes invest_profit_info does to a principal.      *)
LEMMA PrincipalStep ==
  ASSUME SerialInv, [Next]_vars, NEW s \in Strategies
  PROVE  \/ profit'[s].principal = profit[s].principal
         \/ CreateInvestProfitInfo(s)
         \/ \E q \in Requests : UpdateSaveProfit(q) /\ request[q].s = s
         \/ \E w \in Workers :
              /\ SaveColumn(w) /\ about[job[w]] = s /\ pc[w] = "profit"
              /\ profit[s].principal # Null
              /\ profit'[s].principal = amount[w]
<1>1. profit \in [Strategies -> [principal : Amounts \union {Null},
                                 price : Amounts \union {Null}]]
  BY DEF SerialInv, TypeInv, TypeOK, DatabaseOK
<1>2. ASSUME NEW z \in Strategies, z # s, CreateInvestProfitInfo(z)
      PROVE  profit'[s] = profit[s]
  BY <1>1, <1>2 DEF CreateInvestProfitInfo
<1>3. ASSUME NEW q \in Requests, UpdateSaveProfit(q), request[q].s # s
      PROVE  profit'[s] = profit[s]
  BY <1>1, <1>3 DEF UpdateSaveProfit
<1>4. ASSUME NEW w \in Workers, SaveColumn(w), profit'[s].principal # profit[s].principal
      PROVE  /\ about[job[w]] = s /\ pc[w] = "profit"
             /\ profit[s].principal # Null
             /\ profit'[s].principal = amount[w]
  <2>1. profit' = IF pc[w] = "profit" /\ profit[about[job[w]]].principal # Null
                  THEN [profit EXCEPT ![about[job[w]]] =
                          [principal |-> amount[w], price |-> amount[w]]]
                  ELSE profit
    BY <1>4 DEF SaveColumn
  <2> QED  BY <1>1, <1>4, <2>1
<1> QED  BY <1>2, <1>3, <1>4, ProfitSteps

(* While a run works nobody else changes the principal it works with.      *)
LEMMA FreshAmountStep ==
  ASSUME SerialInv, [Next]_vars
  PROVE  FreshAmount'
<1> SUFFICES ASSUME NEW s \in Strategies, NEW w \in Workers, ~overlap'[s],
                    Runs(w, s)', pc'[w] \in Informed,
                    profit'[s].principal # Null
             PROVE  amount'[w] = profit'[s].principal
  BY DEF FreshAmount
<1>1. TypeInv /\ ~overlap[s]
  BY OverlapGrows DEF SerialInv
<1>2. CASE GetPeriodInfo(w)
  <2>1. /\ profit' = profit /\ job' = job /\ about' = about
        /\ amount' = [amount EXCEPT ![w] =
                        IF profit[about[job[w]]].principal = Null
                        THEN DefaultAmount ELSE profit[about[job[w]]].principal]
    BY <1>2 DEF GetPeriodInfo, database, queue
  <2>2. about[job[w]] = s
    BY <2>1 DEF Runs
  <2> QED  BY <1>1, <2>1, <2>2 DEF TypeInv, TypeOK, WorkersOK
<1>3. CASE pc[w] \in Informed /\ amount'[w] = amount[w] /\ job'[w] = job[w]
  <2>1. Runs(w, s)
    <3>1. pc[w] # "idle"
      BY <1>3, StepNames DEF Informed
    <3>2. about'[job[w]] = about[job[w]]
      BY <1>1, <3>1, WorkersStrategy, AboutSteps, "running" # "unused"
    <3> QED  BY <1>3, <3>1, <3>2 DEF Runs, Working
  <2>2. profit[s].principal # Null => amount[w] = profit[s].principal
    BY <1>1, <1>3, <2>1 DEF SerialInv, FreshAmount
  <2>3. ~CreateInvestProfitInfo(s)
    BY <1>1, <2>1 DEF CreateInvestProfitInfo, Note, Running, TypeInv, TypeOK,
                      HistoryOK
  <2>4. ASSUME NEW q \in Requests, UpdateSaveProfit(q), request[q].s = s
        PROVE  FALSE
    BY <1>1, <2>1, <2>4 DEF UpdateSaveProfit, SerialInv, OneWriter, Running,
                            Edited, Edits
  <2>5. ASSUME NEW v \in Workers, SaveColumn(v), about[job[v]] = s
        PROVE  v = w
    BY <1>1, <2>1, <2>5, StepNames, SaveNames
       DEF SaveColumn, SerialInv, OneWriter, Runs, Working
  <2>6. \/ profit'[s].principal = profit[s].principal
        \/ profit[s].principal # Null /\ profit'[s].principal = amount[w]
    BY <2>3, <2>4, <2>5, PrincipalStep
  <2> QED  BY <1>3, <2>2, <2>6
<1> QED  BY <1>1, <1>2, <1>3, InformedStep

(* What each step that writes the history of a user's wishes does to it.   *)
LEMMA WantedStep ==
  ASSUME SerialInv, [Next]_vars, NEW s \in Strategies
  PROVE  /\ \/ wanted'[s].principal = wanted[s].principal
            \/ CreateInvestProfitInfo(s)
            \/ \E q \in Requests : UpdateSaveProfit(q) /\ request[q].s = s
         /\ wanted'[s].gone = wanted[s].gone \/ SoftDelete(s)
<1>1. wanted \in [Strategies -> [principal : Amounts \union {Null},
                                 gone : BOOLEAN]]
  BY DEF SerialInv, TypeInv, TypeOK, HistoryOK
<1>2. ASSUME NEW z \in Strategies, CreateInvestProfitInfo(z)
      PROVE  /\ z # s => wanted'[s] = wanted[s]
             /\ wanted'[s].gone = wanted[s].gone
  <2>1. PICK p \in Principals : wanted' = [wanted EXCEPT ![z].principal = p]
    BY <1>2 DEF CreateInvestProfitInfo
  <2> QED  BY <1>1, <2>1
<1>3. ASSUME NEW z \in Strategies, SoftDelete(z)
      PROVE  /\ z # s => wanted'[s] = wanted[s]
             /\ wanted'[s].principal = wanted[s].principal
  BY <1>1, <1>3 DEF SoftDelete
<1>4. ASSUME NEW q \in Requests, UpdateSaveProfit(q)
      PROVE  /\ request[q].s # s => wanted'[s] = wanted[s]
             /\ wanted'[s].gone = wanted[s].gone
  BY <1>1, <1>4 DEF UpdateSaveProfit
<1> QED  BY <1>2, <1>3, <1>4, WantedSteps

(* The principal in the database stays the one the user asked for.         *)
LEMMA PrincipalIntentStep ==
  ASSUME SerialInv, [Next]_vars, NEW s \in Strategies, ~overlap'[s]
  PROVE  profit'[s].principal = wanted'[s].principal
<1>1. TypeInv /\ ~overlap[s]
  BY OverlapGrows DEF SerialInv
<1>2. profit[s].principal = wanted[s].principal
  BY <1>1 DEF SerialInv, SerialIntent
<1>3. CASE CreateInvestProfitInfo(s)
  <2>1. PICK p \in Principals : /\ profit' = [profit EXCEPT ![s].principal = p]
                                /\ wanted' = [wanted EXCEPT ![s].principal = p]
    BY <1>3 DEF CreateInvestProfitInfo
  <2> QED  BY <1>1, <2>1 DEF TypeInv, TypeOK, DatabaseOK, HistoryOK
<1>4. ASSUME NEW q \in Requests, UpdateSaveProfit(q), request[q].s = s
      PROVE  profit'[s].principal = wanted'[s].principal
  BY <1>1, <1>4 DEF UpdateSaveProfit, TypeInv, TypeOK, DatabaseOK, HistoryOK
<1>5. ASSUME NEW w \in Workers, SaveColumn(w), about[job[w]] = s, pc[w] = "profit",
             profit[s].principal # Null
      PROVE  amount[w] = profit[s].principal
  <2>1. Runs(w, s) /\ pc[w] \in Informed
    BY <1>5, StepNames, SaveNames
       DEF Runs, Working, Informed, Columns
  <2> QED  BY <1>1, <1>5, <2>1 DEF SerialInv, FreshAmount
<1> QED  BY <1>2, <1>3, <1>4, <1>5, PrincipalStep, WantedStep

(* What each step that writes a row of member_strategy does to it.         *)
LEMMA RowStep ==
  ASSUME SerialInv, [Next]_vars, NEW s \in Strategies
  PROVE  \/ row'[s] = row[s]
         \/ row[s] = "absent" /\ row'[s] = "live"
         \/ SoftDelete(s)
         \/ \E q \in Requests : /\ UpdateSaveRow(q) /\ request[q].s = s
                                /\ row'[s] = "live"
<1>1. row \in [Strategies -> {"absent", "live", "deleted"}]
  BY DEF SerialInv, TypeInv, TypeOK, DatabaseOK
<1> QED  BY <1>1, RowSteps DEF CreateStrategy, SoftDelete, UpdateSaveRow

(* A deleted strategy stays deleted, and no other one is.                  *)
LEMMA GoneIntentStep ==
  ASSUME SerialInv, [Next]_vars, NEW s \in Strategies, ~overlap'[s]
  PROVE  row'[s] = "deleted" <=> wanted'[s].gone
<1>1. TypeInv /\ ~overlap[s]
  BY OverlapGrows DEF SerialInv
<1>2. row[s] = "deleted" <=> wanted[s].gone
  BY <1>1 DEF SerialInv, SerialIntent
<1>3. CASE SoftDelete(s)
  BY <1>1, <1>3 DEF SoftDelete, TypeInv, TypeOK, DatabaseOK, HistoryOK
<1>4. ASSUME NEW q \in Requests, UpdateSaveRow(q), request[q].s = s
      PROVE  row[s] = "live"
  BY <1>1, <1>4 DEF UpdateSaveRow, SerialInv, FreshSnapshot
<1> QED  BY <1>2, <1>3, <1>4, RowStep, WantedStep

(* What an edit has read can only be changed by an overlapping writer.     *)
LEMMA FreshSnapshotStep ==
  ASSUME SerialInv, [Next]_vars
  PROVE  FreshSnapshot'
<1> SUFFICES ASSUME NEW s \in Strategies, NEW q \in Requests, ~overlap'[s],
                    request'[q].pc = "row", request'[q].s = s
             PROVE  row'[s] = "live" /\ request'[q].status = status'[s]
  BY DEF FreshSnapshot
<1>1. TypeInv /\ ~overlap[s]
  BY OverlapGrows DEF SerialInv
<1>2. CASE UpdateRead(q, s)
  <2>1. row' = row /\ status' = status /\ row[s] = "live"
    BY <1>2 DEF UpdateRead, database
  <2>2. request'[q].status = status[s]
    BY <1>1, <1>2 DEF UpdateRead, TypeInv, TypeOK, BusinessOK
  <2> QED  BY <2>1, <2>2
<1>3. CASE request'[q] = request[q]
  <2>1. Edits(q, s)
    BY <1>3 DEF Edits
  <2>2. row[s] = "live" /\ request[q].status = status[s]
    BY <1>1, <1>3 DEF SerialInv, FreshSnapshot
  <2>3. ~SoftDelete(s)
    BY <1>1, <2>1 DEF SoftDelete, Note, Edited, TypeInv, TypeOK, HistoryOK
  <2>4. row'[s] = "live"
    BY <2>2, <2>3, RowStep
  <2>5. ~Running(s)
    BY <1>1, <2>1 DEF SerialInv, OneWriter, Edited
  <2>6. ASSUME NEW p \in Requests, UpdateSaveRow(p), request[p].s = s
        PROVE  FALSE
    <3>1. p = q
      BY <1>1, <2>1, <2>6 DEF UpdateSaveRow, Edits, SerialInv, OneWriter
    <3>2. request' = [request EXCEPT ![q].pc = "profit"]
      BY <2>6, <3>1 DEF UpdateSaveRow
    <3> QED  BY <1>1, <3>2 DEF TypeInv, TypeOK, BusinessOK
  <2>7. status'[s] = status[s]
    BY <1>1, <2>5, <2>6, StatusSteps
  <2> QED  BY <1>3, <2>2, <2>4, <2>7
<1>4. request'[q] = request[q] \/ \E z \in Strategies : UpdateRead(q, z)
  BY <1>1, RowRequestStep
<1>5. ASSUME NEW z \in Strategies, UpdateRead(q, z)
      PROVE  z = s
  BY <1>1, <1>5 DEF UpdateRead, TypeInv, TypeOK, BusinessOK
<1> QED  BY <1>2, <1>3, <1>4, <1>5

-----------------------------------------------------------------------------
LEMMA InitSerialInv == Init => SerialInv
BY InitTypeInv
   DEF Init, SerialInv, OneWriter, Running, Edited, Runs, Edits, Working,
       IdleRequest, SeenInSave, SerialRows, FreshSelect, SerialIntent,
       FreshAmount, FreshSnapshot, KeyedTables, UniqueTables, ChartTables,
       Tables

LEMMA NextSerialInv == SerialInv /\ [Next]_vars => SerialInv'
<1> SUFFICES ASSUME SerialInv, [Next]_vars
             PROVE  SerialInv'
  OBVIOUS
<1>1. TypeInv'
  BY NextTypeInv DEF SerialInv
<1>2. SerialIntent'
  BY PrincipalIntentStep, GoneIntentStep DEF SerialIntent
<1> QED  BY <1>1, <1>2, OneWriterStep, SeenInSaveStep, SerialRowsStep,
            FreshSelectStep, FreshAmountStep, FreshSnapshotStep
         DEF SerialInv

LEMMA AlwaysSerialInv == Spec => []SerialInv
BY InitSerialInv, NextSerialInv, PTL DEF Spec

(* Backtesting again is idempotent: as long as no two writers of a         *)
(* strategy overlap, "select, then update or insert" leaves one row per    *)
(* key, whatever fails and however often it is run (_save...Table).        *)
THEOREM RowsAreSerial == Spec => []SerialRows
BY AlwaysSerialInv, PTL DEF SerialInv

(* As long as no two writers of a strategy overlap, the user's last edit   *)
(* and deletion are what the database holds, although an edit writes back  *)
(* a whole entity and a run a whole result (updateMyStrategyById,          *)
(* _saveInvestProfitInfoTable).                                            *)
THEOREM IntentIsKept == Spec => []SerialIntent
BY AlwaysSerialInv, PTL DEF SerialInv

(* Only a run changes the status of a strategy, unless an update           *)
(* overlapped one (_setStatusMemberStrategy, updateMyStrategyById).        *)
THEOREM StatusBelongsToRuns == Spec => StatusIsTheRuns
<1>1. ASSUME SerialInv, [Next]_vars, NEW s \in Strategies, status'[s] # status[s]
      PROVE  Running(s) \/ overlap[s]
  <2>1. ASSUME NEW q \in Requests, UpdateSaveRow(q), request[q].s = s, ~overlap[s]
        PROVE  FALSE
    <3>1. request[q].status = status[s]
      BY <1>1, <2>1 DEF UpdateSaveRow, SerialInv, FreshSnapshot
    <3> QED  BY <1>1, <2>1, <3>1
             DEF UpdateSaveRow, SerialInv, TypeInv, TypeOK, DatabaseOK
  <2> QED  BY <1>1, <2>1, StatusSteps DEF SerialInv
<1>2. SerialInv /\ [Next]_vars =>
        [\A s \in Strategies : status'[s] # status[s] => Running(s) \/ overlap[s]]_vars
  BY <1>1
<1> QED  BY <1>2, AlwaysSerialInv, PTL DEF Spec, StatusIsTheRuns

================================================================================
