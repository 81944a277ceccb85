------------------------- MODULE PipelineOutcome_proofs -------------------------
(***************************************************************************)
(* What a strategy shows after its runs: connections, "Start" and          *)
(* "Success", for any number of strategies, tasks, workers and requests.   *)
(***************************************************************************)
EXTENDS BacktestPipeline_proofs

-----------------------------------------------------------------------------
(* Connections                                                             *)

LEMMA FaultsGrow ==
  ASSUME TypeInv, [Next]_vars
  PROVE  /\ faults \in Nat /\ faults' \in Nat /\ faults <= faults'
         /\ (\E w \in Workers : SaveInvestProfitInfoRaises(w)
               \/ GetDBDataRaises(w) \/ GetPortInfoFromDBRaises(w)
               \/ GetPeriodInfoRaises(w)) => faults < faults'
<1>1. faults \in Nat
  BY PipelineAssumption DEF TypeInv, TypeOK, CountersOK
<1>2. \/ faults' = faults
      \/ \E n \in {0, 1, 2} : Fault(n)
  <2>1. CASE BusinessStep \/ UNCHANGED vars
    BY <2>1 DEF BusinessStep, vars, CreateStrategy, CreateInvestProfitInfo,
       AddUniversalOnly, UpsertTradingStrategy, SoftDelete, RetryAccepted,
       RetryRaises, Refusal, UpdateRead, PushRequested, UpdateSaveRow,
       UpdateSaveProfit, UpdateRaises, CheckMyStrategy, PostAccepted, PostRefused,
       RetryScan, BusinessCrash
  <2>2. ASSUME NEW w \in Workers, SaveRaises(w)
        PROVE  \E n \in {0, 1, 2} : Fault(n)
    <3>1. PICK n \in {0, 1} : Fault(n) \/ Fault(n + 1)
      BY <2>2 DEF SaveRaises
    <3> QED  BY <3>1
  <2>3. ASSUME NEW w \in Workers,
               (Work(w) /\ ~SaveRaises(w)) \/ WorkerCrash(w)
                 \/ \E t \in Tasks : TakeTask(w, t)
        PROVE  \/ faults' = faults
               \/ \E n \in {0, 1, 2} : Fault(n)
    BY <2>3 DEF Work, TakeTask, SetStart, SetStatus, GetPeriodInfo,
       GetPeriodInfoRaises, NoPortInfo, GetPortInfoFromDB,
       GetPortInfoFromDBRaises, Simulate, GetDBDataRaises, SaveSelect,
       SaveWrite, SaveColumn, SaveInvestProfitInfoRaises, SetSuccess,
       SetError, PoolExhausted, WorkerCrash
  <2> QED  BY <2>1, <2>2, <2>3 DEF Next
<1>3. ASSUME NEW w \in Workers,
             \/ SaveInvestProfitInfoRaises(w) \/ GetDBDataRaises(w)
             \/ GetPortInfoFromDBRaises(w) \/ GetPeriodInfoRaises(w)
      PROVE  Fault(1) \/ Fault(2)
  BY <1>3 DEF SaveInvestProfitInfoRaises, GetDBDataRaises,
              GetPortInfoFromDBRaises, GetPeriodInfoRaises
<1> QED  BY <1>1, <1>2, <1>3 DEF Fault

(* A save that raises is a fault, but for the refused insert.              *)
LEMMA SaveRaisesFaults ==
  ASSUME TypeInv, NEW w \in Workers, SaveRaises(w), ~DuplicateKey(w)
  PROVE  faults < faults'
<1>1. faults \in Nat
  BY PipelineAssumption DEF TypeInv, TypeOK, CountersOK
<1>2. Fault(1) \/ Fault(2)
  BY DEF SaveRaises
<1> QED  BY <1>1, <1>2 DEF Fault

(* Connections are lost one at a time, by the process that held them.      *)
LEMMA LeakSteps ==
  ASSUME TypeInv, [Next]_vars, NEW w \in Workers
  PROVE  \/ leaked'[w] = leaked[w]
         \/ leaked'[w] = 0 /\ WorkerCrash(w)
         \/ /\ leaked'[w] = leaked[w] + 1
            /\ Work(w)
            /\ pc'[w] = "fail"
            /\ faults < faults'
         \/ /\ leaked'[w] = PoolMax
            /\ leaked[w] = PoolMax - 1
            /\ SaveRaises(w) /\ DuplicateKey(w)
<1>1. leaked \in [Workers -> 0 .. PoolMax] /\ pc \in [Workers -> Steps \union {"idle"}]
  BY DEF TypeInv, TypeOK, WorkersOK
<1>2. \/ leaked' = leaked
      \/ \E v \in Workers : WorkerCrash(v)
      \/ \E v \in Workers :
           /\ Leak(v) /\ Work(v) /\ Goto(v, "fail")
           /\ \/ GetPortInfoFromDBRaises(v) \/ GetDBDataRaises(v)
              \/ SaveInvestProfitInfoRaises(v)
              \/ SaveRaises(v) /\ Free(v) = 1
  <2>1. CASE BusinessStep \/ UNCHANGED vars
    BY <2>1 DEF BusinessStep, vars, workers, CreateStrategy,
       CreateInvestProfitInfo, AddUniversalOnly, UpsertTradingStrategy,
       SoftDelete, RetryAccepted, RetryRaises, UpdateRead, PushRequested,
       UpdateSaveRow, UpdateSaveProfit, UpdateRaises, CheckMyStrategy, PostAccepted,
       PostRefused, RetryScan, BusinessCrash
  <2>2. ASSUME NEW v \in Workers,
               \/ SetStart(v) \/ GetPeriodInfo(v) \/ GetPeriodInfoRaises(v)
               \/ NoPortInfo(v) \/ GetPortInfoFromDB(v) \/ Simulate(v)
               \/ SaveSelect(v) \/ SaveWrite(v) \/ SaveColumn(v)
               \/ SetSuccess(v) \/ SetError(v) \/ PoolExhausted(v)
               \/ \E t \in Tasks : TakeTask(v, t)
        PROVE  leaked' = leaked
    BY <2>2 DEF TakeTask, SetStart, GetPeriodInfo, GetPeriodInfoRaises,
       NoPortInfo, GetPortInfoFromDB, Simulate, SaveSelect, SaveWrite,
       SaveColumn, SetSuccess, SetError, PoolExhausted
  <2>3. ASSUME NEW v \in Workers, SaveRaises(v)
        PROVE  \/ leaked' = leaked
               \/ Leak(v) /\ Goto(v, "fail") /\ Free(v) = 1
    BY <2>3 DEF SaveRaises
  <2>4. ASSUME NEW v \in Workers,
               \/ GetPortInfoFromDBRaises(v) \/ GetDBDataRaises(v)
               \/ SaveInvestProfitInfoRaises(v)
        PROVE  Leak(v) /\ Goto(v, "fail")
    BY <2>4 DEF GetPortInfoFromDBRaises, GetDBDataRaises,
                SaveInvestProfitInfoRaises
  <2> QED  BY <2>1, <2>2, <2>3, <2>4 DEF Next, Work
<1>3. ASSUME NEW v \in Workers, WorkerCrash(v)
      PROVE  leaked'[w] = leaked[w] \/ (v = w /\ leaked'[w] = 0)
  <2>1. leaked' = [leaked EXCEPT ![v] = 0]
    BY <1>3 DEF WorkerCrash
  <2> QED  BY <1>1, <2>1
<1>4. ASSUME NEW v \in Workers, Leak(v), Work(v), Goto(v, "fail"),
             \/ GetPortInfoFromDBRaises(v) \/ GetDBDataRaises(v)
             \/ SaveInvestProfitInfoRaises(v)
             \/ SaveRaises(v) /\ Free(v) = 1
      PROVE  \/ leaked'[w] = leaked[w]
             \/ /\ leaked'[w] = leaked[w] + 1
                /\ Work(w)
                /\ pc'[w] = "fail"
                /\ faults < faults'
             \/ /\ leaked'[w] = PoolMax
                /\ leaked[w] = PoolMax - 1
                /\ SaveRaises(w) /\ DuplicateKey(w)
  <2>1. CASE v # w
    BY <1>1, <1>4, <2>1 DEF Leak
  <2>2. CASE v = w
    <3>1. leaked'[w] = leaked[w] + 1 /\ pc'[w] = "fail"
      BY <1>1, <1>4, <2>2 DEF Leak, Goto
    <3>2. CASE SaveRaises(w) /\ DuplicateKey(w) /\ Free(w) = 1
      BY <1>1, <3>1, <3>2, PipelineAssumption DEF Free
    <3>3. CASE SaveRaises(w) /\ ~DuplicateKey(w)
      BY <1>4, <2>2, <3>1, <3>3, SaveRaisesFaults
    <3>4. CASE \/ GetPortInfoFromDBRaises(w) \/ GetDBDataRaises(w)
               \/ SaveInvestProfitInfoRaises(w)
      BY <1>4, <2>2, <3>1, <3>4, FaultsGrow
    <3> QED  BY <1>4, <2>2, <3>2, <3>3, <3>4
  <2> QED  BY <2>1, <2>2
<1> QED  BY <1>2, <1>3, <1>4

LEMMA LeaksStep ==
  ASSUME TypeInv, LeaksNeedFaults, [Next]_vars
  PROVE  LeaksNeedFaults'
<1> SUFFICES ASSUME NEW w \in Workers
             PROVE  leaked'[w] <= faults' + (IF leaked'[w] = PoolMax THEN 1 ELSE 0)
  BY DEF LeaksNeedFaults
<1>1. /\ leaked[w] \in 0 .. PoolMax /\ PoolMax \in Nat \ {0}
      /\ leaked[w] <= faults + (IF leaked[w] = PoolMax THEN 1 ELSE 0)
  BY PipelineAssumption DEF TypeInv, TypeOK, WorkersOK, LeaksNeedFaults
<1>2. faults \in Nat /\ faults' \in Nat /\ faults <= faults'
  BY FaultsGrow
<1>3. leaked'[w] \in 0 .. PoolMax
  BY NextTypeInv DEF TypeInv, TypeOK, WorkersOK
<1> QED  BY <1>1, <1>2, <1>3, LeakSteps

(* A process loses a connection only to a database error of its own, but   *)
(* for the last one, which a refused insert may take (SaveRaises,          *)
(* _saveInvestProfitInfoTable, getConn without putConn).                   *)
THEOREM LeaksAreExplained == Spec => []LeaksNeedFaults
<1>1. Init => LeaksNeedFaults
  BY PipelineAssumption DEF Init, LeaksNeedFaults
<1> QED  BY <1>1, LeaksStep, AlwaysTypeInv, PTL DEF Spec

-----------------------------------------------------------------------------
(* What the runs leave behind                                              *)

(* The saves a run has behind it when it is at a step of saveDB.           *)
Behind ==
  [monthly    |-> {},
   winratio   |-> {"monthly"},
   detail     |-> {"monthly", "winratio"},
   profit     |-> {"monthly", "winratio", "detail"},
   daily      |-> {"monthly", "winratio", "detail", "profit"},
   accumulate |-> {"monthly", "winratio", "detail", "profit", "daily"},
   history    |-> {"monthly", "winratio", "detail", "profit", "daily",
                   "accumulate"},
   type       |-> Tables \union {"profit"},
   html       |-> Tables \union {"profit", "type"},
   finish     |-> Tables \union Columns]

(* The saves of S have left figures of principal a.                        *)
Saved(s, S, a) ==
  /\ \A t \in KeyedTables \intersect S :
       \E k \in Tasks : rows[s][t] = {[by |-> k, amount |-> a]}
  /\ "daily" \in S => \E r \in rows[s]["daily"] : r.amount = a
  /\ "profit" \in S => profit[s].price \in {a, Null}
  /\ "type" \in S => report[s].type = a
  /\ "html" \in S => report[s].html = a

(* A strategy on which nothing has gone wrong so far.                      *)
Quiet(s) == ~overlap[s] /\ faults = 0

(* No invest_profit_info, no evaluated price.                              *)
PriceNeedsPrincipal ==
  \A s \in Strategies : profit[s].principal = Null => profit[s].price = Null

(* The figures an edit has read are still those of the database when it    *)
(* writes them back.                                                       *)
FreshFigures ==
  \A s \in Strategies, q \in Requests : ~overlap[s] /\ Edits(q, s) =>
    /\ request[q].price = profit[s].price
    /\ request[q].pc = "row" => request[q].type = report[s].type

(* "One row found" is still true when the run writes.                      *)
FreshRow ==
  \A s \in Strategies, w \in Workers :
    ~overlap[s] /\ Runs(w, s) /\ seen[w] = "one" =>
      /\ pc[w] # "daily"
      /\ \E r \in rows[s][pc[w]] : rows[s][pc[w]] = {r}

(* A run that has begun shows "Start" until it ends, and has a connection. *)
RunIsShown ==
  \A s \in Strategies, w \in Workers :
    Quiet(s) /\ Runs(w, s) /\ pc[w] # "start" =>
      status[s] = "Start" /\ Free(w) > 0

(* A run at a step of saveDB has made every save before it.                *)
SavedSoFar ==
  \A s \in Strategies, w \in Workers :
    Quiet(s) /\ Runs(w, s) /\ pc[w] \in DOMAIN Behind =>
      Saved(s, Behind[pc[w]], amount[w])

(* "Start" is shown by a run that has begun or one that returned "error"   *)
(* or died.                                                                *)
StartIsHeld ==
  \A s \in Strategies : Quiet(s) /\ status[s] = "Start" =>
    \/ \E w \in Workers : Runs(w, s) /\ pc[w] # "start"
    \/ \E t \in Tasks : about[t] = s /\ phase[t] \in {"error", "lost"}

OutcomeInv ==
  /\ SerialInv
  /\ PriceNeedsPrincipal
  /\ FreshFigures
  /\ FreshRow
  /\ RunIsShown
  /\ SavedSoFar
  /\ StartIsHeld
  /\ SuccessIsWhole

(* The order of saveDB, and what is behind each of its steps.              *)
LEMMA BehindNames ==
  /\ DOMAIN Behind = Tables \union Columns \union {"finish"}
  /\ Behind["monthly"] = {}
  /\ Behind["finish"] = Tables \union Columns
  /\ \A p \in Tables \union Columns :
       After[p] \in DOMAIN Behind /\ Behind[After[p]] = Behind[p] \union {p}
  /\ Behind["html"] = (Tables \union Columns) \ {"html"}
BY DEF Behind, After, Tables, KeyedTables, UniqueTables, ChartTables, Columns

(* A strategy is quiet in the next state only if it is in this one.        *)
LEMMA QuietSteps ==
  ASSUME TypeInv, [Next]_vars, NEW s \in Strategies, Quiet(s)'
  PROVE  Quiet(s) /\ faults' = faults
BY OverlapGrows, FaultsGrow DEF Quiet

(* What a worker's step does to its run, and to the others' runs.          *)
LEMMA RunStep ==
  ASSUME TypeInv, [Next]_vars, NEW w \in Workers, NEW s \in Strategies,
         Runs(w, s)'
  PROVE  \/ pc'[w] = "start" /\ \E t \in Tasks : TakeTask(w, t)
         \/ /\ Runs(w, s) /\ job'[w] = job[w]
            /\ \/ Work(w)
               \/ /\ ~Work(w)
                  /\ pc'[w] = pc[w] /\ amount'[w] = amount[w]
                  /\ seen'[w] = seen[w] /\ leaked'[w] = leaked[w]
<1>1. ASSUME NEW t \in Tasks, TakeTask(w, t)
      PROVE  pc'[w] = "start"
  BY <1>1 DEF TakeTask, Goto, TypeInv, TypeOK, WorkersOK
<1>2. ~WorkerCrash(w)
  BY DEF WorkerCrash, Return, Goto, Runs, Working, TypeInv, TypeOK, WorkersOK
<1>3. CASE ~Work(w) /\ ~ \E t \in Tasks : TakeTask(w, t)
  <2>1. /\ job'[w] = job[w] /\ pc'[w] = pc[w]
        /\ amount'[w] = amount[w] /\ seen'[w] = seen[w]
    BY <1>2, <1>3, WorkerSteps
  <2>2. leaked'[w] = leaked[w]
    BY <1>2, <1>3, LeakSteps DEF Work
  <2>3. Runs(w, s)
    BY <1>3, RunsSteps
  <2> QED  BY <1>3, <2>1, <2>2, <2>3
<1> QED  BY <1>1, <1>3, RunsSteps

LEMMA ReportSteps ==
  [Next]_vars =>
    \/ report' = report
    \/ \E q \in Requests : UpdateSaveRow(q)
    \/ \E w \in Workers : SaveColumn(w)
BY DEF Next, BusinessStep, Work, vars, database, business, queue, workers,
   history, CreateStrategy, CreateInvestProfitInfo, AddUniversalOnly,
   UpsertTradingStrategy, SoftDelete, RetryAccepted, RetryRaises, UpdateRead,
   PushRequested, UpdateSaveProfit, UpdateRaises, CheckMyStrategy, PostAccepted,
   PostRefused, RetryScan, BusinessCrash, TakeTask, SetStart, GetPeriodInfo,
   GetPeriodInfoRaises, NoPortInfo, GetPortInfoFromDB,
   GetPortInfoFromDBRaises, Simulate, GetDBDataRaises, SaveSelect, SaveWrite,
   SaveRaises, SaveInvestProfitInfoRaises, SetSuccess, SetError,
   PoolExhausted, WorkerCrash

(* The run that writes figures of a strategy is one of its own.            *)
LEMMA WriterRuns ==
  ASSUME TypeInv, NEW w \in Workers, SaveWrite(w) \/ SaveColumn(w)
  PROVE  Runs(w, about[job[w]]) /\ about[job[w]] \in Strategies
<1>1. pc[w] # "idle"
  BY SaveNames DEF SaveWrite, SaveColumn, Columns
<1> QED  BY <1>1, WorkersStrategy DEF Runs, Working

(* Without an overlap the figures of a strategy change only when a run of  *)
(* it writes them: an edit writes back what is there.                      *)
LEMMA FiguresSteps ==
  ASSUME OutcomeInv, [Next]_vars, NEW s \in Strategies, ~overlap'[s]
  PROVE  \/ /\ rows'[s] = rows[s]
            /\ report'[s] = report[s]
            /\ profit'[s].price = profit[s].price
         \/ \E w \in Workers : Runs(w, s) /\ (SaveWrite(w) \/ SaveColumn(w))
<1> SUFFICES ASSUME ~ \E w \in Workers : Runs(w, s) /\ (SaveWrite(w) \/ SaveColumn(w))
             PROVE  /\ rows'[s] = rows[s]
                    /\ report'[s] = report[s]
                    /\ profit'[s].price = profit[s].price
  OBVIOUS
<1>1. TypeInv /\ SerialInv /\ ~overlap[s]
  BY OverlapGrows DEF OutcomeInv, SerialInv
<1>2. /\ rows \in [Strategies -> [Tables -> SUBSET Row]]
      /\ report \in [Strategies -> [type : Amounts \union {Null},
                                    html : Amounts \union {Null}]]
      /\ profit \in [Strategies -> [principal : Amounts \union {Null},
                                    price : Amounts \union {Null}]]
  BY <1>1 DEF TypeInv, TypeOK, DatabaseOK
<1>3. \A w \in Workers : SaveWrite(w) \/ SaveColumn(w) => about[job[w]] # s
  BY <1>1, WriterRuns
<1>4. ASSUME NEW w \in Workers, SaveWrite(w)
      PROVE  rows'[s] = rows[s]
  BY <1>2, <1>3, <1>4 DEF SaveWrite
<1>5. ASSUME NEW w \in Workers, SaveColumn(w)
      PROVE  report'[s] = report[s] /\ profit'[s] = profit[s]
  BY <1>2, <1>3, <1>5 DEF SaveColumn
<1>6. ASSUME NEW q \in Requests, UpdateSaveRow(q)
      PROVE  report'[s] = report[s]
  <2>1. report' = [report EXCEPT ![request[q].s].type = request[q].type]
    BY <1>6 DEF UpdateSaveRow
  <2>2. request[q].s = s => request[q].type = report[s].type
    BY <1>1, <1>6 DEF UpdateSaveRow, OutcomeInv, FreshFigures, Edits
  <2> QED  BY <1>2, <2>1, <2>2
<1>7. ASSUME NEW q \in Requests, UpdateSaveProfit(q)
      PROVE  profit'[s].price = profit[s].price
  <2>1. profit' = [profit EXCEPT ![request[q].s] =
                     [principal |-> request[q].principal,
                      price |-> request[q].price]]
    BY <1>7 DEF UpdateSaveProfit
  <2>2. request[q].s = s => request[q].price = profit[s].price
    BY <1>1, <1>7 DEF UpdateSaveProfit, OutcomeInv, FreshFigures, Edits
  <2> QED  BY <1>2, <2>1, <2>2
<1>8. ASSUME NEW z \in Strategies, CreateInvestProfitInfo(z)
      PROVE  profit'[s].price = profit[s].price
  <2>1. PICK p \in Principals : profit' = [profit EXCEPT ![z].principal = p]
    BY <1>8 DEF CreateInvestProfitInfo
  <2> QED  BY <1>2, <2>1
<1>9. rows'[s] = rows[s]
  BY <1>4, RowsSteps
<1>10. report'[s] = report[s]
  BY <1>5, <1>6, ReportSteps
<1>11. profit'[s].price = profit[s].price
  BY <1>5, <1>7, <1>8, ProfitSteps
<1> QED  BY <1>9, <1>10, <1>11

(* Figures that nobody touched are still saved.                            *)
LEMMA SavedStays ==
  ASSUME NEW s, NEW S, NEW a, Saved(s, S, a),
         rows'[s] = rows[s], report'[s] = report[s],
         profit'[s].price = profit[s].price
  PROVE  Saved(s, S, a)'
BY DEF Saved

(* The writes of a status, and who makes them.                             *)
LEMMA StatusWriters ==
  ASSUME TypeInv, [Next]_vars, NEW s \in Strategies, status'[s] # status[s]
  PROVE  \/ \E w \in Workers :
              /\ Runs(w, s)
              /\ \/ SetStart(w) /\ status'[s] = "Start"
                 \/ GetDBDataRaises(w) /\ status'[s] = "Error"
                 \/ SaveRaises(w) /\ status'[s] = "Error"
                 \/ SetSuccess(w) /\ status'[s] = "Success"
                 \/ SetError(w) /\ status'[s] = "Error"
         \/ \E q \in Requests : UpdateSaveRow(q) /\ request[q].s = s
<1>1. \/ status' = status
      \/ \E w \in Workers : SetStart(w) \/ GetDBDataRaises(w) \/ SaveRaises(w)
                            \/ SetSuccess(w) \/ SetError(w)
      \/ \E q \in Requests : UpdateSaveRow(q)
  BY DEF Next, BusinessStep, Work, vars, database, business, queue, workers,
     history, CreateStrategy, CreateInvestProfitInfo, AddUniversalOnly,
     UpsertTradingStrategy, SoftDelete, RetryAccepted, RetryRaises,
     UpdateRead, PushRequested, UpdateSaveProfit, UpdateRaises, CheckMyStrategy,
     PostAccepted, PostRefused, RetryScan, BusinessCrash, TakeTask,
     GetPeriodInfo, GetPeriodInfoRaises, NoPortInfo, GetPortInfoFromDB,
     GetPortInfoFromDBRaises, Simulate, SaveSelect, SaveWrite, SaveColumn,
     SaveInvestProfitInfoRaises, PoolExhausted, WorkerCrash
<1>2. status \in [Strategies -> Statuses]
  BY DEF TypeInv, TypeOK, DatabaseOK
<1>3. ASSUME NEW w \in Workers, NEW code,
             status' = [status EXCEPT ![about[job[w]]] = code],
             pc[w] # "idle"
      PROVE  Runs(w, s) /\ status'[s] = code
  BY <1>2, <1>3 DEF Runs, Working
<1>4. ASSUME NEW w \in Workers, SetStart(w)
      PROVE  Runs(w, s) /\ status'[s] = "Start"
  <2>1. status' = [status EXCEPT ![about[job[w]]] = "Start"] /\ pc[w] # "idle"
    BY <1>4 DEF SetStart, SetStatus
  <2> QED  BY <1>3, <2>1
<1>5. ASSUME NEW w \in Workers, GetDBDataRaises(w)
      PROVE  Runs(w, s) /\ status'[s] = "Error"
  <2>1. status' = [status EXCEPT ![about[job[w]]] = "Error"] /\ pc[w] # "idle"
    BY <1>5 DEF GetDBDataRaises
  <2> QED  BY <1>3, <2>1
<1>6. ASSUME NEW w \in Workers, SaveRaises(w)
      PROVE  Runs(w, s) /\ status'[s] = "Error"
  <2>1. status' = [status EXCEPT ![about[job[w]]] = "Error"] /\ pc[w] # "idle"
    BY <1>6, StepNames DEF SaveRaises
  <2> QED  BY <1>3, <2>1
<1>7. ASSUME NEW w \in Workers, SetSuccess(w)
      PROVE  Runs(w, s) /\ status'[s] = "Success"
  <2>1. status' = [status EXCEPT ![about[job[w]]] = "Success"] /\ pc[w] # "idle"
    BY <1>7 DEF SetSuccess, SetStatus
  <2> QED  BY <1>3, <2>1
<1>8. ASSUME NEW w \in Workers, SetError(w)
      PROVE  Runs(w, s) /\ status'[s] = "Error"
  <2>1. status' = [status EXCEPT ![about[job[w]]] = "Error"] /\ pc[w] # "idle"
    BY <1>8 DEF SetError, SetStatus
  <2> QED  BY <1>3, <2>1
<1>9. ASSUME NEW q \in Requests, UpdateSaveRow(q)
      PROVE  request[q].s = s
  BY <1>2, <1>9 DEF UpdateSaveRow
<1> QED  BY <1>1, <1>4, <1>5, <1>6, <1>7, <1>8, <1>9

(* An edit keeps what it has read until it answers.                        *)
LEMMA EditStep ==
  ASSUME TypeInv, [Next]_vars, NEW q \in Requests,
         request'[q].pc \in {"row", "profit"}
  PROVE  \/ \E z \in Strategies : UpdateRead(q, z)
         \/ /\ request[q].pc \in {"row", "profit"}
            /\ request'[q].pc = "row" => request[q].pc = "row"
            /\ request'[q].s = request[q].s
            /\ request'[q].principal = request[q].principal
            /\ request'[q].price = request[q].price
            /\ request'[q].type = request[q].type
<1> DEFINE Kept == /\ request[q].pc \in {"row", "profit"}
                   /\ request'[q].pc = "row" => request[q].pc = "row"
                   /\ request'[q].s = request[q].s
                   /\ request'[q].principal = request[q].principal
                   /\ request'[q].price = request[q].price
                   /\ request'[q].type = request[q].type
<1>1. request'[q].s \in Strategies
  BY NextTypeInv DEF TypeInv, TypeOK, BusinessOK
<1>2. Edits(q, request[q].s) \/ \E z \in Strategies : UpdateRead(q, z)
  <2>1. PICK z \in Strategies : request'[q].s = z
    BY <1>1
  <2>2. Edits(q, z)'
    BY <2>1 DEF Edits
  <2>3. Edits(q, z) \/ UpdateRead(q, z)
    BY <2>2, EditsSteps
  <2> QED  BY <2>3 DEF Edits
<1>3. \/ request' = request
      \/ BusinessCrash
      \/ \E p \in Requests, z \in Strategies : UpdateRead(p, z) \/ PushRequested(p, z)
      \/ \E p \in Requests : \/ UpdateSaveRow(p) \/ UpdateSaveProfit(p)
                             \/ UpdateRaises(p) \/ CheckMyStrategy(p) \/ PostAccepted(p)
                             \/ PostRefused(p)
  BY DEF Next, BusinessStep, Work, vars, database, business, queue, workers,
     history, CreateStrategy, CreateInvestProfitInfo, AddUniversalOnly,
     UpsertTradingStrategy, SoftDelete, RetryAccepted, RetryRaises, RetryScan,
     TakeTask, SetStart, GetPeriodInfo, GetPeriodInfoRaises, NoPortInfo,
     GetPortInfoFromDB, GetPortInfoFromDBRaises, Simulate, GetDBDataRaises,
     SaveSelect, SaveWrite, SaveColumn, SaveRaises,
     SaveInvestProfitInfoRaises, SetSuccess, SetError, PoolExhausted,
     WorkerCrash
<1>4. CASE request[q].pc \in {"row", "profit"}
  <2>1. request \in [Requests -> [pc : {"idle", "row", "profit", "check", "post"},
                                  s : Strategies \union {NoStrategy},
                                  status : Statuses,
                                  type : Amounts \union {Null},
                                  principal : Amounts \union {Null},
                                  price : Amounts \union {Null}]]
    BY DEF TypeInv, TypeOK, BusinessOK
  <2>2. CASE request'[q] = request[q]
    BY <1>4, <2>2
  <2>3. CASE BusinessCrash
    BY <2>3 DEF BusinessCrash, IdleRequest
  <2>4. ASSUME NEW p \in Requests, p # q,
               \/ \E z \in Strategies : UpdateRead(p, z) \/ PushRequested(p, z)
               \/ UpdateSaveRow(p) \/ UpdateSaveProfit(p) \/ UpdateRaises(p) \/ CheckMyStrategy(p)
               \/ PostAccepted(p) \/ PostRefused(p)
        PROVE  request'[q] = request[q]
    BY <2>1, <2>4 DEF UpdateRead, PushRequested, UpdateSaveRow,
       UpdateSaveProfit, UpdateRaises, CheckMyStrategy, PostAccepted, PostRefused
  <2>5. ~PostAccepted(q) /\ ~PostRefused(q) /\ ~CheckMyStrategy(q)
    BY <1>4 DEF PostAccepted, PostRefused, CheckMyStrategy
  <2>6. \A z \in Strategies : ~UpdateRead(q, z) /\ ~PushRequested(q, z)
    BY <1>4 DEF UpdateRead, PushRequested
  <2>7. CASE UpdateSaveRow(q) \/ UpdateSaveProfit(q)
    <3>1. PICK x \in {"profit", "check"} : request' = [request EXCEPT ![q].pc = x]
      BY <2>7 DEF UpdateSaveRow, UpdateSaveProfit
    <3> QED  BY <1>4, <2>1, <3>1
  <2>8. ~UpdateRaises(q)
    BY <2>1 DEF UpdateRaises, IdleRequest
  <2> QED  BY <1>3, <2>2, <2>3, <2>4, <2>5, <2>6, <2>7, <2>8
<1> QED  BY <1>2, <1>4 DEF Edits

LEMMA PriceNeedsPrincipalStep ==
  ASSUME OutcomeInv, [Next]_vars
  PROVE  PriceNeedsPrincipal'
<1>1. TypeInv
  BY DEF OutcomeInv, SerialInv
<1>2. /\ profit \in [Strategies -> [principal : Amounts \union {Null},
                                    price : Amounts \union {Null}]]
      /\ amount \in [Workers -> Amounts]
      /\ Null \notin Amounts
  BY <1>1, PipelineAssumption DEF TypeInv, TypeOK, DatabaseOK, WorkersOK, Amounts
<1>3. ASSUME NEW s \in Strategies, profit'[s].principal = Null
      PROVE  profit'[s].price = Null
  <2>1. profit[s].principal = Null => profit[s].price = Null
    BY DEF OutcomeInv, PriceNeedsPrincipal
  <2>2. ASSUME NEW z \in Strategies, CreateInvestProfitInfo(z)
        PROVE  profit'[s] = profit[s]
    <3>1. PICK p \in Principals : profit' = [profit EXCEPT ![z].principal = p]
      BY <2>2 DEF CreateInvestProfitInfo
    <3> QED  BY <1>2, <1>3, <3>1, PipelineAssumption DEF Amounts
  <2>3. ASSUME NEW q \in Requests, UpdateSaveProfit(q)
        PROVE  profit'[s] = profit[s]
    <3>1. request[q].principal # Null
      BY <2>3 DEF UpdateSaveProfit
    <3>2. profit' = [profit EXCEPT ![request[q].s] =
                       [principal |-> request[q].principal,
                        price |-> request[q].price]]
      BY <2>3 DEF UpdateSaveProfit
    <3> QED  BY <1>2, <1>3, <3>1, <3>2
  <2>4. ASSUME NEW w \in Workers, SaveColumn(w)
        PROVE  profit'[s] = profit[s]
    <3>1. \/ profit' = profit
          \/ profit' = [profit EXCEPT ![about[job[w]]] =
                          [principal |-> amount[w], price |-> amount[w]]]
      BY <2>4 DEF SaveColumn
    <3> QED  BY <1>2, <1>3, <3>1
  <2> QED  BY <1>3, <2>1, <2>2, <2>3, <2>4, ProfitSteps
<1> QED  BY <1>3 DEF PriceNeedsPrincipal

LEMMA FreshFiguresStep ==
  ASSUME OutcomeInv, [Next]_vars
  PROVE  FreshFigures'
<1> SUFFICES ASSUME NEW s \in Strategies, NEW q \in Requests,
                    ~overlap'[s], Edits(q, s)'
             PROVE  /\ request'[q].price = profit'[s].price
                    /\ request'[q].pc = "row" => request'[q].type = report'[s].type
  BY DEF FreshFigures
<1>1. TypeInv /\ SerialInv /\ ~overlap[s]
  BY OverlapGrows DEF OutcomeInv, SerialInv
<1>2. ASSUME NEW z \in Strategies, UpdateRead(q, z)
      PROVE  /\ request'[q].price = profit'[s].price
             /\ request'[q].type = report'[s].type
  <2>1. PICK p : request' = [request EXCEPT ![q] =
                   [pc |-> "row", s |-> z, status |-> status[z],
                    type |-> report[z].type, principal |-> p,
                    price |-> profit[z].price]]
    BY <1>2 DEF UpdateRead
  <2>2. /\ request'[q].s = z
        /\ request'[q].price = profit[z].price
        /\ request'[q].type = report[z].type
    <3>1. q \in DOMAIN request
      BY <1>1 DEF TypeInv, TypeOK, BusinessOK
    <3>2. request'[q] = [pc |-> "row", s |-> z, status |-> status[z],
                         type |-> report[z].type, principal |-> p,
                         price |-> profit[z].price]
      BY <2>1, <3>1
    <3> QED  BY <3>2
  <2>3. profit' = profit /\ report' = report
    BY <1>2 DEF UpdateRead, database
  <2>4. z = s
    BY <2>2 DEF Edits
  <2> QED  BY <2>2, <2>3, <2>4
<1>3. CASE /\ request[q].pc \in {"row", "profit"}
           /\ request'[q].pc = "row" => request[q].pc = "row"
           /\ request'[q].s = request[q].s
           /\ request'[q].price = request[q].price
           /\ request'[q].type = request[q].type
  <2>1. Edits(q, s)
    BY <1>3 DEF Edits
  <2>2. \A w \in Workers : ~Runs(w, s)
    BY <1>1, <2>1 DEF SerialInv, OneWriter, Running, Edited
  <2>3. report'[s] = report[s] /\ profit'[s].price = profit[s].price
    BY <2>2, FiguresSteps
  <2> QED  BY <1>1, <1>3, <2>1, <2>3 DEF OutcomeInv, FreshFigures
<1>4. request'[q].pc \in {"row", "profit"}
  BY DEF Edits
<1> QED  BY <1>1, <1>2, <1>3, <1>4, EditStep

(* Nobody else writes between a run's select and its write.                *)
LEMMA FreshRowStep ==
  ASSUME OutcomeInv, [Next]_vars
  PROVE  FreshRow'
<1> SUFFICES ASSUME NEW s \in Strategies, NEW w \in Workers, ~overlap'[s],
                    Runs(w, s)', seen'[w] = "one"
             PROVE  /\ pc'[w] # "daily"
                    /\ \E r \in rows'[s][pc'[w]] : rows'[s][pc'[w]] = {r}
  BY DEF FreshRow
<1>1. TypeInv /\ SerialInv /\ ~overlap[s]
  BY OverlapGrows DEF OutcomeInv, SerialInv
<1>2. CASE SaveSelect(w)
  <2>1. rows' = rows /\ pc' = pc /\ job' = job /\ about' = about
    BY <1>2 DEF SaveSelect, database, queue
  <2>2. seen' = [seen EXCEPT ![w] =
                   IF pc[w] # "daily" /\ \E r \in rows[about[job[w]]][pc[w]] :
                                            rows[about[job[w]]][pc[w]] = {r}
                   THEN "one" ELSE "other"]
    BY <1>2 DEF SaveSelect
  <2>3. about[job[w]] = s
    BY <2>1 DEF Runs
  <2> QED  BY <1>1, <2>1, <2>2, <2>3 DEF TypeInv, TypeOK, WorkersOK
<1>3. CASE pc'[w] = pc[w] /\ seen'[w] = seen[w] /\ job'[w] = job[w]
  <2>1. Runs(w, s)
    <3>1. pc[w] # "idle"
      BY <1>3 DEF Runs, Working
    <3>2. about'[job[w]] = about[job[w]]
      BY <1>1, <3>1, WorkersStrategy, AboutSteps, "running" # "unused"
    <3> QED  BY <1>3, <3>1, <3>2 DEF Runs, Working
  <2>2. pc[w] # "daily" /\ \E r \in rows[s][pc[w]] : rows[s][pc[w]] = {r}
    BY <1>1, <1>3, <2>1 DEF OutcomeInv, FreshRow
  <2>3. ~SaveWrite(w)
    BY <1>1, <1>3 DEF SaveWrite, Forget, TypeInv, TypeOK, WorkersOK
  <2>4. ~SaveColumn(w)
    BY <1>1, <1>3, SaveNames DEF SaveColumn, SerialInv, SeenInSave
  <2>5. \A v \in Workers : Runs(v, s) => v = w
    BY <1>1, <2>1 DEF SerialInv, OneWriter
  <2>6. rows'[s] = rows[s]
    BY <2>3, <2>4, <2>5, FiguresSteps
  <2> QED  BY <1>3, <2>2, <2>6
<1> QED  BY <1>1, <1>2, <1>3, SeenStep

(* A run never goes back to its beginning.                                 *)
LEMMA AfterNames ==
  \A p \in Tables \union Columns : After[p] \notin {"idle", "start"}
BY DEF After, Tables, KeyedTables, UniqueTables, ChartTables, Columns

(* A task that returned stays as it returned.                              *)
LEMMA PhaseKept ==
  ASSUME TypeInv, [Next]_vars, NEW t \in Tasks,
         phase[t] \notin {"unused", "queued", "running"}
  PROVE  phase'[t] = phase[t]
<1>1. CASE BusinessStep \/ UNCHANGED vars
  BY <1>1 DEF BusinessStep, vars, database, business, queue, workers, history,
     CreateStrategy, CreateInvestProfitInfo, AddUniversalOnly,
     UpsertTradingStrategy, SoftDelete, RetryAccepted, RetryRaises, UpdateRead,
     PushRequested, UpdateSaveRow, UpdateSaveProfit, UpdateRaises, CheckMyStrategy,
     PostAccepted, PostRefused, RetryScan, BusinessCrash, Enqueue,
     TypeInv, TypeOK, QueueOK
<1>2. ASSUME NEW w \in Workers, NEW k \in Tasks, TakeTask(w, k)
      PROVE  phase'[t] = phase[t]
  BY <1>2 DEF TakeTask, TypeInv, TypeOK, QueueOK
<1>3. ASSUME NEW w \in Workers, Work(w) \/ WorkerCrash(w)
      PROVE  phase'[t] = phase[t]
  <2>1. pc[w] # "idle"
    BY <1>3, StepNames, SaveNames
       DEF Work, SetStart, GetPeriodInfo, GetPeriodInfoRaises, NoPortInfo,
           GetPortInfoFromDB, GetPortInfoFromDBRaises, Simulate,
           GetDBDataRaises, SaveSelect, SaveWrite, SaveColumn, SaveRaises,
           SaveInvestProfitInfoRaises, SetSuccess, SetError, PoolExhausted,
           WorkerCrash, Working, Columns
  <2>2. phase[job[w]] = "running"
    BY <2>1, WorkersStrategy
  <2>3. phase' = phase \/ \E r : phase' = [phase EXCEPT ![job[w]] = r]
    BY <1>3 DEF Work, SetStart, GetPeriodInfo, GetPeriodInfoRaises, NoPortInfo,
       GetPortInfoFromDB, GetPortInfoFromDBRaises, Simulate, GetDBDataRaises,
       SaveSelect, SaveWrite, SaveColumn, SaveRaises,
       SaveInvestProfitInfoRaises, SetSuccess, SetError, PoolExhausted,
       WorkerCrash, Return, queue
  <2> QED  BY <2>2, <2>3 DEF TypeInv, TypeOK, QueueOK
<1> QED  BY <1>1, <1>2, <1>3 DEF Next

(* The slot a quiet run is in: nobody else works on the strategy.          *)
LEMMA QuietRun ==
  ASSUME OutcomeInv, NEW s \in Strategies, NEW w \in Workers, ~overlap[s],
         Runs(w, s)
  PROVE  /\ about[job[w]] = s /\ pc[w] # "idle"
         /\ \A v \in Workers : Runs(v, s) => v = w
         /\ \A q \in Requests : ~Edits(q, s)
         /\ \A q \in Requests : UpdateSaveRow(q) => request[q].s # s
         /\ ~DuplicateKey(w)
<1>1. SerialInv
  BY DEF OutcomeInv
<1>2. about[job[w]] = s /\ pc[w] # "idle"
  BY DEF Runs, Working
<1>3. /\ \A v \in Workers : Runs(v, s) => v = w
      /\ \A q \in Requests : ~Edits(q, s)
  BY <1>1 DEF SerialInv, OneWriter, Running, Edited
<1>4. \A q \in Requests : UpdateSaveRow(q) => request[q].s # s
  BY <1>3 DEF UpdateSaveRow, Edits
<1>5. ~DuplicateKey(w)
  BY <1>1, <1>2 DEF DuplicateKey, SerialInv, FreshSelect, KeyedTables
<1> QED  BY <1>2, <1>3, <1>4, <1>5

(* A quiet run neither raises nor loses a connection.                      *)
LEMMA QuietStep ==
  ASSUME OutcomeInv, [Next]_vars, NEW s \in Strategies, NEW w \in Workers,
         Quiet(s)', Runs(w, s)
  PROVE  /\ ~GetDBDataRaises(w) /\ ~SaveRaises(w)
         /\ ~SaveInvestProfitInfoRaises(w) /\ ~GetPortInfoFromDBRaises(w)
         /\ ~GetPeriodInfoRaises(w)
         /\ leaked'[w] = leaked[w] \/ WorkerCrash(w)
<1>1. TypeInv /\ Quiet(s) /\ faults' = faults /\ faults \in Nat
  BY QuietSteps, FaultsGrow DEF OutcomeInv, SerialInv
<1>2. ~DuplicateKey(w)
  BY <1>1, QuietRun DEF Quiet
<1>3. ~SaveRaises(w)
  BY <1>1, <1>2, SaveRaisesFaults
<1>4. /\ ~GetDBDataRaises(w) /\ ~SaveInvestProfitInfoRaises(w)
      /\ ~GetPortInfoFromDBRaises(w) /\ ~GetPeriodInfoRaises(w)
  BY <1>1, FaultsGrow
<1>5. leaked'[w] = leaked[w] \/ WorkerCrash(w)
  BY <1>1, <1>2, LeakSteps
<1> QED  BY <1>3, <1>4, <1>5

LEMMA RunIsShownStep ==
  ASSUME OutcomeInv, [Next]_vars
  PROVE  RunIsShown'
<1> SUFFICES ASSUME NEW s \in Strategies, NEW w \in Workers, Quiet(s)',
                    Runs(w, s)', pc'[w] # "start"
             PROVE  status'[s] = "Start" /\ PoolMax - leaked'[w] > 0
  BY DEF RunIsShown, Free
<1>1. TypeInv /\ Quiet(s) /\ faults' = faults /\ faults \in Nat
  BY QuietSteps, FaultsGrow DEF OutcomeInv, SerialInv
<1>2. Runs(w, s) /\ job'[w] = job[w] /\ (Work(w) \/ pc'[w] = pc[w])
  BY <1>1, RunStep
<1>3. /\ pc'[w] # "idle" /\ about[job[w]] = s
      /\ \A v \in Workers : Runs(v, s) => v = w
      /\ \A q \in Requests : UpdateSaveRow(q) => request[q].s # s
  BY <1>1, <1>2, QuietRun DEF Quiet, Runs, Working
<1>4. ~SetSuccess(w) /\ ~SetError(w) /\ ~PoolExhausted(w) /\ ~WorkerCrash(w)
  BY <1>1, <1>3 DEF SetSuccess, SetError, PoolExhausted, WorkerCrash, Return,
                    Goto, TypeInv, TypeOK, WorkersOK
<1>5. leaked'[w] = leaked[w] /\ ~GetDBDataRaises(w) /\ ~SaveRaises(w)
  BY <1>2, <1>4, QuietStep
<1>6. CASE pc[w] = "start"
  <2>1. SetStart(w)
    BY <1>1, <1>2, <1>4, <1>6, SaveNames
       DEF Work, GetPeriodInfo, GetPeriodInfoRaises, NoPortInfo,
           GetPortInfoFromDB, GetPortInfoFromDBRaises, Simulate,
           GetDBDataRaises, SaveSelect, SaveWrite, SaveColumn, SaveRaises,
           SaveInvestProfitInfoRaises, Columns
  <2>2. status' = [status EXCEPT ![s] = "Start"]
    BY <1>1, <1>3, <2>1 DEF SetStart, SetStatus, Fault
  <2>3. PoolMax - leaked[w] > 0
    BY <2>1 DEF SetStart, Free
  <2> QED  BY <1>1, <1>5, <2>2, <2>3 DEF TypeInv, TypeOK, DatabaseOK
<1>7. CASE pc[w] # "start"
  <2>1. status[s] = "Start" /\ PoolMax - leaked[w] > 0
    BY <1>1, <1>2, <1>7 DEF OutcomeInv, RunIsShown, Free
  <2>2. status'[s] = status[s]
    BY <1>1, <1>3, <1>4, <1>5, <2>1, StatusWriters
  <2> QED  BY <1>5, <2>1, <2>2
<1> QED  BY <1>6, <1>7

LEMMA StartIsHeldStep ==
  ASSUME OutcomeInv, [Next]_vars
  PROVE  StartIsHeld'
<1> SUFFICES ASSUME NEW s \in Strategies, Quiet(s)', status'[s] = "Start",
                    ~ \E t \in Tasks : about'[t] = s /\ phase'[t] \in {"error", "lost"}
             PROVE  \E w \in Workers : Runs(w, s)' /\ pc'[w] # "start"
  BY DEF StartIsHeld
<1>1. TypeInv /\ Quiet(s) /\ faults' = faults /\ faults \in Nat
  BY QuietSteps, FaultsGrow DEF OutcomeInv, SerialInv
<1>2. CASE status[s] # "Start"
  <2>1. PICK w \in Workers : Runs(w, s) /\ SetStart(w)
    <3>1. ASSUME NEW q \in Requests, UpdateSaveRow(q), request[q].s = s
          PROVE  status'[s] = status[s]
      BY <1>1, <3>1 DEF Quiet, UpdateSaveRow, OutcomeInv, SerialInv,
                        FreshSnapshot, TypeInv, TypeOK, DatabaseOK
    <3> QED  BY <1>1, <1>2, <3>1, StatusWriters
  <2>2. pc'[w] = "period" /\ job' = job /\ about' = about
    BY <1>1, <2>1 DEF SetStart, Goto, queue, TypeInv, TypeOK, WorkersOK
  <2> QED  BY <2>1, <2>2 DEF Runs, Working
<1>3. CASE status[s] = "Start"
  <2>1. ASSUME NEW t \in Tasks, about[t] = s, phase[t] \in {"error", "lost"}
        PROVE  FALSE
    <3>1. about'[t] = s
      BY <1>1, <2>1, AboutSteps
    <3>2. phase'[t] = phase[t]
      BY <1>1, <2>1, PhaseKept
    <3> QED  BY <2>1, <3>1, <3>2
  <2>2. PICK w \in Workers : Runs(w, s) /\ pc[w] # "start"
    BY <1>1, <1>3, <2>1 DEF OutcomeInv, StartIsHeld
  <2>3. job[w] \in Tasks /\ about[job[w]] = s /\ about'[job[w]] = s
    BY <1>1, <2>2, WorkersStrategy, AboutSteps, "running" # "unused" DEF Runs, Working
  <2>4. Free(w) > 0
    BY <1>1, <2>2 DEF OutcomeInv, RunIsShown
  <2>5. ~NoPortInfo(w) /\ ~WorkerCrash(w)
    BY <1>1, <2>3 DEF NoPortInfo, WorkerCrash, Return, TypeInv, TypeOK, QueueOK
  <2>6. ~PoolExhausted(w)
    BY <1>1, <2>4, PipelineAssumption DEF PoolExhausted
  <2>7. ~SetSuccess(w) /\ ~SetError(w)
    BY <1>1, <2>3 DEF SetSuccess, SetError, SetStatus, Fault, TypeInv, TypeOK,
                      DatabaseOK
  <2>8. job'[w] = job[w] /\ pc'[w] \notin {"idle", "start"}
    <3>1. CASE ~Work(w)
      <4>1. pc[w] # "idle"
        BY <2>2 DEF Runs, Working
      <4>2. ~ \E t \in Tasks : TakeTask(w, t)
        BY <4>1 DEF TakeTask, Working
      <4> QED  BY <1>1, <2>2, <2>5, <3>1, <4>1, <4>2, WorkerSteps
    <3>2. CASE Work(w)
      BY <1>1, <2>2, <2>5, <2>6, <2>7, <3>2, StepNames, SaveNames, AfterNames
         DEF Work, SetStart, GetPeriodInfo, GetPeriodInfoRaises,
             GetPortInfoFromDB, GetPortInfoFromDBRaises, Simulate,
             GetDBDataRaises, SaveSelect, SaveWrite, SaveColumn, SaveRaises,
             SaveInvestProfitInfoRaises, Goto, queue, Runs, Working, TypeInv,
             TypeOK, WorkersOK
    <3> QED  BY <3>1, <3>2
  <2> QED  BY <2>3, <2>8 DEF Runs, Working
<1> QED  BY <1>2, <1>3

(* Whole figures are those that every save has left.                       *)
LEMMA WholeIsSaved ==
  ASSUME NEW s \in Strategies, NEW a,
         \A t \in KeyedTables : \E k \in Tasks :
           rows[s][t] = {[by |-> k, amount |-> a]},
         \E r \in rows[s]["daily"] : r.amount = a,
         report[s] = [type |-> a, html |-> a],
         profit[s].price \in {a, Null}
  PROVE  Saved(s, Tables \union Columns, a)
BY DEF Saved

(* One save of a quiet run: select, then update or insert.                 *)
LEMMA SaveWriteSaves ==
  ASSUME OutcomeInv, NEW s \in Strategies, NEW w \in Workers, ~overlap[s],
         Runs(w, s), SaveWrite(w), NEW a, a = amount[w],
         NEW S, Saved(s, S, a), NEW T, T = S \union {pc[w]}
  PROVE  Saved(s, T, a)'
<1> DEFINE old == rows[s][pc[w]]
           new == IF seen[w] = "one"
                  THEN {[by |-> r.by, amount |-> a] : r \in old}
                  ELSE old \union {[by |-> job[w], amount |-> a]}
<1> HIDE DEF new
<1>1. /\ rows \in [Strategies -> [Tables -> SUBSET Row]]
      /\ seen[w] \in {"unread", "one", "other"}
      /\ job[w] \in Tasks /\ about[job[w]] = s
  BY WorkersStrategy DEF OutcomeInv, SerialInv, TypeInv, TypeOK, DatabaseOK,
                         WorkersOK, Runs, Working
<1>2. /\ pc[w] \in Tables /\ seen[w] # "unread"
      /\ rows' = [rows EXCEPT ![s][pc[w]] = new]
      /\ profit' = profit /\ report' = report
  BY <1>1 DEF SaveWrite, new
<1>3. /\ rows'[s][pc[w]] = new
      /\ \A t \in Tables \ {pc[w]} : rows'[s][t] = rows[s][t]
  BY <1>1, <1>2
<1>4. ASSUME pc[w] \in KeyedTables
      PROVE  \E k \in Tasks : new = {[by |-> k, amount |-> a]}
  <2>1. CASE seen[w] = "one"
    <3>1. PICK r \in old : old = {r}
      BY <2>1 DEF OutcomeInv, FreshRow
    <3>2. r.by \in Tasks
      BY <1>1, <1>2, <3>1 DEF Row
    <3>3. new = {[by |-> r.by, amount |-> a]}
      BY <2>1, <3>1 DEF new
    <3> QED  BY <3>2, <3>3
  <2>2. CASE seen[w] = "other"
    <3>1. old = {}
      BY <1>4, <2>2 DEF OutcomeInv, SerialInv, FreshSelect
    <3>2. new = {[by |-> job[w], amount |-> a]}
      BY <2>2, <3>1 DEF new
    <3> QED  BY <1>1, <3>2
  <2> QED  BY <1>1, <1>2, <2>1, <2>2
<1>5. ASSUME pc[w] = "daily"
      PROVE  \E r \in new : r.amount = a
  <2>1. seen[w] # "one"
    BY <1>5 DEF OutcomeInv, FreshRow
  <2>2. [by |-> job[w], amount |-> a] \in new
    BY <2>1 DEF new
  <2> QED  BY <2>2
<1>6. ASSUME NEW t \in KeyedTables, t \in T
      PROVE  \E k \in Tasks : rows'[s][t] = {[by |-> k, amount |-> a]}
  <2>1. CASE t = pc[w]
    BY <1>3, <1>4, <2>1
  <2>2. CASE t # pc[w]
    BY <1>3, <1>6, <2>2, SaveNames DEF Saved
  <2> QED  BY <2>1, <2>2
<1>7. ASSUME "daily" \in T
      PROVE  \E r \in rows'[s]["daily"] : r.amount = a
  <2>1. CASE pc[w] = "daily"
    BY <1>3, <1>5, <2>1
  <2>2. CASE pc[w] # "daily"
    <3>1. "daily" \in Tables
      BY DEF Tables
    <3> QED  BY <1>3, <1>7, <2>2, <3>1 DEF Saved
  <2> QED  BY <2>1, <2>2
<1>8. pc[w] \notin {"profit", "type", "html"}
  BY <1>2, SaveNames DEF Columns
<1> QED  BY <1>2, <1>6, <1>7, <1>8 DEF Saved

(* The same for the saves that only update a row.                          *)
LEMMA SaveColumnSaves ==
  ASSUME OutcomeInv, NEW s \in Strategies, NEW w \in Workers, Runs(w, s),
         SaveColumn(w), NEW a, a = amount[w],
         NEW S, Saved(s, S, a), pc[w] = "html" => "detail" \in S,
         NEW T, T = S \union {pc[w]}
  PROVE  Saved(s, T, a)'
<1>1. /\ profit \in [Strategies -> [principal : Amounts \union {Null},
                                    price : Amounts \union {Null}]]
      /\ report \in [Strategies -> [type : Amounts \union {Null},
                                    html : Amounts \union {Null}]]
      /\ about[job[w]] = s
  BY DEF OutcomeInv, SerialInv, TypeInv, TypeOK, DatabaseOK, Runs
<1>2. /\ pc[w] \in {"profit", "type", "html"} /\ rows' = rows
      /\ profit' = IF pc[w] = "profit" /\ profit[s].principal # Null
                   THEN [profit EXCEPT ![s] = [principal |-> a, price |-> a]]
                   ELSE profit
      /\ report' = IF \/ pc[w] = "type"
                      \/ pc[w] = "html" /\ rows[s]["detail"] # {}
                   THEN [report EXCEPT ![s][pc[w]] = a]
                   ELSE report
  BY <1>1 DEF SaveColumn, Columns
<1>3. pc[w] \notin KeyedTables /\ pc[w] # "daily"
  BY <1>2, SaveNames DEF Columns
<1>4. CASE pc[w] = "profit"
  <2>1. profit'[s].price \in {a, Null}
    BY <1>1, <1>2, <1>4 DEF OutcomeInv, PriceNeedsPrincipal
  <2>2. report' = report
    BY <1>2, <1>4
  <2> QED  BY <1>2, <1>3, <1>4, <2>1, <2>2 DEF Saved
<1>5. CASE pc[w] = "type"
  <2>1. report'[s].type = a /\ report'[s].html = report[s].html
    BY <1>1, <1>2, <1>5
  <2>2. profit' = profit
    BY <1>2, <1>5
  <2> QED  BY <1>2, <1>3, <1>5, <2>1, <2>2 DEF Saved
<1>6. CASE pc[w] = "html"
  <2>1. rows[s]["detail"] # {}
    <3>1. "detail" \in KeyedTables
      BY DEF KeyedTables, UniqueTables
    <3> QED  BY <1>6, <3>1 DEF Saved
  <2>2. report' = [report EXCEPT ![s].html = a]
    BY <1>2, <1>6, <2>1
  <2>3. report'[s].html = a /\ report'[s].type = report[s].type
    BY <1>1, <2>2
  <2>4. profit' = profit
    BY <1>2, <1>6
  <2> QED  BY <1>2, <1>3, <1>6, <2>3, <2>4 DEF Saved
<1> QED  BY <1>2, <1>4, <1>5, <1>6

LEMMA SavedSoFarStep ==
  ASSUME OutcomeInv, [Next]_vars
  PROVE  SavedSoFar'
<1> SUFFICES ASSUME NEW s \in Strategies, NEW w \in Workers, Quiet(s)',
                    Runs(w, s)', pc'[w] \in DOMAIN Behind,
                    NEW S, S = Behind[pc'[w]], NEW a, a = amount'[w]
             PROVE  Saved(s, S, a)'
  BY DEF SavedSoFar, Saved
<1>1. TypeInv /\ Quiet(s) /\ ~overlap[s] /\ ~overlap'[s]
  BY QuietSteps DEF OutcomeInv, SerialInv, Quiet
<1>2. pc'[w] # "start"
  BY BehindNames, SaveNames, StepNames DEF Columns
<1>3. /\ Runs(w, s) /\ job'[w] = job[w]
      /\ Work(w) \/ (pc'[w] = pc[w] /\ amount'[w] = amount[w] /\ ~Work(w))
  BY <1>1, <1>2, RunStep
<1>4. \A v \in Workers : Runs(v, s) => v = w
  BY <1>1, <1>3, QuietRun
<1>5. CASE ~SaveWrite(w) /\ ~SaveColumn(w) /\ pc'[w] = pc[w] /\ amount'[w] = amount[w]
  <2>1. Saved(s, S, a)
    BY <1>1, <1>3, <1>5 DEF OutcomeInv, SavedSoFar
  <2> QED  BY <1>1, <1>4, <1>5, <2>1, FiguresSteps, SavedStays
<1>6. CASE SaveWrite(w)
  <2>1. /\ pc[w] \in Tables /\ pc'[w] = After[pc[w]] /\ amount' = amount
    BY <1>1, <1>6 DEF SaveWrite, Goto, TypeInv, TypeOK, WorkersOK
  <2>2. pc[w] \in DOMAIN Behind /\ S = Behind[pc[w]] \union {pc[w]}
    BY <2>1, BehindNames
  <2>3. Saved(s, Behind[pc[w]], a)
    BY <1>1, <1>3, <2>1, <2>2 DEF OutcomeInv, SavedSoFar
  <2> QED  BY <1>1, <1>3, <1>6, <2>1, <2>2, <2>3, SaveWriteSaves
<1>7. CASE SaveColumn(w)
  <2>1. /\ pc[w] \in Columns /\ pc'[w] = After[pc[w]] /\ amount' = amount
    BY <1>1, <1>7 DEF SaveColumn, Goto, TypeInv, TypeOK, WorkersOK
  <2>2. pc[w] \in DOMAIN Behind /\ S = Behind[pc[w]] \union {pc[w]}
    BY <2>1, BehindNames
  <2>3. Saved(s, Behind[pc[w]], a)
    BY <1>1, <1>3, <2>1, <2>2 DEF OutcomeInv, SavedSoFar
  <2>4. pc[w] = "html" => "detail" \in Behind[pc[w]]
    BY BehindNames DEF Tables, KeyedTables, UniqueTables
  <2> QED  BY <1>3, <1>7, <2>1, <2>2, <2>3, <2>4, SaveColumnSaves
<1>8. CASE Simulate(w)
  <2>1. pc'[w] \in {"monthly", "fail"}
    BY <1>1, <1>8 DEF Simulate, Goto, TypeInv, TypeOK, WorkersOK
  <2>2. pc'[w] = "monthly"
    BY <2>1, BehindNames, SaveNames DEF Columns
  <2> QED  BY <2>2, BehindNames DEF Saved
<1>9. CASE SaveSelect(w)
  <2>1. pc' = pc /\ amount' = amount /\ pc[w] \in Tables
    BY <1>9 DEF SaveSelect
  <2>2. ~SaveWrite(w) /\ ~SaveColumn(w)
    BY <1>9, <2>1, SaveNames DEF SaveSelect, SaveWrite, SaveColumn
  <2> QED  BY <1>5, <2>1, <2>2
<1>10. ASSUME Work(w), ~SaveWrite(w), ~SaveColumn(w), ~Simulate(w), ~SaveSelect(w)
       PROVE  FALSE
  <2>1. /\ ~GetDBDataRaises(w) /\ ~SaveRaises(w)
        /\ ~SaveInvestProfitInfoRaises(w) /\ ~GetPortInfoFromDBRaises(w)
        /\ ~GetPeriodInfoRaises(w)
    BY <1>3, QuietStep
  <2>2. pc'[w] \in {"period", "universe", "simulate", "fail", "idle"}
    BY <1>1, <1>10, <2>1 DEF Work, SetStart, GetPeriodInfo, NoPortInfo,
       GetPortInfoFromDB, SetSuccess, SetError, PoolExhausted, Return, Goto,
       TypeInv, TypeOK, WorkersOK
  <2> QED  BY <2>2, BehindNames, SaveNames DEF Columns
<1>11. ASSUME SaveWrite(w) \/ SaveColumn(w)
       PROVE  Work(w)
  BY <1>11 DEF Work
<1> QED  BY <1>3, <1>5, <1>6, <1>7, <1>8, <1>9, <1>10, <1>11

(* A run writes figures only after it has begun, and then "Start" is shown.*)
LEMMA SuccessIsWholeStep ==
  ASSUME OutcomeInv, [Next]_vars
  PROVE  SuccessIsWhole'
<1> DEFINE All == Tables \union Columns
<1>1. ASSUME NEW s \in Strategies, Quiet(s)', status'[s] = "Success"
      PROVE  \E a \in Amounts : Saved(s, All, a)'
  <2>1. TypeInv /\ Quiet(s) /\ ~overlap[s] /\ ~overlap'[s] /\ faults' = faults
        /\ faults \in Nat
    BY <1>1, QuietSteps, FaultsGrow DEF OutcomeInv, SerialInv, Quiet
  <2>2. CASE status[s] # "Success"
    <3>1. PICK w \in Workers : Runs(w, s) /\ SetSuccess(w)
      <4>1. ASSUME NEW q \in Requests, UpdateSaveRow(q), request[q].s = s
            PROVE  status'[s] = status[s]
        BY <2>1, <4>1 DEF UpdateSaveRow, OutcomeInv, SerialInv,
                          FreshSnapshot, TypeInv, TypeOK, DatabaseOK
      <4> QED  BY <1>1, <2>1, <2>2, <4>1, StatusWriters
    <3>2. pc[w] = "finish" /\ amount[w] \in Amounts
      BY <2>1, <3>1 DEF SetSuccess, TypeInv, TypeOK, WorkersOK
    <3>3. Saved(s, All, amount[w])
      <4>1. "finish" \in DOMAIN Behind /\ Behind["finish"] = All
        BY BehindNames
      <4> HIDE DEF All
      <4> QED  BY <2>1, <3>1, <3>2, <4>1 DEF OutcomeInv, SavedSoFar
    <3>4. /\ rows'[s] = rows[s] /\ report'[s] = report[s]
          /\ profit'[s].price = profit[s].price
      BY <3>1 DEF SetSuccess
    <3> QED  BY <3>2, <3>3, <3>4, SavedStays
  <2>3. CASE status[s] = "Success"
    <3>1. PICK a \in Amounts : Saved(s, All, a)
      BY <2>1, <2>3, WholeIsSaved DEF OutcomeInv, SuccessIsWhole, Quiet
    <3>2. ASSUME NEW w \in Workers, Runs(w, s), SaveWrite(w) \/ SaveColumn(w)
          PROVE  FALSE
      <4>1. pc[w] # "start"
        BY <3>2, SaveNames DEF SaveWrite, SaveColumn, Columns
      <4> QED  BY <2>1, <2>3, <3>2, <4>1 DEF OutcomeInv, RunIsShown
    <3> QED  BY <2>1, <3>1, <3>2, FiguresSteps, SavedStays
  <2> QED  BY <2>2, <2>3
<1>2. ASSUME NEW s \in Strategies, NEW a, Saved(s, All, a)'
      PROVE  /\ \A t \in KeyedTables : \E k \in Tasks :
                  rows'[s][t] = {[by |-> k, amount |-> a]}
             /\ \E r \in rows'[s]["daily"] : r.amount = a
             /\ report'[s].type = a /\ report'[s].html = a
             /\ profit'[s].price \in {a, Null}
  BY <1>2 DEF Saved, Tables, Columns
<1>3. \A s \in Strategies : report'[s] \in [type : Amounts \union {Null},
                                            html : Amounts \union {Null}]
  BY NextTypeInv DEF OutcomeInv, SerialInv, TypeInv, TypeOK, DatabaseOK
<1>4. ASSUME NEW s \in Strategies, NEW a, report'[s].type = a, report'[s].html = a
      PROVE  report'[s] = [type |-> a, html |-> a]
  BY <1>3, <1>4
<1>5. ASSUME NEW s \in Strategies, Quiet(s)', status'[s] = "Success"
      PROVE  \E a \in Amounts :
               /\ \A t \in KeyedTables : \E k \in Tasks :
                    rows'[s][t] = {[by |-> k, amount |-> a]}
               /\ \E r \in rows'[s]["daily"] : r.amount = a
               /\ report'[s] = [type |-> a, html |-> a]
               /\ profit'[s].price \in {a, Null}
  <2>1. PICK a \in Amounts : Saved(s, All, a)'
    BY <1>1, <1>5
  <2> QED  BY <1>2, <1>4, <2>1
<1> QED  BY <1>5 DEF SuccessIsWhole, Quiet

-----------------------------------------------------------------------------
LEMMA InitOutcomeInv == Init => OutcomeInv
BY InitSerialInv
   DEF Init, OutcomeInv, PriceNeedsPrincipal, FreshFigures, FreshRow,
       RunIsShown, SavedSoFar, StartIsHeld, SuccessIsWhole, Runs, Edits,
       Working, IdleRequest

LEMMA NextOutcomeInv == OutcomeInv /\ [Next]_vars => OutcomeInv'
BY NextSerialInv, PriceNeedsPrincipalStep, FreshFiguresStep, FreshRowStep,
   RunIsShownStep, SavedSoFarStep, StartIsHeldStep, SuccessIsWholeStep
   DEF OutcomeInv

LEMMA AlwaysOutcomeInv == Spec => []OutcomeInv
BY InitOutcomeInv, NextOutcomeInv, PTL DEF Spec

(* "Success" is shown only with figures that belong together: as long as   *)
(* no writers of the strategy overlap and no call raises, every keyed      *)
(* table, the classification and the report stem from one principal, and   *)
(* the daily chart has rows of it, though saveDB writes them one by one    *)
(* and edits write some of them back (saveDB, updateMyStrategyById).       *)
THEOREM SuccessIsComplete == Spec => []SuccessIsWhole
BY AlwaysOutcomeInv, PTL DEF OutcomeInv

(* As long as the database answers, a strategy stays in "Start" only while *)
(* it runs, or after a run that found no universe or died (portBacktest).  *)
THEOREM StartIsAccounted == Spec => []StartIsExplained
<1>1. OutcomeInv => StartIsExplained
  BY DEF OutcomeInv, StartIsHeld, StartIsExplained, Quiet, Running
<1> QED  BY <1>1, AlwaysOutcomeInv, PTL

================================================================================
