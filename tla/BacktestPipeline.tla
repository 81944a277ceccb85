--------------------------- MODULE BacktestPipeline ---------------------------
(***************************************************************************)
(* The life of a backtest, from the strategy a user saves on the business  *)
(* server (NestJS, strategy.service.ts, flask.service.ts, cron.service.ts) *)
(* through the Celery queue of the data-analysis server (routeBacktest.py, *)
(* processor.py) to the result tables that a worker process fills one by   *)
(* one (BacktestMultiPort.py) in the database both servers share.          *)
(*                                                                         *)
(* Neither server holds a transaction across two database calls, so every  *)
(* call is an action of its own and the calls of different requests,       *)
(* workers and the midnight job interleave freely.                         *)
(***************************************************************************)
EXTENDS Naturals

CONSTANTS
  Strategies,     (* codes of member_strategy rows                         *)
  Tasks,          (* Celery task ids; the number of accepted requests      *)
  Workers,        (* Celery worker processes                               *)
  Requests,       (* HTTP requests the business server handles at a time   *)
  Principals,     (* values a user gives invest_profit_info.invest_principal *)
  DefaultAmount,  (* the 1000 that getPeriodInfo falls back to             *)
  Null, NoTask, NoStrategy,
  PoolMax,        (* connections of a process: 20 in connectionPool.py     *)
  MaxFaults,      (* bound: database calls that raise                      *)
  MaxCrashes      (* bound: processes that die                             *)

ASSUME PipelineAssumption ==
  /\ NoTask \notin Tasks
  /\ NoStrategy \notin Strategies
  /\ DefaultAmount \notin Principals
  /\ Null \notin Principals \union {DefaultAmount}
  /\ PoolMax \in Nat \ {0}
  /\ MaxFaults \in Nat
  /\ MaxCrashes \in Nat

VARIABLES
  (* the database *)
  row,        (* row[s]: is the member_strategy row there, soft-deleted?  *)
  status,     (* status[s]: its status_code                               *)
  profit,     (* profit[s]: the row of invest_profit_info                 *)
  universe,   (* universe[s]: the rows of universal                       *)
  rows,       (* rows[s][t]: the rows of result table t, for one key      *)
  report,     (* report[s]: invest_type and quant_state_report            *)
  (* the business server *)
  request,    (* request[q]: the request q is handling                    *)
  retry,      (* strategies the midnight job has still to push            *)
  (* the queue and the workers *)
  phase,      (* phase[t]: a task's place in its life, or what it returned *)
  about,      (* about[t]: the strategy it was pushed for                 *)
  job, pc,    (* job[w], pc[w]: the worker's task and its place in it     *)
  amount,     (* amount[w]: the principal the run works with              *)
  seen,       (* seen[w]: what the select before a save found             *)
  leaked,     (* leaked[w]: connections never given back to the pool      *)
  faults, crashes,
  (* history variables *)
  wanted,     (* wanted[s]: what the user last asked for and was granted  *)
  overlap     (* overlap[s]: two of the strategy's writers ran at once    *)

database == <<row, status, profit, universe, rows, report>>
business == <<request, retry>>
queue    == <<phase, about>>
workers  == <<job, pc, amount, seen, leaked>>
history  == <<wanted, overlap>>
vars == <<database, business, queue, workers, faults, crashes, history>>

-----------------------------------------------------------------------------
(* Data *)

Amounts  == Principals \union {DefaultAmount}
Statuses == {"null", "Start", "Error", "Success"}

(* The result tables a run fills by "select; update if there is exactly   *)
(* one row, else insert".  Two of them have a unique strategy_code.       *)
UniqueTables == {"winratio", "detail"}
ChartTables  == {"monthly", "accumulate", "history"}
KeyedTables  == UniqueTables \union ChartTables
Tables       == KeyedTables \union {"daily"}

(* The other saves only update rows that are already there.               *)
Columns == {"profit", "type", "html"}

Row == [by : Tasks, amount : Amounts]

(* A slip: saveDB without its last save.                                   *)
AfterWithoutHtml ==
  [monthly |-> "winratio", winratio |-> "detail", detail |-> "profit",
   profit |-> "daily", daily |-> "accumulate", accumulate |-> "history",
   history |-> "type", type |-> "finish"]

(* The order of saveDB.                                                   *)
After == [monthly |-> "winratio", winratio |-> "detail", detail |-> "profit",
          profit |-> "daily", daily |-> "accumulate", accumulate |-> "history",
          history |-> "type", type |-> "html", html |-> "finish"]

Steps == {"start", "period", "universe", "simulate", "finish", "fail"}
           \union Tables \union Columns

Returned == {"Done", "error", "None", "raised"}
Phases   == {"unused", "queued", "running", "lost"} \union Returned

IdleRequest == [pc |-> "idle", s |-> NoStrategy, status |-> "null",
                type |-> Null, principal |-> Null, price |-> Null]

Working(w)  == pc[w] # "idle"
Runs(w, s)  == Working(w) /\ about[job[w]] = s
Edits(q, s) == request[q].pc \in {"row", "profit"} /\ request[q].s = s

(* Someone is between reading and writing back data of s.                 *)
Running(s) == \E w \in Workers : Runs(w, s)
Edited(s)  == \E q \in Requests : Edits(q, s)
Busy(s)    == Running(s) \/ Edited(s)

Note(s, clash) == overlap' = [overlap EXCEPT ![s] = @ \/ clash]

Fault(n) == faults + n <= MaxFaults /\ faults' = faults + n

Init ==
  /\ row = [s \in Strategies |-> "absent"]
  /\ status = [s \in Strategies |-> "null"]
  /\ profit = [s \in Strategies |-> [principal |-> Null, price |-> Null]]
  /\ universe = [s \in Strategies |-> "empty"]
  /\ rows = [s \in Strategies |-> [t \in Tables |-> {}]]
  /\ report = [s \in Strategies |-> [type |-> Null, html |-> Null]]
  /\ request = [q \in Requests |-> IdleRequest]
  /\ retry = {}
  /\ phase = [t \in Tasks |-> "unused"]
  /\ about = [t \in Tasks |-> NoStrategy]
  /\ job = [w \in Workers |-> NoTask]
  /\ pc = [w \in Workers |-> "idle"]
  /\ amount = [w \in Workers |-> DefaultAmount]
  /\ seen = [w \in Workers |-> "unread"]
  /\ leaked = [w \in Workers |-> 0]
  /\ faults = 0
  /\ crashes = 0
  /\ wanted = [s \in Strategies |-> [principal |-> Null, gone |-> FALSE]]
  /\ overlap = [s \in Strategies |-> FALSE]

-----------------------------------------------------------------------------
(* The business server: strategy.service.ts and trading.service.ts         *)

(* createMyStrategy, first call: the member_strategy row, status_code null. *)
CreateStrategy(s) ==
  /\ row[s] = "absent"
  /\ row' = [row EXCEPT ![s] = "live"]
  /\ UNCHANGED <<status, profit, universe, rows, report, business, queue,
                 workers, faults, crashes, history>>

(* createMyStrategy, second call: its invest_profit_info row.  The two are *)
(* not in a transaction; the process may die or be overtaken in between.   *)
CreateInvestProfitInfo(s) ==
  /\ row[s] # "absent"
  /\ profit[s].principal = Null
  /\ \E p \in Principals :
       /\ profit' = [profit EXCEPT ![s].principal = p]
       /\ wanted' = [wanted EXCEPT ![s].principal = p]
  /\ Note(s, Running(s))
  /\ UNCHANGED <<row, status, universe, rows, report, business, queue,
                 workers, faults, crashes>>

(* addUniversal, first call: a universal row with the column defaults, a   *)
(* GoldenCross whose settings are {}.  Bound: one such row at a time.      *)
AddUniversalOnly(s) ==
  /\ row[s] = "live"
  /\ universe[s] # "bare"
  /\ universe' = [universe EXCEPT ![s] = "bare"]
  /\ UNCHANGED <<row, status, profit, rows, report, business, queue, workers,
                 faults, crashes, history>>

(* addUniversal, second call: the settings of that row.                    *)
UpsertTradingStrategy(s) ==
  /\ row[s] = "live"
  /\ universe[s] = "bare"
  /\ universe' = [universe EXCEPT ![s] = "ready"]
  /\ UNCHANGED <<row, status, profit, rows, report, business, queue, workers,
                 faults, crashes, history>>

(* softDeleteMyStrategyById: deleteAt is set, everything else stays.       *)
SoftDelete(s) ==
  /\ row[s] = "live"
  /\ row' = [row EXCEPT ![s] = "deleted"]
  /\ wanted' = [wanted EXCEPT ![s].gone = TRUE]
  /\ Note(s, Edited(s))
  /\ UNCHANGED <<status, profit, universe, rows, report, business, queue,
                 workers, faults, crashes>>

(* updateMyStrategyById, first call: the row and its invest_profit_info    *)
(* are read as one entity and what was sent is put into it.  Without an    *)
(* invest_profit_info row there is nothing to put a principal or a fee     *)
(* into, and the handler raises at once; other fields can be sent.         *)
UpdateRead(q, s) ==
  /\ request[q].pc = "idle"
  /\ row[s] = "live"
  /\ \E p \in Principals \union {profit[s].principal} :
       /\ profit[s].principal = Null => p = Null
       /\ request' = [request EXCEPT ![q] =
                       [pc |-> "row", s |-> s, status |-> status[s],
                        type |-> report[s].type,
                        principal |-> p, price |-> profit[s].price]]
  /\ Note(s, Busy(s))
  /\ UNCHANGED <<database, retry, queue, workers, faults, crashes, wanted>>

(* What was read without an invest_profit_info cannot be saved once there  *)
(* is one: save would unlink it, and strategy_code may not be null.        *)
Unlinks(r) == r.principal = Null /\ profit[r.s].principal # Null

(* A slip: the update asks for a new run by resetting the status.          *)
UpdateResetsStatus(q) ==
  LET r == request[q] IN
  /\ r.pc = "row" /\ ~ Unlinks(r)
  /\ row' = [row EXCEPT ![r.s] = "live"]
  /\ status' = [status EXCEPT ![r.s] = "null"]
  /\ report' = [report EXCEPT ![r.s].type = r.type]
  /\ request' = [request EXCEPT ![q].pc = "profit"]
  /\ UNCHANGED <<profit, universe, rows, retry, queue, workers, faults,
                 crashes, history>>

(* updateMyStrategyById, second call: save writes back every column of the *)
(* entity that differs from the table, deleteAt and status_code included.  *)
UpdateSaveRow(q) ==
  LET r == request[q] IN
  /\ r.pc = "row" /\ ~ Unlinks(r)
  /\ row' = [row EXCEPT ![r.s] = "live"]
  /\ status' = [status EXCEPT ![r.s] = r.status]
  /\ report' = [report EXCEPT ![r.s].type = r.type]
  /\ request' = [request EXCEPT ![q].pc = "profit"]
  /\ UNCHANGED <<profit, universe, rows, retry, queue, workers, faults,
                 crashes, history>>

(* A slip: the strategy is saved without its invest_profit_info.           *)
UpdateForgetsProfit(q) ==
  LET r == request[q] IN
  /\ r.pc = "profit" /\ r.principal # Null
  /\ wanted' = [wanted EXCEPT ![r.s].principal = r.principal]
  /\ request' = [request EXCEPT ![q].pc = "check"]
  /\ UNCHANGED <<row, status, profit, universe, rows, report, retry, queue,
                 workers, faults, crashes, overlap>>

(* updateMyStrategyById, third call: the invest_profit_info half of the    *)
(* entity.  Then the handler answers and pushes a backtest.                *)
UpdateSaveProfit(q) ==
  LET r == request[q] IN
  /\ r.pc = "profit" /\ r.principal # Null
  /\ profit' = [profit EXCEPT ![r.s] = [principal |-> r.principal,
                                        price |-> r.price]]
  /\ wanted' = [wanted EXCEPT ![r.s].principal = r.principal]
  /\ request' = [request EXCEPT ![q].pc = "check"]
  /\ UNCHANGED <<row, status, universe, rows, report, retry, queue, workers,
                 faults, crashes, overlap>>

(* The second call raises, or the third, which has nothing to save: the    *)
(* handler answers with an error and pushes nothing.                       *)
UpdateRaises(q) ==
  LET r == request[q] IN
  /\ \/ r.pc = "row" /\ Unlinks(r)
     \/ r.pc = "profit" /\ r.principal = Null
  /\ request' = [request EXCEPT ![q] = IdleRequest]
  /\ UNCHANGED <<database, retry, queue, workers, faults, crashes, history>>

(* POST /backtest-q by the strategy's owner.                               *)
PushRequested(q, s) ==
  /\ request[q].pc = "idle"
  /\ request' = [request EXCEPT ![q] = [IdleRequest EXCEPT !.pc = "check",
                                                          !.s = s]]
  /\ UNCHANGED <<database, retry, queue, workers, faults, crashes, history>>

(* pushBackTestQ asks __checkMyStrategy first, which fails for a           *)
(* soft-deleted strategy and then forgets the push.                        *)
CheckMyStrategy(q) ==
  /\ request[q].pc = "check"
  /\ request' = [request EXCEPT ![q] =
                   IF row[request[q].s] = "live"
                   THEN [IdleRequest EXCEPT !.pc = "post", !.s = request[q].s]
                   ELSE IdleRequest]
  /\ UNCHANGED <<database, retry, queue, workers, faults, crashes, history>>

(* The data server puts a task on the queue.                               *)
Enqueue(t, s) ==
  /\ phase[t] = "unused"
  /\ phase' = [phase EXCEPT ![t] = "queued"]
  /\ about' = [about EXCEPT ![t] = s]

(* __requestBackTest: whether its answer arrives in time or not, an        *)
(* accepted request is on the queue; the caller of pushBackTestQ only logs. *)
PostAccepted(q) ==
  /\ request[q].pc = "post"
  /\ \E t \in Tasks : Enqueue(t, request[q].s)
  /\ request' = [request EXCEPT ![q] = IdleRequest]
  /\ UNCHANGED <<database, retry, workers, faults, crashes, history>>

(* Bound: when every task id is used the data server accepts nothing more. *)
Refusal == IF \A t \in Tasks : phase[t] # "unused" THEN UNCHANGED faults
                                                  ELSE Fault(1)

(* The request does not reach the data server, or it answers 503.          *)
PostRefused(q) ==
  /\ request[q].pc = "post"
  /\ Refusal
  /\ request' = [request EXCEPT ![q] = IdleRequest]
  /\ UNCHANGED <<database, retry, queue, workers, crashes, history>>

(* A slip: the job looks for failed backtests instead.                     *)
RetryScanErrors ==
  /\ retry = {}
  /\ retry' = {s \in Strategies : row[s] = "live" /\ status[s] = "Error"}
  /\ UNCHANGED <<database, request, queue, workers, faults, crashes, history>>

(* handleCronBackTestRetry: the live strategies whose status_code is null. *)
RetryScan ==
  /\ retry = {}
  /\ retry' = {s \in Strategies : row[s] = "live" /\ status[s] = "null"}
  /\ UNCHANGED <<database, request, queue, workers, faults, crashes, history>>

(* One turn of the loop: no check that the strategy is still there or still *)
(* without a status.                                                       *)
RetryAccepted(s) ==
  /\ s \in retry
  /\ \E t \in Tasks : Enqueue(t, s)
  /\ retry' = retry \ {s}
  /\ UNCHANGED <<database, request, workers, faults, crashes, history>>

(* The push raises, before or after the data server accepted it (the 15    *)
(* second timeout), and with it the whole loop.                            *)
RetryRaises(s) ==
  /\ s \in retry
  /\ \/ Refusal /\ UNCHANGED queue
     \/ Fault(1) /\ \E t \in Tasks : Enqueue(t, s)
  /\ retry' = {}
  /\ UNCHANGED <<database, request, workers, crashes, history>>

(* The process dies: requests in hand and the loop are forgotten.          *)
BusinessCrash ==
  /\ crashes < MaxCrashes
  /\ crashes' = crashes + 1
  /\ request' = [q \in Requests |-> IdleRequest]
  /\ retry' = {}
  /\ UNCHANGED <<database, queue, workers, faults, history>>

-----------------------------------------------------------------------------
(* A worker process: backtestTaskCall and BacktestMultiPort                *)

Goto(w, p) == pc' = [pc EXCEPT ![w] = p]

(* A slip: the process goes on without reporting its task.                 *)
ReturnUnreported(w, result) ==
  /\ Goto(w, "idle")
  /\ job' = [job EXCEPT ![w] = NoTask]
  /\ UNCHANGED phase

(* The task returns: its result is kept and the process takes the next one. *)
Return(w, result) ==
  /\ Goto(w, "idle")
  /\ phase' = [phase EXCEPT ![job[w]] = result]
  /\ job' = [job EXCEPT ![w] = NoTask]

Forget(w) == seen' = [seen EXCEPT ![w] = "unread"]

(* Connections of the process that can still be had.                       *)
Free(w) == PoolMax - leaked[w]

Leak(w) == leaked' = [leaked EXCEPT ![w] = @ + 1]

(* _setStatusMemberStrategy: an update that raises is printed and dropped. *)
SetStatus(s, code) ==
  \/ status' = [status EXCEPT ![s] = code] /\ UNCHANGED faults
  \/ Fault(1) /\ UNCHANGED status

(* A slip: a task leaves the queue only when it ends.                      *)
TakeTaskUnmarked(w, t) ==
  /\ ~Working(w)
  /\ phase[t] = "queued"
  /\ job' = [job EXCEPT ![w] = t]
  /\ Goto(w, "start")
  /\ Note(about[t], Busy(about[t]))
  /\ UNCHANGED <<database, business, phase, about, amount, seen, leaked,
                 faults, crashes, wanted>>

(* A worker process receives a task; Celery gives it to no other.          *)
TakeTask(w, t) ==
  /\ ~Working(w)
  /\ phase[t] = "queued"
  /\ phase' = [phase EXCEPT ![t] = "running"]
  /\ job' = [job EXCEPT ![w] = t]
  /\ Goto(w, "start")
  /\ Note(about[t], Busy(about[t]))
  /\ UNCHANGED <<database, business, about, amount, seen, leaked, faults,
                 crashes, wanted>>

(* portBacktest begins.                                                    *)
SetStart(w) ==
  /\ pc[w] = "start"
  /\ Free(w) > 0
  /\ SetStatus(about[job[w]], "Start")
  /\ Goto(w, "period")
  /\ UNCHANGED <<row, profit, universe, rows, report, business, queue, job,
                 amount, seen, leaked, crashes, history>>

(* A slip: no fallback for a strategy without an invest_profit_info.       *)
GetPeriodInfoBare(w) ==
  /\ pc[w] = "period"
  /\ Free(w) > 0
  /\ amount' = [amount EXCEPT ![w] = profit[about[job[w]]].principal]
  /\ Goto(w, "universe")
  /\ UNCHANGED <<database, business, queue, job, seen, leaked, faults, crashes,
                 history>>

(* getPeriodInfo: the principal of the run, or the default without a row.  *)
GetPeriodInfo(w) ==
  LET p == profit[about[job[w]]].principal IN
  /\ pc[w] = "period"
  /\ Free(w) > 0
  /\ amount' = [amount EXCEPT ![w] = IF p = Null THEN DefaultAmount ELSE p]
  /\ Goto(w, "universe")
  /\ UNCHANGED <<database, business, queue, job, seen, leaked, faults, crashes,
                 history>>

(* getPeriodInfo whose select raises: the connection is given back, but    *)
(* the result is unbound.                                                  *)
GetPeriodInfoRaises(w) ==
  /\ pc[w] = "period"
  /\ Free(w) > 0
  /\ Fault(1)
  /\ Goto(w, "fail")
  /\ UNCHANGED <<database, business, queue, job, amount, seen, leaked, crashes,
                 history>>

(* getPortInfoFromDB finds no row: portBacktest returns "error" and leaves *)
(* the status it wrote.                                                    *)
NoPortInfo(w) ==
  /\ pc[w] = "universe"
  /\ Free(w) > 0
  /\ universe[about[job[w]]] = "empty"
  /\ Return(w, "error")
  /\ UNCHANGED <<database, business, about, amount, seen, leaked, faults,
                 crashes, history>>

(* A slip: no putConn after the select.                                    *)
GetPortInfoKeepsConn(w) ==
  /\ pc[w] = "universe"
  /\ Free(w) > 0
  /\ universe[about[job[w]]] # "empty"
  /\ Goto(w, IF universe[about[job[w]]] = "ready" THEN "simulate" ELSE "fail")
  /\ Leak(w)
  /\ UNCHANGED <<database, business, queue, job, amount, seen, faults,
                 crashes, history>>

(* getPortInfoFromDB: settings still {} raise a KeyError.                  *)
GetPortInfoFromDB(w) ==
  /\ pc[w] = "universe"
  /\ Free(w) > 0
  /\ universe[about[job[w]]] # "empty"
  /\ Goto(w, IF universe[about[job[w]]] = "ready" THEN "simulate" ELSE "fail")
  /\ UNCHANGED <<database, business, queue, job, amount, seen, leaked, faults,
                 crashes, history>>

(* getPortInfoFromDB whose select raises never reaches putConn.            *)
GetPortInfoFromDBRaises(w) ==
  /\ pc[w] = "universe"
  /\ Free(w) > 0
  /\ Fault(1)
  /\ Leak(w)
  /\ Goto(w, "fail")
  /\ UNCHANGED <<database, business, queue, job, amount, seen, crashes, history>>

(* multiPortBacktest, makePortpolio, makeDBDataSet: the results are        *)
(* computed, or too little price data or an engine error raises.           *)
Simulate(w) ==
  /\ pc[w] = "simulate"
  /\ Free(w) > 0
  /\ \E next \in {"monthly", "fail"} : Goto(w, next)
  /\ UNCHANGED <<database, business, queue, job, amount, seen, leaked, faults,
                 crashes, history>>

(* _getDBData whose select raises: the connection is lost, the handler     *)
(* needs a second one to write "Error", and the run cannot go on.          *)
GetDBDataRaises(w) ==
  /\ pc[w] = "simulate"
  /\ Free(w) > 0
  /\ \/ Free(w) > 1 /\ Fault(1)
        /\ status' = [status EXCEPT ![about[job[w]]] = "Error"]
     \/ Free(w) > 1 /\ Fault(2) /\ UNCHANGED status
     \/ Free(w) = 1 /\ Fault(1) /\ UNCHANGED status
  /\ Leak(w)
  /\ Goto(w, "fail")
  /\ UNCHANGED <<row, profit, universe, rows, report, business, queue, job,
                 amount, seen, crashes, history>>

(* A slip: a select that never finds the row, as in the daily chart.       *)
SaveSelectBlind(w) ==
  /\ pc[w] \in Tables
  /\ seen[w] = "unread"
  /\ Free(w) > 0
  /\ seen' = [seen EXCEPT ![w] = "other"]
  /\ UNCHANGED <<database, business, queue, job, pc, amount, leaked, faults,
                 crashes, history>>

(* The select of a save.  The one for the daily chart asks for a strategy  *)
(* whose code is the day's profit rate and so never finds the row.         *)
SaveSelect(w) ==
  LET s == about[job[w]] IN
  /\ pc[w] \in Tables
  /\ seen[w] = "unread"
  /\ Free(w) > 0
  /\ seen' = [seen EXCEPT ![w] =
                IF pc[w] # "daily" /\ \E r \in rows[s][pc[w]] : rows[s][pc[w]] = {r}
                THEN "one" ELSE "other"]
  /\ UNCHANGED <<database, business, queue, job, pc, amount, leaked, faults,
                 crashes, history>>

(* An insert that a unique strategy_code refuses.                          *)
DuplicateKey(w) ==
  /\ pc[w] \in UniqueTables
  /\ seen[w] = "other"
  /\ rows[about[job[w]]][pc[w]] # {}

(* The write of a save and its commit.                                     *)
SaveWrite(w) ==
  LET s   == about[job[w]]
      old == rows[s][pc[w]]
      new == IF seen[w] = "one"
             THEN {[by |-> r.by, amount |-> amount[w]] : r \in old}
             ELSE old \union {[by |-> job[w], amount |-> amount[w]]}
  IN
  /\ pc[w] \in Tables
  /\ seen[w] # "unread"
  /\ ~DuplicateKey(w)
  /\ rows' = [rows EXCEPT ![s][pc[w]] = new]
  /\ Goto(w, After[pc[w]])
  /\ Forget(w)
  /\ UNCHANGED <<row, status, profit, universe, report, business, queue, job,
                 amount, leaked, faults, crashes, history>>

(* _saveInvestProfitInfoTable, _updateInvestType and _updataHTML: an       *)
(* update of a row that may not be there.  The first also writes back the  *)
(* principal the run began with.                                           *)
SaveColumn(w) ==
  LET s == about[job[w]] IN
  /\ pc[w] \in Columns
  /\ Free(w) > 0
  /\ profit' = IF pc[w] = "profit" /\ profit[s].principal # Null
               THEN [profit EXCEPT ![s] = [principal |-> amount[w],
                                           price |-> amount[w]]]
               ELSE profit
  /\ report' = IF \/ pc[w] = "type"
                  \/ pc[w] = "html" /\ rows[s]["detail"] # {}
               THEN [report EXCEPT ![s][pc[w]] = amount[w]]
               ELSE report
  /\ Goto(w, After[pc[w]])
  /\ UNCHANGED <<row, status, universe, rows, business, queue, job, amount, seen,
                 leaked, faults, crashes, history>>

(* A save that raises is rolled back; its handler writes "Error" on a      *)
(* second connection and the next save goes ahead.  Without a second       *)
(* connection the handler raises and the first is never given back.        *)
SaveRaises(w) ==
  LET s == about[job[w]]
      n == IF DuplicateKey(w) THEN 0 ELSE 1
  IN
  /\ pc[w] \in (Tables \union Columns) \ {"profit"}
  /\ Free(w) > 0
  /\ \/ /\ Free(w) > 1
        /\ \/ Fault(n) /\ status' = [status EXCEPT ![s] = "Error"]
           \/ Fault(n + 1) /\ UNCHANGED status
        /\ Goto(w, After[pc[w]])
        /\ UNCHANGED leaked
     \/ /\ Free(w) = 1
        /\ Fault(n)
        /\ Leak(w)
        /\ Goto(w, "fail")
        /\ UNCHANGED status
  /\ Forget(w)
  /\ UNCHANGED <<row, profit, universe, rows, report, business, queue, job,
                 amount, crashes, history>>

(* The handler of _saveInvestProfitInfoTable calls _setStatusMemberStrategy *)
(* with an argument short: a TypeError, before putConn.                    *)
SaveInvestProfitInfoRaises(w) ==
  /\ pc[w] = "profit"
  /\ Free(w) > 0
  /\ Fault(1)
  /\ Leak(w)
  /\ Goto(w, "fail")
  /\ UNCHANGED <<database, business, queue, job, amount, seen, crashes, history>>

(* A slip: saveDB ends without writing a status.                           *)
SetNothing(w) ==
  /\ pc[w] = "finish"
  /\ Free(w) > 0
  /\ Return(w, "Done")
  /\ UNCHANGED <<database, business, about, amount, seen, leaked, faults,
                 crashes, history>>

(* saveDB ends, whatever its saves did; portBacktest returns "Done".       *)
SetSuccess(w) ==
  /\ pc[w] = "finish"
  /\ Free(w) > 0
  /\ SetStatus(about[job[w]], "Success")
  /\ Return(w, "Done")
  /\ UNCHANGED <<row, profit, universe, rows, report, business, about, amount,
                 seen, leaked, crashes, history>>

(* The bare except of portBacktest; it returns nothing.                    *)
SetError(w) ==
  /\ pc[w] = "fail"
  /\ Free(w) > 0
  /\ SetStatus(about[job[w]], "Error")
  /\ Return(w, "None")
  /\ UNCHANGED <<row, profit, universe, rows, report, business, about, amount,
                 seen, leaked, crashes, history>>

(* Once every connection is lost getConn raises at once: in the first      *)
(* _setStatusMemberStrategy, or in the run and again in its bare except.   *)
(* The exception leaves the task, which writes nothing.                    *)
PoolExhausted(w) ==
  /\ Working(w)
  /\ seen[w] = "unread"
  /\ Free(w) = 0
  /\ Return(w, "raised")
  /\ UNCHANGED <<database, business, about, amount, seen, leaked, faults,
                 crashes, history>>

(* The process dies and Celery starts another, with a pool of its own; the *)
(* task it was working on was acknowledged when it was taken.              *)
WorkerCrash(w) ==
  /\ Working(w)
  /\ crashes < MaxCrashes
  /\ crashes' = crashes + 1
  /\ Return(w, "lost")
  /\ Forget(w)
  /\ leaked' = [leaked EXCEPT ![w] = 0]
  /\ UNCHANGED <<database, business, about, amount, faults, history>>

-----------------------------------------------------------------------------
BusinessStep ==
  \/ \E s \in Strategies :
       \/ CreateStrategy(s) \/ CreateInvestProfitInfo(s)
       \/ AddUniversalOnly(s) \/ UpsertTradingStrategy(s)
       \/ SoftDelete(s)
       \/ RetryAccepted(s) \/ RetryRaises(s)
       \/ \E q \in Requests : UpdateRead(q, s) \/ PushRequested(q, s)
  \/ \E q \in Requests :
       \/ UpdateSaveRow(q) \/ UpdateSaveProfit(q) \/ UpdateRaises(q)
       \/ CheckMyStrategy(q) \/ PostAccepted(q) \/ PostRefused(q)
  \/ RetryScan
  \/ BusinessCrash

(* What a worker does with the task it has.                                *)
Work(w) ==
  \/ SetStart(w)
  \/ GetPeriodInfo(w) \/ GetPeriodInfoRaises(w)
  \/ NoPortInfo(w) \/ GetPortInfoFromDB(w) \/ GetPortInfoFromDBRaises(w)
  \/ Simulate(w) \/ GetDBDataRaises(w)
  \/ SaveSelect(w) \/ SaveWrite(w) \/ SaveColumn(w)
  \/ SaveRaises(w) \/ SaveInvestProfitInfoRaises(w)
  \/ SetSuccess(w) \/ SetError(w)
  \/ PoolExhausted(w)

Next ==
  \/ BusinessStep
  \/ \E w \in Workers :
       \/ \E t \in Tasks : TakeTask(w, t)
       \/ Work(w)
       \/ WorkerCrash(w)

Spec == Init /\ [][Next]_vars

(* Fairness.  The worker processes and the business server's event loop    *)
(* keep running what they have in hand, and the midnight job runs every    *)
(* night; nobody obliges a user to do anything.                            *)
Fairness ==
  /\ \A w \in Workers : WF_vars(Work(w))
  /\ WF_vars(\E w \in Workers, t \in Tasks : TakeTask(w, t))
  /\ WF_vars(RetryScan)
  /\ \A s \in Strategies : WF_vars(RetryAccepted(s) \/ RetryRaises(s))
  /\ \A q \in Requests :
       WF_vars(\/ UpdateSaveRow(q) \/ UpdateSaveProfit(q) \/ UpdateRaises(q)
               \/ CheckMyStrategy(q) \/ PostAccepted(q) \/ PostRefused(q))

FairSpec == Spec /\ Fairness

-----------------------------------------------------------------------------
(* Properties *)

DatabaseOK ==
  /\ row \in [Strategies -> {"absent", "live", "deleted"}]
  /\ status \in [Strategies -> Statuses]
  /\ profit \in [Strategies -> [principal : Amounts \union {Null},
                                price : Amounts \union {Null}]]
  /\ universe \in [Strategies -> {"empty", "bare", "ready"}]
  /\ rows \in [Strategies -> [Tables -> SUBSET Row]]
  /\ report \in [Strategies -> [type : Amounts \union {Null},
                                html : Amounts \union {Null}]]

BusinessOK ==
  /\ request \in [Requests ->
                    [pc : {"idle", "row", "profit", "check", "post"},
                     s : Strategies \union {NoStrategy},
                     status : Statuses,
                     type : Amounts \union {Null},
                     principal : Amounts \union {Null},
                     price : Amounts \union {Null}]]
  /\ \A q \in Requests : request[q].pc # "idle" => request[q].s \in Strategies
  /\ retry \subseteq Strategies

QueueOK ==
  /\ phase \in [Tasks -> Phases]
  /\ about \in [Tasks -> Strategies \union {NoStrategy}]
  /\ \A t \in Tasks : phase[t] # "unused" => about[t] \in Strategies

WorkersOK ==
  /\ job \in [Workers -> Tasks \union {NoTask}]
  /\ pc \in [Workers -> Steps \union {"idle"}]
  /\ \A w \in Workers : Working(w) => job[w] \in Tasks
  /\ amount \in [Workers -> Amounts]
  /\ seen \in [Workers -> {"unread", "one", "other"}]
  /\ leaked \in [Workers -> 0 .. PoolMax]

CountersOK ==
  /\ faults \in 0 .. MaxFaults
  /\ crashes \in 0 .. MaxCrashes

HistoryOK ==
  /\ wanted \in [Strategies -> [principal : Amounts \union {Null},
                                gone : BOOLEAN]]
  /\ overlap \in [Strategies -> BOOLEAN]

(* The type invariant of the pipeline's state, part by part.               *)
TypeOK ==
  DatabaseOK /\ BusinessOK /\ QueueOK /\ WorkersOK /\ CountersOK /\ HistoryOK

(* A backtest is worked on by one process at most, and only while the      *)
(* queue counts it as taken (Celery's delivery, backtestTaskCall).         *)
OneWorkerPerTask ==
  \A w \in Workers : Working(w) =>
    /\ phase[job[w]] = "running"
    /\ \A v \in Workers : Working(v) /\ job[v] = job[w] => v = w

(* Runs of a strategy that never overlap one another or an update of it    *)
(* leave at most one row per key in every table that is saved by "select,  *)
(* then update or insert" by a key of its own (not the daily chart),       *)
(* however many of them fail or die half way: running a backtest again is  *)
(* idempotent (BacktestMultiPort, _save...).                               *)
SerialRows ==
  \A s \in Strategies : ~overlap[s] =>
    \A t \in KeyedTables : \A r1, r2 \in rows[s][t] : r1 = r2

(* What a user was told is what the database holds: the principal of the   *)
(* last update that was granted, and a deleted strategy stays deleted,     *)
(* unless writers of the strategy overlapped (updateMyStrategyById writes  *)
(* back a whole entity, _saveInvestProfitInfoTable a whole result).        *)
SerialIntent ==
  \A s \in Strategies : ~overlap[s] =>
    /\ profit[s].principal = wanted[s].principal
    /\ row[s] = "deleted" <=> wanted[s].gone

(* "Success" is shown with figures that belong together: without faults    *)
(* and overlaps every keyed table, the classification and the report stem  *)
(* from runs with one and the same principal, and the daily chart, which   *)
(* keeps the rows of older runs too, has rows of it (saveDB).              *)
SuccessIsWhole ==
  \A s \in Strategies : status[s] = "Success" /\ ~overlap[s] /\ faults = 0 =>
    \E a \in Amounts :
      /\ \A t \in KeyedTables : \E k \in Tasks :
           rows[s][t] = {[by |-> k, amount |-> a]}
      /\ \E r \in rows[s]["daily"] : r.amount = a
      /\ report[s] = [type |-> a, html |-> a]
      /\ profit[s].price \in {a, Null}

(* A strategy is left in "Start" only by a run that found no universe or   *)
(* whose process died (portBacktest), as long as the database answers.     *)
StartIsExplained ==
  \A s \in Strategies : status[s] = "Start" /\ ~overlap[s] /\ faults = 0 =>
    \/ Running(s)
    \/ \E t \in Tasks : about[t] = s /\ phase[t] \in {"error", "lost"}

(* Every connection a process lost was lost to a database error of its own *)
(* (SaveRaises, SaveInvestProfitInfoRaises, ...); at most the last one     *)
(* goes to a refused insert.  PoolMax - 1 errors are what it takes to make *)
(* a process useless.                                                      *)
LeaksNeedFaults ==
  \A w \in Workers :
    leaked[w] <= faults + (IF leaked[w] = PoolMax THEN 1 ELSE 0)

(* The status of a strategy is the business of its runs: another step      *)
(* changes it only where an update overlapped one (UpdateSaveRow).         *)
StatusIsTheRuns ==
  [][\A s \in Strategies :
       status'[s] # status[s] => Running(s) \/ overlap[s]]_vars

(* The midnight job makes up for every lost push: a live strategy without  *)
(* a status gets one sooner or later, wherever its first push was lost     *)
(* (handleCronBackTestRetry), unless the bound on task ids is reached.     *)
NullIsRetried ==
  \A s \in Strategies :
    row[s] = "live" /\ status[s] = "null"
      ~> \/ row[s] # "live" \/ status[s] # "null"
         \/ \A t \in Tasks : phase[t] # "unused"

-----------------------------------------------------------------------------
(* What the documents say, and the program does not do                     *)

(* portBacktest documents its result "Done" as normal operation.  A save   *)
(* that raised is only printed; saveDB goes on and the task is "Done" with *)
(* a table left empty.                                                     *)
DoneMeansSaved ==
  \A t \in Tasks : phase[t] = "Done" =>
    \A table \in KeyedTables : rows[about[t]][table] # {}

=============================================================================
