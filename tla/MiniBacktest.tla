----------------------------- MODULE MiniBacktest -----------------------------
(***************************************************************************)
(* The mini backtest: how a single ticker would have done under one        *)
(* trading strategy.  The nightly job (daily.py) computes it for every     *)
(* ticker with the default settings into Redis, by threads; the web        *)
(* process (routeMiniBacktest.py, BacktestMini.py) answers from there or   *)
(* computes; the business server keeps the answers for a day (the          *)
(* HttpBodyCacheInterceptor on requestMiniBackTest).                       *)
(*                                                                         *)
(* The settings of a strategy and the trade history are class attributes:  *)
(* all threads of a process share them.                                    *)
(***************************************************************************)
EXTENDS Naturals, Sequences, FiniteSets

CONSTANTS
  Tickers,
  Listed,      (* the tickers in table corporation to begin with           *)
  SaleOrder,   (* the trading strategies, in the order the night runs them *)
  Slow,        (* those that need more bars than the others: MACD, 40      *)
  Settings,    (* values of "setting" together with "startTime"            *)
  Default,     (* the ones isCacheDataFromatCheck looks for                *)
  Threads,     (* 5 in makeThread                                          *)
  Requests,    (* threads of the web process                               *)
  None, Flat,
  MaxNights,   (* bound: runs of callDaily                                 *)
  MaxFaults    (* bound: calls that raise                                  *)

Sales == {SaleOrder[i] : i \in 1 .. Len(SaleOrder)}

ASSUME MiniAssumption ==
  /\ Listed \subseteq Tickers
  /\ IsFiniteSet(Tickers)
  /\ SaleOrder \in Seq(Sales)
  /\ SaleOrder # << >>
  /\ Slow \subseteq Sales
  /\ Default \in Settings
  /\ Threads \in Nat \ {0}
  /\ MaxNights \in Nat
  /\ MaxFaults \in Nat

VARIABLES
  known,     (* tickers in table corporation                               *)
  bars,      (* bars[t]: is there enough in daily_stock to simulate?       *)
  loaded,    (* loaded[t]: the night of the last prices                    *)
  cache,     (* cache[t]: what Redis holds under the ticker                *)
  (* the process of the nightly job *)
  night,     (* how many times callDaily has begun                         *)
  cron,      (* where it is                                                *)
  list,      (* the tickers it read                                        *)
  position,  (* how many of them have been loaded                          *)
  cronParam, (* cronParam[sale]: class attribute "param"                   *)
  thread,    (* thread[i]: a share of the list and a BacktestMini          *)
  (* the web process and the business server *)
  webParam,  (* webParam[sale]: class attribute "param"                    *)
  request,   (* request[r]: a mini backtest asked for                      *)
  front,     (* front[b]: the answer kept for body b                       *)
  faults

prices  == <<known, bars, loaded>>
nightly == <<night, cron, list, position, cronParam, thread>>
web     == <<webParam, request, front>>
vars    == <<prices, cache, nightly, web, faults>>

-----------------------------------------------------------------------------
(* Data *)

(* What a number in a result was computed from.                            *)
Figure == [ticker : Tickers, sale : Sales, setting : Settings,
           night : 0 .. MaxNights]

(* A BacktestMini's "res": the profit rate and the metrics (mdd, cagr).    *)
(* A simulation that is passed over returns the cash it was given: Flat.   *)
Result == [rate : Figure \union {Flat}, metrics : Figure]

Body   == [ticker : Tickers, sale : Sales, setting : Settings]

(* An answer: did it come from Redis, and did another request set the same *)
(* class attribute while it was computed?                                  *)
Answer == [res : Result, cached : BOOLEAN, shared : BOOLEAN]

ASSUME NoneAssumption ==
  /\ None \notin Figure \union Result \union Body \union Answer
  /\ None \notin [Sales -> Result]
  /\ Flat \notin Figure

Last == Len(SaleOrder)

(* Enough bars for no strategy, for all but the slow ones, for all.        *)
Bars == {"few", "some", "many"}
Growth == [few |-> Bars, some |-> {"some", "many"}, many |-> {"many"}]

(* _getDBData: is there more than the strategy's minDate?                  *)
Enough(t, sale) ==
  bars[t] = "many" \/ (bars[t] = "some" /\ sale \notin Slow)

Fault == faults < MaxFaults /\ faults' = faults + 1

IdleThread == [next |-> 1, last |-> 0, at |-> 1, clearing |-> FALSE,
               dead |-> FALSE, total |-> None, res |-> None]

IdleRequest == [pc |-> "idle", body |-> None, read |-> 0, shared |-> FALSE,
                cached |-> FALSE, res |-> None]

Init ==
  /\ known = Listed
  /\ bars \in [Tickers -> Bars]
  /\ loaded = [t \in Tickers |-> 0]
  /\ cache = [t \in Tickers |-> None]
  /\ night = 0
  /\ cron = "idle"
  /\ list = << >>
  /\ position = 0
  /\ cronParam = [sale \in Sales |-> Default]
  /\ thread = [i \in 1 .. Threads |-> IdleThread]
  /\ webParam = [sale \in Sales |-> Default]
  /\ request = [r \in Requests |-> IdleRequest]
  /\ front = [b \in Body |-> None]
  /\ faults = 0

-----------------------------------------------------------------------------
(* The nightly job: callDaily                                              *)

(* A slip: nothing is flushed.                                             *)
FlushNothing ==
  /\ cron = "idle"
  /\ night < MaxNights
  /\ night' = night + 1
  /\ cron' = "tickers"
  /\ UNCHANGED <<prices, cache, list, position, cronParam, thread, web, faults>>

(* Once at start, then every weekday: Redis is flushed first.              *)
Flush ==
  /\ cron = "idle"
  /\ night < MaxNights
  /\ night' = night + 1
  /\ cache' = [t \in Tickers |-> None]
  /\ cron' = "tickers"
  /\ UNCHANGED <<prices, list, position, cronParam, thread, web, faults>>

(* flushall raises, whether Redis has carried it out or not: the job is     *)
(* over for the night, and what Redis held may stay.                       *)
FlushRaises ==
  /\ cron = "idle"
  /\ night < MaxNights
  /\ Fault
  /\ night' = night + 1
  /\ \/ UNCHANGED cache
     \/ cache' = [t \in Tickers |-> None]
  /\ UNCHANGED <<prices, cron, list, position, cronParam, thread, web>>

(* getAllTickerFromDB, in whatever order the database returns them.        *)
GetAllTickerFromDB ==
  /\ cron = "tickers"
  /\ list' \in {l \in [1 .. Cardinality(known) -> known] :
                  \A i, j \in DOMAIN l : l[i] = l[j] => i = j}
  /\ position' = 0
  /\ cron' = "corporations"
  /\ UNCHANGED <<prices, cache, night, cronParam, thread, web, faults>>

(* dailyCorporation: new listings, too late for tonight's list.            *)
DailyCorporation ==
  /\ cron = "corporations"
  /\ known' \in {k \in SUBSET Tickers : known \subseteq k}
  /\ cron' = "load"
  /\ UNCHANGED <<bars, loaded, cache, night, list, position, cronParam, thread,
                 web, faults>>

(* One turn of dailyStockData: a ticker's last 30 days.                    *)
DailyStockData ==
  LET t == list[position + 1] IN
  /\ cron = "load"
  /\ position < Len(list)
  /\ loaded' = [loaded EXCEPT ![t] = night]
  /\ \E b \in Growth[bars[t]] : bars' = [bars EXCEPT ![t] = b]
  /\ position' = position + 1
  /\ UNCHANGED <<known, cache, night, cron, list, cronParam, thread, web, faults>>

(* A database or crawler call that raises ends the job for the night.      *)
LoadRaises ==
  /\ cron \in {"tickers", "corporations", "load"}
  /\ Fault
  /\ cron' = "idle"
  /\ UNCHANGED <<prices, cache, night, list, position, cronParam, thread, web>>

(* A slip: equal shares, and the remainder is forgotten.                   *)
CutEqual(i) == (Len(list) \div Threads) * i

(* makeThread: the list is cut into Threads shares.                        *)
Cut(i) == (Len(list) * i) \div Threads

MakeThread ==
  /\ cron = "load"
  /\ position = Len(list)
  /\ thread' = [i \in 1 .. Threads |->
                  [IdleThread EXCEPT !.next = Cut(i - 1) + 1, !.last = Cut(i)]]
  /\ cron' = "threads"
  /\ UNCHANGED <<prices, cache, night, list, position, cronParam, web, faults>>

(* Thread i is working on ticker list[thread[i].next].                     *)
Alive(i) ==
  cron = "threads" /\ ~thread[i].dead /\ thread[i].next <= thread[i].last

(* An exception ends the thread, the rest of its share with it.            *)
Dead(th) == [th EXCEPT !.dead = TRUE]

(* A slip: the metrics are not read when there are none.                   *)
SimulateUnset(i) ==
  LET th   == thread[i]
      t    == list[th.next]
      sale == SaleOrder[th.at]
      own  == [ticker |-> t, sale |-> sale, setting |-> cronParam[sale],
               night |-> loaded[t]]
  IN
  /\ Alive(i)
  /\ th.at <= Last
  /\ ~th.clearing
  /\ thread' = [thread EXCEPT ![i] =
       IF Enough(t, sale)
       THEN [th EXCEPT !.clearing = TRUE, !.total = own,
                       !.res = [rate |-> own, metrics |-> own]]
       ELSE [th EXCEPT !.at = @ + 1,
                       !.res = [rate |-> Flat, metrics |-> th.total]]]
  /\ UNCHANGED <<prices, cache, night, cron, list, position, cronParam, web,
                 faults>>

(* getMiniBacktest3YearData: one simulation with the class's parameters.   *)
(* One that is passed over leaves totalreturn as it was: unset, and then   *)
(* reading the metrics raises, or that of the strategy before.             *)
Simulate(i) ==
  LET th   == thread[i]
      t    == list[th.next]
      sale == SaleOrder[th.at]
      own  == [ticker |-> t, sale |-> sale, setting |-> cronParam[sale],
               night |-> loaded[t]]
  IN
  /\ Alive(i)
  /\ th.at <= Last
  /\ ~th.clearing
  /\ thread' = [thread EXCEPT ![i] =
       IF Enough(t, sale)
       THEN [th EXCEPT !.clearing = TRUE, !.total = own,
                       !.res = [rate |-> own, metrics |-> own]]
       ELSE IF th.total = None
       THEN Dead(th)
       ELSE [th EXCEPT !.at = @ + 1,
                       !.res = [rate |-> Flat, metrics |-> th.total]]]
  /\ UNCHANGED <<prices, cache, night, cron, list, position, cronParam, web,
                 faults>>

(* init_tradehistory pops the class's list until it is empty.  Two threads *)
(* at it may both see one element left, and one of them raises.            *)
InitTradehistory(i) ==
  LET th == thread[i] IN
  /\ Alive(i)
  /\ th.clearing
  /\ \/ thread' = [thread EXCEPT ![i].clearing = FALSE, ![i].at = @ + 1]
     \/ /\ \E j \in 1 .. Threads : j # i /\ Alive(j) /\ thread[j].clearing
        /\ thread' = [thread EXCEPT ![i] = Dead(th)]
  /\ UNCHANGED <<prices, cache, night, cron, list, position, cronParam, web,
                 faults>>

(* A slip: one BacktestMini for the whole share.                           *)
SetRedisDataKeepsMini(i) ==
  LET th == thread[i] IN
  /\ Alive(i)
  /\ th.at > Last
  /\ cache' = [cache EXCEPT ![list[th.next]] = [sale \in Sales |-> th.res]]
  /\ thread' = [thread EXCEPT ![i].next = @ + 1, ![i].at = 1]
  /\ UNCHANGED <<prices, night, cron, list, position, cronParam, web, faults>>

(* setRedisData: res1 to res4 are one dictionary.  The next ticker gets a  *)
(* BacktestMini of its own.                                                *)
SetRedisData(i) ==
  LET th == thread[i] IN
  /\ Alive(i)
  /\ th.at > Last
  /\ cache' = [cache EXCEPT ![list[th.next]] = [sale \in Sales |-> th.res]]
  /\ thread' = [thread EXCEPT ![i] =
                  [IdleThread EXCEPT !.next = th.next + 1, !.last = th.last]]
  /\ UNCHANGED <<prices, night, cron, list, position, cronParam, web, faults>>

(* A database or Redis call of the thread raises, or Redis refuses.        *)
ThreadRaises(i) ==
  /\ Alive(i)
  /\ ~thread[i].clearing
  /\ Fault
  /\ thread' = [thread EXCEPT ![i] = Dead(@)]
  /\ UNCHANGED <<prices, cache, night, cron, list, position, cronParam, web>>

(* A slip: wait until every share is worked off.                           *)
JoinWorkedOff ==
  /\ cron = "threads"
  /\ \A i \in 1 .. Threads : thread[i].next > thread[i].last
  /\ cron' = "sweep"
  /\ UNCHANGED <<prices, cache, night, list, position, cronParam, thread, web,
                 faults>>

(* The five joins.                                                         *)
Join ==
  /\ cron = "threads"
  /\ \A i \in 1 .. Threads : ~Alive(i)
  /\ cron' = "sweep"
  /\ UNCHANGED <<prices, cache, night, list, position, cronParam, thread, web,
                 faults>>

(* searchMockInvest backtests every strategy in operation, in this process: *)
(* each sets the parameters of the classes it uses to its own settings.    *)
SearchMockInvest ==
  /\ cron = "sweep"
  /\ cronParam' \in [Sales -> Settings]
  /\ cron' = "idle"
  /\ UNCHANGED <<prices, cache, night, list, position, thread, web, faults>>

-----------------------------------------------------------------------------
(* The web process: getMiniBacktest, for one request of the business server *)

(* requestMiniBackTest.  A body whose answer is in front is answered from  *)
(* there, and nothing changes.                                             *)
Ask(r, b) ==
  /\ request[r].pc = "idle"
  /\ front[b] = None
  /\ request' = [request EXCEPT ![r] = [IdleRequest EXCEPT !.pc = "param",
                                                          !.body = b]]
  /\ UNCHANGED <<prices, cache, nightly, webParam, front, faults>>

Goto(r, pc) == request' = [request EXCEPT ![r].pc = pc]

(* Between setting the parameters and the run that reads them.             *)
Exposed(r) == request[r].pc \in {"lookup", "data", "run"}

(* A slip: the class is taken to have its default parameters.              *)
SetParamUnlessDefault(r) ==
  LET b == request[r].body IN
  /\ request[r].pc = "param"
  /\ webParam' = IF b.setting = Default THEN webParam
                 ELSE [webParam EXCEPT ![b.sale] = b.setting]
  /\ request' = [q \in Requests |->
       IF q = r
       THEN [request[q] EXCEPT !.pc = IF b.setting = Default THEN "lookup"
                                                           ELSE "data"]
       ELSE IF Exposed(q) /\ request[q].body.sale = b.sale
       THEN [request[q] EXCEPT !.shared = TRUE]
       ELSE request[q]]
  /\ UNCHANGED <<prices, cache, nightly, front, faults>>

(* The parameters are set before the cache is asked, even for a hit.       *)
SetParam(r) ==
  LET b == request[r].body IN
  /\ request[r].pc = "param"
  /\ webParam' = [webParam EXCEPT ![b.sale] = b.setting]
  /\ request' = [q \in Requests |->
       IF q = r
       THEN [request[q] EXCEPT !.pc = IF b.setting = Default THEN "lookup"
                                                           ELSE "data"]
       ELSE IF Exposed(q) /\ request[q].body.sale = b.sale
       THEN [request[q] EXCEPT !.shared = TRUE]
       ELSE request[q]]
  /\ UNCHANGED <<prices, cache, nightly, front, faults>>

IsCacheHit(r) ==
  LET b == request[r].body IN
  /\ request[r].pc = "lookup"
  /\ request' = [request EXCEPT ![r] =
       IF cache[b.ticker] # None
       THEN [@ EXCEPT !.pc = "reply", !.cached = TRUE,
                      !.res = cache[b.ticker][b.sale]]
       ELSE [@ EXCEPT !.pc = "data"]]
  /\ UNCHANGED <<prices, cache, nightly, webParam, front, faults>>

(* _getDBData.  With too few bars nothing is simulated, and reading the    *)
(* metrics raises: the client gets a 500.                                  *)
GetDBData(r) ==
  LET b == request[r].body IN
  /\ request[r].pc = "data"
  /\ request' = [request EXCEPT ![r] =
       IF Enough(b.ticker, b.sale)
       THEN [@ EXCEPT !.pc = "run", !.read = loaded[b.ticker]]
       ELSE IdleRequest]
  /\ UNCHANGED <<prices, cache, nightly, webParam, front, faults>>

(* cerebro.run creates the strategy, which reads the class's parameters.   *)
Run(r) ==
  LET b   == request[r].body
      own == [ticker |-> b.ticker, sale |-> b.sale,
              setting |-> webParam[b.sale], night |-> request[r].read]
  IN
  /\ request[r].pc = "run"
  /\ request' = [request EXCEPT ![r].pc = "clear",
                                ![r].res = [rate |-> own, metrics |-> own]]
  /\ UNCHANGED <<prices, cache, nightly, webParam, front, faults>>

(* init_tradehistory again, among the threads of the web process.          *)
ClearHistory(r) ==
  /\ request[r].pc = "clear"
  /\ \/ Goto(r, "reply")
     \/ /\ \E q \in Requests \ {r} : request[q].pc = "clear"
        /\ request' = [request EXCEPT ![r] = IdleRequest]
  /\ UNCHANGED <<prices, cache, nightly, webParam, front, faults>>

(* The answer reaches the business server, which keeps it.                 *)
Reply(r) ==
  LET q == request[r] IN
  /\ q.pc = "reply"
  /\ front' = [front EXCEPT ![q.body] =
                 [res |-> q.res, cached |-> q.cached, shared |-> q.shared]]
  /\ request' = [request EXCEPT ![r] = IdleRequest]
  /\ UNCHANGED <<prices, cache, nightly, webParam, faults>>

(* A call of the request raises, or its answer is late (60 seconds).       *)
RequestRaises(r) ==
  /\ request[r].pc \in {"lookup", "data", "reply"}
  /\ Fault
  /\ request' = [request EXCEPT ![r] = IdleRequest]
  /\ UNCHANGED <<prices, cache, nightly, webParam, front>>

(* CacheTTL: a day after it was kept.                                      *)
Expire(b) ==
  /\ front[b] # None
  /\ front' = [front EXCEPT ![b] = None]
  /\ UNCHANGED <<prices, cache, nightly, webParam, request, faults>>

-----------------------------------------------------------------------------
Night ==
  \/ Flush \/ GetAllTickerFromDB \/ DailyCorporation
  \/ DailyStockData \/ MakeThread \/ Join \/ SearchMockInvest
  \/ \E i \in 1 .. Threads :
       Simulate(i) \/ InitTradehistory(i) \/ SetRedisData(i)

Serve(r) ==
  \/ SetParam(r) \/ IsCacheHit(r) \/ GetDBData(r) \/ Run(r)
  \/ ClearHistory(r) \/ Reply(r)

(* Bound: the nights are over.                                             *)
Terminated ==
  /\ cron = "idle"
  /\ night = MaxNights
  /\ UNCHANGED vars

Next ==
  \/ Night
  \/ Terminated
  \/ FlushRaises \/ LoadRaises
  \/ \E i \in 1 .. Threads : ThreadRaises(i)
  \/ \E r \in Requests :
       \/ \E b \in Body : Ask(r, b)
       \/ Serve(r)
       \/ RequestRaises(r)
  \/ \E b \in Body : Expire(b)

Spec == Init /\ [][Next]_vars

(* Fairness of the nightly process: its main thread goes on once a night   *)
(* has begun, and so does every thread it starts.                          *)
Main == \/ GetAllTickerFromDB \/ DailyCorporation \/ DailyStockData
        \/ MakeThread \/ Join \/ SearchMockInvest

Share(i) == Simulate(i) \/ InitTradehistory(i) \/ SetRedisData(i)

FairSpec ==
  /\ Spec
  /\ WF_vars(Main)
  /\ \A i \in 1 .. Threads : WF_vars(Share(i))

-----------------------------------------------------------------------------
(* Properties *)

Thread == [next : Nat \ {0}, last : Nat, at : 1 .. Last + 1,
           clearing : BOOLEAN, dead : BOOLEAN,
           total : Figure \union {None}, res : Result \union {None}]

Pending == [pc : {"idle", "param", "lookup", "data", "run", "clear", "reply"},
            body : Body \union {None}, read : 0 .. MaxNights,
            shared : BOOLEAN, cached : BOOLEAN, res : Result \union {None}]

PricesOK ==
  /\ known \subseteq Tickers
  /\ bars \in [Tickers -> Bars]
  /\ loaded \in [Tickers -> 0 .. MaxNights]
  /\ cache \in [Tickers -> [Sales -> Result] \union {None}]

NightOK ==
  /\ night \in 0 .. MaxNights
  /\ cron \in {"idle", "tickers", "corporations", "load", "threads", "sweep"}
  /\ list \in Seq(Tickers)
  /\ position \in 0 .. Len(list)
  /\ cronParam \in [Sales -> Settings]
  /\ thread \in [1 .. Threads -> Thread]
  /\ faults \in 0 .. MaxFaults

WebOK ==
  /\ webParam \in [Sales -> Settings]
  /\ request \in [Requests -> Pending]
  /\ \A r \in Requests : request[r].pc # "idle" => request[r].body \in Body
  /\ front \in [Body -> Answer \union {None}]

(* The type invariant, part by part.                                       *)
TypeOK == PricesOK /\ NightOK /\ WebOK

(* What Redis holds is of one night, and of tonight from when the job has  *)
(* flushed to when it ends: only a flush that raises leaves figures of an  *)
(* earlier night, all of one, and no job ever adds to them (callDaily      *)
(* flushes, loads the list's prices, and joins every thread before it      *)
(* returns).                                                               *)
CacheIsOfOneNight ==
  \A t \in Tickers : cache[t] # None =>
    \A sale \in Sales :
      LET n == cache[t][sale].metrics.night IN
      /\ cron # "idle" => n = night
      /\ \A u \in Tickers : cache[u] # None =>
           \A other \in Sales : cache[u][other].metrics.night = n

(* Nor one of another ticker, although a simulation that is passed over    *)
(* reports the metrics of the one before (getMiniBacktest3YearData).       *)
CacheIsOfTheTicker ==
  \A t \in Tickers : cache[t] # None =>
    \A sale \in Sales :
      /\ cache[t][sale].metrics.ticker = t
      /\ cache[t][sale].rate # Flat => cache[t][sale].rate.ticker = t

(* The figures of the first night are those of the default settings, as    *)
(* long as Redis holds them; only a sweep over the users' strategies in    *)
(* the same process can change what "default" means (searchMockInvest).    *)
DefaultsUntilSweep ==
  \A t \in Tickers : cache[t] # None =>
    \A sale \in Sales :
      cache[t][sale].metrics.night = 1 => cache[t][sale].metrics.setting = Default

(* Ticker list[k] is still in the share of thread i.                       *)
Left(i, k) == thread[i].next <= k /\ k <= thread[i].last

(* The shares of makeThread lose no ticker and repeat none: while they are *)
(* worked on and after, a ticker of the list is in Redis, or it is left in *)
(* exactly one thread's share.                                             *)
EveryTickerOnce ==
  cron \in {"threads", "sweep"} =>
    \A k \in 1 .. Len(list) :
      IF cache[list[k]] = None
      THEN \E i \in 1 .. Threads :
             Left(i, k) /\ \A j \in 1 .. Threads : Left(j, k) => j = i
      ELSE \A i \in 1 .. Threads : ~Left(i, k)

(* What an answer that did not come from Redis says is about the ticker,   *)
(* the strategy and the settings asked for, unless another request set the *)
(* same class attribute in between (getMiniBacktest).                      *)
Honest(b, answer) ==
  ~answer.cached /\ ~answer.shared =>
    \E n \in 0 .. MaxNights :
      LET own == [ticker |-> b.ticker, sale |-> b.sale, setting |-> b.setting,
                  night |-> n]
      IN  answer.res = [rate |-> own, metrics |-> own]

(* And so is every answer the business server keeps, whoever asked.        *)
HonestAnswers ==
  /\ \A b \in Body : front[b] # None => Honest(b, front[b])
  /\ \A r \in Requests : request[r].pc = "reply" =>
       Honest(request[r].body, request[r])

(* A night ends, whatever becomes of its threads: the joins do not wait    *)
(* for one that died (makeThread).                                         *)
NightEnds == cron # "idle" ~> cron = "idle"

=============================================================================
