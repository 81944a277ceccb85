-------------------------- MODULE MiniBacktest_proofs --------------------------
(***************************************************************************)
(* Theorems about the mini backtest, for any number of tickers, trading    *)
(* strategies, threads, requests, nights and faults.                       *)
(***************************************************************************)
EXTENDS MiniBacktest, FiniteSetTheorems, TLAPS

-----------------------------------------------------------------------------
(* Types                                                                   *)

LEMMA LastType == Last \in Nat \ {0} /\ \A i \in 1 .. Last : SaleOrder[i] \in Sales
BY MiniAssumption DEF Last, Sales

(* A list of the tickers in table corporation.                             *)
LEMMA ListType ==
  ASSUME known \subseteq Tickers,
         NEW l \in [1 .. Cardinality(known) -> known]
  PROVE  l \in Seq(Tickers) /\ Len(l) = Cardinality(known) /\ Len(l) \in Nat
<1>1. Cardinality(known) \in Nat
  BY MiniAssumption, FS_Subset, FS_CardinalityType
<1>2. l \in [1 .. Cardinality(known) -> Tickers]
  OBVIOUS
<1> QED
  BY <1>1, <1>2

(* The lists cut shares of the list: Cut is division with its remainder    *)
(* dropped.                                                                *)
LEMMA CutBounds ==
  ASSUME list \in Seq(Tickers), NEW i \in 0 .. Threads
  PROVE  /\ Cut(i) \in 0 .. Len(list)
         /\ Threads * Cut(i) <= Len(list) * i
         /\ Len(list) * i < Threads * Cut(i) + Threads
<1> DEFINE L == Len(list)
           a == L * i
<1>1. L \in Nat /\ a \in Nat /\ Threads \in Nat \ {0} /\ Cut(i) = a \div Threads
  BY MiniAssumption DEF Cut
<1>2. /\ (a \div Threads) \in Nat
      /\ Threads * (a \div Threads) <= a
      /\ a < Threads * (a \div Threads) + Threads
  <2> HIDE DEF a
  <2> QED
    BY <1>1
<1>3. a <= L * Threads
  <2>1. i <= Threads /\ i \in Nat
    BY MiniAssumption
  <2> HIDE DEF L
  <2> QED
    BY <2>1, <1>1
<1>4. Cut(i) <= L
  <2> DEFINE c == a \div Threads
  <2>1. c \in Nat /\ Threads * c <= L * Threads
    <3> HIDE DEF L, a
    <3> QED
      BY <1>1, <1>2, <1>3
  <2>2. c <= L
    <3> HIDE DEF c, L, a
    <3>1. SUFFICES ASSUME c >= L + 1 PROVE FALSE
      BY <1>1, <2>1
    <3>2. Threads * c >= Threads * (L + 1)
      BY <3>1, <1>1, <2>1
    <3>3. Threads * (L + 1) = L * Threads + Threads
      BY <1>1
    <3> QED
      BY <1>1, <2>1, <3>2, <3>3
  <2> QED
    BY <1>1, <2>2
<1> QED
  BY <1>1, <1>2, <1>4

(* A thread has a result as soon as it has simulated anything, and clears  *)
(* the history of a strategy.                                              *)
Started(th) ==
  /\ th.clearing => th.at <= Last
  /\ th.at > 1 \/ th.clearing => th.res # None

(* What no step of a thread changes.                                       *)
Kept(th, new) == new \in Thread /\ Started(new) /\ new.last = th.last

LEMMA IdleThreadType == IdleThread \in Thread /\ Started(IdleThread)
<1>1. 1 \in 1 .. Last + 1
  BY LastType
<1> QED
  BY <1>1 DEF IdleThread, Thread, Started

LEMMA ShareType ==
  ASSUME NEW n \in Nat \ {0}, NEW m \in Nat
  PROVE  LET new == [IdleThread EXCEPT !.next = n, !.last = m]
         IN  new \in Thread /\ Started(new) /\ new.last = m
<1> DEFINE new == [IdleThread EXCEPT !.next = n, !.last = m]
<1>1. new \in Thread
  BY IdleThreadType DEF Thread
<1>2. Started(new) /\ new.last = m
  BY DEF IdleThread, Started
<1> QED
  BY <1>1, <1>2

LEMMA SimulatedKept ==
  ASSUME NEW th \in Thread, NEW own \in Figure, th.at <= Last
  PROVE  Kept(th, [th EXCEPT !.clearing = TRUE, !.total = own,
                             !.res = [rate |-> own, metrics |-> own]])
<1> DEFINE result == [rate |-> own, metrics |-> own]
           new    == [th EXCEPT !.clearing = TRUE, !.total = own, !.res = result]
<1>1. result \in Result /\ result # None
  BY NoneAssumption DEF Result
<1> HIDE DEF result
<1>2. new \in Thread /\ new.last = th.last
  BY <1>1 DEF Thread
<1>3. Started(new)
  BY <1>1 DEF Thread, Started
<1> QED
  BY <1>2, <1>3 DEF Kept, result

LEMMA PassedOverKept ==
  ASSUME NEW th \in Thread, th.total # None, th.at <= Last, ~th.clearing
  PROVE  Kept(th, [th EXCEPT !.at = @ + 1,
                             !.res = [rate |-> Flat, metrics |-> th.total]])
<1> DEFINE result == [rate |-> Flat, metrics |-> th.total]
           new    == [th EXCEPT !.at = @ + 1, !.res = result]
<1>1. th.total \in Figure /\ th.at + 1 \in 1 .. Last + 1
  BY LastType DEF Thread
<1>2. result \in Result /\ result # None
  BY <1>1, NoneAssumption DEF Result
<1> HIDE DEF result
<1>3. new \in Thread /\ new.last = th.last
  BY <1>1, <1>2 DEF Thread
<1>4. Started(new)
  BY <1>2 DEF Thread, Started
<1> QED
  BY <1>3, <1>4 DEF Kept, result

LEMMA ClearedKept ==
  ASSUME NEW th \in Thread, Started(th), th.clearing
  PROVE  Kept(th, [th EXCEPT !.clearing = FALSE, !.at = @ + 1])
<1> DEFINE new == [th EXCEPT !.clearing = FALSE, !.at = @ + 1]
<1>1. th.at + 1 \in 1 .. Last + 1
  BY LastType DEF Thread, Started
<1>2. new \in Thread /\ new.last = th.last
  BY <1>1 DEF Thread
<1>3. Started(new)
  BY DEF Thread, Started
<1> QED
  BY <1>2, <1>3 DEF Kept

LEMMA DeadKept ==
  ASSUME NEW th \in Thread, Started(th) PROVE Kept(th, Dead(th))
BY DEF Dead, Thread, Started, Kept

LEMMA NextTickerKept ==
  ASSUME NEW th \in Thread
  PROVE  Kept(th, [IdleThread EXCEPT !.next = th.next + 1, !.last = th.last])
<1>1. th.next + 1 \in Nat \ {0} /\ th.last \in Nat
  BY DEF Thread
<1> QED
  BY <1>1, ShareType DEF Kept

LEMMA IdleRequestType == IdleRequest \in Pending
BY MiniAssumption DEF IdleRequest, Pending

LEMMA AskedType ==
  ASSUME NEW b \in Body
  PROVE  [IdleRequest EXCEPT !.pc = "param", !.body = b] \in Pending
BY IdleRequestType DEF Pending

(* A part of the type invariant is kept by a step that leaves its          *)
(* variables alone.                                                        *)
LEMMA SamePrices == PricesOK /\ UNCHANGED <<prices, cache>> => PricesOK'
BY DEF PricesOK, prices

LEMMA SameNight == NightOK /\ UNCHANGED <<nightly, faults>> => NightOK'
BY DEF NightOK, nightly

LEMMA SameWeb == WebOK /\ UNCHANGED web => WebOK'
BY DEF WebOK, web

(* No share reaches beyond the list: without it a thread's ticker would    *)
(* not be one.                                                             *)
SharesInList ==
  cron = "threads" => \A i \in 1 .. Threads : thread[i].last <= Len(list)

ThreadsStarted == \A i \in 1 .. Threads : Started(thread[i])

(* A request that has been simulated or found in Redis has a result.       *)
Answered(q) == q.pc \in {"clear", "reply"} => q.res # None

RequestsAnswered == \A r \in Requests : Answered(request[r])

TypeInv == TypeOK /\ SharesInList /\ ThreadsStarted /\ RequestsAnswered

(* What thread i simulates.                                                *)
Own(i) ==
  LET t    == list[thread[i].next]
      sale == SaleOrder[thread[i].at]
  IN  [ticker |-> t, sale |-> sale, setting |-> cronParam[sale],
       night |-> loaded[t]]

LEMMA AliveTicker ==
  ASSUME TypeInv, NEW i \in 1 .. Threads, Alive(i)
  PROVE  thread[i] \in Thread /\ thread[i].next \in 1 .. Len(list)
         /\ list[thread[i].next] \in Tickers
<1>1. thread[i] \in Thread /\ list \in Seq(Tickers)
  BY DEF TypeInv, TypeOK, NightOK
<1>2. thread[i].next \in Nat \ {0} /\ thread[i].last \in Nat
  BY <1>1 DEF Thread
<1>3. thread[i].next <= thread[i].last /\ thread[i].last <= Len(list)
  BY DEF TypeInv, SharesInList, Alive
<1>4. thread[i].next \in 1 .. Len(list)
  BY <1>1, <1>2, <1>3
<1> QED
  BY <1>1, <1>4

LEMMA OwnType ==
  ASSUME TypeInv, NEW i \in 1 .. Threads, Alive(i), thread[i].at <= Last
  PROVE  Own(i) \in Figure
<1> DEFINE t    == list[thread[i].next]
           sale == SaleOrder[thread[i].at]
<1>1. t \in Tickers /\ thread[i].at \in 1 .. Last + 1
  BY AliveTicker DEF Thread
<1>2. sale \in Sales
  BY <1>1, LastType
<1>3. cronParam[sale] \in Settings /\ loaded[t] \in 0 .. MaxNights
  BY <1>1, <1>2 DEF TypeInv, TypeOK, NightOK, PricesOK
<1> QED
  BY <1>1, <1>2, <1>3 DEF Own, Figure

(* The three outcomes of a simulation.                                     *)
Simulated(i) ==
  thread' = [thread EXCEPT ![i] =
    [thread[i] EXCEPT !.clearing = TRUE, !.total = Own(i),
                      !.res = [rate |-> Own(i), metrics |-> Own(i)]]]

PassedOver(i) ==
  /\ thread[i].total # None
  /\ thread' = [thread EXCEPT ![i] =
       [thread[i] EXCEPT !.at = @ + 1,
                         !.res = [rate |-> Flat, metrics |-> thread[i].total]]]

Dies(i) == thread' = [thread EXCEPT ![i] = Dead(thread[i])]

LEMMA SimulateOutcomes ==
  ASSUME NEW i \in 1 .. Threads, Simulate(i)
  PROVE  Simulated(i) \/ PassedOver(i) \/ Dies(i)
BY DEF Simulate, Simulated, PassedOver, Dies, Own

LEMMA DiesOutcome ==
  ASSUME NEW i \in 1 .. Threads, ThreadRaises(i) \/ InitTradehistory(i)
  PROVE  \/ Dies(i)
         \/ InitTradehistory(i) /\ thread' = [thread EXCEPT ![i] =
              [thread[i] EXCEPT !.clearing = FALSE, !.at = @ + 1]]
BY DEF ThreadRaises, InitTradehistory, Dies

(* A thread's step changes its own record only, and that as it should.     *)
LEMMA ThreadSteps ==
  ASSUME TypeInv, NEW i \in 1 .. Threads,
         Simulate(i) \/ InitTradehistory(i) \/ SetRedisData(i) \/ ThreadRaises(i)
  PROVE  \E new : Kept(thread[i], new) /\ thread' = [thread EXCEPT ![i] = new]
<1>1. thread[i] \in Thread /\ Alive(i) /\ Started(thread[i])
  BY DEF TypeInv, TypeOK, NightOK, ThreadsStarted, Simulate, InitTradehistory,
         SetRedisData, ThreadRaises
<1>2. CASE Dies(i)
  BY <1>1, <1>2, DeadKept DEF Dies
<1>3. CASE Simulate(i)
  <2>1. thread[i].at <= Last /\ ~thread[i].clearing
    BY <1>3 DEF Simulate
  <2>2. CASE Simulated(i)
    BY <1>1, <2>1, <2>2, OwnType, SimulatedKept DEF Simulated
  <2>3. CASE PassedOver(i)
    BY <1>1, <2>1, <2>3, PassedOverKept DEF PassedOver
  <2> QED
    BY <1>2, <1>3, <2>2, <2>3, SimulateOutcomes
<1>4. CASE InitTradehistory(i)
  <2>1. thread[i].clearing
    BY <1>4 DEF InitTradehistory
  <2> QED
    BY <1>1, <1>2, <1>4, <2>1, ClearedKept, DiesOutcome
<1>5. CASE SetRedisData(i)
  BY <1>1, <1>5, NextTickerKept DEF SetRedisData
<1>6. CASE ThreadRaises(i)
  BY <1>2, <1>6 DEF ThreadRaises, Dies
<1> QED
  BY <1>3, <1>4, <1>5, <1>6

(* A result of a BacktestMini is kept in Redis under every strategy.       *)
LEMMA StoredType ==
  ASSUME TypeInv, NEW i \in 1 .. Threads, SetRedisData(i)
  PROVE  [sale \in Sales |-> thread[i].res] \in [Sales -> Result]
<1>1. thread[i] \in Thread /\ Started(thread[i]) /\ thread[i].at > Last
  BY AliveTicker DEF SetRedisData, TypeInv, ThreadsStarted
<1>2. thread[i].at > 1
  BY <1>1, LastType DEF Thread
<1>3. thread[i].res \in Result
  BY <1>1, <1>2 DEF Thread, Started
<1> QED
  BY <1>3

LEMMA InitTypeInv == Init => TypeInv
<1> SUFFICES ASSUME Init PROVE TypeInv
  OBVIOUS
<1> USE DEF Init
<1>1. PricesOK
  BY MiniAssumption DEF PricesOK
<1>2. NightOK
  <2>1. list \in Seq(Tickers) /\ position \in 0 .. Len(list)
    OBVIOUS
  <2>2. cronParam \in [Sales -> Settings] /\ thread \in [1 .. Threads -> Thread]
    BY MiniAssumption, IdleThreadType
  <2>3. night \in 0 .. MaxNights /\ faults \in 0 .. MaxFaults
    BY MiniAssumption
  <2> QED
    BY <2>1, <2>2, <2>3 DEF NightOK
<1>3. WebOK
  <2>1. request \in [Requests -> Pending]
    BY IdleRequestType
  <2>2. \A r \in Requests : request[r].pc = "idle"
    BY DEF IdleRequest
  <2> QED
    BY <2>1, <2>2, MiniAssumption DEF WebOK
<1>4. SharesInList /\ ThreadsStarted
  BY IdleThreadType DEF SharesInList, ThreadsStarted
<1>5. RequestsAnswered
  BY DEF RequestsAnswered, Answered, IdleRequest
<1> QED
  BY <1>1, <1>2, <1>3, <1>4, <1>5 DEF TypeOK, TypeInv

LEMMA SameAnswered == RequestsAnswered /\ UNCHANGED web => RequestsAnswered'
BY DEF RequestsAnswered, web

(* The steps of the nightly process, but for those of its threads.         *)
LEMMA MainTypeInv ==
  ASSUME TypeInv,
         \/ Flush \/ FlushRaises \/ GetAllTickerFromDB \/ DailyCorporation
         \/ DailyStockData
         \/ MakeThread \/ Join \/ SearchMockInvest \/ LoadRaises
  PROVE  TypeInv'
<1>1. PricesOK /\ NightOK /\ WebOK /\ SharesInList /\ ThreadsStarted
  BY DEF TypeInv, TypeOK
<1>2. WebOK' /\ RequestsAnswered'
  BY <1>1, SameWeb, SameAnswered DEF TypeInv, Flush, FlushRaises, GetAllTickerFromDB,
     DailyCorporation, DailyStockData, MakeThread, Join, SearchMockInvest, LoadRaises
<1>3. CASE Flush \/ FlushRaises
  <2>1. PricesOK'
    BY <1>1, <1>3 DEF Flush, FlushRaises, PricesOK, prices
  <2>2. night' \in 0 .. MaxNights
    BY <1>1, <1>3, MiniAssumption DEF Flush, FlushRaises, NightOK
  <2>3. faults' \in 0 .. MaxFaults
    BY <1>1, <1>3, MiniAssumption DEF Flush, FlushRaises, Fault, NightOK
  <2>4. NightOK'
    BY <1>1, <1>3, <2>2, <2>3 DEF Flush, FlushRaises, NightOK
  <2>5. SharesInList' /\ ThreadsStarted'
    BY <1>1, <1>3 DEF Flush, FlushRaises, SharesInList, ThreadsStarted
  <2> QED
    BY <1>2, <2>1, <2>4, <2>5 DEF TypeInv, TypeOK
<1>4. CASE GetAllTickerFromDB
  <2>1. PricesOK'
    BY <1>1, <1>4, SamePrices DEF GetAllTickerFromDB
  <2>2. list' \in Seq(Tickers) /\ position' \in 0 .. Len(list')
    BY <1>1, <1>4, ListType DEF GetAllTickerFromDB, PricesOK
  <2>3. NightOK'
    BY <1>1, <1>4, <2>2 DEF GetAllTickerFromDB, NightOK
  <2>4. SharesInList' /\ ThreadsStarted'
    BY <1>1, <1>4 DEF GetAllTickerFromDB, SharesInList, ThreadsStarted
  <2> QED
    BY <1>2, <2>1, <2>3, <2>4 DEF TypeInv, TypeOK
<1>5. CASE DailyCorporation
  <2>1. PricesOK'
    BY <1>1, <1>5 DEF DailyCorporation, PricesOK
  <2>2. NightOK'
    BY <1>1, <1>5 DEF DailyCorporation, NightOK
  <2>3. SharesInList' /\ ThreadsStarted'
    BY <1>1, <1>5 DEF DailyCorporation, SharesInList, ThreadsStarted
  <2> QED
    BY <1>2, <2>1, <2>2, <2>3 DEF TypeInv, TypeOK
<1>6. CASE DailyStockData
  <2>1. position + 1 \in 1 .. Len(list) /\ position' = position + 1
    BY <1>1, <1>6 DEF DailyStockData, NightOK
  <2>2. list[position + 1] \in Tickers
    BY <1>1, <2>1 DEF NightOK
  <2>3. loaded' \in [Tickers -> 0 .. MaxNights]
    BY <1>1, <1>6, <2>2 DEF DailyStockData, PricesOK, NightOK
  <2>4. bars' \in [Tickers -> Bars]
    <3>1. \A b \in Bars : Growth[b] \subseteq Bars
      BY DEF Growth, Bars
    <3>2. PICK b \in Growth[bars[list[position + 1]]] :
            bars' = [bars EXCEPT ![list[position + 1]] = b]
      BY <1>6 DEF DailyStockData
    <3> QED
      BY <1>1, <2>2, <3>1, <3>2 DEF PricesOK
  <2>5. PricesOK'
    BY <1>1, <1>6, <2>3, <2>4 DEF DailyStockData, PricesOK
  <2>6. NightOK'
    BY <1>1, <1>6, <2>1 DEF DailyStockData, NightOK
  <2>7. SharesInList' /\ ThreadsStarted'
    BY <1>1, <1>6 DEF DailyStockData, SharesInList, ThreadsStarted
  <2> QED
    BY <1>2, <2>5, <2>6, <2>7 DEF TypeInv, TypeOK
<1>7. CASE MakeThread
  <2>1. PricesOK'
    BY <1>1, <1>7, SamePrices DEF MakeThread
  <2>2. \A i \in 1 .. Threads :
          /\ thread'[i] \in Thread /\ Started(thread'[i])
          /\ thread'[i].last <= Len(list)
    <3> TAKE i \in 1 .. Threads
    <3>1. i - 1 \in 0 .. Threads /\ i \in 0 .. Threads
      BY MiniAssumption
    <3>2. list \in Seq(Tickers)
      BY <1>1 DEF NightOK
    <3>3. Cut(i - 1) \in 0 .. Len(list) /\ Cut(i) \in 0 .. Len(list)
      BY <3>1, <3>2, CutBounds
    <3>4. Cut(i - 1) + 1 \in Nat \ {0} /\ Cut(i) \in Nat /\ Cut(i) <= Len(list)
      BY <3>2, <3>3
    <3>5. thread'[i] =
            [IdleThread EXCEPT !.next = Cut(i - 1) + 1, !.last = Cut(i)]
      BY <1>7 DEF MakeThread
    <3> QED
      BY <3>4, <3>5, ShareType
  <2>3. thread' \in [1 .. Threads -> Thread]
    <3>1. thread' = [i \in 1 .. Threads |-> thread'[i]]
      BY <1>7 DEF MakeThread
    <3> QED
      BY <2>2, <3>1
  <2>4. NightOK'
    BY <1>1, <1>7, <2>3 DEF MakeThread, NightOK
  <2>5. SharesInList' /\ ThreadsStarted'
    BY <1>7, <2>2 DEF MakeThread, SharesInList, ThreadsStarted
  <2> QED
    BY <1>2, <2>1, <2>4, <2>5 DEF TypeInv, TypeOK
<1>8. CASE Join \/ LoadRaises
  <2>1. PricesOK'
    BY <1>1, <1>8, SamePrices DEF Join, LoadRaises
  <2>2. faults' \in 0 .. MaxFaults
    BY <1>1, <1>8, MiniAssumption DEF Join, LoadRaises, Fault, NightOK
  <2>3. NightOK'
    BY <1>1, <1>8, <2>2 DEF Join, LoadRaises, NightOK
  <2>4. SharesInList' /\ ThreadsStarted'
    BY <1>1, <1>8 DEF Join, LoadRaises, SharesInList, ThreadsStarted
  <2> QED
    BY <1>2, <2>1, <2>3, <2>4 DEF TypeInv, TypeOK
<1>9. CASE SearchMockInvest
  <2>1. PricesOK'
    BY <1>1, <1>9, SamePrices DEF SearchMockInvest
  <2>2. NightOK'
    BY <1>1, <1>9 DEF SearchMockInvest, NightOK
  <2>3. SharesInList' /\ ThreadsStarted'
    BY <1>1, <1>9 DEF SearchMockInvest, SharesInList, ThreadsStarted
  <2> QED
    BY <1>2, <2>1, <2>2, <2>3 DEF TypeInv, TypeOK
<1> QED
  BY <1>3, <1>4, <1>5, <1>6, <1>7, <1>8, <1>9

(* The steps of its threads.                                               *)
LEMMA ThreadTypeInv ==
  ASSUME TypeInv, NEW i \in 1 .. Threads,
         Simulate(i) \/ InitTradehistory(i) \/ SetRedisData(i) \/ ThreadRaises(i)
  PROVE  TypeInv'
<1>1. PricesOK /\ NightOK /\ WebOK /\ SharesInList /\ ThreadsStarted
  BY DEF TypeInv, TypeOK
<1>2. PICK new : Kept(thread[i], new) /\ thread' = [thread EXCEPT ![i] = new]
  BY ThreadSteps
<1>3. WebOK' /\ RequestsAnswered'
  BY <1>1, SameWeb, SameAnswered DEF TypeInv, Simulate, InitTradehistory, SetRedisData, ThreadRaises
<1>4. PricesOK'
  <2>1. CASE SetRedisData(i)
    <3>1. cache' = [cache EXCEPT ![list[thread[i].next]] =
                      [sale \in Sales |-> thread[i].res]]
      BY <2>1 DEF SetRedisData
    <3>2. cache' \in [Tickers -> [Sales -> Result] \union {None}]
      BY <1>1, <2>1, <3>1, StoredType DEF PricesOK
    <3> QED
      BY <1>1, <2>1, <3>2 DEF SetRedisData, PricesOK, prices
  <2> QED
    BY <1>1, <2>1, SamePrices DEF Simulate, InitTradehistory, ThreadRaises
<1>5. /\ thread \in [1 .. Threads -> Thread]
      /\ new \in Thread /\ Started(new) /\ new.last = thread[i].last
  BY <1>1, <1>2 DEF NightOK, Kept
<1>6. thread' \in [1 .. Threads -> Thread]
  BY <1>2, <1>5
<1>7. faults' \in 0 .. MaxFaults
  BY <1>1, MiniAssumption DEF Simulate, InitTradehistory, SetRedisData,
     ThreadRaises, Fault, NightOK
<1>8. UNCHANGED <<night, cron, list, position, cronParam>>
  BY DEF Simulate, InitTradehistory, SetRedisData, ThreadRaises
<1>9. NightOK'
  BY <1>1, <1>6, <1>7, <1>8 DEF NightOK
<1>10. SharesInList' /\ ThreadsStarted'
  BY <1>1, <1>2, <1>5, <1>8 DEF SharesInList, ThreadsStarted
<1> QED
  BY <1>3, <1>4, <1>9, <1>10 DEF TypeInv, TypeOK

LEMMA GotoType ==
  ASSUME NEW q \in Pending,
         NEW pc \in {"lookup", "data", "run", "clear", "reply"}
  PROVE  [q EXCEPT !.pc = pc] \in Pending
BY DEF Pending

LEMMA BodyType ==
  ASSUME TypeInv, NEW r \in Requests, request[r].pc # "idle"
  PROVE  /\ request[r] \in Pending /\ request[r].body \in Body
         /\ request[r].body.ticker \in Tickers
         /\ request[r].body.sale \in Sales
         /\ request[r].body.setting \in Settings
BY DEF TypeInv, TypeOK, WebOK, Body

(* The record a step of a request leaves: a type-correct one with a body.  *)
Proper(new) ==
  new \in Pending /\ (new.pc # "idle" => new.body \in Body) /\ Answered(new)

LEMMA IdleProper == Proper(IdleRequest)
BY IdleRequestType DEF IdleRequest, Proper, Answered

LEMMA AskProper ==
  ASSUME NEW r \in Requests, NEW b \in Body, Ask(r, b)
  PROVE  \E new : Proper(new) /\ request' = [request EXCEPT ![r] = new]
<1> DEFINE new == [IdleRequest EXCEPT !.pc = "param", !.body = b]
<1>1. new \in Pending /\ new.body = b /\ new.pc = "param"
  BY AskedType DEF IdleRequest
<1>2. Proper(new)
  BY <1>1 DEF Proper, Answered
<1> QED
  BY <1>2 DEF Ask

LEMMA IsCacheHitProper ==
  ASSUME TypeInv, NEW r \in Requests, IsCacheHit(r)
  PROVE  \E new : Proper(new) /\ request' = [request EXCEPT ![r] = new]
<1> DEFINE q == request[r]
           b == q.body
           hit == [q EXCEPT !.pc = "reply", !.cached = TRUE,
                            !.res = cache[b.ticker][b.sale]]
           miss == [q EXCEPT !.pc = "data"]
<1>1. /\ q \in Pending /\ b \in Body
      /\ b.ticker \in Tickers /\ b.sale \in Sales
  BY BodyType DEF IsCacheHit
<1>2. CASE cache[b.ticker] # None
  <2>1. cache[b.ticker][b.sale] \in Result
    BY <1>1, <1>2 DEF TypeInv, TypeOK, PricesOK
  <2>2. hit \in Pending /\ hit.body = b /\ hit.res # None
    BY <1>1, <2>1, NoneAssumption DEF Pending
  <2>3. Proper(hit)
    BY <1>1, <2>2 DEF Proper, Answered
  <2>4. request' = [request EXCEPT ![r] = hit]
    BY <1>2 DEF IsCacheHit
  <2> QED
    BY <2>3, <2>4
<1>3. CASE cache[b.ticker] = None
  <2>1. miss \in Pending /\ miss.body = b /\ miss.pc = "data"
    BY <1>1 DEF Pending
  <2>2. Proper(miss)
    BY <1>1, <2>1 DEF Proper, Answered
  <2>3. request' = [request EXCEPT ![r] = miss]
    BY <1>3 DEF IsCacheHit
  <2> QED
    BY <2>2, <2>3
<1> QED
  BY <1>2, <1>3

LEMMA GetDBDataProper ==
  ASSUME TypeInv, NEW r \in Requests, GetDBData(r)
  PROVE  \E new : Proper(new) /\ request' = [request EXCEPT ![r] = new]
<1> DEFINE q == request[r]
           got == [q EXCEPT !.pc = "run", !.read = loaded[q.body.ticker]]
<1>1. q \in Pending /\ q.body \in Body /\ q.body.ticker \in Tickers
  BY BodyType DEF GetDBData
<1>2. CASE Enough(q.body.ticker, q.body.sale)
  <2>1. loaded[q.body.ticker] \in 0 .. MaxNights
    BY <1>1 DEF TypeInv, TypeOK, PricesOK
  <2>2. got \in Pending /\ got.body = q.body /\ got.pc = "run"
    BY <1>1, <2>1 DEF Pending
  <2>3. Proper(got)
    BY <1>1, <2>2 DEF Proper, Answered
  <2>4. request' = [request EXCEPT ![r] = got]
    BY <1>2 DEF GetDBData
  <2> QED
    BY <2>3, <2>4
<1>3. CASE ~Enough(q.body.ticker, q.body.sale)
  BY <1>3, IdleProper DEF GetDBData
<1> QED
  BY <1>2, <1>3

(* What a request simulates.                                               *)
Asked(r) ==
  LET b == request[r].body
  IN  [ticker |-> b.ticker, sale |-> b.sale, setting |-> webParam[b.sale],
       night |-> request[r].read]

LEMMA RunProper ==
  ASSUME TypeInv, NEW r \in Requests, Run(r)
  PROVE  \E new :
           /\ Proper(new)
           /\ new = [request[r] EXCEPT !.pc = "clear",
                       !.res = [rate |-> Asked(r), metrics |-> Asked(r)]]
           /\ request' = [request EXCEPT ![r] = new]
<1> DEFINE q == request[r]
           result == [rate |-> Asked(r), metrics |-> Asked(r)]
           new == [q EXCEPT !.pc = "clear", !.res = result]
<1>1. /\ q \in Pending /\ q.body \in Body /\ q.body.ticker \in Tickers
      /\ q.body.sale \in Sales
  BY BodyType DEF Run
<1>2. webParam[q.body.sale] \in Settings /\ q.read \in 0 .. MaxNights
  BY <1>1 DEF TypeInv, TypeOK, WebOK, Pending
<1>3. Asked(r) \in Figure
  BY <1>1, <1>2 DEF Asked, Figure
<1>4. result \in Result /\ result # None
  BY <1>3, NoneAssumption DEF Result
<1>5. request' = [request EXCEPT ![r] = new]
  BY <1>1 DEF Run, Asked, TypeInv, TypeOK, WebOK, Pending
<1> HIDE DEF result
<1>6. new \in Pending /\ new.body = q.body /\ new.res # None
  BY <1>1, <1>4 DEF Pending
<1>7. Proper(new)
  BY <1>1, <1>6 DEF Proper, Answered
<1> QED
  BY <1>5, <1>7 DEF result

LEMMA ClearHistoryProper ==
  ASSUME TypeInv, NEW r \in Requests, ClearHistory(r)
  PROVE  \E new : Proper(new) /\ request' = [request EXCEPT ![r] = new]
<1> DEFINE q == request[r]
           cleared == [q EXCEPT !.pc = "reply"]
<1>1. q \in Pending /\ q.body \in Body /\ q.res # None
  BY BodyType DEF ClearHistory, TypeInv, RequestsAnswered, Answered
<1>2. Proper(cleared)
  BY <1>1, GotoType DEF Proper, Pending, Answered
<1>3. request' \in {[request EXCEPT ![r] = cleared],
                    [request EXCEPT ![r] = IdleRequest]}
  BY DEF ClearHistory, Goto
<1> QED
  BY <1>2, <1>3, IdleProper

(* A step of a request leaves the prices and the night alone.              *)
LEMMA WebKeepsTheRest ==
  ASSUME TypeInv, WebOK', RequestsAnswered',
         UNCHANGED <<prices, cache, nightly>>,
         faults' \in 0 .. MaxFaults
  PROVE  TypeInv'
<1>1. PricesOK'
  BY SamePrices DEF TypeInv, TypeOK
<1>2. NightOK'
  BY DEF NightOK, nightly, TypeInv, TypeOK
<1>3. SharesInList' /\ ThreadsStarted'
  BY DEF SharesInList, ThreadsStarted, nightly, TypeInv
<1> QED
  BY <1>1, <1>2, <1>3 DEF TypeInv, TypeOK

(* A step of one request that leaves a proper record.                      *)
LEMMA ProperTypeInv ==
  ASSUME TypeInv, NEW r \in Requests, NEW new, Proper(new),
         request' = [request EXCEPT ![r] = new],
         UNCHANGED <<prices, cache, nightly, webParam>>,
         faults' \in 0 .. MaxFaults, front' \in [Body -> Answer \union {None}]
  PROVE  TypeInv'
<1>1. request \in [Requests -> Pending] /\ new \in Pending
  BY DEF Proper, TypeInv, TypeOK, WebOK
<1>2. request' \in [Requests -> Pending]
  BY <1>1
<1>3. \A q \in Requests : request'[q].pc # "idle" => request'[q].body \in Body
  BY <1>1 DEF Proper, TypeInv, TypeOK, WebOK
<1>4. WebOK'
  BY <1>2, <1>3 DEF WebOK, TypeInv, TypeOK
<1>5. RequestsAnswered'
  BY <1>1 DEF RequestsAnswered, Proper, TypeInv
<1> QED
  BY <1>4, <1>5, WebKeepsTheRest

LEMMA SetParamTypeInv ==
  ASSUME TypeInv, NEW r \in Requests, SetParam(r)
  PROVE  TypeInv'
<1> DEFINE b == request[r].body
           mine == [request[r] EXCEPT !.pc = IF b.setting = Default THEN "lookup"
                                                              ELSE "data"]
<1>1. /\ request \in [Requests -> Pending]
      /\ \A q \in Requests : request[q].pc # "idle" => request[q].body \in Body
      /\ b \in Body /\ b.sale \in Sales /\ b.setting \in Settings
  BY BodyType DEF SetParam, TypeInv, TypeOK, WebOK
<1>2. Proper(mine)
  BY <1>1 DEF Pending, Proper, Answered
<1>3. ASSUME NEW q \in Requests
      PROVE  Proper(request'[q])
  <2> DEFINE other == [request[q] EXCEPT !.shared = TRUE]
  <2>1. /\ other \in Pending
        /\ other.pc = request[q].pc /\ other.body = request[q].body
        /\ other.res = request[q].res
    BY <1>1 DEF Pending
  <2>2. request'[q] \in {mine, other, request[q]}
    BY DEF SetParam
  <2>3. CASE request'[q] = mine
    BY <1>2, <2>3
  <2>4. CASE request'[q] \in {other, request[q]}
    BY <1>1, <2>1, <2>4
       DEF Proper, Answered, TypeInv, RequestsAnswered
  <2> QED
    BY <2>2, <2>3, <2>4
<1>4. request' \in [Requests -> Pending]
  <2>1. request' = [q \in Requests |-> request'[q]]
    BY DEF SetParam
  <2> QED
    BY <1>3, <2>1 DEF Proper
<1>5. webParam' \in [Sales -> Settings]
  BY <1>1 DEF SetParam, TypeInv, TypeOK, WebOK
<1>6. WebOK'
  BY <1>3, <1>4, <1>5 DEF SetParam, Proper, WebOK, TypeInv, TypeOK
<1>7. RequestsAnswered'
  BY <1>3 DEF RequestsAnswered, Proper
<1> QED
  BY <1>6, <1>7, WebKeepsTheRest DEF SetParam, TypeInv, TypeOK, NightOK

LEMMA ReplyAnswer ==
  ASSUME TypeInv, NEW r \in Requests, Reply(r)
  PROVE  front' \in [Body -> Answer \union {None}]
<1> DEFINE q == request[r]
           answer == [res |-> q.res, cached |-> q.cached, shared |-> q.shared]
<1>1. q \in Pending /\ q.body \in Body
  BY BodyType DEF Reply
<1>2. q.res # None
  BY DEF Reply, TypeInv, RequestsAnswered, Answered
<1>3. answer \in Answer
  BY <1>1, <1>2 DEF Pending, Answer
<1> QED
  BY <1>1, <1>3 DEF Reply, TypeInv, TypeOK, WebOK

LEMMA RequestTypeInv ==
  ASSUME TypeInv, NEW r \in Requests, Serve(r) \/ RequestRaises(r)
  PROVE  TypeInv'
<1>1. front \in [Body -> Answer \union {None}] /\ faults \in 0 .. MaxFaults
  BY DEF TypeInv, TypeOK, WebOK, NightOK
<1>2. CASE SetParam(r)
  BY <1>2, SetParamTypeInv
<1>3. CASE IsCacheHit(r)
  BY <1>1, <1>3, IsCacheHitProper, ProperTypeInv DEF IsCacheHit
<1>4. CASE GetDBData(r)
  BY <1>1, <1>4, GetDBDataProper, ProperTypeInv DEF GetDBData
<1>5. CASE Run(r)
  BY <1>1, <1>5, RunProper, ProperTypeInv DEF Run
<1>6. CASE ClearHistory(r)
  BY <1>1, <1>6, ClearHistoryProper, ProperTypeInv DEF ClearHistory
<1>7. CASE Reply(r)
  BY <1>1, <1>7, ReplyAnswer, IdleProper, ProperTypeInv DEF Reply
<1>8. CASE RequestRaises(r)
  <2>1. faults' \in 0 .. MaxFaults
    BY <1>1, <1>8, MiniAssumption DEF RequestRaises, Fault
  <2> QED
    BY <1>1, <1>8, <2>1, IdleProper, ProperTypeInv DEF RequestRaises
<1> QED
  BY <1>2, <1>3, <1>4, <1>5, <1>6, <1>7, <1>8 DEF Serve

LEMMA AskTypeInv ==
  ASSUME TypeInv, NEW r \in Requests, NEW b \in Body, Ask(r, b)
  PROVE  TypeInv'
BY AskProper, ProperTypeInv DEF Ask, TypeInv, TypeOK, WebOK, NightOK

LEMMA ExpireTypeInv ==
  ASSUME TypeInv, NEW b \in Body, Expire(b)
  PROVE  TypeInv'
<1>1. WebOK' /\ RequestsAnswered'
  BY DEF Expire, TypeInv, TypeOK, WebOK, RequestsAnswered
<1> QED
  BY <1>1, WebKeepsTheRest DEF Expire, TypeInv, TypeOK, NightOK

(* Every step is one of the night's process, of one of its threads, of a   *)
(* request or of the cache in front; or nothing changes.                   *)
MainStep ==
  \/ Flush \/ FlushRaises \/ GetAllTickerFromDB \/ DailyCorporation
  \/ DailyStockData \/ MakeThread \/ Join \/ SearchMockInvest \/ LoadRaises

ThreadStep(i) ==
  Simulate(i) \/ InitTradehistory(i) \/ SetRedisData(i) \/ ThreadRaises(i)

LEMMA Steps ==
  ASSUME [Next]_vars
  PROVE  \/ MainStep
         \/ \E i \in 1 .. Threads : ThreadStep(i)
         \/ \E r \in Requests : \/ \E b \in Body : Ask(r, b)
                                \/ Serve(r) \/ RequestRaises(r)
         \/ \E b \in Body : Expire(b)
         \/ UNCHANGED vars
BY DEF Next, Night, MainStep, ThreadStep, Terminated

LEMMA NextTypeInv == TypeInv /\ [Next]_vars => TypeInv'
<1> SUFFICES ASSUME TypeInv, [Next]_vars PROVE TypeInv'
  OBVIOUS
<1>1. CASE MainStep
  BY <1>1, MainTypeInv DEF MainStep
<1>2. CASE \E i \in 1 .. Threads : ThreadStep(i)
  BY <1>2, ThreadTypeInv DEF ThreadStep
<1>3. CASE \E r \in Requests : \/ \E b \in Body : Ask(r, b)
                               \/ Serve(r) \/ RequestRaises(r)
  BY <1>3, AskTypeInv, RequestTypeInv
<1>4. CASE \E b \in Body : Expire(b)
  BY <1>4, ExpireTypeInv
<1>5. CASE UNCHANGED vars
  <2>1. PricesOK' /\ NightOK' /\ WebOK'
    BY <1>5, SamePrices, SameNight, SameWeb
       DEF vars, prices, nightly, web, TypeInv, TypeOK
  <2>2. SharesInList' /\ ThreadsStarted' /\ RequestsAnswered'
    BY <1>5 DEF vars, nightly, web, TypeInv, SharesInList, ThreadsStarted,
       RequestsAnswered
  <2> QED
    BY <2>1, <2>2 DEF TypeInv, TypeOK
<1> QED
  BY <1>1, <1>2, <1>3, <1>4, <1>5, Steps

(* The mini backtest's state keeps its types (MiniBacktest.tla, TypeOK).   *)
THEOREM TypeCorrect == Spec => []TypeOK
<1>1. TypeInv => TypeOK
  BY DEF TypeInv
<1> QED
  BY <1>1, InitTypeInv, NextTypeInv, PTL DEF Spec

-----------------------------------------------------------------------------
(* What the cache holds                                                    *)

(* A figure about ticker t; and one of tonight.                            *)
FigureOf(figure, t) ==
  /\ figure.ticker = t
  /\ figure.night = 1 => figure.setting = Default

Tonight(figure, t) == figure.night = night /\ FigureOf(figure, t)

ResultOf(res, t) ==
  FigureOf(res.metrics, t) /\ (res.rate # Flat => res.rate.ticker = t)

CacheOwn ==
  /\ \A t \in Tickers : cache[t] # None =>
       \A sale \in Sales : ResultOf(cache[t][sale], t)
  /\ CacheIsOfOneNight

(* The prices of the list are tonight's by the time they are used.         *)
Loaded ==
  /\ cron = "corporations" => position = 0
  /\ cron = "load" =>
       \A k \in 1 .. Len(list) : k <= position => loaded[list[k]] = night
  /\ cron = "threads" => \A k \in 1 .. Len(list) : loaded[list[k]] = night

(* The settings are changed by the sweep alone.                            *)
ParamsDefault ==
  /\ cron # "idle" => night # 0
  /\ night = 0 \/ (night = 1 /\ cron # "idle") =>
       \A sale \in Sales : cronParam[sale] = Default

(* A thread's own results are about its ticker.                            *)
ThreadOwn(i) ==
  /\ thread[i].total # None => Tonight(thread[i].total, list[thread[i].next])
  /\ thread[i].res # None => /\ ResultOf(thread[i].res, list[thread[i].next])
                             /\ thread[i].res.metrics.night = night

ThreadsOwn == cron = "threads" => \A i \in 1 .. Threads : ThreadOwn(i)

CacheInv == CacheOwn /\ Loaded /\ ParamsDefault /\ ThreadsOwn

LEMMA InitCacheInv == Init => CacheInv
BY DEF Init, CacheInv, CacheOwn, CacheIsOfOneNight, Loaded, ParamsDefault, ThreadsOwn

(* What is computed from tonight's prices is tonight's.                    *)
LEMMA OwnTonight ==
  ASSUME TypeInv, CacheInv, NEW i \in 1 .. Threads, Alive(i), thread[i].at <= Last
  PROVE  Tonight(Own(i), list[thread[i].next])
<1> DEFINE t    == list[thread[i].next]
           sale == SaleOrder[thread[i].at]
<1>1. thread[i].next \in 1 .. Len(list) /\ thread[i].at \in 1 .. Last + 1
  BY AliveTicker DEF Thread
<1>2. sale \in Sales
  BY <1>1, LastType
<1>3. loaded[t] = night
  BY <1>1 DEF CacheInv, Loaded, Alive
<1>4. night = 1 => cronParam[sale] = Default
  BY <1>2 DEF CacheInv, ParamsDefault, Alive
<1> QED
  BY <1>3, <1>4 DEF Tonight, FigureOf, Own

LEMMA MainCacheInv ==
  ASSUME TypeInv, CacheInv, MainStep
  PROVE  CacheInv'
<1>1. CASE Flush \/ FlushRaises
  <2>1. CacheOwn'
    <3>1. CASE cache' = [t \in Tickers |-> None]
      BY <3>1 DEF CacheOwn, CacheIsOfOneNight
    <3>2. CASE cache' = cache /\ cron' = "idle"
      BY <3>2 DEF CacheInv, CacheOwn, CacheIsOfOneNight
    <3> QED
      BY <1>1, <3>1, <3>2 DEF Flush, FlushRaises
  <2>2. Loaded' /\ ThreadsOwn'
    BY <1>1 DEF Flush, FlushRaises, Loaded, ThreadsOwn
  <2>3. ParamsDefault'
    BY <1>1 DEF Flush, FlushRaises, ParamsDefault, CacheInv, TypeInv, TypeOK, NightOK
  <2> QED
    BY <2>1, <2>2, <2>3 DEF CacheInv
<1>2. CASE ~(Flush \/ FlushRaises)
  <2>1. /\ UNCHANGED <<cache, night>>
        /\ cron' # "idle" => cron # "idle"
    BY <1>2 DEF MainStep, GetAllTickerFromDB, DailyCorporation, DailyStockData,
       MakeThread, Join, SearchMockInvest, LoadRaises
  <2>2. CacheOwn'
    BY <2>1 DEF CacheInv, CacheOwn, CacheIsOfOneNight
  <2>3. ParamsDefault'
    BY <1>2 DEF MainStep, GetAllTickerFromDB, DailyCorporation, DailyStockData,
       MakeThread, Join, SearchMockInvest, LoadRaises, CacheInv, ParamsDefault,
       TypeInv, TypeOK, NightOK
  <2>4. Loaded'
    <3>1. CASE DailyCorporation
      <4>1. position' = 0 /\ cron' = "load"
        BY <3>1 DEF DailyCorporation, CacheInv, Loaded
      <4> QED
        BY <4>1 DEF Loaded
    <3>2. CASE DailyStockData
      <4>1. /\ list \in Seq(Tickers) /\ position \in Nat
            /\ position + 1 \in 1 .. Len(list)
            /\ list[position + 1] \in Tickers
            /\ loaded \in [Tickers -> 0 .. MaxNights]
        BY <3>2 DEF DailyStockData, TypeInv, TypeOK, NightOK, PricesOK
      <4>2. /\ loaded' = [loaded EXCEPT ![list[position + 1]] = night]
            /\ position' = position + 1 /\ cron = "load" /\ cron' = "load"
            /\ list' = list /\ night' = night
        BY <3>2 DEF DailyStockData
      <4>3. ASSUME NEW k \in 1 .. Len(list), k <= position + 1
            PROVE  loaded'[list[k]] = night
        <5>1. list[k] \in Tickers
          BY <4>1
        <5>2. k <= position \/ k = position + 1
          BY <4>1, <4>3
        <5>3. k <= position => loaded[list[k]] = night
          BY <4>2 DEF CacheInv, Loaded
        <5> QED
          BY <4>1, <4>2, <5>1, <5>2, <5>3
      <4> QED
        BY <4>2, <4>3 DEF Loaded
    <3>3. CASE MakeThread
      <4>1. position = Len(list) /\ cron = "load" /\ cron' = "threads"
            /\ UNCHANGED <<list, loaded, night>>
        BY <3>3 DEF MakeThread, prices
      <4>2. \A k \in 1 .. Len(list) : loaded[list[k]] = night
        BY <4>1 DEF CacheInv, Loaded
      <4> QED
        BY <4>1, <4>2 DEF Loaded
    <3>4. CASE GetAllTickerFromDB \/ Join \/ SearchMockInvest \/ LoadRaises
      BY <3>4 DEF GetAllTickerFromDB, Join, SearchMockInvest, LoadRaises, Loaded
    <3> QED
      BY <1>2, <3>1, <3>2, <3>3, <3>4 DEF MainStep
  <2>5. ThreadsOwn'
    <3>1. CASE MakeThread
      <4>1. \A i \in 1 .. Threads :
              thread'[i].total = None /\ thread'[i].res = None
        BY <3>1 DEF MakeThread, IdleThread
      <4> QED
        BY <4>1 DEF ThreadsOwn, ThreadOwn
    <3> QED
      BY <1>2, <3>1 DEF MainStep, GetAllTickerFromDB, DailyCorporation,
         DailyStockData, Join, SearchMockInvest, LoadRaises, ThreadsOwn
  <2> QED
    BY <2>2, <2>3, <2>4, <2>5 DEF CacheInv
<1> QED
  BY <1>1, <1>2

LEMMA ThreadCacheInv ==
  ASSUME TypeInv, CacheInv, NEW i \in 1 .. Threads, ThreadStep(i)
  PROVE  CacheInv'
<1> DEFINE t == list[thread[i].next]
<1>1. /\ Alive(i) /\ cron = "threads" /\ ThreadOwn(i)
      /\ UNCHANGED <<loaded, night, cron, list, position, cronParam>>
  BY DEF ThreadStep, Simulate, InitTradehistory, SetRedisData, ThreadRaises,
     Alive, prices, CacheInv, ThreadsOwn
<1>2. /\ thread[i] \in Thread /\ Started(thread[i]) /\ t \in Tickers
      /\ thread \in [1 .. Threads -> Thread]
      /\ cache \in [Tickers -> [Sales -> Result] \union {None}]
  BY <1>1, AliveTicker DEF TypeInv, TypeOK, NightOK, PricesOK, ThreadsStarted
<1>3. Loaded' /\ ParamsDefault'
  BY <1>1 DEF CacheInv, Loaded, ParamsDefault
<1>4. CacheOwn'
  <2>1. CASE SetRedisData(i)
    <3>1. thread[i].res # None
      BY <1>2, <2>1, LastType DEF SetRedisData, Started, Thread
    <3>2. ResultOf(thread[i].res, t)
      BY <1>1, <3>1 DEF ThreadOwn
    <3>3. cache' = [cache EXCEPT ![t] = [sale \in Sales |-> thread[i].res]]
      BY <2>1 DEF SetRedisData
    <3>4. ASSUME NEW u \in Tickers, NEW sale \in Sales, cache'[u] # None
          PROVE  ResultOf(cache'[u][sale], u) /\ cache'[u][sale].metrics.night = night
      <4>1. CASE u = t
        BY <1>1, <1>2, <3>1, <3>2, <3>3, <4>1 DEF ThreadOwn
      <4>2. CASE u # t
        BY <1>1, <1>2, <3>3, <3>4, <4>2 DEF CacheInv, CacheOwn, CacheIsOfOneNight
      <4> QED
        BY <4>1, <4>2
    <3> QED
      BY <1>1, <3>4 DEF CacheOwn, CacheIsOfOneNight
  <2>2. CASE ~SetRedisData(i)
    <3>1. cache' = cache
      BY <2>2 DEF ThreadStep, Simulate, InitTradehistory, ThreadRaises
    <3> QED
      BY <1>1, <3>1 DEF CacheInv, CacheOwn, CacheIsOfOneNight
  <2> QED
    BY <2>1, <2>2
<1>5. PICK new : Kept(thread[i], new) /\ thread' = [thread EXCEPT ![i] = new]
  BY ThreadSteps DEF ThreadStep
<1>6. thread'[i] = new /\ \A j \in 1 .. Threads : j # i => thread'[j] = thread[j]
  BY <1>2, <1>5
<1>7. /\ new.total # None => Tonight(new.total, list[new.next])
      /\ new.res # None => /\ ResultOf(new.res, list[new.next])
                            /\ new.res.metrics.night = night
  <2>1. CASE Dies(i)
    BY <1>1, <1>2, <1>6, <2>1 DEF Dies, Dead, Thread, ThreadOwn
  <2>2. CASE Simulate(i)
    <3>1. CASE Simulated(i)
      <4>1. Tonight(Own(i), t) /\ Own(i).ticker = t
        BY <1>1, <2>2, OwnTonight DEF Simulate, Own
      <4>2. /\ new.total = Own(i) /\ new.next = thread[i].next
            /\ new.res = [rate |-> Own(i), metrics |-> Own(i)]
        BY <1>2, <1>6, <3>1 DEF Simulated, Thread
      <4> QED
        BY <4>1, <4>2 DEF ResultOf, Tonight
    <3>2. CASE PassedOver(i)
      <4>1. /\ new.total = thread[i].total /\ new.next = thread[i].next
            /\ new.res = [rate |-> Flat, metrics |-> thread[i].total]
            /\ thread[i].total # None
        BY <1>2, <1>6, <3>2 DEF PassedOver, Thread
      <4> QED
        BY <1>1, <4>1 DEF ResultOf, ThreadOwn, Tonight
    <3> QED
      BY <2>1, <2>2, <3>1, <3>2, SimulateOutcomes
  <2>3. CASE InitTradehistory(i) /\ ~Dies(i)
    <3>1. thread' = [thread EXCEPT ![i] =
            [thread[i] EXCEPT !.clearing = FALSE, !.at = @ + 1]]
      BY <2>3, DiesOutcome
    <3>2. new.total = thread[i].total /\ new.next = thread[i].next
          /\ new.res = thread[i].res
      BY <1>2, <1>6, <3>1 DEF Thread
    <3> QED
      BY <1>1, <3>2 DEF ThreadOwn
  <2>4. CASE SetRedisData(i)
    BY <1>2, <1>6, <2>4 DEF SetRedisData, IdleThread
  <2> QED
    BY <2>1, <2>2, <2>3, <2>4, DiesOutcome DEF ThreadStep, ThreadRaises, Dies
<1>8. ThreadsOwn'
  BY <1>1, <1>6, <1>7 DEF CacheInv, ThreadsOwn, ThreadOwn, ResultOf, Tonight
<1> QED
  BY <1>3, <1>4, <1>8 DEF CacheInv

LEMMA NextCacheInv == TypeInv /\ CacheInv /\ [Next]_vars => CacheInv'
<1> SUFFICES ASSUME TypeInv, CacheInv, [Next]_vars PROVE CacheInv'
  OBVIOUS
<1>1. CASE MainStep
  BY <1>1, MainCacheInv
<1>2. CASE \E i \in 1 .. Threads : ThreadStep(i)
  BY <1>2, ThreadCacheInv
<1>3. CASE UNCHANGED <<prices, cache, nightly>>
  BY <1>3 DEF prices, nightly, CacheInv, CacheOwn, CacheIsOfOneNight, Loaded,
     ParamsDefault, ThreadsOwn, ThreadOwn, Tonight
<1> QED
  BY <1>1, <1>2, <1>3, Steps DEF Serve, Ask, SetParam, IsCacheHit, GetDBData,
     Run, ClearHistory, Reply, RequestRaises, Expire, vars

LEMMA CacheInvariant == Spec => [](TypeInv /\ CacheInv)
BY InitTypeInv, InitCacheInv, NextTypeInv, NextCacheInv, PTL DEF Spec

(* What Redis holds is of one night, tonight's while the job is at it, also *)
(* where a flush raised (callDaily).                                       *)
THEOREM CacheIsFresh == Spec => []CacheIsOfOneNight
<1>1. CacheInv => CacheIsOfOneNight
  BY DEF CacheInv, CacheOwn
<1> QED
  BY <1>1, CacheInvariant, PTL

(* Nor does it hold one of another ticker (getMiniBacktest3YearData).      *)
THEOREM CacheIsOwn == Spec => []CacheIsOfTheTicker
<1>1. CacheInv => CacheIsOfTheTicker
  BY DEF CacheInv, CacheOwn, CacheIsOfTheTicker, ResultOf, FigureOf
<1> QED
  BY <1>1, CacheInvariant, PTL

(* The first night's figures are those of the default settings, before the *)
(* sweep has changed them (searchMockInvest).                              *)
THEOREM FirstNightIsDefault == Spec => []DefaultsUntilSweep
<1>1. CacheInv => DefaultsUntilSweep
  BY DEF CacheInv, CacheOwn, DefaultsUntilSweep, ResultOf, FigureOf
<1> QED
  BY <1>1, CacheInvariant, PTL

-----------------------------------------------------------------------------
(* What a request is answered                                              *)

(* Between the setting and the run, the class has the parameters of the    *)
(* request, unless another set them.                                       *)
OwnParam(r) ==
  Exposed(r) /\ ~request[r].shared =>
    webParam[request[r].body.sale] = request[r].body.setting

AnswerOwn(r) ==
  /\ request[r].cached => request[r].pc = "reply"
  /\ request[r].pc \in {"clear", "reply"} => Honest(request[r].body, request[r])

HonestInv ==
  /\ \A r \in Requests : OwnParam(r) /\ AnswerOwn(r)
  /\ \A b \in Body : front[b] # None => Honest(b, front[b])

LEMMA InitHonestInv == Init => HonestInv
BY DEF Init, HonestInv, OwnParam, AnswerOwn, Exposed, IdleRequest

(* A step of one request that leaves the parameters alone has only its own *)
(* record to account for.                                                  *)
LEMMA OtherRequests ==
  ASSUME TypeInv, HonestInv, NEW r \in Requests, NEW new,
         request' = [request EXCEPT ![r] = new], webParam' = webParam,
         OwnParam(r)', AnswerOwn(r)'
  PROVE  \A q \in Requests : OwnParam(q)' /\ AnswerOwn(q)'
<1> TAKE q \in Requests
<1>1. CASE q = r
  BY <1>1
<1>2. CASE q # r
  <2>1. request'[q] = request[q]
    BY <1>2 DEF TypeInv, TypeOK, WebOK
  <2> QED
    BY <2>1 DEF HonestInv, OwnParam, AnswerOwn, Exposed, Honest
<1> QED
  BY <1>1, <1>2

LEMMA IdleHonest ==
  ASSUME TypeInv, HonestInv, NEW r \in Requests,
         request' = [request EXCEPT ![r] = IdleRequest], webParam' = webParam
  PROVE  \A q \in Requests : OwnParam(q)' /\ AnswerOwn(q)'
<1>1. request'[r] = IdleRequest
  BY DEF TypeInv, TypeOK, WebOK
<1>2. OwnParam(r)' /\ AnswerOwn(r)'
  BY <1>1 DEF OwnParam, AnswerOwn, Exposed, IdleRequest
<1> QED
  BY <1>2, OtherRequests

LEMMA FrontKept ==
  ASSUME HonestInv, front' = front
  PROVE  \A b \in Body : front'[b] # None => Honest(b, front'[b])
BY DEF HonestInv

LEMMA SetParamHonest ==
  ASSUME TypeInv, HonestInv, NEW r \in Requests, SetParam(r)
  PROVE  HonestInv'
<1> DEFINE b == request[r].body
<1>1. /\ request \in [Requests -> Pending] /\ b.sale \in Sales
      /\ webParam \in [Sales -> Settings]
      /\ \A q \in Requests : request[q].pc # "idle" => request[q].body \in Body
  BY BodyType DEF SetParam, TypeInv, TypeOK, WebOK
<1>2. webParam' = [webParam EXCEPT ![b.sale] = b.setting]
  BY DEF SetParam
<1>3. OwnParam(r)' /\ AnswerOwn(r)'
  <2>1. /\ request'[r].pc \in {"lookup", "data"} /\ request'[r].body = b
        /\ request'[r].cached = request[r].cached
    BY <1>1 DEF SetParam, Pending
  <2>2. request[r].cached = FALSE
    BY <1>1 DEF SetParam, HonestInv, AnswerOwn, Pending
  <2> QED
    BY <1>1, <1>2, <2>1, <2>2 DEF OwnParam, AnswerOwn
<1>4. ASSUME NEW q \in Requests, q # r
      PROVE  OwnParam(q)' /\ AnswerOwn(q)'
  <2>1. CASE Exposed(q) /\ request[q].body.sale = b.sale
    <3>1. request'[q] = [request[q] EXCEPT !.shared = TRUE]
      BY <1>4, <2>1 DEF SetParam
    <3>2. /\ request'[q].shared /\ request'[q].pc = request[q].pc
          /\ request'[q].cached = request[q].cached
      BY <1>1, <3>1 DEF Pending
    <3>3. request[q].pc \in {"lookup", "data", "run"}
      BY <2>1 DEF Exposed
    <3> QED
      BY <3>2, <3>3 DEF OwnParam, AnswerOwn, HonestInv
  <2>2. CASE ~(Exposed(q) /\ request[q].body.sale = b.sale)
    <3>1. request'[q] = request[q]
      BY <1>4, <2>2 DEF SetParam
    <3>2. AnswerOwn(q)'
      BY <3>1 DEF HonestInv, AnswerOwn, Honest
    <3>3. OwnParam(q)'
      <4>1. CASE Exposed(q)
        <5>1. request[q].body.sale \in Sales
          BY <1>1, <4>1 DEF Exposed, Body
        <5>2. webParam'[request[q].body.sale] = webParam[request[q].body.sale]
          BY <1>1, <1>2, <2>2, <4>1, <5>1
        <5> QED
          BY <3>1, <5>2 DEF HonestInv, OwnParam, Exposed
      <4>2. CASE ~Exposed(q)
        BY <3>1, <4>2 DEF OwnParam, Exposed
      <4> QED
        BY <4>1, <4>2
    <3> QED
      BY <3>2, <3>3
  <2> QED
    BY <2>1, <2>2
<1> QED
  BY <1>3, <1>4, FrontKept DEF HonestInv, SetParam

LEMMA RunHonest ==
  ASSUME TypeInv, HonestInv, NEW r \in Requests, Run(r)
  PROVE  HonestInv'
<1> DEFINE q == request[r]
           b == q.body
           own == [ticker |-> b.ticker, sale |-> b.sale, setting |-> b.setting,
                   night |-> q.read]
<1>1. PICK new :
        /\ new = [q EXCEPT !.pc = "clear",
                           !.res = [rate |-> Asked(r), metrics |-> Asked(r)]]
        /\ request' = [request EXCEPT ![r] = new]
  BY RunProper
<1>2. q \in Pending /\ request \in [Requests -> Pending] /\ q.pc = "run"
  BY DEF Run, TypeInv, TypeOK, WebOK
<1>3. /\ request'[r] = new /\ new.pc = "clear" /\ new.body = b
      /\ new.shared = q.shared /\ new.cached = q.cached
      /\ new.res = [rate |-> Asked(r), metrics |-> Asked(r)]
  BY <1>1, <1>2 DEF Pending
<1>4. ~q.shared => Asked(r) = own
  BY <1>2 DEF HonestInv, OwnParam, Exposed, Asked
<1>5. q.read \in 0 .. MaxNights
  BY <1>2 DEF Pending
<1>6. Honest(b, new)
  BY <1>3, <1>4, <1>5 DEF Honest
<1>7. ~q.cached
  BY <1>2 DEF HonestInv, AnswerOwn
<1>8. OwnParam(r)' /\ AnswerOwn(r)'
  BY <1>3, <1>6, <1>7 DEF OwnParam, AnswerOwn, Exposed
<1> QED
  BY <1>1, <1>8, OtherRequests, FrontKept DEF HonestInv, Run

LEMMA LookupHonest ==
  ASSUME TypeInv, HonestInv, NEW r \in Requests, IsCacheHit(r) \/ GetDBData(r)
  PROVE  HonestInv'
<1>1. request \in [Requests -> Pending] /\ request[r] \in Pending
  BY DEF TypeInv, TypeOK, WebOK
<1>2. PICK new : request' = [request EXCEPT ![r] = new]
  BY IsCacheHitProper, GetDBDataProper
<1>3. request'[r] = new
  BY <1>1, <1>2
<1>4. \/ new.pc = "reply" /\ new.cached
      \/ /\ new.pc \in {"data", "run"} /\ Exposed(r)
         /\ new.body = request[r].body /\ new.shared = request[r].shared
         /\ new.cached = request[r].cached
      \/ new = IdleRequest
  <2> DEFINE q == request[r]
  <2>1. CASE IsCacheHit(r)
    <3>1. \/ \E res : new = [q EXCEPT !.pc = "reply", !.cached = TRUE, !.res = res]
          \/ new = [q EXCEPT !.pc = "data"]
      BY <1>1, <1>3, <2>1 DEF IsCacheHit
    <3>2. Exposed(r)
      BY <2>1 DEF IsCacheHit, Exposed
    <3> QED
      BY <1>1, <3>1, <3>2 DEF Pending
  <2>2. CASE GetDBData(r)
    <3>1. \/ \E n : new = [q EXCEPT !.pc = "run", !.read = n]
          \/ new = IdleRequest
      BY <1>1, <1>3, <2>2 DEF GetDBData
    <3>2. Exposed(r)
      BY <2>2 DEF GetDBData, Exposed
    <3> QED
      BY <1>1, <3>1, <3>2 DEF Pending
  <2> QED
    BY <2>1, <2>2
<1>5. Exposed(r) => ~request[r].cached
  BY DEF HonestInv, AnswerOwn, Exposed
<1>6. UNCHANGED <<webParam, front>>
  BY DEF IsCacheHit, GetDBData
<1>7. OwnParam(r)' /\ AnswerOwn(r)'
  BY <1>3, <1>4, <1>5, <1>6
     DEF HonestInv, OwnParam, AnswerOwn, Exposed, Honest, IdleRequest
<1> QED
  BY <1>2, <1>6, <1>7, OtherRequests, FrontKept DEF HonestInv

LEMMA ClearHistoryHonest ==
  ASSUME TypeInv, HonestInv, NEW r \in Requests, ClearHistory(r)
  PROVE  HonestInv'
<1> DEFINE new == [request[r] EXCEPT !.pc = "reply"]
<1>1. request \in [Requests -> Pending] /\ request[r] \in Pending
  BY DEF TypeInv, TypeOK, WebOK
<1>2. CASE request' = [request EXCEPT ![r] = new]
  <2>1. /\ request'[r] = new /\ new.pc = "reply"
        /\ new.body = request[r].body /\ new.res = request[r].res
        /\ new.cached = request[r].cached /\ new.shared = request[r].shared
    BY <1>1, <1>2 DEF Pending
  <2>2. Honest(request[r].body, request[r])
    BY DEF ClearHistory, HonestInv, AnswerOwn
  <2>3. OwnParam(r)' /\ AnswerOwn(r)'
    BY <2>1, <2>2 DEF OwnParam, AnswerOwn, Exposed, Honest
  <2> QED
    BY <1>2, <2>3, OtherRequests, FrontKept DEF HonestInv, ClearHistory
<1>3. CASE request' = [request EXCEPT ![r] = IdleRequest]
  BY <1>3, IdleHonest, FrontKept DEF HonestInv, ClearHistory
<1> QED
  BY <1>1, <1>2, <1>3 DEF ClearHistory, Goto

LEMMA ReplyHonest ==
  ASSUME TypeInv, HonestInv, NEW r \in Requests, Reply(r)
  PROVE  HonestInv'
<1> DEFINE q == request[r]
           answer == [res |-> q.res, cached |-> q.cached, shared |-> q.shared]
<1>1. Honest(q.body, q)
  BY DEF Reply, HonestInv, AnswerOwn
<1>2. Honest(q.body, answer)
  BY <1>1 DEF Honest
<1>3. /\ front' = [front EXCEPT ![q.body] = answer]
      /\ front \in [Body -> Answer \union {None}]
  BY DEF Reply, TypeInv, TypeOK, WebOK
<1>4. \A b \in Body : front'[b] # None => Honest(b, front'[b])
  <2> HIDE DEF answer
  <2> QED
    BY <1>2, <1>3 DEF HonestInv
<1> QED
  BY <1>4, IdleHonest DEF HonestInv, Reply

LEMMA NextHonestInv == TypeInv /\ HonestInv /\ [Next]_vars => HonestInv'
<1> SUFFICES ASSUME TypeInv, HonestInv, [Next]_vars PROVE HonestInv'
  OBVIOUS
<1>1. CASE UNCHANGED web
  BY <1>1 DEF web, HonestInv, OwnParam, AnswerOwn, Exposed
<1>2. ASSUME NEW r \in Requests, NEW b \in Body, Ask(r, b) PROVE HonestInv'
  <2> DEFINE new == [IdleRequest EXCEPT !.pc = "param", !.body = b]
  <2>1. request' = [request EXCEPT ![r] = new] /\ UNCHANGED <<webParam, front>>
    BY <1>2 DEF Ask
  <2>2. request'[r] = new
    BY <2>1 DEF TypeInv, TypeOK, WebOK
  <2>3. OwnParam(r)' /\ AnswerOwn(r)'
    BY <2>2 DEF OwnParam, AnswerOwn, Exposed, IdleRequest
  <2> QED
    BY <2>1, <2>3, OtherRequests, FrontKept DEF HonestInv
<1>3. ASSUME NEW r \in Requests, RequestRaises(r) PROVE HonestInv'
  BY <1>3, IdleHonest, FrontKept DEF HonestInv, RequestRaises
<1>4. ASSUME NEW r \in Requests, Serve(r) PROVE HonestInv'
  BY <1>4, SetParamHonest, RunHonest, LookupHonest, ClearHistoryHonest,
     ReplyHonest DEF Serve
<1>5. ASSUME NEW b \in Body, Expire(b) PROVE HonestInv'
  BY <1>5 DEF Expire, HonestInv, OwnParam, AnswerOwn, Exposed, Honest,
     TypeInv, TypeOK, WebOK
<1>6. MainStep => UNCHANGED web
  BY DEF MainStep, Flush, GetAllTickerFromDB, DailyCorporation, DailyStockData,
     MakeThread, Join, SearchMockInvest, FlushRaises, LoadRaises
<1>7. \A i \in 1 .. Threads : ThreadStep(i) => UNCHANGED web
  BY DEF ThreadStep, Simulate, InitTradehistory, SetRedisData, ThreadRaises
<1> QED
  BY <1>1, <1>2, <1>3, <1>4, <1>5, <1>6, <1>7, Steps DEF vars

(* A computed answer is for what was asked, unless another request set the *)
(* class in between (getMiniBacktest).                                     *)
THEOREM AnswersAreHonest == Spec => []HonestAnswers
<1>1. HonestInv => HonestAnswers
  BY DEF HonestInv, AnswerOwn, HonestAnswers
<1> QED
  BY <1>1, InitTypeInv, NextTypeInv, InitHonestInv, NextHonestInv, PTL DEF Spec

-----------------------------------------------------------------------------
(* The shares of the threads                                               *)

LEMMA Products ==
  ASSUME NEW a \in Nat, NEW b \in Nat, NEW c \in Nat, a <= b
  PROVE  c * a <= c * b
<1>1. PICK d \in Nat : b = a + d
  BY b - a \in Nat
<1>2. c * b = c * a + c * d /\ c * d \in Nat /\ c * a \in Nat
  BY <1>1
<1> QED
  BY <1>2

(* The i-th cut is at or behind k when i of Threads parts are as much as k. *)
LEMMA CutReaches ==
  ASSUME list \in Seq(Tickers), NEW i \in 0 .. Threads, NEW k \in Nat
  PROVE  k <= Cut(i) <=> Threads * k <= Len(list) * i
<1> DEFINE c == Cut(i)
<1>1. /\ c \in Nat /\ Threads \in Nat /\ Len(list) \in Nat /\ i \in Nat
      /\ Threads * c <= Len(list) * i
      /\ Len(list) * i < Threads * c + Threads
  BY CutBounds, MiniAssumption
<1> HIDE DEF c
<1>2. ASSUME k <= c PROVE Threads * k <= Len(list) * i
  <2>1. Threads * k <= Threads * c
    BY <1>1, <1>2, Products
  <2>2. Threads * k \in Nat /\ Threads * c \in Nat /\ Len(list) * i \in Nat
    BY <1>1
  <2> QED
    BY <1>1, <2>1, <2>2
<1>3. ASSUME ~(k <= c) PROVE ~(Threads * k <= Len(list) * i)
  <2>1. Threads * (c + 1) <= Threads * k
    BY <1>1, <1>3, Products
  <2>2. Threads * (c + 1) = Threads * c + Threads
    BY <1>1
  <2>3. Threads * k \in Nat /\ Threads * c \in Nat /\ Len(list) * i \in Nat
    BY <1>1
  <2> QED
    BY <1>1, <2>1, <2>2, <2>3
<1> QED
  BY <1>2, <1>3 DEF c

(* Ticker k is in exactly one share.                                       *)
InShare(i, k) == Cut(i - 1) + 1 <= k /\ k <= Cut(i)

LEMMA SharesCover ==
  ASSUME list \in Seq(Tickers), NEW k \in 1 .. Len(list)
  PROVE  \E i \in 1 .. Threads : InShare(i, k)
<1> DEFINE L == Len(list)
           n == Threads * k
           i == (n + L - 1) \div L
<1>1. L \in Nat \ {0} /\ k \in Nat \ {0} /\ k <= L /\ Threads \in Nat \ {0}
      /\ n \in Nat
  BY MiniAssumption
<1>2. i \in Nat /\ L * i <= n + L - 1 /\ n + L - 1 < L * i + L
  <2> HIDE DEF L, n
  <2> QED
    BY <1>1
<1>3. 1 <= n /\ n <= L * Threads
  <2>1. Threads * 1 <= Threads * k /\ Threads * k <= Threads * L
    BY <1>1, Products
  <2> HIDE DEF L
  <2> QED
    BY <1>1, <2>1
<1> HIDE DEF L, n, i
<1>4. n <= L * i
  BY <1>1, <1>2
<1>5. i # 0
  BY <1>1, <1>3, <1>4
<1>6. i <= Threads
  <2>1. SUFFICES ASSUME Threads + 1 <= i PROVE FALSE
    BY <1>1, <1>2
  <2>2. L * (Threads + 1) <= L * i
    BY <1>1, <1>2, <2>1, Products
  <2>3. L * (Threads + 1) = L * Threads + L
    BY <1>1
  <2>4. L * Threads \in Nat /\ L * i \in Nat
    BY <1>1, <1>2
  <2> QED
    BY <1>1, <1>2, <1>3, <2>2, <2>3, <2>4
<1>7. i \in 1 .. Threads /\ i - 1 \in 0 .. Threads /\ i \in 0 .. Threads
  BY <1>1, <1>2, <1>5, <1>6
<1>8. L * (i - 1) = L * i - L
  BY <1>1, <1>7
<1>9. ~(n <= L * (i - 1))
  <2>1. L * i \in Nat
    BY <1>1, <1>2
  <2> QED
    BY <1>1, <1>2, <1>8, <2>1
<1>10. k <= Cut(i) /\ ~(k <= Cut(i - 1))
  BY <1>1, <1>4, <1>7, <1>9, CutReaches DEF L, n
<1>11. Cut(i - 1) \in Nat /\ Cut(i) \in Nat
  BY <1>7, CutBounds
<1> QED
  BY <1>1, <1>7, <1>10, <1>11 DEF InShare

LEMMA SharesAreApart ==
  ASSUME list \in Seq(Tickers), NEW k \in 1 .. Len(list),
         NEW i \in 1 .. Threads, NEW j \in 1 .. Threads,
         InShare(i, k), InShare(j, k)
  PROVE  i = j
<1>1. ASSUME NEW a \in 1 .. Threads, NEW b \in 1 .. Threads,
             InShare(a, k), InShare(b, k), a < b
      PROVE  FALSE
  <2>1. /\ a \in 0 .. Threads /\ b - 1 \in 0 .. Threads
        /\ a \in Nat /\ b - 1 \in Nat /\ a <= b - 1
        /\ k \in Nat /\ Len(list) \in Nat /\ Threads \in Nat
    BY <1>1, MiniAssumption
  <2>2. Threads * k <= Len(list) * a
    BY <1>1, <2>1, CutReaches DEF InShare
  <2>3. Cut(b - 1) \in Nat
    <3>1. Cut(b - 1) \in 0 .. Len(list)
      BY <2>1, CutBounds
    <3> QED
      BY <2>1, <3>1
  <2>4. ~(k <= Cut(b - 1))
    <3>1. Cut(b - 1) + 1 <= k
      BY <1>1 DEF InShare
    <3> QED
      BY <2>1, <2>3, <3>1
  <2>5. ~(Threads * k <= Len(list) * (b - 1))
    BY <2>1, <2>4, CutReaches
  <2>6. Len(list) * a <= Len(list) * (b - 1)
    BY <2>1, Products
  <2>7. /\ Threads * k \in Nat /\ Len(list) * a \in Nat
        /\ Len(list) * (b - 1) \in Nat
    BY <2>1
  <2> QED
    BY <2>2, <2>5, <2>6, <2>7
<1>2. ~(i < j) /\ ~(j < i)
  BY <1>1
<1> QED
  BY <1>2, MiniAssumption

Injective(l) == \A i, j \in DOMAIN l : l[i] = l[j] => i = j

(* Until the threads run nothing is in Redis, so that what is not in Redis *)
(* when they do is in somebody's share.                                    *)
ShareInv ==
  /\ Injective(list)
  /\ cron \in {"tickers", "corporations", "load"} =>
       \A t \in Tickers : cache[t] = None
  /\ EveryTickerOnce

LEMMA InitShareInv == Init => ShareInv
BY DEF Init, ShareInv, Injective, EveryTickerOnce

LEMMA MakeThreadShares ==
  ASSUME TypeInv, ShareInv, MakeThread
  PROVE  EveryTickerOnce'
<1>1. /\ list \in Seq(Tickers) /\ cron = "load"
      /\ UNCHANGED <<cache, list>>
  BY DEF MakeThread, TypeInv, TypeOK, NightOK
<1>2. ASSUME NEW i \in 1 .. Threads, NEW k \in 1 .. Len(list)
      PROVE  Left(i, k)' <=> InShare(i, k)
  <2>1. thread'[i] = [IdleThread EXCEPT !.next = Cut(i - 1) + 1, !.last = Cut(i)]
    BY DEF MakeThread
  <2>2. thread'[i].next = Cut(i - 1) + 1 /\ thread'[i].last = Cut(i)
    BY <2>1 DEF IdleThread
  <2> QED
    BY <2>2 DEF Left, InShare
<1>3. ASSUME NEW k \in 1 .. Len(list)
      PROVE  /\ cache'[list'[k]] = None
             /\ \E i \in 1 .. Threads :
                  Left(i, k)' /\ \A j \in 1 .. Threads : Left(j, k)' => j = i
  <2>1. cache'[list'[k]] = None
    BY <1>1 DEF ShareInv
  <2>2. PICK i \in 1 .. Threads : InShare(i, k)
    BY <1>1, SharesCover
  <2>3. \A j \in 1 .. Threads : InShare(j, k) => j = i
    BY <1>1, <2>2, SharesAreApart
  <2> QED
    BY <1>2, <2>1, <2>2, <2>3
<1> QED
  BY <1>1, <1>3 DEF EveryTickerOnce

LEMMA MainShareInv ==
  ASSUME TypeInv, ShareInv, MainStep
  PROVE  ShareInv'
<1>1. CASE MakeThread
  <2>1. Injective(list')
    BY <1>1 DEF MakeThread, ShareInv
  <2>2. cron' = "threads"
    BY <1>1 DEF MakeThread
  <2> QED
    BY <1>1, <2>1, <2>2, MakeThreadShares DEF ShareInv
<1>2. CASE Flush \/ FlushRaises
  BY <1>2 DEF Flush, FlushRaises, ShareInv, EveryTickerOnce
<1>3. CASE GetAllTickerFromDB
  BY <1>3 DEF GetAllTickerFromDB, ShareInv, EveryTickerOnce, Injective
<1>4. CASE DailyCorporation \/ DailyStockData \/ LoadRaises
  BY <1>4 DEF DailyCorporation, DailyStockData, LoadRaises, ShareInv,
     EveryTickerOnce
<1>5. CASE Join
  BY <1>5 DEF Join, ShareInv, EveryTickerOnce, Left
<1>6. CASE SearchMockInvest
  BY <1>6 DEF SearchMockInvest, ShareInv, EveryTickerOnce
<1> QED
  BY <1>1, <1>2, <1>3, <1>4, <1>5, <1>6 DEF MainStep

(* A ticker that is stored leaves the share it was in, and no other ticker *)
(* is touched.                                                             *)
LEMMA StoreShareInv ==
  ASSUME TypeInv, ShareInv, NEW i \in 1 .. Threads, SetRedisData(i)
  PROVE  ShareInv'
<1>0. PICK n \in 1 .. Len(list) : n = thread[i].next
  BY AliveTicker DEF SetRedisData
<1> DEFINE value == [sale \in Sales |-> thread[i].res]
<1>1. /\ list[n] \in Tickers /\ thread[i] \in Thread
      /\ Alive(i) /\ list \in Seq(Tickers)
      /\ thread \in [1 .. Threads -> Thread]
      /\ cache \in [Tickers -> [Sales -> Result] \union {None}]
  BY <1>0, AliveTicker DEF SetRedisData, TypeInv, TypeOK, NightOK, PricesOK
<1>2. value # None
  BY StoredType, NoneAssumption
<1>3. /\ cron = "threads" /\ UNCHANGED <<cron, list>>
      /\ cache' = [cache EXCEPT ![list[n]] = value]
      /\ thread' = [thread EXCEPT ![i] =
                      [IdleThread EXCEPT !.next = n + 1, !.last = thread[i].last]]
  BY <1>0 DEF SetRedisData, Alive
<1>4. thread'[i].next = n + 1 /\ thread'[i].last = thread[i].last
  BY <1>1, <1>3 DEF IdleThread
<1>5. \A j \in 1 .. Threads : j # i => thread'[j] = thread[j]
  BY <1>1, <1>3
<1>6. ASSUME NEW k \in 1 .. Len(list), k # n
      PROVE  /\ cache'[list[k]] = cache[list[k]]
             /\ \A j \in 1 .. Threads : Left(j, k)' <=> Left(j, k)
  <2>1. list[k] # list[n] /\ list[k] \in Tickers
    BY <1>1, <1>6 DEF ShareInv, Injective
  <2>2. cache'[list[k]] = cache[list[k]]
    BY <1>1, <1>3, <2>1
  <2>3. Left(i, k)' <=> Left(i, k)
    BY <1>0, <1>1, <1>4, <1>6 DEF Left, Thread
  <2> QED
    BY <1>5, <2>2, <2>3 DEF Left
<1>7. /\ cache'[list[n]] # None
      /\ \A j \in 1 .. Threads : ~Left(j, n)'
  <2>1. Left(i, n)
    BY <1>0, <1>1 DEF Alive, Left, Thread
  <2>2. \A j \in 1 .. Threads : j # i => ~Left(j, n)
    <3>1. IF cache[list[n]] = None
          THEN \E m \in 1 .. Threads :
                 Left(m, n) /\ \A j \in 1 .. Threads : Left(j, n) => j = m
          ELSE \A m \in 1 .. Threads : ~Left(m, n)
      BY <1>1, <1>3 DEF ShareInv, EveryTickerOnce
    <3> QED
      BY <2>1, <3>1
  <2>3. ~Left(i, n)'
    BY <1>1, <1>4 DEF Left
  <2>4. cache'[list[n]] = value
    <3> HIDE DEF value
    <3> QED
      BY <1>1, <1>3
  <2> QED
    BY <1>2, <1>5, <2>2, <2>3, <2>4 DEF Left
<1>8. EveryTickerOnce'
  <2>1. ASSUME NEW k \in 1 .. Len(list)
        PROVE  IF cache'[list[k]] = None
               THEN \E j \in 1 .. Threads :
                      Left(j, k)' /\ \A m \in 1 .. Threads : Left(m, k)' => m = j
               ELSE \A j \in 1 .. Threads : ~Left(j, k)'
    <3>1. CASE k = n
      <4>1. cache'[list[k]] # None /\ \A j \in 1 .. Threads : ~Left(j, k)'
        BY <1>7, <3>1
      <4> QED
        BY <4>1
    <3>2. CASE k # n
      BY <1>3, <1>6, <3>2 DEF ShareInv, EveryTickerOnce
    <3> QED
      BY <3>1, <3>2
  <2> QED
    BY <1>3, <2>1 DEF EveryTickerOnce
<1> QED
  BY <1>3, <1>8 DEF ShareInv

LEMMA ThreadShareInv ==
  ASSUME TypeInv, ShareInv, NEW i \in 1 .. Threads,
         Simulate(i) \/ InitTradehistory(i) \/ ThreadRaises(i)
  PROVE  ShareInv'
<1>1. PICK new : Kept(thread[i], new) /\ thread' = [thread EXCEPT ![i] = new]
  BY ThreadSteps
<1>2. /\ UNCHANGED <<cache, cron, list>>
      /\ thread[i] \in Thread /\ thread \in [1 .. Threads -> Thread]
  BY DEF Simulate, InitTradehistory, ThreadRaises, TypeInv, TypeOK, NightOK
<1>3. thread'[i].last = thread[i].last
  BY <1>1, <1>2 DEF Kept
<1>4. thread'[i].next = thread[i].next
  <2>1. CASE Dies(i)
    BY <1>2, <2>1 DEF Dies, Dead, Thread
  <2>2. CASE Simulated(i)
    BY <1>2, <2>2 DEF Simulated, Thread
  <2>3. CASE PassedOver(i)
    BY <1>2, <2>3 DEF PassedOver, Thread
  <2>4. CASE thread' = [thread EXCEPT ![i] =
               [thread[i] EXCEPT !.clearing = FALSE, !.at = @ + 1]]
    BY <1>2, <2>4 DEF Thread
  <2> QED
    BY <2>1, <2>2, <2>3, <2>4, SimulateOutcomes, DiesOutcome
<1>5. ASSUME NEW j \in 1 .. Threads, NEW k \in 1 .. Len(list)
      PROVE  Left(j, k)' <=> Left(j, k)
  <2>1. CASE j = i
    BY <1>3, <1>4, <2>1 DEF Left
  <2>2. CASE j # i
    BY <1>1, <1>2, <2>2 DEF Left
  <2> QED
    BY <2>1, <2>2
<1> QED
  BY <1>2, <1>5 DEF ShareInv, EveryTickerOnce

LEMMA NextShareInv == TypeInv /\ ShareInv /\ [Next]_vars => ShareInv'
<1> SUFFICES ASSUME TypeInv, ShareInv, [Next]_vars PROVE ShareInv'
  OBVIOUS
<1>1. CASE MainStep
  BY <1>1, MainShareInv
<1>2. CASE \E i \in 1 .. Threads : ThreadStep(i)
  BY <1>2, ThreadShareInv, StoreShareInv DEF ThreadStep
<1>3. CASE UNCHANGED <<cache, cron, list, thread>>
  BY <1>3 DEF ShareInv, EveryTickerOnce, Left
<1> QED
  BY <1>1, <1>2, <1>3, Steps DEF Serve, Ask, SetParam, IsCacheHit, GetDBData,
     Run, ClearHistory, Reply, RequestRaises, Expire, vars, nightly

(* The shares lose no ticker and repeat none, for any length of the list   *)
(* and any number of threads (makeThread).                                 *)
THEOREM SharesAreAPartition == Spec => []EveryTickerOnce
<1>1. ShareInv => EveryTickerOnce
  BY DEF ShareInv
<1> QED
  BY <1>1, InitTypeInv, NextTypeInv, InitShareInv, NextShareInv, PTL DEF Spec

===============================================================================
