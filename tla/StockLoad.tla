------------------------------- MODULE StockLoad -------------------------------
(***************************************************************************)
(* How prices and listings get into the database.  A request to the data   *)
(* server cuts the tickers into slices and queues a Celery task for each   *)
(* (routeDailyStock.py, processor.py); the nightly process does the same   *)
(* work by itself (daily.py).  All of them write a row the same way        *)
(* (pricePykrx.py): select it, insert it if it is not there, commit.  The  *)
(* primary key is what keeps two writers apart: the second insert waits    *)
(* for the first one's transaction and raises if that committed.           *)
(***************************************************************************)
EXTENDS Integers, Sequences, FiniteSets

CONSTANTS
  Tickers,
  Listed,      (* the tickers in table corporation to begin with           *)
  Market,      (* a sequence: what get_market_ticker_list returns          *)
  LastDay,     (* bound: days the system runs                              *)
  Traded,      (* Traded[t]: the days with a price of t                    *)
  Span,        (* days the nightly load looks back: 30                     *)
  Loads,       (* requests to the data server                              *)
  Starts,      (* values of the request's parameter "startdate"            *)
  Asked,       (* values of the request's parameter "worker"               *)
  MaxTasks,    (* bound: tasks of a request                                *)
  Workers,     (* Celery worker processes                                  *)
  Cron, Web,   (* the nightly process, the web process                     *)
  None,
  PoolMax,     (* connections of a process: 20                             *)
  MaxNights,   (* bound: runs of callDaily                                 *)
  MaxFaults,   (* bound: calls that raise                                  *)
  MaxCrashes   (* bound: worker processes that die                         *)

Days  == 1 .. LastDay

ASSUME LoadAssumption ==
  /\ IsFiniteSet(Tickers)
  /\ Listed \subseteq Tickers
  /\ Market \in Seq(Tickers)
  /\ LastDay \in Nat \ {0}
  /\ Traded \in [Tickers -> SUBSET Days]
  /\ Span \in Nat
  /\ Starts \subseteq Days
  /\ Asked \subseteq Int
  /\ MaxTasks \in Nat
  /\ \A w \in Asked : w <= MaxTasks
  /\ MaxTasks >= 1
  /\ {Cron, Web} \intersect Workers = {}
  /\ Cron # Web
  /\ PoolMax \in Nat \ {0}
  /\ MaxNights \in Nat
  /\ MaxFaults \in Nat
  /\ MaxCrashes \in Nat

Tasks     == Loads \X (0 .. MaxTasks - 1)
Loaders   == Workers \union {Cron}
Processes == Loaders \union {Web}

ASSUME NoneAssumption == None \notin Tasks

VARIABLES
  stored,   (* stored[t]: the days of t in daily_stock, and Entry if t is  *)
            (* in corporation; committed rows only                         *)
  today,
  load,     (* load[l]: a request to the data server                       *)
  task,     (* task[k]: a task of a load                                   *)
  run,      (* run[p]: what a worker or the nightly process is doing       *)
  tonight,  (* the list the nightly process read when the night began      *)
  nights,
  leaked,   (* leaked[p]: connections never given back to the pool         *)
  faults, crashes

vars == <<stored, today, load, task, run, tonight, nights, leaked, faults,
          crashes>>

-----------------------------------------------------------------------------
(* Data *)

Entry == 0

(* The two kinds of work: initDB_Corporation, initDB_DailyStock_queue.     *)
Kinds == {"corporations", "prices"}

known == {t \in Tickers : Entry \in stored[t]}

(* A list of tickers as the database returns it: no order is asked for.    *)
Orders(S) == {o \in [1 .. Cardinality(S) -> S] :
                \A i, j \in DOMAIN o : o[i] = o[j] => i = j}

IdleLoad == [pc |-> "idle", kind |-> "prices", workers |-> 0, from |-> 1,
             day |-> 1, list |-> << >>, next |-> 0]

UnusedTask == [state |-> "unused", shown |-> "PENDING", slice |-> << >>]

(* "began" is the day a run was taken up: a history field.                 *)
IdleRun == [pc |-> "idle", task |-> None, kind |-> "prices", from |-> 1,
            began |-> 1, list |-> << >>, pos |-> 1, todo |-> {}, day |-> Entry]

Init ==
  /\ stored = [t \in Tickers |-> IF t \in Listed THEN {Entry} ELSE {}]
  /\ today = 1
  /\ load = [l \in Loads |-> IdleLoad]
  /\ task = [k \in Tasks |-> UnusedTask]
  /\ run = [p \in Loaders |-> IdleRun]
  /\ tonight = << >>
  /\ nights = 0
  /\ leaked = [p \in Processes |-> 0]
  /\ faults = 0
  /\ crashes = 0

Fault == faults < MaxFaults /\ faults' = faults + 1

(* getConn raises when the pool of the process is empty.                   *)
HasConn(p) == leaked[p] < PoolMax

-----------------------------------------------------------------------------
(* The web process: routeDailyStock.py                                     *)

(* DBinitDailyStockMulti.get, up to its list of tickers.  The check of     *)
(* "worker" can never fail; 0 divides by zero.                             *)
AskPrices(l, w, from) ==
  /\ load[l].pc = "idle"
  /\ HasConn(Web)
  /\ \E list \in Orders(known) :
       load' = [load EXCEPT ![l] =
         [pc |-> IF w = 0 THEN "raised" ELSE "push", kind |-> "prices",
          workers |-> w, from |-> from, day |-> today, list |-> list,
          next |-> 0]]
  /\ UNCHANGED <<stored, today, task, run, tonight, nights, leaked, faults,
                 crashes>>

(* A call of it raises: its connection is not given back.                  *)
AskRaises(l) ==
  /\ load[l].pc = "idle"
  /\ load' = [load EXCEPT ![l].pc = "raised"]
  /\ IF HasConn(Web)
     THEN Fault /\ leaked' = [leaked EXCEPT ![Web] = @ + 1]
     ELSE UNCHANGED <<faults, leaked>>
  /\ UNCHANGED <<stored, today, task, run, tonight, nights, crashes>>

(* Corporation.get: one task, which gets its list, Market, when it runs.   *)
AskCorporations(l) ==
  /\ load[l].pc = "idle"
  /\ load' = [load EXCEPT ![l] =
       [IdleLoad EXCEPT !.pc = "push", !.kind = "corporations",
                        !.workers = 1, !.day = today, !.list = Market]]
  /\ UNCHANGED <<stored, today, task, run, tonight, nights, leaked, faults,
                 crashes>>

(* A slip: the last, shorter slice is forgotten.                           *)
SliceWithoutRest(list, w, i) ==
  LET size == Len(list) \div w
  IN  SubSeq(list, size * i + 1, size * (i + 1))

(* A slip: the end of a slice is taken to be part of it.                   *)
SliceInclusive(list, w, i) ==
  LET size == Len(list) \div w + 1
  IN  IF size * (i + 1) >= Len(list)
      THEN SubSeq(list, size * i + 1, Len(list))
      ELSE SubSeq(list, size * i + 1, size * (i + 1) + 1)

(* The i-th of w slices; tickers[a:b] starts after a and ends with b.      *)
Slice(list, w, i) ==
  LET size == Len(list) \div w + 1
  IN  IF size * (i + 1) > Len(list)
      THEN SubSeq(list, size * i + 1, Len(list))
      ELSE SubSeq(list, size * i + 1, size * (i + 1))

(* A slip: one task too many.                                              *)
PushOneMore(l) ==
  LET q == load[l] IN
  /\ q.pc = "push"
  /\ q.next <= q.workers
  /\ task' = [task EXCEPT ![<<l, q.next>>] =
       [state |-> "queued", shown |-> "PENDING",
        slice |-> IF q.kind = "prices" THEN Slice(q.list, q.workers, q.next)
                                       ELSE q.list]]
  /\ load' = [load EXCEPT ![l].next = @ + 1]
  /\ UNCHANGED <<stored, today, run, tonight, nights, leaked, faults, crashes>>

(* One turn of the loop: apply_async.                                      *)
Push(l) ==
  LET q == load[l] IN
  /\ q.pc = "push"
  /\ q.next < q.workers
  /\ task' = [task EXCEPT ![<<l, q.next>>] =
       [state |-> "queued", shown |-> "PENDING",
        slice |-> IF q.kind = "prices" THEN Slice(q.list, q.workers, q.next)
                                       ELSE q.list]]
  /\ load' = [load EXCEPT ![l].next = @ + 1]
  /\ UNCHANGED <<stored, today, run, tonight, nights, leaked, faults, crashes>>

(* 201, also when nothing was queued because "worker" is negative.         *)
Answer(l) ==
  /\ load[l].pc = "push"
  /\ load[l].next >= load[l].workers
  /\ load' = [load EXCEPT ![l].pc = "done"]
  /\ UNCHANGED <<stored, today, task, run, tonight, nights, leaked, faults,
                 crashes>>

(* The broker is down: what was queued stays queued.                       *)
PushRaises(l) ==
  /\ load[l].pc = "push"
  /\ load[l].next < load[l].workers
  /\ Fault
  /\ load' = [load EXCEPT ![l].pc = "raised"]
  /\ UNCHANGED <<stored, today, task, run, tonight, nights, leaked, crashes>>

-----------------------------------------------------------------------------
(* The loaders: processor.py, daily.py and pricePykrx.py                   *)

ticker(p) == run[p].list[run[p].pos]

(* The nightly load has no start date: getKRStockDaily looks back 30 days. *)
From(p) == IF p = Cron THEN today - Span ELSE run[p].from

(* The rows to write for t: its entry in corporation, or its prices up to  *)
(* today.                                                                  *)
Window(p, t) ==
  IF run[p].kind = "corporations" THEN {Entry}
  ELSE {d \in Traded[t] : From(p) <= d /\ d <= today}

Begin(p, k, kind, from, list) ==
  run' = [run EXCEPT ![p] =
    [IdleRun EXCEPT !.pc = "fetch", !.task = k, !.kind = kind, !.from = from,
                    !.began = today, !.list = list]]

(* The worker returns its task's result, or the exception ends it.         *)
End(p, state, shown) ==
  /\ run' = [run EXCEPT ![p] = IdleRun]
  /\ task' = IF run[p].task = None THEN task
             ELSE [task EXCEPT ![run[p].task] =
                     [@ EXCEPT !.state = state, !.shown = shown]]

(* A worker takes a task; it is acknowledged before it runs.               *)
Take(w, k) ==
  /\ run[w].pc = "idle"
  /\ task[k].state = "queued"
  /\ task' = [task EXCEPT ![k].state = "running"]
  /\ Begin(w, k, load[k[1]].kind, load[k[1]].from, task[k].slice)
  /\ UNCHANGED <<stored, today, load, tonight, nights, leaked, faults, crashes>>

(* callDaily reads its tickers, then sees to the new listings.             *)
NightBegins ==
  /\ run[Cron].pc = "idle"
  /\ nights < MaxNights
  /\ HasConn(Cron)
  /\ nights' = nights + 1
  /\ tonight' \in Orders(known)
  /\ Begin(Cron, None, "corporations", 1, Market)
  /\ UNCHANGED <<stored, today, load, task, leaked, faults, crashes>>

(* The next ticker of the list: its name or prices from the exchange, then *)
(* a connection from the pool.                                             *)
Fetch(p) ==
  /\ run[p].pc = "fetch"
  /\ run[p].pos <= Len(run[p].list)
  /\ HasConn(p)
  /\ run' = [run EXCEPT ![p].pc = "select", ![p].todo = Window(p, ticker(p))]
  /\ UNCHANGED <<stored, today, load, task, tonight, nights, leaked, faults,
                 crashes>>

(* getConn raises: every task of this process fails from now on.         *)
FetchExhausted(p) ==
  /\ run[p].pc = "fetch"
  /\ run[p].pos <= Len(run[p].list)
  /\ ~HasConn(p)
  /\ End(p, "exhausted", "FAILURE")
  /\ UNCHANGED <<stored, today, load, tonight, nights, leaked, faults, crashes>>

(* The exchange does not answer; no connection is out.                     *)
FetchRaises(p) ==
  /\ run[p].pc = "fetch"
  /\ run[p].pos <= Len(run[p].list)
  /\ Fault
  /\ End(p, "raised", "FAILURE")
  /\ UNCHANGED <<stored, today, load, tonight, nights, leaked, crashes>>

Earliest(d, S) == d \in S /\ \A e \in S : d <= e

(* A slip: a row that is there ends the ticker.                            *)
SelectStops(p) ==
  /\ run[p].pc = "select"
  /\ \E d \in run[p].todo :
       /\ Earliest(d, run[p].todo)
       /\ run' = IF d \in stored[ticker(p)]
                 THEN [run EXCEPT ![p].todo = {}]
                 ELSE [run EXCEPT ![p].pc = "insert", ![p].day = d]
  /\ UNCHANGED <<stored, today, load, task, tonight, nights, leaked, faults,
                 crashes>>

(* A slip: a row that is there is selected again.                          *)
SelectAgain(p) ==
  /\ run[p].pc = "select"
  /\ \E d \in run[p].todo :
       /\ Earliest(d, run[p].todo)
       /\ run' = IF d \in stored[ticker(p)]
                 THEN run
                 ELSE [run EXCEPT ![p].pc = "insert", ![p].day = d]
  /\ UNCHANGED <<stored, today, load, task, tonight, nights, leaked, faults,
                 crashes>>

(* Is the next row there?                                                  *)
Select(p) ==
  /\ run[p].pc = "select"
  /\ \E d \in run[p].todo :
       /\ Earliest(d, run[p].todo)
       /\ run' = IF d \in stored[ticker(p)]
                 THEN [run EXCEPT ![p].todo = @ \ {d}]
                 ELSE [run EXCEPT ![p].pc = "insert", ![p].day = d]
  /\ UNCHANGED <<stored, today, load, task, tonight, nights, leaked, faults,
                 crashes>>

(* Another transaction has inserted this row and not yet committed.        *)
Locked(p) ==
  \E q \in Loaders \ {p} :
    /\ run[q].pc = "commit"
    /\ ticker(q) = ticker(p)
    /\ run[q].day = run[p].day

Insert(p) ==
  /\ run[p].pc = "insert"
  /\ ~Locked(p)
  /\ run[p].day \notin stored[ticker(p)]
  /\ run' = [run EXCEPT ![p].pc = "commit"]
  /\ UNCHANGED <<stored, today, load, task, tonight, nights, leaked, faults,
                 crashes>>

(* The primary key is taken since the select: the insert raises, and the   *)
(* connection is not given back.                                           *)
InsertClashes(p) ==
  /\ run[p].pc = "insert"
  /\ ~Locked(p)
  /\ run[p].day \in stored[ticker(p)]
  /\ leaked' = [leaked EXCEPT ![p] = @ + 1]
  /\ End(p, "clash", "FAILURE")
  /\ UNCHANGED <<stored, today, load, tonight, nights, faults, crashes>>

Commit(p) ==
  /\ run[p].pc = "commit"
  /\ stored' = [stored EXCEPT ![ticker(p)] = @ \union {run[p].day}]
  /\ run' = [run EXCEPT ![p].pc = "select", ![p].todo = @ \ {run[p].day}]
  /\ UNCHANGED <<today, load, task, tonight, nights, leaked, faults, crashes>>

(* A database call raises; a commit may have arrived all the same.         *)
CallRaises(p) ==
  /\ \/ run[p].pc = "select" /\ run[p].todo # {} /\ stored' = stored
     \/ run[p].pc = "insert" /\ stored' = stored
     \/ /\ run[p].pc = "commit"
        /\ stored' \in {stored,
             [stored EXCEPT ![ticker(p)] = @ \union {run[p].day}]}
  /\ Fault
  /\ leaked' = [leaked EXCEPT ![p] = @ + 1]
  /\ End(p, "raised", "FAILURE")
  /\ UNCHANGED <<today, load, tonight, nights, crashes>>

(* putConn, and the task's progress is noted.                              *)
Put(p) ==
  /\ run[p].pc = "select"
  /\ run[p].todo = {}
  /\ run' = [run EXCEPT ![p].pc = "fetch", ![p].pos = @ + 1]
  /\ task' = IF run[p].task = None THEN task
             ELSE [task EXCEPT ![run[p].task].shown = "PROGRESS"]
  /\ UNCHANGED <<stored, today, load, tonight, nights, leaked, faults, crashes>>

(* The list is done.  The nightly process turns from the listings to the   *)
(* prices of the tickers it read before them.                              *)
Finish(p) ==
  /\ run[p].pc = "fetch"
  /\ run[p].pos > Len(run[p].list)
  /\ IF p = Cron /\ run[p].kind = "corporations"
     THEN Begin(p, None, "prices", 1, tonight) /\ task' = task
     ELSE End(p, "returned", "SUCCESS")
  /\ UNCHANGED <<stored, today, load, tonight, nights, leaked, faults, crashes>>

(* A process dies and is started again.  Its transaction is rolled back,   *)
(* its task is not given out again.                                        *)
Crash(p) ==
  /\ crashes < MaxCrashes
  /\ crashes' = crashes + 1
  /\ leaked' = [leaked EXCEPT ![p] = 0]
  /\ \E shown \in {"as before", "FAILURE"} :
       End(p, "lost", IF shown = "FAILURE" \/ run[p].task = None THEN "FAILURE"
                      ELSE task[run[p].task].shown)
  /\ UNCHANGED <<stored, today, load, tonight, nights, faults>>

Tomorrow ==
  /\ today < LastDay
  /\ today' = today + 1
  /\ UNCHANGED <<stored, load, task, run, tonight, nights, leaked, faults,
                 crashes>>

-----------------------------------------------------------------------------
(* What the status route tells of a task (get_add_progress): of one that   *)
(* failed, the result is an exception, which has no "current" to get.      *)
StatusOf(k) ==
  IF task[k].shown \in {"PENDING", "SUCCESS", "PROGRESS"}
  THEN task[k].shown
  ELSE "raises"

-----------------------------------------------------------------------------
Ask(l) ==
  \/ \E w \in Asked, from \in Starts : AskPrices(l, w, from)
  \/ AskRaises(l)
  \/ AskCorporations(l)

Work(p) ==
  \/ Fetch(p) \/ FetchExhausted(p)
  \/ Select(p) \/ Insert(p) \/ InsertClashes(p) \/ Commit(p)
  \/ Put(p) \/ Finish(p)

Fail(p) == FetchRaises(p) \/ CallRaises(p) \/ Crash(p)

(* Bound: the loads, the nights and the days are used up.                  *)
Terminated ==
  /\ \A l \in Loads : load[l].pc \in {"done", "raised"}
  /\ \A k \in Tasks : task[k].state # "queued"
  /\ \A p \in Loaders : run[p].pc = "idle"
  /\ UNCHANGED vars

Next ==
  \/ \E l \in Loads : Ask(l) \/ Push(l) \/ Answer(l) \/ PushRaises(l)
  \/ \E w \in Workers, k \in Tasks : Take(w, k)
  \/ NightBegins
  \/ \E p \in Loaders : Work(p) \/ Fail(p)
  \/ Tomorrow
  \/ Terminated

Spec == Init /\ [][Next]_vars

(* A request that was begun goes on, a worker takes a task when there is   *)
(* one, and works on it.                                                   *)
FairSpec ==
  /\ Spec
  /\ \A l \in Loads : WF_vars(Push(l) \/ Answer(l))
  /\ \A w \in Workers : WF_vars(\E k \in Tasks : Take(w, k))
  /\ \A p \in Loaders : WF_vars(Work(p))

-----------------------------------------------------------------------------
(* Properties *)

Load == [pc : {"idle", "push", "done", "raised"}, kind : Kinds,
         workers : Asked \union {0, 1}, from : Days, day : Days,
         list : Seq(Tickers), next : 0 .. MaxTasks]

Outcomes == {"returned", "raised", "clash", "exhausted", "lost"}

Task == [state : {"unused", "queued", "running"} \union Outcomes,
         shown : {"PENDING", "PROGRESS", "SUCCESS", "FAILURE"},
         slice : Seq(Tickers)]

Run == [pc : {"idle", "fetch", "select", "insert", "commit"},
        task : Tasks \union {None}, kind : Kinds, from : Days, began : Days,
        list : Seq(Tickers), pos : Nat \ {0}, todo : SUBSET (Days \union {Entry}),
        day : Days \union {Entry}]

(* Loader p is at the rows of a ticker, with a connection out.             *)
InHand(p) == run[p].pc \in {"select", "insert", "commit"}

TablesOK ==
  /\ stored \in [Tickers -> SUBSET (Days \union {Entry})]
  /\ today \in Days

LoadsOK ==
  /\ load \in [Loads -> Load]
  /\ \A l \in Loads : load[l].workers <= MaxTasks
  /\ task \in [Tasks -> Task]

RunsOK ==
  /\ run \in [Loaders -> Run]
  /\ \A w \in Workers : run[w].pc # "idle" => run[w].task \in Tasks
  /\ run[Cron].task = None
  /\ \A p \in Loaders :
       /\ run[p].pos <= Len(run[p].list) + 1
       /\ InHand(p) => run[p].pos <= Len(run[p].list)

CountsOK ==
  /\ tonight \in Seq(Tickers)
  /\ nights \in 0 .. MaxNights
  /\ leaked \in [Processes -> Nat]
  /\ faults \in 0 .. MaxFaults
  /\ crashes \in 0 .. MaxCrashes

(* The type invariant, part by part.                                       *)
TypeOK == TablesOK /\ LoadsOK /\ RunsOK /\ CountsOK

(* What loader p owes its i-th ticker: the rows of its window that there   *)
(* were when it began.                                                     *)
Owed(p, i) ==
  IF run[p].kind = "corporations" THEN {Entry}
  ELSE {d \in Traded[run[p].list[i]] : From(p) <= d /\ d <= run[p].began}

(* A loader that has gone past a ticker has left no hole in its window,    *)
(* whoever else was writing the same rows and whatever they left behind    *)
(* (sendKRStockDaily, sendKRStockCodeAll).                                 *)
ProgressIsKept ==
  \A p \in Loaders : run[p].pc # "idle" =>
    \A i \in 1 .. run[p].pos - 1 : Owed(p, i) \subseteq stored[run[p].list[i]]

Requested(l, t) ==
  IF load[l].kind = "corporations" THEN {Entry}
  ELSE {d \in Traded[t] : load[l].from <= d /\ d <= load[l].day}

Succeeded(l) ==
  /\ load[l].pc = "done"
  /\ load[l].workers >= 1
  /\ \A i \in 0 .. load[l].workers - 1 : task[<<l, i>>].state = "returned"

(* When every task of a request has returned, every ticker it was about    *)
(* has every price from the start date to the day of the request: the      *)
(* slices leave no ticker out (DBinitDailyStockMulti.get).                 *)
LoadIsWhole ==
  \A l \in Loads : Succeeded(l) =>
    \A i \in 1 .. Len(load[l].list) :
      Requested(l, load[l].list[i]) \subseteq stored[load[l].list[i]]

(* The slices of one request do not get into each other's way, however     *)
(* many workers run them: an insert that finds its key taken is the work   *)
(* of another request or of a night.                                       *)
OneLoadNeverClashes ==
  \A k \in Tasks : task[k].state = "clash" =>
    nights > 0 \/ \E l \in Loads \ {k[1]} : load[l].pc # "idle"

(* A queued task ends, in whatever way, and no two loaders wait for each   *)
(* other's rows for ever.                                                  *)
TasksEnd ==
  \A k \in Tasks : task[k].state = "queued" ~> task[k].state \in Outcomes

===============================================================================
