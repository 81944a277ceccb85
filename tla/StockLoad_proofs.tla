--------------------------- MODULE StockLoad_proofs ---------------------------
(***************************************************************************)
(* Proofs about StockLoad: its type invariant; that a loader leaves no     *)
(* hole behind it; that the slices of a request cover its list; from       *)
(* these, that a request whose tasks all returned has loaded everything;   *)
(* and that the tasks of one load never insert each other's rows.          *)
(***************************************************************************)
EXTENDS StockLoad, FiniteSetTheorems, TLAPS

(* Data of the right kind.                                                 *)

LEMMA IdleTypes ==
  /\ IdleLoad \in Load
  /\ UnusedTask \in Task
  /\ IdleRun \in Run
  /\ IdleRun.pos <= Len(IdleRun.list) + 1
BY LoadAssumption DEF IdleLoad, UnusedTask, IdleRun, Load, Task, Run, Days,
   Kinds, Entry

LEMMA OrdersType ==
  ASSUME TablesOK, NEW o \in Orders(known)
  PROVE  o \in Seq(Tickers)
<1>1. known \subseteq Tickers /\ IsFiniteSet(known)
  BY LoadAssumption, FS_Subset DEF known
<1>2. Cardinality(known) \in Nat
  BY <1>1, FS_CardinalityType
<1>3. o \in [1 .. Cardinality(known) -> Tickers]
  BY <1>1 DEF Orders
<1> QED
  BY <1>2, <1>3

LEMMA SliceType ==
  ASSUME NEW list \in Seq(Tickers), NEW w \in Nat, NEW i \in 0 .. w - 1
  PROVE  Slice(list, w, i) \in Seq(Tickers)
<1> DEFINE size == Len(list) \div w + 1
<1>1. w \in Nat \ {0} /\ i \in Nat
  OBVIOUS
<1>2. size \in Nat \ {0}
  BY <1>1
<1>3. size * i \in Nat /\ size * (i + 1) \in Nat
  BY <1>1, <1>2
<1>4. CASE size * (i + 1) > Len(list)
  <2>1. Slice(list, w, i) = SubSeq(list, size * i + 1, Len(list))
    BY <1>4 DEF Slice
  <2> HIDE DEF size
  <2> QED
    BY <2>1, <1>3
<1>5. CASE ~(size * (i + 1) > Len(list))
  <2>1. Slice(list, w, i) = SubSeq(list, size * i + 1, size * (i + 1))
    BY <1>5 DEF Slice
  <2> HIDE DEF size
  <2> QED
    BY <2>1, <1>3, <1>5
<1> QED
  BY <1>4, <1>5

(* Division with a remainder.                                              *)
LEMMA Division ==
  ASSUME NEW a \in Nat, NEW b \in Nat \ {0}
  PROVE  /\ a \div b \in Nat
         /\ b * (a \div b) <= a
         /\ a < b * (a \div b + 1)
<1> DEFINE q == a \div b
<1>1. q \in Nat /\ b * q <= a /\ a < b * q + b
  OBVIOUS
<1> HIDE DEF q
<1>2. b * (q + 1) = b * q + b
  BY <1>1
<1>3. a < b * (q + 1)
  BY <1>1, <1>2
<1> QED
  BY <1>1, <1>3 DEF q

LEMMA ProductMonotone ==
  ASSUME NEW a \in Nat, NEW b \in Nat, NEW c \in Nat, a <= b
  PROVE  c * a <= c * b
<1>1. PICK d \in Nat : b = a + d
  <2> WITNESS b - a \in Nat
  <2> QED OBVIOUS
<1>2. c * b = c * a + c * d /\ c * d \in Nat /\ c * a \in Nat
  BY <1>1
<1> QED
  BY <1>2

(* The slices cover the list: DBinitDailyStockMulti.get leaves no ticker   *)
(* out, whatever the number of workers.                                    *)
LEMMA SlicesCover ==
  ASSUME NEW list \in Seq(Tickers), NEW w \in Nat \ {0}, NEW j \in 1 .. Len(list)
  PROVE  \E i \in 0 .. w - 1 : \E m \in 1 .. Len(Slice(list, w, i)) :
           Slice(list, w, i)[m] = list[j]
<1> DEFINE n    == Len(list)
           size == n \div w + 1
           i    == (j - 1) \div size
           m    == j - size * i
<1>1. n \in Nat /\ size \in Nat \ {0} /\ n < w * size
  BY Division
<1> HIDE DEF size
<1>2. i \in Nat /\ size * i <= j - 1 /\ j - 1 < size * (i + 1)
  BY <1>1, Division, j - 1 \in Nat
<1>3. i \in 0 .. w - 1
  <2>1. SUFFICES ASSUME w <= i PROVE FALSE
    BY <1>2
  <2>2. size * w <= size * i
    BY <2>1, <1>1, <1>2, ProductMonotone
  <2>3. size * w = w * size /\ size * w \in Nat /\ size * i \in Nat
    BY <1>1, <1>2
  <2> HIDE DEF i
  <2> QED
    BY <1>1, <1>2, <2>2, <2>3
<1> HIDE DEF i
<1>4. size * i \in Nat /\ size * (i + 1) \in Nat /\ size * (i + 1) = size * i + size
  BY <1>1, <1>2
<1> DEFINE a == size * i
           b == size * (i + 1)
<1>5. a \in Nat /\ b \in Nat /\ b = a + size /\ a <= j - 1 /\ j - 1 < b
  BY <1>2, <1>4
<1>6. Slice(list, w, i) = IF b > n THEN SubSeq(list, a + 1, n)
                                  ELSE SubSeq(list, a + 1, b)
  BY DEF Slice, size
<1> HIDE DEF a, b
<1>7. j \in Nat /\ j <= n /\ 1 <= j /\ m = j - a
  BY <1>1 DEF a
<1>8. m \in 1 .. Len(Slice(list, w, i)) /\ Slice(list, w, i)[m] = list[j]
  <2>1. CASE b > n
    BY <2>1, <1>1, <1>5, <1>6, <1>7
  <2>2. CASE ~(b > n)
    BY <2>2, <1>1, <1>5, <1>6, <1>7
  <2> QED
    BY <2>1, <2>2
<1> QED
  BY <1>3, <1>8

-----------------------------------------------------------------------------
(* The type invariant                                                      *)

(* What is asked of the run of one loader.                                 *)
RunOK(p, r) ==
  /\ r \in Run
  /\ p \in Workers /\ r.pc # "idle" => r.task \in Tasks
  /\ p = Cron => r.task = None
  /\ r.pos <= Len(r.list) + 1
  /\ r.pc \in {"select", "insert", "commit"} => r.pos <= Len(r.list)

LEMMA RunsAreOK ==
  RunsOK <=> run \in [Loaders -> Run] /\ \A p \in Loaders : RunOK(p, run[p])
BY LoadAssumption DEF RunsOK, RunOK, InHand, Loaders

LEMMA OneRunChanges ==
  ASSUME RunsOK, NEW p \in Loaders, NEW new, RunOK(p, new),
         run' = [run EXCEPT ![p] = new]
  PROVE  RunsOK'
<1>1. run \in [Loaders -> Run] /\ \A q \in Loaders : RunOK(q, run[q])
  BY RunsAreOK
<1>2. new \in Run
  BY DEF RunOK
<1>3. run' \in [Loaders -> Run]
  BY <1>1, <1>2
<1>4. \A q \in Loaders : RunOK(q, run'[q])
  <2> TAKE q \in Loaders
  <2>1. CASE q = p
    BY <2>1, <1>1
  <2>2. CASE q # p
    <3>1. run'[q] = run[q]
      BY <2>2, <1>1
    <3> QED
      BY <3>1, <1>1
  <2> QED
    BY <2>1, <2>2
<1>5. RunsOK' <=> run' \in [Loaders -> Run] /\ \A q \in Loaders : RunOK(q, run'[q])
  BY LoadAssumption DEF RunsOK, RunOK, InHand, Loaders
<1> QED
  BY <1>3, <1>4, <1>5

LEMMA IdleRunOK ==
  ASSUME NEW p \in Loaders PROVE RunOK(p, IdleRun)
BY IdleTypes DEF RunOK, IdleRun

LEMMA EndType ==
  ASSUME TypeOK, NEW p \in Loaders, NEW state \in Outcomes,
         NEW shown \in {"PENDING", "PROGRESS", "SUCCESS", "FAILURE"},
         End(p, state, shown)
  PROVE  RunsOK' /\ task' \in [Tasks -> Task]
<1>1. RunsOK'
  BY IdleRunOK, OneRunChanges DEF End, TypeOK
<1>2. run[p] \in Run /\ task \in [Tasks -> Task]
  BY DEF TypeOK, RunsOK, LoadsOK
<1>3. CASE run[p].task = None
  BY <1>1, <1>2, <1>3 DEF End
<1>4. CASE run[p].task # None
  <2> DEFINE k   == run[p].task
             new == [task[k] EXCEPT !.state = state, !.shown = shown]
  <2>1. k \in Tasks
    BY <1>2, <1>4 DEF Run
  <2>2. new \in Task
    BY <1>2, <2>1 DEF Task, Outcomes
  <2>3. task' = [task EXCEPT ![k] = new]
    BY <1>2, <1>4, <2>1 DEF End
  <2> QED
    BY <1>1, <1>2, <2>1, <2>2, <2>3
<1> QED
  BY <1>1, <1>3, <1>4

LEMMA BeginType ==
  ASSUME TypeOK, NEW p \in Loaders, NEW k \in Tasks \union {None},
         NEW kind \in Kinds, NEW from \in Days, NEW list \in Seq(Tickers),
         p \in Workers => k \in Tasks, p = Cron => k = None,
         Begin(p, k, kind, from, list)
  PROVE  RunsOK'
<1> DEFINE new == [IdleRun EXCEPT !.pc = "fetch", !.task = k, !.kind = kind,
                     !.from = from, !.began = today, !.list = list]
<1>1. today \in Days /\ RunsOK
  BY DEF TypeOK, TablesOK
<1>2. new \in Run
  BY <1>1, IdleTypes DEF Run
<1>3. new.pc = "fetch" /\ new.task = k /\ new.pos = 1 /\ new.list = list
  BY DEF IdleRun
<1>4. RunOK(p, new)
  BY <1>2, <1>3 DEF RunOK
<1>5. run' = [run EXCEPT ![p] = new]
  BY DEF Begin
<1> HIDE DEF new
<1> QED
  BY <1>1, <1>4, <1>5, OneRunChanges

LEMMA WindowType ==
  ASSUME TypeOK, NEW p \in Loaders, NEW t \in Tickers
  PROVE  Window(p, t) \in SUBSET (Days \union {Entry})
BY LoadAssumption DEF Window

(* The ticker a loader is at.                                              *)
LEMMA TickerType ==
  ASSUME TypeOK, NEW p \in Loaders, run[p].pos <= Len(run[p].list)
  PROVE  ticker(p) \in Tickers
<1>1. run[p] \in Run
  BY DEF TypeOK, RunsOK
<1>2. run[p].list \in Seq(Tickers) /\ run[p].pos \in Nat \ {0}
  BY <1>1 DEF Run
<1> QED
  BY <1>2 DEF ticker

LEMMA OneLoadChanges ==
  ASSUME LoadsOK, NEW l \in Loads, NEW new \in Load, new.workers <= MaxTasks,
         load' = [load EXCEPT ![l] = new], task' \in [Tasks -> Task]
  PROVE  LoadsOK'
<1>1. load \in [Loads -> Load] /\ \A j \in Loads : load[j].workers <= MaxTasks
  BY DEF LoadsOK
<1>2. load' \in [Loads -> Load]
  BY <1>1
<1>3. \A j \in Loads : load'[j].workers <= MaxTasks
  <2> TAKE j \in Loads
  <2>1. load'[j] = IF j = l THEN new ELSE load[j]
    BY <1>1
  <2> QED
    BY <2>1, <1>1
<1> QED
  BY <1>2, <1>3 DEF LoadsOK

LEMMA AskPricesType ==
  ASSUME TypeOK, NEW l \in Loads, NEW w \in Asked, NEW from \in Starts,
         AskPrices(l, w, from)
  PROVE  TypeOK'
<1>1. PICK list \in Orders(known) :
        load' = [load EXCEPT ![l] =
          [pc |-> IF w = 0 THEN "raised" ELSE "push", kind |-> "prices",
           workers |-> w, from |-> from, day |-> today, list |-> list,
           next |-> 0]]
  BY DEF AskPrices
<1> DEFINE new == [pc |-> IF w = 0 THEN "raised" ELSE "push", kind |-> "prices",
                   workers |-> w, from |-> from, day |-> today, list |-> list,
                   next |-> 0]
<1>2. list \in Seq(Tickers)
  BY OrdersType DEF TypeOK
<1>3. today \in Days /\ from \in Days
  BY LoadAssumption DEF TypeOK, TablesOK
<1>4. new \in Load /\ new.workers <= MaxTasks
  BY <1>2, <1>3, LoadAssumption DEF Load, Kinds
<1>5. LoadsOK /\ task' \in [Tasks -> Task]
  BY DEF TypeOK, LoadsOK, AskPrices
<1> HIDE DEF new
<1>6. LoadsOK'
  BY <1>1, <1>4, <1>5, OneLoadChanges DEF new
<1>7. TablesOK' /\ RunsOK' /\ CountsOK'
  BY DEF TypeOK, TablesOK, RunsOK, InHand, CountsOK, AskPrices
<1> QED
  BY <1>6, <1>7 DEF TypeOK

LEMMA AskRaisesType ==
  ASSUME TypeOK, NEW l \in Loads, AskRaises(l)
  PROVE  TypeOK'
<1> DEFINE new == [load[l] EXCEPT !.pc = "raised"]
<1>1. load[l] \in Load /\ load[l].workers <= MaxTasks /\ today \in Days
  BY DEF TypeOK, LoadsOK, TablesOK
<1>2. new \in Load /\ new.workers <= MaxTasks
  BY <1>1 DEF Load
<1>3. LoadsOK /\ task' \in [Tasks -> Task]
  BY DEF TypeOK, LoadsOK, AskRaises
<1>4. load' = [load EXCEPT ![l] = new]
  BY <1>3 DEF LoadsOK, AskRaises
<1> HIDE DEF new
<1>5. LoadsOK'
  BY <1>2, <1>3, <1>4, OneLoadChanges
<1>6. TablesOK' /\ RunsOK'
  BY DEF TypeOK, TablesOK, RunsOK, InHand, AskRaises
<1>7. leaked \in [Processes -> Nat] /\ Web \in Processes
  BY DEF TypeOK, CountsOK, Processes
<1>8. leaked' \in [Processes -> Nat] /\ faults' \in 0 .. MaxFaults
  <2>1. CASE HasConn(Web)
    <3>1. leaked' = [leaked EXCEPT ![Web] = @ + 1] /\ Fault
      BY <2>1 DEF AskRaises
    <3>2. leaked' \in [Processes -> Nat]
      BY <3>1, <1>7
    <3>3. faults' \in 0 .. MaxFaults
      BY <3>1, LoadAssumption DEF Fault, TypeOK, CountsOK
    <3> QED
      BY <3>2, <3>3
  <2>2. CASE ~HasConn(Web)
    BY <2>2, <1>7 DEF AskRaises, TypeOK, CountsOK
  <2> QED
    BY <2>1, <2>2
<1>9. CountsOK'
  BY <1>8 DEF AskRaises, TypeOK, CountsOK
<1> QED
  BY <1>5, <1>6, <1>9 DEF TypeOK

LEMMA AskCorporationsType ==
  ASSUME TypeOK, NEW l \in Loads, AskCorporations(l)
  PROVE  TypeOK'
<1> DEFINE new == [IdleLoad EXCEPT !.pc = "push", !.kind = "corporations",
                        !.workers = 1, !.day = today, !.list = Market]
<1>1. load[l] \in Load /\ load[l].workers <= MaxTasks /\ today \in Days
  BY DEF TypeOK, LoadsOK, TablesOK
<1>2. new \in Load /\ new.workers <= MaxTasks
  BY <1>1, IdleTypes, LoadAssumption DEF Load, Kinds
<1>3. LoadsOK /\ task' \in [Tasks -> Task]
  BY DEF TypeOK, LoadsOK, AskCorporations
<1>4. load' = [load EXCEPT ![l] = new]
  BY <1>3 DEF LoadsOK, AskCorporations
<1> HIDE DEF new
<1>5. LoadsOK'
  BY <1>2, <1>3, <1>4, OneLoadChanges
<1>6. TablesOK' /\ RunsOK' /\ CountsOK'
  BY LoadAssumption DEF TypeOK, TablesOK, RunsOK, InHand, CountsOK, AskCorporations
<1> QED
  BY <1>5, <1>6 DEF TypeOK

LEMMA AnswerType ==
  ASSUME TypeOK, NEW l \in Loads, Answer(l)
  PROVE  TypeOK'
<1> DEFINE new == [load[l] EXCEPT !.pc = "done"]
<1>1. load[l] \in Load /\ load[l].workers <= MaxTasks /\ today \in Days
  BY DEF TypeOK, LoadsOK, TablesOK
<1>2. new \in Load /\ new.workers <= MaxTasks
  BY <1>1 DEF Load
<1>3. LoadsOK /\ task' \in [Tasks -> Task]
  BY DEF TypeOK, LoadsOK, Answer
<1>4. load' = [load EXCEPT ![l] = new]
  BY <1>3 DEF LoadsOK, Answer
<1> HIDE DEF new
<1>5. LoadsOK'
  BY <1>2, <1>3, <1>4, OneLoadChanges
<1>6. TablesOK' /\ RunsOK' /\ CountsOK'
  BY LoadAssumption DEF TypeOK, TablesOK, RunsOK, InHand, CountsOK, Answer
<1> QED
  BY <1>5, <1>6 DEF TypeOK

LEMMA PushRaisesType ==
  ASSUME TypeOK, NEW l \in Loads, PushRaises(l)
  PROVE  TypeOK'
<1> DEFINE new == [load[l] EXCEPT !.pc = "raised"]
<1>1. load[l] \in Load /\ load[l].workers <= MaxTasks /\ today \in Days
  BY DEF TypeOK, LoadsOK, TablesOK
<1>2. new \in Load /\ new.workers <= MaxTasks
  BY <1>1 DEF Load
<1>3. LoadsOK /\ task' \in [Tasks -> Task]
  BY DEF TypeOK, LoadsOK, PushRaises
<1>4. load' = [load EXCEPT ![l] = new]
  BY <1>3 DEF LoadsOK, PushRaises
<1> HIDE DEF new
<1>5. LoadsOK'
  BY <1>2, <1>3, <1>4, OneLoadChanges
<1>6. TablesOK' /\ RunsOK' /\ CountsOK'
  BY LoadAssumption DEF TypeOK, TablesOK, RunsOK, InHand, CountsOK, PushRaises, Fault
<1> QED
  BY <1>5, <1>6 DEF TypeOK

(* The slice a request gives to its next task.                             *)
NextSlice(l) ==
  LET q == load[l]
  IN  IF q.kind = "prices" THEN Slice(q.list, q.workers, q.next) ELSE q.list

LEMMA PushFacts ==
  ASSUME TypeOK, NEW l \in Loads, Push(l)
  PROVE  /\ load[l].workers \in Nat \ {0}
         /\ load[l].next \in 0 .. load[l].workers - 1
         /\ <<l, load[l].next>> \in Tasks
         /\ NextSlice(l) \in Seq(Tickers)
         /\ load' = [load EXCEPT ![l] = [load[l] EXCEPT !.next = @ + 1]]
         /\ task' = [task EXCEPT ![<<l, load[l].next>>] =
                       [state |-> "queued", shown |-> "PENDING",
                        slice |-> NextSlice(l)]]
<1>1. load[l] \in Load /\ load[l].workers <= MaxTasks
  BY DEF TypeOK, LoadsOK
<1>2. load[l].next < load[l].workers /\ load[l].next \in Nat
  BY <1>1, LoadAssumption DEF Push, Load
<1>3. load[l].workers \in Int
  <2>1. Asked \union {0, 1} \subseteq Int
    BY LoadAssumption
  <2>2. load[l].workers \in Asked \union {0, 1}
    BY <1>1 DEF Load
  <2> QED
    BY <2>1, <2>2
<1>4. load[l].workers \in Nat \ {0} /\ load[l].next \in 0 .. load[l].workers - 1
  BY <1>2, <1>3
<1>5. <<l, load[l].next>> \in Tasks
  BY <1>1, <1>4, LoadAssumption DEF Tasks
<1>6. NextSlice(l) \in Seq(Tickers)
  BY <1>1, <1>4, SliceType DEF NextSlice, Load
<1>7. load' = [load EXCEPT ![l] = [load[l] EXCEPT !.next = @ + 1]]
  BY DEF Push, TypeOK, LoadsOK
<1>8. task' = [task EXCEPT ![<<l, load[l].next>>] =
                 [state |-> "queued", shown |-> "PENDING", slice |-> NextSlice(l)]]
  BY DEF Push, NextSlice
<1> QED
  BY <1>4, <1>5, <1>6, <1>7, <1>8

LEMMA PushType ==
  ASSUME TypeOK, NEW l \in Loads, Push(l)
  PROVE  TypeOK'
<1> DEFINE new == [load[l] EXCEPT !.next = @ + 1]
           k   == <<l, load[l].next>>
           one == [state |-> "queued", shown |-> "PENDING", slice |-> NextSlice(l)]
<1>1. load[l] \in Load /\ load[l].workers <= MaxTasks /\ LoadsOK
  BY DEF TypeOK, LoadsOK
<1>2. new \in Load /\ new.workers <= MaxTasks
  <2>1. load[l].workers \in Nat \ {0} /\ load[l].next \in 0 .. load[l].workers - 1
    BY PushFacts
  <2>2. load[l].next + 1 \in 0 .. MaxTasks
    BY <2>1, <1>1, LoadAssumption
  <2> QED
    BY <2>2, <1>1 DEF Load
<1>3. k \in Tasks /\ one \in Task
  BY PushFacts DEF Task
<1>4. task' = [task EXCEPT ![k] = one] /\ load' = [load EXCEPT ![l] = new]
  BY PushFacts
<1> HIDE DEF new, k, one
<1>5. task' \in [Tasks -> Task]
  BY <1>1, <1>3, <1>4 DEF LoadsOK
<1>6. LoadsOK'
  BY <1>1, <1>2, <1>4, <1>5, OneLoadChanges
<1>7. TablesOK' /\ RunsOK' /\ CountsOK'
  BY DEF TypeOK, TablesOK, RunsOK, InHand, CountsOK, Push
<1> QED
  BY <1>6, <1>7 DEF TypeOK

(* A loader is one process, a run has a place in its list.                 *)
LEMMA RunFacts ==
  ASSUME TypeOK, NEW p \in Loaders
  PROVE  /\ RunOK(p, run[p])
         /\ p \in Processes
         /\ Cron \notin Workers
         /\ run \in [Loaders -> Run]
BY RunsAreOK, LoadAssumption DEF TypeOK, Processes, Loaders

LEMMA Fields ==
  ASSUME TypeOK, NEW p \in Loaders
  PROVE  /\ run[p].pos \in Nat \ {0}
         /\ run[p].todo \in SUBSET (Days \union {Entry})
         /\ run[p].day \in Days \union {Entry}
         /\ run[p].list \in Seq(Tickers)
         /\ run[p].task \in Tasks \union {None}
         /\ run[p].pos <= Len(run[p].list) + 1
         /\ run[p].pc \in {"select", "insert", "commit"}
              => run[p].pos <= Len(run[p].list)
BY RunFacts DEF RunOK, Run

(* What a run becomes when it goes to another place.                       *)
Moved(p, pc, pos, todo, day) ==
  [run[p] EXCEPT !.pc = pc, !.pos = pos, !.todo = todo, !.day = day]

LEMMA MovedType ==
  ASSUME TypeOK, NEW p \in Loaders,
         NEW pc \in {"fetch", "select", "insert", "commit"},
         NEW pos \in Nat \ {0}, NEW todo \in SUBSET (Days \union {Entry}),
         NEW day \in Days \union {Entry},
         run[p].pc # "idle",
         pos <= Len(run[p].list) + 1,
         pc # "fetch" => pos <= Len(run[p].list),
         run' = [run EXCEPT ![p] = Moved(p, pc, pos, todo, day)]
  PROVE  RunsOK'
<1> DEFINE new == Moved(p, pc, pos, todo, day)
<1>1. RunOK(p, run[p]) /\ RunsOK
  BY RunFacts DEF TypeOK
<1>2. new \in Run
  BY <1>1 DEF RunOK, Run, Moved
<1>3. /\ new.pc = pc /\ new.pos = pos /\ new.list = run[p].list
      /\ new.task = run[p].task
  BY <1>1 DEF RunOK, Run, Moved
<1>4. RunOK(p, new)
  BY <1>1, <1>2, <1>3 DEF RunOK
<1>5. run' = [run EXCEPT ![p] = new]
  OBVIOUS
<1> HIDE DEF new
<1> QED
  BY <1>1, <1>4, <1>5, OneRunChanges

LEMMA TakeType ==
  ASSUME TypeOK, NEW w \in Workers, NEW k \in Tasks, Take(w, k)
  PROVE  TypeOK'
<1>1. w \in Loaders /\ w # Cron
  BY LoadAssumption DEF Loaders
<1>2. task \in [Tasks -> Task] /\ load \in [Loads -> Load]
  BY DEF TypeOK, LoadsOK
<1>3. k[1] \in Loads
  BY DEF Tasks
<1>4. load[k[1]].kind \in Kinds /\ load[k[1]].from \in Days
  BY <1>2, <1>3 DEF Load
<1>5. task[k].slice \in Seq(Tickers)
  BY <1>2 DEF Task
<1>6. RunsOK'
  BY <1>1, <1>4, <1>5, BeginType DEF Take
<1>7. task' \in [Tasks -> Task]
  BY <1>2 DEF Take, Task
<1>8. TablesOK' /\ LoadsOK' /\ CountsOK'
  BY <1>7 DEF Take, TypeOK, TablesOK, LoadsOK, CountsOK
<1> QED
  BY <1>6, <1>8 DEF TypeOK

LEMMA NightBeginsType ==
  ASSUME TypeOK, NightBegins
  PROVE  TypeOK'
<1>1. Cron \in Loaders /\ Cron \notin Workers
  BY LoadAssumption DEF Loaders
<1>2. Market \in Seq(Tickers) /\ 1 \in Days /\ "corporations" \in Kinds
  BY LoadAssumption DEF Days, Kinds
<1>3. RunsOK'
  BY <1>1, <1>2, BeginType DEF NightBegins
<1>4. tonight' \in Seq(Tickers)
  BY OrdersType DEF NightBegins, TypeOK
<1>5. nights' \in 0 .. MaxNights
  BY LoadAssumption DEF NightBegins, TypeOK, CountsOK
<1>6. TablesOK' /\ LoadsOK' /\ CountsOK'
  BY <1>4, <1>5 DEF NightBegins, TypeOK, TablesOK, LoadsOK, CountsOK
<1> QED
  BY <1>3, <1>6 DEF TypeOK

(* How each step of a loader moves its run.                                *)
LEMMA Moves ==
  ASSUME TypeOK, NEW p \in Loaders
  PROVE  /\ Fetch(p) => run' = [run EXCEPT ![p] =
              Moved(p, "select", run[p].pos, Window(p, ticker(p)), run[p].day)]
         /\ Insert(p) => run' = [run EXCEPT ![p] =
              Moved(p, "commit", run[p].pos, run[p].todo, run[p].day)]
         /\ Commit(p) => run' = [run EXCEPT ![p] =
              Moved(p, "select", run[p].pos, run[p].todo \ {run[p].day}, run[p].day)]
         /\ Put(p) => run' = [run EXCEPT ![p] =
              Moved(p, "fetch", run[p].pos + 1, run[p].todo, run[p].day)]
<1>1. run \in [Loaders -> Run] /\ run[p] \in Run
  BY RunFacts
<1>2. Fetch(p) => run' = [run EXCEPT ![p] =
         Moved(p, "select", run[p].pos, Window(p, ticker(p)), run[p].day)]
  BY <1>1 DEF Fetch, Moved, Run
<1>3. Insert(p) => run' = [run EXCEPT ![p] =
         Moved(p, "commit", run[p].pos, run[p].todo, run[p].day)]
  BY <1>1 DEF Insert, Moved, Run
<1>4. Commit(p) => run' = [run EXCEPT ![p] =
         Moved(p, "select", run[p].pos, run[p].todo \ {run[p].day}, run[p].day)]
  BY <1>1 DEF Commit, Moved, Run
<1>5. Put(p) => run' = [run EXCEPT ![p] =
         Moved(p, "fetch", run[p].pos + 1, run[p].todo, run[p].day)]
  BY <1>1 DEF Put, Moved, Run
<1> QED
  BY <1>2, <1>3, <1>4, <1>5

LEMMA SelectMoves ==
  ASSUME TypeOK, NEW p \in Loaders, Select(p)
  PROVE  \E d \in run[p].todo :
           /\ Earliest(d, run[p].todo)
           /\ \/ /\ d \in stored[ticker(p)]
                 /\ run' = [run EXCEPT ![p] =
                      Moved(p, "select", run[p].pos, run[p].todo \ {d}, run[p].day)]
              \/ /\ d \notin stored[ticker(p)]
                 /\ run' = [run EXCEPT ![p] =
                      Moved(p, "insert", run[p].pos, run[p].todo, d)]
<1>1. run \in [Loaders -> Run] /\ run[p] \in Run /\ run[p].pc = "select"
  BY RunFacts DEF Select
<1>2. PICK d \in run[p].todo :
        /\ Earliest(d, run[p].todo)
        /\ run' = IF d \in stored[ticker(p)]
                  THEN [run EXCEPT ![p].todo = @ \ {d}]
                  ELSE [run EXCEPT ![p].pc = "insert", ![p].day = d]
  BY DEF Select
<1>3. CASE d \in stored[ticker(p)]
  <2>1. run' = [run EXCEPT ![p] =
          Moved(p, "select", run[p].pos, run[p].todo \ {d}, run[p].day)]
    BY <1>1, <1>2, <1>3 DEF Moved, Run
  <2> QED
    BY <1>2, <1>3, <2>1
<1>4. CASE d \notin stored[ticker(p)]
  <2>1. run' = [run EXCEPT ![p] =
          Moved(p, "insert", run[p].pos, run[p].todo, d)]
    BY <1>1, <1>2, <1>4 DEF Moved, Run
  <2> QED
    BY <1>2, <1>4, <2>1
<1> QED
  BY <1>3, <1>4

LEMMA FetchType ==
  ASSUME TypeOK, NEW p \in Loaders, Fetch(p)
  PROVE  TypeOK'
<1>1. Window(p, ticker(p)) \in SUBSET (Days \union {Entry})
  BY TickerType, WindowType DEF Fetch
<1>2. run[p].pc # "idle" /\ run[p].pos <= Len(run[p].list)
  BY DEF Fetch
<1>3. RunsOK'
  <2>1. run' = [run EXCEPT ![p] =
          Moved(p, "select", run[p].pos, Window(p, ticker(p)), run[p].day)]
    BY Moves
  <2> QED
    BY <1>1, <1>2, <2>1, MovedType, Fields
<1>4. TablesOK' /\ LoadsOK' /\ CountsOK'
  BY DEF TypeOK, TablesOK, LoadsOK, CountsOK, Fetch
<1> QED
  BY <1>3, <1>4 DEF TypeOK

LEMMA SelectType ==
  ASSUME TypeOK, NEW p \in Loaders, Select(p)
  PROVE  TypeOK'
<1>1. PICK d \in run[p].todo :
        \/ run' = [run EXCEPT ![p] =
             Moved(p, "select", run[p].pos, run[p].todo \ {d}, run[p].day)]
        \/ run' = [run EXCEPT ![p] =
             Moved(p, "insert", run[p].pos, run[p].todo, d)]
  BY SelectMoves
<1>2. /\ d \in Days \union {Entry}
      /\ run[p].todo \ {d} \in SUBSET (Days \union {Entry})
  BY Fields
<1>3. run[p].pc # "idle" /\ run[p].pos <= Len(run[p].list)
  BY Fields DEF Select
<1>4. RunsOK'
  <2>1. CASE run' = [run EXCEPT ![p] =
               Moved(p, "select", run[p].pos, run[p].todo \ {d}, run[p].day)]
    BY <1>2, <1>3, <2>1, MovedType, Fields
  <2>2. CASE run' = [run EXCEPT ![p] =
               Moved(p, "insert", run[p].pos, run[p].todo, d)]
    BY <1>2, <1>3, <2>2, MovedType, Fields
  <2> QED
    BY <1>1, <2>1, <2>2
<1>5. TablesOK' /\ LoadsOK' /\ CountsOK'
  BY DEF TypeOK, TablesOK, LoadsOK, CountsOK, Select
<1> QED
  BY <1>4, <1>5 DEF TypeOK

LEMMA InsertType ==
  ASSUME TypeOK, NEW p \in Loaders, Insert(p)
  PROVE  TypeOK'
<1>1. run[p].pc # "idle" /\ run[p].pos <= Len(run[p].list)
  BY Fields DEF Insert
<1>2. RunsOK'
  <2>1. run' = [run EXCEPT ![p] =
          Moved(p, "commit", run[p].pos, run[p].todo, run[p].day)]
    BY Moves
  <2> QED
    BY <1>1, <2>1, MovedType, Fields
<1>3. TablesOK' /\ LoadsOK' /\ CountsOK'
  BY DEF TypeOK, TablesOK, LoadsOK, CountsOK, Insert
<1> QED
  BY <1>2, <1>3 DEF TypeOK

(* Committing a row.                                                       *)
LEMMA StoredType ==
  ASSUME TypeOK, NEW p \in Loaders, run[p].pos <= Len(run[p].list)
  PROVE  [stored EXCEPT ![ticker(p)] = @ \union {run[p].day}]
           \in [Tickers -> SUBSET (Days \union {Entry})]
BY TickerType, Fields DEF TypeOK, TablesOK

LEMMA CommitType ==
  ASSUME TypeOK, NEW p \in Loaders, Commit(p)
  PROVE  TypeOK'
<1>1. run[p].pc # "idle" /\ run[p].pos <= Len(run[p].list)
  BY Fields DEF Commit
<1>2. run[p].todo \ {run[p].day} \in SUBSET (Days \union {Entry})
  BY Fields
<1>3. RunsOK'
  <2>1. run' = [run EXCEPT ![p] =
          Moved(p, "select", run[p].pos, run[p].todo \ {run[p].day}, run[p].day)]
    BY Moves
  <2> QED
    BY <1>1, <1>2, <2>1, MovedType, Fields
<1>4. stored' \in [Tickers -> SUBSET (Days \union {Entry})]
  BY <1>1, StoredType DEF Commit
<1>5. TablesOK' /\ LoadsOK' /\ CountsOK'
  BY <1>4 DEF TypeOK, TablesOK, LoadsOK, CountsOK, Commit
<1> QED
  BY <1>3, <1>5 DEF TypeOK

LEMMA PutType ==
  ASSUME TypeOK, NEW p \in Loaders, Put(p)
  PROVE  TypeOK'
<1>1. run[p].pc = "select" /\ run[p].pos <= Len(run[p].list)
  BY Fields DEF Put
<1>2. Len(run[p].list) \in Nat
  BY Fields
<1>3. run[p].pos + 1 \in Nat \ {0} /\ run[p].pos + 1 <= Len(run[p].list) + 1
  BY <1>1, <1>2, Fields
<1>4. RunsOK'
  <2>1. run' = [run EXCEPT ![p] =
          Moved(p, "fetch", run[p].pos + 1, run[p].todo, run[p].day)]
    BY Moves
  <2> QED
    BY <1>1, <1>3, <2>1, MovedType, Fields
<1>5. task' \in [Tasks -> Task]
  BY Fields DEF Put, TypeOK, LoadsOK, Task
<1>6. TablesOK' /\ LoadsOK' /\ CountsOK'
  BY <1>5 DEF TypeOK, TablesOK, LoadsOK, CountsOK, Put
<1> QED
  BY <1>4, <1>6 DEF TypeOK

(* Losing a connection.                                                    *)
LEMMA LeakType ==
  ASSUME TypeOK, NEW p \in Processes
  PROVE  [leaked EXCEPT ![p] = @ + 1] \in [Processes -> Nat]
BY DEF TypeOK, CountsOK

LEMMA FaultType ==
  ASSUME TypeOK, Fault
  PROVE  faults' \in 0 .. MaxFaults
BY LoadAssumption DEF TypeOK, CountsOK, Fault

(* What ends a run leaves the requests alone.                              *)
LEMMA EndsType ==
  ASSUME TypeOK, NEW p \in Loaders, NEW state \in Outcomes,
         NEW shown \in {"PENDING", "PROGRESS", "SUCCESS", "FAILURE"},
         End(p, state, shown), TablesOK', CountsOK', UNCHANGED load
  PROVE  TypeOK'
<1>1. RunsOK' /\ task' \in [Tasks -> Task]
  BY EndType
<1>2. LoadsOK'
  BY <1>1 DEF TypeOK, LoadsOK
<1> QED
  BY <1>1, <1>2 DEF TypeOK

LEMMA FetchExhaustedType ==
  ASSUME TypeOK, NEW p \in Loaders, FetchExhausted(p)
  PROVE  TypeOK'
<1>1. TablesOK' /\ CountsOK'
  BY DEF TypeOK, TablesOK, CountsOK, FetchExhausted
<1> QED
  BY <1>1, EndsType DEF FetchExhausted, Outcomes

LEMMA FetchRaisesType ==
  ASSUME TypeOK, NEW p \in Loaders, FetchRaises(p)
  PROVE  TypeOK'
<1>1. faults' \in 0 .. MaxFaults
  BY FaultType DEF FetchRaises
<1>2. TablesOK' /\ CountsOK'
  BY <1>1 DEF TypeOK, TablesOK, CountsOK, FetchRaises
<1> QED
  BY <1>2, EndsType DEF FetchRaises, Outcomes

LEMMA InsertClashesType ==
  ASSUME TypeOK, NEW p \in Loaders, InsertClashes(p)
  PROVE  TypeOK'
<1>1. leaked' \in [Processes -> Nat]
  BY RunFacts, LeakType DEF InsertClashes
<1>2. TablesOK' /\ CountsOK'
  BY <1>1 DEF TypeOK, TablesOK, CountsOK, InsertClashes
<1> QED
  BY <1>2, EndsType DEF InsertClashes, Outcomes

LEMMA CallRaisesType ==
  ASSUME TypeOK, NEW p \in Loaders, CallRaises(p)
  PROVE  TypeOK'
<1>1. leaked' \in [Processes -> Nat]
  BY RunFacts, LeakType DEF CallRaises
<1>2. faults' \in 0 .. MaxFaults
  BY FaultType DEF CallRaises
<1>3. run[p].pos <= Len(run[p].list)
  BY Fields DEF CallRaises
<1>4. \/ stored' = stored
      \/ stored' = [stored EXCEPT ![ticker(p)] = @ \union {run[p].day}]
  BY DEF CallRaises
<1>5. TablesOK'
  BY <1>3, <1>4, StoredType DEF TypeOK, TablesOK, CallRaises
<1>6. CountsOK'
  BY <1>1, <1>2 DEF TypeOK, CountsOK, CallRaises
<1> QED
  BY <1>5, <1>6, EndsType DEF CallRaises, Outcomes

LEMMA FinishType ==
  ASSUME TypeOK, NEW p \in Loaders, Finish(p)
  PROVE  TypeOK'
<1>1. TablesOK' /\ CountsOK'
  BY DEF TypeOK, TablesOK, CountsOK, Finish
<1>2. CASE p = Cron /\ run[p].kind = "corporations"
  <2>1. Begin(p, None, "prices", 1, tonight) /\ task' = task /\ load' = load
    BY <1>2 DEF Finish
  <2>2. tonight \in Seq(Tickers) /\ 1 \in Days /\ "prices" \in Kinds
    BY LoadAssumption DEF TypeOK, CountsOK, Days, Kinds
  <2>3. p \notin Workers
    BY <1>2, RunFacts
  <2>4. RunsOK'
    BY <2>1, <2>2, <2>3, BeginType
  <2>5. LoadsOK'
    BY <2>1 DEF TypeOK, LoadsOK
  <2> QED
    BY <1>1, <2>4, <2>5 DEF TypeOK
<1>3. CASE ~(p = Cron /\ run[p].kind = "corporations")
  BY <1>1, <1>3, EndsType DEF Finish, Outcomes
<1> QED
  BY <1>2, <1>3

LEMMA CrashType ==
  ASSUME TypeOK, NEW p \in Loaders, Crash(p)
  PROVE  TypeOK'
<1>1. leaked' \in [Processes -> Nat]
  BY RunFacts DEF Crash, TypeOK, CountsOK
<1>2. crashes' \in 0 .. MaxCrashes
  <2>1. crashes \in 0 .. MaxCrashes /\ crashes < MaxCrashes /\ crashes' = crashes + 1
    BY DEF Crash, TypeOK, CountsOK
  <2> QED
    BY <2>1, LoadAssumption
<1>3. TablesOK' /\ CountsOK'
  BY <1>1, <1>2 DEF TypeOK, TablesOK, CountsOK, Crash
<1>4. PICK how \in {"as before", "FAILURE"} :
        End(p, "lost", IF how = "FAILURE" \/ run[p].task = None THEN "FAILURE"
                       ELSE task[run[p].task].shown)
  BY DEF Crash
<1> DEFINE shown == IF how = "FAILURE" \/ run[p].task = None THEN "FAILURE"
                    ELSE task[run[p].task].shown
<1>5. shown \in {"PENDING", "PROGRESS", "SUCCESS", "FAILURE"}
  BY Fields DEF TypeOK, LoadsOK, Task
<1>6. UNCHANGED load /\ "lost" \in Outcomes
  BY DEF Crash, Outcomes
<1>7. End(p, "lost", shown)
  BY <1>4
<1> HIDE DEF shown
<1> QED
  BY <1>3, <1>5, <1>6, <1>7, EndsType

LEMMA TomorrowType ==
  ASSUME TypeOK, Tomorrow
  PROVE  TypeOK'
BY LoadAssumption DEF TypeOK, TablesOK, LoadsOK, RunsOK, CountsOK, InHand,
   Tomorrow, Days

LEMMA InitType == Init => TypeOK
<1> SUFFICES ASSUME Init PROVE TypeOK
  OBVIOUS
<1>1. TablesOK
  <2>1. 1 \in Days
    BY LoadAssumption DEF Days
  <2>2. \A t \in Tickers : (IF t \in Listed THEN {Entry} ELSE {}) \subseteq Days \union {Entry}
    OBVIOUS
  <2> QED
    BY <2>1, <2>2 DEF Init, TablesOK
<1>2. LoadsOK
  <2>1. IdleLoad.workers = 0 /\ 0 <= MaxTasks
    BY LoadAssumption DEF IdleLoad
  <2> QED
    BY <2>1, IdleTypes DEF Init, LoadsOK
<1>3. run \in [Loaders -> Run] /\ \A p \in Loaders : RunOK(p, run[p])
  BY IdleTypes, IdleRunOK DEF Init
<1>4. RunsOK
  BY <1>3, RunsAreOK
<1>5. CountsOK
  BY LoadAssumption DEF Init, CountsOK
<1> QED
  BY <1>1, <1>2, <1>4, <1>5 DEF TypeOK

LEMMA UnchangedType ==
  ASSUME TypeOK, UNCHANGED vars PROVE TypeOK'
BY DEF vars, TypeOK, TablesOK, LoadsOK, RunsOK, CountsOK, InHand

LEMMA NextType == TypeOK /\ [Next]_vars => TypeOK'
<1> SUFFICES ASSUME TypeOK, [Next]_vars PROVE TypeOK'
  OBVIOUS
<1>1. CASE \E l \in Loads : Ask(l) \/ Push(l) \/ Answer(l) \/ PushRaises(l)
  BY <1>1, AskPricesType, AskRaisesType, AskCorporationsType, PushType,
     AnswerType, PushRaisesType DEF Ask
<1>2. CASE \E w \in Workers, k \in Tasks : Take(w, k)
  BY <1>2, TakeType
<1>3. CASE NightBegins
  BY <1>3, NightBeginsType
<1>4. CASE \E p \in Loaders : Work(p) \/ Fail(p)
  BY <1>4, FetchType, FetchExhaustedType, SelectType, InsertType,
     InsertClashesType, CommitType, PutType, FinishType, FetchRaisesType,
     CallRaisesType, CrashType DEF Work, Fail
<1>5. CASE Tomorrow
  BY <1>5, TomorrowType
<1>6. CASE Terminated \/ UNCHANGED vars
  BY <1>6, UnchangedType DEF Terminated
<1> QED
  BY <1>1, <1>2, <1>3, <1>4, <1>5, <1>6 DEF Next

(* Every reachable state has its type, for any number of tickers, requests *)
(* and workers.                                                            *)
THEOREM TypeCorrect == Spec => []TypeOK
<1>1. Init => TypeOK
  BY InitType
<1>2. TypeOK /\ [Next]_vars => TypeOK'
  BY NextType
<1> QED
  BY <1>1, <1>2, PTL DEF Spec

-----------------------------------------------------------------------------
(* No loader leaves a hole behind it                                       *)

(* Rows are never taken back, and days go by.                              *)
Grows ==
  /\ \A t \in Tickers : stored[t] \subseteq stored'[t]
  /\ today <= today'

LEMMA NextGrows == TypeOK /\ [Next]_vars => Grows
<1> SUFFICES ASSUME TypeOK, [Next]_vars PROVE Grows
  OBVIOUS
<1> USE DEF Grows
<1>0. today \in Nat /\ stored \in [Tickers -> SUBSET (Days \union {Entry})]
  BY DEF TypeOK, TablesOK, Days
<1>1. CASE UNCHANGED <<stored, today>>
  BY <1>0, <1>1
<1>2. ASSUME NEW p \in Loaders,
             stored' = [stored EXCEPT ![ticker(p)] = @ \union {run[p].day}],
             today' = today
      PROVE  Grows
  BY <1>0, <1>2
<1>3. CASE Tomorrow
  BY <1>0, <1>3 DEF Tomorrow
<1>4. CASE \E l \in Loads : Ask(l) \/ Push(l) \/ Answer(l) \/ PushRaises(l)
  BY <1>1, <1>4 DEF Ask, AskPrices, AskRaises, AskCorporations, Push, Answer,
     PushRaises
<1>5. CASE \E w \in Workers, k \in Tasks : Take(w, k)
  BY <1>1, <1>5 DEF Take
<1>6. CASE NightBegins
  BY <1>1, <1>6 DEF NightBegins
<1>7. ASSUME NEW p \in Loaders, Work(p) PROVE Grows
  <2>1. CASE Commit(p)
    BY <1>2, <2>1 DEF Commit
  <2>2. CASE ~Commit(p)
    BY <1>1, <1>7, <2>2 DEF Work, Fetch, FetchExhausted, Select, Insert,
       InsertClashes, Put, Finish
  <2> QED
    BY <2>1, <2>2
<1>8. ASSUME NEW p \in Loaders, Fail(p) PROVE Grows
  <2>1. CASE CallRaises(p)
    BY <1>1, <1>2, <2>1 DEF CallRaises
  <2>2. CASE ~CallRaises(p)
    BY <1>1, <1>8, <2>2 DEF Fail, FetchRaises, Crash
  <2> QED
    BY <2>1, <2>2
<1>9. CASE Terminated \/ UNCHANGED vars
  BY <1>1, <1>9 DEF Terminated, vars
<1> QED
  BY <1>3, <1>4, <1>5, <1>6, <1>7, <1>8, <1>9 DEF Next

(* What a loader has done of what it owes: every ticker it has gone past,  *)
(* and of the one it is at, every row that is not still to do.             *)
Rest(p) == Owed(p, run[p].pos) \ run[p].todo

Kept(p) ==
  /\ run[p].began <= today
  /\ run[p].pc # "idle" =>
       \A i \in 1 .. run[p].pos - 1 : Owed(p, i) \subseteq stored[run[p].list[i]]
  /\ InHand(p) => Rest(p) \subseteq stored[ticker(p)]

NoHole == \A p \in Loaders : Kept(p)

(* What is owed for a ticker only shrinks while the list stays.            *)
LEMMA OwedShrinks ==
  ASSUME TypeOK, NEW p \in Loaders, NEW i \in 1 .. Len(run[p].list),
         today <= today', today' \in Days,
         run'[p].kind = run[p].kind, run'[p].from = run[p].from,
         run'[p].began = run[p].began, run'[p].list = run[p].list
  PROVE  Owed(p, i)' \subseteq Owed(p, i)
<1>1. today \in Nat /\ today' \in Nat /\ Span \in Nat
  BY LoadAssumption DEF TypeOK, TablesOK, Days
<1>2. CASE p = Cron
  <2>1. run[p].list[i] \in Tickers
    BY Fields
  <2>2. Traded[run[p].list[i]] \subseteq Int
    BY <2>1, LoadAssumption DEF Days
  <2>3. ASSUME NEW d \in Traded[run[p].list[i]], today' - Span <= d
        PROVE  today - Span <= d
    BY <1>1, <2>2, <2>3
  <2> QED
    BY <1>2, <2>3 DEF Owed, From
<1>3. CASE p # Cron
  BY <1>3 DEF Owed, From
<1> QED
  BY <1>2, <1>3

(* A loader that did not move keeps what it has.                           *)
LEMMA StillKept ==
  ASSUME TypeOK, TypeOK', Grows, NEW p \in Loaders, Kept(p), run'[p] = run[p]
  PROVE  Kept(p)'
<1>1. today \in Nat /\ today' \in Days /\ today' \in Nat
  BY DEF TypeOK, TablesOK, Days
<1>2. run[p].began \in Nat
  BY RunFacts DEF RunOK, Run, Days
<1>3. run'[p].began <= today'
  BY <1>1, <1>2 DEF Kept, Grows
<1>4. ASSUME NEW i \in 1 .. Len(run[p].list)
      PROVE  /\ Owed(p, i)' \subseteq Owed(p, i)
             /\ stored[run[p].list[i]] \subseteq stored'[run[p].list[i]]
  <2>1. run[p].list[i] \in Tickers
    BY Fields
  <2> QED
    BY <1>1, <2>1, OwedShrinks DEF Grows
<1>5. ASSUME run'[p].pc # "idle", NEW i \in 1 .. run'[p].pos - 1
      PROVE  Owed(p, i)' \subseteq stored'[run'[p].list[i]]
  <2>1. i \in 1 .. Len(run[p].list)
    BY <1>5, Fields
  <2> QED
    BY <1>4, <1>5, <2>1 DEF Kept
<1>6. ASSUME InHand(p)'
      PROVE  Rest(p)' \subseteq stored'[ticker(p)']
  <2>1. InHand(p) /\ run[p].pos \in 1 .. Len(run[p].list)
    BY <1>6, Fields DEF InHand
  <2>2. PICK i \in 1 .. Len(run[p].list) : i = run[p].pos
    BY <2>1
  <2>3. ticker(p)' = run[p].list[i] /\ ticker(p) = run[p].list[i]
    BY <2>2 DEF ticker
  <2>4. Rest(p)' = Owed(p, i)' \ run[p].todo
    BY <2>2 DEF Rest, Owed, From
  <2>5. Rest(p) = Owed(p, i) \ run[p].todo
    BY <2>2 DEF Rest
  <2>6. Rest(p) \subseteq stored[run[p].list[i]]
    BY <2>1, <2>3 DEF Kept
  <2> QED
    BY <1>4, <2>3, <2>4, <2>5, <2>6
<1> QED
  BY <1>3, <1>5, <1>6 DEF Kept

(* The fields of a run that moved.                                         *)
LEMMA MovedFields ==
  ASSUME TypeOK, NEW p \in Loaders, NEW pc, NEW pos, NEW todo, NEW day,
         run' = [run EXCEPT ![p] = Moved(p, pc, pos, todo, day)]
  PROVE  /\ run'[p].pc = pc /\ run'[p].pos = pos /\ run'[p].todo = todo
         /\ run'[p].day = day /\ run'[p].list = run[p].list
         /\ run'[p].kind = run[p].kind /\ run'[p].from = run[p].from
         /\ run'[p].began = run[p].began /\ run'[p].task = run[p].task
         /\ \A q \in Loaders \ {p} : run'[q] = run[q]
<1>1. run \in [Loaders -> Run] /\ run[p] \in Run
  BY RunFacts
<1>2. run'[p] = Moved(p, pc, pos, todo, day)
  BY <1>1
<1> QED
  BY <1>1, <1>2 DEF Moved, Run

(* A loader that moves within a ticker, or past one it has done.           *)
LEMMA MovedKept ==
  ASSUME TypeOK, TypeOK', Grows, NEW p \in Loaders, Kept(p), today' = today,
         run[p].pc # "idle",
         run'[p].list = run[p].list, run'[p].kind = run[p].kind,
         run'[p].from = run[p].from, run'[p].began = run[p].began,
         \/ /\ run'[p].pos = run[p].pos
            /\ Owed(p, run[p].pos) \ run'[p].todo \subseteq stored'[ticker(p)]
         \/ /\ run'[p].pos = run[p].pos + 1
            /\ run'[p].pc = "fetch"
            /\ run[p].pos <= Len(run[p].list)
            /\ Owed(p, run[p].pos) \subseteq stored[ticker(p)]
  PROVE  Kept(p)'
<1>1. run'[p].began <= today'
  BY DEF Kept
<1>2. \A i \in 1 .. Len(run[p].list) : Owed(p, i)' = Owed(p, i)
  BY DEF Owed, From
<1>3. ASSUME NEW i \in 1 .. Len(run[p].list)
      PROVE  stored[run[p].list[i]] \subseteq stored'[run[p].list[i]]
  <2>1. run[p].list[i] \in Tickers
    BY Fields
  <2> QED
    BY <2>1 DEF Grows
<1>4. run[p].pos \in Nat \ {0} /\ run[p].pos <= Len(run[p].list) + 1
      /\ Len(run[p].list) \in Nat
  BY Fields
<1>5. ASSUME NEW i \in 1 .. run'[p].pos - 1
      PROVE  Owed(p, i)' \subseteq stored'[run'[p].list[i]]
  <2>1. CASE i <= run[p].pos - 1
    <3>1. i \in 1 .. run[p].pos - 1 /\ i \in 1 .. Len(run[p].list)
      BY <1>4, <2>1
    <3> QED
      BY <1>2, <1>3, <3>1 DEF Kept
  <2>2. CASE ~(i <= run[p].pos - 1)
    <3>1. /\ run'[p].pos = run[p].pos + 1 /\ run[p].pos <= Len(run[p].list)
          /\ Owed(p, run[p].pos) \subseteq stored[ticker(p)]
      BY <1>4, <2>2
    <3>2. i = run[p].pos /\ i \in 1 .. Len(run[p].list)
      BY <1>4, <2>2, <3>1
    <3> QED
      BY <1>2, <1>3, <3>1, <3>2 DEF ticker
  <2> QED
    BY <2>1, <2>2
<1>6. ASSUME InHand(p)'
      PROVE  Rest(p)' \subseteq stored'[ticker(p)']
  <2>1. /\ run'[p].pos = run[p].pos
        /\ Owed(p, run[p].pos) \ run'[p].todo \subseteq stored'[ticker(p)]
    BY <1>6 DEF InHand
  <2>2. ticker(p)' = ticker(p)
    BY <2>1 DEF ticker
  <2>3. Rest(p)' = Owed(p, run[p].pos) \ run'[p].todo
    BY <2>1 DEF Rest, Owed, From
  <2> QED
    BY <2>1, <2>2, <2>3
<1> QED
  BY <1>1, <1>5, <1>6 DEF Kept

(* A loader that ended or just begins has nothing behind it.               *)
LEMMA EndKept ==
  ASSUME TypeOK, TypeOK', NEW p \in Loaders, NEW state, NEW shown,
         End(p, state, shown)
  PROVE  Kept(p)' /\ \A q \in Loaders \ {p} : run'[q] = run[q]
<1>1. run \in [Loaders -> Run]
  BY RunFacts
<1>2. run'[p] = IdleRun /\ \A q \in Loaders \ {p} : run'[q] = run[q]
  BY <1>1 DEF End
<1>3. 1 <= today'
  BY DEF TypeOK, TablesOK, Days
<1> QED
  BY <1>2, <1>3 DEF Kept, InHand, IdleRun

LEMMA BeginKept ==
  ASSUME TypeOK, NEW p \in Loaders, NEW k, NEW kind, NEW from, NEW list,
         Begin(p, k, kind, from, list), today' = today
  PROVE  Kept(p)' /\ \A q \in Loaders \ {p} : run'[q] = run[q]
<1>1. run \in [Loaders -> Run] /\ today <= today
  BY RunFacts DEF TypeOK, TablesOK, Days
<1>2. /\ run'[p].pc = "fetch" /\ run'[p].pos = 1 /\ run'[p].began = today
      /\ \A q \in Loaders \ {p} : run'[q] = run[q]
  BY <1>1 DEF Begin, IdleRun
<1> QED
  BY <1>1, <1>2 DEF Kept, InHand

LEMMA OtherKept ==
  ASSUME TypeOK, TypeOK', Grows, NoHole, NEW p \in Loaders, Kept(p)',
         \A q \in Loaders \ {p} : run'[q] = run[q]
  PROVE  NoHole'
BY StillKept DEF NoHole

(* What a loader fetches for a ticker is at least what it owes.            *)
LEMMA WindowCovers ==
  ASSUME TypeOK, NEW p \in Loaders, Kept(p), run[p].pos <= Len(run[p].list)
  PROVE  Owed(p, run[p].pos) \subseteq Window(p, ticker(p))
<1>1. ticker(p) \in Tickers /\ ticker(p) = run[p].list[run[p].pos]
  BY TickerType DEF ticker
<1>2. Traded[ticker(p)] \subseteq Nat
  BY <1>1, LoadAssumption DEF Days
<1>3. run[p].began \in Nat /\ today \in Nat /\ run[p].began <= today
  BY RunFacts DEF RunOK, Run, TypeOK, TablesOK, Days, Kept
<1>4. \A d \in Nat : d <= run[p].began => d <= today
  BY <1>3
<1> QED
  BY <1>1, <1>2, <1>4 DEF Owed, Window

LEMMA FetchKept ==
  ASSUME TypeOK, TypeOK', Grows, NoHole, NEW p \in Loaders, Fetch(p)
  PROVE  NoHole'
<1>1. run' = [run EXCEPT ![p] =
         Moved(p, "select", run[p].pos, Window(p, ticker(p)), run[p].day)]
  BY Moves
<1>2. Kept(p) /\ today' = today /\ run[p].pc # "idle" /\ run[p].pos <= Len(run[p].list)
  BY DEF NoHole, Fetch
<1>3. Owed(p, run[p].pos) \ Window(p, ticker(p)) = {}
  BY <1>2, WindowCovers
<1>4. Kept(p)'
  <2>1. /\ run'[p].pc = "select" /\ run'[p].pos = run[p].pos
        /\ run'[p].todo = Window(p, ticker(p))
        /\ run'[p].list = run[p].list /\ run'[p].kind = run[p].kind
        /\ run'[p].from = run[p].from /\ run'[p].began = run[p].began
    BY <1>1, RunFacts DEF Moved, Run
  <2> QED
    BY <1>1, <1>2, <1>3, <2>1, MovedKept
<1> QED
  BY <1>1, <1>4, MovedFields, OtherKept

LEMMA SelectKept ==
  ASSUME TypeOK, TypeOK', Grows, NoHole, NEW p \in Loaders, Select(p)
  PROVE  NoHole'
<1>1. PICK d \in run[p].todo :
        \/ /\ d \in stored[ticker(p)]
           /\ run' = [run EXCEPT ![p] =
                Moved(p, "select", run[p].pos, run[p].todo \ {d}, run[p].day)]
        \/ run' = [run EXCEPT ![p] =
             Moved(p, "insert", run[p].pos, run[p].todo, d)]
  BY SelectMoves
<1>2. /\ Kept(p) /\ today' = today /\ run[p].pc # "idle" /\ InHand(p)
      /\ stored' = stored
  BY DEF NoHole, Select, InHand
<1>3. Owed(p, run[p].pos) \ run[p].todo \subseteq stored[ticker(p)]
  BY <1>2 DEF Kept, Rest
<1>4. CASE /\ d \in stored[ticker(p)]
           /\ run' = [run EXCEPT ![p] =
                Moved(p, "select", run[p].pos, run[p].todo \ {d}, run[p].day)]
  <2>1. Owed(p, run[p].pos) \ (run[p].todo \ {d}) \subseteq stored'[ticker(p)]
    BY <1>2, <1>3, <1>4
  <2>2. Kept(p)'
    <3>1. /\ run'[p].pc = "select" /\ run'[p].pos = run[p].pos
          /\ run'[p].todo = run[p].todo \ {d}
          /\ run'[p].list = run[p].list /\ run'[p].kind = run[p].kind
          /\ run'[p].from = run[p].from /\ run'[p].began = run[p].began
      BY <1>4, RunFacts DEF Moved, Run
    <3> QED
      BY <1>2, <1>4, <2>1, <3>1, MovedKept
  <2> QED
    BY <1>4, <2>2, MovedFields, OtherKept
<1>5. CASE run' = [run EXCEPT ![p] =
             Moved(p, "insert", run[p].pos, run[p].todo, d)]
  <2>1. Kept(p)'
    <3>1. /\ run'[p].pc = "insert" /\ run'[p].pos = run[p].pos
          /\ run'[p].todo = run[p].todo
          /\ run'[p].list = run[p].list /\ run'[p].kind = run[p].kind
          /\ run'[p].from = run[p].from /\ run'[p].began = run[p].began
      BY <1>5, RunFacts DEF Moved, Run
    <3> QED
      BY <1>2, <1>3, <1>5, <3>1, MovedKept
  <2> QED
    BY <1>5, <2>1, MovedFields, OtherKept
<1> QED
  BY <1>1, <1>4, <1>5

LEMMA InsertKept ==
  ASSUME TypeOK, TypeOK', Grows, NoHole, NEW p \in Loaders, Insert(p)
  PROVE  NoHole'
<1>1. run' = [run EXCEPT ![p] =
         Moved(p, "commit", run[p].pos, run[p].todo, run[p].day)]
  BY Moves
<1>2. /\ Kept(p) /\ today' = today /\ run[p].pc # "idle" /\ InHand(p)
      /\ stored' = stored
  BY DEF NoHole, Insert, InHand
<1>3. Owed(p, run[p].pos) \ run[p].todo \subseteq stored'[ticker(p)]
  BY <1>2 DEF Kept, Rest
<1>4. Kept(p)'
  <2>1. /\ run'[p].pc = "commit" /\ run'[p].pos = run[p].pos
        /\ run'[p].todo = run[p].todo
        /\ run'[p].list = run[p].list /\ run'[p].kind = run[p].kind
        /\ run'[p].from = run[p].from /\ run'[p].began = run[p].began
    BY <1>1, RunFacts DEF Moved, Run
  <2> QED
    BY <1>1, <1>2, <1>3, <2>1, MovedKept
<1> QED
  BY <1>1, <1>4, MovedFields, OtherKept

LEMMA CommitKept ==
  ASSUME TypeOK, TypeOK', Grows, NoHole, NEW p \in Loaders, Commit(p)
  PROVE  NoHole'
<1>1. run' = [run EXCEPT ![p] =
         Moved(p, "select", run[p].pos, run[p].todo \ {run[p].day}, run[p].day)]
  BY Moves
<1>2. /\ Kept(p) /\ today' = today /\ run[p].pc # "idle" /\ InHand(p)
      /\ stored' = [stored EXCEPT ![ticker(p)] = @ \union {run[p].day}]
  BY DEF NoHole, Commit, InHand
<1>3. ticker(p) \in Tickers
  BY <1>2, Fields, TickerType DEF InHand
<1>4. stored'[ticker(p)] = stored[ticker(p)] \union {run[p].day}
  BY <1>2, <1>3 DEF TypeOK, TablesOK
<1>5. Owed(p, run[p].pos) \ (run[p].todo \ {run[p].day}) \subseteq stored'[ticker(p)]
  BY <1>2, <1>4 DEF Kept, Rest
<1>6. Kept(p)'
  <2>1. /\ run'[p].pc = "select" /\ run'[p].pos = run[p].pos
        /\ run'[p].todo = run[p].todo \ {run[p].day}
        /\ run'[p].list = run[p].list /\ run'[p].kind = run[p].kind
        /\ run'[p].from = run[p].from /\ run'[p].began = run[p].began
    BY <1>1, RunFacts DEF Moved, Run
  <2> QED
    BY <1>1, <1>2, <1>5, <2>1, MovedKept
<1> QED
  BY <1>1, <1>6, MovedFields, OtherKept

LEMMA PutKept ==
  ASSUME TypeOK, TypeOK', Grows, NoHole, NEW p \in Loaders, Put(p)
  PROVE  NoHole'
<1>1. run' = [run EXCEPT ![p] =
         Moved(p, "fetch", run[p].pos + 1, run[p].todo, run[p].day)]
  BY Moves
<1>2. /\ Kept(p) /\ today' = today /\ run[p].pc # "idle" /\ InHand(p)
      /\ run[p].todo = {}
  BY DEF NoHole, Put, InHand
<1>3. run[p].pos <= Len(run[p].list)
  BY <1>2, Fields DEF InHand
<1>4. Owed(p, run[p].pos) \subseteq stored[ticker(p)]
  BY <1>2 DEF Kept, Rest
<1>5. Kept(p)'
  <2>1. /\ run'[p].pc = "fetch" /\ run'[p].pos = run[p].pos + 1
        /\ run'[p].todo = run[p].todo
        /\ run'[p].list = run[p].list /\ run'[p].kind = run[p].kind
        /\ run'[p].from = run[p].from /\ run'[p].began = run[p].began
    BY <1>1, RunFacts DEF Moved, Run
  <2> QED
    BY <1>1, <1>2, <1>3, <1>4, <2>1, MovedKept
<1> QED
  BY <1>1, <1>5, MovedFields, OtherKept

LEMMA NextKept ==
  ASSUME TypeOK, TypeOK', Grows, NoHole, [Next]_vars
  PROVE  NoHole'
<1>1. CASE UNCHANGED run
  BY <1>1, StillKept DEF NoHole
<1>2. CASE \E l \in Loads : Ask(l) \/ Push(l) \/ Answer(l) \/ PushRaises(l)
  BY <1>1, <1>2 DEF Ask, AskPrices, AskRaises, AskCorporations, Push, Answer,
     PushRaises
<1>3. ASSUME NEW w \in Workers, NEW k \in Tasks, Take(w, k) PROVE NoHole'
  <2>1. w \in Loaders
    BY DEF Loaders
  <2> QED
    BY <1>3, <2>1, BeginKept, OtherKept DEF Take
<1>4. CASE NightBegins
  <2>1. Cron \in Loaders
    BY DEF Loaders
  <2> QED
    BY <1>4, <2>1, BeginKept, OtherKept DEF NightBegins
<1>5. ASSUME NEW p \in Loaders, NEW state, NEW shown, End(p, state, shown)
      PROVE  NoHole'
  BY <1>5, EndKept, OtherKept
<1>6. ASSUME NEW p \in Loaders, Finish(p) PROVE NoHole'
  <2>1. CASE p = Cron /\ run[p].kind = "corporations"
    BY <1>6, <2>1, BeginKept, OtherKept DEF Finish
  <2>2. CASE ~(p = Cron /\ run[p].kind = "corporations")
    BY <1>5, <1>6, <2>2 DEF Finish
  <2> QED
    BY <2>1, <2>2
<1>7. ASSUME NEW p \in Loaders, Work(p) PROVE NoHole'
  <2>1. CASE FetchExhausted(p) \/ InsertClashes(p)
    BY <1>5, <2>1 DEF FetchExhausted, InsertClashes
  <2> QED
    BY <1>6, <1>7, <2>1, FetchKept, SelectKept, InsertKept, CommitKept, PutKept
       DEF Work
<1>8. ASSUME NEW p \in Loaders, Fail(p) PROVE NoHole'
  BY <1>5, <1>8 DEF Fail, FetchRaises, CallRaises, Crash
<1>9. CASE Tomorrow \/ Terminated \/ UNCHANGED vars
  BY <1>1, <1>9 DEF Tomorrow, Terminated, vars
<1> QED
  BY <1>2, <1>3, <1>4, <1>7, <1>8, <1>9 DEF Next

LEMMA InitKept == Init => NoHole
<1> SUFFICES ASSUME Init, NEW p \in Loaders PROVE Kept(p)
  BY DEF NoHole
<1> QED
  BY DEF Init, Kept, InHand, IdleRun

(* A loader that has gone past a ticker has left no hole in its window,    *)
(* however many others write the same rows and whatever they leave behind. *)
THEOREM NothingIsSkipped == Spec => []ProgressIsKept
<1>1. Init => TypeOK /\ NoHole
  BY InitType, InitKept
<1>2. TypeOK /\ NoHole /\ [Next]_vars => TypeOK' /\ NoHole'
  BY NextType, NextGrows, NextKept
<1>3. NoHole => ProgressIsKept
  BY DEF NoHole, Kept, ProgressIsKept
<1> QED
  BY <1>1, <1>2, <1>3, PTL DEF Spec

-----------------------------------------------------------------------------
(* A request all of whose tasks returned has loaded everything             *)

TaskSlice(l, i) ==
  IF load[l].kind = "prices" THEN Slice(load[l].list, load[l].workers, i)
                             ELSE load[l].list

(* A request asks for days that have come, and for listings by one task.   *)
Asks(l) ==
  /\ load[l].day <= today
  /\ load[l].kind = "corporations" => load[l].workers = 1

(* A task that was queued has its slice of its request.                    *)
HasSlice(k) ==
  task[k].state # "unused" =>
    /\ load[k[1]].pc # "idle"
    /\ k[2] < load[k[1]].next
    /\ task[k].slice = TaskSlice(k[1], k[2])

(* A worker that is not idle is at a running task, and has its request.    *)
IsAtTask(w) ==
  run[w].pc # "idle" =>
    LET k == run[w].task IN
    /\ task[k].state = "running"
    /\ run[w].list = task[k].slice
    /\ run[w].kind = load[k[1]].kind
    /\ run[w].from = load[k[1]].from
    /\ load[k[1]].day <= run[w].began

IsAlone(w) ==
  \A v \in Workers \ {w} :
    run[w].pc # "idle" /\ run[v].pc # "idle" => run[w].task # run[v].task

(* What a task that returned has left in the tables.                       *)
LeftWhole(k) ==
  task[k].state = "returned" =>
    \A i \in 1 .. Len(task[k].slice) :
      Requested(k[1], task[k].slice[i]) \subseteq stored[task[k].slice[i]]

Orderly ==
  /\ \A l \in Loads : Asks(l)
  /\ \A k \in Tasks : HasSlice(k) /\ LeftWhole(k)
  /\ \A w \in Workers : IsAtTask(w) /\ IsAlone(w)

(* What a step that only goes on with the work does.                       *)
SameTask(k) == task'[k].state = task[k].state /\ task'[k].slice = task[k].slice
SameWork(w) ==
  run'[w].pc # "idle" =>
    /\ run[w].pc # "idle" /\ run'[w].task = run[w].task
    /\ run'[w].list = run[w].list /\ run'[w].kind = run[w].kind
    /\ run'[w].from = run[w].from /\ run'[w].began = run[w].began

LEMMA TaskType ==
  ASSUME TypeOK, NEW k \in Tasks
  PROVE  /\ k[1] \in Loads /\ k[2] \in Nat /\ k = <<k[1], k[2]>>
         /\ task[k].slice \in Seq(Tickers)
         /\ task \in [Tasks -> Task]
BY LoadAssumption DEF Tasks, TypeOK, LoadsOK, Task

LEMMA WorkerTask ==
  ASSUME TypeOK, NEW w \in Workers, run[w].pc # "idle"
  PROVE  run[w].task \in Tasks
BY DEF TypeOK, RunsOK

(* What was left whole stays so.                                           *)
LEMMA StillWhole ==
  ASSUME TypeOK, Grows, NEW k \in Tasks, LeftWhole(k), SameTask(k),
         load'[k[1]] = load[k[1]]
  PROVE  LeftWhole(k)'
<1>1. ASSUME task'[k].state = "returned", NEW i \in 1 .. Len(task[k].slice)
      PROVE  Requested(k[1], task[k].slice[i])' \subseteq stored'[task[k].slice[i]]
  <2>1. task[k].slice[i] \in Tickers
    BY TaskType
  <2>2. Requested(k[1], task[k].slice[i]) \subseteq stored[task[k].slice[i]]
    BY <1>1 DEF LeftWhole, SameTask
  <2>3. PICK t \in Tickers : t = task[k].slice[i]
    BY <2>1
  <2>4. Requested(k[1], t)' = Requested(k[1], t)
    BY DEF Requested
  <2>5. task'[k].slice[i] = t
    BY <2>3 DEF SameTask
  <2> QED
    BY <2>2, <2>3, <2>4, <2>5 DEF Grows, SameTask
<1> QED
  BY <1>1 DEF LeftWhole, SameTask

LEMMA WorkGoesOn ==
  ASSUME TypeOK, TypeOK', Grows, Orderly, load' = load,
         \A k \in Tasks : SameTask(k),
         \A w \in Workers : SameWork(w)
  PROVE  Orderly'
<1>1. ASSUME NEW l \in Loads PROVE Asks(l)'
  <2>1. load[l].day \in Nat /\ today \in Nat /\ today' \in Nat
    BY DEF TypeOK, LoadsOK, TablesOK, Load, Days
  <2> QED
    BY <2>1 DEF Orderly, Asks, Grows
<1>2. ASSUME NEW k \in Tasks PROVE HasSlice(k)' /\ LeftWhole(k)'
  <2>1. HasSlice(k)'
    BY DEF Orderly, HasSlice, SameTask, TaskSlice
  <2>2. LeftWhole(k)'
    BY TaskType, StillWhole DEF Orderly
  <2> QED
    BY <2>1, <2>2
<1>3. ASSUME NEW w \in Workers PROVE IsAtTask(w)' /\ IsAlone(w)'
  <2>1. IsAtTask(w)'
    <3> SUFFICES ASSUME run'[w].pc # "idle"
                 PROVE  LET k == run'[w].task IN
                        /\ task'[k].state = "running"
                        /\ run'[w].list = task'[k].slice
                        /\ run'[w].kind = load'[k[1]].kind
                        /\ run'[w].from = load'[k[1]].from
                        /\ load'[k[1]].day <= run'[w].began
      BY DEF IsAtTask
    <3>1. run[w].pc # "idle" /\ run[w].task \in Tasks
      BY WorkerTask DEF SameWork
    <3>2. SameTask(run[w].task)
      BY <3>1
    <3> QED
      BY <3>1, <3>2 DEF Orderly, IsAtTask, SameWork, SameTask
  <2>2. IsAlone(w)'
    BY DEF Orderly, IsAlone, SameWork
  <2> QED
    BY <2>1, <2>2
<1> QED
  BY <1>1, <1>2, <1>3 DEF Orderly

(* A request that is asked, goes on or ends: its tasks stay what they are. *)
LEMMA RequestGoesOn ==
  ASSUME TypeOK, Grows, Orderly, NEW l \in Loads,
         UNCHANGED <<today, task, run>>,
         \A j \in Loads \ {l} : load'[j] = load[j],
         Asks(l)',
         \/ load[l].pc = "idle"
         \/ /\ load'[l].pc # "idle" /\ load'[l].next = load[l].next
            /\ load'[l].list = load[l].list /\ load'[l].kind = load[l].kind
            /\ load'[l].workers = load[l].workers
            /\ load'[l].from = load[l].from /\ load'[l].day = load[l].day
  PROVE  Orderly'
<1>1. \A j \in Loads : Asks(j)'
  BY DEF Orderly, Asks
<1>2. ASSUME NEW k \in Tasks
      PROVE  /\ HasSlice(k)' /\ LeftWhole(k)'
             /\ task[k].state # "unused" =>
                  /\ load'[k[1]].kind = load[k[1]].kind
                  /\ load'[k[1]].from = load[k[1]].from
                  /\ load'[k[1]].day = load[k[1]].day
  <2>1. k[1] \in Loads /\ HasSlice(k) /\ LeftWhole(k)
    BY TaskType DEF Orderly
  <2>2. CASE task[k].state = "unused"
    BY <2>2 DEF HasSlice, LeftWhole
  <2>3. CASE task[k].state # "unused"
    <3>1. /\ load'[k[1]].pc # "idle" /\ load'[k[1]].next = load[k[1]].next
          /\ load'[k[1]].list = load[k[1]].list /\ load'[k[1]].kind = load[k[1]].kind
          /\ load'[k[1]].workers = load[k[1]].workers
          /\ load'[k[1]].from = load[k[1]].from /\ load'[k[1]].day = load[k[1]].day
      BY <2>1, <2>3 DEF HasSlice
    <3>2. HasSlice(k)'
      BY <2>1, <3>1 DEF HasSlice, TaskSlice
    <3>3. LeftWhole(k)'
      <4>1. ASSUME task[k].state = "returned", NEW i \in 1 .. Len(task[k].slice)
            PROVE  Requested(k[1], task[k].slice[i])' \subseteq stored'[task[k].slice[i]]
        <5>1. PICK t \in Tickers : t = task[k].slice[i]
          BY TaskType
        <5>2. Requested(k[1], t)' = Requested(k[1], t)
          BY <3>1 DEF Requested
        <5>3. task'[k].slice[i] = t
          BY <5>1
        <5>4. Requested(k[1], t) \subseteq stored[t]
          BY <2>1, <4>1, <5>1 DEF LeftWhole
        <5> QED
          BY <5>1, <5>2, <5>3, <5>4 DEF Grows
      <4> QED
        BY <4>1 DEF LeftWhole
    <3> QED
      BY <3>1, <3>2, <3>3
  <2> QED
    BY <2>2, <2>3
<1>3. ASSUME NEW w \in Workers PROVE IsAtTask(w)' /\ IsAlone(w)'
  <2>1. CASE run[w].pc = "idle"
    BY <2>1 DEF IsAtTask, IsAlone
  <2>2. CASE run[w].pc # "idle"
    <3>1. run[w].task \in Tasks /\ IsAtTask(w) /\ IsAlone(w)
      BY <2>2, WorkerTask DEF Orderly
    <3>2. task[run[w].task].state # "unused"
      BY <2>2, <3>1 DEF IsAtTask
    <3> QED
      BY <1>2, <2>2, <3>1, <3>2 DEF IsAtTask, IsAlone
  <2> QED
    BY <2>1, <2>2
<1> QED
  BY <1>1, <1>2, <1>3 DEF Orderly

LEMMA AskOrderly ==
  ASSUME TypeOK, TypeOK', Grows, Orderly, NEW l \in Loads, Ask(l)
  PROVE  Orderly'
<1>1. /\ UNCHANGED <<today, task, run>> /\ load[l].pc = "idle"
      /\ load \in [Loads -> Load] /\ today \in Nat
  BY DEF Ask, AskPrices, AskRaises, AskCorporations, TypeOK, LoadsOK, TablesOK, Days
<1>2. \A j \in Loads \ {l} : load'[j] = load[j]
  BY <1>1 DEF Ask, AskPrices, AskRaises, AskCorporations
<1>3. Asks(l)'
  <2>1. CASE \E w \in Asked, from \in Starts : AskPrices(l, w, from)
    BY <1>1, <2>1 DEF AskPrices, Asks
  <2>2. CASE AskRaises(l)
    <3>1. load'[l].day = load[l].day /\ load'[l].kind = load[l].kind
          /\ load'[l].workers = load[l].workers
      BY <1>1, <2>2 DEF AskRaises, Load
    <3> QED
      BY <1>1, <3>1 DEF Asks, Orderly
  <2>3. CASE AskCorporations(l)
    BY <1>1, <2>3 DEF AskCorporations, Asks, IdleLoad
  <2> QED
    BY <2>1, <2>2, <2>3 DEF Ask
<1> QED
  BY <1>1, <1>2, <1>3, RequestGoesOn

LEMMA AnswerOrderly ==
  ASSUME TypeOK, TypeOK', Grows, Orderly, NEW l \in Loads,
         Answer(l) \/ PushRaises(l)
  PROVE  Orderly'
<1>1. UNCHANGED <<today, task, run>> /\ load \in [Loads -> Load]
  BY DEF Answer, PushRaises, TypeOK, LoadsOK
<1>2. \A j \in Loads \ {l} : load'[j] = load[j]
  BY <1>1 DEF Answer, PushRaises
<1>3. /\ load'[l].pc # "idle" /\ load'[l].next = load[l].next
      /\ load'[l].list = load[l].list /\ load'[l].kind = load[l].kind
      /\ load'[l].workers = load[l].workers
      /\ load'[l].from = load[l].from /\ load'[l].day = load[l].day
  BY <1>1 DEF Answer, PushRaises, Load
<1>4. Asks(l)'
  BY <1>1, <1>3 DEF Orderly, Asks
<1> QED
  BY <1>1, <1>2, <1>3, <1>4, RequestGoesOn

LEMMA PushOrderly ==
  ASSUME TypeOK, TypeOK', Grows, Orderly, NEW l \in Loads, Push(l)
  PROVE  Orderly'
<1>a. load[l].next \in Nat
  BY DEF TypeOK, LoadsOK, Load
<1>0. PICK n \in Nat : n = load[l].next
  BY <1>a
<1> DEFINE new == <<l, n>>
<1>1. /\ UNCHANGED <<stored, today, run>> /\ load[l].pc = "push"
      /\ load \in [Loads -> Load] /\ load[l] \in Load
      /\ task \in [Tasks -> Task]
  BY DEF Push, TypeOK, LoadsOK
<1>2. /\ new \in Tasks /\ n \in Nat
      /\ load' = [load EXCEPT ![l] = [load[l] EXCEPT !.next = @ + 1]]
      /\ task' = [task EXCEPT ![new] =
                   [state |-> "queued", shown |-> "PENDING", slice |-> NextSlice(l)]]
  BY <1>0, PushFacts
<1>3. /\ \A j \in Loads \ {l} : load'[j] = load[j]
      /\ load'[l].next = n + 1 /\ load'[l].pc = "push"
      /\ load'[l].list = load[l].list /\ load'[l].kind = load[l].kind
      /\ load'[l].workers = load[l].workers
      /\ load'[l].from = load[l].from /\ load'[l].day = load[l].day
  BY <1>0, <1>1, <1>2 DEF Load
<1>4. \A k \in Tasks \ {new} : task'[k] = task[k]
  BY <1>1, <1>2
<1>5. /\ task'[new].state = "queued"
      /\ task'[new].slice = NextSlice(l)
  BY <1>1, <1>2
<1>6. task[new].state = "unused"
  <2>1. HasSlice(new) /\ new[1] = l /\ new[2] = n
    BY <1>2 DEF Orderly
  <2> QED
    BY <1>0, <1>2, <2>1 DEF HasSlice
<1>7. \A j \in Loads : Asks(j)'
  BY <1>1, <1>3 DEF Orderly, Asks
<1>8. ASSUME NEW k \in Tasks PROVE HasSlice(k)' /\ LeftWhole(k)'
  <2>1. k[1] \in Loads /\ k[2] \in Nat /\ HasSlice(k) /\ LeftWhole(k)
    BY TaskType DEF Orderly
  <2>2. CASE k = new
    <3>1. k[1] = l /\ k[2] = n
      BY <2>2
    <3>2. TaskSlice(l, n)' = NextSlice(l)
      BY <1>0, <1>3 DEF TaskSlice, NextSlice
    <3>3. /\ task'[k].state = "queued" /\ task'[k].slice = NextSlice(l)
      BY <1>5, <2>2
    <3>4. k[2] < load'[k[1]].next /\ load'[k[1]].pc # "idle"
      BY <1>2, <1>3, <3>1
    <3>5. TaskSlice(k[1], k[2])' = NextSlice(l)
      BY <3>1, <3>2 DEF TaskSlice
    <3>6. HasSlice(k)'
      BY <3>3, <3>4, <3>5 DEF HasSlice
    <3>7. LeftWhole(k)'
      BY <3>3 DEF LeftWhole
    <3> QED
      BY <3>6, <3>7
  <2>3. CASE k # new
    <3>1. task'[k] = task[k]
      BY <1>4, <2>3
    <3>2. load[k[1]].next <= load'[k[1]].next /\ load[k[1]].next \in Nat
          /\ load'[k[1]].next \in Nat
      BY <1>0, <1>1, <1>2, <1>3, <2>1 DEF Load
    <3>3. /\ load'[k[1]].list = load[k[1]].list
          /\ load'[k[1]].kind = load[k[1]].kind
          /\ load'[k[1]].workers = load[k[1]].workers
          /\ load'[k[1]].from = load[k[1]].from
          /\ load'[k[1]].day = load[k[1]].day
          /\ load[k[1]].pc # "idle" => load'[k[1]].pc # "idle"
      BY <1>3, <2>1
    <3>4. HasSlice(k)'
      BY <2>1, <3>1, <3>2, <3>3 DEF HasSlice, TaskSlice
    <3>5. LeftWhole(k)'
      BY <1>1, <2>1, <3>1, <3>3 DEF LeftWhole, Requested
    <3> QED
      BY <3>4, <3>5
  <2> QED
    BY <2>2, <2>3
<1>9. ASSUME NEW w \in Workers PROVE IsAtTask(w)' /\ IsAlone(w)'
  <2>1. CASE run[w].pc = "idle"
    BY <1>1, <2>1 DEF IsAtTask, IsAlone
  <2>2. CASE run[w].pc # "idle"
    <3>1. run[w].task \in Tasks /\ IsAtTask(w) /\ IsAlone(w)
      BY <2>2, WorkerTask DEF Orderly
    <3>2. run[w].task # new /\ run[w].task[1] \in Loads
      BY <1>6, <2>2, <3>1, TaskType DEF IsAtTask
    <3>3. task'[run[w].task] = task[run[w].task]
      BY <1>4, <3>1, <3>2
    <3> QED
      BY <1>1, <1>3, <2>2, <3>1, <3>2, <3>3 DEF IsAtTask, IsAlone
  <2> QED
    BY <2>1, <2>2
<1> QED
  BY <1>7, <1>8, <1>9 DEF Orderly

LEMMA TakeOrderly ==
  ASSUME TypeOK, TypeOK', Grows, Orderly, NEW w \in Workers, NEW k \in Tasks,
         Take(w, k)
  PROVE  Orderly'
<1>1. /\ UNCHANGED <<stored, today, load>> /\ run[w].pc = "idle"
      /\ task[k].state = "queued" /\ w \in Loaders
      /\ task \in [Tasks -> Task] /\ run \in [Loaders -> Run]
  BY RunFacts DEF Take, TypeOK, LoadsOK, Loaders
<1>2. /\ \A j \in Tasks \ {k} : task'[j] = task[j]
      /\ task'[k].state = "running" /\ task'[k].slice = task[k].slice
  BY <1>1 DEF Take, Task
<1>3. /\ \A v \in Loaders \ {w} : run'[v] = run[v]
      /\ run'[w].pc = "fetch" /\ run'[w].task = k
      /\ run'[w].kind = load[k[1]].kind /\ run'[w].from = load[k[1]].from
      /\ run'[w].began = today /\ run'[w].list = task[k].slice
  BY <1>1 DEF Take, Begin, IdleRun
<1>4. \A l \in Loads : Asks(l)'
  BY <1>1 DEF Orderly, Asks
<1>5. ASSUME NEW j \in Tasks PROVE HasSlice(j)' /\ LeftWhole(j)'
  <2>1. task'[j].slice = task[j].slice
    BY <1>2
  <2>2. /\ task'[j].state = "returned" => task[j].state = "returned"
        /\ task'[j].state # "unused" => task[j].state # "unused"
    BY <1>1, <1>2
  <2> QED
    BY <1>1, <2>1, <2>2 DEF Orderly, HasSlice, LeftWhole, TaskSlice, Requested
<1>6. \A v \in Workers \ {w} : run[v].pc # "idle" => run[v].task # k
  BY <1>1 DEF Orderly, IsAtTask
<1>7. ASSUME NEW v \in Workers PROVE IsAtTask(v)' /\ IsAlone(v)'
  <2>1. CASE v = w
    <3>1. load[k[1]].day <= today
      BY TaskType DEF Orderly, Asks
    <3>2. IsAtTask(v)'
      BY <1>1, <1>2, <1>3, <2>1, <3>1 DEF IsAtTask
    <3>3. IsAlone(v)'
      BY <1>3, <1>6, <2>1 DEF IsAlone, Loaders
    <3> QED
      BY <3>2, <3>3
  <2>2. CASE v # w
    <3>1. run'[v] = run[v]
      BY <1>3, <2>2 DEF Loaders
    <3>2. run[v].pc # "idle" => task'[run[v].task] = task[run[v].task]
      BY <1>2, <1>6, <2>2, WorkerTask
    <3>3. IsAtTask(v)'
      BY <1>1, <3>1, <3>2 DEF Orderly, IsAtTask
    <3>4. IsAlone(v)'
      BY <1>3, <1>6, <2>2, <3>1 DEF Orderly, IsAlone, Loaders
    <3> QED
      BY <3>3, <3>4
  <2> QED
    BY <2>1, <2>2
<1> QED
  BY <1>4, <1>5, <1>7 DEF Orderly

(* A loader with nothing to do has no task.                                *)
IdleIsFree == \A p \in Loaders : run[p].pc = "idle" => run[p].task = None

LEMMA NextIsFree ==
  ASSUME TypeOK, IdleIsFree, [Next]_vars
  PROVE  IdleIsFree'
<1>0. run \in [Loaders -> Run]
  BY DEF TypeOK, RunsOK
<1>1. CASE UNCHANGED run
  BY <1>1 DEF IdleIsFree
<1>2. ASSUME NEW p \in Loaders, NEW state, NEW shown, End(p, state, shown)
      PROVE  IdleIsFree'
  BY <1>0, <1>2 DEF End, IdleRun, IdleIsFree
<1>3. ASSUME NEW p \in Loaders, NEW k, NEW kind, NEW from, NEW list,
             Begin(p, k, kind, from, list)
      PROVE  IdleIsFree'
  BY <1>0, <1>3 DEF Begin, IdleRun, IdleIsFree
<1>4. ASSUME NEW p \in Loaders, run'[p].pc # "idle",
             \A q \in Loaders \ {p} : run'[q] = run[q]
      PROVE  IdleIsFree'
  BY <1>4 DEF IdleIsFree
<1>5. CASE \E l \in Loads : Ask(l) \/ Push(l) \/ Answer(l) \/ PushRaises(l)
  BY <1>1, <1>5 DEF Ask, AskPrices, AskRaises, AskCorporations, Push, Answer,
     PushRaises
<1>6. CASE \E w \in Workers, k \in Tasks : Take(w, k)
  BY <1>3, <1>6 DEF Take, Loaders
<1>7. CASE NightBegins
  BY <1>3, <1>7 DEF NightBegins, Loaders
<1>8. ASSUME NEW p \in Loaders, Work(p) PROVE IdleIsFree'
  <2>1. CASE Fetch(p) \/ Insert(p) \/ Commit(p) \/ Put(p)
    <3>1. /\ run'[p].pc # "idle"
          /\ \A q \in Loaders \ {p} : run'[q] = run[q]
      BY <1>0, <2>1 DEF Fetch, Insert, Commit, Put, Run
    <3> QED
      BY <1>4, <3>1
  <2>2. CASE Select(p)
    <3>1. /\ run'[p].pc # "idle"
          /\ \A q \in Loaders \ {p} : run'[q] = run[q]
      BY <1>0, <2>2 DEF Select, Run
    <3> QED
      BY <1>4, <3>1
  <2>3. CASE FetchExhausted(p) \/ InsertClashes(p)
    BY <1>2, <2>3 DEF FetchExhausted, InsertClashes
  <2>4. CASE Finish(p)
    BY <1>2, <1>3, <2>4 DEF Finish
  <2> QED
    BY <1>8, <2>1, <2>2, <2>3, <2>4 DEF Work
<1>9. ASSUME NEW p \in Loaders, Fail(p) PROVE IdleIsFree'
  BY <1>2, <1>9 DEF Fail, FetchRaises, CallRaises, Crash
<1>10. CASE Tomorrow \/ Terminated \/ UNCHANGED vars
  BY <1>1, <1>10 DEF Tomorrow, Terminated, vars
<1> QED
  BY <1>5, <1>6, <1>7, <1>8, <1>9, <1>10 DEF Next

(* A worker at the end of its list has done what the request asked.        *)
LEMMA AtItsEnd ==
  ASSUME TypeOK, Orderly, NEW w \in Workers, Kept(w), run[w].pc # "idle",
         run[w].pos > Len(run[w].list), NEW i \in 1 .. Len(run[w].list)
  PROVE  Requested(run[w].task[1], run[w].list[i]) \subseteq stored[run[w].list[i]]
<1>1. /\ w \in Loaders /\ w # Cron
      /\ run[w].task \in Tasks /\ run[w].task[1] \in Loads
  BY WorkerTask, TaskType, LoadAssumption DEF Loaders
<1>2. i \in 1 .. run[w].pos - 1 /\ run[w].list[i] \in Tickers
  BY <1>1, Fields
<1>3. Owed(w, i) \subseteq stored[run[w].list[i]]
  BY <1>2 DEF Kept
<1>4. /\ run[w].kind = load[run[w].task[1]].kind
      /\ run[w].from = load[run[w].task[1]].from
      /\ load[run[w].task[1]].day <= run[w].began
  BY DEF Orderly, IsAtTask
<1>5. load[run[w].task[1]].day \in Nat /\ run[w].began \in Nat
  <2>1. load[run[w].task[1]] \in Load /\ run[w] \in Run
    BY <1>1, RunFacts DEF TypeOK, LoadsOK, RunOK
  <2> QED
    BY <2>1 DEF Load, Run, Days
<1>6. Traded[run[w].list[i]] \subseteq Nat
  BY <1>2, LoadAssumption DEF Days
<1>7. Requested(run[w].task[1], run[w].list[i]) \subseteq Owed(w, i)
  <2>1. CASE run[w].kind = "corporations"
    BY <1>4, <2>1 DEF Requested, Owed
  <2>2. CASE run[w].kind # "corporations"
    <3>1. ASSUME NEW d \in Traded[run[w].list[i]],
                 d <= load[run[w].task[1]].day
          PROVE  d <= run[w].began
      BY <1>4, <1>5, <1>6, <3>1
    <3> QED
      BY <1>1, <1>4, <2>2, <3>1 DEF Requested, Owed, From
  <2> QED
    BY <2>1, <2>2
<1> QED
  BY <1>3, <1>7

(* A loader ends: what its task was to do is there if it returned.         *)
LEMMA EndOrderly ==
  ASSUME TypeOK, TypeOK', Grows, IdleIsFree, Orderly, NEW p \in Loaders,
         NEW state \in Outcomes, NEW shown, End(p, state, shown), load' = load,
         state = "returned" =>
           /\ run[p].pc # "idle"
           /\ p \in Workers => \A i \in 1 .. Len(run[p].list) :
                Requested(run[p].task[1], run[p].list[i]) \subseteq stored[run[p].list[i]]
  PROVE  Orderly'
<1>1. /\ run \in [Loaders -> Run] /\ task \in [Tasks -> Task]
      /\ Workers \subseteq Loaders
  BY RunFacts DEF TypeOK, LoadsOK, Loaders
<1>2. run'[p].pc = "idle" /\ \A q \in Loaders \ {p} : run'[q] = run[q]
  BY <1>1 DEF End, IdleRun
<1>3. CASE run[p].task = None
  <2>1. task' = task
    BY <1>3 DEF End
  <2>2. \A k \in Tasks : SameTask(k)
    BY <2>1 DEF SameTask
  <2>3. \A w \in Workers : SameWork(w)
    BY <1>1, <1>2 DEF SameWork
  <2> QED
    BY <2>2, <2>3, WorkGoesOn
<1>4. CASE run[p].task # None
  <2>1. p \in Workers /\ run[p].pc # "idle" /\ run[p].task \in Tasks
    BY <1>4, RunFacts DEF IdleIsFree, TypeOK, RunsOK, Loaders
  <2>2. PICK k \in Tasks : k = run[p].task
    BY <2>1
  <2>3. /\ task'[k].state = state /\ task'[k].slice = task[k].slice
        /\ \A j \in Tasks \ {k} : task'[j] = task[j]
    BY <1>1, <1>4, <2>2 DEF End, Task
  <2>4. task[k].state = "running" /\ run[p].list = task[k].slice
    BY <2>1, <2>2 DEF Orderly, IsAtTask
  <2>5. \A l \in Loads : Asks(l)'
    <3>1. ASSUME NEW l \in Loads PROVE Asks(l)'
      <4>1. load[l].day \in Nat /\ today \in Nat /\ today' \in Nat
        BY DEF TypeOK, LoadsOK, TablesOK, Load, Days
      <4> QED
        BY <4>1 DEF Orderly, Asks, Grows
    <3> QED
      BY <3>1
  <2>6. ASSUME NEW j \in Tasks PROVE HasSlice(j)' /\ LeftWhole(j)'
    <3>1. /\ task'[j].slice = task[j].slice
          /\ task[j].state = "unused" => task'[j].state = "unused"
      BY <2>3, <2>4
    <3>2. HasSlice(j)'
      BY <3>1 DEF Orderly, HasSlice, TaskSlice
    <3>3. CASE j # k
      <4>1. SameTask(j) /\ load'[j[1]] = load[j[1]] /\ LeftWhole(j)
        BY <2>3, <3>3 DEF SameTask, Orderly
      <4> QED
        BY <3>2, <4>1, StillWhole
    <3>4. CASE j = k
      <4>1. ASSUME task'[j].state = "returned", NEW i \in 1 .. Len(task'[j].slice)
            PROVE  Requested(j[1], task[j].slice[i])' \subseteq stored'[task'[j].slice[i]]
        <5>1. state = "returned" /\ i \in 1 .. Len(run[p].list)
          BY <2>3, <2>4, <3>4, <4>1
        <5>2. PICK t \in Tickers : t = run[p].list[i]
          BY <1>1, <5>1, Fields
        <5>3. Requested(k[1], t) \subseteq stored[t]
          BY <2>1, <2>2, <5>1, <5>2
        <5>4. Requested(k[1], t)' = Requested(k[1], t)
          BY DEF Requested
        <5>5. task'[j].slice[i] = t
          BY <2>3, <2>4, <3>4, <5>2
        <5> QED
          BY <3>4, <5>3, <5>4, <5>5 DEF Grows
      <4> QED
        BY <3>2, <4>1 DEF LeftWhole
    <3> QED
      BY <3>3, <3>4
  <2>7. ASSUME NEW w \in Workers PROVE IsAtTask(w)' /\ IsAlone(w)'
    <3>1. CASE w = p
      BY <1>2, <3>1 DEF IsAtTask, IsAlone
    <3>2. CASE w # p
      <4>1. run'[w] = run[w]
        BY <1>1, <1>2, <3>2
      <4>2. IsAtTask(w) /\ IsAlone(w)
        BY DEF Orderly
      <4>3. IsAtTask(w)'
        <5>1. CASE run[w].pc = "idle"
          BY <4>1, <5>1 DEF IsAtTask
        <5>2. CASE run[w].pc # "idle"
          <6>1. run[w].task \in Tasks /\ run[w].task # k
            BY <2>1, <2>2, <3>2, <4>2, <5>2, WorkerTask DEF IsAlone
          <6>2. task'[run[w].task] = task[run[w].task]
            BY <2>3, <6>1
          <6> QED
            BY <4>1, <4>2, <5>2, <6>2 DEF IsAtTask
        <5> QED
          BY <5>1, <5>2
      <4>4. IsAlone(w)'
        <5>1. ASSUME NEW v \in Workers \ {w}, run'[v].pc # "idle"
              PROVE  run'[v] = run[v]
          BY <1>1, <1>2, <5>1
        <5> QED
          BY <4>1, <4>2, <5>1 DEF IsAlone
      <4> QED
        BY <4>3, <4>4
    <3> QED
      BY <3>1, <3>2
  <2> QED
    BY <2>5, <2>6, <2>7 DEF Orderly
<1> QED
  BY <1>3, <1>4

(* A loader goes on within its list.                                       *)
LEMMA MoveOrderly ==
  ASSUME TypeOK, TypeOK', Grows, Orderly, NEW p \in Loaders,
         Fetch(p) \/ Select(p) \/ Insert(p) \/ Commit(p) \/ Put(p)
  PROVE  Orderly'
<1>1. /\ run \in [Loaders -> Run] /\ task \in [Tasks -> Task]
      /\ Workers \subseteq Loaders
  BY RunFacts DEF TypeOK, LoadsOK, Loaders
<1>2. load' = load
  BY DEF Fetch, Select, Insert, Commit, Put
<1>3. \A k \in Tasks : SameTask(k)
  <2>1. CASE Put(p)
    BY <1>1, <2>1 DEF Put, SameTask, Task
  <2>2. CASE ~Put(p)
    BY <2>2 DEF Fetch, Select, Insert, Commit, SameTask
  <2> QED
    BY <2>1, <2>2
<1>4. /\ run[p].pc # "idle" /\ run'[p].task = run[p].task
      /\ run'[p].list = run[p].list /\ run'[p].kind = run[p].kind
      /\ run'[p].from = run[p].from /\ run'[p].began = run[p].began
      /\ \A q \in Loaders \ {p} : run'[q] = run[q]
  <2>1. CASE Fetch(p) \/ Insert(p) \/ Commit(p) \/ Put(p)
    BY <1>1, <2>1 DEF Fetch, Insert, Commit, Put, Run
  <2>2. CASE Select(p)
    <3>1. PICK d : run' = IF d \in stored[ticker(p)]
                          THEN [run EXCEPT ![p].todo = @ \ {d}]
                          ELSE [run EXCEPT ![p].pc = "insert", ![p].day = d]
      BY <2>2 DEF Select
    <3>2. run[p].pc # "idle" /\ run[p] \in Run
      BY <1>1, <2>2 DEF Select
    <3>3. CASE run' = [run EXCEPT ![p].todo = @ \ {d}]
      BY <1>1, <3>2, <3>3 DEF Run
    <3>4. CASE run' = [run EXCEPT ![p].pc = "insert", ![p].day = d]
      BY <1>1, <3>2, <3>4 DEF Run
    <3> QED
      BY <3>1, <3>3, <3>4
  <2> QED
    BY <2>1, <2>2
<1>5. \A w \in Workers : SameWork(w)
  BY <1>1, <1>4 DEF SameWork
<1> QED
  BY <1>2, <1>3, <1>5, WorkGoesOn

(* The night's own work is no task.                                        *)
LEMMA NightOrderly ==
  ASSUME TypeOK, TypeOK', Grows, Orderly, NEW k, NEW kind, NEW from, NEW list,
         Begin(Cron, k, kind, from, list), task' = task, load' = load
  PROVE  Orderly'
<1>1. \A j \in Tasks : SameTask(j)
  BY DEF SameTask
<1>2. \A w \in Workers : run'[w] = run[w]
  BY LoadAssumption DEF Begin, TypeOK, RunsOK, Loaders
<1>3. \A w \in Workers : SameWork(w)
  BY <1>2 DEF SameWork
<1> QED
  BY <1>1, <1>3, WorkGoesOn

LEMMA FinishOrderly ==
  ASSUME TypeOK, TypeOK', Grows, IdleIsFree, NoHole, Orderly,
         NEW p \in Loaders, Finish(p)
  PROVE  Orderly'
<1>1. run[p].pc = "fetch" /\ run[p].pos > Len(run[p].list) /\ load' = load
  BY DEF Finish
<1>2. CASE p = Cron /\ run[p].kind = "corporations"
  BY <1>1, <1>2, NightOrderly DEF Finish
<1>3. CASE ~(p = Cron /\ run[p].kind = "corporations")
  <2>1. End(p, "returned", "SUCCESS") /\ "returned" \in Outcomes
    BY <1>3 DEF Finish, Outcomes
  <2>2. ASSUME p \in Workers, NEW i \in 1 .. Len(run[p].list)
        PROVE  Requested(run[p].task[1], run[p].list[i]) \subseteq stored[run[p].list[i]]
    BY <1>1, <2>2, AtItsEnd DEF NoHole
  <2> QED
    BY <1>1, <2>1, <2>2, EndOrderly
<1> QED
  BY <1>2, <1>3

LEMMA NextOrderly ==
  ASSUME TypeOK, TypeOK', Grows, IdleIsFree, NoHole, Orderly, [Next]_vars
  PROVE  Orderly'
<1>1. CASE UNCHANGED <<load, task, run>>
  BY <1>1, WorkGoesOn DEF SameTask, SameWork
<1>2. ASSUME NEW l \in Loads, Ask(l) \/ Push(l) \/ Answer(l) \/ PushRaises(l)
      PROVE  Orderly'
  BY <1>2, AskOrderly, PushOrderly, AnswerOrderly
<1>3. ASSUME NEW w \in Workers, NEW k \in Tasks, Take(w, k) PROVE Orderly'
  BY <1>3, TakeOrderly
<1>4. CASE NightBegins
  BY <1>4, NightOrderly DEF NightBegins
<1>5. ASSUME NEW p \in Loaders, NEW state \in Outcomes, NEW shown,
             state # "returned", End(p, state, shown), load' = load
      PROVE  Orderly'
  BY <1>5, EndOrderly
<1>6. ASSUME NEW p \in Loaders, Work(p) PROVE Orderly'
  <2>1. CASE FetchExhausted(p) \/ InsertClashes(p)
    BY <1>5, <2>1 DEF FetchExhausted, InsertClashes, Outcomes
  <2> QED
    BY <1>6, <2>1, MoveOrderly, FinishOrderly DEF Work
<1>7. ASSUME NEW p \in Loaders, Fail(p) PROVE Orderly'
  BY <1>5, <1>7 DEF Fail, FetchRaises, CallRaises, Crash, Outcomes
<1>8. CASE Tomorrow \/ Terminated \/ UNCHANGED vars
  BY <1>1, <1>8 DEF Tomorrow, Terminated, vars
<1> QED
  BY <1>2, <1>3, <1>4, <1>6, <1>7, <1>8 DEF Next

LEMMA InitOrderly == Init => IdleIsFree /\ Orderly
<1> SUFFICES ASSUME Init PROVE IdleIsFree /\ Orderly
  OBVIOUS
<1>1. IdleIsFree
  BY DEF Init, IdleRun, IdleIsFree
<1>2. \A l \in Loads : Asks(l)
  BY DEF Init, IdleLoad, Asks
<1>3. \A k \in Tasks : HasSlice(k) /\ LeftWhole(k)
  BY DEF Init, UnusedTask, HasSlice, LeftWhole
<1>4. \A w \in Workers : IsAtTask(w) /\ IsAlone(w)
  BY DEF Init, IdleRun, IsAtTask, IsAlone, Loaders
<1> QED
  BY <1>1, <1>2, <1>3, <1>4 DEF Orderly

(* The slices of a request that succeeded are the whole of its list.       *)
LEMMA OrderlyIsWhole == TypeOK /\ Orderly => LoadIsWhole
<1> SUFFICES ASSUME TypeOK, Orderly, NEW l \in Loads, Succeeded(l),
                    NEW j \in 1 .. Len(load[l].list)
             PROVE  Requested(l, load[l].list[j]) \subseteq stored[load[l].list[j]]
  BY DEF LoadIsWhole
<1>1. /\ load[l] \in Load /\ load[l].workers \in Nat \ {0}
      /\ load[l].workers <= MaxTasks /\ load[l].list \in Seq(Tickers)
  <2>1. load[l] \in Load /\ load[l].workers <= MaxTasks /\ load[l].workers >= 1
    BY DEF TypeOK, LoadsOK, Succeeded
  <2>2. load[l].workers \in Asked \union {0, 1} /\ load[l].list \in Seq(Tickers)
    BY <2>1 DEF Load
  <2>3. load[l].workers \in Int
    <3>1. Asked \union {0, 1} \subseteq Int
      BY LoadAssumption
    <3> QED
      BY <2>2, <3>1
  <2> QED
    BY <2>1, <2>2, <2>3
<1>2. ASSUME NEW i \in 0 .. load[l].workers - 1
      PROVE  /\ task[<<l, i>>].slice = TaskSlice(l, i)
             /\ \A m \in 1 .. Len(TaskSlice(l, i)) :
                  Requested(l, TaskSlice(l, i)[m]) \subseteq stored[TaskSlice(l, i)[m]]
  <2> DEFINE k == <<l, i>>
  <2>1. k \in Tasks /\ k[1] = l /\ k[2] = i
    BY <1>1, LoadAssumption DEF Tasks
  <2>2. task[k].state = "returned"
    BY DEF Succeeded
  <2>3. HasSlice(k) /\ LeftWhole(k)
    BY <2>1 DEF Orderly
  <2> QED
    BY <2>1, <2>2, <2>3 DEF HasSlice, LeftWhole
<1>3. \E i \in 0 .. load[l].workers - 1 : \E m \in 1 .. Len(TaskSlice(l, i)) :
        TaskSlice(l, i)[m] = load[l].list[j]
  <2>1. CASE load[l].kind = "prices"
    <3>1. \E i \in 0 .. load[l].workers - 1 :
            \E m \in 1 .. Len(Slice(load[l].list, load[l].workers, i)) :
              Slice(load[l].list, load[l].workers, i)[m] = load[l].list[j]
      BY <1>1, SlicesCover
    <3> QED
      BY <2>1, <3>1 DEF TaskSlice
  <2>2. CASE load[l].kind # "prices"
    <3>1. 0 \in 0 .. load[l].workers - 1 /\ TaskSlice(l, 0) = load[l].list
      BY <1>1, <2>2 DEF TaskSlice
    <3> QED
      BY <3>1
  <2> QED
    BY <2>1, <2>2
<1> QED
  BY <1>2, <1>3

(* When every task of a request has returned, every ticker it was about    *)
(* has every price that was asked for: no ticker falls between two slices, *)
(* whatever the number of workers, and no row between two writers.         *)
THEOREM LoadsAreWhole == Spec => []LoadIsWhole
<1> DEFINE Inv == TypeOK /\ IdleIsFree /\ NoHole /\ Orderly
<1>1. Init => Inv
  BY InitType, InitKept, InitOrderly
<1>2. Inv /\ [Next]_vars => Inv'
  <2> SUFFICES ASSUME Inv, [Next]_vars PROVE Inv'
    OBVIOUS
  <2>1. TypeOK' /\ Grows
    BY NextType, NextGrows
  <2> QED
    BY <2>1, NextIsFree, NextKept, NextOrderly
<1>3. Inv => LoadIsWhole
  BY OrderlyIsWhole
<1> QED
  BY <1>1, <1>2, <1>3, PTL DEF Spec


-----------------------------------------------------------------------------
(* The slices of one request do not get into each other's way              *)

NoRepeats(list) == \A x, y \in 1 .. Len(list) : list[x] = list[y] => x = y

(* Where the items of a slice are in the list.                             *)
LEMMA SlicePlace ==
  ASSUME NEW list \in Seq(Tickers), NEW w \in Nat \ {0}, NEW i \in Nat,
         NEW m \in 1 .. Len(Slice(list, w, i))
  PROVE  \E x \in 1 .. Len(list) :
           /\ Slice(list, w, i)[m] = list[x]
           /\ (Len(list) \div w + 1) * i < x
           /\ x <= (Len(list) \div w + 1) * (i + 1)
<1> DEFINE n    == Len(list)
           size == n \div w + 1
           a    == size * i
           b    == size * (i + 1)
<1>1. n \in Nat /\ size \in Nat \ {0}
  BY Division
<1> HIDE DEF size
<1>2. a \in Nat /\ b \in Nat /\ b = a + size
  BY <1>1
<1>3. Slice(list, w, i) = IF b > n THEN SubSeq(list, a + 1, n)
                                   ELSE SubSeq(list, a + 1, b)
  BY DEF Slice, size
<1> HIDE DEF a, b
<1>4. CASE b > n
  <2>1. m \in Nat /\ 1 <= m /\ a + m <= n /\ Slice(list, w, i)[m] = list[a + m]
    BY <1>1, <1>2, <1>3, <1>4
  <2>2. a + m \in 1 .. n /\ a < a + m /\ a + m <= b
    BY <1>1, <1>2, <1>4, <2>1
  <2> QED
    BY <2>1, <2>2 DEF a, b, size
<1>5. CASE ~(b > n)
  <2>1. m \in Nat /\ 1 <= m /\ a + m <= b /\ Slice(list, w, i)[m] = list[a + m]
    BY <1>1, <1>2, <1>3, <1>5
  <2>2. a + m \in 1 .. n /\ a < a + m /\ a + m <= b
    BY <1>1, <1>2, <1>5, <2>1
  <2> QED
    BY <2>1, <2>2 DEF a, b, size
<1> QED
  BY <1>4, <1>5

(* No ticker of a list without repeats is in two of its slices.            *)
LEMMA SlicesApart ==
  ASSUME NEW list \in Seq(Tickers), NoRepeats(list), NEW w \in Nat \ {0},
         NEW i \in Nat, NEW j \in Nat, i < j,
         NEW m \in 1 .. Len(Slice(list, w, i)),
         NEW n \in 1 .. Len(Slice(list, w, j))
  PROVE  Slice(list, w, i)[m] # Slice(list, w, j)[n]
<1> DEFINE size == Len(list) \div w + 1
<1>1. size \in Nat
  BY Division
<1>2. PICK x \in 1 .. Len(list) :
        Slice(list, w, i)[m] = list[x] /\ x <= size * (i + 1)
  BY SlicePlace
<1>3. PICK y \in 1 .. Len(list) :
        Slice(list, w, j)[n] = list[y] /\ size * j < y
  BY SlicePlace
<1> HIDE DEF size
<1>4. size * (i + 1) <= size * j /\ size * (i + 1) \in Nat /\ size * j \in Nat
  <2>1. i + 1 \in Nat /\ i + 1 <= j
    OBVIOUS
  <2> QED
    BY <1>1, <2>1, ProductMonotone
<1>5. x \in Nat /\ y \in Nat /\ x < y
  <2>1. x \in Nat /\ y \in Nat
    OBVIOUS
  <2> QED
    BY <1>2, <1>3, <1>4, <2>1
<1>6. x # y
  BY <1>5
<1> QED
  BY <1>2, <1>3, <1>6 DEF NoRepeats

(* Request l is the only work there has been.                              *)
Alone(l) == nights = 0 /\ \A m \in Loads \ {l} : load[m].pc = "idle"

(* The list of prices to load has no ticker twice, and a request queues no *)
(* more tasks than it was asked to.                                        *)
Plain(l) ==
  /\ load[l].next = 0 \/ load[l].next <= load[l].workers
  /\ load[l].kind = "prices" => NoRepeats(load[l].list)

(* What a worker is about to insert is not there unless others are at work.*)
Fresh(w) ==
  run[w].pc \in {"insert", "commit"} /\ Alone(run[w].task[1]) =>
    run[w].day \notin stored[ticker(w)]

ClashIsForeign(k) == task[k].state = "clash" => ~Alone(k[1])

Apart ==
  /\ nights = 0 => run[Cron].pc = "idle"
  /\ \A l \in Loads : Plain(l)
  /\ \A w \in Workers : Fresh(w)
  /\ \A k \in Tasks : ClashIsForeign(k)

LEMMA Counts ==
  ASSUME TypeOK
  PROVE  nights \in Nat /\ load \in [Loads -> Load]
BY LoadAssumption DEF TypeOK, CountsOK, LoadsOK

(* A task that is not alone is never alone again.                          *)
LEMMA AloneWas ==
  ASSUME TypeOK, TypeOK', [Next]_vars, NEW l \in Loads, Alone(l)'
  PROVE  Alone(l)
<1>0. nights \in Nat /\ nights' \in Nat /\ load \in [Loads -> Load]
  BY Counts DEF TypeOK, CountsOK, LoadAssumption
<1>1. CASE UNCHANGED <<nights, load>>
  BY <1>1 DEF Alone
<1>2. ASSUME NEW j \in Loads, Ask(j) \/ Push(j) \/ Answer(j) \/ PushRaises(j)
      PROVE  Alone(l)
  <2>1. nights' = nights /\ \A m \in Loads \ {j} : load'[m] = load[m]
    BY <1>0, <1>2 DEF Ask, AskPrices, AskRaises, AskCorporations, Push, Answer,
       PushRaises
  <2>2. load'[j].pc # "idle"
    <3>1. load[j] \in Load
      BY <1>0
    <3>2. CASE AskRaises(j) \/ Answer(j) \/ PushRaises(j)
      BY <1>0, <3>1, <3>2 DEF AskRaises, Answer, PushRaises, Load
    <3>3. CASE AskCorporations(j)
      BY <1>0, <3>3 DEF AskCorporations, IdleLoad
    <3>4. CASE \E w \in Asked, from \in Starts : AskPrices(j, w, from)
      BY <1>0, <3>4 DEF AskPrices
    <3>5. CASE Push(j)
      BY <1>0, <3>1, <3>5 DEF Push, Load
    <3> QED
      BY <1>2, <3>2, <3>3, <3>4, <3>5 DEF Ask
  <2> QED
    BY <2>1, <2>2 DEF Alone
<1>3. CASE NightBegins
  BY <1>0, <1>3 DEF NightBegins, Alone
<1>4. CASE \E w \in Workers, k \in Tasks : Take(w, k)
  BY <1>1, <1>4 DEF Take
<1>5. ASSUME NEW p \in Loaders, Work(p) PROVE Alone(l)
  BY <1>1, <1>5 DEF Work, Fetch, FetchExhausted, Select, Insert, InsertClashes,
     Commit, Put, Finish
<1>6. ASSUME NEW p \in Loaders, Fail(p) PROVE Alone(l)
  BY <1>1, <1>6 DEF Fail, FetchRaises, CallRaises, Crash
<1>7. CASE Tomorrow \/ Terminated \/ UNCHANGED vars
  BY <1>1, <1>7 DEF Tomorrow, Terminated, vars
<1> QED
  BY <1>2, <1>3, <1>4, <1>5, <1>6, <1>7 DEF Next

(* Two workers, both at work for one request, are at different tickers.    *)
LEMMA DifferentTickers ==
  ASSUME TypeOK, Orderly, Apart, NEW v \in Workers, NEW w \in Workers, v # w,
         run[v].pc # "idle", run[w].pc # "idle",
         NEW l \in Loads, Alone(l), run[v].task[1] = l,
         NEW m \in 1 .. Len(run[v].list), NEW n \in 1 .. Len(run[w].list)
  PROVE  run[v].list[m] # run[w].list[n]
<1>1. PICK j \in Tasks : j = run[v].task
  BY WorkerTask
<1>2. PICK k \in Tasks : k = run[w].task
  BY WorkerTask
<1>3. j # k
  BY <1>1, <1>2 DEF Orderly, IsAlone
<1>4. /\ task[j].state = "running" /\ run[v].list = task[j].slice
      /\ task[k].state = "running" /\ run[w].list = task[k].slice
  BY <1>1, <1>2 DEF Orderly, IsAtTask
<1>5. /\ load[j[1]].pc # "idle" /\ j[2] < load[j[1]].next
      /\ task[j].slice = TaskSlice(j[1], j[2])
      /\ load[k[1]].pc # "idle" /\ k[2] < load[k[1]].next
      /\ task[k].slice = TaskSlice(k[1], k[2])
  BY <1>4 DEF Orderly, HasSlice
<1>6. /\ j[1] \in Loads /\ j[2] \in Nat /\ j = <<j[1], j[2]>>
      /\ k[1] \in Loads /\ k[2] \in Nat /\ k = <<k[1], k[2]>>
  BY TaskType
<1>7. j[1] = l /\ k[1] = l
  BY <1>1, <1>5, <1>6 DEF Alone
<1>8. j[2] # k[2]
  BY <1>3, <1>6, <1>7
<1>9. load[l] \in Load
  BY Counts
<1>10. /\ load[l].next \in Nat /\ load[l].workers \in Int
       /\ load[l].list \in Seq(Tickers)
  <2>1. /\ load[l].next \in 0 .. MaxTasks /\ load[l].list \in Seq(Tickers)
        /\ load[l].workers \in Asked \union {0, 1}
    BY <1>9 DEF Load
  <2>2. Asked \union {0, 1} \subseteq Int /\ 0 .. MaxTasks \subseteq Nat
    BY LoadAssumption
  <2> QED
    BY <2>1, <2>2
<1>11. /\ load[l].next <= load[l].workers
       /\ j[2] < load[l].workers /\ k[2] < load[l].workers
       /\ load[l].workers \in Nat \ {0}
  <2>1. load[l].next # 0 /\ Plain(l)
    BY <1>5, <1>6, <1>7, <1>10 DEF Apart
  <2>2. load[l].next <= load[l].workers
    BY <2>1 DEF Plain
  <2> QED
    BY <1>5, <1>6, <1>7, <1>10, <2>2
<1>12. load[l].kind = "prices"
  <2>1. CASE load[l].workers = 1
    BY <1>6, <1>8, <1>11, <2>1
  <2>2. CASE load[l].workers # 1
    BY <1>9, <2>2 DEF Orderly, Asks, Load, Kinds
  <2> QED
    BY <2>1, <2>2
<1>13. NoRepeats(load[l].list)
  BY <1>12 DEF Apart, Plain
<1>14. /\ run[v].list = Slice(load[l].list, load[l].workers, j[2])
       /\ run[w].list = Slice(load[l].list, load[l].workers, k[2])
  BY <1>4, <1>5, <1>7, <1>12 DEF TaskSlice
<1>15. CASE j[2] < k[2]
  BY <1>6, <1>10, <1>11, <1>13, <1>14, <1>15, SlicesApart
<1>16. CASE k[2] < j[2]
  BY <1>6, <1>10, <1>11, <1>13, <1>14, <1>16, SlicesApart
<1> QED
  BY <1>6, <1>8, <1>15, <1>16


LEMMA OrdersNoRepeats ==
  ASSUME TypeOK, NEW o \in Orders(known)
  PROVE  NoRepeats(o)
<1>1. o \in Seq(Tickers)
  BY OrdersType DEF TypeOK
<1>2. DOMAIN o = 1 .. Len(o)
  BY <1>1
<1> QED
  BY <1>2 DEF Orders, NoRepeats

LEMMA NextPlain ==
  ASSUME TypeOK, Apart, [Next]_vars, NEW l \in Loads
  PROVE  Plain(l)'
<1>1. load[l] \in Load /\ load \in [Loads -> Load] /\ Plain(l)
  BY Counts DEF Apart
<1>2. CASE load'[l] = load[l]
  BY <1>1, <1>2 DEF Plain
<1>3. CASE AskRaises(l) \/ Answer(l) \/ PushRaises(l)
  <2>1. /\ load'[l].next = load[l].next /\ load'[l].kind = load[l].kind
        /\ load'[l].workers = load[l].workers /\ load'[l].list = load[l].list
    BY <1>1, <1>3 DEF AskRaises, Answer, PushRaises, Load
  <2> QED
    BY <1>1, <2>1 DEF Plain
<1>4. CASE AskCorporations(l)
  <2>1. load'[l].next = 0 /\ load'[l].kind = "corporations"
    BY <1>1, <1>4 DEF AskCorporations, IdleLoad
  <2> QED
    BY <2>1 DEF Plain
<1>5. CASE \E w \in Asked, from \in Starts : AskPrices(l, w, from)
  <2>1. PICK w \in Asked, from \in Starts : AskPrices(l, w, from)
    BY <1>5
  <2>2. PICK list \in Orders(known) :
          load' = [load EXCEPT ![l] =
            [pc |-> IF w = 0 THEN "raised" ELSE "push", kind |-> "prices",
             workers |-> w, from |-> from, day |-> today, list |-> list,
             next |-> 0]]
    BY <2>1 DEF AskPrices
  <2>3. load'[l].next = 0 /\ load'[l].list = list
    BY <1>1, <2>2
  <2> QED
    BY <2>3, OrdersNoRepeats DEF Plain
<1>6. CASE Push(l)
  <2>1. /\ load[l].workers \in Nat /\ load[l].next \in 0 .. load[l].workers - 1
        /\ load' = [load EXCEPT ![l] = [load[l] EXCEPT !.next = @ + 1]]
    BY <1>6, PushFacts
  <2>2. /\ load'[l].next = load[l].next + 1 /\ load'[l].kind = load[l].kind
        /\ load'[l].workers = load[l].workers /\ load'[l].list = load[l].list
    BY <1>1, <2>1 DEF Load
  <2>3. load'[l].next <= load'[l].workers
    BY <2>1, <2>2
  <2> QED
    BY <1>1, <2>2, <2>3 DEF Plain
<1>7. ASSUME NEW j \in Loads, Ask(j) \/ Push(j) \/ Answer(j) \/ PushRaises(j)
      PROVE  Plain(l)'
  <2>1. CASE j = l
    BY <1>3, <1>4, <1>5, <1>6, <1>7, <2>1 DEF Ask
  <2>2. CASE j # l
    BY <1>1, <1>2, <1>7, <2>2 DEF Ask, AskPrices, AskRaises, AskCorporations,
       Push, Answer, PushRaises
  <2> QED
    BY <2>1, <2>2
<1>8. CASE NightBegins \/ \E w \in Workers, k \in Tasks : Take(w, k)
  BY <1>2, <1>8 DEF NightBegins, Take
<1>9. ASSUME NEW p \in Loaders, Work(p) \/ Fail(p) PROVE Plain(l)'
  BY <1>2, <1>9 DEF Work, Fetch, FetchExhausted, Select, Insert, InsertClashes,
     Commit, Put, Finish, Fail, FetchRaises, CallRaises, Crash
<1>10. CASE Tomorrow \/ Terminated \/ UNCHANGED vars
  BY <1>2, <1>10 DEF Tomorrow, Terminated, vars
<1> QED
  BY <1>7, <1>8, <1>9, <1>10 DEF Next

(* Before the first night the nightly process has nothing to do.           *)
LEMMA NextRests ==
  ASSUME TypeOK, TypeOK', Apart, [Next]_vars, nights' = 0
  PROVE  run'[Cron].pc = "idle"
<1>1. run \in [Loaders -> Run] /\ Cron \in Loaders /\ Cron \notin Workers
  BY LoadAssumption DEF TypeOK, RunsOK, Loaders
<1>2. nights \in Nat
  BY Counts
<1>3. nights = nights' => run[Cron].pc = "idle"
  BY DEF Apart
<1>4. CASE UNCHANGED <<run, nights>>
  BY <1>3, <1>4
<1>5. CASE \E l \in Loads : Ask(l) \/ Push(l) \/ Answer(l) \/ PushRaises(l)
  BY <1>4, <1>5 DEF Ask, AskPrices, AskRaises, AskCorporations, Push, Answer,
     PushRaises
<1>6. ASSUME NEW w \in Workers, NEW k \in Tasks, Take(w, k)
      PROVE  run'[Cron].pc = "idle"
  BY <1>1, <1>3, <1>6 DEF Take, Begin
<1>7. CASE NightBegins
  BY <1>2, <1>7 DEF NightBegins
<1>8. ASSUME NEW p \in Loaders, Work(p) PROVE run'[Cron].pc = "idle"
  <2>1. nights' = nights
    BY <1>8 DEF Work, Fetch, FetchExhausted, Select, Insert, InsertClashes,
       Commit, Put, Finish
  <2>2. p # Cron
    BY <1>3, <1>8, <2>1 DEF Work, Fetch, FetchExhausted, Select, Insert,
       InsertClashes, Commit, Put, Finish
  <2>3. run'[Cron] = run[Cron]
    BY <1>1, <1>8, <2>2 DEF Work, Fetch, FetchExhausted, Select, Insert,
       InsertClashes, Commit, Put, Finish, End
  <2> QED
    BY <1>3, <2>1, <2>3
<1>9. ASSUME NEW p \in Loaders, Fail(p) PROVE run'[Cron].pc = "idle"
  <2>1. nights' = nights /\ \E state, shown : End(p, state, shown)
    BY <1>9 DEF Fail, FetchRaises, CallRaises, Crash
  <2>2. run' = [run EXCEPT ![p] = IdleRun]
    BY <2>1 DEF End
  <2> QED
    BY <1>1, <1>3, <2>1, <2>2 DEF IdleRun
<1>10. CASE Tomorrow \/ Terminated \/ UNCHANGED vars
  BY <1>4, <1>10 DEF Tomorrow, Terminated, vars
<1> QED
  BY <1>5, <1>6, <1>7, <1>8, <1>9, <1>10 DEF Next

(* An insert that clashes was not alone.                                   *)
LEMMA NextClash ==
  ASSUME TypeOK, TypeOK', IdleIsFree, Apart, [Next]_vars, NEW k \in Tasks
  PROVE  ClashIsForeign(k)'
<1>1. /\ task \in [Tasks -> Task] /\ run \in [Loaders -> Run]
      /\ k[1] \in Loads
  BY TaskType, RunFacts DEF TypeOK, RunsOK, LoadsOK
<1>2. CASE task'[k].state # "clash"
  BY <1>2 DEF ClashIsForeign
<1>3. CASE task[k].state = "clash"
  <2>1. ~Alone(k[1])
    BY <1>3 DEF Apart, ClashIsForeign
  <2> QED
    BY <1>1, <2>1, AloneWas DEF ClashIsForeign
<1>4. ASSUME NEW p \in Loaders, NEW state, NEW shown, state # "clash",
             End(p, state, shown)
      PROVE  task'[k].state = "clash" => task[k].state = "clash"
  BY <1>1, <1>4 DEF End, Task
<1>5. CASE UNCHANGED task
  BY <1>2, <1>3, <1>5
<1>6. ASSUME NEW l \in Loads, Ask(l) \/ Push(l) \/ Answer(l) \/ PushRaises(l)
      PROVE  ClashIsForeign(k)'
  <2>1. CASE Push(l)
    <3>1. /\ task' = [task EXCEPT ![<<l, load[l].next>>] =
                         [state |-> "queued", shown |-> "PENDING",
                          slice |-> NextSlice(l)]]
          /\ <<l, load[l].next>> \in Tasks
      BY <2>1, PushFacts
    <3>2. task'[k] = task[k] \/ task'[k].state = "queued"
      BY <1>1, <3>1
    <3> QED
      BY <1>2, <1>3, <3>2
  <2>2. CASE ~Push(l)
    BY <1>5, <1>6, <2>2 DEF Ask, AskPrices, AskRaises, AskCorporations, Answer,
       PushRaises
  <2> QED
    BY <2>1, <2>2
<1>7. ASSUME NEW w \in Workers, NEW j \in Tasks, Take(w, j)
      PROVE  ClashIsForeign(k)'
  <2>1. task' = [task EXCEPT ![j].state = "running"]
    BY <1>7 DEF Take
  <2>2. task'[k] = task[k] \/ task'[k].state = "running"
    BY <1>1, <2>1 DEF Task
  <2> QED
    BY <1>2, <1>3, <2>2
<1>8. CASE NightBegins
  BY <1>5, <1>8 DEF NightBegins
<1>9. ASSUME NEW p \in Loaders, InsertClashes(p) PROVE ClashIsForeign(k)'
  <2>1. CASE k # run[p].task
    <3>1. task'[k] = task[k]
      BY <1>1, <1>9, <2>1 DEF InsertClashes, End
    <3> QED
      BY <1>2, <1>3, <3>1
  <2>2. CASE k = run[p].task
    <3>1. p \in Workers
      BY <2>2, NoneAssumption, RunFacts DEF RunOK, Loaders
    <3>2. /\ run[p].pc = "insert" /\ run[p].day \in stored[ticker(p)]
          /\ nights' = nights /\ load' = load
      BY <1>9 DEF InsertClashes
    <3>3. ~Alone(k[1])
      BY <2>2, <3>1, <3>2 DEF Apart, Fresh
    <3> QED
      BY <3>2, <3>3 DEF ClashIsForeign, Alone
  <2> QED
    BY <2>1, <2>2
<1>10. ASSUME NEW p \in Loaders, Put(p) PROVE ClashIsForeign(k)'
  <2>1. task'[k].state = task[k].state
    BY <1>1, <1>10 DEF Put, Task
  <2> QED
    BY <1>2, <1>3, <2>1
<1>11. ASSUME NEW p \in Loaders, Work(p) PROVE ClashIsForeign(k)'
  <2>1. CASE Fetch(p) \/ Select(p) \/ Insert(p) \/ Commit(p)
    BY <1>5, <2>1 DEF Fetch, Select, Insert, Commit
  <2>2. CASE FetchExhausted(p)
    BY <1>2, <1>3, <1>4, <2>2 DEF FetchExhausted
  <2>3. CASE Finish(p)
    <3>1. CASE p = Cron /\ run[p].kind = "corporations"
      BY <1>5, <2>3, <3>1 DEF Finish
    <3>2. CASE ~(p = Cron /\ run[p].kind = "corporations")
      BY <1>2, <1>3, <1>4, <2>3, <3>2 DEF Finish
    <3> QED
      BY <3>1, <3>2
  <2> QED
    BY <1>9, <1>10, <1>11, <2>1, <2>2, <2>3 DEF Work
<1>12. ASSUME NEW p \in Loaders, Fail(p) PROVE ClashIsForeign(k)'
  <2>1. \E state, shown : state # "clash" /\ End(p, state, shown)
    BY <1>12 DEF Fail, FetchRaises, CallRaises, Crash
  <2> QED
    BY <1>2, <1>3, <1>4, <2>1
<1>13. CASE Tomorrow \/ Terminated \/ UNCHANGED vars
  BY <1>5, <1>13 DEF Tomorrow, Terminated, vars
<1> QED
  BY <1>6, <1>7, <1>8, <1>11, <1>12, <1>13 DEF Next

(* A row appears only when a loader commits it.                            *)
LEMMA RowsComeByCommit ==
  ASSUME TypeOK, [Next]_vars, NEW t \in Tickers, NEW d, d \notin stored[t],
         d \in stored'[t]
  PROVE  \E p \in Loaders :
           /\ run[p].pc = "commit" /\ ticker(p) = t
           /\ Commit(p) \/ CallRaises(p)
<1>1. stored \in [Tickers -> SUBSET (Days \union {Entry})]
  BY DEF TypeOK, TablesOK
<1>2. stored' # stored
  OBVIOUS
<1>3. ASSUME NEW p \in Loaders,
             stored' = [stored EXCEPT ![ticker(p)] = @ \union {run[p].day}]
      PROVE  ticker(p) = t
  BY <1>1, <1>3
<1>4. ASSUME NEW p \in Loaders, Work(p) \/ Fail(p)
      PROVE  run[p].pc = "commit" /\ ticker(p) = t /\ (Commit(p) \/ CallRaises(p))
  <2>1. CASE Commit(p)
    BY <1>3, <2>1 DEF Commit
  <2>2. CASE CallRaises(p)
    BY <1>2, <1>3, <2>2 DEF CallRaises
  <2> QED
    BY <1>2, <1>4, <2>1, <2>2 DEF Work, Fetch, FetchExhausted, Select, Insert,
       InsertClashes, Put, Finish, Fail, FetchRaises, Crash
<1>5. CASE \E l \in Loads : Ask(l) \/ Push(l) \/ Answer(l) \/ PushRaises(l)
  BY <1>2, <1>5 DEF Ask, AskPrices, AskRaises, AskCorporations, Push, Answer,
     PushRaises
<1>6. CASE NightBegins \/ \E w \in Workers, k \in Tasks : Take(w, k)
  BY <1>2, <1>6 DEF NightBegins, Take
<1>7. CASE Tomorrow \/ Terminated \/ UNCHANGED vars
  BY <1>2, <1>7 DEF Tomorrow, Terminated, vars
<1> QED
  BY <1>4, <1>5, <1>6, <1>7 DEF Next


(* A loader comes to an insert by a select that does not find the row, and *)
(* goes on with the same row.                                              *)
LEMMA InsertsComeBySelect ==
  ASSUME TypeOK, [Next]_vars, NEW w \in Loaders,
         run'[w].pc \in {"insert", "commit"}
  PROVE  /\ run'[w].task = run[w].task
         /\ ticker(w)' = ticker(w)
         /\ run[w].pc # "idle"
         /\ \/ stored' = stored /\ run'[w].day \notin stored[ticker(w)]
            \/ run[w].pc \in {"insert", "commit"} /\ run'[w].day = run[w].day
<1>0. run \in [Loaders -> Run] /\ run[w] \in Run
  BY RunFacts
<1>1. CASE run'[w] = run[w]
  BY <1>1 DEF ticker
<1>2. ASSUME NEW p \in Loaders, NEW state, NEW shown, End(p, state, shown)
      PROVE  run'[w] = run[w]
  BY <1>0, <1>2 DEF End, IdleRun
<1>3. ASSUME NEW p \in Loaders, NEW k, NEW kind, NEW from, NEW list,
             Begin(p, k, kind, from, list)
      PROVE  run'[w] = run[w]
  BY <1>0, <1>3 DEF Begin, IdleRun
<1>4. CASE \E l \in Loads : Ask(l) \/ Push(l) \/ Answer(l) \/ PushRaises(l)
  BY <1>1, <1>4 DEF Ask, AskPrices, AskRaises, AskCorporations, Push, Answer,
     PushRaises
<1>5. CASE NightBegins \/ \E v \in Workers, k \in Tasks : Take(v, k)
  BY <1>1, <1>3, <1>5 DEF NightBegins, Take, Loaders
<1>6. ASSUME NEW p \in Loaders, Work(p), p # w PROVE run'[w] = run[w]
  BY <1>0, <1>6 DEF Work, Fetch, FetchExhausted, Select, Insert, InsertClashes,
     Commit, Put, Finish, End, Begin
<1>7. CASE Select(w)
  <2>1. PICK d \in run[w].todo :
          \/ /\ d \in stored[ticker(w)]
             /\ run' = [run EXCEPT ![w] =
                  Moved(w, "select", run[w].pos, run[w].todo \ {d}, run[w].day)]
          \/ /\ d \notin stored[ticker(w)]
             /\ run' = [run EXCEPT ![w] =
                  Moved(w, "insert", run[w].pos, run[w].todo, d)]
    BY <1>0, <1>7, SelectMoves
  <2>2. /\ d \notin stored[ticker(w)]
        /\ run' = [run EXCEPT ![w] =
             Moved(w, "insert", run[w].pos, run[w].todo, d)]
    <3>1. ASSUME run' = [run EXCEPT ![w] =
                   Moved(w, "select", run[w].pos, run[w].todo \ {d}, run[w].day)]
          PROVE  FALSE
      <4>1. run'[w] = Moved(w, "select", run[w].pos, run[w].todo \ {d}, run[w].day)
        BY <1>0, <3>1
      <4>2. run'[w].pc = "select"
        BY <1>0, <4>1 DEF Moved, Run
      <4> QED
        BY <4>2
    <3> QED
      BY <2>1, <3>1
  <2>3. /\ run'[w].day = d /\ run'[w].pos = run[w].pos
        /\ run'[w].list = run[w].list /\ run'[w].task = run[w].task
    BY <1>0, <2>2 DEF Moved, Run
  <2> QED
    BY <1>7, <2>2, <2>3 DEF Select, ticker
<1>8. CASE Insert(w)
  <2>1. run' = [run EXCEPT ![w] =
           Moved(w, "commit", run[w].pos, run[w].todo, run[w].day)]
    BY <1>0, <1>8, Moves
  <2>2. /\ run'[w].day = run[w].day /\ run'[w].pos = run[w].pos
        /\ run'[w].list = run[w].list /\ run'[w].task = run[w].task
    BY <1>0, <2>1 DEF Moved, Run
  <2> QED
    BY <1>8, <2>2 DEF Insert, ticker
<1>9. CASE Fetch(w) \/ Commit(w) \/ Put(w)
  <2>1. run'[w].pc \in {"select", "fetch"}
    BY <1>0, <1>9 DEF Fetch, Commit, Put, Run
  <2> QED
    BY <2>1
<1>10. CASE FetchExhausted(w) \/ InsertClashes(w) \/ Finish(w)
  BY <1>1, <1>2, <1>3, <1>10 DEF FetchExhausted, InsertClashes, Finish
<1>11. ASSUME NEW p \in Loaders, Work(p) \/ Fail(p)
       PROVE  \/ run'[w] = run[w]
              \/ Select(w) \/ Insert(w) \/ Fetch(w) \/ Commit(w) \/ Put(w)
              \/ FetchExhausted(w) \/ InsertClashes(w) \/ Finish(w)
  <2>1. CASE Fail(p)
    BY <1>2, <2>1 DEF Fail, FetchRaises, CallRaises, Crash
  <2>2. CASE Work(p)
    BY <1>6, <2>2 DEF Work
  <2> QED
    BY <1>11, <2>1, <2>2
<1>12. CASE Tomorrow \/ Terminated \/ UNCHANGED vars
  BY <1>1, <1>12 DEF Tomorrow, Terminated, vars
<1> QED
  BY <1>1, <1>4, <1>5, <1>7, <1>8, <1>9, <1>10, <1>11, <1>12 DEF Next

(* What a worker is about to insert is not put there by its own request.   *)
LEMMA NextFresh ==
  ASSUME TypeOK, TypeOK', Orderly, Apart, [Next]_vars, NEW w \in Workers
  PROVE  Fresh(w)'
<1> SUFFICES ASSUME ~Fresh(w)' PROVE FALSE
  OBVIOUS
<1>0. /\ run'[w].pc \in {"insert", "commit"} /\ w \in Loaders
      /\ run'[w].day \in stored'[ticker(w)']
  BY DEF Fresh, Loaders
<1>1. /\ run'[w].task = run[w].task /\ ticker(w)' = ticker(w)
      /\ run[w].pc # "idle"
      /\ \/ stored' = stored /\ run'[w].day \notin stored[ticker(w)]
         \/ run[w].pc \in {"insert", "commit"} /\ run'[w].day = run[w].day
  BY <1>0, InsertsComeBySelect
<1>2. /\ run[w].pc \in {"insert", "commit"} /\ run'[w].day = run[w].day
      /\ w \in Loaders
  BY <1>0, <1>1
<1>3. PICK l \in Loads : l = run[w].task[1]
  BY <1>1, WorkerTask, TaskType
<1>4. Alone(l)'
  BY <1>1, <1>3 DEF Fresh, Alone
<1>5. Alone(l)
  BY <1>4, AloneWas
<1>6. PICK t \in Tickers : t = ticker(w)
  BY <1>2, Fields, TickerType
<1>7. run[w].day \notin stored[t] /\ run[w].day \in stored'[t]
  BY <1>0, <1>1, <1>2, <1>3, <1>5, <1>6 DEF Apart, Fresh
<1>8. PICK p \in Loaders :
        run[p].pc = "commit" /\ ticker(p) = t /\ (Commit(p) \/ CallRaises(p))
  BY <1>7, RowsComeByCommit
<1>9. p # w
  <2>1. run \in [Loaders -> Run]
    BY RunFacts
  <2>2. CASE Commit(p)
    <3>1. run'[p].pc = "select"
      BY <2>1, <2>2 DEF Commit, Run
    <3> QED
      BY <1>0, <3>1
  <2>3. CASE CallRaises(p)
    BY <1>0, <2>1, <2>3 DEF CallRaises, End, IdleRun
  <2> QED
    BY <1>8, <2>2, <2>3
<1>10. p \in Workers
  BY <1>5, <1>8 DEF Apart, Alone, Loaders
<1>11. /\ run[w].pos \in 1 .. Len(run[w].list)
       /\ run[p].pos \in 1 .. Len(run[p].list)
  BY <1>2, <1>8, Fields
<1>12. run[w].list[run[w].pos] # run[p].list[run[p].pos]
  BY <1>2, <1>3, <1>5, <1>8, <1>9, <1>10, <1>11, DifferentTickers
<1> QED
  BY <1>6, <1>8, <1>12 DEF ticker

LEMMA InitApart == Init => Apart
<1> SUFFICES ASSUME Init PROVE Apart
  OBVIOUS
<1>1. \A p \in Loaders : run[p].pc = "idle"
  BY DEF Init, IdleRun
<1>2. \A l \in Loads : Plain(l)
  BY DEF Init, IdleLoad, Plain, NoRepeats
<1>3. \A w \in Workers : Fresh(w)
  BY <1>1 DEF Fresh, Loaders
<1>4. \A k \in Tasks : ClashIsForeign(k)
  BY DEF Init, UnusedTask, ClashIsForeign
<1> QED
  BY <1>1, <1>2, <1>3, <1>4 DEF Apart, Loaders

(* The tasks of one request never run into each other's rows, however many *)
(* workers there are and wherever they die: an insert that finds its key   *)
(* taken shows that another request was made or a night has begun.         *)
THEOREM SlicesNeverClash == Spec => []OneLoadNeverClashes
<1> DEFINE Inv == TypeOK /\ IdleIsFree /\ NoHole /\ Orderly /\ Apart
<1>1. Init => Inv
  BY InitType, InitKept, InitOrderly, InitApart
<1>2. Inv /\ [Next]_vars => Inv'
  <2> SUFFICES ASSUME Inv, [Next]_vars PROVE Inv'
    OBVIOUS
  <2>1. TypeOK' /\ Grows
    BY NextType, NextGrows
  <2>2. IdleIsFree' /\ NoHole' /\ Orderly'
    BY <2>1, NextIsFree, NextKept, NextOrderly
  <2>3. \A l \in Loads : Plain(l)'
    BY NextPlain
  <2>4. \A w \in Workers : Fresh(w)'
    BY <2>1, NextFresh
  <2>5. \A k \in Tasks : ClashIsForeign(k)'
    BY <2>1, NextClash
  <2>6. Apart'
    BY <2>1, <2>3, <2>4, <2>5, NextRests DEF Apart
  <2> QED
    BY <2>1, <2>2, <2>6
<1>3. Inv => OneLoadNeverClashes
  <2> SUFFICES ASSUME TypeOK, Apart, NEW k \in Tasks, task[k].state = "clash"
               PROVE  nights > 0 \/ \E l \in Loads \ {k[1]} : load[l].pc # "idle"
    BY DEF OneLoadNeverClashes
  <2>1. ~Alone(k[1]) /\ nights \in Nat
    BY Counts DEF Apart, ClashIsForeign
  <2> QED
    BY <2>1 DEF Alone
<1> QED
  BY <1>1, <1>2, <1>3, PTL DEF Spec

================================================================================
