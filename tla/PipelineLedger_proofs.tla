------------------------- MODULE PipelineLedger_proofs -------------------------
(***************************************************************************)
(* The pipeline implements the ledger, for any finite set of workers.      *)
(***************************************************************************)
EXTENDS PipelineLedger, BacktestPipeline_proofs, FiniteSetTheorems

(* A task that counts as taken is in some worker's hands.                  *)
TakenIsHeld ==
  \A t \in Tasks : phase[t] = "running" =>
    \E w \in Workers : Working(w) /\ job[w] = t

(* The steps of the pipeline that move a task.                             *)
LEMMA QueueSteps ==
  ASSUME TypeInv, [Next]_vars
  PROVE  \/ UNCHANGED <<phase, about>> /\ UNCHANGED job
              /\ \A w \in Workers : Working(w) <=> Working(w)'
         \/ \E t \in Tasks, s \in Strategies :
              Enqueue(t, s) /\ UNCHANGED <<job, pc>>
         \/ \E w \in Workers, t \in Tasks : TakeTask(w, t)
         \/ \E w \in Workers, r \in Returned \union {"lost"} :
              Working(w) /\ Return(w, r) /\ UNCHANGED about
<1> USE DEF queue, workers
<1>1. CASE BusinessStep
  <2>1. UNCHANGED <<job, pc>>
    BY <1>1 DEF BusinessStep, CreateStrategy, CreateInvestProfitInfo,
                AddUniversalOnly, UpsertTradingStrategy, SoftDelete,
                RetryAccepted, RetryRaises, UpdateRead, PushRequested,
                UpdateSaveRow, UpdateSaveProfit, UpdateRaises, CheckMyStrategy, PostAccepted,
                PostRefused, RetryScan, BusinessCrash
  <2>2. \/ UNCHANGED <<phase, about>>
        \/ \E t \in Tasks, s \in Strategies : Enqueue(t, s)
    <3>1. ASSUME NEW q \in Requests, PostAccepted(q)
          PROVE  \E t \in Tasks, s \in Strategies : Enqueue(t, s)
      BY <3>1 DEF PostAccepted, TypeInv, TypeOK, BusinessOK
    <3> QED
      BY <1>1, <3>1
         DEF BusinessStep, CreateStrategy, CreateInvestProfitInfo,
             AddUniversalOnly, UpsertTradingStrategy, SoftDelete,
             RetryAccepted, RetryRaises, UpdateRead, PushRequested,
             UpdateSaveRow, UpdateSaveProfit, UpdateRaises, CheckMyStrategy,
             PostRefused, RetryScan, BusinessCrash
  <2> QED  BY <2>1, <2>2 DEF Working
<1>2. ASSUME NEW w \in Workers, Work(w) \/ WorkerCrash(w)
      PROVE  \/ UNCHANGED <<phase, about, job>>
                  /\ \A v \in Workers : Working(v) <=> Working(v)'
             \/ \E r \in Returned \union {"lost"} :
                  Working(w) /\ Return(w, r) /\ UNCHANGED about
  <2>1. CASE \/ NoPortInfo(w) \/ SetSuccess(w) \/ SetError(w)
             \/ PoolExhausted(w) \/ WorkerCrash(w)
    BY <2>1 DEF NoPortInfo, SetSuccess, SetError, PoolExhausted, WorkerCrash,
                Returned, Working
  <2>2. CASE \/ SetStart(w) \/ GetPeriodInfo(w) \/ GetPeriodInfoRaises(w)
             \/ GetPortInfoFromDB(w) \/ GetPortInfoFromDBRaises(w)
             \/ Simulate(w) \/ GetDBDataRaises(w) \/ SaveSelect(w)
             \/ SaveWrite(w) \/ SaveColumn(w) \/ SaveRaises(w)
             \/ SaveInvestProfitInfoRaises(w)
    <3>1. UNCHANGED <<phase, about, job>>
      BY <2>2 DEF SetStart, GetPeriodInfo, GetPeriodInfoRaises,
                  GetPortInfoFromDB, GetPortInfoFromDBRaises, Simulate,
                  GetDBDataRaises, SaveSelect, SaveWrite, SaveColumn,
                  SaveRaises, SaveInvestProfitInfoRaises
    <3>2. pc[w] \in Steps /\ \E p \in Steps : pc' = [pc EXCEPT ![w] = p]
      <4>1. pc \in [Workers -> Steps \union {"idle"}]
        BY DEF TypeInv, TypeOK, WorkersOK
      <4>2. pc[w] # "idle"
        BY <2>2, StepNames, SaveNames
           DEF SetStart, GetPeriodInfo, GetPeriodInfoRaises,
               GetPortInfoFromDB, GetPortInfoFromDBRaises, Simulate,
               GetDBDataRaises, SaveSelect, SaveWrite, SaveColumn,
               SaveRaises, SaveInvestProfitInfoRaises, Columns
      <4>3. CASE SaveSelect(w)
        BY <4>1, <4>2, <4>3 DEF SaveSelect
      <4>4. CASE ~SaveSelect(w)
        BY <2>2, <4>1, <4>2, <4>4, StepNames
           DEF SetStart, GetPeriodInfo, GetPeriodInfoRaises,
               GetPortInfoFromDB, GetPortInfoFromDBRaises, Simulate,
               GetDBDataRaises, SaveWrite, SaveColumn,
               SaveRaises, SaveInvestProfitInfoRaises, Goto
      <4> QED  BY <4>3, <4>4
    <3>3. \A v \in Workers : pc[v] # "idle" <=> pc'[v] # "idle"
      BY <3>2, StepNames DEF TypeInv, TypeOK, WorkersOK
    <3> QED  BY <3>1, <3>3 DEF Working
  <2> QED  BY <1>2, <2>1, <2>2 DEF Work
<1>3. CASE UNCHANGED vars
  BY <1>3 DEF vars, Working
<1> QED  BY <1>1, <1>2, <1>3 DEF Next

LEMMA TakenIsHeldStep ==
  ASSUME TypeInv, TakenIsHeld, [Next]_vars
  PROVE  TakenIsHeld'
<1> SUFFICES ASSUME NEW t \in Tasks, phase'[t] = "running"
             PROVE  \E w \in Workers : Working(w)' /\ job'[w] = t
  BY DEF TakenIsHeld
<1>1. CASE /\ UNCHANGED phase /\ UNCHANGED job
           /\ \A w \in Workers : Working(w) <=> Working(w)'
  BY <1>1 DEF TakenIsHeld
<1>2. ASSUME NEW u \in Tasks, NEW s \in Strategies, Enqueue(u, s),
             UNCHANGED <<job, pc>>
      PROVE  \E w \in Workers : Working(w)' /\ job'[w] = t
  <2>1. phase[t] = "running"
    BY <1>2 DEF Enqueue, TypeInv, TypeOK, QueueOK
  <2> QED  BY <1>2, <2>1 DEF TakenIsHeld, Working
<1>3. ASSUME NEW v \in Workers, NEW u \in Tasks, TakeTask(v, u)
      PROVE  \E w \in Workers : Working(w)' /\ job'[w] = t
  <2>1. CASE u = t
    BY <1>3, <2>1 DEF TakeTask, Goto, Working, TypeInv, TypeOK, WorkersOK
  <2>2. CASE u # t
    <3>1. phase[t] = "running"
      BY <1>3, <2>2 DEF TakeTask, TypeInv, TypeOK, QueueOK
    <3>2. PICK w \in Workers : Working(w) /\ job[w] = t
      BY <3>1 DEF TakenIsHeld
    <3>3. job'[w] = t /\ pc'[w] = pc[w]
      BY <1>3, <3>2 DEF TakeTask, Goto, TypeInv, TypeOK, WorkersOK
    <3> QED  BY <3>2, <3>3 DEF Working
  <2> QED  BY <2>1, <2>2
<1>4. ASSUME NEW v \in Workers, NEW r \in Returned \union {"lost"},
             Working(v), Return(v, r)
      PROVE  \E w \in Workers : Working(w)' /\ job'[w] = t
  <2>1. job[v] # t /\ phase[t] = "running"
    BY <1>4, WorkersStrategy DEF Return, Returned, Working, TypeInv, TypeOK, QueueOK
  <2>2. PICK w \in Workers : Working(w) /\ job[w] = t
    BY <2>1 DEF TakenIsHeld
  <2>3. job'[w] = t /\ pc'[w] = pc[w]
    BY <1>4, <2>1, <2>2 DEF Return, Goto, TypeInv, TypeOK, WorkersOK
  <2> QED  BY <2>2, <2>3 DEF Working
<1> QED  BY <1>1, <1>2, <1>3, <1>4, QueueSteps

(* While a worker is idle, fewer tasks count as taken than there are       *)
(* workers: each is in the hands of one that is not idle.                  *)
LEMMA IdleCapacity ==
  ASSUME TypeInv, TakenIsHeld, NEW w \in Workers, ~Working(w)
  PROVE  Cardinality({t \in Tasks : phase[t] = "running"}) < Cardinality(Workers)
<1> DEFINE Taken == {t \in Tasks : phase[t] = "running"}
           holder == [t \in Taken |->
                        CHOOSE v \in Workers : Working(v) /\ job[v] = t]
<1>1. \A t \in Taken : /\ holder[t] \in Workers \ {w}
                       /\ job[holder[t]] = t
  BY DEF TakenIsHeld
<1>2. holder \in Injection(Taken, Workers \ {w})
  <2>1. holder \in [Taken -> Workers \ {w}]
    BY <1>1
  <2>2. \A t, u \in Taken : holder[t] = holder[u] => t = u
    BY <1>1
  <2> QED  BY <2>1, <2>2 DEF Injection, IsInjective
<1>3. /\ IsFiniteSet(Workers \ {w})
      /\ Cardinality(Workers \ {w}) = Cardinality(Workers) - 1
      /\ Cardinality(Workers) \in Nat
  BY WorkersAssumption, FS_RemoveElement, FS_CardinalityType
<1> HIDE DEF holder, Taken
<1>4. IsFiniteSet(Taken) /\ Cardinality(Taken) <= Cardinality(Workers \ {w})
  BY <1>2, <1>3, FS_Injection
<1>5. Cardinality(Taken) \in Nat
  BY <1>4, FS_CardinalityType
<1> QED  BY <1>3, <1>4, <1>5 DEF Taken

(* The mapping is a type for the ledger's phases.                          *)
LEMMA LedgerRunning ==
  Ledger!Running = {t \in Tasks : phase[t] = "running"}
BY DEF Ledger!Running, LedgerPhase, Returned

LEMMA LedgerInit == Init => Ledger!Init
BY DEF Init, Ledger!Init, LedgerPhase, LedgerAbout, Returned

(* Every step of the pipeline is a step of the ledger or a stutter.        *)
LEMMA LedgerStep ==
  ASSUME TypeInv, TakenIsHeld, [Next]_vars
  PROVE  [Ledger!Next]_(Ledger!vars)
<1>1. CASE UNCHANGED <<phase, about>>
  BY <1>1 DEF Ledger!vars, LedgerPhase, LedgerAbout
<1>2. ASSUME NEW t \in Tasks, NEW s \in Strategies, Enqueue(t, s)
      PROVE  Ledger!Next
  <2>1. s # NoStrategy
    BY PipelineAssumption
  <2>2. /\ LedgerPhase[t] = "unused"
        /\ LedgerPhase' = [LedgerPhase EXCEPT ![t] = "queued"]
    BY <1>2 DEF Enqueue, LedgerPhase, Returned, TypeInv, TypeOK, QueueOK
  <2>3. LedgerAbout' = [LedgerAbout EXCEPT ![t] = {s}]
    BY <1>2, <2>1 DEF Enqueue, LedgerAbout, TypeInv, TypeOK, QueueOK
  <2>4. Ledger!Accept(t, s)
    BY <2>2, <2>3 DEF Ledger!Accept
  <2> QED  BY <2>4 DEF Ledger!Next
<1>3. ASSUME NEW w \in Workers, NEW t \in Tasks, TakeTask(w, t)
      PROVE  Ledger!Next
  <2>1. Cardinality(Ledger!Running) < Cardinality(Workers)
    BY <1>3, IdleCapacity, LedgerRunning DEF TakeTask
  <2>2. /\ LedgerPhase[t] = "queued"
        /\ LedgerPhase' = [LedgerPhase EXCEPT ![t] = "running"]
    BY <1>3 DEF TakeTask, LedgerPhase, Returned, TypeInv, TypeOK, QueueOK
  <2>3. UNCHANGED LedgerAbout
    BY <1>3 DEF TakeTask, LedgerAbout
  <2>4. Ledger!Begin(t)
    BY <2>1, <2>2, <2>3 DEF Ledger!Begin, Ledger!Cardinality, Cardinality
  <2> QED  BY <2>4 DEF Ledger!Next
<1>4. ASSUME NEW w \in Workers, NEW r \in Returned \union {"lost"},
             Working(w), Return(w, r), UNCHANGED about
      PROVE  Ledger!Next
  <2>1. job[w] \in Tasks /\ phase[job[w]] = "running"
    BY <1>4, WorkersStrategy DEF Working
  <2>2. /\ LedgerPhase[job[w]] = "running"
        /\ LedgerPhase' = [LedgerPhase EXCEPT ![job[w]] = "ended"]
    BY <1>4, <2>1 DEF Return, LedgerPhase, Returned, TypeInv, TypeOK, QueueOK
  <2>3. UNCHANGED LedgerAbout
    BY <1>4 DEF LedgerAbout
  <2>4. Ledger!End(job[w])
    BY <2>2, <2>3 DEF Ledger!End
  <2> QED  BY <2>1, <2>4 DEF Ledger!Next
<1> QED  BY <1>1, <1>2, <1>3, <1>4, QueueSteps

LEMMA AlwaysTakenIsHeld == Spec => []TakenIsHeld
<1>1. Init => TakenIsHeld
  BY DEF Init, TakenIsHeld
<1> QED  BY <1>1, TakenIsHeldStep, AlwaysTypeInv, PTL DEF Spec

(* The pipeline implements the at-most-once ledger of accepted requests:   *)
(* whatever the servers do, a backtest is accepted once, handed to one of  *)
(* the workers at most, and ends once (Enqueue, TakeTask, Return).         *)
THEOREM ImplementsLedger == Spec => LedgerSpec
BY LedgerInit, LedgerStep, AlwaysTypeInv, AlwaysTakenIsHeld, PTL
   DEF Spec, LedgerSpec, Ledger!Spec

================================================================================
