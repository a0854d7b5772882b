------------------------- MODULE SyncPipelineProofs -------------------------
(***************************************************************************)
(* Proofs about SyncPipeline for any sets of accounts, runs, processes,    *)
(* requests and workers and any bounds: types, single flight, the settings *)
(* guard, the refinement of RunLedger; and that a run has one executor, a  *)
(* final status, an announced failure and a job, but for the redeliveries  *)
(* and faults the properties name.                                         *)
(*                                                                         *)
(* The argument.  A flow that is creating a run holds the lock on the row  *)
(* of its account (FlowInv); it took the lock before it looked for runs in *)
(* progress, only a lock holder commits runs, so there still is none when  *)
(* it commits.  A worker changes the status of committed runs only, and a  *)
(* run that reached a terminal status is in `ended` for good (RunInv,      *)
(* WorkerInv), so nothing a worker does makes a run live again.            *)
(*                                                                         *)
(* The second half is about jobs.  While none of a run's jobs was          *)
(* redelivered, a job is with one worker, who has its lease (LeaseInv), and*)
(* the next attempt is added by that worker's last step on this one        *)
(* (AttemptInv).  So a busy worker is alone with its run (Alone), and once *)
(* it has written a terminal status nobody writes another (EndedInv).      *)
(* What the failing steps leave behind is in AlertInv and CalmInv.         *)
(***************************************************************************)
EXTENDS SyncPipeline, TLAPS

-----------------------------------------------------------------------------
(* Operators                                                               *)

\* A queue name made from a provider is one of the known names.
LEMMA QueueNameType ==
    ASSUME NEW a \in Accounts
    PROVE  /\ SchedulerQueue[Provider[a]] \in QueueNames
           /\ WorkerQueue[Provider[a]] \in QueueNames
  <1>1. Provider[a] \in Providers BY ConstantsAssumption
  <1> QED BY <1>1 DEF QueueNames, MeasuredQueues

\* queue.add of a first attempt keeps the types of the queue.
LEMMA AddFirstJobType ==
    ASSUME TypeOK, NEW f \in Flows, cur[f] \in Accounts, AddFirstJob(f)
    PROVE  job' \in [Jobs -> JobStates] /\ queue' \in [Jobs -> QueueNames \union {None}]
  <1>1. SchedulerQueue[Provider[cur[f]]] \in QueueNames BY QueueNameType
  <1> QED BY <1>1 DEF TypeOK, AddFirstJob, JobStates

\* A flow that leaves its account keeps the types of the scheduler.
LEMMA LeaveType ==
    ASSUME TypeOK, NEW f \in Flows, Leave(f)
    PROVE  /\ rowLock' \in [Accounts -> Flows \union {None}]
           /\ pc' \in [Flows -> FlowPcs]
           /\ todo' \in [Flows -> SUBSET Accounts]
           /\ cur' \in [Flows -> Accounts \union {None}]
           /\ newRun' \in [Flows -> Runs \union {None}]
           /\ slot' \in [Flows -> 0..MaxSlot]
           /\ tries' \in [Flows -> 0..(InfraRetryLimit - 1)]
  <1>1. 0 \in 0..(InfraRetryLimit - 1) BY ConstantsAssumption
  <1> QED BY <1>1 DEF TypeOK, Leave, FlowGoes, Unlock, FlowPcs

\* A rollback keeps the types of the queue and of the fault budget.
LEMMA RollsBackType ==
    ASSUME TypeOK, FlowInv, NEW f \in Flows, RollsBack(f)
    PROVE  /\ faults' \in 0..MaxFaults
           /\ job' \in [Jobs -> JobStates]
           /\ queue' \in [Jobs -> QueueNames \union {None}]
  <1>1. cur[f] \in Accounts BY DEF RollsBack, FlowInv, Holding
  <1>2. faults' \in 0..MaxFaults BY ConstantsAssumption DEF RollsBack, TypeOK
  <1> QED BY <1>1, <1>2, AddFirstJobType DEF RollsBack, TypeOK

\* A redelivery keeps the types of the queue and does not exceed MaxStalls.
LEMMA RedeliverType ==
    ASSUME TypeOK, NEW j \in Jobs, Redeliver(j)
    PROVE  /\ job' \in [Jobs -> JobStates]
           /\ holder' \in [Jobs -> Workers \union {None}]
           /\ stalls' \in [Jobs -> 0..MaxStalls]
  <1>1. stalls[j] \in 0..MaxStalls BY DEF TypeOK
  <1>2. (IF stalls[j] < MaxStalls THEN stalls[j] + 1 ELSE stalls[j]) \in 0..MaxStalls
    BY <1>1, ConstantsAssumption
  <1> QED BY <1>2 DEF TypeOK, Redeliver, JobStates

\* A worker that writes an active status to a run that has been committed
\* changes nobody's live runs: a run that ended stays in `ended`.
LEMMA LiveUnchanged ==
    ASSUME TypeOK, RunInv, NEW r \in Runs, status[r] # "ABSENT",
           NEW s \in ActiveStatuses, status' = [status EXCEPT ![r] = s],
           UNCHANGED <<account, ended>>
    PROVE  \A a : Live(a)' = Live(a)
  <1>1. SUFFICES ASSUME NEW a, NEW x \in Runs
                 PROVE  (Active(x) /\ x \notin ended)' <=> (Active(x) /\ x \notin ended)
    BY <1>1 DEF Live
  <1>2. CASE x # r BY <1>2 DEF Active, TypeOK
  <1>3. CASE x = r
    BY <1>3 DEF Active, RunInv, TypeOK, Statuses, ActiveStatuses, TerminalStatuses
  <1> QED BY <1>2, <1>3

\* The two writes of an active status by a worker leave all live runs alone.
LEMMA ActiveWriteKeepsLive ==
    ASSUME IndInv, NEW w \in Workers, StartAttempt(w) \/ ScheduleRetry(w)
    PROVE  \A a : Live(a)' = Live(a)
  <1>1. workerRun[w] \in Runs /\ status[workerRun[w]] # "ABSENT"
    BY DEF IndInv, WorkerInv, StartAttempt, ScheduleRetry
  <1>2. UNCHANGED <<account, ended>> BY DEF StartAttempt, ScheduleRetry, history
  <1>3. PICK s \in ActiveStatuses : status' = [status EXCEPT ![workerRun[w]] = s]
    BY DEF StartAttempt, ScheduleRetry, ActiveStatuses
  <1>4. TypeOK /\ RunInv BY DEF IndInv
  <1> QED BY <1>1, <1>2, <1>3, <1>4, LiveUnchanged

-----------------------------------------------------------------------------
(* Every step preserves the invariant *)

\* A step keeps every variable in its type.
LEMMA TypeStep == ASSUME IndInv, Next PROVE TypeOK'
  <1> USE DEF IndInv, TypeOK, FlowPcs, WorkerPcs, scheduling, accountRow,
      runRow, working, budget, queueing, history
  <1>1. ASSUME NEW t \in Tickers, TickHeldBack(t) PROVE TypeOK'
    BY <1>1 DEF TickHeldBack
  <1>2. ASSUME NEW t \in Tickers, Tick(t) PROVE TypeOK'
    <2>1. t \in Flows /\ {a \in Accounts : Due(a)} \in SUBSET Accounts BY DEF Flows
    <2>2. todo' \in [Flows -> SUBSET Accounts] BY <1>2, <2>1 DEF Tick, ScanAccounts
    <2> QED BY <1>2, <2>1, <2>2 DEF Tick, ScanAccounts, FlowGoes
  <1>3. ASSUME NEW t \in Tickers, NEW a \in Accounts, NextCandidate(t, a)
         PROVE  TypeOK'
    <2>1. todo' \in [Flows -> SUBSET Accounts] BY <1>3 DEF NextCandidate, Flows
    <2> QED BY <1>3, <2>1 DEF NextCandidate, FlowGoes, Flows
  <1>4. ASSUME NEW t \in Tickers, TickEnd(t) PROVE TypeOK'
    BY <1>4 DEF TickEnd, FlowGoes, Flows
  <1>5. ASSUME NEW f \in Flows, LockRow(f) PROVE TypeOK'
    BY <1>5 DEF LockRow, FlowGoes, FlowInv
  <1>6. ASSUME NEW f \in Flows, RowNotAcquired(f) PROVE TypeOK'
    <2>1. Leave(f) BY <1>6 DEF RowNotAcquired
    <2> QED BY <1>6, <2>1, LeaveType DEF RowNotAcquired
  <1>7. ASSUME NEW f \in Flows, SkipRun(f) PROVE TypeOK'
    <2>1. Leave(f) BY <1>7 DEF SkipRun
    <2> QED BY <1>7, <2>1, LeaveType DEF SkipRun
  <1>8. ASSUME NEW f \in Flows, NEW r \in Runs, InsertRun(f, r) PROVE TypeOK'
    BY <1>8 DEF InsertRun, FlowGoes
  <1>9. ASSUME NEW f \in Flows, EnqueueJob(f) PROVE TypeOK'
    <2>1. cur[f] \in Accounts BY <1>9 DEF EnqueueJob, FlowInv, Holding
    <2>2. job' \in [Jobs -> JobStates] /\ queue' \in [Jobs -> QueueNames \union {None}]
      BY <1>9, <2>1, AddFirstJobType DEF EnqueueJob
    <2> QED BY <1>9, <2>2 DEF EnqueueJob, FlowGoes
  <1>10. ASSUME NEW f \in Flows, CommitRun(f) PROVE TypeOK'
    <2>1. cur[f] \in Accounts /\ slot[f] \in 0..MaxSlot BY <1>10 DEF CommitRun, FlowInv, Holding
    <2>2. status' \in [Runs -> Statuses] BY <1>10 DEF CommitRun, Statuses, ActiveStatuses
    <2>3. account' \in [Runs -> Accounts \union {None}] BY <1>10 DEF CommitRun
    <2>4. lastFired' \in [Accounts -> Never..MaxSlot]
      <3>1. slot[f] \in Never..MaxSlot BY <2>1, ConstantsAssumption DEF Never
      <3> QED BY <1>10, <3>1 DEF CommitRun
    <2>5. fires' \in [Accounts -> [0..MaxSlot -> Nat]]
      <3>1. fires[cur[f]] \in [0..MaxSlot -> Nat] BY <2>1
      <3>2. [fires[cur[f]] EXCEPT ![slot[f]] = @ + 1] \in [0..MaxSlot -> Nat] BY <2>1, <3>1
      <3> QED BY <1>10, <2>1, <3>2 DEF CommitRun
    <2>6. Leave(f) BY <1>10 DEF CommitRun
    <2> QED BY <1>10, <2>2, <2>3, <2>4, <2>5, <2>6, LeaveType DEF CommitRun
  <1>11. ASSUME NEW w \in Workers, NEW j \in Jobs, TakeJob(w, j) PROVE TypeOK'
    <2>1. j[1] \in Runs /\ j[2] \in 0..MaxRetries
      BY <1>11, ConstantsAssumption DEF TakeJob, WorkerInv, Jobs
    <2>2. job' \in [Jobs -> JobStates] BY <1>11 DEF TakeJob, JobStates
    <2> QED BY <1>11, <2>1, <2>2 DEF TakeJob
  <1>12. ASSUME NEW w \in Workers, StartAttempt(w) PROVE TypeOK'
    <2>1. status' \in [Runs -> Statuses] BY <1>12 DEF StartAttempt, Statuses, ActiveStatuses, TerminalStatuses
    <2> QED BY <1>12, <2>1 DEF StartAttempt, WorkerGoes
  <1>13. ASSUME NEW w \in Workers, RunNotFound(w) PROVE TypeOK'
    BY <1>13 DEF RunNotFound, WorkerGoes, WorkerInv
  <1>14. ASSUME NEW w \in Workers, NEW s \in {"SUCCEEDED", "PARTIAL", "TIMEOUT"}, EndRun(w, s)
         PROVE  TypeOK'
    <2>1. status' \in [Runs -> Statuses] BY <1>14 DEF EndRun, Statuses, ActiveStatuses, TerminalStatuses
    <2>2. ended' \in SUBSET Runs BY <1>14 DEF EndRun, WorkerInv
    <2> QED BY <1>14, <2>1, <2>2 DEF EndRun, WorkerGoes
  <1>15. ASSUME NEW w \in Workers, FailRun(w) PROVE TypeOK'
    <2>1. status' \in [Runs -> Statuses] BY <1>15 DEF FailRun, Statuses, ActiveStatuses, TerminalStatuses
    <2>2. ended' \in SUBSET Runs BY <1>15 DEF FailRun, WorkerInv
    <2> QED BY <1>15, <2>1, <2>2 DEF FailRun, WorkerGoes
  <1>16. ASSUME NEW w \in Workers, EmitFailure(w) PROVE TypeOK'
    BY <1>16 DEF EmitFailure, WorkerGoes, WorkerInv
  <1>17. ASSUME NEW w \in Workers, ScheduleRetry(w) PROVE TypeOK'
    <2>1. status' \in [Runs -> Statuses] BY <1>17 DEF ScheduleRetry, Statuses, ActiveStatuses, TerminalStatuses
    <2> QED BY <1>17, <2>1 DEF ScheduleRetry, WorkerGoes
  <1>18. ASSUME NEW w \in Workers, RequeueJob(w) PROVE TypeOK'
    <2>1. account[workerRun[w]] \in Accounts BY <1>18 DEF RequeueJob, WorkerInv, RunInv
    <2>2. WorkerQueue[Provider[account[workerRun[w]]]] \in QueueNames BY <2>1, QueueNameType
    <2>3. job' \in [Jobs -> JobStates] /\ queue' \in [Jobs -> QueueNames \union {None}]
      BY <1>18, <2>2 DEF RequeueJob, AddNextJob, JobStates
    <2> QED BY <1>18, <2>3 DEF RequeueJob, WorkerGoes
  <1>19. ASSUME NEW w \in Workers, AckJob(w) PROVE TypeOK'
    <2>1. job' \in [Jobs -> JobStates] /\ holder' \in [Jobs -> Workers \union {None}]
      BY <1>19 DEF AckJob, JobStates
    <2> QED BY <1>19, <2>1 DEF AckJob, WorkerGoes
  <1>20. ASSUME NEW j \in Jobs, RecoverJob(j) PROVE TypeOK'
    <2>1. Redeliver(j) BY <1>20 DEF RecoverJob
    <2> QED BY <1>20, <2>1, RedeliverType DEF RecoverJob, Redeliver
  <1>21. ASSUME NEW f \in Flows, RetrySchedule(f) PROVE TypeOK'
    <2>1. RollsBack(f) BY <1>21 DEF RetrySchedule
    <2>2. tries' \in [Flows -> 0..(InfraRetryLimit - 1)] BY <1>21, ConstantsAssumption DEF RetrySchedule
    <2>3. rowLock' \in [Accounts -> Flows \union {None}] BY <1>21 DEF RetrySchedule, Unlock
    <2> QED BY <1>21, <2>1, <2>2, <2>3, RollsBackType DEF RetrySchedule, RollsBack, FlowGoes
  <1>22. ASSUME NEW f \in Flows, GiveUpSchedule(f) PROVE TypeOK'
    <2>1. RollsBack(f) /\ Leave(f) BY <1>22 DEF GiveUpSchedule
    <2> QED BY <2>1, RollsBackType, LeaveType DEF RollsBack
  <1>23. ASSUME NEW f \in Flows, ProcessCrash(f) PROVE TypeOK'
    <2>1. bp' \in [Tickers -> BOOLEAN] BY <1>23 DEF ProcessCrash
    <2>2. faults' \in 0..MaxFaults BY <1>23, ConstantsAssumption DEF ProcessCrash
    <2>3. 0 \in 0..(InfraRetryLimit - 1) BY ConstantsAssumption
    <2>4. todo' \in [Flows -> SUBSET Accounts] /\ tries' \in [Flows -> 0..(InfraRetryLimit - 1)]
      BY <1>23, <2>3 DEF ProcessCrash
    <2>5. rowLock' \in [Accounts -> Flows \union {None}] BY <1>23 DEF ProcessCrash, Unlock
    <2> QED BY <1>23, <2>1, <2>2, <2>4, <2>5 DEF ProcessCrash, FlowGoes
  <1>24. ASSUME NEW w \in Workers, RequeueFails(w) PROVE TypeOK'
    <2>1. faults' \in 0..MaxFaults BY <1>24, ConstantsAssumption DEF RequeueFails
    <2> QED BY <1>24, <2>1 DEF RequeueFails, WorkerGoes
  <1>25. ASSUME NEW w \in Workers, ProcessorThrows(w) PROVE TypeOK'
    <2>1. faults' \in 0..MaxFaults BY <1>25, ConstantsAssumption DEF ProcessorThrows
    <2> QED BY <1>25, <2>1 DEF ProcessorThrows, WorkerGoes
  <1>26. ASSUME NEW w \in Workers, WorkerCrash(w) PROVE TypeOK'
    <2>1. faults' \in 0..MaxFaults BY <1>26, ConstantsAssumption DEF WorkerCrash
    <2> QED BY <1>26, <2>1 DEF WorkerCrash, WorkerGoes
  <1>27. ASSUME NEW j \in Jobs, LeaseLost(j) PROVE TypeOK'
    <2>1. Redeliver(j) BY <1>27 DEF LeaseLost
    <2>2. faults' \in 0..MaxFaults BY <1>27, ConstantsAssumption DEF LeaseLost
    <2> QED BY <1>27, <2>1, <2>2, RedeliverType DEF LeaseLost, Redeliver
  <1>28. ASSUME CronOccurrence PROVE TypeOK'
    <2>1. now' \in 0..MaxSlot BY <1>28, ConstantsAssumption DEF CronOccurrence
    <2> QED BY <1>28, <2>1 DEF CronOccurrence
  <1>29. ASSUME NEW a \in Accounts, NEW m \in AccountModes, EditAccount(a, m)
         PROVE  TypeOK'
    <2>1. edits' \in 0..MaxEdits BY <1>29, ConstantsAssumption DEF EditAccount
    <2> QED BY <1>29, <2>1 DEF EditAccount
  <1>30. ASSUME NEW q \in Requests, NEW a \in Accounts, TriggerManual(q, a)
         PROVE  TypeOK'
    BY <1>30 DEF TriggerManual, FlowGoes, Flows
  <1>31. ASSUME NEW t \in Tickers, TickMiscounts(t) PROVE TypeOK'
    <2>1. t \in Flows /\ {a \in Accounts : Due(a)} \in SUBSET Accounts BY DEF Flows
    <2>2. todo' \in [Flows -> SUBSET Accounts]
      BY <1>31, <2>1 DEF TickMiscounts, ScanAccounts
    <2>3. faults' \in 0..MaxFaults BY <1>31, ConstantsAssumption DEF TickMiscounts
    <2> QED BY <1>31, <2>1, <2>2, <2>3 DEF TickMiscounts, ScanAccounts, FlowGoes
  <1>32. ASSUME NEW t \in Tickers, TickFails(t) PROVE TypeOK'
    <2>1. faults' \in 0..MaxFaults BY <1>32, ConstantsAssumption DEF TickFails
    <2> QED BY <1>32, <2>1 DEF TickFails
  <1> HIDE DEF IndInv, TypeOK, FlowPcs, WorkerPcs, scheduling, accountRow,
      runRow, working, budget, queueing, history
  <1> QED BY <1>1, <1>2, <1>3, <1>4, <1>5, <1>6, <1>7, <1>8, <1>9, <1>10,
      <1>11, <1>12, <1>13, <1>14, <1>15, <1>16, <1>17, <1>18, <1>19, <1>20,
      <1>21, <1>22, <1>23, <1>24, <1>25, <1>26, <1>27, <1>28, <1>29, <1>30,
      <1>31, <1>32, Zenon DEF Next, TickerStep, SchedulerStep, WorkerStep, Fault, Environment

\* A step keeps committed runs committed, and terminal ones in `ended`.
LEMMA RunStep == ASSUME IndInv, Next PROVE RunInv'
  <1> USE ConstantsAssumption DEF IndInv, TypeOK, RunInv, FlowInv,
      WorkerInv, Holding, Creating, Flows, ActiveStatuses, TerminalStatuses,
      FlowGoes, Unlock, WorkerGoes, scheduling, accountRow, runRow, working,
      budget, queueing, history
  <1>1. ASSUME NEW t \in Tickers, TickHeldBack(t) PROVE RunInv'
    BY <1>1 DEF TickHeldBack
  <1>2. ASSUME NEW t \in Tickers, Tick(t) PROVE RunInv'
    BY <1>2 DEF Tick, ScanAccounts
  <1>3. ASSUME NEW t \in Tickers, NEW a \in Accounts, NextCandidate(t, a)
         PROVE  RunInv'
    BY <1>3 DEF NextCandidate
  <1>4. ASSUME NEW t \in Tickers, TickEnd(t) PROVE RunInv'
    BY <1>4 DEF TickEnd
  <1>5. ASSUME NEW f \in Flows, LockRow(f) PROVE RunInv'
    BY <1>5 DEF LockRow
  <1>6. ASSUME NEW f \in Flows, RowNotAcquired(f) PROVE RunInv'
    BY <1>6 DEF RowNotAcquired, Leave
  <1>7. ASSUME NEW f \in Flows, SkipRun(f) PROVE RunInv'
    BY <1>7 DEF SkipRun, Leave
  <1>8. ASSUME NEW f \in Flows, NEW r \in Runs, InsertRun(f, r) PROVE RunInv'
    BY <1>8 DEF InsertRun
  <1>9. ASSUME NEW f \in Flows, EnqueueJob(f) PROVE RunInv'
    BY <1>9 DEF EnqueueJob
  <1>10. ASSUME NEW f \in Flows, CommitRun(f) PROVE RunInv'
    BY <1>10 DEF CommitRun, Leave
  <1>11. ASSUME NEW w \in Workers, NEW j \in Jobs, TakeJob(w, j) PROVE RunInv'
    BY <1>11 DEF TakeJob
  <1>12. ASSUME NEW w \in Workers, StartAttempt(w) PROVE RunInv'
    BY <1>12 DEF StartAttempt
  <1>13. ASSUME NEW w \in Workers, RunNotFound(w) PROVE RunInv'
    BY <1>13 DEF RunNotFound
  <1>14. ASSUME NEW w \in Workers, NEW s \in {"SUCCEEDED", "PARTIAL", "TIMEOUT"}, EndRun(w, s)
         PROVE  RunInv'
    BY <1>14 DEF EndRun
  <1>15. ASSUME NEW w \in Workers, FailRun(w) PROVE RunInv'
    BY <1>15 DEF FailRun
  <1>16. ASSUME NEW w \in Workers, EmitFailure(w) PROVE RunInv'
    BY <1>16 DEF EmitFailure
  <1>17. ASSUME NEW w \in Workers, ScheduleRetry(w) PROVE RunInv'
    BY <1>17 DEF ScheduleRetry
  <1>18. ASSUME NEW w \in Workers, RequeueJob(w) PROVE RunInv'
    BY <1>18 DEF RequeueJob
  <1>19. ASSUME NEW w \in Workers, AckJob(w) PROVE RunInv'
    BY <1>19 DEF AckJob
  <1>20. ASSUME NEW j \in Jobs, RecoverJob(j) PROVE RunInv'
    BY <1>20 DEF RecoverJob, Redeliver
  <1>21. ASSUME NEW f \in Flows, RetrySchedule(f) PROVE RunInv'
    BY <1>21 DEF RetrySchedule, RollsBack
  <1>22. ASSUME NEW f \in Flows, GiveUpSchedule(f) PROVE RunInv'
    BY <1>22 DEF GiveUpSchedule, RollsBack, Leave
  <1>23. ASSUME NEW f \in Flows, ProcessCrash(f) PROVE RunInv'
    BY <1>23 DEF ProcessCrash
  <1>24. ASSUME NEW w \in Workers, RequeueFails(w) PROVE RunInv'
    BY <1>24 DEF RequeueFails
  <1>25. ASSUME NEW w \in Workers, ProcessorThrows(w) PROVE RunInv'
    BY <1>25 DEF ProcessorThrows
  <1>26. ASSUME NEW w \in Workers, WorkerCrash(w) PROVE RunInv'
    BY <1>26 DEF WorkerCrash
  <1>27. ASSUME NEW j \in Jobs, LeaseLost(j) PROVE RunInv'
    BY <1>27 DEF LeaseLost, Redeliver
  <1>28. ASSUME CronOccurrence PROVE RunInv'
    BY <1>28 DEF CronOccurrence
  <1>29. ASSUME NEW a \in Accounts, NEW m \in AccountModes, EditAccount(a, m)
         PROVE  RunInv'
    BY <1>29 DEF EditAccount
  <1>30. ASSUME NEW q \in Requests, NEW a \in Accounts, TriggerManual(q, a)
         PROVE  RunInv'
    BY <1>30 DEF TriggerManual
  <1>31. ASSUME NEW t \in Tickers, TickMiscounts(t) PROVE RunInv'
    BY <1>31 DEF TickMiscounts, ScanAccounts
  <1>32. ASSUME NEW t \in Tickers, TickFails(t) PROVE RunInv'
    BY <1>32 DEF TickFails
  <1> HIDE ConstantsAssumption DEF IndInv, TypeOK, RunInv, FlowInv,
      WorkerInv, Holding, Creating, Flows, ActiveStatuses, TerminalStatuses,
      FlowGoes, Unlock, WorkerGoes, scheduling, accountRow, runRow, working,
      budget, queueing, history
  <1> QED BY <1>1, <1>2, <1>3, <1>4, <1>5, <1>6, <1>7, <1>8, <1>9, <1>10,
      <1>11, <1>12, <1>13, <1>14, <1>15, <1>16, <1>17, <1>18, <1>19, <1>20,
      <1>21, <1>22, <1>23, <1>24, <1>25, <1>26, <1>27, <1>28, <1>29, <1>30,
      <1>31, <1>32, Zenon DEF Next, TickerStep, SchedulerStep, WorkerStep, Fault, Environment

\* A step leaves workers past loadRun on committed runs, within the retry policy.
LEMMA WorkerInvStep == ASSUME IndInv, Next PROVE WorkerInv'
  <1> USE ConstantsAssumption DEF IndInv, TypeOK, RunInv, FlowInv,
      WorkerInv, Creating, Flows, Jobs, FlowGoes, Unlock, WorkerGoes,
      scheduling, accountRow, runRow, working, budget, queueing, history
  <1>1. ASSUME NEW t \in Tickers, TickHeldBack(t) PROVE WorkerInv'
    BY <1>1 DEF TickHeldBack
  <1>2. ASSUME NEW t \in Tickers, Tick(t) PROVE WorkerInv'
    BY <1>2 DEF Tick, ScanAccounts
  <1>3. ASSUME NEW t \in Tickers, NEW a \in Accounts, NextCandidate(t, a)
         PROVE  WorkerInv'
    BY <1>3 DEF NextCandidate
  <1>4. ASSUME NEW t \in Tickers, TickEnd(t) PROVE WorkerInv'
    BY <1>4 DEF TickEnd
  <1>5. ASSUME NEW f \in Flows, LockRow(f) PROVE WorkerInv'
    BY <1>5 DEF LockRow
  <1>6. ASSUME NEW f \in Flows, RowNotAcquired(f) PROVE WorkerInv'
    BY <1>6 DEF RowNotAcquired, Leave
  <1>7. ASSUME NEW f \in Flows, SkipRun(f) PROVE WorkerInv'
    BY <1>7 DEF SkipRun, Leave
  <1>8. ASSUME NEW f \in Flows, NEW r \in Runs, InsertRun(f, r) PROVE WorkerInv'
    BY <1>8 DEF InsertRun
  <1>9. ASSUME NEW f \in Flows, EnqueueJob(f) PROVE WorkerInv'
    BY <1>9, SMTT(30) DEF EnqueueJob, AddFirstJob
  <1>10. ASSUME NEW f \in Flows, CommitRun(f) PROVE WorkerInv'
    BY <1>10 DEF CommitRun, Leave
  <1>11. ASSUME NEW w \in Workers, NEW j \in Jobs, TakeJob(w, j) PROVE WorkerInv'
    BY <1>11 DEF TakeJob
  <1>12. ASSUME NEW w \in Workers, StartAttempt(w) PROVE WorkerInv'
    BY <1>12 DEF StartAttempt
  <1>13. ASSUME NEW w \in Workers, RunNotFound(w) PROVE WorkerInv'
    BY <1>13 DEF RunNotFound
  <1>14. ASSUME NEW w \in Workers, NEW s \in {"SUCCEEDED", "PARTIAL", "TIMEOUT"}, EndRun(w, s)
         PROVE  WorkerInv'
    BY <1>14 DEF EndRun
  <1>15. ASSUME NEW w \in Workers, FailRun(w) PROVE WorkerInv'
    BY <1>15 DEF FailRun
  <1>16. ASSUME NEW w \in Workers, EmitFailure(w) PROVE WorkerInv'
    BY <1>16 DEF EmitFailure
  <1>17. ASSUME NEW w \in Workers, ScheduleRetry(w) PROVE WorkerInv'
    BY <1>17 DEF ScheduleRetry
  <1>18. ASSUME NEW w \in Workers, RequeueJob(w) PROVE WorkerInv'
    BY <1>18, SMTT(30) DEF RequeueJob, AddNextJob, NextJob
  <1>19. ASSUME NEW w \in Workers, AckJob(w) PROVE WorkerInv'
    <2>1. \A r \in Runs : job'[<<r, MaxRetries + 1>>] = "absent"
      BY <1>19 DEF AckJob
    <2> QED BY <1>19, <2>1 DEF AckJob
  <1>20. ASSUME NEW j \in Jobs, RecoverJob(j) PROVE WorkerInv'
    BY <1>20 DEF RecoverJob, Redeliver, Abandoned
  <1>21. ASSUME NEW f \in Flows, RetrySchedule(f) PROVE WorkerInv'
    BY <1>21 DEF RetrySchedule, RollsBack, AddFirstJob
  <1>22. ASSUME NEW f \in Flows, GiveUpSchedule(f) PROVE WorkerInv'
    BY <1>22 DEF GiveUpSchedule, RollsBack, Leave, AddFirstJob
  <1>23. ASSUME NEW f \in Flows, ProcessCrash(f) PROVE WorkerInv'
    BY <1>23 DEF ProcessCrash
  <1>24. ASSUME NEW w \in Workers, RequeueFails(w) PROVE WorkerInv'
    BY <1>24 DEF RequeueFails
  <1>25. ASSUME NEW w \in Workers, ProcessorThrows(w) PROVE WorkerInv'
    BY <1>25 DEF ProcessorThrows
  <1>26. ASSUME NEW w \in Workers, WorkerCrash(w) PROVE WorkerInv'
    BY <1>26 DEF WorkerCrash
  <1>27. ASSUME NEW j \in Jobs, LeaseLost(j) PROVE WorkerInv'
    BY <1>27 DEF LeaseLost, Redeliver
  <1>28. ASSUME CronOccurrence PROVE WorkerInv'
    BY <1>28 DEF CronOccurrence
  <1>29. ASSUME NEW a \in Accounts, NEW m \in AccountModes, EditAccount(a, m)
         PROVE  WorkerInv'
    BY <1>29 DEF EditAccount
  <1>30. ASSUME NEW q \in Requests, NEW a \in Accounts, TriggerManual(q, a)
         PROVE  WorkerInv'
    BY <1>30 DEF TriggerManual
  <1>31. ASSUME NEW t \in Tickers, TickMiscounts(t) PROVE WorkerInv'
    BY <1>31 DEF TickMiscounts, ScanAccounts
  <1>32. ASSUME NEW t \in Tickers, TickFails(t) PROVE WorkerInv'
    BY <1>32 DEF TickFails
  <1> HIDE ConstantsAssumption DEF IndInv, TypeOK, RunInv, FlowInv,
      WorkerInv, Creating, Flows, Jobs, FlowGoes, Unlock, WorkerGoes,
      scheduling, accountRow, runRow, working, budget, queueing, history
  <1> QED BY <1>1, <1>2, <1>3, <1>4, <1>5, <1>6, <1>7, <1>8, <1>9, <1>10,
      <1>11, <1>12, <1>13, <1>14, <1>15, <1>16, <1>17, <1>18, <1>19, <1>20,
      <1>21, <1>22, <1>23, <1>24, <1>25, <1>26, <1>27, <1>28, <1>29, <1>30,
      <1>31, <1>32, Zenon DEF Next, TickerStep, SchedulerStep, WorkerStep, Fault, Environment

\* A step keeps the locks with the flows that create runs, their identifiers
\* apart, and their accounts without a run in progress.
LEMMA FlowStep == ASSUME IndInv, Next PROVE FlowInv'
  <1> USE ConstantsAssumption DEF IndInv, TypeOK, FlowInv, RunInv,
      WorkerInv, Live, Active, Holding, Creating, Flows, ActiveStatuses,
      TerminalStatuses, FlowGoes, Unlock, WorkerGoes, scheduling, accountRow,
      runRow, working, budget, queueing, history
  <1>1. ASSUME NEW t \in Tickers, TickHeldBack(t) PROVE FlowInv'
    BY <1>1 DEF TickHeldBack
  <1>2. ASSUME NEW t \in Tickers, Tick(t) PROVE FlowInv'
    BY <1>2 DEF Tick, ScanAccounts
  <1>3. ASSUME NEW t \in Tickers, NEW a \in Accounts, NextCandidate(t, a)
         PROVE  FlowInv'
    BY <1>3 DEF NextCandidate
  <1>4. ASSUME NEW t \in Tickers, TickEnd(t) PROVE FlowInv'
    BY <1>4 DEF TickEnd
  <1>5. ASSUME NEW f \in Flows, LockRow(f) PROVE FlowInv'
    BY <1>5 DEF LockRow
  <1>6. ASSUME NEW f \in Flows, RowNotAcquired(f) PROVE FlowInv'
    BY <1>6 DEF RowNotAcquired, Leave
  <1>7. ASSUME NEW f \in Flows, SkipRun(f) PROVE FlowInv'
    BY <1>7 DEF SkipRun, Leave
  <1>8. ASSUME NEW f \in Flows, NEW r \in Runs, InsertRun(f, r) PROVE FlowInv'
    BY <1>8, SMTT(30) DEF InsertRun, Fresh, Refused, HasActiveRun
  <1>9. ASSUME NEW f \in Flows, EnqueueJob(f) PROVE FlowInv'
    BY <1>9 DEF EnqueueJob
  <1>10. ASSUME NEW f \in Flows, CommitRun(f) PROVE FlowInv'
    <2>1. ~ Creating(f)' /\ ~ Holding(f)' /\ pc'[f] # "begin" /\ newRun'[f] = None
      BY <1>10 DEF CommitRun, Leave
    <2>2. \A g \in Flows \ {f} : /\ pc'[g] = pc[g] /\ cur'[g] = cur[g]
                                /\ newRun'[g] = newRun[g]
      BY <1>10 DEF CommitRun, Leave
    <2>3. \A g \in Flows \ {f} : Holding(g) => /\ rowLock'[cur[g]] = rowLock[cur[g]]
                                             /\ mode'[cur[g]] = mode[cur[g]]
      BY <1>10 DEF CommitRun, Leave
    <2>4. \A g \in Flows \ {f} : Creating(g) => /\ newRun[g] # newRun[f]
                                              /\ cur[g] # cur[f]
      BY <1>10 DEF CommitRun
    <2>5. \A g \in Flows \ {f} : Creating(g) =>
             status'[newRun[g]] = "ABSENT" /\ Live(cur[g])' = {}
      <3> SUFFICES ASSUME NEW g \in Flows \ {f}, Creating(g)
                   PROVE  status'[newRun[g]] = "ABSENT" /\ Live(cur[g])' = {}
        OBVIOUS
      <3>1. newRun[g] # newRun[f] /\ cur[g] # cur[f] BY <2>4
      <3>2. newRun[f] \in Runs /\ newRun[g] \in Runs /\ Live(cur[g]) = {}
        BY <1>10 DEF CommitRun
      <3>3. status'[newRun[g]] = "ABSENT" BY <1>10, <3>1, <3>2, SMTT(30) DEF CommitRun
      <3>4. account'[newRun[f]] = cur[f] BY <1>10, <3>2 DEF CommitRun
      <3>5. \A r \in Runs \ {newRun[f]} : account'[r] = account[r] /\ status'[r] = status[r]
        BY <1>10 DEF CommitRun
      <3>6. ended' = ended /\ cur'[g] = cur[g] BY <1>10, <2>2 DEF CommitRun
      <3>7. \A r \in Runs : ~ (account'[r] = cur'[g] /\ Active(r)' /\ r \notin ended')
        <4> SUFFICES ASSUME NEW r \in Runs
                     PROVE  ~ (account'[r] = cur'[g] /\ Active(r)' /\ r \notin ended')
          OBVIOUS
        <4>1. CASE r = newRun[f] BY <4>1, <3>1, <3>4, <3>6
        <4>2. CASE r # newRun[f] BY <4>2, <3>2, <3>5, <3>6
        <4> QED BY <4>1, <4>2
      <3> HIDE DEF Active
      <3> QED BY <3>3, <3>7
    <2>6. FlowInv OBVIOUS
    <2> HIDE ConstantsAssumption DEF IndInv, TypeOK, RunInv, WorkerInv, Live, Active,
        ActiveStatuses, TerminalStatuses, FlowGoes, Unlock, Flows
    <2> QED BY <2>1, <2>2, <2>3, <2>4, <2>5, <2>6 DEF FlowInv
  <1>11. ASSUME NEW w \in Workers, NEW j \in Jobs, TakeJob(w, j) PROVE FlowInv'
    BY <1>11 DEF TakeJob
  <1>12. ASSUME NEW w \in Workers, StartAttempt(w) PROVE FlowInv'
    <2>1. \A a \in Accounts : Live(a)' = Live(a)
      <3> HIDE DEF Live, IndInv
      <3> QED BY <1>12, ActiveWriteKeepsLive
    <2>2. \A g \in Flows : Creating(g) => status'[newRun[g]] = "ABSENT"
      BY <1>12 DEF StartAttempt, WorkerInv, Creating
    <2> QED BY <1>12, <2>1, <2>2 DEF StartAttempt, FlowInv, Holding, Creating
  <1>13. ASSUME NEW w \in Workers, RunNotFound(w) PROVE FlowInv'
    BY <1>13 DEF RunNotFound
  <1>14. ASSUME NEW w \in Workers, NEW s \in {"SUCCEEDED", "PARTIAL", "TIMEOUT"}, EndRun(w, s)
         PROVE  FlowInv'
    BY <1>14 DEF EndRun
  <1>15. ASSUME NEW w \in Workers, FailRun(w) PROVE FlowInv'
    BY <1>15 DEF FailRun
  <1>16. ASSUME NEW w \in Workers, EmitFailure(w) PROVE FlowInv'
    BY <1>16 DEF EmitFailure
  <1>17. ASSUME NEW w \in Workers, ScheduleRetry(w) PROVE FlowInv'
    <2>1. \A a \in Accounts : Live(a)' = Live(a)
      <3> HIDE DEF Live, IndInv
      <3> QED BY <1>17, ActiveWriteKeepsLive
    <2>2. \A g \in Flows : Creating(g) => status'[newRun[g]] = "ABSENT"
      BY <1>17 DEF ScheduleRetry, WorkerInv, Creating
    <2> QED BY <1>17, <2>1, <2>2 DEF ScheduleRetry, FlowInv, Holding, Creating
  <1>18. ASSUME NEW w \in Workers, RequeueJob(w) PROVE FlowInv'
    BY <1>18 DEF RequeueJob
  <1>19. ASSUME NEW w \in Workers, AckJob(w) PROVE FlowInv'
    BY <1>19 DEF AckJob
  <1>20. ASSUME NEW j \in Jobs, RecoverJob(j) PROVE FlowInv'
    BY <1>20 DEF RecoverJob, Redeliver
  <1>21. ASSUME NEW f \in Flows, RetrySchedule(f) PROVE FlowInv'
    BY <1>21 DEF RetrySchedule, RollsBack
  <1>22. ASSUME NEW f \in Flows, GiveUpSchedule(f) PROVE FlowInv'
    BY <1>22 DEF GiveUpSchedule, RollsBack, Leave
  <1>23. ASSUME NEW f \in Flows, ProcessCrash(f) PROVE FlowInv'
    BY <1>23 DEF ProcessCrash
  <1>24. ASSUME NEW w \in Workers, RequeueFails(w) PROVE FlowInv'
    BY <1>24 DEF RequeueFails
  <1>25. ASSUME NEW w \in Workers, ProcessorThrows(w) PROVE FlowInv'
    BY <1>25 DEF ProcessorThrows
  <1>26. ASSUME NEW w \in Workers, WorkerCrash(w) PROVE FlowInv'
    BY <1>26 DEF WorkerCrash
  <1>27. ASSUME NEW j \in Jobs, LeaseLost(j) PROVE FlowInv'
    BY <1>27 DEF LeaseLost, Redeliver
  <1>28. ASSUME CronOccurrence PROVE FlowInv'
    BY <1>28 DEF CronOccurrence
  <1>29. ASSUME NEW a \in Accounts, NEW m \in AccountModes, EditAccount(a, m)
         PROVE  FlowInv'
    BY <1>29 DEF EditAccount
  <1>30. ASSUME NEW q \in Requests, NEW a \in Accounts, TriggerManual(q, a)
         PROVE  FlowInv'
    BY <1>30 DEF TriggerManual
  <1>31. ASSUME NEW t \in Tickers, TickMiscounts(t) PROVE FlowInv'
    BY <1>31 DEF TickMiscounts, ScanAccounts
  <1>32. ASSUME NEW t \in Tickers, TickFails(t) PROVE FlowInv'
    BY <1>32 DEF TickFails
  <1> HIDE ConstantsAssumption DEF IndInv, TypeOK, FlowInv, RunInv,
      WorkerInv, Live, Active, Holding, Creating, Flows, ActiveStatuses,
      TerminalStatuses, FlowGoes, Unlock, WorkerGoes, scheduling, accountRow,
      runRow, working, budget, queueing, history
  <1> QED BY <1>1, <1>2, <1>3, <1>4, <1>5, <1>6, <1>7, <1>8, <1>9, <1>10,
      <1>11, <1>12, <1>13, <1>14, <1>15, <1>16, <1>17, <1>18, <1>19, <1>20,
      <1>21, <1>22, <1>23, <1>24, <1>25, <1>26, <1>27, <1>28, <1>29, <1>30,
      <1>31, <1>32, Zenon DEF Next, TickerStep, SchedulerStep, WorkerStep, Fault, Environment

\* A step does not give an account a second live run.
LEMMA SingleFlightStep == ASSUME IndInv, Next PROVE SingleFlight'
  <1> USE ConstantsAssumption DEF IndInv, SingleFlight, TypeOK, FlowInv,
      RunInv, WorkerInv, Live, Active, Holding, Creating, Flows, ActiveStatuses,
      TerminalStatuses, FlowGoes, Unlock, WorkerGoes, scheduling, accountRow,
      runRow, working, budget, queueing, history
  <1>1. ASSUME NEW t \in Tickers, TickHeldBack(t) PROVE SingleFlight'
    BY <1>1 DEF TickHeldBack
  <1>2. ASSUME NEW t \in Tickers, Tick(t) PROVE SingleFlight'
    BY <1>2 DEF Tick, ScanAccounts
  <1>3. ASSUME NEW t \in Tickers, NEW a \in Accounts, NextCandidate(t, a)
         PROVE  SingleFlight'
    BY <1>3 DEF NextCandidate
  <1>4. ASSUME NEW t \in Tickers, TickEnd(t) PROVE SingleFlight'
    BY <1>4 DEF TickEnd
  <1>5. ASSUME NEW f \in Flows, LockRow(f) PROVE SingleFlight'
    BY <1>5 DEF LockRow
  <1>6. ASSUME NEW f \in Flows, RowNotAcquired(f) PROVE SingleFlight'
    BY <1>6 DEF RowNotAcquired, Leave
  <1>7. ASSUME NEW f \in Flows, SkipRun(f) PROVE SingleFlight'
    BY <1>7 DEF SkipRun, Leave
  <1>8. ASSUME NEW f \in Flows, NEW r \in Runs, InsertRun(f, r) PROVE SingleFlight'
    BY <1>8 DEF InsertRun
  <1>9. ASSUME NEW f \in Flows, EnqueueJob(f) PROVE SingleFlight'
    BY <1>9 DEF EnqueueJob
  <1>10. ASSUME NEW f \in Flows, CommitRun(f) PROVE SingleFlight'
    BY <1>10 DEF CommitRun, Leave
  <1>11. ASSUME NEW w \in Workers, NEW j \in Jobs, TakeJob(w, j) PROVE SingleFlight'
    BY <1>11 DEF TakeJob
  <1>12. ASSUME NEW w \in Workers, StartAttempt(w) PROVE SingleFlight'
    <2>1. \A a \in Accounts : Live(a)' = Live(a)
      <3> HIDE DEF Live, IndInv
      <3> QED BY <1>12, ActiveWriteKeepsLive
    <2> QED BY <1>12, <2>1 DEF StartAttempt
  <1>13. ASSUME NEW w \in Workers, RunNotFound(w) PROVE SingleFlight'
    BY <1>13 DEF RunNotFound
  <1>14. ASSUME NEW w \in Workers, NEW s \in {"SUCCEEDED", "PARTIAL", "TIMEOUT"}, EndRun(w, s)
         PROVE  SingleFlight'
    BY <1>14 DEF EndRun
  <1>15. ASSUME NEW w \in Workers, FailRun(w) PROVE SingleFlight'
    BY <1>15 DEF FailRun
  <1>16. ASSUME NEW w \in Workers, EmitFailure(w) PROVE SingleFlight'
    BY <1>16 DEF EmitFailure
  <1>17. ASSUME NEW w \in Workers, ScheduleRetry(w) PROVE SingleFlight'
    <2>1. \A a \in Accounts : Live(a)' = Live(a)
      <3> HIDE DEF Live, IndInv
      <3> QED BY <1>17, ActiveWriteKeepsLive
    <2> QED BY <1>17, <2>1 DEF ScheduleRetry
  <1>18. ASSUME NEW w \in Workers, RequeueJob(w) PROVE SingleFlight'
    BY <1>18 DEF RequeueJob
  <1>19. ASSUME NEW w \in Workers, AckJob(w) PROVE SingleFlight'
    BY <1>19 DEF AckJob
  <1>20. ASSUME NEW j \in Jobs, RecoverJob(j) PROVE SingleFlight'
    BY <1>20 DEF RecoverJob, Redeliver
  <1>21. ASSUME NEW f \in Flows, RetrySchedule(f) PROVE SingleFlight'
    BY <1>21 DEF RetrySchedule, RollsBack
  <1>22. ASSUME NEW f \in Flows, GiveUpSchedule(f) PROVE SingleFlight'
    BY <1>22 DEF GiveUpSchedule, RollsBack, Leave
  <1>23. ASSUME NEW f \in Flows, ProcessCrash(f) PROVE SingleFlight'
    BY <1>23 DEF ProcessCrash
  <1>24. ASSUME NEW w \in Workers, RequeueFails(w) PROVE SingleFlight'
    BY <1>24 DEF RequeueFails
  <1>25. ASSUME NEW w \in Workers, ProcessorThrows(w) PROVE SingleFlight'
    BY <1>25 DEF ProcessorThrows
  <1>26. ASSUME NEW w \in Workers, WorkerCrash(w) PROVE SingleFlight'
    BY <1>26 DEF WorkerCrash
  <1>27. ASSUME NEW j \in Jobs, LeaseLost(j) PROVE SingleFlight'
    BY <1>27 DEF LeaseLost, Redeliver
  <1>28. ASSUME CronOccurrence PROVE SingleFlight'
    BY <1>28 DEF CronOccurrence
  <1>29. ASSUME NEW a \in Accounts, NEW m \in AccountModes, EditAccount(a, m)
         PROVE  SingleFlight'
    BY <1>29 DEF EditAccount
  <1>30. ASSUME NEW q \in Requests, NEW a \in Accounts, TriggerManual(q, a)
         PROVE  SingleFlight'
    BY <1>30 DEF TriggerManual
  <1>31. ASSUME NEW t \in Tickers, TickMiscounts(t) PROVE SingleFlight'
    BY <1>31 DEF TickMiscounts, ScanAccounts
  <1>32. ASSUME NEW t \in Tickers, TickFails(t) PROVE SingleFlight'
    BY <1>32 DEF TickFails
  <1> HIDE ConstantsAssumption DEF IndInv, SingleFlight, TypeOK, FlowInv,
      RunInv, WorkerInv, Live, Active, Holding, Creating, Flows, ActiveStatuses,
      TerminalStatuses, FlowGoes, Unlock, WorkerGoes, scheduling, accountRow,
      runRow, working, budget, queueing, history
  <1> QED BY <1>1, <1>2, <1>3, <1>4, <1>5, <1>6, <1>7, <1>8, <1>9, <1>10,
      <1>11, <1>12, <1>13, <1>14, <1>15, <1>16, <1>17, <1>18, <1>19, <1>20,
      <1>21, <1>22, <1>23, <1>24, <1>25, <1>26, <1>27, <1>28, <1>29, <1>30,
      <1>31, <1>32, Zenon DEF Next, TickerStep, SchedulerStep, WorkerStep, Fault, Environment

\* A step keeps an AUTO run from being committed for a manual-only account.
LEMMA SettingsStep ==
    ASSUME IndInv, AutoRunRespectsSettings, Next
    PROVE  AutoRunRespectsSettings'
  <1> USE ConstantsAssumption
      DEF IndInv, TypeOK, FlowInv, AutoRunRespectsSettings, Holding, Creating, Flows,
      AccountModes, FlowGoes, Unlock, WorkerGoes, scheduling, accountRow, runRow,
      working, budget, queueing, history
  <1>1. ASSUME NEW t \in Tickers, TickHeldBack(t) PROVE AutoRunRespectsSettings'
    BY <1>1 DEF TickHeldBack
  <1>2. ASSUME NEW t \in Tickers, Tick(t) PROVE AutoRunRespectsSettings'
    BY <1>2 DEF Tick, ScanAccounts
  <1>3. ASSUME NEW t \in Tickers, NEW a \in Accounts, NextCandidate(t, a)
         PROVE  AutoRunRespectsSettings'
    BY <1>3 DEF NextCandidate
  <1>4. ASSUME NEW t \in Tickers, TickEnd(t) PROVE AutoRunRespectsSettings'
    BY <1>4 DEF TickEnd
  <1>5. ASSUME NEW f \in Flows, LockRow(f) PROVE AutoRunRespectsSettings'
    BY <1>5 DEF LockRow
  <1>6. ASSUME NEW f \in Flows, RowNotAcquired(f) PROVE AutoRunRespectsSettings'
    BY <1>6 DEF RowNotAcquired, Leave
  <1>7. ASSUME NEW f \in Flows, SkipRun(f) PROVE AutoRunRespectsSettings'
    BY <1>7 DEF SkipRun, Leave
  <1>8. ASSUME NEW f \in Flows, NEW r \in Runs, InsertRun(f, r)
         PROVE  AutoRunRespectsSettings'
    BY <1>8 DEF InsertRun, Refused
  <1>9. ASSUME NEW f \in Flows, EnqueueJob(f) PROVE AutoRunRespectsSettings'
    BY <1>9 DEF EnqueueJob
  <1>10. ASSUME NEW f \in Flows, CommitRun(f) PROVE AutoRunRespectsSettings'
    BY <1>10 DEF CommitRun, Leave
  <1>11. ASSUME NEW w \in Workers, NEW j \in Jobs, TakeJob(w, j)
         PROVE  AutoRunRespectsSettings'
    BY <1>11 DEF TakeJob
  <1>12. ASSUME NEW w \in Workers, StartAttempt(w) PROVE AutoRunRespectsSettings'
    BY <1>12 DEF StartAttempt
  <1>13. ASSUME NEW w \in Workers, RunNotFound(w) PROVE AutoRunRespectsSettings'
    BY <1>13 DEF RunNotFound
  <1>14. ASSUME NEW w \in Workers, NEW s \in {"SUCCEEDED", "PARTIAL", "TIMEOUT"}, EndRun(w, s)
         PROVE  AutoRunRespectsSettings'
    BY <1>14 DEF EndRun
  <1>15. ASSUME NEW w \in Workers, FailRun(w) PROVE AutoRunRespectsSettings'
    BY <1>15 DEF FailRun
  <1>16. ASSUME NEW w \in Workers, EmitFailure(w) PROVE AutoRunRespectsSettings'
    BY <1>16 DEF EmitFailure
  <1>17. ASSUME NEW w \in Workers, ScheduleRetry(w) PROVE AutoRunRespectsSettings'
    BY <1>17 DEF ScheduleRetry
  <1>18. ASSUME NEW w \in Workers, RequeueJob(w) PROVE AutoRunRespectsSettings'
    BY <1>18 DEF RequeueJob
  <1>19. ASSUME NEW w \in Workers, AckJob(w) PROVE AutoRunRespectsSettings'
    BY <1>19 DEF AckJob
  <1>20. ASSUME NEW j \in Jobs, RecoverJob(j) PROVE AutoRunRespectsSettings'
    BY <1>20 DEF RecoverJob, Redeliver
  <1>21. ASSUME NEW f \in Flows, RetrySchedule(f) PROVE AutoRunRespectsSettings'
    BY <1>21 DEF RetrySchedule, RollsBack
  <1>22. ASSUME NEW f \in Flows, GiveUpSchedule(f) PROVE AutoRunRespectsSettings'
    BY <1>22 DEF GiveUpSchedule, RollsBack, Leave
  <1>23. ASSUME NEW f \in Flows, ProcessCrash(f) PROVE AutoRunRespectsSettings'
    BY <1>23 DEF ProcessCrash
  <1>24. ASSUME NEW w \in Workers, RequeueFails(w) PROVE AutoRunRespectsSettings'
    BY <1>24 DEF RequeueFails
  <1>25. ASSUME NEW w \in Workers, ProcessorThrows(w) PROVE AutoRunRespectsSettings'
    BY <1>25 DEF ProcessorThrows
  <1>26. ASSUME NEW w \in Workers, WorkerCrash(w) PROVE AutoRunRespectsSettings'
    BY <1>26 DEF WorkerCrash
  <1>27. ASSUME NEW j \in Jobs, LeaseLost(j) PROVE AutoRunRespectsSettings'
    BY <1>27 DEF LeaseLost, Redeliver
  <1>28. ASSUME CronOccurrence PROVE AutoRunRespectsSettings'
    BY <1>28 DEF CronOccurrence
  <1>29. ASSUME NEW a \in Accounts, NEW m \in AccountModes, EditAccount(a, m)
         PROVE  AutoRunRespectsSettings'
    BY <1>29 DEF EditAccount
  <1>30. ASSUME NEW q \in Requests, NEW a \in Accounts, TriggerManual(q, a)
         PROVE  AutoRunRespectsSettings'
    BY <1>30 DEF TriggerManual
  <1>31. ASSUME NEW t \in Tickers, TickMiscounts(t) PROVE AutoRunRespectsSettings'
    BY <1>31 DEF TickMiscounts, ScanAccounts
  <1>32. ASSUME NEW t \in Tickers, TickFails(t) PROVE AutoRunRespectsSettings'
    BY <1>32 DEF TickFails
  <1> HIDE ConstantsAssumption
      DEF IndInv, TypeOK, FlowInv, AutoRunRespectsSettings, Holding, Creating, Flows,
      AccountModes, FlowGoes, Unlock, WorkerGoes, scheduling, accountRow, runRow,
      working, budget, queueing, history
  <1> QED BY <1>1, <1>2, <1>3, <1>4, <1>5, <1>6, <1>7, <1>8, <1>9, <1>10,
      <1>11, <1>12, <1>13, <1>14, <1>15, <1>16, <1>17, <1>18, <1>19, <1>20,
      <1>21, <1>22, <1>23, <1>24, <1>25, <1>26, <1>27, <1>28, <1>29, <1>30,
      <1>31, <1>32, Zenon DEF Next, TickerStep, SchedulerStep, WorkerStep, Fault, Environment

-----------------------------------------------------------------------------
(* Theorems *)

\* The initial states satisfy the inductive invariant.
LEMMA InitIndInv == Init => IndInv
  <1> SUFFICES ASSUME Init PROVE IndInv OBVIOUS
  <1>1. TypeOK
    <2>1. 0 \in 0..MaxSlot /\ 0 \in 0..MaxFaults /\ 0 \in 0..MaxEdits /\ 0 \in 0..MaxStalls
          /\ 0 \in 0..MaxRetries /\ 0 \in 0..(InfraRetryLimit - 1) /\ Never \in Never..MaxSlot
      BY ConstantsAssumption DEF Never
    <2>2. fires \in [Accounts -> [0..MaxSlot -> Nat]] BY DEF Init
    <2>3. mode \in [Accounts -> AccountModes] BY DEF Init, AccountModes
    <2> QED BY <2>1, <2>2, <2>3
        DEF Init, TypeOK, FlowPcs, WorkerPcs, JobStates, Statuses
  <1>2. FlowInv BY DEF Init, FlowInv, Holding, Creating
  <1>3. RunInv BY DEF Init, RunInv, TerminalStatuses
  <1>4. WorkerInv BY ConstantsAssumption DEF Init, WorkerInv, Jobs
  <1>5. SingleFlight BY DEF Init, SingleFlight, Live, Active, ActiveStatuses
  <1> QED BY <1>1, <1>2, <1>3, <1>4, <1>5 DEF IndInv

\* Every step, stuttering included, preserves the inductive invariant.
LEMMA IndInvStep == IndInv /\ [Next]_vars => IndInv'
  <1> SUFFICES ASSUME IndInv, [Next]_vars PROVE IndInv' OBVIOUS
  <1>1. CASE Next
    BY <1>1, TypeStep, FlowStep, RunStep, WorkerInvStep, SingleFlightStep DEF IndInv
  <1>2. CASE UNCHANGED vars
    BY <1>2 DEF vars, scheduling, accountRow, runRow, working, budget, queueing, history,
       IndInv, TypeOK, FlowInv, RunInv, WorkerInv, SingleFlight, Live, Active, Holding,
       Creating
  <1> QED BY <1>1, <1>2

\* The inductive invariant holds in every reachable state.
THEOREM Invariance == SafeSpec => []IndInv
  BY InitIndInv, IndInvStep, PTL DEF SafeSpec

\* Every variable of the pipeline stays in its type; in particular no worker
\* receives an attempt beyond maxRetries.
THEOREM TypeCorrect == SafeSpec => []TypeOK
  <1>1. IndInv => TypeOK BY DEF IndInv
  <1> QED BY <1>1, Invariance, PTL

\* Single flight: scheduleRunOnce never commits a second run for an account
\* that still waits for one.
THEOREM SingleFlightHolds == SafeSpec => []SingleFlight
  <1>1. IndInv => SingleFlight BY DEF IndInv
  <1> QED BY <1>1, Invariance, PTL

\* The re-check under the row lock: no tick commits a run for an account that
\* has become manual-only or was deleted.
THEOREM SettingsRespected == SafeSpec => []AutoRunRespectsSettings
  <1>1. Init => AutoRunRespectsSettings BY DEF Init, AutoRunRespectsSettings, Flows
  <1>2. IndInv /\ AutoRunRespectsSettings /\ [Next]_vars => AutoRunRespectsSettings'
    <2> SUFFICES ASSUME IndInv, AutoRunRespectsSettings, [Next]_vars
                 PROVE  AutoRunRespectsSettings'
      OBVIOUS
    <2>1. CASE Next BY <2>1, SettingsStep
    <2>2. CASE UNCHANGED vars
      BY <2>2 DEF vars, scheduling, accountRow, AutoRunRespectsSettings
    <2> QED BY <2>1, <2>2
  <1> QED BY <1>1, <1>2, Invariance, PTL DEF SafeSpec

-----------------------------------------------------------------------------
(* The pipeline implements the ledger *)

\* A step that leaves the run rows and `ended` alone changes nothing in the
\* ledger.
LEMMA NoLedgerChange ==
    ASSUME UNCHANGED <<status, account, ended>>
    PROVE  UNCHANGED Ledger!ledger
  <1>1. \A a : Live(a)' = Live(a) BY DEF Live, Active
  <1> QED BY <1>1 DEF Ledger!ledger

\* Active statuses written by a worker do not change the ledger.
LEMMA ActiveWriteKeepsLedger ==
    ASSUME IndInv, NEW w \in Workers, StartAttempt(w) \/ ScheduleRetry(w)
    PROVE  UNCHANGED Ledger!ledger
  <1>1. \A a : Live(a)' = Live(a) BY ActiveWriteKeepsLive
  <1>2. UNCHANGED ended BY DEF StartAttempt, ScheduleRetry, history
  <1> QED BY <1>1, <1>2 DEF Ledger!ledger

\* The commit of the scheduler's transaction opens the run.
LEMMA CommitOpens ==
    ASSUME IndInv, NEW f \in Flows, CommitRun(f)
    PROVE  Ledger!Open(cur[f], newRun[f])
  <1> DEFINE c == cur[f]
             r == newRun[f]
  <1>1. c \in Accounts /\ r \in Runs
    BY DEF IndInv, TypeOK, FlowInv, Holding, Creating, CommitRun
  <1>2. status[r] = "ABSENT" /\ Live(c) = {}
    BY DEF IndInv, FlowInv, Creating, CommitRun
  <1>3. r \notin ended BY <1>1, <1>2 DEF IndInv, RunInv
  <1>4. \A b \in Accounts : r \notin Live(b)
    BY <1>2 DEF Live, Active, ActiveStatuses
  <1>5. ended' = ended BY DEF CommitRun
  <1>6. status' = [status EXCEPT ![r] = "QUEUED"] /\ account' = [account EXCEPT ![r] = c]
    BY DEF CommitRun
  <1>7. \A b \in Accounts : Live(b)' = IF b = c THEN {r} ELSE Live(b)
    <2> SUFFICES ASSUME NEW b \in Accounts, NEW x \in Runs
                 PROVE  (account[x] = b /\ Active(x) /\ x \notin ended)'
                          <=> IF b = c THEN x = r ELSE x \in Live(b)
      BY <1>1 DEF Live
    <2>1. CASE x = r
      BY <2>1, <1>1, <1>3, <1>4, <1>5, <1>6 DEF Active, ActiveStatuses, IndInv, TypeOK
    <2>2. CASE x # r
      BY <2>2, <1>2, <1>5, <1>6 DEF Active, Live, IndInv, TypeOK
    <2> QED BY <2>1, <2>2
  <1>8. [a \in Accounts |-> Live(a)]' = [[a \in Accounts |-> Live(a)] EXCEPT ![c] = {r}]
    BY <1>1, <1>7
  <1> QED BY <1>1, <1>2, <1>3, <1>4, <1>5, <1>8 DEF Ledger!Open

\* A terminal status closes the run, or, when a redelivered job ends a run
\* that had ended before, changes nothing.
LEMMA TerminalCloses ==
    ASSUME IndInv, NEW w \in Workers, NEW s \in TerminalStatuses,
           workerPc[w] = "running",
           status' = [status EXCEPT ![workerRun[w]] = s],
           ended' = ended \union {workerRun[w]},
           UNCHANGED account
    PROVE  \/ UNCHANGED Ledger!ledger
           \/ \E a \in Accounts : Ledger!Close(a, workerRun[w])
  <1> DEFINE r == workerRun[w]
             a == account[r]
  <1>1. r \in Runs /\ a \in Accounts
    BY DEF IndInv, TypeOK, WorkerInv, RunInv
  <1>2. \A b : Live(b)' = Live(b) \ {r}
    <2> SUFFICES ASSUME NEW b, NEW x \in Runs
                 PROVE  (account[x] = b /\ Active(x) /\ x \notin ended)'
                          <=> x \in Live(b) /\ x # r
      BY DEF Live
    <2>1. CASE x = r BY <2>1
    <2>2. CASE x # r BY <2>2 DEF Active, Live, IndInv, TypeOK
    <2> QED BY <2>1, <2>2
  <1>3. CASE r \in ended
    <2>1. \A b : Live(b)' = Live(b) BY <1>2, <1>3 DEF Live
    <2> QED BY <2>1, <1>3 DEF Ledger!ledger
  <1>4. CASE r \notin ended
    <2>1. r \in Live(a)
      BY <1>1, <1>4 DEF Live, Active, IndInv, TypeOK, RunInv, WorkerInv, Statuses
    <2>2. \A b \in Accounts : b # a => r \notin Live(b) BY DEF Live
    <2>3. [b \in Accounts |-> Live(b)]' =
            [[b \in Accounts |-> Live(b)] EXCEPT ![a] = @ \ {r}]
      BY <1>1, <1>2, <2>2
    <2>4. Ledger!Close(a, r) BY <1>1, <2>1, <2>3 DEF Ledger!Close
    <2> QED BY <1>1, <2>4
  <1> QED BY <1>3, <1>4

\* Every step of the pipeline is a step of the ledger or leaves it alone.
LEMMA LedgerStep ==
    ASSUME IndInv, [Next]_vars
    PROVE  [Ledger!Next]_(Ledger!ledger)
  <1>1. ASSUME NEW f \in Flows, CommitRun(f) PROVE Ledger!Next
    <2>1. cur[f] \in Accounts /\ newRun[f] \in Runs
      BY <1>1 DEF IndInv, TypeOK, FlowInv, Holding, Creating, CommitRun
    <2> QED BY <1>1, <2>1, CommitOpens DEF Ledger!Next
  <1>2. ASSUME NEW w \in Workers, (\E s \in {"SUCCEEDED", "PARTIAL", "TIMEOUT"} : EndRun(w, s)) \/ FailRun(w)
        PROVE  [Ledger!Next]_(Ledger!ledger)
    <2>1. workerPc[w] = "running" /\ workerRun[w] \in Runs
      BY <1>2 DEF EndRun, FailRun, IndInv, WorkerInv
    <2>2. ended' = ended \union {workerRun[w]} /\ account' = account
      BY <1>2 DEF EndRun, FailRun
    <2>3. PICK s \in TerminalStatuses : status' = [status EXCEPT ![workerRun[w]] = s]
      BY <1>2 DEF EndRun, FailRun, TerminalStatuses
    <2> QED BY <2>1, <2>2, <2>3, TerminalCloses DEF Ledger!Next
  <1>3. ASSUME NEW w \in Workers, StartAttempt(w) \/ ScheduleRetry(w)
        PROVE  UNCHANGED Ledger!ledger
    BY <1>3, ActiveWriteKeepsLedger
  <1>4. ASSUME NEW t \in Tickers, TickerStep(t) PROVE UNCHANGED Ledger!ledger
    BY <1>4, NoLedgerChange
       DEF TickerStep, TickHeldBack, Tick, ScanAccounts, NextCandidate, TickEnd, runRow, history
  <1>5. ASSUME NEW f \in Flows, SchedulerStep(f), ~ CommitRun(f)
        PROVE  UNCHANGED Ledger!ledger
    BY <1>5, NoLedgerChange
       DEF SchedulerStep, LockRow, RowNotAcquired, SkipRun, InsertRun, EnqueueJob, runRow, history
  <1>6. ASSUME NEW w \in Workers,
               \/ \E j \in Jobs : TakeJob(w, j)
               \/ RunNotFound(w) \/ EmitFailure(w) \/ RequeueJob(w) \/ AckJob(w)
        PROVE  UNCHANGED Ledger!ledger
    BY <1>6, NoLedgerChange
       DEF TakeJob, RunNotFound, EmitFailure, RequeueJob, AckJob, runRow, history
  <1>7. ASSUME NEW j \in Jobs, RecoverJob(j) PROVE UNCHANGED Ledger!ledger
    BY <1>7, NoLedgerChange DEF RecoverJob, Redeliver, runRow, history
  <1>8. ASSUME Fault \/ Environment PROVE UNCHANGED Ledger!ledger
    BY <1>8, NoLedgerChange
       DEF Fault, TickMiscounts, TickFails, ScanAccounts, RetrySchedule, GiveUpSchedule,
       RollsBack, ProcessCrash, RequeueFails,
       ProcessorThrows, WorkerCrash, LeaseLost, Redeliver, Environment, CronOccurrence,
       EditAccount, TriggerManual, runRow, history
  <1>9. ASSUME UNCHANGED vars PROVE UNCHANGED Ledger!ledger
    BY <1>9, NoLedgerChange DEF vars, runRow, history
  <1>10. ASSUME NEW w \in Workers, WorkerStep(w) PROVE [Ledger!Next]_(Ledger!ledger)
    BY <1>10, <1>2, <1>3, <1>6, Zenon DEF WorkerStep
  <1>11. ASSUME NEW f \in Flows, SchedulerStep(f) PROVE [Ledger!Next]_(Ledger!ledger)
    BY <1>11, <1>1, <1>5, Zenon
  <1> QED BY <1>4, <1>7, <1>8, <1>9, <1>10, <1>11, Zenon DEF Next

\* Refinement: with the account's live runs for `open` and the runs that ever
\* ended for `closed`, every behaviour of the pipeline is one of RunLedger, so
\* no account has two open runs and no closed run is opened again.
THEOREM Refinement == SafeSpec => LedgerSpec
  <1>1. Init => Ledger!Init
    BY DEF Init, Ledger!Init, Live, Active, ActiveStatuses
  <1>2. IndInv /\ [Next]_vars => [Ledger!Next]_(Ledger!ledger) BY LedgerStep
  <1> QED BY <1>1, <1>2, Invariance, PTL DEF SafeSpec, LedgerSpec, Ledger!Spec
-----------------------------------------------------------------------------
(* Jobs and workers *)

\* The job a worker holds; the workers that may still change the status of its
\* run, or add a job; the workers that are not through with theirs.
JobOf(w) == <<workerRun[w], workerAttempt[w]>>
Trying(w) == workerPc[w] \in {"taken", "running", "requeue"}
Busy(w) == workerPc[w] \in {"taken", "running", "requeue", "alert"}

\* A worker holds a job that was added; the attempts of a run are added from the
\* first on, once a flow has inserted its row; a job that was never added never
\* stalled.
JobOrder ==
    /\ \A w \in Workers : workerPc[w] # "idle" => job[JobOf(w)] # "absent"
    /\ \A r \in Runs, n \in 0..(MaxRetries + 1) :
          job[<<r, n>>] # "absent" => job[<<r, 0>>] # "absent"
    /\ \A j \in Jobs : stalls[j] > 0 => job[j] # "absent"
    /\ \A f \in Flows : pc[f] = "inserted" => job[<<newRun[f], 0>>] = "absent"

\* While no job of a run was redelivered, a job is with one worker, who has the
\* lease on it (or lost it for good, if BullMQ redelivers nothing).
LeaseInv ==
    \A w \in Workers :
        workerPc[w] # "idle" /\ ~ Redelivered(workerRun[w]) =>
            /\ \/ job[JobOf(w)] = "active" /\ holder[JobOf(w)] = w
               \/ job[JobOf(w)] = "finished" /\ MaxStalls = 0
            /\ \A v \in Workers : workerPc[v] # "idle" /\ JobOf(v) = JobOf(w) => v = w

\* An attempt is added when the worker of the one before is through with it.
AttemptInv ==
    \A r \in Runs : ~ Redelivered(r) =>
        \A m, n \in 0..(MaxRetries + 1) :
            m < n /\ job[<<r, n>>] # "absent" =>
                /\ job[<<r, m>>] \in {"active", "finished"}
                /\ \A w \in Workers : Busy(w) => JobOf(w) # <<r, m>>

\* Nobody works on a run that reached a terminal status, nor will.
EndedInv ==
    \A r \in Runs : status[r] \in TerminalStatuses /\ ~ Redelivered(r) =>
        /\ \A n \in 0..(MaxRetries + 1) : job[<<r, n>>] # "waiting"
        /\ \A w \in Workers : workerRun[w] = r => ~ Trying(w)

\* The job of a FAILED run is with a worker about to announce it, or with one
\* that died before it did.
AlertInv ==
    MaxStalls > 0 =>
        \A r \in Runs : status[r] = "FAILED" /\ r \notin alerted /\ ~ Redelivered(r) =>
            \E n \in 0..MaxRetries :
                /\ job[<<r, n>>] = "active"
                /\ \A w \in Workers :
                      JobOf(w) = <<r, n>> => workerPc[w] \in {"idle", "alert"}

\* Without a fault: nothing stalls, the worker of an active job is alive, and a
\* run that is committed, or about to be, and has not ended has a job in the
\* queue or a worker, unless its job came too early.
Pending(r) == Active(r) \/ \E f \in Flows : pc[f] = "enqueued" /\ newRun[f] = r
LookedAfter(r) ==
    \/ \E n \in 0..(MaxRetries + 1) : job[<<r, n>>] = "waiting"
    \/ \E w \in Workers : workerRun[w] = r /\ Trying(w)
CalmInv ==
    faults = 0 =>
        /\ \A j \in Jobs : stalls[j] = 0
        /\ \A j \in Jobs : job[j] = "active" =>
              \E w \in Workers : workerPc[w] # "idle" /\ JobOf(w) = j
        /\ RedisConfigured =>
              \A r \in Runs \ missed : Pending(r) => LookedAfter(r)

JobInv == JobOrder /\ LeaseInv /\ AttemptInv /\ EndedInv /\ AlertInv /\ CalmInv

\* A quiet step moves no job and no worker, and changes no status.
Quiet ==
    /\ UNCHANGED <<status, job, holder, stalls, working, alerted, missed>>
    /\ faults' >= faults
    /\ \A f \in Flows :
          /\ pc'[f] = "inserted" => pc[f] = "inserted" /\ newRun'[f] = newRun[f]
          /\ pc'[f] = "enqueued" /\ RedisConfigured =>
                pc[f] = "enqueued" /\ newRun'[f] = newRun[f]
\* The job of a new run is added; its transaction goes on or is rolled back.
FirstJobAdded(f) ==
    /\ pc[f] = "inserted" /\ AddFirstJob(f)
    /\ pc'[f] # "inserted" /\ (pc'[f] = "enqueued" => newRun'[f] = newRun[f])
    /\ \A g \in Flows \ {f} : pc'[g] = pc[g] /\ newRun'[g] = newRun[g]
    /\ UNCHANGED <<status, holder, stalls, working, alerted, missed>>
    /\ faults' >= faults
JobRedelivered(j) ==
    /\ job[j] = "active" /\ Redeliver(j)
    /\ \/ Abandoned(j) /\ faults' = faults
       \/ faults' = faults + 1
WorkerFails(w) == RequeueFails(w) \/ ProcessorThrows(w) \/ WorkerCrash(w)

\* Every step is quiet or one of a few that move rows, jobs or workers.
LEMMA JobSteps ==
    ASSUME IndInv, [Next]_vars
    PROVE  \/ Quiet
           \/ \E f \in Flows : \/ \E r \in Runs : InsertRun(f, r)
                               \/ FirstJobAdded(f) \/ CommitRun(f)
           \/ \E w \in Workers : WorkerStep(w) \/ WorkerFails(w)
           \/ \E j \in Jobs : JobRedelivered(j)
  <1> USE DEF working, queueing, runRow, history, scheduling, accountRow, budget, FlowGoes
  <1>0. faults \in Nat /\ pc \in [Flows -> FlowPcs] /\ newRun \in [Flows -> Runs \union {None}]
    BY ConstantsAssumption DEF IndInv, TypeOK
  <1>1. ASSUME NEW t \in Tickers, TickerStep(t) \/ TickMiscounts(t) \/ TickFails(t) PROVE Quiet
    BY <1>0, <1>1 DEF TickerStep, TickHeldBack, Tick, ScanAccounts, NextCandidate, TickEnd,
       TickMiscounts, TickFails, Quiet, Flows
  <1>2. ASSUME NEW f \in Flows, LockRow(f) \/ RowNotAcquired(f) \/ SkipRun(f) PROVE Quiet
    BY <1>0, <1>2 DEF LockRow, RowNotAcquired, SkipRun, Leave, Quiet
  <1>3. ASSUME NEW f \in Flows, EnqueueJob(f) PROVE Quiet \/ FirstJobAdded(f)
    <2>1. CASE RedisConfigured
      BY <1>0, <1>3, <2>1 DEF EnqueueJob, FirstJobAdded
    <2>2. CASE ~ RedisConfigured
      BY <1>0, <1>3, <2>2 DEF EnqueueJob, Quiet
    <2> QED BY <2>1, <2>2
  <1>4. ASSUME NEW f \in Flows, RetrySchedule(f) \/ GiveUpSchedule(f) PROVE Quiet \/ FirstJobAdded(f)
    <2>1. RollsBack(f) BY <1>4 DEF RetrySchedule, GiveUpSchedule
    <2>2. /\ pc'[f] \notin {"inserted", "enqueued"}
          /\ \A g \in Flows \ {f} : pc'[g] = pc[g] /\ newRun'[g] = newRun[g]
      BY <1>0, <1>4 DEF RetrySchedule, GiveUpSchedule, Leave
    <2>3. faults' >= faults /\ UNCHANGED <<status, holder, stalls, working, alerted, missed>>
      BY <1>0, <2>1 DEF RollsBack
    <2>4. CASE UNCHANGED <<job, queue>>
      BY <2>2, <2>3, <2>4 DEF Quiet
    <2>5. CASE pc[f] = "inserted" /\ AddFirstJob(f)
      BY <2>2, <2>3, <2>5 DEF FirstJobAdded
    <2> QED BY <2>1, <2>4, <2>5 DEF RollsBack
  <1>5. ASSUME NEW f \in Flows, ProcessCrash(f) PROVE Quiet
    BY <1>0, <1>5 DEF ProcessCrash, Quiet
  <1>6. ASSUME Environment \/ UNCHANGED vars PROVE Quiet
    BY <1>0, <1>6 DEF Environment, CronOccurrence, EditAccount, TriggerManual, vars, Quiet, Flows
  <1>7. ASSUME NEW j \in Jobs, RecoverJob(j) \/ LeaseLost(j) PROVE JobRedelivered(j)
    BY <1>7 DEF RecoverJob, LeaseLost, JobRedelivered, Abandoned
  <1> HIDE DEF working, queueing, runRow, history, scheduling, accountRow, budget, FlowGoes
  <1> QED
    BY <1>1, <1>2, <1>3, <1>4, <1>5, <1>6, <1>7, Zenon
       DEF Next, SchedulerStep, Fault, WorkerFails

\* Stalls are counted, never forgotten, and a redelivery that keeps a run's jobs
\* among those that never stalled is one of a BullMQ that redelivers nothing.
LEMMA StallsStay ==
    ASSUME IndInv, [Next]_vars, NEW r \in Runs, ~ Redelivered(r)'
    PROVE  /\ ~ Redelivered(r)
           /\ \A n \in 0..MaxRetries : JobRedelivered(<<r, n>>) => MaxStalls = 0
  <1>1. \A n \in 0..MaxRetries : stalls'[<<r, n>>] <= 0 /\ stalls'[<<r, n>>] \in Int
    <2>1. stalls' \in [Jobs -> 0..MaxStalls]
      BY IndInvStep DEF IndInv, TypeOK
    <2> QED BY <2>1, ConstantsAssumption DEF Redelivered, Jobs
  <1>2. stalls \in [Jobs -> 0..MaxStalls] BY DEF IndInv, TypeOK
  <1>3. \A j \in Jobs : stalls'[j] >= stalls[j]
    <2>1. CASE UNCHANGED stalls BY <2>1, <1>2, ConstantsAssumption
    <2>2. ASSUME NEW j \in Jobs, Redeliver(j) PROVE \A i \in Jobs : stalls'[i] >= stalls[i]
      BY <2>2, <1>2, ConstantsAssumption DEF Redeliver
    <2> QED BY <2>1, <2>2, JobSteps DEF Quiet, InsertRun, FirstJobAdded, CommitRun, JobRedelivered,
          WorkerFails, RequeueFails, ProcessorThrows, WorkerCrash, WorkerStep, TakeJob,
          StartAttempt, RunNotFound, EndRun, FailRun, EmitFailure, ScheduleRetry, RequeueJob,
          AckJob, queueing
  <1>4. ~ Redelivered(r)
    BY <1>1, <1>2, <1>3, ConstantsAssumption DEF Redelivered, Jobs
  <1>5. ASSUME NEW n \in 0..MaxRetries, JobRedelivered(<<r, n>>) PROVE MaxStalls = 0
    <2>1. <<r, n>> \in Jobs BY ConstantsAssumption DEF Jobs
    <2> QED BY <1>1, <1>2, <1>5, <2>1, ConstantsAssumption DEF JobRedelivered, Redeliver
  <1> QED BY <1>4, <1>5

\* The types the steps of this part need.
LEMMA JobTypes ==
    ASSUME IndInv
    PROVE  /\ job \in [Jobs -> JobStates] /\ stalls \in [Jobs -> 0..MaxStalls]
           /\ holder \in [Jobs -> Workers \union {None}]
           /\ status \in [Runs -> Statuses]
           /\ workerPc \in [Workers -> WorkerPcs]
           /\ workerRun \in [Workers -> Runs \union {None}]
           /\ workerAttempt \in [Workers -> 0..MaxRetries]
           /\ \A r \in Runs : <<r, 0>> \in Jobs
           /\ \A r \in Runs, n \in 0..MaxRetries : <<r, n>> \in Jobs /\ <<r, n + 1>> \in Jobs
           /\ \A w \in Workers : workerPc[w] # "idle" =>
                 workerRun[w] \in Runs /\ JobOf(w) \in Jobs /\ NextJob(w) \in Jobs
  <1>1. /\ job \in [Jobs -> JobStates] /\ stalls \in [Jobs -> 0..MaxStalls]
        /\ holder \in [Jobs -> Workers \union {None}]
        /\ status \in [Runs -> Statuses]
        /\ workerPc \in [Workers -> WorkerPcs]
        /\ workerRun \in [Workers -> Runs \union {None}]
        /\ workerAttempt \in [Workers -> 0..MaxRetries]
    BY DEF IndInv, TypeOK
  <1>2. \A r \in Runs, n \in 0..MaxRetries : <<r, n>> \in Jobs /\ <<r, n + 1>> \in Jobs
    BY ConstantsAssumption DEF Jobs
  <1>3. \A w \in Workers : workerPc[w] # "idle" => workerRun[w] \in Runs
    BY DEF IndInv, WorkerInv
  <1>4. \A r \in Runs : <<r, 0>> \in Jobs BY ConstantsAssumption DEF Jobs
  <1>5. ASSUME NEW w \in Workers, workerPc[w] # "idle"
        PROVE  JobOf(w) \in Jobs /\ NextJob(w) \in Jobs
    <2>1. workerRun[w] \in Runs /\ workerAttempt[w] \in 0..MaxRetries BY <1>1, <1>3, <1>5
    <2> QED BY <1>2, <2>1 DEF JobOf, NextJob
  <1> QED BY <1>1, <1>2, <1>3, <1>4, <1>5

\* A run whose first job is only being added has no job and no worker.
LEMMA FirstJob ==
    ASSUME IndInv, JobOrder, NEW f \in Flows, FirstJobAdded(f)
    PROVE  LET r == newRun[f] IN
           /\ r \in Runs /\ status[r] = "ABSENT" /\ ~ Redelivered(r)
           /\ \A n \in 0..(MaxRetries + 1) : job[<<r, n>>] = "absent"
           /\ \A w \in Workers : workerRun[w] = r => workerPc[w] = "idle"
           /\ job' = [job EXCEPT ![<<r, 0>>] = "waiting"]
  <1> DEFINE r == newRun[f]
  <1>1. pc[f] = "inserted" /\ job' = [job EXCEPT ![<<r, 0>>] = "waiting"]
    BY DEF FirstJobAdded, AddFirstJob
  <1>2. r \in Runs /\ status[r] = "ABSENT"
    BY <1>1 DEF IndInv, TypeOK, FlowInv, Creating
  <1>3. \A n \in 0..(MaxRetries + 1) : job[<<r, n>>] = "absent"
    BY <1>1, <1>2 DEF JobOrder
  <1>4. \A w \in Workers : workerRun[w] = r => workerPc[w] = "idle"
    <2> SUFFICES ASSUME NEW w \in Workers, workerRun[w] = r, workerPc[w] # "idle" PROVE FALSE
      OBVIOUS
    <2>1. workerAttempt[w] \in 0..(MaxRetries + 1) BY JobTypes, ConstantsAssumption
    <2> QED BY <1>3, <2>1 DEF JobOrder, JobOf
  <1>5. ~ Redelivered(r)
    <2> SUFFICES ASSUME NEW n \in 0..MaxRetries, stalls[<<r, n>>] > 0 PROVE FALSE
      BY DEF Redelivered
    <2>1. n \in 0..(MaxRetries + 1) /\ <<r, n>> \in Jobs
      <3>1. n \in 0..(MaxRetries + 1) BY ConstantsAssumption
      <3> QED BY <1>2, <3>1 DEF Jobs
    <2> QED BY <1>3, <2>1 DEF JobOrder
  <1> QED BY <1>1, <1>2, <1>3, <1>4, <1>5

\* The steps of a worker, none of which stalls a job or moves a scheduler.
LEMMA WorkerSteps ==
    ASSUME NEW w \in Workers, WorkerStep(w) \/ WorkerFails(w)
    PROVE  /\ UNCHANGED <<stalls, pc, newRun>>
           /\ \/ \E j \in Jobs : TakeJob(w, j)
              \/ StartAttempt(w)
              \/ RunNotFound(w)
              \/ \E s \in {"SUCCEEDED", "PARTIAL", "TIMEOUT"} : EndRun(w, s)
              \/ FailRun(w)
              \/ EmitFailure(w)
              \/ ScheduleRetry(w)
              \/ RequeueJob(w)
              \/ AckJob(w)
              \/ WorkerFails(w)
  BY DEF WorkerStep, WorkerFails, TakeJob, StartAttempt, RunNotFound, EndRun, FailRun, EmitFailure,
     ScheduleRetry, RequeueJob, AckJob, RequeueFails, ProcessorThrows, WorkerCrash, queueing,
     scheduling

\* The jobs of a run are added in order.
LEMMA OrderStep == ASSUME IndInv, JobOrder, [Next]_vars PROVE JobOrder'
  <1> USE JobTypes DEF JobOrder, JobOf
  <1>0. /\ pc \in [Flows -> FlowPcs] /\ newRun \in [Flows -> Runs \union {None}]
        /\ \A f \in Flows : pc[f] = "inserted" => newRun[f] \in Runs
        /\ \A f, g \in Flows : f # g /\ pc[f] = "inserted" => newRun[g] # newRun[f]
    BY DEF IndInv, TypeOK, FlowInv, Creating
  <1>1. CASE Quiet
    BY <1>0, <1>1 DEF Quiet, working
  <1>2. ASSUME NEW f \in Flows, NEW r \in Runs, InsertRun(f, r) PROVE JobOrder'
    BY <1>0, <1>2 DEF InsertRun, Fresh, FlowGoes, queueing, working
  <1>3. ASSUME NEW f \in Flows, FirstJobAdded(f) PROVE JobOrder'
    <2> DEFINE r == newRun[f]
    <2>1. /\ r \in Runs /\ <<r, 0>> \in Jobs
          /\ job' = [job EXCEPT ![<<r, 0>>] = "waiting"]
      BY <1>3, FirstJob
    <2>2. /\ UNCHANGED <<stalls, workerPc, workerRun, workerAttempt>>
          /\ pc'[f] # "inserted"
          /\ \A g \in Flows \ {f} : pc'[g] = pc[g] /\ newRun'[g] = newRun[g]
          /\ \A g \in Flows \ {f} : pc[g] = "inserted" => newRun[g] # r
      BY <1>0, <1>3 DEF FirstJobAdded, working
    <2>3. \A i \in Jobs : job'[i] = IF i = <<r, 0>> THEN "waiting" ELSE job[i]
      <3>1. job \in [Jobs -> JobStates] BY JobTypes
      <3> QED BY <2>1, <3>1
    <2>4. \A w \in Workers : workerPc'[w] # "idle" => job'[JobOf(w)] # "absent"
      BY <2>2, <2>3
    <2>5. \A s \in Runs, n \in 0..(MaxRetries + 1) :
             job'[<<s, n>>] # "absent" => job'[<<s, 0>>] # "absent"
      <3>1. \A s \in Runs, n \in 0..(MaxRetries + 1) : <<s, n>> \in Jobs BY DEF Jobs
      <3> QED BY <2>1, <2>3, <3>1
    <2>6. \A g \in Flows : pc'[g] = "inserted" => job'[<<newRun'[g], 0>>] = "absent"
      BY <1>0, <2>1, <2>2
    <2> QED BY <2>2, <2>3, <2>4, <2>5, <2>6
  <1>4. ASSUME NEW f \in Flows, CommitRun(f) PROVE JobOrder'
    BY <1>0, <1>4 DEF CommitRun, Leave, FlowGoes, queueing, working
  <1>5. ASSUME NEW w \in Workers, NEW j \in Jobs, TakeJob(w, j) PROVE JobOrder'
    <2>1. j = <<j[1], j[2]>> /\ j[2] \in 0..MaxRetries
      BY <1>5, ConstantsAssumption DEF IndInv, WorkerInv, TakeJob, Jobs
    <2> QED BY <1>5, <2>1 DEF TakeJob, scheduling
  <1>6. ASSUME NEW w \in Workers, RequeueJob(w) PROVE JobOrder'
    <2>1. workerRun[w] \in Runs /\ NextJob(w) \in Jobs /\ NextJob(w) # <<workerRun[w], 0>>
      <3>1. workerRun[w] \in Runs /\ NextJob(w) \in Jobs BY <1>6 DEF RequeueJob
      <3>2. workerAttempt[w] + 1 # 0 BY ConstantsAssumption
      <3> QED BY <3>1, <3>2 DEF NextJob
    <2>2. job[<<workerRun[w], 0>>] # "absent"
      <3>1. workerAttempt[w] \in 0..(MaxRetries + 1) BY ConstantsAssumption
      <3> QED BY <1>6, <2>1, <3>1 DEF RequeueJob
    <2>3. \A i \in Jobs : job'[i] = IF i = NextJob(w) /\ job[i] = "absent"
                                      THEN "waiting" ELSE job[i]
      <3>1. job \in [Jobs -> JobStates] BY JobTypes
      <3>2. AddNextJob(w) BY <1>6 DEF RequeueJob
      <3> QED BY <2>1, <3>1, <3>2 DEF AddNextJob
    <2>4. UNCHANGED <<pc, newRun, stalls, workerRun, workerAttempt>>
          /\ \A v \in Workers : (workerPc'[v] = workerPc[v] \/ v = w)
          /\ workerPc[w] # "idle"
      BY <1>6 DEF RequeueJob, WorkerGoes, scheduling
    <2>5. \A r \in Runs, n \in 0..(MaxRetries + 1) : <<r, n>> = NextJob(w) => r = workerRun[w] /\ n # 0
      BY ConstantsAssumption DEF NextJob
    <2>6. \A v \in Workers : workerPc'[v] # "idle" => job'[JobOf(v)] # "absent"
      BY <2>3, <2>4
    <2>7. \A r \in Runs, n \in 0..(MaxRetries + 1) :
             job'[<<r, n>>] # "absent" => job'[<<r, 0>>] # "absent"
      BY <2>2, <2>3, <2>5, ConstantsAssumption DEF Jobs
    <2>8. \A f \in Flows : pc[f] = "inserted" => job'[<<newRun[f], 0>>] = "absent"
      BY <1>0, <2>1, <2>3 DEF NextJob
    <2> QED BY <2>3, <2>4, <2>6, <2>7, <2>8
  <1>7. ASSUME NEW w \in Workers, (WorkerStep(w) \/ WorkerFails(w)) /\ UNCHANGED job PROVE JobOrder'
    <2>1. \A v \in Workers : workerPc'[v] # "idle" =>
             workerPc[v] # "idle" /\ UNCHANGED <<workerRun[v], workerAttempt[v]>>
      <3>1. ~ \E j \in Jobs : TakeJob(w, j) BY <1>7 DEF TakeJob
      <3> QED BY <1>7, <3>1, WorkerSteps
          DEF StartAttempt, RunNotFound, EndRun, FailRun, EmitFailure, ScheduleRetry, RequeueJob,
          AckJob, WorkerFails, RequeueFails, ProcessorThrows, WorkerCrash, WorkerGoes
    <2> QED BY <1>0, <1>7, <2>1, WorkerSteps
  <1>8. ASSUME NEW w \in Workers, AckJob(w) PROVE JobOrder'
    <2>1. JobOf(w) \in Jobs /\ job[JobOf(w)] # "absent"
      BY <1>8 DEF AckJob
    <2>2. \A i \in Jobs : job'[i] = IF i = JobOf(w) /\ holder[i] = w
                                      THEN "finished" ELSE job[i]
      <3>1. job \in [Jobs -> JobStates] BY JobTypes
      <3> QED BY <1>8, <2>1, <3>1 DEF AckJob
    <2>3. UNCHANGED <<pc, newRun, stalls, workerRun, workerAttempt>>
          /\ \A v \in Workers : workerPc'[v] # "idle" => workerPc[v] # "idle"
      BY <1>8 DEF AckJob, WorkerGoes, scheduling
    <2> QED BY <1>0, <2>1, <2>2, <2>3, ConstantsAssumption, ZenonT(40) DEF Jobs
  <1>9. ASSUME NEW j \in Jobs, JobRedelivered(j) PROVE JobOrder'
    BY <1>0, <1>9, ConstantsAssumption DEF JobRedelivered, Redeliver, scheduling, working, Jobs
  <1>10. ASSUME NEW w \in Workers, WorkerStep(w) \/ WorkerFails(w) PROVE JobOrder'
    BY <1>5, <1>6, <1>7, <1>8, <1>10, WorkerSteps DEF StartAttempt, RunNotFound, EndRun, FailRun,
       EmitFailure, ScheduleRetry, WorkerFails, RequeueFails, ProcessorThrows, WorkerCrash, queueing
  <1> HIDE JobTypes DEF JobOrder, JobOf
  <1> QED BY <1>1, <1>2, <1>3, <1>4, <1>9, <1>10, JobSteps

\* What the steps that move a job do to jobs and leases.
LEMMA JobEffects ==
    ASSUME IndInv
    PROVE  /\ \A w \in Workers, j \in Jobs : TakeJob(w, j) =>
                 /\ j = <<j[1], j[2]>> /\ j[1] \in Runs /\ j[2] \in 0..MaxRetries
                 /\ job[j] = "waiting" /\ workerPc[w] = "idle"
                 /\ \A i \in Jobs : /\ job'[i] = IF i = j THEN "active" ELSE job[i]
                                    /\ holder'[i] = IF i = j THEN w ELSE holder[i]
           /\ \A w \in Workers : RequeueJob(w) =>
                 /\ workerPc[w] = "requeue" /\ holder' = holder
                 /\ \A i \in Jobs : job'[i] = IF i = NextJob(w) /\ job[i] = "absent"
                                                THEN "waiting" ELSE job[i]
           /\ \A w \in Workers : AckJob(w) =>
                 /\ workerPc[w] = "ack"
                 /\ \A i \in Jobs : /\ job'[i] = IF i = JobOf(w) /\ holder[i] = w
                                                   THEN "finished" ELSE job[i]
                                    /\ i # JobOf(w) => holder'[i] = holder[i]
           /\ \A j \in Jobs : Redeliver(j) =>
                 \A i \in Jobs :
                     /\ i # j => job'[i] = job[i] /\ holder'[i] = holder[i] /\ stalls'[i] = stalls[i]
                     /\ i = j => job'[i] = IF stalls[i] < MaxStalls THEN "waiting" ELSE "finished"
  <1>0. /\ job \in [Jobs -> JobStates] /\ holder \in [Jobs -> Workers \union {None}]
        /\ stalls \in [Jobs -> 0..MaxStalls]
    BY JobTypes
  <1>1. ASSUME NEW w \in Workers, NEW j \in Jobs, TakeJob(w, j)
        PROVE  /\ j = <<j[1], j[2]>> /\ j[1] \in Runs /\ j[2] \in 0..MaxRetries
               /\ job[j] = "waiting" /\ workerPc[w] = "idle"
               /\ \A i \in Jobs : /\ job'[i] = IF i = j THEN "active" ELSE job[i]
                                  /\ holder'[i] = IF i = j THEN w ELSE holder[i]
    <2>1. j = <<j[1], j[2]>> /\ j[1] \in Runs /\ j[2] \in 0..MaxRetries
      BY <1>1, ConstantsAssumption DEF IndInv, WorkerInv, TakeJob, Jobs
    <2> QED BY <1>0, <1>1, <2>1 DEF TakeJob
  <1>2. ASSUME NEW w \in Workers, RequeueJob(w)
        PROVE  /\ workerPc[w] = "requeue" /\ holder' = holder
               /\ \A i \in Jobs : job'[i] = IF i = NextJob(w) /\ job[i] = "absent"
                                              THEN "waiting" ELSE job[i]
    <2>1. AddNextJob(w) /\ workerPc[w] = "requeue" /\ holder' = holder BY <1>2 DEF RequeueJob
    <2>2. NextJob(w) \in Jobs BY <2>1, JobTypes
    <2> QED BY <1>0, <2>1, <2>2 DEF AddNextJob
  <1>3. ASSUME NEW w \in Workers, AckJob(w)
        PROVE  /\ workerPc[w] = "ack"
               /\ \A i \in Jobs : /\ job'[i] = IF i = JobOf(w) /\ holder[i] = w
                                                 THEN "finished" ELSE job[i]
                                  /\ i # JobOf(w) => holder'[i] = holder[i]
    <2>1. workerPc[w] = "ack" BY <1>3 DEF AckJob
    <2>2. JobOf(w) \in Jobs BY <2>1, JobTypes
    <2> QED BY <1>0, <1>3, <2>1, <2>2 DEF AckJob, JobOf
  <1>4. ASSUME NEW j \in Jobs, Redeliver(j)
        PROVE  \A i \in Jobs :
                   /\ i # j => job'[i] = job[i] /\ holder'[i] = holder[i] /\ stalls'[i] = stalls[i]
                   /\ i = j => job'[i] = IF stalls[i] < MaxStalls THEN "waiting" ELSE "finished"
    BY <1>0, <1>4 DEF Redeliver
  <1> QED BY <1>1, <1>2, <1>3, <1>4

\* The other workers stay where they are, and a worker changes jobs by taking one.
LEMMA WorkerEffects ==
    ASSUME IndInv, NEW w \in Workers, WorkerStep(w) \/ WorkerFails(w)
    PROVE  /\ \A v \in Workers \ {w} :
                 workerPc'[v] = workerPc[v] /\ workerRun'[v] = workerRun[v] /\ JobOf(v)' = JobOf(v)
           /\ (\A j \in Jobs : ~ TakeJob(w, j)) =>
                 /\ workerPc[w] # "idle" /\ workerRun'[w] = workerRun[w] /\ JobOf(w)' = JobOf(w)
                 /\ Trying(w)' => Trying(w) /\ ~ RequeueJob(w) /\ ~ AckJob(w)
                 /\ Busy(w)' => Busy(w) /\ ~ RequeueJob(w) /\ ~ AckJob(w)
           /\ ~ AckJob(w) /\ (\A j \in Jobs : ~ TakeJob(w, j)) => UNCHANGED holder
           /\ ~ AckJob(w) /\ ~ RequeueJob(w) /\ (\A j \in Jobs : ~ TakeJob(w, j)) => UNCHANGED job
  <1>1. CASE \E j \in Jobs : TakeJob(w, j)
    BY <1>1, JobTypes, ZenonT(40) DEF TakeJob, JobOf
  <1>2. CASE ~ \E j \in Jobs : TakeJob(w, j)
    <2>1. /\ UNCHANGED <<workerRun, workerAttempt>> /\ workerPc[w] # "idle"
          /\ \A v \in Workers \ {w} : workerPc'[v] = workerPc[v]
          /\ Trying(w)' => Trying(w) /\ ~ RequeueJob(w) /\ ~ AckJob(w)
          /\ Busy(w)' => Busy(w) /\ ~ RequeueJob(w) /\ ~ AckJob(w)
      BY <1>2, WorkerSteps, JobTypes
         DEF StartAttempt, RunNotFound, EndRun, FailRun, EmitFailure, ScheduleRetry, RequeueJob,
         AckJob, WorkerFails, RequeueFails, ProcessorThrows, WorkerCrash, WorkerGoes, Busy, Trying
    <2>2. /\ ~ AckJob(w) => UNCHANGED holder
          /\ ~ AckJob(w) /\ ~ RequeueJob(w) => UNCHANGED job
      BY <1>2, WorkerSteps
         DEF StartAttempt, RunNotFound, EndRun, FailRun, EmitFailure, ScheduleRetry, RequeueJob,
         WorkerFails, RequeueFails, ProcessorThrows, WorkerCrash, queueing
    <2> QED BY <1>2, <2>1, <2>2 DEF JobOf
  <1> QED BY <1>1, <1>2

\* A job that never stalled stays with the worker that took it.
LEMMA LeaseStep == ASSUME IndInv, JobOrder, LeaseInv, [Next]_vars PROVE LeaseInv'
  <1> DEFINE Has(v) == \/ job[JobOf(v)] = "active" /\ holder[JobOf(v)] = v
                       \/ job[JobOf(v)] = "finished" /\ MaxStalls = 0
             Works(v) == workerPc[v] # "idle"
             Calm(v) == ~ Redelivered(workerRun[v])
  <1>1. ASSUME NEW u \in Workers, Works(u), Calm(u)
        PROVE  /\ Has(u) /\ JobOf(u) \in Jobs
               /\ \A v \in Workers : Works(v) /\ JobOf(v) = JobOf(u) => v = u
    BY <1>1, JobTypes DEF LeaseInv
  <1> SUFFICES ASSUME NEW u \in Workers, Works(u)', Calm(u)'
               PROVE  /\ Has(u)'
                      /\ \A v \in Workers : Works(v)' /\ JobOf(v)' = JobOf(u)' => v = u
    BY DEF LeaseInv
  <1> DEFINE Goal == /\ Has(u)'
                     /\ \A v \in Workers : Works(v)' /\ JobOf(v)' = JobOf(u)' => v = u
  <1>0. workerRun'[u] \in Runs /\ JobOf(u)' \in Jobs /\ (JobOf(u)')[1] = workerRun'[u]
    <2>1. IndInv' BY IndInvStep
    <2> QED BY <2>1, JobTypes DEF IndInv, TypeOK, WorkerInv, JobOf, Jobs
  <1>c. ~ Redelivered(workerRun'[u]) BY <1>0, StallsStay DEF Redelivered
  <1>2. ASSUME UNCHANGED working, UNCHANGED <<job, holder>> PROVE Goal
    BY <1>1, <1>2, <1>c DEF working, JobOf
  <1>3. ASSUME NEW f \in Flows, FirstJobAdded(f) PROVE Goal
    <2>1. UNCHANGED <<working, holder>> BY <1>3 DEF FirstJobAdded
    <2>2. newRun[f] # workerRun[u] BY <1>3, <2>1, FirstJob DEF working
    <2>3. job'[JobOf(u)] = job[JobOf(u)]
      <3>1. job' = [job EXCEPT ![<<newRun[f], 0>>] = "waiting"] BY <1>3, FirstJob
      <3>2. JobOf(u) # <<newRun[f], 0>> BY <2>2 DEF JobOf
      <3>3. JobOf(u) \in Jobs BY <1>1, <1>c, <2>1 DEF working
      <3> QED BY <3>1, <3>2, <3>3, JobTypes
    <2> QED BY <1>1, <1>c, <2>1, <2>3 DEF working, JobOf
  <1>4. ASSUME NEW w \in Workers, NEW j \in Jobs, TakeJob(w, j) PROVE Goal
    <2>1. JobOf(w)' = j /\ Works(w)' /\ workerRun'[w] = j[1]
      BY <1>4, JobEffects, JobTypes, ZenonT(40) DEF TakeJob, JobOf
    <2>2. \A v \in Workers \ {w} : Works(v)' = Works(v) /\ workerRun'[v] = workerRun[v]
                                   /\ JobOf(v)' = JobOf(v)
      BY <1>4, WorkerEffects DEF WorkerStep
    <2>3. \A v \in Workers \ {w} : Works(v) /\ Calm(v) => JobOf(v) # j
      BY <1>1, <1>4, JobEffects
    <2>4. \A v \in Workers : JobOf(v) = j => workerRun[v] = j[1] BY DEF JobOf
    <2>5. CASE u = w
      <3>1. Has(w)' BY <1>4, <2>1, JobEffects
      <3>2. \A v \in Workers \ {w} : Works(v)' => JobOf(v)' # j
        BY <2>1, <2>2, <2>3, <2>4, <2>5, <1>c
      <3> QED BY <2>1, <2>5, <3>1, <3>2
    <2>6. CASE u # w
      <3>1. Works(u) /\ Calm(u) /\ JobOf(u)' = JobOf(u) BY <1>c, <2>2, <2>6
      <3>2. JobOf(u) # j /\ JobOf(u) \in Jobs BY <1>1, <2>3, <2>6, <3>1
      <3>3. Has(u)' BY <1>1, <1>4, <3>1, <3>2, JobEffects
      <3>4. \A v \in Workers \ {w} : Works(v)' /\ JobOf(v)' = JobOf(u)' => v = u
        BY <1>1, <2>2, <3>1
      <3> QED BY <2>1, <3>1, <3>2, <3>3, <3>4
    <2> QED BY <2>5, <2>6
  <1>5. ASSUME NEW w \in Workers, WorkerStep(w) \/ WorkerFails(w), \A j \in Jobs : ~ TakeJob(w, j)
        PROVE  Goal
    <2>1. \A v \in Workers : workerRun'[v] = workerRun[v] /\ JobOf(v)' = JobOf(v)
                             /\ (Works(v)' => Works(v))
      BY <1>5, WorkerEffects
    <2>2. Works(u) /\ Calm(u) BY <1>c, <2>1
    <2>3. job'[JobOf(u)] = job[JobOf(u)] /\ holder'[JobOf(u)] = holder[JobOf(u)]
      <3>1. CASE AckJob(w)
        <4>1. u # w BY <3>1, JobTypes DEF AckJob, WorkerGoes
        <4>2. JobOf(u) # JobOf(w) BY <1>1, <2>2, <3>1, <4>1 DEF AckJob
        <4> QED BY <1>1, <2>2, <3>1, <4>2, JobEffects
      <3>2. CASE RequeueJob(w)
        BY <1>1, <2>2, <3>2, JobEffects DEF JobOrder
      <3>3. CASE ~ AckJob(w) /\ ~ RequeueJob(w)
        BY <1>5, <3>3, WorkerEffects
      <3> QED BY <3>1, <3>2, <3>3
    <2> QED BY <1>1, <2>1, <2>2, <2>3
  <1>6. ASSUME NEW j \in Jobs, JobRedelivered(j) PROVE Goal
    <2>1. UNCHANGED working BY <1>6 DEF JobRedelivered, Redeliver
    <2>2. Works(u) /\ Calm(u) /\ JobOf(u)' = JobOf(u) BY <1>c, <2>1 DEF working, JobOf
    <2>3. CASE j # JobOf(u)
      <3>1. job'[JobOf(u)] = job[JobOf(u)] /\ holder'[JobOf(u)] = holder[JobOf(u)]
        BY <1>1, <1>6, <2>2, <2>3, JobEffects DEF JobRedelivered
      <3> QED BY <1>1, <2>1, <2>2, <3>1 DEF working, JobOf
    <2>4. CASE j = JobOf(u)
      <3>1. MaxStalls = 0 /\ j = <<workerRun[u], workerAttempt[u]>>
        BY <1>0, <1>6, <2>1, <2>4, StallsStay, JobTypes DEF JobOf, working
      <3>2. job'[j] = "finished"
        BY <1>6, <3>1, JobEffects, JobTypes, ConstantsAssumption DEF JobRedelivered
      <3> QED BY <1>1, <2>1, <2>2, <2>4, <3>1, <3>2 DEF working, JobOf
    <2> QED BY <2>3, <2>4
  <1> QED BY <1>2, <1>3, <1>4, <1>5, <1>6, JobSteps
      DEF Quiet, InsertRun, CommitRun, queueing

\* Once the next attempt of a run is in the queue, nobody is busy with an
\* earlier one.
LEMMA AttemptStep == ASSUME IndInv, JobOrder, LeaseInv, AttemptInv, [Next]_vars PROVE AttemptInv'
  <1> SUFFICES ASSUME NEW r \in Runs, ~ Redelivered(r)',
                      NEW m \in 0..(MaxRetries + 1), NEW n \in 0..(MaxRetries + 1),
                      m < n, job'[<<r, n>>] # "absent"
               PROVE  /\ job'[<<r, m>>] \in {"active", "finished"}
                      /\ \A w \in Workers : Busy(w)' => JobOf(w)' # <<r, m>>
    BY DEF AttemptInv
  <1> DEFINE Over == /\ job[<<r, m>>] \in {"active", "finished"}
                     /\ \A w \in Workers : Busy(w) => JobOf(w) # <<r, m>>
             Goal == /\ job'[<<r, m>>] \in {"active", "finished"}
                     /\ \A w \in Workers : Busy(w)' => JobOf(w)' # <<r, m>>
  <1>0. ~ Redelivered(r) /\ <<r, m>> \in Jobs /\ <<r, n>> \in Jobs
    BY StallsStay DEF Jobs
  <1>1. job[<<r, n>>] # "absent" => Over
    BY <1>0 DEF AttemptInv
  <1>2. ASSUME UNCHANGED <<working, job>> PROVE Goal
    BY <1>1, <1>2 DEF working, Busy, JobOf
  <1>3. ASSUME NEW f \in Flows, FirstJobAdded(f) PROVE Goal
    <2>1. /\ job' = [job EXCEPT ![<<newRun[f], 0>>] = "waiting"]
          /\ \A i \in 0..(MaxRetries + 1) : job[<<newRun[f], i>>] = "absent"
      BY <1>3, FirstJob
    <2>2. job[<<r, n>>] # "absent"
      <3>1. n # 0 BY ConstantsAssumption
      <3>2. <<r, n>> # <<newRun[f], 0>> BY <3>1
      <3> QED BY <1>0, <2>1, <3>2, JobTypes
    <2>3. r # newRun[f] BY <2>1, <2>2
    <2>4. job'[<<r, m>>] = job[<<r, m>>] BY <1>0, <2>1, <2>3, JobTypes
    <2>5. UNCHANGED working BY <1>3 DEF FirstJobAdded
    <2> QED BY <1>1, <2>2, <2>4, <2>5 DEF working, Busy, JobOf
  <1>4. ASSUME NEW w \in Workers, NEW j \in Jobs, TakeJob(w, j) PROVE Goal
    <2>1. job[<<r, n>>] # "absent" BY <1>0, <1>4, JobEffects
    <2>2. j # <<r, m>> BY <1>1, <1>4, <2>1, JobEffects
    <2>3. JobOf(w)' = j BY <1>4, JobEffects, JobTypes, ZenonT(40) DEF TakeJob, JobOf
    <2>4. \A v \in Workers \ {w} : Busy(v)' = Busy(v) /\ JobOf(v)' = JobOf(v)
      BY <1>4, WorkerEffects DEF WorkerStep, Busy
    <2>5. job'[<<r, m>>] = job[<<r, m>>] BY <1>0, <1>4, <2>2, JobEffects
    <2> QED BY <1>1, <2>1, <2>2, <2>3, <2>4, <2>5
  <1>5. ASSUME NEW w \in Workers, WorkerStep(w) \/ WorkerFails(w), \A j \in Jobs : ~ TakeJob(w, j)
        PROVE  Goal
    <2>1. \A v \in Workers : JobOf(v)' = JobOf(v) /\ (Busy(v)' => Busy(v))
      BY <1>5, WorkerEffects DEF Busy
    <2>2. CASE job[<<r, n>>] # "absent"
      <3>1. job'[<<r, m>>] \in {"active", "finished"}
        BY <1>0, <1>1, <1>5, <2>2, JobEffects, WorkerEffects
      <3> QED BY <1>1, <2>1, <2>2, <3>1
    <2>3. CASE job[<<r, n>>] = "absent"
      <3>1. RequeueJob(w) /\ <<r, n>> = NextJob(w)
        <4>1. CASE AckJob(w)
          <5>1. job[JobOf(w)] # "absent" BY <4>1, JobEffects DEF JobOrder
          <5> QED BY <1>0, <2>3, <4>1, <5>1, JobEffects
        <4>2. CASE RequeueJob(w)
          BY <1>0, <2>3, <4>2, JobEffects
        <4>3. CASE ~ AckJob(w) /\ ~ RequeueJob(w)
          BY <1>5, <2>3, <4>3, WorkerEffects
        <4> QED BY <4>1, <4>2, <4>3
      <3>2. /\ workerRun[w] = r /\ workerAttempt[w] + 1 = n /\ workerPc[w] = "requeue"
            /\ workerAttempt[w] \in 0..MaxRetries
        BY <3>1, JobEffects, JobTypes DEF NextJob
      <3>3. /\ job[JobOf(w)] \in {"active", "finished"}
            /\ \A v \in Workers : workerPc[v] # "idle" /\ JobOf(v) = JobOf(w) => v = w
        BY <1>0, <3>2 DEF LeaseInv
      <3>4. job'[<<r, m>>] = job[<<r, m>>]
        <4>1. <<r, m>> # NextJob(w) BY <3>1, ConstantsAssumption
        <4> QED BY <1>0, <3>1, <4>1, JobEffects
      <3>5. ~ Busy(w)' BY <1>5, <3>1, WorkerEffects
      <3>6. CASE m = workerAttempt[w]
        <4>1. JobOf(w) = <<r, m>> BY <3>2, <3>6 DEF JobOf
        <4> QED BY <2>1, <3>3, <3>4, <3>5, <4>1 DEF Busy
      <3>7. CASE m # workerAttempt[w]
        <4>1. m < workerAttempt[w] /\ workerAttempt[w] \in 0..(MaxRetries + 1)
          BY <3>2, <3>7, ConstantsAssumption
        <4>2. job[<<r, workerAttempt[w]>>] # "absent" BY <3>2, <3>3 DEF JobOf
        <4>3. Over BY <1>0, <4>1, <4>2 DEF AttemptInv
        <4> QED BY <2>1, <3>4, <4>3
      <3> QED BY <3>6, <3>7
    <2> QED BY <2>2, <2>3
  <1>6. ASSUME NEW j \in Jobs, JobRedelivered(j) PROVE Goal
    <2>1. UNCHANGED working /\ Redeliver(j) /\ job[j] = "active"
      BY <1>6 DEF JobRedelivered, Redeliver
    <2>2. job[<<r, n>>] # "absent" BY <1>0, <2>1, JobEffects
    <2>3. job'[<<r, m>>] \in {"active", "finished"}
      <3>1. CASE j # <<r, m>> BY <1>0, <1>1, <2>1, <2>2, <3>1, JobEffects
      <3>2. CASE j = <<r, m>>
        <4>1. m \in 0..MaxRetries BY ConstantsAssumption
        <4>2. MaxStalls = 0 BY <1>6, <3>2, <4>1, StallsStay
        <4> QED BY <1>0, <2>1, <3>2, <4>2, JobEffects, JobTypes, ConstantsAssumption
      <3> QED BY <3>1, <3>2
    <2> QED BY <1>1, <2>1, <2>2, <2>3 DEF working, Busy, JobOf
  <1> QED BY <1>2, <1>3, <1>4, <1>5, <1>6, JobSteps
      DEF Quiet, InsertRun, CommitRun, queueing

\* While a worker is busy with a job that never stalled, nothing else of the run is in
\* the queue or with a worker that is busy.
LEMMA Alone ==
    ASSUME IndInv, LeaseInv, AttemptInv, NEW w \in Workers, Busy(w), ~ Redelivered(workerRun[w])
    PROVE  /\ \A n \in 0..(MaxRetries + 1) : job[<<workerRun[w], n>>] # "waiting"
           /\ \A v \in Workers : workerRun[v] = workerRun[w] /\ Busy(v) => v = w
  <1> DEFINE r == workerRun[w]
  <1>1. /\ r \in Runs /\ workerPc[w] # "idle" /\ workerAttempt[w] \in 0..(MaxRetries + 1)
        /\ \A v \in Workers : workerAttempt[v] \in 0..(MaxRetries + 1)
    BY JobTypes, ConstantsAssumption DEF Busy
  <1>2. /\ job[JobOf(w)] \in {"active", "finished"}
        /\ \A v \in Workers : Busy(v) /\ workerRun[v] = r =>
              /\ job[JobOf(v)] \in {"active", "finished"}
              /\ JobOf(v) = JobOf(w) => v = w
    BY <1>1 DEF LeaseInv, Busy
  <1>3. \A n \in 0..(MaxRetries + 1) : n > workerAttempt[w] => job[<<r, n>>] = "absent"
    BY <1>1 DEF AttemptInv, JobOf
  <1>4. \A n \in 0..(MaxRetries + 1) : n < workerAttempt[w] => job[<<r, n>>] # "waiting"
    BY <1>1, <1>2 DEF AttemptInv, JobOf
  <1>5. ASSUME NEW n \in 0..(MaxRetries + 1) PROVE job[<<r, n>>] # "waiting"
    <2>1. CASE n = workerAttempt[w] BY <1>2, <2>1 DEF JobOf
    <2>2. CASE n # workerAttempt[w] BY <1>1, <1>3, <1>4, <2>2, ConstantsAssumption
    <2> QED BY <2>1, <2>2
  <1>6. ASSUME NEW v \in Workers, workerRun[v] = r, Busy(v) PROVE v = w
    <2>1. CASE workerAttempt[v] = workerAttempt[w] BY <1>2, <1>6, <2>1 DEF JobOf
    <2>2. CASE workerAttempt[v] > workerAttempt[w]
      BY <1>1, <1>2, <1>3, <1>6, <2>2 DEF JobOf
    <2>3. CASE workerAttempt[v] < workerAttempt[w]
      BY <1>1, <1>2, <1>6, <2>3 DEF JobOf, AttemptInv
    <2> QED BY <1>1, <2>1, <2>2, <2>3, ConstantsAssumption
  <1> QED BY <1>5, <1>6

\* What the steps of workers and schedulers do to the status of a run.
LEMMA StatusSteps ==
    ASSUME IndInv, [Next]_vars, NEW r \in Runs, status'[r] # status[r]
    PROVE  \/ status[r] = "ABSENT" /\ status'[r] = "QUEUED"
           \/ \E w \in Workers :
                 /\ workerRun[w] = r /\ (WorkerStep(w) \/ WorkerFails(w))
                 /\ \A j \in Jobs : ~ TakeJob(w, j)
                 /\ \/ workerPc[w] = "taken" /\ status'[r] = "RUNNING"
                    \/ workerPc[w] = "running" /\ workerPc'[w] = "requeue" /\ status'[r] = "RETRYING"
                    \/ workerPc[w] = "running" /\ FailRun(w) /\ status'[r] = "FAILED"
                    \/ /\ workerPc[w] = "running" /\ workerPc'[w] = "ack"
                       /\ status'[r] \in {"SUCCEEDED", "PARTIAL", "TIMEOUT"}
  <1>0. status \in [Runs -> Statuses] /\ workerPc \in [Workers -> WorkerPcs] BY JobTypes
  <1>1. ASSUME NEW f \in Flows, CommitRun(f) PROVE status[r] = "ABSENT" /\ status'[r] = "QUEUED"
    <2>1. newRun[f] \in Runs /\ status[newRun[f]] = "ABSENT"
      BY <1>1 DEF CommitRun, IndInv, TypeOK, FlowInv, Creating
    <2> QED BY <1>0, <1>1, <2>1 DEF CommitRun
  <1>2. ASSUME NEW w \in Workers, WorkerStep(w) \/ WorkerFails(w)
        PROVE  /\ workerRun[w] = r /\ (\A j \in Jobs : ~ TakeJob(w, j))
               /\ \/ workerPc[w] = "taken" /\ status'[r] = "RUNNING"
                  \/ workerPc[w] = "running" /\ workerPc'[w] = "requeue" /\ status'[r] = "RETRYING"
                  \/ workerPc[w] = "running" /\ FailRun(w) /\ status'[r] = "FAILED"
                  \/ /\ workerPc[w] = "running" /\ workerPc'[w] = "ack"
                     /\ status'[r] \in {"SUCCEEDED", "PARTIAL", "TIMEOUT"}
    <2>1. workerPc[w] # "idle" /\ (\A j \in Jobs : ~ TakeJob(w, j))
      BY <1>2, WorkerEffects DEF TakeJob, runRow
    <2>2. workerRun[w] \in Runs BY <2>1, JobTypes
    <2> QED BY <1>0, <1>2, <2>1, <2>2, WorkerSteps
        DEF StartAttempt, RunNotFound, EndRun, FailRun, EmitFailure, ScheduleRetry, RequeueJob,
        AckJob, WorkerFails, RequeueFails, ProcessorThrows, WorkerCrash, WorkerGoes, runRow
  <1> QED BY <1>1, <1>2, JobSteps
      DEF Quiet, InsertRun, FirstJobAdded, JobRedelivered, Redeliver, runRow

\* A run that ended stays ended, unless BullMQ redelivers one of its jobs.
LEMMA EndedStep ==
    ASSUME IndInv, JobOrder, LeaseInv, AttemptInv, EndedInv, [Next]_vars
    PROVE  /\ EndedInv'
           /\ \A r \in Runs : status[r] \in TerminalStatuses /\ status'[r] # status[r]
                 => Redelivered(r)'
  <1>1. ASSUME NEW r \in Runs, status[r] \in TerminalStatuses, ~ Redelivered(r)
        PROVE  status'[r] = status[r]
    BY <1>1, StatusSteps DEF EndedInv, TerminalStatuses, Trying
  <1>2. ASSUME NEW r \in Runs, status[r] \in TerminalStatuses, status'[r] # status[r]
        PROVE  Redelivered(r)'
    BY <1>1, <1>2, StallsStay
  <1>3. ASSUME NEW r \in Runs, status'[r] \in TerminalStatuses, ~ Redelivered(r)'
        PROVE  /\ \A n \in 0..(MaxRetries + 1) : job'[<<r, n>>] # "waiting"
               /\ \A w \in Workers : workerRun'[w] = r => ~ Trying(w)'
    <2> DEFINE Goal == /\ \A n \in 0..(MaxRetries + 1) : job'[<<r, n>>] # "waiting"
                       /\ \A w \in Workers : workerRun'[w] = r => ~ Trying(w)'
    <2>0. ~ Redelivered(r) /\ \A n \in 0..(MaxRetries + 1) : <<r, n>> \in Jobs
      BY <1>3, StallsStay DEF Jobs
    <2>1. CASE status[r] \notin TerminalStatuses
      <3>1. PICK w \in Workers :
                /\ workerRun[w] = r /\ (WorkerStep(w) \/ WorkerFails(w))
                /\ \A j \in Jobs : ~ TakeJob(w, j)
                /\ workerPc[w] = "running" /\ ~ Trying(w)'
        BY <1>3, <2>1, StatusSteps, JobTypes DEF FailRun, WorkerGoes, Trying, TerminalStatuses
      <3>2. /\ \A n \in 0..(MaxRetries + 1) : job[<<r, n>>] # "waiting"
            /\ \A v \in Workers \ {w} : workerRun[v] = r => ~ Trying(v)
        BY <2>0, <3>1, Alone DEF Busy, Trying
      <3>3. UNCHANGED job
        BY <3>1, WorkerEffects DEF AckJob, RequeueJob
      <3>4. \A v \in Workers \ {w} : workerRun'[v] = workerRun[v] /\ Trying(v)' = Trying(v)
        BY <3>1, WorkerEffects DEF Trying
      <3> QED BY <3>1, <3>2, <3>3, <3>4
    <2>2. CASE status[r] \in TerminalStatuses
      <3>1. /\ \A n \in 0..(MaxRetries + 1) : job[<<r, n>>] # "waiting"
            /\ \A w \in Workers : workerRun[w] = r => ~ Trying(w)
        BY <2>0, <2>2 DEF EndedInv
      <3>2. ASSUME UNCHANGED <<working, job>> PROVE Goal
        BY <3>1, <3>2 DEF working, Trying
      <3>3. ASSUME NEW f \in Flows, FirstJobAdded(f) PROVE Goal
        <4>1. /\ job' = [job EXCEPT ![<<newRun[f], 0>>] = "waiting"]
              /\ newRun[f] # r /\ UNCHANGED working
          BY <2>2, <3>3, FirstJob DEF FirstJobAdded, TerminalStatuses
        <4>2. \A n \in 0..(MaxRetries + 1) : job'[<<r, n>>] = job[<<r, n>>]
          BY <2>0, <4>1, JobTypes
        <4> QED BY <3>1, <4>1, <4>2 DEF working, Trying
      <3>4. ASSUME NEW w \in Workers, NEW j \in Jobs, TakeJob(w, j) PROVE Goal
        <4>1. /\ j[1] # r /\ workerRun'[w] = j[1]
          <5>1. j = <<j[1], j[2]>> /\ j[2] \in 0..(MaxRetries + 1) /\ job[j] = "waiting"
            BY <3>4, JobEffects, ConstantsAssumption
          <5> QED BY <3>1, <3>4, <5>1, JobTypes DEF TakeJob
        <4>2. \A v \in Workers \ {w} : workerRun'[v] = workerRun[v] /\ Trying(v)' = Trying(v)
          BY <3>4, WorkerEffects DEF WorkerStep, Trying
        <4>3. \A n \in 0..(MaxRetries + 1) : job'[<<r, n>>] # "waiting"
          BY <2>0, <3>1, <3>4, JobEffects
        <4> QED BY <3>1, <4>1, <4>2, <4>3
      <3>5. ASSUME NEW w \in Workers, WorkerStep(w) \/ WorkerFails(w),
                   \A j \in Jobs : ~ TakeJob(w, j)
            PROVE  Goal
        <4>1. \A v \in Workers : workerRun'[v] = workerRun[v] /\ (Trying(v)' => Trying(v))
          BY <3>5, WorkerEffects DEF Trying
        <4>2. RequeueJob(w) => workerRun[w] # r
          BY <3>1, JobEffects DEF Trying
        <4>3. \A n \in 0..(MaxRetries + 1) : job'[<<r, n>>] # "waiting"
          <5> SUFFICES ASSUME NEW n \in 0..(MaxRetries + 1) PROVE job'[<<r, n>>] # "waiting"
            OBVIOUS
          <5>1. CASE AckJob(w) BY <2>0, <3>1, <5>1, JobEffects
          <5>2. CASE RequeueJob(w)
            <6>1. <<r, n>> # NextJob(w) BY <4>2, <5>2 DEF NextJob
            <6> QED BY <2>0, <3>1, <5>2, <6>1, JobEffects
          <5>3. CASE ~ AckJob(w) /\ ~ RequeueJob(w) BY <3>1, <3>5, <5>3, WorkerEffects
          <5> QED BY <5>1, <5>2, <5>3
        <4> QED BY <3>1, <4>1, <4>3
      <3>6. ASSUME NEW j \in Jobs, JobRedelivered(j) PROVE Goal
        <4>1. UNCHANGED working /\ Redeliver(j) /\ job[j] = "active"
          BY <3>6 DEF JobRedelivered, Redeliver
        <4>2. ASSUME NEW n \in 0..(MaxRetries + 1) PROVE job'[<<r, n>>] # "waiting"
          <5>1. CASE j # <<r, n>> BY <2>0, <3>1, <4>1, <5>1, JobEffects
          <5>2. CASE j = <<r, n>>
            <6>1. n # MaxRetries + 1 BY <4>1, <5>2 DEF IndInv, WorkerInv
            <6>2. n \in 0..MaxRetries BY <6>1, ConstantsAssumption
            <6>3. MaxStalls = 0 BY <1>3, <3>6, <5>2, <6>2, StallsStay
            <6> QED BY <4>1, <5>2, <6>3, JobEffects, JobTypes, ConstantsAssumption
          <5> QED BY <5>1, <5>2
        <4> QED BY <3>1, <4>1, <4>2 DEF working, Trying
      <3> QED BY <3>2, <3>3, <3>4, <3>5, <3>6, JobSteps
          DEF Quiet, InsertRun, CommitRun, queueing
    <2> QED BY <2>1, <2>2
  <1> QED BY <1>2, <1>3 DEF EndedInv

\* A failure that nobody announced keeps the job of its attempt active.
LEMMA AlertStep ==
    ASSUME IndInv, JobOrder, LeaseInv, AlertInv, [Next]_vars
    PROVE  AlertInv'
  <1> SUFFICES ASSUME MaxStalls > 0, NEW r \in Runs,
                      status'[r] = "FAILED", r \notin alerted', ~ Redelivered(r)'
               PROVE  \E n \in 0..MaxRetries :
                          /\ job'[<<r, n>>] = "active"
                          /\ \A w \in Workers : JobOf(w)' = <<r, n>> => workerPc'[w] \in {"idle", "alert"}
    BY DEF AlertInv
  <1> DEFINE Goal == \E n \in 0..MaxRetries :
                 /\ job'[<<r, n>>] = "active"
                 /\ \A w \in Workers : JobOf(w)' = <<r, n>> => workerPc'[w] \in {"idle", "alert"}
  <1>0. ~ Redelivered(r) /\ MaxStalls # 0 /\ \A n \in 0..MaxRetries : <<r, n>> \in Jobs
    <2>1. MaxStalls # 0 BY ConstantsAssumption
    <2> QED BY <2>1, StallsStay, JobTypes
  <1>1. CASE status[r] # "FAILED"
    <2>1. PICK w \in Workers : /\ workerRun[w] = r /\ workerPc[w] = "running" /\ FailRun(w)
                               /\ \A j \in Jobs : ~ TakeJob(w, j)
      BY <1>1, StatusSteps
    <2>2. /\ job[JobOf(w)] = "active"
          /\ \A v \in Workers : workerPc[v] # "idle" /\ JobOf(v) = JobOf(w) => v = w
      BY <1>0, <2>1 DEF LeaseInv
    <2>3. /\ workerPc'[w] = "alert" /\ job' = job
          /\ \A v \in Workers \ {w} : workerPc'[v] = workerPc[v]
          /\ \A v \in Workers : JobOf(v)' = JobOf(v)
      BY <2>1, JobTypes DEF FailRun, WorkerGoes, queueing, JobOf
    <2>4. JobOf(w) = <<r, workerAttempt[w]>> /\ workerAttempt[w] \in 0..MaxRetries
      BY <2>1, JobTypes DEF JobOf
    <2> QED BY <2>2, <2>3, <2>4
  <1>2. CASE status[r] = "FAILED"
    <2>0. r \notin alerted
      BY JobSteps, WorkerSteps DEF Quiet, InsertRun, CommitRun, FirstJobAdded, JobRedelivered,
         Redeliver, TakeJob, StartAttempt, RunNotFound, EndRun, FailRun, EmitFailure, ScheduleRetry,
         RequeueJob, AckJob, WorkerFails, RequeueFails, ProcessorThrows, WorkerCrash, history
    <2>1. PICK n \in 0..MaxRetries :
              /\ job[<<r, n>>] = "active"
              /\ \A w \in Workers : JobOf(w) = <<r, n>> => workerPc[w] \in {"idle", "alert"}
      BY <1>0, <1>2, <2>0 DEF AlertInv
    <2>2. ASSUME UNCHANGED <<working, job>> PROVE Goal
      BY <2>1, <2>2 DEF working, JobOf
    <2>3. ASSUME NEW f \in Flows, FirstJobAdded(f) PROVE Goal
      <3>1. /\ job' = [job EXCEPT ![<<newRun[f], 0>>] = "waiting"]
            /\ newRun[f] # r /\ UNCHANGED working
        BY <1>2, <2>3, FirstJob DEF FirstJobAdded
      <3>2. job'[<<r, n>>] = job[<<r, n>>] BY <1>0, <3>1, JobTypes
      <3> QED BY <2>1, <3>1, <3>2 DEF working, JobOf
    <2>4. ASSUME NEW w \in Workers, NEW j \in Jobs, TakeJob(w, j) PROVE Goal
      <3>1. j # <<r, n>> /\ JobOf(w)' = j
        BY <2>1, <2>4, JobEffects, JobTypes, ZenonT(40) DEF TakeJob, JobOf
      <3>2. job'[<<r, n>>] = job[<<r, n>>] BY <1>0, <2>4, <3>1, JobEffects
      <3>3. \A v \in Workers \ {w} : workerPc'[v] = workerPc[v] /\ JobOf(v)' = JobOf(v)
        BY <2>4, WorkerEffects DEF WorkerStep
      <3> QED BY <2>1, <3>1, <3>2, <3>3
    <2>5. ASSUME NEW w \in Workers, WorkerStep(w) \/ WorkerFails(w), \A j \in Jobs : ~ TakeJob(w, j)
          PROVE  Goal
      <3>1. /\ \A v \in Workers : JobOf(v)' = JobOf(v)
            /\ \A v \in Workers \ {w} : workerPc'[v] = workerPc[v]
            /\ workerPc[w] # "idle"
        BY <2>5, WorkerEffects
      <3>2. CASE JobOf(w) = <<r, n>>
        <4>1. workerPc[w] = "alert" /\ workerRun[w] = r BY <2>1, <3>1, <3>2 DEF JobOf
        <4>2. WorkerCrash(w)
          <5>1. ~ EmitFailure(w) BY <4>1 DEF EmitFailure
          <5> QED BY <2>5, <4>1, <5>1, WorkerSteps
              DEF StartAttempt, RunNotFound, EndRun, FailRun, ScheduleRetry, RequeueJob, AckJob,
              WorkerFails, RequeueFails, ProcessorThrows
        <4>3. workerPc'[w] = "idle" /\ job' = job
          BY <4>2, JobTypes DEF WorkerCrash, WorkerGoes, queueing
        <4> QED BY <2>1, <3>1, <4>3
      <3>3. CASE JobOf(w) # <<r, n>>
        <4>1. job'[<<r, n>>] = "active"
          BY <1>0, <2>1, <2>5, <3>3, JobEffects, WorkerEffects
        <4> QED BY <2>1, <3>1, <3>3, <4>1
      <3> QED BY <3>2, <3>3
    <2>6. ASSUME NEW j \in Jobs, JobRedelivered(j) PROVE Goal
      <3>1. UNCHANGED working /\ Redeliver(j) BY <2>6 DEF JobRedelivered, Redeliver
      <3>2. j # <<r, n>> BY <1>0, <2>6, StallsStay
      <3>3. job'[<<r, n>>] = "active" BY <1>0, <2>1, <3>1, <3>2, JobEffects
      <3> QED BY <2>1, <3>1, <3>3 DEF working, JobOf
    <2> QED BY <2>2, <2>3, <2>4, <2>5, <2>6, JobSteps DEF Quiet, InsertRun, CommitRun, queueing
  <1> QED BY <1>1, <1>2

\* As long as nothing fails, no job is abandoned and no run forgotten.
LEMMA CalmStep ==
    ASSUME IndInv, JobOrder, LeaseInv, AttemptInv, CalmInv, [Next]_vars
    PROVE  CalmInv'
  <1> SUFFICES ASSUME faults' = 0
               PROVE  /\ \A j \in Jobs : stalls'[j] = 0
                      /\ \A j \in Jobs : job'[j] = "active" =>
                            \E w \in Workers : workerPc'[w] # "idle" /\ JobOf(w)' = j
                      /\ RedisConfigured =>
                            \A r \in Runs \ missed' : Pending(r)' => LookedAfter(r)'
    BY DEF CalmInv
  <1> DEFINE Held(j) == \E w \in Workers : workerPc[w] # "idle" /\ JobOf(w) = j
             Goal == /\ \A j \in Jobs : stalls'[j] = 0
                     /\ \A j \in Jobs : job'[j] = "active" => Held(j)'
                     /\ RedisConfigured =>
                           \A r \in Runs \ missed' : Pending(r)' => LookedAfter(r)'
  <1>0. faults = 0 /\ faults \in Nat
    <2>1. faults \in Nat BY ConstantsAssumption DEF IndInv, TypeOK
    <2>2. faults' >= faults
      <3>1. ASSUME NEW w \in Workers, WorkerStep(w) \/ WorkerFails(w) PROVE faults' >= faults
        <4>1. WorkerStep(w) => UNCHANGED faults
          BY DEF WorkerStep, TakeJob, StartAttempt, RunNotFound, EndRun, FailRun, EmitFailure,
             ScheduleRetry, RequeueJob, AckJob, budget
        <4>2. WorkerFails(w) => faults' = faults + 1
          BY DEF WorkerFails, RequeueFails, ProcessorThrows, WorkerCrash
        <4> QED BY <2>1, <3>1, <4>1, <4>2
      <3>2. ASSUME NEW f \in Flows, NEW r \in Runs, InsertRun(f, r) PROVE faults' >= faults
        BY <2>1, <3>2 DEF InsertRun, budget
      <3>3. ASSUME NEW f \in Flows, CommitRun(f) \/ FirstJobAdded(f) PROVE faults' >= faults
        BY <2>1, <3>3 DEF CommitRun, FirstJobAdded, budget
      <3>4. ASSUME NEW j \in Jobs, JobRedelivered(j) PROVE faults' >= faults
        BY <2>1, <3>4 DEF JobRedelivered
      <3> QED BY <3>1, <3>2, <3>3, <3>4, JobSteps DEF Quiet
    <2> QED BY <2>1, <2>2
  <1>1. /\ \A j \in Jobs : stalls[j] = 0
        /\ \A j \in Jobs : job[j] = "active" => Held(j)
        /\ RedisConfigured => \A r \in Runs \ missed : Pending(r) => LookedAfter(r)
    BY <1>0 DEF CalmInv
  <1>c. \A r \in Runs : ~ Redelivered(r)
    <2> SUFFICES ASSUME NEW r \in Runs, NEW n \in 0..MaxRetries PROVE ~ (stalls[<<r, n>>] > 0)
      BY DEF Redelivered
    <2>1. <<r, n>> \in Jobs BY JobTypes
    <2> QED BY <1>1, <2>1
  <1>2. ASSUME UNCHANGED <<stalls, job, working>>,
               \A r \in Runs \ missed' : RedisConfigured /\ Pending(r)' => r \notin missed /\ Pending(r)
        PROVE  Goal
    BY <1>1, <1>2 DEF working, JobOf, LookedAfter, Trying
  <1>3. CASE Quiet
    <2>1. ASSUME NEW r \in Runs, RedisConfigured, Pending(r)' PROVE Pending(r)
      BY <1>3, <2>1 DEF Quiet, Pending, Active
    <2> QED BY <1>2, <1>3, <2>1 DEF Quiet
  <1>4. ASSUME NEW f \in Flows, NEW s \in Runs, InsertRun(f, s) PROVE Goal
    <2>1. ASSUME NEW r \in Runs, Pending(r)' PROVE Pending(r)
      <3>1. \A g \in Flows : pc'[g] = "enqueued" => pc[g] = "enqueued" /\ newRun'[g] = newRun[g]
        BY <1>4 DEF InsertRun, FlowGoes, IndInv, TypeOK
      <3> QED BY <1>4, <2>1, <3>1 DEF InsertRun, Pending, Active, runRow
    <2> QED BY <1>2, <1>4, <2>1 DEF InsertRun, queueing, history
  <1>5. ASSUME NEW f \in Flows, CommitRun(f) PROVE Goal
    <2>1. ASSUME NEW r \in Runs, Pending(r)' PROVE Pending(r)
      <3>1. /\ \A g \in Flows : pc'[g] = "enqueued" => pc[g] = "enqueued" /\ newRun'[g] = newRun[g]
            /\ pc[f] = "enqueued" /\ (r # newRun[f] => status'[r] = status[r])
        BY <1>5 DEF CommitRun, Leave, FlowGoes, IndInv, TypeOK
      <3> QED BY <1>5, <2>1, <3>1 DEF Pending, Active
    <2> QED BY <1>2, <1>5, <2>1 DEF CommitRun, queueing
  <1>6. ASSUME NEW f \in Flows, FirstJobAdded(f) PROVE Goal
    <2> DEFINE s == newRun[f]
    <2>1. /\ s \in Runs /\ <<s, 0>> \in Jobs
          /\ \A j \in Jobs : job'[j] = IF j = <<s, 0>> THEN "waiting" ELSE job[j]
          /\ job[<<s, 0>>] = "absent"
      <3>1. s \in Runs /\ job' = [job EXCEPT ![<<s, 0>>] = "waiting"] BY <1>6, FirstJob
      <3>2. <<s, 0>> \in Jobs BY <3>1, JobTypes
      <3>3. 0 \in 0..(MaxRetries + 1) BY ConstantsAssumption
      <3>4. job \in [Jobs -> JobStates] BY JobTypes
      <3> QED BY <1>6, <3>1, <3>2, <3>3, <3>4, FirstJob
    <2>2. UNCHANGED <<stalls, working, missed, status>> BY <1>6 DEF FirstJobAdded
    <2>3. ASSUME RedisConfigured, NEW r \in Runs \ missed', Pending(r)' PROVE LookedAfter(r)'
      <3>1. CASE r = s
        <4>1. 0 \in 0..(MaxRetries + 1) BY ConstantsAssumption
        <4> QED BY <2>1, <3>1, <4>1 DEF LookedAfter
      <3>2. CASE r # s
        <4>1. Pending(r)
          <5>1. ASSUME NEW g \in Flows, pc'[g] = "enqueued", newRun'[g] = r
                PROVE  pc[g] = "enqueued" /\ newRun[g] = r
            BY <1>6, <3>2, <5>1 DEF FirstJobAdded
          <5> QED BY <2>2, <2>3, <5>1 DEF Pending, Active
        <4>2. LookedAfter(r) BY <1>1, <2>2, <2>3, <4>1
        <4>3. \A n \in 0..(MaxRetries + 1) : <<r, n>> \in Jobs BY DEF Jobs
        <4> QED BY <2>1, <2>2, <3>2, <4>2, <4>3 DEF LookedAfter, working, Trying
      <3> QED BY <3>1, <3>2
    <2>4. \A j \in Jobs : job'[j] = "active" => job[j] = "active" BY <2>1
    <2> QED BY <1>1, <2>2, <2>3, <2>4 DEF working, JobOf
  <1>7. ASSUME NEW w \in Workers, NEW j \in Jobs, TakeJob(w, j) PROVE Goal
    <2>1. /\ JobOf(w)' = j /\ workerPc'[w] = "taken" /\ workerRun'[w] = j[1]
          /\ j = <<j[1], j[2]>> /\ workerPc[w] = "idle"
          /\ UNCHANGED <<stalls, missed, status, pc, newRun>>
      BY <1>7, JobEffects, JobTypes, ZenonT(40) DEF TakeJob, JobOf, scheduling, runRow, history
    <2>2. \A v \in Workers \ {w} : workerPc'[v] = workerPc[v] /\ JobOf(v)' = JobOf(v)
                                   /\ workerRun'[v] = workerRun[v]
      BY <1>7, WorkerEffects DEF WorkerStep
    <2>3. \A i \in Jobs : job'[i] = IF i = j THEN "active" ELSE job[i]
      BY <1>7, JobEffects
    <2>4. ASSUME NEW r \in Runs, LookedAfter(r) PROVE LookedAfter(r)'
      <3>1. CASE \E v \in Workers : workerRun[v] = r /\ Trying(v)
        BY <2>1, <2>2, <3>1 DEF LookedAfter, Trying
      <3>2. ASSUME NEW n \in 0..(MaxRetries + 1), job[<<r, n>>] = "waiting" PROVE LookedAfter(r)'
        <4>1. <<r, n>> \in Jobs BY DEF Jobs
        <4>2. CASE j = <<r, n>> BY <2>1, <4>2 DEF LookedAfter, Trying
        <4>3. CASE j # <<r, n>> BY <2>3, <3>2, <4>1, <4>3 DEF LookedAfter
        <4> QED BY <4>2, <4>3
      <3> QED BY <2>4, <3>1, <3>2 DEF LookedAfter
    <2>5. \A r \in Runs : Pending(r)' = Pending(r) BY <2>1 DEF Pending, Active
    <2>6. \A i \in Jobs : job'[i] = "active" => Held(i)'
      BY <1>1, <2>1, <2>2, <2>3
    <2> QED BY <1>1, <2>1, <2>4, <2>5, <2>6
  <1>8. ASSUME NEW w \in Workers, WorkerStep(w) \/ WorkerFails(w), \A j \in Jobs : ~ TakeJob(w, j)
        PROVE  Goal
    <2>1. /\ WorkerStep(w) /\ UNCHANGED stalls
          /\ workerPc[w] # "idle" /\ workerRun[w] \in Runs
      <3>1. ~ WorkerFails(w)
        BY <1>0 DEF WorkerFails, RequeueFails, ProcessorThrows, WorkerCrash
      <3> QED BY <1>8, <3>1, WorkerSteps, WorkerEffects, JobTypes
    <2>2. \A v \in Workers : workerRun'[v] = workerRun[v] /\ JobOf(v)' = JobOf(v)
                              /\ (v # w => workerPc'[v] = workerPc[v])
      BY <1>8, WorkerEffects
    <2>3. /\ ~ AckJob(w) => workerPc'[w] # "idle"
          /\ Trying(w) => \/ Trying(w)' \/ RequeueJob(w) \/ workerRun[w] \in missed'
                          \/ workerPc[w] = "running" /\ status'[workerRun[w]] \in TerminalStatuses
          /\ missed \subseteq missed' /\ UNCHANGED <<pc, newRun>>
          /\ \A r \in Runs : status'[r] \in ActiveStatuses /\ status[r] \notin ActiveStatuses =>
                workerRun[w] = r /\ Trying(w)'
      <3> USE DEF WorkerGoes, Trying, TerminalStatuses, ActiveStatuses, runRow, history, scheduling
      <3>0. workerPc \in [Workers -> WorkerPcs] /\ status \in [Runs -> Statuses] BY JobTypes
      <3>1. CASE StartAttempt(w) BY <2>1, <3>0, <3>1 DEF StartAttempt
      <3>2. CASE RunNotFound(w) BY <2>1, <3>0, <3>2 DEF RunNotFound
      <3>3. CASE \E s \in {"SUCCEEDED", "PARTIAL", "TIMEOUT"} : EndRun(w, s)
        BY <2>1, <3>0, <3>3 DEF EndRun
      <3>4. CASE FailRun(w) BY <2>1, <3>0, <3>4 DEF FailRun
      <3>5. CASE EmitFailure(w) BY <2>1, <3>0, <3>5 DEF EmitFailure
      <3>6. CASE ScheduleRetry(w) BY <2>1, <3>0, <3>6 DEF ScheduleRetry
      <3>7. CASE RequeueJob(w) BY <2>1, <3>0, <3>7 DEF RequeueJob
      <3>8. CASE AckJob(w) BY <2>1, <3>0, <3>8 DEF AckJob
      <3> QED BY <1>8, <2>1, <3>1, <3>2, <3>3, <3>4, <3>5, <3>6, <3>7, <3>8 DEF WorkerStep
    <2>4. /\ job[JobOf(w)] \in {"active", "finished"} /\ (job[JobOf(w)] = "active" => holder[JobOf(w)] = w)
          /\ JobOf(w) \in Jobs /\ NextJob(w) \in Jobs
      BY <1>c, <2>1, JobTypes DEF LeaseInv
    <2>5. ASSUME NEW i \in Jobs, job[i] = "waiting" PROVE job'[i] = "waiting"
      BY <1>8, <2>4, <2>5, JobEffects, WorkerEffects
    <2>6. ASSUME NEW i \in Jobs, job'[i] = "active" PROVE Held(i)'
      <3>1. job[i] = "active" BY <1>8, <2>6, JobEffects, WorkerEffects
      <3>2. PICK v \in Workers : workerPc[v] # "idle" /\ JobOf(v) = i BY <1>1, <3>1
      <3>3. CASE v # w BY <2>2, <3>2, <3>3
      <3>4. CASE v = w
        <4>1. ~ AckJob(w) BY <2>4, <2>6, <3>1, <3>2, <3>4, JobEffects
        <4> QED BY <2>2, <2>3, <3>2, <3>4, <4>1
      <3> QED BY <3>3, <3>4
    <2>7. ASSUME RedisConfigured, NEW r \in Runs \ missed', Pending(r)' PROVE LookedAfter(r)'
      <3>1. CASE workerRun[w] = r /\ Trying(w)'
        BY <2>2, <3>1 DEF LookedAfter, Trying
      <3>2. CASE ~ (workerRun[w] = r /\ Trying(w)')
        <4>1. Pending(r) /\ r \notin missed BY <2>3, <2>7, <3>2 DEF Pending, Active
        <4>2. LookedAfter(r) BY <1>1, <2>7, <4>1
        <4>3. ASSUME NEW n \in 0..(MaxRetries + 1), job[<<r, n>>] = "waiting" PROVE LookedAfter(r)'
          <5>1. <<r, n>> \in Jobs BY DEF Jobs
          <5> QED BY <2>5, <4>3, <5>1 DEF LookedAfter
        <4>4. ASSUME NEW v \in Workers, workerRun[v] = r, Trying(v), v # w PROVE LookedAfter(r)'
          BY <2>2, <4>4 DEF LookedAfter, Trying
        <4>5. ASSUME workerRun[w] = r, Trying(w) PROVE LookedAfter(r)'
          <5>1. CASE RequeueJob(w)
            <6>1. Busy(w) /\ workerAttempt[w] \in 0..MaxRetries
              BY <4>5, JobTypes DEF Trying, Busy
            <6>2. /\ workerAttempt[w] + 1 \in 0..(MaxRetries + 1)
                  /\ workerAttempt[w] \in 0..(MaxRetries + 1)
                  /\ workerAttempt[w] < workerAttempt[w] + 1
              BY <6>1, ConstantsAssumption
            <6>3. job[NextJob(w)] = "absent"
              BY <1>c, <4>5, <6>1, <6>2 DEF AttemptInv, NextJob, JobOf
            <6>4. job'[NextJob(w)] = "waiting" BY <2>4, <5>1, <6>3, JobEffects
            <6> QED BY <4>5, <6>2, <6>4 DEF LookedAfter, NextJob
          <5>2. CASE workerPc[w] = "running" /\ status'[r] \in TerminalStatuses
            <6>1. status[r] # "ABSENT" BY <4>5, <5>2 DEF IndInv, WorkerInv
            <6>2. ~ \E f \in Flows : pc[f] = "enqueued" /\ newRun[f] = r
              BY <6>1 DEF IndInv, FlowInv, Creating
            <6>3. status'[r] \notin ActiveStatuses BY <5>2 DEF TerminalStatuses, ActiveStatuses
            <6> QED BY <2>3, <2>7, <6>2, <6>3 DEF Pending, Active
          <5> QED BY <2>3, <2>7, <3>2, <4>5, <5>1, <5>2
        <4> QED BY <4>2, <4>3, <4>4, <4>5 DEF LookedAfter
      <3> QED BY <3>1, <3>2
    <2> QED BY <1>1, <2>1, <2>6, <2>7
  <1>9. ASSUME NEW j \in Jobs, JobRedelivered(j) PROVE Goal
    BY <1>0, <1>1, <1>9 DEF JobRedelivered, Abandoned, JobOf
  <1> QED BY <1>3, <1>4, <1>5, <1>6, <1>7, <1>8, <1>9, JobSteps

\* Every step, stuttering included, preserves the invariant about jobs.
LEMMA JobInvStep == IndInv /\ JobInv /\ [Next]_vars => JobInv'
  BY OrderStep, LeaseStep, AttemptStep, EndedStep, AlertStep, CalmStep DEF JobInv

\* The initial states satisfy the invariant about jobs.
LEMMA InitJobInv == Init => JobInv
  <1> SUFFICES ASSUME Init PROVE JobInv OBVIOUS
  <1>1. JobOrder
    <2>1. \A j \in Jobs : ~ (stalls[j] > 0) BY DEF Init
    <2>2. \A r \in Runs, n \in 0..(MaxRetries + 1) : job[<<r, n>>] = "absent" BY DEF Init, Jobs
    <2> QED BY <2>1, <2>2 DEF Init, JobOrder
  <1>2. LeaseInv BY DEF Init, LeaseInv
  <1>3. AttemptInv
    <2>1. \A r \in Runs, n \in 0..(MaxRetries + 1) : job[<<r, n>>] = "absent" BY DEF Init, Jobs
    <2> QED BY <2>1 DEF AttemptInv
  <1>4. EndedInv /\ AlertInv BY DEF Init, EndedInv, AlertInv, TerminalStatuses
  <1>5. CalmInv BY DEF Init, CalmInv, Pending, Active, ActiveStatuses
  <1> QED BY <1>1, <1>2, <1>3, <1>4, <1>5 DEF JobInv

\* The jobs of a run follow one another as the invariant says, in every
\* reachable state.
THEOREM JobInvariance == SafeSpec => []JobInv
  BY InitJobInv, JobInvStep, Invariance, PTL DEF SafeSpec

\* One executor: two workers have a run in hand at once only after BullMQ
\* redelivered one of its jobs.
THEOREM NoOverlapHolds == SafeSpec => []NoOverlap
  <1>1. IndInv /\ JobInv => NoOverlap
    <2> SUFFICES ASSUME IndInv, JobInv, NEW v \in Workers, NEW w \in Workers, v # w,
                        Executing(v), Executing(w), workerRun[v] = workerRun[w],
                        ~ Redelivered(workerRun[v])
                 PROVE  FALSE
      BY DEF NoOverlap
    <2> QED BY Alone DEF JobInv, Executing, Busy
  <1> QED BY <1>1, Invariance, JobInvariance, PTL

\* A terminal status is final unless BullMQ redelivered one of the run's jobs.
THEOREM TerminalUnlessRedelivered == SafeSpec => ResurrectionOnlyByRedelivery
  <1>1. IndInv /\ JobInv /\ [Next]_vars =>
           [\A r \in Runs : status[r] \in TerminalStatuses /\ status'[r] # status[r]
                                => Redelivered(r)']_vars
    BY EndedStep DEF JobInv
  <1> QED BY <1>1, Invariance, JobInvariance, PTL DEF SafeSpec, ResurrectionOnlyByRedelivery

\* A FAILED run is announced, or its job is still to be redelivered, or was.
\* MaxStalls is BullMQ's maxStalledCount, 1 unless the code says otherwise: it
\* does not.
THEOREM FailuresAnnounced == ASSUME MaxStalls > 0 PROVE SafeSpec => []FailureAnnounced
  <1>1. JobInv => FailureAnnounced
    <2> SUFFICES ASSUME JobInv, NEW r \in Runs, status[r] = "FAILED", r \notin alerted,
                        ~ Redelivered(r)
                 PROVE  \E n \in 0..MaxRetries : job[<<r, n>>] = "active"
      BY DEF FailureAnnounced
    <2> QED BY DEF JobInv, AlertInv
  <1> QED BY <1>1, JobInvariance, PTL

\* With Redis, and as long as nothing fails, a run is stranded only by a worker
\* that took its job before the scheduler's commit.
THEOREM StrandedOnlyEarly == ASSUME RedisConfigured PROVE SafeSpec => []StrandedOnlyByEarlyDelivery
  <1>1. IndInv /\ JobInv => StrandedOnlyByEarlyDelivery
    <2> SUFFICES ASSUME IndInv, JobInv, NEW r \in Runs, Stranded(r), r \notin missed, ~ (faults > 0)
                 PROVE  FALSE
      BY DEF StrandedOnlyByEarlyDelivery
    <2>1. faults = 0 BY ConstantsAssumption DEF IndInv, TypeOK
    <2>2. LookedAfter(r) BY <2>1 DEF JobInv, CalmInv, Pending, Stranded
    <2>3. \A w \in Workers : workerRun[w] = r => ~ Trying(w) BY DEF Stranded, Trying
    <2>4. \A n \in 0..(MaxRetries + 1) : job[<<r, n>>] # "waiting"
      <3> SUFFICES ASSUME NEW n \in 0..(MaxRetries + 1) PROVE job[<<r, n>>] # "waiting"
        OBVIOUS
      <3>1. CASE n = MaxRetries + 1 BY <3>1 DEF IndInv, WorkerInv
      <3>2. CASE n # MaxRetries + 1
        <4>1. n \in 0..MaxRetries BY <3>2, ConstantsAssumption
        <4> QED BY <4>1 DEF Stranded
      <3> QED BY <3>1, <3>2
    <2> QED BY <2>2, <2>3, <2>4 DEF LookedAfter
  <1> QED BY <1>1, Invariance, JobInvariance, PTL
=============================================================================
