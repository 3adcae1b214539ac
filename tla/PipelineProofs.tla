--------------------------- MODULE PipelineProofs ---------------------------
(***************************************************************************)
(* What the pipeline promises about the jobs themselves, for every number  *)
(* of jobs, workers, retries, faults, signals and crashes:                 *)
(*                                                                         *)
(*   - the retry counter counts executions, when no push is duplicated:    *)
(*     only the holder of an ID executes the job and writes its row;       *)
(*   - the recorded outcome is the payload's, and rows are well formed, also *)
(*     when pushes are duplicated;                                         *)
(*   - a job that nobody holds stays behind for good, but only a failure, a *)
(*     signal or a crash leaves one behind;                                *)
(*   - a shutdown takes boundedly many steps, and without duplicated pushes  *)
(*     so does a job, which ends settled or in nobody's hands;             *)
(*   - holders, rows, retries and outcomes are as promised also when the    *)
(*     host fails and the list goes back in time.                          *)
(***************************************************************************)
EXTENDS AsyncJobsProofs, HostFailure

(* What RetryAccounting says of one job with row r and a executions.        *)
Counted(r, a) ==
    /\ r.status \in {"none", "pending"} => a = r.retryCount
    /\ r.status = "processing" => a \in {r.retryCount, r.retryCount + 1}
    /\ r.status \in Terminal => a = r.retryCount + 1

LEMMA CountedIsAccounting ==
    ASSUME TypeOK
    PROVE  RetryAccounting <=> \A j \in Jobs : Counted(rows[j], attempts[j])
  <1>1. ASSUME NEW j \in Jobs
        PROVE  Counted(rows[j], attempts[j]) <=>
                 LET r == rows[j].retryCount IN
                 CASE rows[j].status \in {"none", "pending"} -> attempts[j] = r
                   [] rows[j].status = "processing"          -> attempts[j] \in {r, r + 1}
                   [] rows[j].status \in Terminal            -> attempts[j] = r + 1
    <2>1. rows[j].status \in {"none", "pending", "processing", "success", "failed"}
      BY DEF TypeOK, Entity, Status
    <2> QED BY <2>1 DEF Counted, Terminal
  <1> QED BY <1>1 DEF RetryAccounting

LEMMA CountedAccounting ==
    ASSUME TypeOK', \A j \in Jobs : Counted(rows'[j], attempts'[j])
    PROVE  RetryAccounting'
  <1>1. ASSUME NEW j \in Jobs
        PROVE  LET r == rows'[j].retryCount IN
               CASE rows'[j].status \in {"none", "pending"} -> attempts'[j] = r
                 [] rows'[j].status = "processing"          -> attempts'[j] \in {r, r + 1}
                 [] rows'[j].status \in Terminal            -> attempts'[j] = r + 1
    <2>1. rows'[j].status \in {"none", "pending", "processing", "success", "failed"}
      BY DEF TypeOK, Entity, Status
    <2> QED BY <2>1 DEF Counted, Terminal
  <1> QED BY <1>1 DEF RetryAccounting

(* A step of worker w that changes at most its own job's row and count      *)
(* keeps AttemptsInv if the new row and count agree.                       *)
LEMMA CountMoves ==
    ASSUME HolderInv, AttemptsInv, TypeInv',
           NEW w \in Workers, NEW j \in Jobs, worker[w].job = j,
           \A v \in Workers : v # w => worker'[v] = worker[v],
           \A k \in Jobs : k # j => rows'[k] = rows[k] /\ attempts'[k] = attempts[k],
           Counted(rows'[j], attempts'[j]),
           worker'[w].pc \in {"execute", "complete", "record"} =>
               worker'[w].job = j /\ attempts'[j] = rows'[j].retryCount + 1
    PROVE  AttemptsInv'
  <1>1. \A k \in Jobs : Counted(rows[k], attempts[k])
    BY CountedIsAccounting DEF HolderInv, TypeInv, AttemptsInv
  <1>2. \A k \in Jobs : Counted(rows'[k], attempts'[k])
    BY <1>1
  <1>3. RetryAccounting'
    BY <1>2, CountedAccounting DEF TypeInv
  <1>4. ASSUME NEW v \in Workers, worker'[v].pc \in {"execute", "complete", "record"}
        PROVE  attempts'[worker'[v].job] = rows'[worker'[v].job].retryCount + 1
    <2>1. CASE v = w
      BY <1>4, <2>1
    <2>2. CASE v # w
      <3>1. worker[v].job \in Jobs
        BY <1>4, <2>2, BusyJob DEF HolderInv, BusyPC, WorkerPC
      <3>2. worker[v].job # j
        BY <2>2, <3>1, JobsAssumption DEF HolderInv, OneHolder
      <3> QED BY <1>4, <2>2, <3>1, <3>2 DEF AttemptsInv
    <2> QED BY <2>1, <2>2
  <1> QED BY <1>3, <1>4 DEF AttemptsInv

(* Steps that write no row and start no execution.                         *)
LEMMA CountFrame ==
    ASSUME AttemptsInv, UNCHANGED <<rows, attempts>>,
           \A w \in Workers :
               worker'[w].pc \in {"execute", "complete", "record"} =>
                   /\ worker[w].pc \in {"execute", "complete", "record"}
                   /\ worker'[w].job = worker[w].job
    PROVE  AttemptsInv'
  BY DEF AttemptsInv, RetryAccounting

LEMMA AttemptsInit == Init => AttemptsInv
  <1> SUFFICES ASSUME Init PROVE AttemptsInv
    OBVIOUS
  <1>1. \A j \in Jobs : rows[j] = NoRow /\ attempts[j] = 0
    BY DEF Init
  <1>2. \A w \in Workers : worker[w].pc = "stopped"
    BY DEF Init, Without
  <1>3. RetryAccounting
    BY <1>1, TypeInit, CountedIsAccounting DEF Counted, NoRow, Terminal, TypeInv
  <1> QED BY <1>2, <1>3 DEF AttemptsInv

LEMMA AttemptsStep ==
    HolderInv /\ HolderInv' /\ AttemptsInv /\ [Next]_vars => AttemptsInv'
  <1> SUFFICES ASSUME HolderInv, HolderInv', AttemptsInv, [Next]_vars PROVE AttemptsInv'
    OBVIOUS
  <1> USE DEF vars, request, memory, process, budget, limits
  <1>0. TypeInv /\ TypeOK /\ TypeInv' /\ TypeOK'
    BY DEF HolderInv, TypeInv
  <1>c. \A j \in Jobs : Counted(rows[j], attempts[j])
    BY <1>0, CountedIsAccounting DEF AttemptsInv
  <1>n. \A j \in Jobs : attempts[j] \in Nat /\ rows[j].retryCount \in Nat
    BY <1>0, MaxRetriesAssumption DEF TypeOK, Entity
  <1>1. ASSUME NEW j \in Jobs, Persist(j) PROVE AttemptsInv'
    <2>1. /\ rows[j] = NoRow /\ StoreFails(j, New) /\ Requested(j)
          /\ UNCHANGED <<worker, attempts>>
      BY <1>1 DEF HolderInv, RequestKnowsRow, Persist, Insert, StoreFails, Requested
    <2>2. /\ \A k \in Jobs : k # j => rows'[k] = rows[k]
          /\ rows'[j] \in {NoRow, New}
      BY <1>0, <2>1 DEF StoreFails, Store, TypeOK
    <2>3. Counted(NoRow, attempts[j]) /\ Counted(New, attempts[j])
      BY <1>c, <2>1 DEF Counted, NoRow, New, Terminal
    <2>4. \A k \in Jobs : Counted(rows'[k], attempts'[k])
      BY <1>c, <2>1, <2>2, <2>3
    <2>5. RetryAccounting'
      BY <2>4, <1>0, CountedAccounting
    <2>6. ASSUME NEW w \in Workers, worker[w].pc \in {"execute", "complete", "record"}
          PROVE  attempts[worker[w].job] = rows'[worker[w].job].retryCount + 1
      <3>1. worker[w].job \in Jobs
        BY <2>6, BusyJob DEF HolderInv, BusyPC, WorkerPC
      <3>2. worker[w].job # j
        BY <2>1, <3>1, JobsAssumption DEF HolderInv, OneHolder
      <3> QED BY <2>2, <2>6, <3>1, <3>2 DEF AttemptsInv
    <2> QED BY <2>1, <2>5, <2>6 DEF AttemptsInv
  <1>2. ASSUME NEW w \in Workers, Claim(w) PROVE AttemptsInv'
    <2> DEFINE j == worker[w].job
    <2>1. /\ j \in Jobs /\ worker[w].entity \in Entity
          /\ Transition(rows[j], worker[w].entity)
          /\ rows[j].status = "pending" /\ worker[w].entity = MarkProcessing(rows[j])
      BY <1>2, WorkerTransition
      DEF Claim, HolderInv, HolderKnowsID, Known, WorkerKnowsID, ClaimKnowsRow
    <2>2. rows[j] \in Entity /\ attempts[j] = rows[j].retryCount /\ attempts[j] \in Nat
      BY <1>0, <1>c, <1>n, <2>1 DEF Counted, TypeOK
    <2>3. /\ MarkProcessing(rows[j]).status = "processing"
          /\ MarkProcessing(rows[j]).retryCount = rows[j].retryCount
      BY <2>2 DEF MarkProcessing, Entity
    <2>4. /\ \A v \in Workers : v # w => worker'[v] = worker[v]
          /\ \A k \in Jobs : k # j => rows'[k] = rows[k] /\ attempts'[k] = attempts[k]
      BY <1>0, <1>2 DEF Claim, Goto, Return, Store, StoreFails, TypeOK
    <2>5. \/ /\ rows'[j] = MarkProcessing(rows[j]) /\ attempts'[j] = attempts[j] + 1
             /\ worker'[w].job = j
          \/ /\ rows'[j] \in {rows[j], MarkProcessing(rows[j])} /\ attempts'[j] = attempts[j]
             /\ worker'[w].pc \in {"receive", "stopped"}
      <3>1. CASE Goto(w, "execute", worker[w].entity) /\ Store(j, worker[w].entity)
                   /\ attempts' = [attempts EXCEPT ![j] = @ + 1]
        BY <1>0, <2>1, <3>1 DEF Goto, Store, TypeOK
      <3>2. CASE Return(w) /\ StoreFails(j, worker[w].entity) /\ UNCHANGED attempts
        BY <1>0, <2>1, <3>2 DEF Return, Without, Store, StoreFails, TypeOK
      <3> QED BY <1>2, <3>1, <3>2 DEF Claim, StoreFails
    <2>6. Counted(rows'[j], attempts'[j])
      BY <2>1, <2>2, <2>3, <2>5 DEF Counted, Terminal
    <2>7. worker'[w].pc \in {"execute", "complete", "record"} =>
            worker'[w].job = j /\ attempts'[j] = rows'[j].retryCount + 1
      BY <2>2, <2>3, <2>5
    <2> QED BY <1>0, <2>1, <2>4, <2>6, <2>7, CountMoves
  <1>3. ASSUME NEW w \in Workers, PersistSuccess(w) PROVE AttemptsInv'
    <2> DEFINE j == worker[w].job
    <2>1. /\ j \in Jobs /\ rows[j] \in Entity
          /\ rows[j].status = "processing" /\ worker[w].entity = MarkSuccess(rows[j])
      BY <1>0, <1>3, WorkerTransition
      DEF PersistSuccess, HolderInv, HolderKnowsID, Known, WorkerKnowsID, ClaimKnowsRow, TypeOK
    <2>2. attempts[j] = rows[j].retryCount + 1
      BY <1>3 DEF PersistSuccess, AttemptsInv
    <2>3. /\ MarkSuccess(rows[j]).status = "success"
          /\ MarkSuccess(rows[j]).retryCount = rows[j].retryCount
      BY <2>1 DEF MarkSuccess, Entity
    <2>4. /\ \A v \in Workers : v # w => worker'[v] = worker[v]
          /\ worker'[w].pc \in {"receive", "stopped"}
          /\ UNCHANGED attempts /\ StoreFails(j, worker[w].entity)
      BY <1>0, <1>3 DEF PersistSuccess, Return, Without, StoreFails, TypeOK
    <2>5. /\ \A k \in Jobs : k # j => rows'[k] = rows[k]
          /\ rows'[j] \in {rows[j], MarkSuccess(rows[j])}
      BY <1>0, <2>1, <2>4 DEF Store, StoreFails, TypeOK
    <2>6. Counted(rows'[j], attempts'[j])
      BY <2>1, <2>2, <2>3, <2>4, <2>5 DEF Counted, Terminal
    <2> QED BY <1>0, <2>1, <2>4, <2>5, <2>6, CountMoves
  <1>4. ASSUME NEW w \in Workers, PersistFailure(w) PROVE AttemptsInv'
    <2> DEFINE j == worker[w].job
    <2>1. /\ j \in Jobs /\ rows[j] \in Entity
          /\ rows[j].status = "processing" /\ worker[w].entity = RecordFailure(rows[j])
      BY <1>0, <1>4, WorkerTransition
      DEF PersistFailure, HolderInv, HolderKnowsID, Known, WorkerKnowsID, ClaimKnowsRow, TypeOK
    <2>2. attempts[j] = rows[j].retryCount + 1
      BY <1>4 DEF PersistFailure, AttemptsInv
    <2>3. LET e == RecordFailure(rows[j]) IN
          \/ e.status = "pending" /\ e.retryCount = rows[j].retryCount + 1
          \/ e.status = "failed" /\ e.retryCount = rows[j].retryCount
      BY <2>1 DEF RecordFailure, Entity
    <2>4. /\ \A v \in Workers : v # w => worker'[v] = worker[v]
          /\ worker'[w].pc \notin {"execute", "complete", "record"}
          /\ UNCHANGED attempts /\ StoreFails(j, worker[w].entity)
      BY <1>0, <1>4 DEF PersistFailure, Return, Goto, Without, StoreFails, TypeOK
    <2>5. /\ \A k \in Jobs : k # j => rows'[k] = rows[k]
          /\ rows'[j] \in {rows[j], RecordFailure(rows[j])}
      BY <1>0, <2>1, <2>4 DEF Store, StoreFails, TypeOK
    <2>6. Counted(rows'[j], attempts'[j])
      BY <2>1, <2>2, <2>3, <2>4, <2>5 DEF Counted, Terminal
    <2> QED BY <1>0, <2>1, <2>4, <2>5, <2>6, CountMoves
  <1>5. ASSUME NEW w \in Workers, Handoff(w) \/ WorkerStops(w) \/ Load(w) \/ Requeue(w)
        PROVE  AttemptsInv'
    <2>1. /\ \A v \in Workers : v # w => worker'[v] = worker[v]
          /\ worker'[w].pc \notin {"execute", "complete", "record"}
      BY <1>0, <1>5
      DEF Handoff, WorkerStops, Load, Requeue, Return, Goto, Without, TypeOK
    <2>2. UNCHANGED <<rows, attempts>>
      BY <1>5 DEF Handoff, WorkerStops, Load, Requeue
    <2> QED BY <2>1, <2>2, CountFrame
  <1>6. ASSUME NEW w \in Workers, Execute(w) PROVE AttemptsInv'
    <2>1. /\ \A v \in Workers : v # w => worker'[v] = worker[v]
          /\ worker[w].pc = "execute"
          /\ \/ worker'[w].job = worker[w].job
             \/ worker'[w].pc \in {"receive", "stopped"}
      BY <1>0, <1>6 DEF Execute, Return, Goto, Without, TypeOK
    <2> QED BY <1>6, <2>1, CountFrame DEF Execute
  <1>7. CASE Start \/ Exit \/ Crash
    <2>1. \A w \in Workers : worker'[w].pc \in {"receive", "stopped"}
      BY <1>7 DEF Start, Exit, Crash, Down, Without
    <2> QED BY <1>7, <2>1, CountFrame DEF Start, Exit, Crash
  <1>8. CASE UNCHANGED <<rows, attempts, worker>>
    BY <1>8, CountFrame
  <1>9. \/ UNCHANGED <<rows, attempts, worker>>
        \/ \E j \in Jobs : Persist(j)
        \/ \E w \in Workers : \/ Handoff(w) \/ WorkerStops(w) \/ Load(w) \/ Requeue(w)
                              \/ Claim(w) \/ Execute(w)
                              \/ PersistSuccess(w) \/ PersistFailure(w)
        \/ Start \/ Exit \/ Crash
    BY DEF Next, RequestStep, DispatcherStep, DispatcherRuns, WorkerStep, Submit, Publish,
           RequestLost, Dequeue, DequeueCancelled, DequeueFault, Backoff, AbandonSend, Signal
  <1> QED BY <1>1, <1>2, <1>3, <1>4, <1>5, <1>6, <1>7, <1>8, <1>9

(* retry_count is the number of executions that ended in a recorded retry:  *)
(* the executor runs at most MaxRetries + 1 times for a job.               *)
THEOREM RetryCounts ==
    ASSUME MaxDuplicates = 0
    PROVE  Spec => []RetryAccounting
  <1>1. AttemptsInv => RetryAccounting
    BY DEF AttemptsInv
  <1> QED BY HolderAlways, AttemptsInit, AttemptsStep, <1>1, PTL DEF Spec

-----------------------------------------------------------------------------
(* What OutcomeMatchesPayload says of one row.                             *)
Fits(j, row) == /\ row.status = "success" => payloadOK[j]
                /\ row.status = "failed" => ~payloadOK[j] /\ ~CanRetry(row)
                /\ Unspoiled(j, row)

LEMMA FitsIsOutcome ==
    OutcomeMatchesPayload <=> \A j \in Jobs : Fits(j, rows[j])
  BY DEF OutcomeMatchesPayload, Fits, Unspoiled

LEMMA FitsOutcome ==
    ASSUME \A j \in Jobs : Fits(j, rows[j])'
    PROVE  OutcomeMatchesPayload'
  BY DEF OutcomeMatchesPayload, Fits, Unspoiled

(* The list after LPUSH, once or twice, failed or not.                     *)
LEMMA LPushRange ==
    ASSUME TypeOK, NEW j \in Jobs, LPushFails(j)
    PROVE  Range(queue') \subseteq Range(queue) \cup {j}
  <1>1. queue \in Seq(Jobs)
    BY DEF TypeOK
  <1>2. Append(queue, j) \in Seq(Jobs)
    BY <1>1, AppendProperties
  <1>3. /\ Range(Append(queue, j)) = Range(queue) \cup {j}
        /\ Range(Append(Append(queue, j), j)) = Range(queue) \cup {j}
    BY <1>1, <1>2, AppendFacts
  <1> QED BY <1>3 DEF LPushFails, LPush, PushTwice

(* A job whose request has not begun stays unknown if a step introduces no  *)
(* ID but that of a job already known.                                     *)
LEMMA StaysFresh ==
    ASSUME TypeOK, \A k \in Jobs : api[k] = "idle" => Fresh(k),
           NEW j \in Jobs, ~Fresh(j) \/ api[j] # "idle",
           \A k \in Jobs : api'[k] = "idle" => api[k] = "idle",
           api'[j] # "idle" \/ api'[j] = api[j],
           \A k \in Jobs : k # j => rows'[k] = rows[k],
           Range(queue') \subseteq Range(queue) \cup {j},
           held' \in {held, j, NoJob},
           \A w \in Workers : worker'[w].job \in {worker[w].job, j, NoJob}
    PROVE  \A k \in Jobs : api'[k] = "idle" => Fresh(k)'
  <1> SUFFICES ASSUME NEW k \in Jobs, api'[k] = "idle" PROVE Fresh(k)'
    OBVIOUS
  <1>1. api[k] = "idle" /\ Fresh(k) /\ k # j /\ k # NoJob
    BY JobsAssumption
  <1> QED BY <1>1 DEF Fresh, Queued

(* What a worker knows of its payload does not depend on the others.       *)
LEMMA OthersRespect ==
    ASSUME OutcomeInv, NEW w \in Workers, worker'[w] = worker[w], UNCHANGED payloadOK,
           ctxDone => ctxDone'
    PROVE  WorkerRespectsPayload(w)'
  BY DEF OutcomeInv, WorkerRespectsPayload, Unspoiled

LEMMA IdleRespects ==
    ASSUME NEW w \in Workers, worker'[w].pc \in {"receive", "load", "requeue", "stopped"}
    PROVE  WorkerRespectsPayload(w)'
  BY DEF WorkerRespectsPayload

(* A step of worker w that moves w only and writes at most its job's row.   *)
LEMMA OutcomeMoves ==
    ASSUME OutcomeInv, TypeInv',
           NEW w \in Workers, worker[w].pc \in BusyPC,
           UNCHANGED <<api, payloadOK, held, ctxDone>>,
           \A v \in Workers : v # w => worker'[v] = worker[v],
           worker'[w].job \in {worker[w].job, NoJob},
           \A k \in Jobs : k # worker[w].job => rows'[k] = rows[k],
           Fits(worker[w].job, rows'[worker[w].job]),
           Range(queue') \subseteq Range(queue) \cup {worker[w].job},
           WorkerRespectsPayload(w)'
    PROVE  OutcomeInv'
  <1> DEFINE j == worker[w].job
  <1>1. j \in Jobs /\ ~Fresh(j)
    BY BusyJob DEF OutcomeInv, Fresh
  <1>2. \A k \in Jobs : Fits(k, rows'[k])
    BY FitsIsOutcome DEF OutcomeInv
  <1>3. OutcomeMatchesPayload'
    BY <1>2, FitsOutcome DEF Fits, Unspoiled
  <1>4. \A k \in Jobs : api'[k] = "idle" => Fresh(k)'
    BY <1>1, StaysFresh DEF OutcomeInv, TypeInv
  <1>5. \A v \in Workers : WorkerRespectsPayload(v)'
    BY OthersRespect
  <1> QED BY <1>3, <1>4, <1>5 DEF OutcomeInv

(* A step that writes no row and moves no worker but to an idle state.      *)
LEMMA OutcomeFrame ==
    ASSUME OutcomeInv, TypeInv', UNCHANGED <<rows, payloadOK>>,
           \A k \in Jobs : api'[k] = "idle" => Fresh(k)',
           \A w \in Workers :
               \/ worker'[w] = worker[w] /\ (ctxDone => ctxDone')
               \/ worker'[w].pc \in {"receive", "load", "requeue", "stopped"}
    PROVE  OutcomeInv'
  <1>1. \A j \in Jobs : Fits(j, rows'[j])
    BY FitsIsOutcome DEF OutcomeInv
  <1>2. OutcomeMatchesPayload'
    BY <1>1, FitsOutcome DEF Fits, Unspoiled
  <1>3. \A w \in Workers : WorkerRespectsPayload(w)'
    BY OthersRespect, IdleRespects
  <1> QED BY <1>2, <1>3 DEF OutcomeInv

LEMMA OutcomeInit == Init => OutcomeInv
  <1> SUFFICES ASSUME Init PROVE OutcomeInv
    OBVIOUS
  <1>1. \A j \in Jobs : rows[j] = NoRow /\ held = NoJob /\ j # NoJob
    BY JobsAssumption DEF Init
  <1>2. \A w \in Workers : worker[w].pc = "stopped" /\ worker[w].job = NoJob
    BY DEF Init, Without
  <1>3. Range(queue) = {}
    BY DEF Init, Range
  <1>4. \A j \in Jobs : Fits(j, rows[j])
    BY <1>1 DEF Fits, NoRow, Unspoiled
  <1>5. \A j \in Jobs : Fresh(j)
    BY <1>1, <1>2, <1>3 DEF Fresh, Queued
  <1>6. \A w \in Workers : WorkerRespectsPayload(w)
    BY <1>2 DEF WorkerRespectsPayload
  <1> QED BY <1>4, <1>5, <1>6, TypeInit, FitsIsOutcome DEF OutcomeInv

LEMMA OutcomeStep == OutcomeInv /\ [Next]_vars => OutcomeInv'
  <1> SUFFICES ASSUME OutcomeInv, [Next]_vars PROVE OutcomeInv'
    OBVIOUS
  <1> USE DEF vars, request, memory, process, budget, limits
  <1>0. TypeInv /\ TypeOK /\ TypeInv' /\ TypeOK'
    BY TypeStep DEF OutcomeInv, TypeInv
  <1>f. \A k \in Jobs : api[k] = "idle" => Fresh(k)
    BY DEF OutcomeInv
  <1>r. \A k \in Jobs : Fits(k, rows[k])
    BY FitsIsOutcome DEF OutcomeInv
  <1>1. ASSUME NEW j \in Jobs, Submit(j) PROVE OutcomeInv'
    <2>1. /\ Fresh(j) /\ UNCHANGED <<rows, queue, held, worker, ctxDone>>
          /\ \A k \in Jobs : k # j => payloadOK'[k] = payloadOK[k] /\ api'[k] = api[k]
          /\ api'[j] = "persist"
      BY <1>0, <1>1, <1>f DEF Submit, PayloadSuitsType, TypeOK
    <2>2. \A k \in Jobs : Fits(k, rows[k])'
      BY <1>r, <2>1 DEF Fits, Unspoiled, Fresh, NoRow
    <2>3. \A k \in Jobs : api'[k] = "idle" => Fresh(k)'
      BY <1>f, <2>1 DEF Fresh, Queued
    <2>4. ASSUME NEW w \in Workers PROVE WorkerRespectsPayload(w)'
      <3>1. CASE worker[w].pc \in BusyPC
        <4>1. worker[w].job \in Jobs /\ worker[w].job # j
          BY <1>0, <2>1, <3>1, BusyJob DEF Fresh
        <4>2. payloadOK'[worker[w].job] = payloadOK[worker[w].job]
          BY <2>1, <4>1
        <4> QED BY <2>1, <4>2 DEF OutcomeInv, WorkerRespectsPayload, Unspoiled
      <3>2. CASE worker[w].pc \notin BusyPC
        <4>1. worker'[w].pc \in {"receive", "load", "requeue", "stopped"}
          BY <1>0, <2>1, <3>2 DEF TypeOK, BusyPC
        <4> QED BY <4>1, IdleRespects
      <3> QED BY <3>1, <3>2
    <2> QED BY <1>0, <2>2, <2>3, <2>4, FitsOutcome DEF OutcomeInv
  <1>2. ASSUME NEW j \in Jobs, Persist(j) PROVE OutcomeInv'
    <2>1. /\ StoreFails(j, New) /\ api[j] = "persist"
          /\ UNCHANGED <<queue, payloadOK, held, worker, ctxDone>>
      BY <1>2 DEF Persist, Insert, StoreFails
    <2>2. /\ \A k \in Jobs : k # j => rows'[k] = rows[k]
          /\ rows'[j] \in {rows[j], New}
      BY <1>0, <2>1 DEF StoreFails, Store, TypeOK
    <2>3. /\ \A k \in Jobs : k # j => api'[k] = api[k]
          /\ api'[j] # "idle"
      BY <1>0, <1>2 DEF Persist, TypeOK
    <2>4. Fits(j, New)
      BY DEF Fits, New, NoRow, Unspoiled
    <2>5. \A k \in Jobs : Fits(k, rows[k])'
      BY <1>r, <2>1, <2>2, <2>4 DEF Fits, Unspoiled
    <2>6. \A k \in Jobs : api'[k] = "idle" => Fresh(k)'
      BY <1>0, <1>f, <2>1, <2>2, <2>3, StaysFresh
    <2>7. \A w \in Workers : WorkerRespectsPayload(w)'
      BY <2>1, OthersRespect
    <2> QED BY <1>0, <2>5, <2>6, <2>7, FitsOutcome DEF OutcomeInv
  <1>3. ASSUME NEW j \in Jobs, Publish(j) PROVE OutcomeInv'
    <2>1. /\ LPushFails(j) /\ api[j] = "publish"
          /\ UNCHANGED <<rows, payloadOK, held, worker, ctxDone>>
      BY <1>3 DEF Publish, LPushFails
    <2>2. /\ \A k \in Jobs : k # j => api'[k] = api[k]
          /\ api'[j] # "idle"
      BY <1>0, <1>3 DEF Publish, TypeOK
    <2>3. Range(queue') \subseteq Range(queue) \cup {j}
      BY <1>0, <2>1, LPushRange
    <2>4. \A k \in Jobs : api'[k] = "idle" => Fresh(k)'
      BY <1>0, <1>f, <2>1, <2>2, <2>3, StaysFresh
    <2> QED BY <1>0, <2>1, <2>4, OutcomeFrame
  <1>4. ASSUME NEW j \in Jobs, RequestLost(j) PROVE OutcomeInv'
    <2>1. \A k \in Jobs : api'[k] = "idle" => api[k] = "idle"
      BY <1>0, <1>4 DEF RequestLost, TypeOK
    <2>2. \A k \in Jobs : api'[k] = "idle" => Fresh(k)'
      BY <1>4, <1>f, <2>1 DEF RequestLost, Fresh, Queued
    <2> QED BY <1>0, <1>4, <2>2, OutcomeFrame DEF RequestLost
  <1>5. CASE Dequeue \/ DequeueCancelled \/ DequeueFault \/ Backoff \/ AbandonSend
    <2>1. /\ UNCHANGED <<rows, api, payloadOK, worker, ctxDone>>
          /\ queue' = queue \/ (queue # <<>> /\ queue' = Tail(queue))
          /\ held' \in {held, NoJob} \/ (queue # <<>> /\ held' = Head(queue))
      BY <1>5 DEF Dequeue, DequeueCancelled, DequeueFault, Backoff, AbandonSend
    <2>2. queue \in Seq(Jobs)
      BY <1>0 DEF TypeOK
    <2>3. /\ Range(queue') \subseteq Range(queue)
          /\ held' \in {held, NoJob} \cup Range(queue)
      BY <2>1, <2>2, TailFacts
    <2>4. ASSUME NEW k \in Jobs, api'[k] = "idle" PROVE Fresh(k)'
      BY <1>f, <2>1, <2>3, <2>4, JobsAssumption DEF Fresh, Queued
    <2> QED BY <1>0, <2>1, <2>4, OutcomeFrame
  <1>6. ASSUME NEW w \in Workers, Handoff(w) PROVE OutcomeInv'
    <2>1. /\ UNCHANGED <<rows, queue, api, payloadOK, ctxDone>>
          /\ held' = NoJob
          /\ worker'[w].job = held /\ worker'[w].pc = "load"
          /\ \A v \in Workers : v # w => worker'[v] = worker[v]
      BY <1>0, <1>6 DEF Handoff, TypeOK
    <2>2. ASSUME NEW k \in Jobs, api'[k] = "idle" PROVE Fresh(k)'
      BY <1>f, <2>1, <2>2, JobsAssumption DEF Fresh, Queued
    <2> QED BY <1>0, <2>1, <2>2, OutcomeFrame
  <1>7. CASE Start \/ Exit \/ Crash
    <2>1. /\ UNCHANGED <<rows, queue, api, payloadOK>>
          /\ held' \in {held, NoJob}
          /\ \A w \in Workers : worker'[w].pc \in {"receive", "stopped"} /\ worker'[w].job = NoJob
      BY <1>7 DEF Start, Exit, Crash, Down, Without
    <2>2. ASSUME NEW k \in Jobs, api'[k] = "idle" PROVE Fresh(k)'
      BY <1>f, <2>1, <2>2, JobsAssumption DEF Fresh, Queued
    <2> QED BY <1>0, <2>1, <2>2, OutcomeFrame
  <1>8. CASE Signal \/ UNCHANGED vars
    <2>1. /\ UNCHANGED <<rows, queue, api, payloadOK, held, worker>> /\ (ctxDone => ctxDone')
      BY <1>8 DEF Signal
    <2>2. ASSUME NEW k \in Jobs, api'[k] = "idle" PROVE Fresh(k)'
      BY <1>f, <2>1, <2>2 DEF Fresh, Queued
    <2> QED BY <1>0, <2>1, <2>2, OutcomeFrame
  <1>9. ASSUME NEW w \in Workers, WorkerStops(w) PROVE OutcomeInv'
    <2>1. /\ UNCHANGED <<rows, queue, api, payloadOK, held, ctxDone>>
          /\ worker'[w].job = NoJob /\ worker'[w].pc = "stopped"
          /\ \A v \in Workers : v # w => worker'[v] = worker[v]
      BY <1>0, <1>9 DEF WorkerStops, Without, TypeOK
    <2>2. ASSUME NEW k \in Jobs, api'[k] = "idle" PROVE Fresh(k)'
      BY <1>f, <2>1, <2>2, JobsAssumption DEF Fresh, Queued
    <2> QED BY <1>0, <2>1, <2>2, OutcomeFrame
  <1>10. ASSUME NEW w \in Workers, worker[w].pc \in BusyPC,
                Load(w) \/ Claim(w) \/ Execute(w) \/ PersistSuccess(w)
                  \/ PersistFailure(w) \/ Requeue(w)
         PROVE  OutcomeInv'
    <2> DEFINE j == worker[w].job
               e == worker[w].entity
    <2>0. /\ j \in Jobs /\ e \in Entity /\ rows[j] \in Entity
          /\ WorkerRespectsPayload(w) /\ Fits(j, rows[j])
      BY <1>0, <1>r, <1>10, BusyJob DEF OutcomeInv, TypeOK
    <2>1. /\ UNCHANGED <<api, payloadOK, held, ctxDone>>
          /\ \A v \in Workers : v # w => worker'[v] = worker[v]
          /\ worker'[w].job \in {j, NoJob}
      BY <1>0, <1>10 DEF Load, Claim, Execute, PersistSuccess, PersistFailure, Requeue,
                         Goto, Return, Without, TypeOK
    <2>r. Return(w) => worker'[w].pc \in {"receive", "stopped"}
      BY <1>0 DEF Return, Without, TypeOK
    <2>g. \A pc, f : Goto(w, pc, f) =>
            /\ worker'[w].pc = pc /\ worker'[w].job = j /\ worker'[w].entity = f
      BY <1>0 DEF Goto, TypeOK
    <2>2. CASE Load(w)
      <3>1. WorkerRespectsPayload(w)'
        <4>1. CASE Return(w)
          BY <2>r, <4>1, IdleRespects
        <4>2. CASE Goto(w, "claim", MarkProcessing(rows[j]))
          <5>1. LET f == MarkProcessing(rows[j]) IN f.status = "processing" /\ Unspoiled(j, f)
            BY <2>0 DEF MarkProcessing, Entity, Fits, Unspoiled
          <5> QED BY <2>1, <2>g, <4>2, <5>1 DEF WorkerRespectsPayload, Unspoiled
        <4> QED BY <2>2, <4>1, <4>2 DEF Load
      <3> QED BY <1>0, <1>10, <2>0, <2>1, <2>2, <3>1, OutcomeMoves DEF Load
    <2>3. CASE Claim(w)
      <3>1. /\ e.status = "processing" /\ Unspoiled(j, e) /\ StoreFails(j, e)
            /\ UNCHANGED queue
        BY <2>0, <2>3 DEF Claim, WorkerRespectsPayload, StoreFails
      <3>2. Fits(j, rows'[j]) /\ \A k \in Jobs : k # j => rows'[k] = rows[k]
        BY <1>0, <2>0, <3>1 DEF Fits, StoreFails, Store, TypeOK
      <3>3. WorkerRespectsPayload(w)'
        <4>1. CASE Return(w)
          BY <2>r, <4>1, IdleRespects
        <4>2. CASE Goto(w, "execute", e)
          BY <2>1, <2>g, <3>1, <4>2 DEF WorkerRespectsPayload, Unspoiled
        <4> QED BY <2>3, <4>1, <4>2 DEF Claim
      <3> QED BY <1>0, <1>10, <2>0, <2>1, <3>1, <3>2, <3>3, OutcomeMoves
    <2>4. CASE Execute(w)
      <3>0. e.status = "processing" /\ Unspoiled(j, e)
        BY <2>0, <2>4 DEF Execute, WorkerRespectsPayload
      <3>1. WorkerRespectsPayload(w)'
        <4>1. CASE Return(w)
          BY <2>r, <4>1, IdleRespects
        <4>2. CASE payloadOK[j] /\ Goto(w, "complete", MarkSuccess(e))
          <5>1. LET f == MarkSuccess(e) IN f.status = "success" /\ Unspoiled(j, f)
            BY <2>0, <3>0 DEF MarkSuccess, Entity, Unspoiled
          <5> QED BY <2>1, <2>g, <4>2, <5>1 DEF WorkerRespectsPayload, Unspoiled
        <4>3. CASE (~payloadOK[j] \/ ctxDone) /\ Goto(w, "record", RecordFailure(e))
          <5>1. LET f == RecordFailure(e) IN
                f.status = "pending" \/ (f.status = "failed" /\ ~CanRetry(f))
            BY <2>0 DEF RecordFailure, CanRetry, Entity
          <5> QED BY <2>1, <2>g, <4>3, <5>1 DEF WorkerRespectsPayload
        <4> QED BY <2>4, <4>1, <4>2, <4>3 DEF Execute, HandlerSucceeds, HandlerFails
      <3> QED BY <1>0, <1>10, <2>0, <2>1, <2>4, <3>1, OutcomeMoves DEF Execute
    <2>5. CASE PersistSuccess(w)
      <3>1. /\ e.status = "success" /\ payloadOK[j] /\ Unspoiled(j, e) /\ StoreFails(j, e)
            /\ UNCHANGED queue /\ Return(w)
        BY <2>0, <2>5 DEF PersistSuccess, WorkerRespectsPayload, StoreFails
      <3>2. Fits(j, rows'[j]) /\ \A k \in Jobs : k # j => rows'[k] = rows[k]
        BY <1>0, <2>0, <3>1 DEF Fits, StoreFails, Store, TypeOK
      <3> QED BY <1>0, <1>10, <2>0, <2>1, <2>r, <3>1, <3>2, IdleRespects, OutcomeMoves
    <2>6. CASE PersistFailure(w)
      <3>1. /\ e.status = "pending" \/ (e.status = "failed" /\ ~CanRetry(e))
            /\ UNCHANGED rows \/ (~ctxDone /\ StoreFails(j, e))
            /\ UNCHANGED queue
            /\ ~payloadOK[j] \/ ctxDone
        BY <2>0, <2>6 DEF PersistFailure, WorkerRespectsPayload, StoreFails, CallSucceeds,
                          CallFaults
      <3>2. Fits(j, rows'[j]) /\ \A k \in Jobs : k # j => rows'[k] = rows[k]
        BY <1>0, <2>0, <3>1 DEF Fits, Unspoiled, StoreFails, Store, TypeOK
      <3>3. WorkerRespectsPayload(w)'
        BY <2>6, <2>r, <2>g, IdleRespects DEF PersistFailure
      <3> QED BY <1>0, <1>10, <2>0, <2>1, <3>1, <3>2, <3>3, OutcomeMoves
    <2>7. CASE Requeue(w)
      <3>1. LPushFails(j) /\ Return(w) /\ UNCHANGED rows
        BY <2>7 DEF Requeue, LPushFails
      <3>2. Range(queue') \subseteq Range(queue) \cup {j}
        BY <1>0, <2>0, <3>1, LPushRange
      <3> QED BY <1>0, <1>10, <2>0, <2>1, <2>r, <3>1, <3>2, IdleRespects, OutcomeMoves
    <2> QED BY <1>10, <2>2, <2>3, <2>4, <2>5, <2>6, <2>7
  <1>11. \A w \in Workers :
           Load(w) \/ Claim(w) \/ Execute(w) \/ PersistSuccess(w) \/ PersistFailure(w)
             \/ Requeue(w) => worker[w].pc \in BusyPC
    BY DEF Load, Claim, Execute, PersistSuccess, PersistFailure, Requeue, BusyPC, WorkerPC
  <1> QED
    BY <1>1, <1>2, <1>3, <1>4, <1>5, <1>6, <1>7, <1>8, <1>9, <1>10, <1>11
    DEF Next, RequestStep, DispatcherStep, DispatcherRuns, WorkerStep

(* The recorded outcome is the payload's: a valid job never loses a retry   *)
(* to a shutdown, and only a rejected payload ends as failed, after all its *)
(* retries.                                                                *)
THEOREM OutcomeIsThePayloads == Spec => []OutcomeMatchesPayload
  <1>1. OutcomeInv => OutcomeMatchesPayload
    BY DEF OutcomeInv
  <1> QED BY OutcomeInit, OutcomeStep, <1>1, PTL DEF Spec

(***************************************************************************)
(* Where jobs are left behind.  Nobody picks up a job that has no ID and no *)
(* goroutine; and only a failure, a crash or the cancelled context takes a   *)
(* job's last ID or goroutine away before its row is settled.               *)
(***************************************************************************)
Empty == held = NoJob /\ \A w \in Workers : worker[w].job = NoJob

(* A service that is down holds nothing and has no context to cancel.       *)
DownIsIdle == service = "down" => ~ctxDone /\ Empty

LEMMA DownStep ==
    TypeInv /\ TypeInv' /\ DownIsIdle /\ [Next]_vars => DownIsIdle'
  <1> SUFFICES ASSUME TypeInv, TypeInv', DownIsIdle, [Next]_vars, service' = "down"
               PROVE  ~ctxDone' /\ Empty'
    BY DEF DownIsIdle
  <1> USE DEF vars, request, memory, process, budget, limits
  <1>0. TypeOK /\ held' = NoJob
    BY DEF TypeInv, Shape
  <1>1. CASE Start \/ Exit \/ Crash
    BY <1>0, <1>1 DEF Start, Exit, Crash, Down, Without, Empty
  <1>2. CASE service = "down"
    <2>1. ~ctxDone /\ Empty /\ dispatcher = "stopped"
      BY <1>2 DEF DownIsIdle, TypeInv, Shape
    <2>2. \A w \in Workers : worker[w].pc \notin BusyPC
      BY <2>1 DEF Empty, TypeInv, Shape
    <2>3. \/ UNCHANGED <<ctxDone, worker>>
          \/ \E w \in Workers : WorkerStops(w)
          \/ Start \/ Exit \/ Crash
      BY <1>2, <2>1, <2>2
      DEF Next, RequestStep, DispatcherStep, DispatcherRuns, WorkerStep, Submit, Persist,
          Publish, RequestLost,
          Dequeue, DequeueCancelled, DequeueFault, Backoff, AbandonSend, Handoff, Load, Claim,
          Execute, PersistSuccess, PersistFailure, Requeue, Signal, BusyPC, WorkerPC
    <2>4. ASSUME NEW w \in Workers, WorkerStops(w) PROVE ~ctxDone' /\ Empty'
      BY <1>0, <2>1, <2>4 DEF WorkerStops, Without, Empty, TypeOK
    <2> QED BY <1>0, <1>1, <2>1, <2>3, <2>4 DEF Empty
  <1>3. CASE service # "down" /\ ~(Start \/ Exit \/ Crash)
    <2>1. UNCHANGED service
      BY <1>3 DEF Next, RequestStep, DispatcherStep, DispatcherRuns, WorkerStep, Submit,
                  Persist, Publish,
                  RequestLost, Dequeue, DequeueCancelled, DequeueFault, Backoff, AbandonSend,
                  Handoff, WorkerStops, Load, Claim, Execute, PersistSuccess, PersistFailure,
                  Requeue, Signal
    <2> QED BY <1>3, <2>1
  <1> QED BY <1>1, <1>2, <1>3

LEMMA DownInit == Init => DownIsIdle
  BY DEF Init, DownIsIdle, Empty, Without

(* A step of worker w moves w only, and writes at most the row of its job.  *)
Runs(w) == \/ Load(w) \/ Claim(w) \/ Execute(w) \/ PersistSuccess(w)
           \/ PersistFailure(w) \/ Requeue(w)

LEMMA RunsMove ==
    ASSUME TypeInv, NEW w \in Workers, Runs(w)
    PROVE  /\ worker[w].pc \in BusyPC
           /\ worker[w].job \in Jobs /\ worker[w].job # NoJob /\ worker[w].entity \in Entity
           /\ UNCHANGED <<api, payloadOK, service, ctxDone, dispatcher, held, crashes>>
           /\ \A v \in Workers : v # w => worker'[v] = worker[v]
           /\ \A j \in Jobs : j # worker[w].job => rows'[j] = rows[j]
           /\ worker'[w].job \in {worker[w].job, NoJob}
           /\ UNCHANGED queue \/ (Requeue(w) /\ LPush(worker[w].job))
  <1> USE DEF vars, request, process, budget, limits
  <1>1. worker[w].pc \in BusyPC
    BY DEF Runs, Load, Claim, Execute, PersistSuccess, PersistFailure, Requeue, BusyPC, WorkerPC
  <1>2. worker[w].job \in Jobs /\ worker[w].job # NoJob /\ worker[w].entity \in Entity
    BY <1>1, BusyJob, JobsAssumption
  <1>3. /\ UNCHANGED <<api, payloadOK, service, ctxDone, dispatcher, held, crashes>>
        /\ Return(w) \/ \E pc, e : Goto(w, pc, e)
        /\ UNCHANGED rows \/ Store(worker[w].job, worker[w].entity)
        /\ UNCHANGED queue \/ (Requeue(w) /\ LPush(worker[w].job))
    BY DEF Runs, Load, Claim, Execute, PersistSuccess, PersistFailure, Requeue, StoreFails,
           LPushFails
  <1>4. /\ \A v \in Workers : v # w => worker'[v] = worker[v]
        /\ worker'[w].job \in {worker[w].job, NoJob}
    BY <1>3 DEF Return, Goto, Without, TypeInv, TypeOK
  <1>5. \A j \in Jobs : j # worker[w].job => rows'[j] = rows[j]
    BY <1>2, <1>3 DEF Store, TypeInv, TypeOK
  <1> QED BY <1>1, <1>2, <1>3, <1>4, <1>5

(* What LPUSH does to the set of queued IDs.                               *)
LEMMA LPushAdds ==
    ASSUME TypeOK, NEW j \in Jobs, LPush(j)
    PROVE  Range(queue') = Range(queue) \cup {j}
  <1>1. queue \in Seq(Jobs)
    BY DEF TypeOK
  <1>2. Append(queue, j) \in Seq(Jobs)
    BY <1>1, AppendProperties
  <1>3. /\ Range(Append(queue, j)) = Range(queue) \cup {j}
        /\ Range(Append(Append(queue, j), j)) = Range(queue) \cup {j}
    BY <1>1, <1>2, AppendFacts
  <1> QED BY <1>3 DEF LPush, PushTwice

(* BRPOP takes one ID, the head.                                           *)
LEMMA PopTakesHead ==
    ASSUME NEW q \in Seq(Jobs), q # <<>>
    PROVE  Range(q) = {Head(q)} \cup Range(Tail(q))
  <1>1. /\ DOMAIN q = 1..Len(q) /\ Len(q) \in Nat \ {0}
        /\ DOMAIN Tail(q) = 1..(Len(q) - 1)
        /\ \A i \in 1..(Len(q) - 1) : Tail(q)[i] = q[i + 1]
        /\ Head(q) = q[1]
    BY HeadTailProperties, LenProperties, EmptySeq
  <1>2. \A i \in 1..Len(q) : i # 1 => i - 1 \in 1..(Len(q) - 1) /\ q[i] = Tail(q)[i - 1]
    BY <1>1
  <1>3. ASSUME NEW i \in 1..Len(q) PROVE q[i] \in {Head(q)} \cup Range(Tail(q))
    <2>1. CASE i = 1
      BY <1>1, <2>1
    <2>2. CASE i # 1
      <3>1. i - 1 \in DOMAIN Tail(q) /\ q[i] = Tail(q)[i - 1]
        BY <1>1, <1>2, <2>2
      <3> QED BY <3>1 DEF Range
    <2> QED BY <2>1, <2>2
  <1>4. \A k \in Range(q) : k \in {Head(q)} \cup Range(Tail(q))
    BY <1>1, <1>3 DEF Range
  <1> QED BY <1>4, TailFacts

(* Who takes a job further: only the holder of an ID, or the request that    *)
(* creates the job, writes its row.                                        *)
LEMMA OnlyHoldersWrite ==
    ASSUME TypeInv, [Next]_vars, NEW k \in Jobs, rows'[k] # rows[k]
    PROVE  InFlight(k)
  <1> USE DEF vars, request, memory, process, budget, limits
  <1>1. ASSUME NEW j \in Jobs, Persist(j) PROVE InFlight(k)
    <2>1. rows'[k] = rows[k] \/ k = j
      BY <1>1 DEF Persist, Insert, StoreFails, Store, TypeInv, TypeOK
    <2> QED BY <1>1, <2>1 DEF Persist, InFlight, Requested
  <1>2. ASSUME NEW w \in Workers, Runs(w) PROVE InFlight(k)
    BY <1>2, RunsMove DEF InFlight, Handling
  <1>3. \/ UNCHANGED rows
        \/ \E j \in Jobs : Persist(j)
        \/ \E w \in Workers : Runs(w)
    BY DEF Next, RequestStep, DispatcherStep, DispatcherRuns, WorkerStep, Runs, Submit,
           Publish, RequestLost,
           Dequeue, DequeueCancelled, DequeueFault, Backoff, AbandonSend, Handoff,
           WorkerStops, Start, Signal, Exit, Crash
  <1> QED BY <1>1, <1>2, <1>3

(* A job that is nowhere, and whose request is over, stays nowhere.         *)
LEMMA NowhereStays ==
    ASSUME TypeInv, [Next]_vars, NEW k \in Jobs, api[k] # "idle", ~InFlight(k)
    PROVE  ~InFlight(k)'
  <1> USE DEF vars, request, memory, process, budget, limits
  <1>0. TypeOK /\ queue \in Seq(Jobs) /\ k # NoJob
    BY JobsAssumption DEF TypeInv, TypeOK
  <1>n. /\ ~Requested(k) /\ k \notin Range(queue) /\ held # k
        /\ \A w \in Workers : worker[w].job # k
    BY DEF InFlight, Queued, Handling
  <1>1. CASE /\ ~Requested(k)' /\ k \notin Range(queue') /\ held' # k
             /\ \A w \in Workers : worker'[w].job # k
    BY <1>1 DEF InFlight, Queued, Handling
  <1>2. ASSUME NEW j \in Jobs, Submit(j) \/ Persist(j) \/ RequestLost(j)
        PROVE  ~InFlight(k)'
    <2>1. j # k
      BY <1>2, <1>n DEF Submit, Persist, RequestLost, Requested
    <2> QED BY <1>0, <1>n, <1>1, <1>2, <2>1 DEF Submit, Persist, RequestLost, Requested, TypeOK
  <1>3. ASSUME NEW j \in Jobs, Publish(j) PROVE ~InFlight(k)'
    <2>1. /\ j # k /\ UNCHANGED <<held, worker>> /\ LPushFails(j)
          /\ api'[k] = api[k]
      BY <1>0, <1>3, <1>n DEF Publish, Requested, LPushFails, TypeOK
    <2>2. k \notin Range(queue')
      BY <1>0, <1>n, <2>1, LPushRange
    <2> QED BY <1>n, <1>1, <2>1, <2>2 DEF Requested
  <1>4. CASE Dequeue \/ DequeueFault
    <2>1. /\ UNCHANGED <<api, worker>>
          /\ queue' = queue \/ (queue # <<>> /\ queue' = Tail(queue))
          /\ held' = held \/ (queue # <<>> /\ held' = Head(queue))
      BY <1>4 DEF Dequeue, DequeueFault
    <2>2. k \notin Range(queue') /\ held' # k
      BY <1>0, <1>n, <2>1, TailFacts
    <2> QED BY <1>n, <1>1, <2>1, <2>2 DEF Requested
  <1>5. ASSUME NEW w \in Workers, Handoff(w) \/ WorkerStops(w) PROVE ~InFlight(k)'
    <2>1. /\ UNCHANGED <<api, queue>> /\ held' \in {held, NoJob}
          /\ worker'[w].job \in {held, NoJob}
          /\ \A v \in Workers : v # w => worker'[v] = worker[v]
      BY <1>0, <1>5 DEF Handoff, WorkerStops, Without, TypeOK
    <2> QED BY <1>0, <1>n, <1>1, <2>1 DEF Requested
  <1>6. ASSUME NEW w \in Workers, Runs(w) PROVE ~InFlight(k)'
    <2>1. worker[w].job # k
      BY <1>n
    <2>2. k \notin Range(queue')
      BY <1>0, <1>6, <1>n, <2>1, RunsMove, LPushAdds
    <2>3. UNCHANGED <<api, held>> /\ \A v \in Workers : worker'[v].job # k
      BY <1>0, <1>6, <1>n, <2>1, RunsMove
    <2> QED BY <1>n, <1>1, <2>2, <2>3 DEF Requested
  <1>7. CASE Start \/ Exit \/ Crash
    BY <1>0, <1>7, <1>n, <1>1 DEF Start, Exit, Crash, Down, Without, Requested
  <1>8. CASE DequeueCancelled \/ Backoff \/ AbandonSend \/ Signal \/ UNCHANGED vars
    BY <1>0, <1>8, <1>n, <1>1 DEF DequeueCancelled, Backoff, AbandonSend, Signal, Requested
  <1> QED
    BY <1>2, <1>3, <1>4, <1>5, <1>6, <1>7, <1>8
    DEF Next, RequestStep, DispatcherStep, DispatcherRuns, WorkerStep, Runs

(* A stranded job stays stranded: nobody holds it, nobody will be given it,  *)
(* and nobody else writes its row; duplicated pushes or not.               *)
THEOREM StrandedIsForGood == Spec => StrandedForGood
  <1>1. OutcomeInv /\ [Next]_vars => (\A j \in Jobs : Stranded(j) => Stranded(j)')
    <2> SUFFICES ASSUME OutcomeInv, [Next]_vars, NEW j \in Jobs, Stranded(j)
                 PROVE  Stranded(j)'
      OBVIOUS
    <2>1. TypeInv /\ api[j] # "idle"
      BY DEF OutcomeInv, Fresh, Stranded, NoRow
    <2>2. ~InFlight(j)' /\ rows'[j] = rows[j]
      BY <2>1, NowhereStays, OnlyHoldersWrite DEF Stranded
    <2> QED BY <2>2 DEF Stranded
  <1> QED BY OutcomeInit, OutcomeStep, <1>1, PTL DEF Spec, StrandedForGood

(* A step without failure takes the ID of a job away in three ways only: a    *)
(* worker finds the row claimed already, or writes one of the final states. *)
CalmStep == ~ctxDone /\ ~(faults' > faults) /\ ~(crashes' > crashes)

(* The worker's last step for a job.                                       *)
LetsGo(w, k) ==
    /\ worker[w].job = k
    /\ \/ Load(w) /\ rows[k].status # "pending" /\ UNCHANGED rows
       \/ PersistSuccess(w) /\ Store(k, worker[w].entity)
       \/ PersistFailure(w) /\ Store(k, worker[w].entity) /\ worker[w].entity.status # "pending"

(* What a worker's step does with the ID that it holds.                     *)
LEMMA CalmRuns ==
    ASSUME TypeInv, CalmStep, NEW w \in Workers, NEW k \in Jobs, worker[w].job = k, Runs(w)
    PROVE  \/ worker'[w].job = k
           \/ Requeue(w) /\ LPush(k)
           \/ LetsGo(w, k)
  <1>1. ~Fault /\ ~CallFaults /\ ~ClockBehind /\ ~CallRejected
    BY DEF CalmStep, Fault, CallFaults, ClockBehind, CallRejected, TypeInv, TypeOK
  <1>2. \A pc, e : Goto(w, pc, e) => worker'[w].job = k
    BY DEF Goto, TypeInv, TypeOK
  <1>3. CASE Load(w)
    BY <1>1, <1>2, <1>3 DEF Load, LetsGo, CanMarkProcessing
  <1>4. CASE Claim(w)
    BY <1>1, <1>2, <1>4 DEF Claim
  <1>5. CASE Execute(w)
    BY <1>1, <1>2, <1>5 DEF Execute
  <1>6. CASE PersistSuccess(w)
    BY <1>1, <1>6 DEF PersistSuccess, LetsGo
  <1>7. CASE PersistFailure(w)
    BY <1>1, <1>2, <1>7 DEF PersistFailure, LetsGo
  <1>8. CASE Requeue(w)
    BY <1>1, <1>8 DEF Requeue
  <1> QED BY <1>3, <1>4, <1>5, <1>6, <1>7, <1>8 DEF Runs

(* What any step does with an ID that somebody holds.                       *)
LEMMA CalmDrops ==
    ASSUME TypeInv, DownIsIdle, [Next]_vars, CalmStep, NEW k \in Jobs, InFlight(k)
    PROVE  InFlight(k)' \/ \E w \in Workers : LetsGo(w, k)
  <1> USE DEF vars, request, memory, process, budget, limits
  <1>0. /\ TypeOK /\ queue \in Seq(Jobs) /\ k # NoJob
        /\ ~ctxDone /\ ~Fault /\ ~(crashes' > crashes)
    BY JobsAssumption DEF TypeInv, TypeOK, CalmStep, Fault
  <1>1. ASSUME UNCHANGED held, UNCHANGED worker, Requested(k) => Requested(k)' \/ Queued(k)',
               Queued(k) => Queued(k)'
        PROVE  InFlight(k)'
    BY <1>1 DEF InFlight, Handling
  <1>2. ASSUME NEW j \in Jobs, Submit(j) \/ Persist(j) PROVE InFlight(k)'
    <2>1. UNCHANGED <<queue, held, worker>> /\ (Requested(k) => Requested(k)')
      BY <1>0, <1>2 DEF Submit, Persist, Requested, TypeOK
    <2> QED BY <1>1, <2>1 DEF Queued
  <1>3. ASSUME NEW j \in Jobs, Publish(j) PROVE InFlight(k)'
    <2>1. LPush(j) /\ UNCHANGED <<held, worker>> /\ (j # k => api'[k] = api[k])
      BY <1>0, <1>3 DEF Publish, TypeOK
    <2>2. Range(queue') = Range(queue) \cup {j}
      BY <1>0, <2>1, LPushAdds
    <2> QED BY <1>1, <2>1, <2>2 DEF Requested, Queued
  <1>4. CASE Dequeue
    <2>1. /\ queue # <<>> /\ held' = Head(queue) /\ queue' = Tail(queue)
          /\ UNCHANGED <<api, worker>> /\ held = NoJob
      BY <1>4 DEF Dequeue, TypeInv, Shape
    <2>2. Range(queue) = {held'} \cup Range(queue')
      BY <1>0, <2>1, PopTakesHead
    <2> QED BY <1>0, <2>1, <2>2 DEF InFlight, Requested, Queued, Handling
  <1>5. CASE Backoff \/ Signal \/ UNCHANGED vars
    BY <1>1, <1>5 DEF Backoff, Signal, Requested, Queued
  <1>6. ASSUME NEW w \in Workers, Handoff(w) \/ WorkerStops(w) PROVE InFlight(k)'
    <2>1. /\ UNCHANGED <<api, queue>>
          /\ worker[w].pc = "receive"
          /\ \A v \in Workers : v # w => worker'[v] = worker[v]
          /\ UNCHANGED held \/ worker'[w].job = held
      BY <1>0, <1>6 DEF Handoff, WorkerStops, Without, TypeOK
    <2>2. worker[w].job # k
      BY <1>0, <2>1 DEF TypeInv, Shape, BusyPC
    <2> QED BY <2>1, <2>2 DEF InFlight, Requested, Queued, Handling
  <1>7. ASSUME NEW w \in Workers, Runs(w), ~LetsGo(w, k) PROVE InFlight(k)'
    <2>1. /\ UNCHANGED <<api, held>>
          /\ \A v \in Workers : v # w => worker'[v] = worker[v]
          /\ UNCHANGED queue \/ (Requeue(w) /\ LPush(worker[w].job))
          /\ worker[w].job \in Jobs
      BY <1>7, RunsMove
    <2>2. LPush(worker[w].job) => Range(queue') = Range(queue) \cup {worker[w].job}
      BY <1>0, <2>1, LPushAdds
    <2>3. worker[w].job = k => worker'[w].job = k \/ (Requeue(w) /\ LPush(k))
      BY <1>7, CalmRuns
    <2>4. Range(queue) \subseteq Range(queue')
      BY <2>1, <2>2
    <2>5. worker[w].job = k => worker'[w].job = k \/ Queued(k)'
      BY <2>2, <2>3 DEF Queued
    <2> QED BY <2>1, <2>4, <2>5 DEF InFlight, Requested, Queued, Handling
  <1>8. CASE Start \/ Exit
    <2>1. /\ UNCHANGED <<api, queue>>
          /\ held = NoJob /\ \A w \in Workers : worker[w].job = NoJob
      BY <1>8 DEF Start, Exit, DownIsIdle, Empty, TypeInv, Shape, BusyPC
    <2> QED BY <1>0, <2>1 DEF InFlight, Requested, Queued, Handling
  <1>9. ~DequeueCancelled /\ ~DequeueFault /\ ~AbandonSend /\ ~Crash
        /\ \A j \in Jobs : ~RequestLost(j)
    BY <1>0 DEF DequeueCancelled, DequeueFault, AbandonSend, Crash, RequestLost, Fault, TypeOK
  <1> QED
    BY <1>2, <1>3, <1>4, <1>5, <1>6, <1>7, <1>8, <1>9
    DEF Next, RequestStep, DispatcherStep, DispatcherRuns, WorkerStep, Runs

(* What is written last is final, whoever wrote in between.                 *)
LEMMA LastIsFinal ==
    ASSUME OutcomeInv, NEW w \in Workers, NEW k \in Jobs, LetsGo(w, k)
    PROVE  \/ rows[k].status # "pending" /\ UNCHANGED rows
           \/ rows'[k].status \in Terminal
  <1>1. /\ worker[w].pc = "complete" => worker[w].entity.status = "success"
        /\ worker[w].pc = "record" => worker[w].entity.status \in {"pending", "failed"}
    BY DEF OutcomeInv, WorkerRespectsPayload
  <1> QED BY <1>1 DEF LetsGo, PersistSuccess, PersistFailure, Store, Terminal, OutcomeInv,
                      TypeInv, TypeOK

(* Without a duplicated push, a job is left behind only by a failed call, a  *)
(* crash or the cancelled context: a worker that loads a row finds it       *)
(* pending, and every other way to let go of an ID is a final state.        *)
THEOREM OnlyFailuresStrand ==
    ASSUME MaxDuplicates = 0
    PROVE  Spec => StrandedOnlyByFailure
  <1> DEFINE I == HolderInv /\ HolderKnowsRow /\ OutcomeInv /\ DownIsIdle
  <1>1. Init => I
    BY HolderInit, PendingInit, OutcomeInit, DownInit
  <1>2. I /\ [Next]_vars => I'
    <2> SUFFICES ASSUME I, [Next]_vars PROVE I'
      OBVIOUS
    <2>1. HolderInv' /\ HolderKnowsRow' /\ OutcomeInv'
      BY HolderStep, PendingStep, OutcomeStep
    <2> QED BY <2>1, DownStep DEF OutcomeInv
  <1>3. I /\ [Next]_vars =>
          \A j \in Jobs : Stranded(j)' =>
             Stranded(j) \/ ctxDone \/ faults' > faults \/ crashes' > crashes
    <2> SUFFICES ASSUME I, [Next]_vars, NEW j \in Jobs, CalmStep, Stranded(j)', ~Stranded(j)
                 PROVE  FALSE
      BY DEF CalmStep
    <2>1. TypeInv /\ ~InFlight(j)'
      BY DEF OutcomeInv, Stranded
    <2>2. InFlight(j)
      BY <2>1, OnlyHoldersWrite DEF Stranded
    <2>3. PICK w \in Workers : LetsGo(w, j)
      BY <2>1, <2>2, CalmDrops
    <2>4. ~(rows[j].status # "pending" /\ UNCHANGED rows)
      <3>1. Load(w) => rows[j].status = "pending"
        BY <2>3 DEF LetsGo, Load, HolderKnowsRow, WorkerKnowsRow
      <3>2. Load(w) \/ rows'[j].status \in Terminal
        BY <2>3, LastIsFinal DEF LetsGo, PersistSuccess, PersistFailure, OutcomeInv,
               WorkerRespectsPayload, Store, TypeInv, TypeOK, Terminal
      <3>3. rows'[j].status \notin Terminal
        BY DEF Stranded, Terminal
      <3> QED BY <3>1, <3>2, <3>3
    <2>5. rows'[j].status \in Terminal
      BY <2>3, <2>4, LastIsFinal
    <2> QED BY <2>5 DEF Stranded, Terminal
  <1> QED BY <1>1, <1>2, <1>3, PTL DEF Spec, StrandedOnlyByFailure

(***************************************************************************)
(* When nothing fails, nothing is lost, although pushes may be applied twice *)
(* and workers overwrite each other's rows: a pending row has an ID on its   *)
(* way, and a processing row a worker that executes the job, since the      *)
(* others only make it pending, with an ID of their own, or final.          *)
(***************************************************************************)
Calm == MaxFaults = 0 /\ MaxSignals = 0 /\ MaxCrashes = 0

Executed(j) == \E w \in Workers : /\ worker[w].job = j
                                  /\ worker[w].pc \in {"execute", "complete", "record"}

Moving == \A j \in Jobs : /\ rows[j].status = "pending" => InFlight(j)
                          /\ rows[j].status = "processing" => Executed(j)

LiveInv == OutcomeInv /\ DownIsIdle /\ ~ctxDone /\ Moving

(* No budget, no fault.                                                    *)
LEMMA CalmSteps ==
    ASSUME Calm, TypeOK, TypeOK', ~ctxDone, DownIsIdle, [Next]_vars
    PROVE  CalmStep /\ ~ctxDone'
  <1> USE DEF vars, request, memory, process, budget, limits
  <1>1. ~Fault /\ ~CallFaults /\ ~ClockBehind /\ ~Signal /\ ~Crash /\ \A j \in Jobs : ~RequestLost(j)
    BY DEF Calm, TypeOK, Fault, CallFaults, ClockBehind, RequestLost, Signal, Crash
  <1>2. UNCHANGED <<faults, crashes>> /\ (UNCHANGED ctxDone \/ Exit)
    BY <1>1
    DEF Next, RequestStep, DispatcherStep, DispatcherRuns, WorkerStep, Submit, Persist, Publish,
        Dequeue, DequeueCancelled, DequeueFault, Backoff, AbandonSend, Handoff, WorkerStops,
        Load, Claim, Execute, PersistSuccess, PersistFailure, Requeue, Start, Exit, Down,
        CallSucceeds, CallRejected
  <1>3. Exit => ~ctxDone'
    BY DEF Exit, Down
  <1> QED BY <1>2, <1>3 DEF CalmStep, TypeOK

(* A row becomes processing only by a claim, whose worker then executes.    *)
LEMMA ClaimsExecute ==
    ASSUME OutcomeInv, CalmStep, [Next]_vars, NEW k \in Jobs,
           rows'[k] # rows[k], rows'[k].status = "processing"
    PROVE  Executed(k)'
  <1> USE DEF vars, request, memory, process, budget, limits
  <1>0. TypeInv /\ TypeOK /\ ~CallFaults
    BY DEF OutcomeInv, TypeInv, CalmStep, CallFaults, Fault, TypeOK
  <1>1. ASSUME NEW j \in Jobs, Persist(j) PROVE FALSE
    BY <1>0, <1>1 DEF Persist, Insert, StoreFails, Store, New, NoRow, TypeOK
  <1>2. ASSUME NEW w \in Workers, Runs(w) PROVE Executed(k)'
    <2>1. worker[w].job = k
      BY <1>0, <1>2, RunsMove
    <2>2. /\ worker[w].pc = "complete" => worker[w].entity.status = "success"
          /\ worker[w].pc = "record" => worker[w].entity.status \in {"pending", "failed"}
      BY DEF OutcomeInv, WorkerRespectsPayload
    <2>3. Claim(w)
      BY <1>0, <1>2, <2>1, <2>2
      DEF Runs, Load, Execute, PersistSuccess, PersistFailure, Requeue, StoreFails, Store,
          TypeOK
    <2>4. Goto(w, "execute", worker[w].entity)
      BY <1>0, <2>3 DEF Claim
    <2> QED BY <1>0, <2>1, <2>4 DEF Goto, Executed, TypeOK
  <1>3. \/ UNCHANGED rows
        \/ \E j \in Jobs : Persist(j)
        \/ \E w \in Workers : Runs(w)
    BY DEF Next, RequestStep, DispatcherStep, DispatcherRuns, WorkerStep, Runs, Submit,
           Publish, RequestLost,
           Dequeue, DequeueCancelled, DequeueFault, Backoff, AbandonSend, Handoff,
           WorkerStops, Start, Signal, Exit, Crash
  <1> QED BY <1>1, <1>2, <1>3

(* A worker that executes a job lets go of it only by writing its row.      *)
LEMMA ExecutedUntilWritten ==
    ASSUME OutcomeInv, DownIsIdle, CalmStep, [Next]_vars, NEW k \in Jobs,
           Executed(k), rows'[k].status = "processing"
    PROVE  Executed(k)'
  <1> USE DEF vars, request, memory, process, budget, limits
  <1>0. TypeInv /\ TypeOK /\ k # NoJob /\ ~CallFaults /\ ~CallRejected /\ ~ClockBehind
    BY JobsAssumption
    DEF OutcomeInv, TypeInv, CalmStep, CallFaults, CallRejected, ClockBehind, Fault, TypeOK
  <1>1. PICK w \in Workers : /\ worker[w].job = k
                             /\ worker[w].pc \in {"execute", "complete", "record"}
    BY DEF Executed
  <1>2. CASE worker'[w] = worker[w]
    BY <1>1, <1>2 DEF Executed
  <1>3. CASE Runs(w)
    <2>1. worker[w].pc = "complete" => worker[w].entity.status = "success"
      BY DEF OutcomeInv, WorkerRespectsPayload
    <2>2. worker[w].pc = "record" => worker[w].entity.status \in {"pending", "failed"}
      BY DEF OutcomeInv, WorkerRespectsPayload
    <2>3. Execute(w)
      BY <1>0, <1>1, <1>3, <2>1, <2>2
      DEF Runs, Load, Claim, PersistSuccess, PersistFailure, Requeue, Store, TypeOK
    <2> QED BY <1>0, <1>1, <2>3 DEF Execute, Goto, Executed, TypeOK
  <1>4. CASE Start \/ Exit \/ Crash
    <2>1. worker[w].pc \in BusyPC
      BY <1>1 DEF BusyPC, WorkerPC
    <2>2. ~Start /\ ~Exit
      BY <1>0, <1>1, <2>1 DEF Start, Exit, DownIsIdle, Empty, BusyPC
    <2>3. ~Crash
      BY <1>0 DEF Crash, CalmStep, TypeOK
    <2> QED BY <1>4, <2>2, <2>3
  <1>5. ASSUME NEW v \in Workers, Handoff(v) \/ WorkerStops(v) \/ Runs(v), v # w
        PROVE  worker'[w] = worker[w]
    <2>1. Runs(v) => worker'[w] = worker[w]
      BY <1>0, <1>5, RunsMove
    <2> QED BY <1>0, <1>5, <2>1 DEF Handoff, WorkerStops, TypeOK
  <1>6. ~Handoff(w) /\ ~WorkerStops(w)
    BY <1>1 DEF Handoff, WorkerStops
  <1>7. \/ UNCHANGED worker
        \/ \E v \in Workers : Handoff(v) \/ WorkerStops(v) \/ Runs(v)
        \/ Start \/ Exit \/ Crash
    BY DEF Next, RequestStep, DispatcherStep, DispatcherRuns, WorkerStep, Runs, Submit,
           Persist, Publish,
           RequestLost, Dequeue, DequeueCancelled, DequeueFault, Backoff, AbandonSend, Signal
  <1> QED BY <1>2, <1>3, <1>4, <1>5, <1>6, <1>7

LEMMA LiveStep ==
    ASSUME Calm
    PROVE  LiveInv /\ [Next]_vars => LiveInv'
  <1> SUFFICES ASSUME LiveInv, [Next]_vars PROVE LiveInv'
    OBVIOUS
  <1>1. OutcomeInv /\ OutcomeInv' /\ TypeInv /\ TypeInv' /\ DownIsIdle /\ DownIsIdle'
    BY OutcomeStep, DownStep DEF LiveInv, OutcomeInv
  <1>2. CalmStep /\ ~ctxDone'
    BY <1>1, CalmSteps DEF LiveInv, TypeInv
  <1>3. ASSUME NEW j \in Jobs, rows'[j].status = "pending" PROVE InFlight(j)'
    <2>1. InFlight(j)
      BY <1>1, <1>3, OnlyHoldersWrite DEF LiveInv, Moving
    <2>2. ASSUME NEW w \in Workers, LetsGo(w, j) PROVE FALSE
      BY <1>1, <1>3, <2>2, LastIsFinal DEF Terminal
    <2> QED BY <1>1, <1>2, <2>1, <2>2, CalmDrops
  <1>4. ASSUME NEW j \in Jobs, rows'[j].status = "processing" PROVE Executed(j)'
    <2>1. CASE rows'[j] # rows[j]
      BY <1>1, <1>2, <1>4, <2>1, ClaimsExecute
    <2>2. CASE rows'[j] = rows[j]
      BY <1>1, <1>2, <1>4, <2>2, ExecutedUntilWritten DEF LiveInv, Moving
    <2> QED BY <2>1, <2>2
  <1> QED BY <1>1, <1>2, <1>3, <1>4 DEF LiveInv, Moving

LEMMA LiveAlways ==
    ASSUME Calm
    PROVE  Spec => []LiveInv
  <1>1. Init => LiveInv
    BY OutcomeInit, DownInit DEF Init, NoRow, LiveInv, Moving
  <1>2. LiveInv /\ [Next]_vars => LiveInv'
    BY LiveStep
  <1> QED BY <1>1, <1>2, PTL DEF Spec

(* When no call fails, nothing is signalled and nothing crashes, every       *)
(* unfinished job has a request, an ID or a worker that will move it on,    *)
(* however often pushes are duplicated.                                    *)
THEOREM NothingIsLost ==
    ASSUME Calm
    PROVE  Spec => []NoStranded
  <1>1. LiveInv => NoStranded
    BY DEF LiveInv, Moving, NoStranded, Stranded, Executed, InFlight, Handling
  <1> QED BY LiveAlways, <1>1, PTL

(* Then the README's account of the status is right: a processing job is     *)
(* being handled by a worker.  (With a signal it is not: run                *)
(* processing_executing.)                                                  *)
THEOREM CalmProcessingIsExecuting ==
    ASSUME Calm
    PROVE  Spec => []ProcessingIsExecuting
  <1>1. LiveInv => ProcessingIsExecuting
    BY DEF LiveInv, Moving, ProcessingIsExecuting, Executed, Handling
  <1> QED BY LiveAlways, <1>1, PTL

(***************************************************************************)
(* Shutdown.  That a signalled service ends, or waits in BRPOP, is a       *)
(* liveness property that TLC checks; proved is the measure behind it.     *)
(* Once the context is cancelled, the dispatcher has at most 2 and each    *)
(* worker at most 3 steps left, and no step of anybody else gives them     *)
(* more.                                                                   *)
(***************************************************************************)
DispatcherRank == IF dispatcher = "dequeue" THEN 2
                  ELSE IF dispatcher = "stopped" THEN 0 ELSE 1

WorkerRank(w) == IF worker[w].pc = "receive" THEN 3
                 ELSE IF worker[w].pc = "execute" THEN 2
                 ELSE IF worker[w].pc = "stopped" THEN 0 ELSE 1

Descends ==
    /\ DispatcherRank' <= DispatcherRank
    /\ DispatcherStep => DispatcherRank' < DispatcherRank
    /\ \A w \in Workers : /\ WorkerRank(w)' <= WorkerRank(w)
                          /\ WorkerStep(w) => WorkerRank(w)' < WorkerRank(w)

ShutdownDescends == [][ctxDone /\ ctxDone' => Descends]_vars

LEMMA CancelledDescends ==
    ASSUME TypeInv, DownIsIdle, [Next]_vars, ctxDone, ctxDone'
    PROVE  Descends
  <1> USE DEF vars, request, memory, process, budget, limits
  <1>0. /\ TypeOK /\ service # "down" /\ ~CallSucceeds /\ ~CallFaults
        /\ ~Start /\ ~Exit /\ ~Crash
    BY DEF TypeInv, DownIsIdle, CallSucceeds, CallFaults, Start, Exit, Crash, Down
  <1>1. ASSUME DispatcherStep PROVE DispatcherRank' < DispatcherRank
    BY <1>0, <1>1
    DEF DispatcherStep, DispatcherRuns, Dequeue, DequeueCancelled, DequeueFault, Backoff,
        AbandonSend, Handoff, Loop, DispatcherRank
  <1>2. ASSUME NEW w \in Workers, Handoff(w)
        PROVE  \A v \in Workers : WorkerRank(v)' <= WorkerRank(v)
    BY <1>0, <1>2 DEF Handoff, WorkerRank, TypeOK
  <1>3. ASSUME NEW w \in Workers, WorkerStep(w)
        PROVE  /\ WorkerRank(w)' < WorkerRank(w)
               /\ \A v \in Workers : v # w => worker'[v] = worker[v]
               /\ UNCHANGED dispatcher
    <2>1. Return(w) => worker'[w].pc = "stopped" /\ \A v \in Workers : v # w => worker'[v] = worker[v]
      BY <1>0 DEF Return, Without, TypeOK
    <2>2. \A pc, e : Goto(w, pc, e) => /\ worker'[w].pc = pc
                                       /\ \A v \in Workers : v # w => worker'[v] = worker[v]
      BY <1>0 DEF Goto, TypeOK
    <2>3. CASE WorkerStops(w)
      BY <1>0, <2>3 DEF WorkerStops, Without, WorkerRank, TypeOK
    <2>4. CASE Execute(w)
      BY <2>1, <2>2, <2>4 DEF Execute, WorkerRank
    <2>5. CASE Load(w) \/ Claim(w) \/ PersistSuccess(w) \/ PersistFailure(w) \/ Requeue(w)
      <3>1. Return(w) /\ worker[w].pc \in BusyPC \ {"execute"} /\ UNCHANGED dispatcher
        BY <1>0, <2>5
        DEF Load, Claim, PersistSuccess, PersistFailure, Requeue, BusyPC, WorkerPC
      <3> QED BY <2>1, <3>1 DEF WorkerRank, BusyPC
    <2> QED BY <1>3, <2>3, <2>4, <2>5 DEF WorkerStep
  <1>4. \A v \in Workers : WorkerRank(v) \in Nat
    BY DEF WorkerRank
  <1>5. DispatcherRank \in Nat
    BY DEF DispatcherRank
  <1>6. \/ UNCHANGED <<dispatcher, worker>>
        \/ DispatcherStep
        \/ \E w \in Workers : WorkerStep(w)
    BY <1>0 DEF Next, RequestStep, Submit, Persist, Publish, RequestLost, Signal
  <1>7. DispatcherRank' <= DispatcherRank
    BY <1>1, <1>3, <1>5, <1>6 DEF DispatcherRank
  <1>8. ASSUME NEW v \in Workers PROVE WorkerRank(v)' <= WorkerRank(v)
    <2>1. CASE UNCHANGED worker
      BY <1>4, <2>1 DEF WorkerRank
    <2>2. CASE DispatcherStep
      <3>1. UNCHANGED worker \/ \E w \in Workers : Handoff(w)
        BY <2>2 DEF DispatcherStep, DispatcherRuns, Dequeue, DequeueCancelled, DequeueFault,
                    Backoff, AbandonSend
      <3> QED BY <1>2, <2>1, <3>1
    <2>3. CASE \E w \in Workers : WorkerStep(w)
      <3>1. PICK w \in Workers : WorkerStep(w)
        BY <2>3
      <3>2. WorkerRank(w)' < WorkerRank(w) /\ (v # w => worker'[v] = worker[v])
        BY <1>3, <3>1
      <3>3. CASE v = w
        BY <3>2, <3>3 DEF WorkerRank
      <3>4. CASE v # w
        BY <1>4, <3>2, <3>4 DEF WorkerRank
      <3> QED BY <3>3, <3>4
    <2> QED BY <1>6, <2>1, <2>2, <2>3
  <1> QED BY <1>1, <1>3, <1>7, <1>8 DEF Descends

(* After the signal the goroutines have a bounded number of steps left: none *)
(* goes on popping, handling or retrying, whatever the others do.           *)
THEOREM ShutdownIsBounded == Spec => ShutdownDescends
  <1>1. TypeInv /\ DownIsIdle /\ [Next]_vars => (ctxDone /\ ctxDone' => Descends)
    BY CancelledDescends
  <1>2. TypeInv /\ DownIsIdle /\ [Next]_vars => TypeInv' /\ DownIsIdle'
    BY TypeStep, DownStep
  <1> QED BY TypeInit, DownInit, <1>1, <1>2, PTL DEF Spec, ShutdownDescends

(***************************************************************************)
(* A job's way through the pipeline.  The rank of a job is the number of its *)
(* steps to come at most: the place of its ID, from the request to the last  *)
(* write of a worker, and 7 steps for every retry that it has left.        *)
(***************************************************************************)
Round(j) == 7 * (MaxRetries - rows[j].retryCount)

WorkerPlace(pc) == CASE pc = "requeue" -> 7
                     [] pc = "load"    -> 4
                     [] pc = "claim"   -> 3
                     [] pc = "execute" -> 2
                     [] pc \in {"complete", "record"} -> 1
                     [] OTHER -> 0

JobRank(j) ==
    CASE api[j] = "idle"    -> 7 * MaxRetries + 9
      [] api[j] = "persist" -> 7 * MaxRetries + 8
      [] api[j] = "publish" -> Round(j) + 7
      [] Queued(j)          -> Round(j) + 6
      [] held = j           -> Round(j) + 5
      [] Handling(j) # {}   -> Round(j) + WorkerPlace(worker[CHOOSE w \in Handling(j) : TRUE].pc)
      [] OTHER              -> 0

(* A step of the job: of its request, of the dispatcher with its ID, or of   *)
(* the worker that has it.                                                 *)
Takes(j) ==
    \/ Submit(j) \/ RequestStep(j) \/ RequestLost(j)
    \/ Dequeue /\ Head(queue) = j
    \/ held = j /\ (AbandonSend \/ \E w \in Workers : Handoff(w))
    \/ \E w \in Workers : worker[w].job = j /\ WorkerStep(w)

JobDescends(j) ==
    /\ JobRank(j)' <= JobRank(j)
    /\ Takes(j) => JobRank(j)' < JobRank(j)
    /\ rows'[j] # rows[j] => Takes(j)

JobStepsDescend == [][\A j \in Jobs : JobDescends(j)]_vars

(* The rank by the place of the ID, which is in one place only.            *)
Places ==
    \A j \in Jobs :
        /\ JobRank(j) \in 0..(7 * MaxRetries + 9)
        /\ api[j] = "idle"    => JobRank(j) = 7 * MaxRetries + 9
        /\ api[j] = "persist" => JobRank(j) = 7 * MaxRetries + 8
        /\ api[j] = "publish" => JobRank(j) = Round(j) + 7
        /\ Queued(j)          => JobRank(j) = Round(j) + 6
        /\ held = j           => JobRank(j) = Round(j) + 5
        /\ \A w \in Workers : worker[w].job = j =>
              JobRank(j) = Round(j) + WorkerPlace(worker[w].pc)
        /\ api[j] # "idle" /\ ~InFlight(j) => JobRank(j) = 0

LEMMA IdleIsNowhere ==
    ASSUME HolderInv, NEW j \in Jobs, api[j] = "idle"
    PROVE  ~Queued(j) /\ held # j /\ Handling(j) = {}
  <1>1. rows[j].status = "none" /\ j # NoJob
    BY JobsAssumption DEF HolderInv, RequestKnowsRow, NoRow
  <1>2. ~Queued(j) /\ held # j
    BY <1>1 DEF HolderInv, HolderKnowsID, Known
  <1>3. ASSUME NEW w \in Workers, worker[w].job = j PROVE FALSE
    <2>1. worker[w].pc \in BusyPC
      BY <1>1, <1>3 DEF HolderInv, TypeInv, Shape
    <2> QED BY <1>1, <1>3, <2>1
            DEF HolderInv, HolderKnowsID, WorkerKnowsID, ClaimKnowsRow, Known, BusyPC, WorkerPC
  <1> QED BY <1>2, <1>3 DEF Handling

LEMMA RoundIsNatural ==
    ASSUME TypeOK, NEW j \in Jobs
    PROVE  Round(j) \in 0..(7 * MaxRetries)
  BY MaxRetriesAssumption DEF TypeOK, Entity, Round

LEMMA PlaceIsNatural == \A pc : WorkerPlace(pc) \in 0..7
  BY DEF WorkerPlace

LEMMA PlacesHold == HolderInv => Places
  <1> SUFFICES ASSUME HolderInv, NEW j \in Jobs
               PROVE  /\ JobRank(j) \in 0..(7 * MaxRetries + 9)
                      /\ api[j] = "idle"    => JobRank(j) = 7 * MaxRetries + 9
                      /\ api[j] = "persist" => JobRank(j) = 7 * MaxRetries + 8
                      /\ api[j] = "publish" => JobRank(j) = Round(j) + 7
                      /\ Queued(j)          => JobRank(j) = Round(j) + 6
                      /\ held = j           => JobRank(j) = Round(j) + 5
                      /\ \A w \in Workers : worker[w].job = j =>
                            JobRank(j) = Round(j) + WorkerPlace(worker[w].pc)
                      /\ api[j] # "idle" /\ ~InFlight(j) => JobRank(j) = 0
    BY DEF Places
  <1>0. /\ Round(j) \in 0..(7 * MaxRetries) /\ MaxRetries \in Nat /\ j # NoJob
        /\ \A pc : WorkerPlace(pc) \in 0..7
    BY RoundIsNatural, PlaceIsNatural, MaxRetriesAssumption, JobsAssumption
    DEF HolderInv, TypeInv
  <1>1. \/ api[j] = "idle" \/ Requested(j) \/ Queued(j) \/ held = j
        \/ Handling(j) # {} \/ (api[j] # "idle" /\ ~InFlight(j))
    BY DEF InFlight
  <1>2. CASE api[j] = "idle"
    <2>1. ~Queued(j) /\ held # j /\ Handling(j) = {}
      BY <1>2, IdleIsNowhere
    <2>2. JobRank(j) = 7 * MaxRetries + 9
      BY <1>2, <2>1 DEF JobRank
    <2> QED BY <1>0, <1>2, <2>1, <2>2 DEF Handling
  <1>3. CASE Requested(j)
    <2>1. ~Queued(j) /\ held # j /\ Handling(j) = {}
      BY <1>0, <1>3 DEF HolderInv, OneHolder, Handling
    <2>2. /\ api[j] = "persist" => JobRank(j) = 7 * MaxRetries + 8
          /\ api[j] = "publish" => JobRank(j) = Round(j) + 7
      BY <2>1 DEF JobRank
    <2> QED BY <1>0, <1>3, <2>1, <2>2 DEF Handling, Requested, InFlight
  <1>4. CASE Queued(j) /\ api[j] # "idle"
    <2>1. ~Requested(j) /\ held # j /\ Handling(j) = {}
      BY <1>0, <1>4 DEF HolderInv, OneHolder, Handling
    <2>2. JobRank(j) = Round(j) + 6
      BY <1>4, <2>1 DEF JobRank, Requested
    <2> QED BY <1>0, <1>4, <2>1, <2>2 DEF Handling, Requested, InFlight
  <1>5. CASE held = j /\ api[j] # "idle"
    <2>1. ~Requested(j) /\ ~Queued(j) /\ Handling(j) = {}
      BY <1>0, <1>5 DEF HolderInv, OneHolder, Handling
    <2>2. JobRank(j) = Round(j) + 5
      BY <1>5, <2>1 DEF JobRank, Requested
    <2> QED BY <1>0, <1>5, <2>1, <2>2 DEF Handling, Requested, InFlight
  <1>6. CASE Handling(j) # {} /\ api[j] # "idle"
    <2>1. ~Requested(j) /\ ~Queued(j) /\ held # j
      BY <1>0, <1>6 DEF HolderInv, OneHolder, Handling
    <2>2. ASSUME NEW w \in Workers, worker[w].job = j
          PROVE  w = CHOOSE v \in Handling(j) : TRUE
      <3>1. \A v \in Handling(j) : v = w
        BY <1>0, <2>2 DEF HolderInv, OneHolder, Handling
      <3> QED BY <1>6, <3>1
    <2>3. JobRank(j) = Round(j) + WorkerPlace(worker[CHOOSE w \in Handling(j) : TRUE].pc)
      BY <1>6, <2>1 DEF JobRank, Requested
    <2>4. \A w \in Workers : worker[w].job = j => JobRank(j) = Round(j) + WorkerPlace(worker[w].pc)
      BY <2>2, <2>3
    <2>5. JobRank(j) \in 0..(7 * MaxRetries + 9)
      BY <1>0, <2>3
    <2> QED BY <1>6, <2>1, <2>4, <2>5 DEF Requested, InFlight
  <1>7. CASE api[j] # "idle" /\ ~InFlight(j)
    <2>1. JobRank(j) = 0
      BY <1>7 DEF JobRank, InFlight, Requested
    <2> QED BY <1>0, <1>7, <2>1 DEF InFlight, Handling, Requested
  <1> QED BY <1>1, <1>2, <1>3, <1>4, <1>5, <1>6, <1>7

LEMMA PlacesHoldNext == HolderInv' => Places'
  BY PlacesHold, PTL

(* A step that leaves the job's row and its ID where they are.              *)
LEMMA RankFrame ==
    ASSUME HolderInv, HolderInv', NEW k \in Jobs,
           api'[k] = api[k], rows'[k] = rows[k],
           Queued(k)' <=> Queued(k), held' = k <=> held = k,
           \A w \in Workers : /\ worker'[w].job = k <=> worker[w].job = k
                              /\ worker[w].job = k => worker'[w].pc = worker[w].pc
    PROVE  JobRank(k)' = JobRank(k)
  <1>0. Places /\ Places'
    BY PlacesHold, PlacesHoldNext
  <1>1. Round(k)' = Round(k)
    BY DEF Round
  <1>2. /\ Requested(k)' <=> Requested(k)
        /\ InFlight(k)' <=> InFlight(k)
    BY DEF Requested, InFlight, Handling
  <1>3. CASE api[k] \in {"idle", "persist", "publish"}
    BY <1>0, <1>1, <1>3 DEF Places
  <1>4. CASE Queued(k) \/ held = k
    BY <1>0, <1>1, <1>4 DEF Places
  <1>5. CASE Handling(k) # {}
    <2>1. PICK w \in Workers : worker[w].job = k
      BY <1>5 DEF Handling
    <2>2. worker'[w].job = k /\ worker'[w].pc = worker[w].pc
      BY <2>1
    <2> QED BY <1>0, <1>1, <2>1, <2>2 DEF Places
  <1>6. CASE api[k] # "idle" /\ ~InFlight(k)
    BY <1>0, <1>2, <1>6 DEF Places
  <1> QED BY <1>3, <1>4, <1>5, <1>6 DEF InFlight, Requested

(* A step after which the job is nowhere.                                   *)
LEMMA RankEnds ==
    ASSUME HolderInv, HolderInv', NEW k \in Jobs,
           api'[k] # "idle", ~InFlight(k)'
    PROVE  /\ JobRank(k)' = 0 /\ JobRank(k)' <= JobRank(k)
           /\ InFlight(k) /\ (\A w \in Handling(k) : worker[w].pc \in BusyPC) =>
                 JobRank(k)' < JobRank(k)
  <1>0. Places /\ Places' /\ Round(k) \in Nat /\ MaxRetries \in Nat
    BY PlacesHold, PlacesHoldNext, RoundIsNatural, MaxRetriesAssumption DEF HolderInv, TypeInv
  <1>1. JobRank(k)' = 0 /\ JobRank(k) \in Nat
    BY <1>0 DEF Places
  <1>2. ASSUME InFlight(k), \A w \in Handling(k) : worker[w].pc \in BusyPC
        PROVE  JobRank(k) > 0
    <2>1. CASE Requested(k) \/ Queued(k) \/ held = k
      BY <1>0, <2>1 DEF Places, Requested
    <2>2. CASE Handling(k) # {}
      <3>1. PICK w \in Workers : worker[w].job = k /\ worker[w].pc \in BusyPC
        BY <1>2, <2>2 DEF Handling
      <3>2. WorkerPlace(worker[w].pc) \in Nat \ {0}
        BY <3>1 DEF WorkerPlace, BusyPC, WorkerPC
      <3> QED BY <1>0, <3>1, <3>2 DEF Places
    <2> QED BY <1>2, <2>1, <2>2 DEF InFlight
  <1> QED BY <1>1, <1>2

(* The job's own steps.                                                    *)
LEMMA TakesDescend ==
    ASSUME MaxDuplicates = 0, HolderInv, HolderInv', NEW k \in Jobs, Takes(k)
    PROVE  JobRank(k)' < JobRank(k)
  <1> USE DEF request, memory, process, budget, limits
  <1>0. /\ TypeInv /\ TypeOK /\ TypeInv' /\ TypeOK' /\ Places /\ Places'
        /\ MaxRetries \in Nat /\ k # NoJob /\ queue \in Seq(Jobs)
        /\ Round(k) \in Nat /\ Round(k)' \in Nat
    <2>1. TypeOK => Round(k) \in Nat
      BY RoundIsNatural
    <2>2. TypeOK' => Round(k)' \in Nat
      BY MaxRetriesAssumption DEF TypeOK, Entity, Round
    <2> QED BY <2>1, <2>2, PlacesHold, PlacesHoldNext, MaxRetriesAssumption, JobsAssumption
            DEF HolderInv, TypeInv, TypeOK
  <1>b. \A w \in Handling(k) : worker[w].pc \in BusyPC
    BY <1>0 DEF TypeInv, Shape, Handling
  <1>r. rows'[k] = rows[k] => Round(k)' = Round(k)
    BY DEF Round
  <1>e. ASSUME InFlight(k), api'[k] # "idle", ~InFlight(k)'
        PROVE  JobRank(k)' < JobRank(k)
    BY <1>b, <1>e, RankEnds
  <1>1. CASE Submit(k)
    <2>1. api[k] = "idle" /\ api'[k] = "persist"
      BY <1>0, <1>1 DEF Submit, TypeOK
    <2> QED BY <1>0, <2>1 DEF Places
  <1>2. ASSUME Requested(k), api'[k] = "failed", UNCHANGED memory, Queued(k)' <=> Queued(k)
        PROVE  JobRank(k)' < JobRank(k)
    <2>1. ~Queued(k) /\ held # k /\ Handling(k) = {}
      BY <1>0, <1>2 DEF HolderInv, OneHolder, Handling
    <2>2. InFlight(k) /\ ~InFlight(k)'
      BY <1>2, <2>1 DEF InFlight, Requested, Handling
    <2> QED BY <1>2, <1>e, <2>2
  <1>3. CASE Persist(k)
    <2>1. api[k] = "persist" /\ Requested(k) /\ UNCHANGED <<queue, memory>>
      BY <1>3 DEF Persist, Requested
    <2>2. CASE api'[k] = "failed"
      BY <1>2, <2>1, <2>2 DEF Queued
    <2>3. CASE api'[k] # "failed"
      <3>1. rows'[k] = New /\ api'[k] = "publish"
        BY <1>0, <1>3, <2>3 DEF Persist, Insert, Store, TypeOK
      <3>2. Round(k)' = 7 * MaxRetries
        BY <1>0, <3>1 DEF Round, New, NoRow
      <3> QED BY <1>0, <2>1, <3>1, <3>2 DEF Places
    <2> QED BY <2>2, <2>3
  <1>4. CASE Publish(k)
    <2>1. /\ api[k] = "publish" /\ Requested(k) /\ UNCHANGED <<rows, memory>>
          /\ api'[k] \in {"accepted", "failed"}
          /\ LPush(k) \/ (api'[k] = "failed" /\ UNCHANGED queue)
      BY <1>0, <1>4 DEF Publish, Requested, LPushFails, TypeOK
    <2>2. CASE LPush(k)
      <3>1. Queued(k)'
        BY <1>0, <2>2, LPushAdds DEF Queued
      <3> QED BY <1>0, <1>r, <2>1, <3>1 DEF Places
    <2>3. CASE api'[k] = "failed" /\ UNCHANGED queue
      BY <1>2, <2>1, <2>3 DEF Queued
    <2> QED BY <2>1, <2>2, <2>3
  <1>5. CASE RequestLost(k)
    <2>1. Requested(k) /\ api'[k] = "failed" /\ UNCHANGED <<queue, memory>>
      BY <1>0, <1>5 DEF RequestLost, Requested, TypeOK
    <2> QED BY <1>2, <2>1 DEF Queued
  <1>6. CASE Dequeue /\ Head(queue) = k
    <2>1. Queued(k) /\ held' = k /\ UNCHANGED rows
      BY <1>0, <1>6, TailFacts DEF Dequeue, Queued
    <2> QED BY <1>0, <1>r, <2>1 DEF Places
  <1>7. CASE held = k /\ AbandonSend
    <2>1. ~Requested(k) /\ ~Queued(k) /\ Handling(k) = {}
      BY <1>0, <1>7 DEF HolderInv, OneHolder, Handling
    <2>2. api[k] # "idle"
      BY <1>7, IdleIsNowhere
    <2>3. /\ InFlight(k) /\ ~InFlight(k)' /\ api'[k] # "idle"
      BY <1>0, <1>7, <2>1, <2>2 DEF AbandonSend, InFlight, Requested, Queued, Handling
    <2> QED BY <1>e, <2>3
  <1>8. ASSUME NEW w \in Workers, held = k, Handoff(w)
        PROVE  JobRank(k)' < JobRank(k)
    <2>1. worker'[w].job = k /\ worker'[w].pc = "load" /\ UNCHANGED rows
      BY <1>0, <1>8 DEF Handoff, TypeOK
    <2>2. WorkerPlace("load") = 4
      BY DEF WorkerPlace
    <2> QED BY <1>0, <1>r, <1>8, <2>1, <2>2 DEF Places
  <1>9. ASSUME NEW w \in Workers, worker[w].job = k, WorkerStep(w)
        PROVE  JobRank(k)' < JobRank(k)
    <2>1. Runs(w)
      BY <1>0, <1>9 DEF WorkerStep, Runs, WorkerStops, TypeInv, Shape, BusyPC
    <2>2. /\ worker[w].pc \in BusyPC /\ UNCHANGED <<api, held>>
          /\ \A v \in Workers : v # w => worker'[v] = worker[v]
          /\ UNCHANGED queue \/ (Requeue(w) /\ LPush(k))
      BY <1>0, <1>9, <2>1, RunsMove
    <2>3. /\ ~Requested(k) /\ ~Queued(k) /\ held # k
          /\ \A v \in Workers : v # w => worker[v].job # k
      BY <1>0, <1>9 DEF HolderInv, OneHolder
    <2>4. api[k] # "idle" /\ InFlight(k)
      BY <1>9, IdleIsNowhere DEF InFlight, Handling
    <2>p. JobRank(k) = Round(k) + WorkerPlace(worker[w].pc)
      BY <1>0, <1>9 DEF Places
    <2>g. ASSUME NEW pc, NEW e, Goto(w, pc, e)
          PROVE  JobRank(k)' = Round(k)' + WorkerPlace(pc)
      <3>1. worker'[w].job = k /\ worker'[w].pc = pc
        BY <1>0, <1>9, <2>g DEF Goto, TypeOK
      <3> QED BY <1>0, <3>1 DEF Places
    <2>5. CASE Return(w) /\ UNCHANGED queue
      <3>1. \A v \in Workers : worker'[v].job # k
        BY <1>0, <2>2, <2>3, <2>5 DEF Return, Without, TypeOK
      <3>2. ~InFlight(k)' /\ api'[k] # "idle"
        BY <2>2, <2>3, <2>4, <2>5, <3>1 DEF InFlight, Requested, Queued, Handling
      <3> QED BY <1>e, <2>4, <3>2
    <2>6. CASE Requeue(w) /\ LPush(k)
      <3>1. Queued(k)' /\ UNCHANGED rows /\ worker[w].pc = "requeue"
        BY <1>0, <2>6, LPushAdds DEF Queued, Requeue
      <3>2. WorkerPlace("requeue") = 7
        BY DEF WorkerPlace
      <3> QED BY <1>0, <1>r, <2>p, <3>1, <3>2 DEF Places
    <2>7. CASE Load(w) /\ ~Return(w)
      <3>1. worker[w].pc = "load" /\ UNCHANGED rows /\ \E e : Goto(w, "claim", e)
        BY <2>7 DEF Load
      <3>2. WorkerPlace("load") = 4 /\ WorkerPlace("claim") = 3
        BY DEF WorkerPlace
      <3> QED BY <1>0, <1>r, <2>p, <2>g, <3>1, <3>2
    <2>8. CASE Claim(w) /\ ~Return(w)
      <3>1. /\ worker[w].pc = "claim" /\ rows'[k] = worker[w].entity
            /\ \E e : Goto(w, "execute", e)
        BY <1>0, <1>9, <2>8 DEF Claim, Store, TypeOK
      <3>2. rows'[k] = MarkProcessing(rows[k]) /\ rows[k] \in Entity
        BY <1>0, <1>9, <3>1 DEF HolderInv, HolderKnowsID, WorkerKnowsID, ClaimKnowsRow, TypeOK
      <3>3. Round(k)' = Round(k)
        BY <3>2 DEF Round, MarkProcessing, Entity
      <3>4. WorkerPlace("claim") = 3 /\ WorkerPlace("execute") = 2
        BY DEF WorkerPlace
      <3> QED BY <1>0, <2>p, <2>g, <3>1, <3>3, <3>4
    <2>9. CASE Execute(w) /\ ~Return(w)
      <3>1. /\ worker[w].pc = "execute" /\ UNCHANGED rows
            /\ \E pc \in {"complete", "record"}, e \in {MarkSuccess(worker[w].entity),
                  RecordFailure(worker[w].entity)} : Goto(w, pc, e)
        BY <2>9 DEF Execute
      <3>2. WorkerPlace("execute") = 2 /\ \A pc \in {"complete", "record"} : WorkerPlace(pc) = 1
        BY DEF WorkerPlace
      <3> QED BY <1>0, <1>r, <2>p, <2>g, <3>1, <3>2
    <2>10. CASE PersistFailure(w) /\ ~Return(w)
      <3>1. /\ worker[w].pc = "record" /\ rows'[k] = worker[w].entity
            /\ worker[w].entity.status = "pending"
            /\ \E e : Goto(w, "requeue", e)
        BY <1>0, <1>9, <2>10 DEF PersistFailure, Store, TypeOK
      <3>2. rows'[k] = RecordFailure(rows[k]) /\ rows[k] \in Entity
        BY <1>0, <1>9, <3>1 DEF HolderInv, HolderKnowsID, WorkerKnowsID, ClaimKnowsRow, TypeOK
      <3>3. rows'[k].retryCount = rows[k].retryCount + 1 /\ rows[k].retryCount \in Nat
        BY <1>0, <3>1, <3>2 DEF RecordFailure, Entity
      <3>4. Round(k)' = Round(k) - 7
        BY <1>0, <3>3 DEF Round
      <3>5. WorkerPlace("record") = 1 /\ WorkerPlace("requeue") = 7
        BY DEF WorkerPlace
      <3> QED BY <1>0, <2>p, <2>g, <3>1, <3>4, <3>5
    <2>11. \/ Return(w) /\ UNCHANGED queue
           \/ Requeue(w) /\ LPush(k)
           \/ ~Return(w) /\ (Load(w) \/ Claim(w) \/ Execute(w) \/ PersistFailure(w))
      BY <2>1, <2>2 DEF Runs, PersistSuccess, Requeue
    <2> QED BY <2>5, <2>6, <2>7, <2>8, <2>9, <2>10, <2>11
  <1> QED BY <1>1, <1>3, <1>4, <1>5, <1>6, <1>7, <1>8, <1>9 DEF Takes, RequestStep

(* Everybody else's steps.                                                 *)
LEMMA OthersKeepRank ==
    ASSUME MaxDuplicates = 0, HolderInv, HolderInv', [Next]_vars, NEW k \in Jobs, ~Takes(k)
    PROVE  JobRank(k)' <= JobRank(k) /\ rows'[k] = rows[k]
  <1> USE DEF vars, request, memory, process, budget, limits
  <1>0. /\ TypeInv /\ TypeOK /\ k # NoJob /\ queue \in Seq(Jobs)
        /\ JobRank(k) \in Nat
    <2>1. JobRank(k) \in 0..(7 * MaxRetries + 9) /\ MaxRetries \in Nat
      BY PlacesHold, MaxRetriesAssumption DEF Places
    <2>2. JobRank(k) \in Nat
      BY <2>1
    <2> QED BY <2>2, JobsAssumption DEF HolderInv, TypeInv, TypeOK
  <1>f. ASSUME UNCHANGED worker, api'[k] = api[k], rows'[k] = rows[k],
               Queued(k)' <=> Queued(k), held' = k <=> held = k
        PROVE  JobRank(k)' <= JobRank(k)
    BY <1>0, <1>f, RankFrame
  <1>1. ASSUME NEW j \in Jobs, Submit(j) \/ Persist(j) \/ RequestLost(j)
        PROVE  JobRank(k)' <= JobRank(k) /\ rows'[k] = rows[k]
    <2>1. j # k
      BY <1>1 DEF Takes, RequestStep
    <2>2. api'[k] = api[k] /\ rows'[k] = rows[k] /\ UNCHANGED <<queue, memory>>
      BY <1>0, <1>1, <2>1
      DEF Submit, Persist, RequestLost, Insert, StoreFails, Store, TypeOK
    <2> QED BY <1>f, <2>2 DEF Queued
  <1>2. ASSUME NEW j \in Jobs, Publish(j)
        PROVE  JobRank(k)' <= JobRank(k) /\ rows'[k] = rows[k]
    <2>1. j # k
      BY <1>2 DEF Takes, RequestStep
    <2>2. /\ api'[k] = api[k] /\ UNCHANGED <<rows, memory>>
          /\ UNCHANGED queue \/ LPush(j)
      BY <1>0, <1>2, <2>1 DEF Publish, LPushFails, TypeOK
    <2>3. Queued(k)' <=> Queued(k)
      BY <1>0, <2>1, <2>2, LPushAdds DEF Queued
    <2> QED BY <1>f, <2>2, <2>3
  <1>3. CASE Dequeue
    <2>1. /\ Head(queue) # k /\ held' # k /\ held = NoJob /\ UNCHANGED <<rows, api, worker>>
          /\ queue # <<>> /\ queue' = Tail(queue)
      BY <1>0, <1>3 DEF Takes, Dequeue, TypeInv, Shape
    <2>2. Queued(k)' <=> Queued(k)
      BY <1>0, <2>1, PopTakesHead DEF Queued
    <2> QED BY <1>0, <1>f, <2>1, <2>2
  <1>4. CASE DequeueFault
    <2>1. /\ UNCHANGED <<rows, api, held, worker>>
          /\ UNCHANGED queue \/ (queue # <<>> /\ queue' = Tail(queue))
      BY <1>4 DEF DequeueFault
    <2>2. CASE Queued(k)' <=> Queued(k)
      BY <1>f, <2>1, <2>2
    <2>3. CASE Queued(k) /\ ~Queued(k)'
      <3>1. ~Requested(k) /\ held # k /\ Handling(k) = {} /\ api[k] # "idle"
        BY <1>0, <2>3, IdleIsNowhere DEF HolderInv, OneHolder, Handling
      <3>2. ~InFlight(k)' /\ api'[k] # "idle"
        BY <2>1, <2>3, <3>1 DEF InFlight, Requested, Handling
      <3> QED BY <2>1, <3>2, RankEnds
    <2>4. Queued(k)' => Queued(k)
      BY <1>0, <2>1, TailFacts DEF Queued
    <2> QED BY <2>2, <2>3, <2>4
  <1>5. CASE AbandonSend \/ DequeueCancelled \/ Backoff \/ Signal \/ UNCHANGED vars
    <2>1. AbandonSend => held # k
      BY DEF Takes
    <2>2. /\ UNCHANGED <<rows, api, queue, worker>>
          /\ held' = k <=> held = k
      BY <1>0, <1>5, <2>1 DEF AbandonSend, DequeueCancelled, Backoff, Signal
    <2> QED BY <1>f, <2>2 DEF Queued
  <1>6. ASSUME NEW w \in Workers, Handoff(w)
        PROVE  JobRank(k)' <= JobRank(k) /\ rows'[k] = rows[k]
    <2>1. held # k
      BY <1>6 DEF Takes
    <2>2. /\ UNCHANGED <<rows, api, queue>> /\ held' = NoJob
          /\ worker[w].job = NoJob /\ worker'[w].job = held
          /\ \A v \in Workers : v # w => worker'[v] = worker[v]
      BY <1>0, <1>6 DEF Handoff, TypeInv, TypeOK, Shape, BusyPC
    <2>3. JobRank(k)' = JobRank(k)
      BY <1>0, <2>1, <2>2, RankFrame DEF Queued
    <2> QED BY <1>0, <2>2, <2>3
  <1>7. ASSUME NEW w \in Workers, WorkerStops(w)
        PROVE  JobRank(k)' <= JobRank(k) /\ rows'[k] = rows[k]
    <2>1. /\ UNCHANGED <<rows, api, queue, held>>
          /\ worker[w].job = NoJob /\ worker'[w].job = NoJob
          /\ \A v \in Workers : v # w => worker'[v] = worker[v]
      BY <1>0, <1>7 DEF WorkerStops, Without, TypeInv, TypeOK, Shape, BusyPC
    <2>2. JobRank(k)' = JobRank(k)
      BY <1>0, <2>1, RankFrame DEF Queued
    <2> QED BY <1>0, <2>1, <2>2
  <1>8. ASSUME NEW w \in Workers, Runs(w)
        PROVE  JobRank(k)' <= JobRank(k) /\ rows'[k] = rows[k]
    <2> DEFINE j == worker[w].job
    <2>1. j # k
      BY <1>8 DEF Takes, WorkerStep, Runs
    <2>2. /\ j \in Jobs /\ UNCHANGED <<api, held>> /\ rows'[k] = rows[k]
          /\ \A v \in Workers : v # w => worker'[v] = worker[v]
          /\ worker'[w].job \in {j, NoJob}
          /\ UNCHANGED queue \/ LPush(j)
      BY <1>0, <1>8, <2>1, RunsMove
    <2>3. Queued(k)' <=> Queued(k)
      BY <1>0, <2>1, <2>2, LPushAdds DEF Queued
    <2>4. JobRank(k)' = JobRank(k)
      BY <1>0, <2>1, <2>2, <2>3, RankFrame
    <2> QED BY <1>0, <2>2, <2>4
  <1>9. CASE Start \/ Exit \/ Crash
    <2>1. /\ UNCHANGED <<rows, api, queue>> /\ held' \in {held, NoJob}
          /\ \A w \in Workers : worker'[w].job = NoJob
      BY <1>9 DEF Start, Exit, Crash, Down, Without
    <2>2. CASE (held' = k <=> held = k) /\ Handling(k) = {}
      <3>1. JobRank(k)' = JobRank(k)
        BY <1>0, <2>1, <2>2, RankFrame DEF Queued, Handling
      <3> QED BY <1>0, <2>1, <3>1
    <2>3. CASE (held = k /\ held' # k) \/ Handling(k) # {}
      <3>1. ~Requested(k) /\ ~Queued(k) /\ held' # k /\ api[k] # "idle"
        BY <1>0, <2>1, <2>3, IdleIsNowhere DEF HolderInv, OneHolder, Handling
      <3>2. ~InFlight(k)' /\ api'[k] # "idle"
        BY <1>0, <2>1, <3>1 DEF InFlight, Requested, Queued, Handling
      <3> QED BY <2>1, <3>2, RankEnds
    <2> QED BY <1>0, <2>1, <2>2, <2>3
  <1> QED
    BY <1>1, <1>2, <1>3, <1>4, <1>5, <1>6, <1>7, <1>8, <1>9
    DEF Next, RequestStep, DispatcherStep, DispatcherRuns, WorkerStep, Runs

(* Without duplicated pushes no job goes round for ever: whatever fails, is  *)
(* signalled or crashes, each step of a job takes it nearer to its end, no    *)
(* other step takes it back, and only its own steps write its row.  A job     *)
(* takes at most 7 * MaxRetries + 9 steps from its request to its end.       *)
THEOREM JobsAreBounded ==
    ASSUME MaxDuplicates = 0
    PROVE  Spec => JobStepsDescend
  <1>1. HolderInv /\ [Next]_vars => HolderInv' /\ \A j \in Jobs : JobDescends(j)
    <2> SUFFICES ASSUME HolderInv, [Next]_vars, NEW j \in Jobs
                 PROVE  HolderInv' /\ JobDescends(j)
      BY HolderStep
    <2>1. HolderInv'
      BY HolderStep
    <2>2. JobRank(j) \in Nat /\ JobRank(j)' \in Nat
      BY <2>1, PlacesHold, PlacesHoldNext, MaxRetriesAssumption DEF Places
    <2> QED BY <2>1, <2>2, TakesDescend, OthersKeepRank DEF JobDescends
  <1> QED BY HolderInit, <1>1, PTL DEF Spec, JobStepsDescend

(* A row once written is never unwritten.                                  *)
LEMMA KnownStays ==
    ASSUME HolderInv, [Next]_vars, NEW j \in Jobs, Known(j)
    PROVE  Known(j)'
  BY LifecycleStep
  DEF Known, Lifecycle!Next, Lifecycle!vars, Lifecycle!Create, Lifecycle!Start,
      Lifecycle!Succeed, Lifecycle!Retry, Lifecycle!Exhaust, Lifecycle!Move

(* What was accepted has a row: the request stored it before it published.  *)
AcceptedIsKnown == \A j \in Jobs : api[j] = "accepted" => Known(j)

LEMMA AcceptedStep == HolderInv /\ AcceptedIsKnown /\ [Next]_vars => AcceptedIsKnown'
  <1> SUFFICES ASSUME HolderInv, AcceptedIsKnown, [Next]_vars,
                      NEW j \in Jobs, api'[j] = "accepted"
               PROVE  Known(j)'
    BY DEF AcceptedIsKnown
  <1> USE DEF vars, request, memory, process, budget, limits
  <1>1. CASE UNCHANGED api
    BY <1>1, KnownStays DEF AcceptedIsKnown
  <1>2. ASSUME NEW k \in Jobs, Submit(k) \/ RequestLost(k) \/ Persist(k)
        PROVE  Known(j)'
    <2>1. api'[j] = api[j]
      BY <1>2 DEF Submit, RequestLost, Persist, HolderInv, TypeInv, TypeOK
    <2> QED BY <2>1, KnownStays DEF AcceptedIsKnown
  <1>3. ASSUME NEW k \in Jobs, Publish(k) PROVE Known(j)'
    <2>1. api[j] = "accepted" \/ api[j] = "publish"
      BY <1>3 DEF Publish, HolderInv, TypeInv, TypeOK
    <2>2. Known(j)
      BY <2>1 DEF AcceptedIsKnown, Known, HolderInv, RequestKnowsRow
    <2> QED BY <2>2, KnownStays
  <1>4. CASE UNCHANGED vars
    BY <1>1, <1>4
  <1>5. CASE DispatcherStep
    <2>1. UNCHANGED api
      BY <1>5 DEF DispatcherStep, DispatcherRuns, Dequeue, DequeueCancelled, DequeueFault,
                  Backoff, Handoff, AbandonSend
    <2> QED BY <1>1, <2>1
  <1>6. ASSUME NEW w \in Workers, WorkerStep(w) PROVE Known(j)'
    <2>1. UNCHANGED api
      BY <1>6 DEF WorkerStep, WorkerStops, Load, Claim, Execute, PersistSuccess,
                  PersistFailure, Requeue
    <2> QED BY <1>1, <2>1
  <1>7. CASE Start \/ Signal \/ Exit \/ Crash
    BY <1>1, <1>7 DEF Start, Signal, Exit, Crash
  <1> QED BY <1>2, <1>3, <1>4, <1>5, <1>6, <1>7 DEF Next, RequestStep

(* An accepted job has run out of steps exactly when its row is final or    *)
(* nobody has its ID any more: no holder is left with a final job, and no    *)
(* unfinished job in somebody's hands has reached its last step.            *)
EndsAtZero ==
    \A j \in Jobs : api[j] = "accepted" => (JobRank(j) = 0 <=> Settled(j) \/ Stranded(j))

THEOREM AcceptedJobsEnd ==
    ASSUME MaxDuplicates = 0
    PROVE  Spec => []EndsAtZero
  <1>1. HolderInv /\ HolderKnowsRow /\ AcceptedIsKnown => EndsAtZero
    <2> SUFFICES ASSUME HolderInv, HolderKnowsRow, AcceptedIsKnown,
                        NEW j \in Jobs, api[j] = "accepted"
                 PROVE  JobRank(j) = 0 <=> Settled(j) \/ Stranded(j)
      BY DEF EndsAtZero
    <2>0. Places /\ Round(j) \in Nat /\ j # NoJob /\ ~Requested(j)
      BY PlacesHold, RoundIsNatural, MaxRetriesAssumption, JobsAssumption
      DEF HolderInv, TypeInv, Requested
    <2>1. rows[j].status \in {"pending", "processing"} \cup Terminal
      BY DEF AcceptedIsKnown, Known, HolderInv, TypeInv, TypeOK, Entity, Status, Terminal
    <2>2. CASE ~InFlight(j)
      <3>1. JobRank(j) = 0
        BY <2>0, <2>2 DEF Places
      <3> QED BY <2>1, <2>2, <3>1 DEF Settled, Stranded
    <2>3. CASE Queued(j) \/ held = j
      <3>1. rows[j].status = "pending" /\ InFlight(j)
        BY <2>0, <2>3 DEF HolderKnowsRow, InFlight
      <3>2. JobRank(j) # 0
        BY <2>0, <2>3 DEF Places
      <3> QED BY <3>1, <3>2 DEF Settled, Stranded, Terminal
    <2>4. CASE Handling(j) # {}
      <3>1. PICK w \in Workers : worker[w].job = j
        BY <2>4 DEF Handling
      <3>2. worker[w].pc \in BusyPC
        BY <2>0, <3>1 DEF HolderInv, TypeInv, Shape
      <3>3. WorkerPlace(worker[w].pc) \in 1..7
        BY <3>2 DEF WorkerPlace, BusyPC, WorkerPC
      <3>4. JobRank(j) # 0
        BY <2>0, <3>1, <3>3 DEF Places
      <3>5. rows[j].status \in {"pending", "processing"}
        BY <3>1, <3>2 DEF HolderKnowsRow, WorkerKnowsRow, ClaimKnowsRow, BusyPC, WorkerPC
      <3> QED BY <2>4, <3>4, <3>5 DEF Settled, Stranded, InFlight, Terminal
    <2> QED BY <2>0, <2>2, <2>3, <2>4 DEF InFlight
  <1>2. Init => AcceptedIsKnown
    BY DEF Init, AcceptedIsKnown
  <1>3. HolderInv /\ HolderKnowsRow /\ AcceptedIsKnown /\ [Next]_vars
          => HolderInv' /\ HolderKnowsRow' /\ AcceptedIsKnown'
    BY HolderStep, PendingStep, AcceptedStep
  <1> QED BY HolderInit, PendingInit, <1>1, <1>2, <1>3, PTL DEF Spec

(***************************************************************************)
(* MarkSuccess and RecordFailure refuse a job that is not being processed.   *)
(***************************************************************************)
ExecutionIsRecordable ==
    \A w \in Workers : worker[w].pc = "execute" => CanFinish(worker[w].entity)

(* They never refuse the worker that executed it, also when another one has   *)
(* overwritten the row: no execution ends without an outcome for this reason. *)
THEOREM ExecutionsAreRecordable == Spec => []ExecutionIsRecordable
  <1>1. OutcomeInv => ExecutionIsRecordable
    BY DEF OutcomeInv, WorkerRespectsPayload, ExecutionIsRecordable, CanFinish
  <1> QED BY OutcomeInit, OutcomeStep, <1>1, PTL DEF Spec

(***************************************************************************)
(* Rows read as one consistent job.  No call tests what it overwrites, but *)
(* every row is written whole, from an entity that was itself read whole   *)
(* and moved by a transition: so this needs nothing about who holds an ID.  *)
(***************************************************************************)
Formed(e) ==
    /\ e.completedAt <=> e.status \in Terminal
    /\ e.startedAt <=> e.status \in {"processing"} \cup Terminal \/ e.retryCount > 0
    /\ e.lastError <=> e.status = "failed" \/ (e.status # "success" /\ e.retryCount > 0)
    /\ e.status = "failed" => ~CanRetry(e)

FormedInv == /\ TypeInv
             /\ \A j \in Jobs : Formed(rows[j])
             /\ \A w \in Workers : Formed(worker[w].entity)

(* The transitions of the entity keep it well formed.                      *)
LEMMA TransitionsForm ==
    /\ Formed(NoRow) /\ Formed(New)
    /\ \A e \in Entity :
          Formed(e) => /\ CanMarkProcessing(e) => Formed(MarkProcessing(e))
                       /\ CanFinish(e) => Formed(MarkSuccess(e)) /\ Formed(RecordFailure(e))
  <1>1. Formed(NoRow) /\ Formed(New)
    BY DEF Formed, NoRow, New, Terminal
  <1>2. ASSUME NEW e \in Entity, Formed(e), CanMarkProcessing(e)
        PROVE  Formed(MarkProcessing(e))
    BY <1>2 DEF Formed, Entity, CanMarkProcessing, MarkProcessing, Terminal, CanRetry
  <1>3. ASSUME NEW e \in Entity, Formed(e), CanFinish(e)
        PROVE  Formed(MarkSuccess(e)) /\ Formed(RecordFailure(e))
    <2>1. e.retryCount \in Nat /\ e.retryCount + 1 > 0
      BY MaxRetriesAssumption DEF Entity
    <2>2. Formed(MarkSuccess(e))
      BY <1>3, <2>1 DEF Formed, Entity, CanFinish, MarkSuccess, Terminal, CanRetry
    <2>3. Formed(RecordFailure(e))
      BY <1>3, <2>1 DEF Formed, Entity, CanFinish, RecordFailure, Terminal, CanRetry
    <2> QED BY <2>2, <2>3
  <1> QED BY <1>1, <1>2, <1>3

(* A step that writes at most one row, and moves at most one worker, with   *)
(* well-formed entities.                                                   *)
LEMMA FormedMoves ==
    ASSUME FormedInv, TypeInv',
           NEW e, Formed(e),
           UNCHANGED rows \/ \E j \in Jobs : StoreFails(j, e),
           \A w \in Workers : \/ worker'[w].entity = worker[w].entity
                              \/ Formed(worker'[w].entity)
    PROVE  FormedInv'
  BY DEF FormedInv, TypeInv, TypeOK, StoreFails, Store, Formed

LEMMA FormedStep == FormedInv /\ [Next]_vars => FormedInv'
  <1> SUFFICES ASSUME FormedInv, [Next]_vars PROVE FormedInv'
    OBVIOUS
  <1> USE DEF vars, request, memory, process, budget, limits
  <1>0. TypeInv /\ TypeOK /\ TypeInv' /\ Formed(NoRow) /\ Formed(New)
    BY TypeStep, TransitionsForm DEF FormedInv, TypeInv
  <1>1. CASE UNCHANGED <<rows, worker>>
    BY <1>0, <1>1, FormedMoves
  <1>2. ASSUME NEW j \in Jobs, Persist(j) PROVE FormedInv'
    BY <1>0, <1>2, FormedMoves DEF Persist, Insert, StoreFails
  <1>3. CASE /\ UNCHANGED rows
             /\ \A w \in Workers :
                   worker'[w].entity = worker[w].entity \/ worker'[w].entity = NoRow
    BY <1>0, <1>3, FormedMoves
  <1>4. ASSUME NEW w \in Workers,
               Load(w) \/ Claim(w) \/ Execute(w) \/ PersistSuccess(w)
                 \/ PersistFailure(w) \/ Requeue(w)
        PROVE  FormedInv'
    <2> DEFINE j == worker[w].job
               e == worker[w].entity
    <2>1. worker[w].pc \in BusyPC
      BY <1>4 DEF Load, Claim, Execute, PersistSuccess, PersistFailure, Requeue, BusyPC,
                  WorkerPC
    <2>2. /\ j \in Jobs /\ e \in Entity /\ Formed(e)
          /\ rows[j] \in Entity /\ Formed(rows[j])
      BY <1>0, <2>1, BusyJob DEF FormedInv, TypeOK
    <2>3. \/ UNCHANGED rows
          \/ \E k \in Jobs : StoreFails(k, e)
      BY <1>4, <2>2 DEF Load, Claim, Execute, PersistSuccess, PersistFailure, Requeue,
                        StoreFails
    <2>4. \/ Return(w)
          \/ \E pc : Goto(w, pc, e)
          \/ \E pc : Goto(w, pc, MarkProcessing(rows[j])) /\ CanMarkProcessing(rows[j])
          \/ \E pc : Goto(w, pc, MarkSuccess(e)) /\ CanFinish(e)
          \/ \E pc : Goto(w, pc, RecordFailure(e)) /\ CanFinish(e)
      BY <1>4 DEF Load, Claim, Execute, PersistSuccess, PersistFailure, Requeue
    <2>5. \E f : Formed(f) /\ \/ Return(w)
                              \/ \E pc : Goto(w, pc, f)
      BY <1>0, <2>2, <2>4, TransitionsForm
    <2>6. \A v \in Workers : worker'[v].entity = worker[v].entity \/ Formed(worker'[v].entity)
      <3> PICK f : Formed(f) /\ (Return(w) \/ \E pc : Goto(w, pc, f))
        BY <2>5
      <3>1. \A v \in Workers : v # w => worker'[v] = worker[v]
        BY <1>0, <2>5 DEF Return, Goto, TypeOK
      <3>2. worker'[w].entity = NoRow \/ worker'[w].entity = f
        BY <1>0 DEF Return, Goto, Without, TypeOK
      <3> QED BY <1>0, <3>1, <3>2
    <2> QED BY <1>0, <2>2, <2>3, <2>6, FormedMoves
  <1>5. CASE Start \/ Exit \/ Crash
    BY <1>3, <1>5 DEF Start, Exit, Crash, Down, Without
  <1>6. ASSUME NEW w \in Workers, Handoff(w) \/ WorkerStops(w) PROVE FormedInv'
    <2>1. /\ UNCHANGED rows
          /\ \A v \in Workers : v # w => worker'[v] = worker[v]
          /\ worker'[w].entity = NoRow
      BY <1>0, <1>6 DEF Handoff, WorkerStops, Without, TypeOK
    <2> QED BY <1>3, <2>1
  <1> QED
    BY <1>1, <1>2, <1>4, <1>5, <1>6
    DEF Next, RequestStep, DispatcherStep, DispatcherRuns, WorkerStep, Submit, Publish,
        RequestLost, Dequeue, DequeueCancelled, DequeueFault, Backoff, AbandonSend, Signal

(* Every row reads as one consistent job, whatever fails and however often  *)
(* an ID is delivered.                                                     *)
THEOREM RowsAreWellFormed == Spec => []RowsWellFormed
  <1>1. Init => FormedInv
    BY TypeInit, TransitionsForm DEF Init, FormedInv, Without
  <1>2. FormedInv => RowsWellFormed
    BY DEF FormedInv, Formed, RowsWellFormed
  <1> QED BY <1>1, FormedStep, <1>2, PTL DEF Spec

-----------------------------------------------------------------------------
(***************************************************************************)
(* What survives a host failure, for every value of the constants: the      *)
(* invariants of the pipeline never said that the list is what was pushed,   *)
(* only that each ID in it is there once and names a row, and that is true   *)
(* of every earlier list as well.                                          *)
(***************************************************************************)
RecoverableOK == /\ recoverable \subseteq Seq(Jobs)
                 /\ failures \in Nat

(* HostFails as a step of the pipeline's state.                            *)
LEMMA FailureMoves ==
    ASSUME TypeOK, RecoverableOK, HostFails
    PROVE  /\ UNCHANGED <<rows, payloadOK, attempts>>
           /\ queue' \in recoverable /\ queue' \in Seq(Jobs) /\ held' = NoJob
           /\ \A w \in Workers : worker'[w] = Without("stopped")
           /\ \A j \in Jobs : /\ api'[j] = "idle" => api[j] = "idle"
                              /\ api'[j] \notin {"persist", "publish"}
  <1>1. \A j \in Jobs : api'[j] = IF Requested(j) THEN "failed" ELSE api[j]
    BY DEF HostFails
  <1>2. \A j \in Jobs : /\ api'[j] = "idle" => api[j] = "idle"
                        /\ api'[j] \notin {"persist", "publish"}
    BY <1>1 DEF Requested
  <1> QED BY <1>2 DEF HostFails, LoadList, Down, RecoverableOK

LEMMA FailureType ==
    ASSUME TypeInv, RecoverableOK, HostFails
    PROVE  TypeInv'
  <1>1. TypeOK
    BY DEF TypeInv
  <1>2. worker' \in [Workers -> [pc : WorkerPC, job : Jobs \cup {NoJob}, entity : Entity]]
    BY WithoutType DEF HostFails, Down, WorkerPC, WorkerState
  <1>3. api' \in [Jobs -> ApiPC]
    BY <1>1 DEF TypeOK, HostFails, ApiPC
  <1>4. TypeOK'
    BY <1>1, <1>2, <1>3, FailureMoves
    DEF TypeOK, HostFails, Down, DispatcherPC, budget, limits
  <1>5. Shape'
    BY DEF HostFails, Down, Without, Shape, BusyPC
  <1> QED BY <1>4, <1>5 DEF TypeInv

LEMMA RecoverableStep ==
    ASSUME TypeInv, TypeInv', RecoverableOK, [HostNext]_hostVars
    PROVE  RecoverableOK'
  <1>1. queue \in Seq(Jobs) /\ queue' \in Seq(Jobs)
    BY DEF TypeInv, TypeOK
  <1> QED BY <1>1
          DEF RecoverableOK, HostNext, JobsStep, Fsync, HostFails, hostVars, host, vars

(* A step of the host is a step of the pipeline, or the failure.           *)
LEMMA HostSteps ==
    ASSUME [HostNext]_hostVars
    PROVE  [Next]_vars \/ HostFails
  BY DEF HostNext, JobsStep, Fsync, hostVars

LEMMA HostTypeStep ==
    TypeInv /\ RecoverableOK /\ [HostNext]_hostVars => TypeInv' /\ RecoverableOK'
  <1> SUFFICES ASSUME TypeInv, RecoverableOK, [HostNext]_hostVars
               PROVE  TypeInv' /\ RecoverableOK'
    OBVIOUS
  <1>1. TypeInv'
    BY HostSteps, TypeStep, FailureType
  <1> QED BY <1>1, RecoverableStep

LEMMA HostTypeInit == HostInit => TypeInv /\ RecoverableOK
  BY TypeInit, EmptySeq DEF HostInit, RecoverableOK

LEMMA HostTypeAlways == HostSpec => [](TypeInv /\ RecoverableOK)
  BY HostTypeInit, HostTypeStep, PTL DEF HostSpec

(* Types, and the range of the retry counter, are kept by host failures.    *)
THEOREM HostTypeCorrect == HostSpec => []HostTypeOK
  <1>1. TypeInv /\ RecoverableOK => HostTypeOK
    BY DEF TypeInv, RecoverableOK, HostTypeOK
  <1> QED BY HostTypeAlways, <1>1, PTL

(***************************************************************************)
(* Outcomes, also with duplicated pushes.                                  *)
(***************************************************************************)

(* A request that has begun stays begun.                                   *)
LEMMA BegunStays ==
    ASSUME TypeOK, [Next]_vars, NEW j \in Jobs, api'[j] = "idle"
    PROVE  api[j] = "idle"
  <1> USE DEF vars, request, memory
  <1>1. ASSUME NEW k \in Jobs, Submit(k) \/ Persist(k) \/ Publish(k) \/ RequestLost(k)
        PROVE  api[j] = "idle"
    BY <1>1 DEF TypeOK, Submit, Persist, Publish, RequestLost
  <1>2. UNCHANGED api \/ \E k \in Jobs : Submit(k) \/ Persist(k) \/ Publish(k) \/ RequestLost(k)
    BY DEF Next, RequestStep, DispatcherStep, DispatcherRuns, WorkerStep, Dequeue,
           DequeueCancelled,
           DequeueFault, Backoff, AbandonSend, Handoff, WorkerStops, Load, Claim, Execute,
           PersistSuccess, PersistFailure, Requeue, Start, Signal, Exit, Crash
  <1> QED BY <1>1, <1>2

HostOutcomeInv ==
    /\ OutcomeInv
    /\ RecoverableOK
    /\ \A q \in recoverable : \A j \in Jobs : api[j] = "idle" => j \notin Range(q)

LEMMA HostOutcomeStep == HostOutcomeInv /\ [HostNext]_hostVars => HostOutcomeInv'
  <1> SUFFICES ASSUME HostOutcomeInv, [HostNext]_hostVars PROVE HostOutcomeInv'
    OBVIOUS
  <1>0. TypeInv /\ TypeOK /\ RecoverableOK /\ TypeInv' /\ RecoverableOK'
    BY HostTypeStep DEF HostOutcomeInv, OutcomeInv, TypeInv
  <1>1. CASE [Next]_vars
    <2>1. OutcomeInv'
      BY <1>1, OutcomeStep DEF HostOutcomeInv
    <2>2. recoverable' \subseteq recoverable \cup {queue, queue'}
      BY DEF HostNext, JobsStep, Fsync, HostFails, hostVars, host
    <2>3. \A j \in Jobs : api[j] = "idle" => j \notin Range(queue)
      BY DEF HostOutcomeInv, OutcomeInv, Fresh, Queued
    <2>4. \A j \in Jobs : api'[j] = "idle" => j \notin Range(queue')
      BY <2>1 DEF OutcomeInv, Fresh, Queued
    <2>5. \A j \in Jobs : api'[j] = "idle" => api[j] = "idle"
      BY <1>0, <1>1, BegunStays
    <2> QED BY <1>0, <2>1, <2>2, <2>3, <2>4, <2>5 DEF HostOutcomeInv
  <1>2. CASE HostFails
    <2>1. /\ UNCHANGED <<rows, payloadOK>> /\ queue' \in recoverable /\ held' = NoJob
          /\ \A w \in Workers : worker'[w].pc = "stopped" /\ worker'[w].job = NoJob
          /\ \A j \in Jobs : api'[j] = "idle" => api[j] = "idle"
      BY <1>0, <1>2, FailureMoves DEF Without
    <2>2. ASSUME NEW j \in Jobs, api'[j] = "idle" PROVE Fresh(j)'
      <3>1. rows[j] = NoRow /\ j \notin Range(queue')
        BY <2>1, <2>2 DEF HostOutcomeInv, OutcomeInv, Fresh
      <3> QED BY <2>1, <3>1, JobsAssumption DEF Fresh, Queued
    <2>3. OutcomeInv'
      BY <1>0, <2>1, <2>2, OutcomeFrame DEF HostOutcomeInv
    <2>4. recoverable' = {queue'}
      BY <1>2 DEF HostFails
    <2> QED BY <1>0, <2>1, <2>3, <2>4 DEF HostOutcomeInv
  <1> QED BY <1>1, <1>2, HostSteps

(* No host failure, and no ID that comes back with it, gives a job an        *)
(* outcome that is not its payload's; duplicated pushes or not.            *)
THEOREM HostOutcomes == HostSpec => []OutcomeMatchesPayload
  <1>1. HostInit => HostOutcomeInv
    <2> SUFFICES ASSUME HostInit PROVE HostOutcomeInv
      OBVIOUS
    <2>1. Range(<<>>) = {}
      BY DEF Range
    <2> QED BY <2>1, HostTypeInit, OutcomeInit DEF HostInit, HostOutcomeInv
  <1>2. HostOutcomeInv => OutcomeMatchesPayload
    BY DEF HostOutcomeInv, OutcomeInv
  <1> QED BY <1>1, HostOutcomeStep, <1>2, PTL DEF HostSpec

(* Rows stay well formed across host failures too: no row is ever written in  *)
(* part, and a failure empties the memory that holds entities.              *)
THEOREM HostRowsAreWellFormed == HostSpec => []RowsWellFormed
  <1> DEFINE I == FormedInv /\ RecoverableOK
  <1>1. HostInit => I
    BY HostTypeInit, TransitionsForm DEF HostInit, Init, FormedInv, Without
  <1>2. I /\ [HostNext]_hostVars => I'
    <2> SUFFICES ASSUME I, [HostNext]_hostVars PROVE I'
      OBVIOUS
    <2>1. TypeInv' /\ RecoverableOK'
      BY HostTypeStep DEF FormedInv
    <2>2. CASE [Next]_vars
      BY <2>1, <2>2, FormedStep
    <2>3. CASE HostFails
      <3>1. UNCHANGED rows /\ \A w \in Workers : worker'[w].entity = NoRow
        BY <2>3, FailureMoves DEF FormedInv, TypeInv, Without
      <3>2. FormedInv'
        BY <2>1, <3>1, TransitionsForm, FormedMoves
      <3> QED BY <2>1, <3>2
    <2> QED BY <2>2, <2>3, HostSteps
  <1>3. I => RowsWellFormed
    BY DEF FormedInv, Formed, RowsWellFormed
  <1> QED BY <1>1, <1>2, <1>3, PTL DEF HostSpec

(***************************************************************************)
(* Ownership, the retry counter and the lifecycle, without duplicates.     *)
(***************************************************************************)
HostInv ==
    /\ HolderInv
    /\ AttemptsInv
    /\ RecoverableOK
    /\ \A q \in recoverable : IsInjective(q) /\ \A j \in Jobs : j \in Range(q) => Known(j)

LEMMA HostStep ==
    ASSUME MaxDuplicates = 0
    PROVE  HostInv /\ [HostNext]_hostVars => HostInv'
  <1> SUFFICES ASSUME HostInv, [HostNext]_hostVars PROVE HostInv'
    OBVIOUS
  <1>0. TypeInv /\ TypeOK /\ RecoverableOK /\ TypeInv' /\ RecoverableOK'
    BY HostTypeStep DEF HostInv, HolderInv, TypeInv
  <1>1. CASE [Next]_vars
    <2>1. HolderInv' /\ AttemptsInv'
      BY <1>1, HolderStep, AttemptsStep DEF HostInv
    <2>2. recoverable' \subseteq recoverable \cup {queue, queue'}
      BY DEF HostNext, JobsStep, Fsync, HostFails, hostVars, host
    <2>3. \A j \in Jobs : Known(j) => Known(j)'
      BY <1>1, KnownStays DEF HostInv
    <2>4. IsInjective(queue) /\ \A j \in Jobs : j \in Range(queue) => Known(j)
      BY DEF HostInv, HolderInv, OneHolder, HolderKnowsID, Queued
    <2>5. IsInjective(queue') /\ \A j \in Jobs : j \in Range(queue') => Known(j)'
      BY <2>1 DEF HolderInv, OneHolder, HolderKnowsID, Queued
    <2> QED BY <1>0, <2>1, <2>2, <2>3, <2>4, <2>5 DEF HostInv
  <1>2. CASE HostFails
    <2>1. /\ UNCHANGED <<rows, attempts>> /\ queue' \in recoverable /\ held' = NoJob
          /\ \A w \in Workers : worker'[w].pc = "stopped" /\ worker'[w].job = NoJob
          /\ \A j \in Jobs : /\ api'[j] = "idle" => api[j] = "idle"
                             /\ api'[j] \notin {"persist", "publish"}
          /\ recoverable' = {queue'}
      BY <1>0, <1>2, FailureMoves DEF Without, HostFails
    <2>2. IsInjective(queue') /\ \A j \in Jobs : j \in Range(queue') => Known(j)
      BY <2>1 DEF HostInv
    <2>3. \A j \in Jobs : Known(j) => Known(j)'
      BY <2>1 DEF Known
    <2>4. OneHolder'
      BY <2>1, <2>2 DEF OneHolder, Requested
    <2>5. HolderKnowsID'
      BY <2>1, <2>2, <2>3 DEF HolderKnowsID, WorkerKnowsID, ClaimKnowsRow, Queued
    <2>6. RequestKnowsRow'
      BY <2>1 DEF HostInv, HolderInv, RequestKnowsRow
    <2>7. AttemptsInv'
      BY <2>1, CountFrame DEF HostInv
    <2> QED BY <1>0, <2>1, <2>2, <2>3, <2>4, <2>5, <2>6, <2>7 DEF HostInv, HolderInv
  <1> QED BY <1>1, <1>2, HostSteps

LEMMA HostAlways ==
    ASSUME MaxDuplicates = 0
    PROVE  HostSpec => []HostInv
  <1>1. HostInit => HostInv
    <2> SUFFICES ASSUME HostInit PROVE HostInv
      OBVIOUS
    <2>1. Range(<<>>) = {} /\ IsInjective(<<>>)
      BY DEF Range, IsInjective
    <2> QED BY <2>1, HostTypeInit, HolderInit, AttemptsInit DEF HostInit, HostInv
  <1>2. HostInv /\ [HostNext]_hostVars => HostInv'
    BY HostStep
  <1> QED BY <1>1, <1>2, PTL DEF HostSpec

(* IDs that come back with an old list are still in one place only: two     *)
(* goroutines never process the same job, also across host failures.       *)
THEOREM HostMutualExclusion ==
    ASSUME MaxDuplicates = 0
    PROVE  HostSpec => []OneHolder
  <1>1. HostInv => OneHolder
    BY DEF HostInv, HolderInv
  <1> QED BY HostAlways, <1>1, PTL

(* Every ID of every list that may come back names a row, and a worker that *)
(* has claimed a job knows its row.                                        *)
THEOREM HostListsAreStored ==
    ASSUME MaxDuplicates = 0
    PROVE  HostSpec => [](ListedIsStored /\ ClaimedIsKnown)
  <1>1. HostInv => ListedIsStored /\ ClaimedIsKnown
    <2> SUFFICES ASSUME HostInv PROVE ListedIsStored /\ ClaimedIsKnown
      OBVIOUS
    <2>1. ClaimedIsKnown
      BY DEF HostInv, HolderInv, HolderKnowsID, WorkerKnowsID, ClaimedIsKnown
    <2>2. ASSUME NEW q \in recoverable \cup {queue}, NEW j \in Range(q) PROVE rows[j] # NoRow
      <3>1. q \in Seq(Jobs)
        BY DEF HostInv, RecoverableOK, HolderInv, TypeInv, TypeOK
      <3>2. j \in Jobs
        BY <3>1, RangeOfSeq DEF Range
      <3>3. Known(j)
        BY <3>2 DEF HostInv, HolderInv, HolderKnowsID, Queued
      <3> QED BY <3>3 DEF Known, NoRow
    <2> QED BY <2>1, <2>2 DEF ListedIsStored
  <1> QED BY HostAlways, <1>1, PTL

(* A host failure costs no retry and gives none away: the counter is still  *)
(* the number of executions.                                               *)
THEOREM HostRetryCounts ==
    ASSUME MaxDuplicates = 0
    PROVE  HostSpec => []RetryAccounting
  <1>1. HostInv => RetryAccounting
    BY DEF HostInv, AttemptsInv
  <1> QED BY HostAlways, <1>1, PTL

(* Clients see legal transitions only, also across host failures.          *)
THEOREM HostLifecycle ==
    ASSUME MaxDuplicates = 0
    PROVE  HostSpec => ImplementsLifecycle
  <1>1. HostInit => Lifecycle!Init
    BY DEF HostInit, Init, NoRow, Lifecycle!Init
  <1>2. HostInv /\ [HostNext]_hostVars => [Lifecycle!Next]_Lifecycle!vars
    <2> SUFFICES ASSUME HostInv, [HostNext]_hostVars PROVE [Lifecycle!Next]_Lifecycle!vars
      OBVIOUS
    <2>1. CASE [Next]_vars
      BY <2>1, LifecycleStep DEF HostInv
    <2>2. CASE HostFails
      BY <2>2 DEF HostFails, Lifecycle!vars
    <2> QED BY <2>1, <2>2, HostSteps
  <1> QED BY HostAlways, <1>1, <1>2, PTL DEF HostSpec, ImplementsLifecycle, Lifecycle!Spec

=============================================================================
