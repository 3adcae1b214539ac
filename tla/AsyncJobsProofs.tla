-------------------------- MODULE AsyncJobsProofs --------------------------
(***************************************************************************)
(* Theorems about AsyncJobs, for every set of jobs and workers, every      *)
(* retry limit and every value of the bounds.                              *)
(***************************************************************************)
EXTENDS AsyncJobs, SequenceTheorems, TLAPS

(* The transitions of the entity stay within its type, for every retry      *)
(* limit.                                                                  *)
LEMMA EntityTypes ==
    /\ NoRow \in Entity
    /\ New \in Entity
    /\ \A e \in Entity : /\ MarkProcessing(e) \in Entity
                         /\ MarkSuccess(e) \in Entity
                         /\ RecordFailure(e) \in Entity
  <1> 0 \in 0..MaxRetries
    BY MaxRetriesAssumption
  <1>1. NoRow \in Entity
    BY DEF NoRow, Entity
  <1>5. New \in Entity
    BY DEF New, NoRow, Entity, Status
  <1>2. ASSUME NEW e \in Entity PROVE MarkProcessing(e) \in Entity
    BY DEF MarkProcessing, Entity, Status
  <1>3. ASSUME NEW e \in Entity PROVE MarkSuccess(e) \in Entity
    BY DEF MarkSuccess, Entity, Status
  <1>4. ASSUME NEW e \in Entity PROVE RecordFailure(e) \in Entity
    <2>1. e.retryCount \in 0..MaxRetries
      BY DEF Entity
    <2>2. CanRetry(e) => e.retryCount + 1 \in 0..MaxRetries
      BY <2>1, MaxRetriesAssumption DEF CanRetry
    <2> QED BY <2>1, <2>2 DEF RecordFailure, Entity, Status
  <1> QED BY <1>1, <1>2, <1>3, <1>4, <1>5

WorkerState == [pc : WorkerPC, job : Jobs \cup {NoJob}, entity : Entity]

(* A goroutine without a job is well typed wherever it is.                 *)
LEMMA WithoutType ==
    \A pc \in WorkerPC : Without(pc) \in WorkerState
  BY EntityTypes DEF Without, WorkerState

LEMMA GotoType ==
    ASSUME TypeOK, NEW w \in Workers, NEW pc \in WorkerPC, NEW e \in Entity, Goto(w, pc, e)
    PROVE  worker' \in [Workers -> WorkerState]
  BY DEF TypeOK, Goto, WorkerState

LEMMA ReturnType ==
    ASSUME TypeOK, NEW w \in Workers, Return(w)
    PROVE  worker' \in [Workers -> WorkerState]
  BY WithoutType DEF TypeOK, Return, WorkerState, WorkerPC

LEMMA StoreType ==
    ASSUME TypeOK, NEW j \in Jobs, NEW e \in Entity, StoreFails(j, e)
    PROVE  rows' \in [Jobs -> Entity]
  BY DEF TypeOK, StoreFails, Store

LEMMA LPushType ==
    ASSUME TypeOK, NEW j \in Jobs, LPushFails(j)
    PROVE  queue' \in Seq(Jobs) /\ duplicates' \in Nat
  <1>1. queue \in Seq(Jobs) /\ duplicates \in Nat
    BY DEF TypeOK
  <1>2. Append(queue, j) \in Seq(Jobs) /\ Append(Append(queue, j), j) \in Seq(Jobs)
    BY <1>1, AppendProperties
  <1> QED BY <1>1, <1>2 DEF LPushFails, LPush, PushTwice

(***************************************************************************)
(* Type correctness.  TypeOK is inductive together with Shape: a worker    *)
(* that calls MySQL holds a job, so the row it loads exists in rows.       *)
(***************************************************************************)

(* One step of a worker keeps types and shape when it only moves worker w,  *)
(* and w holds a job exactly at its busy program counters.                 *)
LEMMA GotoShape ==
    ASSUME TypeInv, NEW w \in Workers, NEW pc \in BusyPC, NEW e \in Entity, Goto(w, pc, e),
           worker[w].pc \in BusyPC, UNCHANGED <<process, dispatcher, held>>
    PROVE  Shape'
  BY DEF TypeInv, TypeOK, Shape, Goto, process

LEMMA ReturnShape ==
    ASSUME TypeInv, NEW w \in Workers, Return(w), UNCHANGED <<process, dispatcher, held>>
    PROVE  Shape'
  BY DEF TypeInv, TypeOK, Shape, Return, Without, BusyPC, process

(* A worker that is busy holds a job.                                      *)
LEMMA BusyJob ==
    ASSUME TypeInv, NEW w \in Workers, worker[w].pc \in BusyPC
    PROVE  worker[w].job \in Jobs /\ worker[w].entity \in Entity
  BY DEF TypeInv, TypeOK, Shape

(* Initially the types and the shape hold.                                 *)
LEMMA TypeInit == Init => TypeInv
  <1> SUFFICES ASSUME Init PROVE TypeInv
    OBVIOUS
  <1>1. TypeOK
    BY EntityTypes, WithoutType, EmptySeq
    DEF Init, TypeOK, ApiPC, DispatcherPC, WorkerPC, WorkerState
  <1>2. Shape
    BY DEF Init, Shape, Without, BusyPC
  <1> QED BY <1>1, <1>2 DEF TypeInv

(* Every step preserves the types and the shape.                           *)
LEMMA TypeStep == TypeInv /\ [Next]_vars => TypeInv'
  <1> SUFFICES ASSUME TypeInv, [Next]_vars PROVE TypeInv'
    OBVIOUS
  <1> USE DEF vars, request, memory, process, budget, limits
  <1>1. ASSUME NEW j \in Jobs, Submit(j) PROVE TypeInv'
    BY <1>1 DEF TypeInv, TypeOK, Shape, Submit, PayloadSuitsType, ApiPC
  <1>2. ASSUME NEW j \in Jobs, Persist(j) PROVE TypeInv'
    <2>1. StoreFails(j, New)
      BY <1>2 DEF Persist, Insert, StoreFails
    <2>2. rows' \in [Jobs -> Entity]
      BY <2>1, StoreType, EntityTypes DEF TypeInv
    <2>3. api' \in [Jobs -> ApiPC] /\ faults' \in Nat
      BY <1>2 DEF TypeInv, TypeOK, Persist, Fault, ApiPC
    <2> QED BY <1>2, <2>2, <2>3 DEF TypeInv, TypeOK, Shape, Persist
  <1>3. ASSUME NEW j \in Jobs, Publish(j) PROVE TypeInv'
    <2>1. LPushFails(j)
      BY <1>3 DEF Publish, LPushFails
    <2>2. queue' \in Seq(Jobs) /\ duplicates' \in Nat
      BY <2>1, LPushType DEF TypeInv
    <2>3. api' \in [Jobs -> ApiPC]
      BY <1>3 DEF TypeInv, TypeOK, Publish, ApiPC
    <2>4. faults' \in Nat
      BY <1>3 DEF TypeInv, TypeOK, Publish, Fault
    <2> QED BY <1>3, <2>2, <2>3, <2>4 DEF TypeInv, TypeOK, Shape, Publish
  <1>4. ASSUME NEW j \in Jobs, RequestLost(j) PROVE TypeInv'
    BY <1>4 DEF TypeInv, TypeOK, Shape, RequestLost, ApiPC
  <1>5. CASE Dequeue
    <2>1. queue' \in Seq(Jobs) /\ held' \in Jobs
      BY <1>5, HeadTailProperties DEF TypeInv, TypeOK, Dequeue
    <2> QED BY <1>5, <2>1, JobsAssumption
            DEF TypeInv, TypeOK, Shape, Dequeue, DispatcherPC
  <1>6. CASE DequeueCancelled
    BY <1>6 DEF TypeInv, TypeOK, Shape, DequeueCancelled, DispatcherPC
  <1>7. CASE DequeueFault
    <2>1. queue' \in Seq(Jobs)
      <3>1. queue \in Seq(Jobs) /\ (queue # <<>> => Tail(queue) \in Seq(Jobs))
        BY HeadTailProperties DEF TypeInv, TypeOK
      <3> QED BY <1>7, <3>1 DEF DequeueFault
    <2> QED BY <1>7, <2>1
            DEF TypeInv, TypeOK, Shape, DequeueFault, Fault, DispatcherPC
  <1>8. CASE Backoff
    BY <1>8 DEF TypeInv, TypeOK, Shape, Backoff, Loop, DispatcherPC
  <1>9. CASE AbandonSend
    BY <1>9 DEF TypeInv, TypeOK, Shape, AbandonSend, DispatcherPC
  <1>10. ASSUME NEW w \in Workers, Handoff(w) PROVE TypeInv'
    <2>1. held \in Jobs /\ NoRow \in Entity
      BY <1>10, EntityTypes DEF TypeInv, TypeOK, Shape, Handoff
    <2>2. worker' \in [Workers -> WorkerState]
      BY <1>10, <2>1 DEF TypeInv, TypeOK, Handoff, WorkerState, WorkerPC
    <2>3. Shape'
      BY <1>10, <2>1, JobsAssumption
      DEF TypeInv, TypeOK, Shape, Handoff, Loop, BusyPC, WorkerPC
    <2> QED BY <1>10, <2>2, <2>3
            DEF TypeInv, TypeOK, Handoff, Loop, DispatcherPC, WorkerState
  <1>11. ASSUME NEW w \in Workers, WorkerStops(w) PROVE TypeInv'
    <2>1. worker' \in [Workers -> WorkerState]
      BY <1>11, WithoutType DEF TypeInv, TypeOK, WorkerStops, WorkerState, WorkerPC
    <2>2. Shape'
      BY <1>11 DEF TypeInv, TypeOK, Shape, WorkerStops, Without, BusyPC
    <2> QED BY <1>11, <2>1, <2>2 DEF TypeInv, TypeOK, WorkerStops, WorkerState
  <1>12. ASSUME NEW w \in Workers, Load(w) PROVE TypeInv'
    <2>1. worker[w].pc \in BusyPC
      BY <1>12 DEF Load, BusyPC, WorkerPC
    <2>2. MarkProcessing(rows[worker[w].job]) \in Entity
      BY <2>1, BusyJob, EntityTypes DEF TypeInv, TypeOK
    <2>3. \/ Goto(w, "claim", MarkProcessing(rows[worker[w].job]))
          \/ Return(w)
      BY <1>12 DEF Load
    <2>4. worker' \in [Workers -> WorkerState]
      BY <2>2, <2>3, GotoType, ReturnType DEF TypeInv, WorkerPC
    <2>5. Shape'
      BY <1>12, <2>1, <2>2, <2>3, GotoShape, ReturnShape DEF Load, BusyPC, WorkerPC
    <2>6. faults' \in Nat
      BY <1>12 DEF TypeInv, TypeOK, Load, CallSucceeds, CallFaults, CallRejected, Fault
    <2> QED BY <1>12, <2>4, <2>5, <2>6 DEF TypeInv, TypeOK, Load, WorkerState
  <1>13. ASSUME NEW w \in Workers, Claim(w) PROVE TypeInv'
    <2> DEFINE j == worker[w].job
               e == worker[w].entity
    <2>1. worker[w].pc \in BusyPC /\ j \in Jobs /\ e \in Entity
      BY <1>13, BusyJob DEF Claim, BusyPC, WorkerPC
    <2>2. Goto(w, "execute", e) \/ Return(w)
      BY <1>13 DEF Claim
    <2>3. worker' \in [Workers -> WorkerState]
      BY <2>1, <2>2, GotoType, ReturnType DEF TypeInv, WorkerPC
    <2>4. Shape'
      BY <1>13, <2>1, <2>2, GotoShape, ReturnShape DEF Claim, BusyPC, WorkerPC
    <2>5. StoreFails(j, e)
      BY <1>13 DEF Claim, StoreFails
    <2>6. rows' \in [Jobs -> Entity]
      BY <2>1, <2>5, StoreType DEF TypeInv
    <2>7. attempts' \in [Jobs -> Nat] /\ faults' \in Nat
      BY <1>13, <2>1
      DEF TypeInv, TypeOK, Claim, CallSucceeds, CallFaults, CallRejected, Fault
    <2> QED BY <1>13, <2>3, <2>4, <2>6, <2>7 DEF TypeInv, TypeOK, Claim, WorkerState
  <1>14. ASSUME NEW w \in Workers, Execute(w) PROVE TypeInv'
    <2> DEFINE e == worker[w].entity
    <2>1. worker[w].pc \in BusyPC
      BY <1>14 DEF Execute, BusyPC, WorkerPC
    <2>2. MarkSuccess(e) \in Entity /\ RecordFailure(e) \in Entity
      BY <2>1, BusyJob, EntityTypes
    <2>3. \/ Goto(w, "complete", MarkSuccess(e))
          \/ Goto(w, "record", RecordFailure(e))
          \/ Return(w)
      BY <1>14 DEF Execute
    <2>4. worker' \in [Workers -> WorkerState]
      BY <2>2, <2>3, GotoType, ReturnType DEF TypeInv, WorkerPC
    <2>5. Shape'
      BY <1>14, <2>1, <2>2, <2>3, GotoShape, ReturnShape DEF Execute, BusyPC, WorkerPC
    <2>6. faults' \in Nat
      BY <1>14 DEF TypeInv, TypeOK, Execute, ClockBehind, Fault
    <2> QED BY <1>14, <2>4, <2>5, <2>6 DEF TypeInv, TypeOK, Execute, WorkerState
  <1>15. ASSUME NEW w \in Workers, PersistSuccess(w) PROVE TypeInv'
    <2>1. /\ worker[w].pc \in BusyPC
          /\ worker[w].job \in Jobs /\ worker[w].entity \in Entity
      BY <1>15, BusyJob DEF PersistSuccess, BusyPC, WorkerPC
    <2>2. worker' \in [Workers -> WorkerState] /\ Shape'
      BY <1>15, ReturnType, ReturnShape DEF TypeInv, PersistSuccess
    <2>3. StoreFails(worker[w].job, worker[w].entity)
      BY <1>15 DEF PersistSuccess, StoreFails
    <2>4. rows' \in [Jobs -> Entity]
      BY <2>1, <2>3, StoreType DEF TypeInv
    <2>5. faults' \in Nat
      BY <1>15
      DEF TypeInv, TypeOK, PersistSuccess, CallSucceeds, CallFaults, CallRejected, Fault
    <2> QED BY <1>15, <2>2, <2>4, <2>5 DEF TypeInv, TypeOK, PersistSuccess, WorkerState
  <1>16. ASSUME NEW w \in Workers, PersistFailure(w) PROVE TypeInv'
    <2> DEFINE j == worker[w].job
               e == worker[w].entity
    <2>1. worker[w].pc \in BusyPC /\ j \in Jobs /\ e \in Entity
      BY <1>16, BusyJob DEF PersistFailure, BusyPC, WorkerPC
    <2>2. Goto(w, "requeue", e) \/ Return(w)
      BY <1>16 DEF PersistFailure
    <2>3. worker' \in [Workers -> WorkerState]
      BY <2>1, <2>2, GotoType, ReturnType DEF TypeInv, WorkerPC
    <2>4. Shape'
      BY <1>16, <2>1, <2>2, GotoShape, ReturnShape DEF PersistFailure, BusyPC, WorkerPC
    <2>5. StoreFails(j, e)
      BY <1>16 DEF PersistFailure, StoreFails
    <2>6. rows' \in [Jobs -> Entity]
      BY <2>1, <2>5, StoreType DEF TypeInv
    <2>7. faults' \in Nat
      BY <1>16
      DEF TypeInv, TypeOK, PersistFailure, CallSucceeds, CallFaults, CallRejected, Fault
    <2> QED BY <1>16, <2>3, <2>4, <2>6, <2>7 DEF TypeInv, TypeOK, PersistFailure, WorkerState
  <1>17. ASSUME NEW w \in Workers, Requeue(w) PROVE TypeInv'
    <2>1. worker[w].pc \in BusyPC /\ worker[w].job \in Jobs
      BY <1>17, BusyJob DEF Requeue, BusyPC, WorkerPC
    <2>2. worker' \in [Workers -> WorkerState] /\ Shape'
      BY <1>17, ReturnType, ReturnShape DEF TypeInv, Requeue
    <2>3. LPushFails(worker[w].job)
      BY <1>17 DEF Requeue, LPushFails
    <2>4. queue' \in Seq(Jobs) /\ duplicates' \in Nat
      BY <2>1, <2>3, LPushType DEF TypeInv
    <2>5. faults' \in Nat
      BY <1>17 DEF TypeInv, TypeOK, Requeue, CallSucceeds, CallFaults, CallRejected, Fault
    <2> QED BY <1>17, <2>2, <2>4, <2>5 DEF TypeInv, TypeOK, Requeue, WorkerState
  <1>18. CASE Start
    <2>1. worker' \in [Workers -> WorkerState]
      BY <1>18, WithoutType DEF Start, WorkerPC
    <2>2. Shape'
      BY <1>18 DEF TypeInv, Shape, Start, Without, BusyPC
    <2> QED BY <1>18, <2>1, <2>2 DEF TypeInv, TypeOK, Start, WorkerState, DispatcherPC
  <1>19. CASE Signal
    BY <1>19 DEF TypeInv, TypeOK, Shape, Signal
  <1>20. ASSUME Down PROVE worker' \in [Workers -> WorkerState] /\ Shape'
    <2>1. worker' \in [Workers -> WorkerState]
      BY <1>20, WithoutType DEF Down, WorkerPC
    <2> QED BY <1>20, <2>1 DEF Shape, Down, Without, BusyPC
  <1>21. CASE Exit
    <2>1. worker' \in [Workers -> WorkerState] /\ Shape'
      BY <1>20, <1>21 DEF Exit
    <2> QED BY <1>21, <2>1 DEF TypeInv, TypeOK, Exit, Down, WorkerState, DispatcherPC
  <1>22. CASE Crash
    <2>1. worker' \in [Workers -> WorkerState] /\ Shape'
      BY <1>20, <1>22 DEF Crash
    <2>2. crashes' \in Nat
      BY <1>22 DEF TypeInv, TypeOK, Crash
    <2> QED BY <1>22, <2>1, <2>2 DEF TypeInv, TypeOK, Crash, Down, WorkerState, DispatcherPC
  <1>23. CASE UNCHANGED vars
    BY <1>23 DEF TypeInv, TypeOK, Shape
  <1> QED
    BY <1>1, <1>2, <1>3, <1>4, <1>5, <1>6, <1>7, <1>8, <1>9, <1>10, <1>11, <1>12,
       <1>13, <1>14, <1>15, <1>16, <1>17, <1>18, <1>19, <1>21, <1>22, <1>23
    DEF Next, RequestStep, DispatcherStep, DispatcherRuns, WorkerStep

(* Type correctness: every variable keeps its type, and no entity or row    *)
(* ever counts more than MaxRetries retries.                               *)
THEOREM TypeCorrect == Spec => []TypeOK
  <1>1. TypeInv => TypeOK
    BY DEF TypeInv
  <1> QED BY TypeInit, TypeStep, <1>1, PTL DEF Spec

(***************************************************************************)
(* Mutual exclusion on jobs, and agreement of holders with the table.      *)
(* HolderInv is inductive when no push is duplicated: the ID of a job is a *)
(* token that exists once, and only who holds the token writes the row.    *)
(***************************************************************************)

(* What LPUSH does to the list.                                            *)
LEMMA AppendFacts ==
    ASSUME NEW q \in Seq(Jobs), NEW j \in Jobs
    PROVE  /\ Range(Append(q, j)) = Range(q) \cup {j}
           /\ IsInjective(q) /\ j \notin Range(q) => IsInjective(Append(q, j))
  <1>1. /\ DOMAIN q = 1..Len(q) /\ Len(q) \in Nat
        /\ DOMAIN Append(q, j) = 1..(Len(q) + 1)
        /\ \A i \in 1..Len(q) : Append(q, j)[i] = q[i]
        /\ Append(q, j)[Len(q) + 1] = j
    BY AppendProperties, LenProperties
  <1> QED BY <1>1 DEF Range, IsInjective

(* What BRPOP does to the list.                                            *)
LEMMA TailFacts ==
    ASSUME NEW q \in Seq(Jobs), q # <<>>
    PROVE  /\ Head(q) \in Range(q)
           /\ Range(Tail(q)) \subseteq Range(q)
           /\ IsInjective(q) => IsInjective(Tail(q)) /\ Head(q) \notin Range(Tail(q))
  <1>1. /\ DOMAIN q = 1..Len(q) /\ Len(q) \in Nat \ {0}
        /\ DOMAIN Tail(q) = 1..(Len(q) - 1)
        /\ \A i \in 1..(Len(q) - 1) : Tail(q)[i] = q[i + 1]
        /\ Head(q) = q[1]
    BY HeadTailProperties, LenProperties, EmptySeq
  <1> QED BY <1>1 DEF Range, IsInjective

(* A worker that moves on with its job, or lets it go, and writes at most   *)
(* the row of that job, keeps the invariant if it still knows that row.    *)
LEMMA WorkerMoves ==
    ASSUME HolderInv, TypeInv',
           NEW w \in Workers, worker[w].pc \in BusyPC,
           NEW pc \in BusyPC, NEW e \in Entity,
           NEW f, StoreFails(worker[w].job, f),
           UNCHANGED <<queue, api, dispatcher, held>>,
           Return(w) \/ (Goto(w, pc, e) /\ WorkerKnowsID(w)')
    PROVE  HolderInv'
  <1> DEFINE j == worker[w].job
  <1>1. j \in Jobs /\ j # NoJob
    BY BusyJob, JobsAssumption DEF HolderInv
  <1>2. /\ \A v \in Workers : v # w => worker'[v] = worker[v] /\ worker[v].job # j
        /\ worker'[w].job \in {j, NoJob}
    BY <1>1 DEF HolderInv, OneHolder, TypeInv, TypeOK, Return, Goto, Without
  <1>3. /\ rows' \in [Jobs -> Entity] /\ rows \in [Jobs -> Entity]
        /\ \A k \in Jobs : k # j => rows'[k] = rows[k]
    BY DEF HolderInv, TypeInv, TypeOK, StoreFails, Store
  <1>4. OneHolder'
    BY <1>1, <1>2 DEF HolderInv, OneHolder, Queued, Requested
  <1>5. ASSUME NEW v \in Workers PROVE WorkerKnowsID(v)'
    <2>1. CASE v # w
      <3>1. worker[v].job # NoJob => worker[v].job \in Jobs
        BY DEF HolderInv, TypeInv, TypeOK
      <3>2. worker[v].job # NoJob => rows'[worker[v].job] = rows[worker[v].job]
        BY <1>2, <1>3, <2>1, <3>1
      <3>3. worker[v].job = NoJob => worker[v].pc \in {"receive", "stopped"}
        BY DEF HolderInv, TypeInv, TypeOK, Shape, BusyPC
      <3>4. WorkerKnowsID(v)
        BY DEF HolderInv, HolderKnowsID, Known
      <3> QED BY <1>2, <2>1, <3>2, <3>3, <3>4 DEF WorkerKnowsID, ClaimKnowsRow, Known
    <2>2. CASE v = w /\ Return(w)
      <3>1. worker'[w].pc \in {"receive", "stopped"}
        BY <2>2 DEF HolderInv, TypeInv, TypeOK, Return, Without
      <3> QED BY <2>2, <3>1 DEF WorkerKnowsID, ClaimKnowsRow, Known
    <2> QED BY <2>1, <2>2
  <1>6. HolderKnowsID'
    <2>1. \A k \in Jobs : Queued(k) => k # j
      BY <1>1 DEF HolderInv, OneHolder
    <2>2. held # NoJob => held # j /\ held \in Jobs
      BY <1>1 DEF HolderInv, OneHolder, TypeInv, TypeOK
    <2> QED BY <1>3, <1>5, <2>1, <2>2 DEF HolderInv, HolderKnowsID, Known, Queued
  <1>7. RequestKnowsRow'
    <2>1. ~Requested(j)
      BY <1>1 DEF HolderInv, OneHolder
    <2>2. rows[j].status # "none"
      BY DEF HolderInv, HolderKnowsID, Known, WorkerKnowsID, ClaimKnowsRow, BusyPC, WorkerPC
    <2>3. api[j] \notin {"idle", "persist", "publish"}
      BY <1>1, <2>1, <2>2 DEF HolderInv, RequestKnowsRow, Requested, NoRow
    <2> QED BY <1>3, <2>3 DEF HolderInv, RequestKnowsRow
  <1> QED BY <1>4, <1>6, <1>7 DEF HolderInv

(* Without duplication LPUSH adds the ID once.                             *)
LEMMA LPushOnce ==
    ASSUME MaxDuplicates = 0, TypeOK, NEW j \in Jobs, LPush(j)
    PROVE  queue' = Append(queue, j)
  BY DEF TypeOK, LPush, PushTwice

(* A step that leaves the table, the list and the requests alone and in    *)
(* which IDs only disappear from memory keeps the invariant.               *)
LEMMA HoldersOnlyLeave ==
    ASSUME HolderInv, TypeInv', UNCHANGED <<rows, queue, api>>,
           held' \in {held, NoJob},
           \A w \in Workers : worker'[w] = worker[w] \/ worker'[w].job = NoJob
    PROVE  HolderInv'
  <1>1. OneHolder'
    BY DEF HolderInv, OneHolder, Queued, Requested
  <1>2. ASSUME NEW w \in Workers PROVE WorkerKnowsID(w)'
    <2>1. CASE worker'[w] = worker[w]
      BY <2>1 DEF HolderInv, HolderKnowsID, Known, WorkerKnowsID, ClaimKnowsRow
    <2>2. CASE worker'[w].job = NoJob
      <3>1. worker'[w].pc \in {"receive", "stopped"}
        BY <2>2 DEF TypeInv, TypeOK, Shape, BusyPC
      <3> QED BY <3>1 DEF WorkerKnowsID, ClaimKnowsRow, Known
    <2> QED BY <2>1, <2>2
  <1>3. HolderKnowsID'
    BY <1>2 DEF HolderInv, HolderKnowsID, Known, Queued
  <1>4. RequestKnowsRow'
    BY DEF HolderInv, RequestKnowsRow
  <1> QED BY <1>1, <1>3, <1>4 DEF HolderInv

(* A job that no goroutine handles may have its row written by its request. *)
LEMMA RequestMoves ==
    ASSUME HolderInv, TypeInv', NEW j \in Jobs, Requested(j),
           StoreFails(j, New),
           UNCHANGED <<queue, held, worker>>,
           \A k \in Jobs : k # j => api'[k] = api[k],
           \/ api'[j] = "publish" /\ rows'[j] = New
           \/ api'[j] \in {"accepted", "failed"}
    PROVE  HolderInv'
  <1>1. /\ ~Queued(j) /\ held # j
        /\ \A w \in Workers : worker[w].job # j
    BY JobsAssumption DEF HolderInv, OneHolder
  <1>2. /\ rows' \in [Jobs -> Entity] /\ rows \in [Jobs -> Entity]
        /\ \A k \in Jobs : k # j => rows'[k] = rows[k]
    BY DEF HolderInv, TypeInv, TypeOK, StoreFails, Store
  <1>3. OneHolder'
    BY <1>1, JobsAssumption DEF HolderInv, OneHolder, Queued, Requested, TypeInv, TypeOK
  <1>4. ASSUME NEW w \in Workers PROVE WorkerKnowsID(w)'
    <2>1. worker[w].pc \in BusyPC => worker[w].job \in Jobs \ {j}
      BY <1>1 DEF HolderInv, TypeInv, TypeOK, Shape
    <2>2. worker[w].pc \in BusyPC => rows'[worker[w].job] = rows[worker[w].job]
      BY <1>2, <2>1
    <2>3. WorkerKnowsID(w)
      BY DEF HolderInv, HolderKnowsID, Known
    <2> QED BY <2>2, <2>3 DEF WorkerKnowsID, ClaimKnowsRow, Known, BusyPC, WorkerPC
  <1>5. HolderKnowsID'
    <2>1. held # NoJob => held \in Jobs \ {j}
      BY <1>1 DEF HolderInv, TypeInv, TypeOK
    <2> QED BY <1>1, <1>2, <1>4, <2>1 DEF HolderInv, HolderKnowsID, Known, Queued
  <1>6. RequestKnowsRow'
    BY <1>2 DEF HolderInv, RequestKnowsRow, New, NoRow
  <1> QED BY <1>3, <1>5, <1>6 DEF HolderInv

(* An ID may enter the list if nobody else holds it and it names a row.     *)
LEMMA Pushes ==
    ASSUME HolderInv, TypeInv', NEW j \in Jobs,
           queue' = Append(queue, j) \/ queue' = queue,
           ~Queued(j), Known(j), held # j,
           UNCHANGED <<rows, held>>,
           \A k \in Jobs : k # j => api'[k] = api[k],
           api'[j] \notin {"idle", "persist", "publish"},
           \A w \in Workers : /\ worker'[w] = worker[w] \/ worker'[w].job = NoJob
                              /\ worker'[w].job # j
    PROVE  HolderInv'
  <1>1. queue \in Seq(Jobs)
    BY DEF HolderInv, TypeInv, TypeOK
  <1>2. /\ Range(queue') \subseteq Range(queue) \cup {j}
        /\ IsInjective(queue')
    BY <1>1, AppendFacts DEF HolderInv, OneHolder, Queued
  <1> DEFINE Elsewhere(k) == k \notin Range(queue') /\ api'[k] \notin {"persist", "publish"}
  <1>7. ASSUME NEW k \in Jobs, k # j, ~Queued(k), ~Requested(k) PROVE Elsewhere(k)
    <2>1. api'[k] = api[k]
      BY <1>7
    <2> QED BY <1>2, <1>7, <2>1 DEF Queued, Requested
  <1>3. OneHolder'
    <2>1. \A v, w \in Workers :
              worker'[v].job = worker'[w].job => v = w \/ worker'[w].job = NoJob
      BY DEF HolderInv, OneHolder
    <2>2. ASSUME NEW w \in Workers, worker'[w].job # NoJob
          PROVE  held' # worker'[w].job /\ Elsewhere(worker'[w].job)
      <3>1. worker'[w] = worker[w] /\ worker[w].job \in Jobs \ {j}
        BY <2>2 DEF HolderInv, TypeInv, TypeOK
      <3>2. LET k == worker[w].job IN ~Queued(k) /\ held # k /\ ~Requested(k)
        BY <2>2, <3>1, JobsAssumption DEF HolderInv, OneHolder
      <3> QED BY <1>7, <3>1, <3>2
    <2>3. held' # NoJob => Elsewhere(held')
      <3>1. held # NoJob => held \in Jobs \ {j}
        BY DEF HolderInv, TypeInv, TypeOK
      <3>2. held # NoJob => ~Queued(held) /\ ~Requested(held)
        BY DEF HolderInv, OneHolder
      <3> QED BY <1>7, <3>1, <3>2
    <2>4. ASSUME NEW k \in Jobs, api'[k] \in {"persist", "publish"}
          PROVE  k \notin Range(queue')
      <3>1. k # j /\ api'[k] = api[k]
        BY <2>4
      <3>2. ~Queued(k)
        BY <2>4, <3>1 DEF HolderInv, OneHolder, Requested
      <3> QED BY <1>2, <3>1, <3>2 DEF Queued
    <2> QED BY <1>2, <2>1, <2>2, <2>3, <2>4 DEF OneHolder, Queued, Requested
  <1>4. ASSUME NEW w \in Workers PROVE WorkerKnowsID(w)'
    <2>1. CASE worker'[w] = worker[w]
      BY <2>1 DEF HolderInv, HolderKnowsID, Known, WorkerKnowsID, ClaimKnowsRow
    <2>2. CASE worker'[w].job = NoJob
      <3>1. worker'[w].pc \in {"receive", "stopped"}
        BY <2>2 DEF TypeInv, TypeOK, Shape, BusyPC
      <3> QED BY <3>1 DEF WorkerKnowsID, ClaimKnowsRow, Known
    <2> QED BY <2>1, <2>2
  <1>5. HolderKnowsID'
    BY <1>2, <1>4 DEF HolderInv, HolderKnowsID, Known, Queued
  <1>6. RequestKnowsRow'
    BY DEF HolderInv, RequestKnowsRow
  <1> QED BY <1>3, <1>5, <1>6 DEF HolderInv

(* Initially there is no ID anywhere.                                      *)
LEMMA HolderInit == Init => HolderInv
  <1> SUFFICES ASSUME Init PROVE HolderInv
    OBVIOUS
  <1>1. TypeInv
    BY TypeInit
  <1>2. Range(queue) = {} /\ IsInjective(queue)
    BY DEF Init, Range, IsInjective
  <1>3. \A w \in Workers : worker[w].job = NoJob /\ worker[w].pc = "stopped"
    BY DEF Init, Without
  <1>4. OneHolder
    BY <1>2, <1>3 DEF Init, OneHolder, Queued
  <1>5. HolderKnowsID
    BY <1>2, <1>3 DEF Init, HolderKnowsID, Known, WorkerKnowsID, ClaimKnowsRow, Queued
  <1>6. RequestKnowsRow
    BY DEF Init, RequestKnowsRow
  <1> QED BY <1>1, <1>4, <1>5, <1>6 DEF HolderInv

(* Every step preserves the invariant: requests, dispatcher and workers     *)
(* pass the ID on, faults and crashes only drop it.                        *)
LEMMA HolderStep ==
    ASSUME MaxDuplicates = 0
    PROVE  HolderInv /\ [Next]_vars => HolderInv'
  <1> SUFFICES ASSUME HolderInv, [Next]_vars PROVE HolderInv'
    OBVIOUS
  <1> USE DEF vars, request, memory, process, budget, limits
  <1>0. TypeInv /\ TypeOK /\ TypeInv'
    BY TypeStep DEF HolderInv, TypeInv
  <1>1. ASSUME NEW j \in Jobs, Submit(j) PROVE HolderInv'
    <2>1. rows[j].status = "none"
      BY <1>1 DEF HolderInv, RequestKnowsRow, Submit, NoRow
    <2>2. ~Queued(j) /\ held # j
      BY <2>1, JobsAssumption DEF HolderInv, HolderKnowsID, Known
    <2>3. ASSUME NEW w \in Workers PROVE worker[w].job # j
      <3>1. worker[w].job = j => worker[w].pc \in BusyPC
        BY <1>0, JobsAssumption DEF TypeInv, Shape
      <3> QED BY <2>1, <3>1
           DEF HolderInv, HolderKnowsID, Known, WorkerKnowsID, ClaimKnowsRow, BusyPC, WorkerPC
    <2>4. /\ api' = [api EXCEPT ![j] = "persist"] /\ api \in [Jobs -> ApiPC]
          /\ UNCHANGED <<rows, queue, held, worker>>
      BY <1>0, <1>1 DEF Submit, PayloadSuitsType, TypeOK
    <2>5. OneHolder'
      BY <2>2, <2>3, <2>4 DEF HolderInv, OneHolder, Queued, Requested
    <2>6. HolderKnowsID'
      BY <2>4 DEF HolderInv, HolderKnowsID, Known, WorkerKnowsID, ClaimKnowsRow, Queued
    <2>7. RequestKnowsRow'
      BY <1>1, <2>4 DEF HolderInv, RequestKnowsRow, Submit
    <2> QED BY <1>0, <2>5, <2>6, <2>7 DEF HolderInv
  <1>2. ASSUME NEW j \in Jobs, Persist(j) PROVE HolderInv'
    <2>1. Requested(j) /\ UNCHANGED <<queue, held, worker>>
      BY <1>2 DEF Persist, Requested
    <2>2. StoreFails(j, New)
      BY <1>2 DEF Persist, Insert, StoreFails
    <2>3. /\ \A k \in Jobs : k # j => api'[k] = api[k]
          /\ \/ api'[j] = "publish" /\ Store(j, New)
             \/ api'[j] = "failed"
      BY <1>0, <1>2 DEF Persist, Insert, TypeOK
    <2>4. Store(j, New) => rows'[j] = New
      BY <1>0 DEF Store, TypeOK
    <2> QED BY <1>0, <2>1, <2>2, <2>3, <2>4, RequestMoves
  <1>3. ASSUME NEW j \in Jobs, Publish(j) PROVE HolderInv'
    <2>1. Requested(j) /\ api[j] = "publish" /\ UNCHANGED <<rows, held, worker>>
      BY <1>3 DEF Publish, Requested
    <2>2. ~Queued(j) /\ held # j /\ \A w \in Workers : worker[w].job # j
      BY <2>1, JobsAssumption DEF HolderInv, OneHolder
    <2>3. rows[j].status = "pending"
      BY <2>1 DEF HolderInv, RequestKnowsRow
    <2>4. queue' = Append(queue, j) \/ queue' = queue
      BY <1>0, <1>3, LPushOnce DEF Publish, LPushFails
    <2>5. /\ \A k \in Jobs : k # j => api'[k] = api[k]
          /\ api'[j] \in {"accepted", "failed"}
      BY <1>0, <1>3 DEF Publish, TypeOK
    <2> QED BY <1>0, <2>1, <2>2, <2>3, <2>4, <2>5, Pushes DEF Known
  <1>4. ASSUME NEW j \in Jobs, RequestLost(j) PROVE HolderInv'
    <2>1. Requested(j) /\ StoreFails(j, New) /\ UNCHANGED <<queue, held, worker>>
      BY <1>4 DEF RequestLost, Requested, StoreFails
    <2>2. (\A k \in Jobs : k # j => api'[k] = api[k]) /\ api'[j] = "failed"
      BY <1>0, <1>4 DEF RequestLost, TypeOK
    <2> QED BY <1>0, <2>1, <2>2, RequestMoves
  <1>5. CASE Dequeue
    <2> DEFINE j == Head(queue)
    <2>1. /\ queue \in Seq(Jobs) /\ queue # <<>> /\ held = NoJob
          /\ queue' = Tail(queue) /\ held' = j
          /\ UNCHANGED <<rows, api, worker>>
      BY <1>0, <1>5 DEF Dequeue, TypeInv, TypeOK, Shape
    <2>2. /\ j \in Jobs /\ Queued(j) /\ IsInjective(queue') /\ j \notin Range(queue')
          /\ Range(queue') \subseteq Range(queue)
      BY <2>1, TailFacts, HeadTailProperties DEF HolderInv, OneHolder, Queued
    <2>3. ~Requested(j) /\ \A w \in Workers : worker[w].job # j
      BY <2>2, JobsAssumption DEF HolderInv, OneHolder
    <2>4. OneHolder'
      BY <2>1, <2>2, <2>3 DEF HolderInv, OneHolder, Queued, Requested
    <2>5. HolderKnowsID'
      BY <2>1, <2>2 DEF HolderInv, HolderKnowsID, Known, WorkerKnowsID, ClaimKnowsRow, Queued
    <2>6. RequestKnowsRow'
      BY <2>1 DEF HolderInv, RequestKnowsRow
    <2> QED BY <1>0, <2>4, <2>5, <2>6 DEF HolderInv
  <1>6. CASE DequeueCancelled
    BY <1>0, <1>6, HoldersOnlyLeave DEF DequeueCancelled
  <1>7. CASE DequeueFault
    <2>1. /\ queue \in Seq(Jobs) /\ queue' \in {queue, Tail(queue)}
          /\ queue' = Tail(queue) => queue # <<>> \/ queue' = queue
          /\ UNCHANGED <<rows, api, held, worker>>
      BY <1>0, <1>7 DEF DequeueFault, TypeOK
    <2>2. IsInjective(queue') /\ Range(queue') \subseteq Range(queue)
      BY <2>1, TailFacts DEF HolderInv, OneHolder
    <2>3. OneHolder'
      BY <2>1, <2>2 DEF HolderInv, OneHolder, Queued, Requested
    <2>4. HolderKnowsID'
      BY <2>1, <2>2 DEF HolderInv, HolderKnowsID, Known, WorkerKnowsID, ClaimKnowsRow, Queued
    <2>5. RequestKnowsRow'
      BY <2>1 DEF HolderInv, RequestKnowsRow
    <2> QED BY <1>0, <2>3, <2>4, <2>5 DEF HolderInv
  <1>8. CASE Backoff
    BY <1>0, <1>8, HoldersOnlyLeave DEF Backoff
  <1>9. CASE AbandonSend
    BY <1>0, <1>9, HoldersOnlyLeave DEF AbandonSend
  <1>10. ASSUME NEW w \in Workers, Handoff(w) PROVE HolderInv'
    <2>1. /\ held \in Jobs /\ held' = NoJob /\ UNCHANGED <<rows, queue, api>>
          /\ worker[w].job = NoJob
          /\ worker'[w].pc = "load" /\ worker'[w].job = held
          /\ \A v \in Workers : v # w => worker'[v] = worker[v]
      BY <1>0, <1>10 DEF Handoff, TypeInv, TypeOK, Shape, BusyPC
    <2>2. /\ ~Queued(held) /\ ~Requested(held) /\ Known(held)
          /\ \A v \in Workers : worker[v].job # held
      BY <2>1, JobsAssumption DEF HolderInv, OneHolder, HolderKnowsID, Known
    <2>3. OneHolder'
      BY <2>1, <2>2, JobsAssumption DEF HolderInv, OneHolder, Queued, Requested
    <2>4. ASSUME NEW v \in Workers PROVE WorkerKnowsID(v)'
      <3>1. CASE v = w
        BY <2>1, <2>2, <3>1 DEF WorkerKnowsID, ClaimKnowsRow, Known
      <3>2. CASE v # w
        BY <2>1, <3>2 DEF HolderInv, HolderKnowsID, Known, WorkerKnowsID, ClaimKnowsRow
      <3> QED BY <3>1, <3>2
    <2>5. HolderKnowsID'
      BY <2>1, <2>4 DEF HolderInv, HolderKnowsID, Known, Queued
    <2>6. RequestKnowsRow'
      BY <2>1 DEF HolderInv, RequestKnowsRow
    <2> QED BY <1>0, <2>3, <2>5, <2>6 DEF HolderInv
  <1>11. ASSUME NEW w \in Workers, WorkerStops(w) PROVE HolderInv'
    <2>1. \A v \in Workers : worker'[v] = worker[v] \/ worker'[v].job = NoJob
      BY <1>0, <1>11 DEF WorkerStops, TypeOK, Without
    <2> QED BY <1>0, <1>11, <2>1, HoldersOnlyLeave DEF WorkerStops
  <1>12. ASSUME NEW w \in Workers, Load(w) PROVE HolderInv'
    <2> DEFINE row == rows[worker[w].job]
    <2>1. worker[w].pc \in BusyPC /\ UNCHANGED <<rows, queue, api, dispatcher, held>>
      BY <1>12 DEF Load, BusyPC, WorkerPC
    <2>2. MarkProcessing(row) \in Entity
      BY <1>0, <2>1, BusyJob, EntityTypes DEF TypeOK
    <2>3. \/ Return(w)
          \/ Goto(w, "claim", MarkProcessing(row)) /\ row.status = "pending"
      BY <1>12 DEF Load, CanMarkProcessing
    <2>4. Goto(w, "claim", MarkProcessing(row)) /\ row.status = "pending"
            => WorkerKnowsID(w)'
      BY <1>0, <2>1 DEF TypeOK, Goto, WorkerKnowsID, ClaimKnowsRow, Known
    <2>5. StoreFails(worker[w].job, MarkProcessing(row))
      BY <2>1 DEF StoreFails
    <2>6. "claim" \in BusyPC
      BY DEF BusyPC, WorkerPC
    <2> QED BY <1>0, <2>1, <2>2, <2>3, <2>4, <2>5, <2>6, WorkerMoves
  <1>13. ASSUME NEW w \in Workers, Claim(w) PROVE HolderInv'
    <2> DEFINE j == worker[w].job
               e == worker[w].entity
    <2>1. /\ worker[w].pc \in BusyPC /\ j \in Jobs /\ e \in Entity
          /\ UNCHANGED <<queue, api, dispatcher, held>>
      BY <1>0, <1>13, BusyJob DEF Claim, BusyPC, WorkerPC
    <2>2. e.status = "processing"
      BY <1>13 DEF HolderInv, HolderKnowsID, Known, WorkerKnowsID, ClaimKnowsRow, Claim,
                   TypeInv, TypeOK, Entity, MarkProcessing
    <2>3. Return(w) \/ (Goto(w, "execute", e) /\ Store(j, e))
      BY <1>13 DEF Claim
    <2>4. Goto(w, "execute", e) /\ Store(j, e) => WorkerKnowsID(w)'
      BY <1>0, <2>1, <2>2 DEF TypeOK, Goto, Store, WorkerKnowsID, ClaimKnowsRow, Known
    <2>5. StoreFails(j, e)
      BY <1>13 DEF Claim, StoreFails
    <2>6. "execute" \in BusyPC
      BY DEF BusyPC, WorkerPC
    <2> QED BY <1>0, <2>1, <2>3, <2>4, <2>5, <2>6, WorkerMoves
  <1>14. ASSUME NEW w \in Workers, Execute(w) PROVE HolderInv'
    <2> DEFINE e == worker[w].entity
               row == rows[worker[w].job]
    <2>1. /\ worker[w].pc \in BusyPC /\ e \in Entity
          /\ UNCHANGED <<rows, queue, api, dispatcher, held>>
      BY <1>0, <1>14, BusyJob DEF Execute, BusyPC, WorkerPC
    <2>2. e = row /\ row.status = "processing"
      BY <1>14 DEF Execute, HolderInv, HolderKnowsID, Known, WorkerKnowsID, ClaimKnowsRow
    <2>3. /\ MarkSuccess(e) \in Entity /\ RecordFailure(e) \in Entity
          /\ "complete" \in BusyPC /\ "record" \in BusyPC
      BY <2>1, EntityTypes DEF BusyPC, WorkerPC
    <2>4. StoreFails(worker[w].job, e)
      BY <2>1 DEF StoreFails
    <2>5. CASE Return(w)
      BY <1>0, <2>1, <2>3, <2>4, <2>5, WorkerMoves
    <2>6. CASE Goto(w, "complete", MarkSuccess(e))
      <3>1. WorkerKnowsID(w)'
        BY <1>0, <2>1, <2>2, <2>6 DEF TypeOK, Goto, WorkerKnowsID, ClaimKnowsRow, Known
      <3> QED BY <1>0, <2>1, <2>3, <2>4, <2>6, <3>1, WorkerMoves
    <2>7. CASE Goto(w, "record", RecordFailure(e))
      <3>1. WorkerKnowsID(w)'
        BY <1>0, <2>1, <2>2, <2>7 DEF TypeOK, Goto, WorkerKnowsID, ClaimKnowsRow, Known
      <3> QED BY <1>0, <2>1, <2>3, <2>4, <2>7, <3>1, WorkerMoves
    <2> QED BY <1>14, <2>5, <2>6, <2>7 DEF Execute
  <1>15. ASSUME NEW w \in Workers, PersistSuccess(w) PROVE HolderInv'
    <2>1. /\ worker[w].pc \in BusyPC /\ worker[w].entity \in Entity
          /\ UNCHANGED <<queue, api, dispatcher, held>> /\ Return(w)
      BY <1>0, <1>15, BusyJob DEF PersistSuccess, BusyPC, WorkerPC
    <2>2. StoreFails(worker[w].job, worker[w].entity)
      BY <1>15 DEF PersistSuccess, StoreFails
    <2> QED BY <1>0, <2>1, <2>2, WorkerMoves
  <1>16. ASSUME NEW w \in Workers, PersistFailure(w) PROVE HolderInv'
    <2> DEFINE j == worker[w].job
               e == worker[w].entity
    <2>1. /\ worker[w].pc \in BusyPC /\ j \in Jobs /\ e \in Entity
          /\ UNCHANGED <<queue, api, dispatcher, held>>
      BY <1>0, <1>16, BusyJob DEF PersistFailure, BusyPC, WorkerPC
    <2>2. \/ Return(w)
          \/ Goto(w, "requeue", e) /\ Store(j, e) /\ e.status = "pending"
      BY <1>16 DEF PersistFailure
    <2>3. Goto(w, "requeue", e) /\ Store(j, e) /\ e.status = "pending"
            => WorkerKnowsID(w)'
      BY <1>0, <2>1 DEF TypeOK, Goto, Store, WorkerKnowsID, ClaimKnowsRow, Known
    <2>4. StoreFails(j, e)
      BY <1>16 DEF PersistFailure, StoreFails
    <2>5. "requeue" \in BusyPC
      BY DEF BusyPC, WorkerPC
    <2> QED BY <1>0, <2>1, <2>2, <2>3, <2>4, <2>5, WorkerMoves
  <1>17. ASSUME NEW w \in Workers, Requeue(w) PROVE HolderInv'
    <2> DEFINE j == worker[w].job
    <2>1. /\ worker[w].pc = "requeue" /\ worker[w].pc \in BusyPC /\ j \in Jobs
          /\ UNCHANGED <<rows, api, held>> /\ Return(w)
      BY <1>0, <1>17, BusyJob DEF Requeue, BusyPC, WorkerPC
    <2>2. rows[j].status = "pending"
      BY <2>1 DEF HolderInv, HolderKnowsID, Known, WorkerKnowsID, ClaimKnowsRow
    <2>3. ~Queued(j) /\ held # j /\ ~Requested(j)
      BY <2>1, JobsAssumption DEF HolderInv, OneHolder
    <2>4. api'[j] \notin {"idle", "persist", "publish"}
      BY <2>1, <2>2, <2>3 DEF HolderInv, RequestKnowsRow, Requested, NoRow
    <2>5. queue' = Append(queue, j) \/ queue' = queue
      BY <1>0, <1>17, <2>1, LPushOnce DEF Requeue, LPushFails
    <2>6. \A v \in Workers : /\ worker'[v] = worker[v] \/ worker'[v].job = NoJob
                             /\ worker'[v].job # j
      BY <1>0, <2>1, JobsAssumption DEF HolderInv, OneHolder, TypeOK, Return, Without
    <2> QED BY <1>0, <2>1, <2>2, <2>3, <2>4, <2>5, <2>6, Pushes DEF Known
  <1>18. CASE Start
    <2>1. \A w \in Workers : worker'[w].job = NoJob
      BY <1>18 DEF Start, Without
    <2> QED BY <1>0, <1>18, <2>1, HoldersOnlyLeave DEF Start
  <1>19. CASE Signal
    BY <1>0, <1>19, HoldersOnlyLeave DEF Signal
  <1>20. Down => held' = NoJob /\ \A w \in Workers : worker'[w].job = NoJob
    BY DEF Down, Without
  <1>21. CASE Exit
    BY <1>0, <1>20, <1>21, HoldersOnlyLeave DEF Exit
  <1>22. CASE Crash
    BY <1>0, <1>20, <1>22, HoldersOnlyLeave DEF Crash
  <1>23. CASE UNCHANGED vars
    BY <1>0, <1>23, HoldersOnlyLeave
  <1> QED
    BY <1>1, <1>2, <1>3, <1>4, <1>5, <1>6, <1>7, <1>8, <1>9, <1>10, <1>11, <1>12,
       <1>13, <1>14, <1>15, <1>16, <1>17, <1>18, <1>19, <1>21, <1>22, <1>23
    DEF Next, RequestStep, DispatcherStep, DispatcherRuns, WorkerStep

LEMMA HolderAlways ==
    ASSUME MaxDuplicates = 0
    PROVE  Spec => []HolderInv
  <1>1. HolderInv /\ [Next]_vars => HolderInv'
    BY HolderStep
  <1> QED BY HolderInit, <1>1, PTL DEF Spec

(* Mutual exclusion on jobs: unless the Redis client duplicates a push, no  *)
(* two goroutines ever hold the same job, whatever crashes, signals and     *)
(* failed calls do, for any number of jobs and workers.                    *)
THEOREM MutualExclusion ==
    ASSUME MaxDuplicates = 0
    PROVE  Spec => []OneHolder
  <1>1. HolderInv => OneHolder
    BY DEF HolderInv
  <1> QED BY HolderAlways, <1>1, PTL

(***************************************************************************)
(* What is given out is pending.  A row stops being pending only when the   *)
(* one worker that took the ID claims it, and an ID is given out again only *)
(* by a holder that wrote a pending row.                                   *)
(***************************************************************************)
Offered(j) == \/ Queued(j)
              \/ held = j
              \/ \E w \in Workers : worker[w].pc = "load" /\ worker[w].job = j

LEMMA OfferedIsPending ==
    ASSUME HolderInv
    PROVE  HolderKnowsRow <=> \A j \in Jobs : Offered(j) => rows[j].status = "pending"
  <1>1. \A w \in Workers : worker[w].pc = "load" => worker[w].job \in Jobs
    BY BusyJob DEF HolderInv, BusyPC, WorkerPC
  <1>2. held # NoJob => held \in Jobs
    BY DEF HolderInv, TypeInv, TypeOK
  <1>3. \A j \in Jobs : j # NoJob
    BY JobsAssumption
  <1> QED BY <1>1, <1>2, <1>3
          DEF HolderInv, HolderKnowsID, WorkerKnowsID, HolderKnowsRow, WorkerKnowsRow, Offered

LEMMA OfferedStaysPending ==
    ASSUME HolderInv', \A j \in Jobs : Offered(j)' => rows'[j].status = "pending"
    PROVE  HolderKnowsRow'
  <1>1. \A w \in Workers : worker'[w].pc = "load" => worker'[w].job \in Jobs
    BY DEF HolderInv, TypeInv, TypeOK, Shape, BusyPC, WorkerPC
  <1>2. held' # NoJob => held' \in Jobs
    BY DEF HolderInv, TypeInv, TypeOK
  <1> QED BY <1>1, <1>2
          DEF HolderInv, HolderKnowsID, WorkerKnowsID, HolderKnowsRow, WorkerKnowsRow, Offered

LEMMA PendingStep ==
    ASSUME MaxDuplicates = 0
    PROVE  HolderInv /\ HolderKnowsRow /\ [Next]_vars => HolderKnowsRow'
  <1> SUFFICES ASSUME HolderInv, HolderKnowsRow, [Next]_vars,
                      NEW k \in Jobs, Offered(k)'
               PROVE  rows'[k].status = "pending"
    BY HolderStep, OfferedStaysPending
  <1> USE DEF vars, request, memory, process, budget, limits
  <1>0. TypeInv /\ TypeOK /\ queue \in Seq(Jobs) /\ k # NoJob
    BY JobsAssumption DEF HolderInv, TypeInv, TypeOK
  <1>p. Offered(k) => rows[k].status = "pending"
    BY OfferedIsPending
  <1>1. CASE UNCHANGED rows /\ (Offered(k)' => Offered(k))
    BY <1>p, <1>1
  <1>2. ASSUME NEW j \in Jobs, Persist(j) PROVE rows'[k].status = "pending"
    <2>1. UNCHANGED <<queue, held, worker>> /\ StoreFails(j, New) /\ Requested(j)
      BY <1>2 DEF Persist, Insert, StoreFails, Requested
    <2>2. Offered(k) /\ k # j
      BY <2>1, JobsAssumption DEF HolderInv, OneHolder, Offered, Queued
    <2> QED BY <1>0, <1>p, <2>1, <2>2 DEF StoreFails, Store, TypeOK
  <1>3. ASSUME NEW j \in Jobs, Publish(j) PROVE rows'[k].status = "pending"
    <2>1. /\ UNCHANGED <<rows, held, worker>> /\ rows[j].status = "pending"
          /\ queue' = queue \/ queue' = Append(queue, j)
      BY <1>0, <1>3, LPushOnce DEF Publish, LPushFails, HolderInv, RequestKnowsRow
    <2>2. Offered(k) \/ k = j
      BY <1>0, <2>1, AppendFacts DEF Offered, Queued
    <2> QED BY <1>p, <2>1, <2>2
  <1>4. CASE Dequeue \/ DequeueFault
    <2>1. /\ UNCHANGED <<rows, worker>>
          /\ queue' = queue \/ (queue # <<>> /\ queue' = Tail(queue))
          /\ held' = held \/ (queue # <<>> /\ held' = Head(queue))
      BY <1>4 DEF Dequeue, DequeueFault
    <2>2. Offered(k)
      BY <1>0, <2>1, TailFacts DEF Offered, Queued
    <2> QED BY <1>p, <2>1, <2>2
  <1>5. CASE DequeueCancelled \/ Backoff \/ AbandonSend \/ Signal
    BY <1>0, <1>1, <1>5 DEF DequeueCancelled, Backoff, AbandonSend, Signal, Offered, Queued
  <1>6. CASE Start \/ Exit \/ Crash
    BY <1>0, <1>1, <1>6 DEF Start, Exit, Crash, Down, Without, Offered, Queued
  <1>7. ASSUME NEW w \in Workers, Handoff(w) \/ WorkerStops(w)
        PROVE  rows'[k].status = "pending"
    <2>1. /\ UNCHANGED <<rows, queue>> /\ held' \in {held, NoJob}
          /\ worker'[w].job \in {held, NoJob}
          /\ \A v \in Workers : v # w => worker'[v] = worker[v]
      BY <1>0, <1>7 DEF Handoff, WorkerStops, Without, TypeOK
    <2> QED BY <1>0, <1>1, <2>1 DEF Offered, Queued
  <1>8. ASSUME NEW w \in Workers,
               Load(w) \/ Claim(w) \/ Execute(w) \/ PersistSuccess(w)
                 \/ PersistFailure(w) \/ Requeue(w)
        PROVE  rows'[k].status = "pending"
    <2>1. worker[w].pc \in BusyPC
      BY <1>8 DEF Load, Claim, Execute, PersistSuccess, PersistFailure, Requeue, BusyPC,
                  WorkerPC
    <2>2. PICK j \in Jobs : j = worker[w].job
      BY <1>0, <2>1, BusyJob
    <2>3. /\ held' = held
          /\ \A v \in Workers : v # w => worker'[v] = worker[v] /\ worker[v].job # j
          /\ worker'[w].pc # "load" \/ worker'[w].job = NoJob
          /\ \A i \in Jobs : i # j => rows'[i] = rows[i]
          /\ ~Queued(j) /\ held # j
      BY <1>0, <1>8, <2>2, JobsAssumption
      DEF Load, Claim, Execute, PersistSuccess, PersistFailure, Requeue,
          Goto, Return, Without, StoreFails, Store, TypeOK, HolderInv, OneHolder
    <2>4. queue' = queue \/ (Requeue(w) /\ queue' = Append(queue, j))
      BY <1>0, <1>8, <2>2, LPushOnce
      DEF Load, Claim, Execute, PersistSuccess, PersistFailure, Requeue, LPushFails
    <2>5. k # j => Offered(k)
      BY <1>0, <2>3, <2>4, AppendFacts DEF Offered, Queued
    <2>6. k = j => Requeue(w)
      BY <1>0, <2>3, <2>4 DEF Offered, Queued
    <2>7. Requeue(w) => rows'[j].status = "pending"
      BY <2>2 DEF Requeue, HolderInv, HolderKnowsID, WorkerKnowsID, ClaimKnowsRow
    <2> QED BY <1>p, <2>3, <2>5, <2>6, <2>7
  <1>9. ASSUME NEW j \in Jobs, Submit(j) \/ RequestLost(j) PROVE rows'[k].status = "pending"
    BY <1>1, <1>9 DEF Submit, RequestLost, Offered, Queued
  <1>10. CASE UNCHANGED vars
    BY <1>1, <1>10 DEF Offered, Queued
  <1> QED
    BY <1>2, <1>3, <1>4, <1>5, <1>6, <1>7, <1>8, <1>9, <1>10
    DEF Next, RequestStep, DispatcherStep, DispatcherRuns, WorkerStep

LEMMA PendingInit == Init => HolderKnowsRow
  <1> SUFFICES ASSUME Init PROVE HolderKnowsRow
    OBVIOUS
  <1>1. Range(queue) = {} /\ held = NoJob /\ \A w \in Workers : worker[w].pc = "stopped"
    BY DEF Init, Range, Without
  <1> QED BY <1>1 DEF HolderKnowsRow, WorkerKnowsRow, ClaimKnowsRow, Queued

(* Under the same assumption every holder of an ID knows the row: queued    *)
(* IDs name pending rows, entities are one transition ahead of their rows. *)
THEOREM HoldersAgreeWithTable ==
    ASSUME MaxDuplicates = 0
    PROVE  Spec => []HolderKnowsRow
  <1>1. HolderInv /\ HolderKnowsRow /\ [Next]_vars => HolderKnowsRow'
    BY PendingStep
  <1> QED BY HolderAlways, PendingInit, <1>1, PTL DEF Spec

(***************************************************************************)
(* The table implements the abstract lifecycle.  Every write of a row is   *)
(* made by the one holder of the ID, whose entity is one transition ahead  *)
(* of the row, so the write is that transition.                            *)
(***************************************************************************)

(* The transitions of JobLifecycle as a relation between a row and the      *)
(* entity that overwrites it.                                              *)
Transition(row, e) ==
    \/ row.status = "none" /\ e.status = "pending" /\ e.retryCount = row.retryCount
    \/ row.status = "pending" /\ e.status = "processing" /\ e.retryCount = row.retryCount
    \/ row.status = "processing" /\ e.status = "success" /\ e.retryCount = row.retryCount
    \/ /\ row.status = "processing" /\ e.status = "pending"
       /\ row.retryCount < MaxRetries /\ e.retryCount = row.retryCount + 1
    \/ /\ row.status = "processing" /\ e.status = "failed"
       /\ row.retryCount = MaxRetries /\ e.retryCount = row.retryCount

LEMMA RowMoves ==
    ASSUME TypeOK, NEW j \in Jobs, NEW e \in Entity, StoreFails(j, e), Transition(rows[j], e)
    PROVE  [Lifecycle!Next]_Lifecycle!vars
  <1> DEFINE status     == [k \in Jobs |-> rows[k].status]
             retryCount == [k \in Jobs |-> rows[k].retryCount]
             status2     == [k \in Jobs |-> rows'[k].status]
             retryCount2 == [k \in Jobs |-> rows'[k].retryCount]
  <1>1. CASE UNCHANGED rows
    BY <1>1 DEF Lifecycle!vars
  <1>2. CASE Store(j, e)
    <2>1. /\ status2 = [status EXCEPT ![j] = e.status]
          /\ retryCount2 = [retryCount EXCEPT ![j] = e.retryCount]
      BY <1>2 DEF TypeOK, Store
    <2>2. /\ status[j] = rows[j].status /\ retryCount[j] = rows[j].retryCount
          /\ e.retryCount = rows[j].retryCount => retryCount2 = retryCount
      BY <2>1
    <2>3. Lifecycle!Create(j) \/ Lifecycle!Start(j) \/ Lifecycle!Succeed(j)
            \/ Lifecycle!Retry(j) \/ Lifecycle!Exhaust(j)
      BY <2>1, <2>2 DEF Transition, Lifecycle!Create, Lifecycle!Start, Lifecycle!Succeed,
                        Lifecycle!Retry, Lifecycle!Exhaust, Lifecycle!Move
    <2> QED BY <2>3 DEF Lifecycle!Next
  <1> QED BY <1>1, <1>2 DEF StoreFails

(* What a busy worker is about to write is a transition of the row.        *)
LEMMA WorkerTransition ==
    ASSUME HolderInv, NEW w \in Workers, worker[w].pc \in {"claim", "complete", "record"}
    PROVE  /\ worker[w].job \in Jobs /\ worker[w].entity \in Entity
           /\ Transition(rows[worker[w].job], worker[w].entity)
  <1> DEFINE row == rows[worker[w].job]
  <1>1. worker[w].job \in Jobs /\ worker[w].entity \in Entity
    BY BusyJob DEF HolderInv, BusyPC, WorkerPC
  <1>2. row \in Entity /\ row.retryCount \in 0..MaxRetries
    BY <1>1 DEF HolderInv, TypeInv, TypeOK, Entity
  <1>3. WorkerKnowsID(w)
    BY DEF HolderInv, HolderKnowsID, Known
  <1>4. CASE worker[w].pc = "claim"
    BY <1>1, <1>2, <1>3, <1>4
    DEF WorkerKnowsID, ClaimKnowsRow, Known, MarkProcessing, Transition, Entity
  <1>5. CASE worker[w].pc = "complete"
    BY <1>1, <1>2, <1>3, <1>5
    DEF WorkerKnowsID, ClaimKnowsRow, Known, MarkSuccess, Transition, Entity
  <1>6. CASE worker[w].pc = "record"
    <2>1. ~CanRetry(row) => row.retryCount = MaxRetries
      BY <1>2, MaxRetriesAssumption DEF CanRetry
    <2> QED BY <1>1, <1>2, <1>3, <1>6, <2>1
            DEF WorkerKnowsID, ClaimKnowsRow, Known, RecordFailure, CanRetry, Transition, Entity
  <1> QED BY <1>1, <1>4, <1>5, <1>6

(* Every step is a transition of one job, or leaves all of them alone.      *)
LEMMA LifecycleStep ==
    HolderInv /\ [Next]_vars => [Lifecycle!Next]_Lifecycle!vars
  <1> SUFFICES ASSUME HolderInv, [Next]_vars PROVE [Lifecycle!Next]_Lifecycle!vars
    OBVIOUS
  <1>0. TypeOK
    BY DEF HolderInv, TypeInv
  <1>1. CASE UNCHANGED rows
    BY <1>1 DEF Lifecycle!vars
  <1>2. ASSUME NEW j \in Jobs, Persist(j) PROVE [Lifecycle!Next]_Lifecycle!vars
    <2>1. rows[j] = NoRow /\ StoreFails(j, New)
      BY <1>2 DEF HolderInv, RequestKnowsRow, Persist, Insert, StoreFails
    <2>2. Transition(rows[j], New)
      BY <2>1 DEF Transition, New, NoRow
    <2> QED BY <1>0, <2>1, <2>2, EntityTypes, RowMoves
  <1>3. ASSUME NEW w \in Workers, Claim(w) PROVE [Lifecycle!Next]_Lifecycle!vars
    <2>1. StoreFails(worker[w].job, worker[w].entity) /\ worker[w].pc = "claim"
      BY <1>3 DEF Claim, StoreFails
    <2> QED BY <1>0, <2>1, WorkerTransition, RowMoves
  <1>4. ASSUME NEW w \in Workers, PersistSuccess(w) PROVE [Lifecycle!Next]_Lifecycle!vars
    <2>1. StoreFails(worker[w].job, worker[w].entity) /\ worker[w].pc = "complete"
      BY <1>4 DEF PersistSuccess, StoreFails
    <2> QED BY <1>0, <2>1, WorkerTransition, RowMoves
  <1>5. ASSUME NEW w \in Workers, PersistFailure(w) PROVE [Lifecycle!Next]_Lifecycle!vars
    <2>1. StoreFails(worker[w].job, worker[w].entity) /\ worker[w].pc = "record"
      BY <1>5 DEF PersistFailure, StoreFails
    <2> QED BY <1>0, <2>1, WorkerTransition, RowMoves
  <1>6. \/ UNCHANGED rows
        \/ \E j \in Jobs : Persist(j)
        \/ \E w \in Workers : Claim(w) \/ PersistSuccess(w) \/ PersistFailure(w)
    BY DEF Next, RequestStep, DispatcherStep, DispatcherRuns, WorkerStep, vars, Submit,
           Publish, RequestLost,
           Dequeue, DequeueCancelled, DequeueFault, Backoff, AbandonSend, Handoff,
           WorkerStops, Load, Execute, Requeue, Start, Signal, Exit, Crash
  <1> QED BY <1>1, <1>2, <1>3, <1>4, <1>5, <1>6

(* The pipeline implements the lifecycle that clients read: for every job   *)
(* the stored status and retry counter move by whole, legal transitions,   *)
(* unless the Redis client duplicates a push.                              *)
THEOREM LifecycleRefinement ==
    ASSUME MaxDuplicates = 0
    PROVE  Spec => ImplementsLifecycle
  <1>1. Init => Lifecycle!Init
    BY DEF Init, NoRow, Lifecycle!Init
  <1>2. HolderInv /\ [Next]_vars => [Lifecycle!Next]_Lifecycle!vars
    BY LifecycleStep
  <1> QED BY HolderAlways, <1>1, <1>2, PTL DEF Spec, ImplementsLifecycle, Lifecycle!Spec

(* A settled job is never reopened, under the same assumption.             *)
THEOREM SettledForGood ==
    ASSUME MaxDuplicates = 0
    PROVE  Spec => TerminalIsFinal
  <1> DEFINE Keeps == \A j \in Jobs : Settled(j) => rows'[j].status = rows[j].status
  <1>1. HolderInv /\ [Next]_vars => [Keeps]_vars
    <2> SUFFICES ASSUME HolderInv, [Next]_vars PROVE Keeps
      OBVIOUS
    <2>1. [Lifecycle!Next]_Lifecycle!vars
      BY LifecycleStep
    <2>2. ASSUME NEW j \in Jobs, Settled(j) PROVE rows'[j].status = rows[j].status
      BY <2>1, <2>2
      DEF Settled, Terminal, Lifecycle!Next, Lifecycle!vars, Lifecycle!Create, Lifecycle!Start,
          Lifecycle!Succeed, Lifecycle!Retry, Lifecycle!Exhaust, Lifecycle!Move
    <2> QED BY <2>2
  <1> QED BY HolderAlways, <1>1, PTL DEF Spec, TerminalIsFinal

(***************************************************************************)
(* One queue: Redis list, dispatcher and channel implement DeliveryQueue,   *)
(* duplicated pushes or not.                                               *)
(***************************************************************************)

Holding == [w \in Workers |-> worker[w].job]

(* An ID on offer is the oldest one of the whole queue.                     *)
LEMMA OfferedIsOldest ==
    ASSUME NEW q \in Seq(Jobs), NEW h \in Jobs
    PROVE  /\ <<h>> \o q # <<>>
           /\ Head(<<h>> \o q) = h
           /\ Tail(<<h>> \o q) = q
           /\ \A j \in Jobs : Append(<<h>> \o q, j) = <<h>> \o Append(q, j)
  <1>1. <<h>> \in Seq(Jobs) /\ Len(<<h>>) = 1 /\ <<h>>[1] = h
    OBVIOUS
  <1>2. /\ <<h>> \o q \in Seq(Jobs) /\ Len(<<h>> \o q) = Len(q) + 1
        /\ (<<h>> \o q)[1] = h
        /\ \A i \in 1..Len(q) : (<<h>> \o q)[i + 1] = q[i]
    BY <1>1, ConcatProperties, LenProperties
  <1>3. <<h>> \o q # <<>>
    BY <1>1, ConcatEqualIffEmpty
  <1>4. Head(<<h>> \o q) = h
    BY <1>2
  <1>5. Tail(<<h>> \o q) = q
    <2>1. /\ Tail(<<h>> \o q) \in Seq(Jobs) /\ Len(Tail(<<h>> \o q)) = Len(q)
          /\ \A i \in 1..Len(q) : Tail(<<h>> \o q)[i] = q[i]
      BY <1>2, <1>3, HeadTailProperties, LenProperties
    <2> QED BY <2>1, SeqEqual
  <1>6. ASSUME NEW j \in Jobs PROVE Append(<<h>> \o q, j) = <<h>> \o Append(q, j)
    <2>1. Append(<<h>> \o q, j) = (<<h>> \o q) \o <<j>> /\ Append(q, j) = q \o <<j>>
      BY <1>2, AppendIsConcat
    <2>2. <<j>> \in Seq(Jobs)
      OBVIOUS
    <2> QED BY <1>1, <2>1, <2>2, ConcatAssociative
  <1> QED BY <1>3, <1>4, <1>5, <1>6

(* A sequence is its head followed by its tail.                             *)
LEMMA OneAndRest ==
    ASSUME NEW q \in Seq(Jobs), NEW h \in Seq(Jobs), NEW t \in Seq(Jobs),
           Len(h) = 1, h[1] = q[1], Len(t) = Len(q) - 1,
           \A i \in 1..Len(t) : t[i] = q[i + 1]
    PROVE  h \o t = q
  <1>1. /\ h \o t \in Seq(Jobs) /\ Len(h \o t) = Len(h) + Len(t)
        /\ (h \o t)[1] = h[1]
        /\ \A i \in 1..Len(t) : (h \o t)[i + 1] = t[i]
    <2>1. h \o t \in Seq(Jobs) /\ Len(h \o t) = Len(h) + Len(t)
      BY ONLY ConcatProperties, h \in Seq(Jobs), t \in Seq(Jobs)
    <2>2. \A i \in 1..Len(h) + Len(t) :
              (h \o t)[i] = IF i <= Len(h) THEN h[i] ELSE t[i - Len(h)]
      BY ONLY ConcatProperties, h \in Seq(Jobs), t \in Seq(Jobs)
    <2>3. Len(h) = 1 /\ Len(t) \in Nat
      BY LenProperties
    <2> QED BY <2>1, <2>2, <2>3
  <1>2. Len(q) \in Nat /\ Len(h \o t) = Len(q)
    BY <1>1, LenProperties
  <1>3. ASSUME NEW i \in 1..Len(h \o t) PROVE (h \o t)[i] = q[i]
    <2>1. CASE i = 1
      BY <1>1, <1>2, <2>1
    <2>2. CASE i # 1
      <3>1. i - 1 \in 1..Len(t) /\ (h \o t)[(i - 1) + 1] = t[i - 1]
        BY <1>1, <1>2, <2>2
      <3>2. t[i - 1] = q[(i - 1) + 1]
        BY <3>1
      <3> QED BY <1>2, <3>1, <3>2
    <2> QED BY <2>1, <2>2
  <1> QED BY <1>1, <1>2, <1>3, SeqEqual

LEMMA HeadAndTail ==
    ASSUME NEW q \in Seq(Jobs), q # <<>>
    PROVE  <<Head(q)>> \o Tail(q) = q
  <1>1. /\ Head(q) = q[1] /\ Head(q) \in Jobs /\ Tail(q) \in Seq(Jobs)
        /\ Len(Tail(q)) = Len(q) - 1 /\ \A i \in 1..Len(Tail(q)) : Tail(q)[i] = q[i + 1]
    BY HeadTailProperties
  <1>2. <<Head(q)>> \in Seq(Jobs) /\ Len(<<Head(q)>>) = 1 /\ <<Head(q)>>[1] = q[1]
    BY <1>1
  <1> QED BY <1>1, <1>2, OneAndRest

(* What is waiting, with and without an ID on offer, before and after a step. *)
LEMMA WaitingIs ==
    ASSUME TypeInv
    PROVE  /\ held = NoJob => Waiting = queue
           /\ held # NoJob => held \in Jobs /\ Waiting = <<held>> \o queue
  BY ConcatEmptySeq DEF TypeInv, TypeOK, Waiting

LEMMA WaitingBecomes ==
    ASSUME TypeInv'
    PROVE  /\ held' = NoJob => Waiting' = queue'
           /\ held' # NoJob => held' \in Jobs /\ Waiting' = <<held'>> \o queue'
  BY ConcatEmptySeq DEF TypeInv, TypeOK, Waiting

(* An LPUSH appends to what is waiting.                                     *)
LEMMA PushesWaiting ==
    ASSUME TypeInv, TypeInv', NEW j \in Jobs, LPush(j), UNCHANGED held
    PROVE  Delivery!Publish(j)
  <1>1. queue \in Seq(Jobs) /\ Append(queue, j) \in Seq(Jobs)
    BY AppendProperties DEF TypeInv, TypeOK
  <1>2. queue' \in {Append(queue, j), Append(Append(queue, j), j)}
    BY DEF LPush, PushTwice
  <1>3. CASE held = NoJob
    BY <1>2, <1>3, WaitingIs, WaitingBecomes DEF Delivery!Publish, TypeInv
  <1>4. CASE held # NoJob
    <2>1. Waiting = <<held>> \o queue /\ Waiting' = <<held>> \o queue' /\ held \in Jobs
      BY <1>4, WaitingIs, WaitingBecomes
    <2>2. /\ Append(Waiting, j) = <<held>> \o Append(queue, j)
          /\ Append(Append(Waiting, j), j) = <<held>> \o Append(Append(queue, j), j)
      BY <1>1, <2>1, OfferedIsOldest
    <2> QED BY <1>2, <2>1, <2>2 DEF Delivery!Publish
  <1> QED BY <1>3, <1>4

(* Letting go of the ID on offer takes the oldest.                          *)
LEMMA OfferLeaves ==
    ASSUME TypeInv, TypeInv', held # NoJob, held' = NoJob, UNCHANGED queue
    PROVE  held \in Jobs /\ Delivery!Oldest(held)
  <1>1. Waiting = <<held>> \o queue /\ Waiting' = queue /\ held \in Jobs
    BY WaitingIs, WaitingBecomes
  <1>2. queue \in Seq(Jobs)
    BY DEF TypeInv, TypeOK
  <1> QED BY <1>1, <1>2, OfferedIsOldest DEF Delivery!Oldest

(* A worker that goes on keeps its ID, one that returns gives it up.        *)
LEMMA HoldingMoves ==
    ASSUME TypeInv, NEW w \in Workers
    PROVE  /\ \A pc, e : Goto(w, pc, e) => Holding' = Holding
           /\ Return(w) => Holding' = [Holding EXCEPT ![w] = NoJob]
  <1>1. ASSUME NEW pc, NEW e, Goto(w, pc, e) PROVE Holding' = Holding
    BY <1>1 DEF TypeInv, TypeOK, Goto, Holding
  <1>2. ASSUME Return(w) PROVE Holding' = [Holding EXCEPT ![w] = NoJob]
    <2>1. \A v \in Workers : worker'[v].job = IF v = w THEN NoJob ELSE worker[v].job
      BY <1>2 DEF TypeInv, TypeOK, Return, Without
    <2> QED BY <2>1 DEF Holding
  <1> QED BY <1>1, <1>2

(* Every step is one of the abstract queue, or leaves it as it is.          *)
LEMMA DeliveryStep ==
    TypeInv /\ TypeInv' /\ [Next]_vars => [Delivery!Next]_(Delivery!vars)
  <1> SUFFICES ASSUME TypeInv, TypeInv', [Next]_vars
               PROVE  Delivery!Next \/ UNCHANGED <<Waiting, Holding>>
    BY DEF Delivery!vars, Holding
  <1>a. queue \in Seq(Jobs)
    BY DEF TypeInv, TypeOK
  <1>b. \A w \in Workers : worker[w].pc \in BusyPC <=> worker[w].job # NoJob
    BY DEF TypeInv, Shape
  <1>1. ASSUME NEW j \in Jobs, Submit(j) \/ Persist(j) \/ RequestLost(j)
        PROVE  UNCHANGED <<Waiting, Holding>>
    BY <1>1 DEF Submit, Persist, RequestLost, memory, Waiting, Holding
  <1>2. ASSUME NEW j \in Jobs, Publish(j)
        PROVE  Delivery!Next \/ UNCHANGED <<Waiting, Holding>>
    <2>1. UNCHANGED <<held, worker>> /\ (LPush(j) \/ UNCHANGED queue)
      BY <1>2 DEF Publish, LPushFails, memory
    <2>2. CASE LPush(j)
      BY <2>1, <2>2, PushesWaiting DEF Delivery!Next, Holding
    <2>3. CASE UNCHANGED queue
      BY <2>1, <2>3 DEF Waiting, Holding
    <2> QED BY <2>1, <2>2, <2>3
  <1>3. CASE Dequeue
    <2>1. /\ held = NoJob /\ queue # <<>> /\ held' = Head(queue) /\ queue' = Tail(queue)
          /\ UNCHANGED worker
      BY <1>3 DEF Dequeue, TypeInv, Shape
    <2>2. Head(queue) \in Jobs /\ Tail(queue) \in Seq(Jobs)
      BY <1>a, <2>1, HeadTailProperties
    <2>3. held' # NoJob
      BY <2>1, <2>2, JobsAssumption
    <2>4. Waiting = queue /\ Waiting' = <<Head(queue)>> \o Tail(queue)
      BY <2>1, <2>3, WaitingIs, WaitingBecomes DEF Waiting
    <2>5. <<Head(queue)>> \o Tail(queue) = queue
      BY <1>a, <2>1, HeadAndTail
    <2> QED BY <2>1, <2>4, <2>5 DEF Holding
  <1>4. CASE DequeueCancelled \/ Backoff
    BY <1>4 DEF DequeueCancelled, Backoff, Waiting, Holding
  <1>5. CASE DequeueFault
    <2>1. held = NoJob /\ UNCHANGED <<held, worker>>
          /\ (UNCHANGED queue \/ (queue # <<>> /\ queue' = Tail(queue)))
      BY <1>5 DEF DequeueFault, TypeInv, Shape
    <2>2. Waiting = queue /\ Waiting' = queue'
      BY <2>1, WaitingIs, WaitingBecomes
    <2>3. queue # <<>> => Head(queue) \in Jobs
      BY <1>a, HeadTailProperties
    <2> QED BY <2>1, <2>2, <2>3
            DEF Delivery!Next, Delivery!Lose, Delivery!Oldest, Holding
  <1>6. CASE AbandonSend
    <2>1. held # NoJob /\ held' = NoJob /\ UNCHANGED <<queue, worker>>
      BY <1>6 DEF AbandonSend, TypeInv, Shape
    <2> QED BY <2>1, OfferLeaves DEF Delivery!Next, Delivery!Lose, Holding
  <1>7. ASSUME NEW w \in Workers, Handoff(w)
        PROVE  Delivery!Next
    <2>1. /\ held # NoJob /\ held' = NoJob /\ UNCHANGED queue
          /\ worker' = [worker EXCEPT ![w] = [pc |-> "load", job |-> held, entity |-> NoRow]]
          /\ worker[w].pc = "receive"
      BY <1>7 DEF Handoff, TypeInv, Shape
    <2>2. worker[w].job = NoJob
      BY <2>1, <1>b DEF BusyPC
    <2>3. Holding' = [Holding EXCEPT ![w] = held] /\ Holding[w] = NoJob
      BY <2>1, <2>2 DEF Holding, TypeInv, TypeOK
    <2>4. held \in Jobs /\ Delivery!Oldest(held)
      BY <2>1, OfferLeaves
    <2> QED BY <2>3, <2>4 DEF Delivery!Next, Delivery!Deliver, Holding
  <1>8. ASSUME NEW w \in Workers, WorkerStops(w)
        PROVE  UNCHANGED <<Waiting, Holding>>
    <2>1. worker[w].job = NoJob
      BY <1>8, <1>b DEF WorkerStops, BusyPC
    <2> QED BY <1>8, <2>1 DEF WorkerStops, Without, Waiting, Holding, TypeInv, TypeOK
  <1>9. ASSUME NEW w \in Workers,
               Load(w) \/ Claim(w) \/ Execute(w) \/ PersistSuccess(w) \/ PersistFailure(w)
        PROVE  Delivery!Next \/ UNCHANGED <<Waiting, Holding>>
    <2>1. UNCHANGED <<held, queue>> /\ ((\E pc, e : Goto(w, pc, e)) \/ Return(w))
      BY <1>9 DEF Load, Claim, Execute, PersistSuccess, PersistFailure
    <2>2. UNCHANGED Waiting
      BY <2>1 DEF Waiting
    <2>3. worker[w].job # NoJob
      BY <1>9, <1>b DEF Load, Claim, Execute, PersistSuccess, PersistFailure, BusyPC, WorkerPC
    <2>4. CASE Return(w)
      <3>1. Holding' = [Holding EXCEPT ![w] = NoJob] /\ Holding[w] # NoJob
        BY <2>3, <2>4, HoldingMoves DEF Holding
      <3> QED BY <2>2, <3>1 DEF Delivery!Next, Delivery!Release, Holding
    <2>5. CASE \E pc, e : Goto(w, pc, e)
      BY <2>2, <2>5, HoldingMoves
    <2> QED BY <2>1, <2>4, <2>5
  <1>10. ASSUME NEW w \in Workers, Requeue(w)
         PROVE  Delivery!Next
    <2>1. /\ Return(w) /\ UNCHANGED held
          /\ LPush(worker[w].job) \/ UNCHANGED queue
          /\ worker[w].pc = "requeue"
      BY <1>10 DEF Requeue, LPushFails
    <2>2. worker[w].job \in Jobs /\ worker[w].job # NoJob
      BY <2>1, BusyJob, JobsAssumption DEF BusyPC, WorkerPC
    <2>3. Holding' = [Holding EXCEPT ![w] = NoJob] /\ Holding[w] = worker[w].job
      BY <2>1, HoldingMoves DEF Holding
    <2>4. UNCHANGED Waiting \/ Delivery!Publish(Holding[w])
      BY <2>1, <2>2, <2>3, PushesWaiting DEF Waiting
    <2> QED BY <2>2, <2>3, <2>4 DEF Delivery!Next, Delivery!Release, Holding
  <1>11. CASE Start
    <2>1. UNCHANGED <<held, queue>> /\ worker' = [w \in Workers |-> Without("receive")]
      BY <1>11 DEF Start
    <2>2. Holding' = [w \in Workers |-> NoJob]
      BY <2>1 DEF Holding, Without
    <2> QED BY <2>1, <2>2 DEF Delivery!Next, Delivery!End, Delivery!Empty, Waiting, Holding
  <1>12. CASE Signal
    BY <1>12 DEF Signal, Waiting, Holding
  <1>13. CASE Exit \/ Crash
    <2>1. /\ UNCHANGED queue /\ held' = NoJob
          /\ worker' = [w \in Workers |-> Without("stopped")]
      BY <1>13 DEF Exit, Crash, Down
    <2>2. Holding' = [w \in Workers |-> NoJob]
      BY <2>1 DEF Holding, Without
    <2>3. UNCHANGED Waiting \/ (held \in Jobs /\ Delivery!Oldest(held))
      <3>1. CASE held = NoJob
        BY <2>1, <3>1 DEF Waiting
      <3>2. CASE held # NoJob
        BY <2>1, <3>2, OfferLeaves
      <3> QED BY <3>1, <3>2
    <2> QED BY <2>2, <2>3 DEF Delivery!Next, Delivery!End, Delivery!Empty, Holding
  <1>14. CASE UNCHANGED vars
    BY <1>14 DEF vars, memory, Waiting, Holding
  <1> QED
    BY <1>1, <1>2, <1>3, <1>4, <1>5, <1>6, <1>7, <1>8, <1>9, <1>10, <1>11, <1>12,
       <1>13, <1>14
    DEF Next, RequestStep, DispatcherStep, DispatcherRuns, WorkerStep

(* IDs reach the workers in the order of their publication, whatever fails, *)
(* is signalled or crashes, and also when a push is applied twice.          *)
THEOREM DeliveryRefinement == Spec => ImplementsDelivery
  <1>1. Init => Delivery!Init
    BY ConcatEmptySeq, EmptySeq
    DEF Init, Delivery!Init, Delivery!Empty, Waiting, Without
  <1> QED BY <1>1, TypeInit, TypeStep, DeliveryStep, PTL
          DEF Spec, ImplementsDelivery, Delivery!Spec

=============================================================================
