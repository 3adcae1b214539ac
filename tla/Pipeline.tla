----------------------------- MODULE Pipeline ------------------------------
(***************************************************************************)
(* State of the job pipeline and the outcomes of its calls to MySQL and    *)
(* Redis, shared by the modules of its parts:                              *)
(*                                                                         *)
(*   CreateJob        the API request that persists and publishes a job    *)
(*   Dispatcher       the goroutine that pops IDs and hands them out       *)
(*   ProcessorWorker  a goroutine of the pool running ProcessJob           *)
(*   AsyncJobs        all of them, and the process they run in             *)
(*                                                                         *)
(* One step is one call to MySQL or Redis together with the code up to the *)
(* next call, or one channel operation.  A call is atomic at the moment it *)
(* takes effect; a call that fails may have taken effect or not.           *)
(*                                                                         *)
(* SIGTERM cancels the context of the worker service.  From then on every  *)
(* call it starts is rejected before it reaches the server (database/sql   *)
(* and go-redis test the context first).  A call already under way when    *)
(* the signal arrives is the same behaviour as the call followed by the    *)
(* signal; only a blocked BRPOP can still deliver, or fail, later.         *)
(*                                                                         *)
(* A definition named ...Mutant is the next one with a plausible mistake:  *)
(* no action uses it, it shows which property the mistake would break.     *)
(***************************************************************************)
EXTENDS Naturals, Sequences, Job

CONSTANTS
    Jobs,           \* job IDs the clients may have created
    Workers,        \* the goroutines of the pool (WorkerCount = 5)
    NoJob,          \* "no ID"
    MaxFaults,      \* bound: failed calls and clock faults
    MaxSignals,     \* bound: SIGTERMs to the worker service
    MaxCrashes,     \* bound: crashes of the worker service and of API requests
    MaxDuplicates   \* bound: LPUSHes applied twice by the client's own retry

ASSUME JobsAssumption   == NoJob \notin Jobs
ASSUME BoundsAssumption == /\ MaxFaults \in Nat
                           /\ MaxSignals \in Nat
                           /\ MaxCrashes \in Nat
                           /\ MaxDuplicates \in Nat

VARIABLES
    rows,           \* rows[j]: the MySQL row of j
    queue,          \* the Redis list, oldest ID first
    api,            \* api[j]: progress of the POST request that creates j
    payloadOK,      \* payloadOK[j]: does the handler of j's type accept its payload?
    service,        \* the worker service: "up" or "down"
    ctxDone,        \* its context is cancelled
    dispatcher,     \* where Dispatcher.Run is
    held,           \* the ID the dispatcher offers on the channel
    worker,         \* worker[w]: where the goroutine is, its ID and its entity
    attempts,       \* history: how often the executor was started for j
    faults, signals, crashes, duplicates   \* used parts of the bounds

request == <<api, payloadOK>>
process == <<service, ctxDone>>
memory  == <<process, dispatcher, held, worker>>
limits  == <<signals, crashes>>
budget  == <<faults, duplicates, limits>>
vars    == <<rows, queue, request, memory, attempts, budget>>

ApiPC        == {"idle", "persist", "publish", "accepted", "failed"}
DispatcherPC == {"dequeue", "backoff", "send", "stopped"}
WorkerPC     == {"receive", "load", "claim", "execute", "complete",
                 "record", "requeue", "stopped"}

\* A goroutine at pc that holds no job.
Without(pc) == [pc |-> pc, job |-> NoJob, entity |-> NoRow]

Init ==
    /\ rows = [j \in Jobs |-> NoRow]
    /\ queue = <<>>
    /\ api = [j \in Jobs |-> "idle"]
    /\ payloadOK = [j \in Jobs |-> FALSE]
    /\ service = "down"
    /\ ctxDone = FALSE
    /\ dispatcher = "stopped"
    /\ held = NoJob
    /\ worker = [w \in Workers |-> Without("stopped")]
    /\ attempts = [j \in Jobs |-> 0]
    /\ faults = 0 /\ signals = 0 /\ crashes = 0 /\ duplicates = 0

-----------------------------------------------------------------------------
(* Outcomes of a call.                                                     *)

\* A call to MySQL or Redis returns an error.
Fault == faults < MaxFaults /\ faults' = faults + 1

\* A call made with the context of the worker service: it succeeds, it fails
\* on the way, or the cancelled context rejects it before it has any effect.
CallSucceedsMutant == UNCHANGED faults   \* context.WithoutCancel around the call
CallSucceeds == ~ctxDone /\ UNCHANGED faults
CallFaults   == ~ctxDone /\ Fault
CallRejected == ctxDone /\ UNCHANGED faults

\* OpenRedis leaves go-redis's own retries on: a reply lost on the wire makes the
\* client push again.
PushTwice(j) ==
    /\ duplicates < MaxDuplicates
    /\ queue' = Append(Append(queue, j), j)
    /\ duplicates' = duplicates + 1

\* JobQueue.Enqueue.
LPush(j) == PushTwice(j) \/ (queue' = Append(queue, j) /\ UNCHANGED duplicates)

\* An enqueue error answered by pushing again.
LPushFailsMutant(j) == LPush(j) \/ (queue' = queue \o <<j, j>> /\ UNCHANGED duplicates)

LPushFails(j) == LPush(j) \/ UNCHANGED <<queue, duplicates>>

\* Updates without its Select list: columns that are nil in the entity are kept.
StoreMutant(j, e) ==
    rows' = [rows EXCEPT ![j] = [e EXCEPT !.completedAt = @ \/ rows[j].completedAt]]

\* JobRepository.Update does not test what it overwrites.
Store(j, e) == rows' = [rows EXCEPT ![j] = e]

StoreFails(j, e) == Store(j, e) \/ UNCHANGED rows

=============================================================================
