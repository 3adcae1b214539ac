# Async job queue: TLA+ models, model checking and proofs

This directory holds the formal models of the asynchronous job system in `src/`:
a Go API that stores a job in MySQL and pushes its ID to a Redis list, a Go
worker service whose dispatcher pops IDs and whose five goroutines execute them
with up to three retries, and a React page that polls a job's status.

Run one model with

    tlc -workers 2 -config core_safety.cfg MCHostFailure

and check the proofs of one module with `tlapm AsyncJobsProofs.tla`.

## 1. Inventory of the system

| Component | State it keeps | Operations | Talks to | Module |
|---|---|---|---|---|
| Job entity (`internal/domain/job`) | status, retry count, last error, times | `New`, `MarkProcessing`, `MarkSuccess`, `RecordFailure`, `Restore` | nobody | Job, JobLifecycle, TimedJob |
| CreateJob (`usecase/create_job.go`) | progress of one request | validate, persist, publish | MySQL, Redis | CreateJob, JobApi |
| HTTP job handler, GetJob, router | request and answer | decode, refuse, map errors to status codes | both use cases | JobApi |
| ProcessJob (`usecase/process_job.go`) | one entity in memory | load, claim, execute, persist outcome, requeue | MySQL, Redis, executor | ProcessorWorker |
| Queue dispatcher (`worker/dispatcher.go`) | the popped ID | dequeue, back off, hand over, stop | Redis, channel | Dispatcher, DeliveryQueue |
| Worker pool (`worker/pool.go`, `processor_worker.go`) | goroutines, wait group, unbuffered channel | receive, process, stop | dispatcher, ProcessJob | ProcessorWorker, AsyncJobs |
| Worker process (`cmd/worker`, `docker-compose.yml`) | its context | start, signal, exit, crash, restart | everything in it | AsyncJobs, Startup |
| Redis queue (`redis/job_queue.go`) | a list of IDs, and what its log has | LPUSH, BRPOP, restart | API, workers | Pipeline, HostFailure |
| MySQL repository (`mysql/`) | the table `jobs` | create, get, update | API, workers | Pipeline, TimedJob, JobApi |
| Job handlers (`executor/`) | none | registry, validate payload, wait for a timer | context | ProcessorWorker, Payloads |
| Configuration, start-up (`platform/config`, `cmd/`, `database`, `cache`) | open connections | load, open, build, serve, close | MySQL, Redis, Docker | Config, Startup |
| HTTP server (`platform/server`) | listener, channel, active requests | listen, serve, shut down | requests | HttpServer |
| Health endpoints (`health_handler.go`) | none | ping in turn, time out | MySQL, Redis | not modelled |
| React tracker (`web/src/hooks/useJobTracker.js`) | shown job, error, badge, generation, loops | track, poll, receive, stop | API | JobTracker |
| React form (`web/src/components/JobForm.jsx`) | the draft | constrain, submit | API | Payloads |

What is hard here:

* **Two stores, no transaction.** The row is written first, the ID second, in
  `CreateJob` and in the retry path. Either call may fail, and a call that fails
  may have taken effect.
* **At-most-once delivery.** BRPOP removes the ID; from then on only the memory
  of one process knows it. A cancelled hand-over, a crash or a lost reply loses
  it, and nothing scans MySQL for what was lost.
* **Unconditional writes.** `Update` tests only the ID. What keeps workers from
  overwriting each other is that an ID has a single holder, which go-redis' own
  retry of LPUSH can break.
* **Shutdown.** One context reaches every blocking operation: BRPOP, channel send
  and receive, handler timer and every SQL and Redis call. Cancelling it ends all
  goroutines but one that waits in BRPOP on an empty list, and also rejects the
  writes that would record what they did.
* **A queue that can go back in time.** `appendfsync everysec` lets a failure of the
  host undo the last second of the list, but not of the table.
* **Several clocks.** Transitions compare times read on different hosts, rounded by
  MySQL and replaced by GORM.
* **Partial start.** Two services open two stores, restart by themselves and must
  leave nothing open.
* **Two validators.** The form, the API and the handlers check different things in
  different units; what the API accepts is retried even if no handler ever will.
* **Overlapping asynchronous loops** in the page, whose answers arrive late.

What makes the parts correct: an ID has one holder; what a worker holds agrees
with the table; rows move along the lifecycle one transition at a time, at times
that are in order; the retry counter counts executions; an outcome is the payload's
and not the shutdown's; accepted jobs settle when nothing goes wrong; every answer
of the API tells the truth about row and queue; the services come up again
after outages, close what they opened and end when told to; the page tells the truth
about the latest job it was asked for.

## 2. Modules

    Job            the entity and its row           JobLifecycle   abstract: status, retryCount
      TimedJob     times and clocks                    ^        ^ (as the server)
      Payloads     what a job carries                  |        |
      Pipeline     state and outcomes of calls         |        |
        CreateJob, Dispatcher, ProcessorWorker         |        |
          AsyncJobs   process, Next, properties -------+     JobTracker    HttpServer
            |     implements DeliveryQueue
            HostFailure   the host fails, the list goes back in time

    JobApi   requests and answers     Config <- Startup

`MC<module>` instantiates a module for TLC. Proofs: `PipelineProofs` extends
`AsyncJobsProofs` and HostFailure; `TimedJobProofs`, `JobApiProofs`, `StartupProofs`,
`PayloadsProofs`, `HttpServerProofs` and `TrackerProofs` each extend their model.

* **Job** is the entity as a record; the row has the same fields, so one record
  stands for both. Each method is an operator, its early return a guard operator.
  Times are reduced to "set or not"; a transition time refused by
  `transitionTime` is a fault of the step that calls the method.
* **TimedJob** adds the times for one job: clocks of several hosts that differ and
  are set, `transitionTime`, `Restore`, DATETIME(6) rounding (`Stored`) and the
  `updated_at` that GORM writes (`Written`). A call takes at least `CallTime`.
* **Payloads** follows one payload from the form or an API client through the
  domain's check, the registry and the handler's rules to its outcome. A text is
  (characters, bytes per character, padded).
* **JobLifecycle** is the abstract specification: five transitions of
  (status, retryCount) per job. It is what a client may rely on.
* **Pipeline** declares the state of the pipeline and the outcomes of its calls.
* **CreateJob**: `Submit`, `Persist`, `Publish`, and `RequestLost` for a process
  or client that disappears in between.
* **Dispatcher**: `Dequeue`, `DequeueFault`, `Backoff`, `Handoff` (the rendezvous on
  the channel) and `AbandonSend`; and `DequeueCancelled`, which is possible once the
  context is done but never promised.
* **ProcessorWorker**: `WorkerStops`, then one action per call of
  `ProcessJob.Execute`: `Load`, `Claim`, `Execute`, `PersistSuccess`,
  `PersistFailure`, `Requeue`.
* **AsyncJobs** composes them inside a worker process (`Start`, `Signal`, `Exit`,
  `Crash`) and states the properties.
* **DeliveryQueue** is the abstract specification of list, dispatcher and channel: a
  FIFO queue that gives each published ID to at most one consumer, or to nobody.
  AsyncJobs implements it with `waiting` = the list behind the offered ID.
* **HostFailure** extends AsyncJobs by the machine of `docker-compose.yml`: `Fsync`
  once a second, and `HostFails`, after which every process is gone, MySQL has all
  commits and Redis loads any list it had since the last fsync.
* **JobApi** has any number of overlapping POST and GET requests, IDs that may
  collide, calls that fail with or without effect, clients that leave and a process
  that dies; the answer is a status code and a format.
* **Config** says which environments `Load` and the constructors accept; **Startup**
  runs both services through load, open and ping of each store, build, serve and the
  stack of deferred `Close` calls, under Docker's `depends_on` and `restart`, with
  stores that come and go. Why a process stops serving is the business of AsyncJobs
  and HttpServer; `Serve` lets it end at any moment, counted by a bound.
* **JobTracker** is the React hook over `INSTANCE JobLifecycle` as its server: the
  loop of every `trackJob`, from await to await.
* **HttpServer** is `HTTPServer.Run` with its listening goroutine, inside the API
  process that closes the stores afterwards. `ShutdownFails` is possible whatever the
  requests do: net/http looks for idle connections from time to time only.

### State and code

| Variable | In the code |
|---|---|
| `rows[j]` | row of `jobs`; status `"none"` when there is none |
| `queue` | the Redis list, oldest first (LPUSH at the end, BRPOP at the head) |
| `api[j]` | where the POST that creates `j` is between its two calls |
| `payloadOK[j]` | the verdict of the handler of `j`'s type on its payload: a constant of the job, chosen when it is created (`PayloadSuitsType`), found out by `HandlerSucceeds` and `HandlerFails` |
| `service`, `ctxDone` | the worker process and its `signal.NotifyContext` |
| `dispatcher`, `held` | where `Dispatcher.Run` is; its local `jobID` |
| `worker[w]` | where a goroutine is, its `jobID`, its `entity` |
| `attempts[j]` | history: executions started, read by no action |

### Atomicity

A step is one call to MySQL or Redis with the code up to the next call, or one
channel operation. Memory between two calls is private to its goroutine, so
interleaving finer than this shows nothing new. A call takes effect at one moment.
It succeeds, or it fails (bound `MaxFaults`) with or without its effect, or the
cancelled context rejects it before it reaches the server: `database/sql` and
go-redis test the context first. A call in flight when the signal arrives behaves
as one of: the call and then the signal; a failed call and then the signal. Only
BRPOP blocks, and the cancellation does not interrupt it, so `Dequeue` and
`DequeueFault` stay possible afterwards.

A goroutine that returned from `Execute` tests the context only after an error;
after success it goes back to the `select`, which may still take an offered ID
although the context is done (Go chooses among ready cases). `Handoff` has no test
of the context for this reason.

## 3. Runs

The slowest run, `core_safety`, takes little more than a minute on two cores.

| Run | Bounds | Shows |
|---|---|---|
| `core_safety` | 2 jobs, 2 workers, 2 retries; 2 failed calls, a signal, a crash, a failure of the host; jobs and workers symmetric | an ID has one holder (`OneHolder`) and names a row (`ListedIsStored`), also when the list goes back in time; `RetryAccounting`; `OutcomeMatchesPayload`; the table implements `JobLifecycle` |
| `shutdown` | 2 jobs, 2 workers, 1 retry; one failed call, one signal, one crash | what a worker holds agrees with the table (`HolderKnowsRow`); list, dispatcher and channel implement `DeliveryQueue`; of a signalled service nothing is left but perhaps its BRPOP on an empty list (`ShutdownCompletes`); an accepted job settles or is stranded (`SettleOrStrand`), only a failed call, a signal or a crash strands it (`StrandedOnlyByFailure`), and then it stays so (`StrandedForGood`) |
| `duplicates` | 2 jobs, 2 workers, the real 3 retries; one push may be applied twice, nothing else goes wrong | rows stay well formed when workers overwrite each other (`RowsWellFormed`); no unfinished job is left behind (`NoStranded`); an accepted job settles for good (`EventuallySettled`) |
| `clocks` | 2 hosts, offsets -800, 0, 1200 ns, one setting of a clock, 1 retry, 4000 ns | `TimesOrdered`, `RowLoadable`, `RefusedOnlyBehind`, `UpdatesAdvance` |
| `job_api` | 3 requests, 2 IDs, 2 failed calls; both symmetric | `PushedIsOwn`, `RefusedLeavesNothing`, `AnswerTellsTheOutcome`, `KnownIsFound` |
| `startup` | every environment with at most one mistake; 2 outages, 1 kill | `EndedIsClosed`, `ServesMigrated`, `ConfigIsComplete`; both services serve in the end (`ServesInTheEnd`) |
| `payloads` | lengths, widths and ages around 200 and 100 bytes, 1 and 3650 days; 3 retries | `SuccessIsDocumented`, `DocumentedNeedsNoRetry`, `FormFailuresAreKnown`, `HopelessJobsAreTriedOut` |
| `tracker` | 2 jobs, 1 retry, 2 trackers, 1 bad answer | `ShownIsTracked`, `PollingIsAlive`, `EndsWithTheFinalState`, `NeverGoesBack`; a settled job does not stay "Live" (`PollingEnds`) |
| `http_shutdown` | 3 requests | Run's result tells the truth (`NilMeansAllAnswered`, `ListenErrorIsReported`); its last receive has a value to come (`NeverWaitsInVain`); Run returns (`SignalEndsTheServer`) |

Why the bounds are enough to be interesting: two workers and two jobs give every
pairwise race (same job twice, two jobs crossing in queue, dispatcher and worker);
in `core_safety` a failed call, a crash and a failure of the host may each hit the
recovery from another, with restarts in between; two retries distinguish first,
middle and last attempt, and `duplicates` uses the deployed three. The offsets of
`clocks` are below and above the rounding (500 ns) and a call (400 ns), so a refusal
by rounding alone would show. Three requests on two IDs give a collision next to a
reader. Two trackers give every late answer to an earlier question. The properties
proved below hold without these bounds.

`CHECK_DEADLOCK FALSE` everywhere: a service with an empty queue, a page whose job
is settled, a process that exited or a job that settled are at rest legitimately,
and the bounds exhaust. The type invariants are proved and in no run.

### Fairness

`FairSpec` assumes weak fairness of what the dispatcher does by itself
(`DispatcherRuns`), of each worker, of each request in progress, of `Exit` and of
`Start`. Goroutines are scheduled by the Go runtime, calls to MySQL and LPUSH return
because their connections have read and write timeouts (mysql.go:50-52,
redis.go:49-51), handlers wait for a timer of fixed length, and Compose restarts the
container (`restart: unless-stopped`; after a stop by hand the operator starts it).
BRPOP is the exception: called with timeout 0 it has no read deadline, and go-redis
v9 interrupts no read unless `ContextTimeoutEnabled` is set, which redis.go:42 does
not do. `Dequeue` is therefore fair only while the list has an ID, and
`DequeueCancelled` and `DequeueFault` have no fairness. This is why `ShutdownCompletes`
allows the service to wait in BRPOP (`WaitsInRedis`), from where the next ID or the
SIGKILL after `stop_grace_period` releases it.
No fairness for clients, signals, crashes and faults. Weak fairness of the disjunction
`WorkerStep(w)` is enough: at most one program counter is enabled, so a step that can
be taken stays possible until it is.

In `Startup` Docker starts and restarts (`Restart`), a store that is down comes back
(it has the same restart policy; the number of outages is bounded), the migration ends
and a process goes on. A signalled API leaves `Serve`, because `HttpServer` does; no
such promise is made for the worker. In `HttpServer` no handler promises to answer,
but the timer of the shutdown fires; in `JobTracker` polls are answered or fail and
timers fire, users owe nothing.

## 4. Where code and documentation disagree

Three have a run that ends in a counterexample.

* `processing_executing` (README.md:407, "Claimed by a worker and currently being
  executed"): claim, signal; the outcome is written with the cancelled context and
  is rejected. After every stop of a busy worker some rows may stay `processing`.
* `terminal_reopened` (README.md:392 and 408): an ID pushed twice by the client
  library, two workers load the pending row, one finishes, the other one's claim
  overwrites `success` with `processing`.
* `dispatcher_deadline` (pool.go:113, dispatcher.go:39): a dial timeout wraps
  `context.DeadlineExceeded` and ends the whole service with exit code 0.

Others show in the models' definitions and have no run of their own: a signal while
the dispatcher offers an ID drops it (`AbandonSend`; README.md:406 says that a pending
job is waiting in Redis); MySQL rounds times to microseconds (`Stored`), while
job_repository_integration_test.go:135 compares nanoseconds; unknown API paths and
methods are answered in plain text (`Unrouted`; README.md:288, "All API responses use
JSON"); the handlers' limits "in characters" count bytes (`Bytes`; send_email.go:163);
job_queue_integration_test.go:181 expects BRPOP on an empty list to end with its context
after 100 ms, which the client that redis.go:42 builds does not do (`WaitsInRedis`; the
test is skipped without a Redis server, and go-redis is not part of this repository, so
this rests on the behaviour of the version that go.mod requires).

The proofs complete the picture of the second: without a duplicated push a settled
job is never reopened (`SettledForGood`). They also say what the first needs: with
no failed call, signal or crash, a `processing` row is being executed
(`CalmProcessingIsExecuting`).

## 5. Proofs

TLAPS checks these for every set of jobs, workers, hosts and requests, every retry
limit and every value of the other bounds. Assumptions on constants are named and
evaluated by the runs: `MaxRetries` is a positive natural number, bounds are natural
numbers, "none" values are not members of what they stand beside, an environment gives
every name a value of its classes, lengths are natural numbers and ages of days integers,
a character has 1 to 4 bytes, no clock reads zero,
and two calls take at least the 500 ns that MySQL may round up
(`CallsOutlastRounding`). Theorems marked * also assume `MaxDuplicates = 0`, as an
`ASSUME` of the theorem; the run `terminal_reopened` shows what goes wrong otherwise.

| Module | Theorem | Statement |
|---|---|---|
| AsyncJobsProofs | `TypeCorrect` | `Spec => []TypeOK` |
| | `MutualExclusion` * | `Spec => []OneHolder` |
| | `HoldersAgreeWithTable` * | `Spec => []HolderKnowsRow` |
| | `LifecycleRefinement` * | `Spec => ImplementsLifecycle` |
| | `SettledForGood` * | `Spec => TerminalIsFinal` |
| | `DeliveryRefinement` | `Spec => ImplementsDelivery` |
| PipelineProofs | `RetryCounts` * | `Spec => []RetryAccounting` |
| | `NothingIsLost`, `CalmProcessingIsExecuting` | `Calm` and `Spec => []NoStranded`, `=> []ProcessingIsExecuting` |
| | `StrandedIsForGood` | `Spec => StrandedForGood` |
| | `OnlyFailuresStrand` * | `Spec => StrandedOnlyByFailure` |
| | `OutcomeIsThePayloads` | `Spec => []OutcomeMatchesPayload` |
| | `ExecutionsAreRecordable` | `Spec => []ExecutionIsRecordable` |
| | `RowsAreWellFormed` | `Spec => []RowsWellFormed` |
| | `ShutdownIsBounded` | `Spec => ShutdownDescends` |
| | `JobsAreBounded` *, `AcceptedJobsEnd` * | `Spec => JobStepsDescend`, `=> []EndsAtZero`: at most 7 * `MaxRetries` + 9 steps per job, of which the last leaves it settled or stranded |
| | `HostTypeCorrect`, `HostOutcomes`, `HostRowsAreWellFormed` | types, outcomes and rows under `HostSpec` |
| | `HostMutualExclusion` *, `HostListsAreStored` * (with `ClaimedIsKnown`), `HostRetryCounts` *, `HostLifecycle` * | the same properties under failures of the host |
| TimedJobProofs | `TimedTypeCorrect`, `TimesAreOrdered`, `RowsStayLoadable`, `RefusalsNeedASlowClock`, `UpdatedAtAdvances` | types, and the properties of `clocks` |
| | `FlagsStandForTimes`, `ClocksKeepTheLifecycle` | the flags of module Job are its times; the timed row implements `JobLifecycle` |
| StartupProofs | `StartupTypeCorrect`, `EndedProcessesAreClosed`, `MigrationComesFirst`, `LoadIsComplete` | types, and the safety of `startup` |
| | `UndisturbedStartsServe` | `Spec => StartsStraight` |
| PayloadsProofs | `PayloadsTypeCorrect`, `SuccessNeedsADocumentedPayload`, `DocumentedJobsRunOnce`, `FormFailures`, `HopelessJobsRunOut` | types, and the properties of `payloads` |
| | `PayloadsKeepTheLifecycle`, `JobsAreBounded` | `Spec => PayloadLifecycle` (the job implements `JobLifecycle`), `=> JobIsBounded` |
| JobApiProofs | `ApiTypeCorrect`, `PushesAreStored`, `RefusalsAreClean`, `AnswersAreTrue`, `KnownJobsAreFound`, `JobsAreNeverReplaced` | types, the properties of `job_api`, and `JobsAreKept` |
| HttpServerProofs | `ServerTypeCorrect`, `NilIsHonest`, `ListenErrorsSurface`, `RunIsNeverLeftWaiting` | types, and the safety of `http_shutdown` |
| | `ServerStepsAreBounded` | `Spec => ServerIsBounded` |
| TrackerProofs | `TrackerTypeCorrect`, `ShowsTheTrackedJob`, `LiveIsTrue`, `EndsCorrectly`, `PageGoesForward` | types, and the safety of `tracker` |
| | `OvertakenLoopsEnd`, `SettledPollingIsBounded` | `Spec => OvertakenEnds`, `=> SettledPollingDescends` |

The argument for the pipeline:

1. `TypeInv = TypeOK /\ Shape` is inductive. `TypeOK` alone is not: a worker in a
   busy state must hold a job, or the row it reads would not exist. `Shape` says
   that program counters and held IDs agree.
2. `HolderInv = TypeInv /\ OneHolder /\ HolderKnowsID /\ RequestKnowsRow` is
   inductive. The parts need each other: a worker's knowledge of its row survives
   the steps of others only because no other goroutine holds the ID, and an ID has
   one holder because a request pushes it once and a worker pushes it back only
   when it lets go of it. It asks of a queued ID only that it names a row, of any
   status, because that is what is left after a failure of the host; the stronger
   `HolderKnowsRow` (the row is pending) is inductive beside it where the list does
   not go back.
3. From `HolderInv`, a row changes only by the transition its present state allows,
   hence the refinement and `TerminalIsFinal`.
4. `AttemptsInv` strengthens `RetryAccounting` by what holds while a job executes;
   only the holder counts and writes, so the two advance together.
5. `OutcomeInv` needs none of this: an ID nobody asked for is nowhere (`Fresh`), so a
   job's payload is settled before anyone can hold it; from then on every entity a
   worker carries respects the payload, except a failure recorded under a cancelled
   context, which the same context keeps from being written. It therefore holds with
   duplicated pushes too, as does `FormedInv` (rows and the entities in memory are
   well formed), from which `RowsWellFormed` follows.
6. Being left behind is for good because an ID that is nowhere has no way back
   (`NowhereStays`) and only holders write rows (`OnlyHoldersWrite`). A step without
   failure takes an ID out of all hands in three ways only (`CalmDrops`): a worker
   finds the row claimed already, which `HolderKnowsRow` excludes, or writes a final
   success, or a final failure. `StrandedForGood` is not claimed of `HostSpec`: a
   list that goes back in time may bring a lost ID back.
   `LiveInv` (under `Calm`) makes of this an invariant that needs no mutual exclusion:
   a pending row has its ID on the way, a processing row a worker that executes it.
   Workers with a duplicated ID may overwrite the row, but only make it pending with
   an ID of their own to push, or final.
   The prover cannot conclude that a signalled service ends or waits in BRPOP, but it
   proves the measure behind it: once the context is done, a rank of dispatcher (at
   most 2) and workers (at most 3 each) goes down with each of their steps and up with
   nobody's.
7. The refinement of `DeliveryQueue` needs only `TypeInv`: each action publishes,
   delivers, loses, releases, ends or stutters under the mapping.
8. A job's rank is the place of its ID (request, list, dispatcher, stage of a worker)
   and 7 for each retry left. `Places` shows that the rank is well defined, because
   `OneHolder` leaves an ID one place; then each step of the job lowers it
   (`TakesDescend`), also the failed attempt that goes round once more, because it uses
   a retry, and every other step, a crash included, leaves it or ends it
   (`OthersKeepRank`). With `HolderKnowsRow` and `AcceptedIsKnown`, an accepted job's
   rank is 0 exactly when it is settled or stranded. With duplicated pushes this is
   false: `terminal_reopened` shows a final row that becomes unfinished again.
9. `HostInv` is `HolderInv /\ AttemptsInv` and that every list that may come back is
   injective and names rows. A failure empties every hand, so the list that comes
   back is the only holder, and rows are never unwritten (`KnownStays`).

The others:

* `TimesInv` relates what an attempt holds to its row; `SteadyInv`, for clocks that
  are not set, says how far behind its writer's clock a row's `updated_at` is at each
  point: two calls lie between a write and the next comparison on another entity,
  and they outlast the rounding. That is why rounding alone refuses nothing.
  `LifeInv` says that the entity is the row's, or one transition ahead of it, and that
  the flags of either are set with its times: no time that a clock reads is rounded to
  the one that stands for NULL (`FlagsWritten`). This ties the two models of a job
  together: the pipeline is proved about flags, which the times implement.
* `StartupInv`: until run ends, what is open and the stack of deferred calls are
  determined by where the process is (`HoldsAt`), and the stack holds just what is open
  (`Owed`), except while a store is being pinged: its pool is open and nobody has
  deferred its Close yet. Each way out of run restores the exact match, the failed ping
  only by its own Close, and each deferred Close keeps it. No process starts before the
  migration, and none goes past the configuration with one that a constructor refuses.
* `PayloadsInv`: a recorded failure has the reason that validation gives for this payload,
  at each attempt the same (`Verdict`), and a form's payload is one the form allows.
  What the handlers decide is which transition a job takes, never another one, hence
  the refinement of `JobLifecycle` by `Payloads` too.
* `JobApiProofs!Inv` says for each request what it has stored and pushed, given its
  next call or its answer (`Progress`); a step of one request disturbs no other
  because rows are only added, with its own name, and pushes only grow (`Moves`).
* `ServerInv`: nothing is cut before Run returns, nothing is accepted after the call
  of Shutdown, and the listener's error stays in the channel until it is the result.
  `Unreceived` adds that a value not taken yet is still to come or in the channel, so
  the last receive of Run, which has no deadline, ends.
* `PageInv`: the server only moves forward (`ServerMoves`), so an answer can be outdated
  only by being earlier; a loop of an older generation shows nothing; the page is
  never ahead of the answer its loop still waits for (`Behind`). A loop is moved by
  its own steps only (`LoopsMoveThemselves`), an overtaken one only towards its end.

Only model-checked is liveness, because the prover has no ENABLED: `EventuallySettled`,
`SettleOrStrand`, `ShutdownCompletes`, `SignalEndsTheServer`, `PollingEnds` and
`ServesInTheEnd`. For each of them the other half is proved, for every value of the
constants: that the steps which fairness promises are boundedly many and lead to the
end (`JobsAreBounded` and `AcceptedJobsEnd` of PipelineProofs; `ShutdownIsBounded`;
`ServerStepsAreBounded` and `RunIsNeverLeftWaiting`; `SettledPollingIsBounded`;
`UndisturbedStartsServe`). What TLC adds is that such a step is enabled until then.

Every safety property of a passing run has a theorem. In no run are the type invariants
of some modules, the measures above, `FlagsStandForTimes`, `ClocksKeepTheLifecycle`,
`PayloadsKeepTheLifecycle`, `OvertakenLoopsEnd`, `ExecutionsAreRecordable` and
`JobsAreKept`: they are proved instead.

## 6. Not modelled, and why

* `Job.MarkFailed`: nothing in the program calls it (`RecordFailure` does both cases).
* Health endpoints: a request pings MySQL and Redis in turn under one timeout; it
  keeps no state, and nothing in the program reads its answer.
* Logging, the lifecycle observer, request IDs, cache and security headers, the
  components that only render: without influence on control or on any stored state.
* The simulated executor: no command uses it.
* Pool sizes, connection lifetimes and the time limits of containers and servers: no
  model has real time except `TimedJob`; a timeout may happen at any moment. For this
  reason nothing is said about the API's grace period being equal to its shutdown
  timeout (docker-compose.yml:83).
* The bytes of JSON, UUIDs and addresses: classes of them stand for what the code
  tells apart.
* Scripts, Makefile, Dockerfile: outside the running system.

## 7. Plan

Done: every component that decides anything, the refinements of `JobLifecycle` and
`DeliveryQueue`, and a proof of every safety property. What is left:

1. The pipeline with two worker processes on one list (`docker compose --scale`), to
   see which properties depend on there being one.
2. `JobTracker` over `JobApi` instead of the abstract lifecycle, so that the page sees
   404 and 500 for the reasons the API has.
