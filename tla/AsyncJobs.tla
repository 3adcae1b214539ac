----------------------------- MODULE AsyncJobs -----------------------------
(***************************************************************************)
(* The whole pipeline: API requests, dispatcher and workers over one table *)
(* and one list, inside a worker service that is started, signalled, that  *)
(* exits and that crashes; and the properties of the pipeline.             *)
(***************************************************************************)
EXTENDS CreateJob, Dispatcher, ProcessorWorker, Functions

\* Docker starts the container; connections are open and all goroutines run.
Start ==
    /\ service = "down"
    /\ service' = "up"
    /\ dispatcher' = "dequeue"
    /\ worker' = [w \in Workers |-> Without("receive")]
    /\ UNCHANGED <<rows, queue, request, ctxDone, held, attempts, budget>>

\* SIGTERM or SIGINT cancels the context.
Signal ==
    /\ service = "up"
    /\ ~ctxDone
    /\ signals < MaxSignals
    /\ signals' = signals + 1
    /\ ctxDone' = TRUE
    /\ UNCHANGED <<rows, queue, request, service, dispatcher, held, worker, attempts,
                   faults, duplicates, crashes>>

Down ==
    /\ service' = "down"
    /\ ctxDone' = FALSE
    /\ dispatcher' = "stopped"
    /\ held' = NoJob
    /\ worker' = [w \in Workers |-> Without("stopped")]

\* Pool.Run returns when the dispatcher and every worker have returned.
Exit ==
    /\ service = "up"
    /\ dispatcher = "stopped"
    /\ \A w \in Workers : worker[w].pc = "stopped"
    /\ Down
    /\ UNCHANGED <<rows, queue, request, attempts, budget>>

\* A crash, or the SIGKILL that ends the grace period: memory is lost.
Crash ==
    /\ service = "up"
    /\ crashes < MaxCrashes
    /\ crashes' = crashes + 1
    /\ Down
    /\ UNCHANGED <<rows, queue, request, attempts, faults, duplicates, signals>>

Next == \/ \E j \in Jobs : Submit(j) \/ RequestStep(j) \/ RequestLost(j)
        \/ DispatcherStep
        \/ \E w \in Workers : WorkerStep(w)
        \/ Start \/ Signal \/ Exit \/ Crash

Spec == Init /\ [][Next]_vars

\* Goroutines that can run do run, a request in progress goes on, and Docker
\* (restart: unless-stopped) or the operator brings the service back up.  A BRPOP
\* that waits for an ID ends when there is one: nothing else is promised of it.
Fairness == /\ \A j \in Jobs : WF_vars(RequestStep(j))
            /\ WF_vars(DispatcherRuns)
            /\ \A w \in Workers : WF_vars(WorkerStep(w))
            /\ WF_vars(Exit)
            /\ WF_vars(Start)

FairSpec == Spec /\ Fairness

-----------------------------------------------------------------------------
(* Properties.                                                             *)

\* Every variable keeps its type; in particular no row's retry counter passes
\* MaxRetries (the range job.Restore and the table's CHECK accept).
TypeOK ==
    /\ rows \in [Jobs -> Entity]
    /\ queue \in Seq(Jobs)
    /\ api \in [Jobs -> ApiPC]
    /\ payloadOK \in [Jobs -> BOOLEAN]
    /\ service \in {"up", "down"}
    /\ ctxDone \in BOOLEAN
    /\ dispatcher \in DispatcherPC
    /\ held \in Jobs \cup {NoJob}
    /\ worker \in [Workers -> [pc : WorkerPC, job : Jobs \cup {NoJob}, entity : Entity]]
    /\ attempts \in [Jobs -> Nat]
    /\ faults \in Nat /\ signals \in Nat /\ crashes \in Nat /\ duplicates \in Nat

Queued(j)    == j \in Range(queue)
Handling(j)  == {w \in Workers : worker[w].job = j}
Requested(j) == api[j] \in {"persist", "publish"}
InFlight(j)  == Requested(j) \/ Queued(j) \/ held = j \/ Handling(j) # {}
Settled(j)   == rows[j].status \in Terminal
Stranded(j)  == rows[j].status \in {"pending", "processing"} /\ ~InFlight(j)

\* A worker that has left "receive" holds a job, and only such a worker does;
\* the dispatcher holds an ID exactly while it offers it; a service that is
\* down has no dispatcher.
BusyPC == WorkerPC \ {"receive", "stopped"}
Shape ==
    /\ \A w \in Workers : worker[w].pc \in BusyPC <=> worker[w].job # NoJob
    /\ held # NoJob <=> dispatcher = "send"
    /\ service = "down" => dispatcher = "stopped"

TypeInv == TypeOK /\ Shape

\* Unless a push is duplicated, an ID is in one place only: with the request
\* that creates it, once in the list, with the dispatcher, or with one worker.
\* Two goroutines never process the same job, whatever crashes or fails.
OneHolder ==
    /\ IsInjective(queue)
    /\ \A v, w \in Workers :
          worker[v].job = worker[w].job => v = w \/ worker[w].job = NoJob
    /\ \A w \in Workers :
          LET j == worker[w].job IN
          j # NoJob => ~Queued(j) /\ held # j /\ ~Requested(j)
    /\ held # NoJob => ~Queued(held) /\ ~Requested(held)
    /\ \A j \in Jobs : Requested(j) => ~Queued(j)

\* What a worker holds still describes the row, although other goroutines run
\* between its calls: an ID that is queued, offered or just received names a
\* committed pending row, so a worker never receives an ID "while MySQL still
\* says processing", and an entity is always one transition ahead of its row.
ClaimKnowsRow(w) ==
    LET pc  == worker[w].pc
        e   == worker[w].entity
        row == rows[worker[w].job] IN
    /\ pc = "claim"    => row.status = "pending" /\ e = MarkProcessing(row)
    /\ pc = "execute"  => row.status = "processing" /\ e = row
    /\ pc = "complete" => row.status = "processing" /\ e = MarkSuccess(row)
    /\ pc = "record"   => row.status = "processing" /\ e = RecordFailure(row)
    /\ pc = "requeue"  => row.status = "pending" /\ e = row

WorkerKnowsRow(w) ==
    /\ worker[w].pc = "load" => rows[worker[w].job].status = "pending"
    /\ ClaimKnowsRow(w)

HolderKnowsRow ==
    /\ \A j \in Jobs : Queued(j) => rows[j].status = "pending"
    /\ held # NoJob => rows[held].status = "pending"
    /\ \A w \in Workers : WorkerKnowsRow(w)

\* The same of the request that creates the job: no row before Persist, a
\* pending one between Persist and Publish.
RequestKnowsRow ==
    \A j \in Jobs : /\ api[j] \in {"idle", "persist"} => rows[j] = NoRow
                    /\ api[j] = "publish" => rows[j].status = "pending"

\* What the rest needs of it is less, and also survives a list that comes back as
\* it was earlier (HostFailure): the ID names some row, of any status until a
\* worker has found it pending.
Known(j) == rows[j].status # "none"

WorkerKnowsID(w) ==
    /\ worker[w].pc = "load" => Known(worker[w].job)
    /\ ClaimKnowsRow(w)

HolderKnowsID ==
    /\ \A j \in Jobs : Queued(j) => Known(j)
    /\ held # NoJob => Known(held)
    /\ \A w \in Workers : WorkerKnowsID(w)

\* Together they are inductive (when no push is duplicated).
HolderInv == TypeInv /\ OneHolder /\ HolderKnowsID /\ RequestKnowsRow

\* retry_count counts executions: a job back in pending has used exactly
\* retryCount attempts, a finished one exactly one more, so the executor runs at
\* most MaxRetries + 1 times per job, through crashes and lost replies.
RetryAccounting ==
    \A j \in Jobs :
        LET r == rows[j].retryCount IN
        CASE rows[j].status \in {"none", "pending"} -> attempts[j] = r
          [] rows[j].status = "processing"          -> attempts[j] \in {r, r + 1}
          [] rows[j].status \in Terminal            -> attempts[j] = r + 1

\* Inductive with HolderInv: a job whose execution has started counts it.
AttemptsInv ==
    /\ RetryAccounting
    /\ \A w \in Workers :
          worker[w].pc \in {"execute", "complete", "record"} =>
              attempts[worker[w].job] = rows[worker[w].job].retryCount + 1

\* The recorded outcome is the payload's, never the shutdown's: a job is failed
\* only when its handler rejects the payload and the retries are used up, and a
\* cancelled execution is never written down as a failed attempt.
OutcomeMatchesPayload ==
    \A j \in Jobs :
        /\ rows[j].status = "success" => payloadOK[j]
        /\ rows[j].status = "failed" => ~payloadOK[j] /\ ~CanRetry(rows[j])
        /\ payloadOK[j] => rows[j].retryCount = 0 /\ ~rows[j].lastError

\* Inductive, duplicated pushes or not: an ID is unknown before its request,
\* and an entity about to be written respects its payload, except a failure
\* caused by the cancelled context, which can no longer be written.
Fresh(j) == rows[j] = NoRow /\ ~Queued(j) /\ held # j /\ \A w \in Workers : worker[w].job # j

Unspoiled(j, e) == payloadOK[j] => e.retryCount = 0 /\ ~e.lastError

WorkerRespectsPayload(w) ==
    LET pc == worker[w].pc
        j  == worker[w].job
        e  == worker[w].entity IN
    /\ pc \in {"claim", "execute"} => e.status = "processing" /\ Unspoiled(j, e)
    /\ pc = "complete" => e.status = "success" /\ payloadOK[j] /\ Unspoiled(j, e)
    /\ pc = "record" =>
          /\ ~payloadOK[j] \/ ctxDone
          /\ e.status = "pending" \/ (e.status = "failed" /\ ~CanRetry(e))

OutcomeInv ==
    /\ TypeInv
    /\ OutcomeMatchesPayload
    /\ \A j \in Jobs : api[j] = "idle" => Fresh(j)
    /\ \A w \in Workers : WorkerRespectsPayload(w)

\* Every row reads as one consistent job, also when duplicated IDs make workers
\* overwrite each other's rows with entities they loaded earlier: the optional
\* columns are set exactly when the status and the retry counter say so.
RowsWellFormed ==
    \A j \in Jobs :
        LET e == rows[j] IN
        /\ e.completedAt <=> e.status \in Terminal
        /\ e.startedAt <=> e.status \in {"processing"} \cup Terminal \/ e.retryCount > 0
        /\ e.lastError <=> e.status = "failed" \/ (e.status # "success" /\ e.retryCount > 0)
        /\ e.status = "failed" => ~CanRetry(e)

\* README, status table: a processing job is claimed by a worker and being executed.
ProcessingIsExecuting ==
    \A j \in Jobs : rows[j].status = "processing" => Handling(j) # {}

\* Without faults, signals and crashes no unfinished job is left behind, also when
\* duplicated IDs make workers overwrite each other's rows: the retry of a failed
\* attempt is always on its way back to a worker.
NoStranded == \A j \in Jobs : ~Stranded(j)

\* Nothing goes back for a stranded job: no goroutine scans the table for rows that
\* nobody works on, no client sends its request again, no ID appears from nowhere.
StrandedForGood == [][\A j \in Jobs : Stranded(j) => Stranded(j)']_vars

\* Only a failed call, a crash or a cancelled context strands a job. In particular
\* the normal end of a worker's or dispatcher's turn, a refused claim, or an exit
\* after the dispatcher gave up never drops the last trace of an unfinished job.
StrandedOnlyByFailure ==
    [][\A j \in Jobs : Stranded(j)' =>
          Stranded(j) \/ ctxDone \/ faults' > faults \/ crashes' > crashes]_vars

\* pool.go: Dispatcher.Run returns on cancellation (and not before).
DispatcherStopsOnlyWhenCancelled ==
    service = "up" /\ dispatcher = "stopped" => ctxDone

\* README: a successful job needs no more processing, and domain methods control
\* the transitions; so the status of a settled job never changes again.
TerminalIsFinal ==
    [][\A j \in Jobs : Settled(j) => rows'[j].status = rows[j].status]_vars

\* The table seen through status and retry counter is the abstract lifecycle:
\* no interleaving of workers overwrites a row with a transition the row's
\* current state does not allow.
Lifecycle == INSTANCE JobLifecycle WITH
                 status     <- [j \in Jobs |-> rows[j].status],
                 retryCount <- [j \in Jobs |-> rows[j].retryCount]
ImplementsLifecycle == Lifecycle!Spec

\* Redis list, dispatcher and channel together are one queue: IDs reach the workers
\* in the order of their publication, one at a time, and a worker publishes an ID
\* again only when it lets go of it.
Waiting == (IF held = NoJob THEN <<>> ELSE <<held>>) \o queue

Delivery == INSTANCE DeliveryQueue WITH
                Items     <- Jobs,
                Consumers <- Workers,
                None      <- NoJob,
                waiting   <- Waiting,
                holding   <- [w \in Workers |-> worker[w].job]
ImplementsDelivery == Delivery!Spec

\* An accepted job ends in success or failed and stays there.
EventuallySettled == \A j \in Jobs : api[j] = "accepted" ~> []Settled(j)

\* Whatever goes wrong, an accepted job is not handled forever: it settles, or
\* it is left stranded for good, with no ID and no goroutine that could move it.
SettleOrStrand ==
    \A j \in Jobs : api[j] = "accepted" ~> ([]Settled(j)) \/ ([]Stranded(j))

\* The service's BRPOP waits on an empty list, and everything else of it has ended.
WaitsInRedis == /\ dispatcher = "dequeue" /\ queue = <<>>
                /\ \A w \in Workers : worker[w].pc = "stopped"

\* A signalled worker service ends: nothing but a BRPOP that nobody wakes keeps it from
\* exiting, no goroutine waits on another, and the ID that wakes the BRPOP ends it.
ShutdownCompletes == ctxDone ~> service = "down" \/ WaitsInRedis

=============================================================================
