-------------------------- MODULE ProcessorWorker --------------------------
(***************************************************************************)
(* A goroutine of the pool: ProcessorWorker.Run around ProcessJob.Execute. *)
(* The worker loads the row, claims it, executes the job, writes down the  *)
(* outcome and publishes a retry; between two of these calls anything may  *)
(* happen to the row, and no call tests what it overwrites.                *)
(***************************************************************************)
EXTENDS Pipeline

\* The channel is closed, or the context is cancelled.
WorkerStops(w) ==
    /\ worker[w].pc = "receive"
    /\ ctxDone \/ dispatcher = "stopped"
    /\ worker' = [worker EXCEPT ![w] = Without("stopped")]
    /\ UNCHANGED <<rows, queue, request, process, dispatcher, held, attempts, budget>>

Goto(w, pc, e) ==
    worker' = [worker EXCEPT ![w] = [pc |-> pc, job |-> worker[w].job, entity |-> e]]

\* The goroutine ends after one job.
ReturnMutant(w) == worker' = [worker EXCEPT ![w] = Without("stopped")]

\* Execute returns, with or without an error, and nobody holds the ID any more.
Return(w) ==
    worker' = [worker EXCEPT ![w] = Without(IF ctxDone THEN "stopped" ELSE "receive")]

Load(w) ==
    LET row == rows[worker[w].job] IN
    /\ worker[w].pc = "load"
    /\ \/ CallSucceeds /\ CanMarkProcessing(row) /\ Goto(w, "claim", MarkProcessing(row))
       \/ CallSucceeds /\ ~CanMarkProcessing(row) /\ Return(w)
       \/ (CallFaults \/ CallRejected) /\ Return(w)
    /\ UNCHANGED <<rows, queue, request, process, dispatcher, held, attempts,
                   duplicates, limits>>

Claim(w) ==
    LET j == worker[w].job
        e == worker[w].entity IN
    /\ worker[w].pc = "claim"
    /\ \/ /\ CallSucceeds
          /\ Store(j, e)
          /\ attempts' = [attempts EXCEPT ![j] = @ + 1]
          /\ Goto(w, "execute", e)
       \/ CallFaults /\ StoreFails(j, e) /\ Return(w) /\ UNCHANGED attempts
       \/ CallRejected /\ Return(w) /\ UNCHANGED <<rows, attempts>>
    /\ UNCHANGED <<queue, request, process, dispatcher, held, duplicates, limits>>

\* Handle, the same in the handlers of the three types: it rejects a payload that
\* does not suit its type at once, and otherwise lets its timer race the context.
HandlerSucceeds(j) == payloadOK[j]
HandlerFails(j)    == ~payloadOK[j] \/ ctxDone

\* The clock is behind updated_at, which makes the transition fail.
ClockBehind == Fault

\* The outcome is recorded in the entity only.
Execute(w) ==
    LET j == worker[w].job
        e == worker[w].entity IN
    /\ worker[w].pc = "execute"
    /\ CanFinish(e)
    /\ \/ HandlerSucceeds(j) /\ Goto(w, "complete", MarkSuccess(e)) /\ UNCHANGED faults
       \/ HandlerFails(j) /\ Goto(w, "record", RecordFailure(e)) /\ UNCHANGED faults
       \/ ClockBehind /\ Return(w)
    /\ UNCHANGED <<rows, queue, request, process, dispatcher, held, attempts,
                   duplicates, limits>>

PersistSuccess(w) ==
    LET j == worker[w].job
        e == worker[w].entity IN
    /\ worker[w].pc = "complete"
    /\ Return(w)
    /\ \/ CallSucceeds /\ Store(j, e)
       \/ CallFaults /\ StoreFails(j, e)
       \/ CallRejected /\ UNCHANGED rows
    /\ UNCHANGED <<queue, request, process, dispatcher, held, attempts,
                   duplicates, limits>>

\* The retry is published although the row could not be written.
PersistFailureMutant(w) ==
    LET j == worker[w].job
        e == worker[w].entity IN
    /\ worker[w].pc = "record"
    /\ (CallSucceeds /\ Store(j, e)) \/ (CallFaults /\ StoreFails(j, e))
    /\ IF e.status = "pending" THEN Goto(w, "requeue", e) ELSE Return(w)
    /\ UNCHANGED <<queue, request, process, dispatcher, held, attempts,
                   duplicates, limits>>

\* The row is written before the retry is published, and without the row there
\* is no retry.
PersistFailure(w) ==
    LET j == worker[w].job
        e == worker[w].entity IN
    /\ worker[w].pc = "record"
    /\ \/ /\ CallSucceeds
          /\ Store(j, e)
          /\ IF e.status = "pending" THEN Goto(w, "requeue", e) ELSE Return(w)
       \/ CallFaults /\ StoreFails(j, e) /\ Return(w)
       \/ CallRejected /\ UNCHANGED rows /\ Return(w)
    /\ UNCHANGED <<queue, request, process, dispatcher, held, attempts,
                   duplicates, limits>>

\* The retry is recorded but never published.
RequeueMutant(w) ==
    /\ worker[w].pc = "requeue"
    /\ Return(w)
    /\ UNCHANGED <<rows, queue, request, process, dispatcher, held, attempts, budget>>

Requeue(w) ==
    LET j == worker[w].job IN
    /\ worker[w].pc = "requeue"
    /\ Return(w)
    /\ \/ CallSucceeds /\ LPush(j)
       \/ CallFaults /\ LPushFails(j)
       \/ CallRejected /\ UNCHANGED <<queue, duplicates>>
    /\ UNCHANGED <<rows, request, process, dispatcher, held, attempts, limits>>

WorkerStep(w) == \/ WorkerStops(w) \/ Load(w) \/ Claim(w) \/ Execute(w)
                 \/ PersistSuccess(w) \/ PersistFailure(w) \/ Requeue(w)

=============================================================================
