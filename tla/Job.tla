-------------------------------- MODULE Job --------------------------------
(***************************************************************************)
(* The domain entity job.Job (internal/domain/job) and the MySQL row it is *)
(* stored as.  An entity and its row hold the same fields, so one record    *)
(* stands for both:                                                        *)
(*                                                                         *)
(*   status       the lifecycle state; "none" when no row exists           *)
(*   retryCount   retries already scheduled                                *)
(*   lastError    whether last_error is set (its text is abstracted)       *)
(*   startedAt    whether started_at is set                                *)
(*   completedAt  whether completed_at is set                              *)
(*                                                                         *)
(* The operators are the entity's transitions; each guard operator is the  *)
(* early return of the method that it precedes.  A clock that runs behind  *)
(* updated_at makes every transition fail (transitionTime); the processes  *)
(* that call the operators treat that as one of their faults.              *)
(***************************************************************************)
EXTENDS Naturals

CONSTANT MaxRetries   \* DefaultMaxRetries: retries allowed after the first attempt

ASSUME MaxRetriesAssumption == MaxRetries \in Nat \ {0}

Status == {"pending", "processing", "success", "failed"}
Terminal == {"success", "failed"}

Entity == [status      : Status \cup {"none"},
           retryCount  : 0..MaxRetries,
           lastError   : BOOLEAN,
           startedAt   : BOOLEAN,
           completedAt : BOOLEAN]

NoRow == [status |-> "none", retryCount |-> 0,
          lastError |-> FALSE, startedAt |-> FALSE, completedAt |-> FALSE]

New == [NoRow EXCEPT !.status = "pending"]

\* Definitions named ...Mutant are the next one with a plausible mistake.
CanRetryEarlyMutant(e) == e.retryCount + 1 < MaxRetries   \* one too few
CanRetry(e) == e.retryCount < MaxRetries

CanMarkProcessingMutant(e) == e.status \notin {"none", "success"}   \* any unfinished job
CanMarkProcessing(e) == e.status = "pending"

MarkProcessing(e) ==
    [e EXCEPT !.status = "processing", !.startedAt = TRUE, !.completedAt = FALSE]

\* MarkSuccess and RecordFailure accept only a job that is being processed.
CanFinish(e) == e.status = "processing"

MarkSuccess(e) ==
    [e EXCEPT !.status = "success", !.completedAt = TRUE, !.lastError = FALSE]

RecordFailure(e) ==
    IF CanRetry(e)
    THEN [e EXCEPT !.status = "pending", !.retryCount = @ + 1,
                   !.lastError = TRUE, !.completedAt = FALSE]
    ELSE [e EXCEPT !.status = "failed", !.lastError = TRUE, !.completedAt = TRUE]

=============================================================================
