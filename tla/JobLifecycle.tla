---------------------------- MODULE JobLifecycle ----------------------------
(***************************************************************************)
(* What the system promises of every job, whatever queue, workers, crashes *)
(* and faults do: the status and the retry counter a client reads from     *)
(* GET /api/v1/jobs/{id} move only along the lifecycle of the domain       *)
(* entity, one whole transition at a time, and a terminal job never moves  *)
(* again.  AsyncJobs refines this module, with the row as the job.         *)
(***************************************************************************)
EXTENDS Naturals

CONSTANTS Jobs,         \* job IDs
          MaxRetries    \* retries allowed after the first attempt

VARIABLES status,       \* status[j], "none" before the job exists
          retryCount    \* retryCount[j]

vars == <<status, retryCount>>

Init == /\ status = [j \in Jobs |-> "none"]
        /\ retryCount = [j \in Jobs |-> 0]

Move(j, from, to) == /\ status[j] = from
                     /\ status' = [status EXCEPT ![j] = to]

Create(j)  == Move(j, "none", "pending") /\ UNCHANGED retryCount

Start(j)   == Move(j, "pending", "processing") /\ UNCHANGED retryCount

Succeed(j) == Move(j, "processing", "success") /\ UNCHANGED retryCount

Retry(j)   == /\ retryCount[j] < MaxRetries
              /\ Move(j, "processing", "pending")
              /\ retryCount' = [retryCount EXCEPT ![j] = @ + 1]

Exhaust(j) == /\ retryCount[j] = MaxRetries
              /\ Move(j, "processing", "failed")
              /\ UNCHANGED retryCount

Next == \E j \in Jobs :
            Create(j) \/ Start(j) \/ Succeed(j) \/ Retry(j) \/ Exhaust(j)

Spec == Init /\ [][Next]_vars

=============================================================================
