----------------------------- MODULE CreateJob -----------------------------
(***************************************************************************)
(* POST /api/v1/jobs: the handler and the CreateJob use case.  The row is  *)
(* committed first and the ID is published second; nothing undoes the      *)
(* first step when the second one fails.                                   *)
(***************************************************************************)
EXTENDS Pipeline

\* The API accepts any non-empty JSON object.  Whether it suits the job's type is
\* a fact of the payload that only the handler of that type finds out.
PayloadSuitsType(j) == \E ok \in BOOLEAN : payloadOK' = [payloadOK EXCEPT ![j] = ok]

\* A client that was told 503 sends its request again, with the same ID.
SubmitMutant(j) ==
    /\ api[j] \in {"idle", "failed"}
    /\ api' = [api EXCEPT ![j] = "persist"]
    /\ PayloadSuitsType(j)
    /\ UNCHANGED <<rows, queue, memory, attempts, budget>>

\* A request that passed validation: the use case has a new ID and a pending
\* entity.
Submit(j) ==
    /\ api[j] = "idle"
    /\ api' = [api EXCEPT ![j] = "persist"]
    /\ PayloadSuitsType(j)
    /\ UNCHANGED <<rows, queue, memory, attempts, budget>>

\* JobRepository.Create: the ID is a new random one, so no row has it yet.
Insert(j) == Store(j, New)

\* The ID is published although the row could not be written.
PersistMutant(j) ==
    /\ api[j] = "persist"
    /\ \/ Insert(j) /\ UNCHANGED faults
       \/ Fault /\ StoreFails(j, New)
    /\ api' = [api EXCEPT ![j] = "publish"]
    /\ UNCHANGED <<queue, payloadOK, memory, attempts, duplicates, limits>>

Persist(j) ==
    /\ api[j] = "persist"
    /\ \/ /\ Insert(j)
          /\ api' = [api EXCEPT ![j] = "publish"]
          /\ UNCHANGED faults
       \/ /\ Fault
          /\ StoreFails(j, New)
          /\ api' = [api EXCEPT ![j] = "failed"]
    /\ UNCHANGED <<queue, payloadOK, memory, attempts, duplicates, limits>>

\* An enqueue error goes to the client (503); the row stays pending.
Publish(j) ==
    /\ api[j] = "publish"
    /\ \/ /\ LPush(j)
          /\ api' = [api EXCEPT ![j] = "accepted"]
          /\ UNCHANGED faults
       \/ /\ Fault
          /\ LPushFails(j)
          /\ api' = [api EXCEPT ![j] = "failed"]
    /\ UNCHANGED <<rows, payloadOK, memory, attempts, limits>>

\* The API process dies, or the client disconnects, between two calls.
RequestLost(j) ==
    /\ api[j] \in {"persist", "publish"}
    /\ crashes < MaxCrashes
    /\ crashes' = crashes + 1
    /\ api' = [api EXCEPT ![j] = "failed"]
    /\ UNCHANGED <<rows, queue, payloadOK, memory, attempts, faults, duplicates, signals>>

RequestStep(j) == Persist(j) \/ Publish(j)

=============================================================================
