---------------------------- MODULE HostFailure ----------------------------
(***************************************************************************)
(* The pipeline on the one host of docker-compose.yml, which may fail as a  *)
(* whole.  MySQL's commits survive (InnoDB flushes its log at every commit); *)
(* Redis runs with appendfsync everysec, so its list comes back as it was   *)
(* at some moment since the last fsync: later pushes are gone, IDs popped    *)
(* later are in the list again.  A Redis process that dies alone loses       *)
(* nothing, since it writes its log before it replies.                      *)
(***************************************************************************)
EXTENDS AsyncJobs

CONSTANT MaxFailures        \* bound: failures of the host

ASSUME FailuresAssumption == MaxFailures \in Nat

VARIABLES
    recoverable,    \* the lists a restarted Redis may load
    failures        \* used part of the bound

host     == <<recoverable, failures>>
hostVars == <<vars, host>>

HostInit == Init /\ recoverable = {<<>>} /\ failures = 0

JobsStep ==
    /\ Next
    /\ recoverable' = recoverable \cup {queue'}
    /\ UNCHANGED failures

\* Once a second.
Fsync ==
    /\ recoverable' = {queue}
    /\ UNCHANGED <<vars, failures>>

\* Redis starts from one of the lists that its log may hold.
LoadList == queue' \in recoverable

\* Every process dies; the containers are started again (restart: unless-stopped).
HostFails ==
    /\ failures < MaxFailures
    /\ failures' = failures + 1
    /\ LoadList
    /\ recoverable' = {queue'}
    /\ Down
    /\ api' = [j \in Jobs |-> IF Requested(j) THEN "failed" ELSE api[j]]
    /\ UNCHANGED <<rows, payloadOK, attempts, budget>>

HostNext == JobsStep \/ Fsync \/ HostFails

HostSpec == HostInit /\ [][HostNext]_hostVars

-----------------------------------------------------------------------------
(* Properties, with those of AsyncJobs that survive.                       *)

\* Every variable keeps its type; a list that may come back holds only jobs.
HostTypeOK ==
    /\ TypeOK
    /\ recoverable \subseteq Seq(Jobs)
    /\ failures \in Nat

\* Whatever list comes back, each ID in it names a row: the row is committed
\* before its ID is published, so a worker never finds that a job it was given
\* does not exist.
ListedIsStored ==
    \A q \in recoverable \cup {queue} : \A j \in Range(q) : rows[j] # NoRow

\* From its claim on a worker has the row to itself, although the ID that made it
\* claim may have been handled before the failure.
ClaimedIsKnown == \A w \in Workers : ClaimKnowsRow(w)

=============================================================================
