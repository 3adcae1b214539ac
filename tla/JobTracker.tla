----------------------------- MODULE JobTracker -----------------------------
(***************************************************************************)
(* The React hook useJobTracker: it shows one job and polls its status     *)
(* through the API every second until the job is settled.  Each call of    *)
(* trackJob starts an asynchronous loop with a generation number of its    *)
(* own; a loop that awakes from an await finds out whether it is still the *)
(* current one, because a later trackJob or an unmount may have overtaken  *)
(* it while it waited.  A definition named ...Mutant is the next one of    *)
(* its kind with a plausible mistake; no action uses it.                   *)
(*                                                                         *)
(* The server is the abstract lifecycle of every job (JobLifecycle, which  *)
(* AsyncJobs implements): a poll reads one state of it, and the answer     *)
(* arrives any time later.                                                 *)
(***************************************************************************)
EXTENDS Naturals

CONSTANTS
    Jobs,          \* job IDs
    NoJob,         \* "no ID"
    MaxRetries,    \* retries the server grants a job
    MaxTracks,     \* bound: calls of trackJob and stopTracking
    MaxBadAnswers  \* bound: polls answered with an error or an unreadable body

ASSUME NoJobAssumption == NoJob \notin Jobs
ASSUME BoundsAssumption == MaxRetries \in Nat /\ MaxTracks \in Nat /\ MaxBadAnswers \in Nat

VARIABLES
    status, retryCount,   \* the server's state of every job
    announced,            \* jobs whose POST has been answered to this page
    job,                  \* what the page shows: a snapshot of a job, or Nothing
    error,                \* the page shows an error message
    isPolling,
    trackingGeneration,
    loops,                \* loops[g]: the loop started by the g-th trackJob
    tracked,              \* history: the ID of the latest trackJob
    badAnswers            \* used part of the bound

server == <<status, retryCount>>
page   == <<job, error, isPolling>>
vars   == <<server, announced, page, trackingGeneration, loops, tracked, badAnswers>>

Server == INSTANCE JobLifecycle

Snapshot(id) == [id |-> id, status |-> status[id], retries |-> retryCount[id]]
Nothing      == [id |-> NoJob, status |-> "none", retries |-> 0]
Pending(id)  == [id |-> id, status |-> "pending", retries |-> 0]

Final(s) == s.status \in {"success", "failed"}

Generations == 1..MaxTracks
LoopPC == {"unused", "fetch", "answered", "delay", "done"}
Unused == [pc |-> "unused", id |-> NoJob, answer |-> Nothing, ok |-> FALSE]

Init ==
    /\ Server!Init
    /\ announced = {}
    /\ job = Nothing /\ error = FALSE /\ isPolling = FALSE
    /\ trackingGeneration = 0
    /\ loops = [g \in Generations |-> Unused]
    /\ tracked = NoJob
    /\ badAnswers = 0

ServerStep == /\ Server!Next
              /\ UNCHANGED <<announced, page, trackingGeneration, loops, tracked, badAnswers>>

-----------------------------------------------------------------------------
TrackJob(id, initialJob) ==
    /\ trackingGeneration < MaxTracks
    /\ trackingGeneration' = trackingGeneration + 1
    /\ loops' = [loops EXCEPT ![trackingGeneration + 1] =
                    [pc |-> "fetch", id |-> id, answer |-> Nothing, ok |-> FALSE]]
    /\ job' = initialJob
    /\ error' = FALSE
    /\ isPolling' = TRUE
    /\ tracked' = id
    /\ UNCHANGED <<server, badAnswers>>

\* JobForm: the POST of a new job is answered, maybe long after it was sent.
Created(id) ==
    /\ status[id] # "none"
    /\ id \notin announced
    /\ announced' = announced \cup {id}
    /\ TrackJob(id, Pending(id))

\* JobLookup: the user enters an ID, known or not, polling or not.
Lookup(id) == TrackJob(id, Nothing) /\ UNCHANGED announced

\* The component unmounts (in development React mounts it again).
StopTracking ==
    /\ trackingGeneration < MaxTracks
    /\ trackingGeneration' = trackingGeneration + 1
    /\ isPolling' = FALSE
    /\ tracked' = NoJob
    /\ UNCHANGED <<server, announced, job, error, loops, badAnswers>>

-----------------------------------------------------------------------------
(* The loop of generation g, from await to await.                          *)

Current(g) == trackingGeneration = g

\* What a loop was answered is forgotten at its next await.
LoopMoves(g, pc) ==
    loops' = [loops EXCEPT ![g] =
                 [pc |-> pc, id |-> IF pc = "done" THEN NoJob ELSE loops[g].id,
                  answer |-> Nothing, ok |-> FALSE]]

\* The server reads the row; the answer is on its way.  An unknown ID, a
\* broken connection or a server error makes getJob throw; a body that is not
\* JSON is read as null.
Fetch(g) ==
    LET id == loops[g].id
        Answer(snapshot, ok) ==
            loops' = [loops EXCEPT ![g] =
                         [pc |-> "answered", id |-> id, answer |-> snapshot, ok |-> ok]]
    IN
    /\ loops[g].pc = "fetch"
    /\ \/ status[id] # "none" /\ Answer(Snapshot(id), TRUE) /\ UNCHANGED badAnswers
       \/ status[id] = "none" /\ Answer(Nothing, FALSE) /\ UNCHANGED badAnswers
       \/ /\ badAnswers < MaxBadAnswers
          /\ badAnswers' = badAnswers + 1
          /\ \E ok \in BOOLEAN : Answer(Nothing, ok)
    /\ UNCHANGED <<server, announced, page, trackingGeneration, tracked>>

Overtaken(g) == ~Current(g) /\ LoopMoves(g, "done") /\ UNCHANGED page

ShowError(g) == error' = TRUE /\ isPolling' = FALSE /\ LoopMoves(g, "done")

ReceiveMutant(g) ==    \* an error ends the loop, but the badge stays
    /\ loops[g].pc = "answered"
    /\ \/ Overtaken(g)
       \/ /\ Current(g) /\ loops[g].answer = Nothing
          /\ error' = TRUE /\ LoopMoves(g, "done") /\ UNCHANGED <<job, isPolling>>
       \/ /\ Current(g) /\ loops[g].answer # Nothing
          /\ job' = loops[g].answer /\ UNCHANGED error
          /\ isPolling' = ~Final(job') /\ LoopMoves(g, IF Final(job') THEN "done" ELSE "delay")
    /\ UNCHANGED <<server, announced, trackingGeneration, tracked, badAnswers>>

ReceiveStaleMutant(g) ==    \* the answer is shown whoever asked for it
    /\ loops[g].pc = "answered"
    /\ IF loops[g].ok THEN job' = loops[g].answer ELSE UNCHANGED job
    /\ IF loops[g].answer = Nothing THEN ShowError(g)
       ELSE IF Final(loops[g].answer)
            THEN isPolling' = FALSE /\ LoopMoves(g, "done") /\ UNCHANGED error
            ELSE LoopMoves(g, "delay") /\ UNCHANGED <<error, isPolling>>
    /\ UNCHANGED <<server, announced, trackingGeneration, tracked, badAnswers>>

ReceiveFinalMutant(g) ==    \* a final answer ends the loop before it is shown
    /\ loops[g].pc = "answered"
    /\ \/ Overtaken(g)
       \/ Current(g) /\ loops[g].answer = Nothing /\ ShowError(g) /\ UNCHANGED job
       \/ /\ Current(g) /\ Final(loops[g].answer)
          /\ isPolling' = FALSE /\ LoopMoves(g, "done") /\ UNCHANGED <<job, error>>
       \/ /\ Current(g) /\ loops[g].answer # Nothing /\ ~Final(loops[g].answer)
          /\ job' = loops[g].answer /\ LoopMoves(g, "delay") /\ UNCHANGED <<error, isPolling>>
    /\ UNCHANGED <<server, announced, trackingGeneration, tracked, badAnswers>>

\* A null body is shown, and then reading its status throws.
Receive(g) ==
    LET answer == loops[g].answer IN
    /\ loops[g].pc = "answered"
    /\ \/ Overtaken(g)
       \/ Current(g) /\ ~loops[g].ok /\ ShowError(g) /\ UNCHANGED job
       \/ /\ Current(g) /\ loops[g].ok
          /\ job' = answer
          /\ \/ answer = Nothing /\ ShowError(g)
             \/ /\ Final(answer)
                /\ isPolling' = FALSE
                /\ LoopMoves(g, "done")
                /\ UNCHANGED error
             \/ /\ answer # Nothing /\ ~Final(answer)
                /\ LoopMoves(g, "delay")
                /\ UNCHANGED <<error, isPolling>>
    /\ UNCHANGED <<server, announced, trackingGeneration, tracked, badAnswers>>

WakeOnceMutant(g) ==     \* no loop at all: one poll per trackJob
    /\ loops[g].pc = "delay"
    /\ LoopMoves(g, "done")
    /\ UNCHANGED <<server, announced, page, trackingGeneration, tracked, badAnswers>>

Wake(g) ==
    /\ loops[g].pc = "delay"
    /\ LoopMoves(g, IF Current(g) THEN "fetch" ELSE "done")
    /\ UNCHANGED <<server, announced, page, trackingGeneration, tracked, badAnswers>>

LoopStep(g) == Fetch(g) \/ Receive(g) \/ Wake(g)

Next == \/ ServerStep
        \/ \E id \in Jobs : Created(id) \/ Lookup(id)
        \/ StopTracking
        \/ \E g \in Generations : LoopStep(g)

\* Polls are answered (or fail) and timers fire; users and jobs owe nothing.
Spec == Init /\ [][Next]_vars /\ \A g \in Generations : WF_vars(LoopStep(g))

-----------------------------------------------------------------------------
(* Properties.                                                             *)

Snapshots == [id : Jobs \cup {NoJob}, retries : 0..MaxRetries,
              status : {"none", "pending", "processing", "success", "failed"}]

\* Every variable keeps its type.
TypeOK ==
    /\ status \in [Jobs -> {"none", "pending", "processing", "success", "failed"}]
    /\ retryCount \in [Jobs -> 0..MaxRetries]
    /\ announced \subseteq Jobs
    /\ job \in Snapshots
    /\ error \in BOOLEAN /\ isPolling \in BOOLEAN
    /\ trackingGeneration \in 0..MaxTracks
    /\ loops \in [Generations ->
                    [pc : LoopPC, id : Jobs \cup {NoJob}, answer : Snapshots, ok : BOOLEAN]]
    /\ tracked \in Jobs \cup {NoJob}
    /\ badAnswers \in 0..MaxBadAnswers

\* The page never shows a job other than the one the user asked for last,
\* however late the answers for the earlier ones arrive.
ShownIsTracked == tracked # NoJob /\ job # Nothing => job.id = tracked

\* The "Live" badge tells the truth: the page claims to poll exactly while the
\* loop of the current generation has not ended.
PollingIsAlive ==
    isPolling <=> \E g \in Generations :
                      Current(g) /\ loops[g].pc \in {"fetch", "answered", "delay"}

\* Polling ends with an error message or with the job's final state on the
\* page, and that state is still the server's.
EndsWithTheFinalState ==
    tracked # NoJob /\ ~isPolling /\ ~error => Final(job) /\ job = Snapshot(tracked)

\* While one job is tracked, the page never goes back to an earlier state of it
\* (fewer retries, or pending after processing in the same attempt).
Age(s) == 2 * s.retries + CASE s.status = "pending"    -> 0
                            [] s.status = "processing" -> 1
                            [] OTHER                   -> 2
NeverGoesBack ==
    [][trackingGeneration' = trackingGeneration /\ job # Nothing /\ job' # Nothing
           => Age(job') >= Age(job)]_vars

\* A settled job does not stay "Live" on the page for ever.
LiveButSettled == tracked # NoJob /\ isPolling /\ status[tracked] \in {"success", "failed"}
PollingEnds == LiveButSettled ~> ~LiveButSettled

=============================================================================
