---------------------------- MODULE TrackerProofs ----------------------------
(***************************************************************************)
(* What the page of useJobTracker shows is right for any number of jobs,   *)
(* calls of trackJob and bad answers.  The server only moves forward and a *)
(* settled job stays as it is (ServerMoves), so an answer is outdated in   *)
(* one way only: it is earlier.  A loop that is not the current one shows  *)
(* nothing, and the current one asks for the job that is tracked (Loops).  *)
(***************************************************************************)
EXTENDS JobTracker, TLAPS

Alive == {"fetch", "answered", "delay"}
Statuses == {"none", "pending", "processing", "success", "failed"}

\* An answer is an error, or a state that the job has had; a final one is
\* still the job's.
Answered(l) ==
    \/ l.answer = Nothing
    \/ /\ l.ok
       /\ l.answer.id = l.id
       /\ l.answer.status # "none"
       /\ status[l.id] # "none"
       /\ Age(l.answer) <= Age(Snapshot(l.id))
       /\ Final(l.answer) => l.answer = Snapshot(l.id)

Loops ==
    \A g \in Generations :
        /\ g > trackingGeneration => loops[g].pc = "unused"
        /\ loops[g].pc \in Alive => loops[g].id \in Jobs
        /\ g = trackingGeneration /\ loops[g].pc \in Alive => loops[g].id = tracked
        /\ loops[g].pc = "answered" => Answered(loops[g])

\* The page is not ahead of the server, nor of the answer to come.
Behind ==
    tracked # NoJob /\ job # Nothing =>
        /\ status[tracked] # "none"
        /\ Age(job) <= Age(Snapshot(tracked))
        /\ \A g \in Generations :
             (/\ g = trackingGeneration
              /\ loops[g].pc = "answered"
              /\ loops[g].answer # Nothing) => Age(job) <= Age(loops[g].answer)

PageInv == /\ TypeOK /\ Loops /\ Behind
           /\ ShownIsTracked /\ PollingIsAlive /\ EndsWithTheFinalState

-----------------------------------------------------------------------------
LEMMA SnapshotType ==
    ASSUME TypeOK, NEW id \in Jobs
    PROVE  /\ Snapshot(id) \in Snapshots
           /\ Nothing \in Snapshots
           /\ Pending(id) \in Snapshots
BY BoundsAssumption DEF TypeOK, Snapshot, Nothing, Pending, Snapshots

LEMMA AgeType == \A s \in Snapshots : Age(s) \in Nat
BY BoundsAssumption DEF Snapshots, Age

\* The server's state of a job that exists moves forward, and a final one stays.
LEMMA ServerMoves ==
    ASSUME TypeOK, Server!Next
    PROVE  /\ status' \in [Jobs -> Statuses]
           /\ retryCount' \in [Jobs -> 0..MaxRetries]
           /\ \A id \in Jobs : status[id] # "none" =>
                /\ status'[id] # "none"
                /\ Age(Snapshot(id)) <= Age(Snapshot(id)')
                /\ Final(Snapshot(id)) => Snapshot(id)' = Snapshot(id)
<1> PICK j \in Jobs : \/ Server!Create(j) \/ Server!Start(j) \/ Server!Succeed(j)
                      \/ Server!Retry(j) \/ Server!Exhaust(j)
    BY DEF Server!Next
<1> USE BoundsAssumption DEF TypeOK, Statuses, Server!Move, Snapshot, Final, Age
<1>1. CASE Server!Create(j)
    BY <1>1 DEF Server!Create
<1>2. CASE Server!Start(j)
    BY <1>2 DEF Server!Start
<1>3. CASE Server!Succeed(j)
    BY <1>3 DEF Server!Succeed
<1>4. CASE Server!Retry(j)
    BY <1>4 DEF Server!Retry
<1>5. CASE Server!Exhaust(j)
    BY <1>5 DEF Server!Exhaust
<1> QED
    BY <1>1, <1>2, <1>3, <1>4, <1>5

LEMMA PageInit == Init => PageInv
<1> SUFFICES ASSUME Init PROVE PageInv
    OBVIOUS
<1>1. TypeOK
    <2>1. 0 \in 0..MaxRetries /\ 0 \in 0..MaxTracks /\ 0 \in 0..MaxBadAnswers
        BY BoundsAssumption
    <2>2. Nothing \in Snapshots
        BY <2>1 DEF Nothing, Snapshots
    <2>3. loops \in [Generations -> [pc : LoopPC, id : Jobs \cup {NoJob},
                                    answer : Snapshots, ok : BOOLEAN]]
        BY <2>2 DEF Init, LoopPC, Unused
    <2>4. status \in [Jobs -> Statuses] /\ retryCount \in [Jobs -> 0..MaxRetries]
        BY <2>1 DEF Init, Server!Init, Statuses
    <2> QED
        BY <2>1, <2>2, <2>3, <2>4 DEF Init, TypeOK, Statuses
<1>2. Loops /\ Behind /\ ShownIsTracked /\ PollingIsAlive /\ EndsWithTheFinalState
    BY DEF Init, Loops, Behind, ShownIsTracked, PollingIsAlive, EndsWithTheFinalState,
       Unused, Alive, Current, Generations
<1> QED
    BY <1>1, <1>2 DEF PageInv

-----------------------------------------------------------------------------
LEMMA ServerKeepsPage == ASSUME PageInv, ServerStep PROVE PageInv'
<1> USE DEF PageInv
<1> SUFFICES UNCHANGED <<announced, job, error, isPolling, trackingGeneration, loops, tracked,
                         badAnswers>> => PageInv'
    BY DEF ServerStep, page
<1> HAVE UNCHANGED <<announced, job, error, isPolling, trackingGeneration, loops, tracked,
                     badAnswers>>
<1>1. /\ status' \in [Jobs -> Statuses]
      /\ retryCount' \in [Jobs -> 0..MaxRetries]
      /\ \A id \in Jobs : status[id] # "none" =>
           /\ status'[id] # "none"
           /\ Age(Snapshot(id)) <= Age(Snapshot(id)')
           /\ Final(Snapshot(id)) => Snapshot(id)' = Snapshot(id)
    BY ServerMoves DEF ServerStep
<1>2. TypeOK'
    BY <1>1 DEF TypeOK, Statuses
<1>3. ASSUME NEW id \in Jobs, NEW s \in Snapshots, status[id] # "none",
             Age(s) <= Age(Snapshot(id))
      PROVE  Age(s) <= Age(Snapshot(id)')
    <2>1. Snapshot(id) \in Snapshots /\ Snapshot(id)' \in Snapshots
        BY <1>1, SnapshotType DEF Snapshot, Snapshots, Statuses
    <2>2. Age(s) \in Nat /\ Age(Snapshot(id)) \in Nat /\ Age(Snapshot(id)') \in Nat
        BY <2>1, AgeType
    <2> QED
        BY <1>1, <1>3, <2>2
<1>4. Loops'
    <2> SUFFICES ASSUME NEW g \in Generations, loops[g].pc = "answered",
                        loops[g].answer # Nothing
                 PROVE  Answered(loops[g])'
        BY DEF Loops, Answered
    <2>1. loops[g].id \in Jobs /\ loops[g].answer \in Snapshots /\ Answered(loops[g])
        BY DEF Loops, Alive, TypeOK
    <2> QED
        BY <1>1, <1>3, <2>1 DEF Answered
<1>5. Behind'
    <2> SUFFICES ASSUME tracked # NoJob, job # Nothing
                 PROVE  status'[tracked] # "none" /\ Age(job) <= Age(Snapshot(tracked)')
        BY DEF Behind
    <2>1. tracked \in Jobs /\ job \in Snapshots
        BY DEF TypeOK
    <2> QED
        BY <1>1, <1>3, <2>1 DEF Behind
<1>6. ShownIsTracked' /\ PollingIsAlive'
    BY DEF ShownIsTracked, PollingIsAlive, Current
<1>7. EndsWithTheFinalState'
    <2> SUFFICES ASSUME tracked # NoJob, ~isPolling, ~error
                 PROVE  Final(job) /\ job = Snapshot(tracked)'
        BY DEF EndsWithTheFinalState
    <2>1. tracked \in Jobs /\ Final(job) /\ job = Snapshot(tracked)
        BY DEF TypeOK, EndsWithTheFinalState
    <2>2. status[tracked] # "none"
        BY <2>1 DEF Final, Snapshot
    <2> QED
        BY <1>1, <2>1, <2>2
<1> QED
    BY <1>2, <1>4, <1>5, <1>6, <1>7

LEMMA TrackJobKeepsPage ==
    ASSUME PageInv, announced' \subseteq Jobs, NEW id \in Jobs, NEW initialJob,
           \/ initialJob = Nothing
           \/ initialJob = Pending(id) /\ status[id] # "none",
           TrackJob(id, initialJob)
    PROVE  PageInv'
<1> USE DEF PageInv
<1> DEFINE n == trackingGeneration + 1
<1>0. n \in Generations /\ trackingGeneration \in 0..MaxTracks
    BY BoundsAssumption DEF TrackJob, TypeOK, Generations
<1>1. /\ trackingGeneration' = n
      /\ loops' = [loops EXCEPT ![n] =
                      [pc |-> "fetch", id |-> id, answer |-> Nothing, ok |-> FALSE]]
      /\ job' = initialJob /\ error' = FALSE /\ isPolling' = TRUE /\ tracked' = id
      /\ UNCHANGED <<status, retryCount, badAnswers>>
    BY DEF TrackJob, server
<1> HIDE DEF n
<1>2. initialJob \in Snapshots
    BY SnapshotType
<1>3. TypeOK'
    <2>1. [pc |-> "fetch", id |-> id, answer |-> Nothing, ok |-> FALSE] \in
              [pc : LoopPC, id : Jobs \cup {NoJob}, answer : Snapshots, ok : BOOLEAN]
        BY SnapshotType DEF LoopPC
    <2>2. loops' \in [Generations -> [pc : LoopPC, id : Jobs \cup {NoJob},
                                     answer : Snapshots, ok : BOOLEAN]]
        BY <1>0, <1>1, <2>1 DEF TypeOK
    <2>3. n \in 0..MaxTracks
        BY <1>0, BoundsAssumption DEF Generations
    <2> QED
        BY <1>1, <1>2, <2>2, <2>3 DEF TypeOK
<1>4. Loops'
    BY <1>0, <1>1 DEF Loops, TypeOK, Alive, Generations, Answered, Snapshot, n
<1>5. Behind'
    <2>1. status[id] # "none" => Age(Pending(id)) <= Age(Snapshot(id))
        BY BoundsAssumption DEF Age, Pending, Snapshot, TypeOK
    <2>2. loops'[n].pc = "fetch"
        BY <1>0, <1>1 DEF TypeOK
    <2> QED
        BY <1>0, <1>1, <2>1, <2>2 DEF Behind, Snapshot
<1>6. ShownIsTracked' /\ EndsWithTheFinalState'
    BY <1>1 DEF ShownIsTracked, EndsWithTheFinalState, Pending
<1>7. PollingIsAlive'
    BY <1>0, <1>1 DEF PollingIsAlive, Current, TypeOK
<1> QED
    BY <1>3, <1>4, <1>5, <1>6, <1>7

LEMMA StopKeepsPage == ASSUME PageInv, StopTracking PROVE PageInv'
<1> USE DEF PageInv
<1> DEFINE n == trackingGeneration + 1
<1>0. n \in Generations /\ trackingGeneration \in 0..MaxTracks /\ n > trackingGeneration
    BY BoundsAssumption DEF StopTracking, TypeOK, Generations
<1>1. /\ trackingGeneration' = n /\ isPolling' = FALSE /\ tracked' = NoJob
      /\ UNCHANGED <<status, retryCount, announced, job, error, loops, badAnswers>>
    BY DEF StopTracking, server
<1> HIDE DEF n
<1>2. loops[n].pc = "unused"
    BY <1>0 DEF Loops
<1>3. TypeOK'
    <2>1. n \in 0..MaxTracks
        BY <1>0, BoundsAssumption DEF Generations
    <2> QED
        BY <1>1, <2>1 DEF TypeOK
<1>4. Loops'
    BY <1>0, <1>1, <1>2 DEF Loops, TypeOK, Alive, Generations, Answered, Snapshot, n
<1>5. Behind' /\ ShownIsTracked' /\ EndsWithTheFinalState'
    BY <1>1 DEF Behind, ShownIsTracked, EndsWithTheFinalState
<1>6. PollingIsAlive'
    BY <1>1, <1>2 DEF PollingIsAlive, Current
<1> QED
    BY <1>3, <1>4, <1>5, <1>6

LEMMA FetchKeepsPage ==
    ASSUME PageInv, NEW g \in Generations, Fetch(g)
    PROVE  PageInv'
<1> USE DEF PageInv
<1> DEFINE id == loops[g].id
<1>0. /\ loops[g].pc = "fetch" /\ id \in Jobs
      /\ UNCHANGED <<status, retryCount, announced, job, error, isPolling,
                     trackingGeneration, tracked>>
    BY DEF Fetch, Loops, Alive, server, page
<1>1. PICK snapshot \in {Nothing, Snapshot(id)}, ok \in BOOLEAN :
        /\ snapshot = Snapshot(id) => status[id] # "none" /\ ok
        /\ loops' = [loops EXCEPT ![g] =
                        [pc |-> "answered", id |-> id, answer |-> snapshot, ok |-> ok]]
        /\ badAnswers' \in 0..MaxBadAnswers
    <2>1. Snapshot(id) # Nothing
        BY <1>0, NoJobAssumption DEF Snapshot, Nothing
    <2>2. badAnswers \in 0..MaxBadAnswers
        BY DEF TypeOK
    <2>3. CASE status[id] # "none" /\ UNCHANGED badAnswers /\
               loops' = [loops EXCEPT ![g] =
                   [pc |-> "answered", id |-> id, answer |-> Snapshot(id), ok |-> TRUE]]
        BY <2>2, <2>3
    <2>4. ASSUME NEW ok \in BOOLEAN, badAnswers' \in 0..MaxBadAnswers,
                 loops' = [loops EXCEPT ![g] =
                   [pc |-> "answered", id |-> id, answer |-> Nothing, ok |-> ok]]
          PROVE  \E snapshot \in {Nothing, Snapshot(id)}, o \in BOOLEAN :
                     /\ snapshot = Snapshot(id) => status[id] # "none" /\ o
                     /\ loops' = [loops EXCEPT ![g] =
                          [pc |-> "answered", id |-> id, answer |-> snapshot, ok |-> o]]
                     /\ badAnswers' \in 0..MaxBadAnswers
        BY <2>1, <2>4
    <2>5. \/ /\ status[id] # "none" /\ UNCHANGED badAnswers
             /\ loops' = [loops EXCEPT ![g] =
                   [pc |-> "answered", id |-> id, answer |-> Snapshot(id), ok |-> TRUE]]
          \/ \E ok \in BOOLEAN :
                /\ badAnswers' \in 0..MaxBadAnswers
                /\ loops' = [loops EXCEPT ![g] =
                     [pc |-> "answered", id |-> id, answer |-> Nothing, ok |-> ok]]
        <3>1. badAnswers < MaxBadAnswers => badAnswers + 1 \in 0..MaxBadAnswers
            BY <2>2, BoundsAssumption
        <3>2. CASE badAnswers < MaxBadAnswers /\ badAnswers' = badAnswers + 1 /\
                   \E ok \in BOOLEAN : loops' = [loops EXCEPT ![g] =
                      [pc |-> "answered", id |-> id, answer |-> Nothing, ok |-> ok]]
            BY <3>1, <3>2
        <3>3. CASE status[id] = "none" /\ UNCHANGED badAnswers /\
                   loops' = [loops EXCEPT ![g] =
                      [pc |-> "answered", id |-> id, answer |-> Nothing, ok |-> FALSE]]
            BY <2>2, <3>3
        <3> QED
            BY <3>2, <3>3 DEF Fetch
    <2> QED
        BY <2>3, <2>4, <2>5
<1>2. snapshot \in Snapshots /\ Snapshot(id) \in Snapshots
    BY <1>0, SnapshotType
<1> HIDE DEF id
<1>3. TypeOK'
    BY <1>0, <1>1, <1>2 DEF TypeOK, LoopPC
<1>4. Answered(loops[g])'
    <2>1. loops'[g] = [pc |-> "answered", id |-> id, answer |-> snapshot, ok |-> ok]
        BY <1>1 DEF TypeOK
    <2>2. Age(Snapshot(id)) <= Age(Snapshot(id))
        BY <1>2, AgeType
    <2>3. Snapshot(id).id = id /\ Snapshot(id).status = status[id]
        BY DEF Snapshot
    <2>4. Snapshot(id)' = Snapshot(id)
        BY <1>0, <1>1 DEF Snapshot, id
    <2> QED
        BY <1>0, <1>1, <2>1, <2>2, <2>3 DEF Answered, Snapshot
<1>5. Loops'
    BY <1>0, <1>1, <1>4 DEF Loops, TypeOK, Alive, Answered, Snapshot, id
<1>6. Behind'
    <2> SUFFICES ASSUME tracked # NoJob, job # Nothing, NEW h \in Generations,
                        h = trackingGeneration, loops'[h].pc = "answered",
                        loops'[h].answer # Nothing
                 PROVE  Age(job) <= Age(loops'[h].answer)
        BY <1>0 DEF Behind, Snapshot
    <2>1. CASE h = g
        <3>1. id = tracked /\ loops'[g].answer = Snapshot(id)
            BY <1>0, <1>1, <2>1 DEF Loops, Alive, TypeOK, id
        <3> QED
            BY <2>1, <3>1 DEF Behind
    <2>2. CASE h # g
        BY <1>1, <2>2 DEF Behind, TypeOK
    <2> QED
        BY <2>1, <2>2
<1>7. ShownIsTracked' /\ EndsWithTheFinalState'
    BY <1>0 DEF ShownIsTracked, EndsWithTheFinalState, Snapshot
<1>8. PollingIsAlive'
    BY <1>0, <1>1 DEF PollingIsAlive, Current, TypeOK
<1> QED
    BY <1>3, <1>5, <1>6, <1>7, <1>8

LEMMA ReceiveKeepsPage ==
    ASSUME PageInv, NEW g \in Generations, Receive(g)
    PROVE  PageInv'
<1> USE DEF PageInv
<1> DEFINE answer == loops[g].answer
<1>0. /\ loops[g].pc = "answered" /\ loops[g].id \in Jobs
      /\ answer \in Snapshots /\ Nothing \in Snapshots /\ Answered(loops[g])
      /\ UNCHANGED <<status, retryCount, announced, trackingGeneration, tracked, badAnswers>>
    BY SnapshotType DEF Receive, Loops, Alive, TypeOK, server
<1>1. PICK pc \in {"done", "delay"} :
        /\ LoopMoves(g, pc)
        /\ \/ ~Current(g) /\ pc = "done" /\ UNCHANGED <<job, error, isPolling>>
           \/ /\ Current(g)
              /\ pc = "done" /\ error' = TRUE /\ isPolling' = FALSE
              /\ job' \in {job, Nothing}
           \/ /\ Current(g) /\ answer # Nothing /\ job' = answer /\ UNCHANGED error
              /\ \/ Final(answer) /\ pc = "done" /\ isPolling' = FALSE
                 \/ ~Final(answer) /\ pc = "delay" /\ UNCHANGED isPolling
    <2>1. ~Final(Nothing)
        BY DEF Final, Nothing
    <2> QED
        BY <2>1 DEF Receive, Overtaken, ShowError, page
<1>2. loops' = [loops EXCEPT ![g] =
                   [pc |-> pc, id |-> IF pc = "done" THEN NoJob ELSE loops[g].id,
                    answer |-> Nothing, ok |-> FALSE]]
    BY <1>1 DEF LoopMoves
<1> HIDE DEF answer
<1>3. TypeOK'
    BY <1>0, <1>1, <1>2 DEF TypeOK, LoopPC
<1>4. Loops'
    BY <1>0, <1>1, <1>2 DEF Loops, TypeOK, Alive, Answered, Snapshot
<1>5. Current(g) => loops[g].id = tracked
    BY <1>0 DEF Loops, Alive, Current
<1>6. CASE ~Current(g)
    <2>1. UNCHANGED <<job, error, isPolling>>
        BY <1>1, <1>6
    <2>2. Behind'
        BY <1>0, <1>2, <1>6, <2>1 DEF Behind, TypeOK, Snapshot, Current
    <2>3. ShownIsTracked' /\ EndsWithTheFinalState'
        BY <1>0, <2>1 DEF ShownIsTracked, EndsWithTheFinalState, Snapshot
    <2>4. PollingIsAlive'
        BY <1>0, <1>2, <1>6, <2>1 DEF PollingIsAlive, Current, TypeOK
    <2> QED
        BY <1>3, <1>4, <2>2, <2>3, <2>4
<1>7. CASE Current(g)
    <2>1. loops'[g].pc = pc /\ g = trackingGeneration
        BY <1>2, <1>7 DEF TypeOK, Current
    <2>2. Behind'
        <3> SUFFICES ASSUME tracked # NoJob, job' # Nothing
                     PROVE  status[tracked] # "none" /\ Age(job') <= Age(Snapshot(tracked))
            BY <1>0, <1>1, <2>1 DEF Behind, Snapshot
        <3> QED
            BY <1>0, <1>1, <1>5, <1>7 DEF Behind, Answered, answer
    <2>3. ShownIsTracked'
        BY <1>0, <1>1, <1>5, <1>7 DEF ShownIsTracked, Answered, answer
    <2>4. EndsWithTheFinalState'
        <3> SUFFICES ASSUME tracked # NoJob, ~isPolling', ~error'
                     PROVE  Final(job') /\ job' = Snapshot(tracked)
            BY <1>0 DEF EndsWithTheFinalState, Snapshot
        <3>1. isPolling
            BY <1>0, <1>7 DEF PollingIsAlive
        <3> QED
            BY <1>0, <1>1, <1>5, <1>7, <3>1 DEF Answered, answer
    <2>5. PollingIsAlive'
        <3>1. isPolling
            BY <1>0, <1>7 DEF PollingIsAlive
        <3> QED
            BY <1>0, <1>1, <1>7, <2>1, <3>1 DEF PollingIsAlive, Current
    <2> QED
        BY <1>3, <1>4, <2>2, <2>3, <2>4, <2>5
<1> QED
    BY <1>6, <1>7

LEMMA WakeKeepsPage ==
    ASSUME PageInv, NEW g \in Generations, Wake(g)
    PROVE  PageInv'
<1> USE DEF PageInv
<1> DEFINE pc == IF Current(g) THEN "fetch" ELSE "done"
<1>0. /\ loops[g].pc = "delay" /\ loops[g].id \in Jobs /\ Nothing \in Snapshots
      /\ UNCHANGED <<status, retryCount, announced, job, error, isPolling,
                     trackingGeneration, tracked, badAnswers>>
      /\ loops' = [loops EXCEPT ![g] =
                      [pc |-> pc, id |-> IF pc = "done" THEN NoJob ELSE loops[g].id,
                       answer |-> Nothing, ok |-> FALSE]]
    BY SnapshotType DEF Wake, Loops, Alive, LoopMoves, server, page
<1>1. TypeOK'
    BY <1>0 DEF TypeOK, LoopPC
<1>2. Loops'
    BY <1>0 DEF Loops, TypeOK, Alive, Answered, Snapshot, Current
<1>3. Behind'
    BY <1>0 DEF Behind, TypeOK, Snapshot
<1>4. ShownIsTracked' /\ EndsWithTheFinalState'
    BY <1>0 DEF ShownIsTracked, EndsWithTheFinalState, Snapshot
<1>5. PollingIsAlive'
    BY <1>0 DEF PollingIsAlive, Current, TypeOK
<1> QED
    BY <1>1, <1>2, <1>3, <1>4, <1>5

-----------------------------------------------------------------------------
LEMMA PageStep == PageInv /\ [Next]_vars => PageInv'
<1> SUFFICES ASSUME PageInv, [Next]_vars PROVE PageInv'
    OBVIOUS
<1>1. CASE ServerStep
    BY <1>1, ServerKeepsPage
<1>2. ASSUME NEW id \in Jobs, Created(id) PROVE PageInv'
    <2>1. announced' \subseteq Jobs /\ status[id] # "none" /\ TrackJob(id, Pending(id))
        BY <1>2 DEF Created, PageInv, TypeOK
    <2> QED
        BY <2>1, TrackJobKeepsPage
<1>3. ASSUME NEW id \in Jobs, Lookup(id) PROVE PageInv'
    <2>1. announced' \subseteq Jobs /\ TrackJob(id, Nothing)
        BY <1>3 DEF Lookup, PageInv, TypeOK
    <2> QED
        BY <2>1, TrackJobKeepsPage
<1>4. CASE StopTracking
    BY <1>4, StopKeepsPage
<1>5. ASSUME NEW g \in Generations, LoopStep(g) PROVE PageInv'
    BY <1>5, FetchKeepsPage, ReceiveKeepsPage, WakeKeepsPage DEF LoopStep
<1>6. CASE UNCHANGED vars
    BY <1>6 DEF vars, server, page, PageInv, TypeOK, Loops, Answered, Behind, Snapshot,
       ShownIsTracked, PollingIsAlive, EndsWithTheFinalState, Current
<1> QED
    BY <1>1, <1>2, <1>3, <1>4, <1>5, <1>6 DEF Next

LEMMA PageInductive == Spec => []PageInv
<1>1. Init /\ [][Next]_vars => []PageInv
    BY PageInit, PageStep, PTL
<1> QED
    BY <1>1, PTL DEF Spec

\* Every variable keeps its type.
THEOREM TrackerTypeCorrect == Spec => []TypeOK
BY PageInductive, PTL DEF PageInv

\* No late answer puts an earlier job on the page.
THEOREM ShowsTheTrackedJob == Spec => []ShownIsTracked
BY PageInductive, PTL DEF PageInv

\* The badge "Live" is shown exactly while the current loop polls.
THEOREM LiveIsTrue == Spec => []PollingIsAlive
BY PageInductive, PTL DEF PageInv

\* Polling ends with an error or with the state that the job keeps.
THEOREM EndsCorrectly == Spec => []EndsWithTheFinalState
BY PageInductive, PTL DEF PageInv

\* The page never goes back to an earlier state of the job it tracks.
THEOREM PageGoesForward == Spec => NeverGoesBack
<1> DEFINE Forward == trackingGeneration' = trackingGeneration /\ job # Nothing /\ job' # Nothing
                        => Age(job') >= Age(job)
<1>1. PageInv /\ [Next]_vars => [Forward]_vars
    <2> SUFFICES ASSUME PageInv, [Next]_vars PROVE [Forward]_vars
        OBVIOUS
    <2> USE DEF PageInv
    <2>1. Age(job) \in Nat
        BY AgeType DEF TypeOK
    <2>2. CASE UNCHANGED job
        BY <2>1, <2>2
    <2>3. ASSUME NEW g \in Generations, Receive(g), job' # job PROVE Forward
        <3>1. Current(g) /\ loops[g].pc = "answered" /\ job' = loops[g].answer
            BY <2>3 DEF Receive, Overtaken, page
        <3>2. tracked # NoJob
            BY <3>1, NoJobAssumption DEF Loops, Current, Alive
        <3>3. loops[g].answer \in Snapshots
            BY DEF TypeOK
        <3> QED
            BY <2>1, <3>1, <3>2, <3>3, AgeType DEF Behind, Current
    <2>4. ASSUME NEW id \in Jobs, Created(id) \/ Lookup(id) PROVE Forward
        <3>1. trackingGeneration' = trackingGeneration + 1 /\ trackingGeneration \in Nat
            BY <2>4, BoundsAssumption DEF Created, Lookup, TrackJob, TypeOK
        <3> QED
            BY <3>1
    <2> QED
        BY <2>2, <2>3, <2>4
        DEF Next, ServerStep, StopTracking, LoopStep, Fetch, Wake, page, vars
<1>2. Init /\ [][Next]_vars => [][Forward]_vars
    BY <1>1, PageInit, PageStep, PTL
<1> QED
    BY <1>2, PTL DEF Spec, NeverGoesBack

-----------------------------------------------------------------------------
(* How loops end.  That they do needs fairness, and PollingEnds is checked  *)
(* by TLC; what is proved is the measure behind it.                        *)

\* Only its own steps change a loop that has begun.
LEMMA LoopsMoveThemselves ==
    ASSUME PageInv, [Next]_vars, NEW g \in Generations, g <= trackingGeneration,
           loops'[g] # loops[g]
    PROVE  LoopStep(g)
<1>1. trackingGeneration \in 0..MaxTracks /\ g \in Nat /\ MaxTracks \in Nat
    BY BoundsAssumption DEF PageInv, TypeOK, Generations
<1>2. ASSUME NEW id \in Jobs, Created(id) \/ Lookup(id) PROVE FALSE
    <2>1. \E l : loops' = [loops EXCEPT ![trackingGeneration + 1] = l]
        BY <1>2 DEF Created, Lookup, TrackJob
    <2> QED
        BY <2>1, <1>1 DEF PageInv, TypeOK
<1>3. ASSUME NEW h \in Generations, LoopStep(h), h # g PROVE FALSE
    <2>1. \E l : loops' = [loops EXCEPT ![h] = l]
        BY <1>3 DEF LoopStep, Fetch, Receive, Overtaken, ShowError, Wake, LoopMoves
    <2> QED
        BY <2>1, <1>3 DEF PageInv, TypeOK
<1>4. \/ \E id \in Jobs : Created(id) \/ Lookup(id)
      \/ \E h \in Generations : LoopStep(h)
    BY DEF Next, ServerStep, StopTracking, vars
<1> QED
    BY <1>2, <1>3, <1>4

\* What one step makes of its loop.
LEMMA LoopEffects ==
    ASSUME PageInv, NEW g \in Generations, LoopStep(g)
    PROVE  /\ UNCHANGED <<status, trackingGeneration, tracked>>
           /\ loops[g].pc = "fetch" =>
                /\ loops'[g].pc = "answered"
                /\ loops'[g].answer \in {Nothing, Snapshot(loops[g].id)}
                /\ UNCHANGED page
           /\ loops[g].pc = "answered" =>
                /\ loops'[g].pc \in {"delay", "done"}
                /\ loops'[g].pc = "delay" =>
                     Current(g) /\ loops[g].answer # Nothing /\ ~Final(loops[g].answer)
                /\ ~Current(g) => UNCHANGED page
           /\ loops[g].pc = "delay" =>
                /\ loops'[g].pc = IF Current(g) THEN "fetch" ELSE "done"
                /\ UNCHANGED page
           /\ loops[g].pc \in Alive
<1>0. \A l : loops' = [loops EXCEPT ![g] = l] => loops'[g] = l
    BY DEF PageInv, TypeOK
<1>1. CASE Fetch(g)
    <2>1. PICK a \in {Nothing, Snapshot(loops[g].id)}, ok \in BOOLEAN :
              loops' = [loops EXCEPT ![g] =
                  [pc |-> "answered", id |-> loops[g].id, answer |-> a, ok |-> ok]]
        BY <1>1 DEF Fetch
    <2>a. loops'[g] = [pc |-> "answered", id |-> loops[g].id, answer |-> a, ok |-> ok]
        BY <2>1, <1>0
    <2>2. loops'[g].pc = "answered" /\ loops'[g].answer \in {Nothing, Snapshot(loops[g].id)}
        BY <2>a
    <2> QED
        BY <1>1, <2>2 DEF Fetch, server, Alive
<1>2. CASE Receive(g)
    <2>1. ASSUME NEW pc, LoopMoves(g, pc) PROVE loops'[g].pc = pc
        BY <2>1, <1>0 DEF LoopMoves
    <2>2. loops[g].pc = "answered" /\ UNCHANGED <<status, trackingGeneration, tracked>>
        BY <1>2 DEF Receive, server
    <2>3. \/ Overtaken(g)
          \/ Current(g) /\ LoopMoves(g, "done")
          \/ /\ Current(g) /\ LoopMoves(g, "delay")
             /\ loops[g].answer # Nothing /\ ~Final(loops[g].answer)
        BY <1>2 DEF Receive, ShowError
    <2>4. CASE Overtaken(g)
        BY <2>1, <2>2, <2>4 DEF Overtaken, Alive
    <2>5. CASE Current(g) /\ LoopMoves(g, "done")
        BY <2>1, <2>2, <2>5 DEF Alive
    <2>6. CASE /\ Current(g) /\ LoopMoves(g, "delay")
               /\ loops[g].answer # Nothing /\ ~Final(loops[g].answer)
        BY <2>1, <2>2, <2>6 DEF Alive
    <2> QED
        BY <2>3, <2>4, <2>5, <2>6
<1>3. CASE Wake(g)
    <2>1. loops'[g].pc = IF Current(g) THEN "fetch" ELSE "done"
        BY <1>3, <1>0 DEF Wake, LoopMoves
    <2> QED
        BY <1>3, <2>1 DEF Wake, server, Alive
<1> QED
    BY <1>1, <1>2, <1>3 DEF LoopStep

\* The steps that an overtaken loop still has.
LeftOver(l) == CASE l.pc = "fetch"               -> 2
                 [] l.pc \in {"answered", "delay"} -> 1
                 [] OTHER                        -> 0

OvertakenEnds ==
    [][\A g \in Generations : g < trackingGeneration =>
          /\ g < trackingGeneration'
          /\ loops'[g] # loops[g] =>
                LeftOver(loops'[g]) < LeftOver(loops[g]) /\ UNCHANGED page]_vars

\* A loop that a later trackJob or an unmount has overtaken never becomes the
\* current one again, takes at most two more steps, one request among them, and
\* none of them touches the page: no loop polls on behind the user's back.
THEOREM OvertakenLoopsEnd == Spec => OvertakenEnds
<1> DEFINE Ends ==
      \A g \in Generations : g < trackingGeneration =>
          /\ g < trackingGeneration'
          /\ loops'[g] # loops[g] =>
                LeftOver(loops'[g]) < LeftOver(loops[g]) /\ UNCHANGED page
<1>1. PageInv /\ [Next]_vars => Ends
    <2> SUFFICES ASSUME PageInv, [Next]_vars, NEW g \in Generations, g < trackingGeneration
                 PROVE  /\ g < trackingGeneration'
                        /\ loops'[g] # loops[g] =>
                             LeftOver(loops'[g]) < LeftOver(loops[g]) /\ UNCHANGED page
        OBVIOUS
    <2>1. trackingGeneration \in Nat /\ g \in Nat
        BY BoundsAssumption DEF PageInv, TypeOK, Generations
    <2>2. trackingGeneration' \in {trackingGeneration, trackingGeneration + 1}
        BY DEF Next, ServerStep, Created, Lookup, TrackJob, StopTracking, LoopStep,
               Fetch, Receive, Wake, vars
    <2>3. ASSUME loops'[g] # loops[g]
          PROVE  LeftOver(loops'[g]) < LeftOver(loops[g]) /\ UNCHANGED page
        <3>1. LoopStep(g) /\ ~Current(g)
            BY <2>1, <2>3, LoopsMoveThemselves DEF Current
        <3> QED
            BY <3>1, LoopEffects DEF LeftOver, Alive
    <2> QED
        BY <2>1, <2>2, <2>3
<1>2. Init /\ [][Next]_vars => [][Ends]_vars
    BY <1>1, PageInit, PageStep, PTL
<1> QED
    BY <1>2, PTL DEF Spec, OvertakenEnds

\* The steps that the current loop still has when its job is settled: it may have
\* been given an earlier state, which takes one more poll.
PollsLeft(l) ==
    CASE l.pc = "fetch" -> 2
      [] l.pc = "delay" -> 3
      [] l.pc = "answered" -> IF l.answer = Nothing \/ Final(l.answer) THEN 1 ELSE 4
      [] OTHER -> 0

Tracks(g) == Current(g) /\ loops[g].pc \in Alive /\ status[tracked] \in {"success", "failed"}

SettledPollingDescends ==
    [][\A g \in Generations : Tracks(g) /\ trackingGeneration' = trackingGeneration =>
          /\ tracked' = tracked /\ status'[tracked] = status[tracked]
          /\ loops'[g] # loops[g] => PollsLeft(loops'[g]) < PollsLeft(loops[g])]_vars

\* From the moment its job is settled the current loop has at most four steps to
\* take, whatever it had read before and however its polls fail, and the job stays
\* settled: polling ends by itself.
THEOREM SettledPollingIsBounded == Spec => SettledPollingDescends
<1> DEFINE Descends ==
      \A g \in Generations : Tracks(g) /\ trackingGeneration' = trackingGeneration =>
          /\ tracked' = tracked /\ status'[tracked] = status[tracked]
          /\ loops'[g] # loops[g] => PollsLeft(loops'[g]) < PollsLeft(loops[g])
<1>1. PageInv /\ [Next]_vars => Descends
    <2> SUFFICES ASSUME PageInv, [Next]_vars, NEW g \in Generations,
                        Tracks(g), trackingGeneration' = trackingGeneration
                 PROVE  /\ tracked' = tracked /\ status'[tracked] = status[tracked]
                        /\ loops'[g] # loops[g] => PollsLeft(loops'[g]) < PollsLeft(loops[g])
        OBVIOUS
    <2>1. /\ trackingGeneration \in Nat /\ g = trackingGeneration
          /\ tracked \in Jobs /\ loops[g].id = tracked
        BY BoundsAssumption DEF PageInv, TypeOK, Loops, Tracks, Current
    <2>a. \/ ServerStep \/ UNCHANGED vars
          \/ \E h \in Generations : LoopStep(h)
        <3>1. \A id \in Jobs : ~Created(id) /\ ~Lookup(id)
            BY <2>1 DEF Created, Lookup, TrackJob
        <3>2. ~StopTracking
            BY <2>1 DEF StopTracking
        <3> QED
            BY <3>1, <3>2 DEF Next
    <2>2. tracked' = tracked
        BY <2>a, LoopEffects DEF ServerStep, vars
    <2>3. status'[tracked] = status[tracked]
        <3>1. CASE ServerStep
            <4>1. Final(Snapshot(tracked)) /\ status[tracked] # "none"
                BY DEF Tracks, Final, Snapshot
            <4>2. Snapshot(tracked)' = Snapshot(tracked)
                BY <2>1, <3>1, <4>1, ServerMoves DEF ServerStep, PageInv
            <4> QED
                BY <2>2, <4>2 DEF Snapshot
        <3>2. CASE ~ServerStep
            BY <3>2, <2>a, LoopEffects DEF vars, server
        <3> QED
            BY <3>1, <3>2
    <2>4. ASSUME loops'[g] # loops[g]
          PROVE  PollsLeft(loops'[g]) < PollsLeft(loops[g])
        <3>1. LoopStep(g)
            BY <2>1, <2>4, LoopsMoveThemselves
        <3>2. Final(Snapshot(tracked))
            BY DEF Tracks, Final, Snapshot
        <3>3. CASE loops[g].pc = "fetch"
            <4>1. /\ loops'[g].pc = "answered"
                  /\ loops'[g].answer = Nothing \/ Final(loops'[g].answer)
                BY <2>1, <3>1, <3>2, <3>3, LoopEffects
            <4> QED
                BY <3>3, <4>1 DEF PollsLeft
        <3>4. CASE loops[g].pc = "answered"
            <4>1. /\ loops'[g].pc \in {"delay", "done"}
                  /\ loops'[g].pc = "delay" =>
                        loops[g].answer # Nothing /\ ~Final(loops[g].answer)
                BY <3>1, <3>4, LoopEffects
            <4> QED
                BY <3>4, <4>1 DEF PollsLeft
        <3>5. CASE loops[g].pc = "delay"
            <4>1. loops'[g].pc = "fetch"
                BY <3>1, <3>5, LoopEffects DEF Tracks
            <4> QED
                BY <3>5, <4>1 DEF PollsLeft
        <3> QED
            BY <3>3, <3>4, <3>5 DEF Tracks, Alive
    <2> QED
        BY <2>2, <2>3, <2>4
<1>2. Init /\ [][Next]_vars => [][Descends]_vars
    BY <1>1, PageInit, PageStep, PTL
<1> QED
    BY <1>2, PTL DEF Spec, SettledPollingDescends

=============================================================================
