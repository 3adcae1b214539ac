------------------------------- MODULE JobApi -------------------------------
(***************************************************************************)
(* The HTTP API as its clients see it: POST /api/v1/jobs with everything   *)
(* that may be wrong with its body, GET /api/v1/jobs/{jobID}, and requests *)
(* that match no API route.  CreateJob models the effects of an accepted   *)
(* POST inside the pipeline; this module relates the answer of every       *)
(* request to what it left behind, for requests that overlap, calls that   *)
(* fail after they took effect and answers that never arrive.              *)
(*                                                                         *)
(* One step is one call to MySQL or Redis with the code up to the next     *)
(* call, or the journey of an answer.  NewID cannot fail: since Go 1.24    *)
(* crypto/rand ends the process instead of returning an error.             *)
(*                                                                         *)
(* A definition named ...Mutant is the next one with a plausible mistake.  *)
(***************************************************************************)
EXTENDS Naturals

CONSTANTS
    Requests,    \* requests the clients may send
    Ids,         \* job IDs that NewID may draw, well-formed UUIDs
    NoId,        \* a path segment that is not a UUID
    NoRequest,   \* "no request"
    MaxFaults    \* bound: failed calls to MySQL and Redis

ASSUME NamesAssumption == NoId \notin Ids /\ NoRequest \notin Requests
ASSUME FaultsAssumption == MaxFaults \in Nat

VARIABLES
    rows,      \* rows[i]: the request that stored the job, or NoRequest
    pushes,    \* the <<r, i>> such that r pushed i to Redis
    known,     \* the IDs that some client was given in an answer
    req,       \* req[r]: where the request is, its job and its answer
    faults     \* used part of the bound

vars == <<rows, pushes, known, req, faults>>

\* What decodeCreateJobRequest and the domain tell apart in a POST:
\*   json     the Content-Type is application/json
\*   first    the first JSON value of the body: none, still open after 1 MiB,
\*            not a request object, or one
\*   rest     what follows it
\*   type, payload   the fields are a job type and a non-empty object
Bodies == [json    : BOOLEAN,
           first   : {"none", "tooLong", "invalid", "request"},
           rest    : {"end", "more", "tooLong"},
           type    : BOOLEAN,
           payload : BOOLEAN]

Unanswered == 0
Refusals == {400, 409, 413, 415}
Answers == Refusals \cup {200, 202, 404, 405, 500, 503}

\* knew tells of a GET whether some client had been given the ID when it was sent.
Request == [pc     : {"idle", "insert", "push", "read", "answer", "done", "lost"},
            id     : Ids \cup {NoId},
            knew   : BOOLEAN,
            status : Answers \cup {Unanswered}]

Idle == [pc |-> "idle", id |-> NoId, knew |-> FALSE,
         status |-> Unanswered]

Init ==
    /\ rows = [i \in Ids |-> NoRequest]
    /\ pushes = {}
    /\ known = {}
    /\ req = [r \in Requests |-> Idle]
    /\ faults = 0

-----------------------------------------------------------------------------
(* Steps of a request.                                                     *)

Stored == {i \in Ids : rows[i] # NoRequest}
Fault == faults < MaxFaults /\ faults' = faults + 1

\* r goes on with a call for i.
Calls(r, pc, i, knew) ==
    req' = [req EXCEPT ![r] = [pc |-> pc, id |-> i, knew |-> knew,
                               status |-> Unanswered]]

\* r has been given its response.
Responds(r, status) ==
    req' = [req EXCEPT ![r] = [pc |-> "answer", id |-> @.id, knew |-> @.knew,
                               status |-> status]]

\* decodeCreateJobRequest: one JSON object with no other fields and nothing after
\* it, within 1 MiB.
Decodes(b) == b.json /\ b.first = "request" /\ b.rest = "end"

\* ParseType, then job.New with a new ID and the payload.
Valid(b) == Decodes(b) /\ b.type /\ b.payload

\* Only a value that is cut off by the limit is reported as too large; a complete
\* one followed by too much is an invalid request.
Refusal(b) ==
    CASE ~b.json                          -> 415
      [] b.json /\ b.first = "tooLong"    -> 413
      [] b.json /\ b.first # "tooLong"    -> 400

\* POST /api/v1/jobs up to the INSERT.
Post(r) ==
    /\ req[r].pc = "idle"
    /\ \E b \in Bodies :
          \/ Valid(b) /\ \E i \in Ids : Calls(r, "insert", i, FALSE)
          \/ ~Valid(b) /\ Responds(r, Refusal(b))
    /\ UNCHANGED <<rows, pushes, known, faults>>

Owns(r) == rows' = [rows EXCEPT ![req[r].id] = r]

InsertUncheckedMutant(r) ==   \* the error of Create is not returned
    /\ req[r].pc = "insert"
    /\ \/ req[r].id \notin Stored /\ Owns(r) /\ UNCHANGED faults
       \/ Fault /\ UNCHANGED rows
    /\ req' = [req EXCEPT ![r].pc = "push"]
    /\ UNCHANGED <<pushes, known>>

\* JobRepository.Create: the primary key refuses an ID that has a row.
Insert(r) ==
    /\ req[r].pc = "insert"
    /\ \/ /\ req[r].id \notin Stored
          /\ Owns(r)
          /\ req' = [req EXCEPT ![r].pc = "push"]
          /\ UNCHANGED faults
       \/ /\ req[r].id \in Stored
          /\ Responds(r, 409)
          /\ UNCHANGED <<rows, faults>>
       \/ /\ Fault
          /\ (req[r].id \notin Stored /\ Owns(r)) \/ UNCHANGED rows
          /\ Responds(r, 500)
    /\ UNCHANGED <<pushes, known>>

Pushes(r) == pushes' = pushes \cup {<<r, req[r].id>>}

PushMutant(r) ==         \* a job that is stored counts as accepted
    /\ req[r].pc = "push"
    /\ \/ Pushes(r) /\ UNCHANGED faults
       \/ Fault /\ (Pushes(r) \/ UNCHANGED pushes)
    /\ Responds(r, 202)
    /\ UNCHANGED <<rows, known>>

PushRefusedMutant(r) ==  \* the queue's error falls to the case of a conflict
    /\ req[r].pc = "push"
    /\ \/ Pushes(r) /\ Responds(r, 202) /\ UNCHANGED faults
       \/ Fault /\ (Pushes(r) \/ UNCHANGED pushes) /\ Responds(r, 409)
    /\ UNCHANGED <<rows, known>>

\* JobQueue.Enqueue.
Push(r) ==
    /\ req[r].pc = "push"
    /\ \/ Pushes(r) /\ Responds(r, 202) /\ UNCHANGED faults
       \/ Fault /\ (Pushes(r) \/ UNCHANGED pushes) /\ Responds(r, 503)
    /\ UNCHANGED <<rows, known>>

\* ParseID: a path segment of the form of a UUID.
Parses(i) == i # NoId

\* GET /api/v1/jobs/{jobID}: ParseID, then GetByID.
Get(r) ==
    /\ req[r].pc = "idle"
    /\ \E i \in Ids \cup {NoId} :
          \/ Parses(i) /\ Calls(r, "read", i, i \in known)
          \/ ~Parses(i) /\ Responds(r, 400)
    /\ UNCHANGED <<rows, pushes, known, faults>>

ReadMutant(r) ==         \* every error of the repository is ErrJobNotFound
    /\ req[r].pc = "read"
    /\ \/ req[r].id \in Stored /\ Responds(r, 200) /\ UNCHANGED faults
       \/ req[r].id \notin Stored /\ Responds(r, 404) /\ UNCHANGED faults
       \/ Fault /\ Responds(r, 404)
    /\ UNCHANGED <<rows, pushes, known>>

Read(r) ==
    /\ req[r].pc = "read"
    /\ \/ req[r].id \in Stored /\ Responds(r, 200) /\ UNCHANGED faults
       \/ req[r].id \notin Stored /\ Responds(r, 404) /\ UNCHANGED faults
       \/ Fault /\ Responds(r, 500)
    /\ UNCHANGED <<rows, pushes, known>>

\* An API path or method that NewRouter does not list: a GET falls to the UI
\* handler, which answers http.NotFound; any other method to ServeMux.
Unrouted(r) ==
    /\ req[r].pc = "idle"
    /\ \E status \in {404, 405} : Responds(r, status)
    /\ UNCHANGED <<rows, pushes, known, faults>>

Deliver(r) ==
    /\ req[r].pc = "answer"
    /\ req' = [req EXCEPT ![r].pc = "done"]
    /\ known' = IF req[r].status \in {200, 202} THEN known \cup {req[r].id} ELSE known
    /\ UNCHANGED <<rows, pushes, faults>>

\* The client has gone, at any moment; the handler goes on until a call notices
\* its cancelled context, which is one of the faults.
Lose(r) ==
    /\ req[r].pc = "answer"
    /\ req' = [req EXCEPT ![r].pc = "lost"]
    /\ UNCHANGED <<rows, pushes, known, faults>>

\* The process dies under the request.
Abort(r) ==
    /\ req[r].pc \in {"insert", "push", "read"}
    /\ req' = [req EXCEPT ![r].pc = "lost"]
    /\ UNCHANGED <<rows, pushes, known, faults>>

Next == \E r \in Requests :
    \/ Post(r) \/ Insert(r) \/ Push(r)
    \/ Get(r) \/ Read(r) \/ Unrouted(r)
    \/ Deliver(r) \/ Lose(r) \/ Abort(r)

Spec == Init /\ [][Next]_vars

-----------------------------------------------------------------------------
(* Properties.                                                             *)

\* Every variable keeps its type, and a request has its answer when, and only when,
\* its calls are behind it; one whose process died has none.
TypeOK ==
    /\ rows \in [Ids -> Requests \cup {NoRequest}]
    /\ pushes \subseteq Requests \X Ids
    /\ known \subseteq Ids
    /\ req \in [Requests -> Request]
    /\ faults \in 0..MaxFaults
    /\ \A r \in Requests :
          /\ req[r].pc \in {"insert", "push", "read"} =>
                req[r].id \in Ids /\ req[r].status = Unanswered
          /\ req[r].pc \in {"answer", "done"} => req[r].status # Unanswered

\* Only the request that stored a job publishes its ID, and it does so after the
\* row is committed: a worker that pops the ID finds the row (create_job.go:86-91).
PushedIsOwn == \A r \in Requests, i \in Ids : <<r, i>> \in pushes => rows[i] = r

\* A POST that is refused has changed nothing, so a client may correct it and send
\* it again: neither a row nor an ID in the queue is left of it.
RefusedLeavesNothing ==
    \A r \in Requests : req[r].status \in Refusals =>
        \A i \in Ids : rows[i] # r /\ <<r, i>> \notin pushes

\* 202 is given for a job that is stored and published (README, "Create a job"),
\* 503 for one that is stored: it stays pending though nobody may ever be told
\* its ID.
AnswerTellsTheOutcome ==
    \A r \in Requests :
        /\ req[r].status \in {202, 503} => rows[req[r].id] = r
        /\ req[r].status = 202 => <<r, req[r].id>> \in pushes

\* An ID that a client was given is found by every request sent afterwards: only a
\* failing call, never 400 or 404, keeps the job from it.
KnownIsFound ==
    \A r \in Requests :
        req[r].knew /\ req[r].status # Unanswered => req[r].status \in {200, 500}

\* A job is never replaced by another one, also when two requests draw one ID.
JobsAreKept == [][\A i \in Stored : rows'[i] = rows[i]]_vars

=============================================================================
