--------------------------- MODULE JobApiProofs ----------------------------
(***************************************************************************)
(* What the API answers and what it leaves behind, for any number of       *)
(* requests and IDs.  One invariant says of every request where it stands: *)
(* what it has stored and pushed so far follows from its next call or from *)
(* its answer.                                                             *)
(***************************************************************************)
EXTENDS JobApi, TLAPS

\* r has stored nothing and pushed nothing.
Clean(r) == \A i \in Ids : rows[i] # r /\ <<r, i>> \notin pushes

\* r has pushed nothing but the job it stored.
OwnPushes(r) == \A i \in Ids : <<r, i>> \in pushes => rows[i] = r

\* What a client is told of its job is true.
Told(r) ==
    /\ req[r].status \in {202, 503} => req[r].id \in Ids /\ rows[req[r].id] = r
    /\ req[r].status = 202 => <<r, req[r].id>> \in pushes

\* Where r stands.
Progress(r) ==
    /\ req[r].pc \in {"idle", "insert", "read"} => Clean(r)
    /\ req[r].pc = "push" => rows[req[r].id] = r
    /\ req[r].pc \in {"idle", "insert", "push", "read"} => req[r].status = Unanswered
    /\ req[r].pc \in {"insert", "push", "read"} => req[r].id \in Ids
    /\ req[r].pc \in {"idle", "insert", "push"} => ~req[r].knew
    /\ req[r].pc \in {"answer", "done"} => req[r].status # Unanswered
    /\ req[r].status \in Refusals => Clean(r)
    /\ Told(r)
    /\ req[r].status = 200 => req[r].id \in Stored
    /\ req[r].knew => req[r].id \in known
    /\ req[r].knew /\ req[r].status # Unanswered => req[r].status \in {200, 500}

Types ==
    /\ rows \in [Ids -> Requests \cup {NoRequest}]
    /\ pushes \subseteq Requests \X Ids
    /\ known \subseteq Ids
    /\ req \in [Requests -> Request]
    /\ faults \in 0..MaxFaults

Inv ==
    /\ Types
    /\ known \subseteq Stored
    /\ \A r \in Requests : OwnPushes(r) /\ Progress(r)

-----------------------------------------------------------------------------

\* A step of r leaves r where the invariant wants it, and touches no request, row
\* or push but its own.
Moves(r) ==
    /\ Types'
    /\ (known \subseteq Stored)'
    /\ (OwnPushes(r) /\ Progress(r))'
    /\ \A q \in Requests \ {r} : req'[q] = req[q]
    /\ \/ rows' = rows
       \/ \E i \in Ids : i \notin Stored /\ rows' = [rows EXCEPT ![i] = r]
    /\ \/ pushes' = pushes
       \/ \E i \in Ids : pushes' = pushes \cup {<<r, i>>}
    /\ known \subseteq known'

-----------------------------------------------------------------------------

LEMMA InitInv == Init => Inv
  BY NamesAssumption, FaultsAssumption
     DEF Init, Inv, Types, OwnPushes, Progress, Told, Clean, Idle, Request, Unanswered,
         Refusals, Answers, Stored

\* So the others stand where they stood.
LEMMA OthersStand ==
    ASSUME Inv, NEW r \in Requests, NEW q \in Requests, q # r, Moves(r)
    PROVE  (OwnPushes(q) /\ Progress(q))'
<1> USE NamesAssumption
<1>1. \A i \in Ids : rows'[i] = q <=> rows[i] = q
  BY DEF Inv, Types, Stored, Moves
<1>2. \A i \in Ids : <<q, i>> \in pushes' <=> <<q, i>> \in pushes
  BY DEF Moves
<1>3. Stored \subseteq Stored' /\ known \subseteq known' /\ req'[q] = req[q]
  BY DEF Inv, Types, Stored, Moves
<1>4. OwnPushes(q) /\ Progress(q) /\ req[q] \in Request
  BY DEF Inv, Types
<1>5. \A i : <<q, i>> \in pushes => <<q, i>> \in pushes'
  BY DEF Moves
<1> QED
  BY <1>1, <1>2, <1>3, <1>4, <1>5
     DEF OwnPushes, Progress, Told, Clean, Refusals, Unanswered, Request

LEMMA NextInv == Inv /\ [Next]_vars => Inv'
<1> SUFFICES ASSUME Inv, [Next]_vars PROVE Inv'
  OBVIOUS
<1> USE NamesAssumption, FaultsAssumption
<1>1. CASE UNCHANGED vars
  BY <1>1 DEF Inv, Types, OwnPushes, Progress, Told, Clean, Stored, vars
<1>2. CASE Next
  <2>1. PICK r \in Requests :
           \/ Post(r) \/ Insert(r) \/ Push(r)
           \/ Get(r) \/ Read(r) \/ Unrouted(r)
           \/ Deliver(r) \/ Lose(r) \/ Abort(r)
    BY <1>2 DEF Next
  <2>2. /\ Types
        /\ known \subseteq Stored
        /\ OwnPushes(r) /\ Progress(r)
        /\ req[r] \in Request
    BY DEF Inv, Types
  <2> USE DEF Types, Request, Answers, Refusals, Unanswered
  <2>3. ASSUME Post(r) PROVE Moves(r)
    <3>1. UNCHANGED <<rows, pushes, known, faults>> /\ req[r].pc = "idle"
      BY <2>3 DEF Post
    <3>2. ASSUME NEW i \in Ids, Calls(r, "insert", i, FALSE) PROVE Moves(r)
      <4>1. /\ req' \in [Requests -> Request]
            /\ req'[r] = [pc |-> "insert", id |-> i, knew |-> FALSE,
                         status |-> Unanswered]
            /\ \A q \in Requests \ {r} : req'[q] = req[q]
        BY <2>2, <3>2 DEF Calls
      <4>2. (OwnPushes(r) /\ Progress(r))'
        BY <2>2, <3>1, <4>1 DEF OwnPushes, Progress, Told, Clean, Stored
      <4> QED
        BY <2>2, <3>1, <4>1, <4>2 DEF Moves, Stored
    <3>3. ASSUME NEW b \in Bodies, Responds(r, Refusal(b)) PROVE Moves(r)
      <4>1. Refusal(b) \in {400, 413, 415}
        BY DEF Refusal, Bodies
      <4> QED
        BY <2>2, <3>1, <3>3, <4>1 DEF Responds, Moves, OwnPushes, Progress, Told, Clean, Stored
    <3> QED
      BY <2>3, <3>2, <3>3 DEF Post
  <2>4. ASSUME Insert(r) PROVE Moves(r)
    <3>1. UNCHANGED <<pushes, known>> /\ req[r].pc = "insert" /\ req[r].id \in Ids
      BY <2>2, <2>4 DEF Insert, Progress, Told
    <3>5. ASSUME req[r].id \notin Stored, Owns(r)
          PROVE  /\ rows' \in [Ids -> Requests \cup {NoRequest}]
                 /\ rows'[req[r].id] = r
                 /\ \A i \in Ids : rows[i] = r => rows'[i] = r
                 /\ Stored \subseteq Stored'
                 /\ \E i \in Ids : i \notin Stored /\ rows' = [rows EXCEPT ![i] = r]
      <4>1. rows' = [rows EXCEPT ![req[r].id] = r]
        BY <3>5 DEF Owns
      <4>2. \A i \in Ids : rows'[i] = IF i = req[r].id THEN r ELSE rows[i]
        BY <2>2, <3>1, <4>1
      <4>3. Stored \subseteq Stored'
        <5> SUFFICES ASSUME NEW i \in Ids, rows[i] # NoRequest
                     PROVE  rows'[i] # NoRequest
          BY DEF Stored
        <5> QED
          BY <4>2
      <4>4. rows' \in [Ids -> Requests \cup {NoRequest}] /\ rows'[req[r].id] = r
        BY <2>2, <3>1, <4>1
      <4>5. \A i \in Ids : rows[i] = r => rows'[i] = r
        BY <4>2
      <4> QED
        BY <3>1, <3>5, <4>1, <4>3, <4>4, <4>5
    <3>2. CASE /\ req[r].id \notin Stored
               /\ Owns(r)
               /\ req' = [req EXCEPT ![r].pc = "push"]
               /\ UNCHANGED faults
      <4>1. /\ req' \in [Requests -> Request]
            /\ req'[r] = [req[r] EXCEPT !.pc = "push"]
            /\ \A q \in Requests \ {r} : req'[q] = req[q]
        BY <2>2, <3>2
      <4>2. (OwnPushes(r) /\ Progress(r))'
        BY <2>2, <3>1, <3>2, <3>5, <4>1 DEF OwnPushes, Progress, Told, Clean, Stored
      <4> QED
        BY <2>2, <3>1, <3>2, <3>5, <4>1, <4>2 DEF Moves
    <3>3. CASE Responds(r, 409) /\ UNCHANGED <<rows, faults>>
      BY <2>2, <3>1, <3>3 DEF Responds, Moves, OwnPushes, Progress, Told, Clean, Stored
    <3>4. CASE /\ Fault
               /\ (req[r].id \notin Stored /\ Owns(r)) \/ UNCHANGED rows
               /\ Responds(r, 500)
      <4>1. faults' \in 0..MaxFaults
        BY <2>2, <3>4 DEF Fault
      <4>2. CASE UNCHANGED rows
        BY <2>2, <3>1, <3>4, <4>1, <4>2 DEF Responds, Moves, OwnPushes, Progress, Told, Clean, Stored
      <4>3. CASE req[r].id \notin Stored /\ Owns(r)
        <5>1. /\ req' \in [Requests -> Request]
              /\ req'[r] = [pc |-> "answer", id |-> req[r].id, knew |-> req[r].knew,
                           status |-> 500]
              /\ \A q \in Requests \ {r} : req'[q] = req[q]
          BY <2>2, <3>4 DEF Responds
        <5>2. (OwnPushes(r) /\ Progress(r))'
          BY <2>2, <3>1, <4>3, <3>5, <5>1 DEF OwnPushes, Progress, Told, Clean, Stored
        <5> QED
          BY <2>2, <3>1, <4>1, <4>3, <3>5, <5>1, <5>2 DEF Moves
      <4> QED
        BY <3>4, <4>2, <4>3
    <3> QED
      BY <2>4, <3>2, <3>3, <3>4 DEF Insert
  <2>5. ASSUME Push(r) PROVE Moves(r)
    BY <2>2, <2>5 DEF Push, Pushes, Fault, Responds, Moves, OwnPushes, Progress, Told, Clean, Stored
  <2>6. ASSUME Get(r) PROVE Moves(r)
    <3>1. UNCHANGED <<rows, pushes, known, faults>> /\ req[r].pc = "idle"
      BY <2>6 DEF Get
    <3>2. ASSUME NEW i \in Ids, Calls(r, "read", i, i \in known) PROVE Moves(r)
      <4>1. /\ req' \in [Requests -> Request]
            /\ req'[r] = [pc |-> "read", id |-> i, knew |-> (i \in known),
                         status |-> Unanswered]
            /\ \A q \in Requests \ {r} : req'[q] = req[q]
        BY <2>2, <3>2 DEF Calls
      <4>2. (OwnPushes(r) /\ Progress(r))'
        BY <2>2, <3>1, <4>1 DEF OwnPushes, Progress, Told, Clean, Stored
      <4> QED
        BY <2>2, <3>1, <4>1, <4>2 DEF Moves, Stored
    <3>3. CASE Responds(r, 400)
      BY <2>2, <3>1, <3>3 DEF Responds, Moves, OwnPushes, Progress, Told, Clean, Stored
    <3> QED
      BY <2>6, <3>2, <3>3 DEF Get, Parses
  <2>7. ASSUME Read(r) PROVE Moves(r)
    BY <2>2, <2>7 DEF Read, Fault, Responds, Moves, OwnPushes, Progress, Told, Clean, Stored
  <2>8. ASSUME Unrouted(r) PROVE Moves(r)
    BY <2>2, <2>8 DEF Unrouted, Responds, Moves, OwnPushes, Progress, Told, Clean, Stored
  <2>9. ASSUME Deliver(r) PROVE Moves(r)
    <3>1. /\ UNCHANGED <<rows, pushes, faults>> /\ req[r].pc = "answer"
          /\ req' = [req EXCEPT ![r].pc = "done"]
          /\ known' = IF req[r].status \in {200, 202} THEN known \cup {req[r].id} ELSE known
      BY <2>9 DEF Deliver
    <3>2. known \subseteq known' /\ known' \subseteq Stored /\ Stored' = Stored
      BY <2>2, <3>1 DEF Progress, Told, Stored
    <3>3. /\ req' \in [Requests -> Request]
          /\ req'[r] = [req[r] EXCEPT !.pc = "done"]
          /\ \A q \in Requests \ {r} : req'[q] = req[q]
      BY <2>2, <3>1
    <3>4. (OwnPushes(r) /\ Progress(r))'
      BY <2>2, <3>1, <3>2, <3>3 DEF OwnPushes, Progress, Told, Clean
    <3> QED
      BY <2>2, <3>1, <3>2, <3>3, <3>4 DEF Moves, Stored
  <2>10. ASSUME Lose(r) PROVE Moves(r)
    <3>1. /\ UNCHANGED <<rows, pushes, known, faults>> /\ req[r].pc \in {"answer"}
          /\ req' = [req EXCEPT ![r].pc = "lost"]
      BY <2>10 DEF Lose
    <3>2. /\ req' \in [Requests -> Request]
          /\ req'[r] = [req[r] EXCEPT !.pc = "lost"]
          /\ \A q \in Requests \ {r} : req'[q] = req[q]
      BY <2>2, <3>1
    <3>3. (OwnPushes(r) /\ Progress(r))'
      BY <2>2, <3>1, <3>2 DEF OwnPushes, Progress, Told, Clean, Stored
    <3> QED
      BY <2>2, <3>1, <3>2, <3>3 DEF Moves, Stored
  <2>11. ASSUME Abort(r) PROVE Moves(r)
    <3>1. /\ UNCHANGED <<rows, pushes, known, faults>> /\ req[r].pc \in {"insert", "push", "read"}
          /\ req' = [req EXCEPT ![r].pc = "lost"]
      BY <2>11 DEF Abort
    <3>2. /\ req' \in [Requests -> Request]
          /\ req'[r] = [req[r] EXCEPT !.pc = "lost"]
          /\ \A q \in Requests \ {r} : req'[q] = req[q]
      BY <2>2, <3>1
    <3>3. (OwnPushes(r) /\ Progress(r))'
      BY <2>2, <3>1, <3>2 DEF OwnPushes, Progress, Told, Clean, Stored
    <3> QED
      BY <2>2, <3>1, <3>2, <3>3 DEF Moves, Stored
  <2>12. Moves(r)
    BY <2>1, <2>3, <2>4, <2>5, <2>6, <2>7, <2>8, <2>9, <2>10, <2>11
  <2>13. (OwnPushes(r) /\ Progress(r) /\ Types /\ known \subseteq Stored)'
    BY <2>12 DEF Moves
  <2>14. \A q \in Requests : (OwnPushes(q) /\ Progress(q))'
    BY <2>12, <2>13, OthersStand
  <2> QED
    BY <2>13, <2>14 DEF Inv
<1> QED
  BY <1>1, <1>2

LEMMA SpecInv == Spec => []Inv
<1>1. Init => Inv
  BY InitInv
<1>2. Inv /\ [Next]_vars => Inv'
  BY NextInv
<1> QED
  BY <1>1, <1>2, PTL DEF Spec

\* TypeOK: a request has its answer when its calls are behind it, and not before.
THEOREM ApiTypeCorrect == Spec => []TypeOK
<1>1. Inv => TypeOK
  BY DEF Inv, Types, TypeOK, Progress, Told
<1> QED
  BY <1>1, SpecInv, PTL

\* PushedIsOwn: an ID in Redis belongs to a row that its request committed before.
THEOREM PushesAreStored == Spec => []PushedIsOwn
<1>1. Inv => PushedIsOwn
  BY DEF Inv, OwnPushes, PushedIsOwn
<1> QED
  BY <1>1, SpecInv, PTL

\* RefusedLeavesNothing: a 4xx answer to a POST means that nothing was changed.
THEOREM RefusalsAreClean == Spec => []RefusedLeavesNothing
<1>1. Inv => RefusedLeavesNothing
  BY DEF Inv, Progress, Told, Clean, RefusedLeavesNothing
<1> QED
  BY <1>1, SpecInv, PTL

\* AnswerTellsTheOutcome: 202 means stored and published, 503 means stored.
THEOREM AnswersAreTrue == Spec => []AnswerTellsTheOutcome
<1>1. Inv => AnswerTellsTheOutcome
  <2> SUFFICES ASSUME Inv, NEW r \in Requests
               PROVE  /\ req[r].status \in {202, 503} => rows[req[r].id] = r
                      /\ req[r].status = 202 => <<r, req[r].id>> \in pushes
    BY DEF AnswerTellsTheOutcome
  <2>1. Told(r)
    BY DEF Inv, Progress
  <2> QED
    BY <2>1 DEF Told
<1> QED
  BY <1>1, SpecInv, PTL

\* KnownIsFound: an ID once given to a client is never answered by 400 or 404.
THEOREM KnownJobsAreFound == Spec => []KnownIsFound
<1>1. Inv => KnownIsFound
  BY DEF Inv, Progress, Told, KnownIsFound
<1> QED
  BY <1>1, SpecInv, PTL

\* JobsAreKept: no request replaces the job of another one.
THEOREM JobsAreNeverReplaced == Spec => JobsAreKept
<1>1. Inv /\ [Next]_vars => [\A i \in Stored : rows'[i] = rows[i]]_vars
  <2> SUFFICES ASSUME Inv, Next PROVE \A i \in Stored : rows'[i] = rows[i]
    OBVIOUS
  <2>1. CASE UNCHANGED rows
    BY <2>1
  <2>2. CASE \E r \in Requests : req[r].id \notin Stored /\ Owns(r)
    BY <2>2 DEF Owns, Inv, Types, Stored
  <2> QED
    BY <2>1, <2>2 DEF Next, Post, Insert, Push, Get, Read, Unrouted, Deliver, Lose, Abort
<1> QED
  BY <1>1, SpecInv, PTL DEF Spec, JobsAreKept

=============================================================================
