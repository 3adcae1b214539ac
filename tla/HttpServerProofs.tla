-------------------------- MODULE HttpServerProofs --------------------------
(***************************************************************************)
(* The safety of the API's shutdown for any number of requests.  It holds  *)
(* because of where Run is: before it returns nothing has been cut, from   *)
(* the call of Shutdown on nothing is accepted, and what the listening     *)
(* goroutine reports stays in the channel until it becomes the result.     *)
(***************************************************************************)
EXTENDS HttpServer, Naturals, TLAPS

\* Nothing is accepted after the call of Shutdown, and the result is what Run
\* returns with.
Phases ==
    /\ run = "select" => ~stopping /\ result = "none"
    /\ run \in {"shutdown", "drained"} => stopping /\ result = "none"
    /\ run \in {"returned", "exited"} => result # "none"
    /\ result = "nil" => stopping

\* The channel holds the fate of the listener until it is the result.
Channel ==
    /\ serverErrors = "error" => listenFailed
    /\ serverErrors = "nil" => stopping
    /\ listenFailed => serverErrors = "error" \/ result = "error"
    /\ result = "nil" => ~listenFailed

Kept == result = "none" => \A r \in Requests : requests[r] # "cut"

ServerInv == /\ TypeOK /\ Phases /\ Channel /\ Kept
             /\ NilMeansAllAnswered

LEMMA ServerInit == Init => ServerInv
BY DEF Init, ServerInv, TypeOK, Phases, Channel, Kept, NilMeansAllAnswered, Active

\* Cut leaves every request that is not active as it was.
LEMMA CutRequests ==
    ASSUME requests \in [Requests -> {"none", "active", "answered", "cut"}], Cut
    PROVE  /\ requests' \in [Requests -> {"none", "active", "answered", "cut"}]
           /\ \A r \in Requests : requests[r] = "active" => requests'[r] = "cut"
           /\ \A r \in Requests : requests[r] # "active" => requests'[r] = requests[r]
BY DEF Cut, Active

LEMMA ServerStep == ServerInv /\ [Next]_vars => ServerInv'
<1> SUFFICES ASSUME ServerInv, [Next]_vars PROVE ServerInv'
    OBVIOUS
<1> USE DEF ServerInv, TypeOK, Phases, Channel, Kept, NilMeansAllAnswered, Active
<1>1. CASE Signal
    BY <1>1 DEF Signal
<1>2. CASE Listen
    BY <1>2 DEF Listen
<1>3. CASE ListenEnds
    BY <1>3 DEF ListenEnds
<1>4. CASE ListenFails
    BY <1>4 DEF ListenFails
<1>5. ASSUME NEW r \in Requests, Accept(r) PROVE ServerInv'
    BY <1>5 DEF Accept
<1>6. ASSUME NEW r \in Requests, Answer(r) PROVE ServerInv'
    BY <1>6 DEF Answer
<1>7. CASE Select
    BY <1>7 DEF Select, Return
<1>8. CASE ShutdownCompletes
    BY <1>8 DEF ShutdownCompletes
<1>9. CASE ShutdownFails
    BY <1>9, CutRequests DEF ShutdownFails, Return
<1>10. CASE Drain
    BY <1>10 DEF Drain, Return
<1>11. CASE CloseStores
    BY <1>11 DEF CloseStores
<1>12. CASE Exit
    BY <1>12, CutRequests DEF Exit
<1>13. CASE UNCHANGED vars
    BY <1>13 DEF vars
<1> QED
    BY <1>1, <1>2, <1>3, <1>4, <1>5, <1>6, <1>7, <1>8, <1>9, <1>10, <1>11, <1>12, <1>13
    DEF Next, ListenerStep, RunStep

LEMMA ServerInductive == Spec => []ServerInv
BY ServerInit, ServerStep, PTL DEF Spec

-----------------------------------------------------------------------------
\* Every variable keeps its type, and a drained server is idle.
THEOREM ServerTypeCorrect == Spec => []TypeOK
BY ServerInductive, PTL DEF ServerInv

\* A process that exits with 0 has answered every request it accepted.
THEOREM NilIsHonest == Spec => []NilMeansAllAnswered
BY ServerInductive, PTL DEF ServerInv

\* A failed listener is reported, whichever case of the select wins.
THEOREM ListenErrorsSurface == Spec => []ListenErrorIsReported
<1>1. ServerInv => ListenErrorIsReported
    BY DEF ServerInv, Channel, TypeOK, ListenErrorIsReported
<1> QED
    BY <1>1, ServerInductive, PTL

-----------------------------------------------------------------------------
(* That a signalled server ends is a liveness property, which TLC checks    *)
(* (SignalEndsTheServer); what is proved is what it rests on: Run never     *)
(* waits for something that will not come, and its steps are bounded.       *)

\* What the listening goroutine has sent is in the channel until it is the result.
Unreceived == listener = "ended" /\ serverErrors = "empty" => result # "none"

LEMMA UnreceivedStep == ServerInv /\ Unreceived /\ [Next]_vars => Unreceived'
<1> SUFFICES ASSUME ServerInv, Unreceived, [Next]_vars PROVE Unreceived'
    OBVIOUS
<1> USE DEF Unreceived
<1>1. CASE ListenEnds \/ ListenFails \/ Listen
    BY <1>1 DEF ListenEnds, ListenFails, Listen
<1>2. CASE Select \/ Drain
    BY <1>2 DEF Select, Drain, Return, ServerInv, TypeOK
<1>3. CASE ShutdownFails
    BY <1>3 DEF ShutdownFails, Return
<1>4. CASE UNCHANGED <<listener, serverErrors, result>>
    BY <1>4
<1> QED
    BY <1>1, <1>2, <1>3, <1>4
    DEF Next, ListenerStep, RunStep, Signal, Accept, Answer, ShutdownCompletes, CloseStores,
        Exit, vars

\* After a clean shutdown Run receives from the channel without a deadline.  It is
\* never left there: the goroutine whose value was not taken yet has been stopped
\* and has still to send it, although a failed listener sends earlier and the
\* select may have chosen the signal.
THEOREM RunIsNeverLeftWaiting == Spec => []NeverWaitsInVain
<1>1. Init => Unreceived
    BY DEF Init, Unreceived
<1>2. ServerInv /\ Unreceived => NeverWaitsInVain
    BY DEF ServerInv, Phases, Unreceived, NeverWaitsInVain
<1> QED
    BY ServerInit, ServerStep, UnreceivedStep, <1>1, <1>2, PTL DEF Spec

RunRank == CASE run = "select"   -> 5
             [] run = "shutdown" -> 4
             [] run = "drained"  -> 3
             [] run = "returned" -> IF stores = "open" THEN 2 ELSE 1
             [] OTHER            -> 0

ListenerRank == CASE listener = "starting"  -> 2
                  [] listener = "listening" -> 1
                  [] OTHER                  -> 0

RanksDescend ==
    /\ RunRank' <= RunRank /\ ListenerRank' <= ListenerRank
    /\ RunStep => RunRank' < RunRank
    /\ ListenerStep \/ ListenFails => ListenerRank' < ListenerRank

ServerIsBounded == [][RanksDescend]_vars

\* Run and main take at most five steps and the listening goroutine two, however
\* many requests are accepted meanwhile: no request, no failed listener and no
\* second signal takes them back.
THEOREM ServerStepsAreBounded == Spec => ServerIsBounded
<1>1. ASSUME ServerInv, [Next]_vars PROVE RanksDescend
    <2>1. RunRank \in Nat /\ ListenerRank \in Nat
        BY DEF RunRank, ListenerRank
    <2>2. ASSUME ListenerStep \/ ListenFails
          PROVE  ListenerRank' < ListenerRank /\ UNCHANGED <<run, stores>>
        BY <2>2 DEF ListenerStep, Listen, ListenEnds, ListenFails, ListenerRank
    <2>3. ASSUME RunStep
          PROVE  RunRank' < RunRank /\ UNCHANGED listener
        <3>1. CASE Select \/ ShutdownFails \/ Drain
            BY <3>1 DEF Select, ShutdownFails, Drain, Return, RunRank
        <3>2. CASE ShutdownCompletes \/ CloseStores \/ Exit
            BY <3>2 DEF ShutdownCompletes, CloseStores, Exit, RunRank
        <3> QED
            BY <2>3, <3>1, <3>2 DEF RunStep
    <2>4. CASE ListenerStep \/ ListenFails \/ RunStep
        BY <2>1, <2>2, <2>3, <2>4 DEF RanksDescend, RunRank, ListenerRank
    <2>5. CASE ~(ListenerStep \/ ListenFails \/ RunStep)
        <3>1. UNCHANGED <<run, stores, listener>>
            BY <1>1, <2>5 DEF Next, Signal, Accept, Answer, vars
        <3> QED
            BY <2>1, <2>5, <3>1 DEF RanksDescend, RunRank, ListenerRank
    <2> QED
        BY <2>4, <2>5
<1>2. Init /\ [][Next]_vars => [][RanksDescend]_vars
    BY <1>1, ServerInit, ServerStep, PTL
<1> QED
    BY <1>2, PTL DEF Spec, ServerIsBounded

=============================================================================
