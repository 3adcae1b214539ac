----------------------------- MODULE HttpServer -----------------------------
(***************************************************************************)
(* The API process around its requests: HTTPServer.Run selects between the *)
(* end of the listening goroutine and the signal that cancels its context, *)
(* shuts the server down gracefully within a timeout, and returns to main, *)
(* which closes MySQL and Redis and exits.                                 *)
(*                                                                         *)
(* net/http is external: Shutdown stops the listener at once and looks     *)
(* from time to time whether a request is active; it ends with nil when it *)
(* sees none, with an error when the timeout comes first or closing the    *)
(* listener failed.  Close cuts the connections.                           *)
(*                                                                         *)
(* A definition named ...Mutant is the next one with a plausible mistake.  *)
(***************************************************************************)
CONSTANTS Requests   \* requests the clients may send

VARIABLES
    ctxDone,         \* SIGTERM or SIGINT has arrived
    listener,        \* the goroutine in ListenAndServe
    serverErrors,    \* the buffered channel: "empty", "nil" or "error"
    stopping,        \* Shutdown or Close has been called on the server
    run,             \* where Run is
    result,          \* what Run has returned: "none", "nil" or "error"
    stores,          \* the connections of main to MySQL and Redis
    requests,        \* requests[r]
    listenFailed     \* history: ListenAndServe has failed

vars == <<ctxDone, listener, serverErrors, stopping, run, result, stores, requests,
          listenFailed>>

Init ==
    /\ ctxDone = FALSE
    /\ listener = "starting"
    /\ serverErrors = "empty"
    /\ stopping = FALSE
    /\ run = "select"
    /\ result = "none"
    /\ stores = "open"
    /\ requests = [r \in Requests |-> "none"]
    /\ listenFailed = FALSE

Active == {r \in Requests : requests[r] = "active"}

Cut == requests' = [r \in Requests |-> IF r \in Active THEN "cut" ELSE requests[r]]

Signal ==
    /\ ~ctxDone
    /\ run # "exited"
    /\ ctxDone' = TRUE
    /\ UNCHANGED <<listener, serverErrors, stopping, run, result, stores, requests,
                   listenFailed>>

-----------------------------------------------------------------------------
(* The listening goroutine.                                                *)

Listen ==
    /\ listener = "starting" /\ ~stopping /\ run # "exited"
    /\ listener' = "listening"
    /\ UNCHANGED <<ctxDone, serverErrors, stopping, run, result, stores, requests,
                   listenFailed>>

\* The address is in use, or Accept fails for good.
ListenFails ==
    /\ listener \in {"starting", "listening"} /\ ~stopping /\ run # "exited"
    /\ listener' = "ended"
    /\ serverErrors' = "error"
    /\ listenFailed' = TRUE
    /\ UNCHANGED <<ctxDone, stopping, run, result, stores, requests>>

ListenEndsSilentlyMutant ==      \* ErrServerClosed is not sent at all
    /\ listener \in {"starting", "listening"} /\ stopping /\ run # "exited"
    /\ listener' = "ended"
    /\ UNCHANGED <<ctxDone, serverErrors, stopping, run, result, stores, requests, listenFailed>>

\* ErrServerClosed is not an error.  The send never blocks: the channel has room.
ListenEnds ==
    /\ listener \in {"starting", "listening"} /\ stopping /\ run # "exited"
    /\ listener' = "ended"
    /\ serverErrors' = "nil"
    /\ UNCHANGED <<ctxDone, stopping, run, result, stores, requests, listenFailed>>

Accept(r) ==
    /\ listener = "listening" /\ ~stopping /\ run # "exited"
    /\ requests[r] = "none"
    /\ requests' = [requests EXCEPT ![r] = "active"]
    /\ UNCHANGED <<ctxDone, listener, serverErrors, stopping, run, result, stores,
                   listenFailed>>

Answer(r) ==
    /\ requests[r] = "active"
    /\ requests' = [requests EXCEPT ![r] = "answered"]
    /\ UNCHANGED <<ctxDone, listener, serverErrors, stopping, run, result, stores,
                   listenFailed>>

-----------------------------------------------------------------------------
(* Run and main.                                                           *)

Return(value) == run' = "returned" /\ result' = value

\* Both cases of the select may be ready; then either is taken.
Select ==
    /\ run = "select"
    /\ \/ /\ serverErrors # "empty"
          /\ Return(serverErrors)
          /\ serverErrors' = "empty"
          /\ UNCHANGED stopping
       \/ /\ ctxDone
          /\ run' = "shutdown"
          /\ stopping' = TRUE
          /\ UNCHANGED <<result, serverErrors>>
    /\ UNCHANGED <<ctxDone, listener, stores, requests, listenFailed>>

ShutdownCompletes ==
    /\ run = "shutdown"
    /\ Active = {}
    /\ run' = "drained"
    /\ UNCHANGED <<ctxDone, listener, serverErrors, stopping, result, stores, requests,
                   listenFailed>>

ShutdownFailsMutant == FALSE /\ UNCHANGED vars   \* Shutdown without a deadline

ShutdownFailsQuietlyMutant ==    \* the error of Shutdown is not returned
    /\ run = "shutdown"
    /\ Cut /\ Return("nil")
    /\ UNCHANGED <<ctxDone, listener, serverErrors, stopping, stores, listenFailed>>

\* Shutdown returns an error, after shutdownTimeout at the latest, perhaps although
\* the last request has just been answered.  Close cuts what is left; the goroutine
\* is not awaited.
ShutdownFails ==
    /\ run = "shutdown"
    /\ Cut
    /\ Return("error")
    /\ UNCHANGED <<ctxDone, listener, serverErrors, stopping, stores, listenFailed>>

DrainMutant ==      \* after a clean shutdown the goroutine is not asked
    /\ run = "drained"
    /\ Return("nil")
    /\ UNCHANGED <<ctxDone, listener, serverErrors, stopping, stores, requests, listenFailed>>

Drain ==
    /\ run = "drained"
    /\ serverErrors # "empty"
    /\ Return(serverErrors)
    /\ serverErrors' = "empty"
    /\ UNCHANGED <<ctxDone, listener, stopping, stores, requests, listenFailed>>

\* The deferred Close calls of main, then the end of the process; requests that
\* are still active end with it.
CloseStores ==
    /\ run = "returned"
    /\ stores = "open"
    /\ stores' = "closed"
    /\ UNCHANGED <<ctxDone, listener, serverErrors, stopping, run, result, requests,
                   listenFailed>>

Exit ==
    /\ run = "returned"
    /\ stores = "closed"
    /\ run' = "exited"
    /\ Cut
    /\ UNCHANGED <<ctxDone, listener, serverErrors, stopping, result, stores, listenFailed>>

RunStep == \/ Select \/ ShutdownCompletes \/ ShutdownFails \/ Drain
           \/ CloseStores \/ Exit
ListenerStep == Listen \/ ListenEnds

Next == \/ Signal \/ ListenerStep \/ ListenFails \/ RunStep
        \/ \E r \in Requests : Accept(r) \/ Answer(r)

\* Goroutines run and the timer fires; no handler promises to answer in time.
Spec == Init /\ [][Next]_vars /\ WF_vars(RunStep) /\ WF_vars(ListenerStep)

-----------------------------------------------------------------------------
(* Properties.                                                             *)

\* Every variable keeps its type; the channel is filled by a listener that has
\* ended, and a server that was shut down without an error is idle.
TypeOK ==
    /\ ctxDone \in BOOLEAN /\ stopping \in BOOLEAN /\ listenFailed \in BOOLEAN
    /\ listener \in {"starting", "listening", "ended"}
    /\ serverErrors \in {"empty", "nil", "error"}
    /\ run \in {"select", "shutdown", "drained", "returned", "exited"}
    /\ result \in {"none", "nil", "error"}
    /\ stores \in {"open", "closed"}
    /\ requests \in [Requests -> {"none", "active", "answered", "cut"}]
    /\ serverErrors # "empty" => listener = "ended"
    /\ run = "drained" => Active = {}

\* Run returns nil (and the process exits with 0) only if every accepted request
\* was answered: none is cut off, and none loses MySQL or Redis under its feet.
NilMeansAllAnswered == result = "nil" => \A r \in Requests : requests[r] \in {"none", "answered"}

\* A listener that failed is reported, also when the signal arrives at the same
\* moment and wins the select.
ListenErrorIsReported == listenFailed /\ result # "none" => result = "error"

\* After a clean shutdown Run receives from the channel without a deadline, whoever
\* else has received before: its value is there, or the goroutine has still to send it.
NeverWaitsInVain ==
    run = "drained" /\ serverErrors = "empty" => listener # "ended" /\ stopping

\* A signalled server returns, however long a handler takes.
SignalEndsTheServer == ctxDone ~> run \in {"returned", "exited"}

=============================================================================
