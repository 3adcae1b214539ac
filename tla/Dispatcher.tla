----------------------------- MODULE Dispatcher ----------------------------
(***************************************************************************)
(* Dispatcher.Run: pop an ID from the Redis list (BRPOP without timeout),  *)
(* offer it on the unbuffered channel of the pool, repeat.  Popping      *)
(* removes the ID from Redis: from then on only this process knows it.     *)
(***************************************************************************)
EXTENDS Pipeline

\* The top of the loop: Dequeue fails at once with a cancelled context.
Loop == dispatcher' = IF ctxDone THEN "stopped" ELSE "dequeue"

\* BLPOP with LPUSH: the youngest ID is popped.
DequeueMutant ==
    /\ dispatcher = "dequeue"
    /\ queue # <<>>
    /\ held' = queue[Len(queue)]
    /\ queue' = SubSeq(queue, 1, Len(queue) - 1)
    /\ dispatcher' = "send"
    /\ UNCHANGED <<rows, request, process, worker, attempts, budget>>

\* BRPOP blocks while the list is empty.
Dequeue ==
    /\ dispatcher = "dequeue"
    /\ queue # <<>>
    /\ held' = Head(queue)
    /\ queue' = Tail(queue)
    /\ dispatcher' = "send"
    /\ UNCHANGED <<rows, request, process, worker, attempts, budget>>

\* Possible only: the context is tested before the command is sent, but go-redis does
\* not interrupt the read of an answer (ContextTimeoutEnabled is off), and BRPOP
\* without timeout has no read deadline.
DequeueCancelled ==
    /\ dispatcher = "dequeue"
    /\ ctxDone
    /\ dispatcher' = "stopped"
    /\ UNCHANGED <<rows, queue, request, process, held, worker, attempts, budget>>

\* The popped ID may be lost with the reply.  dispatcherContextFinished looks at the
\* context first, and takes a deadline error (a dial that timed out) for its end.
DequeueFault ==
    /\ dispatcher = "dequeue"
    /\ Fault
    /\ \/ UNCHANGED queue
       \/ queue # <<>> /\ queue' = Tail(queue)
    /\ \/ ~ctxDone /\ dispatcher' = "backoff"
       \/ dispatcher' = "stopped"
    /\ UNCHANGED <<rows, request, process, held, worker, attempts, duplicates, limits>>

\* Only the end of the context ends the wait.
BackoffMutant ==
    /\ dispatcher = "backoff" /\ ctxDone /\ Loop
    /\ UNCHANGED <<rows, queue, request, process, held, worker, attempts, budget>>

Backoff ==
    /\ dispatcher = "backoff"
    /\ Loop
    /\ UNCHANGED <<rows, queue, request, process, held, worker, attempts, budget>>

\* The rendezvous on the channel.  The selects of both goroutines also watch
\* the context, but a select with two ready cases may take either.
Handoff(w) ==
    /\ dispatcher = "send"
    /\ worker[w].pc = "receive"
    /\ worker' = [worker EXCEPT ![w] = [pc |-> "load", job |-> held, entity |-> NoRow]]
    /\ held' = NoJob
    /\ Loop
    /\ UNCHANGED <<rows, queue, request, process, attempts, budget>>

AbandonSendMutant == FALSE /\ UNCHANGED vars   \* a send that ignores the context

\* The context is cancelled while the ID is on offer: the ID is dropped.
AbandonSend ==
    /\ dispatcher = "send"
    /\ ctxDone
    /\ held' = NoJob
    /\ dispatcher' = "stopped"
    /\ UNCHANGED <<rows, queue, request, process, worker, attempts, budget>>

\* What the dispatcher does by itself, and what may also happen to it.
DispatcherRuns == \/ Dequeue \/ Backoff \/ AbandonSend
                  \/ \E w \in Workers : Handoff(w)

DispatcherStep == DispatcherRuns \/ DequeueCancelled \/ DequeueFault

=============================================================================
