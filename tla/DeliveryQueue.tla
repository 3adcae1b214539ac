--------------------------- MODULE DeliveryQueue ---------------------------
(***************************************************************************)
(* What Redis list, dispatcher and channel promise together: IDs wait in    *)
(* the order in which they were published; only the oldest one ever leaves, *)
(* one at a time, to a free consumer or into nothing; a consumer has the ID *)
(* it was given until it lets go of it, and only then may it publish it     *)
(* again.  The end of the worker process takes what its memory held: every  *)
(* consumer's ID and at most the one that was being offered.                *)
(*                                                                         *)
(* Nothing is said about an ID that leaves into nothing: delivery is at     *)
(* most once.                                                              *)
(***************************************************************************)
EXTENDS Naturals, Sequences

CONSTANTS Items,        \* what is queued
          Consumers,    \* who receives it
          None          \* a consumer's hands are empty

VARIABLES waiting,      \* published and with no consumer yet, oldest first
          holding       \* holding[c]: what consumer c was given

vars == <<waiting, holding>>

Empty == [c \in Consumers |-> None]

Init == waiting = <<>> /\ holding = Empty

\* A publication is applied once, or twice when its first reply was lost.
Publish(i) == waiting' \in {Append(waiting, i), Append(Append(waiting, i), i)}

Oldest(i) == waiting # <<>> /\ i = Head(waiting) /\ waiting' = Tail(waiting)

Deliver(c) == /\ holding[c] = None
              /\ \E i \in Items : Oldest(i) /\ holding' = [holding EXCEPT ![c] = i]

Lose == (\E i \in Items : Oldest(i)) /\ UNCHANGED holding

Release(c) == /\ holding[c] # None
              /\ holding' = [holding EXCEPT ![c] = None]
              /\ UNCHANGED waiting \/ Publish(holding[c])

End == /\ holding' = Empty
       /\ UNCHANGED waiting \/ \E i \in Items : Oldest(i)

Next == \/ \E i \in Items : Publish(i) /\ UNCHANGED holding
        \/ \E c \in Consumers : Deliver(c) \/ Release(c)
        \/ Lose \/ End

Spec == Init /\ [][Next]_vars

=============================================================================
