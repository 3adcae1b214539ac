----------------------------- MODULE MCStartup -----------------------------
(* Instances of Startup for TLC: environments with at most one mistake. *)
EXTENDS Startup

GoodEnvironment == [n \in Names |-> "good"]
OneMistake == UNION {{[GoodEnvironment EXCEPT ![n] = c] : c \in Classes(n)} : n \in Names}

=============================================================================
