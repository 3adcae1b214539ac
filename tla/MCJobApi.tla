------------------------------ MODULE MCJobApi ------------------------------
(* Instances of JobApi for TLC: requests are interchangeable, and so are IDs. *)
EXTENDS JobApi, TLC

Symmetry == Permutations(Requests) \cup Permutations(Ids)

=============================================================================
