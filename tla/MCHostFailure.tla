--------------------------- MODULE MCHostFailure ----------------------------
(* Instances of HostFailure for TLC.                                       *)
EXTENDS HostFailure, TLC

Symmetry == Permutations(Jobs) \cup Permutations(Workers)

=============================================================================
