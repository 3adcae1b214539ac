---------------------------- MODULE MCTimedJob -----------------------------
(* Instances of TimedJob for TLC: the hosts are model values, times are in    *)
(* nanoseconds; the second host's clock is behind or ahead, or both agree.    *)
EXTENDS TimedJob

SmallOffsets == {-800, 0, 1200}

=============================================================================
