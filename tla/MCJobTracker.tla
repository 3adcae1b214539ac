---------------------------- MODULE MCJobTracker ----------------------------
(* Instances of JobTracker for TLC: jobs are model values, which the         *)
(* configuration gives; the run checks liveness, so without symmetry.        *)
EXTENDS JobTracker

=============================================================================
