---------------------------- MODULE MCAsyncJobs ----------------------------
(* Instances of AsyncJobs for TLC: jobs and workers are model values, which *)
(* the configurations give.  Its runs check liveness, so without symmetry.  *)
EXTENDS AsyncJobs

=============================================================================
