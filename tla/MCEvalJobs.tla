------------------------------ MODULE MCEvalJobs ------------------------------
(* Two collectors over a release set with two attribute sets and three     *)
(* jobs: the root holds `1` (an attribute set) and `2` (a job), and `1`     *)
(* holds the jobs `1.1` and `1.2`, so one collector waits while the other  *)
(* expands `1`.  One restart and one worker failure may happen.            *)
EXTENDS EvalJobs, TLC

MCTree == (<<>> :> {1, 2}) @@ (<<1>> :> {1, 2}) @@ (<<2>> :> {})
          @@ (<<1, 1>> :> {}) @@ (<<1, 2>> :> {})
=============================================================================
