---------------------------- MODULE MCPreCommit ----------------------------
(***************************************************************************)
(* Two files, the larger of which decides most floors.  Of 7 statements in *)
(* 11 the coverage is 63.63636...: two thresholds are just above, one      *)
(* within the slack of 0.01 and one out of it.                             *)
(***************************************************************************)
EXTENDS PreCommit, TLC

CONSTANTS f1, f2

MCStatements == (f1 :> 7) @@ (f2 :> 4)

\* The names as they are, one in quotes, one of blanks only, and one that is
\* trimmed to the other.
MCNames == {(f1 :> n) @@ (f2 :> f2) : n \in {f1, f2, Unknown, Blank}}

MCThresholds == {0, 63637, 63650}
=============================================================================
