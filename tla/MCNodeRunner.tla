---------------------------- MODULE MCNodeRunner ----------------------------
(***************************************************************************)
(* A command, a loop with a completion marker, a loop without one and a    *)
(* loop with a negative number of iterations.                              *)
(***************************************************************************)
EXTENDS NodeRunner

MCNodes == {[loop |-> FALSE, iterations |-> 0, until |-> FALSE],
            [loop |-> TRUE, iterations |-> 2, until |-> TRUE],
            [loop |-> TRUE, iterations |-> 0, until |-> FALSE],
            [loop |-> TRUE, iterations |-> -1, until |-> TRUE]}
=============================================================================
