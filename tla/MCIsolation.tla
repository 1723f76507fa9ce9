---------------------------- MODULE MCIsolation ----------------------------
(***************************************************************************)
(* Run ids for Isolation: three that become one name, one that lies below  *)
(* it, one of which nothing is left, and one that stands alone.            *)
(***************************************************************************)
EXTENDS Isolation

MCRunIds == {<<"a">>, <<"A">>, <<"/", "a", ".">>, <<"a", "/", "b">>, <<".", "-">>, <<"Z", "7">>}
=============================================================================
