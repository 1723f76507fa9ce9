----------------------------- MODULE MCRouteRun -----------------------------
(***************************************************************************)
(* Small workflows for RouteRun.  Each exercises one shape of failure      *)
(* route; nodes are written in plan order.                                 *)
(***************************************************************************)
EXTENDS RouteRun, Sequences

MCNode == 1..Size

Always == [op |-> "empty", ref |-> 1, value |-> NoOutput]
If(ref, op, value) == [op |-> op, ref |-> ref, value |-> value]

Work(deps) ==
    [kind |-> "work", deps |-> deps, trigger |-> "all_success", when |-> Always,
     routeTo |-> NoNode, maxIterations |-> 0, maxRepeated |-> 0]
Gate(deps) == [Work(deps) EXCEPT !.kind = "human_gate"]
Routed(node, to, iterations, repeated) ==
    [node EXCEPT !.routeTo = to, !.maxIterations = iterations, !.maxRepeated = repeated]
On(node, trigger) == [node EXCEPT !.trigger = trigger]
When(node, expr) == [node EXCEPT !.when = expr]

\* repair, gate, build, validate: the repair of a validation passes the gate.
GatedRepair == <<Work({}), Gate({1}), Work({2}), Routed(Work({3}), 1, 2, 0)>>

\* Two routes, one inside the range of the other.
NestedRepair == <<Work({}), Work({1}), Routed(Work({2}), 2, 1, 0),
                  Routed(Work({3}), 1, 1, 0)>>

\* Both caps; branches on the outputs of earlier nodes, none of which may be taken.
BranchingRepair == <<Work({}), When(Work({1}), If(1, "==", "a")),
                     When(On(Work({1}), "all_done"), If(2, "==", "a")),
                     Routed(On(Work({2, 3}), "one_success"), 1, 2, 2)>>

\* No cap at all, with a report that must run whatever happens.
UncappedRepair == <<Work({}), Routed(Work({1}), 1, 0, 0),
                    On(Gate({2}), "all_done"), On(Work({3}), "all_done")>>

\* Validate accepts this one; runWithRoutes refuses to start it.
ForwardRoute == <<Work({}), Routed(Work({1}), 3, 1, 0), Work({2}), Work({3})>>

\* A condition that never parses and a condition on a later node.
OddConditions == <<Work({}), When(Work({1}), If(1, "malformed", "a")),
                   When(On(Work({2}), "all_done"), If(4, "!=", "a")),
                   Routed(Work({1, 3}), 1, 1, 1)>>

\* max_repeated_failures alone, which caps nothing.
RepeatsOnly == <<Work({}), Work({1}), Work({2}), Routed(Work({3}), 3, 0, 2)>>

MCWorkflows == {GatedRepair, NestedRepair, BranchingRepair, UncappedRepair,
                ForwardRoute, OddConditions, RepeatsOnly}
=============================================================================
