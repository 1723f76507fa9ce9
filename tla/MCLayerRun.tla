----------------------------- MODULE MCLayerRun -----------------------------
(***************************************************************************)
(* Small workflows for LayerRun, each a shape that makes the goroutines of *)
(* a layer meet.                                                           *)
(***************************************************************************)
EXTENDS Dashboard

MCNode == 1..Size

Always == [op |-> "empty", ref |-> 1, value |-> NoOutput]
If(ref, op, value) == [op |-> op, ref |-> ref, value |-> value]

Work(layerNumber, deps) ==
    [kind |-> "work", deps |-> deps, trigger |-> "all_success", when |-> Always,
     layer |-> layerNumber]
Gate(layerNumber, deps) == [Work(layerNumber, deps) EXCEPT !.kind = "human_gate"]
On(node, trigger) == [node EXCEPT !.trigger = trigger]
When(node, expr) == [node EXCEPT !.when = expr]

\* Three independent nodes and a report over all of them.
FanIn == <<Work(1, {}), Work(1, {}), Work(1, {}), On(Work(2, {1, 2, 3}), "all_done")>>

\* Two gates and two commands in one layer.
GatesAmongWork == <<Work(1, {}), Gate(1, {}), Gate(1, {}), Work(2, {1, 2})>>

\* A gate that opens whatever its dependency did, beside a command.
GateAfterFailure == <<Work(1, {}), Work(2, {1}), On(Work(2, {1}), "all_done"),
                      On(Gate(2, {1}), "all_done")>>

\* Branches on an output, joined by one_success.
Branches == <<Work(1, {}), When(Work(2, {1}), If(1, "==", "a")),
              When(Work(2, {1}), If(1, "!=", "a")),
              On(Work(3, {2, 3}), "one_success")>>

\* A condition on a node of the same layer, and one that never parses.
SiblingCondition == <<Work(1, {}), When(Work(1, {}), If(1, "==", "a")),
                      When(Work(1, {}), If(2, "malformed", "a")),
                      On(Gate(2, {1, 2}), "all_done")>>

MCWorkflows == {FanIn, GatesAmongWork, GateAfterFailure, Branches, SiblingCondition}
=============================================================================
