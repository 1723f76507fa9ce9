----------------------------- MODULE NodeRules -----------------------------
(***************************************************************************)
(* The pure decisions both execution engines take about one node           *)
(* (internal/engine/engine.go): does its trigger rule allow it to run, and *)
(* does its "when" condition hold?                                         *)
(*                                                                         *)
(* An output is the trimmed text (or the JSON field of it) that a "when"   *)
(* expression compares and that failureFingerprint keeps: two outputs the  *)
(* code cannot tell apart there are one member of Output.                  *)
(***************************************************************************)
EXTENDS FiniteSets

CONSTANTS
    Node,      \* the node ids of the workflow
    Output,    \* what the comparisons of the code can tell of a node's output
    NoOutput   \* the empty output, also read for a node without a result

ASSUME OutputAssumption == NoOutput \in Output

ResultStatus == {"none", "passed", "failed", "skipped", "paused"}

\* nodeResult; "none" is the zero value read for a key the map does not have.
NodeResult == [status : ResultStatus, output : Output]
NoResult == [status |-> "none", output |-> NoOutput]

\* A when expression: empty, $ref.output == value, $ref.output != value, or
\* text that has neither operator exactly once.
WhenExpr == [op : {"empty", "==", "!=", "malformed"}, ref : Node, value : Output]

TriggerRule == {"all_success", "one_success", "all_done"}

\* The fields of workflow.Node the engines branch on. Work stands for the
\* command, agent and loop types, which all go to executeNode.
NodeConf == [kind : {"work", "human_gate"}, deps : SUBSET Node,
             trigger : TriggerRule, when : WhenExpr]

Passed(results) == {n \in DOMAIN results : results[n].status = "passed"}

\* (mutant) a skipped dependency satisfies a trigger rule as a passed one does
DependenciesReady_CountsSkips(node, results) ==
    LET done == {n \in DOMAIN results : results[n].status \in {"passed", "skipped"}}
    IN  \/ node.deps = {}
        \/ node.trigger = "all_done"
        \/ node.trigger = "one_success" /\ node.deps \cap done # {}
        \/ node.trigger = "all_success" /\ node.deps \subseteq done

\* A repeated dependency counts twice on both sides of "successes ==
\* len(node.DependsOn)", so the set of dependencies decides.
DependenciesReady(node, results) ==
    \/ node.deps = {}
    \/ node.trigger = "all_done"
    \/ node.trigger = "one_success" /\ node.deps \cap Passed(results) # {}
    \/ node.trigger = "all_success" /\ node.deps \subseteq Passed(results)

WhenMatches(node, results) ==
    LET left == results[node.when.ref].output
    IN  \/ node.when.op = "empty"
        \/ node.when.op = "==" /\ left = node.when.value
        \/ node.when.op = "!=" /\ left # node.when.value

ShouldRun(node, results) ==
    DependenciesReady(node, results) /\ WhenMatches(node, results)
=============================================================================
