------------------------------ MODULE RunState ------------------------------
(***************************************************************************)
(* The persisted run state (internal/state/state.go) and its two           *)
(* translations in cmd/micromage/main.go: engine snapshots into it, and    *)
(* its nodes back into the engine's initial results.                       *)
(***************************************************************************)
EXTENDS NodeRules

CONSTANT NoNode   \* PausedNode = ""

ASSUME NoNodeAssumption == NoNode \notin Node

\* state.NodeState; "none" for a node that is not in the map, and reviewed for
\* ApprovedAt, ApprovedBy and Comment, which Approve sets together.
NodeState == [status : ResultStatus, output : Output, reviewed : BOOLEAN]
Unmarked(status, output) == [status |-> status, output |-> output, reviewed |-> FALSE]

\* RunState: Nodes, with "none" for the nodes it lacks, and PausedNode.
RunStates == [nodes : [Node -> NodeState], paused : Node \cup {NoNode}]

NewRun == [nodes |-> [n \in Node |-> Unmarked("none", NoOutput)], paused |-> NoNode]

\* Every Mark* stores a NodeState built from its arguments alone.
\* (mutant) a node that passes again keeps its first output
MarkPassed_KeepsOutput(rs, n, output) ==
    [nodes  |-> [rs.nodes EXCEPT ![n] = Unmarked("passed",
                    IF rs.nodes[n].status = "passed" THEN rs.nodes[n].output ELSE output)],
     paused |-> IF rs.paused = n THEN NoNode ELSE rs.paused]

MarkPassed(rs, n, output) ==
    [nodes  |-> [rs.nodes EXCEPT ![n] = Unmarked("passed", output)],
     paused |-> IF rs.paused = n THEN NoNode ELSE rs.paused]

MarkFailed(rs, n, output) ==
    [rs EXCEPT !.nodes = [@ EXCEPT ![n] = Unmarked("failed", output)]]

MarkSkipped(rs, n) ==
    [rs EXCEPT !.nodes = [@ EXCEPT ![n] = Unmarked("skipped", NoOutput)]]

MarkPaused(rs, n) ==
    [nodes  |-> [rs.nodes EXCEPT ![n] = Unmarked("paused", NoOutput)],
     paused |-> n]

\* Approve refuses any node but the paused one; the output stays.
CanApprove(rs, n) == rs.paused = n /\ rs.nodes[n].status = "paused"

\* (mutant) the approval leaves PausedNode set
Approve_StaysPaused(rs, n) ==
    [rs EXCEPT !.nodes = [@ EXCEPT ![n] = [@ EXCEPT !.status = "passed", !.reviewed = TRUE]]]

Approve(rs, n) ==
    [nodes  |-> [rs.nodes EXCEPT ![n] = [@ EXCEPT !.status = "passed", !.reviewed = TRUE]],
     paused |-> NoNode]

\* (mutant) resume does not hand the persisted nodes to the engine
InitialResults_Forgotten(rs) == [n \in Node |-> NoResult]

SnapshotsFromState(rs) ==
    [n \in Node |-> [status |-> rs.nodes[n].status, output |-> rs.nodes[n].output]]

\* initialNodeResults keeps every snapshot but those of paused nodes.
InitialResults(rs) ==
    [n \in Node |->
        IF SnapshotsFromState(rs)[n].status \in {"passed", "skipped", "failed"}
        THEN SnapshotsFromState(rs)[n]
        ELSE NoResult]
=============================================================================
