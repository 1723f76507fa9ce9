----------------------------- MODULE Dashboard -----------------------------
(***************************************************************************)
(* LayerRun with the event log its engine records (internal/runlog) and    *)
(* the dashboard "watch" builds from it (internal/watch).                  *)
(*                                                                         *)
(* The log is appended to by every session of the run, one whole event at  *)
(* a time under the mutex of the Recorder.  ReadModel folds it from the    *)
(* start, so what a look at the log shows is kept here event by event: the *)
(* variable view is the Model after the events recorded so far.            *)
(***************************************************************************)
EXTENDS LayerRun

VARIABLE view   \* the Model: the status of the workflow and of each node

dashboardVars == <<vars, view>>

Status == {"pending", "running", "passed", "failed", "skipped", "paused"}

NewModel == [workflow |-> "pending", nodes |-> [n \in Node |-> "pending"]]

WorkflowEvents == [workflow_started |-> "running", workflow_passed |-> "passed",
                   workflow_failed |-> "failed"]

NodeEvents == [node_started |-> "running", node_passed |-> "passed",
               node_failed |-> "failed", node_skipped |-> "skipped",
               node_paused |-> "paused"]

WorkflowAfter(m, type) ==
    CASE type \in DOMAIN WorkflowEvents -> WorkflowEvents[type]
      [] type = "node_paused" -> "paused"
      [] OTHER -> m.workflow

\* (mutant) what passed, or waits for a review, is not shown as skipped later
NodesAfter_KeepsPassed(m, type, n) ==
    IF type \in DOMAIN NodeEvents /\ ~(type = "node_skipped"
                                       /\ m.nodes[n] \in {"passed", "paused"})
    THEN [m.nodes EXCEPT ![n] = NodeEvents[type]]
    ELSE m.nodes

\* (mutant) a failed workflow is read as the failure of the nodes it left
NodesAfter_FailsRest(m, type, n) ==
    CASE type \in DOMAIN NodeEvents -> [m.nodes EXCEPT ![n] = NodeEvents[type]]
      [] type = "workflow_failed" ->
            [k \in Node |-> IF m.nodes[k] \in {"running", "paused"} THEN "failed"
                                                                  ELSE m.nodes[k]]
      [] OTHER -> m.nodes

NodesAfter(m, type, n) ==
    IF type \in DOMAIN NodeEvents THEN [m.nodes EXCEPT ![n] = NodeEvents[type]]
                                  ELSE m.nodes

Apply(m, type, n) ==
    [workflow |-> WorkflowAfter(m, type), nodes |-> NodesAfter(m, type, n)]

-----------------------------------------------------------------------------

DashboardInit ==
    /\ Init
    /\ view = NewModel

Record(type, n) == view' = Apply(view, type, n)

RecordWorkflow(type) == Record(type, NoNode)

NoEvent == UNCHANGED view

UserRecorded ==
    \/ (Run \/ Resume) /\ RecordWorkflow("workflow_started")
    \/ (\E n \in Node : ApproveGate(n)) /\ NoEvent
    \/ SaveApproval /\ NoEvent

ProcessRecorded == (Crash \/ Exit) /\ NoEvent

\* A node that is already completed is recorded as skipped.
MainRecorded ==
    \/ SkipCompleted /\ Record("node_skipped", pos)
    \/ SkipNode /\ Record("node_skipped", pos)
    \/ PauseAtGate /\ Record("node_paused", pos)
    \/ ReturnPaused /\ RecordWorkflow("workflow_failed")
    \/ FinishRun /\ RecordWorkflow(IF firstErr = NoNode THEN "workflow_passed"
                                                        ELSE "workflow_failed")
    \/ (StartNode \/ GoOn \/ FinishLayer) /\ NoEvent

NodeRecorded(n) ==
    \/ NodeStarts(n) /\ Record("node_started", n)
    \/ NodePasses(n) /\ Record("node_passed", n)
    \/ (\E why \in {"own", "canceled"} : NodeFails(n, why)) /\ Record("node_failed", n)
    \/ (\E o \in OutputOf(n) : RecordPass(n, o) \/ RecordFailure(n, o)) /\ NoEvent
    \/ (NodeSaves(n) \/ SendError(n)) /\ NoEvent

DashboardNext ==
    \/ UserRecorded
    \/ ProcessRecorded
    \/ MainRecorded
    \/ \E n \in Node : NodeRecorded(n)

DashboardSpec ==
    /\ DashboardInit
    /\ [][DashboardNext]_dashboardVars
    /\ WF_dashboardVars(MainRecorded)
    /\ \A n \in Node : WF_dashboardVars(NodeRecorded(n))

-----------------------------------------------------------------------------
(* Properties.                                                             *)

DashboardTypeOK ==
    /\ TypeOK
    /\ view \in [workflow : Status, nodes : [Node -> Status]]

\* A workflow shown as passed has no node that is shown as anything but passed
\* or skipped: nothing an earlier session left on the dashboard (a pause, a
\* failure, a node that was running when the process died) and no event of a
\* goroutine a gate left behind stays beside the word "passed".
PassedViewIsFinal ==
    view.workflow = "passed" =>
        \A n \in Node : view.nodes[n] \in {"passed", "skipped"}

\* While the engine is off and the state file waits for a gate, the dashboard
\* shows the gate as paused, although the workflow is shown as failed: that is
\* where a reviewer learns which gate to approve.
PendingGateIsShown ==
    (proc = "off" /\ file.paused # NoNode) => view.nodes[file.paused] = "paused"

-----------------------------------------------------------------------------
(* The invariant these follow from, beside that of LayerRun.               *)

\* What is shown of a node that is over is what became of it; a completed node
\* was recorded as skipped.
ShownInv ==
    \A n \in Node :
        /\ phase[n] = "passing" => view.nodes[n] = "passed"
        /\ phase[n] = "failing" => view.nodes[n] = "failed"
        /\ phase[n] \in Over =>
              \/ view.nodes[n] = results[n].status
              \/ view.nodes[n] = "skipped" /\ results[n].status = "passed"

\* After the word "passed" nothing is at work that could still record an event.
FinalInv ==
    view.workflow = "passed" =>
        /\ proc # "running"
        /\ proc = "returned" => \A n \in Node : phase[n] = "done"
        /\ PassedViewIsFinal

\* A gate that a state names as paused is shown so; while its process lives it
\* is the gate the session stopped at, of which no event can follow.
GateIsShown(g) ==
    /\ view.nodes[g] = "paused"
    /\ proc # "off" => phase[g] \in Over /\ results[g].status = "paused"

\* The gate is named by the file, by memory or by a save under way.
Named(g) ==
    \/ file.paused = g
    \/ runState.paused = g
    \/ \E n \in Node : pending[n] # NoSave /\ pending[n].paused = g

PausesInv ==
    /\ \A g \in Node : Named(g) => GateIsShown(g)
    /\ approval # NoApproval => approval.copy.paused = NoNode

DashboardInv ==
    /\ DashboardTypeOK
    /\ ShownInv
    /\ FinalInv
    /\ PausesInv
=============================================================================
