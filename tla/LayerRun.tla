------------------------------ MODULE LayerRun ------------------------------
(***************************************************************************)
(* A workflow without failure routes: Engine.RunWithOptions and runLayer   *)
(* (internal/engine/engine.go) under executeRun, resumeCmd and approveCmd  *)
(* (cmd/micromage/main.go).                                                *)
(*                                                                         *)
(* The main goroutine walks the layers.  In a layer it considers the nodes *)
(* in sorted order and starts one goroutine for each that may run; the     *)
(* goroutines share the results map, the layer's context, its buffered     *)
(* errs channel and the state in memory, and wg.Wait ends the layer,       *)
(* except that a human gate returns at once and leaves the goroutines of   *)
(* its layer behind.                                                       *)
(*                                                                         *)
(* persistNodeResult runs outside resultMu: a goroutine marks the state    *)
(* and writes what it then is to a temporary file; the rename that puts it *)
(* in place comes later, and the saves of two goroutines may overtake each *)
(* other.                                                                  *)
(*                                                                         *)
(* A node is named by its position in the flattened plan.                  *)
(***************************************************************************)
EXTENDS RunState, Naturals, Sequences

CONSTANTS
    NoSave,       \* no save of the node is under way
    NoApproval,   \* no approve command is
    Size,         \* number of nodes
    Workflows,    \* the workflows considered, each a function on Node
    MaxSessions   \* bound on run and resume commands

LayeredConf == [kind : {"work", "human_gate"}, deps : SUBSET Node,
                trigger : TriggerRule, when : WhenExpr, layer : Node]

ASSUME SizeAssumption == Size \in Nat /\ Node = 1..Size /\ NoNode = 0
ASSUME NoSaveAssumption == NoSave \notin RunStates
ASSUME MaxSessionsAssumption == MaxSessions \in Nat

\* The plan of PlanLayers: what Planner_proofs!PlannerInvariant says of it.
ASSUME WorkflowsAssumption ==
    /\ Workflows \subseteq [Node -> LayeredConf]
    /\ \A w \in Workflows : \A n \in Node :
        /\ \A d \in w[n].deps : w[d].layer < w[n].layer
        /\ w[n].layer > 1 => \E d \in w[n].deps : w[d].layer = w[n].layer - 1
        /\ \A m \in Node : m < n => w[m].layer <= w[n].layer

VARIABLES
    wf,         \* the workflow of this behaviour
    proc,       \* "off", "running" (RunWithOptions) or "returned" (about to exit)
    layer,      \* the layer runLayer is at
    pos,        \* the next node its loop considers
    results,    \* the engine's results map
    cause,      \* why a failed node failed: "own" or "canceled" (its context ended)
    phase,      \* Node -> how far the session is with the node
    pending,    \* Node -> the temporary file its save has written, or NoSave
    cancelled,  \* whether the layer's context is cancelled
    errs,       \* the errs channel: a sequence of nodes
    firstErr,   \* firstErr of RunWithOptions: a node, or NoNode
    runState,   \* the RunState in the memory of the process
    file,       \* the run state file
    approval,   \* what an approve command has read and changed, and not yet saved
    outcome,    \* what the last session returned
    sessions,   \* run and resume commands so far
    fresh       \* history: nodes with a result of this session

layerVars == <<layer, pos, cancelled, errs>>
storage == <<runState, pending, file>>
session == <<wf, sessions, approval>>
vars == <<session, proc, layerVars, results, cause, phase, firstErr, storage,
          outcome, fresh>>

-----------------------------------------------------------------------------

\* The locals of RunWithOptions and runLayer in a new process.
NewMemory(initial) ==
    /\ layer' = 1
    /\ pos' = 1
    /\ results' = initial
    /\ cause' = [n \in Node |-> "none"]
    /\ phase' = [n \in Node |-> "none"]
    /\ pending' = [n \in Node |-> NoSave]
    /\ cancelled' = FALSE
    /\ errs' = <<>>
    /\ firstErr' = NoNode
    /\ fresh' = {}

Nothing == [n \in Node |-> NoResult]

Init ==
    /\ wf \in Workflows
    /\ proc = "off"
    /\ layer = 1
    /\ pos = 1
    /\ results = Nothing
    /\ cause = [n \in Node |-> "none"]
    /\ phase = [n \in Node |-> "none"]
    /\ pending = [n \in Node |-> NoSave]
    /\ cancelled = FALSE
    /\ errs = <<>>
    /\ firstErr = NoNode
    /\ runState = NewRun
    /\ file = NewRun
    /\ approval = NoApproval
    /\ outcome = "none"
    /\ sessions = 0
    /\ fresh = {}

\* The user waits for one command before giving the next.
EnterEngine(initial) ==
    /\ proc = "off"
    /\ approval = NoApproval
    /\ sessions < MaxSessions
    /\ sessions' = sessions + 1
    /\ proc' = "running"
    /\ outcome' = "none"
    /\ NewMemory(initial)
    /\ UNCHANGED <<wf, approval>>

\* executeRun: a new state replaces whatever the state path held.
Run ==
    /\ EnterEngine(Nothing)
    /\ runState' = NewRun
    /\ file' = NewRun

\* resumeCmd: refused while the file names a paused node.
Resume ==
    /\ sessions > 0
    /\ file.paused = NoNode
    /\ EnterEngine(InitialResults(file))
    /\ runState' = file
    /\ UNCHANGED file

\* approveCmd is a process of its own, at any time: it reads the file and
\* approves the gate in its copy,
ApproveGate(n) ==
    /\ approval = NoApproval
    /\ CanApprove(file, n)
    /\ approval' = [gate |-> n, copy |-> Approve(file, n)]
    /\ UNCHANGED <<wf, sessions, proc, layerVars, results, cause, phase, firstErr,
                   storage, outcome, fresh>>

\* and saves the copy, whatever the file has become, unless the save fails.
SaveApproval ==
    /\ approval # NoApproval
    /\ file' \in {file, approval.copy}
    /\ approval' = NoApproval
    /\ UNCHANGED <<wf, sessions, proc, layerVars, results, cause, phase, firstErr,
                   runState, pending, outcome, fresh>>

\* The process ends, and with it its memory, the goroutines a gate left behind
\* and the saves that have not come to their rename.
Die ==
    /\ proc' = "off"
    /\ runState' = NewRun
    /\ NewMemory(Nothing)
    /\ UNCHANGED <<session, file>>

\* Killed, or ended by the Go runtime when it notices the unsynchronised
\* accesses to the results and Nodes maps.
Crash ==
    /\ proc # "off"
    /\ Die
    /\ outcome' = IF proc = "running" THEN "crashed" ELSE outcome

\* main returns after RunWithOptions did.
Exit ==
    /\ proc = "returned"
    /\ Die
    /\ UNCHANGED outcome

-----------------------------------------------------------------------------
(* persistNodeResult.                                                      *)

\* The mark, and the temporary file with everything marked so far.
Emit(n, rs) ==
    /\ runState' = rs
    /\ pending' = [pending EXCEPT ![n] = rs]
    /\ UNCHANGED file

\* The rename, unless the save has failed: its error is dropped.
FinishSave(n) ==
    /\ phase[n] = "saving"
    /\ file' \in {file, pending[n]}
    /\ pending' = [pending EXCEPT ![n] = NoSave]
    /\ UNCHANGED runState

Settle(n, status, output, why) ==
    /\ results' = [results EXCEPT ![n] = [status |-> status, output |-> output]]
    /\ cause' = [cause EXCEPT ![n] = why]
    /\ fresh' = fresh \cup {n}

PhaseTo(n, to) == phase' = [phase EXCEPT ![n] = to]

-----------------------------------------------------------------------------
(* The loop of runLayer, on the main goroutine.                            *)

\* The node the loop is about to look at.
AtNode ==
    /\ proc = "running"
    /\ pos \in Node
    /\ wf[pos].layer = layer
    /\ phase[pos] = "none"

Completed == results[pos].status = "passed"

SkipCompleted ==
    /\ AtNode
    /\ Completed
    /\ Emit(pos, MarkPassed(runState, pos, results[pos].output))
    /\ PhaseTo(pos, "saving")
    /\ UNCHANGED <<session, proc, layerVars, results, cause, firstErr, outcome, fresh>>

SkipNode ==
    /\ AtNode
    /\ ~Completed
    /\ ~ShouldRun(wf[pos], results)
    /\ Emit(pos, MarkSkipped(runState, pos))
    /\ Settle(pos, "skipped", NoOutput, "none")
    /\ PhaseTo(pos, "saving")
    /\ UNCHANGED <<session, proc, layerVars, firstErr, outcome>>

StartNode ==
    /\ AtNode
    /\ ~Completed
    /\ ShouldRun(wf[pos], results)
    /\ wf[pos].kind = "work"
    /\ PhaseTo(pos, "spawned")
    /\ pos' = pos + 1
    /\ UNCHANGED <<session, proc, layer, cancelled, errs, results, cause, firstErr,
                   storage, outcome, fresh>>

PauseAtGate ==
    /\ AtNode
    /\ ~Completed
    /\ ShouldRun(wf[pos], results)
    /\ wf[pos].kind = "human_gate"
    /\ Emit(pos, MarkPaused(runState, pos))
    /\ Settle(pos, "paused", NoOutput, "none")
    /\ PhaseTo(pos, "saving")
    /\ UNCHANGED <<session, proc, layerVars, firstErr, outcome>>

\* onResult has returned to the loop.
GoOn ==
    /\ proc = "running"
    /\ pos \in Node
    /\ FinishSave(pos)
    /\ results[pos].status # "paused"
    /\ PhaseTo(pos, "done")
    /\ pos' = pos + 1
    /\ UNCHANGED <<session, proc, layer, cancelled, errs, results, cause, firstErr,
                   outcome, fresh>>

\* The gate returns from runLayer without wg.Wait; the deferred cancel ends the
\* context of the goroutines that are still there, and RunWithOptions returns
\* the first error it has, which may be older than the pause.
ReturnPaused ==
    /\ proc = "running"
    /\ pos \in Node
    /\ FinishSave(pos)
    /\ results[pos].status = "paused"
    /\ PhaseTo(pos, "done")
    /\ cancelled' = TRUE
    /\ firstErr' = IF firstErr = NoNode THEN pos ELSE firstErr
    /\ outcome' = IF firstErr = NoNode THEN "paused" ELSE "failed"
    /\ proc' = "returned"
    /\ UNCHANGED <<session, layer, pos, errs, results, cause, fresh>>

LayerNodes == {n \in Node : wf[n].layer = layer}

\* (mutant) the run ends with its first failure
MoreLayers_UntilFailure == LayerNodes # {} /\ firstErr = NoNode

\* (mutant) the loop's bound is off by one
MoreLayers_OffByOne == layer <= Size + 1

\* A failed layer does not end the run: later layers may hold all_done nodes.
MoreLayers == LayerNodes # {}

\* (mutant) no wg.Wait
GoroutinesDone_NoWait == TRUE

\* wg.Wait
GoroutinesDone == \A n \in LayerNodes : phase[n] \in {"none", "done"}

\* (mutant) the error of the latest layer is kept, not the first one
FirstError_Latest == IF errs # <<>> THEN Head(errs) ELSE NoNode

\* The first error in the channel, unless an earlier layer had one.
FirstError == IF firstErr = NoNode /\ errs # <<>> THEN Head(errs) ELSE firstErr

\* (mutant) the layers share one context
NewContext_Shared == UNCHANGED cancelled

NewContext == cancelled' = FALSE

\* runLayer returns after its goroutines did; the next call makes a new context
\* and a new channel.
FinishLayer ==
    /\ proc = "running"
    /\ pos \notin LayerNodes
    /\ MoreLayers
    /\ GoroutinesDone
    /\ firstErr' = FirstError
    /\ layer' = layer + 1
    /\ errs' = <<>>
    /\ NewContext
    /\ UNCHANGED <<session, proc, pos, results, cause, phase, storage,
                   outcome, fresh>>

\* No layer is left.
FinishRun ==
    /\ proc = "running"
    /\ ~MoreLayers
    /\ proc' = "returned"
    /\ outcome' = IF firstErr = NoNode THEN "passed" ELSE "failed"
    /\ UNCHANGED <<session, layerVars, results, cause, phase, firstErr,
                   storage, fresh>>

MainStep ==
    \/ SkipCompleted
    \/ SkipNode
    \/ StartNode
    \/ PauseAtGate
    \/ GoOn
    \/ ReturnPaused
    \/ FinishLayer
    \/ FinishRun

-----------------------------------------------------------------------------
(* The goroutine of one node.                                              *)

Step(n, from, to) ==
    /\ n # pos
    /\ phase[n] = from
    /\ PhaseTo(n, to)
    /\ UNCHANGED <<session, proc, layer, pos, firstErr, outcome>>

\* executeNode records node_started and calls the runner.
NodeStarts(n) ==
    /\ Step(n, "spawned", "running")
    /\ UNCHANGED <<cancelled, errs, results, cause, storage, fresh>>

\* executeNode has recorded node_passed and returns nil. That may have been
\* decided just before the context was cancelled, so it is possible in a
\* cancelled layer too.
NodePasses(n) ==
    /\ Step(n, "running", "passing")
    /\ UNCHANGED <<cancelled, errs, results, cause, storage, fresh>>

\* An output is told apart only where a condition reads it.
OutputOf(n) ==
    IF \E m \in Node : wf[m].when.ref = n /\ wf[m].when.op # "empty"
    THEN Output
    ELSE {NoOutput}

RecordPass(n, o) ==
    /\ Step(n, "passing", "saving")
    /\ Emit(n, MarkPassed(runState, n, o))
    /\ Settle(n, "passed", o, "none")
    /\ UNCHANGED <<cancelled, errs>>

\* executeNode returned an error, its own or that of the cancelled context; in
\* both cases the goroutine cancels the layer before anything else.
NodeFails(n, why) ==
    /\ Step(n, "running", "failing")
    /\ why = "canceled" => cancelled
    /\ cancelled' = TRUE
    /\ cause' = [cause EXCEPT ![n] = why]
    /\ UNCHANGED <<errs, results, storage, fresh>>

RecordFailure(n, o) ==
    /\ Step(n, "failing", "saving")
    /\ Emit(n, MarkFailed(runState, n, o))
    /\ Settle(n, "failed", o, cause[n])
    /\ UNCHANGED <<cancelled, errs>>

\* A goroutine whose node passed ends here, one whose node failed has an error
\* to send.
NodeSaves(n) ==
    /\ Step(n, "saving", IF results[n].status = "failed" THEN "sending" ELSE "done")
    /\ FinishSave(n)
    /\ UNCHANGED <<cancelled, errs, results, cause, fresh>>

\* (mutant) room for one error
ErrsCapacity_One == 1

\* make(chan error, len(layer))
ErrsCapacity == Cardinality(LayerNodes)

SendError(n) ==
    /\ Step(n, "sending", "done")
    /\ Len(errs) < ErrsCapacity
    /\ errs' = Append(errs, n)
    /\ UNCHANGED <<cancelled, results, cause, storage, fresh>>

NodeStep(n) ==
    \/ NodeStarts(n)
    \/ NodePasses(n)
    \/ \E o \in OutputOf(n) : RecordPass(n, o)
    \/ \E why \in {"own", "canceled"} : NodeFails(n, why)
    \/ \E o \in OutputOf(n) : RecordFailure(n, o)
    \/ NodeSaves(n)
    \/ SendError(n)

Next ==
    \/ Run
    \/ Resume
    \/ \E n \in Node : ApproveGate(n)
    \/ SaveApproval
    \/ Crash
    \/ Exit
    \/ MainStep
    \/ \E n \in Node : NodeStep(n)

Spec == Init /\ [][Next]_vars

\* The Go scheduler runs every goroutine that can run, and every node has a
\* deadline; commands of the user and crashes need never happen.
FairSpec == Spec /\ WF_vars(MainStep) /\ \A n \in Node : WF_vars(NodeStep(n))

-----------------------------------------------------------------------------
(* Properties.                                                             *)

TypeOK ==
    /\ wf \in Workflows
    /\ proc \in {"off", "running", "returned"}
    /\ layer \in 1..(Size + 1)
    /\ pos \in 1..(Size + 1)
    /\ results \in [Node -> NodeResult]
    /\ cause \in [Node -> {"none", "own", "canceled"}]
    /\ phase \in [Node -> {"none", "spawned", "running", "passing", "failing", "saving",
                           "sending", "done"}]
    /\ pending \in [Node -> RunStates \cup {NoSave}]
    /\ approval \in [gate : Node, copy : RunStates] \cup {NoApproval}
    /\ \A n \in Node : phase[n] = "saving" <=> pending[n] # NoSave
    /\ cancelled \in BOOLEAN
    /\ errs \in Seq(Node)
    /\ firstErr \in Node \cup {NoNode}
    /\ runState \in RunStates
    /\ file \in RunStates
    /\ outcome \in {"none", "passed", "failed", "paused", "crashed"}
    /\ sessions \in Nat
    /\ fresh \subseteq Node

\* What this session decided about a node agrees with trigger_rule and when as
\* documented, read from the results as they are now: the goroutines of later
\* nodes and the unlocked reads of the loop never make an old decision wrong.
\* (A condition on a node of the same or a later layer is left out: it reads
\* whatever that node has at the moment.)
Documented(n) ==
    LET deps == wf[n].deps
        passed == {d \in deps : results[d].status = "passed"}
    IN  deps # {} => /\ wf[n].trigger = "all_success" => passed = deps
                     /\ wf[n].trigger = "one_success" => passed # {}

DecidedByRule ==
    \A n \in fresh :
        wf[wf[n].when.ref].layer < wf[n].layer =>
            (results[n].status = "skipped"
                <=> ~(Documented(n) /\ WhenMatches(wf[n], results)))

\* "workflow_passed" is reported only if every node passed or was skipped, in
\* the engine and in the state it has marked: no failure is lost on the way
\* through goroutines, channel and layers.
NoFailureIsSwallowed ==
    (proc = "returned" /\ outcome = "passed") =>
        \A n \in Node :
            /\ results[n].status \in {"passed", "skipped"}
            /\ runState.nodes[n].status = results[n].status

\* An all_done node without a condition runs in every run that does not stop
\* at a gate, whatever failed before it (TestRunContinuesAllDoneAfterFailure).
AllDoneRuns ==
    \A n \in Node :
        /\ proc = "returned"
        /\ \A m \in fresh : results[m].status # "paused"
        /\ wf[n].trigger = "all_done" /\ wf[n].when.op = "empty"
        /\ wf[n].kind = "work"
        => results[n].status \in {"passed", "failed"}

\* A node is cancelled only for a reason inside its own layer: a node of the
\* layer failed by itself, or its gate paused.
CancellationHasCause ==
    \A n \in Node : cause[n] = "canceled" =>
        \E m \in Node :
            /\ wf[m].layer = wf[n].layer
            /\ cause[m] = "own" \/ results[m].status = "paused"

-----------------------------------------------------------------------------
(* The invariant the safety properties follow from.                        *)

Executing == {"spawned", "running", "passing", "failing"}
Over == {"saving", "sending", "done"}

\* The loop has considered every node before pos and none after it; what it
\* left in earlier layers is done.  The node at pos is saving while onResult
\* runs, and done only if it was the gate the run returned at.
LoopInv ==
    /\ \A n \in Node : n < pos => phase[n] # "none"
    /\ \A n \in Node : n > pos => phase[n] = "none"
    /\ \A n \in Node : n >= pos => wf[n].layer >= layer
    /\ \A n \in Node : phase[n] # "none" => wf[n].layer <= layer
    /\ \A n \in Node : phase[n] # "none" /\ wf[n].layer < layer => phase[n] = "done"
    /\ pos \in Node => /\ phase[pos] \in {"none", "saving", "done"}
                       /\ phase[pos] = "saving" => results[pos].status # "failed"
                       /\ phase[pos] = "done" => proc = "returned"

\* What is known of a node, by how far its goroutine is.
PhaseInv ==
    \A n \in Node :
        /\ phase[n] \notin Over => n \notin fresh
        /\ phase[n] \notin Over \cup {"failing"} => cause[n] = "none"
        /\ phase[n] \in Over =>
              /\ results[n].status # "none"
              /\ runState.nodes[n].status = results[n].status
              /\ n \in fresh \/ results[n].status = "passed"
        /\ results[n].status = "paused" => n = pos /\ n \in fresh

\* A node in execution was allowed to run, and still would be.
RuleInv ==
    /\ DecidedByRule
    /\ \A n \in Node :
        /\ phase[n] \in Executing /\ wf[wf[n].when.ref].layer < wf[n].layer
              => Documented(n) /\ WhenMatches(wf[n], results)
        /\ n \in fresh /\ wf[n].trigger = "all_done" /\ wf[n].when.op = "empty"
              => results[n].status # "skipped"

\* A failure is in errs when its goroutine is over and in firstErr when its
\* layer is.
FailureInv ==
    \A n \in Node :
        phase[n] = "done" /\ results[n].status = "failed" =>
            /\ wf[n].layer = layer => errs # <<>>
            /\ wf[n].layer < layer => firstErr # NoNode

\* A run returns at the end of its last layer, or at a gate.
ReturnInv ==
    proc = "returned" =>
        \/ /\ \A n \in Node : phase[n] = "done" /\ wf[n].layer < layer
           /\ outcome = "passed" => firstErr = NoNode
        \/ outcome # "passed" /\ \E n \in fresh : results[n].status = "paused"

CancelInv ==
    /\ cancelled => \E m \in Node :
            wf[m].layer = layer /\ (cause[m] = "own" \/ results[m].status = "paused")
    /\ CancellationHasCause

Inv ==
    /\ TypeOK
    /\ LoopInv
    /\ PhaseInv
    /\ RuleInv
    /\ FailureInv
    /\ ReturnInv
    /\ CancelInv

\* RunWithOptions returns: wg.Wait never waits for a goroutine that waits for
\* room in errs, and no layer is waited for twice.
RunReturns == (proc = "running") ~> (proc # "running")

\* The run as WorkflowRun sees it.
With(statusOf, marked) == {n \in Node : marked.nodes[n].status = statusOf}

Plan == [n \in Node |-> [gate |-> wf[n].kind = "human_gate", deps |-> wf[n].deps,
                         trigger |-> wf[n].trigger]]

Verdict == IF sessions = 0 THEN "unstarted" ELSE IF outcome = "none" THEN "open" ELSE outcome

Decided == [n \in Node |-> IF n \in fresh THEN results[n].status
                           ELSE IF results[n].status = "passed" THEN "trusted" ELSE "none"]

AtWork == {n \in Node : phase[n] \in Executing}

\* approve may still save what it has read.
Kept == With("passed", runState) \cup
        IF approval = NoApproval THEN {}
        ELSE With("passed", approval.copy) \ {approval.gate}

Asked == With("paused", file) \cup With("paused", runState) \cup
         IF approval = NoApproval THEN {} ELSE {approval.gate}

Abstract == INSTANCE WorkflowRun WITH
    plan <- Plan, verdict <- Verdict, status <- Decided, active <- AtWork,
    record <- With("passed", file), kept <- Kept, asked <- Asked

\* A run of concurrent layers keeps the promises of WorkflowRun, too: the
\* goroutines of a layer, and those a gate leaves behind, never decide a node
\* early, twice or against its rule, and no save records what did not pass.
IsWorkflowRun == Abstract!Spec

\* What the refinement needs beyond Inv: only a session that runs has no outcome,
\* and a process that ended left nothing at work; a state that has a paused node
\* names it; memory knows as passed what the results do; no file that waits for
\* its rename knows more than memory; and an error is that of a failed node.
NamesPause(rs) == \A n \in Node : rs.nodes[n].status = "paused" => rs.paused = n

SessionInv ==
    /\ proc = "off" => \A n \in Node : phase[n] = "none"
    /\ sessions = 0 => proc = "off"
    /\ sessions > 0 => (proc = "running" <=> outcome = "none")

MemoryInv ==
    /\ NamesPause(runState)
    /\ \A n \in Node :
        /\ runState.nodes[n].status = "passed" <=> results[n].status = "passed"
        /\ phase[n] \notin Over => runState.nodes[n].status # "paused"
        /\ phase[n] \in Executing => results[n].status # "passed"

SavedInv ==
    /\ NamesPause(file)
    /\ approval # NoApproval => With("paused", approval.copy) = {}
    /\ \A n \in Node : pending[n] # NoSave =>
        /\ NamesPause(pending[n])
        /\ With("passed", pending[n]) \subseteq With("passed", runState)
        /\ With("paused", pending[n]) \subseteq With("paused", runState)

ErrorInv ==
    /\ \A n \in Node : phase[n] = "sending" => results[n].status = "failed"
    /\ errs # <<>> \/ (proc = "running" /\ firstErr # NoNode)
          => \E n \in fresh : results[n].status = "failed"

RefinementInv == SessionInv /\ MemoryInv /\ SavedInv /\ ErrorInv

\* "Persist after each node so a paused approval can survive process exit":
\* what the state file has as passed, an approved gate or a node's work, stays
\* passed until the next "run".
RecordSurvives ==
    [][\A n \in Node :
        (file.nodes[n].status = "passed" /\ ~(sessions' # sessions /\ file' = NewRun))
            => file'.nodes[n].status = "passed"]_vars
=============================================================================
