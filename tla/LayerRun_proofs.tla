-------------------------- MODULE LayerRun_proofs --------------------------
(***************************************************************************)
(* Proofs about LayerRun: for every plan, every bound on sessions, every   *)
(* interleaving of the loop with the goroutines, and whichever saves fail. *)
(* A further part proves, by step simulation, that it implements           *)
(* WorkflowRun, and the last one is about the dashboard composed with it.  *)
(***************************************************************************)
EXTENDS Dashboard, TLAPS

USE OutputAssumption, NoNodeAssumption, SizeAssumption, NoSaveAssumption

-----------------------------------------------------------------------------
(* Typing of the operators of RunState and of the workflow.                *)

LEMMA MarksType ==
    ASSUME NEW rs \in RunStates, NEW n \in Node, NEW o \in Output
    PROVE  /\ MarkPassed(rs, n, o) \in RunStates
           /\ MarkFailed(rs, n, o) \in RunStates
           /\ MarkSkipped(rs, n) \in RunStates
           /\ MarkPaused(rs, n) \in RunStates
           /\ Approve(rs, n) \in RunStates
<1>1. /\ rs.nodes \in [Node -> NodeState]
      /\ rs.paused \in Node \cup {NoNode}
      /\ rs = [nodes |-> rs.nodes, paused |-> rs.paused]
  BY DEF RunStates
<1>2. /\ Unmarked("passed", o) \in NodeState
      /\ Unmarked("failed", o) \in NodeState
      /\ Unmarked("skipped", NoOutput) \in NodeState
      /\ Unmarked("paused", NoOutput) \in NodeState
  BY DEF Unmarked, NodeState, ResultStatus
<1>3. MarkPassed(rs, n, o) \in RunStates
  BY <1>1, <1>2 DEF MarkPassed, RunStates
<1>4. MarkFailed(rs, n, o) \in RunStates
  BY <1>1, <1>2 DEF MarkFailed, RunStates
<1>5. MarkSkipped(rs, n) \in RunStates
  BY <1>1, <1>2 DEF MarkSkipped, RunStates
<1>6. MarkPaused(rs, n) \in RunStates
  BY <1>1, <1>2 DEF MarkPaused, RunStates
<1>7. Approve(rs, n) \in RunStates
  <2>1. rs.nodes[n] \in NodeState
    BY <1>1
  <2>2. [rs.nodes[n] EXCEPT !.status = "passed", !.reviewed = TRUE] \in NodeState
    BY <2>1 DEF NodeState, ResultStatus
  <2> QED
    BY <1>1, <2>2 DEF Approve, RunStates
<1> QED
  BY <1>3, <1>4, <1>5, <1>6, <1>7

LEMMA NewRunType == NewRun \in RunStates
BY DEF NewRun, RunStates, NodeState, ResultStatus, Unmarked

\* A resume starts from results that have no paused node.
LEMMA InitialResultsType ==
    ASSUME NEW rs \in RunStates
    PROVE  /\ InitialResults(rs) \in [Node -> NodeResult]
           /\ \A n \in Node : InitialResults(rs)[n].status # "paused"
BY DEF InitialResults, SnapshotsFromState, RunStates, NodeState, NodeResult,
       NoResult, ResultStatus

LEMMA NothingType ==
    /\ Nothing \in [Node -> NodeResult]
    /\ \A n \in Node : Nothing[n].status # "paused"
BY DEF Nothing, NodeResult, NoResult, ResultStatus

LEMMA WorkflowType ==
    ASSUME TypeOK, NEW n \in Node
    PROVE  /\ wf[n].layer \in Node
           /\ wf[n].deps \subseteq Node
           /\ wf[n].when.ref \in Node
           /\ \A d \in wf[n].deps : wf[d].layer < wf[n].layer
           /\ wf[n].layer > 1 => \E d \in wf[n].deps : wf[d].layer = wf[n].layer - 1
           /\ \A m \in Node : m < n => wf[m].layer <= wf[n].layer
<1>1. /\ wf \in [Node -> LayeredConf]
      /\ wf \in Workflows
  BY WorkflowsAssumption DEF TypeOK
<1>2. wf[n] \in LayeredConf
  BY <1>1
<1>3. wf[n].layer \in Node /\ wf[n].deps \subseteq Node /\ wf[n].when \in WhenExpr
  BY <1>2 DEF LayeredConf
<1>4. wf[n].when.ref \in Node
  BY <1>3 DEF WhenExpr
<1> QED
  BY <1>1, <1>3, <1>4, WorkflowsAssumption

-----------------------------------------------------------------------------
(* Type correctness.                                                       *)

LEMMA NoErrors == <<>> \in Seq(Node)
OBVIOUS

LEMMA InitType == Init => TypeOK
<1> SUFFICES ASSUME Init PROVE TypeOK
  OBVIOUS
<1>1. 1 \in 1..(Size + 1)
  OBVIOUS
<1> QED
  BY <1>1, NewRunType, NothingType, NoErrors DEF Init, TypeOK

\* What a new process and one that has ended have in memory.
LEMMA NewMemoryType ==
    ASSUME NEW initial \in [Node -> NodeResult], NewMemory(initial)
    PROVE  /\ (layer \in 1..(Size + 1))' /\ (pos \in 1..(Size + 1))'
           /\ (results \in [Node -> NodeResult])'
           /\ (cause \in [Node -> {"none", "own", "canceled"}])'
           /\ (phase \in [Node -> {"none", "spawned", "running", "passing", "failing",
                                   "saving", "sending", "done"}])'
           /\ (pending \in [Node -> RunStates \cup {NoSave}])'
           /\ (\A n \in Node : phase[n] = "saving" <=> pending[n] # NoSave)'
           /\ (cancelled \in BOOLEAN)' /\ (errs \in Seq(Node))'
           /\ (firstErr \in Node \cup {NoNode})' /\ (fresh \subseteq Node)'
<1>1. 1 \in 1..(Size + 1)
  OBVIOUS
<1> QED
  BY <1>1, NoErrors DEF NewMemory

LEMMA RunType == TypeOK /\ Run => TypeOK'
<1> SUFFICES ASSUME TypeOK, Run PROVE TypeOK'
  OBVIOUS
<1>1. NewMemory(Nothing)
  BY DEF Run, EnterEngine
<1> QED
  BY <1>1, NewMemoryType, NothingType, NewRunType DEF Run, EnterEngine, TypeOK

LEMMA ResumeType == TypeOK /\ Resume => TypeOK'
<1> SUFFICES ASSUME TypeOK, Resume PROVE TypeOK'
  OBVIOUS
<1>1. NewMemory(InitialResults(file)) /\ file \in RunStates
  BY DEF Resume, EnterEngine, TypeOK
<1> QED
  BY <1>1, NewMemoryType, InitialResultsType DEF Resume, EnterEngine, TypeOK

LEMMA DieType ==
    ASSUME TypeOK, Die, outcome' \in {"none", "passed", "failed", "paused", "crashed"}
    PROVE  TypeOK'
<1>1. NewMemory(Nothing)
  BY DEF Die
<1> QED
  BY <1>1, NewMemoryType, NothingType, NewRunType DEF Die, session, TypeOK

LEMMA ApprovalType == TypeOK /\ ((\E n \in Node : ApproveGate(n)) \/ SaveApproval) => TypeOK'
<1>1. ASSUME TypeOK, NEW n \in Node, ApproveGate(n) PROVE TypeOK'
  <2>1. Approve(file, n) \in RunStates
    BY <1>1, MarksType DEF TypeOK
  <2> QED
    BY <1>1, <2>1 DEF ApproveGate, TypeOK, layerVars, storage
<1>2. ASSUME TypeOK, SaveApproval PROVE TypeOK'
  BY <1>2 DEF SaveApproval, TypeOK, layerVars
<1> QED
  BY <1>1, <1>2

\* A node that is marked and saves.
LEMMA EmitType ==
    ASSUME TypeOK, NEW n \in Node, NEW rs \in RunStates, Emit(n, rs), PhaseTo(n, "saving")
    PROVE  /\ (phase \in [Node -> {"none", "spawned", "running", "passing", "failing",
                                   "saving", "sending", "done"}])'
           /\ (pending \in [Node -> RunStates \cup {NoSave}])'
           /\ (\A m \in Node : phase[m] = "saving" <=> pending[m] # NoSave)'
           /\ (runState \in RunStates)' /\ (file \in RunStates)'
BY DEF Emit, PhaseTo, TypeOK

LEMMA FinishSaveType ==
    ASSUME TypeOK, NEW n \in Node, NEW to \in {"sending", "done"},
           FinishSave(n), PhaseTo(n, to)
    PROVE  /\ (phase \in [Node -> {"none", "spawned", "running", "passing", "failing",
                                   "saving", "sending", "done"}])'
           /\ (pending \in [Node -> RunStates \cup {NoSave}])'
           /\ (\A m \in Node : phase[m] = "saving" <=> pending[m] # NoSave)'
           /\ (runState \in RunStates)' /\ (file \in RunStates)'
BY DEF FinishSave, PhaseTo, TypeOK

\* A step that neither begins nor ends a save.
LEMMA PhaseType ==
    ASSUME TypeOK, NEW n \in Node, phase[n] # "saving", UNCHANGED storage,
           NEW to \in {"spawned", "running", "passing", "failing", "sending", "done"},
           PhaseTo(n, to)
    PROVE  /\ (phase \in [Node -> {"none", "spawned", "running", "passing", "failing",
                                   "saving", "sending", "done"}])'
           /\ (pending \in [Node -> RunStates \cup {NoSave}])'
           /\ (\A m \in Node : phase[m] = "saving" <=> pending[m] # NoSave)'
           /\ (runState \in RunStates)' /\ (file \in RunStates)'
BY DEF PhaseTo, TypeOK, storage

LEMMA SettleType ==
    ASSUME TypeOK, NEW n \in Node, NEW status \in ResultStatus, NEW o \in Output,
           NEW why \in {"none", "own", "canceled"}, Settle(n, status, o, why)
    PROVE  /\ (results \in [Node -> NodeResult])'
           /\ (cause \in [Node -> {"none", "own", "canceled"}])'
           /\ (fresh \subseteq Node)'
BY DEF Settle, TypeOK, NodeResult

LEMMA MainType == TypeOK /\ MainStep => TypeOK'
<1> SUFFICES ASSUME TypeOK, MainStep PROVE TypeOK'
  OBVIOUS
<1> USE DEF AtNode
<1>1. runState \in RunStates /\ NoOutput \in Output /\ pos \in 1..(Size + 1)
  BY DEF TypeOK
<1>2. CASE SkipCompleted
  <2>1. results[pos].output \in Output
    BY <1>2 DEF SkipCompleted, TypeOK, NodeResult
  <2>2. MarkPassed(runState, pos, results[pos].output) \in RunStates
    BY <1>1, <1>2, <2>1, MarksType DEF SkipCompleted
  <2> QED
    BY <1>2, <2>2, EmitType DEF SkipCompleted, TypeOK, session, layerVars
<1>3. CASE SkipNode
  <2>1. MarkSkipped(runState, pos) \in RunStates
    BY <1>1, <1>3, MarksType DEF SkipNode
  <2>2. "skipped" \in ResultStatus
    BY DEF ResultStatus
  <2> QED
    BY <1>1, <1>3, <2>1, <2>2, EmitType, SettleType DEF SkipNode, TypeOK, session, layerVars
<1>4. CASE StartNode
  <2>1. pos + 1 \in 1..(Size + 1)
    BY <1>4 DEF StartNode
  <2> QED
    BY <1>4, <2>1, PhaseType DEF StartNode, TypeOK, session
<1>5. CASE PauseAtGate
  <2>1. MarkPaused(runState, pos) \in RunStates
    BY <1>1, <1>5, MarksType DEF PauseAtGate
  <2>2. "paused" \in ResultStatus
    BY DEF ResultStatus
  <2> QED
    BY <1>1, <1>5, <2>1, <2>2, EmitType, SettleType DEF PauseAtGate, TypeOK, session, layerVars
<1>6. CASE GoOn
  <2>1. pos + 1 \in 1..(Size + 1)
    BY <1>6 DEF GoOn
  <2> QED
    BY <1>6, <2>1, FinishSaveType DEF GoOn, TypeOK, session
<1>7. CASE ReturnPaused
  BY <1>7, FinishSaveType DEF ReturnPaused, TypeOK, session
<1>8. CASE FinishLayer
  <2>1. PICK n \in Node : wf[n].layer = layer
    BY <1>8 DEF FinishLayer, MoreLayers, LayerNodes
  <2>2. layer + 1 \in 1..(Size + 1)
    BY <2>1, WorkflowType DEF TypeOK
  <2>3. FirstError \in Node \cup {NoNode}
    BY DEF FirstError, TypeOK
  <2> QED
    BY <1>8, <2>2, <2>3, NoErrors DEF FinishLayer, NewContext, TypeOK, session, storage
<1>9. CASE FinishRun
  BY <1>9 DEF FinishRun, TypeOK, session, storage, layerVars
<1> QED
  BY <1>2, <1>3, <1>4, <1>5, <1>6, <1>7, <1>8, <1>9 DEF MainStep

LEMMA NodeType ==
    ASSUME TypeOK, NEW n \in Node, NodeStep(n) PROVE TypeOK'
<1> USE DEF Step
<1>1. runState \in RunStates /\ OutputOf(n) \subseteq Output
  BY DEF TypeOK, OutputOf
<1>2. CASE NodeStarts(n)
  BY <1>2, PhaseType DEF NodeStarts, TypeOK, session
<1>3. CASE NodePasses(n)
  BY <1>3, PhaseType DEF NodePasses, TypeOK, session
<1>4. ASSUME NEW o \in OutputOf(n), RecordPass(n, o) PROVE TypeOK'
  <2>1. MarkPassed(runState, n, o) \in RunStates /\ "passed" \in ResultStatus
    BY <1>1, MarksType DEF ResultStatus
  <2> QED
    BY <1>1, <1>4, <2>1, EmitType, SettleType DEF RecordPass, TypeOK, session
<1>5. ASSUME NEW why \in {"own", "canceled"}, NodeFails(n, why) PROVE TypeOK'
  BY <1>5, PhaseType DEF NodeFails, TypeOK, session
<1>6. ASSUME NEW o \in OutputOf(n), RecordFailure(n, o) PROVE TypeOK'
  <2>1. MarkFailed(runState, n, o) \in RunStates /\ "failed" \in ResultStatus
    BY <1>1, MarksType DEF ResultStatus
  <2>2. cause[n] \in {"none", "own", "canceled"}
    BY DEF TypeOK
  <2>3. Emit(n, MarkFailed(runState, n, o)) /\ PhaseTo(n, "saving")
        /\ Settle(n, "failed", o, cause[n])
    BY <1>6 DEF RecordFailure
  <2>4. o \in Output
    BY <1>1
  <2>5. /\ (results \in [Node -> NodeResult])'
        /\ (cause \in [Node -> {"none", "own", "canceled"}])'
        /\ (fresh \subseteq Node)'
    BY <2>1, <2>2, <2>3, <2>4, SettleType
  <2> QED
    BY <1>6, <2>1, <2>3, <2>5, EmitType DEF RecordFailure, TypeOK, session
<1>7. CASE NodeSaves(n)
  <2>1. PICK to \in {"sending", "done"} : PhaseTo(n, to)
    BY <1>7 DEF NodeSaves
  <2> QED
    BY <1>7, <2>1, FinishSaveType DEF NodeSaves, TypeOK, session
<1>8. CASE SendError(n)
  <2>1. Append(errs, n) \in Seq(Node)
    BY DEF TypeOK
  <2> QED
    BY <1>8, <2>1, PhaseType DEF SendError, TypeOK, session
<1> QED
  BY <1>2, <1>3, <1>4, <1>5, <1>6, <1>7, <1>8 DEF NodeStep

LEMMA NextType == TypeOK /\ [Next]_vars => TypeOK'
<1> SUFFICES ASSUME TypeOK, [Next]_vars PROVE TypeOK'
  OBVIOUS
<1>1. ASSUME Crash PROVE TypeOK'
  BY <1>1, DieType DEF Crash, TypeOK
<1>2. ASSUME Exit PROVE TypeOK'
  BY <1>2, DieType DEF Exit, TypeOK
<1>3. ASSUME UNCHANGED vars PROVE TypeOK'
  BY <1>3 DEF vars, session, layerVars, storage, TypeOK
<1> QED
  BY <1>1, <1>2, <1>3, RunType, ResumeType, ApprovalType, MainType, NodeType DEF Next

\* Type correctness of runs of concurrent layers.
THEOREM LayerRunTypeOK == Spec => []TypeOK
BY InitType, NextType, PTL DEF Spec
-----------------------------------------------------------------------------
(* What the parts of an action do to the variables the invariant reads.    *)

\* A mark changes the status of its node alone.
LEMMA MarksEffect ==
    ASSUME NEW rs \in RunStates, NEW n \in Node, NEW o \in Output, NEW m \in Node
    PROVE  /\ MarkPassed(rs, n, o).nodes[m].status =
                    (IF m = n THEN "passed" ELSE rs.nodes[m].status)
           /\ MarkFailed(rs, n, o).nodes[m].status =
                    (IF m = n THEN "failed" ELSE rs.nodes[m].status)
           /\ MarkSkipped(rs, n).nodes[m].status =
                    (IF m = n THEN "skipped" ELSE rs.nodes[m].status)
           /\ MarkPaused(rs, n).nodes[m].status =
                    (IF m = n THEN "paused" ELSE rs.nodes[m].status)
BY DEF MarkPassed, MarkFailed, MarkSkipped, MarkPaused, Unmarked, RunStates

LEMMA SettleEffect ==
    ASSUME TypeOK, NEW n \in Node, NEW status, NEW o, NEW why, Settle(n, status, o, why),
           NEW m \in Node
    PROVE  /\ results'[m].status = (IF m = n THEN status ELSE results[m].status)
           /\ m # n => results'[m] = results[m]
           /\ cause'[m] = (IF m = n THEN why ELSE cause[m])
           /\ m \in fresh' <=> m = n \/ m \in fresh
BY DEF Settle, TypeOK

LEMMA PhaseEffect ==
    ASSUME TypeOK, NEW n \in Node, NEW to, PhaseTo(n, to), NEW m \in Node
    PROVE  phase'[m] = (IF m = n THEN to ELSE phase[m])
BY DEF PhaseTo, TypeOK

\* The steps after which nothing of an old session is left in memory.
Restart ==
    /\ UNCHANGED wf
    /\ layer' = 1 /\ pos' = 1 /\ errs' = <<>> /\ fresh' = {}
    /\ cancelled' = FALSE /\ firstErr' = NoNode /\ proc' \in {"off", "running"}
    /\ \A n \in Node : phase'[n] = "none" /\ cause'[n] = "none"
    /\ \A n \in Node : results'[n].status # "paused"

\* The steps of approve, and none.
Quiet == UNCHANGED <<wf, proc, layerVars, results, cause, phase, firstErr, runState,
                     outcome, fresh>>

\* Every step restarts, is quiet, or is a step of the loop or of a goroutine.
LEMMA StepKinds ==
    ASSUME TypeOK, [Next]_vars
    PROVE  Restart \/ Quiet \/ MainStep \/ \E n \in Node : NodeStep(n)
<1>1. ASSUME NEW initial, NewMemory(initial), UNCHANGED wf, proc' \in {"off", "running"},
             \A n \in Node : initial[n].status # "paused"
      PROVE  Restart
  BY <1>1 DEF NewMemory, Restart
<1>2. ASSUME Run PROVE Restart
  BY <1>1, <1>2, NothingType DEF Run, EnterEngine
<1>3. ASSUME Resume PROVE Restart
  <2>1. file \in RunStates
    BY DEF TypeOK
  <2> QED
    BY <1>1, <1>3, <2>1, InitialResultsType DEF Resume, EnterEngine
<1>4. ASSUME Crash \/ Exit PROVE Restart
  BY <1>1, <1>4, NothingType DEF Crash, Exit, Die, session
<1>5. ASSUME (\E n \in Node : ApproveGate(n)) \/ SaveApproval \/ UNCHANGED vars PROVE Quiet
  BY <1>5 DEF ApproveGate, SaveApproval, vars, session, storage, layerVars, Quiet
<1> QED
  BY <1>2, <1>3, <1>4, <1>5 DEF Next

\* A goroutine's step is of a node of the layer the loop is in, behind the loop.
LEMMA NodeStepPlace ==
    ASSUME TypeOK, LoopInv, NEW n \in Node, NodeStep(n)
    PROVE  /\ n < pos /\ wf[n].layer = layer
           /\ phase[n] \notin {"none", "done"}
           /\ UNCHANGED <<wf, proc, layer, pos, firstErr, outcome>>
<1>1. /\ n # pos /\ phase[n] \notin {"none", "done"}
      /\ UNCHANGED <<wf, proc, layer, pos, firstErr, outcome>>
  BY DEF NodeStep, NodeStarts, NodePasses, RecordPass, NodeFails, RecordFailure,
         NodeSaves, SendError, Step, session
<1>2. wf[n].layer \in Node /\ layer \in Nat /\ pos \in Nat
  BY WorkflowType DEF TypeOK
<1> QED
  BY <1>1, <1>2 DEF LoopInv

\* Whatever a node's rule and condition read is over when the loop looks at it.
LEMMA EarlierIsDone ==
    ASSUME TypeOK, LoopInv, NEW n \in Node, NEW d \in Node, wf[d].layer < wf[n].layer,
           phase[n] # "none" \/ wf[n].layer = layer
    PROVE  phase[d] = "done"
<1>1. /\ wf[n].layer \in Nat /\ wf[d].layer \in Nat /\ layer \in Nat /\ pos \in Nat
  BY WorkflowType DEF TypeOK
<1>2. wf[d].layer < layer
  BY <1>1 DEF LoopInv
<1>3. d < pos
  BY <1>1, <1>2 DEF LoopInv
<1> QED
  BY <1>2, <1>3 DEF LoopInv

-----------------------------------------------------------------------------
(* The loop.                                                               *)

LEMMA RestartLoop == ASSUME TypeOK, Restart PROVE LoopInv'
<1>1. \A n \in Node : wf[n].layer >= 1 /\ n >= 1
  BY WorkflowType
<1> QED
  BY <1>1 DEF Restart, LoopInv

LEMMA LoopStep == ASSUME Inv, [Next]_vars PROVE LoopInv'
<1> USE DEF Inv
<1>1. pos \in 1..(Size + 1) /\ layer \in Nat
  BY DEF TypeOK
<1>2. \A n \in Node : wf[n].layer \in Nat /\ n \in Nat
  BY WorkflowType
<1>3. ASSUME NEW n \in Node, NodeStep(n) PROVE LoopInv'
  <2>1. /\ n < pos /\ wf[n].layer = layer
        /\ UNCHANGED <<wf, proc, layer, pos, firstErr, outcome>>
    BY <1>3, NodeStepPlace
  <2>2. PICK to \in {"running", "passing", "saving", "failing", "sending", "done"} :
            PhaseTo(n, to)
    BY <1>3 DEF NodeStep, NodeStarts, NodePasses, RecordPass, NodeFails, RecordFailure,
                NodeSaves, SendError, Step
  <2>3. \A m \in Node : phase'[m] = IF m = n THEN to ELSE phase[m]
    BY <2>2, PhaseEffect
  <2>4. \A m \in Node : m # n => results'[m] = results[m]
    BY <1>3, SettleEffect DEF NodeStep, NodeStarts, NodePasses, RecordPass, NodeFails,
           RecordFailure, NodeSaves, SendError
  <2> QED
    BY <1>1, <1>2, <2>1, <2>3, <2>4, SMTT(30) DEF LoopInv
<1>4. CASE SkipCompleted
  <2>1. \A m \in Node : phase'[m] = IF m = pos THEN "saving" ELSE phase[m]
    BY <1>4, PhaseEffect DEF SkipCompleted, AtNode
  <2> QED
    BY <1>1, <1>2, <1>4, <2>1, SMTT(30)
       DEF SkipCompleted, AtNode, Completed, LoopInv, session, layerVars
<1>5. CASE SkipNode
  <2>1. \A m \in Node : phase'[m] = IF m = pos THEN "saving" ELSE phase[m]
    BY <1>5, PhaseEffect DEF SkipNode, AtNode
  <2>2. \A m \in Node : results'[m].status = IF m = pos THEN "skipped" ELSE results[m].status
    BY <1>5, SettleEffect DEF SkipNode, AtNode
  <2> QED
    BY <1>1, <1>2, <1>5, <2>1, <2>2, SMTT(30)
       DEF SkipNode, AtNode, LoopInv, session, layerVars
<1>6. CASE PauseAtGate
  <2>1. \A m \in Node : phase'[m] = IF m = pos THEN "saving" ELSE phase[m]
    BY <1>6, PhaseEffect DEF PauseAtGate, AtNode
  <2>2. \A m \in Node : results'[m].status = IF m = pos THEN "paused" ELSE results[m].status
    BY <1>6, SettleEffect DEF PauseAtGate, AtNode
  <2> QED
    BY <1>1, <1>2, <1>6, <2>1, <2>2, SMTT(30)
       DEF PauseAtGate, AtNode, LoopInv, session, layerVars
<1>7. CASE StartNode
  <2>1. \A m \in Node : phase'[m] = IF m = pos THEN "spawned" ELSE phase[m]
    BY <1>7, PhaseEffect DEF StartNode, AtNode
  <2> QED
    <3>1. /\ pos \in Node /\ pos' = pos + 1 /\ wf[pos].layer = layer
          /\ UNCHANGED <<wf, layer, proc, results>>
      BY <1>7 DEF StartNode, AtNode, session
    <3>2. (\A n \in Node : n < pos => phase[n] # "none")'
      BY <1>1, <2>1, <3>1 DEF LoopInv
    <3>3. (\A n \in Node : n > pos => phase[n] = "none")'
      BY <1>1, <2>1, <3>1 DEF LoopInv
    <3>4. (\A n \in Node : n >= pos => wf[n].layer >= layer)'
      BY <1>1, <3>1 DEF LoopInv
    <3>5. (\A n \in Node : phase[n] # "none" => wf[n].layer <= layer)'
      BY <1>1, <1>2, <2>1, <3>1 DEF LoopInv
    <3>6. (\A n \in Node : phase[n] # "none" /\ wf[n].layer < layer => phase[n] = "done")'
      BY <1>1, <1>2, <2>1, <3>1 DEF LoopInv
    <3>7. pos' \in Node => phase'[pos'] = "none"
      BY <1>1, <2>1, <3>1 DEF LoopInv
    <3> QED
      BY <3>2, <3>3, <3>4, <3>5, <3>6, <3>7 DEF LoopInv
<1>8. CASE GoOn
  <2>1. \A m \in Node : phase'[m] = IF m = pos THEN "done" ELSE phase[m]
    BY <1>8, PhaseEffect DEF GoOn
  <2> QED
    BY <1>1, <1>2, <1>8, <2>1 DEF GoOn, FinishSave, LoopInv, session
<1>9. CASE ReturnPaused
  <2>1. \A m \in Node : phase'[m] = IF m = pos THEN "done" ELSE phase[m]
    BY <1>9, PhaseEffect DEF ReturnPaused
  <2> QED
    BY <1>1, <1>2, <1>9, <2>1 DEF ReturnPaused, FinishSave, LoopInv, session
<1>10. CASE FinishLayer
  <2>1. \A n \in Node : wf[n].layer = layer => phase[n] \in {"none", "done"}
    BY <1>10 DEF FinishLayer, GoroutinesDone, LayerNodes
  <2>2. \A n \in Node : n >= pos => wf[n].layer > layer
    <3>1. ASSUME NEW n \in Node, n >= pos PROVE wf[n].layer > layer
      <4>1. pos \in Node
        BY <1>1, <3>1
      <4>2. wf[pos].layer # layer
        BY <1>10, <4>1 DEF FinishLayer, LayerNodes
      <4>3. wf[pos].layer > layer
        BY <1>1, <1>2, <4>1, <4>2 DEF LoopInv
      <4>4. wf[n].layer >= wf[pos].layer
        <5>1. pos < n => wf[pos].layer <= wf[n].layer
          BY <4>1, WorkflowType
        <5> QED
          BY <1>1, <1>2, <3>1, <4>1, <5>1
      <4> QED
        BY <1>1, <1>2, <4>1, <4>3, <4>4
    <3> QED
      BY <3>1
  <2> QED
    BY <1>1, <1>2, <1>10, <2>1, <2>2, SMTT(30) DEF FinishLayer, LoopInv, session
<1>11. CASE FinishRun
  BY <1>1, <1>2, <1>11 DEF FinishRun, LoopInv, session, layerVars
<1>12. CASE Quiet
  BY <1>12 DEF Quiet, layerVars, LoopInv
<1> QED
  BY <1>3, <1>4, <1>5, <1>6, <1>7, <1>8, <1>9, <1>10, <1>11, <1>12, RestartLoop, StepKinds
     DEF MainStep
-----------------------------------------------------------------------------
(* The nodes.                                                              *)

\* The marks and results of a step that decides n.
Decides(n, status, why) ==
    \A m \in Node :
        /\ results'[m].status = (IF m = n THEN status ELSE results[m].status)
        /\ runState'.nodes[m].status = (IF m = n THEN status ELSE runState.nodes[m].status)
        /\ cause'[m] = (IF m = n THEN why ELSE cause[m])
        /\ phase'[m] = (IF m = n THEN "saving" ELSE phase[m])
        /\ m \in fresh' <=> m = n \/ m \in fresh
        /\ m # n => results'[m] = results[m]

LEMMA LoopDecides ==
    ASSUME TypeOK, pos \in Node
    PROVE  /\ SkipNode => Decides(pos, "skipped", "none")
           /\ PauseAtGate => Decides(pos, "paused", "none")
<1>1. runState \in RunStates /\ NoOutput \in Output
  BY DEF TypeOK
<1>2. ASSUME SkipNode PROVE Decides(pos, "skipped", "none")
  <2>1. /\ runState' = MarkSkipped(runState, pos)
        /\ Settle(pos, "skipped", NoOutput, "none") /\ PhaseTo(pos, "saving")
    BY <1>2 DEF SkipNode, Emit
  <2> QED
    BY <1>1, <2>1, MarksEffect, SettleEffect, PhaseEffect DEF Decides
<1>3. ASSUME PauseAtGate PROVE Decides(pos, "paused", "none")
  <2>1. /\ runState' = MarkPaused(runState, pos)
        /\ Settle(pos, "paused", NoOutput, "none") /\ PhaseTo(pos, "saving")
    BY <1>3 DEF PauseAtGate, Emit
  <2> QED
    BY <1>1, <2>1, MarksEffect, SettleEffect, PhaseEffect DEF Decides
<1> QED
  BY <1>2, <1>3

LEMMA NodeDecides ==
    ASSUME TypeOK, NEW n \in Node, NEW o \in OutputOf(n)
    PROVE  /\ RecordPass(n, o) => Decides(n, "passed", "none")
           /\ RecordFailure(n, o) => Decides(n, "failed", cause[n])
<1>1. runState \in RunStates /\ o \in Output
  BY DEF TypeOK, OutputOf
<1>2. ASSUME RecordPass(n, o) PROVE Decides(n, "passed", "none")
  <2>1. /\ runState' = MarkPassed(runState, n, o)
        /\ Settle(n, "passed", o, "none") /\ PhaseTo(n, "saving")
    BY <1>2 DEF RecordPass, Emit, Step
  <2>2. ASSUME NEW m \in Node
        PROVE  runState'.nodes[m].status = (IF m = n THEN "passed" ELSE runState.nodes[m].status)
    <3>1. MarkPassed(runState, n, o).nodes[m].status =
            (IF m = n THEN "passed" ELSE runState.nodes[m].status)
      BY <1>1, MarksEffect
    <3> QED
      BY <2>1, <3>1
  <2> QED
    BY <2>1, <2>2, SettleEffect, PhaseEffect DEF Decides
<1>3. ASSUME RecordFailure(n, o) PROVE Decides(n, "failed", cause[n])
  <2>1. /\ runState' = MarkFailed(runState, n, o)
        /\ Settle(n, "failed", o, cause[n]) /\ PhaseTo(n, "saving")
    BY <1>3 DEF RecordFailure, Emit, Step
  <2>2. ASSUME NEW m \in Node
        PROVE  runState'.nodes[m].status = (IF m = n THEN "failed" ELSE runState.nodes[m].status)
    <3>1. MarkFailed(runState, n, o).nodes[m].status =
            (IF m = n THEN "failed" ELSE runState.nodes[m].status)
      BY <1>1, MarksEffect
    <3> QED
      BY <2>1, <3>1
  <2> QED
    BY <2>1, <2>2, SettleEffect, PhaseEffect DEF Decides
<1> QED
  BY <1>2, <1>3

\* The steps of a goroutine that decide nothing: its phase moves, and it may fail.
Moves(n, from, to) ==
    /\ phase[n] = from
    /\ \A m \in Node : phase'[m] = (IF m = n THEN to ELSE phase[m])
    /\ UNCHANGED <<results, fresh, runState>>

LEMMA NodeMoves ==
    ASSUME TypeOK, NEW n \in Node
    PROVE  /\ NodeStarts(n) => Moves(n, "spawned", "running") /\ UNCHANGED <<cause, cancelled, errs>>
           /\ NodePasses(n) => Moves(n, "running", "passing") /\ UNCHANGED <<cause, cancelled, errs>>
           /\ \A why \in {"own", "canceled"} : NodeFails(n, why) =>
                 /\ Moves(n, "running", "failing")
                 /\ why = "canceled" => cancelled
                 /\ UNCHANGED errs
                 /\ \A m \in Node : cause'[m] = (IF m = n THEN why ELSE cause[m])
           /\ NodeSaves(n) =>
                 /\ Moves(n, "saving", IF results[n].status = "failed" THEN "sending" ELSE "done")
                 /\ UNCHANGED <<cause, cancelled, errs>>
           /\ SendError(n) => Moves(n, "sending", "done") /\ UNCHANGED <<cause, cancelled>>
<1>1. ASSUME NodeStarts(n)
      PROVE  Moves(n, "spawned", "running") /\ UNCHANGED <<cause, cancelled, errs>>
  BY <1>1, PhaseEffect DEF NodeStarts, Step, Moves, storage
<1>2. ASSUME NodePasses(n)
      PROVE  Moves(n, "running", "passing") /\ UNCHANGED <<cause, cancelled, errs>>
  BY <1>2, PhaseEffect DEF NodePasses, Step, Moves, storage
<1>3. ASSUME NEW why \in {"own", "canceled"}, NodeFails(n, why)
      PROVE  /\ Moves(n, "running", "failing")
             /\ why = "canceled" => cancelled
             /\ UNCHANGED errs
             /\ \A m \in Node : cause'[m] = (IF m = n THEN why ELSE cause[m])
  <2>1. cause \in [Node -> {"none", "own", "canceled"}]
    BY DEF TypeOK
  <2>2. PhaseTo(n, "failing")
    BY <1>3 DEF NodeFails, Step
  <2> QED
    BY <1>3, <2>1, <2>2, PhaseEffect DEF NodeFails, Step, Moves, storage
<1>4. ASSUME NodeSaves(n)
      PROVE  /\ Moves(n, "saving", IF results[n].status = "failed" THEN "sending" ELSE "done")
             /\ UNCHANGED <<cause, cancelled, errs>>
  BY <1>4, PhaseEffect DEF NodeSaves, FinishSave, Step, Moves
<1>5. ASSUME SendError(n)
      PROVE  Moves(n, "sending", "done") /\ UNCHANGED <<cause, cancelled>>
  BY <1>5, PhaseEffect DEF SendError, Step, Moves, storage
<1> QED
  BY <1>1, <1>2, <1>3, <1>4, <1>5

\* What follows for the nodes the loop has, and has not, got to.
LEMMA PhaseStep == ASSUME Inv, [Next]_vars PROVE PhaseInv'
<1> USE DEF Inv
<1>1. pos \in 1..(Size + 1)
  BY DEF TypeOK
<1>2. ASSUME Restart PROVE PhaseInv'
  BY <1>2 DEF Restart, PhaseInv, Over
<1>3. CASE Quiet
  BY <1>3 DEF Quiet, layerVars, PhaseInv
<1>4. CASE SkipCompleted
  <2>1. /\ pos \in Node /\ results[pos].status = "passed" /\ phase[pos] = "none"
        /\ runState' = MarkPassed(runState, pos, results[pos].output)
        /\ PhaseTo(pos, "saving")
        /\ UNCHANGED <<pos, results, cause, fresh>>
    BY <1>4 DEF SkipCompleted, AtNode, Completed, Emit, layerVars
  <2>2. runState \in RunStates /\ results[pos].output \in Output
    BY <2>1 DEF TypeOK, NodeResult
  <2>3. \A m \in Node : /\ phase'[m] = IF m = pos THEN "saving" ELSE phase[m]
                        /\ runState'.nodes[m].status =
                              IF m = pos THEN "passed" ELSE runState.nodes[m].status
    BY <2>1, <2>2, PhaseEffect, MarksEffect
  <2> QED
    BY <2>1, <2>3 DEF PhaseInv, Over
<1>5. CASE SkipNode
  <2>1. pos \in Node /\ pos' = pos /\ phase[pos] = "none"
    BY <1>5 DEF SkipNode, AtNode, layerVars
  <2> QED
    BY <1>5, <2>1, LoopDecides DEF Decides, PhaseInv, Over
<1>6. CASE PauseAtGate
  <2>1. pos \in Node /\ pos' = pos /\ phase[pos] = "none"
    BY <1>6 DEF PauseAtGate, AtNode, layerVars
  <2> QED
    BY <1>6, <2>1, LoopDecides DEF Decides, PhaseInv, Over
<1>7. CASE StartNode
  <2>1. /\ pos \in Node /\ phase[pos] = "none" /\ results[pos].status # "paused"
        /\ UNCHANGED <<results, cause, fresh, runState>>
    BY <1>7 DEF StartNode, AtNode, storage, PhaseInv, Over
  <2>2. \A m \in Node : phase'[m] = IF m = pos THEN "spawned" ELSE phase[m]
    BY <1>7, <2>1, PhaseEffect DEF StartNode
  <2> QED
    BY <2>1, <2>2 DEF PhaseInv, Over
<1>8. CASE GoOn
  <2>1. /\ pos \in Node /\ phase[pos] = "saving" /\ results[pos].status # "paused"
        /\ UNCHANGED <<results, cause, fresh, runState>>
    BY <1>8 DEF GoOn, FinishSave
  <2>2. \A m \in Node : phase'[m] = IF m = pos THEN "done" ELSE phase[m]
    BY <1>8, <2>1, PhaseEffect DEF GoOn
  <2> QED
    BY <2>1, <2>2 DEF PhaseInv, Over
<1>9. CASE ReturnPaused
  <2>1. /\ pos \in Node /\ phase[pos] = "saving"
        /\ UNCHANGED <<pos, results, cause, fresh, runState>>
    BY <1>9 DEF ReturnPaused, FinishSave
  <2>2. \A m \in Node : phase'[m] = IF m = pos THEN "done" ELSE phase[m]
    BY <1>9, <2>1, PhaseEffect DEF ReturnPaused
  <2> QED
    BY <2>1, <2>2 DEF PhaseInv, Over
<1>10. CASE FinishLayer \/ FinishRun
  BY <1>10 DEF FinishLayer, FinishRun, PhaseInv, storage, layerVars
<1>11. ASSUME NEW n \in Node, NodeStep(n) PROVE PhaseInv'
  <2>1. n < pos /\ pos' = pos
    BY <1>11, NodeStepPlace
  <2>2. results[n].status # "paused"
    BY <1>1, <2>1 DEF PhaseInv
  <2>3. CASE NodeStarts(n)
    BY <2>1, <2>2, <2>3, NodeMoves DEF Moves, PhaseInv, Over
  <2>4. CASE NodePasses(n)
    BY <2>1, <2>2, <2>4, NodeMoves DEF Moves, PhaseInv, Over
  <2>5. ASSUME NEW o \in OutputOf(n), RecordPass(n, o) PROVE PhaseInv'
    BY <2>1, <2>2, <2>5, NodeDecides DEF Decides, PhaseInv, Over
  <2>6. ASSUME NEW why \in {"own", "canceled"}, NodeFails(n, why) PROVE PhaseInv'
    BY <2>1, <2>2, <2>6, NodeMoves DEF Moves, PhaseInv, Over
  <2>7. ASSUME NEW o \in OutputOf(n), RecordFailure(n, o) PROVE PhaseInv'
    <3>1. phase[n] = "failing"
      BY <2>7 DEF RecordFailure, Step
    <3> QED
      BY <2>1, <2>2, <2>7, <3>1, NodeDecides DEF Decides, PhaseInv, Over
  <2>8. CASE NodeSaves(n)
    BY <2>1, <2>2, <2>8, NodeMoves DEF Moves, PhaseInv, Over
  <2>9. CASE SendError(n)
    BY <2>1, <2>2, <2>9, NodeMoves DEF Moves, PhaseInv, Over
  <2> QED
    BY <1>11, <2>3, <2>4, <2>5, <2>6, <2>7, <2>8, <2>9 DEF NodeStep
<1> QED
  BY <1>2, <1>3, <1>4, <1>5, <1>6, <1>7, <1>8, <1>9, <1>10, <1>11, StepKinds DEF MainStep
-----------------------------------------------------------------------------
(* Trigger rules and conditions.                                           *)

\* dependenciesReady computes the documented meaning of the trigger rules.
LEMMA ReadyAsDocumented ==
    ASSUME TypeOK, NEW n \in Node
    PROVE  Documented(n) <=> DependenciesReady(wf[n], results)
<1>1. wf \in [Node -> LayeredConf]
  BY WorkflowsAssumption DEF TypeOK
<1>2. wf[n].trigger \in TriggerRule /\ wf[n].deps \subseteq Node
  BY <1>1 DEF LayeredConf
<1>3. DOMAIN results = Node
  BY DEF TypeOK
<1>4. {d \in wf[n].deps : results[d].status = "passed"} = wf[n].deps \cap Passed(results)
  BY <1>2, <1>3 DEF Passed
<1> QED
  BY <1>2, <1>4 DEF Documented, DependenciesReady, TriggerRule

\* What the rules say of a node depends on the layers before it only.
LEMMA RulesAreLocal ==
    ASSUME TypeOK, wf' = wf, NEW n \in Node, wf[wf[n].when.ref].layer < wf[n].layer,
           \A m \in Node : wf[m].layer < wf[n].layer => results'[m] = results[m]
    PROVE  /\ Documented(n)' <=> Documented(n)
           /\ WhenMatches(wf[n], results)' <=> WhenMatches(wf[n], results)
<1>1. /\ \A d \in wf[n].deps : d \in Node /\ wf[d].layer < wf[n].layer
      /\ wf[n].when.ref \in Node
  BY WorkflowType
<1>2. \A d \in wf[n].deps : results'[d] = results[d]
  BY <1>1
<1>3. {d \in wf[n].deps : results'[d].status = "passed"}
        = {d \in wf[n].deps : results[d].status = "passed"}
  BY <1>2
<1>4. results'[wf[n].when.ref] = results[wf[n].when.ref]
  BY <1>1
<1> QED
  BY <1>3, <1>4 DEF Documented, WhenMatches

\* What a step may decide about a node.
Stays(n) ==
    /\ n \in fresh' <=> n \in fresh
    /\ results'[n] = results[n]
    /\ phase'[n] \in Executing => phase[n] \in Executing

Considered(n) ==
    /\ phase[n] = "none" /\ wf[n].layer = layer /\ n \notin fresh
    /\ \/ /\ ShouldRun(wf[n], results)
          /\ phase'[n] = "spawned" /\ n \notin fresh'
       \/ /\ ShouldRun(wf[n], results)
          /\ phase'[n] = "saving" /\ n \in fresh' /\ results'[n].status = "paused"
       \/ /\ ~ShouldRun(wf[n], results)
          /\ phase'[n] = "saving" /\ n \in fresh' /\ results'[n].status = "skipped"

Executed(n) ==
    /\ phase[n] \in Executing /\ phase'[n] = "saving" /\ n \in fresh'
    /\ results'[n].status \in {"passed", "failed"}

LEMMA NodeChanges ==
    ASSUME Inv, [Next]_vars, ~Restart, NEW n \in Node
    PROVE  /\ wf' = wf
           /\ phase[n] = "done" => results'[n] = results[n]
           /\ Stays(n) \/ Considered(n) \/ Executed(n)
<1> DEFINE Goal == /\ wf' = wf
                   /\ phase[n] = "done" => results'[n] = results[n]
                   /\ Stays(n) \/ Considered(n) \/ Executed(n)
<1> SUFFICES Goal
  OBVIOUS
<1> USE DEF Inv
<1>1. CASE Quiet
  BY <1>1 DEF Quiet, Stays
<1>2. CASE SkipCompleted
  <2>1. phase'[n] = IF n = pos THEN "saving" ELSE phase[n]
    BY <1>2, PhaseEffect DEF SkipCompleted, AtNode
  <2> QED
    BY <1>2, <2>1 DEF SkipCompleted, session, Stays, Executing
<1>3. CASE SkipNode
  <2>1. /\ pos \in Node /\ phase[pos] = "none" /\ wf[pos].layer = layer
        /\ ~ShouldRun(wf[pos], results) /\ wf' = wf
    BY <1>3 DEF SkipNode, AtNode, session
  <2>2. Decides(pos, "skipped", "none")
    BY <1>3, <2>1, LoopDecides
  <2> QED
    BY <2>1, <2>2 DEF Decides, Stays, Considered, PhaseInv, Over
<1>4. CASE PauseAtGate
  <2>1. /\ pos \in Node /\ phase[pos] = "none" /\ wf[pos].layer = layer
        /\ ShouldRun(wf[pos], results) /\ wf' = wf
    BY <1>4 DEF PauseAtGate, AtNode, session
  <2>2. Decides(pos, "paused", "none")
    BY <1>4, <2>1, LoopDecides
  <2> QED
    BY <2>1, <2>2 DEF Decides, Stays, Considered, PhaseInv, Over
<1>5. CASE StartNode
  <2>1. /\ pos \in Node /\ phase[pos] = "none" /\ wf[pos].layer = layer
        /\ ShouldRun(wf[pos], results) /\ UNCHANGED <<wf, results, fresh>>
    BY <1>5 DEF StartNode, AtNode, session
  <2>2. phase'[n] = IF n = pos THEN "spawned" ELSE phase[n]
    BY <1>5, <2>1, PhaseEffect DEF StartNode
  <2> QED
    BY <2>1, <2>2 DEF Stays, Considered, PhaseInv, Over
<1>6. CASE GoOn \/ ReturnPaused
  <2>1. phase'[n] = IF n = pos THEN "done" ELSE phase[n]
    BY <1>6, PhaseEffect DEF GoOn, ReturnPaused
  <2> QED
    BY <1>6, <2>1 DEF GoOn, ReturnPaused, session, Stays, Executing
<1>7. CASE FinishLayer \/ FinishRun
  BY <1>7 DEF FinishLayer, FinishRun, session, Stays
<1>8. ASSUME NEW k \in Node, NodeStep(k) PROVE Goal
  <2>1. wf' = wf
    BY <1>8, NodeStepPlace
  <2>2. CASE NodeStarts(k)
    BY <2>1, <2>2, NodeMoves DEF Moves, Stays, Executing
  <2>3. CASE NodePasses(k)
    BY <2>1, <2>3, NodeMoves DEF Moves, Stays, Executing
  <2>4. ASSUME NEW o \in OutputOf(k), RecordPass(k, o) PROVE Goal
    <3>1. phase[k] = "passing"
      BY <2>4 DEF RecordPass, Step
    <3> QED
      BY <2>1, <2>4, <3>1, NodeDecides DEF Decides, Stays, Executed, Executing
  <2>5. ASSUME NEW why \in {"own", "canceled"}, NodeFails(k, why) PROVE Goal
    BY <2>1, <2>5, NodeMoves DEF Moves, Stays, Executing
  <2>6. ASSUME NEW o \in OutputOf(k), RecordFailure(k, o) PROVE Goal
    <3>1. phase[k] = "failing"
      BY <2>6 DEF RecordFailure, Step
    <3> QED
      BY <2>1, <2>6, <3>1, NodeDecides DEF Decides, Stays, Executed, Executing
  <2>7. CASE NodeSaves(k)
    BY <2>1, <2>7, NodeMoves DEF Moves, Stays, Executing
  <2>8. CASE SendError(k)
    BY <2>1, <2>8, NodeMoves DEF Moves, Stays, Executing
  <2> QED
    BY <1>8, <2>2, <2>3, <2>4, <2>5, <2>6, <2>7, <2>8 DEF NodeStep
<1> QED
  BY <1>1, <1>2, <1>3, <1>4, <1>5, <1>6, <1>7, <1>8, StepKinds DEF MainStep

LEMMA RuleStep == ASSUME Inv, [Next]_vars PROVE RuleInv'
<1> USE DEF Inv
<1>1. CASE Restart
  BY <1>1 DEF Restart, RuleInv, DecidedByRule, Executing
<1>2. ASSUME ~Restart, NEW n \in Node, wf'[wf'[n].when.ref].layer < wf'[n].layer
      PROVE  /\ n \in fresh' => (results'[n].status = "skipped"
                                    <=> ~(Documented(n)' /\ WhenMatches(wf[n], results)'))
             /\ phase'[n] \in Executing => Documented(n)' /\ WhenMatches(wf[n], results)'
  <2>1. wf' = wf /\ (Stays(n) \/ Considered(n) \/ Executed(n))
    BY <1>2, NodeChanges
  <2>2. CASE n \in fresh' \/ phase'[n] \in Executing
    <3>1. phase[n] # "none" \/ wf[n].layer = layer
      BY <2>1, <2>2 DEF Stays, Considered, Executed, Executing, PhaseInv, Over
    <3>2. \A m \in Node : wf[m].layer < wf[n].layer => results'[m] = results[m]
      BY <1>2, <3>1, EarlierIsDone, NodeChanges
    <3>3. /\ Documented(n)' <=> Documented(n)
          /\ WhenMatches(wf[n], results)' <=> WhenMatches(wf[n], results)
      BY <1>2, <2>1, <3>2, RulesAreLocal
    <3>4. ShouldRun(wf[n], results) <=> Documented(n) /\ WhenMatches(wf[n], results)
      BY ReadyAsDocumented DEF ShouldRun
    <3>5. /\ n \in fresh => (results[n].status = "skipped"
                                <=> ~(Documented(n) /\ WhenMatches(wf[n], results)))
          /\ phase[n] \in Executing => Documented(n) /\ WhenMatches(wf[n], results)
      BY <1>2, <2>1 DEF RuleInv, DecidedByRule
    <3>6. CASE Stays(n)
      BY <3>3, <3>5, <3>6 DEF Stays
    <3>7. CASE Considered(n)
      BY <3>3, <3>4, <3>7 DEF Considered, Executing
    <3>8. CASE Executed(n)
      BY <3>3, <3>5, <3>8 DEF Executed, Executing
    <3> QED
      BY <2>1, <3>6, <3>7, <3>8
  <2> QED
    BY <2>2
<1>3. ASSUME ~Restart, NEW n \in Node,
             n \in fresh', wf'[n].trigger = "all_done", wf'[n].when.op = "empty"
      PROVE  results'[n].status # "skipped"
  <2>1. wf' = wf /\ (Stays(n) \/ Considered(n) \/ Executed(n))
    BY <1>3, NodeChanges
  <2>2. ShouldRun(wf[n], results)
    BY <1>3, <2>1 DEF ShouldRun, DependenciesReady, WhenMatches
  <2> QED
    BY <1>3, <2>1, <2>2 DEF Stays, Considered, Executed, RuleInv
<1>4. fresh' \subseteq Node
  BY NextType DEF TypeOK
<1> QED
  BY <1>1, <1>2, <1>3, <1>4 DEF RuleInv, DecidedByRule
-----------------------------------------------------------------------------
(* Failures.                                                               *)

LEMMA FailureStep == ASSUME Inv, [Next]_vars PROVE FailureInv'
<1> USE DEF Inv
<1>1. /\ pos \in 1..(Size + 1) /\ layer \in Nat /\ errs \in Seq(Node)
      /\ firstErr \in Node \cup {NoNode}
      /\ \A n \in Node : wf[n].layer \in Nat
  <2>1. \A n \in Node : wf[n].layer \in Node
    BY WorkflowType
  <2> QED
    BY <2>1 DEF TypeOK
<1>2. CASE Restart
  BY <1>2 DEF Restart, FailureInv
<1>3. CASE Quiet
  BY <1>3 DEF Quiet, layerVars, FailureInv
<1>4. CASE SkipCompleted
  <2>1. \A m \in Node : phase'[m] = IF m = pos THEN "saving" ELSE phase[m]
    BY <1>4, PhaseEffect DEF SkipCompleted, AtNode
  <2> QED
    BY <1>4, <2>1 DEF SkipCompleted, session, layerVars, FailureInv
<1>5. CASE SkipNode
  <2>1. pos \in Node /\ UNCHANGED <<wf, layer, errs, firstErr>>
    BY <1>5 DEF SkipNode, AtNode, session, layerVars
  <2> QED
    BY <1>5, <2>1, LoopDecides DEF Decides, FailureInv
<1>6. CASE PauseAtGate
  <2>1. pos \in Node /\ UNCHANGED <<wf, layer, errs, firstErr>>
    BY <1>6 DEF PauseAtGate, AtNode, session, layerVars
  <2> QED
    BY <1>6, <2>1, LoopDecides DEF Decides, FailureInv
<1>7. CASE StartNode
  <2>1. \A m \in Node : phase'[m] = IF m = pos THEN "spawned" ELSE phase[m]
    BY <1>7, PhaseEffect DEF StartNode, AtNode
  <2> QED
    BY <1>7, <2>1 DEF StartNode, session, FailureInv
<1>8. CASE GoOn
  <2>1. \A m \in Node : phase'[m] = IF m = pos THEN "done" ELSE phase[m]
    BY <1>8, PhaseEffect DEF GoOn
  <2>2. pos \in Node /\ results[pos].status # "failed"
    BY <1>8 DEF GoOn, FinishSave, LoopInv
  <2> QED
    BY <1>8, <2>1, <2>2 DEF GoOn, session, FailureInv
<1>9. CASE ReturnPaused
  <2>1. \A m \in Node : phase'[m] = IF m = pos THEN "done" ELSE phase[m]
    BY <1>9, PhaseEffect DEF ReturnPaused
  <2>2. firstErr' # NoNode /\ results[pos].status # "failed"
    BY <1>9 DEF ReturnPaused
  <2> QED
    BY <1>9, <2>1, <2>2 DEF ReturnPaused, session, FailureInv
<1>10. CASE FinishLayer
  <2>1. errs # <<>> => Head(errs) \in Node
    BY <1>1
  <2>2. errs # <<>> \/ firstErr # NoNode => firstErr' # NoNode
    BY <1>1, <1>10, <2>1 DEF FinishLayer, FirstError
  <2>3. \A n \in Node : phase[n] = "done" => wf[n].layer <= layer
    BY DEF LoopInv
  <2>4. layer' = layer + 1 /\ UNCHANGED <<wf, phase, results>>
    BY <1>10 DEF FinishLayer, session
  <2> QED
    BY <1>1, <2>2, <2>3, <2>4 DEF FailureInv
<1>11. CASE FinishRun
  BY <1>11 DEF FinishRun, session, layerVars, FailureInv
<1>12. ASSUME NEW n \in Node, NodeStep(n) PROVE FailureInv'
  <2>1. UNCHANGED <<wf, layer, firstErr>> /\ wf[n].layer = layer
    BY <1>12, NodeStepPlace
  <2>2. CASE NodeStarts(n)
    BY <2>1, <2>2, NodeMoves DEF Moves, FailureInv
  <2>3. CASE NodePasses(n)
    BY <2>1, <2>3, NodeMoves DEF Moves, FailureInv
  <2>4. ASSUME NEW o \in OutputOf(n), RecordPass(n, o) PROVE FailureInv'
    BY <2>1, <2>4, NodeDecides DEF Decides, RecordPass, FailureInv
  <2>5. ASSUME NEW why \in {"own", "canceled"}, NodeFails(n, why) PROVE FailureInv'
    BY <2>1, <2>5, NodeMoves DEF Moves, FailureInv
  <2>6. ASSUME NEW o \in OutputOf(n), RecordFailure(n, o) PROVE FailureInv'
    <3>1. Decides(n, "failed", cause[n]) /\ errs' = errs
      BY <2>6, NodeDecides DEF RecordFailure
    <3> QED
      BY <2>1, <3>1 DEF Decides, FailureInv
  <2>7. CASE NodeSaves(n)
    BY <2>1, <2>7, NodeMoves DEF Moves, FailureInv
  <2>8. CASE SendError(n)
    <3>1. errs' # <<>>
      BY <1>1, <2>8 DEF SendError
    <3> QED
      BY <1>1, <2>1, <2>8, <3>1, NodeMoves DEF Moves, FailureInv
  <2> QED
    BY <1>12, <2>2, <2>3, <2>4, <2>5, <2>6, <2>7, <2>8 DEF NodeStep
<1> QED
  BY <1>2, <1>3, <1>4, <1>5, <1>6, <1>7, <1>8, <1>9, <1>10, <1>11, <1>12, StepKinds
     DEF MainStep

LEMMA ReturnStep == ASSUME Inv, [Next]_vars PROVE ReturnInv'
<1> USE DEF Inv
<1>1. /\ pos \in 1..(Size + 1) /\ layer \in 1..(Size + 1)
      /\ layer \in Nat /\ pos \in Nat
  BY DEF TypeOK
<1>2. \A n \in Node : wf[n].layer \in Nat /\ n \in Nat
  BY WorkflowType
<1>3. CASE Restart
  BY <1>3 DEF Restart, ReturnInv
<1>4. CASE Quiet
  BY <1>4 DEF Quiet, layerVars, ReturnInv
<1>5. CASE SkipCompleted \/ SkipNode \/ PauseAtGate \/ StartNode \/ GoOn \/ FinishLayer
  BY <1>5 DEF SkipCompleted, SkipNode, PauseAtGate, StartNode, GoOn, FinishLayer, AtNode,
              ReturnInv
<1>6. CASE ReturnPaused
  <2>1. pos \in fresh
    BY <1>6 DEF ReturnPaused, PhaseInv
  <2> QED
    BY <1>6, <2>1 DEF ReturnPaused, ReturnInv
<1>7. CASE FinishRun
  <2>1. \A n \in Node : wf[n].layer # layer
    BY <1>7 DEF FinishRun, MoreLayers, LayerNodes
  <2>2. pos \notin Node
    <3> SUFFICES ASSUME pos \in Node PROVE FALSE
      OBVIOUS
    <3>1. wf[pos].layer > layer /\ layer >= 1
      BY <1>1, <1>2, <2>1 DEF LoopInv, TypeOK
    <3>2. PICK d \in wf[pos].deps : wf[d].layer = wf[pos].layer - 1
      BY <1>1, <1>2, <3>1, WorkflowType
    <3>3. d \in Node /\ wf[d].layer >= layer /\ wf[d].layer < wf[pos].layer
      BY <1>1, <1>2, <3>1, <3>2, WorkflowType
    <3>4. d < pos
      <4> SUFFICES ASSUME pos <= d PROVE FALSE
        BY <1>1, <1>2, <3>3
      <4>1. pos = d \/ wf[pos].layer <= wf[d].layer
        BY <1>1, <1>2, <3>3, WorkflowType
      <4> QED
        BY <1>1, <1>2, <3>3, <4>1
    <3>5. wf[d].layer <= layer
      BY <3>3, <3>4 DEF LoopInv
    <3> QED
      BY <1>1, <1>2, <2>1, <3>3, <3>5
  <2>3. \A n \in Node : phase[n] = "done" /\ wf[n].layer < layer
    BY <1>1, <1>2, <2>1, <2>2 DEF LoopInv
  <2> QED
    BY <1>7, <2>3 DEF FinishRun, session, layerVars, ReturnInv
<1>8. ASSUME ~Restart, NEW n \in Node, NodeStep(n) PROVE ReturnInv'
  <2>1. /\ UNCHANGED <<wf, proc, layer, firstErr, outcome>> /\ phase[n] # "done"
    BY <1>8, NodeStepPlace
  <2>2. ASSUME NEW m \in fresh, results[m].status = "paused"
        PROVE  m \in fresh' /\ results'[m].status = "paused"
    <3>1. m \in Node /\ phase[m] \in Over
      BY <2>2 DEF TypeOK, PhaseInv
    <3>2. Stays(m) \/ Considered(m) \/ Executed(m)
      BY <1>8, <3>1, NodeChanges
    <3> QED
      BY <2>2, <3>1, <3>2 DEF Stays, Considered, Executed, Executing, Over
  <2> QED
    BY <2>1, <2>2 DEF ReturnInv
<1> QED
  BY <1>3, <1>4, <1>5, <1>6, <1>7, <1>8, StepKinds DEF MainStep

-----------------------------------------------------------------------------
(* Cancellation.                                                           *)

\* Why the nodes of a layer may be cancelled.
Reason(m) == cause[m] = "own" \/ results[m].status = "paused"
StillReason(m) == cause'[m] = "own" \/ results'[m].status = "paused"

LEMMA ReasonsStay ==
    ASSUME Inv, [Next]_vars, ~Restart, NEW m \in Node, Reason(m) PROVE StillReason(m)
<1> USE DEF Inv
<1>1. phase[m] \in Over \cup {"failing"}
  BY DEF PhaseInv, Reason, StillReason, Over
<1>2. ASSUME results[m].status = "paused" PROVE results'[m].status = "paused"
  <2>1. phase[m] \in Over
    BY <1>2 DEF PhaseInv
  <2> QED
    BY <1>2, <2>1, NodeChanges DEF Stays, Considered, Executed, Executing, Over
<1>3. CASE Quiet
  BY <1>3 DEF Quiet, Reason, StillReason
<1>4. CASE SkipNode
  <2>1. pos \in Node /\ phase[pos] = "none"
    BY <1>4 DEF SkipNode, AtNode
  <2> QED
    BY <1>1, <1>4, <2>1, LoopDecides DEF Decides, Reason, StillReason, Over
<1>5. CASE PauseAtGate
  <2>1. pos \in Node /\ phase[pos] = "none"
    BY <1>5 DEF PauseAtGate, AtNode
  <2> QED
    BY <1>1, <1>5, <2>1, LoopDecides DEF Decides, Reason, StillReason, Over
<1>6. CASE SkipCompleted \/ StartNode \/ GoOn \/ ReturnPaused \/ FinishLayer \/ FinishRun
  BY <1>6 DEF SkipCompleted, StartNode, GoOn, ReturnPaused, FinishLayer, FinishRun, Reason, StillReason
<1>7. ASSUME NEW n \in Node, NodeStep(n) PROVE StillReason(m)
  <2>1. CASE NodeStarts(n)
    BY <2>1, NodeMoves DEF Moves, Reason, StillReason
  <2>2. CASE NodePasses(n)
    BY <2>2, NodeMoves DEF Moves, Reason, StillReason
  <2>3. ASSUME NEW o \in OutputOf(n), RecordPass(n, o) PROVE StillReason(m)
    <3>1. phase[n] = "passing"
      BY <2>3 DEF RecordPass, Step
    <3> QED
      BY <1>1, <2>3, <3>1, NodeDecides DEF Decides, Reason, StillReason, Over
  <2>4. ASSUME NEW why \in {"own", "canceled"}, NodeFails(n, why) PROVE StillReason(m)
    <3>1. phase[n] = "running"
      BY <2>4, NodeMoves DEF Moves
    <3> QED
      BY <1>1, <2>4, <3>1, NodeMoves DEF Moves, Reason, StillReason, Over
  <2>5. ASSUME NEW o \in OutputOf(n), RecordFailure(n, o) PROVE StillReason(m)
    <3>1. Decides(n, "failed", cause[n])
      BY <2>5, NodeDecides
    <3> QED
      BY <1>2, <3>1 DEF Decides, Reason, StillReason
  <2>6. CASE NodeSaves(n)
    BY <2>6, NodeMoves DEF Moves, Reason, StillReason
  <2>7. CASE SendError(n)
    BY <2>7, NodeMoves DEF Moves, Reason, StillReason
  <2> QED
    BY <1>7, <2>1, <2>2, <2>3, <2>4, <2>5, <2>6, <2>7 DEF NodeStep
<1> QED
  BY <1>3, <1>4, <1>5, <1>6, <1>7, StepKinds DEF MainStep

\* A layer is cancelled by a node of it that fails by itself, or by its gate;
\* a node is cancelled in a cancelled layer.
LEMMA CancelChanges ==
    ASSUME Inv, [Next]_vars, ~Restart
    PROVE  /\ wf' = wf
           /\ cancelled' => \/ cancelled /\ layer' = layer
                            \/ \E m \in Node : wf[m].layer = layer' /\ StillReason(m)
           /\ \A n \in Node : cause'[n] = "canceled" =>
                    cause[n] = "canceled" \/ (cancelled /\ wf[n].layer = layer)
<1> DEFINE Goal == /\ wf' = wf
                   /\ cancelled' => \/ cancelled /\ layer' = layer
                                    \/ \E m \in Node : wf[m].layer = layer' /\ StillReason(m)
                   /\ \A n \in Node : cause'[n] = "canceled" =>
                            cause[n] = "canceled" \/ (cancelled /\ wf[n].layer = layer)
<1> SUFFICES Goal
  OBVIOUS
<1> USE DEF Inv
<1>1. CASE Quiet
  BY <1>1 DEF Quiet, layerVars
<1>2. CASE SkipCompleted \/ StartNode \/ GoOn \/ FinishRun
  BY <1>2 DEF SkipCompleted, StartNode, GoOn, FinishRun, session, layerVars
<1>3. CASE SkipNode
  <2>1. pos \in Node /\ UNCHANGED <<wf, layer, cancelled>>
    BY <1>3 DEF SkipNode, AtNode, session, layerVars
  <2> QED
    BY <1>3, <2>1, LoopDecides DEF Decides
<1>4. CASE PauseAtGate
  <2>1. pos \in Node /\ UNCHANGED <<wf, layer, cancelled>>
    BY <1>4 DEF PauseAtGate, AtNode, session, layerVars
  <2> QED
    BY <1>4, <2>1, LoopDecides DEF Decides
<1>5. CASE ReturnPaused
  <2>1. /\ pos \in Node /\ phase[pos] = "saving" /\ results[pos].status = "paused"
        /\ UNCHANGED <<wf, layer, results, cause>>
    BY <1>5 DEF ReturnPaused, FinishSave, session
  <2>2. wf[pos].layer = layer
    <3>1. wf[pos].layer \in Nat /\ layer \in Nat /\ pos \in Nat
      BY <2>1, WorkflowType DEF TypeOK
    <3> QED
      BY <2>1, <3>1 DEF LoopInv
  <2> QED
    BY <2>1, <2>2 DEF StillReason
<1>6. CASE FinishLayer
  BY <1>6 DEF FinishLayer, NewContext, session
<1>7. ASSUME NEW n \in Node, NodeStep(n) PROVE Goal
  <2>1. UNCHANGED <<wf, layer>> /\ wf[n].layer = layer
    BY <1>7, NodeStepPlace
  <2>2. CASE NodeStarts(n)
    BY <2>1, <2>2, NodeMoves
  <2>3. CASE NodePasses(n)
    BY <2>1, <2>3, NodeMoves
  <2>4. ASSUME NEW o \in OutputOf(n), RecordPass(n, o) PROVE Goal
    <3>1. Decides(n, "passed", "none") /\ cancelled' = cancelled
      BY <2>4, NodeDecides DEF RecordPass
    <3> QED
      BY <2>1, <3>1 DEF Decides
  <2>5. ASSUME NEW why \in {"own", "canceled"}, NodeFails(n, why) PROVE Goal
    <3>1. /\ why = "canceled" => cancelled
          /\ \A m \in Node : cause'[m] = (IF m = n THEN why ELSE cause[m])
      BY <2>5, NodeMoves
    <3> QED
      BY <2>1, <3>1 DEF StillReason
  <2>6. ASSUME NEW o \in OutputOf(n), RecordFailure(n, o) PROVE Goal
    <3>1. Decides(n, "failed", cause[n]) /\ cancelled' = cancelled
      BY <2>6, NodeDecides DEF RecordFailure
    <3> QED
      BY <2>1, <3>1 DEF Decides
  <2>7. CASE NodeSaves(n)
    BY <2>1, <2>7, NodeMoves
  <2>8. CASE SendError(n)
    BY <2>1, <2>8, NodeMoves
  <2> QED
    BY <1>7, <2>2, <2>3, <2>4, <2>5, <2>6, <2>7, <2>8 DEF NodeStep
<1> QED
  BY <1>1, <1>2, <1>3, <1>4, <1>5, <1>6, <1>7, StepKinds DEF MainStep

LEMMA CancelStep == ASSUME Inv, [Next]_vars PROVE CancelInv'
<1> USE DEF Inv
<1>1. CASE Restart
  BY <1>1 DEF Restart, CancelInv, CancellationHasCause
<1>2. CASE ~Restart
  <2>1. /\ cancelled => \E m \in Node : wf[m].layer = layer /\ Reason(m)
        /\ \A n \in Node : cause[n] = "canceled" =>
                \E m \in Node : wf[m].layer = wf[n].layer /\ Reason(m)
    BY DEF CancelInv, CancellationHasCause, Reason
  <2>2. \A m \in Node : Reason(m) => StillReason(m)
    BY <1>2, ReasonsStay
  <2>3. /\ cancelled' => \E m \in Node : wf'[m].layer = layer' /\ StillReason(m)
        /\ \A n \in Node : cause'[n] = "canceled" =>
                \E m \in Node : wf'[m].layer = wf'[n].layer /\ StillReason(m)
    BY <1>2, <2>1, <2>2, CancelChanges
  <2> QED
    BY <2>3 DEF CancelInv, CancellationHasCause, StillReason
<1> QED
  BY <1>1, <1>2

-----------------------------------------------------------------------------
(* The theorems.                                                           *)

LEMMA InitInv == Init => Inv
<1> SUFFICES ASSUME Init PROVE Inv
  OBVIOUS
<1>1. TypeOK
  BY InitType
<1>2. \A n \in Node : n >= 1 /\ wf[n].layer >= 1
  BY <1>1, WorkflowType
<1>3. LoopInv
  BY <1>1, <1>2 DEF Init, LoopInv
<1>4. PhaseInv
  BY NothingType DEF Init, PhaseInv, Over
<1>5. RuleInv /\ FailureInv /\ ReturnInv /\ CancelInv
  BY DEF Init, RuleInv, DecidedByRule, Executing, FailureInv, ReturnInv, CancelInv,
         CancellationHasCause
<1> QED
  BY <1>1, <1>3, <1>4, <1>5 DEF Inv

\* The bookkeeping of the loop and its goroutines, over all sessions of a run:
\* every interleaving, crash and failed save keeps it.
THEOREM LayerRunInvariant == Spec => []Inv
<1>1. Inv /\ [Next]_vars => Inv'
  <2> SUFFICES ASSUME Inv, [Next]_vars PROVE Inv'
    OBVIOUS
  <2>1. TypeOK'
    BY NextType DEF Inv
  <2> QED
    BY <2>1, LoopStep, PhaseStep, RuleStep, FailureStep, ReturnStep, CancelStep DEF Inv
<1> QED
  BY <1>1, InitInv, PTL DEF Spec

\* What a session decides about a node is what trigger_rule and when say, also
\* after all that its siblings and later nodes have done.
THEOREM DecisionsFollowRules == Spec => []DecidedByRule
<1>1. Inv => DecidedByRule
  BY DEF Inv, RuleInv
<1> QED
  BY <1>1, LayerRunInvariant, PTL

LEMMA PassedIsClean == Inv => NoFailureIsSwallowed
<1> SUFFICES ASSUME Inv, proc = "returned", outcome = "passed", NEW n \in Node
             PROVE  /\ results[n].status \in {"passed", "skipped"}
                    /\ runState.nodes[n].status = results[n].status
  BY DEF NoFailureIsSwallowed
<1>1. /\ \A m \in Node : phase[m] = "done" /\ wf[m].layer < layer
      /\ firstErr = NoNode
  BY DEF Inv, ReturnInv
<1>2. pos \notin Node
  BY <1>1, WorkflowType DEF Inv, LoopInv, TypeOK
<1>3. results[n].status \in ResultStatus
  BY DEF Inv, TypeOK, NodeResult
<1>4. results[n].status \notin {"none", "failed", "paused"}
  BY <1>1, <1>2 DEF Inv, PhaseInv, FailureInv, Over
<1> QED
  BY <1>1, <1>3, <1>4 DEF Inv, PhaseInv, Over, ResultStatus

\* A run that is reported as passed has no failed node.
THEOREM FailuresAreReported == Spec => []NoFailureIsSwallowed
BY PassedIsClean, LayerRunInvariant, PTL

\* A run that does not stop at a gate executes its all_done nodes.
THEOREM AllDoneHolds == Spec => []AllDoneRuns
<1>1. Inv => AllDoneRuns
  <2> SUFFICES ASSUME Inv, NEW n \in Node, proc = "returned",
                      \A m \in fresh : results[m].status # "paused",
                      wf[n].trigger = "all_done", wf[n].when.op = "empty"
               PROVE  results[n].status \in {"passed", "failed"}
    BY DEF AllDoneRuns
  <2>1. phase[n] = "done"
    BY DEF Inv, ReturnInv
  <2>2. results[n].status \in ResultStatus
    BY DEF Inv, TypeOK, NodeResult
  <2>3. results[n].status \notin {"none", "paused", "skipped"}
    BY <2>1 DEF Inv, PhaseInv, RuleInv, Over
  <2> QED
    BY <2>2, <2>3 DEF ResultStatus
<1> QED
  BY <1>1, LayerRunInvariant, PTL

\* Nothing outside a node's layer cancels it.
THEOREM CancellationsAreLocal == Spec => []CancellationHasCause
<1>1. Inv => CancellationHasCause
  BY DEF Inv, CancelInv
<1> QED
  BY <1>1, LayerRunInvariant, PTL

-----------------------------------------------------------------------------
(* What the refinement of WorkflowRun needs beyond Inv.                    *)

\* Which node a state names as paused after a mark.
LEMMA MarksNamePause ==
    ASSUME NEW rs \in RunStates, NEW n \in Node, NEW o \in Output, NamesPause(rs)
    PROVE  /\ NamesPause(MarkPassed(rs, n, o))
           /\ NamesPause(MarkFailed(rs, n, o))
           /\ NamesPause(MarkSkipped(rs, n))
           /\ (\A m \in Node : rs.nodes[m].status # "paused") => NamesPause(MarkPaused(rs, n))
<1>1. /\ MarkFailed(rs, n, o).paused = rs.paused
      /\ MarkSkipped(rs, n).paused = rs.paused
      /\ MarkPaused(rs, n).paused = n
      /\ MarkPassed(rs, n, o).paused = IF rs.paused = n THEN NoNode ELSE rs.paused
  BY DEF MarkFailed, MarkSkipped, MarkPaused, MarkPassed, RunStates
<1> QED
  BY <1>1, MarksEffect DEF NamesPause

\* An approval leaves no node paused.
LEMMA ApprovePause ==
    ASSUME NEW rs \in RunStates, NEW n \in Node, NamesPause(rs), CanApprove(rs, n)
    PROVE  /\ With("paused", Approve(rs, n)) = {}
           /\ With("passed", Approve(rs, n)) = With("passed", rs) \cup {n}
<1>1. \A m \in Node : Approve(rs, n).nodes[m].status =
            IF m = n THEN "passed" ELSE rs.nodes[m].status
  BY DEF Approve, RunStates, NodeState
<1> QED
  BY <1>1 DEF With, NamesPause, CanApprove

LEMMA NewRunMarks ==
    /\ \A n \in Node : NewRun.nodes[n].status = "none"
    /\ NamesPause(NewRun)
    /\ With("passed", NewRun) = {}
    /\ With("paused", NewRun) = {}
BY DEF NewRun, Unmarked, NamesPause, With

LEMMA SessionStep == ASSUME Inv, RefinementInv, [Next]_vars PROVE SessionInv'
<1> USE DEF RefinementInv
<1>1. sessions \in Nat
  BY DEF Inv, TypeOK
<1>2. CASE Run \/ Resume
  BY <1>1, <1>2 DEF Run, Resume, EnterEngine, NewMemory, SessionInv
<1>3. CASE Crash \/ Exit
  BY <1>1, <1>3 DEF Crash, Exit, Die, NewMemory, session, SessionInv
<1>4. CASE (\E n \in Node : ApproveGate(n)) \/ SaveApproval \/ UNCHANGED vars
  BY <1>4 DEF ApproveGate, SaveApproval, vars, session, SessionInv
<1>5. CASE MainStep
  <2>1. proc = "running" /\ sessions' = sessions
    BY <1>5 DEF MainStep, SkipCompleted, SkipNode, StartNode, PauseAtGate, GoOn, ReturnPaused,
                FinishLayer, FinishRun, AtNode, session
  <2>2. \/ proc' = proc /\ outcome' = outcome
        \/ proc' = "returned" /\ outcome' \in {"passed", "failed", "paused"}
    BY <1>5 DEF MainStep, SkipCompleted, SkipNode, StartNode, PauseAtGate, GoOn, ReturnPaused,
                FinishLayer, FinishRun
  <2> QED
    BY <1>1, <2>1, <2>2 DEF SessionInv
<1>6. ASSUME NEW n \in Node, NodeStep(n) PROVE SessionInv'
  <2>1. /\ phase[n] # "none"
        /\ UNCHANGED <<proc, outcome, sessions>>
    BY <1>6 DEF NodeStep, NodeStarts, NodePasses, RecordPass, NodeFails, RecordFailure,
                NodeSaves, SendError, Step, session
  <2> QED
    BY <2>1 DEF SessionInv
<1> QED
  BY <1>2, <1>3, <1>4, <1>5, <1>6 DEF Next

\* No gate is paused while the loop is at a node.
LEMMA NothingPausedYet ==
    ASSUME Inv, RefinementInv, AtNode
    PROVE  \A m \in Node : runState.nodes[m].status # "paused"
BY DEF Inv, RefinementInv, MemoryInv, PhaseInv, AtNode, Over

\* What a step does to the marks that MemoryInv and SavedInv speak of.
LEMMA MemoryOfDecision ==
    ASSUME Inv, RefinementInv, NEW n \in Node, NEW status, NEW why, Decides(n, status, why),
           NamesPause(runState')
    PROVE  MemoryInv'
<1>1. \A m \in Node : phase'[m] \notin Over => m # n
  BY DEF Decides, Over
<1>2. \A m \in Node : phase'[m] \in Executing => m # n
  BY DEF Decides, Executing
<1> QED
  BY <1>1, <1>2 DEF Decides, RefinementInv, MemoryInv

LEMMA MemoryOfMove ==
    ASSUME Inv, RefinementInv, NEW n \in Node, NEW from, NEW to, Moves(n, from, to),
           from \in Over => to \in Over,
           to \in Executing => from \in Executing
    PROVE  MemoryInv'
BY DEF Moves, RefinementInv, MemoryInv, Over, Executing

LEMMA MemoryStep == ASSUME Inv, RefinementInv, [Next]_vars PROVE MemoryInv'
<1>1. runState \in RunStates /\ file \in RunStates /\ NoOutput \in Output
  BY DEF Inv, TypeOK
<1>2. CASE Run \/ Crash \/ Exit
  <2>1. runState' = NewRun /\ results' = Nothing /\ phase' = [n \in Node |-> "none"]
    BY <1>2 DEF Run, Crash, Exit, Die, EnterEngine, NewMemory
  <2> QED
    BY <2>1, NewRunMarks DEF MemoryInv, Nothing, NoResult, Over, Executing
<1>3. CASE Resume
  <2>1. /\ runState' = file /\ results' = InitialResults(file) /\ file.paused = NoNode
        /\ phase' = [n \in Node |-> "none"] /\ NamesPause(file)
    BY <1>3 DEF Resume, EnterEngine, NewMemory, RefinementInv, SavedInv
  <2>2. \A n \in Node : file.nodes[n].status # "paused"
    BY <2>1 DEF NamesPause
  <2>3. \A n \in Node : InitialResults(file)[n].status = "passed" <=> file.nodes[n].status = "passed"
    BY <1>1 DEF InitialResults, SnapshotsFromState, NoResult, RunStates
  <2> QED
    BY <2>1, <2>2, <2>3 DEF MemoryInv, Over, Executing
<1>4. CASE (\E n \in Node : ApproveGate(n)) \/ SaveApproval \/ UNCHANGED vars
  BY <1>4 DEF ApproveGate, SaveApproval, vars, storage, RefinementInv, MemoryInv
<1>5. CASE SkipCompleted
  <2>1. /\ pos \in Node /\ results[pos].status = "passed" /\ PhaseTo(pos, "saving")
        /\ runState' = MarkPassed(runState, pos, results[pos].output)
        /\ results' = results
    BY <1>5 DEF SkipCompleted, AtNode, Completed, Emit
  <2>2. results[pos].output \in Output
    BY <2>1 DEF Inv, TypeOK, NodeResult
  <2>3. NamesPause(runState')
    BY <1>1, <2>1, <2>2, MarksNamePause DEF RefinementInv, MemoryInv
  <2>4. \A m \in Node :
            /\ phase'[m] = (IF m = pos THEN "saving" ELSE phase[m])
            /\ runState'.nodes[m].status = (IF m = pos THEN "passed" ELSE runState.nodes[m].status)
    BY <1>1, <2>1, <2>2, MarksEffect, PhaseEffect DEF Inv
  <2> QED
    BY <2>1, <2>3, <2>4 DEF RefinementInv, MemoryInv, Over, Executing
<1>6. CASE SkipNode
  <2>1. pos \in Node /\ runState' = MarkSkipped(runState, pos)
    BY <1>6 DEF SkipNode, AtNode, Emit
  <2>2. NamesPause(runState')
    BY <1>1, <2>1, MarksNamePause DEF RefinementInv, MemoryInv
  <2>3. Decides(pos, "skipped", "none")
    BY <1>6, <2>1, LoopDecides DEF Inv
  <2> QED
    BY <2>1, <2>2, <2>3, MemoryOfDecision
<1>7. CASE PauseAtGate
  <2>1. pos \in Node /\ runState' = MarkPaused(runState, pos) /\ AtNode
    BY <1>7 DEF PauseAtGate, AtNode, Emit
  <2>2. NamesPause(runState')
    BY <1>1, <2>1, MarksNamePause, NothingPausedYet DEF RefinementInv, MemoryInv
  <2>3. Decides(pos, "paused", "none")
    BY <1>7, <2>1, LoopDecides DEF Inv
  <2> QED
    BY <2>1, <2>2, <2>3, MemoryOfDecision
<1>8. CASE StartNode
  <2>1. /\ pos \in Node /\ PhaseTo(pos, "spawned") /\ phase[pos] = "none"
        /\ results[pos].status # "passed"
        /\ UNCHANGED <<results, runState>>
    BY <1>8 DEF StartNode, AtNode, Completed, storage
  <2>2. \A m \in Node : phase'[m] = IF m = pos THEN "spawned" ELSE phase[m]
    BY <2>1, PhaseEffect DEF Inv
  <2> QED
    BY <2>1, <2>2 DEF RefinementInv, MemoryInv, Over, Executing
<1>9. CASE GoOn \/ ReturnPaused
  <2>1. pos \in Node /\ PhaseTo(pos, "done") /\ UNCHANGED <<results, runState>>
        /\ phase[pos] = "saving"
    BY <1>9 DEF GoOn, ReturnPaused, FinishSave
  <2>2. \A m \in Node : phase'[m] = IF m = pos THEN "done" ELSE phase[m]
    BY <2>1, PhaseEffect DEF Inv
  <2> QED
    BY <2>1, <2>2 DEF RefinementInv, MemoryInv, Over, Executing
<1>10. CASE FinishLayer \/ FinishRun
  BY <1>10 DEF FinishLayer, FinishRun, storage, RefinementInv, MemoryInv
<1>11. ASSUME NEW n \in Node, NodeStep(n) PROVE MemoryInv'
  <2>1. ASSUME NEW o \in OutputOf(n), RecordPass(n, o) PROVE MemoryInv'
    <3>1. runState' = MarkPassed(runState, n, o) /\ o \in Output
      BY <2>1 DEF RecordPass, Emit, OutputOf
    <3>2. NamesPause(runState')
      BY <1>1, <3>1, MarksNamePause DEF RefinementInv, MemoryInv
    <3>3. Decides(n, "passed", "none")
      BY <2>1, NodeDecides DEF Inv
    <3> QED
      BY <3>2, <3>3, MemoryOfDecision
  <2>2. ASSUME NEW o \in OutputOf(n), RecordFailure(n, o) PROVE MemoryInv'
    <3>1. runState' = MarkFailed(runState, n, o) /\ o \in Output
      BY <2>2 DEF RecordFailure, Emit, OutputOf
    <3>2. NamesPause(runState')
      BY <1>1, <3>1, MarksNamePause DEF RefinementInv, MemoryInv
    <3>3. Decides(n, "failed", cause[n])
      BY <2>2, NodeDecides DEF Inv
    <3> QED
      BY <3>2, <3>3, MemoryOfDecision
  <2>3. CASE NodeStarts(n)
    BY <2>3, NodeMoves, MemoryOfMove DEF Inv, Over, Executing
  <2>4. CASE NodePasses(n)
    BY <2>4, NodeMoves, MemoryOfMove DEF Inv, Over, Executing
  <2>5. ASSUME NEW why \in {"own", "canceled"}, NodeFails(n, why) PROVE MemoryInv'
    BY <2>5, NodeMoves, MemoryOfMove DEF Inv, Over, Executing
  <2>6. CASE NodeSaves(n)
    <3>1. PICK to \in {"sending", "done"} : Moves(n, "saving", to)
      BY <2>6, NodeMoves DEF Inv
    <3> QED
      BY <3>1, MemoryOfMove DEF Over, Executing
  <2>7. CASE SendError(n)
    BY <2>7, NodeMoves, MemoryOfMove DEF Inv, Over, Executing
  <2> QED
    BY <1>11, <2>1, <2>2, <2>3, <2>4, <2>5, <2>6, <2>7 DEF NodeStep
<1> QED
  BY <1>2, <1>3, <1>4, <1>5, <1>6, <1>7, <1>8, <1>9, <1>10, <1>11 DEF Next, MainStep

\* A decision takes no pass and no pause out of the state in memory.
LEMMA DecisionsAdd ==
    ASSUME Inv, RefinementInv, NEW n \in Node, NEW status, NEW why, Decides(n, status, why),
           phase[n] \notin Over, results[n].status # "passed"
    PROVE  /\ With("passed", runState) \subseteq With("passed", runState')
           /\ With("paused", runState) \subseteq With("paused", runState')
BY DEF Decides, With, RefinementInv, MemoryInv

LEMMA SavedOfEmit ==
    ASSUME Inv, RefinementInv, NEW n \in Node, NEW rs, Emit(n, rs), approval' = approval,
           NamesPause(rs),
           With("passed", runState) \subseteq With("passed", rs),
           With("paused", runState) \subseteq With("paused", rs)
    PROVE  SavedInv'
<1>1. \A m \in Node : pending'[m] = IF m = n THEN rs ELSE pending[m]
  BY DEF Emit, Inv, TypeOK
<1>2. runState' = rs /\ file' = file
  BY DEF Emit
<1>3. ASSUME NEW m \in Node, pending'[m] # NoSave
      PROVE  /\ NamesPause(pending'[m])
             /\ With("passed", pending'[m]) \subseteq With("passed", rs)
             /\ With("paused", pending'[m]) \subseteq With("paused", rs)
  <2>1. CASE m = n
    BY <1>1, <2>1
  <2>2. CASE m # n
    BY <1>1, <1>3, <2>2 DEF RefinementInv, SavedInv
  <2> QED
    BY <2>1, <2>2
<1>4. NamesPause(file') /\ (approval' # NoApproval => With("paused", approval'.copy) = {})
  BY <1>2 DEF RefinementInv, SavedInv
<1>5. \A m \in Node : pending'[m] # NoSave =>
            /\ NamesPause(pending'[m])
            /\ With("passed", pending'[m]) \subseteq With("passed", runState')
            /\ With("paused", pending'[m]) \subseteq With("paused", runState')
  BY <1>2, <1>3
<1> QED
  BY <1>4, <1>5 DEF SavedInv, NamesPause, With

\* What waited for its rename comes from memory, and so does the file after it.
LEMMA RenameEffect ==
    ASSUME Inv, RefinementInv, NEW n \in Node, FinishSave(n)
    PROVE  /\ runState' = runState
           /\ NamesPause(file')
           /\ With("passed", file') \subseteq With("passed", file) \cup With("passed", runState)
           /\ With("paused", file') \subseteq With("paused", file) \cup With("paused", runState)
           /\ \A m \in Node : pending'[m] # NoSave => pending'[m] = pending[m]
<1>1. pending[n] # NoSave
  BY DEF FinishSave, Inv, TypeOK
<1>2. runState' = runState /\ file' \in {file, pending[n]}
  BY DEF FinishSave
<1>3. /\ NamesPause(file) /\ NamesPause(pending[n])
      /\ With("passed", pending[n]) \subseteq With("passed", runState)
      /\ With("paused", pending[n]) \subseteq With("paused", runState)
  BY <1>1 DEF RefinementInv, SavedInv
<1>4. \A m \in Node : pending'[m] # NoSave => pending'[m] = pending[m]
  BY DEF FinishSave, Inv, TypeOK
<1> QED
  BY <1>2, <1>3, <1>4

LEMMA SavedOfRename ==
    ASSUME Inv, RefinementInv, NEW n \in Node, FinishSave(n), approval' = approval
    PROVE  SavedInv'
<1>1. /\ runState' = runState /\ NamesPause(file')
      /\ \A m \in Node : pending'[m] # NoSave => pending'[m] = pending[m]
  BY RenameEffect
<1>2. \A m \in Node : pending'[m] # NoSave =>
            /\ NamesPause(pending'[m])
            /\ With("passed", pending'[m]) \subseteq With("passed", runState')
            /\ With("paused", pending'[m]) \subseteq With("paused", runState')
  BY <1>1 DEF RefinementInv, SavedInv
<1>3. approval' # NoApproval => With("paused", approval'.copy) = {}
  BY DEF RefinementInv, SavedInv
<1> QED
  BY <1>1, <1>2, <1>3 DEF SavedInv, NamesPause, With

LEMMA SavedStep == ASSUME Inv, RefinementInv, [Next]_vars PROVE SavedInv'
<1>1. /\ runState \in RunStates /\ file \in RunStates /\ NoOutput \in Output
      /\ NamesPause(runState) /\ NamesPause(file)
  BY DEF Inv, TypeOK, RefinementInv, MemoryInv, SavedInv
<1>2. CASE Run \/ Resume
  <2>1. /\ file' \in {NewRun, file} /\ approval = NoApproval /\ approval' = approval
        /\ pending' = [n \in Node |-> NoSave]
    BY <1>2 DEF Run, Resume, EnterEngine, NewMemory
  <2>2. NamesPause(file')
    BY <1>1, <2>1, NewRunMarks
  <2> QED
    BY <2>1, <2>2 DEF SavedInv, NamesPause
<1>3. CASE Crash \/ Exit
  <2>1. /\ UNCHANGED <<file, approval>>
        /\ pending' = [n \in Node |-> NoSave]
    BY <1>3 DEF Crash, Exit, Die, NewMemory, session
  <2> QED
    BY <2>1 DEF RefinementInv, SavedInv, NamesPause, With
<1>4. ASSUME NEW n \in Node, ApproveGate(n) PROVE SavedInv'
  <2>1. approval' = [gate |-> n, copy |-> Approve(file, n)] /\ UNCHANGED storage /\ CanApprove(file, n)
    BY <1>4 DEF ApproveGate
  <2>2. With("paused", Approve(file, n)) = {}
    BY <1>1, <2>1, ApprovePause
  <2>3. With("paused", approval'.copy) = {}
    BY <2>1, <2>2
  <2> QED
    BY <2>1, <2>3 DEF storage, RefinementInv, SavedInv, NamesPause, With
<1>5. CASE SaveApproval
  <2>1. /\ approval # NoApproval /\ approval' = NoApproval /\ file' \in {file, approval.copy}
        /\ UNCHANGED <<runState, pending>>
    BY <1>5 DEF SaveApproval
  <2>2. NamesPause(approval.copy)
    BY <2>1 DEF RefinementInv, SavedInv, With, NamesPause
  <2>3. NamesPause(file')
    BY <1>1, <2>1, <2>2
  <2> QED
    BY <2>1, <2>3 DEF RefinementInv, SavedInv, NamesPause, With
<1>6. ASSUME UNCHANGED <<storage, approval>> PROVE SavedInv'
  BY <1>6 DEF storage, RefinementInv, SavedInv, NamesPause, With
<1>7. CASE SkipCompleted
  <2>1. /\ pos \in Node /\ approval' = approval /\ phase[pos] = "none"
        /\ Emit(pos, MarkPassed(runState, pos, results[pos].output))
        /\ results[pos].status = "passed"
    BY <1>7 DEF SkipCompleted, AtNode, Completed, session
  <2>2. results[pos].output \in Output
    BY <2>1 DEF Inv, TypeOK, NodeResult
  <2>3. NamesPause(MarkPassed(runState, pos, results[pos].output))
    BY <1>1, <2>1, <2>2, MarksNamePause
  <2>4. runState.nodes[pos].status # "paused"
    BY <2>1 DEF RefinementInv, MemoryInv
  <2>5. \A m \in Node : MarkPassed(runState, pos, results[pos].output).nodes[m].status =
                            (IF m = pos THEN "passed" ELSE runState.nodes[m].status)
    BY <1>1, <2>1, <2>2, MarksEffect
  <2>6. \A status \in {"passed", "paused"} : With(status, runState)
            \subseteq With(status, MarkPassed(runState, pos, results[pos].output))
    BY <2>4, <2>5 DEF With
  <2> QED
    BY <2>1, <2>3, <2>6, SavedOfEmit
<1>8. CASE SkipNode \/ PauseAtGate
  <2>1. PICK rs : /\ pos \in Node /\ Emit(pos, rs) /\ approval' = approval /\ phase[pos] = "none"
                  /\ AtNode /\ rs \in {MarkSkipped(runState, pos), MarkPaused(runState, pos)}
                  /\ results[pos].status # "passed"
    BY <1>8 DEF SkipNode, PauseAtGate, AtNode, Completed, session
  <2>2. NamesPause(rs)
    BY <1>1, <2>1, MarksNamePause, NothingPausedYet
  <2>3. PICK status : Decides(pos, status, "none")
    BY <1>8, <2>1, LoopDecides DEF Inv
  <2>4. /\ With("passed", runState) \subseteq With("passed", runState')
        /\ With("paused", runState) \subseteq With("paused", runState')
    BY <2>1, <2>3, DecisionsAdd DEF Over
  <2>5. runState' = rs
    BY <2>1 DEF Emit
  <2> QED
    BY <2>1, <2>2, <2>4, <2>5, SavedOfEmit
<1>9. ASSUME NEW n \in Node, FinishSave(n), approval' = approval PROVE SavedInv'
  BY <1>9, SavedOfRename
<1>10. ASSUME NEW n \in Node, NEW o \in OutputOf(n), RecordPass(n, o) \/ RecordFailure(n, o)
       PROVE  SavedInv'
  <2>1. PICK rs : /\ Emit(n, rs) /\ approval' = approval
                  /\ rs \in {MarkPassed(runState, n, o), MarkFailed(runState, n, o)}
                  /\ phase[n] \in {"passing", "failing"}
    BY <1>10 DEF RecordPass, RecordFailure, Step, session
  <2>2. o \in Output
    BY DEF OutputOf
  <2>3. NamesPause(rs)
    BY <1>1, <2>1, <2>2, MarksNamePause
  <2>4. PICK status, why : Decides(n, status, why)
    BY <1>10, NodeDecides DEF Inv
  <2>5. phase[n] \notin Over /\ results[n].status # "passed"
    BY <2>1 DEF Over, Executing, RefinementInv, MemoryInv
  <2>6. /\ With("passed", runState) \subseteq With("passed", runState')
        /\ With("paused", runState) \subseteq With("paused", runState')
    BY <2>4, <2>5, DecisionsAdd
  <2>7. runState' = rs
    BY <2>1 DEF Emit
  <2> QED
    BY <2>1, <2>3, <2>6, <2>7, SavedOfEmit
<1>11. ASSUME StartNode \/ FinishLayer \/ FinishRun \/ UNCHANGED vars PROVE SavedInv'
  BY <1>6, <1>11 DEF StartNode, FinishLayer, FinishRun, vars, session
<1>12. ASSUME GoOn \/ ReturnPaused PROVE SavedInv'
  BY <1>9, <1>12 DEF GoOn, ReturnPaused, session
<1>13. ASSUME NEW n \in Node, NodeStep(n) PROVE SavedInv'
  BY <1>6, <1>9, <1>10, <1>13 DEF NodeStep, NodeStarts, NodePasses, NodeFails, NodeSaves,
     SendError, Step, session
<1> QED
  BY <1>2, <1>3, <1>4, <1>5, <1>7, <1>8, <1>11, <1>12, <1>13 DEF Next, MainStep

\* A node that failed stays failed, and decided, for the rest of the session.
Failed(n) == n \in fresh /\ results[n].status = "failed"
StillFailed(n) == n \in fresh' /\ results'[n].status = "failed"

LEMMA FailuresStay ==
    ASSUME Inv, [Next]_vars, ~Restart, NEW n \in Node, Failed(n)
    PROVE  StillFailed(n)
<1>1. Stays(n) \/ Considered(n) \/ Executed(n)
  BY NodeChanges
<1>2. phase[n] \in Over
  BY DEF Inv, PhaseInv, Failed
<1> QED
  BY <1>1, <1>2 DEF Stays, Considered, Executed, Failed, StillFailed, Over, Executing

LEMMA ErrorStep == ASSUME Inv, RefinementInv, [Next]_vars PROVE ErrorInv'
<1>1. CASE Restart
  BY <1>1 DEF Restart, ErrorInv
<1>2. ASSUME ~Restart, NEW n \in Node, phase'[n] = "sending" PROVE results'[n].status = "failed"
  <2>1. Stays(n)
    BY <1>2, NodeChanges DEF Considered, Executed
  <2>2. phase[n] = "sending" \/ NodeSaves(n)
    <3>1. CASE MainStep
      BY <1>2, <3>1, PhaseEffect DEF Inv, MainStep, SkipCompleted, SkipNode, StartNode,
         PauseAtGate, GoOn, ReturnPaused, FinishLayer, FinishRun, AtNode
    <3>2. ASSUME NEW k \in Node, NodeStep(k) PROVE phase[n] = "sending" \/ NodeSaves(n)
      BY <1>2, <3>2, PhaseEffect DEF Inv, NodeStep, NodeStarts, NodePasses, RecordPass, NodeFails,
         RecordFailure, NodeSaves, SendError, Step
    <3>3. CASE Quiet
      BY <1>2, <3>3 DEF Quiet
    <3> QED
      BY <1>2, <3>1, <3>2, <3>3, StepKinds DEF Inv
  <2>3. CASE NodeSaves(n)
    BY <1>2, <2>1, <2>3, NodeMoves DEF Inv, Moves, Stays
  <2> QED
    BY <2>1, <2>2, <2>3 DEF Stays, RefinementInv, ErrorInv
<1>3. ASSUME ~Restart, errs' # <<>> \/ (proc' = "running" /\ firstErr' # NoNode)
      PROVE  \E n \in Node : Failed(n)
  <2>1. CASE errs # <<>> \/ (proc = "running" /\ firstErr # NoNode)
    BY <2>1 DEF RefinementInv, ErrorInv, Failed, Inv, TypeOK
  <2>2. CASE ~(errs # <<>> \/ (proc = "running" /\ firstErr # NoNode))
    <3>1. \E n \in Node : SendError(n)
      <4>1. CASE MainStep
        BY <1>3, <2>2, <4>1 DEF MainStep, SkipCompleted, SkipNode, StartNode, PauseAtGate,
           GoOn, ReturnPaused, FinishLayer, FinishRun, AtNode, FirstError, layerVars
      <4>2. ASSUME NEW k \in Node, NodeStep(k) PROVE SendError(k)
        BY <1>3, <2>2, <4>2 DEF NodeStep, NodeStarts, NodePasses, RecordPass, NodeFails,
           RecordFailure, NodeSaves, Step
      <4>3. CASE Quiet
        BY <1>3, <2>2, <4>3 DEF Quiet, layerVars
      <4> QED
        BY <1>3, <4>1, <4>2, <4>3, StepKinds DEF Inv
    <3>2. PICK n \in Node : phase[n] = "sending"
      BY <3>1 DEF SendError, Step
    <3>3. results[n].status = "failed"
      BY <3>2 DEF RefinementInv, ErrorInv
    <3> QED
      BY <3>2, <3>3 DEF Inv, PhaseInv, Over, Failed
  <2> QED
    BY <2>1, <2>2
<1>4. ASSUME ~Restart, errs' # <<>> \/ (proc' = "running" /\ firstErr' # NoNode)
      PROVE  \E n \in fresh' : results'[n].status = "failed"
  <2>1. PICK n \in Node : Failed(n)
    BY <1>3, <1>4
  <2>2. StillFailed(n)
    BY <1>4, <2>1, FailuresStay
  <2> QED
    BY <2>2 DEF StillFailed
<1> QED
  BY <1>1, <1>2, <1>4 DEF ErrorInv

LEMMA InitRefinement == Init => RefinementInv
<1> SUFFICES ASSUME Init PROVE RefinementInv
  OBVIOUS
<1>1. SessionInv /\ ErrorInv
  BY DEF Init, SessionInv, ErrorInv
<1>2. MemoryInv /\ SavedInv
  BY NewRunMarks DEF Init, MemoryInv, SavedInv, Nothing, NoResult, Over, Executing
<1> QED
  BY <1>1, <1>2 DEF RefinementInv

LEMMA RefinementStep == ASSUME Inv, RefinementInv, [Next]_vars PROVE RefinementInv'
BY SessionStep, MemoryStep, SavedStep, ErrorStep DEF RefinementInv

LEMMA RefinementInvariant == Spec => []RefinementInv
BY InitRefinement, RefinementStep, LayerRunInvariant, PTL DEF Spec

-----------------------------------------------------------------------------
(* LayerRun implements WorkflowRun.                                        *)

\* A step WorkflowRun sees nothing of but what is kept, recorded and asked.
LEMMA QuietWork ==
    ASSUME UNCHANGED <<Plan, Verdict, Decided, AtWork>>, Abstract!Keep
    PROVE  Abstract!Work
BY DEF Abstract!Work, Abstract!Decide, Abstract!Conclude

LEMMA MarkKeeps ==
    ASSUME UNCHANGED <<file, approval>>,
           With("passed", runState') \subseteq
               With("passed", runState) \cup {n \in Node : Decided'[n] \in {"passed", "trusted"}},
           With("paused", runState') \subseteq
               With("paused", runState) \cup {n \in Node : Decided'[n] = "paused"}
    PROVE  Abstract!Keep
BY DEF Kept, Asked, With, Abstract!Keep, Abstract!Done

LEMMA RenameKeeps ==
    ASSUME Inv, RefinementInv, NEW n \in Node, FinishSave(n), approval' = approval
    PROVE  Abstract!Keep
<1>1. /\ runState' = runState
      /\ With("passed", file') \subseteq With("passed", file) \cup With("passed", runState)
      /\ With("paused", file') \subseteq With("paused", file) \cup With("paused", runState)
  BY RenameEffect
<1> QED
  BY <1>1 DEF Kept, Asked, With, Abstract!Keep, Abstract!Done

\* A decision of the model is one of WorkflowRun.
LEMMA DecisionView ==
    ASSUME Inv, NEW n \in Node, NEW status, NEW why, Decides(n, status, why)
    PROVE  /\ Decided' = [Decided EXCEPT ![n] = status]
           /\ Decided'[n] = status
           /\ AtWork' = AtWork \ {n}
<1>1. \A m \in Node : Decided'[m] = IF m = n THEN status ELSE Decided[m]
  BY DEF Decides, Decided
<1>2. AtWork' = AtWork \ {n}
  BY DEF Decides, AtWork, Executing
<1> QED
  BY <1>1, <1>2 DEF Decided

LEMMA DecisionKeeps ==
    ASSUME Inv, NEW n \in Node, NEW status, NEW why, Decides(n, status, why),
           UNCHANGED <<file, approval>>
    PROVE  Abstract!Keep
<1>1. Decided'[n] = status
  BY DecisionView
<1>2. /\ With("passed", runState') \subseteq
             With("passed", runState) \cup {m \in Node : Decided'[m] \in {"passed", "trusted"}}
      /\ With("paused", runState') \subseteq
             With("paused", runState) \cup {m \in Node : Decided'[m] = "paused"}
  BY <1>1 DEF Decides, With
<1> QED
  BY <1>2, MarkKeeps

\* The node the loop is at is considered in the sense of WorkflowRun: what it
\* depends on was decided in an earlier layer, or is trusted.
LEMMA NodeIsConsidered ==
    ASSUME Inv, RefinementInv, AtNode, ~Completed
    PROVE  /\ Abstract!Considered(pos)
           /\ ShouldRun(wf[pos], results) => Abstract!Triggered(pos)
           /\ Plan[pos].gate <=> wf[pos].kind = "human_gate"
<1>1. pos \in Node /\ phase[pos] = "none" /\ wf[pos].layer = layer /\ proc = "running"
  BY DEF AtNode
<1>2. /\ Plan[pos].deps = wf[pos].deps /\ Plan[pos].trigger = wf[pos].trigger
      /\ Plan[pos].gate <=> wf[pos].kind = "human_gate"
  BY <1>1 DEF Plan
<1>3. Verdict = "open" /\ pos \notin AtWork /\ Decided[pos] = "none"
  <2>1. Verdict = "open"
    BY <1>1 DEF RefinementInv, SessionInv, Verdict, Inv, TypeOK
  <2>2. pos \notin fresh
    BY <1>1 DEF Inv, PhaseInv, Over
  <2> QED
    BY <1>1, <2>1, <2>2 DEF AtWork, Executing, Decided, Completed
<1>4. ASSUME NEW d \in wf[pos].deps
      PROVE  /\ d \in Node /\ d \notin AtWork
             /\ Decided[d] \in {"passed", "trusted", "failed", "skipped"}
             /\ Decided[d] \in {"passed", "trusted"} <=> results[d].status = "passed"
  <2>1. d \in Node /\ wf[d].layer < wf[pos].layer
    BY <1>1, WorkflowType DEF Inv
  <2>2. phase[d] = "done"
    BY <1>1, <2>1, EarlierIsDone DEF Inv
  <2>3. d # pos
    BY <1>1, <2>2
  <2>4. /\ results[d].status \in {"passed", "failed", "skipped"}
        /\ d \in fresh \/ results[d].status = "passed"
    <3>1. results[d].status \in ResultStatus
      BY <2>1 DEF Inv, TypeOK, NodeResult
    <3> QED
      BY <2>1, <2>2, <2>3, <3>1 DEF Inv, PhaseInv, Over, ResultStatus
  <2> QED
    BY <2>1, <2>2, <2>4 DEF AtWork, Executing, Decided
<1>5. Abstract!Considered(pos)
  BY <1>2, <1>3, <1>4 DEF Abstract!Considered, Abstract!Done
<1>6. ASSUME ShouldRun(wf[pos], results) PROVE Abstract!Triggered(pos)
  <2>1. {d \in Plan[pos].deps : Decided[d] \in Abstract!Done}
            = {d \in wf[pos].deps : results[d].status = "passed"}
    BY <1>2, <1>4 DEF Abstract!Done
  <2>2. Documented(pos)
    BY <1>1, <1>6, ReadyAsDocumented DEF ShouldRun, Inv
  <2> QED
    BY <1>2, <2>1, <2>2 DEF Documented, Abstract!Triggered
<1> QED
  BY <1>2, <1>5, <1>6

LEMMA InitRefines == Init => Abstract!Init
<1> SUFFICES ASSUME Init PROVE Abstract!Init
  OBVIOUS
<1>1. wf \in [Node -> LayeredConf]
  BY InitType, WorkflowsAssumption DEF TypeOK
<1>2. \A n \in Node : wf[n].deps \subseteq Node /\ wf[n].trigger \in TriggerRule
  <2>1. \A n \in Node : wf[n] \in LayeredConf
    BY <1>1
  <2> QED
    BY <2>1 DEF LayeredConf
<1>3. Plan \in [Node -> [gate : BOOLEAN, deps : SUBSET Node,
                         trigger : {"all_success", "one_success", "all_done"}]]
  BY <1>2 DEF Plan, TriggerRule
<1>4. Verdict = "unstarted" /\ AtWork = {}
  BY DEF Init, Verdict, AtWork, Executing
<1>5. Decided = [n \in Node |-> "none"]
  BY DEF Init, Decided, Nothing, NoResult
<1>6. With("passed", file) = {} /\ Kept = {} /\ Asked = {}
  BY NewRunMarks DEF Init, Kept, Asked
<1> QED
  BY <1>3, <1>4, <1>5, <1>6 DEF Abstract!Init

LEMMA EnterRefines ==
    ASSUME Inv, RefinementInv, NEW initial, EnterEngine(initial), Asked' = {}
    PROVE  Abstract!Enter([n \in Node |-> IF initial[n].status = "passed" THEN "trusted" ELSE "none"])
<1>1. /\ proc = "off" /\ sessions' = sessions + 1 /\ wf' = wf /\ sessions \in Nat
      /\ outcome' = "none" /\ results' = initial /\ fresh' = {}
      /\ phase' = [n \in Node |-> "none"]
  BY DEF EnterEngine, NewMemory, Inv, TypeOK
<1>2. Verdict' = "open" /\ AtWork' = {} /\ Plan' = Plan
  BY <1>1 DEF Verdict, AtWork, Executing, Plan
<1>3. Decided' = [n \in Node |-> IF initial[n].status = "passed" THEN "trusted" ELSE "none"]
  BY <1>1 DEF Decided
<1>4. Verdict # "open" /\ AtWork = {}
  BY <1>1 DEF RefinementInv, SessionInv, Verdict, AtWork, Executing, Inv, TypeOK
<1> QED
  BY <1>2, <1>3, <1>4 DEF Abstract!Enter

LEMMA RunRefines == ASSUME Inv, RefinementInv, Run PROVE Abstract!Begin
<1>1. /\ runState' = NewRun /\ file' = NewRun /\ approval' = NoApproval
      /\ EnterEngine(Nothing)
  BY DEF Run, EnterEngine
<1>2. Asked' = {} /\ Kept' = {} /\ With("passed", file)' = {}
  BY <1>1, NewRunMarks DEF Asked, Kept, With
<1>3. [n \in Node |-> IF Nothing[n].status = "passed" THEN "trusted" ELSE "none"]
          = [n \in Node |-> "none"]
  BY DEF Nothing, NoResult
<1>4. Abstract!Enter([n \in Node |-> "none"])
  BY <1>1, <1>2, <1>3, EnterRefines
<1> QED
  BY <1>2, <1>4 DEF Abstract!Begin

\* Resume trusts exactly the recorded passes.
LEMMA ResumeRefines == ASSUME Inv, RefinementInv, Resume PROVE Abstract!Resume
<1>1. /\ runState' = file /\ file' = file /\ file.paused = NoNode /\ file \in RunStates
      /\ sessions > 0 /\ approval' = NoApproval /\ EnterEngine(InitialResults(file))
  BY DEF Resume, EnterEngine, Inv, TypeOK
<1>2. With("paused", file) = {}
  BY <1>1 DEF With, RefinementInv, SavedInv, NamesPause
<1>3. /\ Asked' = {} /\ Kept' = With("passed", file)
      /\ With("passed", file)' = With("passed", file)
  BY <1>1, <1>2 DEF Asked, Kept, With
<1>4. [n \in Node |-> IF InitialResults(file)[n].status = "passed" THEN "trusted" ELSE "none"]
          = [n \in Node |-> IF n \in With("passed", file) THEN "trusted" ELSE "none"]
  <2>1. \A n \in Node : InitialResults(file)[n].status = "passed" <=> n \in With("passed", file)
    BY <1>1 DEF InitialResults, SnapshotsFromState, NoResult, RunStates, With
  <2> QED
    BY <2>1
<1>5. Abstract!Enter([n \in Node |-> IF n \in With("passed", file) THEN "trusted" ELSE "none"])
  BY <1>1, <1>3, <1>4, EnterRefines
<1>6. Verdict # "unstarted"
  BY <1>1 DEF Verdict, Inv, TypeOK
<1> QED
  BY <1>3, <1>5, <1>6 DEF Abstract!Resume

\* approve reads: the gate it asks about is one that has asked.
LEMMA ReadRefines ==
    ASSUME Inv, RefinementInv, NEW n \in Node, ApproveGate(n)
    PROVE  Abstract!Work
<1>1. /\ approval = NoApproval /\ approval' = [gate |-> n, copy |-> Approve(file, n)]
      /\ UNCHANGED <<wf, proc, outcome, sessions, phase, results, fresh, runState, file>>
      /\ file \in RunStates /\ CanApprove(file, n) /\ NamesPause(file)
      /\ approval' # NoApproval \/ approval' = NoApproval
  BY DEF ApproveGate, storage, Inv, TypeOK, RefinementInv, SavedInv
<1>2. With("passed", Approve(file, n)) = With("passed", file) \cup {n}
  BY <1>1, ApprovePause
<1>3. n \in With("paused", file)
  BY <1>1 DEF With, CanApprove
<1>4. Kept = With("passed", runState) /\ Asked = With("paused", file) \cup With("paused", runState)
  BY <1>1 DEF Kept, Asked
<1>5. /\ approval'.gate = n /\ approval'.copy = Approve(file, n)
  BY <1>1
<1>6. /\ Kept' \subseteq Kept \cup With("passed", file)
      /\ Asked' \subseteq Asked
      /\ With("passed", file)' = With("passed", file)
  BY <1>1, <1>2, <1>3, <1>4, <1>5 DEF Kept, Asked, With
<1>7. Abstract!Keep
  BY <1>6 DEF Abstract!Keep
<1>8. UNCHANGED <<Plan, Verdict, Decided, AtWork>>
  BY <1>1 DEF Plan, Verdict, Decided, AtWork
<1> QED
  BY <1>7, <1>8, QuietWork

\* approve saves, over whatever the file has become.
LEMMA SaveApprovalRefines ==
    ASSUME Inv, RefinementInv, SaveApproval
    PROVE  \E n \in Node : Abstract!Approve(n)
<1>1. /\ approval # NoApproval /\ approval' = NoApproval /\ file' \in {file, approval.copy}
      /\ UNCHANGED <<wf, proc, outcome, sessions, phase, results, fresh, runState>>
      /\ approval.gate \in Node /\ With("paused", approval.copy) = {}
  BY DEF SaveApproval, Inv, TypeOK, RefinementInv, SavedInv
<1>2. /\ Kept = With("passed", runState) \cup (With("passed", approval.copy) \ {approval.gate})
      /\ Asked = With("paused", file) \cup With("paused", runState) \cup {approval.gate}
  BY <1>1 DEF Kept, Asked
<1>3. Kept' = With("passed", runState) /\ Asked' = With("paused", file') \cup With("paused", runState)
  BY <1>1 DEF Kept, Asked, With
<1>4. /\ With("passed", file') \subseteq With("passed", file) \cup Kept \cup {approval.gate}
      /\ With("paused", file') \subseteq With("paused", file)
  BY <1>1, <1>2
<1>5. /\ approval.gate \in Asked /\ Asked' \subseteq Asked /\ Kept' \subseteq Kept
      /\ With("passed", file)' \subseteq With("passed", file) \cup Kept \cup {approval.gate}
  BY <1>2, <1>3, <1>4 DEF With
<1>6. UNCHANGED <<Plan, Verdict, Decided, AtWork>>
  BY <1>1 DEF Plan, Verdict, Decided, AtWork
<1> QED
  BY <1>1, <1>5, <1>6 DEF Abstract!Approve

LEMMA EndRefines == ASSUME Inv, RefinementInv, Crash \/ Exit PROVE Abstract!End
<1>1. /\ wf' = wf /\ sessions' = sessions /\ file' = file /\ approval' = approval
      /\ runState' = NewRun /\ fresh' = {} /\ results' = Nothing
      /\ phase' = [n \in Node |-> "none"] /\ proc # "off"
      /\ outcome' = "crashed" \/ (proc # "running" /\ outcome' = outcome)
  BY DEF Crash, Exit, Die, NewMemory, session
<1>2. Verdict' \in {Verdict, "crashed"} /\ Verdict' # "open" /\ AtWork' = {}
  BY <1>1 DEF RefinementInv, SessionInv, Verdict, AtWork, Executing, Inv, TypeOK
<1>3. Decided' = [n \in Node |-> "none"]
  BY <1>1 DEF Decided, Nothing, NoResult
<1>4. Kept' \subseteq Kept /\ Asked' \subseteq Asked /\ With("passed", file)' = With("passed", file)
  BY <1>1, NewRunMarks DEF Kept, Asked, With
<1>5. Plan' = Plan
  BY <1>1 DEF Plan
<1> QED
  BY <1>2, <1>3, <1>4, <1>5 DEF Abstract!End

LEMMA SkipCompletedRefines == ASSUME Inv, RefinementInv, SkipCompleted PROVE Abstract!Work
<1>1. /\ pos \in Node /\ phase[pos] = "none" /\ results[pos].status = "passed"
      /\ runState' = MarkPassed(runState, pos, results[pos].output)
      /\ PhaseTo(pos, "saving")
      /\ UNCHANGED <<wf, outcome, sessions, results, fresh, file, approval>>
  BY DEF SkipCompleted, AtNode, Completed, Emit, session
<1>2. runState \in RunStates /\ results[pos].output \in Output
  BY <1>1 DEF Inv, TypeOK, NodeResult
<1>3. \A m \in Node :
            /\ phase'[m] = (IF m = pos THEN "saving" ELSE phase[m])
            /\ runState'.nodes[m].status = (IF m = pos THEN "passed" ELSE runState.nodes[m].status)
  BY <1>1, <1>2, MarksEffect, PhaseEffect DEF Inv
<1>4. UNCHANGED <<Plan, Verdict, Decided, AtWork>>
  BY <1>1, <1>3 DEF Plan, Verdict, Decided, AtWork, Executing
<1>5. Decided'[pos] \in {"passed", "trusted"}
  BY <1>1 DEF Decided
<1>6. /\ With("passed", runState') \subseteq
             With("passed", runState) \cup {n \in Node : Decided'[n] \in {"passed", "trusted"}}
      /\ With("paused", runState') \subseteq
             With("paused", runState) \cup {n \in Node : Decided'[n] = "paused"}
  BY <1>3, <1>5 DEF With
<1> QED
  BY <1>1, <1>4, <1>6, MarkKeeps, QuietWork

LEMMA SkipNodeRefines == ASSUME Inv, RefinementInv, SkipNode PROVE Abstract!Work
<1>1. /\ pos \in Node /\ phase[pos] = "none" /\ AtNode /\ ~Completed
      /\ UNCHANGED <<wf, outcome, sessions, file, approval>>
  BY DEF SkipNode, AtNode, Emit, session
<1>2. Decides(pos, "skipped", "none")
  BY <1>1, LoopDecides DEF Inv
<1>3. Decided' = [Decided EXCEPT ![pos] = "skipped"] /\ AtWork' = AtWork \ {pos}
  BY <1>1, <1>2, DecisionView
<1>4. Abstract!Considered(pos)
  BY <1>1, NodeIsConsidered
<1>5. pos \notin AtWork
  BY <1>1 DEF AtWork, Executing
<1>6. Abstract!Skip(pos)
  BY <1>3, <1>4, <1>5 DEF Abstract!Skip
<1>7. Abstract!Keep
  BY <1>1, <1>2, DecisionKeeps
<1>8. Verdict' = Verdict /\ Plan' = Plan
  BY <1>1 DEF Verdict, Plan
<1> QED
  BY <1>1, <1>6, <1>7, <1>8 DEF Abstract!Work, Abstract!Decide, Abstract!Conclude

LEMMA PauseRefines == ASSUME Inv, RefinementInv, PauseAtGate PROVE Abstract!Work
<1>1. /\ pos \in Node /\ phase[pos] = "none" /\ AtNode /\ ~Completed
      /\ ShouldRun(wf[pos], results) /\ wf[pos].kind = "human_gate"
      /\ UNCHANGED <<wf, outcome, sessions, file, approval>>
  BY DEF PauseAtGate, AtNode, Emit, session
<1>2. Decides(pos, "paused", "none")
  BY <1>1, LoopDecides DEF Inv
<1>3. Decided' = [Decided EXCEPT ![pos] = "paused"] /\ AtWork' = AtWork \ {pos}
  BY <1>1, <1>2, DecisionView
<1>4. Abstract!Considered(pos) /\ Abstract!Triggered(pos) /\ Plan[pos].gate
  BY <1>1, NodeIsConsidered
<1>5. pos \notin AtWork
  BY <1>1 DEF AtWork, Executing
<1>6. Abstract!Pause(pos)
  BY <1>3, <1>4, <1>5 DEF Abstract!Pause
<1>7. Abstract!Keep
  BY <1>1, <1>2, DecisionKeeps
<1>8. Verdict' = Verdict /\ Plan' = Plan
  BY <1>1 DEF Verdict, Plan
<1> QED
  BY <1>1, <1>6, <1>7, <1>8 DEF Abstract!Work, Abstract!Decide, Abstract!Conclude

LEMMA StartRefines == ASSUME Inv, RefinementInv, StartNode PROVE Abstract!Work
<1>1. /\ pos \in Node /\ AtNode /\ ~Completed
      /\ ShouldRun(wf[pos], results) /\ wf[pos].kind = "work" /\ PhaseTo(pos, "spawned")
      /\ UNCHANGED <<wf, outcome, sessions, results, fresh, file, runState, approval>>
  BY DEF StartNode, AtNode, session, storage
<1>2. \A m \in Node : phase'[m] = IF m = pos THEN "spawned" ELSE phase[m]
  BY <1>1, PhaseEffect DEF Inv
<1>3. AtWork' = AtWork \cup {pos}
  BY <1>1, <1>2 DEF AtWork, Executing
<1>4. Verdict' = Verdict /\ Plan' = Plan /\ Decided' = Decided
  BY <1>1 DEF Verdict, Plan, Decided
<1>5. Abstract!Considered(pos) /\ Abstract!Triggered(pos) /\ ~Plan[pos].gate
  BY <1>1, NodeIsConsidered
<1>6. Abstract!Start(pos)
  BY <1>3, <1>4, <1>5 DEF Abstract!Start
<1>7. Abstract!Keep
  BY <1>1, MarkKeeps DEF With
<1> QED
  BY <1>1, <1>4, <1>6, <1>7 DEF Abstract!Work, Abstract!Decide, Abstract!Conclude

\* A rename: the loop's, and that of a goroutine.
LEMMA RenameRefines ==
    ASSUME Inv, RefinementInv, NEW n \in Node, FinishSave(n),
           NEW to \in {"sending", "done"}, PhaseTo(n, to),
           UNCHANGED <<wf, sessions, approval, results, fresh>>
    PROVE  /\ UNCHANGED <<Plan, Decided, AtWork>>
           /\ Abstract!Keep
<1>1. phase[n] = "saving" /\ \A m \in Node : phase'[m] = IF m = n THEN to ELSE phase[m]
  BY PhaseEffect DEF FinishSave, Inv
<1>2. UNCHANGED <<Plan, Decided, AtWork>>
  BY <1>1 DEF Plan, Decided, AtWork, Executing
<1> QED
  BY <1>2, RenameKeeps

LEMMA GoOnRefines == ASSUME Inv, RefinementInv, GoOn PROVE Abstract!Work
<1>1. /\ pos \in Node /\ FinishSave(pos) /\ PhaseTo(pos, "done")
      /\ UNCHANGED <<wf, sessions, approval, results, fresh, outcome>>
  BY DEF GoOn, session
<1>2. UNCHANGED <<Plan, Decided, AtWork>> /\ Abstract!Keep
  BY <1>1, RenameRefines
<1>3. Verdict' = Verdict
  BY <1>1 DEF Verdict
<1> QED
  BY <1>2, <1>3, QuietWork

\* How a session that runs concludes.
LEMMA Concludes ==
    ASSUME RefinementInv, Inv, proc = "running", sessions' = sessions,
           outcome' \in {"passed", "failed", "paused"}
    PROVE  Verdict = "open" /\ Verdict' = outcome'
BY DEF RefinementInv, SessionInv, Verdict, Inv, TypeOK

LEMMA FailureIsDecided ==
    ASSUME RefinementInv, Inv, proc = "running", firstErr # NoNode
    PROVE  \E n \in Node : Decided[n] = "failed"
<1>1. PICK n \in fresh : results[n].status = "failed"
  BY DEF RefinementInv, ErrorInv
<1>2. n \in Node
  BY DEF Inv, TypeOK
<1> QED
  BY <1>1, <1>2 DEF Decided

LEMMA ReturnPausedRefines == ASSUME Inv, RefinementInv, ReturnPaused PROVE Abstract!Work
<1>1. /\ pos \in Node /\ FinishSave(pos) /\ PhaseTo(pos, "done") /\ proc = "running"
      /\ results[pos].status = "paused"
      /\ outcome' = IF firstErr = NoNode THEN "paused" ELSE "failed"
      /\ UNCHANGED <<wf, sessions, approval, results, fresh>>
  BY DEF ReturnPaused, session
<1>2. UNCHANGED <<Plan, Decided, AtWork>> /\ Abstract!Keep
  BY <1>1, RenameRefines
<1>3. Verdict = "open" /\ Verdict' = outcome'
  BY <1>1, Concludes
<1>4. Decided[pos] = "paused"
  BY <1>1 DEF Decided, Inv, PhaseInv
<1>5. Abstract!Conclude
  <2>1. CASE firstErr = NoNode
    BY <1>1, <1>2, <1>3, <1>4, <2>1 DEF Abstract!Conclude
  <2>2. CASE firstErr # NoNode
    <3>1. \E n \in Node : Decided'[n] = "failed"
      BY <1>1, <1>2, <2>2, FailureIsDecided
    <3> QED
      BY <1>1, <1>3, <2>2, <3>1 DEF Abstract!Conclude
  <2> QED
    BY <2>1, <2>2
<1> QED
  BY <1>2, <1>5 DEF Abstract!Work, Abstract!Decide

LEMMA FinishLayerRefines == ASSUME Inv, RefinementInv, FinishLayer PROVE Abstract!Work
<1>1. UNCHANGED <<wf, sessions, approval, outcome, phase, results, fresh, file, runState>>
  BY DEF FinishLayer, session, storage
<1>2. UNCHANGED <<Plan, Verdict, Decided, AtWork>>
  BY <1>1 DEF Plan, Verdict, Decided, AtWork
<1>3. Abstract!Keep
  BY <1>1, MarkKeeps DEF With
<1> QED
  BY <1>2, <1>3, QuietWork

\* What Inv says of a run that has just returned as passed.
LEMMA PassedRun ==
    ASSUME Inv, proc = "returned", outcome = "passed"
    PROVE  /\ AtWork = {}
           /\ \A n \in Node : Decided[n] \in {"passed", "trusted", "skipped"}
<1>1. \A n \in Node : phase[n] = "done"
  BY DEF Inv, ReturnInv
<1>2. AtWork = {}
  BY <1>1 DEF AtWork, Executing
<1>3. ASSUME NEW n \in Node PROVE Decided[n] \in {"passed", "trusted", "skipped"}
  <2>1. results[n].status \in {"passed", "skipped"}
    BY PassedIsClean DEF NoFailureIsSwallowed
  <2>2. n \in fresh \/ results[n].status = "passed"
    BY <1>1 DEF Inv, PhaseInv, Over
  <2> QED
    BY <2>1, <2>2 DEF Decided
<1> QED
  BY <1>2, <1>3

LEMMA FinishRunRefines == ASSUME Inv, Inv', RefinementInv, FinishRun PROVE Abstract!Work
<1>1. /\ proc = "running" /\ proc' = "returned"
      /\ outcome' = IF firstErr = NoNode THEN "passed" ELSE "failed"
      /\ UNCHANGED <<wf, sessions, approval, phase, results, fresh, file, runState>>
  BY DEF FinishRun, session, storage
<1>2. UNCHANGED <<Plan, Decided, AtWork>>
  BY <1>1 DEF Plan, Decided, AtWork
<1>3. Abstract!Keep
  BY <1>1, MarkKeeps DEF With
<1>4. Verdict = "open" /\ Verdict' = outcome'
  BY <1>1, Concludes
<1>5. Abstract!Conclude
  <2>1. CASE firstErr = NoNode
    <3>1. Inv' /\ (proc = "returned")' /\ (outcome = "passed")'
          => (AtWork = {})' /\ (\A n \in Node : Decided[n] \in {"passed", "trusted", "skipped"})'
      BY PassedRun, PTL
    <3>2. AtWork' = {} /\ \A n \in Node : Decided'[n] \in {"passed", "trusted", "skipped"}
      BY <1>1, <2>1, <3>1
    <3> QED
      BY <1>1, <1>4, <2>1, <3>2 DEF Abstract!Conclude, Abstract!Done
  <2>2. CASE firstErr # NoNode
    <3>1. \E n \in Node : Decided'[n] = "failed"
      BY <1>1, <1>2, <2>2, FailureIsDecided
    <3> QED
      BY <1>1, <1>4, <2>2, <3>1 DEF Abstract!Conclude
  <2> QED
    BY <2>1, <2>2
<1> QED
  BY <1>2, <1>3, <1>5 DEF Abstract!Work, Abstract!Decide

\* The goroutine of a node: it finishes the node, saves, or WorkflowRun does not
\* see the step.
LEMMA RecordRefines ==
    ASSUME Inv, RefinementInv, NEW n \in Node, NEW o \in OutputOf(n),
           RecordPass(n, o) \/ RecordFailure(n, o)
    PROVE  Abstract!Work
<1>1. /\ phase[n] \in {"passing", "failing"}
      /\ UNCHANGED <<wf, sessions, approval, outcome, file>>
  BY DEF RecordPass, RecordFailure, Step, Emit, session
<1>2. PICK status, why : status \in {"passed", "failed"} /\ Decides(n, status, why)
  BY NodeDecides DEF Inv
<1>3. Decided' = [Decided EXCEPT ![n] = status] /\ AtWork' = AtWork \ {n}
  BY <1>2, DecisionView
<1>4. n \in AtWork
  BY <1>1 DEF AtWork, Executing
<1>5. Abstract!Finish(n)
  BY <1>2, <1>3, <1>4 DEF Abstract!Finish
<1>6. Abstract!Keep
  BY <1>1, <1>2, DecisionKeeps
<1>7. Verdict' = Verdict /\ Plan' = Plan
  BY <1>1 DEF Verdict, Plan
<1> QED
  BY <1>5, <1>6, <1>7 DEF Abstract!Work, Abstract!Decide, Abstract!Conclude

LEMMA NodeStepRefines ==
    ASSUME Inv, RefinementInv, NEW n \in Node, NodeStep(n)
    PROVE  Abstract!Work
<1>1. ASSUME NEW from, NEW to, Moves(n, from, to), from \in Executing <=> to \in Executing,
             UNCHANGED <<wf, sessions, approval, outcome, file>>
      PROVE  Abstract!Work
  <2>1. UNCHANGED <<results, fresh, runState>> /\ AtWork' = AtWork
    BY <1>1 DEF Moves, AtWork
  <2>2. UNCHANGED <<Plan, Verdict, Decided, AtWork>>
    BY <1>1, <2>1 DEF Plan, Verdict, Decided
  <2>3. Abstract!Keep
    BY <1>1, <2>1, MarkKeeps DEF With
  <2> QED
    BY <2>2, <2>3, QuietWork
<1>2. CASE NodeStarts(n)
  <2>1. Moves(n, "spawned", "running") /\ UNCHANGED <<wf, sessions, approval, outcome, file>>
    BY <1>2, NodeMoves DEF Inv, NodeStarts, Step, session, storage
  <2> QED
    BY <1>1, <2>1 DEF Executing
<1>3. CASE NodePasses(n)
  <2>1. Moves(n, "running", "passing") /\ UNCHANGED <<wf, sessions, approval, outcome, file>>
    BY <1>3, NodeMoves DEF Inv, NodePasses, Step, session, storage
  <2> QED
    BY <1>1, <2>1 DEF Executing
<1>4. ASSUME NEW why \in {"own", "canceled"}, NodeFails(n, why) PROVE Abstract!Work
  <2>1. Moves(n, "running", "failing") /\ UNCHANGED <<wf, sessions, approval, outcome, file>>
    BY <1>4, NodeMoves DEF Inv, NodeFails, Step, session, storage
  <2> QED
    BY <1>1, <2>1 DEF Executing
<1>5. CASE SendError(n)
  <2>1. Moves(n, "sending", "done") /\ UNCHANGED <<wf, sessions, approval, outcome, file>>
    BY <1>5, NodeMoves DEF Inv, SendError, Step, session, storage
  <2> QED
    BY <1>1, <2>1 DEF Executing
<1>6. CASE NodeSaves(n)
  <2>1. PICK to \in {"sending", "done"} : PhaseTo(n, to)
    BY <1>6 DEF NodeSaves, Step
  <2>2. FinishSave(n) /\ UNCHANGED <<wf, sessions, approval, results, fresh, outcome>>
    BY <1>6 DEF NodeSaves, Step, session
  <2>3. UNCHANGED <<Plan, Decided, AtWork>> /\ Abstract!Keep
    BY <2>1, <2>2, RenameRefines
  <2>4. Verdict' = Verdict
    BY <2>2 DEF Verdict
  <2> QED
    BY <2>3, <2>4, QuietWork
<1> QED
  BY <1>2, <1>3, <1>4, <1>5, <1>6, RecordRefines DEF NodeStep

\* Every step of a run of layers is a step of WorkflowRun, or none.
LEMMA StepRefines ==
    ASSUME Inv, Inv', RefinementInv, [Next]_vars
    PROVE  [Abstract!Next]_(Abstract!vars)
<1>1. CASE Run \/ Resume
  BY <1>1, RunRefines, ResumeRefines DEF Abstract!Next
<1>2. ASSUME NEW n \in Node, ApproveGate(n) PROVE Abstract!Next
  BY <1>2, ReadRefines DEF Abstract!Next
<1>3. CASE SaveApproval
  BY <1>3, SaveApprovalRefines DEF Abstract!Next
<1>4. CASE Crash \/ Exit
  BY <1>4, EndRefines DEF Abstract!Next
<1>5. CASE MainStep
  BY <1>5, SkipCompletedRefines, SkipNodeRefines, StartRefines, PauseRefines, GoOnRefines,
     ReturnPausedRefines, FinishLayerRefines, FinishRunRefines DEF MainStep, Abstract!Next
<1>6. ASSUME NEW n \in Node, NodeStep(n) PROVE Abstract!Next
  BY <1>6, NodeStepRefines DEF Abstract!Next
<1>7. CASE UNCHANGED vars
  BY <1>7 DEF vars, session, storage, Abstract!vars, Plan, Verdict, Decided, AtWork, Kept,
              Asked, With
<1> QED
  BY <1>1, <1>2, <1>3, <1>4, <1>5, <1>6, <1>7 DEF Next

\* A run of concurrent layers, over crashes, pauses, resumes, saves that fail or
\* overtake each other, and approvals at any time, behaves as WorkflowRun promises.
THEOREM LayerRunIsWorkflowRun == Spec => IsWorkflowRun
<1>1. Spec => []RefinementInv
  BY RefinementInvariant
<1>2. Inv /\ Inv' /\ RefinementInv /\ [Next]_vars => [Abstract!Next]_(Abstract!vars)
  BY StepRefines
<1> QED
  BY <1>1, <1>2, InitRefines, LayerRunInvariant, PTL DEF Spec, IsWorkflowRun, Abstract!Spec

-----------------------------------------------------------------------------
(* The dashboard: LayerRun joined with the events it records.              *)

\* The dashboard only looks: what it is joined with does nothing it would not do
\* alone.
LEMMA StepIsLayerStep == [DashboardNext]_dashboardVars => [Next]_vars
<1> SUFFICES ASSUME [DashboardNext]_dashboardVars PROVE [Next]_vars
  OBVIOUS
<1>1. CASE UserRecorded \/ ProcessRecorded
  BY <1>1 DEF UserRecorded, ProcessRecorded, Next
<1>2. CASE MainRecorded
  BY <1>2 DEF MainRecorded, MainStep, Next
<1>3. ASSUME NEW n \in Node, NodeRecorded(n) PROVE Next
  BY <1>3 DEF NodeRecorded, NodeStep, Next
<1>4. CASE UNCHANGED dashboardVars
  BY <1>4 DEF dashboardVars
<1> QED
  BY <1>1, <1>2, <1>3, <1>4 DEF DashboardNext

\* Every property proved of LayerRun holds with the dashboard beside it.
THEOREM DashboardKeepsLayerRun == DashboardSpec => Spec
BY StepIsLayerStep, PTL DEF DashboardSpec, DashboardInit, Spec

Model == [workflow : Status, nodes : [Node -> Status]]

LEMMA NodeEvent ==
    ASSUME view \in Model, NEW n \in Node, NEW type \in DOMAIN NodeEvents, Record(type, n)
    PROVE  /\ view'.nodes = [view.nodes EXCEPT ![n] = NodeEvents[type]]
           /\ view'.workflow = IF type = "node_paused" THEN "paused" ELSE view.workflow
           /\ view' \in Model
<1>1. type \in {"node_started", "node_passed", "node_failed", "node_skipped", "node_paused"}
  BY DEF NodeEvents
<1>2. type \notin DOMAIN WorkflowEvents /\ NodeEvents[type] \in Status
  BY <1>1 DEF WorkflowEvents, NodeEvents, Status
<1>3. view' = [workflow |-> WorkflowAfter(view, type), nodes |-> NodesAfter(view, type, n)]
  BY DEF Record, Apply
<1>4. WorkflowAfter(view, type) = IF type = "node_paused" THEN "paused" ELSE view.workflow
  BY <1>2 DEF WorkflowAfter
<1>5. NodesAfter(view, type, n) = [view.nodes EXCEPT ![n] = NodeEvents[type]]
  BY DEF NodesAfter
<1>6. /\ [view.nodes EXCEPT ![n] = NodeEvents[type]] \in [Node -> Status]
      /\ WorkflowAfter(view, type) \in Status
  BY <1>2, <1>4 DEF Model, Status
<1>7. /\ view'.nodes = [view.nodes EXCEPT ![n] = NodeEvents[type]]
      /\ view'.workflow = IF type = "node_paused" THEN "paused" ELSE view.workflow
  BY <1>3, <1>4, <1>5
<1>8. NodesAfter(view, type, n) \in [Node -> Status]
  BY <1>5, <1>6
<1>9. view' \in Model
  BY <1>3, <1>6, <1>8 DEF Model
<1> QED
  BY <1>7, <1>9

LEMMA WorkflowEvent ==
    ASSUME view \in Model, NEW type \in DOMAIN WorkflowEvents, RecordWorkflow(type)
    PROVE  /\ view'.nodes = view.nodes
           /\ view'.workflow = WorkflowEvents[type]
           /\ view' \in Model
<1>1. type \in {"workflow_started", "workflow_passed", "workflow_failed"}
  BY DEF WorkflowEvents
<1>2. type \notin DOMAIN NodeEvents /\ WorkflowEvents[type] \in Status
  BY <1>1 DEF WorkflowEvents, NodeEvents, Status
<1>3. view' = [workflow |-> WorkflowAfter(view, type), nodes |-> NodesAfter(view, type, NoNode)]
  BY DEF RecordWorkflow, Record, Apply
<1>4. WorkflowAfter(view, type) = WorkflowEvents[type]
  BY <1>1 DEF WorkflowAfter
<1>5. NodesAfter(view, type, NoNode) = view.nodes
  BY <1>2 DEF NodesAfter
<1> QED
  BY <1>2, <1>3, <1>4, <1>5 DEF Model

\* Which node a step of the run is about, and what it shows of it.
Shows(n, status) ==
    /\ \A m \in Node : view'.nodes[m] = IF m = n THEN status ELSE view.nodes[m]
    /\ view'.workflow = IF status = "paused" THEN "paused" ELSE view.workflow
    /\ view' \in Model

LEMMA EventShows ==
    ASSUME view \in Model, NEW n \in Node
    PROVE  /\ Record("node_started", n) => Shows(n, "running")
           /\ Record("node_passed", n) => Shows(n, "passed")
           /\ Record("node_failed", n) => Shows(n, "failed")
           /\ Record("node_skipped", n) => Shows(n, "skipped")
           /\ Record("node_paused", n) => Shows(n, "paused")
<1>1. {"node_started", "node_passed", "node_failed", "node_skipped", "node_paused"}
        = DOMAIN NodeEvents
  BY DEF NodeEvents
<1>2. view.nodes \in [Node -> Status]
  BY DEF Model
<1>3. ASSUME NEW type \in DOMAIN NodeEvents, NEW status, Record(type, n), NodeEvents[type] = status,
             type = "node_paused" <=> status = "paused"
      PROVE  Shows(n, status)
  <2>1. /\ view'.nodes = [view.nodes EXCEPT ![n] = status]
        /\ view'.workflow = IF status = "paused" THEN "paused" ELSE view.workflow
        /\ view' \in Model
    BY <1>3, NodeEvent
  <2> QED
    BY <1>2, <2>1 DEF Shows
<1> QED
  BY <1>1, <1>3 DEF NodeEvents

\* Every step of the dashboard, with what it shows.
Still(status) == view'.nodes = view.nodes /\ view'.workflow = status /\ view' \in Model

LEMMA DashboardStep ==
    ASSUME view \in Model, TypeOK, [DashboardNext]_dashboardVars
    PROVE  \/ (Run \/ Resume) /\ Still("running")
           \/ (Crash \/ Exit) /\ view' = view
           \/ ((\E n \in Node : ApproveGate(n)) \/ SaveApproval \/ UNCHANGED vars) /\ view' = view
           \/ (SkipCompleted \/ SkipNode) /\ Shows(pos, "skipped")
           \/ PauseAtGate /\ Shows(pos, "paused")
           \/ (StartNode \/ GoOn \/ FinishLayer) /\ view' = view
           \/ ReturnPaused /\ Still("failed")
           \/ FinishRun /\ Still(IF firstErr = NoNode THEN "passed" ELSE "failed")
           \/ \E n \in Node :
                 \/ NodeStarts(n) /\ Shows(n, "running")
                 \/ NodePasses(n) /\ Shows(n, "passed")
                 \/ (\E why \in {"own", "canceled"} : NodeFails(n, why)) /\ Shows(n, "failed")
                 \/ (\E o \in OutputOf(n) : RecordPass(n, o) \/ RecordFailure(n, o)) /\ view' = view
                 \/ (NodeSaves(n) \/ SendError(n)) /\ view' = view
<1>1. /\ RecordWorkflow("workflow_started") => Still("running")
      /\ RecordWorkflow("workflow_passed") => Still("passed")
      /\ RecordWorkflow("workflow_failed") => Still("failed")
  BY WorkflowEvent DEF WorkflowEvents, Still
<1>2. SkipCompleted \/ SkipNode \/ PauseAtGate => pos \in Node
  BY DEF SkipCompleted, SkipNode, PauseAtGate, AtNode
<1>3. CASE UserRecorded \/ ProcessRecorded
  BY <1>1, <1>3 DEF UserRecorded, ProcessRecorded, NoEvent
<1>4. CASE MainRecorded
  <2>1. CASE (SkipCompleted \/ SkipNode) /\ Record("node_skipped", pos)
    BY <1>2, <2>1, EventShows
  <2>2. CASE PauseAtGate /\ Record("node_paused", pos)
    BY <1>2, <2>2, EventShows
  <2>3. CASE ReturnPaused /\ RecordWorkflow("workflow_failed")
    BY <1>1, <2>3
  <2>4. CASE FinishRun /\ RecordWorkflow(IF firstErr = NoNode THEN "workflow_passed"
                                                              ELSE "workflow_failed")
    BY <1>1, <2>4
  <2>5. CASE (StartNode \/ GoOn \/ FinishLayer) /\ NoEvent
    BY <2>5 DEF NoEvent
  <2> QED
    BY <1>4, <2>1, <2>2, <2>3, <2>4, <2>5 DEF MainRecorded
<1>5. ASSUME NEW n \in Node, NodeRecorded(n)
      PROVE  \/ NodeStarts(n) /\ Shows(n, "running")
             \/ NodePasses(n) /\ Shows(n, "passed")
             \/ (\E why \in {"own", "canceled"} : NodeFails(n, why)) /\ Shows(n, "failed")
             \/ (\E o \in OutputOf(n) : RecordPass(n, o) \/ RecordFailure(n, o)) /\ view' = view
             \/ (NodeSaves(n) \/ SendError(n)) /\ view' = view
  BY <1>5, EventShows DEF NodeRecorded, NoEvent
<1>6. CASE UNCHANGED dashboardVars
  BY <1>6 DEF dashboardVars
<1> QED
  BY <1>3, <1>4, <1>5, <1>6 DEF DashboardNext

\* What is known of the nodes after a step about one of them.
LEMMA OneNodeShown ==
    ASSUME ShownInv, NEW n \in Node,
           \A m \in Node : m # n => /\ phase'[m] = phase[m]
                                    /\ results'[m].status = results[m].status
                                    /\ view'.nodes[m] = view.nodes[m],
           phase'[n] = "passing" => view'.nodes[n] = "passed",
           phase'[n] = "failing" => view'.nodes[n] = "failed",
           phase'[n] \in Over => \/ view'.nodes[n] = results'[n].status
                                 \/ view'.nodes[n] = "skipped" /\ results'[n].status = "passed"
    PROVE  ShownInv'
BY DEF ShownInv, Over

LEMMA ShownStep ==
    ASSUME Inv, DashboardInv, [DashboardNext]_dashboardVars
    PROVE  ShownInv'
<1>1. TypeOK /\ view \in Model /\ ShownInv
  BY DEF Inv, DashboardInv, DashboardTypeOK, Model
<1>2. CASE Run \/ Resume \/ Crash \/ Exit
  <2>1. \A n \in Node : phase'[n] = "none"
    BY <1>2 DEF Run, Resume, EnterEngine, Crash, Exit, Die, NewMemory
  <2> QED
    BY <2>1 DEF ShownInv, Over
<1>3. CASE ((\E n \in Node : ApproveGate(n)) \/ SaveApproval \/ UNCHANGED vars) /\ view' = view
  BY <1>1, <1>3 DEF ApproveGate, SaveApproval, vars, ShownInv
<1>4. CASE SkipCompleted /\ Shows(pos, "skipped")
  <2>1. /\ pos \in Node /\ results[pos].status = "passed" /\ results' = results
        /\ PhaseTo(pos, "saving")
    BY <1>4 DEF SkipCompleted, AtNode, Completed
  <2>2. \A m \in Node : phase'[m] = IF m = pos THEN "saving" ELSE phase[m]
    BY <1>1, <2>1, PhaseEffect
  <2> QED
    BY <1>1, <1>4, <2>1, <2>2, OneNodeShown DEF Shows
<1>5. CASE SkipNode /\ Shows(pos, "skipped")
  <2>1. pos \in Node /\ Decides(pos, "skipped", "none")
    BY <1>1, <1>5, LoopDecides DEF SkipNode, AtNode
  <2> QED
    BY <1>1, <1>5, <2>1, OneNodeShown DEF Shows, Decides
<1>6. CASE PauseAtGate /\ Shows(pos, "paused")
  <2>1. pos \in Node /\ Decides(pos, "paused", "none")
    BY <1>1, <1>6, LoopDecides DEF PauseAtGate, AtNode
  <2> QED
    BY <1>1, <1>6, <2>1, OneNodeShown DEF Shows, Decides
<1>7. CASE StartNode /\ view' = view
  <2>1. pos \in Node /\ results' = results /\ PhaseTo(pos, "spawned")
    BY <1>7 DEF StartNode, AtNode
  <2>2. \A m \in Node : phase'[m] = IF m = pos THEN "spawned" ELSE phase[m]
    BY <1>1, <2>1, PhaseEffect
  <2> QED
    BY <1>1, <1>7, <2>1, <2>2, OneNodeShown DEF Over
<1>8. CASE (GoOn \/ ReturnPaused) /\ view'.nodes = view.nodes
  <2>1. /\ pos \in Node /\ phase[pos] = "saving" /\ results' = results
        /\ PhaseTo(pos, "done")
    BY <1>8 DEF GoOn, ReturnPaused, FinishSave
  <2>2. \A m \in Node : phase'[m] = IF m = pos THEN "done" ELSE phase[m]
    BY <1>1, <2>1, PhaseEffect
  <2>3. \/ view.nodes[pos] = results[pos].status
        \/ view.nodes[pos] = "skipped" /\ results[pos].status = "passed"
    BY <1>1, <2>1 DEF ShownInv, Over
  <2> QED
    BY <1>1, <1>8, <2>1, <2>2, <2>3, OneNodeShown
<1>9. CASE (FinishLayer \/ FinishRun) /\ view'.nodes = view.nodes
  BY <1>1, <1>9 DEF FinishLayer, FinishRun, ShownInv
<1>10. ASSUME NEW n \in Node,
              \/ NodeStarts(n) /\ Shows(n, "running")
              \/ NodePasses(n) /\ Shows(n, "passed")
              \/ (\E why \in {"own", "canceled"} : NodeFails(n, why)) /\ Shows(n, "failed")
       PROVE  ShownInv'
  <2>1. PICK to \in {"running", "passing", "failing"} :
            /\ Moves(n, phase[n], to)
            /\ to = "passing" => Shows(n, "passed")
            /\ to = "failing" => Shows(n, "failed")
            /\ \A m \in Node : m # n => view'.nodes[m] = view.nodes[m]
    BY <1>1, <1>10, NodeMoves DEF Moves, Shows
  <2> QED
    BY <1>1, <2>1, OneNodeShown DEF Moves, Shows, Over
<1>11. ASSUME NEW n \in Node, NEW o \in OutputOf(n), RecordPass(n, o) \/ RecordFailure(n, o),
              view' = view
       PROVE  ShownInv'
  <2>1. PICK status, why : /\ Decides(n, status, why)
                           /\ \/ status = "passed" /\ phase[n] = "passing"
                              \/ status = "failed" /\ phase[n] = "failing"
    BY <1>1, <1>11, NodeDecides DEF RecordPass, RecordFailure, Step
  <2>2. view.nodes[n] = status
    BY <1>1, <2>1 DEF ShownInv
  <2> QED
    BY <1>1, <1>11, <2>1, <2>2, OneNodeShown DEF Decides
<1>12. ASSUME NEW n \in Node, NodeSaves(n) \/ SendError(n), view' = view PROVE ShownInv'
  <2>1. PICK to \in {"sending", "done"} : phase[n] \in Over /\ Moves(n, phase[n], to)
    BY <1>1, <1>12, NodeMoves DEF Moves, Over
  <2>2. \/ view.nodes[n] = results[n].status
        \/ view.nodes[n] = "skipped" /\ results[n].status = "passed"
    BY <1>1, <2>1 DEF ShownInv
  <2> QED
    BY <1>1, <1>12, <2>1, <2>2, OneNodeShown DEF Moves
<1> QED
  BY <1>1, <1>2, <1>3, <1>4, <1>5, <1>6, <1>7, <1>8, <1>9, <1>10, <1>11, <1>12, DashboardStep
     DEF Still

\* A session that ended with every node over has nothing left that could step,
\* and one that is off neither.
LEMMA FinalStep ==
    ASSUME Inv, Inv', SessionInv, DashboardInv, [DashboardNext]_dashboardVars
    PROVE  FinalInv'
<1>1. /\ TypeOK /\ view \in Model /\ FinalInv /\ LoopInv
      /\ proc = "off" => \A n \in Node : phase[n] = "none"
  BY DEF Inv, DashboardInv, DashboardTypeOK, Model, SessionInv
<1>2. ASSUME NEW n \in Node, NodeStep(n) PROVE phase[n] \notin {"none", "done"} /\ proc' = proc
  BY <1>1, <1>2, NodeStepPlace
<1>3. CASE (Run \/ Resume) /\ Still("running")
  BY <1>3 DEF Still, FinalInv
<1>4. CASE (Crash \/ Exit) /\ view' = view
  BY <1>1, <1>4 DEF Crash, Exit, Die, FinalInv, PassedViewIsFinal
<1>5. CASE ((\E n \in Node : ApproveGate(n)) \/ SaveApproval \/ UNCHANGED vars) /\ view' = view
  BY <1>1, <1>5 DEF ApproveGate, SaveApproval, vars, FinalInv, PassedViewIsFinal
<1>6. CASE (SkipCompleted \/ SkipNode) /\ Shows(pos, "skipped")
  BY <1>1, <1>6 DEF SkipCompleted, SkipNode, AtNode, Shows, FinalInv
<1>7. CASE PauseAtGate /\ Shows(pos, "paused")
  BY <1>7 DEF Shows, FinalInv
<1>8. CASE (StartNode \/ GoOn \/ FinishLayer) /\ view' = view
  BY <1>1, <1>8 DEF StartNode, GoOn, FinishLayer, AtNode, FinalInv
<1>9. CASE ReturnPaused /\ Still("failed")
  BY <1>9 DEF Still, FinalInv
<1>10. CASE FinishRun /\ Still(IF firstErr = NoNode THEN "passed" ELSE "failed")
  <2>1. SUFFICES ASSUME firstErr = NoNode PROVE FinalInv'
    BY <1>10 DEF Still, FinalInv
  <2>2. proc' = "returned" /\ outcome' = "passed" /\ view'.nodes = view.nodes
        /\ results' = results /\ phase' = phase
    BY <1>10, <2>1 DEF FinishRun, Still
  <2>3. \A n \in Node : phase[n] = "done" /\ results[n].status \in {"passed", "skipped"}
    <3>1. NoFailureIsSwallowed'
      BY PassedIsClean, PTL
    <3> QED
      BY <2>2, <3>1 DEF Inv, ReturnInv, NoFailureIsSwallowed
  <2>4. \A n \in Node : view.nodes[n] \in {"passed", "skipped"}
    BY <2>3 DEF DashboardInv, ShownInv, Over
  <2> QED
    BY <2>2, <2>3, <2>4 DEF FinalInv, PassedViewIsFinal
<1>11. ASSUME NEW n \in Node, NodeStep(n), view'.workflow = view.workflow PROVE FinalInv'
  <2>1. view.workflow # "passed"
    BY <1>1, <1>2, <1>11 DEF FinalInv, TypeOK
  <2> QED
    BY <1>11, <2>1 DEF FinalInv
<1>12. ASSUME NEW n \in Node,
              \/ NodeStarts(n) /\ Shows(n, "running")
              \/ NodePasses(n) /\ Shows(n, "passed")
              \/ (\E why \in {"own", "canceled"} : NodeFails(n, why)) /\ Shows(n, "failed")
              \/ (\E o \in OutputOf(n) : RecordPass(n, o) \/ RecordFailure(n, o)) /\ view' = view
              \/ (NodeSaves(n) \/ SendError(n)) /\ view' = view
       PROVE  FinalInv'
  BY <1>11, <1>12 DEF NodeStep, Shows
<1> QED
  BY <1>1, <1>3, <1>4, <1>5, <1>6, <1>7, <1>8, <1>9, <1>10, <1>12, DashboardStep

\* A gate the session stopped at stays as it is shown until the next session.
LEMMA GateStays ==
    ASSUME Inv, SessionInv, DashboardInv, [DashboardNext]_dashboardVars, ~(Run \/ Resume),
           NEW g \in Node, GateIsShown(g)
    PROVE  GateIsShown(g)'
<1>1. /\ TypeOK /\ view \in Model /\ LoopInv /\ PhaseInv
      /\ proc = "off" => \A n \in Node : phase[n] = "none"
  BY DEF Inv, DashboardInv, DashboardTypeOK, Model, SessionInv
<1>2. CASE (Crash \/ Exit) /\ view' = view
  BY <1>2 DEF Crash, Exit, Die, GateIsShown
<1>3. CASE ((\E n \in Node : ApproveGate(n)) \/ SaveApproval \/ UNCHANGED vars) /\ view' = view
  BY <1>3 DEF ApproveGate, SaveApproval, vars, GateIsShown
<1>4. CASE (SkipCompleted \/ SkipNode) /\ Shows(pos, "skipped")
  <2>1. /\ pos \in Node /\ pos # g
        /\ view'.nodes[g] = view.nodes[g]
        /\ proc' = proc
    BY <1>4 DEF SkipCompleted, SkipNode, AtNode, Shows, GateIsShown, Over
  <2>2. PhaseTo(pos, "saving")
        /\ (results' = results \/ Settle(pos, "skipped", NoOutput, "none"))
    BY <1>4 DEF SkipCompleted, SkipNode
  <2>3. phase'[g] = phase[g]
    BY <1>1, <2>1, <2>2, PhaseEffect
  <2>4. results'[g].status = results[g].status
    BY <1>1, <2>1, <2>2, SettleEffect, ZenonT(30)
  <2> QED
    BY <2>1, <2>3, <2>4 DEF GateIsShown
<1>5. CASE PauseAtGate /\ Shows(pos, "paused")
  <2>1. /\ pos \in Node /\ pos # g
        /\ view'.nodes[g] = view.nodes[g]
        /\ proc' = proc
    BY <1>5 DEF PauseAtGate, AtNode, Shows, GateIsShown, Over
  <2>2. phase'[g] = phase[g] /\ results'[g] = results[g]
    BY <1>1, <1>5, <2>1 DEF PauseAtGate, PhaseTo, Settle, TypeOK
  <2> QED
    BY <2>1, <2>2 DEF GateIsShown
<1>6. CASE StartNode /\ view' = view
  <2>1. pos # g /\ pos \in Node /\ results' = results /\ proc' = proc /\ PhaseTo(pos, "spawned")
    BY <1>6 DEF StartNode, AtNode, GateIsShown, Over
  <2> QED
    BY <1>1, <1>6, <2>1 DEF GateIsShown, PhaseTo, TypeOK
<1>7. CASE (GoOn \/ ReturnPaused) /\ view'.nodes = view.nodes
  <2>1. pos \in Node /\ results' = results /\ PhaseTo(pos, "done") /\ proc = "running"
    BY <1>7 DEF GoOn, ReturnPaused
  <2>2. phase'[g] \in Over
    BY <1>1, <2>1, PhaseEffect DEF GateIsShown, Over
  <2> QED
    BY <1>7, <2>1, <2>2 DEF GateIsShown
<1>8. CASE (FinishLayer \/ FinishRun) /\ view'.nodes = view.nodes
  BY <1>8 DEF FinishLayer, FinishRun, GateIsShown
<1>9. ASSUME NEW n \in Node, NodeStep(n),
             \A m \in Node : m # n => view'.nodes[m] = view.nodes[m],
             \A m \in Node : m # n => phase'[m] = phase[m] /\ results'[m].status = results[m].status
      PROVE  GateIsShown(g)'
  <2>1. n < pos /\ proc' = proc /\ phase[n] # "none"
    BY <1>1, <1>9, NodeStepPlace
  <2>2. proc # "off"
    BY <1>1, <2>1
  <2>3. g = pos
    BY <1>1, <2>2 DEF PhaseInv, GateIsShown
  <2>4. n # g
    BY <2>1, <2>3
  <2> QED
    BY <1>9, <2>1, <2>4 DEF GateIsShown
<1>10. ASSUME NEW n \in Node,
              \/ NodeStarts(n) /\ Shows(n, "running")
              \/ NodePasses(n) /\ Shows(n, "passed")
              \/ (\E why \in {"own", "canceled"} : NodeFails(n, why)) /\ Shows(n, "failed")
              \/ (NodeSaves(n) \/ SendError(n)) /\ view' = view
       PROVE  GateIsShown(g)'
  <2>1. PICK from, to : Moves(n, from, to)
    BY <1>1, <1>10, NodeMoves
  <2> QED
    BY <1>9, <1>10, <2>1 DEF Moves, NodeStep, Shows
<1>11. ASSUME NEW n \in Node, NEW o \in OutputOf(n), RecordPass(n, o) \/ RecordFailure(n, o),
              view' = view
       PROVE  GateIsShown(g)'
  <2>1. PICK status, why : Decides(n, status, why)
    BY <1>1, <1>11, NodeDecides
  <2> QED
    BY <1>9, <1>11, <2>1 DEF Decides, NodeStep
<1> QED
  BY <1>1, <1>2, <1>3, <1>4, <1>5, <1>6, <1>7, <1>8, <1>10, <1>11, DashboardStep DEF Still

\* Only a mark names or clears a gate.
LEMMA MarksName ==
    ASSUME NEW rs \in RunStates, NEW n \in Node, NEW o
    PROVE  /\ MarkPassed(rs, n, o).paused \in {rs.paused, NoNode}
           /\ MarkFailed(rs, n, o).paused = rs.paused
           /\ MarkSkipped(rs, n).paused = rs.paused
           /\ MarkPaused(rs, n).paused = n
BY DEF MarkPassed, MarkFailed, MarkSkipped, MarkPaused, RunStates

LEMMA NamedByEmit ==
    ASSUME TypeOK, NEW n \in Node, NEW rs, Emit(n, rs), NEW g \in Node, Named(g)'
    PROVE  Named(g) \/ rs.paused = g
<1>1. \A m \in Node : pending'[m] = IF m = n THEN rs ELSE pending[m]
  BY DEF Emit, TypeOK
<1> QED
  BY <1>1 DEF Emit, Named

LEMMA NamedByRename ==
    ASSUME TypeOK, NEW n \in Node, FinishSave(n), NEW g \in Node, Named(g)'
    PROVE  Named(g)
<1>1. \A m \in Node : pending'[m] = IF m = n THEN NoSave ELSE pending[m]
  BY DEF FinishSave, TypeOK
<1>2. pending[n] # NoSave /\ file' \in {file, pending[n]} /\ runState' = runState
  BY DEF FinishSave, TypeOK
<1> QED
  BY <1>1, <1>2 DEF Named

\* A session begins with no gate named: what is named later, it stopped at.
LEMMA NamedStep ==
    ASSUME TypeOK, PausesInv, [Next]_vars, NEW g \in Node, Named(g)'
    PROVE  (Named(g) /\ ~(Run \/ Resume)) \/ (PauseAtGate /\ g = pos)
<1>1. /\ runState \in RunStates /\ NewRun.paused = NoNode
      /\ \A n \in Node : OutputOf(n) \subseteq Output
      /\ g # NoNode
  BY NoNodeAssumption DEF TypeOK, NewRun, OutputOf
<1>2. ~(Run \/ Resume)
  <2>1. CASE Run
    BY <1>1, <2>1 DEF Run, EnterEngine, NewMemory, Named
  <2>2. CASE Resume
    BY <1>1, <2>2 DEF Resume, EnterEngine, NewMemory, Named
  <2> QED
    BY <2>1, <2>2
<1>3. CASE Crash \/ Exit
  BY <1>1, <1>2, <1>3 DEF Crash, Exit, Die, NewMemory, session, Named
<1>4. CASE \E n \in Node : ApproveGate(n)
  BY <1>2, <1>4 DEF ApproveGate, storage, Named
<1>5. CASE SaveApproval
  BY <1>2, <1>5 DEF SaveApproval, PausesInv, Named
<1>6. CASE SkipCompleted
  <2>1. pos \in Node /\ Emit(pos, MarkPassed(runState, pos, results[pos].output))
    BY <1>6 DEF SkipCompleted, AtNode
  <2>2. Named(g) \/ MarkPassed(runState, pos, results[pos].output).paused = g
    BY <2>1, NamedByEmit
  <2>3. MarkPassed(runState, pos, results[pos].output).paused \in {runState.paused, NoNode}
    BY <1>1, <2>1, MarksName
  <2>4. Named(g)
    BY <1>1, <2>2, <2>3 DEF Named
  <2> QED
    BY <1>2, <2>4
<1>7. CASE SkipNode
  <2>1. pos \in Node /\ Emit(pos, MarkSkipped(runState, pos))
    BY <1>7 DEF SkipNode, AtNode
  <2>2. Named(g) \/ MarkSkipped(runState, pos).paused = g
    BY <2>1, NamedByEmit
  <2>3. MarkSkipped(runState, pos).paused = runState.paused
    BY <1>1, <2>1, MarksName
  <2>4. Named(g)
    BY <2>2, <2>3 DEF Named
  <2> QED
    BY <1>2, <2>4
<1>8. CASE PauseAtGate
  <2>1. pos \in Node /\ Emit(pos, MarkPaused(runState, pos))
    BY <1>8 DEF PauseAtGate, AtNode
  <2>2. Named(g) \/ MarkPaused(runState, pos).paused = g
    BY <2>1, NamedByEmit
  <2>3. MarkPaused(runState, pos).paused = pos
    BY <1>1, <2>1, MarksName
  <2> QED
    BY <1>2, <1>8, <2>2, <2>3
<1>9. CASE StartNode \/ FinishLayer \/ FinishRun \/ UNCHANGED vars
  BY <1>2, <1>9 DEF StartNode, FinishLayer, FinishRun, vars, storage, Named
<1>10. CASE GoOn \/ ReturnPaused
  BY <1>2, <1>10, NamedByRename DEF GoOn, ReturnPaused
<1>11. ASSUME NEW n \in Node, NodeStep(n) PROVE Named(g)
  <2>1. CASE NodeStarts(n) \/ NodePasses(n) \/ SendError(n)
             \/ \E why \in {"own", "canceled"} : NodeFails(n, why)
    BY <2>1 DEF NodeStarts, NodePasses, SendError, NodeFails, storage, Named
  <2>2. ASSUME NEW o \in OutputOf(n), RecordPass(n, o) PROVE Named(g)
    <3>1. Named(g) \/ MarkPassed(runState, n, o).paused = g
      BY <2>2, NamedByEmit DEF RecordPass
    <3>2. MarkPassed(runState, n, o).paused \in {runState.paused, NoNode}
      BY <1>1, MarksName
    <3> QED
      BY <1>1, <3>1, <3>2 DEF Named
  <2>3. ASSUME NEW o \in OutputOf(n), RecordFailure(n, o) PROVE Named(g)
    <3>1. Named(g) \/ MarkFailed(runState, n, o).paused = g
      BY <2>3, NamedByEmit DEF RecordFailure
    <3>2. MarkFailed(runState, n, o).paused = runState.paused
      BY <1>1, MarksName
    <3> QED
      BY <3>1, <3>2 DEF Named
  <2>4. CASE NodeSaves(n)
    BY <2>4, NamedByRename DEF NodeSaves
  <2> QED
    BY <1>11, <2>1, <2>2, <2>3, <2>4 DEF NodeStep
<1> QED
  BY <1>2, <1>3, <1>4, <1>5, <1>6, <1>7, <1>8, <1>9, <1>10, <1>11 DEF Next, MainStep

\* The gate a session stops at is shown from the event onNode records for it.
LEMMA PauseShows ==
    ASSUME TypeOK, view \in Model, PauseAtGate, [DashboardNext]_dashboardVars
    PROVE  GateIsShown(pos)'
<1>1. /\ pos \in Node /\ pos' = pos /\ proc = "running" /\ proc' = "running"
      /\ phase[pos] = "none" /\ ~Completed /\ ShouldRun(wf[pos], results)
      /\ Decides(pos, "paused", "none")
  BY LoopDecides DEF PauseAtGate, AtNode, layerVars
<1>2. phase'[pos] = "saving" /\ results'[pos].status = "paused"
  BY <1>1 DEF Decides
<1>3. ~(Run \/ Resume \/ Crash \/ Exit)
  BY <1>1 DEF Run, Resume, EnterEngine, Crash, Exit, Die
<1>4. ~((\E n \in Node : ApproveGate(n)) \/ SaveApproval \/ UNCHANGED vars)
  BY <1>1, <1>2 DEF ApproveGate, SaveApproval, vars
<1>5. ~(SkipCompleted \/ SkipNode)
  BY <1>1 DEF SkipCompleted, SkipNode
<1>6. ~(StartNode \/ GoOn \/ ReturnPaused \/ FinishLayer \/ FinishRun)
  BY <1>1, <1>2, PhaseEffect DEF StartNode, GoOn, ReturnPaused, FinishSave, FinishLayer, FinishRun
<1>7. ASSUME NEW n \in Node, NodeStep(n) PROVE FALSE
  <2>1. PICK from, to : Step(n, from, to)
    BY <1>7 DEF NodeStep, NodeStarts, NodePasses, RecordPass, NodeFails, RecordFailure,
                NodeSaves, SendError
  <2> QED
    BY <1>1, <1>2, <2>1 DEF Step, PhaseTo, TypeOK
<1>8. Shows(pos, "paused")
  BY <1>3, <1>4, <1>5, <1>6, <1>7, DashboardStep DEF NodeStep
<1> QED
  BY <1>1, <1>2, <1>8 DEF Shows, GateIsShown, Over

LEMMA PausesStep ==
    ASSUME Inv, SessionInv, DashboardInv, [DashboardNext]_dashboardVars
    PROVE  PausesInv'
<1>1. TypeOK /\ view \in Model /\ PausesInv /\ [Next]_vars
  BY StepIsLayerStep DEF Inv, DashboardInv, DashboardTypeOK, Model
<1>2. ASSUME NEW g \in Node, Named(g)' PROVE GateIsShown(g)'
  <2>1. CASE Named(g) /\ ~(Run \/ Resume)
    BY <1>1, <2>1, GateStays DEF PausesInv
  <2>2. CASE PauseAtGate /\ g = pos
    <3>1. GateIsShown(pos)'
      BY <1>1, <2>2, PauseShows
    <3>2. pos' = pos
      BY <2>2 DEF PauseAtGate, layerVars
    <3> QED
      BY <2>2, <3>1, <3>2 DEF GateIsShown
  <2> QED
    BY <1>1, <1>2, <2>1, <2>2, NamedStep
<1>3. approval' # NoApproval => approval'.copy.paused = NoNode
  <2>1. ASSUME NEW n \in Node, ApproveGate(n) PROVE approval'.copy.paused = NoNode
    BY <2>1 DEF ApproveGate, Approve
  <2>2. CASE Run \/ Resume \/ SaveApproval \/ Crash \/ Exit \/ UNCHANGED vars
    <3>1. approval' \in {approval, NoApproval}
      BY <2>2 DEF Run, Resume, EnterEngine, SaveApproval, Crash, Exit, Die, vars, session
    <3> QED
      BY <1>1, <3>1 DEF PausesInv
  <2>3. CASE MainStep
    <3>1. approval' = approval
      BY <2>3 DEF MainStep, SkipCompleted, SkipNode, StartNode, PauseAtGate, GoOn, ReturnPaused,
                  FinishLayer, FinishRun, session
    <3> QED
      BY <1>1, <3>1 DEF PausesInv
  <2>4. ASSUME NEW n \in Node, NodeStep(n) PROVE approval' = approval
    BY <2>4 DEF NodeStep, NodeStarts, NodePasses, RecordPass, NodeFails, RecordFailure,
                NodeSaves, SendError, Step, session
  <2>5. CASE \E n \in Node : NodeStep(n)
    BY <1>1, <2>4, <2>5 DEF PausesInv
  <2> QED
    BY <1>1, <2>1, <2>2, <2>3, <2>5 DEF Next
<1> QED
  BY <1>2, <1>3 DEF PausesInv

LEMMA DashboardTypeStep ==
    ASSUME TypeOK, DashboardTypeOK, [DashboardNext]_dashboardVars
    PROVE  DashboardTypeOK'
<1>1. view \in Model /\ TypeOK'
  BY StepIsLayerStep, NextType DEF DashboardTypeOK, Model
<1>2. view' \in Model
  BY <1>1, DashboardStep DEF DashboardTypeOK, Still, Shows
<1> QED
  BY <1>1, <1>2 DEF DashboardTypeOK, Model

LEMMA InitDashboard == DashboardInit => DashboardInv
<1> SUFFICES ASSUME DashboardInit PROVE DashboardInv
  OBVIOUS
<1>1. TypeOK /\ view = NewModel
  BY InitType DEF DashboardInit
<1>2. /\ proc = "off" /\ approval = NoApproval
      /\ \A n \in Node : phase[n] = "none" /\ pending[n] = NoSave
      /\ file.paused = NoNode /\ runState.paused = NoNode
  BY DEF DashboardInit, Init, NewRun
<1>3. DashboardTypeOK
  BY <1>1 DEF DashboardTypeOK, NewModel, Status
<1>4. ShownInv /\ FinalInv /\ PausesInv
  BY <1>1, <1>2 DEF ShownInv, FinalInv, PausesInv, Named, NewModel, Over
<1> QED
  BY <1>3, <1>4 DEF DashboardInv

THEOREM DashboardInvariant == DashboardSpec => []DashboardInv
<1>1. DashboardSpec => []Inv /\ []SessionInv
  <2>1. RefinementInv => SessionInv
    BY DEF RefinementInv
  <2> QED
    BY <2>1, DashboardKeepsLayerRun, LayerRunInvariant, RefinementInvariant, PTL
<1>2. Inv /\ Inv' /\ SessionInv /\ DashboardInv /\ [DashboardNext]_dashboardVars => DashboardInv'
  <2>1. Inv /\ DashboardInv => TypeOK /\ DashboardTypeOK
    BY DEF Inv, DashboardInv
  <2> QED
    BY <2>1, DashboardTypeStep, ShownStep, FinalStep, PausesStep DEF DashboardInv
<1> QED
  BY <1>1, <1>2, InitDashboard, PTL DEF DashboardSpec

\* What "watch" folds from the log is a status it can draw, whichever sessions,
\* crashes and goroutines left their events there.
THEOREM DashboardTypes == DashboardSpec => []DashboardTypeOK
<1>1. DashboardInv => DashboardTypeOK
  BY DEF DashboardInv
<1> QED
  BY <1>1, DashboardInvariant, PTL

\* A workflow shown as passed shows no node as anything but passed or skipped,
\* whatever earlier sessions and abandoned goroutines had recorded.
THEOREM PassedViewsAreFinal == DashboardSpec => []PassedViewIsFinal
<1>1. DashboardInv => PassedViewIsFinal
  BY DEF DashboardInv, FinalInv, PassedViewIsFinal
<1> QED
  BY <1>1, DashboardInvariant, PTL

\* While the engine is off, the gate that the state file waits for is shown as
\* paused, through failed saves, overtaken ones, crashes and approvals.
THEOREM PendingGatesAreShown == DashboardSpec => []PendingGateIsShown
<1>1. DashboardInv => PendingGateIsShown
  <2> SUFFICES ASSUME DashboardInv, file.paused # NoNode
               PROVE  view.nodes[file.paused] = "paused"
    BY DEF PendingGateIsShown
  <2>1. file.paused \in Node
    BY DEF DashboardInv, DashboardTypeOK, TypeOK, RunStates
  <2>2. Named(file.paused)
    BY DEF Named
  <2> QED
    BY <2>1, <2>2 DEF DashboardInv, PausesInv, GateIsShown
<1> QED
  BY <1>1, DashboardInvariant, PTL
=============================================================================
