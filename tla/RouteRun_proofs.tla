-------------------------- MODULE RouteRun_proofs --------------------------
(***************************************************************************)
(* Proofs about RouteRun: for every set of workflows whose dependencies    *)
(* point back in the plan, every bound on sessions, and whichever saves    *)
(* fail.  The last part proves that it implements WorkflowRun.             *)
(***************************************************************************)
EXTENDS RouteRun, FiniteSetTheorems, WellFoundedInduction, TLAPS

USE OutputAssumption, NoNodeAssumption, SizeAssumption, BoundsAssumption, NewTextAssumption

-----------------------------------------------------------------------------
(* Typing of the operators of RunState and of the workflow.                *)

LEMMA MarksType ==
    ASSUME NEW rs \in RunStates, NEW n \in Node, NEW o \in Output
    PROVE  /\ MarkPassed(rs, n, o) \in RunStates
           /\ MarkFailed(rs, n, o) \in RunStates
           /\ MarkSkipped(rs, n) \in RunStates
           /\ MarkPaused(rs, n) \in RunStates
           /\ Approve(rs, n) \in RunStates
<1>1. /\ rs.nodes \in [Node -> NodeState]
      /\ rs.paused \in Node \cup {NoNode}
      /\ rs = [nodes |-> rs.nodes, paused |-> rs.paused]
  BY DEF RunStates
<1>2. /\ Unmarked("passed", o) \in NodeState
      /\ Unmarked("failed", o) \in NodeState
      /\ Unmarked("skipped", NoOutput) \in NodeState
      /\ Unmarked("paused", NoOutput) \in NodeState
  BY DEF Unmarked, NodeState, ResultStatus
<1>3. MarkPassed(rs, n, o) \in RunStates
  BY <1>1, <1>2 DEF MarkPassed, RunStates
<1>4. MarkFailed(rs, n, o) \in RunStates
  BY <1>1, <1>2 DEF MarkFailed, RunStates
<1>5. MarkSkipped(rs, n) \in RunStates
  BY <1>1, <1>2 DEF MarkSkipped, RunStates
<1>6. MarkPaused(rs, n) \in RunStates
  BY <1>1, <1>2 DEF MarkPaused, RunStates
<1>7. Approve(rs, n) \in RunStates
  <2>1. rs.nodes[n] \in NodeState
    BY <1>1
  <2>2. [rs.nodes[n] EXCEPT !.status = "passed", !.reviewed = TRUE] \in NodeState
    BY <2>1 DEF NodeState, ResultStatus
  <2> QED
    BY <1>1, <2>2 DEF Approve, RunStates
<1> QED
  BY <1>3, <1>4, <1>5, <1>6, <1>7

LEMMA NewRunType == NewRun \in RunStates
BY DEF NewRun, RunStates, NodeState, ResultStatus, Unmarked

LEMMA InitialResultsType ==
    ASSUME NEW rs \in RunStates
    PROVE  InitialResults(rs) \in [Node -> NodeResult]
BY DEF InitialResults, SnapshotsFromState, RunStates, NodeState, NodeResult,
       NoResult, ResultStatus

LEMMA WorkflowType ==
    ASSUME TypeOK, NEW n \in Node
    PROVE  /\ wf[n] \in RouteConf
           /\ wf[n].deps \subseteq 1..(n - 1) /\ wf[n].deps \subseteq Node
           /\ wf[n].maxIterations \in Nat /\ wf[n].maxRepeated \in Nat
           /\ wf[n].maxIterations <= CounterBound /\ wf[n].maxRepeated <= CounterBound
           /\ wf[n].routeTo \in Node \cup {NoNode}
           /\ wf[n].when.ref \in Node
<1>1. wf \in [Node -> RouteConf]
  BY WorkflowsAssumption DEF TypeOK
<1>2. wf[n] \in RouteConf
  BY <1>1
<1>3. /\ wf[n].deps \subseteq Node
      /\ wf[n].maxIterations \in Nat /\ wf[n].maxRepeated \in Nat
      /\ wf[n].routeTo \in Node \cup {NoNode}
      /\ wf[n].when \in WhenExpr
  BY <1>2 DEF RouteConf
<1>4. wf[n].when.ref \in Node
  BY <1>3 DEF WhenExpr
<1>5. /\ wf[n].deps \subseteq 1..(n - 1)
      /\ wf[n].maxIterations <= CounterBound /\ wf[n].maxRepeated <= CounterBound
  BY WorkflowsAssumption DEF TypeOK
<1> QED
  BY <1>2, <1>3, <1>4, <1>5

LEMMA BumpType ==
    ASSUME NEW c \in Nat PROVE Bump(c) \in Nat /\ c <= Bump(c) /\ Bump(c) <= c + 1
BY DEF Bump

-----------------------------------------------------------------------------
(* Type correctness.                                                       *)

LEMMA InitType == Init => TypeOK
BY NewRunType DEF Init, TypeOK, NodeResult, NoResult, ResultStatus

LEMMA PersistType ==
    ASSUME TypeOK, NEW rs \in RunStates, Persist(rs)
    PROVE  (runState \in RunStates)' /\ (file \in RunStates)' /\ (saved \in BOOLEAN)'
BY DEF Persist, TypeOK

LEMMA SettleType ==
    ASSUME TypeOK, pos \in Node, NEW status \in ResultStatus, NEW o \in Output,
           Settle(status, o)
    PROVE  /\ (results \in [Node -> NodeResult])'
           /\ (fresh \subseteq Node)' /\ (stale \subseteq Node)'
BY DEF Settle, TypeOK, NodeResult

\* TypeOK but for the variables EnterEngine leaves to its callers.
EngineTypes ==
    /\ wf \in Workflows
    /\ proc \in {"off", "loop"}
    /\ pos \in 1..(Size + 1)
    /\ results \in [Node -> NodeResult]
    /\ routeAttempts \in [Node -> Nat]
    /\ repeatedFailures \in [Node -> [Output -> Nat]]
    /\ outcome \in {"none", "failed"}
    /\ sessions \in Nat
    /\ fresh \subseteq Node
    /\ execs \in [Node -> Nat]

LEMMA EnterEngineType ==
    ASSUME TypeOK, NEW initial \in [Node -> NodeResult], EnterEngine(initial)
    PROVE  EngineTypes'
<1>1. 1 \in 1..(Size + 1)
  OBVIOUS
<1>2. [n \in Node |-> 0] \in [Node -> Nat]
  OBVIOUS
<1>3. [n \in Node |-> [o \in Output |-> 0]] \in [Node -> [Output -> Nat]]
  OBVIOUS
<1>4. (proc \in {"off", "loop"})' /\ (outcome \in {"none", "failed"})'
  BY DEF EnterEngine, NewMemory
<1> QED
  BY <1>1, <1>2, <1>3, <1>4 DEF EnterEngine, NewMemory, EngineTypes, TypeOK

LEMMA ContinueType ==
    ASSUME pos \in Node, Continue
    PROVE  /\ pos' \in 1..(Size + 1) /\ proc' = "loop"
           /\ UNCHANGED <<wf, outcome, sessions, routeAttempts, repeatedFailures>>
BY DEF Continue

LEMMA CountersType ==
    ASSUME TypeOK, pos \in Node, NEW o \in Output, NEW f \in Fingerprints(o)
    PROVE  /\ CountFailure(f) => (repeatedFailures \in [Node -> [Output -> Nat]])'
           /\ CountAttempt => (routeAttempts \in [Node -> Nat])'
<1>1. repeatedFailures[pos] \in [Output -> Nat] /\ routeAttempts[pos] \in Nat
  BY DEF TypeOK
<1>2. /\ Bump(repeatedFailures[pos][o]) \in Nat
      /\ Bump(routeAttempts[pos]) \in Nat
  BY <1>1, BumpType
<1>3. [repeatedFailures[pos] EXCEPT ![o] = Bump(repeatedFailures[pos][o])] \in [Output -> Nat]
  BY <1>1, <1>2
<1>4. CountFailure(f) => (repeatedFailures \in [Node -> [Output -> Nat]])'
  <2>1. repeatedFailures \in [Node -> [Output -> Nat]]
    BY DEF TypeOK
  <2>2. f = o \/ f = NewText
    BY DEF Fingerprints
  <2>3. CountFailure(f) =>
          \/ repeatedFailures' = repeatedFailures
          \/ repeatedFailures' = [repeatedFailures EXCEPT ![pos] =
               [repeatedFailures[pos] EXCEPT ![o] = Bump(repeatedFailures[pos][o])]]
    BY <2>2 DEF CountFailure
  <2> QED
    BY <1>3, <2>1, <2>3
<1>5. CountAttempt => (routeAttempts \in [Node -> Nat])'
  BY <1>2 DEF CountAttempt, TypeOK
<1> QED
  BY <1>4, <1>5

LEMMA NextType == TypeOK /\ [Next]_vars => TypeOK'
<1> SUFFICES ASSUME TypeOK, [Next]_vars PROVE TypeOK'
  OBVIOUS
<1>1. CASE Run
  <2>1. [n \in Node |-> NoResult] \in [Node -> NodeResult]
    BY DEF NodeResult, NoResult, ResultStatus
  <2>2. EnterEngine([n \in Node |-> NoResult])
    BY <1>1 DEF Run
  <2>3. runState' \in RunStates /\ file' \in RunStates /\ saved' = TRUE
        /\ stale' = {} /\ reviewed' = {}
    BY <1>1, NewRunType DEF Run
  <2>4. EngineTypes'
    BY <2>1, <2>2, EnterEngineType
  <2> QED
    BY <2>3, <2>4 DEF EngineTypes, TypeOK
<1>2. CASE Resume
  <2>1. InitialResults(file) \in [Node -> NodeResult]
    BY InitialResultsType DEF TypeOK
  <2>2. EnterEngine(InitialResults(file))
    BY <1>2 DEF Resume
  <2>3. runState' \in RunStates /\ saved' = TRUE /\ UNCHANGED <<file, stale, reviewed>>
    BY <1>2 DEF Resume, TypeOK
  <2>4. EngineTypes'
    BY <2>1, <2>2, EnterEngineType
  <2> QED
    BY <2>3, <2>4 DEF EngineTypes, TypeOK
<1>3. ASSUME NEW n \in Node, ApproveGate(n) PROVE TypeOK'
  <2>1. Approve(file, n) \in RunStates
    BY MarksType DEF TypeOK
  <2> QED
    BY <1>3, <2>1 DEF ApproveGate, TypeOK, engine
<1>4. CASE Crash
  <2>1. [n \in Node |-> NoResult] \in [Node -> NodeResult] /\ 1 \in 1..(Size + 1)
    BY DEF NodeResult, NoResult, ResultStatus
  <2>2. /\ pos' \in 1..(Size + 1) /\ results' \in [Node -> NodeResult]
        /\ routeAttempts' \in [Node -> Nat] /\ execs' \in [Node -> Nat]
        /\ repeatedFailures' \in [Node -> [Output -> Nat]] /\ fresh' = {}
    BY <1>4, <2>1 DEF Crash, NewMemory
  <2> QED
    BY <1>4, <2>2, NewRunType DEF Crash, TypeOK
<1>5. CASE SkipCompleted
  <2>1. pos \in Node /\ results[pos].output \in Output
    BY <1>5 DEF SkipCompleted, AtNode, TypeOK, NodeResult
  <2>2. MarkPassed(runState, pos, results[pos].output) \in RunStates
    BY <2>1, MarksType DEF TypeOK
  <2> QED
    BY <1>5, <2>1, <2>2, PersistType, ContinueType DEF SkipCompleted, TypeOK, history
<1>6. CASE SkipNode
  <2>1. pos \in Node /\ MarkSkipped(runState, pos) \in RunStates
    BY <1>6, MarksType DEF SkipNode, AtNode, TypeOK
  <2>2. Settle("skipped", NoOutput) /\ "skipped" \in ResultStatus
    BY <1>6 DEF SkipNode, ResultStatus
  <2> QED
    BY <1>6, <2>1, <2>2, PersistType, SettleType, ContinueType DEF SkipNode, TypeOK
<1>7. CASE PauseAtGate
  <2>1. pos \in Node /\ MarkPaused(runState, pos) \in RunStates
    BY <1>7, MarksType DEF PauseAtGate, AtNode, TypeOK
  <2>2. Settle("paused", NoOutput) /\ "paused" \in ResultStatus
    BY <1>7 DEF PauseAtGate, ResultStatus
  <2> QED
    BY <1>7, <2>1, <2>2, PersistType, SettleType DEF PauseAtGate, Return, TypeOK
<1>8. CASE StartNode
  BY <1>8, BumpType DEF StartNode, AtNode, TypeOK, engine, storage
<1>9. ASSUME NEW o \in Output, NodePasses(o) PROVE TypeOK'
  <2>1. pos \in Node /\ MarkPassed(runState, pos, o) \in RunStates
    BY <1>9, MarksType DEF NodePasses, TypeOK
  <2>2. Settle("passed", o) /\ "passed" \in ResultStatus
    BY <1>9 DEF NodePasses, ResultStatus
  <2> QED
    BY <1>9, <2>1, <2>2, PersistType, SettleType, ContinueType DEF NodePasses, TypeOK
<1>10. ASSUME NEW o \in Output, NodeFails(o)
       PROVE  /\ pos \in Node
              /\ (runState \in RunStates)' /\ (file \in RunStates)'
              /\ (saved \in BOOLEAN)'
              /\ UNCHANGED <<reviewed, execs>>
  <2>1. pos \in Node /\ MarkFailed(runState, pos, o) \in RunStates
    BY <1>10, MarksType DEF NodeFails, TypeOK
  <2> QED
    BY <1>10, <2>1, PersistType DEF NodeFails
<1>11. ASSUME NEW o \in Output, FailWithoutRoute(o) \/ FailExhausted(o) \/ FailRepeated(o)
       PROVE  TypeOK'
  <2>1. NodeFails(o) /\ Settle("failed", o) /\ "failed" \in ResultStatus /\ Return("failed")
    BY <1>11 DEF FailWithoutRoute, FailExhausted, FailRepeated, ResultStatus
  <2>2. /\ (routeAttempts \in [Node -> Nat])'
        /\ (repeatedFailures \in [Node -> [Output -> Nat]])'
    <3>1. CASE FailWithoutRoute(o) \/ FailExhausted(o)
      BY <3>1 DEF FailWithoutRoute, FailExhausted, TypeOK
    <3>2. CASE FailRepeated(o)
      <4>1. PICK f \in Fingerprints(o) : CountFailure(f)
        BY <3>2 DEF FailRepeated
      <4>2. routeAttempts' = routeAttempts /\ pos \in Node
        BY <1>10, <2>1, <3>2 DEF FailRepeated
      <4> QED
        BY <4>1, <4>2, CountersType DEF TypeOK
    <3> QED
      BY <1>11, <3>1, <3>2
  <2> QED
    BY <1>10, <2>1, <2>2, SettleType DEF Return, TypeOK
<1>12. ASSUME NEW o \in Output, RouteBack(o) PROVE TypeOK'
  <2>. PICK f \in Fingerprints(o) : CountFailure(f)
    BY <1>12 DEF RouteBack
  <2>1. NodeFails(o) /\ CountFailure(f) /\ CountAttempt /\ pos \in Node
    BY <1>10, <1>12 DEF RouteBack
  <2>2. wf[pos].routeTo \in Node
    BY <1>12, <2>1, WorkflowType DEF RouteBack, HasRoute
  <2>3. (results \in [Node -> NodeResult])'
    BY <1>12 DEF RouteBack, Cleared, TypeOK, NodeResult, NoResult, ResultStatus
  <2>4. (fresh \subseteq Node)' /\ (stale \subseteq Node)'
    BY <1>12 DEF RouteBack, TypeOK, Passed
  <2>5. /\ (routeAttempts \in [Node -> Nat])'
        /\ (repeatedFailures \in [Node -> [Output -> Nat]])'
    BY <2>1, CountersType
  <2>6. /\ pos' \in 1..(Size + 1) /\ proc' = "loop"
        /\ UNCHANGED <<wf, outcome, sessions>>
    BY <1>12, <2>2 DEF RouteBack, TargetPos
  <2> QED
    BY <1>10, <2>1, <2>3, <2>4, <2>5, <2>6 DEF TypeOK
<1>13. CASE Complete
  BY <1>13 DEF Complete, Return, TypeOK, storage, history
<1>14. CASE UNCHANGED vars
  BY <1>14 DEF vars, TypeOK, engine, storage, history
<1> QED
  BY <1>1, <1>2, <1>3, <1>4, <1>5, <1>6, <1>7, <1>8, <1>9, <1>11, <1>12, <1>13,
     <1>14 DEF Next, EngineStep, Finishes

\* Type correctness of a run with failure routes, over all its sessions.
THEOREM RouteRunTypeOK == Spec => []TypeOK
BY InitType, NextType, PTL DEF Spec

-----------------------------------------------------------------------------
(* What the parts of a step do to single nodes.                            *)

LEMMA FailedEffect ==
    ASSUME NEW rs \in RunStates, NEW n \in Node, NEW o \in Output, NEW m \in Node
    PROVE  MarkFailed(rs, n, o).nodes[m] =
              IF m = n THEN Unmarked("failed", o) ELSE rs.nodes[m]
BY DEF MarkFailed, RunStates

LEMMA PassedEffect ==
    ASSUME NEW rs \in RunStates, NEW n \in Node, NEW o \in Output, NEW m \in Node
    PROVE  MarkPassed(rs, n, o).nodes[m] =
              IF m = n THEN Unmarked("passed", o) ELSE rs.nodes[m]
BY DEF MarkPassed, RunStates

LEMMA SilentMarksEffect ==
    ASSUME NEW rs \in RunStates, NEW n \in Node, NEW m \in Node
    PROVE  /\ MarkSkipped(rs, n).nodes[m] =
                 IF m = n THEN Unmarked("skipped", NoOutput) ELSE rs.nodes[m]
           /\ MarkPaused(rs, n).nodes[m] =
                 IF m = n THEN Unmarked("paused", NoOutput) ELSE rs.nodes[m]
BY DEF MarkSkipped, MarkPaused, RunStates

LEMMA ApproveEffect ==
    ASSUME NEW rs \in RunStates, NEW n \in Node, NEW m \in Node
    PROVE  /\ Approve(rs, n).nodes[m].status =
                 IF m = n THEN "passed" ELSE rs.nodes[m].status
           /\ Approve(rs, n).nodes[m].output = rs.nodes[m].output
<1>1. rs.nodes \in [Node -> NodeState] /\ rs.nodes[n] \in NodeState
  BY DEF RunStates
<1> QED
  BY <1>1 DEF Approve, NodeState

LEMMA SettleEffect ==
    ASSUME TypeOK, pos \in Node, NEW status, NEW o, Settle(status, o)
    PROVE  /\ results'[pos].status = status /\ results'[pos].output = o
           /\ \A m \in Node : m # pos => results'[m] = results[m]
           /\ fresh' = fresh \cup {pos}
BY DEF Settle, TypeOK

LEMMA InitialResultsEffect ==
    ASSUME NEW rs \in RunStates, NEW n \in Node
    PROVE  InitialResults(rs)[n].status = "passed" <=> rs.nodes[n].status = "passed"
BY DEF InitialResults, SnapshotsFromState, NoResult

\* The steps that change only proc, outcome and the bookkeeping of executions.
Quiet ==
    /\ proc # "off" \/ proc' = "off"
    /\ proc' # "off" => outcome' = outcome
    /\ UNCHANGED <<wf, pos, results, routeAttempts, repeatedFailures, storage,
                   fresh, stale, reviewed>>

\* The failures that end the session.
Halts(o) == FailWithoutRoute(o) \/ FailExhausted(o) \/ FailRepeated(o)

LEMMA StepKinds ==
    ASSUME [Next]_vars
    PROVE  \/ Run
           \/ Resume
           \/ \E n \in Node : ApproveGate(n)
           \/ Crash
           \/ Quiet
           \/ SkipCompleted
           \/ SkipNode
           \/ PauseAtGate
           \/ \E o \in Output : NodePasses(o)
           \/ \E o \in Output : Halts(o)
           \/ \E o \in Output : RouteBack(o)
<1>2. StartNode => Quiet
  BY DEF StartNode, AtNode, Quiet, engine
<1>3. Complete => Quiet
  BY DEF Complete, Return, Quiet, history
<1>4. UNCHANGED vars => Quiet
  BY DEF vars, Quiet, engine, history
<1> QED
  BY <1>2, <1>3, <1>4 DEF Next, EngineStep, Finishes, Halts

LEMMA HaltsEffect ==
    ASSUME TypeOK, NEW o \in Output, Halts(o)
    PROVE  /\ NodeFails(o) /\ Settle("failed", o) /\ proc = "exec" /\ pos \in Node
           /\ UNCHANGED <<wf, pos, reviewed>> /\ proc' = "off"
BY DEF Halts, FailWithoutRoute, FailExhausted, FailRepeated, NodeFails, Return, TypeOK

-----------------------------------------------------------------------------
(* The session and the node in execution.                                  *)

LEMMA SessionStep ==
    ASSUME TypeOK, SessionInv, [Next]_vars
    PROVE  SessionInv'
<1>1. CASE Run
  BY <1>1 DEF Run, EnterEngine, NewMemory, SessionInv, RoutesPointBack, HasRoute, NewRun
<1>2. CASE Resume
  BY <1>2 DEF Resume, EnterEngine, NewMemory, SessionInv, RoutesPointBack, HasRoute
<1>3. ASSUME NEW n \in Node, ApproveGate(n) PROVE SessionInv'
  BY <1>3 DEF ApproveGate, SessionInv
<1>4. CASE Quiet
  BY <1>4 DEF Quiet, SessionInv, RoutesPointBack, HasRoute, storage
<1>5. CASE SkipCompleted
  <2>1. pos \in Node /\ runState'.paused = NoNode
    <3>1. /\ pos \in Node /\ runState.paused = NoNode
          /\ runState' = MarkPassed(runState, pos, results[pos].output)
      BY <1>5 DEF SkipCompleted, AtNode, Persist, SessionInv
    <3> QED
      BY <3>1 DEF MarkPassed, MarkFailed
  <2> QED
    BY <1>5, <2>1 DEF SkipCompleted, AtNode, Continue, Persist, SessionInv,
                      RoutesPointBack, HasRoute, history, TypeOK
<1>6. CASE SkipNode
  <2>1. pos \in Node /\ runState'.paused = NoNode
    BY <1>6 DEF SkipNode, AtNode, Persist, SessionInv, MarkSkipped
  <2> QED
    BY <1>6, <2>1 DEF SkipNode, AtNode, Continue, Settle, Persist, SessionInv,
                      RoutesPointBack, HasRoute, TypeOK
<1>7. CASE PauseAtGate
  BY <1>7 DEF PauseAtGate, Return, SessionInv
<1>8. ASSUME NEW o \in Output, NodePasses(o) PROVE SessionInv'
  <2>1. pos \in Node /\ runState'.paused = NoNode
    <3>1. /\ pos \in Node /\ runState.paused = NoNode
          /\ runState' = MarkPassed(runState, pos, o)
      BY <1>8 DEF NodePasses, Persist, SessionInv, TypeOK
    <3> QED
      BY <3>1 DEF MarkPassed, MarkFailed
  <2>2. /\ wf' = wf /\ outcome' = outcome /\ repeatedFailures' = repeatedFailures
        /\ pos' = pos + 1 /\ fresh' = fresh \cup {pos} /\ proc # "off"
    BY <1>8 DEF NodePasses, Continue, Settle
  <2>3. \A n \in fresh' : n < pos'
    <3>1. \A n \in fresh : n \in Node /\ n < pos
      BY <2>2 DEF SessionInv, TypeOK
    <3> QED
      BY <2>1, <2>2, <3>1
  <2> QED
    BY <2>1, <2>2, <2>3 DEF SessionInv, RoutesPointBack, HasRoute
<1>9. ASSUME NEW o \in Output, Halts(o) PROVE SessionInv'
  BY <1>9, HaltsEffect DEF SessionInv
<1>10. ASSUME NEW o \in Output, RouteBack(o) PROVE SessionInv'
  <2>1. pos \in Node /\ runState'.paused = NoNode /\ proc = "exec"
    <3>1. /\ pos \in Node /\ runState.paused = NoNode /\ proc = "exec"
          /\ runState' = MarkFailed(runState, pos, o)
      BY <1>10 DEF RouteBack, NodeFails, Persist, SessionInv, TypeOK
    <3> QED
      BY <3>1 DEF MarkPassed, MarkFailed
  <2>2. RoutesPointBack' /\ wf' = wf /\ outcome' = "none"
    BY <1>10, <2>1 DEF RouteBack, SessionInv, RoutesPointBack, HasRoute
  <2>3. wf[pos].routeTo \in Node
    BY <1>10, <2>1, WorkflowType DEF RouteBack, HasRoute
  <2>4. \A n \in fresh' : n < pos'
    <3>1. fresh' = fresh \ (wf[pos].routeTo..pos) /\ pos' = wf[pos].routeTo
      BY <1>10 DEF RouteBack, Rerun, TargetPos
    <3>2. \A n \in fresh : n \in Node /\ n < pos
      BY <2>1 DEF SessionInv, TypeOK
    <3> QED
      BY <2>1, <2>3, <3>1, <3>2
  <2>. PICK g \in Fingerprints(o) : ~Repeats(pos, g) /\ CountFailure(g)
    BY <1>10 DEF RouteBack
  <2>5. ASSUME NEW n \in Node, NEW f \in Output, wf[n].maxRepeated > 0
        PROVE  repeatedFailures'[n][f] < wf[n].maxRepeated
    <3>1. repeatedFailures[n][f] < wf[n].maxRepeated
      BY <2>1, <2>5 DEF SessionInv
    <3>2. CASE n = pos /\ f = g
      <4>1. repeatedFailures[n][f] \in Nat /\ wf[n].maxRepeated \in Nat
        <5>1. repeatedFailures[n] \in [Output -> Nat]
          BY DEF TypeOK
        <5> QED
          BY <5>1, WorkflowType
      <4>2. repeatedFailures[n][f] + 1 < wf[n].maxRepeated
        BY <2>5, <3>2, <4>1 DEF Repeats, CountedFailures
      <4>3. repeatedFailures'[n][f] = Bump(repeatedFailures[n][f])
        BY <2>5, <3>2, <4>1 DEF CountFailure, TypeOK
      <4> QED
        <5>1. Bump(repeatedFailures[n][f]) \in Nat
              /\ Bump(repeatedFailures[n][f]) <= repeatedFailures[n][f] + 1
          BY <4>1, BumpType
        <5> QED
          BY <4>1, <4>2, <4>3, <5>1, SMTT(30)
    <3>3. CASE ~(n = pos /\ f = g)
      <4>1. repeatedFailures'[n][f] = repeatedFailures[n][f]
        BY <2>1, <3>3 DEF CountFailure, TypeOK
      <4> QED
        BY <3>1, <4>1
    <3> QED
      BY <3>2, <3>3
  <2> QED
    BY <2>1, <2>2, <2>4, <2>5 DEF SessionInv
<1>11. Crash => SessionInv'
  BY DEF Crash, SessionInv
<1> QED
  BY <1>1, <1>2, <1>3, <1>4, <1>5, <1>6, <1>7, <1>8, <1>9, <1>10, <1>11, StepKinds

LEMMA ExecutionStep ==
    ASSUME TypeOK, ExecutionInv, [Next]_vars
    PROVE  ExecutionInv'
<1>1. CASE proc' # "exec"
  BY <1>1 DEF ExecutionInv
<1>2. CASE StartNode
  BY <1>2 DEF StartNode, ExecutionInv, engine
<1>3. CASE UNCHANGED <<wf, proc, pos, results>>
  BY <1>3 DEF ExecutionInv
<1>4. proc' = "exec" => StartNode \/ UNCHANGED <<wf, proc, pos, results>>
  BY DEF Next, EngineStep, Finishes, Run, Resume, EnterEngine, ApproveGate, Crash,
         SkipCompleted, SkipNode, PauseAtGate, NodePasses, FailWithoutRoute,
         FailExhausted, FailRepeated, RouteBack, Complete, Continue, Return,
         vars, engine
<1> QED
  BY <1>1, <1>2, <1>3, <1>4

-----------------------------------------------------------------------------
(* The prefix behind the loop.                                             *)

LEMMA PrefixStep ==
    ASSUME TypeOK, SessionInv, PrefixIsSettled, [Next]_vars
    PROVE  PrefixIsSettled'
<1>1. CASE pos' = 1
  BY <1>1 DEF PrefixIsSettled
<1>2. CASE UNCHANGED <<pos, results>>
  BY <1>2 DEF PrefixIsSettled
<1>3. CASE SkipCompleted
  BY <1>3, SMTT(30) DEF SkipCompleted, AtNode, Completed, Continue, PrefixIsSettled, TypeOK
<1>4. ASSUME NEW status \in {"passed", "skipped"}, NEW o,
             pos \in Node, Settle(status, o), Continue
      PROVE  PrefixIsSettled'
  <2>1. results'[pos].status = status /\ \A m \in Node : m # pos => results'[m] = results[m]
    BY <1>4, SettleEffect
  <2>2. pos' = pos + 1
    BY <1>4 DEF Continue
  <2>3. ASSUME NEW n \in Node, n < pos'
        PROVE  results'[n].status \in {"passed", "skipped"}
    <3>1. n = pos \/ n < pos
      BY <1>4, <2>2, <2>3
    <3> QED
      BY <1>4, <2>1, <3>1 DEF PrefixIsSettled
  <2> QED
    BY <2>3 DEF PrefixIsSettled
<1>5. ASSUME NEW status, NEW o, pos \in Node, Settle(status, o), pos' = pos
      PROVE  PrefixIsSettled'
  <2>1. \A m \in Node : m # pos => results'[m] = results[m]
    BY <1>5, SettleEffect
  <2>2. \A m \in Node : m < pos => m # pos
    BY <1>5
  <2> QED
    BY <1>5, <2>1, <2>2 DEF PrefixIsSettled
<1>6. ASSUME NEW o \in Output, RouteBack(o) PROVE PrefixIsSettled'
  <2>1. pos \in Node /\ wf[pos].routeTo < pos /\ wf[pos].routeTo \in Node
    BY <1>6, WorkflowType
       DEF RouteBack, NodeFails, SessionInv, RoutesPointBack, HasRoute, TypeOK
  <2>2. \A n \in Node : n < wf[pos].routeTo => results'[n] = results[n]
    BY <1>6, <2>1 DEF RouteBack, Cleared, Rerun, TargetPos
  <2> QED
    BY <1>6, <2>1, <2>2 DEF RouteBack, TargetPos, PrefixIsSettled
<1>7. CASE SkipNode
  BY <1>4, <1>7 DEF SkipNode, AtNode
<1>8. CASE PauseAtGate
  BY <1>5, <1>8 DEF PauseAtGate, AtNode, Return
<1>9. ASSUME NEW o \in Output, NodePasses(o) PROVE PrefixIsSettled'
  BY <1>4, <1>9 DEF NodePasses, TypeOK
<1>10. ASSUME NEW o \in Output, Halts(o) PROVE PrefixIsSettled'
  BY <1>5, <1>10, HaltsEffect
<1>11. (Run \/ Resume \/ Crash) => pos' = 1
  BY DEF Run, Resume, Crash, EnterEngine, NewMemory
<1>12. ((\E n \in Node : ApproveGate(n)) \/ Quiet) => UNCHANGED <<pos, results>>
  BY DEF ApproveGate, Quiet, engine
<1> QED
  BY <1>1, <1>2, <1>3, <1>6, <1>7, <1>8, <1>9, <1>10, <1>11, <1>12, StepKinds

-----------------------------------------------------------------------------
(* Gates and pauses.                                                       *)

\* A gate nobody approved is passed nowhere.
GateIsOpen(n) ==
    /\ results[n].status # "passed"
    /\ runState.nodes[n].status # "passed"
    /\ file.nodes[n].status # "passed"

LEMMA GatesStep ==
    ASSUME TypeOK, ExecutionInv, GatesAreReviewed, [Next]_vars
    PROVE  GatesAreReviewed'
<1> SUFFICES ASSUME NEW n \in Node, wf'[n].kind = "human_gate", n \notin reviewed'
             PROVE  GateIsOpen(n)'
  BY DEF GatesAreReviewed, GateIsOpen
<1>1. CASE Run
  BY <1>1 DEF Run, EnterEngine, NewMemory, NewRun, Unmarked, NoResult, GateIsOpen
<1>2. ASSUME wf[n].kind = "human_gate", n \notin reviewed
      PROVE  GateIsOpen(n)
  BY <1>2 DEF GatesAreReviewed, GateIsOpen
<1>3. CASE Resume
  <2>1. /\ wf' = wf /\ reviewed' = reviewed /\ file' = file /\ runState' = file
        /\ results' = InitialResults(file)
    BY <1>3 DEF Resume, EnterEngine, NewMemory
  <2>2. file.nodes[n].status # "passed"
    BY <1>2, <2>1 DEF GateIsOpen
  <2>3. InitialResults(file)[n].status # "passed"
    BY <2>2, InitialResultsEffect DEF TypeOK
  <2> QED
    BY <2>1, <2>2, <2>3 DEF GateIsOpen
<1>4. ASSUME NEW g \in Node, ApproveGate(g) PROVE GateIsOpen(n)'
  <2>1. /\ wf' = wf /\ reviewed' = reviewed \cup {g} /\ results' = results
        /\ runState' = runState /\ file' = Approve(file, g)
    BY <1>4 DEF ApproveGate, engine
  <2>2. n # g /\ GateIsOpen(n)
    BY <1>2, <2>1
  <2>3. file \in RunStates
    BY DEF TypeOK
  <2>4. Approve(file, g).nodes[n].status = file.nodes[n].status
    BY <2>2, <2>3, ApproveEffect
  <2> QED
    BY <2>1, <2>2, <2>4 DEF GateIsOpen
<1>5. CASE Quiet
  BY <1>2, <1>5 DEF Quiet, storage, GateIsOpen
<1>6. ASSUME wf' = wf, reviewed' = reviewed,
             NEW rs, Persist(rs), rs.nodes[n].status # "passed",
             results'[n].status # "passed"
      PROVE  GateIsOpen(n)'
  BY <1>2, <1>6 DEF Persist, GateIsOpen
<1>7. CASE SkipCompleted
  <2>1. /\ wf' = wf /\ reviewed' = reviewed /\ results' = results /\ pos \in Node
        /\ results[pos].status = "passed" /\ results[pos].output \in Output
        /\ Persist(MarkPassed(runState, pos, results[pos].output))
    BY <1>7 DEF SkipCompleted, AtNode, Completed, Continue, history, TypeOK, NodeResult
  <2>2. GateIsOpen(n) /\ n # pos
    BY <1>2, <2>1 DEF GateIsOpen
  <2>3. MarkPassed(runState, pos, results[pos].output).nodes[n] = runState.nodes[n]
    BY <2>1, <2>2, PassedEffect DEF TypeOK
  <2> QED
    BY <1>6, <2>1, <2>2, <2>3 DEF GateIsOpen
<1>8. CASE SkipNode
  <2>1. /\ wf' = wf /\ reviewed' = reviewed /\ pos \in Node
        /\ Persist(MarkSkipped(runState, pos)) /\ Settle("skipped", NoOutput)
    BY <1>8 DEF SkipNode, AtNode, Continue
  <2>2. MarkSkipped(runState, pos).nodes[n].status # "passed"
    <3>1. runState \in RunStates /\ GateIsOpen(n)
      BY <1>2, <2>1 DEF TypeOK
    <3> QED
      BY <2>1, <3>1, SilentMarksEffect DEF GateIsOpen, Unmarked
  <2>3. results'[n].status # "passed"
    BY <1>2, <2>1, SettleEffect DEF GateIsOpen
  <2> QED
    BY <1>6, <2>1, <2>2, <2>3
<1>9. CASE PauseAtGate
  <2>1. /\ wf' = wf /\ reviewed' = reviewed /\ pos \in Node
        /\ Persist(MarkPaused(runState, pos)) /\ Settle("paused", NoOutput)
    BY <1>9 DEF PauseAtGate, AtNode, Return
  <2>2. MarkPaused(runState, pos).nodes[n].status # "passed"
    <3>1. runState \in RunStates /\ GateIsOpen(n)
      BY <1>2, <2>1 DEF TypeOK
    <3> QED
      BY <2>1, <3>1, SilentMarksEffect DEF GateIsOpen, Unmarked
  <2>3. results'[n].status # "passed"
    BY <1>2, <2>1, SettleEffect DEF GateIsOpen
  <2> QED
    BY <1>6, <2>1, <2>2, <2>3
<1>10. ASSUME NEW o \in Output, NodePasses(o) PROVE GateIsOpen(n)'
  <2>1. /\ wf' = wf /\ reviewed' = reviewed /\ pos \in Node
        /\ Persist(MarkPassed(runState, pos, o)) /\ Settle("passed", o)
        /\ wf[pos].kind = "work"
    BY <1>10 DEF NodePasses, Continue, ExecutionInv, TypeOK
  <2>2. GateIsOpen(n) /\ n # pos
    BY <1>2, <2>1
  <2>3. MarkPassed(runState, pos, o).nodes[n] = runState.nodes[n]
    <3>1. pos \in Node /\ n \in Node /\ n # pos /\ runState \in RunStates
      BY <2>1, <2>2 DEF TypeOK
    <3> QED
      BY <3>1, PassedEffect
  <2>4. results'[n] = results[n]
    BY <2>1, <2>2, SettleEffect
  <2> QED
    BY <1>6, <2>1, <2>2, <2>3, <2>4 DEF GateIsOpen
<1>11. ASSUME NEW o \in Output, NodeFails(o), wf' = wf, reviewed' = reviewed,
              results'[n].status # "passed"
       PROVE  GateIsOpen(n)'
  <2>1. pos \in Node /\ Persist(MarkFailed(runState, pos, o))
    BY <1>11 DEF NodeFails, TypeOK
  <2>2. MarkFailed(runState, pos, o).nodes[n].status # "passed"
    <3>1. runState \in RunStates /\ GateIsOpen(n)
      BY <1>2, <1>11 DEF TypeOK
    <3>2. MarkFailed(runState, pos, o).nodes[n] =
             IF n = pos THEN Unmarked("failed", o) ELSE runState.nodes[n]
      BY <2>1, <3>1, FailedEffect
    <3> QED
      BY <3>1, <3>2 DEF GateIsOpen, Unmarked
  <2> QED
    BY <1>6, <1>11, <2>1, <2>2
<1>12. ASSUME NEW o \in Output, Halts(o) PROVE GateIsOpen(n)'
  <2>1. results'[n].status # "passed" /\ wf' = wf /\ reviewed' = reviewed
    BY <1>2, <1>12, HaltsEffect, SettleEffect DEF GateIsOpen
  <2> QED
    BY <1>11, <1>12, <2>1, HaltsEffect
<1>13. ASSUME NEW o \in Output, RouteBack(o) PROVE GateIsOpen(n)'
  <2>1. NodeFails(o) /\ wf' = wf /\ reviewed' = reviewed /\ results' = Cleared
    BY <1>13 DEF RouteBack, NodeFails
  <2>2. results'[n].status # "passed"
    BY <1>2, <2>1 DEF Cleared, NoResult, GateIsOpen
  <2> QED
    BY <1>11, <2>1, <2>2
<1>14. CASE Crash
  BY <1>2, <1>14 DEF Crash, NewMemory, NewRun, Unmarked, NoResult, GateIsOpen
<1> QED
  BY <1>1, <1>3, <1>4, <1>5, <1>7, <1>8, <1>9, <1>10, <1>12, <1>13, <1>14, StepKinds

LEMMA PauseStep ==
    ASSUME TypeOK, SessionInv, PauseIsApprovable, [Next]_vars
    PROVE  PauseIsApprovable'
<1>1. ASSUME NEW rs, Persist(rs), rs.paused = NoNode
      PROVE  PauseIsApprovable'
  BY <1>1 DEF Persist, PauseIsApprovable, CanApprove
<1>2. CASE Run
  BY <1>2 DEF Run, NewRun, PauseIsApprovable
<1>3. ASSUME NEW n \in Node, ApproveGate(n) PROVE PauseIsApprovable'
  BY <1>3 DEF ApproveGate, Approve, PauseIsApprovable
<1>4. CASE UNCHANGED file
  BY <1>4 DEF PauseIsApprovable, CanApprove
<1>5. CASE SkipCompleted
  <2>1. MarkPassed(runState, pos, results[pos].output).paused = NoNode
    BY <1>5 DEF SkipCompleted, AtNode, SessionInv, MarkPassed
  <2> QED
    BY <1>1, <1>5, <2>1 DEF SkipCompleted
<1>6. CASE SkipNode
  <2>1. MarkSkipped(runState, pos).paused = NoNode
    BY <1>6 DEF SkipNode, AtNode, SessionInv, MarkSkipped
  <2> QED
    BY <1>1, <1>6, <2>1 DEF SkipNode
<1>7. CASE PauseAtGate
  <2>1. pos \in Node /\ Persist(MarkPaused(runState, pos))
    BY <1>7 DEF PauseAtGate, AtNode
  <2>2. /\ MarkPaused(runState, pos).paused = pos
        /\ MarkPaused(runState, pos).nodes[pos].status = "paused"
    BY <2>1 DEF MarkPaused, Unmarked, TypeOK, RunStates
  <2> QED
    BY <2>1, <2>2 DEF Persist, PauseIsApprovable, CanApprove
<1>8. ASSUME NEW o \in Output, NodePasses(o) PROVE PauseIsApprovable'
  <2>1. MarkPassed(runState, pos, o).paused = NoNode
    BY <1>8 DEF NodePasses, SessionInv, MarkPassed
  <2> QED
    BY <1>1, <1>8, <2>1 DEF NodePasses
<1>9. ASSUME NEW o \in Output, NodeFails(o) PROVE PauseIsApprovable'
  <2>1. MarkFailed(runState, pos, o).paused = NoNode
    BY <1>9 DEF NodeFails, SessionInv, MarkFailed
  <2> QED
    BY <1>1, <1>9, <2>1 DEF NodeFails
<1> QED
  BY <1>2, <1>3, <1>4, <1>5, <1>6, <1>7, <1>8, <1>9, StepKinds, HaltsEffect
     DEF Resume, Crash, Quiet, storage, RouteBack

-----------------------------------------------------------------------------
(* The caps of the routes.                                                 *)

LEMMA CapsStep ==
    ASSUME TypeOK, SessionInv, RoutesStayCapped, [Next]_vars
    PROVE  RoutesStayCapped'
<1>1. CASE UNCHANGED <<wf, routeAttempts, repeatedFailures>>
  BY <1>1 DEF RoutesStayCapped
<1>2. CASE Run \/ Resume \/ Crash
  <2>1. /\ wf' = wf
        /\ routeAttempts' = [n \in Node |-> 0]
        /\ repeatedFailures' = [n \in Node |-> [o \in Output |-> 0]]
    BY <1>2 DEF Run, Resume, Crash, EnterEngine, NewMemory
  <2>2. ASSUME NEW n \in Node
        PROVE  wf[n].maxIterations \in Nat /\ wf[n].maxRepeated \in Nat
    BY WorkflowType
  <2> QED
    BY <2>1, <2>2 DEF RoutesStayCapped
<1>3. ASSUME NEW o \in Output, NEW g \in Fingerprints(o), CountFailure(g), pos \in Node, proc = "exec", wf' = wf
      PROVE  \A n \in Node : wf'[n].maxRepeated > 0 =>
                \A f \in Output : repeatedFailures'[n][f] <= wf'[n].maxRepeated
  <2> SUFFICES ASSUME NEW n \in Node, wf[n].maxRepeated > 0, NEW f \in Output
               PROVE  repeatedFailures'[n][f] <= wf[n].maxRepeated
    BY <1>3
  <2>1. repeatedFailures[n][f] < wf[n].maxRepeated
    BY <1>3 DEF SessionInv
  <2>2. repeatedFailures[n][f] \in Nat /\ wf[n].maxRepeated \in Nat
    <3>1. repeatedFailures[n] \in [Output -> Nat]
      BY DEF TypeOK
    <3> QED
      BY <3>1, WorkflowType
  <2>3. /\ Bump(repeatedFailures[n][f]) \in Nat
        /\ Bump(repeatedFailures[n][f]) <= repeatedFailures[n][f] + 1
    BY <2>2, BumpType
  <2>4. \/ repeatedFailures'[n][f] = Bump(repeatedFailures[n][f])
        \/ repeatedFailures'[n][f] = repeatedFailures[n][f]
    BY <1>3 DEF CountFailure, TypeOK
  <2> QED
    BY <2>1, <2>2, <2>3, <2>4
<1>4. ASSUME NEW o \in Output, FailRepeated(o) PROVE RoutesStayCapped'
  <2>. PICK g \in Fingerprints(o) : CountFailure(g)
    BY <1>4 DEF FailRepeated
  <2>1. /\ pos \in Node /\ proc = "exec" /\ CountFailure(g)
        /\ UNCHANGED <<wf, routeAttempts>>
    BY <1>4 DEF FailRepeated, NodeFails, Return, TypeOK
  <2> QED
    BY <1>3, <2>1 DEF RoutesStayCapped
<1>5. ASSUME NEW o \in Output, RouteBack(o) PROVE RoutesStayCapped'
  <2>. PICK g \in Fingerprints(o) : CountFailure(g)
    BY <1>5 DEF RouteBack
  <2>1. /\ pos \in Node /\ proc = "exec" /\ CountFailure(g) /\ CountAttempt
        /\ wf' = wf /\ ~Exhausted(pos)
    BY <1>5 DEF RouteBack, NodeFails, TypeOK
  <2>2. ASSUME NEW n \in Node, wf[n].maxIterations > 0
        PROVE  routeAttempts'[n] <= wf[n].maxIterations
    <3>1. routeAttempts[n] <= wf[n].maxIterations
      BY <2>2 DEF RoutesStayCapped
    <3>2. CASE n # pos
      BY <2>1, <3>1, <3>2 DEF CountAttempt, TypeOK
    <3>3. CASE n = pos
      <4>1. routeAttempts[n] \in Nat /\ wf[n].maxIterations \in Nat
        BY WorkflowType DEF TypeOK
      <4>2. routeAttempts[n] < wf[n].maxIterations
        BY <2>1, <2>2, <3>3, <4>1 DEF Exhausted
      <4>3. /\ Bump(routeAttempts[n]) \in Nat
            /\ Bump(routeAttempts[n]) <= routeAttempts[n] + 1
        BY <4>1, BumpType
      <4>4. routeAttempts'[n] = Bump(routeAttempts[n])
        BY <2>1, <3>3 DEF CountAttempt, TypeOK
      <4> QED
        BY <4>1, <4>2, <4>3, <4>4
    <3> QED
      BY <3>2, <3>3
  <2> QED
    BY <1>3, <2>1, <2>2 DEF RoutesStayCapped
<1>6. ASSUME NEW o \in Output, FailWithoutRoute(o) \/ FailExhausted(o)
      PROVE  UNCHANGED <<wf, routeAttempts, repeatedFailures>>
  BY <1>6 DEF FailWithoutRoute, FailExhausted, Return
<1>7. ASSUME SkipCompleted \/ SkipNode \/ PauseAtGate \/ \E o \in Output : NodePasses(o)
      PROVE  UNCHANGED <<wf, routeAttempts, repeatedFailures>>
  BY <1>7 DEF SkipCompleted, SkipNode, PauseAtGate, NodePasses, Continue, Return
<1>8. ASSUME Quiet \/ \E n \in Node : ApproveGate(n)
      PROVE  UNCHANGED <<wf, routeAttempts, repeatedFailures>>
  BY <1>8 DEF Quiet, ApproveGate, engine
<1> QED
  BY <1>1, <1>2, <1>4, <1>5, <1>6, <1>7, <1>8, StepKinds DEF Halts

-----------------------------------------------------------------------------
(* The state file.                                                         *)

LEMMA MemoryStep ==
    ASSUME TypeOK, SessionInv, MemoryFollowsRun, [Next]_vars
    PROVE  MemoryFollowsRun'
<1> SUFFICES ASSUME NEW n \in Node, n < pos'
             PROVE  /\ runState'.nodes[n].status = results'[n].status
                    /\ runState'.nodes[n].output = results'[n].output
  BY DEF MemoryFollowsRun
<1> DEFINE Agree == /\ runState.nodes[n].status = results[n].status
                    /\ runState.nodes[n].output = results[n].output
<1>0. runState \in RunStates
  BY DEF TypeOK
<1>1. CASE Run \/ Resume \/ Crash
  BY <1>1 DEF Run, Resume, Crash, EnterEngine, NewMemory
<1>2. CASE UNCHANGED <<pos, runState, results>>
  BY <1>2 DEF MemoryFollowsRun
<1>3. ASSUME NEW g \in Node, ApproveGate(g) PROVE UNCHANGED <<pos, runState, results>>
  BY <1>3 DEF ApproveGate, engine
<1>4. CASE SkipCompleted
  <2>1. /\ pos \in Node /\ pos' = pos + 1 /\ results' = results
        /\ results[pos].status = "passed" /\ results[pos].output \in Output
        /\ runState' = MarkPassed(runState, pos, results[pos].output)
    BY <1>4 DEF SkipCompleted, AtNode, Completed, Continue, Persist, SessionInv,
                TypeOK, NodeResult
  <2>2. runState'.nodes[n] = IF n = pos THEN Unmarked("passed", results[pos].output)
                                    ELSE runState.nodes[n]
    BY <2>1, <1>0, PassedEffect
  <2>3. n = pos \/ n < pos
    BY <2>1
  <2> QED
    BY <2>1, <2>2, <2>3 DEF MemoryFollowsRun, Unmarked
<1>5. CASE SkipNode
  <2>1. /\ pos \in Node /\ pos' = pos + 1 /\ Settle("skipped", NoOutput)
        /\ runState' = MarkSkipped(runState, pos)
    BY <1>5 DEF SkipNode, AtNode, Continue, Persist, SessionInv
  <2>2. runState'.nodes[n] = IF n = pos THEN Unmarked("skipped", NoOutput)
                                    ELSE runState.nodes[n]
    BY <2>1, <1>0, SilentMarksEffect
  <2>3. n = pos \/ n < pos
    BY <2>1
  <2> QED
    BY <2>1, <2>2, <2>3, SettleEffect DEF MemoryFollowsRun, Unmarked
<1>6. ASSUME NEW o \in Output, NodePasses(o) PROVE Agree'
  <2>1. /\ pos \in Node /\ pos' = pos + 1 /\ Settle("passed", o)
        /\ runState' = MarkPassed(runState, pos, o)
    BY <1>6 DEF NodePasses, Continue, Persist, SessionInv, TypeOK
  <2>2. MarkPassed(runState, pos, o).nodes[n] =
           IF n = pos THEN Unmarked("passed", o) ELSE runState.nodes[n]
    <3>1. pos \in Node /\ n \in Node /\ o \in Output /\ runState \in RunStates
      BY <1>0, <2>1
    <3> QED
      BY <3>1, PassedEffect
  <2>3. n = pos \/ n < pos
    BY <2>1
  <2> QED
    BY <2>1, <2>2, <2>3, SettleEffect DEF MemoryFollowsRun, Unmarked
<1>7. ASSUME NEW o \in Output, NodeFails(o), n < pos, results'[n] = results[n]
      PROVE  Agree'
  <2>1. pos \in Node /\ runState' = MarkFailed(runState, pos, o)
    BY <1>7 DEF NodeFails, Persist, SessionInv, TypeOK
  <2>2. runState'.nodes[n] = IF n = pos THEN Unmarked("failed", o) ELSE runState.nodes[n]
    BY <2>1, <1>0, FailedEffect
  <2> QED
    BY <1>7, <2>1, <2>2 DEF MemoryFollowsRun
<1>8. ASSUME NEW o \in Output, Halts(o) PROVE Agree'
  <2>1. NodeFails(o) /\ n < pos /\ n # pos /\ Settle("failed", o) /\ pos \in Node
    BY <1>8, HaltsEffect
  <2> QED
    BY <1>7, <2>1, SettleEffect
<1>9. CASE PauseAtGate
  <2>1. /\ pos \in Node /\ pos' = pos /\ Settle("paused", NoOutput)
        /\ runState' = MarkPaused(runState, pos)
    BY <1>9 DEF PauseAtGate, AtNode, Return, Persist, SessionInv
  <2>2. n < pos /\ n # pos
    BY <2>1
  <2>3. runState'.nodes[n] = runState.nodes[n]
    BY <2>1, <2>2, <1>0, SilentMarksEffect
  <2> QED
    BY <2>1, <2>2, <2>3, SettleEffect DEF MemoryFollowsRun
<1>10. ASSUME NEW o \in Output, RouteBack(o) PROVE Agree'
  <2>1. /\ pos \in Node /\ NodeFails(o) /\ wf[pos].routeTo \in Node
        /\ wf[pos].routeTo < pos /\ pos' = wf[pos].routeTo /\ results' = Cleared
    BY <1>10, WorkflowType
       DEF RouteBack, TargetPos, NodeFails, SessionInv, RoutesPointBack, HasRoute, TypeOK
  <2>2. n < pos /\ results'[n] = results[n]
    BY <2>1 DEF Cleared, Rerun, TargetPos
  <2> QED
    BY <1>7, <2>1, <2>2
<1>11. (Quiet => UNCHANGED <<pos, runState, results>>)
  BY DEF Quiet, storage
<1> QED
  BY <1>1, <1>2, <1>3, <1>4, <1>5, <1>6, <1>8, <1>9, <1>10, <1>11, StepKinds

LEMMA FileStep ==
    ASSUME TypeOK, PrefixIsSettled, StateFileFollowsRun, MemoryFollowsRun', [Next]_vars
    PROVE  StateFileFollowsRun'
<1> SUFFICES ASSUME saved', NEW n \in Node, n < pos'
             PROVE  /\ file'.nodes[n].status = results'[n].status
                    /\ file'.nodes[n].output = results'[n].output
  BY DEF StateFileFollowsRun
<1>1. ASSUME NEW rs, Persist(rs) PROVE file' = runState'
  BY <1>1 DEF Persist
<1>2. CASE file' = runState'
  BY <1>2 DEF MemoryFollowsRun
<1>3. (Run \/ Resume \/ Crash) => pos' = 1
  BY DEF Run, Resume, Crash, EnterEngine, NewMemory
<1>12. pos' # 1
  OBVIOUS
<1>4. CASE UNCHANGED <<pos, file, results, saved>>
  BY <1>4 DEF StateFileFollowsRun
<1>5. ASSUME NEW g \in Node, ApproveGate(g)
      PROVE  /\ file'.nodes[n].status = results'[n].status
             /\ file'.nodes[n].output = results'[n].output
  <2>1. /\ pos' = pos /\ results' = results /\ saved' = saved
        /\ file' = Approve(file, g) /\ file.nodes[g].status = "paused"
    BY <1>5 DEF ApproveGate, CanApprove, engine
  <2>2. /\ file.nodes[n].status = results[n].status
        /\ file.nodes[n].output = results[n].output
        /\ results[n].status \in {"passed", "skipped"}
    BY <2>1 DEF StateFileFollowsRun, PrefixIsSettled
  <2>3. n # g /\ file \in RunStates
    BY <2>1, <2>2 DEF TypeOK
  <2> QED
    BY <2>1, <2>2, <2>3, ApproveEffect
<1>6. SkipCompleted => file' = runState'
  BY <1>1 DEF SkipCompleted
<1>7. SkipNode => file' = runState'
  BY <1>1 DEF SkipNode
<1>8. PauseAtGate => file' = runState'
  BY <1>1 DEF PauseAtGate
<1>9. ASSUME NEW o \in Output, NodePasses(o) \/ NodeFails(o) PROVE file' = runState'
  BY <1>1, <1>9 DEF NodePasses, NodeFails
<1>10. ASSUME NEW o \in Output, Halts(o) \/ RouteBack(o) PROVE NodeFails(o)
  BY <1>10, HaltsEffect DEF RouteBack
<1>11. Quiet => UNCHANGED <<pos, file, results, saved>>
  BY DEF Quiet, storage
<1> QED
  BY <1>2, <1>3, <1>4, <1>5, <1>6, <1>7, <1>8, <1>9, <1>10, <1>11, <1>12, StepKinds

-----------------------------------------------------------------------------
(* Trigger rules and conditions.                                           *)

\* dependenciesReady computes the documented meaning of the trigger rules.
LEMMA ReadyAsDocumented ==
    ASSUME TypeOK, NEW n \in Node
    PROVE  Documented(n) <=> DependenciesReady(wf[n], results)
<1>1. wf[n].trigger \in TriggerRule /\ wf[n].deps \subseteq Node
  BY WorkflowType DEF RouteConf
<1>2. DOMAIN results = Node
  BY DEF TypeOK
<1>3. {d \in wf[n].deps : results[d].status = "passed"} = wf[n].deps \cap Passed(results)
  BY <1>1, <1>2 DEF Passed
<1> QED
  BY <1>1, <1>3 DEF Documented, DependenciesReady, TriggerRule

\* What the rules say of a node depends on the nodes before it only.
LEMMA RulesAreLocal ==
    ASSUME TypeOK, wf' = wf, NEW n \in Node, wf[n].when.ref < n,
           \A m \in Node : m < n => results'[m] = results[m]
    PROVE  /\ Documented(n)' <=> Documented(n)
           /\ WhenMatches(wf[n], results)' <=> WhenMatches(wf[n], results)
<1>1. /\ wf[n].deps \subseteq 1..(n - 1) /\ wf[n].deps \subseteq Node
      /\ wf[n].when.ref \in Node
  BY WorkflowType
<1>2. \A d \in wf[n].deps : results'[d] = results[d]
  BY <1>1
<1>3. {d \in wf[n].deps : results'[d].status = "passed"}
        = {d \in wf[n].deps : results[d].status = "passed"}
  BY <1>2
<1>4. results'[wf[n].when.ref] = results[wf[n].when.ref]
  BY <1>1
<1> QED
  BY <1>3, <1>4 DEF Documented, WhenMatches

SettledAt(n) ==
    results[n].status = "passed" <=> Documented(n) /\ WhenMatches(wf[n], results)

LEMMA RuleStep ==
    ASSUME TypeOK, SessionInv, ExecutionInv, SettledByRule, [Next]_vars
    PROVE  SettledByRule'
<1> SUFFICES ASSUME NEW n \in fresh', n < pos', wf'[n].when.ref < n
             PROVE  SettledAt(n)'
  BY DEF SettledByRule, SettledAt
<1>1. CASE Run \/ Resume \/ Crash
  BY <1>1 DEF Run, Resume, Crash, EnterEngine, NewMemory
<1>2. ASSUME n \in fresh, n < pos, wf' = wf, results'[n] = results[n],
             \A m \in Node : m < n => results'[m] = results[m]
      PROVE  SettledAt(n)'
  <2>1. n \in Node /\ SettledAt(n)
    BY <1>2 DEF SettledByRule, SettledAt, TypeOK
  <2>2. /\ Documented(n)' <=> Documented(n)
        /\ WhenMatches(wf[n], results)' <=> WhenMatches(wf[n], results)
    BY <1>2, <2>1, RulesAreLocal
  <2> QED
    BY <1>2, <2>1, <2>2 DEF SettledAt
<1>3. ASSUME wf' = wf, NEW status, NEW o, pos \in Node, Settle(status, o),
             n # pos, n < pos
      PROVE  SettledAt(n)'
  <2>1. n \in fresh /\ n \in Node
    BY <1>3, SettleEffect DEF TypeOK
  <2>2. \A m \in Node : m # pos => results'[m] = results[m]
    BY <1>3, SettleEffect
  <2>3. \A m \in Node : m < n => m # pos
    BY <1>3, <2>1
  <2> QED
    BY <1>2, <1>3, <2>1, <2>2, <2>3
<1>4. ASSUME wf' = wf, NEW status, NEW o, pos \in Node, Settle(status, o), n = pos,
             status = "passed" <=> ShouldRun(wf[pos], results)
      PROVE  SettledAt(n)'
  <2>1. /\ results'[n].status = status
        /\ \A m \in Node : m # pos => results'[m] = results[m]
    BY <1>4, SettleEffect
  <2>2. \A m \in Node : m < n => results'[m] = results[m]
    BY <1>4, <2>1
  <2>3. /\ Documented(n)' <=> Documented(n)
        /\ WhenMatches(wf[n], results)' <=> WhenMatches(wf[n], results)
    BY <1>4, <2>2, RulesAreLocal
  <2>4. Documented(n) <=> DependenciesReady(wf[n], results)
    BY <1>4, ReadyAsDocumented
  <2> QED
    BY <1>4, <2>1, <2>3, <2>4 DEF SettledAt, ShouldRun
<1>5. ASSUME pos \in Node, pos' = pos + 1 PROVE n = pos \/ (n # pos /\ n < pos)
  <2>1. n \in Node
    BY NextType DEF TypeOK
  <2> QED
    BY <1>5, <2>1
<1>6. CASE Quiet \/ \E g \in Node : ApproveGate(g)
  BY <1>2, <1>6 DEF Quiet, ApproveGate, engine
<1>7. CASE SkipCompleted
  <2>1. /\ pos \in Node /\ pos' = pos + 1 /\ proc = "loop"
        /\ UNCHANGED <<wf, results, fresh>>
    BY <1>7 DEF SkipCompleted, AtNode, Continue, history
  <2>2. n < pos
    BY <2>1 DEF SessionInv
  <2> QED
    BY <1>2, <2>1, <2>2
<1>8. CASE SkipNode
  <2>1. /\ pos \in Node /\ pos' = pos + 1 /\ wf' = wf /\ Settle("skipped", NoOutput)
        /\ ~ShouldRun(wf[pos], results)
    BY <1>8 DEF SkipNode, AtNode, Continue
  <2> QED
    BY <1>3, <1>4, <1>5, <2>1
<1>9. ASSUME NEW o \in Output, NodePasses(o) PROVE SettledAt(n)'
  <2>1. /\ pos \in Node /\ pos' = pos + 1 /\ wf' = wf /\ Settle("passed", o)
        /\ ShouldRun(wf[pos], results)
    BY <1>9 DEF NodePasses, Continue, ExecutionInv, TypeOK
  <2> QED
    BY <1>3, <1>4, <1>5, <2>1
<1>10. CASE PauseAtGate
  <2>1. /\ pos \in Node /\ pos' = pos /\ wf' = wf /\ Settle("paused", NoOutput)
    BY <1>10 DEF PauseAtGate, AtNode, Return
  <2> QED
    BY <1>3, <2>1
<1>11. ASSUME NEW o \in Output, Halts(o) PROVE SettledAt(n)'
  <2>1. /\ pos \in Node /\ pos' = pos /\ wf' = wf /\ Settle("failed", o)
    BY <1>11, HaltsEffect
  <2> QED
    BY <1>3, <2>1
<1>12. ASSUME NEW o \in Output, RouteBack(o) PROVE SettledAt(n)'
  <2>1. /\ pos \in Node /\ wf[pos].routeTo \in Node /\ wf' = wf
        /\ wf[pos].routeTo < pos /\ pos' = wf[pos].routeTo /\ results' = Cleared
        /\ fresh' = fresh \ Rerun
    BY <1>12, WorkflowType
       DEF RouteBack, TargetPos, NodeFails, SessionInv, RoutesPointBack, HasRoute, TypeOK
  <2>2. n \in Node /\ n \in fresh /\ n < pos
    <3>1. n \in fresh /\ fresh \subseteq Node
      BY <2>1 DEF TypeOK
    <3> QED
      BY <2>1, <3>1
  <2>3. \A m \in Node : m < pos' => results'[m] = results[m]
    BY <2>1 DEF Cleared, Rerun, TargetPos
  <2>4. \A m \in Node : m < n => m < pos'
    BY <2>1, <2>2
  <2> QED
    BY <1>2, <2>1, <2>2, <2>3, <2>4
<1> QED
  BY <1>1, <1>6, <1>7, <1>8, <1>9, <1>10, <1>11, <1>12, StepKinds

-----------------------------------------------------------------------------
(* Reviews.                                                                *)

\* ReviewInv of one node.
PausedGate(n) ==
    "paused" \in {file.nodes[n].status, runState.nodes[n].status}
        => wf[n].kind = "human_gate"
Stands(n) ==
    /\ file.nodes[n].status = "passed"
    /\ proc # "off" => results[n].status = "passed" /\ runState.nodes[n].status = "passed"
ReviewedGate(n) ==
    /\ PausedGate(n)
    /\ n \in reviewed => wf[n].kind = "human_gate"
    /\ n \in reviewed \ stale => Stands(n)

LEMMA ReviewStep ==
    ASSUME TypeOK, ExecutionInv, ReviewInv, [Next]_vars
    PROVE  ReviewInv'
<1> SUFFICES ASSUME NEW n \in Node PROVE ReviewedGate(n)'
  BY DEF ReviewInv, ReviewedGate, PausedGate, Stands
<1>0. ReviewedGate(n) /\ runState \in RunStates /\ file \in RunStates
  BY DEF ReviewInv, ReviewedGate, PausedGate, Stands, TypeOK
<1>1. CASE Run
  BY <1>1 DEF Run, NewRun, Unmarked, ReviewedGate, PausedGate
<1>2. CASE Resume
  <2>1. /\ UNCHANGED <<wf, file, stale, reviewed>>
        /\ runState' = file /\ results' = InitialResults(file)
    BY <1>2 DEF Resume, EnterEngine, NewMemory
  <2>2. InitialResults(file)[n].status = "passed" <=> file.nodes[n].status = "passed"
    BY <1>0, InitialResultsEffect
  <2> QED
    BY <1>0, <2>1, <2>2 DEF ReviewedGate, PausedGate, Stands
<1>3. ASSUME NEW g \in Node, ApproveGate(g) PROVE ReviewedGate(n)'
  <2>1. /\ UNCHANGED <<wf, proc, runState, results>> /\ file' = Approve(file, g)
        /\ reviewed' = reviewed \cup {g} /\ stale' = stale \ {g}
        /\ proc = "off" /\ file.nodes[g].status = "paused"
    BY <1>3 DEF ApproveGate, CanApprove, engine
  <2>2. file'.nodes[n].status = IF n = g THEN "passed" ELSE file.nodes[n].status
    BY <1>0, <2>1, ApproveEffect
  <2> QED
    BY <1>0, <2>1, <2>2 DEF ReviewedGate, PausedGate, Stands
<1>4. CASE Quiet
  BY <1>0, <1>4 DEF Quiet, storage, ReviewedGate, PausedGate, Stands
<1>5. ASSUME UNCHANGED <<wf, reviewed>>, NEW rs, Persist(rs), proc # "off",
             rs.nodes[n].status = "paused" => wf[n].kind = "human_gate",
             n \in reviewed \ stale' => /\ n \notin stale
                                        /\ rs.nodes[n].status = "passed"
                                        /\ results'[n].status = "passed"
      PROVE  ReviewedGate(n)'
  BY <1>0, <1>5 DEF Persist, ReviewedGate, PausedGate, Stands
<1>6. n \in reviewed \ stale /\ proc # "off" =>
        results[n].status = "passed" /\ runState.nodes[n].status = "passed"
  BY <1>0 DEF ReviewedGate, Stands
<1>7. runState.nodes[n].status = "paused" => wf[n].kind = "human_gate"
  BY <1>0 DEF ReviewedGate, PausedGate
<1>8. CASE SkipCompleted
  <2>1. /\ pos \in Node /\ results[pos].output \in Output /\ proc # "off"
        /\ UNCHANGED <<wf, results, reviewed, stale>>
        /\ Persist(MarkPassed(runState, pos, results[pos].output))
    BY <1>8 DEF SkipCompleted, AtNode, Continue, history, TypeOK, NodeResult
  <2>2. MarkPassed(runState, pos, results[pos].output).nodes[n] =
           IF n = pos THEN Unmarked("passed", results[pos].output) ELSE runState.nodes[n]
    <3>1. pos \in Node /\ runState \in RunStates
      BY <1>0, <2>1
    <3> QED
      BY <2>1, <3>1, PassedEffect
  <2> DEFINE rs == MarkPassed(runState, pos, results[pos].output)
  <2>3. rs.nodes[n].status = "paused" => wf[n].kind = "human_gate"
    BY <1>7, <2>2 DEF Unmarked
  <2>4. n \in reviewed \ stale' => /\ n \notin stale
                                   /\ rs.nodes[n].status = "passed"
                                   /\ results'[n].status = "passed"
    BY <1>6, <2>1, <2>2 DEF Unmarked
  <2> HIDE DEF rs
  <2> QED
    BY <1>5, <2>1, <2>3, <2>4 DEF rs
<1>9. CASE SkipNode
  <2>1. /\ pos \in Node /\ proc # "off" /\ UNCHANGED <<wf, reviewed>>
        /\ stale' = stale /\ results[pos].status # "passed"
        /\ Persist(MarkSkipped(runState, pos)) /\ Settle("skipped", NoOutput)
    BY <1>9 DEF SkipNode, AtNode, Completed, Continue, Settle
  <2>2. /\ n # pos => results'[n] = results[n]
        /\ n \in reviewed \ stale => n # pos
    BY <1>6, <2>1, SettleEffect
  <2>3. MarkSkipped(runState, pos).nodes[n] =
           IF n = pos THEN Unmarked("skipped", NoOutput) ELSE runState.nodes[n]
    BY <1>0, <2>1, SilentMarksEffect
  <2> QED
    BY <1>5, <1>6, <1>7, <2>1, <2>2, <2>3 DEF Unmarked
<1>10. CASE PauseAtGate
  <2>1. /\ pos \in Node /\ proc # "off" /\ UNCHANGED <<wf, reviewed>>
        /\ stale' = stale /\ results[pos].status # "passed"
        /\ wf[pos].kind = "human_gate"
        /\ Persist(MarkPaused(runState, pos)) /\ Settle("paused", NoOutput)
    BY <1>10 DEF PauseAtGate, AtNode, Completed, Return, Settle
  <2>2. /\ n # pos => results'[n] = results[n]
        /\ n \in reviewed \ stale => n # pos
    BY <1>6, <2>1, SettleEffect
  <2>3. MarkPaused(runState, pos).nodes[n] =
           IF n = pos THEN Unmarked("paused", NoOutput) ELSE runState.nodes[n]
    BY <1>0, <2>1, SilentMarksEffect
  <2> QED
    BY <1>5, <1>6, <1>7, <2>1, <2>2, <2>3 DEF Unmarked
<1>11. ASSUME NEW o \in Output, NodePasses(o) PROVE ReviewedGate(n)'
  <2>1. /\ pos \in Node /\ proc # "off" /\ UNCHANGED <<wf, reviewed>>
        /\ stale' = stale \ {pos} /\ wf[pos].kind = "work"
        /\ Persist(MarkPassed(runState, pos, o)) /\ Settle("passed", o)
    BY <1>11 DEF NodePasses, Continue, Settle, ExecutionInv, TypeOK
  <2>2. /\ n # pos => results'[n] = results[n]
        /\ n \in reviewed => n # pos
    BY <1>0, <2>1, SettleEffect DEF ReviewedGate
  <2>3. MarkPassed(runState, pos, o).nodes[n] =
           IF n = pos THEN Unmarked("passed", o) ELSE runState.nodes[n]
    <3>1. pos \in Node /\ n \in Node /\ o \in Output /\ runState \in RunStates
      BY <1>0, <2>1
    <3> QED
      BY <3>1, PassedEffect
  <2> QED
    BY <1>5, <1>6, <1>7, <2>1, <2>2, <2>3 DEF Unmarked
<1>12. ASSUME NEW o \in Output, NodeFails(o), wf' = wf, stale \subseteq stale',
              n \in reviewed \ stale' /\ n # pos => results'[n] = results[n]
       PROVE  ReviewedGate(n)'
  <2>1. /\ pos \in Node /\ proc # "off" /\ wf[pos].kind = "work"
        /\ UNCHANGED reviewed /\ Persist(MarkFailed(runState, pos, o))
    BY <1>12 DEF NodeFails, ExecutionInv, TypeOK
  <2>2. n \in reviewed => n # pos
    BY <1>0, <2>1 DEF ReviewedGate
  <2>3. MarkFailed(runState, pos, o).nodes[n] =
           IF n = pos THEN Unmarked("failed", o) ELSE runState.nodes[n]
    <3>1. pos \in Node /\ n \in Node /\ o \in Output /\ runState \in RunStates
      BY <1>0, <2>1
    <3> QED
      BY <3>1, FailedEffect
  <2> QED
    BY <1>5, <1>6, <1>7, <1>12, <2>1, <2>2, <2>3 DEF Unmarked
<1>13. ASSUME NEW o \in Output, Halts(o) PROVE ReviewedGate(n)'
  <2>1. /\ NodeFails(o) /\ Settle("failed", o) /\ wf' = wf /\ stale' = stale
        /\ pos \in Node
    BY <1>13, HaltsEffect DEF Settle
  <2>2. n # pos => results'[n] = results[n]
    BY <2>1, SettleEffect
  <2> QED
    BY <1>12, <2>1, <2>2
<1>14. ASSUME NEW o \in Output, RouteBack(o) PROVE ReviewedGate(n)'
  <2>1. /\ NodeFails(o) /\ wf' = wf /\ results' = Cleared /\ proc # "off"
        /\ stale' = stale \cup (Rerun \cap Passed(results))
    BY <1>14 DEF RouteBack, NodeFails
  <2>2. n \in reviewed \ stale' => n \notin Rerun
    BY <1>6, <2>1 DEF Passed, TypeOK
  <2>3. n \notin Rerun => results'[n] = results[n]
    BY <2>1 DEF Cleared
  <2> QED
    BY <1>12, <2>1, <2>2, <2>3
<1>15. CASE Crash
  BY <1>0, <1>15
     DEF Crash, NewRun, Unmarked, ReviewedGate, PausedGate, Stands
<1> QED
  BY <1>1, <1>2, <1>3, <1>4, <1>8, <1>9, <1>10, <1>11, <1>13, <1>14, <1>15, StepKinds

-----------------------------------------------------------------------------
(* Sums.  MapThenSumSet is defined by recursion over the subsets of its    *)
(* set: which number it is, is proved by induction over them.              *)

\* A family of subsets that holds each one whose smaller ones it holds has all.
LEMMA SubsetInduction ==
    ASSUME NEW S, IsFiniteSet(S), NEW F,
           \A s \in SUBSET S : (\A t \in SUBSET s : t # s => t \in F) => s \in F
    PROVE  SUBSET S \subseteq F
<1> SUFFICES ASSUME (SUBSET S) \ F # {} PROVE FALSE
  OBVIOUS
<1> DEFINE R == StrictSubsetOrdering(S)
           T == (SUBSET S) \ F
<1>1. FiniteSubsetsOf(S) = SUBSET S
  BY FS_FiniteSubsetsOfFinite
<1>2. IsWellFoundedOn(R, FiniteSubsetsOf(S))
  BY FS_StrictSubsetOrderingWellFounded
<1>3. IsWellFoundedOn(R, SUBSET S)
  BY <1>1, <1>2, Zenon
<1>4. T \subseteq SUBSET S /\ T # {}
  OBVIOUS
<1> HIDE DEF R, T
<1>5. PICK s \in T : \A t \in T : ~(<<t, s>> \in R)
  BY <1>3, <1>4, WFMin
<1> USE DEF T
<1>6. \A t \in SUBSET s : t # s => t \in F
  BY <1>5 DEF R, StrictSubsetOrdering
<1> QED
  BY <1>5, <1>6

\* The sum of the weights W, as a function on the subsets of a set.
First(s) == CHOOSE f \in s : TRUE

Sums(W, S) ==
    CHOOSE g : g = [s \in SUBSET S |->
        IF s = {} THEN 0 ELSE W[First(s)] + g[s \ {First(s)}]]

IsSum(g, W, S) ==
    \A s \in SUBSET S : g[s] = IF s = {} THEN 0 ELSE W[First(s)] + g[s \ {First(s)}]

LEMMA FirstIsElement == ASSUME NEW s, s # {} PROVE First(s) \in s
BY DEF First

LEMMA SumIsUnique ==
    ASSUME NEW S, IsFiniteSet(S), NEW W, NEW g, NEW h, IsSum(g, W, S), IsSum(h, W, S)
    PROVE  \A s \in SUBSET S : g[s] = h[s]
<1> DEFINE F == {s \in SUBSET S : g[s] = h[s]}
<1>1. ASSUME NEW s \in SUBSET S, \A t \in SUBSET s : t # s => t \in F
      PROVE  s \in F
  <2>1. CASE s = {}
    BY <2>1 DEF IsSum
  <2>2. CASE s # {}
    <3>1. s \ {First(s)} \in F
      BY <1>1, <2>2, FirstIsElement
    <3> QED
      BY <2>2, <3>1 DEF IsSum
  <2> QED
    BY <2>1, <2>2
<1> HIDE DEF F
<1>2. SUBSET S \subseteq F
  BY <1>1, SubsetInduction
<1> QED
  BY <1>2 DEF F

\* The sums of the smaller subsets agree, and together they are one for the set.
LEMMA SumExists ==
    ASSUME NEW S, IsFiniteSet(S), NEW W
    PROVE  \E g : IsSum(g, W, S)
<1> DEFINE F == {s \in SUBSET S : \E g : IsSum(g, W, s)}
<1>1. ASSUME NEW s \in SUBSET S, \A t \in SUBSET s : t # s => t \in F
      PROVE  s \in F
  <2> DEFINE Some(t) == CHOOSE g : IsSum(g, W, t)
             below == [t \in SUBSET s |-> Some(t)[t]]
             all == [t \in SUBSET s |->
                       IF t = {} THEN 0 ELSE W[First(t)] + below[t \ {First(t)}]]
  <2>1. \A t \in SUBSET s : t # s => IsSum(Some(t), W, t)
    BY <1>1
  <2> HIDE DEF Some
  <2>2. ASSUME NEW t \in SUBSET s, t # {}, t # s
        PROVE  below[t] = W[First(t)] + below[t \ {First(t)}]
    <3> DEFINE u == t \ {First(t)}
    <3>1. u \in SUBSET t /\ u \in SUBSET s /\ u # s
      BY <2>2, FirstIsElement
    <3>2. IsSum(Some(t), W, t) /\ IsSum(Some(u), W, u)
      BY <2>1, <2>2, <3>1
    <3>3. IsSum(Some(t), W, u)
      BY <3>1, <3>2 DEF IsSum
    <3>4. IsFiniteSet(u)
      BY <3>1, FS_Subset
    <3>5. Some(t)[u] = Some(u)[u]
      BY <3>2, <3>3, <3>4, SumIsUnique
    <3>6. Some(t)[t] = W[First(t)] + Some(t)[u]
      BY <3>2, <2>2 DEF IsSum
    <3> QED
      BY <3>1, <3>5, <3>6
  <2>3. below[{}] = 0 \/ s = {}
    BY <2>1 DEF IsSum
  <2>4. ASSUME NEW t \in SUBSET s
        PROVE  all[t] = IF t = {} THEN 0 ELSE W[First(t)] + all[t \ {First(t)}]
    <3>1. CASE t = {}
      BY <3>1
    <3>2. CASE t # {}
      <4> DEFINE u == t \ {First(t)}
      <4>1. u \in SUBSET s /\ u # s
        BY <3>2, FirstIsElement
      <4>2. all[u] = below[u]
        BY <4>1, <2>2, <2>3
      <4> QED
        BY <4>1, <4>2, <3>2
    <3> QED
      BY <3>1, <3>2
  <2>5. IsSum(all, W, s)
    BY <2>4 DEF IsSum
  <2> QED
    BY <2>5
<1> HIDE DEF F
<1>2. SUBSET S \subseteq F
  BY <1>1, SubsetInduction
<1> QED
  BY <1>2 DEF F

LEMMA SumsEquation ==
    ASSUME NEW S, IsFiniteSet(S), NEW W
    PROVE  IsSum(Sums(W, S), W, S)
<1>1. PICK g : IsSum(g, W, S)
  BY SumExists
<1> DEFINE h == [s \in SUBSET S |-> g[s]]
<1>2. h = [s \in SUBSET S |-> IF s = {} THEN 0 ELSE W[First(s)] + h[s \ {First(s)}]]
  BY <1>1 DEF IsSum
<1>3. Sums(W, S) = [s \in SUBSET S |->
             IF s = {} THEN 0 ELSE W[First(s)] + Sums(W, S)[s \ {First(s)}]]
  BY <1>2, Zenon DEF Sums
<1> QED
  BY <1>3, Zenon DEF IsSum

Total(W, S) == Sums(W, S)[S]

\* A sum of counts is a count, and none of them exceeds it.
LEMMA TotalBounds ==
    ASSUME NEW S, IsFiniteSet(S), NEW W, \A x \in S : W[x] \in Nat
    PROVE  Total(W, S) \in Nat /\ \A x \in S : W[x] <= Total(W, S)
<1> DEFINE g == Sums(W, S)
           F == {s \in SUBSET S : g[s] \in Nat /\ \A x \in s : W[x] <= g[s]}
<1>1. IsSum(g, W, S)
  BY SumsEquation
<1> HIDE DEF g
<1>2. ASSUME NEW s \in SUBSET S, \A t \in SUBSET s : t # s => t \in F
      PROVE  s \in F
  <2>1. CASE s = {}
    <3>1. g[s] = 0
      BY <1>1, <2>1 DEF IsSum
    <3> QED
      BY <2>1, <3>1
  <2>2. CASE s # {}
    <3> DEFINE f == First(s)
               t == s \ {f}
    <3>1. f \in s /\ t \in F /\ W[f] \in Nat
      BY <1>2, <2>2, FirstIsElement
    <3>2. g[s] = W[f] + g[t]
      BY <1>1, <2>2 DEF IsSum
    <3> HIDE DEF f
    <3>3. g[t] \in Nat /\ \A x \in t : W[x] <= g[t]
      BY <3>1
    <3>4. g[s] \in Nat /\ W[f] <= g[s] /\ g[t] <= g[s]
      BY <3>1, <3>2, <3>3
    <3>5. ASSUME NEW x \in s PROVE W[x] <= g[s]
      <4>1. CASE x = f
        BY <3>4, <4>1
      <4>2. CASE x \in t
        <5>1. W[x] \in Nat /\ W[x] <= g[t]
          BY <3>3, <4>2
        <5> HIDE DEF t
        <5> QED
          BY <3>3, <3>4, <5>1
      <4> QED
        BY <4>1, <4>2
    <3> QED
      BY <3>4, <3>5
  <2> QED
    BY <2>1, <2>2
<1> HIDE DEF F
<1>3. SUBSET S \subseteq F
  BY <1>2, SubsetInduction
<1> QED
  BY <1>3 DEF F, g, Total

\* A sum grows by what one of its weights does.
LEMMA TotalGrows ==
    ASSUME NEW S, IsFiniteSet(S), NEW W, NEW V, NEW p, NEW d \in Nat,
           \A x \in S : W[x] \in Nat /\ V[x] = W[x] + IF x = p THEN d ELSE 0
    PROVE  Total(V, S) = Total(W, S) + IF p \in S THEN d ELSE 0
<1> DEFINE g == Sums(W, S)
           h == Sums(V, S)
           F == {s \in SUBSET S : g[s] \in Nat /\ h[s] = g[s] + IF p \in s THEN d ELSE 0}
<1>1. IsSum(g, W, S) /\ IsSum(h, V, S)
  BY SumsEquation
<1> HIDE DEF g, h
<1>2. ASSUME NEW s \in SUBSET S, \A t \in SUBSET s : t # s => t \in F
      PROVE  s \in F
  <2>1. CASE s = {}
    <3>1. g[s] = 0 /\ h[s] = 0
      BY <1>1, <2>1 DEF IsSum
    <3>2. h[s] = g[s] + IF p \in s THEN d ELSE 0
      BY <2>1, <3>1
    <3> QED
      BY <3>1, <3>2
  <2>2. CASE s # {}
    <3> DEFINE x == First(s)
               t == s \ {First(s)}
    <3>1. x \in s /\ t \in F /\ W[x] \in Nat /\ V[x] = W[x] + IF x = p THEN d ELSE 0
      BY <1>2, <2>2, FirstIsElement
    <3>2. g[s] = W[x] + g[t] /\ h[s] = V[x] + h[t]
      BY <1>1, <2>2 DEF IsSum
    <3>3. p \in t <=> p \in s /\ p # x
      OBVIOUS
    <3> HIDE DEF x, t
    <3> QED
      BY <3>1, <3>2, <3>3
  <2> QED
    BY <2>1, <2>2
<1> HIDE DEF F
<1>3. SUBSET S \subseteq F
  BY <1>2, SubsetInduction
<1> QED
  BY <1>3 DEF F, g, h, Total

-----------------------------------------------------------------------------
(* Executions and the repairs that pay for them.                           *)

LEMMA RoutesOverAreNodes ==
    ASSUME NEW n \in Node PROVE RoutesOver(n) \subseteq Node /\ IsFiniteSet(RoutesOver(n))
<1>1. RoutesOver(n) \subseteq 1..Size
  BY DEF RoutesOver
<1>2. IsFiniteSet(1..Size)
  BY FS_Interval
<1> QED
  BY <1>1, <1>2, FS_Subset

LEMMA PaidIsTotal ==
    ASSUME NEW n \in Node
    PROVE  /\ PaidRepairs(n) = Total(routeAttempts, RoutesOver(n))
           /\ PaidRepairs(n)' = Total(routeAttempts', RoutesOver(n)')
BY Zenon DEF PaidRepairs, Total, Sums, First, MapThenSumSet, MapThenFoldSet

LEMMA PaidIsCount ==
    ASSUME TypeOK, NEW n \in Node
    PROVE  /\ PaidRepairs(n) \in Nat
           /\ \A m \in RoutesOver(n) : routeAttempts[m] <= PaidRepairs(n)
<1>1. \A m \in RoutesOver(n) : routeAttempts[m] \in Nat
  BY RoutesOverAreNodes DEF TypeOK
<1> QED
  BY <1>1, RoutesOverAreNodes, TotalBounds, PaidIsTotal

RepairsAreCounts == \A n \in Node : PaidRepairs(n) \in Nat

LEMMA PaidAreCounts == TypeOK => RepairsAreCounts
BY PaidIsCount DEF RepairsAreCounts

\* A step that takes no route leaves what is paid for, and no execution that
\* had begun is still to come.
LEMMA PaymentKept ==
    ASSUME TypeOK, PaymentInv, UNCHANGED <<wf, routeAttempts, execs>>,
           \A n \in Node : Begun(n) => Begun(n)'
    PROVE  PaymentInv'
<1> SUFFICES ASSUME NEW n \in Node
             PROVE  /\ execs'[n] <= CounterBound
                    /\ execs'[n] <= PaidRepairs(n)' + (IF Begun(n)' THEN 1 ELSE 0)
  BY DEF PaymentInv
<1>1. RoutesOver(n)' = RoutesOver(n)
  BY DEF RoutesOver, HasRoute
<1>2. PaidRepairs(n)' = Total(routeAttempts', RoutesOver(n)')
  BY PaidIsTotal
<1>3. PaidRepairs(n)' = PaidRepairs(n)
  BY <1>1, <1>2, PaidIsTotal
<1>4. PaidRepairs(n) \in Nat /\ execs[n] \in Nat
  BY PaidIsCount DEF TypeOK
<1> QED
  BY <1>3, <1>4 DEF PaymentInv

\* The repair at pos pays for one more execution of every node it goes back over;
\* one that is no longer counted has been counted often enough.
LEMMA RepairPays ==
    ASSUME TypeOK, PaymentInv, pos \in Node, HasRoute(pos), TargetPos < pos, CountAttempt,
           wf' = wf, NEW n \in Node
    PROVE  /\ PaidRepairs(n)' >= PaidRepairs(n)
           /\ n \in Rerun => \/ PaidRepairs(n)' >= PaidRepairs(n) + 1
                             \/ PaidRepairs(n)' >= CounterBound
<1> DEFINE d == IF routeAttempts[pos] < CounterBound THEN 1 ELSE 0
<1>1. /\ routeAttempts[pos] \in Nat
      /\ d \in Nat /\ Bump(routeAttempts[pos]) = routeAttempts[pos] + d
      /\ d = 1 \/ routeAttempts[pos] >= CounterBound
  <2>1. routeAttempts[pos] \in Nat
    BY DEF TypeOK
  <2> QED
    BY <2>1 DEF Bump
<1>2. \A m \in Node : /\ routeAttempts[m] \in Nat
                      /\ routeAttempts'[m] = routeAttempts[m] + IF m = pos THEN d ELSE 0
  BY <1>1 DEF CountAttempt, TypeOK
<1> HIDE DEF d
<1>3. RoutesOver(n)' = RoutesOver(n)
  BY DEF RoutesOver, HasRoute
<1>4. PaidRepairs(n)' = Total(routeAttempts', RoutesOver(n)')
  BY PaidIsTotal
<1>5. PaidRepairs(n) = Total(routeAttempts, RoutesOver(n))
  BY PaidIsTotal
<1>6. Total(routeAttempts', RoutesOver(n))
        = Total(routeAttempts, RoutesOver(n)) + IF pos \in RoutesOver(n) THEN d ELSE 0
  <2>1. \A m \in RoutesOver(n) : /\ routeAttempts[m] \in Nat
                                /\ routeAttempts'[m] = routeAttempts[m] + IF m = pos THEN d ELSE 0
    BY <1>2, RoutesOverAreNodes
  <2>2. IsFiniteSet(RoutesOver(n)) /\ d \in Nat
    BY <1>1, RoutesOverAreNodes
  <2> QED
    BY <2>1, <2>2, TotalGrows, ZenonT(30)
<1>7. PaidRepairs(n)' = PaidRepairs(n) + IF pos \in RoutesOver(n) THEN d ELSE 0
  BY <1>3, <1>4, <1>5, <1>6
<1>8. /\ PaidRepairs(n) \in Nat
      /\ pos \in RoutesOver(n) => routeAttempts[pos] <= PaidRepairs(n)
  BY PaidIsCount
<1>9. n \in Rerun => pos \in RoutesOver(n)
  BY WorkflowType DEF Rerun, TargetPos, RoutesOver, HasRoute
<1> QED
  BY <1>1, <1>7, <1>8, <1>9

LEMMA PaymentStep ==
    ASSUME TypeOK, TypeOK', SessionInv, PaymentInv, [Next]_vars
    PROVE  PaymentInv'
<1>1. CASE Run \/ Resume \/ Crash
  <2>1. execs' = [n \in Node |-> 0]
    BY <1>1 DEF Run, Resume, Crash, EnterEngine, NewMemory
  <2>2. RepairsAreCounts'
    BY PaidAreCounts, PTL
  <2> QED
    BY <2>1, <2>2 DEF PaymentInv, RepairsAreCounts
<1>2. CASE (\E n \in Node : ApproveGate(n)) \/ UNCHANGED vars
  BY <1>2, PaymentKept DEF ApproveGate, vars, engine, history, Begun
<1>3. CASE SkipCompleted \/ SkipNode \/ \E o \in Output : NodePasses(o)
  <2>1. /\ UNCHANGED <<wf, routeAttempts, execs>>
        /\ pos \in Node /\ pos' = pos + 1 /\ proc # "off"
    BY <1>3 DEF SkipCompleted, SkipNode, NodePasses, AtNode, Continue, history, TypeOK
  <2>2. \A n \in Node : Begun(n) => Begun(n)'
    BY <2>1 DEF Begun
  <2> QED
    BY <2>1, <2>2, PaymentKept
<1>4. CASE PauseAtGate \/ Complete \/ \E o \in Output : Halts(o)
  <2>1. UNCHANGED <<wf, routeAttempts, execs>> /\ proc' = "off"
    BY <1>4 DEF PauseAtGate, Complete, Halts, FailWithoutRoute, FailExhausted, FailRepeated,
                NodeFails, Return, history
  <2> QED
    BY <2>1, PaymentKept DEF Begun
<1>5. CASE StartNode
  <2>1. /\ UNCHANGED <<wf, routeAttempts, pos>> /\ pos \in Node
        /\ execs' = [execs EXCEPT ![pos] = Bump(@)]
        /\ proc = "loop" /\ proc' = "exec"
    BY <1>5 DEF StartNode, AtNode, engine
  <2>2. ASSUME NEW n \in Node
        PROVE  /\ execs'[n] <= CounterBound
               /\ execs'[n] <= PaidRepairs(n)' + (IF Begun(n)' THEN 1 ELSE 0)
    <3>1. RoutesOver(n)' = RoutesOver(n)
      BY <2>1 DEF RoutesOver, HasRoute
    <3>2. PaidRepairs(n)' = Total(routeAttempts', RoutesOver(n)')
      BY PaidIsTotal
    <3>3. PaidRepairs(n)' = PaidRepairs(n) /\ PaidRepairs(n) \in Nat
      BY <2>1, <3>1, <3>2, PaidIsTotal, PaidIsCount
    <3>4. /\ execs[n] \in Nat /\ execs[n] <= CounterBound
          /\ execs[n] <= PaidRepairs(n) + (IF Begun(n) THEN 1 ELSE 0)
      BY DEF TypeOK, PaymentInv
    <3>5. CASE n = pos
      <4>1. execs'[n] = Bump(execs[n]) /\ ~Begun(n) /\ Begun(n)'
        BY <2>1, <3>5 DEF Begun, TypeOK
      <4> QED
        BY <3>3, <3>4, <4>1 DEF Bump
    <3>6. CASE n # pos
      <4>1. execs'[n] = execs[n] /\ (Begun(n)' <=> Begun(n))
        BY <2>1, <3>6 DEF Begun, TypeOK
      <4> QED
        BY <3>3, <3>4, <4>1
    <3> QED
      BY <3>5, <3>6
  <2> QED
    BY <2>2 DEF PaymentInv
<1>6. ASSUME NEW o \in Output, RouteBack(o) PROVE PaymentInv'
  <2>1. /\ pos \in Node /\ wf' = wf /\ execs' = execs /\ proc = "exec" /\ proc' = "loop"
        /\ HasRoute(pos) /\ CountAttempt /\ pos' = TargetPos
    BY <1>6 DEF RouteBack, NodeFails, TypeOK
  <2>2. TargetPos \in Node /\ TargetPos < pos
    BY <2>1, WorkflowType DEF SessionInv, RoutesPointBack, TargetPos, HasRoute
  <2>3. ASSUME NEW n \in Node
        PROVE  /\ execs'[n] <= CounterBound
               /\ execs'[n] <= PaidRepairs(n)' + (IF Begun(n)' THEN 1 ELSE 0)
    <3>1. /\ execs[n] \in Nat /\ execs[n] <= CounterBound
          /\ execs[n] <= PaidRepairs(n) + (IF Begun(n) THEN 1 ELSE 0)
          /\ PaidRepairs(n) \in Nat /\ PaidRepairs(n)' \in Nat
      <4>1. RepairsAreCounts'
        BY PaidAreCounts, PTL
      <4> QED
        BY <4>1, PaidIsCount DEF TypeOK, PaymentInv, RepairsAreCounts
    <3>2. /\ PaidRepairs(n)' >= PaidRepairs(n)
          /\ n \in Rerun => \/ PaidRepairs(n)' >= PaidRepairs(n) + 1
                            \/ PaidRepairs(n)' >= CounterBound
      BY <2>1, <2>2, RepairPays
    <3>3. n \notin Rerun => (Begun(n) => Begun(n)')
      BY <2>1, <2>2 DEF Begun, Rerun
    <3> QED
      BY <2>1, <3>1, <3>2, <3>3
  <2> QED
    BY <2>3 DEF PaymentInv
<1> QED
  BY <1>1, <1>2, <1>3, <1>4, <1>5, <1>6 DEF Next, EngineStep, Finishes, Halts

LEMMA InitPayment == Init => PaymentInv
<1> SUFFICES ASSUME Init PROVE PaymentInv
  OBVIOUS
<1>1. \A n \in Node : PaidRepairs(n) \in Nat
  BY InitType, PaidIsCount
<1> QED
  BY <1>1 DEF Init, PaymentInv

-----------------------------------------------------------------------------
(* The theorems.                                                           *)

LEMMA InitInv == Init => Inv
<1> SUFFICES ASSUME Init PROVE Inv
  OBVIOUS
<1>1. TypeOK
  BY InitType
<1>2. \A n \in Node : wf[n].maxIterations \in Nat /\ wf[n].maxRepeated \in Nat
  BY <1>1, WorkflowType
<1>3. RoutesStayCapped
  BY <1>2 DEF Init, RoutesStayCapped
<1>4. ReviewInv
  BY DEF Init, ReviewInv, NewRun, Unmarked
<1>5. PrefixIsSettled /\ MemoryFollowsRun /\ StateFileFollowsRun
  BY DEF Init, PrefixIsSettled, MemoryFollowsRun, StateFileFollowsRun
<1>6. GatesAreReviewed
  BY DEF Init, GatesAreReviewed, NewRun, Unmarked, NoResult
<1> QED
  BY <1>1, <1>3, <1>4, <1>5, <1>6, InitPayment
     DEF Init, Inv, SessionInv, ExecutionInv, PauseIsApprovable, SettledByRule, NewRun

\* The invariant of a run with failure routes is inductive.
THEOREM RouteRunInvariant == Spec => []Inv
<1>1. Inv /\ [Next]_vars => Inv'
  BY NextType, SessionStep, ExecutionStep, PaymentStep, ReviewStep, PrefixStep, GatesStep,
     PauseStep, RuleStep, CapsStep, MemoryStep, FileStep DEF Inv
<1> QED
  BY <1>1, InitInv, PTL DEF Spec

\* However runs, crashes, approvals and resumes follow each other, no gate
\* counts as passed before a reviewer approved it.
THEOREM GatesHold == Spec => []GatesAreReviewed
<1>1. Inv => GatesAreReviewed
  BY DEF Inv
<1> QED
  BY <1>1, RouteRunInvariant, PTL

\* Every pause that is on disk can be approved, whatever saves failed.
THEOREM PausesHold == Spec => []PauseIsApprovable
<1>1. Inv => PauseIsApprovable
  BY DEF Inv
<1> QED
  BY <1>1, RouteRunInvariant, PTL

\* The loop leaves only passed and skipped nodes behind, through any number of
\* repairs.
THEOREM PrefixHolds == Spec => []PrefixIsSettled
<1>1. Inv => PrefixIsSettled
  BY DEF Inv
<1> QED
  BY <1>1, RouteRunInvariant, PTL

\* What the loop decided about a node is what its trigger rule and its
\* condition say, through any number of repairs.
THEOREM RunFollowsRules == Spec => []SettledByRule
<1>1. Inv => SettledByRule
  BY DEF Inv
<1> QED
  BY <1>1, RouteRunInvariant, PTL

\* No route is taken, and no failure repeated, beyond its cap.
THEOREM CapsHold == Spec => []RoutesStayCapped
<1>1. Inv => RoutesStayCapped
  BY DEF Inv
<1> QED
  BY <1>1, RouteRunInvariant, PTL

\* However repairs nest and repeat, every execution of a node after its first is
\* paid for by a route over it.
THEOREM ExecutionsHold == Spec => []ExecutionsArePaidFor
<1>1. Inv => ExecutionsArePaidFor
  <2> SUFFICES ASSUME Inv, NEW n \in Node PROVE execs[n] <= 1 + PaidRepairs(n)
    BY DEF ExecutionsArePaidFor
  <2>1. PaidRepairs(n) \in Nat /\ execs[n] \in Nat
    BY PaidIsCount DEF Inv, TypeOK
  <2> QED
    BY <2>1 DEF Inv, PaymentInv
<1> QED
  BY <1>1, RouteRunInvariant, PTL

\* Once a save succeeds the state file agrees with the engine on every
\* node the loop has left behind.
THEOREM FileFollows == Spec => []StateFileFollowsRun
<1>1. Inv => StateFileFollowsRun
  BY DEF Inv
<1> QED
  BY <1>1, RouteRunInvariant, PTL

\* A reviewer is asked again for a gate only after a route cleared it.
THEOREM ApprovalHolds == Spec => ApprovalIsHonoured
<1>1. Inv /\ [Next]_vars =>
        [\A n \in reviewed :
            (proc = "loop" /\ outcome' = "paused" /\ pos = n) => n \in stale]_vars
  <2> SUFFICES ASSUME Inv, Next, NEW n \in reviewed, proc = "loop", outcome' = "paused",
                      pos = n, n \notin stale
               PROVE  FALSE
    OBVIOUS
  <2>1. n \in Node /\ results[n].status = "passed"
    BY DEF Inv, ReviewInv, TypeOK
  <2>2. outcome = "none"
    BY DEF Inv, SessionInv
  <2>3. ~PauseAtGate
    BY <2>1 DEF PauseAtGate, Completed
  <2> QED
    BY <2>2, <2>3 DEF Next, EngineStep, Finishes, Run, Resume, EnterEngine, NewMemory, ApproveGate,
         Crash, NewMemory, SkipCompleted, SkipNode, StartNode, NodePasses, FailWithoutRoute,
         FailExhausted, FailRepeated, RouteBack, Complete, Continue, Return
<1> QED
  BY <1>1, RouteRunInvariant, PTL DEF Spec, ApprovalIsHonoured

-----------------------------------------------------------------------------
(* RouteRun implements WorkflowRun, by step simulation.                    *)

\* What the marks do to the recorded sets.
LEMMA MarksAndSets ==
    ASSUME NEW rs \in RunStates, NEW n \in Node, NEW o \in Output
    PROVE  /\ With("passed", MarkPassed(rs, n, o)) = With("passed", rs) \cup {n}
           /\ With("passed", MarkFailed(rs, n, o)) = With("passed", rs) \ {n}
           /\ With("passed", MarkSkipped(rs, n)) = With("passed", rs) \ {n}
           /\ With("passed", MarkPaused(rs, n)) = With("passed", rs) \ {n}
           /\ With("passed", Approve(rs, n)) = With("passed", rs) \cup {n}
           /\ With("paused", MarkPassed(rs, n, o)) = With("paused", rs) \ {n}
           /\ With("paused", MarkFailed(rs, n, o)) = With("paused", rs) \ {n}
           /\ With("paused", MarkSkipped(rs, n)) = With("paused", rs) \ {n}
           /\ With("paused", MarkPaused(rs, n)) = With("paused", rs) \cup {n}
           /\ With("paused", Approve(rs, n)) = With("paused", rs) \ {n}
<1>1. \A m \in Node : MarkPassed(rs, n, o).nodes[m].status =
            IF m = n THEN "passed" ELSE rs.nodes[m].status
  BY DEF MarkPassed, RunStates, Unmarked
<1>2. \A m \in Node : MarkFailed(rs, n, o).nodes[m].status =
            IF m = n THEN "failed" ELSE rs.nodes[m].status
  BY DEF MarkFailed, RunStates, Unmarked
<1>3. \A m \in Node : MarkSkipped(rs, n).nodes[m].status =
            IF m = n THEN "skipped" ELSE rs.nodes[m].status
  BY SilentMarksEffect DEF Unmarked
<1>4. \A m \in Node : MarkPaused(rs, n).nodes[m].status =
            IF m = n THEN "paused" ELSE rs.nodes[m].status
  BY SilentMarksEffect DEF Unmarked
<1>5. \A m \in Node : Approve(rs, n).nodes[m].status =
            IF m = n THEN "passed" ELSE rs.nodes[m].status
  BY ApproveEffect
<1>. QED
  BY <1>1, <1>2, <1>3, <1>4, <1>5 DEF With

LEMMA NewRunSets == With("passed", NewRun) = {} /\ With("paused", NewRun) = {}
BY DEF With, NewRun, Unmarked

-----------------------------------------------------------------------------
(* The strengthened invariant.                                             *)

LEMMA NothingPaused == \A n \in Node : NewRun.nodes[n].status # "paused"
BY DEF NewRun, Unmarked

LEMMA InitRefinement == Init => RefinementInv
BY NothingPaused DEF Init, RefinementInv

\* Which node a state names as paused after a mark.
LEMMA PausedMarks ==
    ASSUME NEW rs \in RunStates, NEW n \in Node, NEW o \in Output,
           \A m \in Node : rs.nodes[m].status = "paused" => rs.paused = m
    PROVE  /\ \A m \in Node : MarkPassed(rs, n, o).nodes[m].status = "paused"
                                  => MarkPassed(rs, n, o).paused = m
           /\ \A m \in Node : MarkFailed(rs, n, o).nodes[m].status = "paused"
                                  => MarkFailed(rs, n, o).paused = m
           /\ \A m \in Node : MarkSkipped(rs, n).nodes[m].status = "paused"
                                  => MarkSkipped(rs, n).paused = m
           /\ rs.paused = NoNode =>
                \A m \in Node : MarkPaused(rs, n).nodes[m].status = "paused"
                                  => MarkPaused(rs, n).paused = m
           /\ rs.paused = n =>
                \A m \in Node : Approve(rs, n).nodes[m].status = "paused"
                                  => Approve(rs, n).paused = m
<1>1. \A m \in Node : MarkPassed(rs, n, o).nodes[m].status = "paused"
                          => MarkPassed(rs, n, o).paused = m
  BY DEF MarkPassed, RunStates, Unmarked
<1>2. \A m \in Node : MarkFailed(rs, n, o).nodes[m].status = "paused"
                          => MarkFailed(rs, n, o).paused = m
  <2>1. MarkFailed(rs, n, o).paused = rs.paused
    BY DEF MarkFailed, RunStates
  <2>. QED
    BY <2>1 DEF MarkFailed, RunStates, Unmarked
<1>3. \A m \in Node : MarkSkipped(rs, n).nodes[m].status = "paused"
                          => MarkSkipped(rs, n).paused = m
  <2>1. MarkSkipped(rs, n).paused = rs.paused
    BY DEF MarkSkipped, RunStates
  <2>. QED
    BY <2>1, SilentMarksEffect DEF Unmarked
<1>4. rs.paused = NoNode =>
        \A m \in Node : MarkPaused(rs, n).nodes[m].status = "paused" => MarkPaused(rs, n).paused = m
  <2>1. MarkPaused(rs, n).paused = n
    BY DEF MarkPaused
  <2>2. \A m \in Node : NoNode # m
    BY NoNodeAssumption
  <2>. QED
    BY <2>1, <2>2, SilentMarksEffect
<1>5. rs.paused = n =>
        \A m \in Node : Approve(rs, n).nodes[m].status = "paused" => Approve(rs, n).paused = m
  BY ApproveEffect
<1>. QED
  BY <1>1, <1>2, <1>3, <1>4, <1>5

\* The two states a save may leave, when the new one names its paused node.
LEMMA SavedMarks ==
    ASSUME RefinementInv, NEW rs, Persist(rs),
           \A m \in Node : rs.nodes[m].status = "paused" => rs.paused = m
    PROVE  /\ \A n \in Node : file'.nodes[n].status = "paused" => file'.paused = n
           /\ \A n \in Node : runState'.nodes[n].status = "paused" => runState'.paused = n
BY DEF RefinementInv, Persist

LEMMA RefinementStep ==
    ASSUME Inv, RefinementInv, [Next]_vars
    PROVE  RefinementInv'
<1>. USE DEF Inv
<1>1. CASE Run
  <2>1. sessions' > 0 /\ (proc' = "off" => outcome' # "none") /\ pos' = 1
    BY <1>1 DEF Run, EnterEngine, NewMemory, TypeOK
  <2>2. runState' = NewRun /\ file' = NewRun
    BY <1>1 DEF Run
  <2>. QED
    BY <2>1, <2>2, NothingPaused DEF RefinementInv
<1>2. CASE Resume
  <2>1. sessions' > 0 /\ (proc' = "off" => outcome' # "none") /\ pos' = 1
    BY <1>2 DEF Resume, EnterEngine, NewMemory, TypeOK
  <2>2. runState' = file /\ file' = file
    BY <1>2 DEF Resume
  <2>. QED
    BY <2>1, <2>2 DEF RefinementInv
<1>3. ASSUME NEW n \in Node, ApproveGate(n) PROVE RefinementInv'
  <2>1. file.paused = n /\ file' = Approve(file, n) /\ file \in RunStates
    BY <1>3 DEF ApproveGate, CanApprove, TypeOK
  <2>2. \A m \in Node : file'.nodes[m].status = "paused" => file'.paused = m
    BY <2>1, PausedMarks DEF RefinementInv
  <2>. QED
    BY <1>3, <2>2 DEF ApproveGate, RefinementInv, engine, Completed
<1>4. CASE Crash
  <2>1. /\ runState' = NewRun /\ file' = file /\ sessions' = sessions /\ pos' = 1
        /\ proc' = "off" /\ outcome' = "crashed"
    BY <1>4 DEF Crash, NewMemory
  <2>. QED
    BY <2>1, NothingPaused DEF RefinementInv
<1>5. CASE EngineStep
  <2>1. proc # "off" /\ sessions' = sessions /\ runState \in RunStates
        /\ runState.paused = NoNode /\ outcome = "none"
    BY <1>5 DEF EngineStep, SkipCompleted, SkipNode, PauseAtGate, StartNode, Finishes,
       NodePasses, FailWithoutRoute, FailExhausted, FailRepeated, RouteBack, Complete,
       NodeFails, AtNode, Continue, Return, TypeOK, SessionInv
  <2>2. proc' = "off" => outcome' # "none"
    BY <1>5, <2>1 DEF EngineStep, SkipCompleted, SkipNode, PauseAtGate, StartNode, Finishes,
       NodePasses, FailWithoutRoute, FailExhausted, FailRepeated, RouteBack, Complete,
       NodeFails, AtNode, Continue, Return
  <2>3. sessions' # 0
    BY <2>1 DEF RefinementInv
  <2>4. \A n \in Node : n < pos' => n \in fresh' \/ Completed(n)'
    <3>1. CASE SkipCompleted
      <4>1. pos \in Node /\ Completed(pos) /\ pos' = pos + 1 /\ fresh' = fresh
            /\ results' = results
        BY <3>1 DEF SkipCompleted, AtNode, Continue, history
      <4>. QED
        BY <4>1 DEF RefinementInv, Completed
    <3>2. CASE SkipNode \/ \E o \in Output : NodePasses(o)
      <4>1. pos \in Node /\ pos' = pos + 1 /\ fresh' = fresh \cup {pos}
            /\ \A m \in Node : m # pos => results'[m] = results[m]
        BY <3>2 DEF SkipNode, NodePasses, AtNode, Continue, Settle, TypeOK
      <4>. QED
        BY <4>1 DEF RefinementInv, Completed
    <3>3. CASE PauseAtGate \/ \E o \in Output : Halts(o)
      <4>1. pos' = pos /\ fresh' = fresh \cup {pos}
            /\ \A m \in Node : m # pos => results'[m] = results[m]
        BY <3>3, HaltsEffect DEF PauseAtGate, Return, Settle, TypeOK
      <4>. QED
        BY <4>1 DEF RefinementInv, Completed
    <3>4. CASE StartNode \/ Complete
      BY <3>4 DEF StartNode, Complete, Return, engine, history, RefinementInv, Completed
    <3>5. ASSUME NEW o \in Output, RouteBack(o)
          PROVE  \A n \in Node : n < pos' => n \in fresh' \/ Completed(n)'
      <4>1. pos \in Node /\ TargetPos \in Node
        BY <3>5, WorkflowType DEF RouteBack, NodeFails, HasRoute, TargetPos, TypeOK
      <4>2. TargetPos < pos
        BY <3>5, <2>1, <4>1 DEF RouteBack, SessionInv, RoutesPointBack, HasRoute, TargetPos
      <4>3. pos' = TargetPos /\ fresh' = fresh \ (TargetPos..pos)
            /\ \A m \in Node : m \notin TargetPos..pos => results'[m] = results[m]
        BY <3>5 DEF RouteBack, Cleared, Rerun
      <4>4. \A n \in Node : n < TargetPos => n < pos /\ n \notin TargetPos..pos
        BY <4>1, <4>2
      <4>. QED
        BY <4>3, <4>4 DEF RefinementInv, Completed
    <3>. QED
      BY <1>5, <3>1, <3>2, <3>3, <3>4, <3>5 DEF EngineStep, Finishes, Halts
  <2>5. /\ \A n \in Node : file'.nodes[n].status = "paused" => file'.paused = n
        /\ \A n \in Node : runState'.nodes[n].status = "paused" => runState'.paused = n
    <3>1. \A m \in Node : runState.nodes[m].status = "paused" => runState.paused = m
      BY DEF RefinementInv
    <3>2. CASE StartNode \/ Complete
      BY <3>2 DEF StartNode, Complete, storage, RefinementInv
    <3>3. CASE SkipCompleted
      <4>1. PICK o \in Output : Persist(MarkPassed(runState, pos, o))
        BY <3>3 DEF SkipCompleted, AtNode, TypeOK, NodeResult
      <4>2. pos \in Node
        BY <3>3 DEF SkipCompleted, AtNode
      <4>3. \A m \in Node : MarkPassed(runState, pos, o).nodes[m].status = "paused"
                              => MarkPassed(runState, pos, o).paused = m
        BY <2>1, <3>1, <4>2, PausedMarks
      <4>. QED
        BY <4>1, <4>3, SavedMarks
    <3>4. CASE SkipNode
      <4>1. pos \in Node /\ Persist(MarkSkipped(runState, pos))
        BY <3>4 DEF SkipNode, AtNode
      <4>2. \A m \in Node : MarkSkipped(runState, pos).nodes[m].status = "paused"
                              => MarkSkipped(runState, pos).paused = m
        BY <2>1, <3>1, <4>1, PausedMarks, OutputAssumption
      <4>. QED
        BY <4>1, <4>2, SavedMarks
    <3>5. CASE PauseAtGate
      <4>1. pos \in Node /\ Persist(MarkPaused(runState, pos))
        BY <3>5 DEF PauseAtGate, AtNode
      <4>2. \A m \in Node : MarkPaused(runState, pos).nodes[m].status = "paused"
                              => MarkPaused(runState, pos).paused = m
        BY <2>1, <3>1, <4>1, PausedMarks, OutputAssumption
      <4>. QED
        BY <4>1, <4>2, SavedMarks
    <3>6. ASSUME NEW o \in Output, NodePasses(o)
          PROVE  /\ \A n \in Node : file'.nodes[n].status = "paused" => file'.paused = n
                 /\ \A n \in Node : runState'.nodes[n].status = "paused" => runState'.paused = n
      <4>1. pos \in Node /\ Persist(MarkPassed(runState, pos, o))
        BY <3>6 DEF NodePasses, TypeOK
      <4>2. \A m \in Node : MarkPassed(runState, pos, o).nodes[m].status = "paused"
                              => MarkPassed(runState, pos, o).paused = m
        BY <2>1, <3>1, <4>1, PausedMarks
      <4>. QED
        BY <4>1, <4>2, SavedMarks
    <3>7. ASSUME NEW o \in Output, NodeFails(o)
          PROVE  /\ \A n \in Node : file'.nodes[n].status = "paused" => file'.paused = n
                 /\ \A n \in Node : runState'.nodes[n].status = "paused" => runState'.paused = n
      <4>1. pos \in Node /\ Persist(MarkFailed(runState, pos, o))
        BY <3>7 DEF NodeFails, TypeOK
      <4>2. \A m \in Node : MarkFailed(runState, pos, o).nodes[m].status = "paused"
                              => MarkFailed(runState, pos, o).paused = m
        BY <2>1, <3>1, <4>1, PausedMarks
      <4>. QED
        BY <4>1, <4>2, SavedMarks
    <3>. QED
      BY <1>5, <3>2, <3>3, <3>4, <3>5, <3>6, <3>7
         DEF EngineStep, Finishes, FailWithoutRoute, FailExhausted, FailRepeated, RouteBack
  <2>. QED
    BY <2>2, <2>3, <2>4, <2>5 DEF RefinementInv
<1>6. CASE UNCHANGED vars
  BY <1>6 DEF vars, engine, storage, history, RefinementInv, Completed
<1>. QED
  BY <1>1, <1>2, <1>3, <1>4, <1>5, <1>6 DEF Next
-----------------------------------------------------------------------------
(* What WorkflowRun sees of a state.                                       *)

\* What a session that runs looks like.
LEMMA RunningView ==
    ASSUME Inv, RefinementInv, proc # "off"
    PROVE  Verdict = "open" /\ (proc = "loop" => AtWork = {})
BY DEF Inv, RefinementInv, SessionInv, Verdict, AtWork, TypeOK

\* The node at the loop position is undecided and its dependencies are decided.
LEMMA PositionView ==
    ASSUME Inv, RefinementInv, proc # "off", pos \in Node
    PROVE  /\ ~Completed(pos) => Decided[pos] = "none"
           /\ \A d \in wf[pos].deps :
                /\ d \in Node /\ d # pos
                /\ Decided[d] \in {"passed", "trusted", "skipped"}
                /\ Decided[d] \in {"passed", "trusted"} <=> results[d].status = "passed"
<1>1. pos \notin fresh
  BY DEF Inv, SessionInv, TypeOK
<1>2. \A d \in wf[pos].deps : d \in Node /\ d < pos
  <2>1. wf[pos].deps \subseteq 1..(pos - 1) /\ wf[pos].deps \subseteq Node
    BY WorkflowType DEF Inv
  <2>. QED
    BY <2>1
<1>3. \A d \in wf[pos].deps : /\ results[d].status \in {"passed", "skipped"}
                              /\ d \in fresh \/ results[d].status = "passed"
  BY <1>2 DEF Inv, PrefixIsSettled, RefinementInv, Completed
<1>. QED
  BY <1>1, <1>2, <1>3 DEF Decided, Completed

\* In the words of WorkflowRun: considered, and triggered when the code runs it.
LEMMA Considered ==
    ASSUME Inv, RefinementInv, AtNode, ~Completed(pos)
    PROVE  /\ Abstract!Considered(pos)
           /\ ShouldRun(wf[pos], results) => Abstract!Triggered(pos)
           /\ Plan[pos].gate <=> wf[pos].kind = "human_gate"
<1>1. /\ Plan[pos].deps = wf[pos].deps /\ Plan[pos].trigger = wf[pos].trigger
      /\ Plan[pos].gate <=> wf[pos].kind = "human_gate"
  BY DEF Plan, AtNode
<1>2. Verdict = "open" /\ AtWork = {}
  BY RunningView DEF AtNode
<1>3. /\ Decided[pos] = "none"
      /\ \A d \in wf[pos].deps :
           /\ d \in Node /\ d # pos
           /\ Decided[d] \in {"passed", "trusted", "skipped"}
           /\ Decided[d] \in {"passed", "trusted"} <=> results[d].status = "passed"
  BY PositionView DEF AtNode
<1>4. Abstract!Considered(pos)
  BY <1>1, <1>2, <1>3 DEF Abstract!Considered, Abstract!Done
<1>5. ASSUME ShouldRun(wf[pos], results) PROVE Abstract!Triggered(pos)
  <2>1. {d \in Plan[pos].deps : Decided[d] \in Abstract!Done}
            = wf[pos].deps \cap Passed(results)
    BY <1>1, <1>3 DEF Passed, Inv, TypeOK, Abstract!Done
  <2>2. DependenciesReady(wf[pos], results)
    BY <1>5 DEF ShouldRun
  <2>. QED
    BY <1>1, <2>1, <2>2 DEF DependenciesReady, Abstract!Triggered
<1>. QED
  BY <1>1, <1>4, <1>5

\* A save records nothing but what is decided.
LEMMA Kept ==
    ASSUME NEW rs, Persist(rs),
           With("passed", rs) \subseteq
               With("passed", runState) \cup {n \in Node : Decided'[n] \in {"passed", "trusted"}},
           With("paused", rs) \subseteq
               With("paused", runState) \cup {n \in Node : Decided'[n] = "paused"}
    PROVE  Abstract!Keep
BY DEF Persist, Asked, With, Abstract!Keep, Abstract!Done

\* A new result at the loop position, and nothing else, is a new decision.
LEMMA SettledView ==
    ASSUME Inv, pos \in Node, NEW status, NEW o, Settle(status, o)
    PROVE  Decided' = [Decided EXCEPT ![pos] = status]
<1>1. /\ results'[pos].status = status /\ fresh' = fresh \cup {pos}
      /\ \A m \in Node : m # pos => results'[m] = results[m]
  BY SettleEffect DEF Inv
<1>. QED
  BY <1>1 DEF Decided, Completed

-----------------------------------------------------------------------------
(* The simulation.                                                         *)

\* What stays for a step of the engine that does not end the session.
LEMMA GoesOn ==
    ASSUME RefinementInv, proc # "off", proc' # "off", sessions' = sessions, outcome' = outcome
    PROVE  Verdict' = Verdict
BY DEF RefinementInv, Verdict

\* A step that ends the session gives the verdict.
LEMMA Ends ==
    ASSUME RefinementInv, proc # "off", sessions' = sessions,
           NEW reported \in {"passed", "failed", "paused"}, outcome' = reported
    PROVE  Verdict' = reported
BY DEF RefinementInv, Verdict

LEMMA InitRefines == Init => Abstract!Init
<1>. SUFFICES ASSUME Init PROVE Abstract!Init
  OBVIOUS
<1>1. TypeOK
  BY InitType
<1>2. \A n \in Node : wf[n].deps \subseteq Node /\ wf[n].trigger \in TriggerRule
  <2>1. \A n \in Node : wf[n] \in RouteConf
    BY <1>1, WorkflowType
  <2>. QED
    BY <2>1 DEF RouteConf
<1>3. Plan \in [Node -> [gate : BOOLEAN, deps : SUBSET Node,
                         trigger : {"all_success", "one_success", "all_done"}]]
  BY <1>2 DEF Plan, TriggerRule
<1>4. Verdict = "unstarted" /\ AtWork = {}
  BY DEF Init, Verdict, AtWork
<1>5. Decided = [n \in Node |-> "none"]
  BY DEF Init, Decided, Completed, NoResult
<1>6. With("passed", file) = {} /\ With("passed", runState) = {} /\ Asked = {}
  BY NewRunSets DEF Init, Asked
<1>. QED
  BY <1>3, <1>4, <1>5, <1>6 DEF Abstract!Init

\* Between sessions no session is open and no node at work.
LEMMA BetweenSessions ==
    ASSUME Inv, RefinementInv, proc = "off"
    PROVE  Verdict # "open" /\ AtWork = {}
BY DEF Inv, TypeOK, RefinementInv, Verdict, AtWork

LEMMA EnterRefines ==
    ASSUME Inv, RefinementInv, NEW initial, EnterEngine(initial), Asked' = {}
    PROVE  Abstract!Enter([n \in Node |-> IF initial[n].status = "passed" THEN "trusted" ELSE "none"])
<1>1. /\ proc = "off" /\ sessions' = sessions + 1 /\ wf' = wf /\ sessions \in Nat
      /\ (proc' = "loop" /\ outcome' = "none") \/ (proc' = "off" /\ outcome' = "failed")
      /\ results' = initial /\ fresh' = {}
  BY DEF EnterEngine, NewMemory, Inv, TypeOK
<1>2. Verdict' \in {"open", "failed"} /\ AtWork' = {}
  BY <1>1 DEF Verdict, AtWork
<1>3. Decided' = [n \in Node |-> IF initial[n].status = "passed" THEN "trusted" ELSE "none"]
  BY <1>1 DEF Decided, Completed
<1>4. Verdict # "open" /\ AtWork = {}
  BY <1>1, BetweenSessions
<1>5. Plan' = Plan
  BY <1>1 DEF Plan
<1>. QED
  BY <1>2, <1>3, <1>4, <1>5 DEF Abstract!Enter

LEMMA RunRefines == ASSUME Inv, RefinementInv, Run PROVE Abstract!Begin
<1>1. runState' = NewRun /\ file' = NewRun /\ EnterEngine([n \in Node |-> NoResult])
  BY DEF Run
<1>2. Asked' = {} /\ With("passed", file)' = {} /\ With("passed", runState)' = {}
  BY <1>1, NewRunSets DEF Asked, With
<1>3. [n \in Node |-> IF [m \in Node |-> NoResult][n].status = "passed" THEN "trusted" ELSE "none"]
          = [n \in Node |-> "none"]
  BY DEF NoResult
<1>4. Abstract!Enter([n \in Node |-> "none"])
  BY <1>1, <1>2, <1>3, EnterRefines
<1>. QED
  BY <1>2, <1>4 DEF Abstract!Begin

\* Resume trusts exactly the recorded passes, and no gate is pending.
LEMMA ResumeRefines == ASSUME Inv, RefinementInv, Resume PROVE Abstract!Resume
<1>1. /\ runState' = file /\ file' = file /\ file.paused = NoNode /\ file \in RunStates
      /\ sessions > 0 /\ EnterEngine(InitialResults(file))
  BY DEF Resume, Inv, TypeOK
<1>2. With("paused", file) = {}
  BY <1>1 DEF With, RefinementInv
<1>3. /\ Asked' = {} /\ With("passed", runState)' = With("passed", file)
      /\ With("passed", file)' = With("passed", file)
  BY <1>1, <1>2 DEF Asked, With
<1>4. [n \in Node |-> IF InitialResults(file)[n].status = "passed" THEN "trusted" ELSE "none"]
          = [n \in Node |-> IF n \in With("passed", file) THEN "trusted" ELSE "none"]
  BY <1>1, InitialResultsEffect DEF With
<1>5. Abstract!Enter([n \in Node |-> IF n \in With("passed", file) THEN "trusted" ELSE "none"])
  BY <1>1, <1>3, <1>4, EnterRefines
<1>6. Verdict # "unstarted"
  BY <1>1 DEF Verdict, Inv, TypeOK, Resume, EnterEngine
<1>. QED
  BY <1>3, <1>5, <1>6 DEF Abstract!Resume

LEMMA ApproveRefines ==
    ASSUME Inv, RefinementInv, NEW n \in Node, ApproveGate(n)
    PROVE  Abstract!Approve(n)
<1>1. /\ file \in RunStates /\ file.nodes[n].status = "paused" /\ file' = Approve(file, n)
      /\ UNCHANGED <<wf, proc, pos, outcome, sessions, results, fresh, runState>>
  BY DEF ApproveGate, CanApprove, engine, Inv, TypeOK
<1>2. n \in Asked
  BY <1>1 DEF Asked, With
<1>3. /\ With("passed", file') = With("passed", file) \cup {n}
      /\ With("paused", file') = With("paused", file) \ {n}
  BY <1>1, MarksAndSets
<1>4. /\ With("passed", file)' = With("passed", file) \cup {n}
      /\ With("passed", runState)' = With("passed", runState)
      /\ Asked' \subseteq Asked
  BY <1>1, <1>3 DEF With, Asked
<1>5. UNCHANGED <<Plan, Verdict, Decided, AtWork>>
  BY <1>1 DEF Plan, Verdict, Decided, Completed, AtWork
<1>. QED
  BY <1>2, <1>4, <1>5 DEF Abstract!Approve

LEMMA CrashRefines == ASSUME Inv, RefinementInv, Crash PROVE Abstract!End
<1>1. /\ wf' = wf /\ proc' = "off" /\ outcome' = "crashed" /\ sessions' = sessions /\ file' = file
      /\ runState' = NewRun /\ fresh' = {} /\ results' = [n \in Node |-> NoResult]
  BY DEF Crash, NewMemory
<1>2. Verdict' = "crashed" /\ AtWork' = {}
  BY <1>1 DEF Crash, RefinementInv, Verdict, AtWork
<1>3. Decided' = [n \in Node |-> "none"]
  BY <1>1 DEF Decided, Completed, NoResult
<1>4. /\ With("passed", runState)' = {} /\ With("passed", file)' = With("passed", file)
      /\ Asked' \subseteq Asked
  BY <1>1, NewRunSets DEF With, Asked
<1>5. Plan' = Plan
  BY <1>1 DEF Plan
<1>. QED
  BY <1>2, <1>3, <1>4, <1>5 DEF Abstract!End

\* A completed node is only marked again.
LEMMA SkipCompletedRefines ==
    ASSUME Inv, RefinementInv, SkipCompleted
    PROVE  Abstract!Work
<1>1. /\ proc = "loop" /\ proc' = "loop" /\ pos \in Node /\ results[pos].output \in Output
      /\ runState \in RunStates /\ results[pos].status = "passed"
      /\ Persist(MarkPassed(runState, pos, results[pos].output))
      /\ UNCHANGED <<wf, outcome, sessions, results, fresh>>
  BY DEF SkipCompleted, AtNode, Completed, Continue, history, Inv, TypeOK, NodeResult
<1>2. Verdict' = Verdict /\ AtWork' = AtWork /\ Plan' = Plan /\ Decided' = Decided
  BY <1>1, GoesOn DEF AtWork, Plan, Decided, Completed
<1>3. Decided[pos] \in {"passed", "trusted"}
  BY <1>1 DEF Decided, Completed
<1>4. Abstract!Keep
  BY <1>1, <1>2, <1>3, MarksAndSets, Kept
<1>. QED
  BY <1>2, <1>4 DEF Abstract!Work, Abstract!Decide, Abstract!Conclude

LEMMA SkipNodeRefines ==
    ASSUME Inv, RefinementInv, SkipNode
    PROVE  Abstract!Work
<1>1. /\ proc = "loop" /\ proc' = "loop" /\ pos \in Node /\ runState \in RunStates
      /\ AtNode /\ ~Completed(pos) /\ Persist(MarkSkipped(runState, pos))
      /\ Settle("skipped", NoOutput) /\ UNCHANGED <<wf, outcome, sessions>>
  BY DEF SkipNode, AtNode, Continue, Inv, TypeOK
<1>2. Verdict' = Verdict /\ AtWork' = AtWork /\ Plan' = Plan
  BY <1>1, GoesOn DEF AtWork, Plan
<1>3. Decided' = [Decided EXCEPT ![pos] = "skipped"]
  BY <1>1, SettledView
<1>4. Abstract!Skip(pos)
  BY <1>1, <1>2, <1>3, Considered DEF Abstract!Skip
<1>5. Abstract!Keep
  BY <1>1, MarksAndSets, Kept
<1>. QED
  BY <1>1, <1>2, <1>4, <1>5 DEF Abstract!Work, Abstract!Decide, Abstract!Conclude

LEMMA PauseRefines ==
    ASSUME Inv, RefinementInv, PauseAtGate
    PROVE  Abstract!Work
<1>1. /\ proc = "loop" /\ proc' = "off" /\ pos \in Node /\ runState \in RunStates
      /\ AtNode /\ ~Completed(pos) /\ Persist(MarkPaused(runState, pos))
      /\ ShouldRun(wf[pos], results) /\ wf[pos].kind = "human_gate"
      /\ Settle("paused", NoOutput) /\ wf' = wf /\ sessions' = sessions /\ outcome' = "paused"
  BY DEF PauseAtGate, AtNode, Return, Inv, TypeOK
<1>2. Verdict = "open" /\ Verdict' = "paused" /\ AtWork' = AtWork /\ Plan' = Plan
  BY <1>1, RunningView, Ends DEF AtWork, Plan
<1>3. Decided' = [Decided EXCEPT ![pos] = "paused"]
  BY <1>1, SettledView
<1>4. Abstract!Pause(pos)
  BY <1>1, <1>2, <1>3, Considered DEF Abstract!Pause
<1>5. Decided'[pos] = "paused"
  BY <1>1, <1>3 DEF Decided
<1>6. Abstract!Keep
  BY <1>1, <1>5, MarksAndSets, Kept
<1>. QED
  BY <1>1, <1>2, <1>4, <1>5, <1>6 DEF Abstract!Work, Abstract!Decide, Abstract!Conclude

LEMMA StartRefines ==
    ASSUME Inv, RefinementInv, StartNode
    PROVE  Abstract!Work
<1>1. /\ proc = "loop" /\ proc' = "exec" /\ pos \in Node /\ AtNode /\ ~Completed(pos)
      /\ ShouldRun(wf[pos], results) /\ wf[pos].kind = "work"
      /\ UNCHANGED <<wf, outcome, sessions, pos, results, fresh, file, runState>>
  BY DEF StartNode, AtNode, engine, storage
<1>2. Verdict' = Verdict /\ AtWork = {} /\ AtWork' = {pos} /\ Plan' = Plan /\ Decided' = Decided
  BY <1>1, GoesOn DEF AtWork, Plan, Decided, Completed
<1>3. Abstract!Start(pos)
  BY <1>1, <1>2, Considered DEF Abstract!Start
<1>4. Abstract!Keep
  BY <1>1 DEF Abstract!Keep, Asked, With
<1>. QED
  BY <1>1, <1>2, <1>3, <1>4 DEF Abstract!Work, Abstract!Decide, Abstract!Conclude

LEMMA PassRefines ==
    ASSUME Inv, RefinementInv, NEW o \in Output, NodePasses(o)
    PROVE  Abstract!Work
<1>1. /\ proc = "exec" /\ proc' = "loop" /\ pos \in Node /\ runState \in RunStates
      /\ Persist(MarkPassed(runState, pos, o)) /\ Settle("passed", o)
      /\ UNCHANGED <<wf, outcome, sessions>>
  BY DEF NodePasses, Continue, Inv, TypeOK
<1>2. Verdict' = Verdict /\ AtWork = {pos} /\ AtWork' = {} /\ Plan' = Plan
  BY <1>1, GoesOn DEF AtWork, Plan
<1>3. Decided' = [Decided EXCEPT ![pos] = "passed"]
  BY <1>1, SettledView
<1>4. Abstract!Finish(pos)
  BY <1>2, <1>3 DEF Abstract!Finish
<1>5. Decided'[pos] = "passed"
  BY <1>1, <1>3 DEF Decided
<1>6. Abstract!Keep
  BY <1>1, <1>5, MarksAndSets, Kept
<1>. QED
  BY <1>1, <1>2, <1>4, <1>6 DEF Abstract!Work, Abstract!Decide, Abstract!Conclude

LEMMA HaltRefines ==
    ASSUME Inv, RefinementInv, NEW o \in Output, Halts(o)
    PROVE  Abstract!Work
<1>1. /\ proc = "exec" /\ proc' = "off" /\ pos \in Node /\ runState \in RunStates
      /\ Persist(MarkFailed(runState, pos, o)) /\ Settle("failed", o)
      /\ wf' = wf /\ sessions' = sessions /\ outcome' = "failed"
  BY HaltsEffect DEF NodeFails, Halts, FailWithoutRoute, FailExhausted, FailRepeated, Return,
                     Inv, TypeOK
<1>2. Verdict = "open" /\ Verdict' = "failed" /\ AtWork = {pos} /\ AtWork' = {} /\ Plan' = Plan
  BY <1>1, RunningView, Ends DEF AtWork, Plan
<1>3. Decided' = [Decided EXCEPT ![pos] = "failed"]
  BY <1>1, SettledView
<1>4. Abstract!Finish(pos)
  BY <1>2, <1>3 DEF Abstract!Finish
<1>5. Decided'[pos] = "failed"
  BY <1>1, <1>3 DEF Decided
<1>6. Abstract!Keep
  BY <1>1, MarksAndSets, Kept
<1>. QED
  BY <1>1, <1>2, <1>4, <1>5, <1>6 DEF Abstract!Work, Abstract!Decide, Abstract!Conclude

\* A repair takes back a range of nodes; nothing behind the range depends on it,
\* because what the session decided lies before the failed node.
LEMMA BackRefines ==
    ASSUME Inv, RefinementInv, NEW o \in Output, RouteBack(o)
    PROVE  Abstract!Work
<1>1. /\ proc = "exec" /\ proc' = "loop" /\ pos \in Node /\ runState \in RunStates
      /\ Persist(MarkFailed(runState, pos, o)) /\ UNCHANGED <<wf, outcome, sessions>>
      /\ fresh' = fresh \ Rerun /\ results' = Cleared
  BY DEF RouteBack, NodeFails, Inv, TypeOK
<1>2. TargetPos \in Node /\ TargetPos < pos
  <2>1. TargetPos \in Node
    BY <1>1, WorkflowType DEF RouteBack, HasRoute, TargetPos, Inv
  <2>. QED
    BY <1>1, <2>1 DEF RouteBack, Inv, SessionInv, RoutesPointBack, HasRoute, TargetPos
<1>3. pos \in Rerun /\ Rerun \subseteq Node
  BY <1>1, <1>2 DEF Rerun
<1>4. /\ Verdict = "open" /\ Verdict' = Verdict /\ AtWork = {pos} /\ AtWork' = {}
      /\ Plan' = Plan
  BY <1>1, RunningView, GoesOn DEF AtWork, Plan
<1>5. Decided' = [m \in Node |-> IF m \in Rerun THEN "none" ELSE Decided[m]]
  BY <1>1 DEF Decided, Completed, Cleared, NoResult
<1>6. ASSUME NEW m \in Node \ Rerun, Plan[m].deps \cap Rerun # {}
      PROVE  Decided[m] \in {"none", "trusted"}
  <2>1. PICK d \in wf[m].deps : d \in Rerun
    BY <1>6 DEF Plan
  <2>2. d \in Nat /\ m \in Nat /\ d < m /\ TargetPos <= d
    <3>1. wf[m].deps \subseteq 1..(m - 1)
      BY WorkflowType DEF Inv
    <3>. QED
      BY <1>2, <2>1, <3>1 DEF Rerun
  <2>3. m > pos
    BY <1>1, <1>2, <2>2, m \notin Rerun DEF Rerun
  <2>4. m \notin fresh
    BY <1>1, <2>3 DEF Inv, SessionInv
  <2>. QED
    BY <2>4 DEF Decided
<1>7. Abstract!TakeBack(pos, Rerun)
  BY <1>3, <1>4, <1>5, <1>6 DEF Abstract!TakeBack
<1>8. Abstract!Keep
  BY <1>1, MarksAndSets, Kept
<1>. QED
  BY <1>1, <1>3, <1>4, <1>7, <1>8 DEF Abstract!Work, Abstract!Decide, Abstract!Conclude

LEMMA CompleteRefines ==
    ASSUME Inv, RefinementInv, Complete
    PROVE  Abstract!Work
<1>1. /\ proc = "loop" /\ proc' = "off" /\ pos \notin Node /\ outcome' = "passed"
      /\ UNCHANGED <<wf, sessions, results, fresh, file, runState>>
  BY DEF Complete, Return, storage, history
<1>2. /\ Verdict = "open" /\ Verdict' = "passed" /\ AtWork = {} /\ AtWork' = {}
      /\ Plan' = Plan /\ Decided' = Decided
  BY <1>1, RunningView, Ends DEF AtWork, Plan, Decided, Completed
<1>3. \A n \in Node : n < pos
  BY <1>1 DEF Inv, TypeOK
<1>4. \A n \in Node : Decided[n] \in {"passed", "trusted", "skipped"}
  BY <1>3 DEF Inv, PrefixIsSettled, RefinementInv, Decided, Completed
<1>5. Abstract!Keep
  BY <1>1 DEF Abstract!Keep, Asked, With
<1>. QED
  BY <1>2, <1>4, <1>5 DEF Abstract!Work, Abstract!Decide, Abstract!Conclude, Abstract!Done

\* Every step of a run with routes is a step of WorkflowRun, or none.
LEMMA StepRefines ==
    ASSUME Inv, RefinementInv, [Next]_vars
    PROVE  [Abstract!Next]_(Abstract!vars)
<1>1. CASE Run \/ Resume
  BY <1>1, RunRefines, ResumeRefines DEF Abstract!Next
<1>2. ASSUME NEW n \in Node, ApproveGate(n) PROVE Abstract!Next
  BY <1>2, ApproveRefines DEF Abstract!Next
<1>3. CASE Crash
  BY <1>3, CrashRefines DEF Abstract!Next
<1>4. CASE EngineStep
  <2>1. Abstract!Work
    BY <1>4, SkipCompletedRefines, SkipNodeRefines, PauseRefines, StartRefines, PassRefines,
       HaltRefines, BackRefines, CompleteRefines DEF EngineStep, Finishes, Halts
  <2>. QED
    BY <2>1 DEF Abstract!Next
<1>5. CASE UNCHANGED vars
  BY <1>5 DEF vars, engine, storage, history, Abstract!vars, Plan, Verdict, Decided,
              Completed, AtWork, Asked, With
<1>. QED
  BY <1>1, <1>2, <1>3, <1>4, <1>5 DEF Next

\* A run with failure routes, over crashes, pauses, failed saves and resumes,
\* behaves as WorkflowRun promises.
THEOREM RouteRunIsWorkflowRun == Spec => IsWorkflowRun
<1>1. Init => RefinementInv
  BY InitRefinement
<1>2. Inv /\ Inv' /\ RefinementInv /\ [Next]_vars => RefinementInv'
  BY RefinementStep
<1>3. Spec => []RefinementInv
  BY <1>1, <1>2, RouteRunInvariant, PTL DEF Spec
<1>4. Inv /\ RefinementInv /\ [Next]_vars => [Abstract!Next]_(Abstract!vars)
  BY StepRefines
<1>5. Init => Abstract!Init
  BY InitRefines
<1>. QED
  BY <1>3, <1>4, <1>5, RouteRunInvariant, PTL DEF Spec, IsWorkflowRun, Abstract!Spec
=============================================================================
