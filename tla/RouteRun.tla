------------------------------ MODULE RouteRun ------------------------------
(***************************************************************************)
(* A workflow with failure routes, from "micromage run" over crashes,      *)
(* pauses, "approve" and "resume" to its end: Engine.runWithRoutes         *)
(* (internal/engine/engine.go) driven by executeRun, resumeCmd and         *)
(* approveCmd (cmd/micromage/main.go) over the run state file.             *)
(*                                                                         *)
(* With routes the nodes run one at a time in the flattened plan, so a     *)
(* node is named by its position in that order and depends_on only points  *)
(* to smaller positions (Planner_proofs!PlanRespectsDependencies).         *)
(***************************************************************************)
EXTENDS RunState, Naturals, FiniteSetsExt

CONSTANTS
    Size,          \* len(order)
    Workflows,     \* the workflows considered, each a function on Node
    MaxSessions,   \* bound on run and resume commands
    CounterBound,  \* the counters saturate here, above every cap of a workflow
    NewText        \* the fingerprint of a failure no other failure is like

RouteConf == [kind : {"work", "human_gate"}, deps : SUBSET Node,
              trigger : TriggerRule, when : WhenExpr,
              routeTo : Node \cup {NoNode}, maxIterations : Nat, maxRepeated : Nat]

ASSUME SizeAssumption == Size \in Nat /\ Node = 1..Size /\ NoNode = 0
ASSUME BoundsAssumption == MaxSessions \in Nat /\ CounterBound \in Nat
ASSUME NewTextAssumption == NewText \notin Output
ASSUME WorkflowsAssumption ==
    /\ Workflows \subseteq [Node -> RouteConf]
    /\ \A w \in Workflows : \A n \in Node :
        /\ w[n].deps \subseteq 1..(n - 1)
        /\ w[n].maxIterations <= CounterBound
        /\ w[n].maxRepeated <= CounterBound

VARIABLES
    wf,                \* the workflow of this behaviour
    proc,              \* "off", "loop" (top of the for loop) or "exec" (in executeNode)
    pos,               \* i: the position the loop has reached
    results,           \* the engine's results map
    routeAttempts,     \* routeAttempts[id]
    repeatedFailures,  \* repeatedFailures[id][fingerprint]
    runState,          \* the RunState in the memory of the process
    file,              \* the run state file
    saved,             \* history: whether the last save of this session succeeded
    outcome,           \* how the last session ended: what the command reported
    sessions,          \* run and resume commands so far
    fresh,             \* history: nodes with a result of this session
    stale,             \* history: passed nodes a route cleared that did not pass again
    reviewed,          \* history: gates a reviewer approved in this run
    execs              \* history: executions of each node in this session

engine == <<pos, results, routeAttempts, repeatedFailures>>
storage == <<runState, file, saved>>
history == <<fresh, stale, reviewed, execs>>
vars == <<wf, proc, outcome, sessions, engine, storage, history>>

-----------------------------------------------------------------------------

\* Counters are only compared with caps, so they may saturate above them.
Bump(count) == IF count < CounterBound THEN count + 1 ELSE count

HasRoute(n) == wf[n].routeTo # NoNode

\* validateRoutePositions. Workflow.Validate does not make this check.
RoutesPointBack == \A n \in Node : HasRoute(n) => wf[n].routeTo < n

Init ==
    /\ wf \in Workflows
    /\ proc = "off"
    /\ pos = 1
    /\ results = [n \in Node |-> NoResult]
    /\ routeAttempts = [n \in Node |-> 0]
    /\ repeatedFailures = [n \in Node |-> [o \in Output |-> 0]]
    /\ runState = NewRun
    /\ file = NewRun
    /\ saved = TRUE
    /\ outcome = "none"
    /\ sessions = 0
    /\ fresh = {}
    /\ stale = {}
    /\ reviewed = {}
    /\ execs = [n \in Node |-> 0]

\* The locals of runWithRoutes in a new process.
NewMemory(initial) ==
    /\ pos' = 1
    /\ results' = initial
    /\ routeAttempts' = [n \in Node |-> 0]
    /\ repeatedFailures' = [n \in Node |-> [o \in Output |-> 0]]
    /\ fresh' = {}
    /\ execs' = [n \in Node |-> 0]

\* RunWithOptions up to the loop: the counters of the routes are locals, so
\* every session starts them at zero.
EnterEngine(initial) ==
    /\ proc = "off"
    /\ sessions < MaxSessions
    /\ sessions' = sessions + 1
    /\ IF RoutesPointBack
       THEN proc' = "loop" /\ outcome' = "none"
       ELSE proc' = "off" /\ outcome' = "failed"
    /\ NewMemory(initial)
    /\ UNCHANGED wf

\* executeRun: a new state replaces whatever the state path held.
Run ==
    /\ EnterEngine([n \in Node |-> NoResult])
    /\ runState' = NewRun
    /\ file' = NewRun
    /\ saved' = TRUE
    /\ stale' = {}
    /\ reviewed' = {}

\* resumeCmd: refused while the file names a paused node.
Resume ==
    /\ sessions > 0
    /\ file.paused = NoNode
    /\ EnterEngine(InitialResults(file))
    /\ runState' = file
    /\ saved' = TRUE
    /\ UNCHANGED <<file, stale, reviewed>>

\* approveCmd, in a process of its own.
ApproveGate(n) ==
    /\ proc = "off"
    /\ CanApprove(file, n)
    /\ file' = Approve(file, n)
    /\ reviewed' = reviewed \cup {n}
    /\ stale' = stale \ {n}
    /\ UNCHANGED <<wf, proc, outcome, sessions, engine, runState, saved, fresh,
                   execs>>

\* The process dies and its memory with it.
Crash ==
    /\ proc # "off"
    /\ proc' = "off"
    /\ outcome' = "crashed"
    /\ runState' = NewRun
    /\ NewMemory([n \in Node |-> NoResult])
    /\ UNCHANGED <<wf, sessions, file, saved, stale, reviewed>>

-----------------------------------------------------------------------------
(* The loop of runWithRoutes.                                              *)

AtNode == proc = "loop" /\ pos \in Node
Completed(n) == results[n].status = "passed"

\* persistNodeResult: the mark reaches memory, and the file unless Save fails
\* (its error is dropped); every save writes the whole state.
Persist(rs) ==
    /\ runState' = rs
    /\ \/ file' = rs /\ saved' = TRUE
       \/ file' = file /\ saved' = FALSE

\* The node at pos has a new result of this session.
Settle(status, output) ==
    /\ results' = [results EXCEPT ![pos] = [status |-> status, output |-> output]]
    /\ fresh' = fresh \cup {pos}
    /\ stale' = IF status = "passed" THEN stale \ {pos} ELSE stale

Continue ==
    /\ pos' = pos + 1
    /\ proc' = "loop"
    /\ UNCHANGED <<wf, outcome, sessions, routeAttempts, repeatedFailures>>

Return(reported) ==
    /\ proc' = "off"
    /\ outcome' = reported
    /\ UNCHANGED <<wf, sessions, pos>>

\* "already completed": the result of an earlier session is trusted.
SkipCompleted ==
    /\ AtNode
    /\ Completed(pos)
    /\ Persist(MarkPassed(runState, pos, results[pos].output))
    /\ Continue
    /\ UNCHANGED <<results, history>>

\* "dependency trigger did not match" or "condition evaluated false".
SkipNode ==
    /\ AtNode
    /\ ~Completed(pos)
    /\ ~ShouldRun(wf[pos], results)
    /\ Persist(MarkSkipped(runState, pos))
    /\ Settle("skipped", NoOutput)
    /\ Continue
    /\ UNCHANGED <<reviewed, execs>>

PauseAtGate ==
    /\ AtNode
    /\ ~Completed(pos)
    /\ ShouldRun(wf[pos], results)
    /\ wf[pos].kind = "human_gate"
    /\ Persist(MarkPaused(runState, pos))
    /\ Settle("paused", NoOutput)
    /\ Return("paused")
    /\ UNCHANGED <<routeAttempts, repeatedFailures, reviewed, execs>>

\* (mutant) the type of the node is not looked at before it runs
StartNode_AnyKind ==
    /\ AtNode
    /\ ~Completed(pos)
    /\ ShouldRun(wf[pos], results)
    /\ proc' = "exec"
    /\ execs' = [execs EXCEPT ![pos] = Bump(@)]
    /\ UNCHANGED <<wf, outcome, sessions, engine, storage, fresh, stale, reviewed>>

StartNode ==
    /\ AtNode
    /\ ~Completed(pos)
    /\ ShouldRun(wf[pos], results)
    /\ wf[pos].kind = "work"
    /\ proc' = "exec"
    /\ execs' = [execs EXCEPT ![pos] = Bump(@)]
    /\ UNCHANGED <<wf, outcome, sessions, engine, storage, fresh, stale, reviewed>>

NodePasses(o) ==
    /\ proc = "exec"
    /\ Persist(MarkPassed(runState, pos, o))
    /\ Settle("passed", o)
    /\ Continue
    /\ UNCHANGED <<reviewed, execs>>

\* executeNode returned an error: it is recorded before the route is looked at.
NodeFails(o) ==
    /\ proc = "exec"
    /\ Persist(MarkFailed(runState, pos, o))
    /\ UNCHANGED <<reviewed, execs>>

\* (mutant) the cap is checked with ">"
Exhausted_OffByOne(n) ==
    wf[n].maxIterations > 0 /\ routeAttempts[n] > wf[n].maxIterations

Exhausted(n) ==
    wf[n].maxIterations > 0 /\ routeAttempts[n] >= wf[n].maxIterations

\* failureFingerprint: the message and the output, here the text a failure with
\* this output always has, or one that was never seen.
Fingerprints(o) == {o, NewText}

CountedFailures(n, f) == IF f = NewText THEN 1 ELSE repeatedFailures[n][f] + 1

Repeats(n, f) ==
    wf[n].maxRepeated > 0 /\ CountedFailures(n, f) >= wf[n].maxRepeated

FailWithoutRoute(o) ==
    /\ NodeFails(o)
    /\ ~HasRoute(pos)
    /\ Settle("failed", o)
    /\ Return("failed")
    /\ UNCHANGED <<routeAttempts, repeatedFailures>>

FailExhausted(o) ==
    /\ NodeFails(o)
    /\ HasRoute(pos)
    /\ Exhausted(pos)
    /\ Settle("failed", o)
    /\ Return("failed")
    /\ UNCHANGED <<routeAttempts, repeatedFailures>>

\* The count of a text that was never seen is 1, and not looked at again; nor is
\* any count of a route without max_repeated_failures, which is left at zero.
CountFailure(f) ==
    repeatedFailures' =
        IF f = NewText \/ wf[pos].maxRepeated = 0 THEN repeatedFailures
        ELSE [repeatedFailures EXCEPT ![pos][f] = Bump(@)]

FailRepeated(o) ==
    /\ NodeFails(o)
    /\ HasRoute(pos)
    /\ ~Exhausted(pos)
    /\ \E f \in Fingerprints(o) : Repeats(pos, f) /\ CountFailure(f)
    /\ Settle("failed", o)
    /\ Return("failed")
    /\ UNCHANGED routeAttempts

\* (mutant) the repair is not counted
CountAttempt_Never == UNCHANGED routeAttempts

CountAttempt == routeAttempts' = [routeAttempts EXCEPT ![pos] = Bump(@)]

\* positions[route.To]
TargetPos == wf[pos].routeTo

\* (mutant) what lies between the target and the failure keeps its result
Rerun_EndsOnly == {TargetPos, pos}

\* order[targetPos:i+1]
Rerun == TargetPos..pos

\* clearRerunResults
Cleared == [n \in Node |-> IF n \in Rerun THEN NoResult ELSE results[n]]

\* Back to the repair node. The cleared results are neither emitted nor saved:
\* the state file keeps the passed nodes between the target and the failure.
RouteBack(o) ==
    /\ NodeFails(o)
    /\ HasRoute(pos)
    /\ ~Exhausted(pos)
    /\ \E f \in Fingerprints(o) : ~Repeats(pos, f) /\ CountFailure(f)
    /\ CountAttempt
    /\ results' = Cleared
    /\ fresh' = fresh \ Rerun
    /\ stale' = stale \cup (Rerun \cap Passed(results))
    /\ pos' = TargetPos
    /\ proc' = "loop"
    /\ UNCHANGED <<wf, outcome, sessions>>

Complete ==
    /\ proc = "loop"
    /\ pos \notin Node
    /\ Return("passed")
    /\ UNCHANGED <<results, routeAttempts, repeatedFailures, storage, history>>

Finishes(o) ==
    \/ NodePasses(o)
    \/ FailWithoutRoute(o)
    \/ FailExhausted(o)
    \/ FailRepeated(o)
    \/ RouteBack(o)

EngineStep ==
    \/ SkipCompleted
    \/ SkipNode
    \/ PauseAtGate
    \/ StartNode
    \/ \E o \in Output : Finishes(o)
    \/ Complete

Next ==
    \/ Run
    \/ Resume
    \/ \E n \in Node : ApproveGate(n)
    \/ Crash
    \/ EngineStep

Spec == Init /\ [][Next]_vars

\* A running process keeps running: every node has a deadline (executeNode
\* gives it one if the workflow does not), so it passes or fails.
FairSpec == Spec /\ WF_vars(EngineStep)

-----------------------------------------------------------------------------
(* Properties.                                                             *)

TypeOK ==
    /\ wf \in Workflows
    /\ proc \in {"off", "loop", "exec"}
    /\ pos \in 1..(Size + 1)
    /\ proc = "exec" => pos \in Node
    /\ results \in [Node -> NodeResult]
    /\ routeAttempts \in [Node -> Nat]
    /\ repeatedFailures \in [Node -> [Output -> Nat]]
    /\ runState \in RunStates
    /\ file \in RunStates
    /\ saved \in BOOLEAN
    /\ outcome \in {"none", "passed", "failed", "paused", "crashed"}
    /\ sessions \in Nat
    /\ fresh \subseteq Node
    /\ stale \subseteq Node
    /\ reviewed \subseteq Node
    /\ execs \in [Node -> Nat]

\* The loop only moves past a node that passed or was skipped, whatever routes
\* were taken: in particular no later node runs after a failure that was not
\* repaired or while a gate waits (TestRunPausesOnHumanGate).
PrefixIsSettled ==
    \A n \in Node : n < pos => results[n].status \in {"passed", "skipped"}

\* A human gate counts as passed, in the engine, in memory or in the state
\* file, only if a reviewer approved it ("Review gates stop automation before
\* irreversible work continues").
GatesAreReviewed ==
    \A n \in Node :
        (wf[n].kind = "human_gate" /\ n \notin reviewed) =>
            /\ results[n].status # "passed"
            /\ runState.nodes[n].status # "passed"
            /\ file.nodes[n].status # "passed"

\* A paused run can always be approved: the node PausedNode names is recorded
\* as paused, so approve never answers "node is not paused" for it.
PauseIsApprovable ==
    file.paused # NoNode => file.paused \in Node /\ CanApprove(file, file.paused)

\* Every result of this session follows from the results it was decided on,
\* as depends_on, trigger_rule and when are documented, and still does after
\* any number of repairs. (A condition on a later node is left out: it reads
\* whatever that node has at the moment.)
Documented(n) ==
    LET deps == wf[n].deps
        passed == {d \in deps : results[d].status = "passed"}
    IN  deps # {} => /\ wf[n].trigger = "all_success" => passed = deps
                     /\ wf[n].trigger = "one_success" => passed # {}

SettledByRule ==
    \A n \in fresh :
        (n < pos /\ wf[n].when.ref < n) =>
            (results[n].status = "passed"
                <=> Documented(n) /\ WhenMatches(wf[n], results))

\* No route is taken more often than its caps allow, counted over all its
\* repairs of a session ("Bounded repair routes keep cyclic workflows from
\* consuming the operator's session forever").
RoutesStayCapped ==
    \A n \in Node :
        /\ wf[n].maxIterations > 0 => routeAttempts[n] <= wf[n].maxIterations
        /\ wf[n].maxRepeated > 0 =>
             \A o \in Output : repeatedFailures[n][o] <= wf[n].maxRepeated

\* The nodes whose failure route, once taken, leads back over n.
RoutesOver(n) == {m \in n..Size : HasRoute(m) /\ wf[m].routeTo <= n}

PaidRepairs(n) == MapThenSumSet(LAMBDA m : routeAttempts[m], RoutesOver(n))

\* Every execution of a node after the first of a session is paid for by a
\* failure route that reaches back over the node: where these routes have a
\* max_iterations, this bounds the work of a session.
ExecutionsArePaidFor == \A n \in Node : execs[n] <= 1 + PaidRepairs(n)

\* Once a save succeeds, whatever saves failed before it, the state file says of
\* every node behind the loop exactly what the engine decided, through routes,
\* pauses and resumes; when a run has passed, of every node ("Persist after each
\* node").
StateFileFollowsRun ==
    saved =>
        \A n \in Node : n < pos =>
            /\ file.nodes[n].status = results[n].status
            /\ file.nodes[n].output = results[n].output

\* A reviewer is not asked twice: a gate pauses again after its approval only
\* if a route cleared it in between.
ApprovalIsHonoured ==
    [][\A n \in reviewed :
        (proc = "loop" /\ outcome' = "paused" /\ pos = n) => n \in stale]_vars

\* A session of a workflow whose routes all have max_iterations ends: it passes,
\* fails or pauses, however the nodes behave ("Bounded repair routes keep cyclic
\* workflows from consuming the operator's session forever").  A route that has
\* max_repeated_failures alone is not capped: it is counted per fingerprint, and a
\* node whose failures always read differently is routed back for ever.
Capped == \A n \in Node : HasRoute(n) => wf[n].maxIterations > 0

CappedSessionsEnd == (Capped /\ proc # "off") ~> (proc = "off")

\* What the proofs need beyond the properties: the state in memory follows the
\* engine whether or not it could be saved; a running session has no outcome
\* yet, routes that point back, no pause pending, caps still open and no result
\* of its own at or after the loop position; a node in execution was allowed to
\* run.
MemoryFollowsRun ==
    \A n \in Node : n < pos =>
        /\ runState.nodes[n].status = results[n].status
        /\ runState.nodes[n].output = results[n].output

SessionInv ==
    proc # "off" =>
        /\ outcome = "none"
        /\ RoutesPointBack
        /\ runState.paused = NoNode
        /\ \A n \in fresh : n < pos
        /\ \A n \in Node, o \in Output :
              wf[n].maxRepeated > 0 => repeatedFailures[n][o] < wf[n].maxRepeated

ExecutionInv ==
    proc = "exec" => wf[pos].kind = "work" /\ ShouldRun(wf[pos], results)

\* The execution a repair pays for is still to come once the loop is back at or
\* before the node.
Begun(n) == proc = "off" \/ n < pos \/ (n = pos /\ proc = "exec")

PaymentInv ==
    \A n \in Node :
        /\ execs[n] <= CounterBound
        /\ execs[n] <= PaidRepairs(n) + (IF Begun(n) THEN 1 ELSE 0)

\* Only gates pause and are reviewed, and the approval of a gate is in the file
\* and in the running session until a route clears the gate.
ReviewInv ==
    \A n \in Node :
        /\ "paused" \in {file.nodes[n].status, runState.nodes[n].status}
              => wf[n].kind = "human_gate"
        /\ n \in reviewed => wf[n].kind = "human_gate"
        /\ n \in reviewed \ stale =>
              /\ file.nodes[n].status = "passed"
              /\ proc # "off" => /\ results[n].status = "passed"
                                 /\ runState.nodes[n].status = "passed"

Inv ==
    /\ TypeOK
    /\ SessionInv
    /\ ExecutionInv
    /\ PaymentInv
    /\ ReviewInv
    /\ PrefixIsSettled
    /\ GatesAreReviewed
    /\ PauseIsApprovable
    /\ SettledByRule
    /\ RoutesStayCapped
    /\ MemoryFollowsRun
    /\ StateFileFollowsRun

\* The run as WorkflowRun sees it: decisions of earlier sessions count only as
\* far as they passed, and only what the state file or the process holds is
\* recorded.
With(statusOf, marked) == {n \in Node : marked.nodes[n].status = statusOf}

Plan == [n \in Node |-> [gate |-> wf[n].kind = "human_gate", deps |-> wf[n].deps,
                         trigger |-> wf[n].trigger]]

Verdict == IF sessions = 0 THEN "unstarted" ELSE IF outcome = "none" THEN "open" ELSE outcome

Decided == [n \in Node |-> IF n \in fresh THEN results[n].status
                           ELSE IF Completed(n) THEN "trusted" ELSE "none"]

AtWork == IF proc = "exec" THEN {pos} ELSE {}

Asked == With("paused", file) \cup With("paused", runState)

Abstract == INSTANCE WorkflowRun WITH
    plan <- Plan, verdict <- Verdict, status <- Decided, active <- AtWork,
    record <- With("passed", file), kept <- With("passed", runState), asked <- Asked

\* A run with failure routes keeps the promises of WorkflowRun: each repair takes
\* back whatever the session built on the repaired node.
IsWorkflowRun == Abstract!Spec

\* What the refinement needs beyond Inv: between sessions there is an outcome,
\* whatever is behind the loop was decided or is trusted, and a gate that is
\* recorded as paused is the one PausedNode names.
RefinementInv ==
    /\ sessions = 0 => proc = "off"
    /\ sessions > 0 /\ proc = "off" => outcome # "none"
    /\ \A n \in Node : n < pos => n \in fresh \/ Completed(n)
    /\ \A n \in Node : file.nodes[n].status = "paused" => file.paused = n
    /\ \A n \in Node : runState.nodes[n].status = "paused" => runState.paused = n

\* "Resume mode trusts persisted successful work until a repair route
\* invalidates it": the loop leaves an invalidated node behind only by giving
\* it a new result.
InvalidatedWorkReruns ==
    [][\A n \in stale : (pos = n /\ pos' = n + 1) => n \in fresh']_vars
=============================================================================
