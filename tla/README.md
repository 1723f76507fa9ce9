# Verification of micromage

TLA+ models of micromage, the workflow runner for coding agents, with TLC
configurations that check them on small instances and TLAPS proofs that hold
for every instance. Paths are relative to the repository (`src/` here); every
operator that stands for code is mapped to its lines in `PROJECT.json`.

To check a run: `tlc -config MCRouteRun.cfg MCRouteRun`. To check the proofs:
`tlapm RouteRun_proofs.tla`.

## 1. The system and its components

| Component | State it keeps | Operations | What makes it correct |
|---|---|---|---|
| **Workflow files** (`internal/workflow/workflow.go`: `Parse`, `UnmarshalYAML`, `Validate`) | none; a parsed `Workflow` | decode nodes, derive the node type, validate references | what it accepts can be planned and run; what cannot is refused |
| **Planning** (`workflow.go`: `PlanLayers`) | indegrees and the ready nodes of the open layer | build layers | every node once, after its dependencies, as early as possible; an error exactly for a cycle |
| **Engine, layers** (`internal/engine/engine.go`: `RunWithOptions`, `runLayer`) | the `results` map, a layer's context, its `errs` channel, one goroutine per node | consider a node, run, skip, pause, cancel, collect errors | barriers between layers, decisions by `trigger_rule` and `when`, no failure lost, `all_done` nodes always run, the run returns |
| **Engine, failure routes** (`engine.go`: `runWithRoutes`) | loop position, results, `routeAttempts`, `repeatedFailures` | the same in sequence, plus route back | nothing runs past an unsettled node, caps hold, capped repairs end |
| **Node runners** (`command_runner.go`, `opencode_runner.go`) | child process, two pipes, two scanners, collected output | start, scan, wait, loop until a marker | output in order and complete, a pass is earned, a node ends by its deadline |
| **Run state** (`internal/state/state.go`) | the state file: nodes, paused node, approvals | `NewRun`, `Mark*`, `Approve`, `Load`, `Save` | the file agrees with the engine; a pause can be approved |
| **Command line** (`cmd/micromage/main.go`) | none of its own | `run`, `approve`, `resume`, `status`, `runs`, `watch`, `run --detach` | resume neither repeats nor skips work; approval is needed and suffices |
| **Run registry** (`internal/runregistry`) | `run.json` per run id | `Save`, `Load` with stale detection, `List`, `Latest` | a live run is shown as running, an ended one as ended |
| **Detached launcher** (`internal/detach`) | none | start a child process | the child outlives its parent |
| **Event log** (`internal/runlog`), **dashboard** (`internal/watch`) | an append-only file; a `Model` folded from it | `Record`; `Apply` | the dashboard shows what happened |
| **Isolated worktrees** (`internal/gitspace`) | a branch and a worktree per run | create, remove | runs do not touch each other's files |
| **Quality gate** (`internal/quality`) | none | checks over staged files, messages and coverage | what is committed was checked |
| **Provider presets** (`internal/provider`) | none | render an argument vector | |

How they interact. `run` parses and validates a workflow, writes a new state
file and calls the engine. The engine plans the layers, calls a runner for every
node that may run, and tells `persistNodeResult` every result, which marks it in
memory and saves the state file, dropping an error of the save. A human gate ends
the engine with `ErrHumanGate` and leaves the gate paused in the file; `approve`
and `resume` are later processes that share nothing with the first but that
file. `run --detach` registers the run, starts the same program as a child and
registers its pid, while the child runs the workflow and registers its end; the
commands that look read the registry and ask the kernel for the pid.

What is hard to test: the goroutines of a layer against the loop that reads
their results without the lock; a gate or a failure in the middle of a layer;
rewinding routes over passed, skipped and approved nodes; a crash or a failed
save between two nodes, followed by a resume; two processes that load and save
one file; the order of `cmd.Wait` and the pipe scanners. `PROJECT.json` lists
these hazards at their lines with the properties that watch them.

## 2. The modules

| Module | Models | Extends |
|---|---|---|
| `WorkflowRun` | what either engine promises of a run, over all its sessions | |
| `Planner` | `PlanLayers`, one action per step of its loop | |
| `NodeRules` | statuses, `dependenciesReady`, `whenMatches` | |
| `RunState` | the state file's operations | `NodeRules` |
| `RouteRun` | a workflow with failure routes over run, crash, pause, approve, resume | `RunState` |
| `LayerRun` | a workflow without routes: main goroutine, node goroutines, overlapping saves, approve, crash | `RunState` |
| `Dashboard` | the event log of `LayerRun` and the `Model` that `watch` folds from it | `LayerRun` |
| `WorkflowFile` | `Parse`: decoding, derived types, `Validate`, timeouts; route positions | |
| `NodeRunner` | one node: caller, process, pipes, scanners, context, loop iterations | |
| `Detached` | launching command, child, `run.json`, looking commands | |
| `Isolation` | runs with `--isolate`: worktrees, branches, cleanup, resume | |
| `PreCommit` | the quality gate beside an author who goes on working | |
| `Planner_proofs`, `RouteRun_proofs`, `LayerRun_proofs`, `NodeRunner_proofs`, `Detached_proofs`, `Isolation_proofs`, `PreCommit_proofs`, `WorkflowFile_proofs` | theorems (`LayerRun_proofs` also those of `Dashboard`) | the module of that name |
| `MC...` | instances for TLC | the module of that name |

How they fit together. `WorkflowRun` is the abstract specification; `RouteRun`
and `LayerRun` implement it, each with a refinement mapping at its end
(`Abstract`). `Dashboard` composes `LayerRun` with log and dashboard, action by
action. `NodeRunner` details the two outcomes a node has in the engine modules;
the engines produce the `result` of `Detached`; `Planner`'s theorems are the
assumptions the engine modules make of the order of nodes, and `WorkflowFile`
shows which files get that far.

An operator whose name has a suffix after an underscore and the comment
`(mutant)` is a plausible mistake. It is used by no specification; substituted
for the operator before the underscore it makes the named property fail.

### WorkflowRun
A session decides each node once, after its dependencies and in agreement with
its trigger rule; only a repair takes decisions back, together with all that
depend on them. A resume trusts what is on record as passed and nothing else. A
gate passes by review of a gate that asked. The verdict is given once, and a
session that is reported as passed has no node that failed, paused or was left
out. `record` is what the state file says, `kept` what some process may still
write into it, `asked` the gates a reviewer may be asked for. Both may lag: the
code drops the error of a save, and a killed process loses its memory.

### Planner
`indegree` is the Go map (a released node leaves it), `ready` and `open` are
`readyIDs` and the rest of the layer being released, `layers` the result.
`depends_on` is a sequence, because the code counts a repeated entry twice and
`Validate` does not refuse one. Unknown dependencies are refused by `Validate`
before the plan and are not in the model. Names are not ordered: the sort of
`readyIDs` decides only the order inside a layer.

### NodeRules and RunState
A result is a status and an output. Two outputs are equal in the model when the
code cannot tell them apart: `resolveValue` trims, and `failureFingerprint`
keeps a prefix. `WhenMatches` evaluates `==`, `!=`, an empty condition (true)
and anything else (false). `RunState` mirrors `Run`: `Mark*` replace the whole
`NodeState`, so a mark forgets an approval record; `Approve` needs the gate to be
the paused node and to have the status paused.

### RouteRun
With routes the engine runs nodes one at a time in the flattened plan, so a node
is its position. `pos` is the loop variable, `proc = "exec"` is the time inside
`executeNode`. A step of the loop is one action (`SkipCompleted`, `SkipNode`,
`PauseAtGate`, `StartNode`, `NodePasses`, and for a failure `FailWithoutRoute`,
`FailExhausted`, `FailRepeated` or `RouteBack`) and contains the call of
`persistNodeResult`, whose save may fail; the history variable `saved` says
whether the last one did. `Crash` may come between any two steps. The counters
are locals of a session and start at zero in every resume; they saturate at
`CounterBound`, above every cap, since they are only compared with caps. Failures
are counted per fingerprint: what a failure says is either the text its output
always comes with, or `NewText`, one never seen before, whose count is 1.
`fresh`, `stale`, `reviewed`, `saved` and `execs` are history variables of the
properties and restrict nothing.

For the mapping to `WorkflowRun`, a node the loop trusts from an earlier session
is `"trusted"`, the node in `executeNode` is at work, and `RouteBack` is
`TakeBack` of the nodes from the route's target to the failed one.

`Run`, `ApproveGate` and `Resume` need the engine to be off: two `resume`
commands at once on one state file are not modelled.

### LayerRun
The main goroutine (`SkipCompleted`, `SkipNode`, `StartNode`, `PauseAtGate`,
`GoOn`, `ReturnPaused`, `FinishLayer`, `FinishRun`) interleaves with each node's
goroutine (`NodeStarts`, then `NodePasses` and `RecordPass`, or `NodeFails`,
`RecordFailure` and `SendError`), with `approve` and with crashes. A save is two
steps: `Emit` marks the state and writes it to the temporary file (`pending`),
`FinishSave` renames that file into place or fails; the saves of two goroutines
overtake each other. `approve` is two steps as well, a load and a save, and holds
its own copy in between.

The loop reads `results` without the lock; reading a node of its own layer gives
whatever is there at that moment, and the abort by the Go runtime on an
unsynchronised map access is a `Crash`. Cancelling a layer does not stop a node
that has already succeeded, so `NodePasses` is possible after it. A gate returns
without `wg.Wait`: the goroutines of its layer stay until `Exit`.

### Dashboard
`view` is the `Model` after the events recorded so far. Each action of `LayerRun`
is joined with the event its code records: the start of a session, a node's
start and end, a skip (a completed node is recorded as skipped, too), a pause,
the end of the workflow. `ReadModel` folds the whole log, so events of earlier
sessions stay in the view. Lines of output, recent lines and polling are left out.

### WorkflowFile
A file is a sequence of entries with the fields that decide. `DecodeEntry` is one
round of `decodeNodes` (mapping and sequence forms treat repeated names
differently), `Derived` is `deriveType`, `CheckNode` one round of `Validate` over
the node map in any order, `ParseTimeout` multiplies and wraps at `Half`, half the range
of a `time.Duration`.
Ids are numbers in alphabetical order, so any finite set of them is
`1..n` (`IdAssumption`).
`StartRun` is what `RunWithOptions` does before the first node: plan, then
`validateRoutePositions`. What the YAML library makes of bytes is not modelled.

### NodeRunner
The caller (`Start`, `WaitReturns`, then `Canceled`, `Failed`, `Passed`,
`NextIteration` or `MarkerMissing`), the process (`Write`, `Exit`, `Kill`), two
scanners (`Read`, `Record`, `TooLong`, `EndOfInput`) and the context
(`ContextDone`). What a process writes is a sequence of chunks: `"newline"`,
`"text"`, and `"marker"`, a run of bytes that holds the completion marker of a loop
node. A scanner reads some of what the pipe holds, which may end within a line; it
records whole lines, gives up on a line of `LineLimit` chunks, and when the input
ends, or `cmd.Wait` has closed the pipe, records what it has of a line. A process
blocks while its pipe is full. `Write` and `Exit` are the external program.
`MoreIterations` is the condition of the `for` statement: a loop node with a
negative number of iterations, which `Validate` lets through, fails without one.
Left out: a marker cut into two chunks, the `\r` before a newline, which the scanner
drops, and a child of the process that keeps the pipe open after it.

### Detached
`parent` and `child` are program counters of `startDetachedRun` and of
`detachedChildCmd`; `parentCopy` and `childCopy` their `metadata` variables, which
is where lost updates come from. `Look` reads `run.json`, `Report` asks for the
process afterwards. A dead child still answers `kill(pid, 0)` until its parent is
gone. A pid is the name of its run and is never reused.

### Isolation
`Prepare` asks for a worktree with `-B`; `GitAdds` is what git answers (external):
it refuses a branch that another worktree has, a directory that is there, and a
branch below or above an existing one. `Sanitize` is the conversion of a run id,
character by character, because the hazard is that two ids become one name.
`executeRun`'s returns are `PrepareFails`, `SetUpFails`, `Finish` and `Pause`; from
there on `Cleanup` removes the worktree by force, or fails. `Resume` works in
`--workdir`. Of the engine only this is kept: a node that passes has edited files
where the run works. Assumed: the run ids of two runs differ as written, as the
generated ones do.

### PreCommit
The gate lists the staged files (`List`), reads the staged content of each by a
command of its own (`Read`, `ReadFails`), looks for terms, then runs the tests of
the working tree and compares the coverage. `Edit` and `Stage` are the author,
between any two of these steps. Of a file only this is told apart: is it there, as
a regular file, a link or a submodule, has it a banned term, do the tests cover it.

`Listed` is `--diff-filter=ACMR`: neither deleted files nor those that changed their
type. `name` says which file is named by what git prints of a file, trimmed: itself,
another, nothing (`Unknown`: a name in quotes) or no name at all (`Blank`, which is
passed over). Git may fail by itself at any command (`ListFails`, `ReadFails`;
`faulted` remembers it), and fails for what is not there any more, a submodule, and
an unknown name. A threshold is a number of `1/Scale` percent, the slack is
`1/Precision` percent, and the comparison is exact; the code computes with
`float64`. `NaN`, which passes everything, and infinities are left out.

## 3. What is checked

| Run | States | What it asks |
|---|---|---|
| `planner` | 21,633 | the layers of every graph of four nodes with up to two entries in each `depends_on`, self-dependencies, repetitions and cycles included |
| `route_run` | 693,029 | seven workflows with routes over three sessions, with any save failing and failures that repeat or always read differently |
| `layer_run` | 321,659 | five workflows without routes over two sessions, with overlapping saves, `approve` at any time, and the dashboard |
| `node_runner` | 1,565,816 | output, verdict and termination of a command node and three loop nodes |
| `detached` | 585,716 | two detached runs that share a run id, kills anywhere |
| `workflow_file` | 36,285 | files of two entries of any kind and of three that make the graph, in both forms, checked in any order |
| `isolation` | 705,690 | two isolated runs, six run ids of which some collide, three sessions each, kills and failed cleanups |
| `pre_commit` | 7,035,168 | every index and tree of two files over commits of each type, the author working meanwhile, git failing anywhere |

Deadlock is not checked in any of them: a behaviour ends when the command has
returned and its bounded number of sessions or edits is used up. Where something
must come to an end, a liveness property says so.

**Properties.**

* Planning: `LayersRespectDependencies`, `LayersAreEarliest` and `VerdictIsExact`
  compare the algorithm with the graph.
* Routes: `SettledByRule` (each result behind the loop agrees with `trigger_rule`
  and `when` evaluated now, after any number of rewinds), `GatesAreReviewed` and
  `PauseIsApprovable` (in memory and in the file), `RoutesStayCapped`,
  `ExecutionsArePaidFor` (a repeated execution was caused by a route; a bound in
  numbers only where routes have `max_iterations`),
  `StateFileFollowsRun` (after a save that succeeded), `ApprovalIsHonoured` (no
  second pause unless a route cleared the gate), `IsWorkflowRun`,
  `CappedSessionsEnd` (every route has `max_iterations`).
* Layers: `DecidedByRule`, `NoFailureIsSwallowed`, `AllDoneRuns`,
  `CancellationHasCause`, `IsWorkflowRun`, `RunReturns`; with the dashboard
  `PassedViewIsFinal` and `PendingGateIsShown`; `DashboardTypeOK`.
* Runners: `OutputIsInOrder` (what was written, without a gap, in whole lines but
  for a last one), `PassIsEarned`, `RecordingIsOver`,
  `RunnerReturns`, `TypeOK`.
* Detached runs: `StartedRunIsVisible`, `ResultsAreReturned`, `EndIsReported`.
* Files: `VerdictIsRight` (accepted exactly when the file as a whole is valid,
  whatever order the node map is looked at in), `NoEntryIsLost` (and a node is its
  entry, but for what `deriveType` gives it),
  `RepairOfAncestorRuns` (a route to a node the failed one waits for is never
  refused by the run), `OnlyOddTimeoutsExpire`, `TypeOK`.
* Isolated runs: `WorktreeIsPrivate`, `NothingLeaks`.
* Quality gate: `StagedTermsAreFound` (a term gets through only in a file git does
  not list, or does not read back by the name it printed), `RejectionHasCause`
  (a deleted file, for one, is none), `FloorIsKept` (reaching the threshold is
  never rejected, missing it passes by less than the slack only).

**Divergences.** Four behaviours disagree with a comment or a test. Each has a run
that expects the violation:

| Run | Property | What happens |
|---|---|---|
| `route_run_stale_resume` | `InvalidatedWorkReruns` | a route clears passed nodes in memory only; after a crash, resume skips them |
| `layer_run_record_lost` | `RecordSurvives` | a save that was written earlier is renamed later, over an approval or a node's pass |
| `isolation_work_lost` | `TrustedWorkIsThere` | the worktree is removed when the run stops, and resume trusts work that is no longer there |
| `node_runner_output` | `OutputIsComplete` | `cmd.Wait` closes the pipes before the scanners have read them: a node passes with output lost or cut within a line |

The models and the reading behind them show more of this kind, without a run of
their own:

* `cmd/micromage/main.go:286`: the launching command writes a detached run back
  as running after the child has finalized it.
* `engine/engine.go:232`: repeats are counted per text of the failure, so a route
  with `max_repeated_failures` and no `max_iterations` is taken for ever by a node
  whose failures always read differently (a line number, a duration). The
  repository's skill (`SKILL.md:130`) takes either for a cap.
* `engine/engine.go:138`: `cancel()` comes before the failing node's error is sent,
  so the first error, which the run reports, may be that of a node that was only
  cancelled.
* `quality/git.go:18`: `--diff-filter=ACMR` leaves out changes of type, so a regular
  file staged in place of a link is not read, and its banned terms are committed.
  "Commits are checked exactly as staged" (`git.go:11`) up to this.
* A loop node with a negative `max_iterations` is accepted and fails without a
  single iteration (`engine/opencode_runner.go:48`).
* `state/state.go:94`: after a resume the record of an approval (who, when, why)
  is gone from the file.
* A gate that pauses after an earlier layer failed is reported as a failure; a
  gate returns while nodes of its layer are still running.
* A look between a child's last save and its exit may report a finished run
  as stale; `resume` never touches the registry.
* The counters of routes restart in every resume.
* A route to a later node or another branch is refused only by the run, after the
  state file has been replaced (`engine.go:388`).
* An unknown `trigger_rule` is treated as `all_success`; of repeated keys in a
  mapping the last one is kept; a node without a provider that is not a command
  is run as `sh -c ""` by the default runner.
* `git worktree add -B` moves an existing branch of an earlier run.
* `quality/precommit.go:49` measures coverage in the working tree, while the gate
  speaks of staged files (`:28`); a name git prints in quotes, or a staged
  submodule, makes the gate fail; `--threshold 0` means 70.
* `quality/git.go:24` trims the names git prints: of a file whose name ends with a
  blank, the file without the blank is read, if there is one, and a name of blanks
  only is passed over.

**Bounds and why they are enough.**

* Four nodes. A route needs a target, a node between, and a failing node; two
  nested routes need four. A layer with three goroutines and a join needs four.
  The workflows are written so that each shape of the code occurs: a gate
  inside a repair, nested routes, both caps and each alone, no cap, a route that is
  refused, conditions that do not parse or look forward; for layers a fan-in,
  gates among commands, a gate after a failure, branches joined by
  `one_success`, a condition on a sibling. The theorems have no such bound.
* Two outputs (three for the stale resume): empty and another, which is what
  conditions compare; a failure's text is that of its output or a new one, so
  fingerprints repeat, alternate, or never come back.
* `MaxSessions` two or three: run, pause or crash, approve and resume; a third
  session resumes a resumed run. The violation run of `LayerRun` needs one.
* `CounterBound = 3` exceeds every cap of the instances (at most 2).
* `LineLimit = 2`, `PipeSize = 2`, `MaxOutput = 5`: a process that blocks, a line
  that is read in two pieces, one that is too long, and pieces of a line in the
  pipe and in a scanner when the pipe is closed.
* Two detached runs on one id: a run alone on it (the other not begun), and two
  that collide. More ids only separate runs that share nothing.
* `MaxDeps = 2` in `Planner`: a repeated entry; larger lists add only graphs, and
  the theorems cover those.
* `Half = 128` (8 bits) and `Milli = 10`: a number that is negative, fits, and overflows,
  as the 64 bits of the code do at larger numbers.
* Files of two entries of any kind show each complaint beside an entry that is
  fine, one that is not, and one it refers to; three entries make paths and
  branches.
* `MCRunIds`: ids that become one name, a name below another, and no name at all.
* `MaxEdits = 2`: the author edits and stages once. Seven of eleven statements are
  63.63636... percent: one threshold misses it by less than the slack, one by more,
  and the default is far above. The last commit holds nothing, a link or a banned
  term in each file, so every way a change is listed or not occurs.

**Fairness.** `RouteRun`: weak fairness of the engine's steps; a node ends because
`executeNode` gives it a deadline (`DefaultNodeTimeout` when it has none), which
`NodeRunner` shows to suffice. The commands of the user and crashes are never
fair. `LayerRun` and `Dashboard`: weak fairness of the main goroutine and of each
node's goroutine (the Go scheduler). `NodeRunner`: weak fairness of the caller,
of the scanners, of the deadline and of the kill that follows it, none of the
process, which may hang. `Detached`: weak fairness of processes that were not
killed, and of a look's second half; strong fairness of each look, as a user
or `watch` that asks again and again gets to look at each id although a look at
another may be under way. The others state no fairness. No property rests on
the fairness of an external program.

## 4. What is proved

Everything here holds for every value of the constants, from the named ASSUMEs.
Each proof module first proves type correctness, then an inductive invariant
(`Inv`, also checked by TLC), then the properties from it.

**`Planner_proofs`**: `PlannerInvariant`, `PlanRespectsDependencies`,
`PlanVerdictIsExact`, `PlanIsTight`. An indegree is the number of entries of
`depends_on` whose node has not been released yet, with repetitions, so it is
zero exactly when all dependencies are released. Hence a layer holds the nodes
all of whose dependencies are in earlier layers, and one of them in the layer
before. When a layer would be empty and nodes are left, each of these has a
dependency among them, which is what a cycle in a finite graph amounts to
(stated as a set closed under having a dependency in it).

**`RouteRun_proofs`**: `RouteRunTypeOK`, `RouteRunInvariant`, and from it
`GatesHold`, `PausesHold`, `PrefixHolds`, `RunFollowsRules`, `CapsHold`,
`FileFollows`, `ApprovalHolds`, `ExecutionsHold`. The invariant is the conjunction of the safety
properties and of four parts that make it inductive. `SessionInv`: a running
session has no outcome and no pause pending, its routes point back, it has no
result of its own at or after the loop position, its repeat counters are below
their caps. `ExecutionInv`: a node in execution was allowed to run; without it
the pass of a node would not be known to follow the rules. `ReviewInv`: only gates
pause and are approved, and an approved gate is passed in the file and in memory
until a route clears it. `PaymentInv`: a node was begun at most as often as routes
were taken back over it, and once more while the loop is past it or in it; so a
route pays when it moves the loop back, before the execution it pays for. The sum
over routes grows by one with each counter (`TotalGrows`). The hard case of each part is `RouteBack`: it clears the
results of a range of nodes and moves the loop to the start of that range, so
what was decided behind the new position used only results that are kept,
because dependencies (and the conditions the property speaks of) point to
earlier positions. That they do is a theorem of `Planner_proofs`.

The last part of the module is `RouteRunIsWorkflowRun`, that is `Spec =>
IsWorkflowRun`: the initial states map to initial states of `WorkflowRun`, and
every action to one of its steps or to a stutter. `RefinementInv` adds what the
mapping needs: between sessions there is an outcome, whatever is behind the loop
is decided or trusted, and a paused gate is the one `PausedNode` names.

**`LayerRun_proofs`**: `LayerRunTypeOK`, `LayerRunInvariant`, and from it
`DecisionsFollowRules`, `FailuresAreReported`, `AllDoneHolds`,
`CancellationsAreLocal`, and `LayerRunIsWorkflowRun`, for every interleaving of the
loop with any number of goroutines. `LoopInv` says what the loop's position and layer mean: nodes before
it were considered, nodes of earlier layers are done. `PhaseInv` ties what is
known of a node to how far its goroutine is. `RuleInv` strengthens
`DecidedByRule` by the nodes still in execution: they were allowed to run, and
since their dependencies are in earlier layers, which are done, no step changes
what allowed it. `FailureInv` follows a failure from the results into `errs` and
from there into `firstErr`. `ReturnInv` says a run returns at the end of its last
layer, which needs that every layer of a plan has a node (`WorkflowsAssumption`,
again a theorem of `Planner_proofs`), or at a gate. `CancelInv` ties the layer's
context to a failure or a pause in that layer.

`LayerRunIsWorkflowRun` (`Spec => IsWorkflowRun`) is proved by step simulation. A
goroutine that records its result finishes its node; the start of one, the skip of a
node and the pause at a gate take the decision of the same name, whose condition
follows from `LoopInv` and `PhaseInv`: what a node depends on is in earlier layers,
which are done. Most other steps of the loop and of goroutines change nothing that
`WorkflowRun` sees but what is on record, and for that `RefinementInv` says
what a rename or an `approve` may still put into the file: nothing that waits in
`pending` knows more than memory (`SavedInv`), memory has as passed what the results
have (`MemoryInv`), and a failure that is reported is that of a node
(`ErrorInv`).

Of `Dashboard` the same module proves `DashboardKeepsLayerRun` (every behaviour with
log and dashboard is one of `LayerRun`, so all of the above holds beside it),
`DashboardInvariant`, and from it `DashboardTypes`, `PassedViewsAreFinal` and
`PendingGatesAreShown`. `ShownInv` ties what is shown of a node that is over to its
result. `FinalInv`: once the word "passed" is recorded no goroutine is left that
could record anything. `PausesInv`: a gate that is named as paused, by the file, by
memory or by a save that waits to be renamed, is shown as paused; this must speak of
saves under way, because the rename that makes the file wait for a gate comes later
than its event, and from another goroutine, perhaps.

**`NodeRunner_proofs`**: `RunnerTypeOK`, `RunnerInvariant`, `OutputIsOrdered`,
`PassesAreEarned`, `RecordingEnds`. The key is `NothingIsLost`: what a process
wrote to a stream is what has been recorded, then what a scanner holds, then
what is in the pipe, and what has been recorded ends with a line; until the scanner
has put an end to a last line (`IsCut`), which it does only after the process has
ended. `CallerInv` ties the caller to process and scanners.

**`Detached_proofs`**: `DetachedTypeOK`, `DetachedInvariant`, `ReportsAreTrue`,
`LiveRunsAreVisible`, for any number of runs. `CopiesInv` says what each process is
about to write over `run.json`, `AliveInv` that before a child ends nothing says it
has ended, neither the file nor a copy that may be saved over it.

**`Isolation_proofs`**: `IsolationInvariant`, `WorktreesArePrivate`,
`NoWorktreeLeaks`. A directory a process holds is its worktree
(`HeldInv`), a worktree that was left is held by none (`LeftInv`), and git gives a
name to one worktree at a time; so no run gets one that another holds, and none is
removed under the run that works in it.

**`PreCommit_proofs`**: `GateInvariant`, `TermsAreFound`, `RejectionsHaveCause`,
`FloorHolds`, for any files, any way git prints their names, and all rational
thresholds and slacks. `ReadingInv`: every file that is listed, is named by its
printed name and was not staged again is still to be read or was read as it is
staged, and what was read is named by a listed file. `VerdictInv` keeps the summary
beside the verdict it led to; `FloorHolds` adds the arithmetic of the slack: a share
of fewer than `Precision` statements that misses a whole percentage misses it by
more than the slack (`SlackIsHarmless`); a fractional threshold it may miss by less.
That a profile has numbers of statements at all is the induction over the files of
`ProfileType`.

**`WorkflowFile_proofs`**: `WorkflowFileInvariant`, `WorkflowFileTypes`,
`VerdictsAreRight`, `EntriesAreKept`, `RepairsOfAncestorsRun`, `DeadlinesAreAhead`. The
invariant says what a half-read file and a half-checked workflow are. `DecodeInv`:
nodes are those of the entries read, each as the last entry of its name says, and in
a sequence no name came twice. `CheckInv`: what is checked is sound. A complaint of
`decodeNodes` or `Validate` spoils the file as a whole (`BadEntry`, `BadNode`), and a
file without complaint is valid exactly when it has no cycle (`SoundFile`). That the
layers of a plan leave a node out exactly if there is a cycle is proved in both
directions: the first layer that meets a set of nodes holds one that depends on none
of the set (`PlannedHasNoCycle`), and without a cycle each layer adds a node, so as
many layers as there are ids hold them all (`NoCycleIsPlanned`). A layer is closed
under what its nodes wait for, hence a route to an ancestor points back
(`WaitedForIsBefore`). `PlanIsLayerOf` shows that these layers are those of `Planner`:
any plan with the properties `Planner_proofs` proves of the algorithm's has each node in
the layer `LayersUpTo` puts it in.

**Induction over data.** Layers, sums and sets of files are defined by recursive
functions or folds, and the library's induction theorems cannot be cited with the
provers used. The proofs take the least counterexample instead, as `WFMin` gives it
for the well-founded orders `<` on `Nat` and strict inclusion (`LeastNumber`,
`NumbersUpTo`, `SubsetInduction`), and first prove that a function with the recursive
equation exists (`LayersEquation`, `SumsEquation`).

Only model-checked: all liveness (`CappedSessionsEnd`, `RunReturns`,
`RunnerReturns`, `EndIsReported`), as fairness and `ENABLED` are beyond the prover;
and that the code violates the four properties of the divergences. Every invariant
and every action property a passing run checks is also a theorem.

## 5. What is not modelled, and why

* Provider presets: argument vectors, formatting without state. Prompt expansion
  and the layout of messages, for the same reason.
* What the YAML and JSON libraries make of bytes.
* `List` and `Latest` of the registry: sorting of what is on disk. Reuse of
  pids. A later `resume` of a detached run in one model with its registry entry.
* Two orchestrator processes on one state file at once.
* Flag parsing, `init`, and what the commands print; rendering and polling of the
  dashboard; lines of node output in the log.
* The text search behind `DetectBannedAttribution` and the syntax of cover
  profiles: only their verdicts count. Rounding of `float64` percentages.
* The test harness, the default workflows and prompts, the issue data.

## 6. Plan and status

Planned and done: planning, routes, layers with overlapping saves, runners,
detached runs, workflow files, dashboard, isolated runs and the quality gate; the
abstract run with both engines implementing it, model-checked and proved; proofs
for each of the others.

What would come next: a model that joins `Detached` with the sessions of `RouteRun`,
so that a resume of a detached run meets its registry entry.
