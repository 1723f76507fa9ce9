------------------------------ MODULE Detached ------------------------------
(***************************************************************************)
(* "micromage run --detach": the launching command (startDetachedRun), the *)
(* child process (detachedChildCmd, finalizeDetachedMetadata) and the      *)
(* commands that look (status, runs, watch), which share one file per run  *)
(* id, run.json of internal/runregistry.  Save is atomic (a temporary file *)
(* and a rename), a load followed by a save is not.                        *)
(***************************************************************************)
EXTENDS FiniteSets

CONSTANTS
    Run,        \* the "run --detach" commands; a child's pid is named by its run
    RunId,
    NoPid,      \* pid 0
    Absent,     \* no run.json
    LoadMayFail \* whether the launching command may fail to read run.json again

ASSUME DetachedAssumption == NoPid \notin Run /\ LoadMayFail \in BOOLEAN

Final == {"passed", "paused", "failed"}

\* runregistry.Metadata: the run whose argv it holds, the pid and the status.
Metadata == [run : Run, pid : Run \cup {NoPid}, status : Final \cup {"running"}]

ASSUME AbsentAssumption == Absent \notin Metadata

VARIABLES
    runId,        \* --run-id, or a generated one: two commands may be given the same
    parent,       \* where startDetachedRun is
    parentCopy,   \* its metadata variable
    child,        \* where the child process is
    childCopy,    \* the metadata variable of finalizeDetachedMetadata
    result,       \* what executeRun returned in the child, "none" before
    registry,     \* run.json of every run id
    seen,         \* what a looking command has read: a run id and its metadata
    reported      \* history: the last status it reported of a run id

looking == <<seen, reported>>
vars == <<runId, parent, parentCopy, child, childCopy, result, registry, looking>>

\* NewMetadata, before the child is launched.
New(r) == [run |-> r, pid |-> NoPid, status |-> "running"]

Exited == {"started", "gave_up"}   \* startDetachedRun returned 0, or did not
Alive == {"running", "finalize", "loaded"}

Init ==
    /\ runId \in [Run -> RunId]
    /\ parent = [r \in Run |-> "begin"]
    /\ parentCopy = [r \in Run |-> New(r)]
    /\ child = [r \in Run |-> "none"]
    /\ childCopy = [r \in Run |-> New(r)]
    /\ result = [r \in Run |-> "none"]
    /\ registry = [i \in RunId |-> Absent]
    /\ seen = Absent
    /\ reported = [i \in RunId |-> "none"]

\* (mutant) a dead child is never reaped
PidAlive_Unreaped(pid) == pid \in Run /\ child[pid] # "none"

\* DefaultPIDLiveness: kill(pid, 0) also succeeds for a dead child that its
\* parent, which never waits for it, has not yet left to init.
PidAlive(pid) ==
    /\ pid \in Run
    /\ child[pid] \in Alive \/ (child[pid] = "dead" /\ parent[pid] \notin Exited)

\* applyStaleStatus: what a look makes of the metadata it has read.
Shown(metadata) ==
    IF metadata.status = "running" /\ ~PidAlive(metadata.pid)
    THEN "stale"
    ELSE metadata.status

Save(r, metadata) == registry' = [registry EXCEPT ![runId[r]] = metadata]

-----------------------------------------------------------------------------
(* The launching command.                                                  *)

ParentGoes(r, from, to) ==
    /\ parent[r] = from
    /\ parent' = [parent EXCEPT ![r] = to]

SaveInitial(r) ==
    /\ ParentGoes(r, "begin", "saved")
    /\ Save(r, parentCopy[r])
    /\ UNCHANGED <<runId, parentCopy, child, childCopy, result, looking>>

\* Spawner.Launch: the child runs before the parent knows its pid.
Launch(r) ==
    /\ ParentGoes(r, "saved", "launched")
    /\ child' = [child EXCEPT ![r] = "running"]
    /\ UNCHANGED <<runId, parentCopy, childCopy, result, registry, looking>>

LaunchFails(r) ==
    /\ ParentGoes(r, "saved", "refused")
    /\ parentCopy' = [parentCopy EXCEPT ![r].status = "failed"]
    /\ UNCHANGED <<runId, child, childCopy, result, registry, looking>>

SaveRefused(r) ==
    /\ ParentGoes(r, "refused", "gave_up")
    /\ Save(r, parentCopy[r])
    /\ UNCHANGED <<runId, parentCopy, child, childCopy, result, looking>>

\* Load without asking for the process, then the pid and the argv of this run.
Reloaded(r) == [registry[runId[r]] EXCEPT !.pid = r, !.run = r]

\* A failed load leaves the metadata of SaveInitial.
Reload(r) ==
    \/ parentCopy' = [parentCopy EXCEPT ![r] = Reloaded(r)]
    \/ LoadMayFail /\ parentCopy' = [parentCopy EXCEPT ![r].pid = r]

ReloadMetadata(r) ==
    /\ ParentGoes(r, "launched", "reloaded")
    /\ Reload(r)
    /\ UNCHANGED <<runId, child, childCopy, result, registry, looking>>

\* (mutant) the pid is not saved
SavePid_Never(r) ==
    /\ ParentGoes(r, "reloaded", "started")
    /\ UNCHANGED <<runId, parentCopy, child, childCopy, result, registry, looking>>

SavePid(r) ==
    /\ ParentGoes(r, "reloaded", "started")
    /\ Save(r, parentCopy[r])
    /\ UNCHANGED <<runId, parentCopy, child, childCopy, result, looking>>

\* A save returned an error, or the command was killed.
GiveUp(r) ==
    /\ parent[r] \notin Exited
    /\ parent' = [parent EXCEPT ![r] = "gave_up"]
    /\ UNCHANGED <<runId, parentCopy, child, childCopy, result, registry, looking>>

-----------------------------------------------------------------------------
(* The child process.                                                      *)

ChildGoes(r, from, to) ==
    /\ child[r] = from
    /\ child' = [child EXCEPT ![r] = to]

\* executeRun: RouteRun and LayerRun say how a run comes to its result.
Return(r, outcome) ==
    /\ ChildGoes(r, "running", "finalize")
    /\ result' = [result EXCEPT ![r] = outcome]
    /\ UNCHANGED <<runId, parent, parentCopy, childCopy, registry, looking>>

\* (mutant) a pause is recorded as a failure
Finalized_NoPause(metadata, outcome) ==
    [metadata EXCEPT !.status = IF outcome = "paused" THEN "failed" ELSE outcome]

\* finalizeDetachedMetadata: passed on success, paused on ErrHumanGate, failed
\* on any other error.
Finalized(metadata, outcome) == [metadata EXCEPT !.status = outcome]

FinalizeLoad(r) ==
    /\ ChildGoes(r, "finalize", "loaded")
    /\ childCopy' = [childCopy EXCEPT ![r] = Finalized(registry[runId[r]], result[r])]
    /\ UNCHANGED <<runId, parent, parentCopy, result, registry, looking>>

FinalizeSave(r) ==
    /\ ChildGoes(r, "loaded", "dead")
    /\ Save(r, childCopy[r])
    /\ UNCHANGED <<runId, parent, parentCopy, childCopy, result, looking>>

\* The child is killed, or an error of finalizeDetachedMetadata is dropped.
Die(r) ==
    /\ child[r] \in Alive
    /\ child' = [child EXCEPT ![r] = "dead"]
    /\ UNCHANGED <<runId, parent, parentCopy, childCopy, result, registry, looking>>

-----------------------------------------------------------------------------
(* The commands that look.                                                 *)

\* Load reads the file, then asks for the process.
Look(i) ==
    /\ seen = Absent
    /\ registry[i] # Absent
    /\ seen' = [id |-> i, metadata |-> registry[i]]
    /\ UNCHANGED <<runId, parent, parentCopy, child, childCopy, result, registry, reported>>

Report ==
    /\ seen # Absent
    /\ reported' = [reported EXCEPT ![seen.id] = Shown(seen.metadata)]
    /\ seen' = Absent
    /\ UNCHANGED <<runId, parent, parentCopy, child, childCopy, result, registry>>

-----------------------------------------------------------------------------

ParentStep(r) ==
    \/ SaveInitial(r)
    \/ Launch(r)
    \/ LaunchFails(r)
    \/ SaveRefused(r)
    \/ ReloadMetadata(r)
    \/ SavePid(r)

ChildStep(r) ==
    \/ \E outcome \in Final : Return(r, outcome)
    \/ FinalizeLoad(r)
    \/ FinalizeSave(r)

Next ==
    \/ \E r \in Run : ParentStep(r) \/ GiveUp(r) \/ ChildStep(r) \/ Die(r)
    \/ \E i \in RunId : Look(i)
    \/ Report

Spec == Init /\ [][Next]_vars

\* Processes that have not been killed go on; looking commands are run again
\* and again.
FairSpec ==
    /\ Spec
    /\ \A r \in Run : WF_vars(ParentStep(r)) /\ WF_vars(ChildStep(r))
    /\ \A i \in RunId : SF_vars(Look(i))
    /\ WF_vars(Report)

-----------------------------------------------------------------------------
(* Properties.                                                             *)

\* "stale" is only ever shown: run.json never stores it.
TypeOK ==
    /\ runId \in [Run -> RunId]
    /\ parent \in [Run -> {"begin", "saved", "launched", "refused", "reloaded"} \cup Exited]
    /\ parentCopy \in [Run -> Metadata]
    /\ child \in [Run -> {"none", "dead"} \cup Alive]
    /\ childCopy \in [Run -> Metadata]
    /\ result \in [Run -> Final \cup {"none"}]
    /\ registry \in [RunId -> Metadata \cup {Absent}]
    /\ seen \in [id : RunId, metadata : Metadata] \cup {Absent}
    /\ reported \in [RunId -> Final \cup {"none", "running", "stale"}]

\* No other command with the same run id has begun to use it.
OwnId(r) == \A q \in Run \ {r} : runId[q] = runId[r] => parent[q] = "begin"

\* Once the launching command has said "detached run started", a look at the
\* live run shows it running, with its pid, whatever the child has done to
\* run.json in between ("Detached run metadata lets follow-up CLI commands find
\* logs, state, and process ownership").
StartedRunIsVisible ==
    \A r \in Run :
        parent[r] = "started" /\ child[r] \in Alive /\ OwnId(r) =>
            /\ registry[runId[r]] # Absent
            /\ registry[runId[r]].pid = r
            /\ Shown(registry[runId[r]]) = "running"

\* A result that is stored or reported for a run id was returned by a child of
\* that id, or is the failure of a launch.
WasReturned(i, status) ==
    \E r \in Run :
        /\ runId[r] = i
        /\ result[r] = status \/ (status = "failed" /\ parentCopy[r].status = "failed")

ResultsAreReturned ==
    \A i \in RunId :
        /\ registry[i] # Absent /\ registry[i].status \in Final
              => WasReturned(i, registry[i].status)
        /\ reported[i] \in Final => WasReturned(i, reported[i])

\* What the two processes of a run know of each other and of run.json.
KnownOf(r) ==
    /\ parent[r] \in {"begin", "saved", "refused"} => child[r] = "none"
    /\ parent[r] \in {"launched", "reloaded", "started"} => child[r] # "none"
    /\ parent[r] \notin {"begin", "gave_up"} \/ child[r] # "none" => registry[runId[r]] # Absent
    /\ child[r] \in {"none", "running"} => result[r] = "none"
    /\ child[r] \in {"finalize", "loaded"} => result[r] \in Final

ProcessInv == \A r \in Run : KnownOf(r)

\* What a process is about to save.
CopiesInv ==
    \A r \in Run :
        /\ parent[r] \in {"begin", "saved", "launched"} => parentCopy[r].status = "running"
        /\ parent[r] = "reloaded" => parentCopy[r].pid = r
        /\ parentCopy[r].status \in Final => WasReturned(runId[r], parentCopy[r].status)
        /\ child[r] = "loaded" => childCopy[r].status = result[r]

SeenInv ==
    seen # Absent /\ seen.metadata.status \in Final
        => WasReturned(seen.id, seen.metadata.status)

\* Before its child ends, nothing of a run says that it has ended.
NotEnded(r) ==
    /\ registry[runId[r]].status = "running"
    /\ parentCopy[r].status = "running"
    /\ parent[r] = "started" => registry[runId[r]].pid = r

Live(r) == (parent[r] = "saved" \/ child[r] \in Alive) /\ OwnId(r)

AliveInv == \A r \in Run : Live(r) => NotEnded(r)

\* The inductive invariant of Detached_proofs.
Inv == TypeOK /\ ProcessInv /\ CopiesInv /\ SeenInv /\ AliveInv /\ ResultsAreReturned

\* Whoever keeps looking learns that a run is over, however its child ended and
\* whoever wrote run.json last.
EndIsReported ==
    \A r \in Run :
        child[r] = "dead" ~> reported[runId[r]] \in Final \cup {"stale"}
=============================================================================
