----------------------------- MODULE Isolation -----------------------------
(***************************************************************************)
(* Runs with --isolate in one repository: gitspace.Prepare and its cleanup *)
(* (internal/gitspace/gitspace.go) around executeRun, and resumeCmd, which *)
(* knows nothing of worktrees (cmd/micromage/main.go).                     *)
(*                                                                         *)
(* Several runs, whose ids may become one name, prepare, work, stop and    *)
(* clean up at the same time, and any of them may be killed.  Of a run's   *)
(* engine only this is kept: a node that passes has edited files in the    *)
(* directory of the run and is saved as passed.                            *)
(***************************************************************************)
EXTENDS Naturals, Sequences, SequencesExt, FiniteSetsExt

CONSTANTS
    Run,          \* the runs
    RunIds,       \* the run ids considered, sequences of characters
    NodeCount,    \* nodes of the workflow, which run one after the other
    MaxSessions   \* bound on the run and resume commands of each run

ASSUME RunIdsAssumption == RunIds \subseteq Seq(STRING) \ {<<>>}
ASSUME CountAssumption == NodeCount \in Nat /\ MaxSessions \in Nat

Node == 1..NodeCount

VARIABLES
    runId,      \* --run-id of each run
    phase,      \* its process: "off", "preparing", "prepared", "working", "cleaning"
    dir,        \* runDir
    worktrees,  \* the worktrees git knows, with the run that added each
    branches,   \* the branches micromage/... git knows
    edits,      \* the nodes whose edits are in a directory, with their run
    saved,      \* the nodes the state file of the run has as passed
    paused,     \* whether that file waits for a review
    sessions,   \* run and resume commands so far
    left        \* history: the worktrees no process will remove any more

processes == <<runId, phase, dir, sessions>>
repository == <<worktrees, branches, edits, left>>
stateFiles == <<saved, paused>>
vars == <<processes, repository, stateFiles>>

-----------------------------------------------------------------------------

Separators == {"-", "/"}

LowerCase == <<"a", "b", "c", "d", "e", "f", "g", "h", "i", "j", "k", "l", "m",
               "n", "o", "p", "q", "r", "s", "t", "u", "v", "w", "x", "y", "z">>

UpperCase == <<"A", "B", "C", "D", "E", "F", "G", "H", "I", "J", "K", "L", "M",
               "N", "O", "P", "Q", "R", "S", "T", "U", "V", "W", "X", "Y", "Z">>

Digits == {"0", "1", "2", "3", "4", "5", "6", "7", "8", "9"}

SanitizedChar(c) ==
    IF c \in Range(UpperCase) THEN LowerCase[CHOOSE i \in DOMAIN UpperCase : UpperCase[i] = c]
    ELSE IF c \in Range(LowerCase) \cup Digits \cup {"-", "_", "/"} THEN c
    ELSE "-"

\* Lower case, "-" for what is no letter, digit or separator, and no separator
\* at either end.
Sanitize(id) ==
    LET mapped == [i \in DOMAIN id |-> SanitizedChar(id[i])]
        kept == {i \in DOMAIN mapped : mapped[i] \notin Separators}
    IN  IF kept = {} THEN <<>> ELSE SubSeq(mapped, Min(kept), Max(kept))

Name(r) == Sanitize(runId[r])

\* --workdir; the empty name is no name of a worktree.
Workdir == <<>>

Names == {Sanitize(id) : id \in RunIds}

\* A run id is the name of a run and of its state file.
Init ==
    /\ runId \in [Run -> RunIds]
    /\ \A r, q \in Run : r # q => runId[r] # runId[q]
    /\ phase = [r \in Run |-> "off"]
    /\ dir = [r \in Run |-> Workdir]
    /\ worktrees = {}
    /\ branches = {}
    /\ edits = [d \in Names \cup {Workdir} |-> {}]
    /\ saved = [r \in Run |-> {}]
    /\ paused = [r \in Run |-> FALSE]
    /\ sessions = [r \in Run |-> 0]
    /\ left = {}

To(r, to) == phase' = [phase EXCEPT ![r] = to]

-----------------------------------------------------------------------------
(* git worktree, as far as Prepare and cleanup depend on it.               *)

Added(name) == \E w \in worktrees : w.name = name

\* A branch is a path: micromage/a leaves no room for micromage/a/b.
Above(b, c) == IsStrictPrefix(b, c) /\ c[Len(b) + 1] = "/"

\* "worktree add" refuses an invalid name, a directory that is there, a branch
\* that is checked out in another worktree, and a branch it cannot create.
GitAdds(name) ==
    /\ name # Workdir
    /\ ~Added(name)
    /\ \A b \in branches : ~Above(b, name) /\ ~Above(name, b)

-----------------------------------------------------------------------------
(* A run.                                                                  *)

\* executeRun begins.
Begin(r) ==
    /\ phase[r] = "off"
    /\ sessions[r] < MaxSessions
    /\ To(r, "preparing")
    /\ sessions' = [sessions EXCEPT ![r] = @ + 1]
    /\ UNCHANGED <<runId, dir, repository, stateFiles>>

\* Prepare. The new worktree has the files of HEAD and none of anybody's edits.
Prepare(r) ==
    /\ phase[r] = "preparing"
    /\ GitAdds(Name(r))
    /\ worktrees' = worktrees \cup {[name |-> Name(r), by |-> r]}
    /\ branches' = branches \cup {Name(r)}
    /\ edits' = [edits EXCEPT ![Name(r)] = {}]
    /\ dir' = [dir EXCEPT ![r] = Name(r)]
    /\ To(r, "prepared")
    /\ UNCHANGED <<runId, sessions, left, stateFiles>>

\* (mutant) a worktree that is there is taken as it is
PrepareFails_TakesIt(r) ==
    /\ phase[r] = "preparing"
    /\ ~GitAdds(Name(r))
    /\ dir' = [dir EXCEPT ![r] = Name(r)]
    /\ To(r, IF Added(Name(r)) THEN "working" ELSE "off")
    /\ UNCHANGED <<runId, sessions, repository, stateFiles>>

\* git refuses: executeRun returns at once.
PrepareFails(r) ==
    /\ phase[r] = "preparing"
    /\ ~GitAdds(Name(r))
    /\ To(r, "off")
    /\ UNCHANGED <<runId, dir, sessions, repository, stateFiles>>

\* The state file is replaced, and the engine starts.
SetUp(r) ==
    /\ phase[r] = "prepared"
    /\ To(r, "working")
    /\ saved' = [saved EXCEPT ![r] = {}]
    /\ paused' = [paused EXCEPT ![r] = FALSE]
    /\ UNCHANGED <<runId, dir, sessions, repository>>

\* (mutant) the cleanup is deferred after the log, the runner and the state
SetUpFails_TooEarly(r) ==
    /\ phase[r] = "prepared"
    /\ To(r, "off")
    /\ UNCHANGED <<runId, dir, sessions, repository, stateFiles>>

\* The log, the runner or the state file cannot be made.
SetUpFails(r) ==
    /\ phase[r] = "prepared"
    /\ To(r, "cleaning")
    /\ UNCHANGED <<runId, dir, sessions, repository, stateFiles>>

\* The next node passes: its edits are in runDir, its mark in the state file.
PassNode(r) ==
    /\ phase[r] = "working"
    /\ \E n \in Node :
        /\ n \notin saved[r]
        /\ \A m \in Node : m < n => m \in saved[r]
        /\ saved' = [saved EXCEPT ![r] = @ \cup {n}]
        /\ edits' = [edits EXCEPT ![dir[r]] = @ \cup {[by |-> r, node |-> n]}]
    /\ UNCHANGED <<processes, worktrees, branches, left, paused>>

Returns(r) == To(r, IF dir[r] = Workdir THEN "off" ELSE "cleaning")

\* RunWithOptions returns: passed, failed, or paused at a gate.
Finish(r) ==
    /\ phase[r] = "working"
    /\ Returns(r)
    /\ UNCHANGED <<runId, dir, sessions, repository, stateFiles>>

Pause(r) ==
    /\ phase[r] = "working"
    /\ saved[r] # Node
    /\ paused' = [paused EXCEPT ![r] = TRUE]
    /\ Returns(r)
    /\ UNCHANGED <<runId, dir, sessions, repository, saved>>

\* The deferred cleanup, whatever the engine returned: "worktree remove --force"
\* deletes the directory with what was not committed.
Cleanup(r) ==
    /\ phase[r] = "cleaning"
    /\ worktrees' = {w \in worktrees : w.name # dir[r]}
    /\ edits' = [edits EXCEPT ![dir[r]] = {}]
    /\ dir' = [dir EXCEPT ![r] = Workdir]
    /\ To(r, "off")
    /\ UNCHANGED <<runId, sessions, branches, left, stateFiles>>

Leave(r) ==
    /\ left' = left \cup {w \in worktrees : w.name = dir[r] /\ w.by = r}
    /\ dir' = [dir EXCEPT ![r] = Workdir]
    /\ To(r, "off")
    /\ UNCHANGED <<runId, sessions, worktrees, branches, edits, stateFiles>>

\* git fails; that is reported, and no more.
CleanupFails(r) == phase[r] = "cleaning" /\ Leave(r)

\* Killed.
Crash(r) == phase[r] # "off" /\ Leave(r)

Approve(r) ==
    /\ phase[r] = "off"
    /\ paused[r]
    /\ paused' = [paused EXCEPT ![r] = FALSE]
    /\ UNCHANGED <<processes, repository, saved>>

\* resumeCmd works in --workdir and trusts the nodes the file has as passed.
Resume(r) ==
    /\ phase[r] = "off"
    /\ sessions[r] \in 1..(MaxSessions - 1)
    /\ ~paused[r]
    /\ To(r, "working")
    /\ dir' = [dir EXCEPT ![r] = Workdir]
    /\ sessions' = [sessions EXCEPT ![r] = @ + 1]
    /\ UNCHANGED <<runId, repository, stateFiles>>

\* The user removes a worktree that was left.
RemoveLeft(w) ==
    /\ \A r \in Run : dir[r] # w.name
    /\ worktrees' = worktrees \ {w}
    /\ left' = left \ {w}
    /\ edits' = [edits EXCEPT ![w.name] = {}]
    /\ UNCHANGED <<processes, branches, stateFiles>>

EngineStep(r) == PassNode(r) \/ Finish(r) \/ Pause(r)

PrepareStep(r) == Prepare(r) \/ PrepareFails(r) \/ SetUp(r) \/ SetUpFails(r)

CleanupStep(r) == Cleanup(r) \/ CleanupFails(r)

Next ==
    \/ \E r \in Run :
        \/ Begin(r)
        \/ PrepareStep(r)
        \/ EngineStep(r)
        \/ CleanupStep(r)
        \/ Crash(r)
        \/ Approve(r)
        \/ Resume(r)
    \/ \E w \in worktrees : RemoveLeft(w)

Spec == Init /\ [][Next]_vars

-----------------------------------------------------------------------------
(* Properties.                                                             *)

TypeOK ==
    /\ runId \in [Run -> RunIds]
    /\ phase \in [Run -> {"off", "preparing", "prepared", "working", "cleaning"}]
    /\ dir \in [Run -> Names \cup {Workdir}]
    /\ worktrees \subseteq [name : Names \ {Workdir}, by : Run]
    /\ branches \subseteq Names \ {Workdir}
    /\ edits \in [Names \cup {Workdir} -> SUBSET [by : Run, node : Node]]
    /\ saved \in [Run -> SUBSET Node]
    /\ paused \in [Run -> BOOLEAN]
    /\ sessions \in [Run -> 0..MaxSessions]
    /\ left \subseteq worktrees

\* "Isolated worktrees keep simultaneous agent runs from overwriting each other":
\* a run that works in a worktree finds there its own edits and nobody else's, and
\* nothing of it is missing, whichever runs with the same name begin, fail, stop
\* or are killed meanwhile.
WorktreeIsPrivate ==
    \A r \in Run : (phase[r] = "working" /\ dir[r] # Workdir) =>
        /\ [name |-> dir[r], by |-> r] \in worktrees
        /\ edits[dir[r]] = {[by |-> r, node |-> n] : n \in saved[r]}

\* Every worktree git knows is that of a process that will remove it, or was
\* left by a kill or by a cleanup that failed: no error path of executeRun leaks
\* one. (A name whose worktree was left is refused until the user removes it.)
NothingLeaks ==
    \A w \in worktrees : w \in left \/ (phase[w.by] # "off" /\ dir[w.by] = w.name)

\* "Resume mode trusts persisted successful work": the work a resume trusts is in
\* the directory it goes on in.
TrustedWorkIsThere ==
    [][\A r \in Run :
        (phase[r] = "off" /\ phase'[r] = "working") =>
            \A n \in saved[r] : [by |-> r, node |-> n] \in edits[dir'[r]]]_vars

\* What the proofs need beyond the properties: which phases hold a worktree; that
\* a held worktree was added by its holder, holds nothing before the engine
\* starts, and was left by nobody; and that git has one worktree of each name.
PhaseInv ==
    \A r \in Run : /\ phase[r] \in {"off", "preparing"} => dir[r] = Workdir
                   /\ phase[r] \in {"prepared", "cleaning"} => dir[r] # Workdir

HeldInv ==
    \A r \in Run : dir[r] # Workdir =>
        /\ [name |-> dir[r], by |-> r] \in worktrees
        /\ phase[r] = "prepared" => edits[dir[r]] = {}

LeftInv == \A w \in left : \A r \in Run : dir[r] # w.name

OneOfEachName == \A v, w \in worktrees : v.name = w.name => v = w

Inv ==
    /\ TypeOK
    /\ PhaseInv
    /\ HeldInv
    /\ LeftInv
    /\ OneOfEachName
    /\ WorktreeIsPrivate
    /\ NothingLeaks
=============================================================================
