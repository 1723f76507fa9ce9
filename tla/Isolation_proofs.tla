-------------------------- MODULE Isolation_proofs --------------------------
(***************************************************************************)
(* Theorems about Isolation: isolated runs of one repository keep out of   *)
(* each other's worktrees, for every set of runs, of run ids and of nodes. *)
(***************************************************************************)
EXTENDS Isolation, TLAPS

\* A run's worktree has one of the names its run ids give.
LEMMA NameType ==
    ASSUME TypeOK, NEW r \in Run
    PROVE  Name(r) \in Names
BY DEF TypeOK, Name, Names

\* The edits of the first nodes are typed.
LEMMA EditsType ==
    ASSUME TypeOK, NEW d \in Names \cup {Workdir}, NEW s \in SUBSET [by : Run, node : Node]
    PROVE  [edits EXCEPT ![d] = s] \in [Names \cup {Workdir} -> SUBSET [by : Run, node : Node]]
BY DEF TypeOK

LEMMA InitInv == Init => Inv
<1>. SUFFICES ASSUME Init PROVE Inv
  OBVIOUS
<1>1. TypeOK
  BY CountAssumption DEF Init, TypeOK
<1>2. PhaseInv /\ HeldInv /\ LeftInv
  BY DEF Init, PhaseInv, HeldInv, LeftInv
<1>3. OneOfEachName /\ WorktreeIsPrivate /\ NothingLeaks
  BY DEF Init, OneOfEachName, WorktreeIsPrivate, NothingLeaks
<1>. QED
  BY <1>1, <1>2, <1>3 DEF Inv

\* Two runs never hold one worktree.
LEMMA HoldersDiffer ==
    ASSUME Inv, NEW r \in Run, NEW q \in Run, r # q, dir[r] # Workdir
    PROVE  dir[q] # dir[r]
<1>1. SUFFICES ASSUME dir[q] = dir[r] PROVE FALSE
  OBVIOUS
<1>2. [name |-> dir[r], by |-> r] \in worktrees /\ [name |-> dir[r], by |-> q] \in worktrees
  BY <1>1 DEF Inv, HeldInv
<1>3. [name |-> dir[r], by |-> r] = [name |-> dir[r], by |-> q]
  BY <1>2 DEF Inv, OneOfEachName
<1>. QED
  BY <1>3

LEMMA BeginStep ==
    ASSUME Inv, NEW r \in Run, Begin(r)
    PROVE  Inv'
<1>. USE DEF Inv, Begin, To, repository, stateFiles
<1>1. TypeOK'
  BY CountAssumption DEF TypeOK
<1>2. PhaseInv' /\ HeldInv' /\ LeftInv'
  BY DEF TypeOK, PhaseInv, HeldInv, LeftInv
<1>3. OneOfEachName' /\ WorktreeIsPrivate' /\ NothingLeaks'
  BY DEF TypeOK, OneOfEachName, WorktreeIsPrivate, NothingLeaks
<1>. QED
  BY <1>1, <1>2, <1>3

LEMMA PrepareStepInv ==
    ASSUME Inv, NEW r \in Run, Prepare(r)
    PROVE  Inv'
<1>. USE DEF Inv, Prepare, To, stateFiles
<1>0. Name(r) \in Names \ {Workdir} /\ ~Added(Name(r))
  BY NameType DEF GitAdds
<1>1. TypeOK'
  <2>1. edits' \in [Names \cup {Workdir} -> SUBSET [by : Run, node : Node]]
    BY <1>0, EditsType
  <2>2. worktrees' \subseteq [name : Names \ {Workdir}, by : Run] /\ left' \subseteq worktrees'
    BY <1>0 DEF TypeOK
  <2>. QED
    BY <1>0, <2>1, <2>2 DEF TypeOK
<1>2. \A q \in Run : dir[q] # Name(r)
  BY <1>0 DEF HeldInv, Added
<1>3. \A w \in left : w.name # Name(r)
  BY <1>0 DEF TypeOK, Added
<1>4. PhaseInv'
  BY <1>0 DEF TypeOK, PhaseInv
<1>5. HeldInv'
  <2>1. ASSUME NEW q \in Run, dir'[q] # Workdir
        PROVE  /\ [name |-> dir'[q], by |-> q] \in worktrees'
               /\ phase'[q] = "prepared" => edits'[dir'[q]] = {}
    <3>1. CASE q = r
      BY <1>0, <3>1 DEF TypeOK
    <3>2. CASE q # r
      BY <1>2, <2>1, <3>2 DEF TypeOK, HeldInv
    <3>. QED
      BY <3>1, <3>2
  <2>. QED
    BY <2>1 DEF HeldInv
<1>6. LeftInv'
  BY <1>3 DEF TypeOK, LeftInv
<1>7. OneOfEachName'
  BY <1>0 DEF TypeOK, OneOfEachName, Added
<1>8. WorktreeIsPrivate'
  BY <1>2 DEF TypeOK, WorktreeIsPrivate
<1>9. NothingLeaks'
  BY DEF TypeOK, NothingLeaks, PhaseInv
<1>. QED
  BY <1>1, <1>4, <1>5, <1>6, <1>7, <1>8, <1>9

\* Steps that move a run's process from one phase to another and nothing else.
LEMMA PhaseStepInv ==
    ASSUME Inv, NEW r \in Run, PrepareFails(r) \/ SetUpFails(r) \/ Finish(r)
    PROVE  Inv'
<1>. USE DEF Inv, PrepareFails, SetUpFails, Finish, Returns, To, repository, stateFiles
<1>1. TypeOK'
  BY DEF TypeOK
<1>2. PhaseInv' /\ HeldInv' /\ LeftInv'
  BY DEF TypeOK, PhaseInv, HeldInv, LeftInv
<1>3. OneOfEachName' /\ WorktreeIsPrivate'
  BY DEF TypeOK, OneOfEachName, WorktreeIsPrivate
<1>4. NothingLeaks'
  BY DEF TypeOK, NothingLeaks, PhaseInv
<1>. QED
  BY <1>1, <1>2, <1>3, <1>4

LEMMA PauseInv ==
    ASSUME Inv, NEW r \in Run, Pause(r) \/ Approve(r)
    PROVE  Inv'
<1>. USE DEF Inv, Pause, Approve, Returns, To, processes, repository
<1>1. TypeOK'
  BY DEF TypeOK
<1>2. PhaseInv' /\ HeldInv' /\ LeftInv'
  BY DEF TypeOK, PhaseInv, HeldInv, LeftInv
<1>3. OneOfEachName' /\ WorktreeIsPrivate'
  BY DEF TypeOK, OneOfEachName, WorktreeIsPrivate
<1>4. NothingLeaks'
  BY DEF TypeOK, NothingLeaks, PhaseInv
<1>. QED
  BY <1>1, <1>2, <1>3, <1>4

LEMMA SetUpInv ==
    ASSUME Inv, NEW r \in Run, SetUp(r)
    PROVE  Inv'
<1>. USE DEF Inv, SetUp, To, repository
<1>1. TypeOK'
  BY DEF TypeOK
<1>2. PhaseInv' /\ HeldInv' /\ LeftInv'
  BY DEF TypeOK, PhaseInv, HeldInv, LeftInv
<1>3. WorktreeIsPrivate'
  <2>1. ASSUME NEW q \in Run, phase'[q] = "working", dir'[q] # Workdir
        PROVE  /\ [name |-> dir'[q], by |-> q] \in worktrees'
               /\ edits'[dir'[q]] = {[by |-> q, node |-> n] : n \in saved'[q]}
    <3>1. CASE q = r
      <4>1. edits[dir[r]] = {} /\ [name |-> dir[r], by |-> r] \in worktrees
        BY <2>1, <3>1 DEF HeldInv
      <4>2. saved'[r] = {}
        BY DEF TypeOK
      <4>. QED
        BY <3>1, <4>1, <4>2
    <3>2. CASE q # r
      BY <2>1, <3>2 DEF TypeOK, WorktreeIsPrivate
    <3>. QED
      BY <3>1, <3>2
  <2>. QED
    BY <2>1 DEF WorktreeIsPrivate
<1>4. OneOfEachName' /\ NothingLeaks'
  BY DEF TypeOK, OneOfEachName, NothingLeaks
<1>. QED
  BY <1>1, <1>2, <1>3, <1>4

LEMMA PassNodeInv ==
    ASSUME Inv, NEW r \in Run, PassNode(r)
    PROVE  Inv'
<1>. USE DEF Inv, PassNode, processes
<1>1. PICK n \in Node :
        /\ saved' = [saved EXCEPT ![r] = @ \cup {n}]
        /\ edits' = [edits EXCEPT ![dir[r]] = @ \cup {[by |-> r, node |-> n]}]
  BY DEF PassNode
<1>2. TypeOK'
  <2>1. edits[dir[r]] \cup {[by |-> r, node |-> n]} \in SUBSET [by : Run, node : Node]
    BY DEF TypeOK
  <2>2. edits' \in [Names \cup {Workdir} -> SUBSET [by : Run, node : Node]]
    BY <1>1, <2>1 DEF TypeOK
  <2>. QED
    BY <1>1, <2>2 DEF TypeOK
<1>3. PhaseInv' /\ LeftInv'
  BY DEF PhaseInv, LeftInv
<1>4. HeldInv'
  <2>1. ASSUME NEW q \in Run, dir[q] # Workdir
        PROVE  /\ [name |-> dir[q], by |-> q] \in worktrees
               /\ phase[q] = "prepared" => edits'[dir[q]] = {}
    <3>1. CASE q = r
      BY <2>1, <3>1 DEF HeldInv
    <3>2. CASE q # r
      <4>1. dir[r] # dir[q]
        BY <2>1, <3>2, HoldersDiffer
      <4>. QED
        BY <1>1, <2>1, <4>1 DEF HeldInv, TypeOK
    <3>. QED
      BY <3>1, <3>2
  <2>. QED
    BY <2>1 DEF HeldInv
<1>5. WorktreeIsPrivate'
  <2>1. ASSUME NEW q \in Run, phase[q] = "working", dir[q] # Workdir
        PROVE  /\ [name |-> dir[q], by |-> q] \in worktrees
               /\ edits'[dir[q]] = {[by |-> q, node |-> m] : m \in saved'[q]}
    <3>0. /\ [name |-> dir[q], by |-> q] \in worktrees
          /\ edits[dir[q]] = {[by |-> q, node |-> m] : m \in saved[q]}
      BY <2>1 DEF WorktreeIsPrivate
    <3>1. CASE q = r
      <4>1. saved'[r] = saved[r] \cup {n}
        BY <1>1 DEF TypeOK
      <4>2. edits'[dir[r]] = edits[dir[r]] \cup {[by |-> r, node |-> n]}
        BY <1>1 DEF TypeOK
      <4>. QED
        BY <3>0, <3>1, <4>1, <4>2
    <3>2. CASE q # r
      <4>1. dir[r] # dir[q]
        BY <2>1, <3>2, HoldersDiffer
      <4>. QED
        BY <1>1, <3>0, <3>2, <4>1 DEF TypeOK
    <3>. QED
      BY <3>1, <3>2
  <2>. QED
    BY <2>1 DEF WorktreeIsPrivate
<1>6. OneOfEachName' /\ NothingLeaks'
  BY DEF OneOfEachName, NothingLeaks
<1>. QED
  BY <1>2, <1>3, <1>4, <1>5, <1>6

LEMMA CleanupInv ==
    ASSUME Inv, NEW r \in Run, Cleanup(r)
    PROVE  Inv'
<1>. USE DEF Inv, Cleanup, To, stateFiles
<1>1. dir[r] # Workdir /\ dir[r] \in Names
  BY DEF PhaseInv, TypeOK
<1>2. \A q \in Run : q # r => dir[q] # dir[r]
  BY <1>1, HoldersDiffer
<1>3. TypeOK'
  <2>1. edits' \in [Names \cup {Workdir} -> SUBSET [by : Run, node : Node]]
    BY <1>1, EditsType
  <2>2. left' \subseteq worktrees'
    BY DEF LeftInv, TypeOK
  <2>. QED
    BY <2>1, <2>2 DEF TypeOK
<1>4. PhaseInv'
  BY DEF TypeOK, PhaseInv
<1>5. HeldInv'
  <2>1. ASSUME NEW q \in Run, dir'[q] # Workdir
        PROVE  /\ [name |-> dir'[q], by |-> q] \in worktrees'
               /\ phase'[q] = "prepared" => edits'[dir'[q]] = {}
    <3>1. q # r /\ dir'[q] = dir[q] /\ phase'[q] = phase[q]
      BY <2>1 DEF TypeOK
    <3>2. dir[q] # dir[r] /\ dir[q] \in Names \cup {Workdir}
      BY <1>2, <3>1 DEF TypeOK
    <3>3. edits'[dir[q]] = edits[dir[q]]
      BY <3>2 DEF TypeOK
    <3>. QED
      BY <2>1, <3>1, <3>2, <3>3 DEF HeldInv
  <2>. QED
    BY <2>1 DEF HeldInv
<1>6. LeftInv'
  BY DEF TypeOK, LeftInv
<1>7. WorktreeIsPrivate'
  <2>1. ASSUME NEW q \in Run, phase'[q] = "working", dir'[q] # Workdir
        PROVE  /\ [name |-> dir'[q], by |-> q] \in worktrees'
               /\ edits'[dir'[q]] = {[by |-> q, node |-> m] : m \in saved'[q]}
    <3>1. q # r /\ dir'[q] = dir[q] /\ phase'[q] = phase[q]
      BY <2>1 DEF TypeOK
    <3>2. dir[q] # dir[r] /\ dir[q] \in Names \cup {Workdir}
      BY <1>2, <3>1 DEF TypeOK
    <3>3. edits'[dir[q]] = edits[dir[q]]
      BY <3>2 DEF TypeOK
    <3>. QED
      BY <2>1, <3>1, <3>2, <3>3 DEF WorktreeIsPrivate
  <2>. QED
    BY <2>1 DEF WorktreeIsPrivate
<1>8. OneOfEachName'
  BY DEF OneOfEachName
<1>9. NothingLeaks'
  BY DEF TypeOK, NothingLeaks
<1>. QED
  BY <1>3, <1>4, <1>5, <1>6, <1>7, <1>8, <1>9

\* A killed process, and a cleanup that failed, leave the worktree.
LEMMA LeaveInv ==
    ASSUME Inv, NEW r \in Run, CleanupFails(r) \/ Crash(r)
    PROVE  Inv'
<1>. USE DEF Inv, CleanupFails, Crash, Leave, To, stateFiles
<1>0. Leave(r)
  BY DEF CleanupFails, Crash
<1>1. TypeOK'
  BY DEF TypeOK
<1>2. PhaseInv'
  BY DEF TypeOK, PhaseInv
<1>3. HeldInv'
  BY DEF TypeOK, HeldInv
<1>4. LeftInv'
  <2>1. ASSUME NEW w \in left', NEW q \in Run
        PROVE  dir'[q] # w.name
    <3>0. w \in worktrees /\ w.name # Workdir
      BY <1>0 DEF TypeOK
    <3>1. CASE q = r
      BY <1>0, <3>0, <3>1 DEF TypeOK
    <3>2. CASE q # r /\ w \in left
      BY <1>0, <3>2 DEF TypeOK, LeftInv
    <3>3. CASE q # r /\ w.name = dir[r]
      <4>1. dir[q] # dir[r]
        BY <3>0, <3>3, HoldersDiffer
      <4>. QED
        BY <1>0, <3>3, <4>1 DEF TypeOK
    <3>. QED
      BY <1>0, <3>1, <3>2, <3>3
  <2>. QED
    BY <2>1 DEF LeftInv
<1>5. OneOfEachName' /\ WorktreeIsPrivate'
  BY DEF TypeOK, OneOfEachName, WorktreeIsPrivate
<1>6. NothingLeaks'
  <2>1. ASSUME NEW w \in worktrees
        PROVE  w \in left' \/ (phase'[w.by] # "off" /\ dir'[w.by] = w.name)
    <3>0. w.by \in Run
      BY DEF TypeOK
    <3>1. CASE w \in left
      BY <1>0, <3>1
    <3>2. CASE w \notin left /\ w.by = r
      BY <1>0, <3>2 DEF NothingLeaks
    <3>3. CASE w \notin left /\ w.by # r
      BY <1>0, <3>0, <3>3 DEF NothingLeaks, TypeOK
    <3>. QED
      BY <3>1, <3>2, <3>3
  <2>. QED
    BY <1>0, <2>1 DEF NothingLeaks
<1>. QED
  BY <1>1, <1>2, <1>3, <1>4, <1>5, <1>6

LEMMA ResumeInv ==
    ASSUME Inv, NEW r \in Run, Resume(r)
    PROVE  Inv'
<1>. USE DEF Inv, Resume, To, repository, stateFiles
<1>1. TypeOK'
  <2>1. sessions[r] + 1 \in 0..MaxSessions
    BY CountAssumption DEF TypeOK
  <2>. QED
    BY <2>1 DEF TypeOK
<1>2. PhaseInv' /\ HeldInv' /\ LeftInv'
  BY DEF TypeOK, PhaseInv, HeldInv, LeftInv
<1>3. OneOfEachName' /\ WorktreeIsPrivate'
  BY DEF TypeOK, OneOfEachName, WorktreeIsPrivate
<1>4. NothingLeaks'
  BY DEF TypeOK, NothingLeaks
<1>. QED
  BY <1>1, <1>2, <1>3, <1>4

LEMMA RemoveLeftInv ==
    ASSUME Inv, NEW w \in worktrees, RemoveLeft(w)
    PROVE  Inv'
<1>. USE DEF Inv, RemoveLeft, processes, stateFiles
<1>1. w.name \in Names
  BY DEF TypeOK
<1>2. TypeOK'
  <2>1. edits' \in [Names \cup {Workdir} -> SUBSET [by : Run, node : Node]]
    BY <1>1, EditsType
  <2>. QED
    BY <2>1 DEF TypeOK
<1>3. \A r \in Run : edits'[dir[r]] = edits[dir[r]]
  BY DEF TypeOK
<1>4. PhaseInv' /\ LeftInv'
  BY DEF PhaseInv, LeftInv
<1>5. HeldInv' /\ WorktreeIsPrivate'
  <2>1. \A r \in Run : [name |-> dir[r], by |-> r] # w
    OBVIOUS
  <2>. QED
    BY <1>3, <2>1 DEF HeldInv, WorktreeIsPrivate
<1>6. OneOfEachName' /\ NothingLeaks'
  BY DEF OneOfEachName, NothingLeaks
<1>. QED
  BY <1>2, <1>4, <1>5, <1>6

LEMMA StepInv ==
    ASSUME Inv, [Next]_vars
    PROVE  Inv'
<1>1. CASE UNCHANGED vars
  BY <1>1 DEF vars, processes, repository, stateFiles, Inv, TypeOK, PhaseInv, HeldInv, LeftInv,
              OneOfEachName, WorktreeIsPrivate, NothingLeaks
<1>2. ASSUME NEW r \in Run, Begin(r) PROVE Inv'
  BY <1>2, BeginStep
<1>3. ASSUME NEW r \in Run, PrepareStep(r) PROVE Inv'
  BY <1>3, PrepareStepInv, PhaseStepInv, SetUpInv DEF PrepareStep
<1>4. ASSUME NEW r \in Run, EngineStep(r) PROVE Inv'
  BY <1>4, PassNodeInv, PhaseStepInv, PauseInv DEF EngineStep
<1>5. ASSUME NEW r \in Run, CleanupStep(r) \/ Crash(r) PROVE Inv'
  BY <1>5, CleanupInv, LeaveInv DEF CleanupStep
<1>6. ASSUME NEW r \in Run, Approve(r) \/ Resume(r) PROVE Inv'
  BY <1>6, PauseInv, ResumeInv
<1>7. ASSUME NEW w \in worktrees, RemoveLeft(w) PROVE Inv'
  BY <1>7, RemoveLeftInv
<1>. QED
  BY <1>1, <1>2, <1>3, <1>4, <1>5, <1>6, <1>7 DEF Next

\* The inductive invariant of any number of isolated runs: each worktree has one
\* holder, who added it, or was left (gitspace.Prepare and its cleanup).
THEOREM IsolationInvariant == Spec => []Inv
<1>1. Init => Inv
  BY InitInv
<1>2. Inv /\ [Next]_vars => Inv'
  BY StepInv
<1>. QED
  BY <1>1, <1>2, PTL DEF Spec

\* A run that works in a worktree finds its own edits there and nobody else's.
THEOREM WorktreesArePrivate == Spec => []WorktreeIsPrivate
<1>1. Inv => WorktreeIsPrivate
  BY DEF Inv
<1>. QED
  BY <1>1, IsolationInvariant, PTL

\* No error path of executeRun leaks a worktree.
THEOREM NoWorktreeLeaks == Spec => []NothingLeaks
<1>1. Inv => NothingLeaks
  BY DEF Inv
<1>. QED
  BY <1>1, IsolationInvariant, PTL
=============================================================================
