--------------------------- MODULE Detached_proofs ---------------------------
(***************************************************************************)
(* Theorems about Detached: what a look at a detached run may say, for     *)
(* every set of runs and of run ids.                                       *)
(***************************************************************************)
EXTENDS Detached, TLAPS

\* What a child returned stays returned, and a failed launch failed.
LEMMA WasReturnedStays ==
    ASSUME NEW i \in RunId, NEW status \in Final, WasReturned(i, status),
           runId' = runId,
           \A r \in Run : result[r] # "none" => result'[r] = result[r],
           \A r \in Run : parentCopy[r].status = "failed" => parentCopy'[r].status = "failed"
    PROVE  WasReturned(i, status)'
BY DEF WasReturned, Final

\* Only what was returned before, or is returned now, is reported.
LEMMA ReturnedStay ==
    ASSUME ResultsAreReturned, UNCHANGED <<runId, registry, reported>>,
           \A i \in RunId, status \in Final : WasReturned(i, status) => WasReturned(i, status)'
    PROVE  ResultsAreReturned'
BY DEF ResultsAreReturned

\* A run that has its id for itself has had it since it began.
LEMMA OwnIdStays ==
    ASSUME TypeOK, runId' = runId, NEW r \in Run, OwnId(r)',
           \A q \in Run : parent'[q] = "begin" => parent[q] = "begin"
    PROVE  OwnId(r)
BY DEF Live, OwnId, TypeOK

LEMMA InitInv == Init => Inv
<1>. SUFFICES ASSUME Init PROVE Inv
  OBVIOUS
<1>1. TypeOK
  BY DEF Init, TypeOK, New, Metadata, Final, Exited, Alive
<1>2. ProcessInv
  BY DEF Init, ProcessInv, KnownOf
<1>3. CopiesInv
  BY DEF Init, CopiesInv, New, Final
<1>4. SeenInv
  BY DEF Init, SeenInv
<1>5. AliveInv
  BY DEF Init, AliveInv, Live, Alive
<1>6. ResultsAreReturned
  BY DEF Init, ResultsAreReturned, Final
<1>. QED
  BY <1>1, <1>2, <1>3, <1>4, <1>5, <1>6 DEF Inv

-----------------------------------------------------------------------------
(* The launching command.                                                  *)

LEMMA SaveInitialStep ==
    ASSUME Inv, NEW r \in Run, SaveInitial(r)
    PROVE  Inv'
<1>. USE DEF SaveInitial, Save, ParentGoes, looking
<1>1. \A i \in RunId, status \in Final : WasReturned(i, status) => WasReturned(i, status)'
  <2>1. \A q \in Run : result[q] # "none" => result'[q] = result[q]
    BY DEF Inv, TypeOK, ProcessInv, KnownOf
  <2>2. \A q \in Run : parentCopy[q].status = "failed" => parentCopy'[q].status = "failed"
    BY DEF Inv, TypeOK, CopiesInv
  <2>. QED
    BY <2>1, <2>2, WasReturnedStays
<1>2. TypeOK'
  BY DEF Inv, TypeOK, Metadata, Final, Exited, Alive
<1>3. ProcessInv'
  <2>. SUFFICES ASSUME NEW q \in Run PROVE KnownOf(q)'
    BY DEF ProcessInv
  <2>1. \A i \in RunId : registry[i] # Absent => registry'[i] # Absent
    BY AbsentAssumption DEF Inv, TypeOK
  <2>2. CASE q = r
    BY <2>1, <2>2, AbsentAssumption DEF Inv, TypeOK, ProcessInv, KnownOf, Final, Alive
  <2>3. CASE q # r
    BY <2>1, <2>3 DEF Inv, TypeOK, ProcessInv, KnownOf
  <2>. QED
    BY <2>2, <2>3
<1>4. CopiesInv'
  BY <1>1 DEF Inv, TypeOK, CopiesInv
<1>5. SeenInv'
  BY <1>1 DEF Inv, TypeOK, SeenInv
<1>6. AliveInv'
  <2>1. SUFFICES ASSUME NEW q \in Run, Live(q)' PROVE NotEnded(q)'
    BY DEF AliveInv
  <2>2. OwnId(q)
    BY <2>1, OwnIdStays DEF Inv, TypeOK, Live
  <2>3. q = r \/ runId[q] # runId[r]
    BY <2>1 DEF Live, OwnId, Inv, TypeOK, ProcessInv, KnownOf, Alive
  <2>. QED
    BY <2>1, <2>2, <2>3 DEF Inv, TypeOK, AliveInv, Live, NotEnded, Alive, CopiesInv, ProcessInv, KnownOf
<1>7. ResultsAreReturned'
  <2>1. \A i \in RunId : registry'[i] = registry[i] \/ (i = runId[r] /\ registry'[i] = parentCopy[r])
    BY DEF Inv, TypeOK
  <2>2. \A i \in RunId : registry'[i] # Absent /\ registry'[i].status \in Final
                              => WasReturned(i, registry'[i].status)
    BY <2>1 DEF Inv, ResultsAreReturned, CopiesInv
  <2>. QED
    BY <1>1, <2>2 DEF Inv, ResultsAreReturned
<1>. QED
  BY <1>2, <1>3, <1>4, <1>5, <1>6, <1>7 DEF Inv

LEMMA LaunchStep ==
    ASSUME Inv, NEW r \in Run, Launch(r)
    PROVE  Inv'
<1>. USE DEF Launch, ParentGoes, looking
<1>1. \A i \in RunId, status \in Final : WasReturned(i, status) => WasReturned(i, status)'
  <2>1. \A q \in Run : result[q] # "none" => result'[q] = result[q]
    BY DEF Inv, TypeOK, ProcessInv, KnownOf
  <2>2. \A q \in Run : parentCopy[q].status = "failed" => parentCopy'[q].status = "failed"
    BY DEF Inv, TypeOK, CopiesInv
  <2>. QED
    BY <2>1, <2>2, WasReturnedStays
<1>2. TypeOK'
  BY DEF Inv, TypeOK, Metadata, Final, Exited, Alive
<1>3. ProcessInv'
  <2>. SUFFICES ASSUME NEW q \in Run PROVE KnownOf(q)'
    BY DEF ProcessInv
  <2>1. \A i \in RunId : registry[i] # Absent => registry'[i] # Absent
    BY AbsentAssumption DEF Inv, TypeOK
  <2>2. CASE q = r
    BY <2>1, <2>2, AbsentAssumption DEF Inv, TypeOK, ProcessInv, KnownOf, Final, Alive
  <2>3. CASE q # r
    BY <2>1, <2>3 DEF Inv, TypeOK, ProcessInv, KnownOf
  <2>. QED
    BY <2>2, <2>3
<1>4. CopiesInv'
  BY <1>1 DEF Inv, TypeOK, CopiesInv
<1>5. SeenInv'
  BY <1>1 DEF Inv, TypeOK, SeenInv
<1>6. AliveInv'
  <2>1. SUFFICES ASSUME NEW q \in Run, Live(q)' PROVE NotEnded(q)'
    BY DEF AliveInv
  <2>2. OwnId(q)
    BY <2>1, OwnIdStays DEF Inv, TypeOK, Live
  <2>. QED
    BY <2>1, <2>2 DEF Inv, TypeOK, AliveInv, Live, NotEnded, Alive
<1>7. ResultsAreReturned'
  BY <1>1, ReturnedStay DEF Inv
<1>. QED
  BY <1>2, <1>3, <1>4, <1>5, <1>6, <1>7 DEF Inv

LEMMA LaunchFailsStep ==
    ASSUME Inv, NEW r \in Run, LaunchFails(r)
    PROVE  Inv'
<1>. USE DEF LaunchFails, ParentGoes, looking
<1>1. \A i \in RunId, status \in Final : WasReturned(i, status) => WasReturned(i, status)'
  <2>1. \A q \in Run : result[q] # "none" => result'[q] = result[q]
    BY DEF Inv, TypeOK, ProcessInv, KnownOf
  <2>2. \A q \in Run : parentCopy[q].status = "failed" => parentCopy'[q].status = "failed"
    BY DEF Inv, TypeOK, CopiesInv
  <2>. QED
    BY <2>1, <2>2, WasReturnedStays
<1>2. TypeOK'
  BY DEF Inv, TypeOK, Metadata, Final, Exited, Alive
<1>3. ProcessInv'
  <2>. SUFFICES ASSUME NEW q \in Run PROVE KnownOf(q)'
    BY DEF ProcessInv
  <2>1. \A i \in RunId : registry[i] # Absent => registry'[i] # Absent
    BY AbsentAssumption DEF Inv, TypeOK
  <2>2. CASE q = r
    BY <2>1, <2>2, AbsentAssumption DEF Inv, TypeOK, ProcessInv, KnownOf, Final, Alive
  <2>3. CASE q # r
    BY <2>1, <2>3 DEF Inv, TypeOK, ProcessInv, KnownOf
  <2>. QED
    BY <2>2, <2>3
<1>4. CopiesInv'
  <2>1. /\ parentCopy'[r].status = "failed" /\ parent'[r] = "refused" /\ runId[r] \in RunId
        /\ \A q \in Run : q # r => parentCopy'[q] = parentCopy[q] /\ parent'[q] = parent[q]
    BY DEF Inv, TypeOK, Metadata
  <2>2. WasReturned(runId[r], "failed")'
    BY <2>1 DEF WasReturned
  <2>3. \A q \in Run : q # r /\ parentCopy[q].status \in Final
                         => WasReturned(runId[q], parentCopy[q].status)'
    BY <1>1 DEF Inv, TypeOK, CopiesInv
  <2>4. child'[r] # "loaded"
    BY DEF Inv, ProcessInv, KnownOf
  <2>. QED
    BY <2>1, <2>2, <2>3, <2>4 DEF Inv, CopiesInv
<1>5. SeenInv'
  BY <1>1 DEF Inv, TypeOK, SeenInv
<1>6. AliveInv'
  <2>1. SUFFICES ASSUME NEW q \in Run, Live(q)' PROVE NotEnded(q)'
    BY DEF AliveInv
  <2>2. OwnId(q)
    BY <2>1, OwnIdStays DEF Inv, TypeOK, Live
  <2>3. q # r
    BY <2>1 DEF Live, Inv, TypeOK, ProcessInv, KnownOf, Alive
  <2>. QED
    BY <2>1, <2>2, <2>3 DEF Inv, TypeOK, AliveInv, Live, NotEnded
<1>7. ResultsAreReturned'
  BY <1>1, ReturnedStay DEF Inv
<1>. QED
  BY <1>2, <1>3, <1>4, <1>5, <1>6, <1>7 DEF Inv

LEMMA SaveRefusedStep ==
    ASSUME Inv, NEW r \in Run, SaveRefused(r)
    PROVE  Inv'
<1>. USE DEF SaveRefused, Save, ParentGoes, looking
<1>1. \A i \in RunId, status \in Final : WasReturned(i, status) => WasReturned(i, status)'
  <2>1. \A q \in Run : result[q] # "none" => result'[q] = result[q]
    BY DEF Inv, TypeOK, ProcessInv, KnownOf
  <2>2. \A q \in Run : parentCopy[q].status = "failed" => parentCopy'[q].status = "failed"
    BY DEF Inv, TypeOK, CopiesInv
  <2>. QED
    BY <2>1, <2>2, WasReturnedStays
<1>2. TypeOK'
  BY DEF Inv, TypeOK, Metadata, Final, Exited, Alive
<1>3. ProcessInv'
  <2>. SUFFICES ASSUME NEW q \in Run PROVE KnownOf(q)'
    BY DEF ProcessInv
  <2>1. \A i \in RunId : registry[i] # Absent => registry'[i] # Absent
    BY AbsentAssumption DEF Inv, TypeOK
  <2>2. CASE q = r
    BY <2>1, <2>2, AbsentAssumption DEF Inv, TypeOK, ProcessInv, KnownOf, Final, Alive
  <2>3. CASE q # r
    BY <2>1, <2>3 DEF Inv, TypeOK, ProcessInv, KnownOf
  <2>. QED
    BY <2>2, <2>3
<1>4. CopiesInv'
  BY <1>1 DEF Inv, TypeOK, CopiesInv
<1>5. SeenInv'
  BY <1>1 DEF Inv, TypeOK, SeenInv
<1>6. AliveInv'
  <2>1. SUFFICES ASSUME NEW q \in Run, Live(q)' PROVE NotEnded(q)'
    BY DEF AliveInv
  <2>2. OwnId(q)
    BY <2>1, OwnIdStays DEF Inv, TypeOK, Live
  <2>3. q = r \/ runId[q] # runId[r]
    BY <2>1 DEF Live, OwnId, Inv, TypeOK, ProcessInv, KnownOf, Alive
  <2>. QED
    BY <2>1, <2>2, <2>3 DEF Inv, TypeOK, AliveInv, Live, NotEnded, Alive, CopiesInv, ProcessInv, KnownOf
<1>7. ResultsAreReturned'
  <2>1. \A i \in RunId : registry'[i] = registry[i] \/ (i = runId[r] /\ registry'[i] = parentCopy[r])
    BY DEF Inv, TypeOK
  <2>2. \A i \in RunId : registry'[i] # Absent /\ registry'[i].status \in Final
                              => WasReturned(i, registry'[i].status)
    BY <2>1 DEF Inv, ResultsAreReturned, CopiesInv
  <2>. QED
    BY <1>1, <2>2 DEF Inv, ResultsAreReturned
<1>. QED
  BY <1>2, <1>3, <1>4, <1>5, <1>6, <1>7 DEF Inv

\* What a reload makes of the copy: the pid is set, the status is the old one or
\* that of run.json.
LEMMA ReloadedCopy ==
    ASSUME Inv, NEW r \in Run, parent[r] = "launched", Reload(r)
    PROVE  /\ parentCopy' \in [Run -> Metadata]
           /\ parentCopy'[r].pid = r
           /\ parentCopy'[r].status \in {parentCopy[r].status, registry[runId[r]].status}
           /\ \A q \in Run : q # r => parentCopy'[q] = parentCopy[q]
<1>1. /\ registry[runId[r]] \in Metadata /\ parentCopy[r] \in Metadata
      /\ parentCopy \in [Run -> Metadata]
  BY DEF Inv, TypeOK, ProcessInv, KnownOf
<1>2. ASSUME NEW m \in Metadata
      PROVE  /\ [m EXCEPT !.pid = r, !.run = r] \in Metadata
             /\ [m EXCEPT !.pid = r, !.run = r].pid = r
             /\ [m EXCEPT !.pid = r, !.run = r].status = m.status
  BY DEF Metadata
<1>3. ASSUME NEW m \in Metadata
      PROVE  /\ [m EXCEPT !.pid = r] \in Metadata
             /\ [m EXCEPT !.pid = r].pid = r
             /\ [m EXCEPT !.pid = r].status = m.status
  BY DEF Metadata
<1>4. PICK copy \in Metadata : /\ parentCopy' = [parentCopy EXCEPT ![r] = copy]
                              /\ copy.pid = r
                              /\ copy.status \in {parentCopy[r].status, registry[runId[r]].status}
  <2>1. CASE parentCopy' = [parentCopy EXCEPT ![r] = Reloaded(r)]
    BY <2>1, <1>1, <1>2 DEF Reloaded
  <2>2. CASE parentCopy' = [parentCopy EXCEPT ![r].pid = r]
    BY <2>2, <1>1, <1>3
  <2>. QED
    BY <2>1, <2>2 DEF Reload
<1>. QED
  BY <1>1, <1>4

LEMMA ReloadStep ==
    ASSUME Inv, NEW r \in Run, ReloadMetadata(r)
    PROVE  Inv'
<1>. USE DEF ReloadMetadata, ParentGoes, looking
<1>1. \A i \in RunId, status \in Final : WasReturned(i, status) => WasReturned(i, status)'
  <2>1. \A q \in Run : result[q] # "none" => result'[q] = result[q]
    OBVIOUS
  <2>2. \A q \in Run : parentCopy[q].status = "failed" => parentCopy'[q].status = "failed"
    BY ReloadedCopy DEF Inv, CopiesInv
  <2>. QED
    BY <2>1, <2>2, WasReturnedStays
<1>2. TypeOK'
  BY ReloadedCopy DEF Inv, TypeOK, Exited
<1>3. ProcessInv'
  <2>. SUFFICES ASSUME NEW q \in Run PROVE KnownOf(q)'
    BY DEF ProcessInv
  <2>1. \A i \in RunId : registry[i] # Absent => registry'[i] # Absent
    BY AbsentAssumption DEF Inv, TypeOK
  <2>2. CASE q = r
    BY <2>1, <2>2, AbsentAssumption DEF Inv, TypeOK, ProcessInv, KnownOf, Final, Alive
  <2>3. CASE q # r
    BY <2>1, <2>3 DEF Inv, TypeOK, ProcessInv, KnownOf
  <2>. QED
    BY <2>2, <2>3
<1>4. CopiesInv'
  <2>1. parentCopy'[r].status \in Final => WasReturned(runId[r], parentCopy'[r].status)
    <3>1. registry[runId[r]] # Absent /\ runId[r] \in RunId
      BY DEF Inv, TypeOK, ProcessInv, KnownOf
    <3>2. /\ registry[runId[r]].status \in Final => WasReturned(runId[r], registry[runId[r]].status)
          /\ parentCopy[r].status \in Final => WasReturned(runId[r], parentCopy[r].status)
      BY <3>1 DEF Inv, CopiesInv, ResultsAreReturned
    <3>. QED
      BY <3>2, ReloadedCopy
  <2>2. /\ parentCopy'[r].pid = r /\ parent'[r] = "reloaded" /\ runId[r] \in RunId
        /\ \A q \in Run : q # r => parentCopy'[q] = parentCopy[q] /\ parent'[q] = parent[q]
    BY ReloadedCopy DEF Inv, TypeOK
  <2>3. \A q \in Run : parentCopy'[q].status \in Final => WasReturned(runId[q], parentCopy[q].status)'
    <3>. SUFFICES ASSUME NEW q \in Run, parentCopy'[q].status \in Final
                  PROVE  WasReturned(runId[q], parentCopy[q].status)'
      OBVIOUS
    <3>1. PICK status \in Final : status = parentCopy'[q].status
      OBVIOUS
    <3>2. WasReturned(runId[q], status) /\ runId[q] \in RunId
      BY <2>1, <2>2, <3>1 DEF Inv, TypeOK, CopiesInv
    <3>3. WasReturned(runId[q], status)'
      BY <1>1, <3>2
    <3>. QED
      BY <3>1, <3>3
  <2>. QED
    BY <2>2, <2>3 DEF Inv, CopiesInv
<1>5. SeenInv'
  BY <1>1 DEF Inv, TypeOK, SeenInv
<1>6. AliveInv'
  <2>1. SUFFICES ASSUME NEW q \in Run, Live(q)' PROVE NotEnded(q)'
    BY DEF AliveInv
  <2>2. OwnId(q)
    BY <2>1, OwnIdStays DEF Inv, TypeOK, Live
  <2>3. parentCopy'[q].status \in {parentCopy[q].status, registry[runId[q]].status}
    BY ReloadedCopy
  <2>. QED
    BY <2>1, <2>2, <2>3 DEF Inv, TypeOK, AliveInv, Live, NotEnded, Alive
<1>7. ResultsAreReturned'
  BY <1>1, ReturnedStay DEF Inv
<1>. QED
  BY <1>2, <1>3, <1>4, <1>5, <1>6, <1>7 DEF Inv

LEMMA SavePidStep ==
    ASSUME Inv, NEW r \in Run, SavePid(r)
    PROVE  Inv'
<1>. USE DEF SavePid, Save, ParentGoes, looking
<1>1. \A i \in RunId, status \in Final : WasReturned(i, status) => WasReturned(i, status)'
  <2>1. \A q \in Run : result[q] # "none" => result'[q] = result[q]
    BY DEF Inv, TypeOK, ProcessInv, KnownOf
  <2>2. \A q \in Run : parentCopy[q].status = "failed" => parentCopy'[q].status = "failed"
    BY DEF Inv, TypeOK, CopiesInv
  <2>. QED
    BY <2>1, <2>2, WasReturnedStays
<1>2. TypeOK'
  BY DEF Inv, TypeOK, Metadata, Final, Exited, Alive
<1>3. ProcessInv'
  <2>. SUFFICES ASSUME NEW q \in Run PROVE KnownOf(q)'
    BY DEF ProcessInv
  <2>1. \A i \in RunId : registry[i] # Absent => registry'[i] # Absent
    BY AbsentAssumption DEF Inv, TypeOK
  <2>2. CASE q = r
    BY <2>1, <2>2, AbsentAssumption DEF Inv, TypeOK, ProcessInv, KnownOf, Final, Alive
  <2>3. CASE q # r
    BY <2>1, <2>3 DEF Inv, TypeOK, ProcessInv, KnownOf
  <2>. QED
    BY <2>2, <2>3
<1>4. CopiesInv'
  BY <1>1 DEF Inv, TypeOK, CopiesInv
<1>5. SeenInv'
  BY <1>1 DEF Inv, TypeOK, SeenInv
<1>6. AliveInv'
  <2>1. SUFFICES ASSUME NEW q \in Run, Live(q)' PROVE NotEnded(q)'
    BY DEF AliveInv
  <2>2. OwnId(q)
    BY <2>1, OwnIdStays DEF Inv, TypeOK, Live
  <2>3. q = r \/ runId[q] # runId[r]
    BY <2>1 DEF Live, OwnId, Inv, TypeOK, ProcessInv, KnownOf, Alive
  <2>. QED
    BY <2>1, <2>2, <2>3 DEF Inv, TypeOK, AliveInv, Live, NotEnded, Alive, CopiesInv, ProcessInv, KnownOf
<1>7. ResultsAreReturned'
  <2>1. \A i \in RunId : registry'[i] = registry[i] \/ (i = runId[r] /\ registry'[i] = parentCopy[r])
    BY DEF Inv, TypeOK
  <2>2. \A i \in RunId : registry'[i] # Absent /\ registry'[i].status \in Final
                              => WasReturned(i, registry'[i].status)
    BY <2>1 DEF Inv, ResultsAreReturned, CopiesInv
  <2>. QED
    BY <1>1, <2>2 DEF Inv, ResultsAreReturned
<1>. QED
  BY <1>2, <1>3, <1>4, <1>5, <1>6, <1>7 DEF Inv

LEMMA GiveUpStep ==
    ASSUME Inv, NEW r \in Run, GiveUp(r)
    PROVE  Inv'
<1>. USE DEF GiveUp, looking
<1>1. \A i \in RunId, status \in Final : WasReturned(i, status) => WasReturned(i, status)'
  <2>1. \A q \in Run : result[q] # "none" => result'[q] = result[q]
    BY DEF Inv, TypeOK, ProcessInv, KnownOf
  <2>2. \A q \in Run : parentCopy[q].status = "failed" => parentCopy'[q].status = "failed"
    BY DEF Inv, TypeOK, CopiesInv
  <2>. QED
    BY <2>1, <2>2, WasReturnedStays
<1>2. TypeOK'
  BY DEF Inv, TypeOK, Metadata, Final, Exited, Alive
<1>3. ProcessInv'
  <2>. SUFFICES ASSUME NEW q \in Run PROVE KnownOf(q)'
    BY DEF ProcessInv
  <2>1. \A i \in RunId : registry[i] # Absent => registry'[i] # Absent
    BY AbsentAssumption DEF Inv, TypeOK
  <2>2. CASE q = r
    BY <2>1, <2>2, AbsentAssumption DEF Inv, TypeOK, ProcessInv, KnownOf, Final, Alive
  <2>3. CASE q # r
    BY <2>1, <2>3 DEF Inv, TypeOK, ProcessInv, KnownOf
  <2>. QED
    BY <2>2, <2>3
<1>4. CopiesInv'
  BY <1>1 DEF Inv, TypeOK, CopiesInv
<1>5. SeenInv'
  BY <1>1 DEF Inv, TypeOK, SeenInv
<1>6. AliveInv'
  <2>1. SUFFICES ASSUME NEW q \in Run, Live(q)' PROVE NotEnded(q)'
    BY DEF AliveInv
  <2>2. OwnId(q)
    BY <2>1, OwnIdStays DEF Inv, TypeOK, Live
  <2>. QED
    BY <2>1, <2>2 DEF Inv, TypeOK, AliveInv, Live, NotEnded, Alive
<1>7. ResultsAreReturned'
  BY <1>1, ReturnedStay DEF Inv
<1>. QED
  BY <1>2, <1>3, <1>4, <1>5, <1>6, <1>7 DEF Inv

-----------------------------------------------------------------------------
(* The child process.                                                      *)

LEMMA ReturnStep ==
    ASSUME Inv, NEW r \in Run, NEW outcome \in Final, Return(r, outcome)
    PROVE  Inv'
<1>. USE DEF Return, ChildGoes, looking
<1>1. \A i \in RunId, status \in Final : WasReturned(i, status) => WasReturned(i, status)'
  <2>1. \A q \in Run : result[q] # "none" => result'[q] = result[q]
    BY DEF Inv, TypeOK, ProcessInv, KnownOf
  <2>2. \A q \in Run : parentCopy[q].status = "failed" => parentCopy'[q].status = "failed"
    BY DEF Inv, TypeOK, CopiesInv
  <2>. QED
    BY <2>1, <2>2, WasReturnedStays
<1>2. TypeOK'
  BY DEF Inv, TypeOK, Metadata, Final, Exited, Alive
<1>3. ProcessInv'
  <2>. SUFFICES ASSUME NEW q \in Run PROVE KnownOf(q)'
    BY DEF ProcessInv
  <2>1. \A i \in RunId : registry[i] # Absent => registry'[i] # Absent
    BY AbsentAssumption DEF Inv, TypeOK
  <2>2. CASE q = r
    BY <2>1, <2>2, AbsentAssumption DEF Inv, TypeOK, ProcessInv, KnownOf, Final, Alive
  <2>3. CASE q # r
    BY <2>1, <2>3 DEF Inv, TypeOK, ProcessInv, KnownOf
  <2>. QED
    BY <2>2, <2>3
<1>4. CopiesInv'
  BY <1>1 DEF Inv, TypeOK, CopiesInv
<1>5. SeenInv'
  BY <1>1 DEF Inv, TypeOK, SeenInv
<1>6. AliveInv'
  <2>1. SUFFICES ASSUME NEW q \in Run, Live(q)' PROVE NotEnded(q)'
    BY DEF AliveInv
  <2>2. OwnId(q)
    BY <2>1, OwnIdStays DEF Inv, TypeOK, Live
  <2>. QED
    BY <2>1, <2>2 DEF Inv, TypeOK, AliveInv, Live, NotEnded, Alive
<1>7. ResultsAreReturned'
  BY <1>1, ReturnedStay DEF Inv
<1>. QED
  BY <1>2, <1>3, <1>4, <1>5, <1>6, <1>7 DEF Inv

LEMMA FinalizeLoadStep ==
    ASSUME Inv, NEW r \in Run, FinalizeLoad(r)
    PROVE  Inv'
<1>. USE DEF FinalizeLoad, Finalized, ChildGoes, looking
<1>1. \A i \in RunId, status \in Final : WasReturned(i, status) => WasReturned(i, status)'
  <2>1. \A q \in Run : result[q] # "none" => result'[q] = result[q]
    BY DEF Inv, TypeOK, ProcessInv, KnownOf
  <2>2. \A q \in Run : parentCopy[q].status = "failed" => parentCopy'[q].status = "failed"
    BY DEF Inv, TypeOK, CopiesInv
  <2>. QED
    BY <2>1, <2>2, WasReturnedStays
<1>2. TypeOK'
  <2>1. registry[runId[r]] \in Metadata /\ result[r] \in Final
    BY DEF Inv, TypeOK, ProcessInv, KnownOf
  <2>2. [registry[runId[r]] EXCEPT !.status = result[r]] \in Metadata
    BY <2>1 DEF Metadata
  <2>. QED
    BY <2>2 DEF Inv, TypeOK, Alive
<1>3. ProcessInv'
  <2>. SUFFICES ASSUME NEW q \in Run PROVE KnownOf(q)'
    BY DEF ProcessInv
  <2>1. \A i \in RunId : registry[i] # Absent => registry'[i] # Absent
    BY AbsentAssumption DEF Inv, TypeOK
  <2>2. CASE q = r
    BY <2>1, <2>2, AbsentAssumption DEF Inv, TypeOK, ProcessInv, KnownOf, Final, Alive
  <2>3. CASE q # r
    BY <2>1, <2>3 DEF Inv, TypeOK, ProcessInv, KnownOf
  <2>. QED
    BY <2>2, <2>3
<1>4. CopiesInv'
  BY <1>1 DEF Inv, TypeOK, CopiesInv
<1>5. SeenInv'
  BY <1>1 DEF Inv, TypeOK, SeenInv
<1>6. AliveInv'
  <2>1. SUFFICES ASSUME NEW q \in Run, Live(q)' PROVE NotEnded(q)'
    BY DEF AliveInv
  <2>2. OwnId(q)
    BY <2>1, OwnIdStays DEF Inv, TypeOK, Live
  <2>. QED
    BY <2>1, <2>2 DEF Inv, TypeOK, AliveInv, Live, NotEnded, Alive
<1>7. ResultsAreReturned'
  BY <1>1, ReturnedStay DEF Inv
<1>. QED
  BY <1>2, <1>3, <1>4, <1>5, <1>6, <1>7 DEF Inv

LEMMA FinalizeSaveStep ==
    ASSUME Inv, NEW r \in Run, FinalizeSave(r)
    PROVE  Inv'
<1>. USE DEF FinalizeSave, Save, ChildGoes, looking
<1>1. \A i \in RunId, status \in Final : WasReturned(i, status) => WasReturned(i, status)'
  <2>1. \A q \in Run : result[q] # "none" => result'[q] = result[q]
    BY DEF Inv, TypeOK, ProcessInv, KnownOf
  <2>2. \A q \in Run : parentCopy[q].status = "failed" => parentCopy'[q].status = "failed"
    BY DEF Inv, TypeOK, CopiesInv
  <2>. QED
    BY <2>1, <2>2, WasReturnedStays
<1>2. TypeOK'
  BY DEF Inv, TypeOK, Metadata, Final, Exited, Alive
<1>3. ProcessInv'
  <2>. SUFFICES ASSUME NEW q \in Run PROVE KnownOf(q)'
    BY DEF ProcessInv
  <2>1. \A i \in RunId : registry[i] # Absent => registry'[i] # Absent
    BY AbsentAssumption DEF Inv, TypeOK
  <2>2. CASE q = r
    BY <2>1, <2>2, AbsentAssumption DEF Inv, TypeOK, ProcessInv, KnownOf, Final, Alive
  <2>3. CASE q # r
    BY <2>1, <2>3 DEF Inv, TypeOK, ProcessInv, KnownOf
  <2>. QED
    BY <2>2, <2>3
<1>4. CopiesInv'
  BY <1>1 DEF Inv, TypeOK, CopiesInv
<1>5. SeenInv'
  BY <1>1 DEF Inv, TypeOK, SeenInv
<1>6. AliveInv'
  <2>1. SUFFICES ASSUME NEW q \in Run, Live(q)' PROVE NotEnded(q)'
    BY DEF AliveInv
  <2>2. OwnId(q)
    BY <2>1, OwnIdStays DEF Inv, TypeOK, Live
  <2>3. q = r \/ runId[q] # runId[r]
    BY <2>1 DEF Live, OwnId, Inv, TypeOK, ProcessInv, KnownOf, Alive
  <2>. QED
    BY <2>1, <2>2, <2>3 DEF Inv, TypeOK, AliveInv, Live, NotEnded, Alive, CopiesInv, ProcessInv, KnownOf
<1>7. ResultsAreReturned'
  <2>1. \A i \in RunId : registry'[i] = registry[i] \/ (i = runId[r] /\ registry'[i] = childCopy[r])
    BY DEF Inv, TypeOK
  <2>2. \A i \in RunId : registry'[i] # Absent /\ registry'[i].status \in Final
                              => WasReturned(i, registry'[i].status)
    <3>1. childCopy[r].status = result[r] /\ WasReturned(runId[r], result[r])
      BY DEF Inv, CopiesInv, WasReturned
    <3>. QED
      BY <2>1, <3>1 DEF Inv, ResultsAreReturned
  <2>. QED
    BY <1>1, <2>2 DEF Inv, ResultsAreReturned
<1>. QED
  BY <1>2, <1>3, <1>4, <1>5, <1>6, <1>7 DEF Inv

LEMMA DieStep ==
    ASSUME Inv, NEW r \in Run, Die(r)
    PROVE  Inv'
<1>. USE DEF Die, looking
<1>1. \A i \in RunId, status \in Final : WasReturned(i, status) => WasReturned(i, status)'
  <2>1. \A q \in Run : result[q] # "none" => result'[q] = result[q]
    BY DEF Inv, TypeOK, ProcessInv, KnownOf
  <2>2. \A q \in Run : parentCopy[q].status = "failed" => parentCopy'[q].status = "failed"
    BY DEF Inv, TypeOK, CopiesInv
  <2>. QED
    BY <2>1, <2>2, WasReturnedStays
<1>2. TypeOK'
  BY DEF Inv, TypeOK, Metadata, Final, Exited, Alive
<1>3. ProcessInv'
  <2>. SUFFICES ASSUME NEW q \in Run PROVE KnownOf(q)'
    BY DEF ProcessInv
  <2>1. \A i \in RunId : registry[i] # Absent => registry'[i] # Absent
    BY AbsentAssumption DEF Inv, TypeOK
  <2>2. CASE q = r
    BY <2>1, <2>2, AbsentAssumption DEF Inv, TypeOK, ProcessInv, KnownOf, Final, Alive
  <2>3. CASE q # r
    BY <2>1, <2>3 DEF Inv, TypeOK, ProcessInv, KnownOf
  <2>. QED
    BY <2>2, <2>3
<1>4. CopiesInv'
  BY <1>1 DEF Inv, TypeOK, CopiesInv
<1>5. SeenInv'
  BY <1>1 DEF Inv, TypeOK, SeenInv
<1>6. AliveInv'
  <2>1. SUFFICES ASSUME NEW q \in Run, Live(q)' PROVE NotEnded(q)'
    BY DEF AliveInv
  <2>2. OwnId(q)
    BY <2>1, OwnIdStays DEF Inv, TypeOK, Live
  <2>. QED
    BY <2>1, <2>2 DEF Inv, TypeOK, AliveInv, Live, NotEnded, Alive
<1>7. ResultsAreReturned'
  BY <1>1, ReturnedStay DEF Inv
<1>. QED
  BY <1>2, <1>3, <1>4, <1>5, <1>6, <1>7 DEF Inv

-----------------------------------------------------------------------------
(* The commands that look.                                                 *)

LEMMA LookStep ==
    ASSUME Inv, NEW i \in RunId, Look(i)
    PROVE  Inv'
<1>. USE DEF Look
<1>1. \A j \in RunId, status \in Final : WasReturned(j, status) => WasReturned(j, status)'
  <2>1. \A q \in Run : result[q] # "none" => result'[q] = result[q]
    BY DEF Inv, TypeOK, ProcessInv, KnownOf
  <2>2. \A q \in Run : parentCopy[q].status = "failed" => parentCopy'[q].status = "failed"
    BY DEF Inv, TypeOK, CopiesInv
  <2>. QED
    BY <2>1, <2>2, WasReturnedStays
<1>2. TypeOK'
  BY DEF Inv, TypeOK, Metadata, Final, Exited, Alive
<1>3. ProcessInv'
  BY DEF Inv, TypeOK, ProcessInv, KnownOf, Final, Exited, Alive
<1>4. CopiesInv'
  BY <1>1 DEF Inv, TypeOK, CopiesInv
<1>5. SeenInv'
  <2>1. seen'.id = i /\ seen'.metadata = registry[i]
    OBVIOUS
  <2>2. registry[i].status \in Final => WasReturned(i, registry[i].status)
    BY DEF Inv, ResultsAreReturned
  <2>. QED
    BY <1>1, <2>1, <2>2 DEF SeenInv
<1>6. AliveInv'
  <2>1. SUFFICES ASSUME NEW q \in Run, Live(q)' PROVE NotEnded(q)'
    BY DEF AliveInv
  <2>2. OwnId(q)
    BY <2>1, OwnIdStays DEF Inv, TypeOK, Live
  <2>. QED
    BY <2>1, <2>2 DEF Inv, TypeOK, AliveInv, Live, NotEnded, Alive
<1>7. ResultsAreReturned'
  BY <1>1, ReturnedStay DEF Inv
<1>. QED
  BY <1>2, <1>3, <1>4, <1>5, <1>6, <1>7 DEF Inv

LEMMA ReportStep ==
    ASSUME Inv, Report
    PROVE  Inv'
<1>. USE DEF Report
<1>1. \A i \in RunId, status \in Final : WasReturned(i, status) => WasReturned(i, status)'
  <2>1. \A q \in Run : result[q] # "none" => result'[q] = result[q]
    BY DEF Inv, TypeOK, ProcessInv, KnownOf
  <2>2. \A q \in Run : parentCopy[q].status = "failed" => parentCopy'[q].status = "failed"
    BY DEF Inv, TypeOK, CopiesInv
  <2>. QED
    BY <2>1, <2>2, WasReturnedStays
<1>2. TypeOK'
  BY DEF Inv, TypeOK, Metadata, Final, Exited, Shown
<1>3. ProcessInv'
  BY DEF Inv, TypeOK, ProcessInv, KnownOf, Final, Exited, Alive
<1>4. CopiesInv'
  BY <1>1 DEF Inv, TypeOK, CopiesInv
<1>5. SeenInv'
  BY <1>1 DEF Inv, TypeOK, SeenInv
<1>6. AliveInv'
  <2>1. SUFFICES ASSUME NEW q \in Run, Live(q)' PROVE NotEnded(q)'
    BY DEF AliveInv
  <2>2. OwnId(q)
    BY <2>1, OwnIdStays DEF Inv, TypeOK, Live
  <2>. QED
    BY <2>1, <2>2 DEF Inv, TypeOK, AliveInv, Live, NotEnded, Alive
<1>7. ResultsAreReturned'
  <2>1. /\ seen.id \in RunId /\ seen.metadata \in Metadata
        /\ seen.metadata.status \in Final => WasReturned(seen.id, seen.metadata.status)
    BY DEF Inv, TypeOK, SeenInv
  <2>2. \A i \in RunId : i # seen.id => reported'[i] = reported[i]
    BY DEF Inv, TypeOK
  <2>3. reported'[seen.id] \in Final => reported'[seen.id] = seen.metadata.status
    BY <2>1 DEF Inv, TypeOK, Shown, Final
  <2>4. \A i \in RunId : reported'[i] \in Final => WasReturned(i, reported'[i])
    BY <2>1, <2>2, <2>3 DEF Inv, ResultsAreReturned
  <2>. QED
    BY <1>1, <2>4 DEF Inv, ResultsAreReturned
<1>. QED
  BY <1>2, <1>3, <1>4, <1>5, <1>6, <1>7 DEF Inv

LEMMA StutterStep ==
    ASSUME Inv, UNCHANGED vars
    PROVE  Inv'
<1>. USE DEF vars, looking
<1>1. \A i \in RunId, status \in Final : WasReturned(i, status) => WasReturned(i, status)'
  <2>1. \A q \in Run : result[q] # "none" => result'[q] = result[q]
    BY DEF Inv, TypeOK, ProcessInv, KnownOf
  <2>2. \A q \in Run : parentCopy[q].status = "failed" => parentCopy'[q].status = "failed"
    BY DEF Inv, TypeOK, CopiesInv
  <2>. QED
    BY <2>1, <2>2, WasReturnedStays
<1>2. TypeOK'
  BY DEF Inv, TypeOK, Metadata, Final, Exited, Alive
<1>3. ProcessInv'
  BY DEF Inv, TypeOK, ProcessInv, KnownOf, Final, Exited, Alive
<1>4. CopiesInv'
  BY <1>1 DEF Inv, TypeOK, CopiesInv
<1>5. SeenInv'
  BY <1>1 DEF Inv, TypeOK, SeenInv
<1>6. AliveInv'
  <2>1. SUFFICES ASSUME NEW q \in Run, Live(q)' PROVE NotEnded(q)'
    BY DEF AliveInv
  <2>2. OwnId(q)
    BY <2>1, OwnIdStays DEF Inv, TypeOK, Live
  <2>. QED
    BY <2>1, <2>2 DEF Inv, TypeOK, AliveInv, Live, NotEnded, Alive
<1>7. ResultsAreReturned'
  BY <1>1, ReturnedStay DEF Inv
<1>. QED
  BY <1>2, <1>3, <1>4, <1>5, <1>6, <1>7 DEF Inv

LEMMA NextInv == Inv /\ [Next]_vars => Inv'
<1>. SUFFICES ASSUME Inv, [Next]_vars PROVE Inv'
  OBVIOUS
<1>1. ASSUME NEW r \in Run, ParentStep(r) PROVE Inv'
  BY <1>1, SaveInitialStep, LaunchStep, LaunchFailsStep, SaveRefusedStep, ReloadStep,
     SavePidStep DEF ParentStep
<1>2. ASSUME NEW r \in Run, ChildStep(r) PROVE Inv'
  BY <1>2, ReturnStep, FinalizeLoadStep, FinalizeSaveStep DEF ChildStep
<1>3. ASSUME NEW r \in Run, GiveUp(r) \/ Die(r) PROVE Inv'
  BY <1>3, GiveUpStep, DieStep
<1>4. ASSUME NEW i \in RunId, Look(i) PROVE Inv'
  BY <1>4, LookStep
<1>5. CASE Report
  BY <1>5, ReportStep
<1>6. CASE UNCHANGED vars
  BY <1>6, StutterStep
<1>. QED
  BY <1>1, <1>2, <1>3, <1>4, <1>5, <1>6 DEF Next

-----------------------------------------------------------------------------
(* The theorems.                                                           *)

\* The invariant holds in every state of every behaviour.
THEOREM DetachedInvariant == Spec => []Inv
BY InitInv, NextInv, PTL DEF Spec

\* run.json never stores "stale": TypeOK of the registry.
THEOREM DetachedTypeOK == Spec => []TypeOK
<1>1. Inv => TypeOK
  BY DEF Inv
<1>. QED
  BY <1>1, DetachedInvariant, PTL

\* What is stored or reported as the end of a run is a result a child returned,
\* or a launch that failed.
THEOREM ReportsAreTrue == Spec => []ResultsAreReturned
<1>1. Inv => ResultsAreReturned
  BY DEF Inv
<1>. QED
  BY <1>1, DetachedInvariant, PTL

\* A started run that lives and has its id for itself is shown as running, with
\* its pid.
THEOREM LiveRunsAreVisible == Spec => []StartedRunIsVisible
<1>1. ASSUME Inv PROVE StartedRunIsVisible
  <2>. SUFFICES ASSUME NEW r \in Run, parent[r] = "started", child[r] \in Alive, OwnId(r)
                PROVE  /\ registry[runId[r]] # Absent
                       /\ registry[runId[r]].pid = r
                       /\ Shown(registry[runId[r]]) = "running"
    BY DEF StartedRunIsVisible
  <2>1. registry[runId[r]] # Absent
    BY <1>1 DEF Inv, ProcessInv, KnownOf
  <2>2. registry[runId[r]].status = "running" /\ registry[runId[r]].pid = r
    BY <1>1 DEF Inv, AliveInv, Live, NotEnded
  <2>. QED
    BY <2>1, <2>2 DEF Shown, PidAlive
<1>. QED
  BY <1>1, DetachedInvariant, PTL
=============================================================================
