--------------------------- MODULE Planner_proofs ---------------------------
(***************************************************************************)
(* Proofs about Planner, for every finite set of node ids, every bound on  *)
(* the length of depends_on and every dependency graph.                    *)
(***************************************************************************)
EXTENDS Planner, FiniteSetTheorems, TLAPS

USE NodeAssumption, MaxDepsAssumption

-----------------------------------------------------------------------------
(* Facts about one depends_on list.                                        *)

LEMMA DependsOnType ==
    ASSUME TypeOK, NEW n \in Node
    PROVE  /\ Len(dependsOn[n]) \in Nat
           /\ DOMAIN dependsOn[n] = 1..Len(dependsOn[n])
           /\ IsFiniteSet(DOMAIN dependsOn[n])
           /\ Cardinality(DOMAIN dependsOn[n]) = Len(dependsOn[n])
           /\ \A i \in DOMAIN dependsOn[n] : dependsOn[n][i] \in Node
<1>1. PICK m \in 0..MaxDeps : dependsOn[n] \in [1..m -> Node]
  BY DEF TypeOK, BoundedSeq, SeqOf
<1>2. m \in Nat /\ Len(dependsOn[n]) = m /\ DOMAIN dependsOn[n] = 1..m
  BY <1>1
<1>3. IsFiniteSet(1..m) /\ Cardinality(1..m) = m
  BY <1>2, FS_Interval
<1> QED
  BY <1>1, <1>2, <1>3

LEMMA OccurrencesType ==
    ASSUME TypeOK, NEW n \in Node, NEW d
    PROVE  /\ Occurrences(n, d) \in Nat
           /\ Occurrences(n, d) = 0 <=> ~DependencyOf(n, d)
<1> DEFINE At == {i \in DOMAIN dependsOn[n] : dependsOn[n][i] = d}
<1>1. IsFiniteSet(At)
  BY DependsOnType, FS_Subset
<1>2. Cardinality(At) \in Nat /\ (Cardinality(At) = 0 <=> At = {})
  BY <1>1, FS_CardinalityType, FS_EmptySet
<1> QED
  BY <1>2 DEF Occurrences, DependencyOf

LEMMA OpenDepsType ==
    ASSUME TypeOK, NEW n \in Node
    PROVE  /\ IsFiniteSet(OpenDeps(n))
           /\ Cardinality(OpenDeps(n)) \in Nat
           /\ Cardinality(OpenDeps(n)) = 0 <=> OpenDeps(n) = {}
<1>1. IsFiniteSet(OpenDeps(n))
  BY DependsOnType, FS_Subset DEF OpenDeps
<1> QED
  BY <1>1, FS_CardinalityType, FS_EmptySet

\* Releasing an id removes its occurrences, all of them, from the open ones.
LEMMA OpenDepsAfterRelease ==
    ASSUME TypeOK, NEW n \in Node, NEW id \in DOMAIN indegree
    PROVE  LET After == {i \in DOMAIN dependsOn[n] :
                            dependsOn[n][i] \in DOMAIN indegree \ {id}}
           IN  Cardinality(After)
                   = Cardinality(OpenDeps(n)) - Occurrences(n, id)
<1> DEFINE At == {i \in DOMAIN dependsOn[n] : dependsOn[n][i] = id}
<1> DEFINE After == {i \in DOMAIN dependsOn[n] :
                        dependsOn[n][i] \in DOMAIN indegree \ {id}}
<1>1. IsFiniteSet(At) /\ IsFiniteSet(After)
  BY DependsOnType, FS_Subset
<1>2. OpenDeps(n) = At \cup After /\ At \cap After = {}
  BY DEF OpenDeps
<1>3. Cardinality(OpenDeps(n)) = Cardinality(At) + Cardinality(After)
  <2>1. Cardinality(At \cup After)
            = Cardinality(At) + Cardinality(After) - Cardinality(At \cap After)
    BY <1>1, FS_Union
  <2>2. Cardinality(At \cap After) = 0
    BY <1>2, FS_EmptySet
  <2>3. Cardinality(At) \in Nat /\ Cardinality(After) \in Nat
    BY <1>1, FS_CardinalityType
  <2> QED
    BY <1>2, <2>1, <2>2, <2>3
<1>4. Cardinality(At) \in Nat /\ Cardinality(After) \in Nat
  BY <1>1, FS_CardinalityType
<1> QED
  BY <1>3, <1>4 DEF Occurrences

-----------------------------------------------------------------------------
(* The invariant holds initially and every action keeps it.                *)

LEMMA InitInv == Init => Inv
<1> SUFFICES ASSUME Init PROVE Inv
  OBVIOUS
<1>1. TypeOK
  <2>1. \A n \in Node : Len(dependsOn[n]) \in Nat
    <3> TAKE n \in Node
    <3>1. PICK m \in 0..MaxDeps : dependsOn[n] \in [1..m -> Node]
      BY DEF Init, BoundedSeq, SeqOf
    <3> QED
      BY <3>1
  <2> QED
    BY <2>1 DEF Init, TypeOK, InitialIndegree
<1>2. DOMAIN indegree = Node /\ Released = {} /\ Placed = {} /\ pending = {}
  BY DEF Init, InitialIndegree, Released, Placed
<1>3. Bookkeeping
  <2>1. \A n \in Node : OpenDeps(n) = DOMAIN dependsOn[n]
    BY <1>1, <1>2, DependsOnType DEF OpenDeps
  <2>2. \A n \in Node : indegree[n] = Cardinality(OpenDeps(n))
    BY <1>1, <2>1, DependsOnType DEF Init, InitialIndegree
  <2>3. visited = Cardinality(Placed)
    BY <1>2, FS_EmptySet DEF Init
  <2> QED
    BY <1>2, <2>2, <2>3 DEF Bookkeeping
<1>4. NoneHeldBack /\ LayersAreEarliest /\ LayersRespectDependencies
      /\ LayersAreDisjoint
  BY DEF Init, NoneHeldBack, LayersAreEarliest, LayersRespectDependencies,
         LayersAreDisjoint
<1>5. CyclesStayOut /\ VerdictIsExact
  BY <1>2 DEF Init, CyclesStayOut, VerdictIsExact
<1> QED
  BY <1>1, <1>3, <1>4, <1>5 DEF Inv

\* A ready id has no unreleased dependency, so all its dependencies have a
\* layer already.
LEMMA ReadyHasNoOpenDeps ==
    ASSUME Inv, pending = {}, NEW n \in ReadyIDs(indegree)
    PROVE  /\ n \in Node
           /\ n \notin Placed
           /\ OpenDeps(n) = {}
           /\ \A d \in Node : DependencyOf(n, d) => d \in Placed
<1>1. n \in Node /\ n \in DOMAIN indegree /\ indegree[n] = 0
  BY DEF ReadyIDs, Inv, TypeOK
<1>2. OpenDeps(n) = {}
  BY <1>1, OpenDepsType DEF Inv, Bookkeeping
<1>3. Placed = Released
  BY DEF Inv, Bookkeeping
<1>4. \A d \in Node : DependencyOf(n, d) => d \in Placed
  BY <1>2, <1>3 DEF OpenDeps, DependencyOf, Released
<1> QED
  BY <1>1, <1>2, <1>3, <1>4 DEF Released

LEMMA OpenLayerInv == Inv /\ OpenLayer => Inv'
<1> SUFFICES ASSUME Inv, OpenLayer PROVE Inv'
  OBVIOUS
<1> DEFINE R == ReadyIDs(indegree)
<1> DEFINE L == Len(layers)
<1>1. /\ layers' = Append(layers, R) /\ pending' = R /\ pending = {}
      /\ visited' = visited + Cardinality(R)
      /\ UNCHANGED <<dependsOn, indegree, plan>>
      /\ R \subseteq DOMAIN indegree /\ DOMAIN indegree \subseteq Node
      /\ plan = "planning"
  BY DEF OpenLayer, ReadyIDs, Inv, TypeOK
<1>2. /\ L \in Nat /\ DOMAIN layers = 1..L /\ DOMAIN layers' = 1..(L + 1)
      /\ Len(layers') = L + 1 /\ layers' # <<>>
      /\ layers'[L + 1] = R /\ \A k \in 1..L : layers'[k] = layers[k]
      /\ \A k \in 1..L : layers[k] \subseteq Node
  BY <1>1 DEF Inv, TypeOK
<1>3. /\ \A n, d : DependencyOf(n, d)' <=> DependencyOf(n, d)
      /\ \A n : OpenDeps(n)' = OpenDeps(n)
      /\ Released' = Released
      /\ \A S : SelfSupporting(S)' <=> SelfSupporting(S)
  BY <1>1 DEF DependencyOf, OpenDeps, Released, SelfSupporting
<1>4. Placed' = Placed \cup R /\ Placed = Released /\ Placed \cap R = {}
  <2>1. Placed' = Placed \cup R
    BY <1>2 DEF Placed
  <2> QED
    BY <1>1, <2>1, ReadyHasNoOpenDeps DEF Inv, Bookkeeping
<1>5. TypeOK'
  <2>1. IsFiniteSet(R) /\ Cardinality(R) \in Nat
    BY <1>1, FS_Subset, FS_CardinalityType
  <2>2. layers' \in Seq(SUBSET Node)
    BY <1>1 DEF Inv, TypeOK
  <2> QED
    BY <1>1, <2>1, <2>2 DEF Inv, TypeOK
<1>6. Bookkeeping'
  <2>1. \A n \in Released \cup R : OpenDeps(n) = {}
    BY <1>1, ReadyHasNoOpenDeps DEF Inv, Bookkeeping
  <2>2. Cardinality(Placed \cup R) = visited + Cardinality(R)
    <3>1. IsFiniteSet(R) /\ IsFiniteSet(Placed)
      BY <1>1, <1>4, FS_Subset DEF Released
    <3>2. /\ Cardinality(Placed \cap R) = 0
          /\ Cardinality(Placed) \in Nat /\ Cardinality(R) \in Nat
      BY <1>4, <3>1, FS_EmptySet, FS_CardinalityType
    <3>3. Cardinality(Placed \cup R)
            = Cardinality(Placed) + Cardinality(R) - Cardinality(Placed \cap R)
      BY <3>1, FS_Union
    <3> QED
      BY <3>2, <3>3 DEF Inv, Bookkeeping
  <2> QED
    BY <1>1, <1>3, <1>4, <2>1, <2>2 DEF Inv, Bookkeeping
<1>7. LayersRespectDependencies'
  <2> SUFFICES ASSUME NEW k \in 1..(L + 1), NEW n \in layers'[k], NEW d \in Node,
                      DependencyOf(n, d)
               PROVE  \E j \in 1..(k - 1) : d \in layers'[j]
    BY <1>2, <1>3 DEF LayersRespectDependencies
  <2>1. CASE k = L + 1
    <3>1. d \in Placed
      BY <1>1, <1>2, <2>1, ReadyHasNoOpenDeps
    <3> QED
      BY <1>2, <2>1, <3>1 DEF Placed
  <2>2. CASE k \in 1..L
    BY <1>2, <2>2 DEF Inv, LayersRespectDependencies
  <2> QED
    BY <1>2, <2>1, <2>2
<1>8. LayersAreDisjoint'
  <2>1. \A k \in 1..L : layers[k] \cap R = {}
    BY <1>2, <1>4 DEF Placed
  <2> QED
    BY <1>2, <2>1 DEF Inv, LayersAreDisjoint
<1>9. CyclesStayOut'
  <2> SUFFICES ASSUME NEW S \in SUBSET Node, SelfSupporting(S), NEW n \in S \cap R
               PROVE  FALSE
    BY <1>3, <1>4 DEF Inv, CyclesStayOut
  <2>1. PICK d \in S : DependencyOf(n, d)
    BY DEF SelfSupporting
  <2>2. d \in Placed
    BY <1>1, <2>1, ReadyHasNoOpenDeps
  <2> QED
    BY <2>1, <2>2 DEF Inv, CyclesStayOut
<1>10. NoneHeldBack'
  <2> SUFFICES ASSUME NEW n \in Node \ (Placed \cup R)
               PROVE  \E d \in Node : /\ DependencyOf(n, d)
                                      /\ d \in R \/ d \notin Placed \cup R
    BY <1>2, <1>3, <1>4 DEF NoneHeldBack
  <2>1. n \in DOMAIN indegree /\ indegree[n] # 0
    BY <1>4 DEF Released, ReadyIDs
  <2>2. OpenDeps(n) # {}
    BY <2>1, OpenDepsType DEF Inv, Bookkeeping
  <2>3. PICK i \in DOMAIN dependsOn[n] : dependsOn[n][i] \in DOMAIN indegree
    BY <2>2 DEF OpenDeps
  <2>4. dependsOn[n][i] \in Node
    BY <2>3, DependsOnType DEF Inv
  <2> WITNESS dependsOn[n][i] \in Node
  <2> QED
    BY <1>1, <1>4, <2>3 DEF DependencyOf, Released
<1>11. LayersAreEarliest'
  <2> SUFFICES ASSUME NEW k \in 1..(L + 1), NEW n \in layers'[k], k > 1
               PROVE  \E d \in layers'[k - 1] : DependencyOf(n, d)
    BY <1>2, <1>3 DEF LayersAreEarliest
  <2>1. CASE k = L + 1
    <3>1. n \in Node \ Placed /\ n \in R /\ layers # <<>>
      BY <1>1, <1>2, <2>1, ReadyHasNoOpenDeps
    <3>2. PICK d \in Node : DependencyOf(n, d) /\ (d \in layers[L] \/ d \notin Placed)
      BY <3>1 DEF Inv, NoneHeldBack
    <3>3. d \in Placed
      BY <1>1, <3>1, <3>2, ReadyHasNoOpenDeps
    <3> QED
      BY <1>2, <2>1, <3>2, <3>3
  <2>2. CASE k \in 1..L
    <3>1. /\ k - 1 \in 1..L /\ n \in layers[k]
          /\ layers'[k - 1] = layers[k - 1]
      BY <1>2, <2>2
    <3>2. \E d \in layers[k - 1] : DependencyOf(n, d)
      BY <1>2, <2>2, <3>1 DEF Inv, LayersAreEarliest
    <3> QED
      BY <3>1, <3>2
  <2> QED
    BY <1>2, <2>1, <2>2
<1>12. VerdictIsExact'
  BY <1>1 DEF VerdictIsExact
<1> QED
  BY <1>5, <1>6, <1>7, <1>8, <1>9, <1>10, <1>11, <1>12 DEF Inv

LEMMA ReleaseInv == ASSUME Inv, NEW id \in pending, Release(id) PROVE Inv'
<1>1. /\ indegree' = AfterRelease(id) /\ pending' = pending \ {id}
      /\ UNCHANGED <<dependsOn, layers, visited, plan>>
      /\ id \in DOMAIN indegree /\ DOMAIN indegree \subseteq Node /\ id \in Node
      /\ TypeOK
  BY DEF Release, Inv, TypeOK
<1>2. /\ \A n, d : DependencyOf(n, d)' <=> DependencyOf(n, d)
      /\ \A S : SelfSupporting(S)' <=> SelfSupporting(S)
      /\ Placed' = Placed
  BY <1>1 DEF DependencyOf, SelfSupporting, Placed
<1>3. \A n \in Released : Occurrences(n, id) = 0
  <2> TAKE n \in Released
  <2>1. n \in Node /\ OpenDeps(n) = {}
    BY DEF Inv, Bookkeeping, Released
  <2>2. ~DependencyOf(n, id)
    BY <1>1, <2>1 DEF OpenDeps, DependencyOf
  <2> QED
    BY <1>1, <2>1, <2>2, OccurrencesType
<1>4. /\ DOMAIN indegree' = DOMAIN indegree \ {id}
      /\ \A n \in DOMAIN indegree \ {id} :
            indegree'[n] = indegree[n] - Occurrences(n, id)
  <2>1. \A n \in Node : Occurrences(n, id) > 0 => n \in DOMAIN indegree
    BY <1>1, <1>3, OccurrencesType DEF Released
  <2> QED
    BY <1>1, <2>1 DEF AfterRelease
<1>5. Released' = Released \cup {id}
  BY <1>1, <1>4 DEF Released
<1>6. \A n \in Node : OpenDeps(n)' = {i \in DOMAIN dependsOn[n] :
                                  dependsOn[n][i] \in DOMAIN indegree \ {id}}
  BY <1>1, <1>4 DEF OpenDeps
<1>7. \A n \in DOMAIN indegree' : indegree'[n] = Cardinality(OpenDeps(n)')
  <2> TAKE n \in DOMAIN indegree'
  <2>1. n \in Node /\ n \in DOMAIN indegree \ {id}
    BY <1>1, <1>4
  <2>2. Cardinality(OpenDeps(n)') = Cardinality(OpenDeps(n)) - Occurrences(n, id)
    BY <1>1, <1>6, <2>1, OpenDepsAfterRelease
  <2> QED
    BY <1>4, <2>1, <2>2 DEF Inv, Bookkeeping
<1>8. TypeOK'
  <2>1. \A n \in DOMAIN indegree' : indegree'[n] \in Nat
    <3> TAKE n \in DOMAIN indegree'
    <3>1. n \in Node /\ IsFiniteSet(OpenDeps(n)')
      <4>1. n \in Node
        BY <1>1, <1>4
      <4>2. OpenDeps(n)' \subseteq DOMAIN dependsOn[n]
        BY <1>6, <4>1
      <4> QED
        BY <1>1, <4>1, <4>2, DependsOnType, FS_Subset
    <3> QED
      BY <1>7, <3>1, FS_CardinalityType
  <2>2. pending' \subseteq DOMAIN indegree'
    BY <1>1, <1>4 DEF TypeOK
  <2> QED
    BY <1>1, <1>4, <2>1, <2>2 DEF TypeOK
<1>9. Bookkeeping'
  <2>1. \A n \in Released' \cup pending' : OpenDeps(n)' = {}
    <3> TAKE n \in Released' \cup pending'
    <3>1. n \in Released \cup pending /\ n \in Node
      BY <1>1, <1>5 DEF Released, TypeOK
    <3>2. OpenDeps(n) = {}
      BY <3>1 DEF Inv, Bookkeeping
    <3> QED
      BY <1>6, <3>1, <3>2 DEF OpenDeps
  <2>2. Placed' = Released' \cup pending'
    BY <1>1, <1>2, <1>5 DEF Inv, Bookkeeping
  <2>3. visited' = Cardinality(Placed')
    BY <1>1, <1>2 DEF Inv, Bookkeeping
  <2> QED
    BY <1>7, <2>1, <2>2, <2>3 DEF Bookkeeping
<1>10. /\ LayersRespectDependencies' /\ LayersAreDisjoint'
       /\ CyclesStayOut' /\ NoneHeldBack' /\ LayersAreEarliest'
  BY <1>1, <1>2 DEF Inv, LayersRespectDependencies, LayersAreDisjoint,
                    CyclesStayOut, NoneHeldBack, LayersAreEarliest
<1>11. VerdictIsExact'
  BY <1>1, <1>2 DEF Inv, VerdictIsExact, HasCycle
<1> QED
  BY <1>8, <1>9, <1>10, <1>11 DEF Inv

LEMMA FinishInv == Inv /\ Finish => Inv'
<1> SUFFICES ASSUME Inv, Finish PROVE Inv'
  OBVIOUS
<1>1. /\ UNCHANGED <<dependsOn, indegree, layers, pending, visited>>
      /\ pending = {} /\ ReadyIDs(indegree) = {}
      /\ plan' = IF visited # Cardinality(Node) THEN "cycle" ELSE "layered"
      /\ DOMAIN indegree \subseteq Node /\ TypeOK
  BY DEF Finish, Inv, TypeOK
<1>2. /\ \A n, d : DependencyOf(n, d)' <=> DependencyOf(n, d)
      /\ \A n : OpenDeps(n)' = OpenDeps(n)
      /\ \A S : SelfSupporting(S)' <=> SelfSupporting(S)
      /\ Placed' = Placed /\ Released' = Released /\ Placed = Released
  BY <1>1 DEF DependencyOf, OpenDeps, SelfSupporting, Placed, Released, Inv, Bookkeeping
<1>3. TypeOK' /\ Bookkeeping'
  BY <1>1, <1>2 DEF Inv, TypeOK, Bookkeeping
<1>4. /\ LayersRespectDependencies' /\ LayersAreDisjoint'
      /\ CyclesStayOut' /\ NoneHeldBack' /\ LayersAreEarliest'
  BY <1>1, <1>2 DEF Inv, LayersRespectDependencies, LayersAreDisjoint,
                    CyclesStayOut, NoneHeldBack, LayersAreEarliest
<1>5. ASSUME visited # Cardinality(Node) PROVE HasCycle
  <2>1. DOMAIN indegree # {}
    BY <1>2, <1>5 DEF Released, Inv, Bookkeeping
  <2>2. \A n \in DOMAIN indegree : \E d \in DOMAIN indegree : DependencyOf(n, d)
    <3> TAKE n \in DOMAIN indegree
    <3>1. n \in Node /\ indegree[n] # 0
      BY <1>1 DEF ReadyIDs
    <3>2. OpenDeps(n) # {}
      BY <1>1, <3>1, OpenDepsType DEF Inv, Bookkeeping
    <3> QED
      BY <3>2 DEF OpenDeps, DependencyOf
  <2>3. SelfSupporting(DOMAIN indegree)
    BY <2>1, <2>2 DEF SelfSupporting
  <2> QED
    BY <1>1, <2>3 DEF HasCycle
<1>6. ASSUME visited = Cardinality(Node) PROVE Placed = Node /\ ~HasCycle
  <2>1. Placed \subseteq Node /\ IsFiniteSet(Placed)
    BY <1>2, FS_Subset DEF Released
  <2>2. Placed = Node
    BY <1>6, <2>1, FS_Subset DEF Inv, Bookkeeping
  <2>3. ASSUME NEW S \in SUBSET Node, SelfSupporting(S) PROVE FALSE
    BY <2>2, <2>3 DEF Inv, CyclesStayOut, SelfSupporting
  <2> QED
    BY <2>2, <2>3 DEF HasCycle
<1>7. VerdictIsExact'
  BY <1>1, <1>2, <1>5, <1>6 DEF VerdictIsExact, HasCycle
<1> QED
  BY <1>3, <1>4, <1>7 DEF Inv

-----------------------------------------------------------------------------

\* PlanLayers is right for every workflow: the layers respect depends_on and
\* do not overlap, no node is held back, and the verdict is exact. The
\* inductive invariant adds what the counters mean.
THEOREM PlannerInvariant == Spec => []Inv
<1>1. Inv /\ [Next]_vars => Inv'
  <2> SUFFICES ASSUME Inv, [Next]_vars PROVE Inv'
    OBVIOUS
  <2>1. CASE OpenLayer
    BY <2>1, OpenLayerInv
  <2>2. CASE \E id \in pending : Release(id)
    BY <2>2, ReleaseInv
  <2>3. CASE Finish
    BY <2>3, FinishInv
  <2>4. CASE UNCHANGED vars
    <3>1. /\ \A n, d : DependencyOf(n, d)' <=> DependencyOf(n, d)
          /\ \A n : OpenDeps(n)' = OpenDeps(n)
          /\ \A S : SelfSupporting(S)' <=> SelfSupporting(S)
          /\ Placed' = Placed /\ Released' = Released
      BY <2>4 DEF vars, DependencyOf, OpenDeps, SelfSupporting, Placed, Released
    <3> QED
      BY <2>4, <3>1 DEF vars, Inv, TypeOK, Bookkeeping, LayersRespectDependencies,
             LayersAreDisjoint, CyclesStayOut, NoneHeldBack, LayersAreEarliest,
             VerdictIsExact, HasCycle
  <2> QED
    BY <2>1, <2>2, <2>3, <2>4 DEF Next
<1> QED
  BY InitInv, <1>1, PTL DEF Spec

\* A node's dependencies are all in strictly earlier layers: what runLayer
\* relies on when it starts a layer's nodes together.
THEOREM PlanRespectsDependencies == Spec => []LayersRespectDependencies
<1>1. Inv => LayersRespectDependencies
  BY DEF Inv
<1> QED
  BY PlannerInvariant, <1>1, PTL

\* "cycle detected" is reported for exactly the workflows that have a cycle.
THEOREM PlanVerdictIsExact == Spec => []VerdictIsExact
<1>1. Inv => VerdictIsExact
  BY DEF Inv
<1> QED
  BY PlannerInvariant, <1>1, PTL

\* No node is scheduled twice, and none waits for longer than its dependencies
\* require.
THEOREM PlanIsTight == Spec => [](LayersAreDisjoint /\ LayersAreEarliest)
<1>1. Inv => LayersAreDisjoint /\ LayersAreEarliest
  BY DEF Inv
<1> QED
  BY PlannerInvariant, <1>1, PTL
=============================================================================
