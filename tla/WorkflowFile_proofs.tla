------------------------- MODULE WorkflowFile_proofs -------------------------
(***************************************************************************)
(* Proofs about module WorkflowFile, for any ids, any files and any width  *)
(* of a duration: the layers PlanLayers builds, what a file says as a      *)
(* whole, and the verdict on it.                                           *)
(***************************************************************************)
EXTENDS WorkflowFile, FiniteSetTheorems, WellFoundedInduction, TLAPS

Count == Cardinality(Id)

LEMMA CountIsNatural == Count \in Nat /\ IsFiniteSet(Id) /\ Id = 1..Count
  BY IdAssumption, FS_CardinalityType DEF Count

\* What an induction over numbers rests on.
LEMMA LeastNumber ==
    ASSUME NEW S \in SUBSET Nat, S # {}
    PROVE  \E n \in S : \A m \in S : n <= m
<1> DEFINE R == {p \in Nat \X Nat : p[1] < p[2]}
<1>1. IsWellFoundedOn(R, Nat)
  BY NatLessThanWellFounded, Zenon DEF OpToRel
<1> HIDE DEF R
<1>2. PICK n \in S : \A m \in S : ~(<<m, n>> \in R)
  BY <1>1, WFMin, Zenon
<1> USE DEF R
<1>3. \A m \in S : ~(m < n)
  BY <1>2
<1> QED
  BY <1>3

\* A set of numbers that holds 0 and with each number the next holds them all.
LEMMA NumbersUpTo ==
    ASSUME NEW c \in Nat, NEW S, 0 \in S, \A k \in 1..c : k - 1 \in S => k \in S
    PROVE  0..c \subseteq S
<1> DEFINE Bad == (0..c) \ S
<1>1. SUFFICES ASSUME Bad # {} PROVE FALSE
  OBVIOUS
<1>2. PICK n \in Bad : \A m \in Bad : n <= m
  <2>1. Bad \in SUBSET Nat
    OBVIOUS
  <2> HIDE DEF Bad
  <2> QED
    BY <1>1, <2>1, LeastNumber
<1>3. n \in 1..c /\ n - 1 \in 0..c /\ n - 1 \notin Bad
  BY <1>2
<1>4. n - 1 \in S
  BY <1>3
<1> QED
  BY <1>2, <1>3, <1>4

-----------------------------------------------------------------------------
(* Layers.                                                                 *)

\* The nodes whose dependencies are all in s.
Ready(s) == {n \in DOMAIN nodes : nodes[n].dependsOn \subseteq s}

IsLayers(f, c) == \A k \in 0..c : f[k] = IF k = 0 THEN {} ELSE Ready(f[k - 1])

LEMMA LayersExist == ASSUME NEW c \in Nat PROVE \E f : IsLayers(f, c)
<1> DEFINE S == {k \in 0..c : \E f : IsLayers(f, k)}
<1>1. 0 \in S
  <2>1. IsLayers([k \in 0..0 |-> {}], 0)
    BY DEF IsLayers
  <2> QED
    BY <2>1
<1>2. ASSUME NEW m \in 1..c, m - 1 \in S PROVE m \in S
  <2>1. PICK f : IsLayers(f, m - 1)
    BY <1>2
  <2> DEFINE g == [k \in 0..m |-> IF k = m THEN Ready(f[m - 1]) ELSE f[k]]
  <2>2. ASSUME NEW k \in 0..m PROVE g[k] = IF k = 0 THEN {} ELSE Ready(g[k - 1])
    <3>1. CASE k = m
      <4>1. g[k] = Ready(f[m - 1]) /\ g[k - 1] = f[m - 1] /\ k # 0
        BY <3>1
      <4> QED
        BY <3>1, <4>1
    <3>2. CASE k # m
      <4>1. k \in 0..(m - 1)
        BY <3>2
      <4>2. f[k] = IF k = 0 THEN {} ELSE Ready(f[k - 1])
        BY <2>1, <4>1 DEF IsLayers
      <4>3. g[k] = f[k] /\ (k # 0 => g[k - 1] = f[k - 1])
        BY <3>2
      <4> HIDE DEF g
      <4> QED
        BY <4>2, <4>3
    <3> QED
      BY <3>1, <3>2
  <2> HIDE DEF g
  <2>3. IsLayers(g, m)
    BY <2>2 DEF IsLayers
  <2> QED
    BY <2>3
<1> HIDE DEF S
<1>3. 0..c \subseteq S
  BY <1>1, <1>2, NumbersUpTo
<1> QED
  BY <1>3 DEF S

\* LayersUpTo is what its definition says.
LEMMA LayersEquation == IsLayers(LayersUpTo, Count)
<1>1. PICK f : IsLayers(f, Count)
  BY LayersExist, CountIsNatural
<1> DEFINE h == [k \in 0..Count |-> f[k]]
<1>2. h = [k \in 0..Count |-> IF k = 0 THEN {}
             ELSE {n \in DOMAIN nodes : nodes[n].dependsOn \subseteq h[k - 1]}]
  <2>1. ASSUME NEW k \in 0..Count
        PROVE  f[k] = IF k = 0 THEN {}
                      ELSE {n \in DOMAIN nodes : nodes[n].dependsOn \subseteq h[k - 1]}
    <3>1. k # 0 => h[k - 1] = f[k - 1]
      BY CountIsNatural
    <3>2. f[k] = IF k = 0 THEN {}
                 ELSE {n \in DOMAIN nodes : nodes[n].dependsOn \subseteq f[k - 1]}
      BY <1>1 DEF IsLayers, Ready
    <3> HIDE DEF h
    <3> QED
      BY <3>1, <3>2
  <2>2. h = [k \in 0..Count |-> f[k]]
    OBVIOUS
  <2> HIDE DEF h
  <2> QED
    BY <2>1, <2>2
<1>3. LayersUpTo = [k \in 0..Count |-> IF k = 0 THEN {}
             ELSE {n \in DOMAIN nodes : nodes[n].dependsOn \subseteq LayersUpTo[k - 1]}]
  BY <1>2, Zenon DEF LayersUpTo, Count
<1> QED
  BY <1>3, CountIsNatural, Zenon DEF IsLayers, Ready

\* A layer is the nodes whose dependencies are in those before it.
LEMMA NextLayer ==
    /\ LayersUpTo[0] = {}
    /\ \A k \in 1..Count : LayersUpTo[k] = Ready(LayersUpTo[k - 1])
<1>1. 0 \in 0..Count /\ \A k \in 1..Count : k \in 0..Count /\ k # 0
  BY CountIsNatural
<1> QED
  BY <1>1, LayersEquation DEF IsLayers

LEMMA LayersAreNodes == \A k \in 0..Count : LayersUpTo[k] \subseteq DOMAIN nodes
<1> SUFFICES ASSUME NEW k \in 0..Count PROVE LayersUpTo[k] \subseteq DOMAIN nodes
  OBVIOUS
<1>1. CASE k = 0
  BY <1>1, NextLayer
<1>2. CASE k # 0
  <2>1. k \in 1..Count
    BY <1>2, CountIsNatural
  <2> QED
    BY <2>1, NextLayer DEF Ready
<1> QED
  BY <1>1, <1>2

LEMMA LayersGrowByOne == \A k \in 1..Count : LayersUpTo[k - 1] \subseteq LayersUpTo[k]
<1> DEFINE S == {k \in 0..Count : k # 0 => LayersUpTo[k - 1] \subseteq LayersUpTo[k]}
<1>1. 0 \in S
  BY CountIsNatural
<1>2. ASSUME NEW k \in 1..Count, k - 1 \in S PROVE k \in S
  <2>1. CASE k = 1
    <3>1. LayersUpTo[k - 1] = {}
      BY <2>1, NextLayer
    <3> QED
      BY <3>1, CountIsNatural
  <2>2. CASE k # 1
    <3>1. k - 1 \in 1..Count /\ k \in 0..Count
      BY <2>2, CountIsNatural
    <3>2. LayersUpTo[(k - 1) - 1] \subseteq LayersUpTo[k - 1]
      BY <1>2, <3>1
    <3>3. /\ LayersUpTo[k] = Ready(LayersUpTo[k - 1])
          /\ LayersUpTo[k - 1] = Ready(LayersUpTo[(k - 1) - 1])
      BY <3>1, NextLayer
    <3>4. Ready(LayersUpTo[(k - 1) - 1]) \subseteq Ready(LayersUpTo[k - 1])
      BY <3>2 DEF Ready
    <3> QED
      BY <3>1, <3>3, <3>4
  <2> QED
    BY <2>1, <2>2
<1> HIDE DEF S
<1>3. 0..Count \subseteq S
  BY <1>1, <1>2, NumbersUpTo, CountIsNatural
<1> QED
  BY <1>3, CountIsNatural DEF S

LEMMA LayersGrow ==
    ASSUME NEW j \in 0..Count, NEW k \in 0..Count, j <= k
    PROVE  LayersUpTo[j] \subseteq LayersUpTo[k]
<1> DEFINE S == {i \in 0..Count : j <= i => LayersUpTo[j] \subseteq LayersUpTo[i]}
<1>1. 0 \in S
  <2>1. j <= 0 => j = 0
    BY CountIsNatural
  <2> QED
    BY <2>1, CountIsNatural
<1>2. ASSUME NEW i \in 1..Count, i - 1 \in S PROVE i \in S
  <2>1. i \in 0..Count /\ (j <= i => j = i \/ j <= i - 1)
    BY CountIsNatural
  <2>2. LayersUpTo[i - 1] \subseteq LayersUpTo[i]
    BY LayersGrowByOne
  <2> QED
    BY <1>2, <2>1, <2>2
<1> HIDE DEF S
<1>3. 0..Count \subseteq S
  BY <1>1, <1>2, NumbersUpTo, CountIsNatural
<1> QED
  BY <1>3 DEF S

\* The first layer that meets s, if one of them does.
LEMMA FirstMeeting ==
    ASSUME NEW s, LayersUpTo[Count] \cap s # {}
    PROVE  \E k \in 1..Count : LayersUpTo[k] \cap s # {} /\ LayersUpTo[k - 1] \cap s = {}
<1> DEFINE S == {k \in 0..Count : LayersUpTo[k] \cap s # {}}
<1>1. Count \in S /\ S \in SUBSET Nat
  BY CountIsNatural
<1> HIDE DEF S
<1>2. PICK k \in S : \A m \in S : k <= m
  BY <1>1, LeastNumber
<1> USE DEF S
<1>3. k \in 1..Count
  <2>1. k # 0
    BY <1>2, NextLayer
  <2> QED
    BY <2>1, CountIsNatural
<1>4. k - 1 \in 0..Count /\ k - 1 \notin S
  BY <1>2, <1>3, CountIsNatural
<1> QED
  BY <1>2, <1>3, <1>4

\* A plan that leaves no node out is one of a graph without cycles ...
LEMMA PlannedHasNoCycle == ASSUME ~Cyclic PROVE NoCycle
<1> SUFFICES ASSUME NEW s \in SUBSET DOMAIN nodes, s # {}
             PROVE  \E n \in s : nodes[n].dependsOn \cap s = {}
  BY DEF NoCycle
<1>1. LayersUpTo[Count] \cap s # {}
  BY DEF Cyclic, Count
<1>2. PICK k \in 1..Count : LayersUpTo[k] \cap s # {} /\ LayersUpTo[k - 1] \cap s = {}
  BY <1>1, FirstMeeting
<1>3. PICK n : n \in LayersUpTo[k] /\ n \in s
  BY <1>2
<1>4. nodes[n].dependsOn \subseteq LayersUpTo[k - 1]
  BY <1>3, NextLayer DEF Ready
<1> QED
  BY <1>2, <1>3, <1>4

\* ... and conversely: each layer takes in one node at least.
LEMMA NoCycleIsPlanned ==
    ASSUME NoCycle, DOMAIN nodes \subseteq Id,
           \A n \in DOMAIN nodes : nodes[n].dependsOn \subseteq DOMAIN nodes
    PROVE  ~Cyclic
<1> DEFINE L(k) == LayersUpTo[k]
           S == {k \in 0..Count : L(k) = DOMAIN nodes \/ Cardinality(L(k)) >= k}
<1>1. ASSUME NEW k \in 0..Count
      PROVE  L(k) \subseteq DOMAIN nodes /\ IsFiniteSet(L(k)) /\ Cardinality(L(k)) \in Nat
  <2>1. L(k) \subseteq DOMAIN nodes
    BY LayersAreNodes
  <2>2. L(k) \in SUBSET Id
    BY <2>1
  <2> QED
    BY <2>1, <2>2, CountIsNatural, FS_Subset, FS_CardinalityType
<1>2. 0 \in S
  <2>1. 0 \in 0..Count
    BY CountIsNatural
  <2> QED
    BY <1>1, <2>1
<1>3. ASSUME NEW k \in 1..Count, k - 1 \in S PROVE k \in S
  <2>1. k \in 0..Count /\ k - 1 \in 0..Count
    BY CountIsNatural
  <2>2. L(k - 1) \subseteq L(k)
    BY LayersGrowByOne
  <2>3. CASE L(k - 1) = DOMAIN nodes
    BY <1>1, <2>1, <2>2, <2>3
  <2>4. CASE L(k - 1) # DOMAIN nodes
    <3> DEFINE s == DOMAIN nodes \ L(k - 1)
    <3>1. s # {} /\ s \in SUBSET DOMAIN nodes
      BY <1>1, <2>1, <2>4
    <3>2. PICK n \in s : nodes[n].dependsOn \cap s = {}
      BY <3>1 DEF NoCycle
    <3>3. nodes[n].dependsOn \subseteq L(k - 1)
      BY <3>2
    <3>4. n \in L(k) /\ n \notin L(k - 1)
      BY <3>2, <3>3, NextLayer DEF Ready
    <3> DEFINE more == L(k - 1) \cup {n}
    <3>5. more \in SUBSET L(k)
      BY <2>2, <3>4
    <3>6. Cardinality(more) = Cardinality(L(k - 1)) + 1
      BY <1>1, <2>1, <3>4, FS_AddElement
    <3>7. Cardinality(more) <= Cardinality(L(k))
      BY <1>1, <2>1, <3>5, FS_Subset
    <3>8. Cardinality(L(k - 1)) >= k - 1
      BY <1>3, <2>4
    <3>9. Cardinality(L(k)) \in Nat /\ Cardinality(L(k - 1)) \in Nat
      BY <1>1, <2>1
    <3> HIDE DEF L, more
    <3>10. Cardinality(L(k)) >= k
      BY <3>6, <3>7, <3>8, <3>9, CountIsNatural
    <3> QED
      BY <2>1, <3>10 DEF S
  <2> QED
    BY <2>3, <2>4
<1> HIDE DEF S
<1>4. 0..Count \subseteq S
  BY <1>2, <1>3, NumbersUpTo, CountIsNatural
<1>5. Count \in S /\ Count \in 0..Count
  BY <1>4, CountIsNatural
<1>6. CASE L(Count) = DOMAIN nodes
  BY <1>6 DEF Cyclic, Count
<1>7. CASE L(Count) # DOMAIN nodes
  <2>1. L(Count) \in SUBSET Id /\ Cardinality(L(Count)) <= Count
        /\ (Cardinality(L(Count)) = Count => L(Count) = Id)
    BY <1>1, <1>5, CountIsNatural, FS_Subset DEF Count
  <2>2. Cardinality(L(Count)) >= Count /\ Cardinality(L(Count)) \in Nat
    BY <1>1, <1>5, <1>7 DEF S
  <2>3. Cardinality(L(Count)) = Count
    <3> HIDE DEF L
    <3> QED
      BY <2>1, <2>2, CountIsNatural
  <2>4. L(Count) = DOMAIN nodes
    BY <1>1, <1>5, <2>1, <2>3
  <2> QED
    BY <1>7, <2>4
<1> QED
  BY <1>6, <1>7

\* Every node of a planned workflow has a layer, and its dependencies are before it.
LEMMA LayerOfNode ==
    ASSUME ~Cyclic, NEW n \in DOMAIN nodes
    PROVE  /\ LayerOf(n) \in 1..Count
           /\ n \in LayersUpTo[LayerOf(n)]
           /\ n \notin LayersUpTo[LayerOf(n) - 1]
           /\ nodes[n].dependsOn \subseteq LayersUpTo[LayerOf(n) - 1]
<1>1. LayersUpTo[Count] \cap {n} # {}
  BY DEF Cyclic, Count
<1>2. \E k \in 1..Count : n \in LayersUpTo[k] \ LayersUpTo[k - 1]
  <2>1. PICK k \in 1..Count : LayersUpTo[k] \cap {n} # {} /\ LayersUpTo[k - 1] \cap {n} = {}
    BY <1>1, FirstMeeting
  <2> QED
    BY <2>1
<1>3. LayerOf(n) \in 1..Count /\ n \in LayersUpTo[LayerOf(n)] \ LayersUpTo[LayerOf(n) - 1]
  BY <1>2, Zenon DEF LayerOf, Count
<1> HIDE DEF LayerOf
<1>4. LayersUpTo[LayerOf(n)] = Ready(LayersUpTo[LayerOf(n) - 1])
  BY <1>3, NextLayer
<1> QED
  BY <1>3, <1>4 DEF Ready

\* What a node waits for is in an earlier layer.
LEMMA WaitedForIsBefore ==
    ASSUME ~Cyclic, NEW n \in DOMAIN nodes, NEW m \in DOMAIN nodes, WaitsFor(n, m)
    PROVE  Before(m, n)
<1> DEFINE k == LayerOf(n)
           j == LayerOf(m)
           s == LayersUpTo[k - 1]
<1>1. k \in 1..Count /\ nodes[n].dependsOn \subseteq s
  BY LayerOfNode
<1>2. j \in 1..Count /\ m \notin LayersUpTo[j - 1]
  BY LayerOfNode
<1> HIDE DEF k, j
<1>3. k - 1 \in 0..Count /\ j - 1 \in 0..Count
  BY <1>1, <1>2, CountIsNatural
<1>4. s \in SUBSET DOMAIN nodes
  BY <1>3, LayersAreNodes
<1>5. ASSUME NEW i \in s PROVE nodes[i].dependsOn \subseteq s
  <2>1. i \in LayersUpTo[k]
    BY <1>1, LayersGrowByOne
  <2>2. nodes[i].dependsOn \subseteq LayersUpTo[k - 1]
    BY <1>1, <2>1, NextLayer DEF Ready
  <2> QED
    BY <2>2
<1>6. m \in s
  BY <1>1, <1>4, <1>5 DEF WaitsFor
<1>7. ~(k - 1 <= j - 1)
  BY <1>2, <1>3, <1>6, LayersGrow
<1>8. j < k
  BY <1>1, <1>2, <1>7, CountIsNatural
<1> QED
  BY <1>8 DEF Before, k, j

\* A plan with the properties that the theorems of Planner_proofs give to the one
\* PlanLayers builds: every node has one layer, after its dependencies and no later
\* than they ask for.
IsPlan(layers) ==
    /\ layers \in Seq(SUBSET DOMAIN nodes)
    /\ \A n \in DOMAIN nodes : \E k \in DOMAIN layers : n \in layers[k]
    /\ \A j, k \in DOMAIN layers : j # k => layers[j] \cap layers[k] = {}
    /\ \A k \in DOMAIN layers : \A n \in layers[k] : \A d \in nodes[n].dependsOn :
          \E j \in 1..(k - 1) : d \in layers[j]
    /\ \A k \in DOMAIN layers : \A n \in layers[k] :
          k > 1 => \E d \in layers[k - 1] : d \in nodes[n].dependsOn

LEMMA PlanIsLayers ==
    ASSUME NEW layers, IsPlan(layers), NEW k \in 0..Count
    PROVE  LayersUpTo[k] =
             {n \in DOMAIN nodes : \E j \in DOMAIN layers : j <= k /\ n \in layers[j]}
<1> DEFINE UpTo(i) == {n \in DOMAIN nodes : \E j \in DOMAIN layers : j <= i /\ n \in layers[j]}
           S == {i \in 0..Count : LayersUpTo[i] = UpTo(i)}
<1>1. /\ DOMAIN layers = 1..Len(layers) /\ Len(layers) \in Nat
      /\ \A j \in DOMAIN layers : layers[j] \subseteq DOMAIN nodes
  BY DEF IsPlan
<1>2. 0 \in S
  <2>1. UpTo(0) = {}
    BY <1>1
  <2> QED
    BY <2>1, NextLayer, CountIsNatural
<1>3. ASSUME NEW i \in 1..Count, i - 1 \in S PROVE i \in S
  <2>1. i \in Nat /\ i \in 0..Count
    BY CountIsNatural
  <2>2. LayersUpTo[i] = Ready(UpTo(i - 1))
    BY <1>3, NextLayer
  <2>3. ASSUME NEW n \in UpTo(i) PROVE n \in Ready(UpTo(i - 1))
    <3>1. PICK j \in DOMAIN layers : j <= i /\ n \in layers[j]
      OBVIOUS
    <3>2. ASSUME NEW d \in nodes[n].dependsOn PROVE d \in UpTo(i - 1)
      <4>1. PICK h \in 1..(j - 1) : d \in layers[h]
        BY <3>1 DEF IsPlan
      <4>2. h \in DOMAIN layers /\ h <= i - 1
        BY <1>1, <2>1, <3>1
      <4> QED
        BY <1>1, <4>1, <4>2
    <3> QED
      BY <3>2 DEF Ready
  <2>4. ASSUME NEW n \in Ready(UpTo(i - 1)) PROVE n \in UpTo(i)
    <3>1. n \in DOMAIN nodes /\ nodes[n].dependsOn \subseteq UpTo(i - 1)
      BY DEF Ready
    <3>2. PICK j \in DOMAIN layers : n \in layers[j]
      BY <3>1 DEF IsPlan
    <3>3. j \in Nat /\ j >= 1
      BY <1>1
    <3>4. j <= i
      <4>1. CASE j = 1
        BY <2>1, <4>1
      <4>2. CASE j > 1
        <5>1. PICK d \in layers[j - 1] : d \in nodes[n].dependsOn
          BY <3>2, <4>2 DEF IsPlan
        <5>2. PICK h \in DOMAIN layers : h <= i - 1 /\ d \in layers[h]
          BY <3>1, <5>1
        <5>3. j - 1 \in DOMAIN layers
          BY <1>1, <4>2
        <5>4. h = j - 1
          BY <5>1, <5>2, <5>3 DEF IsPlan
        <5> QED
          BY <2>1, <3>3, <5>2, <5>4
      <4> QED
        BY <3>3, <4>1, <4>2
    <3> QED
      BY <3>1, <3>2, <3>4
  <2>5. UpTo(i) = Ready(UpTo(i - 1))
    BY <2>3, <2>4 DEF Ready
  <2> QED
    BY <2>1, <2>2, <2>5
<1> HIDE DEF S
<1>4. 0..Count \subseteq S
  BY <1>2, <1>3, NumbersUpTo, CountIsNatural
<1> QED
  BY <1>4 DEF S

\* The layer that this module gives to a node is the one PlanLayers does: the
\* recursive LayersUpTo and Kahn's algorithm of module Planner agree.
THEOREM PlanIsLayerOf ==
    ASSUME ~Cyclic, NEW layers, IsPlan(layers), NEW k \in DOMAIN layers, NEW n \in layers[k]
    PROVE  LayerOf(n) = k
<1> DEFINE c == LayerOf(n)
<1>1. n \in DOMAIN nodes /\ k \in Nat
  BY DEF IsPlan
<1>2. c \in 1..Count /\ n \in LayersUpTo[c] /\ n \notin LayersUpTo[c - 1]
  BY <1>1, LayerOfNode
<1> HIDE DEF c
<1>3. c \in 0..Count /\ c - 1 \in 0..Count
  BY <1>2, CountIsNatural
<1>4. PICK j \in DOMAIN layers : j <= c /\ n \in layers[j]
  BY <1>2, <1>3, PlanIsLayers
<1>5. j = k
  BY <1>4 DEF IsPlan
<1>6. ~(k <= c - 1)
  BY <1>1, <1>2, <1>3, PlanIsLayers
<1>7. c = k
  BY <1>1, <1>3, <1>4, <1>5, <1>6
<1> QED
  BY <1>7 DEF c

-----------------------------------------------------------------------------
(* Files.                                                                  *)

LEMMA FileKept ==
    ASSUME file' = file PROVE IsValidFile' = IsValidFile
<1>1. \A n : Meant(n)' = Meant(n)
  BY DEF Meant, NameOf
<1>2. Names' = Names
  BY DEF Names, NameOf
<1> QED
  BY <1>1, <1>2 DEF IsValidFile

LEMMA FileIsRead ==
    ASSUME TypeOK
    PROVE  /\ file \in File
           /\ Len(file.entries) \in Nat
           /\ DOMAIN file.entries = 1..Len(file.entries)
           /\ \A i \in DOMAIN file.entries : file.entries[i] \in Entry
<1>1. file \in File
  BY FilesAssumption DEF TypeOK
<1>2. file.entries \in Seq(Entry)
  BY <1>1 DEF File
<1> QED
  BY <1>1, <1>2

LEMMA EntryNames ==
    ASSUME NEW e \in Entry, file \in File PROVE NameOf(e) \in Id \cup {NoId}
  BY DEF Entry, File, NameOf

\* What a type asks for is what the entry had to say, and nothing else changes.
LEMMA DerivedKeeps ==
    ASSUME NEW e \in Entry
    PROVE  /\ Derived(e) \in Entry
           /\ Derived(e).dependsOn = e.dependsOn
           /\ Derived(e).route = e.route
           /\ Derived(e).timeout = e.timeout
<1>1. DerivedType(e) \in NodeType \cup {"", "unsupported"}
  BY DEF DerivedType, Entry, NodeType
<1>2. /\ (IF e.type = "" /\ DerivedType(e) = "command" THEN TRUE ELSE e.command) \in BOOLEAN
      /\ (IF e.type = "" /\ DerivedType(e) = "loop" THEN e.loop = "prompt" ELSE e.prompt)
           \in BOOLEAN
  BY DEF Entry
<1> DEFINE t == DerivedType(e)
           c == IF e.type = "" /\ t = "command" THEN TRUE ELSE e.command
           p == IF e.type = "" /\ t = "loop" THEN e.loop = "prompt" ELSE e.prompt
<1>3. Derived(e) = [e EXCEPT !.type = t, !.command = c, !.prompt = p]
  BY DEF Derived, Entry
<1>4. t \in NodeType \cup {"", "unsupported"} /\ c \in BOOLEAN /\ p \in BOOLEAN
  BY <1>1, <1>2
<1> HIDE DEF t, c, p
<1>5. [e EXCEPT !.type = t, !.command = c, !.prompt = p] \in Entry
  BY <1>4 DEF Entry
<1>6. /\ [e EXCEPT !.type = t, !.command = c, !.prompt = p].dependsOn = e.dependsOn
      /\ [e EXCEPT !.type = t, !.command = c, !.prompt = p].route = e.route
      /\ [e EXCEPT !.type = t, !.command = c, !.prompt = p].timeout = e.timeout
  BY DEF Entry
<1> QED
  BY <1>3, <1>5, <1>6

\* It is the entry as it stands, or but for what is derived.
LEMMA DerivedIsEntry ==
    ASSUME NEW e \in Entry
    PROVE  /\ e.type # "" => Derived(e) = e
           /\ [Derived(e) EXCEPT !.type = e.type, !.command = e.command, !.prompt = e.prompt] = e
           /\ e.command => Derived(e).command
<1> DEFINE t == DerivedType(e)
           c == IF e.type = "" /\ t = "command" THEN TRUE ELSE e.command
           p == IF e.type = "" /\ t = "loop" THEN e.loop = "prompt" ELSE e.prompt
<1>1. Derived(e) = [e EXCEPT !.type = t, !.command = c, !.prompt = p]
  BY DEF Derived, Entry
<1>2. e.type # "" => t = e.type /\ c = e.command /\ p = e.prompt
  BY DEF DerivedType
<1>3. e.command => c
  OBVIOUS
<1> HIDE DEF t, c, p
<1>4. [[e EXCEPT !.type = t, !.command = c, !.prompt = p]
         EXCEPT !.type = e.type, !.command = e.command, !.prompt = e.prompt] = e
  BY DEF Entry
<1>5. [e EXCEPT !.type = e.type, !.command = e.command, !.prompt = e.prompt] = e
  BY DEF Entry
<1>6. [e EXCEPT !.type = t, !.command = c, !.prompt = p].command = c
  BY DEF Entry
<1> QED
  BY <1>1, <1>2, <1>3, <1>4, <1>5, <1>6

LEMMA DerivedSpeaks ==
    ASSUME NEW e \in Entry PROVE HasContent(Derived(e)) <=> IsMeaningful(e)
<1> DEFINE d == Derived(e)
           t == DerivedType(e)
<1>1. /\ d.type = t
      /\ d.command = IF e.type = "" /\ t = "command" THEN TRUE ELSE e.command
      /\ d.prompt = IF e.type = "" /\ t = "loop" THEN e.loop = "prompt" ELSE e.prompt
      /\ d.loop = e.loop
  BY DEF Derived, Entry
<1>2. /\ e.type \in {"command", "human_gate", "agent", "loop", "", "unsupported"}
      /\ e.loop \in {"absent", "blank", "prompt"}
      /\ e.command \in BOOLEAN /\ e.prompt \in BOOLEAN /\ e.bash \in BOOLEAN
      /\ e.approval \in BOOLEAN
  BY DEF Entry, NodeType
<1> HIDE DEF d
<1>3. CASE e.type # ""
  <2>1. t = e.type
    BY <1>3 DEF DerivedType
  <2> HIDE DEF t
  <2> QED
    BY <1>1, <1>2, <1>3, <2>1 DEF HasContent, IsMeaningful, d
<1>4. CASE e.type = ""
  <2>1. t = IF e.approval THEN "human_gate" ELSE IF e.loop # "absent" THEN "loop"
            ELSE IF e.bash THEN "command" ELSE IF e.prompt \/ e.command THEN "agent" ELSE ""
    BY <1>4 DEF DerivedType
  <2> HIDE DEF t
  <2> QED
    BY <1>1, <1>2, <1>4, <2>1 DEF HasContent, IsMeaningful, d
<1> QED
  BY <1>3, <1>4

\* The entry that a name of the file stands for is the last of that name.
LEMMA LastNamed ==
    ASSUME TypeOK, NEW n \in Names
    PROVE  \E i \in DOMAIN file.entries :
              /\ NameOf(file.entries[i]) = n
              /\ \A j \in DOMAIN file.entries : NameOf(file.entries[j]) = n => j <= i
              /\ Meant(n) = file.entries[i]
<1> DEFINE length == Len(file.entries)
           S == {k \in 0..length : /\ length - k \in DOMAIN file.entries
                                   /\ NameOf(file.entries[length - k]) = n}
<1>1. length \in Nat /\ DOMAIN file.entries = 1..length
  BY FileIsRead
<1> HIDE DEF length
<1>2. S # {} /\ S \in SUBSET Nat
  <2>1. PICK i \in DOMAIN file.entries : NameOf(file.entries[i]) = n
    BY DEF Names
  <2>2. length - i \in 0..length /\ length - (length - i) = i
    BY <1>1, <2>1
  <2>3. length - i \in S
    BY <2>1, <2>2
  <2> QED
    BY <1>1, <2>3
<1> HIDE DEF S
<1>3. PICK k \in S : \A m \in S : k <= m
  BY <1>2, LeastNumber
<1> USE DEF S
<1> DEFINE i == length - k
           P(x) == /\ NameOf(file.entries[x]) = n
                   /\ \A j \in DOMAIN file.entries : NameOf(file.entries[j]) = n => j <= x
<1>4. i \in DOMAIN file.entries /\ NameOf(file.entries[i]) = n
  BY <1>3
<1>5. ASSUME NEW j \in DOMAIN file.entries, NameOf(file.entries[j]) = n PROVE j <= i
  <2>1. length - j \in 0..length /\ length - (length - j) = j
    BY <1>1
  <2>2. length - j \in S
    BY <1>5, <2>1
  <2>3. k <= length - j /\ k \in Int
    BY <1>3, <2>2
  <2> QED
    BY <1>1, <2>3
<1> HIDE DEF i, S
<1>6. P(i)
  BY <1>4, <1>5
<1>7. \A x \in DOMAIN file.entries : P(x) => x = i
  <2>1. SUFFICES ASSUME NEW x \in DOMAIN file.entries, P(x) PROVE x = i
    OBVIOUS
  <2>2. x <= i /\ i <= x
    BY <1>4, <1>6, <2>1
  <2> QED
    BY <1>1, <1>4, <2>2
<1> DEFINE c == CHOOSE x \in DOMAIN file.entries : P(x)
<1>8. c \in DOMAIN file.entries /\ P(c)
  BY <1>4, <1>6, Zenon
<1>9. Meant(n) = file.entries[c]
  BY Zenon DEF Meant
<1> HIDE DEF P, c
<1>10. c = i
  BY <1>7, <1>8
<1> QED
  BY <1>4, <1>5, <1>9, <1>10

\* Once all is read, nodes is what the file says.
LEMMA AllRead ==
    ASSUME TypeOK, DecodeInv, next = Len(file.entries) + 1
    PROVE  /\ Read = DOMAIN file.entries
           /\ DOMAIN nodes = Names
           /\ \A n \in Names : Meant(n) \in Entry /\ nodes[n] = Derived(Meant(n))
<1>1. Read = DOMAIN file.entries
  BY FileIsRead DEF Read
<1>2. DOMAIN nodes = Names
  BY <1>1 DEF DecodeInv, Names
<1>3. ASSUME NEW n \in Names PROVE Meant(n) \in Entry /\ nodes[n] = Derived(Meant(n))
  <2>1. PICK i \in DOMAIN file.entries :
              /\ NameOf(file.entries[i]) = n
              /\ \A j \in DOMAIN file.entries : NameOf(file.entries[j]) = n => j <= i
              /\ Meant(n) = file.entries[i]
    BY LastNamed
  <2>2. IsLast(i)
    BY <1>1, <2>1 DEF IsLast
  <2>3. nodes[n] = Derived(file.entries[i])
    BY <1>1, <2>1, <2>2 DEF DecodeInv
  <2> QED
    BY <2>1, <2>3, FileIsRead
<1> QED
  BY <1>1, <1>2, <1>3

\* Counting the names of a sequence tells whether one is repeated.
LEMMA NamesAreCounted ==
    ASSUME TypeOK
    PROVE  Cardinality(Names) = Len(file.entries) <=>
             \A i, j \in DOMAIN file.entries :
                NameOf(file.entries[i]) = NameOf(file.entries[j]) => i = j
<1> DEFINE D == 1..Len(file.entries)
           f == [i \in D |-> NameOf(file.entries[i])]
<1>1. Len(file.entries) \in Nat /\ DOMAIN file.entries = D
  BY FileIsRead
<1>2. IsFiniteSet(D) /\ Cardinality(D) = Len(file.entries)
  BY <1>1, FS_Interval
<1>3. f \in Surjection(D, Names) /\ \A i \in D : f[i] = NameOf(file.entries[i])
  BY <1>1 DEF Surjection, Names
<1> HIDE DEF f, D
<1>4. Cardinality(Names) = Cardinality(D) <=> f \in Injection(D, Names)
  BY <1>2, <1>3, FS_Surjection
<1>5. f \in Injection(D, Names) <=> \A i, j \in D : f[i] = f[j] => i = j
  BY <1>3 DEF Injection, Surjection, IsInjective
<1>6. f \in Injection(D, Names) <=>
        \A i, j \in D : NameOf(file.entries[i]) = NameOf(file.entries[j]) => i = j
  BY <1>3, <1>5
<1> QED
  BY <1>1, <1>2, <1>4, <1>6

-----------------------------------------------------------------------------
(* The verdict.                                                            *)

\* An entry that cannot be decoded spoils the file.
LEMMA BadEntry ==
    ASSUME TypeOK, DecodeInv, Decoding, CannotDecode(file.entries[next])
    PROVE  ~IsValidFile
<1> DEFINE e == file.entries[next]
<1>1. next \in DOMAIN file.entries /\ next \in Int
  BY FileIsRead DEF Decoding, TypeOK
<1>2. NameOf(e) \in Names
  BY <1>1 DEF Names
<1>3. CASE e.malformed
  BY <1>1, <1>3 DEF IsValidFile
<1>4. CASE file.form = "sequence" /\ e.id = NoId
  BY <1>2, <1>4 DEF IsValidFile, NameOf
<1>5. CASE file.form = "sequence" /\ e.id \in DOMAIN nodes
  <2>1. PICK i \in Read : NameOf(file.entries[i]) = e.id
    BY <1>5 DEF DecodeInv
  <2>2. i \in DOMAIN file.entries /\ i # next
    BY <1>1, <2>1, FileIsRead DEF Read
  <2>3. NameOf(file.entries[next]) = e.id
    BY <1>5 DEF NameOf
  <2>4. Cardinality(Names) # Len(file.entries)
    BY <1>1, <2>1, <2>2, <2>3, NamesAreCounted
  <2> QED
    BY <1>5, <2>4 DEF IsValidFile
<1> QED
  BY <1>3, <1>4, <1>5 DEF CannotDecode

\* What Validate asks of a node, in terms of the entry.
LEMMA SoundEntry ==
    ASSUME TypeOK, DecodeInv, next = Len(file.entries) + 1, NEW n \in Names, NoId \notin Names
    PROVE  IsSound(n) <=>
             /\ IsMeaningful(Meant(n))
             /\ Meant(n).dependsOn \subseteq Names
             /\ Meant(n).timeout.kind # "invalid"
             /\ Meant(n).route.kind = "present" =>
                  /\ Meant(n).route.to \in Names
                  /\ Meant(n).route.maxIterations >= 0
                  /\ Meant(n).route.maxRepeatedFailures >= 0
<1> DEFINE e == Meant(n)
<1>1. DOMAIN nodes = Names /\ e \in Entry /\ nodes[n] = Derived(e)
  BY AllRead
<1> HIDE DEF e
<1>2. /\ nodes[n].dependsOn = e.dependsOn
      /\ nodes[n].route = e.route
      /\ nodes[n].timeout = e.timeout
  BY <1>1, DerivedKeeps
<1>3. HasContent(nodes[n]) <=> IsMeaningful(e)
  BY <1>1, DerivedSpeaks
<1>4. n # NoId
  OBVIOUS
<1>5. RouteIsSound(e.route) <=>
         (e.route.kind = "present" =>
            /\ e.route.to \in Names
            /\ e.route.maxIterations >= 0
            /\ e.route.maxRepeatedFailures >= 0)
  BY <1>1 DEF RouteIsSound
<1>6. IsSound(n) <=> /\ IsMeaningful(e)
                     /\ e.dependsOn \subseteq Names
                     /\ RouteIsSound(e.route)
                     /\ e.timeout.kind # "invalid"
  BY <1>1, <1>2, <1>3, <1>4 DEF IsSound
<1> HIDE DEF RouteIsSound
<1> QED
  BY <1>5, <1>6 DEF e

\* A node Validate complains about spoils the file.
LEMMA BadNode ==
    ASSUME TypeOK, DecodeInv, next = Len(file.entries) + 1, NEW n \in DOMAIN nodes, ~IsSound(n)
    PROVE  ~IsValidFile
<1>1. n \in Names
  BY AllRead
<1>2. CASE NoId \in Names
  BY <1>2 DEF IsValidFile
<1>3. CASE NoId \notin Names
  <2>1. SUFFICES ASSUME IsValidFile PROVE IsSound(n)
    OBVIOUS
  <2>2. /\ IsMeaningful(Meant(n))
        /\ Meant(n).dependsOn \subseteq Names
        /\ Meant(n).timeout.kind # "invalid"
        /\ Meant(n).route.kind = "present" =>
             /\ Meant(n).route.to \in Names
             /\ Meant(n).route.maxIterations >= 0
             /\ Meant(n).route.maxRepeatedFailures >= 0
    BY <1>1, <2>1 DEF IsValidFile
  <2> QED
    BY <1>1, <1>3, <2>2, SoundEntry
<1> QED
  BY <1>2, <1>3

\* Where Validate has no complaint, only a cycle can spoil it.
LEMMA SoundFile ==
    ASSUME TypeOK, DecodeInv, next = Len(file.entries) + 1,
           file.named, DOMAIN nodes # {}, \A n \in DOMAIN nodes : IsSound(n)
    PROVE  /\ IsValidFile <=> NoCycle
           /\ NoCycle <=> ~Cyclic
<1>1. /\ Read = DOMAIN file.entries
      /\ DOMAIN nodes = Names
      /\ \A n \in Names : Meant(n) \in Entry /\ nodes[n] = Derived(Meant(n))
  BY AllRead
<1>2. NoId \notin Names
  BY <1>1 DEF IsSound
<1>3. \A i \in DOMAIN file.entries : ~file.entries[i].malformed
  BY <1>1 DEF DecodeInv
<1>4. file.form = "sequence" => Cardinality(Names) = Len(file.entries)
  BY <1>1, NamesAreCounted DEF DecodeInv, NameOf
<1>5. \A n \in Names : nodes[n].dependsOn = Meant(n).dependsOn
  BY <1>1, DerivedKeeps
<1>6. NoCycle <=> \A s \in SUBSET Names : s # {} => \E n \in s : Meant(n).dependsOn \cap s = {}
  BY <1>1, <1>5 DEF NoCycle
<1>7. ASSUME NEW n \in Names
      PROVE  /\ IsMeaningful(Meant(n))
             /\ Meant(n).dependsOn \subseteq Names
             /\ Meant(n).timeout.kind # "invalid"
             /\ Meant(n).route.kind = "present" =>
                  /\ Meant(n).route.to \in Names
                  /\ Meant(n).route.maxIterations >= 0
                  /\ Meant(n).route.maxRepeatedFailures >= 0
  BY <1>1, <1>2, SoundEntry
<1>8. IsValidFile <=> NoCycle
  BY <1>1, <1>2, <1>3, <1>4, <1>6, <1>7 DEF IsValidFile
<1>9. DOMAIN nodes \subseteq Id
  BY <1>1, <1>2 DEF TypeOK
<1>10. \A n \in DOMAIN nodes : nodes[n].dependsOn \subseteq DOMAIN nodes
  BY DEF IsSound
<1> QED
  BY <1>8, <1>9, <1>10, PlannedHasNoCycle, NoCycleIsPlanned

-----------------------------------------------------------------------------
(* The invariant.                                                          *)

LEMMA WrappedIsInt == ASSUME NEW n \in Int PROVE Wrapped(n) \in Int
<1>1. Half \in Nat /\ Half > 0
  BY DurationAssumption
<1>2. n + Half \in Int /\ 2 * Half \in Int /\ 2 * Half > 0
  BY <1>1
<1>3. (n + Half) % (2 * Half) \in Int
  BY <1>2
<1> QED
  BY <1>1, <1>3 DEF Wrapped

LEMMA TimeoutIsInt ==
    ASSUME NEW raw \in TimeoutField PROVE ParseTimeout(raw) \in Int
<1>1. raw.value \in Int /\ Milli \in Int
  BY DurationAssumption DEF TimeoutField
<1>2. raw.value * Milli \in Int
  BY <1>1
<1> HIDE DEF TimeoutField
<1>3. Wrapped(raw.value * Milli) \in Int
  BY <1>2, WrappedIsInt
<1> QED
  BY <1>1, <1>3 DEF ParseTimeout

LEMMA TypeStep == ASSUME TypeOK, Next PROVE TypeOK'
<1>1. CASE DecodeEntry
  <2> DEFINE e == file.entries[next]
             name == NameOf(e)
  <2>1. /\ next' = next + 1 /\ next <= Len(file.entries)
        /\ UNCHANGED <<file, phase, checked, timeouts>>
    BY <1>1 DEF DecodeEntry, Decoding
  <2>6. nodes' = Store(nodes, name, Derived(e))
    BY <1>1 DEF DecodeEntry
  <2>2. next \in DOMAIN file.entries /\ e \in Entry /\ file \in File
        /\ Len(file.entries) \in Nat
    BY <2>1, FileIsRead DEF TypeOK
  <2>3. name \in Id \cup {NoId} /\ Derived(e) \in Entry
    BY <2>2, EntryNames, DerivedKeeps
  <2> HIDE DEF e, name
  <2>4. DOMAIN nodes' = DOMAIN nodes \cup {name}
        /\ \A n \in DOMAIN nodes' : nodes'[n] \in Entry
    <3>1. /\ DOMAIN nodes' = DOMAIN nodes \cup {name}
          /\ nodes'[name] = Derived(e)
          /\ \A x \in DOMAIN nodes : x # name => nodes'[x] = nodes[x]
      BY <2>6 DEF Store
    <3> QED
      BY <2>3, <3>1 DEF TypeOK
  <2>5. next' \in 1..(Len(file.entries) + 1)
    BY <2>1, <2>2 DEF TypeOK
  <2> QED
    BY <2>1, <2>3, <2>4, <2>5 DEF TypeOK
<1>2. CASE RejectEntry \/ \E id \in Unchecked : RejectNode(id)
  BY <1>2 DEF RejectEntry, RejectNode, Reject, TypeOK
<1>3. CASE Decoded \/ Plan \/ StartRun
  BY <1>3 DEF Decoded, Plan, StartRun, TypeOK
<1>4. ASSUME NEW id \in Unchecked, CheckNode(id) PROVE TypeOK'
  <2>1. checked' = checked \cup {id} /\ UNCHANGED <<file, phase, next, nodes>>
    BY <1>4 DEF CheckNode
  <2>5. timeouts' = Store(timeouts, id, ParseTimeout(nodes[id].timeout))
    BY <1>4 DEF CheckNode
  <2>2. id \in DOMAIN nodes
    BY DEF Unchecked
  <2>3. ParseTimeout(nodes[id].timeout) \in Int
    BY <2>2, TimeoutIsInt DEF TypeOK, Entry
  <2>4. DOMAIN timeouts' = checked' /\ \A n \in checked' : timeouts'[n] \in Int
    <3> DEFINE v == ParseTimeout(nodes[id].timeout)
    <3>1. /\ DOMAIN timeouts' = DOMAIN timeouts \cup {id}
          /\ timeouts'[id] = v
          /\ \A x \in DOMAIN timeouts : x # id => timeouts'[x] = timeouts[x]
      BY <2>5 DEF Store
    <3> HIDE DEF v
    <3>2. v \in Int
      BY <2>3 DEF v
    <3> QED
      BY <2>1, <3>1, <3>2 DEF TypeOK
  <2> QED
    BY <2>1, <2>2, <2>4 DEF TypeOK
<1> QED
  BY <1>1, <1>2, <1>3, <1>4 DEF Next

LEMMA DecodeKept ==
    ASSUME DecodeInv, UNCHANGED <<file, next, nodes>> PROVE DecodeInv'
<1>1. file' = file /\ next' = next /\ nodes' = nodes
  OBVIOUS
<1>2. Read' = Read /\ \A i : NameOf(file.entries[i])' = NameOf(file.entries[i])
  BY <1>1 DEF Read, NameOf
<1>3. \A i : IsLast(i)' <=> IsLast(i)
  BY <1>1, <1>2 DEF IsLast
<1>4. \A i : Derived(file.entries[i])' = Derived(file.entries[i])
  BY <1>1 DEF Derived, DerivedType
<1>5. {NameOf(file.entries[i]) : i \in Read}' = {NameOf(file.entries[i]) : i \in Read'}
  BY <1>2
<1>6. \A i : nodes'[NameOf(file.entries[i])'] = nodes[NameOf(file.entries[i])]
  BY <1>1, <1>2
<1> QED
  BY <1>1, <1>2, <1>3, <1>4, <1>5, <1>6 DEF DecodeInv

LEMMA DecodeStep == ASSUME TypeOK, DecodeInv, Next PROVE DecodeInv'
<1>1. CASE DecodeEntry
  <2> DEFINE e == file.entries[next]
             name == NameOf(e)
  <2>1. /\ nodes' = Store(nodes, name, Derived(e)) /\ next' = next + 1 /\ file' = file
        /\ ~CannotDecode(e)
    BY <1>1 DEF DecodeEntry
  <2>2. next \in Int /\ next >= 1
    BY FileIsRead DEF TypeOK
  <2>3. Read' = Read \cup {next} /\ next \notin Read /\ \A i \in Read : i < next
    BY <2>1, <2>2 DEF Read
  <2>4. \A i : NameOf(file.entries[i])' = NameOf(file.entries[i])
    BY <2>1 DEF NameOf
  <2>5. /\ DOMAIN nodes' = DOMAIN nodes \cup {name}
        /\ nodes'[name] = Derived(e)
        /\ \A x \in DOMAIN nodes : x # name => nodes'[x] = nodes[x]
    BY <2>1 DEF Store
  <2>6. DOMAIN nodes = {NameOf(file.entries[i]) : i \in Read}
    BY DEF DecodeInv
  <2>7. (DOMAIN nodes = {NameOf(file.entries[i]) : i \in Read})'
    <3>1. {NameOf(file.entries[i]) : i \in Read}' = {NameOf(file.entries[i]) : i \in Read'}
      BY <2>4
    <3> QED
      BY <2>3, <2>5, <2>6, <3>1
  <2>8. \A i \in Read' : ~file'.entries[i].malformed
    BY <2>1, <2>3 DEF DecodeInv, CannotDecode
  <2>9. ASSUME file.form = "sequence"
        PROVE  \A i \in Read' :
                  /\ file.entries[i].id # NoId
                  /\ \A j \in Read' : file.entries[j].id = file.entries[i].id => j = i
    <3>1. e.id # NoId /\ e.id \notin DOMAIN nodes
      BY <2>1, <2>9 DEF CannotDecode
    <3>2. \A x : NameOf(x) = x.id
      BY <2>9 DEF NameOf
    <3>3. \A i \in Read : file.entries[i].id # e.id
      BY <2>6, <3>1, <3>2
    <3> HIDE DEF e
    <3>4. \A i \in Read : /\ file.entries[i].id # NoId
                          /\ \A j \in Read : file.entries[j].id = file.entries[i].id => j = i
      BY <2>9 DEF DecodeInv
    <3> QED
      BY <2>3, <3>1, <3>3, <3>4 DEF e
  <2>10. ASSUME NEW i \in Read', IsLast(i)'
         PROVE  nodes'[NameOf(file.entries[i])] = Derived(file.entries[i])
    <3>1. CASE i = next
      BY <2>5, <3>1
    <3>2. CASE i \in Read
      <4>1. NameOf(file.entries[i]) # name
        BY <2>1, <2>2, <2>3, <2>4, <2>10, <3>2 DEF IsLast, Read
      <4>2. IsLast(i)
        BY <2>1, <2>3, <2>4, <2>10, <3>2 DEF IsLast
      <4>3. nodes[NameOf(file.entries[i])] = Derived(file.entries[i])
        BY <3>2, <4>2 DEF DecodeInv
      <4>4. NameOf(file.entries[i]) \in DOMAIN nodes
        BY <2>6, <3>2
      <4> QED
        BY <2>5, <4>1, <4>3, <4>4
    <3> QED
      BY <2>3, <3>1, <3>2
  <2>11. \A i : Derived(file.entries[i])' = Derived(file.entries[i])
    BY <2>1 DEF Derived, DerivedType
  <2> HIDE DEF e, name
  <2> QED
    BY <2>1, <2>4, <2>7, <2>8, <2>9, <2>10, <2>11 DEF DecodeInv
<1>2. CASE UNCHANGED <<file, next, nodes>>
  BY <1>2, DecodeKept
<1> QED
  BY <1>1, <1>2 DEF Next, RejectEntry, Decoded, CheckNode, RejectNode, Plan, StartRun, Reject

\* What a step does to the phase and the nodes, other than reading an entry.
LEMMA NodesKept ==
    ASSUME UNCHANGED nodes
    PROVE  /\ \A n : IsSound(n)' <=> IsSound(n)
           /\ \A n : ParseTimeout(nodes[n].timeout)' = ParseTimeout(nodes[n].timeout)
           /\ NoCycle' <=> NoCycle
<1>1. nodes' = nodes
  OBVIOUS
<1>2. ASSUME NEW n PROVE IsSound(n)' <=> IsSound(n)
  BY <1>1 DEF IsSound, HasContent, RouteIsSound
<1>3. ASSUME NEW n
      PROVE  ParseTimeout(nodes[n].timeout)' = ParseTimeout(nodes[n].timeout)
  BY <1>1 DEF ParseTimeout, Wrapped
<1>4. NoCycle' <=> NoCycle
  BY <1>1 DEF NoCycle
<1> QED
  BY <1>2, <1>3, <1>4

LEMMA CheckStep == ASSUME TypeOK, DecodeInv, CheckInv, Next PROVE CheckInv'
<1>1. CASE DecodeEntry
  <2>1. phase' = "decoding" /\ checked' = {}
    BY <1>1 DEF DecodeEntry, Decoding, CheckInv
  <2> QED
    BY <2>1 DEF CheckInv
<1>2. CASE RejectEntry \/ \E id \in Unchecked : RejectNode(id)
  <2>1. phase' = "rejected" /\ checked' = checked /\ timeouts' = timeouts /\ nodes' = nodes
    BY <1>2 DEF RejectEntry, RejectNode, Reject
  <2> QED
    BY <2>1, NodesKept DEF CheckInv
<1>3. CASE Decoded
  <2>1. /\ checked' = {} /\ file' = file /\ next' = next /\ nodes' = nodes
        /\ phase' \in {"validating", "rejected"}
        /\ phase' = "validating" => file.named /\ DOMAIN nodes # {}
    BY <1>3 DEF Decoded, CheckInv
  <2>2. next = Len(file.entries) + 1
    BY <1>3, FileIsRead DEF Decoded, TypeOK
  <2> QED
    BY <2>1, <2>2 DEF CheckInv
<1>4. ASSUME NEW id \in Unchecked, CheckNode(id) PROVE CheckInv'
  <2>1. /\ phase = "validating" /\ phase' = "validating" /\ id \notin checked
        /\ checked' = checked \cup {id} /\ IsSound(id)
        /\ file' = file /\ next' = next /\ nodes' = nodes
    BY <1>4 DEF CheckNode, Unchecked
  <2>2. timeouts' = Store(timeouts, id, ParseTimeout(nodes[id].timeout))
    BY <1>4 DEF CheckNode
  <2> DEFINE v == ParseTimeout(nodes[id].timeout)
  <2> HIDE DEF v
  <2>3. timeouts'[id] = v /\ \A n \in checked : timeouts'[n] = timeouts[n]
    BY <2>1, <2>2 DEF Store, TypeOK, v
  <2>4. \A n \in checked' : IsSound(n) /\ timeouts'[n] = ParseTimeout(nodes[n].timeout)
    BY <2>1, <2>3 DEF CheckInv, v
  <2> QED
    BY <2>1, <2>4, NodesKept DEF CheckInv
<1>5. CASE Plan
  <2>1. /\ phase = "validating" /\ Unchecked = {}
        /\ phase' = IF Cyclic THEN "rejected" ELSE "accepted"
        /\ file' = file /\ next' = next /\ nodes' = nodes
        /\ checked' = checked /\ timeouts' = timeouts
    BY <1>5 DEF Plan
  <2>2. checked = DOMAIN nodes
    BY <2>1 DEF Unchecked, TypeOK
  <2>3. ~Cyclic => NoCycle
    BY PlannedHasNoCycle
  <2> QED
    BY <2>1, <2>2, <2>3, NodesKept DEF CheckInv
<1>6. CASE StartRun
  <2>1. /\ phase = "accepted" /\ phase' \in {"running", "refused"}
        /\ file' = file /\ next' = next /\ nodes' = nodes
        /\ checked' = checked /\ timeouts' = timeouts
    BY <1>6 DEF StartRun
  <2> QED
    BY <2>1, NodesKept DEF CheckInv
<1> QED
  BY <1>1, <1>2, <1>3, <1>4, <1>5, <1>6 DEF Next

LEMMA VerdictStep ==
    ASSUME TypeOK, DecodeInv, CheckInv, VerdictIsRight, Next PROVE VerdictIsRight'
<1>1. file' = file
  BY DEF Next, DecodeEntry, RejectEntry, Decoded, CheckNode, RejectNode, Plan, StartRun, Reject
<1>2. IsValidFile' = IsValidFile
  BY <1>1, FileKept
<1>3. SUFFICES /\ phase' \in {"accepted", "running", "refused"} => IsValidFile
               /\ phase' = "rejected" => ~IsValidFile
  BY <1>2 DEF VerdictIsRight
<1>4. CASE DecodeEntry \/ \E id \in Unchecked : CheckNode(id)
  BY <1>4 DEF DecodeEntry, CheckNode, VerdictIsRight
<1>5. CASE RejectEntry
  BY <1>5, BadEntry DEF RejectEntry, Reject
<1>6. CASE Decoded
  <2>1. next = Len(file.entries) + 1
    BY <1>6, FileIsRead DEF Decoded, TypeOK
  <2>2. DOMAIN nodes = Names
    BY <2>1, AllRead
  <2> QED
    BY <1>6, <2>2 DEF Decoded, IsValidFile
<1>7. ASSUME NEW id \in Unchecked, RejectNode(id)
      PROVE  /\ phase' \in {"accepted", "running", "refused"} => IsValidFile
             /\ phase' = "rejected" => ~IsValidFile
  <2>1. phase = "validating" /\ id \in DOMAIN nodes /\ ~IsSound(id) /\ phase' = "rejected"
    BY <1>7 DEF RejectNode, Reject, Unchecked
  <2>2. next = Len(file.entries) + 1
    BY <2>1 DEF CheckInv
  <2> QED
    BY <2>1, <2>2, BadNode
<1>8. CASE Plan
  <2>1. /\ phase = "validating" /\ Unchecked = {}
        /\ phase' = IF Cyclic THEN "rejected" ELSE "accepted"
    BY <1>8 DEF Plan
  <2>2. \A n \in DOMAIN nodes : IsSound(n)
    BY <2>1 DEF Unchecked, CheckInv
  <2>3. next = Len(file.entries) + 1 /\ file.named /\ DOMAIN nodes # {}
    BY <2>1 DEF CheckInv
  <2> QED
    BY <2>1, <2>2, <2>3, SoundFile
<1>9. CASE StartRun
  BY <1>9 DEF StartRun, VerdictIsRight
<1> QED
  BY <1>4, <1>5, <1>6, <1>7, <1>8, <1>9 DEF Next

\* A run is refused for a route that leads to a node its own does not wait for.
LEMMA RepairStep ==
    ASSUME TypeOK, DecodeInv, CheckInv, RepairOfAncestorRuns, Next
    PROVE  RepairOfAncestorRuns'
<1>1. CASE StartRun
  <2> SUFFICES ASSUME phase' = "refused"
               PROVE  \E n \in Routes : ~WaitsFor(n, nodes[n].route.to)
    BY <1>1 DEF RepairOfAncestorRuns, StartRun, Routes, WaitsFor
  <2>1. ~RoutesPointBack /\ phase = "accepted"
    BY <1>1 DEF StartRun
  <2>2. PICK n \in Routes : ~Before(nodes[n].route.to, n)
    BY <2>1 DEF RoutesPointBack
  <2>3. checked = DOMAIN nodes /\ next = Len(file.entries) + 1
        /\ file.named /\ DOMAIN nodes # {} /\ NoCycle
    BY <2>1 DEF CheckInv
  <2>4. \A m \in DOMAIN nodes : IsSound(m)
    BY <2>3 DEF CheckInv
  <2>5. ~Cyclic
    BY <2>3, <2>4, SoundFile
  <2>6. n \in DOMAIN nodes /\ nodes[n].route.to \in DOMAIN nodes
    BY <2>2, <2>4 DEF Routes, IsSound, RouteIsSound
  <2> QED
    BY <2>2, <2>5, <2>6, WaitedForIsBefore
<1>2. CASE ~StartRun
  <2>1. phase' # "refused"
    BY <1>2 DEF Next, DecodeEntry, Decoding, RejectEntry, Decoded, CheckNode, Unchecked,
       RejectNode, Plan, Reject
  <2> QED
    BY <2>1 DEF RepairOfAncestorRuns
<1> QED
  BY <1>1, <1>2

LEMMA InitInv == Init => Inv
<1> SUFFICES ASSUME Init PROVE Inv
  OBVIOUS
<1>1. /\ file \in Files /\ phase = "decoding" /\ next = 1
      /\ nodes = <<>> /\ checked = {} /\ timeouts = <<>>
  BY DEF Init
<1>2. DOMAIN nodes = {} /\ DOMAIN timeouts = {} /\ Read = {}
  BY <1>1 DEF Read
<1>3. Len(file.entries) \in Nat
  BY <1>1, FilesAssumption DEF File
<1>4. TypeOK
  BY <1>1, <1>2, <1>3 DEF TypeOK
<1>5. {NameOf(file.entries[i]) : i \in Read} = {}
  BY <1>2
<1>6. DecodeInv
  BY <1>2, <1>5 DEF DecodeInv
<1> QED
  BY <1>1, <1>4, <1>6 DEF Inv, CheckInv, VerdictIsRight, RepairOfAncestorRuns

LEMMA StutterKeeps == ASSUME Inv, UNCHANGED vars PROVE Inv'
<1>1. /\ file' = file /\ phase' = phase /\ next' = next
      /\ nodes' = nodes /\ checked' = checked /\ timeouts' = timeouts
  BY DEF vars
<1>2. TypeOK'
  BY <1>1 DEF Inv, TypeOK
<1>3. DecodeInv'
  BY <1>1, DecodeKept DEF Inv
<1>4. CheckInv'
  BY <1>1, NodesKept DEF Inv, CheckInv
<1>5. VerdictIsRight'
  BY <1>1, FileKept DEF Inv, VerdictIsRight
<1>6. RepairOfAncestorRuns'
  BY <1>1 DEF Inv, RepairOfAncestorRuns, Routes, WaitsFor
<1> QED
  BY <1>2, <1>3, <1>4, <1>5, <1>6 DEF Inv

\* What is decoded is what was read of the file, what is checked is sound, and
\* the verdict on the file as a whole is right, wherever decodeNodes and Validate
\* are.
THEOREM WorkflowFileInvariant == Spec => []Inv
<1>1. Inv /\ [Next]_vars => Inv'
  BY StutterKeeps, TypeStep, DecodeStep, CheckStep, VerdictStep, RepairStep DEF Inv
<1> QED
  BY InitInv, <1>1, PTL DEF Spec

\* The nodes and timeouts that decodeNodes and Validate build keep their types.
THEOREM WorkflowFileTypes == Spec => []TypeOK
<1>1. Inv => TypeOK
  BY DEF Inv
<1> QED
  BY <1>1, WorkflowFileInvariant, PTL

\* Whatever the order in which Validate ranges over the nodes: Parse accepts
\* exactly the files that are valid as a whole.
THEOREM VerdictsAreRight == Spec => []VerdictIsRight
<1>1. Inv => VerdictIsRight
  BY DEF Inv
<1> QED
  BY <1>1, WorkflowFileInvariant, PTL

\* A workflow whose routes lead to nodes their own waits for is never refused by
\* RunWithOptions.
THEOREM RepairsOfAncestorsRun == Spec => []RepairOfAncestorRuns
<1>1. Inv => RepairOfAncestorRuns
  BY DEF Inv
<1> QED
  BY <1>1, WorkflowFileInvariant, PTL

\* No entry of an accepted sequence is lost, of a mapping the last of a key counts,
\* and a node is its entry but for what deriveType gives it.
THEOREM EntriesAreKept == Spec => []NoEntryIsLost
<1>1. ASSUME Inv, phase \in {"accepted", "running", "refused"} PROVE NoEntryIsLost
  <2>1. next = Len(file.entries) + 1
    BY <1>1 DEF Inv, CheckInv
  <2>2. /\ DOMAIN nodes = Names
        /\ \A n \in Names : Meant(n) \in Entry /\ nodes[n] = Derived(Meant(n))
    BY <1>1, <2>1, AllRead DEF Inv
  <2>3. file.form = "sequence" => Cardinality(Names) = Len(file.entries)
    BY <1>1 DEF Inv, VerdictIsRight, IsValidFile
  <2>4. ASSUME NEW n \in Names, NEW e, e = Meant(n)
        PROVE  /\ e.type # "" => nodes[n] = e
               /\ [nodes[n] EXCEPT !.type = e.type, !.command = e.command, !.prompt = e.prompt] = e
               /\ e.command => nodes[n].command
    <3>1. e \in Entry /\ nodes[n] = Derived(e)
      BY <2>2, <2>4
    <3> QED
      BY <3>1, DerivedIsEntry
  <2> QED
    BY <2>2, <2>3, <2>4 DEF NoEntryIsLost
<1>2. Inv => NoEntryIsLost
  BY <1>1 DEF NoEntryIsLost
<1> QED
  BY <1>2, WorkflowFileInvariant, PTL

\* A number of milliseconds that a duration can hold is not wrapped.
LEMMA SmallIsKept == ASSUME NEW n \in Nat, n < Half PROVE Wrapped(n) = n
<1>1. Half \in Nat \ {0}
  BY DurationAssumption
<1>2. (n + Half) % (2 * Half) = n + Half
  BY <1>1
<1> QED
  BY <1>1, <1>2 DEF Wrapped

\* The deadline executeNode computes is in the past only for a timeout that is
\* negative or overflows time.Duration.
THEOREM DeadlinesAreAhead == Spec => []OnlyOddTimeoutsExpire
<1>1. ASSUME Inv PROVE OnlyOddTimeoutsExpire
  <2> SUFFICES ASSUME phase = "running", NEW n \in DOMAIN nodes, Deadline(n) <= 0,
                      ~(nodes[n].timeout.value < 0),
                      ~(nodes[n].timeout.value * Milli >= Half)
               PROVE  FALSE
    BY DEF OnlyOddTimeoutsExpire
  <2> DEFINE raw == nodes[n].timeout
  <2>1. timeouts[n] = ParseTimeout(raw)
    BY <1>1 DEF Inv, CheckInv
  <2>2. raw.value \in Nat /\ Half \in Nat /\ Milli \in Nat
    <3>1. nodes[n] \in Entry
      BY <1>1 DEF Inv, TypeOK
    <3>2. raw.value \in Int
      BY <3>1 DEF Entry, TimeoutField
    <3> QED
      BY <3>2, DurationAssumption
  <2>3. ~(raw.value * Milli >= Half)
    OBVIOUS
  <2> HIDE DEF raw
  <2>4. raw.value * Milli \in Nat
    BY <2>2
  <2>5. Wrapped(raw.value * Milli) = raw.value * Milli
    BY <2>2, <2>3, <2>4, SmallIsKept
  <2>6. ParseTimeout(raw) \in Nat
    BY <2>2, <2>4, <2>5 DEF ParseTimeout
  <2>7. Deadline(n) \in Nat /\ Deadline(n) # 0
    BY <2>1, <2>6 DEF Deadline, DefaultTimeout
  <2> QED
    BY <2>7
<1> QED
  BY <1>1, WorkflowFileInvariant, PTL
=============================================================================
