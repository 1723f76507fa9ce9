------------------------------ MODULE Planner ------------------------------
(***************************************************************************)
(* Workflow.PlanLayers (internal/workflow/workflow.go): the layered        *)
(* topological sort that turns the depends_on lists of a workflow into the *)
(* dependency layers both execution engines walk, or rejects the workflow  *)
(* with "cycle detected".                                                  *)
(*                                                                         *)
(* depends_on is a list, not a set: an author may name the same dependency *)
(* twice, and the algorithm counts it twice when it fills indegree and     *)
(* twice when it releases the dependency.  sort.Strings inside a layer is  *)
(* left out here: Release may take the ids of a layer in any order, so     *)
(* what is checked and proved holds for the sorted one.                    *)
(***************************************************************************)
EXTENDS Naturals, Sequences, SequencesExt, FiniteSets

CONSTANTS
    Node,     \* the keys of wf.Nodes
    MaxDeps   \* bound on the length of one depends_on list

ASSUME NodeAssumption == IsFiniteSet(Node)
ASSUME MaxDepsAssumption == MaxDeps \in Nat

VARIABLES
    dependsOn,  \* Node -> depends_on; Validate has checked that every entry exists
    indegree,   \* the map indegree: its domain shrinks as ids are released
    layers,     \* the layers built so far
    pending,    \* ids of the newest layer the inner loop has not released
    visited,    \* how many ids were put in a layer
    plan        \* "planning", "layered" or "cycle"

vars == <<dependsOn, indegree, layers, pending, visited, plan>>

-----------------------------------------------------------------------------

\* How often dep occurs in the depends_on list of n: children[dep] holds n
\* that many times.
Occurrences(n, dep) ==
    Cardinality({i \in DOMAIN dependsOn[n] : dependsOn[n][i] = dep})

\* indegree[id] = len(node.DependsOn)
InitialIndegree(deps) == [n \in Node |-> Len(deps[n])]

\* (mutant) each child is decremented once, however often it names the id
AfterRelease_Once(id) ==
    [n \in DOMAIN indegree \ {id} |->
        indegree[n] - IF Occurrences(n, id) > 0 THEN 1 ELSE 0]

\* indegree[child]-- once per entry of children[id]. Decrementing a key that
\* is gone would bring it back with a negative count, as a Go map does.
AfterRelease(id) ==
    LET Count(n) == IF n \in DOMAIN indegree THEN indegree[n] ELSE 0
        keys == DOMAIN indegree \cup {n \in Node : Occurrences(n, id) > 0}
    IN  [n \in keys \ {id} |-> Count(n) - Occurrences(n, id)]

\* (mutant) one open dependency is let through
ReadyIDs_OffByOne(degrees) == {n \in DOMAIN degrees : degrees[n] <= 1}

\* readyIDs: the ids whose degree is exactly zero.
ReadyIDs(degrees) == {n \in DOMAIN degrees : degrees[n] = 0}

Init ==
    /\ dependsOn \in [Node -> BoundedSeq(Node, MaxDeps)]
    /\ indegree = InitialIndegree(dependsOn)
    /\ layers = <<>>
    /\ pending = {}
    /\ visited = 0
    /\ plan = "planning"

\* (mutant) a layer takes one of the ready ids
OpenLayer_OneNode ==
    /\ plan = "planning"
    /\ pending = {}
    /\ \E id \in ReadyIDs(indegree) :
        /\ layers' = Append(layers, {id})
        /\ pending' = {id}
    /\ visited' = visited + 1
    /\ UNCHANGED <<dependsOn, indegree, plan>>

\* One iteration of "for len(ready) > 0" up to its inner loop.
OpenLayer ==
    /\ plan = "planning"
    /\ pending = {}
    /\ ReadyIDs(indegree) # {}
    /\ layers' = Append(layers, ReadyIDs(indegree))
    /\ pending' = ReadyIDs(indegree)
    /\ visited' = visited + Cardinality(ReadyIDs(indegree))
    /\ UNCHANGED <<dependsOn, indegree, plan>>

\* One id of the inner loop: decrement its children, delete it.
Release(id) ==
    /\ id \in pending
    /\ indegree' = AfterRelease(id)
    /\ pending' = pending \ {id}
    /\ UNCHANGED <<dependsOn, layers, visited, plan>>

\* No id is ready: "if visited != len(wf.Nodes)".
Finish ==
    /\ plan = "planning"
    /\ pending = {}
    /\ ReadyIDs(indegree) = {}
    /\ plan' = IF visited # Cardinality(Node) THEN "cycle" ELSE "layered"
    /\ UNCHANGED <<dependsOn, indegree, layers, pending, visited>>

Next ==
    \/ OpenLayer
    \/ \E id \in pending : Release(id)
    \/ Finish

Spec == Init /\ [][Next]_vars

-----------------------------------------------------------------------------

DependencyOf(n, d) == \E i \in DOMAIN dependsOn[n] : dependsOn[n][i] = d

Placed == UNION {layers[k] : k \in DOMAIN layers}

\* A set of nodes each of which waits for another one of the set: it exists
\* exactly when depends_on has a cycle, and none of its nodes can ever run.
SelfSupporting(S) ==
    /\ S # {}
    /\ \A n \in S : \E d \in S : DependencyOf(n, d)

HasCycle == \E S \in SUBSET Node : SelfSupporting(S)

TypeOK ==
    /\ dependsOn \in [Node -> BoundedSeq(Node, MaxDeps)]
    /\ DOMAIN indegree \subseteq Node
    /\ \A n \in DOMAIN indegree : indegree[n] \in Nat
    /\ layers \in Seq(SUBSET Node)
    /\ pending \subseteq DOMAIN indegree
    /\ visited \in Nat
    /\ plan \in {"planning", "layered", "cycle"}

\* Every dependency of a node, named once or several times in depends_on, is
\* in a layer strictly before the node's own. runLayer starts all the nodes of
\* a layer together and reads only the results of earlier layers, so it relies
\* on exactly this.
LayersRespectDependencies ==
    \A k \in DOMAIN layers : \A n \in layers[k] : \A d \in Node :
        DependencyOf(n, d) => \E j \in 1..(k - 1) : d \in layers[j]

\* No node is scheduled twice: a released id never comes back to indegree.
LayersAreDisjoint ==
    \A j, k \in DOMAIN layers : j # k => layers[j] \cap layers[k] = {}

\* A node is not held back: from the second layer on, it waits for a node of
\* the layer just before its own ("independent nodes in the same dependency
\* layer run concurrently", README).
LayersAreEarliest ==
    \A k \in DOMAIN layers : \A n \in layers[k] :
        k > 1 => \E d \in layers[k - 1] : DependencyOf(n, d)

\* The verdict is exact: "cycle detected" only for a graph with a cycle, and a
\* plan only for a graph without one, in which case every node has a layer.
VerdictIsExact ==
    /\ plan = "cycle" => HasCycle
    /\ plan = "layered" => ~HasCycle /\ Placed = Node

-----------------------------------------------------------------------------
(* The inductive invariant the proofs use; the runs check it too.          *)

\* The occurrences in depends_on[n] of nodes that are not released yet.
OpenDeps(n) ==
    {i \in DOMAIN dependsOn[n] : dependsOn[n][i] \in DOMAIN indegree}

Released == Node \ DOMAIN indegree

\* indegree counts the unreleased occurrences, released ids and ids of the
\* newest layer have none, and visited counts the nodes that have a layer.
Bookkeeping ==
    /\ \A n \in DOMAIN indegree : indegree[n] = Cardinality(OpenDeps(n))
    /\ \A n \in Released \cup pending : OpenDeps(n) = {}
    /\ Placed = Released \cup pending
    /\ visited = Cardinality(Placed)

\* A cycle is never entered.
CyclesStayOut ==
    \A S \in SUBSET Node : SelfSupporting(S) => S \cap Placed = {}

\* An unplaced node waits for an unplaced node or for one of the newest layer.
NoneHeldBack ==
    \A n \in Node \ Placed :
        layers # <<>> =>
            \E d \in Node : /\ DependencyOf(n, d)
                            /\ d \in layers[Len(layers)] \/ d \notin Placed

Inv ==
    /\ TypeOK
    /\ Bookkeeping
    /\ LayersRespectDependencies
    /\ LayersAreDisjoint
    /\ CyclesStayOut
    /\ NoneHeldBack
    /\ LayersAreEarliest
    /\ VerdictIsExact
=============================================================================
