---------------------------- MODULE WorkflowFile ----------------------------
(***************************************************************************)
(* From a workflow file to a run: workflow.Parse with decodeNodes,         *)
(* deriveType and Validate (internal/workflow/workflow.go), and the check  *)
(* of route positions that only RunWithOptions makes                       *)
(* (internal/engine/engine.go).                                            *)
(*                                                                         *)
(* A text field is TRUE when strings.TrimSpace leaves something of it.     *)
(* Validate ranges over a Go map, so it looks at the nodes in any order    *)
(* and stops at its first complaint.                                       *)
(***************************************************************************)
EXTENDS Integers, Sequences, FiniteSets

CONSTANTS
    Id,      \* node ids, numbers in their alphabetical order
    NoId,    \* a blank id
    Files,   \* the files considered
    Half,    \* half the range of a time.Duration: 2^63 for its 64 bits
    Milli    \* a millisecond in its unit

ASSUME IdAssumption == NoId \notin Id /\ IsFiniteSet(Id) /\ Id = 1..Cardinality(Id)
ASSUME DurationAssumption == Half \in Nat \ {0} /\ Milli \in Nat \ {0}

NodeType == {"command", "human_gate", "agent", "loop"}

\* RouteTarget; "absent" when the node has no route.on_failure.
RouteField == [kind : {"absent", "present"}, to : Id \cup {NoId},
               maxIterations : Int, maxRepeatedFailures : Int]

\* timeout as written: strconv.Atoi reads a number, time.ParseDuration a
\* duration (value is then what it says), or neither does.
TimeoutField == [kind : {"absent", "number", "duration", "invalid"}, value : Int]

\* One item under "nodes": its key, for a mapping, and the fields that decide.
Entry == [key : Id \cup {NoId}, id : Id \cup {NoId}, malformed : BOOLEAN,
          type : NodeType \cup {"", "unsupported"},
          command : BOOLEAN, bash : BOOLEAN, prompt : BOOLEAN, approval : BOOLEAN,
          loop : {"absent", "blank", "prompt"}, dependsOn : SUBSET Id,
          route : RouteField, timeout : TimeoutField]

\* named: the fields above "nodes" are known ones, and name is not blank.
File == [named : BOOLEAN, form : {"mapping", "sequence"}, entries : Seq(Entry)]

ASSUME FilesAssumption == Files \subseteq File

VARIABLES
    file,      \* the file being read
    phase,     \* "decoding", "validating", "accepted", "rejected", "running", "refused"
    next,      \* the entry decodeNodes is at
    nodes,     \* wf.Nodes so far
    checked,   \* the nodes Validate has found nothing wrong with
    timeouts   \* Timeout of the checked nodes

vars == <<file, phase, next, nodes, checked, timeouts>>

Init ==
    /\ file \in Files
    /\ phase = "decoding"
    /\ next = 1
    /\ nodes = <<>>
    /\ checked = {}
    /\ timeouts = <<>>

\* m[key] = value, for a Go map
Store(m, key, value) == [k \in DOMAIN m \cup {key} |-> IF k = key THEN value ELSE m[k]]

Reject ==
    /\ phase' = "rejected"
    /\ UNCHANGED <<file, next, nodes, checked, timeouts>>

-----------------------------------------------------------------------------
(* decodeNodes.                                                            *)

\* (mutant) a derived type is named after its field
DerivedType_Field(e) ==
    IF e.type # "" THEN e.type
    ELSE IF e.approval THEN "approval"
    ELSE IF e.loop # "absent" THEN "loop"
    ELSE IF e.bash THEN "command"
    ELSE IF e.prompt \/ e.command THEN "agent"
    ELSE ""

DerivedType(e) ==
    IF e.type # "" THEN e.type
    ELSE IF e.approval THEN "human_gate"
    ELSE IF e.loop # "absent" THEN "loop"
    ELSE IF e.bash THEN "command"
    ELSE IF e.prompt \/ e.command THEN "agent"
    ELSE ""

\* (mutant) bash is copied to no command
Derived_BashStays(e) == [e EXCEPT !.type = DerivedType(e)]

\* deriveType: bash becomes the command, and the loop's prompt the prompt, only
\* where the type is derived.
Derived(e) ==
    [e EXCEPT
        !.type = DerivedType(e),
        !.command = IF e.type = "" /\ DerivedType(e) = "command" THEN TRUE ELSE @,
        !.prompt = IF e.type = "" /\ DerivedType(e) = "loop" THEN e.loop = "prompt" ELSE @]

Decoding == phase = "decoding" /\ next <= Len(file.entries)

\* In a mapping the key names the node, in a sequence the field id.
NameOf(e) == IF file.form = "mapping" THEN e.key ELSE e.id

\* (mutant) a sequence may name a node twice, as a mapping may
CannotDecode_NoDuplicates(e) ==
    \/ e.malformed
    \/ file.form = "sequence" /\ e.id = NoId

\* A sequence refuses a missing and a repeated id; in a mapping the last entry
\* of a key wins.
CannotDecode(e) ==
    \/ e.malformed
    \/ file.form = "sequence" /\ (e.id = NoId \/ e.id \in DOMAIN nodes)

DecodeEntry ==
    LET e == file.entries[next]
    IN  /\ Decoding
        /\ ~CannotDecode(e)
        /\ nodes' = Store(nodes, NameOf(e), Derived(e))
        /\ next' = next + 1
        /\ UNCHANGED <<file, phase, checked, timeouts>>

RejectEntry == Decoding /\ CannotDecode(file.entries[next]) /\ Reject

\* Parse goes on to Validate, and its first two checks.
Decoded ==
    /\ phase = "decoding"
    /\ next > Len(file.entries)
    /\ phase' = IF file.named /\ DOMAIN nodes # {} THEN "validating" ELSE "rejected"
    /\ UNCHANGED <<file, next, nodes, checked, timeouts>>

-----------------------------------------------------------------------------
(* Validate.                                                               *)

\* What the node's type asks for.
HasContent(node) ==
    CASE node.type = "command" -> node.command
      [] node.type = "human_gate" -> TRUE
      [] node.type = "agent" -> node.prompt \/ node.command
      [] node.type = "loop" -> node.loop = "prompt"
      [] OTHER -> FALSE

RouteIsSound(route) ==
    route.kind = "present" =>
        /\ route.to # NoId
        /\ route.to \in DOMAIN nodes
        /\ route.maxIterations >= 0
        /\ route.maxRepeatedFailures >= 0

IsSound(id) ==
    /\ id # NoId
    /\ HasContent(nodes[id])
    /\ nodes[id].dependsOn \subseteq DOMAIN nodes
    /\ RouteIsSound(nodes[id].route)
    /\ nodes[id].timeout.kind # "invalid"

\* A product of two int64, as time.Duration(ms) * time.Millisecond is.
Wrapped(n) == ((n + Half) % (2 * Half)) - Half

ParseTimeout(raw) ==
    CASE raw.kind = "number" -> Wrapped(raw.value * Milli)
      [] raw.kind = "duration" -> raw.value
      [] OTHER -> 0

Unchecked == IF phase = "validating" THEN DOMAIN nodes \ checked ELSE {}

CheckNode(id) ==
    /\ id \in Unchecked
    /\ IsSound(id)
    /\ checked' = checked \cup {id}
    /\ timeouts' = Store(timeouts, id, ParseTimeout(nodes[id].timeout))
    /\ UNCHANGED <<file, phase, next, nodes>>

RejectNode(id) == id \in Unchecked /\ ~IsSound(id) /\ Reject

-----------------------------------------------------------------------------
(* PlanLayers, as module Planner shows it to be, and the route positions.  *)

\* The nodes of the first k layers.
LayersUpTo[k \in 0..Cardinality(Id)] ==
    IF k = 0 THEN {} ELSE {n \in DOMAIN nodes : nodes[n].dependsOn \subseteq LayersUpTo[k - 1]}

Cyclic == LayersUpTo[Cardinality(Id)] # DOMAIN nodes

LayerOf(n) == CHOOSE k \in 1..Cardinality(Id) : n \in LayersUpTo[k] \ LayersUpTo[k - 1]

Plan ==
    /\ phase = "validating"
    /\ Unchecked = {}
    /\ phase' = IF Cyclic THEN "rejected" ELSE "accepted"
    /\ UNCHANGED <<file, next, nodes, checked, timeouts>>

\* The order of flattenLayers.
Before(m, n) == LayerOf(m) < LayerOf(n) \/ (LayerOf(m) = LayerOf(n) /\ m < n)

Routes == {n \in DOMAIN nodes : nodes[n].route.kind = "present"}

\* (mutant) a route must lead to an earlier layer but one
RoutesPointBack_Further ==
    \A n \in Routes : LayerOf(nodes[n].route.to) + 1 < LayerOf(n)

RoutesPointBack == \A n \in Routes : Before(nodes[n].route.to, n)

\* A new run or a resume. Without routes there is nothing to point back.
StartRun ==
    /\ phase = "accepted"
    /\ phase' = IF RoutesPointBack THEN "running" ELSE "refused"
    /\ UNCHANGED <<file, next, nodes, checked, timeouts>>

Next ==
    \/ DecodeEntry
    \/ RejectEntry
    \/ Decoded
    \/ \E id \in Unchecked : CheckNode(id) \/ RejectNode(id)
    \/ Plan
    \/ StartRun

Spec == Init /\ [][Next]_vars

-----------------------------------------------------------------------------
(* What the engine makes of a timeout.                                     *)

DefaultTimeout == 1

\* (mutant) a node without a timeout has none
Deadline_NoDefault(n) == timeouts[n]

\* The deadline executeNode gives the node.
Deadline(n) == IF timeouts[n] = 0 THEN DefaultTimeout ELSE timeouts[n]

-----------------------------------------------------------------------------
(* Properties.                                                             *)

TypeOK ==
    /\ file \in Files
    /\ phase \in {"decoding", "validating", "accepted", "rejected", "running", "refused"}
    /\ next \in 1..(Len(file.entries) + 1)
    /\ DOMAIN nodes \subseteq Id \cup {NoId}
    /\ \A n \in DOMAIN nodes : nodes[n] \in Entry
    /\ checked \subseteq DOMAIN nodes
    /\ DOMAIN timeouts = checked
    /\ \A n \in checked : timeouts[n] \in Int

\* The file read as a whole: of each name its last entry counts.
Names == {NameOf(file.entries[i]) : i \in DOMAIN file.entries}

Meant(name) ==
    file.entries[CHOOSE i \in DOMAIN file.entries :
                    /\ NameOf(file.entries[i]) = name
                    /\ \A j \in DOMAIN file.entries :
                        NameOf(file.entries[j]) = name => j <= i]

IsMeaningful(e) ==
    LET loops == e.loop = "prompt"
        speaks == e.prompt \/ e.command
    IN  CASE e.type = "command" -> e.command
          [] e.type = "agent" -> speaks
          [] e.type = "loop" -> loops
          [] e.type = "human_gate" -> TRUE
          [] e.type = "unsupported" -> FALSE
          [] e.type = "" -> e.approval \/ loops \/ (e.loop = "absent" /\ (e.bash \/ speaks))

IsValidFile ==
    /\ file.named
    /\ Names # {} /\ NoId \notin Names
    /\ \A i \in DOMAIN file.entries : ~file.entries[i].malformed
    /\ file.form = "sequence" => Cardinality(Names) = Len(file.entries)
    /\ \A n \in Names :
        /\ IsMeaningful(Meant(n))
        /\ Meant(n).dependsOn \subseteq Names
        /\ Meant(n).timeout.kind # "invalid"
        /\ Meant(n).route.kind = "present" =>
             /\ Meant(n).route.to \in Names
             /\ Meant(n).route.maxIterations >= 0 /\ Meant(n).route.maxRepeatedFailures >= 0
    /\ \A s \in SUBSET Names : s # {} => \E n \in s : Meant(n).dependsOn \cap s = {}

\* In whatever order Validate comes to the nodes, and wherever it or the decoder
\* stops: a file is accepted exactly when it is valid as a whole.
VerdictIsRight ==
    /\ phase \in {"accepted", "running", "refused"} => IsValidFile
    /\ phase = "rejected" => ~IsValidFile

\* No entry of an accepted sequence is lost (a mapping keeps one entry of each
\* key, the last).  A node is its entry: as it stands if the entry names a type,
\* and else but for the type, and the command or prompt, that deriveType gives it.
NoEntryIsLost ==
    phase \in {"accepted", "running", "refused"} =>
        /\ DOMAIN nodes = Names
        /\ file.form = "sequence" => Cardinality(DOMAIN nodes) = Len(file.entries)
        /\ \A n \in DOMAIN nodes :
            LET e == Meant(n)
            IN  /\ e.type # "" => nodes[n] = e
                /\ [nodes[n] EXCEPT !.type = e.type, !.command = e.command, !.prompt = e.prompt] = e
                /\ e.command => nodes[n].command

\* The nodes n waits for, directly or not: every set that holds its dependencies
\* and theirs.
WaitsFor(n, m) ==
    \A s \in SUBSET DOMAIN nodes :
        (/\ nodes[n].dependsOn \subseteq s
         /\ \A k \in s : nodes[k].dependsOn \subseteq s) => m \in s

\* An accepted workflow whose routes lead to nodes their node waits for is not
\* refused by the engine: no author of such a repair is surprised at run time.
RepairOfAncestorRuns ==
    phase = "refused" => \E n \in Routes : ~WaitsFor(n, nodes[n].route.to)

\* A node begins with its deadline in the past only if its timeout is written as
\* a negative number or is too long for a time.Duration.
OnlyOddTimeoutsExpire ==
    phase = "running" =>
        \A n \in DOMAIN nodes :
            Deadline(n) <= 0 =>
                \/ nodes[n].timeout.value < 0
                \/ nodes[n].timeout.value * Milli >= Half

-----------------------------------------------------------------------------
(* The invariant these follow from.                                        *)

Read == 1..(next - 1)

\* The last entry of a name among those read.
IsLast(i) ==
    i \in Read /\ \A j \in Read :
        NameOf(file.entries[j]) = NameOf(file.entries[i]) => j <= i

\* What is read could be decoded, and nodes holds the last of each name.
DecodeInv ==
    /\ \A i \in Read : ~file.entries[i].malformed
    /\ file.form = "sequence" =>
        \A i \in Read :
            /\ file.entries[i].id # NoId
            /\ \A j \in Read : file.entries[j].id = file.entries[i].id => j = i
    /\ DOMAIN nodes = {NameOf(file.entries[i]) : i \in Read}
    /\ \A i \in Read : IsLast(i) => nodes[NameOf(file.entries[i])] = Derived(file.entries[i])

\* Every set of nodes holds one that depends on none of them.
NoCycle ==
    \A s \in SUBSET DOMAIN nodes : s # {} => \E n \in s : nodes[n].dependsOn \cap s = {}

CheckInv ==
    /\ phase = "decoding" => checked = {}
    /\ \A n \in checked : IsSound(n) /\ timeouts[n] = ParseTimeout(nodes[n].timeout)
    /\ phase \notin {"decoding", "rejected"} =>
        /\ next = Len(file.entries) + 1
        /\ file.named /\ DOMAIN nodes # {}
    /\ phase \in {"accepted", "running", "refused"} => checked = DOMAIN nodes /\ NoCycle

Inv ==
    /\ TypeOK
    /\ DecodeInv
    /\ CheckInv
    /\ VerdictIsRight
    /\ RepairOfAncestorRuns
=============================================================================
