---------------------------- MODULE WorkflowRun ----------------------------
(***************************************************************************)
(* What micromage promises of a workflow run, whichever of its two engines *)
(* runs it: RouteRun and LayerRun implement this specification.            *)
(*                                                                         *)
(* A run goes on over several sessions.  In a session every node is        *)
(* decided once, after its dependencies and in agreement with its trigger  *)
(* rule; a repair may take decisions back.  What passed is trusted by the  *)
(* next session as far as it is on record, a gate passes by review only,   *)
(* and the verdict of a session agrees with what happened to its nodes.    *)
(***************************************************************************)
CONSTANT Node

VARIABLES
    plan,      \* of each node: whether it is a human gate, depends_on, trigger_rule
    verdict,   \* "unstarted", "open", or how the latest session ended
    status,    \* what the session decided, or "trusted" for a recorded pass
    active,    \* the nodes at work
    record,    \* the nodes the state file has as passed
    kept,      \* the nodes a process may record as passed when it saves
    asked      \* the gates a reviewer may be asked to approve

vars == <<plan, verdict, status, active, record, kept, asked>>

Init ==
    /\ plan \in [Node -> [gate : BOOLEAN, deps : SUBSET Node,
                          trigger : {"all_success", "one_success", "all_done"}]]
    /\ verdict = "unstarted"
    /\ status = [n \in Node |-> "none"]
    /\ active = {}
    /\ record = {}
    /\ kept = {}
    /\ asked = {}

-----------------------------------------------------------------------------
(* Sessions.                                                               *)

\* A session begins when none is open and none left a node at work; it may be
\* refused at once.
Enter(initial) ==
    /\ verdict # "open"
    /\ active = {}
    /\ verdict' \in {"open", "failed"}
    /\ status' = initial
    /\ asked' = {}
    /\ UNCHANGED <<plan, active>>

Begin ==
    /\ Enter([n \in Node |-> "none"])
    /\ record' = {}
    /\ kept' = {}

\* "Resume mode trusts persisted successful work", and nothing else.
Resume ==
    /\ verdict # "unstarted"
    /\ Enter([n \in Node |-> IF n \in record THEN "trusted" ELSE "none"])
    /\ kept' = record
    /\ UNCHANGED record

\* A reviewer approves a gate that has asked.
Approve(n) ==
    /\ n \in asked
    /\ record' \subseteq record \cup kept \cup {n}
    /\ asked' \subseteq asked
    /\ kept' \subseteq kept
    /\ UNCHANGED <<plan, verdict, status, active>>

\* The process ends, by itself or not; what it kept in memory may be gone.
End ==
    /\ verdict' \in {verdict, "crashed"}
    /\ verdict' # "open"
    /\ active' = {}
    /\ status' \in {status, [n \in Node |-> "none"]}
    /\ kept' \subseteq kept
    /\ asked' \subseteq asked
    /\ UNCHANGED <<plan, record>>

-----------------------------------------------------------------------------
(* Nodes.                                                                  *)

Done == {"passed", "trusted"}

\* An undecided node whose dependencies are all decided.
Considered(n) ==
    /\ verdict = "open"
    /\ n \notin active
    /\ status[n] = "none"
    /\ \A d \in plan[n].deps :
        d \notin active /\ status[d] \in Done \cup {"failed", "skipped"}

Triggered(n) ==
    LET deps == plan[n].deps
        passed == {d \in deps : status[d] \in Done}
    IN  deps # {} => /\ plan[n].trigger = "all_success" => passed = deps
                     /\ plan[n].trigger = "one_success" => passed # {}

Start(n) ==
    /\ Considered(n)
    /\ Triggered(n)
    /\ ~plan[n].gate
    /\ active' = active \cup {n}
    /\ UNCHANGED status

Finish(n) ==
    /\ n \in active
    /\ active' = active \ {n}
    /\ \E result \in {"passed", "failed"} : status' = [status EXCEPT ![n] = result]

Skip(n) ==
    /\ Considered(n)
    /\ status' = [status EXCEPT ![n] = "skipped"]
    /\ UNCHANGED active

Pause(n) ==
    /\ Considered(n)
    /\ Triggered(n)
    /\ plan[n].gate
    /\ status' = [status EXCEPT ![n] = "paused"]
    /\ UNCHANGED active

\* A failure takes decisions back, with every decision of the session that
\* depends on one of them.
TakeBack(n, nodes) ==
    /\ verdict = "open"
    /\ n \in active \cap nodes
    /\ \A m \in Node \ nodes :
        plan[m].deps \cap nodes # {} => status[m] \in {"none", "trusted"}
    /\ active' = active \ {n}
    /\ status' = [m \in Node |-> IF m \in nodes THEN "none" ELSE status[m]]

Decide ==
    \/ \E n \in Node : Start(n) \/ Finish(n) \/ Skip(n) \/ Pause(n)
    \/ \E n \in Node, nodes \in SUBSET Node : TakeBack(n, nodes)
    \/ UNCHANGED <<status, active>>

\* The verdict is given once, and what it says happened.
Conclude ==
    \/ verdict' = verdict
    \/ /\ verdict = "open"
       /\ \/ /\ verdict' = "passed"
             /\ active' = {}
             /\ \A n \in Node : status'[n] \in Done \cup {"skipped"}
          \/ verdict' = "failed" /\ \E n \in Node : status'[n] = "failed"
          \/ verdict' = "paused" /\ \E n \in Node : status'[n] = "paused"

\* Nothing is recorded as passed that did not pass; the record may lag behind.
Keep ==
    /\ kept' \subseteq kept \cup record \cup {n \in Node : status'[n] \in Done}
    /\ record' \subseteq record \cup kept'
    /\ asked' \subseteq asked \cup {n \in Node : status'[n] = "paused"}

Work == Decide /\ Conclude /\ Keep /\ UNCHANGED plan

Next ==
    \/ Begin
    \/ Resume
    \/ \E n \in Node : Approve(n)
    \/ End
    \/ Work

Spec == Init /\ [][Next]_vars
=============================================================================
