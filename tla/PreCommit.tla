----------------------------- MODULE PreCommit -----------------------------
(***************************************************************************)
(* The quality gate: RunPreCommit with loadStagedFiles,                    *)
(* DetectBannedAttribution, runCoverage and ParseCoverProfile              *)
(* (internal/quality).                                                     *)
(*                                                                         *)
(* The gate asks git for the staged files, then for the staged content of  *)
(* each by the name git printed, one command after the other, and at last  *)
(* runs the tests of the working tree.  The author may edit and stage      *)
(* between any two of these, and git may fail at any of them.              *)
(*                                                                         *)
(* Of a file only this is told apart: is it there and of which type, does  *)
(* it hold a banned term, do the tests run its statements.  Numbers are    *)
(* exact: the gate computes with float64.                                  *)
(***************************************************************************)
EXTENDS Integers, FiniteSets, FiniteSetsExt

CONSTANTS
    File,          \* the files of the repository
    Statements,    \* how many statements each has
    Committed,     \* what a file of the last commit may hold
    Unknown,       \* a printed name git does not read back: it is in quotes
    Blank,         \* a printed name of blanks only
    Names,         \* how git may print the names of the files
    Scale,         \* thresholds are counted in 1/Scale percent
    Thresholds,    \* the values of --threshold considered
    Precision,     \* 1/Precision is the slack of the comparison, 0.00001
    MaxEdits       \* bound on what the author does during one check

DefaultThreshold == 70 * Scale

\* A file holds Go code or text, or is a symbolic link or a submodule.
Regular == {"covered", "uncovered", "banned"}
Content == Regular \cup {"absent", "link", "module"}

\* Trimmed, a name may be the name of another file, which has no blanks to lose.
ASSUME NamesAssumption ==
    /\ {Unknown, Blank} \cap File = {} /\ Unknown # Blank
    /\ Names \subseteq [File -> File \cup {Unknown, Blank}]
    /\ \A m \in Names : \A f \in File : m[f] \in File => m[m[f]] = m[f]
ASSUME StatementsAssumption == IsFiniteSet(File) /\ Statements \in [File -> Nat]
ASSUME NumbersAssumption ==
    /\ Precision \in Nat \ {0} /\ Scale \in Nat \ {0} /\ MaxEdits \in Nat
    /\ Thresholds \subseteq Int
ASSUME CommittedAssumption == Committed \subseteq Content

VARIABLES
    name,       \* File -> the file that is named by what git prints, trimmed
    head,       \* File -> Content, of the last commit
    index,      \* what is staged
    tree,       \* the working tree
    threshold,  \* --threshold
    phase,      \* "listing", "reading", "testing", "passed" or "rejected"
    listed,     \* the staged files still to be read
    contents,   \* the staged contents read: pairs of file and content
    cause,      \* why the gate rejected
    summary,    \* CoverageSummary: statements covered, and all
    edits,      \* steps of the author so far
    touched,    \* history: the files staged again during the check
    faulted     \* history: git failed at what it could have done

repository == <<name, head, index, tree, edits, touched>>
gate == <<threshold, phase, listed, contents, cause, summary, faulted>>
vars == <<repository, gate>>

Init ==
    /\ name \in Names
    /\ head \in [File -> Committed]
    /\ index \in [File -> Content]
    /\ tree \in [File -> Content]
    /\ threshold \in Thresholds
    /\ phase = "listing"
    /\ listed = {}
    /\ contents = {}
    /\ cause = "none"
    /\ summary = [covered |-> 0, total |-> 0]
    /\ edits = 0
    /\ touched = {}
    /\ faulted = FALSE

-----------------------------------------------------------------------------

\* (mutant) deleted files are listed, too
Listed_Deleted == {f \in File : index[f] # head[f]}

IsNew(f) == head[f] = "absent"

SameType(f) == {head[f], index[f]} \subseteq Regular \/ head[f] = index[f]

\* git diff --cached --name-only --diff-filter=ACMR: neither what is deleted nor
\* what changed its type (D, T).
Listed == {f \in File : index[f] \notin {head[f], "absent"} /\ (IsNew(f) \/ SameType(f))}

\* A name that is trimmed to nothing is passed over.
List ==
    /\ phase = "listing"
    /\ listed' = {f \in Listed : name[f] # Blank}
    /\ phase' = "reading"
    /\ UNCHANGED <<repository, threshold, contents, cause, summary, faulted>>

Reject(why) ==
    /\ phase' = "rejected"
    /\ cause' = why

ListFails ==
    /\ phase = "listing"
    /\ Reject("git")
    /\ faulted' = TRUE
    /\ UNCHANGED <<repository, threshold, listed, contents, summary>>

\* (mutant) the content of the working tree
ContentOf_Tree(f) == tree[f]

\* git show :path, of a file, or of the target of a link
ContentOf(f) == index[f]

\* git shows nothing under a name in quotes, nor what a submodule is.
CanRead(f) == name[f] \in File /\ ContentOf(name[f]) \notin {"absent", "module"}

Read(f) ==
    /\ phase = "reading"
    /\ f \in listed
    /\ CanRead(f)
    /\ listed' = listed \ {f}
    /\ contents' = contents \cup {<<name[f], ContentOf(name[f])>>}
    /\ UNCHANGED <<repository, threshold, phase, cause, summary, faulted>>

ReadFails(f) ==
    /\ phase = "reading"
    /\ f \in listed
    /\ Reject("git")
    /\ faulted' = CanRead(f)
    /\ UNCHANGED <<repository, threshold, listed, contents, summary>>

Findings == {c \in contents : c[2] = "banned"}

FindTerms ==
    /\ phase = "reading"
    /\ listed = {}
    /\ IF Findings # {}
       THEN Reject("attribution")
       ELSE phase' = "testing" /\ UNCHANGED cause
    /\ UNCHANGED <<repository, threshold, listed, contents, summary, faulted>>

-----------------------------------------------------------------------------

StatementsIn(files) == MapThenSumSet(LAMBDA f : Statements[f], files)

\* ParseCoverProfile of "go test ./... -coverprofile", which is run in the
\* working tree.
CoverProfile ==
    [covered |-> StatementsIn({f \in File : tree[f] \in {"covered", "banned"}}),
     total |-> StatementsIn({f \in File : tree[f] \in Regular})]

\* The tests fail, or the profile has no statements.
TestsFail ==
    /\ phase = "testing"
    /\ Reject("tests")
    /\ UNCHANGED <<repository, threshold, listed, contents, summary, faulted>>

\* (mutant) zero is a threshold
Required_AsGiven == threshold

\* Zero is taken for unset.
Required == IF threshold = 0 THEN DefaultThreshold ELSE threshold

\* The slack and a percentage of the statements, times Scale * Precision * total.
Slack(s) == s.total * Scale
Percentage(s) == 100 * s.covered * Scale * Precision
Floor(s) == Required * s.total * Precision

\* coverage.Percent + 0.00001 < threshold
IsBelow(s) == Percentage(s) + Slack(s) < Floor(s)

TestsPass ==
    /\ phase = "testing"
    /\ CoverProfile.total > 0
    /\ summary' = CoverProfile
    /\ IF IsBelow(CoverProfile)
       THEN Reject("coverage")
       ELSE phase' = "passed" /\ UNCHANGED cause
    /\ UNCHANGED <<repository, threshold, listed, contents, faulted>>

GateStep ==
    \/ List
    \/ ListFails
    \/ \E f \in File : Read(f) \/ ReadFails(f)
    \/ FindTerms
    \/ TestsFail
    \/ TestsPass

-----------------------------------------------------------------------------
(* The author.                                                             *)

Busy == phase \notin {"passed", "rejected"} /\ edits < MaxEdits

Edit(f, content) ==
    /\ Busy
    /\ tree' = [tree EXCEPT ![f] = content]
    /\ edits' = edits + 1
    /\ UNCHANGED <<name, head, index, touched, gate>>

Stage(f) ==
    /\ Busy
    /\ index' = [index EXCEPT ![f] = tree[f]]
    /\ touched' = touched \cup {f}
    /\ edits' = edits + 1
    /\ UNCHANGED <<name, head, tree, gate>>

AuthorStep == \E f \in File : Stage(f) \/ \E c \in Content : Edit(f, c)

Next == GateStep \/ AuthorStep

Spec == Init /\ [][Next]_vars

-----------------------------------------------------------------------------
(* Properties.                                                             *)

TypeOK ==
    /\ name \in Names
    /\ head \in [File -> Content]
    /\ index \in [File -> Content]
    /\ tree \in [File -> Content]
    /\ threshold \in Thresholds
    /\ phase \in {"listing", "reading", "testing", "passed", "rejected"}
    /\ listed \subseteq File
    /\ contents \subseteq File \X Content
    /\ cause \in {"none", "git", "attribution", "tests", "coverage"}
    /\ summary \in [covered : Nat, total : Nat]
    /\ edits \in 0..MaxEdits
    /\ touched \subseteq File
    /\ faulted \in BOOLEAN

\* A banned term the commit adds: staged before the check, not since.
AddsTerm(f) == f \notin touched /\ index[f] = "banned" /\ head[f] # "banned"

\* "so commits are checked exactly as staged" (git.go:11), with two exceptions: a
\* commit that passes adds a term only in a file that took the place of a link or a
\* submodule, or whose name begins or ends with blanks, whatever the author edits
\* and stages beside it meanwhile.
StagedTermsAreFound ==
    phase = "passed" =>
        \A f \in File : AddsTerm(f) => head[f] \in {"link", "module"} \/ name[f] # f

\* The gate blames attribution only for a term that is staged under a name git
\* printed, and git only when git failed by itself, the author staged something
\* during the check, or something is staged that git does not show by the name it
\* printed.  What is deleted is no reason.
RejectionHasCause ==
    LET Staged == {f \in File : index[f] \notin {head[f], "absent"}}
    IN  /\ cause = "attribution" =>
             touched # {} \/ \E f \in Staged : name[f] \in File /\ index[name[f]] = "banned"
        /\ cause = "git" =>
             \/ faulted
             \/ touched # {}
             \/ \E f \in Staged : name[f] \in File => index[name[f]] \in {"absent", "module"}

\* What the gate has listed and read of the files that were not staged again.
ReadingInv ==
    /\ phase = "listing" => listed = {} /\ contents = {}
    /\ \A f \in listed : f \in touched \/ f \in Listed
    /\ \A c \in contents : c[1] \in touched \/ index[c[1]] = c[2]
    /\ \A c \in contents : touched # {} \/ \E f \in Listed : name[f] = c[1]
    /\ phase \in {"reading", "testing", "passed"} =>
         \A f \in Listed \ touched :
            name[f] = f => f \in listed \/ <<f, index[f]>> \in contents

\* How far the gate has come.
PhaseInv ==
    /\ cause # "none" <=> phase = "rejected"
    /\ phase \in {"testing", "passed"} => listed = {} /\ Findings = {}

\* The tests are the last thing the gate asks, and their verdict is final.
VerdictInv ==
    /\ summary.total > 0 => phase = "passed" \/ cause = "coverage"
    /\ phase = "passed" => summary.total > 0 /\ ~IsBelow(summary)
    /\ cause = "coverage" => IsBelow(summary)

\* The inductive invariant of PreCommit_proofs.
Inv == TypeOK /\ ReadingInv /\ PhaseInv /\ RejectionHasCause /\ VerdictInv

\* The floor that is meant: zero stands for the default.
Meant == IF threshold = 0 THEN 70 * Scale ELSE threshold

Reaches(s) == 100 * s.covered * Scale >= Meant * s.total

\* No coverage that reaches the threshold is rejected for it, and one that does not
\* passes only by less than the slack: never if the threshold is a whole percentage
\* and the profile has fewer statements than the slack resolves.
FloorIsKept ==
    /\ cause = "coverage" => ~Reaches(summary)
    /\ phase = "passed" => Meant * summary.total * Precision
                             <= 100 * summary.covered * Scale * Precision + summary.total * Scale
    /\ phase = "passed" /\ Meant % Scale = 0 /\ summary.total < Precision => Reaches(summary)
=============================================================================
