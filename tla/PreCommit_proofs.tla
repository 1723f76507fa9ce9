-------------------------- MODULE PreCommit_proofs --------------------------
(***************************************************************************)
(* Theorems about PreCommit: what a commit may hold that the gate lets     *)
(* pass, why it rejects, and by how much coverage may miss the floor, for  *)
(* every set of files, every way git prints their names, every author, and *)
(* every threshold and slack that are rational numbers.                    *)
(*                                                                         *)
(* The sums of a coverage profile are a fold, which MapThenSumSet defines  *)
(* by recursion over the subsets of its set.  That the recursion defines a *)
(* function is shown here by induction over the subsets: a family of them  *)
(* that holds each one whose smaller ones it holds has them all.           *)
(***************************************************************************)
EXTENDS PreCommit, FiniteSetTheorems, WellFoundedInduction, TLAPS

LEMMA SubsetInduction ==
    ASSUME NEW S, IsFiniteSet(S), NEW F,
           \A s \in SUBSET S : (\A t \in SUBSET s : t # s => t \in F) => s \in F
    PROVE  SUBSET S \subseteq F
<1>. SUFFICES ASSUME (SUBSET S) \ F # {} PROVE FALSE
  OBVIOUS
<1>. DEFINE R == StrictSubsetOrdering(S)
            T == (SUBSET S) \ F
<1>1. FiniteSubsetsOf(S) = SUBSET S
  BY FS_FiniteSubsetsOfFinite
<1>2. IsWellFoundedOn(R, FiniteSubsetsOf(S))
  BY FS_StrictSubsetOrderingWellFounded
<1>3. IsWellFoundedOn(R, SUBSET S)
  BY <1>1, <1>2, Zenon
<1>4. T \subseteq SUBSET S /\ T # {}
  OBVIOUS
<1>. HIDE DEF R, T
<1>5. PICK s \in T : \A t \in T : ~(<<t, s>> \in R)
  BY <1>3, <1>4, WFMin
<1>. USE DEF T
<1>6. \A t \in SUBSET s : t # s => t \in F
  BY <1>5 DEF R, StrictSubsetOrdering
<1>. QED
  BY <1>5, <1>6

\* The element a sum begins with, the function MapThenSumSet chooses, and the
\* equation it is chosen by.
First(s) == CHOOSE f \in s : TRUE

Sums(S) ==
    CHOOSE g : g = [s \in SUBSET S |->
        IF s = {} THEN 0 ELSE Statements[First(s)] + g[s \ {First(s)}]]

IsSum(g, S) ==
    \A s \in SUBSET S :
        g[s] = IF s = {} THEN 0 ELSE Statements[First(s)] + g[s \ {First(s)}]

LEMMA FirstIsElement == ASSUME NEW s, s # {} PROVE First(s) \in s
BY DEF First

\* What satisfies the equation is the same on every subset.
LEMMA SumIsUnique ==
    ASSUME NEW S, IsFiniteSet(S), NEW g, NEW h, IsSum(g, S), IsSum(h, S)
    PROVE  \A s \in SUBSET S : g[s] = h[s]
<1>. DEFINE F == {s \in SUBSET S : g[s] = h[s]}
<1>1. ASSUME NEW s \in SUBSET S, \A t \in SUBSET s : t # s => t \in F
      PROVE  s \in F
  <2>1. CASE s = {}
    BY <2>1 DEF IsSum
  <2>2. CASE s # {}
    <3>1. s \ {First(s)} \in F
      BY <1>1, <2>2, FirstIsElement
    <3>. QED
      BY <2>2, <3>1 DEF IsSum
  <2>. QED
    BY <2>1, <2>2
<1>. HIDE DEF F
<1>2. SUBSET S \subseteq F
  BY <1>1, SubsetInduction
<1>. QED
  BY <1>2 DEF F

\* Something satisfies it: the functions of the smaller subsets agree, and
\* together they are one for the set itself.
LEMMA SumExists ==
    ASSUME NEW S, IsFiniteSet(S)
    PROVE  \E g : IsSum(g, S)
<1>. DEFINE F == {s \in SUBSET S : \E g : IsSum(g, s)}
<1>1. ASSUME NEW s \in SUBSET S, \A t \in SUBSET s : t # s => t \in F
      PROVE  s \in F
  <2>. DEFINE Some(t) == CHOOSE g : IsSum(g, t)
              below == [t \in SUBSET s |-> Some(t)[t]]
              all == [t \in SUBSET s |->
                        IF t = {} THEN 0 ELSE Statements[First(t)] + below[t \ {First(t)}]]
  <2>1. \A t \in SUBSET s : t # s => IsSum(Some(t), t)
    BY <1>1
  <2>. HIDE DEF Some
  <2>2. ASSUME NEW t \in SUBSET s, t # {}, t # s
        PROVE  below[t] = Statements[First(t)] + below[t \ {First(t)}]
    <3>. DEFINE u == t \ {First(t)}
    <3>1. u \in SUBSET t /\ u \in SUBSET s /\ u # s
      BY <2>2, FirstIsElement
    <3>2. IsSum(Some(t), t) /\ IsSum(Some(u), u)
      BY <2>1, <2>2, <3>1
    <3>3. IsSum(Some(t), u)
      BY <3>1, <3>2 DEF IsSum
    <3>4. IsFiniteSet(u)
      BY <3>1, FS_Subset
    <3>5. Some(t)[u] = Some(u)[u]
      BY <3>2, <3>3, <3>4, SumIsUnique
    <3>6. Some(t)[t] = Statements[First(t)] + Some(t)[u]
      BY <3>2, <2>2 DEF IsSum
    <3>. QED
      BY <3>1, <3>5, <3>6
  <2>3. below[{}] = 0 \/ s = {}
    BY <2>1 DEF IsSum
  <2>4. ASSUME NEW t \in SUBSET s
        PROVE  all[t] = IF t = {} THEN 0 ELSE Statements[First(t)] + all[t \ {First(t)}]
    <3>1. CASE t = {}
      BY <3>1
    <3>2. CASE t # {}
      <4>. DEFINE u == t \ {First(t)}
      <4>1. u \in SUBSET s /\ u # s
        BY <3>2, FirstIsElement
      <4>2. all[u] = below[u]
        BY <4>1, <2>2, <2>3
      <4>. QED
        BY <4>1, <4>2, <3>2
    <3>. QED
      BY <3>1, <3>2
  <2>5. IsSum(all, s)
    BY <2>4 DEF IsSum
  <2>. QED
    BY <2>5
<1>. HIDE DEF F
<1>2. SUBSET S \subseteq F
  BY <1>1, SubsetInduction
<1>. QED
  BY <1>2 DEF F

LEMMA SumsEquation ==
    ASSUME NEW S, IsFiniteSet(S)
    PROVE  IsSum(Sums(S), S)
<1>1. PICK g : IsSum(g, S)
  BY SumExists
<1>. DEFINE h == [s \in SUBSET S |-> g[s]]
<1>2. h = [s \in SUBSET S |->
             IF s = {} THEN 0 ELSE Statements[First(s)] + h[s \ {First(s)}]]
  BY <1>1 DEF IsSum
<1>3. Sums(S) = [s \in SUBSET S |->
             IF s = {} THEN 0 ELSE Statements[First(s)] + Sums(S)[s \ {First(s)}]]
  BY <1>2, Zenon DEF Sums
<1>. QED
  BY <1>3, Zenon DEF IsSum

\* A profile counts statements.
LEMMA StatementsAreCounted ==
    ASSUME NEW files \in SUBSET File
    PROVE  StatementsIn(files) \in Nat
<1>. DEFINE total == Sums(files)
            F == {s \in SUBSET files : total[s] \in Nat}
<1>1. IsFiniteSet(files)
  BY StatementsAssumption, FS_Subset
<1>2. IsSum(total, files)
  BY <1>1, SumsEquation
<1>. HIDE DEF total
<1>3. ASSUME NEW s \in SUBSET files, \A t \in SUBSET s : t # s => t \in F
      PROVE  s \in F
  <2>1. CASE s = {}
    BY <1>2, <2>1 DEF IsSum
  <2>2. CASE s # {}
    <3>1. First(s) \in s /\ s \ {First(s)} \in F
      BY <1>3, <2>2, FirstIsElement
    <3>2. Statements[First(s)] \in Nat
      BY <3>1, StatementsAssumption
    <3>. QED
      BY <1>2, <2>2, <3>1, <3>2 DEF IsSum
  <2>. QED
    BY <2>1, <2>2
<1>. HIDE DEF F
<1>4. SUBSET files \subseteq F
  BY <1>1, <1>3, SubsetInduction
<1>5. total[files] \in Nat
  BY <1>4 DEF F
<1>6. StatementsIn(files) = total[files]
  BY Zenon DEF total, StatementsIn, Sums, First, MapThenSumSet, MapThenFoldSet
<1>. QED
  BY <1>5, <1>6

LEMMA ProfileType == CoverProfile \in [covered : Nat, total : Nat]
<1>. DEFINE run == {f \in File : tree[f] \in {"covered", "banned"}}
            there == {f \in File : tree[f] \in Regular}
<1>1. StatementsIn(run) \in Nat /\ StatementsIn(there) \in Nat
  BY StatementsAreCounted
<1>. QED
  BY <1>1 DEF CoverProfile

-----------------------------------------------------------------------------
(* The invariant.                                                          *)

LEMMA InitInv == Init => Inv
<1>. SUFFICES ASSUME Init PROVE Inv
  OBVIOUS
<1>1. TypeOK
  <2>1. head \in [File -> Content]
    BY CommittedAssumption DEF Init
  <2>2. summary \in [covered : Nat, total : Nat] /\ edits \in 0..MaxEdits
    BY NumbersAssumption DEF Init
  <2>. QED
    BY <2>1, <2>2 DEF Init, TypeOK
<1>2. ReadingInv /\ PhaseInv /\ RejectionHasCause /\ VerdictInv
  BY DEF Init, ReadingInv, PhaseInv, RejectionHasCause, VerdictInv
<1>. QED
  BY <1>1, <1>2 DEF Inv

-----------------------------------------------------------------------------
(* The gate.                                                               *)

\* Before the tests there is no verdict.
LEMMA NoVerdict ==
    ASSUME Inv, phase \notin {"passed", "rejected"}, UNCHANGED summary,
           phase' # "passed", cause' # "coverage"
    PROVE  VerdictInv'
BY DEF Inv, TypeOK, PhaseInv, VerdictInv

LEMMA ListStep == ASSUME Inv, List \/ ListFails PROVE Inv'
<1>. USE DEF List, ListFails, Reject, repository
<1>1. TypeOK'
  BY DEF Inv, TypeOK, Listed
<1>2. ReadingInv'
  <2>1. CASE List
    <3>1. contents' = {} /\ Listed' = Listed /\ touched' = touched /\ phase' = "reading"
      BY <2>1 DEF Inv, ReadingInv, Listed, IsNew, SameType
    <3>2. \A f \in Listed : name[f] = f => f \in listed'
      BY <2>1, NamesAssumption DEF Listed
    <3>. QED
      BY <2>1, <3>1, <3>2 DEF ReadingInv
  <2>2. CASE ListFails
    BY <2>2 DEF Inv, ReadingInv
  <2>. QED
    BY <2>1, <2>2
<1>3. PhaseInv' /\ RejectionHasCause'
  BY DEF Inv, PhaseInv, RejectionHasCause
<1>4. VerdictInv'
  BY NoVerdict DEF Inv, PhaseInv
<1>. QED
  BY <1>1, <1>2, <1>3, <1>4 DEF Inv

LEMMA ReadStep == ASSUME Inv, NEW f \in File, Read(f) PROVE Inv'
<1>. USE DEF Read, repository, CanRead, ContentOf
<1>1. TypeOK'
  BY DEF Inv, TypeOK
<1>2. ReadingInv'
  <2>1. /\ contents' = contents \cup {<<name[f], index[name[f]]>>}
        /\ listed' = listed \ {f} /\ Listed' = Listed
    BY DEF Listed, IsNew, SameType
  <2>2. \A c \in contents' : c[1] \in touched \/ index[c[1]] = c[2]
    BY <2>1 DEF Inv, ReadingInv
  <2>3. touched # {} \/ f \in Listed
    BY DEF Inv, ReadingInv
  <2>4. \A c \in contents' : touched # {} \/ \E g \in Listed : name[g] = c[1]
    BY <2>1, <2>3 DEF Inv, ReadingInv
  <2>5. \A g \in Listed \ touched :
          name[g] = g => g \in listed' \/ <<g, index[g]>> \in contents'
    BY <2>1 DEF Inv, ReadingInv
  <2>6. \A g \in listed' : g \in touched \/ g \in Listed
    BY <2>1 DEF Inv, ReadingInv
  <2>. QED
    BY <2>1, <2>2, <2>4, <2>5, <2>6 DEF ReadingInv
<1>3. PhaseInv' /\ RejectionHasCause'
  BY DEF Inv, PhaseInv, RejectionHasCause
<1>4. VerdictInv'
  BY NoVerdict DEF Inv, PhaseInv
<1>. QED
  BY <1>1, <1>2, <1>3, <1>4 DEF Inv

\* When git does not fail by itself, the file was staged meanwhile, or what is
\* staged is not shown under the name git printed.
LEMMA ReadFailsStep == ASSUME Inv, NEW f \in File, ReadFails(f) PROVE Inv'
<1>1. /\ phase = "reading" /\ f \in listed
      /\ phase' = "rejected" /\ cause' = "git"
      /\ UNCHANGED <<name, head, index, tree, edits, touched>>
      /\ UNCHANGED <<threshold, listed, contents, summary>>
  BY Zenon DEF ReadFails, Reject, repository
<1>2. \/ CanRead(f) /\ faulted' = TRUE
      \/ ~CanRead(f) /\ faulted' = FALSE
  BY Zenon DEF ReadFails, CanRead
<1>3. TypeOK'
  <2>1. faulted' \in BOOLEAN
    BY <1>2, Zenon
  <2>. QED
    BY <1>1, <2>1 DEF Inv, TypeOK
<1>4. ReadingInv' /\ PhaseInv'
  BY <1>1 DEF Inv, ReadingInv, PhaseInv, Listed, IsNew, SameType
<1>5. RejectionHasCause'
  <2>1. CASE CanRead(f)
    <3>1. faulted' = TRUE
      BY <1>2, <2>1, Zenon
    <3>. QED
      BY <1>1, <3>1 DEF RejectionHasCause
  <2>2. CASE ~CanRead(f)
    <3>1. f \in touched \/ f \in Listed
      BY <1>1 DEF Inv, ReadingInv
    <3>2. name[f] \in File => index[name[f]] \in {"absent", "module"}
      BY <2>2 DEF CanRead, ContentOf
    <3>. QED
      BY <1>1, <3>1, <3>2 DEF RejectionHasCause, Listed
  <2>. QED
    BY <2>1, <2>2
<1>6. VerdictInv'
  BY <1>1, NoVerdict DEF Inv, PhaseInv
<1>. QED
  BY <1>3, <1>4, <1>5, <1>6 DEF Inv

LEMMA FindTermsStep == ASSUME Inv, FindTerms PROVE Inv'
<1>. USE DEF FindTerms, Reject, repository
<1>1. TypeOK'
  BY DEF Inv, TypeOK
<1>2. ReadingInv'
  BY DEF Inv, ReadingInv, Listed, IsNew, SameType
<1>3. PhaseInv'
  BY DEF Inv, PhaseInv, Findings
<1>4. RejectionHasCause'
  <2>1. CASE Findings # {}
    <3>1. PICK c \in contents : c[2] = "banned"
      BY <2>1 DEF Findings
    <3>2. c[1] \in File /\ (c[1] \in touched \/ index[c[1]] = "banned")
          /\ (touched # {} \/ \E f \in Listed : name[f] = c[1])
      BY <3>1 DEF Inv, TypeOK, ReadingInv
    <3>. QED
      BY <2>1, <3>2 DEF RejectionHasCause, Listed
  <2>2. CASE Findings = {}
    BY <2>2 DEF Inv, RejectionHasCause
  <2>. QED
    BY <2>1, <2>2
<1>5. VerdictInv'
  BY NoVerdict DEF Inv, PhaseInv
<1>. QED
  BY <1>1, <1>2, <1>3, <1>4, <1>5 DEF Inv

LEMMA TestsStep == ASSUME Inv, TestsFail \/ TestsPass PROVE Inv'
<1>. USE DEF TestsFail, TestsPass, Reject, repository
<1>1. TypeOK'
  BY ProfileType DEF Inv, TypeOK
<1>2. ReadingInv'
  BY DEF Inv, ReadingInv, Listed, IsNew, SameType
<1>3. PhaseInv' /\ RejectionHasCause'
  BY DEF Inv, PhaseInv, Findings, RejectionHasCause
<1>4. VerdictInv'
  <2>1. CASE TestsFail
    BY <2>1, NoVerdict
  <2>2. CASE TestsPass
    <3>1. IsBelow(CoverProfile) = IsBelow(summary)'
      BY <2>2 DEF IsBelow, Slack, Percentage, Floor, Required
    <3>2. CASE IsBelow(CoverProfile)
      BY <2>2, <3>1, <3>2 DEF Inv, PhaseInv, VerdictInv
    <3>3. CASE ~IsBelow(CoverProfile)
      BY <2>2, <3>1, <3>3 DEF Inv, PhaseInv, VerdictInv
    <3>. QED
      BY <3>2, <3>3
  <2>. QED
    BY <2>1, <2>2
<1>. QED
  BY <1>1, <1>2, <1>3, <1>4 DEF Inv

-----------------------------------------------------------------------------
(* The author.                                                             *)

LEMMA EditStep ==
    ASSUME Inv, NEW f \in File, NEW content \in Content, Edit(f, content)
    PROVE  Inv'
<1>. USE DEF Edit, Busy, gate
<1>1. TypeOK'
  BY NumbersAssumption DEF Inv, TypeOK
<1>2. ReadingInv' /\ PhaseInv' /\ RejectionHasCause'
  BY DEF Inv, ReadingInv, Listed, IsNew, SameType, PhaseInv, Findings, RejectionHasCause
<1>3. VerdictInv'
  BY NoVerdict DEF Inv, PhaseInv
<1>. QED
  BY <1>1, <1>2, <1>3 DEF Inv

\* A file that is staged again is the author's own doing.
LEMMA StageStep == ASSUME Inv, NEW f \in File, Stage(f) PROVE Inv'
<1>. USE DEF Stage, Busy, gate
<1>1. TypeOK'
  BY NumbersAssumption DEF Inv, TypeOK
<1>2. f \in touched' /\ \A g \in File : g # f => index'[g] = index[g]
  BY DEF Inv, TypeOK
<1>3. ReadingInv'
  <2>1. \A g \in listed : g \in touched' \/ g \in Listed'
    BY <1>2 DEF Inv, ReadingInv, Listed, IsNew, SameType
  <2>2. \A c \in contents : c[1] \in touched' \/ index'[c[1]] = c[2]
    BY <1>2 DEF Inv, TypeOK, ReadingInv
  <2>3. \A g \in Listed' \ touched' : g \in Listed \ touched /\ index'[g] = index[g]
    BY <1>2 DEF Listed, IsNew, SameType
  <2>. QED
    BY <2>1, <2>2, <2>3 DEF Inv, ReadingInv
<1>4. PhaseInv' /\ RejectionHasCause'
  BY DEF Inv, PhaseInv, Findings, RejectionHasCause
<1>5. VerdictInv'
  BY NoVerdict DEF Inv, PhaseInv
<1>. QED
  BY <1>1, <1>3, <1>4, <1>5 DEF Inv

LEMMA StutterStep == ASSUME Inv, UNCHANGED vars PROVE Inv'
BY DEF Inv, TypeOK, ReadingInv, Listed, IsNew, SameType, PhaseInv, Findings, RejectionHasCause, VerdictInv, IsBelow, Slack, Percentage,
       Floor, Required, vars, gate, repository

LEMMA NextInv == Inv /\ [Next]_vars => Inv'
<1>. SUFFICES ASSUME Inv, [Next]_vars PROVE Inv'
  OBVIOUS
<1>1. CASE GateStep
  BY <1>1, ListStep, ReadStep, ReadFailsStep, FindTermsStep, TestsStep DEF GateStep
<1>2. CASE AuthorStep
  BY <1>2, EditStep, StageStep DEF AuthorStep
<1>3. CASE UNCHANGED vars
  BY <1>3, StutterStep
<1>. QED
  BY <1>1, <1>2, <1>3 DEF Next

-----------------------------------------------------------------------------
(* The theorems.                                                           *)

\* The invariant holds in every state of every behaviour of gate and author.
THEOREM GateInvariant == Spec => []Inv
BY InitInv, NextInv, PTL DEF Spec

\* A commit that passes adds a banned term only in a file git does not list, for it
\* took the place of a link or a submodule, or does not read back by the name it
\* printed, whatever the author does beside the gate.
THEOREM TermsAreFound == Spec => []StagedTermsAreFound
<1>1. ASSUME Inv PROVE StagedTermsAreFound
  <2>. SUFFICES ASSUME phase = "passed", NEW f \in File, AddsTerm(f),
                       head[f] \notin {"link", "module"}, name[f] = f
                PROVE  FALSE
    BY DEF StagedTermsAreFound
  <2>1. f \in Listed \ touched
    BY <1>1 DEF AddsTerm, Listed, IsNew, SameType, Regular, Content, Inv, TypeOK
  <2>2. <<f, "banned">> \in contents
    BY <1>1, <2>1 DEF AddsTerm, Inv, ReadingInv, PhaseInv
  <2>3. Findings # {}
    BY <2>2 DEF Findings
  <2>. QED
    BY <1>1, <2>3 DEF Inv, PhaseInv
<1>. QED
  BY <1>1, GateInvariant, PTL

\* A factor that is not zero may be left out of a comparison.
LEMMA FactorIsMonotone ==
    ASSUME NEW a \in Int, NEW b \in Int, NEW k \in Nat \ {0}, a <= b
    PROVE  a * k <= b * k
<1>. DEFINE d == b - a
<1>1. d \in Nat /\ b = a + d
  OBVIOUS
<1>. HIDE DEF d
<1>2. b * k = a * k + d * k /\ d * k \in Nat
  BY <1>1
<1>. QED
  BY <1>2

LEMMA FactorIsLeftOut ==
    ASSUME NEW a \in Int, NEW b \in Int, NEW k \in Nat \ {0}, a * k <= b * k
    PROVE  a <= b
<1>1. CASE b + 1 <= a
  <2>1. (b + 1) * k <= a * k
    BY <1>1, FactorIsMonotone
  <2>2. (b + 1) * k = b * k + k
    OBVIOUS
  <2>. QED
    BY <2>1, <2>2
<1>. QED
  BY <1>1

\* A percentage that misses a whole one misses it by 1/t at least, which is more
\* than a slack of 1/Precision: a of t statements, and a floor of b percent.
LEMMA SlackIsHarmless ==
    ASSUME NEW a \in Int, NEW b \in Int, NEW t \in Nat, t < Precision,
           b * Precision <= a * Precision + t
    PROVE  b <= a
<1>. Precision \in Nat \ {0}
  BY NumbersAssumption
<1>1. CASE a + 1 <= b
  <2>1. (a + 1) * Precision <= b * Precision
    BY <1>1, FactorIsMonotone
  <2>2. (a + 1) * Precision = a * Precision + Precision
    OBVIOUS
  <2>. QED
    BY <2>1, <2>2
<1>. QED
  BY <1>1

\* The floor is kept up to the slack: coverage that reaches it is never rejected,
\* coverage that does not passes by less than the slack only, and with a threshold
\* of whole percents not at all in a program of less than Precision statements.
THEOREM FloorHolds == Spec => []FloorIsKept
<1>1. ASSUME Inv PROVE FloorIsKept
  <2>. DEFINE c == summary.covered
              t == summary.total
  <2>1. c \in Nat /\ t \in Nat /\ Meant \in Int /\ Required = Meant
    BY <1>1, NumbersAssumption DEF Inv, TypeOK, Meant, Required, DefaultThreshold
  <2>2. Precision \in Nat \ {0} /\ Scale \in Nat \ {0}
    BY NumbersAssumption
  <2>. DEFINE have == 100 * c * Scale
              floor == Meant * t
  <2>3. have \in Int /\ floor \in Int /\ t * Scale \in Nat
    BY <2>1, <2>2
  <2>4. IsBelow(summary) <=> have * Precision + t * Scale < floor * Precision
    BY <2>1 DEF IsBelow, Slack, Percentage, Floor
  <2>5. have * Precision \in Int /\ floor * Precision \in Int
    BY <2>2, <2>3
  <2>6. phase = "passed" => floor * Precision <= have * Precision + t * Scale
    <3>. HIDE DEF have, floor
    <3>. QED
      BY <1>1, <2>3, <2>4, <2>5 DEF Inv, VerdictInv
  <2>7. ASSUME cause = "coverage" PROVE ~(floor <= have)
    <3>. HIDE DEF have, floor
    <3>1. ASSUME floor <= have PROVE FALSE
      <4>1. floor * Precision <= have * Precision
        BY <2>2, <2>3, <3>1, FactorIsMonotone
      <4>2. have * Precision + t * Scale < floor * Precision
        BY <1>1, <2>4, <2>7 DEF Inv, VerdictInv
      <4>. QED
        BY <2>3, <2>5, <4>1, <4>2
    <3>. QED
      BY <3>1
  <2>8. ASSUME phase = "passed", Meant % Scale = 0, t < Precision PROVE floor <= have
    <3>. DEFINE percents == Meant \div Scale
                covered == 100 * c
                wanted == percents * t
    <3>1. percents \in Int /\ Meant = percents * Scale
      BY <2>1, <2>2, <2>8
    <3>2. covered \in Int /\ wanted \in Int
      BY <2>1, <3>1
    <3>3. have = covered * Scale /\ floor = wanted * Scale
      BY <2>1, <2>2, <3>1
    <3>. HIDE DEF have, floor, percents, covered, wanted
    <3>4. have * Precision + t * Scale = (covered * Precision + t) * Scale
          /\ floor * Precision = (wanted * Precision) * Scale
      BY <2>1, <2>2, <3>2, <3>3
    <3>5. covered * Precision + t \in Int /\ wanted * Precision \in Int
      BY <2>1, <2>2, <3>2
    <3>6. wanted * Precision <= covered * Precision + t
      <4>. DEFINE l == wanted * Precision
                  r == covered * Precision + t
      <4>1. l \in Int /\ r \in Int /\ l * Scale <= r * Scale
        BY <2>6, <2>8, <3>4, <3>5
      <4>. HIDE DEF l, r
      <4>2. l <= r
        BY <2>2, <4>1, FactorIsLeftOut
      <4>. QED
        BY <4>2 DEF l, r
    <3>7. wanted <= covered
      BY <2>1, <2>8, <3>2, <3>6, SlackIsHarmless
    <3>. QED
      BY <2>2, <3>2, <3>3, <3>7, FactorIsMonotone
  <2>. QED
    BY <2>1, <2>3, <2>6, <2>7, <2>8 DEF FloorIsKept, Reaches
<1>. QED
  BY <1>1, GateInvariant, PTL

\* The gate blames attribution or git only for a reason.
THEOREM RejectionsHaveCause == Spec => []RejectionHasCause
<1>1. Inv => RejectionHasCause
  BY DEF Inv
<1>. QED
  BY <1>1, GateInvariant, PTL
=============================================================================
