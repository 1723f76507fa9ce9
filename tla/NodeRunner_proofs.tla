------------------------- MODULE NodeRunner_proofs -------------------------
(***************************************************************************)
(* Theorems about NodeRunner: what the runner of a node records and when   *)
(* it may pass, for every set of nodes, every limit on a line, every size of *)
(* the pipes and every amount of output.                                   *)
(***************************************************************************)
EXTENDS NodeRunner, SequenceTheorems, TLAPS

-----------------------------------------------------------------------------
(* Moving output from one sequence to the next.                            *)

\* A reader that takes the first lines of a pipe leaves the rest in order.
LEMMA Taken ==
    ASSUME NEW S, NEW p \in Seq(S), NEW k \in 1..Len(p)
    PROVE  /\ SubSeq(p, 1, k) \in Seq(S)
           /\ SubSeq(p, k + 1, Len(p)) \in Seq(S)
           /\ SubSeq(p, 1, k) \o SubSeq(p, k + 1, Len(p)) = p
<1>1. \A i \in 1..Len(p) : p[i] \in S
  BY ElementOfSeq
<1>2. SubSeq(p, 1, k) \in Seq(S)
  BY <1>1, SubSeqProperties
<1>3. SubSeq(p, k + 1, Len(p)) \in Seq(S)
  BY <1>1, SubSeqProperties, LenProperties
<1>4. /\ 1 \in 1..Len(p) + 1
      /\ k \in 1 - 1..Len(p)
      /\ Len(p) \in k..Len(p)
  BY LenProperties
<1>5. SubSeq(p, 1, k) \o SubSeq(p, k + 1, Len(p)) = SubSeq(p, 1, Len(p))
  BY <1>4, ConcatAdjacentSubSeq
<1>. QED
  BY <1>2, <1>3, <1>5, SubSeqFull

\* Concatenation element by element.
LEMMA Concatenated ==
    ASSUME NEW x \in Seq(Chunk), NEW y \in Seq(Chunk)
    PROVE  /\ x \o y \in Seq(Chunk)
           /\ Len(x \o y) = Len(x) + Len(y)
           /\ Len(x) \in Nat /\ Len(y) \in Nat
           /\ \A k \in 1..Len(x) : k \in DOMAIN (x \o y) /\ (x \o y)[k] = x[k]
           /\ y # <<>> => (x \o y) # <<>> /\ (x \o y)[Len(x \o y)] = y[Len(y)]
<1>1. /\ x \o y \in Seq(Chunk)
      /\ Len(x \o y) = Len(x) + Len(y)
      /\ \A k \in 1..Len(x) + Len(y) :
            (x \o y)[k] = IF k <= Len(x) THEN x[k] ELSE y[k - Len(x)]
  BY ConcatProperties
<1>2. /\ Len(x) \in Nat /\ DOMAIN x = 1..Len(x)
      /\ Len(y) \in Nat /\ DOMAIN y = 1..Len(y)
      /\ DOMAIN (x \o y) = 1..Len(x \o y)
  BY <1>1, LenProperties
<1>3. \A k \in 1..Len(x) : k \in DOMAIN (x \o y) /\ (x \o y)[k] = x[k]
  <2>1. \A m, n \in Nat : \A k \in 1..m : k \in 1..m + n /\ k <= m
    OBVIOUS
  <2>. QED
    BY <1>1, <1>2, <2>1
<1>4. ASSUME y # <<>>
      PROVE  (x \o y) # <<>> /\ (x \o y)[Len(x \o y)] = y[Len(y)]
  <2>1. Len(y) # 0
    BY <1>4, EmptySeq
  <2>2. \A m, n \in Nat : n # 0 => m + n \in 1..m + n /\ ~(m + n <= m) /\ m + n - m = n /\ m + n # 0
    OBVIOUS
  <2>3. (x \o y)[Len(x) + Len(y)] = y[Len(y)]
    BY <1>1, <1>2, <2>1, <2>2
  <2>4. Len(x \o y) # 0
    BY <1>1, <1>2, <2>1, <2>2
  <2>5. (x \o y) # <<>>
    BY <2>4, EmptySeq
  <2>. QED
    BY <1>1, <2>3, <2>5
<1>. QED
  BY <1>1, <1>2, <1>3, <1>4

\* A sequence that begins with x has x's elements in x's places.
LEMMA Beginning ==
    ASSUME NEW w, NEW x \in Seq(Chunk), NEW y \in Seq(Chunk), w = x \o y
    PROVE  \A k \in 1..Len(x) : k \in DOMAIN w /\ w[k] = x[k]
BY Concatenated, Zenon

\* Concatenation under a name of its own, so that its laws apply one at a time.
Join(x, y) == x \o y

LEMMA JoinType == ASSUME NEW x \in Seq(Chunk), NEW y \in Seq(Chunk) PROVE Join(x, y) \in Seq(Chunk)
BY ConcatProperties DEF Join

LEMMA JoinAssociative ==
    ASSUME NEW x \in Seq(Chunk), NEW y \in Seq(Chunk), NEW z \in Seq(Chunk)
    PROVE  Join(Join(x, y), z) = Join(x, Join(y, z))
BY ConcatAssociative, SMT DEF Join

\* What is written to the pipe comes after everything there is.
LEMMA Written ==
    ASSUME NEW r \in Seq(Chunk), NEW b \in Seq(Chunk), NEW p \in Seq(Chunk), NEW q \in Seq(Chunk)
    PROVE  Join(Join(r, Join(b, p)), q) = Join(r, Join(b, Join(p, q)))
<1>1. PICK m \in Seq(Chunk) : m = Join(b, p)
  BY JoinType
<1>2. Join(Join(b, p), q) = Join(b, Join(p, q))
  BY JoinAssociative
<1>3. Join(Join(r, m), q) = Join(r, Join(m, q))
  BY JoinAssociative
<1>. QED
  BY <1>1, <1>2, <1>3

\* What goes from the pipe to the buffer keeps its place.
LEMMA Shifted ==
    ASSUME NEW r \in Seq(Chunk), NEW b \in Seq(Chunk), NEW u \in Seq(Chunk),
           NEW v \in Seq(Chunk)
    PROVE  Join(r, Join(Join(b, u), v)) = Join(r, Join(b, Join(u, v)))
<1>1. Join(Join(b, u), v) = Join(b, Join(u, v))
  BY JoinAssociative
<1>. QED
  BY <1>1

\* What goes from the buffer to the output keeps its place.
LEMMA Given ==
    ASSUME NEW r \in Seq(Chunk), NEW u \in Seq(Chunk), NEW v \in Seq(Chunk),
           NEW p \in Seq(Chunk)
    PROVE  Join(Join(r, u), Join(v, p)) = Join(r, Join(Join(u, v), p))
<1>1. PICK m \in Seq(Chunk) : m = Join(v, p)
  BY JoinType
<1>2. Join(Join(r, u), m) = Join(r, Join(u, m))
  BY JoinAssociative
<1>3. Join(Join(u, v), p) = Join(u, Join(v, p))
  BY JoinAssociative
<1>. QED
  BY <1>1, <1>2, <1>3

-----------------------------------------------------------------------------
(* The invariant.                                                          *)

LEMMA InitInv == Init => Inv
<1>. SUFFICES ASSUME Init PROVE Inv
  OBVIOUS
<1>1. <<>> \in Seq(Chunk) /\ <<>> \o (<<>> \o <<>>) = <<>>
  OBVIOUS
<1>2. Empty \in [Stream -> Seq(Chunk)]
  BY <1>1 DEF Empty
<1>5. TypeOK
  <2>1. /\ written \in [Stream -> Seq(Chunk)]
        /\ pipe \in [Stream -> Seq(Chunk)]
        /\ buffer \in [Stream -> Seq(Chunk)]
        /\ recorded \in [Stream -> Seq(Chunk)]
    BY <1>2 DEF Init
  <2>2. /\ iteration \in Nat \ {0}
        /\ iteration > 1 => node.loop
        /\ node.loop /\ runner \in {"waiting", "draining"} => iteration <= MaxIterations
    BY DEF Init
  <2>3. scanner \in [Stream -> {"scanning", "ended"}]
    BY DEF Init
  <2>. QED
    BY <2>1, <2>2, <2>3 DEF Init, TypeOK
<1>3. NothingIsLost
  BY <1>1 DEF Init, NothingIsLost, Empty, Stream
<1>4. CallerInv /\ PassIsEarned
  BY DEF Init, CallerInv, PassIsEarned, ScannersDone
<1>. QED
  BY <1>5, <1>3, <1>4 DEF Inv

\* What is recorded was written, in the same place, but for the newline that
\* ends a last line.
LEMMA RecordedChunk ==
    ASSUME TypeOK, NothingIsLost, NEW s \in Stream, NEW k \in DOMAIN recorded[s]
    PROVE  \/ k \in DOMAIN written[s] /\ recorded[s][k] = written[s][k]
           \/ IsCut(s) /\ k = Len(recorded[s]) /\ recorded[s][k] = "newline"
<1>1. recorded[s] \in Seq(Chunk) /\ buffer[s] \in Seq(Chunk) /\ pipe[s] \in Seq(Chunk)
  BY DEF TypeOK
<1>2. k \in 1..Len(recorded[s]) /\ Len(recorded[s]) \in Nat
  BY <1>1, LenProperties
<1>3. CASE IsCut(s)
  <2>1. k \in 1..(Len(recorded[s]) - 1) \/ k = Len(recorded[s])
    BY <1>2
  <2>. QED
    BY <1>3, <2>1 DEF IsCut
<1>4. CASE written[s] = recorded[s] \o (buffer[s] \o pipe[s])
  <2>1. buffer[s] \o pipe[s] \in Seq(Chunk)
    BY <1>1, Concatenated
  <2>2. \A j \in 1..Len(recorded[s]) : j \in DOMAIN written[s] /\ written[s][j] = recorded[s][j]
    BY <1>1, <1>4, <2>1, Beginning
  <2>. QED
    BY <1>2, <2>2
<1>. QED
  BY <1>3, <1>4 DEF NothingIsLost

\* A step that leaves the output of all streams and the process alone.
LEMMA NothingMoves ==
    ASSUME Inv, UNCHANGED <<written, pipe, buffer, scanner, recorded>>,
           process' # "running" \/ process' = process
    PROVE  NothingIsLost'
<1>. SUFFICES ASSUME NEW s \in Stream
              PROVE  \/ IsCut(s)'
                     \/ /\ written'[s] = recorded'[s] \o (buffer'[s] \o pipe'[s])
                        /\ recorded'[s] # <<>> => recorded'[s][Len(recorded'[s])] = "newline"
  BY DEF NothingIsLost
<1>. QED
  BY DEF Inv, NothingIsLost, IsCut

LEMMA StartStep == ASSUME Inv, Start PROVE Inv'
<1>1. <<>> \in Seq(Chunk) /\ <<>> \o (<<>> \o <<>>) = <<>>
  OBVIOUS
<1>2. TypeOK'
  BY <1>1 DEF Inv, TypeOK, Start, Empty, MoreIterations, MaxIterations
<1>3. NothingIsLost'
  BY <1>1 DEF Start, NothingIsLost, Empty, Stream
<1>4. CallerInv' /\ PassIsEarned'
  BY DEF Inv, Start, CallerInv, PassIsEarned
<1>. QED
  BY <1>2, <1>3, <1>4 DEF Inv

\* A runner that returns has waited for its process and for its scanners.
LEMMA ReturnStep ==
    ASSUME Inv, NEW reported \in {"passed", "failed", "canceled"}, Return(reported),
           UNCHANGED <<context, process, streams>>, runner = "begin" \/ Drained,
           reported = "passed" => Succeeded /\ ((node.loop /\ node.until) => MarkerSeen)
    PROVE  Inv'
<1>. USE DEF streams
<1>1. TypeOK'
  BY DEF Inv, TypeOK, Return
<1>2. NothingIsLost'
  BY NothingMoves
<1>3. CallerInv'
  BY DEF Inv, CallerInv, Return, Drained, ScannersDone
<1>4. PassIsEarned'
  <2>1. SUFFICES ASSUME reported = "passed"
                 PROVE  /\ process = "success"
                        /\ node.loop /\ node.until =>
                             \E s \in Stream : \E k \in DOMAIN written[s] : written[s][k] = "marker"
    BY DEF PassIsEarned, Return
  <2>2. process = "success"
    BY <2>1 DEF Succeeded
  <2>3. ASSUME node.loop, node.until
        PROVE  \E s \in Stream : \E k \in DOMAIN written[s] : written[s][k] = "marker"
    <3>1. PICK s \in Stream : \E k \in DOMAIN recorded[s] : recorded[s][k] = "marker"
      BY <2>1, <2>3 DEF MarkerSeen
    <3>2. PICK k \in DOMAIN recorded[s] : recorded[s][k] = "marker"
      BY <3>1
    <3>3. k \in DOMAIN written[s] /\ written[s][k] = recorded[s][k]
      BY <3>2, RecordedChunk DEF Inv
    <3>. QED
      BY <3>2, <3>3
  <2>. QED
    BY <2>2, <2>3
<1>. QED
  BY <1>1, <1>2, <1>3, <1>4 DEF Inv

LEMMA WaitStep == ASSUME Inv, WaitReturns PROVE Inv'
<1>1. TypeOK' /\ NothingIsLost'
  BY NothingMoves DEF Inv, TypeOK, WaitReturns, MaxIterations
<1>2. CallerInv' /\ PassIsEarned'
  BY DEF Inv, CallerInv, PassIsEarned, WaitReturns
<1>. QED
  BY <1>1, <1>2 DEF Inv

LEMMA IterationStep == ASSUME Inv, NextIteration PROVE Inv'
<1>. USE DEF NextIteration, Succeeded, Drained, streams
<1>1. iteration' \in Nat \ {0} /\ node.loop
  BY DEF Inv, TypeOK
<1>2. TypeOK'
  BY <1>1 DEF Inv, TypeOK
<1>3. NothingIsLost'
  BY NothingMoves
<1>4. PassIsEarned' /\ CallerInv'
  BY DEF Inv, CallerInv, PassIsEarned, ScannersDone
<1>. QED
  BY <1>2, <1>3, <1>4 DEF Inv

\* Every step of the caller.
LEMMA CallerInvStep == ASSUME Inv, CallerStep PROVE Inv'
<1>1. CASE Start
  BY <1>1, StartStep
<1>2. CASE StartFails
  BY <1>2, ReturnStep DEF StartFails
<1>3. CASE WaitReturns
  BY <1>3, WaitStep
<1>4. CASE Canceled
  BY <1>4, ReturnStep DEF Canceled
<1>5. CASE Failed
  BY <1>5, ReturnStep DEF Failed
<1>6. CASE Passed
  BY <1>6, ReturnStep DEF Passed, Succeeded
<1>7. CASE NextIteration
  BY <1>7, IterationStep
<1>8. CASE MarkerMissing
  BY <1>8, ReturnStep DEF MarkerMissing
<1>. QED
  BY <1>1, <1>2, <1>3, <1>4, <1>5, <1>6, <1>7, <1>8 DEF CallerStep

LEMMA ReadStep == ASSUME Inv, NEW s \in Stream, Read(s) PROVE Inv'
<1>1. PICK k \in 1..Len(pipe[s]) :
        /\ buffer' = [buffer EXCEPT ![s] = buffer[s] \o SubSeq(pipe[s], 1, k)]
        /\ pipe' = [pipe EXCEPT ![s] = SubSeq(pipe[s], k + 1, Len(pipe[s]))]
  BY DEF Read
<1>2. /\ pipe[s] \in Seq(Chunk) /\ buffer[s] \in Seq(Chunk) /\ recorded[s] \in Seq(Chunk)
      /\ buffer \in [Stream -> Seq(Chunk)] /\ pipe \in [Stream -> Seq(Chunk)]
  BY DEF Inv, TypeOK
<1>. DEFINE front == SubSeq(pipe[s], 1, k)
            rest == SubSeq(pipe[s], k + 1, Len(pipe[s]))
<1>3. front \in Seq(Chunk) /\ rest \in Seq(Chunk) /\ front \o rest = pipe[s]
  BY <1>2, Taken
<1>. HIDE DEF front, rest
<1>4. buffer[s] \o front \in Seq(Chunk)
  BY <1>2, <1>3, Concatenated
<1>5. recorded[s] \o ((buffer[s] \o front) \o rest) = recorded[s] \o (buffer[s] \o pipe[s])
  <2>1. Join(recorded[s], Join(Join(buffer[s], front), rest))
            = Join(recorded[s], Join(buffer[s], Join(front, rest)))
    BY <1>2, <1>3, Shifted
  <2>. QED
    BY <1>3, <2>1, Zenon DEF Join
<1>6. buffer' = [buffer EXCEPT ![s] = buffer[s] \o front] /\ pipe' = [pipe EXCEPT ![s] = rest]
  BY <1>1 DEF front, rest
<1>7. TypeOK'
  BY <1>2, <1>3, <1>4, <1>6 DEF Inv, TypeOK, Read, MaxIterations
<1>8. NothingIsLost'
  <2>. SUFFICES ASSUME NEW t \in Stream
                PROVE  \/ IsCut(t)'
                       \/ /\ written'[t] = recorded'[t] \o (buffer'[t] \o pipe'[t])
                          /\ recorded'[t] # <<>> => recorded'[t][Len(recorded'[t])] = "newline"
    BY DEF NothingIsLost
  <2>1. UNCHANGED <<written, recorded, scanner, process>>
    BY DEF Read
  <2>2. IsCut(t) => IsCut(t)'
    BY <2>1 DEF IsCut
  <2>3. CASE t # s
    <3>1. buffer'[t] = buffer[t] /\ pipe'[t] = pipe[t]
      BY <2>3, <1>2, <1>6
    <3>. QED
      BY <2>1, <2>2, <3>1 DEF Inv, NothingIsLost
  <2>4. CASE t = s
    <3>1. buffer'[s] = buffer[s] \o front /\ pipe'[s] = rest
      BY <1>2, <1>6
    <3>. QED
      BY <2>1, <2>2, <2>4, <3>1, <1>5 DEF Inv, NothingIsLost
  <2>. QED
    BY <2>3, <2>4
<1>9. CallerInv' /\ PassIsEarned'
  BY DEF Inv, CallerInv, PassIsEarned, Read, ScannersDone
<1>. QED
  BY <1>7, <1>8, <1>9 DEF Inv

\* The stream of a scanner that goes on has nothing cut yet.
LEMMA RecordStep == ASSUME Inv, NEW s \in Stream, Record(s) PROVE Inv'
<1>1. PICK k \in DOMAIN buffer[s] :
        /\ buffer[s][k] = "newline"
        /\ recorded' = [recorded EXCEPT ![s] = recorded[s] \o SubSeq(buffer[s], 1, k)]
        /\ buffer' = [buffer EXCEPT ![s] = SubSeq(buffer[s], k + 1, Len(buffer[s]))]
  BY DEF Record
<1>2. /\ pipe[s] \in Seq(Chunk) /\ buffer[s] \in Seq(Chunk) /\ recorded[s] \in Seq(Chunk)
      /\ buffer \in [Stream -> Seq(Chunk)] /\ recorded \in [Stream -> Seq(Chunk)]
  BY DEF Inv, TypeOK
<1>3. k \in 1..Len(buffer[s])
  BY <1>2, LenProperties
<1>. DEFINE line == SubSeq(buffer[s], 1, k)
            rest == SubSeq(buffer[s], k + 1, Len(buffer[s]))
<1>4. line \in Seq(Chunk) /\ rest \in Seq(Chunk) /\ line \o rest = buffer[s]
  BY <1>2, <1>3, Taken
<1>5. line # <<>> /\ line[Len(line)] = "newline"
  <2>1. Len(line) = k /\ line[k] = buffer[s][k]
    <3>1. \A i \in 1..Len(buffer[s]) : buffer[s][i] \in Chunk
      BY <1>2, ElementOfSeq
    <3>2. Len(line) = k - 1 + 1 /\ \A i \in 1..k - 1 + 1 : line[i] = buffer[s][1 + i - 1]
      BY <3>1, <1>2, <1>3, LenProperties, SubSeqProperties
    <3>. QED
      BY <1>2, <1>3, <3>2, LenProperties
  <2>2. k # 0
    BY <1>2, <1>3, LenProperties
  <2>. QED
    BY <1>1, <1>4, <2>1, <2>2, EmptySeq
<1>. HIDE DEF line, rest
<1>6. /\ recorded[s] \o line \in Seq(Chunk)
      /\ (recorded[s] \o line)[Len(recorded[s] \o line)] = "newline"
  BY <1>2, <1>4, <1>5, Concatenated
<1>7. (recorded[s] \o line) \o (rest \o pipe[s]) = recorded[s] \o (buffer[s] \o pipe[s])
  <2>1. Join(Join(recorded[s], line), Join(rest, pipe[s]))
            = Join(recorded[s], Join(Join(line, rest), pipe[s]))
    BY <1>2, <1>4, Given
  <2>. QED
    BY <1>4, <2>1, Zenon DEF Join
<1>8. /\ recorded' = [recorded EXCEPT ![s] = recorded[s] \o line]
      /\ buffer' = [buffer EXCEPT ![s] = rest]
  BY <1>1 DEF line, rest
<1>9. TypeOK'
  BY <1>2, <1>4, <1>6, <1>8 DEF Inv, TypeOK, Record, MaxIterations
<1>10. NothingIsLost'
  <2>. SUFFICES ASSUME NEW t \in Stream
                PROVE  \/ IsCut(t)'
                       \/ /\ written'[t] = recorded'[t] \o (buffer'[t] \o pipe'[t])
                          /\ recorded'[t] # <<>> => recorded'[t][Len(recorded'[t])] = "newline"
    BY DEF NothingIsLost
  <2>1. UNCHANGED <<written, pipe, scanner, process>> /\ scanner[s] = "scanning"
    BY DEF Record
  <2>2. CASE t # s
    <3>1. buffer'[t] = buffer[t] /\ recorded'[t] = recorded[t]
      BY <2>2, <1>2, <1>8
    <3>2. IsCut(t) => IsCut(t)'
      BY <2>1, <3>1 DEF IsCut
    <3>. QED
      BY <2>1, <3>1, <3>2 DEF Inv, NothingIsLost
  <2>3. CASE t = s
    <3>1. buffer'[s] = rest /\ recorded'[s] = recorded[s] \o line
      BY <1>2, <1>8
    <3>2. written[s] = recorded[s] \o (buffer[s] \o pipe[s])
      BY <2>1 DEF Inv, NothingIsLost, IsCut
    <3>. QED
      BY <2>1, <2>3, <3>1, <3>2, <1>6, <1>7
  <2>. QED
    BY <2>2, <2>3
<1>11. CallerInv' /\ PassIsEarned'
  BY DEF Inv, CallerInv, PassIsEarned, Record, ScannersDone
<1>. QED
  BY <1>9, <1>10, <1>11 DEF Inv

LEMMA TooLongStep == ASSUME Inv, NEW s \in Stream, TooLong(s) PROVE Inv'
<1>1. TypeOK'
  BY DEF Inv, TypeOK, TooLong, MaxIterations
<1>2. NothingIsLost'
  <2>1. \A t \in Stream : IsCut(t) => IsCut(t)'
    BY DEF Inv, TypeOK, IsCut, TooLong
  <2>. QED
    BY <2>1 DEF Inv, NothingIsLost, TooLong
<1>3. CallerInv' /\ PassIsEarned'
  BY DEF Inv, TypeOK, CallerInv, PassIsEarned, TooLong, ScannersDone
<1>. QED
  BY <1>1, <1>2, <1>3 DEF Inv

\* Whatever a scanner holds at the end becomes the last line of its stream.
LEMMA EndOfInputStep == ASSUME Inv, NEW s \in Stream, EndOfInput(s) PROVE Inv'
<1>1. /\ pipe[s] \in Seq(Chunk) /\ buffer[s] \in Seq(Chunk) /\ recorded[s] \in Seq(Chunk)
      /\ buffer \in [Stream -> Seq(Chunk)] /\ recorded \in [Stream -> Seq(Chunk)]
      /\ scanner \in [Stream -> {"scanning", "ended"}]
  BY DEF Inv, TypeOK
<1>2. /\ <<>> \in Seq(Chunk) /\ <<"newline">> \in Seq(Chunk)
      /\ <<"newline">> # <<>> /\ Len(<<"newline">>) = 1 /\ <<"newline">>[1] = "newline"
  BY DEF Chunk
<1>. DEFINE whole == recorded[s] \o buffer[s]
            end == <<"newline">>
<1>3. whole \in Seq(Chunk)
  BY <1>1, Concatenated
<1>4. /\ whole \o end \in Seq(Chunk)
      /\ (whole \o end) # <<>> /\ (whole \o end)[Len(whole \o end)] = "newline"
      /\ Len(whole \o end) = Len(whole) + 1
      /\ \A k \in 1..Len(whole) : (whole \o end)[k] = whole[k]
  BY <1>2, <1>3, Concatenated
<1>5. /\ scanner' = [scanner EXCEPT ![s] = "ended"]
      /\ recorded' = [recorded EXCEPT ![s] = IF buffer[s] = <<>> THEN recorded[s] ELSE whole \o end]
      /\ buffer' = [buffer EXCEPT ![s] = <<>>]
      /\ UNCHANGED <<node, iteration, runner, context, process, written, pipe, open, result>>
      /\ scanner[s] = "scanning"
  BY DEF EndOfInput
<1>6. written[s] = recorded[s] \o (buffer[s] \o pipe[s])
      /\ (recorded[s] # <<>> => recorded[s][Len(recorded[s])] = "newline")
  BY <1>5 DEF Inv, NothingIsLost, IsCut
<1>7. process # "running"
  BY DEF EndOfInput, Inv, CallerInv
<1>8. \A k \in 1..Len(whole) : k \in DOMAIN written[s] /\ written[s][k] = whole[k]
  <2>1. written[s] = whole \o pipe[s]
    <3>1. Join(Join(recorded[s], buffer[s]), pipe[s]) = Join(recorded[s], Join(buffer[s], pipe[s]))
      BY <1>1, JoinAssociative
    <3>. QED
      BY <1>6, <3>1, Zenon DEF Join
  <2>. HIDE DEF whole
  <2>. QED
    BY <1>1, <1>3, <2>1, Beginning
<1>. HIDE DEF whole, end
<1>9. TypeOK'
  BY <1>1, <1>2, <1>4, <1>5 DEF Inv, TypeOK, MaxIterations
<1>10. NothingIsLost'
  <2>. SUFFICES ASSUME NEW t \in Stream
                PROVE  \/ IsCut(t)'
                       \/ /\ written'[t] = recorded'[t] \o (buffer'[t] \o pipe'[t])
                          /\ recorded'[t] # <<>> => recorded'[t][Len(recorded'[t])] = "newline"
    BY DEF NothingIsLost
  <2>1. CASE t # s
    <3>1. buffer'[t] = buffer[t] /\ recorded'[t] = recorded[t] /\ scanner'[t] = scanner[t]
      BY <2>1, <1>1, <1>5
    <3>2. IsCut(t) => IsCut(t)'
      BY <1>5, <3>1 DEF IsCut
    <3>. QED
      BY <1>5, <3>1, <3>2 DEF Inv, NothingIsLost
  <2>2. CASE t = s /\ buffer[s] = <<>>
    <3>1. buffer'[s] = buffer[s] /\ recorded'[s] = recorded[s]
      BY <2>2, <1>1, <1>5
    <3>. QED
      BY <1>5, <1>6, <2>2, <3>1
  <2>3. CASE t = s /\ buffer[s] # <<>>
    <3>1. recorded'[s] = whole \o end /\ scanner'[s] = "ended"
      BY <2>3, <1>1, <1>5
    <3>2. \A k \in 1..(Len(whole \o end) - 1) : k \in 1..Len(whole)
      <4>1. Len(whole) \in Nat
        BY <1>3, LenProperties
      <4>. QED
        BY <4>1, <1>4
    <3>. QED
      BY <1>4, <1>5, <1>7, <1>8, <2>3, <3>1, <3>2 DEF IsCut
  <2>. QED
    BY <2>1, <2>2, <2>3
<1>11. CallerInv' /\ PassIsEarned'
  BY <1>1, <1>5 DEF Inv, CallerInv, PassIsEarned, ScannersDone
<1>. QED
  BY <1>9, <1>10, <1>11 DEF Inv

\* A process writes only while the caller waits for it.
LEMMA WriteStep ==
    ASSUME Inv, NEW s \in Stream, NEW chunk \in Chunk, Write(s, chunk)
    PROVE  Inv'
<1>1. /\ pipe[s] \in Seq(Chunk) /\ buffer[s] \in Seq(Chunk) /\ recorded[s] \in Seq(Chunk)
      /\ written[s] \in Seq(Chunk)
      /\ pipe \in [Stream -> Seq(Chunk)] /\ written \in [Stream -> Seq(Chunk)]
  BY DEF Inv, TypeOK
<1>2. /\ Append(pipe[s], chunk) \in Seq(Chunk)
      /\ Append(recorded[s] \o (buffer[s] \o pipe[s]), chunk)
           = recorded[s] \o (buffer[s] \o Append(pipe[s], chunk))
  <2>. DEFINE kept == recorded[s]
              held == buffer[s]
              left == pipe[s]
  <2>1. kept \in Seq(Chunk) /\ held \in Seq(Chunk) /\ left \in Seq(Chunk) /\ chunk \in Chunk
    BY <1>1
  <2>. HIDE DEF kept, held, left
  <2>2. Append(left, chunk) \in Seq(Chunk)
    BY <2>1
  <2>3. Append(kept \o (held \o left), chunk) = kept \o (held \o Append(left, chunk))
    <3>. DEFINE last == <<chunk>>
    <3>1. last \in Seq(Chunk)
      BY <2>1
    <3>2. \A q \in Seq(Chunk) : Append(q, chunk) = q \o last
      BY <2>1
    <3>3. kept \o (held \o left) \in Seq(Chunk)
      BY <2>1, ConcatProperties
    <3>. HIDE DEF last
    <3>4. (kept \o (held \o left)) \o last = kept \o (held \o (left \o last))
      <4>1. Join(Join(kept, Join(held, left)), last) = Join(kept, Join(held, Join(left, last)))
        BY <2>1, <3>1, Written
      <4>. QED
        BY <4>1, Zenon DEF Join
    <3>. QED
      BY <2>1, <3>2, <3>3, <3>4, Zenon
  <2>. QED
    BY <2>2, <2>3 DEF kept, held, left
<1>3. Append(written[s], chunk) \in Seq(Chunk)
  BY <1>1
<1>4. /\ written' = [written EXCEPT ![s] = Append(written[s], chunk)]
      /\ pipe' = [pipe EXCEPT ![s] = Append(pipe[s], chunk)]
  BY DEF Write
<1>5. TypeOK'
  BY <1>1, <1>2, <1>3, <1>4 DEF Inv, TypeOK, Write, MaxIterations
<1>6. NothingIsLost'
  <2>1. process = "running" /\ recorded' = recorded /\ buffer' = buffer
    BY DEF Write
  <2>2. \A t \in Stream : ~IsCut(t)
    BY <2>1 DEF IsCut
  <2>. QED
    BY <1>1, <1>2, <1>4, <2>1, <2>2 DEF Inv, NothingIsLost
<1>7. CallerInv' /\ PassIsEarned'
  BY DEF Inv, CallerInv, PassIsEarned, Write, ScannersDone
<1>. QED
  BY <1>5, <1>6, <1>7 DEF Inv

LEMMA ExitStep ==
    ASSUME Inv, NEW status \in {"success", "failure"}, Exit(status)
    PROVE  Inv'
<1>. USE DEF Exit, streams
<1>1. TypeOK' /\ NothingIsLost'
  BY NothingMoves DEF Inv, TypeOK, MaxIterations
<1>2. CallerInv' /\ PassIsEarned'
  BY DEF Inv, CallerInv, PassIsEarned, ScannersDone
<1>. QED
  BY <1>1, <1>2 DEF Inv

LEMMA DoneStep == ASSUME Inv, ContextDone PROVE Inv'
<1>. USE DEF ContextDone, streams
<1>1. TypeOK' /\ NothingIsLost'
  BY NothingMoves DEF Inv, TypeOK, MaxIterations
<1>2. CallerInv' /\ PassIsEarned'
  BY DEF Inv, CallerInv, PassIsEarned, ScannersDone
<1>. QED
  BY <1>1, <1>2 DEF Inv

LEMMA StutterStep == ASSUME Inv, UNCHANGED vars PROVE Inv'
<1>. USE DEF vars, streams
<1>1. TypeOK' /\ NothingIsLost'
  BY NothingMoves DEF Inv, TypeOK, MaxIterations
<1>2. CallerInv' /\ PassIsEarned'
  BY DEF Inv, CallerInv, PassIsEarned, ScannersDone
<1>. QED
  BY <1>1, <1>2 DEF Inv

LEMMA NextInv == Inv /\ [Next]_vars => Inv'
<1>. SUFFICES ASSUME Inv, [Next]_vars PROVE Inv'
  OBVIOUS
<1>1. CASE CallerStep
  BY <1>1, CallerInvStep
<1>2. ASSUME NEW s \in Stream, ScannerStep(s) PROVE Inv'
  BY <1>2, ReadStep, RecordStep, TooLongStep, EndOfInputStep DEF ScannerStep
<1>3. ASSUME NEW s \in Stream, NEW chunk \in Chunk, Write(s, chunk) PROVE Inv'
  BY <1>3, WriteStep
<1>4. ASSUME NEW status \in {"success", "failure"}, Exit(status) PROVE Inv'
  BY <1>4, ExitStep
<1>5. CASE ContextDone
  BY <1>5, DoneStep
<1>6. CASE Kill
  BY <1>6, ExitStep DEF Kill
<1>7. CASE UNCHANGED vars
  BY <1>7, StutterStep
<1>. QED
  BY <1>1, <1>2, <1>3, <1>4, <1>5, <1>6, <1>7 DEF Next

-----------------------------------------------------------------------------
(* The theorems.                                                           *)

\* The invariant holds in every state of every behaviour of the runner.
THEOREM RunnerInvariant == Spec => []Inv
BY InitInv, NextInv, PTL DEF Spec

\* The variables keep their types; no iteration starts beyond maxIterations.
THEOREM RunnerTypeOK == Spec => []TypeOK
<1>1. Inv => TypeOK
  BY DEF Inv
<1>. QED
  BY <1>1, RunnerInvariant, PTL

\* CommandRunner and OpenCodeRunner record whole lines in the order in which the
\* process wrote them, without a gap; only a last line may be cut short, and only
\* when the process is over.
THEOREM OutputIsOrdered == Spec => []OutputIsInOrder
<1>1. ASSUME Inv PROVE OutputIsInOrder
  <2>. SUFFICES ASSUME NEW s \in Stream
                PROVE  /\ recorded[s] # <<>> => recorded[s][Len(recorded[s])] = "newline"
                       /\ \A k \in DOMAIN recorded[s] :
                            \/ k \in DOMAIN written[s] /\ recorded[s][k] = written[s][k]
                            \/ k = Len(recorded[s]) /\ scanner[s] = "ended" /\ process # "running"
    BY DEF OutputIsInOrder
  <2>1. recorded[s] # <<>> => recorded[s][Len(recorded[s])] = "newline"
    BY <1>1 DEF Inv, NothingIsLost, IsCut
  <2>2. ASSUME NEW k \in DOMAIN recorded[s]
        PROVE  \/ k \in DOMAIN written[s] /\ recorded[s][k] = written[s][k]
               \/ k = Len(recorded[s]) /\ scanner[s] = "ended" /\ process # "running"
    BY <1>1, RecordedChunk DEF Inv, IsCut
  <2>. QED
    BY <2>1, <2>2
<1>. QED
  BY <1>1, RunnerInvariant, PTL

\* No node passes on a process that failed, nor a loop without its marker.
THEOREM PassesAreEarned == Spec => []PassIsEarned
<1>1. Inv => PassIsEarned
  BY DEF Inv
<1>. QED
  BY <1>1, RunnerInvariant, PTL

\* After the runner has returned, its scanners record nothing any more.
THEOREM RecordingEnds == Spec => RecordingIsOver
<1>1. ASSUME Inv, [Next]_vars, runner = "returned" PROVE recorded' = recorded
  <2>1. /\ \A s \in Stream : scanner[s] # "scanning"
        /\ process # "running"
    BY <1>1 DEF Inv, CallerInv, ScannersDone
  <2>2. ~CallerStep
    BY <1>1 DEF CallerStep, Start, StartFails, WaitReturns, Canceled, Failed, Passed,
                NextIteration, MarkerMissing, Drained, Succeeded
  <2>3. \A s \in Stream : ~ScannerStep(s) /\ \A chunk \in Chunk : ~Write(s, chunk)
    BY <2>1 DEF ScannerStep, Read, Record, TooLong, EndOfInput, Write
  <2>. QED
    BY <1>1, <2>1, <2>2, <2>3 DEF Next, Exit, Kill, ContextDone, vars, streams
<1>. QED
  BY <1>1, RunnerInvariant, PTL DEF Spec, RecordingIsOver
=============================================================================
