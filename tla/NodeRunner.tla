----------------------------- MODULE NodeRunner -----------------------------
(***************************************************************************)
(* The runners of one node: CommandRunner.Run, OpenCodeRunner.runPrompt,   *)
(* which starts, scans and waits the same way, and OpenCodeRunner.runLoop  *)
(* around it.  A child process writes to two pipes, two goroutines scan    *)
(* them line by line, the caller waits for the process and then for the    *)
(* scanners, and the context may be done at any moment.  A read takes      *)
(* whatever bytes there are, so it may end within a line.                  *)
(***************************************************************************)
EXTENDS Integers, Sequences

CONSTANTS
    Nodes,      \* the nodes considered: [loop, iterations, until]
    LineLimit,  \* chunks a scanner holds of one line, its newline included
    PipeSize,   \* chunks a pipe holds before the writer blocks
    MaxOutput   \* bound on the chunks one process writes

ASSUME RunnerAssumption ==
    /\ Nodes \subseteq [loop : BOOLEAN, iterations : Int, until : BOOLEAN]
    /\ LineLimit \in Nat \ {0} /\ PipeSize \in Nat \ {0} /\ MaxOutput \in Nat

\* What a process writes: newlines and runs of bytes between them, of which
\* some hold the completion marker.
Chunk == {"text", "marker", "newline"}

Stream == {"stdout", "stderr"}

VARIABLES
    node,       \* the node of this behaviour
    iteration,  \* i of runLoop; 1 for a node without a loop
    runner,     \* "begin", "waiting" (cmd.Wait), "draining" (wg.Wait), "returned"
    context,    \* "live" or "done": the deadline, or a failure in the layer
    process,    \* "none", "running", or its exit: "success", "failure"
    written,    \* what the process of this iteration wrote to each stream
    pipe,       \* what is in each pipe
    open,       \* whether the read ends are open
    scanner,    \* "ended" or "scanning"
    buffer,     \* what a scanner has read and not yet recorded
    recorded,   \* the output of this iteration: the lines given to record, each
                \* with the newline that the collected output puts after it
    result      \* "none", "passed", "failed" or "canceled"

streams == <<written, pipe, open, scanner, buffer, recorded>>
vars == <<node, iteration, runner, context, process, streams, result>>

Empty == [s \in Stream |-> <<>>]

Init ==
    /\ node \in Nodes
    /\ iteration = 1
    /\ runner = "begin"
    /\ context = "live"
    /\ process = "none"
    /\ written = Empty
    /\ pipe = Empty
    /\ open = FALSE
    /\ scanner = [s \in Stream |-> "ended"]
    /\ buffer = Empty
    /\ recorded = Empty
    /\ result = "none"

-----------------------------------------------------------------------------
(* The caller.                                                             *)

\* maxIterations is 1 if the workflow does not give it; Validate lets a
\* negative one through.
MaxIterations == IF node.iterations = 0 THEN 1 ELSE node.iterations

\* (mutant) i < maxIterations + 2
MoreIterations_OffByOne == node.loop => iteration <= MaxIterations + 1

\* The condition of the for statement of runLoop.
MoreIterations == node.loop => iteration <= MaxIterations

Return(reported) ==
    /\ runner' = "returned"
    /\ result' = reported
    /\ UNCHANGED <<node, iteration>>

Start ==
    /\ runner = "begin"
    /\ MoreIterations
    /\ context = "live"
    /\ runner' = "waiting"
    /\ process' = "running"
    /\ written' = Empty
    /\ pipe' = Empty
    /\ open' = TRUE
    /\ scanner' = [s \in Stream |-> "scanning"]
    /\ buffer' = Empty
    /\ recorded' = Empty
    /\ UNCHANGED <<node, iteration, context, result>>

\* The prompt, the provider, the binary or cmd.Start fails; cmd.Start also
\* refuses a context that is done.
StartFails ==
    /\ runner = "begin"
    /\ MoreIterations
    /\ Return("failed")
    /\ UNCHANGED <<context, process, streams>>

\* cmd.Wait returns once the process has exited, and closes the read ends,
\* whether the scanners have read everything or not.
WaitReturns ==
    /\ runner = "waiting"
    /\ process \in {"success", "failure"}
    /\ runner' = "draining"
    /\ open' = FALSE
    /\ UNCHANGED <<node, iteration, context, process, written, pipe, scanner, buffer,
                   recorded, result>>

\* (mutant) the caller does not wait for the scanners
ScannersDone_NoWait == TRUE

ScannersDone == \A s \in Stream : scanner[s] = "ended"

Drained == runner = "draining" /\ ScannersDone

\* ctx.Err() comes before the exit status of the process.
Canceled ==
    /\ Drained
    /\ context = "done"
    /\ Return("canceled")
    /\ UNCHANGED <<context, process, streams>>

Failed ==
    /\ Drained
    /\ context = "live"
    /\ process = "failure"
    /\ Return("failed")
    /\ UNCHANGED <<context, process, streams>>

Succeeded == Drained /\ context = "live" /\ process = "success"

\* (mutant) success of the process is enough
MarkerSeen_Ignored == TRUE

\* strings.Contains(out, node.Loop.Until) on the output of this iteration.
MarkerSeen == \E s \in Stream : \E k \in DOMAIN recorded[s] : recorded[s][k] = "marker"

Passed ==
    /\ Succeeded
    /\ (node.loop /\ node.until) => MarkerSeen
    /\ Return("passed")
    /\ UNCHANGED <<context, process, streams>>

NextIteration ==
    /\ Succeeded
    /\ node.loop /\ node.until /\ ~MarkerSeen
    /\ iteration' = iteration + 1
    /\ runner' = "begin"
    /\ UNCHANGED <<node, context, process, streams, result>>

\* No iteration is left, or there was none to begin with.
MarkerMissing ==
    /\ runner = "begin"
    /\ ~MoreIterations
    /\ Return("failed")
    /\ UNCHANGED <<context, process, streams>>

CallerStep ==
    \/ Start \/ StartFails \/ WaitReturns
    \/ Canceled \/ Failed \/ Passed \/ NextIteration \/ MarkerMissing

-----------------------------------------------------------------------------
(* The scanners (scanLines, scanOpenCode).                                 *)

HasLine(s) == \E k \in DOMAIN buffer[s] : buffer[s][k] = "newline"

IsFull(s) == ~HasLine(s) /\ Len(buffer[s]) >= LineLimit

\* A scanner without a whole line reads some of what the pipe holds, as far as
\* its buffer goes.
Read(s) ==
    /\ scanner[s] = "scanning"
    /\ open
    /\ ~HasLine(s)
    /\ \E k \in 1..Len(pipe[s]) :
        /\ Len(buffer[s]) + k <= LineLimit
        /\ buffer' = [buffer EXCEPT ![s] = @ \o SubSeq(pipe[s], 1, k)]
        /\ pipe' = [pipe EXCEPT ![s] = SubSeq(@, k + 1, Len(@))]
    /\ UNCHANGED <<node, iteration, runner, context, process, written, open, scanner,
                   recorded, result>>

Record(s) ==
    /\ scanner[s] = "scanning"
    /\ \E k \in DOMAIN buffer[s] :
        /\ buffer[s][k] = "newline"
        /\ \A j \in 1..(k - 1) : buffer[s][j] # "newline"
        /\ recorded' = [recorded EXCEPT ![s] = @ \o SubSeq(buffer[s], 1, k)]
        /\ buffer' = [buffer EXCEPT ![s] = SubSeq(@, k + 1, Len(@))]
    /\ UNCHANGED <<node, iteration, runner, context, process, written, pipe, open,
                   scanner, result>>

\* (mutant) what is read of a line that is too long is dropped, and the scan
\* goes on
TooLong_Skips(s) ==
    /\ scanner[s] = "scanning"
    /\ IsFull(s)
    /\ buffer' = [buffer EXCEPT ![s] = <<>>]
    /\ UNCHANGED <<node, iteration, runner, context, process, written, pipe, open,
                   scanner, recorded, result>>

\* bufio.ErrTooLong, which nobody asks for, ends the scan.
TooLong(s) ==
    /\ scanner[s] = "scanning"
    /\ IsFull(s)
    /\ scanner' = [scanner EXCEPT ![s] = "ended"]
    /\ UNCHANGED <<node, iteration, runner, context, process, written, pipe, open,
                   buffer, recorded, result>>

\* The pipe is at its end, or cmd.Wait has closed it whatever it still holds:
\* what is read of the line at hand is given out as a last line.
EndOfInput(s) ==
    /\ scanner[s] = "scanning"
    /\ ~HasLine(s) /\ ~IsFull(s)
    /\ ~open \/ (pipe[s] = <<>> /\ process # "running")
    /\ scanner' = [scanner EXCEPT ![s] = "ended"]
    /\ recorded' = [recorded EXCEPT ![s] =
                       IF buffer[s] = <<>> THEN @ ELSE (@ \o buffer[s]) \o <<"newline">>]
    /\ buffer' = [buffer EXCEPT ![s] = <<>>]
    /\ UNCHANGED <<node, iteration, runner, context, process, written, pipe, open,
                   result>>

ScannerStep(s) == Read(s) \/ Record(s) \/ TooLong(s) \/ EndOfInput(s)

-----------------------------------------------------------------------------
(* The process and the context.                                            *)

\* A write blocks while the pipe is full.
Write(s, chunk) ==
    /\ process = "running"
    /\ Len(written["stdout"]) + Len(written["stderr"]) < MaxOutput
    /\ Len(pipe[s]) < PipeSize
    /\ written' = [written EXCEPT ![s] = Append(@, chunk)]
    /\ pipe' = [pipe EXCEPT ![s] = Append(@, chunk)]
    /\ UNCHANGED <<node, iteration, runner, context, process, open, scanner, buffer,
                   recorded, result>>

Exit(status) ==
    /\ process = "running"
    /\ process' = status
    /\ UNCHANGED <<node, iteration, runner, context, streams, result>>

\* The deadline of executeNode passes, or a sibling's failure cancels the layer.
ContextDone ==
    /\ context = "live"
    /\ runner # "returned"
    /\ context' = "done"
    /\ UNCHANGED <<node, iteration, runner, process, streams, result>>

\* (mutant) exec.Command instead of exec.CommandContext
Kill_Never == FALSE /\ UNCHANGED vars

\* exec.CommandContext kills the process of a context that is done.
Kill == context = "done" /\ Exit("failure")

Next ==
    \/ CallerStep
    \/ \E s \in Stream : ScannerStep(s)
    \/ \E s \in Stream, chunk \in Chunk : Write(s, chunk)
    \/ \E status \in {"success", "failure"} : Exit(status)
    \/ ContextDone
    \/ Kill

Spec == Init /\ [][Next]_vars

\* The goroutines run, deadlines pass and kills arrive; the process itself may
\* hang or write for ever.
FairSpec ==
    /\ Spec
    /\ WF_vars(CallerStep)
    /\ \A s \in Stream : WF_vars(ScannerStep(s))
    /\ WF_vars(ContextDone)
    /\ WF_vars(Kill)

-----------------------------------------------------------------------------
(* Properties.                                                             *)

TypeOK ==
    /\ node \in Nodes
    /\ iteration \in Nat \ {0}
    /\ iteration > 1 => node.loop
    /\ node.loop /\ runner \in {"waiting", "draining"} => iteration <= MaxIterations
    /\ runner \in {"begin", "waiting", "draining", "returned"}
    /\ context \in {"live", "done"}
    /\ process \in {"none", "running", "success", "failure"}
    /\ written \in [Stream -> Seq(Chunk)]
    /\ pipe \in [Stream -> Seq(Chunk)]
    /\ buffer \in [Stream -> Seq(Chunk)]
    /\ recorded \in [Stream -> Seq(Chunk)]
    /\ open \in BOOLEAN
    /\ scanner \in [Stream -> {"scanning", "ended"}]
    /\ result \in {"none", "passed", "failed", "canceled"}

\* What has been recorded of a stream is what the process wrote to it, from the
\* beginning and without a gap, in whole lines; only the last line may be the
\* beginning of one, and only after the process has ended.
OutputIsInOrder ==
    \A s \in Stream :
        /\ recorded[s] # <<>> => recorded[s][Len(recorded[s])] = "newline"
        /\ \A k \in DOMAIN recorded[s] :
              \/ k \in DOMAIN written[s] /\ recorded[s][k] = written[s][k]
              \/ k = Len(recorded[s]) /\ scanner[s] = "ended" /\ process # "running"

\* A loop node passes only when the process of its last iteration wrote the
\* completion marker (TestOpenCodeRunnerLoopChecksCompletionMarker), and no
\* node passes on a process that did not succeed.
PassIsEarned ==
    result = "passed" =>
        /\ process = "success"
        /\ node.loop /\ node.until =>
             \E s \in Stream : \E k \in DOMAIN written[s] : written[s][k] = "marker"

\* The last line of the output is a part of one, or a line the process did not
\* end: the scanner has put an end to it.
IsCut(s) ==
    /\ scanner[s] = "ended" /\ process # "running"
    /\ recorded[s] # <<>> /\ recorded[s][Len(recorded[s])] = "newline"
    /\ \A k \in 1..(Len(recorded[s]) - 1) :
          k \in DOMAIN written[s] /\ recorded[s][k] = written[s][k]

\* Until then nothing is lost between the process and the output, although some
\* may stay where it is.
NothingIsLost ==
    \A s \in Stream :
        \/ IsCut(s)
        \/ /\ written[s] = recorded[s] \o (buffer[s] \o pipe[s])
           /\ recorded[s] # <<>> => recorded[s][Len(recorded[s])] = "newline"

\* Where the caller is, and what it has waited for.
CallerInv ==
    /\ process = "running" => runner = "waiting" /\ open
    /\ runner = "waiting" => process # "none"
    /\ runner = "draining" => process \in {"success", "failure"}
    /\ runner \in {"begin", "returned"} => ScannersDone
    /\ result # "none" <=> runner = "returned"

\* The inductive invariant of NodeRunner_proofs.
Inv == TypeOK /\ NothingIsLost /\ CallerInv /\ PassIsEarned

\* Once the runner has returned its result, no line of the node is recorded any
\* more: executeNode reads the collected output without the lock.
RecordingIsOver ==
    [][runner = "returned" => recorded' = recorded]_vars

\* A run with no line beyond LineLimit on a stream.
LinesFit(s) ==
    \A k \in 1..(Len(written[s]) - LineLimit + 1) :
        \E j \in k..(k + LineLimit - 1) : written[s][j] = "newline"

\* A command that passed has its whole output recorded
\* (TestCommandRunnerCapturesOutput): not so, because cmd.Wait does not wait for
\* the scanners before it closes the pipes.
OutputIsComplete ==
    result = "passed" =>
        \A s \in Stream :
            LinesFit(s) => recorded[s] \in {written[s], Append(written[s], "newline")}

\* The runner returns when the deadline of its node has passed, even if the
\* process hangs, or blocks on a pipe whose scanner has given up on a long line
\* (TestCommandRunnerReturnsPromptTimeout).
RunnerReturns == <>(runner = "returned")
=============================================================================
