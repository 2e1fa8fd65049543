------------------------------- MODULE Invoke -------------------------------
(***************************************************************************)
(* One call of Hypervisor.invoke: it launches a child, records its pid,    *)
(* copies its two output pipes to the log in a goroutine each, reaps it,   *)
(* and makes an error of its exit status and its last lines of stderr      *)
(* (hypervisor.go, execution_result.go).  Hypervisor and VirtiofsdRecoiler *)
(* have the same steps without the pipes.                                  *)
(*                                                                         *)
(* A pipe and the buffer of the bufio.Scanner that reads it are one queue  *)
(* of lines.  A line is a text, one that is blank once trimmed, or one too *)
(* long for a Scanner (64 KiB).                                            *)
(***************************************************************************)
EXTENDS Integers, Sequences

CONSTANTS
  Texts,      \* lines of stderr with something in them
  Capacity,   \* lines that fit in a pipe
  RingSize,   \* lines an ExecutionResult keeps: 10 in the code
  MaxLines    \* bound: lines written to stderr

Outputs == {"stdout", "stderr"}
Lines == Texts \cup {"blank", "long"}

ASSUME InvokeAssumption ==
  /\ Capacity \in Nat \ {0}
  /\ RingSize \in Nat \ {0}
  /\ Texts \cap {"blank", "long"} = {}
  /\ MaxLines \in Nat

VARIABLES
  pc,         \* where invoke is
  child,      \* the child: "none", "alive", "ended" (a zombie), "reaped"
  status,     \* how it ended: exit code "zero", or "failed": another code or a signal
  heirs,      \* a descendant of the child holds the write ends of the pipes too
  pipe,       \* pipe[o]: the lines on their way to the reader of o
  closed,     \* cmd.Wait has closed the read ends
  reader,     \* reader[o]: the goroutine of handleStdout or handleStderr
  ring, next, \* stderrLastLogLines and stderrLastLogLineStartIdx
  written,    \* history: every line written to stderr
  taken,      \* history: how many of these handleStderr has read
  result,     \* what invoke returned: "none" yet, "nil", or the error of the "exit" of the
              \* child, of its "start" or of its "pidfile"
  report      \* the lines in that error, or in the log entry beside nil

procVars == <<child, status, heirs>>
pipeVars == <<pipe, closed, reader, ring, next, written, taken>>
vars == <<pc, procVars, pipeVars, result, report>>

PCs == {"start", "record", "wait", "join", "abort", "stopped", "unkilled", "abandon", "done"}
Results == {"none", "nil", "exit", "start", "pidfile"}
Slots == 0 .. RingSize - 1

TypeOK ==
  /\ pc \in PCs
  /\ child \in {"none", "alive", "ended", "reaped"}
  /\ status \in {"none", "zero", "failed"}
  /\ heirs \in BOOLEAN /\ closed \in BOOLEAN
  /\ pipe \in [Outputs -> Seq(Lines)]
  /\ reader \in [Outputs -> {"none", "scan", "ended"}]
  /\ ring \in [Slots -> Lines] /\ next \in Slots
  /\ written \in Seq(Lines) /\ taken \in 0 .. Len(written)
  /\ result \in Results
  /\ report \in Seq(Texts)

Init ==
  /\ pc = "start"
  /\ child = "none" /\ status = "none"
  /\ heirs = FALSE /\ closed = FALSE
  /\ pipe = [o \in Outputs |-> <<>>]
  /\ reader = [o \in Outputs |-> "none"]
  /\ ring = [i \in Slots |-> "blank"] /\ next = 0
  /\ written = <<>> /\ taken = 0
  /\ result = "none" /\ report = <<>>

Full(o) == Len(pipe[o]) = Capacity
Writers == child = "alive" \/ heirs

----------------------------------------------------------------------------
(* ExecutionResult *)

\* Faulty variant: the index is not carried on.
AppendLogLineInPlace(line) ==
  /\ ring' = [ring EXCEPT ![next] = line]
  /\ next' = IF next = RingSize - 1 THEN next ELSE next + 1

\* AppendLogLine, as a change of ring and next.
AppendLogLine(line) ==
  /\ ring' = [ring EXCEPT ![next] = line]
  /\ next' = (next + 1) % RingSize

\* The lines with something in them.
NonBlank(lines) ==
  LET kept[i \in 0 .. Len(lines)] ==
        IF i = 0 THEN <<>>
        ELSE IF lines[i] = "blank" THEN kept[i - 1] ELSE Append(kept[i - 1], lines[i])
  IN kept[Len(lines)]

\* The ring from its oldest slot on, without its empty slots.
LastLogLine == NonBlank([i \in 1 .. RingSize |-> ring[(next + i - 1) % RingSize]])

\* What cmd.Wait makes of the status, and HandleError of that: the error of the
\* context, which Wait gives for a child that took SIGTERM and exited with 0, is
\* none; an exit code other than 0 or a signal is one, cancelled or not.
HandleError == IF status = "zero" THEN "nil" ELSE "exit"

----------------------------------------------------------------------------
(* invoke *)

\* The error of a command that could not be started, or was cancelled before.
StartFails ==
  /\ pc = "start"
  /\ pc' = "done" /\ result' = "start"
  /\ UNCHANGED <<procVars, pipeVars, report>>

StartChild ==
  /\ pc = "start"
  /\ pc' = "record"
  /\ child' = "alive"
  /\ reader' = [o \in Outputs |-> "scan"]
  /\ UNCHANGED <<status, heirs, pipe, closed, ring, next, written, taken, result, report>>

\* AcquirePidFileReplacing; the virtiofsd, passt and cloud-hypervisor have a file each.
RecordPid ==
  /\ pc = "record"
  /\ pc' \in {"wait", "abort"}
  /\ UNCHANGED <<procVars, pipeVars, result, report>>

\* WaitUntilProcessFinished: the child ended within its second; it did not, and is
\* killed; or the wait itself failed, for want of a descriptor, and nobody kills.
AbortChild ==
  /\ pc = "abort"
  /\ \/ child = "ended" /\ pc' = "stopped" /\ UNCHANGED <<child, status>>
     \/ /\ child = "alive"
        /\ child' = "ended" /\ status' = "failed"
        /\ pc' = "stopped"
     \/ pc' = "unkilled" /\ UNCHANGED <<child, status>>
  /\ UNCHANGED <<heirs, pipeVars, result, report>>

\* cmd.Wait on either path: of a child that ran, or of one whose pid file failed.
Reaped ==
  /\ child = "ended" /\ child' = "reaped" /\ closed' = TRUE
  /\ \/ pc = "wait" /\ pc' = "join"
     \/ pc \in {"stopped", "unkilled"} /\ pc' = "abandon"

\* Faulty variant: the readers are awaited before the child is.
ReapAfterReaders ==
  /\ Reaped
  /\ \A o \in Outputs : reader[o] = "ended"
  /\ UNCHANGED <<status, heirs, pipe, reader, ring, next, written, taken, result, report>>

\* cmd.Wait closes the read ends as soon as it has the status: what a Scanner has
\* in its buffer is still delivered, the rest is lost.
Reap ==
  /\ Reaped
  /\ \E n \in [Outputs -> 0 .. Capacity] :
       /\ \A o \in Outputs : n[o] <= Len(pipe[o])
       /\ pipe' = [o \in Outputs |-> SubSeq(pipe[o], 1, n[o])]
  /\ UNCHANGED <<status, heirs, reader, ring, next, written, taken, result, report>>

\* wg.Wait, then HandleError.
Join ==
  /\ pc = "join"
  /\ \A o \in Outputs : reader[o] = "ended"
  /\ pc' = "done"
  /\ result' = HandleError
  /\ report' = LastLogLine
  /\ UNCHANGED <<procVars, pipeVars>>

\* wg.Wait, then the error of the pid file, whatever the child's status and last lines.
Abandon ==
  /\ pc = "abandon"
  /\ \A o \in Outputs : reader[o] = "ended"
  /\ pc' = "done"
  /\ result' = "pidfile"
  /\ UNCHANGED <<procVars, pipeVars, report>>

----------------------------------------------------------------------------
(* The goroutines of handleStdout and handleStderr *)

\* Faulty variant: one goroutine copies stdout to its end, then stderr.
ReadsInTurn(o) == reader[o] = "scan" /\ (o = "stderr" => reader["stdout"] = "ended")

Reads(o) == reader[o] = "scan"

\* The next line; the lines of stderr go to the ring as well.
ScanLine(o) ==
  /\ Reads(o)
  /\ pipe[o] # <<>> /\ Head(pipe[o]) # "long"
  /\ pipe' = [pipe EXCEPT ![o] = Tail(@)]
  /\ IF o = "stderr" THEN AppendLogLine(Head(pipe[o])) /\ taken' = taken + 1
                     ELSE UNCHANGED <<ring, next, taken>>
  /\ UNCHANGED <<pc, procVars, closed, reader, written, result, report>>

\* Scan is over at the end of the file, after the close, and at a line it cannot
\* hold: then nobody reads the pipe any more.
ScanEnds(o) ==
  /\ Reads(o)
  /\ \/ pipe[o] # <<>> /\ Head(pipe[o]) = "long"
     \/ pipe[o] = <<>> /\ (closed \/ ~Writers)
  /\ reader' = [reader EXCEPT ![o] = "ended"]
  /\ UNCHANGED <<pc, procVars, pipe, closed, ring, next, written, taken, result, report>>

----------------------------------------------------------------------------
(* The child *)

\* A write to a full pipe waits.  What stdout has is nobody's concern, but for its
\* lines that are too long.
Writes(o) ==
  /\ Writers /\ ~closed /\ ~Full(o)
  /\ \E l \in (IF o = "stderr" THEN Lines ELSE {"blank", "long"}) :
       /\ pipe' = [pipe EXCEPT ![o] = Append(@, l)]
       /\ IF o = "stdout" THEN UNCHANGED written
          ELSE Len(written) < MaxLines /\ written' = Append(written, l)
  /\ UNCHANGED <<pc, procVars, closed, reader, ring, next, taken, result, report>>

\* On its own, or because the context of exec.CommandContext was done and cmd.Cancel
\* sent SIGTERM, which a child may take its time over.
ChildEnds ==
  /\ child = "alive"
  /\ child' = "ended"
  /\ status' \in {"zero", "failed"}
  /\ UNCHANGED <<pc, heirs, pipeVars, result, report>>

\* A sandbox process of virtiofsd, for one, inherits the pipes.
Forks ==
  /\ child = "alive" /\ ~heirs
  /\ heirs' = TRUE
  /\ UNCHANGED <<pc, child, status, pipeVars, result, report>>

HeirsEnd ==
  /\ heirs /\ ~closed
  /\ heirs' = FALSE
  /\ UNCHANGED <<pc, child, status, pipeVars, result, report>>

----------------------------------------------------------------------------
InvokeStep == StartFails \/ StartChild \/ RecordPid \/ AbortChild \/ Reap \/ Join \/ Abandon
ReaderStep(o) == ScanLine(o) \/ ScanEnds(o)

Next ==
  \/ InvokeStep
  \/ \E o \in Outputs : ReaderStep(o) \/ Writes(o)
  \/ ChildEnds \/ Forks \/ HeirsEnd

\* The goroutines are scheduled, and the second of AbortChild passes; a child, and
\* whoever inherits its pipes, need never end nor write.
Fairness ==
  /\ WF_vars(InvokeStep)
  /\ \A o \in Outputs : WF_vars(ReaderStep(o))

Spec == Init /\ [][Next]_vars
FairSpec == Spec /\ Fairness

----------------------------------------------------------------------------
(* Properties *)

\* The lines reported with the exit of a child, in the error or in the log, are the
\* last ones of what was read of its stderr, in their order: the close of the pipes
\* and an overlong line may cut the end, but nothing is repeated, reordered or taken
\* from the middle, however often the ring has wrapped.  A child that was not
\* started, or whose pid file failed, has none.
ReportIsTail ==
  /\ result \in {"nil", "exit"} =>
       LET from == IF taken > RingSize THEN taken - RingSize + 1 ELSE 1
       IN  report = NonBlank(SubSeq(written, from, taken))
  /\ result \in {"none", "start", "pidfile"} => report = <<>>

\* A child whose pipe is full gets to write again, whatever it does with its other
\* pipe, as long as it has written no overlong line.
PipeDrained ==
  \A o \in Outputs :
    (Full(o) /\ reader[o] = "scan" /\ Head(pipe[o]) # "long") ~> ~Full(o)

\* invoke returns once its child has ended, even if a descendant of the child
\* keeps the pipes open for ever; and when the pid file fails it ends the child
\* itself and returns that error, whatever the child does with SIGTERM, unless even
\* the wait for the child fails.
InvokeReturns ==
  /\ (child = "ended") ~> (pc = "done")
  /\ (pc = "abort") ~> (result = "pidfile" \/ pc = "unkilled")
============================================================================
