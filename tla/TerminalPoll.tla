---------------------------- MODULE TerminalPoll ----------------------------
(***************************************************************************)
(* OpenPty: a console command attached to the PTY of a guest.  Direction   *)
(* "in" is stdin to PTY, direction "out" is PTY to stdout.                 *)
(*                                                                         *)
(*   "terminal"  stdin is a terminal: terminalPoll (Linux) serves both     *)
(*               directions and looks for ESC ( ; stdin and stdout are one *)
(*               non-blocking description, so stdout may take a part only. *)
(*   "pipe"      stdin is a pipe: a goroutine of its own serves "in", the  *)
(*               poll loop "out", and the rest of the output is drained.   *)
(*                                                                         *)
(* A file descriptor is the sequence of bytes waiting in it; the kernel    *)
(* and the guest are the external part.  The guest may stop reading, and   *)
(* then a write to the PTY waits where no context is looked at, or it may  *)
(* print without a pause, and then the drain has no end.                   *)
(*                                                                         *)
(* A terminal is in raw mode meanwhile, and a goroutine of PrepareTerminal *)
(* gives the PTY its size whenever SIGWINCH says that it changed; that     *)
(* SIGWINCH goes through a channel of one place.                           *)
(***************************************************************************)
EXTENDS Naturals, Sequences

CONSTANTS
  Keys,       \* what the user may enter: "esc", "paren" and other bytes
  Sessions,   \* the kinds of stdin, outcomes of term.MakeRaw and bounds to be combined:
              \* bytes the user enters, bytes the guest prints, changes of the window,
              \* and what the guest may turn to
  Chunk,      \* the size of the read buffer
  Shared      \* another console may be attached to the same PTY

ASSUME TerminalPollAssumption ==
  /\ Sessions \subseteq [mode : {"terminal", "pipe"}, raw : BOOLEAN,
                           in : Nat, out : Nat, sizes : Nat,
                           moods : SUBSET {"deaf", "talking"}]
  /\ {"esc", "paren"} \subseteq Keys
  /\ Chunk \in Nat \ {0}
  /\ Shared \in BOOLEAN

Directions == {"in", "out"}

VARIABLES
  session,   \* the member of Sessions that this one is
  pc,        \* the goroutine in OpenPty
  batch,     \* events of the last epoll_wait still to be dispatched
  closing,   \* the handlers' verdict
  step,      \* escapeHandler.step
  waiting,   \* waiting[d]: bytes unread in the source
  got,       \* got[d]: bytes read so far (history)
  pend,      \* pend[d]: simpleCopier.pending; for a pipe the copier's buffer
  dst,       \* dst[d]: bytes written so far
  hup,       \* hup[d]: the source has hung up
  lost,      \* lost[d]: bytes that were read have been given up (history)
  printed,   \* bytes the guest has printed
  ctx,       \* pollCtx is done
  guest,     \* "deaf": it does not read and the PTY is full; "talking": it prints at
             \* least once in every 300 ms; or neither
  asked,     \* the command got a signal
  copier,    \* copyPipeInputToPTY
  err,       \* the session failed: in its setup, or by a panic
  raw,       \* the terminal is in raw mode
  outer,     \* the size of the window: 1, 2, ...
  inner,     \* the size of the PTY, 0 before it is given one
  notified,  \* signal.Notify is in force for SIGWINCH
  winch,     \* a SIGWINCH is in the channel
  resizer,   \* the goroutine of PrepareTerminal
  ws,        \* the size it has read
  missed     \* history: the window last changed before Notify

dataVars == <<waiting, got, pend, dst, lost>>
envVars == <<session, hup, printed, guest, asked>>
windowVars == <<raw, outer, inner, notified, winch, resizer, ws, missed>>
vars == <<pc, batch, closing, step, dataVars, envVars, ctx, copier, err, windowVars>>

Events == [of : Directions, readable : BOOLEAN, hup : BOOLEAN]
          \cup [of : {"cancel"}, readable : {TRUE}, hup : {FALSE}]

mode == session.mode
Bytes(d) == IF d = "in" THEN Keys ELSE 1 .. session.out
Bound(d) == IF d = "in" THEN session.in ELSE session.out

TypeOK ==
  /\ session \in Sessions
  /\ pc \in {"open", "prepare", "notify", "register", "top", "epoll", "dispatch", "blocked", "leave",
             "restore", "drain", "join", "closed"}
  /\ batch \subseteq Events
  /\ closing \in BOOLEAN /\ step \in 0 .. 1
  /\ \A d \in Directions : \A q \in {waiting[d], got[d], pend[d], dst[d]} :
       q \in Seq(Bytes(d)) /\ Len(q) <= Bound(d)
  /\ hup \in [Directions -> BOOLEAN] /\ lost \in [Directions -> BOOLEAN]
  /\ printed \in 0 .. session.out
  /\ guest \in {"calm"} \cup session.moods
  /\ ctx \in BOOLEAN /\ asked \in BOOLEAN
  /\ copier \in {"off", "read", "write", "cancel", "done"}
  /\ err \in {"none", "setup", "panic"}
  /\ {raw, notified, winch, missed} \subseteq BOOLEAN
  /\ outer \in 1 .. session.sizes + 1 /\ {inner, ws} \subseteq 0 .. session.sizes + 1
  /\ resizer \in {"off", "idle", "set", "ended"}

Nothing == [d \in Directions |-> <<>>]

Init ==
  /\ session \in Sessions
  /\ pc = "open"
  /\ batch = {} /\ closing = FALSE /\ step = 0
  /\ waiting = Nothing /\ got = Nothing /\ pend = Nothing /\ dst = Nothing
  /\ hup = [d \in Directions |-> FALSE] /\ lost = [d \in Directions |-> FALSE]
  /\ printed = 0 /\ guest = "calm" /\ ctx = FALSE /\ asked = FALSE
  /\ copier = "off"
  /\ err = "none" /\ raw = FALSE
  /\ outer = 1 /\ inner = 0 /\ ws = 0
  /\ notified = FALSE /\ winch = FALSE /\ resizer = "off" /\ missed = FALSE

Polled == IF mode = "terminal" THEN Directions ELSE {"out"}
Leave == pc' = "leave" /\ batch' = {}
Smaller(a, b) == IF a < b THEN a ELSE b

----------------------------------------------------------------------------
(* escapeHandler: ESC, then ( as the very next byte *)

\* What the handler makes of the next byte.
EscapeByte(acc, b) ==
  IF acc.hit \/ (acc.step = 1 /\ b = "paren") THEN [acc EXCEPT !.hit = TRUE]
  ELSE [acc EXCEPT !.step = IF @ = 0 /\ b = "esc" THEN 1 ELSE 0]

\* Faulty variant: an ESC at the end of one read is forgotten.
EscapeForgetful(from, bytes) ==
  LET scan[i \in 0 .. Len(bytes)] ==
        IF i = 0 THEN [step |-> 0, hit |-> FALSE] ELSE EscapeByte(scan[i - 1], bytes[i])
  IN scan[Len(bytes)]

Escape(from, bytes) ==
  LET scan[i \in 0 .. Len(bytes)] ==
        IF i = 0 THEN [step |-> from, hit |-> FALSE] ELSE EscapeByte(scan[i - 1], bytes[i])
  IN scan[Len(bytes)]

----------------------------------------------------------------------------
(* simpleCopier.Handle *)

\* The bytes a writer may take of buf: all of them; on stdout a part before EAGAIN;
\* of a guest that does not read, a part for now; "error" when the other side is gone.
WriteOutcomes(d, buf) ==
  LET full == [taken |-> Len(buf), error |-> FALSE]
      part == {[taken |-> k, error |-> FALSE] : k \in 0 .. Len(buf) - 1}
      fail == {[taken |-> k, error |-> TRUE] : k \in 0 .. Len(buf) - 1}
  IN IF buf = <<>> THEN {full}
     ELSE IF d = "in" THEN
       IF hup["out"] THEN {[taken |-> 0, error |-> TRUE]}
       ELSE IF guest = "deaf" THEN part ELSE {full}
     ELSE {full} \cup fail \cup (IF mode = "terminal" THEN part ELSE {})

\* Faulty variant: an incomplete write ends the session.
CopierDoneEager(w, buf, isHup, verdict) ==
  w.error \/ w.taken < Len(buf) \/ isHup \/ (verdict /\ buf = <<>>)

\* Faulty variant: the hang-up of the source is not looked at.
CopierDoneDeaf(w, buf, isHup, verdict) ==
  IF w.error THEN TRUE ELSE IF w.taken < Len(buf) THEN verdict ELSE verdict /\ buf = <<>>

\* What Handle returns.
CopierDone(w, buf, isHup, verdict) ==
  IF w.error THEN TRUE
  ELSE IF w.taken < Len(buf) THEN verdict
  ELSE isHup \/ (verdict /\ buf = <<>>)

\* Faulty variant: new bytes are written before the pending ones.
CopyOvertaking(d, chunk, isHup, found) ==
  LET buf == chunk \o pend[d] IN
  \E w \in WriteOutcomes(d, buf) :
    /\ dst' = [dst EXCEPT ![d] = @ \o SubSeq(buf, 1, w.taken)]
    /\ pend' = [pend EXCEPT ![d] = IF w.error THEN <<>> ELSE SubSeq(buf, w.taken + 1, Len(buf))]
    /\ lost' = [lost EXCEPT ![d] = @ \/ w.error]
    /\ got' = [got EXCEPT ![d] = @ \o chunk]
    /\ closing' = (closing \/ CopierDone(w, buf, isHup, closing) \/ found)

\* Faulty variant: pending keeps the bytes that were written.
CopyRepeating(d, chunk, isHup, found) ==
  LET buf == pend[d] \o chunk IN
  \E w \in WriteOutcomes(d, buf) :
    /\ dst' = [dst EXCEPT ![d] = @ \o SubSeq(buf, 1, w.taken)]
    /\ pend' = [pend EXCEPT ![d] = IF w.taken = Len(buf) THEN <<>> ELSE buf]
    /\ lost' = [lost EXCEPT ![d] = @ \/ w.error]
    /\ got' = [got EXCEPT ![d] = @ \o chunk]
    /\ closing' = (closing \/ CopierDone(w, buf, isHup, closing) \/ found)

Copy(d, chunk, isHup, found) ==
  LET buf == pend[d] \o chunk IN
  \E w \in WriteOutcomes(d, buf) :
    /\ dst' = [dst EXCEPT ![d] = @ \o SubSeq(buf, 1, w.taken)]
    /\ pend' = [pend EXCEPT ![d] = IF w.error THEN <<>> ELSE SubSeq(buf, w.taken + 1, Len(buf))]
    /\ lost' = [lost EXCEPT ![d] = @ \/ w.error]
    /\ got' = [got EXCEPT ![d] = @ \o chunk]
    /\ closing' = (closing \/ CopierDone(w, buf, isHup, closing) \/ found)

----------------------------------------------------------------------------
(* OpenConsole, and OpenPty up to Wait *)

\* VmInfo, whose answer or cancellation may leave the command without a PTY;
\* validation and open of the path; epoll_create; with a pipe, the copier starts.
Open ==
  /\ pc = "open"
  /\ \/ /\ mode = "terminal" /\ pc' = "prepare"
        /\ UNCHANGED <<copier, err>>
     \/ /\ mode = "pipe" /\ pc' = "register"
        /\ copier' = "read"
        /\ UNCHANGED err
     \/ /\ pc' = "closed" /\ err' = "setup"
        /\ UNCHANGED copier
  /\ UNCHANGED <<batch, closing, step, dataVars, envVars, ctx, windowVars>>

\* PrepareTerminal: without raw mode the session goes on all the same, with no
\* resizing; with it, the channel starts with a SIGWINCH in it.
Prepare ==
  /\ pc = "prepare"
  /\ \/ /\ session.raw
        /\ pc' = "notify"
        /\ raw' = TRUE /\ winch' = TRUE /\ resizer' = "idle"
     \/ /\ ~session.raw
        /\ pc' = "register"
        /\ UNCHANGED <<raw, winch, resizer>>
  /\ UNCHANGED <<batch, closing, step, dataVars, envVars, ctx, copier, err, outer, inner, notified,
                 ws, missed>>

\* signal.Notify
Notify ==
  /\ pc = "notify"
  /\ pc' = "register"
  /\ notified' = TRUE
  /\ UNCHANGED <<batch, closing, step, dataVars, envVars, ctx, copier, err, raw, outer, inner, winch,
                 resizer, ws, missed>>

\* terminalPoll.Add and Register, whose error ends OpenPty.
Register ==
  /\ pc = "register"
  /\ \/ pc' = "top" /\ UNCHANGED err
     \/ pc' = "leave" /\ err' = "setup"
  /\ UNCHANGED <<batch, closing, step, dataVars, envVars, ctx, copier, windowVars>>

----------------------------------------------------------------------------
(* terminalPoll.Wait and wait *)

LoopTop ==
  /\ pc = "top"
  /\ IF closing \/ ctx THEN Leave ELSE pc' = "epoll" /\ UNCHANGED batch
  /\ UNCHANGED <<closing, step, dataVars, ctx, copier, err, envVars, windowVars>>


ReadyEvents ==
  {[of |-> d, readable |-> waiting[d] # <<>> \/ hup[d], hup |-> hup[d]] :
     d \in {x \in Polled : waiting[x] # <<>> \/ hup[x]}}
  \cup (IF ctx THEN {[of |-> "cancel", readable |-> TRUE, hup |-> FALSE]} ELSE {})

EpollWait ==
  /\ pc = "epoll" /\ ReadyEvents # {}
  /\ batch' = ReadyEvents
  /\ pc' = "dispatch"
  /\ UNCHANGED <<closing, step, dataVars, ctx, copier, err, envVars, windowVars>>

\* flushPendingLocked, after 100 ms without an event; without pending bytes
\* the wait has no timeout.
FlushPending ==
  /\ pc = "epoll" /\ ReadyEvents = {}
  /\ \E d \in Polled : pend[d] # <<>> /\ Copy(d, <<>>, FALSE, FALSE)
  /\ pc' = "top"
  /\ UNCHANGED <<batch, step, waiting, ctx, copier, err, envVars, windowVars>>

\* One event: cancellation drops the rest of the batch; otherwise read and call
\* the handlers.  A hang-up without pending bytes also removes the descriptor,
\* which no later wait would see: the copier has just returned true.
DispatchCancel ==
  /\ pc = "dispatch"
  /\ \E e \in batch : e.of = "cancel"
  /\ Leave
  /\ UNCHANGED <<closing, step, dataVars, ctx, copier, err, envVars, windowVars>>

Chunked(d) == SubSeq(waiting[d], 1, Smaller(Chunk, Len(waiting[d])))
Unread(d, chunk) == SubSeq(waiting[d], Len(chunk) + 1, Len(waiting[d]))

\* A write that the guest does not take is waited for in the middle of it.
Resume(d) ==
  IF d = "in" /\ pend'["in"] # <<>> THEN "blocked" ELSE IF batch' = {} THEN "top" ELSE "dispatch"

\* A terminal that has hung up is read as empty.
Dispatch(e) ==
  /\ pc = "dispatch" /\ e \in batch /\ e.of # "cancel"
  /\ waiting[e.of] # <<>> \/ hup[e.of]
  /\ LET chunk == Chunked(e.of)
         scan == IF e.of = "in" THEN Escape(step, chunk) ELSE [step |-> step, hit |-> FALSE]
     IN /\ Copy(e.of, chunk, e.hup, e.of = "in" /\ (scan.hit \/ e.hup))
        /\ waiting' = [waiting EXCEPT ![e.of] = Unread(e.of, chunk)]
        /\ step' = scan.step
  /\ batch' = batch \ {e}
  /\ pc' = Resume(e.of)
  /\ UNCHANGED <<ctx, copier, err, envVars, windowVars>>

\* The guest takes the rest of a write that waited, or the PTY is gone.
Unblock ==
  /\ pc = "blocked" /\ (guest # "deaf" \/ hup["out"])
  /\ Copy("in", <<>>, FALSE, FALSE)
  /\ pc' = IF batch = {} THEN "top" ELSE "dispatch"
  /\ UNCHANGED <<batch, step, waiting, ctx, copier, err, envVars, windowVars>>

\* The bytes that were announced are gone, or the terminal is: read returns -1, and
\* the handlers are given buf[:-1].  The panic runs the deferred calls.
DispatchPanics ==
  /\ pc = "dispatch"
  /\ \E e \in batch : e.of # "cancel" /\ waiting[e.of] = <<>>
  /\ Leave
  /\ err' = "panic"
  /\ UNCHANGED <<closing, step, dataVars, ctx, copier, envVars, windowVars>>

----------------------------------------------------------------------------
(* OpenPty after Wait: the deferred calls, last one first *)

\* Faulty variant: terminalCloser is called after Wait instead of deferred.
LeftUndeferred ==
  /\ pc = "leave"
  /\ pc' = IF mode = "pipe" THEN "drain"
           ELSE IF resizer = "off" \/ err # "none" THEN "closed" ELSE "restore"
  /\ notified' = FALSE
  /\ UNCHANGED <<batch, closing, step, dataVars, envVars, ctx, copier, err, raw, outer, inner, winch,
                 resizer, ws, missed>>

\* terminalCloser: signal.Stop and close(ch), if there is a resizer; or, with a
\* pipe, the drain begins.
Left ==
  /\ pc = "leave"
  /\ pc' = IF mode = "pipe" THEN "drain" ELSE IF resizer = "off" THEN "closed" ELSE "restore"
  /\ notified' = FALSE
  /\ UNCHANGED <<batch, closing, step, dataVars, envVars, ctx, copier, err, raw, outer, inner, winch,
                 resizer, ws, missed>>

\* <-waiter: the goroutine empties the closed channel and ends; then term.Restore,
\* which a terminal that has hung up may refuse.
Restore ==
  /\ pc = "restore" /\ resizer = "idle" /\ ~winch
  /\ pc' = "closed"
  /\ resizer' = "ended"
  /\ raw' \in (IF hup["in"] THEN BOOLEAN ELSE {FALSE})
  /\ UNCHANGED <<batch, closing, step, dataVars, envVars, ctx, copier, err, outer, inner, notified,
                 winch, ws, missed>>

\* io.Copy from the PTY to stdout, which is blocking here; the verdict is not read again.
Drain ==
  /\ pc = "drain" /\ waiting["out"] # <<>>
  /\ Copy("out", waiting["out"], FALSE, FALSE)
  /\ waiting' = [waiting EXCEPT !["out"] = <<>>]
  /\ pc' = IF lost'["out"] THEN "join" ELSE "drain"
  /\ UNCHANGED <<batch, step, ctx, copier, err, envVars, windowVars>>

\* Nothing was printed for 300 ms, or the PTY is gone; no context is looked at.
DrainEnds ==
  /\ pc = "drain" /\ waiting["out"] = <<>>
  /\ guest # "talking" \/ hup["out"]
  /\ pc' = "join"
  /\ UNCHANGED <<batch, closing, step, dataVars, ctx, copier, err, envVars, windowVars>>

\* <-copyDone, and only then the deferred cancel of pollCtx.
Join ==
  /\ pc = "join" /\ copier = "done"
  /\ pc' = "closed"
  /\ ctx' = TRUE
  /\ UNCHANGED <<batch, closing, step, dataVars, copier, err, envVars, windowVars>>

----------------------------------------------------------------------------
(* copyPipeInputToPTY and the goroutine around it *)

CopierReads ==
  /\ copier = "read"
  /\ \/ /\ ctx \/ (waiting["in"] = <<>> /\ hup["in"])
        /\ copier' = "cancel"
        /\ UNCHANGED <<waiting, got, pend>>
     \/ /\ ~ctx /\ waiting["in"] # <<>>
        /\ copier' = "write"
        /\ LET chunk == Chunked("in") IN
             /\ waiting' = [waiting EXCEPT !["in"] = Unread("in", chunk)]
             /\ got' = [got EXCEPT !["in"] = @ \o chunk]
             /\ pend' = [pend EXCEPT !["in"] = chunk]
  /\ UNCHANGED <<pc, batch, closing, step, dst, lost, ctx, err, envVars, windowVars>>

\* The first n of the copier's bytes are written and the others given up.
CopierPuts(n) ==
  /\ copier = "write"
  /\ pend' = [pend EXCEPT !["in"] = <<>>]
  /\ dst' = [dst EXCEPT !["in"] = @ \o SubSeq(pend["in"], 1, n)]
  /\ lost' = [lost EXCEPT !["in"] = @ \/ n < Len(pend["in"])]
  /\ UNCHANGED <<pc, batch, closing, step, waiting, got, ctx, err, envVars, windowVars>>

CopierWrites ==
  \/ hup["out"] /\ CopierPuts(0) /\ copier' = "cancel"
  \/ ~hup["out"] /\ guest # "deaf" /\ CopierPuts(Len(pend["in"])) /\ copier' = "read"

\* EAGAIN from a full PTY, and the context is done.  Go's poller waits for room
\* before it would return EAGAIN, so that nothing has to come to this.
CopierGivesUp ==
  /\ ~hup["out"] /\ guest = "deaf" /\ ctx
  /\ \E n \in 0 .. Len(pend["in"]) - 1 : CopierPuts(n)
  /\ copier' = "read"

CopierCancels ==
  /\ copier = "cancel"
  /\ copier' = "done"
  /\ ctx' = TRUE
  /\ UNCHANGED <<pc, batch, closing, step, dataVars, err, envVars, windowVars>>

----------------------------------------------------------------------------
(* The goroutine of PrepareTerminal *)

loopVars == <<session, guest, pc, batch, closing, step, copier, err, got, pend, dst, lost>>

\* TIOCGWINSZ of the terminal; when it fails the loop goes on.
ResizerReads ==
  /\ resizer = "idle" /\ winch
  /\ winch' = FALSE
  /\ \/ ws' = outer /\ resizer' = "set"
     \/ hup["in"] /\ UNCHANGED <<ws, resizer>>
  /\ UNCHANGED <<loopVars, waiting, hup, printed, ctx, asked, raw, outer, inner, notified, missed>>

\* TIOCSWINSZ of the PTY, which may have hung up.
ResizerSets ==
  /\ resizer = "set"
  /\ resizer' = "idle"
  /\ inner' \in (IF hup["out"] THEN {inner, ws} ELSE {ws})
  /\ UNCHANGED <<loopVars, waiting, hup, printed, ctx, asked, raw, outer, notified, winch, ws, missed>>

----------------------------------------------------------------------------
(* The user, the guest and the kernel *)

Ended == pc = "closed"

UserEnters ==
  /\ ~Ended /\ ~hup["in"] /\ Len(got["in"] \o waiting["in"]) < session.in
  /\ \E k \in (IF mode = "terminal" THEN Keys ELSE {"esc"}) :   \* a pipe is not scanned
       waiting' = [waiting EXCEPT !["in"] = Append(@, k)]
  /\ UNCHANGED <<loopVars, hup, printed, ctx, asked, windowVars>>

GuestPrints ==
  /\ ~Ended /\ ~hup["out"] /\ printed < session.out
  /\ printed' = printed + 1
  /\ waiting' = [waiting EXCEPT !["out"] = Append(@, printed + 1)]
  /\ UNCHANGED <<loopVars, hup, ctx, asked, windowVars>>

GuestTurns ==
  /\ ~Ended
  /\ guest' \in ({"calm"} \cup session.moods) \ {guest}
  /\ UNCHANGED <<session, hup, printed, asked, pc, batch, closing, step, dataVars, ctx, copier, err,
                 windowVars>>

OtherConsoleReads ==
  /\ ~Ended /\ Shared /\ waiting["out"] # <<>>
  /\ waiting' = [waiting EXCEPT !["out"] = <<>>]
  /\ UNCHANGED <<loopVars, hup, printed, ctx, asked, windowVars>>

\* A terminal that hangs up drops what is unread; a pipe does not.
HangUp(d) ==
  /\ ~Ended /\ ~hup[d]
  /\ hup' = [hup EXCEPT ![d] = TRUE]
  /\ waiting' \in {waiting} \cup
       (IF d = "in" /\ mode = "pipe" THEN {} ELSE {[waiting EXCEPT ![d] = <<>>]})
  /\ UNCHANGED <<loopVars, printed, ctx, asked, windowVars>>

Signal ==
  /\ ~Ended /\ ~asked
  /\ asked' = TRUE /\ ctx' = TRUE
  /\ UNCHANGED <<loopVars, waiting, hup, printed, windowVars>>

\* Faulty variant: the channel has no place for a signal that comes while the
\* goroutine is busy.
WinchUnbuffered == winch \/ (notified /\ resizer = "idle")

\* The channel after a SIGWINCH: a second one is dropped.
Winch == winch \/ notified

WindowChanges ==
  /\ ~Ended /\ outer <= session.sizes
  /\ outer' = outer + 1
  /\ winch' = Winch
  /\ missed' = ~notified
  /\ UNCHANGED <<loopVars, waiting, hup, printed, ctx, asked, raw, inner, notified, resizer, ws>>

----------------------------------------------------------------------------
LoopStep ==
  \/ Open \/ Prepare \/ Notify \/ Register
  \/ LoopTop \/ EpollWait \/ FlushPending
  \/ DispatchCancel \/ (\E e \in batch : Dispatch(e)) \/ DispatchPanics \/ Unblock
  \/ Left \/ Restore \/ Drain \/ DrainEnds \/ Join
CopierStep == CopierReads \/ CopierWrites \/ CopierCancels
ResizerStep == ResizerReads \/ ResizerSets
Environment ==
  \/ UserEnters \/ GuestPrints \/ GuestTurns \/ OtherConsoleReads \/ (\E d \in Directions : HangUp(d)) \/ Signal
  \/ WindowChanges

Next ==
  \/ LoopStep \/ CopierStep \/ CopierGivesUp \/ ResizerStep \/ Environment
  \/ Ended /\ UNCHANGED vars

Spec == Init /\ [][Next]_vars

\* The goroutines run, and a stdout that is offered bytes again and again
\* takes all of them at some time.  Neither user nor guest has to do anything, and a
\* write to a PTY that stays full is not given up.
Fairness ==
  /\ WF_vars(LoopStep) /\ WF_vars(CopierStep) /\ WF_vars(ResizerStep)
  /\ SF_vars(LoopStep /\ pend["out"] # <<>> /\ pend'["out"] = <<>>)

FairSpec == Spec /\ Fairness

----------------------------------------------------------------------------
(* Properties *)

\* Every byte that was read is written once, in order, or still pending, through
\* partial writes, EAGAIN, flushes and the final drain, unless a write failed.
ForwardsInOrder == \A d \in Directions : lost[d] \/ got[d] = dst[d] \o pend[d]

\* The loop waits for events again only if the handler, given all the bytes of the
\* user at once, finds no escape sequence: how the reads cut the input, and what is
\* pending or blocked meanwhile, makes no difference.  (Given ESC ESC ( at once it
\* finds none either, although the message at pty.go:47 promises ESC ( .)
EscapeEndsSession == mode = "terminal" /\ pc = "epoll" => ~Escape(0, got["in"]).hit

\* What the user knows of it: an ESC and, as the next byte, a ( .
EscapeEntered == \E i \in 2 .. Len(got["in"]) : got["in"][i - 1] = "esc" /\ got["in"][i] = "paren"

\* The session ends for a reason: a signal, a side that closed, the escape
\* sequence, a write that failed, or a failure of its own; a slow stdout is none.
EndsForAReason ==
  pc \in {"leave", "restore", "drain", "join", "closed"} =>
    \/ asked \/ err # "none" \/ lost["in"] \/ lost["out"]
    \/ \E d \in Directions : hup[d]
    \/ mode = "terminal" /\ EscapeEntered

\* On every way out -- an error of the setup, a panic, a signal -- the terminal is
\* as it was, unless it is gone, and the resizer has ended before its PTY closes.
TerminalRestored ==
  pc = "closed" => (raw => hup["in"]) /\ resizer \in {"off", "ended"}

\* The PTY gets the size of the window however often and whenever it changes while
\* SIGWINCH is awaited.  (A change between the first reading and Notify is missed.)
WindowFollows ==
  (notified /\ ~missed /\ inner # outer)
    ~> (inner = outer \/ ~notified \/ \E d \in Directions : hup[d])

\* The guest holds the command: it does not read what is being written to it, or
\* it goes on printing while its output is drained.
Held ==
  /\ ~hup["out"]
  /\ \/ guest = "deaf" /\ (pc = "blocked" \/ copier = "write")
     \/ guest = "talking" /\ pc = "drain"


\* "until either side closes" (pty.go:15): a hang-up of either side ends it.
SideClosedEnds == (\E d \in Directions : hup[d]) ~> Ended
============================================================================
