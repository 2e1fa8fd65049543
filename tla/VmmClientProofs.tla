-------------------------- MODULE VmmClientProofs --------------------------
(***************************************************************************)
(* What the results of the HTTP client say is true, and its Close waits,   *)
(* for any number of concurrent calls and any choice of operations,        *)
(* whatever answers are lost and whenever the VMM ends.                    *)
(***************************************************************************)
EXTENDS VmmClient, FiniteSetTheorems, TLAPS

----------------------------------------------------------------------------
(* The inductive invariant *)

\* The type invariant without the bound on the wait group, which CountInv gives.
Typed ==
  /\ pc \in [Callers -> {"idle", "decode", "call", "flight", "answer", "return"}]
  /\ op \in [Callers -> Ops \cup {"none"}]
  /\ ctx \in [Callers -> BOOLEAN]
  /\ code \in [Callers -> {0, 200, 204, 404, 405, 500}]
  /\ result \in [Callers -> {"none", "ok", "http", "transport", "decode"} \cup Sentinels]
  /\ served \in [Callers -> 0 .. 1]
  /\ seen \in [Callers -> SUBSET States]
  /\ closer \in {"open", "waiting", "closed"}
  /\ early \subseteq Callers /\ pending \subseteq Callers
  /\ up \in BOOLEAN /\ vm \in States

\* An operation is chosen first; a result comes last.
Ordered(c) ==
  /\ pc[c] # "idle" => op[c] \in Ops
  /\ pc[c] # "return" => result[c] = "none"

\* A request is with the VMM once, and not before it is sent; an answer of success
\* and a nil go with one execution.
ServedOnce(c) ==
  /\ c \in pending => served[c] = 0 /\ pc[c] \in {"flight", "return"}
  /\ pc[c] \in {"idle", "decode", "call"} => served[c] = 0
  /\ pc[c] = "answer" /\ code[c] < 300 => served[c] = 1
  /\ result[c] = "ok" => served[c] = 1

\* What the answer under way will be read as was true of a state the call has seen.
Truthful(c) ==
  /\ pc[c] = "answer" /\ Outcome(op[c], code[c]) \in Sentinels =>
       \E v \in seen[c] : Claims(Outcome(op[c], code[c]), v)
  /\ result[c] \in Sentinels => \E v \in seen[c] : Claims(result[c], v)

CallsInv == \A c \in Callers : Ordered(c) /\ ServedOnce(c) /\ Truthful(c)

\* The wait group counts the calls in flight, and those Close waits for are on
\* their way out.
CountInv ==
  /\ inflight = Cardinality(InFlight)
  /\ \A c \in early : pc[c] \in {"flight", "answer", "return"}
  /\ closer = "open" => early = {}
  /\ CloseWaits

ClientInv == Typed /\ CallsInv /\ CountInv

----------------------------------------------------------------------------
(* Reading an answer *)

\* A 200 or 204 is what a call takes for success, and nothing else.
LEMMA SuccessBelow300 ==
  ASSUME NEW o, NEW s \in {0, 200, 204, 404, 405, 500}
  PROVE  /\ Outcome(o, s) \in {"ok", "http"} \cup Sentinels
         /\ Outcome(o, s) = "ok" => s < 300 /\ s # 0
<1>1. PlainOk(o) \subseteq {200, 204}
  BY DEF PlainOk
<1>2. LifeError(o, s) \in {"http"} \cup Sentinels
  BY DEF LifeError, Sentinels
<1>3. StateError(o, s) \in {"http"} \cup Sentinels
  BY DEF StateError, Sentinels
<1>4. "ok" \notin {"http"} \cup Sentinels
  BY DEF Sentinels
<1> QED
  BY <1>1, <1>2, <1>3, <1>4 DEF Outcome

\* An error of the VMM says what the client makes of it about the state it is in.
LEMMA AnswerClaims ==
  ASSUME NEW o, NEW v \in States, NEW r \in Answers(o, v),
         Outcome(o, r.code) \in Sentinels
  PROVE  Claims(Outcome(o, r.code), r.next)
<1>1. r.code \in {200, 204, 404, 405, 500} /\ r.next \in States
  BY DEF Answers, Replies
<1>2. o \in LifeCalls \cup StateCalls /\ r.code \in {404, 405}
  BY <1>1 DEF Outcome, LifeError, StateError, Sentinels
<1>3. r.next = v /\ (r.code = 404 => Refusal(o, v)) /\ (r.code = 405 => Unsuitable(o, v))
  BY <1>1, <1>2 DEF Answers, Reply
<1>4. CASE o \in LifeCalls
  <2>1. Outcome(o, r.code) = LifeError(o, r.code)
    BY <1>2, <1>4 DEF Outcome, PlainOk
  <2> QED
    BY <1>1, <1>2, <1>3, <1>4, <2>1
    DEF LifeError, Claims, Refusal, Unsuitable, States, LifeCalls, DeviceCalls, Sentinels
<1>5. CASE o \in StateCalls
  <2>1. Outcome(o, r.code) = StateError(o, r.code)
    BY <1>2, <1>5 DEF Outcome, PlainOk, LifeCalls, StateCalls
  <2> QED
    BY <1>1, <1>2, <1>3, <1>5, <2>1
    DEF StateError, Claims, Refusal, Unsuitable, States, LifeCalls, StateCalls, DeviceCalls, Sentinels
<1> QED
  BY <1>2, <1>4, <1>5

----------------------------------------------------------------------------
(* The invariant is kept *)

LEMMA InitClient == Init => ClientInv
<1> SUFFICES ASSUME Init PROVE ClientInv
  OBVIOUS
<1>1. InFlight = {}
  BY DEF Init, InFlight
<1>2. CountInv
  BY <1>1, FS_EmptySet DEF Init, CountInv, CloseWaits
<1> QED
  BY <1>2 DEF Init, ClientInv, CallsInv, Ordered, ServedOnce, Truthful, Typed, Sentinels

\* The types need of the calls only that they are served once at most.
LEMMA TypedStep == ClientInv /\ [Next]_vars => Typed'
<1> SUFFICES ASSUME ClientInv, [Next]_vars PROVE Typed'
  OBVIOUS
<1> USE DEF ClientInv, Typed
<1>1. ASSUME NEW c \in Callers, Begin(c) \/ Decode(c) \/ Send(c) \/ Break(c) \/ Cancel(c)
      PROVE  Typed'
  <2>1. CASE Begin(c)
    <3>1. PICK o \in Ops : /\ op' = [op EXCEPT ![c] = o]
                           /\ Goto(c, IF WithBody(o) THEN "decode" ELSE "call")
      BY <2>1 DEF Begin
    <3>2. pc' \in [Callers -> {"idle", "decode", "call", "flight", "answer", "return"}]
      <4>1. pc' = [pc EXCEPT ![c] = "decode"] \/ pc' = [pc EXCEPT ![c] = "call"]
        BY <3>1 DEF Goto
      <4> QED
        BY <4>1
    <3> QED
      BY <2>1, <3>1, <3>2 DEF Begin
  <2>2. CASE Decode(c)
    BY <2>2 DEF Decode, Goto
  <2>3. CASE Send(c)
    BY <2>3 DEF Send, Goto
  <2>4. CASE Break(c)
    BY <2>4 DEF Break, Goto
  <2>5. CASE Cancel(c)
    BY <2>5 DEF Cancel
  <2> QED
    BY <1>1, <2>1, <2>2, <2>3, <2>4, <2>5
<1>2. ASSUME NEW c \in Callers, Receive(c) PROVE Typed'
  <2>1. Outcome(op[c], code[c]) \in {"ok", "http"} \cup Sentinels
    BY SuccessBelow300
  <2>2. PICK r \in {Outcome(op[c], code[c])} \cup (IF code[c] = 200 THEN {"http"} ELSE {}) :
          result' = [result EXCEPT ![c] = r]
    BY <1>2 DEF Receive
  <2>3. r \in {"ok", "http"} \cup Sentinels
    BY <2>1
  <2> QED
    BY <1>2, <2>2, <2>3 DEF Receive, Goto
<1>3. ASSUME NEW c \in Callers, Serve(c) PROVE Typed'
  <2>1. PICK r \in Answers(op[c], vm) :
          /\ vm' = r.next /\ seen' = Observed(r.next)
          /\ served' = [served EXCEPT ![c] = IF r.code < 300 THEN @ + 1 ELSE @]
          /\ IF pc[c] = "flight"
             THEN Goto(c, "answer") /\ code' = [code EXCEPT ![c] = r.code]
             ELSE UNCHANGED <<pc, code>>
    BY <1>3 DEF Serve
  <2>2. r.code \in {200, 204, 404, 405, 500} /\ r.next \in States
    BY DEF Answers, Replies
  <2>3. seen' \in [Callers -> SUBSET States]
    BY <2>1, <2>2 DEF Observed
  <2>4. served[c] = 0
    BY <1>3 DEF Serve, CallsInv, ServedOnce
  <2>5. served' \in [Callers -> 0 .. 1]
    BY <2>1, <2>4
  <2> QED
    BY <1>3, <2>1, <2>2, <2>3, <2>5 DEF Serve, Goto
<1>4. CASE VmmEnds
  BY <1>4 DEF VmmEnds, Observed, States
<1>5. CASE CloseCalled \/ CloseReturns \/ UNCHANGED vars
  BY <1>5 DEF CloseCalled, CloseReturns, InFlight, vars
<1> QED
  BY <1>1, <1>2, <1>3, <1>4, <1>5 DEF Next, CallStep, Terminated

\* A step of one call leaves the others as they are, but for what they observe.
LEMMA FrameCall ==
  ASSUME Typed, CallsInv, NEW c \in Callers,
         op'[c] = op[c], pc'[c] = pc[c], code'[c] = code[c], result'[c] = result[c],
         served'[c] = served[c], seen[c] \subseteq seen'[c],
         c \in pending' => c \in pending
  PROVE  (Ordered(c) /\ ServedOnce(c) /\ Truthful(c))'
<1>1. Ordered(c)' /\ ServedOnce(c)'
  BY DEF CallsInv, Ordered, ServedOnce
<1>2. Truthful(c)'
  BY DEF CallsInv, Truthful
<1> QED
  BY <1>1, <1>2

LEMMA CallsStep == ClientInv /\ [Next]_vars => CallsInv'
<1> SUFFICES ASSUME ClientInv, [Next]_vars, NEW d \in Callers
             PROVE  (Ordered(d) /\ ServedOnce(d) /\ Truthful(d))'
  BY DEF CallsInv
<1> USE DEF ClientInv, Typed
<1>0. Ordered(d) /\ ServedOnce(d) /\ Truthful(d)
  BY DEF CallsInv
<1>1. ASSUME NEW c \in Callers, c # d,
             Begin(c) \/ Decode(c) \/ CallStep(c) \/ Cancel(c) \/ Serve(c)
      PROVE  (Ordered(d) /\ ServedOnce(d) /\ Truthful(d))'
  <2>1. /\ op'[d] = op[d] /\ pc'[d] = pc[d] /\ code'[d] = code[d] /\ result'[d] = result[d]
        /\ served'[d] = served[d] /\ (d \in pending' => d \in pending)
    BY <1>1 DEF Begin, Decode, CallStep, Send, Receive, Break, Cancel, Serve, Goto
  <2>2. seen[d] \subseteq seen'[d]
    BY <1>1 DEF Begin, Decode, CallStep, Send, Receive, Break, Cancel, Serve, Observed
  <2> QED
    BY <2>1, <2>2, FrameCall
<1>2. CASE Begin(d) \/ Decode(d)
  BY <1>0, <1>2 DEF Begin, Decode, Goto, Ordered, ServedOnce, Truthful, Sentinels
<1>3. CASE Send(d)
  BY <1>0, <1>3 DEF Send, Goto, Ordered, ServedOnce, Truthful, Sentinels
<1>4. CASE Receive(d)
  <2>1. PICK r \in {Outcome(op[d], code[d]), "http"} : result' = [result EXCEPT ![d] = r]
    BY <1>4 DEF Receive
  <2>2. (Ordered(d) /\ ServedOnce(d))'
    BY <1>0, <1>4, <2>1, SuccessBelow300 DEF Receive, Goto, Ordered, ServedOnce
  <2>3. Truthful(d)'
    BY <1>0, <1>4, <2>1 DEF Receive, Goto, Truthful, Sentinels
  <2> QED
    BY <2>2, <2>3
<1>5. CASE Break(d)
  BY <1>0, <1>5 DEF Break, Goto, Ordered, ServedOnce, Truthful, Sentinels
<1>6. CASE Cancel(d)
  BY <1>0, <1>6 DEF Cancel, Ordered, ServedOnce, Truthful
<1>7. CASE Serve(d)
  <2>1. PICK r \in Answers(op[d], vm) :
          /\ vm' = r.next /\ seen' = Observed(r.next)
          /\ served' = [served EXCEPT ![d] = IF r.code < 300 THEN @ + 1 ELSE @]
          /\ IF pc[d] = "flight"
             THEN Goto(d, "answer") /\ code' = [code EXCEPT ![d] = r.code]
             ELSE UNCHANGED <<pc, code>>
    BY <1>7 DEF Serve
  <2>2. r.code \in {200, 204, 404, 405, 500}
    BY DEF Answers, Replies
  <2>3. served[d] = 0 /\ pc[d] \in {"flight", "return"} /\ result[d] # "ok"
    BY <1>0, <1>7 DEF Serve, ServedOnce
  <2>4. UNCHANGED <<op, result>> /\ pending' = pending \ {d}
    BY <1>7 DEF Serve
  <2>5. CASE pc[d] = "flight"
    <3>1. pc'[d] = "answer" /\ code'[d] = r.code /\ r.next \in seen'[d]
      BY <2>1, <2>5 DEF Goto, Observed
    <3>2. result'[d] = "none" /\ served'[d] = IF r.code < 300 THEN 1 ELSE 0
      BY <1>0, <2>1, <2>2, <2>3, <2>4, <2>5 DEF Ordered
    <3>3. (Ordered(d) /\ ServedOnce(d))'
      BY <1>0, <2>2, <2>4, <2>5, <3>1, <3>2 DEF Ordered, ServedOnce
    <3>4. Truthful(d)'
      <4>1. Outcome(op'[d], code'[d]) \in Sentinels => Claims(Outcome(op'[d], code'[d]), r.next)
        BY <2>4, <3>1, AnswerClaims
      <4>2. result'[d] \notin Sentinels
        BY <3>2 DEF Sentinels
      <4> QED
        BY <3>1, <4>1, <4>2 DEF Truthful
    <3> QED
      BY <3>3, <3>4
  <2>6. CASE pc[d] = "return"
    BY <1>0, <2>1, <2>3, <2>4, <2>6 DEF Observed, Ordered, ServedOnce, Truthful
  <2> QED
    BY <2>3, <2>5, <2>6
<1>8. CASE VmmEnds
  <2>1. /\ UNCHANGED <<op, pc, code, result, served>> /\ pending' = {}
        /\ seen[d] \subseteq seen'[d]
    BY <1>8 DEF VmmEnds, Observed
  <2> QED
    BY <2>1, FrameCall
<1>9. CASE CloseCalled \/ CloseReturns \/ UNCHANGED vars
  <2>1. UNCHANGED <<op, pc, code, result, served, seen, pending>>
    BY <1>9 DEF CloseCalled, CloseReturns, vars
  <2> QED
    BY <2>1, FrameCall
<1> QED
  BY <1>1, <1>2, <1>3, <1>4, <1>5, <1>6, <1>7, <1>8, <1>9 DEF Next, CallStep, Terminated

\* Done never takes the wait group below zero: who calls it is in flight.
LEMMA CountStep == ClientInv /\ [Next]_vars => CountInv'
<1> SUFFICES ASSUME ClientInv, [Next]_vars PROVE CountInv'
  OBVIOUS
<1> USE DEF ClientInv, Typed, CountInv
<1>0. IsFiniteSet(InFlight) /\ Cardinality(InFlight) \in Nat
  BY VmmClientAssumption, FS_Subset, FS_CardinalityType DEF InFlight
<1>1. ASSUME NEW c \in Callers, Send(c), pc'[c] = "flight" PROVE CountInv'
  <2>1. InFlight' = InFlight \cup {c} /\ c \notin InFlight
    BY <1>1 DEF Send, Goto, InFlight
  <2>2. inflight' = Cardinality(InFlight')
    <3>1. Cardinality(InFlight \cup {c}) = Cardinality(InFlight) + 1
      BY <1>0, <2>1, FS_AddElement
    <3>2. inflight' = inflight + 1
      BY <1>1 DEF Send, Goto
    <3> QED
      BY <2>1, <3>1, <3>2
  <2>3. UNCHANGED <<closer, early>> /\ c \notin early
    BY <1>1 DEF Send
  <2>4. CloseWaits'
    BY <2>1, <2>3 DEF CloseWaits
  <2> QED
    BY <1>1, <2>2, <2>3, <2>4 DEF Send, Goto
<1>2. ASSUME NEW c \in Callers, Receive(c) \/ Break(c) PROVE CountInv'
  <2>1. InFlight' = InFlight \ {c} /\ c \in InFlight
    BY <1>2 DEF Receive, Break, Goto, InFlight
  <2>2. Cardinality(InFlight') = Cardinality(InFlight) - 1 /\ Cardinality(InFlight') \in Nat
    BY <1>0, <2>1, FS_RemoveElement, FS_CardinalityType
  <2>3. inflight' = Cardinality(InFlight')
    BY <1>0, <1>2, <2>2 DEF Receive, Break, Left
  <2>4. UNCHANGED <<closer, early>> /\ pc' = [pc EXCEPT ![c] = "return"]
    BY <1>2 DEF Receive, Break, Goto
  <2>5. CloseWaits'
    BY <2>1, <2>4 DEF CloseWaits
  <2> QED
    BY <2>3, <2>4, <2>5
<1>3. ASSUME InFlight' = InFlight, UNCHANGED <<inflight, closer, early>>,
             \A c \in early : pc'[c] \in {"flight", "answer", "return"}
      PROVE  CountInv'
  BY <1>3 DEF CloseWaits
<1>4. ASSUME NEW c \in Callers,
             Begin(c) \/ Decode(c) \/ (Send(c) /\ pc'[c] # "flight") \/ Cancel(c) \/ Serve(c)
      PROVE  CountInv'
  <2>1. /\ InFlight' = InFlight /\ UNCHANGED <<inflight, closer, early>>
        /\ \A b \in early : pc'[b] \in {"flight", "answer", "return"}
    BY <1>4 DEF Begin, Decode, Send, Cancel, Serve, Goto, InFlight
  <2> QED
    BY <1>3, <2>1
<1>5. CASE VmmEnds \/ UNCHANGED vars
  BY <1>3, <1>5 DEF VmmEnds, vars, InFlight
<1>6. CASE CloseCalled
  BY <1>6 DEF CloseCalled, InFlight, CloseWaits
<1>7. CASE CloseReturns
  <2>1. InFlight = {}
    <3>1. Cardinality(InFlight) = 0
      BY <1>7 DEF CloseReturns
    <3> QED
      BY <1>0, <3>1, FS_EmptySet, Zenon
  <2> QED
    BY <1>7, <2>1 DEF CloseReturns, InFlight, CloseWaits
<1> QED
  BY <1>1, <1>2, <1>4, <1>5, <1>6, <1>7 DEF Next, CallStep, Terminated

LEMMA ClientInvariant == Spec => []ClientInv
<1>1. ClientInv /\ [Next]_vars => ClientInv'
  BY TypedStep, CallsStep, CountStep DEF ClientInv
<1> QED
  BY <1>1, InitClient, PTL DEF Spec

----------------------------------------------------------------------------
(* Theorems *)

\* The variables keep their types; in particular the wait group counts no more
\* calls than there are, and the VMM executes none twice.
THEOREM TypeCorrect == Spec => []TypeOK
<1>1. ClientInv => TypeOK
  <2> SUFFICES ASSUME ClientInv PROVE TypeOK
    OBVIOUS
  <2>1. InFlight \subseteq Callers
    BY DEF InFlight
  <2>2. /\ Cardinality(Callers) \in Nat /\ Cardinality(InFlight) \in Nat
        /\ Cardinality(InFlight) <= Cardinality(Callers)
    BY <2>1, VmmClientAssumption, FS_Subset, FS_CardinalityType
  <2> QED
    BY <2>2 DEF ClientInv, Typed, CountInv, TypeOK
<1> QED
  BY <1>1, ClientInvariant, PTL

\* A nil of the client goes with exactly one execution, although answers are lost
\* and requests outlive their callers.
THEOREM NilIsServed == Spec => []NilMeansServed
<1>1. ClientInv => NilMeansServed
  BY DEF ClientInv, CallsInv, ServedOnce, NilMeansServed
<1> QED
  BY <1>1, ClientInvariant, PTL

\* A sentinel error was true of the VM while the call was under way.
THEOREM SentinelsAreTrue == Spec => []SentinelWasTrue
<1>1. ClientInv => SentinelWasTrue
  BY DEF ClientInv, CallsInv, Truthful, SentinelWasTrue
<1> QED
  BY <1>1, ClientInvariant, PTL

\* Close returns after every call that was in flight when it was called.
THEOREM CloseIsLast == Spec => []CloseWaits
<1>1. ClientInv => CloseWaits
  BY DEF ClientInv, CountInv
<1> QED
  BY <1>1, ClientInvariant, PTL
============================================================================
