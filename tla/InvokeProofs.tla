---------------------------- MODULE InvokeProofs ----------------------------
(***************************************************************************)
(* What Invoke reports, for any texts, sizes of the pipes and of the ring  *)
(* and any number of lines: the last lines that were read, in their order. *)
(***************************************************************************)
EXTENDS Invoke, SequenceTheorems, WellFoundedInduction, TLAPS

----------------------------------------------------------------------------
(* Induction: a set of numbers that has 0 and the successor of each *)

LEMMA NatOrder == \E R : IsWellFoundedOn(R, Nat) /\ \A x, y \in Nat : y < x => <<y, x>> \in R
<1>1. \A x, y \in Nat : y < x => <<y, x>> \in OpToRel(<, Nat)
  BY DEF OpToRel
<1> QED
  BY <1>1, NatLessThanWellFounded, Zenon

LEMMA NatInduct ==
  ASSUME NEW T \in SUBSET Nat, 0 \in T, \A n \in T : n + 1 \in T
  PROVE  T = Nat
<1> SUFFICES ASSUME T # Nat PROVE FALSE
  OBVIOUS
<1> DEFINE U == Nat \ T
<1>1. PICK R : IsWellFoundedOn(R, Nat) /\ \A x, y \in Nat : y < x => <<y, x>> \in R
  BY NatOrder
<1>2. U # {} /\ U \subseteq Nat
  OBVIOUS
<1> HIDE DEF U
<1>3. PICK x \in U : \A y \in U : ~ (<<y, x>> \in R)
  BY <1>1, <1>2, WFMin
<1>4. x \in Nat /\ x \notin T
  BY <1>3 DEF U
<1>5. x # 0 /\ x - 1 \in Nat /\ x - 1 \notin T
  BY <1>4
<1>6. x - 1 \in U /\ x - 1 < x
  BY <1>4, <1>5 DEF U
<1> QED
  BY <1>1, <1>3, <1>4, <1>5, <1>6

----------------------------------------------------------------------------
(* NonBlank *)

\* One turn of its loop.
Kept(acc, line) == IF line = "blank" THEN acc ELSE Append(acc, line)

\* f[i] is what is kept of the first i lines.
IsKept(f, lines) ==
  /\ f[0] = <<>>
  /\ \A i \in 1 .. Len(lines) : f[i] = Kept(f[i - 1], lines[i])

LEMMA NonBlankKeeps ==
  ASSUME NEW S, NEW lines \in Seq(S)
  PROVE  \E f : IsKept(f, lines) /\ NonBlank(lines) = f[Len(lines)]
<1> DEFINE base == <<>>
           Rec(f, n) ==
             f = [i \in 0 .. n |-> IF i = 0 THEN base ELSE Kept(f[i - 1], lines[i])]
           T == {n \in Nat : \E f : Rec(f, n)}
<1> HIDE DEF base
<1>1. 0 \in T
  <2>1. Rec([i \in 0 .. 0 |-> base], 0)
    OBVIOUS
  <2> QED
    BY <2>1
<1>2. ASSUME NEW n \in T PROVE n + 1 \in T
  <2>1. n \in Nat /\ \E f : Rec(f, n)
    OBVIOUS
  <2> HIDE DEF T
  <2>0. PICK f : Rec(f, n)
    BY <2>1
  <2> DEFINE g == [i \in 0 .. n + 1 |-> IF i = n + 1 THEN Kept(f[n], lines[i]) ELSE f[i]]
  <2>2. \A i \in 0 .. n : f[i] = IF i = 0 THEN base ELSE Kept(f[i - 1], lines[i])
    BY <2>0
  <2>3. \A i \in 0 .. n + 1 : g[i] = IF i = 0 THEN base ELSE Kept(g[i - 1], lines[i])
    <3>1. \A i \in 0 .. n : g[i] = f[i]
      BY <2>1
    <3>2. g[n + 1] = Kept(f[n], lines[n + 1])
      BY <2>1
    <3> HIDE DEF g
    <3>3. ASSUME NEW i \in 0 .. n + 1
          PROVE  g[i] = IF i = 0 THEN base ELSE Kept(g[i - 1], lines[i])
      <4>1. CASE i = n + 1
        BY <2>1, <3>1, <3>2, <4>1
      <4>2. CASE i = 0
        BY <2>1, <2>2, <3>1, <4>2
      <4>3. CASE i \in 1 .. n
        <5>1. i \in 0 .. n /\ i - 1 \in 0 .. n /\ i # 0
          BY <2>1, <4>3
        <5> QED
          BY <2>2, <3>1, <5>1
      <4> QED
        BY <2>1, <4>1, <4>2, <4>3
    <3> QED
      BY <3>3
  <2>4. Rec(g, n + 1)
    <3>1. g = [i \in 0 .. n + 1 |-> g[i]]
      OBVIOUS
    <3> HIDE DEF g
    <3> QED
      BY <2>3, <3>1
  <2> HIDE DEF g, Rec
  <2>5. \E h : Rec(h, n + 1)
    BY <2>4
  <2> QED
    BY <2>1, <2>5 DEF T
<1> HIDE DEF T
<1>3. T = Nat
  <2>1. T \in SUBSET Nat
    BY DEF T
  <2> QED
    BY <1>1, <1>2, <2>1, NatInduct
<1>4. Len(lines) \in Nat
  BY LenProperties
<1> DEFINE F == CHOOSE f : Rec(f, Len(lines))
<1>5. Rec(F, Len(lines))
  BY <1>3, <1>4 DEF T
<1>6. NonBlank(lines) = F[Len(lines)]
  BY DEF NonBlank, Kept, base
<1> HIDE DEF F
<1>7. \A i \in 0 .. Len(lines) : F[i] = IF i = 0 THEN base ELSE Kept(F[i - 1], lines[i])
  BY <1>5
<1> HIDE DEF Rec
<1>8. F[0] = base
  BY <1>4, <1>7
<1>9. ASSUME NEW i \in 1 .. Len(lines) PROVE F[i] = Kept(F[i - 1], lines[i])
  <2>1. i \in 0 .. Len(lines) /\ i # 0
    BY <1>4
  <2> QED
    BY <1>7, <2>1
<1> QED
  BY <1>6, <1>8, <1>9 DEF IsKept, base

\* Blank lines in front are as if they were not there.
LEMMA NonBlankShift ==
  ASSUME NEW S, NEW s \in Seq(S), NEW t \in Seq(S), NEW m \in Nat, Len(s) = m + Len(t),
         \A i \in 1 .. m : s[i] = "blank", \A i \in 1 .. Len(t) : s[m + i] = t[i]
  PROVE  NonBlank(s) = NonBlank(t)
<1>1. PICK f : IsKept(f, s) /\ NonBlank(s) = f[Len(s)]
  BY NonBlankKeeps
<1>2. PICK g : IsKept(g, t) /\ NonBlank(t) = g[Len(t)]
  BY NonBlankKeeps
<1>3. Len(t) \in Nat
  BY LenProperties
<1> DEFINE V == {n \in Nat : n <= m => f[n] = f[0]}
           W == {n \in Nat : n <= Len(t) => f[m + n] = g[n]}
<1>4. V = Nat
  <2>1. 0 \in V
    OBVIOUS
  <2>2. ASSUME NEW n \in V PROVE n + 1 \in V
    <3> SUFFICES ASSUME n + 1 <= m PROVE f[n + 1] = f[0]
      OBVIOUS
    <3>1. n + 1 \in 1 .. Len(s) /\ n + 1 \in 1 .. m /\ n + 1 - 1 = n
      BY <1>3
    <3>2. f[n + 1] = Kept(f[n + 1 - 1], s[n + 1]) /\ s[n + 1] = "blank"
      BY <1>1, <3>1 DEF IsKept
    <3>3. f[n + 1] = f[n]
      BY <3>1, <3>2 DEF Kept
    <3> QED
      BY <3>3
  <2>3. V \in SUBSET Nat
    OBVIOUS
  <2> HIDE DEF V
  <2> QED
    BY <2>1, <2>2, <2>3, NatInduct
<1>5. f[m] = f[0] /\ f[0] = <<>> /\ g[0] = <<>>
  BY <1>1, <1>2, <1>4 DEF IsKept
<1> HIDE DEF V
<1>6. W = Nat
  <2>1. 0 \in W
    <3>1. f[m + 0] = f[m]
      OBVIOUS
    <3> QED
      BY <1>5, <3>1
  <2>2. ASSUME NEW n \in W PROVE n + 1 \in W
    <3> SUFFICES ASSUME n + 1 <= Len(t) PROVE f[m + (n + 1)] = g[n + 1]
      OBVIOUS
    <3>1. /\ m + (n + 1) \in 1 .. Len(s) /\ n + 1 \in 1 .. Len(t)
          /\ m + (n + 1) - 1 = m + n /\ n + 1 - 1 = n
      BY <1>3
    <3>2. /\ f[m + (n + 1)] = Kept(f[m + (n + 1) - 1], s[m + (n + 1)])
          /\ g[n + 1] = Kept(g[n + 1 - 1], t[n + 1])
      BY <1>1, <1>2, <3>1 DEF IsKept
    <3>3. s[m + (n + 1)] = t[n + 1] /\ f[m + n] = g[n]
      BY <1>3, <3>1
    <3> QED
      BY <3>1, <3>2, <3>3
  <2>3. W \in SUBSET Nat
    OBVIOUS
  <2> HIDE DEF W
  <2> QED
    BY <2>1, <2>2, <2>3, NatInduct
<1>7. f[m + Len(t)] = g[Len(t)]
  BY <1>3, <1>6
<1> QED
  BY <1>1, <1>2, <1>7

LEMMA NonBlankType ==
  ASSUME NEW S, NEW lines \in Seq(S \cup {"blank"})
  PROVE  NonBlank(lines) \in Seq(S)
<1>1. PICK f : IsKept(f, lines) /\ NonBlank(lines) = f[Len(lines)]
  BY NonBlankKeeps
<1>2. Len(lines) \in Nat /\ \A i \in 1 .. Len(lines) : lines[i] \in S \cup {"blank"}
  BY LenProperties, ElementOfSeq
<1> DEFINE V == {n \in Nat : n <= Len(lines) => f[n] \in Seq(S)}
<1>3. 0 \in V
  <2>1. f[0] = <<>> /\ <<>> \in Seq(S)
    BY <1>1, EmptySeq DEF IsKept
  <2> QED
    BY <2>1
<1>4. ASSUME NEW n \in V PROVE n + 1 \in V
  <2> SUFFICES ASSUME n + 1 <= Len(lines) PROVE f[n + 1] \in Seq(S)
    OBVIOUS
  <2>1. n + 1 \in 1 .. Len(lines) /\ n + 1 - 1 = n /\ f[n] \in Seq(S)
    BY <1>2
  <2>2. f[n + 1] = Kept(f[n], lines[n + 1])
    BY <1>1, <2>1 DEF IsKept
  <2>3. lines[n + 1] # "blank" => lines[n + 1] \in S
    BY <1>2, <2>1
  <2> QED
    BY <2>1, <2>2, <2>3, AppendProperties DEF Kept
<1>5. V \in SUBSET Nat
  OBVIOUS
<1> HIDE DEF V
<1>6. V = Nat
  BY <1>3, <1>4, <1>5, NatInduct
<1> QED
  BY <1>1, <1>2, <1>6 DEF V

----------------------------------------------------------------------------
(* The inductive invariant *)

Short == Texts \cup {"blank"}

TypeInv ==
  /\ pc \in PCs
  /\ child \in {"none", "alive", "ended", "reaped"}
  /\ status \in {"none", "zero", "failed"}
  /\ heirs \in BOOLEAN /\ closed \in BOOLEAN
  /\ pipe \in [Outputs -> Seq(Lines)]
  /\ reader \in [Outputs -> {"none", "scan", "ended"}]
  /\ ring \in [Slots -> Short] /\ next \in Slots
  /\ written \in Seq(Lines) /\ taken \in 0 .. Len(written)
  /\ result \in Results
  /\ report \in Seq(Texts)

\* Nobody writes any more when invoke has returned, and nobody reads.
ProcInv ==
  /\ pc = "start" => child = "none" /\ \A o \in Outputs : reader[o] = "none"
  /\ pc = "done" => \A o \in Outputs : reader[o] # "scan"
  /\ child = "none" => ~heirs
  /\ pc \in {"join", "abandon"} => closed
  /\ closed => child = "reaped"
  /\ pc = "done" => closed \/ child = "none"

\* The slot of line i of those that the ring keeps, the oldest one first.
Slot(i) == IF next + i - 1 < RingSize THEN next + i - 1 ELSE next + i - 1 - RingSize

\* k lines of stderr have been read: the ring has the last ones of these, and the
\* pipe those that follow, all of them until it is closed.
ReadUpTo(k) ==
  /\ k + Len(pipe["stderr"]) <= Len(written)
  /\ ~closed => k + Len(pipe["stderr"]) = Len(written)
  /\ \A i \in 1 .. Len(pipe["stderr"]) : pipe["stderr"][i] = written[k + i]
  /\ \A i \in 1 .. RingSize :
       ring[Slot(i)] = IF k + i > RingSize THEN written[k + i - RingSize] ELSE "blank"

RingInv == ReadUpTo(taken)

ReportInv == (pc # "done" => result = "none") /\ ReportIsTail

TailInv == TypeInv /\ ProcInv /\ RingInv /\ ReportInv

----------------------------------------------------------------------------
(* The ring *)

LEMMA SlotType ==
  ASSUME next \in Slots
  PROVE  \A i \in 1 .. RingSize : /\ Slot(i) \in Slots
                                  /\ (next + i - 1) % RingSize = Slot(i)
<1> SUFFICES ASSUME NEW i \in 1 .. RingSize
             PROVE  Slot(i) \in Slots /\ (next + i - 1) % RingSize = Slot(i)
  OBVIOUS
<1>1. /\ RingSize \in Nat /\ RingSize > 0 /\ next \in 0 .. RingSize - 1
      /\ i \in 1 .. RingSize
  BY InvokeAssumption DEF Slots
<1>2. Slot(i) \in 0 .. RingSize - 1
  BY <1>1 DEF Slot
<1>3. (next + i - 1) % RingSize = Slot(i)
  BY <1>1 DEF Slot
<1> QED
  BY <1>2, <1>3 DEF Slots

LEMMA NextSlot ==
  ASSUME next \in Slots
  PROVE  (next + 1) % RingSize = IF next = RingSize - 1 THEN 0 ELSE next + 1
<1>1. RingSize \in Nat /\ RingSize > 0 /\ next \in 0 .. RingSize - 1
  BY InvokeAssumption DEF Slots
<1> QED
  BY <1>1

\* AppendLogLine: the ring moves on by one line.
LEMMA RingMoves ==
  ASSUME TypeInv, NEW k \in Nat, ReadUpTo(k), NEW line \in Short, line = written[k + 1],
         AppendLogLine(line), written' = written
  PROVE  /\ ring' \in [Slots -> Short] /\ next' \in Slots
         /\ \A i \in 1 .. RingSize :
              ring'[Slot(i)'] = IF k + 1 + i > RingSize THEN written[k + 1 + i - RingSize] ELSE "blank"
<1>1. /\ RingSize \in Nat /\ RingSize > 0 /\ next \in 0 .. RingSize - 1 /\ next \in Slots
      /\ ring \in [Slots -> Short]
  BY InvokeAssumption DEF TypeInv, Slots
<1>2. ring' = [ring EXCEPT ![next] = line] /\ next' = IF next = RingSize - 1 THEN 0 ELSE next + 1
  BY <1>1, NextSlot DEF AppendLogLine
<1>3. ring' \in [Slots -> Short] /\ next' \in Slots
  <2>1. next' \in 0 .. RingSize - 1
    BY <1>1, <1>2
  <2> QED
    BY <1>1, <1>2, <2>1 DEF Slots
<1>4. ASSUME NEW i \in 1 .. RingSize
      PROVE  ring'[Slot(i)'] = IF k + 1 + i > RingSize THEN written[k + 1 + i - RingSize] ELSE "blank"
  <2>1. CASE i = RingSize
    <3>1. Slot(i)' = next
      BY <1>1, <1>2, <2>1 DEF Slot
    <3>2. ring'[next] = written[k + 1]
      BY <1>1, <1>2
    <3>3. k + 1 + i > RingSize /\ k + 1 + i - RingSize = k + 1
      BY <1>1, <2>1
    <3> QED
      BY <3>1, <3>2, <3>3
  <2>2. CASE i # RingSize
    <3>1. i + 1 \in 1 .. RingSize
      BY <1>1, <2>2
    <3>2. Slot(i)' = Slot(i + 1) /\ Slot(i + 1) # next
      BY <1>1, <1>2, <2>2 DEF Slot
    <3>3. ring'[Slot(i + 1)] = ring[Slot(i + 1)]
      <4>1. Slot(i + 1) \in Slots
        BY <1>1, <3>1, SlotType
      <4> QED
        BY <1>1, <1>2, <3>2, <4>1
    <3> DEFINE j == i + 1
    <3>4. j \in 1 .. RingSize /\ k + j = k + 1 + i
      BY <1>1, <3>1
    <3>5. ring'[Slot(i)'] = ring[Slot(j)]
      BY <3>2, <3>3, Zenon
    <3> HIDE DEF j
    <3>6. ring[Slot(j)] = IF k + j > RingSize THEN written[k + j - RingSize] ELSE "blank"
      BY <3>4 DEF ReadUpTo
    <3>7. CASE k + j > RingSize
      <4>1. ring'[Slot(i)'] = written[k + j - RingSize]
        BY <3>5, <3>6, <3>7, Zenon
      <4>2. k + 1 + i > RingSize
        BY <3>4, <3>7
      <4>3. k + j - RingSize = k + 1 + i - RingSize
        BY <1>1, <3>4
      <4>4. written[k + j - RingSize] = written[k + 1 + i - RingSize]
        BY <4>3, Zenon
      <4>5. ring'[Slot(i)'] = written[k + 1 + i - RingSize]
        BY <4>1, <4>4, Zenon
      <4> QED
        BY <4>2, <4>5, Zenon
    <3>8. CASE ~(k + j > RingSize)
      <4>1. ring'[Slot(i)'] = "blank"
        BY <3>5, <3>6, <3>8, Zenon
      <4>2. ~(k + 1 + i > RingSize)
        BY <3>4, <3>8, Zenon
      <4> QED
        BY <4>1, <4>2, Zenon
    <3> QED
      BY <3>7, <3>8, Zenon
  <2> QED
    BY <2>1, <2>2
<1> QED
  BY <1>3, <1>4

\* The ring from its oldest slot on is the tail of what was read.
LEMMA RingIsTail ==
  ASSUME TypeInv, NEW k \in 0 .. Len(written), ReadUpTo(k)
  PROVE  LET from == IF k > RingSize THEN k - RingSize + 1 ELSE 1
         IN  LastLogLine = NonBlank(SubSeq(written, from, k))
<1> DEFINE from == IF k > RingSize THEN k - RingSize + 1 ELSE 1
           s == [i \in 1 .. RingSize |-> ring[(next + i - 1) % RingSize]]
           t == SubSeq(written, from, k)
           m == RingSize - Len(t)
<1>1. /\ RingSize \in Nat /\ RingSize > 0 /\ next \in Slots /\ ring \in [Slots -> Short]
      /\ written \in Seq(Lines) /\ Len(written) \in Nat /\ k \in Nat
      /\ \A i \in 1 .. Len(written) : written[i] \in Lines
  BY InvokeAssumption, LenProperties, ElementOfSeq DEF TypeInv
<1>2. \A i \in 1 .. RingSize : /\ s[i] \in Lines
                               /\ s[i] = IF k + i > RingSize THEN written[k + i - RingSize] ELSE "blank"
  <2> SUFFICES ASSUME NEW i \in 1 .. RingSize
               PROVE  /\ s[i] \in Lines
                      /\ s[i] = IF k + i > RingSize THEN written[k + i - RingSize] ELSE "blank"
    OBVIOUS
  <2>1. s[i] = ring[(next + i - 1) % RingSize]
    OBVIOUS
  <2>2. s[i] = ring[Slot(i)] /\ Slot(i) \in Slots
    BY <1>1, <2>1, SlotType
  <2>3. ring[Slot(i)] \in Lines
    BY <1>1, <2>2 DEF Short, Lines
  <2> QED
    BY <2>2, <2>3 DEF ReadUpTo
<1>3. s \in Seq(Lines) /\ Len(s) = RingSize
  <2>1. s \in [1 .. RingSize -> Lines]
    BY <1>2
  <2> HIDE DEF s
  <2> QED
    BY <1>1, <2>1, LenProperties, SeqDef
<1> HIDE DEF s
<1>4. from \in 1 .. k + 1 /\ k <= Len(written)
  BY <1>1
<1>5. /\ t \in Seq(Lines) /\ Len(t) = k - from + 1
      /\ \A i \in 1 .. Len(t) : t[i] = written[from + i - 1]
  <2> HIDE DEF from
  <2>1. \A i \in from .. k : written[i] \in Lines
    BY <1>1, <1>4
  <2>2. /\ t \in Seq(Lines) /\ Len(t) = k - from + 1
        /\ \A i \in 1 .. k - from + 1 : t[i] = written[from + i - 1]
    BY <1>1, <1>4, <2>1, SubSeqProperties
  <2> QED
    BY <2>2
<1> HIDE DEF t
<1>6. m \in Nat /\ Len(s) = m + Len(t)
  BY <1>1, <1>3, <1>5
<1>7. \A i \in 1 .. m : s[i] = "blank"
  BY <1>1, <1>2, <1>5
<1>8. \A i \in 1 .. Len(t) : s[m + i] = t[i]
  <2> SUFFICES ASSUME NEW i \in 1 .. Len(t) PROVE s[m + i] = t[i]
    OBVIOUS
  <2>1. m + i \in 1 .. RingSize /\ k + (m + i) > RingSize /\ k + (m + i) - RingSize = from + i - 1
    BY <1>1, <1>5
  <2>2. s[m + i] = written[k + (m + i) - RingSize]
    BY <1>2, <2>1
  <2> QED
    BY <1>5, <2>1, <2>2
<1> HIDE DEF m
<1>9. NonBlank(s) = NonBlank(t)
  BY <1>3, <1>5, <1>6, <1>7, <1>8, NonBlankShift
<1> QED
  BY <1>9 DEF LastLogLine, s, t

----------------------------------------------------------------------------
(* The steps *)

\* A step that changes none of the pipes, the ring and the report.
LEMMA TailStays ==
  ASSUME TailInv, UNCHANGED <<pipe, ring, next, written, taken, result, report>>, closed => closed',
         pc = "done" <=> pc' = "done"
  PROVE  RingInv' /\ ReportInv'
<1>1. RingInv'
  BY DEF TailInv, RingInv, ReadUpTo, Slot
<1> QED
  BY <1>1 DEF TailInv, ReportInv, ReportIsTail

\* The two errors that come without a report.
LEMMA TailFails ==
  ASSUME TailInv, StartFails \/ Abandon
  PROVE  TailInv'
<1>1. /\ UNCHANGED <<procVars, pipeVars, report>> /\ pc # "done" /\ pc' = "done"
      /\ result' \in {"start", "pidfile"}
  BY DEF StartFails, Abandon
<1>2. TypeInv'
  BY <1>1 DEF TailInv, TypeInv, procVars, pipeVars, PCs, Results
<1>3. ProcInv'
  BY DEF TailInv, ProcInv, procVars, pipeVars, StartFails, Abandon
<1>4. RingInv'
  BY <1>1 DEF TailInv, RingInv, ReadUpTo, Slot, pipeVars
<1>5. ReportInv'
  <2>1. report = <<>>
    BY <1>1 DEF TailInv, ReportInv, ReportIsTail
  <2> QED
    BY <1>1, <2>1 DEF ReportInv, ReportIsTail
<1> QED
  BY <1>2, <1>3, <1>4, <1>5 DEF TailInv

LEMMA TailReap ==
  ASSUME TailInv, Reap
  PROVE  TailInv'
<1>1. /\ pc' \in {"join", "abandon"} /\ child' = "reaped" /\ closed' = TRUE /\ pc # "done"
      /\ UNCHANGED <<status, heirs, reader, ring, next, written, taken, result, report>>
  BY DEF Reap, Reaped
<1>2. PICK n \in [Outputs -> 0 .. Capacity] :
        /\ \A o \in Outputs : n[o] <= Len(pipe[o])
        /\ pipe' = [o \in Outputs |-> SubSeq(pipe[o], 1, n[o])]
  BY DEF Reap
<1>3. ASSUME NEW o \in Outputs
      PROVE  /\ pipe'[o] \in Seq(Lines) /\ Len(pipe'[o]) = n[o]
             /\ \A i \in 1 .. n[o] : pipe'[o][i] = pipe[o][i]
             /\ n[o] \in 0 .. Len(pipe[o]) /\ Len(pipe[o]) \in Nat
  <2> DEFINE q == pipe[o]
             c == n[o]
  <2>1. q \in Seq(Lines) /\ Len(q) \in Nat
    BY LenProperties DEF TailInv, TypeInv
  <2>2. n[o] \in 0 .. Len(q)
    BY <1>2, <2>1, InvokeAssumption
  <2>3. pipe'[o] = SubSeq(q, 1, c)
    BY <1>2
  <2> HIDE DEF q, c
  <2>4. c \in 0 .. Len(q)
    BY <2>2 DEF c
  <2>5. \A i \in 1 .. c : q[i] \in Lines
    BY <2>1, <2>4, ElementOfSeq
  <2>6. /\ SubSeq(q, 1, c) \in Seq(Lines) /\ Len(SubSeq(q, 1, c)) = c
        /\ \A i \in 1 .. c : SubSeq(q, 1, c)[i] = q[i]
    BY <2>1, <2>4, <2>5, SubSeqProperties
  <2> QED
    BY <2>1, <2>3, <2>4, <2>6, Zenon DEF q, c
<1>4. TypeInv'
  <2>1. pipe' \in [Outputs -> Seq(Lines)]
    BY <1>2, <1>3
  <2> QED
    BY <1>1, <2>1 DEF TailInv, TypeInv, PCs
<1>5. ProcInv'
  BY <1>1 DEF TailInv, ProcInv
<1>6. RingInv'
  <2> DEFINE k == taken
  <2>1. ReadUpTo(k)
    BY DEF TailInv, RingInv
  <2>2. "stderr" \in Outputs
    BY DEF Outputs
  <2>3. Len(written) \in Nat /\ k \in Nat /\ k' = k
    BY <1>1, LenProperties DEF TailInv, TypeInv
  <2> HIDE DEF k
  <2> DEFINE p == Len(pipe["stderr"])
             pp == Len(pipe'["stderr"])
  <2>4. p \in Nat /\ pp \in 0 .. p /\ k + p <= Len(written)
    BY <1>3, <2>1, <2>2 DEF ReadUpTo
  <2>5. \A i \in 1 .. pp : pipe'["stderr"][i] = written[k + i]
    <3> SUFFICES ASSUME NEW i \in 1 .. pp PROVE pipe'["stderr"][i] = written[k + i]
      OBVIOUS
    <3>1. i \in 1 .. p /\ pipe'["stderr"][i] = pipe["stderr"][i]
      BY <1>3, <2>2, <2>4
    <3> QED
      BY <2>1, <3>1 DEF ReadUpTo
  <2> HIDE DEF p
  <2>6. k + pp <= Len(written)
    <3> HIDE DEF pp
    <3> QED
      BY <2>3, <2>4
  <2>7. ReadUpTo(k)'
    BY <1>1, <2>1, <2>3, <2>5, <2>6 DEF ReadUpTo, Slot
  <2> QED
    BY <2>7 DEF RingInv, k
<1>7. ReportInv'
  BY <1>1 DEF TailInv, ReportInv, ReportIsTail
<1> QED
  BY <1>4, <1>5, <1>6, <1>7 DEF TailInv

LEMMA TailJoin ==
  ASSUME TailInv, Join
  PROVE  TailInv'
<1>1. /\ UNCHANGED <<procVars, pipeVars>> /\ pc = "join" /\ pc' = "done"
      /\ report' = LastLogLine /\ result' \in {"nil", "exit"}
  BY DEF Join, HandleError
<1>2. taken \in 0 .. Len(written) /\ ReadUpTo(taken)
  BY DEF TailInv, RingInv, TypeInv
<1> DEFINE from == IF taken > RingSize THEN taken - RingSize + 1 ELSE 1
<1>3. LastLogLine = NonBlank(SubSeq(written, from, taken))
  BY <1>2, RingIsTail DEF TailInv
<1>4. report' \in Seq(Texts)
  <2> DEFINE s == [i \in 1 .. RingSize |-> ring[(next + i - 1) % RingSize]]
  <2>1. RingSize \in Nat /\ next \in Slots /\ ring \in [Slots -> Short]
    BY InvokeAssumption DEF TailInv, TypeInv
  <2>2. \A i \in 1 .. RingSize : ring[(next + i - 1) % RingSize] \in Short
    BY <2>1, SlotType
  <2>3. s \in [1 .. RingSize -> Short]
    BY <2>2
  <2> HIDE DEF s
  <2>4. s \in Seq(Short)
    BY <2>1, <2>3, SeqDef
  <2>5. NonBlank(s) \in Seq(Texts)
    BY <2>4, NonBlankType DEF Short
  <2> QED
    BY <1>1, <2>5 DEF LastLogLine, s
<1>5. TypeInv'
  BY <1>1, <1>4 DEF TailInv, TypeInv, procVars, pipeVars, PCs, Results
<1>6. ProcInv'
  BY DEF Join, TailInv, ProcInv, procVars, pipeVars
<1>7. written' = written /\ taken' = taken
  BY <1>1 DEF pipeVars
<1>8. RingInv'
  BY <1>1, <1>2 DEF RingInv, ReadUpTo, Slot, pipeVars
<1>9. ReportInv'
  BY <1>1, <1>3, <1>7 DEF ReportInv, ReportIsTail
<1> QED
  BY <1>5, <1>6, <1>8, <1>9 DEF TailInv

LEMMA TailScanLine ==
  ASSUME TailInv, NEW o \in Outputs, ScanLine(o)
  PROVE  TailInv'
<1>1. /\ pipe[o] # <<>> /\ Head(pipe[o]) # "long" /\ pipe' = [pipe EXCEPT ![o] = Tail(pipe[o])]
      /\ UNCHANGED <<pc, procVars, closed, reader, written, result, report>>
  BY DEF ScanLine
<1>2. /\ pipe \in [Outputs -> Seq(Lines)] /\ written \in Seq(Lines) /\ Len(written) \in Nat
      /\ ring \in [Slots -> Short] /\ next \in Slots /\ "stderr" \in Outputs
  BY LenProperties DEF TailInv, TypeInv, Outputs
<1> DEFINE q == pipe[o]
           line == Head(pipe[o])
<1>3. /\ q \in Seq(Lines) /\ Len(q) \in Nat /\ Len(q) > 0 /\ line \in Lines /\ line = q[1]
      /\ Tail(q) \in Seq(Lines) /\ Len(Tail(q)) = Len(q) - 1
      /\ \A i \in 1 .. Len(q) - 1 : Tail(q)[i] = q[i + 1]
  <2>1. q \in Seq(Lines) /\ q # <<>>
    BY <1>1, <1>2
  <2> HIDE DEF q
  <2>2. Len(q) \in Nat /\ Len(q) # 0
    BY <2>1, LenProperties, EmptySeq
  <2>3. Head(q) \in Lines /\ Head(q) = q[1]
    BY <2>1, <2>2, HeadTailProperties, ElementOfSeq
  <2>4. Tail(q) \in Seq(Lines) /\ Len(Tail(q)) = Len(q) - 1
    BY <2>1, HeadTailProperties
  <2>5. \A i \in 1 .. Len(q) - 1 : Tail(q)[i] = q[i + 1]
    BY <2>1, <2>4, HeadTailProperties
  <2> QED
    BY <2>1, <2>2, <2>3, <2>4, <2>5 DEF q
<1>4. pipe' \in [Outputs -> Seq(Lines)]
  BY <1>1, <1>2, <1>3
<1> DEFINE k == taken
<1>5. ReadUpTo(k) /\ k \in 0 .. Len(written)
  BY DEF TailInv, RingInv, TypeInv
<1>6. ReportInv'
  <2>1. result = "none" /\ result' = "none" /\ pc' # "done" /\ report' = report
    BY <1>1 DEF TailInv, ReportInv, ProcInv, ScanLine, Reads
  <2> QED
    BY <2>1 DEF TailInv, ReportInv, ReportIsTail
<1>7. ProcInv'
  BY <1>1 DEF TailInv, ProcInv, procVars
<1>8. CASE o # "stderr"
  <2>1. UNCHANGED <<ring, next, taken>> /\ pipe'["stderr"] = pipe["stderr"]
    BY <1>1, <1>2, <1>8 DEF ScanLine
  <2>2. TypeInv'
    BY <1>1, <1>4, <2>1 DEF TailInv, TypeInv, procVars
  <2>3. ReadUpTo(k)'
    BY <1>1, <1>5, <2>1 DEF ReadUpTo, Slot
  <2>4. RingInv'
    BY <2>1, <2>3 DEF RingInv
  <2> QED
    BY <1>6, <1>7, <2>2, <2>4 DEF TailInv
<1>9. CASE o = "stderr"
  <2>0. taken' = taken + 1
    BY <1>9 DEF ScanLine
  <2>1. AppendLogLine(line) /\ line \in Short
    <3>1. line \in Short
      BY <1>1, <1>3 DEF Short, Lines
    <3> QED
      BY <1>9, <3>1 DEF ScanLine
  <2>2. q = pipe["stderr"] /\ pipe'["stderr"] = Tail(q)
    BY <1>1, <1>2, <1>9
  <2> HIDE DEF q, line, k
  <2>3. /\ k + Len(q) <= Len(written) /\ (~closed => k + Len(q) = Len(written))
        /\ \A i \in 1 .. Len(q) : q[i] = written[k + i]
    BY <1>5, <2>2 DEF ReadUpTo
  <2>4. k \in Nat /\ line = written[k + 1]
    <3>1. k \in Nat /\ 1 \in 1 .. Len(q)
      BY <1>2, <1>3, <1>5
    <3> QED
      BY <1>3, <2>3, <3>1
  <2>5. /\ ring' \in [Slots -> Short] /\ next' \in Slots
        /\ \A i \in 1 .. RingSize :
             ring'[Slot(i)'] = IF k + 1 + i > RingSize THEN written[k + 1 + i - RingSize] ELSE "blank"
    BY <1>1, <1>5, <2>1, <2>4, RingMoves DEF TailInv
  <2>7. /\ (k + 1) + Len(Tail(q)) <= Len(written)
        /\ ~closed => (k + 1) + Len(Tail(q)) = Len(written)
        /\ k + 1 \in 0 .. Len(written)
    <3> DEFINE a == Len(q)  b == Len(Tail(q))  c == Len(written)
    <3>1. a \in Nat /\ a > 0 /\ b = a - 1 /\ c \in Nat /\ k + a <= c /\ (~closed => k + a = c)
      BY <1>2, <1>3, <2>3
    <3> HIDE DEF a, b, c
    <3>2. (k + 1) + b <= c /\ (~closed => (k + 1) + b = c) /\ k + 1 \in 0 .. c
      BY <2>4, <3>1
    <3> QED
      BY <3>2 DEF b, c
  <2>8. \A i \in 1 .. Len(Tail(q)) : Tail(q)[i] = written[(k + 1) + i]
    <3> SUFFICES ASSUME NEW i \in 1 .. Len(Tail(q)) PROVE Tail(q)[i] = written[(k + 1) + i]
      OBVIOUS
    <3>1. i \in 1 .. Len(q) - 1 /\ i + 1 \in 1 .. Len(q) /\ k + (i + 1) = (k + 1) + i
      BY <1>3, <2>4
    <3> QED
      BY <1>3, <2>3, <3>1
  <2>6. TypeInv'
    <3>1. taken' \in 0 .. Len(written)
      BY <2>0, <2>7 DEF k
    <3> QED
      BY <1>1, <1>4, <2>5, <3>1 DEF TailInv, TypeInv, procVars
  <2>9. taken' = k + 1
    BY <2>0 DEF k
  <2>10. RingInv'
    BY <1>1, <2>2, <2>5, <2>7, <2>8, <2>9 DEF RingInv, ReadUpTo
  <2> QED
    BY <1>6, <1>7, <2>6, <2>10 DEF TailInv
<1> QED
  BY <1>8, <1>9

LEMMA TailWrites ==
  ASSUME TailInv, NEW o \in Outputs, Writes(o)
  PROVE  TailInv'
<1>1. /\ Writers /\ ~closed
      /\ UNCHANGED <<pc, procVars, closed, reader, ring, next, taken, result, report>>
  BY DEF Writes
<1>2. PICK l \in Lines :
        /\ pipe' = [pipe EXCEPT ![o] = Append(pipe[o], l)]
        /\ IF o = "stdout" THEN written' = written ELSE written' = Append(written, l)
  BY DEF Writes, Lines
<1>3. /\ pipe \in [Outputs -> Seq(Lines)] /\ written \in Seq(Lines) /\ Len(written) \in Nat
      /\ "stderr" \in Outputs /\ (o = "stdout" <=> o # "stderr")
  BY LenProperties DEF TailInv, TypeInv, Outputs
<1>4. pipe' \in [Outputs -> Seq(Lines)] /\ written' \in Seq(Lines)
  <2>1. pipe[o] \in Seq(Lines)
    BY <1>3
  <2>2. Append(pipe[o], l) \in Seq(Lines) /\ Append(written, l) \in Seq(Lines)
    BY <1>3, <2>1, AppendProperties
  <2> QED
    BY <1>2, <1>3, <2>2
<1> DEFINE k == taken
<1>5. ReadUpTo(k) /\ k \in 0 .. Len(written)
  BY DEF TailInv, RingInv, TypeInv
<1>6. TypeInv'
  <2>1. taken \in 0 .. Len(written')
    <3>1. written' = written \/ Len(written') = Len(written) + 1
      BY <1>2, <1>3, AppendProperties
    <3>2. Len(written') \in Nat /\ taken \in 0 .. Len(written)
      BY <1>4, LenProperties DEF TailInv, TypeInv
    <3> DEFINE a == Len(written)  b == Len(written')
    <3>3. a \in Nat /\ b \in Nat /\ taken \in 0 .. a /\ (b = a \/ b = a + 1)
      BY <1>3, <3>1, <3>2
    <3> HIDE DEF a, b
    <3>4. taken \in 0 .. b
      BY <3>3
    <3> QED
      BY <3>4 DEF b
  <2> QED
    BY <1>1, <1>4, <2>1 DEF TailInv, TypeInv, procVars
<1>7. ProcInv'
  BY <1>1 DEF TailInv, ProcInv, procVars
<1>8. pc # "done"
  BY <1>1 DEF TailInv, ProcInv, Writers
<1>9. ReportInv'
  BY <1>1, <1>8 DEF TailInv, ReportInv, ReportIsTail
<1>10. CASE o = "stdout"
  <2>1. pipe'["stderr"] = pipe["stderr"] /\ written' = written
    BY <1>2, <1>3, <1>10
  <2>2. ReadUpTo(k)'
    BY <1>1, <1>5, <2>1 DEF ReadUpTo, Slot
  <2>3. RingInv'
    BY <1>5, <2>1, <2>2 DEF RingInv
  <2> QED
    BY <1>6, <1>7, <1>9, <2>3 DEF TailInv
<1>11. CASE o # "stdout"
  <2> DEFINE q == pipe["stderr"]
             qq == pipe'["stderr"]
             ww == written'
  <2>1. /\ q \in Seq(Lines) /\ Len(q) \in Nat /\ qq = Append(q, l) /\ ww = Append(written, l)
    BY <1>2, <1>3, <1>11, LenProperties
  <2>2. /\ k + Len(q) = Len(written) /\ \A i \in 1 .. Len(q) : q[i] = written[k + i]
    BY <1>1, <1>5 DEF ReadUpTo
  <2>3. \A i \in 1 .. RingSize :
          ring[Slot(i)] = IF k + i > RingSize THEN written[k + i - RingSize] ELSE "blank"
    BY <1>5 DEF ReadUpTo
  <2> HIDE DEF q, qq, ww, k
  <2>4. /\ Len(qq) = Len(q) + 1 /\ qq[Len(q) + 1] = l /\ \A i \in 1 .. Len(q) : qq[i] = q[i]
    BY <2>1, AppendProperties
  <2>5. /\ Len(ww) = Len(written) + 1 /\ ww[Len(written) + 1] = l
        /\ \A i \in 1 .. Len(written) : ww[i] = written[i]
    BY <1>3, <2>1, AppendProperties
  <2>6. k \in Nat /\ k + Len(qq) = Len(ww) /\ k \in 0 .. Len(ww)
    <3> DEFINE a == Len(q)  b == Len(qq)  c == Len(written)  e == Len(ww)
    <3>1. a \in Nat /\ c \in Nat /\ k + a = c /\ b = a + 1 /\ e = c + 1 /\ k \in 0 .. c
      BY <1>3, <1>5, <2>1, <2>2, <2>4, <2>5
    <3> HIDE DEF a, b, c, e
    <3>2. k \in Nat /\ k + b = e /\ k \in 0 .. e
      BY <3>1
    <3> QED
      BY <3>2 DEF b, e
  <2>7. \A i \in 1 .. Len(qq) : qq[i] = ww[k + i]
    <3> SUFFICES ASSUME NEW i \in 1 .. Len(qq) PROVE qq[i] = ww[k + i]
      OBVIOUS
    <3>1. CASE i = Len(q) + 1
      <4>1. k + i = Len(written) + 1
        BY <2>1, <2>2, <2>6, <3>1
      <4> QED
        BY <2>4, <2>5, <3>1, <4>1
    <3>2. CASE i # Len(q) + 1
      <4>1. i \in 1 .. Len(q)
        BY <2>1, <2>4, <3>2
      <4>2. k + i \in 1 .. Len(written)
        BY <1>3, <2>1, <2>2, <2>6, <4>1
      <4> QED
        BY <2>2, <2>4, <2>5, <4>1, <4>2
    <3> QED
      BY <3>1, <3>2
  <2>8. \A i \in 1 .. RingSize :
          ring[Slot(i)] = IF k + i > RingSize THEN ww[k + i - RingSize] ELSE "blank"
    <3> SUFFICES ASSUME NEW i \in 1 .. RingSize, k + i > RingSize
                 PROVE  ring[Slot(i)] = ww[k + i - RingSize]
      BY <2>3
    <3>1. k + i - RingSize \in 1 .. Len(written)
      BY <1>3, <1>5, <2>6, InvokeAssumption
    <3> QED
      BY <2>3, <2>5, <3>1
  <2>9. k' = k
    BY <1>1 DEF k
  <2>10. ReadUpTo(k)'
    BY <1>1, <2>6, <2>7, <2>8, <2>9 DEF ReadUpTo, Slot, qq, ww
  <2>11. RingInv'
    BY <2>10 DEF RingInv, k
  <2> QED
    BY <1>6, <1>7, <1>9, <2>11 DEF TailInv
<1> QED
  BY <1>10, <1>11

\* The steps of the child and of invoke that no line passes through.
LEMMA TailProcess ==
  ASSUME TailInv, StartChild \/ RecordPid \/ AbortChild \/ ChildEnds \/ Forks \/ HeirsEnd
  PROVE  TailInv'
<1>1. UNCHANGED <<pipe, ring, next, written, taken, result, report, closed>> /\ pc # "done" /\ pc' # "done"
  <2>1. pc = "done" => ~(child = "alive") /\ ~(heirs /\ ~closed)
    BY DEF TailInv, ProcInv, TypeInv
  <2> QED
    BY <2>1 DEF StartChild, RecordPid, AbortChild, ChildEnds, Forks, HeirsEnd, pipeVars
<1>2. RingInv' /\ ReportInv'
  BY <1>1, TailStays
<1>3. TypeInv'
  BY DEF TailInv, TypeInv, PCs, StartChild, RecordPid, AbortChild, ChildEnds, Forks, HeirsEnd,
         procVars, pipeVars
<1>4. ProcInv'
  BY DEF TailInv, ProcInv, StartChild, RecordPid, AbortChild, ChildEnds, Forks, HeirsEnd, procVars,
         pipeVars
<1> QED
  BY <1>2, <1>3, <1>4 DEF TailInv

LEMMA TailScanEnds ==
  ASSUME TailInv, NEW o \in Outputs, ScanEnds(o)
  PROVE  TailInv'
<1>1. UNCHANGED <<pc, procVars, pipe, closed, ring, next, written, taken, result, report>>
  BY DEF ScanEnds
<1>2. RingInv' /\ ReportInv'
  BY <1>1, TailStays
<1>3. reader' \in [Outputs -> {"none", "scan", "ended"}]
  BY DEF TailInv, TypeInv, ScanEnds
<1>4. TypeInv'
  BY <1>1, <1>3 DEF TailInv, TypeInv, procVars
<1>5. ProcInv'
  <2>1. pc # "start" /\ \A p \in Outputs : reader'[p] = "scan" => reader[p] = "scan"
    BY DEF ScanEnds, Reads, TailInv, ProcInv, TypeInv
  <2> QED
    BY <1>1, <2>1 DEF TailInv, ProcInv, procVars
<1> QED
  BY <1>2, <1>4, <1>5 DEF TailInv

LEMMA TailInit ==
  Init => TailInv
<1> SUFFICES ASSUME Init PROVE TailInv
  OBVIOUS
<1>1. <<>> \in Seq(Lines) /\ <<>> \in Seq(Texts) /\ Len(<<>>) = 0
  BY EmptySeq
<1>2. RingSize \in Nat /\ RingSize > 0 /\ "stderr" \in Outputs
  BY InvokeAssumption DEF Outputs
<1>3. TypeInv
  <2>1. next \in Slots /\ ring \in [Slots -> Short]
    BY <1>2 DEF Init, Slots, Short
  <2>2. pipe \in [Outputs -> Seq(Lines)] /\ reader \in [Outputs -> {"none", "scan", "ended"}]
    BY <1>1 DEF Init
  <2> QED
    BY <1>1, <2>1, <2>2 DEF Init, TypeInv, PCs
<1>4. ProcInv
  BY DEF Init, ProcInv
<1>5. RingInv
  <2>1. pipe["stderr"] = <<>> /\ written = <<>>
    BY <1>2 DEF Init
  <2>2. \A i \in 1 .. RingSize : ring[Slot(i)] = "blank" /\ ~(0 + i > RingSize)
    <3> SUFFICES ASSUME NEW i \in 1 .. RingSize PROVE ring[Slot(i)] = "blank" /\ ~(0 + i > RingSize)
      OBVIOUS
    <3>1. next \in Slots /\ ring = [n \in Slots |-> "blank"]
      BY <1>3 DEF Init, TypeInv
    <3>2. Slot(i) \in Slots
      BY <3>1, SlotType
    <3> QED
      BY <1>2, <3>1, <3>2
  <2>3. ReadUpTo(0)
    BY <1>1, <2>1, <2>2 DEF ReadUpTo
  <2> QED
    BY <1>3, <2>3 DEF Init, RingInv
<1>6. ReportInv
  BY DEF Init, ReportInv, ReportIsTail
<1> QED
  BY <1>3, <1>4, <1>5, <1>6 DEF TailInv

LEMMA TailNext ==
  TailInv /\ [Next]_vars => TailInv'
<1> SUFFICES ASSUME TailInv, [Next]_vars PROVE TailInv'
  OBVIOUS
<1>1. CASE StartFails \/ Abandon
  BY <1>1, TailFails
<1>2. CASE StartChild \/ RecordPid \/ AbortChild \/ ChildEnds \/ Forks \/ HeirsEnd
  BY <1>2, TailProcess
<1>3. CASE Reap
  BY <1>3, TailReap
<1>4. CASE Join
  BY <1>4, TailJoin
<1>5. ASSUME NEW o \in Outputs, ScanLine(o) PROVE TailInv'
  BY <1>5, TailScanLine
<1>6. ASSUME NEW o \in Outputs, ScanEnds(o) PROVE TailInv'
  BY <1>6, TailScanEnds
<1>7. ASSUME NEW o \in Outputs, Writes(o) PROVE TailInv'
  BY <1>7, TailWrites
<1>8. CASE UNCHANGED vars
  <2>1. UNCHANGED <<pc, procVars, pipe, closed, reader, ring, next, written, taken, result, report>>
    BY <1>8 DEF vars, pipeVars
  <2>2. RingInv' /\ ReportInv'
    BY <2>1, TailStays
  <2>3. TypeInv' /\ ProcInv'
    BY <2>1 DEF TailInv, TypeInv, ProcInv, procVars
  <2> QED
    BY <2>2, <2>3 DEF TailInv
<1> QED
  BY <1>1, <1>2, <1>3, <1>4, <1>5, <1>6, <1>7, <1>8 DEF Next, InvokeStep, ReaderStep

LEMMA TailInvariant ==
  Spec => []TailInv
BY TailInit, TailNext, PTL DEF Spec

----------------------------------------------------------------------------
(* The theorems *)

\* Every variable keeps its type; the ring never has a line that is too long, since
\* the Scanner of handleStderr stops at one.
THEOREM TypeCorrect ==
  Spec => []TypeOK
<1>1. TailInv => TypeOK
  <2>1. Short \in SUBSET Lines
    BY DEF Short, Lines
  <2>2. ASSUME TailInv PROVE ring \in [Slots -> Lines]
    BY <2>1, <2>2 DEF TailInv, TypeInv
  <2> QED
    BY <2>2 DEF TailInv, TypeInv, TypeOK
<1> QED
  BY <1>1, TailInvariant, PTL

\* The lines reported with the exit of a child are the last non-blank ones that the child
\* wrote to stderr, up to the line that handleStderr came to, for a ring of any size,
\* however often it has wrapped and whatever the close of the pipes has cut off.
THEOREM ReportIsTheTail ==
  Spec => []ReportIsTail
<1>1. TailInv => ReportIsTail
  BY DEF TailInv, ReportInv
<1> QED
  BY <1>1, TailInvariant, PTL
=============================================================================
