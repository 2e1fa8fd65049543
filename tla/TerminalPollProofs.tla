------------------------- MODULE TerminalPollProofs -------------------------
(***************************************************************************)
(* What TerminalPoll promises for any keys, sessions and read buffer: the  *)
(* bytes keep their order, what the handler finds does not depend on how   *)
(* the reads cut the input, the session ends for a reason only, and the    *)
(* terminal is left as it was found.                                       *)
(***************************************************************************)
EXTENDS TerminalPoll, SequenceTheorems, WellFoundedInduction, TLAPS

----------------------------------------------------------------------------
(* Induction: a set of numbers that has 0 and the successor of each *)

LEMMA NatOrder == \E R : IsWellFoundedOn(R, Nat) /\ \A x, y \in Nat : y < x => <<y, x>> \in R
<1>1. \A x, y \in Nat : y < x => <<y, x>> \in OpToRel(<, Nat)
  BY DEF OpToRel
<1> QED
  BY <1>1, NatLessThanWellFounded, Zenon

LEMMA NatInduct ==
  ASSUME NEW T \in SUBSET Nat, 0 \in T, \A n \in T : n + 1 \in T
  PROVE  T = Nat
<1> SUFFICES ASSUME T # Nat PROVE FALSE
  OBVIOUS
<1> DEFINE U == Nat \ T
<1>1. PICK R : IsWellFoundedOn(R, Nat) /\ \A x, y \in Nat : y < x => <<y, x>> \in R
  BY NatOrder
<1>2. U # {} /\ U \subseteq Nat
  OBVIOUS
<1> HIDE DEF U
<1>3. PICK x \in U : \A y \in U : ~ (<<y, x>> \in R)
  BY <1>1, <1>2, WFMin
<1>4. x \in Nat /\ x \notin T
  BY <1>3 DEF U
<1>5. x # 0 /\ x - 1 \in Nat /\ x - 1 \notin T
  BY <1>4
<1>6. x - 1 \in U /\ x - 1 < x
  BY <1>4, <1>5 DEF U
<1> QED
  BY <1>1, <1>3, <1>4, <1>5, <1>6

----------------------------------------------------------------------------
(* The escape sequence *)

Scanned == [step : 0 .. 1, hit : BOOLEAN]

\* f[i] is what the handler makes of the first i bytes.
IsScan(f, from, bytes) ==
  /\ f \in [0 .. Len(bytes) -> Scanned]
  /\ f[0] = [step |-> from, hit |-> FALSE]
  /\ \A i \in 1 .. Len(bytes) : f[i] = EscapeByte(f[i - 1], bytes[i])

LEMMA EscapeByteType == \A acc \in Scanned : \A b : EscapeByte(acc, b) \in Scanned
<1> SUFFICES ASSUME NEW acc \in Scanned, NEW b PROVE EscapeByte(acc, b) \in Scanned
  OBVIOUS
<1>1. [acc EXCEPT !.hit = TRUE] \in Scanned
  BY DEF Scanned
<1>2. \A x \in 0 .. 1 : [acc EXCEPT !.step = x] \in Scanned
  BY DEF Scanned
<1> QED
  BY <1>1, <1>2 DEF EscapeByte

\* The recursion of Escape is well founded.
LEMMA EscapeScans ==
  ASSUME NEW S, NEW bytes \in Seq(S), NEW from \in 0 .. 1
  PROVE  \E f : IsScan(f, from, bytes) /\ Escape(from, bytes) = f[Len(bytes)]
<1> DEFINE base == [step |-> from, hit |-> FALSE]
           Rec(f, n) ==
             f = [i \in 0 .. n |-> IF i = 0 THEN base
                                   ELSE EscapeByte(f[i - 1], bytes[i])]
           T == {n \in Nat : \E f : Rec(f, n)}
<1>0. base \in Scanned
  BY DEF Scanned
<1> HIDE DEF base
<1>1. 0 \in T
  <2>1. Rec([i \in 0 .. 0 |-> base], 0)
    OBVIOUS
  <2> QED
    BY <2>1
<1>2. ASSUME NEW n \in T PROVE n + 1 \in T
  <2>1. n \in Nat /\ \E f : Rec(f, n)
    OBVIOUS
  <2> HIDE DEF T
  <2>0. PICK f : Rec(f, n)
    BY <2>1
  <2> DEFINE g == [i \in 0 .. n + 1 |-> IF i = n + 1 THEN EscapeByte(f[n], bytes[i]) ELSE f[i]]
  <2>2. \A i \in 0 .. n : f[i] = IF i = 0 THEN base
                                 ELSE EscapeByte(f[i - 1], bytes[i])
    BY <2>0
  <2>3. \A i \in 0 .. n + 1 : g[i] = IF i = 0 THEN base
                                     ELSE EscapeByte(g[i - 1], bytes[i])
    <3>1. \A i \in 0 .. n : g[i] = f[i]
      BY <2>1
    <3>2. g[n + 1] = EscapeByte(f[n], bytes[n + 1])
      BY <2>1
    <3> HIDE DEF g
    <3>3. ASSUME NEW i \in 0 .. n + 1
          PROVE  g[i] = IF i = 0 THEN base
                        ELSE EscapeByte(g[i - 1], bytes[i])
      <4>1. CASE i = n + 1
        BY <2>1, <3>1, <3>2, <4>1
      <4>2. CASE i = 0
        BY <2>1, <2>2, <3>1, <4>2
      <4>3. CASE i \in 1 .. n
        <5>1. i \in 0 .. n /\ i - 1 \in 0 .. n /\ i # 0
          BY <2>1, <4>3
        <5> QED
          BY <2>2, <3>1, <5>1
      <4> QED
        BY <2>1, <4>1, <4>2, <4>3
    <3> QED
      BY <3>3
  <2>4. Rec(g, n + 1)
    <3>1. g = [i \in 0 .. n + 1 |-> g[i]]
      OBVIOUS
    <3> HIDE DEF g
    <3> QED
      BY <2>3, <3>1
  <2> HIDE DEF g, Rec
  <2>5. \E h : Rec(h, n + 1)
    BY <2>4
  <2> QED
    BY <2>1, <2>5 DEF T
<1> HIDE DEF T
<1>3. T = Nat
  <2>1. T \in SUBSET Nat
    BY DEF T
  <2> QED
    BY <1>1, <1>2, <2>1, NatInduct
<1>4. Len(bytes) \in Nat
  BY LenProperties
<1> DEFINE F == CHOOSE f : Rec(f, Len(bytes))
<1>5. Rec(F, Len(bytes))
  BY <1>3, <1>4 DEF T
<1>6. Escape(from, bytes) = F[Len(bytes)]
  BY DEF Escape, base
<1> HIDE DEF F
<1>7. /\ DOMAIN F = 0 .. Len(bytes) /\ F[0] = base
      /\ \A i \in 1 .. Len(bytes) : F[i] = EscapeByte(F[i - 1], bytes[i])
  <2>1. F = [i \in 0 .. Len(bytes) |-> IF i = 0 THEN base
                                       ELSE EscapeByte(F[i - 1], bytes[i])]
    BY <1>5
  <2>2. DOMAIN F = 0 .. Len(bytes)
    BY <2>1
  <2>3. \A i \in 0 .. Len(bytes) : F[i] = IF i = 0 THEN base
                                          ELSE EscapeByte(F[i - 1], bytes[i])
    BY <2>1
  <2> HIDE <2>1
  <2>4. F[0] = base
    BY <1>4, <2>3
  <2>5. ASSUME NEW i \in 1 .. Len(bytes) PROVE F[i] = EscapeByte(F[i - 1], bytes[i])
    <3>1. i \in 0 .. Len(bytes) /\ i # 0
      BY <1>4
    <3> QED
      BY <2>3, <3>1
  <2> QED
    BY <2>2, <2>4, <2>5
<1> HIDE DEF Rec
<1> DEFINE V == {n \in Nat : n <= Len(bytes) => F[n] \in Scanned}
<1>8. 0 \in V
  BY <1>0, <1>7
<1>9. ASSUME NEW n \in V PROVE n + 1 \in V
  BY <1>4, <1>7, EscapeByteType
<1> HIDE DEF V
<1>10. V = Nat
  <2>1. V \in SUBSET Nat
    BY DEF V
  <2> QED
    BY <1>8, <1>9, <2>1, NatInduct
<1>11. F \in [0 .. Len(bytes) -> Scanned]
  <2>1. \A i \in 0 .. Len(bytes) : F[i] \in Scanned
    BY <1>4, <1>10 DEF V
  <2>2. F = [i \in 0 .. Len(bytes) |-> F[i]]
    BY <1>5, <1>7 DEF Rec
  <2> QED
    BY <2>1, <2>2
<1> QED
  BY <1>6, <1>7, <1>11 DEF IsScan, base

\* What the handler finds in s: a paren at position i after an ESC, where that ESC is
\* the first, third, ... of a run of them.
EscapeAt(s, i) ==
  /\ i > 1 /\ s[i] = "paren" /\ s[i - 1] = "esc"
  /\ \E j \in 1 .. i - 1 : /\ (i - j) % 2 = 1
                           /\ \A k \in j .. i - 1 : s[k] = "esc"
                           /\ j = 1 \/ s[j - 1] # "esc"
EscapeSeen(s) == \E i \in 1 .. Len(s) : EscapeAt(s, i)

\* Byte i of s is an ESC that the next byte may complete.
OpenAt(s, i) ==
  /\ i >= 1 /\ s[i] = "esc"
  /\ \E j \in 1 .. i : /\ (i - j) % 2 = 0
                       /\ \A k \in j .. i : s[k] = "esc"
                       /\ j = 1 \/ s[j - 1] # "esc"

\* The sequence is complete at a paren after such an ESC.
LEMMA EscapeAtOpen ==
  ASSUME NEW S, NEW s \in Seq(S), NEW i \in 1 .. Len(s)
  PROVE  EscapeAt(s, i) <=> s[i] = "paren" /\ OpenAt(s, i - 1)
<1>1. \A j \in 1 .. i - 1 : (i - j) % 2 = 1 <=> (i - 1 - j) % 2 = 0
  OBVIOUS
<1> QED
  BY <1>1 DEF EscapeAt, OpenAt

\* Every ESC belongs to a run of them that starts somewhere.
LEMMA RunStarts ==
  ASSUME NEW S, NEW s \in Seq(S)
  PROVE  \A i \in 1 .. Len(s) : s[i] = "esc" =>
           \E j \in 1 .. i : (\A k \in j .. i : s[k] = "esc") /\ (j = 1 \/ s[j - 1] # "esc")
<1> DEFINE Run(i) == \E j \in 1 .. i : /\ \A k \in j .. i : s[k] = "esc"
                                       /\ j = 1 \/ s[j - 1] # "esc"
           T == {n \in Nat : n + 1 <= Len(s) /\ s[n + 1] = "esc" => Run(n + 1)}
<1>0. Len(s) \in Nat
  BY LenProperties
<1>1. 0 \in T
  OBVIOUS
<1>2. ASSUME NEW n \in T PROVE n + 1 \in T
  <2> SUFFICES ASSUME n + 2 <= Len(s), s[n + 2] = "esc" PROVE Run(n + 2)
    OBVIOUS
  <2>1. CASE s[n + 1] # "esc"
    <3>1. \A k \in n + 2 .. n + 2 : s[k] = "esc"
      OBVIOUS
    <3> QED
      BY <2>1, <3>1
  <2>2. CASE s[n + 1] = "esc"
    <3>1. PICK j \in 1 .. n + 1 : /\ \A k \in j .. n + 1 : s[k] = "esc"
                                  /\ j = 1 \/ s[j - 1] # "esc"
      BY <1>0, <2>2
    <3>2. \A k \in j .. n + 2 : s[k] = "esc"
      BY <3>1
    <3> QED
      BY <3>1, <3>2
  <2> QED
    BY <2>1, <2>2
<1> HIDE DEF T
<1>3. T = Nat
  <2>1. T \in SUBSET Nat
    BY DEF T
  <2> QED
    BY <1>1, <1>2, <2>1, NatInduct
<1>4. ASSUME NEW i \in 1 .. Len(s), s[i] = "esc" PROVE Run(i)
  <2>1. i - 1 \in T /\ (i - 1) + 1 = i
    BY <1>0, <1>3
  <2> QED
    BY <1>0, <1>4, <2>1 DEF T
<1> QED
  BY <1>4

\* The handler's rule: an ESC opens the sequence unless the byte before it did.
LEMMA OpenAlternates ==
  ASSUME NEW S, NEW s \in Seq(S), NEW i \in 1 .. Len(s)
  PROVE  OpenAt(s, i) <=> s[i] = "esc" /\ ~OpenAt(s, i - 1)
<1>0. Len(s) \in Nat
  BY LenProperties
<1>1. ASSUME OpenAt(s, i), OpenAt(s, i - 1) PROVE FALSE
  <2>1. PICK j \in 1 .. i : /\ (i - j) % 2 = 0 /\ \A k \in j .. i : s[k] = "esc"
                            /\ j = 1 \/ s[j - 1] # "esc"
    BY <1>1 DEF OpenAt
  <2>2. PICK l \in 1 .. i - 1 : /\ (i - 1 - l) % 2 = 0 /\ \A k \in l .. i - 1 : s[k] = "esc"
                                /\ l = 1 \/ s[l - 1] # "esc"
    BY <1>1 DEF OpenAt
  <2>3. j <= l
    <3>1. CASE l = 1 /\ j > 1
      <4>1. j - 1 \in l .. i - 1
        BY <3>1, <1>0
      <4> QED
        BY <2>1, <2>2, <3>1, <4>1
    <3>2. CASE l > 1 /\ j > l
      <4>1. j - 1 \in l .. i - 1
        BY <3>2, <1>0
      <4> QED
        BY <2>1, <2>2, <3>2, <4>1
    <3> QED
      BY <3>1, <3>2, <1>0
  <2>4. l <= j
    <3>1. CASE l > j
      <4>1. l - 1 \in j .. i /\ l # 1
        BY <3>1, <1>0
      <4> QED
        BY <2>1, <2>2, <4>1
    <3> QED
      BY <3>1, <1>0
  <2>5. j = l
    BY <2>3, <2>4, <1>0
  <2> QED
    BY <2>1, <2>2, <2>5, <1>0
<1>2. ASSUME s[i] = "esc", ~OpenAt(s, i - 1) PROVE OpenAt(s, i)
  <2>1. CASE i = 1 \/ s[i - 1] # "esc"
    <3>1. (i - i) % 2 = 0 /\ \A k \in i .. i : s[k] = "esc"
      BY <1>2, <1>0
    <3> QED
      BY <1>0, <1>2, <2>1, <3>1 DEF OpenAt
  <2>2. CASE i > 1 /\ s[i - 1] = "esc"
    <3>1. i - 1 \in 1 .. Len(s)
      BY <2>2, <1>0
    <3>2. PICK j \in 1 .. i - 1 : (\A k \in j .. i - 1 : s[k] = "esc") /\ (j = 1 \/ s[j - 1] # "esc")
      BY <2>2, <3>1, RunStarts
    <3>3. (i - 1 - j) % 2 # 0
      BY <1>2, <2>2, <3>2, <1>0 DEF OpenAt
    <3>4. (i - j) % 2 = 0
      BY <3>3, <1>0
    <3>5. \A k \in j .. i : s[k] = "esc"
      BY <1>2, <3>2, <1>0
    <3> QED
      BY <1>0, <1>2, <3>2, <3>4, <3>5 DEF OpenAt
  <2> QED
    BY <2>1, <2>2, <1>0
<1>3. OpenAt(s, i) => s[i] = "esc"
  BY DEF OpenAt
<1> QED
  BY <1>1, <1>2, <1>3

\* What comes later does not change what was found.
LEMMA PrefixEscapes ==
  ASSUME NEW S, NEW s \in Seq(S), NEW t \in Seq(S)
  PROVE  /\ \A i \in 0 .. Len(s) : OpenAt(s \o t, i) <=> OpenAt(s, i)
         /\ \A i \in 1 .. Len(s) : EscapeAt(s \o t, i) <=> EscapeAt(s, i)
         /\ EscapeSeen(s) => EscapeSeen(s \o t)
<1>1. /\ Len(s) \in Nat /\ Len(t) \in Nat /\ Len(s \o t) = Len(s) + Len(t)
      /\ \A k \in 1 .. Len(s) : (s \o t)[k] = s[k]
  BY ConcatProperties, LenProperties
<1> DEFINE u == s \o t
<1> HIDE DEF u
<1>2. /\ Len(u) = Len(s) + Len(t) /\ \A k \in 1 .. Len(s) : u[k] = s[k]
  BY <1>1 DEF u
<1>3. ASSUME NEW i \in 0 .. Len(s) PROVE OpenAt(u, i) <=> OpenAt(s, i)
  <2>1. \A k \in 1 .. i : u[k] = s[k]
    BY <1>1, <1>2
  <2>2. \A j \in 1 .. i : \A k \in j .. i : k \in 1 .. i
    BY <1>1
  <2>3. \A j \in 1 .. i : j = 1 \/ j - 1 \in 1 .. i
    BY <1>1
  <2>4. i >= 1 => i \in 1 .. i
    BY <1>1
  <2> QED
    BY <2>1, <2>2, <2>3, <2>4 DEF OpenAt
<1>4. ASSUME NEW i \in 1 .. Len(s) PROVE EscapeAt(u, i) <=> EscapeAt(s, i)
  <2>1. \A k \in 1 .. i : u[k] = s[k]
    BY <1>1, <1>2
  <2>2. \A j \in 1 .. i - 1 : \A k \in j .. i - 1 : k \in 1 .. i
    BY <1>1
  <2>3. \A j \in 1 .. i - 1 : j = 1 \/ j - 1 \in 1 .. i
    BY <1>1
  <2>4. i \in 1 .. i /\ (i > 1 => i - 1 \in 1 .. i)
    BY <1>1
  <2> QED
    BY <2>1, <2>2, <2>3, <2>4 DEF EscapeAt
<1>5. EscapeSeen(s) => EscapeSeen(u)
  BY <1>1, <1>2, <1>4 DEF EscapeSeen
<1> QED
  BY <1>3, <1>4, <1>5 DEF u

\* The step of a handler that has seen the bytes s and not found the sequence.
StepAfter(s) == IF OpenAt(s, Len(s)) THEN 1 ELSE 0

\* However the reads cut the bytes of the user, the handler finds the sequence in
\* the read that completes it, and carries the right step from read to read.
LEMMA EscapeContinues ==
  ASSUME NEW S, NEW s \in Seq(S), NEW t \in Seq(S), ~EscapeSeen(s)
  PROVE  /\ Escape(StepAfter(s), t).hit <=> EscapeSeen(s \o t)
         /\ ~EscapeSeen(s \o t) => Escape(StepAfter(s), t).step = StepAfter(s \o t)
         /\ Escape(StepAfter(s), t).step \in 0 .. 1
<1> DEFINE u == s \o t
           n == Len(s)
<1>1. /\ n \in Nat /\ Len(t) \in Nat /\ u \in Seq(S) /\ Len(u) = n + Len(t)
      /\ \A k \in 1 .. Len(t) : u[n + k] = t[k]
  BY ConcatProperties, LenProperties
<1>2. PICK f : IsScan(f, StepAfter(s), t) /\ Escape(StepAfter(s), t) = f[Len(t)]
  BY EscapeScans DEF StepAfter
<1>3. /\ \A i \in 0 .. n : OpenAt(u, i) <=> OpenAt(s, i)
      /\ \A i \in 1 .. n : EscapeAt(u, i) <=> EscapeAt(s, i)
  BY PrefixEscapes
<1> HIDE DEF u, n
<1> DEFINE Good(i) ==
             /\ f[i].hit <=> \E k \in 1 .. n + i : EscapeAt(u, k)
             /\ ~f[i].hit => f[i].step = (IF OpenAt(u, n + i) THEN 1 ELSE 0)
           T == {i \in Nat : i <= Len(t) => Good(i)}
<1>4. 0 \in T
  <2>1. f[0] = [step |-> StepAfter(s), hit |-> FALSE]
    BY <1>2 DEF IsScan
  <2>2. \A k \in 1 .. n : ~EscapeAt(u, k)
    BY <1>3 DEF EscapeSeen, n
  <2>3. StepAfter(s) = IF OpenAt(u, n) THEN 1 ELSE 0
    BY <1>1, <1>3 DEF StepAfter, n
  <2>4. n + 0 = n
    BY <1>1
  <2>5. ~f[0].hit /\ f[0].step = StepAfter(s)
    BY <2>1
  <2> HIDE <2>1
  <2>6. Good(0)
    BY <2>2, <2>3, <2>4, <2>5
  <2> QED
    BY <2>6
<1>5. ASSUME NEW i \in T PROVE i + 1 \in T
  <2> SUFFICES ASSUME i + 1 <= Len(t) PROVE Good(i + 1)
    OBVIOUS
  <2>1. i \in Nat /\ i <= Len(t) /\ Good(i)
    BY <1>1
  <2>2. /\ f[i + 1] = EscapeByte(f[i], u[n + i + 1]) /\ f[i] \in Scanned
        /\ n + i + 1 \in 1 .. Len(u)
    <3>1. i + 1 \in 1 .. Len(t) /\ (i + 1) - 1 = i /\ i \in 0 .. Len(t)
      BY <1>1, <2>1
    <3>2. u[n + (i + 1)] = t[i + 1]
      BY <1>1, <3>1
    <3>3. n + (i + 1) = n + i + 1 /\ n + i + 1 \in 1 .. Len(u)
      BY <1>1, <2>1, <3>1
    <3>4. f[i + 1] = EscapeByte(f[(i + 1) - 1], t[i + 1]) /\ f[i] \in Scanned
      BY <1>2, <3>1 DEF IsScan
    <3> QED
      BY <3>1, <3>2, <3>3, <3>4
  <2>3. EscapeAt(u, n + i + 1) <=> u[n + i + 1] = "paren" /\ OpenAt(u, n + i)
    BY <1>1, <2>1, <2>2, EscapeAtOpen
  <2>4. OpenAt(u, n + i + 1) <=> u[n + i + 1] = "esc" /\ ~OpenAt(u, n + i)
    BY <1>1, <2>1, <2>2, OpenAlternates
  <2>5. (\E k \in 1 .. n + (i + 1) : EscapeAt(u, k))
          <=> (\E k \in 1 .. n + i : EscapeAt(u, k)) \/ EscapeAt(u, n + i + 1)
    <3>1. 1 .. n + (i + 1) = (1 .. n + i) \cup {n + i + 1}
      BY <1>1, <2>1
    <3> QED
      BY <3>1
  <2>6. n + (i + 1) = n + i + 1
    BY <1>1, <2>1
  <2>7. /\ f[i + 1].hit <=> f[i].hit \/ (f[i].step = 1 /\ u[n + i + 1] = "paren")
        /\ ~f[i + 1].hit =>
             f[i + 1].step = (IF f[i].step = 0 /\ u[n + i + 1] = "esc" THEN 1 ELSE 0)
    BY <2>2 DEF EscapeByte, Scanned
  <2>8. f[i + 1].hit <=> \E k \in 1 .. n + (i + 1) : EscapeAt(u, k)
    BY <2>1, <2>3, <2>5, <2>7
  <2>9. ~f[i + 1].hit => f[i + 1].step = (IF OpenAt(u, n + (i + 1)) THEN 1 ELSE 0)
    BY <2>1, <2>4, <2>6, <2>7
  <2> QED
    BY <2>8, <2>9
<1> HIDE DEF T
<1>6. T = Nat
  <2>1. T \in SUBSET Nat
    BY DEF T
  <2> QED
    BY <1>4, <1>5, <2>1, NatInduct
<1>7. Good(Len(t))
  <2>1. Len(t) \in T
    BY <1>1, <1>6
  <2> QED
    BY <1>1, <2>1 DEF T
<1>8. f[Len(t)] \in Scanned
  BY <1>1, <1>2 DEF IsScan
<1>9. /\ f[Len(t)].hit <=> EscapeSeen(u)
      /\ ~f[Len(t)].hit => f[Len(t)].step = StepAfter(u)
  BY <1>1, <1>7 DEF EscapeSeen, StepAfter
<1> QED
  BY <1>2, <1>8, <1>9 DEF Scanned, u

\* Given all of its bytes at once the handler finds the same.
LEMMA EscapeWhole ==
  ASSUME NEW S, NEW s \in Seq(S)
  PROVE  Escape(0, s).hit <=> EscapeSeen(s)
<1>1. <<>> \in Seq(S) /\ Len(<<>>) = 0 /\ <<>> \o s = s
  BY EmptySeq, ConcatEmptySeq
<1>2. ~EscapeSeen(<<>>) /\ StepAfter(<<>>) = 0
  BY <1>1 DEF EscapeSeen, StepAfter, OpenAt
<1>3. Escape(StepAfter(<<>>), s).hit <=> EscapeSeen(<<>> \o s)
  BY <1>1, <1>2, EscapeContinues
<1> QED
  BY <1>1, <1>2, <1>3, Zenon

----------------------------------------------------------------------------
(* The inductive invariant *)

\* Bytes only move on: from the source to the reader, and from there to the
\* destination or to what is pending.
DataInv ==
  /\ \A v \in {waiting, got, pend, dst} : v \in [Directions -> Seq(Keys \cup Nat)]
  /\ \A d \in Directions : {waiting[d], got[d], pend[d], dst[d]} \subseteq Seq(Bytes(d))
  /\ Len(got["in"]) + Len(waiting["in"]) <= session.in
  /\ Len(got["out"]) + Len(waiting["out"]) <= printed
  /\ \A d \in Directions : Len(dst[d]) + Len(pend[d]) <= Len(got[d])

\* TypeOK but for the bytes.
RestOK ==
  /\ session \in Sessions
  /\ pc \in {"open", "prepare", "notify", "register", "top", "epoll", "dispatch", "blocked", "leave",
             "restore", "drain", "join", "closed"}
  /\ batch \subseteq Events
  /\ closing \in BOOLEAN /\ step \in 0 .. 1
  /\ hup \in [Directions -> BOOLEAN] /\ lost \in [Directions -> BOOLEAN]
  /\ printed \in 0 .. session.out
  /\ guest \in {"calm"} \cup session.moods
  /\ ctx \in BOOLEAN /\ asked \in BOOLEAN
  /\ copier \in {"off", "read", "write", "cancel", "done"}
  /\ err \in {"none", "setup", "panic"}
  /\ {raw, notified, winch, missed} \subseteq BOOLEAN
  /\ outer \in 1 .. session.sizes + 1 /\ {inner, ws} \subseteq 0 .. session.sizes + 1
  /\ resizer \in {"off", "idle", "set", "ended"}

TypeInv == DataInv /\ RestOK

\* Each direction has one reader, and an event says what is still so.
RoleInv ==
  /\ copier # "off" => mode = "pipe"
  /\ mode = "pipe" /\ copier # "write" => pend["in"] = <<>>
  /\ \A e \in batch : /\ e.of \in Polled \cup {"cancel"}
                      /\ e.of = "cancel" => ctx
                      /\ e.hup => hup[e.of]
  /\ pc = "epoll" => ~closing
  /\ pc = "open" => copier = "off"
  /\ pc = "blocked" => mode = "terminal"

\* The terminal is raw and has a resizer between PrepareTerminal and its closer.
ScreenInv ==
  /\ pc = "prepare" => mode = "terminal"
  /\ mode = "pipe" \/ pc \in {"open", "prepare"} => resizer = "off"
  /\ pc \in {"drain", "join"} => mode = "pipe"
  /\ resizer = "off" => ~raw
  /\ resizer = "ended" => pc = "closed"
  /\ TerminalRestored

Reason ==
  \/ asked \/ err # "none" \/ lost["in"] \/ lost["out"]
  \/ \E d \in Directions : hup[d]
  \/ mode = "terminal" /\ EscapeSeen(got["in"])

ReasonInv ==
  closing \/ ctx \/ copier \in {"cancel", "done"}
    \/ pc \in {"leave", "restore", "drain", "join", "closed"} => Reason

\* The handler has the right step, or the verdict.
EscapeInv ==
  mode = "terminal" =>
    IF EscapeSeen(got["in"]) THEN closing ELSE step = StepAfter(got["in"])

PollInv == TypeInv /\ RoleInv /\ ScreenInv /\ ForwardsInOrder /\ ReasonInv /\ EscapeInv

----------------------------------------------------------------------------
(* What the steps do to the bytes *)

LEMMA SeqSplit ==
  ASSUME NEW S, NEW q \in Seq(S), NEW k \in 0 .. Len(q)
  PROVE  /\ SubSeq(q, 1, k) \in Seq(S) /\ SubSeq(q, k + 1, Len(q)) \in Seq(S)
         /\ Len(SubSeq(q, 1, k)) = k /\ Len(SubSeq(q, k + 1, Len(q))) = Len(q) - k
         /\ SubSeq(q, 1, k) \o SubSeq(q, k + 1, Len(q)) = q
<1>1. Len(q) \in Nat /\ \A i \in 1 .. Len(q) : q[i] \in S
  BY LenProperties, ElementOfSeq
<1>2. SubSeq(q, 1, k) \in Seq(S) /\ Len(SubSeq(q, 1, k)) = k
  BY <1>1, SubSeqProperties
<1>3. SubSeq(q, k + 1, Len(q)) \in Seq(S) /\ Len(SubSeq(q, k + 1, Len(q))) = Len(q) - k
  BY <1>1, SubSeqProperties
<1>4. SubSeq(q, 1, k) \o SubSeq(q, k + 1, Len(q)) = SubSeq(q, 1, Len(q))
  <2>1. 1 \in 1 .. Len(q) + 1 /\ k \in 1 - 1 .. Len(q) /\ Len(q) \in k .. Len(q)
    BY <1>1
  <2> QED
    BY <2>1, ConcatAdjacentSubSeq
<1> QED
  BY <1>2, <1>3, <1>4, SubSeqFull

\* One read takes a non-empty part of what is waiting.
LEMMA ChunkSplit ==
  ASSUME NEW S, NEW d \in Directions, waiting[d] \in Seq(S)
  PROVE  /\ Chunked(d) \in Seq(S) /\ Unread(d, Chunked(d)) \in Seq(S)
         /\ Len(Chunked(d)) + Len(Unread(d, Chunked(d))) = Len(waiting[d])
<1> DEFINE q == waiting[d]
           k == Smaller(Chunk, Len(q))
           a == SubSeq(q, 1, k)
           b == SubSeq(q, k + 1, Len(q))
<1>1. Len(q) \in Nat /\ k \in 0 .. Len(q)
  BY TerminalPollAssumption, LenProperties DEF Smaller
<1>2. a \in Seq(S) /\ b \in Seq(S) /\ Len(a) = k /\ Len(b) = Len(q) - k
  <2> HIDE DEF k
  <2> QED
    BY <1>1, SeqSplit
<1>3. Chunked(d) = a
  BY DEF Chunked
<1>4. Unread(d, Chunked(d)) = b
  BY <1>2, <1>3 DEF Unread
<1> HIDE DEF q, k, a, b
<1>5. Len(a) + Len(b) = Len(q)
  BY <1>1, <1>2
<1> QED
  BY <1>2, <1>3, <1>4, <1>5 DEF q

\* The operations on sequences under names that the provers do not look into.
Cat(s, t) == s \o t
Front(s, k) == SubSeq(s, 1, k)
Rest(s, k) == SubSeq(s, k + 1, Len(s))

LEMMA CatType ==
  ASSUME NEW S, NEW s \in Seq(S), NEW t \in Seq(S)
  PROVE  Cat(s, t) \in Seq(S) /\ Len(Cat(s, t)) = Len(s) + Len(t)
BY ConcatProperties DEF Cat

LEMMA CatAssociative ==
  ASSUME NEW S, NEW s \in Seq(S), NEW t \in Seq(S), NEW u \in Seq(S)
  PROVE  Cat(Cat(s, t), u) = Cat(s, Cat(t, u))
<1>1. (s \o t) \o u = s \o (t \o u)
  BY ConcatAssociative
<1> QED
  BY <1>1, Zenon DEF Cat

LEMMA FrontRest ==
  ASSUME NEW S, NEW s \in Seq(S), NEW k \in 0 .. Len(s)
  PROVE  /\ Front(s, k) \in Seq(S) /\ Rest(s, k) \in Seq(S)
         /\ Cat(Front(s, k), Rest(s, k)) = s
BY SeqSplit DEF Front, Rest, Cat

\* A write that takes the first k bytes of what was pending and the chunk.
LEMMA WriteMoves ==
  ASSUME NEW S, NEW x0 \in Seq(S), NEW p0 \in Seq(S), NEW chunk \in Seq(S),
         NEW k \in 0 .. Len(Cat(p0, chunk))
  PROVE  /\ Cat(x0, Front(Cat(p0, chunk), k)) \in Seq(S)
         /\ Rest(Cat(p0, chunk), k) \in Seq(S)
         /\ Len(Cat(x0, Front(Cat(p0, chunk), k))) + Len(Rest(Cat(p0, chunk), k))
              = Len(x0) + Len(p0) + Len(chunk)
         /\ Cat(Cat(x0, Front(Cat(p0, chunk), k)), Rest(Cat(p0, chunk), k))
              = Cat(Cat(x0, p0), chunk)
<1> DEFINE buf == Cat(p0, chunk)
           done == Front(buf, k)
           rest == Rest(buf, k)
<1>1. buf \in Seq(S) /\ Len(buf) = Len(p0) + Len(chunk)
  BY CatType
<1> HIDE DEF buf
<1>2. done \in Seq(S) /\ rest \in Seq(S) /\ Cat(done, rest) = buf
  BY <1>1, FrontRest DEF buf
<1> HIDE DEF done, rest
<1>3. Len(buf) = Len(done) + Len(rest)
  BY <1>2, CatType
<1>4. Cat(x0, done) \in Seq(S) /\ Len(Cat(x0, done)) = Len(x0) + Len(done)
  BY <1>2, CatType
<1>5. Cat(Cat(x0, done), rest) = Cat(Cat(x0, p0), chunk)
  <2>1. Cat(Cat(x0, done), rest) = Cat(x0, buf)
    BY <1>2, CatAssociative
  <2>2. Cat(Cat(x0, p0), chunk) = Cat(x0, buf)
    BY CatAssociative DEF buf
  <2> QED
    BY <2>1, <2>2
<1>6. /\ Len(x0) \in Nat /\ Len(p0) \in Nat /\ Len(chunk) \in Nat
      /\ Len(done) \in Nat /\ Len(rest) \in Nat
  BY <1>2, LenProperties
<1>7. /\ Len(Cat(x0, done)) + Len(rest) = Len(x0) + Len(p0) + Len(chunk)
      /\ Len(Cat(x0, done)) \in Nat
  <2> DEFINE a == Len(x0)  b == Len(p0)  c == Len(chunk)  e == Len(done)
             f == Len(rest)  g == Len(buf)  h == Len(Cat(x0, done))
  <2>1. /\ a \in Nat /\ b \in Nat /\ c \in Nat /\ e \in Nat /\ f \in Nat
        /\ g = b + c /\ g = e + f /\ h = a + e
    BY <1>1, <1>3, <1>4, <1>6, Zenon
  <2> HIDE DEF a, b, c, e, f, g, h
  <2>2. h + f = (a + b) + c /\ h \in Nat
    BY <2>1
  <2> QED
    BY <2>2, Zenon DEF a, b, c, f, h
<1> QED
  BY <1>2, <1>4, <1>5, <1>6, <1>7 DEF done, rest, buf

\* Handle appends the chunk to what is pending, writes a first part of that, and
\* keeps the rest unless the write failed.
CopyEffect(d, chunk, isHup, found) ==
  \E x \in Seq(Bytes(d)), p \in Seq(Bytes(d)), er \in BOOLEAN :
    /\ dst' = [dst EXCEPT ![d] = x] /\ pend' = [pend EXCEPT ![d] = p]
    /\ got' = [got EXCEPT ![d] = got[d] \o chunk]
    /\ lost' = [lost EXCEPT ![d] = lost[d] \/ er]
    /\ Len(x) + Len(p) <= Len(dst[d]) + Len(pend[d]) + Len(chunk)
    /\ ~er => x \o p = (dst[d] \o pend[d]) \o chunk
    /\ closing' \in BOOLEAN
    /\ closing \/ found => closing'
    /\ closing' => closing \/ found \/ isHup \/ er

LEMMA CopyMoves ==
  ASSUME DataInv, closing \in BOOLEAN, lost \in [Directions -> BOOLEAN],
         NEW d \in Directions, NEW chunk \in Seq(Bytes(d)),
         NEW isHup \in BOOLEAN, NEW found \in BOOLEAN,
         Copy(d, chunk, isHup, found)
  PROVE  CopyEffect(d, chunk, isHup, found)
<1> DEFINE S == Bytes(d)
           buf == pend[d] \o chunk
<1>1. pend[d] \in Seq(S) /\ dst[d] \in Seq(S)
  BY DEF DataInv
<1>2. buf \in Seq(S) /\ Len(buf) = Len(pend[d]) + Len(chunk) /\ Len(buf) \in Nat
  BY <1>1, ConcatProperties, LenProperties
<1> HIDE DEF buf
<1>3. ASSUME NEW w \in WriteOutcomes(d, buf) PROVE w.taken \in 0 .. Len(buf) /\ w.error \in BOOLEAN
  <2> DEFINE full == [taken |-> Len(buf), error |-> FALSE]
             part == {[taken |-> k, error |-> FALSE] : k \in 0 .. Len(buf) - 1}
             fail == {[taken |-> k, error |-> TRUE] : k \in 0 .. Len(buf) - 1}
  <2> DEFINE OK(v) == v.taken \in 0 .. Len(buf) /\ v.error \in BOOLEAN
  <2>1. w = full \/ w \in part \/ w \in fail \/ (w = [taken |-> 0, error |-> TRUE] /\ buf # <<>>)
    BY <1>3 DEF WriteOutcomes
  <2>2. \A k \in 0 .. Len(buf), er \in BOOLEAN : OK([taken |-> k, error |-> er])
    OBVIOUS
  <2>3. \A k \in 0 .. Len(buf) - 1 : k \in 0 .. Len(buf)
    BY <1>2
  <2>4. Len(buf) \in 0 .. Len(buf) /\ 0 \in 0 .. Len(buf)
    BY <1>2
  <2>5. OK(full) /\ OK([taken |-> 0, error |-> TRUE])
    <3> HIDE DEF OK
    <3> QED
      BY <2>2, <2>4
  <2>6. (\A v \in part : OK(v)) /\ (\A v \in fail : OK(v))
    <3> HIDE DEF OK
    <3> QED
      BY <2>2, <2>3
  <2> HIDE DEF full, part, fail
  <2>7. OK(w)
    <3> HIDE DEF OK
    <3> QED
      BY <2>1, <2>5, <2>6
  <2> QED
    BY <2>7
<1>4. PICK k \in 0 .. Len(buf), er \in BOOLEAN :
        /\ dst' = [dst EXCEPT ![d] = dst[d] \o SubSeq(buf, 1, k)]
        /\ pend' = [pend EXCEPT ![d] = IF er THEN <<>> ELSE SubSeq(buf, k + 1, Len(buf))]
        /\ lost' = [lost EXCEPT ![d] = lost[d] \/ er]
        /\ got' = [got EXCEPT ![d] = got[d] \o chunk]
        /\ closing' \in BOOLEAN /\ (closing \/ found => closing')
        /\ closing' => closing \/ found \/ isHup \/ er
  <2>1. PICK w \in WriteOutcomes(d, buf) :
          /\ dst' = [dst EXCEPT ![d] = dst[d] \o SubSeq(buf, 1, w.taken)]
          /\ pend' = [pend EXCEPT ![d] = IF w.error THEN <<>> ELSE SubSeq(buf, w.taken + 1, Len(buf))]
          /\ lost' = [lost EXCEPT ![d] = lost[d] \/ w.error]
          /\ got' = [got EXCEPT ![d] = got[d] \o chunk]
          /\ closing' = (closing \/ CopierDone(w, buf, isHup, closing) \/ found)
    BY DEF Copy, DataInv, buf
  <2>2. w.taken \in 0 .. Len(buf) /\ w.error \in BOOLEAN
    BY <1>3
  <2>3. CopierDone(w, buf, isHup, closing) \in BOOLEAN
        /\ (CopierDone(w, buf, isHup, closing) => closing \/ isHup \/ w.error)
    BY <2>2 DEF CopierDone
  <2>4. /\ closing' \in BOOLEAN /\ (closing \/ found => closing')
        /\ closing' => closing \/ found \/ isHup \/ w.error
    BY <2>1, <2>3
  <2> QED
    BY <2>1, <2>2, <2>4
<1> DEFINE x == Cat(dst[d], Front(buf, k))
           rest == Rest(buf, k)
           p == IF er THEN <<>> ELSE rest
<1>5. /\ x \in Seq(S) /\ rest \in Seq(S)
      /\ Len(x) \in Nat /\ Len(rest) \in Nat
      /\ Len(x) + Len(rest) = Len(dst[d]) + Len(pend[d]) + Len(chunk)
      /\ Cat(x, rest) = Cat(Cat(dst[d], pend[d]), chunk)
  <2>1. buf = Cat(pend[d], chunk)
    BY DEF buf, Cat
  <2>2. k \in 0 .. Len(Cat(pend[d], chunk))
    BY <2>1
  <2> DEFINE xx == Cat(dst[d], Front(Cat(pend[d], chunk), k))
             rr == Rest(Cat(pend[d], chunk), k)
  <2>3. /\ xx \in Seq(S) /\ rr \in Seq(S)
        /\ Len(xx) + Len(rr) = Len(dst[d]) + Len(pend[d]) + Len(chunk)
        /\ Cat(xx, rr) = Cat(Cat(dst[d], pend[d]), chunk)
    <3> DEFINE x0 == dst[d]
               p0 == pend[d]
    <3>1. chunk \in Seq(S) /\ x0 \in Seq(S) /\ p0 \in Seq(S) /\ k \in 0 .. Len(Cat(p0, chunk))
      BY <1>1, <2>2 DEF S
    <3> HIDE DEF S, x0, p0
    <3>2. /\ Cat(x0, Front(Cat(p0, chunk), k)) \in Seq(S)
          /\ Rest(Cat(p0, chunk), k) \in Seq(S)
          /\ Len(Cat(x0, Front(Cat(p0, chunk), k))) + Len(Rest(Cat(p0, chunk), k))
               = Len(x0) + Len(p0) + Len(chunk)
          /\ Cat(Cat(x0, Front(Cat(p0, chunk), k)), Rest(Cat(p0, chunk), k))
               = Cat(Cat(x0, p0), chunk)
      BY <3>1, WriteMoves
    <3> QED
      BY <3>2, Zenon DEF x0, p0
  <2>4. Len(xx) \in Nat /\ Len(rr) \in Nat
    BY <2>3, LenProperties
  <2> QED
    BY <2>1, <2>3, <2>4, Zenon
<1>6. dst' = [dst EXCEPT ![d] = x] /\ pend' = [pend EXCEPT ![d] = p]
  BY <1>4 DEF Front, Rest, Cat
<1> HIDE DEF x, rest
<1>7. <<>> \in Seq(S) /\ Len(<<>>) = 0
  BY EmptySeq
<1>8. /\ p \in Seq(S) /\ Len(p) \in Nat /\ Len(p) <= Len(rest)
      /\ ~er => Cat(x, p) = Cat(Cat(dst[d], pend[d]), chunk)
  <2>1. ASSUME er PROVE p = <<>>
    BY <2>1
  <2>2. ASSUME ~er PROVE p = rest
    BY <2>2
  <2> HIDE DEF p
  <2>3. CASE er
    BY <1>5, <1>7, <2>1, <2>3
  <2>4. CASE ~er
    BY <1>5, <2>2, <2>4
  <2> QED
    BY <2>3, <2>4
<1>9. Len(x) + Len(p) <= Len(dst[d]) + Len(pend[d]) + Len(chunk)
  <2>1. Len(dst[d]) \in Nat /\ Len(pend[d]) \in Nat /\ Len(chunk) \in Nat
    BY <1>1, LenProperties
  <2>2. \A a, b, c, e, f, g \in Nat : a + f = (c + e) + g /\ b <= f => a + b <= (c + e) + g
    OBVIOUS
  <2> HIDE DEF p
  <2> QED
    BY <1>5, <1>8, <2>1, <2>2, Zenon
<1>10. ~er => x \o p = (dst[d] \o pend[d]) \o chunk
  <2> HIDE DEF p
  <2> QED
    BY <1>8, Zenon DEF Cat
<1> HIDE DEF p
<1> QED
  BY <1>4, <1>5, <1>6, <1>8, <1>9, <1>10 DEF CopyEffect

\* A step that moves bytes of one direction.
LEMMA DataMove ==
  ASSUME DataInv, NEW d \in Directions, UNCHANGED session,
         NEW w \in Seq(Bytes(d)), NEW g \in Seq(Bytes(d)),
         NEW p \in Seq(Bytes(d)), NEW x \in Seq(Bytes(d)),
         waiting' = [waiting EXCEPT ![d] = w], got' = [got EXCEPT ![d] = g],
         pend' = [pend EXCEPT ![d] = p], dst' = [dst EXCEPT ![d] = x],
         printed \in Nat, printed' \in Nat, printed <= printed',
         d = "in" => Len(g) + Len(w) <= session.in,
         d = "out" => Len(g) + Len(w) <= printed',
         Len(x) + Len(p) <= Len(g)
  PROVE  DataInv'
<1>1. Bytes(d)' = Bytes(d) /\ \A c \in Directions : Bytes(c)' = Bytes(c)
  BY DEF Bytes
<1>2. {w, g, p, x} \subseteq Seq(Keys \cup Nat)
  <2>1. Bytes(d) \subseteq Keys \cup Nat
    BY DEF Bytes
  <2> QED
    BY <2>1, SeqMonotonic
<1>3. \A v \in {waiting', got', pend', dst'} : v \in [Directions -> Seq(Keys \cup Nat)]
  <2>1. /\ waiting \in [Directions -> Seq(Keys \cup Nat)] /\ got \in [Directions -> Seq(Keys \cup Nat)]
        /\ pend \in [Directions -> Seq(Keys \cup Nat)] /\ dst \in [Directions -> Seq(Keys \cup Nat)]
    BY DEF DataInv
  <2>2. /\ waiting' \in [Directions -> Seq(Keys \cup Nat)] /\ got' \in [Directions -> Seq(Keys \cup Nat)]
        /\ pend' \in [Directions -> Seq(Keys \cup Nat)] /\ dst' \in [Directions -> Seq(Keys \cup Nat)]
    BY <1>2, <2>1
  <2> QED
    BY <2>2
<1>4. ASSUME NEW c \in Directions
      PROVE  /\ {waiting'[c], got'[c], pend'[c], dst'[c]} \subseteq Seq(Bytes(c)')
             /\ Len(dst'[c]) + Len(pend'[c]) <= Len(got'[c])
  <2>1. CASE c = d
    BY <1>1, <2>1 DEF DataInv
  <2>2. CASE c # d
    BY <1>1, <2>2 DEF DataInv
  <2> QED
    BY <2>1, <2>2
<1>5. \A c \in Directions : Len(got[c]) \in Nat /\ Len(waiting[c]) \in Nat
  BY LenProperties DEF DataInv
<1>6. /\ Len(got'["in"]) + Len(waiting'["in"]) <= session'.in
      /\ Len(got'["out"]) + Len(waiting'["out"]) <= printed'
  <2>1. CASE d = "in"
    BY <1>5, <2>1 DEF DataInv, Directions
  <2>2. CASE d = "out"
    BY <1>5, <2>2 DEF DataInv, Directions
  <2> QED
    BY <2>1, <2>2 DEF Directions
<1> QED
  BY <1>3, <1>4, <1>6 DEF DataInv
LEMMA SessionType ==
  ASSUME session \in Sessions
  PROVE  /\ session.in \in Nat /\ session.out \in Nat /\ session.sizes \in Nat
         /\ mode \in {"terminal", "pipe"}
BY TerminalPollAssumption DEF mode

\* A step of Handle: bytes are read, written and kept back in order.
Served(d, chunk, isHup, found) ==
  /\ DataInv' /\ ForwardsInOrder'
  /\ lost' \in [Directions -> BOOLEAN] /\ (\A c \in Directions : lost[c] => lost'[c])
  /\ got' = [got EXCEPT ![d] = got[d] \o chunk]
  /\ \A c \in Directions : c # d => pend'[c] = pend[c]
  /\ closing' \in BOOLEAN /\ (closing \/ found => closing')
  /\ closing' => closing \/ found \/ isHup \/ lost'[d]

LEMMA CopyStep ==
  ASSUME TypeInv, ForwardsInOrder, UNCHANGED <<session, printed>>,
         NEW d \in Directions, NEW chunk \in Seq(Bytes(d)), NEW w \in Seq(Bytes(d)),
         Len(chunk) + Len(w) = Len(waiting[d]),
         NEW isHup \in BOOLEAN, NEW found \in BOOLEAN,
         Copy(d, chunk, isHup, found), waiting' = [waiting EXCEPT ![d] = w]
  PROVE  Served(d, chunk, isHup, found)
<1>1. /\ DataInv /\ closing \in BOOLEAN /\ lost \in [Directions -> BOOLEAN]
      /\ printed \in Nat /\ printed' = printed
  <2>1. session.out \in Nat
    BY SessionType DEF TypeInv, RestOK
  <2> QED
    BY <2>1 DEF TypeInv, RestOK
<1>2. PICK x \in Seq(Bytes(d)), p \in Seq(Bytes(d)), er \in BOOLEAN :
        /\ dst' = [dst EXCEPT ![d] = x] /\ pend' = [pend EXCEPT ![d] = p]
        /\ got' = [got EXCEPT ![d] = got[d] \o chunk]
        /\ lost' = [lost EXCEPT ![d] = lost[d] \/ er]
        /\ Len(x) + Len(p) <= Len(dst[d]) + Len(pend[d]) + Len(chunk)
        /\ ~er => x \o p = (dst[d] \o pend[d]) \o chunk
        /\ closing' \in BOOLEAN
        /\ closing \/ found => closing'
        /\ closing' => closing \/ found \/ isHup \/ er
  <2>1. CopyEffect(d, chunk, isHup, found)
    BY <1>1, CopyMoves
  <2> QED
    BY <2>1 DEF CopyEffect
<1> DEFINE g == got[d] \o chunk
<1>3. g \in Seq(Bytes(d)) /\ Len(g) = Len(got[d]) + Len(chunk)
  <2>1. got[d] \in Seq(Bytes(d))
    BY <1>1 DEF DataInv
  <2> QED
    BY <2>1, ConcatProperties
<1>4. got' = [got EXCEPT ![d] = g]
  BY <1>2
<1> HIDE DEF g
<1>5. /\ Len(got[d]) \in Nat /\ Len(waiting[d]) \in Nat /\ Len(dst[d]) \in Nat /\ Len(pend[d]) \in Nat
      /\ Len(chunk) \in Nat /\ Len(w) \in Nat /\ Len(x) \in Nat /\ Len(p) \in Nat
  <2>1. /\ got[d] \in Seq(Bytes(d)) /\ waiting[d] \in Seq(Bytes(d)) /\ dst[d] \in Seq(Bytes(d))
        /\ pend[d] \in Seq(Bytes(d))
    BY <1>1 DEF DataInv
  <2> QED
    BY <2>1, LenProperties
<1>6. /\ d = "in" => Len(g) + Len(w) <= session.in
      /\ d = "out" => Len(g) + Len(w) <= printed'
      /\ Len(x) + Len(p) <= Len(g)
  <2> DEFINE lg == Len(g)  lw == Len(w)  lo == Len(got[d])  lc == Len(chunk)  ls == Len(waiting[d])
             lx == Len(x)  lp == Len(p)  lx0 == Len(dst[d])  lp0 == Len(pend[d])
  <2>0. /\ lg = lo + lc /\ lc + lw = ls /\ lx0 + lp0 <= lo /\ lx + lp <= (lx0 + lp0) + lc
        /\ lo \in Nat /\ ls \in Nat /\ lx0 \in Nat /\ lp0 \in Nat /\ lc \in Nat /\ lw \in Nat
        /\ lx \in Nat /\ lp \in Nat
    <3>1. lx0 + lp0 <= lo
      BY <1>1, Zenon DEF DataInv
    <3> QED
      BY <1>2, <1>3, <1>5, <3>1, Zenon
  <2> HIDE DEF lg, lw, lo, lc, ls, lx, lp, lx0, lp0
  <2>1. lg + lw = lo + ls
    BY <2>0
  <2>3. /\ d = "in" => lo + ls <= session.in
        /\ d = "out" => lo + ls <= printed
    BY <1>1 DEF DataInv, lo, ls
  <2>4. lx + lp <= lg
    BY <2>0
  <2>5. /\ d = "in" => lg + lw <= session.in
        /\ d = "out" => lg + lw <= printed'
    BY <1>1, <2>1, <2>3
  <2> QED
    BY <2>4, <2>5, Zenon DEF lg, lw, lx, lp
<1>7. DataInv'
  <2>1. printed <= printed' /\ printed' \in Nat
    BY <1>1
  <2> QED
    BY <1>1, <1>2, <1>3, <1>4, <1>6, <2>1, DataMove
<1>8. lost' \in [Directions -> BOOLEAN] /\ lost'[d] = (lost[d] \/ er)
        /\ \A c \in Directions : (lost[c] => lost'[c]) /\ (c # d => lost'[c] = lost[c])
  BY <1>1, <1>2
<1>9. /\ pend'[d] = p /\ dst'[d] = x /\ got'[d] = g
      /\ \A c \in Directions : c # d => pend'[c] = pend[c] /\ dst'[c] = dst[c] /\ got'[c] = got[c]
  <2>1. /\ got \in [Directions -> Seq(Keys \cup Nat)] /\ pend \in [Directions -> Seq(Keys \cup Nat)]
        /\ dst \in [Directions -> Seq(Keys \cup Nat)]
    BY <1>1 DEF DataInv
  <2> QED
    BY <1>2, <1>4, <2>1
<1>10. ForwardsInOrder'
  <2> SUFFICES ASSUME NEW c \in Directions, ~lost'[c] PROVE got'[c] = dst'[c] \o pend'[c]
    BY DEF ForwardsInOrder
  <2>1. got[c] = dst[c] \o pend[c]
    BY <1>8 DEF ForwardsInOrder
  <2>2. CASE c = d
    <3>1. ~er
      BY <1>8, <2>2
    <3>2. x \o p = (dst[d] \o pend[d]) \o chunk
      BY <1>2, <3>1
    <3> QED
      BY <1>9, <2>1, <2>2, <3>2, Zenon DEF g
  <2>3. CASE c # d
    BY <1>9, <2>1, <2>3, Zenon
  <2> QED
    BY <2>2, <2>3
<1> QED
  BY <1>2, <1>7, <1>8, <1>9, <1>10 DEF Served

\* A step that only adds to the bytes waiting in one source, or takes them away.
LEMMA WaitingMoves ==
  ASSUME TypeInv, ForwardsInOrder, UNCHANGED <<got, pend, dst, lost, session>>,
         NEW d \in Directions, NEW w \in Seq(Bytes(d)), waiting' = [waiting EXCEPT ![d] = w],
         printed' \in Nat, printed <= printed',
         d = "in" => Len(got[d]) + Len(w) <= session.in,
         d = "out" => Len(got[d]) + Len(w) <= printed'
  PROVE  DataInv' /\ ForwardsInOrder'
<1>1. DataInv /\ printed \in Nat
  <2>1. session.out \in Nat
    BY SessionType DEF TypeInv, RestOK
  <2> QED
    BY <2>1 DEF TypeInv, RestOK
<1>2. /\ got[d] \in Seq(Bytes(d)) /\ pend[d] \in Seq(Bytes(d)) /\ dst[d] \in Seq(Bytes(d))
      /\ Len(dst[d]) + Len(pend[d]) <= Len(got[d])
  BY <1>1 DEF DataInv
<1>3. /\ got' = [got EXCEPT ![d] = got[d]] /\ pend' = [pend EXCEPT ![d] = pend[d]]
      /\ dst' = [dst EXCEPT ![d] = dst[d]]
  BY <1>1 DEF DataInv
<1>4. DataInv'
  BY <1>1, <1>2, <1>3, DataMove
<1> QED
  BY <1>4 DEF ForwardsInOrder

LEMMA DataStays ==
  ASSUME TypeInv, ForwardsInOrder, UNCHANGED <<dataVars, session, printed>>
  PROVE  DataInv' /\ ForwardsInOrder' /\ lost' \in [Directions -> BOOLEAN]
<1>1. UNCHANGED <<waiting, got, pend, dst, lost>>
  BY DEF dataVars
<1>2. \A d : Bytes(d)' = Bytes(d)
  BY DEF Bytes
<1>3. DataInv'
  BY <1>1, <1>2 DEF TypeInv, DataInv
<1> QED
  BY <1>1, <1>3 DEF ForwardsInOrder, TypeInv, RestOK

LEMMA DataUserEnters ==
  ASSUME TypeInv, ForwardsInOrder, UserEnters
  PROVE  DataInv' /\ ForwardsInOrder' /\ lost' \in [Directions -> BOOLEAN]
<1>1. PICK k \in Keys : waiting' = [waiting EXCEPT !["in"] = Append(waiting["in"], k)]
  BY TerminalPollAssumption DEF UserEnters
<1>2. /\ UNCHANGED <<got, pend, dst, lost, session, printed>> /\ "in" \in Directions
      /\ Len(got["in"] \o waiting["in"]) < session.in
  BY DEF UserEnters, loopVars, Directions
<1>3. got["in"] \in Seq(Bytes("in")) /\ waiting["in"] \in Seq(Bytes("in")) /\ k \in Bytes("in")
  BY <1>2 DEF TypeInv, DataInv, Bytes
<1> DEFINE w == Append(waiting["in"], k)
<1>4. w \in Seq(Bytes("in")) /\ Len(w) = Len(waiting["in"]) + 1
  BY <1>3, AppendProperties
<1>5. Len(got["in"] \o waiting["in"]) = Len(got["in"]) + Len(waiting["in"])
  BY <1>3, ConcatProperties
<1>6. Len(got["in"]) \in Nat /\ Len(waiting["in"]) \in Nat /\ session.in \in Nat /\ session.out \in Nat
  BY <1>3, LenProperties, SessionType DEF TypeInv, RestOK
<1> HIDE DEF w
<1>7. Len(got["in"]) + Len(w) <= session.in
  <2>1. \A a, b, c, e \in Nat : a + b < c /\ e = b + 1 => a + e <= c
    OBVIOUS
  <2>2. Len(w) \in Nat
    BY <1>4, <1>6
  <2> QED
    BY <1>2, <1>4, <1>5, <1>6, <2>1, <2>2
<1>8. printed' \in Nat /\ printed <= printed'
  BY <1>2, <1>6 DEF TypeInv, RestOK
<1>9. waiting' = [waiting EXCEPT !["in"] = w]
  BY <1>1 DEF w
<1>10. DataInv' /\ ForwardsInOrder'
  BY <1>2, <1>4, <1>7, <1>8, <1>9, WaitingMoves
<1> QED
  BY <1>2, <1>10 DEF TypeInv, RestOK

LEMMA DataGuestPrints ==
  ASSUME TypeInv, ForwardsInOrder, GuestPrints
  PROVE  DataInv' /\ ForwardsInOrder' /\ lost' \in [Directions -> BOOLEAN]
<1> DEFINE k == printed + 1
           w == Append(waiting["out"], k)
<1>1. waiting' = [waiting EXCEPT !["out"] = w] /\ printed' = printed + 1 /\ printed < session.out
  BY DEF GuestPrints
<1>2. UNCHANGED <<got, pend, dst, lost, session>> /\ "out" \in Directions
  BY DEF GuestPrints, loopVars, Directions
<1>3. printed \in Nat /\ session.out \in Nat
  <2>1. session.out \in Nat
    BY SessionType DEF TypeInv, RestOK
  <2> QED
    BY <2>1 DEF TypeInv, RestOK
<1>4. got["out"] \in Seq(Bytes("out")) /\ waiting["out"] \in Seq(Bytes("out")) /\ k \in Bytes("out")
  <2>1. k \in 1 .. session.out
    BY <1>1, <1>3
  <2> QED
    BY <1>2, <2>1 DEF TypeInv, DataInv, Bytes
<1> HIDE DEF k
<1>5. w \in Seq(Bytes("out")) /\ Len(w) = Len(waiting["out"]) + 1
  BY <1>4, AppendProperties
<1> HIDE DEF w
<1>6. Len(got["out"]) \in Nat /\ Len(waiting["out"]) \in Nat
        /\ Len(got["out"]) + Len(waiting["out"]) <= printed
  BY <1>4, LenProperties DEF TypeInv, DataInv
<1>7. Len(got["out"]) + Len(w) <= printed'
  <2>1. \A a, b, c, e \in Nat : a + b <= c /\ e = b + 1 => a + e <= c + 1
    OBVIOUS
  <2>2. Len(w) \in Nat
    BY <1>5, <1>6
  <2>3. Len(got["out"]) + Len(w) <= printed + 1
    BY <1>3, <1>5, <1>6, <2>1, <2>2, Zenon
  <2> QED
    BY <1>1, <2>3, Zenon
<1>8. printed' \in Nat /\ printed <= printed'
  BY <1>1, <1>3
<1>9. DataInv' /\ ForwardsInOrder'
  BY <1>1, <1>2, <1>5, <1>7, <1>8, WaitingMoves
<1> QED
  BY <1>2, <1>9 DEF TypeInv, RestOK

\* The bytes waiting in one source are dropped, or nothing happens to them.
LEMMA WaitingDropped ==
  ASSUME TypeInv, ForwardsInOrder, UNCHANGED <<got, pend, dst, lost, session, printed>>,
         NEW d \in Directions, waiting' \in {waiting, [waiting EXCEPT ![d] = <<>>]}
  PROVE  DataInv' /\ ForwardsInOrder' /\ lost' \in [Directions -> BOOLEAN]
<1>1. DataInv /\ printed \in Nat /\ lost \in [Directions -> BOOLEAN]
  <2>1. session.out \in Nat
    BY SessionType DEF TypeInv, RestOK
  <2> QED
    BY <2>1 DEF TypeInv, RestOK
<1>2. CASE waiting' = waiting
  BY <1>2, DataStays DEF dataVars
<1>3. CASE waiting' = [waiting EXCEPT ![d] = <<>>]
  <2>1. <<>> \in Seq(Bytes(d)) /\ Len(<<>>) = 0
    BY EmptySeq
  <2>2. got[d] \in Seq(Bytes(d)) /\ waiting[d] \in Seq(Bytes(d))
    BY <1>1 DEF DataInv
  <2>3. Len(got[d]) \in Nat /\ Len(waiting[d]) \in Nat
    BY <2>2, LenProperties
  <2>4. /\ d = "in" => Len(got[d]) + Len(<<>>) <= session.in
        /\ d = "out" => Len(got[d]) + Len(<<>>) <= printed'
    <3>1. \A a, b, c \in Nat : a + b <= c => a + 0 <= c
      OBVIOUS
    <3>2. /\ session.in \in Nat
          /\ Len(got["in"]) + Len(waiting["in"]) <= session.in
          /\ Len(got["out"]) + Len(waiting["out"]) <= printed
      BY <1>1, SessionType DEF TypeInv, RestOK, DataInv
    <3>3. ASSUME d = "in" PROVE Len(got[d]) + Len(<<>>) <= session.in
      BY <2>1, <2>3, <3>1, <3>2, <3>3, Zenon
    <3>4. ASSUME d = "out" PROVE Len(got[d]) + Len(<<>>) <= printed'
      BY <1>1, <2>1, <2>3, <3>1, <3>2, <3>4, Zenon
    <3> QED
      BY <3>3, <3>4
  <2>5. printed' \in Nat /\ printed <= printed'
    BY <1>1
  <2>6. DataInv' /\ ForwardsInOrder'
    BY <1>3, <2>1, <2>4, <2>5, WaitingMoves
  <2> QED
    BY <1>1, <2>6
<1> QED
  BY <1>2, <1>3

LEMMA GotGrows ==
  ASSUME TypeInv, NEW d \in Directions, NEW chunk \in Seq(Bytes(d)),
         got' = [got EXCEPT ![d] = got[d] \o chunk]
  PROVE  EscapeSeen(got["in"]) => EscapeSeen(got'["in"])
<1>1. "in" \in Directions /\ got \in [Directions -> Seq(Keys \cup Nat)]
  BY DEF TypeInv, DataInv, Directions
<1>2. CASE d = "in"
  <2>1. got["in"] \in Seq(Bytes("in")) /\ chunk \in Seq(Bytes("in"))
    BY <1>1, <1>2 DEF TypeInv, DataInv
  <2>2. got'["in"] = got["in"] \o chunk
    BY <1>1, <1>2
  <2> QED
    BY <2>1, <2>2, PrefixEscapes
<1>3. CASE d # "in"
  BY <1>1, <1>3
<1> QED
  BY <1>2, <1>3

\* Handle without new bytes.
LEMMA DataRetry ==
  ASSUME TypeInv, ForwardsInOrder, NEW d \in Directions, Copy(d, <<>>, FALSE, FALSE),
         UNCHANGED <<session, printed, waiting>>
  PROVE  Served(d, <<>>, FALSE, FALSE) /\ got' = got
<1>1. /\ waiting \in [Directions -> Seq(Keys \cup Nat)] /\ waiting[d] \in Seq(Bytes(d))
      /\ got \in [Directions -> Seq(Keys \cup Nat)] /\ got[d] \in Seq(Bytes(d))
  BY DEF TypeInv, DataInv
<1>2. waiting' = [waiting EXCEPT ![d] = waiting[d]]
  BY <1>1
<1>3. <<>> \in Seq(Bytes(d)) /\ Len(<<>>) + Len(waiting[d]) = Len(waiting[d])
  <2>1. Len(waiting[d]) \in Nat /\ Len(<<>>) = 0
    BY <1>1, LenProperties, EmptySeq
  <2> QED
    BY <2>1, EmptySeq
<1>4. Served(d, <<>>, FALSE, FALSE)
  BY <1>1, <1>2, <1>3, CopyStep
<1>5. got' = got
  <2>1. got[d] \o <<>> = got[d]
    BY <1>1, ConcatEmptySeq
  <2>2. got' = [got EXCEPT ![d] = got[d] \o <<>>]
    BY <1>4 DEF Served
  <2>3. got' = [got EXCEPT ![d] = got[d]]
    BY <2>1, <2>2, Zenon
  <2> QED
    BY <1>1, <2>3
<1> QED
  BY <1>4, <1>5

LEMMA DataFlush ==
  ASSUME TypeInv, ForwardsInOrder, FlushPending
  PROVE  \E d \in Polled : /\ Served(d, <<>>, FALSE, FALSE) /\ d \in Directions
                           /\ got' = got
<1>1. PICK d \in Polled : Copy(d, <<>>, FALSE, FALSE)
  BY DEF FlushPending
<1>2. d \in Directions
  BY DEF Polled, Directions
<1>3. UNCHANGED <<session, printed, waiting>>
  BY DEF FlushPending, envVars
<1> QED
  BY <1>1, <1>2, <1>3, DataRetry

LEMMA DataUnblock ==
  ASSUME TypeInv, ForwardsInOrder, Unblock
  PROVE  Served("in", <<>>, FALSE, FALSE) /\ got' = got
<1>1. "in" \in Directions /\ Copy("in", <<>>, FALSE, FALSE) /\ UNCHANGED <<session, printed, waiting>>
  BY DEF Unblock, envVars, Directions
<1> QED
  BY <1>1, DataRetry

\* What the handlers find in one read: the escape sequence, or the hang-up.
Found(e) == e.of = "in" /\ (Escape(step, Chunked("in")).hit \/ e.hup)

LEMMA DataDispatch ==
  ASSUME TypeInv, ForwardsInOrder, NEW e \in batch, Dispatch(e)
  PROVE  /\ e.of \in Directions /\ e.hup \in BOOLEAN
         /\ Chunked(e.of) \in Seq(Bytes(e.of))
         /\ Served(e.of, Chunked(e.of), e.hup, Found(e))
         /\ step' = IF e.of = "in" THEN Escape(step, Chunked("in")).step ELSE step
         /\ Escape(step, Chunked("in")).hit \in BOOLEAN
         /\ Escape(step, Chunked("in")).step \in 0 .. 1
<1> DEFINE d == e.of
           chunk == Chunked(d)
           scan == IF d = "in" THEN Escape(step, chunk) ELSE [step |-> step, hit |-> FALSE]
           found == d = "in" /\ (scan.hit \/ e.hup)
<1>1. e.of \in Directions /\ e.hup \in BOOLEAN
  BY DEF TypeInv, RestOK, Events, Dispatch
<1>2. /\ Copy(d, chunk, e.hup, found) /\ waiting' = [waiting EXCEPT ![d] = Unread(d, chunk)]
      /\ step' = scan.step /\ UNCHANGED <<session, printed>>
  BY DEF Dispatch, envVars
<1>3. waiting[d] \in Seq(Bytes(d)) /\ waiting["in"] \in Seq(Keys)
  BY <1>1 DEF TypeInv, DataInv, Directions, Bytes
<1>4. /\ chunk \in Seq(Bytes(d)) /\ Unread(d, chunk) \in Seq(Bytes(d))
      /\ Len(chunk) + Len(Unread(d, chunk)) = Len(waiting[d])
  BY <1>1, <1>3, ChunkSplit
<1>5. /\ Escape(step, Chunked("in")).hit \in BOOLEAN
      /\ Escape(step, Chunked("in")).step \in 0 .. 1
  <2>1. Chunked("in") \in Seq(Keys)
    BY <1>3, ChunkSplit DEF Directions
  <2>2. PICK f : IsScan(f, step, Chunked("in")) /\ Escape(step, Chunked("in")) = f[Len(Chunked("in"))]
    BY <2>1, EscapeScans DEF TypeInv, RestOK
  <2>3. Len(Chunked("in")) \in 0 .. Len(Chunked("in"))
    BY <2>1, LenProperties
  <2>4. f[Len(Chunked("in"))] \in Scanned
    BY <2>2, <2>3 DEF IsScan
  <2> QED
    BY <2>2, <2>4 DEF Scanned
<1>6. found \in BOOLEAN /\ found = Found(e)
  <2>1. CASE d = "in"
    BY <1>1, <1>5, <2>1 DEF Found
  <2>2. CASE d # "in"
    BY <2>2 DEF Found
  <2> QED
    BY <2>1, <2>2
<1>7. step' = IF d = "in" THEN Escape(step, Chunked("in")).step ELSE step
  BY <1>2
<1> HIDE DEF d, chunk, scan, found
<1>8. Served(d, chunk, e.hup, found)
  BY <1>1, <1>2, <1>4, <1>6, CopyStep DEF d
<1> QED
  BY <1>1, <1>4, <1>5, <1>6, <1>7, <1>8 DEF d, chunk

LEMMA DataDrain ==
  ASSUME TypeInv, ForwardsInOrder, Drain
  PROVE  Served("out", waiting["out"], FALSE, FALSE) /\ waiting["out"] \in Seq(Bytes("out"))
<1>1. /\ Copy("out", waiting["out"], FALSE, FALSE) /\ waiting' = [waiting EXCEPT !["out"] = <<>>]
      /\ UNCHANGED <<session, printed>>
  BY DEF Drain, envVars
<1>2. "out" \in Directions /\ waiting["out"] \in Seq(Bytes("out"))
  BY DEF TypeInv, DataInv, Directions
<1>3. <<>> \in Seq(Bytes("out")) /\ Len(waiting["out"]) + Len(<<>>) = Len(waiting["out"])
  <2>1. Len(waiting["out"]) \in Nat /\ Len(<<>>) = 0
    BY <1>2, LenProperties, EmptySeq
  <2> QED
    BY <2>1, EmptySeq
<1> QED
  BY <1>1, <1>2, <1>3, CopyStep

\* The goroutine of a pipe reads only when the bytes read before are written.
LEMMA DataCopierReads ==
  ASSUME TypeInv, RoleInv, ForwardsInOrder, CopierReads
  PROVE  /\ DataInv' /\ ForwardsInOrder' /\ lost' \in [Directions -> BOOLEAN]
         /\ EscapeSeen(got["in"]) => EscapeSeen(got'["in"])
<1>1. UNCHANGED <<session, printed, dst, lost>>
  BY DEF CopierReads, envVars
<1>2. CASE UNCHANGED <<waiting, got, pend>>
  <2>1. UNCHANGED <<dataVars, session, printed>>
    BY <1>1, <1>2 DEF dataVars
  <2> QED
    BY <1>2, <2>1, DataStays
<1>3. CASE copier' = "write"
  <2> DEFINE chunk == Chunked("in")
             w == Unread("in", chunk)
             g == got["in"] \o chunk
  <2>1. /\ waiting' = [waiting EXCEPT !["in"] = w] /\ got' = [got EXCEPT !["in"] = g]
        /\ pend' = [pend EXCEPT !["in"] = chunk] /\ copier = "read"
    BY <1>3 DEF CopierReads
  <2>2. /\ "in" \in Directions /\ waiting["in"] \in Seq(Bytes("in")) /\ got["in"] \in Seq(Bytes("in"))
        /\ dst["in"] \in Seq(Bytes("in")) /\ pend["in"] \in Seq(Bytes("in"))
        /\ dst = [dst EXCEPT !["in"] = dst["in"]]
    BY DEF TypeInv, DataInv, Directions
  <2>3. /\ chunk \in Seq(Bytes("in")) /\ w \in Seq(Bytes("in"))
        /\ Len(chunk) + Len(w) = Len(waiting["in"])
    BY <2>2, ChunkSplit
  <2> HIDE DEF w, chunk
  <2>4. g \in Seq(Bytes("in")) /\ Len(g) = Len(got["in"]) + Len(chunk)
    BY <2>2, <2>3, ConcatProperties
  <2>5. got' = [got EXCEPT !["in"] = got["in"] \o chunk]
    BY <2>1
  <2> HIDE DEF g
  <2>6. /\ Len(g) + Len(w) <= session.in
        /\ Len(dst["in"]) + Len(chunk) <= Len(g)
    <3> DEFINE lg == Len(g)  lw == Len(w)  lo == Len(got["in"])  lc == Len(chunk)
               ls == Len(waiting["in"])  lx == Len(dst["in"])  lp == Len(pend["in"])
    <3>1. /\ lg = lo + lc /\ lc + lw = ls
          /\ lo \in Nat /\ lc \in Nat /\ ls \in Nat /\ lw \in Nat /\ lx \in Nat /\ lp \in Nat
      BY <2>2, <2>3, <2>4, LenProperties
    <3>2. lo + ls <= session.in /\ lx + lp <= lo /\ session.in \in Nat
      BY <2>2, SessionType DEF TypeInv, DataInv, RestOK
    <3> HIDE DEF lg, lw, lo, lc, ls, lx, lp
    <3>3. lg + lw <= session.in /\ lx + lc <= lg
      BY <3>1, <3>2
    <3> QED
      BY <3>3, Zenon DEF lg, lw, lx, lc
  <2>7. DataInv'
    <3>1. printed \in Nat /\ printed' \in Nat /\ printed <= printed' /\ dst' = [dst EXCEPT !["in"] = dst["in"]]
      <4>1. session.out \in Nat
        BY SessionType DEF TypeInv, RestOK
      <4> QED
        BY <1>1, <2>2, <4>1 DEF TypeInv, RestOK
    <3> QED
      BY <1>1, <2>1, <2>2, <2>3, <2>4, <2>6, <3>1, DataMove DEF TypeInv
  <2>8. pend["in"] = <<>>
    <3>1. mode = "pipe" /\ copier # "write"
      BY <2>1 DEF RoleInv
    <3> QED
      BY <3>1 DEF RoleInv
  <2>9. dst["in"] \o <<>> = dst["in"]
    BY <2>2, ConcatEmptySeq
  <2>10. /\ pend'["in"] = chunk /\ got'["in"] = g
         /\ \A c \in Directions : c # "in" => pend'[c] = pend[c] /\ got'[c] = got[c]
    <3>1. got \in [Directions -> Seq(Keys \cup Nat)] /\ pend \in [Directions -> Seq(Keys \cup Nat)]
      BY DEF TypeInv, DataInv
    <3> QED
      BY <2>1, <2>2, <3>1
  <2>11. ForwardsInOrder'
    <3> SUFFICES ASSUME NEW c \in Directions, ~lost'[c] PROVE got'[c] = dst'[c] \o pend'[c]
      BY DEF ForwardsInOrder
    <3>1. got[c] = dst[c] \o pend[c]
      BY <1>1 DEF ForwardsInOrder
    <3>2. CASE c = "in"
      <4>1. got["in"] = dst["in"]
        BY <2>8, <2>9, <3>1, <3>2, Zenon
      <4> QED
        BY <1>1, <2>10, <3>2, <4>1, Zenon DEF g
    <3>3. CASE c # "in"
      BY <1>1, <2>10, <3>1, <3>3, Zenon
    <3> QED
      BY <3>2, <3>3
  <2>12. EscapeSeen(got["in"]) => EscapeSeen(got'["in"])
    BY <2>2, <2>3, <2>5, GotGrows
  <2> QED
    BY <1>1, <2>7, <2>11, <2>12 DEF TypeInv, RestOK
<1> QED
  BY <1>2, <1>3 DEF CopierReads

LEMMA DataCopierPuts ==
  ASSUME TypeInv, ForwardsInOrder, NEW n \in 0 .. Len(pend["in"]), CopierPuts(n)
  PROVE  /\ DataInv' /\ ForwardsInOrder' /\ lost' \in [Directions -> BOOLEAN]
         /\ \A c \in Directions : lost[c] => lost'[c]
         /\ pend'["in"] = <<>>
<1>1. UNCHANGED <<session, printed, got, waiting>>
  BY DEF CopierPuts, envVars
<1>2. /\ "in" \in Directions /\ waiting["in"] \in Seq(Bytes("in")) /\ got["in"] \in Seq(Bytes("in"))
      /\ dst["in"] \in Seq(Bytes("in")) /\ pend["in"] \in Seq(Bytes("in"))
      /\ got = [got EXCEPT !["in"] = got["in"]] /\ waiting = [waiting EXCEPT !["in"] = waiting["in"]]
  BY DEF TypeInv, DataInv, Directions
<1>3. Len(pend["in"]) \in Nat /\ Len(dst["in"]) \in Nat /\ Len(got["in"]) \in Nat
  BY <1>2, LenProperties
<1>4. /\ dst' = [dst EXCEPT !["in"] = dst["in"] \o SubSeq(pend["in"], 1, n)]
      /\ lost' = [lost EXCEPT !["in"] = lost["in"] \/ n < Len(pend["in"])]
  BY DEF CopierPuts
<1>5. pend' = [pend EXCEPT !["in"] = <<>>]
  BY DEF CopierPuts
<1> DEFINE x == Cat(dst["in"], Front(pend["in"], n))
<1>6. /\ Front(pend["in"], n) \in Seq(Bytes("in")) /\ Len(Front(pend["in"], n)) = n
      /\ n = Len(pend["in"]) => Front(pend["in"], n) = pend["in"]
  <2>1. Front(pend["in"], n) \in Seq(Bytes("in")) /\ Len(Front(pend["in"], n)) = n
    BY <1>2, SeqSplit DEF Front
  <2>2. SubSeq(pend["in"], 1, Len(pend["in"])) = pend["in"]
    BY <1>2, SubSeqFull
  <2> QED
    BY <2>1, <2>2, Zenon DEF Front
<1>7. x \in Seq(Bytes("in")) /\ Len(x) = Len(dst["in"]) + n
  <2> DEFINE y == dst["in"]
             z == Front(pend["in"], n)
             S == Bytes("in")
  <2>1. y \in Seq(S) /\ z \in Seq(S) /\ Len(z) = n
    BY <1>2, <1>6
  <2> HIDE DEF y, z, S
  <2>2. Cat(y, z) \in Seq(S) /\ Len(Cat(y, z)) = Len(y) + Len(z)
    BY <2>1, CatType
  <2> QED
    BY <2>1, <2>2, Zenon DEF y, z, S
<1>8. dst' = [dst EXCEPT !["in"] = x]
  BY <1>4 DEF Front, Cat
<1> HIDE DEF x
<1>9. <<>> \in Seq(Bytes("in")) /\ Len(<<>>) = 0
  BY EmptySeq
<1>10. Len(x) + Len(<<>>) <= Len(got["in"])
  <2>1. Len(dst["in"]) + Len(pend["in"]) <= Len(got["in"])
    BY <1>2 DEF TypeInv, DataInv
  <2>2. \A a, b, c \in Nat : \A k \in 0 .. b : a + b <= c => (a + k) + 0 <= c
    OBVIOUS
  <2> QED
    BY <1>3, <1>7, <1>9, <2>1, <2>2, Zenon
<1>11. DataInv'
  <2>1. /\ printed \in Nat /\ printed' \in Nat /\ printed <= printed'
        /\ got' = [got EXCEPT !["in"] = got["in"]] /\ waiting' = [waiting EXCEPT !["in"] = waiting["in"]]
    <3>1. session.out \in Nat
      BY SessionType DEF TypeInv, RestOK
    <3> QED
      BY <1>1, <1>2, <3>1 DEF TypeInv, RestOK
  <2>2. Len(got["in"]) + Len(waiting["in"]) <= session.in
    BY DEF TypeInv, DataInv
  <2> QED
    BY <1>1, <1>2, <1>5, <1>7, <1>8, <1>9, <1>10, <2>1, <2>2, DataMove DEF TypeInv
<1>12. /\ lost' \in [Directions -> BOOLEAN] /\ (\A c \in Directions : lost[c] => lost'[c])
       /\ \A c \in Directions : c # "in" => lost'[c] = lost[c]
       /\ ~lost'["in"] => ~lost["in"] /\ n = Len(pend["in"])
  <2>1. lost \in [Directions -> BOOLEAN]
    BY DEF TypeInv, RestOK
  <2>2. ~(n < Len(pend["in"])) => n = Len(pend["in"])
    BY <1>3
  <2>3. lost'["in"] = (lost["in"] \/ n < Len(pend["in"]))
    BY <1>2, <1>4, <2>1
  <2> QED
    BY <1>2, <1>4, <2>1, <2>2, <2>3
<1>13. /\ pend'["in"] = <<>> /\ dst'["in"] = x
       /\ \A c \in Directions : c # "in" => pend'[c] = pend[c] /\ dst'[c] = dst[c]
  <2>1. dst \in [Directions -> Seq(Keys \cup Nat)] /\ pend \in [Directions -> Seq(Keys \cup Nat)]
    BY DEF TypeInv, DataInv
  <2> QED
    BY <1>2, <1>5, <1>8, <2>1
<1>14. ForwardsInOrder'
  <2> SUFFICES ASSUME NEW c \in Directions, ~lost'[c] PROVE got'[c] = dst'[c] \o pend'[c]
    BY DEF ForwardsInOrder
  <2>1. CASE c = "in"
    <3>1. got["in"] = Cat(dst["in"], pend["in"])
      BY <1>2, <1>12, <2>1 DEF ForwardsInOrder, Cat
    <3>2. x = Cat(dst["in"], pend["in"])
      BY <1>6, <1>12, <2>1, Zenon DEF x
    <3>3. x \o <<>> = x
      BY <1>7, ConcatEmptySeq
    <3> QED
      BY <1>1, <1>13, <2>1, <3>1, <3>2, <3>3, Zenon
  <2>2. CASE c # "in"
    <3>1. got[c] = dst[c] \o pend[c]
      BY <1>12, <2>2 DEF ForwardsInOrder
    <3> QED
      BY <1>1, <1>13, <2>2, <3>1, Zenon
  <2> QED
    BY <2>1, <2>2
<1> QED
  BY <1>11, <1>12, <1>13, <1>14

\* What the writes of the copier leave alone.
LEMMA DataCopierWrites ==
  ASSUME TypeInv, ForwardsInOrder, CopierWrites \/ CopierGivesUp
  PROVE  /\ DataInv' /\ ForwardsInOrder' /\ lost' \in [Directions -> BOOLEAN]
         /\ \A c \in Directions : lost[c] => lost'[c]
         /\ pend'["in"] = <<>> /\ copier = "write"
         /\ copier' = "read" \/ (copier' = "cancel" /\ hup["out"])
         /\ UNCHANGED <<pc, batch, closing, step, waiting, got, ctx, err, envVars, windowVars>>
<1>1. Len(pend["in"]) \in Nat
  <2>1. pend["in"] \in Seq(Bytes("in"))
    BY DEF TypeInv, DataInv, Directions
  <2> QED
    BY <2>1, LenProperties
<1>2. PICK n \in 0 .. Len(pend["in"]) : CopierPuts(n)
  <2>1. /\ 0 \in 0 .. Len(pend["in"]) /\ Len(pend["in"]) \in 0 .. Len(pend["in"])
        /\ 0 .. Len(pend["in"]) - 1 \subseteq 0 .. Len(pend["in"])
    BY <1>1
  <2> QED
    BY <2>1 DEF CopierWrites, CopierGivesUp
<1>3. copier' = "read" \/ (copier' = "cancel" /\ hup["out"])
  BY DEF CopierWrites, CopierGivesUp
<1>4. copier = "write"
      /\ UNCHANGED <<pc, batch, closing, step, waiting, got, ctx, err, envVars, windowVars>>
  BY <1>2 DEF CopierPuts
<1> QED
  BY <1>2, <1>3, <1>4, DataCopierPuts

----------------------------------------------------------------------------
(* The steps *)

LEMMA DataStep ==
  ASSUME TypeInv, RoleInv, ForwardsInOrder, [Next]_vars
  PROVE  DataInv' /\ ForwardsInOrder' /\ lost' \in [Directions -> BOOLEAN]
<1>1. ASSUME UNCHANGED <<dataVars, session, printed>>
      PROVE  DataInv' /\ ForwardsInOrder' /\ lost' \in [Directions -> BOOLEAN]
  BY <1>1, DataStays
<1>2. CASE Open \/ Prepare \/ Notify \/ Register
  BY <1>1, <1>2 DEF Open, Prepare, Notify, Register, envVars
<1>3. CASE LoopTop \/ EpollWait \/ DispatchCancel \/ DispatchPanics
  BY <1>1, <1>3 DEF LoopTop, EpollWait, DispatchCancel, DispatchPanics, envVars
<1>4. CASE FlushPending \/ Unblock
  BY <1>4, DataFlush, DataUnblock DEF Served
<1>5. CASE \E e \in batch : Dispatch(e)
  BY <1>5, DataDispatch DEF Served
<1>6. CASE Left \/ Restore \/ DrainEnds \/ Join
  BY <1>1, <1>6 DEF Left, Restore, DrainEnds, Join, envVars
<1>7. CASE Drain
  BY <1>7, DataDrain DEF Served
<1>8. CASE CopierReads
  BY <1>8, DataCopierReads
<1>9. CASE CopierWrites \/ CopierGivesUp
  BY <1>9, DataCopierWrites
<1>10. CASE CopierCancels
  BY <1>1, <1>10 DEF CopierCancels, envVars
<1>11. CASE ResizerStep
  BY <1>1, <1>11 DEF ResizerStep, ResizerReads, ResizerSets, loopVars, dataVars
<1>12. CASE UserEnters
  BY <1>12, DataUserEnters
<1>13. CASE GuestPrints
  BY <1>13, DataGuestPrints
<1>14. CASE OtherConsoleReads
  <2>1. UNCHANGED <<got, pend, dst, lost, session, printed>> /\ "out" \in Directions
    BY <1>14 DEF OtherConsoleReads, loopVars, Directions
  <2>2. waiting' \in {waiting, [waiting EXCEPT !["out"] = <<>>]}
    BY <1>14 DEF OtherConsoleReads
  <2> QED
    BY <2>1, <2>2, WaitingDropped
<1>15. CASE \E d \in Directions : HangUp(d)
  <2>1. PICK d \in Directions : HangUp(d)
    BY <1>15
  <2>2. UNCHANGED <<got, pend, dst, lost, session, printed>>
    BY <2>1 DEF HangUp, loopVars
  <2>3. waiting' \in {waiting, [waiting EXCEPT ![d] = <<>>]}
    BY <2>1 DEF HangUp
  <2> QED
    BY <2>2, <2>3, WaitingDropped
<1>16. CASE Signal \/ WindowChanges \/ GuestTurns
  BY <1>1, <1>16 DEF Signal, WindowChanges, GuestTurns, loopVars, dataVars
<1>17. CASE UNCHANGED vars
  BY <1>1, <1>17 DEF vars, envVars
<1> QED
  BY <1>2, <1>3, <1>4, <1>5, <1>6, <1>7, <1>8, <1>9, <1>10, <1>11, <1>12, <1>13, <1>14, <1>15,
     <1>16, <1>17 DEF Next, LoopStep, CopierStep, Environment

\* The events of one epoll_wait.
LEMMA ReadyType ==
  ASSUME TypeInv
  PROVE  /\ ReadyEvents \subseteq Events
         /\ \A e \in ReadyEvents : /\ e.of \in Polled \cup {"cancel"}
                                   /\ e.of = "cancel" => ctx
                                   /\ e.hup => hup[e.of]
<1> SUFFICES ASSUME NEW e \in ReadyEvents
             PROVE  /\ e \in Events /\ e.of \in Polled \cup {"cancel"}
                    /\ e.of = "cancel" => ctx
                    /\ e.hup => hup[e.of]
  OBVIOUS
<1>1. CASE e = [of |-> "cancel", readable |-> TRUE, hup |-> FALSE] /\ ctx
  BY <1>1 DEF Events
<1>2. CASE \E d \in Polled : e = [of |-> d, readable |-> waiting[d] # <<>> \/ hup[d], hup |-> hup[d]]
  <2>1. PICK d \in Polled : e = [of |-> d, readable |-> waiting[d] # <<>> \/ hup[d], hup |-> hup[d]]
    BY <1>2
  <2>2. d \in Directions /\ d # "cancel"
    BY DEF Polled, Directions
  <2>3. hup[d] \in BOOLEAN /\ (waiting[d] # <<>> \/ hup[d]) \in BOOLEAN
    BY <2>2 DEF TypeInv, RestOK
  <2>4. e \in Events
    BY <2>1, <2>2, <2>3 DEF Events
  <2> QED
    BY <2>1, <2>2, <2>4
<1> QED
  BY <1>1, <1>2 DEF ReadyEvents

LEMMA RestStep ==
  ASSUME TypeInv, ForwardsInOrder, [Next]_vars, lost' \in [Directions -> BOOLEAN]
  PROVE  RestOK'
<1>1. RestOK /\ session.in \in Nat /\ session.out \in Nat /\ session.sizes \in Nat
        /\ mode \in {"terminal", "pipe"}
  BY SessionType DEF TypeInv, RestOK
<1>2. CASE Open
  <2>1. /\ pc' \in {"prepare", "register", "closed"} /\ copier' \in {copier, "read"}
        /\ err' \in {err, "setup"}
    BY <1>2 DEF Open
  <2>2. UNCHANGED <<batch, closing, step, ctx, envVars, windowVars>>
    BY <1>2 DEF Open
  <2> QED
    BY <1>1, <2>1, <2>2 DEF RestOK, envVars, windowVars
<1>3. CASE Prepare
  <2>1. /\ pc' \in {"notify", "register"} /\ raw' \in {raw, TRUE} /\ winch' \in {winch, TRUE}
        /\ resizer' \in {resizer, "idle"}
    BY <1>3 DEF Prepare
  <2>2. UNCHANGED <<batch, closing, step, ctx, copier, err, envVars, outer, inner, notified, ws,
                    missed>>
    BY <1>3 DEF Prepare
  <2>3. {raw', notified', winch', missed'} \subseteq BOOLEAN
        /\ resizer' \in {"off", "idle", "set", "ended"}
    BY <1>1, <2>1, <2>2 DEF RestOK
  <2> QED
    BY <1>1, <2>1, <2>2, <2>3 DEF RestOK, envVars
<1>4. CASE Notify \/ Register
  <2>1. CASE Notify
    <3>1. pc' = "register" /\ notified' = TRUE
      BY <2>1 DEF Notify
    <3>2. UNCHANGED <<batch, closing, step, ctx, copier, err, envVars, raw, outer, inner, winch,
                      resizer, ws, missed>>
      BY <2>1 DEF Notify
    <3> QED
      BY <1>1, <3>1, <3>2 DEF RestOK, envVars
  <2>2. CASE Register
    <3>1. pc' \in {"top", "leave"} /\ err' \in {err, "setup"}
      BY <2>2 DEF Register
    <3>2. UNCHANGED <<batch, closing, step, ctx, copier, envVars, windowVars>>
      BY <2>2 DEF Register
    <3> QED
      BY <1>1, <3>1, <3>2 DEF RestOK, envVars, windowVars
  <2> QED
    BY <1>4, <2>1, <2>2
<1>5. CASE LoopTop
  <2>1. pc' \in {"leave", "epoll"} /\ batch' \subseteq batch
    BY <1>5 DEF LoopTop, Leave
  <2>2. UNCHANGED <<closing, step, ctx, copier, err, envVars, windowVars>>
    BY <1>5 DEF LoopTop
  <2> QED
    BY <1>1, <2>1, <2>2 DEF RestOK, envVars, windowVars
<1>6. CASE EpollWait
  <2>1. batch' \subseteq Events /\ pc' = "dispatch"
    BY <1>6, ReadyType DEF EpollWait
  <2>2. UNCHANGED <<closing, step, ctx, copier, err, envVars, windowVars>>
    BY <1>6 DEF EpollWait
  <2> QED
    BY <1>1, <2>1, <2>2 DEF RestOK, envVars, windowVars
<1>7. CASE FlushPending \/ Unblock
  <2>1. closing' \in BOOLEAN
    BY <1>7, DataFlush, DataUnblock DEF Served
  <2>2. pc' \in {"top", "dispatch"}
        /\ UNCHANGED <<batch, step, ctx, copier, err, envVars, windowVars>>
    BY <1>7 DEF FlushPending, Unblock
  <2> QED
    BY <1>1, <2>1, <2>2 DEF RestOK, envVars, windowVars
<1>8. CASE DispatchCancel \/ DispatchPanics
  <2>1. pc' = "leave" /\ batch' = {} /\ err' \in {err, "panic"}
    BY <1>8 DEF DispatchCancel, DispatchPanics, Leave
  <2>2. UNCHANGED <<closing, step, ctx, copier, envVars, windowVars>>
    BY <1>8 DEF DispatchCancel, DispatchPanics
  <2> QED
    BY <1>1, <2>1, <2>2 DEF RestOK, envVars, windowVars
<1>9. CASE \E e \in batch : Dispatch(e)
  <2>1. PICK e \in batch : Dispatch(e)
    BY <1>9
  <2>2. closing' \in BOOLEAN /\ step' \in 0 .. 1
    BY <1>1, <2>1, DataDispatch DEF Served, RestOK
  <2>3. /\ batch' \subseteq batch /\ pc' \in {"top", "dispatch", "blocked"}
        /\ UNCHANGED <<ctx, copier, err, envVars, windowVars>>
    BY <2>1 DEF Dispatch, Resume
  <2> QED
    BY <1>1, <2>2, <2>3 DEF RestOK, envVars, windowVars
<1>10. CASE Left \/ Restore
  <2>1. /\ pc' \in {"drain", "closed", "restore"} /\ notified' \in {notified, FALSE}
        /\ resizer' \in {resizer, "ended"} /\ raw' \in {raw, TRUE, FALSE}
    BY <1>10 DEF Left, Restore
  <2>2. UNCHANGED <<batch, closing, step, ctx, copier, err, envVars, outer, inner, winch, ws,
                    missed>>
    BY <1>10 DEF Left, Restore
  <2>3. {raw', notified', winch', missed'} \subseteq BOOLEAN
        /\ resizer' \in {"off", "idle", "set", "ended"}
    BY <1>1, <2>1, <2>2 DEF RestOK
  <2> QED
    BY <1>1, <2>1, <2>2, <2>3 DEF RestOK, envVars
<1>11. CASE Drain
  <2>1. closing' \in BOOLEAN
    BY <1>11, DataDrain DEF Served
  <2> QED
    BY <1>1, <1>11, <2>1 DEF RestOK, Drain, envVars, windowVars
<1>12. CASE DrainEnds \/ Join
  <2>1. pc' \in {"join", "closed"} /\ ctx' \in BOOLEAN
    BY <1>1, <1>12 DEF RestOK, DrainEnds, Join
  <2>2. UNCHANGED <<batch, closing, step, copier, err, envVars, windowVars>>
    BY <1>12 DEF DrainEnds, Join
  <2> QED
    BY <1>1, <2>1, <2>2 DEF RestOK, envVars, windowVars
<1>13. CASE CopierStep \/ CopierGivesUp
  <2>1. UNCHANGED <<session, pc, batch, closing, step, err, hup, printed, guest, asked, windowVars>>
    BY <1>13, DataCopierWrites DEF CopierStep, CopierReads, CopierCancels, envVars
  <2>2. copier' \in {"off", "read", "write", "cancel", "done"} /\ ctx' \in BOOLEAN
    BY <1>1, <1>13, DataCopierWrites DEF RestOK, CopierStep, CopierReads, CopierCancels
  <2> QED
    BY <1>1, <2>1, <2>2 DEF RestOK, windowVars
<1>14. CASE ResizerStep
  <2>1. UNCHANGED <<session, pc, batch, closing, step, copier, err, hup, printed, guest, asked, ctx,
                    raw, outer, notified, missed>>
    BY <1>14 DEF ResizerStep, ResizerReads, ResizerSets, loopVars
  <2>2. resizer' \in {"off", "idle", "set", "ended"} /\ winch' \in BOOLEAN
    BY <1>1, <1>14 DEF RestOK, ResizerStep, ResizerReads, ResizerSets
  <2>3. {inner', ws'} \subseteq 0 .. session.sizes + 1
    <3>1. {inner, ws, outer} \subseteq 0 .. session.sizes + 1
      BY <1>1 DEF RestOK
    <3>2. {inner', ws'} \subseteq {inner, ws, outer}
      BY <1>14 DEF ResizerStep, ResizerReads, ResizerSets
    <3> QED
      BY <3>1, <3>2
  <2>4. {raw', notified', winch', missed'} \subseteq BOOLEAN
    BY <1>1, <2>1, <2>2 DEF RestOK
  <2>5. session' = session /\ outer' \in 1 .. session.sizes + 1
    BY <1>1, <2>1 DEF RestOK
  <2>6. {inner', ws'} \subseteq 0 .. session'.sizes + 1 /\ outer' \in 1 .. session'.sizes + 1
    BY <2>3, <2>5, Zenon
  <2> QED
    BY <1>1, <2>1, <2>2, <2>4, <2>6 DEF RestOK
<1>15. CASE UserEnters \/ OtherConsoleReads
  <2>1. UNCHANGED <<session, pc, batch, closing, step, copier, err, hup, printed, guest, asked, ctx,
                    windowVars>>
    BY <1>15 DEF UserEnters, OtherConsoleReads, loopVars
  <2> QED
    BY <1>1, <2>1 DEF RestOK, windowVars
<1>16. CASE GuestPrints
  <2>1. printed' \in 0 .. session.out
    BY <1>1, <1>16 DEF RestOK, GuestPrints
  <2>2. UNCHANGED <<session, pc, batch, closing, step, copier, err, guest, hup, ctx, asked,
                    windowVars>>
    BY <1>16 DEF GuestPrints, loopVars
  <2> QED
    BY <1>1, <2>1, <2>2 DEF RestOK, windowVars
<1>17. CASE \E d \in Directions : HangUp(d)
  <2>1. hup' \in [Directions -> BOOLEAN]
    BY <1>1, <1>17 DEF RestOK, HangUp
  <2>2. UNCHANGED <<session, pc, batch, closing, step, copier, err, printed, guest, ctx, asked,
                    windowVars>>
    BY <1>17 DEF HangUp, loopVars
  <2> QED
    BY <1>1, <2>1, <2>2 DEF RestOK, windowVars
<1>18. CASE Signal \/ GuestTurns
  <2>1. /\ guest' \in {"calm"} \cup session.moods /\ ctx' \in BOOLEAN /\ asked' \in BOOLEAN
        /\ UNCHANGED <<session, pc, batch, closing, step, copier, err, hup, printed, windowVars>>
    BY <1>1, <1>18 DEF RestOK, Signal, GuestTurns, loopVars
  <2> QED
    BY <1>1, <2>1 DEF RestOK, windowVars
<1>19. CASE WindowChanges
  <2>1. /\ {winch', missed', raw', notified'} \subseteq BOOLEAN
        /\ outer' \in 1 .. session.sizes + 1 /\ {inner', ws'} \subseteq 0 .. session.sizes + 1
    BY <1>1, <1>19 DEF RestOK, WindowChanges, Winch
  <2>2. UNCHANGED <<session, pc, batch, closing, step, copier, err, hup, printed, guest, ctx, asked,
                    resizer>>
    BY <1>19 DEF WindowChanges, loopVars
  <2> QED
    BY <1>1, <2>1, <2>2 DEF RestOK
<1>20. CASE UNCHANGED vars
  BY <1>1, <1>20 DEF RestOK, vars, envVars, windowVars, dataVars
<1> QED
  BY <1>2, <1>3, <1>4, <1>5, <1>6, <1>7, <1>8, <1>9, <1>10, <1>11, <1>12, <1>13, <1>14, <1>15,
     <1>16, <1>17, <1>18, <1>19, <1>20 DEF Next, LoopStep, Environment

LEMMA RoleStep ==
  ASSUME TypeInv, RoleInv, ForwardsInOrder, [Next]_vars
  PROVE  RoleInv'
<1>1. /\ mode \in {"terminal", "pipe"} /\ Polled = (IF mode = "terminal" THEN Directions ELSE {"out"})
      /\ pend \in [Directions -> Seq(Keys \cup Nat)] /\ hup \in [Directions -> BOOLEAN]
      /\ Directions = {"in", "out"}
  BY SessionType DEF TypeInv, DataInv, RestOK, Polled, Directions
\* Steps that take no descriptor, event or copier from where it was.
<1>2. ASSUME UNCHANGED <<session, copier, pend>>, batch' \subseteq batch,
             ctx => ctx', \A d \in Directions : hup[d] => hup'[d],
             pc' = "epoll" => ~closing', pc' = "open" => pc = "open",
             pc' = "blocked" => pc = "blocked"
      PROVE  RoleInv'
  <2>1. mode' = mode /\ Polled' = Polled
    BY <1>2 DEF mode, Polled
  <2>2. ASSUME NEW e \in batch'
        PROVE  e.of \in Polled' \cup {"cancel"} /\ (e.of = "cancel" => ctx') /\ (e.hup => hup'[e.of])
    <3>1. e.of \in Polled \cup {"cancel"} /\ (e.of = "cancel" => ctx) /\ (e.hup => hup[e.of])
      BY <1>2 DEF RoleInv
    <3>2. e.hup => e.of \in Directions
      BY <1>2 DEF TypeInv, RestOK, Events
    <3> QED
      BY <1>2, <2>1, <3>1, <3>2
  <2>3. /\ copier' # "off" => mode' = "pipe"
        /\ mode' = "pipe" /\ copier' # "write" => pend'["in"] = <<>>
        /\ pc' = "open" => copier' = "off"
        /\ pc' = "blocked" => mode' = "terminal"
    BY <1>2, <2>1 DEF RoleInv
  <2> QED
    BY <1>2, <2>2, <2>3 DEF RoleInv
<1>3. CASE Open
  <2>1. UNCHANGED <<session, batch, ctx, hup, pend>> /\ pc' \notin {"epoll", "open", "blocked"}
    BY <1>3 DEF Open, dataVars, envVars
  <2>2. copier = "off" /\ (copier' = copier \/ (mode = "pipe" /\ copier' = "read"))
    BY <1>3 DEF Open, RoleInv
  <2>3. mode' = mode /\ Polled' = Polled
    BY <2>1 DEF mode, Polled
  <2>4. \A e \in batch' : /\ e.of \in Polled' \cup {"cancel"}
                          /\ e.of = "cancel" => ctx'
                          /\ e.hup => hup'[e.of]
    BY <2>1, <2>3 DEF RoleInv
  <2>5. /\ copier' # "off" => mode' = "pipe"
        /\ mode' = "pipe" /\ copier' # "write" => pend'["in"] = <<>>
    BY <2>1, <2>2, <2>3 DEF RoleInv
  <2>6. pc' \notin {"epoll", "open", "blocked"}
    BY <2>1
  <2> QED
    BY <2>4, <2>5, <2>6 DEF RoleInv
<1>4. CASE Prepare \/ Notify \/ Register
  <2>1. UNCHANGED <<session, copier, pend, batch, ctx, hup>> /\ pc' \notin {"epoll", "open", "blocked"}
    BY <1>4 DEF Prepare, Notify, Register, dataVars, envVars
  <2> QED
    BY <1>2, <2>1
<1>5. CASE LoopTop
  <2>1. UNCHANGED <<session, copier, pend, closing, ctx, hup>> /\ batch' \subseteq batch
        /\ pc' \notin {"open", "blocked"}
    BY <1>5 DEF LoopTop, Leave, dataVars, envVars
  <2>2. pc' = "epoll" => ~closing
    BY <1>5 DEF LoopTop, Leave
  <2> QED
    BY <1>2, <2>1, <2>2
<1>6. CASE EpollWait
  <2>1. /\ batch' = ReadyEvents /\ pc' = "dispatch"
        /\ UNCHANGED <<session, copier, pend, ctx, hup>>
    BY <1>6 DEF EpollWait, dataVars, envVars
  <2> QED
    BY <2>1, ReadyType DEF RoleInv, mode, Polled
<1>7. CASE FlushPending
  <2>1. PICK d \in Polled : d \in Directions /\ Served(d, <<>>, FALSE, FALSE)
    BY <1>7, DataFlush
  <2>2. UNCHANGED <<session, copier, batch, ctx, hup>> /\ pc' = "top"
    BY <1>7 DEF FlushPending, envVars
  <2>3. mode = "pipe" => pend'["in"] = pend["in"]
    BY <1>1, <2>1 DEF Served
  <2> QED
    BY <2>2, <2>3 DEF RoleInv, mode, Polled
<1>8. CASE DispatchCancel \/ DispatchPanics
  BY <1>2, <1>8 DEF DispatchCancel, DispatchPanics, Leave, dataVars, envVars
<1>9. CASE \E e \in batch : Dispatch(e)
  <2>1. PICK e \in batch : Dispatch(e)
    BY <1>9
  <2>2. e.of \in Directions /\ Served(e.of, Chunked(e.of), e.hup, Found(e))
    BY <2>1, DataDispatch
  <2>3. /\ UNCHANGED <<session, copier, ctx, hup>> /\ batch' \subseteq batch
        /\ pc' \in {"top", "dispatch"} \/ (pc' = "blocked" /\ e.of = "in")
    BY <2>1 DEF Dispatch, Resume, envVars
  <2>4. (mode = "pipe" => pend'["in"] = pend["in"]) /\ (e.of = "in" => mode = "terminal")
    <3>1. e.of \in Polled \cup {"cancel"}
      BY DEF RoleInv
    <3> QED
      BY <1>1, <2>2, <3>1 DEF Served
  <2> QED
    BY <2>3, <2>4 DEF RoleInv, mode, Polled
<1>10. CASE Left \/ Restore \/ DrainEnds \/ Join
  BY <1>2, <1>10 DEF Left, Restore, DrainEnds, Join, dataVars, envVars
<1>11. CASE Drain
  <2>1. pend'["in"] = pend["in"]
    BY <1>1, <1>11, DataDrain DEF Served
  <2>2. UNCHANGED <<session, copier, batch, ctx, hup>> /\ pc' \in {"join", "drain"}
    BY <1>11 DEF Drain, envVars
  <2> QED
    BY <2>1, <2>2 DEF RoleInv, mode, Polled
<1>12. CASE CopierReads
  <2>1. UNCHANGED <<session, batch, ctx, hup, pc, closing>> /\ copier = "read"
    BY <1>12 DEF CopierReads, envVars
  <2>2. copier' = "write" \/ (copier' = "cancel" /\ pend' = pend)
    BY <1>12 DEF CopierReads
  <2> QED
    BY <2>1, <2>2 DEF RoleInv, mode, Polled
<1>13. CASE CopierWrites \/ CopierGivesUp
  <2>1. UNCHANGED <<session, batch, ctx, hup, pc, closing>> /\ copier = "write"
    BY <1>13, DataCopierWrites DEF envVars
  <2>2. pend'["in"] = <<>>
    BY <1>13, DataCopierWrites
  <2> QED
    BY <2>1, <2>2 DEF RoleInv, mode, Polled
<1>14. CASE CopierCancels
  BY <1>1, <1>14 DEF CopierCancels, RoleInv, mode, Polled, dataVars, envVars
<1>15. CASE ResizerStep
  BY <1>2, <1>15 DEF ResizerStep, ResizerReads, ResizerSets, loopVars, RoleInv
<1>16. CASE UserEnters \/ GuestPrints \/ OtherConsoleReads
  BY <1>2, <1>16 DEF UserEnters, GuestPrints, OtherConsoleReads, loopVars, RoleInv
<1>17. CASE \E d \in Directions : HangUp(d)
  BY <1>1, <1>2, <1>17 DEF HangUp, loopVars, RoleInv
<1>18. CASE Signal \/ WindowChanges \/ GuestTurns
  BY <1>2, <1>18 DEF Signal, WindowChanges, GuestTurns, loopVars, dataVars, RoleInv
<1>19. CASE UNCHANGED vars
  BY <1>2, <1>19 DEF vars, dataVars, envVars, RoleInv
<1>20. CASE Unblock
  <2>1. /\ \A c \in Directions : c # "in" => pend'[c] = pend[c]
        /\ UNCHANGED <<session, copier, batch, ctx, hup>> /\ pc' \in {"top", "dispatch"}
        /\ mode = "terminal"
    BY <1>20, DataUnblock DEF Served, Unblock, envVars, RoleInv
  <2> QED
    BY <2>1 DEF RoleInv, mode, Polled
<1> QED
  BY <1>3, <1>4, <1>5, <1>6, <1>7, <1>8, <1>9, <1>10, <1>11, <1>12, <1>13, <1>14, <1>15, <1>16,
     <1>17, <1>18, <1>19, <1>20 DEF Next, LoopStep, CopierStep, Environment

LEMMA ScreenStep ==
  ASSUME TypeInv, RoleInv, ScreenInv, [Next]_vars
  PROVE  ScreenInv'
<1>1. /\ mode \in {"terminal", "pipe"} /\ hup \in [Directions -> BOOLEAN] /\ raw \in BOOLEAN
      /\ resizer \in {"off", "idle", "set", "ended"} /\ "in" \in Directions
  BY SessionType DEF TypeInv, RestOK, Directions
\* Steps that leave the terminal and the resizer alone.
<1>2. ASSUME UNCHANGED <<session, raw, resizer>>, \A d \in Directions : hup[d] => hup'[d],
             pc' = pc \/ pc' \in {"register", "top", "epoll", "dispatch", "blocked", "leave"}
      PROVE  ScreenInv' \/ pc = "closed"
  <2>1. mode' = mode
    BY <1>2 DEF mode
  <2> QED
    BY <1>1, <1>2, <2>1 DEF ScreenInv, TerminalRestored
<1>3. ASSUME UNCHANGED <<session, raw, resizer, pc>>, hup["in"] => hup'["in"]
      PROVE  ScreenInv'
  BY <1>3 DEF ScreenInv, TerminalRestored, mode
<1>4. CASE Open
  BY <1>1, <1>4 DEF Open, ScreenInv, TerminalRestored, envVars, windowVars, mode
<1>5. CASE Prepare
  BY <1>1, <1>5 DEF Prepare, ScreenInv, TerminalRestored, envVars, mode
<1>6. CASE Notify
  BY <1>1, <1>6 DEF Notify, ScreenInv, TerminalRestored, envVars, mode
<1>7. CASE Register
  BY <1>1, <1>7 DEF Register, ScreenInv, TerminalRestored, envVars, windowVars, mode
<1>8. CASE LoopTop \/ EpollWait \/ DispatchCancel \/ DispatchPanics
  BY <1>2, <1>8 DEF LoopTop, EpollWait, DispatchCancel, DispatchPanics, Leave, envVars, windowVars
<1>9. CASE FlushPending \/ Unblock
  BY <1>2, <1>9 DEF FlushPending, Unblock, envVars, windowVars
<1>10. CASE \E e \in batch : Dispatch(e)
  <2>1. PICK e \in batch : Dispatch(e)
    BY <1>10
  <2>2. /\ UNCHANGED <<session, raw, resizer, hup>> /\ pc = "dispatch"
        /\ pc' \in {"top", "dispatch", "blocked"}
    BY <2>1 DEF Dispatch, Resume, envVars, windowVars
  <2> QED
    BY <1>2, <2>2
<1>11. CASE Left
  BY <1>1, <1>11 DEF Left, ScreenInv, TerminalRestored, envVars, mode
<1>12. CASE Restore
  BY <1>1, <1>12 DEF Restore, ScreenInv, TerminalRestored, envVars, mode
<1>13. CASE Drain \/ DrainEnds
  <2>1. UNCHANGED <<session, raw, resizer, hup>> /\ pc = "drain" /\ pc' \in {"drain", "join"}
    BY <1>13 DEF Drain, DrainEnds, envVars, windowVars
  <2> QED
    BY <1>1, <2>1 DEF ScreenInv, TerminalRestored, mode
<1>14. CASE Join
  BY <1>1, <1>14 DEF Join, ScreenInv, TerminalRestored, envVars, windowVars, mode
<1>15. CASE CopierStep \/ CopierGivesUp
  BY <1>3, <1>15, DataCopierWrites
     DEF CopierStep, CopierReads, CopierCancels, CopierWrites, CopierGivesUp, CopierPuts, envVars,
         windowVars
<1>16. CASE ResizerStep
  <2>1. UNCHANGED <<session, raw, pc, hup>> /\ resizer \in {"idle", "set"} /\ resizer' \in {"idle", "set"}
    BY <1>16 DEF ResizerStep, ResizerReads, ResizerSets, loopVars
  <2> QED
    BY <1>1, <2>1 DEF ScreenInv, TerminalRestored, mode
<1>17. CASE UserEnters \/ GuestPrints \/ GuestTurns \/ OtherConsoleReads \/ Signal \/ WindowChanges
  BY <1>3, <1>17 DEF UserEnters, GuestPrints, GuestTurns, OtherConsoleReads, Signal, WindowChanges,
                     loopVars, windowVars
<1>18. CASE \E d \in Directions : HangUp(d)
  BY <1>1, <1>3, <1>18 DEF HangUp, loopVars, windowVars
<1>19. CASE UNCHANGED vars
  BY <1>3, <1>19 DEF vars, envVars, windowVars
<1> QED
  BY <1>4, <1>5, <1>6, <1>7, <1>8, <1>9, <1>10, <1>11, <1>12, <1>13, <1>14, <1>15, <1>16,
     <1>17, <1>18, <1>19 DEF Next, LoopStep, Environment

\* What one read makes of the escape sequence.
LEMMA DispatchFinds ==
  ASSUME TypeInv, RoleInv, ForwardsInOrder, EscapeInv, NEW e \in batch, Dispatch(e)
  PROVE  EscapeInv' /\ (Found(e) => hup["in"] \/ (mode = "terminal" /\ EscapeSeen(got'["in"])))
<1>1. /\ e.of \in Directions /\ e.hup \in BOOLEAN
      /\ Served(e.of, Chunked(e.of), e.hup, Found(e)) /\ Chunked(e.of) \in Seq(Bytes(e.of))
      /\ step' = IF e.of = "in" THEN Escape(step, Chunked("in")).step ELSE step
  BY DataDispatch
<1>2. /\ "in" \in Directions /\ got["in"] \in Seq(Keys) /\ got \in [Directions -> Seq(Keys \cup Nat)]
      /\ mode \in {"terminal", "pipe"}
  BY SessionType DEF TypeInv, DataInv, RestOK, Directions, Bytes
<1>3. mode' = mode
  BY DEF Dispatch, envVars, mode
<1>4. /\ got' = [got EXCEPT ![e.of] = got[e.of] \o Chunked(e.of)]
      /\ closing' \in BOOLEAN /\ (closing \/ Found(e) => closing')
  BY <1>1 DEF Served
<1>5. EscapeSeen(got["in"]) => EscapeSeen(got'["in"])
  BY <1>1, <1>4, GotGrows
<1>6. CASE e.of # "in"
  <2>1. got'["in"] = got["in"] /\ step' = step /\ ~Found(e)
    BY <1>1, <1>2, <1>4, <1>6 DEF Found
  <2> QED
    BY <1>3, <1>4, <2>1 DEF EscapeInv
<1>7. CASE e.of = "in"
  <2> DEFINE chunk == Chunked("in")
             s == got["in"]
             u == got'["in"]
  <2>1. chunk \in Seq(Keys) /\ u = s \o chunk
    BY <1>1, <1>2, <1>4, <1>7 DEF Bytes
  <2>2. mode = "terminal"
    <3>1. e.of \in Polled \cup {"cancel"}
      BY DEF RoleInv
    <3> QED
      BY <1>2, <1>7, <3>1 DEF Polled
  <2>3. CASE EscapeSeen(s)
    <3>1. closing /\ closing' /\ EscapeSeen(u)
      BY <1>4, <1>5, <2>2, <2>3 DEF EscapeInv
    <3> QED
      BY <2>2, <3>1 DEF EscapeInv
  <2>4. CASE ~EscapeSeen(s)
    <3>1. step = StepAfter(s)
      BY <2>2, <2>4 DEF EscapeInv
    <3>2. /\ Escape(step, chunk).hit <=> EscapeSeen(u)
          /\ ~EscapeSeen(u) => Escape(step, chunk).step = StepAfter(u)
      <4> HIDE DEF s, u, chunk
      <4>1. s \in Seq(Keys)
        BY <1>2 DEF s
      <4>2. /\ Escape(StepAfter(s), chunk).hit <=> EscapeSeen(s \o chunk)
            /\ ~EscapeSeen(s \o chunk) => Escape(StepAfter(s), chunk).step = StepAfter(s \o chunk)
        BY <2>1, <2>4, <4>1, EscapeContinues
      <4> QED
        BY <2>1, <3>1, <4>2, Zenon
    <3> HIDE DEF s, u, chunk
    <3>3. Found(e) => e.hup \/ EscapeSeen(u)
      BY <3>2 DEF Found, chunk
    <3>4. EscapeSeen(u) => Found(e)
      BY <1>7, <3>2 DEF Found, chunk
    <3>5. step' = Escape(step, chunk).step
      BY <1>1, <1>7 DEF chunk
    <3>6. IF EscapeSeen(u) THEN closing' ELSE step' = StepAfter(u)
      BY <1>4, <3>2, <3>4, <3>5
    <3>7. e.hup => hup["in"]
      BY <1>7 DEF RoleInv
    <3> QED
      BY <2>2, <3>3, <3>6, <3>7 DEF EscapeInv, u
  <2> QED
    BY <2>2, <2>3, <2>4
<1> QED
  BY <1>6, <1>7

LEMMA EscapeStep ==
  ASSUME TypeInv, RoleInv, ForwardsInOrder, EscapeInv, [Next]_vars
  PROVE  EscapeInv' /\ (EscapeSeen(got["in"]) => EscapeSeen(got'["in"]))
<1>1. /\ mode \in {"terminal", "pipe"} /\ "in" \in Directions /\ "out" \in Directions
      /\ got \in [Directions -> Seq(Keys \cup Nat)]
  BY SessionType DEF TypeInv, DataInv, RestOK, Directions
<1>2. ASSUME UNCHANGED <<session, got, step>>, closing => closing'
      PROVE  EscapeInv' /\ (EscapeSeen(got["in"]) => EscapeSeen(got'["in"]))
  BY <1>2 DEF EscapeInv, mode
<1>3. CASE Open \/ Prepare \/ Notify \/ Register \/ LoopTop \/ EpollWait \/ DispatchCancel \/ DispatchPanics
  BY <1>2, <1>3 DEF Open, Prepare, Notify, Register, LoopTop, EpollWait, DispatchCancel, DispatchPanics,
                    dataVars, envVars
<1>4. CASE FlushPending \/ Unblock
  <2>1. got' = got /\ (closing => closing')
    BY <1>4, DataFlush, DataUnblock DEF Served
  <2> QED
    BY <1>2, <1>4, <2>1 DEF FlushPending, Unblock, envVars
<1>5. CASE \E e \in batch : Dispatch(e)
  <2>1. PICK e \in batch : Dispatch(e)
    BY <1>5
  <2>2. EscapeInv'
    BY <2>1, DispatchFinds
  <2>3. e.of \in Directions /\ Chunked(e.of) \in Seq(Bytes(e.of))
        /\ got' = [got EXCEPT ![e.of] = got[e.of] \o Chunked(e.of)]
    BY <2>1, DataDispatch DEF Served
  <2> QED
    BY <2>2, <2>3, GotGrows
<1>6. CASE Left \/ Restore \/ DrainEnds \/ Join
  BY <1>2, <1>6 DEF Left, Restore, DrainEnds, Join, dataVars, envVars
<1>7. CASE Drain
  <2>1. /\ got' = [got EXCEPT !["out"] = got["out"] \o waiting["out"]]
        /\ closing => closing'
    BY <1>7, DataDrain DEF Served
  <2>2. got'["in"] = got["in"]
    BY <1>1, <2>1
  <2>3. UNCHANGED <<session, step>>
    BY <1>7 DEF Drain, envVars
  <2> QED
    BY <2>1, <2>2, <2>3 DEF EscapeInv, mode
<1>8. CASE CopierReads
  <2>1. mode = "pipe" /\ mode' = mode
    BY <1>8 DEF CopierReads, RoleInv, envVars, mode
  <2> QED
    BY <1>8, <2>1, DataCopierReads DEF EscapeInv
<1>9. CASE CopierWrites \/ CopierGivesUp \/ CopierCancels
  BY <1>2, <1>9, DataCopierWrites DEF CopierCancels, dataVars, envVars
<1>10. CASE ResizerStep
  BY <1>2, <1>10 DEF ResizerStep, ResizerReads, ResizerSets, loopVars
<1>11. CASE UserEnters \/ GuestPrints \/ OtherConsoleReads \/ (\E d \in Directions : HangUp(d))
  BY <1>2, <1>11 DEF UserEnters, GuestPrints, OtherConsoleReads, HangUp, loopVars
<1>12. CASE Signal \/ WindowChanges \/ GuestTurns
  BY <1>2, <1>12 DEF Signal, WindowChanges, GuestTurns, loopVars, dataVars
<1>13. CASE UNCHANGED vars
  BY <1>2, <1>13 DEF vars, dataVars, envVars
<1> QED
  BY <1>3, <1>4, <1>5, <1>6, <1>7, <1>8, <1>9, <1>10, <1>11, <1>12, <1>13
     DEF Next, LoopStep, CopierStep, Environment

LEMMA ReasonStep ==
  ASSUME PollInv, [Next]_vars
  PROVE  ReasonInv'
<1> USE DEF PollInv
<1>1. /\ mode \in {"terminal", "pipe"} /\ Directions = {"in", "out"}
      /\ hup \in [Directions -> BOOLEAN] /\ lost \in [Directions -> BOOLEAN]
  BY SessionType DEF TypeInv, RestOK, Directions
<1>2. EscapeSeen(got["in"]) => EscapeSeen(got'["in"])
  BY EscapeStep
<1> DEFINE Over == pc \in {"leave", "restore", "drain", "join", "closed"}
\* A reason stays one.
<1>3. ASSUME session' = session, asked => asked', err # "none" => err' # "none",
             \A d \in Directions : (lost[d] => lost'[d]) /\ (hup[d] => hup'[d]),
             Reason
      PROVE  Reason'
  <2>1. mode' = mode
    BY <1>3 DEF mode
  <2> QED
    BY <1>1, <1>2, <1>3, <2>1 DEF Reason
<1>4. ASSUME session' = session, asked => asked', err # "none" => err' # "none",
             \A d \in Directions : (lost[d] => lost'[d]) /\ (hup[d] => hup'[d]),
             closing' \/ ctx' \/ copier' \in {"cancel", "done"} \/ Over'
               => closing \/ ctx \/ copier \in {"cancel", "done"} \/ Over \/ Reason \/ Reason'
      PROVE  ReasonInv'
  BY <1>3, <1>4 DEF ReasonInv
<1>5. CASE Open
  <2>1. UNCHANGED <<session, asked, hup, lost, closing, ctx>>
    BY <1>5 DEF Open, dataVars, envVars
  <2>2. \/ pc' \in {"prepare", "register"} /\ err' = err /\ copier' \in {copier, "read"}
        \/ err' = "setup"
    BY <1>5 DEF Open
  <2>3. err' = "setup" => Reason'
    BY DEF Reason
  <2> QED
    BY <1>4, <2>1, <2>2, <2>3
<1>6. CASE Prepare \/ Notify
  <2>1. UNCHANGED <<session, asked, hup, lost, closing, ctx, err, copier>>
        /\ pc' \in {"notify", "register"}
    BY <1>6 DEF Prepare, Notify, dataVars, envVars
  <2> QED
    BY <1>4, <2>1
<1>7. CASE Register
  <2>1. UNCHANGED <<session, asked, hup, lost, closing, ctx, copier>>
    BY <1>7 DEF Register, dataVars, envVars
  <2>2. (pc' = "top" /\ err' = err) \/ err' = "setup"
    BY <1>7 DEF Register
  <2>3. err' = "setup" => Reason'
    BY DEF Reason
  <2> QED
    BY <1>4, <2>1, <2>2, <2>3
<1>8. CASE LoopTop \/ EpollWait \/ DispatchCancel
  <2>1. UNCHANGED <<session, asked, hup, lost, closing, ctx, copier, err>>
    BY <1>8 DEF LoopTop, EpollWait, DispatchCancel, dataVars, envVars
  <2>2. Over' => closing \/ ctx
    BY <1>8 DEF LoopTop, EpollWait, DispatchCancel, Leave, RoleInv
  <2> QED
    BY <1>4, <2>1, <2>2
<1>9. CASE DispatchPanics
  <2>1. UNCHANGED <<session, asked, hup, lost, closing, ctx, copier>> /\ err' = "panic"
    BY <1>9 DEF DispatchPanics, dataVars, envVars
  <2>2. Reason'
    BY <2>1 DEF Reason
  <2> QED
    BY <1>4, <2>1, <2>2
<1>10. CASE FlushPending
  <2>1. PICK d \in Polled : Served(d, <<>>, FALSE, FALSE) /\ d \in Directions
    BY <1>10, DataFlush
  <2>2. UNCHANGED <<session, asked, hup, ctx, copier, err>> /\ ~Over'
    BY <1>10 DEF FlushPending, envVars
  <2>3. /\ \A c \in Directions : lost[c] => lost'[c]
        /\ closing' => closing \/ lost'[d]
    BY <2>1 DEF Served
  <2>4. lost'[d] => Reason'
    BY <1>1, <2>1 DEF Reason
  <2> QED
    BY <1>4, <2>2, <2>3, <2>4
<1>11. CASE \E e \in batch : Dispatch(e)
  <2>1. PICK e \in batch : Dispatch(e)
    BY <1>11
  <2>2. e.of \in Directions /\ Served(e.of, Chunked(e.of), e.hup, Found(e))
    BY <2>1, DataDispatch
  <2>3. UNCHANGED <<session, asked, hup, ctx, copier, err>> /\ ~Over'
    BY <2>1 DEF Dispatch, Resume, envVars
  <2>4. /\ \A c \in Directions : lost[c] => lost'[c]
        /\ closing' => closing \/ Found(e) \/ e.hup \/ lost'[e.of]
    BY <2>2 DEF Served
  <2>5. lost'[e.of] => Reason'
    BY <1>1, <2>2 DEF Reason
  <2>6. e.hup => Reason'
    BY <2>2, <2>3 DEF Reason, RoleInv
  <2>7. Found(e) => Reason'
    <3>1. Found(e) => hup["in"] \/ (mode = "terminal" /\ EscapeSeen(got'["in"]))
      BY <2>1, DispatchFinds
    <3>2. mode' = mode
      BY <2>3 DEF mode
    <3> QED
      BY <1>1, <2>3, <3>1, <3>2 DEF Reason
  <2> QED
    BY <1>4, <2>3, <2>4, <2>5, <2>6, <2>7
<1>12. CASE Left \/ Restore \/ DrainEnds
  <2>1. UNCHANGED <<session, asked, hup, lost, closing, ctx, copier, err>> /\ Over
    BY <1>12 DEF Left, Restore, DrainEnds, dataVars, envVars
  <2> QED
    BY <1>4, <2>1
<1>13. CASE Join
  <2>1. UNCHANGED <<session, asked, hup, lost, closing, copier, err>> /\ Over
    BY <1>13 DEF Join, dataVars, envVars
  <2> QED
    BY <1>4, <2>1
<1>14. CASE Drain
  <2>1. UNCHANGED <<session, asked, hup, ctx, copier, err>> /\ Over
    BY <1>14 DEF Drain, envVars
  <2>2. \A c \in Directions : lost[c] => lost'[c]
    BY <1>14, DataDrain DEF Served
  <2> QED
    BY <1>4, <2>1, <2>2
<1>15. CASE CopierReads
  <2>1. UNCHANGED <<session, asked, hup, lost, closing, ctx, pc, err>>
    BY <1>15 DEF CopierReads, envVars
  <2>2. copier' \in {"cancel", "done"} => ctx \/ hup["in"]
    BY <1>15 DEF CopierReads
  <2>3. hup["in"] => Reason
    BY <1>1 DEF Reason
  <2> QED
    BY <1>4, <2>1, <2>2, <2>3
<1>16. CASE CopierWrites \/ CopierGivesUp
  <2>1. UNCHANGED <<session, asked, hup, closing, ctx, pc, err>>
    BY <1>16, DataCopierWrites DEF envVars
  <2>2. copier' \in {"cancel", "done"} => hup["out"]
    BY <1>16, DataCopierWrites
  <2>3. hup["out"] => Reason
    BY <1>1 DEF Reason
  <2>4. \A c \in Directions : lost[c] => lost'[c]
    BY <1>16, DataCopierWrites
  <2> QED
    BY <1>4, <2>1, <2>2, <2>3, <2>4
<1>17. CASE CopierCancels
  <2>1. UNCHANGED <<session, asked, hup, lost, closing, pc, err>> /\ copier = "cancel"
    BY <1>17 DEF CopierCancels, dataVars, envVars
  <2> QED
    BY <1>4, <2>1
<1>18. CASE ResizerStep
  <2>1. UNCHANGED <<session, asked, hup, lost, closing, ctx, copier, err, pc>>
    BY <1>18 DEF ResizerStep, ResizerReads, ResizerSets, loopVars
  <2> QED
    BY <1>4, <2>1
<1>19. CASE UserEnters \/ GuestPrints \/ GuestTurns \/ OtherConsoleReads \/ WindowChanges
  <2>1. UNCHANGED <<session, asked, hup, lost, closing, ctx, copier, err, pc>>
    BY <1>19 DEF UserEnters, GuestPrints, GuestTurns, OtherConsoleReads, WindowChanges, loopVars,
                 dataVars
  <2> QED
    BY <1>4, <2>1
<1>20. CASE \E d \in Directions : HangUp(d)
  <2>1. UNCHANGED <<session, asked, lost, closing, ctx, copier, err, pc>>
    BY <1>20 DEF HangUp, loopVars
  <2>2. \A c \in Directions : hup[c] => hup'[c]
    BY <1>1, <1>20 DEF HangUp
  <2> QED
    BY <1>4, <2>1, <2>2
<1>21. CASE Signal
  <2>1. UNCHANGED <<session, hup, lost, closing, copier, err, pc>> /\ asked'
    BY <1>21 DEF Signal, loopVars
  <2>2. Reason'
    BY <2>1 DEF Reason
  <2> QED
    BY <1>4, <2>1, <2>2
<1>22. CASE UNCHANGED vars
  <2>1. UNCHANGED <<session, asked, hup, lost, closing, ctx, copier, err, pc>>
    BY <1>22 DEF vars, dataVars, envVars
  <2> QED
    BY <1>4, <2>1
<1>23. CASE Unblock
  <2>1. UNCHANGED <<session, asked, hup, ctx, copier, err>> /\ ~Over'
    BY <1>23 DEF Unblock, envVars
  <2>2. /\ \A c \in Directions : lost[c] => lost'[c]
        /\ closing' => closing \/ lost'["in"]
    BY <1>23, DataUnblock DEF Served
  <2>3. lost'["in"] => Reason'
    BY DEF Reason
  <2> QED
    BY <1>4, <2>1, <2>2, <2>3
<1> QED
  BY <1>5, <1>6, <1>7, <1>8, <1>9, <1>10, <1>11, <1>12, <1>13, <1>14, <1>15, <1>16, <1>17, <1>18,
     <1>19, <1>20, <1>21, <1>22, <1>23 DEF Next, LoopStep, CopierStep, Environment

LEMMA PollInit == Init => PollInv
<1> SUFFICES ASSUME Init PROVE PollInv
  OBVIOUS
<1>1. /\ session \in Sessions /\ session.in \in Nat /\ session.out \in Nat /\ session.sizes \in Nat
      /\ "in" \in Directions /\ "out" \in Directions
  BY SessionType DEF Init, Directions
<1>2. /\ Nothing \in [Directions -> Seq(Keys \cup Nat)]
      /\ \A d \in Directions : Nothing[d] = <<>>
      /\ \A S : <<>> \in Seq(S)
      /\ Len(<<>>) = 0
  <2>1. (\A S : <<>> \in Seq(S)) /\ Len(<<>>) = 0
    BY EmptySeq
  <2> QED
    BY <2>1 DEF Nothing
<1>3. DataInv
  <2> HIDE DEF Nothing
  <2>1. waiting = Nothing /\ got = Nothing /\ pend = Nothing /\ dst = Nothing /\ printed = 0
    BY DEF Init
  <2> QED
    BY <1>1, <1>2, <2>1 DEF DataInv
<1>4. RestOK
  <2>1. /\ batch \subseteq Events /\ hup \in [Directions -> BOOLEAN] /\ lost \in [Directions -> BOOLEAN]
    BY DEF Init
  <2>2. printed \in 0 .. session.out /\ outer \in 1 .. session.sizes + 1
        /\ {inner, ws} \subseteq 0 .. session.sizes + 1
    BY <1>1 DEF Init
  <2>3. /\ session \in Sessions /\ pc = "open" /\ closing = FALSE /\ step = 0
        /\ guest = "calm" /\ ctx = FALSE /\ asked = FALSE /\ copier = "off" /\ err = "none"
        /\ raw = FALSE /\ notified = FALSE /\ winch = FALSE /\ missed = FALSE /\ resizer = "off"
    BY DEF Init
  <2>4. {raw, notified, winch, missed} \subseteq BOOLEAN /\ step \in 0 .. 1
    <3>1. raw \in BOOLEAN /\ notified \in BOOLEAN /\ winch \in BOOLEAN /\ missed \in BOOLEAN
      BY <2>3, Zenon
    <3> QED
      BY <2>3, <3>1
  <2> QED
    BY <2>1, <2>2, <2>3, <2>4 DEF RestOK
<1>5. RoleInv
  BY <1>1, <1>2 DEF Init, RoleInv
<1>6. ScreenInv
  BY DEF Init, ScreenInv, TerminalRestored
<1>7. ForwardsInOrder
  <2>1. <<>> \o <<>> = <<>>
    BY <1>2, ConcatEmptySeq
  <2>2. \A d \in Directions : got[d] = <<>> /\ dst[d] = <<>> /\ pend[d] = <<>>
    BY <1>2 DEF Init
  <2> QED
    BY <2>1, <2>2, Zenon DEF ForwardsInOrder
<1>8. ReasonInv
  BY DEF Init, ReasonInv
<1>9. EscapeInv
  <2>1. got["in"] = <<>> /\ step = 0
    BY <1>1, <1>2 DEF Init
  <2>2. ~EscapeSeen(<<>>) /\ StepAfter(<<>>) = 0
    BY <1>2 DEF EscapeSeen, StepAfter, OpenAt
  <2> QED
    BY <2>1, <2>2 DEF EscapeInv
<1> QED
  BY <1>3, <1>4, <1>5, <1>6, <1>7, <1>8, <1>9 DEF PollInv, TypeInv

LEMMA PollNext == PollInv /\ [Next]_vars => PollInv'
<1> SUFFICES ASSUME PollInv, [Next]_vars PROVE PollInv'
  OBVIOUS
<1>1. TypeInv /\ RoleInv /\ ScreenInv /\ ForwardsInOrder /\ ReasonInv /\ EscapeInv
  BY DEF PollInv
<1>2. DataInv' /\ ForwardsInOrder' /\ lost' \in [Directions -> BOOLEAN]
  BY <1>1, DataStep
<1>3. RestOK'
  BY <1>1, <1>2, RestStep
<1>4. RoleInv'
  BY <1>1, RoleStep
<1>5. ScreenInv'
  BY <1>1, ScreenStep
<1>6. ReasonInv'
  BY ReasonStep
<1>7. EscapeInv'
  BY <1>1, EscapeStep
<1> QED
  BY <1>2, <1>3, <1>4, <1>5, <1>6, <1>7 DEF PollInv, TypeInv

----------------------------------------------------------------------------
(* Theorems *)

LEMMA PollInvariant == Spec => []PollInv
<1>1. Init => PollInv
  BY PollInit
<1>2. PollInv /\ [Next]_vars => PollInv'
  BY PollNext
<1> QED
  BY <1>1, <1>2, PTL DEF Spec

\* The bytes of every buffer are of its direction, and no more than were entered
\* or printed.
THEOREM TypeCorrect == Spec => []TypeOK
<1>1. TypeInv => TypeOK
  <2> SUFFICES ASSUME TypeInv PROVE TypeOK
    OBVIOUS
  <2>1. RestOK /\ DataInv /\ session.in \in Nat /\ session.out \in Nat
    BY SessionType DEF TypeInv, RestOK
  <2>2. ASSUME NEW d \in Directions, NEW q \in {waiting[d], got[d], pend[d], dst[d]}
        PROVE  q \in Seq(Bytes(d)) /\ Len(q) <= Bound(d)
    <3>1. /\ waiting[d] \in Seq(Bytes(d)) /\ got[d] \in Seq(Bytes(d)) /\ pend[d] \in Seq(Bytes(d))
          /\ dst[d] \in Seq(Bytes(d))
      BY <2>1 DEF DataInv
    <3>2. /\ Len(waiting[d]) \in Nat /\ Len(got[d]) \in Nat /\ Len(pend[d]) \in Nat
          /\ Len(dst[d]) \in Nat
      BY <3>1, LenProperties
    <3>3. Len(got[d]) + Len(waiting[d]) <= Bound(d) /\ Bound(d) \in Nat
      <4>1. printed \in Nat /\ printed <= session.out
        BY <2>1 DEF RestOK
      <4>2. CASE d = "in"
        BY <2>1, <4>2 DEF DataInv, Bound
      <4>3. CASE d = "out"
        <5>1. Len(got[d]) + Len(waiting[d]) <= printed /\ Bound(d) = session.out
          BY <2>1, <4>3 DEF DataInv, Bound
        <5>2. \A w, x, y, z \in Nat : w + x <= y /\ y <= z => w + x <= z
          OBVIOUS
        <5>3. Len(got[d]) + Len(waiting[d]) <= session.out
          BY <2>1, <3>2, <4>1, <5>1, <5>2, Zenon
        <5> QED
          BY <2>1, <5>1, <5>3, Zenon
      <4>4. d = "in" \/ d = "out"
        BY DEF Directions
      <4> QED
        BY <4>2, <4>3, <4>4
    <3>4. Len(dst[d]) + Len(pend[d]) <= Len(got[d])
      BY <2>1 DEF DataInv
    <3> DEFINE a == Len(waiting[d])  b == Len(got[d])  c == Len(pend[d])  e == Len(dst[d])
               m == Bound(d)
    <3>5. a \in Nat /\ b \in Nat /\ c \in Nat /\ e \in Nat /\ m \in Nat /\ b + a <= m /\ e + c <= b
      BY <3>2, <3>3, <3>4
    <3> HIDE DEF a, b, c, e, m
    <3>6. a <= m /\ b <= m /\ c <= m /\ e <= m
      BY <3>5
    <3> QED
      BY <3>1, <3>6 DEF a, b, c, e, m
  <2> QED
    BY <2>1, <2>2 DEF TypeOK, RestOK
<1> QED
  BY <1>1, PollInvariant, PTL DEF PollInv

\* simpleCopier and copyPipeInputToPTY write what was read, once and in order,
\* through partial writes, flushes and the drain, however large the buffers are.
THEOREM BytesStayInOrder == Spec => []ForwardsInOrder
<1>1. PollInv => ForwardsInOrder
  BY DEF PollInv
<1> QED
  BY <1>1, PollInvariant, PTL

\* escapeHandler finds in the reads of a session what it would find in all the bytes
\* at once, however the reads cut the input and whatever is pending: the loop does
\* not wait for events once there is something to be found.  (ESC ESC ( is not found
\* in either case.)
THEOREM EscapeSurvivesReads == Spec => []EscapeEndsSession
<1>1. PollInv => EscapeEndsSession
  <2> SUFFICES ASSUME PollInv, mode = "terminal", pc = "epoll" PROVE ~Escape(0, got["in"]).hit
    BY DEF EscapeEndsSession
  <2>1. ~EscapeSeen(got["in"])
    BY DEF PollInv, EscapeInv, RoleInv
  <2>2. got["in"] \in Seq(Keys)
    BY DEF PollInv, TypeInv, DataInv, Directions, Bytes
  <2> QED
    BY <2>1, <2>2, EscapeWhole
<1> QED
  BY <1>1, PollInvariant, PTL

\* OpenPty returns only for one of its reasons; in particular the handler finds no
\* escape sequence that the user did not enter.
THEOREM EndIsJustified == Spec => []EndsForAReason
<1>1. PollInv => EndsForAReason
  <2> SUFFICES ASSUME PollInv, Reason PROVE Reason /\ (EscapeSeen(got["in"]) => EscapeEntered)
    BY DEF PollInv, ReasonInv, Reason, EndsForAReason
  <2>1. got["in"] \in Seq(Keys)
    BY DEF PollInv, TypeInv, DataInv, Directions, Bytes
  <2>2. Len(got["in"]) \in Nat
    BY <2>1, LenProperties
  <2>3. ASSUME EscapeSeen(got["in"]) PROVE EscapeEntered
    <3>1. PICK i \in 1 .. Len(got["in"]) : EscapeAt(got["in"], i)
      BY <2>3 DEF EscapeSeen
    <3>2. i \in 2 .. Len(got["in"])
      BY <2>2, <3>1 DEF EscapeAt
    <3> QED
      BY <3>1, <3>2 DEF EscapeAt, EscapeEntered
  <2> QED
    BY <2>3
<1> QED
  BY <1>1, PollInvariant, PTL

\* terminalCloser has restored the terminal and joined the resizer on every way
\* out of OpenPty.
THEOREM TerminalIsRestored == Spec => []TerminalRestored
<1>1. PollInv => TerminalRestored
  BY DEF PollInv, ScreenInv
<1> QED
  BY <1>1, PollInvariant, PTL

=============================================================================
