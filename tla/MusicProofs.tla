----------------------------- MODULE MusicProofs -----------------------------
(***************************************************************************)
(* What the parts that play in time keep, for any bounds.  Each part has   *)
(* an invariant, which its first step sets up (...Init) and every step     *)
(* keeps (...Next):                                                        *)
(*   LoopInv      a loop's clock made fewer calls than ticks, is stopped    *)
(*                from when it is to be quiet, and clocks started in step  *)
(*                missed the start, wait for it or tick since              *)
(*   LoopersInv   a part that was not cut short is at the step its         *)
(*                metronome counts, and a score of parts is at the only    *)
(*                one, or at none                                          *)
(*   SynthInv     the notes held have the first voices, one each, and the  *)
(*                latest value in time is how many they are                *)
(*   EnvInv       while calls come in order of time nothing is after the   *)
(*                last one, of what an envelope's signal remembers and of  *)
(*                what it told, and each play got to its three levels      *)
(***************************************************************************)
EXTENDS Music, FiniteSetTheorems, SequenceTheorems, WellFoundedInduction, TLAPS

-----------------------------------------------------------------------------
(* Numbers and sequences. *)

\* A set of natural numbers that is not empty has a least one.
LEMMA LeastOf ==
  ASSUME NEW S \in SUBSET Nat, S /= {}
  PROVE  \E m \in S : \A y \in S : m <= y
<1> DEFINE R == OpToRel(<, Nat)
<1>1. IsWellFoundedOn(R, Nat) BY NatLessThanWellFounded
<1>2. \A x, y \in Nat : x < y => <<x, y>> \in R BY Zenon DEF OpToRel
<1> HIDE DEF R
<1>3. PICK x \in S : \A y \in S : ~(<<y, x>> \in R) BY <1>1, WFMin
<1>4. \A y \in S : x \in Nat /\ y \in Nat /\ ~(y < x) BY <1>2, <1>3, Zenon
<1> QED BY <1>4

\* What is so of 0, and of i + 1 when it is of i, is so of n.
LEMMA Climb ==
  ASSUME NEW S, NEW n \in Nat, 0 \in S, \A i \in 0..(n - 1) : i \in S => i + 1 \in S
  PROVE  n \in S
<1> DEFINE T == {k \in 0..n : k \notin S}
<1>1. SUFFICES ASSUME n \notin S PROVE FALSE OBVIOUS
<1>2. T \in SUBSET Nat /\ T /= {} BY <1>1
<1>3. PICK m \in T : \A y \in T : m <= y
  <2> HIDE DEF T
  <2> QED BY <1>2, LeastOf
<1>4. m \in 0..n /\ m \notin S OBVIOUS
<1>5. m /= 0 BY <1>4
<1>6. m - 1 \in 0..(n - 1) /\ m - 1 \in 0..n /\ ~(m <= m - 1) BY <1>4, <1>5
<1>7. m - 1 \in S BY <1>3, <1>6
<1>8. (m - 1) + 1 = m BY <1>4
<1>9. m \in S BY <1>6, <1>7, <1>8
<1> QED BY <1>4, <1>9

\* r is the sequence s, of members of T, with e put in at i.
Puts(T, r, s, i, e) ==
  /\ r \in Seq(T) /\ Len(r) = Len(s) + 1
  /\ \A j \in 1..(Len(s) + 1) : r[j] = IF j < i THEN s[j] ELSE IF j = i THEN e ELSE s[j - 1]

\* Putting e in at place i of a sequence.
LEMMA PutIn ==
  ASSUME NEW T, NEW s \in Seq(T), NEW i \in 1..(Len(s) + 1), NEW e \in T
  PROVE  Puts(T, Loop!InsertAt(s, i, e), s, i, e)
<1> DEFINE b == SubSeq(s, 1, i - 1)
           c == SubSeq(s, i, Len(s))
           r == Loop!InsertAt(s, i, e)
<1>1. i \in Nat /\ i >= 1 /\ i <= Len(s) + 1 /\ Len(s) \in Nat BY LenProperties
<1>2. b \in Seq(T) /\ Len(b) = i - 1 /\ \A j \in 1..(i - 1) : b[j] = s[j]
  <2>1. 1 \in 1..(Len(s) + 1) /\ i - 1 \in 0..Len(s) BY <1>1
  <2>2. /\ b \in Seq(T)
        /\ Len(b) = IF 1 <= i - 1 THEN i - 1 - 1 + 1 ELSE 0
        /\ \A j \in 1..(i - 1 - 1 + 1) : b[j] = s[1 + j - 1]
    <3>1. \A j \in 1..(i - 1) : j \in 1..Len(s) BY <1>1
    <3> QED BY <2>1, <3>1, SubSeqProperties
  <2> HIDE DEF b
  <2>3. Len(b) = i - 1 BY ONLY <1>1, <2>2
  <2>4. ASSUME NEW j \in 1..(i - 1) PROVE b[j] = s[j]
    <3>1. i - 1 - 1 + 1 = i - 1 /\ 1 + j - 1 = j BY ONLY <1>1, j \in 1..(i - 1)
    <3> QED BY ONLY <2>2, <3>1, j \in 1..(i - 1)
  <2> QED BY ONLY <2>2, <2>3, <2>4
<1>3. c \in Seq(T) /\ Len(c) = Len(s) - i + 1 /\ \A j \in 1..(Len(s) - i + 1) : c[j] = s[i + j - 1]
  <2>1. i \in 1..(Len(s) + 1) /\ Len(s) \in 0..Len(s) BY <1>1
  <2>2. /\ c \in Seq(T)
        /\ Len(c) = IF i <= Len(s) THEN Len(s) - i + 1 ELSE 0
        /\ \A j \in 1..(Len(s) - i + 1) : c[j] = s[i + j - 1]
    BY <2>1, SubSeqProperties
  <2> HIDE DEF c
  <2>3. Len(c) = Len(s) - i + 1 BY ONLY <1>1, <2>2
  <2> QED BY ONLY <2>2, <2>3
<1>4. r = (b \o <<e>>) \o c BY DEF Loop!InsertAt
<1> HIDE DEF b, c, r
<1>5. <<e>> \in Seq(T) /\ Len(<<e>>) = 1 /\ <<e>>[1] = e OBVIOUS
<1> DEFINE d == b \o <<e>>
<1>6. /\ d \in Seq(T) /\ Len(d) = i
      /\ \A j \in 1..i : d[j] = IF j <= i - 1 THEN b[j] ELSE e
  <2>1. /\ d \in Seq(T) /\ Len(d) = Len(b) + Len(<<e>>)
        /\ \A j \in 1..Len(b) + Len(<<e>>) :
             d[j] = IF j <= Len(b) THEN b[j] ELSE <<e>>[j - Len(b)]
    BY <1>2, <1>5, ConcatProperties
  <2>2. Len(b) + Len(<<e>>) = i BY <1>1, <1>2, <1>5
  <2>3. ASSUME NEW j \in 1..i PROVE d[j] = IF j <= i - 1 THEN b[j] ELSE e
    <3>1. CASE j <= i - 1 BY <3>1, <2>1, <2>2, <1>2
    <3>2. CASE ~(j <= i - 1)
      <4>1. j = i /\ j - Len(b) = 1 BY <3>2, <1>1, <1>2
      <4>2. d[j] = <<e>>[j - Len(b)] BY <3>2, <2>1, <2>2, <1>2
      <4> QED BY <3>2, <4>1, <4>2, <1>5
    <3> QED BY <3>1, <3>2
  <2> HIDE DEF d
  <2> QED BY <2>1, <2>2, <2>3
<1>7. r = d \o c BY <1>4
<1> HIDE DEF d
<1>8. /\ r \in Seq(T) /\ Len(r) = Len(s) + 1
      /\ \A j \in 1..(Len(s) + 1) : r[j] = IF j <= i THEN d[j] ELSE c[j - i]
  <2>1. /\ d \o c \in Seq(T) /\ Len(d \o c) = Len(d) + Len(c)
        /\ \A j \in 1..Len(d) + Len(c) :
             (d \o c)[j] = IF j <= Len(d) THEN d[j] ELSE c[j - Len(d)]
    BY <1>3, <1>6, ConcatProperties
  <2>2. Len(d) + Len(c) = Len(s) + 1 BY <1>1, <1>3, <1>6
  <2> QED BY <1>6, <1>7, <2>1, <2>2
<1>9. ASSUME NEW j \in 1..(Len(s) + 1)
      PROVE  r[j] = IF j < i THEN s[j] ELSE IF j = i THEN e ELSE s[j - 1]
  <2>1. CASE j < i
    <3>1. j \in 1..i /\ j <= i - 1 /\ j \in 1..(i - 1) BY <2>1, <1>1
    <3>2. r[j] = d[j] BY <2>1, <1>8
    <3> QED BY <2>1, <3>1, <3>2, <1>6, <1>2
  <2>2. CASE j = i
    <3>1. j \in 1..i /\ ~(j <= i - 1) BY <2>2, <1>1
    <3>2. r[j] = d[j] BY <2>2, <1>8
    <3> QED BY <2>2, <3>1, <3>2, <1>6
  <2>3. CASE j > i
    <3> DEFINE m == j - i
    <3>1. m \in 1..(Len(s) - i + 1) /\ i + m - 1 = j - 1 BY <2>3, <1>1
    <3>2. r[j] = c[m]
      <4>1. ~(j <= i) BY <2>3, <1>1
      <4> QED BY <4>1, <1>8
    <3>3. ~(j < i) /\ j /= i BY <2>3, <1>1
    <3> HIDE DEF m
    <3> QED BY <3>1, <3>2, <3>3, <1>3
  <2> QED BY <2>1, <2>2, <2>3, <1>1
<1>10. Puts(T, r, s, i, e) BY ONLY <1>8, <1>9 DEF Puts
<1> QED BY <1>10 DEF r

-----------------------------------------------------------------------------
-----------------------------------------------------------------------------
(* The timeline of a loop's clock. *)

Event == [state : Loop!States, time : Nat, said : Nat]

InOrder(line) == /\ line \in Seq(Event)
                 /\ \A i, j \in DOMAIN line : i <= j => line[i].time <= line[j].time

LEMMA InOrderTimes ==
  ASSUME NEW line, InOrder(line)
  PROVE  /\ Len(line) \in Nat /\ DOMAIN line = 1..Len(line)
         /\ \A i \in DOMAIN line : /\ line[i] \in Event /\ line[i].time \in Nat
                                   /\ line[i].said \in Nat /\ line[i].state \in Loop!States
<1>1. line \in Seq(Event) BY DEF InOrder
<1>2. \A i \in DOMAIN line : line[i] \in Event BY <1>1
<1> QED BY <1>1, <1>2 DEF Event

\* There is a number of events for t or before.
LEMMA UptoIs ==
  ASSUME NEW line, InOrder(line), NEW t \in Int
  PROVE  /\ Loop!Upto(line, t) \in 0..Len(line)
         /\ \A i \in DOMAIN line : line[i].time <= t <=> i <= Loop!Upto(line, t)
<1> DEFINE S == {k \in Nat : \A i \in DOMAIN line : line[i].time <= t => i <= k}
<1>1. Len(line) \in Nat /\ DOMAIN line = 1..Len(line) BY InOrderTimes
<1>2. Len(line) \in S BY <1>1
<1>3. PICK k \in S : \A y \in S : k <= y
  <2>1. S \in SUBSET Nat /\ S /= {} BY <1>2
  <2> HIDE DEF S
  <2> QED BY <2>1, LeastOf
<1>4. k \in 0..Len(line)
  <2>1. k <= Len(line) BY <1>2, <1>3
  <2>2. k \in Nat OBVIOUS
  <2> HIDE DEF S
  <2> QED BY <2>1, <2>2, <1>1
<1>5. ASSUME NEW i \in DOMAIN line PROVE line[i].time <= t <=> i <= k
  <2>1. line[i].time <= t => i <= k OBVIOUS
  <2>2. ASSUME i <= k PROVE line[i].time <= t
    <3>1. k /= 0 /\ k - 1 \in Nat /\ ~(k <= k - 1) BY <1>1, <1>4, <2>2
    <3>2. k - 1 \notin S BY <1>3, <3>1
    <3>3. PICK j \in DOMAIN line : line[j].time <= t /\ ~(j <= k - 1) BY <3>1, <3>2
    <3>4. i <= j /\ i \in Nat BY <1>1, <1>4, <2>2, <3>3
    <3>5. line[i].time <= line[j].time BY <3>4 DEF InOrder
    <3>6. line[i].time \in Nat /\ line[j].time \in Nat BY InOrderTimes
    <3> QED BY <3>3, <3>5, <3>6
  <2> QED BY <2>1, <2>2
<1> HIDE DEF S
<1> QED BY <1>4, <1>5 DEF Loop!Upto

\* It is the only one.
LEMMA UptoOnly ==
  ASSUME NEW line, InOrder(line), NEW t \in Int, NEW k \in 0..Len(line),
         \A i \in DOMAIN line : line[i].time <= t <=> i <= k
  PROVE  Loop!Upto(line, t) = k
<1> DEFINE u == Loop!Upto(line, t)
<1>1. Len(line) \in Nat /\ DOMAIN line = 1..Len(line) BY InOrderTimes
<1>2. u \in 0..Len(line) /\ \A i \in DOMAIN line : line[i].time <= t <=> i <= u BY UptoIs
<1> HIDE DEF u
<1>3. u > 0 => u \in 1..Len(line) BY <1>1, <1>2
<1>4. k > 0 => k \in 1..Len(line) BY <1>1
<1>5. u > 0 => u <= k BY <1>1, <1>2, <1>3
<1>6. k > 0 => k <= u BY <1>1, <1>2, <1>4
<1>7. u = k BY <1>1, <1>2, <1>5, <1>6
<1> QED BY <1>7 DEF u

\* The event at a time is one of the timeline, for that time or before, or a stop.
LEMMA EventAtIs ==
  ASSUME NEW line, InOrder(line), NEW t \in Nat
  PROVE  /\ Loop!EventAt(line, t) \in Event /\ Loop!EventAt(line, t).time \in Nat
         /\ Loop!EventAt(line, t).time <= t
         /\ Loop!EventAt(line, t).said \in Nat /\ Loop!StateAt(line, t) \in Loop!States
         /\ Loop!StateAt(line, t) = "started" =>
              \E i \in DOMAIN line : Loop!EventAt(line, t) = line[i]
<1> DEFINE k == Loop!Upto(line, t)
<1>1. Len(line) \in Nat /\ DOMAIN line = 1..Len(line) BY InOrderTimes
<1>2. k \in 0..Len(line) /\ \A i \in DOMAIN line : line[i].time <= t <=> i <= k BY UptoIs
<1>3. CASE k = 0
  <2>1. Loop!EventAt(line, t) = [state |-> "stopped", time |-> 0, said |-> 0]
    BY <1>3 DEF Loop!EventAt
  <2> QED BY <2>1 DEF Loop!StateAt, Event, Loop!States
<1>4. CASE k /= 0
  <2>1. Loop!EventAt(line, t) = line[k] BY <1>4 DEF Loop!EventAt
  <2> HIDE DEF k
  <2>2. k \in DOMAIN line /\ k <= k BY <1>1, <1>2, <1>4
  <2>3. line[k] \in Event /\ line[k].time \in Nat /\ line[k].time <= t
        /\ line[k].said \in Nat /\ line[k].state \in Loop!States
    BY <1>2, <2>2, InOrderTimes
  <2> QED BY <2>1, <2>2, <2>3 DEF Loop!StateAt
<1> QED BY <1>3, <1>4

\* After its last event a timeline does not change.
LEMMA LateSame ==
  ASSUME NEW line, InOrder(line), NEW v \in Nat, NEW u \in Nat, v <= u,
         \A i \in DOMAIN line : line[i].time <= v
  PROVE  Loop!EventAt(line, u) = Loop!EventAt(line, v)
<1>1. Len(line) \in Nat /\ DOMAIN line = 1..Len(line) /\ Len(line) \in 0..Len(line)
  BY InOrderTimes
<1>2. \A i \in DOMAIN line : line[i].time <= u /\ i <= Len(line)
  <2>1. \A i \in DOMAIN line : line[i].time \in Nat BY InOrderTimes
  <2> QED BY <1>1, <2>1
<1>3. /\ u \in Int /\ \A i \in DOMAIN line : line[i].time <= u <=> i <= Len(line)
      /\ v \in Int /\ \A i \in DOMAIN line : line[i].time <= v <=> i <= Len(line)
  BY <1>2
<1>4. Loop!Upto(line, u) = Len(line) /\ Loop!Upto(line, v) = Len(line) BY <1>1, <1>3, UptoOnly
<1> QED BY <1>4 DEF Loop!EventAt

\* The event that a call adds.
Told(s, t) == [state |-> s, time |-> t, said |-> lp_now]

\* r is the timeline s with the event e put in at i.
IsPut(r, s, i, e) ==
  /\ r \in Seq(Event) /\ Len(r) = Len(s) + 1
  /\ \A j \in 1..(Len(s) + 1) : r[j] = IF j < i THEN s[j] ELSE IF j = i THEN e ELSE s[j - 1]

\* What putting an event in does, in one fact.
LEMMA PutEvent ==
  ASSUME NEW s \in Seq(Event), NEW i \in 1..(Len(s) + 1), NEW e \in Event
  PROVE  IsPut(Loop!InsertAt(s, i, e), s, i, e)
<1>1. Puts(Event, Loop!InsertAt(s, i, e), s, i, e) BY PutIn
<1> QED BY ONLY <1>1 DEF Puts, IsPut

\* An event added at t: the timeline is as it was before t, and after a later event; in between it is
\* at the event added.
LEMMA AddedAt ==
  ASSUME NEW line, InOrder(line), NEW s \in Loop!States, NEW t \in Nat, lp_now \in Nat
  PROVE  /\ InOrder(Loop!Add(line, s, t))
         /\ \A j \in DOMAIN Loop!Add(line, s, t) :
              Loop!Add(line, s, t)[j] = Told(s, t) \/ \E i \in DOMAIN line : Loop!Add(line, s,
                t)[j] = line[i]
         /\ \A u \in Nat : u < t => Loop!EventAt(Loop!Add(line, s, t), u) = Loop!EventAt(line, u)
         /\ \A u \in Nat : t <= u => IF \A i \in DOMAIN line : line[i].time <= u =>
              line[i].time <= t
                                     THEN Loop!EventAt(Loop!Add(line, s, t), u) = Told(s, t)
                                     ELSE Loop!EventAt(Loop!Add(line, s, t),
                                       u) = Loop!EventAt(line, u)
<1>0. PICK e : e = Told(s, t) OBVIOUS
<1> DEFINE k == Loop!Upto(line, t)
           n == Loop!Add(line, s, t)
<1>1. Len(line) \in Nat /\ DOMAIN line = 1..Len(line) BY InOrderTimes
<1>2. k \in 0..Len(line) /\ \A i \in DOMAIN line : line[i].time <= t <=> i <= k BY UptoIs
<1>3. e \in Event /\ e.time = t BY <1>0 DEF Event, Told
<1>4. /\ n \in Seq(Event) /\ Len(n) = Len(line) + 1
      /\ \A j \in 1..(Len(line) + 1) :
           n[j] = IF j < k + 1 THEN line[j] ELSE IF j = k + 1 THEN e ELSE line[j - 1]
  <2>1. n = Loop!InsertAt(line, k + 1, e) BY <1>0 DEF Loop!Add, Told
  <2>2. k + 1 \in 1..(Len(line) + 1) BY <1>1, <1>2
  <2>3. line \in Seq(Event) BY DEF InOrder
  <2> HIDE DEF n, k
  <2>4. IsPut(Loop!InsertAt(line, k + 1, e), line, k + 1, e)
    <3>1. e \in Event BY <1>3
    <3> QED BY ONLY <2>2, <2>3, <3>1, PutEvent
  <2>5. IsPut(n, line, k + 1, e) BY ONLY <2>1, <2>4
  <2> QED BY ONLY <2>5 DEF IsPut
<1>5. DOMAIN n = 1..(Len(line) + 1) BY <1>4
<1>6. \A i \in DOMAIN line : line[i].time \in Nat BY InOrderTimes
<1> HIDE DEF n, k
<1>7. ASSUME NEW j \in DOMAIN n
      PROVE  /\ j <= k => j \in DOMAIN line /\ n[j] = line[j]
             /\ j = k + 1 => n[j] = e
             /\ j > k + 1 => j - 1 \in DOMAIN line /\ n[j] = line[j - 1]
  <2>1. j \in Nat /\ j >= 1 /\ j <= Len(line) + 1 BY <1>1, <1>5
  <2>2. j <= k => j \in DOMAIN line /\ n[j] = line[j] BY <2>1, <1>1, <1>2, <1>4
  <2>3. j = k + 1 => n[j] = e BY <2>1, <1>1, <1>2, <1>4
  <2>4. j > k + 1 => j - 1 \in DOMAIN line /\ n[j] = line[j - 1] BY <2>1, <1>1, <1>2, <1>4
  <2> QED BY <2>2, <2>3, <2>4
<1>8. InOrder(n)
  <2> SUFFICES ASSUME NEW i \in DOMAIN n, NEW j \in DOMAIN n, i <= j
               PROVE  n[i].time <= n[j].time
    BY <1>4 DEF InOrder
  <2>0. i \in Nat /\ j \in Nat /\ k \in Nat BY <1>1, <1>2, <1>5
  <2>1. CASE j <= k
    <3>1. i <= k BY <2>0, <2>1
    <3> QED BY <3>1, <2>1, <1>7 DEF InOrder
  <2>2. CASE j = k + 1 /\ i <= k
    <3>1. i \in DOMAIN line /\ line[i].time <= t BY <2>2, <1>2, <1>7
    <3> QED BY <3>1, <2>2, <1>3, <1>7
  <2>3. CASE j = k + 1 /\ i = k + 1
    BY <2>3, <1>7, <1>3
  <2>4. CASE j > k + 1 /\ i <= k
    <3>1. i \in DOMAIN line /\ n[i] = line[i] BY <2>4, <1>7
    <3>2. j - 1 \in DOMAIN line /\ n[j] = line[j - 1] /\ i <= j - 1 BY <2>0, <2>4, <1>7
    <3> QED BY <3>1, <3>2 DEF InOrder
  <2>5. CASE j > k + 1 /\ i = k + 1
    <3>1. j - 1 \in DOMAIN line /\ n[j] = line[j - 1] /\ ~(j - 1 <= k) BY <2>0, <2>5, <1>7
    <3>2. ~(line[j - 1].time <= t) /\ line[j - 1].time \in Nat BY <3>1, <1>2, <1>6
    <3> QED BY <3>1, <3>2, <2>5, <1>3, <1>7
  <2>6. CASE j > k + 1 /\ i > k + 1
    <3>1. i - 1 \in DOMAIN line /\ n[i] = line[i - 1] BY <2>6, <1>7
    <3>2. j - 1 \in DOMAIN line /\ n[j] = line[j - 1] /\ i - 1 <= j - 1 BY <2>0, <2>6, <1>7
    <3> QED BY <3>1, <3>2 DEF InOrder
  <2> QED BY <2>0, <2>1, <2>2, <2>3, <2>4, <2>5, <2>6
<1>9. ASSUME NEW j \in DOMAIN n
      PROVE  n[j] = e \/ \E i \in DOMAIN line : n[j] = line[i]
  <2>1. j \in Nat /\ k \in Nat BY <1>1, <1>2, <1>5
  <2>2. j <= k \/ j = k + 1 \/ j > k + 1 BY <2>1
  <2> QED BY <2>2, <1>7
<1>10. ASSUME NEW u \in Nat, u < t PROVE Loop!EventAt(n, u) = Loop!EventAt(line, u)
  <2> DEFINE m == Loop!Upto(line, u)
  <2>1. m \in 0..Len(line) /\ \A i \in DOMAIN line : line[i].time <= u <=> i <= m
    <3>1. u \in Int OBVIOUS
    <3> QED BY <3>1, UptoIs
  <2> HIDE DEF m
  <2>2. m <= k
    <3>1. m > 0 => m \in DOMAIN line BY <1>1, <2>1
    <3>2. m > 0 => line[m].time <= u /\ line[m].time \in Nat BY <3>1, <2>1, <1>1, <1>6
    <3>3. m > 0 => line[m].time <= t BY <3>2, <1>10
    <3> QED BY <3>1, <3>3, <2>1, <1>1, <1>2
  <2>3. ASSUME NEW j \in DOMAIN n PROVE n[j].time <= u <=> j <= m
    <3>0. j \in Nat /\ k \in Nat /\ m \in Nat BY <1>1, <1>2, <1>5, <2>1
    <3>1. CASE j <= k BY <3>1, <1>7, <2>1
    <3>2. CASE j = k + 1
      <4>1. n[j].time = t /\ ~(j <= m) BY <3>0, <3>2, <2>2, <1>3, <1>7
      <4> QED BY <4>1, <1>10
    <3>3. CASE j > k + 1
      <4>1. j - 1 \in DOMAIN line /\ n[j] = line[j - 1] /\ ~(j - 1 <= m) /\ ~(j <= m)
        BY <3>0, <3>3, <2>2, <1>7
      <4> QED BY <4>1, <2>1
    <3> QED BY <3>0, <3>1, <3>2, <3>3
  <2>4. Loop!Upto(n, u) = m
    <3>1. m \in 0..Len(n) BY <2>1, <1>1, <1>4
    <3> QED BY <3>1, <2>3, <1>8, UptoOnly
  <2>5. m /= 0 => n[m] = line[m]
    <3>1. m /= 0 => m \in DOMAIN n BY <2>1, <1>1, <1>5
    <3> QED BY <3>1, <2>2, <1>7
  <2> QED BY <2>4, <2>5 DEF Loop!EventAt, m
<1>11. ASSUME NEW u \in Nat, t <= u
       PROVE  IF \A i \in DOMAIN line : line[i].time <= u => line[i].time <= t
              THEN Loop!EventAt(n, u) = e ELSE Loop!EventAt(n, u) = Loop!EventAt(line, u)
  <2> DEFINE m == Loop!Upto(line, u)
  <2>1. m \in 0..Len(line) /\ \A i \in DOMAIN line : line[i].time <= u <=> i <= m
    <3>1. u \in Int OBVIOUS
    <3> QED BY <3>1, UptoIs
  <2>a. m = Loop!Upto(line, u) OBVIOUS
  <2> HIDE DEF m
  <2>0. k \in Nat /\ m \in Nat BY <1>1, <1>2, <2>1
  <2>2. k <= m
    <3>1. k > 0 => k \in DOMAIN line BY <1>1, <1>2
    <3>2. k > 0 => line[k].time <= t /\ line[k].time \in Nat BY <3>1, <2>0, <1>2, <1>6
    <3>3. k > 0 => line[k].time <= u BY <3>2, <1>11
    <3> QED BY <3>1, <3>3, <2>0, <2>1
  <2>3. ASSUME NEW j \in DOMAIN n PROVE n[j].time <= u <=> j <= m + 1
    <3>0. j \in Nat BY <1>1, <1>5
    <3>1. CASE j <= k
      <4>1. j \in DOMAIN line /\ n[j] = line[j] /\ j <= m /\ j <= m + 1
        BY <3>0, <3>1, <2>0, <2>2, <1>7
      <4> QED BY <4>1, <2>1
    <3>2. CASE j = k + 1
      <4>1. n[j].time = t /\ j <= m + 1 BY <3>2, <2>0, <2>2, <1>3, <1>7
      <4> QED BY <4>1, <1>11
    <3>3. CASE j > k + 1
      <4>1. j - 1 \in DOMAIN line /\ n[j] = line[j - 1] BY <3>3, <1>7
      <4>2. j - 1 <= m <=> j <= m + 1 BY <3>0, <2>0
      <4> QED BY <4>1, <4>2, <2>1
    <3> QED BY <3>0, <2>0, <3>1, <3>2, <3>3
  <2>4. Loop!Upto(n, u) = m + 1
    <3>1. m + 1 \in 0..Len(n) BY <2>1, <1>1, <1>4
    <3> QED BY <3>1, <2>3, <1>8, UptoOnly
  <2>5. m + 1 \in DOMAIN n BY <2>0, <2>1, <1>1, <1>5
  <2>6. Loop!EventAt(n, u) = n[m + 1]
    <3>1. m + 1 /= 0 BY <2>0
    <3> QED BY <3>1, <2>4 DEF Loop!EventAt
  <2>7. CASE m = k
    <3>1. Loop!EventAt(n, u) = e BY <2>5, <2>6, <2>7, <1>7
    <3>2. \A i \in DOMAIN line : line[i].time <= u => line[i].time <= t BY <2>1, <2>7, <1>2
    <3> QED BY <3>1, <3>2
  <2>8. CASE m /= k
    <3>1. m \in DOMAIN line /\ m <= m /\ ~(m <= k) BY <2>0, <2>1, <2>2, <2>8, <1>1
    <3>2. line[m].time <= u /\ ~(line[m].time <= t) BY <3>1, <2>1, <1>2
    <3>3. Loop!EventAt(n, u) = line[m]
      <4>1. m + 1 > k + 1 /\ (m + 1) - 1 = m BY <2>0, <2>2, <2>8
      <4>2. n[m + 1] = line[(m + 1) - 1] BY <4>1, <2>5, <1>7
      <4> QED BY <2>6, <4>1, <4>2
    <3>4. Loop!EventAt(line, u) = line[m]
      <4>1. m /= 0 BY <2>0, <2>2, <2>8
      <4> QED BY <4>1, <2>a DEF Loop!EventAt
    <3> QED BY <3>1, <3>2, <3>3, <3>4
  <2> QED BY <2>7, <2>8
<1> QED BY <1>0, <1>8, <1>9, <1>10, <1>11 DEF n

\* What a timeline's events say was said by n.
SaidBy(line, n) == \A i \in DOMAIN line : line[i].said <= n

LEMMA AddKeeps ==
  ASSUME NEW line, InOrder(line), NEW s \in Loop!States, NEW t \in Nat, lp_now \in Nat,
           SaidBy(line, lp_now)
  PROVE  InOrder(Loop!Add(line, s, t)) /\ SaidBy(Loop!Add(line, s, t), lp_now)
<1> DEFINE e == Told(s, t)
           n == Loop!Add(line, s, t)
<1>1. e.said <= lp_now BY DEF Told
<1>2. /\ InOrder(n)
      /\ \A j \in DOMAIN n : n[j] = e \/ \E i \in DOMAIN line : n[j] = line[i]
  BY AddedAt
<1> HIDE DEF e, n
<1>3. ASSUME NEW j \in DOMAIN n PROVE n[j].said <= lp_now BY <1>1, <1>2 DEF SaidBy
<1>4. InOrder(n) /\ SaidBy(n, lp_now) BY <1>2, <1>3 DEF SaidBy
<1> QED BY <1>4 DEF n

LEMMA CancelKeeps ==
  ASSUME NEW line, InOrder(line), NEW t \in Nat, NEW n, SaidBy(line, n)
  PROVE  /\ InOrder(Loop!Cancel(line, t)) /\ SaidBy(Loop!Cancel(line, t), n)
         /\ \A i \in DOMAIN Loop!Cancel(line, t) : Loop!Cancel(line, t)[i].time < t
<1> DEFINE k == Loop!Upto(line, t - 1)
           c == Loop!Cancel(line, t)
<1>1. Len(line) \in Nat /\ DOMAIN line = 1..Len(line) /\ line \in Seq(Event)
  BY InOrderTimes DEF InOrder
<1>2. k \in 0..Len(line) /\ \A i \in DOMAIN line : line[i].time <= t - 1 <=> i <= k
  <2>1. t - 1 \in Int OBVIOUS
  <2> QED BY <2>1, UptoIs
<1>3. c = SubSeq(line, 1, k) BY DEF Loop!Cancel
<1> HIDE DEF k, c
<1>4. c \in Seq(Event) /\ Len(c) = k /\ \A i \in 1..k : c[i] = line[i]
  <2>1. 1 \in 1..(Len(line) + 1) /\ k \in 0..Len(line) BY <1>1, <1>2
  <2>2. /\ c \in Seq(Event)
        /\ Len(c) = IF 1 <= k THEN k - 1 + 1 ELSE 0
        /\ \A j \in 1..(k - 1 + 1) : c[j] = line[1 + j - 1]
    <3>1. \A j \in 1..k : j \in 1..Len(line) BY <1>1, <1>2
    <3> QED BY <1>1, <1>3, <2>1, <3>1, SubSeqProperties
  <2> QED BY <1>1, <1>2, <2>2
<1>5. DOMAIN c = 1..k BY <1>4
<1>6. \A i \in DOMAIN c : i \in DOMAIN line /\ i <= k /\ c[i] = line[i] BY <1>1, <1>2, <1>4, <1>5
<1>7. InOrder(c) BY <1>4, <1>6 DEF InOrder
<1>8. SaidBy(c, n) BY <1>6 DEF SaidBy
<1>9. ASSUME NEW i \in DOMAIN c PROVE c[i].time < t
  <2>1. c[i].time <= t - 1 BY <1>2, <1>6
  <2>2. c[i].time \in Nat BY <1>6, InOrderTimes
  <2> QED BY <2>1, <2>2
<1> QED BY <1>7, <1>8, <1>9 DEF c

LEMMA StartedKeeps ==
  ASSUME NEW line, InOrder(line), NEW t \in Nat, lp_now \in Nat, SaidBy(line, lp_now)
  PROVE  InOrder(Loop!Started(line, t)) /\ SaidBy(Loop!Started(line, t), lp_now)
<1>1. "started" \in Loop!States BY DEF Loop!States
<1>2. InOrder(Loop!Add(line, "started", t)) /\ SaidBy(Loop!Add(line, "started", t), lp_now)
  BY <1>1, AddKeeps
<1> QED BY <1>2 DEF Loop!Started

LEMMA PausedKeeps ==
  ASSUME NEW line, InOrder(line), NEW t \in Nat, lp_now \in Nat, SaidBy(line, lp_now)
  PROVE  InOrder(Loop!Paused(line, t)) /\ SaidBy(Loop!Paused(line, t), lp_now)
<1>1. "paused" \in Loop!States BY DEF Loop!States
<1>2. InOrder(Loop!Add(line, "paused", t)) /\ SaidBy(Loop!Add(line, "paused", t), lp_now)
  BY <1>1, AddKeeps
<1> QED BY <1>2 DEF Loop!Paused

\* A clock stopped at t is stopped from then on.
LEMMA StoppedFrom ==
  ASSUME NEW line, InOrder(line), NEW t \in Nat, lp_now \in Nat, SaidBy(line, lp_now)
  PROVE  /\ InOrder(Loop!Stopped(line, t)) /\ SaidBy(Loop!Stopped(line, t), lp_now)
         /\ \A u \in Nat : t <= u => Loop!StateAt(Loop!Stopped(line, t), u) = "stopped"
<1> DEFINE c == Loop!Cancel(line, t)
           e == Told("stopped", t)
<1>1. "stopped" \in Loop!States /\ e.state = "stopped" BY DEF Loop!States, Told
<1>2. InOrder(c) /\ SaidBy(c, lp_now) /\ \A i \in DOMAIN c : c[i].time < t BY CancelKeeps
<1>3. Loop!Stopped(line, t) = Loop!Add(c, "stopped", t) BY DEF Loop!Stopped
<1> HIDE DEF c
<1>4. InOrder(Loop!Add(c, "stopped", t)) /\ SaidBy(Loop!Add(c, "stopped", t), lp_now)
  BY <1>1, <1>2, AddKeeps
<1>5. ASSUME NEW u \in Nat, t <= u PROVE Loop!EventAt(Loop!Add(c, "stopped", t), u) = e
  <2>1. \A i \in DOMAIN c : c[i].time <= u => c[i].time <= t
    <3>1. \A i \in DOMAIN c : c[i].time \in Nat BY <1>2, InOrderTimes
    <3> QED BY <1>2, <3>1
  <2>2. \A v \in Nat : t <= v => IF \A i \in DOMAIN c : c[i].time <= v => c[i].time <= t
                                 THEN Loop!EventAt(Loop!Add(c, "stopped", t), v) = e
                                 ELSE Loop!EventAt(Loop!Add(c, "stopped", t), v) = Loop!EventAt(c,
                                   v)
    BY <1>1, <1>2, AddedAt
  <2> HIDE DEF e
  <2> QED BY <1>5, <2>1, <2>2
<1>6. \A u \in Nat : t <= u => Loop!StateAt(Loop!Stopped(line, t), u) = "stopped"
  BY <1>1, <1>3, <1>5 DEF Loop!StateAt
<1> QED BY <1>3, <1>4, <1>6

-----------------------------------------------------------------------------
(* The turns of a clock. *)

\* The clock made k calls and n ticks: fewer calls than ticks, unless it began late, for its first
\* tick then calls nobody.
Counted(k, n, state, late) ==
  /\ k <= n /\ (state = "started" => n >= 1)
  /\ ~late => k <= maxIterations /\ (n >= 1 => k <= n - 1)

Clock == [next : Nat, last : Loop!States, ticks : Nat, calls : Nat, delayed : BOOLEAN, at : Nat]

\* The clock of a loop, before any turn.
Begins(l) == [next |-> nextTick[l], last |-> lastState[l], ticks |-> ticks[l],
              calls |-> lp_calls[l], delayed |-> delayed[l], at |-> 0]

LEMMA TurnIs ==
  ASSUME NEW l, InOrder(timeline[l]), SaidBy(timeline[l], lp_now), lp_now \in Nat,
           period[l] \in Nat \ {0},
         NEW c \in Clock
  PROVE  LET s == Loop!StateAt(timeline[l], c.next)
             e == Loop!EventAt(timeline[l], c.next)
             t == Loop!Turn(l, c)
         IN /\ t \in Clock /\ t.last = s
            /\ s = "started" /\ c.last /= "started" =>
                 /\ e.time \in Nat /\ e.time <= c.next /\ t.next = e.time + period[l]
                 /\ t.ticks = c.ticks + 1
                 /\ IF Loop!Calls(e.time, c.ticks) THEN t.calls = c.calls + 1 /\ t.at = e.time
                    ELSE t.calls = c.calls /\ t.at = c.at
                 /\ IF c.ticks = 0 THEN t.delayed = (e.time > e.said) /\ e.said \in Nat
                      /\ e.said <= lp_now
                    ELSE t.delayed = c.delayed
            /\ s = "started" /\ c.last = "started" =>
                 /\ t.next = c.next + period[l] /\ t.ticks = c.ticks + 1 /\ t.delayed = c.delayed
                 /\ IF Loop!Calls(c.next, c.ticks) THEN t.calls = c.calls + 1 /\ t.at = c.next
                    ELSE t.calls = c.calls /\ t.at = c.at
            /\ s /= "started" =>
                 /\ t.next = c.next + period[l] /\ t.delayed = c.delayed /\ t.at = c.at
                 /\ \/ t.ticks = c.ticks /\ t.calls = c.calls
                    \/ t.ticks = 0 /\ t.calls = 0
<1> DEFINE s == Loop!StateAt(timeline[l], c.next)
           e == Loop!EventAt(timeline[l], c.next)
           t == Loop!Turn(l, c)
<1>1. /\ c.next \in Nat /\ c.last \in Loop!States /\ c.ticks \in Nat /\ c.calls \in Nat
      /\ c.delayed \in BOOLEAN /\ c.at \in Nat
  BY DEF Clock
<1>2. /\ e \in Event /\ e.time \in Nat /\ e.time <= c.next /\ e.said \in Nat /\ s \in Loop!States
      /\ s = "started" => e.said <= lp_now
  <2>1. /\ e \in Event /\ e.time \in Nat /\ e.time <= c.next /\ e.said \in Nat /\ s \in Loop!States
        /\ s = "started" => \E i \in DOMAIN timeline[l] : e = timeline[l][i]
    <3>1. PICK line, u : line = timeline[l] /\ u = c.next /\ u \in Nat BY <1>1
    <3>2. InOrder(line) BY <3>1
    <3>3. /\ Loop!EventAt(line, u) \in Event /\ Loop!EventAt(line, u).time \in Nat
          /\ Loop!EventAt(line, u).time <= u
          /\ Loop!EventAt(line, u).said \in Nat /\ Loop!StateAt(line, u) \in Loop!States
          /\ Loop!StateAt(line, u) = "started" =>
               \E i \in DOMAIN line : Loop!EventAt(line, u) = line[i]
      BY ONLY <3>1, <3>2, EventAtIs
    <3>4. e = Loop!EventAt(line, u) /\ s = Loop!StateAt(line, u) BY <3>1
    <3> HIDE DEF e, s
    <3> QED BY ONLY <3>1, <3>3, <3>4
  <2> HIDE DEF e, s
  <2> QED BY <2>1 DEF SaidBy
<1> DEFINE new == s /= c.last
           at == IF new /\ s = "started" THEN e.time ELSE c.next
           n == IF new /\ s = "stopped" THEN 0 ELSE c.ticks
           called == s = "started" /\ Loop!Calls(at, n)
<1>3. t = [next |-> at + period[l],
           last |-> s,
           ticks |-> IF s = "started" THEN n + 1 ELSE n,
           calls |-> (IF new /\ s = "stopped" THEN 0 ELSE c.calls) + (IF called THEN 1 ELSE 0),
           delayed |-> IF new /\ s = "started" /\ n = 0 THEN e.time > e.said ELSE c.delayed,
           at    |-> IF called THEN at ELSE c.at]
  BY DEF Loop!Turn
<1> HIDE DEF s, e, t
<1>4. at \in Nat /\ n \in Nat /\ called \in BOOLEAN
  <2>1. at \in Nat /\ n \in Nat BY <1>1, <1>2
  <2>2. called \in BOOLEAN BY DEF Loop!Calls
  <2> QED BY <2>1, <2>2
<1>5. /\ t.next = at + period[l] /\ t.last = s /\ t.ticks = IF s = "started" THEN n + 1 ELSE n
      /\ t.calls = (IF new /\ s = "stopped" THEN 0 ELSE c.calls) + (IF called THEN 1 ELSE 0)
      /\ t.delayed = (IF new /\ s = "started" /\ n = 0 THEN e.time > e.said ELSE c.delayed)
      /\ t.at = IF called THEN at ELSE c.at
  <2> HIDE DEF new, at, n, called
  <2> QED BY <1>3
<1>6. t \in Clock
  <2>1. /\ at + period[l] \in Nat /\ (IF s = "started" THEN n + 1 ELSE n) \in Nat
        /\ (IF new /\ s = "stopped" THEN 0 ELSE c.calls) + (IF called THEN 1 ELSE 0) \in Nat
        /\ (IF called THEN at ELSE c.at) \in Nat
    <3>1. (IF new /\ s = "stopped" THEN 0 ELSE c.calls) \in Nat BY <1>1
    <3>2. (IF called THEN 1 ELSE 0) \in Nat OBVIOUS
    <3> HIDE DEF new, at, n, called
    <3> QED BY <1>1, <1>4, <3>1, <3>2
  <2>2. (IF new /\ s = "started" /\ n = 0 THEN e.time > e.said ELSE c.delayed) \in BOOLEAN
    <3>1. (e.time > e.said) \in BOOLEAN BY <1>2
    <3> QED BY <1>1, <3>1
  <2> HIDE DEF new, at, n, called
  <2> QED BY <1>2, <1>3, <2>1, <2>2 DEF Clock
<1>7. CASE s = "started" /\ c.last /= "started"
  <2>1. new /\ at = e.time /\ n = c.ticks /\ (called <=> Loop!Calls(e.time, c.ticks)) BY <1>7
  <2> HIDE DEF new, at, n, called
  <2>2. t.next = e.time + period[l] /\ t.ticks = c.ticks + 1 BY <1>5, <1>7, <2>1
  <2>3. IF Loop!Calls(e.time, c.ticks) THEN t.calls = c.calls + 1 /\ t.at = e.time
        ELSE t.calls = c.calls /\ t.at = c.at
    <3>1. t.calls = c.calls + (IF called THEN 1 ELSE 0) BY <1>5, <1>7
    <3>2. CASE Loop!Calls(e.time, c.ticks) BY <3>1, <3>2, <1>5, <2>1
    <3>3. CASE ~Loop!Calls(e.time, c.ticks) BY <3>1, <3>3, <1>1, <1>5, <2>1
    <3> QED BY <3>2, <3>3
  <2>4. IF c.ticks = 0 THEN t.delayed = (e.time > e.said) ELSE t.delayed = c.delayed
    BY <1>5, <1>7, <2>1
  <2> QED BY <1>2, <1>5, <1>6, <1>7, <2>2, <2>3, <2>4 DEF s, e, t
<1>8. CASE s = "started" /\ c.last = "started"
  <2>1. ~new /\ at = c.next /\ n = c.ticks /\ (called <=> Loop!Calls(c.next, c.ticks)) BY <1>8
  <2> HIDE DEF new, at, n, called
  <2>2. t.next = c.next + period[l] /\ t.ticks = c.ticks + 1 /\ t.delayed = c.delayed
    BY <1>5, <1>8, <2>1
  <2>3. IF Loop!Calls(c.next, c.ticks) THEN t.calls = c.calls + 1 /\ t.at = c.next
        ELSE t.calls = c.calls /\ t.at = c.at
    <3>1. t.calls = c.calls + (IF called THEN 1 ELSE 0) BY <1>5, <1>8
    <3>2. CASE Loop!Calls(c.next, c.ticks) BY <3>1, <3>2, <1>5, <2>1
    <3>3. CASE ~Loop!Calls(c.next, c.ticks) BY <3>1, <3>3, <1>1, <1>5, <2>1
    <3> QED BY <3>2, <3>3
  <2> QED BY <1>5, <1>6, <1>8, <2>2, <2>3 DEF s, e, t
<1>9. CASE s /= "started"
  <2>1. at = c.next /\ ~called BY <1>9
  <2>2. \/ n = 0 /\ new /\ s = "stopped"
        \/ n = c.ticks /\ ~(new /\ s = "stopped")
    OBVIOUS
  <2> HIDE DEF new, at, n, called
  <2>3. t.next = c.next + period[l] /\ t.delayed = c.delayed /\ t.at = c.at BY <1>5, <1>9, <2>1
  <2>4. (t.ticks = c.ticks /\ t.calls = c.calls) \/ (t.ticks = 0 /\ t.calls = 0)
    BY <1>1, <1>5, <1>9, <2>1, <2>2
  <2> QED BY <1>5, <1>6, <1>9, <2>3, <2>4 DEF s, e, t
<1> QED BY <1>7, <1>8, <1>9

\* One turn, if the next tick is not later than the horizon.
NextTurn(l, c) == IF lp_now + Ahead > c.next THEN Loop!Turn(l, c) ELSE c

\* What the while of a clock has done after n turns.
Run(f, l, n) == f = [i \in 0..n |-> IF i = 0 THEN Begins(l) ELSE NextTurn(l, f[i - 1])]

LEMMA RunExists == ASSUME NEW l, NEW n \in Nat PROVE \E f : Run(f, l, n)
<1> DEFINE S == {k \in Nat : \E f : Run(f, l, k)}
<1>1. 0 \in S
  <2> DEFINE g == [i \in 0..0 |-> Begins(l)]
  <2>1. \A i \in 0..0 : i = 0 OBVIOUS
  <2>2. Run(g, l, 0) BY <2>1 DEF Run
  <2> QED BY <2>2
<1>2. ASSUME NEW m \in 0..(n - 1), m \in S PROVE m + 1 \in S
  <2>1. m \in Nat /\ m + 1 \in Nat OBVIOUS
  <2>2. PICK f : Run(f, l, m) BY <1>2
  <2> DEFINE g == [i \in 0..(m + 1) |-> IF i = m + 1 THEN NextTurn(l, f[m]) ELSE f[i]]
  <2>3. \A i \in 0..m : /\ f[i] = IF i = 0 THEN Begins(l) ELSE NextTurn(l, f[i - 1])
                        /\ g[i] = f[i]
    <3>1. \A i \in 0..m : i \in 0..(m + 1) /\ i /= m + 1 BY <2>1
    <3> HIDE DEF S
    <3> QED BY <2>2, <3>1 DEF Run
  <2>4. ASSUME NEW i \in 0..(m + 1)
        PROVE  g[i] = IF i = 0 THEN Begins(l) ELSE NextTurn(l, g[i - 1])
    <3>1. CASE i = m + 1
      <4>1. m \in 0..m /\ i - 1 = m /\ i /= 0 BY <2>1, <3>1
      <4>2. g[m + 1] = NextTurn(l, f[m]) BY <2>1
      <4>3. g[m] = f[m] BY <2>3, <4>1
      <4> HIDE DEF g, S
      <4> QED BY <3>1, <4>1, <4>2, <4>3
    <3>2. CASE i = 0
      <4>1. 0 \in 0..m BY <2>1
      <4> HIDE DEF g, S
      <4> QED BY <3>2, <4>1, <2>3
    <3>3. CASE i \in 1..m
      <4>1. i \in 0..m /\ i - 1 \in 0..m /\ i /= 0 BY <3>3, <2>1
      <4> HIDE DEF g, S
      <4> QED BY <4>1, <2>3
    <3> QED BY <3>1, <3>2, <3>3, <2>1
  <2>5. Run(g, l, m + 1)
    <3>1. g = [i \in 0..(m + 1) |-> g[i]] OBVIOUS
    <3> HIDE DEF g, S
    <3> QED BY <3>1, <2>4 DEF Run
  <2> HIDE DEF g
  <2> QED BY <2>1, <2>5
<1>3. n \in S
  <2> HIDE DEF S
  <2> QED BY <1>1, <1>2, Climb
<1> QED BY <1>3

LEMMA LoopedIs ==
  ASSUME NEW l, Loop!Never \in Nat
  PROVE  \E f : /\ f[0] = Begins(l)
                /\ \A i \in 0..(Loop!Never - 1) : f[i + 1] = NextTurn(l, f[i])
                /\ Loop!Looped(l) = f[Loop!Never]
<1> DEFINE f == CHOOSE g : Run(g, l, Loop!Never)
<1>1. Run(f, l, Loop!Never) BY RunExists
<1>2. Loop!Looped(l) = f[Loop!Never] BY DEF Loop!Looped, Run, NextTurn, Begins
<1> HIDE DEF f
<1>3. f[0] = Begins(l)
  <2>1. 0 \in 0..Loop!Never OBVIOUS
  <2> QED BY <1>1, <2>1 DEF Run
<1>4. ASSUME NEW i \in 0..(Loop!Never - 1) PROVE f[i + 1] = NextTurn(l, f[i])
  <2>1. i + 1 \in 0..Loop!Never /\ i + 1 /= 0 /\ (i + 1) - 1 = i OBVIOUS
  <2>2. f[i + 1] = IF i + 1 = 0 THEN Begins(l) ELSE NextTurn(l, f[(i + 1) - 1])
    BY <1>1, <2>1 DEF Run
  <2> QED BY <2>1, <2>2
<1> QED BY <1>2, <1>3, <1>4

-----------------------------------------------------------------------------
(* What a clock that was told to stop, or started at once, lp_calls. *)

\* From when a loop is to be quiet its clock is stopped.
Quiet(l) == quietFrom[l] >= Loop!Never \/ \A u \in Nat : quietFrom[l] <= u =>
  Loop!StateAt(timeline[l], u) = "stopped"

\* A clock in the turns of a tick: it called nobody, or at a time before that.
Good(l, c) == /\ c \in Clock /\ Counted(c.calls, c.ticks, c.last, c.delayed)
              /\ (c.at = 0 /\ c.calls <= lp_calls[l]) \/ c.at < quietFrom[l]

\* What one loop and its clock are.
Fine(l) == /\ InOrder(timeline[l]) /\ SaidBy(timeline[l], lp_now) /\ period[l] \in Nat \ {0}
           /\ Begins(l) \in Clock /\ lp_calls[l] \in Nat /\ quietFrom[l] \in Nat
           /\ isPlaying[l] \in BOOLEAN
           /\ Counted(lp_calls[l], ticks[l], lastState[l], delayed[l]) /\ Quiet(l)
           /\ isPlaying[l] => quietFrom[l] >= Loop!Never

LEMMA TurnGood ==
  ASSUME lp_now \in 0..lp_MaxTime, NEW l, Fine(l), NEW c, Good(l, c)
  PROVE  Good(l, NextTurn(l, c))
<1>0. c \in Clock /\ lp_now \in Nat /\ lp_MaxTime \in Nat /\ Ahead \in Nat /\ maxIterations \in Nat
  BY LoopAssumption DEF Good
<1>1. /\ c.next \in Nat /\ c.last \in Loop!States /\ c.ticks \in Nat /\ c.calls \in Nat
      /\ c.delayed \in BOOLEAN /\ c.at \in Nat
  BY <1>0 DEF Clock
<1>2. /\ c.calls <= c.ticks /\ (c.last = "started" => c.ticks >= 1)
      /\ ~c.delayed => c.calls <= maxIterations /\ (c.ticks >= 1 => c.calls <= c.ticks - 1)
      /\ (c.at = 0 /\ c.calls <= lp_calls[l]) \/ c.at < quietFrom[l]
  BY DEF Good, Counted
<1>3. lp_calls[l] \in Nat /\ quietFrom[l] \in Nat BY DEF Fine
<1>4. CASE ~(lp_now + Ahead > c.next) BY <1>4 DEF NextTurn
<1>5. CASE lp_now + Ahead > c.next
  <2> DEFINE s == Loop!StateAt(timeline[l], c.next)
             e == Loop!EventAt(timeline[l], c.next)
             t == Loop!Turn(l, c)
  <2>1. /\ t \in Clock /\ t.last = s
        /\ s = "started" /\ c.last /= "started" =>
             /\ e.time \in Nat /\ e.time <= c.next /\ t.next = e.time + period[l]
             /\ t.ticks = c.ticks + 1
             /\ IF Loop!Calls(e.time, c.ticks) THEN t.calls = c.calls + 1 /\ t.at = e.time
                ELSE t.calls = c.calls /\ t.at = c.at
             /\ IF c.ticks = 0 THEN t.delayed = (e.time > e.said) /\ e.said \in Nat
                  /\ e.said <= lp_now
                ELSE t.delayed = c.delayed
        /\ s = "started" /\ c.last = "started" =>
             /\ t.next = c.next + period[l] /\ t.ticks = c.ticks + 1 /\ t.delayed = c.delayed
             /\ IF Loop!Calls(c.next, c.ticks) THEN t.calls = c.calls + 1 /\ t.at = c.next
                ELSE t.calls = c.calls /\ t.at = c.at
        /\ s /= "started" =>
             /\ t.next = c.next + period[l] /\ t.delayed = c.delayed /\ t.at = c.at
             /\ \/ t.ticks = c.ticks /\ t.calls = c.calls
                \/ t.ticks = 0 /\ t.calls = 0
    BY <1>0, TurnIs DEF Fine
  <2>2. NextTurn(l, c) = t BY <1>5 DEF NextTurn
  \* A clock that is started is told so before it is to be quiet.
  <2>3. s = "started" => c.next < quietFrom[l]
    <3>1. Quiet(l) BY DEF Fine
    <3>2. CASE quietFrom[l] >= Loop!Never BY <3>2, <1>0, <1>1, <1>3, <1>5 DEF Loop!Never
    <3>3. CASE \A u \in Nat : quietFrom[l] <= u => Loop!StateAt(timeline[l], u) = "stopped"
      BY <3>3, <1>1, <1>3
    <3> QED BY <3>1, <3>2, <3>3 DEF Quiet
  <2> HIDE DEF s, e, t
  <2>4. CASE s = "started" /\ c.last /= "started"
    <3>1. e.time \in Nat /\ e.time < quietFrom[l] BY <2>1, <2>3, <2>4, <1>1, <1>3
    <3>2. (t.at = 0 /\ t.calls <= lp_calls[l]) \/ t.at < quietFrom[l]
      BY <2>1, <2>4, <3>1, <1>1, <1>2, <1>3
    <3>3. CASE c.ticks = 0
      <4>1. c.calls = 0 BY <3>3, <1>1, <1>2
      <4>2. ~(e.time > e.said) => ~Loop!Calls(e.time, c.ticks)
        BY <2>1, <2>4, <3>1, <3>3, <1>0 DEF Loop!Calls
      <4>3. ~t.delayed => t.calls = 0 BY <2>1, <2>4, <3>3, <4>1, <4>2
      <4>4. t.ticks = 1 /\ t.calls <= 1 BY <2>1, <2>4, <3>3, <4>1
      <4>5. Counted(t.calls, t.ticks, t.last, t.delayed) BY <4>3, <4>4, <1>0 DEF Counted
      <4> QED BY <2>1, <2>2, <3>2, <4>5 DEF Good
    <3>4. CASE c.ticks /= 0
      <4>1. t.ticks = c.ticks + 1 /\ t.delayed = c.delayed BY <2>1, <2>4, <3>4
      <4>2. t.calls = c.calls \/ (t.calls = c.calls + 1 /\ c.ticks <= maxIterations)
        BY <2>1, <2>4 DEF Loop!Calls
      <4>3. Counted(t.calls, t.ticks, t.last, t.delayed)
        BY <3>4, <4>1, <4>2, <1>0, <1>1, <1>2 DEF Counted
      <4> QED BY <2>1, <2>2, <3>2, <4>3 DEF Good
    <3> QED BY <3>3, <3>4
  <2>5. CASE s = "started" /\ c.last = "started"
    <3>1. (t.at = 0 /\ t.calls <= lp_calls[l]) \/ t.at < quietFrom[l]
      BY <2>1, <2>3, <2>5, <1>1, <1>2, <1>3
    <3>2. t.ticks = c.ticks + 1 /\ t.delayed = c.delayed BY <2>1, <2>5
    <3>3. t.calls = c.calls \/ (t.calls = c.calls + 1 /\ c.ticks <= maxIterations)
      BY <2>1, <2>5 DEF Loop!Calls
    <3>4. Counted(t.calls, t.ticks, t.last, t.delayed)
      BY <2>5, <3>2, <3>3, <1>0, <1>1, <1>2 DEF Counted
    <3> QED BY <2>1, <2>2, <3>1, <3>4 DEF Good
  <2>6. CASE s /= "started"
    <3>1. t.delayed = c.delayed /\ t.at = c.at BY <2>1, <2>6
    <3>2. (t.ticks = c.ticks /\ t.calls = c.calls) \/ (t.ticks = 0 /\ t.calls = 0) BY <2>1, <2>6
    <3>3. (t.at = 0 /\ t.calls <= lp_calls[l]) \/ t.at < quietFrom[l]
      BY <3>1, <3>2, <1>1, <1>2, <1>3
    <3>4. Counted(t.calls, t.ticks, t.last, t.delayed)
      BY <2>1, <2>6, <3>1, <3>2, <1>0, <1>1, <1>2 DEF Counted
    <3> QED BY <2>1, <2>2, <3>3, <3>4 DEF Good
  <2> QED BY <2>4, <2>5, <2>6
<1> QED BY <1>4, <1>5

\* So is the clock after all the turns of a tick.
LEMMA LoopedGood == ASSUME lp_now \in 0..lp_MaxTime, NEW l, Fine(l) PROVE Good(l, Loop!Looped(l))
<1>0. Loop!Never \in Nat BY LoopAssumption DEF Loop!Never
<1>1. PICK f : /\ f[0] = Begins(l)
               /\ \A i \in 0..(Loop!Never - 1) : f[i + 1] = NextTurn(l, f[i])
               /\ Loop!Looped(l) = f[Loop!Never]
  BY <1>0, LoopedIs
<1> DEFINE S == {i \in 0..Loop!Never : Good(l, f[i])}
<1>2. 0 \in S
  <2>1. Good(l, Begins(l)) BY DEF Good, Fine, Begins
  <2> QED BY <1>0, <1>1, <2>1
<1>3. ASSUME NEW i \in 0..(Loop!Never - 1), i \in S PROVE i + 1 \in S
  <2>1. Good(l, f[i]) BY <1>3
  <2>2. Good(l, NextTurn(l, f[i])) BY <2>1, TurnGood
  <2>3. i + 1 \in 0..Loop!Never BY <1>0
  <2> QED BY <1>1, <2>2, <2>3
<1>4. Loop!Never \in S
  <2> HIDE DEF S
  <2> QED BY <1>0, <1>2, <1>3, Climb
<1> QED BY <1>1, <1>4

-----------------------------------------------------------------------------
(* Clocks started in step, at a. *)

\* A clock that the start missed: one of its own events comes after.
Dead(l, state, next) == /\ state /= "started"
                        /\ \A u \in Nat : next <= u => Loop!StateAt(timeline[l], u) /= "started"

\* A clock that will find the start, perhaps late.
Waiting(l, state, next, a) ==
  /\ state /= "started"
  /\ \A u \in Nat : next <= u /\ u < a => Loop!StateAt(timeline[l], u) /= "started"
  /\ \A u \in Nat : a <= u => /\ Loop!StateAt(timeline[l], u) = "started"
                              /\ Loop!EventAt(timeline[l], u).time = a

\* A clock that ticks since a, and was at its last tick before horizon h.
Ticking(l, state, next, a, h) ==
  /\ state = "started"
  /\ \A u \in Nat : a <= u => Loop!StateAt(timeline[l], u) = "started"
  /\ \E j \in Nat : next = a + j * period[l] /\ (j = 0 \/ next - period[l] < h)

\* How far it is after i turns.
Phase(l, c, a, h, i) ==
  \/ Dead(l, c.last, c.next)
  \/ Waiting(l, c.last, c.next, a) /\ (c.next >= h \/ (c.next >= i /\ (i = 0 \/ a >= i)))
  \/ Ticking(l, c.last, c.next, a, h) /\ (c.next >= h \/ c.next >= i)

LEMMA TurnPhase ==
  ASSUME lp_now \in Nat, Ahead \in Nat, NEW l, InOrder(timeline[l]), SaidBy(timeline[l], lp_now),
         period[l] \in Nat \ {0}, NEW a \in Nat, NEW i \in Nat,
         NEW c \in Clock, Phase(l, c, a, lp_now + Ahead, i)
  PROVE  NextTurn(l, c) \in Clock /\ Phase(l, NextTurn(l, c), a, lp_now + Ahead, i + 1)
<1> DEFINE h == lp_now + Ahead
<1>0. h \in Nat OBVIOUS
<1>a. Phase(l, c, a, h, i) OBVIOUS
<1>1. c.next \in Nat /\ c.last \in Loop!States BY DEF Clock
<1>2. CASE ~(h > c.next)
  <2>1. NextTurn(l, c) = c BY <1>2 DEF NextTurn
  <2> HIDE DEF h
  <2>2. c.next >= h BY <1>0, <1>1, <1>2
  <2>3. Phase(l, c, a, h, i + 1) BY <1>a, <2>2 DEF Phase
  <2> QED BY <2>1, <2>3 DEF h
<1>3. CASE h > c.next
  <2> DEFINE s == Loop!StateAt(timeline[l], c.next)
             e == Loop!EventAt(timeline[l], c.next)
             t == Loop!Turn(l, c)
  <2>1. /\ t \in Clock /\ t.last = s
        /\ s = "started" /\ c.last /= "started" => t.next = e.time + period[l]
        /\ s = "started" /\ c.last = "started" => t.next = c.next + period[l]
        /\ s /= "started" => t.next = c.next + period[l]
    BY TurnIs
  <2>2. NextTurn(l, c) = t BY <1>3 DEF NextTurn
  <2>3. period[l] \in Nat /\ period[l] >= 1 OBVIOUS
  <2>4. ASSUME Dead(l, c.last, c.next) PROVE Phase(l, t, a, h, i + 1)
    <3>1. s /= "started" BY <2>4, <1>1 DEF Dead
    <3> HIDE DEF s, e, t
    <3>2. c.next <= t.next /\ t.next \in Nat BY <2>1, <2>3, <3>1, <1>1
    <3>3. \A u \in Nat : t.next <= u => c.next <= u BY <3>2, <1>1
    <3>4. Dead(l, t.last, t.next) BY <2>1, <2>4, <3>1, <3>3 DEF Dead
    <3> QED BY <3>4 DEF Phase
  <2>5. ASSUME Waiting(l, c.last, c.next, a), c.next >= i /\ (i = 0 \/ a >= i)
        PROVE  Phase(l, t, a, h, i + 1)
    <3>1. CASE c.next < a
      <4>1. s /= "started" BY <2>5, <3>1, <1>1 DEF Waiting
      <4> HIDE DEF s, e, t
      <4>2. c.next <= t.next /\ t.next \in Nat /\ t.next >= i + 1 /\ a >= i + 1
        BY <2>1, <2>3, <2>5, <3>1, <4>1, <1>1
      <4>3. \A u \in Nat : t.next <= u => c.next <= u BY <4>2, <1>1
      <4>4. Waiting(l, t.last, t.next, a) BY <2>1, <2>5, <4>1, <4>3 DEF Waiting
      <4> QED BY <4>2, <4>4 DEF Phase
    <3>2. CASE ~(c.next < a)
      <4>1. s = "started" /\ e.time = a /\ c.last /= "started" BY <2>5, <3>2, <1>1 DEF Waiting
      <4>2. \A u \in Nat : a <= u => Loop!StateAt(timeline[l], u) = "started" BY <2>5 DEF Waiting
      <4> HIDE DEF s, e, t
      <4>3. t.next = a + 1 * period[l] /\ t.next - period[l] < h
        BY <2>1, <2>3, <3>2, <4>1, <1>0, <1>1, <1>3
      <4>4. Ticking(l, t.last, t.next, a, h) BY <2>1, <4>1, <4>2, <4>3 DEF Ticking
      <4>5. t.next >= i + 1 BY <2>3, <2>5, <4>3
      <4> QED BY <4>4, <4>5 DEF Phase
    <3> QED BY <3>1, <3>2
  <2>6. ASSUME Ticking(l, c.last, c.next, a, h), c.next >= i PROVE Phase(l, t, a, h, i + 1)
    <3>1. PICK j \in Nat : c.next = a + j * period[l] /\ (j = 0 \/ c.next - period[l] < h)
      BY <2>6 DEF Ticking
    <3>2. j * period[l] \in Nat /\ (j + 1) * period[l] = j * period[l] + period[l]
      BY <2>3, <3>1
    <3>3. c.next >= a BY <3>1, <3>2
    <3>4. s = "started" /\ c.last = "started" BY <2>6, <3>3, <1>1 DEF Ticking
    <3> HIDE DEF s, e, t
    <3>5. t.next = c.next + period[l] BY <2>1, <3>4
    <3>6. t.next = a + (j + 1) * period[l] /\ t.next - period[l] < h /\ t.next >= i + 1
      <4> DEFINE m == j * period[l]   n == (j + 1) * period[l]
      <4>1. m \in Nat /\ n = m + period[l] /\ c.next = a + m BY <3>1, <3>2
      <4> HIDE DEF m, n, h
      <4>2. t.next = a + n /\ t.next - period[l] = c.next /\ t.next >= i + 1
        BY <2>3, <2>6, <3>5, <4>1, <1>1
      <4>3. t.next - period[l] < h BY <4>2, <1>0, <1>1, <1>3
      <4> QED BY <4>2, <4>3 DEF n
    <3>7. j + 1 \in Nat BY <3>1
    <3>8. Ticking(l, t.last, t.next, a, h) BY <2>1, <2>6, <3>4, <3>6, <3>7 DEF Ticking
    <3> QED BY <3>6, <3>8 DEF Phase
  <2> HIDE DEF t, s, e
  <2>7. Phase(l, t, a, h, i + 1)
    <3>1. ~(c.next >= h) BY <1>0, <1>1, <1>3
    <3> HIDE DEF h
    <3> QED BY <1>a, <2>4, <2>5, <2>6, <3>1 DEF Phase
  <2> QED BY <2>1, <2>2, <2>7 DEF h
<1> QED BY <1>2, <1>3

\* A clock missed the start at a, or waits for it, or ticks since.
InStepWith(l, state, next, a, h) ==
  Dead(l, state, next) \/ Waiting(l, state, next, a) \/ Ticking(l, state, next, a, h)

\* After the turns of a tick a clock that ticks is past the horizon.
LEMMA LoopedPhase ==
  ASSUME lp_now \in 0..lp_MaxTime, NEW l, Fine(l), NEW a \in Nat,
         InStepWith(l, lastState[l], nextTick[l], a, lp_now + Ahead)
  PROVE  /\ InStepWith(l, Loop!Looped(l).last, Loop!Looped(l).next, a, lp_now + Ahead)
         /\ Loop!Looped(l).last = "started" =>
              Loop!Looped(l).next >= lp_now + Ahead
              /\ Ticking(l, Loop!Looped(l).last, Loop!Looped(l).next, a, lp_now + Ahead)
<1>0. Loop!Never \in Nat /\ Ahead \in Nat /\ lp_now \in Nat /\ lp_now + Ahead < Loop!Never
  BY LoopAssumption DEF Loop!Never
<1>1. PICK f : /\ f[0] = Begins(l)
               /\ \A i \in 0..(Loop!Never - 1) : f[i + 1] = NextTurn(l, f[i])
               /\ Loop!Looped(l) = f[Loop!Never]
  BY <1>0, LoopedIs
<1> DEFINE h == lp_now + Ahead
           S == {i \in 0..Loop!Never : f[i] \in Clock /\ Phase(l, f[i], a, h, i)}
<1>2. 0 \in S
  <2>1. Begins(l) \in Clock /\ nextTick[l] \in Nat BY DEF Fine, Begins, Clock
  <2>2. Begins(l).last = lastState[l] /\ Begins(l).next = nextTick[l] BY DEF Begins
  <2>3. nextTick[l] >= 0 BY <2>1
  <2> HIDE DEF h
  <2>4. Phase(l, Begins(l), a, h, 0) BY <2>2, <2>3 DEF Phase, InStepWith, h
  <2>5. 0 \in 0..Loop!Never BY <1>0
  <2> QED BY <1>1, <2>1, <2>4, <2>5
<1>3. ASSUME NEW i \in 0..(Loop!Never - 1), i \in S PROVE i + 1 \in S
  <2>1. f[i] \in Clock /\ Phase(l, f[i], a, lp_now + Ahead, i) BY <1>3
  <2>2. i \in Nat /\ i + 1 \in 0..Loop!Never BY <1>0
  <2>3. NextTurn(l, f[i]) \in Clock /\ Phase(l, NextTurn(l, f[i]), a, lp_now + Ahead, i + 1)
    BY <1>0, <2>1, <2>2, TurnPhase DEF Fine
  <2> QED BY <1>1, <2>2, <2>3
<1>4. Loop!Never \in S
  <2> HIDE DEF S
  <2> QED BY <1>0, <1>2, <1>3, Climb
<1> DEFINE c == Loop!Looped(l)
<1>5. c \in Clock /\ Phase(l, c, a, h, Loop!Never) BY <1>1, <1>4
<1> HIDE DEF c, S
<1>6. c.next \in Nat BY <1>5 DEF Clock
<1>7. InStepWith(l, c.last, c.next, a, h) BY <1>5 DEF Phase, InStepWith
<1>8. c.last = "started" => c.next >= h /\ Ticking(l, c.last, c.next, a, h)
  <2>1. c.next >= Loop!Never => c.next >= h BY <1>0, <1>6
  <2> HIDE DEF h
  <2> QED BY <1>5, <2>1 DEF Phase, Dead, Waiting
<1> QED BY <1>7, <1>8 DEF c, h

LEMMA Multiples ==
  ASSUME NEW p \in Nat, NEW j \in Nat, NEW k \in Nat, j < k
  PROVE  j * p + p <= k * p
<1>1. PICK d \in Nat : k = j + 1 + d
  <2>1. k - j - 1 \in Nat /\ k = j + 1 + (k - j - 1) OBVIOUS
  <2> QED BY <2>1
<1>2. k * p = j * p + p + d * p BY <1>1
<1>3. d * p \in Nat /\ j * p \in Nat OBVIOUS
<1> QED BY <1>2, <1>3

\* Clocks of one period that tick since a, and are just past the horizon, are at the same tick.
LEMMA SameTick ==
  ASSUME NEW p \in Nat \ {0}, NEW a \in Nat, NEW h \in Nat, NEW j \in Nat, NEW k \in Nat,
         NEW x, NEW y, x = a + j * p, y = a + k * p,
         j = 0 \/ x - p < h, k = 0 \/ y - p < h, x >= h, y >= h
  PROVE  x = y
<1>1. ASSUME NEW m \in Nat, NEW n \in Nat, m < n, n = 0 \/ (a + n * p) - p < h, a + m * p >= h
      PROVE  FALSE
  <2>0. m * p \in Nat /\ n * p \in Nat OBVIOUS
  <2>1. m * p + p <= n * p BY <1>1, Multiples
  <2> DEFINE u == m * p   v == n * p
  <2>2. u \in Nat /\ v \in Nat /\ u + p <= v BY <2>0, <2>1
  <2>3. n /= 0 BY <1>1
  <2>4. (a + v) - p < h /\ a + u >= h BY <1>1, <2>3
  <2> HIDE DEF u, v
  <2> QED BY <2>2, <2>4
<1>2. ~(j < k) /\ ~(k < j) BY <1>1
<1>3. j = k BY <1>2
<1> QED BY <1>3

-----------------------------------------------------------------------------
(* The invariant. *)

\* Two loops started in step: their clocks are, and if both tick they are at the same tick.
Together(l, o) ==
  \E a \in Nat : /\ InStepWith(l, lastState[l], nextTick[l], a, lp_now + Ahead)
                 /\ InStepWith(o, lastState[o], nextTick[o], a, lp_now + Ahead)
                 /\ lastState[l] = "started"
                      /\ lastState[o] = "started" => nextTick[l] = nextTick[o]

LoopTypes ==
  /\ lp_now \in 0..lp_MaxTime
  /\ timeline \in [Loops -> Seq(Event)]
  /\ nextTick \in [Loops -> Nat] /\ lastState \in [Loops -> Loop!States] /\ ticks \in [Loops -> Nat]
  /\ period \in [Loops -> Nat \ {0}] /\ isPlaying \in [Loops -> BOOLEAN]
  /\ lp_calls \in [Loops -> Nat] /\ delayed \in [Loops -> BOOLEAN] /\ quietFrom \in [Loops -> Nat]
  /\ syncedTo \in [Loops -> Loops \cup {Loop!alone}]

LoopInv == /\ LoopTypes
           /\ \A l \in Loops : Fine(l)
           /\ \A l, o \in Loops : syncedTo[l] = o /\ period[l] = period[o] => Together(l, o)

\* The clock of a loop as it was, and what it is told is in order.
LEMMA FineKept ==
  ASSUME NEW l, Fine(l), InOrder(timeline'[l]), SaidBy(timeline'[l], lp_now'),
         period'[l] \in Nat \ {0}, nextTick'[l] = nextTick[l], lastState'[l] = lastState[l],
         ticks'[l] = ticks[l], lp_calls'[l] = lp_calls[l], delayed'[l] = delayed[l],
         quietFrom'[l] \in Nat, isPlaying'[l] \in BOOLEAN, isPlaying'[l] =>
           quietFrom'[l] >= Loop!Never,
         \/ quietFrom'[l] >= Loop!Never
         \/ \A u \in Nat : quietFrom'[l] <= u => Loop!StateAt(timeline'[l], u) = "stopped"
  PROVE  Fine(l)'
<1>1. Begins(l)' = Begins(l) BY DEF Begins
<1>2. Quiet(l)' BY DEF Quiet
<1>3. Counted(lp_calls[l], ticks[l], lastState[l], delayed[l])' BY DEF Fine, Counted
<1>4. (Begins(l) \in Clock)' BY <1>1 DEF Fine, Clock
<1> QED BY <1>2, <1>3, <1>4 DEF Fine

\* What is said by n is said by a later time.
LEMMA SaidLater ==
  ASSUME NEW line, InOrder(line), NEW m \in Nat, NEW n \in Nat, m <= n, SaidBy(line, m)
  PROVE  SaidBy(line, n)
<1>1. \A i \in DOMAIN line : line[i].said \in Nat BY InOrderTimes
<1> QED BY <1>1 DEF SaidBy

\* A clock in step that gets to s and n, of a timeline that is as it was, is in step.
LEMMA PhaseKept ==
  ASSUME NEW l, NEW s, NEW n \in Nat, NEW a \in Nat, lp_now \in Nat, lp_now' \in Nat,
           lp_now <= lp_now', Ahead \in Nat,
         timeline'[l] = timeline[l], period'[l] = period[l], period[l] \in Nat,
         lastState'[l] = s, nextTick'[l] = n,
         InStepWith(l, s, n, a, lp_now + Ahead)
  PROVE  InStepWith(l, lastState[l], nextTick[l], a, lp_now + Ahead)'
<1>1. CASE Dead(l, s, n)
  <2>1. Dead(l, lastState[l], nextTick[l])' BY <1>1 DEF Dead
  <2> QED BY <2>1 DEF InStepWith
<1>2. CASE Waiting(l, s, n, a)
  <2>1. Waiting(l, lastState[l], nextTick[l], a)' BY <1>2 DEF Waiting
  <2> QED BY <2>1 DEF InStepWith
<1>3. CASE Ticking(l, s, n, a, lp_now + Ahead)
  <2>1. n - period[l] < lp_now + Ahead => n - period[l] < lp_now' + Ahead OBVIOUS
  <2>2. Ticking(l, lastState[l], nextTick[l], a, lp_now + Ahead)' BY <1>3, <2>1 DEF Ticking
  <2> QED BY <2>2 DEF InStepWith
<1> QED BY <1>1, <1>2, <1>3 DEF InStepWith

LEMMA PairKept ==
  ASSUME NEW l, NEW o, Together(l, o), lp_now \in Nat, lp_now' \in Nat, lp_now <= lp_now',
           Ahead \in Nat,
         timeline'[l] = timeline[l], period'[l] = period[l], period[l] \in Nat,
         lastState'[l] = lastState[l], nextTick'[l] = nextTick[l], nextTick[l] \in Nat,
         timeline'[o] = timeline[o], period'[o] = period[o], period[o] \in Nat,
         lastState'[o] = lastState[o], nextTick'[o] = nextTick[o], nextTick[o] \in Nat
  PROVE  Together(l, o)'
<1>1. PICK a \in Nat :
           /\ InStepWith(l, lastState[l], nextTick[l], a, lp_now + Ahead)
           /\ InStepWith(o, lastState[o], nextTick[o], a, lp_now + Ahead)
           /\ lastState[l] = "started" /\ lastState[o] = "started" => nextTick[l] = nextTick[o]
  BY DEF Together
<1>2. InStepWith(l, lastState[l], nextTick[l], a, lp_now + Ahead)' BY <1>1, PhaseKept
<1>3. InStepWith(o, lastState[o], nextTick[o], a, lp_now + Ahead)' BY <1>1, PhaseKept
<1>4. lastState'[l] = "started" /\ lastState'[o] = "started" => nextTick'[l] = nextTick'[o] BY <1>1
<1> QED BY <1>2, <1>3, <1>4 DEF Together

\* A loop about which nothing was called.
LEMMA FineStays ==
  ASSUME NEW l, Fine(l), lp_now \in Nat, lp_now' \in Nat, lp_now <= lp_now',
         timeline'[l] = timeline[l], period'[l] = period[l], isPlaying'[l] = isPlaying[l],
         nextTick'[l] = nextTick[l], lastState'[l] = lastState[l], ticks'[l] = ticks[l],
         lp_calls'[l] = lp_calls[l], delayed'[l] = delayed[l], quietFrom'[l] = quietFrom[l]
  PROVE  Fine(l)'
<1>1. InOrder(timeline'[l]) BY DEF Fine
<1>2. SaidBy(timeline'[l], lp_now') BY SaidLater DEF Fine
<1>3. \/ quietFrom'[l] >= Loop!Never
      \/ \A u \in Nat : quietFrom'[l] <= u => Loop!StateAt(timeline'[l], u) = "stopped"
  BY DEF Fine, Quiet
<1> QED BY <1>1, <1>2, <1>3, FineKept DEF Fine

\* A call about one loop that tells its clock something.
LEMMA OneTold ==
  ASSUME LoopInv, NEW l \in Loops, NEW line, InOrder(line), SaidBy(line, lp_now),
         NEW b \in BOOLEAN, NEW q \in Nat, b => q >= Loop!Never,
         q >= Loop!Never \/ \A u \in Nat : q <= u => Loop!StateAt(line, u) = "stopped",
         timeline' = [timeline EXCEPT ![l] = line], isPlaying' = [isPlaying EXCEPT ![l] = b],
         Loop!Call({l}), quietFrom' = [quietFrom EXCEPT ![l] = q],
         UNCHANGED <<lp_now, nextTick, lastState, ticks, period, lp_calls, delayed>>
  PROVE  LoopInv'
<1>0. Ahead \in Nat /\ Loop!alone \notin Loops BY LoopAssumption DEF Loop!alone
<1>t. LoopTypes /\ \A k \in Loops : Fine(k) BY DEF LoopInv
<1>1. lp_now \in Nat /\ lp_now' = lp_now BY <1>t, LoopAssumption DEF LoopTypes
<1>2. LoopTypes'
  <2>1. line \in Seq(Event) BY DEF InOrder
  <2>2. timeline' \in [Loops -> Seq(Event)] BY <1>t, <2>1 DEF LoopTypes
  <2>3. isPlaying' \in [Loops -> BOOLEAN] /\ quietFrom' \in [Loops -> Nat] BY <1>t DEF LoopTypes
  <2>4. syncedTo' \in [Loops -> Loops \cup {Loop!alone}] BY <1>t DEF LoopTypes, Loop!Call
  <2> QED BY <1>t, <2>2, <2>3, <2>4 DEF LoopTypes
<1>3. ASSUME NEW k \in Loops PROVE Fine(k)'
  <2>1. Fine(k) BY <1>t
  <2>2. /\ nextTick'[k] = nextTick[k] /\ lastState'[k] = lastState[k] /\ ticks'[k] = ticks[k]
        /\ period'[k] = period[k] /\ lp_calls'[k] = lp_calls[k] /\ delayed'[k] = delayed[k]
    OBVIOUS
  <2>3. CASE k = l
    <3>1. timeline'[k] = line /\ isPlaying'[k] = b /\ quietFrom'[k] = q
      BY <2>3, <1>t DEF LoopTypes
    <3>2. period'[k] \in Nat \ {0} BY <2>1, <2>2 DEF Fine
    <3>3. InOrder(timeline'[k]) /\ SaidBy(timeline'[k], lp_now') BY <3>1, <1>1
    <3>4. \/ quietFrom'[k] >= Loop!Never
          \/ \A u \in Nat : quietFrom'[k] <= u => Loop!StateAt(timeline'[k], u) = "stopped"
      BY <3>1
    <3>5. quietFrom'[k] \in Nat /\ isPlaying'[k] \in BOOLEAN
            /\ (isPlaying'[k] => quietFrom'[k] >= Loop!Never)
      BY <3>1
    <3> QED BY ONLY <2>1, <2>2, <3>2, <3>3, <3>4, <3>5, FineKept
  <2>4. CASE k /= l
    <3>1. timeline'[k] = timeline[k] /\ isPlaying'[k] = isPlaying[k] /\ quietFrom'[k] = quietFrom[k]
      BY <2>4, <1>t DEF LoopTypes
    <3>2. lp_now' \in Nat /\ lp_now <= lp_now' BY <1>1
    <3> QED BY ONLY <1>1, <2>1, <2>2, <3>1, <3>2, FineStays
  <2> QED BY <2>3, <2>4
<1>4. ASSUME NEW k \in Loops, NEW o \in Loops, syncedTo'[k] = o, period'[k] = period'[o]
      PROVE  Together(k, o)'
  <2>1. k /= l /\ o /= l /\ syncedTo[k] = o BY <1>0, <1>4, <1>t DEF Loop!Call, LoopTypes
  <2>2. Together(k, o) BY <1>4, <2>1 DEF LoopInv
  <2>3. timeline'[k] = timeline[k] /\ timeline'[o] = timeline[o] BY <2>1, <1>t DEF LoopTypes
  <2>4. nextTick[k] \in Nat /\ nextTick[o] \in Nat /\ period[k] \in Nat /\ period[o] \in Nat
    BY <1>t DEF LoopTypes
  <2>5. lp_now' \in Nat /\ lp_now <= lp_now' BY <1>1
  <2>6. /\ lastState'[k] = lastState[k] /\ nextTick'[k] = nextTick[k] /\ period'[k] = period[k]
        /\ lastState'[o] = lastState[o] /\ nextTick'[o] = nextTick[o] /\ period'[o] = period[o]
    OBVIOUS
  <2> QED BY ONLY <1>0, <1>1, <2>2, <2>3, <2>4, <2>5, <2>6, PairKept
<1> QED BY <1>2, <1>3, <1>4 DEF LoopInv

LEMMA StartKeeps == ASSUME LoopInv, NEW l \in Loops, NEW t \in lp_Delays, Loop!Start(l, t)
  PROVE LoopInv'
<1> DEFINE line == Loop!Started(timeline[l], lp_now + t)
<1>1. lp_now \in Nat /\ t \in Nat /\ Loop!Never \in Nat /\ Fine(l)
  BY LoopAssumption DEF LoopInv, LoopTypes, Loop!Never
<1>2. InOrder(line) /\ SaidBy(line, lp_now)
  <2>1. lp_now + t \in Nat BY <1>1
  <2> QED BY <1>1, <2>1, StartedKeeps DEF Fine
<1>3. /\ timeline' = [timeline EXCEPT ![l] = line] /\ isPlaying' = [isPlaying EXCEPT ![l] = TRUE]
      /\ Loop!Call({l}) /\ quietFrom' = [quietFrom EXCEPT ![l] = Loop!Never]
      /\ UNCHANGED <<lp_now, nextTick, lastState, ticks, period, lp_calls, delayed>>
  BY DEF Loop!Start
<1>4. Loop!Never >= Loop!Never BY <1>1
<1> HIDE DEF line
<1> QED BY <1>1, <1>2, <1>3, <1>4, OneTold

LEMMA StopKeeps == ASSUME LoopInv, NEW l \in Loops, NEW t \in lp_Delays, Loop!Stop(l, t)
  PROVE LoopInv'
<1> DEFINE line == Loop!Stopped(timeline[l], lp_now + t)
<1>1. lp_now \in Nat /\ lp_now + t \in Nat /\ Fine(l) BY LoopAssumption DEF LoopInv, LoopTypes
<1>2. /\ InOrder(line) /\ SaidBy(line, lp_now)
      /\ \A u \in Nat : lp_now + t <= u => Loop!StateAt(line, u) = "stopped"
  BY <1>1, StoppedFrom DEF Fine
<1>3. /\ timeline' = [timeline EXCEPT ![l] = line] /\ isPlaying' = [isPlaying EXCEPT ![l] = FALSE]
      /\ Loop!Call({l}) /\ quietFrom' = [quietFrom EXCEPT ![l] = lp_now + t]
      /\ UNCHANGED <<lp_now, nextTick, lastState, ticks, period, lp_calls, delayed>>
  BY DEF Loop!Stop
<1> HIDE DEF line
<1> QED BY <1>1, <1>2, <1>3, OneTold

LEMMA PauseKeeps == ASSUME LoopInv, NEW l \in Loops, NEW t \in lp_Delays, Loop!Pause(l, t)
  PROVE LoopInv'
<1> DEFINE line == Loop!Paused(timeline[l], lp_now + t)
           q == quietFrom[l]
<1>1. lp_now \in Nat /\ lp_now + t \in Nat /\ Fine(l) BY LoopAssumption DEF LoopInv, LoopTypes
<1>2. InOrder(line) /\ SaidBy(line, lp_now) BY <1>1, PausedKeeps DEF Fine
<1>3. q \in Nat /\ q >= Loop!Never BY <1>1 DEF Fine, Loop!Pause
<1>4. /\ timeline' = [timeline EXCEPT ![l] = line] /\ isPlaying' = [isPlaying EXCEPT ![l] = FALSE]
      /\ Loop!Call({l}) /\ quietFrom' = [quietFrom EXCEPT ![l] = q]
      /\ UNCHANGED <<lp_now, nextTick, lastState, ticks, period, lp_calls, delayed>>
  <2>1. quietFrom = [quietFrom EXCEPT ![l] = q] BY DEF LoopInv, LoopTypes
  <2> QED BY <2>1 DEF Loop!Pause
<1> HIDE DEF line, q
<1> QED BY <1>2, <1>3, <1>4, OneTold

LEMMA SetPeriodKeeps ==
  ASSUME LoopInv, NEW l \in Loops, NEW i \in Intervals, NEW b \in Tempos, NEW s \in {3, 4},
         Loop!SetPeriod(l, i, b, s)
  PROVE  LoopInv'
<1>0. Ahead \in Nat /\ Loop!alone \notin Loops /\ Loop!Period(i, b, s) \in Nat \ {0}
  BY LoopAssumption DEF Loop!alone
<1>t. LoopTypes /\ \A k \in Loops : Fine(k) BY DEF LoopInv
<1>a. /\ period' = [period EXCEPT ![l] = Loop!Period(i, b, s)] /\ Loop!Call({l}) /\ lp_now' = lp_now
      /\ timeline' = timeline /\ nextTick' = nextTick /\ lastState' = lastState /\ ticks' = ticks
      /\ isPlaying' = isPlaying /\ lp_calls' = lp_calls /\ delayed' = delayed
      /\ quietFrom' = quietFrom
  BY DEF Loop!SetPeriod, Loop!clockVars
<1>1. lp_now \in Nat /\ lp_now' \in Nat /\ lp_now <= lp_now'
  BY <1>t, <1>a, LoopAssumption DEF LoopTypes
<1>2. LoopTypes'
  <2>1. period' \in [Loops -> Nat \ {0}] BY <1>0, <1>t, <1>a DEF LoopTypes
  <2>2. syncedTo' \in [Loops -> Loops \cup {Loop!alone}] BY <1>t, <1>a DEF LoopTypes, Loop!Call
  <2> QED BY <1>t, <1>a, <2>1, <2>2 DEF LoopTypes
<1>3. ASSUME NEW k \in Loops PROVE Fine(k)'
  <2>1. Fine(k) BY <1>t
  <2>2. period'[k] \in Nat \ {0} BY <1>2 DEF LoopTypes
  <2>3. InOrder(timeline'[k]) /\ SaidBy(timeline'[k], lp_now') BY <1>a, <2>1 DEF Fine
  <2>4. /\ nextTick'[k] = nextTick[k] /\ lastState'[k] = lastState[k] /\ ticks'[k] = ticks[k]
        /\ lp_calls'[k] = lp_calls[k] /\ delayed'[k] = delayed[k]
        /\ quietFrom'[k] \in Nat /\ isPlaying'[k] \in BOOLEAN
             /\ (isPlaying'[k] => quietFrom'[k] >= Loop!Never)
        /\ \/ quietFrom'[k] >= Loop!Never
           \/ \A u \in Nat : quietFrom'[k] <= u => Loop!StateAt(timeline'[k], u) = "stopped"
    BY <1>a, <2>1 DEF Fine, Quiet
  <2> QED BY ONLY <2>1, <2>2, <2>3, <2>4, FineKept
<1>4. ASSUME NEW k \in Loops, NEW o \in Loops, syncedTo'[k] = o, period'[k] = period'[o]
      PROVE  Together(k, o)'
  <2>1. k /= l /\ o /= l /\ syncedTo[k] = o BY <1>0, <1>4, <1>a, <1>t DEF Loop!Call, LoopTypes
  <2>2. period'[k] = period[k] /\ period'[o] = period[o] BY <2>1, <1>t, <1>a DEF LoopTypes
  <2>3. Together(k, o) BY <1>4, <2>1, <2>2 DEF LoopInv
  <2>4. nextTick[k] \in Nat /\ nextTick[o] \in Nat /\ period[k] \in Nat /\ period[o] \in Nat
    BY <1>t DEF LoopTypes
  <2>5. /\ lastState'[k] = lastState[k] /\ nextTick'[k] = nextTick[k] /\ timeline'[k] = timeline[k]
        /\ lastState'[o] = lastState[o] /\ nextTick'[o] = nextTick[o] /\ timeline'[o] = timeline[o]
    BY <1>a
  <2> QED BY ONLY <1>0, <1>1, <2>2, <2>3, <2>4, <2>5, PairKept
<1> QED BY <1>2, <1>3, <1>4 DEF LoopInv

\* The time passes, or nothing happens.
LEMMA TimePasses ==
  ASSUME LoopInv, lp_now' \in 0..lp_MaxTime, lp_now <= lp_now',
         UNCHANGED <<timeline, nextTick, lastState, ticks, period, isPlaying, lp_calls, delayed,
           quietFrom,
                     syncedTo>>
  PROVE  LoopInv'
<1>0. Ahead \in Nat /\ lp_MaxTime \in Nat BY LoopAssumption
<1>t. LoopTypes /\ \A k \in Loops : Fine(k) BY DEF LoopInv
<1>a. /\ period' = period /\ syncedTo' = syncedTo
      /\ timeline' = timeline /\ nextTick' = nextTick /\ lastState' = lastState /\ ticks' = ticks
      /\ isPlaying' = isPlaying /\ lp_calls' = lp_calls /\ delayed' = delayed
      /\ quietFrom' = quietFrom
  OBVIOUS
<1>1. lp_now \in Nat /\ lp_now' \in Nat /\ lp_now <= lp_now' /\ lp_now' \in 0..lp_MaxTime
  BY <1>0, <1>t DEF LoopTypes
<1>2. LoopTypes' BY <1>t, <1>a, <1>1 DEF LoopTypes
<1>3. ASSUME NEW k \in Loops PROVE Fine(k)'
  <2>1. Fine(k) BY <1>t
  <2>2. /\ timeline'[k] = timeline[k] /\ period'[k] = period[k] /\ isPlaying'[k] = isPlaying[k]
        /\ nextTick'[k] = nextTick[k] /\ lastState'[k] = lastState[k] /\ ticks'[k] = ticks[k]
        /\ lp_calls'[k] = lp_calls[k] /\ delayed'[k] = delayed[k] /\ quietFrom'[k] = quietFrom[k]
    BY <1>a
  <2> QED BY ONLY <1>1, <2>1, <2>2, FineStays
<1>4. ASSUME NEW k \in Loops, NEW o \in Loops, syncedTo'[k] = o, period'[k] = period'[o]
      PROVE  Together(k, o)'
  <2>1. Together(k, o) BY <1>4, <1>a DEF LoopInv
  <2>2. nextTick[k] \in Nat /\ nextTick[o] \in Nat /\ period[k] \in Nat /\ period[o] \in Nat
    BY <1>t DEF LoopTypes
  <2>3. /\ lastState'[k] = lastState[k] /\ nextTick'[k] = nextTick[k] /\ timeline'[k] = timeline[k]
        /\ lastState'[o] = lastState[o] /\ nextTick'[o] = nextTick[o] /\ timeline'[o] = timeline[o]
        /\ period'[k] = period[k] /\ period'[o] = period[o]
    BY <1>a
  <2> QED BY ONLY <1>0, <1>1, <2>1, <2>2, <2>3, PairKept
<1> QED BY <1>2, <1>3, <1>4 DEF LoopInv

LEMMA AdvanceKeeps == ASSUME LoopInv, Loop!Advance PROVE LoopInv'
<1>1. lp_now' \in 0..lp_MaxTime /\ lp_now <= lp_now'
  BY LoopAssumption DEF LoopInv, LoopTypes, Loop!Advance
<1>2. UNCHANGED <<timeline, nextTick, lastState, ticks, period, isPlaying, lp_calls, delayed,
        quietFrom,
                  syncedTo>>
  BY DEF Loop!Advance, Loop!clockVars, Loop!loopVars, Loop!history
<1> QED BY <1>1, <1>2, TimePasses

LEMMA ContextTickKeeps ==
  ASSUME LoopInv, Loop!ContextTick
  PROVE  LoopInv' /\ \A l \in Loops : lp_calls'[l] > lp_calls[l] => Loop!Looped(l).at < quietFrom[l]
<1>0. Ahead \in Nat BY LoopAssumption
<1>t. LoopTypes /\ \A k \in Loops : Fine(k) BY DEF LoopInv
<1>a. /\ nextTick' = [l \in Loops |-> Loop!Looped(l).next]
      /\ lastState' = [l \in Loops |-> Loop!Looped(l).last]
      /\ ticks' = [l \in Loops |-> Loop!Looped(l).ticks]
      /\ lp_calls' = [l \in Loops |-> Loop!Looped(l).calls]
      /\ delayed' = [l \in Loops |-> Loop!Looped(l).delayed]
      /\ lp_now' = lp_now /\ timeline' = timeline /\ period' = period /\ isPlaying' = isPlaying
      /\ quietFrom' = quietFrom /\ syncedTo' = syncedTo
  BY Zenon DEF Loop!ContextTick, Loop!loopVars
<1>1. lp_now \in 0..lp_MaxTime /\ lp_now \in Nat /\ lp_now' \in Nat /\ lp_now <= lp_now'
  BY <1>t, <1>a, LoopAssumption DEF LoopTypes
<1>2. ASSUME NEW l \in Loops
      PROVE  /\ Good(l, Loop!Looped(l)) /\ Loop!Looped(l) \in Clock
             /\ Loop!Looped(l).next \in Nat /\ Loop!Looped(l).last \in Loop!States
             /\ Loop!Looped(l).ticks \in Nat
             /\ Loop!Looped(l).calls \in Nat /\ Loop!Looped(l).delayed \in BOOLEAN
             /\ Loop!Looped(l).at \in Nat
             /\ nextTick'[l] = Loop!Looped(l).next /\ lastState'[l] = Loop!Looped(l).last
             /\ ticks'[l] = Loop!Looped(l).ticks /\ lp_calls'[l] = Loop!Looped(l).calls
             /\ delayed'[l] = Loop!Looped(l).delayed
  <2>1. Good(l, Loop!Looped(l)) BY <1>t, <1>1, LoopedGood
  <2>2. Loop!Looped(l) \in Clock BY <2>1 DEF Good
  <2>3. /\ Loop!Looped(l).next \in Nat /\ Loop!Looped(l).last \in Loop!States
        /\ Loop!Looped(l).ticks \in Nat
        /\ Loop!Looped(l).calls \in Nat /\ Loop!Looped(l).delayed \in BOOLEAN
        /\ Loop!Looped(l).at \in Nat
    BY ONLY <2>2 DEF Clock
  <2> QED BY <1>a, <2>1, <2>2, <2>3
<1>3. LoopTypes' BY <1>t, <1>a, <1>2, Zenon DEF LoopTypes
<1>4. ASSUME NEW k \in Loops PROVE Fine(k)'
  <2>1. Fine(k) BY <1>t
  <2>2. Counted(lp_calls[k], ticks[k], lastState[k], delayed[k])'
    <3>1. Counted(Loop!Looped(k).calls, Loop!Looped(k).ticks, Loop!Looped(k).last,
            Loop!Looped(k).delayed) BY <1>2 DEF Good
    <3> QED BY <1>2, <3>1 DEF Counted
  <2>3. (Begins(k) \in Clock)' BY <1>2 DEF Begins, Clock
  <2>4. Quiet(k)' BY <1>a, <2>1 DEF Fine, Quiet
  <2>5. lp_calls'[k] \in Nat BY <1>2
  <2> QED BY <1>a, <2>1, <2>2, <2>3, <2>4, <2>5 DEF Fine
<1>5. ASSUME NEW k \in Loops, NEW o \in Loops, syncedTo'[k] = o, period'[k] = period'[o]
      PROVE  Together(k, o)'
  <2>1. Together(k, o) BY <1>5, <1>a DEF LoopInv
  <2>2. PICK a \in Nat : /\ InStepWith(k, lastState[k], nextTick[k], a, lp_now + Ahead)
                         /\ InStepWith(o, lastState[o], nextTick[o], a, lp_now + Ahead)
    BY <2>1 DEF Together
  <2>3. /\ InStepWith(k, Loop!Looped(k).last, Loop!Looped(k).next, a, lp_now + Ahead)
        /\ Loop!Looped(k).last = "started" =>
             Loop!Looped(k).next >= lp_now + Ahead
             /\ Ticking(k, Loop!Looped(k).last, Loop!Looped(k).next, a, lp_now + Ahead)
    BY <1>t, <1>1, <2>2, LoopedPhase
  <2>4. /\ InStepWith(o, Loop!Looped(o).last, Loop!Looped(o).next, a, lp_now + Ahead)
        /\ Loop!Looped(o).last = "started" =>
             Loop!Looped(o).next >= lp_now + Ahead
             /\ Ticking(o, Loop!Looped(o).last, Loop!Looped(o).next, a, lp_now + Ahead)
    BY <1>t, <1>1, <2>2, LoopedPhase
  <2>5. period[k] \in Nat /\ period[o] \in Nat /\ period[k] \in Nat \ {0} /\ period[k] = period[o]
    BY <1>t, <1>a, <1>5 DEF LoopTypes
  <2>6. InStepWith(k, lastState[k], nextTick[k], a, lp_now + Ahead)'
    <3>1. /\ timeline'[k] = timeline[k] /\ period'[k] = period[k] /\ Loop!Looped(k).next \in Nat
          /\ lastState'[k] = Loop!Looped(k).last /\ nextTick'[k] = Loop!Looped(k).next
      BY <1>a, <1>2
    <3> QED BY ONLY <1>0, <1>1, <2>2, <2>3, <2>5, <3>1, PhaseKept
  <2>7. InStepWith(o, lastState[o], nextTick[o], a, lp_now + Ahead)'
    <3>1. /\ timeline'[o] = timeline[o] /\ period'[o] = period[o] /\ Loop!Looped(o).next \in Nat
          /\ lastState'[o] = Loop!Looped(o).last /\ nextTick'[o] = Loop!Looped(o).next
      BY <1>a, <1>2
    <3> QED BY ONLY <1>0, <1>1, <2>2, <2>4, <2>5, <3>1, PhaseKept
  <2>8. ASSUME Loop!Looped(k).last = "started", Loop!Looped(o).last = "started"
        PROVE  Loop!Looped(k).next = Loop!Looped(o).next
    <3> DEFINE p == period[k]
               h == lp_now + Ahead
               x == Loop!Looped(k).next
               y == Loop!Looped(o).next
    <3>1. Ticking(k, Loop!Looped(k).last, x, a, h) /\ x >= h BY <2>3, <2>8
    <3>2. Ticking(o, Loop!Looped(o).last, y, a, h) /\ y >= h BY <2>4, <2>8
    <3>3. p \in Nat \ {0} /\ h \in Nat /\ period[o] = p BY <1>0, <1>1, <2>5
    <3> HIDE DEF p, h, x, y
    <3>4. PICK i \in Nat : x = a + i * p /\ (i = 0 \/ x - p < h) BY <3>1 DEF Ticking, p
    <3>5. PICK j \in Nat : y = a + j * p /\ (j = 0 \/ y - p < h) BY <3>2, <3>3 DEF Ticking
    <3>6. x = y BY ONLY <2>2, <3>1, <3>2, <3>3, <3>4, <3>5, SameTick
    <3> QED BY <3>6 DEF x, y
  <2>9. lastState'[k] = "started" /\ lastState'[o] = "started" => nextTick'[k] = nextTick'[o]
    BY <1>2, <2>8
  <2> QED BY <2>6, <2>7, <2>9 DEF Together
<1>6. ASSUME NEW l \in Loops, lp_calls'[l] > lp_calls[l] PROVE Loop!Looped(l).at < quietFrom[l]
  <2>1. lp_calls[l] \in Nat BY <1>t DEF LoopTypes
  <2>2. ~(Loop!Looped(l).calls <= lp_calls[l]) BY <1>2, <1>6, <2>1
  <2> QED BY <1>2, <2>2 DEF Good
<1> QED BY <1>3, <1>4, <1>5, <1>6 DEF LoopInv

\* A clock that has nothing to come, and is not started, misses the start at a or will find it.
LEMMA StartedPhase ==
  ASSUME NEW line, InOrder(line), NEW next \in Nat, \A i \in DOMAIN line : line[i].time <= next,
         Loop!StateAt(line, next) /= "started", NEW a \in Nat, lp_now \in Nat
  PROVE  \/ \A u \in Nat : next <= u => Loop!StateAt(Loop!Started(line, a), u) /= "started"
         \/ /\ \A u \in Nat : next <= u
              /\ u < a => Loop!StateAt(Loop!Started(line, a), u) /= "started"
            /\ \A u \in Nat : a <= u => /\ Loop!StateAt(Loop!Started(line, a), u) = "started"
                                        /\ Loop!EventAt(Loop!Started(line, a), u).time = a
<1>1. \A i \in DOMAIN line : line[i].time \in Nat BY InOrderTimes
<1>2. ASSUME NEW u \in Nat, next <= u PROVE Loop!StateAt(line, u) /= "started"
  <2>1. Loop!EventAt(line, u) = Loop!EventAt(line, next) BY <1>2, LateSame
  <2> QED BY <2>1 DEF Loop!StateAt
<1>3. CASE Loop!StateAt(line, a) = "started"
  <2>1. Loop!Started(line, a) = line BY <1>3 DEF Loop!Started
  <2> QED BY <1>2, <2>1
<1>4. CASE Loop!StateAt(line, a) /= "started"
  <2> DEFINE e == Told("started", a)
             n == Loop!Add(line, "started", a)
  <2>1. Loop!Started(line, a) = n BY <1>4 DEF Loop!Started
  <2>2. e.state = "started" /\ e.time = a BY DEF Told
  <2>3. /\ \A u \in Nat : u < a => Loop!EventAt(n, u) = Loop!EventAt(line, u)
        /\ \A u \in Nat : a <= u => IF \A i \in DOMAIN line : line[i].time <= u => line[i].time <= a
                                    THEN Loop!EventAt(n, u) = e
                                      ELSE Loop!EventAt(n, u) = Loop!EventAt(line, u)
    <3>1. "started" \in Loop!States BY DEF Loop!States
    <3> QED BY <3>1, AddedAt
  <2> HIDE DEF e, n
  <2>4. CASE \A i \in DOMAIN line : line[i].time <= a
    <3>1. ASSUME NEW u \in Nat, a <= u PROVE Loop!StateAt(n, u) = "started"
                   /\ Loop!EventAt(n, u).time = a
      <4>1. Loop!EventAt(n, u) = e BY <2>3, <2>4, <3>1
      <4> QED BY <2>2, <4>1 DEF Loop!StateAt
    <3>2. ASSUME NEW u \in Nat, next <= u, u < a PROVE Loop!StateAt(n, u) /= "started"
      <4>1. Loop!EventAt(n, u) = Loop!EventAt(line, u) BY <2>3, <3>2
      <4> QED BY <1>2, <3>2, <4>1 DEF Loop!StateAt
    <3> QED BY <2>1, <3>1, <3>2
  <2>5. CASE ~\A i \in DOMAIN line : line[i].time <= a
    <3>1. PICK i \in DOMAIN line : ~(line[i].time <= a) BY <2>5
    <3>2. line[i].time <= next /\ line[i].time \in Nat BY <1>1
    <3>3. ASSUME NEW u \in Nat, next <= u PROVE Loop!StateAt(n, u) /= "started"
      <4>1. line[i].time <= u /\ a <= u BY <3>1, <3>2, <3>3
      <4>2. Loop!EventAt(n, u) = Loop!EventAt(line, u) BY <2>3, <3>1, <4>1
      <4> QED BY <1>2, <3>3, <4>2 DEF Loop!StateAt
    <3> QED BY <2>1, <3>3
  <2> QED BY <2>4, <2>5
<1> QED BY <1>3, <1>4

LEMMA SyncedStartKeeps ==
  ASSUME LoopInv, NEW l \in Loops, NEW o \in Loops, NEW t \in lp_Delays, Loop!SyncedStart(l, o, t)
  PROVE  LoopInv'
<1>0. Ahead \in Nat /\ Loop!alone \notin Loops /\ t \in Nat /\ Loop!Never \in Nat
  BY LoopAssumption DEF Loop!alone, Loop!Never
<1>t. LoopTypes /\ \A k \in Loops : Fine(k) BY DEF LoopInv
<1> DEFINE at == Loop!SyncedAt(o, t)
           both == IF isPlaying[o] THEN {l} ELSE {l, o}
<1>a. /\ l /= o
      /\ timeline' = [k \in Loops |-> IF k \in both THEN Loop!Started(timeline[k], at)
           ELSE timeline[k]]
      /\ isPlaying' = [k \in Loops |-> isPlaying[k] \/ k \in both]
      /\ syncedTo' = [k \in Loops |->
           IF k = l THEN IF Loop!Settled(l) /\ Loop!Settled(o)
             /\ ~isPlaying[l] THEN o ELSE Loop!alone
           ELSE IF k = o \/ syncedTo[k] \in both THEN Loop!alone ELSE syncedTo[k]]
      /\ quietFrom' = [k \in Loops |-> IF k \in both THEN Loop!Never ELSE quietFrom[k]]
      /\ lp_now' = lp_now /\ nextTick' = nextTick /\ lastState' = lastState /\ ticks' = ticks
      /\ period' = period /\ lp_calls' = lp_calls /\ delayed' = delayed
  BY Zenon DEF Loop!SyncedStart
<1>b. both \subseteq Loops /\ l \in both /\ (o \in both <=> ~isPlaying[o]) BY <1>a
<1>1. lp_now \in Nat /\ lp_now' \in Nat /\ lp_now <= lp_now'
  BY <1>t, <1>a, LoopAssumption DEF LoopTypes
<1>2. at \in Nat /\ at = IF isPlaying[o] THEN nextTick[o] ELSE lp_now + t
  BY <1>0, <1>1, <1>t DEF Loop!SyncedAt, LoopTypes
<1> HIDE DEF at, both
<1>3. ASSUME NEW k \in Loops
      PROVE  /\ timeline'[k] = IF k \in both THEN Loop!Started(timeline[k], at) ELSE timeline[k]
             /\ isPlaying'[k] = (isPlaying[k] \/ k \in both)
             /\ quietFrom'[k] = IF k \in both THEN Loop!Never ELSE quietFrom[k]
             /\ nextTick'[k] = nextTick[k] /\ lastState'[k] = lastState[k] /\ ticks'[k] = ticks[k]
             /\ period'[k] = period[k] /\ lp_calls'[k] = lp_calls[k] /\ delayed'[k] = delayed[k]
  BY <1>a
<1>4. ASSUME NEW k \in Loops
      PROVE  InOrder(Loop!Started(timeline[k], at)) /\ SaidBy(Loop!Started(timeline[k], at), lp_now)
  BY <1>1, <1>2, <1>t, StartedKeeps DEF Fine
<1>5. LoopTypes'
  <2>1. \A k \in Loops : Loop!Started(timeline[k], at) \in Seq(Event) /\ timeline[k] \in Seq(Event)
    BY <1>4, <1>t DEF InOrder, LoopTypes
  <2>2. timeline' \in [Loops -> Seq(Event)] BY <1>a, <2>1
  <2>3. isPlaying' \in [Loops -> BOOLEAN]
    <3>1. \A k \in Loops : (isPlaying[k] \/ k \in both) \in BOOLEAN OBVIOUS
    <3> QED BY <1>a, <3>1, Zenon
  <2>4. quietFrom' \in [Loops -> Nat] BY <1>a, <1>0, <1>t DEF LoopTypes
  <2>5. syncedTo' \in [Loops -> Loops \cup {Loop!alone}] BY <1>a, <1>t DEF LoopTypes
  <2> QED BY <1>t, <1>a, <2>2, <2>3, <2>4, <2>5 DEF LoopTypes
<1>6. ASSUME NEW k \in Loops PROVE Fine(k)'
  <2>1. Fine(k) BY <1>t
  <2>2. CASE k \in both
    <3>1. timeline'[k] = Loop!Started(timeline[k], at) /\ quietFrom'[k] = Loop!Never BY <1>3, <2>2
    <3>2. InOrder(timeline'[k]) /\ SaidBy(timeline'[k], lp_now') BY <1>4, <1>a, <3>1
    <3>3. quietFrom'[k] \in Nat /\ quietFrom'[k] >= Loop!Never BY <1>0, <3>1
    <3>4. period'[k] \in Nat \ {0} /\ isPlaying'[k] \in BOOLEAN BY <1>5 DEF LoopTypes
    <3> QED BY <1>3, <2>1, <3>2, <3>3, <3>4, FineKept
  <2>3. CASE k \notin both
    <3>1. isPlaying'[k] = isPlaying[k] BY <1>3, <2>1, <2>3 DEF Fine
    <3> QED BY <1>1, <1>3, <2>1, <2>3, <3>1, FineStays
  <2> QED BY <2>2, <2>3
<1>7. ASSUME NEW k \in Loops, Loop!Settled(k), ~isPlaying[k], k \in both, NEW a \in Nat, a = at
      PROVE  InStepWith(k, lastState[k], nextTick[k], a, lp_now + Ahead)'
             /\ lastState'[k] /= "started"
  <2> DEFINE line == timeline[k]
             next == nextTick[k]
  <2>1. /\ lastState[k] /= "started" /\ Loop!StateAt(line, next) /= "started"
        /\ \A i \in DOMAIN line : line[i].time <= next
    BY <1>7 DEF Loop!Settled
  <2>2. InOrder(line) /\ next \in Nat BY <1>t DEF Fine, LoopTypes
  <2>3. \/ \A u \in Nat : next <= u => Loop!StateAt(Loop!Started(line, a), u) /= "started"
        \/ /\ \A u \in Nat : next <= u
             /\ u < a => Loop!StateAt(Loop!Started(line, a), u) /= "started"
           /\ \A u \in Nat : a <= u => /\ Loop!StateAt(Loop!Started(line, a), u) = "started"
                                        /\ Loop!EventAt(Loop!Started(line, a), u).time = a
    <3> HIDE DEF line, next
    <3> QED BY <1>1, <1>7, <2>1, <2>2, StartedPhase
  <2>4. timeline'[k] = Loop!Started(line, a) /\ nextTick'[k] = next /\ lastState'[k] = lastState[k]
    BY <1>3, <1>7
  <2> HIDE DEF line, next
  <2> QED BY <2>1, <2>3, <2>4 DEF InStepWith, Dead, Waiting
<1>8. ASSUME NEW k \in Loops, NEW p \in Loops, syncedTo'[k] = p, period'[k] = period'[p]
      PROVE  Together(k, p)'
  <2>1. CASE k /= l
    <3>1. syncedTo[k] = p /\ p \notin both /\ k \notin both
      <4>1. ~(k = o \/ syncedTo[k] \in both) /\ syncedTo[k] = p BY <1>0, <1>8, <1>a, <2>1
      <4> QED BY <4>1, <2>1 DEF both
    <3>2. Together(k, p) BY <1>8, <1>a, <3>1 DEF LoopInv
    <3>3. nextTick[k] \in Nat /\ nextTick[p] \in Nat /\ period[k] \in Nat /\ period[p] \in Nat
      BY <1>t DEF LoopTypes
    <3>4. /\ lastState'[k] = lastState[k] /\ nextTick'[k] = nextTick[k]
          /\ timeline'[k] = timeline[k]
          /\ lastState'[p] = lastState[p] /\ nextTick'[p] = nextTick[p]
          /\ timeline'[p] = timeline[p]
          /\ period'[k] = period[k] /\ period'[p] = period[p]
      BY <1>3, <3>1
    <3> QED BY ONLY <1>0, <1>1, <3>2, <3>3, <3>4, PairKept
  <2>2. CASE k = l
    <3>1. p = o /\ Loop!Settled(l) /\ Loop!Settled(o) /\ ~isPlaying[l] BY <1>0, <1>8, <1>a, <2>2
    <3>2. PICK a \in Nat : a = at BY <1>2
    <3>3. InStepWith(l, lastState[l], nextTick[l], a, lp_now + Ahead)' /\ lastState'[l] /= "started"
      BY <1>7, <1>b, <3>1, <3>2
    <3>4. InStepWith(o, lastState[o], nextTick[o], a, lp_now + Ahead)'
      <4>1. CASE ~isPlaying[o] BY <1>7, <1>b, <3>1, <3>2, <4>1
      <4>2. CASE isPlaying[o]
        <5>1. /\ lastState[o] = "started" /\ Loop!StateAt(timeline[o], nextTick[o]) = "started"
              /\ \A i \in DOMAIN timeline[o] : timeline[o][i].time <= nextTick[o]
          BY <3>1, <4>2 DEF Loop!Settled
        <5>2. a = nextTick[o] BY <1>2, <3>2, <4>2
        <5>3. InOrder(timeline[o]) /\ nextTick[o] \in Nat /\ period[o] \in Nat
          BY <1>t DEF Fine, LoopTypes
        <5>4. ASSUME NEW u \in Nat, a <= u PROVE Loop!StateAt(timeline[o], u) = "started"
          <6>1. Loop!EventAt(timeline[o], u) = Loop!EventAt(timeline[o], nextTick[o])
            BY <5>1, <5>2, <5>3, <5>4, LateSame
          <6> QED BY <5>1, <6>1 DEF Loop!StateAt
        <5>5. o \notin both BY <1>b, <4>2
        <5>6. /\ timeline'[o] = timeline[o] /\ lastState'[o] = "started"
              /\ nextTick'[o] = a /\ period'[o] = period[o]
          BY <1>3, <5>1, <5>2, <5>5
        <5>7. 0 \in Nat /\ a = a + 0 * period[o] BY <5>3
        <5>8. Ticking(o, lastState[o], nextTick[o], a, lp_now + Ahead)'
          BY <5>4, <5>6, <5>7 DEF Ticking
        <5> QED BY <5>8 DEF InStepWith
      <4> QED BY <4>1, <4>2
    <3> QED BY <2>2, <3>1, <3>3, <3>4 DEF Together
  <2> QED BY <2>1, <2>2
<1> QED BY <1>5, <1>6, <1>8 DEF LoopInv

-----------------------------------------------------------------------------
LEMMA LoopInit == ASSUME Loop!Init PROVE LoopInv
<1>0. /\ Ahead \in Nat /\ lp_MaxTime \in Nat /\ Loop!alone \notin Loops /\ Second \in Nat \ {0}
      /\ Loop!Never \in Nat /\ "stopped" \in Loop!States /\ maxIterations \in Nat
  BY LoopAssumption DEF Loop!alone, Loop!Never, Loop!States
<1>1. LoopTypes
  <2>1. lp_now \in 0..lp_MaxTime BY <1>0 DEF Loop!Init
  <2>2. timeline \in [Loops -> Seq(Event)] BY DEF Loop!Init
  <2>3. /\ nextTick \in [Loops -> Nat] /\ lastState \in [Loops -> Loop!States]
        /\ ticks \in [Loops -> Nat]
        /\ period \in [Loops -> Nat \ {0}] /\ isPlaying \in [Loops -> BOOLEAN]
        /\ lp_calls \in [Loops -> Nat] /\ delayed \in [Loops -> BOOLEAN]
        /\ quietFrom \in [Loops -> Nat] /\ syncedTo \in [Loops -> Loops \cup {Loop!alone}]
    BY <1>0 DEF Loop!Init
  <2> QED BY <2>1, <2>2, <2>3 DEF LoopTypes
<1>2. ASSUME NEW l \in Loops PROVE Fine(l)
  <2>1. /\ timeline[l] = <<>> /\ nextTick[l] = 0 /\ lastState[l] = "stopped" /\ ticks[l] = 0
        /\ period[l] = Second /\ isPlaying[l] = FALSE /\ lp_calls[l] = 0 /\ delayed[l] = FALSE
        /\ quietFrom[l] = Loop!Never
    BY DEF Loop!Init
  <2>2. InOrder(timeline[l]) /\ SaidBy(timeline[l], lp_now) BY <2>1 DEF InOrder, SaidBy
  <2>3. Begins(l) \in Clock
    <3>1. Begins(l) = [next |-> 0, last |-> "stopped", ticks |-> 0, calls |-> 0, delayed |-> FALSE,
                       at |-> 0]
      BY <2>1, Zenon DEF Begins
    <3> QED BY <1>0, <3>1 DEF Clock
  <2>4. Counted(lp_calls[l], ticks[l], lastState[l], delayed[l]) BY <2>1, <1>0 DEF Counted
  <2>5. quietFrom[l] >= Loop!Never /\ quietFrom[l] \in Nat BY <2>1, <1>0
  <2>6. isPlaying[l] \in BOOLEAN BY <2>1
  <2>7. period[l] \in Nat \ {0} /\ lp_calls[l] \in Nat BY <2>1, <1>0
  <2> QED BY ONLY <2>2, <2>3, <2>4, <2>5, <2>6, <2>7 DEF Fine, Quiet
<1>3. \A l, o \in Loops : syncedTo[l] /= o BY <1>0 DEF Loop!Init
<1> QED BY <1>1, <1>2, <1>3 DEF LoopInv

LEMMA LoopNext ==
  ASSUME LoopInv, [Loop!Next]_(Loop!vars)
  PROVE  LoopInv' /\ \A l \in Loops : lp_calls'[l] > lp_calls[l] => Loop!Looped(l).at < quietFrom[l]
<1> DEFINE Q == \A l \in Loops : lp_calls'[l] > lp_calls[l] => Loop!Looped(l).at < quietFrom[l]
<1>1. ASSUME lp_calls' = lp_calls PROVE Q
  <2>1. \A l \in Loops : lp_calls[l] \in Nat BY DEF LoopInv, LoopTypes
  <2>2. \A l \in Loops : ~(lp_calls[l] > lp_calls[l]) BY <2>1
  <2> QED BY <1>1, <2>2
<1> HIDE DEF Q
<1>2. ASSUME NEW l \in Loops, NEW t \in lp_Delays, Loop!Start(l, t) PROVE LoopInv' /\ Q
  BY <1>1, <1>2, StartKeeps DEF Loop!Start
<1>3. ASSUME NEW l \in Loops, NEW t \in lp_Delays, Loop!Stop(l, t) PROVE LoopInv' /\ Q
  BY <1>1, <1>3, StopKeeps DEF Loop!Stop
<1>4. ASSUME NEW l \in Loops, NEW t \in lp_Delays, Loop!Pause(l, t) PROVE LoopInv' /\ Q
  BY <1>1, <1>4, PauseKeeps DEF Loop!Pause
<1>5. ASSUME NEW l \in Loops, NEW o \in Loops, NEW t \in lp_Delays, Loop!SyncedStart(l, o, t)
      PROVE  LoopInv' /\ Q
  BY <1>1, <1>5, SyncedStartKeeps DEF Loop!SyncedStart
<1>6. ASSUME NEW l \in Loops, NEW i \in Intervals, NEW b \in Tempos, NEW s \in {3, 4},
             Loop!SetPeriod(l, i, b, s)
      PROVE  LoopInv' /\ Q
  BY <1>1, <1>6, SetPeriodKeeps DEF Loop!SetPeriod
<1>7. CASE Loop!ContextTick BY <1>7, ContextTickKeeps DEF Q
<1>8. CASE Loop!Advance
  <2>1. LoopInv' BY <1>8, AdvanceKeeps
  <2>2. lp_calls' = lp_calls BY <1>8 DEF Loop!Advance, Loop!history
  <2> QED BY <1>1, <2>1, <2>2 DEF Q
<1>9. CASE UNCHANGED Loop!vars
  <2>1. UNCHANGED <<lp_now, timeline, nextTick, lastState, ticks, period, isPlaying, lp_calls,
          delayed,
                    quietFrom, syncedTo>>
    BY <1>9 DEF Loop!vars, Loop!clockVars, Loop!loopVars, Loop!history
  <2>2. lp_now' \in 0..lp_MaxTime /\ lp_now <= lp_now'
    BY <2>1, LoopAssumption DEF LoopInv, LoopTypes
  <2>3. LoopInv' BY <2>1, <2>2, TimePasses
  <2> QED BY <1>1, <2>1, <2>3 DEF Q
<1> QED BY <1>2, <1>3, <1>4, <1>5, <1>6, <1>7, <1>8, <1>9 DEF Loop!Next, Q

LEMMA LoopSafe == ASSUME LoopInv PROVE Loop!CallsLimited /\ Loop!SyncedTogether
<1>1. Loop!CallsLimited BY DEF LoopInv, Fine, Counted, Loop!CallsLimited
<1>2. Loop!SyncedTogether BY DEF LoopInv, Together, Loop!SyncedTogether
<1> QED BY <1>1, <1>2

\* However late the context's ticks are and whatever intervals the loops are given: a loop that is
\* only started at once calls the sketch maxIterations times at most before it is stopped.
THEOREM CallsWithinLimit == Loop!Spec => []CallsLimited
<1>1. LoopInv => CallsLimited BY LoopSafe DEF CallsLimited
<1>2. LoopInv /\ [Loop!Next]_(Loop!vars) => LoopInv' BY LoopNext
<1> QED BY <1>1, <1>2, LoopInit, PTL DEF Loop!Spec

\* Whatever starts and pauses were still to come when a loop is stopped for t, it schedules no call
\* for t or later before it is started again.
THEOREM StopIsQuiet == Loop!Spec => StoppedIsQuiet
<1>1. LoopInv /\ [Loop!Next]_(Loop!vars) => LoopInv' BY LoopNext
<1>2. LoopInv /\ [Loop!Next]_(Loop!vars) =>
        [\A l \in Loops : lp_calls'[l] > lp_calls[l] => Loop!Looped(l).at < quietFrom[l]]_(Loop!vars)
  BY LoopNext
<1> QED BY <1>1, <1>2, LoopInit, PTL DEF Loop!Spec, StoppedIsQuiet, Loop!StoppedIsQuiet

\* Whichever of the context's ticks come late: a loop started in step with another, when neither had
\* anything to come, ticks when the other does until one of them is called.
THEOREM InSync == Loop!Spec => []SyncedTogether
<1>1. LoopInv => SyncedTogether BY LoopSafe DEF SyncedTogether
<1>2. LoopInv /\ [Loop!Next]_(Loop!vars) => LoopInv' BY LoopNext
<1> QED BY <1>1, <1>2, LoopInit, PTL DEF Loop!Spec

-----------------------------------------------------------------------------
-----------------------------------------------------------------------------
Fields == {"isPlaying", "looping", "partStep", "length", "phrases", "running", "metroTicks",
           "late", "onended"}

\* A part and its metronome: the one of a part that plays runs, the part is at one of its steps, and its
\* onended is one that its calls can have left there.
Fit(r, p) ==
  /\ DOMAIN r = Fields
  /\ r.isPlaying \in BOOLEAN /\ r.looping \in BOOLEAN /\ r.running \in BOOLEAN /\ (r.isPlaying => r.running)
  /\ r.length \in Lengths \cup {0} /\ r.partStep \in Nat /\ r.metroTicks \in 0..(Wrap - 1)
  /\ r.late \in Nat
  /\ r.partStep < r.length \/ r.partStep = 0
  /\ r.onended \in {"stop", "reset", "score", "last"}
  /\ r.onended = "score" => p < scored
  /\ r.onended = "reset" => r.looping

\* The count of the metronome is at the step of the part, the late ticks further.
InStep(r) == ~r.looping
             /\ (r.length > 0 => r.metroTicks % r.length = (r.partStep + r.late) % r.length)

\* A score of one part is at it; a score of more is at none: it has an array there, or NaN.
ScoreAt(i) == /\ i \in {array, NaN, 0}
              /\ i = NaN => scored >= 2
              /\ i = 0 => scored <= 1

LoopersInv == /\ DOMAIN part = Loopers!Parts /\ \A p \in Loopers!Parts : Fit(part[p], p)
              /\ scored \in 0..N /\ ScoreAt(currentPart)
              /\ straight \subseteq Loopers!Parts /\ \A p \in straight : InStep(part[p])

\* What a call leaves to a part that it does not advance.
Same(new, r) == /\ new.looping = r.looping /\ new.length = r.length
                /\ new.metroTicks = r.metroTicks /\ new.late = r.late

-----------------------------------------------------------------------------
(* The methods of a part. *)

LEMMA StartedFits ==
  ASSUME NEW p \in Loopers!Parts, NEW r, Fit(r, p)
  PROVE  Fit(Loopers!Started(r), p) /\ Same(Loopers!Started(r), r)
         /\ Loopers!Started(r).partStep = r.partStep
BY DEF Fit, Fields, Same, Loopers!Started

LEMMA PausedFits ==
  ASSUME NEW p \in Loopers!Parts, NEW r, Fit(r, p)
  PROVE  Fit(Loopers!Paused(r), p) /\ Same(Loopers!Paused(r), r)
         /\ Loopers!Paused(r).partStep = r.partStep
BY DEF Fit, Fields, Same, Loopers!Paused

LEMMA StoppedFits ==
  ASSUME NEW p \in Loopers!Parts, NEW r, Fit(r, p)
  PROVE  Fit(Loopers!Stopped(r), p) /\ Same(Loopers!Stopped(r), r)
         /\ Loopers!Stopped(r).partStep = 0
BY DEF Fit, Fields, Same, Loopers!Stopped, Loopers!Paused

LEMMA LoopedFits ==
  ASSUME NEW p \in Loopers!Parts, NEW r, Fit(r, p)
  PROVE  Fit(Loopers!Looped(r), p)
<1> DEFINE new == [r EXCEPT !.looping = TRUE, !.onended = "reset"]
<1>1. Fit(new, p) BY DEF Fit, Fields
<1> QED BY <1>1, StartedFits DEF Loopers!Looped

LEMMA NotLoopedFits ==
  ASSUME NEW p \in Loopers!Parts, NEW r, Fit(r, p)
  PROVE  /\ Fit(Loopers!NotLooped(r), p) /\ Loopers!NotLooped(r).partStep = r.partStep
         /\ InStep(r) => InStep(Loopers!NotLooped(r))
BY DEF Fit, Fields, Loopers!NotLooped, InStep

\* A part that goes on or is stopped at its first step is in step as before.
LEMMA SameInStep ==
  ASSUME NEW r, NEW new, InStep(r), Same(new, r), new.partStep = r.partStep
  PROVE  InStep(new)
BY DEF InStep, Same

-----------------------------------------------------------------------------
(* A tick. *)

\* The count modulo Wrap, a multiple of the length, is one step further modulo the length.
LEMMA TickModulo ==
  ASSUME NEW m \in 0..(Wrap - 1), NEW n \in Lengths, n > 0, NEW y \in Nat, m % n = y % n
  PROVE  /\ (m + 1) % Wrap \in 0..(Wrap - 1)
         /\ ((m + 1) % Wrap) % n = (y + 1) % n
<1> DEFINE q == m \div n   w == Wrap \div n   u == y \div n   k == m % n
<1>n. n \in Nat /\ n > 0 /\ m \in Nat /\ Wrap \in Nat /\ m < Wrap /\ Wrap % n = 0
  BY LoopersAssumption
<1>d. q \in Nat /\ w \in Nat /\ u \in Nat /\ k \in Nat /\ m = n * q + k /\ Wrap = n * w
        /\ y = n * u + k /\ k < n
  <2>1. q \in Nat /\ m = n * q + (m % n) /\ m % n \in 0..(n - 1) BY <1>n
  <2>2. w \in Nat /\ Wrap = n * w + (Wrap % n) BY <1>n
  <2>3. u \in Nat /\ y = n * u + (y % n) BY <1>n
  <2> QED BY <2>1, <2>2, <2>3, <1>n
<1> HIDE DEF q, w, u, k
<1>a. (m + 1) % Wrap = IF m + 1 < Wrap THEN m + 1 ELSE 0 BY <1>n
<1>b. k + 1 < n => (n * q + (k + 1)) % n = k + 1 BY <1>n, <1>d
<1>c. k + 1 < n => (n * u + (k + 1)) % n = k + 1 BY <1>n, <1>d
<1>e. (n * (q + 1) + 0) % n = 0 /\ n * (q + 1) = n * q + n BY <1>n, <1>d
<1>f. (n * (u + 1) + 0) % n = 0 /\ n * (u + 1) = n * u + n BY <1>n, <1>d
<1>g. (y + 1) % n = IF k + 1 < n THEN k + 1 ELSE 0 BY <1>n, <1>d, <1>c, <1>f
<1>1. CASE m + 1 < Wrap
  <2>1. (m + 1) % n = IF k + 1 < n THEN k + 1 ELSE 0 BY <1>n, <1>d, <1>b, <1>e
  <2> QED BY <1>1, <1>n, <1>a, <1>g, <2>1
<1>2. CASE m + 1 = Wrap
  <2>1. Wrap % n = 0 BY <1>n
  <2>2. ~(k + 1 < n) BY <1>2, <1>n, <1>d, <1>b, <2>1
  <2>3. 0 % n = 0 BY <1>n
  <2> QED BY <1>2, <1>n, <1>a, <1>g, <2>2, <2>3
<1> QED BY <1>1, <1>2, <1>n

\* A whole length more changes nothing modulo the length.
LEMMA Around ==
  ASSUME NEW n \in Nat, n > 0, NEW y \in Nat
  PROVE  (n + y) % n = y % n
<1> DEFINE u == y \div n   k == y % n
<1>1. u \in Nat /\ k \in Nat /\ k < n /\ y = n * u + k BY DEF u, k
<1> HIDE DEF u
<1>2. (n * (u + 1) + k) % n = k /\ n * (u + 1) = n * u + n
  <2> HIDE DEF k
  <2> QED BY <1>1
<1> QED BY <1>1, <1>2

\* The end of part p, at its last step: every part fits, p is at its first step, and the others
\* go on or are stopped.
EndsWell(out, p) ==
  /\ DOMAIN out.ps = Loopers!Parts /\ \A q \in Loopers!Parts : Fit(out.ps[q], q)
       /\ Same(out.ps[q], part[q])
  /\ \A q \in Loopers!Parts \ {p} : out.ps[q].partStep \in {part[q].partStep, 0}
  /\ ~out.throws => out.ps[p].partStep = 0
  /\ ScoreAt(out.at)

LEMMA EndedWell ==
  ASSUME LoopersInv, NEW p \in Loopers!Parts, part[p].onended /= "reset"
  PROVE  EndsWell(Loopers!Ended(p, part), p)
<1> DEFINE r == part[p]
<1>a. /\ DOMAIN part = Loopers!Parts /\ \A q \in Loopers!Parts : Fit(part[q], q)
           /\ Same(part[q], part[q])
      /\ \A q \in Loopers!Parts : part[q].partStep \in Nat
      /\ scored \in 0..N /\ ScoreAt(currentPart)
  BY DEF LoopersInv, Fit, Same
<1>b. Fit(Loopers!Stopped(r), p) /\ Same(Loopers!Stopped(r), r) /\ Loopers!Stopped(r).partStep = 0
  BY <1>a, StoppedFits
<1>c. r.onended \in {"stop", "score", "last"} BY <1>a DEF Fit
<1>d. r.onended = "score" => p < scored BY <1>a DEF Fit
<1> HIDE DEF r
<1> DEFINE stopped == [part EXCEPT ![p] = Loopers!Stopped(@)]
<1>1. CASE r.onended \in {"stop", "last"}
  <2>1. /\ Loopers!Ended(p, part).ps = stopped /\ Loopers!Ended(p, part).at = currentPart
        /\ Loopers!Ended(p, part).throws \in BOOLEAN
    BY <1>1 DEF Loopers!Ended, r
  <2>2. /\ DOMAIN stopped = Loopers!Parts /\ stopped[p] = Loopers!Stopped(r)
        /\ \A q \in Loopers!Parts \ {p} : stopped[q] = part[q]
    BY <1>a DEF r
  <2> HIDE DEF stopped
  <2> QED BY <2>1, <2>2, <1>a, <1>b DEF EndsWell, r
<1>2. CASE r.onended = "score"
  <2> DEFINE reset == [part EXCEPT ![Loopers!last] = Loopers!Stopped(@)]
  <2>1. scored \in 1..N /\ Loopers!last \in Loopers!Parts /\ p \in 0..Loopers!last
    BY <1>2, <1>d, <1>a, LoopersAssumption DEF Loopers!last, Loopers!Parts
  <2>2. Fit(Loopers!Stopped(part[Loopers!last]), Loopers!last)
        /\ Same(Loopers!Stopped(part[Loopers!last]), part[Loopers!last])
          /\ Loopers!Stopped(part[Loopers!last]).partStep = 0
    BY <2>1, <1>a, StoppedFits
  <2>3. /\ DOMAIN reset = Loopers!Parts /\ reset[Loopers!last] = Loopers!Stopped(part[Loopers!last])
        /\ \A q \in Loopers!Parts \ {Loopers!last} : reset[q] = part[q]
    BY <1>a, <2>1
  <2> HIDE DEF reset
  <2>4. \A q \in Loopers!Parts : Fit(reset[q], q) /\ Same(reset[q], part[q])
          /\ reset[q].partStep \in {part[q].partStep, 0}
    BY <2>2, <2>3, <1>a
  <2>5. CASE Loopers!NextPart = NaN
    <3>1. Loopers!Ended(p, part) = [ps |-> reset, at |-> NaN, throws |-> TRUE]
      BY <1>2, <2>5 DEF Loopers!Ended, r, reset
    <3>2. ScoreAt(NaN)
      BY <2>5, <2>1, <1>a, LoopersAssumption DEF Loopers!NextPart, ScoreAt
    <3> QED BY <3>1, <3>2, <2>3, <2>4 DEF EndsWell
  <2>6. CASE Loopers!NextPart /= NaN
    <3>1. scored = 1 /\ Loopers!NextPart = 1 /\ Loopers!last = 0 /\ p = 0
      BY <2>6, <2>1, <1>a, LoopersAssumption DEF Loopers!NextPart, ScoreAt, Loopers!last
    <3>2. Loopers!Ended(p, part) = [ps |-> Loopers!ScoreEnded(reset), at |-> 0, throws |-> FALSE]
      BY <1>2, <2>6, <3>1 DEF Loopers!Ended, r, reset
    <3> DEFINE new == Loopers!ScoreEnded(reset)
    <3>3. /\ DOMAIN new = Loopers!Parts /\ \A q \in Loopers!Parts \ {0} : new[q] = reset[q]
          /\ new[0] \in {Loopers!Started(reset[0]), [reset[0] EXCEPT !.onended = "last"]}
      BY <2>3, <3>1 DEF Loopers!ScoreEnded
    <3>4. reset[0].partStep = 0 /\ Fit(reset[0], 0) /\ Same(reset[0], part[0])
      BY <2>2, <2>3, <3>1
    <3>5. /\ Fit(Loopers!Started(reset[0]), 0) /\ Same(Loopers!Started(reset[0]), reset[0])
          /\ Loopers!Started(reset[0]).partStep = 0
      BY <3>1, <3>4, StartedFits
    <3> DEFINE final == [reset[0] EXCEPT !.onended = "last"]
    <3>6. Fit(final, 0) /\ Same(final, reset[0]) /\ final.partStep = 0
      BY <3>4 DEF Fit, Fields, Same
    <3> HIDE DEF final, new
    <3>7. Fit(new[0], 0) /\ Same(new[0], part[0]) /\ new[0].partStep = 0
      BY <3>3, <3>4, <3>5, <3>6 DEF Same, final
    <3>8. ScoreAt(0) BY <3>1, LoopersAssumption DEF ScoreAt
    <3> QED BY <3>1, <3>2, <3>3, <3>7, <3>8, <2>4 DEF EndsWell, new
  <2> QED BY <2>5, <2>6
<1> QED BY <1>1, <1>2, <1>c

LEMMA TickKeeps == ASSUME LoopersInv, NEW p \in Loopers!Parts, Loopers!Tick(p) PROVE LoopersInv'
<1> DEFINE r == part[p]
           out == Loopers!Incremented(p, part)
           counted == [out.ps EXCEPT ![p].metroTicks = (@ + 1) % Wrap]
<1>a. /\ DOMAIN part = Loopers!Parts /\ \A q \in Loopers!Parts : Fit(part[q], q)
           /\ Same(part[q], part[q])
      /\ \A q \in Loopers!Parts : part[q].partStep \in Nat
      /\ scored \in 0..N /\ ScoreAt(currentPart)
      /\ straight \subseteq Loopers!Parts /\ \A q \in straight : InStep(part[q])
  BY DEF LoopersInv, Fit, Same
<1>b. /\ r.isPlaying
      /\ part' = IF out.throws THEN out.ps ELSE counted
      /\ currentPart' = out.at /\ scored' = scored
      /\ straight' = {q \in straight : q /= p => q \in Loopers!Straight(part')}
                        \ (IF out.throws \/ r.looping THEN {p} ELSE {})
  BY <1>a DEF Loopers!Tick, Fit
\* The part that ticks: what throws takes it out of the straight ones.
<1>c. /\ DOMAIN out.ps = Loopers!Parts /\ \A q \in Loopers!Parts : Fit(out.ps[q], q)
           /\ Same(out.ps[q], part[q])
      /\ \A q \in Loopers!Parts \ {p} : out.ps[q].partStep \in {part[q].partStep, 0}
      /\ ScoreAt(out.at)
      /\ ~out.throws /\ ~r.looping =>
           out.ps[p].partStep = IF r.partStep + 1 < r.length THEN r.partStep + 1 ELSE 0
  <2> DEFINE more == [part EXCEPT ![p].partStep = @ + 1]
  <2>1. CASE r.partStep + 1 < r.length
    <3>1. out = [ps |-> more, at |-> currentPart, throws |-> FALSE]
      BY <2>1 DEF Loopers!Incremented
    <3>2. DOMAIN more = Loopers!Parts /\ more[p] = [r EXCEPT !.partStep = @ + 1]
            /\ \A q \in Loopers!Parts \ {p} : more[q] = part[q]
      BY <1>a
    <3> DEFINE next == [r EXCEPT !.partStep = @ + 1]
    <3>3. Fit(next, p) /\ Same(next, r) /\ next.partStep = r.partStep + 1
      <4>1. Fit(r, p) BY <1>a
      <4> HIDE DEF r, out
      <4> QED BY <4>1, <2>1 DEF Fit, Fields, Same
    <3> HIDE DEF more, next, out
    <3> QED BY <3>1, <3>2, <3>3, <2>1, <1>a DEF next
  <2>2. CASE ~(r.partStep + 1 < r.length) /\ ~r.looping /\ Loopers!AtLastStep(r)
    <3>1. out = Loopers!Ended(p, part) BY <2>2 DEF Loopers!Incremented
    <3>2. r.onended /= "reset" BY <2>2, <1>a DEF Fit
    <3>3. EndsWell(out, p) BY <3>1, <3>2, EndedWell
    <3> HIDE DEF out
    <3> QED BY <3>3, <2>2 DEF EndsWell
  <2>3. CASE ~(r.partStep + 1 < r.length) /\ (r.looping \/ ~Loopers!AtLastStep(r))
    <3>1. out = [ps |-> part, at |-> currentPart, throws |-> FALSE]
      BY <2>3 DEF Loopers!Incremented
    <3>2. ~Loopers!AtLastStep(r) => r.partStep = 0
      <4>1. Fit(r, p) BY <1>a
      <4> HIDE DEF r, out
      <4>2. r.length \in Nat /\ r.partStep \in Nat /\ (r.partStep < r.length \/ r.partStep = 0)
        <5>1. r.length \in Lengths \cup {0} /\ r.partStep \in Nat
                /\ (r.partStep < r.length \/ r.partStep = 0)
          BY <4>1 DEF Fit
        <5>2. Lengths \cup {0} \subseteq Nat BY LoopersAssumption
        <5>3. r.length \in Nat BY <5>1, <5>2, Zenon
        <5> QED BY <5>1, <5>3, Zenon
      <4> DEFINE n == r.length   k == r.partStep
      <4>3. ~(k + 1 < n) /\ ~(k + 1 = n) => k = 0
        <5>1. n \in Nat /\ k \in Nat /\ (k < n \/ k = 0) BY <4>2
        <5> HIDE DEF n, k
        <5> QED BY <5>1
      <4> QED BY <4>3, <2>3 DEF Loopers!AtLastStep
    <3> HIDE DEF out
    <3> QED BY <3>1, <3>2, <2>3, <1>a
  <2> QED BY <2>1, <2>2, <2>3
<1> HIDE DEF out
<1> DEFINE m == (r.metroTicks + 1) % Wrap
<1>d. /\ DOMAIN part' = Loopers!Parts
      /\ \A q \in Loopers!Parts \ {p} : part'[q] = out.ps[q]
      /\ part'[p] = IF out.throws THEN out.ps[p] ELSE [out.ps[p] EXCEPT !.metroTicks = m]
  BY <1>b, <1>c DEF Same
<1>e. r.metroTicks \in 0..(Wrap - 1) /\ r.length \in Lengths \cup {0} /\ r.partStep \in Nat
        /\ (r.partStep < r.length \/ r.partStep = 0)
  BY <1>a DEF Fit
<1>f. m \in 0..(Wrap - 1)
  <2> HIDE DEF r
  <2> QED BY <1>e, LoopersAssumption
<1> DEFINE last_ == [out.ps[p] EXCEPT !.metroTicks = m]
<1>g. /\ Fit(last_, p) /\ last_.looping = r.looping /\ last_.length = r.length
      /\ last_.metroTicks = m /\ last_.partStep = out.ps[p].partStep
      /\ last_.late = r.late
  <2> DEFINE ps == out.ps[p]
  <2>1. Fit(ps, p) /\ Same(ps, r) BY <1>c
  <2> HIDE DEF ps, m, r
  <2>2. Fit([ps EXCEPT !.metroTicks = m], p) BY <2>1, <1>f DEF Fit, Fields
  <2>3. /\ [ps EXCEPT !.metroTicks = m].looping = r.looping
        /\ [ps EXCEPT !.metroTicks = m].length = r.length
        /\ [ps EXCEPT !.metroTicks = m].metroTicks = m
        /\ [ps EXCEPT !.metroTicks = m].partStep = ps.partStep
        /\ [ps EXCEPT !.metroTicks = m].late = r.late
    BY <2>1 DEF Fit, Fields, Same
  <2> QED BY <2>2, <2>3 DEF ps
<1> HIDE DEF last_
<1>1. \A q \in Loopers!Parts : Fit(part'[q], q)
  <2> SUFFICES ASSUME NEW q \in Loopers!Parts PROVE Fit(part'[q], q) OBVIOUS
  <2> QED BY <1>c, <1>d, <1>g DEF last_
<1>2. straight' \subseteq Loopers!Parts BY <1>a, <1>b
<1>3. ASSUME NEW q \in straight' PROVE InStep(part'[q])
  <2>0. q \in Loopers!Parts /\ q \in straight /\ InStep(part[q]) BY <1>a, <1>b
  <2>1. CASE q /= p
    <3>1. part'[q].partStep = 0 => part[q].partStep = 0 BY <2>1, <1>b DEF Loopers!Straight
    <3>2. Same(part'[q], part[q]) /\ part'[q].partStep \in {part[q].partStep, 0}
      BY <2>0, <2>1, <1>c, <1>d
    <3>3. part'[q].partStep = part[q].partStep BY <3>1, <3>2
    <3> QED BY <2>0, <3>2, <3>3, SameInStep
  <2>2. CASE q = p
    <3>1. ~out.throws /\ ~r.looping BY <2>2, <1>b
    <3>2. part'[q] = last_ BY <2>2, <3>1, <1>d DEF last_
    <3>3. last_.partStep = IF r.partStep + 1 < r.length THEN r.partStep + 1 ELSE 0
      BY <3>1, <1>c, <1>g
    <3>4. r.length > 0 => r.metroTicks % r.length = (r.partStep + r.late) % r.length
      BY <2>0, <2>2 DEF InStep
    <3>5. r.length > 0 => m % r.length = (last_.partStep + r.late) % r.length
      <4> SUFFICES ASSUME r.length > 0
                   PROVE  m % r.length = (last_.partStep + r.late) % r.length
        OBVIOUS
      <4>1. r.length \in Lengths /\ r.metroTicks % r.length = (r.partStep + r.late) % r.length
              /\ r.length \in Nat /\ r.partStep \in Nat /\ r.late \in Nat
              /\ r.partStep < r.length
        <5>1. r.length \in Lengths BY <1>e
        <5>2. Fit(r, p) BY <1>a
        <5>3. r.late \in Nat BY <5>2 DEF Fit
        <5> QED BY <5>1, <5>3, <1>e, <3>4, LoopersAssumption
      <4> DEFINE n == r.length   k == r.partStep   t == r.late   c == r.metroTicks
      <4>a. n \in Lengths /\ n \in Nat /\ n > 0 /\ k \in Nat /\ t \in Nat /\ c \in 0..(Wrap - 1)
              /\ k < n /\ c % n = (k + t) % n
        BY <4>1, <1>e
      <4>b. m = (c + 1) % Wrap /\ last_.partStep = IF k + 1 < n THEN k + 1 ELSE 0 BY <3>3
      <4> HIDE DEF r, n, k, t, c, m
      <4>2. ((c + 1) % Wrap) % n = ((k + t) + 1) % n
        <5> DEFINE y == k + t
        <5>1. y \in Nat /\ c % n = y % n BY <4>a
        <5> HIDE DEF y
        <5>2. ((c + 1) % Wrap) % n = (y + 1) % n BY ONLY <5>1, <4>a, TickModulo
        <5> QED BY <5>2 DEF y
      <4>3. (n + t) % n = t % n BY <4>a, Around
      <4>4. k + 1 < n => (k + t) + 1 = (k + 1) + t BY <4>a
      <4>5. ~(k + 1 < n) => (k + t) + 1 = n + t BY <4>a
      <4>6. m % n = (last_.partStep + t) % n
        <5>1. CASE k + 1 < n BY <5>1, <4>b, <4>2, <4>4
        <5>2. CASE ~(k + 1 < n)
          <6>1. 0 + t = t BY <4>a
          <6> QED BY <5>2, <4>b, <4>2, <4>3, <4>5, <6>1
        <5> QED BY <5>1, <5>2
      <4> QED BY <4>6 DEF n, t
    <3> HIDE DEF m, r
    <3> QED BY <3>1, <3>2, <3>5, <1>g DEF InStep
  <2> QED BY <2>1, <2>2
<1>4. ScoreAt(currentPart)' BY <1>b, <1>c DEF ScoreAt
<1>5. (\A q \in straight : InStep(part[q]))' BY <1>3
<1>6. (\A q \in Loopers!Parts : Fit(part[q], q))' BY <1>1, <1>b DEF Fit
<1> QED BY <1>2, <1>4, <1>5, <1>6, <1>a, <1>b, <1>d DEF LoopersInv, Loopers!Parts

-----------------------------------------------------------------------------
(* The steps. *)

LEMMA LoopersInit == Loopers!Init => LoopersInv
<1> SUFFICES ASSUME Loopers!Init PROVE LoopersInv OBVIOUS
<1>1. PICK n \in {0} \cup Lengths :
        part = [p \in Loopers!Parts |->
                 [isPlaying |-> FALSE, looping |-> FALSE, partStep |-> 0, length |-> n,
                  phrases |-> <<>>, running |-> FALSE, metroTicks |-> 0, late |-> 0,
                  onended |-> IF p < scored THEN "score" ELSE "stop"]]
  BY DEF Loopers!Init
<1>2. scored \in 0..N /\ currentPart = array /\ straight = Loopers!Parts BY DEF Loopers!Init
<1>3. 0 \in 0..(Wrap - 1) /\ \A k \in Lengths : k > 0 => 0 % k = 0 BY LoopersAssumption
<1>4. ASSUME NEW p \in Loopers!Parts PROVE Fit(part[p], p) /\ InStep(part[p])
  <2>1. part[p] = [isPlaying |-> FALSE, looping |-> FALSE, partStep |-> 0, length |-> n,
                   phrases |-> <<>>, running |-> FALSE, metroTicks |-> 0, late |-> 0,
                   onended |-> IF p < scored THEN "score" ELSE "stop"]
    BY <1>1
  <2>2. n \in Lengths \cup {0} /\ n \in Nat BY <1>1, LoopersAssumption
  <2>3. n > 0 => 0 % n = (0 + 0) % n OBVIOUS
  <2> QED BY <2>1, <2>2, <2>3, <1>3 DEF Fit, Fields, InStep
<1>5. ScoreAt(currentPart) BY <1>2, LoopersAssumption DEF ScoreAt
<1> QED BY <1>1, <1>2, <1>4, <1>5 DEF LoopersInv

\* A call to part p, that leaves what the score is at.
LEMMA CallKeeps ==
  ASSUME LoopersInv, NEW p \in Loopers!Parts, NEW new, Fit(new, p),
         part' = [part EXCEPT ![p] = new], scored' = scored, ScoreAt(currentPart)',
         straight' \subseteq straight, p \in straight' => InStep(new)
  PROVE  LoopersInv'
<1>1. /\ DOMAIN part = Loopers!Parts /\ \A q \in Loopers!Parts : Fit(part[q], q)
      /\ scored \in 0..N /\ straight \subseteq Loopers!Parts
      /\ \A q \in straight : InStep(part[q])
  BY DEF LoopersInv
<1>2. DOMAIN part' = Loopers!Parts /\ part'[p] = new
        /\ \A q \in Loopers!Parts \ {p} : part'[q] = part[q]
  BY <1>1
<1>3. \A q \in Loopers!Parts : Fit(part'[q], q) BY <1>1, <1>2
<1>4. (\A q \in Loopers!Parts : Fit(part[q], q))' BY <1>3 DEF Fit
<1>5. (\A q \in straight : InStep(part[q]))' BY <1>1, <1>2
<1> QED BY <1>1, <1>2, <1>4, <1>5 DEF LoopersInv, Loopers!Parts

\* The same, of a call that goes on or stops: Straight(part') are the parts not cut short.
LEMMA GoesOn ==
  ASSUME LoopersInv, NEW p \in Loopers!Parts, NEW new, Fit(new, p), Same(new, part[p]),
         part' = [part EXCEPT ![p] = new], scored' = scored, ScoreAt(currentPart)',
         \/ new.partStep = part[p].partStep /\ straight' = straight
         \/ new.partStep = 0 /\ straight' = Loopers!Straight(part')
  PROVE  LoopersInv'
<1>1. straight' \subseteq straight BY DEF Loopers!Straight
<1>2. part'[p] = new BY DEF LoopersInv
<1>3. p \in straight' => InStep(part[p]) /\ new.partStep = part[p].partStep
  BY <1>1, <1>2 DEF LoopersInv, Loopers!Straight
<1>4. p \in straight' => InStep(new) BY <1>3, SameInStep
<1> QED BY <1>1, <1>4, CallKeeps

\* A longer phrase makes the part longer, which is in step when its metronome is at the start.
LEMMA AddPhraseKeeps ==
  ASSUME LoopersInv, NEW p \in Loopers!Parts, NEW name \in lo_Names, NEW n \in Lengths,
         Loopers!AddPhrase(p, name, n)
  PROVE  LoopersInv'
<1> DEFINE r == part[p]
           phrases == Append(r.phrases, [name |-> name, length |-> n])
           length == IF n > r.length THEN n ELSE r.length
           new == [r EXCEPT !.phrases = phrases, !.length = length]
<1>1. /\ DOMAIN part = Loopers!Parts /\ Fit(r, p) /\ ScoreAt(currentPart)
      /\ p \in straight => InStep(r)
  BY DEF LoopersInv
<1>2. part' = [part EXCEPT ![p] = new] BY <1>1 DEF Loopers!AddPhrase, Fit, Fields
<1>3. /\ scored' = scored /\ currentPart' = currentPart
      /\ straight' = IF n > r.length /\ (r.metroTicks > 0 \/ r.late > 0)
                     THEN straight \ {p} ELSE straight
  BY DEF Loopers!AddPhrase
<1> HIDE DEF r, phrases
<1>a. n \in Nat /\ r.length \in Nat /\ r.metroTicks \in Nat /\ r.partStep \in Nat /\ r.late \in Nat
        /\ (r.partStep < r.length \/ r.partStep = 0) /\ r.length \in Lengths \cup {0}
  <2>1. Lengths \cup {0} \subseteq Nat /\ 0..(Wrap - 1) \subseteq Nat BY LoopersAssumption
  <2>2. r.length \in Nat BY <1>1, <2>1, Zenon DEF Fit
  <2>3. r.metroTicks \in Nat BY <1>1, <2>1, Zenon DEF Fit
  <2>4. n \in Nat BY <2>1, Zenon
  <2> QED BY <1>1, <2>2, <2>3, <2>4, Zenon DEF Fit
<1>b. length \in Lengths \cup {0} /\ (r.partStep < length \/ r.partStep = 0) BY <1>a
<1> HIDE DEF length
<1>4. Fit(new, p) BY <1>1, <1>b DEF Fit, Fields
<1>5. p \in straight' => InStep(new)
  <2> SUFFICES ASSUME p \in straight' PROVE InStep(new) OBVIOUS
  <2>1. p \in straight /\ InStep(r) BY <1>1, <1>3
  <2>2. /\ new.looping = r.looping /\ new.length = length /\ new.metroTicks = r.metroTicks
        /\ new.partStep = r.partStep
    BY <1>1 DEF Fit, Fields
  <2>a. new.late = r.late BY <1>1 DEF Fit, Fields
  <2>3. CASE length = r.length
    BY <2>1, <2>2, <2>a, <2>3 DEF InStep
  <2>4. CASE n > r.length /\ length = n /\ r.metroTicks = 0 /\ r.late = 0
    <3>1. r.partStep = 0
      <4>1. r.length > 0 => 0 % r.length = (r.partStep + 0) % r.length BY <2>1, <2>4 DEF InStep
      <4> DEFINE l == r.length   k == r.partStep
      <4>2. l \in Nat /\ k \in Nat /\ (k < l \/ k = 0) /\ (l > 0 => 0 % l = (k + 0) % l)
        BY <1>a, <4>1
      <4> HIDE DEF l, k
      <4>3. l > 0 => 0 % l = 0 BY <4>2
      <4>4. k < l => (k + 0) % l = k BY <4>2
      <4>5. k = 0 BY <4>2, <4>3, <4>4
      <4> QED BY <4>5 DEF k
    <3>2. 0 % n = (0 + 0) % n OBVIOUS
    <3> HIDE DEF new
    <3> QED BY <2>1, <2>2, <2>a, <2>4, <3>1, <3>2 DEF InStep
  <2>5. n > r.length => r.metroTicks = 0 /\ r.late = 0 BY <1>3, <1>a
  <2> HIDE DEF new
  <2> QED BY <2>3, <2>4, <2>5, <1>a DEF length
<1>6. straight' \subseteq straight /\ ScoreAt(currentPart)' BY <1>1, <1>3 DEF ScoreAt
<1> HIDE DEF new
<1> QED BY <1>2, <1>3, <1>4, <1>5, <1>6, CallKeeps

\* What becomes of its phrases changes nothing of where a part is.
LEMMA PhrasesKeep ==
  ASSUME LoopersInv, NEW p \in Loopers!Parts, NEW phrases,
         part' = [part EXCEPT ![p].phrases = phrases],
         UNCHANGED <<scored, currentPart, straight>>
  PROVE  LoopersInv'
<1> DEFINE r == part[p]
           new == [r EXCEPT !.phrases = phrases]
<1>1. Fit(r, p) /\ ScoreAt(currentPart)' BY DEF LoopersInv, ScoreAt
<1>2. part' = [part EXCEPT ![p] = new] OBVIOUS
<1> HIDE DEF r
<1>3. Fit(new, p) /\ Same(new, r) /\ new.partStep = r.partStep
  BY <1>1 DEF Fit, Fields, Same
<1> HIDE DEF new
<1> QED BY <1>1, <1>2, <1>3, GoesOn DEF r

\* A tick that comes late takes the count and the late ticks one further.
LEMMA LateTickKeeps ==
  ASSUME LoopersInv, NEW p \in Loopers!Parts, Loopers!LateTick(p) PROVE LoopersInv'
<1> DEFINE r == part[p]
           m == (r.metroTicks + 1) % Wrap
           new == [r EXCEPT !.metroTicks = m, !.late = @ + 1]
<1>1. Fit(r, p) /\ DOMAIN part = Loopers!Parts /\ ScoreAt(currentPart)
        /\ (p \in straight => InStep(r))
  BY DEF LoopersInv
<1>2. part' = [part EXCEPT ![p] = new] BY <1>1 DEF Loopers!LateTick, Fit, Fields
<1>3. UNCHANGED <<scored, currentPart, straight>> BY DEF Loopers!LateTick
<1> HIDE DEF r
<1>4. r.metroTicks \in 0..(Wrap - 1) /\ r.late \in Nat /\ r.partStep \in Nat
        /\ r.length \in Lengths \cup {0}
  BY <1>1 DEF Fit
<1>5. m \in 0..(Wrap - 1) BY <1>4, LoopersAssumption
<1> HIDE DEF m
<1>6. Fit(new, p) BY <1>1, <1>4, <1>5 DEF Fit, Fields
<1>7. new.looping = r.looping /\ new.length = r.length /\ new.partStep = r.partStep
        /\ new.metroTicks = m /\ new.late = r.late + 1
  BY <1>1 DEF Fit, Fields
<1> HIDE DEF new
<1>8. ASSUME InStep(r) PROVE InStep(new)
  <2> SUFFICES ASSUME r.length > 0
               PROVE  m % r.length = (r.partStep + (r.late + 1)) % r.length
    BY <1>7, <1>8 DEF InStep
  <2> DEFINE n == r.length   y == r.partStep + r.late   c == r.metroTicks
  <2>1. n \in Lengths /\ n > 0 /\ y \in Nat /\ c \in 0..(Wrap - 1) /\ c % n = y % n
    BY <1>4, <1>8, LoopersAssumption DEF InStep
  <2>2. r.partStep + (r.late + 1) = y + 1 BY <1>4
  <2> HIDE DEF n, y, c
  <2>3. ((c + 1) % Wrap) % n = (y + 1) % n BY <2>1, TickModulo
  <2> QED BY <2>2, <2>3 DEF n, c, m
<1>9. ScoreAt(currentPart)' BY <1>1, <1>3 DEF ScoreAt
<1> QED BY <1>1, <1>2, <1>3, <1>6, <1>8, <1>9, CallKeeps

LEMMA HaltKeeps ==
  ASSUME LoopersInv, NEW p \in Loopers!Parts, Loopers!Halt(p) PROVE LoopersInv'
<1> DEFINE r == part[p]
           new == [r EXCEPT !.running = FALSE]
<1>1. Fit(r, p) /\ DOMAIN part = Loopers!Parts /\ ScoreAt(currentPart) /\ ~r.isPlaying
  BY DEF LoopersInv, Loopers!Halt
<1>2. part' = [part EXCEPT ![p] = new] BY <1>1 DEF Loopers!Halt, Fit, Fields
<1>3. UNCHANGED <<scored, currentPart, straight>> BY DEF Loopers!Halt
<1>4. ScoreAt(currentPart)' BY <1>1, <1>3 DEF ScoreAt
<1> HIDE DEF r
<1>5. Fit(new, p) /\ Same(new, r) /\ new.partStep = r.partStep
  BY <1>1 DEF Fit, Fields, Same
<1> HIDE DEF new
<1> QED BY <1>2, <1>3, <1>4, <1>5, GoesOn DEF r

LEMMA LoopersNext == LoopersInv /\ [Loopers!Next]_(Loopers!vars) => LoopersInv'
<1> SUFFICES ASSUME LoopersInv, [Loopers!Next]_(Loopers!vars) PROVE LoopersInv' OBVIOUS
<1>a. /\ DOMAIN part = Loopers!Parts /\ \A p \in Loopers!Parts : Fit(part[p], p)
      /\ scored \in 0..N /\ ScoreAt(currentPart)
      /\ straight \subseteq Loopers!Parts /\ \A p \in straight : InStep(part[p])
  BY DEF LoopersInv
<1>1. ASSUME NEW p \in Loopers!Parts, Loopers!Start(p) PROVE LoopersInv'
  <2>1. Fit(Loopers!Started(part[p]), p) /\ Same(Loopers!Started(part[p]), part[p])
          /\ Loopers!Started(part[p]).partStep = part[p].partStep
    BY <1>a, StartedFits
  <2>2. part' = [part EXCEPT ![p] = Loopers!Started(part[p])] /\ scored' = scored
          /\ ScoreAt(currentPart)' /\ straight' = straight
    BY <1>1, <1>a DEF Loopers!Start, ScoreAt
  <2> QED BY <2>1, <2>2, GoesOn
<1>2. ASSUME NEW p \in Loopers!Parts, Loopers!Stop(p) PROVE LoopersInv'
  <2>1. Fit(Loopers!Stopped(part[p]), p) /\ Same(Loopers!Stopped(part[p]), part[p])
          /\ Loopers!Stopped(part[p]).partStep = 0
    BY <1>a, StoppedFits
  <2>2. part' = [part EXCEPT ![p] = Loopers!Stopped(part[p])] /\ scored' = scored
          /\ ScoreAt(currentPart)' /\ straight' = Loopers!Straight(part')
    BY <1>2, <1>a DEF Loopers!Stop, ScoreAt
  <2> QED BY <2>1, <2>2, GoesOn
<1>3. ASSUME NEW p \in Loopers!Parts, Loopers!Pause(p) PROVE LoopersInv'
  <2>1. Fit(Loopers!Paused(part[p]), p) /\ Same(Loopers!Paused(part[p]), part[p])
          /\ Loopers!Paused(part[p]).partStep = part[p].partStep
    BY <1>a, PausedFits
  <2>2. part' = [part EXCEPT ![p] = Loopers!Paused(part[p])] /\ scored' = scored
          /\ ScoreAt(currentPart)' /\ straight' = straight
    BY <1>3, <1>a DEF Loopers!Pause, ScoreAt
  <2> QED BY <2>1, <2>2, GoesOn
<1>4. ASSUME NEW p \in Loopers!Parts, Loopers!Loop(p) PROVE LoopersInv'
  <2>1. Fit(Loopers!Looped(part[p]), p) BY <1>a, LoopedFits
  <2>2. part' = [part EXCEPT ![p] = Loopers!Looped(part[p])] /\ scored' = scored
          /\ ScoreAt(currentPart)' /\ straight' = straight \ {p}
    BY <1>4, <1>a DEF Loopers!Loop, ScoreAt
  <2> QED BY <2>1, <2>2, CallKeeps
<1>5. ASSUME NEW p \in Loopers!Parts, Loopers!NoLoop(p) PROVE LoopersInv'
  <2>1. Fit(Loopers!NotLooped(part[p]), p)
          /\ (InStep(part[p]) => InStep(Loopers!NotLooped(part[p])))
    BY <1>a, NotLoopedFits
  <2>2. part' = [part EXCEPT ![p] = Loopers!NotLooped(part[p])] /\ scored' = scored
          /\ ScoreAt(currentPart)' /\ straight' = straight
    BY <1>5, <1>a DEF Loopers!NoLoop, ScoreAt
  <2> QED BY <2>1, <2>2, <1>a, CallKeeps
<1>6. ASSUME NEW p \in Loopers!Parts, NEW name \in lo_Names, NEW n \in Lengths,
             Loopers!ReplaceSequence(p, name, n)
      PROVE  LoopersInv'
  BY <1>6, PhrasesKeep DEF Loopers!ReplaceSequence
<1>7. ASSUME NEW p \in Loopers!Parts, NEW name \in lo_Names, Loopers!RemovePhrase(p, name)
               PROVE LoopersInv'
  BY <1>7, PhrasesKeep DEF Loopers!RemovePhrase
\* The score calls a part only when it is at one: at the only one.
<1>b. Loopers!IsPart(currentPart) => currentPart \in Loopers!Parts
  BY <1>a, LoopersAssumption DEF Loopers!IsPart, Loopers!Parts
<1>8. CASE Loopers!ScoreStart
  <2> DEFINE p == currentPart
  <2>1. p \in Loopers!Parts BY <1>8, <1>b DEF Loopers!ScoreStart
  <2>2. Fit(Loopers!Started(part[p]), p) /\ Same(Loopers!Started(part[p]), part[p])
          /\ Loopers!Started(part[p]).partStep = part[p].partStep
    BY <2>1, <1>a, StartedFits
  <2>3. part' = [part EXCEPT ![p] = Loopers!Started(part[p])] /\ scored' = scored
          /\ ScoreAt(currentPart)' /\ straight' = straight
    BY <1>8, <1>a DEF Loopers!ScoreStart, ScoreAt
  <2> QED BY <2>1, <2>2, <2>3, GoesOn
<1>9. CASE Loopers!ScoreLoop
  <2> DEFINE p == currentPart
  <2>1. CASE Loopers!IsPart(currentPart)
    <3>1. p \in Loopers!Parts BY <2>1, <1>b
    <3>2. Fit(Loopers!Started(part[p]), p) /\ Same(Loopers!Started(part[p]), part[p])
            /\ Loopers!Started(part[p]).partStep = part[p].partStep
      BY <3>1, <1>a, StartedFits
    <3>3. part' = [part EXCEPT ![p] = Loopers!Started(part[p])] /\ scored' = scored
            /\ ScoreAt(currentPart)' /\ straight' = straight
      BY <1>9, <2>1, <1>a DEF Loopers!ScoreLoop, ScoreAt
    <3> QED BY <3>1, <3>2, <3>3, GoesOn
  <2>2. CASE ~Loopers!IsPart(currentPart)
    BY <1>9, <2>2, <1>a DEF Loopers!ScoreLoop, LoopersInv, Loopers!Parts, Fit, ScoreAt
  <2> QED BY <2>1, <2>2
<1>10. CASE Loopers!ScoreNoLoop
  BY <1>10, <1>a DEF Loopers!ScoreNoLoop, LoopersInv, Loopers!Parts, Fit, ScoreAt
<1>11. CASE Loopers!ScorePause
  <2> DEFINE p == currentPart
  <2>1. p \in Loopers!Parts BY <1>11, <1>b DEF Loopers!ScorePause
  <2>2. Fit(Loopers!Stopped(part[p]), p) /\ Same(Loopers!Stopped(part[p]), part[p])
          /\ Loopers!Stopped(part[p]).partStep = 0
    BY <2>1, <1>a, StoppedFits
  <2>3. part' = [part EXCEPT ![p] = Loopers!Stopped(part[p])] /\ scored' = scored
          /\ ScoreAt(currentPart)' /\ straight' = Loopers!Straight(part')
    BY <1>11, <1>a DEF Loopers!ScorePause, ScoreAt
  <2> QED BY <2>1, <2>2, <2>3, GoesOn
<1>12. CASE Loopers!ScoreStop
  <2> DEFINE p == currentPart
  <2>1. p \in Loopers!Parts BY <1>12, <1>b DEF Loopers!ScoreStop
  <2>2. Fit(Loopers!Stopped(part[p]), p) /\ Same(Loopers!Stopped(part[p]), part[p])
          /\ Loopers!Stopped(part[p]).partStep = 0
    BY <2>1, <1>a, StoppedFits
  <2>3. currentPart = 0
    BY <1>12, <1>a, LoopersAssumption DEF Loopers!ScoreStop, Loopers!IsPart, ScoreAt
  <2>4. part' = [part EXCEPT ![p] = Loopers!Stopped(part[p])] /\ scored' = scored
          /\ ScoreAt(currentPart)' /\ straight' = Loopers!Straight(part')
    BY <1>12, <1>a, <2>3 DEF Loopers!ScoreStop, ScoreAt
  <2> QED BY <2>1, <2>2, <2>4, GoesOn
<1>13. CASE UNCHANGED Loopers!vars
  BY <1>13, <1>a DEF Loopers!vars, LoopersInv, Loopers!Parts, Fit, ScoreAt
<1> QED
  BY <1>1, <1>2, <1>3, <1>4, <1>5, <1>6, <1>7, <1>8, <1>9, <1>10, <1>11, <1>12, <1>13,
     AddPhraseKeeps, TickKeeps, LateTickKeeps, HaltKeeps
  DEF Loopers!Next

\* A phrase that fits into the part a number of times is at its step when the part is.
LEMMA LoopersSafe == LoopersInv => Loopers!PhrasesInStep
<1> SUFFICES ASSUME LoopersInv, NEW p \in straight, NEW d \in Lengths \ {0},
                    part[p].length > 0, part[p].length % d = 0
             PROVE  part[p].metroTicks % d = (part[p].partStep + part[p].late) % d
  BY DEF Loopers!PhrasesInStep, Loopers!StepPlayed, Loopers!StepDue
<1> DEFINE r == part[p]
<1>1. Fit(r, p) /\ InStep(r) BY DEF LoopersInv
<1> HIDE DEF r
<1> DEFINE n == r.length   x == r.metroTicks   y == r.partStep + r.late
<1>2. n \in Nat /\ d \in Nat /\ d > 0
  <2>1. r.length \in Lengths \cup {0} BY <1>1 DEF Fit
  <2>2. Lengths \cup {0} \subseteq Nat BY LoopersAssumption
  <2>3. r.length \in Nat BY <2>1, <2>2, Zenon
  <2>4. d \in Nat /\ d /= 0 BY <2>2
  <2> QED BY <2>3, <2>4
<1>3. x \in Nat /\ y \in Nat
  <2>1. r.metroTicks \in 0..(Wrap - 1) /\ r.partStep \in Nat /\ r.late \in Nat BY <1>1 DEF Fit
  <2> QED BY <2>1, LoopersAssumption
<1>4. n > 0 /\ n % d = 0 BY DEF r
<1>5. x % n = y % n BY <1>1, <1>4 DEF InStep
<1> HIDE DEF n, x, y
\* Counts that agree modulo a length agree modulo what divides it.
<1> DEFINE q == x \div n   u == y \div n   k == x % n   e == n \div d   j == k \div d
           i == k % d
<1>6. /\ q \in Nat /\ u \in Nat /\ e \in Nat /\ k \in Nat
      /\ x = n * q + k /\ y = n * u + k /\ n = d * e
  <2>1. q \in Nat /\ x = n * q + (x % n) /\ x % n \in 0..(n - 1) BY ONLY <1>2, <1>3, <1>4
  <2>2. u \in Nat /\ y = n * u + (y % n) BY ONLY <1>2, <1>3, <1>4
  <2>3. e \in Nat /\ n = d * e + (n % d) BY ONLY <1>2, <1>4
  <2> QED BY ONLY <2>1, <2>2, <2>3, <1>2, <1>4, <1>5
<1> HIDE DEF k
<1>7. j \in Nat /\ i \in Nat /\ i < d /\ k = d * j + i BY <1>2, <1>6
<1> HIDE DEF q, u, e, j, i
<1>8. x = d * (e * q + j) + i /\ y = d * (e * u + j) + i
      /\ e * q + j \in Nat /\ e * u + j \in Nat
  BY ONLY <1>2, <1>6, <1>7
<1>9. \A a \in Nat : (d * a + i) % d = i BY ONLY <1>2, <1>7
<1>10. x % d = y % d BY ONLY <1>8, <1>9
<1> QED BY <1>10 DEF x, y, r

\* Whatever the sketch calls of parts and scores, at any step of theirs, however many ticks come
\* late, whatever the lengths: in a part that was only paused and left to end, a phrase that fits
\* into it is ahead of the part by the late ticks and by nothing else.
THEOREM PlaysInStep == Loopers!Spec => []PhrasesInStep
<1>1. LoopersInv => PhrasesInStep BY LoopersSafe DEF PhrasesInStep
<1> QED BY <1>1, LoopersInit, LoopersNext, PTL DEF Loopers!Spec

-----------------------------------------------------------------------------
(* Voices. *)

\* Finite sets and their cardinalities are those of the theorems on finite sets.
LEMMA SameCounts ==
  /\ \A S : Synth!Cardinality(S) = Cardinality(S)
  /\ \A S : Synth!IsFiniteSet(S) <=> IsFiniteSet(S)
BY DEF Synth!Cardinality, Cardinality, Synth!IsFiniteSet, IsFiniteSet

\* How many there are: none, one more than there were, positions, and one alone.
LEMMA Counts ==
  /\ Synth!IsFiniteSet({}) /\ Synth!Cardinality({}) = 0
  /\ \A S : Synth!IsFiniteSet(S) => Synth!Cardinality(S) \in Nat
  /\ \A S, x : Synth!IsFiniteSet(S) /\ x \notin S =>
       Synth!IsFiniteSet(S \cup {x}) /\ Synth!Cardinality(S \cup {x}) = Synth!Cardinality(S) + 1
  /\ \A S, x : Synth!IsFiniteSet(S) /\ x \in S /\ Synth!Cardinality(S) = 1 => S = {x}
  /\ \A k \in Nat : Synth!Cardinality(1..k) = k
<1>1. Synth!IsFiniteSet({}) /\ Synth!Cardinality({}) = 0 BY FS_EmptySet, SameCounts
<1>2. \A S : Synth!IsFiniteSet(S) => Synth!Cardinality(S) \in Nat BY FS_CardinalityType, SameCounts
<1>3. \A S, x : Synth!IsFiniteSet(S) /\ x \notin S =>
        Synth!IsFiniteSet(S \cup {x}) /\ Synth!Cardinality(S \cup {x}) = Synth!Cardinality(S) + 1
  BY FS_AddElement, SameCounts
<1>4. ASSUME NEW S, NEW x, Synth!IsFiniteSet(S), x \in S, Synth!Cardinality(S) = 1 PROVE S = {x}
  <2>1. Synth!IsFiniteSet(S \ {x}) /\ Synth!Cardinality(S \ {x}) = Synth!Cardinality(S) - 1
    BY <1>4, FS_RemoveElement, SameCounts
  <2>2. S \ {x} = {} BY <1>4, <2>1, FS_EmptySet, SameCounts
  <2> QED BY <1>4, <2>2
<1>5. ASSUME NEW k \in Nat PROVE Synth!Cardinality(1..k) = k
  <2>1. Synth!Cardinality(1..k) = IF 1 > k THEN 0 ELSE k - 1 + 1 BY <1>5, FS_Interval, SameCounts
  <2> QED BY <2>1
<1> QED BY <1>1, <1>2, <1>3, <1>4, <1>5

-----------------------------------------------------------------------------
Use == [time : Nat, value : Nat]

\* The values in time are for t or before, and the latest is v.
Latest(uses, t, v) ==
  /\ uses \in Seq(Use) /\ \A i \in DOMAIN uses : uses[i].time <= t
  /\ v = IF uses = <<>> THEN 0 ELSE uses[Len(uses)].value

\* The notes held have the first voices, one each, which were told to attack them alone; the other
\* voices are silent, and the latest value is how many notes there are.
Own(s, t) ==
  /\ Synth!IsFiniteSet(DOMAIN s.notes) /\ Latest(s.uses, t, Synth!Cardinality(DOMAIN s.notes))
  /\ Synth!Cardinality(DOMAIN s.notes) <= ps_maxVoices
  /\ DOMAIN s.sounding = Synth!Voices
  /\ \A n \in DOMAIN s.notes : /\ s.notes[n].voice \in 0..(Synth!Cardinality(DOMAIN s.notes) - 1)
                               /\ s.sounding[s.notes[n].voice] = {n}
  /\ \A v \in Synth!Voices : v >= Synth!Cardinality(DOMAIN s.notes) => s.sounding[v] = {}

SynthInv == /\ ps_now \in 0..ps_MaxTime /\ lastTime \in Nat /\ ps_orderly \in BOOLEAN
            /\ ps_orderly => Own(Synth!Synth, lastTime)

-----------------------------------------------------------------------------
(* The values in time. *)

\* As all the values are for t or before, the latest is the value at t.
LEMMA LatestIsValue ==
  ASSUME NEW uses, NEW t \in Nat, NEW v \in Nat, Latest(uses, t, v)
  PROVE  Synth!Before(uses, t) = Len(uses) /\ Synth!ValueAt(uses, t) = v
<1>1. uses \in Seq(Use) /\ DOMAIN uses = 1..Len(uses) /\ Len(uses) \in Nat BY DEF Latest
<1>2. {i \in DOMAIN uses : uses[i].time <= t} = 1..Len(uses) BY <1>1 DEF Latest
<1>3. Synth!Before(uses, t) = Len(uses) BY <1>1, <1>2, Counts DEF Synth!Before
<1> QED BY <1>1, <1>3 DEF Synth!ValueAt, Latest

LEMMA LatestLater ==
  ASSUME NEW uses, NEW t \in Nat, NEW u \in Nat, t <= u, NEW v, Latest(uses, t, v)
  PROVE  Latest(uses, u, v)
<1>1. \A i \in DOMAIN uses : uses[i] \in Use BY DEF Latest
<1>2. \A i \in DOMAIN uses : uses[i].time \in Nat BY <1>1 DEF Use
<1> QED BY <1>2 DEF Latest

\* A value set for t or later is the latest, and what is added to the values after it changes none.
LEMMA SetIsLatest ==
  ASSUME NEW uses, NEW t \in Nat, NEW old \in Nat, Latest(uses, t, old), NEW v \in Nat, NEW d
  PROVE  /\ Latest(Synth!SetValue(uses, t, v), t, v)
         /\ Synth!UpdateAfter(Synth!SetValue(uses, t, v), t, d) = Synth!SetValue(uses, t, v)
<1> DEFINE new == [time |-> t, value |-> v]
           added == Append(uses, new)
           set == Synth!SetValue(uses, t, v)
<1>1. uses \in Seq(Use) /\ new \in Use /\ Synth!Before(uses, t) = Len(uses)
  BY LatestIsValue DEF Latest, Use
<1>2. Synth!Inserted(uses, t, v) = added
  <2>1. Synth!Inserted(uses, t, v) =
          SubSeq(uses, 1, (Len(uses) + 1) - 1) \o <<new>> \o SubSeq(uses, Len(uses) + 1, Len(uses))
    BY <1>1 DEF Synth!Inserted, Synth!InsertAt
  <2>2. SubSeq(uses, 1, (Len(uses) + 1) - 1) = uses
    <3>1. (Len(uses) + 1) - 1 = Len(uses) BY <1>1
    <3> QED BY <1>1, <3>1, SubSeqFull
  <2>3. SubSeq(uses, Len(uses) + 1, Len(uses)) = <<>> BY <1>1, SubSeqEmpty
  <2>4. uses \o <<new>> = added BY <1>1, AppendIsConcat
  <2>5. added \in Seq(Use) BY <1>1
  <2>6. added \o <<>> = added BY <2>5, ConcatEmptySeq
  <2> QED BY <2>1, <2>2, <2>3, <2>4, <2>6
<1>3. set = IF Len(added) > Memory THEN Tail(added) ELSE added BY <1>2 DEF Synth!SetValue
<1>4. /\ added \in Seq(Use) /\ Len(added) = Len(uses) + 1
      /\ \A i \in 1..Len(uses) : added[i] = uses[i]
      /\ added[Len(uses) + 1] = new
  BY <1>1
<1>5. \A i \in DOMAIN added : added[i].time <= t
  BY <1>4, <1>1 DEF Latest
<1> HIDE DEF set, added, new
<1>6. /\ set \in Seq(Use) /\ set /= <<>> /\ set[Len(set)] = new
      /\ \A i \in DOMAIN set : set[i].time <= t
  <2>1. CASE Len(added) > Memory
    <3>0. Len(added) \in Nat /\ Len(added) > 1 /\ added /= <<>>
      BY <2>1, <1>1, <1>4, SynthAssumption
    <3>1. /\ set = Tail(added) /\ set \in Seq(Use) /\ Len(set) = Len(added) - 1
          /\ \A i \in 1..Len(set) : set[i] = added[i + 1]
      BY <2>1, <3>0, <1>3, <1>4
    <3>2. Len(set) = Len(uses) /\ Len(set) >= 1 /\ Len(uses) \in Nat BY <3>0, <3>1, <1>1, <1>4
    <3>3. set[Len(set)] = added[Len(uses) + 1] BY <3>1, <3>2
    <3>4. ASSUME NEW i \in DOMAIN set PROVE set[i].time <= t
      <4>1. i \in 1..Len(set) BY <3>1
      <4>2. i + 1 \in DOMAIN added BY <4>1, <3>0, <3>1, <1>4
      <4> QED BY <4>1, <4>2, <3>1, <1>5
    <3> QED BY <3>1, <3>2, <3>3, <3>4, <1>4
  <2>2. CASE ~(Len(added) > Memory)
    BY <2>2, <1>1, <1>3, <1>4, <1>5
  <2> QED BY <2>1, <2>2
<1>7. new.value = v BY DEF new
<1>8. Latest(set, t, v) BY <1>6, <1>7 DEF Latest
<1>9. Synth!UpdateAfter(set, t, d) = set
  <2>1. \A i \in DOMAIN set : ~(set[i].time > t)
    <3>1. \A i \in DOMAIN set : set[i] \in Use BY <1>6
    <3>2. \A i \in DOMAIN set : set[i].time \in Nat BY <3>1 DEF Use
    <3> QED BY <3>2, <1>6
  <2>2. Synth!UpdateAfter(set, t, d) = [i \in DOMAIN set |-> set[i]] BY <2>1 DEF Synth!UpdateAfter
  <2> QED BY <2>2, <1>6
<1> QED BY <1>8, <1>9 DEF set

-----------------------------------------------------------------------------
(* The methods. *)

LEMMA OwnLater == ASSUME NEW s, NEW t \in Nat, NEW u \in Nat, t <= u, Own(s, t)
                  PROVE  Own(s, u)
<1>1. Latest(s.uses, u, Synth!Cardinality(DOMAIN s.notes)) BY LatestLater DEF Own
<1> QED BY <1>1 DEF Own

\* With no notes, no voice sounds: that is what is left of a note released alone, and of all.
LEMMA OwnNone ==
  ASSUME NEW s, NEW t \in Nat, DOMAIN s.notes = {}, Latest(s.uses, t, 0),
           DOMAIN s.sounding = Synth!Voices,
         \A v \in Synth!Voices : s.sounding[v] = {}
  PROVE  Own(s, t)
BY Counts, SynthAssumption DEF Own

LEMMA ReleasedOwn ==
  ASSUME NEW s, NEW t \in Nat, Own(s, t), NEW n, NEW u \in Nat, t <= u,
         n \in DOMAIN s.notes => DOMAIN s.notes = {n}
  PROVE  /\ Own(Synth!ReleasedNote(s, n, u), u)
         /\ DOMAIN Synth!ReleasedNote(s, n, u).notes = DOMAIN s.notes \ {n}
<1>1. CASE n \notin DOMAIN s.notes
  BY <1>1, OwnLater DEF Synth!ReleasedNote
<1>2. CASE n \in DOMAIN s.notes
  <2> DEFINE voice == IF s.notes[n].time <= u THEN s.notes[n].voice ELSE 0
             r == Synth!ReleasedNote(s, n, u)
  <2>1. DOMAIN s.notes = {n} /\ Synth!Cardinality(DOMAIN s.notes) = 1
    <3>1. {n} = {} \cup {n} OBVIOUS
    <3>2. Synth!Cardinality({} \cup {n}) = 0 + 1 BY Counts
    <3> QED BY <1>2, <3>1, <3>2
  <2>2. s.notes[n].voice = 0 /\ voice = 0 BY <2>1 DEF Own
  <2>3. r = [notes |-> [m \in {} |-> s.notes[m]],
             uses |-> Synth!UpdateAfter(Synth!SetValue(s.uses, u, 0), u, -1),
             sounding |-> [s.sounding EXCEPT ![0] = {}]]
    <3>1. DOMAIN s.notes \ {n} = {} BY <2>1
    <3> QED BY <1>2, <2>2, <3>1 DEF Synth!ReleasedNote
  <2> HIDE DEF voice, r
  <2>4. Latest(r.uses, u, 0)
    <3>1. Latest(s.uses, u, 1) BY <2>1, LatestLater DEF Own
    <3>2. /\ Latest(Synth!SetValue(s.uses, u, 0), u, 0)
          /\ Synth!UpdateAfter(Synth!SetValue(s.uses, u, 0), u, -1) = Synth!SetValue(s.uses, u, 0)
      BY <3>1, SetIsLatest
    <3> QED BY <2>3, <3>2
  <2>5. DOMAIN r.sounding = Synth!Voices /\ \A v \in Synth!Voices : r.sounding[v] = {}
    <3>1. /\ DOMAIN s.sounding = Synth!Voices /\ ps_maxVoices >= 1
          /\ \A v \in Synth!Voices : v >= 1 => s.sounding[v] = {}
      BY <2>1 DEF Own
    <3>2. r.sounding = [s.sounding EXCEPT ![0] = {}] BY <2>3
    <3>3. \A v \in Synth!Voices : v = 0 \/ v >= 1 BY SynthAssumption DEF Synth!Voices
    <3> QED BY <3>1, <3>2, <3>3
  <2>6. DOMAIN r.notes = {} BY <2>3
  <2>7. Own(r, u) BY <2>4, <2>5, <2>6, OwnNone
  <2> QED BY <2>1, <2>6, <2>7 DEF r
<1> QED BY <1>1, <1>2

LEMMA ReleasedAllOwn ==
  ASSUME NEW s, NEW t \in Nat, Own(s, t), NEW u \in Nat, t <= u
  PROVE  Own(Synth!ReleasedAll(s, u), u)
<1> DEFINE r == Synth!ReleasedAll(s, u)   c == Synth!Cardinality(DOMAIN s.notes)
<1>1. r = [notes |-> [n \in {} |-> 0], uses |-> Synth!SetValue(s.uses, u, 0),
           sounding |-> [v \in Synth!Voices |-> {}]]
  BY DEF Synth!ReleasedAll
<1>2. c \in Nat /\ Latest(s.uses, u, c) BY LatestLater, Counts DEF Own
<1> HIDE DEF c
<1>3. Latest(Synth!SetValue(s.uses, u, 0), u, 0) BY <1>2, SetIsLatest
<1> HIDE DEF r
<1>4. Own(r, u) BY <1>1, <1>3, OwnNone
<1> QED BY <1>4 DEF r

\* A note that is not held gets the first voice that is free, or there is none.
LEMMA AttackedNew ==
  ASSUME NEW s, NEW t \in Nat, Own(s, t), NEW n, NEW u \in Nat, t <= u, n \notin DOMAIN s.notes
  PROVE  LET c == Synth!Cardinality(DOMAIN s.notes)
             new == [notes |-> [m \in DOMAIN s.notes \cup {n} |->
                                  IF m = n THEN [voice |-> c, time |-> u] ELSE s.notes[m]],
                     uses |-> Synth!UpdateAfter(Synth!SetValue(s.uses, u, c + 1), u, 1),
                     sounding |-> [s.sounding EXCEPT ![c] = @ \cup {n}]]
         IN  /\ Synth!ValueAt(s.uses, u) = c /\ c \in Nat
             /\ c < ps_maxVoices => Own(new, u)
<1> DEFINE c == Synth!Cardinality(DOMAIN s.notes)
           notes_ == [m \in DOMAIN s.notes \cup {n} |->
                        IF m = n THEN [voice |-> c, time |-> u] ELSE s.notes[m]]
           sounding_ == [s.sounding EXCEPT ![c] = @ \cup {n}]
           new == [notes |-> notes_,
                   uses |-> Synth!UpdateAfter(Synth!SetValue(s.uses, u, c + 1), u, 1),
                   sounding |-> sounding_]
<1>1. /\ c \in Nat /\ Latest(s.uses, u, c) /\ c <= ps_maxVoices
      /\ Synth!Cardinality(DOMAIN s.notes \cup {n}) = c + 1
      /\ Synth!IsFiniteSet(DOMAIN s.notes \cup {n})
      /\ DOMAIN s.sounding = Synth!Voices
      /\ \A m \in DOMAIN s.notes : /\ s.notes[m].voice \in 0..(c - 1)
                                   /\ s.sounding[s.notes[m].voice] = {m}
      /\ \A v \in Synth!Voices : v >= c => s.sounding[v] = {}
  BY LatestLater, Counts DEF Own
<1> HIDE DEF c
<1>2. Synth!ValueAt(s.uses, u) = c BY <1>1, LatestIsValue
<1>3. ASSUME c < ps_maxVoices PROVE Own(new, u)
  <2>1. /\ Latest(Synth!SetValue(s.uses, u, c + 1), u, c + 1)
        /\ Synth!UpdateAfter(Synth!SetValue(s.uses, u, c + 1), u, 1) = Synth!SetValue(s.uses, u,
             c + 1)
    BY <1>1, SetIsLatest
  <2>2. c \in Synth!Voices /\ s.sounding[c] = {} BY <1>1, <1>3, SynthAssumption DEF Synth!Voices
  <2>3. /\ DOMAIN sounding_ = Synth!Voices /\ sounding_[c] = {n}
        /\ \A v \in Synth!Voices \ {c} : sounding_[v] = s.sounding[v]
    BY <1>1, <2>2
  <2>4. /\ DOMAIN notes_ = DOMAIN s.notes \cup {n}
        /\ notes_[n].voice = c /\ \A m \in DOMAIN s.notes : notes_[m] = s.notes[m]
    OBVIOUS
  <2> HIDE DEF notes_, sounding_
  <2>5. ASSUME NEW m \in DOMAIN notes_
        PROVE  notes_[m].voice \in 0..((c + 1) - 1) /\ sounding_[notes_[m].voice] = {m}
    <3>1. CASE m = n BY <3>1, <2>3, <2>4, <1>1
    <3>2. CASE m \in DOMAIN s.notes
      <4>1. s.notes[m].voice \in 0..(c - 1) /\ s.sounding[s.notes[m].voice] = {m}
        BY <3>2, <1>1
      <4>2. s.notes[m].voice \in Synth!Voices \ {c}
        BY <4>1, <1>1, <1>3, SynthAssumption DEF Synth!Voices
      <4> QED BY <4>1, <4>2, <2>3, <2>4, <3>2, <1>1
    <3> QED BY <3>1, <3>2, <2>4
  <2>6. ASSUME NEW v \in Synth!Voices, v >= c + 1 PROVE sounding_[v] = {}
    <3>1. v /= c /\ v >= c BY <2>6, <1>1, SynthAssumption DEF Synth!Voices
    <3> QED BY <3>1, <2>3, <1>1
  <2>7. c + 1 <= ps_maxVoices BY <1>1, <1>3, SynthAssumption
  <2>8. /\ new.notes = notes_ /\ new.sounding = sounding_
        /\ new.uses = Synth!UpdateAfter(Synth!SetValue(s.uses, u, c + 1), u, 1)
    OBVIOUS
  <2> HIDE DEF new
  <2>9. Synth!Cardinality(DOMAIN notes_) = c + 1 /\ Synth!IsFiniteSet(DOMAIN notes_) BY <2>4, <1>1
  <2>10. Latest(new.uses, u, c + 1) BY <2>1, <2>8
  <2> QED BY <2>3, <2>5, <2>6, <2>7, <2>8, <2>9, <2>10 DEF Own
<1> QED BY <1>1, <1>2, <1>3 DEF c

\* One that is held is released now first: it is the only one, when calls come in order.
LEMMA AttackedOwn ==
  ASSUME NEW s, NEW t \in Nat, Own(s, t), ps_now \in Nat, NEW n, NEW u \in Nat, t <= u,
         n \in DOMAIN s.notes => DOMAIN s.notes = {n} /\ t <= ps_now /\ ps_now <= u
  PROVE  /\ Own(Synth!Attacked(s, n, u), u)
         /\ DOMAIN s.notes = {} => DOMAIN Synth!Attacked(s, n, u).notes \subseteq {n}
<1> DEFINE r == Synth!ReleasedNote(s, n, ps_now)
<1>1. PICK w \in Nat : w <= u /\ Own(r, w)
  <2>1. CASE n \notin DOMAIN s.notes BY <2>1 DEF Synth!ReleasedNote
  <2>2. CASE n \in DOMAIN s.notes BY <2>2, ReleasedOwn
  <2> QED BY <2>1, <2>2
<1>2. n \notin DOMAIN r.notes
  <2>1. CASE n \notin DOMAIN s.notes BY <2>1 DEF Synth!ReleasedNote
  <2>2. CASE n \in DOMAIN s.notes BY <2>2, ReleasedOwn
  <2> QED BY <2>1, <2>2
<1>3. DOMAIN s.notes = {} => r = s BY DEF Synth!ReleasedNote
<1> DEFINE c == Synth!Cardinality(DOMAIN r.notes)
           new == [notes |-> [m \in DOMAIN r.notes \cup {n} |->
                                IF m = n THEN [voice |-> c, time |-> u] ELSE r.notes[m]],
                   uses |-> Synth!UpdateAfter(Synth!SetValue(r.uses, u, c + 1), u, 1),
                   sounding |-> [r.sounding EXCEPT ![c] = @ \cup {n}]]
<1>4. /\ Synth!ValueAt(r.uses, u) = c /\ c \in Nat
      /\ c < ps_maxVoices => Own(new, u)
  <2> HIDE DEF r
  <2> QED BY <1>1, <1>2, AttackedNew
<1>5. Synth!Attacked(s, n, u) = IF c >= ps_maxVoices THEN r ELSE new
  <2>1. c \in Nat /\ ~(c < 0) BY <1>4
  <2> HIDE DEF c
  <2>2. Synth!Attacked(s, n, u) =
          IF Synth!ValueAt(r.uses, u) >= ps_maxVoices THEN r
          ELSE LET voice == IF Synth!ValueAt(r.uses, u) < 0 THEN 0 ELSE Synth!ValueAt(r.uses, u) IN
               [notes |-> [m \in DOMAIN r.notes \cup {n} |->
                             IF m = n THEN [voice |-> voice, time |-> u] ELSE r.notes[m]],
                uses |-> Synth!UpdateAfter(Synth!SetValue(r.uses, u, Synth!ValueAt(r.uses,
                  u) + 1), u, 1),
                sounding |-> [r.sounding EXCEPT ![voice] = @ \cup {n}]]
    BY DEF Synth!Attacked
  <2> HIDE DEF r
  <2> QED BY <2>1, <2>2, <1>4
<1>6. Own(r, u) BY <1>1, OwnLater
<1>7. DOMAIN new.notes = DOMAIN r.notes \cup {n} OBVIOUS
<1> HIDE DEF r, new
<1>8. Own(Synth!Attacked(s, n, u), u)
  <2>1. c \in Nat /\ ps_maxVoices \in Nat BY <1>4, SynthAssumption
  <2> HIDE DEF c
  <2> QED BY <2>1, <1>4, <1>5, <1>6
<1>9. DOMAIN s.notes = {} => DOMAIN Synth!Attacked(s, n, u).notes \subseteq {n}
  <2> HIDE DEF c
  <2> QED BY <1>3, <1>4, <1>5, <1>7
<1> QED BY <1>8, <1>9 DEF r

\* A note played when there are none is released before another comes.
LEMMA PlayedOwn ==
  ASSUME NEW s, NEW t \in Nat, Own(s, t), ps_now \in Nat, DOMAIN s.notes = {}, NEW n, NEW u \in Nat,
         t <= u
  PROVE  Own(IF Synth!ValueAt(Synth!ReleasedNote(s, n, ps_now).uses, u) >= ps_maxVoices
           THEN Synth!Attacked(s, n, u)
             ELSE Synth!ReleasedNote(Synth!Attacked(s, n, u), n, u + 1), u + 1)
<1> DEFINE attacked == Synth!Attacked(s, n, u)
<1>1. Own(attacked, u) /\ DOMAIN attacked.notes \subseteq {n}
  <2>1. n \notin DOMAIN s.notes OBVIOUS
  <2> QED BY <2>1, AttackedOwn
<1> HIDE DEF attacked
<1>2. u + 1 \in Nat /\ u <= u + 1 OBVIOUS
<1>3. Own(attacked, u + 1) BY <1>1, <1>2, OwnLater
<1>4. n \in DOMAIN attacked.notes => DOMAIN attacked.notes = {n} BY <1>1
<1>5. Own(Synth!ReleasedNote(attacked, n, u + 1), u + 1) BY <1>1, <1>2, <1>4, ReleasedOwn
<1> QED BY <1>3, <1>5 DEF attacked

-----------------------------------------------------------------------------
(* The steps. *)

LEMMA SynthInit == Synth!Init => SynthInv
<1> SUFFICES ASSUME Synth!Init PROVE SynthInv OBVIOUS
<1>1. /\ ps_now = 0 /\ lastTime = 0 /\ ps_orderly = TRUE /\ ps_voicesInUse = <<>>
      /\ ps_notes = [n \in {} |-> 0] /\ sounding = [v \in Synth!Voices |-> {}]
  BY DEF Synth!Init
<1>2. /\ DOMAIN Synth!Synth.notes = {} /\ DOMAIN Synth!Synth.sounding = Synth!Voices
      /\ \A v \in Synth!Voices : Synth!Synth.sounding[v] = {}
  BY <1>1 DEF Synth!Synth
<1>3. Latest(Synth!Synth.uses, 0, 0) BY <1>1 DEF Latest, Synth!Synth
<1>4. Own(Synth!Synth, 0)
  <2> HIDE DEF Synth!Synth
  <2> QED BY <1>2, <1>3, OwnNone
<1> QED BY <1>1, <1>4, SynthAssumption DEF SynthInv

\* A call for t that leaves the notes, voices and values s.
LEMMA CallOwn ==
  ASSUME SynthInv, NEW t \in Nat, NEW ok, NEW s, Synth!Called(t, ok), Synth!Becomes(s),
         Own(Synth!Synth, lastTime) /\ ok /\ lastTime <= t => Own(s, t)
  PROVE  SynthInv'
<1>1. /\ ps_notes' = s.notes /\ ps_voicesInUse' = s.uses /\ sounding' = s.sounding
      /\ ps_now' = ps_now
  BY DEF Synth!Becomes
<1>2. /\ ps_now \in 0..ps_MaxTime /\ lastTime \in Nat /\ ps_orderly \in BOOLEAN
      /\ ps_orderly => Own(Synth!Synth, lastTime)
  BY DEF SynthInv
<1>3. lastTime' \in Nat /\ (lastTime <= t => lastTime' = t) BY <1>2 DEF Synth!Called
<1>4. ps_orderly' \in BOOLEAN /\ (ps_orderly' => ps_orderly /\ ok /\ lastTime <= t)
  BY DEF Synth!Called
<1>5. ps_orderly' => Own(s, t) BY <1>2, <1>4
<1>6. Synth!Synth'.notes = s.notes /\ Synth!Synth'.uses = s.uses
      /\ Synth!Synth'.sounding = s.sounding
  BY <1>1 DEF Synth!Synth
<1>7. ps_orderly' => Own(Synth!Synth', t)
  <2> DEFINE after == Synth!Synth'
  <2> HIDE DEF after
  <2>1. after.notes = s.notes /\ after.uses = s.uses /\ after.sounding = s.sounding
    BY <1>6 DEF after
  <2>2. ps_orderly' => Own(after, t) BY <2>1, <1>5 DEF Own
  <2> QED BY <2>2 DEF after
<1>8. ps_orderly' => Own(Synth!Synth', lastTime')
  BY <1>3, <1>4, <1>7
<1>9. (ps_orderly => Own(Synth!Synth, lastTime))' BY <1>8
<1> QED BY <1>1, <1>2, <1>3, <1>4, <1>9 DEF SynthInv

LEMMA SynthNext == SynthInv /\ [Synth!Next]_(Synth!vars) => SynthInv'
<1> SUFFICES ASSUME SynthInv, [Synth!Next]_(Synth!vars) PROVE SynthInv' OBVIOUS
<1>a. ps_now \in Nat /\ lastTime \in Nat /\ Synth!Synth.notes = ps_notes
  BY SynthAssumption DEF SynthInv, Synth!Synth
<1>b. \A d \in ps_Delays : ps_now + d \in Nat /\ ps_now <= ps_now + d /\ ps_now + d + 1 \in Nat
        /\ ps_now + d <= ps_now + d + 1
  BY <1>a, SynthAssumption
<1>1. ASSUME NEW n \in Notes, NEW d \in ps_Delays, Synth!NoteAttack(n, d) PROVE SynthInv'
  <2> DEFINE ok == n \notin DOMAIN ps_notes
                     \/ (ps_notes = [m \in {n} |-> ps_notes[n]] /\ lastTime <= ps_now)
  <2>1. Synth!Called(ps_now + d, ok) /\ Synth!Becomes(Synth!Attacked(Synth!Synth, n, ps_now + d))
    BY <1>1 DEF Synth!NoteAttack
  <2>2. ok => (n \in DOMAIN Synth!Synth.notes =>
          DOMAIN Synth!Synth.notes = {n} /\ lastTime <= ps_now)
    <3>1. ps_notes = [m \in {n} |-> ps_notes[n]] => DOMAIN ps_notes = {n} OBVIOUS
    <3> QED BY <1>a, <3>1
  <2> HIDE DEF ok
  <2>3. Own(Synth!Synth, lastTime) /\ ok /\ lastTime <= ps_now + d
          => Own(Synth!Attacked(Synth!Synth, n, ps_now + d), ps_now + d)
    <3> SUFFICES ASSUME Own(Synth!Synth, lastTime), ok, lastTime <= ps_now + d
                 PROVE  Own(Synth!Attacked(Synth!Synth, n, ps_now + d), ps_now + d)
      OBVIOUS
    <3>1. n \in DOMAIN Synth!Synth.notes =>
            DOMAIN Synth!Synth.notes = {n} /\ lastTime <= ps_now /\ ps_now <= ps_now + d
      BY <2>2, <1>b
    <3> QED BY <3>1, <1>a, <1>b, AttackedOwn
  <2> QED BY <2>1, <2>3, <1>b, CallOwn
<1>2. ASSUME NEW n \in Notes, NEW d \in ps_Delays, Synth!NoteRelease(n, d) PROVE SynthInv'
  <2> DEFINE ok == n \notin DOMAIN ps_notes \/ Synth!Cardinality(DOMAIN ps_notes) = 1
  <2>1. Synth!Called(ps_now + d, ok)
        /\ Synth!Becomes(Synth!ReleasedNote(Synth!Synth, n, ps_now + d))
    BY <1>2 DEF Synth!NoteRelease
  <2>2. Own(Synth!Synth, lastTime) /\ ok /\ lastTime <= ps_now + d
          => Own(Synth!ReleasedNote(Synth!Synth, n, ps_now + d), ps_now + d)
    <3> SUFFICES ASSUME Own(Synth!Synth, lastTime), ok, lastTime <= ps_now + d
                 PROVE  Own(Synth!ReleasedNote(Synth!Synth, n, ps_now + d), ps_now + d)
      OBVIOUS
    <3>1. Synth!IsFiniteSet(DOMAIN ps_notes) BY <1>a DEF Own
    <3>2. n \in DOMAIN ps_notes => DOMAIN ps_notes = {n} BY <3>1, Counts
    <3> QED BY <3>2, <1>a, <1>b, ReleasedOwn
  <2> HIDE DEF ok
  <2> QED BY <2>1, <2>2, <1>b, CallOwn
<1>3. ASSUME NEW d \in ps_Delays, Synth!ReleaseAll(d) PROVE SynthInv'
  <2>1. Synth!Called(ps_now + d, TRUE) /\ Synth!Becomes(Synth!ReleasedAll(Synth!Synth, ps_now + d))
    BY <1>3 DEF Synth!ReleaseAll
  <2>2. Own(Synth!Synth, lastTime)
          /\ lastTime <= ps_now + d => Own(Synth!ReleasedAll(Synth!Synth, ps_now + d), ps_now + d)
    BY <1>a, <1>b, ReleasedAllOwn
  <2> QED BY <2>1, <2>2, <1>b, CallOwn
<1>4. ASSUME NEW n \in Notes, NEW d \in ps_Delays, Synth!Play(n, d, 1) PROVE SynthInv'
  <2> DEFINE t == ps_now + d
             ok == ps_notes = [m \in {} |-> 0] /\ lastTime <= t
             attacked == Synth!Attacked(Synth!Synth, n, t)
             s == IF Synth!Throws(Synth!Synth, n, t) THEN attacked
               ELSE Synth!ReleasedNote(attacked, n, t + 1)
  <2>1. Synth!Called(t + 1, ok) /\ Synth!Becomes(s) BY <1>4 DEF Synth!Play
  <2>2. Own(Synth!Synth, lastTime) /\ ok => Own(s, t + 1)
    <3> SUFFICES ASSUME Own(Synth!Synth, lastTime), ok PROVE Own(s, t + 1) OBVIOUS
    <3>1. DOMAIN Synth!Synth.notes = {} /\ lastTime <= t /\ t \in Nat BY <1>a, <1>b
    <3> HIDE DEF t, ok
    <3> QED BY <3>1, <1>a, PlayedOwn DEF Synth!Throws
  <2>3. t + 1 \in Nat BY <1>b
  <2> HIDE DEF s, ok, t
  <2> QED BY <2>1, <2>2, <2>3, CallOwn
<1>5. CASE Synth!Advance
  <2>1. Synth!Synth' = Synth!Synth /\ UNCHANGED <<lastTime, ps_orderly>>
    BY <1>5 DEF Synth!Advance, Synth!Synth
  <2>2. ps_now' \in 0..ps_MaxTime BY <1>5, SynthAssumption DEF Synth!Advance, SynthInv
  <2>3. Own(Synth!Synth, lastTime)' <=> Own(Synth!Synth, lastTime) BY <2>1 DEF Own, Synth!Voices
  <2> QED BY <2>1, <2>2, <2>3 DEF SynthInv
<1>6. CASE UNCHANGED Synth!vars
  BY <1>6 DEF Synth!vars, SynthInv, Synth!Synth, Own, Synth!Voices
<1> QED BY <1>1, <1>2, <1>3, <1>4, <1>5, <1>6 DEF Synth!Next

LEMMA SynthSafe == SynthInv => Synth!OwnVoices
<1> SUFFICES ASSUME SynthInv, ps_orderly
             PROVE  /\ Synth!ValueAt(ps_voicesInUse, lastTime) = Synth!Cardinality(DOMAIN ps_notes)
                    /\ \A n \in DOMAIN ps_notes : sounding[ps_notes[n].voice] = {n}
  BY DEF Synth!OwnVoices
<1>1. /\ Own(Synth!Synth, lastTime) /\ lastTime \in Nat
      /\ Synth!Synth.notes = ps_notes /\ Synth!Synth.uses = ps_voicesInUse
      /\ Synth!Synth.sounding = sounding
  BY DEF SynthInv, Synth!Synth
<1>2. /\ Latest(ps_voicesInUse, lastTime, Synth!Cardinality(DOMAIN ps_notes))
      /\ Synth!Cardinality(DOMAIN ps_notes) \in Nat
      /\ \A n \in DOMAIN ps_notes : sounding[ps_notes[n].voice] = {n}
  BY <1>1, Counts DEF Own
<1> QED BY <1>1, <1>2, LatestIsValue

\* Whatever order notes are attacked, released and played in, and for whatever times: while calls
\* come in order of time and notes are released alone or all, each has a voice of its own.
THEOREM VoicesOfTheirOwn == Synth!Spec => []OwnVoices
<1>1. SynthInv => OwnVoices BY SynthSafe DEF OwnVoices
<1> QED BY <1>1, SynthInit, SynthNext, PTL DEF Synth!Spec

-----------------------------------------------------------------------------
(* Envelopes. *)

\* An envelope puts an event in as a loop's clock does.
LEMMA PutInto ==
  ASSUME NEW T, NEW s \in Seq(T), NEW i \in 1..(Len(s) + 1), NEW e \in T
  PROVE  Puts(T, Env!InsertAt(s, i, e), s, i, e)
<1>1. Env!InsertAt(s, i, e) = Loop!InsertAt(s, i, e) BY DEF Env!InsertAt, Loop!InsertAt
<1> QED BY <1>1, PutIn

-----------------------------------------------------------------------------
(* The timeline of an envelope's level. *)

Change == [time : Nat, kind : {"ramp", "target"}, level : Env!Levels]

InTime(s) == /\ s \in Seq(Change)
             /\ \A i, j \in DOMAIN s : i <= j => s[i].time <= s[j].time

LEMMA InTimeIs ==
  ASSUME NEW s, InTime(s)
  PROVE  /\ Len(s) \in Nat /\ DOMAIN s = 1..Len(s)
         /\ \A i \in DOMAIN s : s[i] \in Change /\ s[i].time \in Nat /\ s[i].level \in Env!Levels
<1>1. s \in Seq(Change) BY DEF InTime
<1>2. \A i \in DOMAIN s : s[i] \in Change BY <1>1
<1> QED BY <1>1, <1>2 DEF Change

\* There is a number of events that are not after t.
LEMMA BeforeIs ==
  ASSUME NEW s, InTime(s), NEW t \in Int
  PROVE  /\ Env!Before(s, t) \in 0..Len(s)
         /\ \A i \in DOMAIN s : s[i].time <= t <=> i <= Env!Before(s, t)
<1> DEFINE S == {k \in Nat : \A i \in DOMAIN s : s[i].time <= t => i <= k}
<1>1. Len(s) \in Nat /\ DOMAIN s = 1..Len(s) BY InTimeIs
<1>2. Len(s) \in S BY <1>1
<1>3. PICK k \in S : \A y \in S : k <= y
  <2>1. S \in SUBSET Nat /\ S /= {} BY <1>2
  <2> HIDE DEF S
  <2> QED BY <2>1, LeastOf
<1>4. k \in 0..Len(s)
  <2>1. k <= Len(s) BY <1>2, <1>3
  <2>2. k \in Nat OBVIOUS
  <2> HIDE DEF S
  <2> QED BY <2>1, <2>2, <1>1
<1>5. ASSUME NEW i \in DOMAIN s PROVE s[i].time <= t <=> i <= k
  <2>1. s[i].time <= t => i <= k OBVIOUS
  <2>2. ASSUME i <= k PROVE s[i].time <= t
    <3>1. k /= 0 /\ k - 1 \in Nat /\ ~(k <= k - 1) BY <1>1, <1>4, <2>2
    <3>2. k - 1 \notin S BY <1>3, <3>1
    <3>3. PICK j \in DOMAIN s : s[j].time <= t /\ ~(j <= k - 1) BY <3>1, <3>2
    <3>4. i <= j /\ i \in Nat BY <1>1, <1>4, <2>2, <3>3
    <3>5. s[i].time <= s[j].time BY <3>4 DEF InTime
    <3>6. s[i].time \in Nat /\ s[j].time \in Nat BY InTimeIs
    <3> QED BY <3>3, <3>5, <3>6
  <2> QED BY <2>1, <2>2
<1> HIDE DEF S
<1> DEFINE Fits(m) == (m < Len(s) => t < s[m + 1].time) /\ (m > 0 => s[m].time <= t)
<1>6. Fits(k)
  <2>1. ASSUME k < Len(s) PROVE t < s[k + 1].time
    <3>1. k + 1 \in DOMAIN s /\ ~(k + 1 <= k) BY <1>1, <1>4, <2>1
    <3>2. s[k + 1].time \in Nat /\ ~(s[k + 1].time <= t) BY <1>5, <3>1, InTimeIs
    <3> QED BY <3>2
  <2>2. ASSUME k > 0 PROVE s[k].time <= t
    <3>1. k \in DOMAIN s /\ k <= k BY <1>1, <1>4, <2>2
    <3> QED BY <1>5, <3>1
  <2> QED BY <2>1, <2>2
<1>7. ASSUME NEW m \in 0..Len(s), Fits(m), NEW i \in DOMAIN s PROVE s[i].time <= t <=> i <= m
  <2>1. i \in Nat /\ i >= 1 /\ i <= Len(s) /\ m \in Nat /\ s[i].time \in Nat BY <1>1, <1>7, InTimeIs
  <2>2. CASE i <= m
    <3>1. m > 0 /\ m \in DOMAIN s BY <1>1, <1>7, <2>1, <2>2
    <3>2. s[m].time <= t /\ s[m].time \in Nat BY <1>7, <3>1, InTimeIs
    <3>3. s[i].time <= s[m].time BY <2>2, <3>1 DEF InTime
    <3> QED BY <2>1, <2>2, <3>2, <3>3
  <2>3. CASE ~(i <= m)
    <3>1. m < Len(s) /\ m + 1 \in DOMAIN s /\ m + 1 <= i BY <1>1, <1>7, <2>1, <2>3
    <3>2. t < s[m + 1].time /\ s[m + 1].time \in Nat BY <1>7, <3>1, InTimeIs
    <3>3. s[m + 1].time <= s[i].time BY <3>1 DEF InTime
    <3> QED BY <2>1, <2>3, <3>2, <3>3
  <2> QED BY <2>2, <2>3
<1> DEFINE b == CHOOSE m \in 0..Len(s) : Fits(m)
<1>8. b \in 0..Len(s) /\ Fits(b) BY <1>4, <1>6
<1>9. Env!Before(s, t) = b BY DEF Env!Before
<1> HIDE DEF b, Fits
<1> QED BY <1>7, <1>8, <1>9

\* It is the only one.
LEMMA BeforeOnly ==
  ASSUME NEW s, InTime(s), NEW t \in Int, NEW k \in 0..Len(s),
         \A i \in DOMAIN s : s[i].time <= t <=> i <= k
  PROVE  Env!Before(s, t) = k
<1> DEFINE u == Env!Before(s, t)
<1>1. Len(s) \in Nat /\ DOMAIN s = 1..Len(s) BY InTimeIs
<1>2. u \in 0..Len(s) /\ \A i \in DOMAIN s : s[i].time <= t <=> i <= u BY BeforeIs
<1> HIDE DEF u
<1>3. u > 0 => u \in 1..Len(s) BY <1>1, <1>2
<1>4. k > 0 => k \in 1..Len(s) BY <1>1
<1>5. u > 0 => u <= k BY <1>1, <1>2, <1>3
<1>6. k > 0 => k <= u BY <1>1, <1>2, <1>4
<1>7. u = k BY <1>1, <1>2, <1>5, <1>6
<1> QED BY <1>7 DEF u

\* n is s with the event e put in after the first k.
IsPutAfter(n, s, k, e) ==
  /\ n \in Seq(Change) /\ Len(n) = Len(s) + 1
  /\ \A j \in 1..(Len(s) + 1) : n[j] = IF j < k + 1 THEN s[j] ELSE IF j = k + 1 THEN e ELSE s[j - 1]

\* What putting an event in does, in one fact.
LEMMA PutAfter ==
  ASSUME NEW s \in Seq(Change), NEW k \in 0..Len(s), NEW e \in Change
  PROVE  IsPutAfter(Env!InsertAt(s, k + 1, e), s, k, e)
<1>1. k + 1 \in 1..(Len(s) + 1) OBVIOUS
<1>2. Puts(Change, Env!InsertAt(s, k + 1, e), s, k + 1, e) BY <1>1, PutInto
<1> QED BY ONLY <1>2 DEF Puts, IsPutAfter

\* An event added at t comes after all that are not after t.
LEMMA AddIs ==
  ASSUME NEW s, InTime(s), NEW t \in Nat, NEW kind \in {"ramp", "target"}, NEW level \in Env!Levels
  PROVE  /\ Env!Before(s, t) \in 0..Len(s)
         /\ [time |-> t, kind |-> kind, level |-> level] \in Change
         /\ IsPutAfter(Env!Add(s, t, kind, level), s, Env!Before(s, t),
                       [time |-> t, kind |-> kind, level |-> level])
         /\ InTime(Env!Add(s, t, kind, level))
<1> DEFINE e == [time |-> t, kind |-> kind, level |-> level]
           k == Env!Before(s, t)
           n == Env!Add(s, t, kind, level)
<1>1. Len(s) \in Nat /\ DOMAIN s = 1..Len(s) /\ \A i \in DOMAIN s : s[i].time \in Nat BY InTimeIs
<1>2. k \in 0..Len(s) /\ \A i \in DOMAIN s : s[i].time <= t <=> i <= k BY BeforeIs
<1>3. e \in Change /\ e.time = t BY DEF Change
<1>4. IsPutAfter(n, s, k, e)
  <2>1. s \in Seq(Change) BY DEF InTime
  <2>2. n = Env!InsertAt(s, k + 1, e) BY DEF Env!Add
  <2> HIDE DEF n, k, e
  <2>3. IsPutAfter(Env!InsertAt(s, k + 1, e), s, k, e) BY ONLY <2>1, <1>2, <1>3, PutAfter
  <2> QED BY ONLY <2>2, <2>3
<1> HIDE DEF n, k, e
<1>5. n \in Seq(Change) /\ Len(n) = Len(s) + 1 /\ DOMAIN n = 1..(Len(s) + 1)
  BY <1>4, LenProperties DEF IsPutAfter
<1>6. ASSUME NEW j \in DOMAIN n
      PROVE  /\ j \in Int
             /\ j <= k => j \in DOMAIN s /\ n[j] = s[j]
             /\ j = k + 1 => n[j] = e
             /\ j > k + 1 => j - 1 \in DOMAIN s /\ n[j] = s[j - 1]
  <2>1. j \in Nat /\ j >= 1 /\ j <= Len(s) + 1 /\ j \in 1..(Len(s) + 1) BY <1>1, <1>5
  <2>2. n[j] = IF j < k + 1 THEN s[j] ELSE IF j = k + 1 THEN e ELSE s[j - 1]
    BY <1>4, <2>1 DEF IsPutAfter
  <2> QED BY <2>1, <2>2, <1>1, <1>2
<1>7. ASSUME NEW i \in DOMAIN n, NEW j \in DOMAIN n, i <= j
      PROVE  n[i].time <= n[j].time
  <2>1. CASE j <= k
    <3>1. i <= k BY <2>1, <1>2, <1>6, <1>7
    <3>2. i \in DOMAIN s /\ j \in DOMAIN s /\ n[i] = s[i] /\ n[j] = s[j] BY <2>1, <3>1, <1>6
    <3> QED BY <3>2, <1>7 DEF InTime
  <2>2. CASE j = k + 1
    <3>1. n[j].time = t BY <2>2, <1>3, <1>6
    <3>2. CASE i <= k
      <4>1. i \in DOMAIN s /\ n[i] = s[i] BY <3>2, <1>6
      <4> QED BY <3>1, <3>2, <4>1, <1>2
    <3>3. CASE i = k + 1 BY <3>1, <3>3, <2>2
    <3> QED BY <3>2, <3>3, <2>2, <1>2, <1>6, <1>7
  <2>3. CASE j > k + 1
    <3>1. j - 1 \in DOMAIN s /\ n[j] = s[j - 1] BY <2>3, <1>6
    <3>2. ~(j - 1 <= k) BY <2>3, <1>2, <1>6
    <3>3. s[j - 1].time \in Nat /\ ~(s[j - 1].time <= t) BY <3>1, <3>2, <1>1, <1>2
    <3>4. CASE i <= k
      <4>1. i \in DOMAIN s /\ n[i] = s[i] BY <3>4, <1>6
      <4>2. s[i].time <= t /\ s[i].time \in Nat BY <3>4, <4>1, <1>1, <1>2
      <4> QED BY <3>1, <3>3, <4>1, <4>2
    <3>5. CASE i = k + 1
      <4>1. n[i].time = t BY <3>5, <1>3, <1>6
      <4> QED BY <3>1, <3>3, <4>1
    <3>6. CASE i > k + 1
      <4>1. i - 1 \in DOMAIN s /\ n[i] = s[i - 1] BY <3>6, <1>6
      <4>2. i - 1 <= j - 1 BY <1>6, <1>7
      <4> QED BY <3>1, <4>1, <4>2 DEF InTime
    <3> QED BY <3>4, <3>5, <3>6, <1>2, <1>6
  <2> QED BY <2>1, <2>2, <2>3, <1>2, <1>6
<1>8. InTime(n) BY <1>5, <1>7 DEF InTime
<1> QED BY <1>2, <1>3, <1>4, <1>8 DEF n, k, e

-----------------------------------------------------------------------------
(* What a timeline says for a time. *)

\* The last event for u or before is a ramp to v, at u.
Reached(s, u, v) ==
  \E i \in DOMAIN s : /\ s[i].time = u /\ s[i].kind = "ramp" /\ s[i].level = v
                      /\ \A j \in DOMAIN s : i < j => u < s[j].time

\* A ramp that ends at u sets the level there.
LEMMA ReachedValue ==
  ASSUME NEW s, InTime(s), NEW u \in Nat, NEW v, Reached(s, u, v)
  PROVE  Env!ValueAt(s, u) = v
<1>1. Len(s) \in Nat /\ DOMAIN s = 1..Len(s) /\ \A i \in DOMAIN s : s[i].time \in Nat BY InTimeIs
<1>2. PICK i \in DOMAIN s : /\ s[i].time = u /\ s[i].kind = "ramp" /\ s[i].level = v
                            /\ \A j \in DOMAIN s : i < j => u < s[j].time
  BY DEF Reached
<1>3. \A j \in DOMAIN s : s[j].time <= u <=> j <= i
  <2>1. \A j \in DOMAIN s : j <= i => s[j].time <= u BY <1>2 DEF InTime
  <2> QED BY <1>1, <1>2, <2>1
<1>4. i \in 0..Len(s) /\ i /= 0 BY <1>1
<1>5. Env!Before(s, u) = i BY <1>3, <1>4, BeforeOnly
<1>6. ~(s[i].time < u) BY <1>2
<1> QED BY <1>2, <1>4, <1>5, <1>6 DEF Env!ValueAt

\* The level is one of the levels.
LEMMA ValueAtLevel ==
  ASSUME NEW s, InTime(s), NEW t \in Nat
  PROVE  Env!ValueAt(s, t) \in Env!Levels
<1> DEFINE i == Env!Before(s, t)
<1>1. Len(s) \in Nat /\ DOMAIN s = 1..Len(s) BY InTimeIs
<1>2. i \in 0..Len(s) BY BeforeIs
<1> HIDE DEF i
<1>3. i /= 0 => s[i].level \in Env!Levels /\ (i /= 1 => s[i - 1].level \in Env!Levels)
  <2>1. i /= 0 => i \in DOMAIN s /\ (i /= 1 => i - 1 \in DOMAIN s) BY <1>1, <1>2
  <2> QED BY <2>1, InTimeIs
<1>4. "rest" \in Env!Levels /\ "between" \in Env!Levels BY DEF Env!Levels
<1>5. Env!ValueAt(s, t) =
        IF i = 0 THEN "rest"
        ELSE IF s[i].kind = "target"
             THEN LET from == IF i = 1 THEN "rest" ELSE s[i - 1].level
                  IN IF from = s[i].level \/ s[i].time = t THEN from ELSE "between"
        ELSE IF i < Len(s) /\ s[i + 1].kind = "ramp" /\ s[i].time < t
                /\ s[i].level /= s[i + 1].level
             THEN "between"
        ELSE s[i].level
  BY DEF Env!ValueAt, i
<1> QED BY <1>3, <1>4, <1>5

\* An event added for later changes nothing at u.
LEMMA ReachedAdded ==
  ASSUME NEW s, InTime(s), NEW t \in Nat, NEW kind \in {"ramp", "target"}, NEW level \in Env!Levels,
         NEW u \in Nat, NEW v, u < t, Reached(s, u, v)
  PROVE  Reached(Env!Add(s, t, kind, level), u, v)
<1> DEFINE e == [time |-> t, kind |-> kind, level |-> level]
           k == Env!Before(s, t)
           n == Env!Add(s, t, kind, level)
<1>1. Len(s) \in Nat /\ DOMAIN s = 1..Len(s) /\ \A i \in DOMAIN s : s[i].time \in Nat BY InTimeIs
<1>2. k \in 0..Len(s) /\ \A i \in DOMAIN s : s[i].time <= t <=> i <= k BY BeforeIs
<1>3. PICK i \in DOMAIN s : /\ s[i].time = u /\ s[i].kind = "ramp" /\ s[i].level = v
                            /\ \A j \in DOMAIN s : i < j => u < s[j].time
  BY DEF Reached
<1>4. e.time = t OBVIOUS
<1>5. IsPutAfter(n, s, k, e) BY AddIs
<1> HIDE DEF n, k, e
<1>6. DOMAIN n = 1..(Len(s) + 1) BY <1>5, <1>1 DEF IsPutAfter
<1>7. \A j \in DOMAIN n : n[j] = IF j < k + 1 THEN s[j] ELSE IF j = k + 1 THEN e ELSE s[j - 1]
  BY <1>5, <1>6 DEF IsPutAfter
<1>8. i <= k /\ i \in DOMAIN n /\ n[i] = s[i]
  <2>1. s[i].time <= t BY <1>3
  <2>2. i <= k BY <1>2, <2>1
  <2> QED BY <2>2, <1>1, <1>2, <1>6, <1>7
<1>9. ASSUME NEW j \in DOMAIN n, i < j PROVE u < n[j].time
  <2>1. CASE j < k + 1
    <3>1. j \in DOMAIN s /\ n[j] = s[j] BY <2>1, <1>1, <1>2, <1>6, <1>7
    <3> QED BY <3>1, <1>3, <1>9
  <2>2. CASE j = k + 1 BY <2>2, <1>4, <1>7, <1>2
  <2>3. CASE j > k + 1
    <3>1. j - 1 \in DOMAIN s /\ i < j - 1 /\ ~(j < k + 1) /\ j /= k + 1
      BY <2>3, <1>1, <1>2, <1>6, <1>8
    <3> QED BY <3>1, <1>3, <1>7
  <2> QED BY <2>1, <2>2, <2>3, <1>2, <1>6
<1>10. Reached(n, u, v) BY <1>3, <1>8, <1>9 DEF Reached
<1> QED BY <1>10 DEF n

\* A ramp added at t ends there.
LEMMA ReachedNow ==
  ASSUME NEW s, InTime(s), NEW t \in Nat, NEW level \in Env!Levels
  PROVE  Reached(Env!Add(s, t, "ramp", level), t, level)
<1> DEFINE e == [time |-> t, kind |-> "ramp", level |-> level]
           k == Env!Before(s, t)
           n == Env!Add(s, t, "ramp", level)
<1>1. Len(s) \in Nat /\ DOMAIN s = 1..Len(s) /\ \A i \in DOMAIN s : s[i].time \in Nat BY InTimeIs
<1>2. k \in 0..Len(s) /\ \A i \in DOMAIN s : s[i].time <= t <=> i <= k BY BeforeIs
<1>3. e.time = t /\ e.kind = "ramp" /\ e.level = level OBVIOUS
<1>4. IsPutAfter(n, s, k, e) BY AddIs
<1> HIDE DEF n, k, e
<1>5. DOMAIN n = 1..(Len(s) + 1) BY <1>4, <1>1 DEF IsPutAfter
<1>6. \A j \in DOMAIN n : n[j] = IF j < k + 1 THEN s[j] ELSE IF j = k + 1 THEN e ELSE s[j - 1]
  BY <1>4, <1>5 DEF IsPutAfter
<1>7. k + 1 \in DOMAIN n /\ n[k + 1] = e BY <1>1, <1>2, <1>5, <1>6
<1>8. ASSUME NEW j \in DOMAIN n, k + 1 < j PROVE t < n[j].time
  <2>1. j - 1 \in DOMAIN s /\ ~(j - 1 <= k) /\ ~(j < k + 1) /\ j /= k + 1
    BY <1>8, <1>1, <1>2, <1>5
  <2>2. n[j] = s[j - 1] BY <2>1, <1>6
  <2> QED BY <2>1, <2>2, <1>1, <1>2
<1>9. Reached(n, t, level) BY <1>3, <1>7, <1>8 DEF Reached
<1> QED BY <1>9 DEF n

\* Cancelling from t on leaves what is before t.
LEMMA CancelIs ==
  ASSUME NEW s, InTime(s), NEW t \in Nat
  PROVE  /\ InTime(Env!Cancel(s, t))
         /\ \A i \in DOMAIN Env!Cancel(s, t) : Env!Cancel(s, t)[i].time < t
         /\ \A u \in Nat, v \in Env!Levels : u < t
              /\ Reached(s, u, v) => Reached(Env!Cancel(s, t), u, v)
<1> DEFINE k == Env!Before(s, t - 1)
           n == Env!Cancel(s, t)
<1>1. Len(s) \in Nat /\ DOMAIN s = 1..Len(s) /\ \A i \in DOMAIN s : s[i].time \in Nat BY InTimeIs
<1>2. t - 1 \in Int OBVIOUS
<1>3. k \in 0..Len(s) /\ \A i \in DOMAIN s : s[i].time <= t - 1 <=> i <= k BY <1>2, BeforeIs
<1>4. s \in Seq(Change) BY DEF InTime
<1>5. n = SubSeq(s, 1, k) BY DEF Env!Cancel
<1> HIDE DEF n, k
<1>6. n \in Seq(Change) /\ Len(n) = k /\ \A i \in 1..k : n[i] = s[i]
  <2>1. \A i \in 1..k : i \in 1..Len(s) BY <1>1, <1>3
  <2>2. /\ SubSeq(s, 1, k) \in Seq(Change)
        /\ Len(SubSeq(s, 1, k)) = IF 1 <= k THEN k - 1 + 1 ELSE 0
        /\ \A i \in 1..(k - 1 + 1) : SubSeq(s, 1, k)[i] = s[1 + i - 1]
    <3>1. 1 \in 1..(Len(s) + 1) /\ k \in 0..Len(s) BY <1>1, <1>3
    <3> QED BY <3>1, <2>1, <1>4, SubSeqProperties
  <2> QED BY <1>5, <2>2, <1>3
<1>7. DOMAIN n = 1..k /\ \A i \in 1..k : i \in DOMAIN s BY <1>6, <1>1, <1>3
<1>8. InTime(n) BY <1>6, <1>7 DEF InTime
<1>9. \A i \in DOMAIN n : n[i].time < t BY <1>1, <1>3, <1>6, <1>7
<1>10. ASSUME NEW u \in Nat, NEW v \in Env!Levels, u < t, Reached(s, u, v) PROVE Reached(n, u, v)
  <2>1. PICK i \in DOMAIN s : /\ s[i].time = u /\ s[i].kind = "ramp" /\ s[i].level = v
                              /\ \A j \in DOMAIN s : i < j => u < s[j].time
    BY <1>10 DEF Reached
  <2>2. i \in 1..k
    <3>1. s[i].time <= t - 1 BY <2>1, <1>10
    <3> QED BY <3>1, <1>1, <1>3
  <2> QED BY <2>1, <2>2, <1>6, <1>7 DEF Reached
<1> QED BY <1>8, <1>9, <1>10 DEF n

\* What is forgotten is the oldest.
LEMMA RememberedIs ==
  ASSUME NEW s, InTime(s)
  PROVE  /\ InTime(Env!Remembered(s))
         /\ \A i \in DOMAIN Env!Remembered(s) : \E j \in DOMAIN s : Env!Remembered(s)[i] = s[j]
         /\ Len(s) > 0 => /\ Len(Env!Remembered(s)) > 0
                          /\ Env!Remembered(s)[Len(Env!Remembered(s))] = s[Len(s)]
<1>1. Len(s) \in Nat /\ DOMAIN s = 1..Len(s) /\ s \in Seq(Change) BY InTimeIs DEF InTime
<1>2. CASE ~(Len(s) > Memory) BY <1>1, <1>2 DEF Env!Remembered
<1>3. CASE Len(s) > Memory
  <2>1. Memory \in Nat /\ Memory > 0 BY EnvelopeAssumption
  <2>2. s /= <<>> /\ Len(s) - 1 \in Nat /\ Len(s) - 1 > 0 BY <1>1, <1>3, <2>1
  <2>3. /\ Tail(s) \in Seq(Change) /\ Len(Tail(s)) = Len(s) - 1
        /\ \A i \in 1..Len(Tail(s)) : Tail(s)[i] = s[i + 1]
    BY <1>1, <2>2, HeadTailProperties
  <2>4. DOMAIN Tail(s) = 1..(Len(s) - 1) BY <2>3
  <2>5. Env!Remembered(s) = Tail(s) BY <1>3 DEF Env!Remembered
  <2>6. \A i \in DOMAIN Tail(s) : i + 1 \in DOMAIN s /\ Tail(s)[i] = s[i + 1]
    BY <1>1, <2>3, <2>4
  <2>7. InTime(Tail(s))
    <3>1. \A i, j \in DOMAIN Tail(s) : i <= j => i + 1 <= j + 1 BY <2>4
    <3> QED BY <2>3, <2>6, <3>1 DEF InTime
  <2>8. Tail(s)[Len(s) - 1] = s[Len(s)]
    <3>1. Len(s) - 1 \in DOMAIN Tail(s) /\ Len(s) - 1 + 1 = Len(s) BY <1>1, <2>2, <2>4
    <3> QED BY <2>6, <3>1
  <2> QED BY <2>2, <2>3, <2>5, <2>6, <2>7, <2>8
<1> QED BY <1>2, <1>3

-----------------------------------------------------------------------------
(* A signal: the events remembered, and those of the AudioParam. *)

Signal(c) == /\ c = [events |-> c.events, param |-> c.param]
             /\ InTime(c.events) /\ InTime(c.param)

\* No event is after t.
NoneAfter(c, t) == /\ \A i \in DOMAIN c.events : c.events[i].time <= t
                   /\ \A i \in DOMAIN c.param : c.param[i].time <= t

\* The last event is e.
EndsWith(s, e) == Len(s) > 0 /\ s[Len(s)] = e
Ends(c, e) == EndsWith(c.events, e) /\ EndsWith(c.param, e)

\* Nothing is after a time later than one that nothing is after.
LEMMA NoneAfterLater ==
  ASSUME NEW c, Signal(c), NEW t \in Nat, NEW u \in Nat, t <= u, NoneAfter(c, t)
  PROVE  NoneAfter(c, u)
<1>1. /\ \A i \in DOMAIN c.events : c.events[i].time \in Nat
      /\ \A i \in DOMAIN c.param : c.param[i].time \in Nat
  BY InTimeIs DEF Signal
<1> QED BY <1>1 DEF NoneAfter

\* An event added to a timeline that has none after its time is its last.
LEMMA AddLast ==
  ASSUME NEW s, InTime(s), NEW t \in Nat, NEW kind \in {"ramp", "target"}, NEW level \in Env!Levels,
         \A i \in DOMAIN s : s[i].time <= t
  PROVE  /\ EndsWith(Env!Add(s, t, kind, level), [time |-> t, kind |-> kind, level |-> level])
         /\ \A i \in DOMAIN Env!Add(s, t, kind, level) : Env!Add(s, t, kind, level)[i].time <= t
<1> DEFINE e == [time |-> t, kind |-> kind, level |-> level]
           k == Env!Before(s, t)
           n == Env!Add(s, t, kind, level)
<1>1. Len(s) \in Nat /\ DOMAIN s = 1..Len(s) BY InTimeIs
<1>2. k = Len(s)
  <2>1. Len(s) \in 0..Len(s) /\ \A i \in DOMAIN s : s[i].time <= t <=> i <= Len(s) BY <1>1
  <2> QED BY <2>1, BeforeOnly
<1>3. IsPutAfter(n, s, k, e) BY AddIs
<1>4. e.time = t OBVIOUS
<1> HIDE DEF n, k, e
<1>5. Len(n) = Len(s) + 1 /\ DOMAIN n = 1..(Len(s) + 1) BY <1>3, <1>1 DEF IsPutAfter
<1>6. \A j \in DOMAIN n : n[j] = IF j < k + 1 THEN s[j] ELSE IF j = k + 1 THEN e ELSE s[j - 1]
  BY <1>3, <1>5 DEF IsPutAfter
<1>7. Len(n) > 0 /\ n[Len(n)] = e BY <1>1, <1>2, <1>5, <1>6
<1>8. \A i \in DOMAIN n : n[i].time <= t
  <2> SUFFICES ASSUME NEW i \in DOMAIN n PROVE n[i].time <= t OBVIOUS
  <2>1. CASE i = Len(s) + 1 BY <2>1, <1>2, <1>4, <1>6
  <2>2. CASE i /= Len(s) + 1
    <3>1. i \in DOMAIN s /\ i < k + 1 BY <2>2, <1>1, <1>2, <1>5
    <3> QED BY <3>1, <1>6
  <2> QED BY <2>1, <2>2
<1> QED BY <1>7, <1>8 DEF n, e, EndsWith

\* A signal told of an event is one; when it has nothing after its time, the event is its last.
LEMMA ToldIs ==
  ASSUME NEW c, Signal(c), NEW t \in Nat, NEW kind \in {"ramp", "target"}, NEW level \in Env!Levels
  PROVE  /\ Signal(Env!Told(c, t, kind, level))
         /\ \A u \in Nat, v \in Env!Levels : u < t /\ Reached(c.param, u, v) =>
              Reached(Env!Told(c, t, kind, level).param, u, v)
         /\ kind = "ramp" => Reached(Env!Told(c, t, kind, level).param, t, level)
         /\ NoneAfter(c, t) =>
              /\ Ends(Env!Told(c, t, kind, level), [time |-> t, kind |-> kind, level |-> level])
              /\ NoneAfter(Env!Told(c, t, kind, level), t)
<1> DEFINE e == [time |-> t, kind |-> kind, level |-> level]
           a == Env!Add(c.events, t, kind, level)
           b == Env!Add(c.param, t, kind, level)
           n == Env!Told(c, t, kind, level)
<1>1. InTime(c.events) /\ InTime(c.param) BY DEF Signal
<1>2. InTime(a) /\ InTime(b) BY <1>1, AddIs
<1>3. n = [events |-> Env!Remembered(a), param |-> b] BY DEF Env!Told
<1>4. NoneAfter(c, t) => EndsWith(a, e) /\ \A i \in DOMAIN a : a[i].time <= t
  BY <1>1, AddLast DEF NoneAfter
<1>5. NoneAfter(c, t) => EndsWith(b, e) /\ \A i \in DOMAIN b : b[i].time <= t
  BY <1>1, AddLast DEF NoneAfter
<1>6. \A u \in Nat, v \in Env!Levels : u < t /\ Reached(c.param, u, v) => Reached(b, u, v)
  BY <1>1, ReachedAdded
<1>7. kind = "ramp" => Reached(b, t, level) BY <1>1, ReachedNow
<1> HIDE DEF n, a, b, e
<1>8. n.events = Env!Remembered(a) /\ n.param = b BY <1>3
<1>9. /\ InTime(Env!Remembered(a))
      /\ \A i \in DOMAIN Env!Remembered(a) : \E j \in DOMAIN a : Env!Remembered(a)[i] = a[j]
      /\ Len(a) > 0 => /\ Len(Env!Remembered(a)) > 0
                       /\ Env!Remembered(a)[Len(Env!Remembered(a))] = a[Len(a)]
  BY <1>2, RememberedIs
<1>10. Signal(n) BY <1>2, <1>3, <1>8, <1>9 DEF Signal
<1>11. ASSUME NoneAfter(c, t) PROVE Ends(n, e) /\ NoneAfter(n, t)
  <2>1. EndsWith(n.events, e) BY <1>4, <1>8, <1>9, <1>11 DEF EndsWith
  <2>2. \A i \in DOMAIN n.events : n.events[i].time <= t BY <1>4, <1>8, <1>9, <1>11
  <2> QED BY <2>1, <2>2, <1>5, <1>8, <1>11 DEF Ends, NoneAfter
<1> QED BY <1>6, <1>7, <1>8, <1>10, <1>11 DEF n, e

\* A signal from which is cancelled is one, and has nothing from then on.
LEMMA CancelledIs ==
  ASSUME NEW c, Signal(c), NEW t \in Nat
  PROVE  /\ Signal(Env!Cancelled(c, t)) /\ NoneAfter(Env!Cancelled(c, t), t)
         /\ \A u \in Nat, v \in Env!Levels : u < t /\ Reached(c.param, u, v) =>
              Reached(Env!Cancelled(c, t).param, u, v)
<1> DEFINE a == Env!Cancel(c.events, t)
           b == Env!Cancel(c.param, t)
           n == Env!Cancelled(c, t)
<1>1. InTime(c.events) /\ InTime(c.param) BY DEF Signal
<1>2. InTime(a) /\ \A i \in DOMAIN a : a[i].time < t BY <1>1, CancelIs
<1>3. InTime(b) /\ \A i \in DOMAIN b : b[i].time < t BY <1>1, CancelIs
<1>4. \A u \in Nat, v \in Env!Levels : u < t /\ Reached(c.param, u, v) => Reached(b, u, v)
  BY <1>1, CancelIs
<1>5. n = [events |-> a, param |-> b] BY DEF Env!Cancelled
<1> HIDE DEF n, a, b
<1>6. n.events = a /\ n.param = b BY <1>5
<1>7. Signal(n) BY <1>2, <1>3, <1>5, <1>6 DEF Signal
<1>8. NoneAfter(n, t)
  <2>1. \A i \in DOMAIN a : a[i].time \in Nat BY <1>2, InTimeIs
  <2>2. \A i \in DOMAIN b : b[i].time \in Nat BY <1>3, InTimeIs
  <2> QED BY <2>1, <2>2, <1>2, <1>3, <1>6 DEF NoneAfter
<1> QED BY <1>4, <1>6, <1>7, <1>8 DEF n

\* A ramp that is the last event ends at its time.
LEMMA EndReached ==
  ASSUME NEW s, InTime(s), NEW t, NEW v, NEW e, EndsWith(s, e),
         e.time = t, e.kind = "ramp", e.level = v
  PROVE  Reached(s, t, v)
<1>1. Len(s) \in Nat /\ DOMAIN s = 1..Len(s) BY InTimeIs
<1>2. Len(s) \in DOMAIN s /\ \A j \in DOMAIN s : ~(Len(s) < j) BY <1>1 DEF EndsWith
<1> QED BY <1>2 DEF Reached, EndsWith

\* A leg ends at its level, at its time, and changes nothing before.
LEMMA LegIs ==
  ASSUME NEW c, Signal(c), NEW t \in Nat, NEW level \in Env!Levels
  PROVE  /\ Signal(Env!Leg(c, t, level))
         /\ \A u \in Nat, v \in Env!Levels : u < t /\ Reached(c.param, u, v) =>
              Reached(Env!Leg(c, t, level).param, u, v)
         /\ NoneAfter(Env!Leg(c, t, level), t)
         /\ NoneAfter(c, t) =>
              /\ Ends(Env!Leg(c, t, level), [time |-> t, kind |-> "ramp", level |-> level])
              /\ Reached(Env!Leg(c, t, level).param, t, level)
<1> DEFINE r == Env!Told(c, t, "ramp", level)
           w == Env!ValueAt(r.events, t)
           x == Env!Cancelled(r, t)
           n == Env!Leg(c, t, level)
<1>1. /\ Signal(r)
      /\ \A u \in Nat, v \in Env!Levels : u < t /\ Reached(c.param, u, v) => Reached(r.param, u, v)
      /\ NoneAfter(c, t) => /\ Ends(r, [time |-> t, kind |-> "ramp", level |-> level])
                            /\ NoneAfter(r, t)
  BY ToldIs
<1>2. n = Env!Told(x, t, "ramp", w) BY DEF Env!Leg
<1>3. w \in Env!Levels
  <2>1. InTime(r.events) BY <1>1 DEF Signal
  <2> HIDE DEF r
  <2> QED BY <2>1, ValueAtLevel
<1> HIDE DEF w, r
<1>4. /\ Signal(x) /\ NoneAfter(x, t)
      /\ \A u \in Nat, v \in Env!Levels : u < t /\ Reached(r.param, u, v) => Reached(x.param, u, v)
  BY <1>1, CancelledIs
<1> HIDE DEF x, n
<1>5. /\ Signal(n)
      /\ \A u \in Nat, v \in Env!Levels : u < t /\ Reached(x.param, u, v) => Reached(n.param, u, v)
      /\ Reached(n.param, t, w)
      /\ Ends(n, [time |-> t, kind |-> "ramp", level |-> w]) /\ NoneAfter(n, t)
  BY <1>2, <1>3, <1>4, ToldIs
<1>6. NoneAfter(c, t) => w = level
  <2> SUFFICES ASSUME NoneAfter(c, t) PROVE w = level OBVIOUS
  <2>1. InTime(r.events) BY <1>1 DEF Signal
  <2>2. EndsWith(r.events, [time |-> t, kind |-> "ramp", level |-> level]) BY <1>1 DEF Ends
  <2>3. Reached(r.events, t, level) BY <2>1, <2>2, EndReached
  <2> QED BY <2>1, <2>3, ReachedValue DEF w
<1> QED BY <1>1, <1>4, <1>5, <1>6 DEF n

\* A signal with an event, and with none after t.
Steady(c, t) == Signal(c) /\ NoneAfter(c, t) /\ \E e : Ends(c, e)

\* What is set before t in c is so in n; and what is set at t.
Keeps(c, n, t) ==
  \A u \in Nat, v \in Env!Levels : u < t /\ Reached(c.param, u, v) => Reached(n.param, u, v)
KeepsTo(c, n, t) ==
  \A u \in Nat, v \in Env!Levels : u <= t /\ Reached(c.param, u, v) => Reached(n.param, u, v)

\* What is held at t is the level that was set at t, if one was.
LEMMA HeldIs ==
  ASSUME NEW c, Signal(c), NEW t \in Nat
  PROVE  /\ Signal(Env!Held(c, t))
         /\ Steady(c, t) => Steady(Env!Held(c, t), t) /\ KeepsTo(c, Env!Held(c, t), t)
<1> DEFINE w == Env!ValueAt(c.events, t)
           n == Env!Held(c, t)
<1>1. InTime(c.events) /\ InTime(c.param) BY DEF Signal
<1>2. w \in Env!Levels BY <1>1, ValueAtLevel
<1>3. n = Env!Told(c, t, "ramp", w) BY DEF Env!Held
<1>4. \A v \in Env!Levels : Reached(c.events, t, v) => w = v BY <1>1, ReachedValue
<1> HIDE DEF w, n
<1>5. /\ Signal(n) /\ Reached(n.param, t, w)
      /\ \A u \in Nat, v \in Env!Levels : u < t /\ Reached(c.param, u, v) => Reached(n.param, u, v)
      /\ NoneAfter(c, t) =>
           Ends(n, [time |-> t, kind |-> "ramp", level |-> w]) /\ NoneAfter(n, t)
  BY <1>2, <1>3, ToldIs
<1>6. ASSUME Steady(c, t) PROVE Steady(n, t) BY <1>5, <1>6 DEF Steady
<1>7. ASSUME Steady(c, t), NEW v \in Env!Levels, Reached(c.param, t, v) PROVE w = v
  <2>1. PICK i \in DOMAIN c.param :
          /\ c.param[i].time = t /\ c.param[i].kind = "ramp" /\ c.param[i].level = v
          /\ \A j \in DOMAIN c.param : i < j => t < c.param[j].time
    BY <1>7 DEF Reached
  <2>2. PICK e : Ends(c, e) BY <1>7 DEF Steady
  <2>3. Len(c.param) \in Nat /\ DOMAIN c.param = 1..Len(c.param) BY <1>1, InTimeIs
  <2>4. \A j \in DOMAIN c.param : c.param[j].time \in Nat /\ c.param[j].time <= t
    BY <1>1, <1>7, InTimeIs DEF Steady, NoneAfter
  <2>5. i = Len(c.param)
    <3>1. Len(c.param) \in DOMAIN c.param BY <2>1, <2>3
    <3>2. ~(i < Len(c.param)) BY <2>1, <2>4, <3>1
    <3> QED BY <2>1, <2>3, <3>2
  <2>6. e.time = t /\ e.kind = "ramp" /\ e.level = v BY <2>1, <2>2, <2>5 DEF Ends, EndsWith
  <2>7. EndsWith(c.events, e) BY <2>2 DEF Ends
  <2>8. Reached(c.events, t, v) BY <1>1, <2>6, <2>7, EndReached
  <2> QED BY <1>4, <2>8
<1>8. ASSUME Steady(c, t) PROVE KeepsTo(c, n, t)
  <2> SUFFICES ASSUME NEW u \in Nat, NEW v \in Env!Levels, u <= t, Reached(c.param, u, v)
               PROVE  Reached(n.param, u, v)
    BY DEF KeepsTo
  <2>1. CASE u < t BY <2>1, <1>5
  <2>2. CASE u = t
    <3>1. w = v BY <2>2, <1>7, <1>8
    <3> QED BY <2>2, <3>1, <1>5
  <2> QED BY <2>1, <2>2
<1> QED BY <1>5, <1>6, <1>8 DEF n

\* A leg for after what there is, in short.
LEMMA LegLater ==
  ASSUME NEW c, Signal(c), NEW s \in Nat, NEW t \in Nat, s <= t, NEW level \in Env!Levels
  PROVE  /\ Signal(Env!Leg(c, t, level)) /\ Keeps(c, Env!Leg(c, t, level), t)
         /\ Steady(c, s) => Steady(Env!Leg(c, t, level), t)
              /\ Reached(Env!Leg(c, t, level).param, t, level)
<1>1. NoneAfter(c, s) => NoneAfter(c, t) BY NoneAfterLater
<1> DEFINE n == Env!Leg(c, t, level)
<1>2. /\ Signal(n) /\ NoneAfter(n, t)
      /\ \A u \in Nat, v \in Env!Levels : u < t /\ Reached(c.param, u, v) => Reached(n.param, u, v)
      /\ NoneAfter(c, t) => /\ Ends(n, [time |-> t, kind |-> "ramp", level |-> level])
                            /\ Reached(n.param, t, level)
  BY LegIs
<1> HIDE DEF n
<1> QED BY <1>1, <1>2 DEF n, Keeps, Steady

\* The levels that are played are levels.
LEMMA Played == {"peak", "sustain", "rest"} \subseteq Env!Levels
BY DEF Env!Levels

\* An attack gets to the peak, if a decay follows, and to the level it is sustained at; it keeps
\* what there is, up to its time if it takes time.
LEMMA AttackedIs ==
  ASSUME NEW c, Signal(c), NEW t \in Nat, aTime \in en_Times
  PROVE  /\ Signal(Env!Attacked(c, t))
         /\ Steady(c, t) =>
              /\ Steady(Env!Attacked(c, t), t + aTime + dTime)
              /\ Keeps(c, Env!Attacked(c, t), t)
              /\ aTime > 0 => KeepsTo(c, Env!Attacked(c, t), t)
              /\ dTime > 0 => Reached(Env!Attacked(c, t).param, t + aTime, "peak")
              /\ Reached(Env!Attacked(c, t).param, t + aTime + dTime, "sustain")
<1> DEFINE h == Env!Held(c, t)
           p == Env!Leg(h, t + aTime, "peak")
           n == Env!Attacked(c, t)
           m == t + aTime
           end == t + aTime + dTime
<1>1. /\ m \in Nat /\ end \in Nat /\ t <= m /\ m <= end
      /\ aTime > 0 => t < m
      /\ dTime > 0 => m < end
  BY EnvelopeAssumption
<1>2. Signal(h) /\ (Steady(c, t) => Steady(h, t) /\ KeepsTo(c, h, t)) BY HeldIs
<1> HIDE DEF h, m, end
<1>3. p = Env!Leg(h, m, "peak") BY DEF m
<1>4. n = Env!Leg(p, end, "sustain") BY DEF Env!Attacked, h, end
<1> HIDE DEF p, n
<1>5. /\ Signal(p) /\ Keeps(h, p, m)
      /\ Steady(h, t) => Steady(p, m) /\ Reached(p.param, m, "peak")
  BY <1>1, <1>2, <1>3, Played, LegLater
<1>6. /\ Signal(n) /\ Keeps(p, n, end)
      /\ Steady(p, m) => Steady(n, end) /\ Reached(n.param, end, "sustain")
  BY <1>1, <1>4, <1>5, Played, LegLater
<1>7. Steady(c, t) => Steady(n, end) /\ Reached(n.param, end, "sustain") BY <1>2, <1>5, <1>6
<1>8. Steady(c, t) /\ dTime > 0 => Reached(n.param, m, "peak")
  BY <1>1, <1>2, <1>5, <1>6, Played DEF Keeps
<1>9. ASSUME Steady(c, t), NEW u \in Nat, NEW v \in Env!Levels, Reached(c.param, u, v),
             u < t \/ (u = t /\ aTime > 0)
      PROVE  Reached(n.param, u, v)
  <2>1. u <= t /\ u < m /\ u < end BY <1>1, <1>9
  <2>2. Reached(h.param, u, v) BY <1>2, <1>9, <2>1 DEF KeepsTo
  <2> QED BY <2>1, <2>2, <1>5, <1>6 DEF Keeps
<1>10. Steady(c, t) => Keeps(c, n, t) BY <1>9 DEF Keeps
<1>11. Steady(c, t) /\ aTime > 0 => KeepsTo(c, n, t)
  <2>1. \A u \in Nat : u <= t => u < t \/ u = t OBVIOUS
  <2> QED BY <2>1, <1>9 DEF KeepsTo
<1> QED BY <1>6, <1>7, <1>8, <1>10, <1>11 DEF n, m, end

\* A release gets to rest, and keeps what there is, up to its time if it takes time.
LEMMA ReleasedIs ==
  ASSUME NEW c, Signal(c), NEW t \in Nat
  PROVE  /\ Signal(Env!Released(c, t))
         /\ Steady(c, t) => /\ Steady(Env!Released(c, t), t + rTime)
                            /\ Keeps(c, Env!Released(c, t), t)
                            /\ rTime > 0 => KeepsTo(c, Env!Released(c, t), t)
                            /\ Reached(Env!Released(c, t).param, t + rTime, "rest")
<1> DEFINE h == Env!Held(c, t)
           n == Env!Released(c, t)
           end == t + rTime
<1>1. end \in Nat /\ t <= end /\ (rTime > 0 => t < end) BY EnvelopeAssumption
<1>2. Signal(h) /\ (Steady(c, t) => Steady(h, t) /\ KeepsTo(c, h, t)) BY HeldIs
<1> HIDE DEF end
<1>3. n = Env!Leg(h, end, "rest") BY DEF Env!Released, end
<1> HIDE DEF h, n
<1>4. /\ Signal(n) /\ Keeps(h, n, end)
      /\ Steady(h, t) => Steady(n, end) /\ Reached(n.param, end, "rest")
  BY <1>1, <1>2, <1>3, Played, LegLater
<1>5. ASSUME Steady(c, t), NEW u \in Nat, NEW v \in Env!Levels, Reached(c.param, u, v),
             u < t \/ (u = t /\ rTime > 0)
      PROVE  Reached(n.param, u, v)
  <2>1. u <= t /\ u < end BY <1>1, <1>5
  <2>2. Reached(h.param, u, v) BY <1>2, <1>5, <2>1 DEF KeepsTo
  <2> QED BY <2>1, <2>2, <1>4 DEF Keeps
<1>6. Steady(c, t) => Keeps(c, n, t) BY <1>5 DEF Keeps
<1>7. Steady(c, t) /\ rTime > 0 => KeepsTo(c, n, t)
  <2>1. \A u \in Nat : u <= t => u < t \/ u = t OBVIOUS
  <2> QED BY <2>1, <1>5 DEF KeepsTo
<1> QED BY <1>2, <1>4, <1>6, <1>7 DEF n, end

\* A target told keeps what is set before its time.
LEMMA TargetIs ==
  ASSUME NEW c, Signal(c), NEW t \in Nat, NEW v \in {"rest", "peak"}
  PROVE  /\ Signal(Env!Told(c, t, "target", v)) /\ Keeps(c, Env!Told(c, t, "target", v), t)
         /\ Steady(c, t) => Steady(Env!Told(c, t, "target", v), t)
<1> DEFINE n == Env!Told(c, t, "target", v)
<1>1. v \in Env!Levels BY DEF Env!Levels
<1>2. /\ Signal(n)
      /\ \A u \in Nat, x \in Env!Levels : u < t /\ Reached(c.param, u, x) => Reached(n.param, u, x)
      /\ NoneAfter(c, t) => Ends(n, [time |-> t, kind |-> "target", level |-> v]) /\ NoneAfter(n, t)
  BY <1>1, ToldIs
<1> HIDE DEF n
<1> QED BY <1>2 DEF n, Keeps, Steady

\* So does the leg of a ramp, whether there is one or not.
LEMMA RampedIs ==
  ASSUME NEW c, Signal(c), NEW t \in Nat, NEW v \in {"rest", "peak"}, NEW w
  PROVE  /\ Signal(Env!RampedTo(c, t, v, w)) /\ Keeps(c, Env!RampedTo(c, t, v, w), t)
         /\ Steady(c, t) => Steady(Env!RampedTo(c, t, v, w), t)
<1>1. CASE w = "at"
  <2>1. Env!RampedTo(c, t, v, w) = c BY <1>1 DEF Env!RampedTo
  <2> QED BY <2>1 DEF Keeps
<1>2. CASE w /= "at"
  <2>1. Env!RampedTo(c, t, v, w) = Env!Told(c, t, "target", v) BY <1>2 DEF Env!RampedTo
  <2> QED BY <2>1, TargetIs
<1> QED BY <1>1, <1>2

\* Nothing is after a later time either.
LEMMA SteadyLater ==
  ASSUME NEW c, NEW s \in Nat, NEW t \in Nat, s <= t, Steady(c, s)
  PROVE  Steady(c, t)
BY NoneAfterLater DEF Steady

\* A ramp takes no time when the level is there, and that of the attack or the decay when not.
LEMMA RampEndIs ==
  ASSUME NEW t \in Nat, NEW w \in {"over", "at", "under"}, aTime \in en_Times
  PROVE  Env!RampEnd(t, w) \in Nat /\ t <= Env!RampEnd(t, w)
BY EnvelopeAssumption DEF Env!RampEnd

-----------------------------------------------------------------------------
(* The envelope. *)

\* A play got to the levels of its shape, and not after t.
Shaped(s, p) == /\ p.peak < p.sustain => Reached(s, p.peak, "peak")
                /\ p.sustain < p.release => Reached(s, p.sustain, "sustain")
                /\ Reached(s, p.release, "rest")
By(p, t) == p.peak <= t /\ p.sustain <= t /\ p.release <= t

Plays == [peak : Nat, sustain : Nat, release : Nat]

\* While calls come in order, the signal has an event and none after the last call's, and every play
\* got to the levels of its shape by then.
EnvInv ==
  /\ en_now \in Nat /\ last \in Nat /\ aTime \in en_Times /\ en_plays \subseteq Plays
  /\ Signal(control)
  /\ en_orderly => /\ Steady(control, last)
                   /\ \A p \in en_plays : Shaped(control.param, p) /\ By(p, last)

\* The level starts at rest.
LEMMA EnvInit == Env!Init => EnvInv
<1> SUFFICES ASSUME Env!Init PROVE EnvInv OBVIOUS
<1> DEFINE c == [events |-> <<>>, param |-> <<>>]
<1>1. InTime(<<>>) /\ DOMAIN <<>> = {} BY DEF InTime
<1>2. Signal(c) /\ NoneAfter(c, 0) BY <1>1 DEF Signal, NoneAfter
<1>3. "rest" \in Env!Levels BY DEF Env!Levels
<1>4. control = Env!Told(c, 0, "target", "rest") BY DEF Env!Init
<1> HIDE DEF c
<1>5. Signal(control) /\ Steady(control, 0) BY <1>2, <1>3, <1>4, ToldIs DEF Steady
<1> QED BY <1>5 DEF Env!Init, EnvInv

\* What holds of the plays there are when a signal keeps what is set up to a time none is after.
LEMMA StillShaped ==
  ASSUME EnvInv, en_orderly, NEW n, NEW t \in Nat, NEW end \in Nat, t <= end,
         \/ last <= t /\ KeepsTo(control, n, t)
         \/ last < t /\ Keeps(control, n, t)
  PROVE  \A p \in en_plays : Shaped(n.param, p) /\ By(p, end)
<1> SUFFICES ASSUME NEW p \in en_plays PROVE Shaped(n.param, p) /\ By(p, end) OBVIOUS
<1>1. p.peak \in Nat /\ p.sustain \in Nat /\ p.release \in Nat /\ last \in Nat BY DEF EnvInv, Plays
<1>2. Shaped(control.param, p) /\ By(p, last) BY DEF EnvInv
<1>3. \A u \in Nat, v \in Env!Levels :
        u <= last /\ Reached(control.param, u, v) => Reached(n.param, u, v)
  BY <1>1 DEF Keeps, KeepsTo
<1>4. Shaped(n.param, p) BY <1>1, <1>2, <1>3, Played DEF Shaped, By
<1>5. last <= end BY <1>1
<1>6. By(p, end) BY <1>1, <1>2, <1>5 DEF By
<1> QED BY <1>4, <1>6

\* What a call for events from t to end, in order when ok, has to do.
LEMMA CallInShape ==
  ASSUME EnvInv, NEW t \in Nat, NEW end \in Nat, t <= end, NEW ok \in BOOLEAN,
         en_now' = en_now, aTime' = aTime, Signal(control'), Env!Called(ok, end),
         en_plays' \subseteq Plays,
         ok => last <= t,
         en_orderly /\ ok => /\ Steady(control', end)
                             /\ \A p \in en_plays' : Shaped(control'.param, p) /\ By(p, end)
  PROVE  EnvInv'
<1>1. last \in Nat BY DEF EnvInv
<1>2. last' = IF last < end THEN end ELSE last BY DEF Env!Called
<1>3. en_orderly' => en_orderly /\ ok BY DEF Env!Called
<1>4. ok => last' = end BY <1>1, <1>2
<1>5. en_orderly' => /\ Steady(control', last')
                     /\ \A p \in en_plays' : Shaped(control'.param, p) /\ By(p, last')
  BY <1>3, <1>4
<1>6. en_now' \in Nat /\ last' \in Nat /\ aTime' \in en_Times BY <1>1, <1>2 DEF EnvInv
<1> QED BY <1>5, <1>6 DEF EnvInv

\* The times of a call are whole.
LEMMA EnvTimes ==
  ASSUME EnvInv, NEW d \in en_Delays
  PROVE  /\ en_now + d \in Nat /\ last \in Nat
         /\ aTime \in Nat /\ dTime \in Nat /\ rTime \in Nat
BY EnvelopeAssumption DEF EnvInv

\* An attack in order keeps all plays.
LEMMA TriggerAttackStep ==
  ASSUME EnvInv, NEW d \in en_Delays, Env!TriggerAttack(d)
  PROVE  EnvInv'
<1> DEFINE t == en_now + d
           end == t + aTime + dTime
           n == Env!Attacked(control, t)
<1>1. t \in Nat /\ end \in Nat /\ t <= end /\ last \in Nat BY EnvTimes
<1>2. /\ control' = n /\ aTime' = aTime /\ en_plays' = en_plays /\ en_now' = en_now
      /\ Env!Called(Env!InOrder(t, aTime), end)
  BY DEF Env!TriggerAttack, Env!Called
<1>3. Signal(control) /\ aTime \in en_Times BY DEF EnvInv
<1> HIDE DEF t
<1>4. Signal(n) /\ (Steady(control, t) => /\ Steady(n, end) /\ Keeps(control, n, t)
                                          /\ aTime > 0 => KeepsTo(control, n, t))
  BY <1>1, <1>3, AttackedIs
<1> HIDE DEF n, end
<1>5. ASSUME en_orderly, Env!InOrder(t, aTime)
      PROVE  Steady(n, end) /\ \A p \in en_plays : Shaped(n.param, p) /\ By(p, end)
  <2>1. last <= t /\ (last < t \/ aTime > 0) BY <1>1, <1>5 DEF Env!InOrder
  <2>2. Steady(control, t) BY <1>1, <1>5, <2>1, SteadyLater DEF EnvInv
  <2> QED BY <1>1, <1>4, <1>5, <2>1, <2>2, StillShaped
<1>6. en_plays \subseteq Plays BY DEF EnvInv
<1> DEFINE ok == Env!InOrder(t, aTime)
<1>7. ok \in BOOLEAN /\ (ok => last <= t) /\ Env!Called(ok, end) BY <1>1, <1>2 DEF Env!InOrder
<1>8. en_orderly /\ ok => /\ Steady(control', end)
                          /\ \A p \in en_plays' : Shaped(control'.param, p) /\ By(p, end)
  BY <1>2, <1>5
<1> HIDE DEF ok
<1> QED BY <1>1, <1>2, <1>4, <1>6, <1>7, <1>8, CallInShape

\* So does a release.
LEMMA TriggerReleaseStep ==
  ASSUME EnvInv, NEW d \in en_Delays, Env!TriggerRelease(d)
  PROVE  EnvInv'
<1> DEFINE t == en_now + d
           end == t + rTime
           n == Env!Released(control, t)
<1>1. t \in Nat /\ end \in Nat /\ t <= end /\ last \in Nat BY EnvTimes
<1>2. /\ control' = n /\ aTime' = aTime /\ en_plays' = en_plays /\ en_now' = en_now
      /\ Env!Called(Env!InOrder(t, rTime), end)
  BY DEF Env!TriggerRelease, Env!Called
<1>3. Signal(control) BY DEF EnvInv
<1> HIDE DEF t
<1>4. Signal(n) /\ (Steady(control, t) => /\ Steady(n, end) /\ Keeps(control, n, t)
                                          /\ rTime > 0 => KeepsTo(control, n, t))
  BY <1>1, <1>3, ReleasedIs
<1> HIDE DEF n, end
<1>5. ASSUME en_orderly, Env!InOrder(t, rTime)
      PROVE  Steady(n, end) /\ \A p \in en_plays : Shaped(n.param, p) /\ By(p, end)
  <2>1. last <= t /\ (last < t \/ rTime > 0) BY <1>1, <1>5 DEF Env!InOrder
  <2>2. Steady(control, t) BY <1>1, <1>5, <2>1, SteadyLater DEF EnvInv
  <2> QED BY <1>1, <1>4, <1>5, <2>1, <2>2, StillShaped
<1>6. en_plays \subseteq Plays BY DEF EnvInv
<1> DEFINE ok == Env!InOrder(t, rTime)
<1>7. ok \in BOOLEAN /\ (ok => last <= t) /\ Env!Called(ok, end) BY <1>1, <1>2 DEF Env!InOrder
<1>8. en_orderly /\ ok => /\ Steady(control', end)
                          /\ \A p \in en_plays' : Shaped(control'.param, p) /\ By(p, end)
  BY <1>2, <1>5
<1> HIDE DEF ok
<1> QED BY <1>1, <1>2, <1>4, <1>6, <1>7, <1>8, CallInShape

\* A play in order gets to the levels of its shape, and keeps the plays before.
LEMMA PlayStep ==
  ASSUME EnvInv, NEW d \in en_Delays, NEW susTime \in Sustains, Env!Play(d, susTime)
  PROVE  EnvInv'
<1> DEFINE t == en_now + d
           peak == t + aTime
           sustain == t + aTime + dTime
           release == t + aTime + dTime + Second * (susTime \div Second)
           end == release + rTime
           a == Env!Attacked(control, t)
           n == Env!Released(a, release)
           new == [peak |-> peak, sustain |-> sustain, release |-> end]
<1>1. t \in Nat /\ last \in Nat BY EnvTimes
<1>2. aTime \in Nat /\ dTime \in Nat /\ rTime \in Nat BY EnvTimes
<1>3. Second * (susTime \div Second) \in Nat
  <2>1. susTime \in Nat /\ Second \in Nat \ {0} BY EnvelopeAssumption
  <2>2. susTime \div Second \in Nat BY <2>1
  <2> QED BY <2>1, <2>2
<1>4. /\ control' = n /\ aTime' = aTime /\ en_plays' = en_plays \cup {new} /\ en_now' = en_now
      /\ Env!Called(Env!InOrder(t, aTime), end)
  BY DEF Env!Play, Env!Called
<1> DEFINE extra == Second * (susTime \div Second)
<1> HIDE DEF t, extra
<1>5. /\ peak \in Nat /\ sustain \in Nat /\ release \in Nat /\ end \in Nat
      /\ t <= peak /\ peak <= sustain /\ sustain <= release /\ release <= end
      /\ aTime > 0 => t < peak
      /\ peak < sustain => dTime > 0
      /\ release < end <=> rTime > 0
  <2>1. extra \in Nat BY <1>3 DEF extra
  <2>2. release = t + aTime + dTime + extra BY DEF extra
  <2> HIDE DEF release
  <2> QED BY <1>1, <1>2, <2>1, <2>2
<1>6. Signal(control) /\ aTime \in en_Times BY DEF EnvInv
<1>7. /\ Signal(a)
      /\ Steady(control, t) => /\ Steady(a, sustain) /\ Keeps(control, a, t)
                               /\ aTime > 0 => KeepsTo(control, a, t)
                               /\ dTime > 0 => Reached(a.param, peak, "peak")
                               /\ Reached(a.param, sustain, "sustain")
  BY <1>1, <1>6, AttackedIs
<1> HIDE DEF a, peak, sustain, release
<1>8. /\ Signal(n)
      /\ Steady(a, release) => /\ Steady(n, end) /\ Keeps(a, n, release)
                               /\ rTime > 0 => KeepsTo(a, n, release)
                               /\ Reached(n.param, end, "rest")
  BY <1>5, <1>7, ReleasedIs
<1> HIDE DEF n, end
<1>9. ASSUME en_orderly, Env!InOrder(t, aTime)
      PROVE  Steady(n, end) /\ \A p \in en_plays' : Shaped(n.param, p) /\ By(p, end)
  <2>a. last <= t /\ (last < t \/ aTime > 0) BY <1>1, <1>9 DEF Env!InOrder
  <2>1. Steady(control, t) BY <1>1, <1>9, <2>a, SteadyLater DEF EnvInv
  <2>2. Steady(a, release) BY <1>5, <1>7, <2>1, SteadyLater
  <2>3. ASSUME NEW u \in Nat, NEW v \in Env!Levels, Reached(control.param, u, v),
               u < t \/ (u = t /\ aTime > 0)
        PROVE  Reached(n.param, u, v)
    <3>1. Reached(a.param, u, v) BY <1>7, <2>1, <2>3 DEF Keeps, KeepsTo
    <3>2. u < release
      <4>1. CASE u < t BY <4>1, <1>1, <1>5
      <4>2. CASE u = t /\ aTime > 0 BY <4>2, <1>1, <1>5
      <4> QED BY <2>3, <4>1, <4>2
    <3> QED BY <1>8, <2>2, <3>1, <3>2 DEF Keeps
  <2>4. t <= end BY <1>1, <1>5
  <2>5. \A p \in en_plays : Shaped(n.param, p) /\ By(p, end)
    <3>1. CASE last < t
      <4>1. Keeps(control, n, t) BY <2>3 DEF Keeps
      <4> QED BY <1>1, <1>5, <1>9, <2>4, <3>1, <4>1, StillShaped
    <3>2. CASE aTime > 0
      <4>1. \A u \in Nat : u <= t => u < t \/ u = t BY <1>1
      <4>2. KeepsTo(control, n, t) BY <2>3, <3>2, <4>1 DEF KeepsTo
      <4> QED BY <1>1, <1>5, <1>9, <2>a, <2>4, <4>2, StillShaped
    <3> QED BY <2>a, <3>1, <3>2
  <2>6. peak < sustain => Reached(n.param, peak, "peak")
    <3> SUFFICES ASSUME peak < sustain PROVE Reached(n.param, peak, "peak") OBVIOUS
    <3>1. Reached(a.param, peak, "peak") BY <1>5, <1>7, <2>1
    <3>2. peak < release BY <1>5
    <3> QED BY <1>5, <1>8, <2>2, <3>1, <3>2, Played DEF Keeps
  <2>7. sustain < end => Reached(n.param, sustain, "sustain")
    <3> SUFFICES ASSUME sustain < end PROVE Reached(n.param, sustain, "sustain") OBVIOUS
    <3>1. Reached(a.param, sustain, "sustain") BY <1>7, <2>1
    <3>2. CASE sustain < release BY <1>5, <1>8, <2>2, <3>1, <3>2, Played DEF Keeps
    <3>3. CASE sustain = release
      <4>1. rTime > 0 /\ sustain <= release BY <1>5, <3>3
      <4> QED BY <1>5, <1>8, <2>2, <3>1, <4>1, Played DEF KeepsTo
    <3> QED BY <1>5, <3>2, <3>3
  <2>8. Shaped(n.param, new) BY <1>8, <2>2, <2>6, <2>7 DEF Shaped
  <2>9. By(new, end) BY <1>5 DEF By
  <2> HIDE DEF new
  <2> QED BY <1>4, <1>8, <2>2, <2>5, <2>8, <2>9
<1>10. en_plays' \subseteq Plays
  <2>1. new \in Plays BY <1>5 DEF Plays
  <2>2. en_plays \subseteq Plays BY DEF EnvInv
  <2> HIDE DEF new
  <2> QED BY <1>4, <2>1, <2>2
<1> HIDE DEF new
<1> DEFINE ok == Env!InOrder(t, aTime)
<1>11. ok \in BOOLEAN /\ (ok => last <= t) /\ Env!Called(ok, end) BY <1>1, <1>4 DEF Env!InOrder
<1>12. en_orderly /\ ok => /\ Steady(control', end)
                           /\ \A p \in en_plays' : Shaped(control'.param, p) /\ By(p, end)
  BY <1>4, <1>9
<1> HIDE DEF ok
<1>13. t <= end BY <1>1, <1>5
<1> QED BY <1>1, <1>4, <1>5, <1>8, <1>10, <1>11, <1>12, <1>13, CallInShape

\* A ramp in order, of one leg or two, keeps all plays.
LEMMA RampStep ==
  ASSUME EnvInv, NEW d \in en_Delays, NEW v1 \in {"rest", "peak"}, NEW v2 \in {"rest", "peak"},
         Env!Ramp(d, v1, v2)
  PROVE  EnvInv'
<1> DEFINE t == en_now + d
<1>1. t \in Nat /\ last \in Nat BY EnvTimes
<1>2. PICK w \in Env!Ways(control, t, v1) :
        /\ control' = IF v1 /= v2
                      THEN Env!Told(Env!RampedTo(control, t, v1, w), Env!RampEnd(t, w), "target",
                        v2)
                      ELSE Env!RampedTo(control, t, v1, w)
        /\ Env!Called(last < t, Env!RampEnd(t, w))
        /\ aTime' = aTime /\ en_plays' = en_plays
  BY DEF Env!Ramp
<1> DEFINE first == Env!RampedTo(control, t, v1, w)
           end == Env!RampEnd(t, w)
           n == IF v1 /= v2 THEN Env!Told(first, end, "target", v2) ELSE first
<1>3. /\ control' = n /\ aTime' = aTime /\ en_plays' = en_plays /\ en_now' = en_now
      /\ Env!Called(last < t, end)
  BY <1>2 DEF Env!Called
<1>4. Signal(control) /\ aTime \in en_Times BY DEF EnvInv
<1>5. w \in {"over", "at", "under"} BY DEF Env!Ways
<1> HIDE DEF t
<1>6. end \in Nat /\ t <= end BY <1>1, <1>4, <1>5, RampEndIs
<1>7. /\ Signal(first) /\ Keeps(control, first, t)
      /\ Steady(control, t) => Steady(first, t)
  BY <1>1, <1>4, RampedIs
<1> HIDE DEF first, end
<1>8. Steady(first, t) => Steady(first, end) BY <1>1, <1>6, SteadyLater
<1>9. LET m == Env!Told(first, end, "target", v2)
      IN Signal(m) /\ Keeps(first, m, end) /\ (Steady(first, end) => Steady(m, end))
  BY <1>6, <1>7, TargetIs
<1>10. Signal(n) /\ (Steady(control, t) => Steady(n, end)) BY <1>7, <1>8, <1>9
<1>11. Keeps(control, n, t)
  <2> SUFFICES ASSUME NEW u \in Nat, NEW v \in Env!Levels, u < t, Reached(control.param, u, v)
               PROVE  Reached(n.param, u, v)
    BY DEF Keeps
  <2>1. Reached(first.param, u, v) BY <1>7 DEF Keeps
  <2>2. u < end BY <1>1, <1>6
  <2>3. Reached(Env!Told(first, end, "target", v2).param, u, v) BY <1>9, <2>1, <2>2 DEF Keeps
  <2> QED BY <2>1, <2>3
<1> HIDE DEF n
<1>12. ASSUME en_orderly, last < t
       PROVE  Steady(n, end) /\ \A p \in en_plays : Shaped(n.param, p) /\ By(p, end)
  <2>1. last <= t BY <1>1, <1>12
  <2>2. Steady(control, t) BY <1>1, <1>12, <2>1, SteadyLater DEF EnvInv
  <2> QED BY <1>1, <1>6, <1>10, <1>11, <1>12, <2>2, StillShaped
<1>13. en_plays \subseteq Plays BY DEF EnvInv
<1> DEFINE ok == last < t
<1>14. ok \in BOOLEAN /\ (ok => last <= t) /\ Env!Called(ok, end) BY <1>1, <1>3
<1>15. en_orderly /\ ok => /\ Steady(control', end)
                           /\ \A p \in en_plays' : Shaped(control'.param, p) /\ By(p, end)
  BY <1>3, <1>12
<1> HIDE DEF ok
<1> QED BY <1>1, <1>3, <1>6, <1>10, <1>13, <1>14, <1>15, CallInShape

\* So does the play of a MonoSynth, which ramps up and down.
LEMMA MonoSynthPlayStep ==
  ASSUME EnvInv, NEW d \in en_Delays, NEW susTime \in Sustains, Env!MonoSynthPlay(d, susTime)
  PROVE  EnvInv'
<1> DEFINE t == en_now + Second * (d \div Second)
           release == t + susTime
<1>1. t \in Nat /\ release \in Nat /\ t <= release /\ last \in Nat
  <2>1. d \in Nat /\ susTime \in Nat /\ Second \in Nat \ {0} /\ en_now \in Nat /\ last \in Nat
    BY EnvelopeAssumption DEF EnvInv
  <2>2. d \div Second \in Nat BY <2>1
  <2>3. Second * (d \div Second) \in Nat BY <2>1, <2>2
  <2> DEFINE late == Second * (d \div Second)
  <2>4. late \in Nat BY <2>3
  <2> HIDE DEF late
  <2>5. en_now + late \in Nat /\ en_now + late + susTime \in Nat
        /\ en_now + late <= en_now + late + susTime
    BY <2>1, <2>4
  <2> QED BY <2>1, <2>5 DEF late
<1>2. PICK w \in Env!Ways(control, t, "peak") :
        \E v \in Env!Ways(Env!MonoSynthAttacked(control, t, w), release, "rest") :
          /\ control' = Env!MonoSynthReleased(Env!MonoSynthAttacked(control, t, w), release, v)
          /\ Env!Called(last < t, Env!RampEnd(release, v))
          /\ aTime' = aTime /\ en_plays' = en_plays
  BY DEF Env!MonoSynthPlay
<1> DEFINE a == Env!MonoSynthAttacked(control, t, w)
<1>3. PICK v \in Env!Ways(a, release, "rest") :
        /\ control' = Env!MonoSynthReleased(a, release, v)
        /\ Env!Called(last < t, Env!RampEnd(release, v))
        /\ aTime' = aTime /\ en_plays' = en_plays
  BY <1>2
<1> DEFINE n == Env!MonoSynthReleased(a, release, v)
           end == Env!RampEnd(release, v)
<1>4. /\ control' = n /\ aTime' = aTime /\ en_plays' = en_plays /\ en_now' = en_now
      /\ Env!Called(last < t, end)
  BY <1>3 DEF Env!Called
<1>5. Signal(control) /\ aTime \in en_Times BY DEF EnvInv
<1>6. v \in {"over", "at", "under"} BY DEF Env!Ways
<1> HIDE DEF t, release
<1>7. a = Env!RampedTo(control, t, "peak", w) BY DEF Env!MonoSynthAttacked
<1>8. n = Env!RampedTo(a, release, "rest", v) BY DEF Env!MonoSynthReleased
<1> HIDE DEF a, n
<1>9. end \in Nat /\ release <= end /\ t <= end
  <2>1. end \in Nat /\ release <= end BY <1>1, <1>5, <1>6, RampEndIs
  <2> HIDE DEF end
  <2> QED BY <2>1, <1>1
<1>10. /\ Signal(a) /\ Keeps(control, a, t)
       /\ Steady(control, t) => Steady(a, t)
  BY <1>1, <1>5, <1>7, RampedIs
<1>11. /\ Signal(n) /\ Keeps(a, n, release)
       /\ Steady(a, release) => Steady(n, release)
  BY <1>1, <1>8, <1>10, RampedIs
<1> HIDE DEF end
<1>12. Steady(control, t) => Steady(n, end)
  <2>1. Steady(a, t) => Steady(a, release) BY <1>1, SteadyLater
  <2>2. Steady(n, release) => Steady(n, end) BY <1>1, <1>9, SteadyLater
  <2> QED BY <1>10, <1>11, <2>1, <2>2
<1>13. Keeps(control, n, t)
  <2> SUFFICES ASSUME NEW u \in Nat, NEW x \in Env!Levels, u < t, Reached(control.param, u, x)
               PROVE  Reached(n.param, u, x)
    BY DEF Keeps
  <2>1. Reached(a.param, u, x) BY <1>10 DEF Keeps
  <2>2. u < release BY <1>1
  <2> QED BY <1>11, <2>1, <2>2 DEF Keeps
<1>14. ASSUME en_orderly, last < t
       PROVE  Steady(n, end) /\ \A p \in en_plays : Shaped(n.param, p) /\ By(p, end)
  <2>1. last <= t BY <1>1, <1>14
  <2>2. Steady(control, t) BY <1>1, <1>14, <2>1, SteadyLater DEF EnvInv
  <2> QED BY <1>1, <1>9, <1>12, <1>13, <1>14, <2>2, StillShaped
<1>15. en_plays \subseteq Plays BY DEF EnvInv
<1> DEFINE ok == last < t
<1>16. ok \in BOOLEAN /\ (ok => last <= t) /\ Env!Called(ok, end) BY <1>1, <1>4
<1>17. en_orderly /\ ok => /\ Steady(control', end)
                           /\ \A p \in en_plays' : Shaped(control'.param, p) /\ By(p, end)
  BY <1>4, <1>14
<1> HIDE DEF ok
<1> QED BY <1>1, <1>4, <1>9, <1>11, <1>15, <1>16, <1>17, CallInShape

\* Every step keeps the invariant.
LEMMA EnvNext == EnvInv /\ [Env!Next]_(Env!vars) => EnvInv'
<1> SUFFICES ASSUME EnvInv, [Env!Next]_(Env!vars) PROVE EnvInv' OBVIOUS
<1>1. CASE \E d \in en_Delays : Env!TriggerAttack(d) \/ Env!TriggerRelease(d)
  BY <1>1, TriggerAttackStep, TriggerReleaseStep
<1>2. CASE \E d \in en_Delays, susTime \in Sustains : Env!Play(d, susTime) \/ Env!MonoSynthPlay(d,
        susTime)
  BY <1>2, PlayStep, MonoSynthPlayStep
<1>3. CASE \E d \in en_Delays, v1, v2 \in {"rest", "peak"} : Env!Ramp(d, v1, v2)
  BY <1>3, RampStep
<1>4. CASE \E a \in en_Times : Env!SetADSR(a) BY <1>4 DEF Env!SetADSR, EnvInv
<1>5. CASE Env!Advance BY <1>5 DEF Env!Advance, EnvInv
<1>6. CASE UNCHANGED Env!vars BY <1>6 DEF Env!vars, EnvInv
<1> QED BY <1>1, <1>2, <1>3, <1>4, <1>5, <1>6 DEF Env!Next

\* What the invariant says of the plays.
LEMMA EnvSafe == EnvInv => Env!PlaysKeepShape
<1> SUFFICES ASSUME EnvInv, en_orderly, NEW p \in en_plays
             PROVE  /\ p.peak < p.sustain => Env!ValueAt(control.param, p.peak) = "peak"
                    /\ p.sustain < p.release =>
                         Env!ValueAt(control.param, p.sustain) = "sustain"
                    /\ Env!ValueAt(control.param, p.release) = "rest"
  BY DEF Env!PlaysKeepShape
<1>1. p.peak \in Nat /\ p.sustain \in Nat /\ p.release \in Nat BY DEF EnvInv, Plays
<1>2. InTime(control.param) BY DEF EnvInv, Signal
<1>3. Shaped(control.param, p) BY DEF EnvInv
<1> QED BY <1>1, <1>2, <1>3, ReachedValue DEF Shaped

\* Every play an envelope was asked for in order of time, with any times of the legs, none included,
\* is heard with its attack, its decay and its release as far as they take time, whatever it is
\* asked for after, and however few events its signal remembers.
THEOREM PlaysAreShaped == Env!Spec => []PlaysKeepShape
<1>1. EnvInv => PlaysKeepShape BY EnvSafe DEF PlaysKeepShape
<1> QED BY <1>1, EnvInit, EnvNext, PTL DEF Env!Spec
=============================================================================
