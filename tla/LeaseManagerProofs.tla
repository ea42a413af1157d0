------------------------- MODULE LeaseManagerProofs -------------------------
(***************************************************************************)
(* Proofs about the lease managers, for any number of LMs, TMs and leases, *)
(* any crash and suspicion schedule, and rounds that overlap at will.      *)
(***************************************************************************)
EXTENDS LeaseManager, WellFoundedInduction, TLAPS

-----------------------------------------------------------------------------
(* The helpers on tables keep their types and invent no request.           *)

\* A non-empty set of naturals has a smallest element.
LEMMA MinExists ==
  ASSUME NEW S \in SUBSET Nat, S # {}
  PROVE  \E m \in S : \A k \in S : m <= k
<1>1. \E m \in S : \A k \in S : ~ (<<k, m>> \in OpToRel(<, Nat))
  BY NatLessThanWellFounded, WFMin
<1>2. \A k, m \in S : ~ (<<k, m>> \in OpToRel(<, Nat)) => m <= k
  BY DEF OpToRel
<1> QED
  BY <1>1, <1>2

\* The next client to call is an LM, or 0.
LEMMA NextPeerType ==
  ASSUME NEW l \in LM, NEW s \in Slot, NEW p \in 0..N
  PROVE  NextPeer(l, s, p) \in 0..N
<1> DEFINE rest == {q \in (p + 1)..N : q # l /\ q \notin Suspects[l][s]}
<1>1. CASE rest = {}
  BY <1>1, SizeAssumption DEF NextPeer
<1>2. CASE rest # {}
  <2>1. rest \in SUBSET Nat /\ rest \subseteq 1..N
    BY SizeAssumption
  <2>2. \E m \in rest : \A k \in rest : m <= k
    BY <2>1, <1>2, MinExists
  <2> QED
    BY <2>1, <2>2, <1>2 DEF NextPeer
<1> QED
  BY <1>1, <1>2

\* What the code does to a table keeps its type: removing shrinks it, merging adds
\* nothing that neither table had.
LEMMA TableOperators ==
  ASSUME NEW T \in Table, NEW C \in Table
  PROVE  /\ EmptyTable \in Table
         /\ Minus(T, C) \in Table
         /\ Merge(T, C) \in Table
         /\ \A k \in Key, tm \in TM :
              /\ ~Holds(EmptyTable, k, tm)
              /\ Holds(Minus(T, C), k, tm) => Holds(T, k, tm)
              /\ Holds(Merge(T, C), k, tm) => Holds(T, k, tm) \/ Holds(C, k, tm)
  BY DEF Table, EmptyTable, Minus, Merge, Holds

\* Merging the tables of the promises adds nothing that none of them had.
LEMMA MergeAllTables ==
  ASSUME NEW T \in Table, NEW Cs \in SUBSET Table
  PROVE  /\ MergeAll(T, Cs) \in Table
         /\ \A k \in Key, tm \in TM :
              Holds(MergeAll(T, Cs), k, tm)
                => Holds(T, k, tm) \/ \E C \in Cs : Holds(C, k, tm)
  BY DEF Table, MergeAll, Holds

\* RemoveLastConsensus only takes requests away, thrown or not.
LEMMA RemovalsShrink ==
  ASSUME TypeOK, NEW l \in LM, NEW rm \in Removals(l)
  PROVE  /\ rm.table \in Table
         /\ rm.throws \in BOOLEAN
         /\ \A k \in Key, tm \in TM : Holds(rm.table, k, tm) => Holds(leasesTable[l], k, tm)
<1>0. leasesTable[l] \in Table /\ lastConsensus[l] \in Table
  BY DEF TypeOK
<1>1. CASE ~aliased[l]
  <2>1. rm.table = Minus(leasesTable[l], lastConsensus[l]) /\ rm.throws = FALSE
    BY <1>1 DEF Removals
  <2>2. /\ Minus(leasesTable[l], lastConsensus[l]) \in Table
        /\ \A k \in Key, tm \in TM :
             Holds(Minus(leasesTable[l], lastConsensus[l]), k, tm)
               => Holds(leasesTable[l], k, tm)
    BY <1>0, TableOperators
  <2> QED
    BY <2>1, <2>2
<1>2. CASE aliased[l] /\ leasesTable[l] = EmptyTable
  <2>1. rm.table = leasesTable[l] /\ rm.throws = FALSE
    BY <1>2 DEF Removals
  <2> QED
    BY <2>1, <1>0
<1>3. CASE aliased[l] /\ leasesTable[l] # EmptyTable
  <2>1. PICK e \in {x \in Key \X TM : Holds(leasesTable[l], x[1], x[2])} :
          rm = [table |-> [leasesTable[l] EXCEPT ![e[1]][e[2]] = @ - 1],
                throws |-> TRUE]
    BY <1>3 DEF Removals
  <2>2. leasesTable[l][e[1]][e[2]] \in Nat /\ leasesTable[l][e[1]][e[2]] > 0
    BY <1>0 DEF Holds, Table
  <2>3. leasesTable[l][e[1]][e[2]] - 1 \in Nat
    BY <2>2
  <2>4. rm.table \in Table
    BY <2>1, <2>3, <1>0 DEF Table
  <2>5. ASSUME NEW k \in Key, NEW tm \in TM, Holds(rm.table, k, tm)
        PROVE  Holds(leasesTable[l], k, tm)
    BY <2>1, <2>2, <2>5, <1>0 DEF Table, Holds
  <2> QED
    BY <2>1, <2>4, <2>5
<1> QED
  BY <1>1, <1>2, <1>3

-----------------------------------------------------------------------------
(* The sending side.                                                       *)

\* A round with a call out is in progress and knows whom it called.
Awaits(r) == r.call # "none" => r.phase \in {"prepare", "accept"} /\ r.peer \in LM

\* A record of the type of a round.
LEMMA NoRoundType == NoRound \in Round
<1>1. EmptyTable \in Table
  BY DEF EmptyTable, Table
<1> QED
  BY <1>1, SizeAssumption DEF NoRound, Round

\* A round that goes on from r sends the table it is given, or what r sent.
LEMMA NextAcceptType ==
  ASSUME NEW l \in LM, NEW s \in Slot, NEW r \in Round, NEW hp \in Nat, NEW T \in Table
  PROVE  /\ NextAccept(l, s, r, hp, T) \in Round
         /\ NextAccept(l, s, r, hp, T).table \in {T, EmptyTable}
         /\ NextAccept(l, s, r, hp, T).answer = EmptyTable
         /\ NextAccept(l, s, r, hp, T).promises \in {r.promises, {}}
         /\ r.phase \in {"prepare", "accept"} => Awaits(NextAccept(l, s, r, hp, T))
<1> DEFINE q == NextPeer(l, s, r.peer)
<1>1. q \in 0..N /\ EmptyTable \in Table /\ NoRound \in Round
  <2>1. r.peer \in 0..N
    BY DEF Round
  <2> QED
    BY <2>1, NextPeerType, NoRoundType DEF EmptyTable, Table
<1>2. CASE q # 0
  <2>1. NextAccept(l, s, r, hp, T) =
          [r EXCEPT !.peer = q, !.call = "sent", !.id = hp, !.table = T,
                    !.answer = EmptyTable]
    BY <1>2 DEF NextAccept
  <2> HIDE DEF q
  <2>2. /\ NextAccept(l, s, r, hp, T).table = T
        /\ NextAccept(l, s, r, hp, T).answer = EmptyTable
        /\ NextAccept(l, s, r, hp, T).promises = r.promises
        /\ r.phase \in {"prepare", "accept"} => Awaits(NextAccept(l, s, r, hp, T))
    BY <2>1, <1>1, <1>2, SizeAssumption DEF Round, Awaits, LM
  <2>3. NextAccept(l, s, r, hp, T) \in Round
    BY <2>1, <1>1 DEF Round
  <2> QED
    BY <2>2, <2>3
<1>3. CASE q = 0
  <2>1. PICK p \in {"decided", "dropped"} :
          NextAccept(l, s, r, hp, T) =
            [NoRound EXCEPT !.phase = p, !.accepted = r.accepted]
    BY <1>3 DEF NextAccept
  <2> QED
    BY <2>1, <1>1 DEF Round, NoRound, Awaits
<1> QED
  BY <1>2, <1>3

\* The prepare phase, and the accept phase it may lead on to, likewise.
LEMMA NextPrepareType ==
  ASSUME NEW l \in LM, NEW s \in Slot, NEW r \in Round, NEW hp \in Nat, NEW M \in Table
  PROVE  /\ NextPrepare(l, s, r, hp, M) \in Round
         /\ NextPrepare(l, s, r, hp, M).table \in {M, r.table, EmptyTable}
         /\ NextPrepare(l, s, r, hp, M).answer = EmptyTable
         /\ NextPrepare(l, s, r, hp, M).promises \in {r.promises, {}}
         /\ r.phase \in {"prepare", "accept"} => Awaits(NextPrepare(l, s, r, hp, M))
<1> DEFINE q == NextPeer(l, s, r.peer)
<1>1. q \in 0..N /\ EmptyTable \in Table /\ NoRound \in Round
  <2>1. r.peer \in 0..N
    BY DEF Round
  <2> QED
    BY <2>1, NextPeerType, NoRoundType DEF EmptyTable, Table
<1>2. CASE q # 0
  <2>1. NextPrepare(l, s, r, hp, M) =
          [r EXCEPT !.peer = q, !.call = "sent", !.answer = EmptyTable]
    BY <1>2 DEF NextPrepare
  <2> HIDE DEF q
  <2>2. /\ NextPrepare(l, s, r, hp, M).table = r.table
        /\ NextPrepare(l, s, r, hp, M).answer = EmptyTable
        /\ NextPrepare(l, s, r, hp, M).promises = r.promises
        /\ r.phase \in {"prepare", "accept"} => Awaits(NextPrepare(l, s, r, hp, M))
    BY <2>1, <1>1, <1>2, SizeAssumption DEF Round, Awaits, LM
  <2>3. NextPrepare(l, s, r, hp, M) \in Round
    BY <2>1, <1>1 DEF Round
  <2> QED
    BY <2>2, <2>3
<1>3. CASE q = 0 /\ r.replys + 1 > QuorumSize(l, s)
  <2> DEFINE r0 == [NoRound EXCEPT !.phase = "accept"]
  <2>1. NextPrepare(l, s, r, hp, M) = NextAccept(l, s, r0, hp, M)
    BY <1>3 DEF NextPrepare
  <2>2. r0 \in Round /\ r0.promises = {} /\ r0.phase = "accept"
    BY <1>1 DEF Round, NoRound
  <2> HIDE DEF r0
  <2> QED
    BY <2>1, <2>2, NextAcceptType
<1>4. CASE q = 0 /\ ~(r.replys + 1 > QuorumSize(l, s))
  <2>1. NextPrepare(l, s, r, hp, M) = [NoRound EXCEPT !.phase = "dropped"]
    BY <1>4 DEF NextPrepare
  <2> QED
    BY <2>1, <1>1 DEF Round, NoRound, Awaits
<1> QED
  BY <1>2, <1>3, <1>4

\* What one turn of a round does: it leaves a table M that holds nothing but
\* what T and the promises held, and sends M or nothing new.
TurnEffect(l, i, r, T, M, n) ==
  /\ round' = [round EXCEPT ![i] = n]
  /\ leasesTable' = [leasesTable EXCEPT ![l] = M]
  /\ \A k \in Key, tm \in TM :
       Holds(M, k, tm) => Holds(T, k, tm) \/ \E C \in r.promises : Holds(C, k, tm)
  /\ n.table \in {M, r.table, EmptyTable}
  /\ n.answer = EmptyTable
  /\ n.promises \in {r.promises, {}}
  /\ Awaits(n)
  /\ \/ /\ aliased' = [aliased EXCEPT ![l] = TRUE]
        /\ lastConsensus' = [lastConsensus EXCEPT ![l] = EmptyTable]
        /\ lastPropCall' = [lastPropCall EXCEPT ![l] = @ \cup SentTo(l)]
        /\ decided' = [decided EXCEPT ![i] = M]
     \/ UNCHANGED <<aliased, lastConsensus, lastPropCall, decided>>

\* What one turn of a round does to the state of its LM and to the round.
LEMMA ProceedEffect ==
  ASSUME TypeOK, NEW l \in LM, NEW i \in Id, NEW r \in Round, NEW hp \in Nat,
         NEW T \in Table, Proceed(l, i, r, hp, T),
         r.phase \in {"prepare", "accept"}
  PROVE  \E M \in Table, n \in Round : TurnEffect(l, i, r, T, M, n)
<1> DEFINE s == currentTimeslot[l]
           M == IF r.phase = "prepare" /\ NextPeer(l, s, r.peer) = 0
                THEN MergeAll(T, r.promises) ELSE T
           n == IF r.phase = "prepare" THEN NextPrepare(l, s, r, hp, M)
                                       ELSE NextAccept(l, s, r, hp, M)
<1>1. s \in Slot
  BY DEF TypeOK
<1>2. /\ M \in Table
      /\ \A k \in Key, tm \in TM :
           Holds(M, k, tm) => Holds(T, k, tm) \/ \E C \in r.promises : Holds(C, k, tm)
  <2>1. r.promises \in SUBSET Table
    BY DEF Round
  <2> QED
    BY <2>1, MergeAllTables
<1>3. /\ round' = [round EXCEPT ![i] = n]
      /\ leasesTable' = [leasesTable EXCEPT ![l] = M]
      /\ \/ /\ aliased' = [aliased EXCEPT ![l] = TRUE]
            /\ lastConsensus' = [lastConsensus EXCEPT ![l] = EmptyTable]
            /\ lastPropCall' = [lastPropCall EXCEPT ![l] = @ \cup SentTo(l)]
            /\ decided' = [decided EXCEPT ![i] = M]
         \/ UNCHANGED <<aliased, lastConsensus, lastPropCall, decided>>
  BY DEF Proceed
<1> HIDE DEF M, s
<1>4. /\ n \in Round
      /\ n.table \in {M, r.table, EmptyTable}
      /\ n.answer = EmptyTable
      /\ n.promises \in {r.promises, {}}
      /\ Awaits(n)
  BY <1>1, <1>2, NextAcceptType, NextPrepareType
<1> HIDE DEF n
<1>5. TurnEffect(l, i, r, T, M, n)
  BY <1>2, <1>3, <1>4 DEF TurnEffect
<1> QED
  BY <1>2, <1>4, <1>5

-----------------------------------------------------------------------------
(* The inductive invariant: the types, who is awaited, and validity of     *)
(* every table that a round or a handler carries.                          *)

CallsAwaited == \A i \in Id : Awaits(round[i])

CarriedRequested ==
  /\ \A i \in Id : /\ OnlyRequested(round[i].table)
                   /\ OnlyRequested(round[i].answer)
                   /\ \A C \in round[i].promises : OnlyRequested(C)
  /\ \A h \in handlers : OnlyRequested(h.table)

IInv == TypeOK /\ CallsAwaited /\ OnlyRequestedLeases /\ CarriedRequested

\* An empty table asks for nothing.
LEMMA EmptyRequested == EmptyTable \in Table /\ OnlyRequested(EmptyTable)
  BY DEF EmptyTable, Table, OnlyRequested, Holds

\* The invariant holds when the LMs start.
LEMMA InitIInv == Init => IInv
<1> SUFFICES ASSUME Init PROVE IInv
  OBVIOUS
<1> USE DEF Init
<1>1. /\ EmptyTable \in Table /\ OnlyRequested(EmptyTable) /\ NoRound \in Round
      /\ NoRound.call = "none" /\ NoRound.promises = {}
      /\ NoRound.table = EmptyTable /\ NoRound.answer = EmptyTable
  BY EmptyRequested, NoRoundType DEF NoRound
<1>2. TypeOK
  <2>1. 1 \in Slot /\ 0 \in 0..(N - 1)
    BY SizeAssumption DEF Slot
  <2> QED
    BY <1>1, <2>1 DEF TypeOK
<1>3. CallsAwaited
  BY <1>1 DEF CallsAwaited, Awaits
<1>4. OnlyRequestedLeases
  BY <1>1 DEF OnlyRequestedLeases
<1>5. CarriedRequested
  BY <1>1 DEF CarriedRequested
<1> QED
  BY <1>2, <1>3, <1>4, <1>5 DEF IInv

\* A request once acknowledged stays acknowledged, so a table of requests
\* stays one.
LEMMA RequestedStays ==
  ASSUME UNCHANGED acked, NEW T
  PROVE  OnlyRequested(T) => OnlyRequested(T)'
  BY DEF OnlyRequested, Requested

\* One turn of a round keeps the invariant, whatever called it.
LEMMA ProceedKeepsIInv ==
  ASSUME IInv, NEW l \in LM, NEW i \in Id, NEW r \in Round, NEW hp \in Nat,
         NEW T \in Table, Proceed(l, i, r, hp, T),
         r.phase \in {"prepare", "accept"},
         OnlyRequested(T), OnlyRequested(r.table),
         \A C \in r.promises : OnlyRequested(C),
         UNCHANGED <<handlers, acked>>,
         currentTimeslot' \in [LM -> Slot], currentLeader' \in [LM -> 0..(N - 1)],
         highestPrepare' \in [LM -> Nat]
  PROVE  IInv'
<1>1. TypeOK /\ CallsAwaited /\ OnlyRequestedLeases /\ CarriedRequested
  BY DEF IInv
<1>2. PICK M \in Table, n \in Round : TurnEffect(l, i, r, T, M, n)
  BY <1>1, ProceedEffect
<1>3. OnlyRequested(M)
  BY <1>2 DEF TurnEffect, OnlyRequested
<1>4. TypeOK'
  <2>1. lastPropCall' \in [LM -> SUBSET TM]
    BY <1>1, <1>2 DEF TurnEffect, TypeOK, SentTo
  <2>2. round' \in [Id -> Round] /\ leasesTable' \in [LM -> Table]
    BY <1>1, <1>2 DEF TurnEffect, TypeOK
  <2>3. /\ lastConsensus' \in [LM -> Table]
        /\ decided' \in [Id -> Table]
    BY <1>1, <1>2, EmptyRequested DEF TurnEffect, TypeOK
  <2>4. handlers' \subseteq Handler /\ acked' \in [LM -> Table]
    BY <1>1 DEF TypeOK
  <2>5. aliased' \in [LM -> BOOLEAN]
    <3>1. aliased \in [LM -> BOOLEAN]
      BY <1>1 DEF TypeOK
    <3>2. CASE aliased' = [aliased EXCEPT ![l] = TRUE]
      BY <3>1, <3>2, Zenon
    <3>3. CASE UNCHANGED aliased
      BY <3>1, <3>3
    <3> QED
      BY <1>2, <3>2, <3>3 DEF TurnEffect
  <2> QED
    BY <2>1, <2>2, <2>3, <2>4, <2>5 DEF TypeOK
<1>5. CallsAwaited'
  BY <1>1, <1>2 DEF TurnEffect, CallsAwaited, TypeOK, Awaits
<1>6. OnlyRequestedLeases'
  <2>1. \A m \in LM : leasesTable'[m] \in {M, leasesTable[m]}
                      /\ lastConsensus'[m] \in {EmptyTable, lastConsensus[m]}
    BY <1>1, <1>2 DEF TurnEffect, TypeOK
  <2>2. \A j \in Id : decided'[j] \in {M, decided[j]}
    BY <1>1, <1>2 DEF TurnEffect, TypeOK
  <2>3. /\ \A m \in LM : OnlyRequested(leasesTable'[m]) /\ OnlyRequested(lastConsensus'[m])
        /\ \A j \in Id : OnlyRequested(decided'[j])
    BY <1>1, <1>3, <2>1, <2>2, EmptyRequested DEF OnlyRequestedLeases
  <2> QED
    BY <2>3 DEF OnlyRequestedLeases, OnlyRequested, Requested
<1>7. CarriedRequested'
  <2>1. \A j \in Id : /\ OnlyRequested(round'[j].table)
                      /\ OnlyRequested(round'[j].answer)
                      /\ \A C \in round'[j].promises : OnlyRequested(C)
    <3> SUFFICES ASSUME NEW j \in Id
                 PROVE  /\ OnlyRequested(round'[j].table)
                        /\ OnlyRequested(round'[j].answer)
                        /\ \A C \in round'[j].promises : OnlyRequested(C)
      OBVIOUS
    <3>1. CASE j = i
      <4>1. round'[j] = n
        BY <1>1, <1>2, <3>1 DEF TurnEffect, TypeOK
      <4> QED
        BY <4>1, <1>2, <1>3, EmptyRequested DEF TurnEffect
    <3>2. CASE j # i
      <4>1. round'[j] = round[j]
        BY <1>1, <1>2, <3>2 DEF TurnEffect, TypeOK
      <4> QED
        BY <4>1, <1>1 DEF CarriedRequested
    <3> QED
      BY <3>1, <3>2
  <2>2. \A h \in handlers : OnlyRequested(h.table)
    BY <1>1 DEF CarriedRequested
  <2> QED
    BY <2>1, <2>2 DEF CarriedRequested, OnlyRequested, Requested
<1> QED
  BY <1>4, <1>5, <1>6, <1>7 DEF IInv

\* A step that touches one round only, keeping its tables, keeps the invariant.
LEMMA RoundStepKeepsIInv ==
  ASSUME IInv, NEW i \in Id, NEW r \in Round,
         round' = [round EXCEPT ![i] = r],
         r.table = round[i].table, r.promises = round[i].promises,
         OnlyRequested(r.answer), Awaits(r),
         UNCHANGED <<lmVars, acked, decided>>,
         handlers' \subseteq Handler,
         \A h \in handlers' : OnlyRequested(h.table)
  PROVE  IInv'
<1>1. TypeOK /\ CallsAwaited /\ OnlyRequestedLeases /\ CarriedRequested
  BY DEF IInv
<1>2. TypeOK'
  <2>1. round' \in [Id -> Round]
    BY <1>1 DEF TypeOK
  <2> QED
    BY <1>1, <2>1 DEF TypeOK, lmVars
<1>3. \A j \in Id : round'[j] = IF j = i THEN r ELSE round[j]
  BY <1>1 DEF TypeOK
<1>4. CallsAwaited'
  BY <1>1, <1>3 DEF CallsAwaited, Awaits
<1>5. OnlyRequestedLeases'
  BY <1>1 DEF OnlyRequestedLeases, OnlyRequested, Requested, lmVars
<1>6. CarriedRequested'
  <2>1. \A j \in Id : /\ OnlyRequested(round'[j].table)
                      /\ OnlyRequested(round'[j].answer)
                      /\ \A C \in round'[j].promises : OnlyRequested(C)
    BY <1>1, <1>3 DEF CarriedRequested
  <2> QED
    BY <2>1 DEF CarriedRequested, OnlyRequested, Requested
<1> QED
  BY <1>2, <1>4, <1>5, <1>6 DEF IInv

\* A call that fails, is refused or is admitted keeps the invariant.
LEMMA CallStepsKeepIInv ==
  ASSUME IInv, NEW i \in Id, CallFails(i) \/ RefuseCall(i) \/ AdmitCall(i)
  PROVE  IInv'
<1>1. TypeOK /\ CallsAwaited /\ CarriedRequested
  BY DEF IInv
<1>2. /\ round[i] \in Round /\ Awaits(round[i])
      /\ OnlyRequested(round[i].table) /\ OnlyRequested(round[i].answer)
      /\ handlers \subseteq Handler
      /\ \A h \in handlers : OnlyRequested(h.table)
  BY <1>1 DEF TypeOK, CallsAwaited, CarriedRequested
<1>3. PICK c \in {"failed", "replied", "admitted"} :
        /\ round[i].call # "none"
        /\ round' = [round EXCEPT ![i] = [round[i] EXCEPT !.call = c]]
        /\ UNCHANGED <<lmVars, acked, decided>>
        /\ handlers' = handlers \/ AdmitCall(i)
  BY <1>1 DEF CallFails, RefuseCall, AdmitCall, TypeOK
<1> DEFINE r == [round[i] EXCEPT !.call = c]
<1>4. /\ r \in Round /\ Awaits(r) /\ r.table = round[i].table
      /\ r.promises = round[i].promises /\ r.answer = round[i].answer
  BY <1>2, <1>3 DEF Round, Awaits
<1>5. handlers' \subseteq Handler /\ \A h \in handlers' : OnlyRequested(h.table)
  <2>1. CASE handlers' = handlers
    BY <2>1, <1>2
  <2>2. CASE AdmitCall(i)
    <3> DEFINE h0 == [round |-> i, at |-> round[i].peer, kind |-> round[i].phase,
                      id |-> round[i].id, table |-> round[i].table]
    <3>1. handlers' = handlers \cup {h0}
      BY <2>2 DEF AdmitCall
    <3>2. h0 \in Handler /\ h0.table = round[i].table
      BY <1>2, <1>3 DEF Handler, Round, Awaits
    <3> HIDE DEF h0
    <3> QED
      BY <3>1, <3>2, <1>2
  <2> QED
    BY <1>3, <2>1, <2>2
<1> HIDE DEF r
<1> QED
  BY <1>2, <1>3, <1>4, <1>5, RoundStepKeepsIInv DEF r

\* A round that resumes after an await keeps the invariant.
LEMMA ResumeKeepsIInv ==
  ASSUME IInv, NEW i \in Id, Resume(i)
  PROVE  IInv'
<1>1. TypeOK /\ CallsAwaited /\ OnlyRequestedLeases /\ CarriedRequested
  BY DEF IInv
<1> DEFINE n == IF round[i].call = "failed" THEN round[i]
                ELSE [round[i] EXCEPT !.replys = @ + 1,
                        !.promises = IF round[i].phase = "prepare"
                                     THEN @ \cup {round[i].answer} ELSE @]
<1>2. /\ round[i] \in Round /\ round[i].phase \in {"prepare", "accept"}
      /\ i[1] \in LM /\ highestPrepare[i[1]] \in Nat /\ leasesTable[i[1]] \in Table
      /\ OnlyRequested(leasesTable[i[1]]) /\ OnlyRequested(round[i].table)
      /\ OnlyRequested(round[i].answer)
      /\ \A C \in round[i].promises : OnlyRequested(C)
  BY <1>1 DEF TypeOK, CallsAwaited, Awaits, OnlyRequestedLeases, CarriedRequested, Resume, Id
<1>3. n \in Round /\ n.phase = round[i].phase /\ n.table = round[i].table
  <2> DEFINE P == IF round[i].phase = "prepare"
                  THEN round[i].promises \cup {round[i].answer} ELSE round[i].promises
  <2>1. n = IF round[i].call = "failed" THEN round[i]
            ELSE [round[i] EXCEPT !.replys = round[i].replys + 1, !.promises = P]
    OBVIOUS
  <2>2. P \in SUBSET Table /\ round[i].replys + 1 \in Nat
    BY <1>2 DEF Round
  <2> HIDE DEF P, n
  <2>3. CASE round[i].call = "failed"
    BY <2>1, <2>3, <1>2
  <2>4. CASE round[i].call # "failed"
    BY <2>1, <2>2, <2>4, <1>2 DEF Round
  <2> QED
    BY <2>3, <2>4
<1>4. \A C \in n.promises : OnlyRequested(C)
  BY <1>2 DEF Round
<1>5. /\ Proceed(i[1], i, n, highestPrepare[i[1]], leasesTable[i[1]])
      /\ UNCHANGED <<currentTimeslot, currentLeader, highestPrepare, handlers, acked>>
  BY DEF Resume
<1>6. /\ currentTimeslot' \in [LM -> Slot] /\ currentLeader' \in [LM -> 0..(N - 1)]
      /\ highestPrepare' \in [LM -> Nat]
  BY <1>1, <1>5 DEF TypeOK
<1> HIDE DEF n
<1> QED
  BY <1>2, <1>3, <1>4, <1>5, <1>6, ProceedKeepsIInv

\* The rotation of the leader stays within the ids.
LEMMA NextLeaderType ==
  ASSUME NEW c \in 0..(N - 1)
  PROVE  NextLeader(c) \in 0..(N - 1)
  BY SizeAssumption DEF NextLeader

\* The timer event keeps the invariant, whether it starts a round or not.
LEMMA PaxosEventKeepsIInv ==
  ASSUME IInv, NEW l \in LM, PaxosEvent(l)
  PROVE  IInv'
<1>1. TypeOK /\ CallsAwaited /\ OnlyRequestedLeases /\ CarriedRequested
  BY DEF IInv
<1> DEFINE s  == currentTimeslot[l]
           i  == <<l, s>>
           hp == highestPrepare[l] + 1
           id == IF iAmLeader(l) THEN hp ELSE hp + 1
<1>2. /\ s \in Slot /\ s <= MaxSlot /\ i \in Id
      /\ hp \in Nat /\ id \in Nat /\ highestPrepare[l] \in Nat
      /\ leasesTable[l] \in Table /\ OnlyRequested(leasesTable[l])
  BY <1>1 DEF TypeOK, PaxosEvent, Slot, Id, OnlyRequestedLeases
<1>3. /\ currentTimeslot' \in [LM -> Slot] /\ currentLeader' \in [LM -> 0..(N - 1)]
      /\ UNCHANGED <<handlers, acked>>
  <2>1. currentTimeslot' = [currentTimeslot EXCEPT ![l] = s + 1]
        /\ currentLeader' = [currentLeader EXCEPT ![l] = NextLeader(@)]
        /\ UNCHANGED <<handlers, acked>>
    BY DEF PaxosEvent
  <2>2. s + 1 \in Slot
    BY <1>2, SizeAssumption DEF Slot
  <2> QED
    BY <1>1, <2>1, <2>2, NextLeaderType DEF TypeOK
<1>4. EmptyTable \in Table /\ OnlyRequested(EmptyTable) /\ NoRound \in Round
      /\ NoRound.promises = {} /\ NoRound.table = EmptyTable
      /\ NoRound.answer = EmptyTable /\ NoRound.call = "none"
  BY EmptyRequested, NoRoundType DEF NoRound
<1>5. CASE UNCHANGED <<highestPrepare, leasesTable, lastConsensus, aliased,
                       lastPropCall, round, decided>>
  <2>1. TypeOK'
    BY <1>1, <1>3, <1>5 DEF TypeOK
  <2>2. CallsAwaited'
    BY <1>1, <1>5 DEF CallsAwaited
  <2>3. OnlyRequestedLeases'
    BY <1>1, <1>3, <1>5 DEF OnlyRequestedLeases, OnlyRequested, Requested
  <2>4. CarriedRequested'
    BY <1>1, <1>3, <1>5 DEF CarriedRequested, OnlyRequested, Requested
  <2> QED
    BY <2>1, <2>2, <2>3, <2>4 DEF IInv
<1>6. CASE /\ Proceed(l, i, [NoRound EXCEPT !.phase = "accept"],
                      highestPrepare[l], leasesTable[l])
           /\ UNCHANGED highestPrepare
  <2> DEFINE r == [NoRound EXCEPT !.phase = "accept"]
  <2>1. r \in Round /\ r.phase = "accept" /\ r.table = EmptyTable /\ r.promises = {}
    BY <1>4 DEF Round, NoRound
  <2>2. highestPrepare' \in [LM -> Nat]
    BY <1>1, <1>6 DEF TypeOK
  <2> HIDE DEF r, i
  <2> QED
    BY <1>2, <1>3, <1>4, <1>6, <2>1, <2>2, ProceedKeepsIInv DEF r
<1>7. ASSUME highestPrepare' = [highestPrepare EXCEPT ![l] = hp],
             NEW rm \in Removals(l)
      PROVE  /\ /\ rm.throws
                /\ round' = [round EXCEPT ![i] = [NoRound EXCEPT !.phase = "dropped"]]
                /\ leasesTable' = [leasesTable EXCEPT ![l] = rm.table]
                /\ UNCHANGED <<lastConsensus, aliased, lastPropCall, decided>>
                => IInv'
             /\ Proceed(l, i, [NoRound EXCEPT !.phase = "prepare", !.id = id],
                        hp, rm.table)
                => IInv'
  <2>1. rm.table \in Table /\ OnlyRequested(rm.table)
    BY <1>1, <1>2, RemovalsShrink DEF OnlyRequested
  <2>2. highestPrepare' \in [LM -> Nat]
    BY <1>1, <1>2, <1>7 DEF TypeOK
  <2>3. ASSUME round' = [round EXCEPT ![i] = [NoRound EXCEPT !.phase = "dropped"]],
               leasesTable' = [leasesTable EXCEPT ![l] = rm.table],
               UNCHANGED <<lastConsensus, aliased, lastPropCall, decided>>
        PROVE  IInv'
    <3> DEFINE r == [NoRound EXCEPT !.phase = "dropped"]
    <3>1. r \in Round /\ r.table = EmptyTable /\ r.promises = {}
          /\ r.answer = EmptyTable /\ r.call = "none"
      BY <1>4 DEF Round, NoRound
    <3> HIDE DEF i
    <3>2. \A j \in Id : round'[j] = IF j = i THEN r ELSE round[j]
      BY <1>1, <2>3 DEF TypeOK
    <3> HIDE DEF r
    <3>3. TypeOK'
      <4>1. round' \in [Id -> Round] /\ leasesTable' \in [LM -> Table]
        BY <1>1, <2>1, <2>3, <3>1 DEF TypeOK, r
      <4> QED
        BY <1>1, <1>3, <2>2, <2>3, <4>1 DEF TypeOK
    <3>4. CallsAwaited'
      BY <1>1, <3>1, <3>2 DEF CallsAwaited, Awaits
    <3>5. OnlyRequestedLeases'
      <4>1. \A m \in LM : leasesTable'[m] \in {rm.table, leasesTable[m]}
        BY <1>1, <2>3 DEF TypeOK
      <4>2. \A m \in LM : OnlyRequested(leasesTable'[m])
        BY <1>1, <2>1, <4>1 DEF OnlyRequestedLeases
      <4> QED
        BY <1>1, <1>3, <2>3, <4>2 DEF OnlyRequestedLeases, OnlyRequested, Requested
    <3>6. CarriedRequested'
      <4>1. \A j \in Id : /\ OnlyRequested(round'[j].table)
                          /\ OnlyRequested(round'[j].answer)
                          /\ \A C \in round'[j].promises : OnlyRequested(C)
        BY <1>1, <1>4, <3>1, <3>2 DEF CarriedRequested
      <4> QED
        BY <1>1, <1>3, <4>1 DEF CarriedRequested, OnlyRequested, Requested
    <3> QED
      BY <3>3, <3>4, <3>5, <3>6 DEF IInv
  <2>4. ASSUME Proceed(l, i, [NoRound EXCEPT !.phase = "prepare", !.id = id],
                       hp, rm.table)
        PROVE  IInv'
    <3> DEFINE r == [NoRound EXCEPT !.phase = "prepare", !.id = id]
    <3> HIDE DEF i, id, hp
    <3>1. r \in Round /\ r.phase = "prepare" /\ r.table = EmptyTable /\ r.promises = {}
      BY <1>2, <1>4 DEF Round, NoRound
    <3> HIDE DEF r
    <3> QED
      BY <1>2, <1>3, <1>4, <2>1, <2>2, <2>4, <3>1, ProceedKeepsIInv DEF r
  <2> QED
    BY <2>3, <2>4
<1> QED
  BY <1>5, <1>6, <1>7 DEF PaxosEvent

\* The end of a handler: it takes h away, answers round h.round with table t,
\* and leaves table T at the LM it ran on.
HandlerEnds(h, t, T, call, by) ==
  /\ OnlyRequested(t) /\ OnlyRequested(T)
  /\ Answer(h, call, t, by)
  /\ handlers' = handlers \ {h}
  /\ leasesTable' = [leasesTable EXCEPT ![h.at] = T]
  /\ highestPrepare' \in [LM -> Nat]
  /\ lastConsensus' \in [LM -> Table]
  /\ aliased' \in [LM -> BOOLEAN]
  /\ \A m \in LM : OnlyRequested(lastConsensus'[m])
  /\ UNCHANGED <<currentTimeslot, currentLeader, lastPropCall, acked, decided>>

\* The end of a handler keeps the invariant if it leaves requested leases only.
LEMMA HandlerStepKeepsIInv ==
  ASSUME IInv, NEW h \in handlers, NEW t \in Table, NEW T \in Table,
         NEW call \in {"replied", "failed"}, NEW by \in SUBSET LM,
         HandlerEnds(h, t, T, call, by)
  PROVE  IInv'
<1>0. /\ OnlyRequested(t) /\ OnlyRequested(T)
      /\ Answer(h, call, t, by)
      /\ handlers' = handlers \ {h}
      /\ leasesTable' = [leasesTable EXCEPT ![h.at] = T]
      /\ highestPrepare' \in [LM -> Nat]
      /\ lastConsensus' \in [LM -> Table]
      /\ aliased' \in [LM -> BOOLEAN]
      /\ \A m \in LM : OnlyRequested(lastConsensus'[m])
      /\ UNCHANGED <<currentTimeslot, currentLeader, lastPropCall, acked, decided>>
  BY DEF HandlerEnds
<1>1. TypeOK /\ CallsAwaited /\ OnlyRequestedLeases /\ CarriedRequested
  BY DEF IInv
<1>2. h \in Handler /\ h.round \in Id /\ h.at \in LM /\ round[h.round] \in Round
      /\ handlers' \subseteq Handler
  BY <1>0, <1>1 DEF TypeOK, Handler
<1> DEFINE r0 == round[h.round]
           r == [r0 EXCEPT !.call = IF Awaited(h) THEN call ELSE @,
                           !.answer = IF Awaited(h) THEN t ELSE @,
                           !.accepted = @ \cup by]
<1>3. round' = [round EXCEPT ![h.round] = r]
  <2>1. round' = [round EXCEPT ![h.round] =
                    [round[h.round] EXCEPT
                       !.call = IF Awaited(h) THEN call ELSE round[h.round].call,
                       !.answer = IF Awaited(h) THEN t ELSE round[h.round].answer,
                       !.accepted = round[h.round].accepted \cup by]]
    BY <1>0 DEF Answer
  <2> QED
    BY <2>1
<1>4. /\ r0 \in Round /\ Awaits(r0)
      /\ OnlyRequested(r0.table) /\ OnlyRequested(r0.answer)
      /\ \A C \in r0.promises : OnlyRequested(C)
      /\ Awaited(h) => r0.call # "none"
  BY <1>0, <1>1, <1>2 DEF CallsAwaited, CarriedRequested, Awaited
<1>5. /\ r \in Round /\ Awaits(r) /\ OnlyRequested(r.table) /\ OnlyRequested(r.answer)
      /\ \A C \in r.promises : OnlyRequested(C)
  <2> DEFINE A == r0.accepted \cup by
  <2>1. A \in SUBSET LM
    BY <1>4 DEF Round
  <2> HIDE DEF A, r0
  <2>2. CASE Awaited(h)
    <3>1. r = [r0 EXCEPT !.call = call, !.answer = t, !.accepted = A]
      BY <2>2 DEF A
    <3> HIDE DEF r
    <3>2. r \in Round
      BY <3>1, <2>1, <1>4 DEF Round
    <3>3. /\ r.answer = t /\ r.table = r0.table /\ r.promises = r0.promises
          /\ r.phase = r0.phase /\ r.peer = r0.peer
      BY <3>1, <1>4 DEF Round
    <3>4. Awaits(r)
      BY <1>4, <2>2, <3>3 DEF Awaits
    <3> QED
      BY <1>0, <1>4, <2>2, <3>2, <3>3, <3>4
  <2>3. CASE ~Awaited(h)
    <3>1. r = [r0 EXCEPT !.call = r0.call, !.answer = r0.answer, !.accepted = A]
      BY <2>3 DEF A
    <3> HIDE DEF r
    <3>2. r \in Round
      BY <3>1, <2>1, <1>4 DEF Round
    <3>3. /\ r.answer = r0.answer /\ r.table = r0.table /\ r.promises = r0.promises
          /\ r.phase = r0.phase /\ r.peer = r0.peer /\ r.call = r0.call
      BY <3>1, <1>4 DEF Round
    <3>4. Awaits(r)
      BY <1>4, <3>3 DEF Awaits
    <3> QED
      BY <1>4, <3>2, <3>3, <3>4
  <2> QED
    BY <2>2, <2>3
<1> HIDE DEF r, r0
<1>6. \A j \in Id : round'[j] = IF j = h.round THEN r ELSE round[j]
  BY <1>0, <1>1, <1>3 DEF TypeOK
<1>7. TypeOK'
  <2>1. round' \in [Id -> Round] /\ leasesTable' \in [LM -> Table]
    BY <1>0, <1>1, <1>2, <1>3, <1>5 DEF TypeOK
  <2> QED
    BY <1>0, <1>1, <1>2, <2>1 DEF TypeOK
<1>8. CallsAwaited'
  BY <1>0, <1>1, <1>5, <1>6 DEF CallsAwaited, Awaits
<1>9. OnlyRequestedLeases'
  <2>1. \A m \in LM : leasesTable'[m] \in {T, leasesTable[m]}
    BY <1>0, <1>1 DEF TypeOK
  <2>2. \A m \in LM : OnlyRequested(leasesTable'[m])
    BY <1>0, <1>1, <2>1 DEF OnlyRequestedLeases
  <2> QED
    BY <1>0, <1>1, <2>2 DEF OnlyRequestedLeases, OnlyRequested, Requested
<1>10. CarriedRequested'
  <2>1. \A j \in Id : /\ OnlyRequested(round'[j].table)
                      /\ OnlyRequested(round'[j].answer)
                      /\ \A C \in round'[j].promises : OnlyRequested(C)
    BY <1>0, <1>1, <1>5, <1>6 DEF CarriedRequested
  <2>2. \A g \in handlers' : OnlyRequested(g.table)
    BY <1>0, <1>1 DEF CarriedRequested
  <2> QED
    BY <1>0, <2>1, <2>2 DEF CarriedRequested, OnlyRequested, Requested
<1> QED
  BY <1>7, <1>8, <1>9, <1>10 DEF IInv

\* The handler of a prepare request is such a handler.
LEMMA PrepareStepKeepsIInv ==
  ASSUME IInv, NEW h \in handlers, PrepareStep(h)
  PROVE  IInv'
<1>1. TypeOK /\ OnlyRequestedLeases
  BY DEF IInv
<1>2. h.at \in LM /\ h.id \in Nat
  BY <1>1 DEF TypeOK, Handler
<1>3. PICK rm \in Removals(h.at) :
        /\ leasesTable' = [leasesTable EXCEPT ![h.at] = rm.table]
        /\ \/ /\ Answer(h, "failed", EmptyTable, {})
              /\ UNCHANGED highestPrepare
           \/ /\ Answer(h, "replied", rm.table, {})
              /\ highestPrepare' = [highestPrepare EXCEPT ![h.at] = h.id]
  BY DEF PrepareStep
<1>4. /\ handlers' = handlers \ {h}
      /\ UNCHANGED <<currentTimeslot, currentLeader, lastPropCall, acked, decided>>
      /\ UNCHANGED <<lastConsensus, aliased>>
  BY DEF PrepareStep
<1>5. rm.table \in Table /\ OnlyRequested(rm.table)
  BY <1>1, <1>2, RemovalsShrink DEF OnlyRequested, OnlyRequestedLeases
<1>6. /\ highestPrepare' \in [LM -> Nat] /\ lastConsensus' \in [LM -> Table]
      /\ aliased' \in [LM -> BOOLEAN]
      /\ \A m \in LM : OnlyRequested(lastConsensus'[m])
  BY <1>1, <1>2, <1>3, <1>4 DEF TypeOK, OnlyRequestedLeases
<1>7. PICK t \in Table, call \in {"replied", "failed"} :
        OnlyRequested(t) /\ Answer(h, call, t, {})
  BY <1>3, <1>5, EmptyRequested
<1>8. HandlerEnds(h, t, rm.table, call, {})
  BY <1>3, <1>4, <1>5, <1>6, <1>7 DEF HandlerEnds
<1> QED
  BY <1>5, <1>7, <1>8, HandlerStepKeepsIInv

\* So is the handler of an accept request.
LEMMA AcceptStepKeepsIInv ==
  ASSUME IInv, NEW h \in handlers, AcceptStep(h)
  PROVE  IInv'
<1>1. TypeOK /\ OnlyRequestedLeases /\ CarriedRequested
  BY DEF IInv
<1> DEFINE T == Merge(leasesTable[h.at], h.table)
<1>2. h.at \in LM /\ h.table \in Table /\ OnlyRequested(h.table)
  BY <1>1 DEF TypeOK, Handler, CarriedRequested
<1>3. T \in Table /\ OnlyRequested(T)
  <2>1. leasesTable[h.at] \in Table /\ OnlyRequested(leasesTable[h.at])
    BY <1>1, <1>2 DEF TypeOK, OnlyRequestedLeases
  <2> QED
    BY <1>2, <2>1, TableOperators DEF OnlyRequested
<1>4. /\ handlers' = handlers \ {h}
      /\ lastConsensus' = [lastConsensus EXCEPT ![h.at] = h.table]
      /\ aliased' = [aliased EXCEPT ![h.at] = FALSE]
      /\ leasesTable' = [leasesTable EXCEPT ![h.at] = T]
      /\ Answer(h, "replied", EmptyTable, {h.at})
      /\ UNCHANGED <<currentTimeslot, currentLeader, highestPrepare, lastPropCall,
                     acked, decided>>
  BY DEF AcceptStep
<1>5. aliased' \in [LM -> BOOLEAN]
  <2>1. aliased \in [LM -> BOOLEAN]
    BY <1>1 DEF TypeOK
  <2> QED
    BY <1>4, <2>1, Zenon
<1>6. highestPrepare' \in [LM -> Nat] /\ lastConsensus' \in [LM -> Table]
  BY <1>1, <1>2, <1>4 DEF TypeOK
<1>7. \A m \in LM : OnlyRequested(lastConsensus'[m])
  <2>1. \A m \in LM : lastConsensus'[m] \in {h.table, lastConsensus[m]}
    BY <1>1, <1>4 DEF TypeOK
  <2> QED
    BY <1>1, <1>2, <2>1 DEF OnlyRequestedLeases
<1> HIDE DEF T
<1>8. HandlerEnds(h, EmptyTable, T, "replied", {h.at})
  BY <1>3, <1>4, <1>5, <1>6, <1>7, EmptyRequested DEF HandlerEnds
<1> QED
  BY <1>2, <1>3, <1>8, EmptyRequested, HandlerStepKeepsIInv

\* A request of a TM enters leases that are acknowledged in the same step.
LEMMA RequestLeaseKeepsIInv ==
  ASSUME IInv, NEW l \in LM, NEW tm \in TM, NEW ks \in SUBSET Key, RequestLease(l, tm, ks)
  PROVE  IInv'
<1> DEFINE Add(T) == [k \in Key |-> IF k \in ks THEN [T[k] EXCEPT ![tm] = @ + 1] ELSE T[k]]
<1>1. TypeOK /\ CallsAwaited /\ OnlyRequestedLeases /\ CarriedRequested
  BY DEF IInv
<1>2. /\ leasesTable' = [leasesTable EXCEPT ![l] = Add(@)]
      /\ acked' = [acked EXCEPT ![l] = Add(@)]
      /\ UNCHANGED <<currentTimeslot, currentLeader, highestPrepare, lastConsensus,
                     aliased, lastPropCall, round, handlers, decided>>
  BY DEF RequestLease
<1>3. leasesTable[l] \in Table /\ acked[l] \in Table
  BY <1>1 DEF TypeOK
<1>4. ASSUME NEW T \in Table
      PROVE  /\ Add(T) \in Table
             /\ \A k \in Key, m \in TM :
                  /\ Holds(T, k, m) => Holds(Add(T), k, m)
                  /\ Holds(Add(T), k, m) => Holds(T, k, m) \/ (k \in ks /\ m = tm)
                  /\ k \in ks => Holds(Add(T), k, tm)
  BY DEF Table, Holds
<1>5. \A k \in Key, m \in TM : /\ Requested(k, m) => Requested(k, m)'
                               /\ k \in ks => Requested(k, tm)'
  <2>1. \A j \in LM : acked'[j] = IF j = l THEN Add(acked[l]) ELSE acked[j]
    BY <1>1, <1>2 DEF TypeOK
  <2> HIDE DEF Add
  <2> QED
    BY <1>3, <1>4, <2>1 DEF Requested
<1>6. ASSUME NEW T, OnlyRequested(T)
      PROVE  OnlyRequested(T)'
  BY <1>5, <1>6 DEF OnlyRequested
<1> HIDE DEF Add
<1>7. TypeOK'
  <2>1. leasesTable' \in [LM -> Table] /\ acked' \in [LM -> Table]
    BY <1>1, <1>2, <1>3, <1>4 DEF TypeOK
  <2> QED
    BY <1>1, <1>2, <2>1 DEF TypeOK
<1>8. CallsAwaited'
  BY <1>1, <1>2 DEF CallsAwaited
<1>9. OnlyRequestedLeases'
  <2>1. \A j \in LM : leasesTable'[j] = IF j = l THEN Add(leasesTable[l]) ELSE leasesTable[j]
    BY <1>1, <1>2 DEF TypeOK
  <2>2. \A k \in Key, m \in TM : Holds(Add(leasesTable[l]), k, m) => Requested(k, m)'
    BY <1>1, <1>3, <1>4, <1>5 DEF OnlyRequestedLeases, OnlyRequested
  <2>3. \A j \in LM, k \in Key, m \in TM : Holds(leasesTable'[j], k, m) => Requested(k, m)'
    BY <1>1, <1>5, <2>1, <2>2 DEF OnlyRequestedLeases, OnlyRequested
  <2>4. \A j \in LM, k \in Key, m \in TM : Holds(lastConsensus'[j], k, m) => Requested(k, m)'
    BY <1>1, <1>2, <1>5 DEF OnlyRequestedLeases, OnlyRequested
  <2>5. \A i \in Id, k \in Key, m \in TM : Holds(decided'[i], k, m) => Requested(k, m)'
    BY <1>1, <1>2, <1>5 DEF OnlyRequestedLeases, OnlyRequested
  <2> QED
    BY <2>3, <2>4, <2>5 DEF OnlyRequestedLeases, OnlyRequested
<1>10. CarriedRequested'
  BY <1>1, <1>2, <1>5 DEF CarriedRequested, OnlyRequested
<1> QED
  BY <1>7, <1>8, <1>9, <1>10 DEF IInv

\* The invariant is inductive.
LEMMA NextIInv == IInv /\ [Next]_vars => IInv'
<1> SUFFICES ASSUME IInv, [Next]_vars PROVE IInv'
  OBVIOUS
<1>1. CASE \E l \in LM : PaxosEvent(l)
  BY <1>1, PaxosEventKeepsIInv
<1>2. CASE \E i \in Id : Resume(i) \/ CallFails(i) \/ RefuseCall(i) \/ AdmitCall(i)
  BY <1>2, ResumeKeepsIInv, CallStepsKeepIInv
<1>3. CASE \E h \in handlers : PrepareStep(h) \/ AcceptStep(h)
  BY <1>3, PrepareStepKeepsIInv, AcceptStepKeepsIInv
<1>4. CASE \E l \in LM, tm \in TM, ks \in (SUBSET Key) \ {{}} : RequestLease(l, tm, ks)
  BY <1>4, RequestLeaseKeepsIInv
<1>5. CASE UNCHANGED vars
  <2>1. UNCHANGED <<currentTimeslot, currentLeader, highestPrepare, leasesTable,
                    lastConsensus, aliased, lastPropCall, round, handlers, acked, decided>>
    BY <1>5 DEF vars, lmVars
  <2> QED
    BY <2>1 DEF IInv, TypeOK, CallsAwaited, OnlyRequestedLeases, CarriedRequested,
                OnlyRequested, Requested
<1> QED
  BY <1>1, <1>2, <1>3, <1>4, <1>5 DEF Next

\* The variables keep their types in every run of every instance.
THEOREM TypeCorrect == Spec => []TypeOK
<1>1. IInv => TypeOK
  BY DEF IInv
<1> QED
  BY <1>1, InitIInv, NextIInv, PTL DEF Spec

\* No LM of any instance queues, accepts or decides a lease for a TM that no
\* LM acknowledged a request of.
THEOREM Validity == Spec => []OnlyRequestedLeases
<1>1. IInv => OnlyRequestedLeases
  BY DEF IInv
<1> QED
  BY <1>1, InitIInv, NextIInv, PTL DEF Spec

-----------------------------------------------------------------------------
(* The rotation of the leader.                                             *)

\* An LM's leader is its timeslot's remainder, in the number of LMs.
LeaderFollowsSlot ==
  \A l \in LM : \E q \in Nat : currentTimeslot[l] - 1 = q * N + currentLeader[l]

\* A number has one remainder.
LEMMA OneRemainder ==
  ASSUME NEW n \in Nat \ {0}, NEW q1 \in Nat, NEW q2 \in Nat,
         NEW c1 \in 0..(n - 1), NEW c2 \in 0..(n - 1),
         q1 * n + c1 = q2 * n + c2
  PROVE  c1 = c2
<1>1. ASSUME NEW a \in Nat, NEW b \in Nat, a < b
      PROVE  a * n + n <= b * n
  <2>1. PICK d \in Nat : b = a + 1 + d
    <3>1. b - a - 1 \in Nat /\ b = a + 1 + (b - a - 1)
      BY <1>1
    <3> QED
      BY <3>1
  <2>2. (a + 1 + d) * n = a * n + n + d * n
    OBVIOUS
  <2>3. d * n \in Nat
    OBVIOUS
  <2> QED
    BY <2>1, <2>2, <2>3
<1>2. q1 * n \in Nat /\ q2 * n \in Nat
  OBVIOUS
<1>3. CASE q1 < q2
  BY <1>1, <1>2, <1>3
<1>4. CASE q2 < q1
  BY <1>1, <1>2, <1>4
<1>5. CASE q1 = q2
  BY <1>2, <1>5
<1> QED
  BY <1>3, <1>4, <1>5

\* Counting slots and rotating the leader stay in step: the leader's position is
\* the slot modulo the number of LMs.
LEMMA NextLeaderFollows ==
  ASSUME TypeOK, LeaderFollowsSlot, [Next]_vars
  PROVE  LeaderFollowsSlot'
<1>1. CASE UNCHANGED <<currentTimeslot, currentLeader>>
  BY <1>1 DEF LeaderFollowsSlot
<1>2. ASSUME NEW l \in LM, PaxosEvent(l)
      PROVE  LeaderFollowsSlot'
  <2>1. /\ currentTimeslot' = [currentTimeslot EXCEPT ![l] = currentTimeslot[l] + 1]
        /\ currentLeader' = [currentLeader EXCEPT ![l] = NextLeader(currentLeader[l])]
    BY <1>2 DEF PaxosEvent
  <2> SUFFICES ASSUME NEW m \in LM
               PROVE  \E q \in Nat : currentTimeslot'[m] - 1 = q * N + currentLeader'[m]
    BY DEF LeaderFollowsSlot
  <2>2. PICK q \in Nat : currentTimeslot[m] - 1 = q * N + currentLeader[m]
    BY DEF LeaderFollowsSlot
  <2>3. currentTimeslot[m] \in Nat /\ currentLeader[m] \in 0..(N - 1)
    BY DEF TypeOK, Slot
  <2>4. CASE m # l
    BY <2>1, <2>2, <2>4 DEF TypeOK
  <2>5. CASE m = l
    <3>1. /\ currentTimeslot'[m] = currentTimeslot[m] + 1
          /\ currentLeader'[m] = NextLeader(currentLeader[m])
      BY <2>1, <2>5 DEF TypeOK
    <3>2. q * N \in Nat /\ (q + 1) * N = q * N + N /\ N \in Nat
      BY SizeAssumption
    <3>3. CASE currentLeader[m] + 1 >= N
      <4>1. currentLeader'[m] = 0 /\ currentLeader[m] = N - 1
        BY <2>3, <3>1, <3>2, <3>3 DEF NextLeader
      <4>2. currentTimeslot'[m] - 1 = (q + 1) * N + currentLeader'[m]
        BY <2>2, <2>3, <3>1, <3>2, <4>1
      <4> QED
        BY <4>2
    <3>4. CASE ~(currentLeader[m] + 1 >= N)
      <4>1. currentLeader'[m] = currentLeader[m] + 1
        BY <3>1, <3>4 DEF NextLeader
      <4>2. currentTimeslot'[m] - 1 = q * N + currentLeader'[m]
        BY <2>2, <2>3, <3>1, <3>2, <4>1
      <4> QED
        BY <4>2
    <3> QED
      BY <3>3, <3>4
  <2> QED
    BY <2>4, <2>5
<1>3. CASE \E i \in Id : Resume(i) \/ CallFails(i) \/ RefuseCall(i) \/ AdmitCall(i)
  <2>1. UNCHANGED <<currentTimeslot, currentLeader>>
    BY <1>3 DEF Resume, CallFails, RefuseCall, AdmitCall, lmVars
  <2> QED
    BY <1>1, <2>1
<1>4. CASE \E h \in handlers : PrepareStep(h) \/ AcceptStep(h)
  <2>1. UNCHANGED <<currentTimeslot, currentLeader>>
    BY <1>4 DEF PrepareStep, AcceptStep
  <2> QED
    BY <1>1, <2>1
<1>5. CASE \E l \in LM, tm \in TM, ks \in (SUBSET Key) \ {{}} : RequestLease(l, tm, ks)
  <2>1. UNCHANGED <<currentTimeslot, currentLeader>>
    BY <1>5 DEF RequestLease
  <2> QED
    BY <1>1, <2>1
<1>6. CASE UNCHANGED vars
  BY <1>1, <1>6 DEF vars, lmVars
<1> QED
  BY <1>2, <1>3, <1>4, <1>5, <1>6 DEF Next

\* However many LMs there are and however far their timers drift apart, no
\* two of them lead the same timeslot.
THEOREM OneLeader == Spec => []OneLeaderPerTimeslot
<1>1. Init => LeaderFollowsSlot
  <2>1. 0 * N = 0
    BY SizeAssumption
  <2> QED
    BY <2>1 DEF Init, LeaderFollowsSlot
<1>2. TypeOK /\ LeaderFollowsSlot => OneLeaderPerTimeslot
  <2> SUFFICES ASSUME TypeOK, LeaderFollowsSlot, NEW l1 \in LM, NEW l2 \in LM,
                      currentTimeslot[l1] = currentTimeslot[l2],
                      iAmLeader(l1), iAmLeader(l2)
               PROVE  l1 = l2
    BY DEF OneLeaderPerTimeslot
  <2>1. PICK q1 \in Nat : currentTimeslot[l1] - 1 = q1 * N + currentLeader[l1]
    BY DEF LeaderFollowsSlot
  <2>2. PICK q2 \in Nat : currentTimeslot[l2] - 1 = q2 * N + currentLeader[l2]
    BY DEF LeaderFollowsSlot
  <2>3. currentLeader[l1] \in 0..(N - 1) /\ currentLeader[l2] \in 0..(N - 1)
    BY DEF TypeOK
  <2>4. q1 * N + currentLeader[l1] = q2 * N + currentLeader[l2]
    BY <2>1, <2>2
  <2>5. currentLeader[l1] = currentLeader[l2]
    BY <2>3, <2>4, OneRemainder, SizeAssumption
  <2> QED
    BY <2>3, <2>5 DEF iAmLeader, LM
<1> QED
  BY <1>1, <1>2, TypeCorrect, NextLeaderFollows, PTL DEF Spec
=============================================================================
