---------------------------- MODULE LeaseManager ----------------------------
(***************************************************************************)
(* The lease managers (LMs) of DADTKV: they collect the lease requests of  *)
(* the transaction managers (TMs) and, once per timeslot, run a Paxos-like *)
(* round that is to fix the order in which the TMs hold each lease.        *)
(*                                                                         *)
(* A round is an async method: it runs up to an await, gives the thread    *)
(* back, and resumes when the reply or the 5 s deadline comes.  Between    *)
(* two awaits anything may happen at the same LM: requests, the next       *)
(* timeslot, the rounds of other LMs.  So a round is a sequence of steps   *)
(* here: start, server handler past its guard, handler done, resume.       *)
(*                                                                         *)
(* A lease table keeps, for a lease, the queue of TMs that want it.  It is *)
(* modelled by how often each TM stands in the queue: no property below    *)
(* depends on the positions, and the one place where the code takes the    *)
(* head of a queue (RemoveLastConsensus on an aliased table) is a choice.  *)
(***************************************************************************)
EXTENDS Integers, Sequences, FiniteSets

CONSTANTS
  N,             \* number of lease managers; their sorted ids are 1..N
  TM,            \* the transaction managers
  Key,           \* the DadInt keys, which name the leases
  MaxSlot,       \* bound: no LM starts a round after this timeslot
  MaxRequests,   \* bound: requests of one TM that one LM acknowledges
  Crashed,       \* Crashed[s]: the LMs configured as crashed in timeslot s
  Suspects,      \* Suspects[l][s]: the LMs that l suspects in timeslot s
  MayFail,       \* the calls <<round, callee>> that may end without a reply
  MaxSkew,       \* bound: timeslots that an LM's timer is ahead of another's
  RoundsOverlap  \* FALSE: every round ends before the next timeslot begins

LM   == 1..N
Slot == 1..(MaxSlot + 1)

ASSUME SizeAssumption == /\ N \in Nat \ {0}
                         /\ MaxSlot \in Nat \ {0}
                         /\ MaxRequests \in Nat \ {0}
                         /\ MaxSkew \in Nat \ {0}
                         /\ RoundsOverlap \in BOOLEAN
ASSUME ConfigAssumption == /\ Crashed \in [Slot -> SUBSET LM]
                           /\ Suspects \in [LM -> [Slot -> SUBSET LM]]
                           /\ \A l \in LM, s \in Slot : l \notin Suspects[l][s]
                           /\ MayFail \subseteq (LM \X (1..MaxSlot)) \X LM

VARIABLES
  currentTimeslot,  \* per LM: its own timeslot counter
  currentLeader,    \* per LM: position, in the sorted ids, of the leader
  highestPrepare,   \* per LM: the highest proposal it prepared or promised
  leasesTable,      \* per LM: the requests to put into the next proposal
  lastConsensus,    \* per LM: the last table it accepted (empty for null)
  aliased,          \* per LM: lastConsensus is the object leasesTable itself
  lastPropCall,     \* per LM: the TMs it has sent a decided table to
  round,            \* per LM and timeslot: the round the LM started there
  handlers,         \* server handlers past their guard, not yet done
  acked,            \* history, per LM: how often it acknowledged each request
  decided           \* history: the table each round decided

lmVars == <<currentTimeslot, currentLeader, highestPrepare, leasesTable,
            lastConsensus, aliased, lastPropCall>>
vars   == <<lmVars, round, handlers, acked, decided>>

Table      == [Key -> [TM -> Nat]]
EmptyTable == [k \in Key |-> [tm \in TM |-> 0]]
Holds(T, k, tm) == T[k][tm] > 0

Id == LM \X (1..MaxSlot)     \* a round is named by its LM and its timeslot

Round == [phase    : {"none", "prepare", "accept", "dropped", "decided"},
          peer     : 0..N,             \* the LM whose reply is awaited
          call     : {"none", "sent", "admitted", "replied", "failed"},
          id       : Nat,              \* RequestId of that call
          table    : Table,            \* LeaseTable of that call
          answer   : Table,            \* LeaseTable of its reply
          promises : SUBSET Table,     \* the tables of the replies to prepare
          replys   : Nat,              \* replies counted in this phase
          accepted : SUBSET LM]        \* history: LMs that took its table

Handler == [round : Id, at : LM, kind : {"prepare", "accept"},
            id : Nat, table : Table]

NoRound == [phase |-> "none", peer |-> 0, call |-> "none", id |-> 0,
            table |-> EmptyTable, answer |-> EmptyTable,
            promises |-> {}, replys |-> 0, accepted |-> {}]

-----------------------------------------------------------------------------
(* Helpers of LMServerState. *)

susLeader(l) == currentLeader[l] + 1 \in Suspects[l][currentTimeslot[l]]
MutantReplacementLeads(l) == currentLeader[l] + 1 = l \/ susLeader(l)
iAmLeader(l) == currentLeader[l] + 1 = l
iAmCrashed(l) == l \in Crashed[currentTimeslot[l]]

QuorumSize(l, s) == (N - Cardinality(Suspects[l][s])) \div 2

MutantNextLeader(c) == IF c + 1 > N THEN 0 ELSE c + 1
NextLeader(c) == IF c + 1 >= N THEN 0 ELSE c + 1

InProgress(i) == round[i].phase \in {"prepare", "accept"}

\* RemoveLastConsensus on two distinct tables: one occurrence of a TM goes
\* for each occurrence in the consensus.
Minus(T, C) ==
  [k \in Key |-> [tm \in TM |-> IF T[k][tm] > C[k][tm]
                                THEN T[k][tm] - C[k][tm] ELSE 0]]

MutantMerge(T, C) ==
  [k \in Key |-> [tm \in TM |-> IF T[k][tm] = 0 THEN 1 ELSE T[k][tm]]]

\* CheckDiferenceLeases and AddLastConsensus: a TM that waits in C for a
\* lease, and not in T, is added once.
Merge(T, C) ==
  [k \in Key |-> [tm \in TM |-> IF T[k][tm] = 0 /\ C[k][tm] > 0
                                THEN 1 ELSE T[k][tm]]]

MergeAll(T, Cs) ==
  [k \in Key |-> [tm \in TM |-> IF T[k][tm] = 0 /\ \E C \in Cs : C[k][tm] > 0
                                THEN 1 ELSE T[k][tm]]]

\* RemoveLastConsensus at l: the tables it may leave, and whether it throws.
\* When lastConsensus is leasesTable itself, the code removes an element from
\* the list it enumerates: one element goes, then the enumeration throws.
Removals(l) ==
  IF ~aliased[l]
  THEN {[table |-> Minus(leasesTable[l], lastConsensus[l]), throws |-> FALSE]}
  ELSE IF leasesTable[l] = EmptyTable
  THEN {[table |-> EmptyTable, throws |-> FALSE]}
  ELSE {[table |-> [leasesTable[l] EXCEPT ![e[1]][e[2]] = @ - 1],
         throws |-> TRUE] :
          e \in {x \in Key \X TM : Holds(leasesTable[l], x[1], x[2])}}

\* The next LM of the clients dictionary, after p, that l in timeslot s does
\* not suspect; 0 when there is none.
NextPeer(l, s, p) ==
  LET rest == {q \in (p + 1)..N : q # l /\ q \notin Suspects[l][s]}
  IN  IF rest = {} THEN 0
      ELSE CHOOSE q \in rest : \A q2 \in rest : q <= q2

-----------------------------------------------------------------------------
Init ==
  /\ currentTimeslot = [l \in LM |-> 1]
  /\ currentLeader   = [l \in LM |-> 0]
  /\ highestPrepare  = [l \in LM |-> 1]
  /\ leasesTable     = [l \in LM |-> EmptyTable]
  /\ lastConsensus   = [l \in LM |-> EmptyTable]
  /\ aliased         = [l \in LM |-> FALSE]
  /\ lastPropCall    = [l \in LM |-> {}]
  /\ round           = [i \in Id |-> NoRound]
  /\ handlers        = {}
  /\ acked           = [l \in LM |-> EmptyTable]
  /\ decided         = [i \in Id |-> EmptyTable]

-----------------------------------------------------------------------------
(* The sending side: SendPrepareRequest and sendAccept at l.               *)

\* sendAccept from its call to r.peer on: the next request takes the
\* proposal id hp and the table T that l has now; after the last one the
\* replies are counted against the quorum of l's present timeslot s.
NextAccept(l, s, r, hp, T) ==
  LET q == NextPeer(l, s, r.peer)
  IN  IF q # 0
      THEN [r EXCEPT !.peer = q, !.call = "sent", !.id = hp, !.table = T,
                     !.answer = EmptyTable]
      ELSE [NoRound EXCEPT !.phase = IF r.replys + 1 > QuorumSize(l, s)
                                     THEN "decided" ELSE "dropped",
                           !.accepted = r.accepted]

\* SendPrepareRequest likewise; a majority of replies leads on to sendAccept
\* with the merged table M.
NextPrepare(l, s, r, hp, M) ==
  LET q == NextPeer(l, s, r.peer)
  IN  IF q # 0
      THEN [r EXCEPT !.peer = q, !.call = "sent", !.answer = EmptyTable]
      ELSE IF r.replys + 1 > QuorumSize(l, s)
      THEN NextAccept(l, s, [NoRound EXCEPT !.phase = "accept"], hp, M)
      ELSE [NoRound EXCEPT !.phase = "dropped"]

\* ReturnDecidedLeaseAssingmentOrder asks its dictionary for the last call
\* to each TM before it sends to that TM, and throws on a TM that is not in
\* the dictionary: only TMs sent to before are sent to (again).
SentTo(l) == TM \cap lastPropCall[l]

\* Round i of l goes on from r, when l's table is T and its proposal id hp.
Proceed(l, i, r, hp, T) ==
  LET s == currentTimeslot[l]
      M == IF r.phase = "prepare" /\ NextPeer(l, s, r.peer) = 0
           THEN MergeAll(T, r.promises) ELSE T
      n == IF r.phase = "prepare" THEN NextPrepare(l, s, r, hp, M)
                                  ELSE NextAccept(l, s, r, hp, M)
  IN  /\ round' = [round EXCEPT ![i] = n]
      /\ leasesTable' = [leasesTable EXCEPT ![l] = M]
      /\ IF n.phase = "decided"
         THEN /\ aliased' = [aliased EXCEPT ![l] = TRUE]
              /\ lastConsensus' = [lastConsensus EXCEPT ![l] = EmptyTable]
              /\ lastPropCall' = [lastPropCall EXCEPT ![l] = @ \cup SentTo(l)]
              /\ decided' = [decided EXCEPT ![i] = M]
         ELSE UNCHANGED <<aliased, lastConsensus, lastPropCall, decided>>

\* The timer fires at l.  The leader of the timeslot starts a round, and so
\* does every LM that suspects the leader; in the first timeslot without a
\* prepare phase.  The timeslot advances while the round's first call is
\* still out.
PaxosEvent(l) ==
  LET s  == currentTimeslot[l]
      i  == <<l, s>>
      hp == highestPrepare[l] + 1
      id == IF iAmLeader(l) THEN hp ELSE hp + 1
  IN
  /\ s <= MaxSlot
  /\ \A m \in LM : s < currentTimeslot[m] + MaxSkew
  /\ RoundsOverlap \/ (handlers = {} /\ \A j \in Id : j[2] < s => ~InProgress(j))
  /\ \/ /\ ~iAmLeader(l) /\ ~susLeader(l)
        /\ UNCHANGED <<highestPrepare, leasesTable, lastConsensus, aliased,
                       lastPropCall, round, decided>>
     \/ /\ iAmLeader(l) \/ susLeader(l)
        /\ s = 1
        /\ Proceed(l, i, [NoRound EXCEPT !.phase = "accept"],
                   highestPrepare[l], leasesTable[l])
        /\ UNCHANGED highestPrepare
     \/ /\ iAmLeader(l) \/ susLeader(l)
        /\ s > 1
        /\ highestPrepare' = [highestPrepare EXCEPT ![l] = hp]
        /\ \E rm \in Removals(l) :
             \/ /\ rm.throws
                /\ round' = [round EXCEPT ![i] = [NoRound EXCEPT !.phase = "dropped"]]
                /\ leasesTable' = [leasesTable EXCEPT ![l] = rm.table]
                /\ UNCHANGED <<lastConsensus, aliased, lastPropCall, decided>>
             \/ /\ ~rm.throws
                /\ Proceed(l, i, [NoRound EXCEPT !.phase = "prepare", !.id = id],
                           hp, rm.table)
  /\ currentTimeslot' = [currentTimeslot EXCEPT ![l] = s + 1]
  /\ currentLeader' = [currentLeader EXCEPT ![l] = NextLeader(@)]
  /\ UNCHANGED <<handlers, acked>>

MutantResume(i) ==
  LET r == round[i]
      n == [r EXCEPT !.replys = @ + 1,
                     !.promises = IF r.phase = "prepare" THEN @ \cup {r.answer} ELSE @]
  IN
  /\ r.call = "replied"
  /\ Proceed(i[1], i, n, highestPrepare[i[1]], leasesTable[i[1]])
  /\ UNCHANGED <<currentTimeslot, currentLeader, highestPrepare, handlers, acked>>

\* The awaited call ended, with a reply (a refusal is one) or an exception:
\* the round resumes, with l's state as it is by now.
Resume(i) ==
  LET r == round[i]
      n == IF r.call = "failed" THEN r
           ELSE [r EXCEPT !.replys = @ + 1,
                          !.promises = IF r.phase = "prepare"
                                       THEN @ \cup {r.answer} ELSE @]
  IN
  /\ r.call \in {"replied", "failed"}
  /\ Proceed(i[1], i, n, highestPrepare[i[1]], leasesTable[i[1]])
  /\ UNCHANGED <<currentTimeslot, currentLeader, highestPrepare, handlers, acked>>

\* The call of round i gets no reply in time (or at all): the server may
\* have handled it, may be handling it, or may never see it.
CallFails(i) ==
  /\ <<i, round[i].peer>> \in MayFail
  /\ round[i].call \in {"sent", "admitted", "replied"}
  /\ round' = [round EXCEPT ![i].call = "failed"]
  /\ UNCHANGED <<lmVars, handlers, acked, decided>>

-----------------------------------------------------------------------------
(* The serving side: RequestPrepareAux, acceptAux and RequestLeaseAux.     *)

Refuses(p, id) == iAmCrashed(p) \/ id < highestPrepare[p]

\* A crashed LM and one that promised a higher proposal answer with an
\* empty reply.
RefuseCall(i) ==
  /\ round[i].call = "sent"
  /\ Refuses(round[i].peer, round[i].id)
  /\ round' = [round EXCEPT ![i].call = "replied"]
  /\ UNCHANGED <<lmVars, handlers, acked, decided>>

\* The handler passes its guard, which it reads without the lock.
AdmitCall(i) ==
  LET r == round[i] IN
  /\ r.call = "sent"
  /\ ~Refuses(r.peer, r.id)
  /\ handlers' = handlers \cup
       {[round |-> i, at |-> r.peer, kind |-> r.phase, id |-> r.id, table |-> r.table]}
  /\ round' = [round EXCEPT ![i].call = "admitted"]
  /\ UNCHANGED <<lmVars, acked, decided>>

Awaited(h) == /\ round[h.round].phase = h.kind
              /\ round[h.round].peer = h.at
              /\ round[h.round].call = "admitted"

\* Handler h ends: its reply (or its exception) reaches a caller still there.
Answer(h, call, table, by) ==
  LET r == round[h.round]
  IN  round' = [round EXCEPT ![h.round] =
                  [r EXCEPT !.call = IF Awaited(h) THEN call ELSE r.call,
                            !.answer = IF Awaited(h) THEN table ELSE r.answer,
                            !.accepted = r.accepted \cup by]]

PrepareStep(h) ==
  LET l == h.at IN
  /\ h.kind = "prepare"
  /\ handlers' = handlers \ {h}
  /\ \E rm \in Removals(l) :
       /\ leasesTable' = [leasesTable EXCEPT ![l] = rm.table]
       /\ \/ /\ rm.throws
             /\ Answer(h, "failed", EmptyTable, {})
             /\ UNCHANGED highestPrepare
          \/ /\ ~rm.throws
             /\ Answer(h, "replied", rm.table, {})
             /\ highestPrepare' = [highestPrepare EXCEPT ![l] = h.id]
  /\ UNCHANGED <<currentTimeslot, currentLeader, lastConsensus, aliased,
                 lastPropCall, acked, decided>>

AcceptStep(h) ==
  LET l == h.at IN
  /\ h.kind = "accept"
  /\ handlers' = handlers \ {h}
  /\ lastConsensus' = [lastConsensus EXCEPT ![l] = h.table]
  /\ aliased' = [aliased EXCEPT ![l] = FALSE]
  /\ leasesTable' = [leasesTable EXCEPT ![l] = Merge(@, h.table)]
  /\ Answer(h, "replied", EmptyTable, {l})
  /\ UNCHANGED <<currentTimeslot, currentLeader, highestPrepare, lastPropCall,
                 acked, decided>>

\* A TM asks l for the leases ks.  (A crashed LM sleeps past the TM's
\* deadline and changes nothing.)
RequestLease(l, tm, ks) ==
  LET Add(T) == [k \in Key |-> IF k \in ks THEN [T[k] EXCEPT ![tm] = @ + 1] ELSE T[k]]
  IN
  /\ ~iAmCrashed(l)
  /\ \A k \in ks : acked[l][k][tm] < MaxRequests
  /\ leasesTable' = [leasesTable EXCEPT ![l] = Add(@)]
  /\ acked' = [acked EXCEPT ![l] = Add(@)]
  /\ UNCHANGED <<currentTimeslot, currentLeader, highestPrepare, lastConsensus,
                 aliased, lastPropCall, round, handlers, decided>>

Next ==
  \/ \E l \in LM : PaxosEvent(l)
  \/ \E i \in Id : Resume(i) \/ CallFails(i) \/ RefuseCall(i) \/ AdmitCall(i)
  \/ \E h \in handlers : PrepareStep(h) \/ AcceptStep(h)
  \/ \E l \in LM, tm \in TM, ks \in (SUBSET Key) \ {{}} : RequestLease(l, tm, ks)

Spec == Init /\ [][Next]_vars

\* The timer goes on firing, the thread pool runs what is ready, and every
\* call ends: with the server's answer, or by its deadline.
Fairness ==
  /\ \A l \in LM : WF_vars(PaxosEvent(l))
  /\ \A i \in Id : /\ WF_vars(Resume(i))
                    /\ WF_vars(RefuseCall(i) \/ AdmitCall(i))
                    /\ WF_vars(\E h \in handlers :
                                 h.round = i /\ (PrepareStep(h) \/ AcceptStep(h)))

FairSpec == Spec /\ Fairness

-----------------------------------------------------------------------------
(* Properties. *)

\* The variables keep the types of their fields, leaders stay within the ids.
TypeOK ==
  /\ currentTimeslot \in [LM -> Slot]
  /\ currentLeader \in [LM -> 0..(N - 1)]
  /\ highestPrepare \in [LM -> Nat]
  /\ leasesTable \in [LM -> Table]
  /\ lastConsensus \in [LM -> Table]
  /\ aliased \in [LM -> BOOLEAN]
  /\ lastPropCall \in [LM -> SUBSET TM]
  /\ round \in [Id -> Round]
  /\ handlers \subseteq Handler
  /\ acked \in [LM -> Table]
  /\ decided \in [Id -> Table]

Requested(k, tm) == \E l \in LM : Holds(acked[l], k, tm)
OnlyRequested(T) == \A k \in Key, tm \in TM : Holds(T, k, tm) => Requested(k, tm)

\* Validity of the consensus: through merges, promises, accepts, crashes and
\* lost replies, no LM ever queues, accepts or decides a lease for a TM that
\* no LM acknowledged a request of.
OnlyRequestedLeases ==
  /\ \A l \in LM : OnlyRequested(leasesTable[l]) /\ OnlyRequested(lastConsensus[l])
  /\ \A i \in Id : OnlyRequested(decided[i])

\* However far their timers drift apart, two LMs never both take themselves
\* for the leader of the same timeslot (the leader rotates on each LM's own
\* count, without any message).
OneLeaderPerTimeslot ==
  \A l1, l2 \in LM :
    currentTimeslot[l1] = currentTimeslot[l2] /\ iAmLeader(l1) /\ iAmLeader(l2)
      => l1 = l2

\* A round never hangs on an await, whichever LMs are crashed, suspected or
\* silent, and whatever its own handlers throw.
RoundsEnd == \A i \in Id : InProgress(i) ~> ~InProgress(i)

\* What QuorumSize and the messages of sendAccept say of a decision: a
\* majority of the LMs stands behind it.  The code counts every reply, an
\* empty refusal too, and sizes the quorum by what the LM suspects.
DecisionHasMajority ==
  \A i \in Id : round[i].phase = "decided"
                 => 2 * Cardinality(round[i].accepted \cup {i[1]}) > N

\* What LeaseRequestAssigner says of itself: the result of a Paxos execution
\* is sent to the TMs.
DecisionsReachTMs ==
  \A i \in Id : round[i].phase = "decided" ~> lastPropCall[i[1]] = TM

=============================================================================
