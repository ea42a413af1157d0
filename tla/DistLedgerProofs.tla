-------------------------- MODULE DistLedgerProofs --------------------------
(***************************************************************************)
(* KnownUpdatesOnly for any users, accounts and requests, any number of    *)
(* gossips, and handlers that overlap in any way.                          *)
(*                                                                         *)
(* KnownUpdatesOnly is not inductive: timestamps also travel in the        *)
(* requests, in the value of the clock a handler has read and not yet put  *)
(* back, and in the gossip message.  IInv says of all of them that they    *)
(* count only updates that were issued, and that the operation that gossip *)
(* is about to stamp, check or execute is in the ledger (LastInv).         *)
(*                                                                         *)
(* For TypeOK (TypeInv), balances stay what they can be since a transfer   *)
(* moves money that is there, and what is executed is what a user asked    *)
(* for.                                                                    *)
(*                                                                         *)
(* Then DistLedger implements Accounts, when no request moves money from   *)
(* an account to itself: every step of a handler or of gossip is a step of *)
(* Accounts or changes neither its balances nor its requests.              *)
(* RInv is what IInv does not say: balances are integers, a handler adds   *)
(* what its user may ask for, and a message holds only requests that some  *)
(* ledger holds.                                                           *)
(*                                                                         *)
(* Last, no replica executes an operation twice (OnceInv), however its     *)
(* handlers overlap, until one puts back a stale clock, or stamps or takes *)
(* for its own an operation of another.  Until then a replica's own entry  *)
(* of its clock counts its writes (OwnInv), a write has the same prev in   *)
(* every ledger and message, and it is in a ledger once (WritesInv).  The  *)
(* value timestamp of a replica is past the prev of what it executed       *)
(* (LateInv, ExecutedInv), and gossip executes an operation only when it   *)
(* is new in the ledger, or when its prev is the value timestamp.          *)
(***************************************************************************)
EXTENDS DistLedger, SequenceTheorems, FiniteSetTheorems, TLAPS

AnyRequest == Request \cup [type : {"balance"}, account : Account] \cup {[type |-> "none"]}

Op == [write : Write, request : Request, prev : TS \cup {NoTS},
       ts : TS \cup {NoTS}, live : BOOLEAN]

Call == [pc : {"idle", "add", "tick", "put", "raise", "stamp", "mark", "answer", "read"},
         at : 1..3, request : AnyRequest, prev : TS, stable : BOOLEAN, seen : Nat, n : Nat]

\* Where gossip is at its receiver, and where it is with the last operation of the ledger there,
\* or with the one it found to be the last.
Receiving == {"take", "stamp", "mark", "check", "raise", "apply", "count", "sorted", "run"}
AtLast    == {"stamp", "mark", "check"}
AtFound   == {"raise", "apply", "count"}

Gossip == [pc : {"idle", "send"} \cup Receiving, from : 1..3, todo : SUBSET Replica, to : 1..3,
           msg : Seq(Op), i : Nat]

\* A timestamp that counts only updates issued so far.
Issued(t) == t \in TS /\ Leq(t, written)

\* An operation with both its timestamps, and one with those it has so far.
Signed(op) == Issued(op.prev) /\ Issued(op.ts)
Sound(op)  == (op.prev # NoTS => Issued(op.prev)) /\ (op.ts # NoTS => Issued(op.ts))

SoundLedger(L) == L \in Seq(Op) /\ \A j \in DOMAIN L : Sound(L[j])

ClockInv ==
  /\ written \in TS
  /\ mapTS \in [Replica -> TS] /\ \A r \in Replica : Leq(mapTS[r], written)
  /\ valueTS \in [Replica -> TS] /\ \A r \in Replica : Leq(valueTS[r], written)
  /\ userTS \in [User -> TS] /\ \A u \in User : Leq(userTS[u], written)

CallInv ==
  /\ call \in [User -> Call]
  /\ \A u \in User :
       /\ call[u].pc # "idle" => call[u].at \in Replica
       /\ Leq(call[u].prev, written)
       /\ call[u].pc = "put" => call[u].seen <= written[call[u].at]
       /\ call[u].pc = "add" => call[u].request \in Request
       /\ call[u].pc \notin {"idle", "read"} => <<u, call[u].n>> \in Write

LedgerInv ==
  /\ ledger \in [Replica -> Seq(Op)]
  /\ \A r \in Replica : SoundLedger(ledger[r])

GossipInv ==
  /\ gossip \in Gossip /\ gossip.i > 0
  /\ gossip.pc # "idle" => gossip.from \in Replica
  /\ gossip.pc \in Receiving => gossip.to \in Replica
  /\ gossip.pc \in AtLast \cup AtFound => gossip.msg # <<>>
  /\ \A j \in DOMAIN gossip.msg : Signed(gossip.msg[j])

LastInv ==
  /\ gossip.pc \in AtLast => 1 \in DOMAIN ledger[gossip.to]
  /\ gossip.pc \in AtFound => gossip.i \in DOMAIN ledger[gossip.to]

IInv == ClockInv /\ CallInv /\ LedgerInv /\ GossipInv /\ LastInv

-----------------------------------------------------------------------------
(* Timestamps. *)

\* The join of two timestamps is a timestamp, and issued if both are.
LEMMA JoinIssued ==
  ASSUME NEW t \in TS, NEW u \in TS, NEW w \in TS, Leq(t, w), Leq(u, w)
  PROVE  Join(t, u) \in TS /\ Leq(Join(t, u), w)
BY DEF TS, Leq, Join

\* The zero timestamp is below every other.
LEMMA ZeroIssued == ZeroTS \in TS /\ \A w \in TS : Leq(ZeroTS, w)
BY DEF ZeroTS, TS, Leq

\* What was issued stays issued when more is.
LEMMA LeqTransitive ==
  ASSUME NEW t \in TS, NEW v \in TS, NEW w \in TS, Leq(t, v), Leq(v, w)
  PROVE  Leq(t, w)
BY DEF TS, Leq

-----------------------------------------------------------------------------
(* Ledgers. *)

\* An operation without timestamps may be added.
LEMMA AppendSound ==
  ASSUME NEW L, SoundLedger(L), NEW op \in Op, op.prev = NoTS, op.ts = NoTS
  PROVE  SoundLedger(Append(L, op)) /\ DOMAIN L \subseteq DOMAIN Append(L, op)
         /\ 1 \in DOMAIN Append(L, op)
<1>1. L \in Seq(Op) /\ Len(L) \in Nat /\ DOMAIN L = 1..Len(L) BY DEF SoundLedger
<1>2. Append(L, op) \in Seq(Op) /\ DOMAIN Append(L, op) = 1..(Len(L) + 1) BY <1>1
<1>3. Append(L, op)[Len(L) + 1] = op /\ \A j \in 1..Len(L) : Append(L, op)[j] = L[j] BY <1>1
<1>4. 1..(Len(L) + 1) = 1..Len(L) \cup {Len(L) + 1} /\ 1 \in 1..(Len(L) + 1) BY <1>1
<1>5. Sound(op) BY DEF Sound
<1> QED BY <1>1, <1>2, <1>3, <1>4, <1>5 DEF SoundLedger

\* One operation of a ledger is replaced.
LEMMA ReplaceSound ==
  ASSUME NEW L, SoundLedger(L), NEW i, NEW o, i \in DOMAIN L => o \in Op /\ Sound(o)
  PROVE  SoundLedger([L EXCEPT ![i] = o])
<1>1. L \in Seq(Op) BY DEF SoundLedger
<1>2. CASE i \notin DOMAIN L
  <2>1. [L EXCEPT ![i] = o] = L BY <1>1, <1>2
  <2> QED BY <2>1
<1>3. CASE i \in DOMAIN L
  <2>1. [L EXCEPT ![i] = o] \in Seq(Op) BY <1>1, <1>3
  <2> QED BY <1>3, <2>1 DEF SoundLedger
<1> QED BY <1>2, <1>3

\* The last operation may get issued timestamps.
LEMMA StampSound ==
  ASSUME NEW L, SoundLedger(L), NEW t, Issued(t)
  PROVE  /\ SoundLedger(SetPrevTS(L, t)) /\ DOMAIN SetPrevTS(L, t) = DOMAIN L
         /\ SoundLedger(SetTS(L, t)) /\ DOMAIN SetTS(L, t) = DOMAIN L
<1> DEFINE n == Len(L)
           o == [L[n] EXCEPT !.prev = t]
           x == [L[n] EXCEPT !.ts = t, !.live = FALSE]
<1>1. n \in DOMAIN L => L[n] \in Op /\ Sound(L[n]) BY DEF SoundLedger
<1>2. n \in DOMAIN L => o \in Op /\ Sound(o) BY <1>1 DEF Op, Sound, Issued
<1>3. n \in DOMAIN L => x \in Op /\ Sound(x) BY <1>1 DEF Op, Sound, Issued
<1>4. SetPrevTS(L, t) = [L EXCEPT ![n] = o] BY DEF SetPrevTS
<1>5. SetTS(L, t) = [L EXCEPT ![n] = x]
  <2>1. CASE n \in DOMAIN L BY <2>1 DEF SetTS
  <2>2. CASE n \notin DOMAIN L BY <2>2 DEF SetTS
  <2> QED BY <2>1, <2>2
<1> HIDE DEF o, x
<1>6. SoundLedger([L EXCEPT ![n] = o]) BY <1>2, ReplaceSound
<1>7. SoundLedger([L EXCEPT ![n] = x]) BY <1>3, ReplaceSound
<1> QED BY <1>4, <1>5, <1>6, <1>7

\* An operation of a ledger may start to share the value timestamp.
LEMMA LiveSound ==
  ASSUME NEW L, SoundLedger(L), NEW i \in DOMAIN L
  PROVE  SoundLedger([L EXCEPT ![i].live = TRUE])
<1> DEFINE o == [L[i] EXCEPT !.live = TRUE]
<1>1. L[i] \in Op /\ Sound(L[i]) BY DEF SoundLedger
<1>2. o \in Op /\ Sound(o) BY <1>1 DEF Op, Sound
<1> HIDE DEF o
<1>3. SoundLedger([L EXCEPT ![i] = o]) BY <1>2, ReplaceSound
<1> QED BY <1>3 DEF o

\* A sort moves every operation to a place of its own.
LEMMA SortedMoves ==
  ASSUME NEW L, SoundLedger(L), NEW n \in 0..Len(L), n > 1 => \A j \in 1..n : L[j].prev # NoTS,
         NEW M \in Sorted(L, n)
  PROVE  \E p \in Bijection(DOMAIN L, DOMAIN L) : M = [j \in DOMAIN L |-> L[p[j]]]
<1> DEFINE D == 1..Len(L)
<1>1. L \in Seq(Op) /\ DOMAIN L = D /\ Len(L) \in Nat /\ n \in Nat BY DEF SoundLedger
<1>2. PICK p \in [D -> D] :
        /\ M = [j \in D |-> L[p[j]]]
        /\ \A j \in D : IF j <= n THEN p[j] <= n ELSE p[j] = j
        /\ \A j, k \in D : j < k /\ k <= n =>
             \/ Sum(L[p[j]].prev) < Sum(L[p[k]].prev)
             \/ Sum(L[p[j]].prev) = Sum(L[p[k]].prev) /\ p[j] < p[k]
  BY <1>1 DEF Sorted
<1>3. ASSUME n > 1, NEW j \in D, j <= n PROVE Sum(L[j].prev) \in Nat
  <2>1. Issued(L[j].prev) BY <1>1, <1>3 DEF SoundLedger, Sound
  <2> QED BY <2>1 DEF Issued, TS, Sum
<1>4. ASSUME NEW j \in D, NEW k \in D, j < k PROVE p[j] # p[k]
  <2>1. p[j] \in D /\ p[k] \in D BY <1>2
  <2>2. CASE k <= n
    <3>1. p[j] <= n /\ n > 1 BY <1>1, <1>2, <1>4, <2>2
    <3>2. Sum(L[p[j]].prev) \in Nat BY <1>3, <2>1, <3>1
    <3> QED BY <1>2, <1>4, <2>1, <2>2, <3>2
  <2>3. CASE ~(k <= n)
    <3>1. p[k] = k BY <1>2, <2>3
    <3>2. p[j] <= n \/ p[j] = j BY <1>2
    <3> QED BY <1>1, <1>4, <2>1, <2>3, <3>1, <3>2
  <2> QED BY <2>2, <2>3
<1>5. ASSUME NEW j \in D, NEW k \in D, p[j] = p[k] PROVE j = k
  BY <1>1, <1>4, <1>5
<1>6. p \in Injection(D, D) BY <1>2, <1>5 DEF Injection, IsInjective
<1>7. IsFiniteSet(D) BY <1>1, FS_Interval
<1>8. p \in Surjection(D, D) BY <1>6, <1>7, FS_Injection
<1> QED BY <1>1, <1>2, <1>6, <1>8 DEF Bijection

\* So does one that throws, with what it has moved by then.
LEMMA SortMoves ==
  ASSUME NEW L, SoundLedger(L), NEW M \in SortLedger(L)
  PROVE  \E p \in Bijection(DOMAIN L, DOMAIN L) : M = [j \in DOMAIN L |-> L[p[j]]]
<1>1. L \in Seq(Op) /\ DOMAIN L = 1..Len(L) /\ Len(L) \in Nat BY DEF SoundLedger
<1>2. CASE ~SortThrows(L)
  <2>1. M \in Sorted(L, Len(L)) BY <1>2 DEF SortLedger
  <2>2. Len(L) > 1 => \A j \in 1..Len(L) : L[j].prev # NoTS
    BY <1>1, <1>2 DEF SortThrows, Stamped
  <2> QED BY <1>1, <2>1, <2>2, SortedMoves
<1>3. CASE SortThrows(L)
  <2>1. PICK n \in 0..(Len(L) - 1) :
          (\A j \in 1..n : L[j].prev # NoTS) /\ (M = L \/ M \in Sorted(L, n))
    BY <1>3 DEF SortLedger
  <2>2. CASE M \in Sorted(L, n)
    <3>1. n \in 0..Len(L) BY <1>1, <2>1
    <3> QED BY <2>1, <2>2, <3>1, SortedMoves
  <2>3. CASE M = L
    <3> DEFINE p == [j \in DOMAIN L |-> j]
    <3>1. p \in Bijection(DOMAIN L, DOMAIN L)
      BY DEF Bijection, Injection, IsInjective, Surjection
    <3>2. M = [j \in DOMAIN L |-> L[p[j]]] BY <1>1, <2>3
    <3> QED BY <3>1, <3>2
  <2> QED BY <2>1, <2>2, <2>3
<1> QED BY <1>2, <1>3

\* Sorting keeps the operations.
LEMMA SortSound ==
  ASSUME NEW L, SoundLedger(L), NEW M \in SortLedger(L)
  PROVE  SoundLedger(M) /\ DOMAIN M = DOMAIN L
<1> DEFINE D == DOMAIN L
<1>1. L \in Seq(Op) /\ D = 1..Len(L) /\ Len(L) \in Nat BY DEF SoundLedger
<1>2. PICK p \in Bijection(D, D) : M = [j \in D |-> L[p[j]]] BY SortMoves
<1>3. \A j \in D : p[j] \in D BY DEF Bijection, Injection
<1>4. DOMAIN M = D /\ \A j \in D : M[j] = L[p[j]] BY <1>2
<1>5. \A j \in D : M[j] \in Op /\ Sound(M[j]) BY <1>1, <1>3, <1>4 DEF SoundLedger
<1>6. M \in Seq(Op) BY <1>1, <1>2, <1>5
<1> QED BY <1>4, <1>5, <1>6 DEF SoundLedger

\* What is sent from a ledger is signed; the timestamp of an operation that shares valueTS is as
\* issued as that.
LEMMA OutgoingSigned ==
  ASSUME IInv, NEW r \in Replica, NEW q \in Replica, Sendable(Outgoing(r, q))
  PROVE  Outgoing(r, q) \in Seq(Op) /\ \A j \in DOMAIN Outgoing(r, q) : Signed(Outgoing(r, q)[j])
<1> DEFINE L == ledger[r]
           m == mapTS[r][q]
           M == Outgoing(r, q)
           Sent(o) == [o EXCEPT !.ts = TimestampOf(r, o), !.live = FALSE]
<1>1. SoundLedger(L) /\ L \in Seq(Op) BY DEF IInv, LedgerInv
<1>2. Len(L) \in Nat /\ DOMAIN L = 1..Len(L) BY <1>1
<1>3. m \in Nat BY ReplicaAssumption DEF IInv, ClockInv, TS
<1>4. PICK k \in Nat : k = (IF Len(L) > m THEN Len(L) - m ELSE 0) BY <1>2, <1>3
<1>5. M = [j \in 1..k |-> Sent(L[j + m])] BY <1>4 DEF Outgoing
<1>6. k > 0 => k = Len(L) - m BY <1>2, <1>3, <1>4
<1>7. valueTS[r] \in TS /\ Leq(valueTS[r], written) BY DEF IInv, ClockInv
<1> HIDE DEF m, L, Sent
<1>8. DOMAIN M = 1..k /\ \A j \in 1..k : M[j] = Sent(L[j + m]) BY <1>5
<1> HIDE DEF M
<1>9. ASSUME NEW j \in 1..k PROVE M[j] \in Op /\ Signed(M[j])
  <2>1. k > 0 /\ j \in Nat /\ j >= 1 /\ j <= k BY <1>9
  <2>2. k = Len(L) - m BY <1>6, <2>1
  <2>3. j + m \in DOMAIN L BY <1>2, <1>3, <2>1, <2>2
  <2>4. PICK o \in Op : o = L[j + m] /\ Sound(o) BY <1>1, <2>3 DEF SoundLedger
  <2>5. /\ TimestampOf(r, o) \in TS \cup {NoTS}
        /\ TimestampOf(r, o) # NoTS => Issued(TimestampOf(r, o))
    BY <1>7, <2>4 DEF TimestampOf, Op, Sound, Issued
  <2>6. M[j] = Sent(o) BY <1>8, <2>4
  <2>7. Sent(o) \in Op /\ Sent(o).prev = o.prev /\ Sent(o).ts = TimestampOf(r, o)
    BY <2>5 DEF Sent, Op
  <2>8. M[j].prev # NoTS /\ M[j].ts # NoTS BY <1>8 DEF Sendable, M
  <2> QED BY <2>4, <2>5, <2>6, <2>7, <2>8 DEF Signed, Sound
<1>10. \A j \in 1..k : M[j] \in Op BY <1>9
<1>11. M \in Seq(Op)
  <2>1. M = [j \in 1..k |-> M[j]] BY <1>5, <1>8
  <2> QED BY <1>10, <2>1
<1> QED BY <1>8, <1>9, <1>11 DEF M

-----------------------------------------------------------------------------
(* The initial states, and one lemma for each action.                      *)

\* A request that has not been made, and no gossip, have their types.
LEMMA NothingYet ==
  /\ NoCall \in Call
  /\ NoCall.pc = "idle" /\ NoCall.prev = ZeroTS
  /\ NoGossip \in Gossip /\ NoGossip.i > 0
  /\ NoGossip.pc = "idle" /\ NoGossip.msg = <<>> /\ DOMAIN NoGossip.msg = {}
<1>1. <<>> \in Seq(Op) /\ DOMAIN <<>> = {} OBVIOUS
<1>2. [type |-> "none"] \in AnyRequest BY DEF AnyRequest
<1> QED BY <1>1, <1>2, ZeroIssued DEF NoCall, NoGossip, Call, Gossip

\* Nothing is written, asked or gossiped at the start.
LEMMA InitIInv == Init => IInv
<1> SUFFICES ASSUME Init PROVE IInv OBVIOUS
<1>1. ClockInv BY ZeroIssued, ReplicaAssumption DEF Init, ClockInv, TS, ZeroTS, Leq
<1>2. CallInv BY NothingYet, ZeroIssued, <1>1 DEF Init, CallInv, Call, ClockInv
<1>3. LedgerInv
  <2>1. <<>> \in Seq(Op) /\ DOMAIN <<>> = {} OBVIOUS
  <2>2. SoundLedger(<<>>) BY <2>1 DEF SoundLedger
  <2> QED BY <2>1, <2>2 DEF Init, LedgerInv
<1>4. GossipInv /\ LastInv
  BY NothingYet DEF Init, GossipInv, LastInv, Receiving, AtLast, AtFound
<1> QED BY <1>1, <1>2, <1>3, <1>4 DEF IInv

\* As long as nothing is written, the parts of IInv whose variables an action
\* leaves alone are kept; ledgers that lose no operation keep LastInv.
LEMMA Frame ==
  ASSUME IInv, UNCHANGED written
  PROVE  /\ UNCHANGED <<mapTS, valueTS, userTS>> => ClockInv'
         /\ UNCHANGED call => CallInv'
         /\ UNCHANGED ledger => LedgerInv'
         /\ UNCHANGED gossip => GossipInv'
         /\ UNCHANGED <<gossip, ledger>> => LastInv'
         /\ gossip'.pc \notin AtLast \cup AtFound => LastInv'
BY DEF IInv, ClockInv, CallInv, Call, LedgerInv, GossipInv, Gossip, LastInv, SoundLedger, Sound, Signed, Issued

\* A ledger that loses no operation.
LEMMA LedgerKept ==
  ASSUME IInv, UNCHANGED written, NEW r \in Replica, NEW L, SoundLedger(L),
         DOMAIN ledger[r] \subseteq DOMAIN L, ledger' = [ledger EXCEPT ![r] = L]
  PROVE  LedgerInv' /\ (UNCHANGED gossip => LastInv')
<1>1. L \in Seq(Op) BY DEF SoundLedger
<1>2. ledger' \in [Replica -> Seq(Op)] BY <1>1 DEF IInv, LedgerInv
<1>3. ASSUME NEW q \in Replica
      PROVE  SoundLedger(ledger'[q]) /\ DOMAIN ledger[q] \subseteq DOMAIN ledger'[q]
  <2>1. CASE q = r BY <2>1 DEF IInv, LedgerInv
  <2>2. CASE q # r BY <2>2 DEF IInv, LedgerInv
  <2> QED BY <2>1, <2>2
<1>5. LedgerInv' BY <1>2, <1>3 DEF LedgerInv, SoundLedger, Sound, Issued
<1>6. gossip.pc \in AtLast \cup AtFound => gossip.to \in Replica
  BY DEF IInv, GossipInv, AtLast, AtFound, Receiving
<1>7. UNCHANGED gossip => LastInv' BY <1>3, <1>6 DEF IInv, LastInv
<1> QED BY <1>5, <1>7

\* The same for the index at which gossip is.
LEMMA LastKept ==
  ASSUME IInv, NEW r \in Replica, NEW L, DOMAIN ledger[r] \subseteq DOMAIN L,
         ledger' = [ledger EXCEPT ![r] = L], gossip'.to = r,
         gossip'.pc \in AtLast => 1 \in DOMAIN L, gossip'.pc \in AtFound => gossip'.i \in DOMAIN L
  PROVE  LastInv'
BY DEF IInv, LedgerInv, LastInv

\* A request carries the timestamp of its user, which is issued.
LEMMA AskWriteStep ==
  ASSUME IInv, NEW u \in User, NEW r \in Replica, NEW req \in Writes[u], AskWrite(u, r, req)
  PROVE  IInv'
<1>1. UNCHANGED <<ledger, mapTS, valueTS, written, userTS, gossip>> BY DEF AskWrite, clocks
<1>2. req \in AnyRequest BY WriteAssumption DEF AnyRequest
<1>3. PICK b \in BOOLEAN : b = Leq(userTS[u], valueTS[r]) BY DEF Leq
<1> DEFINE c == [NoCall EXCEPT !.pc = "add", !.at = r, !.request = req,
                               !.prev = userTS[u], !.n = call[u].n + 1, !.stable = b]
<1>4. /\ c \in Call
      /\ c.pc = "add" /\ c.at = r /\ c.prev = userTS[u]
      /\ c.request \in Request /\ <<u, c.n>> \in Write
  <2>1. userTS[u] \in TS /\ call[u].n + 1 \in Nat /\ r \in 1..3
    BY ReplicaAssumption DEF IInv, ClockInv, CallInv, Call
  <2>2. c \in Call BY <1>2, <2>1, NothingYet DEF Call
  <2>3. /\ c.pc = "add" /\ c.at = r /\ c.prev = userTS[u]
        /\ c.request = req /\ c.n = call[u].n + 1
    BY DEF NoCall
  <2>4. c.n \in 1..MaxWrites[u]
    <3>1. call[u].n \in Nat /\ MaxWrites[u] \in Nat /\ call[u].n < MaxWrites[u]
      BY BoundAssumption DEF AskWrite, IInv, CallInv, Call
    <3> HIDE DEF c
    <3> QED BY <2>3, <3>1
  <2>5. <<u, c.n>> \in Write BY <2>4 DEF Write
  <2>6. req \in Request BY WriteAssumption
  <2> QED BY <2>2, <2>3, <2>5, <2>6
<1>5. call' = [call EXCEPT ![u] = c] BY <1>3 DEF AskWrite
<1> HIDE DEF c
<1>6. CallInv' BY <1>1, <1>4, <1>5 DEF IInv, ClockInv, CallInv, Call
<1> QED BY <1>1, <1>6, Frame DEF IInv

\* A handler that goes on with its request, and one that is done.
LEMMA CallMoves ==
  ASSUME IInv, UNCHANGED written, NEW u \in User, call[u].pc \notin {"idle", "read"},
         NEW p \in {"idle", "tick", "raise", "stamp", "mark", "answer"},
         call' = [call EXCEPT ![u].pc = p]
  PROVE  CallInv'
<1>1. call' \in [User -> Call] BY DEF IInv, CallInv, Call
<1>2. ASSUME NEW v \in User, v # u PROVE call'[v] = call[v] BY <1>2 DEF IInv, CallInv
<1>3. /\ call'[u].pc = p /\ call'[u].at = call[u].at /\ call'[u].prev = call[u].prev
      /\ call'[u].n = call[u].n
  BY DEF IInv, CallInv, Call
<1> QED BY <1>1, <1>2, <1>3 DEF IInv, CallInv

\* The operation that is added has no timestamps yet.
LEMMA AddOperationStep ==
  ASSUME IInv, NEW u \in User, AddOperation(u)
  PROVE  IInv'
<1> DEFINE r == call[u].at
           op == [write |-> <<u, call[u].n>>, request |-> call[u].request,
                  prev |-> NoTS, ts |-> NoTS, live |-> FALSE]
<1>1. UNCHANGED <<mapTS, valueTS, written, userTS, gossip>> BY DEF AddOperation, clocks
<1>2. r \in Replica BY DEF AddOperation, IInv, CallInv, Call
<1>3. op \in Op /\ op.prev = NoTS /\ op.ts = NoTS BY DEF AddOperation, IInv, CallInv, Op
<1>4. ledger' = [ledger EXCEPT ![r] = Append(ledger[r], op)] BY DEF AddOperation
<1>5. SoundLedger(ledger[r]) BY <1>2 DEF IInv, LedgerInv
<1> HIDE DEF op
<1>6. SoundLedger(Append(ledger[r], op)) /\ DOMAIN ledger[r] \subseteq DOMAIN Append(ledger[r], op)
  BY <1>3, <1>5, AppendSound
<1>7. LedgerInv' /\ LastInv' BY <1>1, <1>2, <1>4, <1>6, LedgerKept
<1>8. CallInv' BY <1>1, CallMoves DEF AddOperation
<1> QED BY <1>1, <1>7, <1>8, Frame DEF IInv

\* The clock that was read counts no more than what was written.
LEMMA ReadClockStep ==
  ASSUME IInv, NEW u \in User, ReadClock(u)
  PROVE  IInv'
<1>1. UNCHANGED <<ledger, mapTS, valueTS, written, userTS, gossip>> BY DEF ReadClock, clocks
<1>2. call[u].at \in Replica BY DEF ReadClock, IInv, CallInv, Call
<1>3. /\ mapTS[call[u].at][call[u].at] \in Nat
      /\ mapTS[call[u].at][call[u].at] <= written[call[u].at]
  BY <1>2, ReplicaAssumption DEF IInv, ClockInv, TS, Leq
<1>4. CallInv' BY <1>1, <1>2, <1>3 DEF ReadClock, IInv, CallInv, Call
<1> QED BY <1>1, <1>4, Frame DEF IInv

\* The only step that issues an update: all that was issued before still is.
LEMMA PutClockStep ==
  ASSUME IInv, NEW u \in User, PutClock(u)
  PROVE  IInv'
<1> DEFINE r == call[u].at
<1>1. UNCHANGED <<ledger, valueTS, userTS, gossip>> BY DEF PutClock
<1>2. r \in Replica /\ r \in 1..3 /\ call[u].seen \in Nat /\ call[u].seen <= written[r]
  BY ReplicaAssumption DEF PutClock, IInv, CallInv, Call
<1>3. written \in TS /\ written' \in TS /\ Leq(written, written')
  BY <1>2 DEF PutClock, IInv, ClockInv, TS, Leq
<1>4. \A t \in TS : Leq(t, written) => Leq(t, written')
  BY <1>3, LeqTransitive
<1>5. mapTS' \in [Replica -> TS] /\ \A q \in Replica : Leq(mapTS'[q], written')
  <2>1. mapTS' = [mapTS EXCEPT ![r] = [@ EXCEPT ![r] = call[u].seen + 1]] BY DEF PutClock
  <2>2. mapTS[r] \in TS /\ Leq(mapTS[r], written') BY <1>2, <1>4 DEF IInv, ClockInv
  <2>3. written'[r] = written[r] + 1 BY <1>2 DEF PutClock, IInv, ClockInv, TS
  <2>4. [mapTS[r] EXCEPT ![r] = call[u].seen + 1] \in TS BY <1>2, <2>2 DEF TS
  <2>5. Leq([mapTS[r] EXCEPT ![r] = call[u].seen + 1], written')
    BY <1>2, <1>3, <2>2, <2>3 DEF TS, Leq
  <2> QED BY <1>2, <1>4, <2>1, <2>4, <2>5 DEF IInv, ClockInv
<1>6. valueTS' \in [Replica -> TS] /\ \A q \in Replica : Leq(valueTS'[q], written')
  BY <1>1, <1>4 DEF IInv, ClockInv
<1>7. ClockInv' BY <1>1, <1>3, <1>4, <1>5, <1>6 DEF IInv, ClockInv
<1>8. CallInv'
  <2>1. \A v \in User : call'[v].prev = call[v].prev /\ call'[v].at = call[v].at
                         /\ call'[v].seen = call[v].seen /\ call'[v].n = call[v].n
                         /\ call'[v].request = call[v].request
    BY DEF PutClock, IInv, CallInv, Call
  <2>2. \A v \in User : Leq(call'[v].prev, written') BY <1>4, <2>1 DEF IInv, CallInv, Call
  <2>3. \A v \in User : call'[v].pc = "put" => call'[v].seen <= written'[call'[v].at]
    <3>1. \A k \in 1..3 : written[k] \in Nat /\ written'[k] \in Nat /\ written[k] <= written'[k]
      BY <1>3 DEF TS, Leq
    <3>2. \A v \in User : call'[v].pc = "put" => call[v].pc = "put"
      BY DEF PutClock, IInv, CallInv, Call
    <3>3. \A v \in User : call[v].at \in 1..3 /\ call[v].seen \in Nat
      BY DEF IInv, CallInv, Call
    <3>4. \A v \in User : call[v].pc = "put" => call[v].seen <= written[call[v].at]
      BY DEF IInv, CallInv
    <3> QED BY <2>1, <3>1, <3>2, <3>3, <3>4
  <2>4. \A v \in User : call'[v].pc # "idle" => call'[v].at \in Replica
    BY DEF PutClock, IInv, CallInv, Call
  <2>5. call' \in [User -> Call]
    BY DEF PutClock, IInv, CallInv, Call
  <2>6. \A v \in User : /\ call'[v].pc = "add" => call[v].pc = "add"
                        /\ call'[v].pc \notin {"idle", "read"} => call[v].pc \notin {"idle", "read"}
    BY DEF PutClock, IInv, CallInv, Call
  <2>7. ASSUME NEW v \in User, call'[v].pc = "add" PROVE call'[v].request \in Request
    BY <2>1, <2>6, <2>7 DEF IInv, CallInv
  <2>8. ASSUME NEW v \in User, call'[v].pc \notin {"idle", "read"}
        PROVE  <<v, call'[v].n>> \in Write
    <3>1. call[v].pc \notin {"idle", "read"} /\ call'[v].n = call[v].n BY <2>1, <2>6, <2>8
    <3>2. <<v, call[v].n>> \in Write BY <3>1 DEF IInv, CallInv
    <3> QED BY <3>1, <3>2
  <2> QED BY <2>2, <2>3, <2>4, <2>5, <2>7, <2>8 DEF CallInv
<1>9. /\ \A op : Signed(op) => Signed(op)'
      /\ \A op : Sound(op) => Sound(op)'
  BY <1>4 DEF Signed, Sound, Issued
<1>10. LedgerInv' BY <1>1, <1>9 DEF IInv, LedgerInv, SoundLedger, Sound, Issued
<1>11. GossipInv' BY <1>1, <1>9 DEF IInv, GossipInv, Gossip, Signed, Issued
<1>12. LastInv' BY <1>1 DEF IInv, LastInv
<1> QED BY <1>7, <1>8, <1>10, <1>11, <1>12 DEF IInv

\* The replica's clock is issued, and valueTS joined with it.
LEMMA RaiseClockStep ==
  ASSUME IInv, NEW u \in User, RaiseClock(u)
  PROVE  IInv'
<1> DEFINE r == call[u].at
<1>1. UNCHANGED <<ledger, mapTS, written, userTS, gossip>> BY DEF RaiseClock
<1>2. r \in Replica BY DEF RaiseClock, IInv, CallInv, Call
<1>3. Join(valueTS[r], mapTS[r]) \in TS /\ Leq(Join(valueTS[r], mapTS[r]), written)
  BY <1>2, JoinIssued DEF IInv, ClockInv
<1>4. ClockInv' BY <1>1, <1>2, <1>3 DEF RaiseClock, IInv, ClockInv
<1>5. CallInv' BY <1>1, CallMoves DEF RaiseClock
<1> QED BY <1>1, <1>4, <1>5, Frame DEF IInv

\* Whatever operation is the last one now, it gets an issued timestamp.
LEMMA StampRequestStep ==
  ASSUME IInv, NEW u \in User, StampRequest(u)
  PROVE  IInv'
<1> DEFINE r == call[u].at
<1>1. UNCHANGED <<mapTS, valueTS, written, userTS, gossip>> BY DEF StampRequest, clocks
<1>2. r \in Replica BY DEF StampRequest, IInv, CallInv, Call
<1>3. Issued(call[u].prev) BY DEF Issued, IInv, CallInv, Call
<1>4. SoundLedger(ledger[r]) BY <1>2 DEF IInv, LedgerInv
<1>5. ledger' = [ledger EXCEPT ![r] = SetPrevTS(ledger[r], call[u].prev)] BY DEF StampRequest
<1>6. LedgerInv' /\ LastInv' BY <1>1, <1>2, <1>3, <1>4, <1>5, StampSound, LedgerKept
<1>7. CallInv' BY <1>1, CallMoves DEF StampRequest
<1> QED BY <1>1, <1>6, <1>7, Frame DEF IInv

LEMMA StampReplicaStep ==
  ASSUME IInv, NEW u \in User, StampReplica(u)
  PROVE  IInv'
<1> DEFINE r == call[u].at
<1>1. UNCHANGED <<mapTS, valueTS, written, userTS, gossip>> BY DEF StampReplica, clocks
<1>2. r \in Replica BY DEF StampReplica, IInv, CallInv, Call
<1>3. Issued(mapTS[r]) BY <1>2 DEF Issued, IInv, ClockInv
<1>4. SoundLedger(ledger[r]) BY <1>2 DEF IInv, LedgerInv
<1>5. ledger' = [ledger EXCEPT ![r] = SetTS(ledger[r], mapTS[r])] BY DEF StampReplica
<1>6. LedgerInv' /\ LastInv' BY <1>1, <1>2, <1>3, <1>4, <1>5, StampSound, LedgerKept
<1>7. CallInv' BY <1>1, CallMoves DEF StampReplica
<1> QED BY <1>1, <1>6, <1>7, Frame DEF IInv

\* The user joins the replica's timestamp into its own.
LEMMA AnswerStep ==
  ASSUME IInv, NEW u \in User, Answer(u)
  PROVE  IInv'
<1> DEFINE r == call[u].at
<1>1. UNCHANGED <<ledger, mapTS, valueTS, written, gossip>> BY DEF Answer, clocks
<1>2. r \in Replica BY DEF Answer, IInv, CallInv, Call
<1>3. Join(userTS[u], mapTS[r]) \in TS /\ Leq(Join(userTS[u], mapTS[r]), written)
  BY <1>2, JoinIssued DEF IInv, ClockInv
<1>4. ClockInv' BY <1>1, <1>3 DEF Answer, IInv, ClockInv
<1>5. CallInv' BY <1>1, CallMoves DEF Answer
<1> QED BY <1>1, <1>4, <1>5, Frame DEF IInv

\* A balance carries the timestamp of its user.
LEMMA AskBalanceStep ==
  ASSUME IInv, NEW u \in User, NEW r \in Replica, NEW a \in Reads[u], AskBalance(u, r, a)
  PROVE  IInv'
<1>1. UNCHANGED <<ledger, mapTS, valueTS, written, userTS, gossip>> BY DEF AskBalance, clocks
<1>2. [type |-> "balance", account |-> a] \in AnyRequest
  BY AccountAssumption DEF AnyRequest
<1>3. CallInv'
  BY <1>1, <1>2, NothingYet, ReplicaAssumption DEF AskBalance, IInv, ClockInv, CallInv, Call
<1> QED BY <1>1, <1>3, Frame DEF IInv

\* The user joins the value timestamp into its own.
LEMMA BalanceStep ==
  ASSUME IInv, NEW u \in User, Balance(u)
  PROVE  IInv'
<1> DEFINE r == call[u].at
<1>1. UNCHANGED <<ledger, mapTS, valueTS, written, gossip>> BY DEF Balance, clocks
<1>2. r \in Replica BY DEF Balance, IInv, CallInv, Call
<1>3. Join(userTS[u], valueTS[r]) \in TS /\ Leq(Join(userTS[u], valueTS[r]), written)
  BY <1>2, JoinIssued DEF IInv, ClockInv
<1>4. ClockInv' BY <1>1, <1>3 DEF Balance, IInv, ClockInv
<1>5. CallInv' BY <1>1 DEF Balance, IInv, CallInv, Call
<1> QED BY <1>1, <1>4, <1>5, Frame DEF IInv

\* Activating and deactivating touches no timestamp.
LEMMA SetActiveStep ==
  ASSUME IInv, NEW r \in MayStop, SetActive(r)
  PROVE  IInv'
BY Frame DEF SetActive, clocks, IInv

\* Gossip goes on at its receiver, or back at its sender.
LEMMA GossipGoesOn ==
  ASSUME IInv, UNCHANGED written, gossip.pc \in Receiving, NEW p \in {"send"} \cup Receiving,
         NEW m \in Seq(Op), \A j \in DOMAIN m : Signed(m[j]), p \in AtLast \cup AtFound => m # <<>>,
         NEW i \in Nat, i > 0, gossip' = [gossip EXCEPT !.pc = p, !.msg = m, !.i = i]
  PROVE  /\ GossipInv'
         /\ gossip'.pc = p /\ gossip'.to = gossip.to /\ gossip'.msg = m /\ gossip'.i = i
<1>1. gossip \in Gossip BY DEF IInv, GossipInv
<1>2. gossip' \in Gossip BY <1>1 DEF Gossip
<1>3. /\ gossip'.pc = p /\ gossip'.to = gossip.to /\ gossip'.msg = m /\ gossip'.i = i
      /\ gossip'.from = gossip.from
  BY <1>1 DEF Gossip
<1>4. gossip.pc # "idle" /\ gossip.to \in Replica /\ gossip.from \in Replica
  BY DEF IInv, GossipInv, Receiving
<1> QED BY <1>2, <1>3, <1>4 DEF GossipInv, Signed, Issued

\* It ends with nothing left to carry.
LEMMA GossipEnds ==
  ASSUME gossip' = NoGossip
  PROVE  GossipInv' /\ gossip'.pc \notin AtLast \cup AtFound
BY NothingYet DEF GossipInv, AtLast, AtFound, Receiving

\* The sender sorts its ledger.
LEMMA StartGossipStep ==
  ASSUME IInv, NEW r \in Replica, StartGossip(r)
  PROVE  IInv'
<1>1. UNCHANGED <<mapTS, valueTS, written, userTS, call>> BY DEF StartGossip, clocks
<1>2. PICK L \in SortLedger(ledger[r]) : ledger' = [ledger EXCEPT ![r] = L] BY DEF StartGossip
<1>3. SoundLedger(L) /\ DOMAIN L = DOMAIN ledger[r] BY <1>2, SortSound DEF IInv, LedgerInv
<1>4. LedgerInv' BY <1>1, <1>2, <1>3, LedgerKept
<1>5. \/ gossip' = NoGossip
      \/ gossip' = [NoGossip EXCEPT !.pc = "send", !.from = r, !.todo = Replica \ {r}]
  BY DEF StartGossip
<1>6. GossipInv' /\ gossip'.pc \notin AtLast \cup AtFound
  <2>1. CASE gossip' = NoGossip BY <2>1, GossipEnds
  <2>2. CASE gossip' = [NoGossip EXCEPT !.pc = "send", !.from = r, !.todo = Replica \ {r}]
    BY <2>2, NothingYet, ReplicaAssumption DEF GossipInv, Gossip, AtLast, AtFound, Receiving
  <2> QED BY <1>5, <2>1, <2>2
<1> QED BY <1>1, <1>4, <1>6, Frame DEF IInv

\* The message has issued timestamps, or is not sent.
LEMMA SendToStep ==
  ASSUME IInv, NEW q \in Replica, SendTo(q)
  PROVE  IInv'
<1> DEFINE M == Outgoing(gossip.from, q)
<1>1. UNCHANGED <<ledger, mapTS, valueTS, written, userTS, call>> BY DEF SendTo, clocks
<1>2. gossip.pc = "send" /\ gossip.from \in Replica BY DEF SendTo, IInv, GossipInv, Gossip
<1>3. Sendable(M) => M \in Seq(Op) /\ \A j \in DOMAIN M : Signed(M[j])
  BY <1>2, OutgoingSigned
<1>4. \/ gossip' = NoGossip
      \/ gossip' = [gossip EXCEPT !.todo = @ \ {q}]
      \/ /\ Sendable(M)
         /\ gossip' = [gossip EXCEPT !.pc = "take", !.todo = @ \ {q}, !.to = q, !.msg = M]
  BY DEF SendTo
<1> HIDE DEF M
<1>5. GossipInv' /\ gossip'.pc \notin AtLast \cup AtFound
  <2>1. CASE gossip' = NoGossip BY <2>1, GossipEnds
  <2>2. CASE gossip' = [gossip EXCEPT !.todo = @ \ {q}]
    BY <1>1, <1>2, <2>2 DEF IInv, GossipInv, Gossip, Signed, Issued, Receiving, AtLast, AtFound
  <2>3. CASE /\ Sendable(M)
             /\ gossip' = [gossip EXCEPT !.pc = "take", !.todo = @ \ {q}, !.to = q, !.msg = M]
    BY <1>1, <1>2, <1>3, <2>3, ReplicaAssumption
       DEF IInv, GossipInv, Gossip, Signed, Issued, Receiving, AtLast, AtFound
  <2> QED BY <1>4, <2>1, <2>2, <2>3
<1> QED BY <1>1, <1>5, Frame DEF IInv

\* The gossip ends.
LEMMA EndGossipStep ==
  ASSUME IInv, EndGossip
  PROVE  IInv'
<1>1. UNCHANGED <<ledger, mapTS, valueTS, written, userTS, call>> /\ gossip' = NoGossip
  BY DEF EndGossip, clocks
<1> QED BY <1>1, GossipEnds, Frame DEF IInv

\* The operation at the head of the message, and what is left of the message.
LEMMA HeadSigned ==
  ASSUME IInv, gossip.msg # <<>>
  PROVE  /\ Head(gossip.msg) \in Op /\ Signed(Head(gossip.msg))
         /\ Tail(gossip.msg) \in Seq(Op)
         /\ \A j \in DOMAIN Tail(gossip.msg) : Signed(Tail(gossip.msg)[j])
<1> DEFINE m == gossip.msg
<1>1. m \in Seq(Op) /\ m # <<>> /\ \A j \in DOMAIN m : Signed(m[j]) BY DEF IInv, GossipInv, Gossip
<1> HIDE DEF m
<1>2. Len(m) \in Nat /\ Len(m) >= 1 /\ DOMAIN m = 1..Len(m) /\ Head(m) = m[1] BY <1>1
<1>3. Tail(m) \in Seq(Op) /\ Len(Tail(m)) = Len(m) - 1 BY <1>1
<1>4. \A j \in 1..Len(Tail(m)) : Tail(m)[j] = m[j + 1] BY <1>1
<1>5. ASSUME NEW j \in DOMAIN Tail(m) PROVE Signed(Tail(m)[j])
  <2>1. j \in 1..Len(Tail(m)) BY <1>3
  <2> QED BY <1>1, <1>2, <1>3, <1>4, <2>1
<1> QED BY <1>1, <1>2, <1>3, <1>5 DEF m

\* What gossip is when it receives.
LEMMA GossipThere ==
  ASSUME IInv, gossip.pc \in Receiving
  PROVE  /\ gossip.to \in Replica /\ SoundLedger(ledger[gossip.to])
         /\ gossip.msg \in Seq(Op) /\ \A j \in DOMAIN gossip.msg : Signed(gossip.msg[j])
         /\ gossip.i \in Nat /\ gossip.i > 0
         /\ \A p : [gossip EXCEPT !.pc = p] = [gossip EXCEPT !.pc = p, !.msg = gossip.msg, !.i = gossip.i]
         /\ \A i : [gossip EXCEPT !.i = i] = [gossip EXCEPT !.pc = gossip.pc, !.msg = gossip.msg, !.i = i]
         /\ \A m : [gossip EXCEPT !.msg = m] = [gossip EXCEPT !.pc = gossip.pc, !.msg = m, !.i = gossip.i]
         /\ \A p, i : [gossip EXCEPT !.pc = p, !.i = i]
                        = [gossip EXCEPT !.pc = p, !.msg = gossip.msg, !.i = i]
<1>1. gossip \in Gossip BY DEF IInv, GossipInv
<1>2. gossip.to \in Replica /\ SoundLedger(ledger[gossip.to]) BY DEF IInv, GossipInv, LedgerInv
<1>3. /\ gossip.msg \in Seq(Op) /\ \A j \in DOMAIN gossip.msg : Signed(gossip.msg[j])
      /\ gossip.i \in Nat /\ gossip.i > 0
  BY <1>1 DEF IInv, GossipInv, Gossip
<1>4. /\ \A p : [gossip EXCEPT !.pc = p] = [gossip EXCEPT !.pc = p, !.msg = gossip.msg, !.i = gossip.i]
      /\ \A i : [gossip EXCEPT !.i = i] = [gossip EXCEPT !.pc = gossip.pc, !.msg = gossip.msg, !.i = i]
      /\ \A m : [gossip EXCEPT !.msg = m] = [gossip EXCEPT !.pc = gossip.pc, !.msg = m, !.i = gossip.i]
      /\ \A p, i : [gossip EXCEPT !.pc = p, !.i = i]
                     = [gossip EXCEPT !.pc = p, !.msg = gossip.msg, !.i = i]
  BY <1>1 DEF Gossip
<1> QED BY <1>2, <1>3, <1>4

\* An operation of the message is skipped, or its timestamp joined into the clock
\* and the operation added without one.
LEMMA TakeOperationStep ==
  ASSUME IInv, TakeOperation
  PROVE  IInv'
<1> DEFINE q  == gossip.to
           op == Head(gossip.msg)
           o2 == [op EXCEPT !.prev = NoTS, !.ts = NoTS]
<1>1. UNCHANGED <<valueTS, written, userTS, call>> BY DEF TakeOperation
<1>2. gossip.pc \in Receiving /\ gossip.msg # <<>> BY DEF TakeOperation, Receiving
<1>3. q \in Replica /\ SoundLedger(ledger[q]) BY <1>2, GossipThere
<1>4. \/ gossip' = NoGossip /\ UNCHANGED <<ledger, mapTS>>
      \/ gossip' = [gossip EXCEPT !.msg = Tail(@)] /\ UNCHANGED <<ledger, mapTS>>
      \/ /\ mapTS' = [mapTS EXCEPT ![q] = Join(@, op.ts)]
         /\ ledger' = [ledger EXCEPT ![q] = Append(@, o2)]
         /\ gossip' = [gossip EXCEPT !.pc = "stamp"]
  BY DEF TakeOperation
<1>5. gossip.pc = "take" /\ op \in Op /\ Signed(op) BY <1>2, HeadSigned DEF TakeOperation
<1>6. CASE gossip' = NoGossip /\ UNCHANGED <<ledger, mapTS>>
  BY <1>1, <1>6, GossipEnds, Frame DEF IInv
<1>7. CASE gossip' = [gossip EXCEPT !.msg = Tail(@)] /\ UNCHANGED <<ledger, mapTS>>
  <2>1. gossip' = [gossip EXCEPT !.pc = "take", !.msg = Tail(gossip.msg), !.i = gossip.i]
    BY <1>2, <1>5, <1>7, GossipThere
  <2>2. GossipInv' /\ gossip'.pc = "take"
    <3>1. gossip.i \in Nat /\ gossip.i > 0 BY <1>2, GossipThere
    <3>2. "take" \in Receiving /\ "take" \notin AtLast \cup AtFound
      BY DEF Receiving, AtLast, AtFound
    <3> QED BY <1>1, <1>2, <2>1, <3>1, <3>2, HeadSigned, GossipGoesOn
  <2> QED BY <1>1, <1>7, <2>2, Frame DEF IInv, AtLast, AtFound
<1>8. CASE /\ mapTS' = [mapTS EXCEPT ![q] = Join(@, op.ts)]
           /\ ledger' = [ledger EXCEPT ![q] = Append(@, o2)]
           /\ gossip' = [gossip EXCEPT !.pc = "stamp"]
  <2> HIDE DEF op
  <2>1. o2 \in Op /\ o2.prev = NoTS /\ o2.ts = NoTS BY <1>5 DEF Op
  <2> HIDE DEF o2
  <2>2. /\ SoundLedger(Append(ledger[q], o2)) /\ 1 \in DOMAIN Append(ledger[q], o2)
        /\ DOMAIN ledger[q] \subseteq DOMAIN Append(ledger[q], o2)
    BY <1>3, <2>1, AppendSound
  <2>3. ledger' = [ledger EXCEPT ![q] = Append(ledger[q], o2)] BY <1>8
  <2>4. LedgerInv' BY <1>1, <1>3, <2>2, <2>3, LedgerKept
  <2>5. Join(mapTS[q], op.ts) \in TS /\ Leq(Join(mapTS[q], op.ts), written)
    BY <1>3, <1>5, JoinIssued DEF IInv, ClockInv, Signed, Issued
  <2>6. ClockInv' BY <1>1, <1>3, <1>8, <2>5 DEF IInv, ClockInv
  <2>7. gossip' = [gossip EXCEPT !.pc = "stamp", !.msg = gossip.msg, !.i = gossip.i]
    BY <1>2, <1>8, GossipThere
  <2>8. GossipInv' /\ gossip'.pc = "stamp" /\ gossip'.to = q
    <3>1. "stamp" \in Receiving BY DEF Receiving
    <3> QED BY <1>1, <1>2, <2>7, <3>1, GossipThere, GossipGoesOn
  <2>9. LastInv' BY <1>3, <2>2, <2>3, <2>8, LastKept DEF AtFound
  <2> QED BY <1>1, <2>4, <2>6, <2>8, <2>9, Frame DEF IInv
<1> QED BY <1>4, <1>6, <1>7, <1>8

\* The last operation gets the prev of the message, then its timestamp.
LEMMA StampPrevStep ==
  ASSUME IInv, StampPrev
  PROVE  IInv'
<1> DEFINE q == gossip.to
           M == SetPrevTS(ledger[q], Head(gossip.msg).prev)
<1>1. UNCHANGED <<mapTS, valueTS, written, userTS, call>> BY DEF StampPrev, clocks
<1>2. gossip.pc = "stamp" /\ gossip.pc \in Receiving /\ gossip.msg # <<>>
  BY DEF StampPrev, IInv, GossipInv, Receiving, AtLast
<1>3. q \in Replica /\ SoundLedger(ledger[q]) BY <1>2, GossipThere
<1>4. Issued(Head(gossip.msg).prev) BY <1>2, HeadSigned DEF Signed
<1>5. SoundLedger(M) /\ DOMAIN M = DOMAIN ledger[q] BY <1>3, <1>4, StampSound
<1>6. ledger' = [ledger EXCEPT ![q] = M] BY DEF StampPrev
<1> HIDE DEF M
<1>7. LedgerInv' BY <1>1, <1>3, <1>5, <1>6, LedgerKept
<1>8. gossip' = [gossip EXCEPT !.pc = "mark", !.msg = gossip.msg, !.i = gossip.i]
  BY <1>2, GossipThere DEF StampPrev
<1>9. GossipInv' /\ gossip'.pc = "mark" /\ gossip'.to = q
  <2>1. "mark" \in Receiving BY DEF Receiving
  <2> QED BY <1>1, <1>2, <1>8, <2>1, GossipThere, GossipGoesOn
<1>10. 1 \in DOMAIN ledger[q] BY <1>2 DEF IInv, LastInv, AtLast
<1>11. LastInv' BY <1>3, <1>5, <1>6, <1>9, <1>10, LastKept DEF AtFound
<1> QED BY <1>1, <1>7, <1>9, <1>11, Frame DEF IInv

LEMMA StampTSStep ==
  ASSUME IInv, StampTS
  PROVE  IInv'
<1> DEFINE q == gossip.to
           M == SetTS(ledger[q], Head(gossip.msg).ts)
<1>1. UNCHANGED <<mapTS, valueTS, written, userTS, call>> BY DEF StampTS, clocks
<1>2. gossip.pc = "mark" /\ gossip.pc \in Receiving /\ gossip.msg # <<>>
  BY DEF StampTS, IInv, GossipInv, Receiving, AtLast
<1>3. q \in Replica /\ SoundLedger(ledger[q]) BY <1>2, GossipThere
<1>4. Issued(Head(gossip.msg).ts) BY <1>2, HeadSigned DEF Signed
<1>5. SoundLedger(M) /\ DOMAIN M = DOMAIN ledger[q] BY <1>3, <1>4, StampSound
<1>6. ledger' = [ledger EXCEPT ![q] = M] BY DEF StampTS
<1> HIDE DEF M
<1>7. LedgerInv' BY <1>1, <1>3, <1>5, <1>6, LedgerKept
<1>8. gossip' = [gossip EXCEPT !.pc = "check", !.msg = gossip.msg, !.i = gossip.i]
  BY <1>2, GossipThere DEF StampTS
<1>9. GossipInv' /\ gossip'.pc = "check" /\ gossip'.to = q
  <2>1. "check" \in Receiving BY DEF Receiving
  <2> QED BY <1>1, <1>2, <1>8, <2>1, GossipThere, GossipGoesOn
<1>10. 1 \in DOMAIN ledger[q] BY <1>2 DEF IInv, LastInv, AtLast
<1>11. LastInv' BY <1>3, <1>5, <1>6, <1>9, <1>10, LastKept DEF AtFound
<1> QED BY <1>1, <1>7, <1>9, <1>11, Frame DEF IInv

\* The last operation is there.
LEMMA CheckOperationStep ==
  ASSUME IInv, CheckOperation
  PROVE  IInv'
<1> DEFINE q == gossip.to
           n == Len(ledger[q])
<1>1. UNCHANGED <<ledger, mapTS, valueTS, written, userTS, call>> BY DEF CheckOperation, clocks
<1>2. gossip.pc = "check" /\ gossip.pc \in Receiving /\ gossip.msg # <<>>
  BY DEF CheckOperation, IInv, GossipInv, Receiving, AtLast
<1>3. q \in Replica /\ 1 \in DOMAIN ledger[q] /\ ledger[q] \in Seq(Op)
  BY <1>2, GossipThere DEF IInv, LastInv, AtLast, SoundLedger
<1>4. n \in Nat /\ n > 0 /\ n \in DOMAIN ledger[q]
  <2>1. DOMAIN ledger[q] = 1..n /\ n \in Nat BY <1>3
  <2> HIDE DEF n
  <2> QED BY <1>3, <2>1
<1>5. CASE gossip' = NoGossip BY <1>1, <1>5, GossipEnds, Frame DEF IInv
<1>6. ASSUME gossip' # NoGossip PROVE IInv'
  <2>1. PICK p \in {"raise", "count"} : gossip' = [gossip EXCEPT !.pc = p, !.i = n]
    BY <1>6 DEF CheckOperation
  <2>2. gossip' = [gossip EXCEPT !.pc = p, !.msg = gossip.msg, !.i = n] BY <1>2, <2>1, GossipThere
  <2>3. p \in Receiving /\ p \notin AtLast BY DEF Receiving, AtLast
  <2> HIDE DEF n
  <2>4. GossipInv' /\ gossip'.pc = p /\ gossip'.to = q /\ gossip'.i = n
    BY <1>1, <1>2, <1>4, <2>2, <2>3, GossipThere, GossipGoesOn
  <2>5. LastInv' BY <1>1, <1>4, <2>3, <2>4 DEF LastInv
  <2> QED BY <1>1, <2>4, <2>5, Frame DEF IInv
<1> QED BY <1>5, <1>6

\* The timestamp of an operation of a sound ledger is issued when it is there.
LEMMA TimestampIssued ==
  ASSUME IInv, NEW q \in Replica, NEW i \in DOMAIN ledger[q], TimestampOf(q, ledger[q][i]) # NoTS
  PROVE  /\ Join(valueTS[q], TimestampOf(q, ledger[q][i])) \in TS
         /\ Leq(Join(valueTS[q], TimestampOf(q, ledger[q][i])), written)
<1>1. Sound(ledger[q][i]) BY DEF IInv, LedgerInv, SoundLedger
<1>2. Issued(valueTS[q]) BY DEF IInv, ClockInv, Issued
<1>3. Issued(TimestampOf(q, ledger[q][i])) BY <1>1, <1>2 DEF TimestampOf, Sound
<1> QED BY <1>2, <1>3, JoinIssued DEF IInv, ClockInv, Issued

\* valueTS is raised by the timestamp of the operation found.
LEMMA RaiseValueStep ==
  ASSUME IInv, RaiseValue
  PROVE  IInv'
<1> DEFINE q  == gossip.to
           ts == TimestampOf(q, ledger[q][gossip.i])
<1>1. UNCHANGED <<ledger, mapTS, written, userTS, call>> BY DEF RaiseValue
<1>2. gossip.pc \in AtFound /\ gossip.pc \in Receiving /\ gossip.msg # <<>>
  BY DEF RaiseValue, IInv, GossipInv, Receiving, AtFound
<1>3. q \in Replica /\ gossip.i \in DOMAIN ledger[q] BY <1>2, GossipThere DEF IInv, LastInv
<1>4. CASE ts = NoTS
  <2>1. gossip' = NoGossip /\ UNCHANGED valueTS BY <1>4 DEF RaiseValue
  <2> QED BY <1>1, <2>1, GossipEnds, Frame DEF IInv
<1>5. CASE ts # NoTS
  <2>1. Join(valueTS[q], ts) \in TS /\ Leq(Join(valueTS[q], ts), written)
    BY <1>3, <1>5, TimestampIssued
  <2>2. valueTS' = [valueTS EXCEPT ![q] = Join(valueTS[q], ts)] BY <1>5 DEF RaiseValue
  <2>3. \/ gossip' = [gossip EXCEPT !.pc = "apply"]
        \/ gossip' = [gossip EXCEPT !.pc = "take", !.msg = Tail(@), !.i = 1]
    BY <1>5 DEF RaiseValue
  <2> HIDE DEF ts
  <2>4. ClockInv' BY <1>1, <1>3, <2>1, <2>2 DEF IInv, ClockInv
  <2>5. CASE gossip' = [gossip EXCEPT !.pc = "apply"]
    <3>1. gossip' = [gossip EXCEPT !.pc = "apply", !.msg = gossip.msg, !.i = gossip.i]
      BY <1>2, <2>5, GossipThere
    <3>2. "apply" \in Receiving BY DEF Receiving
    <3>3. GossipInv' /\ gossip'.pc = "apply" /\ gossip'.to = q /\ gossip'.i = gossip.i
      <4>1. gossip.msg \in Seq(Op) /\ (\A j \in DOMAIN gossip.msg : Signed(gossip.msg[j]))
            /\ gossip.i \in Nat /\ gossip.i > 0 BY <1>2, GossipThere
      <4> QED BY <1>1, <1>2, <3>1, <3>2, <4>1, GossipGoesOn
    <3>4. LastInv' BY <1>1, <1>3, <3>3 DEF LastInv, AtLast
    <3> QED BY <1>1, <2>4, <3>3, <3>4, Frame DEF IInv
  <2>6. CASE gossip' = [gossip EXCEPT !.pc = "take", !.msg = Tail(@), !.i = 1]
    <3>1. gossip' = [gossip EXCEPT !.pc = "take", !.msg = Tail(gossip.msg), !.i = 1] BY <2>6
    <3>2. "take" \in Receiving /\ "take" \notin AtLast \cup AtFound
      BY DEF Receiving, AtLast, AtFound
    <3>3. GossipInv' /\ gossip'.pc = "take"
      <4>1. 1 \in Nat /\ 1 > 0 OBVIOUS
      <4> QED BY <1>1, <1>2, <3>1, <3>2, <4>1, HeadSigned, GossipGoesOn
    <3> QED BY <1>1, <2>4, <3>2, <3>3, Frame DEF IInv
  <2> QED BY <2>3, <2>5, <2>6
<1> QED BY <1>4, <1>5

\* No timestamp changes when the operation found is executed.
LEMMA ExecuteOperationStep ==
  ASSUME IInv, ExecuteOperation
  PROVE  IInv'
<1>1. UNCHANGED <<ledger, mapTS, valueTS, written, userTS, call>> BY DEF ExecuteOperation, clocks
<1>2. gossip.pc \in AtFound /\ gossip.pc \in Receiving /\ gossip.msg # <<>>
  BY DEF ExecuteOperation, IInv, GossipInv, Receiving, AtFound
<1>3. gossip' = [gossip EXCEPT !.pc = "count", !.msg = gossip.msg, !.i = gossip.i]
  BY <1>2, GossipThere DEF ExecuteOperation
<1>4. "count" \in Receiving BY DEF Receiving
<1>5. GossipInv' /\ gossip'.pc = "count" /\ gossip'.to = gossip.to /\ gossip'.i = gossip.i
  <2>1. gossip.msg \in Seq(Op) /\ (\A j \in DOMAIN gossip.msg : Signed(gossip.msg[j]))
        /\ gossip.i \in Nat /\ gossip.i > 0 BY <1>2, GossipThere
  <2> QED BY <1>1, <1>2, <1>3, <1>4, <2>1, GossipGoesOn
<1>6. LastInv' BY <1>1, <1>2, <1>5 DEF IInv, LastInv, AtLast
<1> QED BY <1>1, <1>5, <1>6, Frame DEF IInv

\* The receiver sorts its ledger.
LEMMA SortReceivedStep ==
  ASSUME IInv, SortReceived
  PROVE  IInv'
<1> DEFINE q == gossip.to
<1>1. UNCHANGED <<mapTS, valueTS, written, userTS, call>> BY DEF SortReceived, clocks
<1>2. gossip.pc \in Receiving BY DEF SortReceived, Receiving
<1>3. q \in Replica /\ SoundLedger(ledger[q]) BY <1>2, GossipThere
<1>4. PICK L \in SortLedger(ledger[q]) : ledger' = [ledger EXCEPT ![q] = L] BY DEF SortReceived
<1>5. SoundLedger(L) /\ DOMAIN L = DOMAIN ledger[q] BY <1>3, <1>4, SortSound
<1>6. LedgerInv' BY <1>1, <1>3, <1>4, <1>5, LedgerKept
<1>7. GossipInv' /\ gossip'.pc \notin AtLast \cup AtFound
  <2>1. CASE gossip' = NoGossip BY <2>1, GossipEnds
  <2>2. CASE gossip' = [gossip EXCEPT !.pc = "sorted"]
    <3>1. gossip' = [gossip EXCEPT !.pc = "sorted", !.msg = gossip.msg, !.i = gossip.i]
      BY <1>2, <2>2, GossipThere
    <3>2. "sorted" \in Receiving /\ "sorted" \notin AtLast \cup AtFound
      BY DEF Receiving, AtLast, AtFound
    <3> QED BY <1>1, <1>2, <3>1, <3>2, GossipThere, GossipGoesOn
  <2> QED BY <2>1, <2>2 DEF SortReceived
<1> QED BY <1>1, <1>6, <1>7, Frame DEF IInv

\* It starts to go through its ledger.
LEMMA StartRunStep ==
  ASSUME IInv, StartRun
  PROVE  IInv'
<1>1. UNCHANGED <<ledger, mapTS, valueTS, written, userTS, call>> BY DEF StartRun, clocks
<1>2. gossip.pc \in Receiving BY DEF StartRun, Receiving
<1>3. gossip' = [gossip EXCEPT !.pc = "run", !.msg = gossip.msg, !.i = 1]
  BY <1>2, GossipThere DEF StartRun
<1>4. "run" \in Receiving /\ "run" \notin AtLast \cup AtFound BY DEF Receiving, AtLast, AtFound
<1>5. GossipInv' /\ gossip'.pc = "run"
  <2>1. 1 \in Nat /\ 1 > 0 OBVIOUS
  <2> QED BY <1>1, <1>2, <1>3, <1>4, <2>1, GossipThere, GossipGoesOn
<1> QED BY <1>1, <1>4, <1>5, Frame DEF IInv

\* An operation that is executed late raises valueTS by an issued timestamp.
LEMMA RunUnstableStep ==
  ASSUME IInv, RunUnstable
  PROVE  IInv'
<1> DEFINE q  == gossip.to
           i  == gossip.i
           ts == TimestampOf(q, ledger[q][i])
<1>1. UNCHANGED <<mapTS, written, userTS, call>> BY DEF RunUnstable
<1>2. gossip.pc = "run" /\ gossip.pc \in Receiving /\ i <= Len(ledger[q])
  BY DEF RunUnstable, Receiving
<1>3. q \in Replica /\ SoundLedger(ledger[q]) /\ i \in Nat /\ i > 0 BY <1>2, GossipThere
<1>4. i \in DOMAIN ledger[q]
  <2>1. DOMAIN ledger[q] = 1..Len(ledger[q]) /\ Len(ledger[q]) \in Nat BY <1>3 DEF SoundLedger
  <2> HIDE DEF i
  <2> QED BY <1>2, <1>3, <2>1
<1>5. \/ gossip' = NoGossip
      \/ gossip' = [gossip EXCEPT !.i = @ + 1]
      \/ gossip' = [gossip EXCEPT !.pc = "send", !.i = 1]
  BY DEF RunUnstable
<1>6. \/ UNCHANGED <<ledger, valueTS>>
      \/ /\ ts # NoTS
         /\ valueTS' = [valueTS EXCEPT ![q] = Join(valueTS[q], ts)]
         /\ ledger' = [ledger EXCEPT ![q] = [ledger[q] EXCEPT ![i].live = TRUE]]
  BY DEF RunUnstable
<1>7. GossipInv' /\ gossip'.pc \notin AtLast \cup AtFound
  <2>1. "run" \in Receiving /\ "run" \notin AtLast \cup AtFound /\ "send" \notin AtLast \cup AtFound
    BY DEF Receiving, AtLast, AtFound
  <2>2. CASE gossip' = NoGossip BY <2>2, GossipEnds
  <2>3. CASE gossip' = [gossip EXCEPT !.i = @ + 1]
    <3>1. PICK k \in Nat : k = i + 1 /\ k > 0 BY <1>3
    <3>2. gossip' = [gossip EXCEPT !.i = k] BY <2>3, <3>1
    <3>3. gossip' = [gossip EXCEPT !.pc = "run", !.msg = gossip.msg, !.i = k]
      BY <1>2, <3>2, GossipThere
    <3> QED BY <1>1, <1>2, <2>1, <3>1, <3>3, GossipThere, GossipGoesOn
  <2>4. CASE gossip' = [gossip EXCEPT !.pc = "send", !.i = 1]
    <3>1. gossip' = [gossip EXCEPT !.pc = "send", !.msg = gossip.msg, !.i = 1]
      BY <1>2, <2>4, GossipThere
    <3>2. 1 \in Nat /\ 1 > 0 OBVIOUS
    <3> QED BY <1>1, <1>2, <2>1, <3>1, <3>2, GossipThere, GossipGoesOn
  <2> QED BY <1>5, <2>2, <2>3, <2>4
<1>8. CASE UNCHANGED <<ledger, valueTS>> BY <1>1, <1>7, <1>8, Frame DEF IInv
<1>9. CASE /\ ts # NoTS
           /\ valueTS' = [valueTS EXCEPT ![q] = Join(valueTS[q], ts)]
           /\ ledger' = [ledger EXCEPT ![q] = [ledger[q] EXCEPT ![i].live = TRUE]]
  <2> DEFINE L == [ledger[q] EXCEPT ![i].live = TRUE]
  <2>1. Join(valueTS[q], ts) \in TS /\ Leq(Join(valueTS[q], ts), written)
    BY <1>3, <1>4, <1>9, TimestampIssued
  <2>2. SoundLedger(L) BY <1>3, <1>4, LiveSound
  <2>3. DOMAIN L = DOMAIN ledger[q] OBVIOUS
  <2> HIDE DEF ts, L
  <2>4. ClockInv' BY <1>1, <1>3, <1>9, <2>1 DEF IInv, ClockInv
  <2>5. LedgerInv' BY <1>1, <1>3, <1>9, <2>2, <2>3, LedgerKept DEF L
  <2> QED BY <1>1, <1>7, <2>4, <2>5, Frame DEF IInv
<1> QED BY <1>6, <1>8, <1>9

\* The receiver is done.
LEMMA EndRunStep ==
  ASSUME IInv, EndRun
  PROVE  IInv'
<1>1. UNCHANGED <<ledger, mapTS, valueTS, written, userTS, call>> BY DEF EndRun, clocks
<1>2. gossip.pc \in Receiving BY DEF EndRun, Receiving
<1>3. gossip' = [gossip EXCEPT !.pc = "send", !.msg = gossip.msg, !.i = 1]
  BY <1>2, GossipThere DEF EndRun
<1>4. "send" \notin AtLast \cup AtFound BY DEF AtLast, AtFound
<1>5. GossipInv' /\ gossip'.pc = "send"
  <2>1. 1 \in Nat /\ 1 > 0 OBVIOUS
  <2> QED BY <1>1, <1>2, <1>3, <1>4, <2>1, GossipThere, GossipGoesOn
<1> QED BY <1>1, <1>4, <1>5, Frame DEF IInv

-----------------------------------------------------------------------------
\* Every step keeps IInv.
LEMMA NextIInv == IInv /\ [Next]_vars => IInv'
<1> SUFFICES ASSUME IInv, [Next]_vars PROVE IInv' OBVIOUS
<1>1. ASSUME NEW u \in User, NEW r \in Replica, NEW req \in Writes[u], AskWrite(u, r, req)
      PROVE  IInv'
  BY <1>1, AskWriteStep
<1>2. ASSUME NEW u \in User,
             \/ AddOperation(u) \/ ReadClock(u) \/ PutClock(u) \/ RaiseClock(u)
             \/ StampRequest(u) \/ StampReplica(u) \/ Answer(u) \/ Balance(u)
      PROVE  IInv'
  BY <1>2, AddOperationStep, ReadClockStep, PutClockStep, RaiseClockStep, StampRequestStep,
     StampReplicaStep, AnswerStep, BalanceStep
<1>3. ASSUME NEW u \in User, NEW r \in Replica, NEW a \in Reads[u], AskBalance(u, r, a)
      PROVE  IInv'
  BY <1>3, AskBalanceStep
<1>4. ASSUME NEW r \in Replica, StartGossip(r) PROVE IInv' BY <1>4, StartGossipStep
<1>5. ASSUME NEW r \in MayStop, SetActive(r) PROVE IInv' BY <1>5, SetActiveStep
<1>6. ASSUME NEW q \in Replica, SendTo(q) PROVE IInv' BY <1>6, SendToStep
<1>7. CASE EndGossip \/ TakeOperation \/ StampPrev \/ StampTS \/ CheckOperation \/ RaiseValue
  BY <1>7, EndGossipStep, TakeOperationStep, StampPrevStep, StampTSStep, CheckOperationStep,
     RaiseValueStep
<1>8. CASE ExecuteOperation \/ SortReceived \/ StartRun \/ RunUnstable \/ EndRun
  BY <1>8, ExecuteOperationStep, SortReceivedStep, StartRunStep, RunUnstableStep, EndRunStep
<1>9. CASE UNCHANGED vars BY <1>9, Frame DEF vars, clocks, IInv
<1> QED BY <1>1, <1>2, <1>3, <1>4, <1>5, <1>6, <1>7, <1>8, <1>9, Zenon DEF Next

\* IInv says more than KnownUpdatesOnly.
LEMMA IInvKnown == IInv => KnownUpdatesOnly
BY DEF IInv, ClockInv, CallInv, LedgerInv, SoundLedger, Sound, Issued, KnownUpdatesOnly

\* No clock of a replica or user, and no timestamp of an operation, ever counts
\* an update that was not issued, for any users, requests, gossips and
\* overlapping handlers.
THEOREM KnownUpdates == Spec => []KnownUpdatesOnly
<1>1. Spec => []IInv BY InitIInv, NextIInv, PTL DEF Spec
<1> QED BY <1>1, IInvKnown, PTL

-----------------------------------------------------------------------------
(* Types.  IInv has those of what travels; the balances are left.          *)

Balances == [Account -> {-1} \cup Nat]

TypeInv ==
  /\ IInv
  /\ accounts \in [Replica -> Balances]
  /\ active \in [Replica -> BOOLEAN]

LEMMA ExecuteTyped ==
  ASSUME NEW A \in Balances, NEW req \in Request
  PROVE  Execute(A, req) \in Balances
<1>1. CASE req.type = "create"
  <2>1. req.account \in Account BY <1>1 DEF Request
  <2> QED BY <1>1, <2>1 DEF Execute, Balances
<1>2. CASE req.type = "transfer"
  <2> DEFINE t == req.account
  <2>1. t.from \in Account /\ t.dest \in Account /\ t.amount \in Nat /\ req.type # "create"
    BY <1>2 DEF Request, Transfer
  <2>2. CASE A[t.from] < 0 \/ A[t.dest] < 0 \/ A[t.from] < t.amount
    BY <2>1, <2>2 DEF Execute
  <2>3. CASE ~(A[t.from] < 0 \/ A[t.dest] < 0 \/ A[t.from] < t.amount)
    <3> HIDE DEF t
    <3>1. /\ A[t.from] \in {-1} \cup Nat /\ A[t.dest] \in {-1} \cup Nat
      BY <2>1 DEF Balances
    <3>2. A[t.from] - t.amount \in Nat /\ A[t.dest] + t.amount \in Nat BY <2>1, <2>3, <3>1
    <3>3. [[A EXCEPT ![t.from] = A[t.from] - t.amount] EXCEPT ![t.dest] = A[t.dest] + t.amount]
            \in Balances
      BY <3>2 DEF Balances
    <3>4. Execute(A, req)
            = [[A EXCEPT ![t.from] = @ - t.amount] EXCEPT ![t.dest] = A[t.dest] + t.amount]
      BY <2>1, <2>3 DEF Execute, t
    <3> QED BY <3>3, <3>4
  <2> QED BY <2>2, <2>3
<1> QED BY <1>1, <1>2 DEF Request

\* The balances of one replica change as a request has it.
LEMMA BalancesTyped ==
  ASSUME accounts \in [Replica -> Balances], NEW r \in Replica, NEW req \in Request,
         UNCHANGED accounts \/ accounts' = [accounts EXCEPT ![r] = Execute(@, req)]
  PROVE  accounts' \in [Replica -> Balances]
BY ExecuteTyped


\* The operation that gossip executes is one of the receiver's.
LEMMA FoundTyped ==
  ASSUME IInv, \/ gossip.pc \in AtFound
               \/ gossip.pc = "run" /\ gossip.i <= Len(ledger[gossip.to])
  PROVE  /\ gossip.to \in Replica /\ gossip.i \in DOMAIN ledger[gossip.to]
         /\ ledger[gossip.to][gossip.i] \in Op
<1> DEFINE q == gossip.to
           i == gossip.i
<1>1. gossip.pc \in Receiving BY DEF AtFound, Receiving
<1>2. q \in Replica /\ ledger[q] \in Seq(Op) /\ i \in Nat /\ i > 0
  BY <1>1, GossipThere DEF SoundLedger
<1>3. i \in DOMAIN ledger[q]
  <2>1. CASE gossip.pc \in AtFound BY <2>1 DEF IInv, LastInv
  <2>2. CASE i <= Len(ledger[q])
    <3>1. DOMAIN ledger[q] = 1..Len(ledger[q]) /\ Len(ledger[q]) \in Nat BY <1>2
    <3> HIDE DEF i
    <3> QED BY <1>2, <2>2, <3>1
  <2> QED BY <2>1, <2>2
<1> QED BY <1>2, <1>3

\* Whatever executes a request executes one that some user may make.
LEMMA BalancesKept ==
  ASSUME TypeInv, [Next]_vars
  PROVE  accounts' \in [Replica -> Balances]
<1>1. accounts \in [Replica -> Balances] /\ IInv BY DEF TypeInv
<1>2. ASSUME NEW u \in User, AddOperation(u) PROVE accounts' \in [Replica -> Balances]
  <2>1. call[u].at \in Replica /\ call[u].request \in Request
    BY <1>2 DEF AddOperation, TypeInv, IInv, CallInv
  <2>2. \/ UNCHANGED accounts
        \/ accounts' = [accounts EXCEPT ![call[u].at] = Execute(@, call[u].request)]
    BY <1>2 DEF AddOperation
  <2> QED BY <1>1, <2>1, <2>2, BalancesTyped
<1>3. CASE ExecuteOperation \/ RunUnstable
  <2> DEFINE q == gossip.to
             req == ledger[q][gossip.i].request
  <2>1. gossip.pc \in AtFound \/ (gossip.pc = "run" /\ gossip.i <= Len(ledger[gossip.to]))
    BY <1>3 DEF ExecuteOperation, RunUnstable, AtFound
  <2>2. q \in Replica /\ req \in Request BY <1>1, <2>1, FoundTyped DEF Op
  <2>3. UNCHANGED accounts \/ accounts' = [accounts EXCEPT ![q] = Execute(@, req)]
    BY <1>3 DEF ExecuteOperation, RunUnstable
  <2> HIDE DEF req, q
  <2> QED BY <1>1, <2>2, <2>3, BalancesTyped
<1>4. ASSUME \/ \E u \in User, q \in Replica : \/ \E req \in Writes[u] : AskWrite(u, q, req)
                                              \/ \E a \in Reads[u] : AskBalance(u, q, a)
             \/ \E u \in User : \/ ReadClock(u) \/ PutClock(u) \/ RaiseClock(u) \/ StampRequest(u)
                                \/ StampReplica(u) \/ Answer(u) \/ Balance(u)
             \/ \E q \in MayStop : SetActive(q)
             \/ \E q \in Replica : StartGossip(q) \/ SendTo(q)
             \/ EndGossip \/ TakeOperation \/ StampPrev \/ StampTS \/ CheckOperation
             \/ RaiseValue \/ SortReceived \/ StartRun \/ EndRun \/ UNCHANGED vars
      PROVE  UNCHANGED accounts
  BY <1>4 DEF AskWrite, AskBalance, ReadClock, PutClock, RaiseClock, StampRequest, StampReplica,
              Answer, Balance, SetActive, StartGossip, SendTo, EndGossip, TakeOperation, StampPrev,
              StampTS, CheckOperation, RaiseValue, SortReceived, StartRun, EndRun, vars
<1> QED BY <1>1, <1>2, <1>3, <1>4, Zenon DEF Next

\* Replicas are active or not.
LEMMA ActiveTyped ==
  ASSUME active \in [Replica -> BOOLEAN], [Next]_vars
  PROVE  active' \in [Replica -> BOOLEAN]
<1>1. ASSUME NEW r \in MayStop, SetActive(r) PROVE active' \in [Replica -> BOOLEAN]
  BY <1>1 DEF SetActive
<1>2. ASSUME \/ \E u \in User, q \in Replica : \/ \E req \in Writes[u] : AskWrite(u, q, req)
                                              \/ \E a \in Reads[u] : AskBalance(u, q, a)
             \/ \E u \in User : \/ AddOperation(u) \/ ReadClock(u) \/ PutClock(u) \/ RaiseClock(u)
                                \/ StampRequest(u) \/ StampReplica(u) \/ Answer(u) \/ Balance(u)
             \/ \E q \in Replica : StartGossip(q) \/ SendTo(q)
             \/ EndGossip \/ TakeOperation \/ StampPrev \/ StampTS \/ CheckOperation
             \/ RaiseValue \/ ExecuteOperation \/ SortReceived \/ StartRun \/ RunUnstable
             \/ EndRun \/ UNCHANGED vars
      PROVE  UNCHANGED active
  BY <1>2 DEF AskWrite, AskBalance, AddOperation, ReadClock, PutClock, RaiseClock, StampRequest,
              StampReplica, Answer, Balance, StartGossip, SendTo, EndGossip, TakeOperation,
              StampPrev, StampTS, CheckOperation, RaiseValue, ExecuteOperation, SortReceived,
              StartRun, RunUnstable, EndRun, vars
<1> QED BY <1>1, <1>2, Zenon DEF Next

\* The variables keep their types, for any users, accounts and requests: no balance gets below
\* zero, and every operation in a ledger is one that a user asked for.
THEOREM TypeCorrect == Spec => []TypeOK
<1>1. Init => TypeInv
  <2> SUFFICES ASSUME Init PROVE TypeInv OBVIOUS
  <2>1. accounts \in [Replica -> Balances] BY AccountAssumption DEF Init, Balances
  <2>2. active \in [Replica -> BOOLEAN] BY DEF Init
  <2> QED BY <2>1, <2>2, InitIInv DEF TypeInv
<1>2. TypeInv /\ [Next]_vars => TypeInv'
  BY NextIInv, BalancesKept, ActiveTyped DEF TypeInv
<1>3. TypeInv => TypeOK
  <2> SUFFICES ASSUME TypeInv PROVE TypeOK OBVIOUS
  <2>1. \A r \in Replica : \A j \in DOMAIN ledger[r] : ledger[r][j] \in Operation
    <3>1. \A r \in Replica : ledger[r] \in Seq(Op) BY DEF TypeInv, IInv, LedgerInv
    <3>2. Op = Operation BY DEF Op, Operation
    <3> QED BY <3>1, <3>2
  <2>2. accounts \in [Replica -> [Account -> {-1} \cup Nat]] BY DEF TypeInv, Balances
  <2>3. /\ mapTS \in [Replica -> TS] /\ valueTS \in [Replica -> TS] /\ userTS \in [User -> TS]
        /\ written \in [1..3 -> Nat]
    BY DEF TypeInv, IInv, ClockInv, TS
  <2>4. gossip.pc \in {"idle", "send", "take", "stamp", "mark", "check", "raise", "apply", "count",
                       "sorted", "run"}
    BY DEF TypeInv, IInv, GossipInv, Gossip, Receiving
  <2> QED BY <2>1, <2>2, <2>3, <2>4 DEF TypeInv, TypeOK
<1> QED BY <1>1, <1>2, <1>3, PTL DEF Spec

-----------------------------------------------------------------------------
(* The refinement of Accounts. *)

NoSelfTransfer == \A req \in Asking : req.type = "transfer" => req.account.from # req.account.dest

BalanceInv == accounts \in [Replica -> [Account -> Int]]
AddInv     == \A u \in User : call[u].pc = "add" => call[u].request \in Asking
AskedInv   == Asked \subseteq Asking
MessageInv == \A j \in DOMAIN gossip.msg : gossip.msg[j].request \in Asked

RInv == IInv /\ BalanceInv /\ AddInv /\ AskedInv /\ MessageInv

\* A step of Accounts for the request req.
BankStep(req) == /\ Asked' = Asked \cup {req}
                 /\ UNCHANGED accounts \/ \E r \in Replica : Bank!Perform(r, req)

-----------------------------------------------------------------------------
(* The requests of a ledger. *)

\* A ledger to which an operation is added has its request too.
LEMMA AppendRequests ==
  ASSUME NEW L \in Seq(Op), NEW op \in Op
  PROVE  Requests(Append(L, op)) = Requests(L) \cup {op.request}
<1>1. Len(L) \in Nat /\ DOMAIN L = 1..Len(L) OBVIOUS
<1>2. DOMAIN Append(L, op) = 1..(Len(L) + 1) OBVIOUS
<1>3. \A j \in 1..Len(L) : Append(L, op)[j] = L[j] OBVIOUS
<1>4. Append(L, op)[Len(L) + 1] = op OBVIOUS
<1>5. 1..(Len(L) + 1) = 1..Len(L) \cup {Len(L) + 1} BY <1>1
<1> QED BY <1>1, <1>2, <1>3, <1>4, <1>5 DEF Requests

\* An operation that gets its timestamps keeps its request.
LEMMA StampRequests ==
  ASSUME NEW L \in Seq(Op), NEW t
  PROVE  Requests(SetPrevTS(L, t)) = Requests(L) /\ Requests(SetTS(L, t)) = Requests(L)
<1> DEFINE n == Len(L)
           o == [L[n] EXCEPT !.prev = t]
           x == [L[n] EXCEPT !.ts = t, !.live = FALSE]
<1>1. DOMAIN L = 1..n /\ n \in Nat OBVIOUS
<1>2. CASE n \notin DOMAIN L
  <2>1. SetPrevTS(L, t) = L /\ SetTS(L, t) = L BY <1>1, <1>2 DEF SetPrevTS, SetTS
  <2> QED BY <2>1
<1>3. CASE n \in DOMAIN L
  <2>1. L[n] \in Op BY <1>3
  <2>2. o.request = L[n].request /\ x.request = L[n].request BY <2>1 DEF Op
  <2>3. SetPrevTS(L, t) = [L EXCEPT ![n] = o] /\ SetTS(L, t) = [L EXCEPT ![n] = x]
    BY <1>3 DEF SetPrevTS, SetTS
  <2> HIDE DEF o, x
  <2>4. \A j \in DOMAIN L : [L EXCEPT ![n] = o][j].request = L[j].request BY <2>2
  <2>5. \A j \in DOMAIN L : [L EXCEPT ![n] = x][j].request = L[j].request BY <2>2
  <2>6. Requests([L EXCEPT ![n] = o]) = Requests(L) BY <2>4 DEF Requests
  <2>7. Requests([L EXCEPT ![n] = x]) = Requests(L) BY <2>5 DEF Requests
  <2> QED BY <2>3, <2>6, <2>7
<1> QED BY <1>2, <1>3

\* An operation that starts to share the value timestamp keeps its request.
LEMMA LiveRequests ==
  ASSUME NEW L \in Seq(Op), NEW i \in DOMAIN L
  PROVE  Requests([L EXCEPT ![i].live = TRUE]) = Requests(L)
<1> DEFINE o == [L[i] EXCEPT !.live = TRUE]
<1>1. L[i] \in Op OBVIOUS
<1>2. o.request = L[i].request BY <1>1 DEF Op
<1> HIDE DEF o
<1>3. \A j \in DOMAIN L : [L EXCEPT ![i] = o][j].request = L[j].request BY <1>2
<1>4. Requests([L EXCEPT ![i] = o]) = Requests(L) BY <1>3 DEF Requests
<1> QED BY <1>4 DEF o

\* A sort loses no request.
LEMMA SortRequests ==
  ASSUME NEW L, SoundLedger(L), NEW M \in SortLedger(L)
  PROVE  Requests(M) = Requests(L)
<1> DEFINE D == DOMAIN L
<1>1. PICK p \in Bijection(D, D) : M = [j \in D |-> L[p[j]]] BY SortMoves
<1>2. /\ \A j \in D : p[j] \in D
      /\ \A i \in D : \E j \in D : p[j] = i
  BY DEF Bijection, Injection, Surjection
<1>3. DOMAIN M = D /\ \A j \in D : M[j] = L[p[j]] BY <1>1
<1>4. ASSUME NEW x \in Requests(L) PROVE x \in Requests(M)
  <2>1. PICK i \in D : x = L[i].request BY DEF Requests
  <2>2. PICK j \in D : p[j] = i BY <1>2
  <2>3. M[j].request = x BY <1>3, <2>1, <2>2
  <2> QED BY <1>3, <2>3 DEF Requests
<1>5. ASSUME NEW x \in Requests(M) PROVE x \in Requests(L)
  <2>1. PICK j \in D : x = M[j].request BY <1>3 DEF Requests
  <2>2. p[j] \in D /\ x = L[p[j]].request BY <1>2, <1>3, <2>1
  <2> QED BY <2>2 DEF Requests
<1> QED BY <1>4, <1>5

\* What changes in the ledger of one replica changes in the requests of all.
LEMMA AskedChange ==
  ASSUME ledger \in [Replica -> Seq(Op)], NEW q \in Replica, NEW M, NEW X,
         ledger' = [ledger EXCEPT ![q] = M], Requests(M) = Requests(ledger[q]) \cup X
  PROVE  /\ Asked' = Asked \cup X
         /\ \A r \in Replica : Requests(ledger[r]) \subseteq Requests(ledger'[r])
<1>1. ledger'[q] = M /\ \A r \in Replica : r # q => ledger'[r] = ledger[r] OBVIOUS
<1>2. \A r \in Replica : Requests(ledger[r]) \subseteq Requests(ledger'[r]) BY <1>1
<1>3. \A r \in Replica : Requests(ledger'[r]) \subseteq Requests(ledger[r]) \cup X BY <1>1
<1>4. X \subseteq Requests(ledger'[q]) BY <1>1
<1>5. Asked' = UNION {Requests(ledger'[r]) : r \in Replica} BY DEF Asked, Requests
<1>6. Asked = UNION {Requests(ledger[r]) : r \in Replica} BY DEF Asked
<1> QED BY <1>2, <1>3, <1>4, <1>5, <1>6
-----------------------------------------------------------------------------
(* Executing a request. *)

\* Executing a request of a user at a replica is a step of Accounts there, or changes nothing.
LEMMA ExecuteBank ==
  ASSUME BalanceInv, NoSelfTransfer, NEW r \in Replica, NEW req \in Asking,
         accounts' = [accounts EXCEPT ![r] = Execute(@, req)]
  PROVE  /\ BalanceInv'
         /\ UNCHANGED accounts \/ Bank!Perform(r, req)
<1> DEFINE A == accounts[r]
           B == Execute(A, req)
<1>1. A \in [Account -> Int] BY DEF BalanceInv
<1>2. req \in Request BY WriteAssumption DEF Asking
<1>3. accounts' = [accounts EXCEPT ![r] = B] BY DEF BalanceInv
<1>4. B = A => UNCHANGED accounts BY <1>3 DEF BalanceInv
<1>5. B \in [Account -> Int] => BalanceInv' BY <1>3 DEF BalanceInv
<1>6. CASE req.type = "create"
  <2>1. req.account \in Account BY <1>2, <1>6 DEF Request
  <2>2. CASE A[req.account] >= 0
    <3>1. B = A BY <1>6, <2>2 DEF Execute
    <3> QED BY <1>1, <1>4, <1>5, <3>1
  <2>3. CASE ~(A[req.account] >= 0)
    <3>1. B = [A EXCEPT ![req.account] = 0] BY <1>6, <2>3 DEF Execute
    <3>2. B \in [Account -> Int] BY <1>1, <2>1, <3>1
    <3>3. Bank!Create(r, req.account) BY <1>3, <2>3, <3>1 DEF Bank!Create, Bank!Exists, BalanceInv
    <3> QED BY <1>5, <1>6, <3>2, <3>3 DEF Bank!Perform
  <2> QED BY <2>2, <2>3
<1>7. CASE req.type = "transfer"
  <2> DEFINE t == req.account
  <2>1. t \in Transfer /\ req.type # "create" BY <1>2, <1>7 DEF Request
  <2>2. /\ t.from \in Account /\ t.dest \in Account /\ t.amount \in Nat
        /\ t.from # t.dest
    BY <1>7, <2>1 DEF Transfer, NoSelfTransfer
  <2>3. CASE A[t.from] < 0 \/ A[t.dest] < 0 \/ A[t.from] < t.amount
    <3>1. B = A BY <2>1, <2>3 DEF Execute
    <3> QED BY <1>1, <1>4, <1>5, <3>1
  <2>4. CASE ~(A[t.from] < 0 \/ A[t.dest] < 0 \/ A[t.from] < t.amount)
    <3> DEFINE C == [a \in Account |-> CASE a = t.from -> A[t.from] - t.amount
                                         [] a = t.dest -> A[t.dest] + t.amount
                                         [] OTHER -> A[a]]
    <3>1. B = [[A EXCEPT ![t.from] = @ - t.amount] EXCEPT ![t.dest] = A[t.dest] + t.amount]
      BY <2>1, <2>4 DEF Execute
    <3>2. B = C BY <1>1, <2>2, <3>1
    <3>3. C \in [Account -> Int] BY <1>1, <2>2
    <3>4. A[t.from] >= 0 /\ A[t.dest] >= 0 /\ A[t.from] >= t.amount BY <1>1, <2>2, <2>4
    <3>5. accounts' = [accounts EXCEPT ![r] = C] BY <1>3, <3>2
    <3>6. Bank!Transfer(r, t.from, t.dest, t.amount)
      BY <2>2, <3>4, <3>5 DEF Bank!Transfer, Bank!Exists
    <3> QED BY <1>5, <1>7, <3>2, <3>3, <3>6 DEF Bank!Perform
  <2> QED BY <2>3, <2>4
<1> QED BY <1>2, <1>6, <1>7 DEF Request

-----------------------------------------------------------------------------
(* One lemma for each action. *)


-----------------------------------------------------------------------------
(* One lemma for each action. *)

\* What a step does to Accounts.
BankNext == UNCHANGED <<Asked, accounts>> \/ \E req \in Asking : BankStep(req)

\* The parts of RInv are kept by a step that loses no request, adds what users may ask for, and
\* sends only requests that ledgers hold.
LEMMA Kept ==
  ASSUME RInv, IInv', BalanceInv', AddInv', Asked \subseteq Asked', Asked' \subseteq Asked \cup Asking,
         \A j \in DOMAIN gossip'.msg : gossip'.msg[j].request \in Asked
  PROVE  RInv'
<1>1. AskedInv' BY DEF RInv, AskedInv
<1>2. MessageInv' BY DEF MessageInv
<1> QED BY <1>1, <1>2 DEF RInv

\* Steps that change no ledger and no balance.
LEMMA OtherStep ==
  ASSUME RInv, IInv', AddInv', UNCHANGED <<ledger, accounts>>,
         \A j \in DOMAIN gossip'.msg : gossip'.msg[j].request \in Asked
  PROVE  RInv' /\ BankNext
<1>1. UNCHANGED Asked BY DEF Asked, Requests
<1>2. Asked \subseteq Asked' /\ Asked' \subseteq Asked \cup Asking BY <1>1
<1>3. BalanceInv' BY DEF RInv, BalanceInv
<1>4. RInv' BY <1>2, <1>3, Kept
<1> QED BY <1>1, <1>4 DEF BankNext

\* Steps that change a ledger, but not its requests.
LEMMA LedgerStep ==
  ASSUME RInv, IInv', AddInv', UNCHANGED accounts, NEW q \in Replica, NEW M,
         ledger' = [ledger EXCEPT ![q] = M], Requests(M) = Requests(ledger[q]),
         \A j \in DOMAIN gossip'.msg : gossip'.msg[j].request \in Asked
  PROVE  RInv' /\ BankNext
<1>1. ledger \in [Replica -> Seq(Op)] BY DEF RInv, IInv, LedgerInv
<1>2. Requests(M) = Requests(ledger[q]) \cup {} OBVIOUS
<1>3. Asked' = Asked \cup {} BY <1>1, <1>2, AskedChange
<1>4. BalanceInv' BY DEF RInv, BalanceInv
<1>5. RInv' BY <1>3, <1>4, Kept
<1> QED BY <1>3, <1>5 DEF BankNext

\* Steps that perform a request of a ledger.
LEMMA ExecuteStep ==
  ASSUME NoSelfTransfer, RInv, IInv', AddInv', NEW q \in Replica, NEW M, NEW req,
         ledger' = [ledger EXCEPT ![q] = M], Requests(M) = Requests(ledger[q]),
         req \in Requests(ledger[q]), accounts' = [accounts EXCEPT ![q] = Execute(@, req)],
         \A j \in DOMAIN gossip'.msg : gossip'.msg[j].request \in Asked
  PROVE  RInv' /\ BankNext
<1>1. ledger \in [Replica -> Seq(Op)] BY DEF RInv, IInv, LedgerInv
<1>2. Requests(M) = Requests(ledger[q]) \cup {req} OBVIOUS
<1>3. Asked' = Asked \cup {req} BY <1>1, <1>2, AskedChange
<1>4. req \in Asking BY DEF Asked, RInv, AskedInv
<1>5. BalanceInv' /\ (UNCHANGED accounts \/ \E r \in Replica : Bank!Perform(r, req))
  BY <1>4, ExecuteBank DEF RInv
<1>6. Asked \subseteq Asked' /\ Asked' \subseteq Asked \cup Asking BY <1>3, <1>4
<1>7. RInv' BY <1>5, <1>6, Kept
<1> QED BY <1>3, <1>4, <1>5, <1>7 DEF BankNext, BankStep

\* Calls that do not add an operation now, or do not change.
LEMMA CallGoesOn ==
  ASSUME RInv, NEW u \in User, NEW p, p # "add",
         UNCHANGED call \/ call' = [call EXCEPT ![u].pc = p]
  PROVE  AddInv'
<1>1. call \in [User -> Call] BY DEF RInv, IInv, CallInv
<1>2. CASE call' = [call EXCEPT ![u].pc = p]
  <2>1. call'[u].pc = p /\ \A v \in User : v # u => call'[v] = call[v] BY <1>1, <1>2 DEF Call
  <2> QED BY <2>1 DEF RInv, AddInv
<1>3. CASE UNCHANGED call BY <1>3 DEF RInv, AddInv
<1> QED BY <1>2, <1>3

\* What is left of a message asks for nothing new.
LEMMA TailAsked ==
  ASSUME RInv, gossip.msg # <<>>
  PROVE  /\ Head(gossip.msg) \in Op /\ Head(gossip.msg).request \in Asked
         /\ \A j \in DOMAIN Tail(gossip.msg) : Tail(gossip.msg)[j].request \in Asked
<1> DEFINE m == gossip.msg
<1>1. m \in Seq(Op) /\ m # <<>> /\ \A j \in DOMAIN m : m[j].request \in Asked
  BY DEF RInv, IInv, GossipInv, Gossip, MessageInv
<1> HIDE DEF m
<1>2. Len(m) \in Nat /\ Len(m) >= 1 /\ DOMAIN m = 1..Len(m) /\ Head(m) = m[1] BY <1>1
<1>3. Tail(m) \in Seq(Op) /\ Len(Tail(m)) = Len(m) - 1 BY <1>1
<1>4. \A j \in 1..Len(Tail(m)) : Tail(m)[j] = m[j + 1] BY <1>1
<1>5. ASSUME NEW j \in DOMAIN Tail(m) PROVE Tail(m)[j].request \in Asked
  <2>1. j \in 1..Len(Tail(m)) BY <1>3
  <2> QED BY <1>1, <1>2, <1>3, <1>4, <2>1
<1>6. m[1] \in Op /\ m[1].request \in Asked BY <1>1, <1>2
<1> QED BY <1>2, <1>5, <1>6 DEF m

\* The message is as before, or what is left of it, or none.
LEMMA MessageAsked ==
  ASSUME RInv, \/ gossip' = NoGossip
               \/ gossip'.msg = gossip.msg
               \/ gossip.msg # <<>> /\ gossip'.msg = Tail(gossip.msg)
  PROVE  \A j \in DOMAIN gossip'.msg : gossip'.msg[j].request \in Asked
<1>1. CASE gossip' = NoGossip BY <1>1, NothingYet
<1>2. CASE gossip'.msg = gossip.msg BY <1>2 DEF RInv, MessageInv
<1>3. CASE gossip.msg # <<>> /\ gossip'.msg = Tail(gossip.msg) BY <1>3, TailAsked
<1> QED BY <1>1, <1>2, <1>3

\* Nothing is asked for, and balances are integers, at the start.
LEMMA InitRInv == Init => RInv /\ Bank!Init
<1> SUFFICES ASSUME Init PROVE RInv /\ Bank!Init OBVIOUS
<1>1. IInv BY InitIInv
<1>2. BalanceInv BY AccountAssumption DEF Init, BalanceInv
<1>3. AddInv BY NothingYet DEF Init, AddInv
<1>4. Asked = {} BY DEF Init, Asked, Requests
<1>5. AskedInv BY <1>4 DEF AskedInv
<1>6. MessageInv BY NothingYet DEF Init, MessageInv
<1>7. Bank!Init BY <1>4 DEF Init, Bank!Init
<1> QED BY <1>1, <1>2, <1>3, <1>5, <1>6, <1>7 DEF RInv

\* A request that arrives is one that its user may ask for.
LEMMA AskWriteBank ==
  ASSUME RInv, IInv', NEW u \in User, NEW r \in Replica, NEW req \in Writes[u], AskWrite(u, r, req)
  PROVE  RInv' /\ BankNext
<1>1. call \in [User -> Call] BY DEF RInv, IInv, CallInv
<1>2. call'[u].request = req /\ \A v \in User : v # u => call'[v] = call[v]
  BY <1>1 DEF AskWrite, NoCall
<1>3. req \in Asking BY DEF Asking
<1>4. AddInv' BY <1>2, <1>3 DEF RInv, AddInv
<1>5. UNCHANGED <<ledger, accounts, gossip>> BY DEF AskWrite
<1> QED BY <1>4, <1>5, OtherStep, MessageAsked

\* An operation is added to the ledger, and its request is performed or not.
LEMMA AddOperationBank ==
  ASSUME RInv, IInv', NoSelfTransfer, NEW u \in User, AddOperation(u)
  PROVE  RInv' /\ BankNext
<1> DEFINE r == call[u].at
           req == call[u].request
           op == [write |-> <<u, call[u].n>>, request |-> call[u].request,
                  prev |-> NoTS, ts |-> NoTS, live |-> FALSE]
<1>1. /\ call \in [User -> Call] /\ r \in Replica /\ ledger \in [Replica -> Seq(Op)]
  BY DEF AddOperation, RInv, IInv, CallInv, LedgerInv
<1>2. req \in Asking BY DEF AddOperation, RInv, AddInv
<1>3. op \in Op /\ op.request = req BY <1>1 DEF AddOperation, RInv, IInv, CallInv, Op
<1>4. ledger' = [ledger EXCEPT ![r] = Append(ledger[r], op)] BY DEF AddOperation
<1>5. ledger[r] \in Seq(Op) BY <1>1
<1> HIDE DEF op, req
<1>6. Requests(Append(ledger[r], op)) = Requests(ledger[r]) \cup {req}
  BY <1>3, <1>5, AppendRequests
<1>7. Asked' = Asked \cup {req} BY <1>1, <1>4, <1>6, AskedChange
<1>8. BalanceInv' /\ (UNCHANGED accounts \/ \E q \in Replica : Bank!Perform(q, req))
  <2>1. CASE UNCHANGED accounts BY <2>1 DEF RInv, BalanceInv
  <2>2. CASE accounts' = [accounts EXCEPT ![r] = Execute(@, req)]
    BY <1>1, <1>2, <2>2, ExecuteBank DEF RInv
  <2> QED BY <2>1, <2>2 DEF AddOperation, req
<1>9. AddInv' /\ UNCHANGED gossip BY CallGoesOn DEF AddOperation
<1>10. Asked \subseteq Asked' /\ Asked' \subseteq Asked \cup Asking BY <1>2, <1>7
<1>11. RInv' BY <1>8, <1>9, <1>10, MessageAsked, Kept
<1> QED BY <1>2, <1>7, <1>8, <1>11 DEF BankNext, BankStep

\* The last operation of the ledger gets a timestamp.
LEMMA StampBank ==
  ASSUME RInv, IInv', NEW u \in User, StampRequest(u) \/ StampReplica(u)
  PROVE  RInv' /\ BankNext
<1> DEFINE r == call[u].at
<1>1. r \in Replica /\ ledger[r] \in Seq(Op)
  BY DEF StampRequest, StampReplica, RInv, IInv, CallInv, LedgerInv
<1>2. AddInv' /\ UNCHANGED <<accounts, gossip>> BY CallGoesOn DEF StampRequest, StampReplica
<1>3. PICK M : ledger' = [ledger EXCEPT ![r] = M] /\ Requests(M) = Requests(ledger[r])
  BY <1>1, StampRequests DEF StampRequest, StampReplica
<1> QED BY <1>1, <1>2, <1>3, MessageAsked, LedgerStep

\* The other steps of calls leave the ledgers and the balances alone.
LEMMA OtherCallsBank ==
  ASSUME RInv, IInv', NEW u \in User,
         \/ ReadClock(u) \/ PutClock(u) \/ RaiseClock(u) \/ Answer(u) \/ Balance(u)
         \/ \E r \in Replica, a \in Reads[u] : AskBalance(u, r, a)
  PROVE  RInv' /\ BankNext
<1>1. call \in [User -> Call] BY DEF RInv, IInv, CallInv
<1>2. UNCHANGED <<ledger, accounts, gossip>>
  BY DEF ReadClock, PutClock, RaiseClock, Answer, Balance, AskBalance
<1>3. AddInv'
  <2>1. CASE ReadClock(u)
    <3>1. call'[u].pc = "put" /\ \A v \in User : v # u => call'[v] = call[v]
      BY <1>1, <2>1 DEF ReadClock, Call
    <3> QED BY <3>1 DEF RInv, AddInv
  <2>2. CASE PutClock(u) \/ RaiseClock(u) \/ Answer(u) \/ Balance(u)
    BY <2>2, CallGoesOn DEF PutClock, RaiseClock, Answer, Balance
  <2>3. CASE \E r \in Replica, a \in Reads[u] : AskBalance(u, r, a)
    <3>1. PICK r \in Replica, a \in Reads[u] : AskBalance(u, r, a) BY <2>3
    <3> DEFINE c == [NoCall EXCEPT !.pc = "read", !.at = r, !.n = call[u].n, !.prev = userTS[u],
                                   !.request = [type |-> "balance", account |-> a]]
    <3>2. c.pc = "read" BY DEF NoCall
    <3>3. call' = [call EXCEPT ![u] = c] BY <3>1 DEF AskBalance
    <3> HIDE DEF c
    <3>4. call'[u].pc # "add" /\ \A v \in User : v # u => call'[v] = call[v] BY <1>1, <3>2, <3>3
    <3> QED BY <3>4 DEF RInv, AddInv
  <2> QED BY <2>1, <2>2, <2>3
<1> QED BY <1>2, <1>3, MessageAsked, OtherStep

\* The sender sorts its ledger.
LEMMA StartGossipBank ==
  ASSUME RInv, IInv', NEW r \in Replica, StartGossip(r)
  PROVE  RInv' /\ BankNext
<1>1. PICK L \in SortLedger(ledger[r]) : ledger' = [ledger EXCEPT ![r] = L] BY DEF StartGossip
<1>2. Requests(L) = Requests(ledger[r]) BY <1>1, SortRequests DEF RInv, IInv, LedgerInv
<1>3. UNCHANGED accounts /\ AddInv' BY DEF StartGossip, RInv, AddInv
<1>4. \A j \in DOMAIN gossip'.msg : gossip'.msg[j].request \in Asked
  BY NothingYet DEF StartGossip, Gossip
<1> QED BY <1>1, <1>2, <1>3, <1>4, LedgerStep

\* What is sent comes from the ledger of the sender.
LEMMA SendToBank ==
  ASSUME RInv, IInv', NEW q \in Replica, SendTo(q)
  PROVE  RInv' /\ BankNext
<1> DEFINE r == gossip.from
           M == Outgoing(r, q)
           L == ledger[r]
           m == mapTS[r][q]
<1>1. /\ r \in Replica /\ gossip \in Gossip /\ gossip.pc = "send" /\ L \in Seq(Op)
      /\ m \in Nat
  <2>1. gossip \in Gossip /\ gossip.pc = "send" /\ r \in Replica BY DEF SendTo, RInv, IInv, GossipInv
  <2>2. L \in Seq(Op) BY <2>1 DEF RInv, IInv, LedgerInv
  <2>3. mapTS[r] \in TS /\ q \in 1..3 BY <2>1, ReplicaAssumption DEF RInv, IInv, ClockInv
  <2>4. m \in Nat BY <2>3 DEF TS
  <2> QED BY <2>1, <2>2, <2>4
<1>2. ASSUME NEW j \in DOMAIN M PROVE M[j].request \in Asked
  <2>1. Len(L) \in Nat /\ DOMAIN L = 1..Len(L) BY <1>1
  <2>2. j \in 1..(IF Len(L) > m THEN Len(L) - m ELSE 0) BY <1>2 DEF Outgoing
  <2>3. j + m \in DOMAIN L BY <1>1, <2>1, <2>2
  <2>4. M[j] = [L[j + m] EXCEPT !.ts = TimestampOf(r, L[j + m]), !.live = FALSE]
    BY <1>2 DEF Outgoing
  <2>5. L[j + m] \in Op BY <1>1, <2>3
  <2>6. M[j].request = L[j + m].request BY <2>4, <2>5 DEF Op
  <2>7. L[j + m].request \in Requests(ledger[r]) BY <2>3 DEF Requests
  <2> QED BY <1>1, <2>6, <2>7 DEF Asked
<1>3. UNCHANGED <<ledger, accounts>> /\ AddInv' BY DEF SendTo, RInv, AddInv
<1>4. \/ gossip' = NoGossip
      \/ gossip' = [gossip EXCEPT !.todo = @ \ {q}]
      \/ gossip' = [gossip EXCEPT !.pc = "take", !.todo = @ \ {q}, !.to = q, !.msg = M]
  BY DEF SendTo
<1> HIDE DEF M
<1>5. \A j \in DOMAIN gossip'.msg : gossip'.msg[j].request \in Asked
  <2>1. CASE gossip' = NoGossip BY <2>1, NothingYet
  <2>2. CASE gossip' = [gossip EXCEPT !.todo = @ \ {q}]
    BY <1>1, <2>2 DEF Gossip, RInv, MessageInv
  <2>3. CASE gossip' = [gossip EXCEPT !.pc = "take", !.todo = @ \ {q}, !.to = q, !.msg = M]
    BY <1>1, <1>2, <2>3 DEF Gossip
  <2> QED BY <1>4, <2>1, <2>2, <2>3
<1> QED BY <1>3, <1>5, OtherStep

\* The other steps of gossip leave the ledgers and the balances alone.
LEMMA OtherGossipBank ==
  ASSUME RInv, IInv', EndGossip \/ CheckOperation \/ RaiseValue \/ StartRun \/ EndRun
  PROVE  RInv' /\ BankNext
<1>1. gossip \in Gossip BY DEF RInv, IInv, GossipInv
<1>2. UNCHANGED <<ledger, accounts>> /\ AddInv'
  BY DEF EndGossip, CheckOperation, RaiseValue, StartRun, EndRun, RInv, AddInv
<1>3. \/ gossip' = NoGossip
      \/ gossip'.msg = gossip.msg
      \/ gossip.msg # <<>> /\ gossip'.msg = Tail(gossip.msg)
  <2>1. CASE EndGossip BY <2>1 DEF EndGossip
  <2>2. CASE CheckOperation BY <1>1, <2>2 DEF CheckOperation, Gossip
  <2>3. CASE RaiseValue
    <3>1. gossip.msg # <<>> BY <2>3 DEF RaiseValue, RInv, IInv, GossipInv, AtFound
    <3> QED BY <1>1, <2>3, <3>1 DEF RaiseValue, Gossip
  <2>4. CASE StartRun \/ EndRun BY <1>1, <2>4 DEF StartRun, EndRun, Gossip
  <2> QED BY <2>1, <2>2, <2>3, <2>4
<1> QED BY <1>2, <1>3, MessageAsked, OtherStep

\* The next operation of the message is skipped, or added: its request was asked for already.
LEMMA TakeOperationBank ==
  ASSUME RInv, IInv', TakeOperation
  PROVE  RInv' /\ BankNext
<1> DEFINE q  == gossip.to
           op == Head(gossip.msg)
           o2 == [op EXCEPT !.prev = NoTS, !.ts = NoTS]
<1>1. /\ q \in Replica /\ gossip \in Gossip /\ gossip.msg # <<>>
      /\ ledger \in [Replica -> Seq(Op)]
  BY DEF TakeOperation, RInv, IInv, GossipInv, LedgerInv, Receiving
<1>2. op \in Op /\ op.request \in Asked BY <1>1, TailAsked
<1>3. UNCHANGED accounts /\ BalanceInv' /\ AddInv'
  BY DEF TakeOperation, RInv, BalanceInv, AddInv
<1>4. \/ gossip' = NoGossip /\ UNCHANGED ledger
      \/ gossip' = [gossip EXCEPT !.msg = Tail(@)] /\ UNCHANGED ledger
      \/ /\ ledger' = [ledger EXCEPT ![q] = Append(ledger[q], o2)]
         /\ gossip' = [gossip EXCEPT !.pc = "stamp"]
  BY DEF TakeOperation
<1>5. CASE gossip' = NoGossip /\ UNCHANGED ledger
  BY <1>3, <1>5, MessageAsked, OtherStep
<1>6. CASE gossip' = [gossip EXCEPT !.msg = Tail(@)] /\ UNCHANGED ledger
  <2>1. gossip'.msg = Tail(gossip.msg) BY <1>1, <1>6 DEF Gossip
  <2> QED BY <1>1, <1>3, <1>6, <2>1, MessageAsked, OtherStep
<1>7. CASE /\ ledger' = [ledger EXCEPT ![q] = Append(ledger[q], o2)]
           /\ gossip' = [gossip EXCEPT !.pc = "stamp"]
  <2> HIDE DEF op
  <2>1. o2 \in Op /\ o2.request = op.request BY <1>2 DEF Op
  <2> HIDE DEF o2
  <2>2. Requests(Append(ledger[q], o2)) = Requests(ledger[q]) \cup {op.request}
    BY <1>1, <2>1, AppendRequests
  <2>3. Asked' = Asked \cup {op.request} BY <1>1, <1>7, <2>2, AskedChange
  <2>4. gossip'.msg = gossip.msg BY <1>1, <1>7 DEF Gossip
  <2>5. Asked \subseteq Asked' /\ Asked' \subseteq Asked BY <1>2, <2>3
  <2>6. RInv' BY <1>3, <2>4, <2>5, MessageAsked, Kept
  <2> QED BY <1>3, <2>5, <2>6 DEF BankNext
<1> QED BY <1>4, <1>5, <1>6, <1>7

\* The last operation of the ledger gets a timestamp of the message.
LEMMA StampOperationBank ==
  ASSUME RInv, IInv', StampPrev \/ StampTS
  PROVE  RInv' /\ BankNext
<1> DEFINE q == gossip.to
<1>1. q \in Replica /\ ledger[q] \in Seq(Op) /\ gossip \in Gossip
  BY DEF StampPrev, StampTS, RInv, IInv, GossipInv, LedgerInv, Receiving
<1>2. UNCHANGED accounts /\ AddInv' BY DEF StampPrev, StampTS, RInv, AddInv
<1>3. PICK M : ledger' = [ledger EXCEPT ![q] = M] /\ Requests(M) = Requests(ledger[q])
  BY <1>1, StampRequests DEF StampPrev, StampTS
<1>4. gossip'.msg = gossip.msg BY <1>1 DEF StampPrev, StampTS, Gossip
<1> QED BY <1>1, <1>2, <1>3, <1>4, MessageAsked, LedgerStep

\* The receiver sorts its ledger.
LEMMA SortReceivedBank ==
  ASSUME RInv, IInv', SortReceived
  PROVE  RInv' /\ BankNext
<1> DEFINE q == gossip.to
<1>1. q \in Replica /\ SoundLedger(ledger[q]) /\ gossip \in Gossip
  BY DEF SortReceived, RInv, IInv, GossipInv, LedgerInv, Receiving
<1>2. UNCHANGED accounts /\ AddInv' BY DEF SortReceived, RInv, AddInv
<1>3. PICK M \in SortLedger(ledger[q]) : ledger' = [ledger EXCEPT ![q] = M] BY DEF SortReceived
<1>4. Requests(M) = Requests(ledger[q]) BY <1>1, SortRequests
<1>5. gossip' = NoGossip \/ gossip'.msg = gossip.msg BY <1>1 DEF SortReceived, Gossip
<1> QED BY <1>1, <1>2, <1>3, <1>4, <1>5, MessageAsked, LedgerStep

\* The receiver performs a new operation, or one of its ledger that has become stable.
LEMMA PerformBank ==
  ASSUME RInv, IInv', NoSelfTransfer, ExecuteOperation \/ RunUnstable
  PROVE  RInv' /\ BankNext
<1> DEFINE q == gossip.to
           i == gossip.i
           req == ledger[q][i].request
           L == [ledger[q] EXCEPT ![i].live = TRUE]
<1>1. \/ gossip.pc \in AtFound
      \/ gossip.pc = "run" /\ gossip.i <= Len(ledger[gossip.to])
  BY DEF ExecuteOperation, RunUnstable, AtFound
<1>2. q \in Replica /\ i \in DOMAIN ledger[q] BY <1>1, FoundTyped DEF RInv
<1>3. ledger[q] \in Seq(Op) /\ gossip \in Gossip BY <1>2 DEF RInv, IInv, LedgerInv, GossipInv
<1>4. req \in Requests(ledger[q]) BY <1>2 DEF Requests
<1>5. AddInv' BY DEF ExecuteOperation, RunUnstable, RInv, AddInv
<1>6. gossip' = NoGossip \/ gossip'.msg = gossip.msg
  BY <1>3 DEF ExecuteOperation, RunUnstable, Gossip
<1>7. \/ UNCHANGED <<ledger, accounts>>
      \/ /\ accounts' = [accounts EXCEPT ![q] = Execute(@, req)]
         /\ ledger' = ledger \/ ledger' = [ledger EXCEPT ![q] = L]
  BY DEF ExecuteOperation, RunUnstable
<1>8. Requests(L) = Requests(ledger[q]) BY <1>2, <1>3, LiveRequests
<1> HIDE DEF req, L
<1>9. CASE UNCHANGED <<ledger, accounts>> BY <1>5, <1>6, <1>9, MessageAsked, OtherStep
<1>10. CASE accounts' = [accounts EXCEPT ![q] = Execute(@, req)] /\ ledger' = [ledger EXCEPT ![q] = L]
  BY <1>2, <1>4, <1>5, <1>6, <1>8, <1>10, MessageAsked, ExecuteStep
<1>11. CASE accounts' = [accounts EXCEPT ![q] = Execute(@, req)] /\ ledger' = ledger
  <2>1. ledger' = [ledger EXCEPT ![q] = ledger[q]] BY <1>11 DEF RInv, IInv, LedgerInv
  <2> QED BY <1>2, <1>4, <1>5, <1>6, <1>11, <2>1, MessageAsked, ExecuteStep
<1> QED BY <1>7, <1>9, <1>10, <1>11

-----------------------------------------------------------------------------
\* Every step keeps RInv and is a step of Accounts, or none.
LEMMA NextBank == NoSelfTransfer /\ RInv /\ [Next]_vars => RInv' /\ BankNext
<1> SUFFICES ASSUME NoSelfTransfer, RInv, [Next]_vars PROVE RInv' /\ BankNext OBVIOUS
<1>1. IInv' BY NextIInv DEF RInv
<1>2. ASSUME NEW u \in User, NEW r \in Replica, NEW req \in Writes[u], AskWrite(u, r, req)
      PROVE  RInv' /\ BankNext
  BY <1>1, <1>2, AskWriteBank
<1>3. ASSUME NEW u \in User, AddOperation(u) PROVE RInv' /\ BankNext
  BY <1>1, <1>3, AddOperationBank
<1>4. ASSUME NEW u \in User, StampRequest(u) \/ StampReplica(u) PROVE RInv' /\ BankNext
  BY <1>1, <1>4, StampBank
<1>5. ASSUME NEW u \in User,
             \/ ReadClock(u) \/ PutClock(u) \/ RaiseClock(u) \/ Answer(u) \/ Balance(u)
             \/ \E r \in Replica, a \in Reads[u] : AskBalance(u, r, a)
      PROVE  RInv' /\ BankNext
  BY <1>1, <1>5, OtherCallsBank
<1>6. ASSUME NEW r \in Replica, StartGossip(r) PROVE RInv' /\ BankNext
  BY <1>1, <1>6, StartGossipBank
<1>7. ASSUME NEW q \in Replica, SendTo(q) PROVE RInv' /\ BankNext
  BY <1>1, <1>7, SendToBank
<1>8. CASE EndGossip \/ CheckOperation \/ RaiseValue \/ StartRun \/ EndRun
  BY <1>1, <1>8, OtherGossipBank
<1>9. CASE TakeOperation BY <1>1, <1>9, TakeOperationBank
<1>10. CASE StampPrev \/ StampTS BY <1>1, <1>10, StampOperationBank
<1>11. CASE SortReceived BY <1>1, <1>11, SortReceivedBank
<1>12. CASE ExecuteOperation \/ RunUnstable BY <1>1, <1>12, PerformBank
<1>13. ASSUME UNCHANGED vars \/ \E r \in MayStop : SetActive(r) PROVE RInv' /\ BankNext
  <2>1. UNCHANGED <<ledger, accounts, call, gossip>> BY <1>13 DEF vars, SetActive
  <2>2. AddInv' BY <2>1 DEF RInv, AddInv
  <2> QED BY <1>1, <2>1, <2>2, MessageAsked, OtherStep
<1> QED
  BY <1>2, <1>3, <1>4, <1>5, <1>6, <1>7, <1>8, <1>9, <1>10, <1>11, <1>12, <1>13, Zenon
  DEF Next


\* A step of BankNext is a step of Accounts under the mapping.
LEMMA BankNextImplements == BankNext => [Bank!Next]_<<Asked, accounts>>
BY DEF BankNext, BankStep, Bank!Next

\* The replicas, with their threads, ledgers, timestamps and gossip, implement Accounts: whatever
\* overlaps, fails, or is gossiped again, balances change only by what users asked for and ledgers
\* hold, every transfer gives what it takes, and no request is lost.
THEOREM Implementation == NoSelfTransfer /\ Spec => ImplementsAccounts
<1>1. NoSelfTransfer /\ Spec => [](NoSelfTransfer /\ RInv)
  <2>1. Init => RInv BY InitRInv
  <2>2. NoSelfTransfer /\ RInv /\ [Next]_vars => NoSelfTransfer' /\ RInv'
    BY NextBank DEF NoSelfTransfer
  <2> QED BY <2>1, <2>2, PTL DEF Spec
<1>2. Init => Bank!Init BY InitRInv
<1>3. NoSelfTransfer /\ RInv /\ [Next]_vars => [Bank!Next]_<<Asked, accounts>>
  BY NextBank, BankNextImplements
<1> QED BY <1>1, <1>2, <1>3, PTL DEF Spec, ImplementsAccounts, Bank!Spec

-----------------------------------------------------------------------------
(* No operation is executed twice.  What a ledger holds. *)

\* L holds the write w, with the timestamp p, or without one (NoTS).
Holds(L, w, p) == \E j \in DOMAIN L : L[j].write = w /\ L[j].prev = p

\* L holds no write twice.
OnceEach(L) == \A i, j \in DOMAIN L : L[i].write = L[j].write => i = j

\* M holds what L holds.
SameWrites(L, M) == OnceEach(M) /\ \A w, p : Holds(M, w, p) <=> Holds(L, w, p)

\* M has the writes of L where L has them.
SamePlaces(L, M) == \A j \in DOMAIN L : j \in DOMAIN M /\ M[j].write = L[j].write

\* A write that is new is held once, without timestamps.
LEMMA AppendHolds ==
  ASSUME NEW L \in Seq(Op), NEW op \in Op, op.prev = NoTS, OnceEach(L),
         \A p : ~Holds(L, op.write, p)
  PROVE  /\ OnceEach(Append(L, op)) /\ SamePlaces(L, Append(L, op))
         /\ \A w, p : Holds(Append(L, op), w, p) <=> Holds(L, w, p) \/ (w = op.write /\ p = NoTS)
<1> DEFINE M == Append(L, op)
           n == Len(L)
<1>1. n \in Nat /\ DOMAIN L = 1..n OBVIOUS
<1>2. M \in Seq(Op) /\ Len(M) = n + 1 /\ DOMAIN M = 1..(n + 1) OBVIOUS
<1>3. M[n + 1] = op /\ \A j \in 1..n : M[j] = L[j] OBVIOUS
<1>4. 1..(n + 1) = 1..n \cup {n + 1} BY <1>1
<1> HIDE DEF M
<1>5. \A j \in 1..n : L[j].write # op.write BY <1>1 DEF Holds
<1> HIDE DEF n
<1>6. OnceEach(M) BY <1>1, <1>2, <1>3, <1>4, <1>5 DEF OnceEach
<1>7. SamePlaces(L, M) BY <1>1, <1>2, <1>3, <1>4 DEF SamePlaces
<1>8. \A w, p : Holds(M, w, p) <=> Holds(L, w, p) \/ (w = op.write /\ p = NoTS)
  BY <1>1, <1>2, <1>3, <1>4 DEF Holds
<1> QED BY <1>6, <1>7, <1>8 DEF M

\* The last operation gets the timestamp of its request.
LEMMA SetPrevHolds ==
  ASSUME NEW L \in Seq(Op), 1 \in DOMAIN L, NEW v, OnceEach(L), IsLast(L, v), NEW t
  PROVE  /\ OnceEach(SetPrevTS(L, t)) /\ SamePlaces(L, SetPrevTS(L, t))
         /\ \A w, p : Holds(SetPrevTS(L, t), w, p) <=> \/ w # v /\ Holds(L, w, p)
                                                       \/ w = v /\ p = t
<1> DEFINE n == Len(L)
           o == [L[n] EXCEPT !.prev = t]
           M == [L EXCEPT ![n] = o]
<1>1. n \in Nat /\ DOMAIN L = 1..n /\ n \in DOMAIN L /\ L[n] \in Op OBVIOUS
<1>2. o.write = v /\ o.prev = t BY <1>1 DEF Op, IsLast
<1>3. SetPrevTS(L, t) = M BY <1>1 DEF SetPrevTS
<1> HIDE DEF o
<1>4. DOMAIN M = DOMAIN L /\ M[n] = o BY <1>1
<1>5. \A j \in DOMAIN L : j # n => M[j] = L[j] OBVIOUS
<1>6. L[n].write = v BY DEF IsLast
<1> HIDE DEF M, n
<1>7. \A j \in DOMAIN L : M[j].write = L[j].write BY <1>2, <1>4, <1>5, <1>6
<1>8. OnceEach(M) /\ SamePlaces(L, M) BY <1>4, <1>7 DEF OnceEach, SamePlaces
<1>9. \A j \in DOMAIN L : L[j].write = v => j = n BY <1>1, <1>6 DEF OnceEach
<1>10. \A w, p : Holds(M, w, p) <=> \/ w # v /\ Holds(L, w, p)
                                    \/ w = v /\ p = t
  BY <1>1, <1>2, <1>4, <1>5, <1>6, <1>9 DEF Holds
<1> QED BY <1>3, <1>8, <1>10

\* An operation that is replaced keeps its write and its request's timestamp.
LEMMA ReplaceHolds ==
  ASSUME NEW L \in Seq(Op), OnceEach(L), NEW i \in DOMAIN L, NEW o,
         o.write = L[i].write, o.prev = L[i].prev
  PROVE  SameWrites(L, [L EXCEPT ![i] = o]) /\ SamePlaces(L, [L EXCEPT ![i] = o])
<1> DEFINE M == [L EXCEPT ![i] = o]
<1>1. DOMAIN M = DOMAIN L /\ \A j \in DOMAIN L : M[j].write = L[j].write /\ M[j].prev = L[j].prev
  OBVIOUS
<1> HIDE DEF M
<1>2. SameWrites(L, M) /\ SamePlaces(L, M)
  BY <1>1 DEF SameWrites, SamePlaces, OnceEach, Holds
<1> QED BY <1>2 DEF M

\* So does the last one when it gets its own timestamp.
LEMMA SetTSHolds ==
  ASSUME NEW L \in Seq(Op), 1 \in DOMAIN L, OnceEach(L), NEW t
  PROVE  SameWrites(L, SetTS(L, t)) /\ SamePlaces(L, SetTS(L, t))
<1> DEFINE n == Len(L)
           o == [L[n] EXCEPT !.ts = t, !.live = FALSE]
<1>1. n \in DOMAIN L /\ L[n] \in Op OBVIOUS
<1>2. o.write = L[n].write /\ o.prev = L[n].prev BY <1>1 DEF Op
<1>3. SetTS(L, t) = [L EXCEPT ![n] = o] BY <1>1 DEF SetTS
<1> HIDE DEF o, n
<1>4. SameWrites(L, [L EXCEPT ![n] = o]) /\ SamePlaces(L, [L EXCEPT ![n] = o])
  BY <1>1, <1>2, ReplaceHolds
<1> QED BY <1>3, <1>4

\* And one that starts to share the value timestamp.
LEMMA LiveHolds ==
  ASSUME NEW L \in Seq(Op), NEW i \in DOMAIN L, OnceEach(L)
  PROVE  SameWrites(L, [L EXCEPT ![i].live = TRUE]) /\ SamePlaces(L, [L EXCEPT ![i].live = TRUE])
<1> DEFINE o == [L[i] EXCEPT !.live = TRUE]
<1>1. L[i] \in Op OBVIOUS
<1>2. o.write = L[i].write /\ o.prev = L[i].prev BY <1>1 DEF Op
<1> HIDE DEF o
<1>3. SameWrites(L, [L EXCEPT ![i] = o]) /\ SamePlaces(L, [L EXCEPT ![i] = o])
  BY <1>2, ReplaceHolds
<1> QED BY <1>3 DEF o

\* A sort keeps the writes and their timestamps.
LEMMA SortHolds ==
  ASSUME NEW L, SoundLedger(L), NEW M \in SortLedger(L), OnceEach(L)
  PROVE  SameWrites(L, M)
<1> DEFINE D == DOMAIN L
<1>1. PICK p \in Bijection(D, D) : M = [j \in D |-> L[p[j]]] BY SortMoves
<1>2. /\ \A j \in D : p[j] \in D
      /\ \A j, k \in D : p[j] = p[k] => j = k
      /\ \A i \in D : \E j \in D : p[j] = i
  BY DEF Bijection, Injection, IsInjective, Surjection
<1>3. DOMAIN M = D /\ \A j \in D : M[j] = L[p[j]] BY <1>1
<1> HIDE DEF D
<1>4. OnceEach(M)
  <2>1. \A i, j \in D : L[i].write = L[j].write => i = j BY DEF OnceEach, D
  <2> QED BY <1>2, <1>3, <2>1 DEF OnceEach
<1>5. ASSUME NEW w, NEW q, Holds(M, w, q) PROVE Holds(L, w, q)
  <2>1. PICK j \in D : M[j].write = w /\ M[j].prev = q BY <1>3, <1>5 DEF Holds
  <2>2. p[j] \in D /\ L[p[j]].write = w /\ L[p[j]].prev = q BY <1>2, <1>3, <2>1
  <2> QED BY <2>2 DEF Holds, D
<1>6. ASSUME NEW w, NEW q, Holds(L, w, q) PROVE Holds(M, w, q)
  <2>1. PICK i \in D : L[i].write = w /\ L[i].prev = q BY <1>6 DEF Holds, D
  <2>2. PICK j \in D : p[j] = i BY <1>2
  <2> QED BY <1>3, <2>1, <2>2 DEF Holds
<1> QED BY <1>4, <1>5, <1>6 DEF SameWrites

\* A message holds what the sender's ledger holds.
LEMMA OutgoingHolds ==
  ASSUME IInv, NEW r \in Replica, NEW q \in Replica, NEW w, NEW p, Holds(Outgoing(r, q), w, p)
  PROVE  Holds(ledger[r], w, p)
<1> DEFINE L == ledger[r]
           m == mapTS[r][q]
           len == IF Len(L) > m THEN Len(L) - m ELSE 0
<1>1. L \in Seq(Op) /\ Len(L) \in Nat /\ DOMAIN L = 1..Len(L) BY DEF IInv, LedgerInv
<1>2. m \in Nat BY ReplicaAssumption DEF IInv, ClockInv, TS
<1>3. PICK j \in 1..len : Outgoing(r, q)[j].write = w /\ Outgoing(r, q)[j].prev = p
  BY DEF Holds, Outgoing
<1>4. j + m \in DOMAIN L BY <1>1, <1>2
<1>5. L[j + m] \in Op BY <1>1, <1>4
<1>6. Outgoing(r, q)[j] = [L[j + m] EXCEPT !.ts = TimestampOf(r, L[j + m]), !.live = FALSE]
  BY DEF Outgoing
<1>7. L[j + m].write = w /\ L[j + m].prev = p BY <1>3, <1>5, <1>6 DEF Op
<1> QED BY <1>4, <1>7 DEF Holds

\* The operation at the head of a message, and what is left, are in it.
LEMMA TailHolds ==
  ASSUME NEW m \in Seq(Op), m # <<>>
  PROVE  /\ Holds(m, Head(m).write, Head(m).prev)
         /\ \A w, p : Holds(Tail(m), w, p) => Holds(m, w, p)
<1>1. Len(m) \in Nat /\ Len(m) >= 1 /\ DOMAIN m = 1..Len(m) /\ Head(m) = m[1] OBVIOUS
<1>2. DOMAIN Tail(m) = 1..(Len(m) - 1) OBVIOUS
<1>3. \A j \in 1..(Len(m) - 1) : Tail(m)[j] = m[j + 1] OBVIOUS
<1>4. Holds(m, Head(m).write, Head(m).prev) BY <1>1 DEF Holds
<1>5. \A j \in 1..(Len(m) - 1) : j + 1 \in DOMAIN m BY <1>1
<1>6. \A w, p : Holds(Tail(m), w, p) => Holds(m, w, p) BY <1>2, <1>3, <1>5 DEF Holds
<1> QED BY <1>4, <1>6
-----------------------------------------------------------------------------
(* How the handlers of the calls go on. *)

\* A handler whose operation is in the ledger without timestamps.
Owes(u) == call[u].pc \in {"tick", "put", "raise", "stamp"}

\* The write of the handler.
Its(u) == <<u, call[u].n>>

\* The handler of u goes from a to b.
Moves(u, a, b) ==
  /\ call[u].pc = a /\ call'[u].pc = b /\ call'[u].at = call[u].at /\ call'[u].n = call[u].n
  /\ call'[u].prev = call[u].prev /\ call'[u].stable = call[u].stable

LEMMA CallSteps ==
  ASSUME IInv, NEW u \in User,
         \/ \E r \in Replica, req \in Writes[u] : AskWrite(u, r, req)
         \/ AddOperation(u) \/ ReadClock(u) \/ PutClock(u) \/ RaiseClock(u)
         \/ StampRequest(u) \/ StampReplica(u) \/ Answer(u)
         \/ \E r \in Replica, a \in Reads[u] : AskBalance(u, r, a)
         \/ Balance(u)
  PROVE  /\ \A v \in User : v # u => call'[v] = call[v]
         /\ \/ /\ \E r \in Replica, req \in Writes[u] : AskWrite(u, r, req)
               /\ call[u].pc = "idle" /\ call'[u].pc = "add" /\ call'[u].n = call[u].n + 1
            \/ AddOperation(u) /\ Moves(u, "add", "tick")
            \/ ReadClock(u) /\ Moves(u, "tick", "put")
            \/ PutClock(u) /\ Moves(u, "put", IF call[u].stable THEN "raise" ELSE "stamp")
            \/ RaiseClock(u) /\ Moves(u, "raise", "stamp")
            \/ StampRequest(u) /\ Moves(u, "stamp", "mark")
            \/ StampReplica(u) /\ Moves(u, "mark", "answer")
            \/ /\ Answer(u) \/ Balance(u) \/ \E r \in Replica, a \in Reads[u] : AskBalance(u, r, a)
               /\ call[u].pc \in {"idle", "answer", "read"} /\ call'[u].pc \in {"idle", "read"}
               /\ call'[u].n = call[u].n
<1>1. call \in [User -> Call] BY DEF IInv, CallInv
<1>2. \A v \in User : v # u => call'[v] = call[v]
  BY <1>1 DEF AskWrite, AddOperation, ReadClock, PutClock, RaiseClock, StampRequest, StampReplica,
              Answer, AskBalance, Balance
<1>3. ASSUME NEW r \in Replica, NEW req \in Writes[u], AskWrite(u, r, req)
      PROVE  call[u].pc = "idle" /\ call'[u].pc = "add" /\ call'[u].n = call[u].n + 1
  BY <1>1, <1>3 DEF AskWrite, NoCall
<1>4. ASSUME NEW a, NEW b, call[u].pc = a, call' = [call EXCEPT ![u].pc = b]
      PROVE  Moves(u, a, b)
  BY <1>1, <1>4 DEF Moves, Call
<1>5. AddOperation(u) => Moves(u, "add", "tick") BY <1>4 DEF AddOperation
<1>6. ReadClock(u) => Moves(u, "tick", "put") BY <1>1 DEF ReadClock, Moves, Call
<1>7. PutClock(u) => Moves(u, "put", IF call[u].stable THEN "raise" ELSE "stamp")
  BY <1>4 DEF PutClock
<1>8. RaiseClock(u) => Moves(u, "raise", "stamp") BY <1>4 DEF RaiseClock
<1>9. StampRequest(u) => Moves(u, "stamp", "mark") BY <1>4 DEF StampRequest
<1>10. StampReplica(u) => Moves(u, "mark", "answer") BY <1>4 DEF StampReplica
<1>11. Answer(u) => Moves(u, "answer", "idle") BY <1>4 DEF Answer
<1>12. Balance(u) => Moves(u, "read", "idle") BY <1>4 DEF Balance
<1>13. ASSUME NEW r \in Replica, NEW a \in Reads[u], AskBalance(u, r, a)
       PROVE  call[u].pc = "idle" /\ call'[u].pc = "read" /\ call'[u].n = call[u].n
  BY <1>1, <1>13 DEF AskBalance, NoCall
<1>14. CASE Answer(u) \/ Balance(u) \/ \E r \in Replica, a \in Reads[u] : AskBalance(u, r, a)
  <2>1. /\ call[u].pc \in {"idle", "answer", "read"} /\ call'[u].pc \in {"idle", "read"}
        /\ call'[u].n = call[u].n
    BY <1>11, <1>12, <1>13, <1>14 DEF Moves
  <2> QED BY <1>2, <1>14, <2>1
<1>15. CASE \E r \in Replica, req \in Writes[u] : AskWrite(u, r, req) BY <1>2, <1>3, <1>15
<1> QED BY <1>2, <1>5, <1>6, <1>7, <1>8, <1>9, <1>10, <1>14, <1>15, Zenon

\* Until a handler races, none did.
LEMMA RacedBefore == [Next]_vars /\ ~raced' => ~raced
<1> SUFFICES ASSUME [Next]_vars, ~raced' PROVE ~raced OBVIOUS
<1>1. ASSUME \/ \E u \in User : PutClock(u) \/ StampRequest(u) \/ StampReplica(u)
             \/ StampPrev \/ StampTS \/ CheckOperation
      PROVE  ~raced
  BY <1>1 DEF PutClock, StampRequest, StampReplica, StampPrev, StampTS, CheckOperation
<1>2. ASSUME \/ \E u \in User, q \in Replica : \/ \E req \in Writes[u] : AskWrite(u, q, req)
                                              \/ \E a \in Reads[u] : AskBalance(u, q, a)
             \/ \E u \in User : \/ AddOperation(u) \/ ReadClock(u) \/ RaiseClock(u)
                                \/ Answer(u) \/ Balance(u)
             \/ \E q \in MayStop : SetActive(q)
             \/ \E q \in Replica : StartGossip(q) \/ SendTo(q)
             \/ EndGossip \/ TakeOperation \/ RaiseValue \/ ExecuteOperation \/ SortReceived
             \/ StartRun \/ RunUnstable \/ EndRun \/ UNCHANGED vars
      PROVE  UNCHANGED raced
  BY <1>2 DEF AskWrite, AskBalance, AddOperation, ReadClock, RaiseClock, Answer, Balance, SetActive,
              StartGossip, SendTo, EndGossip, TakeOperation, RaiseValue, ExecuteOperation,
              SortReceived, StartRun, RunUnstable, EndRun, vars
<1> QED BY <1>1, <1>2, Zenon DEF Next

-----------------------------------------------------------------------------
(* The replica's own entry of its clock. *)

\* t counts an update that p does not.
Past(t, p) == ~Leq(t, p)

\* Until a stale clock is put back, the own entry of a replica's clock is what it has written.
Counted == \A r \in Replica : mapTS[r][r] = written[r]

\* So the clock that stamps an operation counts an update that its user did not know: itself.
Ahead ==
  \A u \in User :
    /\ call[u].pc \in {"raise", "stamp", "mark"} => Past(mapTS[call[u].at], call[u].prev)
    /\ call[u].pc = "stamp" /\ call[u].stable => Past(valueTS[call[u].at], call[u].prev)

OwnInv == Counted /\ Ahead

\* A join is above what is joined.
LEMMA JoinAbove ==
  ASSUME NEW t \in TS, NEW u \in TS
  PROVE  Join(t, u) \in TS /\ Leq(t, Join(t, u)) /\ Leq(u, Join(t, u))
BY DEF TS, Leq, Join

\* A timestamp that grows stays past what it was past.
LEMMA PastGrows ==
  ASSUME NEW t \in TS, NEW v \in TS, NEW p \in TS, Past(t, p), Leq(t, v)
  PROVE  Past(v, p)
BY LeqTransitive DEF Past

\* A timestamp is below itself.
LEMMA LeqReflexive == \A t \in TS : Leq(t, t)
BY DEF TS, Leq

\* The value timestamp of a replica never gets smaller.
LEMMA ValueGrows ==
  ASSUME IInv, [Next]_vars, NEW r \in Replica
  PROVE  Leq(valueTS[r], valueTS'[r]) /\ valueTS[r] \in TS /\ valueTS'[r] \in TS
<1>1. valueTS \in [Replica -> TS] /\ mapTS \in [Replica -> TS] BY DEF IInv, ClockInv
<1>2. valueTS'[r] \in TS
  <2>1. IInv' BY NextIInv
  <2> QED BY <2>1 DEF IInv, ClockInv
<1>3. ASSUME UNCHANGED valueTS PROVE Leq(valueTS[r], valueTS'[r]) BY <1>1, <1>3, LeqReflexive
<1>4. ASSUME NEW q \in Replica, NEW t \in TS, valueTS' = [valueTS EXCEPT ![q] = Join(@, t)]
      PROVE  Leq(valueTS[r], valueTS'[r])
  BY <1>1, <1>4, JoinAbove, LeqReflexive
<1>5. ASSUME NEW u \in User, RaiseClock(u) PROVE Leq(valueTS[r], valueTS'[r])
  <2>1. PICK q \in Replica : q = call[u].at BY <1>5 DEF RaiseClock, IInv, CallInv
  <2>2. valueTS' = [valueTS EXCEPT ![q] = Join(@, mapTS[q])] BY <1>5, <2>1 DEF RaiseClock
  <2> QED BY <1>1, <1>4, <2>2
<1>6. ASSUME RaiseValue \/ RunUnstable PROVE Leq(valueTS[r], valueTS'[r])
  <2>1. \/ gossip.pc \in AtFound
        \/ gossip.pc = "run" /\ gossip.i <= Len(ledger[gossip.to])
    BY <1>6 DEF RaiseValue, RunUnstable, AtFound
  <2>2. PICK q \in Replica : q = gossip.to /\ gossip.i \in DOMAIN ledger[q] BY <2>1, FoundTyped
  <2>3. PICK t : t = TimestampOf(q, ledger[q][gossip.i]) OBVIOUS
  <2>4. \/ UNCHANGED valueTS
        \/ t # NoTS /\ valueTS' = [valueTS EXCEPT ![q] = Join(@, t)]
    BY <1>6, <2>2, <2>3 DEF RaiseValue, RunUnstable
  <2>5. t # NoTS => t \in TS
    BY <1>1, <2>2, <2>3 DEF IInv, LedgerInv, SoundLedger, Sound, Issued, TimestampOf
  <2> QED BY <1>3, <1>4, <2>4, <2>5
<1>7. ASSUME \/ \E u \in User, q \in Replica : \/ \E req \in Writes[u] : AskWrite(u, q, req)
                                              \/ \E a \in Reads[u] : AskBalance(u, q, a)
             \/ \E u \in User : \/ AddOperation(u) \/ ReadClock(u) \/ PutClock(u)
                                \/ StampRequest(u) \/ StampReplica(u) \/ Answer(u) \/ Balance(u)
             \/ \E q \in MayStop : SetActive(q)
             \/ \E q \in Replica : StartGossip(q) \/ SendTo(q)
             \/ EndGossip \/ TakeOperation \/ StampPrev \/ StampTS \/ CheckOperation
             \/ ExecuteOperation \/ SortReceived \/ StartRun \/ EndRun \/ UNCHANGED vars
      PROVE  UNCHANGED valueTS
  BY <1>7 DEF AskWrite, AskBalance, AddOperation, ReadClock, PutClock, StampRequest, StampReplica,
              Answer, Balance, SetActive, StartGossip, SendTo, EndGossip, TakeOperation, StampPrev,
              StampTS, CheckOperation, ExecuteOperation, SortReceived, StartRun, EndRun, vars, clocks
<1>8. Leq(valueTS[r], valueTS'[r]) BY <1>3, <1>5, <1>6, <1>7, Zenon DEF Next
<1> QED BY <1>1, <1>2, <1>8

\* Nothing is written, and clocks only grow.
LEMMA OwnKept ==
  ASSUME IInv, IInv', OwnInv, [Next]_vars, UNCHANGED written,
         \A r \in Replica : mapTS'[r][r] = mapTS[r][r] /\ Leq(mapTS[r], mapTS'[r]),
         \A v \in User : call'[v].pc \in {"raise", "stamp", "mark"} =>
           /\ call[v].pc \in {"raise", "stamp", "mark"} /\ call'[v].at = call[v].at
           /\ call'[v].prev = call[v].prev,
         \A v \in User : call'[v].pc = "stamp" /\ call'[v].stable =>
           \/ call[v].pc = "stamp" /\ call[v].stable
           \/ Past(valueTS'[call[v].at], call[v].prev)
  PROVE  OwnInv'
<1>1. Counted' BY DEF OwnInv, Counted
<1>2. Ahead'
  <2> SUFFICES ASSUME NEW v \in User, call'[v].pc \in {"raise", "stamp", "mark"}
               PROVE  /\ Past(mapTS'[call'[v].at], call'[v].prev)
                      /\ call'[v].pc = "stamp" /\ call'[v].stable =>
                           Past(valueTS'[call'[v].at], call'[v].prev)
    BY DEF Ahead, Past, Leq
  <2> DEFINE r == call[v].at
             p == call[v].prev
  <2>1. call[v].pc \in {"raise", "stamp", "mark"} /\ call'[v].at = r /\ call'[v].prev = p OBVIOUS
  <2>2. r \in Replica /\ p \in TS BY <2>1 DEF IInv, CallInv, Call
  <2>3. mapTS[r] \in TS /\ mapTS'[r] \in TS BY <2>2 DEF IInv, ClockInv
  <2>4. Leq(mapTS[r], mapTS'[r]) BY <2>2
  <2>5. Leq(valueTS[r], valueTS'[r]) /\ valueTS[r] \in TS /\ valueTS'[r] \in TS
    BY <2>2, ValueGrows
  <2>6. Past(mapTS[r], p) BY <2>1 DEF OwnInv, Ahead
  <2>7. call[v].pc = "stamp" /\ call[v].stable => Past(valueTS[r], p) BY DEF OwnInv, Ahead
  <2>8. call'[v].pc = "stamp" /\ call'[v].stable =>
          (call[v].pc = "stamp" /\ call[v].stable) \/ Past(valueTS'[r], p)
    OBVIOUS
  <2> HIDE DEF r, p
  <2>9. Past(mapTS'[r], p) BY <2>2, <2>3, <2>4, <2>6, PastGrows
  <2>10. call[v].pc = "stamp" /\ call[v].stable => Past(valueTS'[r], p)
    BY <2>2, <2>5, <2>7, PastGrows
  <2> QED BY <2>1, <2>8, <2>9, <2>10
<1> QED BY <1>1, <1>2 DEF OwnInv

\* A handler goes on, without writing to the clock.
LEMMA CallsOwn ==
  ASSUME IInv, IInv', OwnInv, [Next]_vars, NEW u \in User,
         \/ \E r \in Replica, req \in Writes[u] : AskWrite(u, r, req)
         \/ AddOperation(u) \/ ReadClock(u) \/ RaiseClock(u)
         \/ StampRequest(u) \/ StampReplica(u) \/ Answer(u)
         \/ \E r \in Replica, a \in Reads[u] : AskBalance(u, r, a)
         \/ Balance(u)
  PROVE  OwnInv'
<1>1. UNCHANGED <<mapTS, written>>
  BY DEF AskWrite, AddOperation, ReadClock, RaiseClock, StampRequest, StampReplica, Answer,
         AskBalance, Balance, clocks
<1>2. ~PutClock(u)
  <2>1. ~UNCHANGED written \/ ~PutClock(u)
    <3> SUFFICES ASSUME PutClock(u), UNCHANGED written PROVE FALSE OBVIOUS
    <3>1. call[u].at \in 1..3 /\ written \in TS
      BY ReplicaAssumption DEF PutClock, IInv, ClockInv, CallInv
    <3>2. written'[call[u].at] = written[call[u].at] + 1 /\ written[call[u].at] \in Nat
      BY <3>1 DEF PutClock, TS
    <3> QED BY <3>2
  <2> QED BY <1>1, <2>1
<1>3. /\ \A v \in User : v # u => call'[v] = call[v]
      /\ \/ call'[u].pc \notin {"raise", "stamp", "mark"}
         \/ RaiseClock(u) /\ Moves(u, "raise", "stamp")
         \/ StampRequest(u) /\ Moves(u, "stamp", "mark")
  <2>1. CASE \E r \in Replica, req \in Writes[u] : AskWrite(u, r, req)
    BY <2>1, <1>2, CallSteps DEF Moves
  <2>2. CASE \E r \in Replica, a \in Reads[u] : AskBalance(u, r, a)
    BY <2>2, <1>2, CallSteps DEF Moves
  <2>3. CASE \/ AddOperation(u) \/ ReadClock(u) \/ RaiseClock(u)
             \/ StampRequest(u) \/ StampReplica(u) \/ Answer(u) \/ Balance(u)
    BY <2>3, <1>2, CallSteps DEF Moves
  <2> QED BY <2>1, <2>2, <2>3
<1>4. \A r \in Replica : mapTS'[r][r] = mapTS[r][r] /\ Leq(mapTS[r], mapTS'[r])
  BY <1>1, LeqReflexive DEF IInv, ClockInv
<1>5. \A v \in User : call'[v].pc \in {"raise", "stamp", "mark"} =>
        /\ call[v].pc \in {"raise", "stamp", "mark"} /\ call'[v].at = call[v].at
        /\ call'[v].prev = call[v].prev
  BY <1>3 DEF Moves
<1>6. RaiseClock(u) => Past(valueTS'[call[u].at], call[u].prev)
  <2> SUFFICES ASSUME RaiseClock(u) PROVE Past(valueTS'[call[u].at], call[u].prev) OBVIOUS
  <2>1. PICK r \in Replica, p \in TS : r = call[u].at /\ p = call[u].prev
    BY DEF RaiseClock, IInv, CallInv, Call
  <2>2. Past(mapTS[r], p) BY <2>1 DEF RaiseClock, OwnInv, Ahead
  <2>3. mapTS[r] \in TS /\ valueTS[r] \in TS /\ valueTS'[r] = Join(valueTS[r], mapTS[r])
    BY <2>1 DEF RaiseClock, IInv, ClockInv
  <2>4. valueTS'[r] \in TS /\ Leq(mapTS[r], valueTS'[r]) BY <2>3, JoinAbove
  <2> QED BY <2>1, <2>2, <2>3, <2>4, PastGrows
<1>7. \A v \in User : call'[v].pc = "stamp" /\ call'[v].stable =>
        \/ call[v].pc = "stamp" /\ call[v].stable
        \/ Past(valueTS'[call[v].at], call[v].prev)
  BY <1>3, <1>6 DEF Moves
<1> QED BY <1>1, <1>4, <1>5, <1>7, OwnKept

\* The handler puts its own count into the clock, which had not changed.
LEMMA PutClockOwn ==
  ASSUME IInv, IInv', OwnInv, [Next]_vars, ~raced', NEW u \in User, PutClock(u)
  PROVE  OwnInv'
<1>1. PICK r \in Replica, p \in TS : r = call[u].at /\ p = call[u].prev
  BY DEF PutClock, IInv, CallInv, Call
<1>2. /\ \A v \in User : v # u => call'[v] = call[v]
      /\ call'[u].pc = (IF call[u].stable THEN "raise" ELSE "stamp")
      /\ call'[u].at = r /\ call'[u].prev = p /\ call'[u].stable = call[u].stable
  <2>1. PutClock(u) => call[u].pc = "put" BY DEF PutClock
  <2>2. call \in [User -> Call] BY DEF IInv, CallInv
  <2> QED BY <1>1, <2>1, <2>2 DEF PutClock, Call
<1>3. r \in 1..3 /\ written \in TS /\ Leq(p, written)
  BY <1>1, ReplicaAssumption DEF IInv, ClockInv, CallInv
<1>4. mapTS \in [Replica -> TS] /\ mapTS[r][r] = written[r] /\ mapTS[r] \in TS
  BY <1>1 DEF IInv, ClockInv, OwnInv, Counted
<1>5. call[u].seen = written[r] BY <1>1, <1>4 DEF PutClock
<1>6. mapTS' = [mapTS EXCEPT ![r] = [@ EXCEPT ![r] = written[r] + 1]]
  BY <1>1, <1>5 DEF PutClock
<1>7. written' = [written EXCEPT ![r] = @ + 1] /\ UNCHANGED valueTS BY <1>1 DEF PutClock
<1>8. /\ mapTS'[r] = [mapTS[r] EXCEPT ![r] = written[r] + 1]
      /\ \A q \in Replica : q # r => mapTS'[q] = mapTS[q]
  BY <1>4, <1>6
<1>9. mapTS'[r][r] = written[r] + 1 /\ Leq(mapTS[r], mapTS'[r]) /\ mapTS'[r] \in TS
  BY <1>3, <1>4, <1>8 DEF TS, Leq
<1>10. Counted'
  <2>1. \A q \in Replica : q \in 1..3 BY ReplicaAssumption
  <2>2. written'[r] = written[r] + 1 /\ \A q \in 1..3 : q # r => written'[q] = written[q]
    BY <1>3, <1>7 DEF TS
  <2>3. \A q \in Replica : mapTS'[q][q] = written'[q]
    BY <1>8, <1>9, <2>1, <2>2 DEF OwnInv, Counted
  <2> QED BY <2>3 DEF Counted
<1>11. Past(mapTS'[r], p)
  <2>1. p[r] <= written[r] /\ p[r] \in Nat /\ written[r] \in Nat BY <1>3 DEF Leq, TS
  <2>2. ~(mapTS'[r][r] <= p[r]) BY <1>9, <2>1
  <2> QED BY <1>3, <2>2 DEF Past, Leq
<1>12. Ahead'
  <2> SUFFICES ASSUME NEW v \in User
               PROVE  /\ call'[v].pc \in {"raise", "stamp", "mark"} =>
                           Past(mapTS'[call'[v].at], call'[v].prev)
                      /\ call'[v].pc = "stamp" /\ call'[v].stable =>
                           Past(valueTS'[call'[v].at], call'[v].prev)
    BY DEF Ahead, Past, Leq
  <2>1. CASE v = u BY <1>2, <1>11, <2>1
  <2>2. CASE v # u
    <3> SUFFICES ASSUME call[v].pc \in {"raise", "stamp", "mark"}
                 PROVE  /\ Past(mapTS'[call[v].at], call[v].prev)
                        /\ call[v].pc = "stamp" /\ call[v].stable =>
                             Past(valueTS'[call[v].at], call[v].prev)
      BY <1>2, <2>2
    <3>1. PICK q \in Replica, x \in TS : q = call[v].at /\ x = call[v].prev
      BY DEF IInv, CallInv, Call
    <3>2. Past(mapTS[q], x) /\ (call[v].pc = "stamp" /\ call[v].stable => Past(valueTS[q], x))
      BY <3>1 DEF OwnInv, Ahead
    <3>3. mapTS[q] \in TS /\ mapTS'[q] \in TS /\ Leq(mapTS[q], mapTS'[q])
      BY <1>4, <1>8, <1>9, LeqReflexive
    <3>4. Past(mapTS'[q], x) BY <3>2, <3>3, PastGrows
    <3> QED BY <1>7, <3>1, <3>2, <3>4
  <2> QED BY <2>1, <2>2
<1> QED BY <1>10, <1>12 DEF OwnInv

\* A receiver's clock joins what others have issued: not its own entry.
LEMMA GossipOwn ==
  ASSUME IInv, IInv', OwnInv, [Next]_vars,
         \/ \E r \in Replica : StartGossip(r) \/ SendTo(r)
         \/ \E r \in MayStop : SetActive(r)
         \/ EndGossip \/ TakeOperation \/ StampPrev \/ StampTS \/ CheckOperation \/ RaiseValue
         \/ ExecuteOperation \/ SortReceived \/ StartRun \/ RunUnstable \/ EndRun
         \/ UNCHANGED vars
  PROVE  OwnInv'
<1>1. UNCHANGED <<call, written>> /\ (UNCHANGED mapTS \/ TakeOperation)
  BY DEF StartGossip, SendTo, SetActive, EndGossip, TakeOperation, StampPrev, StampTS,
         CheckOperation, RaiseValue, ExecuteOperation, SortReceived, StartRun, RunUnstable, EndRun,
         vars, clocks
<1>2. mapTS \in [Replica -> TS] /\ written \in TS BY DEF IInv, ClockInv
<1>3. \A r \in Replica : mapTS'[r][r] = mapTS[r][r] /\ Leq(mapTS[r], mapTS'[r])
  <2>1. CASE UNCHANGED mapTS BY <1>2, <2>1, LeqReflexive
  <2>2. CASE TakeOperation /\ ~UNCHANGED mapTS
    <3>1. PICK q \in Replica : q = gossip.to
      BY <2>2 DEF TakeOperation, IInv, GossipInv, Receiving
    <3>2. PICK t : t = Head(gossip.msg).ts OBVIOUS
    <3>3. mapTS' = [mapTS EXCEPT ![q] = Join(@, t)] /\ gossip.msg # <<>>
      BY <2>2, <3>1, <3>2 DEF TakeOperation
    <3>4. t \in TS /\ Leq(t, written) BY <3>2, <3>3, HeadSigned DEF Signed, Issued
    <3>5. Leq(mapTS[q], Join(mapTS[q], t)) BY <1>2, <3>4, JoinAbove
    <3>6. Join(mapTS[q], t)[q] = mapTS[q][q]
      <4>1. q \in 1..3 /\ mapTS[q][q] = written[q] BY ReplicaAssumption DEF OwnInv, Counted
      <4>2. t[q] <= mapTS[q][q] /\ t[q] \in Nat /\ mapTS[q][q] \in Nat
        BY <1>2, <3>4, <4>1 DEF Leq, TS
      <4> QED BY <4>1, <4>2 DEF Join
    <3>7. mapTS'[q] = Join(mapTS[q], t) /\ \A r \in Replica : r # q => mapTS'[r] = mapTS[r]
      BY <1>2, <3>3
    <3> QED BY <1>2, <3>5, <3>6, <3>7, LeqReflexive
  <2> QED BY <1>1, <2>1, <2>2
<1> QED BY <1>1, <1>3, OwnKept

\* Every step keeps OwnInv, until a handler races.
LEMMA NextOwn == IInv /\ IInv' /\ OwnInv /\ ~raced' /\ [Next]_vars => OwnInv'
<1> SUFFICES ASSUME IInv, IInv', OwnInv, ~raced', [Next]_vars PROVE OwnInv' OBVIOUS
<1>1. ASSUME NEW u \in User,
             \/ \E r \in Replica, req \in Writes[u] : AskWrite(u, r, req)
             \/ AddOperation(u) \/ ReadClock(u) \/ RaiseClock(u)
             \/ StampRequest(u) \/ StampReplica(u) \/ Answer(u)
             \/ \E r \in Replica, a \in Reads[u] : AskBalance(u, r, a)
             \/ Balance(u)
      PROVE  OwnInv'
  BY <1>1, CallsOwn
<1>2. ASSUME NEW u \in User, PutClock(u) PROVE OwnInv' BY <1>2, PutClockOwn
<1>3. ASSUME \/ \E r \in Replica : StartGossip(r) \/ SendTo(r)
             \/ \E r \in MayStop : SetActive(r)
             \/ EndGossip \/ TakeOperation \/ StampPrev \/ StampTS \/ CheckOperation \/ RaiseValue
             \/ ExecuteOperation \/ SortReceived \/ StartRun \/ RunUnstable \/ EndRun
             \/ UNCHANGED vars
      PROVE  OwnInv'
  BY <1>3, GossipOwn
<1> QED BY <1>1, <1>2, <1>3, Zenon DEF Next
-----------------------------------------------------------------------------
(* A ledger holds a write once, and all that hold it give it the same prev. *)

\* The write w has the timestamp p, or none (NoTS), in a ledger or a message.
Known(w, p) == (\E r \in Replica : Holds(ledger[r], w, p)) \/ Holds(gossip.msg, w, p)

SingleInv == \A r \in Replica : OnceEach(ledger[r])

\* A write has one prev everywhere, which it gets from its handler.
KnownInv ==
  /\ \A w, p, q : Known(w, p) /\ Known(w, q) => p = q \/ p = NoTS \/ q = NoTS
  /\ \A u \in User : \A n, p : Known(<<u, n>>, p) => n \in 0..call[u].n
  /\ \A u \in User : call[u].pc = "add" => \A p : ~Known(Its(u), p)
  /\ \A u \in User : Owes(u) => \A p : Known(Its(u), p) => p = NoTS

\* Its operation is in the ledger, with what its handler has given it.
OwedInv ==
  \A u \in User :
    /\ Owes(u) => Holds(ledger[call[u].at], Its(u), NoTS)
    /\ call[u].pc = "mark" => Holds(ledger[call[u].at], Its(u), call[u].prev)

\* So is the operation that gossip is with.
AtIts == {"mark", "check", "raise", "apply"}
FoundInv ==
  /\ gossip.pc \in AtIts => Holds(ledger[gossip.to], Head(gossip.msg).write, Head(gossip.msg).prev)
  /\ gossip.pc \in {"raise", "apply"} =>
       ledger[gossip.to][gossip.i].write = Head(gossip.msg).write

WritesInv == SingleInv /\ KnownInv /\ OwedInv /\ FoundInv

\* A timestamp is set.
LEMMA TimestampSet == \A t \in TS : t # NoTS
<1> SUFFICES ASSUME NEW t \in TS, t = NoTS PROVE FALSE OBVIOUS
<1>1. 1 \in DOMAIN t BY DEF TS
<1>2. DOMAIN NoTS = {} BY DEF NoTS
<1> QED BY <1>1, <1>2

\* A message has its timestamps, so its writes are known with them.
LEMMA HeadKnown ==
  ASSUME IInv, gossip.msg # <<>>
  PROVE  /\ Known(Head(gossip.msg).write, Head(gossip.msg).prev)
         /\ Head(gossip.msg).prev \in TS /\ Head(gossip.msg).prev # NoTS
         /\ \A w, p : Holds(Tail(gossip.msg), w, p) => Known(w, p)
<1>1. gossip.msg \in Seq(Op) BY DEF IInv, GossipInv, Gossip
<1>2. /\ Holds(gossip.msg, Head(gossip.msg).write, Head(gossip.msg).prev)
      /\ \A w, p : Holds(Tail(gossip.msg), w, p) => Holds(gossip.msg, w, p)
  BY <1>1, TailHolds
<1>3. Head(gossip.msg).prev \in TS BY HeadSigned DEF Signed, Issued
<1> QED BY <1>2, <1>3, TimestampSet DEF Known

\* Nothing is known that was not, but for an operation that waits for timestamps which are known;
\* handlers end, or start with a new write.
LEMMA KnownKept ==
  ASSUME IInv, IInv', KnownInv,
         \A v \in User : call'[v].n >= call[v].n,
         \A v \in User : call'[v].pc = "add" =>
           (call[v].pc = "add" /\ call'[v].n = call[v].n) \/ call'[v].n > call[v].n,
         \A v \in User : Owes(v)' => Owes(v) /\ call'[v].n = call[v].n,
         \A w, p : Known(w, p)' =>
           \/ Known(w, p)
           \/ p = NoTS /\ \E q : q # NoTS /\ Known(w, q)
  PROVE  KnownInv'
<1>1. \A w, p, q : Known(w, p)' /\ Known(w, q)' => p = q \/ p = NoTS \/ q = NoTS
  BY DEF KnownInv
<1>2. \A v \in User : call[v].n \in Nat /\ call'[v].n \in Nat BY DEF IInv, CallInv, Call
<1>3. \A v \in User : \A n, p : Known(<<v, n>>, p)' => n \in 0..call'[v].n
  <2> SUFFICES ASSUME NEW v \in User, NEW n, NEW p, Known(<<v, n>>, p)' PROVE n \in 0..call'[v].n
    OBVIOUS
  <2>1. n \in 0..call[v].n BY DEF KnownInv
  <2> QED BY <1>2, <2>1
<1>4. \A v \in User : call'[v].pc = "add" => \A p : ~Known(Its(v), p)'
  <2> SUFFICES ASSUME NEW v \in User, call'[v].pc = "add", NEW p, Known(Its(v), p)' PROVE FALSE
    OBVIOUS
  <2>1. PICK n : n = call'[v].n OBVIOUS
  <2>2. PICK w : w = <<v, n>> OBVIOUS
  <2>3. Known(w, p)' BY <2>1, <2>2 DEF Known, Its
  <2>4. PICK x : Known(w, x) BY <2>3
  <2>5. n \in 0..call[v].n BY <2>2, <2>4 DEF KnownInv
  <2>6. call[v].pc = "add" /\ call[v].n = n BY <1>2, <2>1, <2>5
  <2> QED BY <2>2, <2>4, <2>6 DEF KnownInv, Its
<1>5. \A v \in User : Owes(v)' => \A p : Known(Its(v), p)' => p = NoTS
  <2> SUFFICES ASSUME NEW v \in User, Owes(v)', NEW p, Known(Its(v), p)' PROVE p = NoTS OBVIOUS
  <2>1. PICK w : w = Its(v) OBVIOUS
  <2>2. Owes(v) /\ Known(w, p)' BY <2>1 DEF Known, Its
  <2> QED BY <2>1, <2>2 DEF KnownInv
<1> QED BY <1>1, <1>3, <1>4, <1>5 DEF KnownInv

\* A handler makes its write known: without a prev first, and then with the one of its request.
LEMMA KnownGets ==
  ASSUME IInv, IInv', KnownInv, NEW u \in User, NEW t,
         \A v \in User : v # u => call'[v] = call[v],
         call[u].pc = "add" \/ Owes(u), call'[u].pc # "add", call'[u].n = call[u].n,
         Owes(u)' => t = NoTS,
         \A w, p : Known(w, p)' => Known(w, p) \/ (w = Its(u) /\ p = t)
  PROVE  KnownInv'
<1>1. \A p : Known(Its(u), p) => p = NoTS BY DEF KnownInv
<1>2. \A w, p, q : Known(w, p)' /\ Known(w, q)' => p = q \/ p = NoTS \/ q = NoTS
  BY <1>1 DEF KnownInv
<1>3. \A v \in User : call'[v].n = call[v].n /\ call[v].n \in Nat BY DEF IInv, CallInv, Call
<1>4. \A v \in User : \A n, p : Known(<<v, n>>, p)' => n \in 0..call'[v].n
  <2> SUFFICES ASSUME NEW v \in User, NEW n, NEW p, Known(<<v, n>>, p)' PROVE n \in 0..call'[v].n
    OBVIOUS
  <2>1. Known(<<v, n>>, p) => n \in 0..call[v].n BY DEF KnownInv
  <2>2. <<v, n>> = Its(u) => n = call[v].n BY DEF Its
  <2> QED BY <1>3, <2>1, <2>2
<1>5. \A v \in User : call'[v].pc = "add" => \A p : ~Known(Its(v), p)'
  <2> SUFFICES ASSUME NEW v \in User, call'[v].pc = "add", NEW p, Known(Its(v), p)' PROVE FALSE
    OBVIOUS
  <2>1. PICK w : w = Its(v) OBVIOUS
  <2>2. Known(w, p)' BY <1>3, <2>1 DEF Known, Its
  <2>3. v # u /\ call[v].pc = "add" OBVIOUS
  <2>4. w # Its(u) BY <2>1, <2>3 DEF Its
  <2> QED BY <2>1, <2>2, <2>3, <2>4 DEF KnownInv
<1>6. \A v \in User : Owes(v)' => \A p : Known(Its(v), p)' => p = NoTS
  <2> SUFFICES ASSUME NEW v \in User, Owes(v)', NEW p, Known(Its(v), p)' PROVE p = NoTS OBVIOUS
  <2>1. PICK w : w = Its(v) OBVIOUS
  <2>2. Known(w, p)' BY <1>3, <2>1 DEF Known, Its
  <2>3. Known(w, p) \/ (w = Its(u) /\ p = t) BY <2>2
  <2>4. CASE v = u BY <1>1, <2>1, <2>3, <2>4
  <2>5. CASE v # u
    <3>1. Owes(v) /\ w # Its(u) BY <2>1, <2>5 DEF Owes, Its
    <3> QED BY <2>1, <2>3, <3>1 DEF KnownInv
  <2> QED BY <2>4, <2>5
<1> QED BY <1>2, <1>4, <1>5, <1>6 DEF KnownInv

\* Handlers end, and what was to be in the ledgers stays there.
LEMMA OwedKept ==
  ASSUME OwedInv,
         \A v \in User : Owes(v)' =>
           /\ Owes(v) /\ call'[v].at = call[v].at /\ call'[v].n = call[v].n
           /\ Holds(ledger[call[v].at], Its(v), NoTS) => Holds(ledger'[call[v].at], Its(v), NoTS),
         \A v \in User : call'[v].pc = "mark" =>
           /\ call[v].pc = "mark" /\ call'[v].at = call[v].at /\ call'[v].n = call[v].n
           /\ call'[v].prev = call[v].prev
           /\ Holds(ledger[call[v].at], Its(v), call[v].prev) =>
                Holds(ledger'[call[v].at], Its(v), call[v].prev)
  PROVE  OwedInv'
<1> SUFFICES ASSUME NEW v \in User
             PROVE  /\ Owes(v)' => Holds(ledger'[call'[v].at], <<v, call'[v].n>>, NoTS)
                    /\ call'[v].pc = "mark" =>
                         Holds(ledger'[call'[v].at], <<v, call'[v].n>>, call'[v].prev)
  BY DEF OwedInv, Holds, Its
<1> QED BY DEF OwedInv, Its

\* Gossip stays with an operation that stays in the ledger.
LEMMA FoundKept ==
  ASSUME IInv, FoundInv, UNCHANGED gossip,
         gossip.pc \in AtIts =>
           /\ SamePlaces(ledger[gossip.to], ledger'[gossip.to])
           /\ \A w, p : p # NoTS /\ Holds(ledger[gossip.to], w, p) => Holds(ledger'[gossip.to], w, p)
  PROVE  FoundInv'
<1> SUFFICES ASSUME gossip.pc \in AtIts PROVE FoundInv' BY DEF FoundInv, AtIts
<1>1. gossip.msg # <<>> BY DEF IInv, GossipInv, AtIts, AtLast, AtFound
<1>2. PICK w, p : w = Head(gossip.msg).write /\ p = Head(gossip.msg).prev OBVIOUS
<1>3. p # NoTS BY <1>1, <1>2, HeadKnown
<1>4. Holds(ledger[gossip.to], w, p) BY <1>2 DEF FoundInv
<1>5. Holds(ledger'[gossip.to], w, p) BY <1>3, <1>4
<1>6. gossip.pc \in {"raise", "apply"} => ledger'[gossip.to][gossip.i].write = w
  <2> SUFFICES ASSUME gossip.pc \in {"raise", "apply"}
               PROVE  ledger'[gossip.to][gossip.i].write = w
    OBVIOUS
  <2>1. gossip.i \in DOMAIN ledger[gossip.to] BY DEF IInv, LastInv, AtFound
  <2>2. ledger[gossip.to][gossip.i].write = w BY <1>2 DEF FoundInv
  <2> QED BY <2>1, <2>2 DEF SamePlaces
<1> QED BY <1>2, <1>5, <1>6 DEF FoundInv, Holds
-----------------------------------------------------------------------------
(* What each step makes of the ledgers. *)

\* Nothing is gossiped yet.
LEMMA NoGossipHolds == NoGossip.pc = "idle" /\ \A w, p : ~Holds(NoGossip.msg, w, p)
BY NothingYet DEF Holds

\* The ledgers hold the same.
SameLedgers == \A r \in Replica : SameWrites(ledger[r], ledger'[r])

\* Only sorts move operations.
LEMMA SameSteps ==
  ASSUME IInv, SingleInv,
         \/ \E u \in User : StampReplica(u)
         \/ \E q \in Replica : StartGossip(q)
         \/ StampTS \/ SortReceived \/ RunUnstable \/ UNCHANGED ledger
  PROVE  /\ SameLedgers
         /\ \/ \A r \in Replica : SamePlaces(ledger[r], ledger'[r])
            \/ gossip.pc \notin AtIts
<1>1. /\ ledger \in [Replica -> Seq(Op)]
      /\ \A r \in Replica : SoundLedger(ledger[r]) /\ ledger[r] \in Seq(Op) /\ OnceEach(ledger[r])
  BY DEF IInv, LedgerInv, SingleInv
<1>2. ASSUME UNCHANGED ledger
      PROVE  SameLedgers /\ \A r \in Replica : SamePlaces(ledger[r], ledger'[r])
  BY <1>1, <1>2 DEF SameLedgers, SameWrites, SamePlaces
<1>3. ASSUME NEW q \in Replica, NEW M, SameWrites(ledger[q], M), ledger' = [ledger EXCEPT ![q] = M]
      PROVE  /\ SameLedgers
             /\ SamePlaces(ledger[q], M) => \A r \in Replica : SamePlaces(ledger[r], ledger'[r])
  <2>1. ledger'[q] = M /\ \A r \in Replica : r # q => ledger'[r] = ledger[r] BY <1>1, <1>3
  <2> QED BY <1>1, <1>3, <2>1 DEF SameLedgers, SameWrites, SamePlaces
<1>4. ASSUME NEW u \in User, StampReplica(u)
      PROVE  SameLedgers /\ \A r \in Replica : SamePlaces(ledger[r], ledger'[r])
  <2>1. PICK q \in Replica : q = call[u].at
    BY <1>4 DEF StampReplica, IInv, CallInv
  <2>2. PICK t : ledger' = [ledger EXCEPT ![q] = SetTS(ledger[q], t)] BY <1>4, <2>1 DEF StampReplica
  <2>3. CASE 1 \in DOMAIN ledger[q]
    <3>1. SameWrites(ledger[q], SetTS(ledger[q], t)) /\ SamePlaces(ledger[q], SetTS(ledger[q], t))
      BY <1>1, <2>3, SetTSHolds
    <3> QED BY <1>3, <2>2, <3>1
  <2>4. CASE 1 \notin DOMAIN ledger[q]
    <3>1. Len(ledger[q]) \notin DOMAIN ledger[q] BY <1>1, <2>4
    <3>2. SetTS(ledger[q], t) = ledger[q] BY <1>1, <3>1 DEF SetTS
    <3>3. UNCHANGED ledger BY <1>1, <2>2, <3>2
    <3> QED BY <1>2, <3>3
  <2> QED BY <2>3, <2>4
<1>5. ASSUME StampTS
      PROVE  SameLedgers /\ \A r \in Replica : SamePlaces(ledger[r], ledger'[r])
  <2>1. PICK q \in Replica : q = gossip.to
    BY <1>5 DEF StampTS, IInv, GossipInv, Receiving
  <2>2. PICK t : ledger' = [ledger EXCEPT ![q] = SetTS(ledger[q], t)] BY <1>5, <2>1 DEF StampTS
  <2>3. 1 \in DOMAIN ledger[q] BY <1>5, <2>1 DEF StampTS, IInv, LastInv, AtLast
  <2>4. SameWrites(ledger[q], SetTS(ledger[q], t)) /\ SamePlaces(ledger[q], SetTS(ledger[q], t))
    BY <1>1, <2>3, SetTSHolds
  <2> QED BY <1>3, <2>2, <2>4
<1>6. ASSUME RunUnstable
      PROVE  SameLedgers /\ \A r \in Replica : SamePlaces(ledger[r], ledger'[r])
  <2>1. gossip.pc = "run" /\ gossip.i <= Len(ledger[gossip.to]) BY <1>6 DEF RunUnstable
  <2>2. PICK q \in Replica : q = gossip.to BY <2>1, FoundTyped
  <2>3. PICK i \in DOMAIN ledger[q] : i = gossip.i BY <2>1, <2>2, FoundTyped
  <2>4. \/ UNCHANGED ledger
        \/ ledger' = [ledger EXCEPT ![q] = [ledger[q] EXCEPT ![i].live = TRUE]]
    BY <1>6, <2>2, <2>3 DEF RunUnstable
  <2>5. /\ SameWrites(ledger[q], [ledger[q] EXCEPT ![i].live = TRUE])
        /\ SamePlaces(ledger[q], [ledger[q] EXCEPT ![i].live = TRUE])
    BY <1>1, LiveHolds
  <2> QED BY <1>2, <1>3, <2>4, <2>5
<1>7. ASSUME NEW q \in Replica, NEW M \in SortLedger(ledger[q]), ledger' = [ledger EXCEPT ![q] = M]
      PROVE  SameLedgers
  BY <1>1, <1>3, <1>7, SortHolds
<1>8. ASSUME NEW r \in Replica, StartGossip(r) PROVE SameLedgers /\ gossip.pc \notin AtIts
  BY <1>7, <1>8 DEF StartGossip, AtIts
<1>9. ASSUME SortReceived PROVE SameLedgers /\ gossip.pc \notin AtIts
  <2>1. gossip.to \in Replica BY <1>9 DEF SortReceived, IInv, GossipInv, Receiving
  <2> QED BY <1>7, <1>9, <2>1 DEF SortReceived, AtIts
<1> QED BY <1>2, <1>4, <1>5, <1>6, <1>8, <1>9, Zenon

\* The ledger of one replica, to which an operation is added.
Gains(q, w) ==
  /\ \A r \in Replica : OnceEach(ledger'[r]) /\ SamePlaces(ledger[r], ledger'[r])
  /\ \A r \in Replica : \A x, p :
       Holds(ledger'[r], x, p) <=> Holds(ledger[r], x, p) \/ (r = q /\ x = w /\ p = NoTS)

LEMMA AppendGains ==
  ASSUME IInv, SingleInv, NEW q \in Replica, NEW op \in Op, op.prev = NoTS,
         \A p : ~Holds(ledger[q], op.write, p), ledger' = [ledger EXCEPT ![q] = Append(@, op)]
  PROVE  Gains(q, op.write)
<1>1. ledger \in [Replica -> Seq(Op)] /\ \A r \in Replica : OnceEach(ledger[r])
  BY DEF IInv, LedgerInv, SingleInv
<1>2. ledger'[q] = Append(ledger[q], op) /\ \A r \in Replica : r # q => ledger'[r] = ledger[r]
  BY <1>1
<1>3. /\ OnceEach(Append(ledger[q], op)) /\ SamePlaces(ledger[q], Append(ledger[q], op))
      /\ \A w, p : Holds(Append(ledger[q], op), w, p) <=>
           Holds(ledger[q], w, p) \/ (w = op.write /\ p = NoTS)
  BY <1>1, AppendHolds
<1>4. \A r \in Replica : SamePlaces(ledger[r], ledger[r]) BY DEF SamePlaces
<1> QED BY <1>1, <1>2, <1>3, <1>4 DEF Gains

\* One of a ledger whose last operation gets the timestamp of its request.
Sets(q, w, t) ==
  /\ \A r \in Replica : OnceEach(ledger'[r]) /\ SamePlaces(ledger[r], ledger'[r])
  /\ \A r \in Replica : \A x, p :
       Holds(ledger'[r], x, p) <=> \/ Holds(ledger[r], x, p) /\ ~(r = q /\ x = w)
                                   \/ r = q /\ x = w /\ p = t

LEMMA StampSets ==
  ASSUME IInv, SingleInv, NEW q \in Replica, 1 \in DOMAIN ledger[q], NEW w, IsLast(ledger[q], w),
         NEW t, ledger' = [ledger EXCEPT ![q] = SetPrevTS(@, t)]
  PROVE  Sets(q, w, t)
<1>1. ledger \in [Replica -> Seq(Op)] /\ \A r \in Replica : OnceEach(ledger[r])
  BY DEF IInv, LedgerInv, SingleInv
<1>2. ledger'[q] = SetPrevTS(ledger[q], t) /\ \A r \in Replica : r # q => ledger'[r] = ledger[r]
  BY <1>1
<1>3. /\ OnceEach(SetPrevTS(ledger[q], t)) /\ SamePlaces(ledger[q], SetPrevTS(ledger[q], t))
      /\ \A x, p : Holds(SetPrevTS(ledger[q], t), x, p) <=> \/ x # w /\ Holds(ledger[q], x, p)
                                                            \/ x = w /\ p = t
  BY <1>1, SetPrevHolds
<1>4. \A r \in Replica : SamePlaces(ledger[r], ledger[r]) BY DEF SamePlaces
<1> QED BY <1>1, <1>2, <1>3, <1>4 DEF Sets

\* The handler's write is new at its replica.
LEMMA AddOperationGains ==
  ASSUME IInv, WritesInv, NEW u \in User, AddOperation(u)
  PROVE  call[u].at \in Replica /\ Gains(call[u].at, Its(u))
<1>1. PICK q \in Replica : q = call[u].at BY DEF AddOperation, IInv, CallInv
<1>2. PICK op : op = [write |-> <<u, call[u].n>>, request |-> call[u].request,
                      prev |-> NoTS, ts |-> NoTS, live |-> FALSE]
  OBVIOUS
<1>3. op \in Op /\ op.prev = NoTS /\ op.write = Its(u)
  BY <1>2 DEF AddOperation, IInv, CallInv, Op, Its
<1>4. ledger' = [ledger EXCEPT ![q] = Append(@, op)] BY <1>1, <1>2 DEF AddOperation
<1>5. \A p : ~Holds(ledger[q], op.write, p) BY <1>1, <1>3 DEF AddOperation, WritesInv, KnownInv, Known
<1> QED BY <1>1, <1>3, <1>4, <1>5, AppendGains DEF WritesInv

\* An operation that gossip adds is new at the receiver: it would be known by its timestamp.
LEMMA TakeOperationGains ==
  ASSUME IInv, WritesInv, TakeOperation, ~UNCHANGED ledger
  PROVE  /\ gossip.to \in Replica /\ Gains(gossip.to, Head(gossip.msg).write)
         /\ gossip' = [gossip EXCEPT !.pc = "stamp"]
         /\ \A p : ~Holds(ledger[gossip.to], Head(gossip.msg).write, p)
<1>1. PICK q \in Replica : q = gossip.to BY DEF TakeOperation, IInv, GossipInv, Receiving
<1>2. PICK h : h = Head(gossip.msg) OBVIOUS
<1>3. /\ ~ContainThrows(ledger[q], h.prev) /\ ~Contains(ledger[q], h.prev)
      /\ ledger' = [ledger EXCEPT ![q] = Append(@, [h EXCEPT !.prev = NoTS, !.ts = NoTS])]
      /\ gossip' = [gossip EXCEPT !.pc = "stamp"] /\ gossip.msg # <<>>
  BY <1>1, <1>2 DEF TakeOperation
<1>4. h \in Op /\ h.prev # NoTS /\ Known(h.write, h.prev) BY <1>2, <1>3, HeadSigned, HeadKnown
<1>5. PICK op : op = [h EXCEPT !.prev = NoTS, !.ts = NoTS] OBVIOUS
<1>6. op \in Op /\ op.prev = NoTS /\ op.write = h.write BY <1>4, <1>5 DEF Op
<1>7. ASSUME NEW p, Holds(ledger[q], h.write, p) PROVE FALSE
  <2>1. PICK j \in DOMAIN ledger[q] : ledger[q][j].write = h.write /\ ledger[q][j].prev = p
    BY <1>7 DEF Holds
  <2>2. \A k \in DOMAIN ledger[q] : ledger[q][k].prev # h.prev BY <1>3 DEF Contains
  <2>3. ledger[q] \in Seq(Op) BY DEF IInv, LedgerInv
  <2>4. \A k \in 1..(j - 1) : k \in DOMAIN ledger[q] BY <2>3
  <2>5. p # NoTS BY <1>3, <2>1, <2>2, <2>4 DEF ContainThrows
  <2>6. Known(h.write, p) BY <1>7 DEF Known
  <2>7. p = h.prev BY <1>4, <2>5, <2>6 DEF WritesInv, KnownInv
  <2> QED BY <2>1, <2>2, <2>7
<1>8. ledger' = [ledger EXCEPT ![q] = Append(@, op)] BY <1>3, <1>5
<1>9. Gains(q, op.write) BY <1>6, <1>7, <1>8, AppendGains DEF WritesInv
<1> QED BY <1>1, <1>2, <1>3, <1>6, <1>7, <1>9

\* Until a handler races, each stamps its own operation.
LEMMA StampRequestSets ==
  ASSUME IInv, WritesInv, ~raced', NEW u \in User, StampRequest(u)
  PROVE  call[u].at \in Replica /\ Sets(call[u].at, Its(u), call[u].prev)
<1>1. PICK q \in Replica : q = call[u].at BY DEF StampRequest, IInv, CallInv
<1>2. Holds(ledger[q], Its(u), NoTS) BY <1>1 DEF StampRequest, WritesInv, OwedInv, Owes
<1>3. ledger[q] \in Seq(Op) BY DEF IInv, LedgerInv
<1>4. 1 \in DOMAIN ledger[q] BY <1>2, <1>3 DEF Holds
<1>5. /\ IsLast(ledger[q], Its(u))
      /\ ledger' = [ledger EXCEPT ![q] = SetPrevTS(@, call[u].prev)]
  BY <1>1 DEF StampRequest, Its
<1> QED BY <1>1, <1>4, <1>5, StampSets DEF WritesInv

LEMMA StampPrevSets ==
  ASSUME IInv, WritesInv, ~raced', StampPrev
  PROVE  /\ gossip.to \in Replica
         /\ Sets(gossip.to, Head(gossip.msg).write, Head(gossip.msg).prev)
<1>1. PICK q \in Replica : q = gossip.to BY DEF StampPrev, IInv, GossipInv, Receiving
<1>2. 1 \in DOMAIN ledger[q] BY <1>1 DEF StampPrev, IInv, LastInv, AtLast
<1>3. /\ IsLast(ledger[q], Head(gossip.msg).write)
      /\ ledger' = [ledger EXCEPT ![q] = SetPrevTS(@, Head(gossip.msg).prev)]
  BY <1>1 DEF StampPrev
<1> QED BY <1>1, <1>2, <1>3, StampSets DEF WritesInv

-----------------------------------------------------------------------------
(* Every step keeps WritesInv. *)

\* What a step may make of the message.
LEMMA MessageMoves ==
  ASSUME IInv, [Next]_vars
  PROVE  \/ gossip'.msg \in {NoGossip.msg, gossip.msg}
         \/ gossip.msg # <<>> /\ gossip'.msg = Tail(gossip.msg)
         \/ \E r, q \in Replica : Sendable(Outgoing(r, q)) /\ gossip'.msg = Outgoing(r, q)
<1>1. gossip \in Gossip BY DEF IInv, GossipInv
<1>2. ASSUME NEW q \in Replica, SendTo(q)
      PROVE  \/ gossip'.msg \in {NoGossip.msg, gossip.msg}
             \/ \E r, x \in Replica : Sendable(Outgoing(r, x)) /\ gossip'.msg = Outgoing(r, x)
  <2> DEFINE M == Outgoing(gossip.from, q)
  <2>1. gossip.from \in Replica BY <1>2 DEF SendTo, IInv, GossipInv
  <2>2. \/ gossip' = NoGossip
        \/ gossip' = [gossip EXCEPT !.todo = @ \ {q}]
        \/ /\ Sendable(M)
           /\ gossip' = [gossip EXCEPT !.pc = "take", !.todo = @ \ {q}, !.to = q, !.msg = M]
    BY <1>2 DEF SendTo
  <2>3. (\E r, x \in Replica : Sendable(Outgoing(r, x)) /\ gossip'.msg = Outgoing(r, x))
          \/ ~Sendable(M) \/ gossip'.msg # M
    BY <2>1
  <2> HIDE DEF M
  <2>4. gossip'.msg \in {NoGossip.msg, gossip.msg} \/ (Sendable(M) /\ gossip'.msg = M)
    BY <1>1, <2>2 DEF Gossip
  <2> QED BY <2>3, <2>4
<1>3. ASSUME TakeOperation \/ RaiseValue
      PROVE  gossip'.msg \in {NoGossip.msg, gossip.msg} \/ /\ gossip.msg # <<>>
                                                           /\ gossip'.msg = Tail(gossip.msg)
  <2>1. \/ gossip' = NoGossip
        \/ gossip' = [gossip EXCEPT !.msg = Tail(@)]
        \/ gossip' = [gossip EXCEPT !.pc = "stamp"]
        \/ gossip' = [gossip EXCEPT !.pc = "apply"]
        \/ gossip' = [gossip EXCEPT !.pc = "take", !.msg = Tail(@), !.i = 1]
    BY <1>3 DEF TakeOperation, RaiseValue
  <2>2. gossip.msg # <<>>
    BY <1>3 DEF TakeOperation, RaiseValue, IInv, GossipInv, AtFound
  <2> QED BY <1>1, <2>1, <2>2 DEF Gossip
<1>4. ASSUME \/ \E q \in Replica : StartGossip(q)
             \/ EndGossip \/ StampPrev \/ StampTS \/ CheckOperation \/ ExecuteOperation
             \/ SortReceived \/ StartRun \/ RunUnstable \/ EndRun
      PROVE  gossip'.msg \in {NoGossip.msg, gossip.msg}
  <2>1. ASSUME NEW q \in Replica, StartGossip(q) PROVE gossip'.msg \in {NoGossip.msg, gossip.msg}
    BY <2>1 DEF StartGossip, NoGossip
  <2>2. CASE \/ EndGossip \/ StampPrev \/ StampTS \/ CheckOperation \/ ExecuteOperation
             \/ SortReceived \/ StartRun \/ RunUnstable \/ EndRun
    BY <1>1, <2>2 DEF EndGossip, StampPrev, StampTS, CheckOperation, ExecuteOperation,
                      SortReceived, StartRun, RunUnstable, EndRun, Gossip
  <2> QED BY <1>4, <2>1, <2>2
<1>5. ASSUME \/ \E u \in User, q \in Replica : \/ \E req \in Writes[u] : AskWrite(u, q, req)
                                              \/ \E a \in Reads[u] : AskBalance(u, q, a)
             \/ \E u \in User : \/ AddOperation(u) \/ ReadClock(u) \/ PutClock(u) \/ RaiseClock(u)
                                \/ StampRequest(u) \/ StampReplica(u) \/ Answer(u) \/ Balance(u)
             \/ \E q \in MayStop : SetActive(q)
             \/ UNCHANGED vars
      PROVE  UNCHANGED gossip
  BY <1>5 DEF AskWrite, AskBalance, AddOperation, ReadClock, PutClock, RaiseClock, StampRequest,
              StampReplica, Answer, Balance, SetActive, vars
<1> QED BY <1>2, <1>3, <1>4, <1>5, Zenon DEF Next

\* What is in a message was known.
LEMMA MessageHolds ==
  ASSUME IInv, [Next]_vars
  PROVE  \A w, p : Holds(gossip'.msg, w, p) => Known(w, p)
<1>1. \A w, p : Holds(gossip.msg, w, p) => Known(w, p) BY DEF Known
<1>2. CASE gossip'.msg \in {NoGossip.msg, gossip.msg} BY <1>1, <1>2, NoGossipHolds
<1>3. CASE gossip.msg # <<>> /\ gossip'.msg = Tail(gossip.msg) BY <1>3, HeadKnown
<1>4. CASE \E r, q \in Replica : Sendable(Outgoing(r, q)) /\ gossip'.msg = Outgoing(r, q)
  BY <1>4, OutgoingHolds DEF Known
<1> QED BY <1>2, <1>3, <1>4, MessageMoves

\* The handlers end, or start with a new write.
CallsGo ==
  \A v \in User :
    /\ call'[v].n >= call[v].n
    /\ call'[v].pc = "add" =>
         (call[v].pc = "add" /\ call'[v].n = call[v].n) \/ call'[v].n > call[v].n
    /\ Owes(v)' => Owes(v) /\ call'[v].at = call[v].at /\ call'[v].n = call[v].n
    /\ call'[v].pc = "mark" => /\ call[v].pc = "mark" /\ call'[v].at = call[v].at
                               /\ call'[v].n = call[v].n /\ call'[v].prev = call[v].prev

LEMMA NoCallGoes ==
  ASSUME IInv, UNCHANGED call
  PROVE  CallsGo
<1>1. \A v \in User : call[v].n \in Nat BY DEF IInv, CallInv, Call
<1> QED BY <1>1 DEF CallsGo, Owes

\* Steps that leave in the ledgers what is there.
LEMMA SameKept ==
  ASSUME IInv, IInv', WritesInv, [Next]_vars, SameLedgers, CallsGo, FoundInv'
  PROVE  WritesInv'
<1>1. \A r \in Replica : \A w, p : Holds(ledger'[r], w, p) <=> Holds(ledger[r], w, p)
  BY DEF SameLedgers, SameWrites
<1>2. SingleInv' BY DEF SameLedgers, SameWrites, SingleInv, OnceEach
<1>3. \A w, p : Known(w, p)' => Known(w, p)
  <2> SUFFICES ASSUME NEW w, NEW p, Known(w, p)' PROVE Known(w, p) OBVIOUS
  <2>1. (\E r \in Replica : Holds(ledger'[r], w, p)) \/ Holds(gossip'.msg, w, p)
    BY DEF Known, Holds
  <2> QED BY <1>1, <2>1, MessageHolds DEF Known
<1>4. KnownInv' BY <1>3, KnownKept DEF WritesInv, CallsGo
<1>5. \A v \in User : Owes(v) \/ call[v].pc = "mark" => call[v].at \in Replica
  BY DEF Owes, IInv, CallInv
<1>6. OwedInv' BY <1>1, <1>5, OwedKept DEF WritesInv, CallsGo
<1> QED BY <1>2, <1>4, <1>6 DEF WritesInv

\* The handlers of the calls, but for those that add an operation and give it its request's prev.
LEMMA CallsWrites ==
  ASSUME IInv, IInv', WritesInv, [Next]_vars, NEW u \in User,
         \/ \E r \in Replica, req \in Writes[u] : AskWrite(u, r, req)
         \/ ReadClock(u) \/ PutClock(u) \/ RaiseClock(u) \/ StampReplica(u) \/ Answer(u)
         \/ \E r \in Replica, a \in Reads[u] : AskBalance(u, r, a)
         \/ Balance(u)
  PROVE  WritesInv'
<1>1. UNCHANGED gossip /\ (UNCHANGED ledger \/ StampReplica(u))
  BY DEF AskWrite, ReadClock, PutClock, RaiseClock, StampReplica, Answer, AskBalance, Balance
<1>2. call[u].pc # "add" /\ (call[u].pc = "stamp" => FALSE)
  BY DEF AskWrite, ReadClock, PutClock, RaiseClock, StampReplica, Answer, AskBalance, Balance
<1>3. /\ \A v \in User : v # u => call'[v] = call[v]
      /\ \/ call[u].pc = "idle" /\ call'[u].pc = "add" /\ call'[u].n = call[u].n + 1
         \/ Moves(u, "tick", "put")
         \/ Moves(u, "put", IF call[u].stable THEN "raise" ELSE "stamp")
         \/ Moves(u, "raise", "stamp")
         \/ Moves(u, "mark", "answer")
         \/ call'[u].pc \in {"idle", "read"} /\ call'[u].n = call[u].n
  BY <1>2, CallSteps DEF Moves
<1>4. CallsGo
  <2>1. \A v \in User : call[v].n \in Nat BY DEF IInv, CallInv, Call
  <2> SUFFICES ASSUME NEW v \in User
               PROVE  /\ call'[v].n >= call[v].n
                      /\ call'[v].pc = "add" =>
                           \/ call[v].pc = "add" /\ call'[v].n = call[v].n
                           \/ call'[v].n > call[v].n
                      /\ Owes(v)' => /\ Owes(v) /\ call'[v].at = call[v].at
                                     /\ call'[v].n = call[v].n
                      /\ call'[v].pc = "mark" =>
                           /\ call[v].pc = "mark" /\ call'[v].at = call[v].at
                           /\ call'[v].n = call[v].n /\ call'[v].prev = call[v].prev
    BY DEF CallsGo
  <2>2. CASE v # u BY <1>3, <2>1, <2>2 DEF Owes
  <2>3. CASE v = u BY <1>3, <2>1, <2>3 DEF Owes, Moves
  <2> QED BY <2>2, <2>3
<1>5. /\ SameLedgers
      /\ (\A r \in Replica : SamePlaces(ledger[r], ledger'[r])) \/ gossip.pc \notin AtIts
  BY <1>1, SameSteps DEF WritesInv
<1>6. FoundInv'
  <2>1. gossip.pc \in AtIts => gossip.to \in Replica
    BY DEF IInv, GossipInv, AtIts, Receiving
  <2> QED BY <1>1, <1>5, <2>1, FoundKept DEF WritesInv, SameLedgers, SameWrites
<1> QED BY <1>4, <1>5, <1>6, SameKept

\* The handler's write becomes known.
LEMMA AddOperationWrites ==
  ASSUME IInv, IInv', WritesInv, [Next]_vars, NEW u \in User, AddOperation(u)
  PROVE  WritesInv'
<1>1. PICK q, w : q \in Replica /\ q = call[u].at /\ w = Its(u) /\ Gains(q, w)
  BY AddOperationGains
<1>2. UNCHANGED gossip BY DEF AddOperation
<1>3. Moves(u, "add", "tick") /\ \A v \in User : v # u => call'[v] = call[v]
  <2>1. call[u].pc = "add" BY DEF AddOperation
  <2> QED BY <2>1, CallSteps DEF Moves
<1>4. \A r \in Replica : \A x, p : Holds(ledger[r], x, p) => Holds(ledger'[r], x, p)
  BY <1>1 DEF Gains
<1>5. Holds(ledger'[q], w, NoTS) BY <1>1 DEF Gains
<1>6. SingleInv' BY <1>1 DEF Gains, SingleInv
<1>7. \A x, p : Known(x, p)' => Known(x, p) \/ (x = Its(u) /\ p = NoTS)
  <2> SUFFICES ASSUME NEW x, NEW p, Known(x, p)' PROVE Known(x, p) \/ (x = w /\ p = NoTS)
    BY <1>1
  <2>1. (\E r \in Replica : Holds(ledger'[r], x, p)) \/ Holds(gossip'.msg, x, p)
    BY DEF Known, Holds
  <2> QED BY <1>1, <1>2, <2>1 DEF Gains, Known
<1>8. KnownInv'
  <2>1. Owes(u)' => NoTS = NoTS OBVIOUS
  <2>2. call[u].pc = "add" /\ call'[u].pc # "add" /\ call'[u].n = call[u].n BY <1>3 DEF Moves
  <2> QED BY <1>3, <1>7, <2>1, <2>2, KnownGets DEF WritesInv
<1>9. OwedInv'
  <2> SUFFICES ASSUME NEW v \in User
               PROVE  /\ Owes(v)' => Holds(ledger'[call'[v].at], <<v, call'[v].n>>, NoTS)
                      /\ call'[v].pc = "mark" =>
                           Holds(ledger'[call'[v].at], <<v, call'[v].n>>, call'[v].prev)
    BY DEF OwedInv, Holds, Its
  <2>1. CASE v = u BY <1>1, <1>3, <1>5, <2>1 DEF Moves, Its
  <2>2. CASE v # u
    <3>1. call'[v] = call[v] /\ (Owes(v)' <=> Owes(v)) BY <1>3, <2>2 DEF Owes
    <3>2. Owes(v) \/ call[v].pc = "mark" => call[v].at \in Replica BY DEF Owes, IInv, CallInv
    <3> QED BY <1>4, <3>1, <3>2 DEF WritesInv, OwedInv, Its
  <2> QED BY <2>1, <2>2
<1>10. FoundInv'
  <2>1. gossip.pc \in AtIts => gossip.to \in Replica BY DEF IInv, GossipInv, AtIts, Receiving
  <2> QED BY <1>1, <1>2, <1>4, <2>1, FoundKept DEF WritesInv, Gains
<1> QED BY <1>6, <1>8, <1>9, <1>10 DEF WritesInv

\* The handler's write gets the prev of its request.
LEMMA StampRequestWrites ==
  ASSUME IInv, IInv', WritesInv, [Next]_vars, ~raced', NEW u \in User, StampRequest(u)
  PROVE  WritesInv'
<1>1. PICK q, w, t : /\ q \in Replica /\ q = call[u].at /\ w = Its(u) /\ t = call[u].prev
                     /\ Sets(q, w, t)
  BY StampRequestSets
<1>2. UNCHANGED gossip BY DEF StampRequest
<1>3. Moves(u, "stamp", "mark") /\ \A v \in User : v # u => call'[v] = call[v]
  <2>1. call[u].pc = "stamp" BY DEF StampRequest
  <2> QED BY <2>1, CallSteps DEF Moves
<1>4. Owes(u) /\ \A p : Known(w, p) => p = NoTS
  BY <1>1, <1>3 DEF Owes, Moves, WritesInv, KnownInv
<1>5. \A r \in Replica : \A x, p : p # NoTS /\ Holds(ledger[r], x, p) => Holds(ledger'[r], x, p)
  BY <1>1, <1>4 DEF Sets, Known
<1>6. \A r \in Replica : \A x, p : x # w /\ Holds(ledger[r], x, p) => Holds(ledger'[r], x, p)
  BY <1>1 DEF Sets
<1>7. SingleInv' BY <1>1 DEF Sets, SingleInv
<1>8. \A x, p : Known(x, p)' => Known(x, p) \/ (x = Its(u) /\ p = t)
  <2> SUFFICES ASSUME NEW x, NEW p, Known(x, p)' PROVE Known(x, p) \/ (x = w /\ p = t)
    BY <1>1
  <2>1. (\E r \in Replica : Holds(ledger'[r], x, p)) \/ Holds(gossip'.msg, x, p)
    BY DEF Known, Holds
  <2> QED BY <1>1, <1>2, <2>1 DEF Sets, Known
<1>9. KnownInv'
  <2>1. Owes(u)' => t = NoTS BY <1>3 DEF Owes, Moves
  <2>2. call'[u].pc # "add" /\ call'[u].n = call[u].n BY <1>3 DEF Moves
  <2> QED BY <1>3, <1>4, <1>8, <2>1, <2>2, KnownGets DEF WritesInv
<1>10. OwedInv'
  <2> SUFFICES ASSUME NEW v \in User
               PROVE  /\ Owes(v)' => Holds(ledger'[call'[v].at], <<v, call'[v].n>>, NoTS)
                      /\ call'[v].pc = "mark" =>
                           Holds(ledger'[call'[v].at], <<v, call'[v].n>>, call'[v].prev)
    BY DEF OwedInv, Holds, Its
  <2>1. CASE v = u
    <3>1. Holds(ledger'[q], w, t) BY <1>1 DEF Sets
    <3> QED BY <1>1, <1>3, <2>1, <3>1 DEF Moves, Its, Owes
  <2>2. CASE v # u
    <3>1. call'[v] = call[v] /\ (Owes(v)' <=> Owes(v)) BY <1>3, <2>2 DEF Owes
    <3>2. Owes(v) \/ call[v].pc = "mark" => call[v].at \in Replica BY DEF Owes, IInv, CallInv
    <3>3. <<v, call[v].n>> # w BY <1>1, <2>2 DEF Its
    <3> QED BY <1>6, <3>1, <3>2, <3>3 DEF WritesInv, OwedInv, Its
  <2> QED BY <2>1, <2>2
<1>11. FoundInv'
  <2>1. gossip.pc \in AtIts => gossip.to \in Replica BY DEF IInv, GossipInv, AtIts, Receiving
  <2> QED BY <1>1, <1>2, <1>5, <2>1, FoundKept DEF WritesInv, Sets
<1> QED BY <1>7, <1>9, <1>10, <1>11 DEF WritesInv

\* Gossip takes an operation whose write and prev are known.
LEMMA TakeOperationWrites ==
  ASSUME IInv, IInv', WritesInv, [Next]_vars, TakeOperation
  PROVE  WritesInv'
<1>1. UNCHANGED call BY DEF TakeOperation
<1>2. CallsGo BY <1>1, NoCallGoes
<1>3. gossip \in Gossip BY DEF IInv, GossipInv
<1>4. gossip'.pc \notin AtIts
  <2>1. gossip.pc = "take" BY DEF TakeOperation
  <2>2. \/ gossip' = NoGossip \/ gossip' = [gossip EXCEPT !.msg = Tail(@)]
        \/ gossip' = [gossip EXCEPT !.pc = "stamp"]
    BY DEF TakeOperation
  <2> QED BY <1>3, <2>1, <2>2, NoGossipHolds DEF Gossip, AtIts
<1>5. FoundInv' BY <1>4 DEF FoundInv, AtIts
<1>6. CASE UNCHANGED ledger
  <2>1. SameLedgers BY <1>6, SameSteps DEF WritesInv
  <2> QED BY <1>2, <1>5, <2>1, SameKept
<1>7. CASE ~UNCHANGED ledger
  <2>1. PICK q, w : /\ q \in Replica /\ q = gossip.to /\ w = Head(gossip.msg).write
                    /\ Gains(q, w)
    BY <1>7, TakeOperationGains
  <2>2. gossip'.msg = gossip.msg BY <1>3, <1>7, TakeOperationGains DEF Gossip
  <2>3. gossip.msg # <<>> BY DEF TakeOperation
  <2>4. PICK h : h # NoTS /\ Known(w, h) BY <2>1, <2>3, HeadKnown
  <2>5. \A x, p : Known(x, p)' => Known(x, p) \/ (x = w /\ p = NoTS)
    <3> SUFFICES ASSUME NEW x, NEW p, Known(x, p)' PROVE Known(x, p) \/ (x = w /\ p = NoTS)
      OBVIOUS
    <3>1. (\E r \in Replica : Holds(ledger'[r], x, p)) \/ Holds(gossip'.msg, x, p)
      BY DEF Known, Holds
    <3> QED BY <2>1, <2>2, <3>1 DEF Gains, Known
  <2>6. KnownInv' BY <1>2, <2>4, <2>5, KnownKept DEF WritesInv, CallsGo
  <2>7. SingleInv' BY <2>1 DEF Gains, SingleInv
  <2>8. \A r \in Replica : \A x, p : Holds(ledger[r], x, p) => Holds(ledger'[r], x, p)
    BY <2>1 DEF Gains
  <2>9. \A v \in User : Owes(v) \/ call[v].pc = "mark" => call[v].at \in Replica
    BY DEF Owes, IInv, CallInv
  <2>10. OwedInv' BY <1>2, <2>8, <2>9, OwedKept DEF WritesInv, CallsGo
  <2> QED BY <1>5, <2>6, <2>7, <2>10 DEF WritesInv
<1> QED BY <1>6, <1>7

\* It gets the prev that the message has, and every other ledger.
LEMMA StampPrevWrites ==
  ASSUME IInv, IInv', WritesInv, [Next]_vars, ~raced', StampPrev
  PROVE  WritesInv'
<1>1. PICK q, w, t : /\ q \in Replica /\ q = gossip.to /\ w = Head(gossip.msg).write
                     /\ t = Head(gossip.msg).prev /\ Sets(q, w, t)
  BY StampPrevSets
<1>2. gossip.pc = "stamp" /\ gossip' = [gossip EXCEPT !.pc = "mark"] /\ UNCHANGED call
  BY DEF StampPrev
<1>3. gossip'.pc = "mark" /\ gossip'.msg = gossip.msg /\ gossip'.to = gossip.to
  BY <1>2 DEF IInv, GossipInv, Gossip
<1>4. gossip.msg # <<>> BY <1>2 DEF IInv, GossipInv, AtLast
<1>5. Known(w, t) /\ t # NoTS BY <1>1, <1>4, HeadKnown
<1>6. CallsGo BY <1>2, NoCallGoes
<1>7. SingleInv' BY <1>1 DEF Sets, SingleInv
<1>8. \A x, p : Known(x, p)' => Known(x, p)
  <2> SUFFICES ASSUME NEW x, NEW p, Known(x, p)' PROVE Known(x, p) OBVIOUS
  <2>1. (\E r \in Replica : Holds(ledger'[r], x, p)) \/ Holds(gossip'.msg, x, p)
    BY DEF Known, Holds
  <2> QED BY <1>1, <1>3, <1>5, <2>1 DEF Sets, Known
<1>9. KnownInv' BY <1>6, <1>8, KnownKept DEF WritesInv, CallsGo
<1>10. OwedInv'
  <2>1. \A v \in User : Owes(v) \/ call[v].pc = "mark" => call[v].at \in Replica
    BY DEF Owes, IInv, CallInv
  <2>2. \A v \in User : Owes(v) => Its(v) # w BY <1>5 DEF WritesInv, KnownInv
  <2>3. \A v \in User : Owes(v) => Holds(ledger'[call[v].at], Its(v), NoTS)
    BY <1>1, <2>1, <2>2 DEF Sets, WritesInv, OwedInv
  <2>4. \A v \in User : call[v].pc = "mark" => Holds(ledger'[call[v].at], Its(v), call[v].prev)
    <3> SUFFICES ASSUME NEW v \in User, call[v].pc = "mark"
                 PROVE  Holds(ledger'[call[v].at], Its(v), call[v].prev)
      OBVIOUS
    <3>1. PICK r, x, p : r \in Replica /\ r = call[v].at /\ x = Its(v) /\ p = call[v].prev
      BY <2>1
    <3>2. Holds(ledger[r], x, p) /\ p \in TS
      BY <3>1 DEF WritesInv, OwedInv, IInv, CallInv, Call
    <3>3. Known(x, p) /\ p # NoTS BY <3>1, <3>2, TimestampSet DEF Known
    <3>4. x = w => p = t BY <1>5, <3>3 DEF WritesInv, KnownInv
    <3>5. Holds(ledger'[r], x, p) BY <1>1, <3>1, <3>2, <3>4 DEF Sets
    <3> QED BY <3>1, <3>5
  <2> QED BY <1>6, <2>3, <2>4, OwedKept DEF WritesInv, CallsGo
<1>11. FoundInv'
  <2>1. Holds(ledger'[q], w, t) BY <1>1 DEF Sets
  <2> QED BY <1>1, <1>3, <2>1 DEF FoundInv, Holds
<1> QED BY <1>7, <1>9, <1>10, <1>11 DEF WritesInv

\* Gossip finds the operation it added, as long as no handler raced.
LEMMA GossipWrites ==
  ASSUME IInv, IInv', WritesInv, [Next]_vars, ~raced',
         \/ \E r \in Replica : StartGossip(r) \/ SendTo(r)
         \/ EndGossip \/ StampTS \/ CheckOperation \/ RaiseValue \/ ExecuteOperation
         \/ SortReceived \/ StartRun \/ RunUnstable \/ EndRun
  PROVE  WritesInv'
<1>1. UNCHANGED call
  BY DEF StartGossip, SendTo, EndGossip, StampTS, CheckOperation, RaiseValue, ExecuteOperation,
         SortReceived, StartRun, RunUnstable, EndRun
<1>2. SameLedgers
  <2>1. \/ \E q \in Replica : StartGossip(q)
        \/ StampTS \/ SortReceived \/ RunUnstable \/ UNCHANGED ledger
    BY DEF SendTo, EndGossip, CheckOperation, RaiseValue, ExecuteOperation, StartRun, EndRun
  <2> QED BY <2>1, SameSteps DEF WritesInv
<1>3. gossip \in Gossip BY DEF IInv, GossipInv
<1>4. ASSUME gossip'.pc \notin AtIts PROVE FoundInv' BY <1>4 DEF FoundInv, AtIts
<1>5. ASSUME \/ \E r \in Replica : StartGossip(r) \/ SendTo(r)
             \/ EndGossip \/ ExecuteOperation \/ SortReceived \/ StartRun \/ RunUnstable \/ EndRun
      PROVE  gossip'.pc \notin AtIts
  <2>1. ASSUME NEW r \in Replica, StartGossip(r) PROVE gossip'.pc \notin AtIts
    BY <2>1, NoGossipHolds DEF StartGossip, NoGossip, AtIts
  <2>2. ASSUME NEW r \in Replica, SendTo(r) PROVE gossip'.pc \notin AtIts
    <3>1. \/ gossip' = NoGossip
          \/ gossip' = [gossip EXCEPT !.todo = @ \ {r}]
          \/ \E M : gossip' = [gossip EXCEPT !.pc = "take", !.todo = @ \ {r}, !.to = r, !.msg = M]
      BY <2>2 DEF SendTo
    <3>2. gossip.pc = "send" BY <2>2 DEF SendTo
    <3> QED BY <1>3, <3>1, <3>2, NoGossipHolds DEF Gossip, AtIts
  <2>3. CASE \/ EndGossip \/ ExecuteOperation \/ SortReceived \/ StartRun \/ RunUnstable \/ EndRun
    <3>1. \/ gossip' = NoGossip \/ gossip'.pc = gossip.pc
          \/ gossip'.pc \in {"count", "sorted", "run", "send"}
      BY <1>3, <2>3 DEF EndGossip, ExecuteOperation, SortReceived, StartRun, RunUnstable, EndRun,
                        Gossip
    <3>2. gossip.pc \notin AtIts \/ ExecuteOperation
      BY <2>3 DEF EndGossip, SortReceived, StartRun, RunUnstable, EndRun, AtIts
    <3>3. ExecuteOperation => gossip'.pc = "count" BY <1>3 DEF ExecuteOperation, Gossip
    <3> QED BY <3>1, <3>2, <3>3, NoGossipHolds DEF AtIts
  <2> QED BY <1>5, <2>1, <2>2, <2>3
<1>6. ASSUME NEW q, q = gossip.to, q \in Replica, gossip.pc \in AtIts, gossip'.msg = gossip.msg,
             gossip'.to = q, SamePlaces(ledger[q], ledger'[q]),
             gossip'.pc \in {"raise", "apply"} =>
               ledger[q][gossip'.i].write = Head(gossip.msg).write /\ gossip'.i \in DOMAIN ledger[q]
      PROVE  FoundInv'
  <2>1. Holds(ledger[q], Head(gossip.msg).write, Head(gossip.msg).prev)
    BY <1>6 DEF WritesInv, FoundInv
  <2>2. Holds(ledger'[q], Head(gossip.msg).write, Head(gossip.msg).prev)
    BY <1>2, <1>6, <2>1 DEF SameLedgers, SameWrites
  <2>3. gossip'.pc \in {"raise", "apply"} => ledger'[q][gossip'.i].write = Head(gossip.msg).write
    BY <1>6 DEF SamePlaces
  <2> QED BY <1>6, <2>2, <2>3 DEF FoundInv, Holds
<1>7. ASSUME StampTS PROVE FoundInv'
  <2>1. PICK q : q = gossip.to /\ q \in Replica BY <1>7 DEF StampTS, IInv, GossipInv, Receiving
  <2>2. gossip.pc = "mark" /\ gossip' = [gossip EXCEPT !.pc = "check"] BY <1>7 DEF StampTS
  <2>3. gossip'.pc = "check" /\ gossip'.msg = gossip.msg /\ gossip'.to = q
    BY <1>3, <2>1, <2>2 DEF Gossip
  <2>4. SamePlaces(ledger[q], ledger'[q])
    BY <1>7, <2>1, <2>2, SameSteps DEF AtIts, WritesInv
  <2> QED BY <1>6, <2>1, <2>2, <2>3, <2>4 DEF AtIts
<1>8. ASSUME CheckOperation PROVE FoundInv'
  <2>1. PICK q : q = gossip.to /\ q \in Replica
    BY <1>8 DEF CheckOperation, IInv, GossipInv, Receiving
  <2>2. gossip.pc = "check" /\ IsLast(ledger[q], Head(gossip.msg).write) /\ UNCHANGED ledger
    BY <1>8, <2>1 DEF CheckOperation
  <2>3. \/ gossip' = NoGossip
        \/ gossip' = [gossip EXCEPT !.pc = "raise", !.i = Len(ledger[q])]
        \/ gossip' = [gossip EXCEPT !.pc = "count", !.i = Len(ledger[q])]
    BY <1>8, <2>1 DEF CheckOperation
  <2>4. CASE gossip' = [gossip EXCEPT !.pc = "raise", !.i = Len(ledger[q])]
    <3>1. gossip'.msg = gossip.msg /\ gossip'.to = q /\ gossip'.i = Len(ledger[q])
      BY <1>3, <2>1, <2>4 DEF Gossip
    <3>2. 1 \in DOMAIN ledger[q] /\ ledger[q] \in Seq(Op)
      BY <2>1, <2>2 DEF IInv, LastInv, LedgerInv, AtLast
    <3>3. Len(ledger[q]) \in DOMAIN ledger[q] BY <3>2
    <3>4. SamePlaces(ledger[q], ledger'[q]) BY <2>2 DEF SamePlaces
    <3> QED BY <1>6, <2>1, <2>2, <3>1, <3>3, <3>4 DEF AtIts, IsLast
  <2>5. CASE ~(gossip' = [gossip EXCEPT !.pc = "raise", !.i = Len(ledger[q])])
    BY <1>3, <1>4, <2>3, <2>5, NoGossipHolds DEF Gossip, AtIts
  <2> QED BY <2>4, <2>5
<1>9. ASSUME RaiseValue PROVE FoundInv'
  <2>1. PICK q : q = gossip.to /\ q \in Replica
    BY <1>9 DEF RaiseValue, IInv, GossipInv, Receiving
  <2>2. gossip.pc \in {"raise", "count"} /\ UNCHANGED ledger BY <1>9 DEF RaiseValue
  <2>3. \/ gossip' = NoGossip
        \/ gossip.pc = "raise" /\ gossip' = [gossip EXCEPT !.pc = "apply"]
        \/ gossip' = [gossip EXCEPT !.pc = "take", !.msg = Tail(@), !.i = 1]
    BY <1>9 DEF RaiseValue
  <2>4. CASE gossip.pc = "raise" /\ gossip' = [gossip EXCEPT !.pc = "apply"]
    <3>1. gossip'.msg = gossip.msg /\ gossip'.to = q /\ gossip'.i = gossip.i
      BY <1>3, <2>1, <2>4 DEF Gossip
    <3>2. gossip.i \in DOMAIN ledger[q] BY <2>1, <2>4 DEF IInv, LastInv, AtFound
    <3>3. ledger[q][gossip.i].write = Head(gossip.msg).write
      BY <2>1, <2>4 DEF WritesInv, FoundInv
    <3>4. SamePlaces(ledger[q], ledger'[q]) BY <2>2 DEF SamePlaces
    <3> QED BY <1>6, <2>1, <2>4, <3>1, <3>2, <3>3, <3>4 DEF AtIts
  <2>5. CASE ~(gossip.pc = "raise" /\ gossip' = [gossip EXCEPT !.pc = "apply"])
    BY <1>3, <1>4, <2>3, <2>5, NoGossipHolds DEF Gossip, AtIts
  <2> QED BY <2>4, <2>5
<1>10. FoundInv' BY <1>4, <1>5, <1>7, <1>8, <1>9, Zenon
<1>11. CallsGo BY <1>1, NoCallGoes
<1> QED BY <1>2, <1>10, <1>11, SameKept

\* Every step keeps WritesInv, until a handler races.
LEMMA NextWrites == IInv /\ IInv' /\ WritesInv /\ ~raced' /\ [Next]_vars => WritesInv'
<1> SUFFICES ASSUME IInv, IInv', WritesInv, ~raced', [Next]_vars PROVE WritesInv' OBVIOUS
<1>1. ASSUME NEW u \in User,
             \/ \E r \in Replica, req \in Writes[u] : AskWrite(u, r, req)
             \/ ReadClock(u) \/ PutClock(u) \/ RaiseClock(u) \/ StampReplica(u) \/ Answer(u)
             \/ \E r \in Replica, a \in Reads[u] : AskBalance(u, r, a)
             \/ Balance(u)
      PROVE  WritesInv'
  BY <1>1, CallsWrites
<1>2. ASSUME NEW u \in User, AddOperation(u) PROVE WritesInv' BY <1>2, AddOperationWrites
<1>3. ASSUME NEW u \in User, StampRequest(u) PROVE WritesInv' BY <1>3, StampRequestWrites
<1>4. ASSUME TakeOperation PROVE WritesInv' BY <1>4, TakeOperationWrites
<1>5. ASSUME StampPrev PROVE WritesInv' BY <1>5, StampPrevWrites
<1>6. ASSUME \/ \E r \in Replica : StartGossip(r) \/ SendTo(r)
             \/ EndGossip \/ StampTS \/ CheckOperation \/ RaiseValue \/ ExecuteOperation
             \/ SortReceived \/ StartRun \/ RunUnstable \/ EndRun
      PROVE  WritesInv'
  BY <1>6, GossipWrites
<1>7. ASSUME (\E r \in MayStop : SetActive(r)) \/ UNCHANGED vars PROVE WritesInv'
  <2>1. UNCHANGED <<call, gossip, ledger>> BY <1>7 DEF SetActive, vars
  <2>2. SameLedgers BY <2>1, SameSteps DEF WritesInv
  <2>3. CallsGo BY <2>1, NoCallGoes
  <2>4. FoundInv' BY <2>1 DEF WritesInv, FoundInv, Holds
  <2> QED BY <2>2, <2>3, <2>4, SameKept
<1> QED BY <1>1, <1>2, <1>3, <1>4, <1>5, <1>6, <1>7, Zenon DEF Next

-----------------------------------------------------------------------------
(* An operation's timestamp is past the one of its request. *)

\* For an operation in the ledger of a replica whose value timestamp is v.
LateOne(op, v) ==
  /\ op.prev # NoTS /\ (op.live \/ op.ts # NoTS) =>
       Past(IF op.live THEN v ELSE op.ts, op.prev)
  /\ op.prev = NoTS => op.ts = NoTS /\ ~op.live

Later(L, v) == \A j \in DOMAIN L : LateOne(L[j], v)

\* The operations of a message have timestamps of their own.
LateMessage(M) == \A j \in DOMAIN M : Past(M[j].ts, M[j].prev) /\ ~M[j].live

LateInv == LateMessage(gossip.msg) /\ \A r \in Replica : Later(ledger[r], valueTS[r])

\* A value timestamp that grows stays past.
LEMMA LaterGrows ==
  ASSUME NEW L, SoundLedger(L), NEW v \in TS, NEW x \in TS, Leq(v, x), Later(L, v)
  PROVE  Later(L, x)
<1> SUFFICES ASSUME NEW j \in DOMAIN L PROVE LateOne(L[j], x) BY DEF Later
<1>1. LateOne(L[j], v) BY DEF Later
<1>2. CASE L[j].prev # NoTS /\ L[j].live
  <2>1. L[j].prev \in TS BY <1>2 DEF SoundLedger, Sound, Issued
  <2>2. Past(v, L[j].prev) BY <1>1, <1>2 DEF LateOne
  <2>3. Past(x, L[j].prev) BY <2>1, <2>2, PastGrows
  <2> QED BY <1>2, <2>3 DEF LateOne
<1>3. CASE ~(L[j].prev # NoTS /\ L[j].live) BY <1>1, <1>3 DEF LateOne
<1> QED BY <1>2, <1>3

\* An operation without timestamps may be added.
LEMMA LaterAppend ==
  ASSUME NEW L \in Seq(Op), NEW op \in Op, op.prev = NoTS, op.ts = NoTS, ~op.live, NEW v, Later(L, v)
  PROVE  Later(Append(L, op), v)
<1>1. Len(L) \in Nat /\ DOMAIN L = 1..Len(L) OBVIOUS
<1>2. DOMAIN Append(L, op) = 1..(Len(L) + 1) OBVIOUS
<1>3. Append(L, op)[Len(L) + 1] = op /\ \A j \in 1..Len(L) : Append(L, op)[j] = L[j] OBVIOUS
<1>4. 1..(Len(L) + 1) = 1..Len(L) \cup {Len(L) + 1} BY <1>1
<1>5. LateOne(op, v) BY DEF LateOne
<1> QED BY <1>1, <1>2, <1>3, <1>4, <1>5 DEF Later

\* An operation is replaced by a late one.
LEMMA LaterReplace ==
  ASSUME NEW L \in Seq(Op), NEW v, Later(L, v), NEW i, NEW o, i \in DOMAIN L => LateOne(o, v)
  PROVE  Later([L EXCEPT ![i] = o], v)
<1>1. \A j \in DOMAIN L : [L EXCEPT ![i] = o][j] = IF j = i THEN o ELSE L[j] OBVIOUS
<1>2. DOMAIN [L EXCEPT ![i] = o] = DOMAIN L OBVIOUS
<1> QED BY <1>1, <1>2 DEF Later

\* The last operation, without timestamps, may get the one of its request, or gets it again.
LEMMA LaterSetPrev ==
  ASSUME NEW L \in Seq(Op), NEW v, Later(L, v), NEW t, t # NoTS, L[Len(L)].prev \in {NoTS, t}
  PROVE  Later(SetPrevTS(L, t), v)
<1> DEFINE n == Len(L)
           o == [L[n] EXCEPT !.prev = t]
<1>1. ASSUME n \in DOMAIN L PROVE LateOne(o, v)
  <2>1. L[n] \in Op /\ LateOne(L[n], v) BY <1>1 DEF Later
  <2>2. o.prev = t /\ o.ts = L[n].ts /\ o.live = L[n].live BY <2>1 DEF Op
  <2> HIDE DEF o
  <2>3. CASE L[n].prev = NoTS BY <2>1, <2>2, <2>3 DEF LateOne
  <2>4. CASE L[n].prev = t BY <2>1, <2>2, <2>4 DEF LateOne
  <2> QED BY <2>3, <2>4
<1>2. SetPrevTS(L, t) = [L EXCEPT ![n] = o]
  <2>1. CASE n \in DOMAIN L BY <2>1 DEF SetPrevTS
  <2>2. CASE n \notin DOMAIN L BY <2>2 DEF SetPrevTS
  <2> QED BY <2>1, <2>2
<1>3. n \in DOMAIN L => LateOne(o, v) BY <1>1
<1> HIDE DEF o, n
<1>4. Later([L EXCEPT ![n] = o], v) BY <1>3, LaterReplace
<1> QED BY <1>2, <1>4

\* Then it may get a timestamp that is past it.
LEMMA LaterSetTS ==
  ASSUME NEW L \in Seq(Op), NEW v, Later(L, v), NEW t, L[Len(L)].prev # NoTS, Past(t, L[Len(L)].prev)
  PROVE  Later(SetTS(L, t), v)
<1> DEFINE n == Len(L)
           o == [L[n] EXCEPT !.ts = t, !.live = FALSE]
<1>1. ASSUME n \in DOMAIN L PROVE LateOne(o, v)
  <2>1. L[n] \in Op BY <1>1
  <2>2. o.prev = L[n].prev /\ o.ts = t /\ o.live = FALSE BY <2>1 DEF Op
  <2> HIDE DEF o
  <2> QED BY <2>2 DEF LateOne
<1>2. SetTS(L, t) = [L EXCEPT ![n] = o]
  <2>1. CASE n \in DOMAIN L BY <2>1 DEF SetTS
  <2>2. CASE n \notin DOMAIN L BY <2>2 DEF SetTS
  <2> QED BY <2>1, <2>2
<1>3. n \in DOMAIN L => LateOne(o, v) BY <1>1
<1> HIDE DEF o, n
<1>4. Later([L EXCEPT ![n] = o], v) BY <1>3, LaterReplace
<1> QED BY <1>2, <1>4

\* A sort keeps the operations.
LEMMA LaterSorted ==
  ASSUME NEW L, SoundLedger(L), NEW M \in SortLedger(L), NEW v, Later(L, v)
  PROVE  Later(M, v)
<1>1. PICK p \in Bijection(DOMAIN L, DOMAIN L) : M = [j \in DOMAIN L |-> L[p[j]]] BY SortMoves
<1>2. \A j \in DOMAIN L : p[j] \in DOMAIN L BY DEF Bijection, Injection
<1>3. DOMAIN M = DOMAIN L /\ \A j \in DOMAIN L : M[j] = L[p[j]] BY <1>1
<1> QED BY <1>2, <1>3 DEF Later

\* An operation may share a value timestamp that its own has been joined into.
LEMMA LaterLive ==
  ASSUME NEW L, SoundLedger(L), NEW i \in DOMAIN L, L[i].prev # NoTS, NEW v \in TS, Later(L, v),
         NEW x \in TS, Leq(v, x), NEW t \in TS, t = (IF L[i].live THEN v ELSE L[i].ts), Leq(t, x)
  PROVE  Later([L EXCEPT ![i].live = TRUE], x)
<1> DEFINE o == [L[i] EXCEPT !.live = TRUE]
<1>1. L[i] \in Op /\ L \in Seq(Op) /\ Sound(L[i]) /\ LateOne(L[i], v) BY DEF SoundLedger, Later
<1>2. o.prev = L[i].prev /\ o.live = TRUE BY <1>1 DEF Op
<1>3. L[i].live \/ L[i].ts # NoTS BY TimestampSet
<1>4. Past(t, L[i].prev) BY <1>1, <1>3 DEF LateOne
<1>5. L[i].prev \in TS BY <1>1 DEF Sound, Issued
<1>6. Past(x, L[i].prev) BY <1>4, <1>5, PastGrows
<1>7. Later(L, x) BY LaterGrows
<1> HIDE DEF o
<1>8. LateOne(o, x) BY <1>2, <1>6 DEF LateOne
<1>9. Later([L EXCEPT ![i] = o], x) BY <1>1, <1>7, <1>8, LaterReplace
<1> QED BY <1>9 DEF o

\* The last operation of a ledger has the timestamp with which the ledger holds it.
LEMMA LastHolds ==
  ASSUME NEW L \in Seq(Op), OnceEach(L), NEW w, NEW p, Holds(L, w, p), IsLast(L, w)
  PROVE  L[Len(L)].prev = p
<1>1. PICK j \in DOMAIN L : L[j].write = w /\ L[j].prev = p BY DEF Holds
<1>2. Len(L) \in DOMAIN L BY <1>1
<1>3. j = Len(L) BY <1>1, <1>2 DEF OnceEach, IsLast
<1> QED BY <1>1, <1>3

\* One ledger changes, and its operations stay past.
LEMMA LaterOne ==
  ASSUME IInv, NEW q \in Replica, NEW M, ledger' = [ledger EXCEPT ![q] = M],
         \A v : Later(ledger[q], v) => Later(M, v)
  PROVE  \A r \in Replica : \A v : Later(ledger[r], v) => Later(ledger'[r], v)
<1>1. ledger'[q] = M /\ \A r \in Replica : r # q => ledger'[r] = ledger[r]
  BY DEF IInv, LedgerInv
<1> QED BY <1>1

\* What handlers and gossip add to a ledger, or sort.
LEMMA LaterGains ==
  ASSUME IInv, LateInv,
         \/ \E u \in User : AddOperation(u)
         \/ \E r \in Replica : StartGossip(r)
         \/ TakeOperation \/ SortReceived
  PROVE  \A r \in Replica : \A v : Later(ledger[r], v) => Later(ledger'[r], v)
<1>1. ledger \in [Replica -> Seq(Op)] /\ \A r \in Replica : SoundLedger(ledger[r])
  BY DEF IInv, LedgerInv
<1>2. ASSUME NEW q \in Replica, NEW op \in Op, op.prev = NoTS, op.ts = NoTS, ~op.live,
             ledger' = [ledger EXCEPT ![q] = Append(@, op)]
      PROVE  \A r \in Replica : \A v : Later(ledger[r], v) => Later(ledger'[r], v)
  <2>1. ledger[q] \in Seq(Op) BY <1>1
  <2>2. \A v : Later(ledger[q], v) => Later(Append(ledger[q], op), v) BY <1>2, <2>1, LaterAppend
  <2> QED BY <1>2, <2>2, LaterOne
<1>3. ASSUME NEW q \in Replica, NEW L \in SortLedger(ledger[q]), ledger' = [ledger EXCEPT ![q] = L]
      PROVE  \A r \in Replica : \A v : Later(ledger[r], v) => Later(ledger'[r], v)
  BY <1>1, <1>3, LaterSorted, LaterOne
<1>4. ASSUME NEW u \in User, AddOperation(u)
      PROVE  \A r \in Replica : \A v : Later(ledger[r], v) => Later(ledger'[r], v)
  <2>1. PICK op : op = [write |-> <<u, call[u].n>>, request |-> call[u].request,
                        prev |-> NoTS, ts |-> NoTS, live |-> FALSE]
    OBVIOUS
  <2>2. op \in Op /\ op.prev = NoTS /\ op.ts = NoTS /\ ~op.live
    BY <1>4, <2>1 DEF AddOperation, IInv, CallInv, Op
  <2>3. PICK q \in Replica : q = call[u].at BY <1>4 DEF AddOperation, IInv, CallInv
  <2>4. ledger' = [ledger EXCEPT ![q] = Append(@, op)] BY <1>4, <2>1, <2>3 DEF AddOperation
  <2> QED BY <1>2, <2>2, <2>4
<1>5. ASSUME NEW q \in Replica, StartGossip(q)
      PROVE  \A r \in Replica : \A v : Later(ledger[r], v) => Later(ledger'[r], v)
  BY <1>3, <1>5 DEF StartGossip
<1>6. ASSUME SortReceived
      PROVE  \A r \in Replica : \A v : Later(ledger[r], v) => Later(ledger'[r], v)
  <2>1. PICK q \in Replica : q = gossip.to BY <1>6 DEF SortReceived, IInv, GossipInv, Receiving
  <2> QED BY <1>3, <1>6, <2>1 DEF SortReceived
<1>7. ASSUME TakeOperation
      PROVE  \A r \in Replica : \A v : Later(ledger[r], v) => Later(ledger'[r], v)
  <2>1. PICK q \in Replica : q = gossip.to BY <1>7 DEF TakeOperation, IInv, GossipInv, Receiving
  <2>2. PICK op : op = [Head(gossip.msg) EXCEPT !.prev = NoTS, !.ts = NoTS] OBVIOUS
  <2>3. gossip.msg # <<>> /\ gossip.msg \in Seq(Op)
    BY <1>7 DEF TakeOperation, IInv, GossipInv, Gossip
  <2>4. 1 \in DOMAIN gossip.msg /\ Head(gossip.msg) = gossip.msg[1] BY <2>3
  <2>5. Head(gossip.msg) \in Op /\ ~Head(gossip.msg).live
    BY <2>3, <2>4 DEF LateInv, LateMessage
  <2>6. op \in Op /\ op.prev = NoTS /\ op.ts = NoTS /\ ~op.live BY <2>2, <2>5 DEF Op
  <2>7. UNCHANGED ledger \/ ledger' = [ledger EXCEPT ![q] = Append(@, op)]
    BY <1>7, <2>1, <2>2 DEF TakeOperation
  <2> QED BY <1>2, <2>6, <2>7
<1> QED BY <1>4, <1>5, <1>6, <1>7

\* The timestamps a handler or gossip gives to its operation, until a handler races.
LEMMA LaterStamps ==
  ASSUME IInv, OwnInv, WritesInv, LateInv, ~raced',
         \/ \E u \in User : StampRequest(u) \/ StampReplica(u)
         \/ StampPrev \/ StampTS
  PROVE  \A r \in Replica : \A v : Later(ledger[r], v) => Later(ledger'[r], v)
<1>1. ledger \in [Replica -> Seq(Op)] /\ \A r \in Replica : ledger[r] \in Seq(Op)
  BY DEF IInv, LedgerInv
<1>2. \A r \in Replica : OnceEach(ledger[r]) BY DEF WritesInv, SingleInv
<1>3. ASSUME NEW q \in Replica, NEW t, t # NoTS, ledger[q][Len(ledger[q])].prev \in {NoTS, t},
             ledger' = [ledger EXCEPT ![q] = SetPrevTS(@, t)]
      PROVE  \A r \in Replica : \A v : Later(ledger[r], v) => Later(ledger'[r], v)
  <2>1. \A v : Later(ledger[q], v) => Later(SetPrevTS(ledger[q], t), v)
    BY <1>1, <1>3, LaterSetPrev
  <2> QED BY <1>3, <2>1, LaterOne
<1>4. ASSUME NEW q \in Replica, NEW t, NEW p, p # NoTS, ledger[q][Len(ledger[q])].prev = p,
             Past(t, p), ledger' = [ledger EXCEPT ![q] = SetTS(@, t)]
      PROVE  \A r \in Replica : \A v : Later(ledger[r], v) => Later(ledger'[r], v)
  <2>1. \A v : Later(ledger[q], v) => Later(SetTS(ledger[q], t), v)
    BY <1>1, <1>4, LaterSetTS
  <2> QED BY <1>4, <2>1, LaterOne
<1>5. ASSUME NEW u \in User, StampRequest(u)
      PROVE  \A r \in Replica : \A v : Later(ledger[r], v) => Later(ledger'[r], v)
  <2>1. PICK q \in Replica, t \in TS : q = call[u].at /\ t = call[u].prev
    BY <1>5 DEF StampRequest, IInv, CallInv, Call
  <2>2. Holds(ledger[q], Its(u), NoTS) BY <1>5, <2>1 DEF StampRequest, WritesInv, OwedInv, Owes
  <2>3. IsLast(ledger[q], Its(u)) /\ ledger' = [ledger EXCEPT ![q] = SetPrevTS(@, t)]
    BY <1>5, <2>1 DEF StampRequest, Its
  <2>4. ledger[q][Len(ledger[q])].prev = NoTS BY <1>1, <1>2, <2>2, <2>3, LastHolds
  <2> QED BY <1>3, <2>3, <2>4, TimestampSet
<1>6. ASSUME NEW u \in User, StampReplica(u)
      PROVE  \A r \in Replica : \A v : Later(ledger[r], v) => Later(ledger'[r], v)
  <2>1. PICK q \in Replica, p \in TS : q = call[u].at /\ p = call[u].prev
    BY <1>6 DEF StampReplica, IInv, CallInv, Call
  <2>2. Holds(ledger[q], Its(u), p) BY <1>6, <2>1 DEF StampReplica, WritesInv, OwedInv
  <2>3. IsLast(ledger[q], Its(u)) /\ ledger' = [ledger EXCEPT ![q] = SetTS(@, mapTS[q])]
    BY <1>6, <2>1 DEF StampReplica, Its
  <2>4. ledger[q][Len(ledger[q])].prev = p BY <1>1, <1>2, <2>2, <2>3, LastHolds
  <2>5. Past(mapTS[q], p) BY <1>6, <2>1 DEF StampReplica, OwnInv, Ahead
  <2> QED BY <1>4, <2>3, <2>4, <2>5, TimestampSet
<1>7. ASSUME StampPrev \/ StampTS
      PROVE  /\ gossip.to \in Replica /\ gossip.msg # <<>>
             /\ IsLast(ledger[gossip.to], Head(gossip.msg).write)
             /\ Past(Head(gossip.msg).ts, Head(gossip.msg).prev) /\ Head(gossip.msg).prev # NoTS
             /\ Known(Head(gossip.msg).write, Head(gossip.msg).prev)
  <2>1. gossip.to \in Replica /\ gossip.msg # <<>> /\ gossip.msg \in Seq(Op)
    BY <1>7 DEF StampPrev, StampTS, IInv, GossipInv, Gossip, Receiving, AtLast
  <2>2. 1 \in DOMAIN gossip.msg /\ Head(gossip.msg) = gossip.msg[1] BY <2>1
  <2>3. Past(Head(gossip.msg).ts, Head(gossip.msg).prev) BY <2>2 DEF LateInv, LateMessage
  <2>4. IsLast(ledger[gossip.to], Head(gossip.msg).write) BY <1>7 DEF StampPrev, StampTS
  <2> QED BY <2>1, <2>3, <2>4, HeadKnown
<1>8. ASSUME StampPrev
      PROVE  \A r \in Replica : \A v : Later(ledger[r], v) => Later(ledger'[r], v)
  <2>1. PICK q, t, w : q = gossip.to /\ t = Head(gossip.msg).prev /\ w = Head(gossip.msg).write
    OBVIOUS
  <2>2. q \in Replica /\ t # NoTS /\ IsLast(ledger[q], w) /\ Known(w, t) BY <1>7, <1>8, <2>1
  <2>3. ledger' = [ledger EXCEPT ![q] = SetPrevTS(@, t)] BY <1>8, <2>1 DEF StampPrev
  <2>4. 1 \in DOMAIN ledger[q] BY <1>8, <2>1 DEF StampPrev, IInv, LastInv, AtLast
  <2>5. Len(ledger[q]) \in DOMAIN ledger[q] BY <1>1, <2>2, <2>4
  <2>6. Known(w, ledger[q][Len(ledger[q])].prev) BY <2>2, <2>5 DEF Known, Holds, IsLast
  <2>7. ledger[q][Len(ledger[q])].prev \in {NoTS, t} BY <2>2, <2>6 DEF WritesInv, KnownInv
  <2> QED BY <1>3, <2>2, <2>3, <2>7
<1>9. ASSUME StampTS
      PROVE  \A r \in Replica : \A v : Later(ledger[r], v) => Later(ledger'[r], v)
  <2>1. PICK q, p, t, w : /\ q = gossip.to /\ p = Head(gossip.msg).prev
                          /\ t = Head(gossip.msg).ts /\ w = Head(gossip.msg).write
    OBVIOUS
  <2>2. q \in Replica /\ p # NoTS /\ IsLast(ledger[q], w) /\ Past(t, p) BY <1>7, <1>9, <2>1
  <2>3. ledger' = [ledger EXCEPT ![q] = SetTS(@, t)] BY <1>9, <2>1 DEF StampTS
  <2>4. Holds(ledger[q], w, p) BY <1>9, <2>1 DEF StampTS, WritesInv, FoundInv, AtIts
  <2>5. ledger[q][Len(ledger[q])].prev = p BY <1>1, <1>2, <2>2, <2>4, LastHolds
  <2> QED BY <1>4, <2>2, <2>3, <2>5
<1> QED BY <1>5, <1>6, <1>8, <1>9

\* A message is late as the ledger it is taken from.
LEMMA OutgoingLate ==
  ASSUME IInv, LateInv, NEW r \in Replica, NEW q \in Replica, Sendable(Outgoing(r, q))
  PROVE  LateMessage(Outgoing(r, q))
<1> DEFINE L == ledger[r]
           m == mapTS[r][q]
           len == IF Len(L) > m THEN Len(L) - m ELSE 0
<1>1. L \in Seq(Op) /\ Len(L) \in Nat /\ DOMAIN L = 1..Len(L) BY DEF IInv, LedgerInv
<1>2. m \in Nat BY ReplicaAssumption DEF IInv, ClockInv, TS
<1>3. DOMAIN Outgoing(r, q) = 1..len BY DEF Outgoing
<1> SUFFICES ASSUME NEW j \in 1..len
             PROVE  Past(Outgoing(r, q)[j].ts, Outgoing(r, q)[j].prev) /\ ~Outgoing(r, q)[j].live
  BY <1>3 DEF LateMessage
<1>4. j + m \in DOMAIN L BY <1>1, <1>2
<1>5. L[j + m] \in Op BY <1>1, <1>4
<1>6. Outgoing(r, q)[j] = [L[j + m] EXCEPT !.ts = TimestampOf(r, L[j + m]), !.live = FALSE]
  BY DEF Outgoing
<1>7. /\ Outgoing(r, q)[j].prev = L[j + m].prev
      /\ Outgoing(r, q)[j].ts = TimestampOf(r, L[j + m])
      /\ Outgoing(r, q)[j].live = FALSE
  BY <1>5, <1>6 DEF Op
<1>8. L[j + m].prev # NoTS /\ TimestampOf(r, L[j + m]) # NoTS BY <1>3, <1>7 DEF Sendable
<1>9. LateOne(L[j + m], valueTS[r]) BY <1>4 DEF LateInv, Later
<1>10. Past(TimestampOf(r, L[j + m]), L[j + m].prev) BY <1>8, <1>9 DEF LateOne, TimestampOf
<1> QED BY <1>7, <1>10

\* What is left of a message is late too.
LEMMA TailLate ==
  ASSUME IInv, LateInv, gossip.msg # <<>>
  PROVE  LateMessage(Tail(gossip.msg))
<1> DEFINE m == gossip.msg
<1>1. m \in Seq(Op) /\ m # <<>> /\ LateMessage(m) BY DEF IInv, GossipInv, Gossip, LateInv
<1> HIDE DEF m
<1>2. Len(m) \in Nat /\ Len(m) >= 1 /\ DOMAIN m = 1..Len(m) BY <1>1
<1>3. DOMAIN Tail(m) = 1..(Len(m) - 1) BY <1>1
<1>4. \A j \in 1..(Len(m) - 1) : Tail(m)[j] = m[j + 1] /\ j + 1 \in DOMAIN m BY <1>1, <1>2
<1>5. LateMessage(Tail(m)) BY <1>1, <1>3, <1>4 DEF LateMessage
<1> QED BY <1>5 DEF m

\* Every step keeps LateInv, until a handler races.
LEMMA NextLate == IInv /\ OwnInv /\ WritesInv /\ LateInv /\ ~raced' /\ [Next]_vars => LateInv'
<1> SUFFICES ASSUME IInv, OwnInv, WritesInv, LateInv, ~raced', [Next]_vars PROVE LateInv' OBVIOUS
<1>1. LateMessage(gossip'.msg)
  <2>1. CASE gossip'.msg \in {NoGossip.msg, gossip.msg}
    BY <2>1, NothingYet DEF LateInv, LateMessage
  <2>2. CASE gossip.msg # <<>> /\ gossip'.msg = Tail(gossip.msg) BY <2>2, TailLate
  <2>3. CASE \E r, q \in Replica : Sendable(Outgoing(r, q)) /\ gossip'.msg = Outgoing(r, q)
    BY <2>3, OutgoingLate
  <2> QED BY <2>1, <2>2, <2>3, MessageMoves
<1>2. \A r \in Replica : /\ SoundLedger(ledger[r]) /\ Later(ledger[r], valueTS[r])
                         /\ valueTS[r] \in TS /\ valueTS'[r] \in TS
                         /\ Leq(valueTS[r], valueTS'[r])
  BY ValueGrows DEF IInv, LedgerInv, LateInv
<1>3. \A r \in Replica : Later(ledger[r], valueTS'[r]) BY <1>2, LaterGrows
<1>4. ASSUME \A r \in Replica : \A v : Later(ledger[r], v) => Later(ledger'[r], v)
      PROVE  \A r \in Replica : Later(ledger'[r], valueTS'[r])
  BY <1>3, <1>4
<1>5. ASSUME RunUnstable PROVE \A r \in Replica : Later(ledger'[r], valueTS'[r])
  <2>1. gossip.pc = "run" /\ gossip.i <= Len(ledger[gossip.to]) BY <1>5 DEF RunUnstable
  <2>2. PICK q \in Replica : q = gossip.to BY <2>1, FoundTyped
  <2>3. PICK i \in DOMAIN ledger[q] : i = gossip.i BY <2>1, <2>2, FoundTyped
  <2>4. PICK t : t = TimestampOf(q, ledger[q][i]) OBVIOUS
  <2>5. \/ UNCHANGED ledger
        \/ /\ ledger[q][i].prev # NoTS /\ t # NoTS
           /\ valueTS' = [valueTS EXCEPT ![q] = Join(@, t)]
           /\ ledger' = [ledger EXCEPT ![q] = [ledger[q] EXCEPT ![i].live = TRUE]]
    BY <1>5, <2>2, <2>3, <2>4 DEF RunUnstable
  <2>6. CASE UNCHANGED ledger BY <1>3, <2>6
  <2>7. CASE /\ ledger[q][i].prev # NoTS /\ t # NoTS
             /\ valueTS' = [valueTS EXCEPT ![q] = Join(@, t)]
             /\ ledger' = [ledger EXCEPT ![q] = [ledger[q] EXCEPT ![i].live = TRUE]]
    <3>1. t = IF ledger[q][i].live THEN valueTS[q] ELSE ledger[q][i].ts
      BY <2>4 DEF TimestampOf
    <3>2. t \in TS BY <1>2, <2>7, <3>1 DEF SoundLedger, Sound, Issued
    <3>3. valueTS'[q] = Join(valueTS[q], t) BY <2>7 DEF IInv, ClockInv
    <3>4. Leq(t, valueTS'[q]) BY <1>2, <3>2, <3>3, JoinAbove
    <3>5. Later([ledger[q] EXCEPT ![i].live = TRUE], valueTS'[q])
      BY <1>2, <2>7, <3>1, <3>2, <3>4, LaterLive
    <3>6. /\ ledger'[q] = [ledger[q] EXCEPT ![i].live = TRUE]
          /\ \A r \in Replica : r # q => ledger'[r] = ledger[r]
      BY <2>7 DEF IInv, LedgerInv
    <3> QED BY <1>3, <3>5, <3>6
  <2> QED BY <2>5, <2>6, <2>7
<1>6. ASSUME \/ \E u \in User : AddOperation(u) \/ StampRequest(u) \/ StampReplica(u)
             \/ \E r \in Replica : StartGossip(r)
             \/ TakeOperation \/ SortReceived \/ StampPrev \/ StampTS
      PROVE  \A r \in Replica : Later(ledger'[r], valueTS'[r])
  BY <1>4, <1>6, LaterGains, LaterStamps
<1>7. ASSUME \/ \E u \in User, q \in Replica : \/ \E req \in Writes[u] : AskWrite(u, q, req)
                                              \/ \E a \in Reads[u] : AskBalance(u, q, a)
             \/ \E u \in User : \/ ReadClock(u) \/ PutClock(u) \/ RaiseClock(u)
                                \/ Answer(u) \/ Balance(u)
             \/ \E q \in MayStop : SetActive(q)
             \/ \E q \in Replica : SendTo(q)
             \/ EndGossip \/ CheckOperation \/ RaiseValue \/ ExecuteOperation \/ StartRun \/ EndRun
             \/ UNCHANGED vars
      PROVE  UNCHANGED ledger
  BY <1>7 DEF AskWrite, AskBalance, ReadClock, PutClock, RaiseClock, Answer, Balance, SetActive,
              SendTo, EndGossip, CheckOperation, RaiseValue, ExecuteOperation, StartRun, EndRun, vars
<1>8. UNCHANGED ledger => \A r \in Replica : Later(ledger'[r], valueTS'[r]) BY <1>3
<1>9. \A r \in Replica : Later(ledger'[r], valueTS'[r])
  BY <1>5, <1>6, <1>7, <1>8, Zenon DEF Next
<1> QED BY <1>1, <1>9 DEF LateInv, LateMessage, Later, LateOne, Past, Leq

-----------------------------------------------------------------------------
(* What was executed is in the ledger, and behind the value timestamp of the replica. *)

\* The write w was executed at r: its ledger holds it, and if it has its timestamp, so that it may
\* be found unstable, the replica is past it.
Behind(r, w) == \E p : Holds(ledger[r], w, p) /\ (p = NoTS \/ Past(valueTS[r], p))

\* Gossip is with an operation that it has added, and not executed.
AtNew == {"stamp"} \cup AtIts

ExecutedInv ==
  /\ executed \in [Replica -> [Write -> {0, 1}]]
  /\ \A r \in Replica : \A w \in Write : executed[r][w] = 1 => Behind(r, w)
  /\ \A u \in User : Owes(u) /\ executed[call[u].at][Its(u)] = 1 => call[u].stable
  /\ gossip.pc \in AtNew => executed[gossip.to][Head(gossip.msg).write] = 0
  /\ gossip.pc = "apply" => Past(valueTS[gossip.to], Head(gossip.msg).prev)

\* A ledger that keeps a write keeps it behind the replica, whose value timestamp only grows.
LEMMA BehindKept ==
  ASSUME IInv, [Next]_vars, NEW r \in Replica, NEW w, Behind(r, w),
         \A p : Holds(ledger[r], w, p) => Holds(ledger'[r], w, p)
  PROVE  Behind(r, w)'
<1>1. PICK p : Holds(ledger[r], w, p) /\ (p = NoTS \/ Past(valueTS[r], p)) BY DEF Behind
<1>2. Holds(ledger'[r], w, p)  BY <1>1
<1>3. p = NoTS \/ p \in TS
  <2>1. PICK j \in DOMAIN ledger[r] : ledger[r][j].prev = p BY <1>1 DEF Holds
  <2>2. SoundLedger(ledger[r]) BY DEF IInv, LedgerInv
  <2> QED BY <2>1, <2>2 DEF SoundLedger, Sound, Issued
<1>4. Leq(valueTS[r], valueTS'[r]) /\ valueTS[r] \in TS /\ valueTS'[r] \in TS BY ValueGrows
<1>5. p = NoTS \/ Past(valueTS'[r], p) BY <1>1, <1>3, <1>4, PastGrows
<1>6. \E x : Holds(ledger'[r], w, x) /\ (x = NoTS \/ Past(valueTS'[r], x)) BY <1>2, <1>5
<1> QED BY <1>6 DEF Behind, Holds, Past, Leq

\* A replica gets the write that is held with p, and is past p.
LEMMA BehindGets ==
  ASSUME NEW r \in Replica, NEW w, NEW p, Holds(ledger'[r], w, p),
         p = NoTS \/ Past(valueTS'[r], p)
  PROVE  Behind(r, w)'
<1>1. \E x : Holds(ledger'[r], w, x) /\ (x = NoTS \/ Past(valueTS'[r], x)) OBVIOUS
<1> QED BY <1>1 DEF Behind, Holds, Past, Leq

\* The operation that gossip is with.
LEMMA NewThere ==
  ASSUME IInv, gossip.pc \in AtNew
  PROVE  /\ gossip.to \in Replica /\ gossip.msg # <<>>
         /\ Head(gossip.msg).write \in Write /\ Head(gossip.msg).prev \in TS
         /\ Head(gossip.msg).prev # NoTS /\ Known(Head(gossip.msg).write, Head(gossip.msg).prev)
<1>1. gossip.to \in Replica /\ gossip.msg # <<>>
  BY DEF IInv, GossipInv, AtNew, AtIts, AtLast, AtFound, Receiving
<1>2. Head(gossip.msg) \in Op BY <1>1, HeadSigned
<1>3. Head(gossip.msg).write \in Write BY <1>2 DEF Op
<1> QED BY <1>1, <1>3, HeadKnown

\* Steps that execute nothing, and keep what was executed behind.
LEMMA ExecutedKept ==
  ASSUME IInv, ExecutedInv, [Next]_vars, UNCHANGED executed,
         \A r \in Replica : \A w \in Write : executed[r][w] = 1 => Behind(r, w)',
         \A u \in User : Owes(u)' => /\ Owes(u) /\ call'[u].at = call[u].at
                                     /\ call'[u].n = call[u].n /\ call'[u].stable = call[u].stable,
         \/ UNCHANGED gossip
         \/ /\ gossip'.pc \in AtNew => executed[gossip'.to][Head(gossip'.msg).write] = 0
            /\ gossip'.pc = "apply" => Past(valueTS'[gossip'.to], Head(gossip'.msg).prev)
  PROVE  ExecutedInv'
<1>1. \A u \in User : Owes(u)' => Its(u)' = Its(u) BY DEF Its
<1>2. \A u \in User : Owes(u)' /\ executed[call'[u].at][Its(u)'] = 1 => call'[u].stable
  BY <1>1 DEF ExecutedInv
<1>3. gossip'.pc \in AtNew => executed[gossip'.to][Head(gossip'.msg).write] = 0
  BY DEF ExecutedInv
<1>4. gossip'.pc = "apply" => Past(valueTS'[gossip'.to], Head(gossip'.msg).prev)
  <2>1. CASE UNCHANGED gossip
    <3> SUFFICES ASSUME gossip.pc = "apply" PROVE Past(valueTS'[gossip.to], Head(gossip.msg).prev)
      BY <2>1
    <3>1. PICK q \in Replica, p \in TS : q = gossip.to /\ p = Head(gossip.msg).prev
      BY NewThere DEF AtNew, AtIts
    <3>2. Past(valueTS[q], p) BY <3>1 DEF ExecutedInv
    <3>3. Leq(valueTS[q], valueTS'[q]) /\ valueTS[q] \in TS /\ valueTS'[q] \in TS BY ValueGrows
    <3> QED BY <3>1, <3>2, <3>3, PastGrows
  <2> QED BY <2>1
<1>5. executed' \in [Replica -> [Write -> {0, 1}]] BY DEF ExecutedInv
<1>6. \A r \in Replica : \A w \in Write : executed'[r][w] = 1 => Behind(r, w)' OBVIOUS
<1>7. gossip'.pc \in AtNew => executed'[gossip'.to][Head(gossip'.msg).write] = 0 BY <1>3
<1>8. \A u \in User : Owes(u)' /\ executed'[call'[u].at][Its(u)'] = 1 => call'[u].stable BY <1>2
<1> QED BY <1>4, <1>5, <1>6, <1>7, <1>8 DEF ExecutedInv, AtNew, Past, Leq

\* A write whose handler is about to stamp it is one of those that users make.
LEMMA OwedWrite ==
  ASSUME IInv, NEW u \in User, Owes(u)
  PROVE  call[u].at \in Replica /\ Its(u) \in Write
BY DEF Owes, IInv, CallInv, Its

\* Steps of a handler that neither add nor stamp an operation.
LEMMA CallsExecuted ==
  ASSUME IInv, WritesInv, ExecutedInv, [Next]_vars, NEW u \in User,
         \/ \E r \in Replica, req \in Writes[u] : AskWrite(u, r, req)
         \/ ReadClock(u) \/ PutClock(u) \/ RaiseClock(u) \/ StampReplica(u) \/ Answer(u)
         \/ \E r \in Replica, a \in Reads[u] : AskBalance(u, r, a)
         \/ Balance(u)
  PROVE  ExecutedInv'
<1>1. UNCHANGED <<gossip, executed>> /\ (UNCHANGED ledger \/ StampReplica(u))
  BY DEF AskWrite, ReadClock, PutClock, RaiseClock, StampReplica, Answer, AskBalance, Balance
<1>2. call[u].pc # "add" /\ call[u].pc # "stamp"
  BY DEF AskWrite, ReadClock, PutClock, RaiseClock, StampReplica, Answer, AskBalance, Balance
<1>3. /\ \A v \in User : v # u => call'[v] = call[v]
      /\ \/ call'[u].pc \in {"add", "answer", "idle", "read"}
         \/ Moves(u, "tick", "put")
         \/ Moves(u, "put", IF call[u].stable THEN "raise" ELSE "stamp")
         \/ Moves(u, "raise", "stamp")
  BY <1>2, CallSteps DEF Moves
<1>4. \A v \in User : Owes(v)' => /\ Owes(v) /\ call'[v].at = call[v].at
                                  /\ call'[v].n = call[v].n /\ call'[v].stable = call[v].stable
  <2> SUFFICES ASSUME NEW v \in User, Owes(v)'
               PROVE  /\ Owes(v) /\ call'[v].at = call[v].at
                      /\ call'[v].n = call[v].n /\ call'[v].stable = call[v].stable
    OBVIOUS
  <2>1. CASE v # u BY <1>3, <2>1 DEF Owes
  <2>2. CASE v = u BY <1>3, <2>2 DEF Owes, Moves
  <2> QED BY <2>1, <2>2
<1>5. SameLedgers BY <1>1, SameSteps DEF WritesInv
<1>6. \A r \in Replica : \A w \in Write : executed[r][w] = 1 => Behind(r, w)'
  BY <1>5, BehindKept DEF ExecutedInv, SameLedgers, SameWrites
<1> QED BY <1>1, <1>4, <1>6, ExecutedKept

\* An operation that its handler executed is stamped by a request that the replica is past.
LEMMA StampRequestExecuted ==
  ASSUME IInv, OwnInv, WritesInv, ExecutedInv, [Next]_vars, ~raced', NEW u \in User,
         StampRequest(u)
  PROVE  ExecutedInv'
<1>1. PICK q, w, t : /\ q \in Replica /\ q = call[u].at /\ w = Its(u) /\ t = call[u].prev
                     /\ Sets(q, w, t)
  BY StampRequestSets
<1>2. UNCHANGED <<gossip, executed, valueTS>> /\ call[u].pc = "stamp"
  BY DEF StampRequest, clocks
<1>3. Moves(u, "stamp", "mark") /\ \A v \in User : v # u => call'[v] = call[v]
  BY <1>2, CallSteps DEF Moves
<1>4. \A r \in Replica : \A x \in Write : executed[r][x] = 1 => Behind(r, x)'
  <2> SUFFICES ASSUME NEW r \in Replica, NEW x \in Write, executed[r][x] = 1 PROVE Behind(r, x)'
    OBVIOUS
  <2>1. CASE r = q /\ x = w
    <3>1. call[u].stable BY <1>1, <1>2, <2>1 DEF ExecutedInv, Owes
    <3>2. Past(valueTS[q], t) BY <1>1, <1>2, <3>1 DEF OwnInv, Ahead
    <3>3. Holds(ledger'[q], w, t) /\ Past(valueTS'[q], t) BY <1>1, <1>2, <3>2 DEF Sets
    <3> QED BY <1>1, <2>1, <3>3, BehindGets
  <2>2. CASE ~(r = q /\ x = w)
    <3>1. Behind(r, x) BY DEF ExecutedInv
    <3>2. \A p : Holds(ledger[r], x, p) => Holds(ledger'[r], x, p) BY <1>1, <2>2 DEF Sets
    <3> QED BY <3>1, <3>2, BehindKept
  <2> QED BY <2>1, <2>2
<1>5. \A v \in User : Owes(v)' => /\ Owes(v) /\ call'[v].at = call[v].at
                                  /\ call'[v].n = call[v].n /\ call'[v].stable = call[v].stable
  BY <1>3 DEF Owes, Moves
<1> QED BY <1>2, <1>4, <1>5, ExecutedKept

\* The administrator's steps, and those of gossip that neither add, stamp nor execute.
LEMMA GossipExecuted ==
  ASSUME IInv, WritesInv, ExecutedInv, [Next]_vars,
         \/ \E r \in Replica : StartGossip(r) \/ SendTo(r)
         \/ \E r \in MayStop : SetActive(r)
         \/ EndGossip \/ StampTS \/ CheckOperation \/ SortReceived \/ StartRun \/ EndRun
         \/ UNCHANGED vars
  PROVE  ExecutedInv'
<1>1. UNCHANGED <<call, executed>>
  BY DEF StartGossip, SendTo, SetActive, EndGossip, StampTS, CheckOperation, SortReceived, StartRun,
         EndRun, vars
<1>2. SameLedgers
  <2>1. \/ \E q \in Replica : StartGossip(q)
        \/ StampTS \/ SortReceived \/ UNCHANGED ledger
    BY DEF SendTo, SetActive, EndGossip, CheckOperation, StartRun, EndRun, vars
  <2> QED BY <2>1, SameSteps DEF WritesInv
<1>3. \A r \in Replica : \A w \in Write : executed[r][w] = 1 => Behind(r, w)'
  BY <1>2, BehindKept DEF ExecutedInv, SameLedgers, SameWrites
<1>4. gossip \in Gossip BY DEF IInv, GossipInv
<1>5. \/ UNCHANGED gossip \/ gossip'.pc \notin AtNew
      \/ /\ gossip.pc \in AtNew /\ gossip'.to = gossip.to /\ gossip'.msg = gossip.msg
         /\ gossip'.pc # "apply"
  <2>1. ASSUME NEW r \in Replica, StartGossip(r) PROVE gossip'.pc \notin AtNew
    BY <2>1, NoGossipHolds DEF StartGossip, NoGossip, AtNew, AtIts
  <2>2. ASSUME NEW r \in Replica, SendTo(r) PROVE gossip'.pc \notin AtNew
    <3>1. \/ gossip' = NoGossip
          \/ gossip' = [gossip EXCEPT !.todo = @ \ {r}]
          \/ \E M : gossip' = [gossip EXCEPT !.pc = "take", !.todo = @ \ {r}, !.to = r, !.msg = M]
      BY <2>2 DEF SendTo
    <3>2. gossip.pc = "send" BY <2>2 DEF SendTo
    <3> QED BY <1>4, <3>1, <3>2, NoGossipHolds DEF Gossip, AtNew, AtIts
  <2>3. CASE EndGossip \/ SortReceived \/ StartRun \/ EndRun
    <3>1. gossip' = NoGossip \/ gossip'.pc \in {"sorted", "run", "send"}
      BY <1>4, <2>3 DEF EndGossip, SortReceived, StartRun, EndRun, Gossip
    <3> QED BY <3>1, NoGossipHolds DEF AtNew, AtIts
  <2>4. CASE StampTS
    <3>1. gossip.pc = "mark" /\ gossip' = [gossip EXCEPT !.pc = "check"] BY <2>4 DEF StampTS
    <3> QED BY <1>4, <3>1 DEF Gossip, AtNew, AtIts
  <2>5. CASE CheckOperation
    <3>1. gossip.pc = "check" BY <2>5 DEF CheckOperation
    <3>2. PICK n : \/ gossip' = NoGossip
                   \/ gossip' = [gossip EXCEPT !.pc = "raise", !.i = n]
                   \/ gossip' = [gossip EXCEPT !.pc = "count", !.i = n]
      BY <2>5 DEF CheckOperation
    <3> QED BY <1>4, <3>1, <3>2, NoGossipHolds DEF Gossip, AtNew, AtIts
  <2>6. ASSUME (\E r \in MayStop : SetActive(r)) \/ UNCHANGED vars PROVE UNCHANGED gossip
    BY <2>6 DEF SetActive, vars
  <2> QED BY <2>1, <2>2, <2>3, <2>4, <2>5, <2>6, Zenon
<1>6. \/ UNCHANGED gossip
      \/ /\ gossip'.pc \in AtNew => executed[gossip'.to][Head(gossip'.msg).write] = 0
         /\ gossip'.pc = "apply" => Past(valueTS'[gossip'.to], Head(gossip'.msg).prev)
  BY <1>5 DEF ExecutedInv, AtNew, AtIts
<1>7. \A u \in User : Owes(u)' => /\ Owes(u) /\ call'[u].at = call[u].at
                                  /\ call'[u].n = call[u].n /\ call'[u].stable = call[u].stable
  BY <1>1 DEF Owes
<1> QED BY <1>1, <1>3, <1>6, <1>7, ExecutedKept

\* An operation that is new to the receiver has not been executed there.
LEMMA TakeOperationExecuted ==
  ASSUME IInv, WritesInv, ExecutedInv, [Next]_vars, TakeOperation
  PROVE  ExecutedInv'
<1>1. UNCHANGED <<call, executed>> /\ gossip \in Gossip BY DEF TakeOperation, IInv, GossipInv
<1>2. \A u \in User : Owes(u)' => /\ Owes(u) /\ call'[u].at = call[u].at
                                  /\ call'[u].n = call[u].n /\ call'[u].stable = call[u].stable
  BY <1>1 DEF Owes
<1>3. CASE UNCHANGED ledger
  <2>1. \A r \in Replica : \A w \in Write : executed[r][w] = 1 => Behind(r, w)'
    BY <1>3, BehindKept DEF ExecutedInv
  <2>2. gossip.pc = "take" /\ gossip.msg # <<>> BY DEF TakeOperation
  <2>3. PICK q \in Replica : q = gossip.to BY <2>2 DEF IInv, GossipInv, Receiving
  <2>4. \/ gossip' = NoGossip \/ gossip' = [gossip EXCEPT !.msg = Tail(@)]
        \/ \E op : ledger' = [ledger EXCEPT ![q] = Append(@, op)]
    BY <2>3 DEF TakeOperation
  <2>5. ASSUME NEW op, ledger' = [ledger EXCEPT ![q] = Append(@, op)] PROVE FALSE
    <3>1. ledger[q] \in Seq(Op) /\ ledger'[q] = Append(ledger[q], op) BY <2>5 DEF IInv, LedgerInv
    <3>2. Len(ledger[q]) + 1 = Len(ledger[q]) /\ Len(ledger[q]) \in Nat BY <1>3, <3>1
    <3> QED BY <3>2
  <2>6. gossip'.pc \notin AtNew
    BY <1>1, <2>2, <2>4, <2>5, NoGossipHolds DEF Gossip, AtNew, AtIts
  <2>7. gossip'.pc # "apply" BY <2>6 DEF AtNew, AtIts
  <2> QED BY <1>1, <1>2, <2>1, <2>6, <2>7, ExecutedKept
<1>4. CASE ~UNCHANGED ledger
  <2>1. PICK q, w : /\ q \in Replica /\ q = gossip.to /\ w = Head(gossip.msg).write
                    /\ Gains(q, w) /\ \A p : ~Holds(ledger[q], w, p)
    BY <1>4, TakeOperationGains
  <2>2. \A r \in Replica : \A x, p : Holds(ledger[r], x, p) => Holds(ledger'[r], x, p)
    BY <2>1 DEF Gains
  <2>3. \A r \in Replica : \A x \in Write : executed[r][x] = 1 => Behind(r, x)'
    BY <2>2, BehindKept DEF ExecutedInv
  <2>4. gossip' = [gossip EXCEPT !.pc = "stamp"] BY <1>4, TakeOperationGains
  <2>5. gossip'.pc = "stamp" /\ gossip'.to = q /\ gossip'.msg = gossip.msg
    BY <1>1, <2>1, <2>4 DEF Gossip
  <2>6. gossip.msg # <<>> BY DEF TakeOperation
  <2>7. Head(gossip.msg) \in Op BY <2>6, HeadSigned
  <2>8. w \in Write BY <2>1, <2>7 DEF Op
  <2>9. executed[q][w] # 1 BY <2>1, <2>8 DEF ExecutedInv, Behind
  <2>10. executed[q][w] = 0 BY <2>1, <2>8, <2>9 DEF ExecutedInv
  <2> QED BY <1>1, <1>2, <2>1, <2>3, <2>5, <2>10, ExecutedKept
<1> QED BY <1>3, <1>4

\* It gets its prev before it is executed.
LEMMA StampPrevExecuted ==
  ASSUME IInv, WritesInv, ExecutedInv, [Next]_vars, ~raced', StampPrev
  PROVE  ExecutedInv'
<1>1. PICK q, w, t : /\ q \in Replica /\ q = gossip.to /\ w = Head(gossip.msg).write
                     /\ t = Head(gossip.msg).prev /\ Sets(q, w, t)
  BY StampPrevSets
<1>2. /\ UNCHANGED <<call, executed>> /\ gossip \in Gossip /\ gossip.pc = "stamp"
      /\ gossip' = [gossip EXCEPT !.pc = "mark"]
  BY DEF StampPrev, IInv, GossipInv
<1>3. gossip'.pc = "mark" /\ gossip'.to = q /\ gossip'.msg = gossip.msg BY <1>1, <1>2 DEF Gossip
<1>4. executed[q][w] = 0 BY <1>1, <1>2 DEF ExecutedInv, AtNew
<1>5. \A r \in Replica : \A x \in Write : executed[r][x] = 1 => Behind(r, x)'
  <2> SUFFICES ASSUME NEW r \in Replica, NEW x \in Write, executed[r][x] = 1 PROVE Behind(r, x)'
    OBVIOUS
  <2>1. Behind(r, x) /\ ~(r = q /\ x = w) BY <1>4 DEF ExecutedInv
  <2>2. \A p : Holds(ledger[r], x, p) => Holds(ledger'[r], x, p) BY <1>1, <2>1 DEF Sets
  <2> QED BY <2>1, <2>2, BehindKept
<1>6. \A u \in User : Owes(u)' => /\ Owes(u) /\ call'[u].at = call[u].at
                                  /\ call'[u].n = call[u].n /\ call'[u].stable = call[u].stable
  BY <1>2 DEF Owes
<1> QED BY <1>1, <1>2, <1>3, <1>4, <1>5, <1>6, ExecutedKept

\* The value timestamp gets past the prev of the operation before it is executed.
LEMMA RaiseValueExecuted ==
  ASSUME IInv, WritesInv, LateInv, ExecutedInv, [Next]_vars, RaiseValue
  PROVE  ExecutedInv'
<1>1. UNCHANGED <<call, executed, ledger>> /\ gossip \in Gossip /\ gossip.pc \in {"raise", "count"}
  BY DEF RaiseValue, IInv, GossipInv
<1>2. PICK q \in Replica : q = gossip.to BY <1>1 DEF IInv, GossipInv, Receiving
<1>3. PICK t : t = TimestampOf(q, ledger[q][gossip.i]) OBVIOUS
<1>4. \/ gossip' = NoGossip
      \/ gossip' = [gossip EXCEPT !.pc = "take", !.msg = Tail(@), !.i = 1]
      \/ /\ gossip.pc = "raise" /\ gossip' = [gossip EXCEPT !.pc = "apply"]
         /\ t # NoTS /\ valueTS' = [valueTS EXCEPT ![q] = Join(@, t)]
  BY <1>2, <1>3 DEF RaiseValue
<1>5. \A r \in Replica : \A w \in Write : executed[r][w] = 1 => Behind(r, w)'
  BY <1>1, BehindKept DEF ExecutedInv
<1>6. \A u \in User : Owes(u)' => /\ Owes(u) /\ call'[u].at = call[u].at
                                  /\ call'[u].n = call[u].n /\ call'[u].stable = call[u].stable
  BY <1>1 DEF Owes
<1>7. CASE \/ gossip' = NoGossip
           \/ gossip' = [gossip EXCEPT !.pc = "take", !.msg = Tail(@), !.i = 1]
  <2>1. gossip'.pc \notin AtNew /\ gossip'.pc # "apply"
    BY <1>1, <1>7, NoGossipHolds DEF Gossip, AtNew, AtIts
  <2> QED BY <1>1, <1>5, <1>6, <2>1, ExecutedKept
<1>8. CASE /\ gossip.pc = "raise" /\ gossip' = [gossip EXCEPT !.pc = "apply"]
           /\ t # NoTS /\ valueTS' = [valueTS EXCEPT ![q] = Join(@, t)]
  <2>1. gossip'.pc = "apply" /\ gossip'.to = q /\ gossip'.msg = gossip.msg
    BY <1>1, <1>2, <1>8 DEF Gossip
  <2>2. PICK w, p : w = Head(gossip.msg).write /\ p = Head(gossip.msg).prev OBVIOUS
  <2>3. executed[q][w] = 0 BY <1>2, <1>8, <2>2 DEF ExecutedInv, AtNew, AtIts
  <2>4. PICK i \in DOMAIN ledger[q] : i = gossip.i BY <1>2, <1>8 DEF IInv, LastInv, AtFound
  <2>5. ledger[q][i].write = w /\ Holds(ledger[q], w, p)
    BY <1>2, <1>8, <2>2, <2>4 DEF WritesInv, FoundInv, AtIts
  <2>6. ledger[q][i].prev = p BY <2>5 DEF WritesInv, SingleInv, OnceEach, Holds
  <2>7. p \in TS /\ p # NoTS BY <1>8, <2>2, NewThere DEF AtNew, AtIts
  <2>8. LateOne(ledger[q][i], valueTS[q]) BY DEF LateInv, Later
  <2>9. Past(t, p) BY <1>3, <1>8, <2>4, <2>6, <2>7, <2>8 DEF LateOne, TimestampOf
  <2>10. t \in TS /\ valueTS[q] \in TS
    BY <1>3, <1>8, <2>4 DEF TimestampOf, IInv, LedgerInv, ClockInv, SoundLedger, Sound, Issued
  <2>11. valueTS'[q] = Join(valueTS[q], t) BY <1>8 DEF IInv, ClockInv
  <2>12. Leq(t, valueTS'[q]) /\ valueTS'[q] \in TS BY <2>10, <2>11, JoinAbove
  <2>13. Past(valueTS'[q], p) BY <2>7, <2>9, <2>10, <2>12, PastGrows
  <2> QED BY <1>1, <1>5, <1>6, <2>1, <2>2, <2>3, <2>13, ExecutedKept
<1> QED BY <1>4, <1>7, <1>8

\* One replica executes a write that it had not executed.
LEMMA ExecuteOne ==
  ASSUME executed \in [Replica -> [Write -> {0, 1}]], NEW q \in Replica, NEW w \in Write,
         executed[q][w] = 0, executed' = [executed EXCEPT ![q][w] = @ + 1]
  PROVE  /\ executed' \in [Replica -> [Write -> {0, 1}]]
         /\ \A r \in Replica : \A x \in Write :
              ~(r = q /\ x = w) => executed'[r][x] = executed[r][x]
<1>1. executed[q] \in [Write -> {0, 1}] /\ executed[q][w] + 1 = 1 OBVIOUS
<1>2. executed' = [executed EXCEPT ![q] = [executed[q] EXCEPT ![w] = 1]] BY <1>1
<1>3. [executed[q] EXCEPT ![w] = 1] \in [Write -> {0, 1}] BY <1>1
<1> QED BY <1>2, <1>3

\* The handler executes a write that no ledger held.
LEMMA AddOperationExecuted ==
  ASSUME IInv, IInv', WritesInv, ExecutedInv, [Next]_vars, NEW u \in User, AddOperation(u)
  PROVE  ExecutedInv'
<1>1. PICK q, w : q \in Replica /\ q = call[u].at /\ w = Its(u) /\ Gains(q, w)
  BY AddOperationGains
<1>2. w \in Write BY <1>1 DEF AddOperation, IInv, CallInv, Its
<1>3. /\ UNCHANGED gossip /\ call[u].pc = "add" /\ executed \in [Replica -> [Write -> {0, 1}]]
  BY DEF AddOperation, ExecutedInv
<1>4. Moves(u, "add", "tick") /\ \A v \in User : v # u => call'[v] = call[v]
  BY <1>3, CallSteps DEF Moves
<1>5. \/ call[u].stable /\ executed' = [executed EXCEPT ![q][w] = @ + 1]
      \/ UNCHANGED executed
  BY <1>1 DEF AddOperation, Its
<1>6. \A r \in Replica : \A x, p : Holds(ledger[r], x, p) => Holds(ledger'[r], x, p)
  BY <1>1 DEF Gains
<1>7. Holds(ledger'[q], w, NoTS) /\ \A p : ~Known(w, p)
  BY <1>1, <1>3 DEF Gains, WritesInv, KnownInv
<1>8. executed[q][w] = 0
  <2>1. executed[q][w] = 1 => \E p : Holds(ledger[q], w, p) BY <1>1, <1>2 DEF ExecutedInv, Behind
  <2>2. executed[q][w] # 1 BY <1>1, <1>7, <2>1 DEF Known
  <2> QED BY <1>1, <1>2, <1>3, <2>2
<1>9. /\ executed' \in [Replica -> [Write -> {0, 1}]]
      /\ \A r \in Replica : \A x \in Write : ~(r = q /\ x = w) => executed'[r][x] = executed[r][x]
      /\ executed'[q][w] = 1 => call[u].stable
  <2>1. CASE UNCHANGED executed BY <1>3, <1>8, <2>1
  <2>2. CASE call[u].stable /\ executed' = [executed EXCEPT ![q][w] = @ + 1]
    BY <1>1, <1>2, <1>3, <1>8, <2>2, ExecuteOne
  <2> QED BY <1>5, <2>1, <2>2
<1>10. \A r \in Replica : \A x \in Write : executed'[r][x] = 1 => Behind(r, x)'
  <2> SUFFICES ASSUME NEW r \in Replica, NEW x \in Write, executed'[r][x] = 1 PROVE Behind(r, x)'
    OBVIOUS
  <2>1. CASE r = q /\ x = w BY <1>7, <2>1, BehindGets
  <2>2. CASE ~(r = q /\ x = w)
    <3>1. Behind(r, x) BY <1>9, <2>2 DEF ExecutedInv
    <3> QED BY <1>6, <3>1, BehindKept
  <2> QED BY <2>1, <2>2
<1>11. \A v \in User : Owes(v)' /\ executed'[call'[v].at][Its(v)'] = 1 => call'[v].stable
  <2> SUFFICES ASSUME NEW v \in User, Owes(v)', executed'[call'[v].at][Its(v)'] = 1
               PROVE  call'[v].stable
    OBVIOUS
  <2>1. CASE v = u
    <3>1. Its(v)' = w BY <1>1, <1>4, <2>1 DEF Its, Moves
    <3> QED BY <1>1, <1>4, <1>9, <2>1, <3>1 DEF Moves
  <2>2. CASE v # u
    <3>1. Owes(v) /\ Its(v)' = Its(v) /\ call'[v] = call[v] /\ Its(v) # w
      BY <1>1, <1>4, <2>2 DEF Owes, Its
    <3>2. call[v].at \in Replica /\ Its(v) \in Write BY <3>1, OwedWrite
    <3> QED BY <1>9, <3>1, <3>2 DEF ExecutedInv
  <2> QED BY <2>1, <2>2
<1>12. gossip.pc \in AtNew => executed'[gossip.to][Head(gossip.msg).write] = 0
  <2> SUFFICES ASSUME gossip.pc \in AtNew PROVE executed'[gossip.to][Head(gossip.msg).write] = 0
    OBVIOUS
  <2>1. PICK r \in Replica, x \in Write : r = gossip.to /\ x = Head(gossip.msg).write BY NewThere
  <2>2. x # w BY <1>7, <2>1, NewThere
  <2>3. executed'[r][x] = executed[r][x] BY <1>9, <2>2
  <2> QED BY <2>1, <2>3 DEF ExecutedInv
<1>13. gossip.pc = "apply" => Past(valueTS'[gossip.to], Head(gossip.msg).prev)
  BY DEF AddOperation, clocks, ExecutedInv
<1> QED BY <1>3, <1>9, <1>10, <1>11, <1>12, <1>13 DEF ExecutedInv, AtNew, Past, Leq

\* Gossip executes a write that it has made the receiver past of.
LEMMA PerformExecuted ==
  ASSUME IInv, WritesInv, ExecutedInv, [Next]_vars, UNCHANGED call, NEW q \in Replica,
         NEW w \in Write, NEW p, p # NoTS, Holds(ledger'[q], w, p), Past(valueTS'[q], p), Known(w, p),
         SameLedgers, executed[q][w] = 0, executed' = [executed EXCEPT ![q][w] = @ + 1],
         gossip'.pc \notin AtNew
  PROVE  ExecutedInv'
<1>1. /\ executed' \in [Replica -> [Write -> {0, 1}]]
      /\ \A r \in Replica : \A x \in Write : ~(r = q /\ x = w) => executed'[r][x] = executed[r][x]
  BY ExecuteOne DEF ExecutedInv
<1>2. \A r \in Replica : \A x \in Write : executed'[r][x] = 1 => Behind(r, x)'
  <2> SUFFICES ASSUME NEW r \in Replica, NEW x \in Write, executed'[r][x] = 1 PROVE Behind(r, x)'
    OBVIOUS
  <2>1. CASE r = q /\ x = w BY <2>1, BehindGets
  <2>2. CASE ~(r = q /\ x = w)
    <3>1. Behind(r, x) BY <1>1, <2>2 DEF ExecutedInv
    <3> QED BY <3>1, BehindKept DEF SameLedgers, SameWrites
  <2> QED BY <2>1, <2>2
<1>3. \A u \in User : Owes(u)' /\ executed'[call'[u].at][Its(u)'] = 1 => call'[u].stable
  <2> SUFFICES ASSUME NEW u \in User, Owes(u)', executed'[call'[u].at][Its(u)'] = 1
               PROVE  call'[u].stable
    OBVIOUS
  <2>1. Owes(u) /\ Its(u)' = Its(u) /\ call'[u] = call[u] BY DEF Owes, Its
  <2>2. call[u].at \in Replica /\ Its(u) \in Write BY <2>1, OwedWrite
  <2>3. Its(u) # w BY <2>1 DEF WritesInv, KnownInv
  <2> QED BY <1>1, <2>1, <2>2, <2>3 DEF ExecutedInv
<1>4. gossip'.pc # "apply" BY DEF AtNew, AtIts
<1> QED BY <1>1, <1>2, <1>3, <1>4 DEF ExecutedInv, AtNew

\* The operation that gossip has added is executed once.
LEMMA ExecuteOperationExecuted ==
  ASSUME IInv, WritesInv, ExecutedInv, [Next]_vars, ExecuteOperation
  PROVE  ExecutedInv'
<1>1. UNCHANGED <<call, ledger, valueTS>> /\ gossip.pc = "apply" /\ gossip \in Gossip
  BY DEF ExecuteOperation, clocks, IInv, GossipInv
<1>2. PICK q, w, p : /\ q = gossip.to /\ w = Head(gossip.msg).write /\ p = Head(gossip.msg).prev
  OBVIOUS
<1>3. q \in Replica /\ w \in Write /\ p # NoTS /\ Known(w, p)
  BY <1>1, <1>2, NewThere DEF AtNew, AtIts
<1>4. ledger[q][gossip.i].write = w /\ Holds(ledger[q], w, p)
  BY <1>1, <1>2 DEF WritesInv, FoundInv, AtIts
<1>5. executed' = [executed EXCEPT ![q][w] = @ + 1] BY <1>2, <1>4 DEF ExecuteOperation
<1>6. executed[q][w] = 0 /\ Past(valueTS[q], p) BY <1>1, <1>2 DEF ExecutedInv, AtNew, AtIts
<1>7. gossip' = [gossip EXCEPT !.pc = "count"] BY DEF ExecuteOperation
<1>8. gossip'.pc \notin AtNew BY <1>1, <1>7 DEF Gossip, AtNew, AtIts
<1>9. SameLedgers BY <1>1, SameSteps DEF WritesInv
<1>10. Holds(ledger'[q], w, p) /\ Past(valueTS'[q], p) BY <1>1, <1>4, <1>6
<1> QED BY <1>1, <1>3, <1>5, <1>6, <1>8, <1>9, <1>10, PerformExecuted

\* Of two timestamps one of which is below the other, with no smaller sum, they are the same.
LEMMA SumLeq ==
  ASSUME NEW t \in TS, NEW v \in TS, Leq(t, v), Sum(t) >= Sum(v)
  PROVE  Leq(v, t)
<1>1. /\ t[1] \in Nat /\ t[2] \in Nat /\ t[3] \in Nat
      /\ v[1] \in Nat /\ v[2] \in Nat /\ v[3] \in Nat
  BY DEF TS
<1>2. t[1] <= v[1] /\ t[2] <= v[2] /\ t[3] <= v[3] BY DEF Leq
<1>3. v[1] <= t[1] /\ v[2] <= t[2] /\ v[3] <= t[3] BY <1>1, <1>2 DEF Sum
<1>4. 1..3 = {1, 2, 3} OBVIOUS
<1> QED BY <1>3, <1>4 DEF Leq

\* An operation that the receiver finds unstable, and executes, is none that it executed: it would
\* be past its request.
LEMMA RunUnstableExecuted ==
  ASSUME IInv, WritesInv, LateInv, ExecutedInv, [Next]_vars, RunUnstable
  PROVE  ExecutedInv'
<1>1. gossip.pc = "run" /\ gossip.i <= Len(ledger[gossip.to]) /\ UNCHANGED call /\ gossip \in Gossip
  BY DEF RunUnstable, IInv, GossipInv
<1>2. PICK q \in Replica : q = gossip.to BY <1>1, FoundTyped
<1>3. PICK i \in DOMAIN ledger[q] : i = gossip.i BY <1>1, <1>2, FoundTyped
<1>4. PICK op : op = ledger[q][i] OBVIOUS
<1>5. op \in Op /\ Sound(op) /\ LateOne(op, valueTS[q]) /\ valueTS[q] \in TS
  BY <1>4 DEF IInv, LedgerInv, SoundLedger, LateInv, Later, ClockInv
<1>6. PICK w, p : w \in Write /\ w = op.write /\ p = op.prev BY <1>5 DEF Op
<1>7. PICK t : t = TimestampOf(q, op) OBVIOUS
<1>8. \/ UNCHANGED executed
      \/ /\ p # NoTS /\ Sum(p) >= Sum(valueTS[q]) /\ Leq(p, valueTS[q]) /\ t # NoTS
         /\ valueTS' = [valueTS EXCEPT ![q] = Join(@, t)]
         /\ executed' = [executed EXCEPT ![q][w] = @ + 1]
  BY <1>2, <1>3, <1>4, <1>6, <1>7 DEF RunUnstable
<1>9. SameLedgers BY SameSteps DEF WritesInv
<1>10. gossip'.pc \notin AtNew
  <2>1. \/ gossip' = NoGossip \/ gossip' = [gossip EXCEPT !.i = @ + 1]
        \/ gossip' = [gossip EXCEPT !.pc = "send", !.i = 1]
    BY DEF RunUnstable
  <2> QED BY <1>1, <2>1, NoGossipHolds DEF Gossip, AtNew, AtIts
<1>11. CASE UNCHANGED executed
  <2>1. \A r \in Replica : \A x \in Write : executed[r][x] = 1 => Behind(r, x)'
    BY <1>9, BehindKept DEF ExecutedInv, SameLedgers, SameWrites
  <2>2. \A u \in User : Owes(u)' => /\ Owes(u) /\ call'[u].at = call[u].at
                                    /\ call'[u].n = call[u].n /\ call'[u].stable = call[u].stable
    BY <1>1 DEF Owes
  <2>3. gossip'.pc # "apply" BY <1>10 DEF AtNew, AtIts
  <2> QED BY <1>10, <1>11, <2>1, <2>2, <2>3, ExecutedKept
<1>12. CASE /\ p # NoTS /\ Sum(p) >= Sum(valueTS[q]) /\ Leq(p, valueTS[q]) /\ t # NoTS
            /\ valueTS' = [valueTS EXCEPT ![q] = Join(@, t)]
            /\ executed' = [executed EXCEPT ![q][w] = @ + 1]
  <2>1. p \in TS /\ t \in TS /\ Past(t, p)
    BY <1>5, <1>6, <1>7, <1>12 DEF Sound, Issued, LateOne, TimestampOf
  <2>2. Holds(ledger[q], w, p) BY <1>4, <1>6 DEF Holds
  <2>3. executed[q][w] = 0
    <3> SUFFICES ASSUME executed[q][w] # 0 PROVE FALSE OBVIOUS
    <3>1. executed[q][w] = 1 BY <1>6 DEF ExecutedInv
    <3>2. PICK x : Holds(ledger[q], w, x) /\ (x = NoTS \/ Past(valueTS[q], x))
      BY <1>6, <3>1 DEF ExecutedInv, Behind
    <3>3. x = p BY <2>2, <3>2 DEF Holds, WritesInv, SingleInv, OnceEach
    <3>4. Leq(valueTS[q], p) BY <1>5, <1>12, <2>1, SumLeq
    <3> QED BY <1>12, <3>2, <3>3, <3>4 DEF Past
  <2>4. valueTS'[q] = Join(valueTS[q], t) BY <1>12 DEF IInv, ClockInv
  <2>5. Leq(t, valueTS'[q]) /\ valueTS'[q] \in TS BY <1>5, <2>1, <2>4, JoinAbove
  <2>6. Past(valueTS'[q], p) BY <2>1, <2>5, PastGrows
  <2>7. Holds(ledger'[q], w, p) /\ Known(w, p)
    BY <1>9, <2>2 DEF SameLedgers, SameWrites, Known
  <2> QED BY <1>1, <1>6, <1>9, <1>10, <1>12, <2>3, <2>6, <2>7, PerformExecuted
<1> QED BY <1>8, <1>11, <1>12

\* Every step keeps ExecutedInv, until a handler races.
LEMMA NextExecuted ==
  /\ IInv /\ IInv' /\ OwnInv /\ WritesInv /\ LateInv /\ ExecutedInv /\ ~raced' /\ [Next]_vars
  => ExecutedInv'
<1> SUFFICES ASSUME IInv, IInv', OwnInv, WritesInv, LateInv, ExecutedInv, ~raced', [Next]_vars
             PROVE  ExecutedInv'
  OBVIOUS
<1>1. ASSUME NEW u \in User,
             \/ \E r \in Replica, req \in Writes[u] : AskWrite(u, r, req)
             \/ ReadClock(u) \/ PutClock(u) \/ RaiseClock(u) \/ StampReplica(u) \/ Answer(u)
             \/ \E r \in Replica, a \in Reads[u] : AskBalance(u, r, a)
             \/ Balance(u)
      PROVE  ExecutedInv'
  BY <1>1, CallsExecuted
<1>2. ASSUME NEW u \in User, AddOperation(u) PROVE ExecutedInv' BY <1>2, AddOperationExecuted
<1>3. ASSUME NEW u \in User, StampRequest(u) PROVE ExecutedInv' BY <1>3, StampRequestExecuted
<1>4. ASSUME \/ \E r \in Replica : StartGossip(r) \/ SendTo(r)
             \/ \E r \in MayStop : SetActive(r)
             \/ EndGossip \/ StampTS \/ CheckOperation \/ SortReceived \/ StartRun \/ EndRun
             \/ UNCHANGED vars
      PROVE  ExecutedInv'
  BY <1>4, GossipExecuted
<1>5. ASSUME TakeOperation PROVE ExecutedInv' BY <1>5, TakeOperationExecuted
<1>6. ASSUME StampPrev PROVE ExecutedInv' BY <1>6, StampPrevExecuted
<1>7. ASSUME RaiseValue PROVE ExecutedInv' BY <1>7, RaiseValueExecuted
<1>8. ASSUME ExecuteOperation PROVE ExecutedInv' BY <1>8, ExecuteOperationExecuted
<1>9. ASSUME RunUnstable PROVE ExecutedInv' BY <1>9, RunUnstableExecuted
<1> QED BY <1>1, <1>2, <1>3, <1>4, <1>5, <1>6, <1>7, <1>8, <1>9, Zenon DEF Next

-----------------------------------------------------------------------------
\* What holds as long as no handler has raced, and the inductive invariant.
Unraced == OwnInv /\ WritesInv /\ LateInv /\ ExecutedInv
OnceInv == IInv /\ (~raced => Unraced)

\* At the start nobody writes, and the ledgers are empty.
LEMMA InitOnce == Init => OnceInv
<1> SUFFICES ASSUME Init PROVE OnceInv OBVIOUS
<1>1. IInv BY InitIInv
<1>2. /\ \A u \in User : call[u].pc = "idle"
      /\ gossip = NoGossip /\ gossip.pc = "idle" /\ \A w, p : ~Holds(gossip.msg, w, p)
      /\ \A r \in Replica : ledger[r] = <<>>
  BY NothingYet, NoGossipHolds DEF Init
<1>3. \A u \in User : ~Owes(u) BY <1>2 DEF Owes
<1>4. \A r \in Replica : DOMAIN ledger[r] = {}
  <2>1. DOMAIN <<>> = {} OBVIOUS
  <2> QED BY <1>2, <2>1
<1>5. \A w, p : ~Known(w, p) BY <1>2, <1>4 DEF Known, Holds
<1>6. OwnInv
  <2>1. \A r \in Replica : mapTS[r][r] = written[r]
    BY ReplicaAssumption DEF Init, ZeroTS
  <2> QED BY <1>2, <2>1 DEF OwnInv, Counted, Ahead
<1>7. WritesInv
  <2>1. SingleInv BY <1>4 DEF SingleInv, OnceEach
  <2>2. KnownInv BY <1>2, <1>3, <1>5 DEF KnownInv
  <2>3. OwedInv BY <1>2, <1>3 DEF OwedInv
  <2>4. FoundInv BY <1>2 DEF FoundInv, AtIts
  <2> QED BY <2>1, <2>2, <2>3, <2>4 DEF WritesInv
<1>8. LateInv BY <1>2, <1>4, NothingYet DEF LateInv, LateMessage, Later
<1>9. ExecutedInv
  <2>1. executed = [r \in Replica |-> [w \in Write |-> 0]] BY DEF Init
  <2>2. /\ executed \in [Replica -> [Write -> {0, 1}]]
        /\ \A r \in Replica : \A w \in Write : executed[r][w] # 1
    BY <2>1
  <2> QED BY <1>2, <1>3, <2>2 DEF ExecutedInv, AtNew, AtIts
<1> QED BY <1>1, <1>6, <1>7, <1>8, <1>9 DEF OnceInv, Unraced

\* However its handlers overlap, no replica executes an operation twice, for any users and requests,
\* and however often and from wherever it is gossiped, as long as no handler has counted a write
\* from a stale clock or stamped, or taken for its own, an operation of another.
THEOREM Once == Spec => []ExecutedOnce
<1>1. OnceInv /\ [Next]_vars => OnceInv'
  <2> SUFFICES ASSUME OnceInv, [Next]_vars PROVE OnceInv' OBVIOUS
  <2>1. IInv /\ IInv' BY NextIInv DEF OnceInv
  <2>2. ASSUME ~raced' PROVE Unraced'
    <3>1. OwnInv /\ WritesInv /\ LateInv /\ ExecutedInv BY <2>2, RacedBefore DEF OnceInv, Unraced
    <3>2. OwnInv' BY <2>1, <2>2, <3>1, NextOwn
    <3>3. WritesInv' BY <2>1, <2>2, <3>1, NextWrites
    <3>4. LateInv' BY <2>1, <2>2, <3>1, NextLate
    <3>5. ExecutedInv' BY <2>1, <2>2, <3>1, NextExecuted
    <3> QED BY <3>2, <3>3, <3>4, <3>5 DEF Unraced
  <2>3. ~raced' => Unraced' BY <2>2
  <2> QED BY <2>1, <2>3 DEF OnceInv
<1>2. OnceInv => ExecutedOnce
  <2> SUFFICES ASSUME OnceInv, ~raced, NEW r \in Replica, NEW w \in Write PROVE executed[r][w] <= 1
    BY DEF ExecutedOnce
  <2>1. executed[r][w] \in {0, 1} BY DEF OnceInv, Unraced, ExecutedInv
  <2> QED BY <2>1
<1> QED BY <1>1, <1>2, InitOnce, PTL DEF Spec
=============================================================================
