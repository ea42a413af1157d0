----------------------- MODULE TransactionManagerProofs -----------------------
(***************************************************************************)
(* For any number of TMs, clients, keys, resubmissions and decisions: the  *)
(* variables keep their types, a transaction reported as committed was     *)
(* applied at every TM that was not suspected, and no queue loses its last *)
(* TM.                                                                     *)
(*                                                                         *)
(* That a submission was applied everywhere is known only when it ends;    *)
(* CommitInv says how far it has got in every place of TransactionSubAux.  *)
(***************************************************************************)
EXTENDS TransactionManager, SequenceTheorems, WellFoundedInduction, TLAPS

SubRecord == [pc : InService \cup {"none", "queued", "done"}, tm : TM, requested : BOOLEAN,
              peer : 0..N, acks : Nat, values : [Key -> SUBSET Client], outcome : Outcome]

IsTable(T) == DOMAIN T \subseteq Key /\ \A k \in DOMAIN T : T[k] \in Seq(TM)

\* What is left of a decision that is being entered.
AssignInv ==
  /\ DOMAIN assigning = TM
  /\ \A t \in TM : /\ assigning[t] = [todo |-> assigning[t].todo, table |-> assigning[t].table]
                   /\ \A k \in assigning[t].todo : k \in Key /\ assigning[t].table[k] \in Seq(TM)

SlotInv == currentTimeslot \in [TM -> Slot] /\ hung \in [TM -> BOOLEAN]

LeaseInv == DOMAIN leasesTable = TM /\ \A t \in TM : IsTable(leasesTable[t])

CopyInv == dadInts \in [TM -> [Key -> SUBSET Client]] /\ applied \in [Sub -> SUBSET TM]

ClientInv == client \in [Client -> [tries : 0..MaxTries,
                                   status : {"idle", "waiting", "gaveup"} \cup Outcome]]

SubInv == sub \in [Sub -> SubRecord]

TypeInv == SlotInv /\ LeaseInv /\ CopyInv /\ ClientInv /\ SubInv /\ AssignInv

Writes(s) == Tx[s[1]].writes # {}

\* How far submission s has got: before the propagation no peer was passed over, in it every
\* trusted one up to the last was called with success, and after it all were.
CommitAt(s) ==
  LET r == sub[s] IN
    /\ r.pc \in {"queued", "check", "request"} => r.peer = 0
    /\ r.pc = "propagate" =>
         \A q \in Trusted(r.tm) : q # r.tm /\ q <= r.peer => q \in applied[s]
    /\ r.pc \in {"read", "write", "release"} /\ Writes(s) =>
         \A q \in Trusted(r.tm) : q # r.tm => q \in applied[s]
    /\ r.pc = "release" => r.tm \in applied[s]
    /\ r.outcome = "acked" /\ Writes(s) => Trusted(r.tm) \subseteq applied[s]

CommitInv == \A s \in Sub : CommitAt(s)

IInv == TypeInv /\ CommitInv

\* A queue of T that has an owner has one in U.
KeepsOwners(T, U) == \A k \in DOMAIN T : T[k] # <<>> => k \in DOMAIN U /\ U[k] # <<>>

AllKeepOwners == \A t \in TM : KeepsOwners(leasesTable[t], leasesTable'[t])

-----------------------------------------------------------------------------
(* The operators of the model. *)

\* A set of natural numbers that is not empty has a least one.
LEMMA LeastNumber ==
  ASSUME NEW S \in SUBSET Nat, S # {}
  PROVE  \E x \in S : \A y \in S : x <= y
<1> DEFINE R == OpToRel(<, Nat)
<1>1. IsWellFoundedOn(R, Nat) BY NatLessThanWellFounded
<1>2. \A x, y \in Nat : x < y => <<x, y>> \in R BY Zenon DEF OpToRel
<1> HIDE DEF R
<1>3. PICK x \in S : \A y \in S : ~(<<y, x>> \in R) BY <1>1, WFMin
<1>4. \A y \in S : x \in Nat /\ y \in Nat /\ ~(y < x) BY <1>2, <1>3, Zenon
<1>5. \A y \in S : x <= y BY <1>4
<1> QED BY <1>5

\* The place where the check of the leases stops is one of the transaction's keys.
LEMMA FirstMissingPlace ==
  ASSUME NEW t \in TM, NEW c \in Client, FirstMissing(t, c) # 0
  PROVE  Tx[c].keys[FirstMissing(t, c)] \in Key
<1> DEFINE keys == Tx[c].keys
           bad == {i \in 1..Len(keys) : \/ keys[i] \notin DOMAIN leasesTable[t]
                                        \/ Queue(t, keys[i]) = <<>>
                                        \/ Head(Queue(t, keys[i])) # t}
<1>1. keys \in Seq(Key) BY TxAssumption
<1>2. FirstMissing(t, c) = IF bad = {} THEN 0 ELSE CHOOSE i \in bad : \A j \in bad : i <= j
  BY DEF FirstMissing
<1>3. bad # {} BY <1>2
<1>4. bad \subseteq 1..Len(keys) OBVIOUS
<1> HIDE DEF bad
<1>5. \E i \in bad : \A j \in bad : i <= j
  <2>1. bad \in SUBSET Nat BY <1>1, <1>4
  <2> QED BY <2>1, <1>3, LeastNumber
<1>6. FirstMissing(t, c) \in bad BY <1>2, <1>3, <1>5
<1>7. FirstMissing(t, c) \in 1..Len(keys) BY <1>4, <1>6
<1> HIDE DEF keys
<1>8. keys[FirstMissing(t, c)] \in Key BY <1>1, <1>7
<1> QED BY <1>8 DEF keys

\* The next peer is the first one after p that is neither t nor suspected, 0 when there is none.
LEMMA NextPeerIsNext ==
  ASSUME NEW t \in TM, NEW p \in 0..N, currentTimeslot[t] \in Slot,
         NEW x \in Trusted(t), x # t, p < x
  PROVE  NextPeer(t, p) # 0 /\ NextPeer(t, p) <= x
<1> DEFINE rest == {q \in (p + 1)..N : q # t /\ q \notin Suspects[t][currentTimeslot[t]]}
<1>1. NextPeer(t, p) = IF rest = {} THEN 0 ELSE CHOOSE q \in rest : \A q2 \in rest : q <= q2
  BY DEF NextPeer
<1>2. N \in Nat BY SizeAssumption
<1>3. x \in 1..N /\ x \notin Suspects[t][currentTimeslot[t]] BY DEF Trusted, TM
<1>4. x \in rest BY <1>2, <1>3
<1>5. rest \subseteq 1..N BY <1>2
<1> HIDE DEF rest
<1>6. \E q \in rest : \A q2 \in rest : q <= q2
  <2>1. rest \in SUBSET Nat BY <1>2, <1>5
  <2> QED BY <2>1, <1>4, LeastNumber
<1>7. NextPeer(t, p) \in rest /\ \A q2 \in rest : NextPeer(t, p) <= q2 BY <1>1, <1>4, <1>6
<1> QED BY <1>2, <1>4, <1>5, <1>7

\* A queue entered for one key leaves the others alone.
LEMMA PutTable ==
  ASSUME NEW T, IsTable(T), NEW k \in Key, NEW v \in Seq(TM)
  PROVE  /\ IsTable(Put(T, k, v))
         /\ (k \in DOMAIN T /\ T[k] # <<>> => v # <<>>) => KeepsOwners(T, Put(T, k, v))
BY DEF IsTable, Put, KeepsOwners

\* A release takes the head of queues where somebody waits behind it.
LEMMA ReleaseTable ==
  ASSUME NEW T, IsTable(T), NEW ks
  PROVE  IsTable(Release(T, ks)) /\ KeepsOwners(T, Release(T, ks))
<1>1. \A k \in DOMAIN T : Len(T[k]) > 1 => Tail(T[k]) \in Seq(TM) /\ Tail(T[k]) # <<>>
  <2> SUFFICES ASSUME NEW k \in DOMAIN T, Len(T[k]) > 1
               PROVE  Tail(T[k]) \in Seq(TM) /\ Tail(T[k]) # <<>>
    OBVIOUS
  <2> DEFINE q == T[k]
  <2>1. q \in Seq(TM) /\ Len(q) > 1 BY DEF IsTable
  <2> HIDE DEF q
  <2>2. q # <<>>
    <3>1. Len(<<>>) = 0 /\ ~(0 > 1) BY EmptySeq
    <3> QED BY <2>1, <3>1, Zenon
  <2>3. Tail(q) \in Seq(TM) /\ Len(Tail(q)) = Len(q) - 1 BY <2>1, <2>2, HeadTailProperties
  <2>4. Tail(q) # <<>>
    <3>1. Len(Tail(q)) # 0
      <4>1. Len(q) \in Nat BY <2>1, LenProperties
      <4>2. \A n \in Nat : n > 1 => n - 1 # 0 OBVIOUS
      <4> QED BY <2>1, <2>3, <4>1, <4>2, Zenon
    <3>2. Len(<<>>) = 0 BY EmptySeq
    <3> QED BY <3>1, <3>2, Zenon
  <2> QED BY <2>3, <2>4 DEF q
<1> QED BY <1>1 DEF IsTable, Release, KeepsOwners

\* The writes of a transaction give a copy of the keys again.
LEMMA WriteAllCopy ==
  ASSUME NEW D \in [Key -> SUBSET Client], NEW c \in Client
  PROVE  WriteAll(D, c) \in [Key -> SUBSET Client]
BY DEF WriteAll
-----------------------------------------------------------------------------
(* What the parts of a step keep. *)

\* A step that puts tables in place of tables keeps the types of all of them.
LEMMA TableChange ==
  ASSUME LeaseInv, NEW t \in TM, NEW T, IsTable(T), KeepsOwners(leasesTable[t], T),
         leasesTable' = [leasesTable EXCEPT ![t] = T]
  PROVE  LeaseInv' /\ AllKeepOwners
BY DEF LeaseInv, AllKeepOwners, KeepsOwners

\* And so does one that leaves the tables alone.
LEMMA SameTables ==
  ASSUME LeaseInv, UNCHANGED leasesTable
  PROVE  LeaseInv' /\ AllKeepOwners
BY DEF LeaseInv, AllKeepOwners, KeepsOwners

\* A step of one submission, after which it has got as far as it should.
LEMMA CommitChange ==
  ASSUME CommitInv, NEW s \in Sub, CommitAt(s)',
         \A r \in Sub : /\ r # s => sub'[r] = sub[r]
                        /\ applied[r] \subseteq applied'[r]
  PROVE  CommitInv'
<1> SUFFICES ASSUME NEW r \in Sub, r # s PROVE CommitAt(r)' BY DEF CommitInv
<1>1. CommitAt(r) /\ sub'[r] = sub[r] /\ applied[r] \subseteq applied'[r] BY DEF CommitInv
<1> QED BY <1>1 DEF CommitAt

\* A submission ends, and what its client is told is one of the outcomes.
LEMMA EndTypes ==
  ASSUME TypeInv, NEW s \in Sub, NEW o \in Outcome, End(s, o)
  PROVE  /\ SubInv'
         /\ \A r \in Sub : r # s => sub'[r] = sub[r]
         /\ sub'[s] = [sub[s] EXCEPT !.pc = "done", !.outcome = o]
         /\ ClientInv'
<1>1. sub \in [Sub -> SubRecord] BY DEF TypeInv, SubInv
<1>2. sub' = [sub EXCEPT ![s].pc = "done", ![s].outcome = o] BY DEF End
<1>3. s[1] \in Client BY DEF Sub
<1>4. sub' \in [Sub -> SubRecord] BY <1>1, <1>2 DEF SubRecord
<1>5. sub'[s] = [sub[s] EXCEPT !.pc = "done", !.outcome = o] BY <1>1, <1>2 DEF SubRecord
<1>6. \A r \in Sub : r # s => sub'[r] = sub[r] BY <1>1, <1>2
<1>7. ClientInv'
  <2>1. \/ client' = [client EXCEPT ![s[1]].status = o]
        \/ client' = client
    BY DEF End
  <2> QED BY <1>3, <2>1 DEF TypeInv, ClientInv
<1> QED BY <1>4, <1>5, <1>6, <1>7 DEF SubInv

\* A submission goes on to its next place.
LEMMA GoToTypes ==
  ASSUME TypeInv, NEW s \in Sub, NEW pc \in InService, GoTo(s, pc)
  PROVE  /\ SubInv'
         /\ \A r \in Sub : r # s => sub'[r] = sub[r]
         /\ sub'[s] = [sub[s] EXCEPT !.pc = pc]
         /\ ClientInv'
<1>1. sub \in [Sub -> SubRecord] BY DEF TypeInv, SubInv
<1>2. sub' = [sub EXCEPT ![s].pc = pc] /\ UNCHANGED client BY DEF GoTo
<1> QED BY <1>1, <1>2 DEF SubInv, SubRecord, TypeInv, ClientInv

\* A submission that ends without success has claimed nothing.
LEMMA EndCommits ==
  ASSUME TypeInv, CommitInv, NEW s \in Sub, NEW o \in {"aborted", "failed"}, End(s, o),
         \A r \in Sub : applied[r] \subseteq applied'[r]
  PROVE  CommitInv'
<1>1. o \in Outcome BY DEF Outcome
<1>2. sub[s] \in SubRecord BY DEF TypeInv, SubInv
<1>3. sub'[s] = [sub[s] EXCEPT !.pc = "done", !.outcome = o] /\ \A r \in Sub : r # s => sub'[r] = sub[r]
  BY <1>1, EndTypes
<1>4. sub'[s].pc = "done" /\ sub'[s].outcome = o BY <1>2, <1>3 DEF SubRecord
<1>5. CommitAt(s)' BY <1>4 DEF CommitAt
<1> QED BY <1>3, <1>5, CommitChange

-----------------------------------------------------------------------------
(* One lemma for each action. *)

\* A submission that was not made yet is one, too.
LEMMA NoSubRecord == NoSub \in SubRecord
<1>1. 1 \in TM /\ 0 \in 0..N BY SizeAssumption DEF TM
<1> QED BY <1>1 DEF NoSub, SubRecord, Outcome

\* Nothing is known and nothing has happened at the start.
LEMMA InitIInv == Init => IInv
<1> SUFFICES ASSUME Init PROVE IInv OBVIOUS
<1>2. SubInv BY NoSubRecord DEF Init, SubInv
<1>3. SlotInv /\ CopyInv BY SlotAssumption DEF Init, SlotInv, CopyInv
<1>4. LeaseInv BY DEF Init, LeaseInv, IsTable
<1>5. AssignInv BY DEF Init, AssignInv, NoDecision
<1>6. ClientInv BY SizeAssumption DEF Init, ClientInv
<1>7. CommitInv BY DEF Init, CommitInv, CommitAt, NoSub
<1> QED BY <1>2, <1>3, <1>4, <1>5, <1>6, <1>7 DEF IInv, TypeInv

\* A submission starts anew, or its client gives up.
LEMMA SubmitStep ==
  ASSUME IInv, NEW c \in Client, NEW t \in TM, Submit(c, t)
  PROVE  IInv' /\ AllKeepOwners
<1>0. PICK n \in 1..MaxTries : n = client[c].tries + 1
  BY SizeAssumption DEF Submit, IInv, TypeInv, ClientInv
<1> DEFINE s == <<c, n>>
<1>1. n \in 1..MaxTries /\ s \in Sub BY DEF Sub
<1>2. UNCHANGED <<currentTimeslot, leasesTable, dadInts, hung, assigning, applied>> BY DEF Submit
<1>3. SlotInv' /\ LeaseInv' /\ CopyInv' /\ AssignInv' /\ AllKeepOwners
  BY <1>2, SameTables DEF IInv, TypeInv, SlotInv, CopyInv, AssignInv
<1>4. ClientInv'
  <2>1. \/ client' = [client EXCEPT ![c] = [tries |-> n, status |-> "gaveup"]]
        \/ client' = [client EXCEPT ![c] = [tries |-> n, status |-> "waiting"]]
    BY <1>0 DEF Submit
  <2>2. n \in 0..MaxTries BY <1>1
  <2> QED BY <2>1, <2>2 DEF IInv, TypeInv, ClientInv
<1>5. CASE hung[t]
  <2>1. UNCHANGED sub BY <1>5 DEF Submit
  <2>2. SubInv' BY <2>1 DEF IInv, TypeInv, SubInv
  <2>3. CommitInv' BY <1>2, <2>1 DEF IInv, CommitInv, CommitAt
  <2> QED BY <1>3, <1>4, <2>2, <2>3 DEF IInv, TypeInv
<1>6. CASE ~hung[t]
  <2> DEFINE new == [NoSub EXCEPT !.pc = "queued", !.tm = t]
  <2>1. sub' = [sub EXCEPT ![s] = new] BY <1>0, <1>6 DEF Submit
  <2>2. new \in SubRecord /\ new.pc = "queued" /\ new.peer = 0 /\ new.outcome = "none"
    BY NoSubRecord DEF NoSub, SubRecord
  <2> HIDE DEF new, s
  <2>3. SubInv' /\ sub'[s] = new /\ \A r \in Sub : r # s => sub'[r] = sub[r]
    BY <1>1, <2>1, <2>2 DEF IInv, TypeInv, SubInv
  <2>4. CommitAt(s)' BY <2>2, <2>3 DEF CommitAt
  <2>5. \A r \in Sub : applied[r] \subseteq applied'[r] BY <1>2
  <2>6. CommitInv' BY <1>1, <2>3, <2>4, <2>5, CommitChange DEF IInv
  <2> QED BY <1>3, <1>4, <2>3, <2>6 DEF IInv, TypeInv
<1> QED BY <1>5, <1>6 DEF IInv, TypeInv, SlotInv

\* Before the propagation a submission has claimed nothing, and one without writes never does.
LEMMA MovesOn ==
  ASSUME TypeInv, CommitInv, NEW s \in Sub, sub[s].pc \in {"queued", "check", "request"},
         NEW pc \in {"check", "request", "propagate", "read"}, pc = "read" => ~Writes(s),
         GoTo(s, pc), UNCHANGED applied
  PROVE  SubInv' /\ ClientInv' /\ CommitInv'
<1>1. /\ SubInv' /\ ClientInv' /\ \A r \in Sub : r # s => sub'[r] = sub[r]
      /\ sub'[s] = [sub[s] EXCEPT !.pc = pc]
  BY GoToTypes DEF InService
<1>2. sub[s] \in SubRecord BY DEF TypeInv, SubInv
<1>3. sub'[s].pc = pc /\ sub'[s].peer = sub[s].peer /\ sub'[s].tm = sub[s].tm
      /\ sub'[s].outcome = sub[s].outcome
  BY <1>1, <1>2 DEF SubRecord
<1>4. sub[s].peer = 0 BY DEF CommitInv, CommitAt
<1>5. \A q \in Trusted(sub[s].tm) : ~(q <= 0) BY DEF Trusted, TM
<1>6. CommitAt(s)' BY <1>3, <1>4, <1>5 DEF CommitInv, CommitAt
<1> QED BY <1>1, <1>6, CommitChange

\* The lock of the service is taken.
LEMMA BeginStep ==
  ASSUME IInv, NEW s \in Sub, Begin(s)
  PROVE  IInv' /\ AllKeepOwners
<1>1. UNCHANGED <<currentTimeslot, leasesTable, dadInts, hung, assigning, applied>> BY DEF Begin
<1>2. SlotInv' /\ LeaseInv' /\ CopyInv' /\ AssignInv' /\ AllKeepOwners
  BY <1>1, SameTables DEF IInv, TypeInv, SlotInv, CopyInv, AssignInv
<1>3. SubInv' /\ ClientInv' /\ CommitInv'
  <2>1. sub[s].pc = "queued" /\ GoTo(s, "check") BY DEF Begin
  <2> QED BY <1>1, <2>1, MovesOn DEF IInv
<1> QED BY <1>2, <1>3 DEF IInv, TypeInv

\* A turn of the loop on the leases.
LEMMA CheckLeasesStep ==
  ASSUME IInv, NEW s \in Sub, CheckLeases(s)
  PROVE  IInv' /\ AllKeepOwners
<1>1. UNCHANGED <<currentTimeslot, dadInts, hung, assigning, applied>> BY DEF CheckLeases
<1>2. SlotInv' /\ CopyInv' /\ AssignInv'
  BY <1>1 DEF IInv, TypeInv, SlotInv, CopyInv, AssignInv
<1>3. sub[s].pc = "check" /\ sub[s] \in SubRecord BY DEF CheckLeases, IInv, TypeInv, SubInv
<1>4. ASSUME NEW pc \in {"propagate", "read", "check", "request"}, GoTo(s, pc),
             pc = "read" => ~Writes(s)
      PROVE  SubInv' /\ ClientInv' /\ CommitInv'
  BY <1>1, <1>3, <1>4, MovesOn DEF IInv
<1>5. SubInv' /\ ClientInv' /\ CommitInv'
  <2>1. CASE \E pc \in {"propagate", "read", "check", "request"} :
               GoTo(s, pc) /\ (pc = "read" => ~Writes(s))
    BY <1>4, <2>1
  <2>2. CASE End(s, "failed")
    <3>1. \A r \in Sub : applied[r] \subseteq applied'[r] BY <1>1
    <3> QED BY <2>2, <3>1, EndTypes, EndCommits DEF IInv, Outcome
  <2> QED BY <2>1, <2>2 DEF CheckLeases, Writes
<1>6. LeaseInv' /\ AllKeepOwners
  <2> DEFINE t == sub[s].tm
             k == Tx[s[1]].keys[FirstMissing(t, s[1])]
  <2>1. \/ UNCHANGED leasesTable
        \/ /\ FirstMissing(t, s[1]) # 0 /\ k \notin DOMAIN leasesTable[t]
           /\ leasesTable' = [leasesTable EXCEPT ![t] = Put(@, k, <<t>>)]
    BY DEF CheckLeases
  <2>2. t \in TM /\ s[1] \in Client BY <1>3 DEF SubRecord, Sub
  <2>3. FirstMissing(t, s[1]) # 0 => k \in Key BY <2>2, FirstMissingPlace
  <2>4. CASE UNCHANGED leasesTable BY <2>4, SameTables DEF IInv, TypeInv
  <2>5. CASE ~UNCHANGED leasesTable
    <3> HIDE DEF k
    <3>1. IsTable(leasesTable[t]) /\ <<t>> \in Seq(TM) BY <2>2 DEF IInv, TypeInv, LeaseInv
    <3>2. /\ IsTable(Put(leasesTable[t], k, <<t>>))
          /\ KeepsOwners(leasesTable[t], Put(leasesTable[t], k, <<t>>))
      BY <2>1, <2>3, <2>5, <3>1, PutTable
    <3>3. leasesTable' = [leasesTable EXCEPT ![t] = Put(leasesTable[t], k, <<t>>)]
      BY <2>1, <2>2, <2>5 DEF IInv, TypeInv, LeaseInv
    <3> HIDE DEF t
    <3> QED BY <2>2, <3>2, <3>3, TableChange DEF IInv, TypeInv
  <2> QED BY <2>4, <2>5
<1> QED BY <1>2, <1>5, <1>6 DEF IInv, TypeInv

\* The request for the leases, answered, refused or broken.
LEMMA RequestLeasesStep ==
  ASSUME IInv, NEW s \in Sub, RequestLeases(s)
  PROVE  IInv' /\ AllKeepOwners
<1>1. UNCHANGED <<currentTimeslot, leasesTable, dadInts, hung, assigning, applied>>
  BY DEF RequestLeases
<1>2. SlotInv' /\ LeaseInv' /\ CopyInv' /\ AssignInv' /\ AllKeepOwners
  BY <1>1, SameTables DEF IInv, TypeInv, SlotInv, CopyInv, AssignInv
<1>3. sub[s].pc = "request" /\ sub[s] \in SubRecord BY DEF RequestLeases, IInv, TypeInv, SubInv
<1>4. \A r \in Sub : applied[r] \subseteq applied'[r] BY <1>1
<1>5. CASE sub' = [sub EXCEPT ![s].pc = "check", ![s].requested = TRUE] /\ UNCHANGED client
  <2>1. /\ SubInv' /\ \A r \in Sub : r # s => sub'[r] = sub[r]
        /\ sub'[s] = [sub[s] EXCEPT !.pc = "check", !.requested = TRUE]
    BY <1>3, <1>5 DEF IInv, TypeInv, SubInv, SubRecord, InService
  <2>2. sub'[s].pc = "check" /\ sub'[s].peer = sub[s].peer /\ sub'[s].tm = sub[s].tm
        /\ sub'[s].outcome = sub[s].outcome
    BY <1>3, <2>1 DEF SubRecord
  <2>3. CommitAt(s)' BY <1>1, <1>3, <2>2 DEF IInv, CommitInv, CommitAt
  <2>4. CommitInv' BY <1>4, <2>1, <2>3, CommitChange DEF IInv
  <2>5. ClientInv' BY <1>5 DEF IInv, TypeInv, ClientInv
  <2> QED BY <1>2, <2>1, <2>4, <2>5 DEF IInv, TypeInv
<1>6. CASE End(s, "aborted")
  <2>1. SubInv' /\ ClientInv' /\ CommitInv' BY <1>4, <1>6, EndTypes, EndCommits DEF IInv, Outcome
  <2> QED BY <1>2, <2>1 DEF IInv, TypeInv
<1>7. CASE End(s, "failed")
  <2>1. SubInv' /\ ClientInv' /\ CommitInv' BY <1>4, <1>7, EndTypes, EndCommits DEF IInv, Outcome
  <2> QED BY <1>2, <2>1 DEF IInv, TypeInv
<1> QED BY <1>5, <1>6, <1>7 DEF RequestLeases

\* A peer applies the writes and releases their leases.
LEMMA Applied ==
  ASSUME TypeInv, NEW s \in Sub, NEW q \in TM, ApplyAt(s, q)
  PROVE  /\ LeaseInv' /\ CopyInv' /\ AllKeepOwners
         /\ q \in applied'[s] /\ \A r \in Sub : applied[r] \subseteq applied'[r]
<1>1. s[1] \in Client BY DEF Sub
<1>2. LeaseInv' /\ AllKeepOwners
  <2> DEFINE T == leasesTable[q]
             U == Release(T, Tx[s[1]].writes)
  <2>1. IsTable(T) BY DEF TypeInv, LeaseInv
  <2>2. IsTable(U) /\ KeepsOwners(T, U) BY <2>1, ReleaseTable
  <2>3. leasesTable' = [leasesTable EXCEPT ![q] = U] BY DEF ApplyAt, TypeInv, LeaseInv
  <2> HIDE DEF U
  <2> QED BY <2>2, <2>3, TableChange DEF TypeInv
<1>3. WriteAll(dadInts[q], s[1]) \in [Key -> SUBSET Client]
  BY <1>1, WriteAllCopy DEF TypeInv, CopyInv
<1>4. dadInts' \in [TM -> [Key -> SUBSET Client]] BY <1>3 DEF ApplyAt, TypeInv, CopyInv
<1>5. /\ applied' \in [Sub -> SUBSET TM] /\ q \in applied'[s]
      /\ \A r \in Sub : applied[r] \subseteq applied'[r]
  BY DEF ApplyAt, TypeInv, CopyInv
<1> QED BY <1>2, <1>4, <1>5 DEF CopyInv

\* A peer was called with success: every trusted one before it was, too.
LEMMA PropagateToStep ==
  ASSUME IInv, NEW s \in Sub, NEW q \in TM, PropagateTo(s, q)
  PROVE  IInv' /\ AllKeepOwners
<1>1. UNCHANGED <<currentTimeslot, hung, assigning, client>> /\ ApplyAt(s, q) BY DEF PropagateTo
<1>2. SlotInv' /\ AssignInv' /\ ClientInv'
  BY <1>1 DEF IInv, TypeInv, SlotInv, AssignInv, ClientInv
<1>3. /\ LeaseInv' /\ CopyInv' /\ AllKeepOwners
      /\ q \in applied'[s] /\ \A r \in Sub : applied[r] \subseteq applied'[r]
  BY <1>1, Applied DEF IInv
<1>4. sub[s] \in SubRecord /\ sub[s].pc = "propagate" /\ q \in 0..N /\ sub[s].acks + 1 \in Nat
  <2>1. sub[s] \in SubRecord BY DEF IInv, TypeInv, SubInv
  <2> QED BY <2>1, SizeAssumption DEF PropagateTo, TM, SubRecord
<1>5. /\ SubInv' /\ \A r \in Sub : r # s => sub'[r] = sub[r]
      /\ sub'[s] = [sub[s] EXCEPT !.peer = q, !.acks = @ + 1]
  <2>1. sub' = [sub EXCEPT ![s] = [sub[s] EXCEPT !.peer = q, !.acks = @ + 1]]
    BY DEF PropagateTo, IInv, TypeInv, SubInv
  <2>2. [sub[s] EXCEPT !.peer = q, !.acks = @ + 1] \in SubRecord BY <1>4 DEF SubRecord
  <2> QED BY <2>1, <2>2 DEF IInv, TypeInv, SubInv
<1>6. sub'[s].pc = "propagate" /\ sub'[s].peer = q /\ sub'[s].tm = sub[s].tm
      /\ sub'[s].outcome = sub[s].outcome
  BY <1>4, <1>5 DEF SubRecord
<1>7. \A x \in Trusted(sub[s].tm) : x # sub[s].tm /\ x <= q => x \in applied'[s]
  <2> SUFFICES ASSUME NEW x \in Trusted(sub[s].tm), x # sub[s].tm, x <= q
               PROVE  x \in applied'[s]
    OBVIOUS
  <2>1. x \in 1..N /\ q \in 1..N /\ N \in Nat BY SizeAssumption DEF Trusted, TM
  <2>2. sub[s].tm \in TM /\ sub[s].peer \in 0..N BY <1>4 DEF SubRecord
  <2>3. currentTimeslot[sub[s].tm] \in Slot BY <2>2 DEF IInv, TypeInv, SlotInv
  <2>4. CASE x <= sub[s].peer BY <1>3, <1>4, <2>4 DEF IInv, CommitInv, CommitAt
  <2>5. CASE sub[s].peer < x
    <3>1. q = NextPeer(sub[s].tm, sub[s].peer) BY DEF PropagateTo
    <3>2. q <= x BY <2>2, <2>3, <2>5, <3>1, NextPeerIsNext
    <3>3. q = x BY <2>1, <3>2
    <3> QED BY <1>3, <3>3
  <2> QED BY <2>1, <2>2, <2>4, <2>5
<1>8. CommitAt(s)' BY <1>3, <1>4, <1>6, <1>7 DEF IInv, CommitInv, CommitAt
<1>9. CommitInv' BY <1>3, <1>5, <1>8, CommitChange DEF IInv
<1> QED BY <1>2, <1>3, <1>5, <1>9 DEF IInv, TypeInv

\* A call fails, and the submission with it.
LEMMA PropagationFailsStep ==
  ASSUME IInv, NEW s \in Sub, NEW q \in TM, PropagationFails(s, q)
  PROVE  IInv' /\ AllKeepOwners
<1>1. UNCHANGED <<currentTimeslot, hung, assigning>> /\ End(s, "failed") BY DEF PropagationFails
<1>2. SlotInv' /\ AssignInv' BY <1>1 DEF IInv, TypeInv, SlotInv, AssignInv
<1>3. LeaseInv' /\ CopyInv' /\ AllKeepOwners /\ \A r \in Sub : applied[r] \subseteq applied'[r]
  <2>1. CASE ApplyAt(s, q) BY <2>1, Applied DEF IInv
  <2>2. CASE UNCHANGED <<dadInts, leasesTable, applied>>
    BY <2>2, SameTables DEF IInv, TypeInv, CopyInv
  <2> QED BY <2>1, <2>2 DEF PropagationFails
<1>4. SubInv' /\ ClientInv' /\ CommitInv' BY <1>1, <1>3, EndTypes, EndCommits DEF IInv, Outcome
<1> QED BY <1>2, <1>3, <1>4 DEF IInv, TypeInv

\* A submission goes on after a place where it holds the lock of the state.
LEMMA GoesOn ==
  ASSUME TypeInv, NEW s \in Sub, NEW pc \in InService, GoTo(s, pc)
  PROVE  /\ SubInv' /\ ClientInv' /\ sub[s] \in SubRecord
         /\ \A r \in Sub : r # s => sub'[r] = sub[r]
         /\ sub'[s].pc = pc /\ sub'[s].tm = sub[s].tm /\ sub'[s].outcome = sub[s].outcome
<1>1. sub[s] \in SubRecord BY DEF TypeInv, SubInv
<1>2. /\ SubInv' /\ ClientInv' /\ \A r \in Sub : r # s => sub'[r] = sub[r]
      /\ sub'[s] = [sub[s] EXCEPT !.pc = pc]
  BY GoToTypes
<1> QED BY <1>1, <1>2 DEF SubRecord

\* No peer is left: all the trusted ones were called, or the submission aborts.
LEMMA CountRepliesStep ==
  ASSUME IInv, NEW s \in Sub, CountReplies(s)
  PROVE  IInv' /\ AllKeepOwners
<1>1. UNCHANGED <<currentTimeslot, leasesTable, dadInts, hung, assigning, applied>>
  BY DEF CountReplies
<1>2. SlotInv' /\ LeaseInv' /\ CopyInv' /\ AssignInv' /\ AllKeepOwners
  BY <1>1, SameTables DEF IInv, TypeInv, SlotInv, CopyInv, AssignInv
<1>3. \A r \in Sub : applied[r] \subseteq applied'[r] BY <1>1
<1>4. CASE End(s, "aborted")
  <2>1. SubInv' /\ ClientInv' /\ CommitInv' BY <1>3, <1>4, EndTypes, EndCommits DEF IInv, Outcome
  <2> QED BY <1>2, <2>1 DEF IInv, TypeInv
<1>5. CASE GoTo(s, "read")
  <2>1. /\ SubInv' /\ ClientInv' /\ sub[s] \in SubRecord
        /\ \A r \in Sub : r # s => sub'[r] = sub[r]
        /\ sub'[s].pc = "read" /\ sub'[s].tm = sub[s].tm /\ sub'[s].outcome = sub[s].outcome
    BY <1>5, GoesOn DEF IInv, InService
  <2>2. \A x \in Trusted(sub[s].tm) : x # sub[s].tm => x <= sub[s].peer
    <3> SUFFICES ASSUME NEW x \in Trusted(sub[s].tm), x # sub[s].tm, sub[s].peer < x PROVE FALSE
      <4>1. sub[s].peer \in 0..N BY <2>1 DEF SubRecord
      <4>2. \A x \in Trusted(sub[s].tm) : x \in 1..N BY DEF Trusted, TM
      <4>3. N \in Nat BY SizeAssumption
      <4> QED BY <4>1, <4>2, <4>3
    <3>1. sub[s].tm \in TM /\ sub[s].peer \in 0..N BY <2>1 DEF SubRecord
    <3>2. currentTimeslot[sub[s].tm] \in Slot BY <3>1 DEF IInv, TypeInv, SlotInv
    <3>3. NextPeer(sub[s].tm, sub[s].peer) = 0 BY DEF CountReplies
    <3> QED BY <3>1, <3>2, <3>3, NextPeerIsNext
  <2>3. sub[s].pc = "propagate" BY DEF CountReplies
  <2>4. CommitAt(s)' BY <1>1, <2>1, <2>2, <2>3 DEF IInv, CommitInv, CommitAt
  <2>5. CommitInv' BY <1>3, <2>1, <2>4, CommitChange DEF IInv
  <2> QED BY <1>2, <2>1, <2>5 DEF IInv, TypeInv
<1> QED BY <1>4, <1>5 DEF CountReplies

\* The reads.
LEMMA ReadStepStep ==
  ASSUME IInv, NEW s \in Sub, ReadStep(s)
  PROVE  IInv' /\ AllKeepOwners
<1>1. UNCHANGED <<currentTimeslot, leasesTable, dadInts, hung, assigning, client, applied>>
  BY DEF ReadStep
<1>2. SlotInv' /\ LeaseInv' /\ CopyInv' /\ AssignInv' /\ ClientInv' /\ AllKeepOwners
  BY <1>1, SameTables DEF IInv, TypeInv, SlotInv, CopyInv, AssignInv, ClientInv
<1>3. sub[s] \in SubRecord /\ sub[s].pc = "read" BY DEF ReadStep, IInv, TypeInv, SubInv
<1>4. PICK v \in [Key -> SUBSET Client] :
        sub' = [sub EXCEPT ![s] = [sub[s] EXCEPT !.pc = "write", !.values = v]]
  <2> DEFINE v == [k \in Key |-> IF k \in Tx[s[1]].reads THEN dadInts[sub[s].tm][k] ELSE {}]
  <2>1. sub[s].tm \in TM BY <1>3 DEF SubRecord
  <2>2. v \in [Key -> SUBSET Client] BY <2>1 DEF IInv, TypeInv, CopyInv
  <2>3. sub' = [sub EXCEPT ![s] = [sub[s] EXCEPT !.pc = "write", !.values = v]]
    BY DEF ReadStep, IInv, TypeInv, SubInv
  <2> QED BY <2>2, <2>3
<1>5. [sub[s] EXCEPT !.pc = "write", !.values = v] \in SubRecord BY <1>3 DEF SubRecord, InService
<1>6. SubInv' /\ \A r \in Sub : r # s => sub'[r] = sub[r]
  BY <1>4, <1>5 DEF IInv, TypeInv, SubInv
<1>7. sub'[s].pc = "write" /\ sub'[s].tm = sub[s].tm /\ sub'[s].outcome = sub[s].outcome
  BY <1>3, <1>4 DEF IInv, TypeInv, SubInv, SubRecord
<1>8. CommitAt(s)' BY <1>1, <1>3, <1>7 DEF IInv, CommitInv, CommitAt
<1>9. CommitInv' BY <1>1, <1>6, <1>8, CommitChange DEF IInv
<1> QED BY <1>2, <1>6, <1>9 DEF IInv, TypeInv

\* The writes, at the TM itself.
LEMMA WriteStepStep ==
  ASSUME IInv, NEW s \in Sub, WriteStep(s)
  PROVE  IInv' /\ AllKeepOwners
<1>1. UNCHANGED <<currentTimeslot, leasesTable, hung, assigning>> /\ GoTo(s, "release")
  BY DEF WriteStep
<1>2. SlotInv' /\ LeaseInv' /\ AssignInv' /\ AllKeepOwners
  BY <1>1, SameTables DEF IInv, TypeInv, SlotInv, AssignInv
<1>3. /\ SubInv' /\ ClientInv' /\ sub[s] \in SubRecord
      /\ \A r \in Sub : r # s => sub'[r] = sub[r]
      /\ sub'[s].pc = "release" /\ sub'[s].tm = sub[s].tm /\ sub'[s].outcome = sub[s].outcome
  BY <1>1, GoesOn DEF IInv, InService
<1>4. sub[s].tm \in TM /\ s[1] \in Client BY <1>3 DEF SubRecord, Sub
<1>5. /\ CopyInv' /\ sub[s].tm \in applied'[s]
      /\ \A r \in Sub : applied[r] \subseteq applied'[r]
  <2>1. WriteAll(dadInts[sub[s].tm], s[1]) \in [Key -> SUBSET Client]
    BY <1>4, WriteAllCopy DEF IInv, TypeInv, CopyInv
  <2>2. dadInts' \in [TM -> [Key -> SUBSET Client]]
    BY <2>1 DEF WriteStep, IInv, TypeInv, CopyInv
  <2>3. /\ applied' \in [Sub -> SUBSET TM] /\ sub[s].tm \in applied'[s]
        /\ \A r \in Sub : applied[r] \subseteq applied'[r]
    BY <1>4 DEF WriteStep, IInv, TypeInv, CopyInv
  <2> QED BY <2>2, <2>3 DEF CopyInv
<1>6. sub[s].pc = "write" BY DEF WriteStep
<1>7. CommitAt(s)' BY <1>3, <1>5, <1>6 DEF IInv, CommitInv, CommitAt
<1>8. CommitInv' BY <1>3, <1>5, <1>7, CommitChange DEF IInv
<1> QED BY <1>2, <1>3, <1>5, <1>8 DEF IInv, TypeInv

\* The leases are released, and the client hears that its transaction is committed.
LEMMA ReleaseStepStep ==
  ASSUME IInv, NEW s \in Sub, ReleaseStep(s)
  PROVE  IInv' /\ AllKeepOwners
<1>1. UNCHANGED <<currentTimeslot, dadInts, hung, assigning, applied>> /\ End(s, "acked")
      /\ sub[s].pc = "release"
  BY DEF ReleaseStep
<1>2. SlotInv' /\ CopyInv' /\ AssignInv'
  BY <1>1 DEF IInv, TypeInv, SlotInv, CopyInv, AssignInv
<1>3. sub[s] \in SubRecord BY DEF IInv, TypeInv, SubInv
<1>4. LeaseInv' /\ AllKeepOwners
  <2> DEFINE t == sub[s].tm
             T == leasesTable[t]
             U == Release(T, Tx[s[1]].reads \cup Tx[s[1]].writes)
  <2>1. t \in TM BY <1>3 DEF SubRecord
  <2>2. IsTable(T) BY <2>1 DEF IInv, TypeInv, LeaseInv
  <2>3. IsTable(U) /\ KeepsOwners(T, U) BY <2>2, ReleaseTable
  <2>4. leasesTable' = [leasesTable EXCEPT ![t] = U] BY <2>1 DEF ReleaseStep, IInv, TypeInv, LeaseInv
  <2> HIDE DEF U, t
  <2> QED BY <2>1, <2>3, <2>4, TableChange DEF IInv, TypeInv
<1>5. /\ SubInv' /\ ClientInv' /\ \A r \in Sub : r # s => sub'[r] = sub[r]
      /\ sub'[s] = [sub[s] EXCEPT !.pc = "done", !.outcome = "acked"]
  BY <1>1, EndTypes DEF IInv, Outcome
<1>6. sub'[s].pc = "done" /\ sub'[s].tm = sub[s].tm BY <1>3, <1>5 DEF SubRecord
<1>7. CommitAt(s)' BY <1>1, <1>6 DEF IInv, CommitInv, CommitAt
<1>8. CommitInv' BY <1>1, <1>5, <1>7, CommitChange DEF IInv
<1> QED BY <1>2, <1>4, <1>5, <1>8 DEF IInv, TypeInv

\* A decision arrives: it is entered key by key, or the TM hangs.
LEMMA AssignSlotStep ==
  ASSUME IInv, NEW t \in TM, NEW d \in Decisions, AssignSlot(t, d)
  PROVE  IInv' /\ AllKeepOwners
<1>1. UNCHANGED <<leasesTable, dadInts, sub, client, applied>> BY DEF AssignSlot
<1>2. LeaseInv' /\ CopyInv' /\ ClientInv' /\ SubInv' /\ AllKeepOwners
  BY <1>1, SameTables DEF IInv, TypeInv, CopyInv, ClientInv, SubInv
<1>3. CommitInv' BY <1>1 DEF IInv, CommitInv, CommitAt
<1>4. d.epoch \in Slot /\ \A k \in DOMAIN d.table : k \in Key /\ d.table[k] \in Seq(TM)
  BY ConfigAssumption
<1>5. SlotInv' BY <1>4 DEF AssignSlot, IInv, TypeInv, SlotInv
<1>6. AssignInv' BY <1>4 DEF AssignSlot, IInv, TypeInv, AssignInv
<1> QED BY <1>2, <1>3, <1>5, <1>6 DEF IInv, TypeInv

\* A key of a decision gets its queue, or the TMs at the end of it.
LEMMA AssignKeyStep ==
  ASSUME IInv, NEW t \in TM, NEW k \in Key, AssignKey(t, k)
  PROVE  IInv' /\ AllKeepOwners
<1>1. UNCHANGED <<currentTimeslot, dadInts, hung, sub, client, applied>> BY DEF AssignKey
<1>2. SlotInv' /\ CopyInv' /\ ClientInv' /\ SubInv'
  BY <1>1 DEF IInv, TypeInv, SlotInv, CopyInv, ClientInv, SubInv
<1>3. CommitInv' BY <1>1 DEF IInv, CommitInv, CommitAt
<1> DEFINE T == leasesTable[t]
           q == assigning[t].table[k]
<1>4. IsTable(T) /\ k \in assigning[t].todo /\ q \in Seq(TM)
  BY DEF AssignKey, IInv, TypeInv, LeaseInv, AssignInv
<1>5. LeaseInv' /\ AllKeepOwners
  <2>1. PICK v : /\ leasesTable' = [leasesTable EXCEPT ![t] = Put(T, k, v)]
                 /\ v = IF k \in DOMAIN T THEN T[k] \o q ELSE <<>>
    BY DEF AssignKey, IInv, TypeInv, LeaseInv
  <2>2. v \in Seq(TM) /\ (k \in DOMAIN T /\ T[k] # <<>> => v # <<>>)
    <3>1. CASE k \in DOMAIN T
      <4>1. T[k] \in Seq(TM) BY <1>4, <3>1 DEF IsTable
      <4> HIDE DEF T, q
      <4>2. T[k] \o q \in Seq(TM) /\ Len(T[k] \o q) = Len(T[k]) + Len(q)
        BY <1>4, <4>1, ConcatProperties
      <4>3. T[k] # <<>> => T[k] \o q # <<>> BY <1>4, <4>1, ConcatEqualIffEmpty
      <4> QED BY <2>1, <3>1, <4>2, <4>3
    <3>2. CASE k \notin DOMAIN T BY <2>1, <3>2, EmptySeq
    <3> QED BY <3>1, <3>2
  <2>3. IsTable(Put(T, k, v)) /\ KeepsOwners(T, Put(T, k, v)) BY <1>4, <2>2, PutTable
  <2> QED BY <2>1, <2>3, TableChange DEF IInv, TypeInv
<1>6. AssignInv'
  <2>1. CASE UNCHANGED assigning BY <2>1 DEF IInv, TypeInv, AssignInv
  <2>2. CASE assigning' = [assigning EXCEPT ![t] = NoDecision]
    BY <2>2 DEF IInv, TypeInv, AssignInv, NoDecision
  <2> DEFINE left == [todo |-> assigning[t].todo \ {k}, table |-> assigning[t].table]
  <2>3. CASE assigning' = [assigning EXCEPT ![t] = left]
    <3>1. \A x \in left.todo : x \in Key /\ left.table[x] \in Seq(TM)
      BY DEF IInv, TypeInv, AssignInv
    <3>2. left = [todo |-> left.todo, table |-> left.table] OBVIOUS
    <3> HIDE DEF left
    <3> QED BY <2>3, <3>1, <3>2 DEF IInv, TypeInv, AssignInv
  <2>4. \/ UNCHANGED assigning
        \/ assigning' = [assigning EXCEPT ![t] = NoDecision]
        \/ assigning' = [assigning EXCEPT ![t] = left]
    BY DEF AssignKey, IInv, TypeInv, AssignInv
  <2> QED BY <2>1, <2>2, <2>3, <2>4
<1> QED BY <1>2, <1>3, <1>5, <1>6 DEF IInv, TypeInv

\* Any step.
LEMMA NextIInv ==
  ASSUME IInv, [Next]_vars
  PROVE  IInv' /\ AllKeepOwners
<1>1. CASE \E c \in Client, t \in TM : Submit(c, t) BY <1>1, SubmitStep
<1>2. ASSUME NEW s \in Sub, Step(s) PROVE IInv' /\ AllKeepOwners
  BY <1>2, BeginStep, CheckLeasesStep, RequestLeasesStep, PropagateToStep, PropagationFailsStep,
     CountRepliesStep, ReadStepStep, WriteStepStep, ReleaseStepStep DEF Step
<1>3. CASE \E t \in TM : \/ \E d \in Decisions : AssignSlot(t, d)
                         \/ \E k \in Key : AssignKey(t, k)
  BY <1>3, AssignSlotStep, AssignKeyStep
<1>4. CASE UNCHANGED vars
  <2>1. UNCHANGED <<currentTimeslot, leasesTable, dadInts, hung, assigning, sub, client, applied>>
    BY <1>4 DEF vars
  <2>2. TypeInv' /\ AllKeepOwners
    BY <2>1, SameTables DEF IInv, TypeInv, SlotInv, CopyInv, ClientInv, SubInv, AssignInv
  <2>3. CommitInv' BY <2>1 DEF IInv, CommitInv, CommitAt
  <2> QED BY <2>2, <2>3 DEF IInv
<1> QED BY <1>1, <1>2, <1>3, <1>4 DEF Next

-----------------------------------------------------------------------------
\* The invariant holds in every behaviour.
LEMMA Invariance == Spec => []IInv
<1>1. Init => IInv BY InitIInv
<1>2. IInv /\ [Next]_vars => IInv' BY NextIInv
<1> QED BY <1>1, <1>2, PTL DEF Spec

\* The variables keep the types of their fields.
THEOREM TypeCorrect == Spec => []TypeOK
<1>1. IInv => TypeOK
  BY DEF IInv, TypeInv, SlotInv, LeaseInv, IsTable, CopyInv, ClientInv, SubInv, SubRecord,
         AssignInv, TypeOK
<1> QED BY <1>1, Invariance, PTL

\* A transaction reported as committed was applied at every TM that its TM never suspected
\* (PropagateTransaction: a failure in the middle never leaves one out).
THEOREM Committed == Spec => []CommittedEverywhere
<1>1. IInv => CommittedEverywhere
  BY DEF IInv, CommitInv, CommitAt, CommittedEverywhere, Writes
<1> QED BY <1>1, Invariance, PTL

\* A queue that has an owner keeps one (UpdateLeaseTableAfterTransaction, UpdateLeasesTable).
THEOREM OwnerKept == Spec => LeaseKeepsAnOwner
<1>1. IInv /\ [Next]_vars =>
        [\A t \in TM : \A k \in DOMAIN leasesTable[t] :
           leasesTable[t][k] # <<>> => k \in DOMAIN leasesTable'[t] /\ leasesTable'[t][k] # <<>>]_vars
  BY NextIInv DEF AllKeepOwners, KeepsOwners
<1> QED BY <1>1, Invariance, PTL DEF Spec, LeaseKeepsAnOwner
=============================================================================
