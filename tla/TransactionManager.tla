------------------------- MODULE TransactionManager -------------------------
(***************************************************************************)
(* The transaction managers (TMs) of DADTKV and the clients that submit    *)
(* transactions to them.                                                   *)
(*                                                                         *)
(* A TM runs one submission at a time (TransactionSubAux holds the lock of *)
(* its service): it waits for the leases, propagates the writes to the     *)
(* other TMs with blocking calls, and only then reads and writes its own   *)
(* copy.  The lock of the TM's state is held by each of these parts on its *)
(* own, so the propagations of other TMs come in between.                  *)
(*                                                                         *)
(* The calls to lease managers and the decisions they send are external    *)
(* here (see LeaseManager): a request for leases has one of LMReplies as   *)
(* its outcome, and any of Decisions may arrive at any time, repeatedly    *)
(* and in any order.  In the program as it is none ever arrives.           *)
(***************************************************************************)
EXTENDS Integers, Sequences, FiniteSets

CONSTANTS
  N,          \* number of TMs; their ids are 1..N in the order of their list
  Client,     \* the clients; each submits one transaction
  Key,        \* the DadInt keys
  Tx,         \* Tx[c] = [keys, reads, writes]: c's transaction
  Slot,       \* the timeslots of the run, from 1
  Suspects,   \* Suspects[t][s]: the TMs that t suspects in timeslot s
  CrashedIn,  \* CrashedIn[t]: the timeslots in which t is to be crashed
  LMReplies,  \* outcomes of a request for leases: "some", "none", "broken"
  Decisions,  \* the decisions an LM may send: [epoch, table]
  MayFail,    \* pairs <<caller, callee>> of TMs whose calls may fail
  MaxTries    \* bound: submissions of one client, resubmissions included

TM  == 1..N
Sub == Client \X (1..MaxTries)   \* the n-th submission of a client

ASSUME SizeAssumption == N \in Nat \ {0} /\ MaxTries \in Nat \ {0}
ASSUME TxAssumption ==
  Tx \in [Client -> [keys : Seq(Key), reads : SUBSET Key, writes : SUBSET Key]]
ASSUME SlotAssumption == Slot \subseteq Nat \ {0} /\ 1 \in Slot
ASSUME ConfigAssumption ==
  /\ Suspects \in [TM -> [Slot -> SUBSET TM]]
  /\ \A t \in TM, s \in Slot : t \notin Suspects[t][s]
  /\ CrashedIn \in [TM -> SUBSET (Slot \ {1})]
  /\ LMReplies \subseteq {"some", "none", "broken"}
  /\ MayFail \subseteq TM \X TM
  /\ \A d \in Decisions : /\ d.epoch \in Slot
                          /\ \A k \in DOMAIN d.table : k \in Key /\ d.table[k] \in Seq(TM)

VARIABLES
  currentTimeslot,  \* per TM
  leasesTable,      \* per TM: for the keys in it, the queue of TMs
  dadInts,          \* per TM and key: the clients whose write it holds (at most one)
  hung,             \* per TM: its state's lock is held for ever
  assigning,        \* per TM: the decision being entered, and the keys left
  sub,              \* per submission: where the TM is with it
  client,           \* per client: tries so far and what it was told
  applied           \* history, per submission: the TMs that applied its writes

vars == <<currentTimeslot, leasesTable, dadInts, hung, assigning, sub, client, applied>>

\* The places in TransactionSubAux; between "check" and "release" the
\* submission holds the lock of its TM's service.
InService == {"check", "request", "propagate", "read", "write", "release"}
Outcome   == {"none", "acked", "aborted", "failed"}

NoSub == [pc |-> "none", tm |-> 1, requested |-> FALSE, peer |-> 0, acks |-> 0,
          values |-> [k \in Key |-> {}], outcome |-> "none"]

NoDecision == [todo |-> {}, table |-> <<>>]

-----------------------------------------------------------------------------
(* Helpers of TMServerState and Transaction.                               *)

Put(f, k, v) == [x \in DOMAIN f \cup {k} |-> IF x = k THEN v ELSE f[x]]

Queue(t, k) == leasesTable[t][k]

\* The key at which CheckLeasesForTransaction leaves its loop, as its place in
\* the transaction's keys; 0 when t heads the queue of every key.
FirstMissing(t, c) ==
  LET keys == Tx[c].keys
      bad  == {i \in 1..Len(keys) :
                 \/ keys[i] \notin DOMAIN leasesTable[t]
                 \/ Queue(t, keys[i]) = <<>>
                 \/ Head(Queue(t, keys[i])) # t}
  IN  IF bad = {} THEN 0 ELSE CHOOSE i \in bad : \A j \in bad : i <= j

QuorumSize(t) == (N - Cardinality(Suspects[t][currentTimeslot[t]])) \div 2 + 1

NextPeer(t, p) ==
  LET rest == {q \in (p + 1)..N : q # t /\ q \notin Suspects[t][currentTimeslot[t]]}
  IN  IF rest = {} THEN 0 ELSE CHOOSE q \in rest : \A q2 \in rest : q <= q2

MutantRelease(T, ks) ==
  [k \in DOMAIN T |-> IF k \in ks /\ Len(T[k]) > 0 THEN Tail(T[k]) ELSE T[k]]

\* UpdateLeaseTableAfterTransaction: the head of each queue goes, if another
\* TM waits behind it.
Release(T, ks) ==
  [k \in DOMAIN T |-> IF k \in ks /\ Len(T[k]) > 1 THEN Tail(T[k]) ELSE T[k]]

\* ExecuteWriteOperations of c's transaction on the copy D.
WriteAll(D, c) == [k \in Key |-> IF k \in Tx[c].writes THEN {c} ELSE D[k]]

-----------------------------------------------------------------------------
Init ==
  /\ currentTimeslot = [t \in TM |-> 1]
  /\ leasesTable     = [t \in TM |-> <<>>]
  /\ dadInts         = [t \in TM |-> [k \in Key |-> {}]]
  /\ hung            = [t \in TM |-> FALSE]
  /\ assigning       = [t \in TM |-> NoDecision]
  /\ sub             = [s \in Sub |-> NoSub]
  /\ client          = [c \in Client |-> [tries |-> 0, status |-> "idle"]]
  /\ applied         = [s \in Sub |-> {}]

-----------------------------------------------------------------------------
(* The client. *)

\* SubmitTransaction: the first time, and again whenever the 2 s deadline
\* passes; the TM goes on with the earlier submission all the same.  A TM
\* that has shut down is Unavailable, and the client gives up.
Submit(c, t) ==
  LET n == client[c].tries + 1 IN
  /\ client[c].status \in {"idle", "waiting"}
  /\ n <= MaxTries
  /\ IF hung[t]
     THEN /\ client' = [client EXCEPT ![c] = [tries |-> n, status |-> "gaveup"]]
          /\ UNCHANGED sub
     ELSE /\ client' = [client EXCEPT ![c] = [tries |-> n, status |-> "waiting"]]
          /\ sub' = [sub EXCEPT ![<<c, n>>] = [NoSub EXCEPT !.pc = "queued", !.tm = t]]
  /\ UNCHANGED <<currentTimeslot, leasesTable, dadInts, hung, assigning, applied>>

-----------------------------------------------------------------------------
(* TransactionSubAux.                                                      *)

\* Submission s ends with outcome o, which its client hears unless it has
\* resubmitted since.
End(s, o) ==
  /\ sub' = [sub EXCEPT ![s].pc = "done", ![s].outcome = o]
  /\ client' = IF client[s[1]].tries = s[2] /\ client[s[1]].status = "waiting"
               THEN [client EXCEPT ![s[1]].status = o] ELSE client

GoTo(s, pc) == sub' = [sub EXCEPT ![s].pc = pc] /\ UNCHANGED client

\* lock (this)
Begin(s) ==
  /\ sub[s].pc = "queued"
  /\ \A r \in Sub : ~(sub[r].tm = sub[s].tm /\ sub[r].pc \in InService)
  /\ GoTo(s, "check")
  /\ UNCHANGED <<currentTimeslot, leasesTable, dadInts, hung, assigning, applied>>

MutantCheckLeases(s) ==
  LET t == sub[s].tm
      c == s[1]
      i == FirstMissing(t, c)
  IN
  /\ sub[s].pc = "check" /\ ~hung[t]
  /\ IF i = 0 THEN GoTo(s, IF Tx[c].writes # {} THEN "propagate" ELSE "read")
     ELSE GoTo(s, IF sub[s].requested THEN "check" ELSE "request")
  /\ UNCHANGED <<currentTimeslot, leasesTable, dadInts, hung, assigning, applied>>

\* One turn of the loop on CheckLeasesForTransaction.  A key that is in no
\* queue yet is taken at once, but this turn still answers no: IAmFirst looks
\* for the TM's id among the URLs.  An empty queue makes the lookup of its
\* head throw.
CheckLeases(s) ==
  LET t == sub[s].tm
      c == s[1]
      i == FirstMissing(t, c)
      k == Tx[c].keys[i]
  IN
  /\ sub[s].pc = "check" /\ ~hung[t]
  /\ \/ /\ i = 0
        /\ GoTo(s, IF Tx[c].writes # {} THEN "propagate" ELSE "read")
        /\ UNCHANGED leasesTable
     \/ /\ i # 0 /\ k \in DOMAIN leasesTable[t] /\ Queue(t, k) = <<>>
        /\ End(s, "failed")
        /\ UNCHANGED leasesTable
     \/ /\ i # 0 /\ (k \in DOMAIN leasesTable[t] => Queue(t, k) # <<>>)
        /\ GoTo(s, IF sub[s].requested THEN "check" ELSE "request")
        /\ leasesTable' = IF k \in DOMAIN leasesTable[t] THEN leasesTable
                          ELSE [leasesTable EXCEPT ![t] = Put(@, k, <<t>>)]
  /\ UNCHANGED <<currentTimeslot, dadInts, hung, assigning, applied>>

\* RequestLeases, once per submission: one LM's answer is enough, a deadline
\* is passed over, any other failure of a call escapes.
RequestLeases(s) ==
  /\ sub[s].pc = "request"
  /\ \/ /\ "some" \in LMReplies
        /\ sub' = [sub EXCEPT ![s].pc = "check", ![s].requested = TRUE]
        /\ UNCHANGED client
     \/ "none" \in LMReplies /\ End(s, "aborted")
     \/ "broken" \in LMReplies /\ End(s, "failed")
  /\ UNCHANGED <<currentTimeslot, leasesTable, dadInts, hung, assigning, applied>>

\* TransPropAux at q: all writes, and the release of their leases, under the
\* lock of q's state.
ApplyAt(s, q) ==
  /\ dadInts' = [dadInts EXCEPT ![q] = WriteAll(@, s[1])]
  /\ leasesTable' = [leasesTable EXCEPT ![q] = Release(@, Tx[s[1]].writes)]
  /\ applied' = [applied EXCEPT ![s] = @ \cup {q}]

\* The call to the next TM that is not suspected: it is made and answered.
PropagateTo(s, q) ==
  /\ sub[s].pc = "propagate"
  /\ ~hung[sub[s].tm] /\ q = NextPeer(sub[s].tm, sub[s].peer) /\ ~hung[q]
  /\ ApplyAt(s, q)
  /\ sub' = [sub EXCEPT ![s].peer = q, ![s].acks = @ + 1]
  /\ UNCHANGED <<currentTimeslot, hung, assigning, client>>

MutantPropagationFails(s, q) ==
  /\ sub[s].pc = "propagate"
  /\ ~hung[sub[s].tm] /\ q = NextPeer(sub[s].tm, sub[s].peer)
  /\ hung[q] \/ <<sub[s].tm, q>> \in MayFail
  /\ sub' = [sub EXCEPT ![s].peer = q]
  /\ UNCHANGED <<currentTimeslot, hung, assigning, client, dadInts, leasesTable, applied>>

\* The call fails, before or after q applied it.  The exception is caught,
\* but the reply is looked up all the same: KeyNotFoundException ends the
\* submission.
PropagationFails(s, q) ==
  /\ sub[s].pc = "propagate"
  /\ ~hung[sub[s].tm] /\ q = NextPeer(sub[s].tm, sub[s].peer)
  /\ hung[q] \/ <<sub[s].tm, q>> \in MayFail
  /\ End(s, "failed")
  /\ \/ ~hung[q] /\ ApplyAt(s, q)
     \/ UNCHANGED <<dadInts, leasesTable, applied>>
  /\ UNCHANGED <<currentTimeslot, hung, assigning>>

\* The end of PropagateTransaction.
CountReplies(s) ==
  LET t == sub[s].tm IN
  /\ sub[s].pc = "propagate"
  /\ ~hung[t] /\ NextPeer(t, sub[s].peer) = 0
  /\ IF sub[s].acks < QuorumSize(t) - 1 THEN End(s, "aborted") ELSE GoTo(s, "read")
  /\ UNCHANGED <<currentTimeslot, leasesTable, dadInts, hung, assigning, applied>>

\* ExecuteReadOperations, ExecuteWriteOperations and
\* UpdateLeaseTableAfterTransaction each take the lock for themselves.
ReadStep(s) ==
  LET t == sub[s].tm IN
  /\ sub[s].pc = "read" /\ ~hung[t]
  /\ sub' = [sub EXCEPT ![s].pc = "write",
                        ![s].values = [k \in Key |-> IF k \in Tx[s[1]].reads
                                                     THEN dadInts[t][k] ELSE {}]]
  /\ UNCHANGED <<currentTimeslot, leasesTable, dadInts, hung, assigning, client, applied>>

WriteStep(s) ==
  LET t == sub[s].tm IN
  /\ sub[s].pc = "write" /\ ~hung[t]
  /\ dadInts' = [dadInts EXCEPT ![t] = WriteAll(@, s[1])]
  /\ applied' = [applied EXCEPT ![s] = @ \cup {t}]
  /\ GoTo(s, "release")
  /\ UNCHANGED <<currentTimeslot, leasesTable, hung, assigning>>

ReleaseStep(s) ==
  LET t == sub[s].tm IN
  /\ sub[s].pc = "release" /\ ~hung[t]
  /\ leasesTable' = [leasesTable EXCEPT ![t] = Release(@, Tx[s[1]].reads \cup Tx[s[1]].writes)]
  /\ End(s, "acked")
  /\ UNCHANGED <<currentTimeslot, dadInts, hung, assigning, applied>>

-----------------------------------------------------------------------------
(* AssignLeasesAux, one at a time under the receiver's own lock.           *)

MutantAssignSlot(t, d) ==
  /\ ~hung[t] /\ assigning[t].todo = {}
  /\ d.epoch >= currentTimeslot[t]
  /\ currentTimeslot' = [currentTimeslot EXCEPT ![t] = @ + 1]
  /\ assigning' = [assigning EXCEPT ![t] = [todo |-> DOMAIN d.table, table |-> d.table]]
  /\ UNCHANGED <<hung, leasesTable, dadInts, sub, client, applied>>

\* UpdateCurrentTimeslot.  An epoch that is not higher is ignored.  In a
\* timeslot of its crash list the TM shuts its server down and waits for the
\* calls in service to end, this one among them, with the state's lock held.
\* (The exclusion of a TM suspected twice asks nobody, as every TM it would
\* ask on behalf of is suspected; its quorum fails and nothing changes.)
AssignSlot(t, d) ==
  /\ ~hung[t] /\ assigning[t].todo = {}
  /\ d.epoch > currentTimeslot[t]
  /\ currentTimeslot' = [currentTimeslot EXCEPT ![t] = d.epoch]
  /\ IF d.epoch \in CrashedIn[t]
     THEN hung' = [hung EXCEPT ![t] = TRUE] /\ UNCHANGED assigning
     ELSE /\ assigning' = [assigning EXCEPT ![t] = [todo |-> DOMAIN d.table, table |-> d.table]]
          /\ UNCHANGED hung
  /\ UNCHANGED <<leasesTable, dadInts, sub, client, applied>>

\* UpdateLeasesTable, without the state's lock: an empty queue is entered for
\* a new key first, the TMs are appended after.
AssignKey(t, k) ==
  /\ k \in assigning[t].todo
  /\ IF k \notin DOMAIN leasesTable[t]
     THEN leasesTable' = [leasesTable EXCEPT ![t] = Put(@, k, <<>>)] /\ UNCHANGED assigning
     ELSE /\ leasesTable' = [leasesTable EXCEPT ![t] = Put(@, k, @[k] \o assigning[t].table[k])]
          /\ assigning' = [assigning EXCEPT ![t] =
               IF @.todo = {k} THEN NoDecision
               ELSE [todo |-> @.todo \ {k}, table |-> @.table]]
  /\ UNCHANGED <<currentTimeslot, dadInts, hung, sub, client, applied>>

Step(s) ==
  \/ Begin(s) \/ CheckLeases(s) \/ RequestLeases(s)
  \/ \E q \in TM : PropagateTo(s, q) \/ PropagationFails(s, q)
  \/ CountReplies(s) \/ ReadStep(s) \/ WriteStep(s) \/ ReleaseStep(s)

Next ==
  \/ \E c \in Client, t \in TM : Submit(c, t)
  \/ \E s \in Sub : Step(s)
  \/ \E t \in TM : \/ \E d \in Decisions : AssignSlot(t, d)
                   \/ \E k \in Key : AssignKey(t, k)

Spec == Init /\ [][Next]_vars

\* A server thread that can go on does, and gets the lock of the service in
\* its turn; calls between TMs are answered or fail.
FairSpec == Spec /\ \A s \in Sub : WF_vars(Step(s))

-----------------------------------------------------------------------------
(* Properties. *)

\* The variables keep the types of their fields.
TypeOK ==
  /\ currentTimeslot \in [TM -> Slot]
  /\ \A t \in TM : /\ DOMAIN leasesTable[t] \subseteq Key
                   /\ \A k \in DOMAIN leasesTable[t] : leasesTable[t][k] \in Seq(TM)
  /\ dadInts \in [TM -> [Key -> SUBSET Client]]
  /\ hung \in [TM -> BOOLEAN]
  /\ \A t \in TM : assigning[t].todo \subseteq Key
  /\ sub \in [Sub -> [pc : InService \cup {"none", "queued", "done"}, tm : TM,
                      requested : BOOLEAN, peer : 0..N, acks : Nat,
                      values : [Key -> SUBSET Client], outcome : Outcome]]
  /\ client \in [Client -> [tries : 0..MaxTries,
                            status : {"idle", "waiting", "gaveup"} \cup Outcome]]
  /\ applied \in [Sub -> SUBSET TM]

Trusted(t) == {q \in TM : \A e \in Slot : q \notin Suspects[t][e]}

\* A transaction that is reported as committed was applied at every TM that
\* its TM never suspected, not only at a quorum of them: crashes and lost
\* replies in the middle of PropagateTransaction never leave one out.
CommittedEverywhere ==
  \A s \in Sub : sub[s].outcome = "acked" /\ Tx[s[1]].writes # {}
                  => Trusted(sub[s].tm) \subseteq applied[s]

\* No lease is lost: whoever releases it, a queue that has an owner keeps one
\* (CheckLeasesForTransaction looks at the head of a queue without asking
\* whether there is one).
LeaseKeepsAnOwner ==
  [][\A t \in TM : \A k \in DOMAIN leasesTable[t] :
       leasesTable[t][k] # <<>> => k \in DOMAIN leasesTable'[t] /\ leasesTable'[t][k] # <<>>]_vars

\* Every submission ends with an answer or an exception, whatever TMs and
\* clients contend for its leases.
SubmissionsEnd == \A s \in Sub : sub[s].pc = "queued" ~> sub[s].pc = "done"

\* What CheckLeasesForTransaction says of itself, that a transaction executes
\* when its TM has all the leases: no two TMs are past it with a key in common.
Holding(s) == sub[s].pc \in {"propagate", "read", "write", "release"}
KeysOf(s)  == Tx[s[1]].reads \cup Tx[s[1]].writes
LeaseExclusion ==
  \A s1, s2 \in Sub : Holding(s1) /\ Holding(s2) /\ sub[s1].tm # sub[s2].tm
                       => KeysOf(s1) \cap KeysOf(s2) = {}

=============================================================================
