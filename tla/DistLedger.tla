------------------------------ MODULE DistLedger ------------------------------
(***************************************************************************)
(* The replicas of DistLedger, the users that create accounts, transfer    *)
(* money and read balances at any of them, and the gossip an administrator *)
(* starts by hand.                                                         *)
(*                                                                         *)
(* Requests are served by a pool of threads.  Only parts of a handler hold *)
(* the lock of the replica's state: adding an operation to the ledger and  *)
(* executing it, and the loop over the unstable operations.  The clocks    *)
(* are incremented, the ledger is sorted, and the operation gets its       *)
(* timestamps one after the other, without it; the operation that gets     *)
(* one is the last of the ledger at that time, whoever added it.           *)
(*                                                                         *)
(* Every replica stays registered in the naming server, so the key set of  *)
(* the timestamp map is Replica.  One administrator at a time gossips.     *)
(***************************************************************************)
EXTENDS Integers, Sequences

CONSTANTS
  Replica,     \* the registered replicas; A, B, C are 1, 2, 3
  User,        \* the users, each with one request out at a time
  Account,     \* the account names
  Broker,      \* the account that exists from the start, with all the money
  Money,       \* that money
  Writes,      \* Writes[u]: the requests to write that u may make
  Reads,       \* Reads[u]: the accounts whose balance u may ask for
  MayStop,     \* the replicas an administrator deactivates and activates
  MaxWrites,   \* bound: MaxWrites[u] writes of user u
  MaxGossips,  \* bound: gossips
  Overlap      \* FALSE: a replica serves one write or gossip at a time

ASSUME ReplicaAssumption == Replica \subseteq 1..3 /\ MayStop \subseteq Replica
ASSUME AccountAssumption ==
  /\ Broker \in Account /\ Money \in Nat /\ Reads \in [User -> SUBSET Account]
ASSUME BoundAssumption ==
  MaxWrites \in [User -> Nat] /\ MaxGossips \in Nat /\ Overlap \in BOOLEAN

Transfer == [from : Account, dest : Account, amount : Nat \ {0}]
Request  == [type : {"create"}, account : Account] \cup [type : {"transfer"}, account : Transfer]
ASSUME WriteAssumption == \A u \in User : Writes[u] \subseteq Request

VARIABLES
  ledger,    \* per replica: the operations, in the order of the list
  accounts,  \* per replica: the balances, -1 for an account that does not exist
  active,    \* per replica: an administrator has not deactivated it
  mapTS,     \* per replica: its replica timestamp
  valueTS,   \* per replica: its value timestamp
  userTS,    \* per user: the timestamp it sends along
  call,      \* per user: its request, and how far its handler is
  gossip,    \* the gossip in progress
  gossips,   \* the number of gossips so far
  written,   \* history, per replica: writes it has counted in its own clock
  executed,  \* history, per replica and write: how often it executed it
  raced      \* history: a handler put back a clock that had changed since it read
             \* it, or gave a timestamp to, or took for its own, another's operation

clocks == <<mapTS, valueTS, written>>
vars == <<ledger, accounts, active, clocks, userTS, call, gossip, gossips, executed, raced>>

TS     == [1..3 -> Nat]
ZeroTS == [k \in 1..3 |-> 0]
NoTS   == <<>>                  \* a timestamp that is not set yet (null)
Write  == UNION {{u} \X (1..MaxWrites[u]) : u \in User}   \* <<user, its n-th write>>

\* live: the timestamp of the operation is the list valueTS itself, and goes
\* on changing with it.
Operation == [write : Write, request : Request, prev : TS \cup {NoTS},
              ts : TS \cup {NoTS}, live : BOOLEAN]

Leq(t, u)  == \A k \in 1..3 : t[k] <= u[k]
Join(t, u) == [k \in 1..3 |-> IF t[k] >= u[k] THEN t[k] ELSE u[k]]
Sum(t)     == t[1] + t[2] + t[3]

NoCall   == [pc |-> "idle", at |-> 1, request |-> [type |-> "none"], prev |-> ZeroTS,
             stable |-> FALSE, seen |-> 0, n |-> 0]
NoGossip == [pc |-> "idle", from |-> 1, todo |-> {}, to |-> 1, msg |-> <<>>, i |-> 1]

-----------------------------------------------------------------------------
(* Helpers of ServerState. *)

\* Mutant: the balance of the account debited is not compared with the amount.
MutantExecute(A, req) ==
  IF req.type = "create"
  THEN IF A[req.account] >= 0 THEN A ELSE [A EXCEPT ![req.account] = 0]
  ELSE LET t == req.account
       IN  IF A[t.from] < 0 \/ A[t.dest] < 0 THEN A
           ELSE [[A EXCEPT ![t.from] = @ - t.amount] EXCEPT ![t.dest] = A[t.dest] + t.amount]

\* Mutant: it is not checked that the account credited exists.
MutantTransfer(A, req) ==
  IF req.type = "create"
  THEN IF A[req.account] >= 0 THEN A ELSE [A EXCEPT ![req.account] = 0]
  ELSE LET t == req.account
       IN  IF A[t.from] < 0 \/ A[t.from] < t.amount THEN A
           ELSE [[A EXCEPT ![t.from] = @ - t.amount] EXCEPT ![t.dest] = A[t.dest] + t.amount]

\* executeCreate and executeTransfer: the balances after the request.  Both
\* balances are read before either is written.
Execute(A, req) ==
  IF req.type = "create"
  THEN IF A[req.account] >= 0 THEN A ELSE [A EXCEPT ![req.account] = 0]
  ELSE LET t == req.account
       IN  IF A[t.from] < 0 \/ A[t.dest] < 0 \/ A[t.from] < t.amount THEN A
           ELSE [[A EXCEPT ![t.from] = @ - t.amount] EXCEPT ![t.dest] = A[t.dest] + t.amount]

Stamped(L) == \A j \in DOMAIN L : L[j].prev # NoTS

\* A stable sort, by the sum of prevTS, of the first n operations.
Sorted(L, n) ==
  {[j \in DOMAIN L |-> L[p[j]]] :
     p \in {p \in [DOMAIN L -> DOMAIN L] :
              /\ \A j \in DOMAIN L : IF j <= n THEN p[j] <= n ELSE p[j] = j
              /\ \A j, k \in DOMAIN L : j < k /\ k <= n =>
                   \/ Sum(L[p[j]].prev) < Sum(L[p[k]].prev)
                   \/ Sum(L[p[j]].prev) = Sum(L[p[k]].prev) /\ p[j] < p[k]}}

\* Comparing an operation without prevTS throws; a single operation is not
\* compared.
SortThrows(L) == Len(L) > 1 /\ ~Stamped(L)

\* sortLedger, in place: what was before the operation it throws on is sorted
\* by then (lists of fewer than 32 are sorted by insertion), but for a strictly
\* descending start, which is turned round only when its end is found.
SortLedger(L) ==
  IF ~SortThrows(L) THEN Sorted(L, Len(L))
  ELSE UNION {IF \A j \in 1..(n - 1) : Sum(L[j].prev) > Sum(L[j + 1].prev)
              THEN {L} ELSE Sorted(L, n) :
                n \in {n \in 0..(Len(L) - 1) :
                         L[n + 1].prev = NoTS /\ \A j \in 1..n : L[j].prev # NoTS}}

TimestampOf(r, op) == IF op.live THEN valueTS[r] ELSE op.ts

\* The last operation of a ledger gets one of its timestamps.
SetPrevTS(L, prev) == [L EXCEPT ![Len(L)].prev = prev]
SetTS(L, ts) == [L EXCEPT ![Len(L)].ts = ts, ![Len(L)].live = FALSE]

\* It is the operation of the write w.
IsLast(L, w) == L[Len(L)].write = w

\* The lock of r's state is held while it goes through its unstable operations.
Locked(r) == gossip.pc = "run" /\ gossip.to = r

-----------------------------------------------------------------------------
Init ==
  /\ ledger   = [r \in Replica |-> <<>>]
  /\ accounts = [r \in Replica |-> [a \in Account |-> IF a = Broker THEN Money ELSE -1]]
  /\ active   = [r \in Replica |-> TRUE]
  /\ mapTS    = [r \in Replica |-> ZeroTS]
  /\ valueTS  = [r \in Replica |-> ZeroTS]
  /\ userTS   = [u \in User |-> ZeroTS]
  /\ call     = [u \in User |-> NoCall]
  /\ gossip   = NoGossip
  /\ gossips  = 0
  /\ written  = [r \in 1..3 |-> 0]
  /\ executed = [r \in Replica |-> [w \in Write |-> 0]]
  /\ raced    = FALSE

-----------------------------------------------------------------------------
(* createAccount and transferTo.                                           *)

Busy(u) == call[u].pc \in {"add", "tick", "put", "raise", "stamp", "mark", "answer"}
Writing(r) == \E u \in User : call[u].at = r /\ Busy(u)
Gossiping(r) == r = gossip.to /\ gossip.pc \notin {"idle", "send"}

\* The request arrives; its operation is stable when the replica has every
\* update the user knows of.  (A replica that is not active refuses; the
\* refusal carries no timestamp, and the client throws on reading it.)
AskWrite(u, r, req) ==
  /\ call[u].pc = "idle" /\ call[u].n < MaxWrites[u]
  /\ active[r]
  /\ Overlap \/ ~(Writing(r) \/ Gossiping(r))
  /\ call' = [call EXCEPT ![u] = [NoCall EXCEPT !.pc = "add", !.at = r, !.request = req,
                                                !.prev = userTS[u], !.n = call[u].n + 1,
                                                !.stable = Leq(userTS[u], valueTS[r])]]
  /\ UNCHANGED <<ledger, accounts, active, clocks, userTS, gossip, gossips, executed, raced>>

\* ServerState.createAccount or transferTo: adds the operation and executes
\* it if it is stable; what the execution returns is dropped.
AddOperation(u) ==
  LET c == call[u]
      w == <<u, c.n>>
  IN
  /\ c.pc = "add" /\ ~Locked(c.at)
  /\ ledger' = [ledger EXCEPT ![c.at] = Append(@,
       [write |-> w, request |-> c.request, prev |-> NoTS, ts |-> NoTS, live |-> FALSE])]
  /\ IF c.stable
     THEN /\ accounts' = [accounts EXCEPT ![c.at] = Execute(@, c.request)]
          /\ executed' = [executed EXCEPT ![c.at][w] = @ + 1]
     ELSE UNCHANGED <<accounts, executed>>
  /\ call' = [call EXCEPT ![u].pc = "tick"]
  /\ UNCHANGED <<active, clocks, userTS, gossip, gossips, raced>>

\* incrementTS reads the replica's own entry and puts it back incremented.
ReadClock(u) ==
  /\ call[u].pc = "tick"
  /\ call' = [call EXCEPT ![u].pc = "put", ![u].seen = mapTS[call[u].at][call[u].at]]
  /\ UNCHANGED <<ledger, accounts, active, clocks, userTS, gossip, gossips, executed, raced>>

\* Mutant: incrementTS increments the entry of every replica.
MutantPutClock(u) ==
  LET r == call[u].at IN
  /\ call[u].pc = "put"
  /\ mapTS' = [mapTS EXCEPT ![r] = [k \in 1..3 |-> @[k] + 1]]
  /\ written' = [written EXCEPT ![r] = @ + 1]
  /\ raced' = (raced \/ mapTS[r][r] # call[u].seen)
  /\ call' = [call EXCEPT ![u].pc = IF call[u].stable THEN "raise" ELSE "stamp"]
  /\ UNCHANGED <<ledger, accounts, active, valueTS, userTS, gossip, gossips, executed>>

PutClock(u) ==
  LET r == call[u].at IN
  /\ call[u].pc = "put"
  /\ mapTS' = [mapTS EXCEPT ![r][r] = call[u].seen + 1]
  /\ written' = [written EXCEPT ![r] = @ + 1]
  /\ raced' = (raced \/ mapTS[r][r] # call[u].seen)
  /\ call' = [call EXCEPT ![u].pc = IF call[u].stable THEN "raise" ELSE "stamp"]
  /\ UNCHANGED <<ledger, accounts, active, valueTS, userTS, gossip, gossips, executed>>

\* incrementValueTSReplic raises valueTS for a stable operation.
RaiseClock(u) ==
  LET r == call[u].at IN
  /\ call[u].pc = "raise"
  /\ valueTS' = [valueTS EXCEPT ![r] = Join(@, mapTS[r])]
  /\ call' = [call EXCEPT ![u].pc = "stamp"]
  /\ UNCHANGED <<ledger, accounts, active, mapTS, written, userTS, gossip, gossips,
                 executed, raced>>

\* The last operation of the ledger gets the timestamp of the request, then
\* the last one gets the replica's.
StampRequest(u) ==
  LET r == call[u].at IN
  /\ call[u].pc = "stamp"
  /\ ledger' = [ledger EXCEPT ![r] = SetPrevTS(@, call[u].prev)]
  /\ raced' = (raced \/ ~IsLast(ledger[r], <<u, call[u].n>>))
  /\ call' = [call EXCEPT ![u].pc = "mark"]
  /\ UNCHANGED <<accounts, active, clocks, userTS, gossip, gossips, executed>>

StampReplica(u) ==
  LET r == call[u].at IN
  /\ call[u].pc = "mark"
  /\ ledger' = [ledger EXCEPT ![r] = SetTS(@, mapTS[r])]
  /\ raced' = (raced \/ ~IsLast(ledger[r], <<u, call[u].n>>))
  /\ call' = [call EXCEPT ![u].pc = "answer"]
  /\ UNCHANGED <<accounts, active, clocks, userTS, gossip, gossips, executed>>

\* The user is answered with the replica's timestamp and joins it into its own.
Answer(u) ==
  /\ call[u].pc = "answer"
  /\ userTS' = [userTS EXCEPT ![u] = Join(@, mapTS[call[u].at])]
  /\ call' = [call EXCEPT ![u].pc = "idle"]
  /\ UNCHANGED <<ledger, accounts, active, clocks, gossip, gossips, executed, raced>>

\* balance: waits until the replica has every update the user knows of, and
\* answers with the value timestamp (an unknown account: without).
AskBalance(u, r, a) ==
  /\ call[u].pc = "idle" /\ active[r]
  /\ call' = [call EXCEPT ![u] = [NoCall EXCEPT !.pc = "read", !.at = r, !.n = call[u].n,
                                    !.prev = userTS[u],
                                    !.request = [type |-> "balance", account |-> a]]]
  /\ UNCHANGED <<ledger, accounts, active, clocks, userTS, gossip, gossips, executed, raced>>

Balance(u) ==
  LET c == call[u] IN
  /\ c.pc = "read" /\ Leq(c.prev, valueTS[c.at]) /\ ~Locked(c.at)
  /\ userTS' = IF accounts[c.at][c.request.account] >= 0
               THEN [userTS EXCEPT ![u] = Join(@, valueTS[c.at])] ELSE userTS
  /\ call' = [call EXCEPT ![u].pc = "idle"]
  /\ UNCHANGED <<ledger, accounts, active, clocks, gossip, gossips, executed, raced>>

-----------------------------------------------------------------------------
(* The administrator: activate, deactivate, gossip.                        *)

SetActive(r) ==
  /\ active' = [active EXCEPT ![r] = ~@]
  /\ UNCHANGED <<ledger, accounts, clocks, userTS, call, gossip, gossips, executed, raced>>

\* checkState asks the other replicas; then the sender sorts its ledger, which
\* may fail.
StartGossip(r) ==
  /\ gossip.pc = "idle" /\ gossips < MaxGossips
  /\ Overlap \/ ~Writing(r)
  /\ \A q \in Replica \ {r} : active[q]
  /\ \E L \in SortLedger(ledger[r]) : ledger' = [ledger EXCEPT ![r] = L]
  /\ gossip' = IF SortThrows(ledger[r]) THEN NoGossip
               ELSE [NoGossip EXCEPT !.pc = "send", !.from = r, !.todo = Replica \ {r}]
  /\ gossips' = gossips + 1
  /\ UNCHANGED <<accounts, active, clocks, userTS, call, executed, raced>>

\* The ledger from the index that the sender's timestamp has for q goes to q.
Outgoing(r, q) ==
  LET L == ledger[r]
      m == mapTS[r][q]
  IN  [j \in 1..(IF Len(L) > m THEN Len(L) - m ELSE 0) |->
         [L[j + m] EXCEPT !.ts = TimestampOf(r, L[j + m]), !.live = FALSE]]

\* propagateState: an operation that lacks a timestamp cannot be sent and ends
\* the gossip; a replica deactivated meanwhile ignores it, unnoticed.
Sendable(M) == \A j \in DOMAIN M : M[j].prev # NoTS /\ M[j].ts # NoTS
SendTo(q) ==
  LET M == Outgoing(gossip.from, q) IN
  /\ gossip.pc = "send" /\ q \in gossip.todo
  /\ Overlap \/ ~(Writing(q) \/ Writing(gossip.from))
  /\ gossip' = IF ~Sendable(M) THEN NoGossip
               ELSE IF ~active[q] THEN [gossip EXCEPT !.todo = @ \ {q}]
               ELSE [gossip EXCEPT !.pc = "take", !.todo = @ \ {q}, !.to = q, !.msg = M]
  /\ UNCHANGED <<ledger, accounts, active, clocks, userTS, call, gossips, executed, raced>>

EndGossip ==
  /\ gossip.pc = "send" /\ gossip.todo = {}
  /\ gossip' = NoGossip
  /\ UNCHANGED <<ledger, accounts, active, clocks, userTS, call, gossips, executed, raced>>

-----------------------------------------------------------------------------
(* SecondaryServerService.propagateState at the receiver.                  *)

\* containOperation: anyMatch throws on an operation without prevTS before
\* the first match.
Contains(L, prev) == \E j \in DOMAIN L : L[j].prev = prev
ContainThrows(L, prev) ==
  \E j \in DOMAIN L : L[j].prev = NoTS /\ \A k \in 1..(j - 1) : L[k].prev # prev

\* Mutant: an operation that is known is added again.
MutantTakeOperation ==
  LET q  == gossip.to
      op == Head(gossip.msg)
  IN
  /\ gossip.pc = "take" /\ gossip.msg # <<>>
  /\ IF ContainThrows(ledger[q], op.prev)
     THEN gossip' = NoGossip /\ UNCHANGED <<ledger, mapTS>>
     ELSE /\ mapTS' = [mapTS EXCEPT ![q] = Join(@, op.ts)]
          /\ ledger' = [ledger EXCEPT ![q] = Append(@, [op EXCEPT !.prev = NoTS, !.ts = NoTS])]
          /\ gossip' = [gossip EXCEPT !.pc = "stamp"]
  /\ UNCHANGED <<accounts, active, valueTS, written, userTS, call, gossips, executed, raced>>

\* The next operation: skipped if one with its prevTS is known, else added.
TakeOperation ==
  LET q  == gossip.to
      op == Head(gossip.msg)
  IN
  /\ gossip.pc = "take" /\ gossip.msg # <<>>
  /\ IF ContainThrows(ledger[q], op.prev)
     THEN gossip' = NoGossip /\ UNCHANGED <<ledger, mapTS>>
     ELSE IF Contains(ledger[q], op.prev)
     THEN gossip' = [gossip EXCEPT !.msg = Tail(@)] /\ UNCHANGED <<ledger, mapTS>>
     ELSE /\ mapTS' = [mapTS EXCEPT ![q] = Join(@, op.ts)]
          /\ ledger' = [ledger EXCEPT ![q] = Append(@, [op EXCEPT !.prev = NoTS, !.ts = NoTS])]
          /\ gossip' = [gossip EXCEPT !.pc = "stamp"]
  /\ UNCHANGED <<accounts, active, valueTS, written, userTS, call, gossips, executed, raced>>

\* The last operation of the ledger gets the prevTS of the message, then the
\* last one its TS.
StampPrev ==
  LET q == gossip.to IN
  /\ gossip.pc = "stamp"
  /\ ledger' = [ledger EXCEPT ![q] = SetPrevTS(@, Head(gossip.msg).prev)]
  /\ raced' = (raced \/ ~IsLast(ledger[q], Head(gossip.msg).write))
  /\ gossip' = [gossip EXCEPT !.pc = "mark"]
  /\ UNCHANGED <<accounts, active, clocks, userTS, call, gossips, executed>>

StampTS ==
  LET q == gossip.to IN
  /\ gossip.pc = "mark"
  /\ ledger' = [ledger EXCEPT ![q] = SetTS(@, Head(gossip.msg).ts)]
  /\ raced' = (raced \/ ~IsLast(ledger[q], Head(gossip.msg).write))
  /\ gossip' = [gossip EXCEPT !.pc = "check"]
  /\ UNCHANGED <<accounts, active, clocks, userTS, call, gossips, executed>>

\* last_operation: it is executed if it is stable.
CheckOperation ==
  LET q  == gossip.to
      n  == Len(ledger[q])
      op == ledger[q][n]
  IN
  /\ gossip.pc = "check"
  /\ gossip' = IF op.prev = NoTS THEN NoGossip
               ELSE [gossip EXCEPT !.pc = IF Leq(op.prev, valueTS[q]) THEN "raise" ELSE "count",
                                   !.i = n]
  /\ raced' = (raced \/ ~IsLast(ledger[q], Head(gossip.msg).write))
  /\ UNCHANGED <<ledger, accounts, active, clocks, userTS, call, gossips, executed>>

\* The timestamp of last_operation raises valueTS, before it is executed
\* (execute_operation) and after it is or is not (incrementValueTS).
RaiseValue ==
  LET q  == gossip.to
      ts == TimestampOf(q, ledger[q][gossip.i])
  IN
  /\ gossip.pc \in {"raise", "count"}
  /\ IF ts = NoTS THEN gossip' = NoGossip /\ UNCHANGED valueTS
     ELSE /\ valueTS' = [valueTS EXCEPT ![q] = Join(@, ts)]
          /\ gossip' = IF gossip.pc = "raise" THEN [gossip EXCEPT !.pc = "apply"]
                       ELSE [gossip EXCEPT !.pc = "take", !.msg = Tail(@), !.i = 1]
  /\ UNCHANGED <<ledger, accounts, active, mapTS, written, userTS, call, gossips, executed, raced>>

ExecuteOperation ==
  LET q  == gossip.to
      op == ledger[q][gossip.i]
  IN
  /\ gossip.pc = "apply"
  /\ accounts' = [accounts EXCEPT ![q] = Execute(@, op.request)]
  /\ executed' = [executed EXCEPT ![q][op.write] = @ + 1]
  /\ gossip' = [gossip EXCEPT !.pc = "count"]
  /\ UNCHANGED <<ledger, active, clocks, userTS, call, gossips, raced>>

\* The message is read: the receiver sorts its ledger, then takes the lock and
\* goes through it.
SortReceived ==
  LET q == gossip.to IN
  /\ gossip.pc = "take" /\ gossip.msg = <<>>
  /\ \E L \in SortLedger(ledger[q]) : ledger' = [ledger EXCEPT ![q] = L]
  /\ gossip' = IF SortThrows(ledger[q]) THEN NoGossip ELSE [gossip EXCEPT !.pc = "sorted"]
  /\ UNCHANGED <<accounts, active, clocks, userTS, call, gossips, executed, raced>>

StartRun ==
  /\ gossip.pc = "sorted"
  /\ gossip' = [gossip EXCEPT !.pc = "run", !.i = 1]
  /\ UNCHANGED <<ledger, accounts, active, clocks, userTS, call, gossips, executed, raced>>

\* execute_all_unstable, one operation: whatever has a smaller sum than
\* valueTS counts as executed, the first unstable operation ends the loop, and
\* one that lacks a timestamp the loop needs ends the gossip.
RunUnstable ==
  LET q  == gossip.to
      L  == ledger[q]
      op == L[gossip.i]
      ts == TimestampOf(q, op)
  IN
  /\ gossip.pc = "run" /\ gossip.i <= Len(L)
  /\ \/ /\ op.prev = NoTS
        /\ gossip' = NoGossip
        /\ UNCHANGED <<ledger, accounts, valueTS, executed>>
     \/ /\ op.prev # NoTS /\ Sum(op.prev) < Sum(valueTS[q])
        /\ gossip' = [gossip EXCEPT !.i = @ + 1]
        /\ UNCHANGED <<ledger, accounts, valueTS, executed>>
     \/ /\ op.prev # NoTS /\ Sum(op.prev) >= Sum(valueTS[q])
        /\ ~Leq(op.prev, valueTS[q]) \/ ts = NoTS
        /\ gossip' = IF Leq(op.prev, valueTS[q]) THEN NoGossip
                     ELSE [gossip EXCEPT !.pc = "send", !.i = 1]
        /\ UNCHANGED <<ledger, accounts, valueTS, executed>>
     \/ /\ op.prev # NoTS /\ Sum(op.prev) >= Sum(valueTS[q])
        /\ Leq(op.prev, valueTS[q]) /\ ts # NoTS
        /\ valueTS' = [valueTS EXCEPT ![q] = Join(@, ts)]
        /\ accounts' = [accounts EXCEPT ![q] = Execute(@, op.request)]
        /\ executed' = [executed EXCEPT ![q][op.write] = @ + 1]
        /\ ledger' = [ledger EXCEPT ![q][gossip.i].live = TRUE]
        /\ gossip' = [gossip EXCEPT !.i = @ + 1]
  /\ UNCHANGED <<active, mapTS, written, userTS, call, gossips, raced>>

EndRun ==
  /\ gossip.pc = "run" /\ gossip.i > Len(ledger[gossip.to])
  /\ gossip' = [gossip EXCEPT !.pc = "send", !.i = 1]
  /\ UNCHANGED <<ledger, accounts, active, clocks, userTS, call, gossips, executed, raced>>

-----------------------------------------------------------------------------
Next ==
  \/ \E u \in User :
       \/ \E r \in Replica, req \in Writes[u] : AskWrite(u, r, req)
       \/ AddOperation(u) \/ ReadClock(u) \/ PutClock(u) \/ RaiseClock(u)
       \/ StampRequest(u) \/ StampReplica(u) \/ Answer(u)
       \/ \E r \in Replica, a \in Reads[u] : AskBalance(u, r, a)
       \/ Balance(u)
  \/ \E r \in Replica : StartGossip(r)
  \/ \E r \in MayStop : SetActive(r)
  \/ \E q \in Replica : SendTo(q)
  \/ EndGossip \/ TakeOperation \/ StampPrev \/ StampTS \/ CheckOperation \/ RaiseValue
  \/ ExecuteOperation \/ SortReceived \/ StartRun \/ RunUnstable \/ EndRun

Spec == Init /\ [][Next]_vars
-----------------------------------------------------------------------------
(* Properties. *)

\* The variables keep the types of their fields.
TypeOK ==
  /\ \A r \in Replica : \A j \in DOMAIN ledger[r] : ledger[r][j] \in Operation
  /\ accounts \in [Replica -> [Account -> {-1} \cup Nat]]
  /\ active \in [Replica -> BOOLEAN]
  /\ mapTS \in [Replica -> TS] /\ valueTS \in [Replica -> TS]
  /\ userTS \in [User -> TS]
  /\ written \in [1..3 -> Nat]
  /\ gossip.pc \in {"idle", "send", "take", "stamp", "mark", "check", "raise", "apply", "count",
                   "sorted", "run"}

\* No clock ever counts an update that its replica has not issued: whatever
\* replicas gossip and users carry from one replica to another, nobody waits
\* for an update that does not exist.
KnownUpdatesOnly ==
  LET Issued(t) == Leq(t, written)
  IN  /\ \A r \in Replica : Issued(mapTS[r]) /\ Issued(valueTS[r])
      /\ \A u \in User : Issued(userTS[u]) /\ Issued(call[u].prev)
      /\ \A r \in Replica : \A j \in DOMAIN ledger[r] :
           /\ ledger[r][j].prev # NoTS => Issued(ledger[r][j].prev)
           /\ ledger[r][j].ts # NoTS => Issued(ledger[r][j].ts)

\* However handlers overlap, and however often an operation is gossiped, and from
\* wherever, no replica executes it twice, as long as no handler has counted a
\* write from a stale clock or stamped an operation that is not its own.
ExecutedOnce == ~raced => \A r \in Replica, w \in Write : executed[r][w] <= 1

\* The requests in the ledgers, and those that users may make.
Requests(L) == {L[j].request : j \in DOMAIN L}
Asked == UNION {Requests(ledger[r]) : r \in Replica}
Asking == UNION {Writes[u] : u \in User}

\* Whatever overlaps, fails, or is gossiped, every replica's balances change only by a request of a
\* user that some ledger holds, an account is created once, a transfer moves money that is there,
\* and no request is lost.  (A transfer from an account to itself adds money to it: its credit is
\* computed from the balance before the debit.)
Bank == INSTANCE Accounts WITH asked <- Asked, balance <- accounts
ImplementsAccounts == Bank!Spec

\* A user that reads a balance while nobody gossips gets it from a replica that
\* has executed every write this user was answered before: balance waits for them.
ReadsAreUpToDate ==
  [][\A u \in User : gossip.pc = "idle" /\ call[u].pc = "read" /\ call'[u].pc = "idle" =>
       \A n \in 1..call[u].n : executed[call[u].at][<<u, n>>] > 0]_vars

\* The write w was answered.
Answered(w) == call[w[1]].n > w[2] \/ ~Busy(w[1])
\* Two answered operations in the ledger of a replica have timestamps of their
\* own, which identify them in gossip.
UniqueTimestamps ==
  \A r \in Replica : \A i, j \in DOMAIN ledger[r] :
    LET a == ledger[r][i]
        b == ledger[r][j]
    IN  i # j /\ Answered(a.write) /\ Answered(b.write)
          => a.prev # NoTS /\ TimestampOf(r, a) # TimestampOf(r, b)
=============================================================================
