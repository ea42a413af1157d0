------------------------------ MODULE Accounts ------------------------------
(***************************************************************************)
(* What DistLedger promises of the balances: the service as its users see  *)
(* it, without ledgers, timestamps, gossip or threads.  Every replica has  *)
(* balances of its own; they change only when it performs a request that   *)
(* was asked for, and a transfer gives what it takes.                      *)
(***************************************************************************)
EXTENDS Integers

CONSTANTS Replica, Account,
          Broker, Money,   \* the account that exists from the start, and its money
          Asking           \* the requests that users may ask for

VARIABLES asked,           \* the requests asked for so far
          balance          \* per replica: the balances, -1 for an account that does not exist

Init == /\ asked = {}
        /\ balance = [r \in Replica |-> [a \in Account |-> IF a = Broker THEN Money ELSE -1]]

Exists(r, a) == balance[r][a] >= 0

Create(r, a) == /\ ~Exists(r, a)
                /\ balance' = [balance EXCEPT ![r][a] = 0]

Transfer(r, from, dest, amount) ==
  /\ from # dest /\ Exists(r, from) /\ Exists(r, dest) /\ balance[r][from] >= amount
  /\ balance' = [balance EXCEPT ![r] = [a \in Account |->
                   CASE a = from -> balance[r][from] - amount
                     [] a = dest -> balance[r][dest] + amount
                     [] OTHER -> balance[r][a]]]

Perform(r, req) ==
  \/ req.type = "create" /\ Create(r, req.account)
  \/ /\ req.type = "transfer"
     /\ Transfer(r, req.account.from, req.account.dest, req.account.amount)

\* A request is asked for, or asked for and performed at a replica, as often as the replica likes.
Next == \E req \in Asking :
          /\ asked' = asked \cup {req}
          /\ UNCHANGED balance \/ \E r \in Replica : Perform(r, req)

Spec == Init /\ [][Next]_<<asked, balance>>
=============================================================================
