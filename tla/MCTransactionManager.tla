------------------------ MODULE MCTransactionManager ------------------------
(* Three TMs and two clients whose transactions share both keys: a reader    *)
(* that also writes, and a writer.                                           *)
EXTENDS TransactionManager, TLC

CONSTANTS c1, c2, k1, k2

MCTx == c1 :> [keys |-> <<k1, k2>>, reads |-> {k1}, writes |-> {k2}]
     @@ c2 :> [keys |-> <<k1, k2>>, reads |-> {}, writes |-> {k1, k2}]

\* Nobody suspects anybody; no LM ever sends a decision.
MCNoSuspects == [t \in TM |-> [s \in Slot |-> {}]]
MCNoCrash    == [t \in TM |-> {}]
MCTwoMayFail == {<<1, 2>>, <<2, 1>>}
MCOneMayFail == {<<1, 2>>}

\* TM1 suspects TM3 in timeslot 2, in which TM3 is to be crashed; the decision
\* of that timeslot queues TM2 before TM1.
MCSuspects  == [t \in TM |-> [s \in Slot |-> IF t = 1 /\ s = 2 THEN {3} ELSE {}]]
MCCrashedIn == [t \in TM |-> IF t = 3 THEN {2} ELSE {}]
MCDecisions == {[epoch |-> 2, table |-> k1 :> <<2, 1>>]}
=============================================================================
