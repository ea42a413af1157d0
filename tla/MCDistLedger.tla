---------------------------- MODULE MCDistLedger ----------------------------
(* Instances of DistLedger: u1 creates the account x and transfers money to it, *)
(* u2 creates x too.                                                           *)
EXTENDS DistLedger, TLC
CONSTANTS broker, x, u1, u2
MCCreate == [type |-> "create", account |-> x]
MCTransfer == [type |-> "transfer", account |-> [from |-> broker, dest |-> x, amount |-> 2]]
MCWrites  == u1 :> {MCCreate, MCTransfer} @@ u2 :> {MCCreate}
MCReads   == u1 :> {x} @@ u2 :> {}
MCMaxWrites == u1 :> 2 @@ u2 :> 1
MCOneWrite  == u1 :> 1 @@ u2 :> 1
=============================================================================
