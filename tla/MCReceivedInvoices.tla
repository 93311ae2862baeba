-------------------------- MODULE MCReceivedInvoices --------------------------
(***************************************************************************)
(* Instances of ReceivedInvoices for TLC.                                  *)
(***************************************************************************)
EXTENDS ReceivedInvoices, TLC

MCOwnerOf == [i \in Invoices |-> IF i = "i1" THEN "owner" ELSE "u1"]
MCBalance == [u \in Users |-> IF u = "u1" THEN 3 ELSE 2]

\* Calls and streams differ in nothing; sound for the safety properties.
CallSymmetry == Permutations(Calls) \union Permutations(Streams)
=============================================================================
