------------------------- MODULE MCOutgoingPayments -------------------------
(***************************************************************************)
(* Instances of OutgoingPayments for TLC.                                  *)
(***************************************************************************)
EXTENDS OutgoingPayments

LOCAL INSTANCE TLC

CONSTANTS u1, owner

\* One managed user who can pay twice, and the owner who can pay once.
MCUsers == {u1, owner}
MCInitBalance == [u \in MCUsers |-> IF u = u1 THEN 8 ELSE 2]

\* Calls, and invoices of one amount, can trade places: no property names one.
MCSymmetry == Permutations(Calls) \union Permutations(Invoices)
=============================================================================
