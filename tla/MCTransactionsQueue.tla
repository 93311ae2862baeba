------------------------- MODULE MCTransactionsQueue -------------------------
(***************************************************************************)
(* Instances of TransactionsQueue for TLC.                                 *)
(***************************************************************************)
EXTENDS TransactionsQueue
=============================================================================
