--------------------------- MODULE MCChainReceipts ---------------------------
(***************************************************************************)
(* Instances of ChainReceipts for TLC: one output needs one confirmation,  *)
(* the other two; one user is the owner.                                   *)
(***************************************************************************)
EXTENDS ChainReceipts

MCOwnerOf == [o \in Outputs \union Sends |-> IF o \in Sends THEN "owner" ELSE "u1"]
MCNeeded == [o \in Outputs |-> IF o = "small" THEN 1 ELSE 2]
MCBalance == [u \in Users |-> 0]
=============================================================================
