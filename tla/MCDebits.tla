------------------------------- MODULE MCDebits -------------------------------
(***************************************************************************)
(* Instance of Debits for TLC.                                             *)
(***************************************************************************)
EXTENDS Debits, TLC

MCNever == MaxTime + 1

\* A cap of two debits, and a cap of one that expires at once.
MCRules == {[cap |-> 2, until |-> MCNever], [cap |-> 1, until |-> 0]}

\* Requests differ in nothing.
Symmetry == Permutations(Requests)
=============================================================================
