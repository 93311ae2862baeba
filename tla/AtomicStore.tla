----------------------------- MODULE AtomicStore -----------------------------
(***************************************************************************)
(* What the storage process promises its clients: one value, on which      *)
(* increments, checked withdrawals and reads act atomically, and nothing   *)
(* else happens to it.                                                     *)
(***************************************************************************)
EXTENDS Integers

CONSTANTS Clients, InitialValue

VARIABLES
    value, \* the balance every client sees
    got    \* the value the last read of each client returned

Init ==
    /\ value = InitialValue
    /\ got = [c \in Clients |-> InitialValue]

Increment == value' = value + 1 /\ UNCHANGED got

Withdraw == value >= 1 /\ value' = value - 1 /\ UNCHANGED got

Read(c) == got' = [got EXCEPT ![c] = value] /\ UNCHANGED value

Next == Increment \/ Withdraw \/ \E c \in Clients : Read(c)

Spec == Init /\ [][Next]_<<value, got>>
=============================================================================
