---------------------------- MODULE ReceiptLedger ----------------------------
(***************************************************************************)
(* What users are promised about money arriving at their addresses: each   *)
(* output is credited at most once, to its user, in full, and only when it *)
(* is confirmed; an internal payment moves money between balances once.    *)
(***************************************************************************)
EXTENDS Integers

CONSTANTS Users, Owner, Outputs, Sends, OwnerOf, Amount, SendFee, InitBalance

VARIABLES
    balance,   \* of each user
    confirmed, \* outputs the chain has confirmed
    credited   \* outputs and internal payments that reached a balance

vars == <<balance, confirmed, credited>>

Init ==
    /\ balance = InitBalance
    /\ confirmed = {} /\ credited = {}

Confirm ==
    /\ confirmed \subseteq confirmed'
    /\ UNCHANGED <<balance, credited>>

Credit(o) ==
    /\ o \in confirmed \ credited
    /\ credited' = credited \union {o}
    /\ balance' = [balance EXCEPT ![OwnerOf[o]] = @ + Amount]
    /\ UNCHANGED confirmed

\* The payer pays the amount and, unless the owner, a fee to the owner.
Send(u, s) ==
    LET fee == IF u = Owner THEN 0 ELSE SendFee
        debited == [balance EXCEPT ![u] = @ - Amount - fee]
        paid == [debited EXCEPT ![OwnerOf[s]] = @ + Amount]
    IN  /\ s \notin credited /\ balance[u] >= Amount + fee
        /\ credited' = credited \union {s}
        /\ balance' = [paid EXCEPT ![Owner] = @ + fee]
        /\ UNCHANGED confirmed

Next ==
    \/ Confirm
    \/ \E o \in Outputs : Credit(o)
    \/ \E u \in Users, s \in Sends : Send(u, s)

Spec == Init /\ [][Next]_vars
=============================================================================
