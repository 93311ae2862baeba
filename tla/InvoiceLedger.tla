---------------------------- MODULE InvoiceLedger ----------------------------
(***************************************************************************)
(* What users are promised about invoices of this node: a payment from the *)
(* network is credited at most once, an invoice is sold to another user at *)
(* most once and never after it was paid, and the fee of the sale reaches  *)
(* the owner at most once.                                                 *)
(***************************************************************************)
EXTENDS Integers

CONSTANTS Users, Owner, Invoices, OwnerOf, Amount, SendFee, InitBalance

VARIABLES
    balance, \* of each user
    reached, \* invoices a payment from the network has reached
    state,   \* of an invoice: open, sold to a user, credited from the network
    due      \* sold invoices whose fee the owner may still get

vars == <<balance, reached, state, due>>

Init ==
    /\ balance = InitBalance
    /\ reached = {} /\ due = {}
    /\ state = [i \in Invoices |-> "open"]

Arrive ==
    /\ reached \subseteq reached'
    /\ UNCHANGED <<balance, state, due>>

Receive(i) ==
    /\ i \in reached /\ state[i] # "network"
    /\ state' = [state EXCEPT ![i] = "network"]
    /\ balance' = [balance EXCEPT ![OwnerOf[i]] = @ + Amount]
    /\ UNCHANGED <<reached, due>>

Sell(u, i) ==
    LET fee == IF u = Owner THEN 0 ELSE SendFee
        debited == [balance EXCEPT ![u] = @ - Amount - fee]
    IN  /\ state[i] = "open" /\ balance[u] >= Amount + fee
        /\ state' = [state EXCEPT ![i] = "internal"]
        /\ balance' = [debited EXCEPT ![OwnerOf[i]] = @ + Amount]
        /\ due' = IF u = Owner THEN due ELSE due \union {i}
        /\ UNCHANGED reached

CollectFee(i) ==
    /\ i \in due /\ due' = due \ {i}
    /\ balance' = [balance EXCEPT ![Owner] = @ + SendFee]
    /\ UNCHANGED <<reached, state>>

LoseFees ==
    /\ due' \subseteq due
    /\ UNCHANGED <<balance, reached, state>>

Next ==
    \/ Arrive \/ LoseFees
    \/ \E i \in Invoices : Receive(i) \/ CollectFee(i)
    \/ \E u \in Users, i \in Invoices : Sell(u, i)

Spec == Init /\ [][Next]_vars
=============================================================================
