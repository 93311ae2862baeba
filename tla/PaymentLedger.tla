---------------------------- MODULE PaymentLedger ----------------------------
(***************************************************************************)
(* What the payment of external invoices promises, with no calls, locks,   *)
(* rails, lookups or restarts.  A payment reserves its whole cost, is then *)
(* delivered or not, and ends exactly once: settled, only after delivery,  *)
(* or refunded in full, only if it is not delivered then or later.  It is  *)
(* settled with the network fee rounded to a sat, up or down.  The surplus *)
(* of a settled payment goes to the owner at most once.                    *)
(***************************************************************************)
EXTENDS Integers

CONSTANTS Users, Owner, Invoices, Price, ServiceFee, NetFees, InitBalance

VARIABLES
    balance,   \* sats of every user
    status,    \* "none", "pending", "paid" or "failed"
    payer,     \* who reserved the payment
    delivered, \* invoices that were really paid
    netFee,    \* network fee of a delivered invoice, in whole sats
    fraction,  \* delivered invoices that cost a fraction of a sat more
    fee,       \* network fee an invoice is settled with
    due        \* settled invoices whose surplus may still be credited

vars == <<balance, status, payer, delivered, netFee, fraction, fee, due>>

Cost(u) == IF u = Owner THEN Price ELSE Price + ServiceFee

SurplusOf(u, f) == IF u # Owner /\ ServiceFee > f THEN ServiceFee - f ELSE 0

\* The network fee of an invoice in sats.
Rounded(i) == IF i \in fraction THEN {netFee[i], netFee[i] + 1} ELSE {netFee[i]}

Init ==
    /\ balance = InitBalance
    /\ status = [i \in Invoices |-> "none"]
    /\ payer = [i \in Invoices |-> Owner]
    /\ delivered = {}
    /\ netFee = [i \in Invoices |-> 0]
    /\ fraction = {}
    /\ fee = [i \in Invoices |-> 0]
    /\ due = {}

Reserve(u, i) ==
    /\ status[i] = "none" /\ balance[u] >= Cost(u)
    /\ balance' = [balance EXCEPT ![u] = @ - Cost(u)]
    /\ status' = [status EXCEPT ![i] = "pending"]
    /\ payer' = [payer EXCEPT ![i] = u]
    /\ UNCHANGED <<delivered, netFee, fraction, fee, due>>

Deliver(i) ==
    /\ status[i] = "pending" /\ i \notin delivered
    /\ delivered' = delivered \union {i}
    /\ \E f \in NetFees : netFee' = [netFee EXCEPT ![i] = f]
    /\ fraction' \in {fraction, fraction \union {i}}
    /\ UNCHANGED <<balance, status, payer, fee, due>>

Settle(i) ==
    /\ status[i] = "pending" /\ i \in delivered
    /\ status' = [status EXCEPT ![i] = "paid"]
    /\ \E f \in Rounded(i) : fee' = [fee EXCEPT ![i] = f]
    /\ due' = due \union {i}
    /\ UNCHANGED <<balance, payer, delivered, netFee, fraction>>

CreditSurplus(i) ==
    /\ i \in due
    /\ due' = due \ {i}
    /\ balance' = [balance EXCEPT ![Owner] = @ + SurplusOf(payer[i], fee[i])]
    /\ UNCHANGED <<status, payer, delivered, netFee, fraction, fee>>

SettleAndCredit(i) ==
    /\ status[i] = "pending" /\ i \in delivered
    /\ status' = [status EXCEPT ![i] = "paid"]
    /\ \E f \in Rounded(i) :
          /\ fee' = [fee EXCEPT ![i] = f]
          /\ balance' = [balance EXCEPT ![Owner] = @ + SurplusOf(payer[i], f)]
    /\ UNCHANGED <<payer, delivered, netFee, fraction, due>>

Refund(i) ==
    /\ status[i] = "pending" /\ i \notin delivered
    /\ status' = [status EXCEPT ![i] = "failed"]
    /\ balance' = [balance EXCEPT ![payer[i]] = @ + Cost(payer[i])]
    /\ UNCHANGED <<payer, delivered, netFee, fraction, fee, due>>

\* The owner loses the surplus of some settled payments: the credit is a write of
\* its own, which may fail, and a crash loses all that were not made yet.
ForfeitSurplus ==
    /\ due # {} /\ due' \in SUBSET due
    /\ UNCHANGED <<balance, status, payer, delivered, netFee, fraction, fee>>

Next ==
    \/ ForfeitSurplus
    \/ \E i \in Invoices :
          \/ \E u \in Users : Reserve(u, i)
          \/ Deliver(i) \/ Settle(i) \/ CreditSurplus(i)
          \/ SettleAndCredit(i) \/ Refund(i)

Spec == Init /\ [][Next]_vars
=============================================================================
