--------------------------- MODULE ReceivedInvoices ---------------------------
(***************************************************************************)
(* Invoices of users: they are issued (NewInvoice), paid from the network  *)
(* and credited by the settle stream of LND or by the live operations of   *)
(* the liquidity provider (invoicePaidCb), or paid by another user of this *)
(* node inside the database (PayInternalInvoice); old ones are removed at  *)
(* start-up.  Streams that break are opened again from the last settle     *)
(* index the process has seen, which a restart forgets.                    *)
(***************************************************************************)
EXTENDS Integers, Sequences, FiniteSets, Functions

CONSTANTS
    Users, Owner,   \* user accounts; the one of the application's owner
    Invoices,       \* invoices users may issue, each of them once
    AtProvider,     \* those of the liquidity provider; the others are LND's
    OwnerOf,        \* the user an invoice is paid to
    Amount,         \* of every invoice
    SendFee,        \* service fee of an internal payment by a managed user
    InitBalance,
    Calls,          \* PayInvoice calls under way at a time
    Streams,        \* invoice streams that may be open at a time
    MaxCallbacks,   \* invoicePaidCb calls under way for one invoice
    Unlucky         \* invoices whose credit transaction may fail

ASSUME InvoiceAssumption ==
    /\ Invoices # {}
    /\ Owner \in Users /\ OwnerOf \in [Invoices -> Users]
    /\ AtProvider \subseteq Invoices /\ Unlucky \subseteq Invoices
    /\ Amount \in Nat \ {0} /\ SendFee \in Nat \ {0}
    /\ InitBalance \in [Users -> Nat]
    /\ MaxCallbacks \in Nat \ {0}

\* Accounts and invoices are rows of a database.
ASSUME FiniteAssumption == IsFiniteSet(Users) /\ IsFiniteSet(Invoices)

VARIABLES
    balance,    \* User.balance_sats
    row,        \* UserReceivingInvoice: paid_at_unix, paidByLnd
    expired,    \* past expires_at_unix
    settled,    \* invoices settled at LND, in the order of settle_index
    delivered,  \* invoices paid at the provider
    phase,      \* "down"; "warming": LND not ready; "booting"; "serving"
    cursor,     \* per stream: index of the last settle event sent; -1: closed
    known,      \* latestKnownSettleIndex
    retrying,   \* intervals of RestartStreams
    arriving,   \* invoicePaidCb calls before their transaction
    pc, payer, inv \* of each PayInvoice call: await, user, invoice

linkVars == <<cursor, known, retrying>>
callVars == <<pc, payer, inv>>
worldVars == <<expired, settled, delivered>>
vars == <<balance, row, worldVars, phase, linkVars, arriving, callVars>>

Issued == {i \in Invoices : row[i] # "none"}
IsSettled(i) == \E k \in 1..Len(settled) : settled[k] = i

Init ==
    /\ balance = InitBalance
    /\ row = [i \in Invoices |-> "none"] /\ expired = {}
    /\ settled = <<>> /\ delivered = {}
    /\ phase = "warming"
    /\ cursor \in {[s \in Streams |-> IF s = first THEN 0 ELSE -1] : first \in Streams}
    /\ known = 0 /\ retrying = 0
    /\ arriving = [i \in Invoices |-> 0]
    /\ pc = [c \in Calls |-> "idle"]
    /\ payer \in [Calls -> {Owner}] /\ inv \in [Calls -> {CHOOSE i \in Invoices : TRUE}]

-----------------------------------------------------------------------------
(* Payers on the network, LND and the provider.                            *)

Expire(i) ==
    /\ i \in Issued \ expired /\ expired' = expired \union {i}
    /\ UNCHANGED <<balance, row, settled, delivered, phase, linkVars, arriving, callVars>>

\* An invoice can be settled once, by a payment before it expires.
SettleAtLnd(i) ==
    /\ i \in Issued \ (AtProvider \union expired) /\ ~IsSettled(i)
    /\ settled' = Append(settled, i)
    /\ UNCHANGED <<balance, row, expired, delivered, phase, linkVars, arriving, callVars>>

DeliverAtProvider(i) ==
    /\ i \in (Issued \intersect AtProvider) \ (expired \union delivered)
    /\ delivered' = delivered \union {i}
    /\ UNCHANGED <<balance, row, expired, settled, phase, linkVars, arriving, callVars>>

\* A live operation of the provider: it may be lost, and that it comes again
\* is not excluded.
ProviderReports(i) ==
    /\ phase = "serving" /\ i \in delivered /\ arriving[i] < MaxCallbacks
    /\ arriving' = [arriving EXCEPT ![i] = @ + 1]
    /\ UNCHANGED <<balance, row, worldVars, phase, linkVars, callVars>>

-----------------------------------------------------------------------------
(* The settle stream of LND.                                               *)

\* Mutant: a new stream only brings what settles from now on.
MutResumeAt == Len(settled)

\* Settle index zero asks LND for no earlier events.
ResumeAt == IF known = 0 THEN Len(settled) ELSE known

\* LND sends the next event; the process notes its index before it is handled.
InvoiceMessage(s) ==
    /\ cursor[s] \in 0..(Len(settled) - 1)
    /\ LET k == cursor[s] + 1
           i == settled[k]
       IN  /\ arriving[i] < MaxCallbacks
           /\ arriving' = [arriving EXCEPT ![i] = @ + 1]
           /\ cursor' = [cursor EXCEPT ![s] = k]
           /\ known' = k
    /\ UNCHANGED <<balance, row, worldVars, phase, retrying, callVars>>

\* RestartStreams does nothing until LND was ready once.
StreamBreaks(s) ==
    /\ cursor[s] >= 0
    /\ cursor' = [cursor EXCEPT ![s] = -1]
    /\ retrying' = IF phase = "warming" THEN retrying ELSE retrying + 1
    /\ UNCHANGED <<balance, row, worldVars, phase, known, arriving, callVars>>

\* The interval of RestartStreams reaches LND and Warmup subscribes.  Another
\* of its callbacks may be under way and subscribe as well.
Rewarm(s) ==
    /\ retrying > 0 /\ cursor[s] = -1
    /\ cursor' = [cursor EXCEPT ![s] = ResumeAt]
    /\ retrying' \in {retrying - 1, retrying}
    /\ retrying' + Cardinality({r \in Streams : cursor'[r] >= 0}) <= Cardinality(Streams)
    /\ UNCHANGED <<balance, row, worldVars, phase, known, arriving, callVars>>

-----------------------------------------------------------------------------
(* Crediting.                                                              *)

\* Mutant: an invoice LND has paid already is credited again.
MutCreditsNetwork(i) == row[i] \in {"unpaid", "internal", "network"}

\* CreditIncomingInvoice for a payment from the network.  One that was paid
\* internally is credited too: the network payment was received on top.
CreditsNetwork(i) == row[i] \in {"unpaid", "internal"}

\* Invoices without a row are taken for the node's own; a failing credit is
\* logged and not tried again.
InvoicePaidCb(i) ==
    /\ arriving[i] > 0
    /\ arriving' = [arriving EXCEPT ![i] = @ - 1]
    /\ \/ /\ CreditsNetwork(i)
          /\ row' = [row EXCEPT ![i] = "network"]
          /\ balance' = [balance EXCEPT ![OwnerOf[i]] = @ + Amount]
       \/ /\ ~CreditsNetwork(i) \/ i \in Unlucky
          /\ UNCHANGED <<balance, row>>
    /\ UNCHANGED <<worldVars, phase, linkVars, callVars>>

NewInvoice(i) ==
    /\ phase = "serving" /\ row[i] = "none"
    /\ row' = [row EXCEPT ![i] = "unpaid"]
    /\ UNCHANGED <<balance, worldVars, phase, linkVars, arriving, callVars>>

-----------------------------------------------------------------------------
(* PayInvoice for an invoice of this node.                                 *)

ServiceFee(u) == IF u = Owner THEN 0 ELSE SendFee

\* The row is read and seen unpaid.
Begin(c, u, i) ==
    /\ phase = "serving" /\ pc[c] = "idle" /\ row[i] = "unpaid"
    /\ pc' = [pc EXCEPT ![c] = "read"]
    /\ payer' = [payer EXCEPT ![c] = u] /\ inv' = [inv EXCEPT ![c] = i]
    /\ UNCHANGED <<balance, row, worldVars, phase, linkVars, arriving>>

\* Mutant: the lock is not looked at.
MutIsLocked(i) == i \in {}

IsLocked(i) == \E c \in Calls : pc[c] = "locked" /\ inv[c] = i

\* invoiceLock: one call at a time per invoice, the others are refused.
TakeLock(c) ==
    /\ pc[c] = "read"
    /\ pc' = [pc EXCEPT ![c] = IF IsLocked(inv[c]) THEN "idle" ELSE "locked"]
    /\ UNCHANGED <<balance, row, worldVars, phase, linkVars, arriving, payer, inv>>

\* Mutant: the fee is not looked at.
MutSellsNoFee(u, i) == balance[u] >= Amount /\ row[i] = "unpaid"

\* What the transaction demands of the balance and of the row it reads again.
Sells(u, i) == balance[u] >= Amount + ServiceFee(u) /\ row[i] = "unpaid"

\* PayInternalInvoice: one transaction debits the payer and credits the invoice.
PayInternal(c) ==
    LET u == payer[c]
        i == inv[c]
        debited == [balance EXCEPT ![u] = @ - Amount - ServiceFee(u)]
    IN  /\ pc[c] = "locked" /\ Sells(u, i)
        /\ balance' = [debited EXCEPT ![OwnerOf[i]] = @ + Amount]
        /\ row' = [row EXCEPT ![i] = "internal"]
        /\ pc' = [pc EXCEPT ![c] = IF u = Owner THEN "idle" ELSE "fee"]
        /\ UNCHANGED <<worldVars, phase, linkVars, arriving, payer, inv>>

\* It is refused, or the database fails.
PayInternalFails(c) ==
    /\ pc[c] = "locked" /\ pc' = [pc EXCEPT ![c] = "idle"]
    /\ UNCHANGED <<balance, row, worldVars, phase, linkVars, arriving, payer, inv>>

\* The owner's fee is a write of its own, after the lock is released; it is
\* lost if the write, or a side effect of the payment before it, fails.
CreditFee(c) ==
    /\ pc[c] = "fee" /\ pc' = [pc EXCEPT ![c] = "idle"]
    /\ balance' \in {[balance EXCEPT ![Owner] = @ + SendFee], balance}
    /\ UNCHANGED <<row, worldVars, phase, linkVars, arriving, payer, inv>>

-----------------------------------------------------------------------------
(* Start and stop.                                                         *)

Ready ==
    /\ phase = "warming" /\ phase' = "booting"
    /\ UNCHANGED <<balance, row, worldVars, linkVars, arriving, callVars>>

\* RemoveOldUnpaidInvoices, the last step before requests are served.
CleanupOldUnpaidInvoices ==
    /\ phase = "booting" /\ phase' = "serving"
    /\ row' = [i \in Invoices |->
                  IF row[i] = "unpaid" /\ i \in expired THEN "removed" ELSE row[i]]
    /\ UNCHANGED <<balance, worldVars, linkVars, arriving, callVars>>

Crash ==
    /\ phase # "down" /\ phase' = "down"
    /\ cursor' = [s \in Streams |-> -1] /\ known' = 0 /\ retrying' = 0
    /\ arriving' = [i \in Invoices |-> 0]
    /\ pc' = [c \in Calls |-> "idle"]
    /\ UNCHANGED <<balance, row, worldVars, payer, inv>>

Start(s) ==
    /\ phase = "down" /\ phase' = "warming"
    /\ cursor' = [cursor EXCEPT ![s] = ResumeAt]
    /\ UNCHANGED <<balance, row, worldVars, known, retrying, arriving, callVars>>

World(i) ==
    Expire(i) \/ SettleAtLnd(i) \/ DeliverAtProvider(i) \/ ProviderReports(i)

Link(s) == InvoiceMessage(s) \/ StreamBreaks(s) \/ Rewarm(s) \/ Start(s)

Pay(c) ==
    \/ \E u \in Users, i \in Invoices : Begin(c, u, i)
    \/ TakeLock(c) \/ PayInternal(c) \/ PayInternalFails(c) \/ CreditFee(c)

Next ==
    \/ \E i \in Invoices : World(i) \/ InvoicePaidCb(i) \/ NewInvoice(i)
    \/ \E s \in Streams : Link(s)
    \/ \E c \in Calls : Pay(c)
    \/ Ready \/ CleanupOldUnpaidInvoices \/ Crash

Spec == Init /\ [][Next]_vars

-----------------------------------------------------------------------------
(* Properties.                                                             *)

TypeOK ==
    /\ balance \in [Users -> Nat]
    /\ row \in [Invoices -> {"none", "unpaid", "internal", "network", "removed"}]
    /\ expired \subseteq Invoices /\ delivered \subseteq AtProvider
    /\ settled \in Seq(Invoices \ AtProvider)
    /\ phase \in {"down", "warming", "booting", "serving"}
    /\ cursor \in [Streams -> Int] /\ known \in Nat /\ retrying \in Nat
    /\ arriving \in [Invoices -> 0..MaxCallbacks]
    /\ pc \in [Calls -> {"idle", "read", "locked", "fee"}]
    /\ payer \in [Calls -> Users] /\ inv \in [Calls -> Invoices]

Reached == delivered \union {i \in Invoices : IsSettled(i)}

\* Calls under way and network credits only concern payments that happened.
CreditInv ==
    \A i \in Invoices : arriving[i] > 0 \/ row[i] = "network" => i \in Reached

\* No stream and no restart asks LND for more than it has settled.
IndexInv ==
    /\ \A s \in Streams : cursor[s] <= Len(settled)
    /\ known <= Len(settled)

\* One call per invoice in its transaction; one that owes its fee to the owner.
CallInv ==
    /\ \A c \in Calls : pc[c] = "fee" => row[inv[c]] \in {"internal", "network"}
    /\ \A c, d \in Calls :
          pc[c] = pc[d] /\ pc[c] \in {"locked", "fee"} /\ inv[c] = inv[d] => c = d

\* What makes single credits single, whatever streams and restarts repeat.
SingleInv == CreditInv /\ IndexInv /\ CallInv

SoldOrPaid ==
    [i \in Invoices |-> IF row[i] \in {"internal", "network"} THEN row[i] ELSE "open"]
FeesDue == {inv[c] : c \in {d \in Calls : pc[d] = "fee"}}

\* The balances are what there was and the credited payments from the network,
\* less the fees of sales the owner has not got: no sale, repeated event or
\* restart makes money, and users lose none but those fees.
Network == {i \in Invoices : row[i] = "network"}
Sold == {i \in Invoices : row[i] \in {"internal", "network"}}

BooksInv ==
    LET balances == SumFunctionOnSet(balance, Users)
        brought == SumFunctionOnSet(InitBalance, Users) + Amount * Cardinality(Network)
    IN  /\ balances + SendFee * Cardinality(FeesDue) <= brought
        /\ balances + SendFee * Cardinality(Sold) >= brought

\* The credits are single and the books are kept.
InvoiceInv == SingleInv /\ BooksInv

\* Streams, callbacks, calls and restarts implement the ledger of invoices.
Ledger == INSTANCE InvoiceLedger WITH
    reached <- Reached, state <- SoldOrPaid, due <- FeesDue

LedgerSpec == Ledger!Spec

(* LND hands over events, the program takes its steps and retries.         *)
Fairness ==
    /\ \A s \in Streams : SF_vars(InvoiceMessage(s)) /\ WF_vars(Rewarm(s))
    /\ \A i \in Invoices : WF_vars(InvoicePaidCb(i))

FairSpec == Spec /\ Fairness

\* The event of invoice i is still to come: this process has seen an event
\* before it, and no stream has been opened past it.
Coming(i) ==
    \E k \in 1..Len(settled) :
        settled[k] = i /\ known \in 1..(k - 1) /\ \A s \in Streams : cursor[s] < k

Watching == retrying > 0 \/ \E s \in Streams : cursor[s] >= 0

\* While the program serves, streams may break as often as they like: once it
\* has seen a settle event, every later one is credited.
SettledCredited ==
    \A i \in Invoices \ Unlucky :
        phase = "serving" /\ Coming(i) /\ Watching /\ row[i] \in {"unpaid", "internal"}
            ~> row[i] = "network" \/ phase = "down"
=============================================================================
