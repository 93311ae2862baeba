--------------------------- MODULE OutgoingPayments ---------------------------
(***************************************************************************)
(* Payment of external Lightning invoices by the users of one application: *)
(* PaymentManager.PayInvoice / PayExternalInvoice, the start-up recovery   *)
(* checkPaymentStatus, the LND client's PayInvoice with its trackPayment   *)
(* fallback, and the rows and balances these write.                        *)
(*                                                                         *)
(* A call is one running PayInvoice; its pc names the await it stands at,  *)
(* so that calls interleave exactly at awaits, as in the single-threaded   *)
(* program.  A database transaction is one step (TransactionsQueue models  *)
(* how the storage process makes it so).  LND and the liquidity provider   *)
(* are the environment: remote[i] is what is true there of invoice i.      *)
(***************************************************************************)
EXTENDS Integers, FiniteSets, Functions

CONSTANTS
    Users,           \* user accounts
    Owner,           \* the account of the application's owner, one of Users
    Invoices,        \* external invoices, each with an amount
    Calls,           \* concurrent PayInvoice calls
    Price,           \* amount of every invoice (numSatoshis)
    ServiceFee,      \* fee reserved from a managed user on top of Price
    NetFees,         \* network fees the remote side may charge, in whole sats
    InitBalance,     \* balances at the start
    Rails,           \* rails the configuration allows: "lnd", "provider"
    LateWindow,      \* not-found answers LND may give about a request it still
                     \* registers later: 0 when a closed stream leaves no request
    DecodeMayFail,   \* decodePayReq may fail right after the stream broke
    HistoryLoss,     \* LND may lose its payment history (node replaced)
    ConnectedAtBoot  \* the provider client is ready while recovery runs; the
                     \* program attaches nostr only after recovery (FALSE)

CONSTANT NoInvoice   \* no row is being recovered

ASSUME MoneyAssumption ==
    /\ Owner \in Users
    /\ Price \in Nat \ {0}
    /\ ServiceFee \in Nat
    /\ NetFees \subseteq Nat /\ NetFees # {}
    /\ InitBalance \in [Users -> Nat]

ASSUME FiniteAssumption == IsFiniteSet(Users) /\ IsFiniteSet(Invoices)

ASSUME EnvironmentAssumption ==
    /\ Rails \subseteq {"lnd", "provider"}
    /\ LateWindow \in 0..2
    /\ {DecodeMayFail, HistoryLoss, ConnectedAtBoot} \subseteq BOOLEAN
    /\ NoInvoice \notin Invoices

VARIABLES
    balance,     \* User.balance_sats
    status,      \* UserInvoicePayment: no row, or the sign of paid_at_unix
    payer,       \* user of the row
    rail,        \* liquidityProvider column of the row
    routingFees, \* routing_fees of the row: the network fee it is settled with
    indexSaved,  \* paymentIndex > 0 in the row
    indexWrites, \* un-awaited SetExternalPaymentIndex writes under way
    locked,      \* InvoiceLock.locked
    pc, user, inv, gotIndex, misses, \* per call: await, arguments, locals
    remote,      \* truth at LND or at the provider
    netFee,      \* fee charged by the remote side on success, in whole sats
    fraction,    \* payments over LND that cost some millisats more than that
    forgotten,   \* payments LND has lost all record of
    phase,       \* checkPaymentStatus running, or serving requests
    todo, cur, tries, \* rows left to recover, row under recovery, lookups missed
    provReady    \* LiquidityProvider.IsReady()

rowVars == <<status, payer, rail, routingFees>>
indexVars == <<indexSaved, indexWrites>>
callVars == <<pc, user, inv, gotIndex, misses>>
remoteVars == <<remote, netFee, fraction, forgotten>>
bootVars == <<phase, todo, cur, tries, provReady>>
vars == <<balance, rowVars, indexVars, locked, callVars, remoteVars, bootVars>>

-----------------------------------------------------------------------------
(* Amounts.  The owner pays no service fee and earns the surplus of others. *)

ServiceFeeOf(u) == IF u = Owner THEN 0 ELSE ServiceFee
Total(u) == Price + ServiceFeeOf(u)

\* Mutant: the owner earns the whole service fee.
MutSurplus(u, fee) == IF u # Owner THEN ServiceFee ELSE 0

\* What is left of the reserved service fee once a network fee is paid.
Surplus(u, fee) == IF u # Owner /\ ServiceFee > fee THEN ServiceFee - fee ELSE 0

\* The network fee by the live payment: millisats are rounded up to a sat.  A
\* provider charges whole sats.  (Recovery takes LND's fee_sat, rounded down.)
RoundedUp(i) == IF i \in fraction THEN netFee[i] + 1 ELSE netFee[i]

Credit(b, u, n) == [b EXCEPT ![u] = @ + n]

\* Mutant: only rows with a payment index are recovered.
MutPendingRows == {i \in Invoices : status[i] = "pending" /\ indexSaved[i]}

\* Rows GetPendingPayments returns: paid_at_unix = 0.
PendingRows == {i \in Invoices : status[i] = "pending"}

(* What a lookup by payment hash (LND) or GetPaymentState (provider) sees. *)
Unknown(i) == remote[i] \in {"idle", "sent"} \/ i \in forgotten
Seen(i, s) == remote[i] = s /\ i \notin forgotten

(* LND may still register a request after answering not-found n times only *)
(* inside the window; a provider answers the state of requests it received. *)
NotFoundAfter(i, n) ==
    \/ remote[i] = "idle" \/ i \in forgotten
    \/ remote[i] = "sent" /\ n < LateWindow

Init ==
    /\ balance = InitBalance
    /\ status = [i \in Invoices |-> "none"]
    /\ payer = [i \in Invoices |-> Owner]
    /\ rail = [i \in Invoices |-> "lnd"]
    /\ routingFees = [i \in Invoices |-> 0]
    /\ indexSaved = [i \in Invoices |-> FALSE]
    /\ indexWrites = {}
    /\ locked = {}
    /\ pc = [c \in Calls |-> "idle"]
    /\ user = [c \in Calls |-> Owner]
    /\ inv = [c \in Calls |-> NoInvoice]
    /\ gotIndex = [c \in Calls |-> FALSE]
    /\ misses = [c \in Calls |-> 0]
    /\ remote = [i \in Invoices |-> "idle"]
    /\ netFee = [i \in Invoices |-> 0]
    /\ fraction = {} /\ forgotten = {}
    /\ phase = "recovering" /\ todo = {} /\ cur = NoInvoice /\ tries = 0
    /\ provReady = ConnectedAtBoot

-----------------------------------------------------------------------------
(* One PayInvoice call.                                                    *)

At(c, s) == pc[c] = s
Goto(c, s) == pc' = [pc EXCEPT ![c] = s]

\* The call returns or throws; its frame is gone.
Return(c) ==
    /\ pc' = [pc EXCEPT ![c] = "idle"]
    /\ user' = [user EXCEPT ![c] = Owner]
    /\ inv' = [inv EXCEPT ![c] = NoInvoice]
    /\ gotIndex' = [gotIndex EXCEPT ![c] = FALSE]
    /\ misses' = [misses EXCEPT ![c] = 0]

Unlock(c) == locked' = locked \ {inv[c]}

\* A call enters, reads the payment row and goes on unless it is paid.
Begin(c, u, i) ==
    /\ phase = "serving" /\ At(c, "idle")
    /\ status[i] # "paid"
    /\ user' = [user EXCEPT ![c] = u]
    /\ inv' = [inv EXCEPT ![c] = i]
    /\ Goto(c, "admitted")
    /\ UNCHANGED <<gotIndex, misses, balance, rowVars, indexVars, locked, remoteVars, bootVars>>

\* Mutant: the lock is taken without a test.
MutTakeLock(c) ==
    /\ At(c, "admitted")
    /\ locked' = locked \union {inv[c]}
    /\ Goto(c, "locked")
    /\ UNCHANGED <<user, inv, gotIndex, misses, balance, rowVars, indexVars, remoteVars, bootVars>>

\* The in-memory invoice lock: test and set with no await between.
TakeLock(c) ==
    /\ At(c, "admitted")
    /\ IF inv[c] \in locked
       THEN Return(c) /\ UNCHANGED locked
       ELSE /\ locked' = locked \union {inv[c]}
            /\ Goto(c, "locked")
            /\ UNCHANGED <<user, inv, gotIndex, misses>>
    /\ UNCHANGED <<balance, rowVars, indexVars, remoteVars, bootVars>>

\* PayExternalInvoice reads the row again and refuses any existing one.
CheckRow(c) ==
    /\ At(c, "locked")
    /\ IF status[inv[c]] = "none"
       THEN Goto(c, "clear") /\ UNCHANGED <<user, inv, gotIndex, misses, locked>>
       ELSE Return(c) /\ Unlock(c)
    /\ UNCHANGED <<balance, rowVars, indexVars, remoteVars, bootVars>>

\* Mutant: the balance is not tested.
MutCanReserve(c) == status[inv[c]] = "none"

\* beforeOutInvoicePayment picks a rail; the "payment started" transaction
\* takes the whole cost and adds the pending row.
CanReserve(c) ==
    /\ balance[user[c]] >= Total(user[c])
    /\ status[inv[c]] = "none"

Reserve(c, r) ==
    /\ At(c, "clear")
    /\ r = "provider" => provReady
    /\ CanReserve(c)
    /\ balance' = [balance EXCEPT ![user[c]] = @ - Total(user[c])]
    /\ status' = [status EXCEPT ![inv[c]] = "pending"]
    /\ payer' = [payer EXCEPT ![inv[c]] = user[c]]
    /\ rail' = [rail EXCEPT ![inv[c]] = r]
    /\ Goto(c, "ready")
    /\ UNCHANGED <<user, inv, gotIndex, misses, routingFees, indexVars, locked, remoteVars, bootVars>>

\* The transaction is rolled back and the error leaves through the unlock.
ReserveFails(c) ==
    /\ At(c, "clear")
    /\ ~CanReserve(c)
    /\ Return(c) /\ Unlock(c)
    /\ UNCHANGED <<balance, rowVars, indexVars, remoteVars, bootVars>>

\* lnd.PayInvoice throws before anything is sent: outgoing operations locked,
\* LND unhealthy, provider not ready or dearer than the fee limit.
Refused(c) ==
    /\ At(c, "ready")
    /\ Goto(c, "confirm")
    /\ UNCHANGED <<user, inv, gotIndex, misses, balance, rowVars, indexVars, locked, remoteVars, bootVars>>

Send(c) ==
    /\ At(c, "ready")
    /\ remote' = [remote EXCEPT ![inv[c]] = "sent"]
    /\ Goto(c, "waiting")
    /\ UNCHANGED <<user, inv, gotIndex, misses, netFee, fraction, forgotten, balance, rowVars, indexVars, locked, bootVars>>

\* The first LND update carries the payment index; its write is not awaited.
IndexArrives(c) ==
    /\ At(c, "waiting") /\ rail[inv[c]] = "lnd"
    /\ ~gotIndex[c] /\ ~Unknown(inv[c])
    /\ gotIndex' = [gotIndex EXCEPT ![c] = TRUE]
    /\ indexWrites' = indexWrites \union {inv[c]}
    /\ UNCHANGED <<pc, user, inv, misses, indexSaved, balance, rowVars, locked, remoteVars, bootVars>>

SaveIndex(i) ==
    /\ i \in indexWrites
    /\ indexWrites' = indexWrites \ {i}
    /\ indexSaved' = [indexSaved EXCEPT ![i] = TRUE]
    /\ UNCHANGED <<balance, rowVars, locked, callVars, remoteVars, bootVars>>

\* The payment stream, the answer after the index timeout or the provider's
\* reply gives the final state.
Answered(c) ==
    /\ At(c, "waiting")
    /\ \/ Seen(inv[c], "succeeded") /\ Goto(c, "finalize")
       \/ Seen(inv[c], "failed") /\ Goto(c, "confirm")
    /\ UNCHANGED <<user, inv, gotIndex, misses, balance, rowVars, indexVars, locked, remoteVars, bootVars>>

\* The provider answers with an error, or its reply does not parse.  It may
\* have refused the request, or hold the payment without a final state.
ProviderErrors(c) ==
    /\ At(c, "waiting") /\ rail[inv[c]] = "provider"
    /\ remote[inv[c]] # "sent"
    /\ Goto(c, "confirm")
    /\ UNCHANGED <<user, inv, gotIndex, misses, balance, rowVars, indexVars, locked, remoteVars, bootVars>>

\* The requests still in transit that a closed stream may lose or deliver.
InTransit == {i \in Invoices : remote[i] = "sent" /\ rail[i] = "lnd"}
Closed(S) ==
    LET ended == IF LateWindow = 0 THEN S \intersect InTransit ELSE {}
    IN  \E T \in SUBSET ended :
            remote' = [i \in Invoices |->
                          IF i \notin ended THEN remote[i]
                          ELSE IF i \in T THEN "inflight" ELSE "idle"]

\* The stream errors or shows no index in time: fall back to trackPayment, or
\* throw at once when the invoice cannot be decoded.
StreamBreaks(c) ==
    /\ At(c, "waiting") /\ rail[inv[c]] = "lnd"
    /\ Closed({inv[c]})
    /\ \/ Goto(c, "tracking")
       \/ DecodeMayFail /\ Goto(c, "confirm")
    /\ UNCHANGED <<user, inv, gotIndex, misses, netFee, fraction, forgotten, balance, rowVars, indexVars, locked, bootVars>>

TrackAnswer(c) ==
    /\ At(c, "tracking")
    /\ \/ Seen(inv[c], "succeeded") /\ Goto(c, "finalize")
       \/ Seen(inv[c], "failed") /\ Goto(c, "confirm")
    /\ UNCHANGED <<user, inv, gotIndex, misses, balance, rowVars, indexVars, locked, remoteVars, bootVars>>

\* Mutant: the first miss gives the payment up.
MutTrackMiss(c) ==
    /\ At(c, "tracking")
    /\ NotFoundAfter(inv[c], misses[c])
    /\ misses' = [misses EXCEPT ![c] = @ + 1]
    /\ Goto(c, "confirm")
    /\ UNCHANGED <<user, inv, gotIndex, balance, rowVars, indexVars, locked, remoteVars, bootVars>>

\* "payment isn't initiated"; the third in a row gives the payment up.
TrackMiss(c) ==
    /\ At(c, "tracking")
    /\ NotFoundAfter(inv[c], misses[c])
    /\ misses' = [misses EXCEPT ![c] = @ + 1]
    /\ IF misses[c] = 2 THEN Goto(c, "confirm") ELSE UNCHANGED pc
    /\ UNCHANGED <<user, inv, gotIndex, balance, rowVars, indexVars, locked, remoteVars, bootVars>>

\* Any other error starts the count again.
TrackError(c) ==
    /\ At(c, "tracking") /\ misses[c] > 0
    /\ misses' = [misses EXCEPT ![c] = 0]
    /\ UNCHANGED <<pc, user, inv, gotIndex, balance, rowVars, indexVars, locked, remoteVars, bootVars>>

\* Mutant: an index already seen does not forbid the refund.
MutNoIndexTest(c) ==
    \/ Seen(inv[c], "failed") /\ (rail[inv[c]] = "provider" => provReady)
    \/ rail[inv[c]] = "lnd" /\ NotFoundAfter(inv[c], misses[c])

(* isOutgoingPaymentConfirmedFailed and the refund decision of the catch.  *)
ConfirmedFailed(c) ==
    \/ Seen(inv[c], "failed") /\ (rail[inv[c]] = "provider" => provReady)
    \/ /\ rail[inv[c]] = "lnd"
       /\ NotFoundAfter(inv[c], misses[c])
       /\ ~gotIndex[c]

Confirm(c) ==
    /\ At(c, "confirm") /\ ConfirmedFailed(c)
    /\ Goto(c, "refund")
    /\ UNCHANGED <<user, inv, gotIndex, misses, balance, rowVars, indexVars, locked, remoteVars, bootVars>>

\* Mutant: the error leaves without the unlock.
MutLeavePending(c) ==
    /\ At(c, "confirm")
    /\ Return(c)
    /\ UNCHANGED <<locked, balance, rowVars, indexVars, remoteVars, bootVars>>

\* The lookup errs or is ambiguous: the row stays pending until a restart.
LeavePending(c) ==
    /\ At(c, "confirm")
    /\ Return(c) /\ Unlock(c)
    /\ UNCHANGED <<balance, rowVars, indexVars, remoteVars, bootVars>>

\* Mutant: the refund leaves the row pending.
MutRefund(c) ==
    /\ At(c, "refund")
    /\ balance' = Credit(balance, user[c], Total(user[c]))
    /\ Return(c) /\ Unlock(c)
    /\ UNCHANGED <<rowVars, indexVars, remoteVars, bootVars>>

\* "refund failed pending payment"
Refund(c) ==
    /\ At(c, "refund")
    /\ balance' = Credit(balance, user[c], Total(user[c]))
    /\ status' = [status EXCEPT ![inv[c]] = "failed"]
    /\ Return(c) /\ Unlock(c)
    /\ UNCHANGED <<payer, rail, routingFees, indexVars, remoteVars, bootVars>>

RefundFails(c) ==
    /\ At(c, "refund")
    /\ Return(c) /\ Unlock(c)
    /\ UNCHANGED <<balance, rowVars, indexVars, remoteVars, bootVars>>

Finalize(c) ==
    /\ At(c, "finalize")
    /\ status' = [status EXCEPT ![inv[c]] = "paid"]
    /\ routingFees' = [routingFees EXCEPT ![inv[c]] = RoundedUp(inv[c])]
    /\ Goto(c, "surplus") /\ Unlock(c)
    /\ UNCHANGED <<user, inv, gotIndex, misses, payer, rail, balance, indexVars, remoteVars, bootVars>>

\* Mutant: a failing write of a success is taken for a failed payment.
MutFinalizeFails(c) ==
    /\ At(c, "finalize")
    /\ Goto(c, "refund")
    /\ UNCHANGED <<user, inv, gotIndex, misses, balance, rowVars, indexVars, locked, remoteVars, bootVars>>

\* The write of a success throws into the same catch as a failed payment.
FinalizeFails(c) ==
    /\ At(c, "finalize")
    /\ Goto(c, "confirm")
    /\ UNCHANGED <<user, inv, gotIndex, misses, balance, rowVars, indexVars, locked, remoteVars, bootVars>>

\* Mutant: the surplus goes back to the payer.
MutCreditSurplus(c) ==
    /\ At(c, "surplus")
    /\ balance' = Credit(balance, user[c], Surplus(user[c], routingFees[inv[c]]))
    /\ Return(c)
    /\ UNCHANGED <<rowVars, indexVars, locked, remoteVars, bootVars>>

\* Back in PayInvoice: the fee surplus goes to the owner in a write of its own.
CreditSurplus(c) ==
    /\ At(c, "surplus")
    /\ balance' = Credit(balance, Owner, Surplus(user[c], routingFees[inv[c]]))
    /\ Return(c)
    /\ UNCHANGED <<rowVars, indexVars, locked, remoteVars, bootVars>>

\* That write throws: the caller gets the error, the row stays paid, and nobody
\* credits this surplus again.
CreditSurplusFails(c) ==
    /\ At(c, "surplus")
    /\ Return(c)
    /\ UNCHANGED <<balance, rowVars, indexVars, locked, remoteVars, bootVars>>

CallStep(c) ==
    \/ \E u \in Users, i \in Invoices : Begin(c, u, i)
    \/ TakeLock(c) \/ CheckRow(c)
    \/ \E r \in Rails : Reserve(c, r)
    \/ ReserveFails(c) \/ Refused(c) \/ Send(c)
    \/ IndexArrives(c) \/ Answered(c) \/ ProviderErrors(c) \/ StreamBreaks(c)
    \/ TrackAnswer(c) \/ TrackMiss(c) \/ TrackError(c)
    \/ Confirm(c) \/ LeavePending(c) \/ Refund(c) \/ RefundFails(c)
    \/ Finalize(c) \/ FinalizeFails(c) \/ CreditSurplus(c) \/ CreditSurplusFails(c)

-----------------------------------------------------------------------------
(* checkPaymentStatus: every pending row in turn, before requests are served. *)

NextRow(i) ==
    /\ phase = "recovering" /\ cur = NoInvoice /\ i \in todo
    /\ cur' = i /\ tries' = 0 /\ todo' = todo \ {i}
    /\ UNCHANGED <<phase, provReady, balance, rowVars, indexVars, locked, callVars, remoteVars>>

RowDone == cur' = NoInvoice /\ tries' = 0 /\ UNCHANGED <<phase, todo, provReady>>

\* A failed lookup, a provider that is not ready, or a payment in flight: the
\* row stays as it is.
RecoverSkip ==
    /\ cur # NoInvoice
    /\ RowDone
    /\ UNCHANGED <<balance, rowVars, indexVars, locked, callVars, remoteVars>>

\* Mutant: provider rows are not looked up.
MutCanLookup == cur # NoInvoice /\ rail[cur] = "lnd"

CanLookup == cur # NoInvoice /\ (rail[cur] = "provider" => provReady)

\* The row is marked paid and the surplus credited in one transaction, with the
\* fee in whole sats: fee_sat of LND, service_fee of the provider.
RecoverPaid ==
    /\ CanLookup /\ Seen(cur, "succeeded")
    /\ status' = [status EXCEPT ![cur] = "paid"]
    /\ routingFees' = [routingFees EXCEPT ![cur] = netFee[cur]]
    /\ balance' = Credit(balance, Owner, Surplus(payer[cur], netFee[cur]))
    /\ RowDone
    /\ UNCHANGED <<payer, rail, indexVars, locked, callVars, remoteVars>>

RefundRow ==
    /\ status' = [status EXCEPT ![cur] = "failed"]
    /\ balance' = Credit(balance, payer[cur], Total(payer[cur]))
    /\ RowDone
    /\ UNCHANGED <<payer, rail, routingFees, indexVars, locked, callVars, remoteVars>>

RecoverFailed == CanLookup /\ Seen(cur, "failed") /\ RefundRow

\* LND does not know the payment: two more lookups before the refund, and no
\* refund at all when the row carries a payment index.
Missing == CanLookup /\ rail[cur] = "lnd" /\ ~indexSaved[cur] /\ NotFoundAfter(cur, tries)

RecoverMiss ==
    /\ Missing /\ tries < 2
    /\ tries' = tries + 1
    /\ UNCHANGED <<phase, todo, cur, provReady, balance, rowVars, indexVars, locked, callVars, remoteVars>>

RecoverMissing == Missing /\ tries = 2 /\ RefundRow

Serve ==
    /\ phase = "recovering" /\ todo = {} /\ cur = NoInvoice
    /\ phase' = "serving"
    /\ UNCHANGED <<todo, cur, tries, provReady, balance, rowVars, indexVars, locked, callVars, remoteVars>>

Recover ==
    \/ \E i \in Invoices : NextRow(i)
    \/ RecoverSkip \/ RecoverPaid \/ RecoverFailed
    \/ RecoverMiss \/ RecoverMissing \/ Serve

\* The process dies and starts again: memory, locks, calls and un-awaited
\* writes are lost, and the rows still pending are read for recovery.
Crash ==
    /\ locked' = {} /\ indexWrites' = {}
    /\ pc' = [c \in Calls |-> "idle"]
    /\ user' = [c \in Calls |-> Owner]
    /\ inv' = [c \in Calls |-> NoInvoice]
    /\ gotIndex' = [c \in Calls |-> FALSE]
    /\ misses' = [c \in Calls |-> 0]
    /\ phase' = "recovering" /\ todo' = PendingRows
    /\ cur' = NoInvoice /\ tries' = 0
    /\ provReady' = ConnectedAtBoot
    /\ Closed(Invoices)
    /\ UNCHANGED <<balance, rowVars, indexSaved, netFee, fraction, forgotten>>

-----------------------------------------------------------------------------
(* The environment: LND, the provider, and the provider connection.        *)

Register(i) ==
    /\ remote[i] = "sent"
    /\ remote' = [remote EXCEPT ![i] = "inflight"]
    /\ UNCHANGED <<netFee, fraction, forgotten>>

Drop(i) ==
    /\ remote[i] = "sent"
    /\ remote' = [remote EXCEPT ![i] = "idle"]
    /\ UNCHANGED <<netFee, fraction, forgotten>>

Succeed(i) ==
    /\ remote[i] = "inflight"
    /\ remote' = [remote EXCEPT ![i] = "succeeded"]
    /\ \E f \in NetFees : netFee' = [netFee EXCEPT ![i] = f]
    /\ \/ fraction' = fraction
       \/ rail[i] = "lnd" /\ fraction' = fraction \union {i}
    /\ UNCHANGED forgotten

Fail(i) ==
    /\ remote[i] = "inflight"
    /\ remote' = [remote EXCEPT ![i] = "failed"]
    /\ UNCHANGED <<netFee, fraction, forgotten>>

Forget(i) ==
    /\ HistoryLoss /\ rail[i] = "lnd"
    /\ remote[i] \in {"inflight", "succeeded", "failed"} /\ i \notin forgotten
    /\ forgotten' = forgotten \union {i}
    /\ UNCHANGED <<remote, netFee, fraction>>

RemoteStep(i) ==
    /\ Register(i) \/ Drop(i) \/ Succeed(i) \/ Fail(i) \/ Forget(i)
    /\ UNCHANGED <<balance, rowVars, indexVars, locked, callVars, bootVars>>

\* markProviderReady, or a provider silent for two minutes.
ProviderLink ==
    /\ phase = "serving" /\ "provider" \in Rails
    /\ provReady' = ~provReady
    /\ UNCHANGED <<phase, todo, cur, tries, balance, rowVars, indexVars, locked, callVars, remoteVars>>

Next ==
    \/ \E c \in Calls : CallStep(c)
    \/ \E i \in Invoices : SaveIndex(i) \/ RemoteStep(i)
    \/ Recover \/ Crash \/ ProviderLink

Spec == Init /\ [][Next]_vars

-----------------------------------------------------------------------------
(* Properties.                                                             *)

PcValues == {"idle", "admitted", "locked", "clear", "ready", "waiting",
             "tracking", "confirm", "refund", "finalize", "surplus"}
RemoteValues == {"idle", "sent", "inflight", "succeeded", "failed"}

\* A call between lock and unlock.
Holding(c) == pc[c] \notin {"idle", "admitted", "surplus"}

RowTypes ==
    /\ status \in [Invoices -> {"none", "pending", "paid", "failed"}]
    /\ payer \in [Invoices -> Users]
    /\ rail \in [Invoices -> {"lnd", "provider"}]
    /\ routingFees \in [Invoices -> Nat]
    /\ indexSaved \in [Invoices -> BOOLEAN]
    /\ indexWrites \in SUBSET Invoices

CallTypes ==
    /\ pc \in [Calls -> PcValues]
    /\ user \in [Calls -> Users]
    /\ inv \in [Calls -> Invoices \union {NoInvoice}]
    /\ gotIndex \in [Calls -> BOOLEAN]
    /\ misses \in [Calls -> Nat]
    /\ \A c \in Calls : pc[c] # "idle" => inv[c] \in Invoices

RemoteTypes ==
    /\ remote \in [Invoices -> RemoteValues]
    /\ netFee \in [Invoices -> Nat]
    /\ fraction \in SUBSET Invoices
    /\ forgotten \in SUBSET Invoices

BootTypes ==
    /\ phase \in {"recovering", "serving"}
    /\ todo \in SUBSET Invoices
    /\ cur \in Invoices \union {NoInvoice}
    /\ tries \in 0..2
    /\ provReady \in BOOLEAN

\* Every variable has its type; in particular no balance is ever negative.
TypeOK ==
    /\ balance \in [Users -> Nat]
    /\ locked \in SUBSET Invoices
    /\ RowTypes /\ CallTypes /\ RemoteTypes /\ BootTypes

\* The invoice lock excludes: at most one call works on an invoice, the lock
\* is held for exactly the invoices being worked on, and never leaks from a
\* call that threw.
OneCallPerInvoice ==
    /\ locked = {inv[c] : c \in {d \in Calls : Holding(d)}}
    /\ \A c, d \in Calls :
          Holding(c) /\ Holding(d) /\ inv[c] = inv[d] => c = d

\* A refunded payment was not delivered and can no longer be: the node never
\* gives a user money back for an invoice that is paid in the end.
NoRefundOfDelivered ==
    \A i \in Invoices : status[i] = "failed" => remote[i] \in {"idle", "failed"}

\* A row is marked paid only when the remote side did deliver the payment.
PaidOnlyIfDelivered ==
    \A i \in Invoices : status[i] = "paid" => remote[i] = "succeeded"

\* Even if LND loses its history, a payment whose index reached the database
\* is not refunded when it was delivered (the paymentIndex > 0 check).
IndexGuardsRefund ==
    \A i \in Invoices :
        status[i] = "failed" /\ remote[i] = "succeeded" => ~indexSaved[i]

-----------------------------------------------------------------------------
(* Money.                                                                  *)

Paid == {i \in Invoices : status[i] = "paid"}
Delivered == {i \in Invoices : remote[i] = "succeeded"}

\* Invoices whose surplus a call still has to credit.
Crediting == {d \in Calls : pc[d] = "surplus"}
Due == {inv[c] : c \in Crediting}

Costs == [i \in Invoices |-> Total(payer[i])]
Surpluses == [i \in Invoices |-> Surplus(payer[i], routingFees[i])]

\* Network fees above the reserved service fee, which the code accepts to lose.
Overrun(i) ==
    LET fee == ServiceFeeOf(payer[i])
    IN  IF RoundedUp(i) > fee THEN RoundedUp(i) - fee ELSE 0
Spendings == [i \in Invoices |-> Price + RoundedUp(i) - Overrun(i)]

\* Rows settled with less than the rounded fee: those recovery settled for a
\* payment over LND that cost a fraction of a sat.
Roundings == [i \in Invoices |-> IF routingFees[i] < RoundedUp(i) THEN 1 ELSE 0]

Balances == SumFunctionOnSet(balance, Users)
Initially == SumFunctionOnSet(InitBalance, Users)
Booked == SumFunctionOnSet(Costs, PendingRows \union Paid)
Credited == SumFunctionOnSet(Surpluses, Paid \ Due)

\* Nothing is debited twice, refunded twice or credited twice: balances plus
\* reservations account for all the money there was, but for the surplus of
\* paid invoices, which goes to the owner at most once and not before its
\* credit is done.
BooksBalance ==
    /\ Balances + Booked >= Initially
    /\ Balances + Booked <= Initially + Credited

\* The node stays solvent: what it still owes its users never exceeds what is
\* left after the payments it really made, except for the overruns and for one
\* sat of each payment over LND that recovery settled with the fee rounded down.
Solvent ==
    Balances + SumFunctionOnSet(Costs, PendingRows \ Delivered)
      <= Initially - SumFunctionOnSet(Spendings, Delivered)
           + SumFunctionOnSet(Roundings, Paid)

-----------------------------------------------------------------------------
(* The strengthenings the proofs need.                                     *)

\* Whatever LND answers or forgets: where a call stands tells what its row
\* looks like, an invoice without a row was never sent, a paid one was
\* delivered, and recovery runs alone, on rows that are pending.
Attending == {"ready", "waiting", "tracking", "confirm", "refund", "finalize"}

CallInv(c) ==
    /\ phase = "recovering" => pc[c] = "idle"
    /\ pc[c] \in Attending => status[inv[c]] = "pending" /\ payer[inv[c]] = user[c]
    /\ pc[c] = "ready" => remote[inv[c]] = "idle"
    /\ pc[c] \in {"finalize", "surplus"} => remote[inv[c]] = "succeeded"
    /\ pc[c] = "surplus" => status[inv[c]] = "paid" /\ payer[inv[c]] = user[c]

RowInv(i) ==
    /\ status[i] = "none" => remote[i] = "idle"
    /\ status[i] = "paid" => remote[i] = "succeeded"

RecoveryInv ==
    /\ cur # NoInvoice \/ todo # {} => phase = "recovering"
    /\ \A i \in todo \union ({cur} \ {NoInvoice}) : status[i] = "pending"
    /\ cur \notin todo

StandingInv ==
    /\ OneCallPerInvoice
    /\ \A c \in Calls : CallInv(c)
    /\ \A i \in Invoices : RowInv(i)
    /\ RecoveryInv

\* A row is settled with the network fee, rounded down or up to a sat.
FeesInv ==
    \A i \in Invoices : status[i] = "paid" => routingFees[i] \in {netFee[i], RoundedUp(i)}

\* Only one call has the surplus of an invoice to credit.
CreditedOnce == \A c, d \in Crediting : inv[c] = inv[d] => c = d

\* What the code relies on when it takes "not found" for "never sent": LND keeps
\* its history, and a request still in transit when its stream broke registers
\* within the three lookups made (or at once, when a failing decode skips them).
ReliableLookups == ~HistoryLoss /\ (LateWindow = 0 \/ ~DecodeMayFail)

\* With reliable lookups no call refunds, and no row is refunded, while the
\* payment is or may still be delivered.
LookupInv(c) ==
    /\ pc[c] = "confirm" => remote[inv[c]] # "sent"
    /\ pc[c] = "refund" => remote[inv[c]] \in {"idle", "failed"}

PaymentInv ==
    /\ StandingInv
    /\ \A c \in Calls : LookupInv(c)
    /\ NoRefundOfDelivered
    /\ forgotten = {}

\* With lookups of any kind: an index written or about to be written belongs
\* to a row; the call attending that row has seen it, so that it refunds only
\* a payment that failed; and recovery starts with no index write under way.
IndexKnown(i) == indexSaved[i] \/ i \in indexWrites

IndexInv ==
    /\ phase = "recovering" => indexWrites = {}
    /\ \A i \in Invoices : IndexKnown(i) =>
          /\ status[i] # "none"
          /\ status[i] = "failed" => remote[i] = "failed"
    /\ \A c \in Calls : pc[c] \in Attending /\ IndexKnown(inv[c]) =>
          /\ gotIndex[c]
          /\ pc[c] = "refund" => remote[inv[c]] = "failed"

\* The payments implement the ledger: what they do to balances and rows is
\* what PaymentLedger allows.
Ledger == INSTANCE PaymentLedger
              WITH delivered <- Delivered, due <- Due, fee <- routingFees

LedgerSpec == Ledger!Spec

-----------------------------------------------------------------------------
(* Liveness.  Steps of the program are weakly fair.  Recovery lookups and  *)
(* live lookups do not fail forever (strong fairness); the remote side     *)
(* decides every payment it holds, and the stream of a payment LND has     *)
(* dropped or forgotten ends.  Restarts are a premise of the property, not *)
(* a fairness of the program.                                              *)

Progress(c) ==
    \/ TakeLock(c) \/ CheckRow(c) \/ (\E r \in Rails : Reserve(c, r))
    \/ ReserveFails(c) \/ Refused(c) \/ Send(c) \/ Finalize(c)
    \/ CreditSurplus(c) \/ CreditSurplusFails(c) \/ Confirm(c) \/ LeavePending(c)
    \/ Refund(c) \/ RefundFails(c)
    \/ (StreamBreaks(c) /\ (remote[inv[c]] \in {"idle", "sent"} \/ inv[c] \in forgotten))
    \/ (Answered(c) /\ rail[inv[c]] = "lnd")

Decided(i) == (Register(i) \/ Succeed(i) \/ Fail(i)) /\ RemoteStep(i)

Fairness ==
    /\ \A c \in Calls :
        /\ WF_vars(Progress(c))
        /\ SF_vars(TrackAnswer(c))
        /\ \A n \in 0..2 : SF_vars(misses[c] = n /\ TrackMiss(c))
    /\ \A i \in Invoices :
        /\ WF_vars(Decided(i))
        /\ SF_vars(NextRow(i))
        /\ SF_vars(cur = i /\ (RecoverPaid \/ RecoverFailed))
        /\ \A n \in 0..2 : SF_vars(cur = i /\ tries = n /\ (RecoverMiss \/ RecoverMissing))
    /\ WF_vars(RecoverSkip)
    /\ WF_vars(Serve)

FairSpec == Spec /\ Fairness

\* The invoice lock of a payment on LND is always released: no caller is told
\* for ever that "this invoice is already being paid".  (After a failed attempt
\* the next one may choose the provider, whose answer may never come.)
LockReleased ==
    \A i \in Invoices :
        (i \in locked /\ rail[i] = "lnd") ~> (i \notin locked \/ rail[i] = "provider")

\* If the service is restarted again and again, a reservation ends: the row
\* of a payment on LND does not stay pending for ever, unless LND has
\* forgotten a payment whose index was saved (left to the administrator).
Restarts == []<>(phase = "recovering") /\ []<>(phase = "serving")

ReservationsEnd ==
    Restarts => \A i \in Invoices :
        (status[i] = "pending" /\ rail[i] = "lnd")
            ~> (status[i] # "pending" \/ i \in forgotten)

\* A provider payment that the provider delivered is marked paid, by the live
\* call or by checkPendingProviderPayment on startup.
ProviderPaymentsFinalized ==
    Restarts => \A i \in Invoices :
        (status[i] = "pending" /\ rail[i] = "provider" /\ remote[i] = "succeeded")
            ~> (status[i] = "paid")
=============================================================================
