------------------------------- MODULE Watchdog -------------------------------
(***************************************************************************)
(* The watchdog of outgoing payments.  Every PayInvoice first asks for a   *)
(* check (PaymentRequested); a FunctionQueue runs one check at a time and  *)
(* answers everybody who joined meanwhile.  A check compares what the      *)
(* users own with what LND holds, and the payments LND lists with those of *)
(* the database; one it cannot account for locks outgoing operations.      *)
(* Users, LND and an admin go on between the awaits of a check.            *)
(***************************************************************************)
EXTENDS Integers, FiniteSets

CONSTANTS
    Callers,        \* PayInvoice calls under way at a time
    MaxIndex,       \* bound: payments LND makes, numbered from 1
    Receipts,       \* incoming payments, each of amount 1 and made once
    Root,           \* those that may be to an invoice or address of no user
    MaxForwards,    \* bound: forwarded payments; each earns 1
    MaxDiff,        \* watchDogSettings.maxDiffSats
    Change,         \* change output of the admin's chain payment
    AdminSpends,    \* ways the admin spends: "invoice", "chain"
    Unknown,        \* somebody else pays from the node
    MayGoNegative,  \* the admin may set a balance below zero
    MayCrash        \* the process may crash and start again

ASSUME WatchdogAssumption ==
    /\ IsFiniteSet(Callers) /\ MaxIndex \in Nat /\ MaxForwards \in Nat /\ MaxDiff \in Nat /\ Change \in Nat
    /\ Root \subseteq Receipts /\ AdminSpends \subseteq {"invoice", "chain"}
    /\ Unknown \in BOOLEAN /\ MayGoNegative \in BOOLEAN /\ MayCrash \in BOOLEAN

VARIABLES
    users,      \* sum of User.balance_sats
    rows,       \* indexes of LND payments whose row is pending
    saved,      \* indexes in UserInvoicePayment.paymentIndex
    ops,        \* root operations recorded since the start: spent - received
    chainRow,   \* the root operation of the chain payment
    negative,   \* a user has balance_sats < 0
    disrupted,  \* latest_distruption_at_unix of the node is set
    wallet,     \* what LND holds, in channels and confirmed
    payment,    \* LND's payments by index
    chain,      \* the admin's chain payment
    receipt,    \* incoming payments
    forwarded,  \* fees earned, by the forwarding history
    step,       \* await of the start or of the check under way
    queue,      \* callers waiting in FunctionQueue.queue
    locked,     \* LND.outgoingOpsLocked
    offset,     \* latestPaymentIndexOffset
    initial,    \* initialUsersBalance, initialLndBalance, what it missed,
                \* latestHtlcIndexOffset
    fees,       \* accumulatedHtlcFees
    read,       \* locals of the check: users, funds, known; what funds missed
    writes,     \* index writes that nobody awaits
    pc, idx,    \* of each caller: await, index of its payment
    admin,      \* await of the admin's payment and its index
    seen,       \* payments complete when the check began
    served,     \* per caller: seen of the check that answered it
    moved       \* how much money moved since the check began

storeVars == <<users, rows, saved, ops, chainRow, negative, disrupted>>
lndVars == <<wallet, payment, chain, receipt, forwarded>>
checkVars == <<step, locked, offset, initial, fees, read, seen>>
callVars == <<queue, pc, idx, writes, served>>
vars == <<storeVars, lndVars, checkVars, callVars, admin, moved>>

Indexes == 1..MaxIndex
Largest(S) == {m \in S : \A k \in S : k <= m}
Settled == {i \in Indexes : payment[i] = "settled"}
Free == {i \in Indexes : payment[i] = "none"}
NextIndex == {i \in Free : \A j \in Free : i <= j}

Starting == {"down", "recover", "baseUsers", "baseWallet", "baseChange", "baseFees",
             "baseKnown", "baseLatest"}
Checking == {"fees", "negative", "users", "wallet", "change", "ops", "known", "latest"}
Up == step \notin Starting

\* handleRootOperations: change of chain payments that are not confirmed.
PendingChange == IF chainRow = "pending" /\ chain = "sent" THEN Change ELSE 0

\* handleRootOperations marks a confirmed chain payment in its row.  Where GetTx
\* or that update fails, the error is logged, the change is left out and the row
\* stays as it is.
MissesChange(missed) ==
    \/ /\ missed = 0
       /\ chainRow' = IF chain = "confirmed" /\ chainRow = "pending" THEN "confirmed" ELSE chainRow
    \/ missed = PendingChange /\ chainRow = "pending" /\ UNCHANGED chainRow

NoBase == [users |-> 0, funds |-> 0, missed |-> 0, forwarded |-> 0]
NothingRead == [users |-> 0, funds |-> 0, missed |-> 0, known |-> 0]

\* A credit may make good a negative balance.
MadeGood == negative' = negative \/ (users' > users /\ negative' = FALSE)

\* The amount by which money moved, if a check is under way.
Moves(n) == moved' = IF step \in Checking THEN moved + n ELSE moved

Init ==
    /\ users = 0 /\ rows = {} /\ saved = {} /\ ops = 0
    /\ chainRow = "none" /\ negative = FALSE /\ disrupted = FALSE
    /\ wallet = 0 /\ payment = [i \in Indexes |-> "none"] /\ chain = "none"
    /\ receipt = [r \in Receipts |-> "none"] /\ forwarded = 0
    /\ step = "recover" /\ locked = FALSE /\ offset = 0
    /\ initial = NoBase /\ fees = 0
    /\ read = NothingRead /\ seen = {}
    /\ queue = {} /\ pc = [c \in Callers |-> "idle"] /\ idx = [c \in Callers |-> 0]
    /\ writes = {} /\ served = [c \in Callers |-> {}]
    /\ admin = [pc |-> "idle", idx |-> 0] /\ moved = 0

-----------------------------------------------------------------------------
(* LND and the network.                                                    *)

Settle(i) ==
    /\ payment[i] = "flight"
    /\ payment' = [payment EXCEPT ![i] = "settled"] /\ wallet' = wallet - 1
    /\ Moves(1)
    /\ UNCHANGED <<storeVars, chain, receipt, forwarded, checkVars, callVars, admin>>

Fail(i) ==
    /\ payment[i] = "flight" /\ payment' = [payment EXCEPT ![i] = "failed"]
    /\ UNCHANGED <<storeVars, wallet, chain, receipt, forwarded, checkVars, callVars, admin, moved>>

\* A payment this program did not make.
SpendUnknown ==
    /\ Unknown /\ wallet' = wallet - 1
    /\ \E i \in NextIndex : payment' = [payment EXCEPT ![i] = "settled"]
    /\ Moves(1)
    /\ UNCHANGED <<storeVars, chain, receipt, forwarded, checkVars, callVars, admin>>

Receive(r) ==
    /\ \/ receipt[r] = "none" /\ receipt' = [receipt EXCEPT ![r] = "received"]
       \/ receipt[r] = "unconfirmed" /\ receipt' = [receipt EXCEPT ![r] = "recorded"]
    /\ wallet' = wallet + 1 /\ Moves(1)
    /\ UNCHANGED <<storeVars, payment, chain, forwarded, checkVars, callVars, admin>>

Forward ==
    /\ forwarded < MaxForwards /\ forwarded' = forwarded + 1
    /\ wallet' = wallet + 1 /\ Moves(1)
    /\ UNCHANGED <<storeVars, payment, chain, receipt, checkVars, callVars, admin>>

ConfirmChain ==
    /\ chain = "sent" /\ chain' = "confirmed"
    /\ wallet' = wallet + Change /\ Moves(Change)
    /\ UNCHANGED <<storeVars, payment, receipt, forwarded, checkVars, callVars, admin>>

\* Callbacks credit users (ReceivedInvoices, ChainReceipts).
Credit(r) ==
    /\ step # "down"
    /\ receipt[r] = "received" /\ receipt' = [receipt EXCEPT ![r] = "credited"]
    /\ users' = users + 1 /\ MadeGood /\ Moves(1)
    /\ UNCHANGED <<rows, saved, ops, chainRow, disrupted, wallet, payment, chain,
                   forwarded, checkVars, callVars, admin>>

\* They record a root operation for what no user receives, at an address already
\* before the payment confirms.
RecordRoot(r) ==
    /\ step # "down" /\ r \in Root
    /\ \/ receipt[r] = "received" /\ receipt' = [receipt EXCEPT ![r] = "recorded"]
       \/ receipt[r] = "none" /\ receipt' = [receipt EXCEPT ![r] = "unconfirmed"]
    /\ ops' = ops - 1 /\ Moves(1)
    /\ UNCHANGED <<users, rows, saved, chainRow, negative, disrupted, wallet, payment, chain,
                   forwarded, checkVars, callVars, admin>>

\* A user pays another, without LND: the sum stays.  (Shown only where that makes
\* good a negative balance.)
SendUserToUserPayment ==
    /\ Up /\ negative /\ negative' = FALSE
    /\ UNCHANGED <<users, rows, saved, ops, chainRow, disrupted, lndVars, checkVars, callVars,
                   admin, moved>>

-----------------------------------------------------------------------------
(* Start-up: pending payments are looked up, then StartWatching reads what *)
(* later checks compare with.                                              *)

Recover ==
    /\ step = "recover" /\ step' = "baseUsers"
    /\ users' = users + Cardinality({i \in rows : payment[i] = "failed"})
    /\ rows' = {i \in rows : payment[i] = "flight"}
    /\ MadeGood
    /\ UNCHANGED <<saved, ops, chainRow, disrupted, lndVars, locked, offset, initial,
                   fees, read, seen, callVars, admin, moved>>

BaseUsers ==
    /\ step = "baseUsers" /\ step' = "baseWallet"
    /\ initial' = [initial EXCEPT !.users = users]
    /\ UNCHANGED <<storeVars, lndVars, locked, offset, fees, read, seen, callVars, admin, moved>>

BaseWallet ==
    /\ step = "baseWallet" /\ step' = "baseChange"
    /\ initial' = [initial EXCEPT !.funds = wallet]
    /\ UNCHANGED <<storeVars, lndVars, locked, offset, fees, read, seen, callVars, admin, moved>>

\* Root operations are counted from here on; the change is already counted.
BaseChange ==
    /\ step = "baseChange" /\ step' = "baseFees"
    /\ \E m \in {0, PendingChange} :
          /\ MissesChange(m)
          /\ initial' = [initial EXCEPT !.funds = @ + (PendingChange - m), !.missed = m]
    /\ ops' = 0
    /\ UNCHANGED <<users, rows, saved, negative, disrupted, lndVars, locked, offset, fees, read,
                   seen, callVars, admin, moved>>

BaseFees ==
    /\ step = "baseFees" /\ step' = "baseKnown"
    /\ initial' = [initial EXCEPT !.forwarded = forwarded] /\ fees' = 0
    /\ UNCHANGED <<storeVars, lndVars, locked, offset, read, seen, callVars, admin, moved>>

BaseKnown ==
    /\ step = "baseKnown" /\ step' = "baseLatest"
    /\ offset' \in Largest(saved \union {0})
    /\ UNCHANGED <<storeVars, lndVars, locked, initial, fees, read, seen, callVars, admin, moved>>

BaseLatest ==
    /\ step = "baseLatest" /\ step' = "idle"
    /\ offset' \in Largest(Settled \union {offset})
    /\ UNCHANGED <<storeVars, lndVars, locked, initial, fees, read, seen, callVars, admin, moved>>

\* The argument "updateUserBalance" of the command line, before anything else.  Only
\* the sign is shown: BaseUsers reads the sum afterwards, and all is relative to it.
UpdateUserBalance ==
    /\ MayGoNegative /\ step = "recover" /\ negative' = ~negative
    /\ UNCHANGED <<users, rows, saved, ops, chainRow, disrupted, lndVars, checkVars, callVars,
                   admin, moved>>

StartWatching ==
    Recover \/ BaseUsers \/ BaseWallet \/ BaseChange \/ BaseFees \/ BaseKnown \/ BaseLatest

-----------------------------------------------------------------------------
(* FunctionQueue and StartCheck.                                           *)

\* execF, when no check is running.
OpensCheck ==
    IF step = "idle" THEN step' = "fees" /\ seen' = Settled /\ moved' = 0
                     ELSE UNCHANGED <<step, seen, moved>>

\* PaymentRequested, of a payment.
Ask(c) ==
    /\ Up /\ pc[c] = "idle"
    /\ pc' = [pc EXCEPT ![c] = "queued"] /\ queue' = queue \union {c}
    /\ OpensCheck
    /\ UNCHANGED <<storeVars, lndVars, locked, offset, initial, fees, read, idx, writes, served,
                   admin>>

\* PaymentRequested, of the interval.
Tick ==
    /\ step = "idle" /\ OpensCheck
    /\ UNCHANGED <<storeVars, lndVars, locked, offset, initial, fees, read, callVars, admin>>

\* Mutant: the queue is emptied and nobody is answered.
MutAnswer(known) ==
    /\ step' = "idle" /\ queue' = {} /\ seen' = {} /\ moved' = 0
    /\ read' = NothingRead
    /\ UNCHANGED <<pc, served, idx, writes>>

\* The check ends: everybody in the queue is answered.
Answer(known) ==
    /\ step' = "idle" /\ queue' = {} /\ seen' = {} /\ moved' = 0
    /\ read' = NothingRead
    /\ pc' = [c \in Callers |-> IF c \in queue THEN "admitted" ELSE pc[c]]
    /\ served' = [c \in Callers |-> IF c \in queue THEN known ELSE served[c]]
    /\ UNCHANGED <<idx, writes>>

ReadFees ==
    /\ step = "fees" /\ step' = "negative" /\ fees' = forwarded - initial.forwarded
    /\ UNCHANGED <<storeVars, lndVars, locked, offset, initial, read, seen, callVars, admin, moved>>

\* updateAccumulatedHtlcFees throws: the check ends and says nothing.
FeesFail ==
    /\ step = "fees" /\ Answer({})
    /\ UNCHANGED <<storeVars, lndVars, locked, offset, initial, fees, admin>>

NoNegative ==
    /\ step = "negative" /\ ~negative /\ step' = "users"
    /\ UNCHANGED <<storeVars, lndVars, locked, offset, initial, fees, read, seen, callVars, admin,
                   moved>>

FoundNegative ==
    /\ step = "negative" /\ negative /\ locked' = TRUE /\ Answer(seen)
    /\ UNCHANGED <<storeVars, lndVars, offset, initial, fees, admin>>

ReadUsers ==
    /\ step = "users" /\ step' = "wallet" /\ read' = [read EXCEPT !.users = users]
    /\ UNCHANGED <<storeVars, lndVars, locked, offset, initial, fees, seen, callVars, admin, moved>>

ReadWallet ==
    /\ step = "wallet" /\ step' = "change" /\ read' = [read EXCEPT !.funds = wallet]
    /\ UNCHANGED <<storeVars, lndVars, locked, offset, initial, fees, seen, callVars, admin, moved>>

\* handleRootOperations: the pending chain payment, then what was recorded.
ReadChange ==
    /\ step = "change" /\ step' = "ops"
    /\ \E m \in {0, PendingChange} :
          /\ MissesChange(m)
          /\ read' = [read EXCEPT !.funds = @ + (PendingChange - m), !.missed = m]
    /\ UNCHANGED <<users, rows, saved, ops, negative, disrupted, lndVars, locked, offset, initial,
                   fees, seen, callVars, admin, moved>>

\* Mutant: what was spent is subtracted again.
MutReadOps ==
    /\ step = "ops" /\ step' = "known" /\ read' = [read EXCEPT !.funds = @ - ops]
    /\ UNCHANGED <<storeVars, lndVars, locked, offset, initial, fees, seen, callVars, admin, moved>>

\* What root operations spent is added, what they received subtracted.
ReadOps ==
    /\ step = "ops" /\ step' = "known" /\ read' = [read EXCEPT !.funds = @ + ops]
    /\ UNCHANGED <<storeVars, lndVars, locked, offset, initial, fees, seen, callVars, admin, moved>>

\* Mutant: the next index is read.
MutReadKnown ==
    /\ step = "known" /\ step' = "latest"
    /\ \E m \in Largest(saved \union {offset}) : read' = [read EXCEPT !.known = m + 1]
    /\ UNCHANGED <<storeVars, lndVars, locked, offset, initial, fees, seen, callVars, admin, moved>>

\* GetMaxPaymentIndex: the largest index in the database.
ReadKnown ==
    /\ step = "known" /\ step' = "latest"
    /\ \E m \in Largest(saved \union {offset}) : read' = [read EXCEPT !.known = m]
    /\ UNCHANGED <<storeVars, lndVars, locked, offset, initial, fees, seen, callVars, admin, moved>>

\* checkDeltas.
DeltasType(deltaLnd, deltaUsers) ==
    IF deltaLnd < 0 THEN IF deltaUsers < 0 THEN "negative" ELSE "mismatch"
                    ELSE IF deltaUsers < 0 THEN "mismatch" ELSE "positive"

Abs(n) == IF n < 0 THEN -n ELSE n
AbsoluteDiff(deltaLnd, deltaUsers) ==
    IF DeltasType(deltaLnd, deltaUsers) = "mismatch" THEN Abs(deltaLnd) + Abs(deltaUsers)
                                                     ELSE Abs(deltaLnd - deltaUsers)

\* checkBalanceUpdate: more users' money than funds, beyond or within reason.
Lost(deltaLnd, deltaUsers) ==
    \/ DeltasType(deltaLnd, deltaUsers) = "mismatch" /\ deltaLnd < 0
    \/ DeltasType(deltaLnd, deltaUsers) = "negative" /\ Abs(deltaLnd) > Abs(deltaUsers)
    \/ DeltasType(deltaLnd, deltaUsers) = "positive" /\ deltaLnd < deltaUsers

\* updateDisruption.
Flag(deltaLnd, deltaUsers) ==
    IF ~Lost(deltaLnd, deltaUsers) THEN FALSE
    ELSE IF AbsoluteDiff(deltaLnd, deltaUsers) > MaxDiff THEN TRUE ELSE disrupted

\* Mutant: the first payment beyond the known ones is let through.
MutHistoryMismatch == \E i \in Settled : i > read.known + 1

\* GetLatestPaymentIndex: is a complete payment listed beyond the known ones?
HistoryMismatch == \E i \in Settled : i > read.known

DeltaLnd == read.funds - (initial.funds + fees)
DeltaUsers == read.users - initial.users

\* Mutant: no UnlockOutgoingOperations.
MutDecide ==
    /\ step = "latest"
    /\ disrupted' = Flag(DeltaLnd, DeltaUsers)
    /\ locked' = (locked \/ HistoryMismatch)
    /\ Answer(seen)
    /\ UNCHANGED <<users, rows, saved, ops, chainRow, negative, lndVars, offset, initial, fees, admin>>

Decide ==
    /\ step = "latest"
    /\ disrupted' = Flag(DeltaLnd, DeltaUsers)
    /\ locked' = HistoryMismatch
    /\ Answer(seen)
    /\ UNCHANGED <<users, rows, saved, ops, chainRow, negative, lndVars, offset, initial, fees,
                   admin>>

\* Mutant: execF has no catch.
MutCheckThrows ==
    /\ step \in {"wallet", "latest"}
    /\ step' = "idle" /\ seen' = {} /\ moved' = 0
    /\ read' = NothingRead
    /\ UNCHANGED <<storeVars, lndVars, locked, offset, initial, fees, callVars, admin>>

\* LND does not answer: everybody in the queue is rejected.
CheckThrows ==
    /\ step \in {"wallet", "latest"}
    /\ step' = "idle" /\ queue' = {} /\ seen' = {} /\ moved' = 0
    /\ read' = NothingRead
    /\ pc' = [c \in Callers |-> IF c \in queue THEN "idle" ELSE pc[c]]
    /\ UNCHANGED <<storeVars, lndVars, locked, offset, initial, fees, idx, writes, served, admin>>

CheckStep ==
    \/ ReadFees \/ FeesFail \/ NoNegative \/ FoundNegative \/ ReadUsers \/ ReadWallet
    \/ ReadChange \/ ReadOps \/ ReadKnown \/ Decide \/ CheckThrows

-----------------------------------------------------------------------------
(* Payments of users over LND (OutgoingPayments), each of amount 1.        *)

Reserve(c) ==
    /\ pc[c] = "admitted" /\ pc' = [pc EXCEPT ![c] = "reserved"]
    /\ users' = users - 1 /\ Moves(1)
    /\ UNCHANGED <<rows, saved, ops, chainRow, negative, disrupted, lndVars, checkVars, queue, idx,
                   writes, served, admin>>

\* LND.PayInvoice throws, and the reservation is given back.
Refuse(c) ==
    /\ pc[c] = "reserved" /\ locked
    /\ pc' = [pc EXCEPT ![c] = "idle"] /\ served' = [served EXCEPT ![c] = {}]
    /\ users' = users + 1 /\ Moves(1)
    /\ UNCHANGED <<rows, saved, ops, chainRow, negative, disrupted, lndVars, checkVars, queue, idx,
                   writes, admin>>

Send(c) ==
    /\ pc[c] = "reserved" /\ ~locked
    /\ \E i \in NextIndex :
          /\ idx' = [idx EXCEPT ![c] = i] /\ payment' = [payment EXCEPT ![i] = "flight"]
          /\ rows' = rows \union {i} /\ writes' = writes \union {i}
    /\ pc' = [pc EXCEPT ![c] = "sent"] /\ served' = [served EXCEPT ![c] = {}]
    /\ UNCHANGED <<users, saved, ops, chainRow, negative, disrupted, wallet, chain, receipt,
                   forwarded, checkVars, queue, admin, moved>>

SaveIndex(i) ==
    /\ i \in writes /\ writes' = writes \ {i} /\ saved' = saved \union {i}
    /\ UNCHANGED <<users, rows, ops, chainRow, negative, disrupted, lndVars, checkVars, queue, pc,
                   idx, served, admin, moved>>

\* The stream of the payment breaks before its first update.
LoseIndex(i) ==
    /\ i \in writes /\ writes' = writes \ {i}
    /\ UNCHANGED <<storeVars, lndVars, checkVars, queue, pc, idx, served, admin, moved>>

Finish(c) ==
    /\ pc[c] = "sent" /\ payment[idx[c]] \in {"settled", "failed"}
    /\ pc' = [pc EXCEPT ![c] = "idle"] /\ idx' = [idx EXCEPT ![c] = 0]
    /\ rows' = rows \ {idx[c]}
    /\ users' = IF payment[idx[c]] = "failed" THEN users + 1 ELSE users
    /\ Moves(1)
    /\ UNCHANGED <<saved, ops, chainRow, negative, disrupted, lndVars, checkVars, queue, writes,
                   served, admin>>

CallStep(c) == Reserve(c) \/ Refuse(c) \/ Send(c) \/ Finish(c)

-----------------------------------------------------------------------------
(* The admin pays a swap: an invoice (PayAdminTransactionSwap) or an       *)
(* address (PayAdminInvoiceSwap).  No check is asked for.                  *)

AdminPaysInvoice ==
    /\ "invoice" \in AdminSpends /\ Up /\ admin.pc = "idle" /\ ~locked
    /\ \E i \in NextIndex :
          admin' = [pc |-> "invoice", idx |-> i] /\ payment' = [payment EXCEPT ![i] = "flight"]
    /\ UNCHANGED <<storeVars, wallet, chain, receipt, forwarded, checkVars, callVars, moved>>

AdminInvoiceEnds ==
    /\ admin.pc = "invoice" /\ payment[admin.idx] \in {"settled", "failed"}
    /\ admin' = [pc |-> "idle", idx |-> 0]
    /\ ops' = IF payment[admin.idx] = "settled" THEN ops + 1 ELSE ops
    /\ Moves(1)
    /\ UNCHANGED <<users, rows, saved, chainRow, negative, disrupted, lndVars, checkVars, callVars>>

\* Confirmed coins are spent: the amount, and the change until it confirms.
AdminPaysAddress ==
    /\ "chain" \in AdminSpends /\ Up /\ admin.pc = "idle" /\ ~locked /\ chain = "none"
    /\ admin' = [admin EXCEPT !.pc = "chain"] /\ chain' = "sent"
    /\ wallet' = wallet - (1 + Change) /\ Moves(1 + Change)
    /\ UNCHANGED <<storeVars, payment, receipt, forwarded, checkVars, callVars>>

RecordChain ==
    /\ admin.pc = "chain" /\ admin' = [admin EXCEPT !.pc = "idle"]
    /\ chainRow' = "pending" /\ ops' = ops + 1 /\ Moves(1 + Change)
    /\ UNCHANGED <<users, rows, saved, negative, disrupted, lndVars, checkVars, callVars>>

AdminStep == AdminPaysInvoice \/ AdminInvoiceEnds \/ AdminPaysAddress \/ RecordChain

-----------------------------------------------------------------------------
(* Crash and start.                                                        *)

\* Reservations that were not sent come back at the next start.
Crash ==
    /\ MayCrash /\ step # "down" /\ step' = "down"
    /\ users' = users + Cardinality({c \in Callers : pc[c] = "reserved"})
    /\ locked' = FALSE /\ offset' = 0 /\ initial' = NoBase /\ fees' = 0
    /\ read' = NothingRead /\ seen' = {} /\ moved' = 0
    /\ queue' = {} /\ pc' = [c \in Callers |-> "idle"] /\ idx' = [c \in Callers |-> 0]
    /\ writes' = {} /\ served' = [c \in Callers |-> {}] /\ admin' = [pc |-> "idle", idx |-> 0]
    /\ UNCHANGED <<rows, saved, ops, chainRow, negative, disrupted, lndVars>>

Start ==
    /\ step = "down" /\ step' = "recover"
    /\ UNCHANGED <<storeVars, lndVars, locked, offset, initial, fees, read, seen, callVars, admin,
                   moved>>

Program ==
    \/ UpdateUserBalance \/ SendUserToUserPayment \/ StartWatching \/ Tick \/ CheckStep \/ AdminStep
    \/ \E c \in Callers : Ask(c) \/ CallStep(c)
    \/ \E i \in Indexes : SaveIndex(i) \/ LoseIndex(i)
    \/ \E r \in Receipts : Credit(r) \/ RecordRoot(r)

World ==
    \/ SpendUnknown \/ Forward \/ ConfirmChain
    \/ \E i \in Indexes : Settle(i) \/ Fail(i)
    \/ \E r \in Receipts : Receive(r)

Next == Program \/ World \/ Crash \/ Start

Spec == Init /\ [][Next]_vars

\* The program takes its steps, and LND's answers do not fail for ever.
FairSpec ==
    /\ Spec /\ WF_vars(Start) /\ WF_vars(StartWatching) /\ WF_vars(CheckStep) /\ WF_vars(Tick)
    /\ SF_vars(ReadFees) /\ SF_vars(ReadWallet) /\ SF_vars(Decide)

-----------------------------------------------------------------------------
(* Properties.                                                             *)

StoreTypes ==
    /\ users \in Int /\ ops \in Int /\ rows \subseteq Indexes /\ saved \subseteq Indexes
    /\ chainRow \in {"none", "pending", "confirmed"}
    /\ negative \in BOOLEAN /\ disrupted \in BOOLEAN
LndTypes ==
    /\ wallet \in Int /\ payment \in [Indexes -> {"none", "flight", "settled", "failed"}]
    /\ chain \in {"none", "sent", "confirmed"} /\ forwarded \in 0..MaxForwards
    /\ receipt \in [Receipts -> {"none", "received", "credited", "unconfirmed", "recorded"}]
CheckTypes ==
    /\ step \in Starting \union {"idle"} \union Checking /\ locked \in BOOLEAN
    /\ offset \in 0..MaxIndex /\ fees \in Int /\ seen \subseteq Indexes
    /\ initial \in [users : Int, funds : Int, missed : Nat, forwarded : 0..MaxForwards]
    /\ read \in [users : Int, funds : Int, missed : Nat, known : 0..MaxIndex]
CallTypes ==
    /\ queue \subseteq Callers /\ writes \subseteq Indexes
    /\ pc \in [Callers -> {"idle", "queued", "admitted", "reserved", "sent"}]
    /\ idx \in [Callers -> 0..MaxIndex] /\ served \in [Callers -> SUBSET Indexes]

\* What each variable holds.
TypeOK ==
    /\ StoreTypes /\ LndTypes /\ CheckTypes /\ CallTypes
    /\ admin \in [pc : {"idle", "invoice", "chain"}, idx : 0..MaxIndex] /\ moved \in Nat

\* FunctionQueue loses nobody: who waits is in the queue, and while anybody is
\* there a check is running that will empty it.
WaitersAreHeard ==
    /\ \A c \in Callers : c \in queue <=> pc[c] = "queued"
    /\ queue # {} => step \in Checking

\* The database or the start-up accounts for the payments up to j.
Accounted(i) == \E j \in saved \union {offset} : i <= j

\* A payment LND had completed when a check began, beyond all that the program
\* knows, stops the payments which that check or a later one was to admit:
\* they find LND locked, whatever happened between the check and PayInvoice.
UnknownStops ==
    \A c \in Callers :
        pc[c] \in {"admitted", "reserved"} /\ ~locked => \A i \in served[c] : Accounted(i)

\* What users gained beyond what the node did since StartWatching, by what LND
\* holds and the root operations recorded now.
Shortfall ==
    (users - initial.users)
        - (wallet + ops + PendingChange - (initial.funds + initial.missed)
              - (forwarded - initial.forwarded))

\* The awaits of a check make it compare values of different moments, and GetTx may
\* fail in it or in StartWatching.  Still, a disruption is raised only for a loss
\* above the limit, and cleared only when nothing is lost, give or take what moved
\* while the check ran and the change that GetTx did not tell: a check that misses
\* it may raise a disruption with nothing lost, one that only StartWatching missed
\* may hide a loss.
AlarmIsMeasured ==
    [][ /\ ~disrupted /\ disrupted' =>
              Shortfall + moved + read.missed > MaxDiff + initial.missed
        /\ disrupted /\ ~disrupted' =>
              Shortfall + read.missed <= moved + initial.missed ]_vars

\* Complete payments that nothing accounts for.
Unexplained == {i \in Settled : ~Accounted(i)}

\* Whoever waits for a check is answered, or sent away by an error.
CallersAnswered == \A c \in Callers : pc[c] = "queued" ~> pc[c] # "queued"

\* Once every complete payment is accounted for and no balance is negative,
\* outgoing operations do not stay locked.  (A negative balance is found by every
\* check, and keeps them locked until it is made good or the process starts again.)
Clean == Unexplained = {} /\ ~negative
LockLifted == locked /\ Clean ~> ~locked \/ ~Clean
=============================================================================
