# Lightning.Pub in TLA+

Lightning.Pub is a custodial Lightning backend: it keeps the balances of many
users in a database, and pays and receives Lightning invoices for them through
one LND node and, where configured, through another Lightning.Pub acting as
liquidity provider. This directory holds TLA+ models of the parts of it that
move money or order the writes that do, the TLC runs that check them, and TLAPS
proofs. Paths are relative to the repository root, shown here as `src/`.

## 1. The system

The main process is a single-threaded Node program: code runs without
interruption between two `await`s, and everything interleaves at them. Three
child processes (database, nostr, tlv files) are reached by messages.

| Component | State it keeps | Operations | What must hold |
|---|---|---|---|
| `main/paymentManager.ts` outgoing invoices | `UserInvoicePayment` rows, `invoiceLock` | `PayInvoice`, `PayExternalInvoice`, `checkPaymentStatus` | one call per invoice; a refund is never followed by a delivery; the books balance over crashes |
| `lnd/lnd.ts` | streams to LND, ready and lock flags | `PayInvoice` with its `trackPayment` fallback, `GetPaymentFromHash`, subscriptions | the outcome it reports is the real one |
| `main/liquidityProvider.ts` | readiness, pending and settled payments, requests awaiting a reply | `PayInvoice`, `GetPaymentState`, `SettleProviderPayment`, `Connect`, beacons | a provider payment is debited once, and every delivered one is finalized |
| `main/liquidityManager.ts`, `rugPullTracker.ts` | drain back-off, tracked provider balance | rail choice, `shouldDrainProvider`, `orderChannelIfNeeded`, balance check | rails are chosen only when they can pay |
| `storage/db/*` (own process) | readers-writer queue, the one active transaction | `Read`, `PushToQueue`, `startTx`, `endTx` | transactions are isolated, nobody waits for ever |
| `main/index.ts` callbacks | `newBlockInFlight` | `invoicePaidCb`, `addressPaidCb`, `newBlockCb` | every receipt is credited exactly once |
| `main/watchdog.ts`, `helpers/functionQueue.ts` | last balances, one coalescing queue | `PaymentRequested`, `StartCheck` | outgoing payments stop when balances drift |
| `main/debitManager.ts` | grants, frequency rules, request keys | debit requests and their authorization | nothing is drawn without access, the cap is never passed |
| `lnd/swaps/*` | swap rows, watched sockets | submarine and reverse swaps, resume, refund | a swap is paid once and refunded only if not paid |
| `main/appUserManager.ts`, `applicationManager.ts` | users, linking tokens | cleanup, bans, linking | no user with money or a pending payment is deleted |
| the rest (offers, settings, metrics, nostr transport, notifications, HTTP) | mostly single rows or output | | listed in `PROJECT.json` with the reason they are left out |

They interact by direct calls (managers), by callbacks (LND streams call
`invoicePaidCb`, `addressPaidCb` and `newBlockCb`), by messages (storage and
nostr processes, the provider over nostr), and through the shared rows.

Behaviours that are hard to get right here: two calls for one invoice; an LND
stream that breaks while the payment lives on; "not found" answers that may
mean "not yet"; a database write that fails after the money left; a crash
between any two awaits; a provider that answers late, wrongly or not at all;
start-up code that runs before its peers are connected. `PROJECT.json` lists
each such hazard at the line where it bites, with the property that covers it.

## 2. Modules

### OutgoingPayments (core)

Models `PaymentManager.PayInvoice` and `PayExternalInvoice` with everything
they do to balances and rows, `LND.PayInvoice` with `sendPaymentV2`, the index
timeout and the `trackPayment` loop, `isOutgoingPaymentConfirmedFailed`, the
start-up `checkPaymentStatus`, and crashes.

* A *call* is one running `PayInvoice`. `pc` names the await where it stands:
  `admitted` (row read), `locked`, `clear` (row read again), `ready` (money
  reserved, row pending), `waiting` (sent), `tracking`, `confirm` (in the
  `catch`), `refund`, `finalize`, `surplus`.
* A row is `status` (no row, or the sign of `paid_at_unix`), `payer`, `rail`
  and `indexSaved`. A database transaction is one step.
* `locked` is `InvoiceLock.locked`; `gotIndex` and `misses` are the locals of
  the same meaning; `indexWrites` are the index writes nobody awaits.
* `remote[i]` is the truth at LND or the provider: `sent` is a request still in
  transit, which may register, or be lost.
* Recovery walks the rows that are pending (`todo`, `cur`, `tries`) while
  `phase = "recovering"`; requests are served afterwards (`init.ts`).
* Amounts are kept: `Price`, the reserved `ServiceFee`, a network fee chosen on
  success, in whole sats with or without a fraction. The live payment rounds the
  fraction up (`lnd.ts:518`, `608`), recovery takes LND's `fee_sat`, which is
  rounded down (`paymentManager.ts:233`). Which invoice costs what is not told apart.
* The surplus is a write of its own that may throw (`CreditSurplusFails`): the
  call ends, and its surplus is lost while others stay due.

Left out: bans and fee expectations checked before the lock (they only refuse),
internal invoices (ReceivedInvoices), debit frequency rules (Debits), the
events log, and the `useOnlyLiquidityProvider` bypass, under which LND rows are
skipped by recovery. Amountless invoices are refused by the code.

### PaymentLedger (abstract specification)

What those payments promise with no calls, locks, rails, lookups or restarts:
reserve, deliver, settle or refund, credit the surplus at most once or lose it.
`OutgoingPayments!LedgerSpec` is the refinement, with `delivered` mapped to the
invoices the remote side has paid and `due` to the calls that still have to
credit a surplus.

### MCOutgoingPayments

Users and initial balances for TLC.

### OutgoingPaymentsProofs, SumTheorems

Theorems about OutgoingPayments, and the facts about sums over finite sets that
the theorems about money rest on, section 5.

### TransactionsQueue, AtomicStore

The storage process: `transactionsQueue.ts` and the `startTx` / `endTx`
messages of `storageProcessor.ts`. The main process runs a transaction from
outside, one message per operation, over the one SQLite connection; any
statement that slips in joins whatever transaction is open. A *client* is one
chain of awaits in the main process with one request outstanding, so a message
in transit and a request not yet handled are the same state, and messages need
no queue of their own. The database is one balance: writes increment it,
transactions check it and withdraw.

`pc` says what the client's request is doing; `activeReaders`, `pendingTx`,
`writeRequested` and `transactionsQueue` are the fields of the class;
`connection` is the stage of the transaction open on the connection; `visible`
and `committed` are the balance before and after a crash. The body of a
transaction may throw, a commit may fail after its requester was told of
success (the order of `handleStartTx`), and a crash may come anywhere.

`AtomicStore` is the promise the other modules use when they make a transaction
one step: increments, checked withdrawals and reads, each in one step.

### ChainReceipts, ReceiptLedger

On-chain money: `SubscribeAddressPaid` and `addressPaidCb` register an output,
`newBlockCb` with `NewBlockHandler` credits it once it is deep enough,
`checkMissedChainTxs` registers at start-up what was missed,
`PayInternalAddress` pays inside the database, and streams break and come back
through `RestartStreams`.

* `depth[o]` is the number of confirmations, cut off at `Deepest`, and
  `latest_checked_height` is the set `checked` of outputs confirmed below it:
  heights only matter by which outputs they separate.
* `turn` is the chain of promises in `newBlockInFlight`; `hstep` and `rows` are
  the await and the locals of each handler run; `inFlight` counts the credit
  transactions sent to the storage process. `Promise.all` ends a run at the
  first failure while other credits are still in flight.
* `ListPending` waits until no credit is in flight: reads wait behind queued
  writes, which TransactionsQueue shows (`writeRequested`).
* `Unlucky` are the outputs whose registration may fail (the code logs and goes
  on), `CheckMayFail` lets the start-up check stop half way.

Left out: chain reorganisations, outgoing rows and root addresses in the block
handler, the metrics, the swap side effects of a block, and several
subscriptions at once (which only repeat what the unique index refuses).

`ReceiptLedger` is the promise: an output is credited once, in full, when it has
its confirmations.

### ReceivedInvoices, InvoiceLedger

Invoices of users: issued by `NewInvoice`; paid from the network and credited by
`invoicePaidCb`, which the settle stream of LND and the live operations of the
provider call; or paid by another user through `PayInvoice` and
`PayInternalInvoice`; removed when old at start-up.

* `row` is the state of a `UserReceivingInvoice` (`paid_at_unix` with
  `paidByLnd`), `settled` the settle order at LND, `cursor[s]` how far stream
  `s` has got (-1 when closed), `known` is `latestKnownSettleIndex`, `retrying`
  counts the intervals of `RestartStreams`, `arriving` the callbacks between
  the event and their transaction.
* `ResumeAt` is what LND makes of the settle index: zero asks for no backlog.
* `pc` of a `PayInvoice` call: `read` (row read), `locked`, `fee` (paid, the
  owner's fee still to be written).
* A payment from the network for an invoice already sold internally is credited
  too, as in the code: both payments were made.

Left out: bans, debit rules, side effects of a paid invoice, root invoices.
`InvoiceLedger` is the promise: sold at most once and never after it was paid,
credited from the network at most once, fee collected at most once.

### ProviderBalance

The money held at the liquidity provider: the part of `LiquidityProvider` that
keeps the last balance told and the payments under way, the row of
`TrackedProvider`, and `RugPullTracker.CheckProviderBalance`, which compares the
two and calls a shortfall a rug pull.

* A balance is what the provider knew when it sent it: receipts, payments taken,
  money lost. So a balance that arrives late is told from a fresh one.
* `mail` is a set: answers and live operations arrive in any order or are
  dropped (`Lapse` is the answer that does not come).
* `read` is the row read before the awaits of the check; `early`, `counted` and
  `booked` are history: what the row counted when it was created, and since.
* A user's payment is finalized in a transaction that may be rolled back after
  `SettleProviderPayment` has marked it settled; a payment of the program
  itself (a drain, a channel order) has no row.
* A row is created in two steps, its balance computed (`StartTracking`) and then
  inserted (`CreateRow`): what is settled or received in between finds no row.

Abstracted: every amount is 1 and the provider charges no fee; the answer to
`GetUserInfo` is taken when it is handled; a receipt is reported once; the
recovery of provider payments is left out, as at start-up the provider is never
ready (section 6). A restart drops what was on its way: nobody awaits the
answers any more, and the subscription asks for no event before the start
(`EventsDeduper.GetSinceMs`). An increment that fails without being awaited ends
the process and is a restart. `rugPulled` lives in memory only, as in the code.

### Watchdog

`Watchdog.StartWatching` and `StartCheck`, the coalescing `FunctionQueue` in
front of them, `LND.outgoingOpsLocked`, and what moves money meanwhile: payments
of users (`Ask` to `Finish`, with the index writes nobody awaits), receipts and
their credit, receipts to nobody and their root operation (recorded before the
payment confirms where the address is seen on the way), forwards, an admin's
invoice and chain payment with its change output and root operation, payments by
somebody else, crashes.

`step` is the await of the start or of the check. The early returns of
`StartCheck` are actions of their own: `FeesFail` leaves the lock as it was,
`FoundNegative` and an index mismatch set it, only `Decide` lifts it. `seen`,
`served` and `moved` are history: the payments complete when the check began,
those of the check that answered a caller, and how much money moved since.

The lookup of the chain payment may fail in the start and in any check
(`MissesChange`): the code logs it and goes on without that change, and
`initial.missed` and `read.missed` keep how much was left out. A balance goes
below zero by the command line (`UpdateUserBalance`) and stays there, over
restarts too, until a credit or a payment of another user makes it good, which
need never happen.

Abstracted: payments have amount 1; the provider's balance and the fees paid to
it are constant, so payments over the provider are left out; payments between
users leave the sum of the balances as it is and are shown only where they make
good a negative balance; wallet and channel balance are read in one step; the
`useOnlyLiquidityProvider` bypass is left out.

### Debits

`DebitManager`: payments a requestor draws from a user's balance. The user
grants a standing access (`AddDebitAccess`), edits its rules, resets it, bans
the requestor in the two awaits of `DenyDebitAccess`, or approves one invoice
by hand; a payment of the user's own may name the requestor too.

* A request is `read` (it has the access row, which may be out of date) and
  `checked` (validated; on its way through the watchdog, the decoding and the
  lock). `Reserve` is the transaction that tests access and cap again.
* `status` and `paidAt` are the payment rows with `debit_to_pub` set. `Settle`
  marks a row paid at the time it does so, which may be intervals later.
* `word` is what the user was last told; `capAt` and `ahead` are the cap a
  reservation was tested against and the rows there were before it.

Abstracted: one user and one requestor, since other accesses and debits are
other rows; all requests cost the same; the clock does not go back; that
`PayInvoice` refuses an invoice with a row is part of `Valid`, `Approve` and
`Reserve`; the read and the update of `EditDebit` are one step (the update of a
removed row changes nothing). Left out: the five-minute deduplication of `k1`,
`total_debits`, the answers over nostr, and requests that only ask for access.

### MC modules and proof modules

`MC<Module>` gives the constants values and the symmetry used; the
`<Module>Proofs` modules hold the theorems, section 5.

## 3. Runs

| Run | Instance | What it shows |
|---|---|---|
| `payments` | 2 calls, 2 invoices, LND and provider, fees with a fraction, failing credits, requests may register after two not-found answers | types, the lock, no refund of a delivered payment, books and solvency, the inductive invariant, the refinement |
| `liveness` | 1 call, 1 invoice, LND and provider, decoding may fail, LND may forget payments, the provider ready at boot; fair | the saved index keeps a delivered payment from being refunded; the lock is released; reservations end under repeated restarts; delivered provider payments would be marked paid if the provider were connected |
| `provider_boot` | 1 call, both rails, the real start-up order | expected violation, section 6 |
| `queue` | 3 clients, balance at most 1; fair | exclusion, no dirty read, a checked balance stays true, no lost waiter, the atomic store; writers are served, readers unless writes never stop |
| `chain_receipts` | 2 outputs needing one and two confirmations, an internal payment, 2 handler runs, failing registrations and checks; fair | each credit is the only one of its row, balances are the money there was plus the credited outputs, nothing below the saved height is forgotten, the ledger; announced or missed outputs are credited in the end |
| `chain_confirmed` | 1 output, fair | expected violation, section 6 |
| `invoices_safety` | an LND and a provider invoice, 2 calls, 2 streams, 2 callbacks per invoice, failing credits | the invariant with its books, and the ledger |
| `invoices_liveness` | 2 LND invoices, 1 call, 2 streams, fair | settlements after the first one seen are credited |
| `provider` | a user's payment, a payment of the program, a receipt, a loss, restarts; fair | a rug pull is a loss told of or one of three named confusions; a loss told of is found; the alarm does not outlast its reason |
| `watchdog_money` | an admin's invoice and chain payment with change, a receipt of a user or of nobody, a forward, an unknown payment, failing lookups, crashes | the difference a check computes is off by at most what moved during it and what a failing lookup left out |
| `watchdog_lock` | a caller, two payments, an unknown one, negative balances, crashes; fair | nobody waits for ever; an unknown payment stops what its check admits; the lock is lifted once all is accounted for and no balance is negative |
| `debits` | 3 requests, caps of two debits and of one, an interval of 2, 4 moments | the cap per interval, no debit without a standing access |

Bounds. Two calls are what the lock, the row checks and the surplus race about
(calls and invoices are interchangeable there, so `payments` is checked up to
their permutations);
a second invoice lets two payments draw on one balance and shows that recovery
handles several rows. `u1` can pay twice and the owner once, so refused
reservations happen. Network fees below and above the reserved fee are both
there. `LateWindow = 2` is the largest window the three lookups tolerate.
`liveness` needs one call: what two calls do to each other is safety, in
`payments`; its `LateWindow` is 0, since with `HistoryLoss` not-found is already
answered about payments that exist. Restarts are not bounded: a crash leads back
into the same finite state space. In the queue, three clients are a reader, an
open transaction and a write waiting behind them; `Cap` makes increments fail at
the bound, so that withdrawals are both possible and refused. Two handler runs
are the one of the start-up check and one of the stream, or two blocks in a row;
`Deepest` cuts confirmations off at what the slowest output needs or above, and
`Fragile` names the streams that may break while the program runs. Two streams and two callbacks are an event
handled twice; two settled invoices are an event seen and one still to come,
which is what the settle index is about.

One payment of each kind, one receipt and one unit lost are enough for `provider`:
each of the three confusions is between two of them. `watchdog_money` has
no callers, since payments of users move users and wallet alike and are in
`watchdog_lock`; there two indexes are a payment of the program and one of
somebody else, in either order. One chain payment with its change is all that a
lookup can miss, in the start, in a check, in both or in neither. In `debits` three requests are one more than the
cap, an interval of two within four moments lets debits end in the interval they
were reserved in, the next, or after it, and the second rule expires at once.

Deadlock is checked in every run.

## 4. Fairness

`FairSpec` assumes that the program takes the steps it can (weak fairness of a
call's steps over LND and of recovery), that lookups at LND do not fail for
ever (strong fairness of `TrackAnswer`, `TrackMiss` and the recovery steps, as
the loop in `lnd.ts` retries every five seconds without limit), and that LND
decides each payment (its own payment timeout) and ends the stream of a payment
it has dropped or forgotten. Nothing is assumed of the
provider's replies, which the code awaits without a timeout, nor of writes:
they may fail for ever. Restarts are a premise of the properties that need
them (`Restarts`), not a fairness of the program.

TransactionsQueue: statements answer and transaction bodies go on to their end
(`Step`, `Body`, `Commit` or `Rollback`); nothing is assumed of new requests.
Writers are served without more. A waiting reader is served only if the queue
of writes is empty for good: `ExecNextInQueue` prefers writes, and the property
says so.

ChainReceipts: the program takes its steps and is started again, blocks come,
and neither lookups nor credits fail for ever (strong fairness of
`ListPending`, `CheckConfs` and `CreditRow`, which every new block tries
again). Nothing makes the streams come back: an open block stream is a premise.

ReceivedInvoices: a stream that is opened again and again hands over its next
event (strong fairness of `InvoiceMessage`), the intervals of `RestartStreams`
reach LND in the end, callbacks finish. A stream may break for ever in between.

Watchdog: start and checks take their steps, the interval of a minute comes, and
LND's answers do not fail for ever (strong fairness of the steps of a check that
may return early). Nothing is assumed of callers, payments, the admin or
negative balances: a check that finds one locks and returns, and so does every
later one. That no balance is negative is a premise of `LockLifted` (`Clean`).

ProviderBalance: checks go on (`CheckStep`), which the interval of the watchdog
justifies. Nothing is assumed of the provider, the messages or the connection:
`AlarmLifted` is about states in which all agrees for good.

Debits states no fairness: its properties are safety.

## 5. Proofs

`OutgoingPaymentsProofs` proves for all finite sets of users and invoices, any
calls and amounts, and under the named assumptions of the module. Whatever LND
answers or forgets:

* `TypeCorrect`: `Spec => []TypeOK`, which includes that no balance is negative.
* `LockExcludes`: `Spec => []OneCallPerInvoice`.
* `CallsOwnTheirRows`: `Spec => [](StandingInv /\ PaidOnlyIfDelivered)`.
* `IndexProtects`: `Spec => [](IndexInv /\ IndexGuardsRefund)`.
* `SurplusCreditedOnce`: `Spec => []CreditedOnce`.
* `BooksAreBalanced`: `Spec => []BooksBalance`.
* `FeesAreRounded`: `Spec => []FeesInv`: a paid row carries the network fee rounded up or down.

And where "not found" means "never sent" (`ReliableLookups`: LND keeps its
history, and a request in transit registers within the three lookups):

* `InvariantHolds`: `ReliableLookups => (Spec => []PaymentInv)`.
* `RefundsAreSafe`: `ReliableLookups => (Spec => []NoRefundOfDelivered)`.
* `NodeStaysSolvent`: `ReliableLookups => (Spec => []Solvent)`.
* `ImplementsLedger`: `ReliableLookups => (Spec => LedgerSpec)`.

`StandingInv` is inductive by itself: what each `pc` says about the row and the
remote side (`CallInv`), that an invoice without a row is unknown remotely
(`RowInv`), and that recovery runs alone and only on pending rows
(`RecoveryInv`). Neither `NoRefundOfDelivered` nor `IndexGuardsRefund` is:
whether a refund is safe depends on where the call stands. `PaymentInv` adds
what a call that will refund knows with reliable lookups (`LookupInv`);
`IndexInv` adds what it knows without: where an index is written or about to be
written, the call attending the row has seen it (`gotIndex`), so that it refunds
only a payment LND reports failed, and no such write is under way when recovery
starts, since a restart ends it.

What a step does to balances, rows and surpluses due is one of five things
(`AccountStep`: a reservation, a settlement, a refund, a credit of the surplus, a
settlement with its credit), or it leaves balances and rows alone and at most
loses surpluses: one to a failing credit, all of them to a crash. Four theorems
rest on that lemma: `SurplusCreditedOnce`, `FeesAreRounded`, the refinement, and
the books. In the refinement each of the six is a step of the ledger or a stutter; `CreditedOnce` makes the credit a single one,
as `Finalize` starts it from a pending row while the row of any other credit
under way is paid. In `BooksAreBalanced` each moves the sums of balances, booked
costs and credited surpluses by amounts that cancel out. `Solvent` follows in
every state from the books, `FeesInv` and `PaymentInv`: a delivered payment is
pending or paid, so what was really spent is covered by rows that are booked, but
for the sat (`Roundings`) by which a row settled with the fee rounded down gives
too large a surplus.

`SumTheorems` proves the facts about `SumFunctionOnSet` those proofs need: the
sum over the empty set, over a set with an element more or less, over disjoint
sets, of equal, smaller or added functions, and after one summand has changed.
The sum is defined by recursion over subsets, so the module first shows that
this recursion has a solution, by induction on the subsets of a finite set from
the well-foundedness of strict inclusion. This is why `FiniteAssumption` asks
for finite sets of users and invoices, the rows of a database.

`TransactionsQueueProofs`, for any finite set of clients:

* `QueueCorrect`: `Spec => [](TypeOK /\ QueueInv)`.
* `ReadersExcludeWriters`: `Spec => []Exclusion`; `ReadsAreClean`: `Spec => []NoDirtyRead`;
  `ChecksStayTrue`: `Spec => []CheckedStillTrue`; `NoWakeUpIsLost`: `Spec => []NoLostWaiter`.
* `ImplementsStore`: `Spec => StoreSpec`.

`QueueInv` says that `activeReaders` counts the readers, that each waiting
writer is queued once, that `pendingTx` means one client is served or a commit
runs, and what the stage of the connection tells of uncommitted data. The
counter makes it an induction over cardinalities: a reader more, a reader less,
all waiting readers at once.

`ChainReceiptsProofs`, for any finite sets of outputs, users and handler runs:

* `TypeCorrect`; `CreditsAreSafe`: `Spec => []HandlerInv`.
* `CheckForgetsNothing`: `Spec => []CheckInv`.
* `ImplementsReceipts`: `Spec => LedgerSpec`.
* `BooksAreExact`: `Spec => []ReceiptInv`, which is `HandlerInv` and `BooksInv`.

A credit transaction does not look at its row. It is safe because only the run
whose turn it is has read rows, what it read is still pending, and no credit is
under way while it reads (`TurnInv`, `CreditInv`); so the credit in flight is
the only one of its row. The books are kept by every step of `ReceiptLedger`, so
the refinement carries them over to the handlers: balances are what there was
plus the credited outputs, exactly. `CheckInv` follows the start-up check: what it will
have covered is registered, still to do, or in its hands.

`ReceivedInvoicesProofs`, for any finite sets of users and invoices, any calls
and streams:

* `TypeCorrect`; `InvoicesAreSafe`: `Spec => []SingleInv`.
* `ImplementsInvoices`: `Spec => LedgerSpec`.
* `BooksAreKept`: `Spec => []InvoiceInv`, which is `SingleInv` and `BooksInv`.

Callbacks concern payments that happened (`CreditInv`), settle indices never
run ahead of LND (`IndexInv`), and of the calls for one invoice one is in its
transaction and one still owes the fee (`CallInv`), which makes the fee a
single one. The books are again kept by every step of `InvoiceLedger`: balances
and fees still due never exceed what was there and came from the network, and
fall short of it only by fees of sales, which a crash may lose.

`ProviderBalanceProofs`, for any finite sets of payments and receipts:

* `TypeCorrect`; `AlarmExplained`: `Spec => AlarmIsExplained`; `LossSeen`:
  `Spec => LossIsSeen`.

The invariant ties the row to what happened: `Books` says that the row is the
initial balance less what was gone when it was created, plus what it counted
early, plus the receipts since, minus the payments taken from it. `CallInv`,
`MailInv` and `BookedInv` say which payments may be booked, pending or told of,
`CreateInv` that a row about to be inserted is worth what its history says, and
`ReadInv` that the row a check has read is still worth what it read plus what
came since. The comparison is then one of cardinalities of these sets.

`WatchdogProofs`, for any finite set of callers, amounts and limits:

* `TypeCorrect`; `WaitersHeard`: `Spec => []WaitersAreHeard`.
* `UnknownStopped`: `Spec => []UnknownStops`.
* `AlarmMeasured`: `Spec => AlarmIsMeasured`.

`UnknownStops` needs to know what a check has yet to find (`seen` against `read`
and the lock at each await); `AlarmIsMeasured` needs `DriftInv`, which bounds at
each await the distance between what was read so far, with the change a failing
lookup left out of it, and what stands now by `moved`.

`DebitsProofs`, for any finite set of requests, any rules, interval and time:

* `TypeCorrect`; `CapHolds`: `Spec => []CapRespected`.
* `NothingUnauthorized`: `Spec => DebitsAuthorized`.

`CapRespected` is not inductive, as it says nothing of debits that are pending.
`CapInv` bounds `Near`, the debits before a reservation that are pending or paid
within an interval of it: it starts inside what the transaction counted and only
shrinks, because a pending debit is settled at the present, and the present only
moves on. `WordInv` carries `DebitsAuthorized`: where there is a standing access,
the user was last told so.

Only four theorems, those of OutgoingPayments marked `ReliableLookups`, assume
anything about answers; the others hold under the named assumptions of their
modules on the constants.

Every invariant and every action property that a run checks is proved, and so
are the refinements. Only model-checked are the liveness properties
(`LockReleased`, `ReservationsEnd`, `ProviderPaymentsFinalized`, `WritersServed`,
`ReadersServed`, `SeenReceiptsCredited`, `SettledCredited`, `AlarmLifted`,
`CallersAnswered`, `LockLifted`): no prover here handles fairness.

## 6. What the runs found

`provider_boot`: a comment in `src/src/services/main/liquidityProvider.ts:409`
says user payments are finalized in `PayExternalInvoice` "or
checkPendingProviderPayment on startup". `init.ts:77` runs that recovery before
`index.ts:52` attaches nostr, and the provider client only connects once nostr
is attached, so during recovery `IsReady()` is false, `GetPaymentState` throws
and each provider row is skipped, at every start. A payment the provider
delivered before a crash stays pending. `liveness`, whose
provider is connected before recovery, shows that the recovery code itself would
finalize it.

`chain_confirmed`: a comment in `src/src/services/lnd/lnd.ts:313` says "only
process pending transactions, confirmed transaction are processed by the
newBlock CB". The block handler only credits outputs that have a row, and the
stream, which would make the row, skips transactions announced with
confirmations. An output LND first sees in a block stays uncredited until the
start-up check of a later restart.

Noted as hazards, without a claim in the repository to contradict them: when
decoding fails right after a broken stream, one not-found lookup is enough for
a refund (`lnd.ts:505`); a lost provider reply keeps the invoice locked until a
restart (`liquidityProvider.ts:400`); a crash between the settlement and the
surplus credit loses the owner's fee (`paymentManager.ts:561`). An
invoice that settles while the process is down, or before the first settle event
of the process, is never credited, since a settle index of zero asks LND for no
backlog (`lnd.ts:332`); one whose credit fails is not tried again
(`index.ts:293`). `RestartStreams` clears its interval before `Warmup`, so that
a failing `Warmup` is not repeated, although the log says it will be
(`lnd.ts:248`).

Recovery rounds network fees down and the live payment rounds them up: a payment
over LND settled by recovery may give the owner one sat more than the node has
left from it (`paymentManager.ts:233`). `Solvent` names that sat; without it the
property does not hold. A surplus credit that throws (`paymentManager.ts:561`)
loses that surplus, as a crash does.

What the newer modules made plain, again without a claim to contradict. The
tracked balance of the provider calls a rug pull where there was none in three
cases, which `AlarmIsExplained` names: a balance older than a receipt already
counted; a payment taken that is neither in the row nor pending (refused with an
error that leaves its outcome open, after which `liquidityProvider.ts:420` forgets
it, or a payment of the program itself whose answer is lost); and a row created
while something was under way. A payment whose
index write is lost looks like somebody else's to the watchdog and locks
payments until a later index is saved (`watchdog.ts:249`). A failing lookup of a
chain payment is logged and passed over (`watchdog.ts:108`), so a check may raise
a disruption of the size of its change with nothing lost, which the comment at
line 146 means to prevent; it is cleared by the next check that gets an answer.
The lock set for a negative balance (`watchdog.ts:237`) stays for as long as the
balance does, although every payment is accounted for. A request that finds
the access it read expired removes whatever access there is by then, a ban
included (`debitManager.ts:446`).

## 7. What is left

### Not modelled

Parts with state of their own, and why they have no module yet:

- Swaps (`lnd/swaps/*`, `adminManager.ts`, `paymentStorage.ts:607`): what becomes
  of a swap rests on the swap service and the chain, neither of which is in this
  repository, so a model would mostly be of them. Read in the code:
  - a crash or error between the payment of the lockup address and
    `SetInvoiceSwapTxId` (`adminManager.ts:337`) leaves a funded swap without a
    `tx_id`: resume and refund refuse it, after a restart it may be funded again,
    and `DeleteExpiredInvoiceSwaps`, called for each block (`index.ts:176`),
    deletes it with its refund key;
  - `waitingSwaps` is set before the address is paid and never cleared
    (`swaps.ts:188`);
  - a socket that closes marks the swap failed although its outcome is open
    (`submarineSwaps.ts:526`), as does a status that asks for the transaction of a
    resumed swap (`swaps.ts:235`), and a failure reason allows the early refund;
  - `done` may run twice, by the claim under way failing after the swap was
    reported claimed (`submarineSwaps.ts:546`), which marks a completed swap failed;
  - a refusal by `PayInvoiceSwap` is not caught in the `new Promise` of
    `adminManager.ts:319`: the request is never answered, and the rejection
    reaches `uncaughtException` (`index.ts:74`), which ends the process.
- Draining and channel orders (`liquidityManager.ts`): drains started by two
  blocks overlap and overwrite each other's `latestDrain` (line 119), and an
  order that throws leaves `channelRequesting` set, so that no other is made until
  a restart (line 208). Their payments are the payments of the program in
  ProviderBalance.
- The request keys of debits (`debitManager.ts:23`): forgotten after five minutes
  and not saved, so that a request delivered again is served again unless the
  invoice has a row, which is what Debits relies on.
- The clean-up of inactive users (`appUserManager.ts:191`): the balance is read
  before the transaction that deletes the user, and a credit in between is
  deleted with the row; so is a payment still pending of a user without money.
- User-to-user payments, on-chain payments of users, LNURL links and bans: a few
  writes in one transaction each, over balances that the other modules cover.
- A commit that fails after its requester was told of success
  (`transactionsQueue.ts:133`) is in TransactionsQueue; what the callers above
  make of it is not.

Parts without state that interleaves, or with output only (offers, management
grants, products, settings, unlocker, metrics and their files, notifications,
nostr relays, HTTP, webRTC, wizard), are listed in `PROJECT.json` with the
reason. Most lines of the repository are generated protocol code (`src/proto`)
and clients; none of it is modelled.

### Next

1. Swaps with an explicit model of the service and the chain; for example, a recorded lockup
   that is not claimed stays refundable, and a swap is funded once per process.
2. Draining with its back-off, as part of ProviderBalance.
3. User clean-up against receipts, in ReceivedInvoices and ChainReceipts.
4. A composition of the credits of OutgoingPayments, ChainReceipts and
   ReceivedInvoices over one set of balances.
