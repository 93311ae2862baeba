---------------------------- MODULE ChainReceipts ----------------------------
(***************************************************************************)
(* On-chain money for users: the transaction stream registers an output    *)
(* paying a user address (addressPaidCb), the block handler credits it     *)
(* once it is deep enough (newBlockCb, NewBlockHandler), and the start-up  *)
(* check registers what was missed (checkMissedChainTxs).  Addresses of    *)
(* users of this node are paid inside the database (PayInternalAddress).   *)
(*                                                                         *)
(* Heights are not counted: depth[o] is the number of confirmations, cut   *)
(* off where it no longer matters, and the latest checked height is the    *)
(* set of outputs confirmed below it.                                      *)
(***************************************************************************)
EXTENDS Integers, FiniteSets, Sequences, Functions

CONSTANTS
    Users, Owner,   \* user accounts; the one of the application's owner
    Outputs,        \* chain outputs, each paying the address of a user
    Sends,          \* internal payments to an address
    OwnerOf,        \* the user an output or an internal payment credits
    Amount,         \* of every output and internal payment
    SendFee,        \* service fee of an internal payment by a managed user
    Needed,         \* confirmations getTxConfs asks for, by amount
    Deepest,        \* confirmations beyond this are not counted
    InitBalance,
    Handlers, Boot, \* runs of NewBlockHandler under way; the one of start-up
    NoOutput,
    Unlucky,        \* outputs whose registration may fail
    CheckMayFail,   \* the start-up check may fail half way
    Fragile         \* streams that may break while the program runs

ASSUME ChainAssumption ==
    /\ Owner \in Users /\ Boot \in Handlers
    /\ OwnerOf \in [Outputs \union Sends -> Users] /\ Outputs \intersect Sends = {}
    /\ NoOutput \notin Outputs /\ IsFiniteSet(Handlers)
    /\ Amount \in Nat \ {0} /\ SendFee \in Nat
    /\ Deepest \in Nat \ {0, 1} /\ Needed \in [Outputs -> 1..Deepest]
    /\ InitBalance \in [Users -> Nat] /\ Unlucky \subseteq Outputs
    /\ CheckMayFail \in BOOLEAN /\ Fragile \subseteq {"tx", "block"}

\* Accounts and outputs are rows of a database.
ASSUME FiniteAssumption == IsFiniteSet(Users) /\ IsFiniteSet(Outputs)

VARIABLES
    depth,      \* confirmations at LND; -1 while LND has not seen the output
    balance,    \* User.balance_sats
    row,        \* AddressReceivingTransaction: none, pending (confs = 0), credited
    checked,    \* confirmed below latest_checked_height
    phase,      \* "down", "recovering", "serving"
    streams,    \* subscriptions to LND that are open
    arriving,   \* addressPaidCb calls of the stream before their transaction
    blockDue,   \* the block stream has a block to hand over
    step, upTo, todo, cur, found, \* checkMissedChainTxs: await, locals
    turn,       \* newBlockInFlight: handlers in the order of their calls
    hstep, rows, \* per handler: await; rows read, then rows whose credit it awaits
    inFlight    \* credit transactions sent to the storage process, per output

recoveryVars == <<step, upTo, todo, cur, found>>
handlerVars == <<turn, hstep, rows, inFlight>>
vars == <<depth, balance, row, checked, phase, streams, arriving, blockDue, recoveryVars, handlerVars>>

Streams == {"tx", "block"}
NoWork == [o \in Outputs |-> 0]

Init ==
    /\ depth = [o \in Outputs |-> -1]
    /\ balance = InitBalance
    /\ row = [o \in Outputs \union Sends |-> "none"]
    /\ checked = {}
    /\ phase = "recovering" /\ streams = Streams
    /\ arriving = {} /\ blockDue = FALSE
    /\ step = "info" /\ upTo = {} /\ todo = {} /\ cur = NoOutput /\ found = FALSE
    /\ turn = <<>> /\ hstep = [h \in Handlers |-> "idle"]
    /\ rows = [h \in Handlers |-> {}] /\ inFlight = NoWork

-----------------------------------------------------------------------------
(* The chain and LND.                                                      *)

\* LND sees an unconfirmed transaction; an open stream starts addressPaidCb.
Broadcast(o) ==
    /\ depth[o] = -1
    /\ depth' = [depth EXCEPT ![o] = 0]
    /\ arriving' = IF "tx" \in streams THEN arriving \union {o} ELSE arriving
    /\ UNCHANGED <<balance, row, checked, phase, streams, blockDue, recoveryVars, handlerVars>>

\* A block confirms some outputs, which LND need not have seen before.  The
\* stream ignores transactions that are announced with confirmations.
Mine ==
    \E fresh \in SUBSET {o \in Outputs : depth[o] <= 0} :
        /\ depth' = [o \in Outputs |->
                        CASE o \in fresh -> 1
                          [] depth[o] \in 1..(Deepest - 1) -> depth[o] + 1
                          [] OTHER -> depth[o]]
        /\ blockDue' = (blockDue \/ "block" \in streams)
        /\ UNCHANGED <<balance, row, checked, phase, streams, arriving, recoveryVars, handlerVars>>

\* Errors of the transaction and block streams are only logged.
StreamBreaks(s) ==
    /\ s \in streams /\ streams' = streams \ {s}
    /\ blockDue' = (blockDue /\ s # "block")
    /\ UNCHANGED <<depth, balance, row, checked, phase, arriving, recoveryVars, handlerVars>>

\* RestartStreams, after the invoice stream broke: Warmup subscribes again and
\* LND may hand over the current block.
Rewarm ==
    /\ phase # "down" /\ streams # Streams
    /\ streams' = Streams
    /\ blockDue' \in {blockDue, TRUE}
    /\ UNCHANGED <<depth, balance, row, checked, phase, arriving, recoveryVars, handlerVars>>

-----------------------------------------------------------------------------
(* Registering an output: addressPaidCb and CreditAddress.                 *)

\* A second row for one output is refused by the unique index and the error
\* swallowed; so is any other failure of the transaction.
CreditAddress(o) ==
    \/ row[o] = "none" /\ row' = [row EXCEPT ![o] = "pending"]
    \/ (row[o] # "none" \/ o \in Unlucky) /\ UNCHANGED row

AddressPaidCb(o) ==
    /\ o \in arriving /\ arriving' = arriving \ {o}
    /\ CreditAddress(o)
    /\ UNCHANGED <<depth, balance, checked, phase, streams, blockDue, recoveryVars, handlerVars>>

\* PayInternalAddress: one transaction debits the payer, writes a row that
\* counts as confirmed and credits the receiver and the owner.
PayInternalAddress(u, s) ==
    LET fee == IF u = Owner THEN 0 ELSE SendFee
        debited == [balance EXCEPT ![u] = @ - Amount - fee]
        credited == [debited EXCEPT ![OwnerOf[s]] = @ + Amount]
    IN  /\ phase = "serving" /\ row[s] = "none"
        /\ balance[u] >= Amount + fee
        /\ balance' = [credited EXCEPT ![Owner] = @ + fee]
        /\ row' = [row EXCEPT ![s] = "credited"]
        /\ UNCHANGED <<depth, checked, phase, streams, arriving, blockDue, recoveryVars, handlerVars>>

-----------------------------------------------------------------------------
(* NewBlockHandler.                                                        *)

\* newBlockCb: the run is chained behind the ones before it.
NewBlockCb(h) ==
    /\ hstep[h] = "idle"
    /\ hstep' = [hstep EXCEPT ![h] = "queued"]
    /\ turn' = Append(turn, h)

BlockArrives(h) ==
    /\ h # Boot /\ blockDue
    /\ blockDue' = FALSE
    /\ NewBlockCb(h)
    /\ UNCHANGED <<depth, balance, row, checked, phase, streams, arriving, recoveryVars, rows, inFlight>>

\* Mutant: the runs are not chained.
MutHasTurn(h) == turn # <<>>

HasTurn(h) == turn # <<>> /\ Head(turn) = h

\* The run of h, the first in the chain, resolves or rejects; the next may start.
EndRun(h) ==
    /\ hstep' = [hstep EXCEPT ![h] = "idle"]
    /\ turn' = Tail(turn)

\* Mutant: the read overtakes credits under way.
MutListPending(h) ==
    /\ HasTurn(h) /\ hstep[h] = "queued"
    /\ rows' = [rows EXCEPT ![h] = {o \in Outputs : row[o] = "pending"}]
    /\ hstep' = [hstep EXCEPT ![h] = "listed"]
    /\ UNCHANGED <<depth, balance, row, checked, phase, streams, arriving, blockDue, recoveryVars, turn, inFlight>>

\* GetPendingTransactions: the storage process serves a read once the
\* transactions queued before it are done.
ListPending(h) ==
    /\ HasTurn(h) /\ hstep[h] = "queued"
    /\ inFlight = NoWork
    /\ rows' = [rows EXCEPT ![h] = {o \in Outputs : row[o] = "pending"}]
    /\ hstep' = [hstep EXCEPT ![h] = "listed"]
    /\ UNCHANGED <<depth, balance, row, checked, phase, streams, arriving, blockDue, recoveryVars, turn, inFlight>>

\* LND, the metrics or the database fail before anything is credited.
HandlerGivesUp(h) ==
    /\ HasTurn(h) /\ hstep[h] \in {"queued", "listed"}
    /\ EndRun(h) /\ rows' = [rows EXCEPT ![h] = {}]
    /\ UNCHANGED <<depth, balance, row, checked, phase, streams, arriving, blockDue, recoveryVars, inFlight>>

\* Mutant: one confirmation is enough for every amount.
MutConfirmed(o) == depth[o] >= 1

Confirmed(o) == depth[o] >= Needed[o]

\* getTxConfs of each row, where a failing lookup counts as no confirmation;
\* then the credit transactions of all confirmed rows are sent.
CheckConfs(h, answered) ==
    LET ready == {o \in answered : Confirmed(o)}
    IN  /\ HasTurn(h) /\ hstep[h] = "listed"
        /\ answered \subseteq rows[h]
        /\ rows' = [rows EXCEPT ![h] = ready]
        /\ inFlight' = [o \in Outputs |-> inFlight[o] + IF o \in ready THEN 1 ELSE 0]
        /\ IF ready = {}
           THEN EndRun(h)
           ELSE hstep' = [hstep EXCEPT ![h] = "crediting"] /\ UNCHANGED turn
        /\ UNCHANGED <<depth, balance, row, checked, phase, streams, arriving, blockDue, recoveryVars>>

\* Promise.all of h: done when its last credit is.
Awaited(h, o) ==
    /\ rows' = [rows EXCEPT ![h] = @ \ {o}]
    /\ IF rows[h] = {o} THEN EndRun(h) ELSE UNCHANGED <<hstep, turn>>

\* One credit transaction: the row is flagged without a look at its state.
CreditRow(o) ==
    /\ inFlight[o] > 0
    /\ inFlight' = [inFlight EXCEPT ![o] = @ - 1]
    /\ row' = [row EXCEPT ![o] = "credited"]
    /\ balance' = [balance EXCEPT ![OwnerOf[o]] = @ + Amount]
    /\ \/ \E h \in Handlers : o \in rows[h] /\ hstep[h] = "crediting" /\ Awaited(h, o)
       \/ /\ \A h \in Handlers : ~(o \in rows[h] /\ hstep[h] = "crediting")
          /\ UNCHANGED <<rows, hstep, turn>>
    /\ UNCHANGED <<depth, checked, phase, streams, arriving, blockDue, recoveryVars>>

\* It fails: Promise.all rejects at once, and the run ends before its others.
CreditFails(o) ==
    /\ inFlight[o] > 0
    /\ inFlight' = [inFlight EXCEPT ![o] = @ - 1]
    /\ \/ \E h \in Handlers :
             /\ o \in rows[h] /\ hstep[h] = "crediting"
             /\ EndRun(h) /\ rows' = [rows EXCEPT ![h] = {}]
       \/ /\ \A h \in Handlers : ~(o \in rows[h] /\ hstep[h] = "crediting")
          /\ UNCHANGED <<rows, hstep, turn>>
    /\ UNCHANGED <<depth, balance, row, checked, phase, streams, arriving, blockDue, recoveryVars>>

-----------------------------------------------------------------------------
(* checkMissedChainTxs at start-up.                                        *)

\* GetInfo gives the height that will be saved.
ReadHeight ==
    /\ phase = "recovering" /\ step = "info"
    /\ upTo' = {o \in Outputs : depth[o] >= 2}
    /\ step' = "list"
    /\ UNCHANGED <<depth, balance, row, checked, phase, streams, arriving, blockDue, todo, cur, found, handlerVars>>

\* GetTransactions from the last checked height, unconfirmed ones included.
ListTransactions ==
    /\ phase = "recovering" /\ step = "list"
    /\ todo' = {o \in Outputs : depth[o] >= 0} \ checked
    /\ step' = "walk"
    /\ UNCHANGED <<depth, balance, row, checked, phase, streams, arriving, blockDue, upTo, cur, found, handlerVars>>

\* Mutant: outputs are taken for registered when LND shows no confirmation.
MutLookAt(o) ==
    /\ step = "walk" /\ cur = NoOutput /\ o \in todo
    /\ todo' = todo \ {o}
    /\ cur' = IF row[o] = "none" /\ depth[o] = 0 THEN o ELSE NoOutput
    /\ UNCHANGED <<depth, balance, row, checked, phase, streams, arriving, blockDue, step, upTo, found, handlerVars>>

\* processUserAddressOutput: rows that exist are passed over.
LookAt(o) ==
    /\ step = "walk" /\ cur = NoOutput /\ o \in todo
    /\ todo' = todo \ {o}
    /\ cur' = IF row[o] = "none" THEN o ELSE NoOutput
    /\ UNCHANGED <<depth, balance, row, checked, phase, streams, arriving, blockDue, step, upTo, found, handlerVars>>

\* The others go through addressPaidCb, which may lose against the stream's.
RegisterMissed ==
    /\ cur # NoOutput
    /\ CreditAddress(cur)
    /\ cur' = NoOutput /\ found' = TRUE
    /\ UNCHANGED <<depth, balance, checked, phase, streams, arriving, blockDue, step, upTo, todo, handlerVars>>

\* Mutant: the height is the one of LND when the check ends.
MutSaveHeight ==
    /\ checked' = {o \in Outputs : depth[o] >= 2}

SaveHeight ==
    /\ checked' = upTo

\* UpdateLatestCheckedHeight; new rows are shown to the block handler.
FinishCheck ==
    /\ step = "walk" /\ todo = {} /\ cur = NoOutput
    /\ SaveHeight
    /\ step' = "done"
    /\ IF found THEN NewBlockCb(Boot) ELSE UNCHANGED <<hstep, turn>>
    /\ UNCHANGED <<depth, balance, row, phase, streams, arriving, blockDue, upTo, todo, cur, found, rows, inFlight>>

\* An error of LND or of the database ends the check: the height stays.
CheckFails ==
    /\ CheckMayFail
    /\ phase = "recovering" /\ step \notin {"done", "failed"}
    /\ step' = "failed" /\ todo' = {} /\ cur' = NoOutput
    /\ UNCHANGED <<depth, balance, row, checked, phase, streams, arriving, blockDue, upTo, found, handlerVars>>

\* Start-up goes on when the block handler it awaits is done.
Serve ==
    /\ phase = "recovering" /\ step \in {"done", "failed"} /\ hstep[Boot] = "idle"
    /\ phase' = "serving"
    /\ UNCHANGED <<depth, balance, row, checked, streams, arriving, blockDue, recoveryVars, handlerVars>>

\* Also what an unawaited addressPaidCb does when LND or a read fails: the
\* rejection is not handled and the process exits.
Crash ==
    /\ phase # "down" /\ phase' = "down"
    /\ streams' = {} /\ arriving' = {} /\ blockDue' = FALSE
    /\ step' = "info" /\ upTo' = {} /\ todo' = {} /\ cur' = NoOutput /\ found' = FALSE
    /\ turn' = <<>> /\ hstep' = [h \in Handlers |-> "idle"]
    /\ rows' = [h \in Handlers |-> {}] /\ inFlight' = NoWork
    /\ UNCHANGED <<depth, balance, row, checked>>

\* Warmup subscribes before the check starts; LND may announce the tip.
Start ==
    /\ phase = "down" /\ phase' = "recovering"
    /\ streams' = Streams /\ blockDue' \in BOOLEAN
    /\ UNCHANGED <<depth, balance, row, checked, arriving, recoveryVars, handlerVars>>

Chain == (\E o \in Outputs : Broadcast(o)) \/ Mine

Links == (\E s \in Fragile : StreamBreaks(s)) \/ Rewarm

Handle(h) ==
    \/ BlockArrives(h) \/ ListPending(h) \/ HandlerGivesUp(h)
    \/ \E answered \in SUBSET rows[h] : CheckConfs(h, answered)

Credit(o) == CreditRow(o) \/ CreditFails(o)

CheckMissed ==
    \/ ReadHeight \/ ListTransactions \/ (\E o \in Outputs : LookAt(o))
    \/ RegisterMissed \/ FinishCheck \/ CheckFails \/ Serve

Next ==
    \/ Chain \/ Links \/ CheckMissed \/ Crash \/ Start
    \/ \E o \in Outputs : AddressPaidCb(o) \/ Credit(o)
    \/ \E h \in Handlers : Handle(h)
    \/ \E u \in Users, s \in Sends : PayInternalAddress(u, s)

Spec == Init /\ [][Next]_vars

-----------------------------------------------------------------------------
(* Properties.                                                             *)

TypeOK ==
    /\ depth \in [Outputs -> -1..Deepest] /\ balance \in [Users -> Nat]
    /\ row \in [Outputs \union Sends -> {"none", "pending", "credited"}]
    /\ checked \subseteq Outputs
    /\ phase \in {"down", "recovering", "serving"} /\ streams \subseteq Streams
    /\ arriving \subseteq Outputs /\ blockDue \in BOOLEAN
    /\ step \in {"info", "list", "walk", "done", "failed"}
    /\ upTo \subseteq Outputs /\ todo \subseteq Outputs
    /\ cur \in Outputs \union {NoOutput} /\ found \in BOOLEAN
    /\ turn \in Seq(Handlers)
    /\ hstep \in [Handlers -> {"idle", "queued", "listed", "crediting"}]
    /\ rows \in [Handlers -> SUBSET Outputs]
    /\ inFlight \in [Outputs -> 0..1]

\* What makes crediting safe although a credit does not look at its row: only
\* the run whose turn it is has read rows or awaits credits; what it read is
\* still pending, and no credit is under way while it looks; a credit under way
\* is the only one of its row, which is pending and confirmed.
TurnInv ==
    /\ \A k \in 1..Len(turn) : hstep[turn[k]] # "idle"
    /\ \A j, k \in 1..Len(turn) : turn[j] = turn[k] => j = k
    /\ \A h \in Handlers : hstep[h] \in {"listed", "crediting"} => HasTurn(h)
    /\ \A h \in Handlers : hstep[h] \in {"idle", "queued"} => rows[h] = {}

CreditInv ==
    /\ \A h \in Handlers : hstep[h] = "listed" => inFlight = NoWork
    /\ \A h \in Handlers : \A o \in rows[h] : row[o] = "pending"
    /\ \A h \in Handlers : hstep[h] = "crediting" => \A o \in rows[h] : inFlight[o] = 1
    /\ \A o \in Outputs : inFlight[o] > 0 => row[o] = "pending" /\ depth[o] >= Needed[o]

HandlerInv == TurnInv /\ CreditInv

DeepEnough == {o \in Outputs : depth[o] >= Needed[o]}
Credited == {o \in Outputs \union Sends : row[o] = "credited"}

\* The balances are what there was and the credited outputs: internal payments
\* and their fees, failing credits and crashes neither make nor lose money.
BooksInv ==
    SumFunctionOnSet(balance, Users) =
        SumFunctionOnSet(InitBalance, Users) + Amount * Cardinality(Credited \intersect Outputs)

ReceiptInv == HandlerInv /\ BooksInv

\* Whatever was confirmed below the saved height has its row: no later start
\* would look at it again.  Not so where registering may fail: a failed
\* addressPaidCb is swallowed and the height saved all the same.
NothingForgotten == \A o \in checked \ Unlucky : row[o] # "none"

\* Strengthening of NothingForgotten: what the check under way will have
\* covered is registered, still to do, or in its hands.
CheckInv ==
    /\ NothingForgotten
    /\ step \in {"list", "walk"} => \A o \in upTo : depth[o] >= 0
    /\ step = "walk" =>
          \A o \in upTo \ (checked \union Unlucky) :
              row[o] # "none" \/ o \in todo \/ o = cur
    /\ step # "walk" => cur = NoOutput

\* Streams, blocks, handlers and restarts implement the ledger of receipts:
\* every output is credited at most once, in full, after its confirmations.
Ledger == INSTANCE ReceiptLedger WITH confirmed <- DeepEnough, credited <- Credited

LedgerSpec == Ledger!Spec

(* The program takes its steps, blocks come, and neither LND nor the        *)
(* database fails for ever.                                                *)
Fairness ==
    /\ WF_vars(Start) /\ WF_vars(Mine)
    /\ WF_vars(ReadHeight) /\ WF_vars(ListTransactions)
    /\ WF_vars(\E o \in Outputs : LookAt(o))
    /\ WF_vars(RegisterMissed) /\ WF_vars(FinishCheck) /\ WF_vars(Serve)
    /\ \A h \in Handlers :
          /\ WF_vars(BlockArrives(h)) /\ SF_vars(ListPending(h))
          /\ SF_vars(CheckConfs(h, rows[h]))
    /\ \A o \in Outputs : WF_vars(AddressPaidCb(o)) /\ SF_vars(CreditRow(o))

FairSpec == Spec /\ Fairness

\* A confirmed output that the stream has announced, that has a row, or that was
\* confirmed while the program was down is credited in the end, once the program
\* stays up, hears of blocks and its last start-up check has not failed.
SeenReceiptsCredited ==
    <>[](phase # "down" /\ step # "failed" /\ "block" \in streams) =>
        \A o \in Outputs \ Unlucky :
            depth[o] >= Needed[o] /\ (phase = "down" \/ o \in arriving \/ row[o] = "pending")
                ~> row[o] = "credited"

\* What a comment of SubscribeAddressPaid says: "confirmed transaction are
\* processed by the newBlock CB".  An output LND first sees confirmed has no row
\* for the block handler to credit, and stays uncredited until a restart.
ConfirmedAreProcessed ==
    [](phase # "down" /\ streams = Streams) =>
        \A o \in Outputs : depth[o] >= Needed[o] ~> row[o] = "credited"
=============================================================================
