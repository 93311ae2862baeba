--------------------------- MODULE ProviderBalance ---------------------------
(***************************************************************************)
(* The money held at the liquidity provider.  LiquidityProvider keeps the  *)
(* last balance the provider told it and the payments under way; the       *)
(* database keeps the balance that should be there (TrackedProvider), to   *)
(* which receipts are added and from which payments are taken once they    *)
(* are final.  RugPullTracker compares the two in every check of the       *)
(* Watchdog and calls a shortfall a rug pull.  Requests, their answers and *)
(* the live operations travel over nostr: late, out of order, or never.    *)
(* Every amount is 1 and the provider charges no fee.  At start-up the     *)
(* provider is never ready, so no payment is recovered (OutgoingPayments). *)
(***************************************************************************)
EXTENDS Integers, FiniteSets

CONSTANTS
    UserPays,    \* payments of users, whose rows are finalized
    SystemPays,  \* payments of the program itself: drains, channel orders
    Receipts,    \* payments the provider receives for this program
    Initial,     \* balance at the provider before all of them
    MaxLoss,     \* bound: how much the provider takes
    MayRestart   \* the process may stop and start again

Pays == UserPays \union SystemPays

ASSUME ProviderAssumption ==
    /\ IsFiniteSet(UserPays) /\ IsFiniteSet(SystemPays) /\ IsFiniteSet(Receipts)
    /\ UserPays \intersect SystemPays = {} /\ Pays \intersect Receipts = {}
    /\ Initial \in Nat /\ MaxLoss \in Nat /\ MayRestart \in BOOLEAN

VARIABLES
    verdict,    \* provider: what became of each payment
    received,   \* provider: receipts so far
    lost,       \* provider: money it took
    mail,       \* messages of the provider on their way
    connected,  \* LiquidityProvider.ready
    beacon,     \* lastSeenBeacon is recent
    obs,        \* latestReceivedBalance and observedProviderBalance
    pending,    \* keys of pendingPayments
    call,       \* await of each PayInvoice
    rugPulled,  \* RugPullTracker.rugPulled
    check,      \* await of CheckProviderBalance
    read,       \* its local: the row, and the receipts counted in it
    tracker,    \* the row of TrackedProvider
    base,       \* money taken before the row's balance was computed
    early,      \* counted in that balance, and once more later
    counted,    \* receipts in the row's balance
    booked      \* payments taken from the row's balance

providerVars == <<verdict, received, lost>>
memoryVars == <<connected, beacon, obs, pending, call>>
checkVars == <<rugPulled, check, read>>
historyVars == <<base, early, counted, booked>>
vars == <<providerVars, mail, memoryVars, checkVars, tracker, historyVars>>

\* A balance, as the provider computes it: from all it knows at that moment.
Balances == [told : BOOLEAN, got : SUBSET Receipts, out : SUBSET Pays, lost : 0..MaxLoss]
NoBalance == [told |-> FALSE, got |-> {}, out |-> {}, lost |-> 0]
Taken == {p \in Pays : verdict[p] \in {"held", "unsure", "paid"}}
BalanceWith(got) == [told |-> TRUE, got |-> got, out |-> Taken, lost |-> lost]
Balance == BalanceWith(received)
Worth(b) == Initial + Cardinality(b.got) - Cardinality(b.out) - b.lost

NoRow == [opened |-> FALSE, balance |-> 0, disrupted |-> FALSE]
NoRead == [row |-> NoRow, counted |-> {}]

Init ==
    /\ verdict = [p \in Pays |-> "none"] /\ received = {} /\ lost = 0 /\ mail = {}
    /\ connected = FALSE /\ beacon = FALSE /\ obs = NoBalance /\ pending = {}
    /\ call = [p \in Pays |-> "idle"]
    /\ rugPulled = FALSE /\ check = "idle" /\ read = NoRead /\ tracker = NoRow
    /\ base = 0 /\ early = {} /\ counted = {} /\ booked = {}

-----------------------------------------------------------------------------
(* The provider.                                                           *)

Ok(p) == [kind |-> "ok", of |-> p, bal |-> Balance]
Error(p) == [kind |-> "error", of |-> p, bal |-> NoBalance]

Hold(p) ==
    /\ call[p] = "asked" /\ verdict[p] = "none"
    /\ Worth(Balance) >= 1
    /\ verdict' = [verdict EXCEPT ![p] = "held"]
    /\ UNCHANGED <<received, lost, mail, memoryVars, checkVars, tracker, historyVars>>

\* The request is refused, or the payment failed and was given back.
Fail(p) ==
    /\ call[p] = "asked" /\ verdict[p] \in {"none", "held"}
    /\ verdict' = [verdict EXCEPT ![p] = "failed"] /\ mail' = mail \union {Error(p)}
    /\ UNCHANGED <<received, lost, memoryVars, checkVars, tracker, historyVars>>

Deliver(p) ==
    /\ verdict[p] = "held" /\ verdict' = [verdict EXCEPT ![p] = "paid"]
    /\ mail' = mail \union {Ok(p)}
    /\ UNCHANGED <<received, lost, memoryVars, checkVars, tracker, historyVars>>

\* The provider's own call fails with the payment's outcome open.
Doubt(p) ==
    /\ verdict[p] = "held" /\ verdict' = [verdict EXCEPT ![p] = "unsure"]
    /\ mail' = mail \union {Error(p)}
    /\ UNCHANGED <<received, lost, memoryVars, checkVars, tracker, historyVars>>

Resolve(p) ==
    /\ verdict[p] = "unsure"
    /\ \E v \in {"paid", "failed"} : verdict' = [verdict EXCEPT ![p] = v]
    /\ UNCHANGED <<received, lost, mail, memoryVars, checkVars, tracker, historyVars>>

Receive(i) ==
    /\ i \notin received /\ received' = received \union {i}
    /\ mail' = mail \union {[kind |-> "operation", of |-> i, bal |-> BalanceWith(received')]}
    /\ UNCHANGED <<verdict, lost, memoryVars, checkVars, tracker, historyVars>>

Take ==
    /\ lost < MaxLoss /\ lost' = lost + 1
    /\ UNCHANGED <<verdict, received, mail, memoryVars, checkVars, tracker, historyVars>>

Lose(m) ==
    /\ m \in mail /\ mail' = mail \ {m}
    /\ UNCHANGED <<providerVars, memoryVars, checkVars, tracker, historyVars>>

ProviderStep ==
    \/ Take
    \/ \E p \in Pays : Hold(p) \/ Fail(p) \/ Deliver(p) \/ Doubt(p) \/ Resolve(p)
    \/ \E i \in Receipts : Receive(i)
    \/ \E m \in mail : Lose(m)

-----------------------------------------------------------------------------
(* LiquidityProvider: readiness and the balance it was told.               *)

IsReady == connected /\ beacon /\ obs.told

\* Connect or retryProviderInfo: GetUserState, then markProviderReady.
Connect ==
    /\ ~connected /\ connected' = TRUE /\ beacon' = TRUE /\ obs' = Balance
    /\ UNCHANGED <<providerVars, mail, pending, call, checkVars, tracker, historyVars>>

\* Two minutes without a beacon, or ten seconds without the answer to a payment.
LoseBeacon ==
    /\ beacon /\ beacon' = FALSE
    /\ UNCHANGED <<providerVars, mail, connected, obs, pending, call, checkVars, tracker,
                   historyVars>>

\* onBeaconEvent.
SeeBeacon ==
    /\ connected /\ ~beacon /\ beacon' = TRUE
    /\ UNCHANGED <<providerVars, mail, connected, obs, pending, call, checkVars, tracker,
                   historyVars>>

-----------------------------------------------------------------------------
(* PayInvoice and SettleProviderPayment.                                   *)

\* CanProviderPay, then PayInvoice up to the request.
Ask(p) ==
    /\ IsReady /\ Worth(obs) >= 1 /\ call[p] = "idle"
    /\ call' = [call EXCEPT ![p] = "asked"] /\ pending' = pending \union {p}
    /\ UNCHANGED <<providerVars, mail, connected, beacon, obs, checkVars, tracker, historyVars>>

\* The row's balance, of a row that is there.
Add(n) == tracker' = IF tracker.opened THEN [tracker EXCEPT !.balance = @ + n] ELSE tracker

\* Mutant: the entry of pendingPayments stays.
MutSettle(p) ==
    /\ check # "read"
    /\ Add(-1) /\ booked' = IF tracker.opened THEN booked \union {p} ELSE booked
    /\ call' = [call EXCEPT ![p] = "done"]
    /\ UNCHANGED <<base, early, counted, pending>>

\* SettleProviderPayment.  The storage process answers in order, so its answer
\* does not come between the read of a check and what the check does with it.
Settle(p) ==
    /\ check # "read"
    /\ Add(-1) /\ booked' = IF tracker.opened THEN booked \union {p} ELSE booked
    /\ pending' = pending \ {p} /\ call' = [call EXCEPT ![p] = "done"]
    /\ UNCHANGED <<base, early, counted>>

\* Mutant: the debit is made here too.
MutUserPaid(m) ==
    /\ m.kind = "ok" /\ m.of \in UserPays /\ call[m.of] = "asked"
    /\ call' = [call EXCEPT ![m.of] = "replied"] /\ obs' = m.bal /\ mail' = mail \ {m}
    /\ Add(-1)
    /\ UNCHANGED <<providerVars, connected, beacon, pending, checkVars, historyVars>>

\* A user's payment is paid; PayExternalInvoice has still to finalize its row.
UserPaid(m) ==
    /\ m.kind = "ok" /\ m.of \in UserPays /\ call[m.of] = "asked"
    /\ call' = [call EXCEPT ![m.of] = "replied"] /\ obs' = m.bal /\ mail' = mail \ {m}
    /\ UNCHANGED <<providerVars, connected, beacon, pending, checkVars, tracker, historyVars>>

\* The transaction "finalize provider payment".
Finalize(p) ==
    /\ call[p] = "replied" /\ Settle(p)
    /\ UNCHANGED <<providerVars, mail, connected, beacon, obs, checkVars>>

\* It throws before SettleProviderPayment is through: the row is left pending,
\* and so is the entry in memory.
FinalizeThrows(p) ==
    /\ call[p] = "replied" /\ call' = [call EXCEPT ![p] = "lapsed"]
    /\ UNCHANGED <<providerVars, mail, connected, beacon, obs, pending, checkVars, tracker,
                   historyVars>>

\* It is rolled back after SettleProviderPayment.
FinalizeUndone(p) ==
    /\ call[p] = "replied" /\ check # "read"
    /\ pending' = pending \ {p} /\ call' = [call EXCEPT ![p] = "done"]
    /\ UNCHANGED <<providerVars, mail, connected, beacon, obs, checkVars, tracker, historyVars>>

\* A payment of the program itself is settled at once.
SystemPaid(m) ==
    /\ m.kind = "ok" /\ m.of \in SystemPays /\ call[m.of] = "asked"
    /\ Settle(m.of) /\ obs' = m.bal /\ mail' = mail \ {m}
    /\ UNCHANGED <<providerVars, connected, beacon, checkVars>>

\* Its debit throws into the catch, which also ends every payment refused.
Throws(m) ==
    /\ \/ m.kind = "error"
       \/ m.kind = "ok" /\ m.of \in SystemPays /\ check # "read"
    /\ call[m.of] = "asked" /\ call' = [call EXCEPT ![m.of] = "done"]
    /\ pending' = pending \ {m.of} /\ mail' = mail \ {m}
    /\ UNCHANGED <<providerVars, connected, beacon, obs, checkVars, tracker, historyVars>>

\* The callback of GetLiveUserOperations, of an incoming payment.  A callback
\* that throws leaves all of this as it was, like a message lost.
CountReceipt(m) ==
    /\ m.kind = "operation" /\ mail' = mail \ {m} /\ obs' = m.bal
    /\ Add(1)
    /\ IF tracker.opened
       THEN /\ counted' = counted \union {m.of}
            /\ early' = IF m.of \in counted THEN early \union {m.of} ELSE early
       ELSE UNCHANGED <<counted, early>>
    /\ UNCHANGED <<providerVars, connected, beacon, pending, call, checkVars, base, booked>>

ClientStep ==
    \/ Connect \/ LoseBeacon \/ SeeBeacon
    \/ \E p \in Pays : Ask(p) \/ Finalize(p) \/ FinalizeThrows(p) \/ FinalizeUndone(p)
    \/ \E m \in mail : UserPaid(m) \/ SystemPaid(m) \/ Throws(m) \/ CountReceipt(m)

-----------------------------------------------------------------------------
(* CheckProviderBalance.                                                   *)

\* GetTrackedProvider.
ReadRow ==
    /\ check = "idle" /\ check' = "read"
    /\ read' = [row |-> tracker, counted |-> counted]
    /\ UNCHANGED <<providerVars, mail, memoryVars, rugPulled, tracker, historyVars>>

\* Mutant: what is under way is left out.
MutTrackedBalance == Worth(obs)

\* What the provider told, and the payments under way (GetPendingBalance).
TrackedBalance == Worth(obs) + Cardinality(pending)

NotReady ==
    /\ check = "read" /\ ~IsReady /\ check' = "idle" /\ read' = NoRead
    /\ UNCHANGED <<providerVars, mail, memoryVars, rugPulled, tracker, historyVars>>

\* No row yet: its balance is what was told and is under way at this moment.
StartTracking ==
    /\ check = "read" /\ IsReady /\ ~read.row.opened /\ check' = "create"
    /\ read' = [read EXCEPT !.row.balance = TrackedBalance]
    /\ base' = obs.lost /\ early' = pending \ obs.out
    /\ counted' = obs.got /\ booked' = obs.out \ pending
    /\ UNCHANGED <<providerVars, mail, memoryVars, rugPulled, tracker>>

\* CreateTrackedProvider.  Debits and receipts that came before found no row.
CreateRow ==
    /\ check = "create" /\ check' = "idle" /\ read' = NoRead
    /\ tracker' = [read.row EXCEPT !.opened = TRUE]
    /\ UNCHANGED <<providerVars, mail, memoryVars, rugPulled, historyVars>>

\* checkForDisruption, up to the write of the row.
Judge ==
    /\ check = "read" /\ IsReady /\ read.row.opened
    /\ rugPulled' = (TrackedBalance < read.row.balance)
    /\ IF read.row.disrupted = rugPulled' THEN check' = "idle" /\ read' = NoRead
                                          ELSE check' = "flag" /\ read' = read
    /\ UNCHANGED <<providerVars, mail, memoryVars, tracker, historyVars>>

\* Mutant: a rug pull is never taken back.
MutFlagDisruption ==
    /\ check = "flag" /\ check' = "idle" /\ read' = NoRead
    /\ tracker' = [tracker EXCEPT !.disrupted = @ \/ rugPulled]
    /\ UNCHANGED <<providerVars, mail, memoryVars, rugPulled, historyVars>>

\* UpdateTrackedProviderDisruption.
FlagDisruption ==
    /\ check = "flag" /\ check' = "idle" /\ read' = NoRead
    /\ tracker' = [tracker EXCEPT !.disrupted = rugPulled]
    /\ UNCHANGED <<providerVars, mail, memoryVars, rugPulled, historyVars>>

CheckStep == ReadRow \/ NotReady \/ StartTracking \/ CreateRow \/ Judge \/ FlagDisruption

-----------------------------------------------------------------------------

\* Rows and invoices outlive the process: no payment is made twice.
Forgotten == [p \in Pays |-> IF call[p] = "idle" THEN "idle" ELSE "done"]

\* All but the database is gone, and with it what was on its way: nobody awaits
\* the answers, and the subscription asks for no event before the start
\* (GetSinceMs).
Restart ==
    /\ MayRestart /\ connected
    /\ connected' = FALSE /\ beacon' = FALSE /\ obs' = NoBalance /\ pending' = {}
    /\ call' = Forgotten
    /\ mail' = {}
    /\ rugPulled' = FALSE /\ check' = "idle" /\ read' = NoRead
    /\ UNCHANGED <<providerVars, tracker, historyVars>>

Next == ProviderStep \/ ClientStep \/ CheckStep \/ Restart

Spec == Init /\ [][Next]_vars

\* The watchdog keeps checking, and a check that began goes on.
FairSpec == Spec /\ WF_vars(CheckStep)

-----------------------------------------------------------------------------
(* Properties.                                                             *)

Messages == [kind : {"ok", "error", "operation"}, of : Pays \union Receipts, bal : Balances]
ProviderTypes ==
    /\ verdict \in [Pays -> {"none", "held", "unsure", "paid", "failed"}]
    /\ received \subseteq Receipts /\ lost \in 0..MaxLoss
    /\ mail \subseteq Messages
    /\ \A m \in mail : IF m.kind = "operation" THEN m.of \in Receipts ELSE m.of \in Pays
MemoryTypes ==
    /\ connected \in BOOLEAN /\ beacon \in BOOLEAN /\ obs \in Balances
    /\ call \in [Pays -> {"idle", "asked", "replied", "lapsed", "done"}]
    /\ pending = {p \in Pays : call[p] \in {"asked", "replied", "lapsed"}}
Rows == [opened : BOOLEAN, balance : Int, disrupted : BOOLEAN]
RowTypes ==
    /\ rugPulled \in BOOLEAN /\ check \in {"idle", "read", "create", "flag"}
    /\ read \in [row : Rows, counted : SUBSET Receipts] /\ tracker \in Rows
    /\ base \in 0..MaxLoss /\ early \subseteq Pays \union Receipts
    /\ counted \subseteq Receipts /\ booked \subseteq Pays

\* What each variable holds; an entry of pendingPayments belongs to a payment
\* that was asked for and not yet settled or refused.
TypeOK == ProviderTypes /\ MemoryTypes /\ RowTypes

\* A check compares the balances in this step.
Compares ==
    check = "read" /\ check' # "read" /\ read.row.opened /\ IsReady /\ connected'

\* A rug pull is found only if the provider told of money it took, or else for
\* one of the reasons a check cannot tell from it: the balance told is older
\* than a receipt in the row; a payment the provider took is neither in the row
\* nor under way; or the row began with something counted twice.
AlarmIsExplained ==
    [][ Compares /\ rugPulled' =>
          \/ obs.lost > base
          \/ ~(read.counted \subseteq obs.got)
          \/ ~(obs.out \subseteq booked \union pending)
          \/ early # {} ]_vars

\* Money the provider took, and told of, is found missing by the next check,
\* unless a receipt the row does not count, or a payment the provider has not
\* taken or not told of, makes up for it.
LossIsSeen ==
    [][ Compares /\ ~rugPulled' /\ obs.lost > base =>
          \/ ~(obs.got \subseteq read.counted)
          \/ ~(booked \union pending \subseteq obs.out) ]_vars

\* What was told, the row and the payments under way agree, as they stand.
Agreed ==
    /\ IsReady /\ obs.lost <= base /\ counted \subseteq obs.got
    /\ obs.out \subseteq booked \union pending /\ early = {}

\* The alarm does not outlast its reason: it cannot stay that all agrees and
\* the provider is still called a rug puller, in memory or in the row.
AlarmLifted == []<>(~Agreed \/ (~rugPulled /\ ~tracker.disrupted))
=============================================================================
