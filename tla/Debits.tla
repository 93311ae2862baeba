------------------------------- MODULE Debits -------------------------------
(***************************************************************************)
(* Debits: payments that a requestor draws from a user's balance.  The     *)
(* user grants the requestor a standing access, with an expiration and a   *)
(* cap per interval, bans it, or approves single invoices.  A request is   *)
(* validated first and pays much later, after the watchdog, the invoice's  *)
(* decoding and its lock; the transaction that reserves the money reads    *)
(* the access and the debits of the interval once more.                    *)
(*                                                                         *)
(* One user and one requestor: accesses and debits of others are other     *)
(* rows.  Every request has an invoice of its own; all cost the same.      *)
(***************************************************************************)
EXTENDS Integers, FiniteSets

CONSTANTS
    Requests,   \* requests, one per invoice
    Cost,       \* amount and service fee of each
    Rules,      \* rules a user may set: [cap |-> sats or NoCap, until |-> time]
    NoCap,      \* no frequency rule
    Never,      \* a time that does not come: no expiration rule
    Interval,   \* length of the frequency rule's interval
    MaxTime     \* bound on the clock

NoRule == [cap |-> NoCap, until |-> Never]

ASSUME ConstantsAssumption ==
    /\ IsFiniteSet(Requests)
    /\ NoCap \notin Nat
    /\ Cost \in Nat /\ Interval \in Nat /\ MaxTime \in Nat /\ Never \in Nat
    /\ Rules \subseteq [cap : Nat \union {NoCap}, until : Nat]

VARIABLES
    access,     \* the DebitAccess row
    word,       \* what the user was last told the access is
    banPc,      \* where BanDebit stands
    pc, mode,   \* where a request stands, and who asks for it
    seen,       \* the access row a request has read
    status, paidAt,  \* the UserInvoicePayment rows with debit_to_pub set
    now,
    capAt, ahead     \* history: the cap a reservation was tested against, and
                     \* the rows there were before it

requestVars == <<pc, mode, seen>>
rowVars == <<status, paidAt>>
history == <<capAt, ahead>>
vars == <<access, word, banPc, requestVars, rowVars, now, history>>

NoAccess == [state |-> "none", rule |-> NoRule]
Granted(rule) == [state |-> "granted", rule |-> rule]

\* Request r enters stage p, keeping what it read only while it is validated.
Enter(r, p, m, a) ==
    /\ pc' = [pc EXCEPT ![r] = p]
    /\ mode' = [mode EXCEPT ![r] = m]
    /\ seen' = [seen EXCEPT ![r] = a]

End(r) == Enter(r, "idle", "auto", NoAccess)

Init ==
    /\ access = NoAccess /\ word = "none" /\ banPc = "idle"
    /\ pc = [r \in Requests |-> "idle"]
    /\ mode = [r \in Requests |-> "auto"]
    /\ seen = [r \in Requests |-> NoAccess]
    /\ status = [r \in Requests |-> "none"]
    /\ paidAt = [r \in Requests |-> 0]
    /\ now = 0
    /\ capAt = [r \in Requests |-> NoCap]
    /\ ahead = [r \in Requests |-> {}]

-----------------------------------------------------------------------------
(* checkFrequencyCap.                                                      *)

\* Mutant: a debit still pending is not counted.
MutCounted == {q \in Requests : status[q] = "paid" /\ paidAt[q] > now - Interval}

\* GetUserDebitPayments: pending debits, and those paid in the interval.
Counted ==
    {q \in Requests : \/ status[q] = "pending"
                      \/ status[q] = "paid" /\ paidAt[q] > now - Interval}

WithinCap(rule) ==
    rule.cap # NoCap => Cost * (Cardinality(Counted) + 1) <= rule.cap

-----------------------------------------------------------------------------
(* The user: RespondToDebit, EditDebit, BanDebit and ResetDebit.           *)

\* AddDebitAccess fails when there is a row already.
Grant(rule) ==
    /\ access.state = "none"
    /\ access' = Granted(rule)
    /\ word' = "allow"

\* handleAuthorization without an invoice, or with the invoice of request r,
\* which is validated against the row just written.
Authorize(rule) ==
    /\ Grant(rule)
    /\ UNCHANGED <<banPc, requestVars, rowVars, now, history>>

AuthorizeAndPay(r, rule) ==
    /\ pc[r] = "idle" /\ Grant(rule)
    /\ Enter(r, "read", "auto", Granted(rule))
    /\ UNCHANGED <<banPc, rowVars, now, history>>

\* paySingleInvoice ("once"), or a payment of the user's own that names the
\* requestor ("own").  (PayInvoice refuses an invoice that has a row already.)
Approve(r, m) ==
    /\ pc[r] = "idle" /\ status[r] = "none"
    /\ Enter(r, "checked", m, NoAccess)
    /\ UNCHANGED <<access, word, banPc, rowVars, now, history>>

EditDebit(rule) ==
    /\ access.state # "none"
    /\ access' = [access EXCEPT !.rule = rule]
    /\ UNCHANGED <<word, banPc, requestVars, rowVars, now, history>>

ResetDebit ==
    /\ access' = NoAccess
    /\ word' = "none"
    /\ UNCHANGED <<banPc, requestVars, rowVars, now, history>>

\* DenyDebitAccess reads the row, adds one if there was none, and updates it.
BanReads ==
    /\ banPc = "idle"
    /\ banPc' = IF access.state = "none" THEN "add" ELSE "update"
    /\ UNCHANGED <<access, word, requestVars, rowVars, now, history>>

\* A row added in between makes AddDebitAccess fail, and BanDebit with it.
BanAdds ==
    /\ banPc = "add"
    /\ IF access.state = "none"
       THEN access' = [state |-> "banned", rule |-> NoRule] /\ banPc' = "update"
       ELSE banPc' = "idle" /\ UNCHANGED access
    /\ UNCHANGED <<word, requestVars, rowVars, now, history>>

\* The update of a row removed in between changes nothing.
BanUpdates ==
    /\ banPc = "update"
    /\ access' = IF access.state = "none" THEN access ELSE [access EXCEPT !.state = "banned"]
    /\ banPc' = "idle" /\ word' = "deny"
    /\ UNCHANGED <<requestVars, rowVars, now, history>>

User ==
    \/ \E rule \in Rules : Authorize(rule) \/ EditDebit(rule)
    \/ \E r \in Requests, rule \in Rules : AuthorizeAndPay(r, rule)
    \/ \E r \in Requests, m \in {"once", "own"} : Approve(r, m)
    \/ ResetDebit \/ BanReads \/ BanAdds \/ BanUpdates

-----------------------------------------------------------------------------
(* A request.                                                              *)

\* doNdebit reads the access; without one the user is asked instead.
Arrive(r) ==
    /\ pc[r] = "idle" /\ access.state = "granted"
    /\ Enter(r, "read", "auto", access)
    /\ UNCHANGED <<access, word, banPc, rowVars, now, history>>

\* validateAccessRules, on the row read before the invoice was decoded.
Valid(r) ==
    /\ pc[r] = "read" /\ status[r] = "none"
    /\ seen[r].rule.until >= now /\ WithinCap(seen[r].rule)
    /\ Enter(r, "checked", "auto", NoAccess)
    /\ UNCHANGED <<access, word, banPc, rowVars, now, history>>

\* Expired: whatever row there is by now is removed.
Expired(r) ==
    /\ pc[r] = "read" /\ seen[r].rule.until < now
    /\ access' = NoAccess
    /\ End(r)
    /\ UNCHANGED <<word, banPc, rowVars, now, history>>

\* The cap of the row it has read is exceeded, the invoice has a row already, or
\* some step fails.
Refuse(r) ==
    /\ pc[r] \in {"read", "checked"}
    /\ End(r)
    /\ UNCHANGED <<access, word, banPc, rowVars, now, history>>

\* Mutant: the transaction trusts the row that was validated.
MutAssertDebitFrequency(r) ==
    mode[r] # "own" => WithinCap(access.rule)

\* assertDebitFrequency, in the transaction of the reservation.
AssertDebitFrequency(r) ==
    /\ mode[r] = "auto" => access.state = "granted"
    /\ mode[r] = "once" => access.state # "banned"
    /\ mode[r] # "own" => WithinCap(access.rule)

\* "payment started", or the transaction of an internal payment, which is paid
\* at once.
Reserve(r) ==
    /\ pc[r] = "checked" /\ status[r] = "none"
    /\ AssertDebitFrequency(r)
    /\ \/ status' = [status EXCEPT ![r] = "pending"] /\ UNCHANGED paidAt
       \/ status' = [status EXCEPT ![r] = "paid"] /\ paidAt' = [paidAt EXCEPT ![r] = now]
    /\ End(r)
    /\ IF mode[r] = "own" \/ access.rule.cap = NoCap
       THEN UNCHANGED history
       ELSE /\ capAt' = [capAt EXCEPT ![r] = access.rule.cap]
            /\ ahead' = [ahead EXCEPT ![r] = {q \in Requests : status[q] \in {"pending", "paid"}}]
    /\ UNCHANGED <<access, word, banPc, now>>

\* The live call or recovery marks the row paid, at the time it does so.
Settle(r) ==
    /\ status[r] = "pending"
    /\ status' = [status EXCEPT ![r] = "paid"]
    /\ paidAt' = [paidAt EXCEPT ![r] = now]
    /\ UNCHANGED <<access, word, banPc, requestVars, now, history>>

Refund(r) ==
    /\ status[r] = "pending"
    /\ status' = [status EXCEPT ![r] = "failed"]
    /\ capAt' = [capAt EXCEPT ![r] = NoCap] /\ ahead' = [ahead EXCEPT ![r] = {}]
    /\ UNCHANGED <<access, word, banPc, requestVars, paidAt, now>>

\* Requests and the ban under way are lost; rows are not.
Crash ==
    /\ banPc' = "idle"
    /\ pc' = [r \in Requests |-> "idle"]
    /\ mode' = [r \in Requests |-> "auto"]
    /\ seen' = [r \in Requests |-> NoAccess]
    /\ UNCHANGED <<access, word, rowVars, now, history>>

Tick ==
    /\ now < MaxTime /\ now' = now + 1
    /\ UNCHANGED <<access, word, banPc, requestVars, rowVars, history>>

Next ==
    \/ User \/ Crash \/ Tick
    \/ \E r \in Requests :
        Arrive(r) \/ Valid(r) \/ Expired(r) \/ Refuse(r) \/ Reserve(r) \/ Settle(r) \/ Refund(r)

Spec == Init /\ [][Next]_vars

-----------------------------------------------------------------------------
(* Properties.                                                             *)

Accesses == [state : {"none", "granted", "banned"}, rule : Rules \union {NoRule}]

\* Every variable has its type.
TypeOK ==
    /\ access \in Accesses /\ seen \in [Requests -> Accesses]
    /\ word \in {"none", "allow", "deny"}
    /\ banPc \in {"idle", "add", "update"}
    /\ pc \in [Requests -> {"idle", "read", "checked"}]
    /\ mode \in [Requests -> {"auto", "once", "own"}]
    /\ status \in [Requests -> {"none", "pending", "paid", "failed"}]
    /\ paidAt \in [Requests -> Nat]
    /\ now \in Nat
    /\ capAt \in [Requests -> Nat \union {NoCap}]
    /\ ahead \in [Requests -> SUBSET Requests]

\* The debits settled within Interval of each other, up to one that was
\* reserved under a cap, never exceed that cap: neither requests that race,
\* nor payments that are settled late, nor a cap lowered after the validation
\* let a requestor draw more per interval than the user granted.
SettledWith(r, s) ==
    {q \in ahead[r] \union {r} :
        status[q] = "paid" /\ s < paidAt[q] /\ paidAt[q] <= s + Interval}

CapRespected ==
    \A r \in Requests :
        status[r] = "paid" /\ capAt[r] # NoCap =>
            \A s \in (paidAt[r] - Interval)..(paidAt[r] - 1) :
                Cost * Cardinality(SettledWith(r, s)) <= capAt[r]

\* No debit is drawn without a standing access: from the moment BanDebit or
\* ResetDebit has answered, until the user grants access again, no request
\* reserves money that the user did not approve by hand, even one validated
\* before.
DebitsAuthorized ==
    [][\A r \in Requests :
        status[r] = "none" /\ status'[r] # "none" /\ mode[r] = "auto" => word = "allow"]_vars
=============================================================================
