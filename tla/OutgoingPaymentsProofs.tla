----------------------- MODULE OutgoingPaymentsProofs -----------------------
(***************************************************************************)
(* Theorems about OutgoingPayments, for any users, invoices, calls,        *)
(* amounts and fees.                                                       *)
(***************************************************************************)
EXTENDS OutgoingPayments, SumTheorems

-----------------------------------------------------------------------------
(* Type correctness.                                                       *)

LEMMA TotalNat == \A u : Total(u) \in Nat
BY MoneyAssumption DEF Total, ServiceFeeOf

LEMMA SurplusNat ==
    ASSUME NEW u, NEW fee \in Nat PROVE Surplus(u, fee) \in Nat
BY MoneyAssumption DEF Surplus

LEMMA RoundedUpNat ==
    ASSUME TypeOK, NEW i \in Invoices PROVE RoundedUp(i) \in Nat
BY DEF TypeOK, RemoteTypes, RoundedUp

LEMMA CreditNat ==
    ASSUME TypeOK, NEW u \in Users, NEW n \in Nat
    PROVE  Credit(balance, u, n) \in [Users -> Nat]
BY DEF TypeOK, Credit

\* A group of variables left alone keeps its types.
LEMMA UnchangedTypes ==
    /\ RowTypes /\ UNCHANGED rowVars /\ UNCHANGED indexVars => RowTypes'
    /\ CallTypes /\ UNCHANGED callVars => CallTypes'
    /\ RemoteTypes /\ UNCHANGED remoteVars => RemoteTypes'
    /\ BootTypes /\ UNCHANGED bootVars => BootTypes'
BY DEF RowTypes, CallTypes, RemoteTypes, BootTypes, rowVars, indexVars,
       callVars, remoteVars, bootVars

LEMMA GotoTypes ==
    ASSUME CallTypes, NEW c \in Calls, NEW s \in PcValues, Goto(c, s),
           pc[c] # "idle", UNCHANGED <<user, inv, gotIndex, misses>>
    PROVE  CallTypes'
BY DEF CallTypes, Goto

LEMMA ReturnTypes ==
    ASSUME CallTypes, NEW c \in Calls, Return(c) PROVE CallTypes'
BY MoneyAssumption DEF CallTypes, Return, PcValues

LEMMA StatusTypes ==
    ASSUME RowTypes, NEW i, NEW s \in {"none", "pending", "paid", "failed"},
           status' = [status EXCEPT ![i] = s],
           UNCHANGED <<payer, rail, indexVars>>, routingFees' \in [Invoices -> Nat]
    PROVE  RowTypes'
BY DEF RowTypes, indexVars

LEMMA FeeTypes ==
    ASSUME RowTypes, NEW i, NEW n \in Nat,
           routingFees' = routingFees \/ routingFees' = [routingFees EXCEPT ![i] = n]
    PROVE  routingFees' \in [Invoices -> Nat]
BY DEF RowTypes

LEMMA InitType == Init => TypeOK
BY MoneyAssumption, EnvironmentAssumption
DEF Init, TypeOK, RowTypes, CallTypes, RemoteTypes, BootTypes, PcValues, RemoteValues

LEMMA CallStepType == ASSUME TypeOK, NEW c \in Calls, CallStep(c) PROVE TypeOK'
<1> USE UnchangedTypes DEF TypeOK, At
<1>pc. \A s \in {"idle", "admitted", "locked", "clear", "ready", "waiting", "tracking",
                 "confirm", "refund", "finalize", "surplus"} : s \in PcValues
  BY DEF PcValues
<1>in. pc[c] # "idle" => inv[c] \in Invoices /\ user[c] \in Users
  BY DEF CallTypes
<1>1. ASSUME NEW u \in Users, NEW i \in Invoices, Begin(c, u, i) PROVE TypeOK'
  <2>1. CallTypes'
    BY <1>1, <1>pc DEF Begin, CallTypes, Goto
  <2> QED BY <1>1, <2>1 DEF Begin
<1>2. CASE TakeLock(c)
  <2>1. CASE inv[c] \in locked
    BY <1>2, <2>1, ReturnTypes DEF TakeLock
  <2>2. CASE inv[c] \notin locked
    BY <1>2, <2>2, <1>in, <1>pc, GotoTypes DEF TakeLock
  <2> QED BY <2>1, <2>2
<1>3. CASE CheckRow(c)
  <2>1. CASE status[inv[c]] = "none"
    BY <1>3, <2>1, <1>pc, GotoTypes DEF CheckRow
  <2>2. CASE status[inv[c]] # "none"
    BY <1>3, <2>2, ReturnTypes DEF CheckRow, Unlock
  <2> QED BY <2>1, <2>2
<1>4. ASSUME NEW r \in Rails, Reserve(c, r) PROVE TypeOK'
  <2>1. balance' \in [Users -> Nat]
    BY <1>4, <1>in, TotalNat DEF Reserve, CanReserve
  <2>2. RowTypes'
    BY <1>4, <1>in, EnvironmentAssumption DEF Reserve, RowTypes, indexVars
  <2>3. CallTypes'
    BY <1>4, <1>pc, GotoTypes DEF Reserve
  <2> QED BY <1>4, <2>1, <2>2, <2>3 DEF Reserve
<1>5. CASE ReserveFails(c) \/ LeavePending(c) \/ RefundFails(c)
  BY <1>5, ReturnTypes DEF ReserveFails, LeavePending, RefundFails, Unlock
<1>6. CASE Refused(c) \/ Answered(c) \/ ProviderErrors(c) \/ TrackAnswer(c) \/ Confirm(c) \/ FinalizeFails(c)
  BY <1>6, <1>pc, GotoTypes DEF Refused, Answered, ProviderErrors, TrackAnswer, Confirm, FinalizeFails
<1>7. CASE Send(c)
  <2>1. RemoteTypes'
    BY <1>7 DEF Send, RemoteTypes, RemoteValues
  <2> QED BY <1>7, <2>1, <1>pc, GotoTypes DEF Send
<1>8. CASE IndexArrives(c)
  <2>1. RowTypes'
    BY <1>8, <1>in DEF IndexArrives, RowTypes, rowVars
  <2>2. CallTypes'
    BY <1>8 DEF IndexArrives, CallTypes
  <2> QED BY <1>8, <2>1, <2>2 DEF IndexArrives
<1>9. CASE StreamBreaks(c)
  <2>1. RemoteTypes'
    BY <1>9 DEF StreamBreaks, Closed, RemoteTypes, RemoteValues
  <2> QED BY <1>9, <2>1, <1>pc, GotoTypes DEF StreamBreaks
<1>10. CASE TrackMiss(c) \/ TrackError(c)
  <2>1. CallTypes'
    BY <1>10, <1>pc DEF TrackMiss, TrackError, CallTypes, Goto
  <2> QED BY <1>10, <2>1 DEF TrackMiss, TrackError
<1>11. CASE Refund(c)
  BY <1>11, <1>in, TotalNat, CreditNat, StatusTypes, FeeTypes, ReturnTypes DEF Refund, Unlock
<1>12. CASE Finalize(c)
  <2>1. routingFees' \in [Invoices -> Nat]
    BY <1>12, <1>in, RoundedUpNat, FeeTypes DEF Finalize
  <2> QED BY <1>12, <2>1, <1>pc, StatusTypes, GotoTypes DEF Finalize, Unlock
<1>13. CASE CreditSurplus(c)
  <2>1. routingFees[inv[c]] \in Nat
    BY <1>13, <1>in DEF CreditSurplus, RowTypes
  <2> QED BY <1>13, <2>1, MoneyAssumption, SurplusNat, CreditNat, ReturnTypes DEF CreditSurplus
<1>14. CASE CreditSurplusFails(c)
  BY <1>14, ReturnTypes DEF CreditSurplusFails
<1> QED
  BY <1>1, <1>2, <1>3, <1>4, <1>5, <1>6, <1>7, <1>8, <1>9, <1>10, <1>11, <1>12, <1>13, <1>14
  DEF CallStep

LEMMA RecoverType == ASSUME TypeOK, Recover PROVE TypeOK'
<1> USE UnchangedTypes DEF TypeOK
<1>pay. cur # NoInvoice => cur \in Invoices /\ payer[cur] \in Users
  BY DEF BootTypes, RowTypes
<1>1. CASE \E i \in Invoices : NextRow(i)
  <2>1. BootTypes'
    BY <1>1 DEF NextRow, BootTypes
  <2> QED BY <1>1, <2>1 DEF NextRow
<1>done. RowDone => BootTypes'
  BY DEF RowDone, BootTypes
<1>2. CASE RecoverSkip
  BY <1>2, <1>done DEF RecoverSkip
<1>3. CASE RecoverPaid
  <2>1. netFee[cur] \in Nat
    BY <1>3, <1>pay DEF RecoverPaid, CanLookup, RemoteTypes
  <2>2. routingFees' \in [Invoices -> Nat]
    BY <1>3, <2>1, FeeTypes DEF RecoverPaid
  <2> QED
    BY <1>3, <2>1, <2>2, <1>done, MoneyAssumption, SurplusNat, CreditNat, StatusTypes
    DEF RecoverPaid
<1>4. CASE RefundRow /\ CanLookup
  BY <1>4, <1>done, <1>pay, TotalNat, CreditNat, StatusTypes, FeeTypes DEF RefundRow, CanLookup
<1>5. CASE RecoverMiss
  <2>1. BootTypes'
    BY <1>5 DEF RecoverMiss, BootTypes
  <2> QED BY <1>5, <2>1 DEF RecoverMiss
<1>6. CASE Serve
  <2>1. BootTypes'
    BY <1>6 DEF Serve, BootTypes
  <2> QED BY <1>6, <2>1 DEF Serve
<1> QED
  BY <1>1, <1>2, <1>3, <1>4, <1>5, <1>6
  DEF Recover, RecoverFailed, RecoverMissing, Missing

LEMMA CrashType == ASSUME TypeOK, Crash PROVE TypeOK'
<1> USE DEF TypeOK
<1>1. RowTypes'
  BY DEF Crash, RowTypes, rowVars
<1>2. CallTypes'
  BY MoneyAssumption DEF Crash, CallTypes, PcValues
<1>3. RemoteTypes'
  BY DEF Crash, Closed, RemoteTypes, RemoteValues
<1>4. BootTypes'
  BY EnvironmentAssumption DEF Crash, BootTypes, PendingRows
<1> QED BY <1>1, <1>2, <1>3, <1>4 DEF Crash

LEMMA EnvironmentType ==
    ASSUME TypeOK, NEW i \in Invoices, SaveIndex(i) \/ RemoteStep(i)
    PROVE  TypeOK'
<1> USE UnchangedTypes DEF TypeOK
<1>1. CASE SaveIndex(i)
  <2>1. RowTypes'
    BY <1>1 DEF SaveIndex, RowTypes, rowVars
  <2> QED BY <1>1, <2>1 DEF SaveIndex
<1>2. CASE RemoteStep(i)
  <2>1. CASE Register(i) \/ Drop(i) \/ Fail(i)
    <3>1. RemoteTypes'
      BY <2>1 DEF Register, Drop, Fail, RemoteTypes, RemoteValues
    <3> QED BY <1>2, <3>1 DEF RemoteStep
  <2>2. CASE Succeed(i)
    <3>1. RemoteTypes'
      BY <2>2, MoneyAssumption DEF Succeed, RemoteTypes, RemoteValues
    <3> QED BY <1>2, <3>1 DEF RemoteStep
  <2>3. CASE Forget(i)
    <3>1. RemoteTypes'
      BY <2>3 DEF Forget, RemoteTypes
    <3> QED BY <1>2, <3>1 DEF RemoteStep
  <2> QED BY <1>2, <2>1, <2>2, <2>3 DEF RemoteStep
<1> QED BY <1>1, <1>2

LEMMA NextType == ASSUME TypeOK, [Next]_vars PROVE TypeOK'
<1>1. CASE UNCHANGED vars
  BY <1>1, UnchangedTypes DEF vars, TypeOK
<1>2. ASSUME ProviderLink PROVE TypeOK'
  <2> USE UnchangedTypes DEF TypeOK
  <2>1. BootTypes'
    BY <1>2 DEF ProviderLink, BootTypes
  <2> QED BY <1>2, <2>1 DEF ProviderLink
<1> QED
  BY <1>1, <1>2, CallStepType, RecoverType, CrashType, EnvironmentType DEF Next

(* No balance is ever negative, and every row and call is well formed, in  *)
(* every behaviour of the payments.                                        *)
THEOREM TypeCorrect == Spec => []TypeOK
<1>1. Init => TypeOK
  BY InitType
<1>2. TypeOK /\ [Next]_vars => TypeOK'
  BY NextType
<1> QED BY <1>1, <1>2, PTL DEF Spec

-----------------------------------------------------------------------------
(* The lock: what each kind of step does to it.                            *)

LEMMA LockAcquire ==
    ASSUME TypeOK, OneCallPerInvoice, NEW c \in Calls, ~Holding(c), inv[c] \notin locked,
           locked' = locked \union {inv[c]}, Goto(c, "locked"), UNCHANGED inv
    PROVE  OneCallPerInvoice'
BY DEF OneCallPerInvoice, Holding, Goto, TypeOK, CallTypes

LEMMA LockKept ==
    ASSUME TypeOK, OneCallPerInvoice, NEW c \in Calls, NEW s, Goto(c, s),
           Holding(c) <=> Holding(c)', UNCHANGED <<inv, locked>>
    PROVE  OneCallPerInvoice'
BY DEF OneCallPerInvoice, Holding, Goto, TypeOK, CallTypes

LEMMA LockReleases ==
    ASSUME TypeOK, OneCallPerInvoice, NEW c \in Calls, Holding(c), ~Holding(c)', Unlock(c),
           \A d \in Calls \ {c} : pc'[d] = pc[d] /\ inv'[d] = inv[d]
    PROVE  OneCallPerInvoice'
<1>1. \A d \in Calls \ {c} : Holding(d)' <=> Holding(d)
  BY DEF Holding
<1>2. \A d \in Calls \ {c} : Holding(d) => inv[d] # inv[c]
  BY DEF OneCallPerInvoice
<1>3. locked' = {inv'[d] : d \in {e \in Calls : Holding(e)'}}
  BY <1>1, <1>2 DEF OneCallPerInvoice, Unlock
<1>4. \A d, e \in Calls : Holding(d)' /\ Holding(e)' /\ inv'[d] = inv'[e] => d = e
  BY <1>1 DEF OneCallPerInvoice
<1> QED BY <1>3, <1>4 DEF OneCallPerInvoice, Holding

LEMMA LockUntouched ==
    ASSUME TypeOK, OneCallPerInvoice, NEW c \in Calls, ~Holding(c), ~Holding(c)',
           UNCHANGED locked,
           \A d \in Calls \ {c} : pc'[d] = pc[d] /\ inv'[d] = inv[d]
    PROVE  OneCallPerInvoice'
<1>1. \A d \in Calls : Holding(d)' <=> Holding(d)
  BY DEF Holding
<1>2. \A d \in Calls : Holding(d) => inv'[d] = inv[d]
  OBVIOUS
<1>3. locked' = {inv'[d] : d \in {e \in Calls : Holding(e)'}}
  BY <1>1, <1>2 DEF OneCallPerInvoice
<1>4. \A d, e \in Calls : Holding(d)' /\ Holding(e)' /\ inv'[d] = inv'[e] => d = e
  BY <1>1, <1>2 DEF OneCallPerInvoice
<1> QED BY <1>3, <1>4 DEF OneCallPerInvoice, Holding

LEMMA OthersUntouched ==
    ASSUME TypeOK, NEW c \in Calls
    PROVE  /\ Return(c) => /\ pc'[c] = "idle"
                           /\ \A d \in Calls \ {c} : pc'[d] = pc[d] /\ inv'[d] = inv[d] /\ user'[d] = user[d]
           /\ \A s : Goto(c, s) => /\ pc'[c] = s
                                   /\ \A d \in Calls \ {c} : pc'[d] = pc[d]
BY DEF Return, Goto, TypeOK, CallTypes

LEMMA LockStep ==
    ASSUME TypeOK, OneCallPerInvoice, NEW c \in Calls, CallStep(c)
    PROVE  OneCallPerInvoice'
<1> USE OthersUntouched DEF At, Holding
<1>1. ASSUME NEW u \in Users, NEW i \in Invoices, Begin(c, u, i) PROVE OneCallPerInvoice'
  BY <1>1, LockUntouched DEF Begin, TypeOK, CallTypes
<1>2. CASE TakeLock(c)
  <2>1. CASE inv[c] \in locked
    BY <1>2, <2>1, LockUntouched DEF TakeLock
  <2>2. CASE inv[c] \notin locked
    BY <1>2, <2>2, LockAcquire DEF TakeLock
  <2> QED BY <2>1, <2>2
<1>3. CASE CheckRow(c)
  <2>1. CASE status[inv[c]] = "none"
    BY <1>3, <2>1, LockKept DEF CheckRow
  <2>2. CASE status[inv[c]] # "none"
    BY <1>3, <2>2, LockReleases DEF CheckRow
  <2> QED BY <2>1, <2>2
<1>4. ASSUME NEW r \in Rails, Reserve(c, r) PROVE OneCallPerInvoice'
  BY <1>4, LockKept DEF Reserve
<1>5. CASE ReserveFails(c) \/ LeavePending(c) \/ RefundFails(c) \/ Refund(c)
  BY <1>5, LockReleases DEF ReserveFails, LeavePending, RefundFails, Refund
<1>6. CASE Refused(c) \/ Send(c) \/ Confirm(c) \/ FinalizeFails(c)
  BY <1>6, LockKept DEF Refused, Send, Confirm, FinalizeFails
<1>7. CASE Answered(c) \/ ProviderErrors(c)
  BY <1>7, LockKept DEF Answered, ProviderErrors
<1>8. CASE TrackAnswer(c)
  BY <1>8, LockKept DEF TrackAnswer
<1>9. CASE StreamBreaks(c)
  BY <1>9, LockKept DEF StreamBreaks
<1>10. CASE IndexArrives(c) \/ TrackError(c)
  BY <1>10 DEF IndexArrives, TrackError, OneCallPerInvoice
<1>11. CASE TrackMiss(c)
  <2>1. CASE misses[c] = 2
    BY <1>11, <2>1, LockKept DEF TrackMiss
  <2>2. CASE misses[c] # 2
    BY <1>11, <2>2 DEF TrackMiss, OneCallPerInvoice
  <2> QED BY <2>1, <2>2
<1>12. CASE Finalize(c)
  BY <1>12, LockReleases DEF Finalize
<1>13. CASE CreditSurplus(c) \/ CreditSurplusFails(c)
  BY <1>13, LockUntouched DEF CreditSurplus, CreditSurplusFails
<1> QED
  BY <1>1, <1>2, <1>3, <1>4, <1>5, <1>6, <1>7, <1>8, <1>9, <1>10, <1>11, <1>12, <1>13
  DEF CallStep

LEMMA LockNext ==
    ASSUME TypeOK, OneCallPerInvoice, [Next]_vars PROVE OneCallPerInvoice'
<1> USE DEF OneCallPerInvoice, Holding
<1>1. CASE Crash
  BY <1>1 DEF Crash
<1>2. CASE Recover
  BY <1>2 DEF Recover, NextRow, RecoverSkip, RecoverPaid, RecoverFailed, RefundRow,
     RecoverMiss, RecoverMissing, Serve, callVars
<1>3. CASE ProviderLink \/ UNCHANGED vars
  BY <1>3 DEF ProviderLink, vars, callVars
<1>4. ASSUME NEW i \in Invoices, SaveIndex(i) \/ RemoteStep(i) PROVE OneCallPerInvoice'
  BY <1>4 DEF SaveIndex, RemoteStep, callVars
<1> QED BY <1>1, <1>2, <1>3, <1>4, LockStep DEF Next

(* At most one PayInvoice call works on an invoice between lock and unlock, *)
(* and a call that throws never leaves its lock behind.                     *)
THEOREM LockExcludes == Spec => []OneCallPerInvoice
<1>1. Init => OneCallPerInvoice
  BY DEF Init, OneCallPerInvoice, Holding
<1>2. TypeOK /\ OneCallPerInvoice /\ [Next]_vars => OneCallPerInvoice'
  BY LockNext
<1> QED BY <1>1, <1>2, TypeCorrect, PTL DEF Spec

-----------------------------------------------------------------------------
(* Calls and rows, whatever LND answers.                                   *)

\* Calls other than c stand where they stood.
OthersStay(c) ==
    \A d \in Calls \ {c} : pc'[d] = pc[d] /\ inv'[d] = inv[d] /\ user'[d] = user[d]

LEMMA CallStepOthers ==
    ASSUME TypeOK, NEW c \in Calls, CallStep(c) PROVE OthersStay(c)
<1> USE DEF TypeOK, CallTypes, OthersStay, Goto, Return
<1>1. ASSUME NEW u \in Users, NEW i \in Invoices, Begin(c, u, i) PROVE OthersStay(c)
  BY <1>1 DEF Begin
<1>2. CASE TakeLock(c) \/ CheckRow(c)
  BY <1>2 DEF TakeLock, CheckRow
<1>3. ASSUME NEW r \in Rails, Reserve(c, r) PROVE OthersStay(c)
  BY <1>3 DEF Reserve
<1>4. CASE ReserveFails(c) \/ Refused(c) \/ Send(c) \/ IndexArrives(c) \/ Answered(c) \/ ProviderErrors(c)
  BY <1>4 DEF ReserveFails, Refused, Send, IndexArrives, Answered, ProviderErrors
<1>5. CASE StreamBreaks(c) \/ TrackAnswer(c) \/ TrackMiss(c) \/ TrackError(c)
  BY <1>5 DEF StreamBreaks, TrackAnswer, TrackMiss, TrackError
<1>6. CASE Confirm(c) \/ LeavePending(c) \/ Refund(c) \/ RefundFails(c)
  BY <1>6 DEF Confirm, LeavePending, Refund, RefundFails
<1>7. CASE Finalize(c) \/ FinalizeFails(c) \/ CreditSurplus(c) \/ CreditSurplusFails(c)
  BY <1>7 DEF Finalize, FinalizeFails, CreditSurplus, CreditSurplusFails
<1> QED BY <1>1, <1>2, <1>3, <1>4, <1>5, <1>6, <1>7 DEF CallStep

\* A step of c that changes rows and remote state, if at all, only of the
\* invoice c attends or is about to reserve, disturbs nobody else.
LEMMA OthersStand ==
    ASSUME TypeOK, StandingInv, NEW c \in Calls, OthersStay(c),
           pc[c] \in Attending \/ status[inv[c]] = "none" \/ UNCHANGED <<status, payer, remote>>,
           \A i \in Invoices \ {inv[c]} :
               status'[i] = status[i] /\ payer'[i] = payer[i] /\ remote'[i] = remote[i],
           UNCHANGED <<phase, todo, cur>>,
           phase = "serving",
           \A i \in Invoices : i = inv[c] => RowInv(i)',
           CallInv(c)', OneCallPerInvoice'
    PROVE  StandingInv'
<1>1. ASSUME NEW d \in Calls \ {c} PROVE CallInv(d)'
  <2>1. CASE UNCHANGED <<status, payer, remote>>
    BY <2>1 DEF StandingInv, CallInv, OthersStay
  <2>2. CASE inv[d] = inv[c] /\ ~UNCHANGED <<status, payer, remote>>
    <3>1. pc[d] \notin Attending \union {"surplus"}
      BY <2>2 DEF StandingInv, CallInv, OneCallPerInvoice, Holding, Attending
    <3> QED BY <3>1 DEF CallInv, Attending, OthersStay
  <2>3. CASE inv[d] # inv[c] /\ pc[d] # "idle"
    <3>1. inv[d] \in Invoices \ {inv[c]}
      BY <2>3 DEF TypeOK, CallTypes
    <3> QED BY <3>1 DEF StandingInv, CallInv, OthersStay
  <2>4. CASE pc[d] = "idle"
    BY <2>4 DEF CallInv, Attending, OthersStay
  <2> QED BY <2>1, <2>2, <2>3, <2>4
<1>2. ASSUME NEW i \in Invoices PROVE RowInv(i)'
  BY DEF StandingInv, RowInv
<1>3. RecoveryInv'
  BY DEF StandingInv, RecoveryInv, BootTypes
<1> QED BY <1>1, <1>2, <1>3 DEF StandingInv

LEMMA CallStepStands ==
    ASSUME TypeOK, StandingInv, NEW c \in Calls, CallStep(c)
    PROVE  StandingInv'
<1>o. OthersStay(c)
  BY CallStepOthers
<1>l. OneCallPerInvoice'
  BY LockStep DEF StandingInv
<1>inv. pc[c] # "idle" => inv[c] \in Invoices /\ phase = "serving"
  BY DEF TypeOK, CallTypes, BootTypes, StandingInv, CallInv
<1>c. CallInv(c) /\ (inv[c] \in Invoices => RowInv(inv[c]))
  BY DEF StandingInv
<1>ret. Return(c) => CallInv(c)'
  BY DEF Return, CallInv, Attending, TypeOK, CallTypes
<1>row. UNCHANGED <<status, remote>> => \A i \in Invoices : i = inv[c] => RowInv(i)'
  BY <1>c DEF RowInv
<1>go. \A s : Goto(c, s) => pc'[c] = s
  BY OthersUntouched
<1> USE DEF At, Attending, rowVars, remoteVars, bootVars, indexVars
<1>1. ASSUME NEW u \in Users, NEW i \in Invoices, Begin(c, u, i) PROVE StandingInv'
  <2>1. CallInv(c)'
    BY <1>1, <1>go DEF Begin, CallInv
  <2> QED BY <1>1, <2>1, <1>o, <1>l, <1>row, OthersStand DEF Begin
<1>2. CASE TakeLock(c)
  <2>1. CallInv(c)'
    BY <1>2, <1>ret, <1>go, <1>inv DEF TakeLock, CallInv
  <2> QED BY <1>2, <2>1, <1>o, <1>l, <1>row, <1>inv, OthersStand DEF TakeLock
<1>3. CASE CheckRow(c)
  <2>1. CallInv(c)'
    BY <1>3, <1>ret, <1>go, <1>inv DEF CheckRow, CallInv
  <2> QED BY <1>3, <2>1, <1>o, <1>l, <1>row, <1>inv, OthersStand DEF CheckRow
<1>4. ASSUME NEW r \in Rails, Reserve(c, r) PROVE StandingInv'
  <2>1. status[inv[c]] = "none" /\ remote[inv[c]] = "idle" /\ inv[c] \in Invoices
    BY <1>4, <1>inv, <1>c DEF Reserve, CanReserve, RowInv
  <2>2. /\ status'[inv[c]] = "pending" /\ payer'[inv[c]] = user'[c]
        /\ \A i \in Invoices \ {inv[c]} : status'[i] = status[i] /\ payer'[i] = payer[i]
    BY <1>4, <2>1 DEF Reserve, TypeOK, RowTypes
  <2>3. CallInv(c)'
    BY <1>4, <2>1, <2>2, <1>go, <1>inv DEF Reserve, CallInv
  <2>4. \A i \in Invoices : i = inv[c] => RowInv(i)'
    BY <1>4, <2>1, <2>2 DEF Reserve, RowInv
  <2> QED BY <1>4, <2>1, <2>2, <2>3, <2>4, <1>o, <1>l, <1>inv, OthersStand DEF Reserve
<1>5. CASE ReserveFails(c) \/ LeavePending(c) \/ RefundFails(c)
  BY <1>5, <1>ret, <1>o, <1>l, <1>row, <1>inv, OthersStand DEF ReserveFails, LeavePending, RefundFails
<1>6. CASE Refused(c) \/ FinalizeFails(c) \/ Answered(c) \/ ProviderErrors(c) \/ TrackAnswer(c)
  <2>1. CallInv(c)'
    BY <1>6, <1>c, <1>go, <1>inv DEF Refused, FinalizeFails, Answered, ProviderErrors, TrackAnswer, Seen, CallInv
  <2> QED
    BY <1>6, <2>1, <1>o, <1>l, <1>row, <1>inv, OthersStand
    DEF Refused, FinalizeFails, Answered, ProviderErrors, TrackAnswer
<1>7. CASE Send(c)
  <2>1. /\ remote'[inv[c]] = "sent" /\ status[inv[c]] = "pending" /\ inv[c] \in Invoices
        /\ \A i \in Invoices \ {inv[c]} : remote'[i] = remote[i]
    BY <1>7, <1>c, <1>inv DEF Send, CallInv, TypeOK, RemoteTypes
  <2>2. CallInv(c)'
    BY <1>7, <2>1, <1>c, <1>go, <1>inv DEF Send, CallInv
  <2>3. \A i \in Invoices : i = inv[c] => RowInv(i)'
    BY <1>7, <2>1 DEF Send, RowInv
  <2> QED BY <1>7, <2>1, <2>2, <2>3, <1>o, <1>l, <1>inv, OthersStand DEF Send
<1>8. CASE IndexArrives(c) \/ TrackError(c)
  <2>1. CallInv(c)'
    BY <1>8, <1>c, <1>inv DEF IndexArrives, TrackError, CallInv
  <2> QED BY <1>8, <2>1, <1>o, <1>l, <1>row, <1>inv, OthersStand DEF IndexArrives, TrackError
<1>9. CASE StreamBreaks(c)
  <2>1. /\ status[inv[c]] = "pending" /\ inv[c] \in Invoices
        /\ \A i \in Invoices \ {inv[c]} : remote'[i] = remote[i]
    BY <1>9, <1>c, <1>inv DEF StreamBreaks, Closed, CallInv, TypeOK, RemoteTypes
  <2>2. CallInv(c)'
    BY <1>9, <2>1, <1>c, <1>go, <1>inv DEF StreamBreaks, CallInv
  <2>3. \A i \in Invoices : i = inv[c] => RowInv(i)'
    BY <1>9, <2>1 DEF StreamBreaks, RowInv
  <2> QED BY <1>9, <2>1, <2>2, <2>3, <1>o, <1>l, <1>inv, OthersStand DEF StreamBreaks
<1>10. CASE TrackMiss(c) \/ Confirm(c)
  <2>1. CallInv(c)'
    BY <1>10, <1>c, <1>go, <1>inv DEF TrackMiss, Confirm, CallInv
  <2> QED BY <1>10, <2>1, <1>o, <1>l, <1>row, <1>inv, OthersStand DEF TrackMiss, Confirm
<1>11. CASE Refund(c)
  <2>1. /\ status'[inv[c]] = "failed" /\ inv[c] \in Invoices
        /\ \A i \in Invoices \ {inv[c]} : status'[i] = status[i]
    BY <1>11, <1>c, <1>inv DEF Refund, CallInv, TypeOK, RowTypes
  <2>2. \A i \in Invoices : i = inv[c] => RowInv(i)'
    BY <1>11, <2>1, <1>c DEF Refund, RowInv
  <2> QED BY <1>11, <2>1, <2>2, <1>ret, <1>o, <1>l, <1>inv, OthersStand DEF Refund
<1>12. CASE Finalize(c)
  <2>1. /\ status'[inv[c]] = "paid" /\ inv[c] \in Invoices
        /\ remote[inv[c]] = "succeeded"
        /\ \A i \in Invoices \ {inv[c]} : status'[i] = status[i]
    BY <1>12, <1>c, <1>inv DEF Finalize, CallInv, TypeOK, RowTypes
  <2>2. \A i \in Invoices : i = inv[c] => RowInv(i)'
    BY <1>12, <2>1 DEF Finalize, RowInv
  <2>3. CallInv(c)'
    BY <1>12, <2>1, <1>c, <1>go, <1>inv DEF Finalize, CallInv
  <2> QED BY <1>12, <2>1, <2>2, <2>3, <1>o, <1>l, <1>inv, OthersStand DEF Finalize
<1>13. CASE CreditSurplus(c) \/ CreditSurplusFails(c)
  BY <1>13, <1>ret, <1>o, <1>l, <1>row, <1>inv, OthersStand DEF CreditSurplus, CreditSurplusFails
<1> QED
  BY <1>1, <1>2, <1>3, <1>4, <1>5, <1>6, <1>7, <1>8, <1>9, <1>10, <1>11, <1>12, <1>13
  DEF CallStep

LEMMA RecoverStands ==
    ASSUME TypeOK, StandingInv, OneCallPerInvoice', Recover PROVE StandingInv'
<1>calls. phase = "recovering" => \A c \in Calls : pc[c] = "idle"
  BY DEF StandingInv, CallInv
<1>1. CASE (\E i \in Invoices : NextRow(i)) \/ RecoverSkip \/ RecoverMiss \/ Serve
  <2>1. UNCHANGED <<status, payer, remote, pc, inv, user>>
    BY <1>1 DEF NextRow, RecoverSkip, RecoverMiss, Serve, rowVars, remoteVars, callVars
  <2>2. ASSUME NEW c \in Calls PROVE CallInv(c)'
    <3>1. phase' = "recovering" => phase = "recovering" \/ cur # NoInvoice
      BY <1>1 DEF NextRow, RecoverSkip, RowDone, RecoverMiss, Serve
    <3> QED BY <2>1, <3>1 DEF StandingInv, CallInv, RecoveryInv
  <2>3. RecoveryInv'
    <3>1. CASE \E i \in Invoices : NextRow(i)
      <4>1. PICK i \in Invoices : NextRow(i)
        BY <3>1
      <4>2. /\ cur' = i /\ todo' = todo \ {i} /\ i \in todo /\ phase' = phase
            /\ phase = "recovering" /\ status' = status
        BY <4>1, <2>1 DEF NextRow
      <4>3. \A j \in todo : status[j] = "pending"
        BY DEF StandingInv, RecoveryInv
      <4> QED BY <4>2, <4>3 DEF RecoveryInv
    <3>2. CASE RecoverSkip
      <4>1. cur' = NoInvoice /\ UNCHANGED <<phase, todo, status>> /\ NoInvoice \notin todo
        BY <3>2, <2>1, EnvironmentAssumption DEF RecoverSkip, RowDone, TypeOK, BootTypes
      <4> QED BY <4>1 DEF StandingInv, RecoveryInv
    <3>3. CASE RecoverMiss
      BY <3>3, <2>1 DEF RecoverMiss, StandingInv, RecoveryInv
    <3>4. CASE Serve
      BY <3>4, <2>1 DEF Serve, StandingInv, RecoveryInv
    <3> QED BY <1>1, <3>1, <3>2, <3>3, <3>4
  <2>4. \A i \in Invoices : RowInv(i)'
    BY <2>1 DEF StandingInv, RowInv
  <2> QED BY <2>2, <2>3, <2>4 DEF StandingInv
<1>2. CASE RecoverPaid \/ RecoverFailed \/ RecoverMissing
  <2>1. cur \in Invoices /\ status[cur] = "pending" /\ phase = "recovering"
    BY <1>2 DEF RecoverPaid, RecoverFailed, RecoverMissing, Missing, CanLookup,
       StandingInv, RecoveryInv, TypeOK, BootTypes
  <2>2. /\ UNCHANGED <<payer, remote, pc, inv, user, phase, todo>>
        /\ cur' = NoInvoice
        /\ \A i \in Invoices \ {cur} : status'[i] = status[i]
    BY <1>2 DEF RecoverPaid, RecoverFailed, RecoverMissing, RefundRow, RowDone,
       remoteVars, callVars, TypeOK, RowTypes
  <2>3. \/ status'[cur] = "paid" /\ remote[cur] = "succeeded"
        \/ status'[cur] = "failed"
    BY <1>2, <2>1
    DEF RecoverPaid, RecoverFailed, RecoverMissing, RefundRow, Seen, TypeOK, RowTypes
  <2>4. \A i \in Invoices : RowInv(i)'
    BY <2>2, <2>3 DEF StandingInv, RowInv
  <2>5. \A c \in Calls : CallInv(c)'
    BY <2>1, <2>2, <1>calls DEF CallInv, Attending
  <2>6. RecoveryInv'
    BY <2>1, <2>2, EnvironmentAssumption DEF StandingInv, RecoveryInv, TypeOK, BootTypes
  <2> QED BY <2>4, <2>5, <2>6 DEF StandingInv
<1> QED BY <1>1, <1>2 DEF Recover

LEMMA CrashStands ==
    ASSUME TypeOK, StandingInv, OneCallPerInvoice', Crash PROVE StandingInv'
<1>1. \A i \in Invoices : remote'[i] = remote[i] \/ (remote[i] = "sent" /\ remote'[i] \in {"inflight", "idle"})
  BY DEF Crash, Closed, InTransit, TypeOK, RemoteTypes
<1>2. \A i \in Invoices : RowInv(i)'
  BY <1>1 DEF Crash, StandingInv, RowInv, rowVars
<1>3. \A c \in Calls : CallInv(c)'
  BY DEF Crash, CallInv, Attending
<1>4. RecoveryInv'
  BY EnvironmentAssumption DEF Crash, RecoveryInv, PendingRows, rowVars
<1> QED BY <1>2, <1>3, <1>4 DEF StandingInv

LEMMA RemoteStands ==
    ASSUME TypeOK, StandingInv, OneCallPerInvoice', NEW i \in Invoices, RemoteStep(i)
    PROVE  StandingInv'
<1>1. UNCHANGED <<status, payer, phase, todo, cur, pc, inv, user>>
  BY DEF RemoteStep, rowVars, bootVars, callVars
<1>2. CASE Forget(i)
  BY <1>1, <1>2 DEF Forget, StandingInv, CallInv, RowInv, RecoveryInv
<1>3. CASE ~Forget(i)
  <2>1. /\ \A j \in Invoices \ {i} : remote'[j] = remote[j]
        /\ remote[i] \in {"sent", "inflight"}
    BY <1>3 DEF RemoteStep, Register, Drop, Succeed, Fail, TypeOK, RemoteTypes
  <2>2. \A j \in Invoices : RowInv(j)'
    BY <1>1, <2>1 DEF StandingInv, RowInv
  <2>3. ASSUME NEW c \in Calls PROVE CallInv(c)'
    <3>1. CASE inv[c] = i
      BY <1>1, <2>1, <3>1 DEF StandingInv, CallInv
    <3>2. CASE inv[c] # i /\ pc[c] # "idle"
      <4>1. remote'[inv[c]] = remote[inv[c]]
        BY <2>1, <3>2 DEF TypeOK, CallTypes
      <4> QED BY <1>1, <4>1 DEF StandingInv, CallInv
    <3>3. CASE pc[c] = "idle"
      BY <1>1, <3>3 DEF CallInv, Attending
    <3> QED BY <3>1, <3>2, <3>3
  <2>4. RecoveryInv'
    BY <1>1 DEF StandingInv, RecoveryInv
  <2> QED BY <2>2, <2>3, <2>4 DEF StandingInv
<1> QED BY <1>2, <1>3

LEMMA NextStands ==
    ASSUME TypeOK, StandingInv, [Next]_vars PROVE StandingInv'
<1>l. OneCallPerInvoice'
  BY LockNext DEF StandingInv
<1>1. CASE ProviderLink \/ UNCHANGED vars \/ \E i \in Invoices : SaveIndex(i)
  <2>1. UNCHANGED <<status, payer, remote, phase, todo, cur, pc, inv, user>>
    BY <1>1 DEF ProviderLink, SaveIndex, vars, rowVars, remoteVars, bootVars, callVars
  <2> QED BY <2>1, <1>l DEF StandingInv, CallInv, RowInv, RecoveryInv
<1> QED BY <1>1, <1>l, CallStepStands, RecoverStands, CrashStands, RemoteStands DEF Next

LEMMA InitStands == Init => StandingInv
BY DEF Init, StandingInv, OneCallPerInvoice, Holding, CallInv, Attending, RowInv, RecoveryInv

(* Whatever LND answers, loses or registers late: a call attends a pending *)
(* row of its own user, recovery runs alone on pending rows, and only a    *)
(* delivered payment is marked paid.                                       *)
THEOREM CallsOwnTheirRows == Spec => [](StandingInv /\ PaidOnlyIfDelivered)
<1>1. Init => StandingInv
  BY InitStands
<1>2. TypeOK /\ StandingInv /\ [Next]_vars => StandingInv'
  BY NextStands
<1>3. StandingInv => PaidOnlyIfDelivered
  BY DEF StandingInv, RowInv, PaidOnlyIfDelivered
<1> QED BY <1>1, <1>2, <1>3, TypeCorrect, PTL DEF Spec

-----------------------------------------------------------------------------
(* What a step of a call leaves alone.                                     *)

LEMMA CallStepFrame ==
    ASSUME TypeOK, NEW c \in Calls, CallStep(c)
    PROVE  /\ UNCHANGED <<forgotten, netFee, fraction, phase, todo, cur, indexSaved>>
           /\ remote' = remote \/ Send(c) \/ StreamBreaks(c)
           /\ status' = status \/ (\E r \in Rails : Reserve(c, r)) \/ Refund(c) \/ Finalize(c)
           /\ routingFees' = routingFees \/ Finalize(c)
           /\ indexWrites' = indexWrites \/ IndexArrives(c)
           /\ \A d \in Calls \ {c} : gotIndex'[d] = gotIndex[d]
<1> USE DEF TypeOK, CallTypes, Return, rowVars, indexVars, remoteVars, bootVars
<1>1. ASSUME NEW u \in Users, NEW i \in Invoices, Begin(c, u, i)
      PROVE  UNCHANGED <<remote, status, routingFees, indexWrites, gotIndex, forgotten, netFee, fraction,
                         phase, todo, cur, indexSaved>>
  BY <1>1 DEF Begin
<1>2. CASE TakeLock(c) \/ CheckRow(c)
  BY <1>2 DEF TakeLock, CheckRow
<1>3. ASSUME NEW r \in Rails, Reserve(c, r)
      PROVE  UNCHANGED <<remote, routingFees, indexWrites, gotIndex, forgotten, netFee, fraction,
                         phase, todo, cur, indexSaved>>
  BY <1>3 DEF Reserve
<1>4. CASE ReserveFails(c) \/ Refused(c) \/ Send(c) \/ IndexArrives(c)
  BY <1>4 DEF ReserveFails, Refused, Send, IndexArrives
<1>5. CASE Answered(c) \/ ProviderErrors(c) \/ StreamBreaks(c)
  BY <1>5 DEF Answered, ProviderErrors, StreamBreaks
<1>6. CASE TrackAnswer(c) \/ TrackMiss(c) \/ TrackError(c) \/ Confirm(c) \/ LeavePending(c)
  BY <1>6 DEF TrackAnswer, TrackMiss, TrackError, Confirm, LeavePending
<1>7. CASE Refund(c) \/ RefundFails(c) \/ Finalize(c) \/ FinalizeFails(c)
  BY <1>7 DEF Refund, RefundFails, Finalize, FinalizeFails
<1>8. CASE CreditSurplus(c) \/ CreditSurplusFails(c)
  BY <1>8 DEF CreditSurplus, CreditSurplusFails
<1> QED BY <1>1, <1>2, <1>3, <1>4, <1>5, <1>6, <1>7, <1>8 DEF CallStep

\* Send and StreamBreaks touch the remote state of the call's own invoice only.
LEMMA CallStepRemote ==
    ASSUME TypeOK, StandingInv, NEW c \in Calls, Send(c) \/ StreamBreaks(c)
    PROVE  /\ inv[c] \in Invoices /\ pc[c] \in {"ready", "waiting"}
           /\ status[inv[c]] = "pending" /\ status' = status
           /\ remote'[inv[c]] \in {remote[inv[c]], "sent", "inflight", "idle"}
           /\ remote[inv[c]] \in {"idle", "sent"} \/ remote'[inv[c]] = remote[inv[c]]
           /\ \A i \in Invoices \ {inv[c]} : remote'[i] = remote[i]
BY DEF Send, StreamBreaks, Closed, InTransit, At, rowVars, StandingInv, CallInv, Attending,
       TypeOK, CallTypes, RemoteTypes

\* No other call attends the invoice that a call attends.
LEMMA AttendsAlone ==
    ASSUME StandingInv, NEW c \in Calls, NEW d \in Calls,
           pc[c] \in Attending, pc[d] \in Attending, inv[d] = inv[c]
    PROVE  d = c
BY DEF StandingInv, OneCallPerInvoice, Holding, Attending

-----------------------------------------------------------------------------
(* Refunds, with reliable lookups.                                         *)

LEMMA LookupOwn ==
    ASSUME TypeOK, PaymentInv, ReliableLookups, NEW c \in Calls, CallStep(c)
    PROVE  LookupInv(c)'
<1>o. (Return(c) => pc'[c] = "idle") /\ \A s : Goto(c, s) => pc'[c] = s
  BY OthersUntouched
<1>c. LookupInv(c) /\ CallInv(c) /\ forgotten = {}
  BY DEF PaymentInv, StandingInv
<1>i. pc[c] # "idle" => inv[c] \in Invoices
  BY DEF TypeOK, CallTypes
<1> USE <1>o DEF At, LookupInv
<1>1. ASSUME NEW u \in Users, NEW i \in Invoices, Begin(c, u, i) PROVE LookupInv(c)'
  BY <1>1 DEF Begin
<1>2. CASE TakeLock(c) \/ CheckRow(c) \/ ReserveFails(c) \/ Send(c)
  BY <1>2 DEF TakeLock, CheckRow, ReserveFails, Send
<1>3. ASSUME NEW r \in Rails, Reserve(c, r) PROVE LookupInv(c)'
  BY <1>3 DEF Reserve
<1>4. CASE Refused(c) \/ Answered(c) \/ ProviderErrors(c) \/ TrackAnswer(c) \/ FinalizeFails(c)
  BY <1>4, <1>c
  DEF Refused, Answered, ProviderErrors, TrackAnswer, FinalizeFails, Seen, CallInv, remoteVars
<1>5. CASE StreamBreaks(c)
  <2>1. pc'[c] = "confirm" => LateWindow = 0 /\ rail[inv[c]] = "lnd"
    BY <1>5 DEF StreamBreaks, ReliableLookups
  <2>2. inv'[c] = inv[c] /\ pc'[c] # "refund" /\ Closed({inv[c]})
    BY <1>5 DEF StreamBreaks
  <2>3. pc'[c] = "confirm" => remote'[inv[c]] # "sent"
    BY <2>1, <2>2, <1>5, <1>i DEF Closed, InTransit, StreamBreaks
  <2> QED BY <2>2, <2>3
<1>6. CASE TrackMiss(c)
  <2>1. misses[c] = 2 => remote[inv[c]] # "sent"
    BY <1>6, <1>c, EnvironmentAssumption DEF TrackMiss, NotFoundAfter
  <2> QED BY <1>6, <2>1 DEF TrackMiss, remoteVars
<1>7. CASE Confirm(c)
  BY <1>7, <1>c DEF Confirm, ConfirmedFailed, Seen, NotFoundAfter, remoteVars
<1>8. CASE IndexArrives(c) \/ TrackError(c)
  BY <1>8, <1>c DEF IndexArrives, TrackError, remoteVars
<1>9. CASE LeavePending(c) \/ Refund(c) \/ RefundFails(c) \/ Finalize(c)
  BY <1>9 DEF LeavePending, Refund, RefundFails, Finalize
<1>10. CASE CreditSurplus(c) \/ CreditSurplusFails(c)
  BY <1>10 DEF CreditSurplus, CreditSurplusFails
<1> QED
  BY <1>1, <1>2, <1>3, <1>4, <1>5, <1>6, <1>7, <1>8, <1>9, <1>10 DEF CallStep

LEMMA CallStepSafe ==
    ASSUME TypeOK, PaymentInv, StandingInv', ReliableLookups, NEW c \in Calls, CallStep(c)
    PROVE  PaymentInv'
<1>o. OthersStay(c)
  BY CallStepOthers
<1>1. ASSUME NEW d \in Calls PROVE LookupInv(d)'
  <2>1. CASE d = c
    BY <2>1, LookupOwn
  <2>2. CASE d # c /\ pc[d] \notin {"confirm", "refund"}
    BY <2>2, <1>o DEF OthersStay, LookupInv
  <2>3. CASE d # c /\ pc[d] \in {"confirm", "refund"}
    <3>1. inv[d] \in Invoices /\ LookupInv(d)
      BY <2>3 DEF TypeOK, CallTypes, PaymentInv
    <3>2. remote'[inv[d]] = remote[inv[d]]
      <4>1. CASE Send(c) \/ StreamBreaks(c)
        <5>1. inv[d] # inv[c]
          BY <2>3, <4>1, CallStepRemote, AttendsAlone DEF Attending, PaymentInv
        <5> QED BY <3>1, <4>1, <5>1, CallStepRemote DEF PaymentInv
      <4> QED BY <4>1, CallStepFrame
    <3> QED BY <2>3, <3>1, <3>2, <1>o DEF OthersStay, LookupInv
  <2> QED BY <2>1, <2>2, <2>3
<1>2. NoRefundOfDelivered'
  <2>1. CASE remote' # remote
    <3>1. Send(c) \/ StreamBreaks(c)
      BY <2>1, CallStepFrame
    <3> QED BY <3>1, CallStepRemote DEF PaymentInv, NoRefundOfDelivered
  <2>2. CASE remote' = remote
    <3>1. ASSUME NEW i \in Invoices, status[i] # "failed", status'[i] = "failed"
          PROVE  remote[i] \in {"idle", "failed"}
      <4>1. Refund(c)
        BY <3>1, CallStepFrame DEF Reserve, Finalize, TypeOK, RowTypes
      <4>2. i = inv[c]
        BY <3>1, <4>1 DEF Refund, TypeOK, RowTypes
      <4> QED BY <4>1, <4>2 DEF Refund, At, PaymentInv, LookupInv
    <3> QED BY <2>2, <3>1 DEF PaymentInv, NoRefundOfDelivered
  <2> QED BY <2>1, <2>2
<1>3. forgotten' = {}
  BY CallStepFrame DEF PaymentInv
<1> QED BY <1>1, <1>2, <1>3 DEF PaymentInv

LEMMA RecoverSafe ==
    ASSUME TypeOK, PaymentInv, StandingInv', Recover PROVE PaymentInv'
<1>1. UNCHANGED <<remote, forgotten, pc, inv>>
  BY DEF Recover, NextRow, RecoverSkip, RecoverPaid, RecoverFailed, RecoverMiss, RecoverMissing,
     RefundRow, Serve, remoteVars, callVars
<1>2. ASSUME NEW i \in Invoices, status[i] # "failed", status'[i] = "failed"
      PROVE  remote[i] \in {"idle", "failed"}
  <2>1. RecoverFailed \/ RecoverMissing
    BY <1>2 DEF Recover, NextRow, RecoverSkip, RecoverPaid, RecoverMiss, Serve, rowVars,
       TypeOK, RowTypes
  <2>2. i = cur
    BY <1>2, <2>1 DEF RecoverFailed, RecoverMissing, RefundRow, TypeOK, RowTypes
  <2> QED BY <2>1, <2>2, EnvironmentAssumption
      DEF RecoverFailed, RecoverMissing, Missing, Seen, NotFoundAfter, PaymentInv
<1> QED BY <1>1, <1>2 DEF PaymentInv, LookupInv, NoRefundOfDelivered

LEMMA CrashSafe ==
    ASSUME TypeOK, PaymentInv, StandingInv', Crash PROVE PaymentInv'
<1>1. \A i \in Invoices : remote'[i] = remote[i] \/ (remote[i] = "sent" /\ remote'[i] \in {"inflight", "idle"})
  BY DEF Crash, Closed, InTransit, TypeOK, RemoteTypes
<1>2. NoRefundOfDelivered'
  BY <1>1 DEF Crash, PaymentInv, NoRefundOfDelivered, rowVars
<1> QED BY <1>2 DEF PaymentInv, LookupInv, Crash

LEMMA RemoteSafe ==
    ASSUME TypeOK, PaymentInv, ReliableLookups, StandingInv', NEW i \in Invoices, RemoteStep(i)
    PROVE  PaymentInv'
<1>1. UNCHANGED <<status, pc, inv>>
  BY DEF RemoteStep, rowVars, callVars
<1>2. /\ forgotten' = {}
      /\ \A j \in Invoices \ {i} : remote'[j] = remote[j]
      /\ remote[i] \in {"sent", "inflight"}
      /\ remote[i] = "sent" => remote'[i] \in {"idle", "inflight"}
      /\ remote'[i] # "sent"
  BY DEF RemoteStep, Register, Drop, Succeed, Fail, Forget, ReliableLookups, PaymentInv, TypeOK,
     RemoteTypes
<1>3. NoRefundOfDelivered'
  BY <1>1, <1>2 DEF PaymentInv, NoRefundOfDelivered
<1>4. ASSUME NEW c \in Calls PROVE LookupInv(c)'
  <2>1. CASE pc[c] = "idle"
    BY <1>1, <2>1 DEF LookupInv
  <2>2. CASE pc[c] # "idle"
    <3>1. inv[c] \in Invoices
      BY <2>2 DEF TypeOK, CallTypes
    <3> QED BY <1>1, <1>2, <3>1 DEF PaymentInv, LookupInv
  <2> QED BY <2>1, <2>2
<1> QED BY <1>2, <1>3, <1>4 DEF PaymentInv

LEMMA NextSafe ==
    ASSUME TypeOK, PaymentInv, ReliableLookups, [Next]_vars PROVE PaymentInv'
<1>s. StandingInv'
  BY NextStands DEF PaymentInv
<1>1. CASE ProviderLink \/ UNCHANGED vars \/ \E i \in Invoices : SaveIndex(i)
  <2>1. UNCHANGED <<status, remote, forgotten, pc, inv>>
    BY <1>1 DEF ProviderLink, SaveIndex, vars, rowVars, remoteVars, callVars
  <2> QED BY <2>1, <1>s DEF PaymentInv, LookupInv, NoRefundOfDelivered
<1> QED BY <1>1, <1>s, CallStepSafe, RecoverSafe, CrashSafe, RemoteSafe DEF Next

LEMMA InitSafe == Init => PaymentInv
BY InitStands DEF Init, PaymentInv, LookupInv, NoRefundOfDelivered

(* The inductive invariant: besides what holds of calls and rows anyway,   *)
(* a call about to confirm a failure has no request in transit and a call  *)
(* about to refund attends a payment that is not and will not be delivered.*)
THEOREM InvariantHolds == ReliableLookups => (Spec => []PaymentInv)
<1>1. Init => PaymentInv
  BY InitSafe
<1>2. ASSUME ReliableLookups
      PROVE  TypeOK /\ PaymentInv /\ [Next]_vars => PaymentInv'
  BY <1>2, NextSafe
<1>3. ASSUME ReliableLookups PROVE Spec => []PaymentInv
  BY <1>1, <1>2, <1>3, TypeCorrect, PTL DEF Spec
<1> QED BY <1>3

(* A refunded payment was not delivered and never will be: the decision    *)
(* tables of PayExternalInvoice's catch and of checkPendingLndPayment      *)
(* never give money back for a delivered invoice.                          *)
THEOREM RefundsAreSafe == ReliableLookups => (Spec => []NoRefundOfDelivered)
<1>1. PaymentInv => NoRefundOfDelivered
  BY DEF PaymentInv
<1> QED BY <1>1, InvariantHolds, PTL

-----------------------------------------------------------------------------
(* Refunds, with lookups of any kind: the payment index.                   *)

\* What a step of c does to its own flag and to its entry of the refund.
LEMMA IndexOwn ==
    ASSUME TypeOK, StandingInv, IndexInv, NEW c \in Calls, CallStep(c),
           indexWrites' = indexWrites,
           pc'[c] \in Attending, IndexKnown(inv[c])'
    PROVE  gotIndex'[c] /\ (pc'[c] = "refund" => remote'[inv'[c]] = "failed")
<1>o. (Return(c) => pc'[c] = "idle") /\ \A s : Goto(c, s) => pc'[c] = s
  BY OthersUntouched
<1>c. pc[c] \in Attending /\ IndexKnown(inv[c]) =>
          gotIndex[c] /\ (pc[c] = "refund" => remote[inv[c]] = "failed")
  BY DEF IndexInv
<1>i. pc[c] # "idle" => inv[c] \in Invoices
  BY DEF TypeOK, CallTypes
<1>w. IndexKnown(inv[c])' <=> IndexKnown(inv'[c])
  BY CallStepFrame DEF IndexKnown
<1> USE <1>o DEF At, Attending, remoteVars
<1>1. CASE (\E u \in Users, i \in Invoices : Begin(c, u, i)) \/ TakeLock(c) \/ CheckRow(c)
  BY <1>1 DEF Begin, TakeLock, CheckRow
<1>2. ASSUME NEW r \in Rails, Reserve(c, r) PROVE FALSE
  <2>1. status[inv[c]] = "none" /\ inv'[c] = inv[c] /\ inv[c] \in Invoices
    BY <1>2, <1>i DEF Reserve, CanReserve
  <2> QED BY <2>1, <1>w DEF IndexInv
<1>3. CASE Refused(c) \/ Send(c) \/ Answered(c) \/ ProviderErrors(c) \/ StreamBreaks(c)
  BY <1>3, <1>c, <1>w DEF Refused, Send, Answered, ProviderErrors, StreamBreaks
<1>4. CASE TrackAnswer(c) \/ TrackMiss(c) \/ TrackError(c) \/ FinalizeFails(c)
  BY <1>4, <1>c, <1>w DEF TrackAnswer, TrackMiss, TrackError, FinalizeFails
<1>5. CASE Confirm(c)
  BY <1>5, <1>c, <1>w DEF Confirm, ConfirmedFailed, Seen
<1>6. CASE IndexArrives(c)
  BY <1>6, <1>c, <1>w DEF IndexArrives
<1>7. CASE ReserveFails(c) \/ LeavePending(c) \/ Refund(c) \/ RefundFails(c) \/ Finalize(c)
           \/ CreditSurplus(c) \/ CreditSurplusFails(c)
  BY <1>7 DEF ReserveFails, LeavePending, Refund, RefundFails, Finalize, CreditSurplus,
     CreditSurplusFails
<1> QED BY <1>1, <1>2, <1>3, <1>4, <1>5, <1>6, <1>7 DEF CallStep

LEMMA IndexCallStep ==
    ASSUME TypeOK, StandingInv, StandingInv', IndexInv, NEW c \in Calls, CallStep(c)
    PROVE  IndexInv'
<1>o. OthersStay(c)
  BY CallStepOthers
<1>s. phase' = "serving"
  <2>1. phase = "serving"
    <3>1. CASE pc[c] = "idle"
      BY <3>1 DEF CallStep, Begin, TakeLock, CheckRow, Reserve, ReserveFails, Refused, Send,
         IndexArrives, Answered, ProviderErrors, StreamBreaks, TrackAnswer, TrackMiss, TrackError,
         Confirm, LeavePending, Refund, RefundFails, Finalize, FinalizeFails, CreditSurplus,
         CreditSurplusFails, At, TypeOK, CallTypes
    <3>2. CASE pc[c] # "idle"
      BY <3>2 DEF StandingInv, CallInv, TypeOK, BootTypes
    <3> QED BY <3>1, <3>2
  <2> QED BY <2>1, CallStepFrame
<1>1. CASE IndexArrives(c)
  <2>1. /\ pc[c] = "waiting" /\ inv[c] \in Invoices /\ status[inv[c]] = "pending"
        /\ UNCHANGED <<pc, inv, status, remote, indexSaved>>
        /\ indexWrites' = indexWrites \union {inv[c]}
        /\ gotIndex' = [gotIndex EXCEPT ![c] = TRUE]
    BY <1>1 DEF IndexArrives, At, StandingInv, CallInv, Attending, TypeOK, CallTypes, rowVars, remoteVars
  <2>2. \A d \in Calls : pc[d] \in Attending /\ inv[d] = inv[c] => d = c
    BY <2>1, AttendsAlone DEF Attending
  <2>3. \A i \in Invoices : IndexKnown(i)' => IndexKnown(i) \/ i = inv[c]
    BY <2>1 DEF IndexKnown
  <2>4. \A d \in Calls : pc[d] \in Attending /\ IndexKnown(inv[d])' /\ d # c => IndexKnown(inv[d])
    BY <2>1, <2>2 DEF IndexKnown
  <2>5. gotIndex'[c] /\ \A d \in Calls \ {c} : gotIndex'[d] = gotIndex[d]
    BY <2>1 DEF TypeOK, CallTypes
  <2>6. \A i \in Invoices : IndexKnown(i)' =>
            status'[i] # "none" /\ (status'[i] = "failed" => remote'[i] = "failed")
    BY <2>1, <2>3 DEF IndexInv
  <2>7. ASSUME NEW d \in Calls, pc'[d] \in Attending, IndexKnown(inv[d])'
        PROVE  gotIndex'[d] /\ (pc'[d] = "refund" => remote'[inv'[d]] = "failed")
    <3>1. CASE d = c
      BY <2>1, <2>5, <3>1
    <3>2. CASE d # c
      <4>1. pc[d] \in Attending /\ IndexKnown(inv[d])
        BY <2>1, <2>4, <2>7, <3>2 DEF IndexKnown
      <4> QED BY <2>1, <2>5, <3>2, <4>1 DEF IndexInv
    <3> QED BY <3>1, <3>2
  <2> QED BY <1>s, <2>6, <2>7 DEF IndexInv
<1>2. CASE indexWrites' = indexWrites
  <2>k. \A i : IndexKnown(i)' <=> IndexKnown(i)
    BY <1>2, CallStepFrame DEF IndexKnown
  <2>1. ASSUME NEW i \in Invoices, IndexKnown(i)'
        PROVE  status'[i] # "none" /\ (status'[i] = "failed" => remote'[i] = "failed")
    <3>1. IndexKnown(i) /\ status[i] # "none" /\ (status[i] = "failed" => remote[i] = "failed")
      BY <2>1, <2>k DEF IndexInv
    <3>2. CASE remote' # remote
      <4>1. Send(c) \/ StreamBreaks(c)
        BY <3>2, CallStepFrame
      <4> QED BY <3>1, <4>1, CallStepRemote
    <3>3. CASE remote' = remote /\ status'[i] # status[i]
      <4>1. (\E r \in Rails : Reserve(c, r)) \/ Refund(c) \/ Finalize(c)
        BY <3>3, CallStepFrame
      <4>2. i = inv[c] /\ (Refund(c) \/ Finalize(c))
        BY <3>1, <3>3, <4>1 DEF Reserve, CanReserve, Refund, Finalize, TypeOK, RowTypes
      <4>3. CASE Refund(c)
        <5>1. remote[i] = "failed" /\ status'[i] = "failed"
          BY <3>1, <4>2, <4>3 DEF Refund, At, Attending, IndexInv, TypeOK, RowTypes
        <5> QED BY <5>1, <3>3
      <4>4. CASE Finalize(c)
        BY <4>2, <4>4 DEF Finalize, TypeOK, RowTypes
      <4> QED BY <4>2, <4>3, <4>4
    <3> QED BY <3>1, <3>2, <3>3
  <2>2. ASSUME NEW d \in Calls, pc'[d] \in Attending, IndexKnown(inv[d])'
        PROVE  gotIndex'[d] /\ (pc'[d] = "refund" => remote'[inv'[d]] = "failed")
    <3>1. CASE d = c
      BY <1>2, <2>2, <3>1, IndexOwn
    <3>2. CASE d # c
      <4>1. pc[d] \in Attending /\ inv'[d] = inv[d] /\ pc'[d] = pc[d] /\ IndexKnown(inv[d])
        BY <2>2, <2>k, <3>2, <1>o DEF OthersStay, IndexKnown
      <4>2. gotIndex'[d] /\ (pc[d] = "refund" => remote[inv[d]] = "failed")
        BY <3>2, <4>1, CallStepFrame DEF IndexInv
      <4>3. remote'[inv[d]] = remote[inv[d]]
        <5>1. CASE remote' # remote
          <6>1. Send(c) \/ StreamBreaks(c)
            BY <5>1, CallStepFrame
          <6>2. inv[d] # inv[c] /\ inv[d] \in Invoices
            BY <3>2, <4>1, <6>1, CallStepRemote, AttendsAlone DEF Attending, TypeOK, CallTypes
          <6> QED BY <6>1, <6>2, CallStepRemote
        <5> QED BY <5>1
      <4> QED BY <4>1, <4>2, <4>3
    <3> QED BY <3>1, <3>2
  <2> QED BY <1>s, <2>1, <2>2 DEF IndexInv
<1> QED BY <1>1, <1>2, CallStepFrame

LEMMA IndexRecover ==
    ASSUME TypeOK, StandingInv, IndexInv, Recover PROVE IndexInv'
<1>1. UNCHANGED <<remote, pc, inv, gotIndex, indexSaved, indexWrites>>
  BY DEF Recover, NextRow, RecoverSkip, RecoverPaid, RecoverFailed, RecoverMiss, RecoverMissing,
     RefundRow, Serve, remoteVars, callVars, indexVars
<1>2. phase' = "recovering" => phase = "recovering"
  BY DEF Recover, NextRow, RecoverSkip, RecoverPaid, RecoverFailed, RecoverMiss, RecoverMissing,
     RefundRow, RowDone, Serve
<1>3. \A i \in Invoices : status'[i] # "none" \/ status[i] = "none"
  BY DEF Recover, NextRow, RecoverSkip, RecoverPaid, RecoverFailed, RecoverMiss, RecoverMissing,
     RefundRow, Serve, rowVars, TypeOK, RowTypes
<1>4. ASSUME NEW i \in Invoices, IndexKnown(i), status[i] # "failed", status'[i] = "failed"
      PROVE  remote[i] = "failed"
  <2>1. (RecoverFailed \/ RecoverMissing) /\ i = cur /\ cur # NoInvoice
    BY <1>4 DEF Recover, NextRow, RecoverSkip, RecoverPaid, RecoverFailed, RecoverMiss,
       RecoverMissing, Missing, CanLookup, RefundRow, Serve, rowVars, TypeOK, RowTypes
  <2>2. phase = "recovering" /\ indexWrites = {}
    BY <2>1 DEF StandingInv, RecoveryInv, IndexInv
  <2> QED BY <1>4, <2>1, <2>2 DEF RecoverFailed, RecoverMissing, Missing, Seen, IndexKnown
<1> QED BY <1>1, <1>2, <1>3, <1>4 DEF IndexInv, IndexKnown

LEMMA IndexNext ==
    ASSUME TypeOK, StandingInv, StandingInv', IndexInv, [Next]_vars PROVE IndexInv'
<1>1. CASE UNCHANGED vars \/ ProviderLink
  <2>1. UNCHANGED <<status, remote, pc, inv, gotIndex, indexSaved, indexWrites, phase>>
    BY <1>1 DEF vars, ProviderLink, rowVars, remoteVars, callVars, indexVars, bootVars
  <2> QED BY <2>1 DEF IndexInv, IndexKnown
<1>2. CASE Crash
  <2>1. \A i \in Invoices : IndexKnown(i)' => IndexKnown(i)
    BY <1>2 DEF Crash, IndexKnown
  <2>2. \A i \in Invoices : status'[i] = status[i] /\ (remote[i] = "failed" => remote'[i] = "failed")
    BY <1>2 DEF Crash, Closed, InTransit, rowVars
  <2>3. indexWrites' = {} /\ \A c \in Calls : pc'[c] \notin Attending
    BY <1>2 DEF Crash, Attending
  <2> QED BY <2>1, <2>2, <2>3 DEF IndexInv
<1>3. ASSUME NEW i \in Invoices, SaveIndex(i) PROVE IndexInv'
  <2>1. \A j \in Invoices : IndexKnown(j)' => IndexKnown(j)
    BY <1>3 DEF SaveIndex, IndexKnown, TypeOK, RowTypes
  <2>2. /\ UNCHANGED <<status, remote, pc, inv, gotIndex, phase>>
        /\ indexWrites' = indexWrites \ {i}
    BY <1>3 DEF SaveIndex, rowVars, remoteVars, callVars, bootVars
  <2>3. ASSUME NEW c \in Calls, pc[c] \in Attending, IndexKnown(inv[c])'
        PROVE  IndexKnown(inv[c])
    <3>1. inv[c] \in Invoices
      BY <2>3 DEF TypeOK, CallTypes, Attending
    <3> QED BY <2>1, <2>2, <2>3, <3>1 DEF IndexKnown
  <2> QED BY <2>1, <2>2, <2>3 DEF IndexInv
<1>4. ASSUME NEW i \in Invoices, RemoteStep(i) PROVE IndexInv'
  <2>1. UNCHANGED <<status, pc, inv, gotIndex, phase, indexSaved, indexWrites>>
    BY <1>4 DEF RemoteStep, rowVars, indexVars, callVars, bootVars
  <2>2. \A j \in Invoices : remote[j] = "failed" => remote'[j] = "failed"
    BY <1>4 DEF RemoteStep, Register, Drop, Succeed, Fail, Forget, TypeOK, RemoteTypes
  <2>3. \A c \in Calls : pc[c] \in Attending => inv[c] \in Invoices
    BY DEF TypeOK, CallTypes, Attending
  <2> QED BY <2>1, <2>2, <2>3 DEF IndexInv, IndexKnown
<1> QED BY <1>1, <1>2, <1>3, <1>4, IndexCallStep, IndexRecover DEF Next

(* Even when LND loses its history, answers not-found for what it delivers *)
(* later, or an invoice cannot be decoded: a payment whose index reached   *)
(* its row is never both refunded and delivered (the index test of the     *)
(* catch and the paymentIndex > 0 test of checkPendingLndPayment).         *)
THEOREM IndexProtects == Spec => [](IndexInv /\ IndexGuardsRefund)
<1>1. Init => StandingInv /\ IndexInv
  BY InitStands DEF Init, IndexInv, IndexKnown, Attending
<1>2. TypeOK /\ StandingInv /\ StandingInv' /\ IndexInv /\ [Next]_vars => IndexInv'
  BY IndexNext
<1>3. TypeOK /\ StandingInv /\ [Next]_vars => StandingInv'
  BY NextStands
<1>4. IndexInv => IndexGuardsRefund
  BY DEF IndexInv, IndexKnown, IndexGuardsRefund
<1> QED BY <1>1, <1>2, <1>3, <1>4, TypeCorrect, PTL DEF Spec

-----------------------------------------------------------------------------
(* What a step does to balances, rows and surplus still due.               *)

Reserves(u, i) ==
    /\ status[i] = "none" /\ balance[u] >= Total(u)
    /\ balance' = [balance EXCEPT ![u] = @ - Total(u)]
    /\ status' = [status EXCEPT ![i] = "pending"]
    /\ payer' = [payer EXCEPT ![i] = u]
    /\ UNCHANGED <<routingFees, Due>>

Settles(i) ==
    /\ status[i] = "pending" /\ i \in Delivered
    /\ status' = [status EXCEPT ![i] = "paid"]
    /\ routingFees' = [routingFees EXCEPT ![i] = RoundedUp(i)]
    /\ Due' = Due \union {i}
    /\ UNCHANGED <<balance, payer>>

Credits(i) ==
    /\ i \in Due /\ Due' = Due \ {i}
    /\ balance' = Credit(balance, Owner, Surplus(payer[i], routingFees[i]))
    /\ UNCHANGED <<status, payer, routingFees>>

SettlesAndCredits(i) ==
    /\ status[i] = "pending" /\ i \in Delivered
    /\ status' = [status EXCEPT ![i] = "paid"]
    /\ routingFees' = [routingFees EXCEPT ![i] = netFee[i]]
    /\ balance' = Credit(balance, Owner, Surplus(payer[i], netFee[i]))
    /\ UNCHANGED <<payer, Due>>

Refunds(i) ==
    /\ status[i] = "pending"
    /\ status' = [status EXCEPT ![i] = "failed"]
    /\ balance' = Credit(balance, payer[i], Total(payer[i]))
    /\ UNCHANGED <<payer, routingFees, Due>>

\* Balances and rows stay; surpluses due may be lost.
Forfeits == Due' \subseteq Due /\ UNCHANGED <<balance, status, payer, routingFees>>

AccountStep ==
    \/ Forfeits
    \/ \E i \in Invoices :
          \/ \E u \in Users : Reserves(u, i)
          \/ Settles(i) \/ Credits(i) \/ SettlesAndCredits(i) \/ Refunds(i)

LEMMA DueKept ==
    ASSUME NEW c \in Calls, OthersStay(c), pc[c] # "surplus", pc'[c] # "surplus"
    PROVE  Due' = Due
<1>1. Crediting' = Crediting /\ c \notin Crediting
  BY DEF Crediting, OthersStay
<1>2. \A d \in Crediting : inv'[d] = inv[d]
  BY <1>1 DEF Crediting, OthersStay
<1> QED BY <1>1, <1>2 DEF Due

LEMMA DeliveredKept ==
    ASSUME TypeOK, StandingInv, NEW c \in Calls, CallStep(c) PROVE Delivered' = Delivered
<1>1. CASE remote' = remote
  BY <1>1 DEF Delivered
<1>2. CASE Send(c) \/ StreamBreaks(c)
  BY <1>2, CallStepRemote DEF Delivered
<1> QED BY <1>1, <1>2, CallStepFrame

LEMMA CallStepAccounts ==
    ASSUME TypeOK, StandingInv, CreditedOnce, NEW c \in Calls, CallStep(c)
    PROVE  AccountStep
<1>o. OthersStay(c)
  BY CallStepOthers
<1>inv. pc[c] # "idle" => inv[c] \in Invoices /\ user[c] \in Users
  BY DEF TypeOK, CallTypes
<1>c. CallInv(c)
  BY DEF StandingInv
<1>go. (Return(c) => pc'[c] = "idle") /\ \A s : Goto(c, s) => pc'[c] = s
  BY OthersUntouched
<1>q. ASSUME UNCHANGED <<balance, status, payer, routingFees>>, pc[c] # "surplus", pc'[c] # "surplus"
      PROVE  AccountStep
  BY <1>q, <1>o, DueKept DEF AccountStep, Forfeits
<1> USE DEF At, rowVars
<1>1. ASSUME NEW u \in Users, NEW i \in Invoices, Begin(c, u, i) PROVE AccountStep
  BY <1>1, <1>q, <1>go DEF Begin
<1>2. CASE TakeLock(c) \/ CheckRow(c) \/ ReserveFails(c) \/ Refused(c) \/ Send(c)
  BY <1>2, <1>q, <1>go DEF TakeLock, CheckRow, ReserveFails, Refused, Send
<1>3. CASE IndexArrives(c) \/ Answered(c) \/ ProviderErrors(c) \/ StreamBreaks(c)
  BY <1>3, <1>q, <1>go DEF IndexArrives, Answered, ProviderErrors, StreamBreaks
<1>4. CASE TrackAnswer(c) \/ TrackMiss(c) \/ TrackError(c)
  BY <1>4, <1>q, <1>go DEF TrackAnswer, TrackMiss, TrackError
<1>5. CASE Confirm(c) \/ LeavePending(c) \/ RefundFails(c) \/ FinalizeFails(c)
  BY <1>5, <1>q, <1>go DEF Confirm, LeavePending, RefundFails, FinalizeFails
<1>6. ASSUME NEW r \in Rails, Reserve(c, r) PROVE AccountStep
  <2>1. Due' = Due
    BY <1>6, <1>o, <1>go, DueKept DEF Reserve
  <2>2. Reserves(user[c], inv[c])
    BY <1>6, <2>1 DEF Reserve, CanReserve, Reserves
  <2> QED BY <2>2, <1>6, <1>inv DEF AccountStep, Reserve
<1>7. CASE Refund(c)
  <2>1. Due' = Due
    BY <1>7, <1>o, <1>go, DueKept DEF Refund
  <2>2. status[inv[c]] = "pending" /\ payer[inv[c]] = user[c]
    BY <1>7, <1>c DEF Refund, CallInv, Attending
  <2>3. Refunds(inv[c])
    BY <1>7, <2>1, <2>2 DEF Refund, Refunds
  <2> QED BY <2>3, <1>7, <1>inv DEF AccountStep, Refund
<1>8. CASE Finalize(c)
  <2> PICK i \in Invoices : i = inv[c]
    BY <1>8, <1>inv DEF Finalize
  <2>1. status[i] = "pending" /\ i \in Delivered /\ inv' = inv
    BY <1>8, <1>c DEF Finalize, CallInv, Attending, Delivered
  <2>2. Crediting' = Crediting \union {c}
    BY <1>8, <1>o, <1>go DEF Finalize, Crediting, OthersStay
  <2>3. Due' = Due \union {i}
    BY <2>1, <2>2 DEF Due
  <2>4. Settles(i)
    BY <1>8, <2>1, <2>3 DEF Finalize, Settles
  <2> QED BY <2>4 DEF AccountStep
<1>9. CASE CreditSurplus(c)
  <2> PICK i \in Invoices : i = inv[c]
    BY <1>9, <1>inv DEF CreditSurplus
  <2>1. c \in Crediting /\ i \in Due
    BY <1>9 DEF CreditSurplus, Crediting, Due
  <2>2. Crediting' = Crediting \ {c} /\ \A d \in Crediting \ {c} : inv'[d] = inv[d]
    BY <1>9, <1>o, <1>go DEF CreditSurplus, Crediting, OthersStay
  <2>3. \A d \in Crediting \ {c} : inv[d] # inv[c]
    BY <2>1 DEF CreditedOnce
  <2>4. Due' = Due \ {i}
    BY <2>1, <2>2, <2>3 DEF Due
  <2>5. Credits(i)
    BY <1>9, <2>1, <2>4, <1>c DEF CreditSurplus, Credits, CallInv
  <2> QED BY <2>5 DEF AccountStep
<1>10. CASE CreditSurplusFails(c)
  <2>1. Crediting' = Crediting \ {c} /\ \A d \in Crediting \ {c} : inv'[d] = inv[d]
    BY <1>10, <1>o, <1>go DEF CreditSurplusFails, Crediting, OthersStay
  <2>2. Due' \subseteq Due
    BY <2>1 DEF Due
  <2> QED BY <1>10, <2>2 DEF CreditSurplusFails, AccountStep, Forfeits
<1> QED BY <1>1, <1>2, <1>3, <1>4, <1>5, <1>6, <1>7, <1>8, <1>9, <1>10 DEF CallStep

LEMMA DueUntouched == UNCHANGED <<pc, inv>> => Due' = Due
BY DEF Due, Crediting

\* Recovery runs alone, so nothing is due; a settled row is credited at once.
LEMMA RecoverAccounts ==
    ASSUME TypeOK, StandingInv, Recover
    PROVE  AccountStep /\ UNCHANGED <<Delivered, netFee, fraction>>
<1>1. UNCHANGED <<payer, netFee, fraction, Delivered, Due>>
  BY DueUntouched DEF Recover, NextRow, RecoverSkip, RecoverPaid, RecoverFailed, RecoverMiss,
     RecoverMissing, RefundRow, Serve, callVars, remoteVars, rowVars, Delivered
<1>2. CASE (\E i \in Invoices : NextRow(i)) \/ RecoverSkip \/ RecoverMiss \/ Serve
  BY <1>1, <1>2 DEF NextRow, RecoverSkip, RecoverMiss, Serve, rowVars, AccountStep, Forfeits
<1>3. CASE RecoverPaid \/ RecoverFailed \/ RecoverMissing
  <2>1. cur \in Invoices /\ status[cur] = "pending"
    BY <1>3 DEF RecoverPaid, RecoverFailed, RecoverMissing, Missing, CanLookup, TypeOK, BootTypes,
       StandingInv, RecoveryInv
  <2>2. RecoverPaid => SettlesAndCredits(cur)
    BY <1>1, <2>1 DEF RecoverPaid, Seen, SettlesAndCredits, Delivered
  <2>3. RecoverFailed \/ RecoverMissing => Refunds(cur)
    BY <1>1, <2>1 DEF RecoverFailed, RecoverMissing, RefundRow, Refunds
  <2> QED BY <1>1, <1>3, <2>1, <2>2, <2>3 DEF AccountStep
<1> QED BY <1>1, <1>2, <1>3 DEF Recover

LEMMA CrashAccounts ==
    ASSUME TypeOK, Crash PROVE AccountStep /\ UNCHANGED <<Delivered, netFee, fraction>>
<1>1. Due' = {}
  BY DEF Crash, Due, Crediting
<1>2. Delivered' = Delivered
  BY DEF Crash, Closed, InTransit, Delivered
<1> QED BY <1>1, <1>2 DEF Crash, rowVars, AccountStep, Forfeits

LEMMA RemoteAccounts ==
    ASSUME TypeOK, NEW i \in Invoices, RemoteStep(i)
    PROVE  /\ UNCHANGED <<balance, status, payer, routingFees, Due>>
           /\ UNCHANGED <<Delivered, netFee, fraction>> \/ Succeed(i)
<1>1. UNCHANGED <<balance, status, payer, routingFees, Due>>
  BY DueUntouched DEF RemoteStep, rowVars, callVars
<1>2. CASE ~Succeed(i)
  BY <1>1, <1>2 DEF RemoteStep, Register, Drop, Fail, Forget, Delivered, TypeOK, RemoteTypes
<1> QED BY <1>1, <1>2

LEMMA IdleAccounts ==
    ASSUME ProviderLink \/ UNCHANGED vars \/ \E i \in Invoices : SaveIndex(i)
    PROVE  UNCHANGED <<balance, status, payer, routingFees, Due, Delivered, netFee, fraction>>
BY DueUntouched DEF ProviderLink, SaveIndex, vars, rowVars, remoteVars, callVars, Delivered

\* The network fee of a paid invoice does not change any more, and a step of
\* the remote side does not touch rows or balances.
LEMMA NextAccounts ==
    ASSUME TypeOK, StandingInv, CreditedOnce, [Next]_vars
    PROVE  /\ AccountStep
           /\ \A i \in Paid : netFee'[i] = netFee[i] /\ (i \in fraction' <=> i \in fraction)
           /\ \/ UNCHANGED <<netFee, fraction>>
              \/ UNCHANGED <<balance, status, payer, routingFees, Due>>
<1>1. ASSUME NEW c \in Calls, CallStep(c) PROVE AccountStep /\ UNCHANGED <<netFee, fraction>>
  BY <1>1, CallStepAccounts, CallStepFrame
<1>2. ASSUME NEW i \in Invoices, RemoteStep(i)
      PROVE  /\ UNCHANGED <<balance, status, payer, routingFees, Due>>
             /\ \A j \in Paid : netFee'[j] = netFee[j] /\ (j \in fraction' <=> j \in fraction)
  <2>1. UNCHANGED <<balance, status, payer, routingFees, Due>>
    BY <1>2, RemoteAccounts
  <2>2. CASE Succeed(i)
    <3>1. /\ remote[i] = "inflight" /\ \E f \in NetFees : netFee' = [netFee EXCEPT ![i] = f]
          /\ fraction' = fraction \/ fraction' = fraction \union {i}
      BY <2>2 DEF Succeed
    <3>2. i \notin Paid
      BY <3>1 DEF Paid, StandingInv, RowInv
    <3> QED BY <2>1, <3>1, <3>2 DEF TypeOK, RemoteTypes, Paid
  <2> QED BY <1>2, <2>1, <2>2, RemoteAccounts
<1>3. ASSUME Recover \/ Crash \/ ProviderLink \/ UNCHANGED vars \/ \E i \in Invoices : SaveIndex(i)
      PROVE  AccountStep /\ UNCHANGED <<netFee, fraction>>
  BY <1>3, RecoverAccounts, CrashAccounts, IdleAccounts DEF AccountStep, Forfeits
<1> QED BY <1>1, <1>2, <1>3 DEF Next, AccountStep, Forfeits

\* A call turns to the credit only from a row that is pending, and the row of
\* any other credit still to come is paid.
LEMMA CreditedOnceKept ==
    ASSUME TypeOK, StandingInv, CreditedOnce, [Next]_vars PROVE CreditedOnce'
<1>1. CASE UNCHANGED <<pc, inv>>
  BY <1>1 DEF CreditedOnce, Crediting
<1>2. CASE Crash
  BY <1>2 DEF Crash, CreditedOnce, Crediting
<1>3. ASSUME NEW c \in Calls, CallStep(c) PROVE CreditedOnce'
  <2>o. OthersStay(c)
    BY <1>3, CallStepOthers
  <2>1. CASE pc'[c] # "surplus"
    BY <2>1, <2>o DEF OthersStay, CreditedOnce, Crediting
  <2>2. CASE pc'[c] = "surplus"
    <3>1. Finalize(c)
      BY <1>3, <2>2 DEF CallStep, Begin, TakeLock, CheckRow, Reserve, ReserveFails, Refused, Send,
         IndexArrives, Answered, ProviderErrors, StreamBreaks, TrackAnswer, TrackMiss, TrackError,
         Confirm, LeavePending, Refund, RefundFails, FinalizeFails, CreditSurplus,
         CreditSurplusFails, At, Goto, Return, TypeOK, CallTypes
    <3>2. status[inv[c]] = "pending" /\ inv' = inv
      BY <3>1 DEF Finalize, At, StandingInv, CallInv, Attending
    <3>3. \A d \in Crediting : inv[d] # inv[c]
      BY <3>2 DEF Crediting, StandingInv, CallInv
    <3>4. Crediting' \subseteq Crediting \union {c}
      BY <2>o DEF OthersStay, Crediting
    <3> QED BY <3>2, <3>3, <3>4 DEF CreditedOnce
  <2> QED BY <2>1, <2>2
<1>4. CASE \/ Recover \/ ProviderLink \/ UNCHANGED vars
           \/ \E i \in Invoices : SaveIndex(i) \/ RemoteStep(i)
  <2>1. UNCHANGED <<pc, inv>>
    BY <1>4 DEF Recover, NextRow, RecoverSkip, RecoverPaid, RecoverFailed, RecoverMiss,
       RecoverMissing, RefundRow, Serve, ProviderLink, SaveIndex, RemoteStep, vars, callVars
  <2> QED BY <1>1, <2>1
<1> QED BY <1>2, <1>3, <1>4 DEF Next

(* The surplus of a paid invoice has at most one call left to credit it.   *)
THEOREM SurplusCreditedOnce == Spec => []CreditedOnce
<1>1. Init => StandingInv /\ CreditedOnce
  BY InitStands DEF Init, CreditedOnce, Crediting
<1>2. TypeOK /\ StandingInv /\ CreditedOnce /\ [Next]_vars => CreditedOnce'
  BY CreditedOnceKept
<1>3. TypeOK /\ StandingInv /\ [Next]_vars => StandingInv'
  BY NextStands
<1> QED BY <1>1, <1>2, <1>3, TypeCorrect, PTL DEF Spec

\* A row is settled with the fee of the live payment or of recovery, and
\* keeps it.
LEMMA FeesKept ==
    ASSUME TypeOK, TypeOK', StandingInv, CreditedOnce, FeesInv, [Next]_vars PROVE FeesInv'
<1>n. /\ AccountStep
      /\ \A i \in Paid : netFee'[i] = netFee[i] /\ (i \in fraction' <=> i \in fraction)
      /\ \/ UNCHANGED <<netFee, fraction>>
         \/ UNCHANGED <<balance, status, payer, routingFees, Due>>
  BY NextAccounts
<1>p. \A i \in Invoices : i \in Paid <=> status[i] = "paid"
  BY DEF Paid
<1>1. ASSUME NEW i \in Invoices, i \in Paid, routingFees'[i] = routingFees[i]
      PROVE  routingFees'[i] \in {netFee'[i], RoundedUp(i)'}
  <2>1. RoundedUp(i)' = RoundedUp(i) /\ netFee'[i] = netFee[i]
    BY <1>n, <1>1 DEF RoundedUp
  <2> QED BY <2>1, <1>1, <1>p DEF FeesInv
<1>2. ASSUME NEW i \in Invoices, i \notin Paid, status'[i] = "paid"
      PROVE  routingFees'[i] \in {netFee'[i], RoundedUp(i)'}
  <2>1. Settles(i) \/ SettlesAndCredits(i)
    BY <1>n, <1>2, <1>p
    DEF AccountStep, Forfeits, Reserves, Settles, Credits, SettlesAndCredits, Refunds, TypeOK, RowTypes
  <2>2. UNCHANGED <<netFee, fraction>>
    BY <1>n, <1>2, <1>p
  <2>3. RoundedUp(i)' = RoundedUp(i)
    BY <2>2 DEF RoundedUp
  <2> QED BY <2>1, <2>2, <2>3 DEF Settles, SettlesAndCredits, TypeOK, RowTypes
<1>3. ASSUME NEW i \in Invoices, i \in Paid PROVE routingFees'[i] = routingFees[i]
  BY <1>n, <1>3, <1>p
  DEF AccountStep, Forfeits, Reserves, Settles, Credits, SettlesAndCredits, Refunds, TypeOK, RowTypes
<1> QED BY <1>1, <1>2, <1>3, <1>p DEF FeesInv

(* A paid row carries the network fee, rounded up by the live payment or   *)
(* down by recovery, and never another one.                                *)
THEOREM FeesAreRounded == Spec => []FeesInv
<1>1. Init => FeesInv
  BY DEF Init, FeesInv
<1>2. TypeOK /\ TypeOK' /\ StandingInv /\ CreditedOnce /\ FeesInv /\ [Next]_vars => FeesInv'
  BY FeesKept
<1> QED BY <1>1, <1>2, TypeCorrect, CallsOwnTheirRows, SurplusCreditedOnce, PTL DEF Spec

-----------------------------------------------------------------------------
(* OutgoingPayments implements PaymentLedger: the initial state maps to an *)
(* initial state, and every step of a call, of recovery, of a crash or of  *)
(* the remote side maps to a step of the ledger or to a stutter.           *)

LedgerStep == [Ledger!Next]_(Ledger!vars)

LEMMA SameAmounts ==
    /\ \A u : Ledger!Cost(u) = Total(u)
    /\ \A u, f : Ledger!SurplusOf(u, f) = Surplus(u, f)
    /\ \A i : {netFee[i], RoundedUp(i)} \subseteq Ledger!Rounded(i)
BY MoneyAssumption
DEF Ledger!Cost, Total, ServiceFeeOf, Ledger!SurplusOf, Surplus, Ledger!Rounded, RoundedUp

\* Steps that leave the remote side's truth alone.
LEMMA AccountsMap ==
    ASSUME TypeOK, AccountStep, UNCHANGED <<Delivered, netFee, fraction>>, NoRefundOfDelivered'
    PROVE  LedgerStep
<1>1. CASE Forfeits /\ Due' = Due
  BY <1>1 DEF Forfeits, LedgerStep, Ledger!vars
<1>2. CASE Forfeits /\ Due' # Due
  <2>1. Ledger!ForfeitSurplus
    BY <1>2 DEF Forfeits, Ledger!ForfeitSurplus
  <2> QED BY <2>1 DEF LedgerStep, Ledger!Next
<1>3. ASSUME NEW i \in Invoices, NEW u \in Users, Reserves(u, i) PROVE LedgerStep
  <2>1. Ledger!Reserve(u, i)
    BY <1>3, SameAmounts DEF Reserves, Ledger!Reserve
  <2> QED BY <2>1 DEF LedgerStep, Ledger!Next
<1>4. ASSUME NEW i \in Invoices, Settles(i) \/ Credits(i) \/ SettlesAndCredits(i) PROVE LedgerStep
  <2>1. Settles(i) => Ledger!Settle(i)
    BY SameAmounts DEF Settles, Ledger!Settle
  <2>2. Credits(i) => Ledger!CreditSurplus(i)
    BY SameAmounts DEF Credits, Credit, Ledger!CreditSurplus
  <2>3. SettlesAndCredits(i) => Ledger!SettleAndCredit(i)
    BY SameAmounts DEF SettlesAndCredits, Credit, Ledger!SettleAndCredit
  <2> QED BY <1>4, <2>1, <2>2, <2>3 DEF LedgerStep, Ledger!Next
<1>5. ASSUME NEW i \in Invoices, Refunds(i) PROVE LedgerStep
  <2>1. status'[i] = "failed"
    BY <1>5 DEF Refunds, TypeOK, RowTypes
  <2>2. i \notin Delivered
    BY <2>1 DEF NoRefundOfDelivered, Delivered
  <2>3. Ledger!Refund(i)
    BY <1>5, <2>2, SameAmounts DEF Refunds, Credit, Ledger!Refund
  <2> QED BY <2>3 DEF LedgerStep, Ledger!Next
<1> QED BY <1>1, <1>2, <1>3, <1>4, <1>5 DEF AccountStep

LEMMA StepMaps ==
    ASSUME TypeOK, PaymentInv, PaymentInv', CreditedOnce, [Next]_vars PROVE LedgerStep
<1>s. StandingInv /\ NoRefundOfDelivered'
  BY DEF PaymentInv
<1>1. ASSUME NEW c \in Calls, CallStep(c) PROVE LedgerStep
  BY <1>1, <1>s, CallStepAccounts, DeliveredKept, CallStepFrame, AccountsMap
<1>2. ASSUME NEW i \in Invoices, RemoteStep(i) PROVE LedgerStep
  <2>1. UNCHANGED <<balance, status, payer, routingFees, Due>>
    BY <1>2, RemoteAccounts
  <2>2. CASE UNCHANGED <<Delivered, netFee, fraction>>
    BY <2>1, <2>2 DEF LedgerStep, Ledger!vars
  <2>3. CASE Succeed(i)
    <3>1. i \notin Delivered /\ Delivered' = Delivered \union {i}
      BY <2>3 DEF Succeed, Delivered, TypeOK, RemoteTypes
    <3>2. status[i] = "pending"
      BY <2>3 DEF Succeed, PaymentInv, NoRefundOfDelivered, StandingInv, RowInv, TypeOK, RowTypes
    <3>3. /\ \E f \in NetFees : netFee' = [netFee EXCEPT ![i] = f]
          /\ fraction' \in {fraction, fraction \union {i}}
      BY <2>3 DEF Succeed
    <3>4. Ledger!Deliver(i)
      BY <2>1, <3>1, <3>2, <3>3 DEF Ledger!Deliver
    <3> QED BY <3>4 DEF LedgerStep, Ledger!Next
  <2> QED BY <1>2, <2>2, <2>3, RemoteAccounts
<1>3. CASE Recover \/ Crash \/ ProviderLink \/ UNCHANGED vars \/ \E i \in Invoices : SaveIndex(i)
  BY <1>3, <1>s, RecoverAccounts, CrashAccounts, IdleAccounts, AccountsMap DEF AccountStep, Forfeits
<1> QED BY <1>1, <1>2, <1>3 DEF Next

(* The payments implement PaymentLedger under the lookups the code relies  *)
(* on: whatever calls, recovery, crashes and lost answers do to balances   *)
(* and rows of PayExternalInvoice and checkPaymentStatus is a reservation, *)
(* one settlement of a delivered payment, one full refund of one that is   *)
(* not delivered, or the owner's surplus of a settled one, at most once.   *)
THEOREM ImplementsLedger == ReliableLookups => (Spec => LedgerSpec)
<1>1. Init => Ledger!Init
  BY DEF Init, Ledger!Init, Delivered, Due, Crediting
<1>2. TypeOK /\ PaymentInv /\ PaymentInv' /\ CreditedOnce /\ [Next]_vars
        => [Ledger!Next]_(Ledger!vars)
  BY StepMaps DEF LedgerStep
<1>3. ASSUME ReliableLookups PROVE Spec => LedgerSpec
  BY <1>1, <1>2, <1>3, TypeCorrect, InvariantHolds, SurplusCreditedOnce, PTL
  DEF Spec, LedgerSpec, Ledger!Spec
<1> QED BY <1>3

-----------------------------------------------------------------------------
(* The books.  Sums over users and invoices move with each kind of step.   *)

BookedRows == PendingRows \union Paid

LEMMA AmountTypes ==
    ASSUME TypeOK, NEW i \in Invoices
    PROVE  /\ Costs[i] \in Nat /\ Costs[i] = Total(payer[i])
           /\ Surpluses[i] \in Nat /\ Surpluses[i] = Surplus(payer[i], routingFees[i])
           /\ Spendings[i] \in Nat /\ Spendings[i] <= Costs[i]
           /\ Roundings[i] \in Nat
           /\ status[i] = "paid" /\ FeesInv
                => Spendings[i] + Surpluses[i] <= Costs[i] + Roundings[i]
<1>1. routingFees[i] \in Nat /\ netFee[i] \in Nat /\ RoundedUp(i) \in Nat /\ payer[i] \in Users
  BY RoundedUpNat DEF TypeOK, RemoteTypes, RowTypes
<1>2. RoundedUp(i) \in {netFee[i], netFee[i] + 1}
  BY DEF RoundedUp
<1>3. status[i] = "paid" /\ FeesInv => routingFees[i] \in {RoundedUp(i) - 1, RoundedUp(i)}
  BY <1>1, <1>2 DEF FeesInv
<1>4. ServiceFeeOf(payer[i]) \in Nat /\ Price \in Nat /\ Costs[i] = Price + ServiceFeeOf(payer[i])
  BY MoneyAssumption DEF Costs, Total, ServiceFeeOf
<1>5. Surpluses[i] = IF ServiceFeeOf(payer[i]) > routingFees[i]
                     THEN ServiceFeeOf(payer[i]) - routingFees[i] ELSE 0
  BY <1>1, MoneyAssumption DEF Surpluses, Surplus, ServiceFeeOf
<1>6. Spendings[i] = IF RoundedUp(i) > ServiceFeeOf(payer[i])
                     THEN Price + ServiceFeeOf(payer[i]) ELSE Price + RoundedUp(i)
  BY <1>1, <1>4 DEF Spendings, Overrun
<1>7. Roundings[i] = IF routingFees[i] < RoundedUp(i) THEN 1 ELSE 0
  BY DEF Roundings
<1>8. Costs[i] = Total(payer[i]) /\ Surpluses[i] = Surplus(payer[i], routingFees[i])
  BY DEF Costs, Surpluses
<1> QED BY <1>1, <1>3, <1>4, <1>5, <1>6, <1>7, <1>8

LEMMA InvoicesFinite == \A S \in SUBSET Invoices : IsFiniteSet(S)
BY FS_Subset, FiniteAssumption

LEMMA SumTypes ==
    ASSUME TypeOK
    PROVE  Balances \in Int /\ Initially \in Int /\ Booked \in Int /\ Credited \in Int
<1>1. Balances \in Int /\ Initially \in Int
  BY SumInt, FiniteAssumption, MoneyAssumption DEF Balances, Initially, TypeOK
<1>2. IsFiniteSet(BookedRows) /\ IsFiniteSet(Paid \ Due)
  BY InvoicesFinite DEF BookedRows, PendingRows, Paid
<1>3. \A i \in Invoices : Costs[i] \in Int /\ Surpluses[i] \in Int
  BY AmountTypes
<1> QED BY <1>1, <1>2, <1>3, SumInt DEF Booked, Credited, BookedRows, PendingRows, Paid

LEMMA BalancesMove ==
    TypeOK => \A u \in Users, m \in Int :
                  balance' = [balance EXCEPT ![u] = m] => Balances' = Balances + (m - balance[u])
<1>1. ASSUME TypeOK, NEW u \in Users, NEW m \in Int, balance' = [balance EXCEPT ![u] = m]
      PROVE  Balances' = Balances + (m - balance[u])
  <2>1. /\ \A v \in Users : balance[v] \in Int /\ balance'[v] \in Int
        /\ balance'[u] = m /\ \A v \in Users \ {u} : balance'[v] = balance[v]
    BY <1>1 DEF TypeOK
  <2>2. Balances' = Balances + (balance'[u] - balance[u])
    BY <2>1, SumChange, FiniteAssumption DEF Balances
  <2> QED BY <2>1, <2>2
<1> QED BY <1>1

LEMMA CreditMoves ==
    ASSUME TypeOK, NEW u \in Users, NEW n \in Nat, balance' = Credit(balance, u, n)
    PROVE  Balances' = Balances + n
<1>1. balance[u] \in Nat /\ balance' = [balance EXCEPT ![u] = balance[u] + n]
  BY DEF TypeOK, Credit
<1>2. Balances' = Balances + ((balance[u] + n) - balance[u])
  <2>1. balance[u] + n \in Int
    BY <1>1
  <2>2. \A m \in Int : balance' = [balance EXCEPT ![u] = m] => Balances' = Balances + (m - balance[u])
    BY BalancesMove
  <2> QED BY <1>1, <2>1, <2>2
<1> QED BY <1>1, <1>2, SumTypes

\* The costs booked, when rows come in, go out, or stay.
LEMMA BookedMoves ==
    ASSUME TypeOK, TypeOK', NEW i \in Invoices,
           \A j \in Invoices \ {i} : payer'[j] = payer[j]
    PROVE  /\ Booked' \in Int
           /\ i \notin BookedRows /\ BookedRows' = BookedRows \union {i}
                => Booked' = Booked + Total(payer'[i])
           /\ i \in BookedRows /\ BookedRows' = BookedRows \ {i} => Booked = Booked' + Total(payer[i])
           /\ BookedRows' = BookedRows /\ payer'[i] = payer[i] => Booked' = Booked
<1>1. IsFiniteSet(BookedRows) /\ IsFiniteSet(BookedRows') /\ BookedRows \subseteq Invoices
  BY InvoicesFinite DEF BookedRows, PendingRows, Paid
<1>2. \A j \in Invoices : Costs[j] \in Int /\ Costs'[j] \in Int
  BY TotalNat DEF Costs
<1>3. \A j \in Invoices : payer'[j] = payer[j] => Costs'[j] = Costs[j]
  BY DEF Costs, Total, ServiceFeeOf
<1>4. Costs[i] = Total(payer[i]) /\ Costs'[i] = Total(payer'[i])
  BY DEF Costs, Total, ServiceFeeOf
<1>n. Booked' \in Int
  <2>1. BookedRows' \subseteq Invoices
    BY DEF BookedRows, PendingRows, Paid
  <2>2. SumFunctionOnSet(Costs', BookedRows') \in Int
    BY <2>1, <1>1, <1>2, SumInt
  <2> QED BY <2>2 DEF Booked, BookedRows
<1>5. ASSUME i \notin BookedRows, BookedRows' = BookedRows \union {i}
      PROVE  Booked' = Booked + Total(payer'[i])
  <2>1. SumFunctionOnSet(Costs', BookedRows \union {i}) = Costs'[i] + SumFunctionOnSet(Costs', BookedRows)
    BY <1>1, <1>2, <1>5, SumAdd
  <2>2. SumFunctionOnSet(Costs', BookedRows) = SumFunctionOnSet(Costs, BookedRows)
    BY <1>1, <1>2, <1>3, <1>5, SumSame
  <2>3. Booked' = Costs'[i] + Booked
    BY <2>1, <2>2, <1>5 DEF Booked, BookedRows
  <2> QED BY <2>3, <1>2, <1>4, SumTypes
<1>6. ASSUME i \in BookedRows, BookedRows' = BookedRows \ {i}
      PROVE  Booked = Booked' + Total(payer[i])
  <2>1. SumFunctionOnSet(Costs, BookedRows) = Costs[i] + SumFunctionOnSet(Costs, BookedRows \ {i})
    BY <1>1, <1>2, <1>6, SumRemove
  <2>2. SumFunctionOnSet(Costs, BookedRows \ {i}) = SumFunctionOnSet(Costs', BookedRows \ {i})
    BY <1>1, <1>2, <1>3, <1>6, SumSame
  <2>3. Booked = Costs[i] + Booked'
    BY <2>1, <2>2, <1>6 DEF Booked, BookedRows
  <2> QED BY <2>3, <1>2, <1>4, <1>n
<1>7. ASSUME BookedRows' = BookedRows, payer'[i] = payer[i] PROVE Booked' = Booked
  <2>1. SumFunctionOnSet(Costs, BookedRows) = SumFunctionOnSet(Costs', BookedRows)
    BY <1>1, <1>2, <1>3, <1>7, SumSame
  <2> QED BY <2>1, <1>7 DEF Booked, BookedRows
<1> QED BY <1>n, <1>5, <1>6, <1>7

CreditedRows == Paid \ Due

\* The surpluses credited, when rows come in or stay.
LEMMA CreditedMoves ==
    ASSUME TypeOK, TypeOK',
           \A i \in Paid : routingFees'[i] = routingFees[i] /\ payer'[i] = payer[i],
           CreditedRows \subseteq CreditedRows'
    PROVE  /\ Credited' \in Int /\ Credited' >= Credited
           /\ CreditedRows' = CreditedRows => Credited' = Credited
           /\ \A i \in Invoices \ CreditedRows :
                  CreditedRows' = CreditedRows \union {i}
                      => Credited' = Credited + Surplus(payer'[i], routingFees'[i])
<1> DEFINE more == CreditedRows' \ CreditedRows
<1>1. IsFiniteSet(CreditedRows) /\ IsFiniteSet(CreditedRows') /\ IsFiniteSet(more)
  BY InvoicesFinite DEF CreditedRows, Paid
<1>2. CreditedRows \subseteq Invoices /\ CreditedRows' \subseteq Invoices
  BY DEF CreditedRows, Paid
<1>3. \A i \in Invoices : /\ Surpluses[i] \in Int /\ Surpluses'[i] \in Nat
                          /\ Surpluses[i] = Surplus(payer[i], routingFees[i])
                          /\ Surpluses'[i] = Surplus(payer'[i], routingFees'[i])
  <2>1. ASSUME NEW i \in Invoices
        PROVE  Surpluses'[i] \in Nat /\ Surpluses'[i] = Surplus(payer'[i], routingFees'[i])
    <3>1. routingFees'[i] \in Nat
      BY DEF TypeOK, RowTypes
    <3>2. Surpluses'[i] = Surplus(payer'[i], routingFees'[i])
      BY DEF Surpluses, Surplus
    <3> QED BY <3>1, <3>2, SurplusNat
  <2> QED BY <2>1, AmountTypes
<1>4. \A i \in CreditedRows : Surpluses'[i] = Surpluses[i]
  BY <1>2, <1>3 DEF CreditedRows
<1>5. SumFunctionOnSet(Surpluses, CreditedRows) = SumFunctionOnSet(Surpluses', CreditedRows)
  BY <1>1, <1>2, <1>3, <1>4, SumSame
<1>6. Credited = SumFunctionOnSet(Surpluses', CreditedRows) /\ Credited \in Int
  BY <1>5, SumTypes DEF Credited, CreditedRows
<1>7. Credited' = SumFunctionOnSet(Surpluses', CreditedRows')
  BY DEF Credited, CreditedRows
<1>8. Credited' \in Int /\ Credited' >= Credited
  <2>1. CreditedRows' = CreditedRows \union more /\ CreditedRows \intersect more = {}
    OBVIOUS
  <2>2. \A i \in more : Surpluses'[i] \in Nat
    BY <1>2, <1>3
  <2>3. \A i \in CreditedRows \union more : Surpluses'[i] \in Int
    BY <1>2, <1>3
  <2> HIDE DEF more
  <2>4. SumFunctionOnSet(Surpluses', more) \in Nat
    BY <2>2, <1>1, SumNat
  <2>5. SumFunctionOnSet(Surpluses', CreditedRows \union more)
          = SumFunctionOnSet(Surpluses', CreditedRows) + SumFunctionOnSet(Surpluses', more)
    BY <2>1, <2>3, <1>1, SumUnion
  <2>6. Credited' = Credited + SumFunctionOnSet(Surpluses', more)
    BY <2>1, <2>5, <1>6, <1>7
  <2> QED BY <2>4, <2>6, <1>6
<1>9. ASSUME NEW i \in Invoices \ CreditedRows, CreditedRows' = CreditedRows \union {i}
      PROVE  Credited' = Credited + Surplus(payer'[i], routingFees'[i])
  <2>1. Surpluses'[i] = Surplus(payer'[i], routingFees'[i]) /\ Surpluses'[i] \in Int
    BY <1>3, <1>9
  <2>2. \A j \in CreditedRows \union {i} : Surpluses'[j] \in Int
    BY <1>2, <1>3
  <2>3. SumFunctionOnSet(Surpluses', CreditedRows \union {i})
          = Surpluses'[i] + SumFunctionOnSet(Surpluses', CreditedRows)
    BY <2>2, <1>1, <1>9, SumAdd
  <2> QED BY <2>1, <2>3, <1>6, <1>7, <1>9
<1> QED BY <1>6, <1>7, <1>8, <1>9

LEMMA DueIsPaid == ASSUME TypeOK, StandingInv PROVE Due \subseteq Paid
BY DEF TypeOK, CallTypes, StandingInv, CallInv, Due, Crediting, Paid

LEMMA BooksKept ==
    ASSUME TypeOK, TypeOK', StandingInv, BooksBalance, AccountStep PROVE BooksBalance'
<1>t. /\ Balances \in Int /\ Initially \in Int /\ Booked \in Int /\ Credited \in Int
      /\ Initially' = Initially
  BY SumTypes DEF Initially
<1>b. Balances + Booked >= Initially /\ Balances + Booked <= Initially + Credited
  BY DEF BooksBalance
<1>due. Due \subseteq Paid
  BY DueIsPaid
<1>1. CASE Forfeits
  <2>1. Balances' = Balances /\ Booked' = Booked
    BY <1>1 DEF Forfeits, Balances, Booked, PendingRows, Paid, Costs, Total, ServiceFeeOf
  <2>2. CreditedRows \subseteq CreditedRows'
    BY <1>1 DEF Forfeits, CreditedRows, Paid
  <2>3. Credited' \in Int /\ Credited <= Credited'
    BY <1>1, <2>2, CreditedMoves DEF Forfeits
  <2>4. PICK bal \in Int, book \in Int, ini \in Int, cred \in Int, cred2 \in Int :
            /\ bal = Balances /\ book = Booked /\ ini = Initially
            /\ cred = Credited /\ cred2 = Credited'
    BY <1>t, <2>3
  <2>5. bal + book >= ini /\ bal + book <= ini + cred /\ cred <= cred2
    BY <1>b, <2>3, <2>4
  <2>6. bal + book <= ini + cred2
    BY <2>5
  <2> QED BY <1>t, <2>1, <2>4, <2>5, <2>6 DEF BooksBalance
<1>2. ASSUME NEW u \in Users, NEW i \in Invoices, Reserves(u, i) PROVE BooksBalance'
  <2>1. Total(u) \in Nat /\ payer'[i] = u /\ \A j \in Invoices \ {i} : payer'[j] = payer[j]
    BY <1>2, TotalNat DEF Reserves, TypeOK, RowTypes
  <2>2. balance[u] - Total(u) \in Int /\ balance' = [balance EXCEPT ![u] = balance[u] - Total(u)]
    BY <1>2, <2>1 DEF Reserves, TypeOK
  <2>3. Balances' = Balances - Total(u)
    <3>1. Balances' = Balances + ((balance[u] - Total(u)) - balance[u])
      BY <2>2, BalancesMove
    <3> QED BY <3>1, <2>1, <1>t DEF TypeOK
  <2>4. i \notin BookedRows /\ BookedRows' = BookedRows \union {i}
    BY <1>2 DEF Reserves, BookedRows, PendingRows, Paid, TypeOK, RowTypes
  <2>5. Booked' = Booked + Total(u)
    BY <2>1, <2>4, BookedMoves
  <2>6. Paid' = Paid /\ i \notin Paid /\ CreditedRows' = CreditedRows
    BY <1>2 DEF Reserves, CreditedRows, Paid, TypeOK, RowTypes
  <2>7. Credited' = Credited
    BY <1>2, <2>1, <2>6, CreditedMoves DEF Paid, Reserves
  <2> QED BY <1>t, <1>b, <2>1, <2>3, <2>5, <2>7 DEF BooksBalance
<1>3. ASSUME NEW i \in Invoices, Settles(i) PROVE BooksBalance'
  <2>1. Balances' = Balances /\ payer' = payer
    BY <1>3 DEF Settles, Balances
  <2>2. BookedRows' = BookedRows
    BY <1>3 DEF Settles, BookedRows, PendingRows, Paid, TypeOK, RowTypes
  <2>3. Booked' = Booked
    BY <2>1, <2>2, BookedMoves
  <2>4. CreditedRows' = CreditedRows
    BY <1>3 DEF Settles, CreditedRows, Paid, TypeOK, RowTypes
  <2>5. \A j \in Paid : routingFees'[j] = routingFees[j]
    BY <1>3 DEF Settles, Paid, TypeOK, RowTypes
  <2>6. Credited' = Credited
    BY <2>1, <2>4, <2>5, CreditedMoves
  <2> QED BY <1>t, <1>b, <2>1, <2>3, <2>6 DEF BooksBalance
<1>4. ASSUME NEW i \in Invoices, Credits(i) \/ SettlesAndCredits(i) PROVE BooksBalance'
  <2>1. payer' = payer /\ \A j \in Paid : routingFees'[j] = routingFees[j]
    BY <1>4 DEF Credits, SettlesAndCredits, Paid, TypeOK, RowTypes
  <2>2. PICK n \in Nat : n = Surplus(payer'[i], routingFees'[i])
    BY SurplusNat DEF TypeOK, RowTypes
  <2>3. balance' = Credit(balance, Owner, n)
    BY <1>4, <2>2 DEF Credits, SettlesAndCredits, TypeOK, RowTypes
  <2>4. Balances' = Balances + n
    BY <2>3, CreditMoves, MoneyAssumption
  <2>5. BookedRows' = BookedRows
    BY <1>4 DEF Credits, SettlesAndCredits, BookedRows, PendingRows, Paid, TypeOK, RowTypes
  <2>6. Booked' = Booked
    BY <2>1, <2>5, BookedMoves
  <2>7. i \notin CreditedRows /\ CreditedRows' = CreditedRows \union {i}
    BY <1>4, <1>due DEF Credits, SettlesAndCredits, CreditedRows, Paid, TypeOK, RowTypes
  <2>8. Credited' = Credited + n
    BY <2>1, <2>2, <2>7, CreditedMoves
  <2> QED BY <1>t, <1>b, <2>2, <2>4, <2>6, <2>8 DEF BooksBalance
<1>5. ASSUME NEW i \in Invoices, Refunds(i) PROVE BooksBalance'
  <2>1. payer[i] \in Users /\ Total(payer[i]) \in Nat /\ payer' = payer
    BY <1>5, TotalNat DEF Refunds, TypeOK, RowTypes
  <2>2. Balances' = Balances + Total(payer[i])
    BY <1>5, <2>1, CreditMoves DEF Refunds
  <2>3. i \in BookedRows /\ BookedRows' = BookedRows \ {i}
    BY <1>5 DEF Refunds, BookedRows, PendingRows, Paid, TypeOK, RowTypes
  <2>4. Booked = Booked' + Total(payer[i]) /\ Booked' \in Int
    BY <2>1, <2>3, BookedMoves
  <2>5. CreditedRows' = CreditedRows
    BY <1>5 DEF Refunds, CreditedRows, Paid, TypeOK, RowTypes
  <2>6. Credited' = Credited
    BY <1>5, <2>1, <2>5, CreditedMoves DEF Refunds
  <2> QED BY <1>t, <1>b, <2>1, <2>2, <2>4, <2>6 DEF BooksBalance
<1> QED BY <1>1, <1>2, <1>3, <1>4, <1>5 DEF AccountStep

(* Whatever LND answers or forgets, balances and booked rows account for   *)
(* the money there was, but for the surplus of paid invoices: nothing is   *)
(* debited, refunded or credited twice.                                    *)
THEOREM BooksAreBalanced == Spec => []BooksBalance
<1>1. Init => BooksBalance
  <2> SUFFICES ASSUME Init PROVE BooksBalance
    OBVIOUS
  <2>1. PendingRows \union Paid = {} /\ Paid \ Due = {} /\ balance = InitBalance
    BY DEF Init, PendingRows, Paid
  <2>2. Booked = 0 /\ Credited = 0 /\ Balances = Initially
    BY <2>1, SumEmpty DEF Booked, Credited, Balances, Initially
  <2>3. Initially \in Int
    BY SumInt, FiniteAssumption, MoneyAssumption DEF Initially
  <2> QED BY <2>2, <2>3 DEF BooksBalance
<1>2. TypeOK /\ TypeOK' /\ StandingInv /\ CreditedOnce /\ BooksBalance /\ [Next]_vars
        => BooksBalance'
  BY NextAccounts, BooksKept
<1> QED BY <1>1, <1>2, TypeCorrect, CallsOwnTheirRows, SurplusCreditedOnce, PTL DEF Spec

\* What the books and the reliable lookups say of the node's solvency.
LEMMA SolventState ==
    ASSUME TypeOK, PaymentInv, FeesInv, BooksBalance PROVE Solvent
<1> DEFINE Used == [i \in Invoices |-> Spendings[i] + Surpluses[i]]
           Allowed == [i \in Invoices |-> Costs[i] + Roundings[i]]
           Open == PendingRows \ Delivered
           Won == PendingRows \intersect Delivered
           C(S) == SumFunctionOnSet(Costs, S)
           P(S) == SumFunctionOnSet(Spendings, S)
           U(S) == SumFunctionOnSet(Surpluses, S)
           R(S) == SumFunctionOnSet(Roundings, S)
<1>sub. Open \subseteq Invoices /\ Won \subseteq Invoices /\ Paid \subseteq Invoices
  BY DEF PendingRows, Paid
<1>fin. IsFiniteSet(Open) /\ IsFiniteSet(Won) /\ IsFiniteSet(Paid) /\ IsFiniteSet(Open \union Won)
        /\ IsFiniteSet(Paid \ Due) /\ IsFiniteSet(Paid \intersect Due)
  BY <1>sub, InvoicesFinite
<1>int. \A i \in Invoices : /\ Costs[i] \in Nat /\ Spendings[i] \in Nat /\ Surpluses[i] \in Nat
                            /\ Roundings[i] \in Nat /\ Spendings[i] <= Costs[i]
  BY AmountTypes
<1>use. \A i \in Paid : /\ Used[i] \in Int /\ Used[i] = Spendings[i] + Surpluses[i]
                        /\ Allowed[i] \in Int /\ Allowed[i] = Costs[i] + Roundings[i]
                        /\ Used[i] <= Allowed[i]
  BY <1>int, AmountTypes DEF Paid
<1>row. Delivered = Won \union Paid /\ Won \intersect Paid = {}
  <2>1. ASSUME NEW i \in Delivered PROVE status[i] \in {"pending", "paid"}
    BY <2>1 DEF Delivered, PaymentInv, StandingInv, RowInv, NoRefundOfDelivered, TypeOK, RowTypes
  <2>2. Paid \subseteq Delivered
    BY DEF Paid, Delivered, PaymentInv, StandingInv, RowInv
  <2> QED BY <2>1, <2>2 DEF PendingRows, Paid, Delivered
<1>split. /\ PendingRows \union Paid = (Open \union Won) \union Paid
          /\ (Open \union Won) \intersect Paid = {} /\ Open \intersect Won = {}
  BY DEF PendingRows, Paid
<1>cred. Paid = (Paid \ Due) \union (Paid \intersect Due) /\ (Paid \ Due) \intersect (Paid \intersect Due) = {}
  OBVIOUS
<1> HIDE DEF Open, Won, Used, Allowed
<1>types. /\ C(Open) \in Nat /\ C(Won) \in Nat /\ C(Paid) \in Nat
          /\ P(Won) \in Nat /\ P(Paid) \in Nat /\ U(Paid) \in Nat
          /\ U(Paid \ Due) \in Nat /\ U(Paid \intersect Due) \in Nat /\ R(Paid) \in Nat
  BY <1>sub, <1>fin, <1>int, SumNat
<1>1. Booked = C(Open) + C(Won) + C(Paid)
  <2>1. C((Open \union Won) \union Paid) = C(Open \union Won) + C(Paid)
    BY <1>sub, <1>fin, <1>int, <1>split, SumUnion
  <2>2. C(Open \union Won) = C(Open) + C(Won)
    BY <1>sub, <1>fin, <1>int, <1>split, SumUnion
  <2>3. Booked = C((Open \union Won) \union Paid)
    BY <1>split DEF Booked
  <2> QED BY <2>1, <2>2, <2>3, <1>types
<1>2. P(Paid) + U(Paid) <= C(Paid) + R(Paid)
  <2>1. SumFunctionOnSet(Used, Paid) = P(Paid) + U(Paid)
    BY <1>sub, <1>fin, <1>int, <1>use, SumOfSums
  <2>2. SumFunctionOnSet(Allowed, Paid) = C(Paid) + R(Paid)
    BY <1>sub, <1>fin, <1>int, <1>use, SumOfSums
  <2>3. SumFunctionOnSet(Used, Paid) <= SumFunctionOnSet(Allowed, Paid)
    BY <1>fin, <1>use, SumMonotone
  <2> QED BY <2>1, <2>2, <2>3
<1>3. P(Won) <= C(Won)
  BY <1>sub, <1>fin, <1>int, SumMonotone
<1>4. Credited <= U(Paid) /\ Credited \in Nat
  <2>1. U((Paid \ Due) \union (Paid \intersect Due)) = U(Paid \ Due) + U(Paid \intersect Due)
    BY <1>sub, <1>fin, <1>int, <1>cred, SumUnion
  <2>2. U(Paid) = U(Paid \ Due) + U(Paid \intersect Due)
    BY <1>cred, <2>1
  <2>3. Credited = U(Paid \ Due)
    BY DEF Credited
  <2> QED BY <2>2, <2>3, <1>types
<1>5. P(Delivered) = P(Won) + P(Paid)
  BY <1>sub, <1>fin, <1>int, <1>row, SumUnion
<1>6. Balances \in Int /\ Initially \in Int /\ Balances + Booked <= Initially + Credited
  BY SumTypes DEF BooksBalance
<1>7. Balances + C(Open) <= Initially - P(Delivered) + R(Paid)
  <2> HIDE DEF C, P, U, R
  <2> QED BY <1>1, <1>2, <1>3, <1>4, <1>5, <1>6, <1>types
<1> QED BY <1>7 DEF Solvent, Open

(* Under the lookups the code relies on the node stays solvent: balances   *)
(* and open reservations never exceed what the payments made have left,    *)
(* but for one sat of each payment that recovery settled with LND's fee    *)
(* rounded down where the live payment rounds it up.                       *)
THEOREM NodeStaysSolvent == ReliableLookups => (Spec => []Solvent)
<1>1. TypeOK /\ PaymentInv /\ FeesInv /\ BooksBalance => Solvent
  BY SolventState
<1> QED BY <1>1, TypeCorrect, InvariantHolds, FeesAreRounded, BooksAreBalanced, PTL
=============================================================================
