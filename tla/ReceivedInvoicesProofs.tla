------------------------ MODULE ReceivedInvoicesProofs ------------------------
(***************************************************************************)
(* Theorems about ReceivedInvoices, for any users, invoices, amounts,      *)
(* calls, streams and failures.                                            *)
(***************************************************************************)
EXTENDS ReceivedInvoices, SumTheorems

IInv == TypeOK /\ SingleInv

LEMMA NoneSettled == <<>> \in Seq(Invoices \ AtProvider) /\ Len(<<>>) = 0
OBVIOUS

LEMMA InitInv == Init => IInv
<1> SUFFICES ASSUME Init PROVE IInv
  OBVIOUS
<1> USE InvoiceAssumption DEF Init
<1>1. (CHOOSE i \in Invoices : TRUE) \in Invoices
  OBVIOUS
<1>2. inv \in [Calls -> Invoices] /\ payer \in [Calls -> Users]
  BY <1>1
<1>3. cursor \in [Streams -> Int] /\ \A s \in Streams : cursor[s] <= 0
  OBVIOUS
<1>4. /\ row \in [Invoices -> {"none", "unpaid", "internal", "network", "removed"}]
      /\ pc \in [Calls -> {"idle", "read", "locked", "fee"}]
      /\ phase \in {"down", "warming", "booting", "serving"}
  OBVIOUS
<1>5. arriving \in [Invoices -> 0..MaxCallbacks]
  OBVIOUS
<1>6. TypeOK
  BY <1>2, <1>3, <1>4, <1>5, NoneSettled DEF TypeOK
<1>7. CreditInv /\ IndexInv /\ CallInv
  BY <1>3, NoneSettled DEF CreditInv, IndexInv, CallInv
<1> QED BY <1>6, <1>7 DEF IInv, SingleInv

\* Payments only ever come on top of those that happened.
LEMMA Settling ==
    ASSUME IInv, NEW i \in Invoices, SettleAtLnd(i)
    PROVE  /\ settled' \in Seq(Invoices \ AtProvider)
           /\ Len(settled') = Len(settled) + 1 /\ Len(settled) \in Nat
           /\ Reached' = Reached \union {i}
<1>1. /\ settled \in Seq(Invoices \ AtProvider) /\ i \in Invoices \ AtProvider
      /\ settled' = Append(settled, i) /\ UNCHANGED delivered
  BY DEF IInv, TypeOK, SettleAtLnd, Issued
<1>2. /\ settled' \in Seq(Invoices \ AtProvider)
      /\ Len(settled') = Len(settled) + 1 /\ Len(settled) \in Nat
      /\ settled'[Len(settled) + 1] = i
      /\ \A k \in 1..Len(settled) : settled'[k] = settled[k]
  BY <1>1
<1>3. \A j \in Invoices : IsSettled(j)' <=> IsSettled(j) \/ j = i
  <2> SUFFICES ASSUME NEW j \in Invoices
               PROVE  IsSettled(j)' <=> IsSettled(j) \/ j = i
    OBVIOUS
  <2>1. IsSettled(j) => IsSettled(j)'
    <3> SUFFICES ASSUME NEW k \in 1..Len(settled), settled[k] = j
                 PROVE  IsSettled(j)'
      BY DEF IsSettled
    <3>1. k \in 1..Len(settled)' /\ settled'[k] = j
      BY <1>2
    <3> QED BY <3>1 DEF IsSettled
  <2>2. j = i => IsSettled(j)'
    <3>1. Len(settled) + 1 \in 1..Len(settled)'
      BY <1>2
    <3> QED BY <3>1, <1>2 DEF IsSettled
  <2>3. IsSettled(j)' => IsSettled(j) \/ j = i
    <3> SUFFICES ASSUME NEW k \in 1..Len(settled)', settled'[k] = j, j # i
                 PROVE  IsSettled(j)
      BY DEF IsSettled
    <3>1. k \in 1..Len(settled) /\ settled[k] = j
      BY <1>2
    <3> QED BY <3>1 DEF IsSettled
  <2> QED BY <2>1, <2>2, <2>3
<1> QED BY <1>1, <1>2, <1>3 DEF Reached

-----------------------------------------------------------------------------
(* What leaves each part of the invariant alone.                           *)

LEMMA ReachedSame == ASSUME UNCHANGED <<settled, delivered>> PROVE Reached' = Reached
BY DEF Reached, IsSettled

LEMMA CreditKept ==
    ASSUME IInv, Reached \subseteq Reached',
           \A i \in Invoices : arriving'[i] > 0 => arriving[i] > 0 \/ i \in Reached',
           \A i \in Invoices : row'[i] = "network" => row[i] = "network" \/ i \in Reached'
    PROVE  CreditInv'
BY DEF IInv, SingleInv, CreditInv

LEMMA IndexKept ==
    ASSUME IInv, settled' = settled,
           \A s \in Streams : cursor'[s] = cursor[s] \/ cursor'[s] <= Len(settled),
           known' = known \/ known' <= Len(settled)
    PROVE  IndexInv'
BY DEF IInv, SingleInv, IndexInv

LEMMA CallKept ==
    ASSUME IInv, UNCHANGED inv,
           \A c \in Calls : pc'[c] \in {"locked", "fee"} => pc'[c] = pc[c],
           \A i \in Invoices : row[i] \in {"internal", "network"} => row'[i] \in {"internal", "network"}
    PROVE  CallInv'
<1>1. \A c \in Calls : inv[c] \in Invoices
  BY DEF IInv, TypeOK
<1> QED BY <1>1 DEF IInv, SingleInv, CallInv

LEMMA SameRows ==
    ASSUME IInv, UNCHANGED <<row, arriving, settled, delivered>>
    PROVE  CreditInv'
BY CreditKept, ReachedSame

LEMMA SameLinks == ASSUME IInv, UNCHANGED <<settled, cursor, known>> PROVE IndexInv'
BY IndexKept

LEMMA SameCalls == ASSUME IInv, UNCHANGED <<row, pc, inv>> PROVE CallInv'
BY CallKept

-----------------------------------------------------------------------------
(* The invariant is inductive.                                             *)

LEMMA WorldStep == ASSUME IInv, NEW i \in Invoices, World(i) PROVE IInv'
<1> USE InvoiceAssumption DEF worldVars, linkVars, callVars
<1>1. CASE SettleAtLnd(i)
  <2>1. UNCHANGED <<balance, row, expired, delivered, phase, linkVars, arriving, callVars>>
    BY <1>1 DEF SettleAtLnd
  <2>2. TypeOK'
    BY <2>1, <1>1, Settling DEF IInv, TypeOK
  <2>3. CreditInv'
    BY <2>1, <1>1, Settling, CreditKept
  <2>4. IndexInv'
    <3>1. \A s \in Streams : cursor[s] \in Int
      BY DEF IInv, TypeOK
    <3>2. known \in Nat
      BY DEF IInv, TypeOK
    <3> QED BY <2>1, <3>1, <3>2, <1>1, Settling DEF IInv, SingleInv, IndexInv
  <2> QED BY <2>1, <2>2, <2>3, <2>4, SameCalls DEF IInv, SingleInv
<1>2. CASE Expire(i)
  <2>1. TypeOK' /\ UNCHANGED <<row, arriving, settled, delivered, cursor, known, pc, inv>>
    BY <1>2 DEF Expire, Issued, IInv, TypeOK
  <2> QED BY <2>1, SameRows, SameLinks, SameCalls DEF IInv, SingleInv
<1>3. CASE DeliverAtProvider(i)
  <2>1. TypeOK' /\ UNCHANGED <<row, arriving, settled, cursor, known, pc, inv>>
    BY <1>3 DEF DeliverAtProvider, Issued, IInv, TypeOK
  <2>2. Reached \subseteq Reached'
    BY <1>3, <2>1 DEF DeliverAtProvider, Reached, IsSettled
  <2> QED BY <2>1, <2>2, CreditKept, SameLinks, SameCalls DEF IInv, SingleInv
<1>4. CASE ProviderReports(i)
  <2>1. arriving' \in [Invoices -> 0..MaxCallbacks]
    BY <1>4 DEF ProviderReports, IInv, TypeOK
  <2>2. UNCHANGED <<balance, row, worldVars, phase, linkVars, callVars>>
    BY <1>4 DEF ProviderReports
  <2>3. Reached' = Reached /\ i \in Reached
    BY <1>4, <2>2, ReachedSame DEF ProviderReports, Reached
  <2>4. \A j \in Invoices : arriving'[j] > 0 => arriving[j] > 0 \/ j \in Reached'
    BY <1>4, <2>3 DEF ProviderReports, IInv, TypeOK
  <2>5. TypeOK'
    BY <2>1, <2>2 DEF IInv, TypeOK
  <2> QED BY <2>2, <2>3, <2>4, <2>5, CreditKept, SameLinks, SameCalls DEF IInv, SingleInv
<1> QED BY <1>1, <1>2, <1>3, <1>4 DEF World

LEMMA ResumeType ==
    ASSUME IInv
    PROVE  /\ Len(settled) \in Nat
           /\ ResumeAt \in Nat /\ ResumeAt <= Len(settled)
BY DEF IInv, TypeOK, SingleInv, IndexInv, ResumeAt

LEMMA LinkStep == ASSUME IInv, NEW s \in Streams, Link(s) PROVE IInv'
<1> USE InvoiceAssumption DEF worldVars, linkVars, callVars
<1>1. CASE InvoiceMessage(s)
  <2>1. PICK k \in Int, i \in Invoices :
          /\ k \in 1..Len(settled) /\ settled[k] = i /\ arriving[i] < MaxCallbacks
          /\ arriving' = [arriving EXCEPT ![i] = @ + 1]
          /\ cursor' = [cursor EXCEPT ![s] = k] /\ known' = k
    <3>1. /\ cursor[s] + 1 \in 1..Len(settled)
          /\ settled[cursor[s] + 1] \in Invoices
      <4>1. settled \in Seq(Invoices \ AtProvider) /\ cursor[s] \in 0..(Len(settled) - 1)
        BY <1>1 DEF InvoiceMessage, IInv, TypeOK
      <4>2. Len(settled) \in Nat /\ cursor[s] + 1 \in 1..Len(settled)
        BY <4>1
      <4> QED BY <4>1, <4>2
    <3> DEFINE k == cursor[s] + 1
    <3>2. k \in Int /\ k \in 1..Len(settled) /\ settled[k] \in Invoices
      BY <3>1
    <3>3. /\ arriving[settled[k]] < MaxCallbacks
          /\ arriving' = [arriving EXCEPT ![settled[k]] = @ + 1]
          /\ cursor' = [cursor EXCEPT ![s] = k] /\ known' = k
      BY <1>1 DEF InvoiceMessage
    <3> HIDE DEF k
    <3> QED BY <3>2, <3>3
  <2>2. UNCHANGED <<balance, row, worldVars, phase, retrying, callVars>>
    BY <1>1 DEF InvoiceMessage
  <2>3. arriving' \in [Invoices -> 0..MaxCallbacks]
    <3>1. arriving \in [Invoices -> 0..MaxCallbacks] /\ arriving[i] \in 0..MaxCallbacks
      BY DEF IInv, TypeOK
    <3>2. arriving[i] + 1 \in 0..MaxCallbacks
      BY <2>1, <3>1
    <3> QED BY <2>1, <3>1, <3>2
  <2>4. cursor' \in [Streams -> Int] /\ known' \in Nat
    BY <2>1 DEF IInv, TypeOK
  <2>5. TypeOK'
    BY <2>2, <2>3, <2>4 DEF IInv, TypeOK
  <2>6. i \in Reached /\ Reached' = Reached
    BY <2>1, <2>2, ReachedSame DEF Reached, IsSettled
  <2>7. CreditInv'
    <3>1. \A j \in Invoices : arriving'[j] > 0 => arriving[j] > 0 \/ j = i
      BY <2>1 DEF IInv, TypeOK
    <3> QED BY <3>1, <2>2, <2>6, CreditKept
  <2>8. IndexInv'
    <3>1. k <= Len(settled)
      BY <2>1, ResumeType
    <3>2. \A r \in Streams : cursor'[r] = cursor[r] \/ cursor'[r] = k
      BY <2>1 DEF IInv, TypeOK
    <3> QED BY <3>1, <3>2, <2>1, <2>2, IndexKept
  <2> QED BY <2>2, <2>5, <2>7, <2>8, SameCalls DEF IInv, SingleInv
<1>2. CASE StreamBreaks(s)
  <2>1. UNCHANGED <<balance, row, worldVars, phase, known, arriving, callVars>>
    BY <1>2 DEF StreamBreaks
  <2>2. TypeOK'
    BY <1>2, <2>1 DEF StreamBreaks, IInv, TypeOK
  <2>3. \A r \in Streams : cursor'[r] = cursor[r] \/ cursor'[r] <= Len(settled)
    BY <1>2, ResumeType DEF StreamBreaks, IInv, TypeOK
  <2> QED BY <2>1, <2>2, <2>3, SameRows, IndexKept, SameCalls DEF IInv, SingleInv
<1>3. CASE Rewarm(s) \/ Start(s)
  <2>1. /\ UNCHANGED <<balance, row, worldVars, known, arriving, callVars>>
        /\ cursor' = [cursor EXCEPT ![s] = ResumeAt]
        /\ phase' \in {"down", "warming", "booting", "serving"}
        /\ retrying' \in Nat
    BY <1>3 DEF Rewarm, Start, IInv, TypeOK
  <2>2. TypeOK'
    BY <2>1, ResumeType DEF IInv, TypeOK
  <2>3. \A r \in Streams : cursor'[r] = cursor[r] \/ cursor'[r] <= Len(settled)
    BY <2>1, ResumeType DEF IInv, TypeOK
  <2> QED BY <2>1, <2>2, <2>3, SameRows, IndexKept, SameCalls DEF IInv, SingleInv
<1> QED BY <1>1, <1>2, <1>3 DEF Link

LEMMA CreditStep == ASSUME IInv, NEW i \in Invoices, InvoicePaidCb(i) PROVE IInv'
<1> USE InvoiceAssumption DEF worldVars, linkVars, callVars
<1>1. UNCHANGED <<worldVars, phase, linkVars, callVars>>
  BY DEF InvoicePaidCb
<1>2. Reached' = Reached /\ i \in Reached
  BY <1>1, ReachedSame DEF InvoicePaidCb, IInv, SingleInv, CreditInv
<1>3. /\ arriving' \in [Invoices -> 0..MaxCallbacks]
      /\ \A j \in Invoices : arriving'[j] > 0 => arriving[j] > 0 \/ j \in Reached'
  <2>1. arriving[i] \in 1..MaxCallbacks /\ arriving \in [Invoices -> 0..MaxCallbacks]
    BY DEF InvoicePaidCb, IInv, TypeOK
  <2>2. arriving' = [arriving EXCEPT ![i] = arriving[i] - 1] /\ arriving[i] - 1 \in 0..MaxCallbacks
    BY <2>1 DEF InvoicePaidCb
  <2> QED BY <1>2, <2>1, <2>2
<1>4. \/ UNCHANGED <<balance, row>>
      \/ /\ CreditsNetwork(i)
         /\ row' = [row EXCEPT ![i] = "network"]
         /\ balance' = [balance EXCEPT ![OwnerOf[i]] = @ + Amount]
  BY DEF InvoicePaidCb
<1>5. balance' \in [Users -> Nat]
  BY <1>4 DEF IInv, TypeOK
<1>6. /\ row' \in [Invoices -> {"none", "unpaid", "internal", "network", "removed"}]
      /\ \A j \in Invoices : row'[j] = row[j] \/ (row'[j] = "network" /\ j = i)
  BY <1>4 DEF IInv, TypeOK
<1>7. TypeOK'
  BY <1>1, <1>3, <1>5, <1>6 DEF IInv, TypeOK
<1> QED BY <1>1, <1>2, <1>3, <1>6, <1>7, CreditKept, SameLinks, CallKept DEF IInv, SingleInv

\* An invoice a call may still sell owes no fee yet.
LEMMA UnpaidOwesNoFee ==
    ASSUME IInv, NEW c \in Calls, row[inv[c]] = "unpaid", NEW d \in Calls, pc[d] = "fee"
    PROVE  inv[d] # inv[c]
BY DEF IInv, SingleInv, CallInv

LEMMA PayInternalStep == ASSUME IInv, NEW c \in Calls, PayInternal(c) PROVE IInv'
<1> USE InvoiceAssumption DEF worldVars, linkVars
<1>1. PICK u \in Users, i \in Invoices :
        /\ u = payer[c] /\ i = inv[c] /\ pc[c] = "locked"
        /\ balance[u] >= Amount + ServiceFee(u) /\ row[i] = "unpaid"
        /\ row' = [row EXCEPT ![i] = "internal"]
        /\ pc' = [pc EXCEPT ![c] = IF u = Owner THEN "idle" ELSE "fee"]
        /\ balance' = [[balance EXCEPT ![u] = @ - Amount - ServiceFee(u)]
                         EXCEPT ![OwnerOf[i]] = @ + Amount]
  BY DEF PayInternal, Sells, IInv, TypeOK
<1>2. UNCHANGED <<worldVars, phase, linkVars, arriving, payer, inv>>
  BY DEF PayInternal
<1>3. ServiceFee(u) \in Nat /\ Amount \in Nat /\ OwnerOf[i] \in Users
  <2>1. ServiceFee(u) = 0 \/ ServiceFee(u) = SendFee
    BY DEF ServiceFee
  <2>2. SendFee \in Nat /\ Amount \in Nat /\ OwnerOf[i] \in Users
    OBVIOUS
  <2> QED BY <2>1, <2>2
<1>4. balance \in [Users -> Nat] /\ balance[u] - Amount - ServiceFee(u) \in Nat
  <2>1. balance \in [Users -> Nat] /\ balance[u] \in Nat
    BY DEF IInv, TypeOK
  <2>2. balance[u] >= Amount + ServiceFee(u)
    BY <1>1
  <2> QED BY <1>3, <2>1, <2>2
<1>5. [balance EXCEPT ![u] = @ - Amount - ServiceFee(u)] \in [Users -> Nat]
  BY <1>4
<1>6. balance' \in [Users -> Nat]
  BY <1>1, <1>3, <1>5
<1>7. /\ row' \in [Invoices -> {"none", "unpaid", "internal", "network", "removed"}]
      /\ pc' \in [Calls -> {"idle", "read", "locked", "fee"}]
  BY <1>1 DEF IInv, TypeOK
<1>8. TypeOK'
  BY <1>2, <1>6, <1>7 DEF IInv, TypeOK
<1>9. \A d \in Calls : pc[d] = "fee" => inv[d] # i
  BY <1>1, UnpaidOwesNoFee
<1>10. CallInv'
  <2>1. /\ \A d \in Calls \ {c} : pc'[d] = pc[d]
        /\ pc'[c] \in {"idle", "fee"}
        /\ \A d \in Calls : inv[d] \in Invoices
        /\ \A j \in Invoices : row'[j] = IF j = i THEN "internal" ELSE row[j]
    BY <1>1 DEF IInv, TypeOK
  <2>2. \A d \in Calls : pc'[d] = "fee" => row'[inv[d]] \in {"internal", "network"}
    BY <1>1, <2>1 DEF IInv, SingleInv, CallInv
  <2>3. ASSUME NEW d \in Calls, NEW e \in Calls,
               pc'[d] = pc'[e], pc'[d] \in {"locked", "fee"}, inv[d] = inv[e]
        PROVE  d = e
    BY <1>1, <1>9, <2>1, <2>3 DEF IInv, SingleInv, CallInv
  <2> QED BY <1>2, <2>2, <2>3 DEF CallInv
<1>11. CreditInv'
  BY <1>1, <1>2, ReachedSame, CreditKept DEF IInv, TypeOK
<1> QED BY <1>2, <1>8, <1>10, <1>11, SameLinks DEF IInv, SingleInv

LEMMA PayStep == ASSUME IInv, NEW c \in Calls, Pay(c) PROVE IInv'
<1> USE InvoiceAssumption DEF worldVars, linkVars
<1>1. ASSUME NEW u \in Users, NEW i \in Invoices, Begin(c, u, i) PROVE IInv'
  <2>1. UNCHANGED <<balance, row, worldVars, phase, linkVars, arriving>>
    BY <1>1 DEF Begin
  <2>2. TypeOK'
    BY <1>1, <2>1 DEF Begin, IInv, TypeOK
  <2>3. CallInv'
    BY <1>1, <2>1 DEF Begin, IInv, TypeOK, SingleInv, CallInv
  <2> QED BY <2>1, <2>2, <2>3, SameRows, SameLinks DEF IInv, SingleInv
<1>2. CASE TakeLock(c)
  <2>1. UNCHANGED <<balance, row, worldVars, phase, linkVars, arriving, payer, inv>>
    BY <1>2 DEF TakeLock
  <2>2. /\ pc' \in [Calls -> {"idle", "read", "locked", "fee"}]
        /\ pc'[c] \in {"idle", "locked"} /\ \A d \in Calls \ {c} : pc'[d] = pc[d]
        /\ pc'[c] = "locked" => \A d \in Calls : pc[d] = "locked" => inv[d] # inv[c]
    BY <1>2 DEF TakeLock, IsLocked, IInv, TypeOK
  <2>3. TypeOK'
    BY <2>1, <2>2 DEF IInv, TypeOK
  <2>4. CallInv'
    BY <2>1, <2>2 DEF IInv, SingleInv, CallInv
  <2> QED BY <2>1, <2>3, <2>4, SameRows, SameLinks DEF IInv, SingleInv
<1>3. CASE PayInternalFails(c) \/ CreditFee(c)
  <2>1. UNCHANGED <<row, worldVars, phase, linkVars, arriving, payer, inv>>
    BY <1>3 DEF PayInternalFails, CreditFee
  <2>2. /\ pc' \in [Calls -> {"idle", "read", "locked", "fee"}]
        /\ \A d \in Calls : pc'[d] \in {"locked", "fee"} => pc'[d] = pc[d]
    BY <1>3 DEF PayInternalFails, CreditFee, IInv, TypeOK
  <2>3. balance' \in [Users -> Nat]
    <3>1. balance' = balance \/ balance' = [balance EXCEPT ![Owner] = @ + SendFee]
      BY <1>3 DEF PayInternalFails, CreditFee
    <3>2. balance \in [Users -> Nat] /\ balance[Owner] + SendFee \in Nat
      BY DEF IInv, TypeOK
    <3> QED BY <3>1, <3>2
  <2>4. TypeOK'
    BY <2>1, <2>2, <2>3 DEF IInv, TypeOK
  <2> QED BY <2>1, <2>2, <2>4, SameRows, SameLinks, CallKept DEF IInv, SingleInv
<1> QED BY <1>1, <1>2, <1>3, PayInternalStep DEF Pay

LEMMA OtherStep ==
    ASSUME IInv,
           \/ \E i \in Invoices : NewInvoice(i)
           \/ Ready \/ CleanupOldUnpaidInvoices \/ Crash \/ UNCHANGED vars
    PROVE  IInv'
<1> USE InvoiceAssumption DEF worldVars, linkVars, callVars
<1>1. ASSUME \/ \E i \in Invoices : NewInvoice(i)
             \/ Ready \/ CleanupOldUnpaidInvoices \/ UNCHANGED vars
      PROVE  IInv'
  <2>1. UNCHANGED <<balance, worldVars, linkVars, arriving, callVars>>
    BY <1>1 DEF NewInvoice, Ready, CleanupOldUnpaidInvoices, vars
  <2>2. phase' \in {"down", "warming", "booting", "serving"}
    BY <1>1 DEF NewInvoice, Ready, CleanupOldUnpaidInvoices, vars, IInv, TypeOK
  <2>3. /\ row' \in [Invoices -> {"none", "unpaid", "internal", "network", "removed"}]
        /\ \A i \in Invoices : row'[i] = row[i] \/ (row[i] \in {"none", "unpaid"} /\ row'[i] # "network")
    <3>1. ASSUME NEW i \in Invoices, NewInvoice(i) PROVE <2>3
      BY <3>1 DEF NewInvoice, IInv, TypeOK
    <3>2. CASE CleanupOldUnpaidInvoices
      BY <3>2 DEF CleanupOldUnpaidInvoices, IInv, TypeOK
    <3>3. CASE Ready \/ UNCHANGED vars
      BY <3>3 DEF Ready, vars, IInv, TypeOK
    <3> QED BY <1>1, <3>1, <3>2, <3>3
  <2>4. TypeOK'
    BY <2>1, <2>2, <2>3 DEF IInv, TypeOK
  <2>5. CreditInv'
    BY <2>1, <2>3, ReachedSame, CreditKept
  <2>6. CallInv'
    BY <2>1, <2>3, CallKept
  <2> QED BY <2>1, <2>4, <2>5, <2>6, SameLinks DEF IInv, SingleInv
<1>2. CASE Crash
  <2>1. UNCHANGED <<balance, row, worldVars, payer, inv>>
    BY <1>2 DEF Crash
  <2>2. /\ cursor' \in [Streams -> Int] /\ \A s \in Streams : cursor'[s] = -1
        /\ known' = 0 /\ retrying' = 0 /\ phase' = "down"
        /\ arriving' \in [Invoices -> 0..MaxCallbacks] /\ \A i \in Invoices : arriving'[i] = 0
        /\ pc' \in [Calls -> {"idle"}] /\ \A c \in Calls : pc'[c] = "idle"
    BY <1>2 DEF Crash
  <2>3. TypeOK'
    BY <2>1, <2>2 DEF IInv, TypeOK
  <2>4. CreditInv'
    BY <2>1, <2>2, ReachedSame, CreditKept
  <2>5. IndexInv'
    BY <2>1, <2>2, ResumeType, IndexKept
  <2>6. CallInv'
    BY <2>1, <2>2 DEF CallInv
  <2> QED BY <2>3, <2>4, <2>5, <2>6 DEF IInv, SingleInv
<1> QED BY <1>1, <1>2

LEMMA NextStep == IInv /\ [Next]_vars => IInv'
<1> SUFFICES ASSUME IInv, [Next]_vars PROVE IInv'
  OBVIOUS
<1> QED BY WorldStep, LinkStep, CreditStep, PayStep, OtherStep DEF Next

LEMMA Invariance == Spec => []IInv
BY InitInv, NextStep, PTL DEF Spec

\* Type correctness; no balance is ever negative.
THEOREM TypeCorrect == Spec => []TypeOK
<1>1. IInv => TypeOK
  BY DEF IInv
<1> QED BY <1>1, Invariance, PTL

\* Only payments that reached the node are credited from the network, one call
\* works on an invoice at a time, and one call owes its fee to the owner.
THEOREM InvoicesAreSafe == Spec => []SingleInv
<1>1. IInv => SingleInv
  BY DEF IInv
<1> QED BY <1>1, Invariance, PTL

-----------------------------------------------------------------------------
(* Refinement of InvoiceLedger.                                            *)

LedgerStep == [Ledger!Next]_(Ledger!vars)

\* Steps that neither credit nor sell leave the ledger alone, but for payments
\* that arrive.
LEMMA QuietStep ==
    ASSUME UNCHANGED balance, Reached \subseteq Reached',
           SoldOrPaid' = SoldOrPaid, FeesDue' = FeesDue
    PROVE  LedgerStep
<1>1. Ledger!Arrive
  BY DEF Ledger!Arrive
<1> QED BY <1>1 DEF LedgerStep, Ledger!Next

LEMMA SameFees == ASSUME UNCHANGED <<pc, inv>> PROVE FeesDue' = FeesDue
BY DEF FeesDue

LEMMA SameSales == ASSUME UNCHANGED row PROVE SoldOrPaid' = SoldOrPaid
BY DEF SoldOrPaid

LEMMA WorldRefines ==
    ASSUME IInv, NEW i \in Invoices, World(i)
    PROVE  LedgerStep
<1>1. UNCHANGED <<balance, row, pc, inv>>
  BY DEF World, Expire, SettleAtLnd, DeliverAtProvider, ProviderReports, callVars
<1>2. Reached \subseteq Reached'
  <2>1. CASE SettleAtLnd(i)
    BY <2>1, Settling
  <2>2. CASE ~SettleAtLnd(i)
    BY <2>2 DEF World, Expire, DeliverAtProvider, ProviderReports, worldVars, Reached, IsSettled
  <2> QED BY <2>1, <2>2
<1> QED BY <1>1, <1>2, QuietStep, SameFees, SameSales

LEMMA LinkRefines == ASSUME NEW s \in Streams, Link(s) PROVE LedgerStep
<1>1. UNCHANGED <<balance, row, settled, delivered, pc, inv>>
  BY DEF Link, InvoiceMessage, StreamBreaks, Rewarm, Start, worldVars, callVars
<1> QED BY <1>1, QuietStep, ReachedSame, SameFees, SameSales

LEMMA CreditRefines == ASSUME IInv, NEW i \in Invoices, InvoicePaidCb(i) PROVE LedgerStep
<1>1. UNCHANGED <<settled, delivered, pc, inv>>
  BY DEF InvoicePaidCb, worldVars, callVars
<1>2. FeesDue' = FeesDue /\ Reached' = Reached
  BY <1>1, ReachedSame, SameFees
<1>3. CASE UNCHANGED <<balance, row>>
  BY <1>2, <1>3, QuietStep, SameSales
<1>4. CASE /\ CreditsNetwork(i)
           /\ row' = [row EXCEPT ![i] = "network"]
           /\ balance' = [balance EXCEPT ![OwnerOf[i]] = @ + Amount]
  <2>1. i \in Reached
    BY DEF InvoicePaidCb, IInv, SingleInv, CreditInv
  <2>2. SoldOrPaid[i] # "network" /\ SoldOrPaid' = [SoldOrPaid EXCEPT ![i] = "network"]
    BY <1>4 DEF CreditsNetwork, SoldOrPaid, IInv, TypeOK
  <2>3. Ledger!Receive(i)
    BY <1>2, <1>4, <2>1, <2>2 DEF Ledger!Receive
  <2> QED BY <2>3 DEF LedgerStep, Ledger!Next
<1> QED BY <1>3, <1>4 DEF InvoicePaidCb

LEMMA SaleRefines == ASSUME IInv, NEW c \in Calls, PayInternal(c) PROVE LedgerStep
<1>1. PICK u \in Users, i \in Invoices :
        /\ u = payer[c] /\ i = inv[c] /\ pc[c] = "locked"
        /\ balance[u] >= Amount + ServiceFee(u) /\ row[i] = "unpaid"
        /\ row' = [row EXCEPT ![i] = "internal"]
        /\ pc' = [pc EXCEPT ![c] = IF u = Owner THEN "idle" ELSE "fee"]
        /\ balance' = [[balance EXCEPT ![u] = @ - Amount - ServiceFee(u)]
                         EXCEPT ![OwnerOf[i]] = @ + Amount]
  BY DEF PayInternal, Sells, IInv, TypeOK
<1>2. UNCHANGED <<settled, delivered, inv>> /\ Reached' = Reached
  BY ReachedSame DEF PayInternal, worldVars
<1>3. SoldOrPaid[i] = "open" /\ SoldOrPaid' = [SoldOrPaid EXCEPT ![i] = "internal"]
  BY <1>1 DEF SoldOrPaid, IInv, TypeOK
<1>4. FeesDue' = IF u = Owner THEN FeesDue ELSE FeesDue \union {i}
  <2>1. /\ \A d \in Calls \ {c} : pc'[d] = pc[d]
        /\ pc[c] # "fee" /\ pc'[c] = IF u = Owner THEN "idle" ELSE "fee"
    BY <1>1 DEF IInv, TypeOK
  <2> QED BY <1>1, <1>2, <2>1 DEF FeesDue
<1>5. Ledger!Sell(u, i)
  BY <1>1, <1>2, <1>3, <1>4 DEF Ledger!Sell, ServiceFee
<1> QED BY <1>5 DEF LedgerStep, Ledger!Next

LEMMA FeeRefines == ASSUME IInv, NEW c \in Calls, CreditFee(c) PROVE LedgerStep
<1>1. UNCHANGED <<row, settled, delivered, inv>> /\ pc[c] = "fee"
  BY DEF CreditFee, worldVars
<1>2. Reached' = Reached /\ SoldOrPaid' = SoldOrPaid
  BY <1>1, ReachedSame, SameSales
<1>3. inv[c] \in FeesDue /\ inv[c] \in Invoices /\ FeesDue' = FeesDue \ {inv[c]}
  <2>1. \A d \in Calls : pc'[d] = "fee" <=> pc[d] = "fee" /\ d # c
    BY DEF CreditFee, IInv, TypeOK
  <2>2. \A d \in Calls : pc[d] = "fee" /\ inv[d] = inv[c] => d = c
    BY <1>1 DEF IInv, SingleInv, CallInv
  <2>3. inv[c] \in Invoices
    BY DEF IInv, TypeOK
  <2> QED BY <1>1, <2>1, <2>2, <2>3 DEF FeesDue
<1>4. CASE balance' = balance
  <2>1. Ledger!LoseFees
    BY <1>2, <1>3, <1>4 DEF Ledger!LoseFees
  <2> QED BY <2>1 DEF LedgerStep, Ledger!Next
<1>5. CASE balance' = [balance EXCEPT ![Owner] = @ + SendFee]
  <2>1. Ledger!CollectFee(inv[c])
    BY <1>2, <1>3, <1>5 DEF Ledger!CollectFee
  <2> QED BY <1>3, <2>1 DEF LedgerStep, Ledger!Next
<1> QED BY <1>4, <1>5 DEF CreditFee

LEMMA PayRefines == ASSUME IInv, NEW c \in Calls, Pay(c) PROVE LedgerStep
<1>1. CASE \/ \E u \in Users, i \in Invoices : Begin(c, u, i)
           \/ TakeLock(c) \/ PayInternalFails(c)
  <2>1. UNCHANGED <<balance, row, settled, delivered>>
    BY <1>1 DEF Begin, TakeLock, PayInternalFails, worldVars
  <2>2. \A d \in Calls : pc'[d] = "fee" <=> pc[d] = "fee"
    BY <1>1 DEF Begin, TakeLock, PayInternalFails, IInv, TypeOK
  <2>3. \A d \in Calls : pc[d] = "fee" => inv'[d] = inv[d]
    BY <1>1 DEF Begin, TakeLock, PayInternalFails, IInv, TypeOK
  <2>4. FeesDue' = FeesDue
    BY <2>2, <2>3 DEF FeesDue
  <2> QED BY <2>1, <2>4, QuietStep, ReachedSame, SameSales
<1> QED BY <1>1, SaleRefines, FeeRefines DEF Pay

LEMMA OtherRefines ==
    ASSUME IInv,
           \/ \E i \in Invoices : NewInvoice(i)
           \/ Ready \/ CleanupOldUnpaidInvoices \/ Crash \/ UNCHANGED vars
    PROVE  LedgerStep
<1>1. UNCHANGED <<balance, settled, delivered>> /\ Reached' = Reached
  BY ReachedSame DEF NewInvoice, Ready, CleanupOldUnpaidInvoices, Crash, vars, worldVars
<1>2. SoldOrPaid' = SoldOrPaid
  <2>1. \A i \in Invoices :
          row'[i] = row[i] \/ {row[i], row'[i]} \subseteq {"none", "unpaid", "removed"}
    BY DEF NewInvoice, Ready, CleanupOldUnpaidInvoices, Crash, vars, IInv, TypeOK
  <2> QED BY <2>1 DEF SoldOrPaid
<1>3. CASE Crash
  <2>1. FeesDue' = {}
    BY <1>3 DEF Crash, FeesDue
  <2>2. Ledger!LoseFees
    BY <1>1, <1>2, <2>1 DEF Ledger!LoseFees
  <2> QED BY <2>2 DEF LedgerStep, Ledger!Next
<1>4. CASE ~Crash
  <2>1. UNCHANGED <<pc, inv>>
    BY <1>4 DEF NewInvoice, Ready, CleanupOldUnpaidInvoices, vars, callVars
  <2> QED BY <1>1, <1>2, <2>1, QuietStep, SameFees
<1> QED BY <1>3, <1>4

LEMMA StepRefines == IInv /\ [Next]_vars => LedgerStep
<1> SUFFICES ASSUME IInv, [Next]_vars PROVE LedgerStep
  OBVIOUS
<1> QED BY WorldRefines, LinkRefines, CreditRefines, PayRefines, OtherRefines DEF Next

\* Settle streams, provider events, internal payments and restarts implement
\* InvoiceLedger: whatever they repeat, each invoice is sold once, credited from
\* the network once, and its fee is collected at most once.
THEOREM ImplementsInvoices == Spec => LedgerSpec
<1>1. Init => Ledger!Init
  <2> SUFFICES ASSUME Init PROVE Ledger!Init
    OBVIOUS
  <2>1. Reached = {} /\ FeesDue = {}
    BY NoneSettled DEF Init, Reached, IsSettled, FeesDue
  <2>2. SoldOrPaid = [i \in Invoices |-> "open"]
    BY DEF Init, SoldOrPaid
  <2> QED BY <2>1, <2>2 DEF Init, Ledger!Init
<1>2. IInv /\ [Next]_vars => [Ledger!Next]_(Ledger!vars)
  BY StepRefines DEF LedgerStep
<1>3. Init => IInv
  BY InitInv
<1>4. IInv /\ [Next]_vars => IInv'
  BY NextStep
<1> QED BY <1>1, <1>2, <1>3, <1>4, PTL DEF Spec, LedgerSpec, Ledger!Spec

-----------------------------------------------------------------------------
(* The books: every step of the ledger keeps them.                         *)

Balances == SumFunctionOnSet(balance, Users)
Initially == SumFunctionOnSet(InitBalance, Users)

LEMMA RowSets ==
    ASSUME IInv
    PROVE  /\ Network = {i \in Invoices : SoldOrPaid[i] = "network"}
           /\ Sold = {i \in Invoices : SoldOrPaid[i] # "open"}
           /\ FeesDue \subseteq Sold
<1>1. /\ Network = {i \in Invoices : SoldOrPaid[i] = "network"}
      /\ Sold = {i \in Invoices : SoldOrPaid[i] # "open"}
  BY DEF Network, Sold, SoldOrPaid
<1>2. FeesDue \subseteq Sold
  BY DEF IInv, SingleInv, CallInv, TypeOK, FeesDue, Sold
<1> QED BY <1>1, <1>2

LEMMA CountTypes ==
    \A S \in SUBSET Invoices : IsFiniteSet(S) /\ Cardinality(S) \in Int
BY FiniteAssumption, FS_Subset, FS_CardinalityType

\* One balance changes: the sum changes by as much.
Gains(u, d) == balance' = [balance EXCEPT ![u] = @ + d]

LEMMA BalanceMoves ==
    TypeOK => \A u \in Users, d \in Int : Gains(u, d) => Balances' = Balances + d
<1>1. ASSUME TypeOK, NEW u \in Users, NEW d \in Int, Gains(u, d)
      PROVE  Balances' = Balances + d
  <2>1. /\ \A v \in Users : balance[v] \in Int /\ balance'[v] \in Int
        /\ balance'[u] = balance[u] + d /\ \A v \in Users \ {u} : balance'[v] = balance[v]
    BY <1>1 DEF Gains, TypeOK
  <2>2. Balances' = Balances + (balance'[u] - balance[u])
    BY <2>1, SumChange, FiniteAssumption DEF Balances
  <2>3. Balances \in Int
    BY <2>1, SumInt, FiniteAssumption DEF Balances
  <2> QED BY <2>1, <2>2, <2>3
<1> QED BY <1>1

\* The payer of a sale loses the amount and the fee, the seller gains the amount.
LEMMA SaleMoves ==
    ASSUME TypeOK, TypeOK', NEW u \in Users, NEW i \in Invoices, Ledger!Sell(u, i)
    PROVE  Balances' = Balances - ServiceFee(u)
<1>1. PICK fee \in Int, w \in Users : fee = ServiceFee(u) /\ w = OwnerOf[i]
  BY InvoiceAssumption DEF ServiceFee
<1>2. PICK d \in Int : d = Amount + fee
  BY InvoiceAssumption
<1> DEFINE debited == [balance EXCEPT ![u] = @ - d]
<1>3. balance' = [debited EXCEPT ![w] = @ + Amount]
  <2>1. PICK have \in Int : have = balance[u]
    BY DEF TypeOK
  <2>2. balance[u] - Amount - fee = balance[u] - d
    BY <1>2, <2>1, InvoiceAssumption
  <2> QED BY <1>1, <2>2 DEF Ledger!Sell, ServiceFee
<1>4. /\ \A v \in Users : balance[v] \in Int /\ balance'[v] \in Int /\ debited[v] \in Int
      /\ debited[u] = balance[u] - d /\ \A v \in Users \ {u} : debited[v] = balance[v]
      /\ debited \in [Users -> Int]
  BY DEF TypeOK
<1> HIDE DEF debited
<1>5. balance'[w] = debited[w] + Amount /\ \A v \in Users \ {w} : balance'[v] = debited[v]
  BY <1>3, <1>4
<1>6. SumFunctionOnSet(debited, Users) = Balances + (debited[u] - balance[u])
  BY <1>4, SumChange, FiniteAssumption DEF Balances
<1>7. Balances' = SumFunctionOnSet(debited, Users) + (balance'[w] - debited[w])
  BY <1>4, <1>5, SumChange, FiniteAssumption DEF Balances
<1>8. Balances \in Int
  BY <1>4, SumInt, FiniteAssumption DEF Balances
<1> QED BY <1>1, <1>2, <1>4, <1>5, <1>6, <1>7, <1>8, InvoiceAssumption

Kept(sum, due, net, sold) ==
    /\ sum + SendFee * due <= Initially + Amount * net
    /\ sum + SendFee * sold >= Initially + Amount * net

LEMMA BooksStep ==
    ASSUME IInv, IInv', BooksInv, LedgerStep PROVE BooksInv'
<1>t. TypeOK /\ TypeOK'
  BY DEF IInv
<1>n. Balances \in Int /\ Initially \in Int /\ Amount \in Nat /\ SendFee \in Nat
  <2>1. \A u \in Users : balance[u] \in Int /\ InitBalance[u] \in Int
    BY <1>t, InvoiceAssumption DEF TypeOK
  <2> QED BY <2>1, SumInt, FiniteAssumption, InvoiceAssumption DEF Balances, Initially
<1>c. /\ FeesDue \subseteq Sold /\ Network \subseteq Sold
      /\ \A S \in {FeesDue, Network, Sold} :
            S \in SUBSET Invoices /\ IsFiniteSet(S) /\ Cardinality(S) \in Int
  BY RowSets, CountTypes DEF Network, Sold
<1>r. /\ Network = {j \in Invoices : SoldOrPaid[j] = "network"}
      /\ Network' = {j \in Invoices : SoldOrPaid'[j] = "network"}
      /\ Sold = {j \in Invoices : SoldOrPaid[j] # "open"}
      /\ Sold' = {j \in Invoices : SoldOrPaid'[j] # "open"}
  BY DEF Network, Sold, SoldOrPaid
<1>f. SoldOrPaid \in [Invoices -> {"open", "internal", "network"}]
  BY DEF SoldOrPaid
<1>p. PICK due \in Int, net \in Int, sold \in Int :
        due = Cardinality(FeesDue) /\ net = Cardinality(Network) /\ sold = Cardinality(Sold)
  BY <1>c
<1>b. Kept(Balances, due, net, sold)
  BY <1>p DEF BooksInv, Balances, Initially, Kept
<1>g. Kept(Balances', Cardinality(FeesDue'), Cardinality(Network'), Cardinality(Sold')) => BooksInv'
  BY DEF BooksInv, Balances, Initially, Kept
<1>1. ASSUME UNCHANGED <<balance, SoldOrPaid>>, FeesDue' \subseteq FeesDue PROVE BooksInv'
  <2>1. Network' = Network /\ Sold' = Sold /\ Balances' = Balances
    BY <1>1, <1>r DEF Balances
  <2>2. PICK less \in Int : less = Cardinality(FeesDue') /\ less <= due
    BY <1>1, <1>c, <1>p, FS_Subset, FS_CardinalityType
  <2>3. SendFee * less <= SendFee * due
    BY <2>2, <1>n
  <2>4. Kept(Balances, less, net, sold)
    BY <2>2, <2>3, <1>b, <1>n DEF Kept
  <2> QED BY <2>1, <2>2, <2>4, <1>g, <1>p
<1>2. ASSUME NEW i \in Invoices, Ledger!Receive(i) PROVE BooksInv'
  <2>1. Balances' = Balances + Amount
    <3>1. OwnerOf[i] \in Users /\ Amount \in Int /\ Gains(OwnerOf[i], Amount)
      BY <1>2, InvoiceAssumption DEF Ledger!Receive, Gains
    <3> QED BY <3>1, <1>t, BalanceMoves
  <2>2. i \notin Network /\ Network' = Network \union {i} /\ Sold' = Sold \union {i} /\ FeesDue' = FeesDue
    BY <1>2, <1>r, <1>f DEF Ledger!Receive
  <2>3. Cardinality(Network') = net + 1
    BY <2>2, <1>c, <1>p, FS_AddElement
  <2>4. PICK more \in Int : more = Cardinality(Sold') /\ sold <= more
    <3>1. CASE i \in Sold
      <4>1. Sold' = Sold
        BY <2>2, <3>1
      <4> QED BY <4>1, <1>p
    <3>2. CASE i \notin Sold
      <4>1. Cardinality(Sold') = sold + 1
        BY <2>2, <3>2, <1>c, <1>p, FS_AddElement
      <4> QED BY <4>1, <1>p
    <3> QED BY <3>1, <3>2
  <2>5. SendFee * sold <= SendFee * more /\ Amount * (net + 1) = Amount * net + Amount
    BY <2>4, <1>n
  <2>6. Kept(Balances + Amount, due, net + 1, more)
    BY <2>4, <2>5, <1>b, <1>n DEF Kept
  <2> QED BY <2>1, <2>2, <2>3, <2>4, <2>6, <1>g, <1>p
<1>3. ASSUME NEW i \in Invoices, Ledger!CollectFee(i) PROVE BooksInv'
  <2>1. Balances' = Balances + SendFee
    <3>1. Owner \in Users /\ SendFee \in Int /\ Gains(Owner, SendFee)
      BY <1>3, InvoiceAssumption DEF Ledger!CollectFee, Gains
    <3> QED BY <3>1, <1>t, BalanceMoves
  <2>2. i \in FeesDue /\ FeesDue' = FeesDue \ {i} /\ Network' = Network /\ Sold' = Sold
    BY <1>3, <1>r DEF Ledger!CollectFee
  <2>3. Cardinality(FeesDue') = due - 1
    BY <2>2, <1>c, <1>p, FS_RemoveElement
  <2>4. SendFee * (due - 1) = SendFee * due - SendFee
    BY <1>n
  <2>5. Kept(Balances + SendFee, due - 1, net, sold)
    BY <2>4, <1>b, <1>n DEF Kept
  <2> QED BY <2>1, <2>2, <2>3, <2>5, <1>g, <1>p
<1>4. ASSUME NEW u \in Users, NEW i \in Invoices, Ledger!Sell(u, i) PROVE BooksInv'
  <2>1. PICK fee \in Int : fee = ServiceFee(u) /\ Balances' = Balances - fee
    BY <1>4, <1>t, SaleMoves, InvoiceAssumption DEF ServiceFee
  <2>2. i \notin Sold /\ Sold' = Sold \union {i} /\ Network' = Network
    BY <1>4, <1>r, <1>f DEF Ledger!Sell
  <2>3. Cardinality(Sold') = sold + 1
    BY <2>2, <1>c, <1>p, FS_AddElement
  <2>4. SendFee * (sold + 1) = SendFee * sold + SendFee /\ SendFee * (due + 1) = SendFee * due + SendFee
    BY <1>n
  <2>5. CASE u = Owner
    <3>1. FeesDue' = FeesDue /\ fee = 0
      BY <1>4, <2>1, <2>5 DEF Ledger!Sell, ServiceFee
    <3>2. Kept(Balances - fee, due, net, sold + 1)
      BY <2>4, <3>1, <1>b, <1>n DEF Kept
    <3> QED BY <2>1, <2>2, <2>3, <3>1, <3>2, <1>g, <1>p
  <2>6. CASE u # Owner
    <3>1. FeesDue' = FeesDue \union {i} /\ fee = SendFee
      BY <1>4, <2>1, <2>6 DEF Ledger!Sell, ServiceFee
    <3>2. Cardinality(FeesDue') = due + 1
      BY <2>2, <3>1, <1>c, <1>p, FS_AddElement
    <3>3. Kept(Balances - fee, due + 1, net, sold + 1)
      BY <2>4, <3>1, <1>b, <1>n DEF Kept
    <3> QED BY <2>1, <2>2, <2>3, <3>2, <3>3, <1>g, <1>p
  <2> QED BY <2>5, <2>6
<1>5. CASE Ledger!Arrive \/ Ledger!LoseFees \/ UNCHANGED Ledger!vars
  BY <1>1, <1>5 DEF Ledger!Arrive, Ledger!LoseFees, Ledger!vars
<1> QED BY <1>2, <1>3, <1>4, <1>5 DEF LedgerStep, Ledger!Next

\* The balances never hold more than what was there and came in from the
\* network, and less only by the fees of sales, whatever events are repeated,
\* transactions fail, and restarts come in between.
THEOREM BooksAreKept == Spec => []InvoiceInv
<1>1. Init => BooksInv
  <2> SUFFICES ASSUME Init PROVE BooksInv
    OBVIOUS
  <2>1. FeesDue = {} /\ Network = {} /\ Sold = {} /\ balance = InitBalance
    BY DEF Init, FeesDue, Network, Sold
  <2>2. SumFunctionOnSet(InitBalance, Users) \in Int /\ Amount \in Int /\ SendFee \in Int
    BY SumInt, InvoiceAssumption, FiniteAssumption
  <2>3. Cardinality({}) = 0
    BY FS_EmptySet
  <2> QED BY <2>1, <2>2, <2>3 DEF BooksInv
<1>2. IInv /\ IInv' /\ BooksInv /\ [Next]_vars => BooksInv'
  BY StepRefines, BooksStep
<1>3. IInv /\ BooksInv => InvoiceInv
  BY DEF IInv, InvoiceInv
<1> QED BY <1>1, <1>2, <1>3, Invariance, PTL DEF Spec
=============================================================================
