------------------------ MODULE ProviderBalanceProofs ------------------------
(***************************************************************************)
(* Theorems about ProviderBalance, for any payments, receipts and amounts. *)
(***************************************************************************)
EXTENDS ProviderBalance, FiniteSetTheorems, TLAPS

LEMMA BalanceType ==
    ASSUME TypeOK, NEW S, S \subseteq Receipts PROVE BalanceWith(S) \in Balances
BY DEF BalanceWith, Balances, Taken, TypeOK, ProviderTypes

LEMMA CurrentType == ASSUME TypeOK PROVE Balance \in Balances
BY BalanceType DEF Balance, TypeOK, ProviderTypes

LEMMA NoBalanceType == ASSUME ProviderAssumption PROVE NoBalance \in Balances
BY DEF NoBalance, Balances, ProviderAssumption

LEMMA NoReadType == NoRow \in Rows /\ NoRead \in [row : Rows, counted : SUBSET Receipts]
BY DEF NoRow, NoRead, Rows

LEMMA OkType == ASSUME TypeOK, NEW p \in Pays PROVE Ok(p) \in Messages /\ Ok(p).kind = "ok" /\ Ok(p).of = p
BY CurrentType DEF Ok, Messages

LEMMA ErrorType ==
    ASSUME ProviderAssumption, NEW p \in Pays
    PROVE  Error(p) \in Messages /\ Error(p).kind = "error" /\ Error(p).of = p
BY NoBalanceType DEF Error, Messages

LEMMA InitTypes == Init => TypeOK
<1> SUFFICES ASSUME Init PROVE TypeOK
  OBVIOUS
<1> USE ProviderAssumption DEF Init, ProviderAssumption
<1>1. ProviderTypes
  BY DEF ProviderTypes
<1>2. MemoryTypes
  <2>1. obs \in Balances
    BY NoBalanceType
  <2>4. connected \in BOOLEAN /\ beacon \in BOOLEAN
    BY Zenon
  <2>2. call \in [Pays -> {"idle", "asked", "replied", "lapsed", "done"}]
    OBVIOUS
  <2>3. pending = {p \in Pays : call[p] \in {"asked", "replied", "lapsed"}}
    OBVIOUS
  <2> QED BY <2>1, <2>2, <2>3, <2>4 DEF MemoryTypes
<1>3. RowTypes
  <2>1. rugPulled \in BOOLEAN
    BY Zenon
  <2> QED BY <2>1, NoReadType DEF RowTypes
<1> QED BY <1>1, <1>2, <1>3 DEF TypeOK

LEMMA ProviderStepTypes == ASSUME TypeOK, ProviderStep PROVE TypeOK'
<1> USE ProviderAssumption DEF ProviderAssumption
<1> DEFINE Others == UNCHANGED <<memoryVars, checkVars, tracker, historyVars>>
<1>2. ASSUME Take PROVE ProviderTypes' /\ Others
  BY <1>2 DEF Take, TypeOK, ProviderTypes
<1>3. ASSUME NEW p \in Pays, Hold(p) PROVE ProviderTypes' /\ Others
  BY <1>3 DEF Hold, TypeOK, ProviderTypes
<1>4. ASSUME NEW p \in Pays, Fail(p) PROVE ProviderTypes' /\ Others
  BY <1>4, ErrorType DEF Fail, TypeOK, ProviderTypes
<1>5. ASSUME NEW p \in Pays, Deliver(p) PROVE ProviderTypes' /\ Others
  BY <1>5, OkType DEF Deliver, TypeOK, ProviderTypes
<1>6. ASSUME NEW p \in Pays, Doubt(p) PROVE ProviderTypes' /\ Others
  BY <1>6, ErrorType DEF Doubt, TypeOK, ProviderTypes
<1>7. ASSUME NEW p \in Pays, Resolve(p) PROVE ProviderTypes' /\ Others
  BY <1>7 DEF Resolve, TypeOK, ProviderTypes
<1>8. ASSUME NEW i \in Receipts, Receive(i) PROVE ProviderTypes' /\ Others
  <2>1. received' \subseteq Receipts
    BY <1>8 DEF Receive, TypeOK, ProviderTypes
  <2>2. [kind |-> "operation", of |-> i, bal |-> BalanceWith(received')] \in Messages
    BY <2>1, BalanceType DEF Messages
  <2> QED BY <1>8, <2>1, <2>2 DEF Receive, TypeOK, ProviderTypes
<1>9. ASSUME NEW m \in mail, Lose(m) PROVE ProviderTypes' /\ Others
  BY <1>9 DEF Lose, TypeOK, ProviderTypes, providerVars
<1>10. ProviderTypes' /\ Others
  BY <1>2, <1>3, <1>4, <1>5, <1>6, <1>7, <1>8, <1>9 DEF ProviderStep
<1> QED BY <1>10 DEF TypeOK, MemoryTypes, RowTypes, memoryVars, checkVars, historyVars

LEMMA AddRow == ASSUME tracker \in Rows, NEW n \in Int, Add(n) PROVE tracker' \in Rows
BY DEF Add, Rows

LEMMA SettleTypes ==
    ASSUME TypeOK, NEW p \in Pays, Settle(p)
    PROVE  /\ tracker' \in Rows /\ booked' \subseteq Pays
           /\ call' \in [Pays -> {"idle", "asked", "replied", "lapsed", "done"}]
           /\ pending' = {q \in Pays : call'[q] \in {"asked", "replied", "lapsed"}}
           /\ UNCHANGED <<base, early, counted>>
BY AddRow DEF Settle, TypeOK, MemoryTypes, RowTypes

LEMMA ClientStepTypes == ASSUME TypeOK, ClientStep PROVE TypeOK'
<1>1. ProviderTypes'
  <2>1. UNCHANGED providerVars /\ mail' \subseteq mail
    BY DEF ClientStep, Connect, LoseBeacon, SeeBeacon, Ask, Finalize, FinalizeThrows,
           FinalizeUndone, UserPaid, SystemPaid, Throws, CountReceipt
  <2> QED BY <2>1 DEF TypeOK, ProviderTypes, providerVars
<1>2. CASE Connect \/ LoseBeacon \/ SeeBeacon
  BY <1>1, <1>2, CurrentType DEF Connect, LoseBeacon, SeeBeacon, TypeOK, MemoryTypes, RowTypes,
     checkVars, historyVars
<1>3. ASSUME NEW p \in Pays, Ask(p) PROVE TypeOK'
  BY <1>1, <1>3 DEF Ask, TypeOK, MemoryTypes, RowTypes, checkVars, historyVars
<1>4. ASSUME NEW p \in Pays, Finalize(p) PROVE TypeOK'
  BY <1>1, <1>4, SettleTypes DEF Finalize, TypeOK, MemoryTypes, RowTypes, checkVars
<1>5. ASSUME NEW p \in Pays, FinalizeThrows(p) \/ FinalizeUndone(p) PROVE TypeOK'
  BY <1>1, <1>5 DEF FinalizeThrows, FinalizeUndone, TypeOK, MemoryTypes, RowTypes, checkVars,
     historyVars
<1>6. ASSUME NEW m \in mail, UserPaid(m) PROVE TypeOK'
  <2>1. m.of \in Pays /\ m.bal \in Balances
    BY <1>6 DEF UserPaid, TypeOK, ProviderTypes, Messages
  <2> QED BY <1>1, <1>6, <2>1 DEF UserPaid, TypeOK, MemoryTypes, RowTypes, checkVars, historyVars
<1>7. ASSUME NEW m \in mail, SystemPaid(m) PROVE TypeOK'
  <2>1. m.of \in Pays /\ m.bal \in Balances
    BY <1>7 DEF SystemPaid, TypeOK, ProviderTypes, Messages
  <2> QED BY <1>1, <1>7, <2>1, SettleTypes DEF SystemPaid, TypeOK, MemoryTypes, RowTypes, checkVars
<1>8. ASSUME NEW m \in mail, Throws(m) PROVE TypeOK'
  <2>1. m.of \in Pays
    BY <1>8 DEF Throws, TypeOK, ProviderTypes
  <2> QED BY <1>1, <1>8, <2>1 DEF Throws, TypeOK, MemoryTypes, RowTypes, checkVars, historyVars
<1>9. ASSUME NEW m \in mail, CountReceipt(m) PROVE TypeOK'
  <2>1. m.of \in Receipts /\ m.bal \in Balances
    BY <1>9 DEF CountReceipt, TypeOK, ProviderTypes, Messages
  <2>2. tracker' \in Rows
    BY <1>9, AddRow DEF CountReceipt, TypeOK, RowTypes
  <2> QED BY <1>1, <1>9, <2>1, <2>2 DEF CountReceipt, TypeOK, MemoryTypes, RowTypes, checkVars
<1> QED BY <1>2, <1>3, <1>4, <1>5, <1>6, <1>7, <1>8, <1>9 DEF ClientStep

LEMMA Sizes ==
    ASSUME TypeOK
    PROVE  /\ Worth(obs) \in Int /\ Cardinality(pending) \in Nat
           /\ TrackedBalance \in Int
<1>1. IsFiniteSet(Pays) /\ IsFiniteSet(Receipts)
  BY ProviderAssumption, FS_Union DEF ProviderAssumption, Pays
<1>2. obs.got \subseteq Receipts /\ obs.out \subseteq Pays /\ obs.lost \in Nat /\ pending \subseteq Pays
  BY ProviderAssumption DEF TypeOK, MemoryTypes, Balances, ProviderAssumption
<1>3. Cardinality(obs.got) \in Nat /\ Cardinality(obs.out) \in Nat /\ Cardinality(pending) \in Nat
  BY <1>1, <1>2, FS_Subset, FS_CardinalityType
<1> QED BY <1>2, <1>3, ProviderAssumption DEF Worth, TrackedBalance, ProviderAssumption

LEMMA CheckStepTypes == ASSUME TypeOK, CheckStep PROVE TypeOK'
<1>1. ProviderTypes' /\ MemoryTypes'
  <2>1. UNCHANGED <<providerVars, mail, memoryVars>>
    BY DEF CheckStep, ReadRow, NotReady, StartTracking, CreateRow, Judge, FlagDisruption
  <2> QED BY <2>1 DEF TypeOK, ProviderTypes, MemoryTypes, providerVars, memoryVars
<1>2. CASE ReadRow
  BY <1>1, <1>2 DEF ReadRow, TypeOK, RowTypes, historyVars
<1>3. CASE NotReady
  BY <1>1, <1>3, NoReadType DEF NotReady, TypeOK, RowTypes, historyVars
<1>4. CASE StartTracking
  <2>1. read'.row \in Rows /\ read'.counted = read.counted /\ read' \in [row : Rows, counted : SUBSET Receipts]
    BY <1>4, Sizes DEF StartTracking, Rows, TypeOK, RowTypes
  <2>2. obs.got \subseteq Receipts /\ obs.out \subseteq Pays /\ obs.lost \in 0..MaxLoss /\ pending \subseteq Pays
    BY DEF TypeOK, MemoryTypes, Balances
  <2> QED BY <1>1, <1>4, <2>1, <2>2 DEF StartTracking, TypeOK, RowTypes
<1>7. CASE CreateRow
  <2>1. tracker' \in Rows
    BY <1>7 DEF CreateRow, Rows, TypeOK, RowTypes
  <2> QED BY <1>1, <1>7, <2>1, NoReadType DEF CreateRow, TypeOK, RowTypes, historyVars
<1>5. CASE Judge
  <2>1. rugPulled' \in BOOLEAN
    BY <1>5 DEF Judge
  <2>2. check' \in {"idle", "flag"} /\ read' \in {NoRead, read}
    BY <1>5 DEF Judge
  <2> QED BY <1>1, <1>5, <2>1, <2>2, NoReadType DEF Judge, TypeOK, RowTypes, historyVars
<1>6. CASE FlagDisruption
  BY <1>1, <1>6, NoReadType DEF FlagDisruption, TypeOK, RowTypes, historyVars, Rows
<1> QED BY <1>2, <1>3, <1>4, <1>5, <1>6, <1>7 DEF CheckStep

LEMMA RestartTypes == ASSUME TypeOK, Restart PROVE TypeOK'
<1>1. ProviderTypes'
  BY DEF Restart, TypeOK, ProviderTypes, providerVars
<1>2. MemoryTypes'
  BY NoBalanceType, ProviderAssumption DEF Restart, TypeOK, MemoryTypes, Forgotten
<1>3. RowTypes'
  BY NoReadType DEF Restart, TypeOK, RowTypes, historyVars
<1> QED BY <1>1, <1>2, <1>3 DEF TypeOK

LEMMA StutterTypes == ASSUME TypeOK, UNCHANGED vars PROVE TypeOK'
BY DEF TypeOK, ProviderTypes, MemoryTypes, RowTypes, vars, providerVars, memoryVars, checkVars,
       historyVars

LEMMA StepTypes == TypeOK /\ [Next]_vars => TypeOK'
BY ProviderStepTypes, ClientStepTypes, CheckStepTypes, RestartTypes, StutterTypes DEF Next

-----------------------------------------------------------------------------
(* The books.                                                              *)

NotIdle == {p \in Pays : call[p] # "idle"}

\* The provider knows only of payments that were asked for.
CallInv ==
    /\ Taken \subseteq NotIdle /\ obs.out \subseteq NotIdle
    /\ \A m \in mail : m.bal.out \subseteq NotIdle

\* A receipt is reported once, and counted twice only after its report.
MailInv ==
    /\ early \subseteq Pays \union received
    /\ \A m \in mail : m.kind = "operation" =>
          /\ m.of \in received /\ m.of \notin early
          /\ \A n \in mail : n.kind = "operation" /\ n.of = m.of => n = m

\* A payment taken from the row is over.
BookedInv == \A p \in booked : call[p] = "done"

\* The row holds what its history says, and so does the row a check has read or
\* is about to create.
Expected(E, C, B) == Initial - base + Cardinality(E) + Cardinality(C) - Cardinality(B)
Books == tracker.opened => tracker.balance = Expected(early, counted, booked)
ReadInv ==
    check = "read" =>
        /\ read.row.opened = tracker.opened
        /\ tracker.opened =>
              \E E \in SUBSET early : read.row.balance = Expected(E, read.counted, booked)
CreateInv ==
    check = "create" =>
        ~tracker.opened /\ read.row.balance = Expected(early, counted, booked)

IInv == TypeOK /\ CallInv /\ MailInv /\ BookedInv /\ Books /\ ReadInv /\ CreateInv

LEMMA Finite ==
    ASSUME TypeOK
    PROVE  /\ IsFiniteSet(Pays) /\ IsFiniteSet(Receipts)
           /\ \A S \in SUBSET (Pays \union Receipts) : IsFiniteSet(S) /\ Cardinality(S) \in Nat
<1>1. IsFiniteSet(Pays) /\ IsFiniteSet(Receipts)
  BY ProviderAssumption, FS_Union DEF ProviderAssumption, Pays
<1>2. IsFiniteSet(Pays \union Receipts)
  BY <1>1, FS_Union
<1> QED BY <1>1, <1>2, FS_Subset, FS_CardinalityType

LEMMA InitBooks == Init => CallInv /\ MailInv /\ BookedInv /\ Books /\ ReadInv /\ CreateInv
BY DEF Init, CallInv, MailInv, BookedInv, Books, ReadInv, CreateInv, Taken, NoBalance, NoRow

LEMMA ProviderStepBooks == ASSUME IInv, ProviderStep PROVE IInv'
<1> DEFINE Others == UNCHANGED <<memoryVars, checkVars, tracker, historyVars>>
           Calls == /\ Taken' \subseteq NotIdle
                    /\ \A m \in mail' : m.bal.out \subseteq NotIdle
           Mails == /\ received \subseteq received'
                    /\ \A m \in mail' : m.kind = "operation" => m \in mail
<1> USE DEF CallInv
<1>0. TypeOK /\ CallInv /\ TypeOK'
  BY ProviderStepTypes DEF IInv
<1>1. Balance.out = Taken /\ NoBalance.out = {}
  BY DEF Balance, BalanceWith, NoBalance
<1>2. \A p \in Pays : call[p] = "asked" \/ verdict[p] \in {"held", "unsure"} => p \in NotIdle
  BY <1>0 DEF NotIdle, Taken
<1>3. ASSUME Take PROVE Others /\ Calls /\ Mails
  BY <1>0, <1>3 DEF Take, Taken
<1>4. ASSUME NEW p \in Pays, Hold(p) PROVE Others /\ Calls /\ Mails
  BY <1>0, <1>2, <1>4 DEF Hold, Taken, TypeOK, ProviderTypes
<1>5. ASSUME NEW p \in Pays, Fail(p) PROVE Others /\ Calls /\ Mails
  BY <1>0, <1>1, <1>2, <1>5 DEF Fail, Error, Taken, TypeOK, ProviderTypes
<1>6. ASSUME NEW p \in Pays, Deliver(p) PROVE Others /\ Calls /\ Mails
  BY <1>0, <1>1, <1>2, <1>6 DEF Deliver, Ok, Taken, TypeOK, ProviderTypes
<1>7. ASSUME NEW p \in Pays, Doubt(p) PROVE Others /\ Calls /\ Mails
  BY <1>0, <1>1, <1>2, <1>7 DEF Doubt, Error, Taken, TypeOK, ProviderTypes
<1>8. ASSUME NEW p \in Pays, Resolve(p) PROVE Others /\ Calls /\ Mails
  BY <1>0, <1>2, <1>8 DEF Resolve, Taken, TypeOK, ProviderTypes
<1>9. ASSUME NEW m \in mail, Lose(m) PROVE Others /\ Calls /\ Mails
  BY <1>0, <1>9 DEF Lose, Taken, providerVars
<1>10. ASSUME NEW i \in Receipts, Receive(i) PROVE Others /\ Calls /\ MailInv'
  <2> DEFINE m == [kind |-> "operation", of |-> i, bal |-> BalanceWith(received')]
  <2>1. i \notin received /\ received' = received \union {i} /\ mail' = mail \union {m} /\ Others
        /\ Taken' = Taken
    BY <1>10 DEF Receive, Taken
  <2>2. m.bal.out = Taken /\ m.kind = "operation" /\ m.of = i
    BY DEF BalanceWith
  <2>3. Calls
    BY <1>0, <2>1, <2>2
  <2>4. i \notin early /\ \A n \in mail : n.kind = "operation" => n.of # i
    BY <2>1, ProviderAssumption DEF IInv, MailInv, ProviderAssumption
  <2>5. early' = early
    BY <2>1 DEF historyVars
  <2> HIDE DEF m
  <2>6. MailInv'
    BY <2>1, <2>2, <2>4, <2>5 DEF IInv, MailInv
  <2> QED BY <2>1, <2>3, <2>6
<1>11. Others /\ Calls
  BY <1>3, <1>4, <1>5, <1>6, <1>7, <1>8, <1>9, <1>10 DEF ProviderStep
<1>12. Mails \/ MailInv'
  BY <1>3, <1>4, <1>5, <1>6, <1>7, <1>8, <1>9, <1>10 DEF ProviderStep
<1>13. MailInv'
  <2>1. CASE Mails
    BY <1>11, <2>1 DEF IInv, MailInv, historyVars
  <2> QED BY <1>12, <2>1
<1>14. CallInv'
  <2>1. NotIdle' = NotIdle /\ obs' = obs
    BY <1>11 DEF NotIdle, memoryVars
  <2> QED BY <1>0, <1>11, <2>1
<1>15. BookedInv' /\ Books' /\ ReadInv' /\ CreateInv'
  BY <1>11 DEF IInv, BookedInv, Books, ReadInv, CreateInv, Expected, memoryVars, checkVars, historyVars
<1> QED BY <1>0, <1>13, <1>14, <1>15 DEF IInv

LEMMA SettleBooks ==
    ASSUME IInv, NEW p \in Pays, call[p] \in {"asked", "replied"}, Settle(p)
    PROVE  BookedInv' /\ Books' /\ NotIdle \subseteq NotIdle'
<1>0. TypeOK
  BY DEF IInv
<1>1. p \notin booked
  BY DEF IInv, BookedInv
<1>2. call' = [call EXCEPT ![p] = "done"] /\ booked' \in {booked, booked \union {p}}
  BY DEF Settle
<1>3. BookedInv' /\ NotIdle \subseteq NotIdle'
  BY <1>0, <1>2 DEF IInv, BookedInv, NotIdle, TypeOK, MemoryTypes, RowTypes
<1>4. CASE tracker.opened
  <2>1. booked' = booked \union {p} /\ tracker' = [tracker EXCEPT !.balance = @ + (-1)]
        /\ UNCHANGED <<base, early, counted>>
    BY <1>4 DEF Settle, Add
  <2>2. IsFiniteSet(booked)
    BY <1>0, Finite DEF TypeOK, RowTypes
  <2>3. Cardinality(booked') = Cardinality(booked) + 1 /\ Cardinality(booked) \in Nat
    BY <1>1, <2>1, <2>2, FS_AddElement, FS_CardinalityType
  <2>4. base \in Int /\ Initial \in Int /\ Cardinality(early) \in Int /\ Cardinality(counted) \in Int
    BY <1>0, Finite, ProviderAssumption DEF TypeOK, RowTypes, ProviderAssumption
  <2>5. tracker'.balance = tracker.balance - 1 /\ tracker.balance \in Int
    BY <1>0, <2>1 DEF TypeOK, RowTypes, Rows
  <2>6. tracker.balance = Expected(early, counted, booked)
    BY <1>4 DEF IInv, Books
  <2>7. tracker'.balance = Expected(early, counted, booked')
    BY <2>3, <2>4, <2>5, <2>6 DEF Expected
  <2>8. Expected(early, counted, booked)' = Expected(early, counted, booked')
    BY <2>1 DEF Expected
  <2> QED BY <1>3, <2>7, <2>8 DEF Books
<1>5. CASE ~tracker.opened
  BY <1>3, <1>5 DEF Settle, Add, Books
<1> QED BY <1>4, <1>5

LEMMA ClientStepBooks == ASSUME IInv, ClientStep PROVE IInv'
<1> DEFINE Calls == /\ verdict' = verdict /\ received' = received /\ mail' \subseteq mail
                    /\ NotIdle \subseteq NotIdle' /\ obs'.out \subseteq NotIdle
           Kept == UNCHANGED <<tracker, historyVars>>
           Done == \A p \in Pays : call[p] = "done" => call'[p] = "done"
<1>0. TypeOK /\ CallInv /\ TypeOK'
  BY ClientStepTypes DEF IInv
<1>2. ASSUME NEW p \in Pays, Ask(p) PROVE Calls /\ Kept /\ Done /\ UNCHANGED checkVars
  BY <1>0, <1>2 DEF Ask, CallInv, NotIdle, TypeOK, MemoryTypes, providerVars
<1>3. ASSUME NEW p \in Pays, FinalizeThrows(p) \/ FinalizeUndone(p)
      PROVE  Calls /\ Kept /\ Done /\ UNCHANGED checkVars
  BY <1>0, <1>3 DEF FinalizeThrows, FinalizeUndone, CallInv, NotIdle, TypeOK, MemoryTypes, providerVars
<1>4. ASSUME NEW m \in mail, UserPaid(m) \/ Throws(m) PROVE Calls /\ Kept /\ Done /\ UNCHANGED checkVars
  <2>1. m.of \in Pays
    BY <1>0, <1>4 DEF UserPaid, Throws, TypeOK, ProviderTypes
  <2> QED BY <1>0, <1>4, <2>1 DEF UserPaid, Throws, CallInv, NotIdle, TypeOK, MemoryTypes, providerVars
<1>5. ASSUME Calls PROVE CallInv'
  <2>1. Taken' = Taken
    BY <1>5 DEF Taken
  <2> QED BY <1>0, <1>5, <2>1 DEF CallInv
<1>6. ASSUME Calls, UNCHANGED early PROVE MailInv'
  BY <1>6 DEF IInv, MailInv
<1>7. ASSUME Calls, Kept, Done, UNCHANGED checkVars PROVE IInv'
  <2>1. BookedInv'
    BY <1>0, <1>7 DEF IInv, BookedInv, TypeOK, RowTypes, historyVars
  <2>2. Books' /\ ReadInv' /\ CreateInv'
    BY <1>7 DEF IInv, Books, ReadInv, CreateInv, Expected, checkVars, historyVars
  <2> QED BY <1>0, <1>5, <1>6, <1>7, <2>1, <2>2 DEF IInv, historyVars
<1>8. ASSUME NEW p \in Pays, call[p] \in {"asked", "replied"}, Settle(p), Calls, UNCHANGED checkVars
      PROVE  IInv'
  <2>1. UNCHANGED early /\ check # "read"
    BY <1>8 DEF Settle
  <2>2. ReadInv'
    BY <1>8, <2>1 DEF ReadInv, checkVars
  <2>3. CreateInv'
    <3>1. CASE ~tracker.opened
      BY <1>8, <3>1 DEF IInv, CreateInv, Settle, Add, Expected, checkVars
    <3>2. CASE tracker.opened
      BY <1>8, <3>2 DEF IInv, CreateInv, checkVars
    <3> QED BY <3>1, <3>2
  <2> QED BY <1>0, <1>5, <1>6, <1>8, <2>1, <2>2, <2>3, SettleBooks DEF IInv
<1>9. ASSUME NEW p \in Pays, Finalize(p) PROVE IInv'
  <2>1. call[p] \in {"asked", "replied"} /\ Settle(p) /\ UNCHANGED checkVars
    BY <1>9 DEF Finalize
  <2>2. Calls
    BY <1>0, <1>9, <2>1, SettleBooks DEF Finalize, CallInv, providerVars
  <2> QED BY <1>8, <2>1, <2>2
<1>10. ASSUME NEW m \in mail, SystemPaid(m) PROVE IInv'
  <2>1. m.of \in Pays /\ call[m.of] \in {"asked", "replied"} /\ Settle(m.of) /\ UNCHANGED checkVars
    BY <1>10 DEF SystemPaid, Pays
  <2>2. Calls
    BY <1>0, <1>10, <2>1, SettleBooks DEF SystemPaid, CallInv, providerVars
  <2> QED BY <1>8, <2>1, <2>2
<1>11. ASSUME NEW m \in mail, CountReceipt(m) PROVE IInv'
  <2>1. /\ m.kind = "operation" /\ m.of \in Receipts /\ m.of \in received /\ m.of \notin early
        /\ \A n \in mail : n.kind = "operation" /\ n.of = m.of => n = m
    BY <1>0, <1>11 DEF CountReceipt, IInv, MailInv, TypeOK, ProviderTypes
  <2>2. Calls /\ UNCHANGED <<checkVars, base, booked, call>>
    BY <1>0, <1>11 DEF CountReceipt, CallInv, NotIdle, providerVars
  <2>3. CallInv' /\ BookedInv'
    BY <1>5, <2>2 DEF IInv, BookedInv
  <2>4. early' \in {early, early \union {m.of}} /\ mail' = mail \ {m}
    BY <1>11 DEF CountReceipt
  <2>5. MailInv'
    BY <2>1, <2>2, <2>4 DEF IInv, MailInv
  <2>6. IsFiniteSet(early) /\ IsFiniteSet(counted) /\ Cardinality(booked) \in Int
        /\ base \in Int /\ Initial \in Int
        /\ Cardinality(early) \in Int /\ Cardinality(counted) \in Int
    BY <1>0, Finite, ProviderAssumption DEF TypeOK, RowTypes, ProviderAssumption
  <2>7. CASE ~tracker.opened
    <3>1. UNCHANGED <<tracker, counted, early>>
      BY <1>11, <2>7 DEF CountReceipt, Add
    <3>2. Books' /\ ReadInv' /\ CreateInv'
      BY <2>2, <2>7, <3>1 DEF IInv, Books, ReadInv, CreateInv, Expected, checkVars
    <3> QED BY <1>0, <2>3, <2>5, <3>2 DEF IInv
  <2>8. CASE tracker.opened
    <3>1. /\ tracker' = [tracker EXCEPT !.balance = @ + 1]
          /\ counted' = counted \union {m.of}
          /\ early' = IF m.of \in counted THEN early \union {m.of} ELSE early
      BY <1>11, <2>8 DEF CountReceipt, Add
    <3>2. tracker'.balance = tracker.balance + 1 /\ tracker'.opened = tracker.opened
      BY <1>0, <3>1 DEF TypeOK, RowTypes, Rows
    <3>3. Cardinality(counted') + Cardinality(early') = Cardinality(counted) + Cardinality(early) + 1
      <4>1. CASE m.of \in counted
        <5>1. counted' = counted /\ early' = early \union {m.of}
          BY <3>1, <4>1
        <5>2. Cardinality(early \union {m.of}) = Cardinality(early) + 1
          BY <2>1, <2>6, FS_AddElement
        <5> QED BY <2>6, <5>1, <5>2
      <4>2. CASE m.of \notin counted
        <5>1. counted' = counted \union {m.of} /\ early' = early
          BY <3>1, <4>2
        <5>2. Cardinality(counted \union {m.of}) = Cardinality(counted) + 1
          BY <2>6, <4>2, FS_AddElement
        <5> QED BY <2>6, <5>1, <5>2
      <4> QED BY <4>1, <4>2
    <3>4. Cardinality(counted') \in Int /\ Cardinality(early') \in Int
      BY <1>0, Finite DEF TypeOK, RowTypes
    <3>5. tracker.balance = Expected(early, counted, booked)
      BY <2>8 DEF IInv, Books
    <3>6. tracker'.balance = Initial - base + Cardinality(early') + Cardinality(counted') - Cardinality(booked)
      BY <2>6, <3>2, <3>3, <3>4, <3>5 DEF Expected
    <3>7. Books'
      BY <2>2, <3>6 DEF Books, Expected
    <3>8. ReadInv' /\ CreateInv'
      BY <2>2, <2>4, <2>8, <3>2 DEF IInv, ReadInv, CreateInv, Expected, checkVars
    <3> QED BY <1>0, <2>3, <2>5, <3>7, <3>8 DEF IInv
  <2> QED BY <2>7, <2>8
<1>12. ASSUME Connect \/ LoseBeacon \/ SeeBeacon PROVE Calls /\ Kept /\ Done /\ UNCHANGED checkVars
  BY <1>0, <1>12 DEF Connect, LoseBeacon, SeeBeacon, CallInv, NotIdle, Balance, BalanceWith,
     providerVars
<1> QED BY <1>2, <1>3, <1>4, <1>7, <1>9, <1>10, <1>11, <1>12 DEF ClientStep

LEMMA Outside ==
    ASSUME TypeOK
    PROVE  Cardinality(pending \ obs.out) - Cardinality(obs.out \ pending)
              = Cardinality(pending) - Cardinality(obs.out)
<1>1. pending \subseteq Pays /\ obs.out \subseteq Pays
  BY DEF TypeOK, MemoryTypes, Balances
<1>2. /\ IsFiniteSet(pending) /\ IsFiniteSet(obs.out) /\ IsFiniteSet(pending \intersect obs.out)
      /\ Cardinality(pending) \in Int /\ Cardinality(obs.out) \in Int
      /\ Cardinality(pending \intersect obs.out) \in Int
  BY <1>1, Finite
<1>3. Cardinality(pending \ obs.out) = Cardinality(pending) - Cardinality(pending \intersect obs.out)
  BY <1>2, FS_Difference
<1>4. Cardinality(obs.out \ pending) = Cardinality(obs.out) - Cardinality(obs.out \intersect pending)
  BY <1>2, FS_Difference
<1>5. Cardinality(obs.out \ pending) = Cardinality(obs.out) - Cardinality(pending \intersect obs.out)
  <2>1. obs.out \intersect pending = pending \intersect obs.out
    OBVIOUS
  <2> QED BY <1>4, <2>1
<1>6. ASSUME NEW a \in Int, NEW b \in Int, NEW c \in Int PROVE (a - c) - (b - c) = a - b
  OBVIOUS
<1> QED BY <1>2, <1>3, <1>5, <1>6

LEMMA CheckStepBooks == ASSUME IInv, CheckStep PROVE IInv'
<1>0. TypeOK /\ CallInv /\ TypeOK'
  BY CheckStepTypes DEF IInv
<1>1. UNCHANGED <<providerVars, mail, memoryVars>>
  BY DEF CheckStep, ReadRow, NotReady, StartTracking, CreateRow, Judge, FlagDisruption
<1>2. CallInv'
  BY <1>0, <1>1 DEF CallInv, NotIdle, Taken, providerVars, memoryVars
<1>3. CASE StartTracking
  <2>1. /\ UNCHANGED tracker /\ ~read.row.opened /\ check = "read" /\ check' = "create"
        /\ base' = obs.lost /\ early' = pending \ obs.out
        /\ counted' = obs.got /\ booked' = obs.out \ pending
    BY <1>3 DEF StartTracking
  <2>8. ~tracker.opened /\ read'.row.balance = TrackedBalance
    BY <1>0, <1>3, <2>1 DEF StartTracking, IInv, ReadInv, TypeOK, RowTypes, Rows
  <2>2. pending \subseteq Pays /\ obs.out \subseteq NotIdle /\ obs.out \subseteq Pays
        /\ obs.got \subseteq Receipts /\ obs.lost \in Int
    BY <1>0 DEF CallInv, TypeOK, MemoryTypes, Balances
  <2>3. MailInv'
    <3>1. \A m \in mail : m.kind = "operation" => m.of \notin Pays
      BY <1>0, ProviderAssumption DEF TypeOK, ProviderTypes, ProviderAssumption
    <3> QED BY <1>1, <2>1, <2>2, <3>1 DEF IInv, MailInv, providerVars
  <2>4. BookedInv'
    BY <1>0, <1>1, <2>1, <2>2 DEF BookedInv, NotIdle, TypeOK, MemoryTypes, memoryVars
  <2>5. Cardinality(obs.got) \in Int /\ Cardinality(obs.out) \in Int /\ Cardinality(pending) \in Int
        /\ Cardinality(pending \ obs.out) \in Int /\ Cardinality(obs.out \ pending) \in Int
        /\ Initial \in Int
    BY <1>0, <2>2, Finite, ProviderAssumption DEF ProviderAssumption
  <2>6. read'.row.balance = Expected(early, counted, booked)'
    BY <1>0, <2>1, <2>2, <2>5, <2>8, Outside DEF Expected, TrackedBalance, Worth
  <2>7. Books' /\ ReadInv' /\ CreateInv'
    BY <2>1, <2>6, <2>8 DEF Books, ReadInv, CreateInv
  <2> QED BY <1>0, <1>2, <2>3, <2>4, <2>7 DEF IInv
<1>4. ASSUME UNCHANGED historyVars PROVE MailInv' /\ BookedInv'
  BY <1>1, <1>4 DEF IInv, MailInv, BookedInv, providerVars, memoryVars, historyVars
<1>7. CASE CreateRow
  <2>1. /\ UNCHANGED historyVars /\ check = "create" /\ check' = "idle"
        /\ tracker'.opened /\ tracker'.balance = read.row.balance
    BY <1>0, <1>7 DEF CreateRow, TypeOK, RowTypes, Rows
  <2>2. Books' /\ ReadInv' /\ CreateInv'
    BY <2>1 DEF IInv, Books, ReadInv, CreateInv, Expected, historyVars
  <2> QED BY <1>0, <1>2, <1>4, <2>1, <2>2 DEF IInv
<1>5. CASE ReadRow
  <2>1. UNCHANGED <<tracker, historyVars>> /\ read' = [row |-> tracker, counted |-> counted]
        /\ check' = "read"
    BY <1>5 DEF ReadRow
  <2>2. Books'
    BY <2>1 DEF IInv, Books, Expected, historyVars
  <2>3. tracker.opened => read'.row.balance = Expected(early, read'.counted, booked)
    BY <2>1 DEF IInv, Books
  <2>4. ReadInv' /\ CreateInv'
    BY <2>1, <2>3 DEF ReadInv, CreateInv, Expected, historyVars
  <2> QED BY <1>0, <1>2, <1>4, <2>1, <2>2, <2>4 DEF IInv
<1>6. CASE NotReady \/ Judge \/ FlagDisruption
  <2>1. UNCHANGED historyVars /\ check' \notin {"read", "create"}
    BY <1>6 DEF NotReady, Judge, FlagDisruption
  <2>2. tracker'.opened = tracker.opened /\ tracker'.balance = tracker.balance
    BY <1>0, <1>6 DEF NotReady, Judge, FlagDisruption, TypeOK, RowTypes, Rows
  <2>3. Books' /\ ReadInv' /\ CreateInv'
    BY <2>1, <2>2 DEF IInv, Books, ReadInv, CreateInv, Expected, historyVars
  <2> QED BY <1>0, <1>2, <1>4, <2>1, <2>3 DEF IInv
<1> QED BY <1>3, <1>5, <1>6, <1>7 DEF CheckStep

LEMMA RestartBooks == ASSUME IInv, Restart PROVE IInv'
<1>0. TypeOK /\ CallInv /\ TypeOK'
  BY RestartTypes DEF IInv
<1>1. /\ UNCHANGED <<providerVars, tracker, historyVars>> /\ mail' \subseteq mail
      /\ call' = Forgotten /\ obs' = NoBalance /\ check' = "idle"
  BY DEF Restart
<1>2. NotIdle' = NotIdle /\ \A p \in Pays : call[p] = "done" => call'[p] = "done"
  BY <1>0, <1>1 DEF NotIdle, Forgotten, TypeOK, MemoryTypes
<1>3. CallInv'
  BY <1>0, <1>1, <1>2 DEF CallInv, Taken, NoBalance, providerVars
<1>4. MailInv' /\ BookedInv'
  BY <1>0, <1>1, <1>2 DEF IInv, MailInv, BookedInv, TypeOK, RowTypes, providerVars, historyVars
<1>5. Books' /\ ReadInv' /\ CreateInv'
  BY <1>1 DEF IInv, Books, ReadInv, CreateInv, Expected, historyVars
<1> QED BY <1>0, <1>3, <1>4, <1>5 DEF IInv

LEMMA StepInv == IInv /\ [Next]_vars => IInv'
<1>1. ASSUME IInv, UNCHANGED vars PROVE IInv'
  BY <1>1, StutterTypes DEF IInv, CallInv, MailInv, BookedInv, Books, ReadInv, CreateInv, Expected, NotIdle,
     Taken, vars, providerVars, memoryVars, checkVars, historyVars
<1> QED BY <1>1, ProviderStepBooks, ClientStepBooks, CheckStepBooks, RestartBooks DEF Next

LEMMA Invariance == Spec => []IInv
<1>1. Init => IInv
  BY InitTypes, InitBooks DEF IInv
<1> QED BY <1>1, StepInv, PTL DEF Spec

-----------------------------------------------------------------------------
(* Theorems.                                                               *)

LEMMA ReadExpected ==
    ASSUME IInv, Compares
    PROVE  \E E \in SUBSET early :
              read.row.balance = Expected(E, read.counted, booked)
BY DEF IInv, ReadInv, Compares

\* Every variable of LiquidityProvider, RugPullTracker and the row keeps its
\* type, and pendingPayments holds exactly the payments under way.
THEOREM TypeCorrect == Spec => []TypeOK
<1> QED BY InitTypes, StepTypes, PTL DEF Spec

\* Only a check that compares touches what Compares speaks of.
LEMMA ComparesJudge ==
    ASSUME IInv, [Next]_vars, Compares
    PROVE  Judge
<1>1. ~ProviderStep
  BY DEF Compares, ProviderStep, Take, Hold, Fail, Deliver, Doubt, Resolve, Receive, Lose, checkVars
<1>2. ~ClientStep
  BY DEF Compares, ClientStep, Connect, LoseBeacon, SeeBeacon, Ask, Finalize, FinalizeThrows,
         FinalizeUndone, UserPaid, SystemPaid, Throws, CountReceipt, checkVars
<1>3. ~Restart
  BY DEF Compares, Restart
<1>4. vars' # vars
  BY DEF Compares, vars, checkVars
<1> QED BY <1>1, <1>2, <1>3, <1>4 DEF Next, Compares, CheckStep, ReadRow, NotReady, StartTracking,
        CreateRow, FlagDisruption

\* The figures of a check.
LEMMA Figures ==
    ASSUME IInv
    PROVE  /\ obs.got \subseteq Receipts /\ read.counted \subseteq Receipts
           /\ obs.out \subseteq Pays /\ booked \subseteq Pays /\ pending \subseteq Pays
           /\ base \in Int /\ Initial \in Int /\ obs.lost \in Int
           /\ early \subseteq Pays \union Receipts
           /\ booked \intersect pending = {}
           /\ \A S \in SUBSET (Pays \union Receipts) : IsFiniteSet(S) /\ Cardinality(S) \in Nat
<1>1. TypeOK /\ BookedInv
  BY DEF IInv
<1>2. obs \in Balances /\ read.counted \subseteq Receipts
  BY <1>1 DEF TypeOK, MemoryTypes, RowTypes
<1>3. booked \intersect pending = {}
  BY <1>1 DEF BookedInv, TypeOK, MemoryTypes
<1>4. Initial \in Int /\ MaxLoss \in Nat
  BY ProviderAssumption DEF ProviderAssumption
<1> QED BY <1>1, <1>2, <1>3, <1>4, Finite DEF Balances, TypeOK, MemoryTypes, RowTypes

LEMMA AlarmStep == IInv /\ [Next]_vars =>
    (Compares /\ rugPulled' =>
          \/ obs.lost > base
          \/ ~(read.counted \subseteq obs.got)
          \/ ~(obs.out \subseteq booked \union pending)
          \/ early # {})
<1> SUFFICES ASSUME IInv, [Next]_vars, Compares, obs.lost <= base, read.counted \subseteq obs.got,
                    obs.out \subseteq booked \union pending, early = {}
             PROVE  ~rugPulled'
  BY Figures
<1>1. rugPulled' = (TrackedBalance < read.row.balance)
  BY ComparesJudge DEF Judge
<1>2. read.row.balance = Initial - base + Cardinality(read.counted) - Cardinality(booked)
  <2>1. read.row.balance = Expected({}, read.counted, booked)
    BY ReadExpected
  <2> QED BY <2>1, Figures, FS_EmptySet DEF Expected
<1>3. Cardinality(read.counted) <= Cardinality(obs.got)
  BY Figures, FS_Subset
<1>4. Cardinality(obs.out) <= Cardinality(booked) + Cardinality(pending)
  <2>1. IsFiniteSet(booked \union pending) /\ Cardinality(obs.out) <= Cardinality(booked \union pending)
    BY Figures, FS_Union, FS_Subset
  <2>2. Cardinality(booked \union pending) = Cardinality(booked) + Cardinality(pending) - Cardinality(booked \intersect pending)
    BY Figures, FS_Union
  <2> QED BY <2>1, <2>2, Figures, FS_EmptySet
<1>5. /\ Cardinality(read.counted) \in Int /\ Cardinality(obs.got) \in Int /\ Cardinality(obs.out) \in Int
      /\ Cardinality(booked) \in Int /\ Cardinality(pending) \in Int
  BY Figures
<1>6. TrackedBalance = Initial + Cardinality(obs.got) - Cardinality(obs.out) - obs.lost + Cardinality(pending)
  BY DEF TrackedBalance, Worth
<1>7. TrackedBalance >= read.row.balance /\ TrackedBalance \in Int /\ read.row.balance \in Int
  BY <1>2, <1>3, <1>4, <1>5, <1>6, Figures
<1>8. ~(TrackedBalance < read.row.balance)
  BY <1>7
<1> QED BY <1>1, <1>8

LEMMA LossStep == IInv /\ [Next]_vars =>
    (Compares /\ ~rugPulled' /\ obs.lost > base =>
          \/ ~(obs.got \subseteq read.counted)
          \/ ~(booked \union pending \subseteq obs.out))
<1> SUFFICES ASSUME IInv, [Next]_vars, Compares, obs.lost > base, obs.got \subseteq read.counted,
                    booked \union pending \subseteq obs.out
             PROVE  rugPulled'
  OBVIOUS
<1>1. rugPulled' = (TrackedBalance < read.row.balance)
  BY ComparesJudge DEF Judge
<1>2. PICK E \in SUBSET early : read.row.balance = Expected(E, read.counted, booked)
  BY ReadExpected
<1>3. Cardinality(E) \in Nat
  BY Figures
<1>4. Cardinality(obs.got) <= Cardinality(read.counted)
  BY Figures, FS_Subset
<1>5. Cardinality(booked) + Cardinality(pending) <= Cardinality(obs.out)
  <2>1. Cardinality(booked \union pending) <= Cardinality(obs.out)
    BY Figures, FS_Subset
  <2>2. Cardinality(booked \union pending) = Cardinality(booked) + Cardinality(pending) - Cardinality(booked \intersect pending)
    BY Figures, FS_Union
  <2> QED BY <2>1, <2>2, Figures, FS_EmptySet
<1>6. /\ Cardinality(read.counted) \in Int /\ Cardinality(obs.got) \in Int /\ Cardinality(obs.out) \in Int
      /\ Cardinality(booked) \in Int /\ Cardinality(pending) \in Int
  BY Figures
<1>7. TrackedBalance = Initial + Cardinality(obs.got) - Cardinality(obs.out) - obs.lost + Cardinality(pending)
  BY DEF TrackedBalance, Worth
<1>8. TrackedBalance < read.row.balance
  BY <1>2, <1>3, <1>4, <1>5, <1>6, <1>7, Figures DEF Expected
<1> QED BY <1>1, <1>8

\* RugPullTracker calls a rug pull only for a loss, or for one of the three
\* ways in which the row and the provider's answers come apart.
THEOREM AlarmExplained == Spec => AlarmIsExplained
<1> QED BY Invariance, AlarmStep, PTL DEF Spec, AlarmIsExplained

\* RugPullTracker misses a loss it was told of only when something else the
\* row does not know of makes up for it.
THEOREM LossSeen == Spec => LossIsSeen
<1> QED BY Invariance, LossStep, PTL DEF Spec, LossIsSeen
=============================================================================
