---------------------------- MODULE WatchdogProofs ----------------------------
(***************************************************************************)
(* Theorems about Watchdog, for any callers, payments, receipts, amounts   *)
(* and limits.                                                             *)
(***************************************************************************)
EXTENDS Watchdog, FiniteSetTheorems, TLAPS

\* Nobody is served while the program starts.
StartInv == step \in Starting => \A c \in Callers : pc[c] = "idle" /\ served[c] = {}

\* What a check saw stays complete, and a check sees what earlier ones saw.
SeenInv ==
    /\ seen \subseteq Settled
    /\ \A c \in Callers : served[c] \subseteq Settled
    /\ step \in Checking => \A c \in Callers : served[c] \subseteq seen

\* Unlocked operations mean that all that was seen is accounted for.
KnownInv ==
    /\ ~locked => \A c \in Callers : \A i \in served[c] : Accounted(i)
    /\ step = "latest" => read.known \in saved \union {offset}

\* How far the truth has moved from what the check has read so far.
UsersDrift ==
    IF step \in {"wallet", "change", "ops", "known", "latest"} THEN users - read.users ELSE 0
FeesDrift ==
    IF step \in Checking \ {"fees"} THEN forwarded - initial.forwarded - fees ELSE 0
FundsDrift ==
    IF step = "change" THEN wallet - read.funds
    ELSE IF step = "ops" THEN wallet + PendingChange - read.missed - read.funds
    ELSE IF step \in {"known", "latest"} THEN wallet + PendingChange - read.missed + ops - read.funds
    ELSE 0
Drift == UsersDrift - FundsDrift + FeesDrift
DriftInv == Drift <= moved /\ -moved <= Drift

IInv == TypeOK /\ WaitersAreHeard /\ StartInv /\ SeenInv /\ KnownInv /\ DriftInv

LEMMA Counted ==
    ASSUME WatchdogAssumption, NEW S, S \subseteq Indexes \/ S \subseteq Callers
    PROVE  Cardinality(S) \in Nat
<1>1. IsFiniteSet(Indexes) /\ IsFiniteSet(Callers)
  BY FS_Interval DEF WatchdogAssumption, Indexes
<1> QED BY <1>1, FS_Subset, FS_CardinalityType

LEMMA IndexBound == Indexes \subseteq 0..MaxIndex /\ 0 \in 0..MaxIndex
BY WatchdogAssumption DEF WatchdogAssumption, Indexes

LEMMA ChangeBound == PendingChange \in Nat
BY WatchdogAssumption DEF WatchdogAssumption, PendingChange

LEMMA InitInv == Init => IInv
<1> SUFFICES ASSUME Init PROVE IInv
  OBVIOUS
<1> USE WatchdogAssumption DEF Init, WatchdogAssumption
<1>1. TypeOK
  <2>1. disrupted \in BOOLEAN /\ locked \in BOOLEAN /\ negative \in BOOLEAN
    BY Zenon
  <2>2. StoreTypes
    BY <2>1 DEF StoreTypes
  <2>3. CallTypes
    BY IndexBound DEF CallTypes
  <2>4. LndTypes
    BY DEF LndTypes
  <2>5. CheckTypes
    BY <2>1, IndexBound DEF CheckTypes, Starting, Checking, NoBase, NothingRead
  <2>6. admin \in [pc : {"idle", "invoice", "chain"}, idx : 0..MaxIndex] /\ moved \in Nat
    BY IndexBound
  <2> QED BY <2>2, <2>3, <2>4, <2>5, <2>6 DEF TypeOK
<1>2. WaitersAreHeard /\ StartInv /\ SeenInv /\ KnownInv
  BY DEF WaitersAreHeard, StartInv, SeenInv, KnownInv, Starting, Checking
<1>3. DriftInv
  BY DEF DriftInv, Drift, UsersDrift, FundsDrift, FeesDrift, Checking
<1> QED BY <1>1, <1>2, <1>3 DEF IInv

-----------------------------------------------------------------------------
(* Types.                                                                  *)

LEMMA Covered == ASSUME negative \in BOOLEAN, MadeGood PROVE negative' \in BOOLEAN
BY Zenon DEF MadeGood

LEMMA RecoverStores ==
    ASSUME StoreTypes, NEW n \in Nat, users' = users + n, Recover PROVE StoreTypes'
<1>1. negative' \in BOOLEAN
  BY Covered DEF Recover, StoreTypes
<1> QED BY <1>1 DEF Recover, StoreTypes

LEMMA ReceiptStores ==
    ASSUME StoreTypes, NEW r \in Receipts, Credit(r) \/ RecordRoot(r) PROVE StoreTypes'
<1>1. negative' \in BOOLEAN
  BY Covered DEF Credit, RecordRoot, StoreTypes
<1> QED BY <1>1 DEF Credit, RecordRoot, StoreTypes

LEMMA BalanceStores ==
    ASSUME StoreTypes, UpdateUserBalance \/ SendUserToUserPayment PROVE StoreTypes'
<1>1. negative' \in BOOLEAN
  BY Zenon DEF UpdateUserBalance, SendUserToUserPayment
<1> QED BY <1>1 DEF UpdateUserBalance, SendUserToUserPayment, StoreTypes

\* What handleRootOperations learns of the chain payment.
LEMMA LearnsChange ==
    ASSUME StoreTypes, LndTypes, NEW m \in {0, PendingChange}, MissesChange(m)
    PROVE  /\ m \in Nat /\ PendingChange - m \in Int
           /\ chainRow' \in {"none", "pending", "confirmed"}
BY ChangeBound DEF MissesChange, StoreTypes

\* Two fields of a record change.
LEMMA BaseFields ==
    ASSUME NEW b \in [users : Int, funds : Int, missed : Nat, forwarded : 0..MaxForwards],
           NEW f \in Int, NEW m \in Nat
    PROVE  [b EXCEPT !.funds = f, !.missed = m]
              \in [users : Int, funds : Int, missed : Nat, forwarded : 0..MaxForwards]
OBVIOUS

LEMMA ReadFields ==
    ASSUME NEW b \in [users : Int, funds : Int, missed : Nat, known : 0..MaxIndex],
           NEW f \in Int, NEW m \in Nat,
           NEW q, q = [b EXCEPT !.funds = f, !.missed = m]
    PROVE  /\ q \in [users : Int, funds : Int, missed : Nat, known : 0..MaxIndex]
           /\ q.users = b.users /\ q.known = b.known /\ q.funds = f /\ q.missed = m
OBVIOUS

LEMMA BaseLearns ==
    ASSUME StoreTypes, LndTypes, CheckTypes, BaseChange
    PROVE  /\ initial' \in [users : Int, funds : Int, missed : Nat, forwarded : 0..MaxForwards]
           /\ chainRow' \in {"none", "pending", "confirmed"}
<1>1. PICK m \in {0, PendingChange} :
         /\ MissesChange(m)
         /\ initial' = [initial EXCEPT !.funds = @ + (PendingChange - m), !.missed = m]
  BY Zenon DEF BaseChange
<1>2. m \in Nat /\ PendingChange - m \in Int /\ chainRow' \in {"none", "pending", "confirmed"}
  BY <1>1, LearnsChange
<1>3. initial \in [users : Int, funds : Int, missed : Nat, forwarded : 0..MaxForwards]
  BY DEF CheckTypes
<1>4. PICK d \in Int : d = PendingChange - m
  BY <1>2
<1>5. initial' = [initial EXCEPT !.funds = initial.funds + d, !.missed = m]
  BY <1>1, <1>4
<1>6. initial.funds + d \in Int
  BY <1>3
<1> QED BY <1>2, <1>3, <1>5, <1>6, BaseFields

LEMMA ReadLearns ==
    ASSUME StoreTypes, LndTypes, CheckTypes, ReadChange
    PROVE  /\ read' \in [users : Int, funds : Int, missed : Nat, known : 0..MaxIndex]
           /\ chainRow' \in {"none", "pending", "confirmed"}
           /\ read'.users = read.users /\ read'.known = read.known
           /\ read'.funds + read'.missed = read.funds + PendingChange
<1>1. PICK m \in {0, PendingChange} :
         /\ MissesChange(m)
         /\ read' = [read EXCEPT !.funds = @ + (PendingChange - m), !.missed = m]
  BY Zenon DEF ReadChange
<1>2. m \in Nat /\ PendingChange - m \in Int /\ chainRow' \in {"none", "pending", "confirmed"}
  BY <1>1, LearnsChange
<1>3. read \in [users : Int, funds : Int, missed : Nat, known : 0..MaxIndex]
  BY DEF CheckTypes
<1>4. PICK d \in Int : d = PendingChange - m
  BY <1>2
<1>5. read' = [read EXCEPT !.funds = read.funds + d, !.missed = m]
  BY <1>1, <1>4
<1>6. d + m = PendingChange
  BY <1>2, <1>4, ChangeBound
<1>7. /\ read' \in [users : Int, funds : Int, missed : Nat, known : 0..MaxIndex]
      /\ read'.users = read.users /\ read'.known = read.known
      /\ read'.funds = read.funds + d /\ read'.missed = m /\ read.funds \in Int
  <2>1. read.funds \in Int /\ read.funds + d \in Int
    BY <1>3
  <2> QED BY <1>2, <1>3, <1>5, <2>1, ReadFields
<1> QED BY <1>2, <1>6, <1>7

LEMMA BaseChangeTypes ==
    ASSUME StoreTypes, LndTypes, CheckTypes, CallTypes, BaseChange
    PROVE  StoreTypes' /\ LndTypes' /\ CheckTypes' /\ CallTypes' /\ UNCHANGED <<admin, moved>>
<1>1. /\ step' = "baseFees" /\ ops' = 0
      /\ UNCHANGED <<users, rows, saved, negative, disrupted, lndVars, locked, offset, fees, read,
                     seen, callVars, admin, moved>>
  BY DEF BaseChange
<1>2. StoreTypes'
  BY <1>1, BaseLearns DEF StoreTypes
<1>3. CheckTypes'
  BY <1>1, BaseLearns DEF CheckTypes, Starting
<1> QED BY <1>1, <1>2, <1>3 DEF LndTypes, CallTypes, lndVars, callVars

LEMMA ReadChangeTypes ==
    ASSUME StoreTypes, LndTypes, CheckTypes, CallTypes, ReadChange
    PROVE  StoreTypes' /\ LndTypes' /\ CheckTypes' /\ CallTypes' /\ UNCHANGED <<admin, moved>>
<1>1. /\ step' = "ops"
      /\ UNCHANGED <<users, rows, saved, ops, negative, disrupted, lndVars, locked, offset, initial,
                     fees, seen, callVars, admin, moved>>
  BY DEF ReadChange
<1>2. StoreTypes'
  BY <1>1, ReadLearns DEF StoreTypes
<1>3. CheckTypes'
  BY <1>1, ReadLearns DEF CheckTypes, Checking
<1> QED BY <1>1, <1>2, <1>3 DEF LndTypes, CallTypes, lndVars, callVars

LEMMA AskChecks ==
    ASSUME CheckTypes, LndTypes, NEW c \in Callers, Ask(c) PROVE CheckTypes'
BY DEF Ask, OpensCheck, CheckTypes, Checking, Settled

LEMMA FinishStores == ASSUME StoreTypes, NEW c \in Callers, Finish(c) PROVE StoreTypes'
BY DEF Finish, StoreTypes

LEMMA CrashCalls == ASSUME CallTypes, Crash PROVE CallTypes'
BY IndexBound DEF Crash, CallTypes

LEMMA CrashOthers ==
    ASSUME CheckTypes, LndTypes, Crash PROVE LndTypes' /\ CheckTypes'
<1>1. LndTypes'
  BY DEF Crash, LndTypes, lndVars
<1>2. locked' \in BOOLEAN /\ step' \in Starting /\ offset' \in 0..MaxIndex
  <2>1. locked' = FALSE /\ step' = "down" /\ offset' = 0
    BY DEF Crash
  <2> QED BY <2>1, IndexBound DEF Starting
<1>3. /\ fees' \in Int /\ seen' \subseteq Indexes
      /\ initial' \in [users : Int, funds : Int, missed : Nat, forwarded : 0..MaxForwards]
      /\ read' \in [users : Int, funds : Int, missed : Nat, known : 0..MaxIndex]
  BY IndexBound, WatchdogAssumption DEF Crash, NoBase, NothingRead, WatchdogAssumption
<1> QED BY <1>1, <1>2, <1>3 DEF CheckTypes

LEMMA SaveStores ==
    ASSUME StoreTypes, CallTypes, NEW i \in Indexes, SaveIndex(i)
    PROVE  StoreTypes' /\ CallTypes'
BY DEF SaveIndex, StoreTypes, CallTypes

LEMMA LoseStores ==
    ASSUME StoreTypes, CallTypes, NEW i \in Indexes, LoseIndex(i)
    PROVE  StoreTypes' /\ CallTypes'
BY DEF LoseIndex, StoreTypes, CallTypes, storeVars

LEMMA OthersKept ==
    ASSUME LndTypes, CheckTypes, UNCHANGED <<lndVars, checkVars>> PROVE LndTypes' /\ CheckTypes'
BY DEF LndTypes, CheckTypes, lndVars, checkVars

LEMMA WorldKeepsTypes ==
    ASSUME IInv, World
    PROVE  TypeOK' /\ UNCHANGED <<storeVars, checkVars, callVars, admin>>
<1> USE WatchdogAssumption, IndexBound, ChangeBound, SMTT(30) DEF WatchdogAssumption, IInv, TypeOK, StoreTypes, LndTypes, CheckTypes, CallTypes, storeVars, checkVars, callVars
<1>1. CASE SpendUnknown
  BY <1>1 DEF SpendUnknown, Moves, NextIndex, Free
<1>2. CASE Forward
  BY <1>2 DEF Forward, Moves
<1>3. CASE ConfirmChain
  BY <1>3 DEF ConfirmChain, Moves
<1>4. ASSUME NEW i \in Indexes, Settle(i)
      PROVE  TypeOK' /\ UNCHANGED <<storeVars, checkVars, callVars, admin>>
  BY <1>4 DEF Settle, Moves
<1>6. ASSUME NEW i \in Indexes, Fail(i)
      PROVE  TypeOK' /\ UNCHANGED <<storeVars, checkVars, callVars, admin>>
  BY <1>6 DEF Fail
<1>5. ASSUME NEW r \in Receipts, Receive(r)
      PROVE  TypeOK' /\ UNCHANGED <<storeVars, checkVars, callVars, admin>>
  BY <1>5 DEF Receive, Moves
<1> QED BY <1>1, <1>2, <1>3, <1>4, <1>5, <1>6 DEF World

LEMMA StartKeepsTypes == ASSUME IInv, StartWatching PROVE TypeOK'
<1> USE WatchdogAssumption, IndexBound, ChangeBound, SMTT(30) DEF WatchdogAssumption, IInv, TypeOK, StoreTypes, LndTypes, CheckTypes, CallTypes, storeVars, lndVars, callVars,
        Starting, Checking
<1>1. CASE Recover
  <2>1. {i \in rows : payment[i] = "failed"} \subseteq Indexes
    BY Zenon
  <2> DEFINE refunds == Cardinality({i \in rows : payment[i] = "failed"})
  <2>2. refunds \in Nat
    BY <2>1, Counted
  <2>3. users' = users + refunds
    BY <1>1 DEF Recover
  <2> HIDE DEF refunds
  <2>4. StoreTypes'
    BY <1>1, <2>2, <2>3, RecoverStores
  <2>5. LndTypes' /\ CallTypes' /\ UNCHANGED <<admin, moved>>
    BY <1>1 DEF Recover
  <2>6. CheckTypes'
    BY <1>1 DEF Recover
  <2> QED BY <2>4, <2>5, <2>6
<1>2. CASE BaseUsers
  BY <1>2 DEF BaseUsers
<1>3. CASE BaseWallet
  BY <1>3 DEF BaseWallet
<1>4. CASE BaseChange
  BY <1>4, BaseChangeTypes
<1>5. CASE BaseFees
  BY <1>5 DEF BaseFees
<1>6. CASE BaseKnown
  BY <1>6 DEF BaseKnown, Largest
<1>7. CASE BaseLatest
  BY <1>7 DEF BaseLatest, Largest, Settled
<1> QED BY <1>1, <1>2, <1>3, <1>4, <1>5, <1>6, <1>7 DEF StartWatching

LEMMA CheckKeepsTypes == ASSUME IInv, CheckStep PROVE TypeOK'
<1> USE WatchdogAssumption, IndexBound, ChangeBound, SMTT(30) DEF WatchdogAssumption, IInv, TypeOK, StoreTypes, LndTypes, CheckTypes, CallTypes, storeVars, lndVars, callVars,
        Starting, Checking
<1>1. CASE ReadFees
  BY <1>1 DEF ReadFees
<1>2. CASE FeesFail
  BY <1>2 DEF FeesFail, Answer, NothingRead
<1>3. CASE NoNegative
  BY <1>3 DEF NoNegative
<1>4. CASE FoundNegative
  BY <1>4 DEF FoundNegative, Answer, NothingRead
<1>5. CASE ReadUsers
  BY <1>5 DEF ReadUsers
<1>6. CASE ReadWallet
  BY <1>6 DEF ReadWallet
<1>7. CASE ReadChange
  BY <1>7, ReadChangeTypes
<1>8. CASE ReadOps
  BY <1>8 DEF ReadOps
<1>9. CASE ReadKnown
  BY <1>9 DEF ReadKnown, Largest
<1>10. CASE Decide
  <2>1. Flag(DeltaLnd, DeltaUsers) \in BOOLEAN /\ HistoryMismatch \in BOOLEAN
    BY Zenon DEF Flag, HistoryMismatch
  <2> QED BY <1>10, <2>1 DEF Decide, Answer, NothingRead
<1>11. CASE CheckThrows
  BY <1>11 DEF CheckThrows, NothingRead
<1> QED BY <1>1, <1>2, <1>3, <1>4, <1>5, <1>6, <1>7, <1>8, <1>9, <1>10, <1>11 DEF CheckStep

LEMMA CallKeepsTypes ==
    ASSUME IInv, NEW c \in Callers, Ask(c) \/ CallStep(c)
    PROVE  TypeOK'
<1> USE WatchdogAssumption, IndexBound, ChangeBound, SMTT(30) DEF WatchdogAssumption, IInv, TypeOK, StoreTypes, LndTypes, CheckTypes, CallTypes, storeVars, lndVars, checkVars,
        Starting, Checking
<1>1. CASE Ask(c)
  <2>1. StoreTypes' /\ LndTypes' /\ admin' = admin /\ moved' \in Nat
    BY <1>1 DEF Ask, OpensCheck
  <2>2. CallTypes'
    BY <1>1 DEF Ask
  <2>3. CheckTypes'
    BY <1>1, AskChecks
  <2> QED BY <2>1, <2>2, <2>3
<1>2. CASE Reserve(c)
  BY <1>2 DEF Reserve, Moves
<1>3. CASE Refuse(c)
  BY <1>3 DEF Refuse, Moves
<1>4. CASE Send(c)
  BY <1>4 DEF Send, NextIndex, Free
<1>5. CASE Finish(c)
  <2>1. StoreTypes'
    BY <1>5, FinishStores
  <2>2. CallTypes'
    BY <1>5 DEF Finish
  <2>3. LndTypes' /\ CheckTypes' /\ admin' = admin /\ moved' \in Nat
    BY <1>5 DEF Finish, Moves
  <2> QED BY <2>1, <2>2, <2>3
<1> QED BY <1>1, <1>2, <1>3, <1>4, <1>5 DEF CallStep

LEMMA OtherKeepsTypes ==
    ASSUME IInv, Tick \/ AdminStep \/ Crash \/ Start \/ (\E r \in Receipts : Credit(r) \/ RecordRoot(r))
                 \/ UpdateUserBalance \/ SendUserToUserPayment
                 \/ (\E i \in Indexes : SaveIndex(i) \/ LoseIndex(i))
    PROVE  TypeOK'
<1> USE WatchdogAssumption, IndexBound, ChangeBound, SMTT(30) DEF WatchdogAssumption, IInv, TypeOK, StoreTypes, LndTypes, CheckTypes, CallTypes, storeVars, lndVars, checkVars,
        callVars, Starting, Checking
<1>1. CASE Tick
  BY <1>1 DEF Tick, OpensCheck, Settled
<1>2. CASE AdminPaysInvoice
  BY <1>2 DEF AdminPaysInvoice, NextIndex, Free
<1>3. CASE AdminInvoiceEnds
  BY <1>3 DEF AdminInvoiceEnds, Moves
<1>4. CASE AdminPaysAddress \/ RecordChain
  BY <1>4 DEF AdminPaysAddress, RecordChain, Moves
<1>5. CASE Crash
  <2> DEFINE refunds == Cardinality({c \in Callers : pc[c] = "reserved"})
  <2>1. refunds \in Nat
    <3>1. {c \in Callers : pc[c] = "reserved"} \subseteq Callers
      OBVIOUS
    <3> QED BY <3>1, Counted
  <2>2. users' = users + refunds
    BY <1>5 DEF Crash
  <2> HIDE DEF refunds
  <2>3. StoreTypes'
    BY <1>5, <2>1, <2>2 DEF Crash
  <2>4. LndTypes' /\ CheckTypes'
    BY <1>5, CrashOthers
  <2>5. CallTypes'
    BY <1>5, CrashCalls
  <2>6. admin' = [pc |-> "idle", idx |-> 0] /\ moved' = 0
    BY <1>5 DEF Crash
  <2> QED BY <2>3, <2>4, <2>5, <2>6
<1>6. CASE Start
  BY <1>6 DEF Start
<1>7. ASSUME NEW r \in Receipts, Credit(r) \/ RecordRoot(r) PROVE TypeOK'
  <2>1. StoreTypes'
    BY <1>7, ReceiptStores
  <2>2. UNCHANGED <<checkVars, callVars, admin>> /\ LndTypes' /\ moved' \in Nat
    BY <1>7 DEF Credit, RecordRoot, Moves
  <2> QED BY <2>1, <2>2
<1>9. CASE UpdateUserBalance \/ SendUserToUserPayment
  <2>1. StoreTypes'
    BY <1>9, BalanceStores
  <2>2. UNCHANGED <<lndVars, checkVars, callVars, admin, moved>>
    BY <1>9 DEF UpdateUserBalance, SendUserToUserPayment
  <2> QED BY <2>1, <2>2
<1>8. ASSUME NEW i \in Indexes, SaveIndex(i) \/ LoseIndex(i) PROVE TypeOK'
  <2>1. StoreTypes' /\ CallTypes'
    BY <1>8, SaveStores, LoseStores
  <2>2. UNCHANGED <<lndVars, checkVars, admin, moved>>
    BY <1>8 DEF SaveIndex, LoseIndex
  <2> QED BY <2>1, <2>2, OthersKept
<1> QED BY <1>1, <1>2, <1>3, <1>4, <1>5, <1>6, <1>7, <1>8, <1>9 DEF AdminStep

LEMMA StepKeepsTypes == IInv /\ [Next]_vars => TypeOK'
<1>1. CASE UNCHANGED vars
  BY <1>1 DEF vars, storeVars, lndVars, checkVars, callVars, IInv, TypeOK, StoreTypes, LndTypes,
              CheckTypes, CallTypes
<1> QED
  BY <1>1, WorldKeepsTypes, StartKeepsTypes, CheckKeepsTypes, CallKeepsTypes, OtherKeepsTypes
     DEF Next, Program

-----------------------------------------------------------------------------
(* Callers: who is queued is answered, and nobody is served early.         *)

\* A step that moves nobody into or out of the queue.
LEMMA WaitersKept ==
    ASSUME WaitersAreHeard, queue' = queue,
           \A c \in Callers : pc[c] = "queued" <=> pc'[c] = "queued",
           step' = step \/ step' \in Checking \/ step \notin Checking
    PROVE  WaitersAreHeard'
BY DEF WaitersAreHeard

LEMMA WaitersStep == IInv /\ [Next]_vars => WaitersAreHeard'
<1> SUFFICES ASSUME IInv, [Next]_vars PROVE WaitersAreHeard'
  OBVIOUS
<1> USE DEF IInv
<1>1. pc \in [Callers -> {"idle", "queued", "admitted", "reserved", "sent"}] /\ queue \subseteq Callers
  BY DEF TypeOK, CallTypes
<1>2. CASE World \/ UNCHANGED vars
  BY <1>2, WorldKeepsTypes, WaitersKept DEF vars, checkVars, callVars
<1>3. CASE StartWatching
  <2>1. queue' = queue /\ pc' = pc /\ step \notin Checking
    BY <1>3 DEF StartWatching, Recover, BaseUsers, BaseWallet, BaseChange, BaseFees, BaseKnown,
                BaseLatest, callVars, Checking
  <2> QED BY <2>1, WaitersKept
<1>4. CASE CheckStep
  <2>1. CASE FeesFail \/ FoundNegative \/ Decide
    <3>1. \E S : Answer(S)
      BY <2>1 DEF FeesFail, FoundNegative, Decide
    <3> QED BY <3>1, <1>1 DEF Answer, WaitersAreHeard
  <2>2. CASE CheckThrows
    BY <2>2, <1>1 DEF CheckThrows, WaitersAreHeard
  <2>3. CASE ~(FeesFail \/ FoundNegative \/ Decide \/ CheckThrows)
    <3>1. queue' = queue /\ pc' = pc /\ step' \in Checking
      BY <1>4, <2>3 DEF CheckStep, ReadFees, NoNegative, ReadUsers, ReadWallet, ReadChange,
                        ReadOps, ReadKnown, callVars, Checking
    <3> QED BY <3>1, WaitersKept
  <2> QED BY <2>1, <2>2, <2>3
<1>5. ASSUME NEW c \in Callers, Ask(c) PROVE WaitersAreHeard'
  <2>1. step \in {"idle"} \union Checking
    BY <1>5 DEF Ask, Up, TypeOK, CheckTypes
  <2>2. step' \in Checking
    BY <1>5, <2>1 DEF Ask, OpensCheck, Checking
  <2>3. queue' = queue \union {c} /\ pc' = [pc EXCEPT ![c] = "queued"]
    BY <1>5 DEF Ask
  <2> QED BY <2>2, <2>3, <1>1 DEF WaitersAreHeard
<1>6. ASSUME NEW c \in Callers, CallStep(c) PROVE WaitersAreHeard'
  <2>1. queue' = queue /\ step' = step /\ pc[c] # "queued"
        /\ \E v \in {"idle", "reserved", "sent"} : pc' = [pc EXCEPT ![c] = v]
    BY <1>6 DEF CallStep, Reserve, Refuse, Send, Finish, checkVars
  <2> QED BY <2>1, <1>1, WaitersKept
<1>7. CASE Crash
  BY <1>7, <1>1 DEF Crash, WaitersAreHeard
<1>8. CASE Tick \/ AdminStep \/ Start
  <2>1. queue' = queue /\ pc' = pc /\ (step' = step \/ step \notin Checking)
    BY <1>8 DEF Tick, OpensCheck, Start, AdminStep, AdminPaysInvoice, AdminInvoiceEnds,
                AdminPaysAddress, RecordChain, checkVars, callVars, Checking
  <2> QED BY <2>1, WaitersKept
<1>9. ASSUME NEW i \in Indexes, SaveIndex(i) \/ LoseIndex(i) PROVE WaitersAreHeard'
  <2>1. queue' = queue /\ pc' = pc /\ step' = step
    BY <1>9 DEF SaveIndex, LoseIndex, checkVars
  <2> QED BY <2>1, WaitersKept
<1>10. ASSUME NEW r \in Receipts, Credit(r) \/ RecordRoot(r) PROVE WaitersAreHeard'
  <2>1. queue' = queue /\ pc' = pc /\ step' = step
    BY <1>10 DEF Credit, RecordRoot, checkVars, callVars
  <2> QED BY <2>1, WaitersKept
<1>11. CASE UpdateUserBalance \/ SendUserToUserPayment
  <2>1. queue' = queue /\ pc' = pc /\ step' = step
    BY <1>11 DEF UpdateUserBalance, SendUserToUserPayment, checkVars, callVars
  <2> QED BY <2>1, WaitersKept
<1> QED
  BY <1>2, <1>3, <1>4, <1>5, <1>6, <1>7, <1>8, <1>9, <1>10, <1>11 DEF Next, Program


-----------------------------------------------------------------------------
(* What checks have seen, and what is known.                               *)

\* Complete payments stay complete.
LEMMA SettledGrows == IInv /\ [Next]_vars => Settled \subseteq Settled'
<1> SUFFICES ASSUME IInv, [Next]_vars, payment' # payment PROVE Settled \subseteq Settled'
  BY DEF Settled
<1>1. payment \in [Indexes -> {"none", "flight", "settled", "failed"}]
  BY DEF IInv, TypeOK, LndTypes
<1>2. \E i \in Indexes, v \in {"flight", "settled", "failed"} :
         payment[i] # "settled" /\ payment' = [payment EXCEPT ![i] = v]
  <2>1. CASE World
    BY <2>1 DEF World, SpendUnknown, Forward, ConfirmChain, Settle, Fail, Receive, NextIndex, Free
  <2>2. CASE Program
    <3>1. CASE StartWatching
      BY <3>1 DEF StartWatching, Recover, BaseUsers, BaseWallet, BaseChange, BaseFees, BaseKnown,
                  BaseLatest, lndVars
    <3>2. CASE CheckStep
      BY <3>2 DEF CheckStep, ReadFees, FeesFail, NoNegative, FoundNegative, ReadUsers, ReadWallet,
                  ReadChange, ReadOps, ReadKnown, Decide, CheckThrows, lndVars
    <3>3. CASE Tick \/ AdminStep
      BY <3>3 DEF Tick, AdminStep, AdminPaysInvoice, AdminInvoiceEnds, AdminPaysAddress,
                  RecordChain, lndVars, NextIndex, Free
    <3>4. ASSUME NEW c \in Callers, Ask(c) \/ CallStep(c)
          PROVE  \E i \in Indexes, v \in {"flight", "settled", "failed"} :
                    payment[i] # "settled" /\ payment' = [payment EXCEPT ![i] = v]
      BY <3>4 DEF Ask, CallStep, Reserve, Refuse, Send, Finish, lndVars, NextIndex, Free
    <3>5. CASE (\E i \in Indexes : SaveIndex(i) \/ LoseIndex(i)) \/ (\E r \in Receipts : Credit(r) \/ RecordRoot(r))
               \/ UpdateUserBalance \/ SendUserToUserPayment
      BY <3>5 DEF SaveIndex, LoseIndex, Credit, RecordRoot, UpdateUserBalance,
                  SendUserToUserPayment, lndVars
    <3> QED BY <2>2, <3>1, <3>2, <3>3, <3>4, <3>5 DEF Program
  <2>3. CASE Crash \/ Start \/ UNCHANGED vars
    BY <2>3 DEF Crash, Start, vars, lndVars
  <2> QED BY <2>1, <2>2, <2>3 DEF Next
<1> QED BY <1>1, <1>2 DEF Settled

\* Steps that serve nobody and open no check.
LEMMA SeenKept ==
    ASSUME IInv, Settled \subseteq Settled', step' \in Checking => step \in Checking,
           seen' = seen \/ (seen' = {} /\ step' \notin Checking),
           \A c \in Callers : served'[c] = served[c] \/ served'[c] = {}
    PROVE  SeenInv'
BY DEF IInv, SeenInv

LEMMA KnownKept ==
    ASSUME IInv, saved \subseteq saved', offset' = offset, step' = "latest" => step = "latest",
           read' = read \/ step' # "latest", locked' = locked,
           \A c \in Callers : served'[c] = served[c] \/ served'[c] = {}
    PROVE  KnownInv'
BY DEF IInv, KnownInv, Accounted

LEMMA StartKept ==
    ASSUME IInv, step' \in Starting => step \in Starting /\ pc' = pc,
           \A c \in Callers : served'[c] = served[c] \/ served'[c] = {}
    PROVE  StartInv'
<1> SUFFICES ASSUME step' \in Starting, NEW c \in Callers PROVE pc'[c] = "idle" /\ served'[c] = {}
  BY DEF StartInv
<1>1. pc[c] = "idle" /\ served[c] = {} /\ pc' = pc
  BY DEF IInv, StartInv
<1> QED BY <1>1

GhostInv == StartInv /\ SeenInv /\ KnownInv

\* A step that leaves the calls, the index tables and the check alone.
LEMMA GhostKept ==
    ASSUME IInv, [Next]_vars, UNCHANGED <<step, seen, read, offset, locked, pc>>,
           saved \subseteq saved',
           \A c \in Callers : served'[c] = served[c] \/ served'[c] = {}
    PROVE  GhostInv'
BY SettledGrows, SeenKept, KnownKept, StartKept DEF GhostInv

LEMMA StartGhosts == ASSUME IInv, [Next]_vars, StartWatching PROVE GhostInv'
<1>1. /\ step \in Starting /\ step' \in Starting \union {"idle"}
      /\ UNCHANGED <<seen, locked, pc, served>>
  BY DEF StartWatching, Recover, BaseUsers, BaseWallet, BaseChange, BaseFees, BaseKnown,
         BaseLatest, callVars, Starting
<1>2. \A c \in Callers : served'[c] = {} /\ pc'[c] = "idle"
  BY <1>1 DEF IInv, StartInv
<1>3. step' \notin Checking /\ step' # "latest"
  BY <1>1 DEF Starting, Checking
<1> QED BY <1>1, <1>2, <1>3, SettledGrows DEF GhostInv, StartInv, SeenInv, KnownInv, IInv

LEMMA ReadGhosts ==
    ASSUME IInv, [Next]_vars,
           ReadFees \/ NoNegative \/ ReadUsers \/ ReadWallet \/ ReadChange \/ ReadOps
    PROVE  GhostInv'
<1>1. /\ step \in Checking /\ step' \in Checking \ {"latest"}
      /\ UNCHANGED <<seen, saved, offset, locked, pc, served>>
  BY DEF ReadFees, NoNegative, ReadUsers, ReadWallet, ReadChange, ReadOps, storeVars, callVars,
         Checking
<1>2. step' \notin Starting
  BY <1>1 DEF Starting, Checking
<1> QED BY <1>1, <1>2, SettledGrows, SeenKept, KnownKept, StartKept DEF GhostInv

LEMMA KnownGhosts == ASSUME IInv, [Next]_vars, ReadKnown PROVE GhostInv'
<1>1. /\ step = "known" /\ step' = "latest"
      /\ UNCHANGED <<seen, saved, offset, locked, pc, served>>
  BY DEF ReadKnown, storeVars, callVars
<1>2. step' \notin Starting /\ step \in Checking
  BY <1>1 DEF Starting, Checking
<1>3. read'.known \in saved \union {offset}
  <2>1. PICK m \in Largest(saved \union {offset}) : read' = [read EXCEPT !.known = m]
    BY DEF ReadKnown
  <2>2. read \in [users : Int, funds : Int, missed : Nat, known : 0..MaxIndex]
    BY DEF IInv, TypeOK, CheckTypes
  <2> QED BY <2>1, <2>2 DEF Largest
<1>4. KnownInv'
  BY <1>1, <1>3 DEF IInv, KnownInv, Accounted
<1> QED BY <1>1, <1>2, <1>4, SettledGrows, SeenKept, StartKept DEF GhostInv

\* The end of a check.
LEMMA AnswerGhosts ==
    ASSUME IInv, [Next]_vars, NEW S, S \subseteq seen, Answer(S), step \in Checking,
           UNCHANGED <<saved, offset>>,
           \/ locked' = locked /\ S = {}
           \/ locked'
           \/ \A i \in Settled : Accounted(i)
    PROVE  GhostInv'
<1>1. step' = "idle" /\ seen' = {} /\ step' \notin Starting \union Checking
  BY DEF Answer, Starting, Checking
<1>2. \A c \in Callers : served'[c] = served[c] \/ served'[c] = S
  BY DEF Answer
<1>3. SeenInv'
  BY <1>1, <1>2, SettledGrows DEF IInv, SeenInv
<1>4. KnownInv'
  <2> SUFFICES ASSUME ~locked', NEW c \in Callers, NEW i \in served'[c] PROVE Accounted(i)
    BY <1>1 DEF KnownInv, Accounted
  <2>1. i \in Settled /\ (i \in served[c] \/ i \in S)
    BY <1>2 DEF IInv, SeenInv
  <2> QED BY <2>1 DEF IInv, KnownInv
<1> QED BY <1>1, <1>3, <1>4 DEF GhostInv, StartInv

LEMMA EndGhosts == ASSUME IInv, [Next]_vars, FeesFail \/ FoundNegative \/ Decide PROVE GhostInv'
<1>1. CASE FeesFail
  BY <1>1, AnswerGhosts DEF FeesFail, storeVars, Checking
<1>2. CASE FoundNegative
  BY <1>2, AnswerGhosts DEF FoundNegative, storeVars, Checking
<1>3. CASE Decide
  <2>1. ~HistoryMismatch => \A i \in Settled : Accounted(i)
    <3> SUFFICES ASSUME ~HistoryMismatch, NEW i \in Settled PROVE Accounted(i)
      OBVIOUS
    <3>1. read.known \in saved \union {offset} /\ read.known \in Int /\ i \in Int
      BY <1>3, IndexBound DEF Decide, IInv, KnownInv, TypeOK, CheckTypes, Settled
    <3>2. i <= read.known
      BY <3>1 DEF HistoryMismatch
    <3> QED BY <3>1, <3>2 DEF Accounted
  <2>2. locked' \/ \A i \in Settled : Accounted(i)
    BY <1>3, <2>1 DEF Decide
  <2> QED BY <1>3, <2>2, AnswerGhosts DEF Decide, Checking
<1> QED BY <1>1, <1>2, <1>3

LEMMA OpenGhosts ==
    ASSUME IInv, [Next]_vars, OpensCheck, step \notin Starting,
           UNCHANGED <<saved, offset, read, locked, served>>
    PROVE  GhostInv'
<1>1. CASE step = "idle"
  <2>1. step' = "fees" /\ seen' = Settled
    BY <1>1 DEF OpensCheck
  <2>2. step' \notin Starting /\ step' \in Checking /\ step' # "latest"
    BY <2>1 DEF Starting, Checking
  <2>3. SeenInv'
    BY <2>1, SettledGrows DEF IInv, SeenInv
  <2> QED BY <2>2, <2>3, KnownKept DEF GhostInv, StartInv
<1>2. CASE step # "idle"
  <2>1. UNCHANGED <<step, seen>>
    BY <1>2 DEF OpensCheck
  <2> QED BY <2>1, SettledGrows, SeenKept, KnownKept, StartKept DEF GhostInv
<1> QED BY <1>1, <1>2

LEMMA CallGhosts == ASSUME IInv, [Next]_vars, NEW c \in Callers, CallStep(c) PROVE GhostInv'
<1>1. pc[c] # "idle" /\ UNCHANGED <<step, seen, read, offset, locked>> /\ saved' = saved
  BY DEF CallStep, Reserve, Refuse, Send, Finish, checkVars
<1>2. step \notin Starting
  BY <1>1 DEF IInv, StartInv
<1>3. \A d \in Callers : served'[d] = served[d] \/ served'[d] = {}
  <2>1. served \in [Callers -> SUBSET Indexes]
    BY DEF IInv, TypeOK, CallTypes
  <2>2. served' = served \/ served' = [served EXCEPT ![c] = {}]
    BY DEF CallStep, Reserve, Refuse, Send, Finish
  <2> QED BY <2>1, <2>2
<1> QED BY <1>1, <1>2, <1>3, SettledGrows, SeenKept, KnownKept, StartKept DEF GhostInv

LEMMA GhostStep == IInv /\ [Next]_vars => GhostInv'
<1> SUFFICES ASSUME IInv, [Next]_vars PROVE GhostInv'
  OBVIOUS
<1>1. CASE World \/ UNCHANGED vars
  <2>1. UNCHANGED <<step, seen, read, offset, locked, pc, saved, served>>
    BY <1>1, WorldKeepsTypes DEF vars, storeVars, checkVars, callVars
  <2> QED BY <2>1, GhostKept
<1>2. CASE CheckThrows
  <2>1. step' = "idle" /\ seen' = {} /\ UNCHANGED <<saved, offset, locked, served>>
    BY <1>2 DEF CheckThrows, storeVars
  <2>2. step' \notin Checking /\ step' \notin Starting /\ step' # "latest"
    BY <2>1 DEF Checking, Starting
  <2> QED BY <2>1, <2>2, SettledGrows, SeenKept, KnownKept, StartKept DEF GhostInv
<1>3. CASE CheckStep /\ ~CheckThrows
  BY <1>3, ReadGhosts, KnownGhosts, EndGhosts DEF CheckStep
<1>4. CASE Tick
  BY <1>4, OpenGhosts DEF Tick, storeVars, callVars, Starting
<1>5. ASSUME NEW c \in Callers, Ask(c) PROVE GhostInv'
  BY <1>5, OpenGhosts DEF Ask, Up, storeVars
<1>6. CASE AdminStep
  <2>1. UNCHANGED <<step, seen, read, offset, locked, pc, served>> /\ saved' = saved
    BY <1>6 DEF AdminStep, AdminPaysInvoice, AdminInvoiceEnds, AdminPaysAddress, RecordChain,
                storeVars, checkVars, callVars
  <2> QED BY <2>1, GhostKept
<1>7. ASSUME NEW i \in Indexes, SaveIndex(i) \/ LoseIndex(i) PROVE GhostInv'
  <2>1. UNCHANGED <<step, seen, read, offset, locked, pc, served>> /\ saved \subseteq saved'
    BY <1>7 DEF SaveIndex, LoseIndex, storeVars, checkVars
  <2> QED BY <2>1, GhostKept
<1>8. ASSUME NEW r \in Receipts, Credit(r) \/ RecordRoot(r) PROVE GhostInv'
  <2>1. UNCHANGED <<step, seen, read, offset, locked, pc, served>> /\ saved' = saved
    BY <1>8 DEF Credit, RecordRoot, checkVars, callVars
  <2> QED BY <2>1, GhostKept
<1>11. CASE UpdateUserBalance \/ SendUserToUserPayment
  <2>1. UNCHANGED <<step, seen, read, offset, locked, pc, served>> /\ saved' = saved
    BY <1>11 DEF UpdateUserBalance, SendUserToUserPayment, checkVars, callVars
  <2> QED BY <2>1, GhostKept
<1>9. CASE Crash
  <2>1. /\ step' = "down" /\ seen' = {}
        /\ \A c \in Callers : served'[c] = {} /\ pc'[c] = "idle"
    BY <1>9 DEF Crash
  <2>2. step' \notin Checking /\ step' # "latest"
    BY <2>1 DEF Checking
  <2> QED BY <2>1, <2>2 DEF GhostInv, StartInv, SeenInv, KnownInv
<1>10. CASE Start
  <2>1. /\ step' = "recover" /\ step = "down"
        /\ UNCHANGED <<seen, read, offset, locked, pc, served, saved>>
    BY <1>10 DEF Start, storeVars, callVars
  <2>2. step' \notin Checking /\ step' # "latest" /\ step \in Starting
    BY <2>1 DEF Checking, Starting
  <2> QED BY <2>1, <2>2, SettledGrows, SeenKept, KnownKept, StartKept DEF GhostInv
<1> QED
  BY <1>1, <1>2, <1>3, <1>4, <1>5, <1>6, <1>7, <1>8, <1>9, <1>10, <1>11, StartGhosts, CallGhosts
     DEF Next, Program
-----------------------------------------------------------------------------
(* What a check measures.                                                  *)

\* The moments at which a check has part of its figures.
CheckMoments == {"wallet", "change", "ops", "known", "latest"}

LEMMA Numbers ==
    ASSUME TypeOK
    PROVE  /\ users \in Int /\ wallet \in Int /\ ops \in Int /\ forwarded \in Int /\ fees \in Int
           /\ read.users \in Int /\ read.funds \in Int /\ read.missed \in Nat /\ moved \in Nat
           /\ initial.users \in Int /\ initial.funds \in Int /\ initial.missed \in Nat
           /\ initial.forwarded \in Int
           /\ MaxDiff \in Nat /\ Change \in Nat /\ PendingChange \in Int
BY WatchdogAssumption, ChangeBound
   DEF WatchdogAssumption, TypeOK, StoreTypes, LndTypes, CheckTypes

LEMMA Within ==
    ASSUME NEW d \in Int, NEW e \in Int, NEW m \in Int, NEW n \in Int,
           d <= m, -m <= d, e - d <= n, -n <= e - d
    PROVE  e <= m + n /\ -(m + n) <= e
OBVIOUS

\* Money moves while a check waits.  A check has read the fees, then the users,
\* the wallet, the change and the root operations: however far it is, the drift
\* grows at most by what moved.
LEMMA MovesCovered ==
    ASSUME IInv, TypeOK', NEW n \in Nat, Moves(n), UNCHANGED <<step, read, fees, initial>>,
           LET du == users' - users
               dw == wallet' - wallet
               dp == PendingChange' - PendingChange
               do == ops' - ops
               df == forwarded' - forwarded
           IN  {df, df + du, df + du - dw, df + du - dw - dp, df + du - dw - dp - do}
                  \subseteq -n..n
    PROVE  DriftInv'
<1> DEFINE du == users' - users
           dw == wallet' - wallet
           dp == PendingChange' - PendingChange
           do == ops' - ops
           df == forwarded' - forwarded
<1>1. /\ du \in Int /\ dw \in Int /\ dp \in Int /\ do \in Int /\ df \in Int
      /\ users' = users + du /\ wallet' = wallet + dw /\ PendingChange' = PendingChange + dp
      /\ ops' = ops + do /\ forwarded' = forwarded + df
  <2>1. TypeOK
    BY DEF IInv
  <2>2. /\ users' \in Int /\ wallet' \in Int /\ ops' \in Int /\ forwarded' \in Int
        /\ PendingChange' \in Int
    BY WatchdogAssumption DEF TypeOK, StoreTypes, LndTypes, PendingChange, WatchdogAssumption
  <2> QED BY <2>1, <2>2, Numbers
<1>2. {df, df + du, df + du - dw, df + du - dw - dp, df + du - dw - dp - do} \subseteq -n..n
  OBVIOUS
<1> HIDE DEF du, dw, dp, do, df
<1>3. /\ users \in Int /\ wallet \in Int /\ ops \in Int /\ forwarded \in Int /\ fees \in Int
      /\ read.users \in Int /\ read.funds \in Int /\ moved \in Nat /\ PendingChange \in Int
      /\ read.missed \in Int /\ initial.forwarded \in Int
  BY Numbers DEF IInv
<1>4. \/ step \notin Checking /\ Drift' = 0 /\ Drift = 0
      \/ step \in Checking /\ moved' = moved + n
  BY DEF Moves, Drift, UsersDrift, FundsDrift, FeesDrift, Checking
<1>5. CASE step \notin Checking
  BY <1>4, <1>5, <1>3 DEF Moves, DriftInv, IInv
<1>6. CASE step \in Checking
  <2>1. /\ UsersDrift \in Int /\ FundsDrift \in Int /\ FeesDrift \in Int
        /\ UsersDrift' - FundsDrift' + FeesDrift' - (UsersDrift - FundsDrift + FeesDrift)
              \in {0, df, df + du, df + du - dw, df + du - dw - dp, df + du - dw - dp - do}
        /\ UsersDrift' \in Int /\ FundsDrift' \in Int /\ FeesDrift' \in Int
    <3>1. CASE step = "fees"
      BY <1>1, <1>3, <3>1 DEF UsersDrift, FundsDrift, FeesDrift, Checking
    <3>2. CASE step \in {"negative", "users"}
      BY <1>1, <1>3, <3>2 DEF UsersDrift, FundsDrift, FeesDrift, Checking
    <3>3. CASE step = "wallet"
      BY <1>1, <1>3, <3>3 DEF UsersDrift, FundsDrift, FeesDrift, Checking
    <3>4. CASE step = "change"
      BY <1>1, <1>3, <3>4 DEF UsersDrift, FundsDrift, FeesDrift, Checking
    <3>5. CASE step = "ops"
      BY <1>1, <1>3, <3>5 DEF UsersDrift, FundsDrift, FeesDrift, Checking
    <3>6. CASE step \in {"known", "latest"}
      BY <1>1, <1>3, <3>6 DEF UsersDrift, FundsDrift, FeesDrift, Checking
    <3> QED BY <1>6, <3>1, <3>2, <3>3, <3>4, <3>5, <3>6 DEF Checking
  <2>6. PICK e : e = UsersDrift' - FundsDrift' + FeesDrift' - (UsersDrift - FundsDrift + FeesDrift)
    OBVIOUS
  <2>7. e \in -n..n
    <3>1. 0 \in -n..n
      OBVIOUS
    <3> QED BY <1>2, <2>1, <2>6, <3>1
  <2>8. Drift \in Int /\ Drift' \in Int /\ Drift' - Drift = e
    BY <2>1, <2>6 DEF Drift
  <2>5. Drift' - Drift <= n /\ -n <= Drift' - Drift /\ Drift \in Int /\ Drift' \in Int
    <3>1. \A k \in -n..n : k <= n /\ -n <= k
      OBVIOUS
    <3> QED BY <2>7, <2>8, <3>1
  <2>2. Drift <= moved /\ -moved <= Drift /\ moved' = moved + n
    BY <1>4, <1>6 DEF IInv, DriftInv
  <2>3. moved \in Int /\ n \in Int
    BY <1>3
  <2>4. Drift' <= moved' /\ -moved' <= Drift'
    BY <2>5, <2>2, <2>3, Within
  <2> QED BY <2>4 DEF DriftInv
<1> QED BY <1>5, <1>6

\* Nothing moves and the check does not go on.
LEMMA DriftKept ==
    ASSUME IInv, UNCHANGED <<step, read, fees, initial, moved, users, wallet, PendingChange, ops, forwarded>>
    PROVE  DriftInv'
<1>1. Drift' = Drift
  BY DEF Drift, UsersDrift, FundsDrift, FeesDrift
<1> QED BY <1>1 DEF IInv, DriftInv

LEMMA WorldDrift == ASSUME IInv, World, TypeOK' PROVE DriftInv'
<1> USE Numbers DEF IInv
<1>1. UNCHANGED <<storeVars, checkVars, users, ops, chainRow, step, read, fees, initial>>
  BY WorldKeepsTypes DEF storeVars, checkVars
<1>2. CASE SpendUnknown \/ \E i \in Indexes : Settle(i)
  <2>1. Moves(1) /\ wallet' = wallet - 1 /\ UNCHANGED <<chain, forwarded>>
    BY <1>2 DEF SpendUnknown, Settle
  <2>2. PendingChange' = PendingChange
    BY <1>1, <2>1 DEF PendingChange
  <2> QED BY <1>1, <2>1, <2>2, MovesCovered
<1>3. CASE \E r \in Receipts : Receive(r)
  <2>1. Moves(1) /\ wallet' = wallet + 1 /\ UNCHANGED <<chain, forwarded>>
    BY <1>3 DEF Receive
  <2>2. PendingChange' = PendingChange
    BY <1>1, <2>1 DEF PendingChange
  <2> QED BY <1>1, <2>1, <2>2, MovesCovered
<1>4. CASE \E i \in Indexes : Fail(i)
  <2>1. UNCHANGED <<wallet, chain, forwarded, moved>>
    BY <1>4 DEF Fail
  <2> QED BY <1>1, <2>1, DriftKept DEF PendingChange
<1>5. CASE ConfirmChain
  <2>1. Moves(Change) /\ wallet' = wallet + Change /\ forwarded' = forwarded
    BY <1>5 DEF ConfirmChain
  <2>2. PendingChange' = PendingChange \/ PendingChange' = PendingChange - Change
    BY <1>1, <1>5 DEF ConfirmChain, PendingChange
  <2> QED BY <1>1, <2>1, <2>2, MovesCovered
<1>6. CASE Forward
  <2>1. Moves(1) /\ wallet' = wallet + 1 /\ forwarded' = forwarded + 1 /\ UNCHANGED chain
    BY <1>6 DEF Forward
  <2>2. PendingChange' = PendingChange
    BY <1>1, <2>1 DEF PendingChange
  <2> QED BY <1>1, <2>1, <2>2, MovesCovered
<1> QED BY <1>2, <1>3, <1>4, <1>5, <1>6 DEF World

\* Outside a check there is nothing to drift.
LEMMA NoDrift == ASSUME TypeOK', step' \notin Checking PROVE DriftInv'
<1>1. Drift' = 0
  BY DEF Drift, UsersDrift, FundsDrift, FeesDrift, Checking
<1>2. \A m \in Nat : 0 <= m /\ -m <= 0
  OBVIOUS
<1>3. moved' \in Nat
  BY DEF TypeOK
<1> QED BY <1>1, <1>2, <1>3 DEF DriftInv

LEMMA CheckDrift == ASSUME IInv, CheckStep, TypeOK' PROVE DriftInv'
<1> USE Numbers DEF IInv
<1> USE DEF storeVars, lndVars
<1>1. CASE FeesFail \/ FoundNegative \/ Decide \/ CheckThrows
  <2>1. step' = "idle"
    BY <1>1 DEF FeesFail, FoundNegative, Decide, CheckThrows, Answer
  <2> QED BY <2>1, NoDrift DEF Checking
<1>2. CASE ReadFees
  <2>1. Drift' = Drift /\ moved' = moved
    BY <1>2 DEF ReadFees, Drift, UsersDrift, FundsDrift, FeesDrift, Checking
  <2> QED BY <2>1 DEF DriftInv
<1>3. CASE NoNegative
  <2>1. Drift' = Drift /\ moved' = moved
    BY <1>3 DEF NoNegative, Drift, UsersDrift, FundsDrift, FeesDrift, Checking
  <2> QED BY <2>1 DEF DriftInv
<1>4. read \in [users : Int, funds : Int, missed : Nat, known : 0..MaxIndex]
  BY DEF TypeOK, CheckTypes
<1>5. CASE ReadUsers
  <2>1. read'.users = users /\ read'.funds = read.funds
    BY <1>4, <1>5 DEF ReadUsers
  <2>2. Drift' = Drift /\ moved' = moved
    BY <1>5, <2>1 DEF ReadUsers, Drift, UsersDrift, FundsDrift, FeesDrift, Checking
  <2> QED BY <2>2 DEF DriftInv
<1>6. CASE ReadWallet
  <2>1. read'.users = read.users /\ read'.funds = wallet
    BY <1>4, <1>6 DEF ReadWallet
  <2>2. Drift' = Drift /\ moved' = moved
    BY <1>6, <2>1 DEF ReadWallet, Drift, UsersDrift, FundsDrift, FeesDrift, Checking
  <2> QED BY <2>2 DEF DriftInv
<1>7. CASE ReadChange
  <2>1. /\ read'.users = read.users /\ read'.missed \in Int /\ read'.funds \in Int
        /\ read'.funds + read'.missed = read.funds + PendingChange
    BY <1>7, ReadLearns DEF TypeOK, CheckTypes
  <2>2. PendingChange' = PendingChange
    BY <1>7 DEF ReadChange, MissesChange, PendingChange
  <2>3. Drift' = Drift /\ moved' = moved
    BY <1>7, <2>1, <2>2 DEF ReadChange, Drift, UsersDrift, FundsDrift, FeesDrift, Checking
  <2> QED BY <2>3 DEF DriftInv
<1>8. CASE ReadOps
  <2>1. read'.users = read.users /\ read'.funds = read.funds + ops /\ read'.missed = read.missed
    BY <1>4, <1>8 DEF ReadOps
  <2>2. PendingChange' = PendingChange
    BY <1>8 DEF ReadOps, PendingChange
  <2>3. Drift' = Drift /\ moved' = moved
    BY <1>8, <2>1, <2>2 DEF ReadOps, Drift, UsersDrift, FundsDrift, FeesDrift, Checking
  <2> QED BY <2>3 DEF DriftInv
<1>9. CASE ReadKnown
  <2>1. read'.users = read.users /\ read'.funds = read.funds /\ read'.missed = read.missed
    BY <1>4, <1>9 DEF ReadKnown
  <2>2. PendingChange' = PendingChange
    BY <1>9 DEF ReadKnown, PendingChange
  <2>3. Drift' = Drift /\ moved' = moved
    BY <1>9, <2>1, <2>2 DEF ReadKnown, Drift, UsersDrift, FundsDrift, FeesDrift, Checking
  <2> QED BY <2>3 DEF DriftInv
<1> QED BY <1>1, <1>2, <1>3, <1>5, <1>6, <1>7, <1>8, <1>9 DEF CheckStep

LEMMA OpensDrift ==
    ASSUME IInv, TypeOK', OpensCheck, UNCHANGED <<storeVars, lndVars, read, fees, initial>>
    PROVE  DriftInv'
<1>1. PendingChange' = PendingChange /\ UNCHANGED <<users, wallet, ops, forwarded>>
  BY DEF PendingChange, storeVars, lndVars
<1>2. CASE step = "idle"
  <2>1. step' = "fees" /\ moved' = 0
    BY <1>2 DEF OpensCheck
  <2>2. Drift' = 0
    BY <2>1 DEF Drift, UsersDrift, FundsDrift, FeesDrift
  <2> QED BY <2>1, <2>2 DEF DriftInv
<1>3. CASE step # "idle"
  BY <1>1, <1>3, DriftKept DEF OpensCheck
<1> QED BY <1>2, <1>3

LEMMA CallDrift ==
    ASSUME IInv, TypeOK', NEW c \in Callers, Ask(c) \/ CallStep(c) PROVE DriftInv'
<1> USE Numbers DEF IInv
<1>1. CASE Ask(c)
  BY <1>1, OpensDrift DEF Ask
<1>2. CASE Send(c)
  <2>1. UNCHANGED <<step, read, fees, initial, moved, users, wallet, chain, chainRow, ops, forwarded>>
    BY <1>2 DEF Send, checkVars
  <2> QED BY <2>1, DriftKept DEF PendingChange
<1>3. CASE Reserve(c) \/ Refuse(c) \/ Finish(c)
  <2>1. /\ Moves(1) /\ UNCHANGED <<step, read, fees, initial, wallet, chain, chainRow, ops, forwarded>>
        /\ users' \in {users - 1, users, users + 1}
    BY <1>3 DEF Reserve, Refuse, Finish, checkVars, lndVars
  <2>2. PendingChange' = PendingChange
    BY <2>1 DEF PendingChange
  <2> QED BY <2>1, <2>2, MovesCovered
<1> QED BY <1>1, <1>2, <1>3 DEF CallStep

LEMMA AdminDrift == ASSUME IInv, TypeOK', AdminStep PROVE DriftInv'
<1> USE Numbers, WatchdogAssumption DEF IInv, WatchdogAssumption
<1>1. UNCHANGED <<step, read, fees, initial, users>>
  BY DEF AdminStep, AdminPaysInvoice, AdminInvoiceEnds, AdminPaysAddress, RecordChain,
         storeVars, checkVars
<1>2. CASE AdminPaysInvoice
  <2>1. UNCHANGED <<moved, wallet, chain, chainRow, ops, forwarded>>
    BY <1>2 DEF AdminPaysInvoice, storeVars
  <2> QED BY <1>1, <2>1, DriftKept DEF PendingChange
<1>3. CASE AdminInvoiceEnds
  <2>1. Moves(1) /\ ops' \in {ops, ops + 1} /\ UNCHANGED <<wallet, chain, chainRow, forwarded>>
    BY <1>3 DEF AdminInvoiceEnds, lndVars
  <2>2. PendingChange' = PendingChange
    BY <2>1 DEF PendingChange
  <2> QED BY <1>1, <2>1, <2>2, MovesCovered
<1>4. CASE AdminPaysAddress
  <2>1. /\ Moves(1 + Change) /\ wallet' = wallet - (1 + Change)
        /\ UNCHANGED <<ops, forwarded>>
    BY <1>4 DEF AdminPaysAddress, storeVars
  <2>2. PendingChange' - PendingChange \in 0..Change
    BY <1>4 DEF AdminPaysAddress, PendingChange, storeVars
  <2>3. PendingChange' \in Int /\ wallet' - wallet = -(1 + Change) /\ 1 + Change \in Nat
    BY <2>1 DEF PendingChange
  <2> QED BY <1>1, <2>1, <2>2, <2>3, MovesCovered
<1>5. CASE RecordChain
  <2>1. Moves(1 + Change) /\ ops' = ops + 1 /\ UNCHANGED <<wallet, chain, forwarded>>
    BY <1>5 DEF RecordChain, lndVars
  <2>2. PendingChange' - PendingChange \in 0..Change
    BY <1>5 DEF RecordChain, PendingChange, lndVars
  <2>3. PendingChange' \in Int /\ ops' - ops = 1 /\ 1 + Change \in Nat
    BY <2>1 DEF PendingChange
  <2>4. users' - users = 0 /\ wallet' - wallet = 0 /\ forwarded' - forwarded = 0
    BY <1>1, <2>1
  <2>5. PICK p \in 0..Change : PendingChange' - PendingChange = p
    BY <2>2
  <2>6. {0, 0 + 0, 0 + 0 - 0, 0 + 0 - 0 - p, 0 + 0 - 0 - p - 1} \subseteq -(1 + Change)..(1 + Change)
    OBVIOUS
  <2> QED BY <1>1, <2>1, <2>3, <2>4, <2>5, <2>6, MovesCovered
<1> QED BY <1>2, <1>3, <1>4, <1>5 DEF AdminStep

LEMMA DriftStep == IInv /\ [Next]_vars => DriftInv'
<1> SUFFICES ASSUME IInv, [Next]_vars PROVE DriftInv'
  OBVIOUS
<1>1. TypeOK'
  BY StepKeepsTypes
<1>2. CASE StartWatching
  <2>1. step' \notin Checking
    BY <1>2 DEF StartWatching, Recover, BaseUsers, BaseWallet, BaseChange, BaseFees, BaseKnown,
                BaseLatest, Checking
  <2> QED BY <1>1, <2>1, NoDrift
<1>3. CASE Tick
  BY <1>1, <1>3, OpensDrift DEF Tick
<1>4. CASE Crash \/ Start
  <2>1. step' \notin Checking
    BY <1>4 DEF Crash, Start, Checking
  <2> QED BY <1>1, <2>1, NoDrift
<1>5. ASSUME NEW i \in Indexes, SaveIndex(i) \/ LoseIndex(i) PROVE DriftInv'
  <2>1. UNCHANGED <<step, read, fees, initial, moved, users, wallet, chain, chainRow, ops, forwarded>>
    BY <1>5 DEF SaveIndex, LoseIndex, storeVars, lndVars, checkVars
  <2> QED BY <2>1, DriftKept DEF PendingChange
<1>6. ASSUME NEW r \in Receipts, Credit(r) PROVE DriftInv'
  <2>1. /\ Moves(1) /\ users' = users + 1
        /\ UNCHANGED <<step, read, fees, initial, wallet, chain, chainRow, ops, forwarded>>
    BY <1>6 DEF Credit, checkVars
  <2>2. PendingChange' = PendingChange
    BY <2>1 DEF PendingChange
  <2>3. TypeOK
    BY DEF IInv
  <2> QED BY <1>1, <2>1, <2>2, <2>3, Numbers, MovesCovered
<1>8. ASSUME NEW r \in Receipts, RecordRoot(r) PROVE DriftInv'
  <2>1. /\ Moves(1) /\ ops' = ops - 1
        /\ UNCHANGED <<step, read, fees, initial, users, wallet, chain, chainRow, forwarded>>
    BY <1>8 DEF RecordRoot, checkVars
  <2>2. PendingChange' = PendingChange
    BY <2>1 DEF PendingChange
  <2>3. TypeOK
    BY DEF IInv
  <2> QED BY <1>1, <2>1, <2>2, <2>3, Numbers, MovesCovered
<1>9. CASE UpdateUserBalance \/ SendUserToUserPayment
  <2>1. UNCHANGED <<step, read, fees, initial, moved, users, wallet, chain, chainRow, ops,
                    forwarded>>
    BY <1>9 DEF UpdateUserBalance, SendUserToUserPayment, checkVars, lndVars
  <2> QED BY <2>1, DriftKept DEF PendingChange
<1>7. CASE UNCHANGED vars
  BY <1>7, DriftKept DEF vars, storeVars, lndVars, checkVars, PendingChange
<1> QED
  BY <1>1, <1>2, <1>3, <1>4, <1>5, <1>6, <1>7, <1>8, <1>9, WorldDrift, CheckDrift, CallDrift, AdminDrift
     DEF Next, Program

-----------------------------------------------------------------------------
(* The alarm.                                                              *)

\* How much more the users own than the node, by the figures of a check.
Gap == DeltaUsers - DeltaLnd

\* The three cases of checkDeltas amount to one: a loss is a positive gap, and
\* its size is the gap.
LEMMA LossIsGap ==
    ASSUME NEW l \in Int, NEW u \in Int
    PROVE  /\ Lost(l, u) <=> u - l > 0
           /\ Lost(l, u) => AbsoluteDiff(l, u) = u - l
BY DEF Lost, AbsoluteDiff, DeltasType, Abs

LEMMA FlagIsGap ==
    ASSUME NEW l \in Int, NEW u \in Int, MaxDiff \in Nat
    PROVE  /\ ~disrupted /\ Flag(l, u) => u - l > MaxDiff
           /\ disrupted /\ ~Flag(l, u) => u - l <= 0
<1>1. CASE Lost(l, u)
  BY <1>1, LossIsGap DEF Flag
<1>2. CASE ~Lost(l, u)
  BY <1>2, LossIsGap DEF Flag
<1> QED BY <1>1, <1>2

Measured ==
    /\ ~disrupted /\ disrupted' => Shortfall + moved + read.missed > MaxDiff + initial.missed
    /\ disrupted /\ ~disrupted' => Shortfall + read.missed <= moved + initial.missed

LEMMA AlarmStep == IInv /\ [Next]_vars => [Measured]_vars
<1> SUFFICES ASSUME IInv, [Next]_vars, disrupted' # disrupted PROVE Measured
  BY DEF Measured
<1>1. Decide
  <2>1. CASE World \/ UNCHANGED vars
    BY <2>1, WorldKeepsTypes DEF vars, storeVars
  <2>2. CASE StartWatching
    BY <2>2 DEF StartWatching, Recover, BaseUsers, BaseWallet, BaseChange, BaseFees, BaseKnown,
                BaseLatest, storeVars
  <2>3. CASE CheckStep
    BY <2>3 DEF CheckStep, ReadFees, FeesFail, NoNegative, FoundNegative, ReadUsers, ReadWallet,
                ReadChange, ReadOps, ReadKnown, CheckThrows, storeVars
  <2>4. CASE Tick \/ AdminStep \/ Crash \/ Start
    BY <2>4 DEF Tick, AdminStep, AdminPaysInvoice, AdminInvoiceEnds, AdminPaysAddress, RecordChain,
                Crash, Start, storeVars
  <2>5. ASSUME NEW c \in Callers, Ask(c) \/ CallStep(c) PROVE FALSE
    BY <2>5 DEF Ask, CallStep, Reserve, Refuse, Send, Finish, storeVars
  <2>6. CASE (\E i \in Indexes : SaveIndex(i) \/ LoseIndex(i)) \/ (\E r \in Receipts : Credit(r) \/ RecordRoot(r))
          \/ UpdateUserBalance \/ SendUserToUserPayment
    BY <2>6 DEF SaveIndex, LoseIndex, Credit, RecordRoot, UpdateUserBalance,
                SendUserToUserPayment, storeVars
  <2> QED BY <2>1, <2>2, <2>3, <2>4, <2>5, <2>6 DEF Next, Program
<1>2. /\ users \in Int /\ wallet \in Int /\ ops \in Int /\ forwarded \in Int /\ fees \in Int
      /\ read.users \in Int /\ read.funds \in Int /\ moved \in Nat /\ PendingChange \in Int
      /\ initial.users \in Int /\ initial.funds \in Int /\ MaxDiff \in Nat
      /\ read.missed \in Nat /\ initial.missed \in Nat /\ initial.forwarded \in Int
  BY Numbers DEF IInv
<1>3. DeltaUsers \in Int /\ DeltaLnd \in Int /\ Gap \in Int /\ Shortfall \in Int
  BY <1>2 DEF DeltaUsers, DeltaLnd, Gap, Shortfall
<1> DEFINE Truth == Shortfall - initial.missed + read.missed
<1>4. Truth - Gap = Drift
  BY <1>1, <1>2 DEF Decide, Shortfall, Gap, DeltaUsers, DeltaLnd, Drift, UsersDrift, FundsDrift,
                    FeesDrift, Checking
<1>5. Truth - Gap <= moved /\ -moved <= Truth - Gap
  BY <1>4 DEF IInv, DriftInv
<1>6. disrupted' = Flag(DeltaLnd, DeltaUsers)
  BY <1>1 DEF Decide
<1>7. /\ ~disrupted /\ disrupted' => Gap > MaxDiff
      /\ disrupted /\ ~disrupted' => Gap <= 0
  BY <1>2, <1>3, <1>6, FlagIsGap DEF Gap
<1> QED BY <1>2, <1>3, <1>5, <1>7 DEF Measured

-----------------------------------------------------------------------------
(* The theorems.                                                           *)

LEMMA StepInv == IInv /\ [Next]_vars => IInv'
BY StepKeepsTypes, WaitersStep, GhostStep, DriftStep DEF IInv, GhostInv

LEMMA Inductive == Spec => []IInv
BY InitInv, StepInv, PTL DEF Spec

\* Type correctness, for any callers, payments, receipts and limits.
THEOREM TypeCorrect == Spec => []TypeOK
<1>1. IInv => TypeOK
  BY DEF IInv
<1> QED BY <1>1, Inductive, PTL

\* FunctionQueue loses no caller: a check runs as long as anybody waits.
THEOREM WaitersHeard == Spec => []WaitersAreHeard
<1>1. IInv => WaitersAreHeard
  BY DEF IInv
<1> QED BY <1>1, Inductive, PTL

\* A payment that was complete when a check began, and that nothing accounts for,
\* stops whatever the check admits, however its awaits interleave with payments,
\* index writes, ticks and crashes.
THEOREM UnknownStopped == Spec => []UnknownStops
<1>1. IInv => UnknownStops
  BY DEF IInv, KnownInv, UnknownStops
<1> QED BY <1>1, Inductive, PTL

\* The alarm errs at most by what moved while the check ran and by the change GetTx
\* did not tell, for any limit, change and history.
THEOREM AlarmMeasured == Spec => AlarmIsMeasured
<1>1. IInv /\ [Next]_vars => [Measured]_vars
  BY AlarmStep
<1>2. [][Measured]_vars => AlarmIsMeasured
  BY PTL DEF Measured, AlarmIsMeasured
<1> QED BY <1>1, <1>2, Inductive, PTL DEF Spec
=============================================================================
