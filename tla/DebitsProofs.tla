---------------------------- MODULE DebitsProofs ----------------------------
(***************************************************************************)
(* Proofs about Debits: types, the cap per interval, and that nothing is   *)
(* drawn without a standing access, for any requests, rules, interval and  *)
(* length of time.                                                         *)
(***************************************************************************)
EXTENDS Debits, FiniteSetTheorems, TLAPS

\* The time a reservation is measured at: its settlement, or the present.
Measured(r) == IF status[r] = "paid" THEN paidAt[r] ELSE now

\* The debits before r that share an interval with it, and r.
Near(r) ==
    {q \in ahead[r] \union {r} :
        \/ status[q] = "pending"
        \/ status[q] = "paid" /\ paidAt[q] > Measured(r) - Interval}

\* Where there is a standing access, the user was told so last.
WordInv == access.state = "granted" => word = "allow"

\* Rows before a reservation are not reserved again.
AheadInv == \A r \in Requests : \A q \in ahead[r] : status[q] # "none"

\* CapRespected is not inductive: it says nothing of debits still pending.
\* Near counts them too, and only ever shrinks.
CapInv ==
    \A r \in Requests :
        capAt[r] # NoCap =>
            /\ status[r] \in {"pending", "paid"}
            /\ Cost * Cardinality(Near(r)) <= capAt[r]

IInv == TypeOK /\ WordInv /\ AheadInv /\ CapInv

-----------------------------------------------------------------------------
LEMMA TimesMonotone ==
    ASSUME NEW c \in Nat, NEW a \in Nat, NEW b \in Nat, a <= b
    PROVE  c * a <= c * b
<1>1. PICK d \in Nat : b = a + d
  <2>1. b - a \in Nat /\ b = a + (b - a)
    OBVIOUS
  <2> QED BY <2>1
<1>2. c * b = c * a + c * d /\ c * d \in Nat /\ c * a \in Nat
  BY <1>1
<1> QED BY <1>2

\* A smaller set costs no more.
LEMMA CostMonotone ==
    ASSUME NEW S \in SUBSET Requests, NEW R \in SUBSET S
    PROVE  /\ Cardinality(S) \in Nat /\ Cardinality(R) \in Nat
           /\ Cost * Cardinality(R) <= Cost * Cardinality(S)
<1>1. IsFiniteSet(S)
  BY ConstantsAssumption, FS_Subset
<1>2. IsFiniteSet(R) /\ Cardinality(R) <= Cardinality(S)
  BY <1>1, FS_Subset
<1>3. Cardinality(R) \in Nat /\ Cardinality(S) \in Nat
  BY <1>1, <1>2, FS_CardinalityType
<1> QED BY <1>2, <1>3, TimesMonotone, ConstantsAssumption

\* A reservation whose cap stays and whose Near shrinks keeps to its cap.
LEMMA Shrinks ==
    ASSUME TypeOK, TypeOK', CapInv, NEW r \in Requests,
           capAt'[r] # NoCap => /\ capAt'[r] = capAt[r]
                                /\ status'[r] \in {"pending", "paid"}
                                /\ Near(r)' \subseteq Near(r)
    PROVE  capAt'[r] # NoCap => /\ status'[r] \in {"pending", "paid"}
                                /\ Cost * Cardinality(Near(r)') <= capAt'[r]
<1> SUFFICES ASSUME capAt'[r] # NoCap
             PROVE  Cost * Cardinality(Near(r)') <= capAt'[r]
  OBVIOUS
<1>1. Near(r) \in SUBSET Requests /\ Near(r)' \in SUBSET Near(r)
  BY DEF Near, TypeOK
<1>2. Cost * Cardinality(Near(r)) <= capAt[r] /\ capAt[r] \in Nat
  BY DEF CapInv, TypeOK
<1>3. Cardinality(Near(r)) \in Nat /\ Cardinality(Near(r)') \in Nat
      /\ Cost * Cardinality(Near(r)') <= Cost * Cardinality(Near(r))
  BY <1>1, CostMonotone
<1>4. Cost * Cardinality(Near(r)) \in Nat /\ Cost * Cardinality(Near(r)') \in Nat
  BY <1>3, ConstantsAssumption
<1> QED BY <1>2, <1>3, <1>4

-----------------------------------------------------------------------------
(* Types.                                                                  *)

LEMMA RuleTypes == ConstantsAssumption => NoRule \in Rules \union {NoRule} /\ NoAccess \in Accesses
BY DEF NoAccess, Accesses

LEMMA InitInv == Init => IInv
<1> SUFFICES ASSUME Init PROVE IInv
  OBVIOUS
<1>1. TypeOK
  BY ConstantsAssumption, RuleTypes DEF Init, TypeOK
<1>2. WordInv /\ AheadInv /\ CapInv
  BY DEF Init, WordInv, AheadInv, CapInv, NoAccess
<1> QED BY <1>1, <1>2 DEF IInv

LEMMA EnterTypes ==
    ASSUME TypeOK, NEW r \in Requests, NEW p \in {"idle", "read", "checked"},
           NEW m \in {"auto", "once", "own"}, NEW a \in Accesses, Enter(r, p, m, a)
    PROVE  /\ pc' \in [Requests -> {"idle", "read", "checked"}]
           /\ mode' \in [Requests -> {"auto", "once", "own"}]
           /\ seen' \in [Requests -> Accesses]
BY DEF TypeOK, Enter

LEMMA EndTypes ==
    ASSUME TypeOK, NEW r \in Requests, End(r)
    PROVE  /\ pc' \in [Requests -> {"idle", "read", "checked"}]
           /\ mode' \in [Requests -> {"auto", "once", "own"}]
           /\ seen' \in [Requests -> Accesses]
<1>1. NoAccess \in Accesses
  BY ConstantsAssumption, RuleTypes
<1> QED BY <1>1, EnterTypes DEF End

LEMMA UserTypes == TypeOK /\ User => TypeOK'
<1> SUFFICES ASSUME TypeOK, User PROVE TypeOK'
  OBVIOUS
<1>0. NoAccess \in Accesses /\ \A rule \in Rules : Granted(rule) \in Accesses
  BY ConstantsAssumption, RuleTypes DEF Granted, Accesses
<1>1. CASE \E rule \in Rules : Authorize(rule)
  BY <1>0, <1>1 DEF Authorize, Grant, TypeOK, requestVars, rowVars, history
<1>2. CASE \E rule \in Rules : EditDebit(rule)
  <2>1. PICK rule \in Rules : EditDebit(rule)
    BY <1>2
  <2>2. access' \in Accesses
    BY <2>1 DEF EditDebit, TypeOK, Accesses
  <2> QED BY <2>1, <2>2 DEF EditDebit, TypeOK, requestVars, rowVars, history
<1>3. CASE \E r \in Requests, rule \in Rules : AuthorizeAndPay(r, rule)
  <2>1. PICK r \in Requests, rule \in Rules : AuthorizeAndPay(r, rule)
    BY <1>3
  <2>2. Enter(r, "read", "auto", Granted(rule)) /\ Granted(rule) \in Accesses
    BY <2>1, <1>0 DEF AuthorizeAndPay
  <2> QED BY <2>1, <2>2, EnterTypes DEF AuthorizeAndPay, Grant, TypeOK, rowVars, history
<1>4. CASE \E r \in Requests, m \in {"once", "own"} : Approve(r, m)
  <2>1. PICK r \in Requests, m \in {"once", "own"} : Approve(r, m)
    BY <1>4
  <2>2. Enter(r, "checked", m, NoAccess)
    BY <2>1 DEF Approve
  <2> QED BY <2>1, <2>2, <1>0, EnterTypes DEF Approve, TypeOK, rowVars, history
<1>5. CASE ResetDebit
  BY <1>0, <1>5 DEF ResetDebit, TypeOK, requestVars, rowVars, history
<1>6. CASE BanReads
  BY <1>6 DEF BanReads, TypeOK, requestVars, rowVars, history
<1>7. CASE BanAdds
  <2>1. [state |-> "banned", rule |-> NoRule] \in Accesses
    BY DEF Accesses
  <2> QED BY <1>7, <2>1 DEF BanAdds, TypeOK, requestVars, rowVars, history
<1>8. CASE BanUpdates
  <2>1. [access EXCEPT !.state = "banned"] \in Accesses
    BY DEF Accesses, TypeOK
  <2> QED BY <1>8, <2>1 DEF BanUpdates, TypeOK, requestVars, rowVars, history
<1> QED BY <1>1, <1>2, <1>3, <1>4, <1>5, <1>6, <1>7, <1>8 DEF User

LEMMA RequestTypes ==
    ASSUME TypeOK, NEW r \in Requests,
           Arrive(r) \/ Valid(r) \/ Expired(r) \/ Refuse(r) \/ Reserve(r) \/ Settle(r) \/ Refund(r)
    PROVE  TypeOK'
<1>0. NoAccess \in Accesses
  BY ConstantsAssumption, RuleTypes
<1>1. CASE Arrive(r)
  <2>1. Enter(r, "read", "auto", access) /\ access \in Accesses
    BY <1>1 DEF Arrive, TypeOK
  <2> QED BY <1>1, <2>1, EnterTypes DEF Arrive, TypeOK, rowVars, history
<1>2. CASE Valid(r)
  <2>1. Enter(r, "checked", "auto", NoAccess)
    BY <1>2 DEF Valid
  <2> QED BY <1>0, <1>2, <2>1, EnterTypes DEF Valid, TypeOK, rowVars, history
<1>3. CASE Expired(r)
  BY <1>0, <1>3, EndTypes DEF Expired, TypeOK, rowVars, history
<1>4. CASE Refuse(r)
  BY <1>4, EndTypes DEF Refuse, TypeOK, rowVars, history
<1>5. CASE Reserve(r)
  <2>1. status' \in [Requests -> {"none", "pending", "paid", "failed"}] /\ paidAt' \in [Requests -> Nat]
    BY <1>5 DEF Reserve, TypeOK
  <2>2. capAt' \in [Requests -> Nat \union {NoCap}]
    <3>1. access.rule.cap \in Nat \union {NoCap}
      BY ConstantsAssumption DEF TypeOK, Accesses, NoRule
    <3> QED BY <1>5, <3>1 DEF Reserve, TypeOK, history
  <2>3. ahead' \in [Requests -> SUBSET Requests]
    BY <1>5 DEF Reserve, TypeOK, history
  <2> QED BY <1>5, <2>1, <2>2, <2>3, EndTypes DEF Reserve, TypeOK
<1>6. CASE Settle(r)
  BY <1>6 DEF Settle, TypeOK, requestVars, history
<1>7. CASE Refund(r)
  BY <1>7 DEF Refund, TypeOK, requestVars
<1> QED BY <1>1, <1>2, <1>3, <1>4, <1>5, <1>6, <1>7

LEMMA TypeStep == TypeOK /\ [Next]_vars => TypeOK'
<1> SUFFICES ASSUME TypeOK, [Next]_vars PROVE TypeOK'
  OBVIOUS
<1>1. CASE User
  BY <1>1, UserTypes
<1>2. CASE Crash
  <2>1. NoAccess \in Accesses
    BY ConstantsAssumption, RuleTypes
  <2> QED BY <1>2, <2>1 DEF Crash, TypeOK, rowVars, history
<1>3. CASE Tick
  BY <1>3 DEF Tick, TypeOK, requestVars, rowVars, history
<1>4. CASE \E r \in Requests :
             Arrive(r) \/ Valid(r) \/ Expired(r) \/ Refuse(r) \/ Reserve(r) \/ Settle(r) \/ Refund(r)
  BY <1>4, RequestTypes
<1>5. CASE UNCHANGED vars
  BY <1>5 DEF vars, TypeOK, requestVars, rowVars, history
<1> QED BY <1>1, <1>2, <1>3, <1>4, <1>5 DEF Next

-----------------------------------------------------------------------------
(* The inductive step.                                                     *)

\* Steps that change neither rows, clock nor history keep the rest.
LEMMA RowsUnchanged ==
    ASSUME IInv, UNCHANGED <<rowVars, now, history>>
    PROVE  AheadInv' /\ CapInv'
<1>1. \A r \in Requests : Near(r)' = Near(r)
  BY DEF Near, Measured, rowVars, history
<1> QED BY <1>1 DEF IInv, AheadInv, CapInv, rowVars, history

LEMMA UserStep == IInv /\ User => WordInv' /\ AheadInv' /\ CapInv'
<1> SUFFICES ASSUME IInv, User PROVE WordInv' /\ AheadInv' /\ CapInv'
  OBVIOUS
<1>1. UNCHANGED <<rowVars, now, history>>
  BY DEF User, Authorize, EditDebit, AuthorizeAndPay, Approve, ResetDebit, BanReads, BanAdds, BanUpdates
<1>2. WordInv'
  <2>1. CASE \E rule \in Rules : Grant(rule)
    BY <2>1 DEF Grant, WordInv
  <2>2. CASE \E rule \in Rules : EditDebit(rule)
    BY <2>2 DEF EditDebit, WordInv, IInv, TypeOK, Accesses
  <2>3. CASE \E r \in Requests, m \in {"once", "own"} : Approve(r, m)
    BY <2>3 DEF Approve, WordInv, IInv
  <2>4. CASE ResetDebit
    BY <2>4 DEF ResetDebit, WordInv, NoAccess
  <2>5. CASE BanReads \/ BanAdds
    BY <2>5 DEF BanReads, BanAdds, WordInv, IInv
  <2>6. CASE BanUpdates
    BY <2>6 DEF BanUpdates, WordInv, IInv, TypeOK, Accesses
  <2> QED BY <2>1, <2>2, <2>3, <2>4, <2>5, <2>6 DEF User, Authorize, AuthorizeAndPay
<1> QED BY <1>1, <1>2, RowsUnchanged

LEMMA ReserveStep ==
    ASSUME IInv, TypeOK', NEW r0 \in Requests, Reserve(r0)
    PROVE  AheadInv' /\ CapInv'
<1>1. /\ status[r0] = "none" /\ status'[r0] \in {"pending", "paid"}
      /\ \A q \in Requests : q # r0 => status'[q] = status[q] /\ paidAt'[q] = paidAt[q]
      /\ now' = now /\ (status'[r0] = "paid" => paidAt'[r0] = now)
  BY DEF Reserve, IInv, TypeOK
<1>2. \A r \in Requests : r # r0 => capAt'[r] = capAt[r] /\ ahead'[r] = ahead[r]
  BY DEF Reserve, IInv, TypeOK, history
<1>3. AheadInv'
  <2>1. ahead'[r0] = ahead[r0] \/ ahead'[r0] = {q \in Requests : status[q] \in {"pending", "paid"}}
    BY DEF Reserve, IInv, TypeOK, history
  <2>2. \A q \in Requests : status[q] # "none" => status'[q] # "none"
    BY <1>1
  <2> QED BY <1>2, <2>1, <2>2 DEF AheadInv, IInv, TypeOK
<1>4. CapInv'
  <2> SUFFICES ASSUME NEW r \in Requests
               PROVE  capAt'[r] # NoCap => /\ status'[r] \in {"pending", "paid"}
                                           /\ Cost * Cardinality(Near(r)') <= capAt'[r]
    BY DEF CapInv
  <2>1. CASE r # r0
    <3>1. capAt[r] # NoCap => Near(r)' \subseteq Near(r)
      BY <1>1, <1>2, <2>1 DEF Near, Measured, IInv, AheadInv, CapInv, TypeOK
    <3>2. capAt[r] # NoCap => status'[r] \in {"pending", "paid"}
      BY <1>1, <2>1 DEF IInv, CapInv
    <3> QED BY <1>2, <2>1, <3>1, <3>2, Shrinks DEF IInv
  <2>2. CASE r = r0 /\ capAt'[r] # NoCap
    <3>1. capAt[r0] = NoCap
      BY <1>1 DEF IInv, CapInv
    <3>2. /\ mode[r0] # "own" /\ access.rule.cap # NoCap /\ capAt'[r0] = access.rule.cap
          /\ ahead'[r0] = {q \in Requests : status[q] \in {"pending", "paid"}}
      BY <2>2, <3>1 DEF Reserve, IInv, TypeOK, history
    <3>3. Cost * (Cardinality(Counted) + 1) <= capAt'[r0]
      BY <3>2 DEF Reserve, AssertDebitFrequency, WithinCap
    <3>4. Near(r0)' \subseteq Counted \union {r0}
      BY <1>1, <3>2 DEF Near, Measured, Counted
    <3>5. r0 \notin Counted /\ Counted \in SUBSET Requests
      BY <1>1 DEF Counted
    <3>6. IsFiniteSet(Counted)
      BY <3>5, ConstantsAssumption, FS_Subset
    <3>7. Cardinality(Counted \union {r0}) = Cardinality(Counted) + 1
      BY <3>5, <3>6, FS_AddElement
    <3>8. /\ Cardinality(Counted \union {r0}) \in Nat /\ Cardinality(Near(r0)') \in Nat
          /\ Cost * Cardinality(Near(r0)') <= Cost * Cardinality(Counted \union {r0})
      BY <3>4, <3>5, CostMonotone
    <3>9. capAt'[r0] \in Nat
      BY <2>2 DEF TypeOK
    <3>10. /\ Cost * Cardinality(Near(r0)') \in Nat
           /\ Cost * Cardinality(Counted \union {r0}) \in Nat
      BY <3>8, ConstantsAssumption
    <3>11. Cost * Cardinality(Counted \union {r0}) <= capAt'[r0]
      BY <3>3, <3>7
    <3>12. Cost * Cardinality(Near(r0)') <= capAt'[r0]
      BY <3>8, <3>9, <3>10, <3>11
    <3> QED BY <1>1, <2>2, <3>12
  <2> QED BY <2>1, <2>2
<1> QED BY <1>3, <1>4

LEMMA SettleStep ==
    ASSUME IInv, TypeOK', NEW r0 \in Requests, Settle(r0)
    PROVE  AheadInv' /\ CapInv'
<1>1. /\ status[r0] = "pending" /\ status'[r0] = "paid" /\ paidAt'[r0] = now
      /\ \A q \in Requests : q # r0 => status'[q] = status[q] /\ paidAt'[q] = paidAt[q]
      /\ now' = now /\ capAt' = capAt /\ ahead' = ahead
  BY DEF Settle, IInv, TypeOK, history
<1>2. AheadInv'
  BY <1>1 DEF AheadInv, IInv, TypeOK
<1>3. ASSUME NEW r \in Requests
      PROVE  capAt'[r] # NoCap => /\ status'[r] \in {"pending", "paid"}
                                  /\ Cost * Cardinality(Near(r)') <= capAt'[r]
  <2>1. Measured(r)' = Measured(r)
    BY <1>1 DEF Measured
  <2>2. Near(r)' \subseteq Near(r)
    BY <1>1, <2>1 DEF Near, IInv, TypeOK
  <2>3. capAt'[r] # NoCap => status'[r] \in {"pending", "paid"}
    BY <1>1 DEF IInv, CapInv
  <2> QED BY <1>1, <2>2, <2>3, Shrinks DEF IInv
<1>4. CapInv'
  BY <1>3 DEF CapInv
<1> QED BY <1>2, <1>4

LEMMA RefundStep ==
    ASSUME IInv, TypeOK', NEW r0 \in Requests, Refund(r0)
    PROVE  AheadInv' /\ CapInv'
<1>1. /\ status[r0] = "pending" /\ status'[r0] = "failed" /\ capAt'[r0] = NoCap /\ ahead'[r0] = {}
      /\ \A q \in Requests :
            q # r0 => status'[q] = status[q] /\ capAt'[q] = capAt[q] /\ ahead'[q] = ahead[q]
      /\ now' = now /\ paidAt' = paidAt
  BY DEF Refund, IInv, TypeOK
<1>2. AheadInv'
  BY <1>1 DEF AheadInv, IInv, TypeOK
<1>3. ASSUME NEW r \in Requests
      PROVE  capAt'[r] # NoCap => /\ status'[r] \in {"pending", "paid"}
                                  /\ Cost * Cardinality(Near(r)') <= capAt'[r]
  <2>1. CASE r = r0
    BY <1>1, <2>1
  <2>2. CASE r # r0
    <3>1. Measured(r)' = Measured(r)
      BY <1>1, <2>2 DEF Measured
    <3>2. Near(r)' \subseteq Near(r)
      BY <1>1, <2>2, <3>1 DEF Near, IInv, TypeOK
    <3>3. capAt'[r] # NoCap => status'[r] \in {"pending", "paid"}
      BY <1>1, <2>2 DEF IInv, CapInv
    <3> QED BY <1>1, <2>2, <3>2, <3>3, Shrinks DEF IInv
  <2> QED BY <2>1, <2>2
<1>4. CapInv'
  BY <1>3 DEF CapInv
<1> QED BY <1>2, <1>4

LEMMA TickStep ==
    ASSUME IInv, TypeOK', Tick
    PROVE  AheadInv' /\ CapInv'
<1>1. now' = now + 1 /\ UNCHANGED <<rowVars, history>>
  BY DEF Tick
<1>2. AheadInv'
  BY <1>1 DEF AheadInv, IInv, rowVars, history
<1>3. ASSUME NEW r \in Requests
      PROVE  capAt'[r] # NoCap => /\ status'[r] \in {"pending", "paid"}
                                  /\ Cost * Cardinality(Near(r)') <= capAt'[r]
  <2>1. Measured(r) \in Int /\ Measured(r)' \in Int /\ Measured(r) <= Measured(r)'
    BY <1>1 DEF Measured, IInv, TypeOK, rowVars
  <2>2. Near(r)' \subseteq Near(r)
    <3> SUFFICES ASSUME NEW q \in Near(r)' PROVE q \in Near(r)
      OBVIOUS
    <3>1. q \in Requests /\ paidAt[q] \in Int
      BY <1>1 DEF Near, IInv, TypeOK, history
    <3>2. /\ q \in ahead[r] \union {r}
          /\ \/ status[q] = "pending"
             \/ status[q] = "paid" /\ paidAt[q] > Measured(r)' - Interval
      BY <1>1 DEF Near, rowVars, history
    <3>3. Interval \in Int
      BY ConstantsAssumption
    <3>4. paidAt[q] > Measured(r)' - Interval => paidAt[q] > Measured(r) - Interval
      BY <2>1, <3>1, <3>3
    <3> QED BY <3>2, <3>4 DEF Near
  <2>3. capAt'[r] # NoCap => status'[r] \in {"pending", "paid"}
    BY <1>1 DEF IInv, CapInv, rowVars, history
  <2> QED BY <1>1, <2>2, <2>3, Shrinks DEF IInv, history
<1>4. CapInv'
  BY <1>3 DEF CapInv
<1> QED BY <1>2, <1>4

LEMMA StepInv == IInv /\ [Next]_vars => IInv'
<1> SUFFICES ASSUME IInv, [Next]_vars PROVE IInv'
  OBVIOUS
<1>0. TypeOK'
  BY TypeStep DEF IInv
<1>1. WordInv' /\ AheadInv' /\ CapInv'
  <2>1. CASE User
    BY <2>1, UserStep
  <2>2. CASE Crash
    BY <2>2, RowsUnchanged DEF Crash, IInv, WordInv
  <2>3. CASE Tick
    BY <2>3, <1>0, TickStep DEF Tick, IInv, WordInv
  <2>4. ASSUME NEW r \in Requests,
               Arrive(r) \/ Valid(r) \/ Refuse(r)
        PROVE  WordInv' /\ AheadInv' /\ CapInv'
    BY <2>4, RowsUnchanged DEF Arrive, Valid, Refuse, IInv, WordInv
  <2>5. ASSUME NEW r \in Requests, Expired(r)
        PROVE  WordInv' /\ AheadInv' /\ CapInv'
    BY <2>5, RowsUnchanged DEF Expired, WordInv, NoAccess
  <2>6. ASSUME NEW r \in Requests, Reserve(r)
        PROVE  WordInv' /\ AheadInv' /\ CapInv'
    <3>1. WordInv'
      BY <2>6 DEF Reserve, IInv, WordInv
    <3> QED BY <2>6, <3>1, <1>0, ReserveStep
  <2>7. ASSUME NEW r \in Requests, Settle(r)
        PROVE  WordInv' /\ AheadInv' /\ CapInv'
    <3>1. WordInv'
      BY <2>7 DEF Settle, IInv, WordInv
    <3> QED BY <2>7, <3>1, <1>0, SettleStep
  <2>8. ASSUME NEW r \in Requests, Refund(r)
        PROVE  WordInv' /\ AheadInv' /\ CapInv'
    <3>1. WordInv'
      BY <2>8 DEF Refund, IInv, WordInv
    <3> QED BY <2>8, <3>1, <1>0, RefundStep
  <2>9. CASE UNCHANGED vars
    BY <2>9, RowsUnchanged DEF vars, IInv, WordInv
  <2> QED BY <2>1, <2>2, <2>3, <2>4, <2>5, <2>6, <2>7, <2>8, <2>9 DEF Next
<1> QED BY <1>0, <1>1 DEF IInv

\* Every variable of the debit model has its type in every reachable state.
THEOREM TypeCorrect == Spec => []TypeOK
<1>1. IInv => TypeOK
  BY DEF IInv
<1> QED BY <1>1, InitInv, StepInv, PTL DEF Spec

\* The invariant bounds what Near counts; the debits settled within an
\* interval of r are among them.
LEMMA CapFollows == IInv => CapRespected
<1> SUFFICES ASSUME IInv, NEW r \in Requests, status[r] = "paid", capAt[r] # NoCap,
                    NEW s \in (paidAt[r] - Interval)..(paidAt[r] - 1)
             PROVE  Cost * Cardinality(SettledWith(r, s)) <= capAt[r]
  BY DEF CapRespected
<1>1. paidAt[r] \in Int /\ Interval \in Int /\ s \in Int /\ s >= paidAt[r] - Interval
  BY ConstantsAssumption DEF IInv, TypeOK
<1>2. SettledWith(r, s) \subseteq Near(r)
  <2> SUFFICES ASSUME NEW q \in SettledWith(r, s) PROVE q \in Near(r)
    OBVIOUS
  <2>1. q \in ahead[r] \union {r} /\ status[q] = "paid" /\ s < paidAt[q] /\ q \in Requests
    BY DEF SettledWith, IInv, TypeOK
  <2>2. paidAt[q] \in Int
    BY <2>1 DEF IInv, TypeOK
  <2>3. paidAt[q] > paidAt[r] - Interval
    BY <1>1, <2>1, <2>2
  <2> QED BY <2>1, <2>3 DEF Near, Measured
<1>3. Near(r) \in SUBSET Requests
  BY DEF Near, IInv, TypeOK
<1>4. /\ Cardinality(Near(r)) \in Nat /\ Cardinality(SettledWith(r, s)) \in Nat
      /\ Cost * Cardinality(SettledWith(r, s)) <= Cost * Cardinality(Near(r))
  BY <1>2, <1>3, CostMonotone
<1>5. Cost * Cardinality(Near(r)) <= capAt[r] /\ capAt[r] \in Nat
  BY DEF IInv, CapInv, TypeOK
<1>6. Cost * Cardinality(Near(r)) \in Nat /\ Cost * Cardinality(SettledWith(r, s)) \in Nat
  BY <1>4, ConstantsAssumption
<1> QED BY <1>4, <1>5, <1>6

\* The frequency rule holds for any number of racing requests, any rules and
\* any edits of them: the debits settled within one interval, up to one that
\* was reserved under a cap, stay within that cap.
THEOREM CapHolds == Spec => []CapRespected
<1> QED BY InitInv, StepInv, CapFollows, PTL DEF Spec

\* Reserving for a request the user did not approve by hand takes a standing
\* access, and the user was told last that there is one.
LEMMA ReservesAuthorized ==
    IInv /\ [Next]_vars =>
        \A r \in Requests :
            status[r] = "none" /\ status'[r] # "none" /\ mode[r] = "auto" => word = "allow"
<1> SUFFICES ASSUME IInv, [Next]_vars, NEW r \in Requests,
                    status[r] = "none", status'[r] # "none", mode[r] = "auto"
             PROVE  word = "allow"
  OBVIOUS
<1>1. CASE \E q \in Requests : Reserve(q)
  <2>1. PICK q \in Requests : Reserve(q)
    BY <1>1
  <2>2. q = r
    BY <2>1 DEF Reserve, IInv, TypeOK
  <2> QED BY <2>1, <2>2 DEF Reserve, AssertDebitFrequency, IInv, WordInv
<1>2. CASE \E q \in Requests : Settle(q) \/ Refund(q)
  <2>1. PICK q \in Requests : Settle(q) \/ Refund(q)
    BY <1>2
  <2>2. q # r
    BY <2>1 DEF Settle, Refund
  <2> QED BY <2>1, <2>2 DEF Settle, Refund, IInv, TypeOK
<1>3. CASE UNCHANGED rowVars
  BY <1>3 DEF rowVars
<1>4. ASSUME User \/ Crash \/ Tick PROVE UNCHANGED rowVars
  BY <1>4 DEF User, Authorize, EditDebit, AuthorizeAndPay, Approve, ResetDebit,
              BanReads, BanAdds, BanUpdates, Crash, Tick
<1>5. ASSUME NEW q \in Requests, Arrive(q) \/ Valid(q) \/ Expired(q) \/ Refuse(q)
      PROVE  UNCHANGED rowVars
  BY <1>5 DEF Arrive, Valid, Expired, Refuse
<1>6. UNCHANGED vars => UNCHANGED rowVars
  BY DEF vars
<1> QED BY <1>1, <1>2, <1>3, <1>4, <1>5, <1>6 DEF Next

\* From a ban or reset that has answered until the next grant, no request draws
\* money the user did not approve by hand, however long ago it was validated.
THEOREM NothingUnauthorized == Spec => DebitsAuthorized
<1>1. IInv /\ [Next]_vars =>
        [\A r \in Requests :
            status[r] = "none" /\ status'[r] # "none" /\ mode[r] = "auto" => word = "allow"]_vars
  BY ReservesAuthorized
<1> QED BY <1>1, InitInv, StepInv, PTL DEF Spec, DebitsAuthorized
=============================================================================
