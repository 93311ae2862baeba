------------------------- MODULE ChainReceiptsProofs -------------------------
(***************************************************************************)
(* Theorems about ChainReceipts, for any users, outputs, amounts and any   *)
(* finite set of block handler runs.                                       *)
(***************************************************************************)
EXTENDS ChainReceipts, SumTheorems

IInv == TypeOK /\ HandlerInv

LEMMA EmptyTurn == <<>> \in Seq(Handlers)
OBVIOUS

LEMMA NoWorkType == NoWork \in [Outputs -> 0..1]
BY DEF NoWork

-----------------------------------------------------------------------------
(* The chain of block handler runs.                                        *)

LEMMA Enqueue ==
    ASSUME IInv, NEW h \in Handlers, NewBlockCb(h), rows' = rows
    PROVE  /\ TurnInv' /\ turn' \in Seq(Handlers)
           /\ hstep' \in [Handlers -> {"idle", "queued", "listed", "crediting"}]
           /\ \A g \in Handlers : hstep'[g] \in {"listed", "crediting"} => hstep'[g] = hstep[g]
<1> USE DEF IInv, TypeOK, HandlerInv, NewBlockCb
<1>1. /\ turn \in Seq(Handlers) /\ hstep[h] = "idle"
      /\ turn' = Append(turn, h) /\ hstep' = [hstep EXCEPT ![h] = "queued"]
  OBVIOUS
<1>2. /\ turn' \in Seq(Handlers) /\ Len(turn') = Len(turn) + 1 /\ turn'[Len(turn) + 1] = h
      /\ \A k \in 1..Len(turn) : turn'[k] = turn[k] /\ turn[k] \in Handlers
  BY <1>1
<1>3. \A k \in 1..Len(turn) : turn[k] # h
  BY <1>1 DEF TurnInv
<1>4. \A k \in 1..Len(turn)' : hstep'[turn'[k]] # "idle"
  BY <1>1, <1>2, <1>3 DEF TurnInv
<1>5. \A j, k \in 1..Len(turn)' : turn'[j] = turn'[k] => j = k
  BY <1>2, <1>3 DEF TurnInv
<1>6. \A g \in Handlers : hstep'[g] \in {"listed", "crediting"} => HasTurn(g)'
  <2> SUFFICES ASSUME NEW g \in Handlers, hstep'[g] \in {"listed", "crediting"}
               PROVE  HasTurn(g)'
    OBVIOUS
  <2>1. g # h /\ HasTurn(g)
    BY <1>1 DEF TurnInv
  <2>2. Len(turn) >= 1 /\ Head(turn) = turn[1] /\ Head(turn') = turn'[1] /\ turn' # <<>>
    BY <2>1, <1>1, <1>2 DEF HasTurn
  <2> QED BY <2>1, <2>2, <1>2 DEF HasTurn
<1>7. \A g \in Handlers : hstep'[g] \in {"idle", "queued"} => rows'[g] = {}
  BY <1>1 DEF TurnInv
<1>8. hstep' \in [Handlers -> {"idle", "queued", "listed", "crediting"}]
  BY <1>1
<1> QED BY <1>1, <1>2, <1>4, <1>5, <1>6, <1>7, <1>8 DEF TurnInv

LEMMA Dequeue ==
    ASSUME IInv, NEW h \in Handlers, HasTurn(h), EndRun(h), rows' = [rows EXCEPT ![h] = {}]
    PROVE  /\ TurnInv' /\ turn' \in Seq(Handlers)
           /\ hstep' \in [Handlers -> {"idle", "queued", "listed", "crediting"}]
           /\ rows' \in [Handlers -> SUBSET Outputs]
           /\ \A g \in Handlers : hstep'[g] \in {"idle", "queued"} /\ rows'[g] = {}
<1> USE DEF IInv, TypeOK, HandlerInv, EndRun, HasTurn
<1>1. /\ turn \in Seq(Handlers) /\ turn # <<>> /\ Head(turn) = h /\ Len(turn) >= 1
      /\ turn' = Tail(turn) /\ hstep' = [hstep EXCEPT ![h] = "idle"]
  OBVIOUS
<1>2. /\ turn' \in Seq(Handlers) /\ Len(turn') = Len(turn) - 1 /\ h = turn[1]
      /\ \A k \in 1..(Len(turn) - 1) : turn'[k] = turn[k + 1]
  BY <1>1
<1>3. \A g \in Handlers : g # h => hstep[g] \in {"idle", "queued"}
  BY <1>1 DEF TurnInv
<1>4. \A g \in Handlers : hstep'[g] \in {"idle", "queued"} /\ rows'[g] = {}
  BY <1>1, <1>3 DEF TurnInv
<1>5. \A k \in 1..Len(turn)' : turn'[k] # h /\ hstep'[turn'[k]] # "idle"
  <2> SUFFICES ASSUME NEW k \in 1..Len(turn)'
               PROVE  turn'[k] # h /\ hstep'[turn'[k]] # "idle"
    OBVIOUS
  <2>1. k + 1 \in 1..Len(turn) /\ 1 \in 1..Len(turn) /\ k + 1 # 1 /\ turn'[k] = turn[k + 1]
    BY <1>1, <1>2
  <2>2. turn'[k] # h /\ turn'[k] \in Handlers /\ hstep[turn'[k]] # "idle"
    BY <2>1, <1>1, <1>2 DEF TurnInv
  <2> QED BY <2>2, <1>1
<1>6. \A j, k \in 1..Len(turn)' : turn'[j] = turn'[k] => j = k
  <2> SUFFICES ASSUME NEW j \in 1..Len(turn)', NEW k \in 1..Len(turn)', turn'[j] = turn'[k]
               PROVE  j = k
    OBVIOUS
  <2>1. j + 1 \in 1..Len(turn) /\ k + 1 \in 1..Len(turn) /\ turn[j + 1] = turn[k + 1]
    BY <1>1, <1>2
  <2>2. j + 1 = k + 1
    BY <2>1 DEF TurnInv
  <2> QED BY <2>2, <1>1, <1>2
<1>7. rows' \in [Handlers -> SUBSET Outputs]
  OBVIOUS
<1>8. hstep' \in [Handlers -> {"idle", "queued", "listed", "crediting"}]
  BY <1>1
<1> QED BY <1>2, <1>4, <1>5, <1>6, <1>7, <1>8 DEF TurnInv

\* The run that works is alone: no other run has read rows.
LEMMA OnlyOneWorks ==
    ASSUME IInv, NEW h \in Handlers, hstep[h] \in {"listed", "crediting"}
    PROVE  /\ HasTurn(h)
           /\ \A g \in Handlers \ {h} : hstep[g] \in {"idle", "queued"} /\ rows[g] = {}
BY DEF IInv, TypeOK, HandlerInv, TurnInv, HasTurn

-----------------------------------------------------------------------------
(* The invariant is inductive.                                             *)

LEMMA InitInv == Init => IInv
<1> SUFFICES ASSUME Init PROVE IInv
  OBVIOUS
<1> USE ChainAssumption DEF Init
<1>1. TypeOK
  <2>1. depth \in [Outputs -> -1..Deepest]
    OBVIOUS
  <2>2. /\ balance \in [Users -> Nat]
        /\ row \in [Outputs \union Sends -> {"none", "pending", "credited"}]
    OBVIOUS
  <2>3. /\ hstep \in [Handlers -> {"idle", "queued", "listed", "crediting"}]
        /\ rows \in [Handlers -> SUBSET Outputs]
    OBVIOUS
  <2>4. turn \in Seq(Handlers) /\ inFlight \in [Outputs -> 0..1]
    BY EmptyTurn, NoWorkType
  <2> QED BY <2>1, <2>2, <2>3, <2>4 DEF TypeOK, Streams
<1>2. TurnInv
  BY EmptyTurn DEF TurnInv
<1>3. CreditInv
  BY DEF CreditInv, NoWork
<1> QED BY <1>1, <1>2, <1>3 DEF IInv, HandlerInv

\* Steps that leave the handlers and the confirmed part of the rows alone.
LEMMA HandlersRest ==
    ASSUME IInv, UNCHANGED handlerVars,
           \A o \in Outputs : row[o] = "pending" => row'[o] = "pending",
           \A o \in Outputs : depth[o] >= Needed[o] => depth'[o] >= Needed[o]
    PROVE  HandlerInv'
<1>1. TurnInv'
  BY DEF IInv, HandlerInv, TurnInv, HasTurn, handlerVars
<1>2. CreditInv'
  <2>1. \A h \in Handlers : rows[h] \subseteq Outputs
    BY DEF IInv, TypeOK
  <2> QED BY <2>1 DEF IInv, HandlerInv, CreditInv, handlerVars
<1> QED BY <1>1, <1>2 DEF HandlerInv

LEMMA ChainStep == ASSUME IInv, Chain PROVE IInv'
<1> USE ChainAssumption DEF IInv
<1>1. ASSUME NEW o \in Outputs, Broadcast(o) PROVE IInv'
  <2>1. TypeOK'
    BY <1>1 DEF TypeOK, Broadcast, recoveryVars, handlerVars
  <2>2. HandlerInv'
    <3>1. \A p \in Outputs : depth[p] >= Needed[p] => depth'[p] >= Needed[p]
      <4> TAKE p \in Outputs
      <4>1. depth[p] \in Int /\ Needed[p] \in Int /\ Needed[p] >= 1
        <5>1. Needed[p] \in 1..Deepest
          BY DEF ChainAssumption
        <5>2. depth[p] \in -1..Deepest
          BY DEF TypeOK
        <5> QED BY <5>1, <5>2
      <4>2. p # o => depth'[p] = depth[p]
        BY <1>1 DEF TypeOK, Broadcast
      <4>3. p = o => depth[p] = -1
        BY <1>1 DEF Broadcast
      <4> QED BY <4>1, <4>2, <4>3
    <3> QED BY <1>1, <3>1, HandlersRest DEF Broadcast
  <2> QED BY <2>1, <2>2
<1>2. CASE Mine
  <2> PICK fresh \in SUBSET {o \in Outputs : depth[o] <= 0} :
        /\ depth' = [o \in Outputs |->
                        CASE o \in fresh -> 1
                          [] depth[o] \in 1..(Deepest - 1) -> depth[o] + 1
                          [] OTHER -> depth[o]]
        /\ blockDue' = (blockDue \/ "block" \in streams)
        /\ UNCHANGED <<balance, row, checked, phase, streams, arriving, recoveryVars, handlerVars>>
    BY <1>2 DEF Mine
  <2>1. \A o \in Outputs : depth'[o] \in -1..Deepest /\ depth'[o] >= depth[o]
    <3> TAKE o \in Outputs
    <3>1. depth[o] \in -1..Deepest /\ Deepest \in Nat /\ Deepest >= 2
      BY ChainAssumption DEF TypeOK
    <3>2. depth'[o] = CASE o \in fresh -> 1
                        [] depth[o] \in 1..(Deepest - 1) -> depth[o] + 1
                        [] OTHER -> depth[o]
      OBVIOUS
    <3>3. o \in fresh => depth[o] <= 0
      OBVIOUS
    <3> QED BY <3>1, <3>2, <3>3
  <2>2. depth' \in [Outputs -> -1..Deepest]
    BY <2>1
  <2>3. TypeOK'
    BY <2>2 DEF TypeOK, recoveryVars, handlerVars
  <2>4. \A o \in Outputs : depth[o] >= Needed[o] => depth'[o] >= Needed[o]
    <3> TAKE o \in Outputs
    <3>1. depth[o] \in Int /\ Needed[o] \in Int /\ depth'[o] \in Int /\ depth'[o] >= depth[o]
      BY <2>1 DEF TypeOK
    <3> QED BY <3>1
  <2>5. HandlerInv'
    BY <2>4, HandlersRest
  <2> QED BY <2>3, <2>5
<1> QED BY <1>1, <1>2 DEF Chain

LEMMA LinksStep == ASSUME IInv, Links PROVE IInv'
<1>1. TypeOK'
  BY DEF IInv, TypeOK, Links, StreamBreaks, Rewarm, Streams, recoveryVars, handlerVars
<1>2. HandlerInv'
  BY HandlersRest DEF Links, StreamBreaks, Rewarm
<1> QED BY <1>1, <1>2 DEF IInv

\* Registering and sending touch rows that are not pending.
LEMMA RegisterStep ==
    ASSUME IInv, NEW o \in Outputs, CreditAddress(o), UNCHANGED <<depth, handlerVars>>
    PROVE  /\ row' \in [Outputs \union Sends -> {"none", "pending", "credited"}]
           /\ HandlerInv'
<1>1. row' \in [Outputs \union Sends -> {"none", "pending", "credited"}]
  BY DEF CreditAddress, IInv, TypeOK
<1>2. \A p \in Outputs : row[p] = "pending" => row'[p] = "pending"
  BY DEF CreditAddress, IInv, TypeOK
<1> QED BY <1>1, <1>2, HandlersRest

LEMMA AddressPaidStep == ASSUME IInv, NEW o \in Outputs, AddressPaidCb(o) PROVE IInv'
<1>1. /\ row' \in [Outputs \union Sends -> {"none", "pending", "credited"}]
      /\ HandlerInv'
  BY RegisterStep DEF AddressPaidCb
<1>2. TypeOK'
  BY <1>1 DEF IInv, TypeOK, AddressPaidCb, recoveryVars, handlerVars
<1> QED BY <1>1, <1>2 DEF IInv

LEMMA SendStep ==
    ASSUME IInv, NEW u \in Users, NEW s \in Sends, PayInternalAddress(u, s) PROVE IInv'
<1> DEFINE fee == IF u = Owner THEN 0 ELSE SendFee
           debited == [balance EXCEPT ![u] = @ - Amount - fee]
           paid == [debited EXCEPT ![OwnerOf[s]] = @ + Amount]
<1> USE ChainAssumption DEF IInv
<1>0. balance \in [Users -> Nat] /\ fee \in Nat /\ OwnerOf[s] \in Users
  BY DEF TypeOK
<1>1. /\ balance[u] >= Amount + fee
      /\ balance' = [paid EXCEPT ![Owner] = @ + fee]
      /\ row' = [row EXCEPT ![s] = "credited"]
  BY DEF PayInternalAddress
<1>2. debited \in [Users -> Nat]
  BY <1>0, <1>1
<1>3. balance' \in [Users -> Nat]
  BY <1>0, <1>1, <1>2
<1>4. TypeOK'
  <2>1. row' \in [Outputs \union Sends -> {"none", "pending", "credited"}]
    BY <1>1 DEF TypeOK
  <2> QED BY <1>3, <2>1 DEF TypeOK, PayInternalAddress, recoveryVars, handlerVars
<1>5. \A o \in Outputs : row'[o] = row[o]
  BY <1>1 DEF TypeOK
<1>6. HandlerInv'
  BY <1>5, HandlersRest DEF PayInternalAddress
<1> QED BY <1>4, <1>6

-----------------------------------------------------------------------------
(* Steps of the block handler.                                             *)

LEMMA BlockArrivesStep == ASSUME IInv, NEW h \in Handlers, BlockArrives(h) PROVE IInv'
<1>1. /\ TurnInv' /\ turn' \in Seq(Handlers)
      /\ hstep' \in [Handlers -> {"idle", "queued", "listed", "crediting"}]
      /\ \A g \in Handlers : hstep'[g] \in {"listed", "crediting"} => hstep'[g] = hstep[g]
  BY Enqueue DEF BlockArrives
<1>2. TypeOK'
  BY <1>1 DEF IInv, TypeOK, BlockArrives, recoveryVars
<1>3. CreditInv'
  BY <1>1 DEF IInv, TypeOK, HandlerInv, CreditInv, BlockArrives
<1> QED BY <1>1, <1>2, <1>3 DEF IInv, HandlerInv

LEMMA ListPendingStep == ASSUME IInv, NEW h \in Handlers, ListPending(h) PROVE IInv'
<1> USE DEF IInv
<1>0. /\ HasTurn(h) /\ hstep[h] = "queued" /\ inFlight = NoWork
      /\ rows' = [rows EXCEPT ![h] = {o \in Outputs : row[o] = "pending"}]
      /\ hstep' = [hstep EXCEPT ![h] = "listed"]
      /\ UNCHANGED <<depth, row, turn, inFlight>>
  BY DEF ListPending
<1>1. TypeOK'
  BY <1>0 DEF TypeOK, ListPending, recoveryVars
<1>2. TurnInv'
  <2>1. \A k \in 1..Len(turn) : turn[k] \in Handlers
    BY DEF TypeOK
  <2> QED BY <1>0, <2>1 DEF TypeOK, HandlerInv, TurnInv, HasTurn
<1>3. CreditInv'
  <2>1. \A g \in Handlers : g # h => hstep'[g] = hstep[g] /\ rows'[g] = rows[g]
    BY <1>0 DEF TypeOK
  <2>2. hstep'[h] = "listed" /\ rows'[h] = {o \in Outputs : row[o] = "pending"}
    BY <1>0 DEF TypeOK
  <2>3. NoWork' = NoWork
    BY DEF NoWork
  <2>4. \A g \in Handlers : rows[g] \subseteq Outputs
    BY DEF TypeOK
  <2> QED BY <1>0, <2>1, <2>2, <2>3, <2>4 DEF HandlerInv, CreditInv
<1> QED BY <1>1, <1>2, <1>3 DEF HandlerInv

LEMMA GivesUpStep == ASSUME IInv, NEW h \in Handlers, HandlerGivesUp(h) PROVE IInv'
<1>1. /\ TurnInv' /\ turn' \in Seq(Handlers)
      /\ hstep' \in [Handlers -> {"idle", "queued", "listed", "crediting"}]
      /\ rows' \in [Handlers -> SUBSET Outputs]
      /\ \A g \in Handlers : hstep'[g] \in {"idle", "queued"} /\ rows'[g] = {}
  BY Dequeue DEF HandlerGivesUp
<1>2. TypeOK'
  BY <1>1 DEF IInv, TypeOK, HandlerGivesUp, recoveryVars
<1>3. CreditInv'
  BY <1>1 DEF IInv, HandlerInv, CreditInv, HandlerGivesUp
<1> QED BY <1>1, <1>2, <1>3 DEF IInv, HandlerInv

LEMMA CheckConfsStep ==
    ASSUME IInv, NEW h \in Handlers, NEW answered \in SUBSET rows[h], CheckConfs(h, answered)
    PROVE  IInv'
<1> DEFINE ready == {o \in answered : Confirmed(o)}
<1> USE DEF IInv
<1>0. /\ HasTurn(h) /\ hstep[h] = "listed"
      /\ rows' = [rows EXCEPT ![h] = ready]
      /\ inFlight' = [o \in Outputs |-> inFlight[o] + IF o \in ready THEN 1 ELSE 0]
      /\ IF ready = {}
         THEN EndRun(h)
         ELSE hstep' = [hstep EXCEPT ![h] = "crediting"] /\ UNCHANGED turn
      /\ UNCHANGED <<depth, balance, row, checked, phase, streams, arriving, blockDue, recoveryVars>>
  BY DEF CheckConfs
<1>1. inFlight = NoWork /\ ready \subseteq Outputs /\ \A o \in ready : row[o] = "pending"
  BY <1>0 DEF TypeOK, HandlerInv, CreditInv
<1>2. inFlight' = [o \in Outputs |-> IF o \in ready THEN 1 ELSE 0]
  BY <1>0, <1>1 DEF NoWork
<1>3. inFlight' \in [Outputs -> 0..1]
  BY <1>2
<1>4. \A o \in Outputs : inFlight'[o] > 0 => row'[o] = "pending" /\ depth'[o] >= Needed[o]
  BY <1>0, <1>1, <1>2 DEF Confirmed
<1>5. CASE ready = {}
  <2>1. rows' = [rows EXCEPT ![h] = {}] /\ EndRun(h)
    BY <1>0, <1>5
  <2>2. /\ TurnInv' /\ turn' \in Seq(Handlers)
        /\ hstep' \in [Handlers -> {"idle", "queued", "listed", "crediting"}]
        /\ rows' \in [Handlers -> SUBSET Outputs]
        /\ \A g \in Handlers : hstep'[g] \in {"idle", "queued"} /\ rows'[g] = {}
    BY <2>1, <1>0, Dequeue
  <2>3. TypeOK'
    BY <2>2, <1>0, <1>3 DEF TypeOK, recoveryVars
  <2>4. CreditInv'
    BY <2>2, <1>4 DEF CreditInv
  <2> QED BY <2>2, <2>3, <2>4 DEF HandlerInv
<1>6. CASE ready # {}
  <2>1. hstep' = [hstep EXCEPT ![h] = "crediting"] /\ UNCHANGED turn
    BY <1>0, <1>6
  <2>2. \A g \in Handlers \ {h} : /\ hstep[g] \in {"idle", "queued"} /\ rows[g] = {}
                                 /\ hstep'[g] = hstep[g] /\ rows'[g] = rows[g]
    BY <1>0, <2>1, OnlyOneWorks DEF TypeOK
  <2>3. hstep'[h] = "crediting" /\ rows'[h] = ready
    BY <1>0, <2>1 DEF TypeOK
  <2>4. TypeOK'
    BY <1>0, <1>1, <1>3, <2>1 DEF TypeOK, recoveryVars
  <2>5. TurnInv'
    <3>1. \A k \in 1..Len(turn) : turn[k] \in Handlers
      BY DEF TypeOK
    <3>2. \A k \in 1..Len(turn)' : hstep'[turn'[k]] # "idle"
      BY <3>1, <2>1, <2>2, <2>3 DEF HandlerInv, TurnInv
    <3> QED BY <3>2, <1>0, <2>1, <2>2, <2>3 DEF HandlerInv, TurnInv, HasTurn
  <2>6. CreditInv'
    <3>1. \A o \in ready : inFlight'[o] = 1 /\ row'[o] = "pending"
      BY <1>0, <1>1, <1>2
    <3> QED BY <3>1, <2>2, <2>3, <1>4 DEF CreditInv
  <2> QED BY <2>4, <2>5, <2>6 DEF HandlerInv
<1> QED BY <1>5, <1>6

-----------------------------------------------------------------------------
(* A credit transaction ends, o is no longer under way: nobody has o among *)
(* the rows it awaits, whether the credit was awaited or left behind.      *)

Forgets(o) ==
    /\ TurnInv' /\ turn' \in Seq(Handlers)
    /\ hstep' \in [Handlers -> {"idle", "queued", "listed", "crediting"}]
    /\ rows' \in [Handlers -> SUBSET Outputs]
    /\ \A g \in Handlers :
          /\ hstep'[g] # "listed"
          /\ rows'[g] \subseteq rows[g] \ {o}
          /\ hstep'[g] = "crediting" => hstep[g] = "crediting"

LEMMA CreditEnds ==
    ASSUME IInv, NEW o \in Outputs, inFlight[o] > 0,
           inFlight' = [inFlight EXCEPT ![o] = @ - 1],
           UNCHANGED depth,
           \A p \in Outputs : p # o => row'[p] = row[p],
           Forgets(o)
    PROVE  inFlight' \in [Outputs -> 0..1] /\ CreditInv'
<1> USE DEF IInv, Forgets
<1>1. inFlight \in [Outputs -> 0..1] /\ \A g \in Handlers : rows[g] \subseteq Outputs
  BY DEF TypeOK
<1>2. inFlight[o] = 1 /\ inFlight'[o] = 0 /\ \A p \in Outputs : p # o => inFlight'[p] = inFlight[p]
  BY <1>1
<1>3. inFlight' \in [Outputs -> 0..1]
  BY <1>1, <1>2
<1>4. \A p \in Outputs : inFlight'[p] > 0 => row'[p] = "pending" /\ depth'[p] >= Needed[p]
  BY <1>1, <1>2 DEF HandlerInv, CreditInv
<1>5. \A g \in Handlers : \A p \in rows'[g] : p # o /\ p \in Outputs /\ p \in rows[g]
  BY <1>1
<1>6. \A g \in Handlers : \A p \in rows'[g] : row'[p] = "pending"
  BY <1>5 DEF HandlerInv, CreditInv
<1>7. \A g \in Handlers : hstep'[g] = "crediting" => \A p \in rows'[g] : inFlight'[p] = 1
  BY <1>2, <1>5 DEF HandlerInv, CreditInv
<1> QED BY <1>3, <1>4, <1>6, <1>7 DEF CreditInv

\* While a credit is under way, no run is between reading rows and sending.
LEMMA NobodyLists ==
    ASSUME IInv, NEW o \in Outputs, inFlight[o] > 0
    PROVE  \A g \in Handlers : hstep[g] # "listed"
BY DEF IInv, HandlerInv, CreditInv, NoWork

LEMMA NotAwaited ==
    ASSUME IInv, NEW o \in Outputs, inFlight[o] > 0,
           \A h \in Handlers : ~(o \in rows[h] /\ hstep[h] = "crediting"),
           UNCHANGED <<rows, hstep, turn>>
    PROVE  Forgets(o)
<1>1. \A g \in Handlers : hstep[g] # "listed"
  BY NobodyLists
<1>2. \A g \in Handlers : o \notin rows[g]
  BY <1>1 DEF IInv, TypeOK, HandlerInv, TurnInv
<1> QED BY <1>1, <1>2 DEF IInv, TypeOK, HandlerInv, TurnInv, HasTurn, Forgets

LEMMA AwaitedEnds ==
    ASSUME IInv, NEW o \in Outputs, inFlight[o] > 0,
           NEW h \in Handlers, o \in rows[h], hstep[h] = "crediting",
           \/ Awaited(h, o)
           \/ EndRun(h) /\ rows' = [rows EXCEPT ![h] = {}]
    PROVE  Forgets(o)
<1> USE DEF IInv, Forgets
<1>1. HasTurn(h)
  BY OnlyOneWorks
<1>2. CASE EndRun(h) /\ rows' = [rows EXCEPT ![h] = {}]
  BY <1>1, <1>2, Dequeue
<1>3. CASE Awaited(h, o)
  <2>1. CASE rows[h] = {o}
    <3>1. EndRun(h) /\ rows' = [rows EXCEPT ![h] = {}]
      BY <1>3, <2>1 DEF Awaited
    <3> QED BY <3>1, <1>1, Dequeue
  <2>2. CASE rows[h] # {o}
    <3>1. rows' = [rows EXCEPT ![h] = @ \ {o}] /\ UNCHANGED <<hstep, turn>>
      BY <1>3, <2>2 DEF Awaited
    <3>2. \A g \in Handlers : g # h => rows[g] = {}
      BY OnlyOneWorks
    <3>3. \A g \in Handlers : rows'[g] = rows[g] \ {o}
      BY <3>1, <3>2 DEF TypeOK
    <3>4. rows' \in [Handlers -> SUBSET Outputs]
      BY <3>1 DEF TypeOK
    <3>5. \A g \in Handlers : hstep[g] # "listed"
      BY NobodyLists
    <3>6. TurnInv'
      BY <3>1, <3>3 DEF HandlerInv, TurnInv, HasTurn
    <3> QED BY <3>1, <3>3, <3>4, <3>5, <3>6 DEF TypeOK
  <2> QED BY <2>1, <2>2
<1> QED BY <1>2, <1>3

LEMMA CreditStep == ASSUME IInv, NEW o \in Outputs, Credit(o) PROVE IInv'
<1> USE DEF IInv
<1>0. /\ inFlight[o] > 0
      /\ inFlight' = [inFlight EXCEPT ![o] = @ - 1]
      /\ UNCHANGED <<depth, checked, phase, streams, arriving, blockDue, recoveryVars>>
  BY DEF Credit, CreditRow, CreditFails
<1>1. Forgets(o)
  <2>1. ASSUME NEW h \in Handlers, o \in rows[h], hstep[h] = "crediting",
               Awaited(h, o) \/ (EndRun(h) /\ rows' = [rows EXCEPT ![h] = {}])
        PROVE  Forgets(o)
    BY <2>1, <1>0, AwaitedEnds
  <2>2. ASSUME \A h \in Handlers : ~(o \in rows[h] /\ hstep[h] = "crediting"),
               UNCHANGED <<rows, hstep, turn>>
        PROVE  Forgets(o)
    BY <2>2, <1>0, NotAwaited
  <2> QED BY <2>1, <2>2 DEF Credit, CreditRow, CreditFails
<1>2. /\ \A p \in Outputs : p # o => row'[p] = row[p]
      /\ row' \in [Outputs \union Sends -> {"none", "pending", "credited"}]
  BY DEF Credit, CreditRow, CreditFails, TypeOK
<1>3. inFlight' \in [Outputs -> 0..1] /\ CreditInv'
  BY <1>0, <1>1, <1>2, CreditEnds
<1>4. balance' \in [Users -> Nat]
  <2>1. balance' \in {balance, [balance EXCEPT ![OwnerOf[o]] = @ + Amount]}
    BY DEF Credit, CreditRow, CreditFails
  <2>2. balance \in [Users -> Nat] /\ OwnerOf[o] \in Users /\ Amount \in Nat
    BY ChainAssumption DEF TypeOK
  <2> QED BY <2>1, <2>2
<1>5. TypeOK'
  BY <1>0, <1>1, <1>2, <1>3, <1>4 DEF TypeOK, recoveryVars, Forgets
<1> QED BY <1>1, <1>3, <1>5 DEF HandlerInv, Forgets

-----------------------------------------------------------------------------
(* The start-up check, crashes and starts.                                 *)

LEMMA CheckMissedStep == ASSUME IInv, CheckMissed PROVE IInv'
<1> USE DEF IInv
<1>1. CASE ReadHeight \/ ListTransactions
  <2>1. TypeOK'
    BY <1>1 DEF TypeOK, ReadHeight, ListTransactions, handlerVars
  <2>2. HandlerInv'
    BY <1>1, HandlersRest DEF ReadHeight, ListTransactions
  <2> QED BY <2>1, <2>2
<1>2. ASSUME NEW o \in Outputs, LookAt(o) PROVE IInv'
  <2>1. TypeOK'
    BY <1>2 DEF TypeOK, LookAt, handlerVars
  <2>2. HandlerInv'
    BY <1>2, HandlersRest DEF LookAt
  <2> QED BY <2>1, <2>2
<1>3. CASE RegisterMissed
  <2>1. cur \in Outputs /\ CreditAddress(cur) /\ UNCHANGED <<depth, handlerVars>>
    BY <1>3 DEF TypeOK, RegisterMissed
  <2>2. /\ row' \in [Outputs \union Sends -> {"none", "pending", "credited"}]
        /\ HandlerInv'
    BY <2>1, RegisterStep
  <2>3. TypeOK'
    BY <1>3, <2>2 DEF TypeOK, RegisterMissed, handlerVars
  <2> QED BY <2>2, <2>3
<1>4. CASE FinishCheck
  <2>0. /\ UNCHANGED <<depth, balance, row, phase, streams, arriving, blockDue, upTo, todo, cur, found, rows, inFlight>>
        /\ checked' = upTo /\ step' = "done"
    BY <1>4 DEF FinishCheck, SaveHeight
  <2>1. CASE found
    <3>1. NewBlockCb(Boot) /\ Boot \in Handlers
      BY <1>4, <2>1, ChainAssumption DEF FinishCheck
    <3>2. /\ TurnInv' /\ turn' \in Seq(Handlers)
          /\ hstep' \in [Handlers -> {"idle", "queued", "listed", "crediting"}]
          /\ \A g \in Handlers : hstep'[g] \in {"listed", "crediting"} => hstep'[g] = hstep[g]
      BY <3>1, <2>0, Enqueue
    <3>3. TypeOK'
      BY <3>2, <2>0 DEF TypeOK
    <3>4. CreditInv'
      BY <3>2, <2>0 DEF TypeOK, HandlerInv, CreditInv
    <3> QED BY <3>2, <3>3, <3>4 DEF HandlerInv
  <2>2. CASE ~found
    <3>1. UNCHANGED <<hstep, turn>>
      BY <1>4, <2>2 DEF FinishCheck
    <3>2. TypeOK'
      BY <3>1, <2>0 DEF TypeOK
    <3>3. HandlerInv'
      BY <3>1, <2>0, HandlersRest DEF handlerVars
    <3> QED BY <3>2, <3>3
  <2> QED BY <2>1, <2>2
<1>5. CASE CheckFails \/ Serve
  <2>1. TypeOK'
    BY <1>5 DEF TypeOK, CheckFails, Serve, recoveryVars, handlerVars
  <2>2. HandlerInv'
    BY <1>5, HandlersRest DEF CheckFails, Serve
  <2> QED BY <2>1, <2>2
<1> QED BY <1>1, <1>2, <1>3, <1>4, <1>5 DEF CheckMissed

LEMMA CrashStep == ASSUME IInv, Crash PROVE IInv'
<1> USE DEF IInv
<1>1. /\ turn' = <<>> /\ hstep' = [h \in Handlers |-> "idle"]
      /\ rows' = [h \in Handlers |-> {}] /\ inFlight' = NoWork
  BY DEF Crash
<1>2. TypeOK'
  <2>1. /\ hstep' \in [Handlers -> {"idle", "queued", "listed", "crediting"}]
        /\ rows' \in [Handlers -> SUBSET Outputs]
        /\ turn' \in Seq(Handlers) /\ inFlight' \in [Outputs -> 0..1]
    BY <1>1, EmptyTurn, NoWorkType
  <2> QED BY <2>1 DEF TypeOK, Crash
<1>3. TurnInv'
  BY <1>1, EmptyTurn DEF TurnInv
<1>4. CreditInv'
  BY <1>1 DEF CreditInv, NoWork
<1> QED BY <1>2, <1>3, <1>4 DEF HandlerInv

LEMMA StartStep == ASSUME IInv, Start PROVE IInv'
<1>1. TypeOK'
  BY DEF IInv, TypeOK, Start, Streams, recoveryVars, handlerVars
<1>2. HandlerInv'
  BY HandlersRest DEF Start
<1> QED BY <1>1, <1>2 DEF IInv

LEMMA NextStep == IInv /\ [Next]_vars => IInv'
<1> SUFFICES ASSUME IInv, [Next]_vars PROVE IInv'
  OBVIOUS
<1>1. ASSUME NEW h \in Handlers, Handle(h) PROVE IInv'
  BY <1>1, BlockArrivesStep, ListPendingStep, GivesUpStep, CheckConfsStep DEF Handle
<1>2. CASE UNCHANGED vars
  <2>1. TypeOK'
    BY <1>2 DEF IInv, TypeOK, vars, recoveryVars, handlerVars
  <2>2. HandlerInv'
    BY <1>2, HandlersRest DEF vars
  <2> QED BY <2>1, <2>2 DEF IInv
<1> QED BY <1>1, <1>2, ChainStep, LinksStep, CheckMissedStep, CrashStep, StartStep,
           AddressPaidStep, CreditStep, SendStep DEF Next

\* Every reachable state is well typed: in particular no balance is negative
\* and no row has two credits under way.
THEOREM TypeCorrect == Spec => []TypeOK
<1>1. Init => IInv
  BY InitInv
<1>2. IInv /\ [Next]_vars => IInv'
  BY NextStep
<1>3. IInv => TypeOK
  BY DEF IInv
<1> QED BY <1>1, <1>2, <1>3, PTL DEF Spec

\* Block handlers run one at a time, what they read is still pending when they
\* credit it, and only confirmed rows are credited.
THEOREM CreditsAreSafe == Spec => []HandlerInv
<1>1. Init => IInv
  BY InitInv
<1>2. IInv /\ [Next]_vars => IInv'
  BY NextStep
<1>3. IInv => HandlerInv
  BY DEF IInv
<1> QED BY <1>1, <1>2, <1>3, PTL DEF Spec

-----------------------------------------------------------------------------
(* What the start-up check covers.                                         *)

\* Rows are never removed and outputs never forgotten by LND.
RowsKept ==
    \A o \in Outputs :
        /\ row[o] # "none" => row'[o] # "none"
        /\ depth[o] >= 0 => depth'[o] >= 0

LEMMA RowsStay == IInv /\ [Next]_vars => RowsKept
<1> SUFFICES ASSUME IInv, [Next]_vars PROVE RowsKept
  OBVIOUS
<1> USE DEF IInv, TypeOK, RowsKept
<1>1. CASE Chain
  <2>1. ASSUME NEW p \in Outputs, Broadcast(p)
        PROVE  row' = row /\ \A o \in Outputs : depth[o] >= 0 => depth'[o] >= 0
    BY <2>1 DEF Broadcast
  <2>2. CASE Mine
    <3>1. PICK fresh \in SUBSET {o \in Outputs : depth[o] <= 0} :
              depth' = [o \in Outputs |->
                           CASE o \in fresh -> 1
                             [] depth[o] \in 1..(Deepest - 1) -> depth[o] + 1
                             [] OTHER -> depth[o]]
      BY <2>2 DEF Mine
    <3>2. row' = row
      BY <2>2 DEF Mine
    <3>3. ASSUME NEW o \in Outputs, depth[o] >= 0 PROVE depth'[o] >= 0
      <4>1. CASE o \in fresh
        BY <3>1, <4>1
      <4>2. CASE o \notin fresh /\ depth[o] \in 1..(Deepest - 1)
        BY <3>1, <4>2
      <4>3. CASE o \notin fresh /\ depth[o] \notin 1..(Deepest - 1)
        BY <3>1, <3>3, <4>3
      <4> QED BY <4>1, <4>2, <4>3
    <3> QED BY <3>2, <3>3
  <2> QED BY <1>1, <2>1, <2>2 DEF Chain
<1>2. CASE Links
  BY <1>2 DEF Links, StreamBreaks, Rewarm
<1>3. CASE CheckMissed
  <2>1. UNCHANGED depth
    BY <1>3 DEF CheckMissed, ReadHeight, ListTransactions, LookAt, RegisterMissed,
                FinishCheck, CheckFails, Serve
  <2>2. row' = row \/ (cur \in Outputs /\ CreditAddress(cur))
    BY <1>3 DEF CheckMissed, ReadHeight, ListTransactions, LookAt, RegisterMissed,
                FinishCheck, CheckFails, Serve
  <2> QED BY <2>1, <2>2 DEF CreditAddress
<1>4. CASE Crash \/ Start \/ UNCHANGED vars
  BY <1>4 DEF Crash, Start, vars
<1>5. ASSUME NEW o \in Outputs, AddressPaidCb(o) \/ Credit(o)
      PROVE  UNCHANGED depth /\ \A p \in Outputs : row[p] # "none" => row'[p] # "none"
  BY <1>5 DEF AddressPaidCb, CreditAddress, Credit, CreditRow, CreditFails
<1>6. ASSUME NEW h \in Handlers, Handle(h)
      PROVE  UNCHANGED <<depth, row>>
  BY <1>6 DEF Handle, BlockArrives, ListPending, HandlerGivesUp, CheckConfs
<1>7. ASSUME NEW u \in Users, NEW s \in Sends, PayInternalAddress(u, s)
      PROVE  UNCHANGED depth /\ \A p \in Outputs : row[p] # "none" => row'[p] # "none"
  BY <1>7 DEF PayInternalAddress
<1> QED BY <1>1, <1>2, <1>3, <1>4, <1>5, <1>6, <1>7 DEF Next

\* Steps outside the check leave its variables alone, or reset them.
LEMMA CheckRests ==
    ASSUME IInv, CheckInv, [Next]_vars, ~CheckMissed
    PROVE  \/ UNCHANGED <<checked, step, upTo, todo, cur>>
           \/ /\ UNCHANGED checked
              /\ step' = "info" /\ cur' = NoOutput
<1> USE DEF recoveryVars
<1>1. CASE Chain \/ Links
  BY <1>1 DEF Chain, Broadcast, Mine, Links, StreamBreaks, Rewarm
<1>2. CASE Crash \/ Start \/ UNCHANGED vars
  BY <1>2 DEF Crash, Start, vars
<1>3. ASSUME NEW o \in Outputs, AddressPaidCb(o) \/ Credit(o)
      PROVE  UNCHANGED <<checked, step, upTo, todo, cur>>
  BY <1>3 DEF AddressPaidCb, Credit, CreditRow, CreditFails
<1>4. ASSUME NEW h \in Handlers, Handle(h)
      PROVE  UNCHANGED <<checked, step, upTo, todo, cur>>
  BY <1>4 DEF Handle, BlockArrives, ListPending, HandlerGivesUp, CheckConfs
<1>5. ASSUME NEW u \in Users, NEW s \in Sends, PayInternalAddress(u, s)
      PROVE  UNCHANGED <<checked, step, upTo, todo, cur>>
  BY <1>5 DEF PayInternalAddress
<1> QED BY <1>1, <1>2, <1>3, <1>4, <1>5 DEF Next

LEMMA CheckStep ==
    ASSUME IInv, CheckInv, [Next]_vars
    PROVE  CheckInv'
<1>0. \A o \in Outputs : /\ row[o] # "none" => row'[o] # "none"
                         /\ depth[o] >= 0 => depth'[o] >= 0
  BY RowsStay DEF RowsKept
<1>r. CASE ~CheckMissed
  <2>1. \/ UNCHANGED <<checked, step, upTo, todo, cur>>
        \/ /\ UNCHANGED checked
           /\ step' = "info" /\ cur' = NoOutput
    BY <1>r, CheckRests
  <2>2. checked \subseteq Outputs /\ upTo \subseteq Outputs
    BY DEF IInv, TypeOK
  <2> QED BY <1>0, <2>1, <2>2 DEF CheckInv, NothingForgotten
<1> USE ChainAssumption DEF CheckInv, NothingForgotten
<1>t. /\ checked \subseteq Outputs /\ upTo \subseteq Outputs /\ todo \subseteq Outputs
      /\ cur \in Outputs \union {NoOutput} /\ depth \in [Outputs -> -1..Deepest]
      /\ step \in {"info", "list", "walk", "done", "failed"}
  BY DEF IInv, TypeOK
<1>2. CASE ReadHeight
  <2>1. \A o \in upTo' : depth'[o] >= 0
    BY <1>2, <1>t DEF ReadHeight
  <2> QED BY <1>0, <1>2, <1>t, <2>1 DEF ReadHeight
<1>3. CASE ListTransactions
  BY <1>0, <1>3, <1>t DEF ListTransactions
<1>4. ASSUME NEW o \in Outputs, LookAt(o) PROVE CheckInv'
  BY <1>0, <1>4, <1>t DEF LookAt
<1>5. CASE RegisterMissed
  <2>1. cur \in Outputs /\ (cur \in Unlucky \/ row'[cur] # "none") /\ cur' = NoOutput
    BY <1>5, <1>t DEF RegisterMissed, CreditAddress, IInv, TypeOK
  <2> QED BY <1>0, <1>5, <1>t, <2>1 DEF RegisterMissed
<1>6. CASE FinishCheck
  <2>1. \A o \in upTo \ Unlucky : row[o] # "none"
    BY <1>6, <1>t DEF FinishCheck
  <2> QED BY <1>0, <1>6, <1>t, <2>1 DEF FinishCheck, SaveHeight
<1>7. CASE CheckFails \/ Serve
  BY <1>0, <1>7, <1>t DEF CheckFails, Serve, recoveryVars
<1> QED BY <1>r, <1>2, <1>3, <1>4, <1>5, <1>6, <1>7 DEF CheckMissed

\* No output below the saved height is left without a row, whatever crashes and
\* failing checks come before, unless registering the output itself may fail.
THEOREM CheckForgetsNothing == Spec => []CheckInv
<1>1. Init => IInv /\ CheckInv
  BY InitInv DEF Init, CheckInv, NothingForgotten
<1>2. IInv /\ CheckInv /\ [Next]_vars => IInv' /\ CheckInv'
  BY NextStep, CheckStep
<1> QED BY <1>1, <1>2, PTL DEF Spec

-----------------------------------------------------------------------------
(* Refinement of ReceiptLedger.                                            *)

LedgerStep == [Ledger!Next]_(Ledger!vars)

\* A step that changes no balance and no credited row confirms, or stutters.
LEMMA QuietStep ==
    ASSUME UNCHANGED balance,
           \A s \in Outputs \union Sends : row'[s] = "credited" <=> row[s] = "credited",
           \A o \in Outputs : depth[o] >= Needed[o] => depth'[o] >= Needed[o]
    PROVE  LedgerStep
<1>1. DeepEnough \subseteq DeepEnough' /\ Credited' = Credited
  BY DEF DeepEnough, Credited
<1>2. Ledger!Confirm
  BY <1>1 DEF Ledger!Confirm
<1> QED BY <1>2 DEF LedgerStep, Ledger!Next

\* Registering a row credits nothing.
LEMMA RegisterIsQuiet ==
    ASSUME IInv, NEW o \in Outputs, CreditAddress(o)
    PROVE  \A s \in Outputs \union Sends : row'[s] = "credited" <=> row[s] = "credited"
BY DEF CreditAddress, IInv, TypeOK

LEMMA DeepStays ==
    ASSUME IInv, Chain
    PROVE  \A o \in Outputs : depth[o] >= Needed[o] => depth'[o] >= Needed[o]
<1> SUFFICES ASSUME NEW o \in Outputs, depth[o] >= Needed[o]
             PROVE  depth'[o] >= Needed[o]
  OBVIOUS
<1>1. Needed[o] \in 1..Deepest
  BY ChainAssumption
<1>2. depth[o] \in -1..Deepest
  BY DEF IInv, TypeOK
<1>3. ASSUME NEW p \in Outputs, Broadcast(p) PROVE depth'[o] = depth[o]
  <2>1. p # o
    BY <1>1, <1>3 DEF Broadcast
  <2> QED BY <1>3, <2>1 DEF Broadcast, IInv, TypeOK
<1>4. CASE Mine
  <2>1. PICK fresh \in SUBSET {p \in Outputs : depth[p] <= 0} :
          depth'[o] = CASE o \in fresh -> 1
                        [] depth[o] \in 1..(Deepest - 1) -> depth[o] + 1
                        [] OTHER -> depth[o]
    BY <1>4 DEF Mine
  <2>2. o \notin fresh
    BY <1>1, <1>2, <2>1
  <2> QED BY <1>1, <1>2, <2>1, <2>2
<1> QED BY <1>3, <1>4 DEF Chain

LEMMA CreditRefines == ASSUME IInv, NEW o \in Outputs, Credit(o) PROVE LedgerStep
<1>1. CASE CreditFails(o)
  BY <1>1, QuietStep DEF CreditFails
<1>2. CASE CreditRow(o)
  <2>1. /\ inFlight[o] > 0 /\ UNCHANGED depth
        /\ row' = [row EXCEPT ![o] = "credited"]
        /\ balance' = [balance EXCEPT ![OwnerOf[o]] = @ + Amount]
    BY <1>2 DEF CreditRow
  <2>2. row[o] = "pending" /\ o \in DeepEnough
    BY <2>1 DEF IInv, HandlerInv, CreditInv, DeepEnough
  <2>3. o \notin Credited /\ Credited' = Credited \union {o} /\ DeepEnough' = DeepEnough
    BY <2>1, <2>2 DEF IInv, TypeOK, Credited, DeepEnough
  <2>4. Ledger!Credit(o)
    BY <2>1, <2>2, <2>3 DEF Ledger!Credit
  <2> QED BY <2>4 DEF LedgerStep, Ledger!Next
<1> QED BY <1>1, <1>2 DEF Credit

LEMMA SendRefines ==
    ASSUME IInv, NEW u \in Users, NEW s \in Sends, PayInternalAddress(u, s)
    PROVE  LedgerStep
<1>1. s \notin Credited /\ Credited' = Credited \union {s} /\ DeepEnough' = DeepEnough
  BY DEF IInv, TypeOK, PayInternalAddress, Credited, DeepEnough
<1>2. Ledger!Send(u, s)
  BY <1>1 DEF PayInternalAddress, Ledger!Send
<1> QED BY <1>2 DEF LedgerStep, Ledger!Next

LEMMA StepRefines == IInv /\ [Next]_vars => LedgerStep
<1> SUFFICES ASSUME IInv, [Next]_vars PROVE LedgerStep
  OBVIOUS
<1>1. CASE Chain
  <2>1. UNCHANGED <<balance, row>>
    BY <1>1 DEF Chain, Broadcast, Mine
  <2> QED BY <1>1, <2>1, DeepStays, QuietStep
<1>2. CASE Links \/ Crash \/ Start \/ UNCHANGED vars
  <2>1. UNCHANGED <<balance, row, depth>>
    BY <1>2 DEF Links, StreamBreaks, Rewarm, Crash, Start, vars
  <2> QED BY <2>1, QuietStep
<1>3. CASE CheckMissed
  <2>1. UNCHANGED <<depth, balance>>
    BY <1>3 DEF CheckMissed, ReadHeight, ListTransactions, LookAt, RegisterMissed,
                FinishCheck, CheckFails, Serve
  <2>2. row' = row \/ (cur \in Outputs /\ CreditAddress(cur))
    BY <1>3 DEF IInv, TypeOK, CheckMissed, ReadHeight, ListTransactions, LookAt,
                RegisterMissed, FinishCheck, CheckFails, Serve
  <2>3. \A s \in Outputs \union Sends : row'[s] = "credited" <=> row[s] = "credited"
    BY <2>2, RegisterIsQuiet
  <2> QED BY <2>1, <2>3, QuietStep
<1>4. ASSUME NEW o \in Outputs, AddressPaidCb(o) PROVE LedgerStep
  <2>1. UNCHANGED <<depth, balance>> /\ CreditAddress(o)
    BY <1>4 DEF AddressPaidCb
  <2>2. \A s \in Outputs \union Sends : row'[s] = "credited" <=> row[s] = "credited"
    BY <2>1, RegisterIsQuiet
  <2> QED BY <2>1, <2>2, QuietStep
<1>5. ASSUME NEW h \in Handlers, Handle(h) PROVE LedgerStep
  <2>1. UNCHANGED <<depth, balance, row>>
    BY <1>5 DEF Handle, BlockArrives, ListPending, HandlerGivesUp, CheckConfs
  <2> QED BY <2>1, QuietStep
<1> QED BY <1>1, <1>2, <1>3, <1>4, <1>5, CreditRefines, SendRefines DEF Next

\* Streams, handlers, the start-up check and crashes implement ReceiptLedger:
\* whatever their order, an output is credited at most once, in full, and only
\* when it has its confirmations.
THEOREM ImplementsReceipts == Spec => LedgerSpec
<1>1. Init => Ledger!Init
  <2> SUFFICES ASSUME Init PROVE Ledger!Init
    OBVIOUS
  <2>1. DeepEnough = {}
    <3>1. \A o \in Outputs : depth[o] = -1 /\ Needed[o] \in 1..Deepest
      BY ChainAssumption DEF Init
    <3> QED BY <3>1 DEF DeepEnough
  <2>2. Credited = {}
    BY DEF Init, Credited
  <2> QED BY <2>1, <2>2 DEF Init, Ledger!Init
<1>2. IInv /\ [Next]_vars => [Ledger!Next]_(Ledger!vars)
  BY StepRefines DEF LedgerStep
<1>3. Init => IInv
  BY InitInv
<1>4. IInv /\ [Next]_vars => IInv'
  BY NextStep
<1> QED BY <1>1, <1>2, <1>3, <1>4, PTL DEF Spec, LedgerSpec, Ledger!Spec

-----------------------------------------------------------------------------
(* The books: every step of the ledger keeps them.                         *)

Received == Credited \intersect Outputs

LEMMA BooksStep ==
    ASSUME IInv, IInv', BooksInv, LedgerStep PROVE BooksInv'
<1> DEFINE sum == SumFunctionOnSet(balance, Users)
<1>t. /\ balance \in [Users -> Nat] /\ balance' \in [Users -> Nat]
      /\ \A u \in Users : balance[u] \in Int /\ balance'[u] \in Int
  BY DEF IInv, TypeOK
<1>n. /\ sum \in Int /\ SumFunctionOnSet(InitBalance, Users) \in Int
      /\ IsFiniteSet(Received) /\ Cardinality(Received) \in Nat /\ Amount \in Int
  <2>1. \A u \in Users : balance[u] \in Int /\ InitBalance[u] \in Int
    BY <1>t, ChainAssumption
  <2>2. IsFiniteSet(Received)
    BY FiniteAssumption, FS_Subset DEF Received
  <2> QED BY <2>1, <2>2, SumInt, FS_CardinalityType, FiniteAssumption, ChainAssumption
<1>b. sum = SumFunctionOnSet(InitBalance, Users) + Amount * Cardinality(Received)
  BY DEF BooksInv, Received
<1>1. CASE balance' = balance /\ Credited' = Credited
  BY <1>1 DEF BooksInv
<1>2. ASSUME NEW o \in Outputs, Ledger!Credit(o) PROVE BooksInv'
  <2>1. o \notin Received /\ Received' = Received \union {o}
    BY <1>2 DEF Ledger!Credit, Received, DeepEnough
  <2>2. Cardinality(Received') = Cardinality(Received) + 1
    BY <1>n, <2>1, FS_AddElement
  <2>3. PICK w \in Users : w = OwnerOf[o]
    BY ChainAssumption
  <2>4. balance'[w] = balance[w] + Amount /\ \A v \in Users \ {w} : balance'[v] = balance[v]
    BY <1>2, <1>t, <2>3 DEF Ledger!Credit
  <2>t. \A v \in Users : balance[v] \in Int /\ balance'[v] \in Int
    BY <1>t
  <2>5. SumFunctionOnSet(balance', Users) = sum + (balance'[w] - balance[w])
    BY <2>t, <2>4, SumChange, FiniteAssumption
  <2>6. SumFunctionOnSet(balance', Users) = sum + Amount
    BY <1>n, <2>t, <2>4, <2>5
  <2> HIDE DEF sum
  <2>7. SumFunctionOnSet(balance', Users) =
          SumFunctionOnSet(InitBalance, Users) + Amount * (Cardinality(Received) + 1)
    BY <1>n, <1>b, <2>6
  <2> QED BY <2>2, <2>7 DEF BooksInv, Received
<1>3. ASSUME NEW u \in Users, NEW s \in Sends, Ledger!Send(u, s) PROVE BooksInv'
  <2>1. Received' = Received
    BY <1>3, ChainAssumption DEF Ledger!Send, Received
  <2>2. PICK fee \in Int, w \in Users : fee = (IF u = Owner THEN 0 ELSE SendFee) /\ w = OwnerOf[s]
    BY ChainAssumption
  <2>3. PICK d \in Int : d = Amount + fee
    BY <1>n
  <2> DEFINE debited == [balance EXCEPT ![u] = @ - d]
             paid == [debited EXCEPT ![w] = @ + Amount]
  <2>4. balance' = [paid EXCEPT ![Owner] = @ + fee]
    <3>1. balance[u] - Amount - fee = balance[u] - d
      BY <1>t, <1>n, <2>3
    <3> QED BY <1>3, <2>2, <3>1 DEF Ledger!Send
  <2>5. /\ debited \in [Users -> Int] /\ debited[u] = balance[u] - d
        /\ \A v \in Users \ {u} : debited[v] = balance[v]
    BY <1>t
  <2> HIDE DEF debited
  <2>6. /\ paid \in [Users -> Int] /\ paid[w] = debited[w] + Amount
        /\ \A v \in Users \ {w} : paid[v] = debited[v]
    BY <1>n, <2>5
  <2> HIDE DEF paid
  <2>t. \A v \in Users : /\ balance[v] \in Int /\ balance'[v] \in Int
                         /\ debited[v] \in Int /\ paid[v] \in Int
    BY <1>t, <2>5, <2>6
  <2>v. /\ debited[u] = balance[u] - d /\ \A v \in Users \ {u} : debited[v] = balance[v]
        /\ paid[w] = debited[w] + Amount /\ \A v \in Users \ {w} : paid[v] = debited[v]
    BY <2>5, <2>6
  <2>7. SumFunctionOnSet(paid, Users) = sum - d + Amount
    <3>1. SumFunctionOnSet(debited, Users) = sum + (debited[u] - balance[u])
      BY <2>t, <2>v, SumChange, FiniteAssumption
    <3>2. SumFunctionOnSet(paid, Users) = SumFunctionOnSet(debited, Users) + (paid[w] - debited[w])
      BY <2>t, <2>v, SumChange, FiniteAssumption
    <3> QED BY <1>n, <2>t, <2>v, <3>1, <3>2
  <2>8. balance'[Owner] = paid[Owner] + fee /\ \A v \in Users \ {Owner} : balance'[v] = paid[v]
    BY <2>4, <2>6, ChainAssumption
  <2>9. SumFunctionOnSet(balance', Users) = SumFunctionOnSet(paid, Users) + (balance'[Owner] - paid[Owner])
    BY <2>t, <2>8, SumChange, FiniteAssumption, ChainAssumption
  <2>10. SumFunctionOnSet(balance', Users) = sum
    BY <1>n, <2>t, <2>3, <2>7, <2>8, <2>9, ChainAssumption
  <2> QED BY <1>b, <2>1, <2>10 DEF BooksInv, Received
<1> QED BY <1>1, <1>2, <1>3 DEF LedgerStep, Ledger!Next, Ledger!vars, Ledger!Confirm

\* The money in the balances is what there was plus the credited outputs,
\* exactly, whatever handlers, failing credits, payments between users and
\* restarts come in between.
THEOREM BooksAreExact == Spec => []ReceiptInv
<1>1. Init => IInv /\ BooksInv
  <2> SUFFICES ASSUME Init PROVE BooksInv
    BY InitInv
  <2>1. Credited \intersect Outputs = {} /\ balance = InitBalance
    BY DEF Init, Credited
  <2>2. SumFunctionOnSet(InitBalance, Users) \in Int /\ Amount \in Nat
    BY SumInt, ChainAssumption, FiniteAssumption
  <2> QED BY <2>1, <2>2, FS_EmptySet DEF BooksInv
<1>2. IInv /\ BooksInv /\ [Next]_vars => IInv' /\ BooksInv'
  BY NextStep, StepRefines, BooksStep
<1>3. IInv /\ BooksInv => ReceiptInv
  BY DEF IInv, ReceiptInv
<1> QED BY <1>1, <1>2, <1>3, PTL DEF Spec
=============================================================================
