----------------------- MODULE TransactionsQueueProofs -----------------------
(***************************************************************************)
(* Theorems about TransactionsQueue, for any finite set of clients.        *)
(***************************************************************************)
EXTENDS TransactionsQueue, FiniteSetTheorems, TLAPS

IInv == TypeOK /\ QueueInv

LEMMA EmptyQueue == <<>> \in Seq(Clients)
OBVIOUS

-----------------------------------------------------------------------------
(* Counting readers.                                                       *)

LEMMA InFinite == \A s : IsFiniteSet(In(s)) /\ Cardinality(In(s)) \in Nat
<1> TAKE s
<1>1. In(s) \in SUBSET Clients
  BY DEF In
<1>2. IsFiniteSet(In(s))
  BY <1>1, FS_Subset, QueueAssumption
<1> QED BY <1>2, FS_CardinalityType

LEMMA ReaderLeaves ==
    ASSUME IInv, NEW c \in Readers, Readers' = Readers \ {c}
    PROVE  /\ Cardinality(Readers') = activeReaders - 1
           /\ activeReaders # 1 <=> Readers' # {}
<1>0. IsFiniteSet(Readers) /\ activeReaders = Cardinality(Readers) /\ activeReaders \in Nat
  BY InFinite DEF IInv, TypeOK, QueueInv, CountInv, Readers
<1>1. Cardinality(Readers \ {c}) = activeReaders - 1 /\ IsFiniteSet(Readers \ {c})
  BY <1>0, FS_RemoveElement
<1>2. Cardinality(Readers \ {c}) = 0 <=> Readers \ {c} = {}
  BY <1>1, FS_EmptySet
<1> QED BY <1>0, <1>1, <1>2

LEMMA ReaderEnters ==
    ASSUME IInv, NEW c \in Clients, c \notin Readers, Readers' = Readers \union {c}
    PROVE  Cardinality(Readers') = activeReaders + 1
<1>0. IsFiniteSet(Readers) /\ activeReaders = Cardinality(Readers)
  BY InFinite DEF IInv, QueueInv, CountInv, Readers
<1> QED BY <1>0, FS_AddElement

-----------------------------------------------------------------------------
(* execNextInQueue: p is pc with whoever was served, or the last reader,   *)
(* made idle.                                                              *)

Vacated(p) ==
    /\ p \in [Clients -> PcValues]
    /\ \A c \in Clients :
          /\ p[c] \notin Serving \union {"reading"}
          /\ p[c] # pc[c] => p[c] = "idle" /\ pc[c] \in Serving \union {"reading"}

LEMMA ExecNext ==
    ASSUME IInv, NEW p, Vacated(p), ExecNextInQueue(p, 0)
    PROVE  /\ pc' \in [Clients -> PcValues]
           /\ pendingTx' \in BOOLEAN /\ writeRequested' \in BOOLEAN
           /\ transactionsQueue' \in Seq(Clients) /\ activeReaders' \in Nat
           /\ CountInv' /\ WaitersInv'
           /\ ServingInv'
           /\ connection' \in {"auto", "begin"}
           /\ \A c \in Clients : pc'[c] \notin InBody
<1> USE DEF Vacated, Serving, InBody
<1>p. \A c \in Clients : p[c] \in {"waiting", "queuedWrite", "queuedTx"} <=>
                         pc[c] \in {"waiting", "queuedWrite", "queuedTx"}
  OBVIOUS
<1>q. transactionsQueue \in Seq(Clients)
  BY DEF IInv, TypeOK
<1>1. CASE transactionsQueue = <<>>
  <2>1. DoneWriting(p, 0) /\ transactionsQueue' = <<>>
    BY <1>1 DEF ExecNextInQueue
  <2>2. /\ pc' = [c \in Clients |-> IF p[c] = "waiting" THEN "reading" ELSE p[c]]
        /\ writeRequested' = FALSE /\ pendingTx' = FALSE /\ connection' = "auto"
        /\ activeReaders' = Cardinality(Waiting)
    BY <2>1, InFinite DEF DoneWriting, Waiting
  <2>3. Readers' = Waiting
    BY <2>2, <1>p DEF In, Readers, Waiting
  <2>4. Waiting' = {}
    BY <2>2 DEF In, Waiting
  <2>5. CountInv'
    BY <2>2, <2>3 DEF CountInv
  <2>6. WaitersInv'
    BY <2>1, <2>2, <2>4 DEF WaitersInv
  <2>7. \A c \in Clients : pc'[c] \notin Serving
    BY <2>2
  <2>8. ServingInv'
    BY <2>2, <2>7 DEF ServingInv, In
  <2>9. pc' \in [Clients -> PcValues]
    BY <2>2 DEF PcValues
  <2>10. activeReaders' \in Nat
    BY <2>2, InFinite DEF Waiting
  <2>11. \A c \in Clients : pc'[c] \notin InBody
    BY <2>7
  <2> QED BY <1>1, <1>q, <2>1, <2>2, <2>5, <2>6, <2>8, <2>9, <2>10, <2>11
<1>2. CASE transactionsQueue # <<>>
  <2> DEFINE h == Head(transactionsQueue)
             s == IF p[h] = "queuedTx" THEN "starting" ELSE "writing"
  <2>1. /\ pendingTx' = TRUE /\ pc' = [p EXCEPT ![h] = s]
        /\ connection' = IF p[h] = "queuedTx" THEN "begin" ELSE "auto"
        /\ transactionsQueue' = Tail(transactionsQueue)
        /\ activeReaders' = 0 /\ writeRequested' = writeRequested
    BY <1>2 DEF ExecNextInQueue, ExecQueueItem
  <2>2. h \in Clients /\ Len(transactionsQueue) >= 1
    BY <1>2, <1>q
  <2>3. /\ Len(Tail(transactionsQueue)) = Len(transactionsQueue) - 1
        /\ \A k \in 1..(Len(transactionsQueue) - 1) :
              Tail(transactionsQueue)[k] = transactionsQueue[k + 1]
        /\ h = transactionsQueue[1]
    BY <1>2, <1>q
  <2>4. \A c \in Clients : c # h => pc'[c] = p[c]
    BY <2>1
  <2>5. pc'[h] = s
    BY <2>1, <2>2
  <2>6. Readers' = {}
    BY <2>4, <2>5, <2>2 DEF In, Readers
  <2>7. CountInv'
    BY <2>1, <2>6, FS_EmptySet DEF CountInv
  <2>8. writeRequested = TRUE
    BY <1>2 DEF IInv, QueueInv, WaitersInv, TypeOK
  <2>9. WaitersInv'
    <3>1. \A k \in 1..Len(transactionsQueue)' :
             /\ transactionsQueue'[k] = transactionsQueue[k + 1]
             /\ transactionsQueue'[k] \in Queued
             /\ transactionsQueue'[k] # h
      BY <2>1, <2>2, <2>3, <1>q DEF IInv, QueueInv, WaitersInv
    <3>2. \A k \in 1..Len(transactionsQueue)' : transactionsQueue'[k] \in Queued'
      BY <3>1, <2>4, <1>p DEF Queued, In
    <3>3. \A j, k \in 1..Len(transactionsQueue)' :
             transactionsQueue'[j] = transactionsQueue'[k] => j = k
      BY <3>1, <2>1, <2>2, <2>3, <1>q DEF IInv, QueueInv, WaitersInv
    <3> QED BY <3>2, <3>3, <2>1, <2>8 DEF WaitersInv
  <2>10. \A c \in Clients : c # h => pc'[c] \notin Serving
    BY <2>4
  <2>11. s \in {"writing", "starting"} /\ (s = "starting" <=> connection' = "begin")
         /\ connection' \in {"auto", "begin"}
    BY <2>1
  <2>12. ServingInv'
    BY <2>1, <2>2, <2>5, <2>10, <2>11 DEF ServingInv, In
  <2>13. pc' \in [Clients -> PcValues]
    BY <2>1, <2>2, <2>11 DEF PcValues
  <2>14. transactionsQueue' \in Seq(Clients)
    BY <2>1, <1>q, <1>2
  <2>15. \A c \in Clients : pc'[c] \notin InBody
    BY <2>5, <2>10, <2>11
  <2> QED BY <2>1, <2>7, <2>8, <2>9, <2>11, <2>12, <2>13, <2>14, <2>15
<1> QED BY <1>1, <1>2

\* Where nobody reads or is served any more, ExecNext applies.
LEMMA NextServed ==
    ASSUME IInv, NEW p, Vacated(p), ExecNextInQueue(p, 0),
           seen' \in [Clients -> 0..Cap], got' \in [Clients -> 0..Cap],
           visible' = committed', committed' \in 0..Cap,
           UNCHANGED activeTransaction
    PROVE  IInv'
<1>1. DataInv'
  BY ExecNext DEF DataInv, InBody, In, IInv, TypeOK
<1>2. TypeOK'
  BY ExecNext DEF TypeOK, IInv
<1> QED BY <1>1, <1>2, ExecNext DEF IInv, QueueInv

\* A served client, or a commit under way, excludes every reader.
LEMMA NoReaders ==
    ASSUME IInv, pendingTx PROVE Readers = {} /\ activeReaders = 0
BY FS_EmptySet DEF IInv, QueueInv, CountInv

LEMMA ServedEnds ==
    ASSUME IInv, NEW c \in Clients, pc[c] \in Serving
    PROVE  Vacated(Set(c, "idle")) /\ activeReaders = 0
<1>1. pendingTx
  BY DEF IInv, QueueInv, ServingInv
<1>2. \A d \in Clients : pc[d] # "reading"
  BY <1>1, NoReaders DEF Readers, In
<1>3. \A d \in Clients : d # c => pc[d] \notin Serving
  BY DEF IInv, QueueInv, ServingInv
<1>4. Set(c, "idle") \in [Clients -> PcValues]
  BY DEF IInv, TypeOK, Set, PcValues
<1>5. \A d \in Clients : Set(c, "idle")[d] = IF d = c THEN "idle" ELSE pc[d]
  BY DEF IInv, TypeOK, Set
<1>6. "idle" \notin Serving
  BY DEF Serving, InBody
<1> QED BY <1>1, <1>2, <1>3, <1>4, <1>5, <1>6, NoReaders DEF Vacated

-----------------------------------------------------------------------------
(* Each action keeps the invariant.                                        *)

\* A change of pc that moves c alone.
LEMMA SetPc ==
    ASSUME IInv, NEW c \in Clients, NEW s \in PcValues, pc' = Set(c, s)
    PROVE  /\ pc' \in [Clients -> PcValues]
           /\ pc'[c] = s /\ \A d \in Clients : d # c => pc'[d] = pc[d]
BY DEF IInv, TypeOK, Set

LEMMA ReadKeeps == ASSUME IInv, NEW c \in Clients, Read(c) PROVE IInv'
<1>0. pc[c] = "idle"
  BY DEF Read
<1>1. CASE ~writeRequested
  <2>1. pc' = Set(c, "reading") /\ activeReaders' = activeReaders + 1
    BY <1>1 DEF Read
  <2>2. UNCHANGED <<pendingTx, transactionsQueue, writeRequested, dataVars, activeTransaction, connection>>
    BY DEF Read
  <2>3. /\ pc' \in [Clients -> PcValues]
        /\ pc'[c] = "reading" /\ \A d \in Clients : d # c => pc'[d] = pc[d]
    BY <2>1, SetPc DEF PcValues
  <2>4. Readers' = Readers \union {c} /\ c \notin Readers
    BY <2>3, <1>0 DEF Readers, In
  <2>5. ~pendingTx /\ transactionsQueue = <<>> /\ Waiting = {}
    BY <1>1 DEF IInv, QueueInv, WaitersInv
  <2>6. CountInv'
    BY <2>1, <2>2, <2>4, <2>5, ReaderEnters DEF CountInv
  <2>7. Waiting' = {}
    BY <2>3, <2>5 DEF Waiting, In
  <2>8. WaitersInv'
    BY <2>2, <2>5, <2>7, <1>1 DEF WaitersInv
  <2>9. ServingInv' /\ DataInv' /\ TypeOK'
    BY <2>1, <2>2, <2>3, <1>0 DEF IInv, QueueInv, ServingInv, DataInv, TypeOK, dataVars, Serving, InBody, In
  <2> QED BY <2>6, <2>8, <2>9 DEF IInv, QueueInv
<1>2. CASE writeRequested
  <2>1. pc' = Set(c, "waiting") /\ UNCHANGED activeReaders
    BY <1>2 DEF Read
  <2>2. UNCHANGED <<pendingTx, transactionsQueue, writeRequested, dataVars, activeTransaction, connection>>
    BY DEF Read
  <2>3. /\ pc' \in [Clients -> PcValues]
        /\ pc'[c] = "waiting" /\ \A d \in Clients : d # c => pc'[d] = pc[d]
    BY <2>1, SetPc DEF PcValues
  <2>4. Readers' = Readers
    BY <2>3, <1>0 DEF Readers, In
  <2>5. CountInv'
    BY <2>1, <2>2, <2>4 DEF CountInv, IInv, QueueInv
  <2>6. Queued' = Queued
    BY <2>3, <1>0 DEF Queued, In
  <2>7. WaitersInv'
    BY <2>2, <2>4, <2>6, <1>2 DEF WaitersInv, IInv, QueueInv
  <2>8. ServingInv' /\ DataInv' /\ TypeOK'
    BY <2>1, <2>2, <2>3, <1>0 DEF IInv, QueueInv, ServingInv, DataInv, TypeOK, dataVars, Serving, InBody, In
  <2> QED BY <2>5, <2>7, <2>8 DEF IInv, QueueInv
<1> QED BY <1>1, <1>2

LEMMA ReadDoneKeeps == ASSUME IInv, NEW c \in Clients, ReadDone(c) PROVE IInv'
<1>0. pc[c] = "reading" /\ c \in Readers
  BY DEF ReadDone, Readers, In
<1>1. ~pendingTx /\ connection = "auto" /\ visible = committed
  BY <1>0 DEF IInv, QueueInv, CountInv, ServingInv, DataInv
<1>2. /\ seen' = seen /\ visible' = visible /\ committed' = committed
      /\ activeTransaction' = activeTransaction
      /\ got' \in [Clients -> 0..Cap]
  BY DEF ReadDone, IInv, TypeOK
<1>3. \A d \in Clients : pc[d] \notin Serving
  BY <1>1 DEF IInv, QueueInv, ServingInv
<1>4. Set(c, "idle") \in [Clients -> PcValues]
      /\ \A d \in Clients : Set(c, "idle")[d] = IF d = c THEN "idle" ELSE pc[d]
  BY DEF IInv, TypeOK, Set, PcValues
<1>5. CASE activeReaders = 1
  <2>1. ExecNextInQueue(Set(c, "idle"), 0)
    BY <1>1, <1>5 DEF ReadDone, DoneReading
  <2>2. Readers \ {c} = {}
    <3>1. Cardinality(Readers) = 1 /\ IsFiniteSet(Readers)
      BY <1>5, InFinite DEF IInv, QueueInv, CountInv, Readers
    <3> QED BY <1>0, <3>1, FS_Singleton
  <2>3. "idle" \notin Serving
    BY DEF Serving, InBody
  <2>4. Vacated(Set(c, "idle"))
    BY <1>0, <1>3, <1>4, <2>2, <2>3 DEF Vacated, Readers, In
  <2> QED BY <1>1, <1>2, <2>1, <2>4, NextServed DEF IInv, TypeOK
<1>6. CASE activeReaders # 1
  <2>1. /\ activeReaders' = activeReaders - 1 /\ pc' = Set(c, "idle")
        /\ UNCHANGED <<pendingTx, transactionsQueue, writeRequested, connection>>
    BY <1>6 DEF ReadDone, DoneReading
  <2>2. Readers' = Readers \ {c}
    BY <1>0, <1>4, <2>1 DEF Readers, In
  <2>3. Cardinality(Readers') = activeReaders - 1 /\ Readers' # {}
    BY <1>0, <1>6, <2>2, ReaderLeaves
  <2>4. CountInv'
    BY <1>1, <2>1, <2>3 DEF CountInv
  <2>5. Queued' = Queued /\ Waiting' = Waiting
    BY <1>0, <1>4, <2>1 DEF Queued, Waiting, In
  <2>6. WaitersInv'
    BY <2>1, <2>3, <2>5 DEF WaitersInv, IInv, QueueInv
  <2>7. ServingInv' /\ DataInv'
    BY <1>0, <1>2, <1>4, <2>1 DEF IInv, QueueInv, ServingInv, DataInv, Serving, InBody, In
  <2>8. activeReaders' \in Nat
    <3>1. IsFiniteSet(Readers \ {c})
      BY InFinite, FS_RemoveElement DEF Readers
    <3> QED BY <2>1, <2>2, <2>3, <3>1, FS_CardinalityType
  <2>9. TypeOK'
    BY <1>2, <1>4, <2>1, <2>8 DEF IInv, TypeOK
  <2> QED BY <2>4, <2>6, <2>7, <2>9 DEF IInv, QueueInv
<1> QED BY <1>5, <1>6

LEMMA PushKeeps ==
    ASSUME IInv, NEW c \in Clients, NEW isTx \in BOOLEAN, PushToQueue(c, isTx) PROVE IInv'
<1>0. /\ pc[c] = "idle" /\ writeRequested' = TRUE
      /\ UNCHANGED <<activeReaders, seen, got, visible, committed, activeTransaction>>
  BY DEF PushToQueue, dataVars
<1> DEFINE started == IF isTx THEN "starting" ELSE "writing"
           queued == IF isTx THEN "queuedTx" ELSE "queuedWrite"
<1>1. CASE ~pendingTx /\ activeReaders = 0
  <2>1. /\ pendingTx' = TRUE /\ pc' = Set(c, started)
        /\ connection' = IF isTx THEN "begin" ELSE "auto"
        /\ transactionsQueue' = transactionsQueue
    BY <1>1 DEF PushToQueue, ExecQueueItem, Set
  <2>2. /\ pc' \in [Clients -> PcValues]
        /\ pc'[c] = started /\ \A d \in Clients : d # c => pc'[d] = pc[d]
    BY <2>1, SetPc DEF PcValues
  <2>3. Readers = {}
    BY <1>1, FS_EmptySet, InFinite DEF IInv, QueueInv, CountInv, Readers
  <2>4. Readers' = {} /\ Queued' = Queued
    BY <1>0, <2>2, <2>3 DEF Readers, Queued, In
  <2>5. CountInv'
    BY <1>0, <1>1, <2>4, FS_EmptySet DEF CountInv
  <2>6. WaitersInv'
    BY <1>0, <2>1, <2>4 DEF WaitersInv, IInv, QueueInv
  <2>7. connection = "auto" /\ \A d \in Clients : pc[d] \notin Serving
    BY <1>1 DEF IInv, QueueInv, ServingInv
  <2>8. ServingInv' /\ DataInv'
    BY <1>0, <2>1, <2>2, <2>7 DEF ServingInv, DataInv, IInv, QueueInv, Serving, InBody, In
  <2>9. TypeOK'
    BY <1>0, <2>1, <2>2 DEF IInv, TypeOK
  <2> QED BY <2>5, <2>6, <2>8, <2>9 DEF IInv, QueueInv
<1>2. CASE pendingTx \/ activeReaders # 0
  <2>1. /\ transactionsQueue' = Append(transactionsQueue, c)
        /\ pc' = Set(c, queued)
        /\ UNCHANGED <<pendingTx, connection>>
    BY <1>2 DEF PushToQueue
  <2>2. /\ pc' \in [Clients -> PcValues]
        /\ pc'[c] = queued /\ \A d \in Clients : d # c => pc'[d] = pc[d]
    BY <2>1, SetPc DEF PcValues
  <2>3. Readers' = Readers
    BY <1>0, <2>2 DEF Readers, In
  <2>4. Queued' = Queued \union {c} /\ c \notin Queued
    BY <1>0, <2>2 DEF Queued, In
  <2>5. CountInv'
    BY <1>0, <2>1, <2>3 DEF CountInv, IInv, QueueInv
  <2>6. pendingTx' \/ Readers' # {}
    BY <1>2, <2>1, <2>3, FS_EmptySet DEF IInv, QueueInv, CountInv
  <2>7. \A k \in 1..Len(transactionsQueue) : transactionsQueue[k] # c
    BY <2>4 DEF IInv, QueueInv, WaitersInv
  <2>8. /\ Len(transactionsQueue)' = Len(transactionsQueue) + 1
        /\ \A k \in 1..Len(transactionsQueue) : transactionsQueue'[k] = transactionsQueue[k]
        /\ transactionsQueue'[Len(transactionsQueue) + 1] = c
        /\ Len(transactionsQueue) \in Nat /\ transactionsQueue' \in Seq(Clients)
    BY <2>1 DEF IInv, TypeOK
  <2>9. WaitersInv'
    <3>1. \A k \in 1..Len(transactionsQueue)' : transactionsQueue'[k] \in Queued'
      BY <2>4, <2>8 DEF IInv, QueueInv, WaitersInv
    <3>2. \A j, k \in 1..Len(transactionsQueue)' :
             transactionsQueue'[j] = transactionsQueue'[k] => j = k
      BY <2>7, <2>8 DEF IInv, QueueInv, WaitersInv
    <3> QED BY <1>0, <2>6, <3>1, <3>2 DEF WaitersInv
  <2>10. ServingInv' /\ DataInv'
    BY <1>0, <2>1, <2>2 DEF ServingInv, DataInv, IInv, QueueInv, Serving, InBody, In
  <2>11. TypeOK'
    BY <1>0, <2>1, <2>2, <2>8 DEF IInv, TypeOK
  <2> QED BY <2>5, <2>9, <2>10, <2>11 DEF IInv, QueueInv
<1> QED BY <1>1, <1>2

LEMMA DoOperationKeeps == ASSUME IInv, NEW c \in Clients, DoOperation(c) PROVE IInv'
<1>1. pc[c] \in Serving /\ connection = "auto"
  BY DEF DoOperation, IInv, QueueInv, ServingInv, Serving, In
<1>2. ExecNextInQueue(Set(c, "idle"), 0) /\ Vacated(Set(c, "idle"))
  BY <1>1, ServedEnds DEF DoOperation
<1>3. visible = committed
  BY <1>1 DEF IInv, QueueInv, DataInv
<1>4. visible' = committed' /\ committed' \in 0..Cap
  BY <1>1, <1>3, QueueAssumption DEF DoOperation, IInv, TypeOK
<1>5. UNCHANGED <<seen, got, activeTransaction>>
  BY DEF DoOperation
<1> QED BY <1>2, <1>4, <1>5, NextServed DEF IInv, TypeOK

LEMMA StartTxFailsKeeps == ASSUME IInv, NEW c \in Clients, StartTxFails(c) PROVE IInv'
<1>1. pc[c] \in Serving /\ connection = "begin"
  BY DEF StartTxFails, Serving
<1>2. ExecNextInQueue(Set(c, "idle"), 0) /\ Vacated(Set(c, "idle"))
  BY <1>1, ServedEnds DEF StartTxFails
<1>3. visible = committed
  BY <1>1 DEF IInv, QueueInv, DataInv
<1>4. UNCHANGED <<seen, got, visible, committed, activeTransaction>>
  BY DEF StartTxFails, dataVars
<1> QED BY <1>2, <1>3, <1>4, NextServed DEF IInv, TypeOK

LEMMA EndedKeeps == ASSUME IInv, Commit \/ Rollback PROVE IInv'
<1>1. connection \in {"commit", "rollback"}
  BY DEF Commit, Rollback
<1>2. pendingTx /\ \A c \in Clients : pc[c] \notin Serving
  BY <1>1 DEF IInv, QueueInv, ServingInv
<1>3. Readers = {} /\ activeReaders = 0
  BY <1>2, NoReaders
<1>4. Vacated(pc)
  BY <1>2, <1>3 DEF Vacated, Readers, In, IInv, TypeOK
<1>5. /\ ExecNextInQueue(pc, 0) /\ UNCHANGED <<seen, got, activeTransaction>>
      /\ visible' = committed' /\ committed' \in 0..Cap
  BY <1>3 DEF Commit, Rollback, IInv, TypeOK
<1> QED BY <1>4, <1>5, NextServed DEF IInv, TypeOK

\* The steps of a transaction, from BEGIN to the end of its body.
LEMMA BodyKeeps ==
    ASSUME IInv, NEW c \in Clients, StartTx(c) \/ Body(c) PROVE IInv'
<1>1. PICK s \in PcValues : pc' = Set(c, s) /\ s \in InBody \union {"idle"}
  <2>1. {"idle", "body", "checked", "succeeding", "failing"} \subseteq PcValues
    BY DEF PcValues
  <2> QED BY <2>1 DEF StartTx, Body, TxRead, TxWrite, TxThrows, EndTx, InBody
<1>2. /\ pc[c] \in {"starting"} \union InBody
      /\ UNCHANGED <<queueVars, got, committed>>
  BY DEF StartTx, Body, TxRead, TxWrite, TxThrows, EndTx, InBody, dataVars
<1>3. /\ pc' \in [Clients -> PcValues]
      /\ pc'[c] = s /\ \A d \in Clients : d # c => pc'[d] = pc[d]
  BY <1>1, SetPc
<1>4. pendingTx /\ \A d \in Clients : d # c => pc[d] \notin Serving
  BY <1>2 DEF IInv, QueueInv, ServingInv, Serving
<1>5. /\ UNCHANGED <<pendingTx, transactionsQueue, activeReaders, writeRequested>>
      /\ Readers' = Readers /\ Queued' = Queued /\ Waiting' = Waiting
  BY <1>1, <1>2, <1>3 DEF queueVars, Readers, Queued, Waiting, In, InBody
<1>6. CountInv' /\ WaitersInv'
  BY <1>5 DEF CountInv, WaitersInv, IInv, QueueInv
<1>7. ServingInv' /\ DataInv' /\ TypeOK'
  <2>1. CASE StartTx(c)
    <3>1. /\ connection = "begin" /\ connection' = "open" /\ activeTransaction' = c
          /\ pc' = Set(c, "body") /\ UNCHANGED <<seen, got, visible, committed>>
      BY <2>1 DEF StartTx, dataVars
    <3>2. pc'[c] = "body"
      BY <3>1, SetPc DEF PcValues
    <3> QED BY <1>3, <1>4, <1>5, <3>1, <3>2
        DEF ServingInv, DataInv, TypeOK, IInv, QueueInv, Serving, InBody, In
  <2>2. CASE TxRead(c)
    <3>1. /\ pc[c] = "body" /\ seen' = [seen EXCEPT ![c] = visible] /\ pc' = Set(c, "checked")
          /\ UNCHANGED <<got, visible, committed, activeTransaction, connection>>
      BY <2>2 DEF TxRead
    <3>2. pc'[c] = "checked" /\ seen'[c] = visible /\ seen' \in [Clients -> 0..Cap]
      BY <3>1, SetPc DEF PcValues, IInv, TypeOK
    <3> QED BY <1>3, <1>4, <1>5, <3>1, <3>2
        DEF ServingInv, DataInv, TypeOK, IInv, QueueInv, Serving, InBody, In
  <2>3. CASE TxWrite(c)
    <3>1. /\ pc[c] = "checked" /\ seen[c] >= 1 /\ visible' = visible - 1
          /\ pc' = Set(c, "succeeding")
          /\ UNCHANGED <<seen, got, committed, activeTransaction, connection>>
      BY <2>3 DEF TxWrite
    <3>2. pc'[c] = "succeeding"
      BY <3>1, SetPc DEF PcValues
    <3>3. visible = committed /\ visible >= 1
      BY <3>1 DEF IInv, QueueInv, DataInv
    <3>4. visible' \in 0..Cap
      BY <3>1, <3>3, QueueAssumption DEF IInv, TypeOK
    <3>5. connection = "open"
      BY <3>1 DEF IInv, QueueInv, ServingInv, InBody
    <3> QED BY <1>3, <1>4, <1>5, <3>1, <3>2, <3>3, <3>4, <3>5
        DEF ServingInv, DataInv, TypeOK, IInv, QueueInv, Serving, InBody, In
  <2>4. CASE TxThrows(c)
    <3>1. /\ pc[c] \in InBody /\ pc' = Set(c, "failing")
          /\ UNCHANGED <<seen, got, visible, committed, activeTransaction, connection>>
      BY <2>4 DEF TxThrows, dataVars, InBody
    <3>2. pc'[c] = "failing"
      BY <3>1, SetPc DEF PcValues
    <3> QED BY <1>3, <1>4, <1>5, <3>1, <3>2
        DEF ServingInv, DataInv, TypeOK, IInv, QueueInv, Serving, InBody, In
  <2>5. CASE EndTx(c)
    <3>1. /\ pc[c] \in {"succeeding", "failing"} /\ pc' = Set(c, "idle")
          /\ connection' = IF pc[c] = "succeeding" THEN "commit" ELSE "rollback"
          /\ activeTransaction' = NoClient
          /\ UNCHANGED <<seen, got, visible, committed>>
      BY <2>5 DEF EndTx, dataVars
    <3>2. pc'[c] = "idle"
      BY <3>1, SetPc DEF PcValues
    <3> QED BY <1>3, <1>4, <1>5, <3>1, <3>2
        DEF ServingInv, DataInv, TypeOK, IInv, QueueInv, Serving, InBody, In
  <2> QED BY <2>1, <2>2, <2>3, <2>4, <2>5 DEF Body
<1> QED BY <1>6, <1>7 DEF IInv, QueueInv

LEMMA CrashKeeps == ASSUME IInv, Crash PROVE IInv'
<1>1. /\ pc' \in [Clients -> PcValues] /\ \A c \in Clients : pc'[c] = "idle"
      /\ visible' = committed' /\ committed' \in 0..Cap
  BY DEF Crash, IInv, TypeOK, PcValues
<1>2. Readers' = {} /\ Waiting' = {}
  BY <1>1 DEF Readers, Waiting, In
<1>3. CountInv' /\ WaitersInv'
  BY <1>2, FS_EmptySet DEF Crash, CountInv, WaitersInv
<1>4. ServingInv' /\ DataInv'
  BY <1>1 DEF Crash, ServingInv, DataInv, Serving, InBody, In
<1>5. TypeOK'
  BY <1>1, EmptyQueue DEF Crash, IInv, TypeOK
<1> QED BY <1>3, <1>4, <1>5 DEF IInv, QueueInv

LEMMA InitInv == Init => IInv
<1> SUFFICES ASSUME Init PROVE IInv
  OBVIOUS
<1>1. Readers = {} /\ Waiting = {}
  BY DEF Init, Readers, Waiting, In
<1>2. CountInv /\ WaitersInv
  BY <1>1, FS_EmptySet DEF Init, CountInv, WaitersInv
<1>3. ServingInv /\ DataInv
  BY DEF Init, ServingInv, DataInv, Serving, InBody, In
<1>4. TypeOK
  BY QueueAssumption, EmptyQueue DEF Init, TypeOK, PcValues
<1> QED BY <1>2, <1>3, <1>4 DEF IInv, QueueInv

LEMMA NextKeeps == ASSUME IInv, [Next]_vars PROVE IInv'
<1>1. CASE UNCHANGED vars
  BY <1>1 DEF vars, queueVars, dataVars, IInv, TypeOK, QueueInv, CountInv, WaitersInv, ServingInv,
     DataInv, Readers, Waiting, Queued, In
<1>2. ASSUME NEW c \in Clients, Request(c) \/ Body(c) \/ Step(c) PROVE IInv'
  BY <1>2, ReadKeeps, PushKeeps, ReadDoneKeeps, DoOperationKeeps, StartTxFailsKeeps, BodyKeeps
  DEF Request, Step
<1> QED BY <1>1, <1>2, EndedKeeps, CrashKeeps DEF Next

-----------------------------------------------------------------------------
(* Results.                                                                *)

(* The bookkeeping of transactionsQueue.ts is right for any finite number  *)
(* of clients: activeReaders counts the readers, pendingTx and             *)
(* writeRequested say what runs and what waits, and what is not committed  *)
(* yet belongs to the one transaction on the connection.                   *)
THEOREM QueueCorrect == Spec => [](TypeOK /\ QueueInv)
<1>1. Init => IInv
  BY InitInv
<1>2. IInv /\ [Next]_vars => IInv'
  BY NextKeeps
<1>3. IInv => TypeOK /\ QueueInv
  BY DEF IInv
<1> QED BY <1>1, <1>2, <1>3, PTL DEF Spec

(* Readers outside the queue and the operation on the connection exclude   *)
(* each other: readStarted and the switch of consumeQueue never let a read *)
(* and a write run together.                                               *)
THEOREM ReadersExcludeWriters == Spec => []Exclusion
<1>1. TypeOK /\ QueueInv => Exclusion
  BY DEF TypeOK, QueueInv, CountInv, ServingInv, Exclusion, Serving, Readers, In
<1> QED BY <1>1, QueueCorrect, PTL

(* A read outside a transaction sees committed data only, although it uses *)
(* the one connection on which transactions write.                         *)
THEOREM ReadsAreClean == Spec => []NoDirtyRead
<1>1. QueueInv => NoDirtyRead
  BY DEF QueueInv, CountInv, ServingInv, DataInv, NoDirtyRead
<1> QED BY <1>1, QueueCorrect, PTL

(* The balance a transaction has checked is still the balance when it      *)
(* withdraws, so DecrementUserBalanceInTx can rely on its own read.        *)
THEOREM ChecksStayTrue == Spec => []CheckedStillTrue
<1>1. QueueInv => CheckedStillTrue
  BY DEF QueueInv, DataInv, CheckedStillTrue, In
<1> QED BY <1>1, QueueCorrect, PTL

(* Nobody waits on an idle queue: whoever ends a read or an operation      *)
(* hands the queue on to those it finds waiting.                           *)
THEOREM NoWakeUpIsLost == Spec => []NoLostWaiter
<1>1. TypeOK /\ QueueInv => NoLostWaiter
  BY DEF TypeOK, QueueInv, WaitersInv, NoLostWaiter
<1> QED BY <1>1, QueueCorrect, PTL

\* Every step of the queue is a step of the atomic store or a stutter.
LEMMA StepMaps == ASSUME IInv, [Next]_vars PROVE [Store!Next]_<<committed, got>>
<1>1. CASE UNCHANGED vars
  BY <1>1 DEF vars, dataVars
<1>2. ASSUME NEW c \in Clients, Request(c) \/ Body(c) \/ StartTx(c) \/ StartTxFails(c)
      PROVE UNCHANGED <<committed, got>>
  BY <1>2 DEF Request, Read, PushToQueue, Body, TxRead, TxWrite, TxThrows, EndTx, StartTx,
     StartTxFails, dataVars
<1>3. ASSUME NEW c \in Clients, ReadDone(c) PROVE [Store!Next]_<<committed, got>>
  <2>1. c \in Readers
    BY <1>3 DEF ReadDone, Readers, In
  <2>2. visible = committed
    BY <2>1 DEF IInv, QueueInv, CountInv, ServingInv, DataInv
  <2> QED BY <1>3, <2>2 DEF ReadDone, Store!Next, Store!Read
<1>4. ASSUME NEW c \in Clients, DoOperation(c) PROVE [Store!Next]_<<committed, got>>
  <2>1. connection = "auto" /\ visible = committed
    BY <1>4 DEF DoOperation, IInv, QueueInv, ServingInv, DataInv, In
  <2> QED BY <1>4, <2>1 DEF DoOperation, Store!Next, Store!Increment
<1>5. CASE Commit
  <2>1. visible = committed - 1 /\ visible >= 0 /\ committed \in Int
    BY <1>5, QueueAssumption DEF Commit, IInv, TypeOK, QueueInv, DataInv
  <2> QED BY <1>5, <2>1 DEF Commit, Store!Next, Store!Withdraw
<1>6. CASE Rollback
  BY <1>6 DEF Rollback
<1>7. CASE Crash
  <2>1. connection = "commit" => visible = committed - 1
    BY DEF IInv, QueueInv, DataInv
  <2>2. visible >= 0 /\ committed \in Int
    BY QueueAssumption DEF IInv, TypeOK
  <2> QED BY <1>7, <2>1, <2>2 DEF Crash, Store!Next, Store!Withdraw
<1> QED BY <1>1, <1>2, <1>3, <1>4, <1>5, <1>6, <1>7 DEF Next, Step

(* The queue with the startTx and endTx messages implements the atomic     *)
(* store: for the clients in the main process every write, every checked   *)
(* withdrawal in a transaction and every read happens in one step.         *)
THEOREM ImplementsStore == Spec => StoreSpec
<1>1. Init => Store!Init
  BY DEF Init, Store!Init
<1>2. IInv /\ [Next]_vars => [Store!Next]_<<committed, got>>
  BY StepMaps
<1>3. TypeOK /\ QueueInv <=> IInv
  BY DEF IInv
<1> QED BY <1>1, <1>2, <1>3, QueueCorrect, PTL DEF Spec, StoreSpec, Store!Spec
=============================================================================
