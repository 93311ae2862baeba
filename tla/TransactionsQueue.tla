-------------------------- MODULE TransactionsQueue --------------------------
(***************************************************************************)
(* The storage process: the readers-writer queue over the one database     *)
(* connection (transactionsQueue.ts) and the startTx / endTx messages by   *)
(* which the main process runs a transaction from outside it               *)
(* (storageProcessor.ts, StorageInterface.Tx).                             *)
(*                                                                         *)
(* A client is one chain of awaits in the main process, with one request   *)
(* outstanding.  The database is one balance: a write increments it, a     *)
(* transaction reads it and withdraws if it can, as the balance updates of *)
(* userStorage.ts do.  All statements go through one connection, so a      *)
(* statement sees, and belongs to, whatever transaction is open on it.     *)
(***************************************************************************)
EXTENDS Integers, FiniteSets, Sequences

CONSTANTS
    Clients,      \* requesters in the main process
    NoClient,
    InitialValue, \* the balance at the start
    Cap           \* bound: increments fail at this balance

ASSUME QueueAssumption ==
    /\ IsFiniteSet(Clients) /\ NoClient \notin Clients
    /\ Cap \in Nat /\ InitialValue \in 0..Cap

VARIABLES
    pc,                \* per client: what its request is doing
    seen, got,         \* balance a transaction read; balance a read returned
    pendingTx, transactionsQueue, activeReaders, writeRequested,
    activeTransaction, \* client whose transaction takes operations
    connection,        \* "auto", or the stage of the transaction open on it
    visible,           \* balance as the connection sees it
    committed          \* balance as it would be after a crash

queueVars == <<pendingTx, transactionsQueue, activeReaders, writeRequested>>
dataVars == <<seen, got, visible, committed>>
vars == <<pc, queueVars, dataVars, activeTransaction, connection>>

In(s) == {c \in Clients : pc[c] = s}

\* Readers being served, and readersQueue.
Readers == In("reading")
Waiting == In("waiting")

Init ==
    /\ pc = [c \in Clients |-> "idle"]
    /\ seen = [c \in Clients |-> InitialValue]
    /\ got = [c \in Clients |-> InitialValue]
    /\ pendingTx = FALSE /\ writeRequested = FALSE
    /\ transactionsQueue = <<>> /\ activeReaders = 0
    /\ activeTransaction = NoClient /\ connection = "auto"
    /\ visible = InitialValue /\ committed = InitialValue

-----------------------------------------------------------------------------
(* The queue.  p is pc after the step that leads here, n the readers left. *)

Set(c, s) == [pc EXCEPT ![c] = s]

\* execQueueItem: the request of c runs; a transaction starts with BEGIN.
ExecQueueItem(c, p, isTx) ==
    /\ pendingTx' = TRUE
    /\ pc' = [p EXCEPT ![c] = IF isTx THEN "starting" ELSE "writing"]
    /\ connection' = IF isTx THEN "begin" ELSE "auto"

\* Mutant: the flag is reset and no reader is woken.
MutDoneWriting(p, n) ==
    /\ writeRequested' = FALSE /\ pendingTx' = FALSE
    /\ pc' = p /\ activeReaders' = n
    /\ connection' = "auto"

\* Every waiting reader runs: nothing else does until it has started, since a
\* message is handled only after the promises resolved here.
DoneWriting(p, n) ==
    /\ writeRequested' = FALSE /\ pendingTx' = FALSE
    /\ pc' = [c \in Clients |-> IF p[c] = "waiting" THEN "reading" ELSE p[c]]
    /\ activeReaders' = n + Cardinality(Waiting)
    /\ connection' = "auto"

ExecNextInQueue(p, n) ==
    IF transactionsQueue = <<>>
    THEN DoneWriting(p, n) /\ UNCHANGED transactionsQueue
    ELSE LET c == Head(transactionsQueue)
         IN  /\ ExecQueueItem(c, p, p[c] = "queuedTx")
             /\ transactionsQueue' = Tail(transactionsQueue)
             /\ activeReaders' = n /\ UNCHANGED writeRequested

-----------------------------------------------------------------------------
(* Reads outside a transaction.                                            *)

\* Mutants: a reader looks at pendingTx, or at nothing.
MutReadPending(c) ==
    /\ pc[c] = "idle"
    /\ IF ~pendingTx
       THEN pc' = Set(c, "reading") /\ activeReaders' = activeReaders + 1
       ELSE pc' = Set(c, "waiting") /\ UNCHANGED activeReaders
    /\ UNCHANGED <<pendingTx, transactionsQueue, writeRequested, dataVars, activeTransaction, connection>>

MutReadAlways(c) ==
    /\ pc[c] = "idle"
    /\ pc' = Set(c, "reading") /\ activeReaders' = activeReaders + 1
    /\ UNCHANGED <<pendingTx, transactionsQueue, writeRequested, dataVars, activeTransaction, connection>>

Read(c) ==
    /\ pc[c] = "idle"
    /\ IF ~writeRequested
       THEN pc' = Set(c, "reading") /\ activeReaders' = activeReaders + 1
       ELSE pc' = Set(c, "waiting") /\ UNCHANGED activeReaders
    /\ UNCHANGED <<pendingTx, transactionsQueue, writeRequested, dataVars, activeTransaction, connection>>

\* Mutants: doneReading leaves the queue alone; a failed read is counted twice.
MutDoneReading(c) ==
    /\ activeReaders' = activeReaders - 1 /\ pc' = Set(c, "idle")
    /\ UNCHANGED <<pendingTx, transactionsQueue, writeRequested, connection>>

MutDoneTwice(c) ==
    \E n \in {1, 2} :
        IF activeReaders <= n /\ ~pendingTx
        THEN ExecNextInQueue(Set(c, "idle"), activeReaders - n)
        ELSE /\ activeReaders' = activeReaders - n /\ pc' = Set(c, "idle")
             /\ UNCHANGED <<pendingTx, transactionsQueue, writeRequested, connection>>

DoneReading(c) ==
    IF activeReaders = 1 /\ ~pendingTx
    THEN ExecNextInQueue(Set(c, "idle"), 0)
    ELSE /\ activeReaders' = activeReaders - 1 /\ pc' = Set(c, "idle")
         /\ UNCHANGED <<pendingTx, transactionsQueue, writeRequested, connection>>

\* The statement answers, or fails and leaves through the same doneReading.
ReadDone(c) ==
    /\ pc[c] = "reading"
    /\ DoneReading(c)
    /\ got' = [got EXCEPT ![c] = visible] \/ UNCHANGED got
    /\ UNCHANGED <<seen, visible, committed, activeTransaction>>

-----------------------------------------------------------------------------
(* Writes and transactions enter the queue.                                *)

\* Mutants: PushToQueue forgets the readers, or the running write.
MutPushPastReaders(c, isTx) ==
    /\ pc[c] = "idle"
    /\ writeRequested' = TRUE
    /\ IF ~pendingTx
       THEN ExecQueueItem(c, pc, isTx) /\ UNCHANGED transactionsQueue
       ELSE /\ transactionsQueue' = Append(transactionsQueue, c)
            /\ pc' = Set(c, IF isTx THEN "queuedTx" ELSE "queuedWrite")
            /\ UNCHANGED <<pendingTx, connection>>
    /\ UNCHANGED <<activeReaders, dataVars, activeTransaction>>

MutPushPastWriter(c, isTx) ==
    /\ pc[c] = "idle"
    /\ writeRequested' = TRUE
    /\ IF activeReaders = 0
       THEN /\ pendingTx' = TRUE /\ pc' = Set(c, IF isTx THEN "starting" ELSE "writing")
            /\ connection' = (IF isTx /\ connection = "auto" THEN "begin" ELSE connection)
            /\ UNCHANGED transactionsQueue
       ELSE /\ transactionsQueue' = Append(transactionsQueue, c)
            /\ pc' = Set(c, IF isTx THEN "queuedTx" ELSE "queuedWrite")
            /\ UNCHANGED <<pendingTx, connection>>
    /\ UNCHANGED <<activeReaders, dataVars, activeTransaction>>

PushToQueue(c, isTx) ==
    /\ pc[c] = "idle"
    /\ writeRequested' = TRUE
    /\ IF ~pendingTx /\ activeReaders = 0
       THEN ExecQueueItem(c, pc, isTx) /\ UNCHANGED transactionsQueue
       ELSE /\ transactionsQueue' = Append(transactionsQueue, c)
            /\ pc' = Set(c, IF isTx THEN "queuedTx" ELSE "queuedWrite")
            /\ UNCHANGED <<pendingTx, connection>>
    /\ UNCHANGED <<activeReaders, dataVars, activeTransaction>>

\* doOperation: one statement, committed at once unless a transaction is open
\* on the connection; it may fail.
DoOperation(c) ==
    /\ pc[c] = "writing"
    /\ \/ /\ visible < Cap /\ visible' = visible + 1
          /\ committed' = IF connection = "auto" THEN visible + 1 ELSE committed
       \/ UNCHANGED <<visible, committed>>
    /\ ExecNextInQueue(Set(c, "idle"), activeReaders)
    /\ UNCHANGED <<seen, got, activeTransaction>>

\* doTransaction: after BEGIN the reply of startTx goes out and the handle is
\* kept for the operations that carry its id.
StartTx(c) ==
    /\ pc[c] = "starting" /\ connection = "begin"
    /\ connection' = "open" /\ activeTransaction' = c
    /\ pc' = Set(c, "body")
    /\ UNCHANGED <<queueVars, dataVars>>

StartTxFails(c) ==
    /\ pc[c] = "starting" /\ connection = "begin"
    /\ ExecNextInQueue(Set(c, "idle"), activeReaders)
    /\ UNCHANGED <<dataVars, activeTransaction>>

-----------------------------------------------------------------------------
(* The body of a transaction, run by the main process.                     *)

\* getTx: an operation with another id than the active one is refused.
HasTx(c) == activeTransaction = c

TxRead(c) ==
    /\ pc[c] = "body" /\ HasTx(c)
    /\ seen' = [seen EXCEPT ![c] = visible]
    /\ pc' = Set(c, "checked")
    /\ UNCHANGED <<queueVars, got, visible, committed, activeTransaction, connection>>

\* The update withdraws only from the balance that was checked.
TxWrite(c) ==
    /\ pc[c] = "checked" /\ HasTx(c)
    /\ seen[c] >= 1 /\ visible = seen[c]
    /\ visible' = visible - 1
    /\ pc' = Set(c, "succeeding")
    /\ UNCHANGED <<queueVars, seen, got, committed, activeTransaction, connection>>

\* The balance is too low or not the one checked ("unaffected"), a statement
\* fails, or code after the last one throws.
TxThrows(c) ==
    /\ pc[c] \in {"body", "checked", "succeeding"}
    /\ pc' = Set(c, "failing")
    /\ UNCHANGED <<queueVars, dataVars, activeTransaction, connection>>

\* handleEndTx: the reply goes out at once, while COMMIT or ROLLBACK still runs.
EndTx(c) ==
    /\ pc[c] \in {"succeeding", "failing"} /\ HasTx(c)
    /\ connection' = IF pc[c] = "succeeding" THEN "commit" ELSE "rollback"
    /\ activeTransaction' = NoClient
    /\ pc' = Set(c, "idle")
    /\ UNCHANGED <<queueVars, dataVars>>

Commit ==
    /\ connection = "commit"
    /\ committed' = visible
    /\ ExecNextInQueue(pc, activeReaders)
    /\ UNCHANGED <<seen, got, visible, activeTransaction>>

\* A failing COMMIT is rolled back too; its requester was told of success.
Rollback ==
    /\ connection \in {"commit", "rollback"}
    /\ visible' = committed
    /\ ExecNextInQueue(pc, activeReaders)
    /\ UNCHANGED <<seen, got, committed, activeTransaction>>

\* Both processes die together (storageInterface.ts throws on the child's
\* exit); a COMMIT under way may or may not have reached the disk.
Crash ==
    /\ committed' \in {committed} \union (IF connection = "commit" THEN {visible} ELSE {})
    /\ visible' = committed'
    /\ pc' = [c \in Clients |-> "idle"]
    /\ pendingTx' = FALSE /\ writeRequested' = FALSE
    /\ transactionsQueue' = <<>> /\ activeReaders' = 0
    /\ activeTransaction' = NoClient /\ connection' = "auto"
    /\ UNCHANGED <<seen, got>>

Request(c) == Read(c) \/ \E isTx \in BOOLEAN : PushToQueue(c, isTx)

Body(c) == TxRead(c) \/ TxWrite(c) \/ TxThrows(c) \/ EndTx(c)

Step(c) == ReadDone(c) \/ DoOperation(c) \/ StartTx(c) \/ StartTxFails(c)

Next ==
    \/ \E c \in Clients : Request(c) \/ Body(c) \/ Step(c)
    \/ Commit \/ Rollback \/ Crash

Spec == Init /\ [][Next]_vars

-----------------------------------------------------------------------------
(* Properties.                                                             *)

PcValues == {"idle", "waiting", "reading", "queuedWrite", "queuedTx", "writing",
             "starting", "body", "checked", "succeeding", "failing"}
InBody == {"body", "checked", "succeeding", "failing"}
Serving == {"writing", "starting"} \union InBody

TypeOK ==
    /\ pc \in [Clients -> PcValues]
    /\ seen \in [Clients -> 0..Cap] /\ got \in [Clients -> 0..Cap]
    /\ pendingTx \in BOOLEAN /\ writeRequested \in BOOLEAN
    /\ transactionsQueue \in Seq(Clients) /\ activeReaders \in Nat
    /\ activeTransaction \in Clients \union {NoClient}
    /\ connection \in {"auto", "begin", "open", "commit", "rollback"}
    /\ visible \in 0..Cap /\ committed \in 0..Cap

\* Exclusion: while a reader is active nothing writes and no transaction is
\* open; a write or a transaction runs alone; and the client that runs a body
\* holds the handle of the transaction open on the connection.
Exclusion ==
    /\ Readers # {} => connection = "auto" /\ In("writing") = {}
    /\ In("writing") # {} => connection = "auto"
    /\ \A c, d \in Clients : pc[c] \in Serving /\ pc[d] \in Serving => c = d
    /\ \A c \in Clients : pc[c] \in InBody => activeTransaction = c /\ connection = "open"

\* No dirty read: whoever reads outside a transaction sees committed data.
NoDirtyRead == Readers # {} => visible = committed

\* What a transaction has read is still true when it writes: no other write
\* comes between the balance check and the withdrawal, so that the update is
\* never refused as "unaffected".
CheckedStillTrue == \A c \in In("checked") : visible = seen[c]

\* Nobody waits on an idle queue: a waiting reader or a queued write has
\* something running whose end will serve it.
NoLostWaiter ==
    Waiting # {} \/ transactionsQueue # <<>> =>
        pendingTx \/ Readers # {}

\* The queue implements the atomic store: increments, checked withdrawals and
\* reads outside transactions take effect in one step, in one order.
Store == INSTANCE AtomicStore WITH value <- committed

StoreSpec == Store!Spec

\* The strengthening the proofs need.  The counter counts the readers; the
\* queue holds each waiting writer once; pendingTx says that a client is served
\* or a commit runs; the stage of the connection tells what is uncommitted.
Queued == In("queuedWrite") \union In("queuedTx")

CountInv ==
    /\ activeReaders = Cardinality(Readers)
    /\ pendingTx => Readers = {}

WaitersInv ==
    /\ \A k \in 1..Len(transactionsQueue) : transactionsQueue[k] \in Queued
    /\ \A j, k \in 1..Len(transactionsQueue) :
          transactionsQueue[j] = transactionsQueue[k] => j = k
    /\ ~writeRequested => ~pendingTx /\ transactionsQueue = <<>> /\ Waiting = {}
    /\ writeRequested => pendingTx \/ Readers # {}

ServingInv ==
    /\ \A c \in Clients : pc[c] \in Serving => pendingTx
    /\ \A c, d \in Clients : pc[c] \in Serving /\ pc[d] \in Serving => c = d
    /\ \A c \in In("writing") : connection = "auto"
    /\ \A c \in In("starting") : connection = "begin"
    /\ \A c \in Clients : pc[c] \in InBody => activeTransaction = c /\ connection = "open"
    /\ connection # "auto" => pendingTx
    /\ connection \in {"commit", "rollback"} => \A c \in Clients : pc[c] \notin Serving

DataInv ==
    /\ connection \in {"auto", "begin"} => visible = committed
    /\ visible \in {committed, committed - 1}
    /\ connection = "commit" => visible = committed - 1
    /\ \A c \in Clients :
          /\ pc[c] \in {"body", "checked"} => visible = committed
          /\ pc[c] = "checked" => seen[c] = visible
          /\ pc[c] = "succeeding" => visible = committed - 1

QueueInv == CountInv /\ WaitersInv /\ ServingInv /\ DataInv

(* Statements answer and bodies end; new requests and crashes need not come. *)
Fairness ==
    /\ \A c \in Clients : WF_vars(Step(c)) /\ WF_vars(Body(c))
    /\ WF_vars(Commit \/ Rollback)

FairSpec == Spec /\ Fairness

\* A queued write or transaction is served, however many readers come.
WritersServed ==
    \A c \in Clients :
        pc[c] \in {"queuedWrite", "queuedTx"} ~> pc[c] \notin {"queuedWrite", "queuedTx"}

\* A waiting reader is served unless writes keep queueing up for ever.
ReadersServed ==
    <>[](transactionsQueue = <<>>) =>
        \A c \in Clients : pc[c] = "waiting" ~> pc[c] # "waiting"
=============================================================================
