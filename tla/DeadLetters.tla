---------------------------- MODULE DeadLetters ----------------------------
(***************************************************************************)
(* The way of a poison item: MoveToDLQ of internal/queue/badger_queue.go   *)
(* copies an item of a stream's queue to the dead letter queue and then    *)
(* commits it, and the DLQManager of internal/queue/dlq.go purges or       *)
(* reprocesses the entries there.                                          *)
(*                                                                         *)
(* The stream's queue is what BadgerQueue implements, the FIFO queue of    *)
(* DurableQueue: items are numbered as they arrive, and the queue holds    *)
(* head..tail-1.  The dead letter queue is a second BadgerQueue, under     *)
(* reject_new, and is modelled down to its offsets and its transactions,   *)
(* because two goroutines share it: the consumer of the stream enqueues    *)
(* while an operator dequeues and commits.  With one goroutine on each     *)
(* side, the loads of depth() and of DequeueBatch see offsets only their   *)
(* own goroutine moves, or moves against them, so that a capacity check    *)
(* and the allocation after it, and the snapshot and the loads of a        *)
(* DequeueBatch, are single steps.                                         *)
(***************************************************************************)
EXTENDS Integers, FiniteSets

CONSTANTS MaxItems,    \* bound: items that arrive in the stream's queue
          DLQLimit,    \* Config.MaxEvents of the dead letter queue
          PurgeBatch,  \* the 100 of PurgeOlderThan
          MaxOps,      \* bound: calls of the DLQManager
          MaxFails,    \* bound: transactions that fail
          MaxCrashes   \* bound: crashes of the process

ASSUME LetterAssumption ==
  /\ MaxItems \in Nat
  /\ DLQLimit \in Nat \ {0}
  /\ PurgeBatch \in Nat \ {0}
  /\ MaxOps \in Nat /\ MaxFails \in Nat /\ MaxCrashes \in Nat

VARIABLES
  head, tail,    \* the stream's queue holds the items head..tail-1
  next,          \* the item its consumer handles next; commits are at head
  poison,        \* the items that can never be processed
  cpc,           \* where the consumer stands in MoveToDLQ
  dlq,           \* the entries of the dead letter queue: offset -> item
  dread, dwrite, \* its readOffset and writeOffset
  op, opc,       \* the DLQManager call under way, and where it stands
  cutoff,        \* PurgeOlderThan: items up to this one are old enough
  wanted,        \* Reprocess: the offset asked for
  batch,         \* what its DequeueBatch returned: offset -> item
  upto,          \* the offset it commits, or last committed
  cread,         \* the readOffset its Commit loaded
  processed,     \* history: items that were processed
  taken,         \* history: items that a call meant to remove, and removed
  ops, fails, crashes  \* history: what the bounds count

streamVars == <<head, tail, next, poison, processed>>
dlqVars == <<dlq, dread, dwrite>>
opVars == <<op, opc, cutoff, wanted, batch, upto, cread, taken, ops>>
vars == <<streamVars, cpc, dlqVars, opVars, fails, crashes>>

Items == 1..MaxItems
NoEntries == [o \in {} |-> 0]

-----------------------------------------------------------------------------
\* The n smallest members of a set of offsets.
FirstN(S, n) == {o \in S : Cardinality({x \in S : x < o}) < n}

\* What DequeueBatch(n) returns.
Entries(n) ==
  LET found == {o \in DOMAIN dlq : dread <= o /\ o < dwrite}
  IN  [o \in FirstN(found, n) |-> dlq[o]]

\* The dead letter queue without the entries of a set of offsets.
Without(S) == [o \in DOMAIN dlq \ S |-> dlq[o]]

\* Variant: recovery counts the entries instead of reading the last key.
RecoverCount ==
  IF DOMAIN dlq = {}
  THEN dread' = 0 /\ dwrite' = 0
  ELSE \E first \in DOMAIN dlq :
         /\ \A o \in DOMAIN dlq : first <= o
         /\ dread' = first /\ dwrite' = Cardinality(DOMAIN dlq)

\* recover: the smallest key, and one more than the largest.
Recover ==
  IF DOMAIN dlq = {}
  THEN dread' = 0 /\ dwrite' = 0
  ELSE \E first, last \in DOMAIN dlq :
         /\ \A o \in DOMAIN dlq : first <= o /\ o <= last
         /\ dread' = first /\ dwrite' = last + 1

\* A transaction may fail.
TxnFails == fails < MaxFails /\ fails' = fails + 1

Init ==
  /\ head = 1 /\ tail = 1 /\ next = 1
  /\ poison \in SUBSET Items
  /\ processed = {}
  /\ cpc = "idle"
  /\ dlq = NoEntries /\ dread = 0 /\ dwrite = 0
  /\ op = "none" /\ opc = "idle" /\ cutoff = 0 /\ wanted = 0
  /\ batch = NoEntries /\ upto = 0 /\ cread = 0
  /\ taken = {}
  /\ ops = 0 /\ fails = 0 /\ crashes = 0

-----------------------------------------------------------------------------
(* The stream's queue and its consumer *)

\* An item is accepted by the stream's queue.
Arrive ==
  /\ tail <= MaxItems
  /\ tail' = tail + 1
  /\ UNCHANGED <<head, next, poison, processed, cpc, dlqVars, opVars,
                 fails, crashes>>

\* The consumer processes an item of its batch.
ProcessItem ==
  /\ cpc = "idle" /\ next < tail /\ next \notin poison
  /\ processed' = processed \cup {next}
  /\ next' = next + 1
  /\ UNCHANGED <<head, tail, poison, cpc, dlqVars, opVars, fails, crashes>>

\* It commits what it has handled; when that fails the next DequeueBatch
\* returns those items again.
CommitBatch ==
  /\ cpc = "idle" /\ head < next
  /\ \/ head' = next /\ UNCHANGED <<next, fails>>
     \/ TxnFails /\ next' = head /\ UNCHANGED head
  /\ UNCHANGED <<tail, poison, processed, cpc, dlqVars, opVars, crashes>>

\* MoveToDLQ of a poison item: Enqueue checks the capacity and allocates
\* an offset.  A full dead letter queue makes MoveToDLQ return an error and
\* the item stays where it is.
MoveBegin ==
  /\ cpc = "idle" /\ next < tail /\ next \in poison
  /\ dwrite - dread < DLQLimit
  /\ dwrite' = dwrite + 1
  /\ cpc' = "write"
  /\ UNCHANGED <<streamVars, dlq, dread, opVars, fails, crashes>>

\* Variant: the original is committed before the entry is written.
MoveWriteLate ==
  /\ cpc = "write"
  /\ head' = next + 1 /\ next' = next + 1
  /\ cpc' = "idle"
  /\ \/ dlq' = [o \in DOMAIN dlq \cup {dwrite - 1} |->
                  IF o = dwrite - 1 THEN next ELSE dlq[o]] /\ UNCHANGED <<dwrite, fails>>
     \/ TxnFails /\ dwrite' = dwrite - 1 /\ UNCHANGED dlq
  /\ UNCHANGED <<tail, poison, processed, dread, opVars, crashes>>

\* The entry is written; or the write fails, the offset is given back and
\* MoveToDLQ returns the error.
MoveWrite ==
  /\ cpc = "write"
  /\ \/ /\ dlq' = [o \in DOMAIN dlq \cup {dwrite - 1} |->
                     IF o = dwrite - 1 THEN next ELSE dlq[o]]
        /\ cpc' = "commit"
        /\ UNCHANGED <<dwrite, fails>>
     \/ /\ TxnFails
        /\ dwrite' = dwrite - 1
        /\ cpc' = "idle"
        /\ UNCHANGED dlq
  /\ UNCHANGED <<streamVars, dread, opVars, crashes>>

\* The original is committed, and with it everything before it.  A failure
\* is only logged: the consumer goes on with its batch, or starts a new one
\* and meets the item again.
MoveCommit ==
  /\ cpc = "commit"
  /\ cpc' = "idle"
  /\ \/ head' = next + 1 /\ next' = next + 1 /\ UNCHANGED fails
     \/ TxnFails /\ next' \in {next + 1, head} /\ UNCHANGED head
  /\ UNCHANGED <<tail, poison, processed, dlqVars, opVars, crashes>>

MoveToDLQ == MoveBegin \/ MoveWrite \/ MoveCommit
Consume == ProcessItem \/ CommitBatch \/ MoveToDLQ

-----------------------------------------------------------------------------
(* The DLQManager *)

\* A call of Purge, PurgeOlderThan or Reprocess.
OpBegin ==
  /\ opc = "idle" /\ ops < MaxOps
  /\ ops' = ops + 1
  /\ op' \in {"purge", "older", "reprocess"}
  /\ cutoff' \in IF op' = "older" THEN 0..MaxItems ELSE {0}
  /\ wanted' \in IF op' = "reprocess" THEN {dread, dread + 1} ELSE {0}
  /\ opc' = "dequeue"
  /\ UNCHANGED <<streamVars, cpc, dlqVars, batch, upto, cread, taken,
                 fails, crashes>>

\* The call returns.
Return ==
  /\ opc' = "idle"
  /\ op' = "none" /\ cutoff' = 0 /\ wanted' = 0
  /\ batch' = NoEntries /\ upto' = 0 /\ cread' = 0

\* Purge dequeues all that the queue may hold, and commits the last entry.
PurgeDequeue ==
  /\ opc = "dequeue" /\ op = "purge"
  /\ \/ DOMAIN Entries(DLQLimit) = {} /\ Return
     \/ /\ batch' = Entries(DLQLimit)
        /\ \E last \in DOMAIN batch' :
             /\ \A o \in DOMAIN batch' : o <= last
             /\ upto' = last
        /\ opc' = "commit"
        /\ UNCHANGED <<op, cutoff, wanted, cread>>
  /\ UNCHANGED <<streamVars, cpc, dlqVars, taken, ops, fails, crashes>>

\* Reprocess dequeues one entry, which must be the one asked for.
ReprocessDequeue ==
  /\ opc = "dequeue" /\ op = "reprocess"
  /\ \/ wanted \notin DOMAIN Entries(1) /\ Return
     \/ /\ wanted \in DOMAIN Entries(1)
        /\ batch' = Entries(1)
        /\ upto' = wanted
        /\ opc' = "commit"
        /\ UNCHANGED <<op, cutoff, wanted, cread>>
  /\ UNCHANGED <<streamVars, cpc, dlqVars, taken, ops, fails, crashes>>

\* PurgeOlderThan dequeues a batch, and returns when it is empty.
OlderDequeue ==
  /\ opc = "dequeue" /\ op = "older"
  /\ \/ DOMAIN Entries(PurgeBatch) = {} /\ Return
     \/ /\ DOMAIN Entries(PurgeBatch) # {}
        /\ batch' = Entries(PurgeBatch)
        /\ opc' = "scan"
        /\ upto' = 0
        /\ UNCHANGED <<op, cutoff, wanted, cread>>
  /\ UNCHANGED <<streamVars, cpc, dlqVars, taken, ops, fails, crashes>>

\* The old entries of the batch that the loop has not committed yet.
OldLeft == {o \in DOMAIN batch : batch[o] <= cutoff /\ dread <= o}

\* It commits the old entries of the batch one by one.
OlderCommit ==
  /\ opc = "scan"
  /\ \E o \in OldLeft :
       /\ \A x \in OldLeft : o <= x
       /\ upto' = o
  /\ opc' = "commit"
  /\ UNCHANGED <<streamVars, cpc, dlqVars, op, cutoff, wanted, batch, cread,
                 taken, ops, fails, crashes>>

\* Variant: only an empty batch ends the loop.
OlderEndEmpty ==
  /\ opc = "scan" /\ OldLeft = {}
  /\ opc' = "dequeue"
  /\ batch' = NoEntries /\ upto' = 0
  /\ UNCHANGED <<streamVars, cpc, dlqVars, op, cutoff, wanted, cread, taken,
                 ops, fails, crashes>>

\* After the batch it goes round again if the batch was full, whether or
\* not anything in it was old.
OlderEnd ==
  /\ opc = "scan" /\ OldLeft = {}
  /\ \/ Cardinality(DOMAIN batch) < PurgeBatch /\ Return
     \/ /\ Cardinality(DOMAIN batch) >= PurgeBatch
        /\ opc' = "dequeue"
        /\ batch' = NoEntries /\ upto' = 0
        /\ UNCHANGED <<op, cutoff, wanted, cread>>
  /\ UNCHANGED <<streamVars, cpc, dlqVars, taken, ops, fails, crashes>>

\* Commit loads readOffset; ErrInvalidOffset if it has passed the offset.
CommitLoad ==
  /\ opc = "commit"
  /\ \/ upto < dread /\ Return
     \/ /\ dread <= upto
        /\ cread' = dread
        /\ opc' = "delete"
        /\ UNCHANGED <<op, cutoff, wanted, batch, upto>>
  /\ UNCHANGED <<streamVars, cpc, dlqVars, taken, ops, fails, crashes>>

\* The entries a call means to remove when it commits upto: what it has
\* dequeued, and of that, for PurgeOlderThan, only what is old.
Meant == {batch[o] : o \in {x \in DOMAIN batch :
                              x <= upto /\ (op = "older" => batch[x] <= cutoff)}}

\* One transaction deletes every key from the loaded offset on; a failure
\* ends the call with an error.
CommitDelete ==
  /\ opc = "delete"
  /\ \/ /\ dlq' = Without(cread..upto)
        /\ taken' = taken \cup Meant
        /\ opc' = "store"
        /\ UNCHANGED <<op, cutoff, wanted, batch, upto, cread, fails>>
     \/ TxnFails /\ Return /\ UNCHANGED <<dlq, taken>>
  /\ UNCHANGED <<streamVars, cpc, dread, dwrite, ops, crashes>>

\* Variant: the read offset is left where it was.
CommitStoreNot ==
  /\ opc = "store"
  /\ IF op = "older"
     THEN opc' = "scan" /\ UNCHANGED <<op, cutoff, wanted, batch, upto, cread>>
     ELSE Return
  /\ UNCHANGED <<streamVars, cpc, dlq, dread, dwrite, taken, ops, fails, crashes>>

\* The read offset is stored; PurgeOlderThan goes on with its batch, and
\* the other calls return.
CommitStore ==
  /\ opc = "store"
  /\ dread' = upto + 1
  /\ \/ /\ op = "older"
        /\ opc' = "scan"
        /\ UNCHANGED <<op, cutoff, wanted, batch, upto, cread>>
     \/ op # "older" /\ Return
  /\ UNCHANGED <<streamVars, cpc, dlq, dwrite, taken, ops, fails, crashes>>

Commit == CommitLoad \/ CommitDelete \/ CommitStore
Dequeue == PurgeDequeue \/ ReprocessDequeue \/ OlderDequeue
Operate == Dequeue \/ OlderCommit \/ OlderEnd \/ Commit

-----------------------------------------------------------------------------
\* The process dies and starts again: both queues are opened from disk.
Crash ==
  /\ crashes < MaxCrashes
  /\ crashes' = crashes + 1
  /\ next' = head
  /\ cpc' = "idle"
  /\ Recover
  /\ Return
  /\ UNCHANGED <<head, tail, poison, processed, dlq, taken, ops, fails>>

Next == Arrive \/ Consume \/ OpBegin \/ Operate \/ Crash

Spec == Init /\ [][Next]_vars

\* The consumer's goroutine and a call that has begun are scheduled.
\* Nothing obliges an item to arrive, an operator to call, a transaction
\* to fail, or the process to crash.
FairSpec == Spec /\ WF_vars(Consume) /\ WF_vars(Operate)

-----------------------------------------------------------------------------
(* Properties *)

IsEntries(f) == DOMAIN f \subseteq Nat /\ f \in [DOMAIN f -> Items]

\* The type of every variable, and the order of the two pairs of offsets.
TypeOK ==
  /\ head \in 1..next /\ next \in 1..tail /\ tail \in 1..(MaxItems + 1)
  /\ poison \subseteq Items /\ processed \subseteq Items /\ taken \subseteq Items
  /\ cpc \in {"idle", "write", "commit"}
  /\ IsEntries(dlq) /\ IsEntries(batch)
  /\ dwrite \in Nat /\ dread \in 0..dwrite
  /\ op \in {"none", "purge", "older", "reprocess"}
  /\ opc \in {"idle", "dequeue", "scan", "commit", "delete", "store"}
  /\ cutoff \in 0..MaxItems
  /\ wanted \in Nat /\ upto \in Nat /\ cread \in Nat
  /\ ops \in Nat /\ fails \in Nat /\ crashes \in Nat

\* The items that DequeueBatch of the dead letter queue can still reach.
Letters == {dlq[o] : o \in {x \in DOMAIN dlq : dread <= x /\ x < dwrite}}

\* An item that arrived is still in the stream's queue, or was processed, or
\* is within reach in the dead letter queue, or was removed there by a call
\* that had seen it and was asked to remove it.  In particular, a commit by
\* PurgeOlderThan, which deletes every entry before the old one, never takes
\* the last copy of a younger one, although crashes and failed commits put
\* several copies of an item there, out of order.
NothingVanishes ==
  \A i \in 1..(head - 1) : i \in processed \cup Letters \cup taken

\* What stops PurgeOlderThan from ending: a full batch of young entries in
\* front, which it dequeues over and over.
YoungInFront ==
  /\ op = "older"
  /\ Cardinality(DOMAIN Entries(PurgeBatch)) = PurgeBatch
  /\ \A o \in DOMAIN Entries(PurgeBatch) : dlq[o] > cutoff

\* Every call returns, unless from some time on a full batch of young
\* entries is in front of PurgeOlderThan.
CallsEnd == []<>(opc = "idle") \/ <>[]YoungInFront

\* Unless the dead letter queue stays really full, with DLQLimit entries on
\* disk, a poison item does not keep the stream from moving: every item
\* leaves the stream's queue.
PoisonDoesNotBlock ==
  \/ <>[](Cardinality(DOMAIN dlq) >= DLQLimit)
  \/ \A i \in Items : [](i \in head..(tail - 1) => <>(i < head))

=============================================================================
