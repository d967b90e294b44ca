---------------------------- MODULE BadgerQueue ----------------------------
(***************************************************************************)
(* The durable queue of internal/queue/badger_queue.go: an unlocked queue  *)
(* whose entries live in a BadgerDB under consecutive offsets, and whose   *)
(* two atomic counters, readOffset and writeOffset, live in memory and are *)
(* rebuilt from the keys on disk when the process starts.                  *)
(*                                                                         *)
(* No call takes the mutex of the struct, so a call is several steps: one  *)
(* per atomic access or BadgerDB transaction.  Adjacent loads that no      *)
(* blocking operation separates are taken together, except the two loads   *)
(* of each depth(), whose staleness the capacity check depends on.         *)
(*                                                                         *)
(* Several producers call Enqueue; one consumer dequeues a batch,          *)
(* processes a prefix of it and commits the last offset it processed.  The *)
(* process may crash between any two steps, be closed, and be restarted;   *)
(* a transaction that returned survives (BadgerDB's log is memory-mapped). *)
(***************************************************************************)
EXTENDS Integers, FiniteSets

CONSTANTS Producers,   \* goroutines that call Enqueue
          Policies,    \* values of Config.DropPolicy to consider
          MaxEvents,   \* Config.MaxEvents
          MaxBytes,    \* Config.MaxBytes
          BatchSize,   \* argument of DequeueBatch
          MaxItems,    \* bound: calls of Enqueue
          MaxFails,    \* bound: transactions that fail with the DB open
          MaxBoots     \* bound: restarts of the process

RejectNew == "reject_new"
DropOldest == "drop_oldest"

\* NewBadgerQueue replaces limits that are not positive by its defaults.
ASSUME QueueAssumption ==
  /\ Producers # {}
  /\ Policies \subseteq {RejectNew, DropOldest}
  /\ MaxEvents \in Nat \ {0}
  /\ MaxBytes \in Nat \ {0}
  /\ BatchSize \in Nat \ {0}
  /\ MaxItems \in Nat
  /\ MaxFails \in Nat
  /\ MaxBoots \in Nat

VARIABLES
  policy,        \* Config.DropPolicy: fixed when the queue is created
  disk,          \* the entries in BadgerDB: offset -> item
  writeOffset,   \* next offset to write
  readOffset,    \* next offset to read
  closed,        \* Close has been called
  dbOpen,        \* BadgerDB accepts transactions
  droppedCount,  \* items dropped by dropOldest since the start
  pc,            \* where each producer's Enqueue stands
  item,          \* the item of the call
  seen,          \* the offset the call last loaded, or was given
  cpc,           \* where the consumer stands
  snap,          \* the snapshot its View transaction reads
  batch,         \* the entries DequeueBatch returned: offset -> item
  upto,          \* the offset it commits
  cread,         \* the readOffset its Commit loaded
  nextItem,      \* history: the next item to enqueue
  accepted,      \* history: items whose write succeeded
  processed,     \* history: items the consumer has processed
  fails, boots   \* history: what the bounds count

callVars == <<pc, item, seen>>
consumerVars == <<cpc, snap, batch, upto, cread>>
offsets == <<writeOffset, readOffset>>
lifeVars == <<policy, closed, dbOpen, boots>>
vars == <<disk, offsets, lifeVars, droppedCount, callVars, consumerVars,
          nextItem, accepted, processed, fails>>

Items == 1..MaxItems
NoEntries == [o \in {} |-> 0]

AvgItemSize == 500

-----------------------------------------------------------------------------
\* depth: the entries between two loaded offsets.
Depth(w, r) == IF w <= r THEN 0 ELSE w - r

\* Variant for the mutation runs: the limit is one too high.
TooManyLate(d) == d > MaxEvents

\* The two tests of checkCapacity: by count, and by the estimate of
\* approximateBytesUsed.
TooMany(d) == d >= MaxEvents
TooBig(d) == d * AvgItemSize >= MaxBytes

\* The disk without the entries of a set of offsets.
Without(S) == [o \in DOMAIN disk \ S |-> disk[o]]

\* Variant: the iteration runs from the newest entry down.
LastN(S, n) == {o \in S : Cardinality({x \in S : x > o}) < n}

\* The n smallest members of a set of offsets.
FirstN(S, n) == {o \in S : Cardinality({x \in S : x < o}) < n}

\* What the iteration of DequeueBatch returns: the first entries of the
\* snapshot at offsets r..w-1; an offset without a key is skipped.
Scan(entries, r, w) ==
  LET found == {o \in DOMAIN entries : r <= o /\ o < w}
  IN  [o \in FirstN(found, BatchSize) |-> entries[o]]

-----------------------------------------------------------------------------
Init ==
  /\ policy \in Policies
  /\ disk = NoEntries
  /\ writeOffset = 0 /\ readOffset = 0
  /\ closed = FALSE /\ dbOpen = TRUE
  /\ droppedCount = 0
  /\ pc = [p \in Producers |-> "idle"]
  /\ item = [p \in Producers |-> 0]
  /\ seen = [p \in Producers |-> 0]
  /\ cpc = "idle" /\ snap = NoEntries /\ batch = NoEntries
  /\ upto = 0 /\ cread = 0
  /\ nextItem = 1
  /\ accepted = {} /\ processed = {}
  /\ fails = 0 /\ boots = 0

Goto(p, l) == pc' = [pc EXCEPT ![p] = l]

\* A transaction fails when the DB is closed, and may fail for a full disk,
\* an I/O error or a transaction that is too big.
TxnFails ==
  \/ ~dbOpen /\ UNCHANGED fails
  \/ dbOpen /\ fails < MaxFails /\ fails' = fails + 1

-----------------------------------------------------------------------------
(* Enqueue *)

\* The call passes the test of closed and makes depth()'s first load.  A
\* call that finds the queue closed returns ErrQueueClosed and changes
\* nothing.
EnqueueBegin(p) ==
  /\ pc[p] = "idle" /\ nextItem <= MaxItems
  /\ ~closed
  /\ item' = [item EXCEPT ![p] = nextItem]
  /\ nextItem' = nextItem + 1
  /\ seen' = [seen EXCEPT ![p] = writeOffset]
  /\ Goto(p, "capacity")
  /\ UNCHANGED <<disk, offsets, lifeVars, droppedCount, consumerVars,
                 accepted, processed, fails>>

\* A full queue rejects the item or makes room for it.
WhenFull == IF policy = RejectNew THEN "idle" ELSE "drop"

\* depth()'s second load, and the count; then approximateBytesUsed calls
\* depth() again.
CheckCount(p) ==
  /\ pc[p] = "capacity"
  /\ \/ /\ TooMany(Depth(seen[p], readOffset))
        /\ Goto(p, WhenFull)
        /\ UNCHANGED seen
     \/ /\ ~TooMany(Depth(seen[p], readOffset))
        /\ Goto(p, "bytes")
        /\ seen' = [seen EXCEPT ![p] = writeOffset]
  /\ UNCHANGED <<disk, offsets, lifeVars, droppedCount, item,
                 consumerVars, nextItem, accepted, processed, fails>>

CheckBytes(p) ==
  /\ pc[p] = "bytes"
  /\ Goto(p, IF TooBig(Depth(seen[p], readOffset)) THEN WhenFull ELSE "allocate")
  /\ UNCHANGED <<disk, offsets, lifeVars, droppedCount, item, seen,
                 consumerVars, nextItem, accepted, processed, fails>>

CheckCapacity(p) == CheckCount(p) \/ CheckBytes(p)

\* dropOldest loads the offset of the entry it will drop.
DropLoad(p) ==
  /\ pc[p] = "drop"
  /\ seen' = [seen EXCEPT ![p] = readOffset]
  /\ Goto(p, "delete")
  /\ UNCHANGED <<disk, offsets, lifeVars, droppedCount, item,
                 consumerVars, nextItem, accepted, processed, fails>>

\* It returns on an empty queue, and otherwise deletes the key; a failed
\* deletion makes Enqueue return the error.
DropDelete(p) ==
  /\ pc[p] = "delete"
  /\ \/ /\ seen[p] >= writeOffset
        /\ Goto(p, "allocate")
        /\ UNCHANGED <<disk, fails>>
     \/ /\ seen[p] < writeOffset /\ dbOpen
        /\ disk' = Without({seen[p]})
        /\ Goto(p, "advance")
        /\ UNCHANGED fails
     \/ /\ seen[p] < writeOffset
        /\ TxnFails
        /\ Goto(p, "idle")
        /\ UNCHANGED disk
  /\ UNCHANGED <<offsets, lifeVars, droppedCount, item, seen,
                 consumerVars, nextItem, accepted, processed>>

\* It steps over whatever readOffset now designates, and counts a drop.
DropAdvance(p) ==
  /\ pc[p] = "advance"
  /\ readOffset' = readOffset + 1
  /\ droppedCount' = droppedCount + 1
  /\ Goto(p, "allocate")
  /\ UNCHANGED <<disk, writeOffset, lifeVars, item, seen,
                 consumerVars, nextItem, accepted, processed, fails>>

\* offset := writeOffset.Add(1) - 1
Allocate(p) ==
  /\ pc[p] = "allocate"
  /\ seen' = [seen EXCEPT ![p] = writeOffset]
  /\ writeOffset' = writeOffset + 1
  /\ Goto(p, "write")
  /\ UNCHANGED <<disk, readOffset, lifeVars, droppedCount, item,
                 consumerVars, nextItem, accepted, processed, fails>>

\* The write commits, and Enqueue returns nil.
Write(p) ==
  /\ pc[p] = "write" /\ dbOpen
  /\ disk' = [o \in DOMAIN disk \cup {seen[p]} |->
                IF o = seen[p] THEN item[p] ELSE disk[o]]
  /\ accepted' = accepted \cup {item[p]}
  /\ Goto(p, "idle")
  /\ UNCHANGED <<offsets, lifeVars, droppedCount, item, seen,
                 consumerVars, nextItem, processed, fails>>

\* Variant: two error paths both undo the allocation.
WriteFailTwice(p) ==
  /\ pc[p] = "write"
  /\ TxnFails
  /\ writeOffset' = writeOffset - 2
  /\ Goto(p, "idle")
  /\ UNCHANGED <<disk, readOffset, lifeVars, droppedCount, item, seen,
                 consumerVars, nextItem, accepted, processed>>

\* The write fails: the counter is decremented, whoever else has allocated.
WriteFail(p) ==
  /\ pc[p] = "write"
  /\ TxnFails
  /\ writeOffset' = writeOffset - 1
  /\ Goto(p, "idle")
  /\ UNCHANGED <<disk, readOffset, lifeVars, droppedCount, item, seen,
                 consumerVars, nextItem, accepted, processed>>

-----------------------------------------------------------------------------
(* The consumer: DequeueBatch, its own processing, Commit *)

\* The View transaction fixes its snapshot before it loads the offsets.
DequeueBegin ==
  /\ cpc = "idle" /\ dbOpen
  /\ snap' = disk
  /\ cpc' = "scan"
  /\ UNCHANGED <<disk, offsets, lifeVars, droppedCount, callVars, batch,
                 upto, cread, nextItem, accepted, processed, fails>>

DequeueScan ==
  /\ cpc = "scan"
  /\ batch' = Scan(snap, readOffset, writeOffset)
  /\ snap' = NoEntries
  /\ cpc' = IF DOMAIN batch' = {} THEN "idle" ELSE "process"
  /\ UNCHANGED <<disk, offsets, lifeVars, droppedCount, callVars,
                 upto, cread, nextItem, accepted, processed, fails>>

\* The consumer processes the batch up to some entry, in order, and calls
\* Commit with the offset of that entry.
Process ==
  /\ cpc = "process"
  /\ \E o \in DOMAIN batch :
       /\ processed' = processed
            \cup {batch[x] : x \in {y \in DOMAIN batch : y <= o}}
       /\ upto' = o
  /\ batch' = NoEntries
  /\ cpc' = "commit"
  /\ UNCHANGED <<disk, offsets, lifeVars, droppedCount, callVars, snap,
                 cread, nextItem, accepted, fails>>

\* Commit loads readOffset; ErrInvalidOffset if it has passed the offset.
CommitLoad ==
  /\ cpc = "commit"
  /\ cread' = readOffset
  /\ cpc' = IF upto < readOffset THEN "idle" ELSE "delete"
  /\ UNCHANGED <<disk, offsets, lifeVars, droppedCount, callVars, snap,
                 batch, upto, nextItem, accepted, processed, fails>>

\* Variant: the offset is taken for an exclusive bound, one entry too far.
CommitDeleteBeyond ==
  /\ cpc = "delete" /\ dbOpen
  /\ disk' = Without(cread..(upto + 1))
  /\ cpc' = "store"
  /\ UNCHANGED <<offsets, lifeVars, droppedCount, callVars, snap, batch,
                 upto, cread, nextItem, accepted, processed, fails>>

\* One transaction deletes every key from the loaded offset on.
CommitDelete ==
  /\ cpc = "delete"
  /\ \/ /\ dbOpen
        /\ disk' = Without(cread..upto)
        /\ cpc' = "store"
        /\ UNCHANGED fails
     \/ /\ TxnFails
        /\ cpc' = "idle"
        /\ UNCHANGED disk
  /\ UNCHANGED <<offsets, lifeVars, droppedCount, callVars, snap, batch,
                 upto, cread, nextItem, accepted, processed>>

\* Variant: the read offset is advanced past the entry after it.
CommitStoreBeyond ==
  /\ cpc = "store"
  /\ readOffset' = upto + 2
  /\ cpc' = "idle"
  /\ UNCHANGED <<disk, writeOffset, lifeVars, droppedCount, callVars, snap,
                 batch, upto, cread, nextItem, accepted, processed, fails>>

\* The read offset is stored, whatever it has become meanwhile.
CommitStore ==
  /\ cpc = "store"
  /\ readOffset' = upto + 1
  /\ cpc' = "idle"
  /\ UNCHANGED <<disk, writeOffset, lifeVars, droppedCount, callVars, snap,
                 batch, upto, cread, nextItem, accepted, processed, fails>>

-----------------------------------------------------------------------------
(* Close, crash, restart *)

Close ==
  /\ ~closed /\ boots < MaxBoots
  /\ closed' = TRUE
  /\ UNCHANGED <<policy, disk, offsets, dbOpen, boots, droppedCount, callVars,
                 consumerVars, nextItem, accepted, processed, fails>>

CloseDB ==
  /\ closed /\ dbOpen
  /\ dbOpen' = FALSE
  /\ UNCHANGED <<policy, disk, offsets, closed, boots, droppedCount, callVars,
                 consumerVars, nextItem, accepted, processed, fails>>

FirstKey(r) == r \in DOMAIN disk /\ \A o \in DOMAIN disk : r <= o

\* Variants: the write offset is the largest key itself; it is the number
\* of entries; it is the read offset plus the number of entries.
RecoverShort ==
  IF DOMAIN disk = {}
  THEN readOffset' = 0 /\ writeOffset' = 0
  ELSE \E first, last \in DOMAIN disk :
         /\ FirstKey(first) /\ \A o \in DOMAIN disk : o <= last
         /\ readOffset' = first /\ writeOffset' = last
RecoverCount ==
  IF DOMAIN disk = {}
  THEN readOffset' = 0 /\ writeOffset' = 0
  ELSE \E first \in DOMAIN disk :
         /\ FirstKey(first)
         /\ readOffset' = first /\ writeOffset' = Cardinality(DOMAIN disk)
RecoverDense ==
  IF DOMAIN disk = {}
  THEN readOffset' = 0 /\ writeOffset' = 0
  ELSE \E first \in DOMAIN disk :
         /\ FirstKey(first)
         /\ readOffset' = first
         /\ writeOffset' = first + Cardinality(DOMAIN disk)

\* recover: the offsets are the smallest key and one more than the largest,
\* or 0 when no key is left.
Recover ==
  IF DOMAIN disk = {}
  THEN readOffset' = 0 /\ writeOffset' = 0
  ELSE \E first, last \in DOMAIN disk :
         /\ FirstKey(first) /\ \A o \in DOMAIN disk : o <= last
         /\ readOffset' = first /\ writeOffset' = last + 1

\* The process dies and NewBadgerQueue runs on what is on disk.
Boot ==
  /\ boots < MaxBoots
  /\ boots' = boots + 1
  /\ Recover
  /\ closed' = FALSE /\ dbOpen' = TRUE
  /\ droppedCount' = 0
  /\ pc' = [p \in Producers |-> "idle"]
  /\ item' = [p \in Producers |-> 0]
  /\ seen' = [p \in Producers |-> 0]
  /\ cpc' = "idle" /\ snap' = NoEntries /\ batch' = NoEntries
  /\ upto' = 0 /\ cread' = 0
  /\ UNCHANGED <<policy, disk, nextItem, accepted, processed, fails>>

Crash == dbOpen /\ Boot
Restart == ~dbOpen /\ Boot

-----------------------------------------------------------------------------
Enqueue(p) ==
  \/ EnqueueBegin(p) \/ CheckCapacity(p)
  \/ DropLoad(p) \/ DropDelete(p) \/ DropAdvance(p)
  \/ Allocate(p) \/ Write(p) \/ WriteFail(p)

Consume ==
  \/ DequeueBegin \/ DequeueScan \/ Process
  \/ CommitLoad \/ CommitDelete \/ CommitStore

Next ==
  \/ \E p \in Producers : Enqueue(p)
  \/ Consume
  \/ Close \/ CloseDB \/ Crash \/ Restart

Spec == Init /\ [][Next]_vars

\* The consumer's goroutine is scheduled, a closing queue gets closed, and
\* a process whose queue is closed is started again.  Nothing obliges a
\* producer to call Enqueue, nor the process to crash.
Fairness == WF_vars(Consume) /\ WF_vars(CloseDB) /\ WF_vars(Restart)
FairSpec == Spec /\ Fairness

-----------------------------------------------------------------------------
(* Properties *)

\* A partial function from offsets to items.
IsEntries(f) == DOMAIN f \subseteq Nat /\ f \in [DOMAIN f -> Items]

\* The type of every variable; that writeOffset and the offset a call holds
\* are naturals says that no decrement outruns the increments.
TypeOK ==
  /\ policy \in {RejectNew, DropOldest}
  /\ IsEntries(disk) /\ IsEntries(snap) /\ IsEntries(batch)
  /\ writeOffset \in Nat /\ readOffset \in Nat
  /\ closed \in BOOLEAN /\ dbOpen \in BOOLEAN
  /\ droppedCount \in Nat
  /\ pc \in [Producers -> {"idle", "capacity", "bytes", "drop", "delete",
                           "advance", "allocate", "write"}]
  /\ item \in [Producers -> 0..MaxItems]
  /\ seen \in [Producers -> Nat]
  /\ cpc \in {"idle", "scan", "process", "commit", "delete", "store"}
  /\ upto \in Nat /\ cread \in Nat
  /\ nextItem \in 1..(MaxItems + 1)
  /\ accepted \subseteq Items /\ processed \subseteq Items
  /\ fails \in Nat /\ boots \in Nat

OnDisk == {disk[o] : o \in DOMAIN disk}

\* The items DequeueBatch can still reach.
Live == {disk[o] : o \in {x \in DOMAIN disk :
                            readOffset <= x /\ x < writeOffset}}

\* Under reject_new with one producer, an item whose Enqueue succeeded is
\* processed or within the reach of DequeueBatch, through failed writes and
\* commits, Close, crashes, and restarts that number the offsets from 0.
NoLoss == accepted \subseteq processed \cup Live

\* Items are first processed in the order they were accepted in.
ProcessedInOrder ==
  \A i \in processed : \A j \in accepted : j < i => j \in processed

\* Two calls never hold or occupy the same slot: the offset a call is about
\* to write has no entry yet.
NoOverwrite ==
  \A p \in Producers : pc[p] = "write" => seen[p] \notin DOMAIN disk

\* Under reject_new: the capacity check is not atomic with the allocation, so the queue may
\* outgrow MaxEvents, by at most one entry per other producer.  (A restart
\* also counts the offsets between entries that had been left behind.)
DepthBound ==
  boots = 0 /\ policy = RejectNew =>
    Depth(writeOffset, readOffset) <= MaxEvents + Cardinality(Producers) - 1

\* queue.go promises "zero data loss", and that DroppedCount is "Total items
\* dropped when queue was full": the items that are neither processed nor
\* reachable are no more than droppedCount reports, but for a drop in
\* progress.  Under reject_new the count is 0, and no item is ever lost.
LossIsCounted ==
  boots = 0 =>
    Cardinality(accepted \ (processed \cup Live))
      <= droppedCount
         + Cardinality({p \in Producers : pc[p] = "advance"})

\* A restart puts every entry on disk within reach again, the ones that
\* earlier steps had left outside the offsets included.
RestartRecoversAll ==
  [][boots' # boots => Live' = OnDisk']_vars

\* Every accepted item is eventually processed.
EventuallyProcessed ==
  \A i \in Items : i \in accepted ~> i \in processed

\* One producer, reject_new: the entries on disk, oldest first, are the
\* FIFO queue of DurableQueue.  Between the two steps of Commit the head is
\* already past the offset being stored.
FirstOffset == IF cpc = "store" THEN upto + 1 ELSE readOffset
Full(n) == TooMany(n) \/ TooBig(n)
Capacity == CHOOSE n \in 1..MaxEvents : Full(n) /\ ~Full(n - 1)
Durable == INSTANCE DurableQueue WITH
  queue <- [i \in 1..Cardinality(DOMAIN disk) |-> disk[FirstOffset + i - 1]],
  done  <- processed
ImplementsDurableQueue == Durable!Spec

=============================================================================
