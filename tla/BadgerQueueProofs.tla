------------------------- MODULE BadgerQueueProofs -------------------------
(***************************************************************************)
(* Proofs about BadgerQueue, for any limits, batch size and number of      *)
(* items, failures and restarts.  With one producer and the policy         *)
(* reject_new: its invariants, and that it implements DurableQueue.  With  *)
(* any number of producers and either policy: recovery, and how far the    *)
(* queue outgrows its limit.                                               *)
(***************************************************************************)
EXTENDS BadgerQueue, Sequences, FiniteSetTheorems, TLAPS

SingleProducer == \E p : Producers = {p}
OnlyRejects == Policies = {RejectNew}

\* The offset after the last entry: a slot may be allocated and not written.
End == IF \E p \in Producers : pc[p] = "write"
       THEN writeOffset - 1 ELSE writeOffset

\* The entries occupy the offsets from FirstOffset to End without a gap.
Dense ==
  /\ FirstOffset <= End
  /\ DOMAIN disk = FirstOffset..(End - 1)
  /\ \A p \in Producers : pc[p] = "write" => seen[p] = writeOffset - 1

\* What the consumer has read is on disk, from the read offset on without
\* a gap.
ReadsPrefix(entries) ==
  \A o \in DOMAIN entries :
    /\ o \in DOMAIN disk /\ entries[o] = disk[o]
    /\ readOffset..o \subseteq DOMAIN entries

Consumer ==
  /\ cpc = "scan" => ReadsPrefix(snap)
  /\ cpc = "process" => ReadsPrefix(batch)
  /\ cpc \in {"commit", "delete"} =>
       /\ upto \in DOMAIN disk
       /\ \A o \in readOffset..upto : disk[o] \in processed
  /\ cpc = "delete" => cread = readOffset
  /\ cpc = "store" => readOffset <= upto

\* No item is dropped.
NoDrop ==
  /\ policy = RejectNew
  /\ \A p \in Producers : pc[p] \notin {"drop", "delete", "advance"}

Kept == accepted \subseteq processed \cup OnDisk

\* Offsets and items are in the same order, and a call's item is newer than
\* every accepted one.
Ordered ==
  /\ processed \subseteq accepted
  /\ \A o \in DOMAIN disk : disk[o] \in accepted
  /\ \A o, x \in DOMAIN disk : o < x => disk[o] < disk[x]
  /\ \A i \in accepted : i < nextItem
  /\ \A p \in Producers : pc[p] # "idle" =>
       /\ item[p] \in Items
       /\ item[p] < nextItem
       /\ \A i \in accepted : i < item[p]

\* The inductive invariant.
IInv ==
  /\ TypeOK /\ Dense /\ Consumer /\ NoDrop /\ Kept /\ Ordered
  /\ ProcessedInOrder

-----------------------------------------------------------------------------
(* Lemmas about the operators *)

\* Removing offsets keeps a partial function from offsets to items.
LEMMA WithoutType ==
  ASSUME NEW S, IsEntries(disk)
  PROVE  /\ IsEntries(Without(S))
         /\ DOMAIN Without(S) = DOMAIN disk \ S
         /\ \A o \in DOMAIN disk \ S : Without(S)[o] = disk[o]
BY DEF IsEntries, Without

\* What DequeueBatch returns is part of the snapshot it reads.
LEMMA ScanType ==
  ASSUME NEW entries, IsEntries(entries), NEW r, NEW w
  PROVE  /\ IsEntries(Scan(entries, r, w))
         /\ DOMAIN Scan(entries, r, w) \subseteq DOMAIN entries
         /\ \A o \in DOMAIN Scan(entries, r, w) :
              Scan(entries, r, w)[o] = entries[o] /\ r <= o /\ o < w
BY DEF IsEntries, Scan, FirstN

\* It takes no entry without those before it.
LEMMA ScanPrefix ==
  ASSUME NEW entries, IsEntries(entries), NEW r \in Nat, NEW w \in Nat,
         NEW o \in DOMAIN Scan(entries, r, w),
         NEW x \in DOMAIN entries, r <= x, x <= o
  PROVE  x \in DOMAIN Scan(entries, r, w)
<1> DEFINE found == {y \in DOMAIN entries : r <= y /\ y < w}
           Below(z) == {y \in found : y < z}
<1>1. found \subseteq Nat /\ o \in found
  BY DEF IsEntries, Scan, FirstN
<1>2. x \in found
  BY <1>1 DEF IsEntries
<1>3. IsFiniteSet(Below(o)) /\ Cardinality(Below(o)) \in Nat
  <2>1. IsFiniteSet(0..w)
    BY FS_Interval
  <2>2. Below(o) \in SUBSET (0..w)
    BY <1>1
  <2> QED
    BY <2>1, <2>2, FS_Subset, FS_CardinalityType
<1>4. Below(x) \in SUBSET Below(o)
  BY <1>1, <1>2
<1>5. IsFiniteSet(Below(x)) /\ Cardinality(Below(x)) <= Cardinality(Below(o))
  BY <1>3, <1>4, FS_Subset
<1>6. Cardinality(Below(x)) \in Nat
  BY <1>5, FS_CardinalityType
<1>7. Cardinality(Below(o)) < BatchSize
  BY DEF Scan, FirstN
<1>8. Cardinality(Below(x)) < BatchSize
  BY <1>3, <1>5, <1>6, <1>7, QueueAssumption
<1> QED
  BY <1>2, <1>8 DEF Scan, FirstN

-----------------------------------------------------------------------------
(* Types *)

LEMMA EmptyType == IsEntries(NoEntries) /\ DOMAIN NoEntries = {}
BY DEF IsEntries, NoEntries

LEMMA InitType ==
  ASSUME OnlyRejects, Init
  PROVE  TypeOK
<1>1. policy \in {RejectNew, DropOldest}
  BY DEF OnlyRejects, Init
<1>2. IsEntries(disk) /\ IsEntries(snap) /\ IsEntries(batch)
  BY EmptyType DEF Init
<1>3. /\ nextItem \in 1..(MaxItems + 1)
      /\ item \in [Producers -> 0..MaxItems]
  BY QueueAssumption DEF Init
<1> QED
  BY <1>1, <1>2, <1>3 DEF Init, TypeOK

\* Every step keeps the types; the decrement of a failed write is safe
\* because the call holds the offset below writeOffset.
LEMMA TypeStep ==
  ASSUME TypeOK, Dense, Ordered, [Next]_vars
  PROVE  TypeOK'
<1> USE DEF TypeOK, callVars, consumerVars, offsets, lifeVars, Goto
<1>1. ASSUME NEW p \in Producers, EnqueueBegin(p) PROVE TypeOK'
  BY <1>1, QueueAssumption DEF EnqueueBegin
<1>2. ASSUME NEW p \in Producers, CheckCapacity(p) PROVE TypeOK'
  BY <1>2 DEF CheckCapacity, CheckCount, CheckBytes, WhenFull, offsets
<1>3. ASSUME NEW p \in Producers, DropLoad(p) PROVE TypeOK'
  BY <1>3 DEF DropLoad
<1>4. ASSUME NEW p \in Producers, DropDelete(p) PROVE TypeOK'
  <2>1. fails' \in Nat
    BY <1>4 DEF DropDelete, TxnFails
  <2>2. IsEntries(disk')
    BY <1>4, WithoutType DEF DropDelete
  <2> QED
    BY <1>4, <2>1, <2>2 DEF DropDelete
<1>5. ASSUME NEW p \in Producers, DropAdvance(p) PROVE TypeOK'
  BY <1>5 DEF DropAdvance
<1>6. ASSUME NEW p \in Producers, Allocate(p) PROVE TypeOK'
  BY <1>6 DEF Allocate
<1>7. ASSUME NEW p \in Producers, Write(p) PROVE TypeOK'
  <2>1. item[p] \in Items
    BY <1>7 DEF Write, Ordered
  <2> QED
    BY <1>7, <2>1 DEF Write, IsEntries
<1>8. ASSUME NEW p \in Producers, WriteFail(p) PROVE TypeOK'
  <2>1. fails' \in Nat
    BY <1>8 DEF WriteFail, TxnFails
  <2>2. writeOffset' \in Nat
    BY <1>8 DEF WriteFail, Dense
  <2> QED
    BY <1>8, <2>1, <2>2 DEF WriteFail
<1>9. CASE DequeueBegin
  BY <1>9 DEF DequeueBegin
<1>10. CASE DequeueScan
  BY <1>10, ScanType, EmptyType DEF DequeueScan
<1>11. CASE Process
  BY <1>11, EmptyType DEF Process, IsEntries
<1>12. CASE CommitLoad
  BY <1>12 DEF CommitLoad
<1>13. CASE CommitDelete
  <2>1. fails' \in Nat
    BY <1>13 DEF CommitDelete, TxnFails
  <2>2. IsEntries(disk')
    <3>1. disk' = Without(cread..upto) \/ disk' = disk
      BY <1>13 DEF CommitDelete
    <3> QED
      BY <3>1, WithoutType
  <2> QED
    BY <1>13, <2>1, <2>2 DEF CommitDelete
<1>14. CASE CommitStore
  BY <1>14 DEF CommitStore
<1>15. CASE Close
  BY <1>15 DEF Close
<1>16. CASE CloseDB
  BY <1>16 DEF CloseDB
<1>17. CASE Crash \/ Restart
  <2>1. readOffset' \in Nat /\ writeOffset' \in Nat
    BY <1>17 DEF Crash, Restart, Boot, Recover, FirstKey, IsEntries
  <2>2. IsEntries(disk') /\ IsEntries(snap') /\ IsEntries(batch')
    BY <1>17, EmptyType DEF Crash, Restart, Boot
  <2>3. item' \in [Producers -> 0..MaxItems]
    BY <1>17, QueueAssumption DEF Crash, Restart, Boot
  <2>4. /\ pc' \in [Producers -> {"idle", "capacity", "bytes", "drop", "delete",
                                  "advance", "allocate", "write"}]
        /\ seen' \in [Producers -> Nat]
    BY <1>17 DEF Crash, Restart, Boot
  <2>5. closed' \in BOOLEAN /\ dbOpen' \in BOOLEAN
    BY <1>17 DEF Crash, Restart, Boot
  <2>6. /\ policy' = policy /\ nextItem' = nextItem /\ fails' = fails
        /\ accepted' = accepted /\ processed' = processed
        /\ droppedCount' = 0 /\ cpc' = "idle" /\ upto' = 0 /\ cread' = 0
        /\ boots' = boots + 1
    BY <1>17 DEF Crash, Restart, Boot
  <2> QED
    BY <2>1, <2>2, <2>3, <2>4, <2>5, <2>6
<1>18. CASE UNCHANGED vars
  BY <1>18 DEF vars
<1> QED
  BY <1>1, <1>2, <1>3, <1>4, <1>5, <1>6, <1>7, <1>8, <1>9, <1>10, <1>11,
     <1>12, <1>13, <1>14, <1>15, <1>16, <1>17, <1>18
  DEF Next, Enqueue, Consume

-----------------------------------------------------------------------------
(* The invariant, conjunct by conjunct *)

Others == Dense /\ Consumer /\ NoDrop /\ Kept /\ Ordered /\ ProcessedInOrder

LEMMA InitOthers ==
  ASSUME OnlyRejects, Init
  PROVE  Others
<1>1. Dense
  BY EmptyType DEF Init, Dense, FirstOffset, End
<1>2. Consumer
  BY DEF Init, Consumer
<1>3. NoDrop
  BY DEF OnlyRejects, Init, NoDrop
<1>4. Kept /\ ProcessedInOrder
  BY DEF Init, Kept, ProcessedInOrder
<1>5. Ordered
  BY EmptyType DEF Init, Ordered
<1> QED
  BY <1>1, <1>2, <1>3, <1>4, <1>5 DEF Others

\* The steps that touch neither the entries nor the offsets, nor the calls'
\* slots, nor what the consumer has read.
LEMMA EnqueueBeginStep ==
  ASSUME IInv, NEW q, Producers = {q}, EnqueueBegin(q)
  PROVE  Others'
<1> USE DEF EnqueueBegin, Goto, offsets, lifeVars, consumerVars, IInv, TypeOK
<1>1. Dense'
  BY DEF Dense, FirstOffset, End
<1>2. Consumer'
  BY DEF Consumer, ReadsPrefix
<1>3. NoDrop'
  BY DEF NoDrop
<1>4. Kept' /\ ProcessedInOrder'
  BY DEF Kept, ProcessedInOrder, OnDisk
<1>5. Ordered'
  BY DEF Ordered, Items
<1> QED
  BY <1>1, <1>2, <1>3, <1>4, <1>5 DEF Others

LEMMA CheckCapacityStep ==
  ASSUME IInv, NEW q, Producers = {q}, CheckCapacity(q)
  PROVE  Others'
<1> USE DEF CheckCapacity, CheckCount, CheckBytes, WhenFull, Goto, offsets, lifeVars, consumerVars, IInv, TypeOK
<1>1. Dense'
  BY DEF Dense, FirstOffset, End
<1>2. Consumer'
  BY DEF Consumer, ReadsPrefix
<1>3. NoDrop'
  BY DEF NoDrop
<1>4. Kept' /\ ProcessedInOrder'
  BY DEF Kept, ProcessedInOrder, OnDisk
<1>5. Ordered'
  BY DEF Ordered
<1> QED
  BY <1>1, <1>2, <1>3, <1>4, <1>5 DEF Others

\* The allocation moves writeOffset, not the end of the entries.
LEMMA AllocateStep ==
  ASSUME IInv, NEW q, Producers = {q}, Allocate(q)
  PROVE  Others'
<1> USE DEF Allocate, Goto, lifeVars, consumerVars, IInv, TypeOK
<1>1. Dense'
  BY DEF Dense, FirstOffset, End
<1>2. Consumer'
  BY DEF Consumer, ReadsPrefix
<1>3. NoDrop'
  BY DEF NoDrop
<1>4. Kept' /\ ProcessedInOrder'
  BY DEF Kept, ProcessedInOrder, OnDisk
<1>5. Ordered'
  BY DEF Ordered
<1> QED
  BY <1>1, <1>2, <1>3, <1>4, <1>5 DEF Others

\* The new entry is the last, and newer than all before.
LEMMA WriteStep ==
  ASSUME IInv, NEW q, Producers = {q}, Write(q)
  PROVE  Others'
<1> USE DEF IInv, TypeOK
<1> DEFINE o == seen[q]
<1>1. /\ o \notin DOMAIN disk /\ o = End /\ o \in Nat /\ End' = End + 1
      /\ FirstOffset' = FirstOffset
  BY DEF Write, Goto, Dense, FirstOffset, End, offsets, consumerVars
<1>2. /\ DOMAIN disk' = DOMAIN disk \cup {o}
      /\ disk'[o] = item[q]
      /\ \A x \in DOMAIN disk : disk'[x] = disk[x]
  BY <1>1 DEF Write
<1>3. /\ accepted' = accepted \cup {item[q]} /\ processed' = processed
      /\ item[q] \in Items /\ item[q] < nextItem
      /\ \A i \in accepted : i < item[q]
      /\ nextItem' = nextItem
  BY DEF Write, Ordered
<1>4. Dense'
  <2>1. FirstOffset <= End + 1 /\ DOMAIN disk' = FirstOffset..End
    BY <1>1, <1>2 DEF Dense, FirstOffset
  <2>2. \A p \in Producers : pc'[p] # "write"
    BY DEF Write, Goto
  <2> QED
    BY <1>1, <2>1, <2>2 DEF Dense, FirstOffset, End
<1>5. Consumer'
  <2>1. /\ cpc' = cpc /\ snap' = snap /\ batch' = batch /\ upto' = upto
        /\ cread' = cread /\ readOffset' = readOffset
    BY DEF Write, consumerVars, offsets
  <2>2. /\ cpc = "scan" => ReadsPrefix(snap)'
        /\ cpc = "process" => ReadsPrefix(batch)'
    BY <1>2, <2>1 DEF Consumer, ReadsPrefix
  <2>3. cpc \in {"commit", "delete"} =>
          /\ upto \in DOMAIN disk'
          /\ \A x \in readOffset..upto : disk'[x] \in processed
    BY <1>1, <1>2 DEF Consumer, Dense, FirstOffset
  <2> QED
    BY <1>3, <2>1, <2>2, <2>3 DEF Consumer
<1>6. NoDrop'
  BY DEF NoDrop, Write, Goto, lifeVars
<1>7. Kept'
  BY <1>2, <1>3 DEF Kept, OnDisk
<1>8. Ordered'
  <2>1. /\ processed' \subseteq accepted'
        /\ \A x \in DOMAIN disk' : disk'[x] \in accepted'
        /\ \A i \in accepted' : i < nextItem'
    BY <1>2, <1>3 DEF Ordered
  <2>2. \A x, y \in DOMAIN disk' : x < y => disk'[x] < disk'[y]
    BY <1>1, <1>2, <1>3 DEF Ordered, Dense
  <2>3. \A p \in Producers : pc'[p] = "idle"
    BY DEF Write, Goto
  <2> QED
    BY <2>1, <2>2, <2>3 DEF Ordered
<1>9. ProcessedInOrder'
  BY <1>3 DEF ProcessedInOrder, Ordered, Items
<1> QED
  BY <1>4, <1>5, <1>6, <1>7, <1>8, <1>9 DEF Others

LEMMA WriteFailStep ==
  ASSUME IInv, NEW q, Producers = {q}, WriteFail(q)
  PROVE  Others'
<1> USE DEF WriteFail, Goto, lifeVars, consumerVars, IInv, TypeOK
<1>1. Dense'
  BY DEF Dense, FirstOffset, End
<1>2. Consumer'
  BY DEF Consumer, ReadsPrefix
<1>3. NoDrop'
  BY DEF NoDrop
<1>4. Kept' /\ ProcessedInOrder'
  BY DEF Kept, ProcessedInOrder, OnDisk
<1>5. Ordered'
  BY DEF Ordered
<1> QED
  BY <1>1, <1>2, <1>3, <1>4, <1>5 DEF Others

LEMMA DequeueBeginStep ==
  ASSUME IInv, NEW q, Producers = {q}, DequeueBegin
  PROVE  Others'
<1> USE DEF DequeueBegin, callVars, offsets, lifeVars, IInv, TypeOK
<1>1. Dense'
  BY DEF Dense, FirstOffset, End
<1>2. Consumer'
  <2>1. readOffset = FirstOffset /\ DOMAIN disk = readOffset..(End - 1)
    BY DEF Dense, FirstOffset
  <2>2. \A o \in DOMAIN disk : readOffset..o \subseteq DOMAIN disk
    <3>1. End \in Int
      BY DEF End
    <3> QED
      BY <2>1, <3>1
  <2> QED
    BY <2>2 DEF Consumer, ReadsPrefix
<1>3. NoDrop' /\ Kept' /\ ProcessedInOrder' /\ Ordered'
  BY DEF NoDrop, Kept, ProcessedInOrder, OnDisk, Ordered
<1> QED
  BY <1>1, <1>2, <1>3 DEF Others

LEMMA DequeueScanStep ==
  ASSUME IInv, NEW q, Producers = {q}, DequeueScan
  PROVE  Others'
<1> USE DEF callVars, offsets, lifeVars, IInv, TypeOK
<1>1. Dense'
  BY DEF DequeueScan, Dense, FirstOffset, End
<1>2. ReadsPrefix(batch)'
  <2> DEFINE found == Scan(snap, readOffset, writeOffset)
  <2>1. batch' = found /\ disk' = disk /\ readOffset' = readOffset
    BY DEF DequeueScan
  <2>2. \A o \in DOMAIN found :
          o \in DOMAIN snap /\ readOffset <= o /\ found[o] = snap[o]
    BY ScanType
  <2>3. ReadsPrefix(snap)
    BY DEF DequeueScan, Consumer
  <2>4. \A o \in DOMAIN found : readOffset..o \subseteq DOMAIN found
    <3> SUFFICES ASSUME NEW o \in DOMAIN found, NEW x \in readOffset..o
                 PROVE  x \in DOMAIN found
      OBVIOUS
    <3>1. x \in DOMAIN snap /\ readOffset <= x /\ x <= o
      BY <2>2, <2>3 DEF ReadsPrefix
    <3> QED
      BY <3>1, ScanPrefix
  <2> QED
    BY <2>1, <2>2, <2>3, <2>4 DEF ReadsPrefix
<1>3. Consumer'
  BY <1>2 DEF DequeueScan, Consumer
<1>4. NoDrop' /\ Kept' /\ ProcessedInOrder' /\ Ordered'
  BY DEF DequeueScan, NoDrop, Kept, ProcessedInOrder, OnDisk, Ordered
<1> QED
  BY <1>1, <1>3, <1>4 DEF Others

\* An item accepted before a processed one was processed, or lies before it
\* in the batch.
LEMMA ProcessStep ==
  ASSUME IInv, NEW q, Producers = {q}, Process
  PROVE  Others'
<1> USE DEF callVars, offsets, lifeVars, IInv, TypeOK
<1>1. ReadsPrefix(batch)
  BY DEF Process, Consumer
<1>2. PICK o \in DOMAIN batch :
        /\ processed' = processed
             \cup {batch[x] : x \in {y \in DOMAIN batch : y <= o}}
        /\ upto' = o
  BY DEF Process
<1>3. o \in DOMAIN disk /\ readOffset..o \subseteq DOMAIN batch /\ o \in Nat
  BY <1>1 DEF ReadsPrefix, IsEntries
<1>4. \A x \in readOffset..o : disk[x] \in processed'
  BY <1>1, <1>2, <1>3 DEF ReadsPrefix
<1>5. disk' = disk /\ readOffset' = readOffset /\ cpc' = "commit"
  BY DEF Process
<1>6. Dense'
  BY DEF Process, Dense, FirstOffset, End
<1>7. Consumer'
  BY <1>2, <1>3, <1>4, <1>5 DEF Consumer
<1>8. NoDrop' /\ Kept'
  BY <1>2 DEF Process, NoDrop, Kept, OnDisk
<1>9. Ordered'
  <2>1. processed' \subseteq accepted
    BY <1>1, <1>2 DEF ReadsPrefix, Ordered
  <2> QED
    BY <2>1 DEF Process, Ordered
<1>10. ProcessedInOrder'
  <2> SUFFICES ASSUME NEW i \in processed', NEW j \in accepted', j < i
               PROVE  j \in processed'
    BY DEF ProcessedInOrder
  <2>1. j \in accepted /\ accepted' = accepted
    BY DEF Process
  <2>2. CASE i \in processed
    BY <2>1, <2>2, <1>2 DEF ProcessedInOrder
  <2>3. CASE i \notin processed /\ j \notin processed
    <3>1. PICK x \in DOMAIN disk : x <= o /\ disk[x] = i
      BY <1>1, <1>2, <2>3 DEF ReadsPrefix
    <3>2. PICK y \in DOMAIN disk : disk[y] = j
      BY <2>1, <2>3 DEF Kept, OnDisk
    <3>3. x \in Nat /\ y \in Nat /\ readOffset <= y
      BY DEF IsEntries, Dense, Process, FirstOffset
    <3>4. y <= x
      <4>1. ~(x < y)
        BY <3>1, <3>2 DEF Ordered, IsEntries, Items
      <4> QED
        BY <4>1, <3>3
    <3> QED
      BY <1>3, <1>4, <3>1, <3>2, <3>3, <3>4
  <2> QED
    BY <2>2, <2>3, <1>2
<1> QED
  BY <1>6, <1>7, <1>8, <1>9, <1>10 DEF Others

LEMMA CommitLoadStep ==
  ASSUME IInv, NEW q, Producers = {q}, CommitLoad
  PROVE  Others'
<1> USE DEF CommitLoad, callVars, offsets, lifeVars, IInv, TypeOK
<1>1. Dense'
  BY DEF Dense, FirstOffset, End
<1>2. Consumer'
  BY DEF Consumer, ReadsPrefix
<1>3. NoDrop' /\ Kept' /\ ProcessedInOrder' /\ Ordered'
  BY DEF NoDrop, Kept, ProcessedInOrder, OnDisk, Ordered
<1> QED
  BY <1>1, <1>2, <1>3 DEF Others

\* Commit deletes the first entries, all of them processed.
LEMMA CommitDeleteStep ==
  ASSUME IInv, NEW q, Producers = {q}, CommitDelete
  PROVE  Others'
<1> USE DEF callVars, offsets, lifeVars, IInv, TypeOK
<1>1. CASE disk' = disk /\ cpc' = "idle"
  <2>1. Dense'
    BY <1>1 DEF CommitDelete, Dense, FirstOffset, End
  <2>2. Consumer'
    BY <1>1 DEF Consumer
  <2>3. NoDrop' /\ Kept' /\ ProcessedInOrder' /\ Ordered'
    BY <1>1 DEF CommitDelete, NoDrop, Kept, ProcessedInOrder, OnDisk, Ordered
  <2> QED
    BY <2>1, <2>2, <2>3 DEF Others
<1>2. CASE disk' = Without(cread..upto) /\ cpc' = "store"
  <2>1. /\ cpc = "delete" /\ cread = readOffset
        /\ upto \in DOMAIN disk
        /\ \A o \in readOffset..upto : disk[o] \in processed
    BY DEF CommitDelete, Consumer
  <2>2. /\ DOMAIN disk' = DOMAIN disk \ (readOffset..upto)
        /\ \A o \in DOMAIN disk' : disk'[o] = disk[o]
    BY <1>2, <2>1, WithoutType
  <2>3. /\ FirstOffset = readOffset /\ FirstOffset' = upto + 1 /\ End' = End
        /\ readOffset <= upto /\ upto < End
    BY <1>2, <2>1 DEF CommitDelete, FirstOffset, End, Dense
  <2>4. Dense'
    <3>1. DOMAIN disk' = (upto + 1)..(End - 1)
      BY <2>2, <2>3 DEF Dense, End
    <3> QED
      BY <2>3, <3>1 DEF CommitDelete, Dense, End
  <2>5. Consumer'
    BY <1>2, <2>3 DEF CommitDelete, Consumer
  <2>6. Kept'
    <3>1. OnDisk \subseteq processed \cup OnDisk'
      BY <2>1, <2>2 DEF OnDisk, IsEntries
    <3> QED
      BY <3>1 DEF CommitDelete, Kept
  <2>7. NoDrop' /\ ProcessedInOrder'
    BY DEF CommitDelete, NoDrop, ProcessedInOrder
  <2>8. Ordered'
    BY <2>2 DEF CommitDelete, Ordered
  <2> QED
    BY <2>4, <2>5, <2>6, <2>7, <2>8 DEF Others
<1> QED
  BY <1>1, <1>2 DEF CommitDelete

LEMMA CommitStoreStep ==
  ASSUME IInv, NEW q, Producers = {q}, CommitStore
  PROVE  Others'
<1> USE DEF CommitStore, callVars, lifeVars, IInv, TypeOK
<1>1. Dense'
  BY DEF Dense, FirstOffset, End
<1>2. Consumer'
  BY DEF Consumer
<1>3. NoDrop' /\ Kept' /\ ProcessedInOrder' /\ Ordered'
  BY DEF NoDrop, Kept, ProcessedInOrder, OnDisk, Ordered
<1> QED
  BY <1>1, <1>2, <1>3 DEF Others

LEMMA CloseStep ==
  ASSUME IInv, NEW q, Producers = {q}, Close \/ CloseDB
  PROVE  Others'
<1> USE DEF Close, CloseDB, callVars, consumerVars, offsets, IInv, TypeOK
<1>1. Dense'
  BY DEF Dense, FirstOffset, End
<1>2. Consumer'
  BY DEF Consumer, ReadsPrefix
<1>3. NoDrop' /\ Kept' /\ ProcessedInOrder' /\ Ordered'
  BY DEF NoDrop, Kept, ProcessedInOrder, OnDisk, Ordered
<1> QED
  BY <1>1, <1>2, <1>3 DEF Others

\* recover finds the first and the last entry, and the calls are gone.
LEMMA BootStep ==
  ASSUME IInv, NEW q, Producers = {q}, Boot
  PROVE  Others'
<1> USE DEF IInv, TypeOK
<1>1. /\ disk' = disk /\ cpc' = "idle"
      /\ \A p \in Producers : pc'[p] = "idle"
      /\ accepted' = accepted /\ processed' = processed
      /\ policy' = policy /\ nextItem' = nextItem
  BY DEF Boot
<1>2. FirstOffset' = readOffset' /\ End' = writeOffset'
  BY <1>1 DEF FirstOffset, End
<1>3. readOffset' <= writeOffset' /\ DOMAIN disk = readOffset'..(writeOffset' - 1)
  <2>1. CASE DOMAIN disk = {}
    BY <2>1 DEF Boot, Recover
  <2>2. CASE DOMAIN disk # {}
    <3>1. PICK first, last \in DOMAIN disk :
            /\ \A o \in DOMAIN disk : first <= o /\ o <= last
            /\ readOffset' = first /\ writeOffset' = last + 1
      BY <2>2 DEF Boot, Recover, FirstKey
    <3>2. DOMAIN disk = FirstOffset..(End - 1) /\ FirstOffset \in Nat /\ End \in Int
      BY DEF Dense, FirstOffset, End
    <3>3. first = FirstOffset /\ last = End - 1
      BY <3>1, <3>2
    <3> QED
      BY <3>1, <3>2, <3>3
  <2> QED
    BY <2>1, <2>2
<1>4. Dense'
  BY <1>1, <1>2, <1>3 DEF Dense
<1>5. Consumer'
  BY <1>1 DEF Consumer
<1>6. NoDrop' /\ Kept' /\ ProcessedInOrder' /\ Ordered'
  BY <1>1 DEF NoDrop, Kept, ProcessedInOrder, OnDisk, Ordered
<1> QED
  BY <1>4, <1>5, <1>6 DEF Others

-----------------------------------------------------------------------------
(* Theorems *)

LEMMA IInvStep ==
  ASSUME SingleProducer, IInv, [Next]_vars
  PROVE  IInv'
<1> PICK q : Producers = {q}
  BY DEF SingleProducer
<1>1. TypeOK'
  BY TypeStep DEF IInv
<1>2. CASE EnqueueBegin(q)
  BY <1>1, <1>2, EnqueueBeginStep DEF Others, IInv
<1>3. CASE CheckCapacity(q)
  BY <1>1, <1>3, CheckCapacityStep DEF Others, IInv
<1>4. CASE DropLoad(q) \/ DropDelete(q) \/ DropAdvance(q)
  BY <1>4 DEF IInv, NoDrop, DropLoad, DropDelete, DropAdvance
<1>5. CASE Allocate(q)
  BY <1>1, <1>5, AllocateStep DEF Others, IInv
<1>6. CASE Write(q)
  BY <1>1, <1>6, WriteStep DEF Others, IInv
<1>7. CASE WriteFail(q)
  BY <1>1, <1>7, WriteFailStep DEF Others, IInv
<1>8. CASE DequeueBegin
  BY <1>1, <1>8, DequeueBeginStep DEF Others, IInv
<1>9. CASE DequeueScan
  BY <1>1, <1>9, DequeueScanStep DEF Others, IInv
<1>10. CASE Process
  BY <1>1, <1>10, ProcessStep DEF Others, IInv
<1>11. CASE CommitLoad
  BY <1>1, <1>11, CommitLoadStep DEF Others, IInv
<1>12. CASE CommitDelete
  BY <1>1, <1>12, CommitDeleteStep DEF Others, IInv
<1>13. CASE CommitStore
  BY <1>1, <1>13, CommitStoreStep DEF Others, IInv
<1>14. CASE Close \/ CloseDB
  BY <1>1, <1>14, CloseStep DEF Others, IInv
<1>15. CASE Crash \/ Restart
  BY <1>1, <1>15, BootStep DEF Others, IInv, Crash, Restart
<1>16. CASE UNCHANGED vars
  <2>1. Dense' /\ Consumer' /\ NoDrop'
    BY <1>16 DEF vars, callVars, consumerVars, offsets, lifeVars, IInv,
                 Dense, FirstOffset, End, Consumer, ReadsPrefix, NoDrop
  <2>2. Kept' /\ Ordered' /\ ProcessedInOrder'
    BY <1>16 DEF vars, callVars, consumerVars, offsets, lifeVars, IInv,
                 Kept, OnDisk, Ordered, ProcessedInOrder
  <2> QED
    BY <1>1, <2>1, <2>2 DEF IInv
<1> QED
  BY <1>2, <1>3, <1>4, <1>5, <1>6, <1>7, <1>8, <1>9, <1>10, <1>11, <1>12,
     <1>13, <1>14, <1>15, <1>16
  DEF Next, Enqueue, Consume

\* The entries on disk are all within reach, so what is kept is reachable.
LEMMA KeptIsLive ==
  ASSUME IInv
  PROVE  NoLoss
<1>1. \A o \in DOMAIN disk : readOffset <= o /\ o < writeOffset
  <2>1. readOffset <= FirstOffset
    BY DEF IInv, TypeOK, FirstOffset, Consumer
  <2>2. End <= writeOffset /\ FirstOffset \in Nat /\ End \in Int
    BY DEF IInv, TypeOK, FirstOffset, End
  <2> QED
    BY <2>1, <2>2 DEF IInv, TypeOK, Dense
<1>2. OnDisk \subseteq Live
  BY <1>1 DEF OnDisk, Live
<1> QED
  BY <1>2 DEF IInv, Kept, NoLoss

\* The entry of an allocated slot lies past the end of the entries.
LEMMA SlotIsFree ==
  ASSUME IInv
  PROVE  NoOverwrite
BY DEF IInv, TypeOK, NoOverwrite, Dense, End, FirstOffset

LEMMA Inductive ==
  ASSUME SingleProducer, OnlyRejects
  PROVE  Spec => []IInv
<1>1. Init => IInv
  BY InitType, InitOthers DEF Others, IInv
<1>2. IInv /\ [Next]_vars => IInv'
  BY IInvStep
<1> QED
  BY <1>1, <1>2, PTL DEF Spec

\* Every variable keeps its type: no decrement of writeOffset outruns the
\* increments, and every offset that is held is a natural number.
THEOREM TypeCorrect ==
  ASSUME SingleProducer, OnlyRejects
  PROVE  Spec => []TypeOK
<1>1. IInv => TypeOK
  BY DEF IInv
<1> QED
  BY <1>1, Inductive, PTL

\* No accepted item is lost, through any number of failures and restarts.
THEOREM NothingIsLost ==
  ASSUME SingleProducer, OnlyRejects
  PROVE  Spec => []NoLoss
<1>1. IInv => NoLoss
  BY KeptIsLive
<1> QED
  BY <1>1, Inductive, PTL

\* Items are first processed in the order they were accepted in.
THEOREM FirstInFirstOut ==
  ASSUME SingleProducer, OnlyRejects
  PROVE  Spec => []ProcessedInOrder
<1>1. IInv => ProcessedInOrder
  BY DEF IInv
<1> QED
  BY <1>1, Inductive, PTL

\* A call never writes over an entry.
THEOREM NothingIsOverwritten ==
  ASSUME SingleProducer, OnlyRejects
  PROVE  Spec => []NoOverwrite
<1>1. IInv => NoOverwrite
  BY SlotIsFree
<1> QED
  BY <1>1, Inductive, PTL

-----------------------------------------------------------------------------
(* The limit *)

\* What a call has found of the room stays true until it writes: only the
\* consumer moves readOffset, and only upwards, and no other call allocates.
Room ==
  /\ End - readOffset <= MaxEvents
  /\ \A p \in Producers :
       /\ pc[p] \in {"capacity", "bytes"} => seen[p] = writeOffset
       /\ pc[p] = "bytes" => ~TooMany(Depth(End, readOffset))
       /\ pc[p] \in {"allocate", "write"} => ~Full(Depth(End, readOffset))

\* The counters enclose the entries.
LEMMA Offsets ==
  ASSUME IInv
  PROVE  /\ FirstOffset \in Nat /\ End \in Nat
         /\ readOffset <= FirstOffset /\ FirstOffset <= End /\ End <= writeOffset
         /\ Depth(End, readOffset) = End - readOffset
<1>1. FirstOffset \in Nat /\ End \in Int /\ FirstOffset <= End
  BY DEF IInv, TypeOK, Dense, FirstOffset, End
<1>2. readOffset <= FirstOffset /\ End <= writeOffset
  BY DEF IInv, TypeOK, Consumer, FirstOffset, End
<1> QED
  BY <1>1, <1>2 DEF IInv, TypeOK, Depth

\* If there is room at some depth, there is at every smaller one.
LEMMA RoomBelow ==
  ASSUME NEW n \in Nat, NEW m \in Nat, m <= n
  PROVE  /\ ~TooMany(n) => ~TooMany(m)
         /\ ~Full(n) => ~Full(m)
BY QueueAssumption DEF Full, TooMany, TooBig, AvgItemSize

LEMMA RoomStep ==
  ASSUME SingleProducer, IInv, IInv', Room, [Next]_vars
  PROVE  Room'
<1> PICK q : Producers = {q}
  BY DEF SingleProducer
<1> USE DEF Goto
<1>1. /\ writeOffset \in Nat /\ readOffset \in Nat
      /\ End \in Nat /\ readOffset <= End
      /\ Depth(End, readOffset) = End - readOffset
  BY Offsets DEF IInv, TypeOK
<1>2. End = IF pc[q] = "write" THEN writeOffset - 1 ELSE writeOffset
  BY DEF End
<1>3. End' = IF pc'[q] = "write" THEN writeOffset' - 1 ELSE writeOffset'
  BY DEF End
<1>4. CASE EnqueueBegin(q)
  BY <1>1, <1>2, <1>3, <1>4 DEF EnqueueBegin, offsets, Room, IInv, TypeOK
<1>5. CASE CheckCapacity(q)
  <2>1. /\ writeOffset' = writeOffset /\ readOffset' = readOffset /\ End' = End
        /\ pc'[q] # "capacity" /\ pc'[q] # "write"
    BY <1>2, <1>3, <1>5 DEF CheckCapacity, CheckCount, CheckBytes, WhenFull, offsets,
                            IInv, TypeOK, NoDrop
  <2>2. pc'[q] = "bytes" => seen'[q] = writeOffset /\ ~TooMany(Depth(End, readOffset))
    BY <1>2, <1>5 DEF CheckCapacity, CheckCount, CheckBytes, WhenFull, Room, IInv,
                      TypeOK, NoDrop
  <2>3. pc'[q] = "allocate" => ~Full(Depth(End, readOffset))
    BY <1>2, <1>5 DEF CheckCapacity, CheckCount, CheckBytes, WhenFull, Room, IInv,
                      TypeOK, NoDrop, Full
  <2> QED
    BY <2>1, <2>2, <2>3 DEF Room
<1>6. CASE DropLoad(q) \/ DropDelete(q) \/ DropAdvance(q)
  BY <1>6 DEF IInv, NoDrop, DropLoad, DropDelete, DropAdvance
<1>7. CASE Allocate(q)
  <2>1. End' = End /\ readOffset' = readOffset /\ pc[q] = "allocate" /\ pc'[q] = "write"
    BY <1>1, <1>2, <1>3, <1>7 DEF Allocate, IInv, TypeOK
  <2> QED
    BY <2>1 DEF Room
<1>8. CASE Write(q)
  <2>1. /\ End' = End + 1 /\ readOffset' = readOffset
        /\ pc[q] = "write" /\ pc'[q] = "idle"
    BY <1>1, <1>2, <1>3, <1>8 DEF Write, offsets, IInv, TypeOK
  <2>2. End - readOffset < MaxEvents
    BY <1>1, <2>1, QueueAssumption DEF Room, Full, TooMany
  <2> QED
    BY <1>1, <2>1, <2>2, QueueAssumption DEF Room
<1>9. CASE WriteFail(q)
  <2>1. End' = End /\ readOffset' = readOffset /\ pc'[q] = "idle"
    BY <1>1, <1>2, <1>3, <1>9 DEF WriteFail, offsets, IInv, TypeOK
  <2> QED
    BY <2>1 DEF Room
<1>10. CASE DequeueBegin \/ DequeueScan \/ Process \/ CommitLoad \/ CommitDelete
            \/ Close \/ CloseDB \/ UNCHANGED vars
  <2>1. UNCHANGED <<pc, seen, writeOffset, readOffset>>
    BY <1>10 DEF DequeueBegin, DequeueScan, Process, CommitLoad, CommitDelete, Close,
                 CloseDB, vars, offsets, callVars
  <2> QED
    BY <1>2, <1>3, <2>1 DEF Room
<1>11. CASE CommitStore
  <2>1. PICK r \in Nat : r = readOffset'
    BY <1>11 DEF CommitStore, IInv, TypeOK
  <2>2. UNCHANGED <<pc, seen, writeOffset>> /\ End' = End /\ readOffset <= r
    BY <1>2, <1>3, <1>11, <2>1 DEF CommitStore, callVars, Consumer, IInv, TypeOK
  <2>3. /\ Depth(End, r) \in Nat /\ Depth(End, readOffset) \in Nat
        /\ Depth(End, r) <= Depth(End, readOffset)
    BY <1>1, <2>2 DEF Depth
  <2>4. /\ ~TooMany(Depth(End, readOffset)) => ~TooMany(Depth(End, r))
        /\ ~Full(Depth(End, readOffset)) => ~Full(Depth(End, r))
    BY <2>3, RoomBelow
  <2>5. End - r <= MaxEvents
    BY <1>1, <2>2, QueueAssumption DEF Room
  <2> QED
    BY <2>1, <2>2, <2>4, <2>5 DEF Room
<1>12. CASE Crash \/ Restart
  <2>1. pc'[q] = "idle" /\ End' = writeOffset' /\ DOMAIN disk' = DOMAIN disk
        /\ readOffset' = FirstOffset'
    BY <1>3, <1>12 DEF Crash, Restart, Boot, FirstOffset
  <2>2. PICK h \in Nat, e \in Nat : h = FirstOffset' /\ e = End' /\ h <= e
    BY <2>1 DEF IInv, TypeOK, Dense
  <2>3. PICK m \in Nat, n \in Nat : m = FirstOffset /\ n = End /\ m <= n /\ readOffset <= m
    BY Offsets
  <2>4. m..(n - 1) = h..(e - 1)
    BY <2>1, <2>2, <2>3 DEF IInv, Dense
  <2>5. e - h <= n - m
    <3>1. CASE h < e
      <4>1. h \in m..(n - 1) /\ e - 1 \in m..(n - 1)
        BY <2>4, <3>1
      <4> QED
        BY <4>1
    <3>2. CASE h = e
      BY <2>3, <3>2
    <3>3. h < e \/ h = e
      BY <2>2
    <3> QED
      BY <3>1, <3>2, <3>3
  <2>6. e - h <= MaxEvents
    <3>1. n - readOffset <= MaxEvents /\ readOffset \in Nat
      BY <1>1, <2>3 DEF Room
    <3> QED
      BY <2>3, <2>5, <3>1, QueueAssumption
  <2> QED
    BY <2>1, <2>2, <2>6 DEF Room
<1> QED
  BY <1>4, <1>5, <1>6, <1>7, <1>8, <1>9, <1>10, <1>11, <1>12
  DEF Next, Enqueue, Consume

LEMMA InductiveRoom ==
  ASSUME SingleProducer, OnlyRejects
  PROVE  Spec => [](IInv /\ Room)
<1>1. Init => Room
  BY QueueAssumption DEF Init, Room, End
<1>2. IInv /\ IInv' /\ Room /\ [Next]_vars => Room'
  BY RoomStep
<1> QED
  BY <1>1, <1>2, Inductive, PTL DEF Spec

\* With one producer the queue never outgrows MaxEvents, although the check
\* of checkCapacity is not atomic with the allocation, and across restarts
\* too.
THEOREM OneProducerFits ==
  ASSUME SingleProducer, OnlyRejects
  PROVE  Spec => [](Depth(writeOffset, readOffset) <= MaxEvents)
<1>1. IInv /\ Room => Depth(writeOffset, readOffset) <= MaxEvents
  <2> SUFFICES ASSUME IInv, Room PROVE Depth(writeOffset, readOffset) <= MaxEvents
    OBVIOUS
  <2> PICK q : Producers = {q}
    BY DEF SingleProducer
  <2>1. writeOffset - readOffset <= MaxEvents
    <3>1. CASE pc[q] = "write"
      <4>1. End = writeOffset - 1 /\ ~TooMany(End - readOffset)
        BY <3>1, Offsets DEF End, Room, Full
      <4> QED
        BY <4>1, QueueAssumption DEF TooMany, IInv, TypeOK
    <3>2. CASE pc[q] # "write"
      BY <3>2 DEF End, Room
    <3> QED
      BY <3>1, <3>2
  <2> QED
    BY <2>1, QueueAssumption DEF Depth, IInv, TypeOK
<1> QED
  BY <1>1, InductiveRoom, PTL

-----------------------------------------------------------------------------
(* The refinement of DurableQueue *)

\* The sequence the refinement takes for the queue: entries from offset a on.
Slice(d, a) == [i \in 1..Cardinality(DOMAIN d) |-> d[a + i - 1]]

\* The entries d occupy the offsets from a to b - 1; q lists them.
Spans(d, a, b) ==
  /\ IsEntries(d) /\ a \in Nat /\ b \in Nat /\ a <= b
  /\ DOMAIN d = a..(b - 1)
Lists(q, d, a, b) ==
  /\ q \in Seq(Items) /\ Len(q) = b - a
  /\ \A i \in 1..(b - a) : q[i] = d[a + i - 1]

LEMMA SliceLists ==
  ASSUME NEW d, NEW a, NEW b, Spans(d, a, b)
  PROVE  Lists(Slice(d, a), d, a, b)
<1> DEFINE q == Slice(d, a)
<1> USE DEF Spans
<1>1. Cardinality(a..(b - 1)) = b - a
  BY FS_Interval
<1>2. Slice(d, a) = [i \in 1..(b - a) |-> d[a + i - 1]]
  BY <1>1 DEF Slice
<1>3. \A i \in 1..(b - a) : d[a + i - 1] \in Items
  BY DEF IsEntries
<1>4. \A i \in 1..(b - a) : q[i] = d[a + i - 1]
  BY <1>2
<1>5. q \in [1..(b - a) -> Items]
  BY <1>2, <1>3
<1> HIDE DEF q
<1>6. PICK n \in Nat : n = b - a
  OBVIOUS
<1>7. q \in Seq(Items) /\ Len(q) = n
  BY <1>5, <1>6
<1> QED
  BY <1>4, <1>6, <1>7 DEF q, Lists

\* One more entry at the end.
LEMMA SliceAppend ==
  ASSUME NEW d, NEW a, NEW b, Spans(d, a, b), NEW e, NEW c, Spans(e, a, c),
         c = b + 1, \A o \in DOMAIN d : e[o] = d[o]
  PROVE  Slice(e, a) = Append(Slice(d, a), e[b])
<1>1. PICK q : q = Slice(d, a) /\ Lists(q, d, a, b)
  BY SliceLists
<1>2. PICK r : r = Slice(e, a) /\ Lists(r, e, a, c)
  BY SliceLists
<1>3. a \in Nat /\ b \in Nat /\ a <= b
  BY DEF Spans
<1>4. \A i \in 1..(b - a) : r[i] = q[i]
  <2> SUFFICES ASSUME NEW i \in 1..(b - a) PROVE r[i] = q[i]
    OBVIOUS
  <2>1. i \in 1..(c - a) /\ a + i - 1 \in a..(b - 1)
    BY <1>3
  <2>2. a + i - 1 \in DOMAIN d
    BY <2>1 DEF Spans
  <2>3. r[i] = e[a + i - 1] /\ q[i] = d[a + i - 1]
    BY <1>1, <1>2, <2>1 DEF Lists
  <2> QED
    BY <2>2, <2>3
<1>5. r[b - a + 1] = e[b]
  <2>1. b - a + 1 \in 1..(c - a) /\ a + (b - a + 1) - 1 = b
    BY <1>3
  <2>2. r[b - a + 1] = e[a + (b - a + 1) - 1]
    BY <1>2, <2>1 DEF Lists
  <2> QED
    BY <2>1, <2>2
<1>6. q \in Seq(Items) /\ r \in Seq(Items) /\ Len(q) = b - a /\ Len(r) = b - a + 1
  BY <1>1, <1>2, <1>3 DEF Lists
<1>7. r = Append(q, e[b])
  BY <1>3, <1>4, <1>5, <1>6
<1> QED
  BY <1>1, <1>2, <1>7

\* Entries less at the front.
LEMMA SliceSub ==
  ASSUME NEW d, NEW a, NEW b, Spans(d, a, b), NEW e, NEW c, Spans(e, c, b), a <= c,
         \A o \in DOMAIN e : e[o] = d[o]
  PROVE  Slice(e, c) = SubSeq(Slice(d, a), c - a + 1, Len(Slice(d, a)))
<1>1. PICK q : q = Slice(d, a) /\ Lists(q, d, a, b)
  BY SliceLists
<1>2. PICK r : r = Slice(e, c) /\ Lists(r, e, c, b)
  BY SliceLists
<1>3. a \in Nat /\ b \in Nat /\ c \in Nat /\ a <= c /\ c <= b
  BY DEF Spans
<1>4. \A i \in 1..(b - c) : r[i] = q[i + (c - a + 1) - 1]
  <2> SUFFICES ASSUME NEW i \in 1..(b - c) PROVE r[i] = q[i + (c - a + 1) - 1]
    OBVIOUS
  <2>1. /\ i + (c - a) \in 1..(b - a) /\ i + (c - a + 1) - 1 = i + (c - a)
        /\ a + (i + (c - a)) - 1 = c + i - 1 /\ c + i - 1 \in c..(b - 1)
    BY <1>3
  <2>2. r[i] = e[c + i - 1] /\ q[i + (c - a)] = d[c + i - 1]
    BY <1>1, <1>2, <2>1 DEF Lists
  <2>3. c + i - 1 \in DOMAIN e
    BY <2>1 DEF Spans
  <2> QED
    BY <2>1, <2>2, <2>3
<1>5. q \in Seq(Items) /\ r \in Seq(Items) /\ Len(q) = b - a /\ Len(r) = b - c
  BY <1>1, <1>2 DEF Lists
<1>6. SubSeq(q, c - a + 1, b - a) = [i \in 1..(b - c) |-> q[i + (c - a + 1) - 1]]
  BY <1>3, <1>5
<1>7. r = [i \in 1..(b - c) |-> r[i]]
  BY <1>3, <1>5
<1>8. r = SubSeq(q, c - a + 1, b - a)
  BY <1>4, <1>6, <1>7
<1> QED
  BY <1>1, <1>2, <1>5, <1>8

\* The first members of the sequence are the first entries.
LEMMA SlicePrefix ==
  ASSUME NEW d, NEW a, NEW b, Spans(d, a, b), NEW c \in a..b
  PROVE  {Slice(d, a)[i] : i \in 1..(c - a)} = {d[o] : o \in a..(c - 1)}
<1>1. PICK q : q = Slice(d, a) /\ Lists(q, d, a, b)
  BY SliceLists
<1>2. a \in Nat /\ b \in Nat /\ c \in Nat /\ a <= c /\ c <= b
  BY DEF Spans
<1>3. ASSUME NEW i \in 1..(c - a)
      PROVE  q[i] = d[a + i - 1] /\ a + i - 1 \in a..(c - 1)
  <2>1. i \in 1..(b - a) /\ a + i - 1 \in a..(c - 1)
    BY <1>2
  <2> QED
    BY <1>1, <2>1 DEF Lists
<1>4. ASSUME NEW o \in a..(c - 1)
      PROVE  o - a + 1 \in 1..(c - a) /\ q[o - a + 1] = d[o]
  <2>1. o - a + 1 \in 1..(c - a) /\ a + (o - a + 1) - 1 = o
    BY <1>2
  <2> QED
    BY <1>3, <2>1
<1>5. {q[i] : i \in 1..(c - a)} \subseteq {d[o] : o \in a..(c - 1)}
  BY <1>3
<1>6. {d[o] : o \in a..(c - 1)} \subseteq {q[i] : i \in 1..(c - a)}
  BY <1>4
<1> QED
  BY <1>1, <1>5, <1>6

\* Capacity is the smallest number of entries at which a check refuses.
LEMMA CapacityIsFull == Capacity \in 1..MaxEvents /\ Full(Capacity)
<1>1. \E n \in 1..MaxEvents : Full(n) /\ ~Full(n - 1)
  <2>1. CASE ~Full(MaxEvents - 1)
    BY <2>1, QueueAssumption DEF Full, TooMany
  <2>2. CASE Full(MaxEvents - 1)
    <3>1. (MaxEvents - 1) * 500 >= MaxBytes
      BY <2>2, QueueAssumption DEF Full, TooMany, TooBig, AvgItemSize
    <3>2. PICK n \in Nat : n * 500 >= MaxBytes /\ (n - 1) * 500 < MaxBytes
      <4>1. /\ (MaxBytes + 499) \div 500 \in Nat
            /\ ((MaxBytes + 499) \div 500) * 500 >= MaxBytes
            /\ ((MaxBytes + 499) \div 500 - 1) * 500 < MaxBytes
        BY QueueAssumption
      <4> QED
        BY <4>1
    <3>3. n \in 1..MaxEvents
      BY <3>1, <3>2, QueueAssumption
    <3>4. n - 1 < MaxEvents
      BY <3>3, QueueAssumption
    <3> QED
      BY <3>2, <3>3, <3>4, QueueAssumption DEF Full, TooMany, TooBig, AvgItemSize
  <2> QED
    BY <2>1, <2>2
<1> QED
  BY <1>1 DEF Capacity

LEMMA RoomIsBelowCapacity ==
  ASSUME NEW n \in Nat, ~Full(n)
  PROVE  n < Capacity
BY CapacityIsFull, RoomBelow, QueueAssumption

\* The entries span the offsets from the first to the end.
LEMMA EntriesSpan ==
  ASSUME IInv
  PROVE  Spans(disk, FirstOffset, End)
BY Offsets DEF Spans, IInv, TypeOK, Dense

Queue == Slice(disk, FirstOffset)

\* Enqueue's transaction puts the item behind all others, below capacity.
LEMMA WritePuts ==
  ASSUME IInv, IInv', Room, NEW q, Producers = {q}, Write(q)
  PROVE  \E i \in Items : Durable!Put(i)
<1> DEFINE x == item[q]
<1>1. /\ FirstOffset' = FirstOffset /\ End' = End + 1 /\ End = seen[q] /\ pc[q] = "write"
      /\ processed' = processed
  BY DEF Write, Goto, offsets, consumerVars, FirstOffset, End, IInv, TypeOK, Dense
<1>2. Spans(disk, FirstOffset, End) /\ Spans(disk', FirstOffset, End')
  <2>1. Spans(disk, FirstOffset, End)
    BY EntriesSpan
  <2>2. FirstOffset' \in Nat /\ End' \in Nat /\ FirstOffset' <= End'
    BY <1>1, <2>1 DEF Spans
  <2>3. IsEntries(disk)' /\ DOMAIN disk' = FirstOffset'..(End' - 1)
    BY <1>1 DEF IInv, TypeOK, Dense
  <2> QED
    BY <1>1, <2>1, <2>2, <2>3 DEF Spans, IsEntries
<1>3. (\A o \in DOMAIN disk : disk'[o] = disk[o]) /\ disk'[End] = x
  BY <1>1, <1>2 DEF Write, Spans
<1>4. Queue' = Append(Queue, x)
  BY <1>1, <1>2, <1>3, SliceAppend DEF Queue
<1>5. Len(Queue) < Capacity
  <2>1. End - FirstOffset \in Nat /\ ~Full(End - readOffset)
    BY <1>1, Offsets DEF Room
  <2>2. End - FirstOffset <= End - readOffset /\ End - readOffset \in Nat
    BY Offsets DEF IInv, TypeOK
  <2>3. End - FirstOffset < Capacity
    BY <2>1, <2>2, RoomBelow, RoomIsBelowCapacity
  <2> QED
    BY <1>2, <2>3, SliceLists DEF Queue, Lists
<1>6. x \notin {Queue[i] : i \in 1..Len(Queue)} \cup processed
  <2>1. x \in Items /\ x \notin accepted
    BY <1>1 DEF IInv, Ordered, Items
  <2>2. {Queue[i] : i \in 1..Len(Queue)} \subseteq accepted
    <3>1. {Queue[i] : i \in 1..(End - FirstOffset)} = {disk[o] : o \in FirstOffset..(End - 1)}
      <4>1. End \in FirstOffset..End
        BY <1>2 DEF Spans
      <4> QED
        BY <1>2, <4>1, SlicePrefix DEF Queue
    <3>2. Len(Queue) = End - FirstOffset
      BY <1>2, SliceLists DEF Queue, Lists
    <3> QED
      BY <1>2, <3>1, <3>2 DEF IInv, Ordered, Spans
  <2> QED
    BY <2>1, <2>2 DEF IInv, Ordered
<1>7. x \in Items
  BY <1>1 DEF IInv, Ordered
<1> QED
  BY <1>1, <1>4, <1>5, <1>6, <1>7 DEF Durable!Put, Durable!Prefix, Queue, Slice

\* What the consumer processes is a prefix of the queue.
LEMMA ProcessProcesses ==
  ASSUME IInv, IInv', Process
  PROVE  \E n \in 1..Len(Queue) : Durable!Process(n)
<1>1. PICK o \in DOMAIN batch :
        /\ processed' = processed
             \cup {batch[x] : x \in {y \in DOMAIN batch : y <= o}}
        /\ upto' = o
  BY DEF Process
<1>2. /\ readOffset = FirstOffset /\ FirstOffset' = FirstOffset /\ disk' = disk
      /\ ReadsPrefix(batch)
  BY DEF Process, FirstOffset, offsets, IInv, Consumer
<1>3. Spans(disk, FirstOffset, End) /\ Len(Queue) = End - FirstOffset
  BY EntriesSpan, SliceLists DEF Queue, Lists
<1>4. /\ o \in FirstOffset..(End - 1)
      /\ FirstOffset \in Nat /\ End \in Nat
      /\ \A x \in FirstOffset..o : x \in DOMAIN batch /\ batch[x] = disk[x]
      /\ \A x \in DOMAIN batch : x \in Nat /\ FirstOffset <= x
  BY <1>2, <1>3 DEF ReadsPrefix, Spans
<1> DEFINE n == o + 1 - FirstOffset
<1>5. n \in 1..Len(Queue)
  BY <1>3, <1>4
<1>6. {Queue[i] : i \in 1..n} = {disk[x] : x \in FirstOffset..o}
  <2>1. PICK c \in FirstOffset..End : c = o + 1 /\ c - 1 = o
    BY <1>4
  <2>2. {Queue[i] : i \in 1..(c - FirstOffset)} = {disk[x] : x \in FirstOffset..(c - 1)}
    BY <1>3, <2>1, SlicePrefix DEF Queue
  <2>3. c - FirstOffset = n
    BY <1>4, <2>1
  <2> QED
    BY <2>1, <2>2, <2>3
<1>7. {batch[x] : x \in {y \in DOMAIN batch : y <= o}} = {disk[x] : x \in FirstOffset..o}
  <2>1. \A y \in DOMAIN batch : y <= o => y \in FirstOffset..o
    BY <1>4
  <2>2. \A y \in FirstOffset..o : y <= o
    BY <1>4
  <2> QED
    BY <1>4, <2>1, <2>2
<1>8. Queue' = Queue
  BY <1>2 DEF Queue, Slice
<1> HIDE DEF n
<1>9. Durable!Process(n)
  BY <1>1, <1>6, <1>7, <1>8 DEF Durable!Process, Durable!Prefix, Queue, Slice
<1> QED
  BY <1>5, <1>9

\* Commit's transaction acknowledges a prefix that has been processed.
LEMMA CommitAcknowledges ==
  ASSUME IInv, IInv', CommitDelete, disk' = Without(cread..upto), cpc' = "store"
  PROVE  \E n \in 1..Len(Queue) : Durable!Acknowledge(n)
<1>1. /\ cpc = "delete" /\ cread = readOffset /\ upto \in DOMAIN disk
      /\ \A o \in readOffset..upto : disk[o] \in processed
      /\ readOffset = FirstOffset /\ FirstOffset' = upto + 1 /\ End' = End
      /\ processed' = processed
  BY DEF CommitDelete, IInv, Consumer, FirstOffset, End, callVars, offsets
<1>2. Spans(disk, FirstOffset, End) /\ Len(Queue) = End - FirstOffset
  BY EntriesSpan, SliceLists DEF Queue, Lists
<1>3. \A o \in DOMAIN disk' : disk'[o] = disk[o]
  BY WithoutType DEF IInv, TypeOK
<1>4. upto \in FirstOffset..(End - 1) /\ FirstOffset \in Nat /\ End \in Nat
  BY <1>1, <1>2 DEF Spans
<1>5. PICK c \in Nat : c = FirstOffset' /\ c = upto + 1
  BY <1>1, <1>4
<1>6. Spans(disk', FirstOffset', End)
  <2>1. IsEntries(disk)' /\ DOMAIN disk' = FirstOffset'..(End - 1)
    BY <1>1 DEF IInv, TypeOK, Dense
  <2>2. c <= End
    BY <1>4, <1>5
  <2> QED
    BY <1>4, <1>5, <2>1, <2>2 DEF Spans, IsEntries
<1>7. c \in FirstOffset..End /\ c - 1 = upto /\ c - FirstOffset \in 1..Len(Queue)
  BY <1>2, <1>4, <1>5
<1>8. PICK n \in 1..Len(Queue) : n = c - FirstOffset
  BY <1>7
<1>9. {Queue[i] : i \in 1..n} \subseteq processed
  <2>1. {Queue[i] : i \in 1..n} = {disk[o] : o \in FirstOffset..(c - 1)}
    BY <1>2, <1>7, <1>8, SlicePrefix DEF Queue
  <2> QED
    BY <1>1, <1>7, <2>1
<1>10. Queue' = SubSeq(Queue, n + 1, Len(Queue))
  <2>1. FirstOffset <= c /\ Spans(disk', c, End)
    BY <1>4, <1>5, <1>6
  <2>2. Slice(disk', c) = SubSeq(Queue, n + 1, Len(Queue))
    BY <1>2, <1>3, <1>8, <2>1, SliceSub DEF Queue
  <2> QED
    BY <1>5, <2>2 DEF Queue
<1>11. Durable!Acknowledge(n)
  BY <1>1, <1>9, <1>10 DEF Durable!Acknowledge, Durable!Prefix, Queue, Slice
<1> QED
  BY <1>11

\* Every other step leaves the queue as it is: only these move entries, and
\* between the two steps of Commit, and across a restart, FirstOffset stays at
\* the first entry.
LEMMA Simulation ==
  ASSUME SingleProducer, IInv, IInv', Room, [Next]_vars
  PROVE  [Durable!Next]_<<Queue, processed>>
<1> PICK q : Producers = {q}
  BY DEF SingleProducer
<1>1. CASE Write(q)
  BY <1>1, WritePuts DEF Durable!Next
<1>2. CASE Process
  <2>1. PICK n \in 1..Len(Queue) : Durable!Process(n)
    BY <1>2, ProcessProcesses
  <2> QED
    BY <2>1 DEF Durable!Next, Queue, Slice
<1>3. CASE CommitDelete /\ disk' = Without(cread..upto) /\ cpc' = "store"
  <2>1. PICK n \in 1..Len(Queue) : Durable!Acknowledge(n)
    BY <1>3, CommitAcknowledges
  <2> QED
    BY <2>1 DEF Durable!Next, Queue, Slice
<1>4. CASE \/ EnqueueBegin(q) \/ CheckCapacity(q) \/ Allocate(q) \/ WriteFail(q)
           \/ DequeueBegin \/ DequeueScan \/ CommitLoad \/ CommitStore
           \/ CommitDelete /\ disk' = disk /\ cpc' = "idle"
           \/ Close \/ CloseDB \/ UNCHANGED vars
  <2>1. disk' = disk /\ processed' = processed
    BY <1>4 DEF EnqueueBegin, CheckCapacity, CheckCount, CheckBytes, Allocate, WriteFail,
                DequeueBegin, DequeueScan, CommitLoad, CommitStore, CommitDelete,
                Close, CloseDB, vars
  <2>2. FirstOffset' = FirstOffset
    BY <1>4 DEF EnqueueBegin, CheckCapacity, CheckCount, CheckBytes, Allocate, WriteFail,
                DequeueBegin, DequeueScan, CommitLoad, CommitStore, CommitDelete,
                Close, CloseDB, vars, consumerVars, offsets, FirstOffset
  <2> QED
    BY <2>1, <2>2 DEF Queue, Slice
<1>5. CASE DropLoad(q) \/ DropDelete(q) \/ DropAdvance(q)
  BY <1>5 DEF IInv, NoDrop, DropLoad, DropDelete, DropAdvance
<1>6. CASE Crash \/ Restart
  <2>1. disk' = disk /\ processed' = processed
    BY <1>6 DEF Crash, Restart, Boot
  <2>2. CASE DOMAIN disk = {}
    <3>1. 1..Cardinality(DOMAIN disk) = {}
      BY <2>2, FS_EmptySet
    <3>2. Queue' = Queue
      BY <2>1, <3>1 DEF Queue, Slice
    <3> QED
      BY <2>1, <3>2
  <2>3. CASE DOMAIN disk # {}
    <3>1. PICK first \in DOMAIN disk :
            first = FirstOffset' /\ \A o \in DOMAIN disk : first <= o
      BY <1>6, <2>3 DEF Crash, Restart, Boot, Recover, FirstKey, FirstOffset
    <3>2. DOMAIN disk = FirstOffset..(End - 1) /\ FirstOffset \in Nat /\ End \in Nat
      BY EntriesSpan DEF Spans
    <3>3. first = FirstOffset
      <4>1. first \in Nat /\ FirstOffset <= first /\ FirstOffset \in DOMAIN disk
        BY <3>2
      <4>2. first <= FirstOffset
        BY <3>1, <4>1
      <4> QED
        BY <3>2, <4>1, <4>2
    <3> QED
      BY <2>1, <3>1, <3>3 DEF Queue, Slice
  <2> QED
    BY <2>2, <2>3
<1> QED
  BY <1>1, <1>2, <1>3, <1>4, <1>5, <1>6 DEF Next, Enqueue, Consume, CommitDelete

\* With one producer under reject_new, the queue is a bounded FIFO queue from
\* which an item leaves only once it has been processed, through any failed
\* writes and commits, crashes and restarts.
THEOREM Refinement ==
  ASSUME SingleProducer, OnlyRejects
  PROVE  Spec => ImplementsDurableQueue
<1>1. Init => Durable!Init
  <2> SUFFICES ASSUME Init PROVE Durable!Init
    OBVIOUS
  <2>1. disk = NoEntries /\ Cardinality(DOMAIN disk) = 0 /\ processed = {}
    BY EmptyType, FS_EmptySet DEF Init
  <2> QED
    BY <2>1 DEF Durable!Init
<1>2. IInv /\ Room /\ IInv' /\ [Next]_vars
        => [Durable!Next]_<<[i \in 1..Cardinality(DOMAIN disk) |-> disk[FirstOffset + i - 1]],
                            processed>>
  BY Simulation DEF Queue, Slice
<1> QED
  BY <1>1, <1>2, InductiveRoom, PTL DEF Spec, ImplementsDurableQueue, Durable!Spec

-----------------------------------------------------------------------------
(* Any number of producers and either policy *)

\* Offsets are numbers, though with several producers a failed write may
\* take writeOffset below an entry.
Addressed ==
  /\ DOMAIN disk \subseteq Int /\ DOMAIN snap \subseteq Int /\ DOMAIN batch \subseteq Int
  /\ writeOffset \in Int /\ readOffset \in Int /\ upto \in Int /\ boots \in Nat
  /\ DOMAIN pc = Producers /\ seen \in [Producers -> Int]

LEMMA AddressedStep == Addressed /\ [Next]_vars => Addressed'
<1> SUFFICES ASSUME Addressed, [Next]_vars PROVE Addressed'
  OBVIOUS
<1> USE DEF Addressed, Goto
<1>1. ASSUME NEW p \in Producers,
             EnqueueBegin(p) \/ CheckCapacity(p) \/ DropLoad(p) \/ DropAdvance(p)
      PROVE  Addressed'
  BY <1>1 DEF EnqueueBegin, CheckCapacity, CheckCount, CheckBytes, WhenFull, DropLoad,
              DropAdvance, offsets, lifeVars, consumerVars
<1>2. ASSUME NEW p \in Producers, DropDelete(p) PROVE Addressed'
  BY <1>2 DEF DropDelete, Without, offsets, lifeVars, consumerVars
<1>3. ASSUME NEW p \in Producers, Allocate(p) PROVE Addressed'
  BY <1>3 DEF Allocate, lifeVars, consumerVars
<1>4. ASSUME NEW p \in Producers, Write(p) \/ WriteFail(p) PROVE Addressed'
  BY <1>4 DEF Write, WriteFail, offsets, lifeVars, consumerVars
<1>5. CASE DequeueBegin \/ CommitLoad \/ CommitStore \/ Close \/ CloseDB \/ UNCHANGED vars
  BY <1>5 DEF DequeueBegin, CommitLoad, CommitStore, Close, CloseDB, vars, callVars,
              offsets, lifeVars, consumerVars
<1>6. CASE CommitDelete
  BY <1>6 DEF CommitDelete, Without, callVars, offsets, lifeVars
<1>7. CASE Crash \/ Restart
  BY <1>7, EmptyType DEF Crash, Restart, Boot, Recover
<1>8. CASE DequeueScan
  BY <1>8, EmptyType DEF DequeueScan, Scan, FirstN, callVars, offsets, lifeVars
<1>9. CASE Process
  BY <1>9, EmptyType DEF Process, callVars, offsets, lifeVars
<1> QED
  BY <1>1, <1>2, <1>3, <1>4, <1>5, <1>6, <1>7, <1>8, <1>9 DEF Next, Enqueue, Consume

LEMMA AddressedInit == Init => Addressed
BY EmptyType DEF Init, Addressed

\* A restart puts every entry within reach again, whatever calls, drops and
\* failures of several producers have left on disk.
THEOREM RecoveryIsComplete == Spec => RestartRecoversAll
<1>1. Init => Addressed
  BY AddressedInit
<1>2. Addressed /\ [Next]_vars => [boots' # boots => Live' = OnDisk']_vars
  <2> SUFFICES ASSUME Addressed, Next, boots' # boots PROVE Live' = OnDisk'
    OBVIOUS
  <2>1. Boot
    BY DEF Next, Enqueue, Consume, EnqueueBegin, CheckCapacity, CheckCount, CheckBytes,
           DropLoad, DropDelete, DropAdvance, Allocate, Write, WriteFail, DequeueBegin,
           DequeueScan, Process, CommitLoad, CommitDelete, CommitStore, Close, CloseDB,
           Crash, Restart, lifeVars
  <2>2. \A o \in DOMAIN disk : readOffset' <= o /\ o < writeOffset'
    BY <2>1 DEF Boot, Recover, FirstKey, Addressed
  <2>3. disk' = disk
    BY <2>1 DEF Boot
  <2> QED
    BY <2>2, <2>3 DEF Live, OnDisk
<1> QED
  BY <1>1, <1>2, AddressedStep, PTL DEF Spec, RestartRecoversAll

\* The calls that may still allocate although the write offset is above v:
\* the ones that loaded v or less, or have found the queue not full.
Pending(v) ==
  {p \in Producers : \/ pc[p] = "capacity" /\ seen[p] <= v
                     \/ pc[p] \in {"bytes", "allocate"}}

\* Under reject_new only the consumer moves readOffset, and only upwards.
Rejecting ==
  /\ \A p \in Producers : pc[p] \notin {"drop", "delete", "advance"}
  /\ cpc \in {"delete", "store"} => readOffset <= upto

\* However far the write offset is above a limit v, as many producers can no
\* longer allocate: a call that does so loaded v or less before any of the
\* allocations above v, so each producer has at most one of them.
Crowd ==
  \A v \in Int : readOffset + MaxEvents - 1 <= v /\ v < writeOffset =>
    writeOffset + Cardinality(Pending(v)) <= v + Cardinality(Producers)

Limited == boots = 0 /\ policy = RejectNew => Rejecting /\ Crowd

LEMMA PendingType ==
  ASSUME IsFiniteSet(Producers), NEW v
  PROVE  /\ Cardinality(Producers) \in Nat
         /\ IsFiniteSet(Pending(v)) /\ Cardinality(Pending(v)) \in Nat
<1>1. Pending(v) \in SUBSET Producers
  BY DEF Pending
<1> QED
  BY <1>1, FS_Subset, FS_CardinalityType

\* A step that lets no more calls allocate, nor lowers the read offset.
LEMMA CrowdShrinks ==
  ASSUME IsFiniteSet(Producers), Addressed, Addressed', Crowd,
         writeOffset' <= writeOffset, readOffset <= readOffset',
         \A v \in Int : readOffset' + MaxEvents - 1 <= v /\ v < writeOffset' =>
           Pending(v)' \subseteq Pending(v)
  PROVE  Crowd'
<1> SUFFICES ASSUME NEW v \in Int, readOffset' + MaxEvents - 1 <= v, v < writeOffset'
             PROVE  writeOffset' + Cardinality(Pending(v)') <= v + Cardinality(Producers)
  BY DEF Crowd
<1>1. PICK w \in Int, w2 \in Int, r \in Int, r2 \in Int :
        w = writeOffset /\ w2 = writeOffset' /\ r = readOffset /\ r2 = readOffset'
  BY DEF Addressed
<1>2. r + MaxEvents - 1 <= v /\ v < w /\ w2 <= w
  <2>1. r <= r2 /\ w2 <= w /\ r2 + MaxEvents - 1 <= v /\ v < w2
    BY <1>1
  <2>2. \A m, a, b \in Int : a <= b /\ b + m - 1 <= v => a + m - 1 <= v
    OBVIOUS
  <2>3. \A a, b \in Int : v < b /\ b <= a => v < a
    OBVIOUS
  <2>4. MaxEvents \in Int
    BY QueueAssumption
  <2> QED
    BY <2>1, <2>2, <2>3, <2>4
<1>3. w + Cardinality(Pending(v)) <= v + Cardinality(Producers)
  BY <1>1, <1>2 DEF Crowd
<1>4. IsFiniteSet(Pending(v)) /\ Cardinality(Pending(v)) \in Nat /\ Cardinality(Producers) \in Nat
  BY PendingType
<1>5. Pending(v)' \in SUBSET Pending(v)
  OBVIOUS
<1>6. Cardinality(Pending(v)') \in Nat /\ Cardinality(Pending(v)') <= Cardinality(Pending(v))
  BY <1>4, <1>5, FS_Subset, FS_CardinalityType
<1>7. w2 + Cardinality(Pending(v)') <= v + Cardinality(Producers)
  BY <1>2, <1>3, <1>4, <1>6
<1> QED
  BY <1>1, <1>7

\* An allocation: the caller cannot allocate again without a new load.
LEMMA CrowdAllocates ==
  ASSUME IsFiniteSet(Producers), Addressed, Crowd, NEW p \in Producers, Allocate(p)
  PROVE  Crowd'
<1> SUFFICES ASSUME NEW v \in Int, readOffset' + MaxEvents - 1 <= v, v < writeOffset'
             PROVE  writeOffset' + Cardinality(Pending(v)') <= v + Cardinality(Producers)
  BY DEF Crowd
<1>1. /\ writeOffset \in Int /\ writeOffset' = writeOffset + 1 /\ readOffset' = readOffset
      /\ readOffset \in Int
  BY DEF Allocate, Addressed
<1>2. p \in Pending(v) /\ Pending(v)' = Pending(v) \ {p}
  BY DEF Allocate, Goto, Pending, Addressed
<1>3. IsFiniteSet(Pending(v)) /\ Cardinality(Pending(v)) \in Nat /\ Cardinality(Producers) \in Nat
  BY PendingType
<1>4. Cardinality(Pending(v)') = Cardinality(Pending(v)) - 1
  BY <1>2, <1>3, FS_RemoveElement
<1>5. CASE v < writeOffset
  <2>1. writeOffset + Cardinality(Pending(v)) <= v + Cardinality(Producers)
    BY <1>1, <1>5 DEF Crowd
  <2> QED
    BY <1>1, <1>3, <1>4, <2>1
<1>6. CASE ~ (v < writeOffset)
  <2>1. writeOffset' = v + 1
    BY <1>1, <1>6
  <2>2. Pending(v) \in SUBSET Producers
    BY DEF Pending
  <2>3. Cardinality(Pending(v)) <= Cardinality(Producers)
    BY <2>2, FS_Subset
  <2> QED
    BY <1>3, <1>4, <2>1, <2>3
<1> QED
  BY <1>5, <1>6

\* The steps of a call.
LEMMA CallIsLimited ==
  ASSUME IsFiniteSet(Producers), Addressed, Addressed', Rejecting, Crowd,
         policy = RejectNew, NEW p \in Producers, Enqueue(p)
  PROVE  Rejecting' /\ Crowd'
<1> USE DEF Goto
<1>1. Rejecting'
  BY DEF Rejecting, Addressed, Enqueue, EnqueueBegin, CheckCapacity, CheckCount, CheckBytes,
         WhenFull, DropLoad, DropDelete, DropAdvance, Allocate, Write, WriteFail,
         offsets, consumerVars
<1>2. CASE Allocate(p)
  BY <1>1, <1>2, CrowdAllocates
<1>3. CASE ~ Allocate(p)
  <2>1. /\ writeOffset' <= writeOffset /\ readOffset' = readOffset
        /\ writeOffset \in Int /\ readOffset \in Int
    <3>1. writeOffset' \in {writeOffset, writeOffset - 1} /\ readOffset' = readOffset
      BY <1>3 DEF Rejecting, Enqueue, EnqueueBegin, CheckCapacity, CheckCount, CheckBytes,
             DropLoad, DropDelete, DropAdvance, Write, WriteFail, offsets
    <3> QED
      BY <3>1 DEF Addressed
  <2>2. ASSUME NEW v \in Int, readOffset' + MaxEvents - 1 <= v, v < writeOffset'
        PROVE  Pending(v)' \subseteq Pending(v)
    <3>1. v < writeOffset /\ v \in Int
      BY <2>1, <2>2 DEF Addressed
    <3>2. CASE EnqueueBegin(p)
      <4>1. /\ pc' = [pc EXCEPT ![p] = "capacity"] /\ seen' = [seen EXCEPT ![p] = writeOffset]
            /\ ~ (writeOffset <= v)
        BY <2>1, <3>1, <3>2 DEF EnqueueBegin
      <4> QED
        BY <4>1 DEF Pending, Addressed
    <3>3. CASE CheckCount(p)
      <4>1. CASE pc' = [pc EXCEPT ![p] = WhenFull] /\ UNCHANGED seen
        BY <4>1 DEF Pending, Addressed, WhenFull
      <4>2. CASE /\ ~ TooMany(Depth(seen[p], readOffset)) /\ pc[p] = "capacity"
                 /\ pc' = [pc EXCEPT ![p] = "bytes"] /\ seen' = [seen EXCEPT ![p] = writeOffset]
        <5>1. seen[p] \in Int /\ seen[p] <= readOffset + MaxEvents - 1
          BY <2>1, <4>2, QueueAssumption DEF TooMany, Depth, Addressed
        <5>2. seen[p] <= v
          BY <2>1, <2>2, <5>1, QueueAssumption
        <5> QED
          BY <4>2, <5>2 DEF Pending, Addressed
      <4> QED
        BY <3>3, <4>1, <4>2 DEF CheckCount
    <3>4. CASE CheckBytes(p)
      BY <3>4 DEF CheckBytes, Pending, Addressed, WhenFull
    <3>5. CASE Write(p) \/ WriteFail(p)
      BY <3>5 DEF Write, WriteFail, Pending, Addressed
    <3> QED
      BY <1>3, <3>2, <3>3, <3>4, <3>5
      DEF Enqueue, CheckCapacity, Rejecting, DropLoad, DropDelete, DropAdvance
  <2>3. readOffset <= readOffset'
    BY <2>1
  <2> QED
    BY <1>1, <2>1, <2>2, <2>3, CrowdShrinks
<1> QED
  BY <1>2, <1>3

\* The steps of the consumer.
LEMMA ConsumerIsLimited ==
  ASSUME IsFiniteSet(Producers), Addressed, Addressed', Rejecting, Crowd, Consume
  PROVE  Rejecting' /\ Crowd'
<1>1. UNCHANGED <<pc, seen, writeOffset>>
  BY DEF Consume, DequeueBegin, DequeueScan, Process, CommitLoad, CommitDelete, CommitStore,
         callVars, offsets
<1>2. readOffset <= readOffset' /\ Rejecting'
  <2>1. CASE DequeueBegin \/ DequeueScan \/ Process \/ CommitDelete
    <3>1. UNCHANGED readOffset /\ (cpc' \in {"delete", "store"} => cpc = "delete" /\ UNCHANGED upto)
      BY <2>1 DEF DequeueBegin, DequeueScan, Process, CommitDelete, offsets
    <3> QED
      BY <1>1, <3>1 DEF Rejecting, Addressed
  <2>2. CASE CommitLoad
    <3>1. UNCHANGED <<readOffset, upto>> /\ (cpc' = "delete" => ~ (upto < readOffset))
          /\ cpc' # "store"
      BY <2>2 DEF CommitLoad, offsets
    <3> QED
      BY <1>1, <3>1 DEF Rejecting, Addressed
  <2>3. CASE CommitStore
    <3>1. cpc = "store" /\ readOffset' = upto + 1 /\ cpc' = "idle"
      BY <2>3 DEF CommitStore
    <3>2. readOffset <= upto
      BY <3>1 DEF Rejecting
    <3> QED
      BY <1>1, <3>1, <3>2 DEF Rejecting, Addressed
  <2> QED
    BY <2>1, <2>2, <2>3 DEF Consume
<1>3. \A v : Pending(v)' = Pending(v)
  BY <1>1 DEF Pending
<1>4. writeOffset' <= writeOffset
  BY <1>1 DEF Addressed
<1> QED
  BY <1>2, <1>3, <1>4, CrowdShrinks

LEMMA LimitedStep ==
  ASSUME IsFiniteSet(Producers), Addressed, Addressed', Limited, [Next]_vars
  PROVE  Limited'
<1> SUFFICES ASSUME boots' = 0, policy' = RejectNew
             PROVE  Rejecting' /\ Crowd'
  BY DEF Limited
<1>1. ~ Boot
  BY DEF Boot, Addressed
<1>2. /\ UNCHANGED policy /\ boots = 0
  BY <1>1 DEF Next, Enqueue, Consume, EnqueueBegin, CheckCapacity, CheckCount, CheckBytes,
         DropLoad, DropDelete, DropAdvance, Allocate, Write, WriteFail, DequeueBegin,
         DequeueScan, Process, CommitLoad, CommitDelete, CommitStore, Close, CloseDB,
         Crash, Restart, lifeVars, vars
<1>3. Rejecting /\ Crowd /\ policy = RejectNew
  BY <1>2 DEF Limited
<1>4. CASE \E p \in Producers : Enqueue(p)
  BY <1>3, <1>4, CallIsLimited
<1>5. CASE Consume
  BY <1>3, <1>5, ConsumerIsLimited
<1>6. CASE Close \/ CloseDB \/ UNCHANGED vars
  <2>1. UNCHANGED <<pc, seen, writeOffset, readOffset, cpc, upto>>
    BY <1>6 DEF Close, CloseDB, vars, callVars, consumerVars, offsets
  <2> QED
    BY <1>3, <2>1 DEF Rejecting, Crowd, Pending
<1> QED
  BY <1>1, <1>4, <1>5, <1>6 DEF Next, Crash, Restart

\* Under reject_new the queue outgrows MaxEvents by at most one entry per
\* other producer, whatever the producers have loaded and when.
THEOREM DepthIsBounded ==
  ASSUME IsFiniteSet(Producers)
  PROVE  Spec => []DepthBound
<1>1. Init => Limited
  BY QueueAssumption DEF Init, Limited, Rejecting, Crowd
<1>2. Addressed /\ Limited => DepthBound
  <2> SUFFICES ASSUME Addressed, boots = 0, policy = RejectNew, Crowd
               PROVE  Depth(writeOffset, readOffset) <= MaxEvents + Cardinality(Producers) - 1
    BY DEF DepthBound, Limited
  <2> DEFINE v == readOffset + MaxEvents - 1
  <2>1. v \in Int /\ writeOffset \in Int /\ readOffset \in Int /\ MaxEvents \in Nat \ {0}
    BY QueueAssumption DEF Addressed
  <2>2. Cardinality(Producers) \in Nat \ {0} /\ Cardinality(Pending(v)) \in Nat
    BY PendingType, FS_EmptySet, QueueAssumption
  <2>3. CASE v < writeOffset
    <3>1. writeOffset + Cardinality(Pending(v)) <= v + Cardinality(Producers)
      BY <2>1, <2>3 DEF Crowd
    <3> QED
      BY <2>1, <2>2, <3>1 DEF Depth
  <2>4. CASE ~ (v < writeOffset)
    BY <2>1, <2>2, <2>4 DEF Depth
  <2> QED
    BY <2>3, <2>4
<1> QED
  BY <1>1, <1>2, LimitedStep, AddressedInit, AddressedStep, PTL DEF Spec

=============================================================================
