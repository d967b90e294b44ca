------------------------- MODULE DeadLettersProofs -------------------------
(***************************************************************************)
(* Proof that no item vanishes between a stream's queue and the dead       *)
(* letter queue, for any limits, batch size, and number of items, calls,   *)
(* failed transactions and crashes.                                        *)
(***************************************************************************)
EXTENDS DeadLetters, FiniteSetTheorems, TLAPS

\* The offset after the last entry: a slot may be allocated and not written.
Top == IF cpc = "write" THEN dwrite - 1 ELSE dwrite

\* The entries lie between the two offsets.
Bounds ==
  /\ dread <= Top
  /\ \A o \in DOMAIN dlq : dread <= o /\ o < Top

\* What the consumer is moving is in the stream's queue.
Moving == cpc \in {"write", "commit"} => next < tail

\* What a call has read: entries from the front of the queue, none left
\* out, all those it has not committed still there.
Read ==
  /\ \A b \in DOMAIN batch :
       /\ b < Top
       /\ \A o \in DOMAIN dlq :
            o <= b => o \in DOMAIN batch /\ batch[o] = dlq[o]
  /\ opc \in {"scan", "commit", "delete"} =>
       \A b \in DOMAIN batch : dread <= b => b \in DOMAIN dlq
  /\ opc = "store" =>
       \A b \in DOMAIN batch : upto < b => b \in DOMAIN dlq
  /\ opc = "scan" => op = "older"

\* What a call is about to commit, or has committed.
Committing ==
  /\ opc \in {"commit", "delete", "store"} =>
       /\ upto \in DOMAIN batch
       /\ op = "older" => batch[upto] <= cutoff
  /\ opc = "delete" => cread = dread /\ dread <= upto
  /\ opc = "store" => dread <= upto /\ \A o \in DOMAIN dlq : upto < o

\* An item is settled when it was processed or taken, or when it has a copy
\* in the dead letter queue behind which there are only items that are not
\* older: a commit of PurgeOlderThan that deletes this copy is for an item
\* that is not older either.
Copy(i, c) ==
  /\ c \in DOMAIN dlq /\ dlq[c] = i
  /\ \A b \in DOMAIN dlq : c < b => i <= dlq[b]
Settled(i) == i \in processed \cup taken \/ \E c \in DOMAIN dlq : Copy(i, c)

\* Every item the consumer has handled since its last restart, or has
\* committed, is settled.
AllSettled ==
  /\ \A i \in 1..(next - 1) : Settled(i)
  /\ cpc = "commit" => Settled(next)

\* The inductive invariant.
IInv == TypeOK /\ Bounds /\ Moving /\ Read /\ Committing /\ AllSettled

-----------------------------------------------------------------------------
(* Lemmas about the operators *)

\* What DequeueBatch returns is part of the queue, between the offsets.
LEMMA EntriesType ==
  ASSUME NEW n, IsEntries(dlq)
  PROVE  /\ IsEntries(Entries(n))
         /\ DOMAIN Entries(n) \subseteq DOMAIN dlq
         /\ \A o \in DOMAIN Entries(n) :
              Entries(n)[o] = dlq[o] /\ dread <= o /\ o < dwrite
BY DEF IsEntries, Entries, FirstN

\* It takes no entry without those before it.
LEMMA EntriesPrefix ==
  ASSUME IsEntries(dlq), dread \in Nat, dwrite \in Nat, NEW n \in Nat,
         NEW o \in DOMAIN Entries(n),
         NEW x \in DOMAIN dlq, dread <= x, x <= o
  PROVE  x \in DOMAIN Entries(n) /\ Entries(n)[x] = dlq[x]
<1> DEFINE found == {y \in DOMAIN dlq : dread <= y /\ y < dwrite}
           Earlier(z) == {y \in found : y < z}
<1>1. found \subseteq Nat /\ o \in found /\ x \in found
  BY DEF IsEntries, Entries, FirstN
<1>2. IsFiniteSet(Earlier(o)) /\ Cardinality(Earlier(o)) \in Nat
  <2>1. IsFiniteSet(0..dwrite)
    BY FS_Interval
  <2>2. Earlier(o) \in SUBSET (0..dwrite)
    BY <1>1
  <2> QED
    BY <2>1, <2>2, FS_Subset, FS_CardinalityType
<1>3. Earlier(x) \in SUBSET Earlier(o)
  BY <1>1
<1>4. /\ IsFiniteSet(Earlier(x))
      /\ Cardinality(Earlier(x)) <= Cardinality(Earlier(o))
  BY <1>2, <1>3, FS_Subset
<1>5. Cardinality(Earlier(x)) \in Nat
  BY <1>4, FS_CardinalityType
<1>6. Cardinality(Earlier(o)) < n
  BY DEF Entries, FirstN
<1>7. Cardinality(Earlier(x)) < n
  BY <1>2, <1>4, <1>5, <1>6
<1> QED
  BY <1>1, <1>7 DEF Entries, FirstN

\* Nothing has been read when no call is under way.
LEMMA EmptyType == IsEntries(NoEntries) /\ DOMAIN NoEntries = {}
BY DEF IsEntries, NoEntries

\* A call that returns forgets what it read.
LEMMA ReturnType ==
  ASSUME Return
  PROVE  /\ opc' = "idle" /\ op' = "none" /\ cutoff' = 0
         /\ wanted' = 0 /\ upto' = 0 /\ cread' = 0
         /\ IsEntries(batch)' /\ DOMAIN batch' = {}
BY EmptyType DEF Return, IsEntries

\* An item stays settled when neither the entries nor the history change.
LEMMA SettledStays ==
  ASSUME UNCHANGED <<dlq, taken>>, processed \subseteq processed',
         NEW i, Settled(i)
  PROVE  Settled(i)'
BY DEF Settled, Copy

-----------------------------------------------------------------------------
(* The steps of the consumer *)

LEMMA InitInv ==
  ASSUME Init
  PROVE  IInv
<1> USE LetterAssumption, EmptyType DEF Init
<1>1. TypeOK
  BY DEF TypeOK, Items
<1>2. Bounds /\ Moving /\ Committing
  BY DEF Bounds, Top, Moving, Committing
<1>3. Read
  BY DEF Read
<1>4. AllSettled
  BY DEF AllSettled
<1> QED
  BY <1>1, <1>2, <1>3, <1>4 DEF IInv

LEMMA ArriveStep ==
  ASSUME IInv, Arrive
  PROVE  IInv'
<1> USE LetterAssumption DEF Arrive, IInv, TypeOK, dlqVars, opVars
<1>1. TypeOK'
  BY DEF IsEntries
<1>2. Bounds' /\ Moving' /\ Committing'
  BY DEF Bounds, Top, Moving, Committing
<1>3. Read'
  BY DEF Read, Top
<1>4. AllSettled'
  BY SettledStays DEF AllSettled
<1> QED
  BY <1>1, <1>2, <1>3, <1>4

LEMMA ProcessItemStep ==
  ASSUME IInv, ProcessItem
  PROVE  IInv'
<1> USE LetterAssumption DEF ProcessItem, IInv, TypeOK, dlqVars, opVars
<1>1. TypeOK'
  BY DEF IsEntries, Items
<1>2. Bounds' /\ Moving' /\ Committing'
  BY DEF Bounds, Top, Moving, Committing
<1>3. Read'
  BY DEF Read, Top
<1>4. AllSettled'
  <2>1. ASSUME NEW i, i = next PROVE Settled(i)'
    BY <2>1 DEF Settled
  <2>2. ASSUME NEW i \in 1..(next - 1) PROVE Settled(i)'
    BY SettledStays DEF AllSettled
  <2> QED
    BY <2>1, <2>2 DEF AllSettled
<1> QED
  BY <1>1, <1>2, <1>3, <1>4

LEMMA CommitBatchStep ==
  ASSUME IInv, CommitBatch
  PROVE  IInv'
<1> USE LetterAssumption DEF CommitBatch, TxnFails, IInv, TypeOK, dlqVars, opVars
<1>1. TypeOK'
  BY DEF IsEntries
<1>2. Bounds' /\ Moving' /\ Committing'
  BY DEF Bounds, Top, Moving, Committing
<1>3. Read'
  BY DEF Read, Top
<1>4. AllSettled'
  BY SettledStays DEF AllSettled
<1> QED
  BY <1>1, <1>2, <1>3, <1>4

LEMMA MoveBeginStep ==
  ASSUME IInv, MoveBegin
  PROVE  IInv'
<1> USE LetterAssumption DEF MoveBegin, IInv, TypeOK, streamVars, opVars
<1>1. TypeOK'
  BY DEF IsEntries
<1>2. Top' = Top
  BY DEF Top
<1>3. Bounds' /\ Moving' /\ Committing'
  BY <1>2 DEF Bounds, Moving, Committing
<1>4. Read'
  BY <1>2 DEF Read
<1>5. AllSettled'
  BY SettledStays DEF AllSettled
<1> QED
  BY <1>1, <1>3, <1>4, <1>5

LEMMA MoveWriteStep ==
  ASSUME IInv, MoveWrite
  PROVE  IInv'
<1> USE LetterAssumption DEF IInv, TypeOK, streamVars, opVars
<1>1. CASE MoveWrite /\ cpc' = "idle"
  <2> USE <1>1 DEF MoveWrite, TxnFails
  <2>1. Top' = Top /\ UNCHANGED dlq
    BY DEF Top
  <2>2. TypeOK'
    BY DEF IsEntries, Bounds, Top
  <2>3. Bounds' /\ Moving' /\ Committing'
    BY <2>1 DEF Bounds, Moving, Committing
  <2>4. Read'
    BY <2>1 DEF Read
  <2>5. AllSettled'
    BY <2>1, SettledStays DEF AllSettled
  <2> QED
    BY <2>2, <2>3, <2>4, <2>5
<1>2. CASE MoveWrite /\ cpc' = "commit"
  <2>1. /\ cpc = "write" /\ next < tail /\ Top = dwrite - 1 /\ Top' = Top + 1
        /\ Top \in Nat /\ next \in Items
    BY <1>2 DEF MoveWrite, Moving, Bounds, Top, Items
  <2>2. /\ DOMAIN dlq' = DOMAIN dlq \cup {Top}
        /\ dlq'[Top] = next
        /\ \A o \in DOMAIN dlq : o < Top /\ dlq'[o] = dlq[o]
        /\ DOMAIN dlq \subseteq Nat
    BY <1>2, <2>1 DEF MoveWrite, Bounds, IsEntries
  <2>3. IsEntries(dlq)'
    BY <1>2, <2>1 DEF MoveWrite, IsEntries
  <2>4. TypeOK'
    BY <1>2, <2>3 DEF MoveWrite, IsEntries
  <2>5. Bounds' /\ Moving'
    BY <1>2, <2>1, <2>2 DEF MoveWrite, Bounds, Moving
  <2>6. Committing'
    <3>1. opc = "store" => upto < Top
      BY DEF Committing, Read
    <3> QED
      BY <1>2, <2>2, <3>1 DEF MoveWrite, Committing
  <2>7. Read'
    BY <1>2, <2>1, <2>2 DEF MoveWrite, Read, IsEntries
  <2>8. AllSettled'
    <3>1. ASSUME NEW i, i = next PROVE Settled(i)'
      BY <2>1, <2>2, <3>1 DEF Settled, Copy
    <3>2. ASSUME NEW i \in 1..(next - 1) PROVE Settled(i)'
      <4>1. CASE i \in processed \cup taken
        BY <1>2, <4>1 DEF MoveWrite, Settled
      <4>2. CASE \E c \in DOMAIN dlq : Copy(i, c)
        <5>1. PICK c \in DOMAIN dlq : Copy(i, c)
          BY <4>2
        <5>2. Copy(i, c)'
          BY <2>1, <2>2, <5>1 DEF Copy
        <5> QED
          BY <2>2, <5>2 DEF Settled
      <4> QED
        BY <4>1, <4>2 DEF AllSettled, Settled
    <3> QED
      BY <1>2, <3>1, <3>2 DEF MoveWrite, AllSettled
  <2> QED
    BY <2>4, <2>5, <2>6, <2>7, <2>8
<1> QED
  BY <1>1, <1>2 DEF MoveWrite

LEMMA MoveCommitStep ==
  ASSUME IInv, MoveCommit
  PROVE  IInv'
<1> USE LetterAssumption DEF MoveCommit, TxnFails, IInv, TypeOK, dlqVars, opVars
<1>1. TypeOK'
  BY DEF IsEntries, Moving
<1>2. Bounds' /\ Moving' /\ Committing'
  BY DEF Bounds, Top, Moving, Committing
<1>3. Read'
  BY DEF Read, Top
<1>4. AllSettled'
  <2>1. ASSUME NEW i \in 1..next PROVE Settled(i)'
    BY SettledStays DEF AllSettled
  <2> QED
    BY <2>1 DEF AllSettled
<1> QED
  BY <1>1, <1>2, <1>3, <1>4

-----------------------------------------------------------------------------
(* The steps of an operator's call *)

\* A step that moves the call alone, and leaves the entries, the offsets and
\* the stream's queue, keeps the parts of the invariant that are not about
\* the call.
LEMMA CallOnly ==
  ASSUME IInv, UNCHANGED <<streamVars, cpc, dlqVars, taken>>
  PROVE  Bounds' /\ Moving' /\ AllSettled'
<1> USE DEF IInv, streamVars, dlqVars
<1>1. Bounds' /\ Moving'
  BY DEF Bounds, Top, Moving
<1>2. AllSettled'
  BY SettledStays DEF AllSettled
<1> QED
  BY <1>1, <1>2

LEMMA OpBeginStep ==
  ASSUME IInv, OpBegin
  PROVE  IInv'
<1> USE LetterAssumption DEF OpBegin, IInv, TypeOK, streamVars, dlqVars
<1>1. TypeOK'
  BY DEF IsEntries
<1>2. Bounds' /\ Moving' /\ AllSettled'
  BY CallOnly
<1>3. Read' /\ Committing'
  BY DEF Read, Committing, Top
<1> QED
  BY <1>1, <1>2, <1>3

\* A call that returns.
LEMMA ReturnStep ==
  ASSUME IInv, Return, UNCHANGED <<streamVars, cpc, dlqVars, taken, ops, crashes>>,
         fails' \in Nat
  PROVE  IInv'
<1> USE LetterAssumption, ReturnType DEF IInv, TypeOK, streamVars, dlqVars
<1>1. TypeOK'
  BY SMTT(30) DEF IsEntries
<1>2. Bounds' /\ Moving' /\ AllSettled'
  BY CallOnly
<1>3. Read' /\ Committing'
  BY DEF Read, Committing
<1> QED
  BY <1>1, <1>2, <1>3

\* What a DequeueBatch returns satisfies Read.
LEMMA EntriesRead ==
  ASSUME IInv, NEW n \in Nat, batch' = Entries(n), UNCHANGED <<cpc, dlqVars>>,
         opc' \in {"scan", "commit"}, opc' = "scan" => op' = "older"
  PROVE  Read' /\ IsEntries(batch)'
<1> USE DEF IInv, TypeOK, dlqVars
<1>1. \A o \in DOMAIN batch' : o \in DOMAIN dlq /\ o < Top
  BY EntriesType DEF Bounds
<1>2. ASSUME NEW o \in DOMAIN batch', NEW x \in DOMAIN dlq, x <= o
      PROVE  x \in DOMAIN batch' /\ batch'[x] = dlq[x]
  BY <1>2, EntriesPrefix DEF Bounds
<1>3. IsEntries(batch)'
  BY EntriesType DEF IsEntries
<1> QED
  BY <1>1, <1>2, <1>3 DEF Read, Top

LEMMA DequeueStep ==
  ASSUME IInv, Dequeue
  PROVE  IInv'
<1> USE LetterAssumption DEF IInv, TypeOK, streamVars, dlqVars
<1>1. CASE Return /\ Dequeue
  BY <1>1, ReturnStep DEF Dequeue, PurgeDequeue, ReprocessDequeue, OlderDequeue
<1>2. CASE ~Return /\ PurgeDequeue
  <2> USE <1>2 DEF PurgeDequeue
  <2>1. Read' /\ IsEntries(batch)'
    BY EntriesRead, DLQLimit \in Nat
  <2>2. upto' \in DOMAIN batch' /\ upto' \in Nat
    BY <2>1 DEF IsEntries
  <2>3. TypeOK'
    BY <2>1, <2>2 DEF IsEntries
  <2>4. Bounds' /\ Moving' /\ AllSettled'
    BY CallOnly
  <2>5. Committing'
    BY <2>2 DEF Committing
  <2> QED
    BY <2>1, <2>3, <2>4, <2>5
<1>3. CASE ~Return /\ ReprocessDequeue
  <2> USE <1>3 DEF ReprocessDequeue
  <2>1. Read' /\ IsEntries(batch)'
    BY EntriesRead, 1 \in Nat
  <2>2. upto' \in DOMAIN batch' /\ upto' \in Nat
    OBVIOUS
  <2>3. TypeOK'
    BY <2>1, <2>2 DEF IsEntries
  <2>4. Bounds' /\ Moving' /\ AllSettled'
    BY CallOnly
  <2>5. Committing'
    BY <2>2 DEF Committing
  <2> QED
    BY <2>1, <2>3, <2>4, <2>5
<1>4. CASE ~Return /\ OlderDequeue
  <2> USE <1>4 DEF OlderDequeue
  <2>1. Read' /\ IsEntries(batch)'
    BY EntriesRead, PurgeBatch \in Nat
  <2>2. TypeOK'
    <3>1. /\ opc' = "scan" /\ upto' = 0
          /\ UNCHANGED <<op, cutoff, wanted, cread, streamVars, cpc, dlqVars,
                         taken, ops, fails, crashes>>
      OBVIOUS
    <3> HIDE <1>4
    <3> QED
      BY <2>1, <3>1 DEF IsEntries
  <2>3. Bounds' /\ Moving' /\ AllSettled'
    BY CallOnly
  <2>4. Committing'
    BY DEF Committing
  <2> QED
    BY <2>1, <2>2, <2>3, <2>4
<1> QED
  BY <1>1, <1>2, <1>3, <1>4 DEF Dequeue

LEMMA OlderCommitStep ==
  ASSUME IInv, OlderCommit
  PROVE  IInv'
<1> USE LetterAssumption DEF OlderCommit, IInv, TypeOK, streamVars, dlqVars
<1>1. upto' \in DOMAIN batch /\ upto' \in Nat /\ batch[upto'] <= cutoff
  BY DEF OldLeft, IsEntries
<1>2. TypeOK'
  BY <1>1 DEF IsEntries
<1>3. Bounds' /\ Moving' /\ AllSettled'
  BY CallOnly
<1>4. Read'
  BY DEF Read, Top
<1>5. Committing'
  BY <1>1 DEF Committing
<1> QED
  BY <1>2, <1>3, <1>4, <1>5

LEMMA OlderEndStep ==
  ASSUME IInv, OlderEnd
  PROVE  IInv'
<1> USE LetterAssumption DEF OlderEnd, IInv, TypeOK, streamVars, dlqVars
<1>1. CASE Return
  BY <1>1, ReturnStep
<1>2. CASE opc' = "dequeue"
  <2>1. TypeOK'
    BY <1>2, EmptyType, SMTT(30) DEF Return, IsEntries
  <2>2. Bounds' /\ Moving' /\ AllSettled'
    BY CallOnly
  <2>3. Read' /\ Committing'
    BY <1>2, EmptyType DEF Return, Read, Committing
  <2> QED
    BY <2>1, <2>2, <2>3
<1> QED
  BY <1>1, <1>2

LEMMA CommitLoadStep ==
  ASSUME IInv, CommitLoad
  PROVE  IInv'
<1> USE LetterAssumption DEF CommitLoad, IInv, TypeOK, streamVars, dlqVars
<1>1. CASE Return
  BY <1>1, ReturnStep
<1>2. CASE opc' = "delete"
  <2>1. TypeOK'
    BY <1>2 DEF Return, IsEntries
  <2>2. Bounds' /\ Moving' /\ AllSettled'
    BY CallOnly
  <2>3. Read'
    BY <1>2 DEF Return, Read, Top
  <2>4. Committing'
    BY <1>2 DEF Return, Committing
  <2> QED
    BY <2>1, <2>2, <2>3, <2>4
<1> QED
  BY <1>1, <1>2

\* The deletion takes only settled items with another reason to be settled:
\* a copy further on, or the call itself, which meant to remove them.
LEMMA CommitDeleteStep ==
  ASSUME IInv, CommitDelete
  PROVE  IInv'
<1> USE LetterAssumption DEF CommitDelete, IInv, TypeOK, streamVars
<1>1. CASE Return
  BY <1>1, ReturnStep DEF TxnFails, dlqVars, Return
<1>2. CASE opc' = "store"
  <2>1. /\ opc = "delete" /\ cread = dread /\ dread <= upto
        /\ upto \in DOMAIN batch /\ upto \in DOMAIN dlq
        /\ op = "older" => batch[upto] <= cutoff
        /\ upto \in Nat /\ dread \in Nat /\ DOMAIN dlq \subseteq Nat
    BY DEF Committing, Read, IsEntries
  <2>2. /\ DOMAIN dlq' = {o \in DOMAIN dlq : upto < o}
        /\ \A o \in DOMAIN dlq' : dlq'[o] = dlq[o]
        /\ IsEntries(dlq)'
    BY <1>2, <2>1 DEF Return, Without, Bounds, IsEntries
  <2>3. /\ UNCHANGED <<dread, dwrite, cpc, op, cutoff, wanted, batch, upto,
                       cread, fails, ops>>
        /\ taken' = taken \cup Meant
    BY <1>2 DEF Return
  <2>4. Meant \subseteq Items
    BY DEF Meant, IsEntries
  <2>5. TypeOK'
    BY <1>2, <2>2, <2>3, <2>4 DEF IsEntries
  <2>6. Bounds' /\ Moving'
    BY <2>2, <2>3 DEF Bounds, Top, Moving
  <2>7. Read'
    <3>1. Top' = Top
      BY <2>3 DEF Top
    <3>2. \A b \in DOMAIN batch : upto < b => b \in DOMAIN dlq'
      BY <2>1, <2>2, SMTT(30) DEF Read, IsEntries
    <3> QED
      BY <1>2, <2>2, <2>3, <3>1, <3>2 DEF Read
  <2>8. Committing'
    BY <1>2, <2>1, <2>2, <2>3 DEF Committing
  <2>9. ASSUME NEW i, Settled(i) PROVE Settled(i)'
    <3>1. CASE i \in processed \cup taken
      BY <2>3, <3>1 DEF Settled
    <3>2. ASSUME NEW c \in DOMAIN dlq, Copy(i, c), c <= upto
          PROVE  Settled(i)'
      <4>1. c \in DOMAIN batch /\ batch[c] = i /\ batch[upto] = dlq[upto]
        BY <2>1, <3>2 DEF Read, Copy
      <4>2. i <= dlq[upto]
        BY <2>1, <3>2, SMTT(30) DEF Copy, IsEntries, Items
      <4>3. op = "older" => i <= cutoff
        <5>1. i \in Int /\ dlq[upto] \in Int /\ cutoff \in Int
          BY <2>1, <3>2 DEF Copy, IsEntries, Items
        <5> QED
          BY <2>1, <4>1, <4>2, <5>1
      <4>4. i \in Meant
        BY <3>2, <4>1, <4>3 DEF Meant
      <4> QED
        BY <2>3, <4>4 DEF Settled
    <3>3. ASSUME NEW c \in DOMAIN dlq, Copy(i, c), upto < c
          PROVE  Settled(i)'
      BY <2>2, <3>3 DEF Settled, Copy
    <3> QED
      BY <2>1, <2>9, <3>1, <3>2, <3>3 DEF Settled
  <2>10. AllSettled'
    BY <2>3, <2>9 DEF AllSettled
  <2> QED
    BY <2>5, <2>6, <2>7, <2>8, <2>10
<1> QED
  BY <1>1, <1>2

LEMMA CommitStoreStep ==
  ASSUME IInv, CommitStore
  PROVE  IInv'
<1> USE LetterAssumption DEF CommitStore, IInv, TypeOK, streamVars
<1>1. /\ upto \in DOMAIN batch /\ upto < Top /\ dread <= upto /\ upto \in Nat
      /\ \A o \in DOMAIN dlq : upto < o
      /\ DOMAIN dlq \subseteq Nat /\ DOMAIN batch \subseteq Nat
  BY DEF Committing, Read, IsEntries
<1>2. Top' = Top /\ Top \in Int /\ Top <= dwrite
  BY DEF Top
<1>3. Bounds' /\ Moving'
  BY <1>1, <1>2 DEF Bounds, Moving
<1>4. AllSettled'
  BY SettledStays DEF AllSettled
<1>5. CASE op = "older" /\ opc' = "scan"
  <2>1. UNCHANGED <<op, cutoff, wanted, batch, upto, cread>>
    BY <1>5 DEF Return
  <2>2. TypeOK'
    BY <1>1, <1>2, <1>5, <2>1 DEF IsEntries
  <2>3. Read'
    BY <1>1, <1>2, <1>5, <2>1 DEF Read
  <2>4. Committing'
    BY <1>5 DEF Committing
  <2> QED
    BY <1>3, <1>4, <2>2, <2>3, <2>4
<1>6. CASE Return
  <2>1. dread' \in 0..dwrite'
    BY <1>1, <1>2
  <2>2. TypeOK'
    <3>1. IsEntries(dlq)'
      BY DEF IsEntries
    <3>2. /\ opc' = "idle" /\ op' = "none" /\ cutoff' = 0
          /\ wanted' = 0 /\ upto' = 0 /\ cread' = 0 /\ IsEntries(batch)'
      BY <1>6, ReturnType
    <3> QED
      BY <2>1, <3>1, <3>2
  <2>3. Read' /\ Committing'
    BY <1>6, ReturnType DEF Read, Committing
  <2> QED
    BY <1>3, <1>4, <2>2, <2>3
<1> QED
  BY <1>5, <1>6

-----------------------------------------------------------------------------
(* Crash, and the theorems *)

LEMMA CrashStep ==
  ASSUME IInv, Crash
  PROVE  IInv'
<1> USE LetterAssumption, ReturnType DEF Crash, IInv, TypeOK
<1>1. /\ dread' \in Nat /\ dwrite' \in Nat /\ dread' <= dwrite'
      /\ \A o \in DOMAIN dlq : dread' <= o /\ o < dwrite'
  <2>1. CASE DOMAIN dlq = {}
    BY <2>1 DEF Recover
  <2>2. CASE DOMAIN dlq # {}
    <3>1. PICK first, last \in DOMAIN dlq :
            /\ \A o \in DOMAIN dlq : first <= o /\ o <= last
            /\ dread' = first /\ dwrite' = last + 1
      BY <2>2 DEF Recover
    <3>2. DOMAIN dlq \subseteq Nat
      BY DEF IsEntries
    <3> QED
      BY <3>1, <3>2
  <2> QED
    BY <2>1, <2>2
<1>2. TypeOK'
  <2>1. dread' \in 0..dwrite' /\ next' \in 1..tail' /\ head' \in 1..next'
    BY <1>1
  <2>2. IsEntries(dlq)'
    BY DEF IsEntries
  <2> QED
    BY <1>1, <2>1, <2>2
<1>3. Bounds' /\ Moving'
  BY <1>1 DEF Bounds, Top, Moving
<1>4. Read' /\ Committing'
  BY DEF Read, Committing
<1>5. AllSettled'
  BY SettledStays DEF AllSettled
<1> QED
  BY <1>2, <1>3, <1>4, <1>5

LEMMA StutterStep ==
  ASSUME IInv, UNCHANGED vars
  PROVE  IInv'
<1> USE DEF vars, streamVars, dlqVars, opVars, IInv
<1>1. TypeOK'
  BY DEF TypeOK, IsEntries
<1>2. Bounds' /\ Moving' /\ Read' /\ Committing'
  BY DEF Bounds, Top, Moving, Read, Committing
<1>3. AllSettled'
  BY SettledStays DEF AllSettled
<1> QED
  BY <1>1, <1>2, <1>3

THEOREM Inductive == Spec => []IInv
<1>1. Init => IInv
  BY InitInv
<1>2. IInv /\ [Next]_vars => IInv'
  <2> SUFFICES ASSUME IInv, [Next]_vars PROVE IInv'
    OBVIOUS
  <2>1. CASE Arrive
    BY <2>1, ArriveStep
  <2>2. CASE Consume
    BY <2>2, ProcessItemStep, CommitBatchStep, MoveBeginStep, MoveWriteStep,
       MoveCommitStep DEF Consume, MoveToDLQ
  <2>3. CASE OpBegin
    BY <2>3, OpBeginStep
  <2>4. CASE Operate
    BY <2>4, DequeueStep, OlderCommitStep, OlderEndStep, CommitLoadStep,
       CommitDeleteStep, CommitStoreStep DEF Operate, Commit
  <2>5. CASE Crash
    BY <2>5, CrashStep
  <2>6. CASE UNCHANGED vars
    BY <2>6, StutterStep
  <2> QED
    BY <2>1, <2>2, <2>3, <2>4, <2>5, <2>6 DEF Next
<1> QED
  BY <1>1, <1>2, PTL DEF Spec

\* Every variable of the dead letter queue and its users keeps its type, and
\* readOffset never overtakes writeOffset.
THEOREM LettersTyped == Spec => []TypeOK
<1>1. IInv => TypeOK
  BY DEF IInv
<1> QED
  BY <1>1, Inductive, PTL

\* MoveToDLQ and the DLQManager lose no item that nobody asked to remove,
\* whatever fails and whenever the process crashes.
THEOREM LettersKept == Spec => []NothingVanishes
<1>1. IInv => NothingVanishes
  <2> SUFFICES ASSUME IInv, NEW i \in 1..(head - 1)
               PROVE  i \in processed \cup Letters \cup taken
    BY DEF NothingVanishes
  <2>1. Settled(i)
    BY DEF IInv, TypeOK, AllSettled
  <2>2. \A c \in DOMAIN dlq : dlq[c] \in Letters
    <3>1. \A c \in DOMAIN dlq : dread <= c /\ c < dwrite
      BY DEF IInv, TypeOK, IsEntries, Bounds, Top
    <3> QED
      BY <3>1 DEF Letters
  <2> QED
    BY <2>1, <2>2 DEF Settled, Copy
<1> QED
  BY <1>1, Inductive, PTL

=============================================================================
