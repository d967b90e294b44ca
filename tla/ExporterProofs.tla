--------------------------- MODULE ExporterProofs ---------------------------
(***************************************************************************)
(* Proofs about the exporter, for any streams, sizes, numbers of retries   *)
(* and of items: a stream's items reach its file in order and once, its    *)
(* drops are counted exactly, and nothing leaves after Shutdown.           *)
(***************************************************************************)
EXTENDS Exporter, FiniteSetTheorems, TLAPS

Below(S, T) == \A x \in S, y \in T : x < y
Sorted(q) == \A i, j \in DOMAIN q : i < j => q[i] < q[j]

\* A stream's items are in the order of their Enqueue: in its file, in the
\* batch and in the channel, and from one to the next.  While the flush is
\* at HTTP, the batch may be in the file already.
Ordered(s) ==
  /\ Sorted(file[s]) /\ Sorted(batch[s]) /\ Sorted(ch[s])
  /\ Below(Contents(batch[s]), Contents(ch[s]))
  /\ Below(Contents(file[s]), Contents(ch[s]))
  /\ worker[s] # "http" => Below(Contents(file[s]), Contents(batch[s]))
  /\ Below(flushed[s], Contents(ch[s]))
  /\ Below(flushed[s], Contents(batch[s]))

\* All of them have entered, and what has not is newer.
Newest(s) ==
  /\ Buffered(s) \cup flushed[s] \cup Contents(file[s]) \subseteq entered[s]
  /\ Below(entered[s], {nextItem})
  /\ held[s] # "free" =>
       pending[s] \in Items /\ pending[s] < nextItem /\ Below(entered[s], {pending[s]})

\* What was dropped.
Lost(s) == entered[s] \ (Buffered(s) \cup flushed[s])

Good(s) == Ordered(s) /\ Newest(s) /\ dropped[s] = Cardinality(Lost(s))

\* Shutdown has waited for every worker.
Waited == shutdown = "done" => \A s \in Streams : worker[s] = "exited"

\* The inductive invariant.
IInv == TypeOK /\ (\A s \in Streams : Good(s)) /\ Waited

-----------------------------------------------------------------------------
(* Lemmas about sequences of items *)

\* An item behind a channel or a batch.
LEMMA AppendItem ==
  ASSUME NEW q \in Seq(Items), NEW x \in Items
  PROVE  /\ Append(q, x) \in Seq(Items)
         /\ Contents(Append(q, x)) = Contents(q) \cup {x}
         /\ Sorted(q) /\ Below(Contents(q), {x}) => Sorted(Append(q, x))
<1> DEFINE r == Append(q, x)
<1>1. /\ r \in Seq(Items) /\ Len(r) = Len(q) + 1
      /\ \A i \in 1..Len(q) : r[i] = q[i]
      /\ r[Len(q) + 1] = x
  OBVIOUS
<1>2. DOMAIN q = 1..Len(q) /\ DOMAIN r = 1..(Len(q) + 1) /\ Len(q) \in Nat
  BY <1>1
<1> HIDE DEF r
<1>3. Contents(r) = Contents(q) \cup {x}
  BY <1>1, <1>2 DEF Contents
<1>4. Sorted(q) /\ Below(Contents(q), {x}) => Sorted(r)
  BY <1>1, <1>2 DEF Sorted, Below, Contents
<1> QED
  BY <1>1, <1>3, <1>4 DEF r

\* What is left behind the first item.
LEMMA TailItems ==
  ASSUME NEW q \in Seq(Items), q # <<>>
  PROVE  /\ Tail(q) \in Seq(Items) /\ Head(q) \in Items
         /\ Contents(q) = {Head(q)} \cup Contents(Tail(q))
         /\ Sorted(q) => Sorted(Tail(q)) /\ Below({Head(q)}, Contents(Tail(q)))
<1> DEFINE r == Tail(q)
<1>1. /\ r \in Seq(Items) /\ Len(q) \in Nat \ {0} /\ Len(r) = Len(q) - 1
      /\ \A i \in 1..Len(r) : r[i] = q[i + 1]
      /\ Head(q) = q[1] /\ Head(q) \in Items
  OBVIOUS
<1>2. DOMAIN q = 1..Len(q) /\ DOMAIN r = 1..(Len(q) - 1)
  BY <1>1
<1> HIDE DEF r
<1>3. Contents(q) = {q[1]} \cup Contents(r)
  <2>1. \A i \in DOMAIN q : i = 1 \/ (i - 1 \in DOMAIN r /\ q[i] = r[i - 1])
    BY <1>1, <1>2
  <2>2. \A i \in DOMAIN r : i + 1 \in DOMAIN q /\ r[i] = q[i + 1]
    BY <1>1, <1>2
  <2>3. 1 \in DOMAIN q
    BY <1>1, <1>2
  <2> QED
    BY <2>1, <2>2, <2>3 DEF Contents
<1>4. Sorted(q) => Sorted(r) /\ Below({q[1]}, Contents(r))
  <2> SUFFICES ASSUME Sorted(q) PROVE Sorted(r) /\ Below({q[1]}, Contents(r))
    OBVIOUS
  <2>1. ASSUME NEW i \in DOMAIN r
        PROVE  1 \in DOMAIN q /\ i + 1 \in DOMAIN q /\ r[i] = q[i + 1] /\ 1 < i + 1
    BY <1>1, <1>2
  <2>2. Sorted(r)
    <3> SUFFICES ASSUME NEW i \in DOMAIN r, NEW j \in DOMAIN r, i < j
                 PROVE  r[i] < r[j]
      BY DEF Sorted
    <3>1. i + 1 < j + 1
      BY <1>1, <1>2
    <3> QED
      BY <2>1, <3>1 DEF Sorted
  <2>3. Below({q[1]}, Contents(r))
    BY <2>1 DEF Sorted, Below, Contents
  <2> QED
    BY <2>2, <2>3
<1> QED
  BY <1>1, <1>3, <1>4 DEF r

\* A batch behind a file.
LEMMA ConcatItems ==
  ASSUME NEW q \in Seq(Items), NEW r \in Seq(Items)
  PROVE  /\ q \o r \in Seq(Items)
         /\ Contents(q \o r) = Contents(q) \cup Contents(r)
         /\ Sorted(q) /\ Sorted(r) /\ Below(Contents(q), Contents(r))
              => Sorted(q \o r)
<1> DEFINE u == q \o r
<1>1. /\ u \in Seq(Items) /\ Len(u) = Len(q) + Len(r)
      /\ Len(q) \in Nat /\ Len(r) \in Nat
      /\ \A i \in 1..Len(u) : u[i] = IF i <= Len(q) THEN q[i] ELSE r[i - Len(q)]
  OBVIOUS
<1>2. DOMAIN q = 1..Len(q) /\ DOMAIN r = 1..Len(r) /\ DOMAIN u = 1..(Len(q) + Len(r))
  BY <1>1
<1> HIDE DEF u
<1>3. \A i \in DOMAIN u : \/ i \in DOMAIN q /\ u[i] = q[i]
                          \/ i - Len(q) \in DOMAIN r /\ u[i] = r[i - Len(q)]
  BY <1>1, <1>2
<1>4. Contents(u) = Contents(q) \cup Contents(r)
  <2>1. \A i \in DOMAIN q : i \in DOMAIN u /\ u[i] = q[i]
    BY <1>1, <1>2
  <2>2. \A i \in DOMAIN r : i + Len(q) \in DOMAIN u /\ u[i + Len(q)] = r[i]
    BY <1>1, <1>2
  <2> QED
    BY <1>3, <2>1, <2>2 DEF Contents
<1>5. Sorted(q) /\ Sorted(r) /\ Below(Contents(q), Contents(r)) => Sorted(u)
  <2> SUFFICES ASSUME Sorted(q), Sorted(r), Below(Contents(q), Contents(r)),
                      NEW i \in DOMAIN u, NEW j \in DOMAIN u, i < j
               PROVE  u[i] < u[j]
    BY DEF Sorted
  <2>1. CASE i \in DOMAIN q /\ j \in DOMAIN q
    BY <1>1, <1>2, <2>1 DEF Sorted
  <2>2. CASE i \in DOMAIN q /\ j \notin DOMAIN q
    <3>1. u[i] = q[i] /\ u[j] = r[j - Len(q)] /\ j - Len(q) \in DOMAIN r
      BY <1>1, <1>2, <2>2
    <3> QED
      BY <2>2, <3>1 DEF Below, Contents
  <2>3. CASE i \notin DOMAIN q
    <3>1. /\ u[i] = r[i - Len(q)] /\ i - Len(q) \in DOMAIN r
          /\ u[j] = r[j - Len(q)] /\ j - Len(q) \in DOMAIN r
          /\ i - Len(q) < j - Len(q)
      BY <1>1, <1>2, <2>3
    <3> QED
      BY <3>1 DEF Sorted
  <2> QED
    BY <2>1, <2>2, <2>3
<1> QED
  BY <1>1, <1>4, <1>5 DEF u

\* A set of items is finite.
LEMMA ItemsFinite ==
  ASSUME NEW S \in SUBSET Items
  PROVE  IsFiniteSet(S) /\ Cardinality(S) \in Nat
<1>1. IsFiniteSet(Items)
  BY ExporterAssumption, FS_Interval DEF Items
<1> QED
  BY <1>1, FS_Subset, FS_CardinalityType

\* The items of a sequence of items.
LEMMA ContentsType ==
  ASSUME NEW q \in Seq(Items)
  PROVE  Contents(q) \subseteq Items
BY DEF Contents

-----------------------------------------------------------------------------
(* What a step leaves alone *)

\* The part of the state that is about stream t.
Own(t) == <<ch[t], batch[t], file[t], flushed[t], entered[t], held[t], pending[t],
            dropped[t], worker[t]>>

\* A stream whose own state is unchanged stays good, whatever enters others.
LEMMA Elsewhere ==
  ASSUME IInv, NEW t \in Streams, Own(t)' = Own(t),
         nextItem' \in Nat, nextItem <= nextItem'
  PROVE  Good(t)'
<1>1. /\ ch'[t] = ch[t] /\ batch'[t] = batch[t] /\ file'[t] = file[t]
      /\ flushed'[t] = flushed[t] /\ entered'[t] = entered[t]
      /\ held'[t] = held[t] /\ pending'[t] = pending[t]
      /\ dropped'[t] = dropped[t] /\ worker'[t] = worker[t]
  BY DEF Own
<1>2. Good(t)
  BY DEF IInv
<1>3. Ordered(t)'
  BY <1>1, <1>2 DEF Good, Ordered
<1>4. Newest(t)'
  <2>1. Below(entered[t], {nextItem'})
    <3>1. entered[t] \subseteq Nat /\ nextItem \in Nat
      BY DEF IInv, TypeOK, Items
    <3> QED
      BY <1>2, <3>1 DEF Good, Newest, Below
  <2>2. held[t] # "free" => pending[t] < nextItem'
    BY <1>2 DEF Good, Newest, IInv, TypeOK, Items
  <2> QED
    BY <1>1, <1>2, <2>1, <2>2 DEF Good, Newest, Buffered
<1>5. Lost(t)' = Lost(t)
  BY <1>1 DEF Lost, Buffered
<1> QED
  BY <1>1, <1>2, <1>3, <1>4, <1>5 DEF Good

\* What IInv says of the types of one stream.
LEMMA OwnTypes ==
  ASSUME IInv, NEW s \in Streams
  PROVE  /\ ch[s] \in Seq(Items) /\ batch[s] \in Seq(Items) /\ file[s] \in Seq(Items)
         /\ flushed[s] \in SUBSET Items /\ entered[s] \in SUBSET Items
         /\ Items \subseteq Nat
         /\ nextItem \in Nat \ {0} /\ pending[s] \in Nat /\ dropped[s] \in Nat
         /\ Contents(ch[s]) \subseteq Items /\ Contents(batch[s]) \subseteq Items
         /\ Contents(file[s]) \subseteq Items
         /\ IsFiniteSet(Lost(s)) /\ Ordered(s) /\ Newest(s)
         /\ dropped[s] = Cardinality(Lost(s))
<1>1. /\ ch[s] \in Seq(Items) /\ batch[s] \in Seq(Items) /\ file[s] \in Seq(Items)
      /\ flushed[s] \in SUBSET Items /\ entered[s] \in SUBSET Items
      /\ pending[s] \in Nat /\ dropped[s] \in Nat /\ nextItem \in Nat \ {0}
      /\ Items \subseteq Nat
  BY ExporterAssumption DEF IInv, TypeOK, Items
<1>2. Lost(s) \in SUBSET Items
  BY <1>1 DEF Lost
<1> QED
  BY <1>1, <1>2, ContentsType, ItemsFinite DEF IInv, Good

-----------------------------------------------------------------------------
(* The producer *)

\* An item is dropped: it is lost, and it is counted.
LEMMA OneMoreLost ==
  ASSUME IInv, NEW s \in Streams, NEW x, x \notin Lost(s),
         Lost(s)' = Lost(s) \cup {x}, Count(s)
  PROVE  dropped'[s] = Cardinality(Lost(s)')
<1>1. dropped'[s] = dropped[s] + 1
  BY DEF Count, IInv, TypeOK
<1>2. Cardinality(Lost(s) \cup {x}) = Cardinality(Lost(s)) + 1
  BY OwnTypes, FS_AddElement
<1> QED
  BY <1>1, <1>2, OwnTypes

\* An enqueue into a channel that is closed, has room, or is full.
LEMMA EnqueueKeeps ==
  ASSUME IInv, NEW s \in Streams, Enqueue(s)
  PROVE  Good(s)'
<1> DEFINE n == nextItem
<1>1. n \in Items /\ nextItem' = n + 1
  BY OwnTypes, ExporterAssumption DEF Enqueue, Items
<1>2. n \notin entered[s] /\ Below(entered[s], {n}) /\ ~(n < n)
  BY OwnTypes DEF Newest, Below
<1>3. /\ batch' = batch /\ file' = file /\ flushed' = flushed /\ worker' = worker
  BY DEF Enqueue, workerVars
<1>4. \A S \in SUBSET Items : Below(S, {n}) => Below(S \cup {n}, {n + 1})
  BY OwnTypes, <1>1 DEF Below
<1>5. Buffered(s) \subseteq entered[s] /\ flushed[s] \subseteq entered[s]
        /\ Contents(file[s]) \subseteq entered[s]
  BY OwnTypes DEF Newest
<1>6. CASE /\ closed[s] /\ Count(s) /\ Enter(s, n)
           /\ UNCHANGED <<ch, held, pending>>
  <2>1. entered'[s] = entered[s] \cup {n}
    BY <1>6 DEF Enter, IInv, TypeOK
  <2>2. held[s] = "free"
    BY DEF Enqueue
  <2>3. Ordered(s)'
    BY <1>3, <1>6, OwnTypes DEF Ordered
  <2>4. Newest(s)'
    BY <1>1, <1>2, <1>3, <1>4, <1>5, <1>6, <2>1, <2>2, OwnTypes DEF Newest, Buffered
  <2>5. Lost(s)' = Lost(s) \cup {n} /\ n \notin Lost(s)
    BY <1>2, <1>3, <1>5, <1>6, <2>1 DEF Lost, Buffered
  <2> QED
    BY <1>6, <2>3, <2>4, <2>5, OneMoreLost DEF Good
<1>7. CASE /\ ~closed[s] /\ Len(ch[s]) < Capacity
           /\ ch' = [ch EXCEPT ![s] = Append(@, n)]
           /\ Enter(s, n)
           /\ UNCHANGED <<held, pending, dropped>>
  <2>1. entered'[s] = entered[s] \cup {n} /\ ch'[s] = Append(ch[s], n)
    BY <1>7 DEF Enter, IInv, TypeOK
  <2>2. held[s] = "free"
    BY DEF Enqueue
  <2>3. Below(Contents(ch[s]), {n}) /\ Below(Contents(batch[s]), {n})
          /\ Below(Contents(file[s]), {n}) /\ Below(flushed[s], {n})
    BY <1>2, <1>5 DEF Below, Buffered
  <2>4. Contents(ch'[s]) = Contents(ch[s]) \cup {n} /\ Sorted(ch'[s])
    <3>1. ch[s] \in Seq(Items) /\ Sorted(ch[s])
      BY OwnTypes DEF Ordered
    <3>2. /\ Contents(Append(ch[s], n)) = Contents(ch[s]) \cup {n}
          /\ Sorted(Append(ch[s], n))
      BY <1>1, <2>3, <3>1, AppendItem
    <3> QED
      BY <2>1, <3>2
  <2>5. Ordered(s)'
    BY <1>3, <2>3, <2>4, OwnTypes DEF Ordered, Below
  <2>6. Newest(s)'
    <3>1. Buffered(s)' = Buffered(s) \cup {n}
      BY <1>3, <2>4 DEF Buffered
    <3>2. Buffered(s)' \cup flushed'[s] \cup Contents(file'[s]) \subseteq entered'[s]
      BY <1>3, <1>5, <2>1, <3>1
    <3>3. Below(entered'[s], {nextItem'})
      BY <1>1, <1>2, <1>4, <2>1, OwnTypes
    <3>4. held'[s] = "free"
      BY <1>7, <2>2
    <3> QED
      BY <3>2, <3>3, <3>4 DEF Newest
  <2>7. Lost(s)' = Lost(s)
    BY <1>2, <1>3, <2>1, <2>4 DEF Lost, Buffered
  <2> QED
    BY <1>7, <2>5, <2>6, <2>7, OwnTypes DEF Good
<1>8. CASE /\ ~closed[s] /\ Len(ch[s]) >= Capacity
           /\ held' = [held EXCEPT ![s] = "drop"]
           /\ pending' = [pending EXCEPT ![s] = n]
           /\ UNCHANGED <<ch, dropped, entered>>
  <2>1. pending'[s] = n
    BY <1>8 DEF IInv, TypeOK
  <2>2. Ordered(s)'
    BY <1>3, <1>8, OwnTypes DEF Ordered
  <2>3. Newest(s)'
    <3>1. Below(entered[s], {n + 1}) /\ n < n + 1
      BY <1>2, OwnTypes DEF Below
    <3> QED
      BY <1>1, <1>2, <1>3, <1>5, <1>8, <2>1, <3>1 DEF Newest, Buffered
  <2>4. Lost(s)' = Lost(s)
    BY <1>3, <1>8 DEF Lost, Buffered
  <2> QED
    BY <1>8, <2>2, <2>3, <2>4, OwnTypes DEF Good
<1> QED
  BY <1>6, <1>7, <1>8 DEF Enqueue

\* The oldest item is dropped, or the worker has taken all meanwhile.
LEMMA DropOldestKeeps ==
  ASSUME IInv, NEW s \in Streams, DropOldest(s)
  PROVE  Good(s)'
<1>1. /\ batch' = batch /\ file' = file /\ flushed' = flushed /\ worker' = worker
      /\ pending' = pending /\ entered' = entered /\ nextItem' = nextItem
      /\ held[s] # "free"
  BY DEF DropOldest, workerVars
<1>2. CASE ch[s] = <<>>
  <2>1. UNCHANGED <<ch, dropped>>
    BY <1>2 DEF DropOldest
  <2>2. Lost(s)' = Lost(s)
    BY <1>1, <2>1 DEF Lost, Buffered
  <2> QED
    BY <1>1, <2>1, <2>2, OwnTypes DEF Good, Ordered, Newest, Buffered
<1>3. CASE ch[s] # <<>>
  <2> DEFINE x == Head(ch[s])
  <2>1. Count(s) /\ ch'[s] = Tail(ch[s])
    BY <1>3 DEF DropOldest, IInv, TypeOK
  <2>2. /\ Contents(ch[s]) = {x} \cup Contents(ch'[s])
        /\ Sorted(ch'[s]) /\ Below({x}, Contents(ch'[s]))
        /\ x \in Items
    BY <1>3, <2>1, OwnTypes, TailItems DEF Ordered
  <2>3. Ordered(s)'
    BY <1>1, <2>2, OwnTypes DEF Ordered, Below
  <2>4. Newest(s)'
    BY <1>1, <2>2, OwnTypes DEF Newest, Buffered
  <2>5. ~(x < x)
    BY <2>2, OwnTypes
  <2>6. x \notin Contents(ch'[s]) /\ x \notin Contents(batch[s]) /\ x \notin flushed[s]
          /\ x \in entered[s]
    BY <2>2, <2>5, OwnTypes DEF Ordered, Below, Newest, Buffered
  <2>7. Lost(s)' = Lost(s) \cup {x} /\ x \notin Lost(s)
    BY <1>1, <2>2, <2>6 DEF Lost, Buffered
  <2> QED
    BY <2>1, <2>3, <2>4, <2>7, OneMoreLost DEF Good
<1> QED
  BY <1>2, <1>3

\* The new item is sent behind the others, or dropped.
LEMMA SendNewKeeps ==
  ASSUME IInv, NEW s \in Streams, SendNew(s)
  PROVE  Good(s)'
<1> DEFINE p == pending[s]
<1>1. /\ batch' = batch /\ file' = file /\ flushed' = flushed /\ worker' = worker
      /\ nextItem' = nextItem /\ held[s] # "free" /\ held'[s] = "free"
      /\ entered'[s] = entered[s] \cup {p}
  BY DEF SendNew, workerVars, Enter, IInv, TypeOK
<1>2. p \in Items /\ p < nextItem /\ Below(entered[s], {p}) /\ ~(p < p)
  <2>1. Newest(s) /\ p \in Nat
    BY OwnTypes
  <2>2. p \in Items /\ p < nextItem /\ Below(entered[s], {p})
    BY <1>1, <2>1 DEF Newest
  <2> QED
    BY <2>1, <2>2
<1>3. p \notin entered[s]
  BY <1>2 DEF Below
<1>4. Buffered(s) \subseteq entered[s] /\ flushed[s] \subseteq entered[s]
        /\ Contents(file[s]) \subseteq entered[s]
  BY OwnTypes DEF Newest
<1>5. Below(entered[s] \cup {p}, {nextItem})
  BY <1>2, OwnTypes DEF Newest, Below
<1>6. CASE Len(ch[s]) < Capacity
  <2>1. ch'[s] = Append(ch[s], p) /\ UNCHANGED dropped
    BY <1>6 DEF SendNew, IInv, TypeOK
  <2>2. Below(Contents(ch[s]), {p}) /\ Below(Contents(batch[s]), {p})
          /\ Below(Contents(file[s]), {p}) /\ Below(flushed[s], {p})
    BY <1>2, <1>4 DEF Below, Buffered
  <2>3. Contents(ch'[s]) = Contents(ch[s]) \cup {p} /\ Sorted(ch'[s])
    <3>1. ch[s] \in Seq(Items) /\ Sorted(ch[s])
      BY OwnTypes DEF Ordered
    <3>2. /\ Contents(Append(ch[s], p)) = Contents(ch[s]) \cup {p}
          /\ Sorted(Append(ch[s], p))
      BY <1>2, <2>2, <3>1, AppendItem
    <3> QED
      BY <2>1, <3>2
  <2>4. Ordered(s)'
    BY <1>1, <2>2, <2>3, OwnTypes DEF Ordered, Below
  <2>5. Newest(s)'
    BY <1>1, <1>4, <1>5, <2>3 DEF Newest, Buffered
  <2>6. Lost(s)' = Lost(s)
    BY <1>1, <1>3, <2>3 DEF Lost, Buffered
  <2> QED
    BY <2>1, <2>4, <2>5, <2>6, OwnTypes DEF Good
<1>7. CASE ~(Len(ch[s]) < Capacity)
  <2>1. Count(s) /\ UNCHANGED ch
    BY <1>7 DEF SendNew
  <2>2. Ordered(s)'
    BY <1>1, <2>1, OwnTypes DEF Ordered
  <2>3. Newest(s)'
    BY <1>1, <1>4, <1>5, <2>1 DEF Newest, Buffered
  <2>4. Lost(s)' = Lost(s) \cup {p} /\ p \notin Lost(s)
    BY <1>1, <1>3, <1>4, <2>1 DEF Lost, Buffered
  <2> QED
    BY <2>1, <2>2, <2>3, <2>4, OneMoreLost DEF Good
<1> QED
  BY <1>6, <1>7

-----------------------------------------------------------------------------
(* The worker *)

\* The worker takes the oldest item of the channel behind its batch.
LEMMA ReceiveKeeps ==
  ASSUME IInv, NEW s \in Streams, Receive(s)
  PROVE  Good(s)'
<1> DEFINE x == Head(ch[s])
<1>1. /\ file' = file /\ flushed' = flushed /\ held' = held /\ pending' = pending
      /\ dropped' = dropped /\ entered' = entered /\ nextItem' = nextItem
      /\ worker[s] = "select" /\ ch[s] # <<>>
      /\ ch'[s] = Tail(ch[s]) /\ batch'[s] = Append(batch[s], x)
  BY DEF Receive, IInv, TypeOK
<1>2. /\ Contents(ch[s]) = {x} \cup Contents(Tail(ch[s]))
      /\ Sorted(Tail(ch[s])) /\ Below({x}, Contents(Tail(ch[s])))
      /\ x \in Items
  BY <1>1, OwnTypes, TailItems DEF Ordered
<1>3. Below(Contents(batch[s]), {x}) /\ Below(Contents(file[s]), {x})
        /\ Below(flushed[s], {x})
  BY <1>2, OwnTypes DEF Ordered, Below
<1>4. /\ Contents(Append(batch[s], x)) = Contents(batch[s]) \cup {x}
      /\ Sorted(Append(batch[s], x))
  <2>1. batch[s] \in Seq(Items) /\ Sorted(batch[s])
    BY OwnTypes DEF Ordered
  <2> QED
    BY <1>2, <1>3, <2>1, AppendItem
<1>5. Ordered(s)'
  <2>1. Ordered(s) /\ Below(Contents(file[s]), Contents(batch[s]))
    BY <1>1, OwnTypes DEF Ordered
  <2>2. Sorted(file'[s]) /\ Sorted(batch'[s]) /\ Sorted(ch'[s])
    BY <1>1, <1>2, <1>4, <2>1 DEF Ordered
  <2>3. Below(Contents(batch'[s]), Contents(ch'[s]))
    BY <1>1, <1>2, <1>4, <2>1 DEF Ordered, Below
  <2>4. Below(Contents(file'[s]), Contents(ch'[s])) /\ Below(flushed'[s], Contents(ch'[s]))
    BY <1>1, <1>2, <2>1 DEF Ordered, Below
  <2>5. Below(Contents(file'[s]), Contents(batch'[s])) /\ Below(flushed'[s], Contents(batch'[s]))
    BY <1>1, <1>3, <1>4, <2>1 DEF Ordered, Below
  <2> QED
    BY <2>2, <2>3, <2>4, <2>5 DEF Ordered
<1>6. Contents(ch'[s]) \cup Contents(batch'[s]) = Buffered(s)
  BY <1>1, <1>2, <1>4 DEF Buffered
<1>7. Newest(s)'
  BY <1>1, <1>6, OwnTypes DEF Newest, Buffered
<1>8. Lost(s)' = Lost(s)
  BY <1>1, <1>6 DEF Lost, Buffered
<1> QED
  BY <1>1, <1>5, <1>7, <1>8, OwnTypes DEF Good

\* A flush begins, or the worker returns, when nothing of the batch is in
\* the file yet.
LEMMA WorkerMoves ==
  ASSUME IInv, NEW s \in Streams, worker[s] = "select",
         UNCHANGED <<queueVars, batch, file, flushed>>
  PROVE  Good(s)'
<1>1. /\ ch' = ch /\ held' = held /\ pending' = pending /\ dropped' = dropped
      /\ entered' = entered /\ nextItem' = nextItem
  BY DEF queueVars
<1>2. Below(Contents(file[s]), Contents(batch[s]))
  BY OwnTypes DEF Ordered
<1>3. Lost(s)' = Lost(s)
  BY <1>1 DEF Lost, Buffered
<1> QED
  BY <1>1, <1>2, <1>3, OwnTypes DEF Good, Ordered, Newest, Buffered

\* A flush ends, and what it has added to the file was in the batch.
LEMMA FlushEnds ==
  ASSUME IInv, NEW s \in Streams, EndFlush(s), UNCHANGED queueVars,
         Sorted(file'[s]),
         Contents(file'[s]) \subseteq Contents(file[s]) \cup Contents(batch[s])
  PROVE  Good(s)'
<1>1. /\ ch' = ch /\ held' = held /\ pending' = pending /\ dropped' = dropped
      /\ entered' = entered /\ nextItem' = nextItem
  BY DEF queueVars
<1>2. batch'[s] = <<>> /\ flushed'[s] = flushed[s] \cup Contents(batch[s])
  BY DEF EndFlush, IInv, TypeOK
<1>3. Contents(batch'[s]) = {} /\ Sorted(batch'[s])
  BY <1>2 DEF Contents, Sorted
<1>4. Ordered(s)'
  BY <1>1, <1>2, <1>3, OwnTypes DEF Ordered, Below
<1>5. Newest(s)'
  BY <1>1, <1>2, <1>3, OwnTypes DEF Newest, Buffered
<1>6. Lost(s)' = Lost(s)
  BY <1>1, <1>2, <1>3 DEF Lost, Buffered
<1> QED
  BY <1>1, <1>4, <1>5, <1>6, OwnTypes DEF Good

\* The batch is written behind what the file holds, or the write fails.
LEMMA WriteFileKeeps ==
  ASSUME IInv, NEW s \in Streams, WriteFile(s)
  PROVE  Good(s)'
<1>1. worker[s] = "file" /\ UNCHANGED queueVars
  BY DEF WriteFile
<1>2. Below(Contents(file[s]), Contents(batch[s]))
  BY <1>1, OwnTypes DEF Ordered
<1>3. /\ Contents(file[s] \o batch[s]) = Contents(file[s]) \cup Contents(batch[s])
      /\ Sorted(file[s] \o batch[s])
  <2>1. file[s] \in Seq(Items) /\ batch[s] \in Seq(Items) /\ Sorted(file[s]) /\ Sorted(batch[s])
    BY OwnTypes DEF Ordered
  <2> QED
    BY <1>2, <2>1, ConcatItems
<1>4. file'[s] = file[s] \o batch[s] \/ file'[s] = file[s]
  BY DEF WriteFile, IInv, TypeOK
<1>5. /\ Contents(file'[s]) \subseteq Contents(file[s]) \cup Contents(batch[s])
      /\ Sorted(file'[s])
  BY <1>3, <1>4, OwnTypes DEF Ordered
<1>6. CASE Mode = "both"
  <2>1. worker'[s] = "http" /\ flushed' = flushed /\ batch' = batch
    BY <1>6 DEF WriteFile, Goto, IInv, TypeOK
  <2>2. /\ ch' = ch /\ held' = held /\ pending' = pending /\ dropped' = dropped
        /\ entered' = entered /\ nextItem' = nextItem
    BY <1>1 DEF queueVars
  <2>3. Below(Contents(file'[s]), Contents(ch[s]))
    BY <1>5, OwnTypes DEF Ordered, Below
  <2>4. Ordered(s)'
    BY <1>5, <2>1, <2>2, <2>3, OwnTypes DEF Ordered
  <2>5. Newest(s)'
    BY <1>5, <2>1, <2>2, OwnTypes DEF Newest, Buffered
  <2>6. Lost(s)' = Lost(s)
    BY <2>1, <2>2 DEF Lost, Buffered
  <2> QED
    BY <2>2, <2>4, <2>5, <2>6, OwnTypes DEF Good
<1>7. CASE Mode # "both"
  BY <1>1, <1>5, <1>7, FlushEnds DEF WriteFile
<1> QED
  BY <1>6, <1>7

\* An attempt over HTTP ends the flush, or is followed by another one.
LEMMA AttemptKeeps ==
  ASSUME IInv, NEW s \in Streams, Success(s) \/ Retryable(s) \/ Refused(s)
  PROVE  Good(s)'
<1>1. UNCHANGED queueVars /\ file' = file
  BY DEF Success, Retryable, Refused
<1>2. CASE EndFlush(s)
  BY <1>1, <1>2, FlushEnds, OwnTypes DEF Ordered
<1>3. CASE UNCHANGED <<worker, batch, flushed>>
  <2>1. Own(s)' = Own(s) /\ nextItem' = nextItem
    BY <1>1, <1>3 DEF queueVars, Own
  <2> QED
    BY <2>1, Elsewhere, OwnTypes
<1> QED
  BY <1>2, <1>3 DEF Success, Retryable, Refused

-----------------------------------------------------------------------------
(* Types *)

\* What the end of a flush leaves behind.
LEMMA EndFlushTypes ==
  ASSUME IInv, NEW s \in Streams, EndFlush(s)
  PROVE  /\ flushed' \in [Streams -> SUBSET Items]
         /\ batch' \in [Streams -> Seq(Items)]
         /\ attempt' \in [Streams -> 0..MaxRetries]
         /\ worker' \in [Streams -> {"select", "file", "http", "exited"}]
<1>1. Contents(batch[s]) \subseteq Items /\ <<>> \in Seq(Items) /\ 0 \in 0..MaxRetries
  BY OwnTypes, ExporterAssumption
<1> QED
  BY <1>1 DEF EndFlush, Goto, IInv, TypeOK

\* What the server has taken in is counted per item.
LEMMA TakenInTypes ==
  ASSUME IInv, NEW s \in Streams, TakenIn(s)
  PROVE  received' \in [Streams -> [Items -> Nat]]
<1>1. received[s] \in [Items -> Nat]
  BY DEF IInv, TypeOK
<1>2. [i \in Items |-> received[s][i] + IF i \in Contents(batch[s]) THEN 1 ELSE 0]
        \in [Items -> Nat]
  BY <1>1
<1> QED
  BY <1>2 DEF TakenIn, IInv, TypeOK

\* The producer's steps keep the types.
LEMMA ProducerTypes ==
  ASSUME IInv, NEW s \in Streams, Producer(s)
  PROVE  TypeOK'
<1> USE ExporterAssumption
<1>1. CASE Enqueue(s)
  <2>1. nextItem \in Items /\ nextItem + 1 \in 1..(MaxItems + 1) /\ nextItem \in 0..MaxItems
    BY <1>1 DEF Enqueue, IInv, TypeOK, Items
  <2>2. Append(ch[s], nextItem) \in Seq(Items) /\ dropped[s] + 1 \in Nat
          /\ entered[s] \cup {nextItem} \subseteq Items
    BY <2>1, OwnTypes
  <2>3. /\ nextItem' \in 1..(MaxItems + 1)
        /\ UNCHANGED <<closed, workerVars, shutdownVars>>
    BY <1>1, <2>1 DEF Enqueue
  <2>4. ch' \in [Streams -> Seq(Items)]
    <3>1. ch' = ch \/ ch' = [ch EXCEPT ![s] = Append(@, nextItem)]
      BY <1>1 DEF Enqueue
    <3> QED
      BY <2>2, <3>1 DEF IInv, TypeOK
  <2>5. held' \in [Streams -> {"free", "drop", "send"}] /\ pending' \in [Streams -> 0..MaxItems]
    <3>1. \/ held' = held /\ pending' = pending
          \/ /\ held' = [held EXCEPT ![s] = "drop"]
             /\ pending' = [pending EXCEPT ![s] = nextItem]
      BY <1>1 DEF Enqueue
    <3>2. /\ held \in [Streams -> {"free", "drop", "send"}]
          /\ pending \in [Streams -> 0..MaxItems]
      BY DEF IInv, TypeOK
    <3> QED
      BY <2>1, <3>1, <3>2
  <2>6. dropped' \in [Streams -> Nat] /\ entered' \in [Streams -> SUBSET Items]
    <3>1. /\ dropped' = dropped \/ Count(s)
          /\ entered' = entered \/ Enter(s, nextItem)
      BY <1>1 DEF Enqueue
    <3>2. dropped \in [Streams -> Nat] /\ entered \in [Streams -> SUBSET Items]
      BY DEF IInv, TypeOK
    <3>3. dropped' \in [Streams -> Nat]
      BY <2>2, <3>1, <3>2 DEF Count
    <3>4. entered' \in [Streams -> SUBSET Items]
      BY <2>2, <3>1, <3>2 DEF Enter
    <3> QED
      BY <3>3, <3>4
  <2> QED
    BY <2>3, <2>4, <2>5, <2>6 DEF workerVars, shutdownVars, IInv, TypeOK
<1>2. CASE DropOldest(s)
  <2>1. dropped[s] + 1 \in Nat /\ (ch[s] # <<>> => Tail(ch[s]) \in Seq(Items))
    BY OwnTypes, TailItems
  <2> QED
    BY <1>2, <2>1 DEF DropOldest, Count, workerVars, shutdownVars, IInv, TypeOK
<1>3. CASE SendNew(s)
  <2>1. pending[s] \in Items
    BY <1>3, OwnTypes DEF SendNew, Newest
  <2>2. Append(ch[s], pending[s]) \in Seq(Items) /\ dropped[s] + 1 \in Nat
          /\ entered[s] \cup {pending[s]} \subseteq Items /\ 0 \in 0..MaxItems
    BY <2>1, OwnTypes
  <2> QED
    BY <1>3, <2>2 DEF SendNew, Count, Enter, workerVars, shutdownVars, IInv, TypeOK
<1> QED
  BY <1>1, <1>2, <1>3 DEF Producer

\* The worker's steps keep the types.
LEMMA WorkerTypes ==
  ASSUME IInv, NEW s \in Streams, Worker(s)
  PROVE  TypeOK'
<1> USE ExporterAssumption
<1>1. CASE Receive(s)
  <2>1. Tail(ch[s]) \in Seq(Items) /\ Append(batch[s], Head(ch[s])) \in Seq(Items)
    BY <1>1, OwnTypes, TailItems DEF Receive
  <2> QED
    BY <1>1, <2>1 DEF Receive, Goto, FirstSink, shutdownVars, IInv, TypeOK
<1>2. CASE Tick(s)
  BY <1>2 DEF Tick, Goto, FirstSink, queueVars, shutdownVars, IInv, TypeOK
<1>3. CASE Drained(s) \/ ContextDone(s)
  BY <1>3 DEF Drained, ContextDone, Leave, Goto, FirstSink, queueVars, shutdownVars,
              IInv, TypeOK
<1>4. CASE WriteFile(s)
  <2>1. file[s] \o batch[s] \in Seq(Items)
    BY OwnTypes, ConcatItems
  <2>2. file' \in [Streams -> Seq(Items)]
    BY <1>4, <2>1 DEF WriteFile, IInv, TypeOK
  <2>3. CASE Mode = "both"
    BY <1>4, <2>2, <2>3 DEF WriteFile, Goto, queueVars, shutdownVars, IInv, TypeOK
  <2>4. CASE Mode # "both"
    BY <1>4, <2>2, <2>4, EndFlushTypes
       DEF WriteFile, queueVars, shutdownVars, IInv, TypeOK
  <2> QED
    BY <2>3, <2>4
<1>5. CASE Success(s)
  BY <1>5, EndFlushTypes, TakenInTypes DEF Success, queueVars, shutdownVars, IInv, TypeOK
<1>6. CASE Retryable(s)
  <2>1. received' \in [Streams -> [Items -> Nat]]
    BY <1>6, TakenInTypes DEF Retryable, IInv, TypeOK
  <2>2. CASE attempt[s] < MaxRetries
    <3>1. attempt[s] + 1 \in 0..MaxRetries
      BY <2>2 DEF IInv, TypeOK
    <3> QED
      BY <1>6, <2>1, <2>2, <3>1 DEF Retryable, queueVars, shutdownVars, IInv, TypeOK
  <2>3. CASE ~(attempt[s] < MaxRetries)
    BY <1>6, <2>1, <2>3, EndFlushTypes DEF Retryable, queueVars, shutdownVars, IInv, TypeOK
  <2> QED
    BY <2>2, <2>3
<1>7. CASE Refused(s)
  BY <1>7, EndFlushTypes DEF Refused, queueVars, shutdownVars, IInv, TypeOK
<1> QED
  BY <1>1, <1>2, <1>3, <1>4, <1>5, <1>6, <1>7 DEF Worker

-----------------------------------------------------------------------------
(* The invariant *)

\* At the start nothing has been enqueued.
LEMMA Start == Init => IInv
<1> SUFFICES ASSUME Init PROVE IInv
  OBVIOUS
<1> USE ExporterAssumption
<1>1. TypeOK
  <2>1. /\ <<>> \in Seq(Items) /\ 0 \in 0..MaxItems /\ 0 \in 0..MaxRetries
        /\ 1 \in 1..(MaxItems + 1) /\ [i \in Items |-> 0] \in [Items -> Nat]
    OBVIOUS
  <2> QED
    BY <2>1 DEF Init, TypeOK
<1>2. ASSUME NEW s \in Streams PROVE Good(s)
  <2>1. /\ ch[s] = <<>> /\ batch[s] = <<>> /\ file[s] = <<>>
        /\ flushed[s] = {} /\ entered[s] = {} /\ held[s] = "free" /\ dropped[s] = 0
    BY DEF Init
  <2>2. Contents(<<>>) = {} /\ Sorted(<<>>)
    BY DEF Contents, Sorted
  <2>3. Lost(s) = {}
    BY <2>1 DEF Lost
  <2> QED
    BY <2>1, <2>2, <2>3, FS_EmptySet DEF Good, Ordered, Newest, Buffered, Below
<1>3. Waited
  BY DEF Init, Waited
<1> QED
  BY <1>1, <1>2, <1>3 DEF IInv

\* A step of one stream leaves the state of the others alone.
LEMMA OthersUntouched ==
  ASSUME IInv, NEW s \in Streams, Producer(s) \/ Worker(s),
         NEW t \in Streams, t # s
  PROVE  Good(t)'
<1>1. nextItem' \in Nat /\ nextItem <= nextItem'
  <2>1. nextItem \in Nat
    BY OwnTypes
  <2>2. nextItem' = nextItem + 1 \/ nextItem' = nextItem
    BY DEF Producer, Enqueue, DropOldest, SendNew, Worker, Receive, Tick, Drained,
         ContextDone, Leave, WriteFile, Success, Retryable, Refused, queueVars
  <2> QED
    BY <2>1, <2>2
<1>2. Own(t)' = Own(t)
  <2> USE DEF IInv, TypeOK, Own
  <2>1. CASE Producer(s)
    BY <2>1 DEF Producer, Enqueue, DropOldest, SendNew, Count, Enter, workerVars
  <2>2. CASE Receive(s) \/ Tick(s) \/ Drained(s) \/ ContextDone(s)
    BY <2>2 DEF Receive, Tick, Drained, ContextDone, Leave, Goto, queueVars
  <2>3. CASE WriteFile(s)
    BY <2>3 DEF WriteFile, EndFlush, Goto, queueVars
  <2>4. CASE Success(s) \/ Retryable(s) \/ Refused(s)
    BY <2>4 DEF Success, Retryable, Refused, EndFlush, Goto, queueVars
  <2> QED
    BY <2>1, <2>2, <2>3, <2>4 DEF Worker
<1> QED
  BY <1>1, <1>2, Elsewhere

\* A step of a stream.
LEMMA StreamStep ==
  ASSUME IInv, NEW s \in Streams, Producer(s) \/ Worker(s)
  PROVE  IInv'
<1>1. TypeOK'
  BY ProducerTypes, WorkerTypes
<1>2. Good(s)'
  <2>1. CASE Producer(s)
    BY <2>1, EnqueueKeeps, DropOldestKeeps, SendNewKeeps DEF Producer
  <2>2. CASE Receive(s)
    BY <2>2, ReceiveKeeps
  <2>3. CASE Tick(s) \/ Drained(s) \/ ContextDone(s)
    BY <2>3, WorkerMoves DEF Tick, Drained, ContextDone, Leave
  <2>4. CASE WriteFile(s)
    BY <2>4, WriteFileKeeps
  <2>5. CASE Success(s) \/ Retryable(s) \/ Refused(s)
    BY <2>5, AttemptKeeps
  <2> QED
    BY <2>1, <2>2, <2>3, <2>4, <2>5 DEF Worker
<1>3. Waited'
  <2>1. shutdown' = shutdown
    BY DEF Producer, Enqueue, DropOldest, SendNew, Worker, Receive, Tick, Drained,
         ContextDone, Leave, WriteFile, Success, Retryable, Refused, shutdownVars
  <2>2. CASE Producer(s)
    BY <2>1, <2>2 DEF Producer, Enqueue, DropOldest, SendNew, workerVars, Waited, IInv
  <2>3. CASE Worker(s)
    <3>1. worker[s] # "exited"
      BY <2>3 DEF Worker, Receive, Tick, Drained, ContextDone, WriteFile, Success,
                  Retryable, Refused
    <3> QED
      BY <2>1, <3>1 DEF Waited, IInv
  <2> QED
    BY <2>2, <2>3
<1> QED
  BY <1>1, <1>2, <1>3, OthersUntouched DEF IInv

\* A step of Shutdown closes channels and waits, and moves no item.
LEMMA ShutdownStep ==
  ASSUME IInv, Shutdown
  PROVE  IInv'
<1>1. /\ UNCHANGED <<ch, batch, file, flushed, entered, held, pending, dropped, worker,
                     nextItem, received, attempt, leaving>>
      /\ TypeOK'
  BY DEF Shutdown, CloseQueue, Cancel, ShutdownReturns, ShutdownTimesOut, queueVars,
         workerVars, IInv, TypeOK
<1>2. ASSUME NEW t \in Streams PROVE Good(t)'
  <2>1. Own(t)' = Own(t)
    BY <1>1 DEF Own
  <2> QED
    BY <1>1, <2>1, Elsewhere, OwnTypes
<1>3. Waited'
  BY <1>1 DEF Shutdown, CloseQueue, Cancel, ShutdownReturns, ShutdownTimesOut, Waited,
              IInv
<1> QED
  BY <1>1, <1>2, <1>3 DEF IInv

\* IInv is an invariant of the exporter.
THEOREM Inductive == Spec => []IInv
<1>1. IInv /\ [Next]_vars => IInv'
  <2> SUFFICES ASSUME IInv, [Next]_vars PROVE IInv'
    OBVIOUS
  <2>1. CASE UNCHANGED vars
    BY <2>1 DEF vars, queueVars, workerVars, shutdownVars, IInv, TypeOK, Good, Ordered,
                Newest, Lost, Buffered, Waited
  <2>2. CASE Next
    BY <2>2, StreamStep, ShutdownStep DEF Next
  <2> QED
    BY <2>1, <2>2
<1> QED
  BY Start, <1>1, PTL DEF Spec

\* Every variable of the exporter keeps its type; in particular no flush
\* makes more attempts than MaxRetries allows.
THEOREM TypeCorrect == Spec => []TypeOK
<1>1. IInv => TypeOK
  BY DEF IInv
<1> QED
  BY Inductive, <1>1, PTL

\* Whatever is dropped, retried or cut short, the items of a stream reach
\* its file in the order of their Enqueue, and none twice.
THEOREM InOrder == Spec => []ExportedInOrder
<1>1. IInv => ExportedInOrder
  BY DEF IInv, Good, Ordered, Sorted, ExportedInOrder
<1> QED
  BY Inductive, <1>1, PTL

\* droppedCount is the number of items that went in and are neither buffered
\* nor flushed, although the worker takes no lock.
THEOREM DropsCounted == Spec => []DropsAreCounted
<1>1. IInv => DropsAreCounted
  BY DEF IInv, Good, Lost, DropsAreCounted
<1> QED
  BY Inductive, <1>1, PTL

\* Once Shutdown has returned nil, nothing is written or sent any more.
THEOREM SilentAfterShutdown == Spec => NothingAfterShutdown
<1>1. IInv /\ [Next]_vars => [shutdown = "done" => UNCHANGED <<file, received>>]_vars
  <2> SUFFICES ASSUME IInv, Next, shutdown = "done"
               PROVE  UNCHANGED <<file, received>>
    BY DEF vars
  <2>1. \A s \in Streams : worker[s] = "exited"
    BY DEF IInv, Waited
  <2>2. ASSUME NEW s \in Streams PROVE ~Worker(s)
    BY <2>1 DEF Worker, Receive, Tick, Drained, ContextDone, WriteFile, Success,
                Retryable, Refused
  <2>3. CASE \E s \in Streams : Producer(s)
    BY <2>3 DEF Producer, Enqueue, DropOldest, SendNew, workerVars
  <2>4. CASE Shutdown
    BY <2>4 DEF Shutdown, CloseQueue, Cancel, ShutdownReturns, ShutdownTimesOut, workerVars
  <2> QED
    BY <2>2, <2>3, <2>4 DEF Next
<1> QED
  BY Inductive, <1>1, PTL DEF Spec, NothingAfterShutdown

=============================================================================
