---------------------------- MODULE DurableQueue ----------------------------
(***************************************************************************)
(* What internal/queue/queue.go promises of a durable queue: a bounded     *)
(* FIFO queue from which an item leaves only once it has been processed,   *)
(* so that every item is delivered at least once, in order, and neither a  *)
(* failed call nor a restart takes one away.                               *)
(***************************************************************************)
EXTENDS Naturals, Sequences

CONSTANTS Items, Capacity

VARIABLES queue,  \* the items held, oldest first
          done    \* the items processed

Prefix(n) == {queue[i] : i \in 1..n}

Init == queue = <<>> /\ done = {}

\* A new item is accepted while there is room.
Put(i) ==
  /\ i \notin Prefix(Len(queue)) \cup done
  /\ Len(queue) < Capacity
  /\ queue' = Append(queue, i)
  /\ UNCHANGED done

\* The consumer processes the oldest n items; they stay in the queue.
Process(n) ==
  /\ done' = done \cup Prefix(n)
  /\ UNCHANGED queue

\* It acknowledges the oldest n items, all of them processed.
Acknowledge(n) ==
  /\ Prefix(n) \subseteq done
  /\ queue' = SubSeq(queue, n + 1, Len(queue))
  /\ UNCHANGED done

Next ==
  \/ \E i \in Items : Put(i)
  \/ \E n \in 1..Len(queue) : Process(n) \/ Acknowledge(n)

Spec == Init /\ [][Next]_<<queue, done>>

=============================================================================
