------------------------------ MODULE Exporter ------------------------------
(***************************************************************************)
(* The exporter of internal/exporter: per stream a bounded channel that    *)
(* drops its oldest item when full (queue.go), and a worker that batches   *)
(* items and flushes them to a file and over HTTP (exporter.go); Shutdown  *)
(* closes the channels, cancels the context the workers select on, and     *)
(* waits for them.                                                         *)
(*                                                                         *)
(* enqueue and close hold the mutex of the queue, the worker's receive     *)
(* does not: an enqueue that finds the channel full is three steps, with   *)
(* receives in between.                                                    *)
(***************************************************************************)
EXTENDS Integers, Sequences, FiniteSets

CONSTANTS Streams,     \* export streams, one queue and one worker each
          Mode,        \* Export.Mode: "file", "http" or "both"
          Capacity,    \* QueueCapacity
          BatchSize,   \* HTTP.BatchSize
          MaxRetries,  \* HTTP.MaxRetries
          MaxItems     \* bound: calls of Enqueue

\* New replaces sizes that are not positive by its defaults.
ASSUME ExporterAssumption ==
  /\ Mode \in {"file", "http", "both"}
  /\ Capacity \in Nat \ {0}
  /\ BatchSize \in Nat \ {0}
  /\ MaxRetries \in Nat \ {0}
  /\ MaxItems \in Nat

VARIABLES
  ch,         \* the items in each channel
  closed,     \* close was called
  held,       \* where an enqueue that holds the mutex stands: free, drop, send
  pending,    \* the item of that enqueue
  dropped,    \* droppedCount
  worker,     \* where the worker stands: select, file, http, exited
  batch,      \* the items it has accumulated
  attempt,    \* the attempt of its HTTP delivery
  leaving,    \* it returns after the flush
  cancelled,  \* the exporter's context is cancelled
  shutdown,   \* running, closing, waiting, done, timeout
  file,       \* the items in each stream's file
  received,   \* how often the server has taken each item in
  flushed,    \* history: items of the flushes that ended
  entered,    \* history: items whose Enqueue has returned
  nextItem    \* history: the next item

queueVars == <<ch, closed, held, pending, dropped, entered, nextItem>>
workerVars == <<worker, batch, attempt, leaving, file, received, flushed>>
shutdownVars == <<cancelled, shutdown>>
vars == <<queueVars, workerVars, shutdownVars>>

Items == 1..MaxItems
Contents(q) == {q[i] : i \in DOMAIN q}

Init ==
  /\ ch = [s \in Streams |-> <<>>]
  /\ closed = [s \in Streams |-> FALSE]
  /\ held = [s \in Streams |-> "free"]
  /\ pending = [s \in Streams |-> 0]
  /\ dropped = [s \in Streams |-> 0]
  /\ worker = [s \in Streams |-> "select"]
  /\ batch = [s \in Streams |-> <<>>]
  /\ attempt = [s \in Streams |-> 0]
  /\ leaving = [s \in Streams |-> FALSE]
  /\ cancelled = FALSE
  /\ shutdown = "running"
  /\ file = [s \in Streams |-> <<>>]
  /\ received = [s \in Streams |-> [i \in Items |-> 0]]
  /\ flushed = [s \in Streams |-> {}]
  /\ entered = [s \in Streams |-> {}]
  /\ nextItem = 1

-----------------------------------------------------------------------------
(* queue.enqueue *)

Count(s) == dropped' = [dropped EXCEPT ![s] = @ + 1]
Enter(s, i) == entered' = [entered EXCEPT ![s] = @ \cup {i}]

\* Under the mutex: a closed queue drops the item, and returns no error; a
\* channel with room takes it; a full one keeps the mutex.
Enqueue(s) ==
  /\ held[s] = "free" /\ nextItem <= MaxItems
  /\ nextItem' = nextItem + 1
  /\ \/ /\ closed[s]
        /\ Count(s) /\ Enter(s, nextItem)
        /\ UNCHANGED <<ch, held, pending>>
     \/ /\ ~closed[s] /\ Len(ch[s]) < Capacity
        /\ ch' = [ch EXCEPT ![s] = Append(@, nextItem)]
        /\ Enter(s, nextItem)
        /\ UNCHANGED <<held, pending, dropped>>
     \/ /\ ~closed[s] /\ Len(ch[s]) >= Capacity
        /\ held' = [held EXCEPT ![s] = "drop"]
        /\ pending' = [pending EXCEPT ![s] = nextItem]
        /\ UNCHANGED <<ch, dropped, entered>>
  /\ UNCHANGED <<closed, workerVars, shutdownVars>>

\* Variant: the drop is not counted.
DropOldestUncounted(s) ==
  /\ held[s] = "drop"
  /\ held' = [held EXCEPT ![s] = "send"]
  /\ ch' = [ch EXCEPT ![s] = IF @ = <<>> THEN @ ELSE Tail(@)]
  /\ UNCHANGED <<closed, pending, dropped, entered, nextItem, workerVars,
                 shutdownVars>>

\* The oldest item goes, even if the worker has made room meanwhile; if it
\* has emptied the channel, none does.
DropOldest(s) ==
  /\ held[s] = "drop"
  /\ held' = [held EXCEPT ![s] = "send"]
  /\ IF ch[s] = <<>>
     THEN UNCHANGED <<ch, dropped>>
     ELSE ch' = [ch EXCEPT ![s] = Tail(@)] /\ Count(s)
  /\ UNCHANGED <<closed, pending, entered, nextItem, workerVars,
                 shutdownVars>>

\* The new item is sent, or dropped if there is still no room.
SendNew(s) ==
  /\ held[s] = "send"
  /\ held' = [held EXCEPT ![s] = "free"]
  /\ pending' = [pending EXCEPT ![s] = 0]
  /\ Enter(s, pending[s])
  /\ IF Len(ch[s]) < Capacity
     THEN /\ ch' = [ch EXCEPT ![s] = Append(@, pending[s])]
          /\ UNCHANGED dropped
     ELSE Count(s) /\ UNCHANGED ch
  /\ UNCHANGED <<closed, nextItem, workerVars, shutdownVars>>

-----------------------------------------------------------------------------
(* worker: one iteration of its select; any ready case may be taken *)

Goto(s, l) == worker' = [worker EXCEPT ![s] = l]
FirstSink == IF Mode = "http" THEN "http" ELSE "file"

Receive(s) ==
  /\ worker[s] = "select" /\ ch[s] # <<>>
  /\ ch' = [ch EXCEPT ![s] = Tail(@)]
  /\ batch' = [batch EXCEPT ![s] = Append(@, Head(ch[s]))]
  /\ Goto(s, IF Len(batch[s]) + 1 >= BatchSize THEN FirstSink ELSE "select")
  /\ UNCHANGED <<closed, held, pending, dropped, entered, nextItem, attempt,
                 leaving, file, received, flushed, shutdownVars>>

\* Variant: the ticker flushes full batches only.
TickFull(s) ==
  /\ worker[s] = "select" /\ Len(batch[s]) >= BatchSize
  /\ Goto(s, FirstSink)
  /\ UNCHANGED <<queueVars, batch, attempt, leaving, file, received, flushed,
                 shutdownVars>>

Tick(s) ==
  /\ worker[s] = "select" /\ batch[s] # <<>>
  /\ Goto(s, FirstSink)
  /\ UNCHANGED <<queueVars, batch, attempt, leaving, file, received, flushed,
                 shutdownVars>>

\* The last flush of a worker that returns.
Leave(s) ==
  /\ leaving' = [leaving EXCEPT ![s] = TRUE]
  /\ Goto(s, IF batch[s] = <<>> THEN "exited" ELSE FirstSink)
  /\ UNCHANGED <<queueVars, batch, attempt, file, received, flushed,
                 shutdownVars>>

\* The channel is closed and drained.
Drained(s) ==
  /\ worker[s] = "select" /\ closed[s] /\ ch[s] = <<>>
  /\ Leave(s)

\* The context is done, whatever the channel still holds.
ContextDone(s) ==
  /\ worker[s] = "select" /\ cancelled
  /\ Leave(s)

-----------------------------------------------------------------------------
(* flushStream *)

\* Variant: the batch is not reset.
EndFlushKeep(s) ==
  /\ flushed' = [flushed EXCEPT ![s] = @ \cup Contents(batch[s])]
  /\ attempt' = [attempt EXCEPT ![s] = 0]
  /\ Goto(s, IF leaving[s] THEN "exited" ELSE "select")
  /\ UNCHANGED batch

\* The flush ends: the batch was delivered, or is discarded.
EndFlush(s) ==
  /\ flushed' = [flushed EXCEPT ![s] = @ \cup Contents(batch[s])]
  /\ batch' = [batch EXCEPT ![s] = <<>>]
  /\ attempt' = [attempt EXCEPT ![s] = 0]
  /\ Goto(s, IF leaving[s] THEN "exited" ELSE "select")

\* The file sink; an error of it is ignored.
WriteFile(s) ==
  /\ worker[s] = "file"
  /\ \/ file' = [file EXCEPT ![s] = @ \o batch[s]]
     \/ UNCHANGED file
  /\ IF Mode = "both"
     THEN Goto(s, "http") /\ UNCHANGED <<flushed, batch, attempt>>
     ELSE EndFlush(s)
  /\ UNCHANGED <<queueVars, leaving, received, shutdownVars>>

\* The server takes the items in: a new Idempotency-Key each time, so it
\* cannot tell a retry from a new request.
TakenIn(s) ==
  received' = [received EXCEPT ![s] =
                 [i \in Items |-> @[i] + IF i \in Contents(batch[s]) THEN 1 ELSE 0]]

Success(s) ==
  /\ worker[s] = "http"
  /\ TakenIn(s)
  /\ EndFlush(s)
  /\ UNCHANGED <<queueVars, leaving, file, shutdownVars>>

\* Variants: one attempt too many; retries without a limit.
RetryableOnceMore(s) ==
  /\ worker[s] = "http"
  /\ IF attempt[s] <= MaxRetries
     THEN /\ attempt' = [attempt EXCEPT ![s] = @ + 1]
          /\ UNCHANGED <<worker, batch, flushed>>
     ELSE EndFlush(s)
  /\ UNCHANGED <<queueVars, leaving, file, received, shutdownVars>>
RetryableForEver(s) ==
  /\ worker[s] = "http"
  /\ attempt' = [attempt EXCEPT ![s] = 1 - @]
  /\ UNCHANGED <<queueVars, worker, batch, flushed, leaving, file, received,
                 shutdownVars>>

\* A network error or a status of 500 and up, before or after the server
\* took the items in: another attempt, or none left.
Retryable(s) ==
  /\ worker[s] = "http"
  /\ TakenIn(s) \/ UNCHANGED received
  /\ IF attempt[s] < MaxRetries
     THEN /\ attempt' = [attempt EXCEPT ![s] = @ + 1]
          /\ UNCHANGED <<worker, batch, flushed>>
     ELSE EndFlush(s)
  /\ UNCHANGED <<queueVars, leaving, file, shutdownVars>>

\* Any other status discards the batch at once.
Refused(s) ==
  /\ worker[s] = "http"
  /\ EndFlush(s)
  /\ UNCHANGED <<queueVars, leaving, file, received, shutdownVars>>

-----------------------------------------------------------------------------
(* Shutdown *)

\* queue.close, for each stream in any order; it waits for the mutex.
CloseQueue(s) ==
  /\ shutdown \in {"running", "closing"}
  /\ held[s] = "free" /\ ~closed[s]
  /\ closed' = [closed EXCEPT ![s] = TRUE]
  /\ shutdown' = "closing"
  /\ UNCHANGED <<ch, held, pending, dropped, entered, nextItem, workerVars,
                 cancelled>>

Cancel ==
  /\ shutdown = "closing" /\ \A s \in Streams : closed[s]
  /\ cancelled' = TRUE
  /\ shutdown' = "waiting"
  /\ UNCHANGED <<queueVars, workerVars>>

\* Variant: Shutdown does not wait for the workers.
ShutdownReturnsEarly ==
  /\ shutdown = "waiting"
  /\ shutdown' = "done"
  /\ UNCHANGED <<queueVars, workerVars, cancelled>>

ShutdownReturns ==
  /\ shutdown = "waiting"
  /\ \A s \in Streams : worker[s] = "exited"
  /\ shutdown' = "done"
  /\ UNCHANGED <<queueVars, workerVars, cancelled>>

ShutdownTimesOut ==
  /\ shutdown = "waiting"
  /\ shutdown' = "timeout"
  /\ UNCHANGED <<queueVars, workerVars, cancelled>>

-----------------------------------------------------------------------------
Producer(s) == Enqueue(s) \/ DropOldest(s) \/ SendNew(s)
Worker(s) ==
  \/ Receive(s) \/ Tick(s) \/ Drained(s) \/ ContextDone(s)
  \/ WriteFile(s) \/ Success(s) \/ Retryable(s) \/ Refused(s)
Shutdown ==
  \/ \E s \in Streams : CloseQueue(s)
  \/ Cancel \/ ShutdownReturns \/ ShutdownTimesOut

Next ==
  \/ \E s \in Streams : Producer(s) \/ Worker(s)
  \/ Shutdown

Spec == Init /\ [][Next]_vars

\* Each worker is a goroutine that keeps running, whose requests time out
\* after 30s; a producer that holds the mutex goes on; Shutdown, once
\* called, goes on.  Nothing obliges anyone to enqueue or to shut down.
Fairness ==
  /\ \A s \in Streams :
       /\ WF_vars(Worker(s))
       /\ WF_vars(DropOldest(s) \/ SendNew(s))
       /\ SF_vars(shutdown = "closing" /\ CloseQueue(s))
  /\ WF_vars(Cancel)

FairSpec == Spec /\ Fairness

-----------------------------------------------------------------------------
(* Properties *)

TypeOK ==
  /\ ch \in [Streams -> Seq(Items)]
  /\ closed \in [Streams -> BOOLEAN]
  /\ held \in [Streams -> {"free", "drop", "send"}]
  /\ pending \in [Streams -> 0..MaxItems]
  /\ dropped \in [Streams -> Nat]
  /\ worker \in [Streams -> {"select", "file", "http", "exited"}]
  /\ batch \in [Streams -> Seq(Items)]
  /\ attempt \in [Streams -> 0..MaxRetries]
  /\ leaving \in [Streams -> BOOLEAN]
  /\ cancelled \in BOOLEAN
  /\ shutdown \in {"running", "closing", "waiting", "done", "timeout"}
  /\ file \in [Streams -> Seq(Items)]
  /\ received \in [Streams -> [Items -> Nat]]
  /\ flushed \in [Streams -> SUBSET Items]
  /\ entered \in [Streams -> SUBSET Items]
  /\ nextItem \in 1..(MaxItems + 1)

\* The channel and the worker's batch.
Buffered(s) == Contents(ch[s]) \cup Contents(batch[s])

\* droppedCount tells exactly how many of the items whose Enqueue returned
\* are neither buffered nor flushed, although receives race with drops.
DropsAreCounted ==
  \A s \in Streams :
    dropped[s] = Cardinality(entered[s] \ (Buffered(s) \cup flushed[s]))

\* The items of a stream reach its file in the order of their Enqueue, and
\* none reaches it twice.
ExportedInOrder ==
  \A s \in Streams : \A i, j \in DOMAIN file[s] :
    i < j => file[s][i] < file[s][j]

\* Once Shutdown has returned nil, nothing is written or sent any more.
NothingAfterShutdown ==
  [][shutdown = "done" => UNCHANGED <<file, received>>]_vars

\* Once the context is cancelled every worker returns, retries included.
WorkersExit == \A s \in Streams : cancelled ~> worker[s] = "exited"

\* While the exporter runs, an item does not stay buffered for ever.
EventuallyLeaves ==
  \A s \in Streams, i \in Items :
    (i \in Buffered(s)) ~> (i \notin Buffered(s) \/ shutdown # "running")

\* Comment of Shutdown: "flushes remaining queued events".
ShutdownFlushes ==
  shutdown = "done" => \A s \in Streams : Buffered(s) = {}

=============================================================================
