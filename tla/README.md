# linker-agent: formal specification

TLA+ models of the linker agent (`src/`, Go), the TLC runs that check them and
the proofs that TLAPS checks. The agent runs at a customer's site. It matches
usage events to Stripe subscriptions and invoices, replaces identifiers by
synthetic ones, and exports the resulting edges. As a *server* it receives
Stripe webhooks, exports the events they announce, and obeys commands of a
control plane; as a *job* it matches one set of inputs and ends.

All references to lines are to files under `src/`.

## 1. The system

| Component | State it keeps | Operations | Hard behaviour |
|---|---|---|---|
| Durable queue, `internal/queue/badger_queue.go` | entries in BadgerDB under consecutive offsets; atomic `readOffset`, `writeOffset`, `droppedCount` in memory; `closed` | `Enqueue`, `dropOldest`, `DequeueBatch`, `Commit`, `MoveToDLQ`, `Close`, recovery of the offsets in `NewBadgerQueue` | no lock is taken: several goroutines interleave between atomic accesses and transactions; failed transactions; crash and restart between any two steps |
| Dead letter queue, `internal/queue/dlq.go` | entries of a second durable queue | `ListEntries`, `Reprocess`, `Purge`, `PurgeOlderThan` | an operator's call races with `MoveToDLQ`; several transactions per call, any of which may fail; copies written again after a crash |
| Exporter, `internal/exporter` | per stream a bounded channel, `droppedCount`, a worker's batch; a context | `Enqueue`, the worker's loop, `flush` to a file and over HTTP with retries, `Shutdown` | drop-oldest races with the worker's receive; the choice of a `select` with two ready branches; retries during shutdown |
| Webhook handler, `internal/ingest/stripewebhook/handler.go` | `seenEvents` under a lock, the job channel | `ServeHTTP`, `isDuplicate`, `processJobs`, `Shutdown` | redeliveries race; a full channel; a send on a closed channel |
| Webhook worker, `worker.go` | none | `Process` | partial failures of fetches |
| Webhook verification, `verify.go` | none | checks of a MAC, a timestamp, an address | pure |
| Server mode, `main.go` (`runWebhookServer`) | `handlerCtx`, the order of shutdown | start, signal goroutine, return of `main` | `ListenAndServe` returns before the shutdown sequence has run |
| Agent, `internal/agent`, and state file, `internal/state` | the privacy mode in memory and on disk | `New`, `SwitchMode`, `Stop`, `Manager.Save` | memory and disk must agree over failed writes and crashes |
| Command poller, `internal/polling` | none but the command in hand | `pollOnce`, `acknowledge`, the handlers | lost requests and answers; a command executed twice; restarts |
| Control server, `internal/control` | nonce cache under a lock, `shutdownInProgress` | `Handle`, `checkAndStore`, the command handlers | concurrent deliveries against a moving clock |
| Matchers and ensemble, `internal/matchers` | none | `Match` of three matchers, `Combine` | what counts once and what is summed, thresholds |
| Heartbeat sender, `internal/agent/heartbeat_sender.go` | the payload in hand | `Start`, `sendHeartbeat` | the mode it carries may be rolled back or replaced on the way; lost requests |
| Pipeline, `internal/pipeline` | statistics of a run | `Run` | an export that stops half-way |
| Job modes, `main.go` (`runMatcherPipeline`, `runBillingExportMode`), with the Stripe connector and `internal/crypto` | the lists of raw and of sanitized records | list, sanitize, export, seed usage, run | records that are skipped on the way, identifiers that are absent, errors at every stage |
| Memory queue, agent identity, webhook verification, configuration, command line tools | see section 7 | | |

How they interact. In server mode `main` starts the HTTP server, whose
goroutines call `ServeHTTP` and send on the job channel; `processJobs`
receives from it and gives edges to the exporter; the poller, under the same
`handlerCtx`, calls the agent's `SwitchMode` and `Stop`, and `Stop` cancels
`handlerCtx`. A signal starts a goroutine that shuts down the server, the
handler and the exporter, in that order, while `main` returns. The pipeline
calls the matchers, the ensemble, then the exporter; a job feeds it with what
Stripe lists. The heartbeat sender runs beside the poller, under the same
context, and reads the mode the poller's commands change. `MoveToDLQ` of one
durable queue enqueues in a second one, which an operator empties through
`DLQManager`. The durable queues and the control server are libraries: no code of `main.go` constructs them, so they
are modelled under all the calls their interfaces permit.

What makes each correct:

- durable queue: nothing accepted is lost, order is kept, no slot is written
  twice, the limits hold, every item is processed in the end;
- exporter: items leave in order and once, every drop is counted, workers
  exit, nothing is sent after `Shutdown`;
- dead letter queue: a poison item leaves its stream and is kept until a call
  that means it removes it, calls return, a full dead letter queue recovers;
- webhook agent: an event is processed at most once, and one that was
  answered with 200 is processed or accounted for, and a shutdown in time
  neither panics nor outruns more than one job;
- agent and poller: memory and disk agree on the mode, commands are answered
  in order and truthfully, one bad command does not block the others;
- heartbeats: they end up reporting the mode that is in force;
- control server: a command runs at most once, the shutdown flag is released;
- matchers and pipeline: an edge is accepted exactly when the inputs justify
  it, the best edges leave first, only synthetic identifiers leave, and the
  edges of a job point at the billing records it exports.

## 2. The modules

| Module | Models | Relation to others |
|---|---|---|
| `DurableQueue` | what `queue.go` promises: a bounded FIFO queue with at-least-once delivery | abstract specification |
| `BadgerQueue` | `badger_queue.go` | implements `DurableQueue` (one producer, `reject_new`) |
| `BadgerQueueProofs` | theorems about it | |
| `DeadLetters` | `MoveToDLQ`, `dlq.go`, and the durable queue below it | the stream's queue is a FIFO queue as in `DurableQueue`; the dead letter queue is down to its offsets |
| `DeadLettersProofs` | theorems about it | |
| `Exporter` | `exporter.go`, `queue.go`, sinks | |
| `ExporterProofs` | theorems about it | |
| `WebhookAgent` | `handler.go`, outcomes of `worker.go`, restart command, signal goroutine and return of `main` | composes them; the exporter appears as open or closed |
| `WebhookAgentProofs` | theorems about it | |
| `RemoteMode` | what the control plane may rely on when it switches the mode | abstract specification |
| `CommandPoller` | `poller.go`, its handlers, `agent.go`, `state.go` | composes them; implements `RemoteMode`; the control plane is external |
| `CommandPollerProofs` | theorems about it | |
| `Heartbeats` | `heartbeat_sender.go`, and that `main.go` starts it beside the poller | composes it with `CommandPoller` |
| `HeartbeatsProofs` | theorems about the composition | |
| `Control` | `control.go`, `handlers.go`, `server.go` | |
| `ControlProofs` | theorems about it | |
| `Matchers` | the three matchers and `Combine` as operators | used by `Pipeline` |
| `Pipeline` | `pipeline.go` | extends `Matchers` |
| `MatcherJob` | the job modes of `main.go`, `stripe.go`, `sanitize.go`, `to_lite.go`, the identifiers of `crypto` | composes them with `Pipeline` |
| `PipelineProofs` | theorems about the matchers, the pipeline and the job | |
| `MCBadgerQueue`, `MCControl` | symmetry for TLC | |
| `MCMatcherJob` | what subscriptions list, for TLC | gives values to the constants of `Pipeline` and `MatcherJob` |

`PROJECT.json` maps every definition to its lines.

**BadgerQueue.** A call of `Enqueue` is one step per atomic access or
transaction: `EnqueueBegin` makes the first load of the depth, `CheckCapacity`
(`CheckCount`, then `CheckBytes`) the others and the two tests, `Allocate` is
the atomic increment, `Write` the transaction, `WriteFail` its failure with the decrement that follows
whoever else has allocated since. `DropLoad`, `DropDelete` and `DropAdvance`
are `dropOldest`. The consumer's loop is `DequeueBegin`, `DequeueScan` (the
snapshot is taken before the offsets are read), `Process`, `CommitLoad`,
`CommitDelete`, `CommitStore`. `Close` and `CloseDB` are the two halves of
`Close`; `Crash` and `Restart` run the recovery, after a crash at any step or
after a close. A transaction that returned survives the death of the process.

**DeadLetters.** One goroutine consumes a stream and calls `MoveToDLQ` for a
poison item (`MoveBegin`, `MoveWrite`, `MoveCommit`: the capacity check and the
allocation, the transaction that writes the copy, the commit of the original,
whose failure is only logged). Another makes the calls of `DLQManager`:
`PurgeDequeue`, `ReprocessDequeue` and `OlderDequeue` are what each reads,
`OlderCommit` and `OlderEnd` the two loops of `PurgeOlderThan`, and every removal
goes through the load, the transaction and the store of `Commit` on the dead
letter queue. `Crash` loses both goroutines and recovers the offsets. Which
items are poison is fixed at the start. The age of an entry is the number of its
item: `FirstAttemptAt` is the time it was enqueued in its stream. Who consumes
a stream is not in the repository: `Arrive`, `ProcessItem` and `CommitBatch` are
the calls a consumer would make, and are marked external.

**Exporter.** An `enqueue` that finds the channel full is three steps under
the queue's mutex (`held`); the worker's receive takes no mutex and interleaves.
The worker's `select` is a choice among its ready branches. A flush writes the
file and then makes up to `MaxRetries` HTTP attempts, each of which may reach
the server with its answer lost. `Shutdown` closes the queues one at a time,
cancels the context and waits, or gives up waiting.

**WebhookAgent.** One process per HTTP request (`Check` is the fast path of
`isDuplicate` under the read lock, `Mark` the second check under the write
lock, `Send` the non-blocking send), `processJobs`, the goroutine that
`handler.Shutdown` starts to drain the channel, the signal goroutine and
`main`. A job that fails is not retried by anybody, so processing is one step
with either outcome.

**CommandPoller.** `pc` walks through the loop: wait, poll, execute, the three
steps of `Manager.Save` (truncate the temporary file, write it, rename it), and
the acknowledgement. The process may end at every step and is started again
with whatever the file then holds.

**Heartbeats.** `Build` reads the mode, `HeartbeatArrives` and `HeartbeatLost`
end the request; in between the poller may take any step. The sender and the
poller are both enabled.

**Control.** A delivery reads the clock twice: in `CheckStamp` and, under the
lock of the cache, in `CheckNonce`. `LoadFlag` and `StoreFlag` are separate
because the code separates them. `MaxStall` bounds the time between the two
readings (see the assumption in section 5).

**Matchers, Pipeline.** Confidences are exact: they count units of
1/(10·WindowSec), or tenths if there is no window; weights count tenths. The
code's indexes by customer and by SKU are the conditions under which `CustomersSub`,
`CustomersInv` and `Overlap` find an edge, and its loops are lists of lists. The code uses `float64`; its rounding is
not modelled. `Combine` is the set of accepted edges; `Precedes` is the
comparison the code sorts with. It leaves edges of equal confidence and equal
`From` in the order in which a Go map was iterated, and `EnqueueEdge` may take
any of them.

**MatcherJob.** A raw identifier is a sequence of at most one name, empty where
Stripe gives none; the synthetic one is the name itself: HMAC is a one-to-one
renaming, so sanitizing is modelled by what it leaves out and skips. The
listing ends the process on an error (`Fatal`); records that cannot be sanitized
are skipped. The customer of a record is a pointer, which the sanitizers
dereference: a nil one panics (`Panics`), and the process ends. (They
dereference the item list of a subscription too, which is always there in what
Stripe lists.) `Bill` gives the rest to the billing stream, which refuses
everything if it has no route or path. `JobSpec` also contains the behaviours
of `Pipeline` called by anybody else (mode `"direct"`): lists of any of the events
`UsageEvents`, and of the records `Subscriptions(i)` and `Invoices(i)` at place i, in which any
identifier may be one that is not synthetic, two records may have one identifier, and
what a subscription lists is taken from the constants `PriceLists` and `ProductLists`. What
the subscriptions of Stripe list is taken from `ItemLists`; `CreationTimes` are the times of
creation of all of them. Identifiers of different kinds (users, prices, products,
subscriptions, invoices) are different.

## 3. The runs

| Run | Bounds | What it shows |
|---|---|---|
| `badger_reject` | 1 producer, `reject_new`, `MaxEvents` 4, `MaxBytes` 1500 (the byte estimate then refuses a fourth entry before the count does), batches of 2, 4 items, 1 failed transaction, 2 restarts | through failed writes and commits, `Close`, crashes and restarts that renumber the offsets: no accepted item is lost, order, no slot is overwritten, every item is processed in the end, and the queue implements `DurableQueue` |
| `badger_multi` | 2 producers, both policies, limit 2, 4 items, 1 failure, 1 restart (1.6 million states up to symmetry) | how far concurrent producers exceed the limit (one entry per other producer), and that a restart brings back every entry on disk |
| `badger_loss` | 2 producers, both policies, limit 2, 4 items | **violation** of `LossIsCounted` |
| `dead_letters` | 3 items, any of them poison, limit 3, purges in batches of 2, 2 calls, 2 failed transactions, 1 crash (555 thousand states) | nothing vanishes, calls return unless a full batch of young entries is in front, a poison item does not block its stream unless the dead letter queue stays full |
| `exporter` | 1 stream, file and HTTP, capacity 2, batch 2, 1 retry, 4 items | drops are counted exactly, order, nothing after `Shutdown`, workers exit, small batches leave by the ticker |
| `exporter_shutdown` | as above, 2 items | **violation** of `ShutdownFlushes` |
| `webhook` | 2 concurrent requests, 3 events, 4 deliveries, a channel of 1 | at most once, every acknowledged event is accounted for and in the end processed; when the drain is done only the job in the hands of `processJobs` is open, and requests beyond the time limit; within the limit no send panics and at most that job outlives the exporter |
| `webhook_restart` | 1 request, 1 event | **violation** of `RestartEndsProcess` |
| `control` | 2 goroutines, 2 shutdown commands, 1 plain, 1 without handler, 3 deliveries, clock to 4, skew 1, TTL 2, stall 1 | no command runs twice, the flag is always released |
| `poller` (module `Heartbeats`) | every queue of 3 commands, 2 lost requests, 2 failed writes, 2 ends of the process, 1 lost heartbeat (1.2 million states) | memory and disk agree outside `SwitchMode`, `RemoteMode` is implemented; if no command is a restart, every command is answered and the heartbeats converge to the mode in force |
| `poller_restart` | 2 commands | **violation** of `AllAcknowledged` |
| `pipeline` (module `MCMatcherJob`) | inputs of up to 3 records, 2 of them subscriptions and invoices, valid or not, and every job on up to 3 listed records, of which up to 2 seed usage; lists with nothing, without a price or a product, with one product or price twice, and with an identifier that is not synthetic; default weights 1.0/0.5/0.8 and threshold 0.8 (5.1 million states) | the accepted edges are exactly those a declarative definition justifies, best first, only synthetic identifiers, the edges of a job point at its own billing records |

Why the bounds are enough. Each is the smallest at which the hazard it is for
can happen with one to spare: two producers are what every race of `Enqueue`
needs; four items with a limit of two or three fill the queue, drop, and refill
it; two restarts cover a restart of what a restart has renumbered; three
commands put one command before and one behind the one in question; in
`control` the clock runs past stamp + TTL, so nonces expire while their command
is repeated; three records are two usage events for one subscription or one
event for two billing records, which is what a wrong sum, a wrong maximum and a
wrong order need (three billing records without an event yield no edge). In `dead_letters` a purge of two out of three entries leaves a
full batch or a rest, and one crash with two failures puts a second copy of an
item behind a younger one. For one producer under `reject_new`, for the limit
and the recovery with any number of producers, for the dead letter queue, the exporter, the
webhook agent, the control server, the poller with its heartbeats, and the pipeline
with its jobs, the proofs of section 5 remove the bounds of the safety properties.

Every property has a mutant in `PROJECT.json`: a small plausible bug in one
definition that makes TLC refute the property under the run's own
configuration. The operators marked "Variant" in the modules are those bugs.
`CHECK_DEADLOCK FALSE` is set where the system really stops: after a shutdown
(`Exporter`, `WebhookAgent`, a cancelled poller), at the end of a pipeline or a
job, in `DeadLetters` when every item has been handled, and in `Control` at the
end of the bounded clock.

### Fairness

- `BadgerQueue`: weak fairness of the consumer's loop, of the second half of
  `Close` and of the restart. The consumer is a goroutine in a loop, and an
  orchestrator restarts the process. Producers, `Close` and failures need not
  happen.
- `Exporter`: weak fairness of each worker and of an `enqueue` that holds the
  mutex, since a runnable goroutine runs; strong fairness of `Shutdown` taking the mutex,
  since Go's mutexes do not starve a waiter; weak fairness of the cancel
  that follows.
- `WebhookAgent`: weak fairness per goroutine; deliveries, the signal and the
  restart command come from outside and need not happen.
- `DeadLetters`: weak fairness of the consumer and of a call of `DLQManager` that
  has begun, two goroutines that run. A consumer that stands before a full dead
  letter queue is not enabled; arrivals, calls, failures and crashes need not
  happen.
- `CommandPoller`: weak fairness of the poller and of the start of the process;
  `Heartbeats` adds weak fairness of the sender, whose ticker fires.
  Which outcome a step has is not fair, but losses, failures and ends are
  bounded, so that the request eventually gets through: the liveness claim is
  "if failures cease".
- `Control`, `Pipeline`, `MatcherJob`: safety only, none.

## 4. What the violations say

1. `badger_loss` (`badger_queue.go:239`). With two producers, `DequeueBatch`
   steps over an offset that one has allocated and not yet written;
   `Commit` of a later one deletes it once it is written and moves the read
   offset beyond it. `queue.go:2`: "ensures zero data loss"; `queue.go:94`:
   `DroppedCount` is the "Total items dropped when queue was full". With one
   producer under `reject_new` there is no such state, and this is proved. The
   same property fails with one producer under `drop_oldest`: `dropOldest`
   deletes the entry at the offset it loaded and then adds 1 to whatever
   `readOffset` has become (`badger_queue.go:364`); after a concurrent `Commit`
   it skips an entry nobody has read, and counts one drop.
2. `exporter_shutdown` (`exporter.go:337`). After `Shutdown` has cancelled the
   context a worker may leave through `ctx.Done()` with items in its channel,
   and `Shutdown` returns nil. The comment says it "flushes remaining queued events".
3. `webhook_restart` (`main.go:621`). The restart command cancels
   `handlerCtx` only. The HTTP server runs on, acknowledges webhooks and
   processes none. `README.md:848`: "Triggers shutdown (K8s/orchestrator
   restarts pod automatically)".
4. `poller_restart` (`poller.go:192`). The acknowledgement of a restart is sent
   with the context the restart has just cancelled and never leaves; the
   command is handed out again after every start.

Met while modelling, and not the subject of a run of their own:

**The shutdown of the webhook handler.** `handler.go:245` says that `Shutdown` "stops accepting
new jobs and waits for the worker to finish", and it does neither fully. It waits
for a goroutine it starts itself to drain the channel (line 252), not for `processJobs`,
which nobody tells to stop: with `late = {}` as an invariant, TLC finds in the configuration
of the run `webhook` that a request sends its event, `processJobs` takes it
(`Take`), the signal arrives, the channel is closed and found empty, `Shutdown` returns nil,
the exporter is closed, and then `FinishJob` exports to it what is dropped, all within the
time limit. And it stops new jobs by closing the channel under them: with `panicked = {}` as an
invariant, TLC finds a request that outlives the 10 seconds, for which `server.Shutdown` does not
wait any longer, and whose send then panics (line 180); its event stays marked as seen. `TimelyShutdown` is what remains true:
when the drain is done the channel is empty for good and the one job of `processJobs` and the requests
beyond the limit are all that is open, and within the limit no request panics. Nor does any of this
need to happen: `main` returns while the sequence runs (`main.go:751`, `MainReturns`), against
`README.md:223`, "Graceful shutdown with queue flush", and `PRODUCTION-INTEGRATION.md:187`, "Coordinated
shutdown of all components". The line above, "Control server: Remote command endpoint (if
enabled)", has no counterpart in `main.go`.

**Settings without effect.** `skuOverlapMin`, "Minimum ratio of matching SKUs required"
(`README.md:466`), is parsed, checked for its range (`matcher.go:128`) and
copied into the recipe, and `sku_overlap.go` never consults it: one common SKU is enough
(`Overlap`). `privacy.idMode: passthrough` only changes what is logged: `main.go:61-67` announces
"exporting raw platform IDs", while the sanitizers replace all identifiers in either mode
and nothing constructs the mappers of `mapper.go`. `OnlySyntheticLeaves` therefore
holds in passthrough mode too, against `README.md:1037`, "Raw platform IDs are preserved". As that mode may lack the salt
(`config.go:254`), a job may find every record impossible to sanitize, and then skips them all; the
models assume a salt.

**The order of the edges.** The comment on `ensemble.go:151` says "for deterministic output
order", but edges of equal confidence and `From` stay in the order in which a map was
iterated (line 152). `EnqueueEdge` may take any of them, and `BestFirst` permits it: which of
them an export that stops half-way leaves out is not determined.

**A depth that grows back.** `Commit` stores an offset computed from the `readOffset` it
loaded before its transaction (`badger_queue.go:239`); what a `dropOldest` meanwhile added is undone. The
offsets that come back have no entries, so that no item is lost, but until the next `Commit` the
depth is too high, and `Enqueue` drops more than it has to.

**Smaller ones.** Two shutdown commands of
the control server may overlap and the first to end clears the flag of the
other (`handlers.go:49`); `agent.New` and `config.go:239` accept different sets
of modes; `Combine` drops `Meta` (`ensemble.go:137`);
a subscription or an invoice without a customer panics (`sanitize.go:43`, `sanitize.go:117`) and ends the
job, where one whose customer has no identifier is skipped with a warning;
`isRetryableError` tests the concrete type of an error that has been wrapped, so
no Stripe error is ever retried (`worker.go:297`); `Manager.Save` holds a read lock,
so two concurrent saves would share one temporary file (`state.go:79`); the Stripe
client takes one token of its rate limiter per listing, however many pages the
iterator fetches (`stripe.go:202`); temporal proximity and SKU overlap together
pass the threshold without a common customer, so an edge may link the user of
one customer to the record of another (`JobLinks` states what remains true);
in a job the exporter's 500 slots drop the oldest edges of a larger result;
`Reprocess` removes an entry before its caller has enqueued the event again, so
a crash in between loses it (`dlq.go:136`).

## 5. What is proved

Every safety invariant and every action property of the passing runs is a theorem.

**BadgerQueueProofs** (under `SingleProducer` and `OnlyRejects`: one goroutine
calls `Enqueue`, the policy is `reject_new`; for any limits, batch size and
number of items, failures, crashes and restarts): `TypeCorrect`,
`NothingIsLost`, `FirstInFirstOut`, `NothingIsOverwritten`, `OneProducerFits`,
`Refinement`. `NoLoss` alone is not inductive: it does not say why a failed
write may decrement `writeOffset`, nor what `Commit` deletes. The invariant adds that the entries occupy the
offsets from the first to the end without a gap (`Dense`), that what the
consumer holds is a prefix of them and what it commits was processed
(`Consumer`), that nobody drops (`NoDrop`), and that offsets and items are in
the same order (`Ordered`). `OneProducerFits` needs what a call knows between its
checks and its write (`Room`): no other call allocates meanwhile, and the
consumer only makes more room. `Refinement` is `Spec => Durable!Spec` with the
entries, in the order of their offsets, as the queue: the transaction of
`Enqueue` is `Put`, the consumer's processing `Process`, the transaction of `Commit`
`Acknowledge`, everything else stutters, a restart included, since recovery
finds the offset of the first entry. Both assumptions are
needed: run `badger_loss` refutes what they would give without them.
Two theorems need neither assumption. `RecoveryIsComplete` (`RestartRecoversAll`):
with any number of producers and either policy, a restart brings back every entry, since
the offsets it computes enclose all keys. `DepthIsBounded` (`DepthBound`, for a
finite set of producers): until the first restart, under `reject_new`, the queue outgrows `MaxEvents` by at
most one entry per other producer. The difficulty is that a producer may have
loaded the offsets long ago, while others have allocated since and the
consumer has advanced. `Crowd` counts allocations above a limit v instead: a
producer is pending for v (`Pending`) if it may still allocate on the strength
of a load at or below v, and for every v from `readOffset` + `MaxEvents` - 1 on, the
offsets allocated above it and the producers pending for it are together no more than the
producers there are. A load above v
makes a producer no longer pending, an allocation turns one that is pending into
an offset, and the consumer only raises `readOffset` (`CrowdAllocates`, `CrowdShrinks`).
The bound is the case v = `readOffset` + `MaxEvents` - 1.

**DeadLettersProofs** (any limits, batches, numbers of items, calls, failures
and crashes): `LettersTyped`, `LettersKept`. `NothingVanishes` is not inductive:
it does not say why the `Commit` of an old entry, which deletes every entry
before it, cannot take the last copy of a younger item. Nor are the entries in
the order of their items, since a crash or a failed commit makes the consumer
write copies again. What holds instead is `AllSettled`: each item that left the
stream unprocessed and untaken has a copy behind which only items stand that are
not older; so a call that stops at an older entry never passes that copy. The
rest of the invariant is what each call has in hand: `Moving` (the offset being
written is the last one), `Read` (what was dequeued is what is in the queue from
the read offset on), `Committing` (the loaded offset is the current one).

**ExporterProofs** (any streams, capacity, batch size, retries and number of items):
`TypeCorrect`, `InOrder`, `DropsCounted`, `SilentAfterShutdown`. That the file is in order
is not inductive: the items still in the batch, in the channel and in the hands of
`Enqueue` must continue it. `Ordered` says that they do, each of the three behind the one before,
with one exception: while a flush is at HTTP its batch may be in the file
already. `Newest` says that the item an `enqueue` holds is newer than all that have entered.
The number of drops is kept beside them, as the size of what has entered and is neither
buffered nor flushed (`Lost`), through an `enqueue` that finds
the slot it freed taken and a worker that empties the channel under its hands. `Waited`: once
`Shutdown` has returned nil every worker has exited.

**WebhookAgentProofs** (any number of requests, events and deliveries, any depth
of the channel): `TypeCorrect`, `AtMostOnce`, `NothingAckedVanishes`,
`ShutdownInTime`. `ProcessedAtMostOnce` does not say why an event that is about
to be sent is not in the channel already: `Tokens` adds that each marked event
has exactly one token, among the requests that send it, the channel, the two
hands and the finished events, and that an unmarked one has none. `Sequence` says how far
the shutdown has come: once the drain is done the channel stays empty, so that by `Tokens` an
acknowledged event is processed, dropped, with `processJobs` or being sent; and while the
time limit has not passed, the channel is closed only when no request is in
flight and the exporter only when the drain is done, so that only
`processJobs` can have a job left.

**HeartbeatsProofs**: `AgentIsPoller` (`AgentSpec => Spec`: the sender changes no
variable of the poller), and by it `AgentModeIsPersistent` and `AgentRefinement`,
the theorems of `CommandPollerProofs` for the composed agent, which is what the run
`poller` checks.

**ControlProofs** (any number of goroutines, commands, deliveries, any
timestamps and clock): `TypeCorrect`, `NoReplay`, `FlagIsReleased`. The argument
for `NoReplay`: a command admitted once is in the cache or older than the TTL
(`Remembered`); a goroutine at the nonce check holds a command that is not
older than `MaxClockSkew` + `MaxStall` (`StillYoung`); so it finds the command
in the cache. It rests on `NonceCacheTTL >= MaxClockSkew + MaxStall`, in
`ControlAssumption`: with the documented 10 minutes and 5 minutes, a goroutine
may stall for 5 minutes between two lines. The code itself does not relate the
two settings.

**CommandPollerProofs** (any queue of commands, any number of losses, failures
and ends): `TypeCorrect`, `NoTraceOfFailure`, `Refinement`. The last is
`Spec => RM!Spec` with the mode of `RemoteMode` mapped to the mode a restart
would load: the rename is the step that switches, an acknowledgement that
arrives is the answer, everything else stutters. It needs that "success" for a
switch is only on its way while the mode is in the file (`AckIsTrue`), and what
the temporary file holds at each step of `Save` (`Switching`).

**PipelineProofs** (any number of events and records, any window, weights and
threshold; any lists of prices, products and items; any times; in a job, identifiers that are distinct
within a listing, in a direct call also repeated ones; different identifiers for different kinds): `PipelineTypes`, `OnlyJustifiedEdges`, `MoreCertainFirst`,
`SyntheticEdges`, `JobsLink`. The loops of the matchers and of the ensemble
are recursive functions over lists, and what they compute is proved by induction,
in a form that takes no operator as a parameter: a set of numbers that contains 0
and the successor of each of its members contains all (`SetInduction`; each use
names the set of the lengths for which its claim holds). Three arguments
build on it:

- What comes out of the loops: `FlattenElements` (the elements of a list of lists),
  by it `MatchElements` (an edge is found exactly for these events and records) and
  `WeightedScoreIsBest` (the score of a group is the sum over the matchers of
  the best weighted confidence in it, in whatever order and however often they come).
- What the inputs justify: `RawEdges` relates what the matchers find to
  `Confidences`, which knows no loop and no index; `PairScore` and `PairTimes`
  carry this over to the score and the time of a pair, and `CombineIsJustified`
  to the accepted set.
- What a run keeps: `Computed` (raw edges and accepted edges are those of
  the inputs) and `Exported` (what left is at least as certain as what is left, and
  none twice) are `PipelineInv`; `JobInv` adds that the lists hold well-formed
  records (`RecordsTyped`), that the inputs are the conversions of the sanitized lists and
  the events seeded from them, or the event of last resort (`FromStripe`), and that
  the billing stream has been given all of them (`Billed`). `JobInvariant` is its
  theorem, and every property follows from it.

`SyntheticEdges` rests on where the end of an edge comes from (`RawEdgeEnds`): the SKU of an
event is one only if some subscription lists it. `JobsLink` has two assumptions on the recipe.
`TemporalIsNotEnough` (0.6 · the weight of temporal proximity is below the threshold):
the event of last resort has a user and a price that no record has, and nothing
but its time can match; without the assumption its edges would be accepted.
`IdentityIsEnough` (the weight of the exact identifier reaches the threshold): a
subscription whose seed matches it only by customer is linked even so. The
documented recipe (`README.md:446`: 1.0, 0.5, 0.8 and threshold 0.8) satisfies both, and
is the one the run uses. The other four theorems hold for every recipe.

Only model-checked: all liveness (TLAPS has no backend for fairness and
ENABLED).

## 6. Plan

Done in this order: the durable queue with its abstract specification and
proofs; the exporter; the webhook agent; the control server with proofs; the
poller with its abstract specification and proofs; the matchers and the
pipeline; the dead letter queue with proofs; the heartbeats beside the poller
with proofs; the job modes around the pipeline; the proofs of the webhook agent and of
the exporter; the durable queue's refinement as a theorem; the limit of the durable queue
with several producers; the proofs of the matchers, the pipeline and the job modes.

What is left, the most important first:

1. The control server calling the agent: `Control` composed with
   `SwitchMode`, where two commands switch concurrently.
2. The retries inside the webhook worker, and an identifier's way from the
   worker to the exporter.

## 7. What is not modelled

- *Memory queue* (`memory_queue.go`): kept for backward compatibility; nothing but
  one test constructs it. Its `DequeueBatch` on a closed channel returns items
  without data, which a user of it would have to know.
- *`ListEntries`, `Count`, `GetStats` of the dead letter queue, `Metrics`*: only read.
- *Concurrent calls of `DLQManager`, and two streams that share one dead letter
  queue*: `DeadLetters` has one operator and one stream. With more, the dead
  letter queue has several producers, and what `badger_loss` shows of them applies.
- *Garbage collection of BadgerDB*: changes no entry.
- *Webhook verification*: pure; a request that fails it changes nothing.
- *Worker's fetches from Stripe*: one step that ends well or not.
- *The counters and the signature of a heartbeat*: nothing else depends on them.
- *Agent identity*: reads or creates one file before anything else runs. Any
  error of the read replaces the identity (`agentid.go:66`).
- *Identifier mapping*: the HMAC itself, and the mappers of
  `mapper.go`, which nothing constructs.
- *Stripe connector*: the sanitized listings, which no mode calls, and the rate
  limiter.
- *Configuration, models, command line tools*: parsing, defaults, data types,
  single requests.
- *Deployment files, examples, prompts*: not program code.
