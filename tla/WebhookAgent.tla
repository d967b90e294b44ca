---------------------------- MODULE WebhookAgent ----------------------------
(***************************************************************************)
(* The webhook agent process: the HTTP handler and its job queue           *)
(* (internal/ingest/stripewebhook/handler.go), the worker's outcomes       *)
(* (worker.go), the restart command (internal/polling/handlers.go,         *)
(* internal/agent/agent.go), and the start and shutdown sequence of        *)
(* runWebhookServer in main.go, which composes them.                       *)
(*                                                                         *)
(* Goroutines: one per HTTP request; processJobs; the signal goroutine,    *)
(* whose handler.Shutdown starts one more that drains the jobs; main,      *)
(* which sits in ListenAndServe.  The exporter is open or closed here; the *)
(* module Exporter has what happens inside it.                             *)
(***************************************************************************)
EXTENDS Integers, Sequences, FiniteSets, Functions

CONSTANTS Requests,      \* concurrent HTTP requests
          Events,        \* Stripe event IDs
          QueueDepth,    \* HandlerOptions.QueueDepth
          NoEvent,       \* no job
          MaxDeliveries  \* bound: deliveries, redeliveries included

ASSUME WebhookAssumption ==
  /\ QueueDepth \in Nat \ {0}
  /\ NoEvent \notin Events
  /\ MaxDeliveries \in Nat

VARIABLES
  pc, event,    \* where each request stands, and its event
  seen,         \* the event IDs isDuplicate has marked
  jobs,         \* the channel
  jobsClosed,   \* handler.Shutdown has closed it
  proc, job,    \* processJobs: select, process or exited; the job in hand
  drain, djob,  \* the draining goroutine: off, range, process or done
  cancelled,    \* handlerCtx is cancelled
  signal,       \* the signal goroutine: none, server, handler, drain,
                \* exporter, done
  expired,      \* its 10s shutdownCtx has expired
  expOpen,      \* the exporter's queues are open
  alive,        \* main has not returned
  acked,        \* history: events some delivery of which got a 200
  refused,      \* history: events dropped because the queue was full
  panicked,     \* history: events whose send hit the closed channel
  runs,         \* history: how often each event's job was processed
  late,         \* history: events processed after the exporter was closed
  deliveries    \* history: what the bound counts

requestVars == <<pc, event, seen, acked, refused, panicked, deliveries>>
procVars == <<proc, job>>
drainVars == <<drain, djob>>
outcomeVars == <<runs, late>>
lifeVars == <<cancelled, signal, expired, expOpen, alive>>
vars == <<requestVars, jobs, jobsClosed, procVars, drainVars, outcomeVars,
          lifeVars>>

Init ==
  /\ pc = [r \in Requests |-> "idle"]
  /\ event = [r \in Requests |-> NoEvent]
  /\ seen = {} /\ jobs = <<>> /\ jobsClosed = FALSE
  /\ proc = "select" /\ job = NoEvent
  /\ drain = "off" /\ djob = NoEvent
  /\ cancelled = FALSE /\ signal = "none" /\ expired = FALSE
  /\ expOpen = TRUE /\ alive = TRUE
  /\ acked = {} /\ refused = {} /\ panicked = {}
  /\ runs = [e \in Events |-> 0]
  /\ late = {} /\ deliveries = 0

-----------------------------------------------------------------------------
(* ServeHTTP *)

\* The request ends, with a 200 unless the send panicked (net/http recovers
\* a panic and drops the connection).
Return(r) ==
  /\ pc' = [pc EXCEPT ![r] = "idle"]
  /\ event' = [event EXCEPT ![r] = NoEvent]

\* Variant for the mutation runs: the event is read after its reset.
AckAfterReset(r) == Return(r) /\ acked' = acked \cup {event'[r]}

Ack(r) == Return(r) /\ acked' = acked \cup {event[r]}

\* A request arrives and passes the checks of its method, address, body and
\* signature; one that does not changes nothing.  The server takes none
\* once server.Shutdown has begun.
Receive(r) ==
  /\ alive /\ signal = "none"
  /\ pc[r] = "idle" /\ deliveries < MaxDeliveries
  /\ \E e \in Events : event' = [event EXCEPT ![r] = e]
  /\ pc' = [pc EXCEPT ![r] = "check"]
  /\ deliveries' = deliveries + 1
  /\ UNCHANGED <<seen, acked, refused, panicked, jobs, jobsClosed, procVars,
                 drainVars, outcomeVars, lifeVars>>

\* isDuplicate under the read lock.
Check(r) ==
  /\ alive /\ pc[r] = "check"
  /\ IF event[r] \in seen
     THEN Ack(r)
     ELSE pc' = [pc EXCEPT ![r] = "mark"] /\ UNCHANGED <<event, acked>>
  /\ UNCHANGED <<seen, refused, panicked, deliveries, jobs, jobsClosed,
                 procVars, drainVars, outcomeVars, lifeVars>>

\* Variant: no second check under the write lock.
MarkUnchecked(r) ==
  /\ alive /\ pc[r] = "mark"
  /\ seen' = seen \cup {event[r]}
  /\ pc' = [pc EXCEPT ![r] = "send"]
  /\ UNCHANGED <<event, acked, refused, panicked, deliveries, jobs,
                 jobsClosed, procVars, drainVars, outcomeVars, lifeVars>>

\* isDuplicate under the write lock: the second check, and the mark.
Mark(r) ==
  /\ alive /\ pc[r] = "mark"
  /\ IF event[r] \in seen
     THEN Ack(r) /\ UNCHANGED seen
     ELSE /\ seen' = seen \cup {event[r]}
          /\ pc' = [pc EXCEPT ![r] = "send"]
          /\ UNCHANGED <<event, acked>>
  /\ UNCHANGED <<refused, panicked, deliveries, jobs, jobsClosed, procVars,
                 drainVars, outcomeVars, lifeVars>>

\* The non-blocking send.  A full queue drops the job: the event stays
\* marked and the answer is still 200.
Send(r) ==
  /\ alive /\ pc[r] = "send"
  /\ \/ /\ jobsClosed
        /\ Return(r)
        /\ panicked' = panicked \cup {event[r]}
        /\ UNCHANGED <<jobs, acked, refused>>
     \/ /\ ~jobsClosed /\ Len(jobs) < QueueDepth
        /\ jobs' = Append(jobs, event[r])
        /\ Ack(r)
        /\ UNCHANGED <<refused, panicked>>
     \/ /\ ~jobsClosed /\ Len(jobs) >= QueueDepth
        /\ refused' = refused \cup {event[r]}
        /\ Ack(r)
        /\ UNCHANGED <<jobs, panicked>>
  /\ UNCHANGED <<seen, deliveries, jobsClosed, procVars, drainVars,
                 outcomeVars, lifeVars>>

-----------------------------------------------------------------------------
(* processJobs, and the goroutine that drains the jobs during Shutdown *)

\* Worker.Process ends, well or not: an error is logged and the job is not
\* tried again.  What it exports to a closed exporter is dropped.
Finish(e) ==
  /\ runs' = [runs EXCEPT ![e] = @ + 1]
  /\ late' = IF expOpen THEN late ELSE late \cup {e}

\* Variant: the context is looked at after the receive.
TakeThenStop ==
  /\ alive /\ proc = "select" /\ jobs # <<>>
  /\ proc' = IF cancelled THEN "exited" ELSE "process"
  /\ job' = IF cancelled THEN NoEvent ELSE Head(jobs)
  /\ jobs' = Tail(jobs)
  /\ UNCHANGED <<requestVars, jobsClosed, drainVars, outcomeVars, lifeVars>>

\* Receiving from the closed and drained channel yields a zero job, whose
\* type is not supported: that changes nothing.
Take ==
  /\ alive /\ proc = "select" /\ jobs # <<>>
  /\ proc' = "process" /\ job' = Head(jobs) /\ jobs' = Tail(jobs)
  /\ UNCHANGED <<requestVars, jobsClosed, drainVars, outcomeVars, lifeVars>>

\* Variant: an error ends the loop.
FinishJobAndStop ==
  /\ alive /\ proc = "process"
  /\ Finish(job)
  /\ proc' = "exited" /\ job' = NoEvent
  /\ UNCHANGED <<requestVars, jobs, jobsClosed, drainVars, lifeVars>>

FinishJob ==
  /\ alive /\ proc = "process"
  /\ Finish(job)
  /\ proc' = "select" /\ job' = NoEvent
  /\ UNCHANGED <<requestVars, jobs, jobsClosed, drainVars, lifeVars>>

ContextDone ==
  /\ alive /\ proc = "select" /\ cancelled
  /\ proc' = "exited"
  /\ UNCHANGED <<requestVars, jobs, jobsClosed, job, drainVars, outcomeVars,
                 lifeVars>>

DrainTake ==
  /\ alive /\ drain = "range" /\ jobs # <<>>
  /\ drain' = "process" /\ djob' = Head(jobs) /\ jobs' = Tail(jobs)
  /\ UNCHANGED <<requestVars, jobsClosed, procVars, outcomeVars, lifeVars>>

DrainFinish ==
  /\ alive /\ drain = "process"
  /\ Finish(djob)
  /\ drain' = "range" /\ djob' = NoEvent
  /\ UNCHANGED <<requestVars, jobs, jobsClosed, procVars, lifeVars>>

DrainEnd ==
  /\ alive /\ drain = "range" /\ jobs = <<>>
  /\ drain' = "done"
  /\ UNCHANGED <<requestVars, jobs, jobsClosed, procVars, djob, outcomeVars,
                 lifeVars>>

-----------------------------------------------------------------------------
(* The restart command, the signal goroutine, and main *)

\* Agent.Restart calls the registered shutdown function: handlerCancel.
RestartCommand ==
  /\ alive /\ ~cancelled
  /\ cancelled' = TRUE
  /\ UNCHANGED <<requestVars, jobs, jobsClosed, procVars, drainVars,
                 outcomeVars, signal, expired, expOpen, alive>>

\* SIGTERM: server.Shutdown begins, with 10s for the whole sequence.
SigTerm ==
  /\ alive /\ signal = "none"
  /\ signal' = "server"
  /\ UNCHANGED <<requestVars, jobs, jobsClosed, procVars, drainVars,
                 outcomeVars, cancelled, expired, expOpen, alive>>

Expire ==
  /\ alive /\ signal \notin {"none", "done"} /\ ~expired
  /\ expired' = TRUE
  /\ UNCHANGED <<requestVars, jobs, jobsClosed, procVars, drainVars,
                 outcomeVars, cancelled, signal, expOpen, alive>>

\* Variant: server.Close, which does not wait for the requests.
ServerClosed ==
  /\ alive /\ signal = "server"
  /\ signal' = "handler"
  /\ UNCHANGED <<requestVars, jobs, jobsClosed, procVars, drainVars,
                 outcomeVars, cancelled, expired, expOpen, alive>>

\* server.Shutdown returns when no request is in flight, or too late.
ServerStopped ==
  /\ alive /\ signal = "server"
  /\ expired \/ \A r \in Requests : pc[r] = "idle"
  /\ signal' = "handler"
  /\ UNCHANGED <<requestVars, jobs, jobsClosed, procVars, drainVars,
                 outcomeVars, cancelled, expired, expOpen, alive>>

\* handler.Shutdown closes the jobs and starts to drain them.
CloseJobs ==
  /\ alive /\ signal = "handler"
  /\ jobsClosed' = TRUE
  /\ drain' = "range"
  /\ signal' = "drain"
  /\ UNCHANGED <<requestVars, jobs, procVars, djob, outcomeVars, cancelled,
                 expired, expOpen, alive>>

\* It returns when they are drained, or too late: processJobs is not waited
\* for.  exp.Shutdown closes the exporter's queues.
CloseExporter ==
  /\ alive /\ signal = "drain"
  /\ expired \/ drain = "done"
  /\ expOpen' = FALSE
  /\ signal' = "exporter"
  /\ UNCHANGED <<requestVars, jobs, jobsClosed, procVars, drainVars,
                 outcomeVars, cancelled, expired, alive>>

ExporterStopped ==
  /\ alive /\ signal = "exporter"
  /\ signal' = "done"
  /\ UNCHANGED <<requestVars, jobs, jobsClosed, procVars, drainVars,
                 outcomeVars, cancelled, expired, expOpen, alive>>

\* ListenAndServe returns as soon as server.Shutdown has begun; main then
\* cancels handlerCtx, returns, and the process ends.
MainReturns ==
  /\ alive /\ signal # "none"
  /\ alive' = FALSE /\ cancelled' = TRUE
  /\ UNCHANGED <<requestVars, jobs, jobsClosed, procVars, drainVars,
                 outcomeVars, signal, expired, expOpen>>

-----------------------------------------------------------------------------
Serve(r) == Receive(r) \/ Check(r) \/ Mark(r) \/ Send(r)
ProcessJobs == Take \/ FinishJob \/ ContextDone
Drain == DrainTake \/ DrainFinish \/ DrainEnd
Signal ==
  \/ SigTerm \/ Expire
  \/ ServerStopped \/ CloseJobs \/ CloseExporter \/ ExporterStopped

Next ==
  \/ \E r \in Requests : Serve(r)
  \/ ProcessJobs \/ Drain
  \/ RestartCommand \/ Signal \/ MainReturns

Spec == Init /\ [][Next]_vars

\* Every goroutine that can go on does; requests, the restart command and
\* the signal come from outside and need not.
Fairness ==
  /\ \A r \in Requests : WF_vars(Check(r) \/ Mark(r) \/ Send(r))
  /\ WF_vars(Take) /\ WF_vars(FinishJob) /\ WF_vars(ContextDone)
  /\ WF_vars(Drain)
  /\ WF_vars(ServerStopped \/ CloseJobs \/ CloseExporter \/ ExporterStopped)
  /\ WF_vars(MainReturns)

FairSpec == Spec /\ Fairness

-----------------------------------------------------------------------------
(* Properties *)

TypeOK ==
  /\ pc \in [Requests -> {"idle", "check", "mark", "send"}]
  /\ event \in [Requests -> Events \cup {NoEvent}]
  /\ seen \subseteq Events /\ jobs \in Seq(Events)
  /\ jobsClosed \in BOOLEAN
  /\ proc \in {"select", "process", "exited"}
  /\ job \in Events \cup {NoEvent}
  /\ drain \in {"off", "range", "process", "done"}
  /\ djob \in Events \cup {NoEvent}
  /\ cancelled \in BOOLEAN /\ expired \in BOOLEAN
  /\ signal \in {"none", "server", "handler", "drain", "exporter", "done"}
  /\ expOpen \in BOOLEAN /\ alive \in BOOLEAN
  /\ acked \subseteq Events /\ refused \subseteq Events
  /\ panicked \subseteq Events /\ late \subseteq Events
  /\ runs \in [Events -> Nat] /\ deliveries \in Nat

InQueue == Range(jobs)
InHand == {job, djob} \ {NoEvent}
Sending == {event[r] : r \in {q \in Requests : pc[q] = "send"}}
Finished == {e \in Events : runs[e] > 0}

\* However deliveries of one event race, and whichever goroutine takes its
\* job, the event is in at most one place, and is processed at most once.
ProcessedAtMostOnce ==
  /\ IsInjective(jobs)
  /\ InQueue \cap InHand = {}
  /\ job = djob => job = NoEvent
  /\ \A e \in Events : runs[e] <= 1
  /\ Finished \cap (InQueue \cup InHand) = {}

\* An event that was answered with 200 is on its way, was processed, or was
\* dropped for a full queue or by a panic; only then is it lost while the
\* process lives.
AckedIsAccountedFor ==
  acked \subseteq Sending \cup InQueue \cup InHand \cup Finished
                  \cup refused \cup panicked

\* What is left of handler.Shutdown "waits for the worker to finish": it
\* waits for the goroutine it starts itself.  When that is done the queue is
\* empty, for good, and every acknowledged event is processed or dropped,
\* but for the one processJobs may have in hand, which nobody waits for, and
\* for requests that outlive the time limit.  Within the limit there are no
\* such requests, none meets the closed channel, and the exporter is closed
\* before at most that one event is processed.
TimelyShutdown ==
  /\ drain = "done" =>
       /\ jobs = <<>>
       /\ acked \subseteq {job} \cup Finished \cup Sending \cup refused \cup panicked
  /\ ~expired =>
       /\ panicked = {}
       /\ expOpen \/ acked \subseteq {job} \cup Finished \cup refused
       /\ Cardinality(late) <= 1

\* Unless the agent is told to stop, an event answered with 200 is in the
\* end processed, or was dropped for a full queue or by a panic.
AckedIsProcessed ==
  \A e \in Events :
    e \in acked ~>
      (e \in Finished \cup refused \cup panicked \/ cancelled \/ ~alive)

\* README.md, the restart command: "Triggers shutdown (K8s/orchestrator
\* restarts pod automatically)".  The process would have to end.
RestartEndsProcess == cancelled ~> ~alive

=============================================================================
