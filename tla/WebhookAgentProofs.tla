------------------------- MODULE WebhookAgentProofs -------------------------
(***************************************************************************)
(* Proofs about the webhook agent, for any number of requests, events and  *)
(* deliveries and any depth of the job queue: an event is processed at     *)
(* most once, none that was acknowledged is lost unseen, and a shutdown    *)
(* in time harms no request.                                               *)
(***************************************************************************)
EXTENDS WebhookAgent, FiniteSetTheorems, TLAPS

\* Who works on an event has one.
Working ==
  /\ \A r \in Requests : pc[r] # "idle" => event[r] \in Events
  /\ proc = "process" <=> job # NoEvent
  /\ drain = "process" <=> djob # NoEvent

\* An event that is marked has exactly one token, unless it was dropped: it
\* is being sent, queued, in hand or finished.
Handled == InQueue \cup InHand \cup Finished
Tokens ==
  /\ Sending \cup Handled \subseteq seen
  /\ seen \subseteq Sending \cup Handled \cup refused \cup panicked
  /\ acked \subseteq seen
  /\ Sending \cap Handled = {}
  /\ \A q, r \in Requests :
       pc[q] = "send" /\ pc[r] = "send" /\ event[q] = event[r] => q = r

\* How far the shutdown sequence has come, as long as it is in time.
Sequence ==
  /\ expOpen <=> signal \notin {"exporter", "done"}
  /\ late # {} => ~expOpen
  /\ drain # "off" => signal \in {"drain", "exporter", "done"}
  /\ jobsClosed <=> drain # "off"
  /\ drain = "done" => jobs = <<>>
  /\ ~expired =>
       /\ signal \notin {"none", "server"} => \A r \in Requests : pc[r] = "idle"
       /\ signal \in {"exporter", "done"} => drain = "done"
       /\ panicked = {}
       /\ \/ late = {}
          \/ proc # "process" /\ \E e \in Events : late = {e}

\* The inductive invariant.
IInv == TypeOK /\ Working /\ Tokens /\ ProcessedAtMostOnce /\ Sequence

-----------------------------------------------------------------------------
(* Lemmas about the job queue *)

\* The type of a queue that gets another job.
LEMMA AppendType ==
  ASSUME NEW S, NEW q \in Seq(S), NEW e \in S
  PROVE  Append(q, e) \in Seq(S)
OBVIOUS

\* A job that is queued behind others.
LEMMA AppendJob ==
  ASSUME NEW S, NEW q \in Seq(S), NEW e \in S,
         IsInjective(q), e \notin Range(q)
  PROVE  /\ Append(q, e) \in Seq(S)
         /\ IsInjective(Append(q, e))
         /\ Range(Append(q, e)) = Range(q) \cup {e}
<1> DEFINE n == Len(q)
           s == Append(q, e)
<1>1. /\ s \in Seq(S) /\ Len(s) = n + 1 /\ n \in Nat
      /\ DOMAIN q = 1..n /\ DOMAIN s = 1..(n + 1)
      /\ \A i \in 1..n : s[i] = q[i]
      /\ s[n + 1] = e
  OBVIOUS
<1>2. IsInjective(s)
  <2> SUFFICES ASSUME NEW i \in DOMAIN s, NEW j \in DOMAIN s, s[i] = s[j]
               PROVE  i = j
    BY DEF IsInjective
  <2>1. \A k \in 1..n : q[k] \in Range(q)
    BY <1>1 DEF Range
  <2>2. i \in 1..n \/ i = n + 1
    BY <1>1
  <2>3. j \in 1..n \/ j = n + 1
    BY <1>1
  <2> HIDE DEF s, n
  <2> QED
    BY <1>1, <2>1, <2>2, <2>3 DEF IsInjective
<1>3. Range(s) = Range(q) \cup {e}
  <2>1. 1..(n + 1) = 1..n \cup {n + 1}
    BY <1>1
  <2> HIDE DEF s, n
  <2> QED
    BY <1>1, <2>1 DEF Range
<1> QED
  BY <1>1, <1>2, <1>3

\* The job at the front is taken.
LEMMA TakeJob ==
  ASSUME NEW S, NEW q \in Seq(S), q # <<>>, IsInjective(q)
  PROVE  /\ Head(q) \in S /\ Head(q) \in Range(q)
         /\ Tail(q) \in Seq(S)
         /\ IsInjective(Tail(q))
         /\ Range(Tail(q)) = Range(q) \ {Head(q)}
<1> DEFINE n == Len(q)
           s == Tail(q)
<1>1. /\ Head(q) = q[1] /\ Head(q) \in S
      /\ s \in Seq(S) /\ Len(s) = n - 1 /\ n \in Nat /\ n >= 1
      /\ DOMAIN q = 1..n /\ DOMAIN s = 1..(n - 1)
      /\ \A i \in 1..(n - 1) : s[i] = q[i + 1]
  OBVIOUS
<1> HIDE DEF s, n
<1>2. IsInjective(s)
  <2> SUFFICES ASSUME NEW i \in 1..(n - 1), NEW j \in 1..(n - 1), s[i] = s[j]
               PROVE  i = j
    BY <1>1 DEF IsInjective
  <2>1. i + 1 \in DOMAIN q /\ j + 1 \in DOMAIN q /\ q[i + 1] = q[j + 1]
    BY <1>1
  <2>2. i + 1 = j + 1
    BY <2>1 DEF IsInjective
  <2> QED
    BY <2>2
<1>3. Range(s) = Range(q) \ {Head(q)}
  <2>1. ASSUME NEW x \in Range(s) PROVE x \in Range(q) \ {Head(q)}
    <3>1. PICK i \in 1..(n - 1) : x = s[i]
      BY <1>1 DEF Range
    <3>2. i + 1 \in DOMAIN q /\ x = q[i + 1] /\ 1 \in DOMAIN q /\ i + 1 # 1
      BY <1>1, <3>1
    <3> QED
      BY <1>1, <3>2 DEF Range, IsInjective
  <2>2. ASSUME NEW x \in Range(q) \ {Head(q)} PROVE x \in Range(s)
    <3>1. PICK i \in 1..n : x = q[i]
      BY <1>1 DEF Range
    <3>2. i # 1
      BY <1>1, <3>1
    <3>3. i - 1 \in 1..(n - 1) /\ x = s[i - 1]
      BY <1>1, <3>1, <3>2
    <3> QED
      BY <1>1, <3>3 DEF Range
  <2> QED
    BY <2>1, <2>2
<1>4. Head(q) \in Range(q)
  BY <1>1 DEF Range
<1> QED
  BY <1>1, <1>2, <1>3, <1>4 DEF s

-----------------------------------------------------------------------------
(* Every step preserves the types *)

LEMMA TypeStep == IInv /\ [Next]_vars => TypeOK'
<1> SUFFICES ASSUME IInv, [Next]_vars PROVE TypeOK'
  OBVIOUS
<1> USE DEF IInv, TypeOK
<1>1. ASSUME NEW r \in Requests, Receive(r) PROVE TypeOK'
  BY <1>1 DEF Receive, procVars, drainVars, outcomeVars, lifeVars
<1>2. ASSUME NEW r \in Requests, Check(r) PROVE TypeOK'
  <2>1. event[r] \in Events
    BY <1>2 DEF Check, Working
  <2>2. UNCHANGED <<jobsClosed, proc, job, drain, djob, runs, late,
                    cancelled, signal, expired, expOpen, alive, deliveries>>
    BY <1>2 DEF Check, procVars, drainVars, outcomeVars, lifeVars
  <2>3. /\ pc' \in [Requests -> {"idle", "check", "mark", "send"}]
        /\ event' \in [Requests -> Events \cup {NoEvent}]
    BY <1>2 DEF Check, Ack, Return
  <2>4. /\ seen' \subseteq Events /\ acked' \subseteq Events /\ jobs' \in Seq(Events)
        /\ refused' \subseteq Events /\ panicked' \subseteq Events
    BY <1>2, <2>1 DEF Check, Ack, Return
  <2> QED
    BY <2>2, <2>3, <2>4
<1>3. ASSUME NEW r \in Requests, Mark(r) PROVE TypeOK'
  <2>1. event[r] \in Events
    BY <1>3 DEF Mark, Working
  <2>2. UNCHANGED <<jobsClosed, proc, job, drain, djob, runs, late,
                    cancelled, signal, expired, expOpen, alive, deliveries>>
    BY <1>3 DEF Mark, procVars, drainVars, outcomeVars, lifeVars
  <2>3. /\ pc' \in [Requests -> {"idle", "check", "mark", "send"}]
        /\ event' \in [Requests -> Events \cup {NoEvent}]
    BY <1>3 DEF Mark, Ack, Return
  <2>4. /\ seen' \subseteq Events /\ acked' \subseteq Events /\ jobs' \in Seq(Events)
        /\ refused' \subseteq Events /\ panicked' \subseteq Events
    BY <1>3, <2>1 DEF Mark, Ack, Return
  <2> QED
    BY <2>2, <2>3, <2>4
<1>4. ASSUME NEW r \in Requests, Send(r) PROVE TypeOK'
  <2>1. event[r] \in Events
    BY <1>4 DEF Send, Working
  <2>2. UNCHANGED <<jobsClosed, proc, job, drain, djob, runs, late,
                    cancelled, signal, expired, expOpen, alive, deliveries>>
    BY <1>4 DEF Send, procVars, drainVars, outcomeVars, lifeVars
  <2>3. /\ pc' \in [Requests -> {"idle", "check", "mark", "send"}]
        /\ event' \in [Requests -> Events \cup {NoEvent}]
    BY <1>4 DEF Send, Ack, Return
  <2>4. seen' \subseteq Events /\ acked' \subseteq Events
    BY <1>4, <2>1 DEF Send, Ack
  <2>5. refused' \subseteq Events /\ panicked' \subseteq Events
    BY <1>4, <2>1 DEF Send
  <2>6. jobs' = jobs \/ jobs' = Append(jobs, event[r])
    BY <1>4 DEF Send
  <2>7. jobs \in Seq(Events)
    OBVIOUS
  <2>8. Append(jobs, event[r]) \in Seq(Events)
    <3> HIDE DEF IInv, TypeOK
    <3> QED
      BY <2>1, <2>7, AppendType
  <2>9. jobs' \in Seq(Events)
    BY <2>6, <2>7, <2>8
  <2> QED
    BY <2>2, <2>3, <2>4, <2>5, <2>9
<1>5. CASE Take \/ DrainTake
  <2>1. jobs # <<>> /\ IsInjective(jobs)
    BY <1>5 DEF Take, DrainTake, ProcessedAtMostOnce
  <2>2. Head(jobs) \in Events /\ Tail(jobs) \in Seq(Events)
    BY <2>1, TakeJob
  <2>3. /\ jobs' \in Seq(Events)
        /\ proc' \in {"select", "process", "exited"} /\ job' \in Events \cup {NoEvent}
        /\ drain' \in {"off", "range", "process", "done"} /\ djob' \in Events \cup {NoEvent}
    BY <1>5, <2>2 DEF Take, DrainTake, procVars, drainVars
  <2>4. UNCHANGED <<requestVars, jobsClosed, outcomeVars, lifeVars>>
    BY <1>5 DEF Take, DrainTake
  <2> QED
    BY <2>3, <2>4 DEF requestVars, outcomeVars, lifeVars
<1>6. CASE FinishJob \/ DrainFinish
  <2>1. PICK e \in Events : Finish(e)
    BY <1>6 DEF FinishJob, DrainFinish, Working
  <2>2. runs' \in [Events -> Nat] /\ late' \subseteq Events
    BY <2>1 DEF Finish
  <2> QED
    BY <1>6, <2>2 DEF FinishJob, DrainFinish, requestVars, procVars, drainVars, lifeVars
<1>7. CASE ContextDone \/ DrainEnd
  BY <1>7 DEF ContextDone, DrainEnd, requestVars, procVars, drainVars, outcomeVars, lifeVars
<1>8. CASE RestartCommand \/ Signal \/ MainReturns
  <2>1. UNCHANGED <<requestVars, jobs, procVars, djob, outcomeVars>>
    BY <1>8 DEF RestartCommand, Signal, SigTerm, Expire, ServerStopped, CloseJobs,
      CloseExporter, ExporterStopped, MainReturns, drainVars
  <2>2. /\ UNCHANGED drain \/ drain' = "range"
        /\ signal' \in {signal, "server", "handler", "drain", "exporter", "done"}
    BY <1>8 DEF RestartCommand, Signal, SigTerm, Expire, ServerStopped, CloseJobs,
      CloseExporter, ExporterStopped, MainReturns, drainVars
  <2>3. /\ UNCHANGED jobsClosed \/ jobsClosed' = TRUE
        /\ UNCHANGED cancelled \/ cancelled' = TRUE
        /\ UNCHANGED expired \/ expired' = TRUE
        /\ UNCHANGED expOpen \/ expOpen' = FALSE
        /\ UNCHANGED alive \/ alive' = FALSE
    BY <1>8 DEF RestartCommand, Signal, SigTerm, Expire, ServerStopped, CloseJobs,
      CloseExporter, ExporterStopped, MainReturns
  <2> QED
    <3>1. /\ drain' \in {"off", "range", "process", "done"}
          /\ signal' \in {"none", "server", "handler", "drain", "exporter", "done"}
      BY <2>2
    <3>2. /\ jobsClosed' \in BOOLEAN /\ cancelled' \in BOOLEAN
          /\ expired' \in BOOLEAN /\ expOpen' \in BOOLEAN /\ alive' \in BOOLEAN
      BY <2>3
    <3> QED
      BY <2>1, <3>1, <3>2 DEF requestVars, procVars, outcomeVars
<1>9. CASE UNCHANGED vars
  BY <1>9 DEF vars, requestVars, procVars, drainVars, outcomeVars, lifeVars
<1>10. Next \/ UNCHANGED vars
  OBVIOUS
<1> HIDE DEF IInv, TypeOK
<1> QED
  BY <1>1, <1>2, <1>3, <1>4, <1>5, <1>6, <1>7, <1>8, <1>9, <1>10
    DEF Next, Serve, ProcessJobs, Drain

LEMMA WorkingStep == IInv /\ [Next]_vars => Working'
<1> SUFFICES ASSUME IInv, [Next]_vars PROVE Working'
  OBVIOUS
<1>1. ASSUME NEW r \in Requests, Serve(r) PROVE Working'
  <2>1. UNCHANGED <<proc, job, drain, djob>>
    BY <1>1 DEF Serve, Receive, Check, Mark, Send, procVars, drainVars
  <2>2. ASSUME NEW q \in Requests, pc'[q] # "idle" PROVE event'[q] \in Events
    <3>1. CASE Receive(r)
      BY <3>1, <2>2 DEF Receive, IInv, TypeOK, Working
    <3>2. CASE Check(r)
      BY <3>2, <2>2 DEF Check, Ack, Return, IInv, TypeOK, Working
    <3>3. CASE Mark(r)
      BY <3>3, <2>2 DEF Mark, Ack, Return, IInv, TypeOK, Working
    <3>4. CASE Send(r)
      BY <3>4, <2>2 DEF Send, Ack, Return, IInv, TypeOK, Working
    <3> QED
      BY <1>1, <3>1, <3>2, <3>3, <3>4 DEF Serve
  <2> QED
    BY <2>1, <2>2 DEF Working, IInv
<1>2. CASE Take \/ DrainTake
  <2>1. Head(jobs) \in Events
    BY <1>2, TakeJob DEF Take, DrainTake, IInv, TypeOK, ProcessedAtMostOnce
  <2>2. Head(jobs) # NoEvent
    BY <2>1, WebhookAssumption
  <2> QED
    BY <1>2, <2>2 DEF Take, DrainTake, requestVars, procVars, drainVars, Working, IInv
<1>3. CASE FinishJob \/ ContextDone \/ DrainFinish \/ DrainEnd
  BY <1>3 DEF FinishJob, ContextDone, DrainFinish, DrainEnd, requestVars, procVars,
    drainVars, Working, IInv
<1>4. CASE RestartCommand \/ Signal \/ MainReturns
  <2>1. UNCHANGED <<pc, event, proc, job, djob>>
    BY <1>4 DEF RestartCommand, Signal, SigTerm, Expire, ServerStopped, CloseJobs,
      CloseExporter, ExporterStopped, MainReturns, requestVars, procVars, drainVars
  <2>2. UNCHANGED drain \/ (drain = "off" /\ drain' = "range")
    <3>1. CASE CloseJobs
      BY <3>1 DEF CloseJobs, IInv, Sequence
    <3>2. CASE RestartCommand \/ MainReturns \/ SigTerm \/ Expire \/ ServerStopped
      BY <3>2 DEF RestartCommand, SigTerm, Expire, ServerStopped, MainReturns, drainVars
    <3>3. CASE CloseExporter \/ ExporterStopped
      BY <3>3 DEF CloseExporter, ExporterStopped, drainVars
    <3> QED
      BY <1>4, <3>1, <3>2, <3>3 DEF Signal
  <2> QED
    BY <2>1, <2>2 DEF Working, IInv
<1>5. CASE UNCHANGED vars
  BY <1>5 DEF vars, requestVars, procVars, drainVars, Working, IInv
<1> QED
  BY <1>1, <1>2, <1>3, <1>4, <1>5 DEF Next, ProcessJobs, Drain

-----------------------------------------------------------------------------
(* Every step moves tokens and neither makes nor loses one *)

\* A request that goes on without sending.
LEMMA NotSending ==
  ASSUME NEW r \in Requests, IInv, pc[r] # "send",
         NEW l \in {"idle", "check", "mark"}, pc' = [pc EXCEPT ![r] = l],
         \A q \in Requests \ {r} : event'[q] = event[q],
         UNCHANGED <<seen, jobs, job, djob, runs, refused, panicked>>,
         acked' \subseteq seen
  PROVE  Tokens' /\ ProcessedAtMostOnce'
<1>1. \A q \in Requests : pc'[q] = "send" <=> pc[q] = "send"
  BY DEF IInv, TypeOK
<1>2. \A q \in Requests : pc[q] = "send" => event'[q] = event[q]
  OBVIOUS
<1>3. Sending' = Sending
  BY <1>1, <1>2 DEF Sending
<1>4. UNCHANGED <<InQueue, InHand, Finished>> /\ ProcessedAtMostOnce'
  BY DEF InQueue, InHand, Finished, ProcessedAtMostOnce, IInv
<1> QED
  BY <1>1, <1>2, <1>3, <1>4 DEF Tokens, Handled, IInv

\* What isDuplicate marks gets its token.
LEMMA MarkTokens ==
  ASSUME NEW r \in Requests, IInv, Mark(r)
  PROVE  Tokens' /\ ProcessedAtMostOnce'
<1>1. CASE event[r] \in seen
  <2>1. acked' \subseteq seen
    BY <1>1 DEF Mark, Ack, IInv, Tokens
  <2> QED
    BY <1>1, <2>1, NotSending
      DEF Mark, Ack, Return, IInv, TypeOK, procVars, drainVars, outcomeVars
<1>2. CASE event[r] \notin seen
  <2>1. /\ pc' = [pc EXCEPT ![r] = "send"] /\ pc[r] # "send"
        /\ seen' = seen \cup {event[r]}
        /\ UNCHANGED <<event, acked, refused, panicked, jobs, job, djob, runs>>
    BY <1>2 DEF Mark, procVars, drainVars, outcomeVars
  <2>2. \A q \in Requests : pc'[q] = "send" <=> (q = r \/ pc[q] = "send")
    BY <2>1 DEF IInv, TypeOK
  <2>3. Sending' = Sending \cup {event[r]}
    BY <2>1, <2>2 DEF Sending
  <2>4. UNCHANGED <<InQueue, InHand, Finished>> /\ ProcessedAtMostOnce'
    BY <2>1 DEF InQueue, InHand, Finished, ProcessedAtMostOnce, IInv
  <2>5. \A q \in Requests : pc[q] = "send" => event[q] # event[r]
    BY <1>2 DEF Sending, Tokens, IInv
  <2> QED
    BY <1>2, <2>1, <2>2, <2>3, <2>4, <2>5 DEF Tokens, Handled, IInv
<1> QED
  BY <1>1, <1>2

\* The token of a request that sends goes to the queue, or the event is
\* dropped.
LEMMA SendTokens ==
  ASSUME NEW r \in Requests, IInv, Send(r)
  PROVE  Tokens' /\ ProcessedAtMostOnce'
<1>1. /\ pc[r] = "send" /\ pc' = [pc EXCEPT ![r] = "idle"]
      /\ \A q \in Requests \ {r} : event'[q] = event[q]
      /\ acked' \subseteq acked \cup {event[r]}
      /\ UNCHANGED <<seen, job, djob, runs>>
  BY DEF Send, Ack, Return, IInv, TypeOK, procVars, drainVars, outcomeVars
<1>2. /\ event[r] \in Events /\ event[r] \in Sending /\ event[r] \in seen
      /\ event[r] \notin Handled
  BY <1>1 DEF IInv, Working, Tokens, Sending
<1>3. \A q \in Requests : pc'[q] = "send" <=> (q # r /\ pc[q] = "send")
  BY <1>1 DEF IInv, TypeOK
<1>4. Sending' = Sending \ {event[r]}
  <2>1. \A q \in Requests : q # r /\ pc[q] = "send" => event[q] # event[r]
    BY <1>1 DEF IInv, Tokens
  <2> QED
    BY <1>1, <1>3, <2>1 DEF Sending
<1>5. UNCHANGED <<InHand, Finished>>
  BY <1>1 DEF InHand, Finished
<1>6. CASE jobs' = jobs
  <2>1. UNCHANGED InQueue /\ ProcessedAtMostOnce'
    BY <1>1, <1>5, <1>6 DEF InQueue, InHand, Finished, ProcessedAtMostOnce, IInv
  <2>2. CASE jobsClosed
    <3>1. UNCHANGED refused /\ panicked' = panicked \cup {event[r]}
      BY <2>2 DEF Send
    <3> QED
      BY <1>1, <1>2, <1>3, <1>4, <1>5, <2>1, <3>1 DEF Tokens, Handled, IInv
  <2>3. CASE ~jobsClosed /\ jobs' # Append(jobs, event[r])
    <3>1. UNCHANGED panicked /\ refused' = refused \cup {event[r]}
      BY <2>3 DEF Send
    <3> QED
      BY <1>1, <1>2, <1>3, <1>4, <1>5, <2>1, <3>1 DEF Tokens, Handled, IInv
  <2>4. jobs' # Append(jobs, event[r])
    <3>1. jobs \in Seq(Events)
      BY DEF IInv, TypeOK
    <3>2. Len(Append(jobs, event[r])) = Len(jobs) + 1 /\ Len(jobs) \in Nat
      BY <1>2, <3>1
    <3> QED
      BY <1>6, <3>2
  <2> QED
    BY <2>2, <2>3, <2>4
<1>7. CASE jobs' # jobs
  <2>1. jobs' = Append(jobs, event[r]) /\ UNCHANGED <<refused, panicked>>
    BY <1>7 DEF Send
  <2>2. /\ jobs \in Seq(Events) /\ IsInjective(jobs)
        /\ event[r] \notin Range(jobs)
    BY <1>2 DEF IInv, TypeOK, ProcessedAtMostOnce, Handled, InQueue
  <2>3. IsInjective(jobs') /\ InQueue' = InQueue \cup {event[r]}
    BY <1>2, <2>1, <2>2, AppendJob DEF InQueue
  <2>4. ProcessedAtMostOnce'
    BY <1>1, <1>2, <1>5, <2>3 DEF ProcessedAtMostOnce, Handled, IInv
  <2> QED
    BY <1>1, <1>2, <1>3, <1>4, <1>5, <2>1, <2>3, <2>4 DEF Tokens, Handled, IInv
<1> QED
  BY <1>6, <1>7

\* A job that is taken is in hand, and no longer queued.
LEMMA TakeTokens ==
  ASSUME IInv, Take \/ DrainTake
  PROVE  Tokens' /\ ProcessedAtMostOnce'
<1> DEFINE h == Head(jobs)
<1>1. /\ jobs # <<>> /\ jobs' = Tail(jobs)
      /\ UNCHANGED <<pc, event, seen, acked, refused, panicked, runs>>
  BY DEF Take, DrainTake, requestVars, outcomeVars
<1>2. \/ job = NoEvent /\ job' = h /\ djob' = djob
      \/ djob = NoEvent /\ djob' = h /\ job' = job
  <2>1. CASE Take
    BY <2>1 DEF Take, drainVars, IInv, Working
  <2>2. CASE DrainTake
    BY <2>2 DEF DrainTake, procVars, IInv, Working
  <2> QED
    BY <2>1, <2>2
<1>3. jobs \in Seq(Events) /\ IsInjective(jobs)
  BY DEF IInv, TypeOK, ProcessedAtMostOnce
<1>4. /\ h \in Events /\ h \in InQueue /\ h # NoEvent
      /\ IsInjective(jobs') /\ InQueue' = InQueue \ {h}
  BY <1>1, <1>3, TakeJob, WebhookAssumption DEF InQueue
<1> HIDE DEF h
<1>5. InHand' = InHand \cup {h}
  BY <1>2, <1>4 DEF InHand
<1>6. UNCHANGED <<Sending, Finished>>
  BY <1>1 DEF Sending, Finished
<1>7. Handled' = Handled
  BY <1>4, <1>5, <1>6 DEF Handled
<1>8. Tokens'
  BY <1>1, <1>6, <1>7 DEF Tokens, IInv
<1>9. h \notin InHand /\ h \notin Finished
  BY <1>4 DEF IInv, ProcessedAtMostOnce
<1>10. job' = djob' => job' = NoEvent
  BY <1>2, <1>4, <1>9 DEF InHand
<1> QED
  BY <1>1, <1>4, <1>5, <1>6, <1>8, <1>9, <1>10 DEF ProcessedAtMostOnce, IInv

\* A job that ends is finished, and no longer in hand.
LEMMA FinishTokens ==
  ASSUME IInv, FinishJob \/ DrainFinish
  PROVE  Tokens' /\ ProcessedAtMostOnce'
<1>1. UNCHANGED <<pc, event, seen, acked, refused, panicked, jobs>>
  BY DEF FinishJob, DrainFinish, requestVars
<1>2. PICK e \in Events :
        /\ runs' = [runs EXCEPT ![e] = @ + 1]
        /\ \/ job = e /\ job' = NoEvent /\ djob' = djob
           \/ djob = e /\ djob' = NoEvent /\ job' = job
  <2>1. CASE FinishJob
    <3>1. job \in Events
      BY <2>1 DEF FinishJob, IInv, TypeOK, Working
    <3> QED
      BY <2>1, <3>1 DEF FinishJob, Finish, drainVars
  <2>2. CASE DrainFinish
    <3>1. djob \in Events
      BY <2>2 DEF DrainFinish, IInv, TypeOK, Working
    <3> QED
      BY <2>2, <3>1 DEF DrainFinish, Finish, procVars
  <2> QED
    BY <2>1, <2>2
<1>3. e # NoEvent
  BY WebhookAssumption
<1>4. InHand' = InHand \ {e} /\ e \in InHand
  BY <1>2, <1>3 DEF InHand, IInv, ProcessedAtMostOnce
<1>5. runs[e] = 0
  BY <1>4 DEF IInv, TypeOK, ProcessedAtMostOnce, Finished
<1>6. Finished' = Finished \cup {e} /\ \A x \in Events : runs'[x] <= 1
  BY <1>2, <1>5 DEF Finished, IInv, TypeOK, ProcessedAtMostOnce
<1>7. UNCHANGED <<Sending, InQueue>>
  BY <1>1 DEF Sending, InQueue
<1>8. Handled' = Handled
  BY <1>4, <1>6, <1>7 DEF Handled
<1>9. Tokens'
  BY <1>1, <1>7, <1>8 DEF Tokens, IInv
<1>10. job' = djob' => job' = NoEvent
  BY <1>2
<1>11. e \notin InQueue
  BY <1>4 DEF IInv, ProcessedAtMostOnce
<1> QED
  BY <1>1, <1>4, <1>6, <1>7, <1>9, <1>10, <1>11 DEF ProcessedAtMostOnce, IInv

LEMMA TokenStep == IInv /\ [Next]_vars => Tokens' /\ ProcessedAtMostOnce'
<1> SUFFICES ASSUME IInv, [Next]_vars PROVE Tokens' /\ ProcessedAtMostOnce'
  OBVIOUS
<1>1. ASSUME NEW r \in Requests, Receive(r) \/ Check(r)
      PROVE  Tokens' /\ ProcessedAtMostOnce'
  <2>1. PICK l \in {"idle", "check", "mark"} : pc' = [pc EXCEPT ![r] = l]
    BY <1>1 DEF Receive, Check, Ack, Return
  <2>2. \A q \in Requests \ {r} : event'[q] = event[q]
    BY <1>1 DEF Receive, Check, Ack, Return, IInv, TypeOK
  <2>3. acked' \subseteq seen
    BY <1>1 DEF Receive, Check, Ack, IInv, Tokens
  <2>4. UNCHANGED <<seen, jobs, job, djob, runs, refused, panicked>> /\ pc[r] # "send"
    BY <1>1 DEF Receive, Check, procVars, drainVars, outcomeVars
  <2> QED
    BY <2>1, <2>2, <2>3, <2>4, NotSending
<1>2. CASE UNCHANGED <<requestVars, jobs, job, djob, runs>>
  <2>1. UNCHANGED <<pc, event, seen, acked, refused, panicked, jobs, job, djob, runs>>
    BY <1>2 DEF requestVars
  <2> QED
    BY <2>1 DEF Tokens, ProcessedAtMostOnce, Handled, Sending, InQueue, InHand,
      Finished, IInv
<1>3. ContextDone \/ DrainEnd \/ RestartCommand \/ Signal \/ MainReturns
        \/ UNCHANGED vars =>
        UNCHANGED <<requestVars, jobs, job, djob, runs>>
  BY DEF ContextDone, DrainEnd, RestartCommand, Signal, SigTerm, Expire, ServerStopped,
    CloseJobs, CloseExporter, ExporterStopped, MainReturns, vars, procVars, drainVars,
    outcomeVars
<1> QED
  BY <1>1, <1>2, <1>3, MarkTokens, SendTokens, TakeTokens, FinishTokens
    DEF Next, Serve, ProcessJobs, Drain

-----------------------------------------------------------------------------
(* The order of the shutdown *)

LEMMA SequenceStep == IInv /\ [Next]_vars => Sequence'
<1> SUFFICES ASSUME IInv, [Next]_vars PROVE Sequence'
  OBVIOUS
<1> USE DEF IInv, Sequence
<1>1. ASSUME NEW r \in Requests, Serve(r) PROVE Sequence'
  <2>1. UNCHANGED <<expOpen, late, drain, signal, jobsClosed, expired, proc>>
    BY <1>1 DEF Serve, Receive, Check, Mark, Send, procVars, drainVars, outcomeVars, lifeVars
  <2>2. CASE ~expired /\ signal \notin {"none", "server"}
    BY <1>1, <2>2 DEF Serve, Receive, Check, Mark, Send
  <2>3. CASE expired
    <3>1. drain = "done" => UNCHANGED jobs
      BY <1>1 DEF Serve, Receive, Check, Mark, Send
    <3> QED
      BY <2>1, <2>3, <3>1
  <2>4. CASE signal \in {"none", "server"}
    <3>1. drain = "off" /\ ~jobsClosed
      BY <2>4
    <3>2. UNCHANGED panicked
      BY <1>1, <3>1 DEF Serve, Receive, Check, Mark, Send
    <3> QED
      BY <2>1, <2>4, <3>1, <3>2
  <2> QED
    BY <2>2, <2>3, <2>4
<1>2. CASE Take \/ DrainTake
  <2>1. /\ UNCHANGED <<expOpen, late, signal, jobsClosed, expired, pc, panicked>>
        /\ jobs # <<>>
    BY <1>2 DEF Take, DrainTake, requestVars, outcomeVars, lifeVars
  <2>2. \/ UNCHANGED drain
        \/ drain = "range" /\ drain' = "process" /\ UNCHANGED proc
    BY <1>2 DEF Take, DrainTake, drainVars, procVars
  <2>3. CASE expired
    BY <2>1, <2>2, <2>3
  <2>4. CASE ~expired
    <3>1. drain # "done" /\ drain' # "done"
      BY <2>1, <2>2, <2>4
    <3>2. signal \notin {"exporter", "done"} /\ late = {}
      BY <2>4, <3>1
    <3> QED
      BY <2>1, <2>2, <2>4, <3>1, <3>2
  <2> QED
    BY <2>3, <2>4
<1>3. CASE FinishJob
  <2>1. /\ UNCHANGED <<expOpen, drain, signal, jobsClosed, expired, pc, jobs, panicked>>
        /\ proc = "process" /\ proc' = "select" /\ job \in Events
        /\ late' = IF expOpen THEN late ELSE late \cup {job}
    BY <1>3 DEF FinishJob, Finish, requestVars, drainVars, lifeVars, Working, TypeOK
  <2>2. ~expired => late' = {} \/ late' = {job}
    BY <2>1
  <2> QED
    BY <2>1, <2>2
<1>4. CASE DrainFinish
  <2>1. /\ UNCHANGED <<expOpen, signal, jobsClosed, expired, pc, jobs, panicked, proc>>
        /\ drain = "process" /\ drain' = "range"
        /\ late' = IF expOpen THEN late ELSE late \cup {djob}
    BY <1>4 DEF DrainFinish, Finish, requestVars, procVars, lifeVars
  <2>2. ~expired => expOpen
    BY <2>1
  <2> QED
    BY <2>1, <2>2
<1>5. CASE ContextDone
  BY <1>5 DEF ContextDone, requestVars, drainVars, outcomeVars, lifeVars
<1>6. CASE DrainEnd
  BY <1>6 DEF DrainEnd, requestVars, procVars, outcomeVars, lifeVars
<1>7. CASE RestartCommand \/ MainReturns
  BY <1>7 DEF RestartCommand, MainReturns, requestVars, procVars, drainVars, outcomeVars
<1>8. CASE SigTerm
  BY <1>8 DEF SigTerm, requestVars, procVars, drainVars, outcomeVars
<1>9. CASE Expire
  BY <1>9 DEF Expire, requestVars, procVars, drainVars, outcomeVars
<1>10. CASE ServerStopped
  BY <1>10 DEF ServerStopped, requestVars, procVars, drainVars, outcomeVars
<1>11. CASE CloseJobs
  BY <1>11 DEF CloseJobs, requestVars, procVars, outcomeVars
<1>12. CASE CloseExporter
  BY <1>12 DEF CloseExporter, requestVars, procVars, drainVars, outcomeVars
<1>13. CASE ExporterStopped
  BY <1>13 DEF ExporterStopped, requestVars, procVars, drainVars, outcomeVars
<1>14. CASE UNCHANGED vars
  BY <1>14 DEF vars, requestVars, procVars, drainVars, outcomeVars, lifeVars
<1>15. Next \/ UNCHANGED vars
  OBVIOUS
<1> HIDE DEF IInv, Sequence
<1> QED
  BY <1>1, <1>2, <1>3, <1>4, <1>5, <1>6, <1>7, <1>8, <1>9, <1>10, <1>11, <1>12,
    <1>13, <1>14, <1>15 DEF Next, ProcessJobs, Drain, Signal

-----------------------------------------------------------------------------
(* The theorems *)

\* Every reachable state of the webhook agent satisfies the invariant.
THEOREM Inductive == Spec => []IInv
<1>1. Init => IInv
  <2> SUFFICES ASSUME Init PROVE IInv
    OBVIOUS
  <2> USE DEF Init
  <2>1. jobs = <<>> /\ Range(jobs) = {} /\ IsInjective(jobs) /\ jobs \in Seq(Events)
    BY DEF Range, IsInjective
  <2>2. InQueue = {} /\ InHand = {} /\ Finished = {} /\ Sending = {}
    BY <2>1 DEF InQueue, InHand, Finished, Sending
  <2>3. TypeOK
    BY <2>1 DEF TypeOK
  <2>4. Working /\ Sequence
    BY DEF Working, Sequence
  <2>5. Tokens /\ ProcessedAtMostOnce
    BY <2>1, <2>2 DEF Tokens, Handled, ProcessedAtMostOnce
  <2> QED
    BY <2>3, <2>4, <2>5 DEF IInv
<1>2. IInv /\ [Next]_vars => IInv'
  BY TypeStep, WorkingStep, TokenStep, SequenceStep DEF IInv
<1> QED
  BY <1>1, <1>2, PTL DEF Spec

\* Every variable of the webhook agent keeps its type.
THEOREM TypeCorrect == Spec => []TypeOK
BY Inductive, PTL DEF IInv

\* However many deliveries of an event race, and whoever takes its job, the
\* event is in one place, and is processed once.
THEOREM AtMostOnce == Spec => []ProcessedAtMostOnce
BY Inductive, PTL DEF IInv

\* An event that was answered with 200 is accounted for.
THEOREM NothingAckedVanishes == Spec => []AckedIsAccountedFor
<1>1. IInv => AckedIsAccountedFor
  BY DEF IInv, Tokens, Handled, AckedIsAccountedFor
<1> QED
  BY <1>1, Inductive, PTL

\* Once the jobs are drained, only the event processJobs has in hand and
\* those of requests beyond the time limit are open; in time, no request
\* meets the closed channel, and at most one job outlives the exporter.
THEOREM ShutdownInTime == Spec => []TimelyShutdown
<1>1. IInv => TimelyShutdown
  <2> SUFFICES ASSUME IInv PROVE TimelyShutdown
    OBVIOUS
  <2>1. ASSUME drain = "done"
        PROVE  /\ jobs = <<>>
               /\ acked \subseteq {job} \cup Finished \cup Sending \cup refused
                                     \cup panicked
    <3>1. jobs = <<>> /\ djob = NoEvent
      BY <2>1 DEF IInv, Sequence, Working
    <3>2. InQueue = {} /\ InHand \subseteq {job}
      BY <3>1 DEF InQueue, InHand, Range
    <3> QED
      BY <3>1, <3>2 DEF IInv, Tokens, Handled
  <2>2. ASSUME ~expired, ~expOpen
        PROVE  acked \subseteq {job} \cup Finished \cup refused
    <3>1. drain = "done" /\ panicked = {} /\ \A r \in Requests : pc[r] = "idle"
      BY <2>2 DEF IInv, Sequence, TypeOK
    <3>2. Sending = {}
      BY <3>1 DEF Sending
    <3> QED
      BY <2>1, <3>1, <3>2
  <2>3. ASSUME ~expired PROVE panicked = {} /\ Cardinality(late) <= 1
    <3>1. panicked = {} /\ (late = {} \/ \E e \in Events : late = {e})
      BY <2>3 DEF IInv, Sequence
    <3>2. Cardinality({}) = 0 /\ \A e \in Events : Cardinality({e}) = 1
      BY FS_EmptySet, FS_Singleton
    <3> QED
      BY <3>1, <3>2
  <2> QED
    BY <2>1, <2>2, <2>3 DEF TimelyShutdown
<1> QED
  BY <1>1, Inductive, PTL

=============================================================================
