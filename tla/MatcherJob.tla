----------------------------- MODULE MatcherJob -----------------------------
(***************************************************************************)
(* The agent as a job (main.go, runMatcherPipeline and                     *)
(* runBillingExportMode): it lists subscriptions and invoices              *)
(* (internal/connectors/stripe/stripe.go), replaces their identifiers by   *)
(* synthetic ones (sanitize.go), gives the records to the exporter's       *)
(* billing stream, makes usage events out of them (seedUsage), and runs    *)
(* the pipeline on both (to_lite.go, and module Pipeline).                 *)
(*                                                                         *)
(* An identifier x of Stripe is <<x>>, or <<>> if it is empty; x is its    *)
(* synthetic identifier.  A pointer is <<v>>, or <<>> if it is nil.  Other *)
(* callers of pipeline.Run pass inputs of their own, valid or not: for     *)
(* them, Init of Pipeline.                                                 *)
(***************************************************************************)
EXTENDS Pipeline

CONSTANTS SeedLimit,    \* the 5 of seedUsage
          SeedStep,     \* its 60 seconds, in the unit of Times
          FallbackUser, FallbackPrice,   \* of the event of last resort
          ItemLists,    \* what a subscription of Stripe may list
          MaxRecords    \* bound: records that Stripe lists

Ids(S) == {<<x>> : x \in S}
Empty == <<>>
Optional(S) == Ids(S) \cup {Empty}

\* An item may have no price, or a price without a product.
StripeItems == [price : Optional(Prices), product : Optional(Products)]

ASSUME JobAssumption ==
  /\ SeedLimit \in Nat /\ SeedStep \in Nat
  /\ Absent \notin Prices \cup Products
  /\ \A i \in 1..MaxRecords : Absent # <<"sub", i>> /\ Absent # <<"inv", i>>
  /\ FallbackUser \notin Users /\ FallbackPrice \notin Prices \cup Products
  /\ ItemLists \subseteq Seq(StripeItems)
  /\ MaxRecords \in Nat

VARIABLES
  mode,        \* "matchers" or "billing" for a job, "direct" for a caller of Run
  stage,       \* where the job stands
  configured,  \* the billing stream has a route or a path
  rawSubs, rawInvs,       \* what Stripe returned
  modelSubs, modelInvs,   \* the same with synthetic identifiers
  billed       \* the records given to the billing stream, in order

jobVars == <<mode, stage, configured, rawSubs, rawInvs, modelSubs, modelInvs, billed>>
allVars == <<vars, jobVars>>

\* No two records of a listing have one identifier.  The customer is a
\* pointer.
StripeSubs(i) ==
  [id : {<<<<"sub", i>>>>}, customer : Optional(Optional(Users)),
   items : ItemLists, created : CreationTimes]

StripeInvs(i) ==
  [id : {<<<<"inv", i>>>>}, customer : Optional(Optional(Users)),
   subscription : Optional({<<"sub", i>>}), created : CreationTimes]

JobInit ==
  /\ \/ mode = "direct" /\ stage = "run" /\ Init
     \/ /\ \/ mode = "matchers" /\ stage = "subscriptions"
           \/ mode = "billing" /\ stage = "smoke"
        /\ usages = <<>> /\ subs = <<>> /\ invs = <<>>
        /\ pc = "validate"
        /\ raw = <<>> /\ accepted = {} /\ enqueued = <<>> /\ exported = 0
  /\ configured \in IF mode = "direct" THEN {TRUE} ELSE BOOLEAN
  /\ rawSubs = <<>> /\ rawInvs = <<>>
  /\ modelSubs = <<>> /\ modelInvs = <<>> /\ billed = <<>>

-----------------------------------------------------------------------------
(* Listing *)

\* log.Fatalf: the process ends at once, without a shutdown of the exporter.
Fatal == stage' = "fatal"

\* SmokeCheck lists some customers: a job that only exports starts with it.
SmokeCheck ==
  /\ stage = "smoke"
  /\ Fatal \/ stage' = "subscriptions"
  /\ UNCHANGED <<vars, mode, configured, rawSubs, rawInvs, modelSubs, modelInvs,
                 billed>>

\* ListRawSubscriptions reads all pages; an error on the way ends the job.
ListSubscriptions ==
  /\ stage = "subscriptions"
  /\ \/ Fatal /\ UNCHANGED rawSubs
     \/ /\ \E n \in 0..MaxRecords : rawSubs' \in Lists(n, StripeSubs)
        /\ stage' = "invoices"
  /\ UNCHANGED <<vars, mode, configured, rawInvs, modelSubs, modelInvs, billed>>

\* ListRawInvoices
ListInvoices ==
  /\ stage = "invoices"
  /\ \/ Fatal /\ UNCHANGED rawInvs
     \/ /\ \E n \in 0..(MaxRecords - Len(rawSubs)) :
             rawInvs' \in Lists(n, StripeInvs)
        /\ stage' = "sanitize"
  /\ UNCHANGED <<vars, mode, configured, rawSubs, modelSubs, modelInvs, billed>>

-----------------------------------------------------------------------------
(* Sanitizing: an empty identifier has no synthetic one *)

HasSynthetic(id) == id # Empty
SyntheticID(id) == id[1]

\* An item keeps the place of an identifier it does not have.
OrAbsent(id) == IF HasSynthetic(id) THEN SyntheticID(id) ELSE Absent

SanitizeSubscription(s) ==
  [id |-> SyntheticID(s.id), customer |-> SyntheticID(s.customer[1]),
   items |-> [i \in DOMAIN s.items |->
                [price |-> OrAbsent(s.items[i].price),
                 product |-> OrAbsent(s.items[i].product)]],
   created |-> s.created]

SanitizeInvoice(v) ==
  [id |-> SyntheticID(v.id), customer |-> SyntheticID(v.customer[1]),
   subscription |-> OrAbsent(v.subscription), created |-> v.created]

\* The customer of a record that has an identifier is dereferenced.
Panics(record) == HasSynthetic(record.id) /\ record.customer = Empty

\* A record that cannot be sanitized is left out, with a warning.
Sanitizable(record) ==
  HasSynthetic(record.id) /\ HasSynthetic(record.customer[1])

SanitizeRecords ==
  /\ modelSubs' = ForEach(rawSubs, LAMBDA s :
                    IF Sanitizable(s) THEN <<SanitizeSubscription(s)>> ELSE <<>>)
  /\ modelInvs' = ForEach(rawInvs, LAMBDA v :
                    IF Sanitizable(v) THEN <<SanitizeInvoice(v)>> ELSE <<>>)

\* A panic ends the process, like an error.
Sanitize ==
  /\ stage = "sanitize"
  /\ IF \E record \in ToSet(rawSubs) \cup ToSet(rawInvs) : Panics(record)
     THEN Fatal /\ UNCHANGED <<modelSubs, modelInvs>>
     ELSE SanitizeRecords /\ stage' = "bill"
  /\ UNCHANGED <<vars, mode, configured, rawSubs, rawInvs, billed>>

-----------------------------------------------------------------------------
(* The billing stream, and the inputs of the pipeline *)

\* Enqueue refuses every record of a stream without route or path: a
\* warning for each, and the job goes on.
Bill ==
  /\ stage = "bill"
  /\ billed' = IF configured THEN modelSubs \o modelInvs ELSE billed
  /\ stage' = IF mode = "billing" THEN "shutdown" ELSE "seed"
  /\ UNCHANGED <<vars, mode, configured, rawSubs, rawInvs, modelSubs, modelInvs>>

\* The identifiers that are there, in two lists.
ToSubscriptionLite(s) ==
  LET Present(x) == IF x = Absent THEN <<>> ELSE <<x>>
  IN  [id |-> s.id, customer |-> s.customer,
       prices |-> ForEach(s.items, LAMBDA item : Present(item.price)),
       products |-> ForEach(s.items, LAMBDA item : Present(item.product)),
       created |-> s.created]

ToInvoiceLite(v) == v

\* Variant: the events of the i-th subscription are those of the one before.
SeedShifted(i) ==
  LET s == modelSubs[i]
      t == modelSubs[IF i = 1 THEN 1 ELSE i - 1]
  IN  IF s.items = <<>> THEN <<>>
      ELSE <<[user |-> t.customer, sku |-> s.items[1].price,
              at |-> s.created + (i - 1) * SeedStep]>>

\* One event for the first price of the i-th subscription, even if it is
\* empty, and a later one for the first product, if there is one.
Seed(i) ==
  LET s == modelSubs[i]
      Event(sku, delay) ==
        <<[user |-> s.customer, sku |-> sku, at |-> s.created + (i - 1) * delay]>>
  IN  IF s.items = <<>> THEN <<>>
      ELSE Event(s.items[1].price, SeedStep)
             \o IF s.items[1].product = Absent THEN <<>>
                ELSE Event(s.items[1].product, 2 * SeedStep)

Seeds ==
  FlattenSeq([i \in 1..(IF Len(modelSubs) < SeedLimit THEN Len(modelSubs)
                        ELSE SeedLimit) |-> Seed(i)])

\* seedUsage, with an event of last resort at some time before now, and the
\* conversions; then pipeline.Run is called.
SeedUsage ==
  /\ stage = "seed"
  /\ \/ Seeds # <<>> /\ usages' = Seeds
     \/ /\ Seeds = <<>>
        /\ \E at \in Times \ {0} :
             usages' = <<[user |-> FallbackUser, sku |-> FallbackPrice, at |-> at]>>
  /\ subs' = [i \in DOMAIN modelSubs |-> ToSubscriptionLite(modelSubs[i])]
  /\ invs' = [i \in DOMAIN modelInvs |-> ToInvoiceLite(modelInvs[i])]
  /\ stage' = "run"
  /\ UNCHANGED <<pc, raw, accepted, enqueued, exported, mode, configured,
                 rawSubs, rawInvs, modelSubs, modelInvs, billed>>

RunPipeline == stage = "run" /\ Next /\ UNCHANGED jobVars

\* A failed run is fatal; after another one the exporter is shut down.
AfterRun ==
  /\ mode # "direct" /\ stage = "run" /\ pc \in {"done", "failed"}
  /\ IF pc = "failed" THEN Fatal ELSE stage' = "shutdown"
  /\ UNCHANGED <<vars, mode, configured, rawSubs, rawInvs, modelSubs, modelInvs, billed>>

JobNext ==
  \/ SmokeCheck \/ ListSubscriptions \/ ListInvoices
  \/ Sanitize \/ Bill \/ SeedUsage \/ RunPipeline \/ AfterRun

JobSpec == JobInit /\ [][JobNext]_allVars

-----------------------------------------------------------------------------
(* Properties *)

\* With a billing stream, every edge that leaves names a customer, and a
\* record or an item of a record, that the job gave to that stream before.
EdgesResolve ==
  LET own == ToSet(billed)
      items == UNION {ToSet(r.items) : r \in {x \in own : "items" \in DOMAIN x}}
      names == {r.id : r \in own} \cup {x.price : x \in items}
                 \cup {x.product : x \in items}
  IN  configured =>
        \A e \in ToSet(enqueued) :
          /\ e.from \in {r.customer : r \in own}
          /\ e.to \in names \ {Absent}

\* seedUsage "uses actual customer and price IDs from the sanitized Stripe
\* data to ensure matches": after a complete run, each subscription it used is
\* linked to its own customer.
SeedsLinked ==
  stage = "shutdown" /\ mode = "matchers" =>
    \A i \in DOMAIN modelSubs :
      i <= SeedLimit /\ modelSubs[i].items # <<>> =>
        \E e \in ToSet(enqueued) :
          e.from = modelSubs[i].customer /\ e.to = modelSubs[i].id

\* What a job's edges say is borne out by the billing records it exports.
JobLinks == mode # "direct" => EdgesResolve /\ SeedsLinked

=============================================================================
