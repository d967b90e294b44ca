------------------------------ MODULE Pipeline ------------------------------
(***************************************************************************)
(* pipeline.Run (internal/pipeline/pipeline.go): the inputs are validated, *)
(* matched and combined, and the accepted edges enqueued one by one in the *)
(* exporter, any of which calls may fail and end the run half-way.         *)
(*                                                                         *)
(* Identifiers are synthetic, or Raw if they do not start with "syn_".     *)
(* Users and customers are numbers, because From is compared.              *)
(***************************************************************************)
EXTENDS Matchers

CONSTANTS Users,         \* synthetic ids of users and customers
          Prices, Products,   \* synthetic ids of prices and products
          Raw,           \* an identifier that is not synthetic
          Absent,        \* the empty identifier, where it may be given
          Times,         \* timestamps; 0 is not a valid one of a usage event
          CreationTimes, \* timestamps of subscriptions and invoices
          PriceLists, ProductLists,   \* what a subscription may list
          MaxInputs,     \* bound: records of input in all
          MaxBilling     \* bound: subscriptions and invoices among them

ASSUME PipelineAssumption ==
  /\ Times \subseteq Nat /\ CreationTimes \subseteq Nat
  /\ PriceLists \subseteq Seq(Prices \cup {Raw})
  /\ ProductLists \subseteq Seq(Products \cup {Raw})
  /\ MaxInputs \in Nat /\ MaxBilling \in Nat

VARIABLES
  usages, subs, invs,   \* the inputs
  pc,        \* where the run stands
  raw,       \* allEdges
  accepted,  \* what Combine returns
  enqueued,  \* the edges given to the exporter, in order
  exported   \* Stats.ExportedEdges

inputs == <<usages, subs, invs>>
vars == <<inputs, pc, raw, accepted, enqueued, exported>>

\* A SKU is not validated, and may be empty.
UsageEvents ==
  [user : Users \cup {Raw}, sku : Prices \cup Products \cup {Raw}, at : Times]

\* The i-th of a list of subscriptions may have the identifier of another.
Subscriptions(i) ==
  [id : {<<"sub", j>> : j \in 1..i} \cup {Raw}, customer : Users \cup {Raw},
   prices : PriceLists, products : ProductLists, created : CreationTimes]

Invoices(i) ==
  [id : {<<"inv", j>> : j \in 1..i} \cup {Raw}, customer : Users \cup {Raw},
   subscription : {Absent, Raw, <<"sub", i>>}, created : CreationTimes]

\* Lists of n elements, the i-th of Of(i).
Lists(n, Of(_)) ==
  {s \in [1..n -> UNION {Of(i) : i \in 1..n}] :
     \A i \in 1..n : s[i] \in Of(i)}

Init ==
  /\ \E n, m, k \in 0..MaxInputs :
       /\ n + m + k <= MaxInputs /\ m + k <= MaxBilling
       /\ usages \in Lists(n, LAMBDA i : UsageEvents)
       /\ subs \in Lists(m, Subscriptions)
       /\ invs \in Lists(k, Invoices)
  /\ pc = "validate"
  /\ raw = <<>> /\ accepted = {} /\ enqueued = <<>> /\ exported = 0

-----------------------------------------------------------------------------
Synthetic(id) == id # Raw

ValidUsage(u) == Synthetic(u.user) /\ u.at > 0

\* Variant: the products are not validated.
ValidSubPrices(s) ==
  Synthetic(s.id) /\ Synthetic(s.customer)
    /\ \A p \in ToSet(s.prices) : Synthetic(p)

ValidSub(s) ==
  /\ Synthetic(s.id) /\ Synthetic(s.customer)
  /\ \A p \in ToSet(s.prices) \cup ToSet(s.products) : Synthetic(p)

ValidInv(i) ==
  /\ Synthetic(i.id) /\ Synthetic(i.customer)
  /\ i.subscription = Absent \/ Synthetic(i.subscription)

Valid ==
  /\ \A u \in ToSet(usages) : ValidUsage(u)
  /\ \A s \in ToSet(subs) : ValidSub(s)
  /\ \A i \in ToSet(invs) : ValidInv(i)

Validate ==
  /\ pc = "validate"
  /\ pc' = IF Valid THEN "match" ELSE "failed"
  /\ UNCHANGED <<inputs, raw, accepted, enqueued, exported>>

\* All matchers, one after the other; the HMAC of a proof may fail.
RunMatchers ==
  /\ pc = "match"
  /\ \/ raw' = Match(usages, subs, invs) /\ pc' = "combine"
     \/ pc' = "failed" /\ UNCHANGED raw
  /\ UNCHANGED <<inputs, accepted, enqueued, exported>>

CombineEdges ==
  /\ pc = "combine"
  /\ accepted' = Combine(raw)
  /\ pc' = "export"
  /\ UNCHANGED <<inputs, raw, enqueued, exported>>

Remaining == accepted \ ToSet(enqueued)

\* The next edge of the sorted list; Enqueue accepts it, or the exporter is
\* closed or the context done.
EnqueueEdge ==
  /\ pc = "export" /\ Remaining # {}
  /\ \/ /\ \E e \in Remaining :
             /\ \A f \in Remaining : ~Precedes(f, e)
             /\ enqueued' = Append(enqueued, e)
        /\ UNCHANGED pc
     \/ pc' = "failed" /\ UNCHANGED enqueued
  /\ UNCHANGED <<inputs, raw, accepted, exported>>

Finish ==
  /\ pc = "export" /\ Remaining = {}
  /\ exported' = Cardinality(accepted)
  /\ pc' = "done"
  /\ UNCHANGED <<inputs, raw, accepted, enqueued>>

Next == Validate \/ RunMatchers \/ CombineEdges \/ EnqueueEdge \/ Finish

Spec == Init /\ [][Next]_vars

-----------------------------------------------------------------------------
(* Properties *)

\* The type of every variable; no confidence is outside [0, 1].
TypeOK ==
  /\ pc \in {"validate", "match", "combine", "export", "done", "failed"}
  /\ \A e \in ToSet(raw) : e.confidence \in 0..One /\ e.at \in Nat \ {0}
  /\ \A e \in accepted : e.confidence \in 0..(10 * One) /\ e.at \in Nat \ {0}
  /\ ToSet(enqueued) \subseteq accepted
  /\ exported \in {0, Cardinality(accepted)}

\* What each matcher finds for an edge in one usage event of its user.
Confidences(u, key) ==
  LET Sub(s) == key.kind = "subscription" /\ key.to = s.id
      Inv(i) == key.kind = "invoice" /\ key.to = i.id
      S == ToSet(subs)
      I == ToSet(invs)
      Priced(s) == key.kind = "price" /\ u.sku \in ToSet(s.prices)
      Made(s) == key.kind = "product" /\ u.sku \in ToSet(s.products)
      OnlyMade(s) == Made(s) /\ u.sku \notin ToSet(s.prices)
      Billing == {s \in S : Sub(s)} \cup {i \in I : Inv(i)}
      Selling == {s \in S : key.to = u.sku /\ (Priced(s) \/ Made(s))}
      Close(x) == WindowSec > 0 /\ Distance(u.at, x.created) <= WindowSec
  IN  [deterministic_id |->
         {One : x \in {y \in Billing \cup Selling : y.customer = u.user}},
       temporal_proximity |->
         {TemporalConfidence(u.at, x.created) : x \in {y \in Billing : Close(y)}},
       sku_overlap |->
         {8 * Tenth : s \in {s \in S : Sub(s) /\
                       u.sku \in ToSet(s.prices) \cup ToSet(s.products)}}
           \cup {9 * Tenth : s \in {s \in Selling : Priced(s) \/ OnlyMade(s)}}]

Events(key) == {u \in ToSet(usages) : u.user = key.from}

\* All that one matcher finds in the usage events of the user.
Found(matcher, key) == UNION {Confidences(u, key)[matcher] : u \in Events(key)}

\* The best each matcher finds, weighted and summed.
Score(key) ==
  LET BestOf(matcher) == Weight(matcher) * Max(Found(matcher, key) \cup {0})
  IN  BestOf("deterministic_id") + BestOf("temporal_proximity") + BestOf("sku_overlap")

\* The times of the events in which some matcher finds anything.
FoundAt(key) ==
  {u.at : u \in {v \in Events(key) :
                   \E m \in MatcherNames : Confidences(v, key)[m] # {}}}

Justified(key) ==
  IF FoundAt(key) = {} \/ Score(key) < Threshold * One THEN {}
  ELSE {[from |-> key.from, to |-> key.to, kind |-> key.kind,
         confidence |-> IF Score(key) > 10 * One THEN 10 * One ELSE Score(key),
         at |-> Max(FoundAt(key))]}

\* The edges there can be between a user and a record or SKU of the inputs.
Pairs ==
  [from : {u.user : u \in ToSet(usages)},
   to : {s.id : s \in ToSet(subs)} \cup {i.id : i \in ToSet(invs)}
          \cup {u.sku : u \in ToSet(usages)},
   kind : {"subscription", "invoice", "price", "product"}]

\* Combine accepts exactly the edges the inputs justify: a matcher that
\* finds an edge several times, in one event or in several, counts once,
\* with the best it finds.
AcceptedIsJustified ==
  pc = "export" /\ enqueued = <<>> =>
    accepted = UNION {Justified(key) : key \in Pairs}

\* Wherever the export stops, no edge left behind is more certain than one
\* that was exported, and none was exported twice.
BestFirst ==
  /\ \A e \in ToSet(enqueued), f \in Remaining : e.confidence >= f.confidence
  /\ Cardinality(ToSet(enqueued)) = Len(enqueued)
  /\ pc = "done" => exported = Len(enqueued)

\* No identifier that is not synthetic leaves, although the SKU of a usage
\* event, which becomes the To of an edge, is not validated.
OnlySyntheticLeaves ==
  \A e \in ToSet(enqueued) : Synthetic(e.from) /\ Synthetic(e.to)

=============================================================================
