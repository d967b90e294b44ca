------------------------------ MODULE Matchers ------------------------------
(***************************************************************************)
(* The three matchers (internal/matchers/deterministic.go, temporal.go,    *)
(* sku_overlap.go) and the ensemble that weighs their edges (ensemble.go). *)
(*                                                                         *)
(* Confidences and weights are exact: a confidence counts units of         *)
(* 1/(10 WindowSec), in which 0.6 (1 - diff/WindowSec) is an integer, and  *)
(* a weight counts tenths.  What the code computes in float64 differs by   *)
(* rounding.  Proofs, notes and recipe names are left out.                 *)
(***************************************************************************)
EXTENDS Integers, Sequences, SequencesExt

CONSTANTS WindowSec,    \* Recipe.TemporalWindowSec
          WeightID, WeightTemporal, WeightSKU,   \* Recipe.Weights, in tenths
          Threshold     \* Recipe.Threshold, in tenths

ASSUME MatcherAssumption ==
  /\ WindowSec \in Nat /\ WeightID \in Nat /\ WeightTemporal \in Nat
  /\ WeightSKU \in Nat /\ Threshold \in 0..10

\* The unit is 1/10 if there is no window.
Tenth == IF WindowSec = 0 THEN 1 ELSE WindowSec
One == 10 * Tenth

MatcherNames == {"deterministic_id", "temporal_proximity", "sku_overlap"}

Weight(matcher) ==
  CASE matcher = "deterministic_id" -> WeightID
    [] matcher = "temporal_proximity" -> WeightTemporal
    [] matcher = "sku_overlap" -> WeightSKU

Edge(usage, to, kind, confidence, matcher) ==
  [from |-> usage.user, to |-> to, kind |-> kind,
   confidence |-> confidence, matcher |-> matcher, at |-> usage.at]

\* The edges F(x) of every x of a list, one after the other.
ForEach(list, F(_)) == FlattenSeq([i \in DOMAIN list |-> F(list[i])])

-----------------------------------------------------------------------------
(* The matchers: each returns the list of its edges *)

OnSKU(u, ids, kind) ==
  ForEach(ids, LAMBDA id :
    IF id = u.sku THEN <<Edge(u, id, kind, One, "deterministic_id")>> ELSE <<>>)

\* Exact customer; then a price or a product of the subscription that is
\* the SKU, as often as the subscription lists it.
CustomersSub(u, s) ==
  IF s.customer # u.user THEN <<>>
  ELSE <<Edge(u, s.id, "subscription", One, "deterministic_id")>>
         \o OnSKU(u, s.prices, "price") \o OnSKU(u, s.products, "product")

CustomersInv(u, i) ==
  IF i.customer # u.user THEN <<>>
  ELSE <<Edge(u, i.id, "invoice", One, "deterministic_id")>>

DeterministicID(usages, subs, invs) ==
  ForEach(usages, LAMBDA u :
    ForEach(subs, LAMBDA s : CustomersSub(u, s))
      \o ForEach(invs, LAMBDA i : CustomersInv(u, i)))

Distance(a, b) == IF a < b THEN b - a ELSE a - b

Within(ts, center, window) == window > 0 /\ Distance(ts, center) <= window

\* 0.6 at the same time, falling to 0 at the border of the window.
TemporalConfidence(ts, center) == 6 * (WindowSec - Distance(ts, center))

\* Usage near the creation of a subscription or an invoice, whoever's it is.
Near(u, x, kind) ==
  IF Within(u.at, x.created, WindowSec)
  THEN <<Edge(u, x.id, kind, TemporalConfidence(u.at, x.created),
              "temporal_proximity")>>
  ELSE <<>>

TemporalProximity(usages, subs, invs) ==
  ForEach(usages, LAMBDA u :
    ForEach(subs, LAMBDA s : Near(u, s, "subscription"))
      \o ForEach(invs, LAMBDA i : Near(u, i, "invoice")))

\* A subscription is indexed under its SKUs as often as it lists them, and
\* yields two edges each time.
Overlap(u, s) ==
  ForEach(s.prices \o s.products, LAMBDA id :
    IF id # u.sku THEN <<>>
    ELSE <<Edge(u, s.id, "subscription", 8 * Tenth, "sku_overlap"),
           Edge(u, u.sku,
                IF u.sku \in ToSet(s.prices) THEN "price" ELSE "product",
                9 * Tenth, "sku_overlap")>>)

SKUOverlap(usages, subs, invs) ==
  ForEach(usages, LAMBDA u : ForEach(subs, LAMBDA s : Overlap(u, s)))

-----------------------------------------------------------------------------
(* The ensemble *)

Match(usages, subs, invs) ==
  DeterministicID(usages, subs, invs) \o TemporalProximity(usages, subs, invs)
    \o SKUOverlap(usages, subs, invs)

Key(edge) == [from |-> edge.from, to |-> edge.to, kind |-> edge.kind]

\* Variant: a matcher counts once for each of its edges.
SummedScore(edges) ==
  FoldLeft(LAMBDA sum, e : sum + Weight(e.matcher) * e.confidence, 0, edges)

\* calculateWeightedScore: the best edge of each matcher counts, and only
\* if it scores more than 0.
WeightedScore(edges) ==
  LET scoreByRecipe[n \in 0..Len(edges)] ==
        IF n = 0 THEN [m \in MatcherNames |-> 0]
        ELSE LET e == edges[n]
                 score == Weight(e.matcher) * e.confidence
                 old == scoreByRecipe[n - 1]
             IN  IF score > old[e.matcher]
                 THEN [old EXCEPT ![e.matcher] = score] ELSE old
      best == scoreByRecipe[Len(edges)]
  IN  best["deterministic_id"] + best["temporal_proximity"] + best["sku_overlap"]

\* One edge of the pair, with the latest time.
Merged(key, edges, confidence) ==
  [from |-> key.from, to |-> key.to, kind |-> key.kind,
   confidence |-> confidence, at |-> Max({e.at : e \in ToSet(edges)})]

\* Variant: a confidence above 1.0.
MergedUncapped(key, edges, score) == Merged(key, edges, score)

Consolidated(key, edges, score) ==
  Merged(key, edges, IF score > 10 * One THEN 10 * One ELSE score)

\* The edges of one pair, in their order.
Group(raw, key) ==
  ForEach(raw, LAMBDA e : IF Key(e) = key THEN <<e>> ELSE <<>>)

\* Combine, as the set of the accepted edges, with confidences of 10 One for
\* 1.0.
Combine(raw) ==
  LET Combined(key) == WeightedScore(Group(raw, key))
      Keys == {Key(e) : e \in ToSet(raw)}
  IN  {Consolidated(key, Group(raw, key), Combined(key)) :
         key \in {k \in Keys : Combined(k) >= Threshold * One}}

\* Variant: by From, then by confidence.
PrecedesByFrom(e, f) ==
  \/ e.from < f.from
  \/ e.from = f.from /\ e.confidence > f.confidence

\* The order of the list Combine returns: by confidence, then by From.  It
\* leaves the edges of one user and one confidence in the order in which the
\* map of candidates was iterated.
Precedes(e, f) ==
  \/ e.confidence > f.confidence
  \/ e.confidence = f.confidence /\ e.from < f.from

=============================================================================
