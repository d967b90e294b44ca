--------------------------- MODULE PipelineProofs ---------------------------
(***************************************************************************)
(* Theorems about the matchers, the pipeline and the job around it, for    *)
(* all inputs that the constants allow, and any recipe.                    *)
(*                                                                         *)
(* What the loops of the matchers and of the ensemble compute is proved by *)
(* induction over a set of numbers (SetInduction), which needs no          *)
(* operator as a parameter.                                                *)
(***************************************************************************)
EXTENDS MatcherJob, FiniteSetTheorems, SequenceTheorems, WellFoundedInduction,
        TLAPS

-----------------------------------------------------------------------------
(* Induction, maxima, and lists made of lists *)

\* A set with 0 and the successor of each of its numbers has them all.
LEMMA SetInduction ==
  ASSUME NEW S, 0 \in S, \A n \in Nat : n \in S => n + 1 \in S
  PROVE  Nat \subseteq S
<1> DEFINE T == {n \in Nat : n \notin S}
           R == OpToRel(<, Nat)
<1> SUFFICES ASSUME T # {} PROVE FALSE
  OBVIOUS
<1>1. IsWellFoundedOn(R, Nat)
  BY NatLessThanWellFounded
<1>2. PICK n \in T : \A k \in T : ~ (<<k, n>> \in R)
  BY <1>1, WFMin
<1>3. n \in Nat /\ n # 0
  OBVIOUS
<1>4. n - 1 \in Nat /\ n - 1 + 1 = n
  BY <1>3
<1>5. n - 1 \notin S
  BY <1>3, <1>4
<1>6. <<n - 1, n>> \in R
  BY <1>3, <1>4 DEF OpToRel
<1> QED
  BY <1>2, <1>4, <1>5, <1>6

\* A bounded set of numbers has a maximum.
LEMMA MaxOfBounded ==
  ASSUME NEW S \in SUBSET Nat, S # {}, NEW b \in Nat, \A x \in S : x <= b
  PROVE  Max(S) \in S /\ \A x \in S : x <= Max(S)
<1> DEFINE B == {n \in Nat : n <= b => (\E x \in S : \A y \in S : y <= x) \/ \E x \in S : x > n}
<1>1. 0 \in B
  <2>1. PICK x \in S : TRUE
    OBVIOUS
  <2>2. CASE \E y \in S : y > 0
    BY <2>2
  <2>3. CASE \A y \in S : ~ (y > 0)
    <3>1. \A y \in S : y <= x
      BY <2>3
    <3> QED
      BY <2>1, <3>1
  <2> QED
    BY <2>2, <2>3
<1>2. ASSUME NEW n \in Nat, n \in B
      PROVE  n + 1 \in B
  <2>1. SUFFICES ASSUME n + 1 <= b, ~ \E x \in S : \A y \in S : y <= x
                 PROVE  \E x \in S : x > n + 1
    OBVIOUS
  <2>2. PICK x \in S : x > n
    BY <1>2, <2>1
  <2>3. PICK y \in S : ~ (y <= x)
    BY <2>1
  <2> QED
    BY <2>2, <2>3
<1>3. b \in B
  BY <1>1, <1>2, SetInduction
<1>4. \E x \in S : \A y \in S : x >= y
  BY <1>3
<1> QED
  BY <1>4 DEF Max

\* A list of numbers is bounded.
LEMMA ListIsBounded ==
  ASSUME NEW n \in Nat, NEW f \in [1..n -> Nat]
  PROVE  \E b \in Nat : \A i \in 1..n : f[i] <= b
<1> DEFINE B == {k \in Nat : k <= n => \E b \in Nat : \A i \in 1..k : f[i] <= b}
<1>1. 0 \in B
  OBVIOUS
<1>2. ASSUME NEW k \in Nat, k \in B
      PROVE  k + 1 \in B
  <2>1. SUFFICES ASSUME k + 1 <= n
                 PROVE  \E b \in Nat : \A i \in 1..(k + 1) : f[i] <= b
    OBVIOUS
  <2>2. PICK b \in Nat : \A i \in 1..k : f[i] <= b
    BY <1>2, <2>1
  <2>3. f[k + 1] \in Nat
    BY <2>1
  <2>4. PICK c \in Nat : c >= b /\ c >= f[k + 1]
    BY <2>3
  <2>5. \A i \in 1..(k + 1) : i \in 1..k \/ i = k + 1
    OBVIOUS
  <2>6. \A i \in 1..(k + 1) : f[i] <= c
    BY <2>1, <2>2, <2>3, <2>4, <2>5
  <2> QED
    BY <2>6
<1>3. n \in B
  BY <1>1, <1>2, SetInduction
<1> QED
  BY <1>3

\* The elements of two lists, one behind the other.
LEMMA ConcatElements ==
  ASSUME NEW A, NEW s \in Seq(A), NEW t \in Seq(A)
  PROVE  /\ s \o t \in Seq(A)
         /\ \A x : x \in ToSet(s \o t) <=> x \in ToSet(s) \/ x \in ToSet(t)
<1>1. /\ s \o t \in Seq(A) /\ Len(s \o t) = Len(s) + Len(t)
      /\ Len(s) \in Nat /\ Len(t) \in Nat
      /\ DOMAIN s = 1..Len(s) /\ DOMAIN t = 1..Len(t)
      /\ DOMAIN (s \o t) = 1..(Len(s) + Len(t))
  BY ConcatProperties, LenProperties
<1>2. \A i \in 1..(Len(s) + Len(t)) :
        (s \o t)[i] = IF i <= Len(s) THEN s[i] ELSE t[i - Len(s)]
  BY ConcatProperties
<1>3. ASSUME NEW x, x \in ToSet(s \o t)
      PROVE  x \in ToSet(s) \/ x \in ToSet(t)
  <2>1. PICK i \in 1..(Len(s) + Len(t)) : x = (s \o t)[i]
    BY <1>1, <1>3 DEF ToSet
  <2>2. CASE i <= Len(s)
    BY <1>1, <1>2, <2>1, <2>2 DEF ToSet
  <2>3. CASE ~ (i <= Len(s))
    <3>1. i - Len(s) \in 1..Len(t)
      BY <1>1, <2>3
    <3> QED
      BY <1>1, <1>2, <2>1, <2>3, <3>1 DEF ToSet
  <2> QED
    BY <2>2, <2>3
<1>4. ASSUME NEW i \in 1..Len(s)
      PROVE  s[i] \in ToSet(s \o t)
  <2>1. i \in 1..(Len(s) + Len(t)) /\ i <= Len(s)
    BY <1>1
  <2> QED
    BY <1>1, <1>2, <2>1 DEF ToSet
<1>5. ASSUME NEW i \in 1..Len(t)
      PROVE  t[i] \in ToSet(s \o t)
  <2>1. /\ Len(s) + i \in 1..(Len(s) + Len(t)) /\ ~ (Len(s) + i <= Len(s))
        /\ (Len(s) + i) - Len(s) = i
    BY <1>1
  <2>2. (s \o t)[Len(s) + i] = t[i]
    BY <1>2, <2>1
  <2> QED
    BY <1>1, <2>1, <2>2 DEF ToSet
<1>6. ASSUME NEW x, x \in ToSet(s) \/ x \in ToSet(t)
      PROVE  x \in ToSet(s \o t)
  BY <1>1, <1>4, <1>5, <1>6 DEF ToSet
<1> QED
  BY <1>1, <1>3, <1>6

\* What FlattenSeq computes: its recursive function exists, and has the
\* elements of all lists.
LEMMA FlattenElements ==
  ASSUME NEW A, NEW seqs \in Seq(Seq(A))
  PROVE  /\ FlattenSeq(seqs) \in Seq(A)
         /\ \A x : x \in ToSet(FlattenSeq(seqs)) <=>
                   \E i \in 1..Len(seqs) : x \in ToSet(seqs[i])
<1> DEFINE n == Len(seqs)
           Starts(g, k) == \A i \in 1..k :
             g[i] = IF i = 1 THEN seqs[i] ELSE g[i - 1] \o seqs[i]
           Prefix(k) == {g \in [1..k -> Seq(A)] : Starts(g, k)}
           K == {k \in Nat : k <= n => Prefix(k) # {}}
<1>1. n \in Nat /\ seqs \in [1..n -> Seq(A)]
  BY LenProperties
<1>2. CASE n = 0
  <2>1. seqs = <<>> /\ seqs \in Seq(A)
    BY <1>2, EmptySeq
  <2>2. FlattenSeq(seqs) = seqs
    BY <1>2 DEF FlattenSeq
  <2>3. ToSet(FlattenSeq(seqs)) = {}
    BY <2>1, <2>2 DEF ToSet
  <2>4. FlattenSeq(seqs) \in Seq(A)
    BY <2>1, <2>2
  <2>5. ~ \E i \in 1..Len(seqs) : TRUE
    BY <1>2
  <2> QED
    BY <2>3, <2>4, <2>5
<1>3. CASE n # 0
  <2>1. 0 \in K
    <3>1. [i \in 1..0 |-> <<>>] \in Prefix(0)
      BY EmptySeq
    <3> QED
      BY <3>1
  <2>2. ASSUME NEW k \in Nat, k \in K
        PROVE  k + 1 \in K
    <3>1. SUFFICES ASSUME k + 1 <= n
                   PROVE  Prefix(k + 1) # {}
      <4> HIDE DEF Prefix
      <4> QED
        OBVIOUS
    <3>2. PICK g : g \in [1..k -> Seq(A)] /\ Starts(g, k)
      <4>1. k <= n
        BY <1>1, <3>1
      <4>2. Prefix(k) # {}
        <5> HIDE DEF Prefix
        <5> QED
          BY <2>2, <4>1
      <4> QED
        BY <4>2
    <3> DEFINE last == IF k + 1 = 1 THEN seqs[k + 1] ELSE g[k] \o seqs[k + 1]
               h == [i \in 1..(k + 1) |-> IF i <= k THEN g[i] ELSE last]
    <3>3. seqs[k + 1] \in Seq(A) /\ (k # 0 => g[k] \in Seq(A))
      BY <1>1, <3>1, <3>2
    <3>4. last \in Seq(A)
      BY <3>3, ConcatProperties
    <3>5. h \in [1..(k + 1) -> Seq(A)]
      BY <3>2, <3>4
    <3>6. ASSUME NEW i \in 1..(k + 1)
          PROVE  h[i] = IF i = 1 THEN seqs[i] ELSE h[i - 1] \o seqs[i]
      <4>1. CASE i <= k
        <5>1. i \in 1..k /\ h[i] = g[i]
          BY <4>1
        <5>2. i # 1 => i - 1 \in 1..(k + 1) /\ i - 1 <= k
          BY <4>1
        <5>3. i # 1 => h[i - 1] = g[i - 1]
          BY <5>2
        <5> QED
          BY <3>2, <5>1, <5>3
      <4>2. CASE i = k + 1
        <5>1. h[i] = last
          BY <4>2
        <5>2. i # 1 => k \in 1..(k + 1) /\ i - 1 = k /\ h[k] = g[k]
          BY <4>2
        <5> QED
          BY <4>2, <5>1, <5>2
      <4> QED
        BY <4>1, <4>2
    <3>7. h \in Prefix(k + 1)
      BY <3>5, <3>6
    <3> QED
      BY <3>7
  <2>3. n \in K
    <3> HIDE DEF K
    <3> QED
      BY <1>1, <2>1, <2>2, SetInduction
  <2>4. PICK g : g \in [1..n -> Seq(A)] /\ Starts(g, n)
    BY <1>1, <2>3
  <2> DEFINE Body(h) == [i \in 1..n |-> IF i = 1 THEN seqs[i] ELSE h[i - 1] \o seqs[i]]
             f == CHOOSE h : h = Body(h)
  <2>5. g = Body(g)
    BY <2>4
  <2>6. f = Body(f)
    BY <2>5
  <2>7. FlattenSeq(seqs) = f[n]
    BY <1>3 DEF FlattenSeq
  <2> DEFINE All(k, x) == \E i \in 1..k : x \in ToSet(seqs[i])
             L == {k \in Nat : k + 1 <= n =>
                     /\ f[k + 1] \in Seq(A)
                     /\ \A x : x \in ToSet(f[k + 1]) <=> All(k + 1, x)}
  <2>8. \A i \in 1..n : f[i] = IF i = 1 THEN seqs[i] ELSE f[i - 1] \o seqs[i]
    BY <2>6
  <2> HIDE DEF f
  <2>9. 0 \in L
    BY <1>1, <2>8
  <2>10. ASSUME NEW k \in Nat, k \in L
         PROVE  k + 1 \in L
    <3>1. SUFFICES ASSUME k + 2 <= n
                   PROVE  /\ f[k + 2] \in Seq(A)
                          /\ \A x : x \in ToSet(f[k + 2]) <=> All(k + 2, x)
      BY (k + 1) + 1 = k + 2
    <3>2. /\ f[k + 1] \in Seq(A)
          /\ \A x : x \in ToSet(f[k + 1]) <=> All(k + 1, x)
      BY <1>1, <2>10, <3>1
    <3>3. k + 2 \in 1..n /\ k + 2 # 1 /\ (k + 2) - 1 = k + 1
      BY <1>1, <3>1
    <3>4. f[k + 2] = f[k + 1] \o seqs[k + 2] /\ seqs[k + 2] \in Seq(A)
      BY <1>1, <2>8, <3>3
    <3>5. /\ f[k + 2] \in Seq(A)
          /\ \A x : x \in ToSet(f[k + 2]) <=>
                    x \in ToSet(f[k + 1]) \/ x \in ToSet(seqs[k + 2])
      BY <3>2, <3>4, ConcatElements
    <3>6. \A i : i \in 1..(k + 2) <=> i \in 1..(k + 1) \/ i = k + 2
      OBVIOUS
    <3>7. \A x : All(k + 2, x) <=> All(k + 1, x) \/ x \in ToSet(seqs[k + 2])
      BY <3>6
    <3> QED
      BY <3>2, <3>5, <3>7
  <2>11. n - 1 \in L /\ n - 1 \in Nat /\ (n - 1) + 1 = n
    <3>1. n - 1 \in Nat /\ (n - 1) + 1 = n
      BY <1>1, <1>3
    <3> HIDE DEF L
    <3> QED
      BY <2>9, <2>10, <3>1, SetInduction
  <2>12. /\ f[n] \in Seq(A)
         /\ \A x : x \in ToSet(f[n]) <=> All(n, x)
    BY <1>1, <2>11
  <2> QED
    BY <2>7, <2>12
<1> QED
  BY <1>2, <1>3

\* The elements of a list, by their places.
LEMMA ListElements ==
  ASSUME NEW A, NEW s \in Seq(A)
  PROVE  /\ Len(s) \in Nat /\ DOMAIN s = 1..Len(s)
         /\ ToSet(s) \subseteq A
         /\ \A x : x \in ToSet(s) <=> \E i \in 1..Len(s) : x = s[i]
BY LenProperties, ElementOfSeq DEF ToSet

\* The lists that a function yields, one after the other.
LEMMA FlattenMap ==
  ASSUME NEW A, NEW n \in Nat, NEW f \in [1..n -> Seq(A)]
  PROVE  /\ FlattenSeq(f) \in Seq(A)
         /\ \A x : x \in ToSet(FlattenSeq(f)) <=> \E i \in 1..n : x \in ToSet(f[i])
<1>1. f \in Seq(Seq(A)) /\ Len(f) = n
  OBVIOUS
<1> QED
  BY <1>1, FlattenElements

-----------------------------------------------------------------------------
(* The types of the inputs and of the edges *)

Identifiers ==
  Users \cup Prices \cup Products \cup {Raw, Absent, FallbackUser, FallbackPrice}
    \cup {<<"sub", i>> : i \in Nat} \cup {<<"inv", i>> : i \in Nat}

Usages == [user : Identifiers, sku : Identifiers, at : Nat]
Subs == [id : Identifiers, customer : Identifiers, prices : Seq(Identifiers),
         products : Seq(Identifiers), created : Nat]
Invs == [id : Identifiers, customer : Identifiers, subscription : Identifiers, created : Nat]

InputsTyped == usages \in Seq(Usages) /\ subs \in Seq(Subs) /\ invs \in Seq(Invs)

Edges ==
  [from : Identifiers, to : Identifiers,
   kind : {"subscription", "invoice", "price", "product"},
   confidence : 0..One, matcher : MatcherNames, at : Nat]

LEMMA EdgeType ==
  ASSUME NEW u \in Usages, NEW to \in Identifiers,
         NEW kind \in {"subscription", "invoice", "price", "product"},
         NEW c \in 0..One, NEW m \in MatcherNames
  PROVE  Edge(u, to, kind, c, m) \in Edges
BY DEF Usages, Edges, Edge

LEMMA Units ==
  /\ Tenth \in Nat \ {0} /\ One \in Nat \ {0}
  /\ One \in 0..One /\ 8 * Tenth \in 0..One /\ 9 * Tenth \in 0..One
BY MatcherAssumption DEF Tenth, One

\* A list and what is in it.
ListsOf(list, A) ==
  /\ list \in Seq(A)
  /\ Len(list) \in Nat /\ DOMAIN list = 1..Len(list)
  /\ \A k \in 1..Len(list) : list[k] \in A
  /\ \A x : x \in ToSet(list) <=> \E k \in 1..Len(list) : x = list[k]

LEMMA InputElements ==
  InputsTyped => ListsOf(usages, Usages) /\ ListsOf(subs, Subs) /\ ListsOf(invs, Invs)
BY ListElements, ElementOfSeq DEF InputsTyped, ListsOf

-----------------------------------------------------------------------------
(* The edges each matcher finds *)

LEMMA OnSKUElements ==
  ASSUME NEW u \in Usages, NEW ids \in Seq(Identifiers), NEW kind \in {"price", "product"}
  PROVE  /\ OnSKU(u, ids, kind) \in Seq(Edges)
         /\ \A e : e \in ToSet(OnSKU(u, ids, kind)) <=>
              u.sku \in ToSet(ids) /\ e = Edge(u, u.sku, kind, One, "deterministic_id")
<1> DEFINE E(id) == Edge(u, id, kind, One, "deterministic_id")
           f == [i \in DOMAIN ids |-> IF ids[i] = u.sku THEN <<E(ids[i])>> ELSE <<>>]
<1>1. Len(ids) \in Nat /\ DOMAIN ids = 1..Len(ids)
      /\ (\A i \in 1..Len(ids) : ids[i] \in Identifiers)
      /\ (\A x : x \in ToSet(ids) <=> \E i \in 1..Len(ids) : x = ids[i])
  BY ListElements, ElementOfSeq
<1>2. \A id \in Identifiers : E(id) \in Edges
  BY EdgeType, Units DEF MatcherNames
<1> HIDE DEF E
<1>3. f \in [1..Len(ids) -> Seq(Edges)]
  BY <1>1, <1>2
<1>4. \A i \in 1..Len(ids) : \A e : e \in ToSet(f[i]) <=> ids[i] = u.sku /\ e = E(ids[i])
  BY <1>1 DEF ToSet
<1>5. OnSKU(u, ids, kind) = FlattenSeq(f)
  BY DEF OnSKU, ForEach, E
<1> HIDE DEF f
<1>6. /\ OnSKU(u, ids, kind) \in Seq(Edges)
      /\ \A e : e \in ToSet(OnSKU(u, ids, kind)) <=>
                  \E i \in 1..Len(ids) : e \in ToSet(f[i])
  BY <1>1, <1>3, <1>5, FlattenMap
<1> QED
  BY <1>1, <1>4, <1>6 DEF E

\* What CustomersSub lists.
LEMMA CustomersSubElements ==
  ASSUME NEW u \in Usages, NEW s \in Subs
  PROVE  /\ CustomersSub(u, s) \in Seq(Edges)
         /\ \A e : e \in ToSet(CustomersSub(u, s)) <=>
              /\ s.customer = u.user
              /\ \/ e = Edge(u, s.id, "subscription", One, "deterministic_id")
                 \/ /\ u.sku \in ToSet(s.prices)
                    /\ e = Edge(u, u.sku, "price", One, "deterministic_id")
                 \/ /\ u.sku \in ToSet(s.products)
                    /\ e = Edge(u, u.sku, "product", One, "deterministic_id")
<1> DEFINE e0 == Edge(u, s.id, "subscription", One, "deterministic_id")
           p == OnSKU(u, s.prices, "price")
           q == OnSKU(u, s.products, "product")
<1>1. CASE s.customer # u.user
  <2>1. CustomersSub(u, s) = <<>>
    BY <1>1 DEF CustomersSub
  <2> QED
    BY <1>1, <2>1 DEF ToSet
<1>2. CASE s.customer = u.user
  <2>1. s.id \in Identifiers /\ s.prices \in Seq(Identifiers)
        /\ s.products \in Seq(Identifiers)
    BY DEF Subs
  <2>2. e0 \in Edges
    BY <2>1, EdgeType, Units DEF MatcherNames
  <2> HIDE DEF e0
  <2>3. <<e0>> \in Seq(Edges) /\ \A e : e \in ToSet(<<e0>>) <=> e = e0
    BY <2>2 DEF ToSet
  <2>4. p \in Seq(Edges) /\ q \in Seq(Edges)
    BY <2>1, OnSKUElements
  <2> HIDE DEF p, q
  <2>5. /\ <<e0>> \o p \in Seq(Edges)
        /\ \A e : e \in ToSet(<<e0>> \o p) <=> e \in ToSet(<<e0>>) \/ e \in ToSet(p)
    BY <2>3, <2>4, ConcatElements
  <2>6. /\ (<<e0>> \o p) \o q \in Seq(Edges)
        /\ \A e : e \in ToSet((<<e0>> \o p) \o q) <=>
                    e \in ToSet(<<e0>> \o p) \/ e \in ToSet(q)
    BY <2>4, <2>5, ConcatElements
  <2>7. CustomersSub(u, s) = (<<e0>> \o p) \o q
    BY <1>2 DEF CustomersSub, e0, p, q
  <2>8. \A e : e \in ToSet(CustomersSub(u, s)) <=> e = e0 \/ e \in ToSet(p) \/ e \in ToSet(q)
    BY <2>3, <2>5, <2>6, <2>7
  <2>9. \A e : /\ e \in ToSet(p) <=>
                    /\ u.sku \in ToSet(s.prices)
                    /\ e = Edge(u, u.sku, "price", One, "deterministic_id")
               /\ e \in ToSet(q) <=>
                    /\ u.sku \in ToSet(s.products)
                    /\ e = Edge(u, u.sku, "product", One, "deterministic_id")
    BY <2>1, OnSKUElements DEF p, q
  <2> QED
    BY <1>2, <2>6, <2>7, <2>8, <2>9 DEF e0
<1> QED
  BY <1>1, <1>2

LEMMA CustomersInvElements ==
  ASSUME NEW u \in Usages, NEW i \in Invs
  PROVE  /\ CustomersInv(u, i) \in Seq(Edges)
         /\ \A e : e \in ToSet(CustomersInv(u, i)) <=>
              /\ i.customer = u.user
              /\ e = Edge(u, i.id, "invoice", One, "deterministic_id")
<1> DEFINE e0 == Edge(u, i.id, "invoice", One, "deterministic_id")
<1>1. e0 \in Edges
  BY EdgeType, Units DEF MatcherNames, Invs
<1>2. CustomersInv(u, i) = IF i.customer # u.user THEN <<>> ELSE <<e0>>
  BY DEF CustomersInv
<1> HIDE DEF e0
<1>3. CustomersInv(u, i) \in Seq(Edges)
  BY <1>1, <1>2
<1>4. \A e : e \in ToSet(CustomersInv(u, i)) <=> i.customer = u.user /\ e = e0
  BY <1>2 DEF ToSet
<1> QED
  BY <1>3, <1>4 DEF e0

\* For each usage event, the edges of each subscription and of each invoice.
LEMMA DeterministicIDElements ==
  ASSUME InputsTyped
  PROVE  /\ DeterministicID(usages, subs, invs) \in Seq(Edges)
         /\ \A e : e \in ToSet(DeterministicID(usages, subs, invs)) <=>
              \E u \in ToSet(usages) :
                \/ \E s \in ToSet(subs) : e \in ToSet(CustomersSub(u, s))
                \/ \E i \in ToSet(invs) : e \in ToSet(CustomersInv(u, i))
<1> DEFINE f(u) == [k \in DOMAIN subs |-> CustomersSub(u, subs[k])]
           g(u) == [k \in DOMAIN invs |-> CustomersInv(u, invs[k])]
           h(u) == FlattenSeq(f(u)) \o FlattenSeq(g(u))
           all == [k \in DOMAIN usages |-> h(usages[k])]
           Of(e, u) == \/ \E s \in ToSet(subs) : e \in ToSet(CustomersSub(u, s))
                       \/ \E i \in ToSet(invs) : e \in ToSet(CustomersInv(u, i))
<1>1. ListsOf(usages, Usages) /\ ListsOf(subs, Subs) /\ ListsOf(invs, Invs)
  BY InputElements
<1>2. /\ Len(usages) \in Nat /\ DOMAIN usages = 1..Len(usages)
      /\ \A k \in 1..Len(usages) : usages[k] \in Usages
      /\ \A u : u \in ToSet(usages) <=> \E k \in 1..Len(usages) : u = usages[k]
  BY <1>1 DEF ListsOf
<1>4. ASSUME NEW u \in Usages
      PROVE  h(u) \in Seq(Edges) /\ \A e : e \in ToSet(h(u)) <=> Of(e, u)
  <2>1. f(u) \in [1..Len(subs) -> Seq(Edges)]
    BY <1>1, CustomersSubElements DEF ListsOf
  <2>2. g(u) \in [1..Len(invs) -> Seq(Edges)]
    BY <1>1, CustomersInvElements DEF ListsOf
  <2>3. /\ FlattenSeq(f(u)) \in Seq(Edges)
        /\ \A e : e \in ToSet(FlattenSeq(f(u))) <=>
                    \E k \in 1..Len(subs) : e \in ToSet(f(u)[k])
    <3> HIDE DEF f
    <3> QED
      BY <1>1, <2>1, FlattenMap DEF ListsOf
  <2>4. /\ FlattenSeq(g(u)) \in Seq(Edges)
        /\ \A e : e \in ToSet(FlattenSeq(g(u))) <=>
                    \E k \in 1..Len(invs) : e \in ToSet(g(u)[k])
    <3> HIDE DEF g
    <3> QED
      BY <1>1, <2>2, FlattenMap DEF ListsOf
  <2>5. \A e : e \in ToSet(FlattenSeq(f(u))) <=>
                 \E s \in ToSet(subs) : e \in ToSet(CustomersSub(u, s))
    BY <1>1, <2>3 DEF ListsOf
  <2>6. \A e : e \in ToSet(FlattenSeq(g(u))) <=>
                 \E i \in ToSet(invs) : e \in ToSet(CustomersInv(u, i))
    BY <1>1, <2>4 DEF ListsOf
  <2> HIDE DEF f, g
  <2>7. /\ h(u) \in Seq(Edges)
        /\ \A e : e \in ToSet(h(u)) <=>
                    e \in ToSet(FlattenSeq(f(u))) \/ e \in ToSet(FlattenSeq(g(u)))
    BY <2>3, <2>4, ConcatElements
  <2> QED
    BY <2>5, <2>6, <2>7
<1>5. DeterministicID(usages, subs, invs) = FlattenSeq(all)
  BY DEF DeterministicID, ForEach
<1> HIDE DEF h, Of
<1>6. all \in [1..Len(usages) -> Seq(Edges)]
  BY <1>1, <1>4 DEF ListsOf
<1>7. /\ FlattenSeq(all) \in Seq(Edges)
      /\ \A e : e \in ToSet(FlattenSeq(all)) <=>
                  \E k \in 1..Len(usages) : e \in ToSet(all[k])
  <2> HIDE DEF all
  <2> QED
    BY <1>1, <1>6, FlattenMap DEF ListsOf
<1>8. \A e : e \in ToSet(FlattenSeq(all)) <=> \E u \in ToSet(usages) : Of(e, u)
  BY <1>2, <1>4, <1>7
<1> QED
  BY <1>5, <1>7, <1>8 DEF Of

\* A subscription or an invoice near the event.
LEMMA NearElements ==
  ASSUME NEW u \in Usages, NEW x \in Subs \cup Invs,
         NEW kind \in {"subscription", "invoice"}
  PROVE  /\ Near(u, x, kind) \in Seq(Edges)
         /\ \A e : e \in ToSet(Near(u, x, kind)) <=>
              /\ WindowSec > 0 /\ Distance(u.at, x.created) <= WindowSec
              /\ e = Edge(u, x.id, kind, TemporalConfidence(u.at, x.created),
                          "temporal_proximity")
<1> DEFINE c == TemporalConfidence(u.at, x.created)
           e0 == Edge(u, x.id, kind, c, "temporal_proximity")
           close == WindowSec > 0 /\ Distance(u.at, x.created) <= WindowSec
<1>1. u.at \in Nat /\ x.created \in Nat /\ x.id \in Identifiers
  BY DEF Usages, Subs, Invs
<1>2. Distance(u.at, x.created) \in Nat
  BY <1>1 DEF Distance
<1>3. close => c \in 0..One
  BY <1>2, MatcherAssumption DEF TemporalConfidence, One, Tenth
<1> HIDE DEF c
<1>4. close => e0 \in Edges
  BY <1>1, <1>3, EdgeType DEF MatcherNames
<1>5. Near(u, x, kind) = IF close THEN <<e0>> ELSE <<>>
  BY DEF Near, Within, c
<1> HIDE DEF e0, close
<1>6. Near(u, x, kind) \in Seq(Edges)
  BY <1>4, <1>5
<1>7. \A e : e \in ToSet(Near(u, x, kind)) <=> close /\ e = e0
  BY <1>5 DEF ToSet
<1> QED
  BY <1>6, <1>7 DEF c, e0, close

LEMMA TemporalProximityElements ==
  ASSUME InputsTyped
  PROVE  /\ TemporalProximity(usages, subs, invs) \in Seq(Edges)
         /\ \A e : e \in ToSet(TemporalProximity(usages, subs, invs)) <=>
              \E u \in ToSet(usages) :
                \/ \E s \in ToSet(subs) : e \in ToSet(Near(u, s, "subscription"))
                \/ \E i \in ToSet(invs) : e \in ToSet(Near(u, i, "invoice"))
<1> DEFINE f(u) == [k \in DOMAIN subs |-> Near(u, subs[k], "subscription")]
           g(u) == [k \in DOMAIN invs |-> Near(u, invs[k], "invoice")]
           h(u) == FlattenSeq(f(u)) \o FlattenSeq(g(u))
           all == [k \in DOMAIN usages |-> h(usages[k])]
           Of(e, u) == \/ \E s \in ToSet(subs) : e \in ToSet(Near(u, s, "subscription"))
                       \/ \E i \in ToSet(invs) : e \in ToSet(Near(u, i, "invoice"))
<1>1. ListsOf(usages, Usages) /\ ListsOf(subs, Subs) /\ ListsOf(invs, Invs)
  BY InputElements
<1>2. /\ Len(usages) \in Nat /\ DOMAIN usages = 1..Len(usages)
      /\ \A k \in 1..Len(usages) : usages[k] \in Usages
      /\ \A u : u \in ToSet(usages) <=> \E k \in 1..Len(usages) : u = usages[k]
  BY <1>1 DEF ListsOf
<1>4. ASSUME NEW u \in Usages
      PROVE  h(u) \in Seq(Edges) /\ \A e : e \in ToSet(h(u)) <=> Of(e, u)
  <2>1. f(u) \in [1..Len(subs) -> Seq(Edges)]
    BY <1>1, NearElements DEF ListsOf
  <2>2. g(u) \in [1..Len(invs) -> Seq(Edges)]
    BY <1>1, NearElements DEF ListsOf
  <2>3. /\ FlattenSeq(f(u)) \in Seq(Edges)
        /\ \A e : e \in ToSet(FlattenSeq(f(u))) <=>
                    \E k \in 1..Len(subs) : e \in ToSet(f(u)[k])
    <3> HIDE DEF f
    <3> QED
      BY <1>1, <2>1, FlattenMap DEF ListsOf
  <2>4. /\ FlattenSeq(g(u)) \in Seq(Edges)
        /\ \A e : e \in ToSet(FlattenSeq(g(u))) <=>
                    \E k \in 1..Len(invs) : e \in ToSet(g(u)[k])
    <3> HIDE DEF g
    <3> QED
      BY <1>1, <2>2, FlattenMap DEF ListsOf
  <2>5. ASSUME NEW e
        PROVE  e \in ToSet(FlattenSeq(f(u))) <=>
                 \E s \in ToSet(subs) : e \in ToSet(Near(u, s, "subscription"))
    <3>1. \A k \in 1..Len(subs) : f(u)[k] = Near(u, subs[k], "subscription")
      BY <1>1 DEF ListsOf
    <3>2. \A s : s \in ToSet(subs) <=> \E k \in 1..Len(subs) : s = subs[k]
      BY <1>1 DEF ListsOf
    <3> HIDE DEF f
    <3> QED
      BY <2>3, <3>1, <3>2
  <2>6. ASSUME NEW e
        PROVE  e \in ToSet(FlattenSeq(g(u))) <=>
                 \E i \in ToSet(invs) : e \in ToSet(Near(u, i, "invoice"))
    <3>1. \A k \in 1..Len(invs) : g(u)[k] = Near(u, invs[k], "invoice")
      BY <1>1 DEF ListsOf
    <3>2. \A i : i \in ToSet(invs) <=> \E k \in 1..Len(invs) : i = invs[k]
      BY <1>1 DEF ListsOf
    <3> HIDE DEF g
    <3> QED
      BY <2>4, <3>1, <3>2
  <2> HIDE DEF f, g
  <2>7. /\ h(u) \in Seq(Edges)
        /\ \A e : e \in ToSet(h(u)) <=>
                    e \in ToSet(FlattenSeq(f(u))) \/ e \in ToSet(FlattenSeq(g(u)))
    BY <2>3, <2>4, ConcatElements
  <2> QED
    BY <2>5, <2>6, <2>7
<1>5. TemporalProximity(usages, subs, invs) = FlattenSeq(all)
  BY DEF TemporalProximity, ForEach
<1> HIDE DEF h, Of
<1>6. all \in [1..Len(usages) -> Seq(Edges)]
  BY <1>1, <1>4 DEF ListsOf
<1>7. /\ FlattenSeq(all) \in Seq(Edges)
      /\ \A e : e \in ToSet(FlattenSeq(all)) <=>
                  \E k \in 1..Len(usages) : e \in ToSet(all[k])
  <2> HIDE DEF all
  <2> QED
    BY <1>1, <1>6, FlattenMap DEF ListsOf
<1>8. \A e : e \in ToSet(FlattenSeq(all)) <=> \E u \in ToSet(usages) : Of(e, u)
  BY <1>2, <1>4, <1>7
<1> QED
  BY <1>5, <1>7, <1>8 DEF Of

\* A subscription that lists the SKU, and the SKU itself.
LEMMA OverlapElements ==
  ASSUME NEW u \in Usages, NEW s \in Subs
  PROVE  /\ Overlap(u, s) \in Seq(Edges)
         /\ \A e : e \in ToSet(Overlap(u, s)) <=>
              /\ u.sku \in ToSet(s.prices) \/ u.sku \in ToSet(s.products)
              /\ \/ e = Edge(u, s.id, "subscription", 8 * Tenth, "sku_overlap")
                 \/ e = Edge(u, u.sku,
                             IF u.sku \in ToSet(s.prices) THEN "price" ELSE "product",
                             9 * Tenth, "sku_overlap")
<1> DEFINE ids == s.prices \o s.products
           kind == IF u.sku \in ToSet(s.prices) THEN "price" ELSE "product"
           e1 == Edge(u, s.id, "subscription", 8 * Tenth, "sku_overlap")
           e2 == Edge(u, u.sku, kind, 9 * Tenth, "sku_overlap")
           f == [k \in DOMAIN ids |-> IF ids[k] # u.sku THEN <<>> ELSE <<e1, e2>>]
<1>1. s.id \in Identifiers /\ u.sku \in Identifiers
      /\ s.prices \in Seq(Identifiers) /\ s.products \in Seq(Identifiers)
  BY DEF Subs, Usages
<1>2. /\ ids \in Seq(Identifiers)
      /\ \A x : x \in ToSet(ids) <=> x \in ToSet(s.prices) \/ x \in ToSet(s.products)
  BY <1>1, ConcatElements
<1>3. Overlap(u, s) = FlattenSeq(f)
  BY DEF Overlap, ForEach
<1>4. kind \in {"subscription", "invoice", "price", "product"}
  OBVIOUS
<1> HIDE DEF kind
<1>5. e1 \in Edges /\ e2 \in Edges
  BY <1>1, <1>4, Units, EdgeType DEF MatcherNames
<1> HIDE DEF ids, e1, e2
<1>6. /\ Len(ids) \in Nat /\ DOMAIN ids = 1..Len(ids)
      /\ \A x : x \in ToSet(ids) <=> \E k \in 1..Len(ids) : x = ids[k]
  BY <1>2, ListElements
<1>7. f \in [1..Len(ids) -> Seq(Edges)]
  BY <1>5, <1>6
<1>8. \A k \in 1..Len(ids) : \A e : e \in ToSet(f[k]) <=> ids[k] = u.sku /\ (e = e1 \/ e = e2)
  <2>1. ToSet(<<>>) = {} /\ \A e : e \in ToSet(<<e1, e2>>) <=> e = e1 \/ e = e2
    BY DEF ToSet
  <2> QED
    BY <1>6, <2>1
<1> HIDE DEF f
<1>9. /\ FlattenSeq(f) \in Seq(Edges)
      /\ \A e : e \in ToSet(FlattenSeq(f)) <=> \E k \in 1..Len(ids) : e \in ToSet(f[k])
  BY <1>6, <1>7, FlattenMap
<1>10. \A e : e \in ToSet(FlattenSeq(f)) <=> u.sku \in ToSet(ids) /\ (e = e1 \/ e = e2)
  <2>1. u.sku \in ToSet(ids) <=> \E k \in 1..Len(ids) : ids[k] = u.sku
    BY <1>6
  <2>2. ASSUME NEW e
        PROVE  (\E k \in 1..Len(ids) : e \in ToSet(f[k])) <=>
                 (\E k \in 1..Len(ids) : ids[k] = u.sku) /\ (e = e1 \/ e = e2)
    BY <1>8
  <2> QED
    BY <1>9, <2>1, <2>2
<1> QED
  BY <1>2, <1>3, <1>9, <1>10 DEF e1, e2, kind

LEMMA SKUOverlapElements ==
  ASSUME InputsTyped
  PROVE  /\ SKUOverlap(usages, subs, invs) \in Seq(Edges)
         /\ \A e : e \in ToSet(SKUOverlap(usages, subs, invs)) <=>
              \E u \in ToSet(usages) : \E s \in ToSet(subs) : e \in ToSet(Overlap(u, s))
<1> DEFINE f(u) == [k \in DOMAIN subs |-> Overlap(u, subs[k])]
           h(u) == FlattenSeq(f(u))
           all == [k \in DOMAIN usages |-> h(usages[k])]
           Of(e, u) == \E s \in ToSet(subs) : e \in ToSet(Overlap(u, s))
<1>1. ListsOf(usages, Usages) /\ ListsOf(subs, Subs)
  BY InputElements
<1>2. /\ Len(usages) \in Nat /\ DOMAIN usages = 1..Len(usages)
      /\ \A k \in 1..Len(usages) : usages[k] \in Usages
      /\ \A u : u \in ToSet(usages) <=> \E k \in 1..Len(usages) : u = usages[k]
  BY <1>1 DEF ListsOf
<1>3. ASSUME NEW u \in Usages
      PROVE  h(u) \in Seq(Edges) /\ \A e : e \in ToSet(h(u)) <=> Of(e, u)
  <2>1. f(u) \in [1..Len(subs) -> Seq(Edges)]
    BY <1>1, OverlapElements DEF ListsOf
  <2>2. /\ FlattenSeq(f(u)) \in Seq(Edges)
        /\ \A e : e \in ToSet(FlattenSeq(f(u))) <=>
                    \E k \in 1..Len(subs) : e \in ToSet(f(u)[k])
    <3> HIDE DEF f
    <3> QED
      BY <1>1, <2>1, FlattenMap DEF ListsOf
  <2> QED
    BY <1>1, <2>2 DEF ListsOf
<1>4. SKUOverlap(usages, subs, invs) = FlattenSeq(all)
  BY DEF SKUOverlap, ForEach
<1> HIDE DEF h, Of
<1>5. all \in [1..Len(usages) -> Seq(Edges)]
  BY <1>2, <1>3
<1>6. /\ FlattenSeq(all) \in Seq(Edges)
      /\ \A e : e \in ToSet(FlattenSeq(all)) <=>
                  \E k \in 1..Len(usages) : e \in ToSet(all[k])
  <2> HIDE DEF all
  <2> QED
    BY <1>2, <1>5, FlattenMap
<1>7. \A e : e \in ToSet(FlattenSeq(all)) <=> \E u \in ToSet(usages) : Of(e, u)
  BY <1>2, <1>3, <1>6
<1> QED
  BY <1>4, <1>6, <1>7 DEF Of

\* That e is an edge some matcher makes out of the event u.
DeterministicFinds(e, u) ==
  \/ \E s \in ToSet(subs) : e \in ToSet(CustomersSub(u, s))
  \/ \E i \in ToSet(invs) : e \in ToSet(CustomersInv(u, i))
TemporalFinds(e, u) ==
  \/ \E s \in ToSet(subs) : e \in ToSet(Near(u, s, "subscription"))
  \/ \E i \in ToSet(invs) : e \in ToSet(Near(u, i, "invoice"))
SKUFinds(e, u) == \E s \in ToSet(subs) : e \in ToSet(Overlap(u, s))
Finds(e, u) == DeterministicFinds(e, u) \/ TemporalFinds(e, u) \/ SKUFinds(e, u)

\* Match lists what the matchers find in some event, and nothing else.
LEMMA MatchElements ==
  ASSUME InputsTyped
  PROVE  /\ Match(usages, subs, invs) \in Seq(Edges)
         /\ \A e : e \in ToSet(Match(usages, subs, invs)) <=>
                     \E u \in ToSet(usages) : Finds(e, u)
<1> DEFINE d == DeterministicID(usages, subs, invs)
           t == TemporalProximity(usages, subs, invs)
           o == SKUOverlap(usages, subs, invs)
<1>1. /\ d \in Seq(Edges)
      /\ \A e : e \in ToSet(d) <=> \E u \in ToSet(usages) : DeterministicFinds(e, u)
  BY DeterministicIDElements DEF DeterministicFinds
<1>2. /\ t \in Seq(Edges)
      /\ \A e : e \in ToSet(t) <=> \E u \in ToSet(usages) : TemporalFinds(e, u)
  BY TemporalProximityElements DEF TemporalFinds
<1>3. /\ o \in Seq(Edges)
      /\ \A e : e \in ToSet(o) <=> \E u \in ToSet(usages) : SKUFinds(e, u)
  BY SKUOverlapElements DEF SKUFinds
<1>4. Match(usages, subs, invs) = (d \o t) \o o
  BY DEF Match
<1> HIDE DEF d, t, o
<1> DEFINE dt == d \o t
<1>5. dt \in Seq(Edges) /\ \A e : e \in ToSet(dt) <=> e \in ToSet(d) \/ e \in ToSet(t)
  BY <1>1, <1>2, ConcatElements
<1>6. Match(usages, subs, invs) = dt \o o
  BY <1>4
<1> HIDE DEF dt
<1>7. /\ dt \o o \in Seq(Edges)
      /\ \A e : e \in ToSet(dt \o o) <=> e \in ToSet(dt) \/ e \in ToSet(o)
  BY <1>3, <1>5, ConcatElements
<1>8. ASSUME NEW e
      PROVE  e \in ToSet(dt \o o) <=> \E u \in ToSet(usages) : Finds(e, u)
  <2>1. e \in ToSet(dt \o o) <=> e \in ToSet(d) \/ e \in ToSet(t) \/ e \in ToSet(o)
    BY <1>5, <1>7
  <2>2. e \in ToSet(dt \o o) <=>
          \/ \E u \in ToSet(usages) : DeterministicFinds(e, u)
          \/ \E u \in ToSet(usages) : TemporalFinds(e, u)
          \/ \E u \in ToSet(usages) : SKUFinds(e, u)
    BY <1>1, <1>2, <1>3, <2>1
  <2> QED
    BY <2>2 DEF Finds
<1> QED
  BY <1>6, <1>7, <1>8

LEMMA EdgeEqual ==
  ASSUME NEW u, NEW to, NEW kind, NEW c, NEW m, NEW to2, NEW kind2, NEW c2, NEW m2
  PROVE  Edge(u, to, kind, c, m) = Edge(u, to2, kind2, c2, m2) <=>
           to = to2 /\ kind = kind2 /\ c = c2 /\ m = m2
BY DEF Edge

\* The pair of an edge of u.
PairOf(u, to, kind) == [from |-> u.user, to |-> to, kind |-> kind]

\* The deterministic matcher finds what the definition of the property says.
LEMMA DeterministicConfidences ==
  ASSUME InputsTyped, NEW u \in ToSet(usages), NEW to, NEW kind, NEW c, NEW m
  PROVE  DeterministicFinds(Edge(u, to, kind, c, m), u) <=>
           /\ m = "deterministic_id"
           /\ c \in Confidences(u, PairOf(u, to, kind))["deterministic_id"]
<1> DEFINE S == ToSet(subs)
           I == ToSet(invs)
           Billing == {s \in S : kind = "subscription" /\ to = s.id}
                        \cup {i \in I : kind = "invoice" /\ to = i.id}
           Selling == {s \in S : to = u.sku /\ (\/ kind = "price" /\ u.sku \in ToSet(s.prices)
                                                \/ kind = "product" /\ u.sku \in ToSet(s.products))}
           e == Edge(u, to, kind, c, m)
           det == "deterministic_id"
<1>1. u \in Usages /\ (\A s \in S : s \in Subs) /\ (\A i \in I : i \in Invs)
  BY ListElements DEF InputsTyped
<1>2. Confidences(u, PairOf(u, to, kind))[det] =
        {One : x \in {y \in Billing \cup Selling : y.customer = u.user}}
  BY DEF Confidences, PairOf
<1>3. ASSUME NEW s \in S
      PROVE  e \in ToSet(CustomersSub(u, s)) <=>
               /\ s.customer = u.user /\ m = det /\ c = One
               /\ \/ kind = "subscription" /\ to = s.id
                  \/ kind = "price" /\ to = u.sku /\ u.sku \in ToSet(s.prices)
                  \/ kind = "product" /\ to = u.sku /\ u.sku \in ToSet(s.products)
  BY <1>1, CustomersSubElements, EdgeEqual
<1>4. ASSUME NEW i \in I
      PROVE  e \in ToSet(CustomersInv(u, i)) <=>
               i.customer = u.user /\ m = det /\ c = One /\ kind = "invoice" /\ to = i.id
  BY <1>1, CustomersInvElements, EdgeEqual
<1>5. DeterministicFinds(e, u) <=>
        m = det /\ c = One /\ \E y \in Billing \cup Selling : y.customer = u.user
  BY <1>3, <1>4 DEF DeterministicFinds
<1> QED
  BY <1>2, <1>5

\* So does the temporal one.
LEMMA TemporalConfidences ==
  ASSUME InputsTyped, NEW u \in ToSet(usages), NEW to, NEW kind, NEW c, NEW m
  PROVE  TemporalFinds(Edge(u, to, kind, c, m), u) <=>
           /\ m = "temporal_proximity"
           /\ c \in Confidences(u, PairOf(u, to, kind))["temporal_proximity"]
<1> DEFINE S == ToSet(subs)
           I == ToSet(invs)
           Billing == {s \in S : kind = "subscription" /\ to = s.id}
                        \cup {i \in I : kind = "invoice" /\ to = i.id}
           Close(x) == WindowSec > 0 /\ Distance(u.at, x.created) <= WindowSec
           e == Edge(u, to, kind, c, m)
           near == "temporal_proximity"
<1>1. u \in Usages /\ (\A s \in S : s \in Subs) /\ (\A i \in I : i \in Invs)
  BY ListElements DEF InputsTyped
<1>2. Confidences(u, PairOf(u, to, kind))[near] =
        {TemporalConfidence(u.at, x.created) : x \in {y \in Billing : Close(y)}}
  BY DEF Confidences, PairOf
<1>3. ASSUME NEW s \in S
      PROVE  e \in ToSet(Near(u, s, "subscription")) <=>
               /\ Close(s) /\ m = near /\ c = TemporalConfidence(u.at, s.created)
               /\ kind = "subscription" /\ to = s.id
  BY <1>1, NearElements, EdgeEqual
<1>4. ASSUME NEW i \in I
      PROVE  e \in ToSet(Near(u, i, "invoice")) <=>
               /\ Close(i) /\ m = near /\ c = TemporalConfidence(u.at, i.created)
               /\ kind = "invoice" /\ to = i.id
  BY <1>1, NearElements, EdgeEqual
<1>5. TemporalFinds(e, u) <=>
        m = near /\ \E y \in Billing : Close(y) /\ c = TemporalConfidence(u.at, y.created)
  BY <1>3, <1>4 DEF TemporalFinds
<1> QED
  BY <1>2, <1>5

\* And the third, for which the price goes before the product.
LEMMA SKUConfidences ==
  ASSUME InputsTyped, NEW u \in ToSet(usages), NEW to, NEW kind, NEW c, NEW m
  PROVE  SKUFinds(Edge(u, to, kind, c, m), u) <=>
           /\ m = "sku_overlap"
           /\ c \in Confidences(u, PairOf(u, to, kind))["sku_overlap"]
<1> DEFINE S == ToSet(subs)
           Priced(s) == kind = "price" /\ u.sku \in ToSet(s.prices)
           Made(s) == kind = "product" /\ u.sku \in ToSet(s.products)
           OnlyMade(s) == Made(s) /\ u.sku \notin ToSet(s.prices)
           Selling == {s \in S : to = u.sku /\ (Priced(s) \/ Made(s))}
           Listing == {s \in S : (kind = "subscription" /\ to = s.id) /\
                                   u.sku \in ToSet(s.prices) \cup ToSet(s.products)}
           e == Edge(u, to, kind, c, m)
           sku == "sku_overlap"
<1>1. u \in Usages /\ (\A s \in S : s \in Subs)
  BY ListElements DEF InputsTyped
<1>2. Confidences(u, PairOf(u, to, kind))[sku] =
        {8 * Tenth : s \in Listing}
          \cup {9 * Tenth : s \in {s \in Selling : Priced(s) \/ OnlyMade(s)}}
  BY DEF Confidences, PairOf
<1>3. ASSUME NEW s \in S
      PROVE  e \in ToSet(Overlap(u, s)) <=>
               /\ m = sku
               /\ \/ c = 8 * Tenth /\ s \in Listing
                  \/ c = 9 * Tenth /\ to = u.sku /\ (Priced(s) \/ OnlyMade(s))
  BY <1>1, OverlapElements, EdgeEqual
<1>4. SKUFinds(e, u) <=>
        /\ m = sku
        /\ \/ c = 8 * Tenth /\ Listing # {}
           \/ c = 9 * Tenth /\ \E s \in Selling : Priced(s) \/ OnlyMade(s)
  BY <1>3 DEF SKUFinds
<1> QED
  BY <1>2, <1>4

\* What is found has the form of an edge of the event.
LEMMA FindsForm ==
  ASSUME InputsTyped, NEW u \in ToSet(usages), NEW e, Finds(e, u)
  PROVE  \E to, kind, c : \E m \in MatcherNames : e = Edge(u, to, kind, c, m)
<1>1. /\ u \in Usages
      /\ (\A s \in ToSet(subs) : s \in Subs) /\ (\A i \in ToSet(invs) : i \in Invs)
  BY ListElements DEF InputsTyped
<1>2. CASE DeterministicFinds(e, u)
  BY <1>1, <1>2, CustomersSubElements, CustomersInvElements
     DEF DeterministicFinds, MatcherNames
<1>3. CASE TemporalFinds(e, u)
  BY <1>1, <1>3, NearElements DEF TemporalFinds, MatcherNames
<1>4. CASE SKUFinds(e, u)
  BY <1>1, <1>4, OverlapElements DEF SKUFinds, MatcherNames
<1> QED
  BY <1>2, <1>3, <1>4 DEF Finds

\* The raw edges of a pair are, for each event of its user, the confidences
\* that the property's definition gives it.
LEMMA RawEdges ==
  ASSUME InputsTyped, NEW e
  PROVE  e \in ToSet(Match(usages, subs, invs)) <=>
           \E u \in ToSet(usages), m \in MatcherNames : \E to, kind, c :
             /\ e = Edge(u, to, kind, c, m)
             /\ c \in Confidences(u, PairOf(u, to, kind))[m]
<1>1. ASSUME NEW u \in ToSet(usages), NEW to, NEW kind, NEW c, NEW m \in MatcherNames
      PROVE  Finds(Edge(u, to, kind, c, m), u) <=>
               c \in Confidences(u, PairOf(u, to, kind))[m]
  BY DeterministicConfidences, TemporalConfidences, SKUConfidences
     DEF Finds, MatcherNames
<1>2. ASSUME NEW u \in ToSet(usages), Finds(e, u)
      PROVE  \E to, kind, c : \E m \in MatcherNames :
               e = Edge(u, to, kind, c, m) /\ c \in Confidences(u, PairOf(u, to, kind))[m]
  BY <1>1, <1>2, FindsForm
<1>3. ASSUME NEW u \in ToSet(usages), NEW to, NEW kind, NEW c, NEW m \in MatcherNames,
             e = Edge(u, to, kind, c, m), c \in Confidences(u, PairOf(u, to, kind))[m]
      PROVE  Finds(e, u)
  BY <1>1, <1>3
<1> QED
  BY <1>2, <1>3, MatchElements

-----------------------------------------------------------------------------
(* The ensemble *)

LEMMA ProductType ==
  ASSUME NEW a \in Nat, NEW b \in Nat
  PROVE  a * b \in Nat
OBVIOUS

LEMMA ProductMonotonic ==
  ASSUME NEW w \in Nat, NEW a \in Nat, NEW b \in Nat, a <= b
  PROVE  w * a <= w * b
OBVIOUS

LEMMA GroupElements ==
  ASSUME NEW edges \in Seq(Edges), NEW key
  PROVE  /\ Group(edges, key) \in Seq(Edges)
         /\ \A e : e \in ToSet(Group(edges, key)) <=> e \in ToSet(edges) /\ Key(e) = key
<1> DEFINE f == [k \in DOMAIN edges |-> IF Key(edges[k]) = key THEN <<edges[k]>> ELSE <<>>]
<1>1. Len(edges) \in Nat /\ DOMAIN edges = 1..Len(edges)
      /\ (\A k \in 1..Len(edges) : edges[k] \in Edges)
      /\ (\A x : x \in ToSet(edges) <=> \E k \in 1..Len(edges) : x = edges[k])
  BY ListElements, ElementOfSeq
<1>2. f \in [1..Len(edges) -> Seq(Edges)]
  BY <1>1
<1>3. \A k \in 1..Len(edges) : \A e :
        e \in ToSet(f[k]) <=> e = edges[k] /\ Key(edges[k]) = key
  BY <1>1 DEF ToSet
<1>4. Group(edges, key) = FlattenSeq(f)
  BY DEF Group, ForEach
<1> HIDE DEF f
<1>5. /\ FlattenSeq(f) \in Seq(Edges)
      /\ \A e : e \in ToSet(FlattenSeq(f)) <=> \E k \in 1..Len(edges) : e \in ToSet(f[k])
  BY <1>1, <1>2, FlattenMap
<1>6. ASSUME NEW e
      PROVE  (\E k \in 1..Len(edges) : e = edges[k] /\ Key(edges[k]) = key) <=>
               e \in ToSet(edges) /\ Key(e) = key
  BY <1>1
<1>7. ASSUME NEW e
      PROVE  (\E k \in 1..Len(edges) : e \in ToSet(f[k])) <=>
               (\E k \in 1..Len(edges) : e = edges[k] /\ Key(edges[k]) = key)
  BY <1>3
<1> QED
  BY <1>4, <1>5, <1>6, <1>7

\* What the loop of calculateWeightedScore keeps for each matcher: the best
\* weighted confidence of its edges, or 0.
IsBest(best, edges) ==
  \A m \in MatcherNames :
    /\ best[m] \in Nat
    /\ \A e \in ToSet(edges) : e.matcher = m => Weight(m) * e.confidence <= best[m]
    /\ best[m] # 0 => \E e \in ToSet(edges) :
                         e.matcher = m /\ best[m] = Weight(m) * e.confidence

LEMMA WeightType == \A m \in MatcherNames : Weight(m) \in Nat
BY MatcherAssumption DEF MatcherNames, Weight

LEMMA WeightedScoreIsBest ==
  ASSUME NEW edges \in Seq(Edges)
  PROVE  \E best \in [MatcherNames -> Nat] :
           /\ IsBest(best, edges)
           /\ WeightedScore(edges) = best["deterministic_id"]
                + best["temporal_proximity"] + best["sku_overlap"]
<1> DEFINE n == Len(edges)
           Weighted(k) == Weight(edges[k].matcher) * edges[k].confidence
           Kept(old, k) == IF Weighted(k) > old[edges[k].matcher]
                           THEN [old EXCEPT ![edges[k].matcher] = Weighted(k)] ELSE old
           zero == [m \in MatcherNames |-> 0]
           Body(g) == [k \in 0..n |-> IF k = 0 THEN zero ELSE Kept(g[k - 1], k)]
           Starts(g, k) == \A i \in 0..k : g[i] = IF i = 0 THEN zero ELSE Kept(g[i - 1], i)
           Prefix(k) == {g \in [0..k -> [MatcherNames -> Nat]] : Starts(g, k)}
           K == {k \in Nat : k <= n => Prefix(k) # {}}
           f == CHOOSE g : g = Body(g)
<1>1. n \in Nat /\ DOMAIN edges = 1..n
      /\ (\A k \in 1..n : edges[k] \in Edges)
      /\ (\A x : x \in ToSet(edges) <=> \E k \in 1..n : x = edges[k])
  BY ListElements, ElementOfSeq
<1>2. \A k \in 1..n : /\ edges[k].matcher \in MatcherNames
                      /\ edges[k].confidence \in Nat
                      /\ Weighted(k) \in Nat
  BY <1>1, WeightType, ProductType, Units DEF Edges
<1> HIDE DEF Weighted
<1>3. \A k \in 1..n : \A old \in [MatcherNames -> Nat] :
        Kept(old, k) \in [MatcherNames -> Nat]
  BY <1>2
<1> HIDE DEF Kept
<1>4. 0 \in K
  <2>1. zero \in [MatcherNames -> Nat]
    OBVIOUS
  <2> HIDE DEF zero
  <2>2. [i \in 0..0 |-> zero] \in Prefix(0)
    BY <2>1
  <2> QED
    BY <2>2
<1>5. ASSUME NEW k \in Nat, k \in K
      PROVE  k + 1 \in K
  <2>1. SUFFICES ASSUME k + 1 <= n
                 PROVE  Prefix(k + 1) # {}
    <3> HIDE DEF Prefix
    <3> QED
      OBVIOUS
  <2>2. PICK g : g \in [0..k -> [MatcherNames -> Nat]] /\ Starts(g, k)
    <3> HIDE DEF Starts, zero
    <3>1. k <= n
      BY <1>1, <2>1
    <3>2. Prefix(k) # {}
      BY <1>5, <3>1
    <3> QED
      BY <3>2
  <2> DEFINE h == [i \in 0..(k + 1) |-> IF i <= k THEN g[i] ELSE Kept(g[k], k + 1)]
  <2>3. k + 1 \in 1..n /\ g[k] \in [MatcherNames -> Nat]
    BY <1>1, <2>1, <2>2
  <2>4. Kept(g[k], k + 1) \in [MatcherNames -> Nat]
    BY <1>3, <2>3
  <2>5. h \in [0..(k + 1) -> [MatcherNames -> Nat]]
    BY <2>2, <2>4
  <2>6. ASSUME NEW i \in 0..(k + 1)
        PROVE  h[i] = IF i = 0 THEN zero ELSE Kept(h[i - 1], i)
    <3>1. CASE i <= k
      <4>1. i \in 0..k /\ h[i] = g[i]
        BY <3>1
      <4>2. i # 0 => i - 1 \in 0..(k + 1) /\ i - 1 <= k
        BY <3>1
      <4>3. i # 0 => h[i - 1] = g[i - 1]
        BY <4>2
      <4> QED
        BY <2>2, <4>1, <4>3
    <3>2. CASE i = k + 1
      <4>1. h[i] = Kept(g[k], k + 1)
        BY <3>2
      <4>2. i # 0 /\ k \in 0..(k + 1) /\ i - 1 = k /\ h[k] = g[k]
        BY <3>2
      <4> QED
        BY <3>2, <4>1, <4>2
    <3> QED
      BY <3>1, <3>2
  <2>7. h \in Prefix(k + 1)
    BY <2>5, <2>6
  <2> QED
    BY <2>7
<1>6. n \in K
  <2> HIDE DEF K
  <2> QED
    BY <1>1, <1>4, <1>5, SetInduction
<1>7. PICK g : g \in [0..n -> [MatcherNames -> Nat]] /\ Starts(g, n)
  BY <1>1, <1>6
<1>8. g = Body(g)
  BY <1>7
<1>9. f = Body(f)
  BY <1>8
<1>10. WeightedScore(edges) = f[n]["deterministic_id"] + f[n]["temporal_proximity"]
                                + f[n]["sku_overlap"]
  BY DEF WeightedScore, Kept, Weighted
<1> HIDE DEF f
<1>11. f[0] = zero /\ \A k \in 1..n : f[k] = Kept(f[k - 1], k)
  BY <1>1, <1>9
<1> DEFINE Upto(k) ==
      /\ f[k] \in [MatcherNames -> Nat]
      /\ \A m \in MatcherNames :
           /\ \A i \in 1..k : edges[i].matcher = m => Weighted(i) <= f[k][m]
           /\ f[k][m] # 0 => \E i \in 1..k : edges[i].matcher = m /\ f[k][m] = Weighted(i)
           L == {k \in Nat : k <= n => Upto(k)}
<1>12. 0 \in L
  BY <1>11
<1>13. ASSUME NEW k \in Nat, k \in L
       PROVE  k + 1 \in L
  <2>1. SUFFICES ASSUME k + 1 <= n
                 PROVE  Upto(k + 1)
    <3> HIDE DEF Upto
    <3> QED
      OBVIOUS
  <2>2. Upto(k) /\ k + 1 \in 1..n /\ (k + 1) - 1 = k
    BY <1>1, <1>13, <2>1
  <2>3. f[k + 1] = Kept(f[k], k + 1)
    BY <1>11, <2>2
  <2>4. f[k + 1] \in [MatcherNames -> Nat]
    BY <1>3, <2>2, <2>3
  <2>5. \A i \in 1..(k + 1) : i \in 1..k \/ i = k + 1
    OBVIOUS
  <2>6. ASSUME NEW m \in MatcherNames
        PROVE  /\ \A i \in 1..(k + 1) : edges[i].matcher = m => Weighted(i) <= f[k + 1][m]
               /\ f[k + 1][m] # 0 =>
                    \E i \in 1..(k + 1) : edges[i].matcher = m /\ f[k + 1][m] = Weighted(i)
    <3>1. CASE Weighted(k + 1) > f[k][m] /\ edges[k + 1].matcher = m
      <4>1. f[k + 1][m] = Weighted(k + 1)
        BY <2>2, <2>3, <3>1 DEF Kept
      <4>2. \A i \in 1..k : edges[i].matcher = m => Weighted(i) <= Weighted(k + 1)
        <5>1. \A i \in 1..k : edges[i].matcher = m => Weighted(i) <= f[k][m]
          BY <2>2
        <5>2. \A i \in 1..k : Weighted(i) \in Nat
          BY <1>1, <1>2, <2>1
        <5>3. f[k][m] \in Nat /\ Weighted(k + 1) \in Nat
          BY <1>2, <2>2
        <5> QED
          BY <3>1, <5>1, <5>2, <5>3
      <4>3. Weighted(k + 1) <= Weighted(k + 1) /\ k + 1 \in 1..(k + 1)
        BY <1>2, <2>2
      <4> QED
        BY <2>5, <3>1, <4>1, <4>2, <4>3
    <3>2. CASE ~ (Weighted(k + 1) > f[k][m] /\ edges[k + 1].matcher = m)
      <4>1. f[k + 1][m] = f[k][m]
        BY <1>2, <2>2, <2>3, <3>2 DEF Kept
      <4>2. edges[k + 1].matcher = m => Weighted(k + 1) <= f[k][m]
        <5>1. f[k][m] \in Nat /\ Weighted(k + 1) \in Nat
          BY <1>2, <2>2
        <5> QED
          BY <3>2, <5>1
      <4>3. \A i \in 1..k : i \in 1..(k + 1)
        OBVIOUS
      <4> QED
        BY <2>2, <2>5, <4>1, <4>2, <4>3
    <3> QED
      BY <3>1, <3>2
  <2> QED
    BY <2>4, <2>6
<1>14. Upto(n)
  <2>1. n \in L
    <3> HIDE DEF L
    <3> QED
      BY <1>1, <1>12, <1>13, SetInduction
  <2> QED
    BY <1>1, <2>1
<1>15. IsBest(f[n], edges)
  BY <1>1, <1>14 DEF IsBest, Weighted
<1> QED
  BY <1>10, <1>14, <1>15

-----------------------------------------------------------------------------
(* Combine accepts what the inputs justify *)

\* A pair that has an edge is one of a user and a record or SKU of the inputs.
LEMMA KeysArePairs ==
  ASSUME InputsTyped, NEW e \in ToSet(Match(usages, subs, invs))
  PROVE  Key(e) \in Pairs
<1>1. PICK u \in ToSet(usages) : Finds(e, u)
  BY MatchElements
<1>2. /\ u \in Usages
      /\ (\A s \in ToSet(subs) : s \in Subs) /\ (\A i \in ToSet(invs) : i \in Invs)
  BY ListElements DEF InputsTyped
<1>3. PICK to, kind, c, m :
        /\ e = Edge(u, to, kind, c, m)
        /\ kind \in {"subscription", "invoice", "price", "product"}
        /\ \/ \E s \in ToSet(subs) : to = s.id
           \/ \E i \in ToSet(invs) : to = i.id
           \/ to = u.sku
  <2>1. CASE DeterministicFinds(e, u)
    BY <1>2, <2>1, CustomersSubElements, CustomersInvElements DEF DeterministicFinds
  <2>2. CASE TemporalFinds(e, u)
    BY <1>2, <2>2, NearElements DEF TemporalFinds
  <2>3. CASE SKUFinds(e, u)
    BY <1>2, <2>3, OverlapElements DEF SKUFinds
  <2> QED
    BY <1>1, <2>1, <2>2, <2>3 DEF Finds
<1>4. Key(e) = [from |-> u.user, to |-> to, kind |-> kind]
  BY <1>3 DEF Key, Edge
<1>5. /\ u.user \in {v.user : v \in ToSet(usages)}
      /\ to \in {s.id : s \in ToSet(subs)} \cup {i.id : i \in ToSet(invs)}
                  \cup {v.sku : v \in ToSet(usages)}
  BY <1>3
<1> QED
  BY <1>3, <1>4, <1>5 DEF Pairs

\* The edges of a pair, in terms of what is found for it.
LEMMA PairEdges ==
  ASSUME InputsTyped, NEW key \in Pairs, NEW e
  PROVE  e \in ToSet(Group(Match(usages, subs, invs), key)) <=>
           \E u \in Events(key), m \in MatcherNames :
             \E c \in Confidences(u, key)[m] : e = Edge(u, key.to, key.kind, c, m)
<1> DEFINE R == Match(usages, subs, invs)
<1>1. e \in ToSet(Group(R, key)) <=> e \in ToSet(R) /\ Key(e) = key
  BY MatchElements, GroupElements
<1>2. key = [from |-> key.from, to |-> key.to, kind |-> key.kind]
  BY DEF Pairs
<1>3. ASSUME NEW u \in ToSet(usages), NEW to, NEW kind, NEW c, NEW m
      PROVE  /\ Key(Edge(u, to, kind, c, m)) = PairOf(u, to, kind)
             /\ PairOf(u, to, kind) = key <=>
                  u.user = key.from /\ to = key.to /\ kind = key.kind
  BY <1>2 DEF Key, Edge, PairOf
<1>4. ASSUME e \in ToSet(R), Key(e) = key
      PROVE  \E u \in Events(key), m \in MatcherNames :
               \E c \in Confidences(u, key)[m] : e = Edge(u, key.to, key.kind, c, m)
  <2>1. PICK u \in ToSet(usages), m \in MatcherNames : \E to, kind, c :
               /\ e = Edge(u, to, kind, c, m)
               /\ c \in Confidences(u, PairOf(u, to, kind))[m]
    BY <1>4, RawEdges
  <2>2. PICK to, kind, c : /\ e = Edge(u, to, kind, c, m)
                           /\ c \in Confidences(u, PairOf(u, to, kind))[m]
    BY <2>1
  <2>3. PairOf(u, to, kind) = key /\ u.user = key.from /\ to = key.to /\ kind = key.kind
    BY <1>3, <1>4, <2>2
  <2>4. u \in Events(key)
    BY <2>3 DEF Events
  <2> QED
    BY <2>2, <2>3, <2>4
<1>5. ASSUME NEW u \in Events(key), NEW m \in MatcherNames, NEW c \in Confidences(u, key)[m],
             e = Edge(u, key.to, key.kind, c, m)
      PROVE  e \in ToSet(R) /\ Key(e) = key
  <2>1. u \in ToSet(usages) /\ u.user = key.from
    BY DEF Events
  <2>2. PairOf(u, key.to, key.kind) = key /\ Key(e) = key
    BY <1>3, <1>5, <2>1
  <2> QED
    BY <1>5, <2>1, <2>2, RawEdges
<1> QED
  BY <1>1, <1>4, <1>5

\* No matcher is more than certain.
LEMMA FoundType ==
  ASSUME InputsTyped, NEW key \in Pairs, NEW m \in MatcherNames
  PROVE  Found(m, key) \subseteq 0..One
<1> SUFFICES ASSUME NEW u \in Events(key), NEW c \in Confidences(u, key)[m]
             PROVE  c \in 0..One
  BY DEF Found
<1> DEFINE e == Edge(u, key.to, key.kind, c, m)
<1>1. e \in ToSet(Group(Match(usages, subs, invs), key))
  BY PairEdges
<1>2. e \in Edges
  BY <1>1, MatchElements, GroupElements, ListElements
<1>3. e.confidence = c
  BY DEF Edge
<1> QED
  BY <1>2, <1>3 DEF Edges

\* The best that a matcher found, or 0.
LEMMA BestFound ==
  ASSUME InputsTyped, NEW key \in Pairs, NEW m \in MatcherNames
  PROVE  /\ Max(Found(m, key) \cup {0}) \in Found(m, key) \cup {0}
         /\ \A c \in Found(m, key) \cup {0} : c <= Max(Found(m, key) \cup {0})
<1> DEFINE F == Found(m, key) \cup {0}
<1>1. F \in SUBSET Nat /\ F # {} /\ (\A c \in F : c <= One) /\ One \in Nat
  BY FoundType, Units
<1> HIDE DEF F
<1>2. Max(F) \in F /\ \A c \in F : c <= Max(F)
  BY <1>1, MaxOfBounded
<1> QED
  BY <1>2 DEF F

\* The loop of calculateWeightedScore adds up the best that each matcher
\* found, however often and in whichever event it found it.
LEMMA PairScore ==
  ASSUME InputsTyped, NEW key \in Pairs
  PROVE  /\ WeightedScore(Group(Match(usages, subs, invs), key)) = Score(key)
         /\ Score(key) \in Nat
<1> DEFINE g == Group(Match(usages, subs, invs), key)
           Top(m) == Max(Found(m, key) \cup {0})
<1>1. g \in Seq(Edges)
  BY MatchElements, GroupElements
<1>2. \A e : e \in ToSet(g) <=>
              \E u \in Events(key), m \in MatcherNames :
                \E c \in Confidences(u, key)[m] : e = Edge(u, key.to, key.kind, c, m)
  BY PairEdges
<1> HIDE DEF g
<1>3. PICK best \in [MatcherNames -> Nat] :
        /\ IsBest(best, g)
        /\ WeightedScore(g) = best["deterministic_id"] + best["temporal_proximity"]
                                + best["sku_overlap"]
  BY <1>1, WeightedScoreIsBest
<1>4. \A u, c, m : /\ Edge(u, key.to, key.kind, c, m).confidence = c
                   /\ Edge(u, key.to, key.kind, c, m).matcher = m
  BY DEF Edge
<1>5. ASSUME NEW m \in MatcherNames
      PROVE  best[m] = Weight(m) * Top(m)
  <2>1. Found(m, key) \subseteq 0..One /\ One \in Nat /\ Weight(m) \in Nat
    BY FoundType, Units, WeightType
  <2>2. Top(m) \in Found(m, key) \cup {0} /\ \A c \in Found(m, key) \cup {0} : c <= Top(m)
    BY BestFound
  <2> HIDE DEF Top
  <2>3. Top(m) \in Nat /\ best[m] \in Nat /\ Weight(m) * Top(m) \in Nat
    BY <2>1, <2>2, ProductType
  <2>4. best[m] <= Weight(m) * Top(m)
    <3>1. CASE best[m] = 0
      BY <2>3, <3>1
    <3>2. CASE best[m] # 0
      <4>1. PICK e \in ToSet(g) : e.matcher = m /\ best[m] = Weight(m) * e.confidence
        BY <1>3, <3>2 DEF IsBest
      <4>2. e.confidence \in Found(m, key)
        BY <1>2, <1>4, <4>1 DEF Found
      <4>3. e.confidence \in Nat /\ e.confidence <= Top(m)
        BY <2>1, <2>2, <4>2
      <4> QED
        BY <2>1, <2>3, <4>1, <4>3, ProductMonotonic
    <3> QED
      BY <3>1, <3>2
  <2>5. Weight(m) * Top(m) <= best[m]
    <3>1. CASE Top(m) = 0
      <4>1. Weight(m) * Top(m) = 0
        BY <2>1, <3>1
      <4> QED
        BY <2>3, <4>1
    <3>2. CASE Top(m) \in Found(m, key)
      <4>1. PICK u \in Events(key) : Top(m) \in Confidences(u, key)[m]
        BY <3>2 DEF Found
      <4>2. Edge(u, key.to, key.kind, Top(m), m) \in ToSet(g)
        BY <1>2, <4>1
      <4> QED
        BY <1>3, <1>4, <4>2 DEF IsBest
    <3> QED
      BY <2>2, <3>1, <3>2
  <2> QED
    BY <2>3, <2>4, <2>5
<1>6. WeightedScore(g) = Score(key)
  BY <1>3, <1>5 DEF Score, MatcherNames
<1>7. Score(key) \in Nat
  <2>1. best["deterministic_id"] \in Nat /\ best["temporal_proximity"] \in Nat
        /\ best["sku_overlap"] \in Nat
    BY <1>3 DEF MatcherNames
  <2> QED
    BY <1>3, <1>6, <2>1
<1> QED
  BY <1>6, <1>7 DEF g

\* The times of the edges of a pair, which have a latest one.
LEMMA PairTimes ==
  ASSUME InputsTyped, NEW key \in Pairs
  PROVE  /\ {e.at : e \in ToSet(Group(Match(usages, subs, invs), key))} = FoundAt(key)
         /\ FoundAt(key) # {} => /\ Max(FoundAt(key)) \in FoundAt(key)
                                 /\ \A t \in FoundAt(key) : t <= Max(FoundAt(key))
<1> DEFINE g == Group(Match(usages, subs, invs), key)
<1>1. \A e : e \in ToSet(g) <=>
              \E u \in Events(key), m \in MatcherNames :
                \E c \in Confidences(u, key)[m] : e = Edge(u, key.to, key.kind, c, m)
  BY PairEdges
<1>2. \A u, c, m : Edge(u, key.to, key.kind, c, m).at = u.at
  BY DEF Edge
<1>3. {e.at : e \in ToSet(g)} = FoundAt(key)
  <2> HIDE DEF g
  <2>1. ASSUME NEW e \in ToSet(g)
        PROVE  e.at \in FoundAt(key)
    BY <1>1, <1>2 DEF FoundAt
  <2>2. ASSUME NEW t \in FoundAt(key)
        PROVE  \E e \in ToSet(g) : t = e.at
    <3>1. PICK u \in Events(key), m \in MatcherNames :
            t = u.at /\ Confidences(u, key)[m] # {}
      BY DEF FoundAt
    <3>2. PICK c : c \in Confidences(u, key)[m]
      BY <3>1
    <3>3. Edge(u, key.to, key.kind, c, m) \in ToSet(g)
      BY <1>1, <3>2
    <3> QED
      BY <1>2, <3>1, <3>3
  <2> QED
    BY <2>1, <2>2
<1>4. PICK b \in Nat : \A k \in 1..Len(usages) : usages[k].at <= b
  <2> DEFINE f == [k \in 1..Len(usages) |-> usages[k].at]
  <2>1. ListsOf(usages, Usages)
    BY InputElements
  <2>2. f \in [1..Len(usages) -> Nat] /\ Len(usages) \in Nat
    BY <2>1 DEF ListsOf, Usages
  <2>3. \E b \in Nat : \A k \in 1..Len(usages) : f[k] <= b
    <3> HIDE DEF f
    <3> QED
      BY <2>2, ListIsBounded
  <2> QED
    BY <2>3
<1>5. FoundAt(key) \in SUBSET Nat /\ \A t \in FoundAt(key) : t <= b
  <2>1. ListsOf(usages, Usages)
    BY InputElements
  <2>2. \A u \in ToSet(usages) : u.at \in Nat /\ u.at <= b
    BY <1>4, <2>1 DEF ListsOf, Usages
  <2> QED
    BY <2>2 DEF FoundAt, Events
<1>6. FoundAt(key) # {} => /\ Max(FoundAt(key)) \in FoundAt(key)
                           /\ \A t \in FoundAt(key) : t <= Max(FoundAt(key))
  BY <1>5, MaxOfBounded
<1> QED
  BY <1>3, <1>6 DEF g

\* Combine returns exactly the edges that the inputs justify.
LEMMA CombineIsJustified ==
  ASSUME InputsTyped
  PROVE  Combine(Match(usages, subs, invs)) = UNION {Justified(key) : key \in Pairs}
<1> DEFINE R == Match(usages, subs, invs)
           Keys == {Key(e) : e \in ToSet(R)}
           Result(key) == [from |-> key.from, to |-> key.to, kind |-> key.kind,
                           confidence |-> IF Score(key) > 10 * One THEN 10 * One
                                          ELSE Score(key),
                           at |-> Max(FoundAt(key))]
           Enough(key) == Score(key) >= Threshold * One
<1>1. Keys \subseteq Pairs
  BY KeysArePairs
<1>2. ASSUME NEW key \in Pairs
      PROVE  /\ key \in Keys <=> FoundAt(key) # {}
             /\ WeightedScore(Group(R, key)) = Score(key)
             /\ Consolidated(key, Group(R, key), Score(key)) = Result(key)
             /\ Enough(key) <=> ~ (Score(key) < Threshold * One)
  <2>1. \A e : e \in ToSet(Group(R, key)) <=> e \in ToSet(R) /\ Key(e) = key
    BY MatchElements, GroupElements
  <2>2. {e.at : e \in ToSet(Group(R, key))} = FoundAt(key)
    BY PairTimes
  <2>3. WeightedScore(Group(R, key)) = Score(key) /\ Score(key) \in Nat
    BY PairScore
  <2>4. Threshold * One \in Nat
    BY Units, ProductType, MatcherAssumption
  <2>5. Enough(key) <=> ~ (Score(key) < Threshold * One)
    BY <2>3, <2>4
  <2>6. key \in Keys <=> FoundAt(key) # {}
    <3> HIDE DEF R
    <3> QED
      BY <2>1, <2>2
  <2>7. Consolidated(key, Group(R, key), Score(key)) = Result(key)
    BY <2>2 DEF Consolidated, Merged
  <2> QED
    BY <2>3, <2>5, <2>6, <2>7
<1>3. Combine(R) = {Consolidated(key, Group(R, key), WeightedScore(Group(R, key))) :
                      key \in {k \in Keys : WeightedScore(Group(R, k)) >= Threshold * One}}
  BY DEF Combine
<1>4. \A key : Justified(key) =
        IF FoundAt(key) = {} \/ Score(key) < Threshold * One THEN {} ELSE {Result(key)}
  BY DEF Justified
<1> HIDE DEF R, Keys, Result
<1>5. Combine(R) = {Result(key) : key \in {k \in Keys : Enough(k)}}
  BY <1>1, <1>2, <1>3
<1>6. UNION {Justified(key) : key \in Pairs} =
        {Result(key) : key \in {k \in Keys : Enough(k)}}
  BY <1>1, <1>2, <1>4
<1> QED
  BY <1>5, <1>6 DEF R

-----------------------------------------------------------------------------
(* A run of the pipeline *)

\* What holds between the variables while the run goes on, and where it
\* stopped.
Computed ==
  /\ InputsTyped
  /\ pc \in {"validate", "match", "combine", "export", "done", "failed"}
  /\ pc \in {"match", "combine", "export", "done"} => Valid
  /\ pc \in {"validate", "match"} => raw = <<>>
  /\ pc \in {"combine", "export", "done"} => raw = Match(usages, subs, invs)
  /\ raw = <<>> \/ (Valid /\ raw = Match(usages, subs, invs))
  /\ pc \in {"validate", "match", "combine"} => accepted = {}
  /\ pc \in {"export", "done"} => accepted = Combine(Match(usages, subs, invs))
  /\ accepted = {} \/ (Valid /\ accepted = Combine(Match(usages, subs, invs)))

\* What has been enqueued: each edge once, the more certain before the less.
Exported ==
  /\ enqueued \in Seq(accepted)
  /\ \A e \in ToSet(enqueued), f \in Remaining : e.confidence >= f.confidence
  /\ IsFiniteSet(ToSet(enqueued)) /\ Cardinality(ToSet(enqueued)) = Len(enqueued)
  /\ pc = "done" => Remaining = {}
  /\ exported = IF pc = "done" THEN Len(enqueued) ELSE 0

PipelineInv == Computed /\ Exported

\* Where a raw edge leads: from the user of an event to a subscription or an
\* invoice, or to the SKU of the event, if a subscription sells it.
LEMMA RawEdgeEnds ==
  ASSUME InputsTyped, NEW e \in ToSet(Match(usages, subs, invs))
  PROVE  \E u \in ToSet(usages) :
           /\ e.from = u.user /\ e.at = u.at
           /\ \/ \E s \in ToSet(subs) : e.to = s.id
              \/ \E i \in ToSet(invs) : e.to = i.id
              \/ /\ e.to = u.sku
                 /\ \E s \in ToSet(subs) : u.sku \in ToSet(s.prices) \cup ToSet(s.products)
<1>1. PICK u \in ToSet(usages) : Finds(e, u)
  BY MatchElements
<1>2. /\ u \in Usages
      /\ (\A s \in ToSet(subs) : s \in Subs) /\ (\A i \in ToSet(invs) : i \in Invs)
  BY ListElements DEF InputsTyped
<1>3. \A to, kind, c, m : /\ Edge(u, to, kind, c, m).from = u.user
                          /\ Edge(u, to, kind, c, m).to = to
                          /\ Edge(u, to, kind, c, m).at = u.at
  BY DEF Edge
<1> DEFINE sold == \E s \in ToSet(subs) : u.sku \in ToSet(s.prices) \cup ToSet(s.products)
           leads(to) == \E kind, c, m : e = Edge(u, to, kind, c, m)
<1>4. \/ \E s \in ToSet(subs) : leads(s.id)
      \/ \E i \in ToSet(invs) : leads(i.id)
      \/ sold /\ leads(u.sku)
  <2>1. ASSUME NEW s \in ToSet(subs), e \in ToSet(CustomersSub(u, s))
        PROVE  leads(s.id) \/ (sold /\ leads(u.sku))
    BY <1>2, <2>1, CustomersSubElements
  <2>2. ASSUME NEW i \in ToSet(invs), e \in ToSet(CustomersInv(u, i))
        PROVE  leads(i.id)
    BY <1>2, <2>2, CustomersInvElements
  <2>3. ASSUME NEW s \in ToSet(subs), e \in ToSet(Near(u, s, "subscription"))
        PROVE  leads(s.id)
    BY <1>2, <2>3, NearElements
  <2>4. ASSUME NEW i \in ToSet(invs), e \in ToSet(Near(u, i, "invoice"))
        PROVE  leads(i.id)
    BY <1>2, <2>4, NearElements
  <2>5. ASSUME NEW s \in ToSet(subs), e \in ToSet(Overlap(u, s))
        PROVE  leads(s.id) \/ (sold /\ leads(u.sku))
    BY <1>2, <2>5, OverlapElements
  <2> HIDE DEF leads, sold
  <2> QED
    BY <1>1, <2>1, <2>2, <2>3, <2>4, <2>5 DEF Finds, DeterministicFinds, TemporalFinds, SKUFinds
<1> QED
  BY <1>1, <1>3, <1>4

\* A raw edge of valid inputs has a time and synthetic ends: a SKU that is
\* not synthetic is no price or product of a valid subscription.
LEMMA RawEdgeIsValid ==
  ASSUME InputsTyped, Valid, NEW e \in ToSet(Match(usages, subs, invs))
  PROVE  /\ e.confidence \in 0..One /\ e.at \in Nat \ {0}
         /\ Synthetic(e.from) /\ Synthetic(e.to)
<1>1. e \in Edges
  BY MatchElements, ListElements
<1>2. PICK u \in ToSet(usages) :
        /\ e.from = u.user /\ e.at = u.at
        /\ \/ \E s \in ToSet(subs) : e.to = s.id
           \/ \E i \in ToSet(invs) : e.to = i.id
           \/ /\ e.to = u.sku
              /\ \E s \in ToSet(subs) : u.sku \in ToSet(s.prices) \cup ToSet(s.products)
  BY RawEdgeEnds
<1>3. u.at > 0 /\ Synthetic(u.user)
  BY DEF Valid, ValidUsage
<1>4. /\ \A s \in ToSet(subs) :
           /\ Synthetic(s.id)
           /\ \A p \in ToSet(s.prices) \cup ToSet(s.products) : Synthetic(p)
      /\ \A i \in ToSet(invs) : Synthetic(i.id)
  BY DEF Valid, ValidSub, ValidInv
<1>5. u.at \in Nat
  <2>1. u \in Usages
    BY ListElements DEF InputsTyped
  <2> QED
    BY <2>1 DEF Usages
<1>6. Synthetic(e.to)
  BY <1>2, <1>4
<1>7. e.confidence \in 0..One
  BY <1>1 DEF Edges
<1> QED
  BY <1>2, <1>3, <1>5, <1>6, <1>7

\* An accepted edge has a confidence, and the ends and the time of a raw one.
LEMMA AcceptedFromRaw ==
  ASSUME InputsTyped, NEW e \in Combine(Match(usages, subs, invs))
  PROVE  /\ e.confidence \in 0..(10 * One)
         /\ \E r \in ToSet(Match(usages, subs, invs)) :
              r.from = e.from /\ r.to = e.to /\ r.at = e.at
<1> DEFINE R == Match(usages, subs, invs)
<1>1. PICK key \in Pairs : e \in Justified(key)
  BY CombineIsJustified
<1>2. /\ FoundAt(key) # {}
      /\ e = [from |-> key.from, to |-> key.to, kind |-> key.kind,
              confidence |-> IF Score(key) > 10 * One THEN 10 * One ELSE Score(key),
              at |-> Max(FoundAt(key))]
  BY <1>1 DEF Justified
<1>3. Score(key) \in Nat /\ Max(FoundAt(key)) \in FoundAt(key)
  BY <1>2, PairScore, PairTimes
<1>4. PICK r \in ToSet(Group(R, key)) : r.at = Max(FoundAt(key))
  BY <1>3, PairTimes
<1>5. r \in ToSet(R) /\ Key(r) = key
  BY <1>4, MatchElements, GroupElements
<1>6. key.from = r.from /\ key.to = r.to
  BY <1>5 DEF Key
<1>7. e.confidence \in 0..(10 * One)
  BY <1>2, <1>3, Units
<1>8. e.at = r.at /\ e.from = r.from /\ e.to = r.to
  BY <1>2, <1>4, <1>6
<1> QED
  BY <1>5, <1>7, <1>8

\* So an accepted edge is valid too.
LEMMA AcceptedEdgeIsValid ==
  ASSUME InputsTyped, Valid, NEW e \in Combine(Match(usages, subs, invs))
  PROVE  /\ e.confidence \in 0..(10 * One) /\ e.at \in Nat \ {0}
         /\ Synthetic(e.from) /\ Synthetic(e.to)
BY AcceptedFromRaw, RawEdgeIsValid

\* The inputs of any caller are typed, be they valid or not.
LEMMA InitTyped ==
  ASSUME Init
  PROVE  InputsTyped
<1>1. PICK n \in 0..MaxInputs, m \in 0..MaxInputs, k \in 0..MaxInputs :
        /\ usages \in Lists(n, LAMBDA i : UsageEvents)
        /\ subs \in Lists(m, Subscriptions)
        /\ invs \in Lists(k, Invoices)
  BY DEF Init
<1>2. n \in Nat /\ m \in Nat /\ k \in Nat
  BY <1>1, PipelineAssumption
<1>3. /\ Users \subseteq Identifiers /\ Raw \in Identifiers /\ Absent \in Identifiers
      /\ \A i \in Nat : /\ <<"sub", i>> \in Identifiers /\ <<"inv", i>> \in Identifiers
                        /\ {<<"sub", j>> : j \in 1..i} \subseteq Identifiers
                        /\ {<<"inv", j>> : j \in 1..i} \subseteq Identifiers
  BY DEF Identifiers
<1>4. usages \in Seq(Usages)
  <2>1. UsageEvents \subseteq Usages
    BY PipelineAssumption DEF UsageEvents, Usages, Identifiers
  <2>2. usages \in [1..n -> Usages]
    BY <1>1, <2>1 DEF Lists
  <2> QED
    BY <1>2, <2>2
<1>5. subs \in Seq(Subs)
  <2>1. ASSUME NEW i \in Nat, NEW s \in Subscriptions(i)
        PROVE  s \in Subs
    <3>1. s.prices \in Seq(Identifiers) /\ s.products \in Seq(Identifiers)
      <4>1. s.prices \in Seq(Prices \cup {Raw}) /\ s.products \in Seq(Products \cup {Raw})
        BY PipelineAssumption DEF Subscriptions
      <4>2. Prices \cup {Raw} \subseteq Identifiers /\ Products \cup {Raw} \subseteq Identifiers
        BY DEF Identifiers
      <4> QED
        BY <4>1, <4>2
    <3> QED
      BY <1>3, <3>1, PipelineAssumption DEF Subscriptions, Subs
  <2>2. subs = [i \in 1..m |-> subs[i]] /\ \A i \in 1..m : subs[i] \in Subscriptions(i)
    BY <1>1 DEF Lists
  <2>3. subs \in [1..m -> Subs]
    BY <1>2, <2>1, <2>2
  <2> QED
    BY <1>2, <2>3
<1>6. invs \in Seq(Invs)
  <2>1. ASSUME NEW i \in Nat, NEW v \in Invoices(i)
        PROVE  v \in Invs
    BY <1>3, PipelineAssumption DEF Invoices, Invs
  <2>2. invs = [i \in 1..k |-> invs[i]] /\ \A i \in 1..k : invs[i] \in Invoices(i)
    BY <1>1 DEF Lists
  <2>3. invs \in [1..k -> Invs]
    BY <1>2, <2>1, <2>2
  <2> QED
    BY <1>2, <2>3
<1> QED
  BY <1>4, <1>5, <1>6 DEF InputsTyped

\* Whatever the inputs, a run starts with nothing computed.
Fresh ==
  pc = "validate" /\ raw = <<>> /\ accepted = {} /\ enqueued = <<>> /\ exported = 0

LEMMA FreshInv ==
  ASSUME InputsTyped, Fresh
  PROVE  PipelineInv
<1>1. Computed
  BY DEF Computed, Fresh
<1>2. ToSet(enqueued) = {} /\ Len(enqueued) = 0
  BY DEF Fresh, ToSet
<1>3. IsFiniteSet(ToSet(enqueued)) /\ Cardinality(ToSet(enqueued)) = Len(enqueued)
  BY <1>2, FS_EmptySet
<1>4. enqueued \in Seq(accepted)
  BY EmptySeq DEF Fresh
<1>5. Exported
  BY <1>2, <1>3, <1>4 DEF Exported, Fresh
<1> QED
  BY <1>1, <1>5 DEF PipelineInv

\* Every step computes from the inputs, which do not change.
LEMMA ComputedStep ==
  ASSUME PipelineInv, Next
  PROVE  Computed'
<1> USE DEF inputs
<1>1. /\ Computed /\ InputsTyped
      /\ UNCHANGED <<usages, subs, invs>>
  BY DEF PipelineInv, Computed, Next, Validate, RunMatchers, CombineEdges,
         EnqueueEdge, Finish
<1>2. InputsTyped' /\ Valid' = Valid /\ Match(usages, subs, invs)' = Match(usages, subs, invs)
  BY <1>1 DEF InputsTyped, Valid
<1>3. CASE Validate
  BY <1>1, <1>2, <1>3 DEF Computed, Validate
<1>4. CASE RunMatchers
  BY <1>1, <1>2, <1>4 DEF Computed, RunMatchers
<1>5. CASE CombineEdges
  BY <1>1, <1>2, <1>5 DEF Computed, CombineEdges
<1>6. CASE EnqueueEdge
  BY <1>1, <1>2, <1>6 DEF Computed, EnqueueEdge
<1>7. CASE Finish
  BY <1>1, <1>2, <1>7 DEF Computed, Finish
<1> QED
  BY <1>3, <1>4, <1>5, <1>6, <1>7 DEF Next

\* An accepted edge has a confidence.
LEMMA AcceptedConfidence ==
  ASSUME Computed, NEW e \in accepted
  PROVE  e.confidence \in Nat
BY AcceptedEdgeIsValid, Units DEF Computed

\* A list grows by the most certain of the edges that remain.
LEMMA EnqueueInv ==
  ASSUME PipelineInv, EnqueueEdge
  PROVE  Exported'
<1>1. Computed /\ Exported /\ pc = "export" /\ UNCHANGED accepted /\ exported' = exported
  BY DEF PipelineInv, EnqueueEdge
<1>2. CASE UNCHANGED enqueued /\ pc' = "failed"
  <2>1. UNCHANGED Remaining
    BY <1>1, <1>2 DEF Remaining
  <2> QED
    BY <1>1, <1>2, <2>1 DEF Exported
<1>3. CASE ~ (UNCHANGED enqueued /\ pc' = "failed")
  <2>1. PICK e \in Remaining : /\ \A f \in Remaining : ~ Precedes(f, e)
                               /\ enqueued' = Append(enqueued, e)
    BY <1>3 DEF EnqueueEdge
  <2>2. UNCHANGED pc
    BY <1>3 DEF EnqueueEdge
  <2>3. e \in accepted /\ e \notin ToSet(enqueued) /\ Remaining \subseteq accepted
    BY DEF Remaining
  <2>4. /\ enqueued \in Seq(accepted) /\ Len(enqueued) \in Nat
        /\ enqueued' \in Seq(accepted) /\ Len(enqueued') = Len(enqueued) + 1
    BY <1>1, <2>1, <2>3, AppendProperties, LenProperties DEF Exported
  <2>5. ToSet(enqueued') = ToSet(enqueued) \cup {e}
    <3>1. /\ DOMAIN enqueued = 1..Len(enqueued)
          /\ DOMAIN Append(enqueued, e) = 1..(Len(enqueued) + 1)
          /\ \A i \in 1..Len(enqueued) : Append(enqueued, e)[i] = enqueued[i]
          /\ Append(enqueued, e)[Len(enqueued) + 1] = e
      BY <2>3, <2>4, AppendProperties, LenProperties
    <3>2. \A i : i \in 1..(Len(enqueued) + 1) <=>
                   i \in 1..Len(enqueued) \/ i = Len(enqueued) + 1
      BY <2>4
    <3> QED
      BY <2>1, <3>1, <3>2 DEF ToSet
  <2>6. Remaining' = Remaining \ {e}
    BY <1>1, <2>5 DEF Remaining
  <2>7. \A f \in Remaining : e.confidence >= f.confidence
    <3>1. SUFFICES ASSUME NEW f \in Remaining
                   PROVE  e.confidence >= f.confidence
      OBVIOUS
    <3>2. e.confidence \in Nat /\ f.confidence \in Nat
      BY <1>1, <2>3, AcceptedConfidence
    <3>3. ~ (f.confidence > e.confidence)
      BY <2>1 DEF Precedes
    <3> QED
      BY <3>2, <3>3
  <2>8. \A d \in ToSet(enqueued'), f \in Remaining' : d.confidence >= f.confidence
    BY <1>1, <2>5, <2>6, <2>7 DEF Exported
  <2>9. /\ IsFiniteSet(ToSet(enqueued'))
        /\ Cardinality(ToSet(enqueued')) = Len(enqueued')
    BY <1>1, <2>3, <2>4, <2>5, FS_AddElement DEF Exported
  <2>10. pc' # "done" /\ exported' = 0
    BY <1>1, <2>2 DEF Exported
  <2> HIDE DEF EnqueueEdge
  <2> QED
    BY <1>1, <2>4, <2>8, <2>9, <2>10 DEF Exported
<1> QED
  BY <1>2, <1>3

\* The counter of exported edges is set at the end, when nothing remains.
LEMMA FinishInv ==
  ASSUME PipelineInv, Finish
  PROVE  Exported'
<1>1. /\ Exported /\ pc' = "done" /\ exported' = Cardinality(accepted) /\ Remaining = {}
      /\ UNCHANGED <<accepted, enqueued>>
  BY DEF PipelineInv, Finish
<1>2. ToSet(enqueued) = accepted
  BY <1>1, ListElements DEF Exported, Remaining
<1>3. UNCHANGED Remaining
  BY <1>1 DEF Remaining
<1> QED
  BY <1>1, <1>2, <1>3 DEF Exported

\* PipelineInv is inductive.
LEMMA PipelineStep ==
  ASSUME PipelineInv, Next
  PROVE  PipelineInv'
<1>1. Computed'
  BY ComputedStep
<1>2. CASE Validate \/ RunMatchers
  <2>1. UNCHANGED <<accepted, enqueued, exported>> /\ pc # "done" /\ pc' # "done"
    BY <1>2 DEF Validate, RunMatchers
  <2> QED
    BY <1>1, <2>1 DEF PipelineInv, Exported, Remaining
<1>3. CASE CombineEdges
  <2>1. pc = "combine" /\ pc' = "export" /\ UNCHANGED <<enqueued, exported>>
    BY <1>3 DEF CombineEdges
  <2>2. accepted = {} /\ enqueued \in Seq(accepted)
    BY <2>1 DEF PipelineInv, Computed, Exported
  <2>3. enqueued = <<>> /\ ToSet(enqueued) = {}
    BY <2>2, ListElements, EmptySeq DEF ToSet
  <2>4. enqueued' \in Seq(accepted')
    BY <2>1, <2>3, EmptySeq
  <2>5. \A e \in ToSet(enqueued'), f \in Remaining' : e.confidence >= f.confidence
    BY <2>1, <2>3
  <2> QED
    BY <1>1, <2>1, <2>4, <2>5 DEF PipelineInv, Exported
<1>4. CASE EnqueueEdge
  BY <1>1, <1>4, EnqueueInv DEF PipelineInv
<1>5. CASE Finish
  BY <1>1, <1>5, FinishInv DEF PipelineInv
<1> QED
  BY <1>2, <1>3, <1>4, <1>5 DEF Next

LEMMA PipelineStutter ==
  ASSUME PipelineInv, UNCHANGED vars
  PROVE  PipelineInv'
BY DEF vars, inputs, PipelineInv, Computed, Exported, InputsTyped, Valid, Remaining

\* What the invariant says of the properties of the pipeline.
LEMMA PipelineProperties ==
  ASSUME PipelineInv
  PROVE  TypeOK /\ AcceptedIsJustified /\ BestFirst /\ OnlySyntheticLeaves
<1>1. Computed /\ Exported /\ InputsTyped
  BY DEF PipelineInv, Computed
<1>2. ToSet(enqueued) \subseteq accepted
  BY <1>1, ListElements DEF Exported
<1>3. \A e \in ToSet(raw) : e.confidence \in 0..One /\ e.at \in Nat \ {0}
  <2>1. CASE raw = <<>>
    BY <2>1 DEF ToSet
  <2>2. CASE raw # <<>>
    BY <1>1, <2>2, RawEdgeIsValid DEF Computed
  <2> QED
    BY <2>1, <2>2
<1>4. \A e \in accepted : /\ e.confidence \in 0..(10 * One) /\ e.at \in Nat \ {0}
                          /\ Synthetic(e.from) /\ Synthetic(e.to)
  BY <1>1, AcceptedEdgeIsValid DEF Computed
<1>5. pc = "done" => Cardinality(accepted) = Len(enqueued)
  BY <1>1, <1>2 DEF Exported, Remaining
<1>6. TypeOK
  BY <1>1, <1>2, <1>3, <1>4, <1>5 DEF TypeOK, Computed, Exported
<1>7. AcceptedIsJustified
  BY <1>1, CombineIsJustified DEF AcceptedIsJustified, Computed
<1>8. BestFirst
  BY <1>1 DEF BestFirst, Exported
<1>9. OnlySyntheticLeaves
  BY <1>2, <1>4 DEF OnlySyntheticLeaves
<1> QED
  BY <1>6, <1>7, <1>8, <1>9

-----------------------------------------------------------------------------
(* The job around the pipeline *)

\* What Stripe lists, and the models that sanitizing makes of it.
SubIDs == {<<"sub", i>> : i \in 1..MaxRecords}
InvIDs == {<<"inv", i>> : i \in 1..MaxRecords}
RawSubs ==
  [id : Ids(SubIDs), customer : Optional(Optional(Users)),
   items : Seq(StripeItems), created : CreationTimes]
RawInvs ==
  [id : Ids(InvIDs), customer : Optional(Optional(Users)),
   subscription : Optional(SubIDs), created : CreationTimes]

ModelItems == [price : Prices \cup {Absent}, product : Products \cup {Absent}]
ModelSubs ==
  [id : SubIDs, customer : Users, items : Seq(ModelItems), created : CreationTimes]
ModelInvs ==
  [id : InvIDs, customer : Users, subscription : SubIDs \cup {Absent},
   created : CreationTimes]

RecordsTyped ==
  /\ rawSubs \in Seq(RawSubs) /\ rawInvs \in Seq(RawInvs)
  /\ modelSubs \in Seq(ModelSubs) /\ modelInvs \in Seq(ModelInvs)

\* The inputs of the pipeline are those that the job makes of its records.
LastResort(at) == <<[user |-> FallbackUser, sku |-> FallbackPrice, at |-> at]>>
FromStripe ==
  /\ \/ usages = Seeds
     \/ Seeds = <<>> /\ \E at \in Nat : usages = LastResort(at)
  /\ subs = [i \in DOMAIN modelSubs |-> ToSubscriptionLite(modelSubs[i])]
  /\ invs = modelInvs

Billed == configured => billed = modelSubs \o modelInvs

\* Until it calls the pipeline, a job computes nothing; from then on the
\* inputs and the billing stream have its records.
JobInv ==
  /\ PipelineInv
  /\ RecordsTyped
  /\ stage \in {"smoke", "subscriptions", "invoices", "sanitize", "bill", "seed"} => Fresh
  /\ stage = "seed" => Billed
  /\ mode # "direct" => Fresh \/ (FromStripe /\ Billed)
  /\ mode # "direct" /\ stage = "run" => FromStripe /\ Billed
  /\ mode = "matchers" /\ stage = "shutdown" => FromStripe /\ Billed /\ pc = "done"

LEMMA ListsTyped ==
  ASSUME NEW A, NEW n \in Nat, NEW s, DOMAIN s = 1..n, s = [i \in 1..n |-> s[i]],
         \A i \in 1..n : s[i] \in A
  PROVE  s \in Seq(A)
OBVIOUS

LEMMA ListSubscriptionsTyped ==
  ASSUME ListSubscriptions, rawSubs \in Seq(RawSubs)
  PROVE  rawSubs' \in Seq(RawSubs)
<1>1. CASE UNCHANGED rawSubs
  BY <1>1
<1>2. CASE ~ UNCHANGED rawSubs
  <2>1. PICK n \in 0..MaxRecords : rawSubs' \in Lists(n, StripeSubs)
    BY <1>2 DEF ListSubscriptions
  <2>2. n \in Nat /\ \A i \in 1..n : i \in 1..MaxRecords
    BY JobAssumption
  <2>3. ASSUME NEW i \in 1..n, NEW s \in StripeSubs(i)
        PROVE  s \in RawSubs
    <3>1. s.items \in Seq(StripeItems)
      BY JobAssumption DEF StripeSubs
    <3>2. s.id \in Ids(SubIDs)
      BY <2>2 DEF StripeSubs, Ids, SubIDs
    <3> QED
      BY <3>1, <3>2 DEF StripeSubs, RawSubs
  <2>4. /\ DOMAIN rawSubs' = 1..n /\ rawSubs' = [i \in 1..n |-> rawSubs'[i]]
        /\ \A i \in 1..n : rawSubs'[i] \in StripeSubs(i)
    BY <2>1 DEF Lists
  <2> QED
    BY <2>2, <2>3, <2>4, ListsTyped
<1> QED
  BY <1>1, <1>2

LEMMA ListInvoicesTyped ==
  ASSUME ListInvoices, rawSubs \in Seq(RawSubs), rawInvs \in Seq(RawInvs)
  PROVE  rawInvs' \in Seq(RawInvs)
<1>1. CASE UNCHANGED rawInvs
  BY <1>1
<1>2. CASE ~ UNCHANGED rawInvs
  <2>1. PICK n \in 0..(MaxRecords - Len(rawSubs)) : rawInvs' \in Lists(n, StripeInvs)
    BY <1>2 DEF ListInvoices
  <2>2. n \in Nat /\ \A i \in 1..n : i \in 1..MaxRecords
    BY JobAssumption, LenProperties
  <2>3. ASSUME NEW i \in 1..n, NEW v \in StripeInvs(i)
        PROVE  v \in RawInvs
    <3>1. v.id \in Ids(InvIDs) /\ v.subscription \in Optional(SubIDs)
      BY <2>2 DEF StripeInvs, Ids, Optional, SubIDs, InvIDs
    <3> QED
      BY <3>1 DEF StripeInvs, RawInvs
  <2>4. /\ DOMAIN rawInvs' = 1..n /\ rawInvs' = [i \in 1..n |-> rawInvs'[i]]
        /\ \A i \in 1..n : rawInvs'[i] \in StripeInvs(i)
    BY <2>1 DEF Lists
  <2> QED
    BY <2>2, <2>3, <2>4, ListsTyped
<1> QED
  BY <1>1, <1>2

\* Sanitizing: a record without an identifier it needs is left out, and no
\* other identifier is lost.
LEMMA SanitizeTyped ==
  ASSUME RecordsTyped, Sanitize
  PROVE  modelSubs' \in Seq(ModelSubs) /\ modelInvs' \in Seq(ModelInvs)
<1>1. CASE UNCHANGED <<modelSubs, modelInvs>>
  BY <1>1 DEF RecordsTyped
<1> SUFFICES ASSUME SanitizeRecords,
                    \A record \in ToSet(rawSubs) \cup ToSet(rawInvs) : ~ Panics(record)
             PROVE  modelSubs' \in Seq(ModelSubs) /\ modelInvs' \in Seq(ModelInvs)
  BY <1>1 DEF Sanitize
<1> DEFINE f == [i \in DOMAIN rawSubs |-> IF Sanitizable(rawSubs[i])
                                          THEN <<SanitizeSubscription(rawSubs[i])>> ELSE <<>>]
           g == [i \in DOMAIN rawInvs |-> IF Sanitizable(rawInvs[i])
                                          THEN <<SanitizeInvoice(rawInvs[i])>> ELSE <<>>]
<1>2. /\ Len(rawSubs) \in Nat /\ DOMAIN rawSubs = 1..Len(rawSubs)
      /\ \A i \in 1..Len(rawSubs) : rawSubs[i] \in RawSubs /\ ~ Panics(rawSubs[i])
      /\ Len(rawInvs) \in Nat /\ DOMAIN rawInvs = 1..Len(rawInvs)
      /\ \A i \in 1..Len(rawInvs) : rawInvs[i] \in RawInvs /\ ~ Panics(rawInvs[i])
  BY ListElements, ElementOfSeq DEF RecordsTyped
<1>3. ASSUME NEW S, NEW x \in Optional(S), x # Empty
      PROVE  SyntheticID(x) \in S
  <2>1. PICK y \in S : x = <<y>>
    BY <1>3 DEF Optional, Ids
  <2> QED
    BY <2>1 DEF SyntheticID
<1>4. ASSUME NEW S, NEW x \in Optional(S)
      PROVE  OrAbsent(x) \in S \cup {Absent}
  BY <1>3 DEF OrAbsent, HasSynthetic
<1>5. ASSUME NEW record \in RawSubs \cup RawInvs, Sanitizable(record), ~ Panics(record)
      PROVE  SyntheticID(record.customer[1]) \in Users
  <2>1. record.customer \in Optional(Optional(Users)) /\ record.customer # Empty
    BY <1>5 DEF RawSubs, RawInvs, Sanitizable, Panics
  <2>2. record.customer[1] \in Optional(Users) /\ record.customer[1] # Empty
    BY <1>3, <1>5, <2>1 DEF SyntheticID, Sanitizable, HasSynthetic
  <2> QED
    BY <1>3, <2>2
<1>6. ASSUME NEW s \in RawSubs, Sanitizable(s), ~ Panics(s)
      PROVE  SanitizeSubscription(s) \in ModelSubs
  <2>1. /\ s.id \in Optional(SubIDs) /\ s.id # Empty
        /\ s.created \in CreationTimes
        /\ s.items \in Seq(StripeItems)
    BY <1>6 DEF RawSubs, Sanitizable, HasSynthetic, Optional
  <2>2. SyntheticID(s.id) \in SubIDs
    BY <1>3, <2>1
  <2>3. SyntheticID(s.customer[1]) \in Users
    BY <1>5, <1>6
  <2> DEFINE items == [i \in DOMAIN s.items |-> [price |-> OrAbsent(s.items[i].price),
                                                 product |-> OrAbsent(s.items[i].product)]]
  <2>4. /\ Len(s.items) \in Nat /\ DOMAIN s.items = 1..Len(s.items)
        /\ \A i \in 1..Len(s.items) : /\ s.items[i].price \in Optional(Prices)
                                      /\ s.items[i].product \in Optional(Products)
    <3>1. /\ Len(s.items) \in Nat /\ DOMAIN s.items = 1..Len(s.items)
          /\ \A i \in 1..Len(s.items) : s.items[i] \in StripeItems
      BY <2>1, LenProperties, ElementOfSeq
    <3> QED
      BY <3>1 DEF StripeItems
  <2>5. \A i \in 1..Len(s.items) : /\ OrAbsent(s.items[i].price) \in Prices \cup {Absent}
                                   /\ OrAbsent(s.items[i].product) \in Products \cup {Absent}
    BY <1>4, <2>4
  <2>6. items \in Seq(ModelItems)
    BY <2>4, <2>5 DEF ModelItems
  <2> QED
    BY <2>1, <2>2, <2>3, <2>6 DEF SanitizeSubscription, ModelSubs
<1>7. ASSUME NEW v \in RawInvs, Sanitizable(v), ~ Panics(v)
      PROVE  SanitizeInvoice(v) \in ModelInvs
  <2>1. /\ v.id \in Optional(InvIDs) /\ v.id # Empty
        /\ v.subscription \in Optional(SubIDs)
        /\ v.created \in CreationTimes
    BY <1>7 DEF RawInvs, Sanitizable, HasSynthetic, Optional
  <2>2. SyntheticID(v.id) \in InvIDs /\ OrAbsent(v.subscription) \in SubIDs \cup {Absent}
    BY <1>3, <1>4, <2>1
  <2>3. SyntheticID(v.customer[1]) \in Users
    BY <1>5, <1>7
  <2> QED
    BY <2>1, <2>2, <2>3 DEF SanitizeInvoice, ModelInvs
<1>8. f \in [1..Len(rawSubs) -> Seq(ModelSubs)]
  BY <1>2, <1>6, EmptySeq
<1>9. g \in [1..Len(rawInvs) -> Seq(ModelInvs)]
  BY <1>2, <1>7, EmptySeq
<1>10. modelSubs' = FlattenSeq(f) /\ modelInvs' = FlattenSeq(g)
  BY DEF SanitizeRecords, ForEach
<1> HIDE DEF f, g
<1> QED
  BY <1>2, <1>8, <1>9, <1>10, FlattenMap

\* The models as lists.
LEMMA RecordElements ==
  RecordsTyped => ListsOf(modelSubs, ModelSubs) /\ ListsOf(modelInvs, ModelInvs)
BY ListElements, ElementOfSeq DEF RecordsTyped, ListsOf

\* seedUsage makes events of the customer of the i-th subscription, and at
\* least one if it has an item.
LEMMA SeedElements ==
  ASSUME RecordsTyped, NEW i \in 1..Len(modelSubs)
  PROVE  /\ Seed(i) \in Seq(Usages)
         /\ \A x \in ToSet(Seed(i)) : x.user = modelSubs[i].customer
         /\ modelSubs[i].items # <<>> => ToSet(Seed(i)) # {}
<1> DEFINE s == modelSubs[i]
           Event(sku, delay) ==
             [user |-> s.customer, sku |-> sku, at |-> s.created + (i - 1) * delay]
           e1 == Event(s.items[1].price, SeedStep)
           e2 == Event(s.items[1].product, 2 * SeedStep)
           later == IF s.items[1].product = Absent THEN <<>> ELSE <<e2>>
<1>1. s \in ModelSubs /\ i - 1 \in Nat
  BY RecordElements DEF ListsOf
<1>2. CASE s.items = <<>>
  <2>1. Seed(i) = <<>>
    BY <1>2 DEF Seed
  <2> QED
    BY <1>2, <2>1, EmptySeq DEF ToSet
<1>3. CASE s.items # <<>>
  <2>1. Seed(i) = <<e1>> \o later
    BY <1>3 DEF Seed
  <2>2. s.items[1] \in ModelItems
    <3>1. s.items \in Seq(ModelItems)
      BY <1>1 DEF ModelSubs
    <3>2. Len(s.items) \in Nat /\ Len(s.items) # 0
      BY <1>3, <3>1, EmptySeq
    <3> QED
      BY <3>1, <3>2, ElementOfSeq
  <2>3. /\ s.items[1].price \in Identifiers /\ s.items[1].product \in Identifiers
        /\ s.customer \in Identifiers
    BY <1>1, <2>2 DEF ModelItems, ModelSubs, Identifiers
  <2>4. (i - 1) * SeedStep \in Nat /\ (i - 1) * (2 * SeedStep) \in Nat
    <3>1. SeedStep \in Nat /\ 2 * SeedStep \in Nat
      BY JobAssumption
    <3> QED
      BY <1>1, <3>1, ProductType
  <2>5. s.created \in Nat
    BY <1>1, PipelineAssumption DEF ModelSubs
  <2>6. \A sku \in Identifiers, delay \in {SeedStep, 2 * SeedStep} : Event(sku, delay) \in Usages
    BY <2>3, <2>4, <2>5 DEF Usages
  <2>7. e1 \in Usages /\ e2 \in Usages /\ e1.user = s.customer /\ e2.user = s.customer
    BY <2>3, <2>6
  <2> HIDE DEF e1, e2, s
  <2>8. <<e1>> \in Seq(Usages) /\ later \in Seq(Usages)
    BY <2>7, EmptySeq
  <2>9. \A x : /\ x \in ToSet(<<e1>>) <=> x = e1
               /\ x \in ToSet(later) => x = e2
    <3>1. \A x : x \in ToSet(<<e1>>) <=> x = e1
      BY DEF ToSet
    <3>2. ToSet(<<>>) = {} /\ ToSet(<<e2>>) = {e2}
      BY DEF ToSet
    <3>3. later = <<>> \/ later = <<e2>>
      OBVIOUS
    <3> HIDE DEF later
    <3> QED
      BY <3>1, <3>2, <3>3
  <2>10. /\ Seed(i) \in Seq(Usages)
         /\ \A x : x \in ToSet(Seed(i)) <=> x \in ToSet(<<e1>>) \/ x \in ToSet(later)
    <3> HIDE DEF later
    <3> QED
      BY <2>1, <2>8, ConcatElements
  <2> QED
    BY <2>7, <2>9, <2>10 DEF s
<1> QED
  BY <1>2, <1>3

LEMMA SeedsElements ==
  ASSUME RecordsTyped
  PROVE  /\ Seeds \in Seq(Usages)
         /\ \A x : x \in ToSet(Seeds) <=>
              \E i \in 1..Len(modelSubs) : i <= SeedLimit /\ x \in ToSet(Seed(i))
<1> DEFINE n == IF Len(modelSubs) < SeedLimit THEN Len(modelSubs) ELSE SeedLimit
           f == [i \in 1..n |-> Seed(i)]
<1>1. /\ Len(modelSubs) \in Nat /\ n \in Nat
      /\ \A i : i \in 1..n <=> i \in 1..Len(modelSubs) /\ i <= SeedLimit
  BY RecordElements, JobAssumption DEF ListsOf
<1>2. Seeds = FlattenSeq(f)
  BY DEF Seeds
<1> HIDE DEF n
<1>3. f \in [1..n -> Seq(Usages)] /\ \A i \in 1..n : f[i] = Seed(i)
  BY <1>1, SeedElements
<1> HIDE DEF f
<1>4. /\ FlattenSeq(f) \in Seq(Usages)
      /\ \A x : x \in ToSet(FlattenSeq(f)) <=> \E i \in 1..n : x \in ToSet(f[i])
  BY <1>1, <1>3, FlattenMap
<1>5. ASSUME NEW x
      PROVE  (\E i \in 1..n : x \in ToSet(f[i])) <=>
               \E i \in 1..Len(modelSubs) : i <= SeedLimit /\ x \in ToSet(Seed(i))
  BY <1>1, <1>3
<1> QED
  BY <1>2, <1>4, <1>5

\* The identifiers of a list that are there.
Those(n, h) == FlattenSeq([k \in 1..n |-> IF h[k] = Absent THEN <<>> ELSE <<h[k]>>])

LEMMA PresentElements ==
  ASSUME NEW A, NEW n \in Nat, NEW h \in [1..n -> A \cup {Absent}], Absent \notin A
  PROVE  /\ Those(n, h) \in Seq(A)
         /\ \A p \in ToSet(Those(n, h)) : p \in A /\ \E k \in 1..n : p = h[k]
<1> DEFINE f == [k \in 1..n |-> IF h[k] = Absent THEN <<>> ELSE <<h[k]>>]
<1>1. f \in [1..n -> Seq(A)]
  BY EmptySeq
<1>2. \A k \in 1..n : \A p \in ToSet(f[k]) : p \in A /\ p = h[k]
  BY DEF ToSet
<1> HIDE DEF f
<1>3. /\ FlattenSeq(f) \in Seq(A)
      /\ \A p : p \in ToSet(FlattenSeq(f)) <=> \E k \in 1..n : p \in ToSet(f[k])
  BY <1>1, FlattenMap
<1>4. \A p \in ToSet(FlattenSeq(f)) : p \in A /\ \E k \in 1..n : p = h[k]
  BY <1>2, <1>3
<1> QED
  BY <1>3, <1>4 DEF f, Those

\* The conversion of a subscription keeps its identifiers, and loses none
\* of its items' but the absent ones.
LEMMA LiteElements ==
  ASSUME NEW s \in ModelSubs
  PROVE  LET lite == ToSubscriptionLite(s)
         IN  /\ lite \in Subs /\ lite.id = s.id /\ lite.customer = s.customer
             /\ \A p \in ToSet(lite.prices) :
                  p \in Prices /\ \E item \in ToSet(s.items) : p = item.price
             /\ \A p \in ToSet(lite.products) :
                  p \in Products /\ \E item \in ToSet(s.items) : p = item.product
<1> DEFINE n == Len(s.items)
           price == [k \in 1..n |-> s.items[k].price]
           product == [k \in 1..n |-> s.items[k].product]
<1>1. /\ n \in Nat /\ DOMAIN s.items = 1..n /\ \A k \in 1..n : s.items[k] \in ModelItems
      /\ \A k \in 1..n : s.items[k] \in ToSet(s.items)
  BY ListElements, ElementOfSeq DEF ModelSubs
<1>2. /\ price \in [1..n -> Prices \cup {Absent}]
      /\ product \in [1..n -> Products \cup {Absent}]
  BY <1>1 DEF ModelItems
<1>3. Absent \notin Prices /\ Absent \notin Products
  BY JobAssumption
<1>4. \A k \in 1..n : price[k] = s.items[k].price /\ product[k] = s.items[k].product
  OBVIOUS
<1>5. ToSubscriptionLite(s) =
        [id |-> s.id, customer |-> s.customer, prices |-> Those(n, price),
         products |-> Those(n, product), created |-> s.created]
  <2>1. /\ [k \in 1..n |-> IF s.items[k].price = Absent THEN <<>> ELSE <<s.items[k].price>>]
             = [k \in 1..n |-> IF price[k] = Absent THEN <<>> ELSE <<price[k]>>]
        /\ [k \in 1..n |-> IF s.items[k].product = Absent THEN <<>> ELSE <<s.items[k].product>>]
             = [k \in 1..n |-> IF product[k] = Absent THEN <<>> ELSE <<product[k]>>]
    OBVIOUS
  <2> QED
    BY <1>1, <2>1 DEF ToSubscriptionLite, ForEach, Those
<1> HIDE DEF n, price, product
<1>6. /\ Those(n, price) \in Seq(Prices)
      /\ \A p \in ToSet(Those(n, price)) : p \in Prices /\ \E k \in 1..n : p = price[k]
  BY <1>1, <1>2, <1>3, PresentElements
<1>7. /\ Those(n, product) \in Seq(Products)
      /\ \A p \in ToSet(Those(n, product)) : p \in Products /\ \E k \in 1..n : p = product[k]
  BY <1>1, <1>2, <1>3, PresentElements
<1>8. Those(n, price) \in Seq(Identifiers) /\ Those(n, product) \in Seq(Identifiers)
  <2>1. Prices \subseteq Identifiers /\ Products \subseteq Identifiers
    BY DEF Identifiers
  <2> QED
    BY <1>6, <1>7, <2>1
<1>9. s.id \in Identifiers /\ s.customer \in Identifiers /\ s.created \in Nat
  <2>1. /\ s.id \in SubIDs
        /\ s.customer \in Users /\ s.created \in CreationTimes
    BY DEF ModelSubs
  <2>2. PICK i \in 1..MaxRecords : s.id = <<"sub", i>>
    BY <2>1 DEF SubIDs
  <2>3. i \in Nat
    BY JobAssumption
  <2>4. s.id \in Identifiers
    BY <2>2, <2>3 DEF Identifiers
  <2> QED
    BY <2>1, <2>4, PipelineAssumption DEF Identifiers
<1>10. ToSubscriptionLite(s) \in Subs
  BY <1>5, <1>8, <1>9 DEF Subs
<1>11. /\ \A p \in ToSet(Those(n, price)) : \E item \in ToSet(s.items) : p = item.price
       /\ \A p \in ToSet(Those(n, product)) : \E item \in ToSet(s.items) : p = item.product
  BY <1>1, <1>4, <1>6, <1>7
<1> QED
  BY <1>5, <1>6, <1>7, <1>10, <1>11

\* What the job makes of its records are inputs of the pipeline.
LEMMA FromStripeTyped ==
  ASSUME RecordsTyped, FromStripe
  PROVE  InputsTyped
<1>1. ListsOf(modelSubs, ModelSubs) /\ modelInvs \in Seq(ModelInvs)
  BY RecordElements DEF RecordsTyped
<1>2. usages \in Seq(Usages)
  <2>1. CASE usages = Seeds
    BY <2>1, SeedsElements
  <2>2. ASSUME NEW at \in Nat, usages = LastResort(at)
        PROVE  usages \in Seq(Usages)
    BY <2>2 DEF LastResort, Usages, Identifiers
  <2> QED
    BY <2>1, <2>2 DEF FromStripe
<1>3. subs \in Seq(Subs)
  <2>1. /\ Len(modelSubs) \in Nat
        /\ subs = [i \in 1..Len(modelSubs) |-> ToSubscriptionLite(modelSubs[i])]
        /\ \A i \in 1..Len(modelSubs) : modelSubs[i] \in ModelSubs
    BY <1>1 DEF FromStripe, ListsOf
  <2>2. \A i \in 1..Len(modelSubs) : ToSubscriptionLite(modelSubs[i]) \in Subs
    BY <2>1, LiteElements
  <2> QED
    BY <2>1, <2>2
<1>4. invs \in Seq(Invs)
  <2>1. ModelInvs \subseteq Invs
    <3>1. ASSUME NEW v \in ModelInvs
          PROVE  v \in Invs
      <4>1. SubIDs \subseteq Identifiers /\ InvIDs \subseteq Identifiers
        BY JobAssumption DEF SubIDs, InvIDs, Identifiers
      <4>2. v.id \in Identifiers /\ v.subscription \in Identifiers
        BY <4>1 DEF ModelInvs, Identifiers
      <4>3. v.customer \in Identifiers /\ v.created \in Nat
        BY PipelineAssumption DEF ModelInvs, Identifiers
      <4> QED
        BY <4>2, <4>3 DEF ModelInvs, Invs
    <3> QED
      BY <3>1
  <2>2. invs \in Seq(ModelInvs)
    BY <1>1 DEF FromStripe
  <2> QED
    BY <2>1, <2>2
<1> QED
  BY <1>2, <1>3, <1>4 DEF InputsTyped

LEMMA JobInitInv ==
  ASSUME JobInit
  PROVE  JobInv
<1>1. RecordsTyped
  BY EmptySeq DEF JobInit, RecordsTyped
<1>2. CASE mode = "direct" /\ stage = "run" /\ Init
  <2>1. InputsTyped /\ Fresh
    BY <1>2, InitTyped DEF Init, Fresh
  <2> QED
    BY <1>1, <1>2, <2>1, FreshInv DEF JobInv
<1>3. CASE ~ (mode = "direct" /\ stage = "run" /\ Init)
  <2>1. /\ mode \in {"matchers", "billing"} /\ stage \in {"subscriptions", "smoke"}
        /\ Fresh /\ usages = <<>> /\ subs = <<>> /\ invs = <<>>
    BY <1>3 DEF JobInit, Fresh
  <2>2. InputsTyped
    BY <2>1, EmptySeq DEF InputsTyped
  <2> QED
    BY <1>1, <2>1, <2>2, FreshInv DEF JobInv
<1> QED
  BY <1>2, <1>3

\* While the records do not change, what the pipeline gets of them does not.
LEMMA FromStripeStable ==
  ASSUME UNCHANGED <<usages, subs, invs, modelSubs, modelInvs>>
  PROVE  FromStripe' = FromStripe
BY DEF FromStripe, Seeds, Seed, LastResort

LEMMA FreshStable ==
  ASSUME UNCHANGED vars
  PROVE  Fresh' = Fresh
BY DEF vars, Fresh

\* Listing, sanitizing and billing leave the pipeline alone.
LEMMA BeforeRunInv ==
  ASSUME JobInv, SmokeCheck \/ ListSubscriptions \/ ListInvoices \/ Sanitize \/ Bill
  PROVE  JobInv'
<1>1. UNCHANGED vars /\ UNCHANGED mode /\ UNCHANGED configured /\ Fresh
  BY DEF SmokeCheck, ListSubscriptions, ListInvoices, Sanitize, Bill, JobInv
<1>2. PipelineInv'
  BY <1>1, PipelineStutter DEF JobInv
<1>3. Fresh'
  BY <1>1, FreshStable
<1>4. RecordsTyped'
  <2>1. RecordsTyped /\ rawSubs \in Seq(RawSubs) /\ rawInvs \in Seq(RawInvs)
    BY DEF JobInv, RecordsTyped
  <2>2. CASE SmokeCheck \/ Bill
    BY <2>1, <2>2 DEF SmokeCheck, Bill, RecordsTyped
  <2>3. CASE ListSubscriptions
    <3>1. rawSubs' \in Seq(RawSubs) /\ UNCHANGED <<rawInvs, modelSubs, modelInvs>>
      BY <2>1, <2>3, ListSubscriptionsTyped DEF ListSubscriptions
    <3> QED
      BY <2>1, <3>1 DEF RecordsTyped
  <2>4. CASE ListInvoices
    <3>1. rawInvs' \in Seq(RawInvs) /\ UNCHANGED <<rawSubs, modelSubs, modelInvs>>
      BY <2>1, <2>4, ListInvoicesTyped DEF ListInvoices
    <3> QED
      BY <2>1, <3>1 DEF RecordsTyped
  <2>5. CASE Sanitize
    <3>1. /\ modelSubs' \in Seq(ModelSubs) /\ modelInvs' \in Seq(ModelInvs)
          /\ UNCHANGED <<rawSubs, rawInvs>>
      BY <2>1, <2>5, SanitizeTyped DEF Sanitize
    <3> QED
      BY <2>1, <3>1 DEF RecordsTyped
  <2> QED
    BY <2>2, <2>3, <2>4, <2>5
<1>5. /\ stage' # "run" /\ (mode' = "matchers" => stage' # "shutdown")
      /\ stage' = "seed" => Billed'
  <2>1. CASE Bill
    BY <2>1 DEF Bill, Billed
  <2>2. CASE SmokeCheck \/ ListSubscriptions \/ ListInvoices \/ Sanitize
    <3>1. stage' \notin {"run", "shutdown", "seed"}
      BY <2>2 DEF SmokeCheck, ListSubscriptions, ListInvoices, Sanitize, Fatal
    <3> QED
      BY <3>1
  <2> QED
    BY <2>1, <2>2
<1> QED
  BY <1>2, <1>3, <1>4, <1>5 DEF JobInv

LEMMA SeedUsageInv ==
  ASSUME JobInv, SeedUsage
  PROVE  JobInv'
<1>1. /\ Fresh /\ Billed /\ RecordsTyped /\ stage' = "run"
      /\ UNCHANGED <<pc, raw, accepted, enqueued, exported, mode, configured,
                     rawSubs, rawInvs, modelSubs, modelInvs, billed>>
  BY DEF JobInv, SeedUsage
<1>2. Fresh' /\ Billed' /\ RecordsTyped' /\ Seeds' = Seeds
  BY <1>1 DEF Fresh, Billed, RecordsTyped, Seeds, Seed
<1>3. FromStripe'
  <2>1. usages' = Seeds \/ (Seeds = <<>> /\ \E at \in Nat : usages' = LastResort(at))
    <3>1. Times \subseteq Nat
      BY PipelineAssumption
    <3> QED
      BY <3>1 DEF SeedUsage, LastResort
  <2>2. \A at : LastResort(at)' = LastResort(at)
    BY DEF LastResort
  <2>3. /\ subs' = [i \in DOMAIN modelSubs |-> ToSubscriptionLite(modelSubs[i])]
        /\ invs' = modelInvs
    <3>1. invs' = [i \in DOMAIN modelInvs |-> modelInvs[i]] /\ modelInvs \in Seq(ModelInvs)
      BY <1>1 DEF SeedUsage, ToInvoiceLite, RecordsTyped
    <3> QED
      BY <3>1 DEF SeedUsage
  <2> QED
    BY <1>1, <1>2, <2>1, <2>2, <2>3 DEF FromStripe, LastResort
<1>4. InputsTyped'
  BY <1>2, <1>3, FromStripeTyped, PTL
<1>5. PipelineInv'
  BY <1>2, <1>4, FreshInv, PTL
<1> QED
  BY <1>1, <1>2, <1>3, <1>5 DEF JobInv

LEMMA RunPipelineInv ==
  ASSUME JobInv, RunPipeline
  PROVE  JobInv'
<1>1. /\ PipelineInv /\ RecordsTyped /\ stage = "run" /\ Next /\ UNCHANGED jobVars
      /\ mode # "direct" => FromStripe /\ Billed
  BY DEF JobInv, RunPipeline
<1>2. UNCHANGED <<usages, subs, invs>>
  BY <1>1 DEF Next, Validate, RunMatchers, CombineEdges, EnqueueEdge, Finish, inputs
<1>3. PipelineInv'
  BY <1>1, PipelineStep
<1>4. /\ UNCHANGED <<stage, mode>> /\ RecordsTyped' /\ FromStripe' = FromStripe
      /\ Billed' = Billed
  BY <1>1, <1>2, FromStripeStable DEF jobVars, RecordsTyped, Billed
<1> QED
  BY <1>1, <1>3, <1>4 DEF JobInv

LEMMA AfterRunInv ==
  ASSUME JobInv, AfterRun
  PROVE  JobInv'
<1>1. /\ PipelineInv /\ RecordsTyped /\ FromStripe /\ Billed
      /\ UNCHANGED <<vars, mode, configured, rawSubs, rawInvs, modelSubs, modelInvs, billed>>
      /\ IF pc = "failed" THEN stage' = "fatal" ELSE stage' = "shutdown"
      /\ pc \in {"done", "failed"}
  BY DEF JobInv, AfterRun, Fatal
<1>2. PipelineInv' /\ UNCHANGED <<usages, subs, invs, pc>>
  BY <1>1, PipelineStutter DEF vars, inputs
<1>3. RecordsTyped' /\ FromStripe' /\ Billed'
  BY <1>1, <1>2, FromStripeStable DEF RecordsTyped, Billed
<1> QED
  BY <1>1, <1>2, <1>3 DEF JobInv

LEMMA JobStutter ==
  ASSUME JobInv, UNCHANGED allVars
  PROVE  JobInv'
<1>1. UNCHANGED vars /\ UNCHANGED jobVars
  BY DEF allVars
<1>2. PipelineInv' /\ Fresh' = Fresh /\ UNCHANGED <<usages, subs, invs, pc>>
  BY <1>1, PipelineStutter, FreshStable DEF JobInv, vars, inputs
<1>3. /\ RecordsTyped' = RecordsTyped /\ FromStripe' = FromStripe /\ Billed' = Billed
      /\ UNCHANGED <<stage, mode>>
  BY <1>1, <1>2, FromStripeStable DEF jobVars, RecordsTyped, Billed
<1> QED
  BY <1>2, <1>3 DEF JobInv

\* The inductive invariant of the job.
THEOREM JobInvariant == JobSpec => []JobInv
<1>1. JobInit => JobInv
  BY JobInitInv
<1>2. JobInv /\ [JobNext]_allVars => JobInv'
  BY BeforeRunInv, SeedUsageInv, RunPipelineInv, AfterRunInv, JobStutter DEF JobNext
<1> QED
  BY <1>1, <1>2, PTL DEF JobSpec

-----------------------------------------------------------------------------
(* What the edges of a job say *)

\* The recipe: a time nearby is not enough to accept an edge, and the
\* customer's identifier is.
TemporalIsNotEnough == 6 * WeightTemporal < 10 * Threshold
IdentityIsEnough == WeightID >= Threshold

LEMMA ProductStrict ==
  ASSUME NEW w \in Nat \ {0}, NEW a \in Nat, NEW b \in Nat, a < b
  PROVE  a * w < b * w
OBVIOUS

\* Weighted, what the temporal matcher finds is below the threshold.
LEMMA TemporalScore ==
  ASSUME TemporalIsNotEnough, WindowSec # 0, NEW c \in Nat, c <= 6 * WindowSec
  PROVE  Weight("temporal_proximity") * c < Threshold * One
<1>1. /\ WindowSec \in Nat \ {0} /\ WeightTemporal \in Nat /\ Threshold \in Nat
      /\ Weight("temporal_proximity") = WeightTemporal /\ One = 10 * WindowSec
  BY MatcherAssumption DEF Weight, One, Tenth
<1>2. 6 * WeightTemporal \in Nat /\ 10 * Threshold \in Nat /\ 6 * WindowSec \in Nat
  BY <1>1
<1>3. WeightTemporal * c <= WeightTemporal * (6 * WindowSec)
  BY <1>1, <1>2, ProductMonotonic
<1>4. (6 * WeightTemporal) * WindowSec < (10 * Threshold) * WindowSec
  BY <1>1, <1>2, ProductStrict DEF TemporalIsNotEnough
<1>5. WeightTemporal * (6 * WindowSec) = (6 * WeightTemporal) * WindowSec
  BY <1>1
<1>6. Threshold * (10 * WindowSec) = (10 * Threshold) * WindowSec
  BY <1>1
<1>7. /\ WeightTemporal * c \in Nat /\ (6 * WeightTemporal) * WindowSec \in Nat
      /\ (10 * Threshold) * WindowSec \in Nat
  BY <1>1, <1>2, ProductType
<1> QED
  BY <1>1, <1>3, <1>4, <1>5, <1>6, <1>7

\* The subscriptions and invoices of the pipeline are those of the models.
LEMMA InputsFromModels ==
  ASSUME RecordsTyped, FromStripe
  PROVE  /\ \A s \in ToSet(subs) : \E m \in ToSet(modelSubs) :
              m \in ModelSubs /\ s = ToSubscriptionLite(m)
         /\ \A i \in ToSet(invs) : i \in ToSet(modelInvs) /\ i \in ModelInvs
         /\ \A j \in 1..Len(modelSubs) : ToSubscriptionLite(modelSubs[j]) \in ToSet(subs)
<1>1. ListsOf(modelSubs, ModelSubs) /\ ListsOf(modelInvs, ModelInvs)
  BY RecordElements
<1>2. subs = [i \in DOMAIN modelSubs |-> ToSubscriptionLite(modelSubs[i])] /\ invs = modelInvs
  BY DEF FromStripe
<1>3. \A s : s \in ToSet(subs) <=>
               \E j \in 1..Len(modelSubs) : s = ToSubscriptionLite(modelSubs[j])
  BY <1>1, <1>2 DEF ListsOf, ToSet
<1> QED
  BY <1>1, <1>2, <1>3 DEF ListsOf

\* The event of last resort names a user and a price that no record has: all
\* that a matcher can find in it is a time nearby.
LEMMA LastResortFindsNothing ==
  ASSUME RecordsTyped, FromStripe, TemporalIsNotEnough, NEW at \in Nat,
         usages = LastResort(at)
  PROVE  Combine(Match(usages, subs, invs)) = {}
<1> DEFINE u == [user |-> FallbackUser, sku |-> FallbackPrice, at |-> at]
           det == "deterministic_id"
           temp == "temporal_proximity"
           sku == "sku_overlap"
<1>1. InputsTyped
  BY FromStripeTyped
<1>2. ToSet(usages) = {u}
  BY DEF LastResort, ToSet
<1>3. /\ \A s \in ToSet(subs) : /\ s \in Subs /\ s.customer \in Users
                                /\ u.sku \notin ToSet(s.prices) /\ u.sku \notin ToSet(s.products)
      /\ \A i \in ToSet(invs) : i \in Invs /\ i.customer \in Users
  <2>1. ASSUME NEW s \in ToSet(subs)
        PROVE  /\ s \in Subs /\ s.customer \in Users
               /\ u.sku \notin ToSet(s.prices) /\ u.sku \notin ToSet(s.products)
    <3>1. PICK m \in ModelSubs : s = ToSubscriptionLite(m)
      BY InputsFromModels
    <3>2. /\ s \in Subs /\ s.customer = m.customer
          /\ (\A p \in ToSet(s.prices) : p \in Prices)
          /\ (\A p \in ToSet(s.products) : p \in Products)
      BY <3>1, LiteElements
    <3>3. FallbackPrice \notin Prices /\ FallbackPrice \notin Products /\ m.customer \in Users
      BY JobAssumption DEF ModelSubs
    <3> QED
      BY <3>2, <3>3
  <2>2. ASSUME NEW i \in ToSet(invs)
        PROVE  i \in Invs /\ i.customer \in Users
    <3>1. i \in ModelInvs
      BY InputsFromModels
    <3>2. i \in Invs
      BY <1>1, ListElements DEF InputsTyped
    <3> QED
      BY <3>1, <3>2 DEF ModelInvs
  <2> QED
    BY <2>1, <2>2
<1>4. u.user \notin Users /\ u.at \in Nat
  BY JobAssumption
<1> SUFFICES ASSUME NEW key \in Pairs, FoundAt(key) # {}
             PROVE  Score(key) < Threshold * One
  <2>1. Combine(Match(usages, subs, invs)) = UNION {Justified(key) : key \in Pairs}
    BY <1>1, CombineIsJustified
  <2> QED
    BY <2>1 DEF Justified
<1>5. Events(key) \subseteq {u}
  BY <1>2 DEF Events
<1> DEFINE S == ToSet(subs)
           I == ToSet(invs)
           Billing == {s \in S : key.kind = "subscription" /\ key.to = s.id}
                        \cup {i \in I : key.kind = "invoice" /\ key.to = i.id}
<1> HIDE DEF u
<1>6. /\ Confidences(u, key)[det] = {}
      /\ Confidences(u, key)[sku] = {}
      /\ Confidences(u, key)[temp] =
           {TemporalConfidence(u.at, x.created) : x \in
              {y \in Billing : WindowSec > 0 /\ Distance(u.at, y.created) <= WindowSec}}
  <2>1. Confidences(u, key)[det] = {}
    BY <1>3, <1>4 DEF Confidences
  <2>2. Confidences(u, key)[sku] = {}
    BY <1>3 DEF Confidences
  <2> QED
    BY <2>1, <2>2 DEF Confidences
<1>7. \A c \in Confidences(u, key)[temp] : c \in Nat /\ c <= 6 * WindowSec /\ WindowSec # 0
  <2>1. SUFFICES ASSUME NEW x \in S \cup I, WindowSec > 0, Distance(u.at, x.created) <= WindowSec
                 PROVE  /\ TemporalConfidence(u.at, x.created) \in Nat
                        /\ TemporalConfidence(u.at, x.created) <= 6 * WindowSec
    BY <1>6
  <2>2. x.created \in Nat
    BY <1>3 DEF Subs, Invs
  <2>3. Distance(u.at, x.created) \in Nat /\ WindowSec \in Nat
    BY <1>4, <2>2, MatcherAssumption DEF Distance
  <2> QED
    BY <2>1, <2>3 DEF TemporalConfidence
<1>8. /\ Found(det, key) = {} /\ Found(sku, key) = {}
      /\ Found(temp, key) \subseteq Confidences(u, key)[temp]
  BY <1>5, <1>6 DEF Found
<1>9. WindowSec # 0
  <2>1. PICK m \in MatcherNames : Confidences(u, key)[m] # {}
    BY <1>5 DEF FoundAt
  <2>2. Confidences(u, key)[temp] # {}
    BY <1>6, <2>1 DEF MatcherNames
  <2> QED
    BY <1>7, <2>2
<1> DEFINE best == Max(Found(temp, key) \cup {0})
<1>10. best \in Nat /\ best <= 6 * WindowSec
  <2>1. best \in Found(temp, key) \cup {0}
    BY <1>1, BestFound DEF MatcherNames
  <2>2. 6 * WindowSec \in Nat
    BY MatcherAssumption
  <2> HIDE DEF best
  <2> QED
    BY <1>7, <1>8, <2>1, <2>2
<1>11. Max(Found(det, key) \cup {0}) = 0 /\ Max(Found(sku, key) \cup {0}) = 0
  BY <1>1, <1>8, BestFound DEF MatcherNames
<1>12. Score(key) = Weight(det) * 0 + Weight(temp) * best + Weight(sku) * 0
  BY <1>11 DEF Score
<1> HIDE DEF best
<1>13. Weight(temp) * best < Threshold * One
  BY <1>9, <1>10, TemporalScore
<1>14. Weight(det) * 0 = 0 /\ Weight(sku) * 0 = 0 /\ Weight(temp) * best \in Nat
  BY <1>10, WeightType, ProductType DEF MatcherNames
<1> QED
  BY <1>12, <1>13, <1>14

\* Every edge of a job's run is between a customer and a record, or an item
\* of a record, of the billing stream.
LEMMA EdgesResolveInv ==
  ASSUME JobInv, mode # "direct", TemporalIsNotEnough
  PROVE  EdgesResolve
<1> DEFINE own == ToSet(billed)
           items == UNION {ToSet(r.items) : r \in {x \in own : "items" \in DOMAIN x}}
           names == {r.id : r \in own} \cup {x.price : x \in items}
                      \cup {x.product : x \in items}
<1> SUFFICES ASSUME configured, NEW e \in ToSet(enqueued)
             PROVE  e.from \in {r.customer : r \in own} /\ e.to \in names \ {Absent}
  BY DEF EdgesResolve
<1>1. PipelineInv /\ Computed /\ RecordsTyped
  BY DEF JobInv, PipelineInv
<1>2. FromStripe /\ billed = modelSubs \o modelInvs
  <2>1. ~ Fresh
    BY DEF Fresh, ToSet
  <2> QED
    BY <2>1 DEF JobInv, Billed
<1>3. InputsTyped /\ e \in Combine(Match(usages, subs, invs))
  <2>1. e \in accepted
    BY <1>1, ListElements DEF PipelineInv, Exported
  <2> QED
    BY <1>1, <2>1 DEF Computed
<1>4. /\ \A m \in ToSet(modelSubs) : m \in own /\ m \in ModelSubs
      /\ \A v \in ToSet(modelInvs) : v \in own /\ v \in ModelInvs
  <2>1. modelSubs \in Seq(ModelSubs \cup ModelInvs) /\ modelInvs \in Seq(ModelSubs \cup ModelInvs)
    BY <1>1 DEF RecordsTyped
  <2>2. \A x : x \in own <=> x \in ToSet(modelSubs) \/ x \in ToSet(modelInvs)
    BY <1>2, <2>1, ConcatElements
  <2> QED
    BY <1>1, <2>2, ListElements DEF RecordsTyped
<1>5. PICK r \in ToSet(Match(usages, subs, invs)) : r.from = e.from /\ r.to = e.to
  BY <1>3, AcceptedFromRaw
<1>6. PICK u \in ToSet(usages) :
        /\ r.from = u.user
        /\ \/ \E s \in ToSet(subs) : r.to = s.id
           \/ \E i \in ToSet(invs) : r.to = i.id
           \/ \E s \in ToSet(subs) : r.to \in ToSet(s.prices) \cup ToSet(s.products)
  BY <1>3, RawEdgeEnds
<1>7. usages = Seeds
  BY <1>1, <1>2, <1>3, LastResortFindsNothing DEF FromStripe
<1>8. e.from \in {x.customer : x \in own}
  <2>1. PICK j \in 1..Len(modelSubs) : u \in ToSet(Seed(j))
    BY <1>1, <1>6, <1>7, SeedsElements
  <2>2. u.user = modelSubs[j].customer
    BY <1>1, <2>1, SeedElements
  <2>3. modelSubs[j] \in ToSet(modelSubs)
    BY <1>1, RecordElements DEF ListsOf
  <2> QED
    BY <1>4, <1>5, <1>6, <2>2, <2>3
<1>9. \A m \in ToSet(modelSubs) : /\ m.id \in names /\ m.id # Absent
                                  /\ \A x \in ToSet(m.items) : x.price \in names /\ x.product \in names
  <2>1. SUFFICES ASSUME NEW m \in ToSet(modelSubs)
                 PROVE  /\ m.id \in names /\ m.id # Absent
                        /\ ToSet(m.items) \subseteq items
    OBVIOUS
  <2>2. m \in own /\ m \in ModelSubs
    BY <1>4
  <2>3. m.id # Absent
    BY <2>2, JobAssumption DEF ModelSubs, SubIDs
  <2>4. "items" \in DOMAIN m
    BY <2>2 DEF ModelSubs
  <2> QED
    BY <2>2, <2>3, <2>4
<1>10. \A v \in ToSet(modelInvs) : v.id \in names /\ v.id # Absent
  BY <1>4, JobAssumption DEF ModelInvs, InvIDs
<1>11. e.to \in names \ {Absent}
  <2>1. CASE \E i \in ToSet(invs) : r.to = i.id
    BY <1>1, <1>2, <1>5, <1>10, <2>1, InputsFromModels
  <2>2. ASSUME NEW s \in ToSet(subs),
               r.to = s.id \/ r.to \in ToSet(s.prices) \cup ToSet(s.products)
        PROVE  e.to \in names \ {Absent}
    <3>1. PICK m \in ToSet(modelSubs) : m \in ModelSubs /\ s = ToSubscriptionLite(m)
      BY <1>1, <1>2, InputsFromModels
    <3>2. /\ s.id = m.id
          /\ \A p \in ToSet(s.prices) :
               p \in Prices /\ \E item \in ToSet(m.items) : p = item.price
          /\ \A p \in ToSet(s.products) :
               p \in Products /\ \E item \in ToSet(m.items) : p = item.product
      BY <3>1, LiteElements
    <3>3. Absent \notin Prices /\ Absent \notin Products
      BY JobAssumption
    <3> HIDE DEF names
    <3> QED
      BY <1>5, <1>9, <2>2, <3>2, <3>3
  <2> QED
    BY <1>6, <2>1, <2>2
<1> QED
  BY <1>8, <1>11

\* A complete run links each subscription that an event was made of to its
\* own customer.
LEMMA SeedsLinkedInv ==
  ASSUME JobInv, IdentityIsEnough
  PROVE  SeedsLinked
<1> SUFFICES ASSUME stage = "shutdown", mode = "matchers", NEW j \in DOMAIN modelSubs,
                    j <= SeedLimit, modelSubs[j].items # <<>>
             PROVE  \E e \in ToSet(enqueued) :
                      e.from = modelSubs[j].customer /\ e.to = modelSubs[j].id
  BY DEF SeedsLinked
<1> DEFINE m == modelSubs[j]
           s == ToSubscriptionLite(m)
           key == [from |-> m.customer, to |-> m.id, kind |-> "subscription"]
           det == "deterministic_id"
<1>1. /\ RecordsTyped /\ FromStripe /\ InputsTyped
      /\ ToSet(enqueued) = UNION {Justified(k) : k \in Pairs}
  <2>1. PipelineInv /\ RecordsTyped /\ FromStripe /\ pc = "done" /\ InputsTyped
    BY DEF JobInv, PipelineInv, Computed
  <2>2. ToSet(enqueued) = accepted
    BY <2>1, ListElements DEF PipelineInv, Exported, Remaining
  <2>3. accepted = Combine(Match(usages, subs, invs))
    BY <2>1 DEF PipelineInv, Computed
  <2> QED
    BY <2>1, <2>2, <2>3, CombineIsJustified
<1>2. j \in 1..Len(modelSubs) /\ m \in ModelSubs
  BY <1>1, RecordElements DEF ListsOf
<1>3. s \in ToSet(subs) /\ s.id = m.id /\ s.customer = m.customer
  BY <1>1, <1>2, InputsFromModels, LiteElements
<1>4. PICK u \in ToSet(usages) : u.user = m.customer
  <2>1. PICK u \in ToSet(Seed(j)) : u.user = m.customer
    BY <1>1, <1>2, SeedElements
  <2>2. u \in ToSet(Seeds)
    BY <1>1, <1>2, <2>1, SeedsElements
  <2>3. usages = Seeds
    <3>1. ToSet(<<>>) = {}
      BY DEF ToSet
    <3>2. Seeds # <<>>
      BY <2>2, <3>1
    <3> QED
      BY <1>1, <3>2 DEF FromStripe
  <2> QED
    BY <2>1, <2>2, <2>3
<1> HIDE DEF m, s
<1>5. key \in Pairs
  BY <1>3, <1>4 DEF Pairs
<1>6. u \in Events(key)
  BY <1>4 DEF Events
<1>7. One \in Confidences(u, key)[det]
  <2>1. s \in {x \in ToSet(subs) : key.kind = "subscription" /\ key.to = x.id}
    BY <1>3
  <2> QED
    BY <1>3, <1>4, <2>1 DEF Confidences
<1>8. FoundAt(key) # {} /\ One \in Found(det, key)
  BY <1>6, <1>7 DEF FoundAt, Found, MatcherNames
<1> HIDE DEF key
<1> DEFINE best(n) == Max(Found(n, key) \cup {0})
<1>9. \A n \in MatcherNames : best(n) \in Nat /\ Weight(n) * best(n) \in Nat
  <2>1. SUFFICES ASSUME NEW n \in MatcherNames
                 PROVE  best(n) \in Nat /\ Weight(n) * best(n) \in Nat
    OBVIOUS
  <2>2. best(n) \in Found(n, key) \cup {0} /\ Found(n, key) \subseteq 0..One
    BY <1>1, <1>5, BestFound, FoundType
  <2> HIDE DEF best
  <2> QED
    BY <2>2, Units, WeightType, ProductType
<1>10. One <= best(det)
  BY <1>1, <1>5, <1>8, BestFound DEF MatcherNames
<1>11. Score(key) = Weight(det) * best(det)
                      + Weight("temporal_proximity") * best("temporal_proximity")
                      + Weight("sku_overlap") * best("sku_overlap")
  BY DEF Score
<1> HIDE DEF best
<1>12. Threshold * One <= Weight(det) * best(det)
  <2>1. Weight(det) \in Nat /\ Threshold \in Nat /\ Threshold <= Weight(det) /\ One \in Nat
    <3>1. Weight(det) = WeightID
      BY DEF Weight
    <3> QED
      BY <3>1, MatcherAssumption, Units DEF IdentityIsEnough
  <2>2. Threshold * One <= Weight(det) * One
    BY <2>1
  <2>3. Weight(det) * One <= Weight(det) * best(det)
    BY <1>9, <1>10, <2>1, ProductMonotonic DEF MatcherNames
  <2>4. Threshold * One \in Nat /\ Weight(det) * One \in Nat /\ Weight(det) * best(det) \in Nat
    BY <1>9, <2>1, ProductType DEF MatcherNames
  <2> QED
    BY <2>2, <2>3, <2>4
<1>13. ~ (Score(key) < Threshold * One)
  <2>1. /\ Weight(det) * best(det) \in Nat
        /\ Weight("temporal_proximity") * best("temporal_proximity") \in Nat
        /\ Weight("sku_overlap") * best("sku_overlap") \in Nat
        /\ Threshold * One \in Nat
    BY <1>9, Units, MatcherAssumption, ProductType DEF MatcherNames
  <2> QED
    BY <1>11, <1>12, <2>1
<1>14. PICK e \in Justified(key) : e.from = key.from /\ e.to = key.to
  BY <1>8, <1>13 DEF Justified
<1>15. e \in ToSet(enqueued)
  BY <1>1, <1>5, <1>14
<1> QED
  BY <1>14, <1>15 DEF key, m

\* TypeOK of the pipeline: no confidence is outside [0, 1], and the counter
\* of exported edges agrees with them.
THEOREM PipelineTypes == JobSpec => []TypeOK
<1>1. JobInv => TypeOK
  BY PipelineProperties DEF JobInv
<1> QED
  BY <1>1, JobInvariant, PTL

\* What Combine accepts is what the inputs justify, whatever the number of
\* events and records, the window, the weights and the threshold.
THEOREM OnlyJustifiedEdges == JobSpec => []AcceptedIsJustified
<1>1. JobInv => AcceptedIsJustified
  BY PipelineProperties DEF JobInv
<1> QED
  BY <1>1, JobInvariant, PTL

\* Wherever the export stops, the edges that left are the more certain ones.
THEOREM MoreCertainFirst == JobSpec => []BestFirst
<1>1. JobInv => BestFirst
  BY PipelineProperties DEF JobInv
<1> QED
  BY <1>1, JobInvariant, PTL

\* No edge that leaves names an identifier that is not synthetic.
THEOREM SyntheticEdges == JobSpec => []OnlySyntheticLeaves
<1>1. JobInv => OnlySyntheticLeaves
  BY PipelineProperties DEF JobInv
<1> QED
  BY <1>1, JobInvariant, PTL

\* What a job's edges say is borne out by its billing records, with a recipe
\* in which the identity of the customer counts, and a time nearby does not
\* suffice.
THEOREM JobsLink ==
  ASSUME TemporalIsNotEnough, IdentityIsEnough
  PROVE  JobSpec => []JobLinks
<1>1. JobInv => JobLinks
  BY EdgesResolveInv, SeedsLinkedInv DEF JobLinks
<1> QED
  BY <1>1, JobInvariant, PTL

=============================================================================
