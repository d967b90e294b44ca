---------------------------- MODULE MCMatcherJob ----------------------------
(* MatcherJob for TLC: what the subscriptions list.                        *)
EXTENDS MatcherJob

\* A caller of pipeline.Run may list nothing, something that is not
\* synthetic, and a product twice, once for each of two prices.
MCPriceLists == {<<>>} \cup {<<p>> : p \in Prices}
MCProductLists == {<<>>, <<Raw>>} \cup {<<q, q>> : q \in Products}

\* A first item without a price and a later one with both, or two items of
\* one price, of which the first has a product.
MCItemLists ==
  LET Item(p, q) == [price |-> p, product |-> q]
  IN  {<<>>} \cup UNION {{<<Item(Empty, Empty), Item(p, q)>>, <<Item(p, q), Item(p, Empty)>>} :
                         p \in Ids(Prices), q \in Ids(Products)}

=============================================================================
