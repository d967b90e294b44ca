--------------------------- MODULE MCBadgerQueue ---------------------------
(* Instances of BadgerQueue for TLC. *)
EXTENDS BadgerQueue, TLC

\* Producers are interchangeable.
ProducerSymmetry == Permutations(Producers)

=============================================================================
