------------------------------ MODULE MCControl ------------------------------
(* Control for TLC: goroutines, and commands of one kind, are interchangeable. *)
EXTENDS Control, TLC

Symmetry == Permutations(Requests) \cup Permutations(ShutdownCommands)

=============================================================================
