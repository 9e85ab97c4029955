-------------------------- MODULE MCMessageChannel --------------------------
(* MessageChannel for TLC: the application threads are interchangeable.    *)
EXTENDS MessageChannel, TLC

Symmetry == Permutations(App)
=============================================================================
