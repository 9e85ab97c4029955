-------------------------- MODULE MCAdapterServers --------------------------
(* AdapterServers for TLC: connections and sessions are interchangeable.   *)
EXTENDS AdapterServers, TLC

Symmetry == Permutations(Conns) \cup Permutations(Sess)
=============================================================================
