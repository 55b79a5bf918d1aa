----------------------------- MODULE MCKsPubsub -----------------------------
(* KsPubsub for TLC: two channels, three clients.                           *)
EXTENDS KsPubsub, TLC

Symmetry == Permutations(Channels) \cup Permutations(Clients)
=============================================================================
