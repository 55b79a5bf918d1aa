------------------------------- MODULE MCKsKv -------------------------------
(* KsKv for TLC: two keys in two slots, so that the second one rehashes.   *)
EXTENDS KsKv

=============================================================================
