------------------------------ MODULE MCKsNet ------------------------------
(* KsNet for TLC.                                                          *)
EXTENDS KsNet

=============================================================================
