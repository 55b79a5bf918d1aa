------------------------------ MODULE MCKsCli ------------------------------
(* KsCli for TLC.                                                          *)
EXTENDS KsCli

=============================================================================
