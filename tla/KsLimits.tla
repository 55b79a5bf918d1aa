------------------------------ MODULE KsLimits ------------------------------
(***************************************************************************)
(* include/ks_protocol.h: the limit on a request that the parser           *)
(* (KsProtocol) and the buffers (KsSizes) share.                           *)
(***************************************************************************)
EXTENDS Integers

CONSTANT MaxRequest  \* KS_MAX_REQUEST

=============================================================================
