----------------------------- MODULE MCKsServer -----------------------------
(* KsServer for TLC.                                                       *)
EXTENDS KsServer

\* Every piece of text that fits the input buffer.
AllChunks == UNION {[1 .. n -> Bytes] : n \in 1 .. InputCap}

\* One byte at a time.
SingleBytes == {<<"b">>, <<"n">>}
=============================================================================
