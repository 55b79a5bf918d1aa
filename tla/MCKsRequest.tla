---------------------------- MODULE MCKsRequest ----------------------------
(* KsRequest for TLC.                                                      *)
EXTENDS KsRequest

Chars == {SUBSCRIBE, "a", " ", Quote, Backslash, CR}
TextsOf(S, lo, hi) == UNION {[1 .. n -> S] : n \in lo .. hi}

MCUpper == [c \in Chars \cup {EXIT, LF, "\t"} |-> IF c = "a" THEN "A" ELSE c]

\* Every line of up to six characters, and longer ones than MaxRequest.
MCTyped == {t \o <<LF>> : t \in TextsOf(Chars, 5, 6) \cup TextsOf({"a", CR}, 7, 7)}
           \cup {t \o e : t \in TextsOf(Chars \cup {EXIT}, 0, 4), e \in {<<>>, <<LF>>}}

\* Every text of up to four characters with every terminator, and texts around
\* the limit with any.
MCOthers == {t \o e : t \in TextsOf((Chars \ {SUBSCRIBE}) \cup {"\t"}, 0, 4), e \in {<<>>, <<LF>>, <<CR, LF>>}}
            \cup TextsOf({"a", CR, LF}, 5, 9)

=============================================================================
