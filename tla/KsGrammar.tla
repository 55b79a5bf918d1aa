------------------------------ MODULE KsGrammar ------------------------------
(***************************************************************************)
(* What a request line means: tokens separated by spaces or tabs, each     *)
(* plain, or quoted with \" and \\ as its only escapes (PROTOCOL.md,       *)
(* "Arguments").  A text is a sequence of characters; a reading of it is   *)
(* the sequence of its tokens.  KsProtocol's parser is checked against it. *)
(***************************************************************************)
EXTENDS Integers, Sequences

Quote     == "\""
Backslash == "\\"
Separators == {" ", "\t"}

From(t, p) == SubSeq(t, p, Len(t))

\* What the inside of a pair of quotes stands for, from each position on.
Rests(body) ==
  LET Rest[p \in 1 .. Len(body) + 2] ==
        IF p > Len(body) THEN IF p = Len(body) + 1 THEN {<<>>} ELSE {}
        ELSE IF body[p] = Quote THEN {}
        ELSE IF body[p] # Backslash THEN {<<body[p]>> \o m : m \in Rest[p + 1]}
        ELSE IF p < Len(body) /\ body[p + 1] \in {Quote, Backslash}
             THEN {<<body[p + 1]>> \o m : m \in Rest[p + 2]}
        ELSE {}
  IN  Rest

Unquoted(body) == Rests(body)[1]

IsPlain(t) == t # <<>> /\ \A n \in DOMAIN t : t[n] \notin Separators \cup {Quote}

\* What one token stands for: one text, or none if it is malformed.
TokenMeanings(t) ==
  IF IsPlain(t) THEN {t}
  ELSE IF Len(t) >= 2 /\ t[1] = Quote /\ t[Len(t)] = Quote
       THEN Unquoted(SubSeq(t, 2, Len(t) - 1))
  ELSE {}

AllSeparators(t) == \A n \in DOMAIN t : t[n] \in Separators

\* Where a token that starts at p may end.
TokenEnds(t, p) == {e \in p .. Len(t) : e = Len(t) \/ t[e + 1] \in Separators}

\* A token that stands for one of M, and a reading of R behind it.
Joined(M, R) == UNION {{<<m>> \o ms : ms \in R} : m \in M}

\* The readings of a text from each position on: a token comes first, perhaps
\* behind separators, and what follows it is empty or starts with a separator.
Reads(t) ==
  LET Read[p \in 1 .. Len(t) + 1] ==
        IF AllSeparators(From(t, p)) THEN {<<>>}
        ELSE IF t[p] \in Separators THEN Read[p + 1]
        ELSE UNION {Joined(TokenMeanings(SubSeq(t, p, e)), Read[e + 1]) : e \in TokenEnds(t, p)}
  IN  Read

Readings(t) == Reads(t)[1]

=============================================================================
