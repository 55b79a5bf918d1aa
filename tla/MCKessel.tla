------------------------------ MODULE MCKessel ------------------------------
(* Kessel for TLC.                                                         *)
EXTENDS Kessel, TLC

\* Seconds on both sides of zero and of the limits; "far" is out of range.
MCNumber == [t \in {"-2", "0", "1", "3", "far"} |->
               CASE t = "-2" -> -2 [] t = "0" -> 0 [] t = "1" -> 1 [] t = "3" -> 3 [] t = "far" -> 4]
MCTexts == DOMAIN MCNumber

Symmetry == Permutations(Clients) \cup Permutations(Data)
=============================================================================
