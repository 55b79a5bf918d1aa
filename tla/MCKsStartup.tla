---------------------------- MODULE MCKsStartup ----------------------------
(* KsStartup for TLC: ports up to 9, at most 3 clients, unsigned long modulo *)
(* 16, so that -15 wraps into the range.                                     *)
EXTENDS KsStartup

MCNumber == [x \in {"0", "1", "3", "4", "9", "10", "-1", "-15", "16"} |->
               CASE x = "0" -> 0 [] x = "1" -> 1 [] x = "3" -> 3 [] x = "4" -> 4 [] x = "9" -> 9
                 [] x = "10" -> 10 [] x = "-1" -> -1 [] x = "-15" -> -15 [] x = "16" -> 16]
MCLevels == [x \in {"INFO", "WARN"} |-> IF x = "INFO" THEN 2 ELSE 1]
MCDefaults == [host |-> "0.0.0.0", port |-> 7, log |-> 2, clients |-> 2]

\* One or two settings, with values on both sides of every limit, and lists that
\* end too early.
TextsFor == [host |-> {"", "a", "--port"}, port |-> {"0", "9", "10", "x"},
             log |-> {"WARN", "x"}, clients |-> {"0", "3", "4", "-1", "-15", "16"}]
Pairs == UNION {{<<OptionOf[f], t>> : t \in TextsFor[f]} : f \in Fields}
MCArguments == {<<>>} \cup Pairs \cup {p \o q : p \in Pairs, q \in Pairs}
               \cup {<<o>> : o \in Options \cup {"9"}} \cup {p \o <<"--port">> : p \in Pairs}
MCEnvironments ==
  {<<>>, [f \in {"host"} |-> ""], [f \in {"log", "port"} |-> IF f = "log" THEN "WARN" ELSE "10"]}
  \cup {[f \in {"port", "clients"} |-> IF f = "port" THEN "1" ELSE t] : t \in {"1", "4"}}

=============================================================================
