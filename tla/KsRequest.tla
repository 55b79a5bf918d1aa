------------------------------ MODULE KsRequest ------------------------------
(***************************************************************************)
(* A request from the keyboard to its tokens: cli/kessel_cli.c sends the   *)
(* line as it is and recognises EXIT and SUBSCRIBE by a scanner of its     *)
(* own, and src/ks_protocol.c (KsProtocol) takes apart what arrives.  The  *)
(* words EXIT, SUBSCRIBE and UNSUBSCRIBE, in any case, are one character   *)
(* each.                                                                   *)
(***************************************************************************)
EXTENDS KsProtocol

CONSTANTS Typed,  \* the lines a user of the CLI may type
          Others  \* the lines another client may send

EXIT        == "EXIT"
SUBSCRIBE   == "SUBSCRIBE"
UNSUBSCRIBE == "UNSUBSCRIBE"
CRLF        == <<CR, LF>>

\* A line that is typed ends at its LF.
ASSUME LinesAssumption == /\ Typed \cup Others \subseteq Seq(Characters)
                          /\ \A l \in Typed : \A n \in 1 .. Len(l) - 1 : l[n] # LF

\* SUBSCRIBE stands for the word in any case, and for that only.
ASSUME WordAssumption == \A c \in Characters : Upper[c] = SUBSCRIBE <=> c = SUBSCRIBE

VARIABLES typed,   \* the line
          outcome, \* what the CLI's turn does with it
          undo     \* unsubscribe_command

cli  == <<typed, outcome, undo>>
vars == <<parser, cli>>

-----------------------------------------------------------------------------
(* The scanners of the CLI.                                                *)

\* t without the characters of S at its end, at its start.
TrimEnd(t, S)   == SubSeq(t, 1, Max({0} \cup {n \in DOMAIN t : t[n] \notin S}))
TrimStart(t, S) == SubSeq(t, Min({Len(t) + 1} \cup {n \in DOMAIN t : t[n] \notin S}), Len(t))

\* command_length: the line up to its end.
CommandPart(l) == TrimEnd(l, {CR, LF})

IsExit(l) == TrimStart(TrimEnd(l, {CR, LF} \cup Separators), Separators) = <<EXIT>>

\* Mutant: the argument ends at the first blank, in quotes or not.
ArgumentFirstWord(rest) ==
  LET t == TrimStart(rest, Separators)
  IN  SubSeq(t, 1, Min({Len(t)} \cup {n - 1 : n \in {k \in DOMAIN t : t[k] \in Separators}}))

Argument(rest) == TrimEnd(TrimStart(rest, Separators), Separators)

\* The line starts with the keyword and a separator.
Keyword(t) == Len(t) > 1 /\ t[1] = SUBSCRIBE /\ t[2] \in Separators

\* copy_subscribe_argument: the argument, <<>> for SUBSCRIBE_NOT_COMMAND.
SubscribeArgument(l) ==
  LET t == TrimStart(CommandPart(l), Separators)
  IN  IF Keyword(t) THEN Argument(Tail(t)) ELSE <<>>

\* send_command, and the UNSUBSCRIBE that is kept for Ctrl+C.
Sent(l)        == CommandPart(l) \o CRLF
Unsubscribe(a) == <<UNSUBSCRIBE, " ">> \o a \o CRLF

-----------------------------------------------------------------------------
(* One turn of main, then the parser's.                                    *)

Init == Idle /\ typed = <<>> /\ outcome = "none" /\ undo = <<>>

Exits(l) == typed' = l /\ IsExit(l) /\ outcome' = "exit" /\ UNCHANGED <<undo, parser>>

\* Empty or too long: main reads the next line.
Skips(l) == /\ typed' = l /\ ~IsExit(l)
            /\ CommandPart(l) = <<>> \/ Len(CommandPart(l)) > MaxRequest
            /\ outcome' = "skipped"
            /\ UNCHANGED <<undo, parser>>

Sends(l) == /\ typed' = l /\ ~IsExit(l)
            /\ Len(CommandPart(l)) \in 1 .. MaxRequest
            /\ Parse(Sent(l))
            /\ LET a == SubscribeArgument(l)
               IN  IF a = <<>> THEN outcome' = "command" /\ UNCHANGED undo
                   ELSE outcome' = "subscribe" /\ undo' = Unsubscribe(a)

\* Any other client of the server.
Other(l) == typed' = l /\ outcome' = "other" /\ UNCHANGED undo /\ Parse(l)

Next == \/ /\ outcome = "none"
           /\ \/ \E l \in Typed : Exits(l) \/ Skips(l) \/ Sends(l)
              \/ \E l \in Others : Other(l)
        \/ Steps /\ UNCHANGED cli

Spec == Init /\ [][Next]_vars

-----------------------------------------------------------------------------
(* Properties.                                                             *)

\* What the UNSUBSCRIBE of Ctrl+C takes back.
Undone == {<< <<SUBSCRIBE>> >> \o Tail(u) :
             u \in {r \in Readings(CommandPart(undo)) : r[1] = <<UNSUBSCRIBE>>}}

\* A channel that ends in CR, with a blank behind it: the blank keeps the CR in
\* SUBSCRIBE, but UNSUBSCRIBE puts its CRLF right behind it, and the server trims
\* every CR at the end.  This is the one case in which Ctrl+C names another channel.
EndsInCR == undo[Len(undo) - 2] = CR

\* The CLI and the server agree on what a subscription is: the CLI recognises a
\* line exactly if the server reads it as SUBSCRIBE with an argument, unless the
\* word is quoted, and what Ctrl+C takes back is the very channel, blanks, quotes
\* and escapes included.
CliAgreesWithServer ==
  pc = "done" =>
    /\ outcome = "command" /\ Len(Tokens) > 1 /\ Tokens[1] = <<SUBSCRIBE>> =>
         Head(TrimStart(typed, Separators)) = Quote
    /\ outcome = "subscribe" => Tokens[1] = <<SUBSCRIBE>>
    /\ outcome = "subscribe" /\ ~EndsInCR => Undone = {Tokens}

=============================================================================
