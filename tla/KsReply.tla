------------------------------- MODULE KsReply -------------------------------
(***************************************************************************)
(* The response side of the protocol, end to end: src/ks_protocol.c and    *)
(* src/ks_server.c format responses into buffers of a given capacity, the  *)
(* stream cuts them into chunks, and cli/kessel_cli.c reads them back.     *)
(* A byte is a character.  The lengths of KsSizes are checked with them.   *)
(***************************************************************************)
EXTENDS KsSizes, Sequences, SequencesExt, FiniteSetsExt

CONSTANTS Conversations, \* sequences of responses the server may have to send, with capacities
          ReaderCap,     \* the size of reader->buffer
          HeaderCap,     \* the size of header, in render_response
          BulkHeaderCap, \* the size of bulk_header, in render_array
          MaxBulk,       \* KESSEL_CLI_MAX_LINE
          MaxElements    \* the longest array the CLI reads

ASSUME SizesAssumption == {ReaderCap, HeaderCap, BulkHeaderCap, MaxBulk, MaxElements} \subseteq Nat \ {0}

VARIABLES talk,         \* what the server has to send, in order (fixed)
          wire, buf,    \* the bytes under way; reader->buffer from begin to end
          pc,           \* where the reader is
          type, header, \* the type byte and the header so far
          left,         \* elements of an array still to read, 0 outside of one
          remaining, data, terminator,  \* the bulk string being read
          parts,        \* the elements read so far
          shown         \* the responses printed

bulk == <<remaining, data, terminator>>
vars == <<talk, wire, buf, pc, type, header, left, bulk, parts, shown>>

-----------------------------------------------------------------------------
(* ks_protocol.c, ks_server.c: formatting.  <<>> stands for a result of 0. *)

CRLF == <<"\r", "\n">>
Digits == <<"0", "1", "2", "3", "4", "5", "6", "7", "8", "9">>

Unsigned[n \in Nat] == IF n < 10 THEN <<Digits[n + 1]>> ELSE Unsigned[n \div 10] \o <<Digits[(n % 10) + 1]>>
Decimal(n) == IF n < 0 THEN <<"-">> \o Unsigned[-n] ELSE Unsigned[n]

\* Mutant: the NUL at the end is forgotten.
PrintedWithoutNul(s, cap) == IF Len(s) > cap THEN <<>> ELSE s

\* snprintf into cap bytes, taken back unless all of it and the NUL fit.
Printed(s, cap) == IF Len(s) >= cap THEN <<>> ELSE s

ERR     == <<"E", "R", "R", " ">>
MESSAGE == <<"m", "e", "s", "s", "a", "g", "e">>

Simple(text, cap)     == Printed(<<"+">> \o text \o CRLF, cap)
Error(text, cap)      == Printed(<<"-">> \o ERR \o text \o CRLF, cap)
Integer(n, cap)       == Printed(<<":">> \o Decimal(n) \o CRLF, cap)
ArrayHeader(n, cap)   == Printed(<<"*">> \o Decimal(n) \o CRLF, cap)
NilReply(cap)         == IF cap < 6 THEN <<>> ELSE <<"$", "-", "1">> \o CRLF

LengthTag(text) == <<"$">> \o Decimal(Len(text)) \o CRLF

Bulk(text, cap) ==
  LET h    == Printed(LengthTag(text), cap)
      room == cap - Len(h)
  IN  IF h = <<>> \/ room < 3 \/ Len(text) > room - 3 THEN <<>> ELSE h \o text \o CRLF

\* format_pubsub_message: each part goes behind the ones before it, or none.
Behind(soFar, text, cap) ==
  LET next == Bulk(text, cap - Len(soFar))
  IN  IF soFar = <<>> \/ next = <<>> THEN <<>> ELSE soFar \o next

Message(channel, text, cap) ==
  Behind(Behind(Behind(ArrayHeader(3, cap), MESSAGE, cap), channel, cap), text, cap)

Formatted(r, cap) ==
  CASE r.kind = "simple"  -> Simple(r.text, cap)
    [] r.kind = "error"   -> Error(r.text, cap)
    [] r.kind = "integer" -> Integer(r.value, cap)
    [] r.kind = "nil"     -> NilReply(cap)
    [] r.kind = "bulk"    -> Bulk(r.text, cap)
    [] r.kind = "message" -> Message(r.channel, r.text, cap)

Init == /\ talk \in Conversations
        /\ wire = FlattenSeq([n \in DOMAIN talk |-> Formatted(talk[n].reply, talk[n].cap)])
        /\ buf = <<>>
        /\ pc = "type" /\ type = "none" /\ header = <<>>
        /\ left = 0 /\ remaining = 0 /\ data = <<>> /\ terminator = <<>>
        /\ parts = <<>> /\ shown = <<>>

-----------------------------------------------------------------------------
(* cli/kessel_cli.c: the reader.                                           *)

\* fill_reader: any part of what is under way.
Fill(n) == /\ pc # "refused" /\ buf = <<>>
           /\ n \in 1 .. Min({Len(wire), ReaderCap})
           /\ buf' = SubSeq(wire, 1, n) /\ wire' = SubSeq(wire, n + 1, Len(wire))
           /\ UNCHANGED <<talk, pc, type, header, left, bulk, parts, shown>>

\* read_byte in one of the reader's states.
Reads(p) == /\ pc = p /\ buf # <<>>
            /\ buf' = Tail(buf)
            /\ UNCHANGED <<talk, wire>>

Byte == Head(buf)

Refuse == pc' = "refused" /\ UNCHANGED <<type, header, left, bulk, parts, shown>>

ReadType == /\ Reads("type")
            /\ type' = Byte /\ header' = <<>> /\ parts' = <<>>
            /\ pc' = "header"
            /\ UNCHANGED <<left, bulk, shown>>

\* An array holds bulk strings only.
ReadElementType ==
  /\ Reads("element")
  /\ IF Byte = "$"
     THEN pc' = "header" /\ header' = <<>> /\ UNCHANGED <<type, left, bulk, parts, shown>>
     ELSE Refuse

\* A whole response is printed.
Shows(ps) == /\ shown' = Append(shown, [type |-> type, parts |-> ps])
             /\ pc' = "type"

\* Whether nothing follows with n elements left: one, or none outside of an array.
IsLast(n) == n <= 1

\* A bulk string is whole: it is the response, or an element of it.
Element(part) ==
  /\ parts' = Append(parts, part)
  /\ left' = Max({0, left - 1})
  /\ IF IsLast(left) THEN Shows(parts') ELSE pc' = "element" /\ UNCHANGED shown

\* parse_integer: the values a header may stand for, one or none.
ParseInteger(h) ==
  LET negative == h # <<>> /\ h[1] = "-"
      digits   == IF negative THEN Tail(h) ELSE h
      Value    == FoldLeft(LAMBDA v, c : 10 * v + (CHOOSE d \in 0 .. 9 : Digits[d + 1] = c), 0, digits)
  IN  IF digits = <<>> \/ ~(ToSet(digits) \subseteq ToSet(Digits)) THEN {}
      ELSE {IF negative THEN -Value ELSE Value}

\* What a header announces.
BulkOf(n) ==
  IF n = -1
  THEN Element(<<"(nil)">>) /\ UNCHANGED <<type, header, bulk>>
  ELSE /\ remaining' = n /\ data' = <<>> /\ terminator' = <<>>
       /\ pc' = IF n = 0 THEN "end" ELSE "data"
       /\ UNCHANGED <<type, header, left, parts, shown>>

ArrayOf(n) ==
  IF n = 0 THEN Shows(<<>>) /\ UNCHANGED <<type, header, left, bulk, parts>>
  ELSE pc' = "element" /\ left' = n /\ UNCHANGED <<type, header, bulk, parts, shown>>

Line(h) == Shows(<<h>>) /\ UNCHANGED <<type, header, left, bulk, parts>>

Dispatch(h) ==
  LET n == ParseInteger(h)
  IN  IF type = "$" \/ left > 0
      THEN IF \E v \in n : v \in -1 .. MaxBulk THEN BulkOf(CHOOSE v \in n : TRUE) ELSE Refuse
      ELSE IF type = "*"
           THEN IF \E v \in n : v \in 0 .. MaxElements THEN ArrayOf(CHOOSE v \in n : TRUE) ELSE Refuse
      ELSE IF type = ":"
           THEN IF n # {} THEN Line(Decimal(CHOOSE v \in n : TRUE)) ELSE Refuse
      ELSE IF type \in {"+", "-"} THEN Line(h) ELSE Refuse

ReadHeader ==
  /\ Reads("header")
  /\ IF Byte = "\n"
     THEN IF header # <<>> /\ Last(header) = "\r" THEN Dispatch(Front(header)) ELSE Refuse
     ELSE IF Len(header) + 1 >= (IF left > 0 THEN BulkHeaderCap ELSE HeaderCap) THEN Refuse
     ELSE header' = Append(header, Byte) /\ UNCHANGED <<pc, type, left, bulk, parts, shown>>

\* Mutant: the last byte is left in the buffer.
TakesButLast(available) == Min({available, remaining - 1})

\* read_exact takes what is there, but no more than it was asked for.
Takes(available) == Min({available, remaining})

ReadData ==
  /\ pc = "data" /\ buf # <<>>
  /\ LET n == Takes(Len(buf))
     IN  /\ data' = data \o SubSeq(buf, 1, n)
         /\ buf' = SubSeq(buf, n + 1, Len(buf))
         /\ remaining' = remaining - n
         /\ pc' = IF remaining <= n THEN "end" ELSE "data"
  /\ UNCHANGED <<talk, wire, type, header, left, terminator, parts, shown>>

ReadEnd ==
  /\ Reads("end")
  /\ LET t == Append(terminator, Byte)
     IN  IF Len(t) < 2 THEN terminator' = t /\ UNCHANGED <<pc, type, header, left, remaining, data, parts, shown>>
         ELSE IF t = CRLF THEN Element(data) /\ terminator' = <<>> /\ UNCHANGED <<type, header, remaining, data>>
         ELSE Refuse

Next == \/ \E n \in 1 .. ReaderCap : Fill(n)
        \/ ReadType \/ ReadElementType \/ ReadHeader \/ ReadData \/ ReadEnd

\* The reader is scheduled and the stream delivers.
Spec == Init /\ [][Next]_vars /\ WF_vars(Next)

-----------------------------------------------------------------------------
(* Properties.                                                             *)

\* How long a response is when nothing limits it.
LenOf(r) ==
  CASE r.kind = "simple"  -> LineLen(Len(r.text))
    [] r.kind = "error"   -> ErrorLen(Len(r.text))
    [] r.kind = "integer" -> LineLen(Len(Decimal(r.value)))
    [] r.kind = "nil"     -> 5
    [] r.kind = "bulk"    -> BulkLen(Len(r.text))
    [] r.kind = "message" -> MessageLen(Len(r.channel), Len(r.text))

\* The responses that fit their buffer together with a NUL, and what the user is
\* to see of them.
Sent == SelectSeq(talk, LAMBDA t : LenOf(t.reply) < t.cap)

Seen(r) ==
  CASE r.kind = "simple"  -> [type |-> "+", parts |-> <<r.text>>]
    [] r.kind = "error"   -> [type |-> "-", parts |-> <<ERR \o r.text>>]
    [] r.kind = "integer" -> [type |-> ":", parts |-> <<Decimal(r.value)>>]
    [] r.kind = "nil"     -> [type |-> "$", parts |-> << <<"(nil)">> >>]
    [] r.kind = "bulk"    -> [type |-> "$", parts |-> <<r.text>>]
    [] r.kind = "message" -> [type |-> "*", parts |-> <<MESSAGE, r.channel, r.text>>]

\* However the stream is cut, the CLI shows nothing but the responses that fit,
\* in order and unchanged, bulk strings that hold CRLF or look like a response
\* too, and refuses none: a format function that is given too little room lets no
\* part of a response out, and the reader takes the bytes of one response only.
ShowsWhatWasSent ==
  /\ pc # "refused"
  /\ IsPrefix(shown, [n \in DOMAIN Sent |-> Seen(Sent[n].reply)])

\* Everything that fits is shown in the end, and then no byte is left: the reader
\* never waits for one nobody sends.
ShowsAll == <>(Len(shown) = Len(Sent) /\ pc = "type" /\ buf = <<>> /\ wire = <<>>)

=============================================================================
