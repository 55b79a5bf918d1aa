------------------------------- MODULE KsSizes -------------------------------
(***************************************************************************)
(* The lengths of responses and the sizes of the buffers they are          *)
(* formatted in, of src/ks_protocol.c and src/ks_server.c, with the        *)
(* program's own constants.  A response that does not fit is dropped with  *)
(* its connection.  KsReply checks the lengths against the formats,        *)
(* KsProtocolProofs shows that no request makes a response too long.       *)
(***************************************************************************)
EXTENDS Integers, KsLimits

\* HELP's and INFO's texts must fit too, and a length has at most six digits.
ASSUME LimitAssumption == MaxRequest \in Nat /\ MaxRequest >= 1000 /\ MaxRequest < 1000000

-----------------------------------------------------------------------------
(* Lengths, of texts of n bytes.                                           *)

DigitCount(n) == IF n < 10 THEN 1 ELSE IF n < 100 THEN 2 ELSE IF n < 1000 THEN 3
                 ELSE IF n < 10000 THEN 4 ELSE IF n < 100000 THEN 5 ELSE 6

\* Simple strings, integers of n characters and array headers; errors; bulk
\* strings; Pub/Sub messages with a channel of c bytes.
LineLen(n)       == 1 + n + 2
ErrorLen(n)      == 5 + n + 2
BulkLen(n)       == LineLen(DigitCount(n)) + n + 2
MessageLen(c, n) == LineLen(1) + BulkLen(7) + BulkLen(c) + BulkLen(n)

\* The text of HELP, and of INFO: nine numbers of d digits between 205 bytes.
HelpTextLen    == 244
InfoTextLen(d) == 205 + 9 * d

-----------------------------------------------------------------------------
(* Buffers.                                                                *)

ErrorCap   == 256               \* response in queue_error
InfoCap    == 768               \* info in format_info
ReplyCap   == MaxRequest + 64   \* response in handle_command
MessageCap == MaxRequest + 128  \* response in deliver_pubsub_message
OutputCap  == 2 * (MaxRequest + 64)
HighWater  == OutputCap \div 2

\* How many bytes of a line an argument of n bytes takes at least.
Written(n) == IF n = 0 THEN 2 ELSE n

\* A request with a command of w bytes and arguments that take n exists.
IsRequestOf(w, n) == w + n <= MaxRequest

=============================================================================
