----------------------------- MODULE MCKsReply -----------------------------
(* KsReply for TLC.                                                        *)
EXTENDS KsReply

\* Texts that are empty, hold a line end, look like a response, take two digits.
Texts == {<<>>, <<"a">>, CRLF, <<"$", "1">> \o CRLF, [n \in 1 .. 10 |-> "b"]}

Replies ==
  {[kind |-> "simple", text |-> <<"O", "K">>], [kind |-> "error", text |-> <<"x">>], [kind |-> "nil"]}
  \cup {[kind |-> "integer", value |-> v] : v \in {0, 1, -2, 10, 305}}
  \cup {[kind |-> "bulk", text |-> t] : t \in Texts}
  \cup {[kind |-> "message", channel |-> c, text |-> t] : c \in {<<"a">>, [n \in 1 .. 10 |-> "c"]}, t \in Texts}

Large == 60

\* Every response with every capacity, and every two responses behind each other.
MCConversations ==
  {<<[reply |-> r, cap |-> c]>> : r \in Replies, c \in 0 .. Large}
  \cup {<<[reply |-> q, cap |-> Large], [reply |-> r, cap |-> Large]>> : q \in Replies, r \in Replies}

=============================================================================
