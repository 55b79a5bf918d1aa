------------------------------- MODULE KsCli -------------------------------
(***************************************************************************)
(* cli/kessel_cli.c: the read-eval-print loop and the subscription mode,   *)
(* against a server that answers in order, pushes messages while there is  *)
(* a subscription, may be slow and may go away.  Ctrl+C is a signal that   *)
(* may arrive between any two steps.                                       *)
(*                                                                         *)
(* A response is a sequence of pieces, so that it may arrive in parts; what *)
(* the reader makes of its bytes is KsReply.  What the user may type:      *)
(*   "plain"   any command but SUBSCRIBE                                   *)
(*   "sub"     SUBSCRIBE and a channel                                     *)
(*   "badsub"  a SUBSCRIBE the server rejects, its UNSUBSCRIBE too         *)
(*   "longsub" a SUBSCRIBE of the maximal length: UNSUBSCRIBE is too long  *)
(*   "crsub"   a SUBSCRIBE whose channel ends in CR, with a blank behind it: *)
(*             UNSUBSCRIBE names another channel (EndsInCR in KsRequest)   *)
(*   "quoted"  "SUBSCRIBE" in quotes, which only the server understands    *)
(* Each kind of SUBSCRIBE names a channel of its own.                      *)
(***************************************************************************)
EXTENDS Integers, Sequences, FiniteSets, FiniteSetsExt

CONSTANTS Lines,        \* what the user may type, see above
          Pieces,       \* the pieces of a response
          MaxAddresses, \* bound of the model: addresses of the server's host
          MaxCommands,  \* bound of the model: commands typed
          MaxMessages   \* bound of the model: messages published

ASSUME LinesAssumption == 
  Lines \subseteq {"plain", "sub", "badsub", "longsub", "crsub", "quoted"}
ASSUME BoundAssumption == Pieces \in Nat \ {0} /\ {MaxAddresses, MaxCommands, MaxMessages} \subseteq Nat

VARIABLES
  interrupted, active, sent,  \* subscription_interrupted, subscription_active, unsubscribe_sent
  late,       \* whether unsubscribe_deadline is reached
  handler,    \* whether SIGINT is caught
  pc, caller, \* where the CLI is; who called render_response
  cmd,        \* the command of this turn: its number and what it is
  status,     \* response_status_t of the last call
  got,        \* the response rendered last
  timedOut,   \* response_interrupted
  buf,        \* reader->buffer from begin to end
  inside,     \* whether render_response has read a part of a response
  requests, replies, closed,  \* the connection: either direction; closed by the server
  subscribed, \* the channels of which the server has the CLI in its registry
  closing,    \* close_after_write of the server's client
  messages,   \* messages published so far
  tries, fd, open \* addresses left to try; the socket, 0 for none; the open sockets

statics == <<interrupted, active, sent, late, handler>>
reader  == <<buf, inside>>
server  == <<subscribed, closing, messages, closed>>
loop    == <<statics, caller, cmd, status, got, timedOut, reader, requests, replies, server>>
vars    == <<loop, pc, tries, fd, open>>

\* copy_subscribe_argument finds an unquoted SUBSCRIBE with an argument.
Recognised(what) == what \in {"sub", "badsub", "longsub", "crsub"}

\* The server cannot make out the UNSUBSCRIBE of these, and takes nothing back.
Remains(what) == what \in {"longsub", "crsub"}

Response(kind, to) ==
  [j \in 1 .. Pieces |-> [kind |-> kind, to |-> to, first |-> j = 1, last |-> j = Pieces]]

Nothing == [kind |-> "none", to |-> <<0, "none">>]

Init == /\ interrupted = FALSE /\ active = FALSE /\ sent = FALSE /\ late = FALSE
        /\ handler = FALSE
        /\ pc = "resolve" /\ caller = "main"
        /\ cmd = [no |-> 0, what |-> "plain", stray |-> FALSE]
        /\ status = "OK" /\ got = Nothing /\ timedOut = FALSE
        /\ buf = <<>> /\ inside = FALSE
        /\ requests = <<>> /\ replies = <<>> /\ closed = FALSE
        /\ subscribed = {} /\ closing = FALSE /\ messages = 0
        /\ tries = 0 /\ fd = 0 /\ open = {}

-----------------------------------------------------------------------------
(* connect_to_server: the first address that accepts.                      *)

Tries(next) == pc' = next /\ UNCHANGED loop

Resolve(n)   == pc = "resolve" /\ Tries("socket") /\ tries' = n /\ UNCHANGED <<fd, open>>
ResolveFails == pc = "resolve" /\ Tries("exit") /\ UNCHANGED <<tries, fd, open>>

\* socket gives the lowest free descriptor, or fails.
Socket == /\ pc = "socket" /\ tries > 0
          /\ fd' = Min((1 .. MaxAddresses + 1) \ open) /\ open' = open \cup {fd'}
          /\ Tries("connect") /\ UNCHANGED tries

SocketFails == /\ pc = "socket" /\ tries > 0
               /\ fd' = 0 /\ tries' = tries - 1
               /\ Tries("socket") /\ UNCHANGED open

Connect == pc = "connect" /\ Tries("input") /\ tries' = 0 /\ UNCHANGED <<fd, open>>

ConnectFails == /\ pc = "connect"
                /\ open' = open \ {fd} /\ fd' = 0 /\ tries' = tries - 1
                /\ Tries("socket")

AllTried == /\ pc = "socket" /\ tries = 0
            /\ Tries(IF fd = 0 THEN "exit" ELSE "input") /\ UNCHANGED <<tries, fd, open>>

\* input_init; where it fails the socket is closed again.
InputReady == pc = "input" /\ Tries("prompt") /\ UNCHANGED <<tries, fd, open>>
InputFails == pc = "input" /\ Tries("exit") /\ open' = open \ {fd} /\ UNCHANGED <<tries, fd>>

Connecting == \/ \E n \in 1 .. MaxAddresses : Resolve(n)
              \/ ResolveFails \/ Socket \/ SocketFails \/ Connect \/ ConnectFails
              \/ AllTried \/ InputReady \/ InputFails

IsConnected == pc \notin {"resolve", "socket", "connect"}

-----------------------------------------------------------------------------
(* main: one turn of the loop.                                             *)

\* A step of the CLI that touches neither the connection nor the signal.
Goes(next) == pc' = next /\ UNCHANGED <<statics, requests, replies, server>>

Ends == pc' = "exit" /\ UNCHANGED <<statics, cmd, reader, requests, replies, server, caller, status, got, timedOut>>

\* EXIT, the end of the input, or no memory for the subscription.
Exit == pc = "prompt" /\ Ends

\* A line.  stray remembers that the server may have a subscription of which the
\* CLI does not know: here one that it has not recognised.
Type(what) ==
  /\ pc = "prompt"
  /\ cmd.no < MaxCommands
  /\ cmd' = [no |-> cmd.no + 1, what |-> what, stray |-> cmd.stray \/ what = "quoted"]
  /\ interrupted' = FALSE /\ sent' = FALSE /\ late' = FALSE
  /\ active' = Recognised(what)
  /\ handler' = Recognised(what)
  /\ pc' = "send"
  /\ UNCHANGED <<caller, status, got, timedOut, reader, requests, replies, server>>

SendCommand ==
  /\ pc = "send"
  /\ requests' = Append(requests, [no |-> cmd.no, what |-> cmd.what, un |-> FALSE])
  /\ pc' = "render" /\ caller' = "main"
  /\ UNCHANGED <<statics, cmd, status, got, timedOut, reader, replies, server>>

SendFails == pc = "send" /\ Ends

-----------------------------------------------------------------------------
(* render_response, read_byte, read_exact and fill_reader.                 *)

\* render_response returns to its caller.
Return(result) == pc' = "returned" /\ status' = result /\ UNCHANGED <<caller, cmd, timedOut>>

\* The bytes of this response that are in the buffer are read.
RenderBuffered ==
  /\ pc = "render"
  /\ buf # <<>>
  /\ LET ends == {j \in DOMAIN buf : buf[j].last}
     IN  IF ends = {}
         THEN /\ buf' = <<>> /\ inside' = TRUE
              /\ Goes("render")
              /\ UNCHANGED <<caller, cmd, timedOut, status, got>>
         ELSE LET n == Min(ends)
              IN  /\ buf' = SubSeq(buf, n + 1, Len(buf)) /\ inside' = FALSE
                  /\ got' = [kind |-> buf[n].kind, to |-> buf[n].to]
                  /\ Return("OK")
                  /\ UNCHANGED <<statics, requests, replies, server>>

\* fill_reader returns an error, and so does everything up to render_response.
Abandon(result) ==
  /\ Return(result)
  /\ inside' = FALSE
  /\ UNCHANGED <<statics, buf, got, requests, replies, server>>

\* Printing fails.
RenderFails == pc = "render" /\ buf # <<>> /\ Abandon("IO_ERROR")

Step(next) == Goes(next) /\ UNCHANGED <<caller, cmd, timedOut, status, got, reader>>

FillStart ==
  /\ pc = "render"
  /\ buf = <<>>
  /\ Step(IF active THEN "pending" ELSE "recv")

\* Mutant: a second UNSUBSCRIBE is sent, with a deadline of its own.
MustSendAgain == interrupted

MustSend == interrupted /\ ~sent

\* send_pending_unsubscribe, called by fill_reader or by run_subscription.
SendPending(next) ==
  /\ MustSend
  /\ requests' = Append(requests, [no |-> cmd.no, what |-> cmd.what, un |-> TRUE])
  /\ sent' = TRUE /\ late' = FALSE
  /\ pc' = next
  /\ UNCHANGED <<interrupted, active, handler, cmd, status, got, timedOut, reader, replies, server>>

FillSends      == pc = "pending" /\ SendPending("deadline") /\ UNCHANGED caller
FillSendFails  == pc = "pending" /\ MustSend /\ Abandon("IO_ERROR")
FillNeedsNoSend == pc = "pending" /\ ~MustSend /\ Step("deadline")

\* Mutant: the deadline is never looked at.
DeadlineReachedNever == FALSE

DeadlineReached == sent /\ late

FillTimesOut == pc = "deadline" /\ DeadlineReached /\ Abandon("INTERRUPTED")
FillInTime   == pc = "deadline" /\ ~DeadlineReached /\ Step("poll")

Readable == replies # <<>> \/ closed

\* poll: readable, no data for 100 ms or a signal, or an error.
PollReady   == pc = "poll" /\ Readable /\ Step("recv")
PollTimeout == pc = "poll" /\ Step("render")
PollError   == pc = "poll" /\ Abandon("IO_ERROR")

\* recv returns a part of what has arrived.
Recv(n) ==
  /\ pc = "recv"
  /\ n \in 1 .. Len(replies)
  /\ buf' = SubSeq(replies, 1, n)
  /\ replies' = SubSeq(replies, n + 1, Len(replies))
  /\ pc' = "render"
  /\ UNCHANGED <<statics, caller, cmd, status, got, timedOut, inside, requests, server>>

RecvClosed == pc = "recv" /\ replies = <<>> /\ closed /\ Abandon("DISCONNECTED")
RecvError  == pc = "recv" /\ Abandon("IO_ERROR")

-----------------------------------------------------------------------------
(* The rest of main's turn, and run_subscription.                          *)

\* Mutant: a signal that met an error reply is forgotten.
EntersModeOnOk ==
  /\ Recognised(cmd.what)
  /\ \/ status = "OK" /\ got.kind = "simple"
     \/ status = "INTERRUPTED"

\* Whether main calls run_subscription.
EntersMode ==
  /\ Recognised(cmd.what)
  /\ \/ status = "OK" /\ (got.kind = "simple" \/ interrupted)
     \/ status = "INTERRUPTED"

Replied ==
  /\ pc = "returned" /\ caller = "main"
  /\ Goes(IF EntersMode THEN "loop" ELSE "after")
  /\ timedOut' = (status = "INTERRUPTED")
  /\ status' = IF EntersMode THEN "OK" ELSE status
  /\ UNCHANGED <<caller, cmd, got, reader>>

\* The head of the loop, and wait_for_subscription_data: it waits until there
\* is something in the buffer, which only fill_reader puts there, or a signal.
Await ==
  /\ pc = "loop"
  /\ ~interrupted /\ ~timedOut
  /\ buf # <<>>
  /\ Goes("render")
  /\ caller' = "loop"
  /\ UNCHANGED <<cmd, timedOut, status, got, reader>>

\* The loop ends, by the signal or by an error of its poll or its response.
LoopEnds == pc = "loop" /\ (interrupted \/ timedOut) /\ Step("leave")

AwaitError ==
  /\ pc = "loop"
  /\ ~interrupted /\ ~timedOut /\ buf = <<>>
  /\ Goes("after")
  /\ status' = "IO_ERROR"
  /\ UNCHANGED <<caller, cmd, timedOut, got, reader>>

LoopRendered ==
  /\ pc = "returned" /\ caller = "loop"
  /\ Step(IF status = "OK" THEN "loop" ELSE "after")

LeaveSends == pc = "leave" /\ SendPending("render") /\ caller' = "leave"

LeaveSendFails ==
  /\ pc = "leave" /\ MustSend
  /\ Goes("after")
  /\ status' = "IO_ERROR"
  /\ UNCHANGED <<caller, cmd, timedOut, got, reader>>

LeaveNeedsNoSend ==
  /\ pc = "leave" /\ ~MustSend
  /\ Goes("render")
  /\ caller' = "leave"
  /\ UNCHANGED <<cmd, timedOut, status, got, reader>>

\* Mutant: any response ends the subscription.
IsUnsubscribeReplyAny(kind) == TRUE

IsUnsubscribeReply(kind) == kind \in {"integer", "error"}

LeaveRendered ==
  /\ pc = "returned" /\ caller = "leave"
  /\ Step(IF status = "OK" /\ ~IsUnsubscribeReply(got.kind) THEN "render" ELSE "after")

\* The handler is taken off, the flags are reset, kind is out of scope; an error
\* ends the CLI.  An UNSUBSCRIBE that has taken nothing back leaves a subscription.
After ==
  /\ pc = "after"
  /\ pc' = IF status = "OK" THEN "prompt" ELSE "exit"
  /\ interrupted' = FALSE /\ active' = FALSE /\ sent' = FALSE /\ handler' = FALSE
  /\ late' = FALSE /\ timedOut' = FALSE
  /\ cmd' = [cmd EXCEPT !.stray = @ \/ (sent /\ Remains(cmd.what))]
  /\ caller' = "main" /\ got' = Nothing
  /\ UNCHANGED <<status, reader, requests, replies, server>>

\* What the CLI does by itself, what the user makes it do, and what may fail.
Work == \/ SendCommand \/ RenderBuffered \/ FillStart \/ FillSends \/ FillNeedsNoSend
        \/ FillTimesOut \/ FillInTime \/ PollReady \/ PollTimeout
        \/ (\E n \in 1 .. Len(replies) : Recv(n)) \/ RecvClosed
        \/ Replied \/ Await \/ LoopEnds \/ LoopRendered
        \/ LeaveSends \/ LeaveNeedsNoSend \/ LeaveRendered \/ After

User == Exit \/ \E what \in Lines : Type(what)

Failures == \/ SendFails \/ RenderFails \/ FillSendFails \/ PollError \/ RecvError
            \/ AwaitError \/ LeaveSendFails

-----------------------------------------------------------------------------
(* The world around the CLI.                                               *)

\* Ctrl+C.  signal() may or may not take a handler off once it has run; without
\* a handler the process ends.
CtrlC ==
  /\ pc \notin {"exit", "killed"}
  /\ IF handler
     THEN interrupted' = TRUE /\ handler' \in BOOLEAN /\ UNCHANGED pc
     ELSE pc' = "killed" /\ UNCHANGED <<interrupted, handler>>
  /\ UNCHANGED <<active, sent, late, caller, cmd, status, got, timedOut, reader,
                 requests, replies, server>>

\* A second has passed since the UNSUBSCRIBE.
DeadlinePasses ==
  /\ sent /\ ~late
  /\ late' = TRUE
  /\ UNCHANGED <<interrupted, active, sent, handler, pc, caller, cmd, status, got, timedOut,
                 reader, requests, replies, server>>

\* What the server answers, and where the CLI is subscribed then.  A plain command
\* may be an UNSUBSCRIBE, with an integer too.
Answers(r) ==
  LET taken == {subscribed} \cup {subscribed \ {what} : what \in subscribed}
  IN  IF r.what = "plain" THEN ({"simple", "bulk", "error"} \X {subscribed}) \cup ({"integer"} \X taken)
      ELSE IF r.what = "badsub" THEN {<<"error", subscribed>>}
      ELSE IF ~r.un THEN {<<"simple", subscribed \cup {r.what}>>, <<"error", subscribed>>}
      ELSE IF r.what = "longsub" THEN {<<"error", subscribed>>}
      ELSE {<<"integer", IF Remains(r.what) THEN subscribed ELSE subscribed \ {r.what}>>}

\* The server answers a request; after one that is too long it reads no other.
ServerAnswers ==
  /\ requests # <<>> /\ ~closed /\ ~closing
  /\ LET r == Head(requests)
     IN  /\ \E a \in Answers(r) :
              /\ replies' = replies \o Response(a[1], <<r.no, IF r.un THEN "un" ELSE "cmd">>)
              /\ subscribed' = a[2]
         /\ closing' = (r.un /\ r.what = "longsub")
  /\ requests' = Tail(requests)
  /\ UNCHANGED <<statics, pc, caller, cmd, status, got, timedOut, reader, messages, closed>>

\* Another client publishes.  A client that is to be closed gets messages like any
\* other until its output is flushed, at the latest when the CLI has received it.
ServerPublishes ==
  /\ subscribed # {} /\ ~closed
  /\ closing => replies # <<>>
  /\ messages < MaxMessages
  /\ messages' = messages + 1
  /\ replies' = replies \o Response("array", <<messages + 1, "message">>)
  /\ UNCHANGED <<statics, pc, caller, cmd, status, got, timedOut, reader, requests,
                 subscribed, closing, closed>>

\* The server closes the connection, because it is to be closed or for any other
\* reason; what it has not sent is lost.
ServerCloses ==
  /\ IsConnected /\ ~closed
  /\ closed' = TRUE /\ closing' = FALSE /\ subscribed' = {}
  /\ \E n \in 0 .. Len(replies) : replies' = SubSeq(replies, 1, n)
  /\ UNCHANGED <<statics, pc, caller, cmd, status, got, timedOut, reader, requests, messages>>

World == CtrlC \/ ServerAnswers \/ ServerPublishes \/ ServerCloses

\* main's last lines close the socket.
Keeps == open' = (IF pc' = "exit" THEN open \ {fd} ELSE open) /\ UNCHANGED <<tries, fd>>

Next == Connecting \/ ((Work \/ User \/ Failures \/ DeadlinePasses \/ World) /\ Keeps)

\* The CLI is scheduled and time passes; poll has a timeout and the socket takes
\* a line at once.  The server and the user need not do anything.
Spec == Init /\ [][Next]_vars /\ WF_vars(Work /\ Keeps) /\ WF_vars(DeadlinePasses /\ Keeps)

-----------------------------------------------------------------------------
(* Properties.                                                             *)

\* The server has no subscription of which the CLI does not know: none in quotes
\* was typed, and no earlier one has outlived its UNSUBSCRIBE.
InStep == ~cmd.stray

\* What is shown as the reply to a command is the reply to that command, and
\* the mode is left with the reply to its own UNSUBSCRIBE, however many
\* messages arrive before it.
ReplyIsOwn ==
  InStep /\ pc = "returned" /\ status = "OK" =>
    /\ caller = "main" => got.to = <<cmd.no, "cmd">>
    /\ caller = "leave" /\ got.kind \in {"integer", "error"} => got.to = <<cmd.no, "un">>

\* render_response never starts in the middle of a response: when the first one
\* is cut short by the deadline, run_subscription's next call has nothing to read.
Aligned == pc = "render" /\ buf # <<>> => inside = ~buf[1].first

\* At the prompt nothing is on its way to the CLI or to the server and the
\* server has no subscription left: the next command starts afresh.  The one
\* open socket is the one in use, and none is left when the CLI ends, whatever
\* became of the addresses tried and of the commands.
PromptIsQuiet ==
  /\ InStep /\ pc = "prompt" =>
       buf = <<>> /\ requests = <<>> /\ replies = <<>> /\ subscribed = {}
  /\ pc = "prompt" => open = {fd}
  /\ pc = "exit" => open = {}

\* Ctrl+C leaves the subscription mode, whatever the server does or does not do.
CtrlCLeaves == interrupted ~> pc \in {"prompt", "exit", "killed"}

\* What has arrived in subscription mode, a message or the end of the stream, is
\* read and shown without a Ctrl+C.
MessagesAppear == pc = "loop" /\ Readable ~> pc # "loop" \/ interrupted

=============================================================================
