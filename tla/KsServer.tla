------------------------------ MODULE KsServer ------------------------------
(***************************************************************************)
(* src/ks_server.c: the single-threaded event loop, its client slots with  *)
(* their bounded buffers, and what every command does to buffers and       *)
(* subscriptions.  Each system call is a step whose outcome the kernel and *)
(* the peers choose: what recv returns, how much send takes, what select   *)
(* reports, what accept answers, when the stop signal arrives.             *)
(*                                                                         *)
(* The store's commands (KsKv) matter here by the length of their replies  *)
(* only, and the registry (KsPubsub) is the set of pairs it implements.    *)
(*                                                                         *)
(* A byte of input is "b" (text), "r" (CR), "z" (NUL) or "n" (LF).  A byte *)
(* of output is <<kind, j, n>>: byte j of a reply ("r") or a Pub/Sub       *)
(* message ("m") of n bytes.                                               *)
(***************************************************************************)
EXTENDS Integers, Sequences, FiniteSets, FiniteSetsExt

CONSTANTS MaxClients,      \* cfg->max_clients
          MaxRequest,      \* KS_MAX_REQUEST
          Slack,           \* the 64 bytes a response may be longer
          AcceptBudget,    \* KS_ACCEPT_BUDGET
          BackoffTicks,    \* the turns without accepting after a failed accept
          Fds, FdSetSize,  \* the descriptors accept may return; FD_SETSIZE
          Channels,        \* channel names
          Chunks,          \* what one recv may return
          ReplyLens, MsgLens,  \* lengths of replies and of Pub/Sub messages
          MaxConnections   \* bound of the model: connections accepted in a run

ASSUME SizeAssumption ==
  /\ MaxClients \in Nat \ {0} /\ MaxRequest \in Nat /\ Slack \in Nat \ {0}
  /\ AcceptBudget \in Nat \ {0} /\ BackoffTicks \in Nat \ {0}
  /\ FdSetSize \in Nat /\ MaxConnections \in Nat
ASSUME FdAssumption    == Fds \subseteq Nat \ {0}
ASSUME ChunkAssumption == \A c \in Chunks : c \in Seq({"b", "r", "z", "n"}) /\ c # <<>>
ASSUME ReplyAssumption == ReplyLens \subseteq 1 .. MaxRequest + Slack
ASSUME MsgAssumption   == MsgLens \subseteq Nat \ {0}

VARIABLES
  clients,    \* the client registry: a record for every slot
  subs,       \* the Pub/Sub registry: pairs <<channel, client id>>
  nextId,     \* next_client_id
  connected,  \* metrics.connected_clients
  peer,       \* what the other end of each slot has seen (not in the code)
  stop,       \* ks_stop_requested
  backoff,    \* accept_backoff_ticks
  rset, wset, \* read_fds and write_fds without the listener
  lset,       \* whether the listener is in read_fds
  mark,       \* next_client_id when the fd sets were built (not in the code)
  accepted,   \* accept_clients: turns taken
  pc,         \* where the loop is
  cur,        \* the slot the client loop is at
  from,       \* who called process_requests: "read" or "visit"
  why         \* should_close: "no", or the reason to close

registry == <<clients, subs, nextId, connected, peer>>
turn     == <<backoff, rset, wset, lset, mark, accepted>>
vars     == <<registry, turn, stop, pc, cur, from, why>>

Slots == 0 .. MaxClients - 1

InputCap  == MaxRequest + 2
OutputCap == 2 * (MaxRequest + Slack)
HighWater == OutputCap \div 2

-----------------------------------------------------------------------------
(* Clients and their buffers.                                              *)

\* A zeroed ks_client_t.
NoClient == [used |-> FALSE, fd |-> 0, id |-> 0, closing |-> FALSE, drop |-> FALSE,
             input |-> <<>>, output |-> <<>>, offset |-> 0]

NewClient(fd, id) == [NoClient EXCEPT !.used = TRUE, !.fd = fd, !.id = id]

\* owed: requests received and not yet answered on the wire; at: how many bytes
\* of the current reply or message the peer has got.
NewPeer == [owed |-> 0, at |-> 0]

\* client.output holds the bytes still to be sent; offset the room before them.
Pending(c) == Len(c.output)

Unit(kind, n) == [j \in 1 .. n |-> <<kind, j, n>>]

\* Mutant: the buffer is not compacted.
QueueUncompacted(c, bytes) == [c EXCEPT !.output = @ \o bytes]

\* client_queue compacts the buffer before it looks at the room.
Fits(c, n)      == n <= OutputCap - Pending(c)
Compacted(c)    == [c EXCEPT !.offset = 0]
Queue(c, bytes) == [c EXCEPT !.offset = 0, !.output = @ \o bytes]

\* Mutant: as much of the message as fits is queued.
OverflowTruncates(c, n) ==
  [Queue(c, SubSeq(Unit("m", n), 1, OutputCap - Pending(c))) EXCEPT !.drop = TRUE]

\* A subscriber whose queue has no room is marked to be dropped.
Overflow(c, n) == [Compacted(c) EXCEPT !.drop = TRUE]

\* ks_pubsub_publish with deliver_pubsub_message: a message of n bytes for the
\* clients ids; one that is marked already is left alone.
Deliver(ids, n) ==
  [s \in Slots |->
     LET c == clients[s]
     IN  IF ~c.used \/ c.id \notin ids \/ c.drop THEN c
         ELSE IF Fits(c, n) THEN Queue(c, Unit("m", n)) ELSE Overflow(c, n)]

-----------------------------------------------------------------------------

Init == /\ clients = [s \in Slots |-> NoClient]
        /\ peer = [s \in Slots |-> NewPeer]
        /\ subs = {} /\ nextId = 1 /\ connected = 0
        /\ backoff = 0 /\ rset = {} /\ wset = {} /\ lset = FALSE /\ mark = 0 /\ accepted = 0
        /\ stop = FALSE
        /\ pc = "top" /\ cur = 0 /\ from = "read" /\ why = "no"

\* SIGINT or SIGTERM arrives; where the flag is not read until later, the signal
\* might as well arrive later.
StopSignal == /\ ~stop
              /\ pc \in {"top", "accept"}
              /\ stop' = TRUE
              /\ UNCHANGED <<registry, turn, pc, cur, from, why>>

-----------------------------------------------------------------------------
(* The head of the loop: build the fd sets (reaping is KsKv's) and select. *)

PollRead(c)  == c.used /\ ~c.drop /\ ~c.closing /\ Pending(c) < HighWater
PollWrite(c) == c.used /\ ~c.drop /\ Pending(c) > 0

\* Mutant: FD_ZERO is missing, bits of the last turn stay.
ReadFdsStale == rset \cup {clients[s].fd : s \in {t \in Slots : PollRead(clients[t])}}

ReadFds  == {clients[s].fd : s \in {t \in Slots : PollRead(clients[t])}}
WriteFds == {clients[s].fd : s \in {t \in Slots : PollWrite(clients[t])}}

Poll ==
  /\ pc = "top"
  /\ ~stop
  /\ lset' = (backoff = 0)
  /\ backoff' = IF backoff = 0 THEN 0 ELSE backoff - 1
  /\ rset' = ReadFds
  /\ wset' = WriteFds
  /\ mark' = nextId
  /\ pc' = "select"
  /\ UNCHANGED <<registry, stop, cur, from, why, accepted>>

\* select returns: some of the descriptors are ready, or the timeout is over.
SelectReturns ==
  /\ pc = "select"
  /\ rset' \in SUBSET rset
  /\ wset' \in SUBSET wset
  /\ lset' \in {FALSE, lset}
  /\ pc' = IF backoff = 0 /\ lset' THEN "accept" ELSE "visit"
  /\ UNCHANGED <<registry, stop, cur, from, why, backoff, mark, accepted>>

\* The turn of the loop is over; its locals go out of scope.
EndTurn(next) ==
  /\ pc' = next
  /\ cur' = 0 /\ accepted' = 0 /\ mark' = 0 /\ lset' = FALSE
  /\ UNCHANGED <<registry, stop, from, why, backoff, rset, wset>>

\* A signal interrupts select and the loop goes on, or select fails and it ends.
SelectInterrupted == pc = "select" /\ EndTurn("top")
SelectFails       == pc = "select" /\ EndTurn("shutdown")

-----------------------------------------------------------------------------
(* accept_clients.                                                         *)

FreeSlots == {s \in Slots : ~clients[s].used}
OpenFds   == {clients[s].fd : s \in Slots \ FreeSlots}

InAccept == pc = "accept" /\ accepted < AcceptBudget /\ ~stop

HasPlace(fd) == FreeSlots # {} /\ fd < FdSetSize

\* Nobody is waiting, the budget is used up, or the server is to stop.
AcceptEnds ==
  /\ pc = "accept"
  /\ pc' = "visit"
  /\ UNCHANGED <<registry, turn, stop, cur, from, why>>

AcceptError ==
  /\ InAccept
  /\ backoff' = BackoffTicks
  /\ pc' = "visit"
  /\ UNCHANGED <<registry, stop, cur, from, why, rset, wset, lset, mark, accepted>>

AcceptTurn == /\ InAccept
              /\ accepted' = accepted + 1
              /\ UNCHANGED <<subs, stop, pc, cur, from, why, backoff, rset, wset, lset, mark>>

AcceptClient(fd) ==
  /\ AcceptTurn
  /\ HasPlace(fd)
  /\ nextId <= MaxConnections
  /\ LET s == Min(FreeSlots)
     IN  /\ clients' = [clients EXCEPT ![s] = NewClient(fd, nextId)]
         /\ peer' = [peer EXCEPT ![s] = NewPeer]
  /\ nextId' = nextId + 1
  /\ connected' = connected + 1

\* No slot or a descriptor select cannot take: closed at once.
AcceptRejects(fd) ==
  /\ AcceptTurn
  /\ ~HasPlace(fd)
  /\ UNCHANGED <<clients, nextId, connected, peer>>

\* client_init cannot allocate the buffers: the id is spent.
AcceptNoMemory(fd) ==
  /\ AcceptTurn
  /\ HasPlace(fd)
  /\ nextId <= MaxConnections
  /\ nextId' = nextId + 1
  /\ UNCHANGED <<clients, connected, peer>>

-----------------------------------------------------------------------------
(* The client loop: one visit of every used slot.                          *)

me == clients[cur]

\* A step within the visit of slot cur.
Visiting(next) == pc' = next /\ UNCHANGED <<nextId, connected, stop, cur, turn>>

\* The same, when only the reason to close changes.
Decide(next, reason) ==
  Visiting(next) /\ why' = reason /\ UNCHANGED <<clients, subs, peer, from>>

VisitEnds == pc = "visit" /\ cur = MaxClients /\ EndTurn("top")

VisitUnused ==
  /\ pc = "visit"
  /\ cur \in Slots
  /\ ~me.used
  /\ cur' = cur + 1
  /\ UNCHANGED <<registry, turn, stop, pc, from, why>>

\* Mutant: should_close starts as false.
FirstReasonNone == "no"

\* should_close starts as drop_connection, and is not looked up again.
FirstReason == IF me.drop THEN "drop" ELSE "no"

VisitClient ==
  /\ pc = "visit"
  /\ cur \in Slots
  /\ me.used
  /\ Decide(IF me.fd \in rset THEN "read" ELSE "write", FirstReason)

-----------------------------------------------------------------------------
(* read_client.  A result of -1 is a reason to close.                      *)

\* Queue a reply of some length to the client at cur, in the registry cs, and
\* replace its input; -1 when the reply does not fit.
Respond(cs, input, closing, next) ==
  \E n \in ReplyLens :
    /\ IF Fits(cs[cur], n)
       THEN /\ clients' = [cs EXCEPT ![cur] = [Queue(@, Unit("r", n)) EXCEPT
                                                 !.input = input, !.closing = closing]]
            /\ Visiting(next)
            /\ UNCHANGED why
       ELSE /\ clients' = [cs EXCEPT ![cur] = Compacted(@)]
            /\ Visiting("write")
            /\ why' = "overflow"
    /\ UNCHANGED <<from, peer>>

\* The queue is above the high-water mark: leave the rest in the kernel.
ReadPauses == pc = "read" /\ Pending(me) >= HighWater /\ Decide("write", why)

\* The input buffer has no room left for recv, or recv is called.
ReadFull == pc = "read" /\ Pending(me) < HighWater /\ Len(me.input) = InputCap
Recv     == pc = "read" /\ Pending(me) < HighWater /\ Len(me.input) < InputCap

\* What read_client leaves in the buffer when it answers with an error and closes.
InputAfterError == <<>>

ReadTooLarge == ReadFull /\ Respond(clients, InputAfterError, TRUE, "write") /\ UNCHANGED subs

LineEnds(input) == {n \in DOMAIN input : input[n] = "n"}

\* recv returns some bytes, no more than there is room for.
ReadBytes(chunk) ==
  /\ Recv
  /\ Len(chunk) <= InputCap - Len(me.input)
  /\ clients' = [clients EXCEPT ![cur].input = @ \o chunk]
  /\ peer' = [peer EXCEPT ![cur].owed = @ + Cardinality(LineEnds(chunk))]
  /\ from' = "read"
  /\ Visiting("process")
  /\ UNCHANGED <<subs, why>>

ReadWouldBlock == Recv /\ Decide("write", why)
ReadError      == Recv /\ Decide("write", "io")

\* The peer has closed its side; a rest of a line is answered by an error.
ReadClosed ==
  /\ Recv
  /\ \/ /\ me.input = <<>>
        /\ clients' = [clients EXCEPT ![cur].closing = TRUE]
        /\ Visiting("write")
        /\ UNCHANGED <<why, from, peer>>
     \/ me.input # <<>> /\ Respond(clients, InputAfterError, TRUE, "write")
  /\ UNCHANGED subs

-----------------------------------------------------------------------------
(* process_requests.  The code removes the processed lines from the buffer *)
(* when its loop ends; nothing looks at the buffer before that.            *)

HasLine(c) == LineEnds(c.input) # {}

LineEnd == Min(LineEnds(me.input))

\* Mutant: the byte behind the line is lost.
RestOffByOne == SubSeq(me.input, LineEnd + 2, Len(me.input))

Rest == SubSeq(me.input, LineEnd + 1, Len(me.input))

\* The length of the line without its LF and a CR before it.
ContentLen == IF LineEnd > 1 /\ me.input[LineEnd - 1] = "r" THEN LineEnd - 2 ELSE LineEnd - 1

HasNul == \E n \in 1 .. LineEnd : me.input[n] = "z"

\* Mutant: the loop stops one byte earlier than read_client does.
MayProcessEarly == HasLine(me) /\ Pending(me) + 1 < HighWater

\* Whether the loop takes one more line.
MayProcess == HasLine(me) /\ Pending(me) < HighWater

\* Mutant: the visit processes again and again while there is input.
AfterProcessAgain ==
  IF from = "visit" THEN "again" ELSE IF me.closing THEN "write" ELSE "read"

\* Where process_requests returns to: read_client's loop, or the visit.
AfterProcess ==
  IF from = "visit" THEN "check" ELSE IF me.closing THEN "write" ELSE "read"

ProcessEnds ==
  /\ pc = "process"
  /\ ~MayProcess
  /\ Visiting(AfterProcess)
  /\ from' = "read"
  /\ UNCHANGED <<clients, subs, peer, why>>

ProcessTooLarge ==
  /\ pc = "process" /\ MayProcess
  /\ ContentLen > MaxRequest
  /\ Respond(clients, <<>>, TRUE, "process")
  /\ UNCHANGED subs

InCommand == pc = "process" /\ MayProcess /\ ContentLen <= MaxRequest

\* A line with a NUL byte, and every command that answers and touches neither
\* clients nor subscriptions: PING, ECHO, HELP, INFO, the commands of the store,
\* and all error answers.
Command == InCommand /\ Respond(clients, Rest, me.closing, "process") /\ UNCHANGED subs

CommandSubscribe(ch) ==
  /\ InCommand /\ ~HasNul
  /\ Respond(clients, Rest, me.closing, "process")
  /\ subs' = subs \cup {<<ch, me.id>>}

CommandUnsubscribe(ch) ==
  /\ InCommand /\ ~HasNul
  /\ Respond(clients, Rest, me.closing, "process")
  /\ subs' = subs \ {<<ch, me.id>>}

\* The message goes to every subscriber, perhaps the publisher itself, before
\* the reply with the number of recipients is queued.
CommandPublish(ch, m) ==
  /\ InCommand /\ ~HasNul
  /\ Respond(Deliver({id \in 1 .. nextId - 1 : <<ch, id>> \in subs}, m),
             Rest, me.closing, "process")
  /\ UNCHANGED subs

-----------------------------------------------------------------------------
(* write_client, and the end of the visit.                                 *)

\* What the peer has seen after the first n bytes of out.
RepliesEnded(out, n) ==
  Cardinality({j \in 1 .. n : out[j][1] = "r" /\ out[j][2] = out[j][3]})

PeerAfter(p, out, n) ==
  IF n = 0 THEN p
  ELSE [owed |-> p.owed - RepliesEnded(out, n),
        at   |-> IF out[n][2] = out[n][3] THEN 0 ELSE out[n][2]]

\* Mutant: the bytes sent are not taken off the queue.
SentKeepsBytes(c, n) == [c EXCEPT !.offset = @ + n]

\* send took n bytes in all; an empty buffer starts at its beginning again.
Sent(c, n) == [c EXCEPT !.output = SubSeq(@, n + 1, Len(@)),
                        !.offset = IF n = Pending(c) THEN 0 ELSE @ + n]

InWrite == pc = "write" /\ why = "no" /\ me.fd \in wset

WriteSkipped == pc = "write" /\ ~InWrite /\ Decide("again", why)

\* The loop around send takes n bytes off the queue, until EAGAIN, an error or
\* the end of the queue.
Write(n, reason) ==
  /\ clients' = [clients EXCEPT ![cur] = Sent(me, n)]
  /\ peer' = [peer EXCEPT ![cur] = PeerAfter(@, me.output, n)]
  /\ why' = reason
  /\ Visiting("again")
  /\ UNCHANGED <<subs, from>>

WriteSome(n)  == InWrite /\ n < Pending(me) /\ Write(n, "no")
WriteError(n) == InWrite /\ n < Pending(me) /\ Write(n, "io")
WriteAll      == InWrite /\ Write(Pending(me), IF me.closing THEN "flushed" ELSE "no")

\* Mutant: the visit does not go back to the lines left in the buffer.
AgainNever == FALSE

\* After the write there may be room again for lines left in the buffer.
Again == why = "no" /\ me.input # <<>> /\ Pending(me) < HighWater

ProcessAgain ==
  /\ pc = "again"
  /\ Visiting(IF Again THEN "process" ELSE "check")
  /\ from' = IF Again THEN "visit" ELSE "read"
  /\ UNCHANGED <<clients, subs, peer, why>>

ShouldClose == why # "no" \/ (me.closing /\ Pending(me) = 0)

VisitKeeps ==
  /\ pc = "check"
  /\ ~ShouldClose
  /\ pc' = "visit"
  /\ cur' = cur + 1
  /\ UNCHANGED <<registry, turn, stop, from, why>>

\* Mutant: the client is freed and its subscriptions stay.
SubsWithNobodyRemoved(id) == subs

\* ks_pubsub_remove_client.
SubsWithout(id) == {p \in subs : p[2] # id}

VisitCloses ==
  /\ pc = "check"
  /\ ShouldClose
  /\ connected' = IF connected > 0 THEN connected - 1 ELSE 0
  /\ subs' = SubsWithout(me.id)
  /\ clients' = [clients EXCEPT ![cur] = NoClient]
  /\ peer' = [peer EXCEPT ![cur] = NewPeer]
  /\ pc' = "visit" /\ cur' = cur + 1 /\ why' = "no"
  /\ UNCHANGED <<nextId, turn, stop, from>>

-----------------------------------------------------------------------------
(* The end of ks_server_run.                                               *)

\* Mutant: the loop waits for the clients to leave.
MayEndWhenIdle == stop /\ connected = 0

MayEnd == stop

LoopEnds == pc = "top" /\ MayEnd /\ EndTurn("shutdown")

Shutdown ==
  /\ pc = "shutdown"
  /\ subs' = {p \in subs : \A s \in Slots : clients[s].used => p[2] # clients[s].id}
  /\ clients' = [s \in Slots |-> NoClient]
  /\ pc' = "stopped"
  /\ UNCHANGED <<nextId, connected, peer, turn, stop, cur, from, why>>

-----------------------------------------------------------------------------

Accepting == \E fd \in Fds \ OpenFds :
               AcceptClient(fd) \/ AcceptRejects(fd) \/ AcceptNoMemory(fd)

Reading == \/ ReadPauses \/ ReadTooLarge \/ ReadWouldBlock \/ ReadClosed \/ ReadError
           \/ \E chunk \in Chunks : ReadBytes(chunk)

Processing == \/ ProcessEnds \/ ProcessTooLarge \/ Command
              \/ \E ch \in Channels : \/ CommandSubscribe(ch) \/ CommandUnsubscribe(ch)
                                      \/ \E m \in MsgLens : CommandPublish(ch, m)

Writing == \/ WriteSkipped \/ WriteAll
           \/ \E n \in 0 .. OutputCap : WriteSome(n) \/ WriteError(n)

Server == \/ Poll \/ SelectReturns \/ SelectInterrupted \/ SelectFails
          \/ AcceptEnds \/ AcceptError \/ Accepting
          \/ VisitEnds \/ VisitUnused \/ VisitClient
          \/ Reading \/ Processing \/ Writing
          \/ ProcessAgain \/ VisitKeeps \/ VisitCloses
          \/ LoopEnds \/ Shutdown

Next == Server \/ StopSignal

\* The server is one thread that never blocks: select has a timeout of 100 ms,
\* and a signal interrupts it only now and then.
Spec == Init /\ [][Next]_vars /\ WF_vars(Server) /\ SF_vars(SelectReturns)

-----------------------------------------------------------------------------
(* Properties.                                                             *)

Bytes == {"b", "r", "z", "n"}

\* Every field has its type, no descriptor of a client is beyond FD_SETSIZE, and
\* no buffer is ever written past its end: the input of KS_INPUT_CAP bytes, and
\* the output, whose used part starts behind the bytes already sent.
TypeOK ==
  /\ \A s \in Slots :
       LET c == clients[s]
       IN  /\ c.used \in BOOLEAN /\ c.closing \in BOOLEAN /\ c.drop \in BOOLEAN
           /\ c.used => c.fd \in Fds /\ c.fd < FdSetSize /\ c.id \in 1 .. nextId - 1
           /\ c.input \in Seq(Bytes) /\ Len(c.input) <= InputCap
           /\ c.offset \in Nat /\ c.offset + Pending(c) <= OutputCap
           /\ ~c.used => c = NoClient
  /\ nextId \in 1 .. MaxConnections + 1
  /\ backoff \in 0 .. BackoffTicks
  /\ cur \in 0 .. MaxClients
  /\ pc \in {"top", "select", "accept", "visit", "read", "process", "write", "again",
             "check", "shutdown", "stopped"}
  /\ pc \in {"read", "process", "write", "again", "check"} => cur \in Slots /\ me.used

\* No request is forgotten: when the loop goes back to select, a client with a
\* complete line left in its buffer is above the high-water mark, so that it is
\* polled for writing and its lines are looked at again after the write.
NoStrandedRequest ==
  pc \in {"top", "select"} =>
    \A s \in Slots : HasLine(clients[s]) => Pending(clients[s]) >= HighWater

\* read_client answers "request too large" for a full buffer, and "incomplete
\* command" at the end of the stream, only when no complete line is waiting:
\* a valid request is never thrown away with them.
ReadSeesNoLine == ReadFull \/ Recv => ~HasLine(me)

\* Every request is answered once: what a peer is still owed is in the input
\* buffer or in the output queue (a connection that is about to close may
\* throw the rest of its input away).  The queue is large enough: a client that
\* subscribes to nothing is never dropped for its own replies, however it
\* pipelines.
EveryRequestAnswered ==
  /\ why = "overflow" => \E p \in subs : p[2] = me.id
  /\ \A s \in Slots :
       clients[s].used /\ ~clients[s].closing /\ ~(s = cur /\ why = "overflow")
         => peer[s].owed = Cardinality(LineEnds(clients[s].input))
                           + RepliesEnded(clients[s].output, Pending(clients[s]))

\* The stream a peer sees consists of whole replies and messages, in spite of
\* partial sends, compaction and messages from others arriving at any time.
StreamWellFormed ==
  \A s \in Slots :
    LET out == clients[s].output
    IN  clients[s].used /\ out # <<>> =>
          /\ out[1][2] = peer[s].at + 1
          /\ out[Len(out)][2] = out[Len(out)][3]
          /\ \A j \in 1 .. Len(out) - 1 :
               out[j + 1][2] = IF out[j][2] = out[j][3] THEN 1 ELSE out[j][2] + 1

\* Slots, descriptors and ids: connected_clients is the number of used slots, no
\* two connections share a descriptor or an id, and only connected clients are
\* in the Pub/Sub registry, also after the server has stopped.
ConnectionsConsistent ==
  /\ pc # "stopped" => connected = Cardinality({s \in Slots : clients[s].used})
  /\ \A s, t \in Slots :
       clients[s].used /\ clients[t].used /\ s # t
         => clients[s].fd # clients[t].fd /\ clients[s].id # clients[t].id
  /\ \A p \in subs : \E s \in Slots : clients[s].used /\ clients[s].id = p[2]

\* A ready bit is only ever used for the connection it was polled for: a client
\* accepted in this turn is not read or written with the bits of an earlier one.
ReadyBitsAreOwn ==
  pc \in {"accept", "visit", "read", "process", "write", "again", "check"} =>
    \A s \in Slots :
      clients[s].used /\ clients[s].fd \in rset \cup wset => clients[s].id < mark

\* The loop never gets stuck with one client: whatever the peers send, every
\* turn comes to an end.
LoopTurns == []<>(pc \in {"top", "stopped"})

\* A client marked for its full queue is soon gone (only client_reset takes the
\* mark away).
DroppedIsClosed == \A s \in Slots : clients[s].drop ~> ~clients[s].drop

\* A stop signal ends the server, whatever the clients do.
StopsOnSignal == stop ~> pc = "stopped"

=============================================================================
