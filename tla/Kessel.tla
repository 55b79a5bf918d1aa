------------------------------- MODULE Kessel -------------------------------
(***************************************************************************)
(* src/ks_server.c, handle_command: the commands, composed from what the   *)
(* store (KsKvAbs) and the registry (KsPubsubAbs) promise, as the clients  *)
(* see them.  A client's stream is all that was queued for it since it     *)
(* connected; how queues become bytes and turns of the loop is KsServer.   *)
(***************************************************************************)
EXTENDS Integers, Sequences, FiniteSets, SequencesExt, FiniteSetsExt

CONSTANTS Keys, Data, NULL, MsPerSec, UintMax, \* of the store
          Channels, Clients,                   \* of the registry
          Number,      \* the integers that texts given as seconds stand for
          Texts,       \* texts given as seconds
          IntMax,      \* INT64_MAX
          Messages,    \* the messages, each its length in the queue; a reply is 1
          OutputCap,   \* KS_OUTPUT_CAP
          MaxTime, MaxCommands \* bounds of the model

ASSUME SizesAssumption == {OutputCap, MaxTime, MaxCommands, IntMax} \subseteq Nat /\ Messages \subseteq Nat
ASSUME ClockAssumption == MsPerSec \in Nat \ {0} /\ UintMax \in Nat /\ IntMax <= UintMax
ASSUME NameAssumption == NULL \notin Channels
ASSUME NumberAssumption == \A t \in DOMAIN Number : Number[t] \in Int

VARIABLES now, view, kv,        \* the store, and what it returned last
          subs, ret, offered,   \* the registry
          connected, dropped,   \* clients; drop_connection
          stream, sent,         \* what was queued for each client, how much was sent
          commands,             \* metrics.total_commands
          asked,                \* what clients have been told of each key (not in the code)
          due                   \* the messages each client has to get (not in the code)

store    == <<now, view, kv>>
registry == <<subs, ret, offered>>
clients  == <<connected, dropped, stream, sent>>
vars     == <<store, registry, clients, commands, asked, due>>

Ttls == {n \in {Number[t] : t \in DOMAIN Number} : n >= 0}

Store    == INSTANCE KsKvAbs WITH reply <- kv
Registry == INSTANCE KsPubsubAbs

Unknown == [data |-> NULL, ends |-> TRUE, until |-> 0]

Init == /\ now = 0 /\ Store!Init
        /\ Registry!Init
        /\ connected = {} /\ dropped = {}
        /\ stream = [c \in Clients |-> <<>>] /\ sent = [c \in Clients |-> 0]
        /\ commands = 0
        /\ asked = [k \in Keys |-> Unknown]
        /\ due = [c \in Clients |-> <<>>]

-----------------------------------------------------------------------------
(* The queues.                                                             *)

Response(kind, value, about) == [kind |-> kind, value |-> value, about |-> about, size |-> 1]

Message(ch, m, no) == [kind |-> "array", value |-> no, about |-> <<"message", ch>>, size |-> m]

Pending(c) == FoldSeq(LAMBDA r, n : r.size + n, 0, SubSeq(stream[c], sent[c] + 1, Len(stream[c])))

HighWater == OutputCap \div 2

\* process_requests takes a request of c: below the high-water mark only.  A
\* client that has been dropped in this turn may still be served.
MayTake(c) == c \in connected /\ Pending(c) < HighWater

Takes(c) == /\ MayTake(c)
            /\ commands < MaxCommands
            /\ commands' = commands + 1

\* The reply to c.  It fits, see KsSizes; PUBLISH's may not.
Replies(c, r) == /\ stream' = [stream EXCEPT ![c] = Append(@, r)]
                 /\ UNCHANGED <<connected, dropped, sent>>

\* The clock may move while the store works, which changes nothing else.
Clock == now' \in now .. MaxTime

-----------------------------------------------------------------------------
(* The commands of the store.                                              *)

\* A command that calls the store, and one that calls the registry only.
InStore(c)    == Takes(c) /\ Clock /\ UNCHANGED <<registry, due>>
InRegistry(c) == Takes(c) /\ UNCHANGED <<store, asked>>

\* parse_seconds: one value, or none.
ParseSeconds(t) == {n \in {Number[x] : x \in {t} \cap DOMAIN Number} : n \in -IntMax - 1 .. IntMax}

\* What a client is told by a success: the key holds d, for ever or for n seconds
\* from now on.
ToldForever(k, d) == asked' = [asked EXCEPT ![k] = [data |-> d, ends |-> FALSE, until |-> 0]]
Told(k, d, n) == asked' = [asked EXCEPT ![k] = [data |-> d, ends |-> TRUE, until |-> now' + n * MsPerSec]]

Set(c, k, d) ==
  /\ InStore(c)
  /\ \/ /\ Store!Set(k, d, 0)
        /\ ToldForever(k, d)
        /\ Replies(c, Response("simple", "OK", <<"SET", k>>))
     \/ /\ Store!SetFails
        /\ Replies(c, Response("error", "unable to store value", <<"SET", k>>))
        /\ UNCHANGED asked

\* Mutant: 0 seconds are let in, which the store takes for no deadline.
IsLifetimeOrZero(n) == n >= 0

\* The lifetimes SETEX accepts.
IsLifetime(n) == n > 0

SetEx(c, k, t, d) ==
  \E n \in ParseSeconds(t) :
    /\ IsLifetime(n)
    /\ InStore(c)
    /\ \/ /\ Store!Set(k, d, n)
          /\ Told(k, d, n)
          /\ Replies(c, Response("simple", "OK", <<"SETEX", k>>))
       \/ /\ Store!SetFails
          /\ Replies(c, Response("error", "unable to store value", <<"SETEX", k>>))
          /\ UNCHANGED asked

\* SETEX and EXPIRE with a text that is no number, SETEX without a lifetime.
BadSeconds(c, k, t) ==
  /\ Takes(c) /\ UNCHANGED <<store, registry, asked, due>>
  /\ \/ /\ ~(\E n \in ParseSeconds(t) : IsLifetime(n))
        /\ Replies(c, Response("error", "invalid expire time", <<"SETEX", k>>))
     \/ /\ ParseSeconds(t) = {}
        /\ Replies(c, Response("error", "invalid expire time", <<"EXPIRE", k>>))

Get(c, k) ==
  /\ InStore(c) /\ Store!Get(k)
  /\ Replies(c, IF kv'.code = "MISSING" THEN Response("nil", NULL, <<"GET", k>>)
                ELSE Response("bulk", kv'.data, <<"GET", k>>))
  /\ UNCHANGED asked

\* What a successful DEL tells.
Gone(k, gone) == asked' = IF gone THEN [asked EXCEPT ![k] = Unknown] ELSE asked

Del(c, k) ==
  /\ InStore(c) /\ Store!Delete(k)
  /\ Replies(c, Response("integer", kv'.count, <<"DEL", k>>))
  /\ Gone(k, kv'.count = 1)

Exists(c, k) ==
  /\ InStore(c) /\ Store!Exists(k)
  /\ Replies(c, Response("integer", kv'.count, <<"EXISTS", k>>))
  /\ UNCHANGED asked

\* EXPIRE deletes the key at once.
DeletesNow(n) == n <= 0

ExpireNow(c, k, t) ==
  \E n \in ParseSeconds(t) :
    /\ DeletesNow(n)
    /\ InStore(c) /\ Store!Delete(k)
    /\ Replies(c, Response("integer", kv'.count, <<"EXPIRE", k>>))
    /\ IF kv'.count = 1 THEN Told(k, asked[k].data, n) ELSE UNCHANGED asked

\* Mutant: a deadline that does not fit is reported as a missing key.
ExpireReplyOfError(k) == Response("integer", IF kv'.code = "UPDATED" THEN 1 ELSE 0, <<"EXPIRE", k>>)

ExpireReply(k) ==
  IF kv'.code = "ERROR" THEN Response("error", "invalid expire time", <<"EXPIRE", k>>)
  ELSE Response("integer", IF kv'.code = "UPDATED" THEN 1 ELSE 0, <<"EXPIRE", k>>)

\* The cast of a number that does not delete to uint64_t.
Expire(c, k, t) ==
  \E n \in ParseSeconds(t) :
    /\ ~DeletesNow(n)
    /\ InStore(c) /\ Store!Expire(k, n % (UintMax + 1))
    /\ Replies(c, ExpireReply(k))
    /\ IF kv'.code = "UPDATED" THEN Told(k, asked[k].data, n) ELSE UNCHANGED asked

Ttl(c, k) ==
  /\ InStore(c) /\ Store!Ttl(k)
  /\ Replies(c, Response("integer", kv'.count, <<"TTL", k>>))
  /\ UNCHANGED asked

\* PING, ECHO and HELP; errors of ks_parse_line and of the number of arguments.
Answers(c, kind) ==
  /\ Takes(c) /\ UNCHANGED <<store, registry, asked, due>>
  /\ Replies(c, Response(kind, NULL, <<"other", NULL>>))

\* INFO: keys, channels and subscriptions.
Info(c) ==
  /\ Takes(c) /\ Clock /\ Store!Size /\ Registry!Counts
  /\ Replies(c, Response("bulk", <<kv'.count, ret'.count, ret'.count2>>, <<"INFO", NULL>>))
  /\ UNCHANGED <<asked, due>>

-----------------------------------------------------------------------------
(* Pub/Sub.                                                                *)

Subscribe(c, ch) ==
  /\ InRegistry(c) /\ Registry!Subscribe(ch, c)
  /\ Replies(c, Response("simple", "OK", <<"SUBSCRIBE", ch>>))
  /\ UNCHANGED due

SubscribeFails(c, ch) ==
  /\ InRegistry(c) /\ Registry!Refused("NO_MEMORY")
  /\ Replies(c, Response("error", "unable to subscribe", <<"SUBSCRIBE", ch>>))
  /\ UNCHANGED due

\* An empty channel name: an error for SUBSCRIBE, 0 for UNSUBSCRIBE.
EmptyChannel(c) ==
  /\ InRegistry(c) /\ Registry!Refused("INVALID_ARGUMENT")
  /\ \/ Replies(c, Response("error", "invalid channel", <<"SUBSCRIBE", NULL>>))
     \/ Replies(c, Response("integer", 0, <<"UNSUBSCRIBE", NULL>>))
  /\ UNCHANGED due

Unsubscribe(c, ch) ==
  /\ InRegistry(c) /\ Registry!Unsubscribe(ch, c)
  /\ Replies(c, Response("integer", IF ret'.status = "OK" THEN 1 ELSE 0, <<"UNSUBSCRIBE", ch>>))
  /\ UNCHANGED due

\* Mutant: a client that has lost a message is offered the next one.
AcceptsAgain(c, m) == Pending(c) + m <= OutputCap

\* deliver_pubsub_message accepts.
Accepts(c, m) == c \notin dropped /\ Pending(c) + m <= OutputCap

\* The clients whose callback returned true.
Counted(ch, takers) == takers

\* Whether its stream tells c that it is subscribed to ch.
Subscribed(c, ch) ==
  LET s    == stream[c]
      told == {i \in DOMAIN s : /\ s[i].about \in {<<"SUBSCRIBE", ch>>, <<"UNSUBSCRIBE", ch>>}
                                /\ s[i].kind # "error"}
  IN  told # {} /\ s[Max(told)].about[1] = "SUBSCRIBE"

Takers(ch, m) == {s \in Registry!SubscribersOf(ch) : Accepts(s, m)}

\* The reply to c fits behind the message that c may have sent to itself.
ReplyFits(c, ch, m) == Pending(c) + (IF c \in Takers(ch, m) THEN m ELSE 0) + 1 <= OutputCap

\* The message goes to those who accept it, and a client that does not is
\* dropped; the reply to c is queued behind.
Publish(c, ch, m) ==
  LET takers == Takers(ch, m)
      no     == commands + 1
  IN  /\ ReplyFits(c, ch, m)
      /\ InRegistry(c) /\ Registry!Publish(ch, Counted(ch, takers))
      /\ stream' = [s \in Clients |->
           stream[s] \o (IF s \in takers THEN <<Message(ch, m, no)>> ELSE <<>>)
                     \o (IF s = c THEN <<Response("integer", ret'.count, <<"PUBLISH", ch>>)>> ELSE <<>>)]
      /\ dropped' = dropped \cup (Registry!SubscribersOf(ch) \ takers)
      /\ due' = [s \in Clients |-> IF Subscribed(s, ch) THEN Append(due[s], no) ELSE due[s]]
      /\ UNCHANGED <<connected, sent>>

LeavesRegistry(c) == Registry!RemoveClient(c)

\* The reply does not fit: the message has gone to the others, and c is closed
\* without one.
PublishCloses(c, ch, m) ==
  LET takers == Takers(ch, m)
      no     == commands + 1
  IN  /\ ~ReplyFits(c, ch, m)
      /\ InRegistry(c) /\ LeavesRegistry(c)
      /\ connected' = connected \ {c}
      /\ stream' = [s \in Clients |-> IF s = c THEN <<>>
           ELSE stream[s] \o (IF s \in takers THEN <<Message(ch, m, no)>> ELSE <<>>)]
      /\ sent' = [sent EXCEPT ![c] = 0]
      /\ dropped' = (dropped \cup (Registry!SubscribersOf(ch) \ takers)) \ {c}
      /\ due' = [s \in Clients |-> IF s = c THEN <<>>
                                   ELSE IF Subscribed(s, ch) THEN Append(due[s], no) ELSE due[s]]

-----------------------------------------------------------------------------
(* Connections, and time.                                                  *)

Same == UNCHANGED <<commands, asked>>

Connect(c) == /\ c \notin connected
              /\ connected' = connected \cup {c}
              /\ UNCHANGED <<store, registry, dropped, stream, sent, due>> /\ Same

\* Some of the queue is sent.
Write(c, n) == /\ n \in 1 .. Len(stream[c]) - sent[c]
               /\ sent' = [sent EXCEPT ![c] = @ + n]
               /\ UNCHANGED <<store, registry, connected, dropped, stream, due>> /\ Same

\* The client has been dropped, or it is gone.
Close(c) == /\ c \in connected
            /\ LeavesRegistry(c)
            /\ connected' = connected \ {c} /\ dropped' = dropped \ {c}
            /\ stream' = [stream EXCEPT ![c] = <<>>] /\ sent' = [sent EXCEPT ![c] = 0]
            /\ due' = [due EXCEPT ![c] = <<>>]
            /\ UNCHANGED store /\ Same

Tick == Clock /\ Store!Tick /\ UNCHANGED <<registry, clients, due>> /\ Same

Next ==
  \/ Tick
  \/ \E c \in Clients :
       \/ Connect(c) \/ Close(c) \/ Info(c) \/ EmptyChannel(c)
       \/ \E n \in 1 .. Len(stream[c]) - sent[c] : Write(c, n)
       \/ \E kind \in {"simple", "bulk", "error"} : Answers(c, kind)
       \/ \E k \in Keys : \/ Get(c, k) \/ Del(c, k) \/ Exists(c, k) \/ Ttl(c, k)
                          \/ \E d \in Data : Set(c, k, d)
                          \/ \E t \in Texts : \/ BadSeconds(c, k, t) \/ ExpireNow(c, k, t) \/ Expire(c, k, t)
                                              \/ \E d \in Data : SetEx(c, k, t, d)
       \/ \E ch \in Channels : \/ Subscribe(c, ch) \/ SubscribeFails(c, ch) \/ Unsubscribe(c, ch)
                               \/ \E m \in Messages : Publish(c, ch, m) \/ PublishCloses(c, ch, m)

Spec == Init /\ [][Next]_vars

-----------------------------------------------------------------------------
(* Properties.                                                             *)

\* Whether the replies so far say that k is there at time t.
There(k, t) == asked[k].ends => t < asked[k].until

\* The store holds exactly what the successful commands of all clients have
\* asked for: a lifetime of n seconds ends after n seconds, at once for n <= 0,
\* never wraps and never becomes an endless one; an error has changed nothing.
StoreIsAsAsked ==
  /\ DOMAIN view = {k \in Keys : There(k, now)}
  /\ \A k \in DOMAIN view : view[k].data = asked[k].data

\* What a reply says was true when the command started or, for TTL, when the
\* second clock was read.
IsTrue(r) ==
  LET k == r.about[2]
  IN  CASE r.about[1] = "GET"    -> IF There(k, now) THEN r.value = asked[k].data ELSE r.kind = "nil"
        [] r.about[1] \in {"DEL", "EXISTS"} -> r.value = IF There(k, now) THEN 1 ELSE 0
        [] r.about[1] = "EXPIRE" -> r.kind = "integer" => r.value = IF There(k, now) THEN 1 ELSE 0
        [] r.about[1] = "TTL"    -> IF ~There(k, now') THEN r.value = -2
                                    ELSE IF ~asked[k].ends THEN r.value = -1
                                    ELSE r.value = (asked[k].until - now') \div MsPerSec
        [] r.about[1] = "INFO"   -> r.value[1] = Cardinality({x \in Keys : There(x, now)})
        [] r.about[1] = "PUBLISH" ->
             r.value = Cardinality({c \in Clients : \E i \in DOMAIN stream'[c] :
                                      stream'[c][i].kind = "array" /\ stream'[c][i].value = commands'})
        [] OTHER -> TRUE

\* Every reply is true of the data as the earlier replies describe it.
RepliesAreTrue ==
  [][\A c \in Clients : Len(stream'[c]) > Len(stream[c]) /\ Last(stream'[c]).kind # "array" =>
       IsTrue(Last(stream'[c]))]_vars

\* The messages in a client's stream are the ones published while the stream
\* said that it was subscribed, in order and without a gap; a client that loses
\* one gets no later one, and is dropped.  So no message follows the reply to an
\* UNSUBSCRIBE of the only channel, on which the CLI relies, and none reaches
\* the next connection.
MessagesAsSubscribed ==
  \A c \in Clients :
    LET got == {i \in DOMAIN stream[c] : stream[c][i].kind = "array"}
    IN  /\ Cardinality(got) <= Len(due[c])
        /\ \A i \in got : stream[c][i].value = due[c][Cardinality({j \in got : j <= i})]
        /\ c \notin dropped => Cardinality(got) = Len(due[c])

=============================================================================
