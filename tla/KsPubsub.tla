------------------------------ MODULE KsPubsub ------------------------------
(***************************************************************************)
(* src/ks_pubsub.c: the registry of subscriptions, a linked list of        *)
(* channels with a linked list of subscribers each, both grown at the      *)
(* head, and two counters kept beside them.  ks_pubsub_remove_client's     *)
(* walk over the channels is kept as steps; a list is a sequence.          *)
(***************************************************************************)
EXTENDS Integers, FiniteSets, Sequences, SequencesExt

CONSTANTS Channels,   \* the non-empty channel names
          Clients,    \* the client ids
          NoClient    \* no client: ks_pubsub_remove_client is not running

ASSUME NoClientAssumption == NoClient \notin Clients

VARIABLES channels,            \* pubsub->channels
          channel_count, subscription_count,
          pc,                  \* "idle", or "remove" inside ks_pubsub_remove_client
          client, link, removed,  \* its argument, its place in the list, its count
          ret,                 \* what the last call returned
          offered              \* the calls of the last publish to its callback

vars == <<channels, channel_count, subscription_count, pc, client, link, removed, ret, offered>>

Ret(status, count, count2) == [status |-> status, count |-> count, count2 |-> count2]

-----------------------------------------------------------------------------
(* Lists.                                                                  *)

\* find_channel: the places of the channels called ch, at most one.
PlacesOf(ch) == {n \in DOMAIN channels : channels[n].name = ch}

\* Mutant: the search for the client looks at the head of the list only.
SubscribedHead(n, c) == Head(channels[n].subs) = c

Subscribed(n, c) == c \in Range(channels[n].subs)

\* The list after channel n got the subscribers s, and without it if s is empty:
\* an empty channel is unlinked and destroyed.
WithSubscribers(n, s) ==
  IF s = <<>> THEN RemoveAt(channels, n) ELSE [channels EXCEPT ![n].subs = s]

\* Mutant: a destroyed channel stays counted.
DroppedNever(s) == 0

\* What the subscribers s left behind take off channel_count.
Dropped(s) == IF s = <<>> THEN 1 ELSE 0

Init == /\ channels = <<>>
        /\ channel_count = 0
        /\ subscription_count = 0
        /\ pc = "idle"
        /\ client = NoClient /\ link = 1 /\ removed = 0
        /\ ret = Ret("OK", 0, 0)
        /\ offered = <<>>

Returns(r) == ret' = r /\ UNCHANGED <<pc, client, link, removed, offered>>

Unchanged(r) == Returns(r) /\ UNCHANGED <<channels, channel_count, subscription_count>>

-----------------------------------------------------------------------------
(* ks_pubsub_subscribe.                                                    *)

\* The channel name is empty; ks_pubsub_unsubscribe answers the same.
SubscribeInvalid == pc = "idle" /\ Unchanged(Ret("INVALID_ARGUMENT", 0, 0))

SubscribeTwice(ch, c) ==
  /\ pc = "idle"
  /\ \E n \in PlacesOf(ch) : Subscribed(n, c)
  /\ Unchanged(Ret("ALREADY_SUBSCRIBED", 0, 0))

SubscribeExisting(ch, c) ==
  /\ pc = "idle"
  /\ \E n \in PlacesOf(ch) :
       /\ ~Subscribed(n, c)
       /\ channels' = [channels EXCEPT ![n].subs = <<c>> \o @]
  /\ subscription_count' = subscription_count + 1
  /\ Returns(Ret("OK", 0, 0))
  /\ UNCHANGED channel_count

SubscribeNew(ch, c) ==
  /\ pc = "idle"
  /\ PlacesOf(ch) = {}
  /\ channels' = <<[name |-> ch, subs |-> <<c>>]>> \o channels
  /\ channel_count' = channel_count + 1
  /\ subscription_count' = subscription_count + 1
  /\ Returns(Ret("OK", 0, 0))

\* A malloc fails: whatever was allocated is freed again.
SubscribeNoMemory(ch, c) ==
  /\ pc = "idle"
  /\ \A n \in PlacesOf(ch) : ~Subscribed(n, c)
  /\ Unchanged(Ret("NO_MEMORY", 0, 0))

-----------------------------------------------------------------------------
(* ks_pubsub_unsubscribe, ks_pubsub_remove_client.                         *)

Unsubscribe(ch, c) ==
  /\ pc = "idle"
  /\ \E n \in PlacesOf(ch) :
       /\ Subscribed(n, c)
       /\ LET s == RemoveFirst(channels[n].subs, c)
          IN  /\ channels' = WithSubscribers(n, s)
              /\ channel_count' = channel_count - Dropped(s)
  /\ subscription_count' = subscription_count - 1
  /\ Returns(Ret("OK", 0, 0))

UnsubscribeMissing(ch, c) ==
  /\ pc = "idle"
  /\ \A n \in PlacesOf(ch) : ~Subscribed(n, c)
  /\ Unchanged(Ret("NOT_SUBSCRIBED", 0, 0))

RemoveClient(c) ==
  /\ pc = "idle"
  /\ pc' = "remove"
  /\ client' = c /\ link' = 1 /\ removed' = 0
  /\ UNCHANGED <<channels, channel_count, subscription_count, ret, offered>>

\* The place the walk looks at next: the same one when its channel is destroyed.
NextLink(n, s) == IF s = <<>> THEN n ELSE n + 1

\* One turn of the outer loop: the client leaves the channel at the link.
RemoveStep ==
  /\ pc = "remove"
  /\ link \in DOMAIN channels
  /\ LET s == RemoveFirst(channels[link].subs, client)
         gone == Subscribed(link, client)
     IN  /\ channels' = WithSubscribers(link, s)
         /\ channel_count' = channel_count - Dropped(s)
         /\ subscription_count' = subscription_count - (IF gone THEN 1 ELSE 0)
         /\ removed' = removed + (IF gone THEN 1 ELSE 0)
         /\ link' = NextLink(link, s)
  /\ UNCHANGED <<pc, client, ret, offered>>

RemoveDone ==
  /\ pc = "remove"
  /\ link \notin DOMAIN channels
  /\ pc' = "idle"
  /\ ret' = Ret("OK", removed, 0)
  /\ client' = NoClient /\ link' = 1 /\ removed' = 0
  /\ UNCHANGED <<channels, channel_count, subscription_count, offered>>

-----------------------------------------------------------------------------
(* ks_pubsub_publish: the callback accepts for the clients in takers.      *)

\* Mutant: the walk starts behind the head.
RecipientsButHead(ch) ==
  IF PlacesOf(ch) = {} THEN <<>> ELSE Tail(channels[CHOOSE n \in PlacesOf(ch) : TRUE].subs)

\* The clients ks_pubsub_publish calls back, in order.
Recipients(ch) ==
  IF PlacesOf(ch) = {} THEN <<>> ELSE channels[CHOOSE n \in PlacesOf(ch) : TRUE].subs

Publish(ch, takers) ==
  /\ pc = "idle"
  /\ offered' = Recipients(ch)
  /\ ret' = Ret("OK", Cardinality({n \in DOMAIN Recipients(ch) : Recipients(ch)[n] \in takers}), 0)
  /\ UNCHANGED <<channels, channel_count, subscription_count, pc, client, link, removed>>

Counts == pc = "idle" /\ Unchanged(Ret("OK", channel_count, subscription_count))

\* ks_pubsub_destroy, and ks_pubsub_create of the next registry.
Recreate ==
  /\ pc = "idle"
  /\ channels' = <<>> /\ channel_count' = 0 /\ subscription_count' = 0
  /\ ret' = Ret("OK", 0, 0)
  /\ offered' = <<>>
  /\ UNCHANGED <<pc, client, link, removed>>

-----------------------------------------------------------------------------

Next == \/ \E ch \in Channels, c \in Clients :
             \/ SubscribeTwice(ch, c) \/ SubscribeExisting(ch, c) \/ SubscribeNew(ch, c)
             \/ SubscribeNoMemory(ch, c) \/ Unsubscribe(ch, c) \/ UnsubscribeMissing(ch, c)
        \/ SubscribeInvalid
        \/ \E c \in Clients : RemoveClient(c)
        \/ RemoveStep
        \/ RemoveDone
        \/ \E ch \in Channels, takers \in SUBSET Clients : Publish(ch, takers)
        \/ Counts
        \/ Recreate

Spec == Init /\ [][Next]_vars

-----------------------------------------------------------------------------
(* Properties.                                                             *)

\* The lists are a set: no channel and no subscriber is listed twice and no
\* channel is listed without a subscriber.  ks_pubsub_remove_client stops at the
\* first match in a channel and relies on it.
ListsAreSets ==
  /\ \A m, n \in DOMAIN channels : channels[m].name = channels[n].name => m = n
  /\ \A n \in DOMAIN channels :
       /\ channels[n].subs # <<>>
       /\ \A x, y \in DOMAIN channels[n].subs :
            channels[n].subs[x] = channels[n].subs[y] => x = y

Pairs == UNION {{<<channels[n].name, c>> : c \in Range(channels[n].subs)} : n \in DOMAIN channels}

\* Both counters are exact at every step, inside ks_pubsub_remove_client too.
CountersExact == /\ channel_count = Len(channels)
                 /\ subscription_count = Cardinality(Pairs)

\* The registry is the set of (channel, client) pairs: every call changes and
\* answers what the set says, and a publish reaches each subscriber once.  A
\* removal counts as done when its walk begins.
Leaving == {p \in Pairs : pc = "remove" /\ p[2] = client}
P == INSTANCE KsPubsubAbs WITH
       subs <- Pairs \ Leaving,
       ret <- IF pc = "remove" THEN Ret("OK", removed + Cardinality(Leaving), 0) ELSE ret,
       offered <- [who |-> Range(offered), calls |-> Len(offered)]
ImplementsPubsub == P!Spec

=============================================================================
