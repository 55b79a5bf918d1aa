----------------------------- MODULE KsPubsubAbs -----------------------------
(***************************************************************************)
(* What the Pub/Sub registry promises (include/ks_pubsub.h): a set of      *)
(* (channel, client) pairs.  A publish offers the message once to every    *)
(* client subscribed at that moment and returns how many took it.          *)
(***************************************************************************)
EXTENDS Integers, FiniteSets

CONSTANTS Channels,      \* the non-empty channel names
          Clients        \* the client ids

VARIABLES subs,      \* the subscriptions
          ret,       \* what the last call returned
          offered    \* the clients the last publish called back, and how often

absVars == <<subs, ret, offered>>

Ret(status, count, count2) == [status |-> status, count |-> count, count2 |-> count2]

SubscribersOf(ch) == {c \in Clients : <<ch, c>> \in subs}
PairsOf(c)        == {p \in subs : p[2] = c}

Init == subs = {} /\ ret = Ret("OK", 0, 0) /\ offered = [who |-> {}, calls |-> 0]

Subscribe(ch, c) ==
  /\ subs' = subs \cup {<<ch, c>>}
  /\ ret' = Ret(IF <<ch, c>> \in subs THEN "ALREADY_SUBSCRIBED" ELSE "OK", 0, 0)
  /\ UNCHANGED offered

\* A call that returns an error changes nothing.
Refused(status) == ret' = Ret(status, 0, 0) /\ UNCHANGED <<subs, offered>>

Unsubscribe(ch, c) ==
  /\ subs' = subs \ {<<ch, c>>}
  /\ ret' = Ret(IF <<ch, c>> \in subs THEN "OK" ELSE "NOT_SUBSCRIBED", 0, 0)
  /\ UNCHANGED offered

RemoveClient(c) ==
  /\ subs' = subs \ PairsOf(c)
  /\ ret' = Ret("OK", Cardinality(PairsOf(c)), 0)
  /\ UNCHANGED offered

Publish(ch, takers) ==
  /\ offered' = [who |-> SubscribersOf(ch), calls |-> Cardinality(SubscribersOf(ch))]
  /\ ret' = Ret("OK", Cardinality(SubscribersOf(ch) \cap takers), 0)
  /\ UNCHANGED subs

\* The two counters INFO shows: channels with a subscriber, subscriptions.
Counts == /\ ret' = Ret("OK", Cardinality({p[1] : p \in subs}), Cardinality(subs))
          /\ UNCHANGED <<subs, offered>>

Reset == subs' = {} /\ ret' = Ret("OK", 0, 0) /\ offered' = [who |-> {}, calls |-> 0]

Next == \/ \E ch \in Channels, c \in Clients : Subscribe(ch, c) \/ Unsubscribe(ch, c)
        \/ \E status \in {"NO_MEMORY", "INVALID_ARGUMENT"} : Refused(status)
        \/ \E c \in Clients : RemoveClient(c)
        \/ \E ch \in Channels, takers \in SUBSET Clients : Publish(ch, takers)
        \/ Counts
        \/ Reset

Spec == Init /\ [][Next]_absVars

=============================================================================
