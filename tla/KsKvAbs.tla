------------------------------- MODULE KsKvAbs -------------------------------
(***************************************************************************)
(* What the key-value store promises (include/ks_kv.h): a map from keys to *)
(* data with deadlines in which a key whose deadline has passed is not     *)
(* there, no matter when, or whether, anything removes it.  A command acts *)
(* on the map as it is when the command starts; the clock may move on      *)
(* before it ends.  ks_kv_reap does not appear: to a caller it does        *)
(* nothing.                                                                *)
(***************************************************************************)
EXTENDS Integers, FiniteSets, Functions

CONSTANTS Keys, Data, NULL,
          Ttls,       \* the ttl_seconds arguments
          MsPerSec,   \* 1000
          UintMax     \* UINT64_MAX

VARIABLES now,    \* the monotonic clock
          view,   \* the keys that are there, with their data and deadline
          reply   \* what the last call returned

absVars == <<now, view, reply>>

Ret(code, data, count) == [code |-> code, data |-> data, count |-> count]

\* The part of m that is there at time t; a deadline of 0 never passes.
AliveAt(m, t) ==
  Restrict(m, {k \in DOMAIN m : m[k].deadline = 0 \/ m[k].deadline > t})

Put(m, k, d, dl) ==
  [x \in DOMAIN m \cup {k} |-> IF x = k THEN [data |-> d, deadline |-> dl] ELSE m[x]]

Drop(m, k) == Restrict(m, DOMAIN m \ {k})

\* A deadline exists when it fits the 64 bits of the clock.
HasDeadline(t, ttl) == ttl # 0 /\ t + ttl * MsPerSec <= UintMax

-----------------------------------------------------------------------------

\* The call leaves m behind at some time not before now, and returns r.
Ends(m, r) == /\ now' >= now
              /\ view' = AliveAt(m, now')
              /\ reply' = r

Init == /\ now \in Nat
        /\ view = [k \in {} |-> NULL]
        /\ reply = Ret("VOID", NULL, 0)

Tick == now' > now /\ view' = AliveAt(view, now') /\ UNCHANGED reply

Set(k, d, ttl) ==
  /\ ttl = 0 \/ HasDeadline(now', ttl)
  /\ Ends(Put(view, k, d, IF ttl = 0 THEN 0 ELSE now' + ttl * MsPerSec),
          Ret(IF k \in DOMAIN view THEN "REPLACED" ELSE "INSERTED", NULL, 0))

\* No memory or no such deadline: the caller sees the map unchanged.
SetFails == Ends(view, Ret("ERROR", NULL, 0))

Get(k) == Ends(view, IF k \in DOMAIN view THEN Ret("VALUE", view[k].data, 0)
                                          ELSE Ret("MISSING", NULL, 0))

Exists(k) == Ends(view, Ret("BOOL", NULL, IF k \in DOMAIN view THEN 1 ELSE 0))

Delete(k) == Ends(Drop(view, k), Ret("BOOL", NULL, IF k \in DOMAIN view THEN 1 ELSE 0))

Expire(k, ttl) ==
  \/ /\ k \notin DOMAIN view
     /\ Ends(view, Ret("MISSING", NULL, 0))
  \/ /\ k \in DOMAIN view
     /\ ttl = 0
     /\ Ends(Drop(view, k), Ret("UPDATED", NULL, 0))
  \/ /\ k \in DOMAIN view
     /\ HasDeadline(now', ttl)
     /\ Ends(Put(view, k, view[k].data, now' + ttl * MsPerSec), Ret("UPDATED", NULL, 0))
  \/ /\ k \in DOMAIN view
     /\ ttl # 0
     /\ ~HasDeadline(now', ttl)
     /\ Ends(view, Ret("ERROR", NULL, 0))

\* -2 missing, -1 without a deadline, else whole seconds left: never negative,
\* and judged at one single time.
Ttl(k) ==
  LET there == AliveAt(view, now')
  IN  Ends(view,
           Ret("TTL", NULL,
               IF k \notin DOMAIN there THEN -2
               ELSE IF there[k].deadline = 0 THEN -1
               ELSE (there[k].deadline - now') \div MsPerSec))

\* INFO's number of keys counts the keys that are there, and no other.
Size == Ends(view, Ret("SIZE", NULL, Cardinality(DOMAIN view)))

Destroy == /\ view' = [k \in {} |-> NULL]
           /\ reply' = Ret("VOID", NULL, 0)
           /\ UNCHANGED now

Next == \/ Tick \/ SetFails \/ Size \/ Destroy
        \/ \E k \in Keys : \/ Get(k) \/ Exists(k) \/ Delete(k) \/ Ttl(k)
                           \/ \E ttl \in Ttls : \/ Expire(k, ttl)
                                                \/ \E d \in Data : Set(k, d, ttl)

Spec == Init /\ [][Next]_absVars

=============================================================================
