-------------------------------- MODULE KsKv --------------------------------
(***************************************************************************)
(* src/ks_kv.c with src/ks_ttl.c: the key-value store with expiry, on top  *)
(* of the hash table as KsTable promises it (KsDs implements KsTable).     *)
(* Expired entries stay in the table until a command touches the key, the  *)
(* reaper's cursor comes by, or ks_kv_size sweeps the table.  Commands     *)
(* that read the clock twice may see it move in between.                   *)
(***************************************************************************)
EXTENDS Integers, FiniteSets, Functions

CONSTANTS Keys,             \* the keys
          Data,             \* the contents of values
          NULL,             \* the null pointer
          InitialCapacity,  \* KS_DS_INITIAL_CAPACITY
          Ttls,             \* the ttl_seconds a caller may pass, 0 included
          MsPerSec,         \* 1000
          UintMax,          \* UINT64_MAX
          ReapBudgets,      \* the budgets ks_kv_reap is called with
          MaxNow            \* bound of the model: the clock stops here

ASSUME ClockAssumption ==
  /\ MsPerSec \in Nat \ {0} /\ UintMax \in Nat /\ MaxNow \in 0 .. UintMax
  /\ Ttls \subseteq 0 .. UintMax /\ 0 \in Ttls
ASSUME BudgetAssumption == ReapBudgets \subseteq Nat \ {0}
ASSUME TableAssumption  == InitialCapacity \in Nat \ {0}

VARIABLES cap, map, pos,   \* store->entries, as in KsTable
          cursor,          \* store->reaper_cursor
          now,             \* the monotonic clock
          res              \* what the last call returned

vars == <<cap, map, pos, cursor, now, res>>

KvValues == [data : Data, deadline : 0 .. UintMax]

T == INSTANCE KsTable WITH Values <- KvValues

Ret(code, data, count) == [code |-> code, data |-> data, count |-> count]

-----------------------------------------------------------------------------
(* ks_ttl.c                                                                *)

\* The instants a second read of the clock may return.
Later == now .. MaxNow

\* ks_ttl_deadline: its check, and the 64-bit sum it guards.
DeadlineFits(t, ttl) == ttl # 0 /\ ttl <= (UintMax - t) \div MsPerSec
Deadline(t, ttl)     == (t + ttl * MsPerSec) % (UintMax + 1)

-----------------------------------------------------------------------------
(* ks_kv_find_live: the key is removed when its deadline has passed.       *)

Expired(k, t) == map[k].deadline # 0 /\ map[k].deadline <= t

IsLive(k) == k \in DOMAIN map /\ ~Expired(k, now)

\* What find_live removes.
Lazy(k) == IF k \in DOMAIN map /\ Expired(k, now) THEN {k} ELSE {}

\* The call removes the keys S, ends at time t and returns r.
RemoveAndReturn(S, t, r) ==
  /\ map' = T!Without(map, S)
  /\ pos' = T!Without(pos, S)
  /\ now' = t
  /\ res' = r
  /\ UNCHANGED <<cap, cursor>>

-----------------------------------------------------------------------------

Init == /\ cap = InitialCapacity
        /\ map = T!EmptyMap
        /\ pos = T!EmptyMap
        /\ cursor = 0
        /\ now = 0
        /\ res = Ret("VOID", NULL, 0)

Tick == /\ now < MaxNow
        /\ now' = now + 1
        /\ UNCHANGED <<cap, map, pos, cursor, res>>

\* ks_ds_put of k, on the table find_live left behind.
Put(k, v) ==
  LET m == T!Without(map, Lazy(k))
      p == T!Without(pos, Lazy(k))
  IN  \/ /\ k \in DOMAIN m
         /\ map' = [m EXCEPT ![k] = v]
         /\ res' = Ret("REPLACED", NULL, 0)
         /\ UNCHANGED <<cap, pos>>
      \/ /\ k \notin DOMAIN m
         /\ cap # 0
         /\ \/ pos' \in T!InPlace(p, cap, k) /\ UNCHANGED cap
            \/ cap' = T!GrownCapacity(p, cap) /\ pos' \in T!Rehashed(p, cap', k)
         /\ map' = T!With(m, k, v)
         /\ res' = Ret("INSERTED", NULL, 0)

\* ks_kv_set is ks_kv_set_ex with ttl 0.
SetEx(k, d, ttl) ==
  \E t \in (IF ttl = 0 THEN {now} ELSE Later) :
    /\ ttl = 0 \/ DeadlineFits(t, ttl)
    /\ Put(k, [data |-> d, deadline |-> IF ttl = 0 THEN 0 ELSE Deadline(t, ttl)])
    /\ now' = t
    /\ UNCHANGED cursor

\* ks_kv_set_ex gives up: no such deadline, no memory for a copy, or ks_ds_put
\* fails (the table was destroyed, or cannot be rebuilt).
SetFails(k) ==
  \E t \in Later : RemoveAndReturn(Lazy(k), t, Ret("ERROR", NULL, 0))

Get(k) ==
  RemoveAndReturn(Lazy(k), now, IF IsLive(k) THEN Ret("VALUE", map[k].data, 0)
                                             ELSE Ret("MISSING", NULL, 0))

Exists(k) ==
  RemoveAndReturn(Lazy(k), now, Ret("BOOL", NULL, IF IsLive(k) THEN 1 ELSE 0))

Delete(k) ==
  RemoveAndReturn({k}, now, Ret("BOOL", NULL, IF IsLive(k) THEN 1 ELSE 0))

\* ks_kv_expire of a live key: remove it, fail, or move its deadline in place.
ExpireLive(k, ttl) ==
  /\ IsLive(k)
  /\ \/ /\ ttl = 0
        /\ RemoveAndReturn({k}, now, Ret("UPDATED", NULL, 0))
     \/ \E t \in Later :
          /\ ttl # 0
          /\ IF DeadlineFits(t, ttl)
             THEN /\ map' = [map EXCEPT ![k].deadline = Deadline(t, ttl)]
                  /\ res' = Ret("UPDATED", NULL, 0)
             ELSE res' = Ret("ERROR", NULL, 0) /\ UNCHANGED map
          /\ now' = t
          /\ UNCHANGED <<cap, pos, cursor>>

ExpireMissing(k) ==
  /\ ~IsLive(k)
  /\ RemoveAndReturn(Lazy(k), now, Ret("MISSING", NULL, 0))

\* Mutant: the second check of the deadline is missing.
GoneSinceNever(k, t) == FALSE

GoneSince(k, t) == Expired(k, t)

\* ks_kv_ttl reads the clock again after find_live and checks the deadline again.
Ttl(k) ==
  \/ /\ ~IsLive(k)
     /\ RemoveAndReturn(Lazy(k), now, Ret("TTL", NULL, -2))
  \/ /\ IsLive(k)
     /\ map[k].deadline = 0
     /\ RemoveAndReturn({}, now, Ret("TTL", NULL, -1))
  \/ /\ IsLive(k)
     /\ map[k].deadline # 0
     /\ \E t \in Later :
          IF GoneSince(k, t)
          THEN RemoveAndReturn({k}, t, Ret("TTL", NULL, -2))
          ELSE RemoveAndReturn({}, t,
                 Ret("TTL", NULL, (map[k].deadline - t) \div MsPerSec))

-----------------------------------------------------------------------------
(* ks_kv_reap: scan `budget` slots from the cursor, wrapping.              *)

Start == IF cursor >= cap THEN 0 ELSE cursor

Scanned(budget) == {(Start + n) % cap : n \in 0 .. budget - 1}

\* Mutant: the cursor starts over on every call.
CursorRestarts(budget) == budget

\* Mutant: the cursor is never wrapped.
CursorUnwrapped(budget) == cursor + budget

\* The cursor is left behind the last slot scanned, and may equal the capacity.
CursorAfter(budget) == ((Start + budget - 1) % cap) + 1

Reaped(budget) == {k \in DOMAIN map : pos[k] \in Scanned(budget) /\ Expired(k, now)}

Reap(budget) ==
  /\ cap # 0
  /\ map' = T!Without(map, Reaped(budget))
  /\ pos' = T!Without(pos, Reaped(budget))
  /\ cursor' = CursorAfter(budget)
  /\ UNCHANGED <<cap, now, res>>

\* ks_kv_size: sweep the whole table, then count what is left.
Size ==
  \/ /\ cap # 0
     /\ map' = T!Without(map, Reaped(cap))
     /\ pos' = T!Without(pos, Reaped(cap))
     /\ cursor' = CursorAfter(cap)
     /\ res' = Ret("SIZE", NULL, Cardinality(DOMAIN map'))
     /\ UNCHANGED <<cap, now>>
  \/ /\ cap = 0
     /\ res' = Ret("SIZE", NULL, 0)
     /\ UNCHANGED <<cap, map, pos, cursor, now>>

Destroy == /\ cap' = 0
           /\ map' = T!EmptyMap
           /\ pos' = T!EmptyMap
           /\ res' = Ret("VOID", NULL, 0)
           /\ UNCHANGED <<cursor, now>>

-----------------------------------------------------------------------------

ReapNext == \E budget \in ReapBudgets : Reap(budget)

Next == \/ Tick \/ ReapNext \/ Size \/ Destroy
        \/ \E k \in Keys :
             \/ Get(k) \/ Exists(k) \/ Delete(k) \/ Ttl(k) \/ ExpireMissing(k) \/ SetFails(k)
             \/ \E ttl \in Ttls : \/ ExpireLive(k, ttl)
                                  \/ \E d \in Data : SetEx(k, d, ttl)

\* ks_server_run calls ks_kv_reap on every turn of its loop.
Spec == Init /\ [][Next]_vars /\ WF_vars(ReapNext)

-----------------------------------------------------------------------------
(* Properties.                                                             *)

\* The table is a table, and the cursor never points past it.
TypeOK == /\ cap \in Nat
          /\ DOMAIN map \subseteq Keys /\ map \in [DOMAIN map -> KvValues]
          /\ pos \in [DOMAIN map -> 0 .. cap - 1] /\ IsInjective(pos)
          /\ cursor \in Nat /\ (cap # 0 => cursor <= cap)
          /\ now \in 0 .. MaxNow

\* To a caller, the store is the map of the keys whose deadline has not passed:
\* no command ever shows or counts an expired key, no expiry takes a live one,
\* and a failed command leaves every other key as it was.
View == [k \in {x \in DOMAIN map : ~Expired(x, now)} |-> map[k]]
A == INSTANCE KsKvAbs WITH view <- View, reply <- res
ImplementsKv == A!Spec

\* Memory of expired keys comes back: once puts stop moving entries between
\* slots, the reaper's cursor reaches every expired entry.
KeepsSlots == \A k \in DOMAIN pos \cap DOMAIN pos' : pos'[k] = pos[k]
ReaperDrains ==
  <>[][KeepsSlots]_vars =>
    \A k \in Keys : (k \in DOMAIN map /\ Expired(k, now)) ~> ~(k \in DOMAIN map /\ Expired(k, now))

=============================================================================
