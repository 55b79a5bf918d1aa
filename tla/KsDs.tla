-------------------------------- MODULE KsDs --------------------------------
(***************************************************************************)
(* src/ks_ds.c: the open-addressing hash table with linear probing,        *)
(* tombstones and rebuilds, under every sequence of calls of its           *)
(* interface.  ks_ds_rebuild's loop over the old array is kept as steps,   *)
(* so that the table is also visible while only part of it is reinserted;  *)
(* every other call is one action.                                         *)
(*                                                                         *)
(* A value stands for the pair of heap objects (key copy, value) a put     *)
(* hands over: the table owns it until it releases it.                     *)
(***************************************************************************)
EXTENDS Integers, FiniteSets, FiniteSetsExt

CONSTANTS Keys,             \* the distinct keys
          Values,           \* heap objects a put can hand over
          NULL,             \* the null pointer
          Hash,             \* table->hash, as a function on Keys
          InitialCapacity,  \* KS_DS_INITIAL_CAPACITY (a power of two)
          SizeMax           \* SIZE_MAX

ASSUME PointerAssumption  == NULL \notin Keys /\ NULL \notin Values
ASSUME HashAssumption     == Hash \in [Keys -> Nat]
ASSUME CapacityAssumption == InitialCapacity \in Nat /\ InitialCapacity >= 2
ASSUME SizeMaxAssumption  == SizeMax \in Nat

VARIABLES
  entries, capacity, size, occupied,  \* the fields of ks_ds_t
  pc,        \* "ready", "rebuild" (inside ks_ds_rebuild) or "destroyed"
  old, i,    \* ks_ds_rebuild: old_entries and the loop index
  pending,   \* ks_ds_put: the key and value waiting for the rebuild
  live,      \* the heap objects owned by the table: taken over, not released
  res        \* what the last call returned

table  == <<entries, capacity, size, occupied>>
locals == <<old, i, pending>>
vars   == <<table, locals, pc, live, res>>

-----------------------------------------------------------------------------
(* Slots.                                                                  *)

States == {"EMPTY", "OCCUPIED", "TOMBSTONE"}

Entry(state, key, value) == [state |-> state, key |-> key, value |-> value]

EmptyEntry     == Entry("EMPTY", NULL, NULL)

\* Mutant: a removed slot becomes EMPTY and cuts the probe sequences through it.
TombstoneAsEmpty == EmptyEntry

TombstoneEntry == Entry("TOMBSTONE", NULL, NULL)
NoPut          == [key |-> NULL, value |-> NULL]
NoEntries      == [s \in {} |-> EmptyEntry]

Entries == [state : States, key : Keys \cup {NULL}, value : Values \cup {NULL}]

\* ks_ds_t's capacity is a power of two, so `& (capacity - 1)` is a remainder.
Index(k, cap) == Hash[k] % cap

\* The slot d steps along the probe sequence that starts in slot h.
Probe(h, d, cap) == IF h + d < cap THEN h + d ELSE h + d - cap

\* How many steps slot s is away from slot h.
Distance(h, s, cap) == IF s >= h THEN s - h ELSE s - h + cap

-----------------------------------------------------------------------------
(* ks_ds_find: the loop stops at the first slot that is EMPTY or holds the *)
(* key.  If there is none the C loop never ends (see FindTerminates).      *)

Stops(e, k) == e.state = "EMPTY" \/ (e.state = "OCCUPIED" /\ e.key = k)

StopDistances(tab, cap, k) ==
  {d \in 0 .. cap - 1 : Stops(tab[Probe(Index(k, cap), d, cap)], k)}

StopDistance(tab, cap, k) == Min(StopDistances(tab, cap, k))

TombstonesBefore(tab, cap, k, n) ==
  {d \in 0 .. n - 1 : tab[Probe(Index(k, cap), d, cap)].state = "TOMBSTONE"}

Found(tab, cap, k) ==
  tab[Probe(Index(k, cap), StopDistance(tab, cap, k), cap)].state = "OCCUPIED"

\* The slot ks_ds_find returns: the key's own, else the first tombstone on the
\* way, else the EMPTY slot that ended the search.
FindIndex(tab, cap, k) ==
  LET n == StopDistance(tab, cap, k)
      T == TombstonesBefore(tab, cap, k, n)
  IN  Probe(Index(k, cap),
            IF Found(tab, cap, k) \/ T = {} THEN n ELSE Min(T), cap)

-----------------------------------------------------------------------------
(* Return values are those of KsTable.                                     *)

Ret(code, value, count) == [code |-> code, value |-> value, count |-> count]

Init == /\ entries = [s \in 0 .. InitialCapacity - 1 |-> EmptyEntry]
        /\ capacity = InitialCapacity
        /\ size = 0
        /\ occupied = 0
        /\ pc = "ready"
        /\ old = NoEntries
        /\ i = 0
        /\ pending = NoPut
        /\ live = {}
        /\ res = Ret("VOID", NULL, 0)

-----------------------------------------------------------------------------
(* ks_ds_put.                                                              *)

\* Mutant: the old pair is overwritten and not freed.
ReleaseNothing(s) == live

\* ks_ds_release in ks_ds_put and ks_ds_remove: the slot's objects are freed.
Release(s) == live \ {entries[s].value}

PutReplace(k, v) ==
  /\ pc = "ready"
  /\ Found(entries, capacity, k)
  /\ LET s == FindIndex(entries, capacity, k)
     IN  /\ entries' = [entries EXCEPT ![s] = Entry("OCCUPIED", k, v)]
         /\ live' = Release(s) \cup {v}
  /\ res' = Ret("REPLACED", NULL, 0)
  /\ UNCHANGED <<capacity, size, occupied, locals, pc>>

\* Mutant: a reused tombstone is counted as a newly used slot.
NewlyUsedAlways(s) == 1

NewlyUsed(s) == IF entries[s].state = "EMPTY" THEN 1 ELSE 0

\* The tail of ks_ds_put: store the pair in the slot a fresh search returns.
Store(k, v) ==
  LET s == FindIndex(entries, capacity, k)
  IN  /\ entries' = [entries EXCEPT ![s] = Entry("OCCUPIED", k, v)]
      /\ occupied' = occupied + NewlyUsed(s)
      /\ size' = size + 1
      /\ res' = Ret("INSERTED", NULL, 0)

\* Mutant: the load test looks at the entries and forgets the tombstones.
HasRoomIgnoringTombstones == (size + 1) * 10 <= capacity * 7

\* ks_ds_prepare_insert: one more used slot keeps the table 70% full at most.
HasRoom == (occupied + 1) * 10 <= capacity * 7

MustDouble == (size + 1) * 10 > capacity * 7

\* Mutant: the capacity is halved instead of doubled.
NewCapacityHalved == IF MustDouble THEN capacity \div 2 ELSE capacity

NewCapacity == IF MustDouble THEN 2 * capacity ELSE capacity

PutInsert(k, v) ==
  /\ pc = "ready"
  /\ ~Found(entries, capacity, k)
  /\ HasRoom
  /\ Store(k, v)
  /\ live' = live \cup {v}
  /\ UNCHANGED <<capacity, locals, pc>>

\* ks_ds_rebuild up to its loop: the new array replaces the old one.
PutRebuild(k, v) ==
  /\ pc = "ready"
  /\ ~Found(entries, capacity, k)
  /\ ~HasRoom
  /\ ~(MustDouble /\ capacity > SizeMax \div 2)
  /\ old' = entries
  /\ entries' = [s \in 0 .. NewCapacity - 1 |-> EmptyEntry]
  /\ capacity' = NewCapacity
  /\ occupied' = size
  /\ i' = 0
  /\ pending' = [key |-> k, value |-> v]
  /\ live' = live \cup {v}
  /\ pc' = "rebuild"
  /\ UNCHANGED <<size, res>>

\* ks_ds_put gives up: the table was destroyed, the capacity cannot double, or
\* calloc fails.  The caller keeps the pair.
PutFails(k) ==
  /\ \/ pc = "destroyed"
     \/ pc = "ready" /\ ~Found(entries, capacity, k) /\ ~HasRoom
  /\ res' = Ret("ERROR", NULL, 0)
  /\ UNCHANGED <<table, locals, pc, live>>

\* Where ks_ds_rebuild's loop puts an entry.
ReinsertIndex(k) == FindIndex(entries, capacity, k)

\* One iteration of ks_ds_rebuild's loop.
RebuildStep ==
  /\ pc = "rebuild"
  /\ i \in DOMAIN old
  /\ entries' = IF old[i].state = "OCCUPIED"
                THEN [entries EXCEPT ![ReinsertIndex(old[i].key)] = old[i]]
                ELSE entries
  /\ i' = i + 1
  /\ UNCHANGED <<capacity, size, occupied, pc, old, pending, live, res>>

\* The loop is over: free the old array and finish the put.
RebuildDone ==
  /\ pc = "rebuild"
  /\ i \notin DOMAIN old
  /\ Store(pending.key, pending.value)
  /\ old' = NoEntries
  /\ i' = 0
  /\ pending' = NoPut
  /\ pc' = "ready"
  /\ UNCHANGED <<capacity, live>>

-----------------------------------------------------------------------------
(* The other calls.                                                        *)

Get(k) ==
  /\ pc # "rebuild"
  /\ res' = IF pc = "ready" /\ Found(entries, capacity, k)
            THEN Ret("FOUND", entries[FindIndex(entries, capacity, k)].value, 0)
            ELSE Ret("MISSING", NULL, 0)
  /\ UNCHANGED <<table, locals, pc, live>>

\* Mutant: a search that ends in a tombstone counts as a hit.
IsInTombstone(k) == entries[FindIndex(entries, capacity, k)].state # "EMPTY"

IsIn(k) == Found(entries, capacity, k)

Contains(k) ==
  /\ pc # "rebuild"
  /\ res' = Ret(IF pc = "ready" /\ IsIn(k) THEN "FOUND" ELSE "MISSING", NULL, 0)
  /\ UNCHANGED <<table, locals, pc, live>>

Remove(k) ==
  /\ pc = "ready"
  /\ Found(entries, capacity, k)
  /\ LET s == FindIndex(entries, capacity, k)
     IN  /\ entries' = [entries EXCEPT ![s] = TombstoneEntry]
         /\ live' = Release(s)
  /\ size' = size - 1
  /\ res' = Ret("REMOVED", NULL, 0)
  /\ UNCHANGED <<capacity, occupied, locals, pc>>

RemoveMissing(k) ==
  /\ pc # "rebuild"
  /\ ~(pc = "ready" /\ Found(entries, capacity, k))
  /\ res' = Ret("MISSING", NULL, 0)
  /\ UNCHANGED <<table, locals, pc, live>>

Size ==
  /\ pc # "rebuild"
  /\ res' = Ret("SIZE", NULL, size)
  /\ UNCHANGED <<table, locals, pc, live>>

OccupiedSlots(tab) == {s \in DOMAIN tab : tab[s].state = "OCCUPIED"}
UsedSlots(tab)     == {s \in DOMAIN tab : tab[s].state # "EMPTY"}

Destroy ==
  /\ pc # "rebuild"
  /\ live' = live \ {entries[s].value : s \in OccupiedSlots(entries)}
  /\ entries' = NoEntries
  /\ capacity' = 0
  /\ size' = 0
  /\ occupied' = 0
  /\ pc' = "destroyed"
  /\ res' = Ret("VOID", NULL, 0)
  /\ UNCHANGED locals

-----------------------------------------------------------------------------

Next == \/ \E k \in Keys, v \in Values \ live : \/ PutReplace(k, v)
                                                \/ PutInsert(k, v)
                                                \/ PutRebuild(k, v)
        \/ \E k \in Keys : \/ PutFails(k) \/ Get(k) \/ Contains(k)
                           \/ Remove(k) \/ RemoveMissing(k)
        \/ RebuildStep
        \/ RebuildDone
        \/ Size
        \/ Destroy

Spec == Init /\ [][Next]_vars

-----------------------------------------------------------------------------
(* Properties.                                                             *)

\* Every field has its type; the arrays span exactly their capacity, and the
\* locals of a put are set only while its rebuild runs.
TypeOK ==
  /\ pc \in {"ready", "rebuild", "destroyed"}
  /\ capacity \in Nat /\ size \in Nat /\ occupied \in Nat /\ i \in Nat
  /\ entries \in [0 .. capacity - 1 -> Entries]
  /\ pc = "destroyed" <=> capacity = 0
  /\ DOMAIN old \in SUBSET Nat
  /\ old \in [DOMAIN old -> Entries]
  /\ pc # "rebuild" => old = NoEntries /\ i = 0 /\ pending = NoPut
  /\ pc = "rebuild" => /\ \E n \in 2 .. capacity : DOMAIN old = 0 .. n - 1 /\ i \in 0 .. n
                       /\ pending \in [key : Keys, value : Values]
  /\ live \in SUBSET Values

\* ks_ds_find ends for every key: its loop has no other exit than an EMPTY slot
\* or the key itself, so an EMPTY slot must remain at every search, the
\* searches on the half-built array of ks_ds_rebuild included.
FindTerminates ==
  pc # "destroyed" => \E s \in DOMAIN entries : entries[s].state = "EMPTY"

\* The two counters of ks_ds_t are exact: size counts the entries and occupied
\* the slots that are not EMPTY (while a rebuild runs, the ones there will be),
\* and the used slots stay within 70% of the capacity.
CountsExact ==
  /\ pc # "rebuild" => /\ size = Cardinality(OccupiedSlots(entries))
                       /\ occupied = Cardinality(UsedSlots(entries))
                       /\ occupied * 10 <= capacity * 7
  /\ pc = "rebuild" => /\ size = Cardinality(OccupiedSlots(old))
                       /\ occupied = size

\* No key is stored twice, in the table or in the array being rebuilt.
Distinct(tab) ==
  \A s, t \in OccupiedSlots(tab) : tab[s].key = tab[t].key => s = t

UniqueKeys == Distinct(entries) /\ Distinct(old)

\* Every entry can be reached: no EMPTY slot lies on the probe sequence between
\* the home slot of a key and the slot that holds it.
Chained(tab, cap) ==
  \A s \in OccupiedSlots(tab) :
    LET h == Index(tab[s].key, cap)
    IN  \A d \in 0 .. Distance(h, s, cap) - 1 :
          tab[Probe(h, d, cap)].state # "EMPTY"

Reachable == Chained(entries, capacity)

\* A rebuild loses and invents nothing: at any moment the new array holds
\* exactly the entries of the old array the loop has passed.
RebuildExact ==
  pc = "rebuild" =>
    {entries[s] : s \in UsedSlots(entries)} =
    {old[s] : s \in {t \in OccupiedSlots(old) : t < i}}

\* Ownership: the objects the table owns are exactly the ones its slots (and a
\* put in progress) point to, each from one slot: nothing leaks, nothing is
\* freed twice, no slot keeps a dangling pointer; destroy releases everything.
Owned == LET tab == IF pc = "rebuild" THEN old ELSE entries
         IN  {tab[s].value : s \in OccupiedSlots(tab)}
             \cup (IF pc = "rebuild" THEN {pending.value} ELSE {})
Ownership ==
  /\ live = Owned
  /\ Cardinality(live) = size + (IF pc = "rebuild" THEN 1 ELSE 0)

-----------------------------------------------------------------------------
(* The table implements KsTable.  Until a rebuild has ended and the pair   *)
(* is stored, the abstract table is the one the put found.                 *)

Current == IF pc = "rebuild" THEN old ELSE entries

StoredKeys == {Current[s].key : s \in OccupiedSlots(Current)}
SlotOf(k)  == CHOOSE s \in OccupiedSlots(Current) : Current[s].key = k

CurrentCapacity == IF pc = "rebuild" THEN Cardinality(DOMAIN old) ELSE capacity

TableMap == [k \in StoredKeys |-> Current[SlotOf(k)].value]
TablePos == [k \in StoredKeys |-> SlotOf(k)]

T == INSTANCE KsTable WITH cap <- CurrentCapacity, map <- TableMap, pos <- TablePos

\* Every call has the effect and the result KsTable gives it, whatever was
\* put, removed and rebuilt before.
ImplementsTable == T!Spec

=============================================================================
