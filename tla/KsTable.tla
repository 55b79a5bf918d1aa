------------------------------- MODULE KsTable -------------------------------
(***************************************************************************)
(* What ks_ds (include/ks_ds.h) promises its clients: a finite map from    *)
(* keys to values in which every entry also has a slot number.  The slots  *)
(* are part of the promise because ks_kv_reap walks the slots directly:    *)
(* an entry keeps its slot until a put rehashes the table, and then every  *)
(* entry may move.  How a slot is found, what a tombstone is and when the  *)
(* table is rebuilt are KsDs's business.                                   *)
(***************************************************************************)
EXTENDS Integers, FiniteSets, Functions

CONSTANTS Keys,             \* the keys (NUL-terminated strings in the code)
          Values,           \* the values (void*)
          NULL,             \* the null pointer
          InitialCapacity   \* KS_DS_INITIAL_CAPACITY

VARIABLES cap,   \* number of slots, 0 after ks_ds_destroy
          map,   \* the stored keys, each with its value
          pos,   \* the stored keys, each with its slot
          res    \* what the last call returned

tableVars == <<cap, map, pos, res>>

-----------------------------------------------------------------------------
(* The shape of a return value, and the pure effects of the operations.    *)

Ret(code, value, count) == [code |-> code, value |-> value, count |-> count]

EmptyMap == [k \in {} |-> NULL]

With(f, k, v)  == [x \in DOMAIN f \cup {k} |-> IF x = k THEN v ELSE f[x]]
Without(f, S)  == Restrict(f, DOMAIN f \ S)

FreeSlots(p, n) == (0 .. n - 1) \ Range(p)

\* The slot assignments a put of the absent key k may leave behind: k in a
\* free slot and nothing else moved, or any placement of all of the keys.
InPlace(p, n, k)  == {With(p, k, i) : i \in FreeSlots(p, n)}
Rehashed(p, n, k) == {f \in [DOMAIN p \cup {k} -> 0 .. n - 1] : IsInjective(f)}

\* The table doubles only when the live entries alone would exceed the load.
GrownCapacity(p, n) == IF (Cardinality(DOMAIN p) + 1) * 10 > n * 7 THEN 2 * n ELSE n

-----------------------------------------------------------------------------

Init == /\ cap = InitialCapacity
        /\ map = EmptyMap
        /\ pos = EmptyMap
        /\ res = Ret("VOID", NULL, 0)

Replace(k, v) == /\ k \in DOMAIN map
                 /\ map' = [map EXCEPT ![k] = v]
                 /\ res' = Ret("REPLACED", NULL, 0)
                 /\ UNCHANGED <<cap, pos>>

InsertInPlace(k, v) == /\ k \notin DOMAIN map
                       /\ pos' \in InPlace(pos, cap, k)
                       /\ map' = With(map, k, v)
                       /\ res' = Ret("INSERTED", NULL, 0)
                       /\ UNCHANGED cap

InsertRehash(k, v) == /\ k \notin DOMAIN map
                      /\ cap # 0
                      /\ cap' = GrownCapacity(pos, cap)
                      /\ pos' \in Rehashed(pos, cap', k)
                      /\ map' = With(map, k, v)
                      /\ res' = Ret("INSERTED", NULL, 0)

\* A put that cannot get memory changes nothing and takes nothing over.
PutFails(k) == /\ k \notin DOMAIN map
               /\ res' = Ret("ERROR", NULL, 0)
               /\ UNCHANGED <<cap, map, pos>>

Get(k) == /\ res' = IF k \in DOMAIN map THEN Ret("FOUND", map[k], 0)
                                        ELSE Ret("MISSING", NULL, 0)
          /\ UNCHANGED <<cap, map, pos>>

Contains(k) == /\ res' = Ret(IF k \in DOMAIN map THEN "FOUND" ELSE "MISSING", NULL, 0)
               /\ UNCHANGED <<cap, map, pos>>

Remove(k) == /\ k \in DOMAIN map
             /\ map' = Without(map, {k})
             /\ pos' = Without(pos, {k})
             /\ res' = Ret("REMOVED", NULL, 0)
             /\ UNCHANGED cap

RemoveMissing(k) == /\ k \notin DOMAIN map
                    /\ res' = Ret("MISSING", NULL, 0)
                    /\ UNCHANGED <<cap, map, pos>>

Size == /\ res' = Ret("SIZE", NULL, Cardinality(DOMAIN map))
        /\ UNCHANGED <<cap, map, pos>>

Destroy == /\ cap' = 0
           /\ map' = EmptyMap
           /\ pos' = EmptyMap
           /\ res' = Ret("VOID", NULL, 0)

Next == \/ \E k \in Keys, v \in Values : \/ Replace(k, v)
                                         \/ InsertInPlace(k, v)
                                         \/ InsertRehash(k, v)
        \/ \E k \in Keys : \/ PutFails(k) \/ Get(k) \/ Contains(k)
                           \/ Remove(k) \/ RemoveMissing(k)
        \/ Size
        \/ Destroy

Spec == Init /\ [][Next]_tableVars

=============================================================================
