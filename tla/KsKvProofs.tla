----------------------------- MODULE KsKvProofs -----------------------------
(***************************************************************************)
(* The store of src/ks_kv.c with the deadlines of src/ks_ttl.c implements  *)
(* the map of the keys that have not expired, for any keys, capacities,    *)
(* lifetimes and widths of the clock.                                      *)
(***************************************************************************)
EXTENDS KsKv, FiniteSetTheorems, TLAPS

-----------------------------------------------------------------------------
(* Arithmetic of slots and deadlines.                                      *)

\* A slot counted from another one, around the end of the table.
LEMMA ModSlot ==
  ASSUME NEW c \in Nat \ {0}, NEW x \in 0 .. c - 1
  PROVE  x % c = x /\ (x + c) % c = x
OBVIOUS

LEMMA ModRange ==
  ASSUME NEW c \in Nat \ {0}, NEW x \in Nat
  PROVE  x % c \in 0 .. c - 1
OBVIOUS

\* The check of ks_ttl_deadline is exact: it passes when the sum fits the clock.
LEMMA FitsExact ==
  ASSUME NEW t \in 0 .. UintMax, NEW ttl \in Nat
  PROVE  DeadlineFits(t, ttl) <=> ttl # 0 /\ t + ttl * MsPerSec <= UintMax
<1> DEFINE r == UintMax - t
           q == r \div MsPerSec
<1>1. MsPerSec \in Nat \ {0} /\ UintMax \in Nat /\ r \in Nat
  BY ClockAssumption
<1> HIDE DEF r
<1>2. q \in Nat /\ q * MsPerSec <= r /\ r < (q + 1) * MsPerSec
  BY <1>1
<1> HIDE DEF q
<1>3. ttl <= q => ttl * MsPerSec <= r
  BY <1>1, <1>2
<1>4. ttl > q => ttl * MsPerSec > r
  BY <1>1, <1>2
<1> QED BY <1>1, <1>2, <1>3, <1>4 DEF DeadlineFits, r, q

-----------------------------------------------------------------------------
(* The table.                                                              *)

TableOK(c, m, p) ==
  /\ c \in Nat
  /\ DOMAIN m \subseteq Keys /\ m \in [DOMAIN m -> KvValues]
  /\ p \in [DOMAIN m -> 0 .. c - 1] /\ IsInjective(p)

\* Keys are removed.
LEMMA WithoutIs ==
  ASSUME NEW f, NEW S
  PROVE  /\ DOMAIN T!Without(f, S) = DOMAIN f \ S
         /\ \A x \in DOMAIN f \ S : T!Without(f, S)[x] = f[x]
BY DEF T!Without, T!Restrict

LEMMA WithoutOK ==
  ASSUME NEW c, NEW m, NEW p, TableOK(c, m, p), NEW S
  PROVE  TableOK(c, T!Without(m, S), T!Without(p, S))
BY DEF TableOK, T!Without, T!Restrict, IsInjective

\* A key is stored in a free slot.
LEMMA InPlaceOK ==
  ASSUME NEW c, NEW m, NEW p, TableOK(c, m, p), NEW k \in Keys, NEW v \in KvValues,
         k \notin DOMAIN m, NEW q \in T!InPlace(p, c, k)
  PROVE  TableOK(c, T!With(m, k, v), q)
<1>1. PICK s \in T!FreeSlots(p, c) : q = T!With(p, k, s)
  BY DEF T!InPlace
<1>2. s \in 0 .. c - 1 /\ \A x \in DOMAIN p : p[x] # s
  BY DEF T!FreeSlots, T!Range
<1>3. DOMAIN p = DOMAIN m /\ \A x, y \in DOMAIN m : p[x] = p[y] => x = y
  BY DEF TableOK, IsInjective
<1>4. /\ DOMAIN q = DOMAIN m \cup {k} /\ q[k] = s
      /\ \A x \in DOMAIN m : q[x] = p[x]
      /\ q \in [DOMAIN m \cup {k} -> 0 .. c - 1]
  BY <1>1, <1>2, <1>3 DEF T!With, TableOK
<1>5. IsInjective(q)
  BY <1>2, <1>3, <1>4 DEF IsInjective
<1>6. T!With(m, k, v) \in [DOMAIN m \cup {k} -> KvValues] /\ DOMAIN m \cup {k} \subseteq Keys
  BY DEF T!With, TableOK
<1>7. DOMAIN T!With(m, k, v) = DOMAIN m \cup {k}
  BY DEF T!With
<1> QED BY <1>4, <1>5, <1>6, <1>7 DEF TableOK

\* A key is stored and all of them may have moved.
LEMMA RehashedOK ==
  ASSUME NEW c, NEW m, NEW p, TableOK(c, m, p), NEW k \in Keys, NEW v \in KvValues,
         NEW d \in Nat, NEW q \in T!Rehashed(p, d, k)
  PROVE  TableOK(d, T!With(m, k, v), q)
<1>1. DOMAIN p = DOMAIN m
  BY DEF TableOK
<1>2. q \in [DOMAIN m \cup {k} -> 0 .. d - 1] /\ IsInjective(q)
  BY <1>1 DEF T!Rehashed, T!IsInjective, IsInjective
<1>3. T!With(m, k, v) \in [DOMAIN m \cup {k} -> KvValues] /\ DOMAIN m \cup {k} \subseteq Keys
  BY DEF T!With, TableOK
<1>4. DOMAIN T!With(m, k, v) = DOMAIN m \cup {k}
  BY DEF T!With
<1> QED BY <1>2, <1>3, <1>4 DEF TableOK

\* A value is replaced.
LEMMA ExceptOK ==
  ASSUME NEW c, NEW m, NEW p, TableOK(c, m, p), NEW k, NEW v \in KvValues
  PROVE  TableOK(c, [m EXCEPT ![k] = v], p)
BY DEF TableOK

\* TypeOK by its parts.
LEMMA TypeParts ==
  /\ TypeOK <=> /\ TableOK(cap, map, pos) /\ now \in 0 .. MaxNow
                /\ cursor \in Nat /\ (cap # 0 => cursor <= cap)
  /\ TypeOK' <=> /\ TableOK(cap', map', pos') /\ now' \in 0 .. MaxNow
                 /\ cursor' \in Nat /\ (cap' # 0 => cursor' <= cap')
BY DEF TypeOK, TableOK

\* What a command that removes keys and returns leaves behind.
LEMMA RemoveAndReturnType ==
  ASSUME TypeOK, NEW S, NEW t \in Later, NEW r, RemoveAndReturn(S, t, r)
  PROVE  TypeOK'
<1>1. TableOK(cap', map', pos')
  BY TypeParts, WithoutOK DEF RemoveAndReturn
<1>2. now' \in 0 .. MaxNow /\ cursor' = cursor /\ cap' = cap
  BY ClockAssumption DEF RemoveAndReturn, Later, TypeOK
<1> QED BY <1>1, <1>2, TypeParts

\* The time is an instant of the clock, and a deadline fits its width.
LEMMA TimeType ==
  ASSUME TypeOK, NEW t \in Later
  PROVE  t \in 0 .. MaxNow /\ t \in 0 .. UintMax /\ now \in Later /\ now <= t
BY ClockAssumption DEF Later, TypeOK

LEMMA DeadlineType ==
  ASSUME NEW t \in Nat, NEW ttl \in Nat
  PROVE  Deadline(t, ttl) \in 0 .. UintMax
<1>1. t + ttl * MsPerSec \in Nat /\ UintMax + 1 \in Nat \ {0} /\ UintMax \in Nat
  BY ClockAssumption
<1>2. (t + ttl * MsPerSec) % (UintMax + 1) \in 0 .. (UintMax + 1) - 1
  BY <1>1, ModRange
<1> QED BY <1>1, <1>2 DEF Deadline

\* The cursor after a scan.
LEMMA CursorType ==
  ASSUME TypeOK, cap # 0, NEW b \in Nat \ {0}
  PROVE  Start \in 0 .. cap - 1 /\ CursorAfter(b) \in 1 .. cap
<1>1. cap \in Nat \ {0} /\ cursor \in Nat
  BY DEF TypeOK
<1>2. Start \in 0 .. cap - 1
  BY <1>1 DEF Start
<1>3. Start + b - 1 \in Nat
  BY <1>1, <1>2
<1>4. (Start + b - 1) % cap \in 0 .. cap - 1
  BY <1>1, <1>3, ModRange
<1> QED BY <1>1, <1>2, <1>4 DEF CursorAfter

\* ks_kv_set_ex.
LEMMA SetExType ==
  ASSUME TypeOK, NEW k \in Keys, NEW d \in Data, NEW ttl \in Ttls, SetEx(k, d, ttl)
  PROVE  TypeOK'
<1>1. PICK t \in (IF ttl = 0 THEN {now} ELSE Later) :
        /\ Put(k, [data |-> d, deadline |-> IF ttl = 0 THEN 0 ELSE Deadline(t, ttl)])
        /\ now' = t /\ cursor' = cursor
  BY DEF SetEx
<1>2. now \in Later
  BY ClockAssumption DEF TypeOK, Later
<1>3. t \in 0 .. MaxNow /\ t \in Nat /\ ttl \in Nat
  BY <1>1, <1>2, TimeType, ClockAssumption
<1> DEFINE v == [data |-> d, deadline |-> IF ttl = 0 THEN 0 ELSE Deadline(t, ttl)]
           m == T!Without(map, Lazy(k))
           p == T!Without(pos, Lazy(k))
<1>4. v \in KvValues
  BY <1>3, DeadlineType, ClockAssumption DEF KvValues
<1>5. TableOK(cap, map, pos) /\ TableOK(cap, m, p)
  BY TypeParts, WithoutOK
<1>6. cap \in Nat /\ cursor \in Nat /\ (cap # 0 => cursor <= cap)
  BY DEF TypeOK
<1>7. Put(k, v)
  BY <1>1
<1> HIDE DEF v
<1>8. CASE k \in DOMAIN m /\ map' = [m EXCEPT ![k] = v] /\ UNCHANGED <<cap, pos>>
  <2>1. k \in DOMAIN map \ Lazy(k)
    BY <1>8, WithoutIs
  <2>2. Lazy(k) = {}
    BY <2>1 DEF Lazy
  <2>3. m = map
    BY <2>2, <1>5 DEF T!Without, T!Restrict, TableOK
  <2>4. TableOK(cap', map', pos')
    BY <1>4, <1>5, <1>8, <2>3, ExceptOK
  <2> QED BY <1>1, <1>3, <1>6, <1>8, <2>4, TypeParts
<1>9. CASE /\ k \notin DOMAIN m /\ pos' \in T!InPlace(p, cap, k) /\ UNCHANGED cap
           /\ map' = T!With(m, k, v)
  <2> HIDE DEF m, p
  <2>1. TableOK(cap, map', pos')
    BY <1>4, <1>5, <1>9, InPlaceOK
  <2> QED BY <1>1, <1>3, <1>6, <1>9, <2>1, TypeParts
<1>10. CASE /\ cap # 0 /\ cap' = T!GrownCapacity(p, cap) /\ pos' \in T!Rehashed(p, cap', k)
            /\ map' = T!With(m, k, v)
  <2> HIDE DEF m, p
  <2>1. cap' \in Nat /\ cap <= cap'
    BY <1>6, <1>10 DEF T!GrownCapacity
  <2>2. TableOK(cap', map', pos')
    BY <1>4, <1>5, <1>10, <2>1, RehashedOK
  <2> QED BY <1>1, <1>3, <1>6, <1>10, <2>1, <2>2, TypeParts
<1> QED BY <1>7, <1>8, <1>9, <1>10 DEF Put


\* Every command and the reaper keep the types.
LEMMA NextType ==
  ASSUME TypeOK, [Next]_vars
  PROVE  TypeOK'
<1>1. /\ cap \in Nat /\ cursor \in Nat /\ (cap # 0 => cursor <= cap)
      /\ now \in 0 .. MaxNow /\ now \in Later
  BY ClockAssumption DEF TypeOK, Later
<1>2. CASE Tick
  <2>1. now' \in 0 .. MaxNow
    BY <1>1, <1>2, ClockAssumption DEF Tick
  <2> QED BY <1>2, <2>1, TypeParts DEF Tick
<1>3. CASE ReapNext
  <2>1. PICK b \in ReapBudgets : Reap(b)
    BY <1>3 DEF ReapNext
  <2>2. b \in Nat \ {0}
    BY BudgetAssumption
  <2>3. TableOK(cap', map', pos')
    BY <2>1, TypeParts, WithoutOK DEF Reap
  <2>4. cursor' \in 1 .. cap
    BY <2>1, <2>2, CursorType DEF Reap
  <2>5. cap' = cap /\ now' = now
    BY <2>1 DEF Reap
  <2> QED BY <1>1, <2>3, <2>4, <2>5, TypeParts
<1>4. CASE Size
  <2>1. CASE cap = 0 /\ UNCHANGED <<cap, map, pos, cursor, now>>
    BY <2>1, TypeParts
  <2>2. CASE /\ cap # 0 /\ map' = T!Without(map, Reaped(cap))
             /\ pos' = T!Without(pos, Reaped(cap)) /\ cursor' = CursorAfter(cap)
             /\ UNCHANGED <<cap, now>>
    <3>1. TableOK(cap', map', pos')
      BY <2>2, TypeParts, WithoutOK
    <3>2. cursor' \in 1 .. cap
      BY <1>1, <2>2, CursorType
    <3> QED BY <1>1, <2>2, <3>1, <3>2, TypeParts
  <2> QED BY <1>4, <2>1, <2>2 DEF Size
<1>5. CASE Destroy
  <2>1. TableOK(cap', map', pos')
    BY <1>5 DEF Destroy, TableOK, T!EmptyMap, IsInjective
  <2> QED BY <1>1, <1>5, <2>1, TypeParts DEF Destroy
<1>6. ASSUME NEW k \in Keys, Get(k) \/ Exists(k) \/ Delete(k) \/ ExpireMissing(k) \/ SetFails(k)
      PROVE  TypeOK'
  BY <1>1, <1>6, RemoveAndReturnType DEF Get, Exists, Delete, ExpireMissing, SetFails
<1>7. ASSUME NEW k \in Keys, Ttl(k)
      PROVE  TypeOK'
  BY <1>1, <1>7, RemoveAndReturnType DEF Ttl
<1>8. ASSUME NEW k \in Keys, NEW ttl \in Ttls, ExpireLive(k, ttl)
      PROVE  TypeOK'
  <2>1. CASE RemoveAndReturn({k}, now, Ret("UPDATED", NULL, 0))
    BY <1>1, <2>1, RemoveAndReturnType
  <2>2. ASSUME NEW t \in Later, now' = t, UNCHANGED <<cap, pos, cursor>>,
               map' = [map EXCEPT ![k].deadline = Deadline(t, ttl)] \/ map' = map
        PROVE  TypeOK'
    <3>1. now' \in 0 .. MaxNow /\ t \in Nat /\ ttl \in Nat
      BY <2>2, TimeType, ClockAssumption
    <3>2. Deadline(t, ttl) \in 0 .. UintMax
      BY <3>1, DeadlineType
    <3>3. IsLive(k)
      BY <1>8 DEF ExpireLive
    <3>4. [map[k] EXCEPT !.deadline = Deadline(t, ttl)] \in KvValues
      BY <3>2, <3>3 DEF IsLive, TypeOK, KvValues
    <3>5. CASE map' = [map EXCEPT ![k].deadline = Deadline(t, ttl)]
      <4>1. map' = [map EXCEPT ![k] = [map[k] EXCEPT !.deadline = Deadline(t, ttl)]]
        BY <3>5
      <4>2. TableOK(cap, map', pos)
        BY <3>4, <4>1, TypeParts, ExceptOK
      <4> QED BY <1>1, <2>2, <3>1, <4>2, TypeParts
    <3>6. CASE map' = map
      BY <1>1, <2>2, <3>1, <3>6, TypeParts
    <3> QED BY <2>2, <3>5, <3>6
  <2> QED BY <1>8, <2>1, <2>2 DEF ExpireLive
<1>9. ASSUME NEW k \in Keys, NEW d \in Data, NEW ttl \in Ttls, SetEx(k, d, ttl)
      PROVE  TypeOK'
  BY <1>9, SetExType
<1>10. CASE UNCHANGED vars
  BY <1>10, TypeParts DEF vars
<1> QED BY <1>2, <1>3, <1>4, <1>5, <1>6, <1>7, <1>8, <1>9, <1>10 DEF Next

\* The table stays a table, with every key in a slot of its own and the reaper's
\* cursor within it, whatever is stored, expires and is rehashed.
THEOREM TypeCorrect == Spec => []TypeOK
<1>1. Init => TypeOK
  <2> SUFFICES ASSUME Init PROVE TypeOK
    OBVIOUS
  <2>1. TableOK(cap, map, pos)
    BY TableAssumption DEF Init, TableOK, T!EmptyMap, IsInjective
  <2>2. now \in 0 .. MaxNow /\ cursor \in Nat /\ (cap # 0 => cursor <= cap)
    BY ClockAssumption, TableAssumption DEF Init
  <2> QED BY <2>1, <2>2, TypeParts
<1>2. TypeOK /\ [Next]_vars => TypeOK'
  BY NextType
<1> QED BY <1>1, <1>2, PTL DEF Spec


-----------------------------------------------------------------------------
(* The refinement: the keys that have not expired are the map of KsKvAbs.  *)

KvMap(m) == m \in [DOMAIN m -> KvValues]

\* The value v is there at time t.
There(v, t) == v.deadline = 0 \/ v.deadline > t

\* What A!AliveAt keeps.
LEMMA AliveIs ==
  ASSUME NEW m, NEW t
  PROVE  /\ DOMAIN A!AliveAt(m, t) = {k \in DOMAIN m : There(m[k], t)}
         /\ \A k \in DOMAIN A!AliveAt(m, t) : A!AliveAt(m, t)[k] = m[k]
         /\ A!AliveAt(m, t) = [k \in DOMAIN A!AliveAt(m, t) |-> A!AliveAt(m, t)[k]]
BY DEF A!AliveAt, A!Restrict, There

\* Two maps look alike at time t.
LookAlike(m, n, t) ==
  /\ \A k : (k \in DOMAIN m /\ There(m[k], t)) <=> (k \in DOMAIN n /\ There(n[k], t))
  /\ \A k \in DOMAIN m : There(m[k], t) => m[k] = n[k]

LEMMA AliveSame ==
  ASSUME NEW m, NEW n, NEW t, LookAlike(m, n, t)
  PROVE  A!AliveAt(m, t) = A!AliveAt(n, t)
<1> DEFINE D == {k \in DOMAIN m : There(m[k], t)}
           E == {k \in DOMAIN n : There(n[k], t)}
<1>1. D = E
  BY DEF LookAlike
<1>2. \A k \in D : m[k] = n[k]
  BY DEF LookAlike
<1>3. A!AliveAt(m, t) = [k \in D |-> m[k]] /\ A!AliveAt(n, t) = [k \in E |-> n[k]]
  BY DEF A!AliveAt, A!Restrict, There
<1> HIDE DEF D, E
<1> QED BY <1>1, <1>2, <1>3

\* What is there later was there before.
LEMMA ThereLater ==
  ASSUME NEW v \in KvValues, NEW t \in Nat, NEW u \in Nat, t <= u, There(v, u)
  PROVE  There(v, t)
BY ClockAssumption DEF KvValues, There

LEMMA AliveTwice ==
  ASSUME NEW m, KvMap(m), NEW t \in Nat, NEW u \in Nat, t <= u
  PROVE  A!AliveAt(A!AliveAt(m, t), u) = A!AliveAt(m, u)
<1> DEFINE n == A!AliveAt(m, t)
<1>1. /\ DOMAIN n = {k \in DOMAIN m : There(m[k], t)} /\ \A k \in DOMAIN n : n[k] = m[k]
  BY AliveIs
<1>2. \A k \in DOMAIN m : There(m[k], u) => There(m[k], t)
  BY ThereLater DEF KvMap
<1> HIDE DEF n
<1>3. \A k : (k \in DOMAIN n /\ There(n[k], u)) <=> (k \in DOMAIN m /\ There(m[k], u))
  BY <1>1, <1>2
<1>4. A!AliveAt(n, u) = A!AliveAt(m, u)
  BY <1>1, <1>3, AliveSame DEF LookAlike
<1> QED BY <1>4 DEF n

\* Removing what has expired shows nowhere.
LEMMA AliveWithout ==
  ASSUME NEW m, NEW S, NEW u, \A k \in S \cap DOMAIN m : ~There(m[k], u)
  PROVE  A!AliveAt(T!Without(m, S), u) = A!AliveAt(m, u)
<1> DEFINE n == T!Without(m, S)
<1>1. DOMAIN n = DOMAIN m \ S /\ \A k \in DOMAIN n : n[k] = m[k]
  BY DEF T!Without, T!Restrict
<1> HIDE DEF n
<1>2. \A k : (k \in DOMAIN n /\ There(n[k], u)) <=> (k \in DOMAIN m /\ There(m[k], u))
  BY <1>1
<1>3. A!AliveAt(n, u) = A!AliveAt(m, u)
  BY <1>1, <1>2, AliveSame DEF LookAlike
<1> QED BY <1>3 DEF n

\* Removing a key removes it from what is there.
LEMMA AliveDrop ==
  ASSUME NEW m, KvMap(m), NEW k, NEW t \in Nat
  PROVE  A!AliveAt(T!Without(m, {k}), t) = A!AliveAt(A!Drop(A!AliveAt(m, t), k), t)
<1> DEFINE n == T!Without(m, {k})
           a == A!AliveAt(m, t)
           d == A!Drop(a, k)
<1>1. DOMAIN n = DOMAIN m \ {k} /\ \A x \in DOMAIN n : n[x] = m[x]
  BY DEF T!Without, T!Restrict
<1>2. DOMAIN a = {x \in DOMAIN m : There(m[x], t)} /\ \A x \in DOMAIN a : a[x] = m[x]
  BY AliveIs
<1>3. DOMAIN d = DOMAIN a \ {k} /\ \A x \in DOMAIN d : d[x] = a[x]
  BY DEF A!Drop, A!Restrict
<1> HIDE DEF n, a, d
<1>4. \A x : (x \in DOMAIN n /\ There(n[x], t)) <=> (x \in DOMAIN d /\ There(d[x], t))
  BY <1>1, <1>2, <1>3
<1>5. \A x \in DOMAIN n : There(n[x], t) => n[x] = d[x]
  BY <1>1, <1>2, <1>3
<1>6. A!AliveAt(n, t) = A!AliveAt(d, t)
  BY <1>4, <1>5, AliveSame DEF LookAlike
<1> QED BY <1>6 DEF n, a, d

\* n is m with the value of data x and deadline dl for k.
Stores(m, n, k, x, dl) ==
  /\ k \in DOMAIN n /\ n[k] = [data |-> x, deadline |-> dl]
  /\ \A y : y # k => (y \in DOMAIN n <=> y \in DOMAIN m)
  /\ \A y \in DOMAIN m : y # k => n[y] = m[y]

LEMMA AlivePut ==
  ASSUME NEW m, KvMap(m), NEW n, NEW k, NEW x, NEW dl, Stores(m, n, k, x, dl),
         NEW t \in Nat, NEW u \in Nat, t <= u
  PROVE  A!AliveAt(n, u) = A!AliveAt(A!Put(A!AliveAt(m, t), k, x, dl), u)
<1> DEFINE a == A!AliveAt(m, t)
           p == A!Put(a, k, x, dl)
<1>1. DOMAIN a = {y \in DOMAIN m : There(m[y], t)} /\ \A y \in DOMAIN a : a[y] = m[y]
  BY AliveIs
<1>2. /\ DOMAIN p = DOMAIN a \cup {k} /\ p[k] = [data |-> x, deadline |-> dl]
      /\ \A y \in DOMAIN a : y # k => p[y] = a[y]
  BY DEF A!Put
<1>3. \A y \in DOMAIN m : There(m[y], u) => There(m[y], t)
  BY ThereLater DEF KvMap
<1> HIDE DEF a, p
<1>4. \A y : (y \in DOMAIN n /\ There(n[y], u)) <=> (y \in DOMAIN p /\ There(p[y], u))
  BY <1>1, <1>2, <1>3 DEF Stores
<1>5. \A y \in DOMAIN n : There(n[y], u) => n[y] = p[y]
  BY <1>1, <1>2, <1>3 DEF Stores
<1>6. A!AliveAt(n, u) = A!AliveAt(p, u)
  BY <1>4, <1>5, AliveSame DEF LookAlike
<1> QED BY <1>6 DEF a, p

\* A deadline has passed, or the key is there.
LEMMA ExpiredIs ==
  ASSUME TypeOK, NEW k \in DOMAIN map, NEW t \in Nat
  PROVE  Expired(k, t) <=> ~There(map[k], t)
BY ClockAssumption DEF TypeOK, KvValues, Expired, There

\* The view is what is there now, before and after a step.
LEMMA ViewIs ==
  /\ TypeOK => View = A!AliveAt(map, now)
  /\ TypeOK' => View' = A!AliveAt(map', now')
<1>1. ASSUME NEW m, KvMap(m), NEW t \in Nat
      PROVE  [k \in {x \in DOMAIN m : ~(m[x].deadline # 0 /\ m[x].deadline <= t)} |-> m[k]]
               = A!AliveAt(m, t)
  <2>1. \A x \in DOMAIN m : m[x].deadline \in Nat
    BY <1>1, ClockAssumption DEF KvMap, KvValues
  <2>2. \A x \in DOMAIN m : ~(m[x].deadline # 0 /\ m[x].deadline <= t) <=>
                            (m[x].deadline = 0 \/ m[x].deadline > t)
    BY <2>1
  <2> QED BY <2>2 DEF A!AliveAt, A!Restrict
<1>2. /\ TypeOK => KvMap(map) /\ now \in Nat
      /\ TypeOK' => KvMap(map') /\ now' \in Nat
  BY DEF TypeOK, KvMap
<1>3. /\ View = [k \in {x \in DOMAIN map : ~(map[x].deadline # 0 /\ map[x].deadline <= now)} |-> map[k]]
      /\ View' = [k \in {x \in DOMAIN map' : ~(map'[x].deadline # 0 /\ map'[x].deadline <= now')} |-> map'[k]]
  BY DEF View, Expired
<1> QED BY <1>1, <1>2, <1>3


-----------------------------------------------------------------------------
(* Every step of the store is one of the map's, or changes nothing in it.  *)

\* Cardinality, as the instance of KsKvAbs has it.
LEMMA SameCardinality ==
  \A S : A!Cardinality(S) = Cardinality(S)
BY DEF A!Cardinality, Cardinality

\* The keys a caller sees are the live ones.
LEMMA LiveIs ==
  ASSUME NEW k
  PROVE  (k \in DOMAIN View <=> IsLive(k)) /\ (IsLive(k) => View[k] = map[k])
BY DEF View, IsLive

\* What find_live removes was not there, and is not there later.
LEMMA LazyGone ==
  ASSUME TypeOK, NEW k, NEW t \in Later
  PROVE  \A x \in Lazy(k) \cap DOMAIN map : ~There(map[x], t)
<1> SUFFICES ASSUME NEW x \in Lazy(k) \cap DOMAIN map PROVE ~There(map[x], t)
  OBVIOUS
<1>1. Expired(x, now)
  BY DEF Lazy
<1>2. now \in Nat /\ t \in Nat /\ now <= t
  BY TimeType DEF TypeOK
<1>3. ~There(map[x], now)
  BY <1>1, <1>2, ExpiredIs
<1>4. map[x] \in KvValues
  BY DEF TypeOK
<1> QED BY <1>2, <1>3, <1>4, ThereLater

\* What a caller sees later of what it sees now.
LEMMA ViewLater ==
  ASSUME TypeOK, NEW t \in Later
  PROVE  A!AliveAt(View, t) = A!AliveAt(map, t)
<1>1. KvMap(map) /\ now \in Nat /\ t \in Nat /\ now <= t
  BY TimeType DEF TypeOK, KvMap
<1>2. View = A!AliveAt(map, now)
  BY ViewIs
<1> QED BY <1>1, <1>2, AliveTwice

\* A call that removes only what is not there at its end changes nothing a
\* caller sees.
LEMMA RemovesNothing ==
  ASSUME TypeOK, TypeOK', NEW S, NEW t \in Later, NEW r, RemoveAndReturn(S, t, r),
         \A x \in S \cap DOMAIN map : ~There(map[x], t)
  PROVE  A!Ends(View, r)
<1>1. now' = t /\ res' = r /\ map' = T!Without(map, S)
  BY DEF RemoveAndReturn
<1>2. A!AliveAt(map', t) = A!AliveAt(map, t)
  BY <1>1, AliveWithout
<1>3. View' = A!AliveAt(map', now')
  BY ViewIs
<1>4. View' = A!AliveAt(View, now')
  BY <1>1, <1>2, <1>3, ViewLater
<1>5. now' >= now
  BY <1>1, TimeType DEF TypeOK
<1> QED BY <1>1, <1>4, <1>5 DEF A!Ends

\* A call that removes the key k at once.
LEMMA RemovesOne ==
  ASSUME TypeOK, TypeOK', NEW k, NEW r, RemoveAndReturn({k}, now, r)
  PROVE  A!Ends(A!Drop(View, k), r)
<1>1. now' = now /\ res' = r /\ map' = T!Without(map, {k}) /\ now \in Nat /\ KvMap(map)
  BY DEF RemoveAndReturn, TypeOK, KvMap
<1>2. View = A!AliveAt(map, now) /\ View' = A!AliveAt(map', now')
  BY ViewIs
<1>3. A!AliveAt(T!Without(map, {k}), now) = A!AliveAt(A!Drop(A!AliveAt(map, now), k), now)
  BY <1>1, AliveDrop
<1>4. View' = A!AliveAt(A!Drop(View, k), now')
  BY <1>1, <1>2, <1>3
<1> QED BY <1>1, <1>4 DEF A!Ends

\* A call that stores data x with the deadline dl under k.
LEMMA StoresOne ==
  ASSUME TypeOK, TypeOK', NEW k, NEW x, NEW dl, NEW t \in Later, NEW r,
         Stores(map, map', k, x, dl), now' = t, res' = r
  PROVE  A!Ends(A!Put(View, k, x, dl), r)
<1>1. KvMap(map) /\ now \in Nat /\ t \in Nat /\ now <= t
  BY TimeType DEF TypeOK, KvMap
<1>2. View = A!AliveAt(map, now) /\ View' = A!AliveAt(map', now')
  BY ViewIs
<1>3. A!AliveAt(map', t) = A!AliveAt(A!Put(A!AliveAt(map, now), k, x, dl), t)
  BY <1>1, AlivePut
<1>4. View' = A!AliveAt(A!Put(View, k, x, dl), now')
  BY <1>2, <1>3
<1> QED BY <1>1, <1>4 DEF A!Ends

\* A deadline that fits is the sum that was meant.
LEMMA DeadlineExact ==
  ASSUME TypeOK, NEW t \in Later, NEW ttl \in Ttls
  PROVE  /\ DeadlineFits(t, ttl) <=> A!HasDeadline(t, ttl)
         /\ DeadlineFits(t, ttl) => Deadline(t, ttl) = t + ttl * MsPerSec
<1>1. t \in 0 .. UintMax /\ ttl \in Nat /\ UintMax \in Nat /\ MsPerSec \in Nat
  BY TimeType, ClockAssumption
<1>2. DeadlineFits(t, ttl) <=> ttl # 0 /\ t + ttl * MsPerSec <= UintMax
  BY <1>1, FitsExact
<1> DEFINE s == t + ttl * MsPerSec
           c == UintMax + 1
<1>3. s \in Nat /\ c \in Nat \ {0}
  BY <1>1
<1>4. Deadline(t, ttl) = s % c /\ (s <= UintMax => s \in 0 .. c - 1)
  BY <1>1, <1>3 DEF Deadline
<1>5. DeadlineFits(t, ttl) => s <= UintMax
  BY <1>2
<1>6. A!HasDeadline(t, ttl) <=> ttl # 0 /\ s <= UintMax
  BY DEF A!HasDeadline
<1>7. s \in 0 .. c - 1 => s % c = s
  BY <1>3, ModSlot
<1> QED BY <1>2, <1>4, <1>5, <1>6, <1>7


\* ks_kv_size scans every slot.
LEMMA ScansAll ==
  ASSUME TypeOK, cap # 0
  PROVE  \A s \in 0 .. cap - 1 : s \in Scanned(cap)
<1> SUFFICES ASSUME NEW s \in 0 .. cap - 1 PROVE s \in Scanned(cap)
  OBVIOUS
<1>1. cap \in Nat \ {0} /\ Start \in 0 .. cap - 1
  BY CursorType DEF TypeOK
<1>2. s % cap = s /\ (s + cap) % cap = s
  BY <1>1, ModSlot
<1>3. CASE s >= Start
  <2>1. s - Start \in 0 .. cap - 1 /\ Start + (s - Start) = s
    BY <1>1, <1>3
  <2> QED BY <1>2, <2>1 DEF Scanned
<1>4. CASE s < Start
  <2>1. s + cap - Start \in 0 .. cap - 1 /\ Start + (s + cap - Start) = s + cap
    BY <1>1, <1>4
  <2> QED BY <1>2, <2>1 DEF Scanned
<1> QED BY <1>1, <1>3, <1>4

\* ks_kv_size counts the keys that are there.
LEMMA SizeStep ==
  ASSUME TypeOK, TypeOK', Size
  PROVE  A!Size
<1>1. now \in Nat /\ now \in Later /\ cap \in Nat
  BY ClockAssumption DEF TypeOK, Later
<1>2. now' = now
  BY DEF Size
<1>3. CASE /\ cap # 0 /\ map' = T!Without(map, Reaped(cap))
           /\ res' = Ret("SIZE", NULL, Cardinality(DOMAIN map'))
  <2>1. \A x \in Reaped(cap) \cap DOMAIN map : ~There(map[x], now)
    BY <1>1, ExpiredIs DEF Reaped
  <2>2. A!AliveAt(map', now) = A!AliveAt(map, now)
    BY <1>3, <2>1, AliveWithout
  <2>3. View' = A!AliveAt(View, now')
    BY <1>1, <1>2, <2>2, ViewIs, ViewLater
  <2>4. \A x \in DOMAIN map : pos[x] \in Scanned(cap)
    BY <1>3, ScansAll DEF TypeOK
  <2>5. Reaped(cap) = {x \in DOMAIN map : Expired(x, now)}
    BY <2>4 DEF Reaped
  <2>6. DOMAIN map' = {x \in DOMAIN map : ~Expired(x, now)}
    BY <1>3, <2>5 DEF T!Without, T!Restrict
  <2>7. DOMAIN map' = DOMAIN View
    BY <2>6 DEF View
  <2>8. res' = A!Ret("SIZE", NULL, A!Cardinality(DOMAIN View))
    BY <1>3, <2>7, SameCardinality DEF Ret, A!Ret
  <2> QED BY <1>1, <1>2, <2>3, <2>8 DEF A!Size, A!Ends
<1>4. CASE cap = 0 /\ res' = Ret("SIZE", NULL, 0) /\ map' = map
  <2>1. DOMAIN map = {}
    <3>1. \A x \in DOMAIN map : pos[x] \in 0 .. cap - 1
      BY DEF TypeOK
    <3>2. ASSUME NEW x \in DOMAIN map PROVE FALSE
      <4>1. pos[x] \in 0 .. 0 - 1
        BY <1>4, <3>1
      <4> QED BY <4>1
    <3> QED BY <3>2
  <2>2. DOMAIN View = {}
    BY <2>1 DEF View
  <2>3. Cardinality(DOMAIN View) = 0
    BY <2>2, FS_EmptySet
  <2>4. res' = A!Ret("SIZE", NULL, A!Cardinality(DOMAIN View))
    BY <1>4, <2>3, SameCardinality DEF Ret, A!Ret
  <2>5. View' = A!AliveAt(View, now')
    BY <1>1, <1>2, <1>4, ViewIs, ViewLater
  <2> QED BY <1>1, <1>2, <2>4, <2>5 DEF A!Size, A!Ends
<1> QED BY <1>3, <1>4 DEF Size

\* ks_kv_reap shows nowhere.
LEMMA ReapStep ==
  ASSUME TypeOK, TypeOK', ReapNext
  PROVE  UNCHANGED A!absVars
<1>1. PICK b \in ReapBudgets : Reap(b)
  BY DEF ReapNext
<1>2. map' = T!Without(map, Reaped(b)) /\ now' = now /\ res' = res /\ now \in Nat
  BY <1>1 DEF Reap, TypeOK
<1>3. \A x \in Reaped(b) \cap DOMAIN map : ~There(map[x], now)
  BY <1>2, ExpiredIs DEF Reaped
<1>4. A!AliveAt(map', now) = A!AliveAt(map, now)
  BY <1>2, <1>3, AliveWithout
<1>5. View' = View
  BY <1>2, <1>4, ViewIs
<1> QED BY <1>2, <1>5 DEF A!absVars

\* ks_kv_ttl judges the key at one time, the last it read.
LEMMA TtlStep ==
  ASSUME TypeOK, TypeOK', NEW k \in Keys, Ttl(k)
  PROVE  A!Ttl(k)
<1>1. now \in Nat /\ now \in Later
  BY ClockAssumption DEF TypeOK, Later
<1> DEFINE a(t) == A!AliveAt(View, t)
<1>2. ASSUME NEW t \in Later
      PROVE  /\ k \in DOMAIN a(t) <=> k \in DOMAIN map /\ There(map[k], t)
             /\ k \in DOMAIN a(t) => a(t)[k] = map[k]
  <2>1. a(t) = A!AliveAt(map, t)
    BY ViewLater
  <2> QED BY <2>1 DEF A!AliveAt, A!Restrict, There
<1>3. IsLive(k) <=> k \in DOMAIN map /\ There(map[k], now)
  BY <1>1, ExpiredIs DEF IsLive
<1>4. CASE ~IsLive(k) /\ RemoveAndReturn(Lazy(k), now, Ret("TTL", NULL, -2))
  <2>1. A!Ends(View, Ret("TTL", NULL, -2))
    BY <1>1, <1>4, LazyGone, RemovesNothing
  <2>2. now' = now /\ k \notin DOMAIN a(now)
    BY <1>1, <1>2, <1>3, <1>4 DEF RemoveAndReturn
  <2> QED BY <2>1, <2>2 DEF A!Ttl, A!Ret, Ret
<1>5. CASE IsLive(k) /\ map[k].deadline = 0 /\ RemoveAndReturn({}, now, Ret("TTL", NULL, -1))
  <2>1. A!Ends(View, Ret("TTL", NULL, -1))
    BY <1>1, <1>5, RemovesNothing
  <2>2. now' = now /\ k \in DOMAIN a(now) /\ a(now)[k].deadline = 0
    BY <1>1, <1>2, <1>3, <1>5 DEF RemoveAndReturn
  <2> QED BY <2>1, <2>2 DEF A!Ttl, A!Ret, Ret
<1>6. ASSUME NEW t \in Later, IsLive(k), map[k].deadline # 0, Expired(k, t),
             RemoveAndReturn({k}, t, Ret("TTL", NULL, -2))
      PROVE  A!Ttl(k)
  <2>1. k \in DOMAIN map /\ t \in Nat
    BY <1>6, TimeType DEF IsLive
  <2>2. ~There(map[k], t)
    BY <1>6, <2>1, ExpiredIs
  <2>3. A!Ends(View, Ret("TTL", NULL, -2))
    BY <1>6, <2>2, RemovesNothing
  <2>4. now' = t /\ k \notin DOMAIN a(t)
    BY <1>2, <1>6, <2>2 DEF RemoveAndReturn
  <2> QED BY <2>3, <2>4 DEF A!Ttl, A!Ret, Ret
<1>7. ASSUME NEW t \in Later, IsLive(k), map[k].deadline # 0, ~Expired(k, t),
             RemoveAndReturn({}, t, Ret("TTL", NULL, (map[k].deadline - t) \div MsPerSec))
      PROVE  A!Ttl(k)
  <2>1. k \in DOMAIN map /\ t \in Nat
    BY <1>7, TimeType DEF IsLive
  <2>2. There(map[k], t)
    BY <1>7, <2>1, ExpiredIs
  <2>3. A!Ends(View, Ret("TTL", NULL, (map[k].deadline - t) \div MsPerSec))
    BY <1>7, RemovesNothing
  <2>4. now' = t /\ k \in DOMAIN a(t) /\ a(t)[k] = map[k]
    BY <1>2, <1>7, <2>1, <2>2 DEF RemoveAndReturn
  <2> QED BY <1>7, <2>3, <2>4 DEF A!Ttl, A!Ret, Ret
<1> QED BY <1>4, <1>5, <1>6, <1>7 DEF Ttl, GoneSince

\* ks_kv_set_ex.
LEMMA SetExStep ==
  ASSUME TypeOK, TypeOK', NEW k \in Keys, NEW d \in Data, NEW ttl \in Ttls, SetEx(k, d, ttl)
  PROVE  A!Set(k, d, ttl)
<1>1. PICK t \in (IF ttl = 0 THEN {now} ELSE Later) :
        /\ ttl = 0 \/ DeadlineFits(t, ttl)
        /\ Put(k, [data |-> d, deadline |-> IF ttl = 0 THEN 0 ELSE Deadline(t, ttl)])
        /\ now' = t
  BY DEF SetEx
<1>2. t \in Later
  BY <1>1, ClockAssumption DEF TypeOK, Later
<1> DEFINE dl == IF ttl = 0 THEN 0 ELSE now' + ttl * MsPerSec
           v  == [data |-> d, deadline |-> dl]
           m  == T!Without(map, Lazy(k))
           r  == A!Ret(IF k \in DOMAIN View THEN "REPLACED" ELSE "INSERTED", NULL, 0)
<1>3. (ttl = 0 \/ A!HasDeadline(now', ttl)) /\ Put(k, v)
  BY <1>1, <1>2, DeadlineExact
<1>4. DOMAIN m = DOMAIN map \ Lazy(k) /\ \A x \in DOMAIN m : m[x] = map[x]
  BY DEF T!Without, T!Restrict
<1>5. Lazy(k) \subseteq {k} /\ (k \in DOMAIN m <=> IsLive(k))
  BY <1>4 DEF Lazy, IsLive
<1>6. k \in DOMAIN m <=> k \in DOMAIN View
  BY <1>5, LiveIs
<1>7. Stores(map, map', k, d, dl) /\ res' = r
  <2>1. CASE k \in DOMAIN m /\ map' = [m EXCEPT ![k] = v] /\ res' = Ret("REPLACED", NULL, 0)
    <3>1. m = [x \in DOMAIN m |-> m[x]]
      BY DEF T!Without, T!Restrict
    <3> HIDE DEF m, v
    <3>2. DOMAIN map' = DOMAIN m /\ map'[k] = v /\ \A x \in DOMAIN m : x # k => map'[x] = m[x]
      BY <2>1, <3>1
    <3>3. Stores(map, map', k, d, dl)
      BY <1>4, <1>5, <2>1, <3>2 DEF Stores, v
    <3>4. res' = r
      BY <1>6, <2>1 DEF Ret, A!Ret
    <3> QED BY <3>3, <3>4
  <2>2. CASE k \notin DOMAIN m /\ map' = T!With(m, k, v) /\ res' = Ret("INSERTED", NULL, 0)
    <3> HIDE DEF m, v
    <3>1. /\ DOMAIN map' = DOMAIN m \cup {k} /\ map'[k] = v
          /\ \A x \in DOMAIN m : x # k => map'[x] = m[x]
      BY <2>2 DEF T!With
    <3>2. Stores(map, map', k, d, dl)
      BY <1>4, <1>5, <3>1 DEF Stores, v
    <3>3. res' = r
      BY <1>6, <2>2 DEF Ret, A!Ret
    <3> QED BY <3>2, <3>3
  <2> QED BY <1>3, <2>1, <2>2 DEF Put
<1> HIDE DEF dl, r
<1>8. A!Ends(A!Put(View, k, d, dl), r)
  BY <1>1, <1>2, <1>7, StoresOne
<1> QED BY <1>3, <1>8 DEF A!Set, dl, r

\* ks_kv_expire of a live key.
LEMMA ExpireStep ==
  ASSUME TypeOK, TypeOK', NEW k \in Keys, NEW ttl \in Ttls, ExpireLive(k, ttl)
  PROVE  A!Expire(k, ttl)
<1>1. IsLive(k) /\ k \in DOMAIN View /\ View[k] = map[k] /\ k \in DOMAIN map
  BY LiveIs DEF ExpireLive, IsLive
<1>2. CASE ttl = 0 /\ RemoveAndReturn({k}, now, Ret("UPDATED", NULL, 0))
  <2>1. A!Ends(A!Drop(View, k), Ret("UPDATED", NULL, 0))
    BY <1>2, RemovesOne
  <2> QED BY <1>1, <1>2, <2>1 DEF A!Expire, A!Ret, Ret
<1>3. ASSUME NEW t \in Later, DeadlineFits(t, ttl), now' = t,
             map' = [map EXCEPT ![k].deadline = Deadline(t, ttl)],
             res' = Ret("UPDATED", NULL, 0)
      PROVE  A!Expire(k, ttl)
  <2> DEFINE dl == now' + ttl * MsPerSec
             x  == map[k].data
  <2>1. A!HasDeadline(now', ttl) /\ Deadline(t, ttl) = dl
    BY <1>3, DeadlineExact
  <2>2. [map[k] EXCEPT !.deadline = Deadline(t, ttl)] = [data |-> x, deadline |-> dl]
    BY <1>1, <2>1 DEF TypeOK, KvValues
  <2> HIDE DEF dl, x
  <2>3. Stores(map, map', k, x, dl)
    BY <1>1, <1>3, <2>2 DEF Stores, TypeOK
  <2>4. A!Ends(A!Put(View, k, x, dl), Ret("UPDATED", NULL, 0))
    BY <1>3, <2>3, StoresOne
  <2> QED BY <1>1, <2>1, <2>4 DEF A!Expire, A!Ret, Ret, dl, x
<1>4. ASSUME NEW t \in Later, ttl # 0, ~DeadlineFits(t, ttl), now' = t, map' = map,
             res' = Ret("ERROR", NULL, 0)
      PROVE  A!Expire(k, ttl)
  <2>1. ~A!HasDeadline(now', ttl)
    BY <1>4, DeadlineExact
  <2>2. View' = A!AliveAt(View, now')
    BY <1>4, ViewIs, ViewLater
  <2>3. now' >= now
    BY <1>4, TimeType DEF TypeOK
  <2> QED BY <1>1, <1>4, <2>1, <2>2, <2>3 DEF A!Expire, A!Ends, A!Ret, Ret
<1> QED BY <1>2, <1>3, <1>4 DEF ExpireLive


LEMMA NextStep ==
  ASSUME TypeOK, TypeOK', [Next]_vars
  PROVE  [A!Next]_(A!absVars)
<1>1. now \in Nat /\ now \in Later
  BY ClockAssumption DEF TypeOK, Later
<1>2. CASE Tick
  <2>1. now' = now + 1 /\ map' = map /\ res' = res /\ now' \in Later /\ now' > now
    BY <1>1, <1>2, ClockAssumption DEF Tick, Later, TypeOK
  <2>2. A!AliveAt(View, now') = A!AliveAt(map, now')
    BY <2>1, ViewLater
  <2>3. View' = A!AliveAt(View, now')
    BY <2>1, <2>2, ViewIs
  <2>4. A!Tick
    BY <2>1, <2>3 DEF A!Tick
  <2> QED BY <2>4 DEF A!Next
<1>3. CASE ReapNext
  BY <1>3, ReapStep
<1>4. CASE Size
  BY <1>4, SizeStep DEF A!Next
<1>5. CASE Destroy
  <2>1. View' = [k \in {} |-> NULL]
    BY <1>5 DEF Destroy, View, T!EmptyMap
  <2>2. A!Destroy
    BY <1>5, <2>1 DEF Destroy, A!Destroy, A!Ret, Ret
  <2> QED BY <2>2 DEF A!Next
<1>6. ASSUME NEW k \in Keys, Get(k)
      PROVE  A!Next
  <2>1. A!Ends(View, IF IsLive(k) THEN Ret("VALUE", map[k].data, 0) ELSE Ret("MISSING", NULL, 0))
    BY <1>1, <1>6, LazyGone, RemovesNothing DEF Get
  <2>2. A!Get(k)
    BY <2>1, LiveIs DEF A!Get, A!Ret, Ret
  <2> QED BY <2>2 DEF A!Next
<1>7. ASSUME NEW k \in Keys, Exists(k)
      PROVE  A!Next
  <2>1. A!Ends(View, Ret("BOOL", NULL, IF IsLive(k) THEN 1 ELSE 0))
    BY <1>1, <1>7, LazyGone, RemovesNothing DEF Exists
  <2>2. A!Exists(k)
    BY <2>1, LiveIs DEF A!Exists, A!Ret, Ret
  <2> QED BY <2>2 DEF A!Next
<1>8. ASSUME NEW k \in Keys, Delete(k)
      PROVE  A!Next
  <2>1. A!Ends(A!Drop(View, k), Ret("BOOL", NULL, IF IsLive(k) THEN 1 ELSE 0))
    BY <1>8, RemovesOne DEF Delete
  <2>2. A!Delete(k)
    BY <2>1, LiveIs DEF A!Delete, A!Ret, Ret
  <2> QED BY <2>2 DEF A!Next
<1>9. ASSUME NEW k \in Keys, Ttl(k)
      PROVE  A!Next
  BY <1>9, TtlStep DEF A!Next
<1>10. ASSUME NEW k \in Keys, ExpireMissing(k)
       PROVE  A!Next
  <2>1. A!Ends(View, Ret("MISSING", NULL, 0)) /\ k \notin DOMAIN View
    BY <1>1, <1>10, LazyGone, RemovesNothing, LiveIs DEF ExpireMissing
  <2>2. A!Expire(k, 0)
    BY <2>1 DEF A!Expire, A!Ret, Ret
  <2>3. 0 \in Ttls
    BY ClockAssumption
  <2> QED BY <2>2, <2>3 DEF A!Next
<1>11. ASSUME NEW k \in Keys, SetFails(k)
       PROVE  A!Next
  <2>1. PICK t \in Later : RemoveAndReturn(Lazy(k), t, Ret("ERROR", NULL, 0))
    BY <1>11 DEF SetFails
  <2>2. A!Ends(View, Ret("ERROR", NULL, 0))
    BY <2>1, LazyGone, RemovesNothing
  <2>3. A!SetFails
    BY <2>2 DEF A!SetFails, A!Ret, Ret
  <2> QED BY <2>3 DEF A!Next
<1>12. ASSUME NEW k \in Keys, NEW ttl \in Ttls, ExpireLive(k, ttl)
       PROVE  A!Next
  BY <1>12, ExpireStep DEF A!Next
<1>13. ASSUME NEW k \in Keys, NEW d \in Data, NEW ttl \in Ttls, SetEx(k, d, ttl)
       PROVE  A!Next
  BY <1>13, SetExStep DEF A!Next
<1>14. CASE UNCHANGED vars
  <2>1. UNCHANGED <<now, map, res>>
    BY <1>14 DEF vars
  <2>2. View' = View
    BY <2>1 DEF View, Expired
  <2> QED BY <2>1, <2>2 DEF A!absVars
<1> QED BY <1>2, <1>3, <1>4, <1>5, <1>6, <1>7, <1>8, <1>9, <1>10, <1>11, <1>12, <1>13, <1>14
        DEF Next

\* Seen by its callers, the store is a map in which expired keys are not: the lazy
\* removals of ks_kv_find_live, the reaper and the sweep of ks_kv_size show in no
\* answer, a deadline is the sum that was asked for or the call fails, and ks_kv_ttl
\* never reports a key as there after its time, however the clock moves on.
THEOREM StoreImplementsKv == Spec => ImplementsKv
<1>1. Init => A!Init
  <2> SUFFICES ASSUME Init PROVE A!Init
    OBVIOUS
  <2>1. View = [k \in {} |-> NULL]
    BY DEF Init, View, T!EmptyMap
  <2> QED BY <2>1 DEF Init, A!Init, A!Ret, Ret
<1>2. TypeOK /\ TypeOK' /\ [Next]_vars => [A!Next]_(A!absVars)
  BY NextStep
<1> QED BY <1>1, <1>2, TypeCorrect, PTL DEF Spec, ImplementsKv, A!Spec

=============================================================================
