---------------------------- MODULE KesselProofs ----------------------------
(***************************************************************************)
(* The commands of handle_command, over what the store and the registry    *)
(* promise: what the replies have told the clients is what the store       *)
(* holds, for any keys, clients, numbers and widths of the clock.          *)
(***************************************************************************)
EXTENDS Kessel, FiniteSetTheorems, SequenceTheorems, TLAPS

-----------------------------------------------------------------------------
(* What clients have been told of the keys, against a map of the store.    *)

\* The value v is there at time t.
Alive(v, t) == v.deadline = 0 \/ v.deadline > t

\* The record e of what was told says that the key is there at time t.
Says(e, t) == e.ends => t < e.until

\* The value v is the one e tells of.
Tells(e, v) == v.data = e.data /\ v.deadline = IF e.ends THEN e.until ELSE 0

\* At time t the keys of m that are there are as a tells.
Describes(a, m, t) ==
  /\ DOMAIN m \subseteq Keys
  /\ \A k \in Keys : k \in DOMAIN m /\ Alive(m[k], t) <=> Says(a[k], t)
  /\ \A k \in DOMAIN m : Alive(m[k], t) => Tells(a[k], m[k])

Records == [data : Data \cup {NULL}, ends : BOOLEAN, until : Int]

\* The inductive invariant: the store is as told and holds nothing that has expired.
AskedInv ==
  /\ now \in Nat
  /\ asked \in [Keys -> Records]
  /\ Describes(asked, view, now)
  /\ \A k \in DOMAIN view : Alive(view[k], now)

-----------------------------------------------------------------------------
(* How commands change the map.                                            *)

\* What Store!AliveAt keeps of m.
LEMMA AliveIs ==
  ASSUME NEW m, NEW t
  PROVE  /\ DOMAIN Store!AliveAt(m, t) = {k \in DOMAIN m : Alive(m[k], t)}
         /\ \A k \in DOMAIN Store!AliveAt(m, t) : Store!AliveAt(m, t)[k] = m[k]
BY DEF Store!AliveAt, Store!Restrict, Alive

\* The part of m that is there is described, and all of it is there.
LEMMA AliveDescribed ==
  ASSUME NEW a, NEW m, NEW t, Describes(a, m, t)
  PROVE  /\ Describes(a, Store!AliveAt(m, t), t)
         /\ \A k \in DOMAIN Store!AliveAt(m, t) : Alive(Store!AliveAt(m, t)[k], t)
<1> DEFINE n == Store!AliveAt(m, t)
<1>1. DOMAIN n = {k \in DOMAIN m : Alive(m[k], t)} /\ \A k \in DOMAIN n : n[k] = m[k]
  BY DEF Store!AliveAt, Store!Restrict, Alive
<1> HIDE DEF n
<1>2. Describes(a, n, t) /\ \A k \in DOMAIN n : Alive(n[k], t)
  BY <1>1 DEF Describes
<1> QED BY <1>2 DEF n

\* Time passes.
LEMMA DescribesLater ==
  ASSUME AskedInv, NEW t \in Nat, now <= t
  PROVE  Describes(asked, view, t)
<1>1. /\ now \in Nat /\ asked \in [Keys -> Records]
      /\ DOMAIN view \subseteq Keys
      /\ \A k \in Keys : k \in DOMAIN view <=> Says(asked[k], now)
      /\ \A k \in DOMAIN view : Tells(asked[k], view[k])
  BY DEF AskedInv, Describes
<1>2. ASSUME NEW k \in Keys
      PROVE  k \in DOMAIN view /\ Alive(view[k], t) <=> Says(asked[k], t)
  <2>1. asked[k].ends \in BOOLEAN /\ asked[k].until \in Int
    BY <1>1 DEF Records
  <2>2. Says(asked[k], t) => Says(asked[k], now)
    BY <1>1, <2>1 DEF Says
  <2>3. CASE k \in DOMAIN view
    BY <1>1, <2>1, <2>3 DEF Tells, Alive, Says
  <2>4. CASE k \notin DOMAIN view
    BY <1>1, <2>2, <2>4
  <2> QED BY <2>3, <2>4
<1> QED BY <1>1, <1>2 DEF Describes

\* A command ends that has changed at most the key k in the map and what is told of it.
LEMMA EndsDescribed ==
  ASSUME AskedInv, NEW m, NEW k \in Keys, NEW r, Store!Ends(m, r), now' \in Nat,
         NEW e \in Records, asked' = [asked EXCEPT ![k] = e],
         DOMAIN m \subseteq Keys,
         \A y \in Keys \ {k} : y \in DOMAIN m <=> y \in DOMAIN view,
         \A y \in DOMAIN view \ {k} : m[y] = view[y],
         k \in DOMAIN m /\ Alive(m[k], now') <=> Says(e, now'),
         k \in DOMAIN m /\ Alive(m[k], now') => Tells(e, m[k])
  PROVE  AskedInv'
<1>1. now' >= now /\ view' = Store!AliveAt(m, now') /\ now \in Nat
  BY DEF Store!Ends, AskedInv
<1>2. Describes(asked, view, now')
  BY <1>1, DescribesLater
<1>3. /\ asked' \in [Keys -> Records] /\ asked'[k] = e
      /\ \A y \in Keys \ {k} : asked'[y] = asked[y]
  BY DEF AskedInv
<1>4. Describes(asked', m, now')
  <2>1. ASSUME NEW y \in Keys
        PROVE  y \in DOMAIN m /\ Alive(m[y], now') <=> Says(asked'[y], now')
    BY <1>2, <1>3 DEF Describes
  <2>2. ASSUME NEW y \in DOMAIN m, Alive(m[y], now')
        PROVE  Tells(asked'[y], m[y])
    BY <1>2, <1>3, <2>2 DEF Describes
  <2> QED BY <2>1, <2>2 DEF Describes
<1>5. /\ Describes(asked', Store!AliveAt(m, now'), now')
      /\ \A y \in DOMAIN Store!AliveAt(m, now') : Alive(Store!AliveAt(m, now')[y], now')
  BY <1>4, AliveDescribed
<1> QED BY <1>1, <1>3, <1>5 DEF AskedInv

\* A command ends that has changed nothing but the time.
LEMMA EndsUnchanged ==
  ASSUME AskedInv, now' \in Nat, now' >= now, view' = Store!AliveAt(view, now'),
         UNCHANGED asked
  PROVE  AskedInv'
<1>1. Describes(asked, view, now')
  BY DescribesLater DEF AskedInv
<1>2. /\ Describes(asked, Store!AliveAt(view, now'), now')
      /\ \A y \in DOMAIN Store!AliveAt(view, now') : Alive(Store!AliveAt(view, now')[y], now')
  BY <1>1, AliveDescribed
<1> QED BY <1>2 DEF AskedInv

\* The clock's times, and the numbers a text may stand for.
LEMMA ClockType ==
  ASSUME AskedInv, Clock
  PROVE  now' \in Nat /\ now <= now'
BY SizesAssumption DEF AskedInv, Clock

LEMMA SecondsType ==
  ASSUME NEW t, NEW n \in ParseSeconds(t)
  PROVE  n \in Int /\ n <= IntMax /\ (n > 0 => n % (UintMax + 1) = n)
<1>1. n \in -IntMax - 1 .. IntMax
  BY DEF ParseSeconds
<1>2. IntMax \in Nat /\ UintMax \in Nat /\ IntMax <= UintMax
  BY SizesAssumption, ClockAssumption
<1>3. n \in Int /\ n <= IntMax
  BY <1>1, <1>2
<1>4. ASSUME n > 0 PROVE n % (UintMax + 1) = n
  BY <1>2, <1>3, <1>4
<1> QED BY <1>3, <1>4

\* A lifetime's end lies behind the time it starts when the lifetime is positive.
LEMMA EndType ==
  ASSUME NEW t \in Nat, NEW n \in Int
  PROVE  /\ t + n * MsPerSec \in Int
         /\ n > 0 => t + n * MsPerSec > t
         /\ n <= 0 => t + n * MsPerSec <= t
<1>1. MsPerSec \in Nat /\ MsPerSec > 0
  BY ClockAssumption
<1>2. n * MsPerSec \in Int
  BY <1>1
<1>3. n > 0 => n * MsPerSec > 0
  BY <1>1
<1>4. n <= 0 => n * MsPerSec <= 0
  BY <1>1
<1> QED BY <1>2, <1>3, <1>4

\* What Store!Drop leaves of a map.
LEMMA DropIs ==
  ASSUME NEW m, NEW k
  PROVE  /\ DOMAIN Store!Drop(m, k) = DOMAIN m \ {k}
         /\ \A y \in DOMAIN m \ {k} : Store!Drop(m, k)[y] = m[y]
BY DEF Store!Drop, Store!Restrict

\* The key k gets the data d and a deadline, or none, and the clients are told.
LEMMA PutTold ==
  ASSUME AskedInv, now' \in Nat, NEW k \in Keys, NEW d \in Data \cup {NULL}, NEW ends \in BOOLEAN,
         NEW until \in Int, ends => until > now',
         NEW r, Store!Ends(Store!Put(view, k, d, IF ends THEN until ELSE 0), r),
         asked' = [asked EXCEPT ![k] = [data |-> d, ends |-> ends, until |-> until]]
  PROVE  AskedInv'
<1> DEFINE e  == [data |-> d, ends |-> ends, until |-> until]
           dl == IF ends THEN until ELSE 0
           m  == Store!Put(view, k, d, dl)
<1> HIDE DEF dl
<1>1. /\ DOMAIN m = DOMAIN view \cup {k} /\ m[k].data = d /\ m[k].deadline = dl
      /\ \A y \in DOMAIN view \ {k} : m[y] = view[y]
  BY DEF Store!Put
<1>2. e \in Records /\ Says(e, now') /\ e.data = d /\ e.ends = ends /\ e.until = until
  BY DEF Records, Says
<1>3. Store!Ends(m, r) /\ asked' = [asked EXCEPT ![k] = e]
  BY DEF dl
<1> HIDE DEF m, e
<1>4. Alive(m[k], now')
  BY <1>1 DEF Alive, dl
<1>5. Tells(e, m[k])
  BY <1>1, <1>2 DEF Tells, dl
<1>6. DOMAIN m \subseteq Keys
  BY <1>1 DEF AskedInv, Describes
<1> QED BY <1>1, <1>2, <1>3, <1>4, <1>5, <1>6, EndsDescribed

\* The key k goes, and what the clients are told of it has ended.
LEMMA DropTold ==
  ASSUME AskedInv, now' \in Nat, NEW k \in Keys, NEW r, Store!Ends(Store!Drop(view, k), r),
         NEW e \in Records, ~Says(e, now'), asked' = [asked EXCEPT ![k] = e]
  PROVE  AskedInv'
<1> DEFINE m == Store!Drop(view, k)
<1>1. DOMAIN m = DOMAIN view \ {k} /\ \A y \in DOMAIN view \ {k} : m[y] = view[y]
  BY DropIs
<1>2. Store!Ends(m, r)
  OBVIOUS
<1> HIDE DEF m
<1>3. DOMAIN m \subseteq Keys
  BY <1>1 DEF AskedInv, Describes
<1> QED BY <1>1, <1>2, <1>3, EndsDescribed

\* A key that is not there is dropped.
LEMMA DropNothing ==
  ASSUME AskedInv, now' \in Nat, NEW k \in Keys, k \notin DOMAIN view, NEW r,
         Store!Ends(Store!Drop(view, k), r), UNCHANGED asked
  PROVE  AskedInv'
<1> DEFINE m == Store!Drop(view, k)
<1>1. DOMAIN m = DOMAIN view \ {k} /\ \A y \in DOMAIN view \ {k} : m[y] = view[y]
  BY DropIs
<1>2. Store!Ends(m, r)
  OBVIOUS
<1> HIDE DEF m
<1>3. DOMAIN m \subseteq Keys
  BY <1>1 DEF AskedInv, Describes
<1>4. asked[k] \in Records /\ asked' = [asked EXCEPT ![k] = asked[k]]
  BY DEF AskedInv
<1>5. now' >= now
  BY <1>2 DEF Store!Ends
<1>6. ~Says(asked[k], now')
  BY <1>5, DescribesLater DEF Describes
<1> QED BY <1>1, <1>2, <1>3, <1>4, <1>6, EndsDescribed


-----------------------------------------------------------------------------
(* Every command keeps the store as told.                                  *)

\* The store calls that change nothing but the time.
LEMMA StoreReads ==
  ASSUME AskedInv, Clock, UNCHANGED asked, NEW r, Store!Ends(view, r)
  PROVE  AskedInv'
<1>1. now' \in Nat
  BY ClockType
<1>2. now' >= now /\ view' = Store!AliveAt(view, now')
  BY DEF Store!Ends
<1> QED BY <1>1, <1>2, EndsUnchanged

\* A command that does not call the store.
LEMMA StoreUntouched ==
  ASSUME AskedInv, UNCHANGED <<now, view, asked>>
  PROVE  AskedInv'
BY DEF AskedInv

LEMMA SetInv ==
  ASSUME AskedInv, NEW c, NEW k \in Keys, NEW d \in Data, Set(c, k, d)
  PROVE  AskedInv'
<1>1. Clock /\ now' \in Nat
  BY ClockType DEF Set, InStore
<1>2. CASE Store!SetFails /\ UNCHANGED asked
  BY <1>1, <1>2, StoreReads DEF Store!SetFails
<1>3. CASE Store!Set(k, d, 0) /\ ToldForever(k, d)
  <2> DEFINE r == Store!Ret(IF k \in DOMAIN view THEN "REPLACED" ELSE "INSERTED", NULL, 0)
  <2>1. Store!Ends(Store!Put(view, k, d, 0), r)
    BY <1>3 DEF Store!Set
  <2>2. asked' = [asked EXCEPT ![k] = [data |-> d, ends |-> FALSE, until |-> 0]]
    BY <1>3 DEF ToldForever
  <2> HIDE DEF r
  <2>3. PICK u \in Int : u = 0
    OBVIOUS
  <2>4. PICK b \in BOOLEAN : b = FALSE
    OBVIOUS
  <2>5. /\ Store!Ends(Store!Put(view, k, d, IF b THEN u ELSE 0), r)
        /\ asked' = [asked EXCEPT ![k] = [data |-> d, ends |-> b, until |-> u]]
        /\ b => u > now'
    BY <2>1, <2>2, <2>3, <2>4
  <2> QED BY <1>1, <2>5, PutTold
<1> QED BY <1>2, <1>3 DEF Set

LEMMA SetExInv ==
  ASSUME AskedInv, NEW c, NEW k \in Keys, NEW t, NEW d \in Data, SetEx(c, k, t, d)
  PROVE  AskedInv'
<1>1. PICK n \in ParseSeconds(t) :
        /\ IsLifetime(n) /\ InStore(c)
        /\ \/ Store!Set(k, d, n) /\ Told(k, d, n)
           \/ Store!SetFails /\ UNCHANGED asked
  BY DEF SetEx
<1>2. Clock /\ now' \in Nat /\ n \in Int /\ n > 0
  BY <1>1, ClockType, SecondsType DEF InStore, IsLifetime
<1>3. CASE Store!SetFails /\ UNCHANGED asked
  BY <1>2, <1>3, StoreReads DEF Store!SetFails
<1>4. CASE Store!Set(k, d, n) /\ Told(k, d, n)
  <2> DEFINE r == Store!Ret(IF k \in DOMAIN view THEN "REPLACED" ELSE "INSERTED", NULL, 0)
             u == now' + n * MsPerSec
  <2>1. Store!Ends(Store!Put(view, k, d, u), r)
    BY <1>2, <1>4 DEF Store!Set
  <2>2. asked' = [asked EXCEPT ![k] = [data |-> d, ends |-> TRUE, until |-> u]]
    BY <1>4 DEF Told
  <2>3. u \in Int /\ u > now'
    BY <1>2, EndType
  <2> HIDE DEF r, u
  <2>4. Store!Ends(Store!Put(view, k, d, IF TRUE THEN u ELSE 0), r)
    BY <2>1
  <2> QED BY <1>2, <2>2, <2>3, <2>4, PutTold
<1> QED BY <1>1, <1>3, <1>4

LEMMA DelInv ==
  ASSUME AskedInv, NEW c, NEW k \in Keys, Del(c, k)
  PROVE  AskedInv'
<1>1. Clock /\ now' \in Nat
  BY ClockType DEF Del, InStore
<1> DEFINE r == Store!Ret("BOOL", NULL, IF k \in DOMAIN view THEN 1 ELSE 0)
<1>2. Store!Ends(Store!Drop(view, k), r) /\ kv' = r
  BY DEF Del, Store!Delete, Store!Ends
<1>3. k \in DOMAIN view <=> kv'.count = 1
  BY <1>2 DEF Store!Ret
<1> HIDE DEF r
<1>4. CASE k \in DOMAIN view
  <2>1. asked' = [asked EXCEPT ![k] = Unknown]
    BY <1>3, <1>4 DEF Del, Gone
  <2>2. Unknown \in Records /\ ~Says(Unknown, now')
    BY <1>1 DEF Unknown, Records, Says
  <2> QED BY <1>1, <1>2, <2>1, <2>2, DropTold
<1>5. CASE k \notin DOMAIN view
  <2>1. asked' = asked
    BY <1>3, <1>5 DEF Del, Gone
  <2> QED BY <1>1, <1>2, <1>5, <2>1, DropNothing
<1> QED BY <1>4, <1>5

LEMMA ExpireNowInv ==
  ASSUME AskedInv, NEW c, NEW k \in Keys, NEW t, ExpireNow(c, k, t)
  PROVE  AskedInv'
<1>1. PICK n \in ParseSeconds(t) :
        /\ DeletesNow(n) /\ InStore(c) /\ Store!Delete(k)
        /\ IF kv'.count = 1 THEN Told(k, asked[k].data, n) ELSE UNCHANGED asked
  BY DEF ExpireNow
<1>2. Clock /\ now' \in Nat /\ n \in Int /\ n <= 0
  BY <1>1, ClockType, SecondsType DEF InStore, DeletesNow
<1> DEFINE r == Store!Ret("BOOL", NULL, IF k \in DOMAIN view THEN 1 ELSE 0)
<1>3. Store!Ends(Store!Drop(view, k), r) /\ kv' = r
  BY <1>1 DEF Store!Delete, Store!Ends
<1>4. k \in DOMAIN view <=> kv'.count = 1
  BY <1>3 DEF Store!Ret
<1> HIDE DEF r
<1>5. CASE k \in DOMAIN view
  <2> DEFINE u == now' + n * MsPerSec
             e == [data |-> asked[k].data, ends |-> TRUE, until |-> u]
  <2>1. asked' = [asked EXCEPT ![k] = e]
    BY <1>1, <1>4, <1>5 DEF Told
  <2>2. u \in Int /\ u <= now'
    BY <1>2, EndType
  <2> HIDE DEF u
  <2>3. e \in Records /\ ~Says(e, now')
    BY <1>2, <2>2 DEF Records, Says, AskedInv
  <2> HIDE DEF e
  <2> QED BY <1>2, <1>3, <2>1, <2>3, DropTold
<1>6. CASE k \notin DOMAIN view
  <2>1. asked' = asked
    BY <1>1, <1>4, <1>6
  <2> QED BY <1>2, <1>3, <1>6, <2>1, DropNothing
<1> QED BY <1>5, <1>6

LEMMA ExpireInv ==
  ASSUME AskedInv, NEW c, NEW k \in Keys, NEW t, Expire(c, k, t)
  PROVE  AskedInv'
<1>1. PICK n \in ParseSeconds(t) :
        /\ ~DeletesNow(n) /\ InStore(c) /\ Store!Expire(k, n % (UintMax + 1))
        /\ IF kv'.code = "UPDATED" THEN Told(k, asked[k].data, n) ELSE UNCHANGED asked
  BY DEF Expire
<1>2. Clock /\ now' \in Nat /\ n \in Int /\ n > 0 /\ n % (UintMax + 1) = n
  BY <1>1, ClockType, SecondsType DEF InStore, DeletesNow
<1>3. Store!Expire(k, n)
  BY <1>1, <1>2
<1>4. ASSUME NEW code \in {"MISSING", "ERROR"}, Store!Ends(view, Store!Ret(code, NULL, 0))
      PROVE  AskedInv'
  <2>1. kv' = Store!Ret(code, NULL, 0)
    BY <1>4 DEF Store!Ends
  <2>2. kv'.code # "UPDATED"
    BY <1>4, <2>1 DEF Store!Ret
  <2>3. UNCHANGED asked
    BY <1>1, <2>2
  <2> QED BY <1>2, <1>4, <2>3, StoreReads
<1> DEFINE u == now' + n * MsPerSec
           r == Store!Ret("UPDATED", NULL, 0)
<1>5. CASE k \in DOMAIN view /\ Store!Ends(Store!Put(view, k, view[k].data, u), r)
  <2>1. kv' = r
    BY <1>5 DEF Store!Ends
  <2>2. kv'.code = "UPDATED"
    BY <2>1 DEF Store!Ret
  <2>3. asked' = [asked EXCEPT ![k] = [data |-> asked[k].data, ends |-> TRUE, until |-> u]]
    BY <1>1, <2>2 DEF Told
  <2>4. u \in Int /\ u > now'
    BY <1>2, EndType
  <2> HIDE DEF r, u
  <2>5. view[k].data = asked[k].data
    BY <1>5 DEF AskedInv, Describes, Tells
  <2>6. PICK x \in Data \cup {NULL} : x = asked[k].data
    BY DEF AskedInv, Records
  <2>7. Store!Ends(Store!Put(view, k, x, IF TRUE THEN u ELSE 0), r)
    BY <1>5, <2>5, <2>6
  <2>8. asked' = [asked EXCEPT ![k] = [data |-> x, ends |-> TRUE, until |-> u]]
    BY <2>3, <2>6
  <2> QED BY <1>2, <2>4, <2>7, <2>8, PutTold
<1> QED BY <1>2, <1>3, <1>4, <1>5 DEF Store!Expire

\* The commands that only read the store.
LEMMA ReadsInv ==
  ASSUME AskedInv, NEW c, NEW k, Get(c, k) \/ Exists(c, k) \/ Ttl(c, k) \/ Info(c)
  PROVE  AskedInv'
<1>1. Clock /\ UNCHANGED asked
  BY DEF Get, Exists, Ttl, Info, InStore
<1>2. Store!Get(k) \/ Store!Exists(k) \/ Store!Ttl(k) \/ Store!Size
  BY DEF Get, Exists, Ttl, Info
<1>3. PICK r : Store!Ends(view, r)
  BY <1>2 DEF Store!Get, Store!Exists, Store!Ttl, Store!Size
<1> QED BY <1>1, <1>3, StoreReads

LEMMA TickInv ==
  ASSUME AskedInv, Tick
  PROVE  AskedInv'
<1>1. now' \in Nat /\ UNCHANGED asked
  BY ClockType DEF Tick, Same
<1>2. now' >= now /\ view' = Store!AliveAt(view, now')
  BY <1>1 DEF Tick, Store!Tick, AskedInv
<1> QED BY <1>1, <1>2, EndsUnchanged

LEMMA NextAsked ==
  ASSUME AskedInv, [Next]_vars
  PROVE  AskedInv'
<1>1. CASE Tick
  BY <1>1, TickInv
<1>2. CASE UNCHANGED vars
  BY <1>2, StoreUntouched DEF vars, store
<1>3. ASSUME NEW c \in Clients,
             \/ Connect(c) \/ Close(c) \/ EmptyChannel(c)
             \/ \E n \in 1 .. Len(stream[c]) - sent[c] : Write(c, n)
             \/ \E kind \in {"simple", "bulk", "error"} : Answers(c, kind)
             \/ \E k \in Keys, t \in Texts : BadSeconds(c, k, t)
             \/ \E ch \in Channels : \/ Subscribe(c, ch) \/ SubscribeFails(c, ch) \/ Unsubscribe(c, ch)
                                     \/ \E m \in Messages : Publish(c, ch, m) \/ PublishCloses(c, ch, m)
      PROVE  AskedInv'
  <2>1. UNCHANGED <<store, asked>>
    BY <1>3 DEF Connect, Close, EmptyChannel, Write, Answers, BadSeconds, Subscribe,
                SubscribeFails, Unsubscribe, Publish, PublishCloses, InRegistry, Same
  <2> QED BY <2>1, StoreUntouched DEF store
<1>4. ASSUME NEW c \in Clients, Info(c)
      PROVE  AskedInv'
  BY <1>4, ReadsInv
<1>5. ASSUME NEW c \in Clients, NEW k \in Keys, Get(c, k) \/ Exists(c, k) \/ Ttl(c, k)
      PROVE  AskedInv'
  BY <1>5, ReadsInv
<1>6. ASSUME NEW c \in Clients, NEW k \in Keys, NEW t \in Texts,
             \/ Del(c, k) \/ ExpireNow(c, k, t) \/ Expire(c, k, t)
             \/ \E d \in Data : Set(c, k, d) \/ SetEx(c, k, t, d)
      PROVE  AskedInv'
  BY <1>6, DelInv, ExpireNowInv, ExpireInv, SetInv, SetExInv
<1>7. ASSUME NEW c \in Clients, NEW k \in Keys, Del(c, k) \/ \E d \in Data : Set(c, k, d)
      PROVE  AskedInv'
  BY <1>7, DelInv, SetInv
<1> QED BY <1>1, <1>2, <1>3, <1>4, <1>5, <1>6, <1>7 DEF Next

\* Whatever clients send, the store and its deadlines are as the replies of
\* handle_command have told.
THEOREM AskedInvariance == Spec => []AskedInv
<1>1. Init => AskedInv
  <2> SUFFICES ASSUME Init PROVE AskedInv
    OBVIOUS
  <2>1. now = 0 /\ DOMAIN view = {} /\ asked = [k \in Keys |-> Unknown]
    BY DEF Init, Store!Init
  <2>2. Unknown \in Records /\ ~Says(Unknown, 0)
    BY DEF Unknown, Records, Says
  <2> QED BY <2>1, <2>2 DEF AskedInv, Describes
<1>2. AskedInv /\ [Next]_vars => AskedInv'
  BY NextAsked
<1> QED BY <1>1, <1>2, PTL DEF Spec

\* The store holds exactly what the replies of handle_command have promised,
\* whatever the seconds given: none wraps, none becomes endless, and a command
\* that answers with an error has changed nothing.
THEOREM StoreAsAsked == Spec => []StoreIsAsAsked
<1>1. AskedInv => StoreIsAsAsked
  <2> SUFFICES ASSUME AskedInv PROVE StoreIsAsAsked
    OBVIOUS
  <2>1. \A k \in Keys : k \in DOMAIN view <=> There(k, now)
    BY DEF AskedInv, Describes, Says, There
  <2>2. DOMAIN view \subseteq Keys /\ \A k \in DOMAIN view : view[k].data = asked[k].data
    BY DEF AskedInv, Describes, Tells
  <2> QED BY <2>1, <2>2 DEF StoreIsAsAsked
<1> QED BY <1>1, AskedInvariance, PTL


-----------------------------------------------------------------------------
(* The streams: what is queued behind what, and the numbers of messages.   *)

\* s is a sequence.
Listed(s) == Len(s) \in Nat /\ s = [i \in 1 .. Len(s) |-> s[i]]

\* The messages in s are among the first n commands.
Numbered(s, n) ==
  /\ Listed(s)
  /\ \A i \in 1 .. Len(s) : s[i].kind = "array" => s[i].value \in Nat /\ s[i].value <= n

StreamInv ==
  /\ commands \in Nat
  /\ DOMAIN stream = Clients
  /\ \A c \in Clients : Numbered(stream[c], commands)

LEMMA ListedIsSeq ==
  ASSUME NEW s, Listed(s), NEW T, \A i \in 1 .. Len(s) : s[i] \in T
  PROVE  s \in Seq(T)
BY SeqDef DEF Listed

\* e is queued behind s.
LEMMA Appended ==
  ASSUME NEW s, Listed(s), NEW e
  PROVE  /\ Append(s, e) = s \o <<e>>
         /\ Listed(Append(s, e)) /\ Len(Append(s, e)) = Len(s) + 1
         /\ Append(s, e)[Len(s) + 1] = e
         /\ \A i \in 1 .. Len(s) : Append(s, e)[i] = s[i]
<1> DEFINE T == {s[i] : i \in 1 .. Len(s)} \cup {e}
<1>1. s \in Seq(T) /\ <<e>> \in Seq(T) /\ e \in T /\ Len(s) \in Nat
  BY ListedIsSeq DEF Listed
<1> HIDE DEF T
<1>2. /\ Append(s, e) \in Seq(T) /\ Len(Append(s, e)) = Len(s) + 1
      /\ \A i \in 1 .. Len(s) : Append(s, e)[i] = s[i]
      /\ Append(s, e)[Len(s) + 1] = e
  BY <1>1, AppendProperties
<1>3. Append(s, e) = s \o <<e>>
  BY <1>1, AppendIsConcat
<1>4. Listed(Append(s, e))
  BY <1>1, <1>2, LenProperties DEF Listed
<1> QED BY <1>2, <1>3, <1>4

LEMMA NothingAppended ==
  ASSUME NEW s, Listed(s)
  PROVE  s \o <<>> = s
<1> DEFINE T == {s[i] : i \in 1 .. Len(s)}
<1>1. s \in Seq(T)
  BY ListedIsSeq
<1> HIDE DEF T
<1> QED BY <1>1, ConcatEmptySeq

\* What is queued is a reply, or a message with a number up to n.
LEMMA NumberedAppended ==
  ASSUME NEW s, NEW n \in Nat, NEW m \in Nat, n <= m, Numbered(s, n), NEW e,
         e.kind = "array" => e.value \in Nat /\ e.value <= m
  PROVE  Numbered(s, m) /\ Numbered(Append(s, e), m)
<1>1. /\ Listed(s) /\ Listed(Append(s, e)) /\ Len(Append(s, e)) = Len(s) + 1
      /\ Append(s, e)[Len(s) + 1] = e
      /\ \A i \in 1 .. Len(s) : Append(s, e)[i] = s[i]
  BY Appended, ZenonT(40) DEF Numbered
<1>2. Numbered(s, m)
  BY DEF Numbered
<1>3. ASSUME NEW i \in 1 .. Len(s) + 1, Append(s, e)[i].kind = "array"
      PROVE  Append(s, e)[i].value \in Nat /\ Append(s, e)[i].value <= m
  <2>1. CASE i = Len(s) + 1
    BY <1>1, <1>3, <2>1
  <2>2. CASE i # Len(s) + 1
    <3>1. i \in 1 .. Len(s)
      BY <1>1, <2>2 DEF Listed
    <3>2. Append(s, e)[i] = s[i]
      BY <1>1, <3>1
    <3> QED BY <1>2, <1>3, <3>1, <3>2 DEF Numbered
  <2> QED BY <2>1, <2>2
<1> QED BY <1>1, <1>2, <1>3 DEF Numbered


-----------------------------------------------------------------------------
(* Every reply is true.                                                    *)

\* The step RepliesAreTrue asks for.
TrueStep ==
  \A c \in Clients : Len(stream'[c]) > Len(stream[c]) /\ Last(stream'[c]).kind # "array" =>
                       IsTrue(Last(stream'[c]))

\* A command queues one reply.
LEMMA ReplyQueued ==
  ASSUME StreamInv, NEW c \in Clients, Takes(c), NEW r, r.kind # "array", Replies(c, r)
  PROVE  StreamInv' /\ (IsTrue(r) => TrueStep)
<1>1. /\ commands \in Nat /\ commands' = commands + 1 /\ DOMAIN stream = Clients
      /\ stream' = [stream EXCEPT ![c] = Append(stream[c], r)]
  BY DEF StreamInv, Takes, Replies
<1>2. /\ DOMAIN stream' = Clients /\ stream'[c] = Append(stream[c], r)
      /\ \A x \in Clients \ {c} : stream'[x] = stream[x]
  BY <1>1
<1>3. \A x \in Clients : Numbered(stream[x], commands)
  BY DEF StreamInv
<1>4. commands' \in Nat /\ commands <= commands'
  BY <1>1
<1>5. \A x \in Clients : Numbered(stream[x], commands') /\ Numbered(Append(stream[x], r), commands')
  BY <1>1, <1>3, <1>4, NumberedAppended
<1>6. StreamInv'
  BY <1>2, <1>4, <1>5 DEF StreamInv
<1>7. Listed(stream[c]) /\ Len(stream[c]) \in Nat
  BY <1>3 DEF Numbered, Listed
<1>8. Len(stream'[c]) = Len(stream[c]) + 1 /\ stream'[c][Len(stream[c]) + 1] = r
  BY <1>2, <1>7, Appended
<1>9. Last(stream'[c]) = r
  BY <1>8 DEF Last
<1>10. ASSUME NEW x \in Clients, x # c
       PROVE  ~(Len(stream'[x]) > Len(stream[x]))
  <2>1. stream'[x] = stream[x] /\ Len(stream[x]) \in Nat
    BY <1>2, <1>3, <1>10 DEF Numbered, Listed
  <2> QED BY <2>1
<1>11. ASSUME IsTrue(r) PROVE TrueStep
  <2> SUFFICES ASSUME NEW x \in Clients, Len(stream'[x]) > Len(stream[x])
               PROVE  IsTrue(Last(stream'[x]))
    BY DEF TrueStep
  <2>1. x = c
    BY <1>10
  <2> QED BY <1>9, <1>11, <2>1
<1> QED BY <1>6, <1>11

\* What a reply has to satisfy, by the command it answers.
LEMMA IsTrueIs ==
  ASSUME NEW r, NEW x, NEW k, r.about = <<x, k>>
  PROVE  /\ x = "GET" => (IsTrue(r) <=> IF There(k, now) THEN r.value = asked[k].data ELSE r.kind = "nil")
         /\ x \in {"DEL", "EXISTS"} => (IsTrue(r) <=> r.value = IF There(k, now) THEN 1 ELSE 0)
         /\ x = "EXPIRE" => (IsTrue(r) <=> (r.kind = "integer" => r.value = IF There(k, now) THEN 1 ELSE 0))
         /\ x = "TTL" => (IsTrue(r) <=> IF ~There(k, now') THEN r.value = -2
                                        ELSE IF ~asked[k].ends THEN r.value = -1
                                        ELSE r.value = (asked[k].until - now') \div MsPerSec)
         /\ x = "INFO" => (IsTrue(r) <=> r.value[1] = Cardinality({y \in Keys : There(y, now)}))
         /\ x \in {"SET", "SETEX", "SUBSCRIBE", "UNSUBSCRIBE", "other"} => IsTrue(r)
<1>1. r.about[1] = x /\ r.about[2] = k
  OBVIOUS
<1> QED BY <1>1 DEF IsTrue

\* The keys that are there are the ones the replies say are there.
LEMMA ThereIs ==
  ASSUME AskedInv
  PROVE  /\ \A k \in Keys : k \in DOMAIN view <=> There(k, now)
         /\ DOMAIN view = {k \in Keys : There(k, now)}
         /\ \A k \in DOMAIN view : view[k].data = asked[k].data
<1>1. \A k \in Keys : k \in DOMAIN view <=> There(k, now)
  BY DEF AskedInv, Describes, Says, There
<1>2. DOMAIN view \subseteq Keys /\ \A k \in DOMAIN view : view[k].data = asked[k].data
  BY DEF AskedInv, Describes, Tells
<1> QED BY <1>1, <1>2

LEMMA ResponseIs ==
  ASSUME NEW kind, NEW value, NEW about
  PROVE  /\ Response(kind, value, about).kind = kind
         /\ Response(kind, value, about).value = value
         /\ Response(kind, value, about).about = about
BY DEF Response

LEMMA GetTrue ==
  ASSUME AskedInv, StreamInv, NEW c \in Clients, NEW k \in Keys, Get(c, k)
  PROVE  StreamInv' /\ TrueStep
<1> DEFINE r == IF kv'.code = "MISSING" THEN Response("nil", NULL, <<"GET", k>>)
                ELSE Response("bulk", kv'.data, <<"GET", k>>)
<1>1. Takes(c) /\ Replies(c, r)
  BY DEF Get, InStore
<1>2. kv' = IF k \in DOMAIN view THEN Store!Ret("VALUE", view[k].data, 0)
            ELSE Store!Ret("MISSING", NULL, 0)
  BY DEF Get, Store!Get, Store!Ends
<1>3. r.about = <<"GET", k>> /\ r.kind \in {"nil", "bulk"}
  BY ResponseIs
<1>4. IF k \in DOMAIN view THEN r.value = view[k].data ELSE r.kind = "nil"
  BY <1>2, ResponseIs DEF Store!Ret
<1> HIDE DEF r
<1>5. IF There(k, now) THEN r.value = asked[k].data ELSE r.kind = "nil"
  BY <1>4, ThereIs
<1>6. IsTrue(r)
  BY <1>3, <1>5, IsTrueIs
<1> QED BY <1>1, <1>3, <1>6, ReplyQueued

\* A reply that says whether the key was there.
LEMMA CountTrue ==
  ASSUME AskedInv, StreamInv, NEW c \in Clients, NEW k \in Keys, Takes(c),
         NEW x \in {"DEL", "EXISTS", "EXPIRE"},
         Replies(c, Response("integer", IF k \in DOMAIN view THEN 1 ELSE 0, <<x, k>>))
  PROVE  StreamInv' /\ TrueStep
<1> DEFINE r == Response("integer", IF k \in DOMAIN view THEN 1 ELSE 0, <<x, k>>)
<1>1. /\ r.about = <<x, k>> /\ r.kind = "integer"
      /\ r.value = IF k \in DOMAIN view THEN 1 ELSE 0
  BY ResponseIs
<1>2. Replies(c, r)
  OBVIOUS
<1> HIDE DEF r
<1>3. r.value = IF There(k, now) THEN 1 ELSE 0
  BY <1>1, ThereIs
<1>4. IsTrue(r)
  BY <1>1, <1>3, IsTrueIs
<1> QED BY <1>1, <1>2, <1>4, ReplyQueued

\* A reply that says nothing of the data.
LEMMA PlainTrue ==
  ASSUME StreamInv, NEW c \in Clients, Takes(c), NEW kind, kind # "array", NEW value, NEW x, NEW k,
         x \in {"SET", "SETEX", "SUBSCRIBE", "UNSUBSCRIBE", "other"} \/ (x = "EXPIRE" /\ kind = "error"),
         Replies(c, Response(kind, value, <<x, k>>))
  PROVE  StreamInv' /\ TrueStep
<1> DEFINE r == Response(kind, value, <<x, k>>)
<1>1. r.about = <<x, k>> /\ r.kind = kind
  BY ResponseIs
<1>2. Replies(c, r)
  OBVIOUS
<1> HIDE DEF r
<1>3. IsTrue(r)
  BY <1>1, IsTrueIs
<1> QED BY <1>1, <1>2, <1>3, ReplyQueued

LEMMA TtlTrue ==
  ASSUME AskedInv, StreamInv, NEW c \in Clients, NEW k \in Keys, Ttl(c, k)
  PROVE  StreamInv' /\ TrueStep
<1> DEFINE r == Response("integer", kv'.count, <<"TTL", k>>)
           a == Store!AliveAt(view, now')
<1>1. Takes(c) /\ Replies(c, r) /\ Clock
  BY DEF Ttl, InStore
<1>2. kv'.count = IF k \notin DOMAIN a THEN -2
                  ELSE IF a[k].deadline = 0 THEN -1
                  ELSE (a[k].deadline - now') \div MsPerSec
  BY DEF Ttl, Store!Ttl, Store!Ends, Store!Ret
<1>3. now' \in Nat /\ Describes(asked, view, now')
  BY <1>1, ClockType, DescribesLater
<1>4. Describes(asked, a, now') /\ \A y \in DOMAIN a : Alive(a[y], now')
  BY <1>3, AliveDescribed
<1>5. r.about = <<"TTL", k>> /\ r.kind = "integer" /\ r.value = kv'.count
  BY ResponseIs
<1> HIDE DEF a, r
<1>6. asked[k].ends \in BOOLEAN /\ asked[k].until \in Int
  BY DEF AskedInv, Records
<1>7. k \in DOMAIN a <=> There(k, now')
  BY <1>4 DEF Describes, Says, There
<1>8. k \in DOMAIN a => a[k].deadline = IF asked[k].ends THEN asked[k].until ELSE 0
  BY <1>4 DEF Describes, Tells
<1>9. There(k, now') /\ asked[k].ends => asked[k].until # 0
  BY <1>3, <1>6 DEF There
<1>10. IF ~There(k, now') THEN r.value = -2
       ELSE IF ~asked[k].ends THEN r.value = -1
       ELSE r.value = (asked[k].until - now') \div MsPerSec
  BY <1>2, <1>5, <1>7, <1>8, <1>9
<1>11. IsTrue(r)
  BY <1>5, <1>10, IsTrueIs
<1> QED BY <1>1, <1>5, <1>11, ReplyQueued

LEMMA SameCardinality ==
  \A S : Store!Cardinality(S) = Cardinality(S) /\ Registry!Cardinality(S) = Cardinality(S)
BY DEF Store!Cardinality, Registry!Cardinality, Cardinality

LEMMA InfoTrue ==
  ASSUME AskedInv, StreamInv, NEW c \in Clients, Info(c)
  PROVE  StreamInv' /\ TrueStep
<1> DEFINE v == <<kv'.count, ret'.count, ret'.count2>>
           r == Response("bulk", v, <<"INFO", NULL>>)
<1>1. Takes(c) /\ Replies(c, r)
  BY DEF Info
<1>2. kv'.count = Store!Cardinality(DOMAIN view)
  BY DEF Info, Store!Size, Store!Ends, Store!Ret
<1>3. kv'.count = Cardinality({y \in Keys : There(y, now)})
  BY <1>2, SameCardinality, ThereIs
<1>4. r.about = <<"INFO", NULL>> /\ r.kind = "bulk" /\ r.value = v
  BY ResponseIs
<1>5. r.value[1] = kv'.count
  BY <1>4
<1> HIDE DEF r
<1>6. IsTrue(r)
  BY <1>3, <1>4, <1>5, IsTrueIs
<1> QED BY <1>1, <1>4, <1>6, ReplyQueued


\* DEL, EXISTS, and EXPIRE.
LEMMA KeyTrue ==
  ASSUME AskedInv, StreamInv, NEW c \in Clients, NEW k \in Keys, NEW t,
         Del(c, k) \/ Exists(c, k) \/ ExpireNow(c, k, t)
  PROVE  StreamInv' /\ TrueStep
<1>1. kv' = Store!Ret("BOOL", NULL, IF k \in DOMAIN view THEN 1 ELSE 0)
  BY DEF Del, Exists, ExpireNow, Store!Delete, Store!Exists, Store!Ends
<1>2. kv'.count = IF k \in DOMAIN view THEN 1 ELSE 0
  BY <1>1 DEF Store!Ret
<1>3. Takes(c)
  BY DEF Del, Exists, ExpireNow, InStore
<1>4. PICK x \in {"DEL", "EXISTS", "EXPIRE"} : Replies(c, Response("integer", kv'.count, <<x, k>>))
  BY DEF Del, Exists, ExpireNow
<1> QED BY <1>2, <1>3, <1>4, CountTrue

LEMMA ExpireTrue ==
  ASSUME AskedInv, StreamInv, NEW c \in Clients, NEW k \in Keys, NEW t, Expire(c, k, t)
  PROVE  StreamInv' /\ TrueStep
<1>1. PICK n \in ParseSeconds(t) :
        /\ InStore(c) /\ Store!Expire(k, n % (UintMax + 1)) /\ Replies(c, ExpireReply(k))
  BY DEF Expire
<1>2. Takes(c)
  BY <1>1 DEF InStore
<1>3. \/ kv' = Store!Ret("ERROR", NULL, 0)
      \/ kv' = Store!Ret("MISSING", NULL, 0) /\ k \notin DOMAIN view
      \/ kv' = Store!Ret("UPDATED", NULL, 0) /\ k \in DOMAIN view
  BY <1>1 DEF Store!Expire, Store!Ends
<1>4. CASE kv'.code = "ERROR"
  <2>1. Replies(c, Response("error", "invalid expire time", <<"EXPIRE", k>>))
    BY <1>1, <1>4 DEF ExpireReply
  <2> QED BY <1>2, <2>1, PlainTrue
<1>5. CASE kv'.code # "ERROR"
  <2>1. kv'.code = "UPDATED" <=> k \in DOMAIN view
    BY <1>3, <1>5 DEF Store!Ret
  <2>2. Replies(c, Response("integer", IF k \in DOMAIN view THEN 1 ELSE 0, <<"EXPIRE", k>>))
    BY <1>1, <1>5, <2>1 DEF ExpireReply
  <2> QED BY <1>2, <2>2, CountTrue
<1> QED BY <1>4, <1>5

\* The commands whose replies say nothing of the data.
LEMMA OtherTrue ==
  ASSUME StreamInv, NEW c \in Clients,
         \/ EmptyChannel(c)
         \/ \E kind \in {"simple", "bulk", "error"} : Answers(c, kind)
         \/ \E k \in Keys, d \in Data : Set(c, k, d)
         \/ \E k \in Keys, t \in Texts : BadSeconds(c, k, t) \/ \E d \in Data : SetEx(c, k, t, d)
         \/ \E ch \in Channels : Subscribe(c, ch) \/ SubscribeFails(c, ch) \/ Unsubscribe(c, ch)
  PROVE  StreamInv' /\ TrueStep
<1>1. CASE EmptyChannel(c)
  BY <1>1, PlainTrue DEF EmptyChannel, InRegistry
<1>2. ASSUME NEW kind \in {"simple", "bulk", "error"}, Answers(c, kind)
      PROVE  StreamInv' /\ TrueStep
  BY <1>2, PlainTrue DEF Answers
<1>3. ASSUME NEW k \in Keys, NEW d \in Data, Set(c, k, d)
      PROVE  StreamInv' /\ TrueStep
  BY <1>3, PlainTrue DEF Set, InStore
<1>4. ASSUME NEW k \in Keys, NEW t \in Texts, BadSeconds(c, k, t)
      PROVE  StreamInv' /\ TrueStep
  BY <1>4, PlainTrue DEF BadSeconds
<1>5. ASSUME NEW k \in Keys, NEW t \in Texts, NEW d \in Data, SetEx(c, k, t, d)
      PROVE  StreamInv' /\ TrueStep
  BY <1>5, PlainTrue DEF SetEx, InStore
<1>6. ASSUME NEW ch \in Channels, Subscribe(c, ch) \/ SubscribeFails(c, ch) \/ Unsubscribe(c, ch)
      PROVE  StreamInv' /\ TrueStep
  BY <1>6, PlainTrue DEF Subscribe, SubscribeFails, Unsubscribe, InRegistry
<1> QED BY <1>1, <1>2, <1>3, <1>4, <1>5, <1>6

\* PUBLISH's reply counts the clients that have the message in their streams.
LEMMA PublishTrue ==
  ASSUME StreamInv, NEW c \in Clients, NEW ch \in Channels, NEW m \in Messages, Publish(c, ch, m)
  PROVE  StreamInv' /\ TrueStep
<1> DEFINE takers == Takers(ch, m)
           no     == commands + 1
           msg    == Message(ch, m, no)
           r      == Response("integer", ret'.count, <<"PUBLISH", ch>>)
           mid(s) == IF s \in takers THEN Append(stream[s], msg) ELSE stream[s]
           new(s) == IF s = c THEN Append(mid(s), r) ELSE mid(s)
<1>1. /\ no \in Nat /\ commands' = no /\ commands \in Nat /\ commands < no
      /\ takers \subseteq Clients
      /\ \A s \in Clients : Numbered(stream[s], commands) /\ Listed(stream[s])
  BY DEF Publish, Takers, InRegistry, Takes, StreamInv, Registry!SubscribersOf, Numbered
<1>2. stream' = [s \in Clients |->
           stream[s] \o (IF s \in takers THEN <<msg>> ELSE <<>>) \o (IF s = c THEN <<r>> ELSE <<>>)]
  BY DEF Publish
<1>3. msg.kind = "array" /\ msg.value = no /\ r.kind = "integer" /\ r.value = ret'.count
  BY ResponseIs DEF Message
<1>4. r.about[1] = "PUBLISH"
  BY ResponseIs
<1>5. ret'.count = Cardinality(takers)
  <2>1. ret'.count = Registry!Cardinality(Registry!SubscribersOf(ch) \cap takers)
    BY DEF Publish, Registry!Publish, Registry!Ret, Counted
  <2>2. Registry!SubscribersOf(ch) \cap takers = takers
    BY DEF Takers
  <2> QED BY <2>1, <2>2, SameCardinality
<1> HIDE DEF takers, no, msg, r
<1>6. DOMAIN stream' = Clients /\ \A s \in Clients : stream'[s] = new(s)
  <2>1. ASSUME NEW s \in Clients
        PROVE  stream[s] \o (IF s \in takers THEN <<msg>> ELSE <<>>) \o (IF s = c THEN <<r>> ELSE <<>>)
                 = new(s)
    <3>1. Listed(stream[s])
      BY <1>1
    <3>2. stream[s] \o (IF s \in takers THEN <<msg>> ELSE <<>>) = mid(s) /\ Listed(mid(s))
      BY <3>1, Appended, NothingAppended
    <3> HIDE DEF mid
    <3>3. mid(s) \o (IF s = c THEN <<r>> ELSE <<>>) = new(s)
      BY <3>2, Appended, NothingAppended
    <3> QED BY <3>2, <3>3
  <2> QED BY <1>2, <2>1
<1>7. ASSUME NEW s \in Clients
      PROVE  Numbered(mid(s), no) /\ Numbered(new(s), no)
  <2>1. Numbered(stream[s], no) /\ Numbered(Append(stream[s], msg), no)
    BY <1>1, <1>3, NumberedAppended
  <2>2. Numbered(mid(s), no)
    BY <2>1
  <2>3. Numbered(Append(mid(s), r), no)
    BY <1>1, <1>3, <2>2, NumberedAppended
  <2> QED BY <2>2, <2>3
<1>8. StreamInv'
  BY <1>1, <1>6, <1>7 DEF StreamInv
<1> HIDE DEF new, mid
<1>9. ASSUME NEW s \in Clients
      PROVE  s \in takers <=> \E i \in DOMAIN stream'[s] : stream'[s][i].kind = "array" /\ stream'[s][i].value = no
  <2> DEFINE l == Len(stream[s])
  <2>1. Listed(stream[s]) /\ l \in Nat
    BY <1>1 DEF Listed
  <2>2. Listed(mid(s)) /\ Len(mid(s)) \in Nat
    BY <1>7 DEF Numbered, Listed
  <2>3. /\ s \in takers => Len(mid(s)) = l + 1 /\ mid(s)[l + 1] = msg
        /\ s \notin takers => Len(mid(s)) = l
        /\ \A i \in 1 .. l : mid(s)[i] = stream[s][i]
    BY <2>1, Appended DEF mid
  <2>4. /\ \A i \in 1 .. Len(mid(s)) : new(s)[i] = mid(s)[i]
        /\ s # c => Len(new(s)) = Len(mid(s))
        /\ s = c => Len(new(s)) = Len(mid(s)) + 1 /\ new(s)[Len(mid(s)) + 1] = r
    BY <2>2, Appended DEF new
  <2>5. DOMAIN stream'[s] = 1 .. Len(new(s)) /\ stream'[s] = new(s)
    BY <1>6, <1>7 DEF Numbered, Listed
  <2>6. \A i \in 1 .. l : ~(stream[s][i].kind = "array" /\ stream[s][i].value = no)
    BY <1>1 DEF Numbered
  <2> HIDE DEF l
  <2>7. CASE s \in takers
    <3>1. l + 1 \in 1 .. Len(new(s)) /\ new(s)[l + 1] = msg
      BY <2>1, <2>3, <2>4, <2>7
    <3> QED BY <1>3, <2>5, <2>7, <3>1
  <2>8. CASE s \notin takers
    <3> SUFFICES ASSUME NEW i \in 1 .. Len(new(s))
                 PROVE  ~(new(s)[i].kind = "array" /\ new(s)[i].value = no)
      BY <2>5, <2>8
    <3>1. i \in 1 .. l \/ (s = c /\ i = Len(mid(s)) + 1)
      BY <2>1, <2>3, <2>4, <2>8
    <3>2. CASE i \in 1 .. l
      BY <2>3, <2>4, <2>6, <2>8, <3>2
    <3>3. CASE s = c /\ i = Len(mid(s)) + 1
      BY <1>3, <2>4, <3>3
    <3> QED BY <3>1, <3>2, <3>3
  <2> QED BY <2>7, <2>8
<1>10. takers = {s \in Clients : \E i \in DOMAIN stream'[s] :
                   stream'[s][i].kind = "array" /\ stream'[s][i].value = commands'}
  BY <1>1, <1>9
<1>11. IsTrue(r)
  BY <1>3, <1>4, <1>5, <1>10 DEF IsTrue
<1>12. ASSUME NEW s \in Clients, Len(stream'[s]) > Len(stream[s]), Last(stream'[s]).kind # "array"
       PROVE  Last(stream'[s]) = r
  <2>1. Listed(stream[s]) /\ Listed(mid(s)) /\ Len(stream[s]) \in Nat
    BY <1>1, <1>7 DEF Numbered, Listed
  <2>2. CASE s = c
    BY <1>6, <2>1, <2>2, Appended DEF new, Last
  <2>3. CASE s # c /\ s \in takers
    <3>1. stream'[s] = Append(stream[s], msg)
      BY <1>6, <2>3 DEF new, mid
    <3>2. Last(stream'[s]) = msg
      BY <2>1, <3>1, Appended DEF Last
    <3> QED BY <1>3, <1>12, <3>2
  <2>4. CASE s # c /\ s \notin takers
    <3>1. stream'[s] = stream[s]
      BY <1>6, <2>4 DEF new, mid
    <3> QED BY <1>12, <2>1, <3>1
  <2> QED BY <2>2, <2>3, <2>4
<1>13. TrueStep
  BY <1>11, <1>12 DEF TrueStep
<1> QED BY <1>8, <1>13

\* A client that publishes and is closed without a reply: the streams of the others
\* may end in the message.
LEMMA PublishClosesTrue ==
  ASSUME StreamInv, NEW c \in Clients, NEW ch \in Channels, NEW m \in Messages, PublishCloses(c, ch, m)
  PROVE  StreamInv' /\ TrueStep
<1> DEFINE takers == Takers(ch, m)
           no     == commands + 1
           msg    == Message(ch, m, no)
           mid(s) == IF s \in takers THEN Append(stream[s], msg) ELSE stream[s]
<1>1. /\ no \in Nat /\ commands' = no /\ commands \in Nat /\ commands < no
      /\ \A s \in Clients : Numbered(stream[s], commands) /\ Listed(stream[s])
  BY DEF PublishCloses, InRegistry, Takes, StreamInv, Numbered
<1>2. stream' = [s \in Clients |-> IF s = c THEN <<>>
           ELSE stream[s] \o (IF s \in takers THEN <<msg>> ELSE <<>>)]
  BY DEF PublishCloses
<1>3. msg.kind = "array" /\ msg.value = no
  BY ResponseIs DEF Message
<1> HIDE DEF takers, no, msg
<1>4. /\ DOMAIN stream' = Clients /\ stream'[c] = <<>>
      /\ \A s \in Clients \ {c} : stream'[s] = mid(s)
  <2>1. ASSUME NEW s \in Clients
        PROVE  stream[s] \o (IF s \in takers THEN <<msg>> ELSE <<>>) = mid(s)
    <3>1. Listed(stream[s])
      BY <1>1
    <3> QED BY <3>1, Appended, NothingAppended
  <2> HIDE DEF mid
  <2> QED BY <1>2, <2>1
<1>5. Numbered(<<>>, no) /\ Len(<<>>) = 0
  BY DEF Numbered, Listed
<1>6. ASSUME NEW s \in Clients
      PROVE  Numbered(stream'[s], no)
  <2>1. Numbered(stream[s], no) /\ Numbered(Append(stream[s], msg), no)
    BY <1>1, <1>3, NumberedAppended
  <2> QED BY <1>4, <1>5, <2>1
<1>7. StreamInv'
  BY <1>1, <1>4, <1>6 DEF StreamInv
<1>8. ASSUME NEW s \in Clients, Len(stream'[s]) > Len(stream[s])
      PROVE  Last(stream'[s]).kind = "array"
  <2>1. Listed(stream[s]) /\ Len(stream[s]) \in Nat
    BY <1>1 DEF Listed
  <2>2. s # c /\ s \in takers
    BY <1>4, <1>5, <1>8, <2>1
  <2>3. stream'[s] = Append(stream[s], msg)
    BY <1>4, <2>2
  <2>4. Last(stream'[s]) = msg
    BY <2>1, <2>3, Appended DEF Last
  <2> QED BY <1>3, <2>4
<1> QED BY <1>7, <1>8 DEF TrueStep

\* Steps that queue nothing.
LEMMA QuietTrue ==
  ASSUME StreamInv, UNCHANGED commands, DOMAIN stream' = Clients,
         \A c \in Clients : stream'[c] = stream[c] \/ stream'[c] = <<>>
  PROVE  StreamInv' /\ TrueStep
<1>1. ASSUME NEW c \in Clients
      PROVE  Numbered(stream'[c], commands) /\ ~(Len(stream'[c]) > Len(stream[c]))
  <2>1. Numbered(stream[c], commands) /\ Len(stream[c]) \in Nat
    BY DEF StreamInv, Numbered, Listed
  <2>2. CASE stream'[c] = stream[c]
    BY <2>1, <2>2
  <2>3. CASE stream'[c] = <<>>
    <3>1. Numbered(<<>>, commands) /\ Len(<<>>) = 0
      BY DEF Numbered, Listed
    <3> QED BY <2>1, <2>3, <3>1
  <2> QED BY <2>2, <2>3
<1> QED BY <1>1 DEF StreamInv, TrueStep

LEMMA NextTrue ==
  ASSUME AskedInv, StreamInv, [Next]_vars
  PROVE  StreamInv' /\ TrueStep
<1>1. CASE Tick \/ UNCHANGED vars
  <2>1. UNCHANGED <<commands, stream>>
    BY <1>1 DEF Tick, Same, vars, clients
  <2> QED BY <2>1, QuietTrue DEF StreamInv
<1>2. ASSUME NEW c \in Clients,
             Connect(c) \/ Close(c) \/ \E n \in 1 .. Len(stream[c]) - sent[c] : Write(c, n)
      PROVE  StreamInv' /\ TrueStep
  <2>1. /\ UNCHANGED commands
        /\ stream' = stream \/ stream' = [stream EXCEPT ![c] = <<>>]
    BY <1>2 DEF Connect, Close, Write, Same
  <2>2. /\ DOMAIN stream' = Clients
        /\ \A x \in Clients : stream'[x] = stream[x] \/ stream'[x] = <<>>
    BY <2>1 DEF StreamInv
  <2> QED BY <2>1, <2>2, QuietTrue
<1>3. ASSUME NEW c \in Clients,
             \/ EmptyChannel(c)
             \/ \E kind \in {"simple", "bulk", "error"} : Answers(c, kind)
             \/ \E k \in Keys, d \in Data : Set(c, k, d)
             \/ \E k \in Keys, t \in Texts : BadSeconds(c, k, t) \/ \E d \in Data : SetEx(c, k, t, d)
             \/ \E ch \in Channels : Subscribe(c, ch) \/ SubscribeFails(c, ch) \/ Unsubscribe(c, ch)
      PROVE  StreamInv' /\ TrueStep
  BY <1>3, OtherTrue
<1>4. ASSUME NEW c \in Clients, Info(c)
      PROVE  StreamInv' /\ TrueStep
  BY <1>4, InfoTrue
<1>5. ASSUME NEW c \in Clients, NEW k \in Keys, Get(c, k) \/ Del(c, k) \/ Exists(c, k) \/ Ttl(c, k)
      PROVE  StreamInv' /\ TrueStep
  BY <1>5, GetTrue, KeyTrue, TtlTrue
<1>6. ASSUME NEW c \in Clients, NEW k \in Keys, NEW t \in Texts, ExpireNow(c, k, t) \/ Expire(c, k, t)
      PROVE  StreamInv' /\ TrueStep
  BY <1>6, KeyTrue, ExpireTrue
<1>7. ASSUME NEW c \in Clients, NEW ch \in Channels, NEW m \in Messages,
             Publish(c, ch, m) \/ PublishCloses(c, ch, m)
      PROVE  StreamInv' /\ TrueStep
  BY <1>7, PublishTrue, PublishClosesTrue
<1> QED BY <1>1, <1>2, <1>3, <1>4, <1>5, <1>6, <1>7 DEF Next

\* The streams stay sequences, and no message in them has a number to come.
THEOREM StreamsNumbered == Spec => []StreamInv
<1>1. Init => StreamInv
  <2> SUFFICES ASSUME Init PROVE StreamInv
    OBVIOUS
  <2>1. Numbered(<<>>, 0)
    BY DEF Numbered, Listed
  <2> QED BY <2>1 DEF Init, StreamInv
<1>2. AskedInv /\ StreamInv /\ [Next]_vars => StreamInv'
  BY NextTrue
<1> QED BY <1>1, <1>2, AskedInvariance, PTL DEF Spec

\* Every reply handle_command queues is true of the data as the earlier replies
\* describe it, and the count of a PUBLISH is the number of streams that carry
\* the message.
THEOREM AnswersTrue == Spec => RepliesAreTrue
<1>1. AskedInv /\ StreamInv /\ [Next]_vars => [TrueStep]_vars
  BY NextTrue
<1> QED BY <1>1, AskedInvariance, StreamsNumbered, PTL DEF Spec, RepliesAreTrue, TrueStep


-----------------------------------------------------------------------------
(* Messages: what a client has in its stream, and what it has to get.      *)

\* The places of the messages in s, and those up to i.
Msgs(s)       == {i \in DOMAIN s : s[i].kind = "array"}
MsgsTo(s, i)  == {j \in Msgs(s) : j <= i}

\* The messages in s are the first of d, in order; they are all of d.
Begins(s, d) ==
  /\ Listed(s) /\ Listed(d)
  /\ Cardinality(Msgs(s)) <= Len(d)
  /\ \A i \in Msgs(s) : s[i].value = d[Cardinality(MsgsTo(s, i))]
Complete(s, d) == Cardinality(Msgs(s)) = Len(d)

\* The last reply in s about a subscription to ch says that there is one.
ToldOf(s, ch) == {i \in DOMAIN s : /\ s[i].about \in {<<"SUBSCRIBE", ch>>, <<"UNSUBSCRIBE", ch>>}
                                   /\ s[i].kind # "error"}
HasLast(s, ch) == ToldOf(s, ch) # {} => Max(ToldOf(s, ch)) \in ToldOf(s, ch)
SaysSubscribed(s, ch) == ToldOf(s, ch) # {} /\ s[Max(ToldOf(s, ch))].about[1] = "SUBSCRIBE"

\* The inductive invariant: besides, the registry has the subscriptions that the
\* streams tell of.
MessageInv ==
  /\ DOMAIN due = Clients
  /\ \A c \in Clients : Begins(stream[c], due[c])
  /\ \A c \in Clients : c \notin dropped => Complete(stream[c], due[c])
  /\ \A c \in Clients, ch \in Channels : HasLast(stream[c], ch)
  /\ \A c \in Clients, ch \in Channels : <<ch, c>> \in subs <=> SaysSubscribed(stream[c], ch)


LEMMA ListedLen ==
  ASSUME NEW s, Listed(s)
  PROVE  Len(s) \in Nat
BY DEF Listed

LEMMA MsgsFinite ==
  ASSUME NEW s, Listed(s)
  PROVE  /\ DOMAIN s = 1 .. Len(s)
         /\ IsFiniteSet(Msgs(s)) /\ Cardinality(Msgs(s)) \in Nat
         /\ \A i \in Msgs(s) : Cardinality(MsgsTo(s, i)) \in 1 .. Cardinality(Msgs(s))
<1>1. DOMAIN s = 1 .. Len(s) /\ Len(s) \in Nat
  BY DEF Listed
<1>2. IsFiniteSet(1 .. Len(s))
  BY <1>1, FS_Interval
<1>3. IsFiniteSet(Msgs(s))
  BY <1>1, <1>2, FS_Subset DEF Msgs
<1>4. Cardinality(Msgs(s)) \in Nat
  BY <1>3, FS_CardinalityType
<1>5. ASSUME NEW i \in Msgs(s)
      PROVE  Cardinality(MsgsTo(s, i)) \in 1 .. Cardinality(Msgs(s))
  <2>1. MsgsTo(s, i) \subseteq Msgs(s) /\ i \in MsgsTo(s, i)
    BY <1>1 DEF MsgsTo, Msgs
  <2>2. IsFiniteSet(MsgsTo(s, i)) /\ Cardinality(MsgsTo(s, i)) <= Cardinality(Msgs(s))
    BY <1>3, <2>1, FS_Subset
  <2>3. Cardinality(MsgsTo(s, i)) \in Nat /\ Cardinality(MsgsTo(s, i)) # 0
    BY <2>1, <2>2, FS_CardinalityType, FS_EmptySet
  <2> QED BY <1>4, <2>2, <2>3
<1> QED BY <1>1, <1>3, <1>4, <1>5

\* A reply is queued.
LEMMA BeginsReply ==
  ASSUME NEW s, NEW d, Begins(s, d), NEW e, e.kind # "array"
  PROVE  Begins(Append(s, e), d) /\ (Complete(s, d) => Complete(Append(s, e), d))
<1> DEFINE t == Append(s, e)
<1>1. /\ Listed(s) /\ Listed(d) /\ Len(s) \in Nat
      /\ Listed(t) /\ Len(t) = Len(s) + 1 /\ t[Len(s) + 1] = e
      /\ \A i \in 1 .. Len(s) : t[i] = s[i]
  BY Appended, ListedLen, ZenonT(40) DEF Begins
<1>2. DOMAIN s = 1 .. Len(s) /\ DOMAIN t = 1 .. Len(s) + 1
  BY <1>1, MsgsFinite
<1> HIDE DEF t
<1>3. Msgs(t) = Msgs(s)
  <2>1. \A i \in 1 .. Len(s) + 1 : i \in 1 .. Len(s) \/ i = Len(s) + 1
    BY <1>1
  <2>2. \A i \in 1 .. Len(s) : i \in 1 .. Len(s) + 1
    BY <1>1
  <2> QED BY <1>1, <1>2, <2>1, <2>2 DEF Msgs
<1>4. \A i \in Msgs(s) : MsgsTo(t, i) = MsgsTo(s, i) /\ t[i] = s[i]
  BY <1>1, <1>2, <1>3 DEF MsgsTo, Msgs
<1>5. Begins(t, d) /\ (Complete(s, d) => Complete(t, d))
  BY <1>1, <1>3, <1>4 DEF Begins, Complete
<1> QED BY <1>5 DEF t

\* A message is due that the client does not get.
LEMMA BeginsLost ==
  ASSUME NEW s, NEW d, Begins(s, d), NEW v
  PROVE  Begins(s, Append(d, v))
<1> DEFINE f == Append(d, v)
<1>1. /\ Listed(s) /\ Listed(d) /\ Len(d) \in Nat
      /\ Listed(f) /\ Len(f) = Len(d) + 1
      /\ \A i \in 1 .. Len(d) : f[i] = d[i]
  BY Appended, ListedLen, ZenonT(40) DEF Begins
<1>2. /\ Cardinality(Msgs(s)) \in Nat /\ Cardinality(Msgs(s)) <= Len(d)
      /\ \A i \in Msgs(s) : Cardinality(MsgsTo(s, i)) \in 1 .. Cardinality(Msgs(s))
  BY <1>1, MsgsFinite DEF Begins
<1> HIDE DEF f
<1>3. ASSUME NEW i \in Msgs(s)
      PROVE  s[i].value = f[Cardinality(MsgsTo(s, i))]
  <2>1. Cardinality(MsgsTo(s, i)) \in 1 .. Len(d)
    BY <1>1, <1>2
  <2> QED BY <1>1, <2>1 DEF Begins
<1>4. Begins(s, f)
  BY <1>1, <1>2, <1>3 DEF Begins
<1> QED BY <1>4 DEF f

\* A message is due and the client, which has got all so far, gets it.
LEMMA BeginsMessage ==
  ASSUME NEW s, NEW d, Begins(s, d), Complete(s, d), NEW e, e.kind = "array"
  PROVE  Begins(Append(s, e), Append(d, e.value)) /\ Complete(Append(s, e), Append(d, e.value))
<1> DEFINE t == Append(s, e)
           f == Append(d, e.value)
           l == Len(s) + 1
<1>1. /\ Listed(s) /\ Listed(d) /\ Len(s) \in Nat /\ Len(d) \in Nat
      /\ Listed(t) /\ Len(t) = l /\ t[l] = e /\ \A i \in 1 .. Len(s) : t[i] = s[i]
  BY Appended, ListedLen, ZenonT(40) DEF Begins
<1>2. Listed(f) /\ Len(f) = Len(d) + 1 /\ f[Len(d) + 1] = e.value
  BY <1>1, Appended
<1>3. Begins(s, f)
  BY BeginsLost
<1>4. /\ DOMAIN s = 1 .. Len(s) /\ DOMAIN t = 1 .. l
      /\ l \in Nat /\ \A i \in 1 .. Len(s) : i < l /\ i \in 1 .. l
      /\ \A i \in 1 .. l : i \in 1 .. Len(s) \/ i = l
  BY <1>1, MsgsFinite
<1>5. IsFiniteSet(Msgs(s)) /\ Cardinality(Msgs(s)) = Len(d)
  BY <1>1, MsgsFinite DEF Complete
<1> HIDE DEF t, f, l
<1>6. Msgs(t) = Msgs(s) \cup {l} /\ l \notin Msgs(s) /\ Msgs(s) \subseteq 1 .. Len(s)
  <2>1. l \in 1 .. l
    BY <1>1, <1>4 DEF l
  <2>2. l \notin 1 .. Len(s)
    BY <1>1 DEF l
  <2> QED BY <1>1, <1>4, <2>1, <2>2 DEF Msgs
<1>7. Cardinality(Msgs(t)) = Len(d) + 1
  BY <1>5, <1>6, FS_AddElement
<1>8. ASSUME NEW i \in Msgs(t)
      PROVE  t[i].value = f[Cardinality(MsgsTo(t, i))]
  <2>1. CASE i = l
    <3>1. \A j \in Msgs(t) : j <= l
      BY <1>1, <1>4, <1>6 DEF l
    <3>2. MsgsTo(t, l) = Msgs(t)
      BY <3>1 DEF MsgsTo
    <3> QED BY <1>1, <1>2, <1>7, <2>1, <3>2
  <2>2. CASE i \in Msgs(s)
    <3>1. i \in 1 .. Len(s) /\ ~(l <= i)
      BY <1>1, <1>4, <1>6, <2>2 DEF l
    <3>2. MsgsTo(t, i) = MsgsTo(s, i)
      BY <1>6, <3>1 DEF MsgsTo
    <3>3. t[i] = s[i]
      BY <1>1, <3>1
    <3> QED BY <1>3, <2>2, <3>2, <3>3 DEF Begins
  <2> QED BY <1>6, <2>1, <2>2
<1>9. Begins(t, f) /\ Complete(t, f)
  BY <1>1, <1>2, <1>7, <1>8 DEF Begins, Complete
<1> QED BY <1>9 DEF t, f

\* What is queued behind a stream, and what it tells of the channel ch.
LEMMA ToldAppended ==
  ASSUME NEW s, Listed(s), NEW e, NEW ch, HasLast(s, ch)
  PROVE  /\ HasLast(Append(s, e), ch)
         /\ e.kind = "error" \/ e.about \notin {<<"SUBSCRIBE", ch>>, <<"UNSUBSCRIBE", ch>>} =>
              (SaysSubscribed(Append(s, e), ch) <=> SaysSubscribed(s, ch))
         /\ e.kind # "error" /\ e.about = <<"SUBSCRIBE", ch>> => SaysSubscribed(Append(s, e), ch)
         /\ e.kind # "error" /\ e.about = <<"UNSUBSCRIBE", ch>> => ~SaysSubscribed(Append(s, e), ch)
<1> DEFINE t == Append(s, e)
           l == Len(s) + 1
           S == ToldOf(s, ch)
           T == ToldOf(t, ch)
<1>1. /\ Len(s) \in Nat /\ Listed(t) /\ Len(t) = l /\ t[l] = e /\ \A i \in 1 .. Len(s) : t[i] = s[i]
  BY Appended, ListedLen, ZenonT(40)
<1>2. /\ DOMAIN s = 1 .. Len(s) /\ DOMAIN t = 1 .. l
      /\ l \in Nat /\ l \in 1 .. l /\ l \notin 1 .. Len(s)
      /\ \A i \in 1 .. Len(s) : i \in 1 .. l
      /\ \A i \in 1 .. l : i \in 1 .. Len(s) \/ i = l
  BY <1>1, MsgsFinite
<1> HIDE DEF t, l
<1>3. S \subseteq 1 .. Len(s)
  BY <1>2 DEF ToldOf
<1>4. ASSUME e.kind = "error" \/ e.about \notin {<<"SUBSCRIBE", ch>>, <<"UNSUBSCRIBE", ch>>}
      PROVE  (SaysSubscribed(t, ch) <=> SaysSubscribed(s, ch)) /\ HasLast(t, ch)
  <2>1. T = S
    BY <1>1, <1>2, <1>4 DEF ToldOf
  <2>2. S # {} => Max(S) \in 1 .. Len(s)
    BY <1>3 DEF HasLast
  <2>3. S # {} => t[Max(S)] = s[Max(S)]
    BY <1>1, <2>2
  <2> QED BY <2>1, <2>3 DEF SaysSubscribed, HasLast
<1>5. ASSUME e.kind # "error", e.about \in {<<"SUBSCRIBE", ch>>, <<"UNSUBSCRIBE", ch>>}
      PROVE  (SaysSubscribed(t, ch) <=> e.about[1] = "SUBSCRIBE") /\ HasLast(t, ch)
  <2>1. l \in T /\ \A i \in T : l >= i
    <3>1. \A i \in 1 .. l : l >= i
      BY <1>2
    <3> QED BY <1>1, <1>2, <1>5, <3>1 DEF ToldOf
  <2>2. T \subseteq 1 .. l
    BY <1>2 DEF ToldOf
  <2> HIDE DEF T
  <2>3. Max(T) = l
    <3>1. Max(T) \in T /\ \A i \in T : Max(T) >= i
      BY <2>1 DEF Max
    <3>2. PICK x \in T : x = Max(T)
      BY <3>1
    <3>3. x \in Nat /\ x >= l /\ l >= x
      BY <1>2, <2>1, <2>2, <3>1, <3>2
    <3> QED BY <1>2, <3>2, <3>3
  <2> QED BY <1>1, <2>1, <2>3 DEF SaysSubscribed, HasLast, T
<1> QED BY <1>4, <1>5 DEF t


\* A reply is queued, and the registry follows what it says.
LEMMA ReplyMessages ==
  ASSUME StreamInv, MessageInv, NEW c \in Clients, NEW r, r.kind # "array", Replies(c, r),
         UNCHANGED due,
         \A x \in Clients \ {c}, ch \in Channels : <<ch, x>> \in subs' <=> <<ch, x>> \in subs,
         \A ch \in Channels : <<ch, c>> \in subs' <=> SaysSubscribed(Append(stream[c], r), ch)
  PROVE  MessageInv'
<1>1. /\ stream'[c] = Append(stream[c], r) /\ dropped' = dropped
      /\ \A x \in Clients \ {c} : stream'[x] = stream[x]
  BY DEF Replies, StreamInv
<1>2. /\ DOMAIN due = Clients
      /\ \A x \in Clients : Begins(stream[x], due[x]) /\ Listed(stream[x])
      /\ \A x \in Clients : x \notin dropped => Complete(stream[x], due[x])
      /\ \A x \in Clients, ch \in Channels : HasLast(stream[x], ch)
      /\ \A x \in Clients, ch \in Channels : <<ch, x>> \in subs <=> SaysSubscribed(stream[x], ch)
  BY DEF MessageInv, Begins
<1>3. /\ Begins(stream'[c], due[c])
      /\ Complete(stream[c], due[c]) => Complete(stream'[c], due[c])
  BY <1>1, <1>2, BeginsReply
<1>4. \A ch \in Channels : HasLast(stream'[c], ch)
  BY <1>1, <1>2, ToldAppended
<1>5. ASSUME NEW x \in Clients, NEW ch \in Channels
      PROVE  HasLast(stream'[x], ch) /\ (<<ch, x>> \in subs' <=> SaysSubscribed(stream'[x], ch))
  BY <1>1, <1>2, <1>4
<1>6. ASSUME NEW x \in Clients
      PROVE  Begins(stream'[x], due[x]) /\ (x \notin dropped => Complete(stream'[x], due[x]))
  BY <1>1, <1>2, <1>3
<1> QED BY <1>1, <1>2, <1>5, <1>6 DEF MessageInv

\* A reply is queued that says nothing of a subscription.
LEMMA PlainMessages ==
  ASSUME StreamInv, MessageInv, NEW c \in Clients, NEW kind, kind # "array", NEW value, NEW x, NEW y,
         Replies(c, Response(kind, value, <<x, y>>)), UNCHANGED <<subs, due>>,
         kind = "error" \/ x \notin {"SUBSCRIBE", "UNSUBSCRIBE"} \/ y \notin Channels
  PROVE  MessageInv'
<1> DEFINE r == Response(kind, value, <<x, y>>)
<1>1. r.about = <<x, y>> /\ r.kind = kind
  BY ResponseIs
<1>2. Replies(c, r)
  OBVIOUS
<1> HIDE DEF r
<1>3. /\ Listed(stream[c]) /\ \A ch \in Channels : HasLast(stream[c], ch)
      /\ \A ch \in Channels : <<ch, c>> \in subs <=> SaysSubscribed(stream[c], ch)
  BY DEF MessageInv, Begins
<1>4. ASSUME NEW ch \in Channels
      PROVE  <<ch, c>> \in subs' <=> SaysSubscribed(Append(stream[c], r), ch)
  <2>1. r.kind = "error" \/ r.about \notin {<<"SUBSCRIBE", ch>>, <<"UNSUBSCRIBE", ch>>}
    BY <1>1
  <2>2. SaysSubscribed(Append(stream[c], r), ch) <=> SaysSubscribed(stream[c], ch)
    BY <1>3, <2>1, ToldAppended
  <2> QED BY <1>3, <2>2
<1> QED BY <1>1, <1>2, <1>4, ReplyMessages

\* A reply is queued that says that there is a subscription, or none.
LEMMA ToldMessages ==
  ASSUME StreamInv, MessageInv, NEW c \in Clients, NEW h \in Channels,
         NEW kind \in {"simple", "integer"}, NEW value, NEW x \in {"SUBSCRIBE", "UNSUBSCRIBE"},
         Replies(c, Response(kind, value, <<x, h>>)), UNCHANGED due,
         subs' = IF x = "SUBSCRIBE" THEN subs \cup {<<h, c>>} ELSE subs \ {<<h, c>>}
  PROVE  MessageInv'
<1> DEFINE r == Response(kind, value, <<x, h>>)
<1>1. r.about = <<x, h>> /\ r.kind = kind
  BY ResponseIs
<1>2. Replies(c, r)
  OBVIOUS
<1> HIDE DEF r
<1>3. /\ Listed(stream[c]) /\ \A ch \in Channels : HasLast(stream[c], ch)
      /\ \A ch \in Channels : <<ch, c>> \in subs <=> SaysSubscribed(stream[c], ch)
  BY DEF MessageInv, Begins
<1>4. ASSUME NEW ch \in Channels
      PROVE  <<ch, c>> \in subs' <=> SaysSubscribed(Append(stream[c], r), ch)
  <2>1. CASE ch = h /\ x = "SUBSCRIBE"
    <3>1. SaysSubscribed(Append(stream[c], r), ch)
      BY <1>1, <1>3, <2>1, ToldAppended
    <3> QED BY <2>1, <3>1
  <2>2. CASE ch = h /\ x = "UNSUBSCRIBE"
    <3>1. ~SaysSubscribed(Append(stream[c], r), ch)
      BY <1>1, <1>3, <2>2, ToldAppended
    <3> QED BY <2>2, <3>1
  <2>3. CASE ch # h
    <3>1. r.about \notin {<<"SUBSCRIBE", ch>>, <<"UNSUBSCRIBE", ch>>}
      BY <1>1, <2>3
    <3>2. SaysSubscribed(Append(stream[c], r), ch) <=> SaysSubscribed(stream[c], ch)
      BY <1>3, <3>1, ToldAppended
    <3>3. <<ch, c>> # <<h, c>>
      BY <2>3
    <3> QED BY <1>3, <3>2, <3>3
  <2> QED BY <2>1, <2>2, <2>3
<1>5. \A y \in Clients \ {c}, ch \in Channels : <<ch, y>> \in subs' <=> <<ch, y>> \in subs
  <2>1. \A y \in Clients \ {c}, ch \in Channels : <<ch, y>> # <<h, c>>
    OBVIOUS
  <2> QED BY <2>1
<1>6. r.kind # "array"
  BY <1>1
<1> QED BY <1>2, <1>4, <1>5, <1>6, ReplyMessages

LEMMA SubscribeMessages ==
  ASSUME StreamInv, MessageInv, NEW c \in Clients, NEW h \in Channels,
         Subscribe(c, h) \/ Unsubscribe(c, h)
  PROVE  MessageInv'
<1>1. CASE Subscribe(c, h)
  <2>1. /\ Replies(c, Response("simple", "OK", <<"SUBSCRIBE", h>>))
        /\ subs' = subs \cup {<<h, c>>} /\ due' = due
    BY <1>1 DEF Subscribe, Registry!Subscribe
  <2> QED BY <2>1, ToldMessages
<1>2. CASE Unsubscribe(c, h)
  <2>1. /\ Replies(c, Response("integer", IF ret'.status = "OK" THEN 1 ELSE 0, <<"UNSUBSCRIBE", h>>))
        /\ subs' = subs \ {<<h, c>>} /\ due' = due
    BY <1>2 DEF Unsubscribe, Registry!Unsubscribe
  <2> QED BY <2>1, ToldMessages
<1> QED BY <1>1, <1>2

\* A message goes to the subscribers of a channel that accept it: what is in their
\* streams then, before any reply.
LEMMA DeliveredMessages ==
  ASSUME MessageInv, NEW h \in Channels, NEW m \in Messages, NEW no
  PROVE  LET who    == Registry!SubscribersOf(h)
             mid(s) == IF s \in Takers(h, m) THEN Append(stream[s], Message(h, m, no)) ELSE stream[s]
             then(s) == IF Subscribed(s, h) THEN Append(due[s], no) ELSE due[s]
             lost   == dropped \cup (who \ Takers(h, m))
         IN  \A s \in Clients :
               /\ mid(s) = stream[s] \o (IF s \in Takers(h, m) THEN <<Message(h, m, no)>> ELSE <<>>)
               /\ Listed(mid(s)) /\ Begins(mid(s), then(s))
               /\ s \notin lost => Complete(mid(s), then(s))
               /\ \A ch \in Channels : /\ HasLast(mid(s), ch)
                                       /\ <<ch, s>> \in subs <=> SaysSubscribed(mid(s), ch)
<1> DEFINE who     == Registry!SubscribersOf(h)
           takers  == Takers(h, m)
           msg     == Message(h, m, no)
           mid(s)  == IF s \in takers THEN Append(stream[s], msg) ELSE stream[s]
           then(s) == IF Subscribed(s, h) THEN Append(due[s], no) ELSE due[s]
           lost    == dropped \cup (who \ takers)
<1>1. /\ \A s \in Clients : Begins(stream[s], due[s]) /\ Listed(stream[s])
      /\ \A s \in Clients : s \notin dropped => Complete(stream[s], due[s])
      /\ \A s \in Clients, ch \in Channels : HasLast(stream[s], ch)
      /\ \A s \in Clients, ch \in Channels : <<ch, s>> \in subs <=> SaysSubscribed(stream[s], ch)
  BY DEF MessageInv, Begins
<1>2. takers \subseteq who /\ \A s \in takers : s \notin dropped
  BY DEF Takers, Accepts
<1>3. \A s \in Clients : s \in who <=> Subscribed(s, h)
  BY <1>1 DEF Registry!SubscribersOf, Subscribed, SaysSubscribed, ToldOf
<1>4. \A s \in Clients : then(s) = IF s \in who THEN Append(due[s], no) ELSE due[s]
  BY <1>3
<1>5. msg.kind = "array" /\ msg.value = no /\ msg.about = <<"message", h>>
  BY DEF Message
<1> HIDE DEF who, takers, msg, then
<1>6. ASSUME NEW s \in Clients
      PROVE  mid(s) = stream[s] \o (IF s \in takers THEN <<msg>> ELSE <<>>) /\ Listed(mid(s))
  BY <1>1, Appended, NothingAppended
<1>7. ASSUME NEW s \in Clients
      PROVE  Begins(mid(s), then(s)) /\ (s \notin lost => Complete(mid(s), then(s)))
  <2>1. CASE s \in takers
    <3>1. mid(s) = Append(stream[s], msg) /\ then(s) = Append(due[s], msg.value)
      BY <1>2, <1>4, <1>5, <2>1
    <3>2. Begins(stream[s], due[s]) /\ Complete(stream[s], due[s])
      BY <1>1, <1>2, <2>1
    <3> QED BY <1>5, <3>1, <3>2, BeginsMessage
  <2>2. CASE s \in who \ takers
    <3>1. mid(s) = stream[s] /\ then(s) = Append(due[s], no) /\ s \in lost
      BY <1>4, <2>2
    <3>2. Begins(stream[s], Append(due[s], no))
      BY <1>1, BeginsLost
    <3> QED BY <3>1, <3>2
  <2>3. CASE s \notin who
    <3>1. mid(s) = stream[s] /\ then(s) = due[s] /\ (s \in lost <=> s \in dropped)
      BY <1>2, <1>4, <2>3
    <3> QED BY <1>1, <3>1
  <2> QED BY <2>1, <2>2, <2>3
<1>8. ASSUME NEW s \in Clients, NEW ch \in Channels
      PROVE  HasLast(mid(s), ch) /\ (<<ch, s>> \in subs <=> SaysSubscribed(mid(s), ch))
  <2>1. msg.about \notin {<<"SUBSCRIBE", ch>>, <<"UNSUBSCRIBE", ch>>}
    BY <1>5
  <2>2. HasLast(mid(s), ch) /\ (SaysSubscribed(mid(s), ch) <=> SaysSubscribed(stream[s], ch))
    BY <1>1, <2>1, ToldAppended
  <2> QED BY <1>1, <2>2
<1> QED BY <1>6, <1>7, <1>8 DEF who, takers, msg, then

\* The reply is queued behind the message; clients that lost it are dropped.
LEMMA PublishMessages ==
  ASSUME StreamInv, MessageInv, NEW c \in Clients, NEW h \in Channels, NEW m \in Messages,
         Publish(c, h, m)
  PROVE  MessageInv'
<1> DEFINE takers == Takers(h, m)
           no     == commands + 1
           msg    == Message(h, m, no)
           r      == Response("integer", ret'.count, <<"PUBLISH", h>>)
           mid(s) == IF s \in takers THEN Append(stream[s], msg) ELSE stream[s]
           then(s) == IF Subscribed(s, h) THEN Append(due[s], no) ELSE due[s]
           new(s) == IF s = c THEN Append(mid(s), r) ELSE mid(s)
           lost   == dropped \cup (Registry!SubscribersOf(h) \ takers)
<1>1. /\ subs' = subs /\ dropped' = lost
      /\ DOMAIN due' = Clients /\ \A s \in Clients : due'[s] = then(s)
      /\ stream' = [s \in Clients |->
           stream[s] \o (IF s \in takers THEN <<msg>> ELSE <<>>) \o (IF s = c THEN <<r>> ELSE <<>>)]
  BY DEF Publish, Registry!Publish
<1>2. r.kind = "integer" /\ r.about = <<"PUBLISH", h>>
  BY ResponseIs
<1>3. ASSUME NEW s \in Clients
      PROVE  /\ mid(s) = stream[s] \o (IF s \in takers THEN <<msg>> ELSE <<>>)
             /\ Listed(mid(s)) /\ Begins(mid(s), due'[s])
             /\ s \notin dropped' => Complete(mid(s), due'[s])
             /\ \A ch \in Channels : /\ HasLast(mid(s), ch)
                                     /\ <<ch, s>> \in subs <=> SaysSubscribed(mid(s), ch)
  <2>1. /\ mid(s) = stream[s] \o (IF s \in takers THEN <<msg>> ELSE <<>>)
        /\ Listed(mid(s)) /\ Begins(mid(s), then(s))
        /\ s \notin lost => Complete(mid(s), then(s))
        /\ \A ch \in Channels : /\ HasLast(mid(s), ch)
                                /\ <<ch, s>> \in subs <=> SaysSubscribed(mid(s), ch)
    BY DeliveredMessages
  <2> HIDE DEF takers, no, msg, then, mid, lost
  <2> QED BY <1>1, <2>1
<1> HIDE DEF takers, no, msg, r, then, mid, lost
<1>4. ASSUME NEW s \in Clients
      PROVE  stream'[s] = new(s)
  <2>1. mid(s) \o (IF s = c THEN <<r>> ELSE <<>>) = new(s)
    BY <1>3, Appended, NothingAppended
  <2> QED BY <1>1, <1>3, <2>1
<1>5. ASSUME NEW s \in Clients
      PROVE  Begins(stream'[s], due'[s]) /\ (s \notin dropped' => Complete(stream'[s], due'[s]))
  <2>1. /\ Begins(Append(mid(s), r), due'[s])
        /\ Complete(mid(s), due'[s]) => Complete(Append(mid(s), r), due'[s])
    BY <1>2, <1>3, BeginsReply
  <2> QED BY <1>3, <1>4, <2>1
<1>6. ASSUME NEW s \in Clients, NEW ch \in Channels
      PROVE  HasLast(stream'[s], ch) /\ (<<ch, s>> \in subs' <=> SaysSubscribed(stream'[s], ch))
  <2>1. r.about \notin {<<"SUBSCRIBE", ch>>, <<"UNSUBSCRIBE", ch>>}
    BY <1>2
  <2>2. /\ HasLast(Append(mid(s), r), ch)
        /\ SaysSubscribed(Append(mid(s), r), ch) <=> SaysSubscribed(mid(s), ch)
    BY <1>3, <2>1, ToldAppended
  <2> QED BY <1>1, <1>3, <1>4, <2>2
<1> QED BY <1>1, <1>5, <1>6 DEF MessageInv

LEMMA EmptyBegins == Begins(<<>>, <<>>) /\ Complete(<<>>, <<>>)
<1>1. Msgs(<<>>) = {}
  BY DEF Msgs
<1> QED BY <1>1, FS_EmptySet DEF Begins, Complete, Listed

\* A client is closed and leaves the registry; the others have what they had, or
\* what is consistent as well.
LEMMA ClosedMessages ==
  ASSUME NEW c \in Clients,
         stream'[c] = <<>>, due'[c] = <<>>, DOMAIN due' = Clients,
         subs' = subs \ {p \in subs : p[2] = c},
         \A x \in Clients \ {c} : /\ Begins(stream'[x], due'[x])
                                  /\ x \notin dropped' => Complete(stream'[x], due'[x]),
         \A x \in Clients \ {c}, ch \in Channels :
           HasLast(stream'[x], ch) /\ (<<ch, x>> \in subs <=> SaysSubscribed(stream'[x], ch))
  PROVE  MessageInv'
<1>1. \A ch : ToldOf(<<>>, ch) = {}
  BY DEF ToldOf
<1>2. Begins(<<>>, <<>>) /\ Complete(<<>>, <<>>)
  BY EmptyBegins
<1>3. \A ch : HasLast(<<>>, ch) /\ ~SaysSubscribed(<<>>, ch)
  BY <1>1 DEF HasLast, SaysSubscribed
<1>4. ASSUME NEW x \in Clients, NEW ch \in Channels
      PROVE  HasLast(stream'[x], ch) /\ (<<ch, x>> \in subs' <=> SaysSubscribed(stream'[x], ch))
  <2>1. <<ch, x>>[2] = x
    OBVIOUS
  <2>2. <<ch, x>> \in subs' <=> <<ch, x>> \in subs /\ x # c
    BY <2>1
  <2> QED BY <1>3, <2>2
<1>5. ASSUME NEW x \in Clients
      PROVE  Begins(stream'[x], due'[x]) /\ (x \notin dropped' => Complete(stream'[x], due'[x]))
  BY <1>2
<1> QED BY <1>4, <1>5 DEF MessageInv

\* A connection is closed.
LEMMA CloseMessages ==
  ASSUME StreamInv, MessageInv, NEW c \in Clients, Close(c)
  PROVE  MessageInv'
<1>1. /\ stream'[c] = <<>> /\ \A x \in Clients \ {c} : stream'[x] = stream[x]
      /\ due'[c] = <<>> /\ \A x \in Clients \ {c} : due'[x] = due[x]
      /\ DOMAIN due' = Clients /\ dropped' = dropped \ {c}
      /\ subs' = subs \ {p \in subs : p[2] = c}
  BY DEF Close, LeavesRegistry, Registry!RemoveClient, Registry!PairsOf, StreamInv, MessageInv
<1>2. \A x \in Clients \ {c} : /\ Begins(stream'[x], due'[x])
                               /\ x \notin dropped' => Complete(stream'[x], due'[x])
  BY <1>1 DEF MessageInv
<1>3. \A x \in Clients \ {c}, ch \in Channels :
        HasLast(stream'[x], ch) /\ (<<ch, x>> \in subs <=> SaysSubscribed(stream'[x], ch))
  BY <1>1 DEF MessageInv
<1> QED BY <1>1, <1>2, <1>3, ClosedMessages

\* A client has published and is closed without a reply.
LEMMA PublishClosesMessages ==
  ASSUME StreamInv, MessageInv, NEW c \in Clients, NEW h \in Channels, NEW m \in Messages,
         PublishCloses(c, h, m)
  PROVE  MessageInv'
<1> DEFINE takers  == Takers(h, m)
           no      == commands + 1
           msg     == Message(h, m, no)
           mid(s)  == IF s \in takers THEN Append(stream[s], msg) ELSE stream[s]
           then(s) == IF Subscribed(s, h) THEN Append(due[s], no) ELSE due[s]
           lost    == dropped \cup (Registry!SubscribersOf(h) \ takers)
<1>1. /\ subs' = subs \ {p \in subs : p[2] = c} /\ dropped' = lost \ {c}
      /\ DOMAIN due' = Clients /\ due'[c] = <<>> /\ \A s \in Clients \ {c} : due'[s] = then(s)
      /\ stream'[c] = <<>>
      /\ \A s \in Clients \ {c} : stream'[s] = stream[s] \o (IF s \in takers THEN <<msg>> ELSE <<>>)
  BY DEF PublishCloses, LeavesRegistry, Registry!RemoveClient, Registry!PairsOf
<1>2. ASSUME NEW s \in Clients
      PROVE  /\ mid(s) = stream[s] \o (IF s \in takers THEN <<msg>> ELSE <<>>)
             /\ Begins(mid(s), then(s)) /\ (s \notin lost => Complete(mid(s), then(s)))
             /\ \A ch \in Channels : /\ HasLast(mid(s), ch)
                                     /\ <<ch, s>> \in subs <=> SaysSubscribed(mid(s), ch)
  BY DeliveredMessages
<1> HIDE DEF takers, no, msg, then, mid, lost
<1>3. \A x \in Clients \ {c} : /\ Begins(stream'[x], due'[x])
                               /\ x \notin dropped' => Complete(stream'[x], due'[x])
  BY <1>1, <1>2
<1>4. \A x \in Clients \ {c}, ch \in Channels :
        HasLast(stream'[x], ch) /\ (<<ch, x>> \in subs <=> SaysSubscribed(stream'[x], ch))
  BY <1>1, <1>2
<1> QED BY <1>1, <1>3, <1>4, ClosedMessages

LEMMA NextMessages ==
  ASSUME StreamInv, MessageInv, [Next]_vars
  PROVE  MessageInv'
<1>1. ASSUME UNCHANGED <<stream, due, dropped, subs>> PROVE MessageInv'
  BY <1>1 DEF MessageInv
<1>2. CASE Tick \/ UNCHANGED vars
  BY <1>1, <1>2 DEF Tick, vars, clients, registry
<1>3. ASSUME NEW c \in Clients,
             Connect(c) \/ \E n \in 1 .. Len(stream[c]) - sent[c] : Write(c, n)
      PROVE  MessageInv'
  BY <1>1, <1>3 DEF Connect, Write, registry
<1>4. ASSUME NEW c \in Clients, Close(c)
      PROVE  MessageInv'
  BY <1>4, CloseMessages
<1>5. ASSUME NEW c \in Clients, NEW h \in Channels,
             \/ Subscribe(c, h) \/ Unsubscribe(c, h) \/ SubscribeFails(c, h)
             \/ \E m \in Messages : Publish(c, h, m) \/ PublishCloses(c, h, m)
      PROVE  MessageInv'
  <2>1. CASE SubscribeFails(c, h)
    BY <2>1, PlainMessages DEF SubscribeFails, Registry!Refused
  <2> QED BY <1>5, <2>1, SubscribeMessages, PublishMessages, PublishClosesMessages
<1>6. ASSUME NEW c \in Clients, EmptyChannel(c)
      PROVE  MessageInv'
  BY <1>6, PlainMessages, NameAssumption DEF EmptyChannel, Registry!Refused
<1>7. ASSUME NEW c \in Clients, Info(c) \/ \E kind \in {"simple", "bulk", "error"} : Answers(c, kind)
      PROVE  MessageInv'
  <2>1. CASE Info(c)
    BY <2>1, PlainMessages DEF Info, Registry!Counts
  <2>2. ASSUME NEW kind \in {"simple", "bulk", "error"}, Answers(c, kind)
        PROVE  MessageInv'
    BY <2>2, PlainMessages DEF Answers, registry
  <2> QED BY <1>7, <2>1, <2>2
<1>8. ASSUME NEW c \in Clients, NEW k \in Keys, Get(c, k) \/ Del(c, k) \/ Exists(c, k) \/ Ttl(c, k)
      PROVE  MessageInv'
  <2>1. UNCHANGED <<subs, due>>
    BY <1>8 DEF Get, Del, Exists, Ttl, InStore, registry
  <2>2. \/ Replies(c, Response("nil", NULL, <<"GET", k>>))
        \/ Replies(c, Response("bulk", kv'.data, <<"GET", k>>))
        \/ Replies(c, Response("integer", kv'.count, <<"DEL", k>>))
        \/ Replies(c, Response("integer", kv'.count, <<"EXISTS", k>>))
        \/ Replies(c, Response("integer", kv'.count, <<"TTL", k>>))
    BY <1>8 DEF Get, Del, Exists, Ttl
  <2> QED BY <2>1, <2>2, PlainMessages
<1>9. ASSUME NEW c \in Clients, NEW k \in Keys, NEW d \in Data, Set(c, k, d)
      PROVE  MessageInv'
  BY <1>9, PlainMessages DEF Set, InStore, registry
<1>10. ASSUME NEW c \in Clients, NEW k \in Keys, NEW t \in Texts,
              \/ BadSeconds(c, k, t) \/ ExpireNow(c, k, t) \/ Expire(c, k, t)
              \/ \E d \in Data : SetEx(c, k, t, d)
       PROVE  MessageInv'
  <2>1. UNCHANGED <<subs, due>>
    BY <1>10 DEF BadSeconds, ExpireNow, Expire, SetEx, InStore, registry
  <2>2. \/ Replies(c, Response("simple", "OK", <<"SETEX", k>>))
        \/ Replies(c, Response("error", "unable to store value", <<"SETEX", k>>))
        \/ Replies(c, Response("error", "invalid expire time", <<"SETEX", k>>))
        \/ Replies(c, Response("error", "invalid expire time", <<"EXPIRE", k>>))
        \/ Replies(c, Response("integer", kv'.count, <<"EXPIRE", k>>))
        \/ Replies(c, Response("integer", IF kv'.code = "UPDATED" THEN 1 ELSE 0, <<"EXPIRE", k>>))
    BY <1>10 DEF BadSeconds, ExpireNow, Expire, ExpireReply, SetEx
  <2> QED BY <2>1, <2>2, PlainMessages
<1> QED BY <1>2, <1>3, <1>4, <1>5, <1>6, <1>7, <1>8, <1>9, <1>10 DEF Next

\* The registry has the subscriptions the replies to SUBSCRIBE and UNSUBSCRIBE have
\* told of, and each stream the messages due to it.
THEOREM MessageInvariance == Spec => []MessageInv
<1>1. Init => MessageInv
  <2> SUFFICES ASSUME Init PROVE MessageInv
    OBVIOUS
  <2>1. Msgs(<<>>) = {} /\ \A ch : ToldOf(<<>>, ch) = {}
    BY DEF Msgs, ToldOf
  <2>2. Begins(<<>>, <<>>) /\ Complete(<<>>, <<>>)
    BY <2>1, FS_EmptySet DEF Begins, Complete, Listed
  <2>3. \A ch : HasLast(<<>>, ch) /\ ~SaysSubscribed(<<>>, ch)
    BY <2>1 DEF HasLast, SaysSubscribed
  <2> QED BY <2>2, <2>3 DEF Init, Registry!Init, MessageInv
<1>2. StreamInv /\ MessageInv /\ [Next]_vars => MessageInv'
  BY NextMessages
<1> QED BY <1>1, <1>2, StreamsNumbered, PTL DEF Spec

\* A client's stream has the messages published while its replies said it was
\* subscribed, each once and in order; deliver_pubsub_message leaves no gap, since
\* a client that cannot take one is dropped, and ks_pubsub_remove_client keeps them
\* from the next connection.
THEOREM MessagesDelivered == Spec => []MessagesAsSubscribed
<1>1. MessageInv => MessagesAsSubscribed
  BY DEF MessageInv, MessagesAsSubscribed, Begins, Complete, Msgs, MsgsTo
<1> QED BY <1>1, MessageInvariance, PTL

=============================================================================
