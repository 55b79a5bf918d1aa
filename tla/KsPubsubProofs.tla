--------------------------- MODULE KsPubsubProofs ---------------------------
(***************************************************************************)
(* The lists and counters of src/ks_pubsub.c implement a set of pairs, for *)
(* any channels and clients.                                               *)
(***************************************************************************)
EXTENDS KsPubsub, TLAPS, FiniteSetTheorems, SequenceTheorems

-----------------------------------------------------------------------------
(* Lists without duplicates.                                               *)

Distinct(s) == \A x, y \in DOMAIN s : s[x] = s[y] => x = y

\* Min (of FiniteSetsExt) is the least element of a set of naturals.
LEMMA MinIsLeast ==
  ASSUME NEW S \in SUBSET Nat, S # {}
  PROVE  Min(S) \in S /\ \A y \in S : Min(S) <= y
<1> DEFINE R == OpToRel(<, Nat)
<1>1. \A x, y \in Nat : y < x => <<y, x>> \in R
  BY DEF OpToRel
<1>2. IsWellFoundedOn(R, Nat)
  BY NatLessThanWellFounded
<1> HIDE DEF R
<1>3. PICK x \in S : \A y \in S : ~(<<y, x>> \in R)
  BY <1>2, WFMin
<1>4. ASSUME NEW y \in S
      PROVE  x <= y
  <2>1. ~(<<y, x>> \in R)
    BY <1>3
  <2>2. ~(y < x)
    BY <1>1, <2>1
  <2> QED BY <2>2
<1> QED BY <1>4 DEF Min

\* The i-th element of s is unlinked, t is left.
Unlinks(S, s, i, t) == s \in Seq(S) /\ i \in 1 .. Len(s) /\ t = RemoveAt(s, i)

LEMMA Unlinked ==
  ASSUME NEW S, NEW s, NEW i, NEW t, Unlinks(S, s, i, t)
  PROVE  /\ t \in Seq(S) /\ Len(t) = Len(s) - 1
         /\ \A j \in 1 .. Len(t) : t[j] = IF j < i THEN s[j] ELSE s[j + 1]
<1> USE DEF Unlinks
<1> DEFINE a == SubSeq(s, 1, i - 1)
           b == SubSeq(s, i + 1, Len(s))
           n == Len(s)
<1>1. /\ a \in Seq(S) /\ Len(a) = i - 1 /\ \A j \in 1 .. i - 1 : a[j] = s[j]
      /\ b \in Seq(S) /\ Len(b) = n - i /\ \A j \in 1 .. n - i : b[j] = s[j + i]
      /\ n \in Nat /\ i \in 1 .. n
  OBVIOUS
<1>2. t = a \o b
  BY DEF RemoveAt
<1> HIDE DEF a, b
<1>3. /\ t \in Seq(S) /\ Len(t) = Len(a) + Len(b)
      /\ \A j \in 1 .. Len(a) : t[j] = a[j]
      /\ \A j \in 1 .. Len(a) + Len(b) : j > Len(a) => t[j] = b[j - Len(a)]
  <2>1. a \in Seq(S) /\ b \in Seq(S)
    BY <1>1
  <2> QED BY <2>1, <1>2
<1> HIDE DEF n
<1>4. Len(t) = n - 1
  BY <1>1, <1>3
<1>5. ASSUME NEW j \in 1 .. Len(t)
      PROVE  t[j] = IF j < i THEN s[j] ELSE s[j + 1]
  <2>1. CASE j < i
    <3>1. j \in 1 .. i - 1
      BY <2>1, <1>1, <1>4
    <3> QED BY <2>1, <3>1, <1>1, <1>3
  <2>2. CASE ~(j < i)
    <3>1. /\ j \in 1 .. (i - 1) + (n - i) /\ j > i - 1
          /\ j - (i - 1) \in 1 .. n - i /\ (j - (i - 1)) + i = j + 1
      BY <2>2, <1>1, <1>4
    <3>2. t[j] = b[j - (i - 1)]
      BY <3>1, <1>1, <1>3
    <3>3. b[j - (i - 1)] = s[(j - (i - 1)) + i]
      BY <3>1, <1>1
    <3> QED BY <2>2, <3>1, <3>2, <3>3
  <2> QED BY <2>1, <2>2
<1> QED BY <1>3, <1>4, <1>5 DEF n

\* A client leaves a list.
LEMMA Leaves ==
  ASSUME NEW S, NEW s \in Seq(S), Distinct(s), NEW c, NEW t, t = RemoveFirst(s, c)
  PROVE  /\ t \in Seq(S) /\ Distinct(t)
         /\ Range(t) = Range(s) \ {c}
         /\ c \notin Range(s) => t = s
<1> DEFINE n == Len(s)
<1>1. n \in Nat /\ DOMAIN s = 1 .. n
  OBVIOUS
<1>2. CASE ~\E i \in 1 .. n : s[i] = c
  <2>1. t = s
    BY <1>2 DEF RemoveFirst
  <2> QED BY <2>1, <1>1, <1>2 DEF Range
<1>3. CASE \E i \in 1 .. n : s[i] = c
  <2> DEFINE I == {i \in 1 .. n : s[i] = c}
             k == Min(I)
  <2>1. I \in SUBSET Nat /\ I # {}
    BY <1>3
  <2>2. k \in I
    BY <2>1, MinIsLeast
  <2>3. k \in 1 .. n /\ s[k] = c
    BY <2>2
  <2>4. t = RemoveAt(s, k)
    BY <1>3, <2>1 DEF RemoveFirst, SelectInSeq
  <2> HIDE DEF k, I
  <2>5. /\ t \in Seq(S) /\ Len(t) = n - 1
        /\ \A j \in 1 .. Len(t) : t[j] = IF j < k THEN s[j] ELSE s[j + 1]
    <3>1. Unlinks(S, s, k, t)
      BY <2>3, <2>4 DEF Unlinks
    <3> QED BY <3>1, Unlinked
  <2> HIDE DEF n
  <2>6. DOMAIN t = 1 .. n - 1 /\ \A j \in 1 .. n - 1 : t[j] = IF j < k THEN s[j] ELSE s[j + 1]
    BY <2>5
  <2>7. Distinct(t)
    <3> SUFFICES ASSUME NEW x \in 1 .. n - 1, NEW y \in 1 .. n - 1, t[x] = t[y] PROVE x = y
      BY <2>6 DEF Distinct
    <3> DEFINE x1 == IF x < k THEN x ELSE x + 1
               y1 == IF y < k THEN y ELSE y + 1
    <3>1. x1 \in 1 .. n /\ y1 \in 1 .. n /\ t[x] = s[x1] /\ t[y] = s[y1]
      BY <1>1, <2>3, <2>6
    <3>2. x1 = y1
      BY <3>1, <1>1 DEF Distinct
    <3> QED BY <3>2, <2>3, <1>1
  <2>8. ASSUME NEW e \in Range(t)
        PROVE  e \in Range(s) /\ e # c
    <3>1. PICK x \in 1 .. n - 1 : e = t[x]
      BY <2>6 DEF Range
    <3> DEFINE x1 == IF x < k THEN x ELSE x + 1
    <3>2. x1 \in 1 .. n /\ e = s[x1] /\ x1 # k
      BY <1>1, <2>3, <2>6, <3>1
    <3> HIDE DEF x1
    <3> QED BY <3>2, <2>3, <1>1 DEF Range, Distinct
  <2>9. ASSUME NEW e \in Range(s), e # c
        PROVE  e \in Range(t)
    <3>1. PICK x \in 1 .. n : e = s[x]
      BY <1>1 DEF Range
    <3>2. x # k
      BY <2>3, <2>9, <3>1
    <3> DEFINE x1 == IF x < k THEN x ELSE x - 1
    <3>3. x1 \in 1 .. n - 1 /\ t[x1] = s[x]
      BY <1>1, <2>3, <2>6, <3>2
    <3> HIDE DEF x1
    <3> QED BY <3>1, <3>3, <2>6 DEF Range
  <2>10. c \in Range(s)
    BY <2>3, <1>1 DEF Range
  <2> QED BY <2>5, <2>7, <2>8, <2>9, <2>10
<1> QED BY <1>2, <1>3

\* The element c is put at the head of the list s, which becomes t.
Prepends(S, c, s, t) == s \in Seq(S) /\ c \in S /\ t = <<c>> \o s

LEMMA Prepended ==
  ASSUME NEW S, NEW c, NEW s, NEW t, Prepends(S, c, s, t)
  PROVE  /\ t \in Seq(S) /\ Len(t) = Len(s) + 1 /\ t # <<>>
         /\ t[1] = c /\ \A j \in 1 .. Len(s) : t[j + 1] = s[j]
         /\ Range(t) = Range(s) \cup {c}
<1> USE DEF Prepends
<1> DEFINE n == Len(s)
<1>1. /\ t \in Seq(S) /\ Len(t) = n + 1 /\ n \in Nat
      /\ t[1] = c /\ \A j \in 1 .. n : t[j + 1] = s[j]
      /\ DOMAIN s = 1 .. n
  OBVIOUS
<1> HIDE DEF n
<1>2. DOMAIN t = 1 .. n + 1 /\ t # <<>>
  BY <1>1
<1>3. ASSUME NEW e \in Range(t)
      PROVE  e \in Range(s) \cup {c}
  <2>1. PICK x \in 1 .. n + 1 : e = t[x]
    BY <1>2 DEF Range
  <2>2. CASE x = 1
    BY <2>1, <2>2, <1>1
  <2>3. CASE x # 1
    <3>1. x - 1 \in 1 .. n /\ (x - 1) + 1 = x
      BY <2>3, <1>1
    <3>2. t[x] = s[x - 1]
      BY <3>1, <1>1
    <3> QED BY <2>1, <3>1, <3>2, <1>1 DEF Range
  <2> QED BY <2>2, <2>3
<1>4. ASSUME NEW e \in Range(s)
      PROVE  e \in Range(t)
  <2>1. PICK x \in 1 .. n : e = s[x]
    BY <1>1 DEF Range
  <2>2. x + 1 \in 1 .. n + 1 /\ t[x + 1] = e
    BY <2>1, <1>1
  <2> QED BY <2>2, <1>2 DEF Range
<1>5. c \in Range(t)
  <2>1. 1 \in 1 .. n + 1
    BY <1>1
  <2> QED BY <2>1, <1>1, <1>2 DEF Range
<1> QED BY <1>1, <1>2, <1>3, <1>4, <1>5 DEF n

\* A new element makes no duplicate.
LEMMA PrependDistinct ==
  ASSUME NEW S, NEW s \in Seq(S), Distinct(s), NEW c \in S, c \notin Range(s),
         NEW t, t = <<c>> \o s
  PROVE  Distinct(t)
<1> DEFINE n == Len(s)
<1>1. /\ t \in Seq(S) /\ Len(t) = n + 1 /\ t[1] = c /\ \A j \in 1 .. n : t[j + 1] = s[j]
      /\ n \in Nat /\ DOMAIN s = 1 .. n
  OBVIOUS
<1> HIDE DEF n
<1>2. DOMAIN t = 1 .. n + 1
  BY <1>1
<1>3. \A j \in 1 .. n : s[j] # c
  BY <1>1 DEF Range
<1>4. ASSUME NEW x \in 1 .. n + 1, x # 1
      PROVE  x - 1 \in 1 .. n /\ t[x] = s[x - 1] /\ t[x] # c
  <2>1. x - 1 \in 1 .. n /\ (x - 1) + 1 = x
    BY <1>1, <1>4
  <2> QED BY <2>1, <1>1, <1>3
<1>5. ASSUME NEW x \in 1 .. n + 1, NEW y \in 1 .. n + 1, t[x] = t[y]
      PROVE  x = y
  <2>1. CASE x = 1 \/ y = 1
    BY <2>1, <1>1, <1>4, <1>5
  <2>2. CASE x # 1 /\ y # 1
    <3>1. x - 1 \in 1 .. n /\ y - 1 \in 1 .. n /\ s[x - 1] = s[y - 1]
      BY <2>2, <1>4, <1>5
    <3>2. x - 1 = y - 1
      BY <3>1, <1>1 DEF Distinct
    <3> QED BY <3>2
  <2> QED BY <2>1, <2>2
<1> QED BY <1>2, <1>5 DEF Distinct

\* A list without duplicates is as long as its set of elements is large, and so
\* is the part of it that is in T.
LEMMA CountDistinct ==
  ASSUME NEW S, NEW s \in Seq(S), Distinct(s), NEW T
  PROVE  /\ IsFiniteSet(Range(s)) /\ Cardinality(Range(s)) = Len(s)
         /\ Cardinality({n \in DOMAIN s : s[n] \in T}) = Cardinality(Range(s) \cap T)
<1> DEFINE A(U) == {n \in DOMAIN s : s[n] \in U}
           B(U) == Range(s) \cap U
<1>1. DOMAIN s = 1 .. Len(s) /\ Len(s) \in Nat
  OBVIOUS
<1>2. IsFiniteSet(1 .. Len(s)) /\ Cardinality(1 .. Len(s)) = Len(s)
  BY <1>1, FS_Interval
<1>3. ASSUME NEW U
      PROVE  IsFiniteSet(B(U)) /\ Cardinality(A(U)) = Cardinality(B(U))
  <2> DEFINE f == [n \in A(U) |-> s[n]]
  <2>1. f \in Bijection(A(U), B(U))
    BY DEF Bijection, Injection, Surjection, IsInjective, Distinct, Range
  <2>2. IsFiniteSet(A(U))
    BY <1>1, <1>2, FS_Subset
  <2> HIDE DEF f, A, B
  <2> QED BY <2>1, <2>2, FS_Bijection DEF ExistsBijection
<1>4. A(Range(s)) = 1 .. Len(s) /\ B(Range(s)) = Range(s)
  BY <1>1 DEF Range
<1>5. IsFiniteSet(Range(s)) /\ Cardinality(Range(s)) = Len(s)
  BY <1>2, <1>3, <1>4
<1>6. Cardinality(A(T)) = Cardinality(B(T))
  BY <1>3
<1> QED BY <1>5, <1>6

-----------------------------------------------------------------------------
(* The list of channels as a set of pairs.                                 *)

Channel == [name : Channels, subs : Seq(Clients)]

\* The list is in order.
ListOK(cs) ==
  /\ cs \in Seq(Channel)
  /\ \A m, n \in DOMAIN cs : cs[m].name = cs[n].name => m = n
  /\ \A n \in DOMAIN cs : cs[n].subs # <<>> /\ Distinct(cs[n].subs)

\* Client c is in the list of channel ch.
PairIn(cs, ch, c) == \E n \in DOMAIN cs : cs[n].name = ch /\ c \in Range(cs[n].subs)

\* Pairs of a list.
PairSet(cs) == UNION {{<<cs[n].name, c>> : c \in Range(cs[n].subs)} : n \in DOMAIN cs}

\* What is in Pairs.
LEMMA PairsAre ==
  ASSUME NEW cs \in Seq(Channel)
  PROVE  /\ PairSet(cs) \subseteq Channels \X Clients
         /\ \A ch, c : <<ch, c>> \in PairSet(cs) <=> PairIn(cs, ch, c)
<1>1. ASSUME NEW n \in DOMAIN cs
      PROVE  cs[n].name \in Channels /\ Range(cs[n].subs) \subseteq Clients
  <2>1. cs[n] \in Channel
    BY <1>1
  <2>2. cs[n].subs \in Seq(Clients) /\ cs[n].name \in Channels
    BY <2>1 DEF Channel
  <2> QED BY <2>2 DEF Range
<1>2. PairSet(cs) \subseteq Channels \X Clients
  BY <1>1 DEF PairSet
<1>3. ASSUME NEW ch, NEW c
      PROVE  <<ch, c>> \in PairSet(cs) <=> PairIn(cs, ch, c)
  BY DEF PairSet, PairIn
<1> QED BY <1>2, <1>3

\* The list ds has the pair of ch and c more than cs, or less.
Adds(cs, ds, ch, c) ==
  /\ cs \in Seq(Channel) /\ ds \in Seq(Channel)
  /\ \A x, y : PairIn(ds, x, y) <=> PairIn(cs, x, y) \/ (x = ch /\ y = c)

Takes(cs, ds, ch, c) ==
  /\ cs \in Seq(Channel) /\ ds \in Seq(Channel)
  /\ \A x, y : PairIn(ds, x, y) <=> PairIn(cs, x, y) /\ ~(x = ch /\ y = c)

LEMMA AddsPair ==
  ASSUME NEW cs, NEW ds, NEW ch, NEW c, Adds(cs, ds, ch, c)
  PROVE  PairSet(ds) = PairSet(cs) \cup {<<ch, c>>}
<1>1. /\ PairSet(cs) \subseteq Channels \X Clients /\ PairSet(ds) \subseteq Channels \X Clients
      /\ \A x, y : <<x, y>> \in PairSet(cs) <=> PairIn(cs, x, y)
      /\ \A x, y : <<x, y>> \in PairSet(ds) <=> PairIn(ds, x, y)
  BY PairsAre DEF Adds
<1>2. \A x, y : <<x, y>> \in PairSet(ds) <=> <<x, y>> \in PairSet(cs) \/ (x = ch /\ y = c)
  BY <1>1 DEF Adds
<1> QED BY <1>1, <1>2

LEMMA TakesPair ==
  ASSUME NEW cs, NEW ds, NEW ch, NEW c, Takes(cs, ds, ch, c)
  PROVE  PairSet(ds) = PairSet(cs) \ {<<ch, c>>}
<1>1. /\ PairSet(cs) \subseteq Channels \X Clients /\ PairSet(ds) \subseteq Channels \X Clients
      /\ \A x, y : <<x, y>> \in PairSet(cs) <=> PairIn(cs, x, y)
      /\ \A x, y : <<x, y>> \in PairSet(ds) <=> PairIn(ds, x, y)
  BY PairsAre DEF Takes
<1>2. \A x, y : <<x, y>> \in PairSet(ds) <=> <<x, y>> \in PairSet(cs) /\ ~(x = ch /\ y = c)
  BY <1>1 DEF Takes
<1> QED BY <1>1, <1>2

\* Channel n gets the subscribers s, or goes with its last one; ds is left.
Relists(n, s, ds) ==
  /\ ListOK(channels) /\ n \in DOMAIN channels /\ s \in Seq(Clients) /\ Distinct(s)
  /\ ds = WithSubscribers(n, s)

LEMMA Relisted ==
  ASSUME NEW n, NEW s, NEW ds, Relists(n, s, ds)
  PROVE  /\ ListOK(ds) /\ Len(ds) = Len(channels) - Dropped(s)
         /\ \A m \in 1 .. Len(ds) :
              ds[m] = IF s # <<>> /\ m = n THEN [channels[n] EXCEPT !.subs = s]
                      ELSE IF s # <<>> \/ m < n THEN channels[m]
                      ELSE channels[m + 1]
         /\ \A ch, c : PairIn(ds, ch, c) <=> IF ch = channels[n].name THEN c \in Range(s)
                                             ELSE PairIn(channels, ch, c)
<1> USE DEF Relists
<1> DEFINE k == Len(channels)
<1>1. /\ channels \in Seq(Channel) /\ k \in Nat /\ DOMAIN channels = 1 .. k
      /\ \A m \in 1 .. k : channels[m] \in Channel
  BY DEF ListOK
<1> HIDE DEF k
<1>2. CASE s = <<>>
  <2>1. ds = RemoveAt(channels, n) /\ n \in 1 .. k /\ Dropped(s) = 1
    BY <1>1, <1>2 DEF WithSubscribers, Dropped
  <2>2. /\ ds \in Seq(Channel) /\ Len(ds) = k - 1
        /\ \A m \in 1 .. Len(ds) : ds[m] = IF m < n THEN channels[m] ELSE channels[m + 1]
    <3>1. Unlinks(Channel, channels, n, ds)
      BY <2>1, <1>1 DEF Unlinks, k
    <3> QED BY <3>1, Unlinked DEF k
  <2>3. DOMAIN ds = 1 .. k - 1
        /\ \A m \in 1 .. k - 1 : ds[m] = IF m < n THEN channels[m] ELSE channels[m + 1]
    BY <2>2
  <2>4. ListOK(ds)
    <3>1. ASSUME NEW x \in 1 .. k - 1, NEW y \in 1 .. k - 1, ds[x].name = ds[y].name
          PROVE  x = y
      <4> DEFINE x1 == IF x < n THEN x ELSE x + 1
                 y1 == IF y < n THEN y ELSE y + 1
      <4>1. x1 \in 1 .. k /\ y1 \in 1 .. k /\ ds[x] = channels[x1] /\ ds[y] = channels[y1]
        BY <1>1, <2>1, <2>3
      <4>2. x1 = y1
        BY <3>1, <4>1, <1>1 DEF ListOK
      <4> QED BY <4>2, <2>1, <1>1
    <3>2. ASSUME NEW x \in 1 .. k - 1
          PROVE  ds[x].subs # <<>> /\ Distinct(ds[x].subs)
      <4> DEFINE x1 == IF x < n THEN x ELSE x + 1
      <4>1. x1 \in 1 .. k /\ ds[x] = channels[x1]
        BY <1>1, <2>1, <2>3
      <4> HIDE DEF x1
      <4> QED BY <4>1, <1>1 DEF ListOK
    <3> QED BY <2>2, <2>3, <3>1, <3>2 DEF ListOK
  <2>5. ASSUME NEW ch, NEW c, PairIn(ds, ch, c)
        PROVE  ch # channels[n].name /\ PairIn(channels, ch, c)
    <3>1. PICK x \in 1 .. k - 1 : ds[x].name = ch /\ c \in Range(ds[x].subs)
      BY <2>3, <2>5 DEF PairIn
    <3> DEFINE x1 == IF x < n THEN x ELSE x + 1
    <3>2. x1 \in 1 .. k /\ ds[x] = channels[x1] /\ x1 # n
      BY <1>1, <2>1, <2>3
    <3> HIDE DEF x1
    <3> QED BY <3>1, <3>2, <1>1, <2>1 DEF ListOK, PairIn
  <2>6. ASSUME NEW ch, NEW c, ch # channels[n].name, PairIn(channels, ch, c)
        PROVE  PairIn(ds, ch, c)
    <3>1. PICK x \in 1 .. k : channels[x].name = ch /\ c \in Range(channels[x].subs)
      BY <1>1, <2>6 DEF PairIn
    <3>2. x # n
      BY <2>6, <3>1
    <3> DEFINE x1 == IF x < n THEN x ELSE x - 1
    <3>3. x1 \in 1 .. k - 1 /\ ds[x1] = channels[x]
      BY <1>1, <2>1, <2>3, <3>2
    <3> HIDE DEF x1
    <3> QED BY <3>1, <3>3, <2>3 DEF PairIn
  <2>7. Range(s) = {}
    BY <1>2 DEF Range
  <2>8. Len(ds) = Len(channels) - Dropped(s)
    BY <2>1, <2>2 DEF k
  <2> QED BY <1>2, <2>2, <2>4, <2>5, <2>6, <2>7, <2>8
<1>3. CASE s # <<>>
  <2>1. ds = [channels EXCEPT ![n].subs = s] /\ n \in 1 .. k /\ Dropped(s) = 0
    BY <1>1, <1>3 DEF WithSubscribers, Dropped
  <2> DEFINE d == [channels[n] EXCEPT !.subs = s]
  <2>2. d \in Channel /\ d.name = channels[n].name /\ d.subs = s
    BY <1>1, <2>1 DEF Channel
  <2> HIDE DEF d
  <2>3. ds = [channels EXCEPT ![n] = d]
    BY <1>1, <2>1 DEF d
  <2>4. ds \in Seq(Channel) /\ Len(ds) = k
    BY <1>1, <2>1, <2>2, <2>3, ExceptSeq DEF k
  <2>5. DOMAIN ds = 1 .. k /\ \A m \in 1 .. k : ds[m] = IF m = n THEN d ELSE channels[m]
    BY <1>1, <2>3
  <2>6. ListOK(ds)
    BY <1>1, <1>3, <2>1, <2>2, <2>4, <2>5 DEF ListOK
  <2>7. ASSUME NEW ch, NEW c
        PROVE  PairIn(ds, ch, c) <=> IF ch = channels[n].name THEN c \in Range(s)
                                     ELSE PairIn(channels, ch, c)
    BY <1>1, <2>1, <2>2, <2>5 DEF ListOK, PairIn
  <2>8. Len(ds) = Len(channels) - Dropped(s)
    BY <2>1, <2>4, <1>1 DEF k
  <2> QED BY <1>3, <2>4, <2>5, <2>6, <2>7, <2>8 DEF d
<1> QED BY <1>2, <1>3

\* A channel is created for its first subscriber; ds is left.
Creates(ch, c, ds) ==
  /\ ListOK(channels) /\ ch \in Channels /\ c \in Clients /\ PlacesOf(ch) = {}
  /\ ds = <<[name |-> ch, subs |-> <<c>>]>> \o channels

LEMMA Created ==
  ASSUME NEW ch, NEW c, NEW ds, Creates(ch, c, ds)
  PROVE  /\ ListOK(ds) /\ Len(ds) = Len(channels) + 1
         /\ \A x, y : PairIn(ds, x, y) <=> PairIn(channels, x, y) \/ (x = ch /\ y = c)
         /\ ~PairIn(channels, ch, c)
<1> USE DEF Creates
<1> DEFINE k == Len(channels)
           d == [name |-> ch, subs |-> <<c>>]
<1>1. /\ channels \in Seq(Channel) /\ k \in Nat /\ DOMAIN channels = 1 .. k
      /\ \A m \in 1 .. k : channels[m].name # ch
  BY DEF ListOK, PlacesOf
<1>2. /\ d \in Channel /\ d.name = ch /\ d.subs # <<>> /\ Distinct(d.subs)
      /\ Range(d.subs) = {c}
  BY DEF Channel, Distinct, Range
<1>3. /\ ds \in Seq(Channel) /\ Len(ds) = k + 1
      /\ ds[1] = d /\ \A j \in 1 .. k : ds[j + 1] = channels[j]
  <2>1. Prepends(Channel, d, channels, ds)
    BY <1>1, <1>2 DEF Prepends
  <2> HIDE DEF d, Creates
  <2> QED BY <2>1, Prepended
<1> HIDE DEF d, k
<1>4. DOMAIN ds = 1 .. k + 1 /\ \A j \in 1 .. k + 1 : j # 1 => ds[j] = channels[j - 1]
  <2>1. DOMAIN ds = 1 .. k + 1
    BY <1>3, <1>1
  <2>2. ASSUME NEW j \in 1 .. k + 1, j # 1
        PROVE  ds[j] = channels[j - 1]
    <3>1. j - 1 \in 1 .. k /\ (j - 1) + 1 = j
      BY <1>1, <2>2
    <3> QED BY <3>1, <1>3
  <2> QED BY <2>1, <2>2
<1>5. ASSUME NEW x \in 1 .. k + 1, x # 1
      PROVE  x - 1 \in 1 .. k /\ ds[x] = channels[x - 1] /\ ds[x].name # ch
  <2>1. x - 1 \in 1 .. k
    BY <1>1, <1>5
  <2> QED BY <2>1, <1>1, <1>4, <1>5
<1>6. ASSUME NEW x \in 1 .. k + 1, NEW y \in 1 .. k + 1, ds[x].name = ds[y].name
      PROVE  x = y
  <2>1. CASE x = 1 \/ y = 1
    BY <2>1, <1>2, <1>3, <1>5, <1>6
  <2>2. CASE x # 1 /\ y # 1
    <3>1. /\ x - 1 \in 1 .. k /\ y - 1 \in 1 .. k
          /\ channels[x - 1].name = channels[y - 1].name
      BY <2>2, <1>5, <1>6
    <3>2. x - 1 = y - 1
      BY <3>1, <1>1 DEF ListOK
    <3> QED BY <3>2
  <2> QED BY <2>1, <2>2
<1>7. ASSUME NEW x \in 1 .. k + 1
      PROVE  ds[x].subs # <<>> /\ Distinct(ds[x].subs)
  BY <1>1, <1>2, <1>3, <1>5 DEF ListOK
<1>8. ListOK(ds)
  BY <1>3, <1>4, <1>6, <1>7 DEF ListOK
<1>9. ASSUME NEW x, NEW y
      PROVE  PairIn(ds, x, y) <=> PairIn(channels, x, y) \/ (x = ch /\ y = c)
  <2>1. ASSUME PairIn(ds, x, y)
        PROVE  PairIn(channels, x, y) \/ (x = ch /\ y = c)
    <3>1. PICK j \in 1 .. k + 1 : ds[j].name = x /\ y \in Range(ds[j].subs)
      BY <2>1, <1>4 DEF PairIn
    <3>2. CASE j = 1
      BY <3>1, <3>2, <1>2, <1>3
    <3>3. CASE j # 1
      BY <3>1, <3>3, <1>1, <1>5 DEF PairIn
    <3> QED BY <3>2, <3>3
  <2>2. ASSUME PairIn(channels, x, y)
        PROVE  PairIn(ds, x, y)
    <3>1. PICK j \in 1 .. k : channels[j].name = x /\ y \in Range(channels[j].subs)
      BY <2>2, <1>1 DEF PairIn
    <3>2. j + 1 \in 1 .. k + 1 /\ ds[j + 1] = channels[j]
      BY <1>1, <1>3
    <3> QED BY <3>1, <3>2, <1>4 DEF PairIn
  <2>3. PairIn(ds, ch, c)
    <3>1. 1 \in 1 .. k + 1
      BY <1>1
    <3> QED BY <3>1, <1>2, <1>3, <1>4 DEF PairIn
  <2> QED BY <2>1, <2>2, <2>3
<1> QED BY <1>1, <1>3, <1>8, <1>9 DEF PairIn, k

-----------------------------------------------------------------------------
(* The invariant: the lists, the counters, and what the walk of            *)
(* ks_pubsub_remove_client has left behind it.                             *)

Walked == \A n \in DOMAIN channels : pc = "remove" /\ n < link => ~Subscribed(n, client)

Inv == /\ ListOK(channels)
       /\ CountersExact
       /\ IsFiniteSet(Pairs)
       /\ pc \in {"idle", "remove"}
       /\ pc = "remove" => client \in Clients
       /\ link \in Nat \ {0} /\ removed \in Nat
       /\ Walked

\* Pairs before and after a step.
LEMMA PairsOfLists == Pairs = PairSet(channels) /\ Pairs' = PairSet(channels')
BY DEF Pairs, PairSet

\* A listed channel: its place, its name and its subscribers.
LEMMA Listed ==
  ASSUME ListOK(channels), NEW n \in DOMAIN channels
  PROVE  /\ channels \in Seq(Channel) /\ n \in 1 .. Len(channels)
         /\ channels[n].name \in Channels
         /\ channels[n].subs \in Seq(Clients) /\ channels[n].subs # <<>>
         /\ Distinct(channels[n].subs)
         /\ channels[n] = [name |-> channels[n].name, subs |-> channels[n].subs]
         /\ \A c : PairIn(channels, channels[n].name, c) <=> Subscribed(n, c)
<1>1. channels \in Seq(Channel) /\ n \in 1 .. Len(channels) /\ channels[n] \in Channel
  BY DEF ListOK
<1>2. channels[n].subs # <<>> /\ Distinct(channels[n].subs)
  BY DEF ListOK
<1>3. \A c : PairIn(channels, channels[n].name, c) <=> Subscribed(n, c)
  BY DEF PairIn, Subscribed, ListOK
<1> QED BY <1>1, <1>2, <1>3 DEF Channel

\* No listed channel of the name ch has the client c.
LEMMA NotListed ==
  ASSUME ListOK(channels), NEW ch, NEW c, \A n \in PlacesOf(ch) : ~Subscribed(n, c)
  PROVE  <<ch, c>> \notin Pairs
<1>1. ~PairIn(channels, ch, c)
  BY DEF PairIn, PlacesOf, Subscribed
<1> QED BY <1>1, PairsAre, PairsOfLists DEF ListOK

LEMMA IsListed ==
  ASSUME ListOK(channels), NEW ch, NEW c, \E n \in PlacesOf(ch) : Subscribed(n, c)
  PROVE  <<ch, c>> \in Pairs
<1>1. PairIn(channels, ch, c)
  BY DEF PairIn, PlacesOf, Subscribed
<1> QED BY <1>1, PairsAre, PairsOfLists DEF ListOK

\* What ks_pubsub_subscribe does to the lists: one pair more.
Joined(ch, c) ==
  /\ ListOK(channels') /\ <<ch, c>> \notin Pairs /\ Pairs' = Pairs \cup {<<ch, c>>}

LEMMA JoinsExisting ==
  ASSUME ListOK(channels), NEW ch \in Channels, NEW c \in Clients, SubscribeExisting(ch, c)
  PROVE  Joined(ch, c) /\ Len(channels') = Len(channels)
<1>1. PICK n \in PlacesOf(ch) : ~Subscribed(n, c) /\ channels' = [channels EXCEPT ![n].subs = <<c>> \o @]
  BY DEF SubscribeExisting
<1>2. n \in DOMAIN channels /\ channels[n].name = ch
  BY DEF PlacesOf
<1> DEFINE old == channels[n].subs
           s == <<c>> \o old
<1>3. /\ channels \in Seq(Channel) /\ old \in Seq(Clients) /\ Distinct(old)
      /\ \A d : PairIn(channels, ch, d) <=> d \in Range(old)
  BY <1>2, Listed DEF Subscribed
<1>4. c \notin Range(old)
  BY <1>1 DEF Subscribed
<1>5. channels' = [channels EXCEPT ![n].subs = s]
  BY <1>1
<1> HIDE DEF old
<1>6. s \in Seq(Clients) /\ s # <<>> /\ Range(s) = Range(old) \cup {c}
  <2>1. Prepends(Clients, c, old, s)
    BY <1>3 DEF Prepends
  <2> HIDE DEF s
  <2> QED BY <2>1, Prepended
<1>7. Distinct(s)
  BY <1>3, <1>4, PrependDistinct, Zenon
<1> HIDE DEF s
<1>8. channels' = WithSubscribers(n, s) /\ Dropped(s) = 0
  BY <1>5, <1>6 DEF WithSubscribers, Dropped
<1>9. /\ ListOK(channels') /\ Len(channels') = Len(channels) - Dropped(s)
      /\ \A x, y : PairIn(channels', x, y) <=> IF x = channels[n].name THEN y \in Range(s)
                                               ELSE PairIn(channels, x, y)
  <2>1. Relists(n, s, channels')
    BY <1>2, <1>6, <1>7, <1>8 DEF Relists
  <2> QED BY <2>1, Relisted
<1>10. Adds(channels, channels', ch, c)
  BY <1>2, <1>3, <1>6, <1>9 DEF Adds, ListOK
<1>11. <<ch, c>> \notin Pairs
  BY <1>3, <1>4, PairsAre, PairsOfLists
<1>12. Pairs' = Pairs \cup {<<ch, c>>}
  BY <1>10, AddsPair, PairsOfLists
<1>13. Len(channels') = Len(channels)
  BY <1>3, <1>8, <1>9
<1> QED BY <1>9, <1>11, <1>12, <1>13 DEF Joined

LEMMA JoinsNew ==
  ASSUME ListOK(channels), NEW ch \in Channels, NEW c \in Clients, SubscribeNew(ch, c)
  PROVE  Joined(ch, c) /\ Len(channels') = Len(channels) + 1
<1>1. PlacesOf(ch) = {} /\ channels' = <<[name |-> ch, subs |-> <<c>>]>> \o channels
  BY DEF SubscribeNew
<1>2. /\ ListOK(channels') /\ Len(channels') = Len(channels) + 1
      /\ \A x, y : PairIn(channels', x, y) <=> PairIn(channels, x, y) \/ (x = ch /\ y = c)
      /\ ~PairIn(channels, ch, c)
  <2>1. Creates(ch, c, channels')
    BY <1>1 DEF Creates
  <2> QED BY <2>1, Created
<1>3. Adds(channels, channels', ch, c)
  BY <1>2 DEF Adds, ListOK
<1>4. <<ch, c>> \notin Pairs
  BY <1>2, PairsAre, PairsOfLists DEF ListOK
<1>5. Pairs' = Pairs \cup {<<ch, c>>}
  BY <1>3, AddsPair, PairsOfLists
<1> QED BY <1>2, <1>4, <1>5 DEF Joined

\* What both removals do to the channel at place n: one pair less.
LEMMA Departs ==
  ASSUME ListOK(channels), NEW n \in DOMAIN channels, NEW c \in Clients, NEW s,
         s = RemoveFirst(channels[n].subs, c), channels' = WithSubscribers(n, s)
  PROVE  /\ ListOK(channels') /\ Len(channels') = Len(channels) - Dropped(s)
         /\ Pairs' = Pairs \ {<<channels[n].name, c>>}
         /\ s \in Seq(Clients) /\ c \notin Range(s)
         /\ ~Subscribed(n, c) => s = channels[n].subs /\ s # <<>>
         /\ \A m \in 1 .. Len(channels') :
              channels'[m] = IF s # <<>> /\ m = n THEN [channels[n] EXCEPT !.subs = s]
                             ELSE IF s # <<>> \/ m < n THEN channels[m]
                             ELSE channels[m + 1]
<1> DEFINE old == channels[n].subs
           ch == channels[n].name
<1>1. /\ channels \in Seq(Channel) /\ old \in Seq(Clients) /\ Distinct(old) /\ old # <<>>
      /\ \A d : PairIn(channels, ch, d) <=> d \in Range(old)
  BY Listed DEF Subscribed
<1>2. s = RemoveFirst(old, c)
  OBVIOUS
<1> HIDE DEF old
<1>3. /\ s \in Seq(Clients) /\ Distinct(s) /\ Range(s) = Range(old) \ {c}
      /\ c \notin Range(old) => s = old
  BY <1>1, <1>2, Leaves
<1>4. /\ ListOK(channels') /\ Len(channels') = Len(channels) - Dropped(s)
      /\ \A m \in 1 .. Len(channels') :
           channels'[m] = IF s # <<>> /\ m = n THEN [channels[n] EXCEPT !.subs = s]
                          ELSE IF s # <<>> \/ m < n THEN channels[m]
                          ELSE channels[m + 1]
      /\ \A x, y : PairIn(channels', x, y) <=> IF x = channels[n].name THEN y \in Range(s)
                                               ELSE PairIn(channels, x, y)
  <2>1. Relists(n, s, channels')
    BY <1>3 DEF Relists
  <2> QED BY <2>1, Relisted
<1>5. Takes(channels, channels', ch, c)
  BY <1>1, <1>3, <1>4 DEF Takes, ListOK
<1>6. Pairs' = Pairs \ {<<ch, c>>}
  BY <1>5, TakesPair, PairsOfLists
<1>7. ~Subscribed(n, c) => c \notin Range(old)
  BY DEF Subscribed, old
<1>8. ~Subscribed(n, c) => s = channels[n].subs /\ s # <<>>
  BY <1>1, <1>3, <1>7 DEF old
<1> QED BY <1>3, <1>4, <1>6, <1>8

-----------------------------------------------------------------------------
(* Every step keeps the invariant.                                         *)

\* One pair more, one pair less: the count of the set of pairs follows.
LEMMA PairCount ==
  ASSUME NEW A, NEW p, IsFiniteSet(A)
  PROVE  /\ IsFiniteSet(A \cup {p}) /\ IsFiniteSet(A \ {p}) /\ Cardinality(A) \in Nat
         /\ p \notin A => Cardinality(A \cup {p}) = Cardinality(A) + 1
         /\ p \in A => Cardinality(A \ {p}) = Cardinality(A) - 1
BY FS_AddElement, FS_RemoveElement, FS_CardinalityType

\* A call outside of ks_pubsub_remove_client that keeps the lists in order and
\* the counters exact.
LEMMA KeepsInv ==
  ASSUME Inv, pc = "idle", ListOK(channels'), CountersExact', IsFiniteSet(Pairs'),
         UNCHANGED <<pc, client, link, removed>>
  PROVE  Inv'
BY DEF Inv, Walked

LEMMA JoinInv ==
  ASSUME Inv, NEW ch \in Channels, NEW c \in Clients,
         SubscribeExisting(ch, c) \/ SubscribeNew(ch, c)
  PROVE  Inv' /\ <<ch, c>> \notin Pairs /\ Pairs' = Pairs \cup {<<ch, c>>}
<1>1. ListOK(channels) /\ IsFiniteSet(Pairs) /\ CountersExact
  BY DEF Inv
<1>2. Joined(ch, c) /\ channel_count' - channel_count = Len(channels') - Len(channels)
  <2>1. Len(channels) \in Nat /\ channel_count = Len(channels)
    BY <1>1 DEF ListOK, CountersExact
  <2>2. CASE SubscribeExisting(ch, c)
    BY <2>1, <2>2, <1>1, JoinsExisting DEF SubscribeExisting
  <2>3. CASE SubscribeNew(ch, c)
    BY <2>1, <2>3, <1>1, JoinsNew DEF SubscribeNew
  <2> QED BY <2>2, <2>3
<1>3. ListOK(channels') /\ <<ch, c>> \notin Pairs /\ Pairs' = Pairs \cup {<<ch, c>>}
  BY <1>2 DEF Joined
<1>4. /\ IsFiniteSet(Pairs') /\ Cardinality(Pairs) \in Nat
      /\ Cardinality(Pairs') = Cardinality(Pairs) + 1
  BY <1>1, <1>3, PairCount
<1>5. /\ pc = "idle" /\ subscription_count' = subscription_count + 1
      /\ channel_count' = channel_count \/ channel_count' = channel_count + 1
      /\ UNCHANGED <<pc, client, link, removed>>
  BY DEF SubscribeExisting, SubscribeNew, Returns
<1>6. channel_count' = Len(channels')
  BY <1>1, <1>2, <1>3, <1>5 DEF CountersExact, ListOK
<1>7. CountersExact'
  BY <1>1, <1>4, <1>5, <1>6 DEF CountersExact
<1> QED BY <1>3, <1>4, <1>5, <1>7, KeepsInv

LEMMA UnsubscribeInv ==
  ASSUME Inv, NEW ch \in Channels, NEW c \in Clients, Unsubscribe(ch, c)
  PROVE  Inv' /\ <<ch, c>> \in Pairs /\ Pairs' = Pairs \ {<<ch, c>>}
<1>1. ListOK(channels) /\ IsFiniteSet(Pairs) /\ CountersExact
  BY DEF Inv
<1>2. PICK n \in PlacesOf(ch) :
        /\ Subscribed(n, c)
        /\ LET s == RemoveFirst(channels[n].subs, c)
           IN  channels' = WithSubscribers(n, s) /\ channel_count' = channel_count - Dropped(s)
  BY DEF Unsubscribe
<1> DEFINE s == RemoveFirst(channels[n].subs, c)
<1>3. n \in DOMAIN channels /\ channels[n].name = ch
  BY DEF PlacesOf
<1>4. /\ channels' = WithSubscribers(n, s) /\ channel_count' = channel_count - Dropped(s)
      /\ s = RemoveFirst(channels[n].subs, c)
  BY <1>2
<1> HIDE DEF s
<1>5. /\ ListOK(channels') /\ Len(channels') = Len(channels) - Dropped(s)
      /\ Pairs' = Pairs \ {<<ch, c>>}
  BY <1>1, <1>3, <1>4, Departs
<1>6. <<ch, c>> \in Pairs
  BY <1>1, <1>2, IsListed
<1>7. /\ IsFiniteSet(Pairs') /\ Cardinality(Pairs) \in Nat
      /\ Cardinality(Pairs') = Cardinality(Pairs) - 1
  BY <1>1, <1>5, <1>6, PairCount
<1>8. /\ pc = "idle" /\ subscription_count' = subscription_count - 1
      /\ UNCHANGED <<pc, client, link, removed>>
  BY DEF Unsubscribe, Returns
<1>9. CountersExact'
  BY <1>1, <1>4, <1>5, <1>7, <1>8 DEF CountersExact
<1> QED BY <1>5, <1>6, <1>7, <1>8, <1>9, KeepsInv

\* A turn of the walk: the pair of its channel goes, if it was there, and the
\* channels behind the new place have not got the client.
LEMMA RemoveStepInv ==
  ASSUME Inv, RemoveStep
  PROVE  /\ Inv'
         /\ \E p \in Channels \X Clients :
              /\ p[2] = client /\ Pairs' = Pairs \ {p}
              /\ removed' = removed + (IF p \in Pairs THEN 1 ELSE 0)
<1>1. /\ ListOK(channels) /\ IsFiniteSet(Pairs) /\ CountersExact
      /\ pc = "remove" /\ client \in Clients /\ link \in DOMAIN channels
      /\ link \in Nat \ {0} /\ removed \in Nat
  BY DEF Inv, RemoveStep
<1> DEFINE s == RemoveFirst(channels[link].subs, client)
           p == <<channels[link].name, client>>
           k == Len(channels)
<1>2. PICK gone : gone = IF Subscribed(link, client) THEN 1 ELSE 0
  OBVIOUS
<1>3. /\ channels' = WithSubscribers(link, s) /\ channel_count' = channel_count - Dropped(s)
      /\ subscription_count' = subscription_count - gone /\ removed' = removed + gone
      /\ link' = NextLink(link, s) /\ UNCHANGED <<pc, client>>
      /\ s = RemoveFirst(channels[link].subs, client)
  BY <1>2 DEF RemoveStep
<1> HIDE DEF s
<1>4. /\ ListOK(channels') /\ Len(channels') = k - Dropped(s)
      /\ Pairs' = Pairs \ {p} /\ s \in Seq(Clients) /\ client \notin Range(s)
      /\ ~Subscribed(link, client) => s # <<>>
      /\ \A m \in 1 .. Len(channels') :
           channels'[m] = IF s # <<>> /\ m = link THEN [channels[link] EXCEPT !.subs = s]
                          ELSE IF s # <<>> \/ m < link THEN channels[m]
                          ELSE channels[m + 1]
  BY <1>1, <1>3, Departs
<1>5. /\ p \in Channels \X Clients /\ p[2] = client
      /\ p \in Pairs <=> Subscribed(link, client)
      /\ k \in Nat /\ DOMAIN channels = 1 .. k /\ link \in 1 .. k
      /\ [channels[link] EXCEPT !.subs = s].subs = s
  <2>1. /\ channels \in Seq(Channel) /\ channels[link].name \in Channels /\ link \in 1 .. k
        /\ channels[link] = [name |-> channels[link].name, subs |-> channels[link].subs]
        /\ PairIn(channels, channels[link].name, client) <=> Subscribed(link, client)
    BY <1>1, Listed
  <2>2. p \in Pairs <=> PairIn(channels, channels[link].name, client)
    BY <2>1, PairsAre, PairsOfLists
  <2>3. k \in Nat /\ DOMAIN channels = 1 .. k
    BY <2>1
  <2>4. [channels[link] EXCEPT !.subs = s].subs = s
    BY <2>1
  <2> QED BY <1>1, <2>1, <2>2, <2>3, <2>4
<1> HIDE DEF p, k
<1>6. /\ IsFiniteSet(Pairs') /\ Cardinality(Pairs) \in Nat
      /\ Cardinality(Pairs') = Cardinality(Pairs) - gone
      /\ gone \in {0, 1} /\ gone = IF p \in Pairs THEN 1 ELSE 0
  <2>1. CASE Subscribed(link, client)
    BY <1>1, <1>2, <1>4, <1>5, <2>1, PairCount
  <2>2. CASE ~Subscribed(link, client)
    <3>1. Pairs' = Pairs /\ gone = 0
      BY <1>2, <1>4, <1>5, <2>2
    <3>2. Cardinality(Pairs) \in Nat
      BY <1>1, FS_CardinalityType
    <3> QED BY <3>1, <3>2, <1>1, <1>5, <2>2
  <2> QED BY <2>1, <2>2
<1>7. CountersExact'
  BY <1>1, <1>3, <1>4, <1>6 DEF CountersExact, k
<1>8. DOMAIN channels' = 1 .. Len(channels') /\ Len(channels') \in Nat
  BY <1>4 DEF ListOK
<1>9. Walked'
  <2> SUFFICES ASSUME NEW m \in DOMAIN channels', m < link'
               PROVE  client \notin Range(channels'[m].subs)
    BY <1>3 DEF Walked, Subscribed
  <2>1. ASSUME NEW x \in 1 .. k, x < link
        PROVE  client \notin Range(channels[x].subs)
    BY <2>1, <1>1, <1>5 DEF Inv, Walked, Subscribed
  <2>2. m \in 1 .. Len(channels')
    BY <1>8
  <2>3. CASE s = <<>>
    <3>1. m < link
      BY <2>3, <1>3 DEF NextLink
    <3>2. channels'[m] = channels[m] /\ m \in 1 .. k
      BY <2>2, <2>3, <3>1, <1>4, <1>5
    <3> QED BY <2>1, <3>1, <3>2
  <2>4. CASE s # <<>> /\ m = link
    <3>1. channels'[m].subs = s
      BY <2>2, <2>4, <1>4, <1>5
    <3> QED BY <3>1, <1>4
  <2>5. CASE s # <<>> /\ m # link
    <3>1. m < link
      BY <2>2, <2>5, <1>1, <1>3, <1>8 DEF NextLink
    <3>2. channels'[m] = channels[m] /\ m \in 1 .. k
      BY <2>2, <2>5, <3>1, <1>4, <1>5
    <3> QED BY <2>1, <3>1, <3>2
  <2> QED BY <2>3, <2>4, <2>5
<1>10. link' \in Nat \ {0} /\ removed' \in Nat
  BY <1>1, <1>3, <1>6 DEF NextLink
<1>11. Inv'
  BY <1>1, <1>3, <1>4, <1>6, <1>7, <1>9, <1>10 DEF Inv
<1>12. removed' = removed + (IF p \in Pairs THEN 1 ELSE 0)
  BY <1>3, <1>6
<1> QED BY <1>4, <1>5, <1>11, <1>12

\* A call that touches neither list nor counter.
LEMMA QuietInv ==
  ASSUME Inv, pc = "idle",
         UNCHANGED <<channels, channel_count, subscription_count, pc, client, link, removed>>
  PROVE  Inv'
BY DEF Inv, Walked, CountersExact, Pairs, Subscribed

\* Inv holds in every reachable state, for any channels and clients.
THEOREM Invariance == Spec => []Inv
<1>1. Init => Inv
  <2> SUFFICES ASSUME Init PROVE Inv
    OBVIOUS
  <2>1. channels = <<>> /\ DOMAIN channels = {} /\ Len(channels) = 0
    BY DEF Init
  <2>2. ListOK(channels)
    BY <2>1 DEF ListOK
  <2>3. Pairs = {}
    BY <2>1 DEF Pairs
  <2>4. IsFiniteSet(Pairs) /\ Cardinality(Pairs) = 0
    BY <2>3, FS_EmptySet
  <2>5. CountersExact
    BY <2>1, <2>4 DEF Init, CountersExact
  <2> QED BY <2>1, <2>2, <2>4, <2>5 DEF Init, Inv, Walked
<1>2. Inv /\ [Next]_vars => Inv'
  <2> SUFFICES ASSUME Inv, [Next]_vars PROVE Inv'
    OBVIOUS
  <2>1. ASSUME NEW ch \in Channels, NEW c \in Clients, SubscribeExisting(ch, c) \/ SubscribeNew(ch, c)
        PROVE  Inv'
    BY <2>1, JoinInv
  <2>2. ASSUME NEW ch \in Channels, NEW c \in Clients, Unsubscribe(ch, c)
        PROVE  Inv'
    BY <2>2, UnsubscribeInv
  <2>3. ASSUME NEW ch \in Channels, NEW c \in Clients,
               SubscribeTwice(ch, c) \/ SubscribeNoMemory(ch, c) \/ UnsubscribeMissing(ch, c)
        PROVE  Inv'
    BY <2>3, QuietInv DEF SubscribeTwice, SubscribeNoMemory, UnsubscribeMissing, Unchanged, Returns
  <2>4. CASE SubscribeInvalid \/ Counts
    BY <2>4, QuietInv DEF SubscribeInvalid, Counts, Unchanged, Returns
  <2>5. ASSUME NEW c \in Clients, RemoveClient(c)
        PROVE  Inv'
    <3>1. /\ ListOK(channels') /\ CountersExact' /\ IsFiniteSet(Pairs')
      BY <2>5 DEF Inv, RemoveClient, CountersExact, Pairs
    <3>2. /\ pc' = "remove" /\ client' = c /\ link' = 1 /\ removed' = 0 /\ channels' = channels
      BY <2>5 DEF RemoveClient
    <3>3. ASSUME NEW n \in DOMAIN channels
          PROVE  ~(n < 1)
      BY DEF Inv, ListOK
    <3>4. Walked'
      BY <3>2, <3>3 DEF Walked
    <3> QED BY <3>1, <3>2, <3>4 DEF Inv
  <2>6. CASE RemoveStep
    BY <2>6, RemoveStepInv
  <2>7. CASE RemoveDone
    <3>1. /\ ListOK(channels') /\ CountersExact' /\ IsFiniteSet(Pairs')
      BY <2>7 DEF Inv, RemoveDone, CountersExact, Pairs
    <3>2. pc' = "idle" /\ link' = 1 /\ removed' = 0
      BY <2>7 DEF RemoveDone
    <3> QED BY <3>1, <3>2 DEF Inv, Walked
  <2>8. ASSUME NEW ch \in Channels, NEW takers \in SUBSET Clients, Publish(ch, takers)
        PROVE  Inv'
    BY <2>8, QuietInv DEF Publish
  <2>9. CASE Recreate
    <3>1. channels' = <<>> /\ DOMAIN channels' = {} /\ Len(channels') = 0
      BY <2>9 DEF Recreate
    <3>2. ListOK(channels')
      BY <3>1 DEF ListOK
    <3>3. Pairs' = {}
      BY <3>1 DEF Pairs
    <3>4. IsFiniteSet(Pairs') /\ Cardinality(Pairs') = 0
      BY <3>3, FS_EmptySet
    <3>5. CountersExact'
      BY <2>9, <3>1, <3>4 DEF Recreate, CountersExact
    <3> QED BY <2>9, <3>2, <3>4, <3>5, KeepsInv DEF Recreate
  <2>10. CASE UNCHANGED vars
    BY <2>10 DEF Inv, vars, Walked, CountersExact, Pairs, Subscribed
  <2> QED BY <2>1, <2>2, <2>3, <2>4, <2>5, <2>6, <2>7, <2>8, <2>9, <2>10 DEF Next
<1> QED BY <1>1, <1>2, PTL DEF Spec

\* No channel and no subscriber is listed twice, and no channel without a
\* subscriber, whatever the sequence of calls.
THEOREM ListsStaySets == Spec => []ListsAreSets
<1>1. Inv => ListsAreSets
  BY DEF Inv, ListOK, Distinct, ListsAreSets
<1> QED BY <1>1, Invariance, PTL

\* channel_count and subscription_count are the sizes of the lists at every step,
\* those inside ks_pubsub_remove_client included.
THEOREM CountersStayExact == Spec => []CountersExact
<1>1. Inv => CountersExact
  BY DEF Inv
<1> QED BY <1>1, Invariance, PTL

-----------------------------------------------------------------------------
(* The refinement: the lists implement the set of pairs of KsPubsubAbs.    *)

\* The abstract specification counts with the same Cardinality.
LEMMA SameCardinality == \A A : P!Cardinality(A) = Cardinality(A)
BY DEF P!Cardinality, Cardinality

\* Outside of ks_pubsub_remove_client the set is Pairs and nothing is leaving.
LEMMA IdlePairs ==
  /\ pc = "idle" => Pairs \ Leaving = Pairs /\ pc # "remove"
  /\ pc' = "idle" => (Pairs \ Leaving)' = Pairs' /\ pc' # "remove"
BY DEF Leaving

\* The channels with a subscriber are as many as the list is long.
LEMMA ChannelsCounted ==
  ASSUME ListOK(channels)
  PROVE  Cardinality({p[1] : p \in Pairs}) = Len(channels)
<1> DEFINE k == Len(channels)
           N == {p[1] : p \in Pairs}
           f == [n \in 1 .. k |-> channels[n].name]
<1>1. channels \in Seq(Channel) /\ k \in Nat /\ DOMAIN channels = 1 .. k
  BY DEF ListOK
<1>2. \A n \in 1 .. k : \E c : c \in Range(channels[n].subs)
  <2> SUFFICES ASSUME NEW n \in 1 .. k PROVE \E c : c \in Range(channels[n].subs)
    OBVIOUS
  <2>1. channels[n].subs \in Seq(Clients) /\ channels[n].subs # <<>>
    BY <1>1, Listed
  <2>2. 1 \in DOMAIN channels[n].subs
    BY <2>1
  <2> QED BY <2>2 DEF Range
<1>3. ASSUME NEW n \in 1 .. k
      PROVE  channels[n].name \in N
  <2>1. PICK c : c \in Range(channels[n].subs)
    BY <1>2
  <2>2. <<channels[n].name, c>> \in Pairs
    BY <2>1, <1>1 DEF Pairs
  <2> QED BY <2>2
<1>4. \A x \in N : \E n \in 1 .. k : channels[n].name = x
  BY <1>1 DEF Pairs
<1>5. \A m, n \in 1 .. k : channels[m].name = channels[n].name => m = n
  BY <1>1 DEF ListOK
<1> HIDE DEF N, k
<1>6. f \in Bijection(1 .. k, N)
  BY <1>3, <1>4, <1>5 DEF Bijection, Injection, Surjection, IsInjective
<1>7. IsFiniteSet(1 .. k) /\ Cardinality(1 .. k) = k
  BY <1>1, FS_Interval
<1> HIDE DEF f
<1>8. Cardinality(N) = k
  BY <1>6, <1>7, FS_Bijection DEF ExistsBijection
<1> QED BY <1>8 DEF N, k

\* The list a publish walks is the set of the channel's subscribers, once each.
LEMMA RecipientsAre ==
  ASSUME ListOK(channels), NEW ch
  PROVE  /\ Recipients(ch) \in Seq(Clients) /\ Distinct(Recipients(ch))
         /\ Range(Recipients(ch)) = {c \in Clients : <<ch, c>> \in Pairs}
<1>1. channels \in Seq(Channel)
  BY DEF ListOK
<1>2. \A c : <<ch, c>> \in Pairs <=> PairIn(channels, ch, c)
  BY <1>1, PairsAre, PairsOfLists
<1>3. CASE PlacesOf(ch) = {}
  <2>1. Recipients(ch) = <<>>
    BY <1>3 DEF Recipients
  <2>2. \A c : ~PairIn(channels, ch, c)
    BY <1>3 DEF PairIn, PlacesOf
  <2> QED BY <2>1, <2>2, <1>2 DEF Distinct, Range
<1>4. CASE PlacesOf(ch) # {}
  <2>1. PICK n \in PlacesOf(ch) : Recipients(ch) = channels[n].subs
    BY <1>4 DEF Recipients
  <2>2. n \in DOMAIN channels /\ channels[n].name = ch
    BY DEF PlacesOf
  <2>3. /\ channels[n].subs \in Seq(Clients) /\ Distinct(channels[n].subs)
        /\ \A c : PairIn(channels, ch, c) <=> c \in Range(channels[n].subs)
    BY <2>2, Listed DEF Subscribed
  <2>4. Range(channels[n].subs) \subseteq Clients
    BY <2>3 DEF Range
  <2> QED BY <2>1, <2>3, <2>4, <1>2
<1> QED BY <1>3, <1>4

\* A removal that has walked the whole list has left no pair of its client.
LEMMA NoneLeaving ==
  ASSUME Inv, pc = "remove", link \notin DOMAIN channels
  PROVE  Leaving = {}
<1>1. channels \in Seq(Channel) /\ Len(channels) \in Nat /\ DOMAIN channels = 1 .. Len(channels)
  BY DEF Inv, ListOK
<1>2. \A n \in DOMAIN channels : n < link
  BY <1>1 DEF Inv
<1>3. \A n \in DOMAIN channels : client \notin Range(channels[n].subs)
  BY <1>2 DEF Inv, Walked, Subscribed
<1>4. \A ch : <<ch, client>> \notin Pairs
  BY <1>1, <1>3, PairsAre, PairsOfLists DEF PairIn
<1>5. Pairs \subseteq Channels \X Clients
  BY <1>1, PairsAre, PairsOfLists
<1> QED BY <1>4, <1>5 DEF Leaving

\* A turn of the walk changes neither the pairs that stay nor the number the
\* removal will return.
LEMMA WalkStutters ==
  ASSUME Inv, RemoveStep
  PROVE  /\ (Pairs \ Leaving)' = Pairs \ Leaving
         /\ removed' + Cardinality(Leaving)' = removed + Cardinality(Leaving)
<1>1. PICK p \in Channels \X Clients :
        /\ p[2] = client /\ Pairs' = Pairs \ {p}
        /\ removed' = removed + (IF p \in Pairs THEN 1 ELSE 0)
  BY RemoveStepInv
<1>2. pc = "remove" /\ pc' = "remove" /\ client' = client
  BY DEF RemoveStep
<1>3. Leaving = {q \in Pairs : q[2] = client} /\ Leaving' = {q \in Pairs' : q[2] = client}
  BY <1>2 DEF Leaving
<1>4. /\ Leaving' = Leaving \ {p} /\ (Pairs \ Leaving)' = Pairs \ Leaving
      /\ p \in Pairs <=> p \in Leaving
  BY <1>1, <1>3
<1>5. IsFiniteSet(Leaving)
  <2>1. IsFiniteSet(Pairs) /\ Leaving \subseteq Pairs
    BY <1>3 DEF Inv
  <2> QED BY <2>1, FS_Subset
<1>6. /\ Cardinality(Leaving) \in Nat
      /\ p \in Leaving => Cardinality(Leaving \ {p}) = Cardinality(Leaving) - 1
  BY <1>5, PairCount
<1>7. removed \in Nat
  BY DEF Inv
<1>8. Cardinality(Leaving)' = Cardinality(Leaving \ {p})
  BY <1>4
<1>9. removed' + Cardinality(Leaving)' = removed + Cardinality(Leaving)
  <2>1. CASE p \in Leaving
    BY <2>1, <1>1, <1>4, <1>6, <1>7, <1>8
  <2>2. CASE p \notin Leaving
    <3>1. Leaving \ {p} = Leaving
      BY <2>2
    <3>2. Cardinality(Leaving)' = Cardinality(Leaving)
      BY <3>1, <1>8, Zenon
    <3>3. removed' = removed
      BY <2>2, <1>1, <1>4, <1>7
    <3> QED BY <3>2, <3>3
  <2> QED BY <2>1, <2>2
<1> QED BY <1>4, <1>9


\* Every step of the registry is a step of the set of pairs, or changes nothing
\* of it.
LEMMA StepImplements ==
  ASSUME Inv, [Next]_vars
  PROVE  [P!Next]_(P!absVars)
<1> DEFINE S == Pairs \ Leaving
<1>1. /\ ListOK(channels) /\ IsFiniteSet(Pairs) /\ CountersExact /\ pc \in {"idle", "remove"}
      /\ pc = "remove" => client \in Clients
  BY DEF Inv
<1>2. ASSUME NEW ch \in Channels, NEW c \in Clients, SubscribeExisting(ch, c) \/ SubscribeNew(ch, c)
      PROVE  P!Subscribe(ch, c)
  <2>1. <<ch, c>> \notin Pairs /\ Pairs' = Pairs \cup {<<ch, c>>}
    BY <1>2, JoinInv
  <2>2. pc = "idle" /\ pc' = "idle" /\ ret' = Ret("OK", 0, 0) /\ offered' = offered
    BY <1>2 DEF SubscribeExisting, SubscribeNew, Returns
  <2>3. S = Pairs /\ S' = Pairs' /\ pc # "remove" /\ pc' # "remove"
    BY <2>2, IdlePairs
  <2> QED BY <2>1, <2>2, <2>3 DEF P!Subscribe, P!Ret, Ret
<1>3. ASSUME NEW ch \in Channels, NEW c \in Clients, SubscribeTwice(ch, c)
      PROVE  P!Subscribe(ch, c)
  <2>1. <<ch, c>> \in Pairs
    BY <1>1, <1>3, IsListed DEF SubscribeTwice
  <2>2. /\ pc = "idle" /\ pc' = "idle" /\ ret' = Ret("ALREADY_SUBSCRIBED", 0, 0)
        /\ offered' = offered /\ channels' = channels
    BY <1>3 DEF SubscribeTwice, Unchanged, Returns
  <2>3. S = Pairs /\ S' = Pairs' /\ Pairs' = Pairs /\ pc # "remove" /\ pc' # "remove"
    BY <2>2, IdlePairs, PairsOfLists
  <2> QED BY <2>1, <2>2, <2>3 DEF P!Subscribe, P!Ret, Ret
<1>4. ASSUME NEW status, pc = "idle", Unchanged(Ret(status, 0, 0))
      PROVE  P!Refused(status)
  <2>1. pc' = "idle" /\ ret' = Ret(status, 0, 0) /\ offered' = offered /\ channels' = channels
    BY <1>4 DEF Unchanged, Returns
  <2>2. S = Pairs /\ S' = Pairs' /\ Pairs' = Pairs /\ pc # "remove" /\ pc' # "remove"
    BY <1>4, <2>1, IdlePairs, PairsOfLists
  <2> QED BY <2>1, <2>2 DEF P!Refused, P!Ret, Ret
<1>5. ASSUME NEW ch \in Channels, NEW c \in Clients, Unsubscribe(ch, c)
      PROVE  P!Unsubscribe(ch, c)
  <2>1. <<ch, c>> \in Pairs /\ Pairs' = Pairs \ {<<ch, c>>}
    BY <1>5, UnsubscribeInv
  <2>2. pc = "idle" /\ pc' = "idle" /\ ret' = Ret("OK", 0, 0) /\ offered' = offered
    BY <1>5 DEF Unsubscribe, Returns
  <2>3. S = Pairs /\ S' = Pairs' /\ pc # "remove" /\ pc' # "remove"
    BY <2>2, IdlePairs
  <2> QED BY <2>1, <2>2, <2>3 DEF P!Unsubscribe, P!Ret, Ret
<1>6. ASSUME NEW ch \in Channels, NEW c \in Clients, UnsubscribeMissing(ch, c)
      PROVE  P!Unsubscribe(ch, c)
  <2>1. <<ch, c>> \notin Pairs
    BY <1>1, <1>6, NotListed DEF UnsubscribeMissing
  <2>2. /\ pc = "idle" /\ pc' = "idle" /\ ret' = Ret("NOT_SUBSCRIBED", 0, 0)
        /\ offered' = offered /\ channels' = channels
    BY <1>6 DEF UnsubscribeMissing, Unchanged, Returns
  <2>3. S = Pairs /\ S' = Pairs' /\ Pairs' = Pairs /\ pc # "remove" /\ pc' # "remove"
    BY <2>2, IdlePairs, PairsOfLists
  <2> QED BY <2>1, <2>2, <2>3 DEF P!Unsubscribe, P!Ret, Ret
<1>7. ASSUME NEW c \in Clients, RemoveClient(c)
      PROVE  P!RemoveClient(c)
  <2>1. /\ pc = "idle" /\ pc' = "remove" /\ client' = c /\ removed' = 0
        /\ offered' = offered /\ channels' = channels
    BY <1>7 DEF RemoveClient
  <2>2. S = Pairs /\ Pairs' = Pairs
    BY <2>1, IdlePairs, PairsOfLists
  <2>3. Leaving' = {p \in Pairs : p[2] = c}
    BY <2>1, <2>2 DEF Leaving
  <2>4. S' = Pairs \ {p \in Pairs : p[2] = c}
    BY <2>2, <2>3
  <2>5. IsFiniteSet({p \in Pairs : p[2] = c})
    BY <1>1, FS_Subset
  <2>6. Cardinality({p \in Pairs : p[2] = c}) \in Nat
    BY <2>5, FS_CardinalityType
  <2>7. 0 + Cardinality({p \in Pairs : p[2] = c}) = Cardinality({p \in Pairs : p[2] = c})
    BY <2>6
  <2> QED BY <2>1, <2>2, <2>3, <2>4, <2>7, SameCardinality DEF P!RemoveClient, P!PairsOf, P!Ret, Ret
<1>8. CASE RemoveStep
  <2>1. S' = S /\ removed' + Cardinality(Leaving)' = removed + Cardinality(Leaving)
    BY <1>8, WalkStutters
  <2>2. pc = "remove" /\ pc' = "remove" /\ offered' = offered /\ ret' = ret
    BY <1>8 DEF RemoveStep
  <2> QED BY <2>1, <2>2 DEF P!absVars, Ret
<1>9. CASE RemoveDone
  <2>1. /\ pc = "remove" /\ pc' = "idle" /\ offered' = offered /\ channels' = channels
        /\ ret' = Ret("OK", removed, 0) /\ link \notin DOMAIN channels
    BY <1>9 DEF RemoveDone
  <2>2. Leaving = {}
    BY <2>1, NoneLeaving
  <2>3. S' = S
    BY <2>1, <2>2, IdlePairs, PairsOfLists
  <2>4. removed + Cardinality(Leaving) = removed
    BY <2>2, FS_EmptySet DEF Inv
  <2> QED BY <2>1, <2>3, <2>4 DEF P!absVars, Ret
<1>10. ASSUME NEW ch \in Channels, NEW takers \in SUBSET Clients, Publish(ch, takers)
       PROVE  P!Publish(ch, takers)
  <2> DEFINE r == Recipients(ch)
             T == {c \in Clients : <<ch, c>> \in Pairs}
  <2>1. r \in Seq(Clients) /\ Distinct(r) /\ Range(r) = T
    BY <1>1, RecipientsAre
  <2>2. /\ pc = "idle" /\ pc' = "idle" /\ channels' = channels /\ offered' = r
        /\ ret' = Ret("OK", Cardinality({n \in DOMAIN r : r[n] \in takers}), 0)
    BY <1>10 DEF Publish
  <2>3. S = Pairs /\ S' = Pairs' /\ Pairs' = Pairs /\ pc # "remove" /\ pc' # "remove"
    BY <2>2, IdlePairs, PairsOfLists
  <2> HIDE DEF r
  <2>4. /\ Cardinality(T) = Len(r)
        /\ Cardinality({n \in DOMAIN r : r[n] \in takers}) = Cardinality(T \cap takers)
    BY <2>1, CountDistinct
  <2>5. P!SubscribersOf(ch) = T
    BY <2>3 DEF P!SubscribersOf
  <2> HIDE DEF T
  <2> QED BY <2>1, <2>2, <2>3, <2>4, <2>5, SameCardinality DEF P!Publish, P!Ret, Ret
<1>11. CASE Counts
  <2>1. /\ pc = "idle" /\ pc' = "idle" /\ channels' = channels /\ offered' = offered
        /\ ret' = Ret("OK", channel_count, subscription_count)
    BY <1>11 DEF Counts, Unchanged, Returns
  <2>2. S = Pairs /\ S' = Pairs' /\ Pairs' = Pairs /\ pc # "remove" /\ pc' # "remove"
    BY <2>1, IdlePairs, PairsOfLists
  <2>3. /\ channel_count = Cardinality({p[1] : p \in Pairs})
        /\ subscription_count = Cardinality(Pairs)
    BY <1>1, ChannelsCounted DEF CountersExact
  <2>4. P!Counts
    BY <2>1, <2>2, <2>3, SameCardinality DEF P!Counts, P!Ret, Ret
  <2> QED BY <2>4 DEF P!Next
<1>12. CASE Recreate
  <2>1. /\ pc = "idle" /\ pc' = "idle" /\ channels' = <<>> /\ offered' = <<>>
        /\ ret' = Ret("OK", 0, 0)
    BY <1>12 DEF Recreate
  <2>2. S' = Pairs' /\ Pairs' = {} /\ pc' # "remove" /\ Range(offered') = {} /\ Len(offered') = 0
    BY <2>1, IdlePairs DEF Pairs, Range
  <2>3. P!Reset
    BY <2>1, <2>2 DEF P!Reset, P!Ret, Ret
  <2> QED BY <2>3 DEF P!Next
<1>13. CASE UNCHANGED vars
  <2>1. /\ Pairs' = Pairs /\ Leaving' = Leaving
    BY <1>13 DEF vars, Pairs, Leaving
  <2> QED BY <1>13, <2>1 DEF vars, P!absVars
<1>14. ASSUME NEW ch \in Channels, NEW c \in Clients, SubscribeNoMemory(ch, c)
       PROVE  P!Refused("NO_MEMORY")
  BY <1>4, <1>14 DEF SubscribeNoMemory
<1>15. SubscribeInvalid => P!Refused("INVALID_ARGUMENT")
  BY <1>4 DEF SubscribeInvalid
<1>16. CASE \E ch \in Channels, c \in Clients :
              \/ SubscribeTwice(ch, c) \/ SubscribeExisting(ch, c) \/ SubscribeNew(ch, c)
              \/ SubscribeNoMemory(ch, c) \/ Unsubscribe(ch, c) \/ UnsubscribeMissing(ch, c)
  BY <1>2, <1>3, <1>5, <1>6, <1>14, <1>16 DEF P!Next
<1>17. CASE SubscribeInvalid
  BY <1>15, <1>17 DEF P!Next
<1>18. CASE \E c \in Clients : RemoveClient(c)
  BY <1>7, <1>18 DEF P!Next
<1>19. CASE \E ch \in Channels, takers \in SUBSET Clients : Publish(ch, takers)
  BY <1>10, <1>19 DEF P!Next
<1> QED BY <1>8, <1>9, <1>11, <1>12, <1>13, <1>16, <1>17, <1>18, <1>19 DEF Next

\* The registry implements the set of (channel, client) pairs: every call
\* changes and answers what the set says, a publish calls every subscriber back
\* exactly once, and a removal takes effect at once for whoever calls next.
THEOREM RegistryImplementsPairs == Spec => ImplementsPubsub
<1>1. Init => P!Init
  <2> SUFFICES ASSUME Init PROVE P!Init
    OBVIOUS
  <2>1. pc = "idle" /\ channels = <<>> /\ offered = <<>> /\ ret = Ret("OK", 0, 0)
    BY DEF Init
  <2>2. Pairs \ Leaving = {} /\ pc # "remove" /\ Range(offered) = {} /\ Len(offered) = 0
    BY <2>1 DEF Pairs, Range
  <2> QED BY <2>1, <2>2 DEF P!Init, P!Ret, Ret
<1>2. Inv /\ [Next]_vars => [P!Next]_(P!absVars)
  BY StepImplements
<1> QED BY <1>1, <1>2, Invariance, PTL DEF Spec, ImplementsPubsub, P!Spec


=============================================================================
