-------------------------- MODULE KsProtocolProofs --------------------------
(***************************************************************************)
(* The protocol for lines of every length: ks_parse_line stays inside the  *)
(* line it takes apart and says what the grammar says of it, the CLI's     *)
(* scanner agrees with it, and no request makes a response longer than its *)
(* buffer.                                                                 *)
(***************************************************************************)
EXTENDS KsRequest, KsSizes, TLAPS, SequenceTheorems, WellFoundedInduction

LEMMA MinIsLeast ==
  ASSUME NEW S \in SUBSET Nat, S # {}
  PROVE  Min(S) \in S /\ \A y \in S : Min(S) <= y
<1> DEFINE R == OpToRel(<, Nat)
<1>1. \A x, y \in Nat : y < x => <<y, x>> \in R
  BY DEF OpToRel
<1>2. IsWellFoundedOn(R, Nat)
  BY NatLessThanWellFounded
<1> HIDE DEF R
<1>3. PICK x \in S : \A y \in S : ~(<<y, x>> \in R)
  BY <1>2, WFMin
<1>4. ASSUME NEW y \in S
      PROVE  x <= y
  <2>1. ~(<<y, x>> \in R)
    BY <1>3
  <2>2. ~(y < x)
    BY <1>1, <2>1
  <2> QED BY <2>2
<1> QED BY <1>4 DEF Min

\* A set that holds n and, with every other number up to n, the one below it,
\* holds 1.
LEMMA Descends ==
  ASSUME NEW n \in Nat, n >= 1, NEW S \in SUBSET (1 .. n), n \in S,
         \A k \in S : k > 1 => k - 1 \in S
  PROVE  1 \in S
<1>1. S \in SUBSET Nat /\ S # {}
  OBVIOUS
<1>2. Min(S) \in S /\ \A y \in S : Min(S) <= y
  BY <1>1, MinIsLeast
<1> DEFINE m == Min(S)
<1> HIDE DEF m
<1>3. m \in S /\ \A y \in S : m <= y
  BY <1>2 DEF m
<1>4. m \in 1 .. n
  BY <1>3
<1>5. ~(m > 1)
  <2>1. SUFFICES ASSUME m > 1 PROVE FALSE
    OBVIOUS
  <2>2. m - 1 \in S
    BY <1>3, <2>1
  <2>3. m <= m - 1
    BY <1>3, <2>2
  <2> QED BY <1>4, <2>3
<1>6. m = 1
  BY <1>4, <1>5
<1> QED BY <1>3, <1>6

-----------------------------------------------------------------------------
(* The grammar: its recursive functions exist and obey their equations.    *)

RestAt(body, f, p) ==
  IF p > Len(body) THEN IF p = Len(body) + 1 THEN {<<>>} ELSE {}
  ELSE IF body[p] = Quote THEN {}
  ELSE IF body[p] # Backslash THEN {<<body[p]>> \o m : m \in f[p + 1]}
  ELSE IF p < Len(body) /\ body[p + 1] \in {Quote, Backslash}
       THEN {<<body[p + 1]>> \o m : m \in f[p + 2]}
  ELSE {}

LEMMA RestLocal ==
  ASSUME NEW body, NEW f, NEW g, NEW p,
         p <= Len(body) => f[p + 1] = g[p + 1] /\ f[p + 2] = g[p + 2],
         Len(body) \in Nat, p \in Nat
  PROVE  RestAt(body, f, p) = RestAt(body, g, p)
<1>1. CASE p <= Len(body)
  <2>1. f[p + 1] = g[p + 1] /\ f[p + 2] = g[p + 2]
    BY <1>1
  <2> QED BY <2>1, Zenon DEF RestAt
<1>2. CASE p > Len(body)
  BY <1>2 DEF RestAt
<1> QED BY <1>1, <1>2

LEMMA RestsObey ==
  ASSUME NEW C, NEW body \in Seq(C)
  PROVE  \A p \in 1 .. Len(body) + 2 : Rests(body)[p] = RestAt(body, Rests(body), p)
<1> DEFINE n == Len(body) + 2
           D(k) == k .. n
           Good(f, k) == /\ f = [p \in D(k) |-> f[p]]
                         /\ \A p \in D(k) : f[p] = RestAt(body, f, p)
           S == {k \in 1 .. n : \E f : Good(f, k)}
<1>0. Len(body) \in Nat /\ n \in Nat /\ n >= 1
  BY LenProperties
<1>1. n \in S
  <2> DEFINE f == [p \in D(n) |-> {}]
  <2>1. \A p \in D(n) : p = n
    BY <1>0
  <2>2. RestAt(body, f, n) = {}
    BY <1>0 DEF RestAt
  <2>3. n \in D(n)
    BY <1>0
  <2>4. f = [p \in D(n) |-> f[p]] /\ \A p \in D(n) : f[p] = {}
    OBVIOUS
  <2> HIDE DEF f, D
  <2>5. Good(f, n)
    BY <2>1, <2>2, <2>4
  <2> QED BY <1>0, <2>5
<1>2. ASSUME NEW k \in S, k > 1
      PROVE  k - 1 \in S
  <2>1. PICK f : Good(f, k)
    OBVIOUS
  <2>2. k \in 1 .. n /\ k - 1 \in 1 .. n
    BY <1>0, <1>2
  <2> DEFINE g == [p \in D(k - 1) |-> IF p = k - 1 THEN RestAt(body, f, k - 1) ELSE f[p]]
  <2>3. ASSUME NEW p \in D(k - 1)
        PROVE  p \in Nat /\ p >= k - 1 /\ p <= n /\ (p # k - 1 => p \in D(k))
    BY <1>0, <2>2
  <2>4. \A p \in D(k) : p \in D(k - 1) /\ p # k - 1
    BY <1>0, <2>2
  <2>5. \A p \in D(k) : g[p] = f[p]
    BY <2>4
  <2>6. ASSUME NEW p \in D(k - 1)
        PROVE  RestAt(body, g, p) = RestAt(body, f, p)
    <3>1. p <= Len(body) => p + 1 \in D(k) /\ p + 2 \in D(k)
      BY <1>0, <2>2, <2>3
    <3>2. p \in Nat
      BY <2>3
    <3> HIDE DEF g, D
    <3>3. p <= Len(body) => g[p + 1] = f[p + 1] /\ g[p + 2] = f[p + 2]
      BY <2>5, <3>1
    <3> QED BY <1>0, <3>2, <3>3, RestLocal
  <2>7. ASSUME NEW p \in D(k - 1)
        PROVE  g[p] = RestAt(body, f, p)
    <3>1. CASE p = k - 1
      BY <3>1
    <3>2. CASE p # k - 1
      <4>1. p \in D(k)
        BY <2>3, <3>2
      <4> QED BY <2>1, <2>5, <4>1
    <3> QED BY <3>1, <3>2
  <2>8. g = [p \in D(k - 1) |-> g[p]]
    OBVIOUS
  <2> HIDE DEF g, D
  <2>9. Good(g, k - 1)
    BY <2>6, <2>7, <2>8
  <2> QED BY <2>2, <2>9
<1>3. 1 \in S
  <2>1. S \in SUBSET (1 .. n)
    OBVIOUS
  <2> HIDE DEF S, n
  <2> QED BY <1>0, <1>1, <1>2, <2>1, Descends
<1>4. PICK f : Good(f, 1)
  BY <1>3
<1> DEFINE All(h) == [p \in 1 .. Len(body) + 2 |-> RestAt(body, h, p)]
<1>5. f = All(f)
  BY <1>4
<1>6. Rests(body) = CHOOSE h : h = All(h)
  BY Zenon DEF Rests, RestAt
<1>7. Rests(body) = All(Rests(body))
  <2>1. \E h : h = All(h)
    BY <1>5
  <2> HIDE DEF All
  <2> QED BY <1>6, <2>1
<1>8. ASSUME NEW h, h = All(h), NEW p \in 1 .. Len(body) + 2
      PROVE  h[p] = RestAt(body, h, p)
  <2>1. All(h)[p] = RestAt(body, h, p)
    BY Zenon
  <2> HIDE DEF All
  <2> QED BY <1>8, <2>1
<1> HIDE DEF All
<1> QED BY <1>7, <1>8

ReadAt(t, f, p) ==
  IF AllSeparators(From(t, p)) THEN {<<>>}
  ELSE IF t[p] \in Separators THEN f[p + 1]
  ELSE UNION {Joined(TokenMeanings(SubSeq(t, p, e)), f[e + 1]) : e \in TokenEnds(t, p)}

LEMMA ReadLocal ==
  ASSUME NEW t, NEW f, NEW g, NEW p, Len(t) \in Nat, p \in 1 .. Len(t) + 1,
         ~AllSeparators(From(t, p)) => p <= Len(t),
         \A q \in p + 1 .. Len(t) + 1 : f[q] = g[q]
  PROVE  ReadAt(t, f, p) = ReadAt(t, g, p)
<1>1. CASE AllSeparators(From(t, p))
  BY <1>1, Zenon DEF ReadAt
<1>2. CASE ~AllSeparators(From(t, p)) /\ t[p] \in Separators
  <2>1. f[p + 1] = g[p + 1]
    BY <1>2
  <2> QED BY <1>2, <2>1, Zenon DEF ReadAt
<1>3. CASE ~AllSeparators(From(t, p)) /\ t[p] \notin Separators
  <2> DEFINE W(h, e) == Joined(TokenMeanings(SubSeq(t, p, e)), h[e + 1])
  <2>1. ASSUME NEW e \in TokenEnds(t, p)
        PROVE  f[e + 1] = g[e + 1]
    <3>1. e \in p .. Len(t)
      BY DEF TokenEnds
    <3>2. e + 1 \in p + 1 .. Len(t) + 1
      BY <3>1
    <3> QED BY <3>2
  <2>2. ASSUME NEW e \in TokenEnds(t, p)
        PROVE  W(f, e) = W(g, e)
    BY <2>1, Zenon
  <2>3. ReadAt(t, f, p) = UNION {W(f, e) : e \in TokenEnds(t, p)}
    BY <1>3, Zenon DEF ReadAt
  <2>4. ReadAt(t, g, p) = UNION {W(g, e) : e \in TokenEnds(t, p)}
    BY <1>3, Zenon DEF ReadAt
  <2> HIDE DEF W
  <2>5. {W(f, e) : e \in TokenEnds(t, p)} = {W(g, e) : e \in TokenEnds(t, p)}
    BY <2>2, Zenon
  <2> QED BY <2>3, <2>4, <2>5, Zenon
<1> QED BY <1>1, <1>2, <1>3

LEMMA FromIs ==
  ASSUME NEW C, NEW t \in Seq(C), NEW p \in 1 .. Len(t) + 1
  PROVE  AllSeparators(From(t, p)) <=> \A n \in p .. Len(t) : t[n] \in Separators
<1> DEFINE s == From(t, p)
<1>1. Len(t) \in Nat
  BY LenProperties
<1>2. \A k \in p .. Len(t) : t[k] \in C
  BY <1>1, ElementOfSeq
<1>3. /\ s \in Seq(C) /\ Len(s) = Len(t) - p + 1
      /\ \A i \in 1 .. Len(t) - p + 1 : s[i] = t[p + i - 1]
  <2>1. /\ SubSeq(t, p, Len(t)) \in Seq(C)
        /\ Len(SubSeq(t, p, Len(t))) = IF p <= Len(t) THEN Len(t) - p + 1 ELSE 0
        /\ \A i \in 1 .. Len(t) - p + 1 : SubSeq(t, p, Len(t))[i] = t[p + i - 1]
    BY <1>1, <1>2, SubSeqProperties
  <2>2. Len(s) = Len(t) - p + 1
    BY <1>1, <2>1 DEF From
  <2> QED BY <2>1, <2>2 DEF From
<1> HIDE DEF s
<1>4. DOMAIN s = 1 .. Len(t) - p + 1
  BY <1>3
<1>5. ASSUME \A n \in p .. Len(t) : t[n] \in Separators
      PROVE  \A i \in DOMAIN s : s[i] \in Separators
  <2>1. ASSUME NEW i \in DOMAIN s PROVE s[i] \in Separators
    <3>1. p + i - 1 \in p .. Len(t) /\ i \in 1 .. Len(t) - p + 1
      BY <1>1, <1>4
    <3> QED BY <1>3, <1>5, <3>1
  <2> QED BY <2>1
<1>6. ASSUME \A i \in DOMAIN s : s[i] \in Separators
      PROVE  \A n \in p .. Len(t) : t[n] \in Separators
  <2>1. ASSUME NEW n \in p .. Len(t) PROVE t[n] \in Separators
    <3> DEFINE i == n - p + 1
    <3>1. i \in 1 .. Len(t) - p + 1 /\ p + i - 1 = n
      BY <1>1
    <3> HIDE DEF i
    <3>2. s[i] = t[n]
      BY <1>3, <3>1
    <3> QED BY <1>4, <1>6, <3>1, <3>2
  <2> QED BY <2>1
<1>7. AllSeparators(s) <=> \A i \in DOMAIN s : s[i] \in Separators
  BY DEF AllSeparators
<1> QED BY <1>5, <1>6, <1>7 DEF s

LEMMA ReadsObey ==
  ASSUME NEW C, NEW t \in Seq(C)
  PROVE  \A p \in 1 .. Len(t) + 1 : Reads(t)[p] = ReadAt(t, Reads(t), p)
<1> DEFINE n == Len(t) + 1
           D(k) == k .. n
           Good(f, k) == /\ f = [p \in D(k) |-> f[p]]
                         /\ \A p \in D(k) : f[p] = ReadAt(t, f, p)
           S == {k \in 1 .. n : \E f : Good(f, k)}
<1>0. Len(t) \in Nat /\ n \in Nat /\ n >= 1
  BY LenProperties
<1>9. ASSUME NEW p \in 1 .. n, ~AllSeparators(From(t, p))
      PROVE  p <= Len(t)
  <2>1. \E k \in p .. Len(t) : t[k] \notin Separators
    BY <1>9, FromIs
  <2> QED BY <1>0, <2>1
<1>1. n \in S
  <2> DEFINE f == [p \in D(n) |-> {<<>>}]
  <2>1. \A p \in D(n) : p = n
    BY <1>0
  <2>2. ReadAt(t, f, n) = {<<>>}
    <3>1. AllSeparators(From(t, n))
      BY <1>0, <1>9
    <3> HIDE DEF f
    <3> QED BY <3>1, Zenon DEF ReadAt
  <2>4. f = [p \in D(n) |-> f[p]] /\ \A p \in D(n) : f[p] = {<<>>}
    OBVIOUS
  <2> HIDE DEF f, D
  <2>5. Good(f, n)
    BY <2>1, <2>2, <2>4
  <2> QED BY <1>0, <2>5
<1>2. ASSUME NEW k \in S, k > 1
      PROVE  k - 1 \in S
  <2>1. PICK f : Good(f, k)
    OBVIOUS
  <2>2. k \in 1 .. n /\ k - 1 \in 1 .. n
    BY <1>0, <1>2
  <2> DEFINE g == [p \in D(k - 1) |-> IF p = k - 1 THEN ReadAt(t, f, k - 1) ELSE f[p]]
  <2>3. ASSUME NEW p \in D(k - 1)
        PROVE  p \in 1 .. n /\ p >= k - 1 /\ (p # k - 1 => p \in D(k))
    BY <1>0, <2>2
  <2>4. \A p \in D(k) : p \in D(k - 1) /\ p # k - 1
    BY <1>0, <2>2
  <2>5. \A p \in D(k) : g[p] = f[p]
    BY <2>4
  <2>6. ASSUME NEW p \in D(k - 1)
        PROVE  ReadAt(t, g, p) = ReadAt(t, f, p)
    <3>1. \A q \in p + 1 .. n : q \in D(k)
      BY <1>0, <2>2, <2>3
    <3>2. p \in 1 .. Len(t) + 1
      BY <2>3
    <3>3. ~AllSeparators(From(t, p)) => p <= Len(t)
      BY <1>9, <3>2
    <3> HIDE DEF g, D
    <3>4. \A q \in p + 1 .. Len(t) + 1 : g[q] = f[q]
      BY <2>5, <3>1
    <3> QED BY <1>0, <3>2, <3>3, <3>4, ReadLocal
  <2>7. ASSUME NEW p \in D(k - 1)
        PROVE  g[p] = ReadAt(t, f, p)
    <3>1. CASE p = k - 1
      BY <3>1
    <3>2. CASE p # k - 1
      <4>1. p \in D(k)
        BY <2>3, <3>2
      <4> QED BY <2>1, <2>5, <4>1
    <3> QED BY <3>1, <3>2
  <2>8. g = [p \in D(k - 1) |-> g[p]]
    OBVIOUS
  <2> HIDE DEF g, D
  <2>9. Good(g, k - 1)
    BY <2>6, <2>7, <2>8
  <2> QED BY <2>2, <2>9
<1>3. 1 \in S
  <2>1. S \in SUBSET (1 .. n)
    OBVIOUS
  <2> HIDE DEF S, n
  <2> QED BY <1>0, <1>1, <1>2, <2>1, Descends
<1>4. PICK f : Good(f, 1)
  BY <1>3
<1> DEFINE All(h) == [p \in 1 .. Len(t) + 1 |-> ReadAt(t, h, p)]
<1>5. f = All(f)
  BY <1>4
<1>6. Reads(t) = CHOOSE h : h = All(h)
  BY Zenon DEF Reads, ReadAt
<1>7. Reads(t) = All(Reads(t))
  <2>1. \E h : h = All(h)
    BY <1>5
  <2> HIDE DEF All
  <2> QED BY <1>6, <2>1
<1>8. ASSUME NEW h, h = All(h), NEW p \in 1 .. Len(t) + 1
      PROVE  h[p] = ReadAt(t, h, p)
  <2>1. All(h)[p] = ReadAt(t, h, p)
    BY Zenon
  <2> HIDE DEF All
  <2> QED BY <1>8, <2>1
<1> HIDE DEF All
<1> QED BY <1>7, <1>8

-----------------------------------------------------------------------------
(* What the grammar says of a quoted token, read from left to right.       *)

LEMMA ConcatIs ==
  ASSUME NEW C, NEW c \in C, NEW m \in Seq(C)
  PROVE  <<c>> \o m \in Seq(C) /\ <<c>> \o m # <<>> /\ Len(<<c>> \o m) = Len(m) + 1
<1>1. <<c>> \in Seq(C) /\ Len(<<c>>) = 1
  OBVIOUS
<1>2. <<c>> \o m \in Seq(C) /\ Len(<<c>> \o m) = Len(<<c>>) + Len(m)
  BY <1>1, ConcatProperties
<1>3. Len(m) \in Nat
  BY LenProperties
<1>4. Len(<<>>) = 0
  BY EmptySeq
<1> QED BY <1>1, <1>2, <1>3, <1>4

LEMMA RestsTyped ==
  ASSUME NEW C, NEW body \in Seq(C)
  PROVE  \A p \in 1 .. Len(body) + 2 : Rests(body)[p] \subseteq Seq(C)
<1> DEFINE F == Rests(body)
           n == Len(body) + 2
           S == {k \in 1 .. n : \A p \in k .. n : F[p] \subseteq Seq(C)}
<1>0. Len(body) \in Nat /\ n \in Nat /\ n >= 1
  BY LenProperties
<1>1. \A p \in 1 .. n : F[p] = RestAt(body, F, p)
  BY RestsObey
<1>2. \A i \in 1 .. Len(body) : body[i] \in C
  BY ElementOfSeq
<1> HIDE DEF F
<1>3. n \in S
  <2>1. n \in 1 .. n
    BY <1>0
  <2>2. \A p \in n .. n : p = n
    BY <1>0
  <2>3. RestAt(body, F, n) = {}
    BY <1>0 DEF RestAt
  <2> QED BY <1>1, <2>1, <2>2, <2>3
<1>4. ASSUME NEW k \in S, k > 1
      PROVE  k - 1 \in S
  <2> DEFINE j == k - 1
  <2>1. k \in 1 .. n /\ j \in 1 .. n /\ k = j + 1
    BY <1>0, <1>4
  <2>2. \A p \in j + 1 .. n : F[p] \subseteq Seq(C)
    BY <2>1
  <2>3. \A p \in j .. n : p = j \/ p \in j + 1 .. n
    BY <1>0, <2>1
  <2>4. F[j] = RestAt(body, F, j)
    BY <1>1, <2>1
  <2> HIDE DEF j
  <2>5. RestAt(body, F, j) \subseteq Seq(C)
    <3>1. CASE j > Len(body)
      <4>1. RestAt(body, F, j) = {<<>>} \/ RestAt(body, F, j) = {}
        BY <3>1, Zenon DEF RestAt
      <4>2. <<>> \in Seq(C)
        BY EmptySeq
      <4> QED BY <4>1, <4>2, Zenon
    <3>2. CASE ~(j > Len(body)) /\ body[j] # Quote /\ body[j] # Backslash
      <4>1. RestAt(body, F, j) = {<<body[j]>> \o m : m \in F[j + 1]}
        BY <3>2, Zenon DEF RestAt
      <4>2. F[j + 1] \subseteq Seq(C) /\ body[j] \in C
        BY <1>0, <1>2, <2>1, <2>2, <3>2
      <4>3. \A m \in F[j + 1] : <<body[j]>> \o m \in Seq(C)
        BY <4>2, ConcatIs
      <4> QED BY <4>1, <4>3, Zenon
    <3>3. CASE ~(j > Len(body)) /\ body[j] # Quote /\ body[j] = Backslash
               /\ j < Len(body) /\ body[j + 1] \in {Quote, Backslash}
      <4>1. RestAt(body, F, j) = {<<body[j + 1]>> \o m : m \in F[j + 2]}
        BY <3>3, Zenon DEF RestAt
      <4>2. F[j + 2] \subseteq Seq(C) /\ body[j + 1] \in C
        BY <1>0, <1>2, <2>1, <2>2, <3>3
      <4>3. \A m \in F[j + 2] : <<body[j + 1]>> \o m \in Seq(C)
        BY <4>2, ConcatIs
      <4> QED BY <4>1, <4>3, Zenon
    <3>4. CASE /\ ~(j > Len(body))
               /\ \/ body[j] = Quote
                  \/ body[j] = Backslash /\ ~(j < Len(body) /\ body[j + 1] \in {Quote, Backslash})
      <4>1. RestAt(body, F, j) = {}
        BY <3>4, Zenon DEF RestAt
      <4> QED BY <4>1
    <3> QED BY <3>1, <3>2, <3>3, <3>4
  <2>6. \A p \in j .. n : F[p] \subseteq Seq(C)
    BY <2>2, <2>3, <2>4, <2>5
  <2>7. j \in S
    BY <2>1, <2>6
  <2> QED BY <2>7 DEF j
<1>5. 1 \in S
  <2>1. S \in SUBSET (1 .. n)
    OBVIOUS
  <2> HIDE DEF S, n
  <2> QED BY <1>0, <1>3, <1>4, <2>1, Descends
<1> QED BY <1>5 DEF F

\* The cases of RestAt, for a character, an escape, and what cannot go on.
LEMMA RestCases ==
  ASSUME NEW C, NEW body \in Seq(C), NEW p \in 1 .. Len(body) + 1
  PROVE  /\ p = Len(body) + 1 => Rests(body)[p] = {<<>>}
         /\ p <= Len(body) /\ body[p] \notin {Quote, Backslash} =>
              Rests(body)[p] = {<<body[p]>> \o m : m \in Rests(body)[p + 1]}
         /\ p < Len(body) /\ body[p] = Backslash /\ body[p + 1] \in {Quote, Backslash} =>
              Rests(body)[p] = {<<body[p + 1]>> \o m : m \in Rests(body)[p + 2]}
         /\ p <= Len(body) /\ body[p] = Quote => Rests(body)[p] = {}
         /\ p = Len(body) /\ body[p] = Backslash => Rests(body)[p] = {}
         /\ p < Len(body) /\ body[p] = Backslash /\ body[p + 1] \notin {Quote, Backslash} =>
              Rests(body)[p] = {}
<1>0. Len(body) \in Nat
  BY LenProperties
<1> DEFINE F == Rests(body)
<1>1. p \in 1 .. Len(body) + 2
  BY <1>0
<1>2. F[p] = RestAt(body, F, p)
  BY <1>1, RestsObey
<1>3. Quote # Backslash
  BY DEF Quote, Backslash
<1> HIDE DEF F
<1>4. ASSUME p = Len(body) + 1 PROVE RestAt(body, F, p) = {<<>>}
  <2>1. p > Len(body)
    BY <1>0, <1>4
  <2> QED BY <1>4, <2>1, Zenon DEF RestAt
<1>5. ASSUME p <= Len(body) PROVE ~(p > Len(body))
  BY <1>0, <1>5
<1>6. ASSUME p <= Len(body), body[p] \notin {Quote, Backslash}
      PROVE  RestAt(body, F, p) = {<<body[p]>> \o m : m \in F[p + 1]}
  BY <1>5, <1>6, Zenon DEF RestAt
<1>7. ASSUME p < Len(body), body[p] = Backslash, body[p + 1] \in {Quote, Backslash}
      PROVE  RestAt(body, F, p) = {<<body[p + 1]>> \o m : m \in F[p + 2]}
  <2>1. ~(p > Len(body))
    BY <1>0, <1>7
  <2> QED BY <1>3, <1>7, <2>1, Zenon DEF RestAt
<1>8. ASSUME p <= Len(body), body[p] = Quote PROVE RestAt(body, F, p) = {}
  BY <1>5, <1>8, Zenon DEF RestAt
<1>9. ASSUME p = Len(body), body[p] = Backslash PROVE RestAt(body, F, p) = {}
  <2>1. ~(p > Len(body)) /\ ~(p < Len(body))
    BY <1>0, <1>9
  <2> QED BY <1>3, <1>9, <2>1, Zenon DEF RestAt
<1>10. ASSUME p < Len(body), body[p] = Backslash, body[p + 1] \notin {Quote, Backslash}
       PROVE  RestAt(body, F, p) = {}
  <2>1. ~(p > Len(body))
    BY <1>0, <1>10
  <2> QED BY <1>3, <1>10, <2>1, Zenon DEF RestAt
<1>11. /\ p = Len(body) + 1 => F[p] = {<<>>}
       /\ p <= Len(body) /\ body[p] \notin {Quote, Backslash} =>
            F[p] = {<<body[p]>> \o m : m \in F[p + 1]}
       /\ p < Len(body) /\ body[p] = Backslash /\ body[p + 1] \in {Quote, Backslash} =>
            F[p] = {<<body[p + 1]>> \o m : m \in F[p + 2]}
       /\ p <= Len(body) /\ body[p] = Quote => F[p] = {}
       /\ p = Len(body) /\ body[p] = Backslash => F[p] = {}
       /\ p < Len(body) /\ body[p] = Backslash /\ body[p + 1] \notin {Quote, Backslash} =>
            F[p] = {}
  BY <1>2, <1>4, <1>6, <1>7, <1>8, <1>9, <1>10, Zenon
<1> QED BY <1>11, Zenon DEF F

\* What is behind the quote at p, up to the character before e.
Body(t, p, e) == SubSeq(t, p + 1, e - 1)

LEMMA BodyIs ==
  ASSUME NEW C, NEW t \in Seq(C), NEW p \in 1 .. Len(t), NEW e \in p + 1 .. Len(t)
  PROVE  /\ Body(t, p, e) \in Seq(C) /\ Len(Body(t, p, e)) = e - 1 - p
         /\ \A i \in 1 .. e - 1 - p : Body(t, p, e)[i] = t[p + i]
<1>0. Len(t) \in Nat
  BY LenProperties
<1>1. \A k \in p + 1 .. e - 1 : t[k] \in C
  BY <1>0, ElementOfSeq
<1>2. p + 1 \in Int /\ e - 1 \in Int
  BY <1>0
<1>3. /\ SubSeq(t, p + 1, e - 1) \in Seq(C)
      /\ Len(SubSeq(t, p + 1, e - 1)) = IF p + 1 <= e - 1 THEN e - 1 - (p + 1) + 1 ELSE 0
      /\ \A i \in 1 .. e - 1 - (p + 1) + 1 : SubSeq(t, p + 1, e - 1)[i] = t[p + 1 + i - 1]
  BY <1>1, <1>2, SubSeqProperties
<1>4. SubSeq(t, p + 1, e - 1) = Body(t, p, e)
  BY DEF Body
<1> DEFINE b == Body(t, p, e)
<1> HIDE DEF b
<1>5. /\ b \in Seq(C)
      /\ Len(b) = IF p + 1 <= e - 1 THEN e - 1 - (p + 1) + 1 ELSE 0
      /\ \A i \in 1 .. e - 1 - (p + 1) + 1 : b[i] = t[p + 1 + i - 1]
  BY <1>3, <1>4 DEF b
<1>6. \A i \in 1 .. e - 1 - p : p + 1 + i - 1 = p + i
  BY <1>0
<1>7. Len(b) = e - 1 - p /\ e - 1 - (p + 1) + 1 = e - 1 - p
  BY <1>0, <1>5
<1>8. \A i \in 1 .. e - 1 - p : b[i] = t[p + i]
  BY <1>5, <1>6, <1>7
<1> QED BY <1>5, <1>7, <1>8 DEF b

\* Each of X behind c.
Behind(c, X) == {c \o m : m \in X}

LEMMA BehindSteps ==
  ASSUME NEW C, NEW c \in Seq(C), NEW d \in C, NEW X, NEW Y, NEW W, Y \subseteq Seq(C),
         W = Behind(c, X), X = Behind(<<d>>, Y)
  PROVE  W = Behind(c \o <<d>>, Y)
<1>1. <<d>> \in Seq(C)
  OBVIOUS
<1>2. \A m \in Y : (c \o <<d>>) \o m = c \o (<<d>> \o m)
  BY <1>1, ConcatAssociative
<1>3. W = {c \o m : m \in {<<d>> \o k : k \in Y}}
  BY Zenon DEF Behind
<1>4. \A x : x \in W <=> \E k \in Y : x = c \o (<<d>> \o k)
  BY <1>3, Zenon
<1>5. ASSUME NEW x PROVE x \in W <=> \E k \in Y : x = (c \o <<d>>) \o k
  <2>1. ASSUME NEW k \in Y PROVE (c \o <<d>>) \o k = c \o (<<d>> \o k)
    BY <1>2, Zenon
  <2>2. ASSUME x \in W PROVE \E k \in Y : x = (c \o <<d>>) \o k
    <3>1. PICK k \in Y : x = c \o (<<d>> \o k)
      BY <1>4, <2>2, Zenon
    <3>2. x = (c \o <<d>>) \o k
      BY <2>1, <3>1
    <3> QED BY <3>2, Zenon
  <2>3. ASSUME NEW k \in Y, x = (c \o <<d>>) \o k PROVE x \in W
    <3>1. x = c \o (<<d>> \o k)
      BY <2>1, <2>3
    <3> QED BY <1>4, <3>1, Zenon
  <2> QED BY <2>2, <2>3, Zenon
<1>6. \A x : x \in W <=> x \in {(c \o <<d>>) \o k : k \in Y}
  BY <1>5, Zenon
<1>7. W = {(c \o <<d>>) \o k : k \in Y}
  BY <1>6, Zenon
<1> QED BY <1>7, Zenon DEF Behind

LEMMA BehindNone ==
  ASSUME NEW c, NEW W, W = Behind(c, {})
  PROVE  W = {}
BY Zenon DEF Behind

LEMMA BehindOne ==
  ASSUME NEW C, NEW c \in Seq(C), NEW W, W = Behind(c, {<<>>})
  PROVE  W = {c}
<1>1. c \o <<>> = c
  BY ConcatEmptySeq
<1>2. \A x : x \in W <=> \E m \in {<<>>} : x = c \o m
  BY Zenon DEF Behind
<1>3. \A x : x \in W <=> x = c
  BY <1>1, <1>2, Zenon
<1> QED BY <1>3, Zenon

LEMMA BehindNothing ==
  ASSUME NEW C, NEW X, X \subseteq Seq(C)
  PROVE  X = Behind(<<>>, X)
<1>1. \A m \in X : <<>> \o m = m
  BY ConcatEmptySeq
<1>2. \A x : x \in Behind(<<>>, X) <=> \E m \in X : x = <<>> \o m
  BY Zenon DEF Behind
<1>3. ASSUME NEW x PROVE x \in Behind(<<>>, X) <=> x \in X
  <2>1. x \in Behind(<<>>, X) => x \in X
    BY <1>1, <1>2
  <2>2. x \in X => x \in Behind(<<>>, X)
    BY <1>1, <1>2
  <2> QED BY <2>1, <2>2
<1> QED BY <1>3, Zenon

\* Read from the quote at p up to q, the token has brought c: it has not ended,
\* and however it ends, it is c and what comes from q on.
Scanned(t, p, q, c) ==
  /\ \A e \in p + 1 .. q - 1 : t[e] = Quote => Unquoted(Body(t, p, e)) = {}
  /\ \A e \in p + 1 .. Len(t) :
       e >= q => Unquoted(Body(t, p, e)) = Behind(c, Rests(Body(t, p, e))[q - p])

LEMMA ScanStart ==
  ASSUME NEW C, NEW t \in Seq(C), NEW p \in 1 .. Len(t)
  PROVE  Scanned(t, p, p + 1, <<>>)
<1>0. Len(t) \in Nat
  BY LenProperties
<1>1. ~ \E e \in p + 1 .. p + 1 - 1 : TRUE
  BY <1>0
<1>2. p + 1 - p = 1
  BY <1>0
<1>3. ASSUME NEW e \in p + 1 .. Len(t)
      PROVE  Unquoted(Body(t, p, e)) = Behind(<<>>, Rests(Body(t, p, e))[p + 1 - p])
  <2> DEFINE b == Body(t, p, e)
  <2>1. b \in Seq(C) /\ Len(b) \in Nat
    BY BodyIs, LenProperties
  <2>2. 1 \in 1 .. Len(b) + 2
    BY <2>1
  <2>3. Rests(b)[1] \subseteq Seq(C)
    BY <2>1, <2>2, RestsTyped
  <2> HIDE DEF b
  <2>4. Rests(b)[1] = Behind(<<>>, Rests(b)[1])
    BY <2>3, BehindNothing
  <2>5. Unquoted(b) = Behind(<<>>, Rests(b)[p + 1 - p])
    BY <1>2, <2>4, Zenon DEF Unquoted
  <2> QED BY <2>5 DEF b
<1> QED BY <1>1, <1>3 DEF Scanned

LEMMA ScanChar ==
  ASSUME NEW C, NEW t \in Seq(C), NEW p \in 1 .. Len(t), NEW q \in p + 1 .. Len(t),
         NEW c \in Seq(C), Scanned(t, p, q, c), t[q] \notin {Quote, Backslash}
  PROVE  Scanned(t, p, q + 1, c \o <<t[q]>>)
<1>0. Len(t) \in Nat /\ t[q] \in C
  BY LenProperties, ElementOfSeq
<1>1. ASSUME NEW e \in p + 1 .. q + 1 - 1, t[e] = Quote
      PROVE  Unquoted(Body(t, p, e)) = {}
  <2>1. e # q
    BY <1>1
  <2>2. e \in p + 1 .. q - 1
    BY <1>0, <2>1
  <2> QED BY <1>1, <2>2, Zenon DEF Scanned
<1>2. ASSUME NEW e \in p + 1 .. Len(t), e >= q + 1
      PROVE  Unquoted(Body(t, p, e)) = Behind(c \o <<t[q]>>, Rests(Body(t, p, e))[q + 1 - p])
  <2> DEFINE b == Body(t, p, e)
             i == q - p
  <2>1. b \in Seq(C) /\ Len(b) = e - 1 - p /\ \A k \in 1 .. e - 1 - p : b[k] = t[p + k]
    BY BodyIs
  <2>2. i \in 1 .. e - 1 - p /\ p + i = q /\ i + 1 \in 1 .. e - 1 - p + 2 /\ q + 1 - p = i + 1
    BY <1>0, <1>2
  <2>3. e >= q
    BY <1>0, <1>2
  <2>4. Unquoted(b) = Behind(c, Rests(b)[i])
    BY <2>3, Zenon DEF Scanned
  <2> HIDE DEF b, i
  <2>5. b[i] = t[q] /\ i <= Len(b) /\ i \in 1 .. Len(b) + 1 /\ i + 1 \in 1 .. Len(b) + 2
    <3>1. b[i] = t[q]
      BY <2>1, <2>2
    <3>2. i \in 1 .. Len(b) /\ Len(b) \in Nat
      BY <2>1, <2>2, LenProperties
    <3> QED BY <3>1, <3>2
  <2>6. Rests(b)[i] = {<<t[q]>> \o m : m \in Rests(b)[i + 1]}
    <3>1. i <= Len(b) /\ b[i] \notin {Quote, Backslash} =>
            Rests(b)[i] = {<<b[i]>> \o m : m \in Rests(b)[i + 1]}
      BY <2>1, <2>5, RestCases, Zenon
    <3> QED BY <2>5, <3>1, Zenon
  <2>7. Rests(b)[i] = Behind(<<t[q]>>, Rests(b)[i + 1])
    BY <2>6, Zenon DEF Behind
  <2>8. Rests(b)[i + 1] \subseteq Seq(C)
    BY <2>1, <2>5, RestsTyped
  <2>9. Unquoted(b) = Behind(c \o <<t[q]>>, Rests(b)[i + 1])
    BY <1>0, <2>4, <2>7, <2>8, BehindSteps
  <2> QED BY <2>2, <2>9 DEF b
<1> QED BY <1>1, <1>2 DEF Scanned

LEMMA ScanEscape ==
  ASSUME NEW C, NEW t \in Seq(C), NEW p \in 1 .. Len(t), NEW q \in p + 1 .. Len(t),
         NEW c \in Seq(C), Scanned(t, p, q, c),
         t[q] = Backslash, q < Len(t), t[q + 1] \in {Quote, Backslash}
  PROVE  Scanned(t, p, q + 2, c \o <<t[q + 1]>>)
<1>0. Len(t) \in Nat /\ q + 1 \in 1 .. Len(t)
  BY LenProperties
<1>1. t[q + 1] \in C /\ Quote # Backslash
  BY <1>0, ElementOfSeq DEF Quote, Backslash
<1>2. ASSUME NEW e \in p + 1 .. q + 2 - 1, t[e] = Quote
      PROVE  Unquoted(Body(t, p, e)) = {}
  <2>1. e # q
    BY <1>1, <1>2
  <2>2. CASE e = q + 1
    <3> DEFINE b == Body(t, p, e)
               i == q - p
    <3>0. e \in p + 1 .. Len(t)
      BY <1>0, <2>2
    <3>1. b \in Seq(C) /\ Len(b) = e - 1 - p /\ \A k \in 1 .. e - 1 - p : b[k] = t[p + k]
      BY <3>0, BodyIs
    <3>2. i \in 1 .. e - 1 - p /\ p + i = q /\ i = e - 1 - p /\ e >= q
      BY <1>0, <2>2
    <3>3. Unquoted(b) = Behind(c, Rests(b)[i])
      BY <3>0, <3>2, Zenon DEF Scanned
    <3> HIDE DEF b, i
    <3>4. b[i] = Backslash /\ i = Len(b) /\ i \in 1 .. Len(b) + 1
      BY <1>0, <3>1, <3>2
    <3>5. i = Len(b) /\ b[i] = Backslash => Rests(b)[i] = {}
      BY <3>1, <3>4, RestCases, Zenon
    <3>6. Unquoted(b) = Behind(c, {})
      BY <3>3, <3>4, <3>5
    <3>7. Unquoted(b) = {}
      BY <3>6, BehindNone
    <3> QED BY <3>7 DEF b
  <2>3. CASE e # q + 1
    <3>1. e \in p + 1 .. q - 1
      BY <1>0, <2>1, <2>3
    <3> QED BY <1>2, <3>1, Zenon DEF Scanned
  <2> QED BY <2>2, <2>3
<1>3. ASSUME NEW e \in p + 1 .. Len(t), e >= q + 2
      PROVE  Unquoted(Body(t, p, e)) = Behind(c \o <<t[q + 1]>>, Rests(Body(t, p, e))[q + 2 - p])
  <2> DEFINE b == Body(t, p, e)
             i == q - p
  <2>1. b \in Seq(C) /\ Len(b) = e - 1 - p /\ \A k \in 1 .. e - 1 - p : b[k] = t[p + k]
    BY BodyIs
  <2>2. /\ i \in 1 .. e - 1 - p /\ i + 1 \in 1 .. e - 1 - p /\ p + i = q /\ p + (i + 1) = q + 1
        /\ q + 2 - p = i + 2
    BY <1>0, <1>3
  <2>3. e >= q
    BY <1>0, <1>3
  <2>4. Unquoted(b) = Behind(c, Rests(b)[i])
    BY <2>3, Zenon DEF Scanned
  <2> HIDE DEF b, i
  <2>5. b[i] = Backslash /\ b[i + 1] = t[q + 1]
    BY <2>1, <2>2
  <2>6. i < Len(b) /\ i \in 1 .. Len(b) + 1 /\ i + 2 \in 1 .. Len(b) + 2
    BY <1>0, <2>1, <2>2
  <2>7. Rests(b)[i] = {<<t[q + 1]>> \o m : m \in Rests(b)[i + 2]}
    <3>1. i < Len(b) /\ b[i] = Backslash /\ b[i + 1] \in {Quote, Backslash} =>
            Rests(b)[i] = {<<b[i + 1]>> \o m : m \in Rests(b)[i + 2]}
      BY <2>1, <2>6, RestCases, Zenon
    <3> QED BY <2>5, <2>6, <3>1, Zenon
  <2>8. Rests(b)[i] = Behind(<<t[q + 1]>>, Rests(b)[i + 2])
    BY <2>7, Zenon DEF Behind
  <2>9. Rests(b)[i + 2] \subseteq Seq(C)
    BY <2>1, <2>6, RestsTyped
  <2>10. Unquoted(b) = Behind(c \o <<t[q + 1]>>, Rests(b)[i + 2])
    BY <1>1, <2>4, <2>8, <2>9, BehindSteps
  <2> QED BY <2>2, <2>10 DEF b
<1> QED BY <1>2, <1>3 DEF Scanned

\* The token cannot go on behind a quote or a backslash that escapes nothing.
LEMMA ScanStops ==
  ASSUME NEW C, NEW t \in Seq(C), NEW p \in 1 .. Len(t), NEW q \in p + 1 .. Len(t),
         NEW c \in Seq(C), Scanned(t, p, q, c),
         \/ t[q] = Quote
         \/ t[q] = Backslash /\ (q = Len(t) \/ t[q + 1] \notin {Quote, Backslash}),
         NEW e \in q + 1 .. Len(t), t[e] = Quote
  PROVE  Unquoted(Body(t, p, e)) = {}
<1> DEFINE b == Body(t, p, e)
           i == q - p
<1>0. Len(t) \in Nat /\ e \in p + 1 .. Len(t)
  BY LenProperties
<1>1. b \in Seq(C) /\ Len(b) = e - 1 - p /\ \A k \in 1 .. e - 1 - p : b[k] = t[p + k]
  BY <1>0, BodyIs
<1>2. i \in 1 .. e - 1 - p /\ p + i = q /\ e >= q /\ q # Len(t)
  BY <1>0
<1>3. Unquoted(b) = Behind(c, Rests(b)[i])
  BY <1>0, <1>2, Zenon DEF Scanned
<1> HIDE DEF b, i
<1>8. b[i] = t[q]
  BY <1>1, <1>2
<1>9. i <= Len(b) /\ i \in 1 .. Len(b) + 1 /\ Len(b) \in Nat
  <2>1. Len(b) \in Nat
    BY <1>1, LenProperties
  <2> QED BY <1>1, <1>2, <2>1
<1>4. b[i] = t[q] /\ i <= Len(b) /\ i \in 1 .. Len(b) + 1 /\ Len(b) \in Nat
  BY <1>8, <1>9
<1>5. Rests(b)[i] = {}
  <2>1. CASE t[q] = Quote
    <3>1. i <= Len(b) /\ b[i] = Quote => Rests(b)[i] = {}
      BY <1>1, <1>4, RestCases, Zenon
    <3> QED BY <1>4, <2>1, <3>1
  <2>2. CASE t[q] = Backslash /\ t[q + 1] \notin {Quote, Backslash}
    <3>1. CASE i = Len(b)
      <4>1. i = Len(b) /\ b[i] = Backslash => Rests(b)[i] = {}
        BY <1>1, <1>4, RestCases, Zenon
      <4> QED BY <1>4, <2>2, <3>1, <4>1
    <3>2. CASE i < Len(b)
      <4>1. i < Len(b) /\ b[i] = Backslash /\ b[i + 1] \notin {Quote, Backslash} => Rests(b)[i] = {}
        BY <1>1, <1>4, RestCases, Zenon
      <4>2. i + 1 \in 1 .. e - 1 - p /\ p + (i + 1) = q + 1
        BY <1>0, <1>1, <1>2, <3>2
      <4>3. b[i + 1] = t[q + 1]
        BY <1>1, <4>2
      <4> QED BY <1>4, <2>2, <3>2, <4>1, <4>3
    <3> QED BY <1>4, <3>1, <3>2
  <2> QED BY <1>2, <2>1, <2>2
<1>6. Unquoted(b) = Behind(c, {})
  BY <1>3, <1>5
<1>7. Unquoted(b) = {}
  BY <1>6, BehindNone
<1> QED BY <1>7 DEF b

\* At a quote the token is what has been read.
LEMMA ScanEnds ==
  ASSUME NEW C, NEW t \in Seq(C), NEW p \in 1 .. Len(t), NEW q \in p + 1 .. Len(t),
         NEW c \in Seq(C), Scanned(t, p, q, c)
  PROVE  Unquoted(Body(t, p, q)) = {c}
<1> DEFINE b == Body(t, p, q)
           i == q - p
<1>0. Len(t) \in Nat
  BY LenProperties
<1>1. b \in Seq(C) /\ Len(b) = q - 1 - p
  BY BodyIs
<1>2. i = q - 1 - p + 1 /\ i \in Nat /\ i >= 1 /\ q >= q
  BY <1>0
<1>3. Unquoted(b) = Behind(c, Rests(b)[i])
  BY <1>2, Zenon DEF Scanned
<1> HIDE DEF b, i
<1>4. i = Len(b) + 1 /\ i \in 1 .. Len(b) + 1
  BY <1>1, <1>2
<1>5. i = Len(b) + 1 => Rests(b)[i] = {<<>>}
  BY <1>1, <1>4, RestCases, Zenon
<1>6. Unquoted(b) = Behind(c, {<<>>})
  BY <1>3, <1>4, <1>5
<1>7. Unquoted(b) = {c}
  BY <1>6, BehindOne
<1> QED BY <1>7 DEF b

-----------------------------------------------------------------------------
(* What the grammar says of a text, token by token.                        *)

LEMMA ReadsAtEnd ==
  ASSUME NEW C, NEW t \in Seq(C), NEW p \in 1 .. Len(t) + 1,
         \A n \in p .. Len(t) : t[n] \in Separators
  PROVE  Reads(t)[p] = {<<>>}
<1>1. AllSeparators(From(t, p))
  BY FromIs
<1>2. Reads(t)[p] = ReadAt(t, Reads(t), p)
  BY ReadsObey
<1> QED BY <1>1, <1>2, Zenon DEF ReadAt

LEMMA ReadsSkip ==
  ASSUME NEW C, NEW t \in Seq(C), NEW p \in 1 .. Len(t), t[p] \in Separators
  PROVE  Reads(t)[p] = Reads(t)[p + 1]
<1>0. Len(t) \in Nat /\ p \in 1 .. Len(t) + 1 /\ p + 1 \in 1 .. Len(t) + 1
  BY LenProperties
<1>1. CASE \A n \in p .. Len(t) : t[n] \in Separators
  <2>1. \A n \in p + 1 .. Len(t) : t[n] \in Separators
    BY <1>0, <1>1
  <2>2. Reads(t)[p] = {<<>>}
    BY <1>0, <1>1, ReadsAtEnd
  <2>3. Reads(t)[p + 1] = {<<>>}
    BY <1>0, <2>1, ReadsAtEnd
  <2> QED BY <2>2, <2>3
<1>2. CASE ~ \A n \in p .. Len(t) : t[n] \in Separators
  <2>1. ~AllSeparators(From(t, p))
    BY <1>0, <1>2, FromIs
  <2>2. Reads(t)[p] = ReadAt(t, Reads(t), p)
    BY <1>0, ReadsObey
  <2> QED BY <2>1, <2>2, Zenon DEF ReadAt
<1> QED BY <1>1, <1>2

LEMMA ReadsSkipAll ==
  ASSUME NEW C, NEW t \in Seq(C), NEW p \in 1 .. Len(t) + 1, NEW q \in p .. Len(t) + 1,
         \A n \in p .. q - 1 : t[n] \in Separators
  PROVE  Reads(t)[p] = Reads(t)[q]
<1> DEFINE n == q - p + 1
           S == {k \in 1 .. n : Reads(t)[p + k - 1] = Reads(t)[q]}
<1>0. Len(t) \in Nat
  BY LenProperties
<1>1. n \in Nat /\ n >= 1 /\ p + n - 1 = q /\ n \in 1 .. n
  BY <1>0
<1>2. n \in S
  BY <1>1
<1>3. ASSUME NEW k \in S, k > 1
      PROVE  k - 1 \in S
  <2> DEFINE j == p + (k - 1) - 1
  <2>1. k \in 1 .. n /\ k - 1 \in 1 .. n
    BY <1>1, <1>3
  <2>2. j \in p .. q - 1 /\ j \in 1 .. Len(t) /\ j + 1 = p + k - 1
    BY <1>0, <1>3, <2>1
  <2>3. t[j] \in Separators
    BY <2>2
  <2> HIDE DEF j
  <2>4. Reads(t)[j] = Reads(t)[j + 1]
    BY <2>2, <2>3, ReadsSkip
  <2>5. Reads(t)[j] = Reads(t)[q]
    BY <2>2, <2>4
  <2> QED BY <2>1, <2>5 DEF j
<1>4. 1 \in S
  <2>1. S \in SUBSET (1 .. n)
    OBVIOUS
  <2> HIDE DEF S, n
  <2> QED BY <1>1, <1>2, <1>3, <2>1, Descends
<1>5. p + 1 - 1 = p
  BY <1>0
<1> QED BY <1>4, <1>5

\* The token at p, one of whose meanings a reading starts with.
LEMMA ReadsToken ==
  ASSUME NEW C, NEW t \in Seq(C), NEW p \in 1 .. Len(t), t[p] \notin Separators
  PROVE  Reads(t)[p] = UNION {Joined(TokenMeanings(SubSeq(t, p, e)), Reads(t)[e + 1]) :
                                e \in TokenEnds(t, p)}
<1>0. Len(t) \in Nat /\ p \in 1 .. Len(t) + 1 /\ p \in p .. Len(t)
  BY LenProperties
<1>1. ~AllSeparators(From(t, p))
  BY <1>0, FromIs
<1>2. Reads(t)[p] = ReadAt(t, Reads(t), p)
  BY <1>0, ReadsObey
<1> QED BY <1>1, <1>2, Zenon DEF ReadAt

LEMMA TokenIs ==
  ASSUME NEW C, NEW t \in Seq(C), NEW p \in 1 .. Len(t), NEW e \in p .. Len(t)
  PROVE  /\ SubSeq(t, p, e) \in Seq(C) /\ Len(SubSeq(t, p, e)) = e - p + 1
         /\ DOMAIN SubSeq(t, p, e) = 1 .. e - p + 1
         /\ \A i \in 1 .. e - p + 1 : SubSeq(t, p, e)[i] = t[p + i - 1]
         /\ SubSeq(t, p, e) # <<>>
         /\ SubSeq(t, p, e)[1] = t[p] /\ SubSeq(t, p, e)[e - p + 1] = t[e]
<1>0. Len(t) \in Nat
  BY LenProperties
<1>1. \A k \in p .. e : t[k] \in C
  BY <1>0, ElementOfSeq
<1> DEFINE s == SubSeq(t, p, e)
<1>2. /\ s \in Seq(C)
      /\ Len(s) = IF p <= e THEN e - p + 1 ELSE 0
      /\ \A i \in 1 .. e - p + 1 : s[i] = t[p + i - 1]
  BY <1>0, <1>1, SubSeqProperties
<1> HIDE DEF s
<1>3. Len(s) = e - p + 1
  BY <1>0, <1>2
<1>4. DOMAIN s = 1 .. Len(s) /\ s # <<>>
  BY <1>0, <1>2, <1>3, LenProperties, EmptySeq
<1>5. 1 \in 1 .. e - p + 1 /\ p + 1 - 1 = p /\ e - p + 1 \in 1 .. e - p + 1 /\ p + (e - p + 1) - 1 = e
  BY <1>0
<1>6. s[1] = t[p]
  BY <1>2, <1>5
<1>7. s[e - p + 1] = t[e]
  BY <1>2, <1>5
<1>8. DOMAIN s = 1 .. e - p + 1
  BY <1>3, <1>4
<1> QED BY <1>2, <1>3, <1>4, <1>6, <1>7, <1>8 DEF s

\* A token is plain if no character of it is a separator or a quote.
LEMMA PlainIs ==
  ASSUME NEW C, NEW t \in Seq(C), NEW p \in 1 .. Len(t), NEW e \in p .. Len(t)
  PROVE  IsPlain(SubSeq(t, p, e)) <=> \A n \in p .. e : t[n] \notin Separators \cup {Quote}
<1> DEFINE s == SubSeq(t, p, e)
<1>0. Len(t) \in Nat
  BY LenProperties
<1>1. /\ s # <<>> /\ DOMAIN s = 1 .. e - p + 1
      /\ \A i \in 1 .. e - p + 1 : s[i] = t[p + i - 1]
  BY TokenIs
<1> HIDE DEF s
<1>2. IsPlain(s) <=> \A i \in 1 .. e - p + 1 : s[i] \notin Separators \cup {Quote}
  BY <1>1, Zenon DEF IsPlain
<1>3. ASSUME NEW n \in p .. e, s[n - p + 1] \notin Separators \cup {Quote}
      PROVE  t[n] \notin Separators \cup {Quote}
  <2>1. n - p + 1 \in 1 .. e - p + 1 /\ p + (n - p + 1) - 1 = n
    BY <1>0
  <2>2. s[n - p + 1] = t[n]
    BY <1>1, <2>1
  <2> QED BY <1>3, <2>2, Zenon
<1>4. ASSUME NEW i \in 1 .. e - p + 1, t[p + i - 1] \notin Separators \cup {Quote}
      PROVE  s[i] \notin Separators \cup {Quote}
  BY <1>1, <1>4, Zenon
<1>5. ASSUME \A i \in 1 .. e - p + 1 : s[i] \notin Separators \cup {Quote}
      PROVE  \A n \in p .. e : t[n] \notin Separators \cup {Quote}
  <2>1. ASSUME NEW n \in p .. e PROVE t[n] \notin Separators \cup {Quote}
    <3>1. n - p + 1 \in 1 .. e - p + 1
      BY <1>0
    <3> QED BY <1>3, <1>5, <3>1, Zenon
  <2> QED BY <2>1, Zenon
<1>6. ASSUME \A n \in p .. e : t[n] \notin Separators \cup {Quote}
      PROVE  \A i \in 1 .. e - p + 1 : s[i] \notin Separators \cup {Quote}
  <2>1. ASSUME NEW i \in 1 .. e - p + 1 PROVE s[i] \notin Separators \cup {Quote}
    <3>1. p + i - 1 \in p .. e
      BY <1>0
    <3> QED BY <1>4, <1>6, <3>1, Zenon
  <2> QED BY <2>1, Zenon
<1>7. IsPlain(s) <=> \A n \in p .. e : t[n] \notin Separators \cup {Quote}
  BY <1>2, <1>5, <1>6, Zenon
<1> QED BY <1>7, Zenon DEF s

LEMMA PlainMeans ==
  ASSUME NEW C, NEW t \in Seq(C), NEW p \in 1 .. Len(t), NEW e \in p .. Len(t),
         \A n \in p .. e : t[n] \notin Separators \cup {Quote}
  PROVE  TokenMeanings(SubSeq(t, p, e)) = {SubSeq(t, p, e)}
<1>1. IsPlain(SubSeq(t, p, e))
  BY PlainIs
<1> QED BY <1>1, Zenon DEF TokenMeanings

LEMMA BrokenMeans ==
  ASSUME NEW C, NEW t \in Seq(C), NEW p \in 1 .. Len(t), NEW e \in p .. Len(t),
         NEW n \in p .. e, t[n] \in Separators \cup {Quote}, t[p] # Quote
  PROVE  TokenMeanings(SubSeq(t, p, e)) = {}
<1>1. ~IsPlain(SubSeq(t, p, e))
  BY PlainIs, Zenon
<1>2. SubSeq(t, p, e)[1] # Quote
  BY TokenIs
<1> QED BY <1>1, <1>2, Zenon DEF TokenMeanings

LEMMA QuotedMeans ==
  ASSUME NEW C, NEW t \in Seq(C), NEW p \in 1 .. Len(t), NEW e \in p .. Len(t), t[p] = Quote
  PROVE  /\ p < e /\ t[e] = Quote => TokenMeanings(SubSeq(t, p, e)) = Unquoted(Body(t, p, e))
         /\ p = e \/ t[e] # Quote => TokenMeanings(SubSeq(t, p, e)) = {}
<1> DEFINE s == SubSeq(t, p, e)
<1>0. Len(t) \in Nat /\ p \in p .. e
  BY LenProperties
<1>1. ~IsPlain(s)
  <2>1. t[p] \in Separators \cup {Quote}
    OBVIOUS
  <2> QED BY <1>0, <2>1, PlainIs, Zenon
<1>2. s \in Seq(C) /\ Len(s) = e - p + 1 /\ s[1] = t[p] /\ s[e - p + 1] = t[e]
  BY TokenIs
<1>3. ASSUME p < e, t[e] = Quote
      PROVE  TokenMeanings(s) = Unquoted(Body(t, p, e))
  <2>1. SubSeq(s, 2, Len(s) - 1) = Body(t, p, e)
    <3>1. CASE p + 1 = e
      <4>1. SubSeq(s, 2, Len(s) - 1) = <<>>
        <5>1. Len(s) - 1 \in Int /\ 2 \in Int /\ Len(s) - 1 < 2
          BY <1>0, <1>2, <3>1
        <5> HIDE DEF s
        <5> QED BY <5>1, SubSeqEmpty
      <4>2. SubSeq(t, p + 1, e - 1) = <<>>
        <5>1. p + 1 \in Int /\ e - 1 \in Int /\ e - 1 < p + 1
          BY <1>0, <3>1
        <5> QED BY <5>1, SubSeqEmpty
      <4> QED BY <4>1, <4>2 DEF Body
    <3>2. CASE p + 1 < e
      <4>1. /\ p \in 1 .. Len(t) /\ e \in 1 .. Len(t) /\ 2 \in 1 .. e - p + 1
            /\ e - p \in 1 .. e - p + 1
        BY <1>0, <3>2
      <4>2. SubSeq(SubSeq(t, p, e), 2, e - p) = SubSeq(t, p + 2 - 1, p + (e - p) - 1)
        BY <4>1, SubSeqOfSubSeq
      <4>3. Len(s) - 1 = e - p /\ p + 2 - 1 = p + 1 /\ p + (e - p) - 1 = e - 1
        BY <1>0, <1>2
      <4> QED BY <4>2, <4>3 DEF Body
    <3>3. p + 1 = e \/ p + 1 < e
      BY <1>0, <1>3
    <3> QED BY <3>1, <3>2, <3>3
  <2>2. Len(s) >= 2 /\ s[1] = Quote /\ s[Len(s)] = Quote
    BY <1>0, <1>2, <1>3
  <2> HIDE DEF s
  <2> QED BY <1>1, <2>1, <2>2, Zenon DEF TokenMeanings
<1>4. ASSUME p = e \/ t[e] # Quote
      PROVE  TokenMeanings(s) = {}
  <2>1. ~(Len(s) >= 2) \/ s[Len(s)] # Quote
    BY <1>0, <1>2, <1>4
  <2> HIDE DEF s
  <2> QED BY <1>1, <2>1, Zenon DEF TokenMeanings
<1> QED BY <1>3, <1>4

LEMMA JoinedOne ==
  ASSUME NEW m, NEW X
  PROVE  Joined({m}, X) = Behind(<<m>>, X)
<1> DEFINE B(c) == {<<c>> \o ms : ms \in X}
<1>1. Joined({m}, X) = UNION {B(c) : c \in {m}}
  BY Zenon DEF Joined
<1>2. Behind(<<m>>, X) = B(m)
  BY Zenon DEF Behind
<1> HIDE DEF B
<1>3. {B(c) : c \in {m}} = {B(m)}
  OBVIOUS
<1>4. UNION {B(m)} = B(m)
  OBVIOUS
<1> QED BY <1>1, <1>2, <1>3, <1>4

\* If one end gives the token one meaning and no other end gives it any, the
\* readings are that meaning and what follows.
LEMMA OneMeaning ==
  ASSUME NEW C, NEW t \in Seq(C), NEW p \in 1 .. Len(t), t[p] \notin Separators,
         NEW e \in TokenEnds(t, p), NEW m, TokenMeanings(SubSeq(t, p, e)) = {m},
         \A k \in TokenEnds(t, p) : k # e => TokenMeanings(SubSeq(t, p, k)) = {}
  PROVE  Reads(t)[p] = Behind(<<m>>, Reads(t)[e + 1])
<1> DEFINE J(k) == Joined(TokenMeanings(SubSeq(t, p, k)), Reads(t)[k + 1])
<1>1. Reads(t)[p] = UNION {J(k) : k \in TokenEnds(t, p)}
  BY ReadsToken, Zenon
<1>2. ASSUME NEW k \in TokenEnds(t, p), k # e
      PROVE  J(k) = {}
  <2>1. TokenMeanings(SubSeq(t, p, k)) = {}
    BY <1>2
  <2> QED BY <2>1, Zenon DEF Joined
<1>3. J(e) = Behind(<<m>>, Reads(t)[e + 1])
  <2>1. J(e) = Joined({m}, Reads(t)[e + 1])
    BY Zenon
  <2>4. Joined({m}, Reads(t)[e + 1]) = Behind(<<m>>, Reads(t)[e + 1])
    BY JoinedOne, Zenon
  <2> QED BY <2>1, <2>4, Zenon
<1> HIDE DEF J
<1>4. \A x : x \in Reads(t)[p] <=> \E k \in TokenEnds(t, p) : x \in J(k)
  BY <1>1, Zenon
<1>5. \A x : x \in Reads(t)[p] <=> x \in J(e)
  BY <1>2, <1>4, Zenon
<1>6. Reads(t)[p] = J(e)
  BY <1>5, Zenon
<1> QED BY <1>3, <1>6, Zenon

LEMMA NoMeaning ==
  ASSUME NEW C, NEW t \in Seq(C), NEW p \in 1 .. Len(t), t[p] \notin Separators,
         \A k \in TokenEnds(t, p) : TokenMeanings(SubSeq(t, p, k)) = {}
  PROVE  Reads(t)[p] = {}
<1> DEFINE J(k) == Joined(TokenMeanings(SubSeq(t, p, k)), Reads(t)[k + 1])
<1>1. Reads(t)[p] = UNION {J(k) : k \in TokenEnds(t, p)}
  BY ReadsToken, Zenon
<1>2. ASSUME NEW k \in TokenEnds(t, p)
      PROVE  J(k) = {}
  <2>1. TokenMeanings(SubSeq(t, p, k)) = {}
    OBVIOUS
  <2> QED BY <2>1, Zenon DEF Joined
<1> HIDE DEF J
<1> QED BY <1>1, <1>2, Zenon

\* A meaning of the token at p and a reading of what follows it.
HasToken(t, p, r) ==
  \E k \in TokenEnds(t, p) : \E m \in TokenMeanings(SubSeq(t, p, k)) :
    \E ms \in Reads(t)[k + 1] : r = <<m>> \o ms

\* Every reading from a token on has a token.
LEMMA ReadsNotEmpty ==
  ASSUME NEW C, NEW t \in Seq(C), NEW p \in 1 .. Len(t), t[p] \notin Separators,
         NEW r \in Reads(t)[p]
  PROVE  HasToken(t, p, r)
<1> DEFINE J(k) == Joined(TokenMeanings(SubSeq(t, p, k)), Reads(t)[k + 1])
<1>1. Reads(t)[p] = UNION {J(k) : k \in TokenEnds(t, p)}
  BY ReadsToken, Zenon
<1>2. PICK k \in TokenEnds(t, p) : r \in J(k)
  BY <1>1, Zenon
<1>3. \E m \in TokenMeanings(SubSeq(t, p, k)) : \E ms \in Reads(t)[k + 1] : r = <<m>> \o ms
  BY <1>2, Zenon DEF Joined
<1> QED BY <1>3, Zenon DEF HasToken

LEMMA EndIs ==
  ASSUME NEW C, NEW t \in Seq(C), NEW p \in 1 .. Len(t)
  PROVE  /\ \A e \in TokenEnds(t, p) : e \in p .. Len(t) /\ (e = Len(t) \/ t[e + 1] \in Separators)
         /\ \A e \in p .. Len(t) : e = Len(t) \/ t[e + 1] \in Separators => e \in TokenEnds(t, p)
BY Zenon DEF TokenEnds

\* No end comes before the first separator.
LEMMA FirstEnd ==
  ASSUME NEW C, NEW t \in Seq(C), NEW p \in 1 .. Len(t), NEW q \in p .. Len(t),
         \A n \in p .. q : t[n] \notin Separators,
         NEW e \in TokenEnds(t, p)
  PROVE  e \in q .. Len(t)
<1>0. Len(t) \in Nat
  BY LenProperties
<1>1. e \in p .. Len(t) /\ (e = Len(t) \/ t[e + 1] \in Separators)
  BY EndIs
<1>2. ~(e < q)
  <2>1. SUFFICES ASSUME e < q PROVE FALSE
    OBVIOUS
  <2>2. e + 1 \in p .. q /\ e # Len(t)
    BY <1>0, <1>1, <2>1
  <2> QED BY <1>1, <2>2
<1> QED BY <1>0, <1>1, <1>2

\* A plain token ends at the first separator.
LEMMA PlainReads ==
  ASSUME NEW C, NEW t \in Seq(C), NEW p \in 1 .. Len(t), NEW e \in p .. Len(t),
         \A n \in p .. e : t[n] \notin Separators \cup {Quote},
         e = Len(t) \/ t[e + 1] \in Separators
  PROVE  Reads(t)[p] = Behind(<<SubSeq(t, p, e)>>, Reads(t)[e + 1])
<1>0. Len(t) \in Nat /\ p \in p .. e
  BY LenProperties
<1>1. e \in TokenEnds(t, p)
  BY EndIs, Zenon
<1>2. TokenMeanings(SubSeq(t, p, e)) = {SubSeq(t, p, e)}
  BY PlainMeans
<1>3. t[p] \notin Separators /\ t[p] # Quote /\ \A n \in p .. e : t[n] \notin Separators
  BY <1>0
<1>4. ASSUME NEW k \in TokenEnds(t, p), k # e
      PROVE  TokenMeanings(SubSeq(t, p, k)) = {}
  <2>1. k \in e .. Len(t)
    BY <1>3, FirstEnd
  <2>2. e + 1 \in p .. k /\ e # Len(t) /\ k \in p .. Len(t)
    BY <1>0, <1>4, <2>1
  <2>3. t[e + 1] \in Separators \cup {Quote}
    BY <2>2, Zenon
  <2> QED BY <1>3, <2>2, <2>3, BrokenMeans
<1>5. \A k \in TokenEnds(t, p) : k # e => TokenMeanings(SubSeq(t, p, k)) = {}
  BY <1>4, Zenon
<1> DEFINE w == SubSeq(t, p, e)
<1>6. t[p] \notin Separators /\ TokenMeanings(SubSeq(t, p, e)) = {w}
  BY <1>2, <1>3
<1> HIDE DEF w
<1>7. Reads(t)[p] = Behind(<<w>>, Reads(t)[e + 1])
  BY <1>1, <1>5, <1>6, OneMeaning, ZenonT(30)
<1> QED BY <1>7 DEF w

\* A quote inside a plain token makes the text malformed.
LEMMA PlainBreaks ==
  ASSUME NEW C, NEW t \in Seq(C), NEW p \in 1 .. Len(t), NEW q \in p + 1 .. Len(t),
         \A n \in p .. q - 1 : t[n] \notin Separators \cup {Quote},
         t[q] = Quote
  PROVE  Reads(t)[p] = {}
<1>0. Len(t) \in Nat /\ p \in p .. q - 1 /\ q \in p .. Len(t)
  BY LenProperties
<1>1. Quote \notin Separators
  BY DEF Quote, Separators
<1>2. t[p] \notin Separators /\ t[p] # Quote
  BY <1>0
<1>3. ASSUME NEW n \in p .. q PROVE t[n] \notin Separators
  <2>1. n = q \/ n \in p .. q - 1
    BY <1>0
  <2> QED BY <1>1, <2>1
<1>4. ASSUME NEW k \in TokenEnds(t, p)
      PROVE  TokenMeanings(SubSeq(t, p, k)) = {}
  <2>1. k \in q .. Len(t)
    BY <1>0, <1>3, FirstEnd
  <2>2. q \in p .. k /\ k \in p .. Len(t)
    BY <1>0, <2>1
  <2>3. t[q] \in Separators \cup {Quote}
    BY Zenon
  <2> QED BY <1>2, <2>2, <2>3, BrokenMeans
<1> QED BY <1>2, <1>4, NoMeaning

\* A quoted token ends at the first quote that is not escaped, if a separator or
\* the end of the text follows.
LEMMA QuotedReads ==
  ASSUME NEW C, NEW t \in Seq(C), NEW p \in 1 .. Len(t), NEW q \in p + 1 .. Len(t),
         NEW c \in Seq(C), Scanned(t, p, q, c), t[p] = Quote, t[q] = Quote,
         q = Len(t) \/ t[q + 1] \in Separators
  PROVE  Reads(t)[p] = Behind(<<c>>, Reads(t)[q + 1])
<1>0. Len(t) \in Nat /\ q \in p .. Len(t) /\ p < q
  BY LenProperties
<1>1. t[p] \notin Separators
  BY DEF Quote, Separators
<1>2. q \in TokenEnds(t, p)
  BY <1>0, EndIs, Zenon
<1>3. TokenMeanings(SubSeq(t, p, q)) = {c}
  <2>1. p < q /\ t[q] = Quote => TokenMeanings(SubSeq(t, p, q)) = Unquoted(Body(t, p, q))
    BY <1>0, QuotedMeans, Zenon
  <2>2. Unquoted(Body(t, p, q)) = {c}
    BY ScanEnds
  <2> QED BY <1>0, <2>1, <2>2
<1>4. ASSUME NEW k \in TokenEnds(t, p), k # q
      PROVE  TokenMeanings(SubSeq(t, p, k)) = {}
  <2>0. k \in p .. Len(t)
    BY EndIs
  <2>1. CASE p = k \/ t[k] # Quote
    BY <2>0, <2>1, QuotedMeans, Zenon
  <2>2. CASE p < k /\ t[k] = Quote
    <3>1. p < k /\ t[k] = Quote => TokenMeanings(SubSeq(t, p, k)) = Unquoted(Body(t, p, k))
      BY <2>0, QuotedMeans, Zenon
    <3>2. CASE k \in p + 1 .. q - 1
      <4>1. Unquoted(Body(t, p, k)) = {}
        BY <2>2, <3>2, Zenon DEF Scanned
      <4> QED BY <2>2, <3>1, <4>1
    <3>3. CASE k \in q + 1 .. Len(t)
      <4>1. Unquoted(Body(t, p, k)) = {}
        BY <2>2, <3>3, ScanStops
      <4> QED BY <2>2, <3>1, <4>1
    <3>4. k \in p + 1 .. q - 1 \/ k \in q + 1 .. Len(t)
      BY <1>0, <1>4, <2>0, <2>2
    <3> QED BY <3>2, <3>3, <3>4
  <2>3. p = k \/ p < k
    BY <1>0, <2>0
  <2> QED BY <2>1, <2>2, <2>3
<1> QED BY <1>1, <1>2, <1>3, <1>4, OneMeaning

\* A token with a bad escape, with text behind its closing quote, or without a
\* closing quote makes the text malformed.
LEMMA QuotedBreaks ==
  ASSUME NEW C, NEW t \in Seq(C), NEW p \in 1 .. Len(t), NEW q \in p + 1 .. Len(t) + 1,
         NEW c \in Seq(C), Scanned(t, p, q, c), t[p] = Quote,
         \/ q = Len(t) + 1
         \/ q # Len(t) + 1 /\ t[q] = Backslash /\ (q = Len(t) \/ t[q + 1] \notin {Quote, Backslash})
         \/ q # Len(t) + 1 /\ t[q] = Quote /\ q # Len(t) /\ t[q + 1] \notin Separators
  PROVE  Reads(t)[p] = {}
<1>0. Len(t) \in Nat
  BY LenProperties
<1>1. t[p] \notin Separators /\ Quote # Backslash
  BY DEF Quote, Separators, Backslash
<1>2. ASSUME NEW k \in TokenEnds(t, p)
      PROVE  TokenMeanings(SubSeq(t, p, k)) = {}
  <2>0. k \in p .. Len(t) /\ (k = Len(t) \/ t[k + 1] \in Separators)
    BY EndIs
  <2>1. CASE p = k \/ t[k] # Quote
    BY <2>0, <2>1, QuotedMeans, Zenon
  <2>2. CASE p < k /\ t[k] = Quote
    <3>1. p < k /\ t[k] = Quote => TokenMeanings(SubSeq(t, p, k)) = Unquoted(Body(t, p, k))
      BY <2>0, QuotedMeans, Zenon
    <3>2. CASE k \in p + 1 .. q - 1
      <4>1. Unquoted(Body(t, p, k)) = {}
        BY <2>2, <3>2, Zenon DEF Scanned
      <4> QED BY <2>2, <3>1, <4>1
    <3>3. CASE k >= q
      <4>1. q # Len(t) + 1 /\ q \in p + 1 .. Len(t)
        BY <1>0, <2>0, <3>3
      <4>2. k # q
        <5>1. CASE t[q] = Backslash
          BY <1>1, <2>2, <5>1
        <5>2. CASE t[q] = Quote /\ q # Len(t) /\ t[q + 1] \notin Separators
          BY <2>0, <5>2
        <5> QED BY <4>1, <5>1, <5>2
      <4>3. k \in q + 1 .. Len(t)
        BY <1>0, <2>0, <3>3, <4>1, <4>2
      <4>4. \/ t[q] = Quote
            \/ t[q] = Backslash /\ (q = Len(t) \/ t[q + 1] \notin {Quote, Backslash})
        BY <4>1, Zenon
      <4>5. Unquoted(Body(t, p, k)) = {}
        BY <2>2, <4>1, <4>3, <4>4, ScanStops
      <4> QED BY <2>2, <3>1, <4>5
    <3>4. k \in p + 1 .. q - 1 \/ k >= q
      BY <1>0, <2>0, <2>2
    <3> QED BY <3>2, <3>3, <3>4
  <2>3. p = k \/ p < k
    BY <1>0, <2>0
  <2> QED BY <2>1, <2>2, <2>3
<1> QED BY <1>1, <1>2, NoMeaning

LEMMA MeaningsTyped ==
  ASSUME NEW C, NEW t \in Seq(C), NEW p \in 1 .. Len(t), NEW e \in p .. Len(t)
  PROVE  TokenMeanings(SubSeq(t, p, e)) \subseteq Seq(C)
<1> DEFINE s == SubSeq(t, p, e)
<1>0. Len(t) \in Nat
  BY LenProperties
<1>1. CASE t[p] = Quote
  <2>1. CASE p < e /\ t[e] = Quote
    <3>1. TokenMeanings(s) = Unquoted(Body(t, p, e))
      BY <1>1, <2>1, QuotedMeans, Zenon
    <3>2. e \in p + 1 .. Len(t)
      BY <1>0, <2>1
    <3>3. Body(t, p, e) \in Seq(C) /\ Len(Body(t, p, e)) \in Nat
      BY <3>2, BodyIs, LenProperties
    <3>4. 1 \in 1 .. Len(Body(t, p, e)) + 2
      BY <3>3
    <3>5. Rests(Body(t, p, e))[1] \subseteq Seq(C)
      BY <3>3, <3>4, RestsTyped
    <3> QED BY <3>1, <3>5 DEF Unquoted
  <2>2. CASE p = e \/ t[e] # Quote
    <3>1. TokenMeanings(s) = {}
      BY <1>1, <2>2, QuotedMeans, Zenon
    <3> QED BY <3>1
  <2> QED BY <1>0, <2>1, <2>2
<1>2. CASE t[p] # Quote
  <2>1. s[1] # Quote /\ s \in Seq(C)
    BY <1>2, TokenIs
  <2> HIDE DEF s
  <2>2. TokenMeanings(s) = {s} \/ TokenMeanings(s) = {}
    BY <2>1, Zenon DEF TokenMeanings
  <2>3. TokenMeanings(s) \subseteq Seq(C)
    BY <2>1, <2>2, Zenon
  <2> QED BY <2>3 DEF s
<1> QED BY <1>1, <1>2

\* A reading is a sequence of texts.
LEMMA ReadsTyped ==
  ASSUME NEW C, NEW t \in Seq(C)
  PROVE  \A p \in 1 .. Len(t) + 1 : Reads(t)[p] \subseteq Seq(Seq(C))
<1> DEFINE F == Reads(t)
           n == Len(t) + 1
           S == {k \in 1 .. n : \A p \in k .. n : F[p] \subseteq Seq(Seq(C))}
<1>0. Len(t) \in Nat /\ n \in Nat /\ n >= 1
  BY LenProperties
<1>1. ASSUME NEW p \in 1 .. n, \A k \in p .. Len(t) : t[k] \in Separators
      PROVE  F[p] \subseteq Seq(Seq(C))
  <2>1. F[p] = {<<>>}
    BY <1>1, ReadsAtEnd
  <2>2. <<>> \in Seq(Seq(C))
    BY EmptySeq
  <2> QED BY <2>1, <2>2, Zenon
<1>2. n \in S
  <2>1. n \in 1 .. n /\ \A k \in n .. Len(t) : t[k] \in Separators
    BY <1>0
  <2>2. F[n] \subseteq Seq(Seq(C))
    BY <1>1, <2>1
  <2>3. \A p \in n .. n : p = n
    BY <1>0
  <2> HIDE DEF F
  <2> QED BY <2>1, <2>2, <2>3
<1>3. ASSUME NEW k \in S, k > 1
      PROVE  k - 1 \in S
  <2> DEFINE j == k - 1
  <2>1. k \in 1 .. n /\ j \in 1 .. n /\ k = j + 1 /\ j \in 1 .. Len(t)
    BY <1>0, <1>3
  <2>2. \A p \in j + 1 .. n : F[p] \subseteq Seq(Seq(C))
    BY <2>1
  <2>3. \A p \in j .. n : p = j \/ p \in j + 1 .. n
    BY <1>0, <2>1
  <2> HIDE DEF j
  <2>4. F[j] \subseteq Seq(Seq(C))
    <3>1. CASE t[j] \in Separators
      <4>1. F[j] = F[j + 1]
        BY <2>1, <3>1, ReadsSkip
      <4>2. j + 1 \in j + 1 .. n
        BY <1>0, <2>1
      <4> HIDE DEF F
      <4> QED BY <2>2, <4>1, <4>2
    <3>2. CASE t[j] \notin Separators
      <4>1. ASSUME NEW r \in F[j]
            PROVE  r \in Seq(Seq(C))
        <5>1. PICK e \in TokenEnds(t, j) : \E m \in TokenMeanings(SubSeq(t, j, e)) :
                 \E ms \in F[e + 1] : r = <<m>> \o ms
          <6>1. j \in 1 .. Len(t) /\ t[j] \notin Separators /\ r \in Reads(t)[j]
            BY <2>1, <3>2
          <6>2. HasToken(t, j, r)
            BY <6>1, ReadsNotEmpty
          <6> QED BY <6>2, Zenon DEF HasToken
        <5>2. PICK m \in TokenMeanings(SubSeq(t, j, e)), ms \in F[e + 1] : r = <<m>> \o ms
          BY <5>1
        <5>3. e \in j .. Len(t)
          BY <2>1, <5>2, EndIs
        <5>4. m \in Seq(C)
          <6>1. TokenMeanings(SubSeq(t, j, e)) \subseteq Seq(C)
            BY <2>1, <5>3, MeaningsTyped
          <6> QED BY <5>2, <6>1, Zenon
        <5>5. e + 1 \in j + 1 .. n
          BY <1>0, <2>1, <5>3
        <5> HIDE DEF F
        <5>6. ms \in Seq(Seq(C))
          BY <2>2, <5>2, <5>5, Zenon
        <5>7. <<m>> \o ms \in Seq(Seq(C))
          BY <5>4, <5>6, ConcatIs
        <5> QED BY <5>2, <5>7, Zenon
      <4> HIDE DEF F
      <4> QED BY <4>1, Zenon
    <3> QED BY <3>1, <3>2
  <2> HIDE DEF F
  <2>5. \A p \in j .. n : F[p] \subseteq Seq(Seq(C))
    BY <2>2, <2>3, <2>4
  <2>6. j \in S
    BY <2>1, <2>5
  <2> QED BY <2>6 DEF j
<1>4. 1 \in S
  <2>1. S \in SUBSET (1 .. n)
    OBVIOUS
  <2> HIDE DEF S, n
  <2> QED BY <1>0, <1>2, <1>3, <2>1, Descends
<1> HIDE DEF F
<1>5. \A p \in 1 .. n : F[p] \subseteq Seq(Seq(C))
  BY <1>4
<1> QED BY <1>5, Zenon DEF F

-----------------------------------------------------------------------------
(* The strings in a line.                                                  *)

Bytes == Characters \cup {NUL}

IsLine(l) == l \in Seq(Bytes) /\ Len(l) \in Nat \ {0} /\ l[Len(l)] = NUL

EndIn(l, p)    == Min({n \in p .. Len(l) : l[n] = NUL})
StringIn(l, p) == SubSeq(l, p, EndIn(l, p) - 1)
TokensIn(l, f) == [n \in DOMAIN f |-> StringIn(l, f[n])]

LEMMA EndInOf ==
  ASSUME NEW l, Len(l) \in Nat \ {0}, l[Len(l)] = NUL, NEW p \in 1 .. Len(l)
  PROVE  /\ EndIn(l, p) \in p .. Len(l) /\ l[EndIn(l, p)] = NUL
         /\ \A n \in p .. EndIn(l, p) - 1 : l[n] # NUL
<1> DEFINE S == {n \in p .. Len(l) : l[n] = NUL}
<1>1. Len(l) \in Nat /\ Len(l) \in S /\ S \in SUBSET Nat
  OBVIOUS
<1>2. Min(S) \in S /\ \A y \in S : Min(S) <= y
  BY <1>1, MinIsLeast
<1>3. EndIn(l, p) = Min(S)
  BY DEF EndIn
<1> DEFINE e == EndIn(l, p)
<1> HIDE DEF e
<1>4. e \in S /\ \A y \in S : e <= y
  BY <1>2, <1>3 DEF e
<1>5. ASSUME NEW n \in p .. e - 1 PROVE l[n] # NUL
  <2>1. n \in p .. Len(l) /\ ~(e <= n)
    BY <1>1, <1>4
  <2> QED BY <1>4, <2>1
<1> QED BY <1>4, <1>5 DEF e

LEMMA EndInIs ==
  ASSUME NEW l, IsLine(l), NEW p \in 1 .. Len(l)
  PROVE  /\ EndIn(l, p) \in p .. Len(l) /\ l[EndIn(l, p)] = NUL
         /\ \A n \in p .. EndIn(l, p) - 1 : l[n] # NUL
BY EndInOf DEF IsLine

LEMMA EndInOnly ==
  ASSUME NEW l, Len(l) \in Nat \ {0}, l[Len(l)] = NUL,
         NEW p \in 1 .. Len(l), NEW e \in p .. Len(l), l[e] = NUL,
         \A n \in p .. e - 1 : l[n] # NUL
  PROVE  EndIn(l, p) = e
<1> DEFINE d == EndIn(l, p)
<1>1. d \in p .. Len(l) /\ l[d] = NUL /\ \A n \in p .. d - 1 : l[n] # NUL
  BY EndInOf
<1>2. Len(l) \in Nat
  OBVIOUS
<1> HIDE DEF d
<1>3. ~(d < e)
  BY <1>1, <1>2
<1>4. ~(e < d)
  BY <1>1, <1>2
<1>5. d = e
  BY <1>1, <1>2, <1>3, <1>4
<1> QED BY <1>5 DEF d

LEMMA EndInUnique ==
  ASSUME NEW l, IsLine(l), NEW p \in 1 .. Len(l), NEW e \in p .. Len(l), l[e] = NUL,
         \A n \in p .. e - 1 : l[n] # NUL
  PROVE  EndIn(l, p) = e
BY EndInOnly DEF IsLine

LEMMA SkipIs ==
  ASSUME NEW l, IsLine(l), NEW p \in 1 .. Len(l)
  PROVE  /\ SkipSeparators(l, p) \in p .. Len(l) /\ l[SkipSeparators(l, p)] \notin Separators
         /\ \A n \in p .. SkipSeparators(l, p) - 1 : l[n] \in Separators
<1> DEFINE S == {n \in p .. Len(l) : l[n] \notin Separators}
<1>0. NUL \notin Separators
  BY DEF NUL, Separators
<1>1. Len(l) \in Nat /\ Len(l) \in S /\ S \in SUBSET Nat
  BY <1>0 DEF IsLine
<1>2. Min(S) \in S /\ \A y \in S : Min(S) <= y
  BY <1>1, MinIsLeast
<1>3. SkipSeparators(l, p) = Min(S)
  BY DEF SkipSeparators
<1> DEFINE e == SkipSeparators(l, p)
<1> HIDE DEF e
<1>4. e \in S /\ \A y \in S : e <= y
  BY <1>2, <1>3 DEF e
<1>5. ASSUME NEW n \in p .. e - 1 PROVE l[n] \in Separators
  <2>1. n \in p .. Len(l) /\ ~(e <= n)
    BY <1>1, <1>4
  <2> QED BY <1>4, <2>1
<1> QED BY <1>4, <1>5 DEF e

LEMMA StringInIs ==
  ASSUME NEW l, IsLine(l), NEW p \in 1 .. Len(l)
  PROVE  /\ StringIn(l, p) \in Seq(Characters) /\ Len(StringIn(l, p)) = EndIn(l, p) - p
         /\ \A i \in 1 .. EndIn(l, p) - p : StringIn(l, p)[i] = l[p + i - 1]
         /\ l[p] = NUL => StringIn(l, p) = <<>>
         /\ l[p] # NUL => StringIn(l, p) # <<>>
<1> DEFINE e == EndIn(l, p)
           s == StringIn(l, p)
<1>0. Len(l) \in Nat /\ l \in Seq(Bytes)
  BY DEF IsLine
<1>1. e \in p .. Len(l) /\ l[e] = NUL /\ \A n \in p .. e - 1 : l[n] # NUL
  BY EndInIs
<1>2. s = SubSeq(l, p, e - 1)
  BY DEF StringIn
<1> HIDE DEF e, s
<1>3. ASSUME NEW n \in p .. e - 1 PROVE l[n] \in Characters
  <2>1. n \in 1 .. Len(l)
    BY <1>0, <1>1
  <2>2. l[n] \in Bytes
    BY <1>0, <2>1, ElementOfSeq
  <2> QED BY <1>1, <2>2 DEF Bytes
<1>4. p \in Int /\ e - 1 \in Int
  BY <1>0, <1>1
<1>5. /\ s \in Seq(Characters)
      /\ Len(s) = IF p <= e - 1 THEN e - 1 - p + 1 ELSE 0
      /\ \A i \in 1 .. e - 1 - p + 1 : s[i] = l[p + i - 1]
  BY <1>2, <1>3, <1>4, SubSeqProperties
<1>6. e - 1 - p + 1 = e - p /\ Len(s) = e - p
  BY <1>0, <1>1, <1>5
<1>7. \A i \in 1 .. e - p : s[i] = l[p + i - 1]
  BY <1>5, <1>6
<1>8. ASSUME l[p] = NUL PROVE s = <<>>
  <2>1. e = p
    BY <1>0, <1>1, <1>8
  <2>2. Len(s) = 0
    BY <1>0, <1>6, <2>1
  <2> QED BY <1>5, <2>2, EmptySeq
<1>9. ASSUME l[p] # NUL PROVE s # <<>>
  <2>1. e # p
    BY <1>1, <1>9
  <2>2. Len(s) # 0
    BY <1>0, <1>1, <1>6, <2>1
  <2> QED BY <2>2, EmptySeq
<1> QED BY <1>5, <1>6, <1>7, <1>8, <1>9 DEF e, s

\* A string does not change when the line changes behind it.
LEMMA StringStable ==
  ASSUME NEW l, IsLine(l), NEW k, IsLine(k), Len(k) = Len(l), NEW p \in 1 .. Len(l),
         NEW b \in 1 .. Len(l) + 1, EndIn(l, p) < b, \A n \in p .. b - 1 : k[n] = l[n]
  PROVE  EndIn(k, p) = EndIn(l, p) /\ StringIn(k, p) = StringIn(l, p)
<1> DEFINE e == EndIn(l, p)
<1>0. Len(l) \in Nat
  BY DEF IsLine
<1>1. e \in p .. Len(l) /\ l[e] = NUL /\ \A n \in p .. e - 1 : l[n] # NUL
  BY EndInIs
<1>2. e < b
  OBVIOUS
<1> HIDE DEF e
<1>3. \A n \in p .. e : n \in p .. b - 1
  BY <1>0, <1>1, <1>2
<1>4. \A n \in p .. e : k[n] = l[n]
  BY <1>3
<1>5. k[e] = NUL
  <2>1. e \in p .. e
    BY <1>0, <1>1
  <2> QED BY <1>1, <1>4, <2>1
<1>6. ASSUME NEW n \in p .. e - 1 PROVE k[n] # NUL
  <2>1. n \in p .. e
    BY <1>0, <1>1
  <2> QED BY <1>1, <1>4, <2>1
<1>7. EndIn(k, p) = e
  <2>1. e \in p .. Len(k) /\ p \in 1 .. Len(k)
    BY <1>1
  <2> QED BY <1>5, <1>6, <2>1, EndInUnique
<1> DEFINE s == StringIn(l, p)
           u == StringIn(k, p)
<1>8. s \in Seq(Characters) /\ Len(s) = e - p /\ \A i \in 1 .. e - p : s[i] = l[p + i - 1]
  BY StringInIs DEF e
<1>9. u \in Seq(Characters) /\ Len(u) = e - p /\ \A i \in 1 .. e - p : u[i] = k[p + i - 1]
  BY <1>7, StringInIs
<1> HIDE DEF s, u
<1>10. ASSUME NEW i \in 1 .. e - p PROVE s[i] = u[i]
  <2>1. p + i - 1 \in p .. e
    BY <1>0, <1>1
  <2>2. k[p + i - 1] = l[p + i - 1]
    BY <1>4, <2>1
  <2> QED BY <1>8, <1>9, <2>2
<1>11. s = u
  BY <1>8, <1>9, <1>10, SeqEqual
<1> QED BY <1>7, <1>11 DEF e, s, u

\* k is l with c at i.
Stores(l, i, c, k) == k = [l EXCEPT ![i] = c]

LEMMA LineWrites ==
  ASSUME NEW l, IsLine(l), NEW i \in 1 .. Len(l), NEW c \in Bytes, i # Len(l) \/ c = NUL,
         NEW k, Stores(l, i, c, k)
  PROVE  /\ IsLine(k) /\ Len(k) = Len(l)
         /\ \A j \in 1 .. Len(l) : k[j] = IF j = i THEN c ELSE l[j]
<1>0. l \in Seq(Bytes) /\ Len(l) \in Nat \ {0} /\ l[Len(l)] = NUL
  BY DEF IsLine
<1>1. /\ k \in Seq(Bytes) /\ Len(k) = Len(l)
      /\ \A j \in 1 .. Len(l) : k[j] = IF j = i THEN c ELSE l[j]
  BY <1>0, ExceptSeq DEF Stores
<1>2. Len(l) \in 1 .. Len(l)
  BY <1>0
<1>3. k[Len(k)] = NUL
  BY <1>0, <1>1, <1>2
<1>4. IsLine(k)
  BY <1>0, <1>1, <1>3 DEF IsLine
<1> QED BY <1>1, <1>4

\* The tokens found so far: the strings at f end before b, the others come behind
\* the command, and the command is not empty.
Ended(l, f, b) ==
  /\ f \in Seq(1 .. Len(l))
  /\ \A i \in 1 .. Len(f) : EndIn(l, f[i]) < b
  /\ \A i \in 2 .. Len(f) : EndIn(l, f[1]) < f[i]
  /\ f # <<>> => l[f[1]] # NUL

LEMMA EndedNone ==
  ASSUME NEW l, NEW b
  PROVE  Ended(l, <<>>, b) /\ TokensIn(l, <<>>) = <<>>
<1>1. <<>> \in Seq(1 .. Len(l)) /\ Len(<<>>) = 0
  BY EmptySeq
<1>2. DOMAIN <<>> = {}
  OBVIOUS
<1>3. TokensIn(l, <<>>) = <<>>
  BY DEF TokensIn
<1> QED BY <1>1, <1>3 DEF Ended

LEMMA EndedGrows ==
  ASSUME NEW l, IsLine(l), NEW f, NEW b \in Nat, Ended(l, f, b), NEW c \in Nat, b <= c
  PROVE  Ended(l, f, c)
<1>0. Len(l) \in Nat
  BY DEF IsLine
<1>1. f \in Seq(1 .. Len(l)) /\ \A i \in 1 .. Len(f) : EndIn(l, f[i]) < b
  BY DEF Ended
<1>2. ASSUME NEW i \in 1 .. Len(f) PROVE EndIn(l, f[i]) < c
  <2>1. f[i] \in 1 .. Len(l)
    BY <1>1, ElementOfSeq
  <2>2. EndIn(l, f[i]) \in f[i] .. Len(l)
    BY <2>1, EndInIs
  <2> DEFINE e == EndIn(l, f[i])
             a == f[i]
  <2>3. e < b
    BY <1>1
  <2>4. e \in Int
    <3> HIDE DEF e, a
    <3>1. e \in a .. Len(l) /\ a \in Int
      BY <1>0, <2>1, <2>2 DEF e, a
    <3> QED BY <1>0, <3>1
  <2> HIDE DEF e
  <2>5. e < c
    BY <2>3, <2>4
  <2> QED BY <2>5 DEF e
<1> QED BY <1>2 DEF Ended

LEMMA EndedStable ==
  ASSUME NEW l, IsLine(l), NEW k, IsLine(k), Len(k) = Len(l), NEW f,
         NEW b \in 1 .. Len(l) + 1, Ended(l, f, b), \A n \in 1 .. b - 1 : k[n] = l[n]
  PROVE  Ended(k, f, b) /\ TokensIn(k, f) = TokensIn(l, f)
<1>0. Len(l) \in Nat
  BY DEF IsLine
<1>1. f \in Seq(1 .. Len(l)) /\ \A i \in 1 .. Len(f) : EndIn(l, f[i]) < b
  BY DEF Ended
<1>2. Len(f) \in Nat /\ DOMAIN f = 1 .. Len(f)
  BY <1>1, LenProperties
<1>3. ASSUME NEW i \in 1 .. Len(f)
      PROVE  EndIn(k, f[i]) = EndIn(l, f[i]) /\ StringIn(k, f[i]) = StringIn(l, f[i])
  <2> DEFINE p == f[i]
  <2>1. p \in 1 .. Len(l) /\ EndIn(l, p) < b
    BY <1>1, ElementOfSeq
  <2> HIDE DEF p
  <2>2. \A n \in p .. b - 1 : n \in 1 .. b - 1
    BY <1>0, <2>1
  <2>3. \A n \in p .. b - 1 : k[n] = l[n]
    BY <2>2
  <2>4. EndIn(k, p) = EndIn(l, p) /\ StringIn(k, p) = StringIn(l, p)
    BY <2>1, <2>3, StringStable
  <2> QED BY <2>4 DEF p
<1>4. TokensIn(k, f) = TokensIn(l, f)
  BY <1>2, <1>3 DEF TokensIn
<1>5. \A i \in 1 .. Len(f) : EndIn(k, f[i]) < b
  BY <1>1, <1>3
<1>6. ASSUME NEW i \in 2 .. Len(f) PROVE EndIn(k, f[1]) < f[i]
  <2>1. 1 \in 1 .. Len(f) /\ i \in 1 .. Len(f)
    BY <1>2
  <2>2. EndIn(l, f[1]) < f[i]
    BY DEF Ended
  <2>3. EndIn(k, f[1]) = EndIn(l, f[1])
    BY <1>3, <2>1
  <2> QED BY <2>2, <2>3
<1>7. ASSUME f # <<>> PROVE k[f[1]] # NUL
  <2>1. 1 \in 1 .. Len(f)
    BY <1>1, <1>7, EmptySeq
  <2>2. l[f[1]] # NUL
    BY <1>7 DEF Ended
  <2> DEFINE p == f[1]
  <2>3. p \in 1 .. Len(l) /\ EndIn(l, p) < b
    BY <1>1, <2>1, ElementOfSeq
  <2> HIDE DEF p
  <2>4. EndIn(l, p) \in p .. Len(l)
    BY <2>3, EndInIs
  <2>5. p \in 1 .. b - 1
    BY <1>0, <2>3, <2>4
  <2>6. k[p] = l[p]
    BY <2>5
  <2> QED BY <2>2, <2>6 DEF p
<1>8. f \in Seq(1 .. Len(k))
  BY <1>1
<1> QED BY <1>4, <1>5, <1>6, <1>7, <1>8 DEF Ended

LEMMA TokensTyped ==
  ASSUME NEW l, IsLine(l), NEW f \in Seq(1 .. Len(l))
  PROVE  TokensIn(l, f) \in Seq(Seq(Characters)) /\ Len(TokensIn(l, f)) = Len(f)
         /\ \A i \in 1 .. Len(f) : TokensIn(l, f)[i] = StringIn(l, f[i])
<1>1. Len(f) \in Nat /\ DOMAIN f = 1 .. Len(f)
  BY LenProperties
<1>2. ASSUME NEW i \in 1 .. Len(f) PROVE StringIn(l, f[i]) \in Seq(Characters)
  <2>1. f[i] \in 1 .. Len(l)
    BY ElementOfSeq
  <2> QED BY <2>1, StringInIs
<1> DEFINE T == TokensIn(l, f)
<1>3. T = [i \in 1 .. Len(f) |-> StringIn(l, f[i])]
  BY <1>1 DEF TokensIn
<1>4. \A i \in 1 .. Len(f) : T[i] = StringIn(l, f[i])
  BY <1>3
<1>5. T \in [1 .. Len(f) -> Seq(Characters)]
  BY <1>2, <1>3
<1> HIDE DEF T
<1>6. T \in Seq(Seq(Characters)) /\ Len(T) = Len(f)
  BY <1>1, <1>5
<1> QED BY <1>4, <1>6 DEF T

LEMMA EndedAppends ==
  ASSUME NEW l, IsLine(l), NEW f, NEW p \in 1 .. Len(l), Ended(l, f, p),
         NEW b \in Nat, EndIn(l, p) < b, f = <<>> => l[p] # NUL
  PROVE  /\ Ended(l, Append(f, p), b)
         /\ TokensIn(l, Append(f, p)) = TokensIn(l, f) \o <<StringIn(l, p)>>
<1> DEFINE g == Append(f, p)
<1>0. Len(l) \in Nat
  BY DEF IsLine
<1>1. f \in Seq(1 .. Len(l)) /\ \A i \in 1 .. Len(f) : EndIn(l, f[i]) < p
  BY DEF Ended
<1>2. Len(f) \in Nat
  BY <1>1, LenProperties
<1>3. /\ g \in Seq(1 .. Len(l)) /\ Len(g) = Len(f) + 1
      /\ \A i \in 1 .. Len(f) : g[i] = f[i]
      /\ g[Len(f) + 1] = p
  BY <1>1, AppendProperties
<1> HIDE DEF g
<1>4. EndIn(l, p) \in p .. Len(l)
  BY EndInIs
<1>5. p <= b /\ p \in Nat
  BY <1>0, <1>4
<1>6. Ended(l, f, b)
  BY <1>5, EndedGrows
<1>7. ASSUME NEW i \in 1 .. Len(g) PROVE EndIn(l, g[i]) < b
  <2>1. CASE i \in 1 .. Len(f)
    BY <1>3, <1>6, <2>1 DEF Ended
  <2>2. CASE i = Len(f) + 1
    BY <1>3, <2>2
  <2> QED BY <1>2, <1>3, <2>1, <2>2
<1>8. ASSUME NEW i \in 2 .. Len(g) PROVE EndIn(l, g[1]) < g[i]
  <2>1. 1 \in 1 .. Len(f) /\ g[1] = f[1]
    BY <1>2, <1>3
  <2>2. CASE i \in 2 .. Len(f)
    <3>1. EndIn(l, f[1]) < f[i]
      BY <2>2 DEF Ended
    <3>2. g[i] = f[i]
      BY <1>2, <1>3, <2>2
    <3> QED BY <2>1, <3>1, <3>2
  <2>3. CASE i = Len(f) + 1
    BY <1>1, <1>3, <2>1, <2>3
  <2> QED BY <1>2, <1>3, <2>2, <2>3
<1>9. l[g[1]] # NUL
  <2>1. CASE f = <<>>
    <3>1. Len(f) = 0
      BY <2>1, EmptySeq
    <3>2. g[1] = p
      BY <1>3, <3>1
    <3> QED BY <2>1, <3>2
  <2>2. CASE f # <<>>
    <3>1. 1 \in 1 .. Len(f)
      BY <1>1, <2>2, EmptySeq
    <3>2. l[f[1]] # NUL
      BY <2>2 DEF Ended
    <3> QED BY <1>3, <3>1, <3>2
  <2> QED BY <2>1, <2>2
<1>10. Ended(l, g, b)
  BY <1>3, <1>7, <1>8, <1>9 DEF Ended
<1> DEFINE T == TokensIn(l, f)
           U == TokensIn(l, g)
           s == StringIn(l, p)
<1>11. s \in Seq(Characters)
  BY StringInIs
<1>12. T \in Seq(Seq(Characters)) /\ Len(T) = Len(f) /\ \A i \in 1 .. Len(f) : T[i] = StringIn(l, f[i])
  BY <1>1, TokensTyped
<1>13. U \in Seq(Seq(Characters)) /\ Len(U) = Len(g) /\ \A i \in 1 .. Len(g) : U[i] = StringIn(l, g[i])
  BY <1>3, TokensTyped
<1> HIDE DEF T, U, s
<1>14. /\ Append(T, s) \in Seq(Seq(Characters)) /\ Len(Append(T, s)) = Len(T) + 1
       /\ \A i \in 1 .. Len(T) : Append(T, s)[i] = T[i]
       /\ Append(T, s)[Len(T) + 1] = s
  BY <1>11, <1>12, AppendProperties
<1>15. ASSUME NEW i \in 1 .. Len(U) PROVE U[i] = Append(T, s)[i]
  <2>1. CASE i \in 1 .. Len(f)
    <3>1. U[i] = StringIn(l, f[i])
      BY <1>3, <1>13, <2>1
    <3>2. Append(T, s)[i] = StringIn(l, f[i])
      BY <1>12, <1>14, <2>1
    <3> QED BY <3>1, <3>2
  <2>2. CASE i = Len(f) + 1
    <3>1. U[i] = s
      BY <1>3, <1>13, <2>2 DEF s
    <3> QED BY <1>12, <1>14, <2>2, <3>1
  <2>3. i \in 1 .. Len(f) \/ i = Len(f) + 1
    BY <1>2, <1>3, <1>13
  <2> QED BY <2>1, <2>2, <2>3
<1>16. Len(U) = Len(Append(T, s))
  BY <1>3, <1>12, <1>13, <1>14
<1>17. U = Append(T, s)
  BY <1>13, <1>14, <1>15, <1>16, SeqEqual
<1>18. Append(T, s) = T \o <<s>>
  BY <1>11, <1>12, AppendIsConcat
<1>19. U = T \o <<s>>
  BY <1>17, <1>18
<1> QED BY <1>10, <1>19 DEF g, T, U, s

-----------------------------------------------------------------------------
(* The inductive invariant: what is still to be read is as it came, and    *)
(* the readings of the request are the tokens found so far, the one in     *)
(* progress, and the readings of what is still to be read.                 *)

Unread(l, r, q) == \A n \in q .. Len(l) : l[n] = IF n <= Len(r) THEN r[n] ELSE NUL

Decoded == SubSeq(line, token, write - 1)

ReadsOn(tokens, p) == Readings(Request) = Behind(tokens, Reads(Request)[p])

ScanInv ==
  pc \in {"token", "plain", "quoted", "next"} =>
    /\ text \in Seq(Characters) /\ IsLine(line) /\ Len(line) = Len(text) + 1
    /\ InLimits /\ Len(found) <= MaxArgs
    /\ read \in 1 .. Len(Request) + 1 /\ Unread(line, Request, read)

StartInv ==
  pc = "start" => /\ text \in Seq(Characters) /\ line = text \o <<NUL>>
                  /\ read = 1 /\ found = <<>>

TokenInv ==
  pc = "token" => /\ line[read] \notin Separators \cup {NUL}
                  /\ Ended(line, found, read)
                  /\ ReadsOn(TokensIn(line, found), read)

PlainInv ==
  pc = "plain" => /\ token \in 1 .. Len(Request) /\ token <= read
                  /\ Unread(line, Request, token)
                  /\ Request[token] \notin Separators \cup {Quote}
                  /\ \A n \in token .. read - 1 : Request[n] \notin Separators \cup {Quote}
                  /\ Ended(line, found, token)
                  /\ ReadsOn(TokensIn(line, found), token)

QuotedInv ==
  pc = "quoted" => /\ token \in 2 .. Len(Request) + 1 /\ write \in token .. read
                   /\ Request[token - 1] = Quote
                   /\ Decoded \in Seq(Characters)
                   /\ Scanned(Request, token - 1, read, Decoded)
                   /\ Ended(line, found, token)
                   /\ ReadsOn(TokensIn(line, found), token - 1)

NextInv ==
  pc = "next" => /\ token \in 1 .. Len(line) /\ EndIn(line, token) <= read
                 /\ line[read] \notin Separators
                 /\ Ended(line, found, token)
                 /\ ReadsOn(TokensIn(line, found) \o <<StringIn(line, token)>>, read)

EndInv ==
  /\ pc \in {"rejected", "done"} => /\ line[Len(line)] = NUL /\ read \in DOMAIN line
                                   /\ Len(found) <= MaxArgs + 1
                                   /\ \A n \in DOMAIN found : found[n] \in DOMAIN line
  /\ pc = "done" => \A r, q \in Readings(Request) : r = q

IdleInv == /\ pc = "idle" => read = 1 /\ found = <<>>
           /\ pc \in {"idle", "start", "token", "plain", "quoted", "next", "rejected", "done"}

Inv == /\ IdleInv /\ StartInv /\ ScanInv /\ TokenInv /\ PlainInv /\ QuotedInv /\ NextInv
       /\ EndInv /\ ParsesAsGrammar

LEMMA MaxIsGreatest ==
  ASSUME NEW n \in Nat, NEW S \in SUBSET (0 .. n), S # {}
  PROVE  Max(S) \in S /\ \A y \in S : y <= Max(S)
<1> DEFINE T == {n - y : y \in S}
           m == Min(T)
<1>1. T \in SUBSET Nat /\ T # {}
  <2>1. \A y \in S : y \in 0 .. n /\ n - y \in Nat
    OBVIOUS
  <2>2. T \in SUBSET Nat
    BY <2>1
  <2> QED BY <2>2
<1>2. m \in T /\ \A y \in T : m <= y
  BY <1>1, MinIsLeast
<1> HIDE DEF m
<1>3. PICK x \in S : m = n - x
  BY <1>2
<1>4. ASSUME NEW y \in S PROVE x >= y
  <2>1. n - y \in T
    OBVIOUS
  <2>2. m <= n - y
    BY <1>2, <2>1
  <2>3. x \in 0 .. n /\ y \in 0 .. n
    OBVIOUS
  <2> QED BY <1>3, <2>2, <2>3
<1>5. \E z \in S : \A y \in S : z >= y
  BY <1>4
<1>6. Max(S) \in S /\ \A y \in S : Max(S) >= y
  BY <1>5, Zenon DEF Max
<1> DEFINE z == Max(S)
<1> HIDE DEF z
<1>7. z \in S /\ \A y \in S : z >= y
  BY <1>6 DEF z
<1>8. \A y \in S : y <= z
  BY <1>7
<1> QED BY <1>7, <1>8 DEF z

\* The last position of t that holds none of S, 0 if there is none.
LastNot(t, S) == Max({0} \cup {n \in DOMAIN t : t[n] \notin S})

LEMMA LastNotIs ==
  ASSUME NEW C, NEW t \in Seq(C), NEW S
  PROVE  /\ LastNot(t, S) \in 0 .. Len(t)
         /\ LastNot(t, S) > 0 => t[LastNot(t, S)] \notin S
         /\ \A n \in LastNot(t, S) + 1 .. Len(t) : t[n] \in S
<1> DEFINE X == {0} \cup {n \in DOMAIN t : t[n] \notin S}
           m == LastNot(t, S)
<1>1. Len(t) \in Nat /\ DOMAIN t = 1 .. Len(t)
  BY LenProperties
<1>2. X \in SUBSET (0 .. Len(t)) /\ X # {}
  BY <1>1
<1>3. Max(X) \in X /\ \A y \in X : y <= Max(X)
  BY <1>1, <1>2, MaxIsGreatest
<1>4. m = Max(X)
  BY DEF LastNot
<1> HIDE DEF m
<1>5. m \in X /\ \A y \in X : y <= m
  BY <1>3, <1>4
<1>6. m \in 0 .. Len(t) /\ (m > 0 => t[m] \notin S)
  BY <1>1, <1>5
<1>7. ASSUME NEW n \in m + 1 .. Len(t) PROVE t[n] \in S
  <2>1. n \in 1 .. Len(t) /\ ~(n <= m)
    BY <1>1, <1>6
  <2>2. n \notin X
    BY <1>5, <2>1
  <2> QED BY <1>1, <2>1, <2>2
<1> QED BY <1>6, <1>7 DEF m

LEMMA PrefixIs ==
  ASSUME NEW C, NEW t \in Seq(C), NEW k \in 0 .. Len(t)
  PROVE  /\ SubSeq(t, 1, k) \in Seq(C) /\ Len(SubSeq(t, 1, k)) = k
         /\ \A n \in 1 .. k : SubSeq(t, 1, k)[n] = t[n]
<1>0. Len(t) \in Nat
  BY LenProperties
<1>1. \A i \in 1 .. k : t[i] \in C
  BY <1>0, ElementOfSeq
<1> DEFINE s == SubSeq(t, 1, k)
<1>2. /\ s \in Seq(C) /\ Len(s) = IF 1 <= k THEN k - 1 + 1 ELSE 0
      /\ \A i \in 1 .. k - 1 + 1 : s[i] = t[1 + i - 1]
  <2>1. 1 \in Int /\ k \in Int
    BY <1>0
  <2> QED BY <1>1, <2>1, SubSeqProperties
<1> HIDE DEF s
<1>3. Len(s) = k /\ k - 1 + 1 = k
  BY <1>0, <1>2
<1>4. ASSUME NEW n \in 1 .. k PROVE s[n] = t[n]
  <2>1. 1 + n - 1 = n /\ n \in 1 .. k - 1 + 1
    BY <1>0
  <2> QED BY <1>2, <2>1
<1> QED BY <1>2, <1>3, <1>4 DEF s

LEMMA RequestIs ==
  ASSUME text \in Seq(Characters)
  PROVE  /\ Request \in Seq(Characters) /\ Len(Request) \in Nat
         /\ Len(Request) <= Len(text) /\ Len(text) \in Nat
         /\ Len(Request) = LastNot(text, {CR, LF})
         /\ \A n \in 1 .. Len(Request) : /\ Request[n] = text[n] /\ Request[n] # NUL
                                         /\ Request[n] \in Characters
<1> DEFINE k == LastNot(text, {CR, LF})
           r == Request
<1>0. Len(text) \in Nat
  BY LenProperties
<1>1. k \in 0 .. Len(text)
  BY LastNotIs
<1>2. r = SubSeq(text, 1, k)
  BY DEF Request, LastNot
<1> HIDE DEF k, r
<1>3. r \in Seq(Characters) /\ Len(r) = k /\ \A n \in 1 .. k : r[n] = text[n]
  BY <1>1, <1>2, PrefixIs
<1>4. \A n \in 1 .. Len(r) : r[n] \in Characters
  BY <1>3, ElementOfSeq
<1>5. NUL \notin Characters
  BY UpperAssumption
<1>6. \A n \in 1 .. Len(r) : r[n] = text[n] /\ r[n] # NUL /\ r[n] \in Characters
  BY <1>3, <1>4, <1>5
<1>7. Len(r) \in Nat /\ Len(r) <= Len(text)
  BY <1>0, <1>1, <1>3
<1> QED BY <1>0, <1>3, <1>6, <1>7 DEF k, r

\* Behind the request the line holds NUL, before that it holds the request.
LEMMA UnreadIs ==
  ASSUME NEW l, NEW r, NEW q \in Nat \ {0}, NEW p \in q .. Len(l), Len(l) \in Nat, Len(r) \in Nat,
         Unread(l, r, q), \A n \in 1 .. Len(r) : r[n] # NUL
  PROVE  /\ l[p] = NUL => p > Len(r)
         /\ l[p] # NUL => p \in 1 .. Len(r) /\ l[p] = r[p]
<1>1. l[p] = IF p <= Len(r) THEN r[p] ELSE NUL
  BY DEF Unread
<1>2. p <= Len(r) => p \in 1 .. Len(r)
  OBVIOUS
<1> QED BY <1>1, <1>2

LEMMA UnreadLater ==
  ASSUME NEW l, NEW r, NEW q \in Nat, NEW p \in Nat, q <= p, Len(l) \in Nat, Unread(l, r, q)
  PROVE  Unread(l, r, p)
<1>1. \A n \in p .. Len(l) : n \in q .. Len(l)
  OBVIOUS
<1> QED BY <1>1 DEF Unread

\* The facts of ScanInv that the steps use.
LEMMA Scanning ==
  ASSUME ScanInv, pc \in {"token", "plain", "quoted", "next"}
  PROVE  /\ text \in Seq(Characters) /\ Request \in Seq(Characters)
         /\ Len(Request) \in Nat /\ Len(text) \in Nat /\ Len(Request) <= Len(text)
         /\ \A n \in 1 .. Len(Request) : Request[n] # NUL /\ Request[n] \in Characters
         /\ IsLine(line) /\ Len(line) = Len(text) + 1 /\ Len(line) \in Nat
         /\ InLimits /\ Len(found) <= MaxArgs
         /\ read \in 1 .. Len(Request) + 1 /\ read \in 1 .. Len(line) /\ read \in Nat
         /\ Unread(line, Request, read)
         /\ line[read] = NUL => read = Len(Request) + 1
         /\ line[read] # NUL => read \in 1 .. Len(Request) /\ line[read] = Request[read]
<1>1. /\ text \in Seq(Characters) /\ IsLine(line) /\ Len(line) = Len(text) + 1
      /\ InLimits /\ Len(found) <= MaxArgs
      /\ read \in 1 .. Len(Request) + 1 /\ Unread(line, Request, read)
  BY Zenon DEF ScanInv
<1>2. /\ Request \in Seq(Characters) /\ Len(Request) \in Nat
      /\ Len(Request) <= Len(text) /\ Len(text) \in Nat
      /\ \A n \in 1 .. Len(Request) : Request[n] # NUL /\ Request[n] \in Characters
  BY <1>1, RequestIs
<1> DEFINE R == Request
<1> HIDE DEF R
<1>3. Len(line) \in Nat /\ read \in 1 .. Len(line) /\ read \in Nat \ {0} /\ read \in read .. Len(line)
  <2>1. read \in 1 .. Len(R) + 1 /\ Len(R) \in Nat /\ Len(R) <= Len(text) /\ Len(text) \in Nat
    BY <1>1, <1>2 DEF R
  <2> QED BY <1>1, <2>1
<1>4. /\ line[read] = NUL => read > Len(R)
      /\ line[read] # NUL => read \in 1 .. Len(R) /\ line[read] = R[read]
  BY <1>1, <1>2, <1>3, UnreadIs DEF R
<1>5. line[read] = NUL => read = Len(R) + 1
  <2>1. read \in 1 .. Len(R) + 1 /\ Len(R) \in Nat
    BY <1>1, <1>2 DEF R
  <2> QED BY <1>4, <2>1
<1> QED BY <1>1, <1>2, <1>3, <1>4, <1>5 DEF R

LEMMA RequestStays ==
  ASSUME text' = text
  PROVE  Request' = Request /\ (InLimits => InLimits')
BY DEF Request, InLimits

LEMMA RejectKeeps ==
  ASSUME Reject, IsLine(line), read \in 1 .. Len(line),
         ~(InLimits /\ \E r \in Readings(Request) : IsRequest(r))
  PROVE  Inv'
<1>1. pc' = "rejected" /\ found' = <<>> /\ line' = line /\ text' = text /\ read' = read
  BY DEF Reject
<1>2. IdleInv' /\ StartInv' /\ ScanInv' /\ TokenInv' /\ PlainInv' /\ QuotedInv' /\ NextInv'
  BY <1>1 DEF IdleInv, StartInv, ScanInv, TokenInv, PlainInv, QuotedInv, NextInv
<1>3. EndInv'
  <2>1. DOMAIN line = 1 .. Len(line) /\ line[Len(line)] = NUL
    BY LenProperties DEF IsLine
  <2>2. Len(found') <= MaxArgs + 1
    <3>1. Len(<<>>) = 0
      BY EmptySeq
    <3> QED BY <1>1, <3>1, SizesAssumption
  <2>3. \A n \in DOMAIN found' : found'[n] \in DOMAIN line'
    BY <1>1
  <2> QED BY <1>1, <2>1, <2>2, <2>3 DEF EndInv
<1>4. ParsesAsGrammar'
  <2>1. Request' = Request
    BY <1>1, RequestStays
  <2>2. InLimits' => InLimits
    BY <1>1, <2>1 DEF InLimits
  <2>3. (\E r \in Readings(Request) : IsRequest(r))' => \E r \in Readings(Request) : IsRequest(r)
    BY <2>1 DEF IsRequest
  <2>4. pc' # "done"
    BY <1>1
  <2> QED BY <1>1, <2>2, <2>3, <2>4, Zenon DEF ParsesAsGrammar
<1> QED BY <1>2, <1>3, <1>4 DEF Inv

\* A text without readings is not a request.
LEMMA NoReading ==
  ASSUME NEW c, NEW p, ReadsOn(c, p), Reads(Request)[p] = {}
  PROVE  ~(InLimits /\ \E r \in Readings(Request) : IsRequest(r))
<1>1. Readings(Request) = Behind(c, {})
  BY DEF ReadsOn
<1>2. Readings(Request) = {}
  BY <1>1, BehindNone
<1> QED BY <1>2

LEMMA ParseKeeps ==
  ASSUME Inv, NEW t \in Seq(Characters), Parse(t)
  PROVE  Inv'
<1>1. /\ pc = "idle" /\ text' = t /\ line' = t \o <<NUL>> /\ pc' = "start"
      /\ read' = read /\ found' = found
  BY DEF Parse
<1>2. read = 1 /\ found = <<>>
  BY <1>1 DEF Inv, IdleInv
<1>3. StartInv'
  BY <1>1, <1>2 DEF StartInv
<1>4. IdleInv' /\ ScanInv' /\ TokenInv' /\ PlainInv' /\ QuotedInv' /\ NextInv' /\ EndInv' /\ ParsesAsGrammar'
  BY <1>1 DEF IdleInv, ScanInv, TokenInv, PlainInv, QuotedInv, NextInv, EndInv, ParsesAsGrammar
<1> QED BY <1>3, <1>4 DEF Inv

-----------------------------------------------------------------------------
(* ks_parse_line up to the first token.                                    *)

LEMMA TrimmedIs ==
  ASSUME text \in Seq(Characters), line = text \o <<NUL>>
  PROVE  /\ Length = Len(text) /\ Trimmed = Len(Request)
         /\ IsLine(line) /\ Len(line) = Len(text) + 1
         /\ \A n \in 1 .. Len(text) : line[n] = text[n]
         /\ line[Len(text) + 1] = NUL
<1>0. Len(text) \in Nat /\ DOMAIN text = 1 .. Len(text)
  BY LenProperties
<1>1. text \in Seq(Bytes)
  <2>1. Characters \subseteq Bytes
    BY DEF Bytes
  <2> QED BY <2>1, SeqMonotonic
<1>2. <<NUL>> \in Seq(Bytes) /\ Len(<<NUL>>) = 1 /\ <<NUL>>[1] = NUL
  BY DEF Bytes
<1>3. /\ line \in Seq(Bytes) /\ Len(line) = Len(text) + Len(<<NUL>>)
      /\ \A i \in 1 .. Len(text) + Len(<<NUL>>) : line[i] =
           IF i <= Len(text) THEN text[i] ELSE <<NUL>>[i - Len(text)]
  BY <1>1, <1>2, ConcatProperties
<1>4. Len(line) = Len(text) + 1
  BY <1>2, <1>3
<1>5. \A n \in 1 .. Len(text) : line[n] = text[n]
  BY <1>0, <1>2, <1>3
<1>6. line[Len(text) + 1] = NUL
  <2>1. Len(text) + 1 \in 1 .. Len(text) + Len(<<NUL>>) /\ ~(Len(text) + 1 <= Len(text))
        /\ Len(text) + 1 - Len(text) = 1
    BY <1>0, <1>2
  <2> QED BY <1>2, <1>3, <2>1
<1>7. IsLine(line)
  BY <1>0, <1>3, <1>4, <1>6 DEF IsLine
<1>8. Length = Len(text)
  BY <1>0, <1>4 DEF Length
<1>9. Trimmed = LastNot(text, {CR, LF})
  <2>1. {n \in 1 .. Length : line[n] \notin {CR, LF}} = {n \in DOMAIN text : text[n] \notin {CR, LF}}
    BY <1>0, <1>5, <1>8
  <2> QED BY <2>1, Zenon DEF Trimmed, LastNot
<1>10. Trimmed = Len(Request)
  BY <1>9, RequestIs
<1> QED BY <1>4, <1>5, <1>6, <1>7, <1>8, <1>10

LEMMA StartRejectsKeeps ==
  ASSUME Inv, StartRejects
  PROVE  Inv'
<1>1. pc = "start" /\ (TooLong \/ IsBlank) /\ Reject
  BY DEF StartRejects
<1>2. text \in Seq(Characters) /\ line = text \o <<NUL>> /\ read = 1
  BY <1>1 DEF Inv, StartInv
<1>3. /\ Length = Len(text) /\ Trimmed = Len(Request)
      /\ IsLine(line) /\ Len(line) = Len(text) + 1
      /\ \A n \in 1 .. Len(text) : line[n] = text[n]
  BY <1>2, TrimmedIs
<1>4. /\ Request \in Seq(Characters) /\ Len(Request) \in Nat
      /\ Len(Request) <= Len(text) /\ Len(text) \in Nat
      /\ \A n \in 1 .. Len(Request) : Request[n] = text[n]
  BY <1>2, RequestIs
<1>5. read \in 1 .. Len(line)
  BY <1>2, <1>3, <1>4
<1>6. ~(InLimits /\ \E r \in Readings(Request) : IsRequest(r))
  <2>1. CASE TooLong
    <3> DEFINE k == Len(Request)
               n == Len(text)
    <3>1. n > MaxRequest + 2 \/ k > MaxRequest
      BY <1>3, <2>1 DEF TooLong
    <3>2. InLimits => k <= MaxRequest /\ n <= MaxRequest + 2
      BY DEF InLimits
    <3>3. k \in Nat /\ n \in Nat
      BY <1>4
    <3> HIDE DEF k, n
    <3>4. ~InLimits
      BY <3>1, <3>2, <3>3, SizesAssumption
    <3> QED BY <3>4
  <2>2. CASE IsBlank
    <3> DEFINE k == Len(Request)
    <3>1. ASSUME NEW n \in 1 .. k PROVE Request[n] \in Separators
      <4>1. line[n] \in Separators
        BY <1>3, <2>2 DEF IsBlank
      <4>2. n \in 1 .. Len(text)
        BY <1>4
      <4>3. line[n] = text[n] /\ Request[n] = text[n]
        BY <1>3, <1>4, <4>2
      <4> QED BY <4>1, <4>3
    <3>2. 1 \in 1 .. k + 1
      BY <1>4
    <3>3. Reads(Request)[1] = {<<>>}
      BY <1>4, <3>1, <3>2, ReadsAtEnd
    <3>4. \A r \in Readings(Request) : r = <<>>
      BY <3>3 DEF Readings
    <3>5. \A r \in Readings(Request) : ~IsRequest(r)
      BY <3>4 DEF IsRequest
    <3> QED BY <3>5
  <2> QED BY <1>1, <2>1, <2>2
<1> QED BY <1>1, <1>3, <1>5, <1>6, RejectKeeps

LEMMA StartKeeps ==
  ASSUME Inv, Start
  PROVE  Inv'
<1> DEFINE R == Request
           k == Len(Request)
           l == line'
           q == read'
<1>1. /\ pc = "start" /\ ~TooLong /\ ~IsBlank /\ pc' = "token" /\ text' = text /\ found' = found
      /\ line' = [n \in DOMAIN line |-> IF n > Trimmed THEN NUL ELSE line[n]]
      /\ read' = SkipSeparators(line', 1)
  BY DEF Start
<1>2. text \in Seq(Characters) /\ line = text \o <<NUL>> /\ found = <<>>
  BY <1>1 DEF Inv, StartInv
<1>3. /\ Length = Len(text) /\ Trimmed = k /\ IsLine(line) /\ Len(line) = Len(text) + 1
      /\ \A n \in 1 .. Len(text) : line[n] = text[n]
  BY <1>2, TrimmedIs
<1>4. /\ R \in Seq(Characters) /\ k \in Nat /\ k <= Len(text) /\ Len(text) \in Nat
      /\ \A n \in 1 .. k : R[n] = text[n] /\ R[n] # NUL /\ R[n] \in Characters
  BY <1>2, RequestIs
<1>5. Request' = Request
  BY <1>1, RequestStays
<1>6. InLimits
  <2>1. ~(Len(text) > MaxRequest + 2) /\ ~(k > MaxRequest)
    BY <1>1, <1>3 DEF TooLong
  <2> HIDE DEF k
  <2>2. k <= MaxRequest /\ Len(text) <= MaxRequest + 2
    BY <1>4, <2>1, SizesAssumption
  <2> QED BY <2>2 DEF InLimits, k
<1>7. DOMAIN line = 1 .. Len(text) + 1
  <2>1. line \in Seq(Bytes)
    BY <1>3 DEF IsLine
  <2> QED BY <1>3, <2>1, LenProperties
<1> HIDE DEF R, k, l, q
<1>8. l = [n \in 1 .. Len(text) + 1 |-> IF n > k THEN NUL ELSE line[n]]
  BY <1>1, <1>3, <1>7 DEF l
<1>9. ASSUME NEW n \in 1 .. Len(text) + 1
      PROVE  l[n] = IF n <= k THEN R[n] ELSE NUL
  <2>1. l[n] = IF n > k THEN NUL ELSE line[n]
    BY <1>8
  <2>2. CASE n <= k
    <3>1. n \in 1 .. k /\ n \in 1 .. Len(text) /\ ~(n > k)
      BY <1>4, <2>2
    <3> QED BY <1>3, <1>4, <2>1, <2>2, <3>1
  <2>3. CASE ~(n <= k)
    <3>1. n > k
      BY <1>4, <2>3
    <3> QED BY <2>1, <2>3, <3>1
  <2> QED BY <2>2, <2>3
<1>10. l \in Seq(Bytes) /\ Len(l) = Len(text) + 1
  <2>1. ASSUME NEW n \in 1 .. Len(text) + 1 PROVE l[n] \in Bytes
    <3>1. CASE n <= k
      <4>1. n \in 1 .. k
        BY <1>4, <3>1
      <4> QED BY <1>4, <1>9, <3>1, <4>1 DEF Bytes
    <3>2. CASE ~(n <= k)
      BY <1>9, <3>2 DEF Bytes
    <3> QED BY <3>1, <3>2
  <2>2. l \in [1 .. Len(text) + 1 -> Bytes]
    BY <1>8, <2>1
  <2> QED BY <1>4, <2>2
<1>11. IsLine(l) /\ Len(l) \in Nat
  <2>1. Len(text) + 1 \in 1 .. Len(text) + 1 /\ ~(Len(text) + 1 <= k)
    BY <1>4
  <2>2. l[Len(text) + 1] = NUL
    BY <1>9, <2>1
  <2> QED BY <1>4, <1>10, <2>2 DEF IsLine
<1>12. q \in 1 .. Len(l) /\ l[q] \notin Separators /\ \A n \in 1 .. q - 1 : l[n] \in Separators
  <2>1. q = SkipSeparators(l, 1)
    BY <1>1 DEF l, q
  <2>2. 1 \in 1 .. Len(l)
    BY <1>4, <1>10
  <2> QED BY <1>11, <2>1, <2>2, SkipIs
<1>13. q \in 1 .. k /\ l[q] # NUL
  <2>1. PICK n \in 1 .. k : line[n] \notin Separators
    BY <1>1, <1>3 DEF IsBlank, k
  <2>2. n \in 1 .. Len(text) /\ n \in 1 .. Len(text) + 1 /\ n <= k
    BY <1>4
  <2>3. l[n] \notin Separators
    BY <1>3, <1>4, <1>9, <2>1, <2>2
  <2>4. ~(n \in 1 .. q - 1)
    BY <1>12, <2>3
  <2>5. q \in 1 .. k /\ q \in 1 .. Len(text) + 1 /\ q <= k
    BY <1>4, <1>10, <1>12, <2>2, <2>4
  <2>6. l[q] = R[q]
    BY <1>9, <2>5
  <2> QED BY <1>4, <2>5, <2>6
<1>14. Unread(l, R, q)
  <2>1. \A n \in q .. Len(l) : n \in 1 .. Len(text) + 1
    BY <1>4, <1>10, <1>12
  <2> QED BY <1>9, <2>1 DEF Unread, k, R
<1>15. Reads(R)[1] = Reads(R)[q]
  <2>1. ASSUME NEW n \in 1 .. q - 1 PROVE R[n] \in Separators
    <3>1. n \in 1 .. Len(text) + 1 /\ n <= k
      BY <1>4, <1>13
    <3>2. l[n] = R[n]
      BY <1>9, <3>1
    <3> QED BY <1>12, <3>2
  <2>2. 1 \in 1 .. Len(R) + 1 /\ q \in 1 .. Len(R) + 1
    BY <1>4, <1>13 DEF R, k
  <2> QED BY <1>4, <2>1, <2>2, ReadsSkipAll
<1>16. Ended(l, <<>>, q) /\ TokensIn(l, <<>>) = <<>>
  BY EndedNone
<1>17. Readings(R) = Behind(<<>>, Reads(R)[q])
  <2>1. q \in 1 .. Len(R) + 1
    BY <1>4, <1>13 DEF R, k
  <2>2. Reads(R)[q] \subseteq Seq(Seq(Characters))
    BY <1>4, <2>1, ReadsTyped
  <2>3. Reads(R)[q] = Behind(<<>>, Reads(R)[q])
    BY <2>2, BehindNothing
  <2> QED BY <1>15, <2>3, Zenon DEF Readings
<1>18. ScanInv'
  <2>1. q \in 1 .. k + 1
    BY <1>4, <1>13
  <2>2. InLimits'
    BY <1>1, <1>6, RequestStays
  <2>3. Len(found') <= MaxArgs
    <3>1. Len(<<>>) = 0
      BY EmptySeq
    <3> QED BY <1>1, <1>2, <3>1, SizesAssumption
  <2> QED BY <1>1, <1>2, <1>5, <1>10, <1>11, <1>14, <2>1, <2>2, <2>3 DEF ScanInv, l, q, k, R
<1>19. TokenInv'
  <2>1. l[q] \notin Separators \cup {NUL}
    BY <1>12, <1>13
  <2>2. ReadsOn(TokensIn(line, found), read)'
    BY <1>1, <1>2, <1>5, <1>16, <1>17 DEF ReadsOn, l, q, R
  <2>3. Ended(line', found', read')
    BY <1>1, <1>2, <1>16 DEF l, q
  <2> QED BY <2>1, <2>2, <2>3 DEF TokenInv, l, q
<1>20. IdleInv' /\ StartInv' /\ PlainInv' /\ QuotedInv' /\ NextInv' /\ EndInv' /\ ParsesAsGrammar'
  BY <1>1 DEF IdleInv, StartInv, PlainInv, QuotedInv, NextInv, EndInv, ParsesAsGrammar
<1> QED BY <1>18, <1>19, <1>20 DEF Inv

-----------------------------------------------------------------------------
(* parse_token.                                                            *)

LEMMA OpenPlainKeeps ==
  ASSUME Inv, OpenPlain
  PROVE  Inv'
<1>1. /\ pc = "token" /\ line[read] # Quote /\ token' = read /\ pc' = "plain"
      /\ line' = line /\ text' = text /\ read' = read /\ found' = found
  BY DEF OpenPlain
<1>2. ScanInv /\ TokenInv
  BY DEF Inv
<1>3. pc \in {"token", "plain", "quoted", "next"}
  BY <1>1
<1>4. /\ line[read] \notin Separators \cup {NUL} /\ Ended(line, found, read)
      /\ ReadsOn(TokensIn(line, found), read)
  BY <1>1, <1>2 DEF TokenInv
<1>5. /\ Unread(line, Request, read) /\ read \in Nat
      /\ read \in 1 .. Len(Request) /\ line[read] = Request[read]
  <2>1. line[read] # NUL
    BY <1>4
  <2> QED BY <1>2, <1>3, <2>1, Scanning
<1>6. Request' = Request /\ (InLimits => InLimits')
  BY <1>1, RequestStays
<1>7. ScanInv'
  BY <1>1, <1>2, <1>3, <1>6 DEF ScanInv
<1>8. PlainInv'
  <2>1. Request[read] \notin Separators \cup {Quote}
    BY <1>1, <1>4, <1>5
  <2>2. ~ \E n \in read .. read - 1 : TRUE
    BY <1>5
  <2>3. ReadsOn(TokensIn(line, found), token)'
    BY <1>1, <1>4, <1>6 DEF ReadsOn
  <2> QED BY <1>1, <1>4, <1>5, <1>6, <2>1, <2>2, <2>3 DEF PlainInv
<1>9. IdleInv' /\ StartInv' /\ TokenInv' /\ QuotedInv' /\ NextInv' /\ EndInv' /\ ParsesAsGrammar'
  BY <1>1 DEF IdleInv, StartInv, TokenInv, QuotedInv, NextInv, EndInv, ParsesAsGrammar
<1> QED BY <1>7, <1>8, <1>9 DEF Inv

LEMMA OpenQuotedKeeps ==
  ASSUME Inv, OpenQuoted
  PROVE  Inv'
<1>1. /\ pc = "token" /\ line[read] = Quote /\ pc' = "quoted"
      /\ read' = read + 1 /\ write' = read + 1 /\ token' = read + 1
      /\ line' = line /\ text' = text /\ found' = found
  BY DEF OpenQuoted
<1>2. ScanInv /\ TokenInv
  BY DEF Inv
<1>3. pc \in {"token", "plain", "quoted", "next"}
  BY <1>1
<1>4. Ended(line, found, read) /\ ReadsOn(TokensIn(line, found), read)
  BY <1>1, <1>2 DEF TokenInv
<1>5. /\ Request \in Seq(Characters) /\ Len(Request) \in Nat /\ IsLine(line) /\ Len(line) \in Nat
      /\ Unread(line, Request, read) /\ read \in Nat
      /\ read \in 1 .. Len(Request) /\ line[read] = Request[read]
  <2>1. line[read] # NUL
    BY <1>1 DEF Quote, NUL
  <2> QED BY <1>2, <1>3, <2>1, Scanning
<1>6. Request' = Request /\ (InLimits => InLimits')
  BY <1>1, RequestStays
<1> DEFINE k == Len(Request)
<1> HIDE DEF k
<1>7. /\ read + 1 \in 2 .. k + 1 /\ read + 1 \in 1 .. k + 1 /\ read + 1 \in read + 1 .. read + 1
      /\ read + 1 - 1 = read /\ read + 1 \in Nat /\ read <= read + 1 /\ read + 1 - 1 < read + 1
  BY <1>5 DEF k
<1>8. Unread(line, Request, read + 1)
  BY <1>5, <1>7, UnreadLater
<1>9. Ended(line, found, read + 1)
  BY <1>4, <1>5, <1>7, EndedGrows
<1>10. SubSeq(line, read + 1, read + 1 - 1) = <<>>
  <2>1. read + 1 \in Int /\ read \in Int /\ read < read + 1
    BY <1>5
  <2>2. SubSeq(line, read + 1, read) = <<>>
    BY <2>1, SubSeqEmpty
  <2> QED BY <1>7, <2>2
<1>11. Scanned(Request, read, read + 1, <<>>)
  BY <1>5, ScanStart
<1>12. ScanInv'
  BY <1>1, <1>2, <1>3, <1>6, <1>7, <1>8 DEF ScanInv, k
<1>13. QuotedInv'
  <2>1. Decoded' = <<>> /\ <<>> \in Seq(Characters)
    BY <1>1, <1>10, EmptySeq DEF Decoded
  <2>2. token' - 1 = read /\ Request[read] = Quote
    BY <1>1, <1>5, <1>7
  <2>3. ReadsOn(TokensIn(line, found), token - 1)'
    BY <1>1, <1>4, <1>6, <2>2 DEF ReadsOn
  <2>4. Scanned(Request', token' - 1, read', Decoded')
    BY <1>1, <1>6, <1>11, <2>1, <2>2
  <2>5. token' \in 2 .. Len(Request') + 1 /\ write' \in token' .. read'
    BY <1>1, <1>6, <1>7 DEF k
  <2>6. Ended(line', found', token')
    BY <1>1, <1>9
  <2> QED BY <1>6, <2>1, <2>2, <2>3, <2>4, <2>5, <2>6 DEF QuotedInv
<1>14. IdleInv' /\ StartInv' /\ TokenInv' /\ PlainInv' /\ NextInv' /\ EndInv' /\ ParsesAsGrammar'
  BY <1>1 DEF IdleInv, StartInv, TokenInv, PlainInv, NextInv, EndInv, ParsesAsGrammar
<1> QED BY <1>12, <1>13, <1>14 DEF Inv

LEMMA SubSeqSame ==
  ASSUME NEW B, NEW l \in Seq(B), NEW k, NEW m \in 1 .. Len(l), NEW n \in m - 1 .. Len(l),
         \A i \in m .. n : k[i] = l[i]
  PROVE  SubSeq(k, m, n) = SubSeq(l, m, n)
<1>0. Len(l) \in Nat /\ m \in Int /\ n \in Int
  BY LenProperties
<1>1. \A i \in m .. n : l[i] \in B /\ k[i] \in B
  <2>1. \A i \in m .. n : l[i] \in B
    BY <1>0, ElementOfSeq
  <2> QED BY <2>1
<1> DEFINE s == SubSeq(l, m, n)
           u == SubSeq(k, m, n)
<1>2. /\ s \in Seq(B) /\ Len(s) = IF m <= n THEN n - m + 1 ELSE 0
      /\ \A i \in 1 .. n - m + 1 : s[i] = l[m + i - 1]
  BY <1>0, <1>1, SubSeqProperties
<1>3. /\ u \in Seq(B) /\ Len(u) = IF m <= n THEN n - m + 1 ELSE 0
      /\ \A i \in 1 .. n - m + 1 : u[i] = k[m + i - 1]
  BY <1>0, <1>1, SubSeqProperties
<1> HIDE DEF s, u
<1>4. Len(s) = n - m + 1 /\ Len(u) = n - m + 1
  BY <1>0, <1>2, <1>3
<1>5. ASSUME NEW i \in 1 .. n - m + 1 PROVE u[i] = s[i]
  <2>1. m + i - 1 \in m .. n
    BY <1>0
  <2>2. k[m + i - 1] = l[m + i - 1]
    BY <2>1
  <2> QED BY <1>2, <1>3, <2>2
<1>6. u = s
  BY <1>2, <1>3, <1>4, <1>5, SeqEqual
<1> QED BY <1>6 DEF s, u

LEMMA CopyKeeps ==
  ASSUME Inv, pc = "quoted", NEW r \in read .. Len(Request), Copy(r),
         Scanned(Request, token - 1, r + 1, Decoded \o <<Request[r]>>)
  PROVE  Inv'
<1> DEFINE R == Request
           k == Len(Request)
           l == line'
<1>1. /\ line' = [line EXCEPT ![write] = line[r]] /\ read' = r + 1 /\ write' = write + 1
      /\ text' = text /\ pc' = pc /\ token' = token /\ found' = found
  BY DEF Copy
<1>2. ScanInv /\ QuotedInv
  BY DEF Inv
<1>3. pc \in {"token", "plain", "quoted", "next"}
  OBVIOUS
<1>4. /\ R \in Seq(Characters) /\ k \in Nat /\ Len(text) \in Nat /\ k <= Len(text)
      /\ \A n \in 1 .. k : R[n] # NUL /\ R[n] \in Characters
      /\ IsLine(line) /\ Len(line) = Len(text) + 1 /\ Len(line) \in Nat
      /\ read \in 1 .. k + 1 /\ read \in Nat /\ Unread(line, R, read)
      /\ text \in Seq(Characters) /\ InLimits /\ Len(found) <= MaxArgs
  BY <1>2, <1>3, Scanning
<1>5. /\ token \in 2 .. k + 1 /\ write \in token .. read
      /\ R[token - 1] = Quote /\ Decoded \in Seq(Characters)
      /\ Ended(line, found, token) /\ ReadsOn(TokensIn(line, found), token - 1)
  BY <1>2 DEF QuotedInv
<1>6. Request' = Request /\ (InLimits => InLimits')
  BY <1>1, RequestStays
<1>7. r \in read .. k
  OBVIOUS
<1> HIDE DEF R, k, l
<1>8. /\ write \in 1 .. Len(line) /\ write # Len(line) /\ r \in 1 .. k /\ r \in read .. Len(line)
      /\ write <= r /\ token \in 1 .. Len(line) /\ token \in 1 .. Len(line) + 1 /\ r \in Nat
  BY <1>4, <1>5, <1>7
<1>9. line[r] = R[r]
  <2>1. line[r] = IF r <= Len(R) THEN R[r] ELSE NUL
    BY <1>4, <1>8 DEF Unread
  <2>2. r <= Len(R)
    BY <1>4, <1>8 DEF R, k
  <2> QED BY <2>1, <2>2
<1>10. line[r] \in Bytes
  BY <1>4, <1>8, <1>9 DEF Bytes
<1>11. /\ IsLine(l) /\ Len(l) = Len(line)
       /\ \A j \in 1 .. Len(line) : l[j] = IF j = write THEN line[r] ELSE line[j]
  <2>1. Stores(line, write, line[r], l)
    BY <1>1 DEF Stores, l
  <2>2. IsLine(line) /\ write \in 1 .. Len(line) /\ (write # Len(line) \/ line[r] = NUL)
    BY <1>4, <1>8
  <2> QED BY <1>10, <2>1, <2>2, LineWrites
<1>12. Unread(l, R, r + 1)
  <2>1. ASSUME NEW n \in r + 1 .. Len(l)
        PROVE  l[n] = IF n <= Len(R) THEN R[n] ELSE NUL
    <3>1. n \in 1 .. Len(line) /\ n # write /\ n \in read .. Len(line)
      BY <1>4, <1>7, <1>8, <1>11
    <3>2. l[n] = line[n]
      BY <1>11, <3>1
    <3> QED BY <1>4, <3>1, <3>2 DEF Unread
  <2> QED BY <2>1 DEF Unread
<1>13. Ended(l, found, token) /\ TokensIn(l, found) = TokensIn(line, found)
  <2>1. ASSUME NEW n \in 1 .. token - 1 PROVE l[n] = line[n]
    <3>0. write \in Nat /\ token \in Nat /\ token <= write /\ token <= Len(line) /\ Len(line) \in Nat
      BY <1>4, <1>5, <1>8
    <3>1. n \in 1 .. Len(line) /\ n # write
      BY <3>0
    <3> QED BY <1>11, <3>1
  <2> QED BY <1>4, <1>5, <1>8, <1>11, <2>1, EndedStable
<1>14. SubSeq(l, token, write) = Decoded \o <<R[r]>>
  <2>1. l \in Seq(Bytes) /\ line \in Seq(Bytes)
    BY <1>4, <1>11 DEF IsLine
  <2>2. write \in token .. Len(l) /\ token \in 1 .. Len(l) /\ write - 1 \in token - 1 .. Len(line)
    BY <1>4, <1>5, <1>8, <1>11
  <2>3. SubSeq(l, token, write) = SubSeq(l, token, write - 1) \o <<l[write]>>
    BY <2>1, <2>2, SubSeqRecursiveSecond
  <2>4. ASSUME NEW i \in token .. write - 1 PROVE l[i] = line[i]
    <3>1. i \in 1 .. Len(line) /\ i # write
      BY <1>4, <1>5, <1>8
    <3> QED BY <1>11, <3>1
  <2>5. SubSeq(l, token, write - 1) = SubSeq(line, token, write - 1)
    BY <1>8, <1>11, <2>1, <2>2, <2>4, SubSeqSame
  <2>6. l[write] = R[r]
    BY <1>8, <1>9, <1>11
  <2> QED BY <2>3, <2>5, <2>6 DEF Decoded
<1>15. Decoded' = Decoded \o <<R[r]>>
  <2>1. write' - 1 = write
    BY <1>1, <1>4, <1>5
  <2>2. Decoded' = SubSeq(line', token', write' - 1)
    BY DEF Decoded
  <2> QED BY <1>1, <1>14, <2>1, <2>2 DEF l
<1>16. Decoded' \in Seq(Characters)
  <2>1. <<R[r]>> \in Seq(Characters)
    BY <1>4, <1>8
  <2>2. Decoded \o <<R[r]>> \in Seq(Characters)
    BY <1>5, <2>1, ConcatProperties
  <2> QED BY <1>15, <2>2
<1>17. ScanInv'
  <2>1. r + 1 \in 1 .. k + 1
    BY <1>4, <1>8
  <2> QED BY <1>1, <1>4, <1>6, <1>11, <1>12, <2>1 DEF ScanInv, l, R, k
<1>18. QuotedInv'
  <2>1. write' \in token' .. read' /\ token' \in 2 .. k + 1
    <3>1. write' = write + 1 /\ read' = r + 1 /\ token' = token
      BY <1>1
    <3>2. write \in Nat /\ token \in Nat /\ r \in Nat /\ token <= write /\ write <= r
      BY <1>4, <1>5, <1>8
    <3>3. write + 1 \in token .. r + 1
      BY <3>2
    <3> QED BY <1>5, <3>1, <3>3
  <2>2. Scanned(Request', token' - 1, read', Decoded')
    BY <1>1, <1>6, <1>15 DEF R
  <2>3. ReadsOn(TokensIn(line, found), token - 1)'
    BY <1>1, <1>5, <1>6, <1>13 DEF ReadsOn, l
  <2>4. Ended(line', found', token')
    BY <1>1, <1>13 DEF l
  <2>5. Request'[token' - 1] = Quote
    BY <1>1, <1>5, <1>6 DEF R
  <2> QED BY <1>6, <1>16, <2>1, <2>2, <2>3, <2>4, <2>5 DEF QuotedInv, k
<1>19. pc' = "quoted"
  BY <1>1
<1>20. IdleInv' /\ StartInv' /\ TokenInv' /\ PlainInv' /\ NextInv' /\ EndInv' /\ ParsesAsGrammar'
  BY <1>19 DEF IdleInv, StartInv, TokenInv, PlainInv, NextInv, EndInv, ParsesAsGrammar
<1> QED BY <1>17, <1>18, <1>20 DEF Inv

\* What QuotedInv says, with the facts of ScanInv.
LEMMA InQuotes ==
  ASSUME Inv, pc = "quoted"
  PROVE  /\ token \in 2 .. Len(Request) + 1 /\ token - 1 \in 1 .. Len(Request)
         /\ read \in token - 1 + 1 .. Len(Request) + 1 /\ read \in token .. Len(Request) + 1
         /\ write \in token .. read /\ token \in Nat /\ read \in Nat /\ write \in Nat
         /\ Request[token - 1] = Quote /\ Decoded \in Seq(Characters)
         /\ Scanned(Request, token - 1, read, Decoded)
         /\ Ended(line, found, token) /\ ReadsOn(TokensIn(line, found), token - 1)
<1>1. ScanInv /\ QuotedInv
  BY DEF Inv
<1>2. pc \in {"token", "plain", "quoted", "next"}
  OBVIOUS
<1> DEFINE k == Len(Request)
<1>3. k \in Nat /\ read \in 1 .. k + 1
  BY <1>1, <1>2, Scanning
<1>4. /\ token \in 2 .. k + 1 /\ write \in token .. read
      /\ Request[token - 1] = Quote /\ Decoded \in Seq(Characters)
      /\ Scanned(Request, token - 1, read, Decoded)
      /\ Ended(line, found, token) /\ ReadsOn(TokensIn(line, found), token - 1)
  BY <1>1 DEF QuotedInv
<1> HIDE DEF k
<1>5. /\ token - 1 \in 1 .. k /\ read \in token - 1 + 1 .. k + 1 /\ read \in token .. k + 1
      /\ token \in Nat /\ read \in Nat /\ write \in Nat
  BY <1>3, <1>4
<1> QED BY <1>4, <1>5 DEF k

LEMMA CopyCharKeeps ==
  ASSUME Inv, CopyChar
  PROVE  Inv'
<1>1. pc = "quoted" /\ line[read] \notin {NUL, Quote, Backslash} /\ Copy(read)
  BY DEF CopyChar
<1>2. pc \in {"token", "plain", "quoted", "next"} /\ line[read] # NUL /\ ScanInv
  BY <1>1 DEF Inv
<1>3. read \in 1 .. Len(Request) /\ line[read] = Request[read] /\ Request \in Seq(Characters)
      /\ Len(Request) \in Nat
  BY <1>2, Scanning
<1>4. /\ token - 1 \in 1 .. Len(Request) /\ read \in token - 1 + 1 .. Len(Request) + 1
      /\ Decoded \in Seq(Characters) /\ Scanned(Request, token - 1, read, Decoded)
  BY <1>1, InQuotes
<1> DEFINE p == token - 1
           k == Len(Request)
<1> HIDE DEF p, k
<1>5. read \in p + 1 .. k /\ read \in read .. k
  <2>1. p \in 1 .. k /\ read \in p + 1 .. k + 1 /\ read \in 1 .. k /\ k \in Nat
    BY <1>3, <1>4 DEF p, k
  <2> QED BY <2>1
<1>6. Request[read] \notin {Quote, Backslash}
  BY <1>1, <1>3
<1>7. Scanned(Request, p, read + 1, Decoded \o <<Request[read]>>)
  BY <1>3, <1>4, <1>5, <1>6, ScanChar DEF p, k
<1> QED BY <1>1, <1>5, <1>7, CopyKeeps DEF p, k

LEMMA CopyEscapedKeeps ==
  ASSUME Inv, CopyEscaped
  PROVE  Inv'
<1>1. /\ pc = "quoted" /\ line[read] = Backslash
      /\ line[read + 1] \in {Quote, Backslash} /\ Copy(read + 1)
  BY DEF CopyEscaped, MayEscape
<1>2. pc \in {"token", "plain", "quoted", "next"} /\ line[read] # NUL /\ line[read + 1] # NUL /\ ScanInv
  BY <1>1 DEF Inv, Quote, Backslash, NUL
<1> DEFINE p == token - 1
           k == Len(Request)
           R == Request
<1>3. /\ read \in 1 .. k /\ line[read] = R[read] /\ R \in Seq(Characters)
      /\ k \in Nat /\ k <= Len(text) /\ Len(text) \in Nat /\ Len(line) = Len(text) + 1
      /\ Unread(line, R, read) /\ \A n \in 1 .. k : R[n] # NUL
  BY <1>2, Scanning
<1>4. /\ p \in 1 .. k /\ read \in p + 1 .. k + 1
      /\ Decoded \in Seq(Characters) /\ Scanned(R, p, read, Decoded)
  BY <1>1, InQuotes
<1>5. k = Len(R)
  OBVIOUS
<1> HIDE DEF p, k, R
<1>6. /\ read \in p + 1 .. k /\ read \in Nat \ {0} /\ read + 1 \in read .. Len(line)
      /\ Len(line) \in Nat /\ Len(R) \in Nat
  BY <1>3, <1>4, <1>5
<1>7. read + 1 \in 1 .. k /\ line[read + 1] = R[read + 1]
  BY <1>2, <1>3, <1>5, <1>6, UnreadIs
<1>8. read < k /\ read + 1 \in read .. k
  BY <1>3, <1>7
<1>9. Scanned(R, p, read + 2, Decoded \o <<R[read + 1]>>)
  BY <1>1, <1>3, <1>4, <1>5, <1>6, <1>7, <1>8, ScanEscape
<1>10. read + 1 + 1 = read + 2
  BY <1>3
<1> QED BY <1>1, <1>8, <1>9, <1>10, CopyKeeps DEF p, k, R

LEMMA QuotedRejects ==
  ASSUME Inv, pc = "quoted", Reject,
         \/ read = Len(Request) + 1
         \/ /\ read # Len(Request) + 1 /\ Request[read] = Backslash
            /\ read = Len(Request) \/ Request[read + 1] \notin {Quote, Backslash}
         \/ /\ read # Len(Request) + 1 /\ Request[read] = Quote
            /\ read # Len(Request) /\ Request[read + 1] \notin Separators
  PROVE  Inv'
<1>1. pc \in {"token", "plain", "quoted", "next"} /\ ScanInv
  BY DEF Inv
<1>2. /\ Request \in Seq(Characters) /\ Len(Request) \in Nat /\ IsLine(line)
      /\ read \in 1 .. Len(line)
  BY <1>1, Scanning
<1>3. /\ token - 1 \in 1 .. Len(Request) /\ read \in token - 1 + 1 .. Len(Request) + 1
      /\ Request[token - 1] = Quote /\ Decoded \in Seq(Characters)
      /\ Scanned(Request, token - 1, read, Decoded) /\ ReadsOn(TokensIn(line, found), token - 1)
  BY InQuotes
<1>4. Reads(Request)[token - 1] = {}
  BY <1>2, <1>3, QuotedBreaks
<1>5. ~(InLimits /\ \E r \in Readings(Request) : IsRequest(r))
  BY <1>3, <1>4, NoReading
<1> QED BY <1>2, <1>5, RejectKeeps

\* The character behind read, if read is in the request.
LEMMA NextChar ==
  ASSUME ScanInv, pc \in {"token", "plain", "quoted", "next"}, read \in 1 .. Len(Request)
  PROVE  /\ read + 1 \in 1 .. Len(line) /\ read + 1 \in 1 .. Len(Request) + 1
         /\ Unread(line, Request, read + 1)
         /\ line[read + 1] = NUL => read = Len(Request)
         /\ line[read + 1] # NUL => read # Len(Request) /\ line[read + 1] = Request[read + 1]
                                    /\ read + 1 \in 1 .. Len(Request)
<1> DEFINE R == Request
           k == Len(Request)
<1>1. /\ k \in Nat /\ Len(text) \in Nat /\ k <= Len(text) /\ Len(line) = Len(text) + 1
      /\ read \in Nat /\ Unread(line, R, read) /\ \A n \in 1 .. k : R[n] # NUL
  BY Scanning
<1>2. k = Len(R) /\ read \in 1 .. k
  OBVIOUS
<1> HIDE DEF R, k
<1>3. /\ read + 1 \in 1 .. Len(line) /\ read + 1 \in 1 .. k + 1 /\ read \in Nat \ {0}
      /\ read + 1 \in read .. Len(line) /\ Len(line) \in Nat /\ Len(R) \in Nat
      /\ read + 1 \in Nat /\ read <= read + 1
  BY <1>1, <1>2
<1>4. Unread(line, R, read + 1)
  BY <1>1, <1>3, UnreadLater
<1>5. /\ line[read + 1] = NUL => read + 1 > Len(R)
      /\ line[read + 1] # NUL => read + 1 \in 1 .. Len(R) /\ line[read + 1] = R[read + 1]
  BY <1>1, <1>2, <1>3, UnreadIs
<1>6. /\ line[read + 1] = NUL => read = k
      /\ line[read + 1] # NUL => read # k
  BY <1>1, <1>2, <1>5
<1> QED BY <1>2, <1>3, <1>4, <1>5, <1>6 DEF R, k

LEMMA BadEscapeKeeps ==
  ASSUME Inv, BadEscape
  PROVE  Inv'
<1>1. /\ pc = "quoted" /\ line[read] = Backslash
      /\ line[read + 1] \notin {Quote, Backslash} /\ Reject
  BY DEF BadEscape, MayEscape
<1>2. pc \in {"token", "plain", "quoted", "next"} /\ line[read] # NUL /\ ScanInv
  BY <1>1 DEF Inv, Backslash, NUL
<1>3. read \in 1 .. Len(Request) /\ line[read] = Request[read] /\ Len(Request) \in Nat
  BY <1>2, Scanning
<1>4. /\ line[read + 1] = NUL => read = Len(Request)
      /\ line[read + 1] # NUL => line[read + 1] = Request[read + 1]
  BY <1>2, <1>3, NextChar
<1>5. read = Len(Request) \/ Request[read + 1] \notin {Quote, Backslash}
  BY <1>1, <1>4
<1>6. read # Len(Request) + 1 /\ Request[read] = Backslash
  BY <1>1, <1>3
<1> QED BY <1>1, <1>5, <1>6, QuotedRejects

LEMMA QuoteOpenKeeps ==
  ASSUME Inv, QuoteOpen
  PROVE  Inv'
<1>1. pc = "quoted" /\ line[read] = NUL /\ Reject
  BY DEF QuoteOpen
<1>2. pc \in {"token", "plain", "quoted", "next"} /\ ScanInv
  BY <1>1 DEF Inv
<1>3. read = Len(Request) + 1
  BY <1>1, <1>2, Scanning
<1> QED BY <1>1, <1>3, QuotedRejects

LEMMA TextAfterQuoteKeeps ==
  ASSUME Inv, TextAfterQuote
  PROVE  Inv'
<1>1. /\ pc = "quoted" /\ line[read] = Quote
      /\ line[read + 1] # NUL /\ line[read + 1] \notin Separators /\ Reject
  BY DEF TextAfterQuote, EndsToken
<1>2. pc \in {"token", "plain", "quoted", "next"} /\ line[read] # NUL /\ ScanInv
  BY <1>1 DEF Inv, Quote, NUL
<1>3. read \in 1 .. Len(Request) /\ line[read] = Request[read] /\ Len(Request) \in Nat
  BY <1>2, Scanning
<1>4. read # Len(Request) /\ line[read + 1] = Request[read + 1]
  BY <1>1, <1>2, <1>3, NextChar
<1>5. read # Len(Request) + 1 /\ Request[read] = Quote /\ Request[read + 1] \notin Separators
  BY <1>1, <1>3, <1>4
<1> QED BY <1>1, <1>4, <1>5, QuotedRejects

\* Separators are skipped in the line as in the text.
LEMMA SkipReads ==
  ASSUME NEW l, IsLine(l), NEW R \in Seq(Characters), Len(R) < Len(l),
         \A n \in 1 .. Len(R) : R[n] # NUL,
         NEW p \in 1 .. Len(R) + 1, Unread(l, R, p), NEW q, q = SkipSeparators(l, p)
  PROVE  /\ q \in p .. Len(R) + 1 /\ l[q] \notin Separators /\ Unread(l, R, q)
         /\ Reads(R)[p] = Reads(R)[q]
<1> DEFINE k == Len(R)
<1>0. k \in Nat /\ Len(l) \in Nat /\ k < Len(l)
  BY LenProperties DEF IsLine
<1>1. p \in 1 .. k + 1
  OBVIOUS
<1> HIDE DEF k
<1>2. p \in 1 .. Len(l) /\ p \in Nat /\ p \in Nat \ {0}
  BY <1>0, <1>1
<1>3. q \in p .. Len(l) /\ l[q] \notin Separators /\ \A n \in p .. q - 1 : l[n] \in Separators
  BY <1>2, SkipIs
<1>4. ASSUME NEW n \in p .. q - 1 PROVE n \in 1 .. k /\ R[n] \in Separators
  <2>1. n \in p .. Len(l)
    BY <1>0, <1>2, <1>3
  <2>2. l[n] \in Separators
    BY <1>3
  <2>3. l[n] # NUL
    BY <2>2 DEF NUL, Separators
  <2>4. n \in 1 .. Len(R) /\ l[n] = R[n]
    BY <1>0, <1>2, <2>1, <2>3, UnreadIs DEF k
  <2> QED BY <2>2, <2>4 DEF k
<1>5. q \in p .. k + 1
  <2>1. ~(q > k + 1)
    <3>1. SUFFICES ASSUME q > k + 1 PROVE FALSE
      OBVIOUS
    <3>2. k + 1 \in p .. q - 1
      BY <1>0, <1>1, <1>3, <3>1
    <3>3. k + 1 \in 1 .. k
      BY <1>4, <3>2
    <3> QED BY <1>0, <3>3
  <2> QED BY <1>0, <1>1, <1>3, <2>1
<1>6. Unread(l, R, q)
  <2>1. q \in Nat /\ p <= q
    BY <1>0, <1>2, <1>5
  <2> QED BY <1>0, <1>2, <2>1, UnreadLater
<1>7. Reads(R)[p] = Reads(R)[q]
  BY <1>1, <1>4, <1>5, ReadsSkipAll DEF k
<1> QED BY <1>3, <1>5, <1>6, <1>7 DEF k

LEMMA CloseKeeps ==
  ASSUME Inv, pc \in {"plain", "quoted"}, pc' = "next", text' = text, found' = found, token' = token,
         IsLine(line'), Len(line') = Len(line), \A n \in 1 .. token - 1 : line'[n] = line[n],
         token \in 1 .. Len(line), Ended(line, found, token), EndIn(line', token) <= read',
         read' \in 1 .. Len(Request) + 1, line'[read'] \notin Separators,
         Unread(line', Request, read'),
         NEW p, ReadsOn(TokensIn(line, found), p),
         Reads(Request)[p] = Behind(<<StringIn(line', token)>>, Reads(Request)[read'])
  PROVE  Inv'
<1> DEFINE R == Request
           l == line'
           s == StringIn(line', token)
           T == TokensIn(line, found)
<1>1. pc \in {"token", "plain", "quoted", "next"} /\ ScanInv
  BY DEF Inv
<1>2. /\ R \in Seq(Characters) /\ IsLine(line) /\ Len(line) = Len(text) + 1 /\ Len(line) \in Nat
      /\ text \in Seq(Characters) /\ InLimits /\ Len(found) <= MaxArgs
  BY <1>1, Scanning
<1>3. Request' = Request /\ (InLimits => InLimits')
  BY RequestStays
<1>4. Ended(l, found, token) /\ TokensIn(l, found) = T
  <2>1. token \in 1 .. Len(line) + 1
    BY <1>2
  <2> QED BY <1>2, <2>1, EndedStable
<1>5. s \in Seq(Characters)
  <2>1. token \in 1 .. Len(l)
    OBVIOUS
  <2> QED BY <2>1, StringInIs
<1>6. T \in Seq(Seq(Characters))
  <2>1. found \in Seq(1 .. Len(line))
    BY DEF Ended
  <2> QED BY <1>2, <2>1, TokensTyped
<1>7. Reads(R)[read'] \subseteq Seq(Seq(Characters))
  BY <1>2, ReadsTyped
<1>8. Readings(R) = Behind(T, Reads(R)[p]) /\ Reads(R)[p] = Behind(<<s>>, Reads(R)[read'])
  BY DEF ReadsOn
<1> HIDE DEF R, l, s, T
<1>9. Readings(R) = Behind(T \o <<s>>, Reads(R)[read'])
  BY <1>5, <1>6, <1>7, <1>8, BehindSteps
<1>10. ScanInv'
  BY <1>2, <1>3 DEF ScanInv
<1>11. NextInv'
  <2>1. TokensIn(line', found') = T /\ StringIn(line', token') = s
    BY <1>4 DEF l, s
  <2>2. ReadsOn(TokensIn(line, found) \o <<StringIn(line, token)>>, read)'
    BY <1>3, <1>9, <2>1 DEF ReadsOn, R
  <2>3. Ended(line', found', token')
    BY <1>4 DEF l
  <2> QED BY <2>2, <2>3 DEF NextInv
<1>12. IdleInv' /\ StartInv' /\ TokenInv' /\ PlainInv' /\ QuotedInv' /\ EndInv' /\ ParsesAsGrammar'
  BY DEF IdleInv, StartInv, TokenInv, PlainInv, QuotedInv, EndInv, ParsesAsGrammar
<1> QED BY <1>10, <1>11, <1>12 DEF Inv

LEMMA CloseQuotedKeeps ==
  ASSUME Inv, CloseQuoted
  PROVE  Inv'
<1> DEFINE R == Request
           k == Len(Request)
           l == line'
           q == read'
           p == token - 1
<1>1. /\ pc = "quoted" /\ line[read] = Quote /\ (line[read + 1] = NUL \/ line[read + 1] \in Separators)
      /\ line' = [line EXCEPT ![write] = NUL] /\ read' = SkipSeparators(line', read + 1)
      /\ pc' = "next" /\ text' = text /\ token' = token /\ found' = found
  BY DEF CloseQuoted, EndsToken
<1>2. pc \in {"token", "plain", "quoted", "next"} /\ line[read] # NUL /\ ScanInv
  BY <1>1 DEF Inv, Quote, NUL
<1>3. /\ read \in 1 .. k /\ line[read] = R[read] /\ R \in Seq(Characters) /\ k \in Nat
      /\ k <= Len(text) /\ Len(text) \in Nat /\ Len(line) = Len(text) + 1 /\ Len(line) \in Nat
      /\ IsLine(line) /\ \A n \in 1 .. k : R[n] # NUL
  BY <1>2, Scanning
<1>4. /\ token \in 2 .. k + 1 /\ p \in 1 .. k /\ read \in p + 1 .. k + 1
      /\ write \in token .. read /\ token \in Nat /\ write \in Nat
      /\ R[p] = Quote /\ Decoded \in Seq(Characters)
      /\ Scanned(R, p, read, Decoded)
      /\ Ended(line, found, token) /\ ReadsOn(TokensIn(line, found), p)
  BY <1>1, InQuotes
<1>5. /\ read + 1 \in 1 .. Len(line) /\ read + 1 \in 1 .. k + 1 /\ Unread(line, R, read + 1)
      /\ line[read + 1] = NUL => read = k
      /\ line[read + 1] # NUL => line[read + 1] = R[read + 1]
  BY <1>2, <1>3, NextChar
<1>6. k = Len(R)
  OBVIOUS
<1> HIDE DEF R, k, l, q, p
<1>7. Reads(R)[p] = Behind(<<Decoded>>, Reads(R)[read + 1])
  <2>1. read \in p + 1 .. Len(R)
    BY <1>3, <1>4, <1>6
  <2>2. read = Len(R) \/ R[read + 1] \in Separators
    BY <1>1, <1>5, <1>6
  <2>3. p \in 1 .. Len(R) /\ R[p] = Quote /\ R[read] = Quote
    BY <1>1, <1>3, <1>4, <1>6
  <2> QED BY <1>3, <1>4, <2>1, <2>2, <2>3, QuotedReads, Zenon
<1>8. /\ write \in 1 .. Len(line) /\ write <= read /\ token \in 1 .. Len(line)
      /\ token <= write /\ read <= k /\ k < Len(line) /\ read \in Nat
  <2>1. /\ read \in 1 .. k /\ k \in Nat /\ token \in 2 .. k + 1 /\ write \in token .. read
        /\ token \in Nat /\ write \in Nat
    BY <1>3, <1>4
  <2>2. k < Len(line) /\ Len(line) \in Nat
    BY <1>3
  <2> QED BY <2>1, <2>2
<1>9. /\ IsLine(l) /\ Len(l) = Len(line)
      /\ \A j \in 1 .. Len(line) : l[j] = IF j = write THEN NUL ELSE line[j]
  <2>1. Stores(line, write, NUL, l)
    BY <1>1 DEF Stores, l
  <2>2. NUL \in Bytes
    BY DEF Bytes
  <2>3. IsLine(line) /\ write \in 1 .. Len(line) /\ (write # Len(line) \/ NUL = NUL)
    BY <1>3, <1>8
  <2> QED BY <2>1, <2>2, <2>3, LineWrites
<1>10. Unread(l, R, read + 1)
  <2>1. ASSUME NEW n \in read + 1 .. Len(l)
        PROVE  l[n] = IF n <= Len(R) THEN R[n] ELSE NUL
    <3>1. n \in 1 .. Len(line) /\ n # write /\ n \in read + 1 .. Len(line)
      BY <1>3, <1>4, <1>8, <1>9
    <3>2. l[n] = line[n]
      BY <1>9, <3>1
    <3> QED BY <1>5, <3>1, <3>2 DEF Unread
  <2> QED BY <2>1 DEF Unread
<1>11. /\ q \in read + 1 .. k + 1 /\ l[q] \notin Separators /\ Unread(l, R, q)
       /\ Reads(R)[read + 1] = Reads(R)[q]
  <2>1. q = SkipSeparators(l, read + 1) /\ Len(R) < Len(l) /\ read + 1 \in 1 .. Len(R) + 1
    BY <1>1, <1>5, <1>6, <1>8, <1>9 DEF l, q
  <2> QED BY <1>3, <1>6, <1>9, <1>10, <2>1, SkipReads
<1>12. \A n \in token .. write - 1 : n \in 1 .. Len(line) /\ n # write
  <2>1. write \in 1 .. Len(line) /\ token \in 1 .. Len(line) /\ Len(line) \in Nat
    BY <1>3, <1>8
  <2> QED BY <2>1
<1>13. \A n \in token .. write - 1 : l[n] = line[n]
  BY <1>9, <1>12
<1>14. SubSeq(l, token, write - 1) = Decoded
  <2>1. line \in Seq(Bytes)
    BY <1>3 DEF IsLine
  <2>2. write - 1 \in token - 1 .. Len(line)
    BY <1>3, <1>4, <1>8
  <2>3. SubSeq(l, token, write - 1) = SubSeq(line, token, write - 1)
    BY <1>8, <1>13, <2>1, <2>2, SubSeqSame
  <2> QED BY <2>3 DEF Decoded
<1>15. EndIn(l, token) = write
  <2>1. ASSUME NEW n \in token .. write - 1 PROVE l[n] # NUL
    <3> DEFINE i == n - token + 1
    <3>1. /\ i \in 1 .. write - 1 - token + 1 /\ token + i - 1 = n /\ token <= write - 1
      BY <1>4
    <3>2. \A j \in token .. write - 1 : line[j] \in Bytes
      <4>1. line \in Seq(Bytes)
        BY <1>3 DEF IsLine
      <4> QED BY <1>12, <4>1, ElementOfSeq
    <3>3. /\ Len(Decoded) = IF token <= write - 1 THEN write - 1 - token + 1 ELSE 0
          /\ \A j \in 1 .. write - 1 - token + 1 : Decoded[j] = line[token + j - 1]
      <4>1. token \in Int /\ write - 1 \in Int
        BY <1>4
      <4> QED BY <3>2, <4>1, SubSeqProperties DEF Decoded
    <3> HIDE DEF i
    <3>4. Decoded[i] = line[n] /\ i \in 1 .. Len(Decoded)
      BY <3>1, <3>3
    <3>5. Decoded[i] \in Characters
      BY <1>4, <3>4, ElementOfSeq
    <3>6. l[n] = line[n]
      BY <1>13
    <3> QED BY <3>4, <3>5, <3>6, UpperAssumption
  <2>2. l[write] = NUL
    BY <1>8, <1>9
  <2>3. token \in 1 .. Len(l) /\ write \in token .. Len(l)
    BY <1>3, <1>4, <1>8, <1>9
  <2> QED BY <1>9, <2>1, <2>2, <2>3, EndInUnique
<1>16. StringIn(l, token) = Decoded
  BY <1>14, <1>15 DEF StringIn
<1>17. Reads(R)[p] = Behind(<<StringIn(l, token)>>, Reads(R)[q])
  BY <1>7, <1>11, <1>16
<1>18. EndIn(l, token) <= q /\ q \in 1 .. k + 1
  BY <1>3, <1>4, <1>8, <1>11, <1>15
<1>19. ASSUME NEW n \in 1 .. token - 1 PROVE l[n] = line[n]
  <2>1. n \in 1 .. Len(line) /\ n # write
    <3>1. /\ token \in Nat /\ write \in Nat /\ Len(line) \in Nat
          /\ token <= write /\ write <= Len(line)
      BY <1>3, <1>4, <1>8
    <3> QED BY <3>1
  <2> QED BY <1>9, <2>1
<1>20. pc \in {"plain", "quoted"}
  BY <1>1
<1> QED BY <1>1, <1>4, <1>8, <1>9, <1>11, <1>17, <1>18, <1>19, <1>20, CloseKeeps DEF R, k, l, q

\* What PlainInv says, with the facts of ScanInv.
LEMMA InPlain ==
  ASSUME Inv, pc = "plain"
  PROVE  /\ token \in 1 .. Len(Request) /\ read \in token .. Len(Request) + 1 /\ token \in Nat
         /\ Unread(line, Request, token) /\ Request[token] \notin Separators \cup {Quote}
         /\ \A n \in token .. read - 1 : Request[n] \notin Separators \cup {Quote}
         /\ Ended(line, found, token) /\ ReadsOn(TokensIn(line, found), token)
         /\ \A n \in token .. Len(Request) : line[n] = Request[n]
<1>1. ScanInv /\ PlainInv /\ pc \in {"token", "plain", "quoted", "next"}
  BY DEF Inv
<1> DEFINE k == Len(Request)
           R == Request
<1>2. k \in Nat /\ read \in 1 .. k + 1 /\ k <= Len(text) /\ Len(text) \in Nat /\ Len(line) = Len(text) + 1
  BY <1>1, Scanning
<1>3. /\ token \in 1 .. k /\ token <= read
      /\ Unread(line, R, token) /\ R[token] \notin Separators \cup {Quote}
      /\ \A n \in token .. read - 1 : R[n] \notin Separators \cup {Quote}
      /\ Ended(line, found, token) /\ ReadsOn(TokensIn(line, found), token)
  BY <1>1 DEF PlainInv
<1>4. k = Len(R)
  OBVIOUS
<1> HIDE DEF k, R
<1>5. read \in token .. k + 1 /\ token \in Nat
  BY <1>2, <1>3
<1>6. ASSUME NEW n \in token .. k PROVE line[n] = R[n]
  <2>1. n \in token .. Len(line) /\ n <= Len(R)
    BY <1>2, <1>3, <1>4
  <2> QED BY <1>3, <2>1 DEF Unread
<1> QED BY <1>3, <1>5, <1>6 DEF k, R

LEMMA PlainCharKeeps ==
  ASSUME Inv, PlainChar
  PROVE  Inv'
<1> DEFINE R == Request
           k == Len(Request)
<1>1. /\ pc = "plain" /\ line[read] # NUL /\ line[read] \notin Separators /\ line[read] # Quote
      /\ read' = read + 1
      /\ line' = line /\ text' = text /\ pc' = pc /\ token' = token /\ found' = found
  BY DEF PlainChar, EndsToken
<1>2. pc \in {"token", "plain", "quoted", "next"} /\ ScanInv
  BY <1>1 DEF Inv
<1>3. /\ read \in 1 .. k /\ line[read] = R[read] /\ k \in Nat
      /\ text \in Seq(Characters) /\ IsLine(line) /\ Len(line) = Len(text) + 1
      /\ InLimits /\ Len(found) <= MaxArgs
  BY <1>1, <1>2, Scanning
<1>4. /\ token \in 1 .. k /\ read \in token .. k + 1
      /\ Unread(line, R, token) /\ R[token] \notin Separators \cup {Quote}
      /\ \A n \in token .. read - 1 : R[n] \notin Separators \cup {Quote}
      /\ Ended(line, found, token) /\ ReadsOn(TokensIn(line, found), token)
  BY <1>1, InPlain
<1>5. Request' = Request /\ (InLimits => InLimits')
  BY <1>1, RequestStays
<1>6. Unread(line, R, read + 1)
  BY <1>2, <1>3, NextChar
<1> HIDE DEF R, k
<1>7. ASSUME NEW n \in token .. read + 1 - 1 PROVE R[n] \notin Separators \cup {Quote}
  <2>1. n = read \/ n \in token .. read - 1
    BY <1>3, <1>4
  <2>2. R[read] \notin Separators \cup {Quote}
    BY <1>1, <1>3
  <2> QED BY <1>4, <2>1, <2>2
<1>8. read + 1 \in 1 .. k + 1 /\ token <= read + 1
  BY <1>3, <1>4
<1>9. ScanInv'
  BY <1>1, <1>3, <1>5, <1>6, <1>8 DEF ScanInv, k, R
<1>10. PlainInv'
  <2>1. ReadsOn(TokensIn(line, found), token)'
    BY <1>1, <1>4, <1>5 DEF ReadsOn
  <2>2. ASSUME NEW n \in token' .. read' - 1 PROVE Request'[n] \notin Separators \cup {Quote}
    <3>1. token' = token /\ read' = read + 1 /\ Request' = R
      BY <1>1, <1>5 DEF R
    <3>2. n \in token .. read + 1 - 1
      BY <1>3, <3>1
    <3>3. R[n] \notin Separators \cup {Quote}
      BY <1>7, <3>2
    <3> QED BY <3>1, <3>3
  <2> QED BY <1>1, <1>4, <1>5, <1>8, <2>1, <2>2 DEF PlainInv, k, R
<1>11. pc' = "plain"
  BY <1>1
<1>12. IdleInv' /\ StartInv' /\ TokenInv' /\ QuotedInv' /\ NextInv' /\ EndInv' /\ ParsesAsGrammar'
  BY <1>11 DEF IdleInv, StartInv, TokenInv, QuotedInv, NextInv, EndInv, ParsesAsGrammar
<1> QED BY <1>9, <1>10, <1>12 DEF Inv

LEMMA QuoteInPlainKeeps ==
  ASSUME Inv, QuoteInPlain
  PROVE  Inv'
<1> DEFINE R == Request
           k == Len(Request)
<1>1. pc = "plain" /\ line[read] = Quote /\ Reject
  BY DEF QuoteInPlain
<1>2. pc \in {"token", "plain", "quoted", "next"} /\ ScanInv /\ line[read] # NUL
  BY <1>1 DEF Inv, Quote, NUL
<1>3. /\ read \in 1 .. k /\ line[read] = R[read] /\ k \in Nat /\ R \in Seq(Characters)
      /\ IsLine(line) /\ read \in 1 .. Len(line)
  BY <1>2, Scanning
<1>4. /\ token \in 1 .. k /\ read \in token .. k + 1
      /\ R[token] \notin Separators \cup {Quote}
      /\ \A n \in token .. read - 1 : R[n] \notin Separators \cup {Quote}
      /\ ReadsOn(TokensIn(line, found), token)
  BY <1>1, InPlain
<1>5. read # token
  BY <1>1, <1>3, <1>4
<1>6. k = Len(R)
  OBVIOUS
<1> HIDE DEF R, k
<1>7. read \in token + 1 .. k
  BY <1>3, <1>4, <1>5
<1>8. Reads(R)[token] = {}
  BY <1>1, <1>3, <1>4, <1>6, <1>7, PlainBreaks
<1>9. ~(InLimits /\ \E r \in Readings(Request) : IsRequest(r))
  BY <1>4, <1>8, NoReading DEF R
<1> QED BY <1>1, <1>3, <1>9, RejectKeeps

LEMMA ClosePlainKeeps ==
  ASSUME Inv, ClosePlain
  PROVE  Inv'
<1> DEFINE R == Request
           k == Len(Request)
           l == line'
           q == read'
<1>1. /\ pc = "plain" /\ (line[read] = NUL \/ line[read] \in Separators)
      /\ line' = [line EXCEPT ![read] = NUL]
      /\ read' = IF line[read] = NUL THEN read ELSE SkipSeparators(line', read + 1)
      /\ pc' = "next" /\ text' = text /\ token' = token /\ found' = found
  BY DEF ClosePlain, EndsToken, PlainEnd
<1>2. pc \in {"token", "plain", "quoted", "next"} /\ ScanInv
  BY <1>1 DEF Inv
<1>3. /\ R \in Seq(Characters) /\ k \in Nat
      /\ k <= Len(text) /\ Len(text) \in Nat /\ Len(line) = Len(text) + 1 /\ Len(line) \in Nat
      /\ IsLine(line) /\ \A n \in 1 .. k : R[n] # NUL
      /\ read \in 1 .. Len(line) /\ read \in Nat
      /\ line[read] = NUL => read = k + 1
      /\ line[read] # NUL => read \in 1 .. k /\ line[read] = R[read]
  BY <1>2, Scanning
<1>4. /\ token \in 1 .. k /\ read \in token .. k + 1 /\ token \in Nat
      /\ Unread(line, R, token) /\ R[token] \notin Separators \cup {Quote}
      /\ \A n \in token .. read - 1 : R[n] \notin Separators \cup {Quote}
      /\ Ended(line, found, token) /\ ReadsOn(TokensIn(line, found), token)
      /\ \A n \in token .. k : line[n] = R[n]
  BY <1>1, InPlain
<1>5. k = Len(R)
  OBVIOUS
<1> HIDE DEF R, k, l, q
<1>6. read # token
  <2>1. SUFFICES ASSUME read = token PROVE FALSE
    OBVIOUS
  <2>2. token \in token .. k /\ token \in 1 .. k
    BY <1>3, <1>4
  <2>3. line[read] = R[token] /\ R[token] # NUL
    BY <1>3, <1>4, <2>1, <2>2
  <2> QED BY <1>1, <1>4, <2>3
<1>7. read - 1 \in token .. k /\ read - 1 + 1 = read /\ read \in 1 .. k + 1 /\ token <= read
  BY <1>3, <1>4, <1>6
<1>8. read - 1 = k \/ (read \in 1 .. k /\ R[read] \in Separators)
  BY <1>1, <1>3
<1>9. Reads(R)[token] = Behind(<<SubSeq(R, token, read - 1)>>, Reads(R)[read])
  <2> DEFINE e == read - 1
  <2>1. /\ R \in Seq(Characters) /\ token \in 1 .. Len(R) /\ e \in token .. Len(R) /\ e + 1 = read
        /\ \A n \in token .. e : R[n] \notin Separators \cup {Quote}
    BY <1>3, <1>4, <1>5, <1>7
  <2>2. e = Len(R) \/ R[e + 1] \in Separators
    BY <1>5, <1>8, <2>1
  <2> HIDE DEF e
  <2>3. Reads(R)[token] = Behind(<<SubSeq(R, token, e)>>, Reads(R)[e + 1])
    BY <2>1, <2>2, PlainReads
  <2> QED BY <2>1, <2>3 DEF e
<1>10. /\ IsLine(l) /\ Len(l) = Len(line)
       /\ \A j \in 1 .. Len(line) : l[j] = IF j = read THEN NUL ELSE line[j]
  <2>1. Stores(line, read, NUL, l)
    BY <1>1 DEF Stores, l
  <2>2. NUL \in Bytes
    BY DEF Bytes
  <2>3. IsLine(line) /\ read \in 1 .. Len(line) /\ (read # Len(line) \/ NUL = NUL)
    BY <1>3
  <2> QED BY <2>1, <2>2, <2>3, LineWrites
<1>11. ASSUME NEW n \in read + 1 .. Len(l)
       PROVE  l[n] = IF n <= Len(R) THEN R[n] ELSE NUL
  <2>1. n \in 1 .. Len(line) /\ n # read /\ n \in token .. Len(line)
    BY <1>3, <1>4, <1>7, <1>10
  <2>2. l[n] = line[n]
    BY <1>10, <2>1
  <2> QED BY <1>4, <2>1, <2>2 DEF Unread
<1>12. /\ q \in read .. k + 1 /\ l[q] \notin Separators /\ Unread(l, R, q)
       /\ Reads(R)[read] = Reads(R)[q]
  <2>1. CASE line[read] = NUL
    <3>1. q = read /\ read = k + 1
      BY <1>1, <1>3, <2>1 DEF q
    <3>2. l[read] = NUL
      BY <1>3, <1>10
    <3>3. Unread(l, R, read)
      <4>1. ASSUME NEW n \in read .. Len(l)
            PROVE  l[n] = IF n <= Len(R) THEN R[n] ELSE NUL
        <5>1. CASE n = read
          <6>1. ~(n <= Len(R))
            BY <1>3, <1>5, <3>1, <5>1
          <6> QED BY <3>2, <5>1, <6>1
        <5>2. CASE n # read
          <6>1. n \in read + 1 .. Len(l)
            BY <1>3, <1>10, <5>2
          <6> QED BY <1>11, <6>1
        <5> QED BY <5>1, <5>2
      <4> QED BY <4>1 DEF Unread
    <3>4. read \in read .. k + 1 /\ NUL \notin Separators
      BY <1>3, <3>1 DEF NUL, Separators
    <3> QED BY <3>1, <3>2, <3>3, <3>4
  <2>2. CASE line[read] # NUL
    <3>1. read \in 1 .. k /\ R[read] \in Separators
      BY <1>1, <1>3, <2>2
    <3>2. Reads(R)[read] = Reads(R)[read + 1]
      BY <1>3, <1>5, <3>1, ReadsSkip
    <3>3. q = SkipSeparators(l, read + 1)
      BY <1>1, <2>2 DEF q, l
    <3>4. read + 1 \in 1 .. Len(R) + 1 /\ Len(R) < Len(l)
      BY <1>3, <1>5, <1>10, <3>1
    <3>5. Unread(l, R, read + 1)
      BY <1>11 DEF Unread
    <3>6. /\ q \in read + 1 .. Len(R) + 1 /\ l[q] \notin Separators /\ Unread(l, R, q)
          /\ Reads(R)[read + 1] = Reads(R)[q]
      BY <1>3, <1>5, <1>10, <3>3, <3>4, <3>5, SkipReads
    <3>7. q \in read .. k + 1
      BY <1>3, <1>5, <3>6
    <3> QED BY <3>2, <3>6, <3>7
  <2> QED BY <2>1, <2>2
<1>13. ASSUME NEW n \in token .. read - 1 PROVE l[n] = R[n] /\ R[n] # NUL
  <2>1. n \in token .. k /\ n \in 1 .. k /\ n \in 1 .. Len(line) /\ n # read
    BY <1>3, <1>4, <1>7
  <2> QED BY <1>3, <1>4, <1>10, <2>1
<1>14. SubSeq(l, token, read - 1) = SubSeq(R, token, read - 1)
  <2>1. token \in 1 .. Len(R) /\ read - 1 \in token - 1 .. Len(R)
    BY <1>3, <1>4, <1>5, <1>7
  <2>2. \A n \in token .. read - 1 : l[n] = R[n]
    BY <1>13
  <2> QED BY <1>3, <2>1, <2>2, SubSeqSame
<1>15. token \in 1 .. Len(line)
  BY <1>3, <1>4
<1>16. EndIn(l, token) = read
  <2>1. l[read] = NUL
    BY <1>3, <1>10
  <2>2. token \in 1 .. Len(l) /\ read \in token .. Len(l)
    BY <1>3, <1>4, <1>7, <1>10
  <2>3. \A n \in token .. read - 1 : l[n] # NUL
    BY <1>13
  <2> QED BY <1>10, <2>1, <2>2, <2>3, EndInUnique
<1>17. StringIn(l, token) = SubSeq(R, token, read - 1)
  BY <1>14, <1>16 DEF StringIn
<1>18. Reads(R)[token] = Behind(<<StringIn(l, token)>>, Reads(R)[q])
  BY <1>9, <1>12, <1>17
<1>19. EndIn(l, token) <= q /\ q \in 1 .. k + 1
  BY <1>3, <1>4, <1>12, <1>16
<1>20. ASSUME NEW n \in 1 .. token - 1 PROVE l[n] = line[n]
  <2>1. n \in 1 .. Len(line) /\ n # read
    BY <1>3, <1>4, <1>7
  <2> QED BY <1>10, <2>1
<1>21. pc \in {"plain", "quoted"}
  BY <1>1
<1> QED BY <1>1, <1>4, <1>10, <1>12, <1>15, <1>18, <1>19, <1>20, <1>21, CloseKeeps DEF R, k, l, q

-----------------------------------------------------------------------------
(* ks_parse_line after a token.                                            *)

\* What NextInv says, with the facts of ScanInv.
LEMMA AfterToken ==
  ASSUME Inv, pc = "next"
  PROVE  /\ token \in 1 .. Len(line) /\ token \in Nat /\ EndIn(line, token) <= read
         /\ EndIn(line, token) \in token .. Len(line) /\ line[EndIn(line, token)] = NUL
         /\ line[read] \notin Separators /\ Ended(line, found, token)
         /\ StringIn(line, token) \in Seq(Characters)
         /\ TokensIn(line, found) \in Seq(Seq(Characters))
         /\ Len(TokensIn(line, found)) = Len(found) /\ Len(found) \in Nat
         /\ found \in Seq(1 .. Len(line))
         /\ ReadsOn(TokensIn(line, found) \o <<StringIn(line, token)>>, read)
<1>1. ScanInv /\ NextInv /\ pc \in {"token", "plain", "quoted", "next"}
  BY DEF Inv
<1>2. IsLine(line) /\ Len(line) \in Nat
  BY <1>1, Scanning
<1>3. /\ token \in 1 .. Len(line) /\ EndIn(line, token) <= read
      /\ line[read] \notin Separators /\ Ended(line, found, token)
      /\ ReadsOn(TokensIn(line, found) \o <<StringIn(line, token)>>, read)
  BY <1>1 DEF NextInv
<1>4. EndIn(line, token) \in token .. Len(line) /\ line[EndIn(line, token)] = NUL
  BY <1>2, <1>3, EndInIs
<1>5. StringIn(line, token) \in Seq(Characters)
  BY <1>2, <1>3, StringInIs
<1>6. found \in Seq(1 .. Len(line))
  BY <1>3 DEF Ended
<1>7. TokensIn(line, found) \in Seq(Seq(Characters)) /\ Len(TokensIn(line, found)) = Len(found)
  BY <1>2, <1>6, TokensTyped
<1>8. Len(found) \in Nat
  BY <1>6, LenProperties
<1>9. token \in Nat
  BY <1>2, <1>3
<1> QED BY <1>3, <1>4, <1>5, <1>6, <1>7, <1>8, <1>9

LEMMA NextTokenKeeps ==
  ASSUME Inv, NextToken
  PROVE  Inv'
<1>1. /\ pc = "next" /\ ~(found = <<>> /\ line[token] = NUL) /\ line[read] # NUL
      /\ ~(Len(found) + 1 > MaxArgs) /\ found' = Append(found, token) /\ pc' = "token"
      /\ line' = line /\ text' = text /\ read' = read
  BY DEF NextToken, Kept, TooMany
<1>2. pc \in {"token", "plain", "quoted", "next"} /\ ScanInv
  BY <1>1 DEF Inv
<1>3. IsLine(line) /\ Len(line) \in Nat /\ read \in Nat
  BY <1>2, Scanning
<1>4. /\ token \in 1 .. Len(line) /\ EndIn(line, token) <= read
      /\ EndIn(line, token) \in token .. Len(line) /\ line[EndIn(line, token)] = NUL
      /\ line[read] \notin Separators /\ Ended(line, found, token)
      /\ Len(found) \in Nat /\ found \in Seq(1 .. Len(line))
      /\ ReadsOn(TokensIn(line, found) \o <<StringIn(line, token)>>, read)
  BY <1>1, AfterToken
<1> DEFINE e == EndIn(line, token)
<1> HIDE DEF e
<1>5. e < read
  <2>1. e <= read /\ e # read /\ e \in Int
    BY <1>1, <1>3, <1>4 DEF e
  <2> QED BY <1>3, <2>1
<1>6. found = <<>> => line[token] # NUL
  BY <1>1
<1>7. /\ Ended(line, found', read)
      /\ TokensIn(line, found') = TokensIn(line, found) \o <<StringIn(line, token)>>
  BY <1>1, <1>3, <1>4, <1>5, <1>6, EndedAppends DEF e
<1>8. Len(found') <= MaxArgs
  <2>1. Len(found') = Len(found) + 1
    BY <1>1, <1>4, AppendProperties
  <2> QED BY <1>1, <1>4, <2>1, SizesAssumption
<1>9. Request' = Request /\ (InLimits => InLimits')
  BY <1>1, RequestStays
<1>10. ScanInv'
  BY <1>1, <1>2, <1>8, <1>9 DEF ScanInv
<1>11. TokenInv'
  <2>1. ReadsOn(TokensIn(line, found), read)'
    BY <1>1, <1>4, <1>7, <1>9 DEF ReadsOn
  <2>2. line[read] \notin Separators \cup {NUL}
    BY <1>1, <1>4
  <2> QED BY <1>1, <1>7, <2>1, <2>2 DEF TokenInv
<1>12. IdleInv' /\ StartInv' /\ PlainInv' /\ QuotedInv' /\ NextInv' /\ EndInv' /\ ParsesAsGrammar'
  BY <1>1 DEF IdleInv, StartInv, PlainInv, QuotedInv, NextInv, EndInv, ParsesAsGrammar
<1> QED BY <1>10, <1>11, <1>12 DEF Inv
\* Every reading of the request has the tokens found and one more.
LEMMA FoundFirst ==
  ASSUME Inv, pc = "next", NEW r \in Readings(Request)
  PROVE  /\ found = <<>> => r[1] = StringIn(line, token)
         /\ line[read] # NUL => Len(r) >= Len(found) + 2
<1> DEFINE R == Request
           T == TokensIn(line, found)
           s == StringIn(line, token)
           h == T \o <<s>>
<1>1. /\ s \in Seq(Characters) /\ T \in Seq(Seq(Characters))
      /\ Len(T) = Len(found) /\ Len(found) \in Nat /\ line[read] \notin Separators
      /\ ReadsOn(h, read)
  BY AfterToken
<1>2. ScanInv /\ pc \in {"token", "plain", "quoted", "next"}
  BY DEF Inv
<1>3. /\ R \in Seq(Characters) /\ read \in 1 .. Len(R) + 1
      /\ line[read] # NUL => read \in 1 .. Len(R) /\ line[read] = R[read]
  BY <1>2, Scanning
<1>4. Readings(R) = Behind(h, Reads(R)[read])
  BY <1>1 DEF ReadsOn
<1>5. Reads(R)[read] \subseteq Seq(Seq(Characters))
  BY <1>3, ReadsTyped
<1>6. r \in Readings(R)
  OBVIOUS
<1>7. <<s>> \in Seq(Seq(Characters)) /\ Len(<<s>>) = 1 /\ <<s>>[1] = s
  BY <1>1
<1> HIDE DEF R, T, s
<1>8. /\ h \in Seq(Seq(Characters)) /\ Len(h) = Len(found) + 1
      /\ \A i \in 1 .. Len(T) + 1 : h[i] = IF i <= Len(T) THEN T[i] ELSE <<s>>[i - Len(T)]
  BY <1>1, <1>7, ConcatProperties
<1>9. found = <<>> => h[1] = s
  <2>1. ASSUME found = <<>> PROVE h[1] = s
    <3>1. Len(T) = 0
      BY <1>1, <2>1, EmptySeq
    <3>2. h[1] = <<s>>[1]
      BY <1>8, <3>1
    <3> QED BY <1>7, <3>2
  <2> QED BY <2>1
<1> HIDE DEF h
<1>10. PICK ms \in Reads(R)[read] : r = h \o ms
  BY <1>4, <1>6, Zenon DEF Behind
<1>11. ms \in Seq(Seq(Characters)) /\ Len(ms) \in Nat
  BY <1>5, LenProperties
<1>12. /\ Len(r) = Len(h) + Len(ms)
       /\ \A i \in 1 .. Len(h) + Len(ms) : r[i] = IF i <= Len(h) THEN h[i] ELSE ms[i - Len(h)]
  BY <1>8, <1>10, <1>11, ConcatProperties
<1>13. r[1] = h[1]
  BY <1>1, <1>8, <1>11, <1>12
<1>14. ASSUME line[read] # NUL PROVE Len(ms) >= 1
  <2>1. read \in 1 .. Len(R) /\ R[read] \notin Separators
    BY <1>1, <1>3, <1>14
  <2>2. HasToken(R, read, ms)
    BY <1>3, <2>1, ReadsNotEmpty
  <2>3. PICK k \in TokenEnds(R, read) : \E m \in TokenMeanings(SubSeq(R, read, k)) :
               \E ns \in Reads(R)[k + 1] : ms = <<m>> \o ns
    BY <2>2, Zenon DEF HasToken
  <2>4. PICK m \in TokenMeanings(SubSeq(R, read, k)) : \E ns \in Reads(R)[k + 1] : ms = <<m>> \o ns
    BY <2>3, Zenon
  <2>5. PICK ns \in Reads(R)[k + 1] : ms = <<m>> \o ns
    BY <2>4, Zenon
  <2>6. k \in read .. Len(R) /\ Len(R) \in Nat
    BY <1>3, <2>1, EndIs, LenProperties
  <2>7. m \in Seq(Characters)
    BY <1>3, <2>1, <2>6, MeaningsTyped
  <2>8. k + 1 \in 1 .. Len(R) + 1
    BY <2>1, <2>6
  <2>9. ns \in Seq(Seq(Characters))
    BY <1>3, <2>8, ReadsTyped
  <2>10. Len(ms) = Len(ns) + 1 /\ Len(ns) \in Nat
    BY <2>5, <2>7, <2>9, ConcatIs, LenProperties
  <2> QED BY <2>10
<1>15. line[read] # NUL => Len(r) >= Len(found) + 2
  BY <1>1, <1>8, <1>11, <1>12, <1>14
<1> QED BY <1>9, <1>13, <1>15 DEF s

LEMMA EmptyCommandKeeps ==
  ASSUME Inv, EmptyCommand
  PROVE  Inv'
<1>1. pc = "next" /\ found = <<>> /\ line[token] = NUL /\ Reject
  BY DEF EmptyCommand
<1>2. ScanInv /\ pc \in {"token", "plain", "quoted", "next"}
  BY <1>1 DEF Inv
<1>3. IsLine(line) /\ read \in 1 .. Len(line)
  BY <1>2, Scanning
<1>4. token \in 1 .. Len(line)
  BY <1>1, AfterToken
<1>5. StringIn(line, token) = <<>>
  BY <1>1, <1>3, <1>4, StringInIs
<1>6. ASSUME NEW r \in Readings(Request) PROVE ~IsRequest(r)
  BY <1>1, <1>5, FoundFirst DEF IsRequest
<1> QED BY <1>1, <1>3, <1>6, RejectKeeps

LEMMA TooManyTokensKeeps ==
  ASSUME Inv, TooManyTokens
  PROVE  Inv'
<1>1. pc = "next" /\ line[read] # NUL /\ Len(found) + 1 > MaxArgs /\ Reject
  BY DEF TooManyTokens, TooMany
<1>2. ScanInv /\ pc \in {"token", "plain", "quoted", "next"}
  BY <1>1 DEF Inv
<1>3. IsLine(line) /\ read \in 1 .. Len(line)
  BY <1>2, Scanning
<1>4. Len(found) \in Nat
  BY <1>1, AfterToken
<1>5. ASSUME NEW r \in Readings(Request) PROVE ~IsRequest(r)
  <2>1. Len(r) >= Len(found) + 2
    BY <1>1, FoundFirst
  <2>2. ~(Len(r) <= MaxArgs + 1) \/ Len(r) \notin Int
    BY <1>1, <1>4, <2>1, SizesAssumption
  <2>3. Len(r) \in Nat
    <3>1. Request \in Seq(Characters) /\ Len(Request) \in Nat
      BY <1>2, Scanning
    <3>2. 1 \in 1 .. Len(Request) + 1
      BY <3>1
    <3>3. r \in Seq(Seq(Characters))
      BY <3>1, <3>2, ReadsTyped DEF Readings
    <3> QED BY <3>3, LenProperties
  <2> QED BY <2>2, <2>3 DEF IsRequest
<1> QED BY <1>1, <1>3, <1>5, RejectKeeps

\* k is l with the string at c in upper case.
Uppers(l, c, k) ==
  k = [n \in DOMAIN l |->
         IF n \in c .. c + Len(StringIn(l, c)) - 1 THEN Upper[l[n]] ELSE l[n]]

\* What a line may hold behind ks_parse_line.
Uppered == Bytes \cup {Upper[c] : c \in Characters}

\* The command is in upper case, and every token behind it is as it was.
LEMMA UppersIs ==
  ASSUME NEW l, IsLine(l), NEW c \in 1 .. Len(l), NEW k, Uppers(l, c, k)
  PROVE  /\ Len(k) = Len(l) /\ DOMAIN k = DOMAIN l /\ k[Len(k)] = NUL
         /\ StringIn(k, c) = Command(StringIn(l, c))
         /\ \A p \in 1 .. Len(l) : EndIn(l, c) < p => StringIn(k, p) = StringIn(l, p)
<1> DEFINE e == EndIn(l, c)
<1>0. l \in Seq(Bytes) /\ Len(l) \in Nat \ {0} /\ l[Len(l)] = NUL /\ DOMAIN l = 1 .. Len(l)
  BY LenProperties DEF IsLine
<1>1. e \in c .. Len(l) /\ l[e] = NUL /\ \A n \in c .. e - 1 : l[n] # NUL
  BY EndInIs
<1>2. Len(StringIn(l, c)) = e - c
  BY StringInIs
<1> HIDE DEF e
<1>3. c + Len(StringIn(l, c)) - 1 = e - 1
  BY <1>0, <1>1, <1>2
<1>4. k = [n \in 1 .. Len(l) |-> IF n \in c .. e - 1 THEN Upper[l[n]] ELSE l[n]]
  BY <1>0, <1>3 DEF Uppers
<1>5. ASSUME NEW n \in 1 .. Len(l) PROVE l[n] \in Bytes
  BY <1>0, ElementOfSeq
<1>6. ASSUME NEW n \in c .. e - 1
      PROVE  n \in 1 .. Len(l) /\ l[n] \in Characters /\ k[n] = Upper[l[n]] /\ k[n] # NUL /\ k[n] \in Uppered
  <2>1. n \in 1 .. Len(l)
    BY <1>0, <1>1
  <2>2. l[n] \in Characters
    BY <1>1, <1>5, <2>1 DEF Bytes
  <2>3. k[n] = Upper[l[n]]
    BY <1>4, <2>1
  <2>4. Upper[l[n]] # NUL
    BY <2>2, UpperAssumption
  <2>5. Upper[l[n]] \in Uppered
    BY <2>2 DEF Uppered
  <2> QED BY <2>1, <2>2, <2>3, <2>4, <2>5
<1>7. ASSUME NEW n \in 1 .. Len(l), n \notin c .. e - 1 PROVE k[n] = l[n] /\ k[n] \in Uppered
  <2>1. k[n] = l[n]
    BY <1>4, <1>7
  <2> QED BY <1>5, <2>1 DEF Uppered
<1>8. DOMAIN k = 1 .. Len(l)
  BY <1>4
<1>9. k \in [1 .. Len(l) -> Uppered]
  <2>1. ASSUME NEW n \in 1 .. Len(l) PROVE k[n] \in Uppered
    BY <1>6, <1>7
  <2>2. k = [n \in 1 .. Len(l) |-> k[n]]
    BY <1>4
  <2> QED BY <2>1, <2>2
<1>10. k \in Seq(Uppered) /\ Len(k) = Len(l)
  BY <1>0, <1>9
<1>11. k[Len(k)] = NUL
  <2>1. Len(l) \in 1 .. Len(l) /\ Len(l) \notin c .. e - 1
    BY <1>0, <1>1
  <2> QED BY <1>0, <1>7, <1>10, <2>1
<1>12. EndIn(k, c) = e
  <2>1. k[e] = NUL
    <3>1. e \in 1 .. Len(l) /\ e \notin c .. e - 1
      BY <1>0, <1>1
    <3> QED BY <1>1, <1>7, <3>1
  <2>2. c \in 1 .. Len(k) /\ e \in c .. Len(k) /\ Len(k) \in Nat \ {0}
    BY <1>0, <1>1, <1>10
  <2>3. \A n \in c .. e - 1 : k[n] # NUL
    BY <1>6
  <2> QED BY <1>11, <2>1, <2>2, <2>3, EndInOnly
<1> DEFINE s == StringIn(l, c)
           u == StringIn(k, c)
           C == Command(s)
<1>13. s \in Seq(Characters) /\ Len(s) = e - c /\ \A i \in 1 .. e - c : s[i] = l[c + i - 1]
  BY StringInIs DEF e
<1>14. /\ u \in Seq(Uppered) /\ Len(u) = e - c
       /\ \A i \in 1 .. e - c : u[i] = k[c + i - 1]
  <2>1. u = SubSeq(k, c, e - 1)
    BY <1>12 DEF StringIn
  <2> HIDE DEF u
  <2>2. c \in Int /\ e - 1 \in Int
    BY <1>0, <1>1
  <2>3. /\ u \in Seq(Uppered) /\ Len(u) = IF c <= e - 1 THEN e - 1 - c + 1 ELSE 0
        /\ \A i \in 1 .. e - 1 - c + 1 : u[i] = k[c + i - 1]
    BY <1>6, <2>1, <2>2, SubSeqProperties
  <2>4. e - 1 - c + 1 = e - c /\ Len(u) = e - c
    BY <1>0, <1>1, <2>3
  <2> QED BY <2>3, <2>4
<1> HIDE DEF s, u
<1>15. e - c \in Nat
  BY <1>0, <1>1
<1>16. C \in Seq(Uppered) /\ Len(C) = e - c /\ \A i \in 1 .. e - c : C[i] = Upper[s[i]]
  <2>1. C = [i \in 1 .. e - c |-> Upper[s[i]]]
    <3>1. DOMAIN s = 1 .. e - c
      BY <1>13, LenProperties
    <3> QED BY <3>1 DEF Command
  <2>2. ASSUME NEW i \in 1 .. e - c PROVE Upper[s[i]] \in Uppered
    <3>1. s[i] \in Characters
      BY <1>13, ElementOfSeq
    <3> QED BY <3>1 DEF Uppered
  <2>3. C \in [1 .. e - c -> Uppered]
    BY <2>1, <2>2
  <2>4. \A i \in 1 .. e - c : C[i] = Upper[s[i]]
    BY <2>1
  <2> HIDE DEF C
  <2>5. C \in Seq(Uppered) /\ Len(C) = e - c
    BY <1>15, <2>3
  <2> QED BY <2>4, <2>5
<1> HIDE DEF C
<1>17. ASSUME NEW i \in 1 .. e - c PROVE u[i] = C[i]
  <2>1. c + i - 1 \in c .. e - 1
    BY <1>0, <1>1
  <2>2. k[c + i - 1] = Upper[l[c + i - 1]]
    BY <1>6, <2>1
  <2> QED BY <1>13, <1>14, <1>16, <2>2
<1>18. u = C
  BY <1>14, <1>16, <1>17, SeqEqual
<1>19. ASSUME NEW p \in 1 .. Len(l), e < p PROVE StringIn(k, p) = StringIn(l, p)
  <2> DEFINE d == EndIn(l, p)
  <2>1. d \in p .. Len(l) /\ l[d] = NUL /\ \A n \in p .. d - 1 : l[n] # NUL
    BY EndInIs
  <2> HIDE DEF d
  <2>2. ASSUME NEW n \in p .. Len(l) PROVE k[n] = l[n]
    <3>1. n \in 1 .. Len(l) /\ n \notin c .. e - 1
      BY <1>0, <1>1, <1>19
    <3> QED BY <1>7, <3>1
  <2>3. k[d] = NUL
    BY <2>1, <2>2
  <2>4. \A n \in p .. d - 1 : k[n] # NUL
    <3>1. \A n \in p .. d - 1 : n \in p .. Len(l)
      BY <1>0, <2>1
    <3> QED BY <2>1, <2>2, <3>1
  <2>5. EndIn(k, p) = d
    <3>1. p \in 1 .. Len(k) /\ d \in p .. Len(k) /\ Len(k) \in Nat \ {0}
      BY <1>0, <1>10, <2>1
    <3> QED BY <1>11, <2>3, <2>4, <3>1, EndInOnly
  <2> DEFINE v == StringIn(l, p)
             w == StringIn(k, p)
  <2>6. v = SubSeq(l, p, d - 1) /\ w = SubSeq(k, p, d - 1)
    BY <2>5 DEF StringIn, d
  <2>7. p \in Int /\ d - 1 \in Int
    BY <1>0, <2>1
  <2>8. \A n \in p .. d - 1 : l[n] \in Bytes /\ k[n] \in Bytes
    <3>1. \A n \in p .. d - 1 : n \in p .. Len(l) /\ n \in 1 .. Len(l)
      BY <1>0, <2>1
    <3> QED BY <1>5, <2>2, <3>1
  <2> HIDE DEF v, w
  <2>9. /\ v \in Seq(Bytes) /\ Len(v) = IF p <= d - 1 THEN d - 1 - p + 1 ELSE 0
        /\ \A i \in 1 .. d - 1 - p + 1 : v[i] = l[p + i - 1]
    BY <2>6, <2>7, <2>8, SubSeqProperties
  <2>10. /\ w \in Seq(Bytes) /\ Len(w) = IF p <= d - 1 THEN d - 1 - p + 1 ELSE 0
         /\ \A i \in 1 .. d - 1 - p + 1 : w[i] = k[p + i - 1]
    BY <2>6, <2>7, <2>8, SubSeqProperties
  <2>11. Len(v) = d - p /\ Len(w) = d - p /\ d - 1 - p + 1 = d - p
    BY <1>0, <2>1, <2>9, <2>10
  <2>12. ASSUME NEW i \in 1 .. d - p PROVE w[i] = v[i]
    <3>1. p + i - 1 \in p .. Len(l)
      BY <1>0, <2>1
    <3>2. k[p + i - 1] = l[p + i - 1]
      BY <2>2, <3>1
    <3> QED BY <2>9, <2>10, <2>11, <3>2
  <2>13. w = v
    BY <2>9, <2>10, <2>11, <2>12, SeqEqual
  <2> QED BY <2>13 DEF v, w
<1> QED BY <1>0, <1>8, <1>10, <1>11, <1>18, <1>19 DEF e, s, u, C

LEMMA FinishKeeps ==
  ASSUME Inv, Finish
  PROVE  Inv'
<1> DEFINE R == Request
           g == Append(found, token)
           c == g[1]
           T == TokensIn(line, g)
           l == line'
<1>1. /\ pc = "next" /\ ~(found = <<>> /\ line[token] = NUL) /\ line[read] = NUL
      /\ found' = g /\ pc' = "done" /\ text' = text /\ read' = read
      /\ line' = [n \in DOMAIN line |->
                    IF n \in c .. c + Len(StringAt(c)) - 1 THEN Upper[line[n]] ELSE line[n]]
  BY DEF Finish, Kept
<1>2. StringAt(c) = StringIn(line, c)
  BY DEF StringAt, StringIn, EndIn
<1>3. Uppers(line, c, l)
  BY <1>1, <1>2 DEF Uppers
<1>4. pc \in {"token", "plain", "quoted", "next"} /\ ScanInv
  BY <1>1 DEF Inv
<1>5. /\ R \in Seq(Characters) /\ Len(R) \in Nat /\ IsLine(line) /\ Len(line) \in Nat
      /\ InLimits /\ Len(found) <= MaxArgs
      /\ read \in 1 .. Len(line) /\ read \in 1 .. Len(R) + 1 /\ read = Len(R) + 1
  BY <1>1, <1>4, Scanning
<1>6. /\ token \in 1 .. Len(line) /\ Ended(line, found, token)
      /\ EndIn(line, token) \in token .. Len(line)
      /\ Len(found) \in Nat /\ found \in Seq(1 .. Len(line))
      /\ ReadsOn(TokensIn(line, found) \o <<StringIn(line, token)>>, read)
  BY <1>1, AfterToken
<1>7. EndIn(line, token) < Len(line) + 1 /\ Len(line) + 1 \in Nat
  BY <1>5, <1>6
<1>8. found = <<>> => line[token] # NUL
  BY <1>1
<1>9. /\ Ended(line, g, Len(line) + 1)
      /\ T = TokensIn(line, found) \o <<StringIn(line, token)>>
  BY <1>5, <1>6, <1>7, <1>8, EndedAppends
<1>10. g \in Seq(1 .. Len(line)) /\ Len(g) = Len(found) + 1 /\ g # <<>>
  BY <1>6, AppendProperties
<1>11. Request' = R /\ InLimits'
  BY <1>1, <1>5, RequestStays
<1> HIDE DEF R, g, c, T, l
<1>12. Len(g) \in Nat \ {0} /\ Len(g) <= MaxArgs + 1 /\ 1 \in 1 .. Len(g) /\ DOMAIN g = 1 .. Len(g)
  <2>1. DOMAIN g = 1 .. Len(g)
    BY <1>10, LenProperties
  <2> QED BY <1>5, <1>6, <1>10, <2>1, SizesAssumption
<1>13. c \in 1 .. Len(line) /\ line[c] # NUL /\ \A i \in 2 .. Len(g) : EndIn(line, c) < g[i]
  BY <1>9, <1>10, <1>12, ElementOfSeq DEF Ended, c
<1>14. /\ Len(l) = Len(line) /\ DOMAIN l = DOMAIN line /\ l[Len(l)] = NUL
       /\ StringIn(l, c) = Command(StringIn(line, c))
       /\ \A p \in 1 .. Len(line) : EndIn(line, c) < p => StringIn(l, p) = StringIn(line, p)
  BY <1>3, <1>5, <1>13, UppersIs
<1>15. DOMAIN line = 1 .. Len(line)
  BY <1>5, LenProperties DEF IsLine
<1>16. (pc \in {"rejected", "done"} => /\ line[Len(line)] = NUL /\ read \in DOMAIN line
                                     /\ Len(found) <= MaxArgs + 1
                                     /\ \A n \in DOMAIN found : found[n] \in DOMAIN line)'
  <2>1. l[Len(l)] = NUL /\ read' \in DOMAIN l /\ Len(found') <= MaxArgs + 1
    BY <1>1, <1>5, <1>12, <1>14, <1>15
  <2>2. \A n \in DOMAIN found' : found'[n] \in DOMAIN l
    BY <1>1, <1>10, <1>12, <1>14, <1>15, ElementOfSeq
  <2> QED BY <2>1, <2>2 DEF l
<1>17. /\ T \in Seq(Seq(Characters)) /\ Len(T) = Len(g)
       /\ \A i \in 1 .. Len(g) : T[i] = StringIn(line, g[i])
  BY <1>5, <1>10, TokensTyped DEF T
<1>18. Readings(R) = {T}
  <2>1. Readings(R) = Behind(T, Reads(R)[read])
    BY <1>6, <1>9 DEF ReadsOn, R
  <2>2. Reads(R)[read] = {<<>>}
    <3>1. \A n \in read .. Len(R) : R[n] \in Separators
      BY <1>5
    <3> QED BY <1>5, <3>1, ReadsAtEnd
  <2>3. Readings(R) = Behind(T, {<<>>})
    BY <2>1, <2>2
  <2> QED BY <1>17, <2>3, BehindOne
<1>19. T[1] = StringIn(line, c) /\ T[1] # <<>> /\ T # <<>>
  <2>1. T[1] = StringIn(line, c)
    BY <1>12, <1>17 DEF c
  <2>2. StringIn(line, c) # <<>>
    BY <1>5, <1>13, StringInIs
  <2>3. T # <<>>
    BY <1>12, <1>17, EmptySeq
  <2> QED BY <2>1, <2>2, <2>3
<1>20. IsRequest(T)
  BY <1>12, <1>17, <1>19 DEF IsRequest
<1> DEFINE C == Command(T[1])
           U == [n \in DOMAIN g |-> StringIn(l, g[n])]
<1>21. Tokens' = U
  <2>1. Tokens' = [n \in DOMAIN found' |-> StringAt(found[n])']
    BY DEF Tokens
  <2>2. ASSUME NEW n \in DOMAIN found' PROVE StringAt(found[n])' = StringIn(l, found'[n])
    BY DEF StringAt, StringIn, EndIn, l
  <2> QED BY <1>1, <2>1, <2>2
<1>22. U = <<C>> \o Tail(T)
  <2> DEFINE V == <<C>> \o Tail(T)
             W == {C} \cup Seq(Characters)
  <2>1. C = StringIn(l, c)
    BY <1>14, <1>19
  <2> HIDE DEF C
  <2>2. <<C>> \in Seq(W) /\ Len(<<C>>) = 1 /\ <<C>>[1] = C
    OBVIOUS
  <2>3. /\ Tail(T) \in Seq(Seq(Characters)) /\ Len(Tail(T)) = Len(T) - 1
        /\ \A i \in 1 .. Len(Tail(T)) : Tail(T)[i] = T[i + 1]
    BY <1>17, <1>19, HeadTailProperties
  <2>4. Tail(T) \in Seq(W)
    BY <2>3, SeqMonotonic
  <2>5. /\ V \in Seq(W) /\ Len(V) = Len(<<C>>) + Len(Tail(T))
        /\ \A i \in 1 .. Len(<<C>>) + Len(Tail(T)) :
             V[i] = IF i <= Len(<<C>>) THEN <<C>>[i] ELSE Tail(T)[i - Len(<<C>>)]
    BY <2>2, <2>4, ConcatProperties
  <2> HIDE DEF V
  <2>6. Len(V) = Len(g)
    BY <1>12, <1>17, <2>2, <2>3, <2>5
  <2>7. V[1] = C
    BY <1>12, <2>2, <2>5, <2>6
  <2>8. ASSUME NEW i \in 2 .. Len(g) PROVE V[i] = T[i]
    <3>1. i \in 1 .. Len(g) /\ i - 1 \in 1 .. Len(Tail(T)) /\ ~(i <= 1) /\ i - 1 + 1 = i
      BY <1>12, <1>17, <2>3
    <3>2. V[i] = Tail(T)[i - 1]
      BY <2>2, <2>5, <2>6, <3>1
    <3>3. Tail(T)[i - 1] = T[i - 1 + 1]
      BY <2>3, <3>1
    <3> QED BY <3>1, <3>2, <3>3
  <2>9. ASSUME NEW i \in 1 .. Len(g) PROVE StringIn(l, g[i]) = V[i]
    <3>1. CASE i = 1
      BY <2>1, <2>7, <3>1 DEF c
    <3>2. CASE i \in 2 .. Len(g)
      <4>1. g[i] \in 1 .. Len(line)
        BY <1>10, ElementOfSeq
      <4>2. EndIn(line, c) < g[i]
        BY <1>13, <3>2
      <4>3. StringIn(l, g[i]) = StringIn(line, g[i])
        BY <1>14, <4>1, <4>2
      <4> QED BY <1>17, <2>8, <3>2, <4>3
    <3> QED BY <1>12, <3>1, <3>2
  <2>10. V = [n \in 1 .. Len(g) |-> V[n]]
    <3>1. DOMAIN V = 1 .. Len(g)
      BY <2>5, <2>6, LenProperties
    <3> QED BY <2>5, <3>1
  <2>11. U = [n \in 1 .. Len(g) |-> StringIn(l, g[n])]
    BY <1>12
  <2> HIDE DEF U
  <2>12. U = V
    BY <2>9, <2>10, <2>11
  <2> QED BY <2>12 DEF V
<1> HIDE DEF U, C
<1>23. ParsesAsGrammar'
  <2>1. PICK t : t = T
    OBVIOUS
  <2>2. t \in Readings(Request') /\ IsRequest(t) /\ Tokens' = << Command(t[1]) >> \o Tail(t)
    BY <1>11, <1>18, <1>20, <1>21, <1>22, <2>1 DEF C
  <2>3. (\E r \in Readings(Request) : IsRequest(r) /\ Tokens = << Command(r[1]) >> \o Tail(r))'
    BY <2>2, Zenon
  <2>4. pc' # "rejected"
    BY <1>1
  <2> QED BY <1>11, <2>3, <2>4, Zenon DEF ParsesAsGrammar
<1>24. IdleInv' /\ StartInv' /\ ScanInv' /\ TokenInv' /\ PlainInv' /\ QuotedInv' /\ NextInv'
  BY <1>1 DEF IdleInv, StartInv, ScanInv, TokenInv, PlainInv, QuotedInv, NextInv
<1>25. EndInv'
  <2>1. \A r, q \in Readings(Request') : r = q
    BY <1>11, <1>18
  <2> QED BY <1>16, <2>1 DEF EndInv
<1> QED BY <1>23, <1>24, <1>25 DEF Inv

-----------------------------------------------------------------------------
(* The specification.                                                      *)

\* A line that is sent, by the CLI or by another client, holds no NUL.
LEMMA SentTyped ==
  ASSUME NEW l \in Typed
  PROVE  Sent(l) \in Seq(Characters)
<1>1. l \in Seq(Characters)
  BY LinesAssumption
<1>2. LastNot(l, {CR, LF}) \in 0 .. Len(l)
  BY <1>1, LastNotIs
<1>3. CommandPart(l) = SubSeq(l, 1, LastNot(l, {CR, LF}))
  BY DEF CommandPart, TrimEnd, LastNot
<1>4. CommandPart(l) \in Seq(Characters)
  BY <1>1, <1>2, <1>3, PrefixIs
<1>5. CRLF \in Seq(Characters)
  BY UpperAssumption DEF CRLF
<1>6. CommandPart(l) \o CRLF \in Seq(Characters)
  BY <1>4, <1>5, ConcatProperties
<1> QED BY <1>6 DEF Sent

LEMMA InvHolds == Init => Inv
<1> SUFFICES ASSUME Init PROVE Inv
  OBVIOUS
<1>1. pc = "idle" /\ read = 1 /\ found = <<>>
  BY DEF Init, Idle
<1> QED BY <1>1 DEF Inv, IdleInv, StartInv, ScanInv, TokenInv, PlainInv, QuotedInv, NextInv, EndInv,
                    ParsesAsGrammar

LEMMA InvUnchanged ==
  ASSUME Inv, UNCHANGED parser
  PROVE  Inv'
<1>1. /\ line' = line /\ text' = text /\ pc' = pc /\ read' = read /\ write' = write
      /\ token' = token /\ found' = found
  BY DEF parser
<1>2. Request' = Request
  BY <1>1, RequestStays
<1>3. InLimits' <=> InLimits
  BY <1>1, <1>2 DEF InLimits
<1>4. Decoded' = Decoded
  BY <1>1 DEF Decoded
<1>5. ASSUME NEW c, NEW p PROVE ReadsOn(c, p)' <=> ReadsOn(c, p)
  BY <1>2 DEF ReadsOn
<1>6. Tokens' = Tokens
  BY <1>1 DEF Tokens, StringAt
<1>7. IdleInv' /\ StartInv' /\ EndInv'
  BY <1>1, <1>2 DEF Inv, IdleInv, StartInv, EndInv
<1>8. ScanInv'
  BY <1>1, <1>2, <1>3 DEF Inv, ScanInv
<1>9. TokenInv' /\ NextInv'
  BY <1>1, <1>2 DEF Inv, TokenInv, NextInv, ReadsOn
<1>10. PlainInv'
  BY <1>1, <1>2 DEF Inv, PlainInv, ReadsOn
<1>11. QuotedInv'
  BY <1>1, <1>2, <1>4 DEF Inv, QuotedInv, ReadsOn
<1>12. ParsesAsGrammar'
  BY <1>1, <1>2, <1>3, <1>6 DEF Inv, ParsesAsGrammar, IsRequest
<1> QED BY <1>7, <1>8, <1>9, <1>10, <1>11, <1>12 DEF Inv

LEMMA StepsKeep ==
  ASSUME Inv, Steps
  PROVE  Inv'
BY StartRejectsKeeps, StartKeeps, OpenQuotedKeeps, OpenPlainKeeps, CopyCharKeeps, CopyEscapedKeeps,
   BadEscapeKeeps, QuoteOpenKeeps, CloseQuotedKeeps, TextAfterQuoteKeeps, PlainCharKeeps,
   QuoteInPlainKeeps, ClosePlainKeeps, EmptyCommandKeeps, NextTokenKeeps, TooManyTokensKeeps,
   FinishKeeps DEF Steps

LEMMA NextKeeps ==
  ASSUME Inv, [Next]_vars
  PROVE  Inv'
<1>1. CASE Steps
  BY <1>1, StepsKeep
<1>2. ASSUME NEW l \in Typed, Exits(l) \/ Skips(l) PROVE Inv'
  BY <1>2, InvUnchanged DEF Exits, Skips
<1>3. ASSUME NEW l \in Typed, Sends(l) PROVE Inv'
  BY <1>3, SentTyped, ParseKeeps DEF Sends
<1>4. ASSUME NEW l \in Others, Other(l) PROVE Inv'
  <2>1. l \in Seq(Characters) /\ Parse(l)
    BY <1>4, LinesAssumption DEF Other
  <2> QED BY <2>1, ParseKeeps
<1>5. CASE UNCHANGED vars
  BY <1>5, InvUnchanged DEF vars
<1> QED BY <1>1, <1>2, <1>3, <1>4, <1>5 DEF Next

\* The invariant is enough for the bounds.
LEMMA InvBounds == Inv => InBounds
<1> SUFFICES ASSUME Inv, pc # "idle" PROVE InBounds
  BY DEF InBounds
<1>1. CASE pc = "start"
  <2>1. text \in Seq(Characters) /\ line = text \o <<NUL>> /\ read = 1 /\ found = <<>>
    BY <1>1 DEF Inv, StartInv
  <2>2. IsLine(line)
    BY <2>1, TrimmedIs
  <2>3. line[Len(line)] = NUL /\ DOMAIN line = 1 .. Len(line) /\ Len(line) \in Nat \ {0}
    BY <2>2, LenProperties DEF IsLine
  <2>4. Len(found) <= MaxArgs + 1 /\ \A n \in DOMAIN found : found[n] \in DOMAIN line
    <3>1. Len(<<>>) = 0
      BY EmptySeq
    <3> QED BY <2>1, <3>1, SizesAssumption
  <2>5. read \in DOMAIN line
    BY <2>1, <2>3
  <2> QED BY <1>1, <2>3, <2>4, <2>5 DEF InBounds
<1>2. CASE pc \in {"token", "plain", "quoted", "next"}
  <2>1. /\ IsLine(line) /\ read \in 1 .. Len(line) /\ Len(found) <= MaxArgs
    BY <1>2, Scanning DEF Inv
  <2>2. line[Len(line)] = NUL /\ DOMAIN line = 1 .. Len(line)
    BY <2>1, LenProperties DEF IsLine
  <2>3. found \in Seq(1 .. Len(line))
    BY <1>2 DEF Inv, TokenInv, PlainInv, QuotedInv, NextInv, Ended
  <2>4. \A n \in DOMAIN found : found[n] \in DOMAIN line
    BY <2>2, <2>3, LenProperties, ElementOfSeq
  <2>5. Len(found) <= MaxArgs + 1
    <3>1. Len(found) \in Nat
      BY <2>3, LenProperties
    <3> QED BY <2>1, <3>1, SizesAssumption
  <2>6. pc = "quoted" => token <= write /\ write <= read
    <3>1. ASSUME pc = "quoted" PROVE token <= write /\ write <= read
      <4>1. write \in token .. read
        BY <3>1 DEF Inv, QuotedInv
      <4> QED BY <4>1
    <3> QED BY <3>1
  <2> QED BY <2>1, <2>2, <2>4, <2>5, <2>6 DEF InBounds
<1>3. CASE pc \in {"rejected", "done"}
  BY <1>3 DEF Inv, EndInv, InBounds
<1>4. pc \in {"start", "token", "plain", "quoted", "next", "rejected", "done"}
  BY DEF Inv, IdleInv
<1> QED BY <1>1, <1>2, <1>3, <1>4

\* ks_parse_line, on any line that the CLI or another client sends, keeps the
\* invariant: what it has not read is as it came, and the tokens it has cut out, the
\* one in progress and the readings of the rest are the readings of the request.
THEOREM Invariance == Spec => []Inv
<1>1. Inv /\ [Next]_vars => Inv'
  BY NextKeeps
<1> QED BY <1>1, InvHolds, PTL DEF Spec

\* parse_token never reads behind the end of the line, never writes over what it
\* still has to read, and fills no more of argv than there is.
THEOREM StaysInBounds == Spec => []InBounds
BY Invariance, InvBounds, PTL

\* ks_parse_line accepts the lines that the grammar reads as a request within the
\* limits, and no others, and gives the tokens the grammar gives.
THEOREM AgreesWithGrammar == Spec => []ParsesAsGrammar
<1>1. Inv => ParsesAsGrammar
  BY DEF Inv
<1> QED BY <1>1, Invariance, PTL

-----------------------------------------------------------------------------
(* The CLI's scanners: the grammar reads a text alike wherever it stands.  *)

\* The n characters from p on in x are those from q on in y; they do not end in
\* a separator, and there are only separators behind them.
Alike(x, p, y, q, n) ==
  /\ p \in 1 .. Len(x) /\ p + n - 1 <= Len(x)
  /\ q \in 1 .. Len(y) /\ q + n - 1 <= Len(y)
  /\ n \in Nat \ {0}
  /\ \A i \in 0 .. n - 1 : x[p + i] = y[q + i]
  /\ x[p + (n - 1)] \notin Separators
  /\ \A i \in p + n .. Len(x) : x[i] \in Separators
  /\ \A i \in q + n .. Len(y) : y[i] \in Separators

LEMMA AlikeTurned ==
  ASSUME NEW C, NEW x \in Seq(C), NEW y \in Seq(C), NEW p, NEW q, NEW n, Alike(x, p, y, q, n)
  PROVE  Alike(y, q, x, p, n)
<1>1. /\ p \in 1 .. Len(x) /\ p + n - 1 <= Len(x)
      /\ q \in 1 .. Len(y) /\ q + n - 1 <= Len(y)
      /\ n \in Nat \ {0}
      /\ \A i \in 0 .. n - 1 : x[p + i] = y[q + i]
      /\ x[p + (n - 1)] \notin Separators
      /\ \A i \in p + n .. Len(x) : x[i] \in Separators
      /\ \A i \in q + n .. Len(y) : y[i] \in Separators
  BY DEF Alike
<1>2. n - 1 \in 0 .. n - 1
  BY <1>1
<1>3. \A i \in 0 .. n - 1 : y[q + i] = x[p + i]
  BY <1>1
<1>4. y[q + (n - 1)] \notin Separators
  BY <1>1, <1>2
<1> QED BY <1>1, <1>3, <1>4 DEF Alike

LEMMA JoinedHas ==
  ASSUME NEW M, NEW X, NEW m \in M, NEW ms \in X
  PROVE  <<m>> \o ms \in Joined(M, X)
<1> DEFINE B(c) == {<<c>> \o mt : mt \in X}
<1>1. <<m>> \o ms \in B(m)
  OBVIOUS
<1>2. Joined(M, X) = UNION {B(c) : c \in M}
  BY Zenon DEF Joined
<1> HIDE DEF B
<1> QED BY <1>1, <1>2

LEMMA HasTokenReads ==
  ASSUME NEW C, NEW t \in Seq(C), NEW p \in 1 .. Len(t), t[p] \notin Separators,
         NEW r, HasToken(t, p, r)
  PROVE  r \in Reads(t)[p]
<1> DEFINE J(k) == Joined(TokenMeanings(SubSeq(t, p, k)), Reads(t)[k + 1])
<1>1. Reads(t)[p] = UNION {J(k) : k \in TokenEnds(t, p)}
  BY ReadsToken, Zenon
<1>2. PICK k \in TokenEnds(t, p) : \E m \in TokenMeanings(SubSeq(t, p, k)) :
             \E ms \in Reads(t)[k + 1] : r = <<m>> \o ms
  BY Zenon DEF HasToken
<1>3. r \in J(k)
  <2>1. PICK m \in TokenMeanings(SubSeq(t, p, k)) : \E ms \in Reads(t)[k + 1] : r = <<m>> \o ms
    BY <1>2, Zenon
  <2>2. PICK ms \in Reads(t)[k + 1] : r = <<m>> \o ms
    BY <2>1, Zenon
  <2> QED BY <2>2, JoinedHas
<1> HIDE DEF J
<1> QED BY <1>1, <1>3

\* A token that ends in a separator stands for nothing.
LEMMA NoTokenEndsSeparated ==
  ASSUME NEW C, NEW t \in Seq(C), NEW p \in 1 .. Len(t), NEW e \in p .. Len(t),
         t[e] \in Separators
  PROVE  TokenMeanings(SubSeq(t, p, e)) = {}
<1>1. CASE t[p] = Quote
  <2>1. t[e] # Quote
    BY DEF Quote, Separators
  <2> QED BY <1>1, <2>1, QuotedMeans
<1>2. CASE t[p] # Quote
  <2>1. e \in p .. e /\ t[e] \in Separators \cup {Quote}
    BY LenProperties
  <2> QED BY <1>2, <2>1, BrokenMeans
<1> QED BY <1>1, <1>2

\* The characters of x from p on are those of y from q on, n behind the first.
Same(x, p, y, q, n) == \A i \in 0 .. n : x[p + i] = y[q + i]

LEMMA PartSame ==
  ASSUME NEW C, NEW x \in Seq(C), NEW y \in Seq(C), NEW p \in 1 .. Len(x), NEW e \in p .. Len(x),
         NEW q \in 1 .. Len(y), NEW f \in q .. Len(y), e - p = f - q,
         Same(x, p, y, q, e - p)
  PROVE  SubSeq(x, p, e) = SubSeq(y, q, f)
<1> DEFINE s == SubSeq(x, p, e)
           u == SubSeq(y, q, f)
<1>0. Len(x) \in Nat /\ Len(y) \in Nat
  BY LenProperties
<1>1. s \in Seq(C) /\ Len(s) = e - p + 1 /\ \A i \in 1 .. e - p + 1 : s[i] = x[p + i - 1]
  BY TokenIs
<1>2. u \in Seq(C) /\ Len(u) = f - q + 1 /\ \A i \in 1 .. f - q + 1 : u[i] = y[q + i - 1]
  BY TokenIs
<1> HIDE DEF s, u
<1>3. ASSUME NEW i \in 1 .. Len(s) PROVE s[i] = u[i]
  <2>1. i - 1 \in 0 .. e - p /\ p + (i - 1) = p + i - 1 /\ q + (i - 1) = q + i - 1
    BY <1>0, <1>1
  <2>2. x[p + (i - 1)] = y[q + (i - 1)]
    BY <2>1 DEF Same
  <2> QED BY <1>0, <1>1, <1>2, <2>1, <2>2
<1>4. s = u
  BY <1>0, <1>1, <1>2, <1>3, SeqEqual
<1> QED BY <1>4 DEF s, u

LEMMA TokenMoves ==
  ASSUME NEW C, NEW x \in Seq(C), NEW y \in Seq(C), NEW p, NEW q, NEW n, Alike(x, p, y, q, n),
         NEW j \in 0 .. n - 1, x[p + j] \notin Separators,
         \A k \in j + 1 .. n : Reads(x)[p + k] = Reads(y)[q + k],
         NEW r, HasToken(x, p + j, r)
  PROVE  HasToken(y, q + j, r)
<1>0. Len(x) \in Nat /\ Len(y) \in Nat
  BY LenProperties
<1>1. /\ p \in 1 .. Len(x) /\ p + n - 1 <= Len(x)
      /\ q \in 1 .. Len(y) /\ q + n - 1 <= Len(y)
      /\ n \in Nat \ {0}
      /\ \A i \in 0 .. n - 1 : x[p + i] = y[q + i]
      /\ \A i \in p + n .. Len(x) : x[i] \in Separators
      /\ \A i \in q + n .. Len(y) : y[i] \in Separators
  BY DEF Alike
<1>2. /\ p + j \in 1 .. Len(x) /\ p + j \in 1 .. p + n - 1
      /\ q + j \in 1 .. Len(y) /\ q + j \in 1 .. q + n - 1
  BY <1>0, <1>1
<1>3. PICK e \in TokenEnds(x, p + j) : \E m \in TokenMeanings(SubSeq(x, p + j, e)) :
             \E ms \in Reads(x)[e + 1] : r = <<m>> \o ms
  BY Zenon DEF HasToken
<1>4. e \in p + j .. Len(x) /\ (e = Len(x) \/ x[e + 1] \in Separators)
  BY <1>2, EndIs
<1>5. PICK m \in TokenMeanings(SubSeq(x, p + j, e)) : \E ms \in Reads(x)[e + 1] : r = <<m>> \o ms
  BY <1>3
<1>6. PICK ms \in Reads(x)[e + 1] : r = <<m>> \o ms
  BY <1>5
<1>7. x[e] \notin Separators
  BY <1>2, <1>4, <1>5, NoTokenEndsSeparated
<1>8. e \in p + j .. p + n - 1
  <2>1. e \notin p + n .. Len(x)
    BY <1>1, <1>7
  <2> QED BY <1>0, <1>1, <1>4, <2>1
<1> DEFINE k == e - p
           f == q + k
<1>9. k \in j .. n - 1 /\ k \in 0 .. n - 1 /\ k + 1 \in j + 1 .. n /\ p + (k + 1) = e + 1 /\ q + (k + 1) = f + 1
      /\ f \in q + j .. Len(y) /\ f \in q .. Len(y)
  BY <1>0, <1>1, <1>8
<1>10. SubSeq(x, p + j, e) = SubSeq(y, q + j, f)
  <2>1. ASSUME NEW i \in 0 .. e - (p + j) PROVE x[p + j + i] = y[q + j + i]
    <3>1. j + i \in 0 .. n - 1 /\ p + (j + i) = p + j + i /\ q + (j + i) = q + j + i
      BY <1>0, <1>1, <1>8
    <3> QED BY <1>1, <3>1
  <2>2. e - (p + j) = f - (q + j)
    BY <1>0, <1>1, <1>8
  <2>3. Same(x, p + j, y, q + j, e - (p + j))
    BY <2>1 DEF Same
  <2>4. e \in p + j .. Len(x) /\ f \in q + j .. Len(y)
    BY <1>4, <1>9
  <2> HIDE DEF f, k
  <2>5. p + j \in 1 .. Len(x) /\ q + j \in 1 .. Len(y)
    BY <1>2
  <2> DEFINE a == p + j
             b == q + j
  <2>6. /\ a \in 1 .. Len(x) /\ b \in 1 .. Len(y) /\ e \in a .. Len(x) /\ f \in b .. Len(y)
        /\ e - a = f - b /\ Same(x, a, y, b, e - a)
    BY <2>2, <2>3, <2>4, <2>5, Zenon
  <2> HIDE DEF a, b
  <2>7. SubSeq(x, a, e) = SubSeq(y, b, f)
    <3>1. \A u \in 1 .. Len(x), v \in 1 .. Len(y) : \A g \in u .. Len(x), h \in v .. Len(y) :
            g - u = h - v /\ Same(x, u, y, v, g - u) => SubSeq(x, u, g) = SubSeq(y, v, h)
      BY PartSame
    <3> QED BY <2>6, <3>1, Zenon
  <2> QED BY <2>7 DEF a, b
<1>11. f \in TokenEnds(y, q + j)
  <2>1. CASE k = n - 1
    <3>1. f = Len(y) \/ f + 1 \in q + n .. Len(y)
      <4>0. k + 1 = n
        BY <1>1, <2>1
      <4>1. f + 1 = q + n /\ f <= Len(y) /\ f \in Int
        BY <1>0, <1>9, <4>0
      <4> HIDE DEF f
      <4> QED BY <1>0, <4>1
    <3>2. f = Len(y) \/ y[f + 1] \in Separators
      BY <1>1, <3>1
    <3> HIDE DEF f
    <3> QED BY <1>2, <1>9, <3>2, EndIs
  <2>2. CASE k < n - 1
    <3>1. e # Len(x) /\ k + 1 \in 0 .. n - 1
      BY <1>0, <1>1, <1>8, <1>9, <2>2
    <3>2. y[q + (k + 1)] = x[p + (k + 1)]
      BY <1>1, <3>1
    <3>3. y[f + 1] \in Separators
      BY <1>4, <1>9, <3>1, <3>2
    <3> HIDE DEF f
    <3> QED BY <1>2, <1>9, <3>3, EndIs
  <2>3. k = n - 1 \/ k < n - 1
    <3>1. k \in 0 .. n - 1 /\ n \in Nat
      BY <1>1, <1>9
    <3> HIDE DEF k
    <3> QED BY <3>1
  <2> QED BY <2>1, <2>2, <2>3
<1>12. ms \in Reads(y)[f + 1]
  <2>1. Reads(x)[p + (k + 1)] = Reads(y)[q + (k + 1)]
    BY <1>9
  <2> QED BY <1>6, <1>9, <2>1
<1>13. m \in TokenMeanings(SubSeq(y, q + j, f))
  BY <1>5, <1>10
<1> HIDE DEF f
<1> QED BY <1>6, <1>11, <1>12, <1>13, Zenon DEF HasToken

\* Texts that are alike have the same readings.
LEMMA AlikeReads ==
  ASSUME NEW C, NEW x \in Seq(C), NEW y \in Seq(C), NEW p, NEW q, NEW n, Alike(x, p, y, q, n)
  PROVE  Reads(x)[p] = Reads(y)[q]
<1>0. Len(x) \in Nat /\ Len(y) \in Nat
  BY LenProperties
<1>1. /\ p \in 1 .. Len(x) /\ p + n - 1 <= Len(x)
      /\ q \in 1 .. Len(y) /\ q + n - 1 <= Len(y)
      /\ n \in Nat \ {0}
      /\ \A i \in 0 .. n - 1 : x[p + i] = y[q + i]
      /\ \A i \in p + n .. Len(x) : x[i] \in Separators
      /\ \A i \in q + n .. Len(y) : y[i] \in Separators
  BY DEF Alike
<1> DEFINE S == {k \in 1 .. n + 1 : \A i \in k - 1 .. n : Reads(x)[p + i] = Reads(y)[q + i]}
<1>2. n + 1 \in S
  <2>1. p + n \in 1 .. Len(x) + 1 /\ q + n \in 1 .. Len(y) + 1
    BY <1>0, <1>1
  <2>2. Reads(x)[p + n] = {<<>>} /\ Reads(y)[q + n] = {<<>>}
    BY <1>1, <2>1, ReadsAtEnd
  <2>3. ASSUME NEW i \in (n + 1) - 1 .. n PROVE Reads(x)[p + i] = Reads(y)[q + i]
    <3>1. i = n
      BY <1>1
    <3> QED BY <2>2, <3>1
  <2>4. n + 1 \in 1 .. n + 1
    BY <1>1
  <2>5. \A i \in (n + 1) - 1 .. n : Reads(x)[p + i] = Reads(y)[q + i]
    BY <2>3
  <2> QED BY <2>4, <2>5, Zenon DEF S
<1>3. ASSUME NEW k \in S, k > 1 PROVE k - 1 \in S
  <2> DEFINE j == k - 2
  <2>1. k \in 1 .. n + 1 /\ \A i \in k - 1 .. n : Reads(x)[p + i] = Reads(y)[q + i]
    OBVIOUS
  <2>2. j \in 0 .. n - 1 /\ j + 1 = k - 1 /\ k - 1 - 1 = j /\ k - 1 \in 1 .. n + 1
    BY <1>1, <1>3, <2>1
  <2>3. \A i \in j + 1 .. n : Reads(x)[p + i] = Reads(y)[q + i]
    BY <2>1, <2>2
  <2> HIDE DEF j, S
  <2>4. /\ p + j \in 1 .. Len(x) /\ q + j \in 1 .. Len(y) /\ x[p + j] = y[q + j]
        /\ p + j + 1 = p + (j + 1) /\ q + j + 1 = q + (j + 1) /\ j + 1 \in j + 1 .. n
    <3>1. /\ p \in 1 .. Len(x) /\ p + n - 1 <= Len(x) /\ q \in 1 .. Len(y) /\ q + n - 1 <= Len(y)
          /\ n \in Nat \ {0} /\ j \in 0 .. n - 1
      BY <1>1, <2>2
    <3>2. p + j \in 1 .. Len(x) /\ q + j \in 1 .. Len(y)
      BY <1>0, <3>1
    <3>3. p + j + 1 = p + (j + 1) /\ q + j + 1 = q + (j + 1) /\ j + 1 \in j + 1 .. n
      BY <3>1
    <3>4. x[p + j] = y[q + j]
      BY <1>1, <2>2
    <3> QED BY <3>2, <3>3, <3>4
  <2>5. Reads(x)[p + j] = Reads(y)[q + j]
    <3>1. CASE x[p + j] \in Separators
      <4>1. Reads(x)[p + j] = Reads(x)[p + j + 1] /\ Reads(y)[q + j] = Reads(y)[q + j + 1]
        BY <2>4, <3>1, ReadsSkip
      <4>2. Reads(x)[p + (j + 1)] = Reads(y)[q + (j + 1)]
        BY <2>3, <2>4
      <4> QED BY <2>4, <4>1, <4>2
    <3>2. CASE x[p + j] \notin Separators
      <4>1. ASSUME NEW r \in Reads(x)[p + j] PROVE r \in Reads(y)[q + j]
        <5>1. HasToken(x, p + j, r)
          BY <2>4, <3>2, ReadsNotEmpty
        <5>2. HasToken(y, q + j, r)
          BY <2>2, <2>3, <3>2, <5>1, TokenMoves
        <5> QED BY <2>4, <3>2, <5>2, HasTokenReads
      <4>2. ASSUME NEW r \in Reads(y)[q + j] PROVE r \in Reads(x)[p + j]
        <5>1. Alike(y, q, x, p, n)
          BY AlikeTurned
        <5>2. HasToken(y, q + j, r)
          BY <2>4, <3>2, ReadsNotEmpty
        <5>3. y[q + j] \notin Separators /\ \A i \in j + 1 .. n : Reads(y)[q + i] = Reads(x)[p + i]
          BY <2>3, <2>4, <3>2
        <5>4. HasToken(x, p + j, r)
          BY <2>2, <5>1, <5>2, <5>3, TokenMoves
        <5> QED BY <2>4, <3>2, <5>4, HasTokenReads
      <4> QED BY <4>1, <4>2, Zenon
    <3> QED BY <3>1, <3>2
  <2>6. ASSUME NEW i \in k - 1 - 1 .. n PROVE Reads(x)[p + i] = Reads(y)[q + i]
    <3>1. i = j \/ i \in j + 1 .. n
      BY <2>2
    <3> QED BY <2>3, <2>5, <3>1
  <2> QED BY <2>2, <2>6 DEF S
<1>4. 1 \in S
  <2>1. S \in SUBSET (1 .. n + 1) /\ n + 1 \in Nat /\ n + 1 >= 1
    BY <1>1
  <2> HIDE DEF S
  <2> QED BY <1>2, <1>3, <2>1, Descends
<1>5. 0 \in 1 - 1 .. n /\ p + 0 = p /\ q + 0 = q
  BY <1>1
<1>6. Reads(x)[p + 0] = Reads(y)[q + 0]
  BY <1>4, <1>5
<1> QED BY <1>5, <1>6

FirstNot(t, S) == Min({Len(t) + 1} \cup {n \in DOMAIN t : t[n] \notin S})

LEMMA FirstNotIs ==
  ASSUME NEW C, NEW t \in Seq(C), NEW S
  PROVE  /\ FirstNot(t, S) \in 1 .. Len(t) + 1
         /\ FirstNot(t, S) <= Len(t) => t[FirstNot(t, S)] \notin S
         /\ \A n \in 1 .. FirstNot(t, S) - 1 : t[n] \in S
<1> DEFINE X == {Len(t) + 1} \cup {n \in DOMAIN t : t[n] \notin S}
           m == FirstNot(t, S)
<1>1. Len(t) \in Nat /\ DOMAIN t = 1 .. Len(t)
  BY LenProperties
<1>2. X \in SUBSET Nat /\ X # {} /\ X \in SUBSET (1 .. Len(t) + 1)
  BY <1>1
<1>3. Min(X) \in X /\ \A y \in X : Min(X) <= y
  BY <1>2, MinIsLeast
<1>4. m = Min(X)
  BY DEF FirstNot
<1> HIDE DEF m
<1>5. m \in X /\ \A y \in X : m <= y
  BY <1>3, <1>4
<1>6. m \in 1 .. Len(t) + 1 /\ (m <= Len(t) => t[m] \notin S)
  BY <1>1, <1>5
<1>7. ASSUME NEW n \in 1 .. m - 1 PROVE t[n] \in S
  <2>1. n \in 1 .. Len(t) /\ ~(m <= n)
    BY <1>1, <1>6
  <2>2. n \notin X
    BY <1>5, <2>1
  <2> QED BY <1>1, <2>1, <2>2
<1> QED BY <1>6, <1>7 DEF m

\* w is t without the characters of S at its end.
EndTrimmed(t, S, w) ==
  /\ Len(w) \in 0 .. Len(t) /\ Len(w) \in Nat /\ Len(t) \in Nat
  /\ \A n \in 1 .. Len(w) : w[n] = t[n]
  /\ Len(w) > 0 => w[Len(w)] \notin S
  /\ \A n \in Len(w) + 1 .. Len(t) : t[n] \in S

LEMMA TrimEndIs ==
  ASSUME NEW C, NEW t \in Seq(C), NEW S
  PROVE  TrimEnd(t, S) \in Seq(C) /\ EndTrimmed(t, S, TrimEnd(t, S))
<1> DEFINE k == LastNot(t, S)
           w == TrimEnd(t, S)
<1>0. Len(t) \in Nat
  BY LenProperties
<1>1. k \in 0 .. Len(t) /\ (k > 0 => t[k] \notin S) /\ \A n \in k + 1 .. Len(t) : t[n] \in S
  BY LastNotIs
<1>2. w = SubSeq(t, 1, k)
  BY DEF TrimEnd, LastNot
<1> HIDE DEF k, w
<1>3. w \in Seq(C) /\ Len(w) = k /\ \A n \in 1 .. k : w[n] = t[n]
  BY <1>1, <1>2, PrefixIs
<1>4. k > 0 => w[k] = t[k]
  BY <1>0, <1>1, <1>3
<1>5. EndTrimmed(t, S, w)
  BY <1>0, <1>1, <1>3, <1>4 DEF EndTrimmed
<1> QED BY <1>3, <1>5 DEF w

\* w is t from position f on, before which there are only characters of S.
StartTrimmed(t, S, f, w) ==
  /\ f \in 1 .. Len(t) + 1 /\ Len(t) \in Nat
  /\ f <= Len(t) => t[f] \notin S
  /\ \A n \in 1 .. f - 1 : t[n] \in S
  /\ Len(w) = Len(t) + 1 - f
  /\ \A i \in 0 .. Len(w) - 1 : w[1 + i] = t[f + i]

LEMMA TrimStartIs ==
  ASSUME NEW C, NEW t \in Seq(C), NEW S
  PROVE  TrimStart(t, S) \in Seq(C) /\ StartTrimmed(t, S, FirstNot(t, S), TrimStart(t, S))
<1> DEFINE f == FirstNot(t, S)
           w == TrimStart(t, S)
<1>0. Len(t) \in Nat
  BY LenProperties
<1>1. /\ f \in 1 .. Len(t) + 1 /\ (f <= Len(t) => t[f] \notin S)
      /\ \A n \in 1 .. f - 1 : t[n] \in S
  BY FirstNotIs
<1>2. w = SubSeq(t, f, Len(t))
  BY DEF TrimStart, FirstNot
<1> HIDE DEF f, w
<1>3. \A i \in f .. Len(t) : t[i] \in C
  BY <1>0, <1>1, ElementOfSeq
<1>4. /\ w \in Seq(C) /\ Len(w) = IF f <= Len(t) THEN Len(t) - f + 1 ELSE 0
      /\ \A i \in 1 .. Len(t) - f + 1 : w[i] = t[f + i - 1]
  <2>1. f \in Int /\ Len(t) \in Int
    BY <1>0, <1>1
  <2> QED BY <1>2, <1>3, <2>1, SubSeqProperties
<1>5. Len(w) = Len(t) + 1 - f /\ Len(w) \in Nat
  BY <1>0, <1>1, <1>4
<1>6. ASSUME NEW i \in 0 .. Len(w) - 1 PROVE w[1 + i] = t[f + i]
  <2>1. 1 + i \in 1 .. Len(t) - f + 1 /\ f + (1 + i) - 1 = f + i
    BY <1>0, <1>1, <1>5
  <2>2. w[1 + i] = t[f + (1 + i) - 1]
    BY <1>4, <2>1
  <2> QED BY <2>1, <2>2
<1>7. StartTrimmed(t, S, f, w)
  BY <1>0, <1>1, <1>5, <1>6 DEF StartTrimmed
<1> QED BY <1>4, <1>7 DEF f, w

\* The server takes off the CRLF that the CLI puts behind a text, and no more.
LEMMA CrlfComesOff ==
  ASSUME NEW C, CR \in C, LF \in C, NEW w \in Seq(C), Len(w) > 0, w[Len(w)] \notin {CR, LF}
  PROVE  CommandPart(w \o CRLF) = w
<1> DEFINE t == w \o CRLF
           u == CommandPart(t)
           m == Len(w)
<1>0. m \in Nat /\ m > 0
  BY LenProperties
<1>1. CRLF \in Seq(C) /\ Len(CRLF) = 2 /\ CRLF[1] = CR /\ CRLF[2] = LF
  BY DEF CRLF
<1>2. /\ t \in Seq(C) /\ Len(t) = m + Len(CRLF)
      /\ \A i \in 1 .. m + Len(CRLF) : t[i] = IF i <= m THEN w[i] ELSE CRLF[i - m]
  BY <1>1, ConcatProperties
<1> HIDE DEF t
<1>3. u = TrimEnd(t, {CR, LF})
  BY DEF CommandPart
<1> HIDE DEF u
<1>4. /\ u \in Seq(C) /\ Len(u) \in 0 .. Len(t) /\ Len(u) \in Nat /\ Len(t) \in Nat
      /\ \A n \in 1 .. Len(u) : u[n] = t[n]
      /\ Len(u) > 0 => u[Len(u)] \notin {CR, LF}
      /\ \A n \in Len(u) + 1 .. Len(t) : t[n] \in {CR, LF}
  <2>1. u \in Seq(C) /\ EndTrimmed(t, {CR, LF}, u)
    BY <1>2, <1>3, TrimEndIs
  <2> QED BY <2>1 DEF EndTrimmed
<1> HIDE DEF m
<1>5. /\ Len(t) = m + 2 /\ \A i \in 1 .. m : t[i] = w[i]
      /\ t[m + 1] = CR /\ t[m + 2] = LF
  <2>1. Len(t) = m + 2
    BY <1>1, <1>2
  <2>2. ASSUME NEW i \in 1 .. m PROVE t[i] = w[i]
    <3>1. i \in 1 .. m + Len(CRLF) /\ i <= m
      BY <1>0, <1>1
    <3> QED BY <1>2, <3>1
  <2>3. t[m + 1] = CRLF[(m + 1) - m] /\ t[m + 2] = CRLF[(m + 2) - m]
    <3>1. /\ m + 1 \in 1 .. m + Len(CRLF) /\ ~(m + 1 <= m)
          /\ m + 2 \in 1 .. m + Len(CRLF) /\ ~(m + 2 <= m)
      BY <1>0, <1>1
    <3>2. \A i \in 1 .. m + Len(CRLF) : t[i] = IF i <= m THEN w[i] ELSE CRLF[i - m]
      BY <1>2
    <3>3. t[m + 1] = IF m + 1 <= m THEN w[m + 1] ELSE CRLF[(m + 1) - m]
      BY <3>1, <3>2, Zenon
    <3>4. t[m + 2] = IF m + 2 <= m THEN w[m + 2] ELSE CRLF[(m + 2) - m]
      BY <3>1, <3>2, Zenon
    <3> QED BY <3>1, <3>3, <3>4, Zenon
  <2>4. (m + 1) - m = 1 /\ (m + 2) - m = 2
    BY <1>0
  <2> QED BY <1>1, <2>1, <2>2, <2>3, <2>4
<1>6. Len(u) # m + 1 /\ Len(u) # m + 2
  <2>1. ASSUME Len(u) = m + 1 PROVE FALSE
    <3>1. u[m + 1] = t[m + 1] /\ Len(u) > 0
      BY <1>0, <1>4, <2>1
    <3> QED BY <1>4, <1>5, <2>1, <3>1
  <2>2. ASSUME Len(u) = m + 2 PROVE FALSE
    <3>1. u[m + 2] = t[m + 2] /\ Len(u) > 0
      BY <1>0, <1>4, <2>2
    <3> QED BY <1>4, <1>5, <2>2, <3>1
  <2> QED BY <2>1, <2>2
<1>7. ~(Len(u) < m)
  <2>1. SUFFICES ASSUME Len(u) < m PROVE FALSE
    OBVIOUS
  <2>2. m \in Len(u) + 1 .. Len(t) /\ m \in 1 .. m
    BY <1>0, <1>4, <1>5, <2>1
  <2>3. t[m] \in {CR, LF} /\ t[m] = w[m]
    BY <1>4, <1>5, <2>2
  <2> QED BY <2>3 DEF m
<1>8. Len(u) = m
  BY <1>0, <1>4, <1>5, <1>6, <1>7
<1>9. \A i \in 1 .. m : u[i] = w[i]
  BY <1>4, <1>5, <1>8
<1>10. u = w
  <2>1. Len(u) = Len(w) /\ \A i \in 1 .. Len(u) : u[i] = w[i]
    BY <1>8, <1>9 DEF m
  <2> QED BY <1>4, <2>1, SeqEqual
<1> QED BY <1>10 DEF u, t
\* A word of one plain character comes first, behind separators or not.
LEMMA WordReads ==
  ASSUME NEW C, NEW t \in Seq(C), NEW s \in 1 .. Len(t), t[s] \notin Separators \cup {Quote},
         s = Len(t) \/ t[s + 1] \in Separators, \A n \in 1 .. s - 1 : t[n] \in Separators
  PROVE  Readings(t) = Behind(<< <<t[s]>> >>, Reads(t)[s + 1])
<1>0. Len(t) \in Nat /\ s \in s .. Len(t) /\ 1 \in 1 .. Len(t) + 1 /\ s \in 1 .. Len(t) + 1
  BY LenProperties
<1>1. Reads(t)[1] = Reads(t)[s]
  BY <1>0, ReadsSkipAll
<1>2. Reads(t)[s] = Behind(<<SubSeq(t, s, s)>>, Reads(t)[s + 1])
  <2>1. \A n \in s .. s : t[n] \notin Separators \cup {Quote}
    BY <1>0
  <2> QED BY <1>0, <2>1, PlainReads
<1>3. SubSeq(t, s, s) = <<t[s]>>
  <2> DEFINE w == SubSeq(t, s, s)
  <2>1. w \in Seq(C) /\ Len(w) = s - s + 1 /\ w[1] = t[s]
    BY <1>0, TokenIs
  <2>2. Len(w) = 1
    BY <1>0, <2>1
  <2> HIDE DEF w
  <2>3. w = <<w[1]>>
    <3> DEFINE c == w[1]
    <3>1. c \in C
      BY <2>1, <2>2, ElementOfSeq
    <3> HIDE DEF c
    <3>2. <<c>> \in Seq(C) /\ Len(<<c>>) = 1 /\ <<c>>[1] = c
      BY <3>1
    <3>3. \A i \in 1 .. Len(w) : w[i] = <<c>>[i]
      BY <2>2, <3>2 DEF c
    <3> QED BY <2>1, <2>2, <3>2, <3>3, SeqEqual DEF c
  <2> QED BY <2>1, <2>3 DEF w
<1> QED BY <1>1, <1>2, <1>3, Zenon DEF Readings

\* The argument a of copy_subscribe_argument in the text u behind the keyword: the
\* characters from g on up to the last that is not a separator.
Cut(u, g, a) ==
  /\ g \in 1 .. Len(u) /\ Len(a) \in Nat \ {0} /\ g + Len(a) - 1 <= Len(u)
  /\ \A n \in 1 .. g - 1 : u[n] \in Separators
  /\ u[g] \notin Separators
  /\ \A i \in 0 .. Len(a) - 1 : a[1 + i] = u[g + i]
  /\ a[Len(a)] \notin Separators
  /\ \A n \in g + Len(a) .. Len(u) : u[n] \in Separators

LEMMA ArgumentIs ==
  ASSUME NEW C, NEW u \in Seq(C)
  PROVE  /\ Argument(u) \in Seq(C)
         /\ Argument(u) = <<>> => \A n \in 1 .. Len(u) : u[n] \in Separators
         /\ Argument(u) # <<>> => \E g : Cut(u, g, Argument(u))
<1> DEFINE g == FirstNot(u, Separators)
           w == TrimStart(u, Separators)
           a == TrimEnd(w, Separators)
<1>1. w \in Seq(C) /\ StartTrimmed(u, Separators, g, w)
  BY TrimStartIs
<1>2. a \in Seq(C) /\ EndTrimmed(w, Separators, a)
  BY <1>1, TrimEndIs
<1>3. Argument(u) = a
  BY DEF Argument
<1> HIDE DEF g, w, a
<1>4. /\ g \in 1 .. Len(u) + 1 /\ Len(u) \in Nat
      /\ g <= Len(u) => u[g] \notin Separators
      /\ \A n \in 1 .. g - 1 : u[n] \in Separators
      /\ Len(w) = Len(u) + 1 - g
      /\ \A i \in 0 .. Len(w) - 1 : w[1 + i] = u[g + i]
  BY <1>1 DEF StartTrimmed
<1>5. /\ Len(a) \in 0 .. Len(w) /\ Len(a) \in Nat /\ Len(w) \in Nat
      /\ \A n \in 1 .. Len(a) : a[n] = w[n]
      /\ Len(a) > 0 => a[Len(a)] \notin Separators
      /\ \A n \in Len(a) + 1 .. Len(w) : w[n] \in Separators
  BY <1>2 DEF EndTrimmed
<1>6. ASSUME NEW n \in g + Len(a) .. Len(u) PROVE u[n] \in Separators
  <2>1. /\ n - g \in 0 .. Len(w) - 1 /\ g + (n - g) = n
        /\ 1 + (n - g) \in Len(a) + 1 .. Len(w)
    BY <1>4, <1>5
  <2>2. w[1 + (n - g)] = u[g + (n - g)]
    BY <1>4, <2>1
  <2>3. w[1 + (n - g)] \in Separators
    BY <1>5, <2>1
  <2> QED BY <2>1, <2>2, <2>3
<1>7. ASSUME a = <<>>, NEW n \in 1 .. Len(u) PROVE u[n] \in Separators
  <2>1. Len(a) = 0
    BY <1>7, EmptySeq
  <2>2. n \in 1 .. g - 1 \/ n \in g + Len(a) .. Len(u)
    BY <1>4, <2>1
  <2> QED BY <1>4, <1>6, <2>2
<1>8. ASSUME a # <<>> PROVE Cut(u, g, a)
  <2>1. Len(a) # 0
    BY <1>2, <1>8, EmptySeq
  <2>2. Len(a) \in Nat \ {0} /\ Len(a) > 0 /\ g + Len(a) - 1 <= Len(u) /\ g \in 1 .. Len(u) /\ g <= Len(u)
    BY <1>4, <1>5, <2>1
  <2>3. ASSUME NEW i \in 0 .. Len(a) - 1 PROVE a[1 + i] = u[g + i]
    <3>1. i \in 0 .. Len(w) - 1 /\ 1 + i \in 1 .. Len(a)
      BY <1>5
    <3> QED BY <1>4, <1>5, <3>1
  <2> QED BY <1>4, <1>5, <1>6, <2>2, <2>3 DEF Cut
<1> QED BY <1>2, <1>3, <1>7, <1>8

\* The keyword is at s: SUBSCRIBE, with a separator behind it and only separators
\* before it.
KeywordAt(v, s) ==
  /\ s \in 1 .. Len(v) /\ s + 1 \in 1 .. Len(v)
  /\ v[s] = SUBSCRIBE /\ v[s + 1] \in Separators
  /\ \A n \in 1 .. s - 1 : v[n] \in Separators

\* The characters behind the keyword.
BehindKeyword(v, s, u) ==
  /\ Len(u) = Len(v) - s
  /\ \A n \in 1 .. Len(v) - s : u[n] = v[s + n]

LEMMA SubscribeIs ==
  ASSUME NEW C, NEW l \in Seq(C), NEW v, v = CommandPart(l)
  PROVE  \/ SubscribeArgument(l) = <<>> /\ \A s : ~KeywordAt(v, s)
         \/ \E s : \E u \in Seq(C) : /\ KeywordAt(v, s) /\ BehindKeyword(v, s, u)
                                     /\ SubscribeArgument(l) = Argument(u)
                                     /\ \A n : KeywordAt(v, n) => n = s
<1> DEFINE f == FirstNot(v, Separators)
           t == TrimStart(v, Separators)
<1>1. v \in Seq(C)
  BY TrimEndIs DEF CommandPart
<1>2. t \in Seq(C) /\ StartTrimmed(v, Separators, f, t)
  BY <1>1, TrimStartIs
<1>3. SubscribeArgument(l) = IF Keyword(t) THEN Argument(Tail(t)) ELSE <<>>
  BY DEF SubscribeArgument
<1> HIDE DEF f, t
<1>4. /\ f \in 1 .. Len(v) + 1 /\ Len(v) \in Nat
      /\ f <= Len(v) => v[f] \notin Separators
      /\ \A n \in 1 .. f - 1 : v[n] \in Separators
      /\ Len(t) = Len(v) + 1 - f
      /\ \A i \in 0 .. Len(t) - 1 : t[1 + i] = v[f + i]
  BY <1>2 DEF StartTrimmed
<1>5. SUBSCRIBE \notin Separators
  BY DEF SUBSCRIBE, Separators
<1>6. ASSUME NEW n, KeywordAt(v, n) PROVE n = f
  <2>1. /\ n \in 1 .. Len(v) /\ v[n] \notin Separators /\ \A i \in 1 .. n - 1 : v[i] \in Separators
    BY <1>5, <1>6 DEF KeywordAt
  <2>2. ~(n < f)
    BY <1>4, <2>1
  <2>3. ~(f < n)
    <3>1. SUFFICES ASSUME f < n PROVE FALSE
      OBVIOUS
    <3>2. f \in 1 .. n - 1 /\ f <= Len(v)
      BY <1>4, <2>1, <3>1
    <3> QED BY <1>4, <2>1, <3>2
  <2> QED BY <1>4, <2>1, <2>2, <2>3
<1>7. KeywordAt(v, f) => Keyword(t)
  <2>1. SUFFICES ASSUME KeywordAt(v, f) PROVE Keyword(t)
    OBVIOUS
  <2>2. f \in 1 .. Len(v) /\ f + 1 \in 1 .. Len(v) /\ v[f] = SUBSCRIBE /\ v[f + 1] \in Separators
    BY <2>1 DEF KeywordAt
  <2>3. Len(t) > 1 /\ 0 \in 0 .. Len(t) - 1 /\ 1 \in 0 .. Len(t) - 1
    BY <1>4, <2>2
  <2>4. t[1 + 0] = v[f + 0] /\ t[1 + 1] = v[f + 1]
    BY <1>4, <2>3
  <2>5. t[1] = v[f] /\ t[2] = v[f + 1]
    BY <2>2, <2>4
  <2> QED BY <2>2, <2>3, <2>5 DEF Keyword
<1>8. CASE ~Keyword(t)
  BY <1>3, <1>6, <1>7, <1>8
<1>9. CASE Keyword(t)
  <2>1. Len(t) > 1 /\ t[1] = SUBSCRIBE /\ t[2] \in Separators
    BY <1>9 DEF Keyword
  <2>2. f \in 1 .. Len(v) /\ f + 1 \in 1 .. Len(v) /\ 0 \in 0 .. Len(t) - 1 /\ 1 \in 0 .. Len(t) - 1
    BY <1>4, <2>1
  <2>3. t[1 + 0] = v[f + 0] /\ t[1 + 1] = v[f + 1]
    BY <1>4, <2>2
  <2>4. t[1] = v[f] /\ t[2] = v[f + 1]
    BY <2>2, <2>3
  <2>5. KeywordAt(v, f)
    BY <1>4, <2>1, <2>2, <2>4 DEF KeywordAt
  <2> DEFINE u == Tail(t)
  <2>6. t # <<>>
    BY <2>1, EmptySeq
  <2>7. u \in Seq(C) /\ Len(u) = Len(t) - 1 /\ \A i \in 1 .. Len(u) : u[i] = t[i + 1]
    BY <1>2, <2>6, HeadTailProperties
  <2>8. SubscribeArgument(l) = Argument(u)
    BY <1>3, <1>9
  <2> HIDE DEF u
  <2>9. Len(u) = Len(v) - f
    BY <1>4, <2>7
  <2>10. ASSUME NEW n \in 1 .. Len(v) - f PROVE u[n] = v[f + n]
    <3>1. n \in 1 .. Len(u) /\ n \in 0 .. Len(t) - 1 /\ n + 1 = 1 + n
      BY <1>4, <2>9
    <3>2. u[n] = t[n + 1]
      BY <2>7, <3>1
    <3>3. t[1 + n] = v[f + n]
      BY <1>4, <3>1
    <3> QED BY <3>1, <3>2, <3>3
  <2>11. BehindKeyword(v, f, u)
    BY <2>9, <2>10 DEF BehindKeyword
  <2> QED BY <1>6, <2>5, <2>7, <2>8, <2>11, Zenon
<1> QED BY <1>8, <1>9

\* A sequence with one element in front.
LEMMA InFront ==
  ASSUME NEW D, NEW c \in D, NEW m \in Seq(D)
  PROVE  /\ <<c>> \o m \in Seq(D) /\ <<c>> \o m # <<>> /\ (<<c>> \o m)[1] = c
         /\ Len(<<c>> \o m) = Len(m) + 1 /\ Len(m) \in Nat /\ Tail(<<c>> \o m) = m
<1> DEFINE r == <<c>> \o m
           o == <<c>>
           t == Tail(r)
<1>0. Len(m) \in Nat
  BY LenProperties
<1>1. r \in Seq(D) /\ r # <<>> /\ Len(r) = Len(m) + 1
  BY ConcatIs
<1>2. o \in Seq(D) /\ Len(o) = 1 /\ o[1] = c
  OBVIOUS
<1>3. \A i \in 1 .. Len(o) + Len(m) : r[i] = IF i <= Len(o) THEN o[i] ELSE m[i - Len(o)]
  BY <1>2, ConcatProperties
<1>4. t \in Seq(D) /\ Len(t) = Len(r) - 1 /\ \A i \in 1 .. Len(t) : t[i] = r[i + 1]
  BY <1>1, HeadTailProperties
<1> HIDE DEF r, o, t
<1>5. r[1] = c
  <2>1. 1 \in 1 .. Len(o) + Len(m) /\ 1 <= Len(o)
    BY <1>0, <1>2
  <2> QED BY <1>2, <1>3, <2>1
<1>6. ASSUME NEW i \in 1 .. Len(t) PROVE t[i] = m[i]
  <2>1. i + 1 \in 1 .. Len(o) + Len(m) /\ ~(i + 1 <= Len(o)) /\ (i + 1) - Len(o) = i
    BY <1>0, <1>1, <1>2, <1>4
  <2>2. r[i + 1] = m[(i + 1) - Len(o)]
    BY <1>3, <2>1
  <2> QED BY <1>4, <2>1, <2>2
<1>7. Len(t) = Len(m)
  BY <1>0, <1>1, <1>4
<1>8. t = m
  BY <1>4, <1>6, <1>7, SeqEqual
<1> QED BY <1>0, <1>1, <1>5, <1>8 DEF r, t

\* Where c is the first word of a reading of Y, d takes its place.
Replaced(Y, c, d) == {<<d>> \o Tail(q) : q \in {r \in Y : r[1] = c}}

\* A word in front is taken off, and another put there.
LEMMA WordChanged ==
  ASSUME NEW D, NEW c \in D, NEW d \in D, NEW X, X \subseteq Seq(D), NEW Y, Y = Behind(<<c>>, X)
  PROVE  Replaced(Y, c, d) = Behind(<<d>>, X)
<1> DEFINE Z == {r \in Y : r[1] = c}
           V == {<<d>> \o Tail(q) : q \in Z}
           W == {<<d>> \o m : m \in X}
<1>1. \A q : q \in Y <=> \E m \in X : q = <<c>> \o m
  BY Zenon DEF Behind
<1>2. ASSUME NEW m \in X PROVE (<<c>> \o m)[1] = c /\ Tail(<<c>> \o m) = m
  BY InFront
<1>3. ASSUME NEW x \in V PROVE x \in W
  <2>1. PICK q \in Z : x = <<d>> \o Tail(q)
    OBVIOUS
  <2>2. q \in Y
    OBVIOUS
  <2>3. PICK m \in X : q = <<c>> \o m
    BY <1>1, <2>2
  <2>4. Tail(q) = m
    BY <1>2, <2>3
  <2> QED BY <2>1, <2>4
<1>4. ASSUME NEW x \in W PROVE x \in V
  <2>1. PICK m \in X : x = <<d>> \o m
    OBVIOUS
  <2> DEFINE q == <<c>> \o m
  <2>2. q \in Y
    BY <1>1, Zenon
  <2>3. q[1] = c /\ Tail(q) = m
    BY <1>2
  <2> HIDE DEF q
  <2>4. q \in Z
    BY <2>2, <2>3
  <2> QED BY <2>1, <2>3, <2>4
<1>5. V = W
  BY <1>3, <1>4, Zenon
<1> QED BY <1>5, Zenon DEF Behind, Replaced

\* The request is the line that was typed, up to its end.
LEMMA SentIs ==
  ASSUME NEW l \in Typed, Len(CommandPart(l)) > 0, text = Sent(l)
  PROVE  /\ CommandPart(l) \in Seq(Characters) /\ Request = CommandPart(l)
         /\ EndTrimmed(l, {CR, LF}, CommandPart(l))
<1> DEFINE v == CommandPart(l)
<1>1. l \in Seq(Characters) /\ CR \in Characters /\ LF \in Characters
  BY LinesAssumption, UpperAssumption
<1>2. v \in Seq(Characters) /\ EndTrimmed(l, {CR, LF}, v)
  BY <1>1, TrimEndIs DEF CommandPart
<1> HIDE DEF v
<1>3. Len(v) > 0 /\ v[Len(v)] \notin {CR, LF}
  BY <1>2 DEF EndTrimmed, v
<1>4. CommandPart(v \o CRLF) = v
  BY <1>1, <1>2, <1>3, CrlfComesOff
<1>5. text = v \o CRLF
  BY DEF Sent, v
<1>6. Request = CommandPart(text)
  BY DEF Request, CommandPart, TrimEnd
<1> QED BY <1>2, <1>4, <1>5, <1>6 DEF v

\* What an accepted line reads as.
LEMMA DoneReads ==
  ASSUME Inv, pc = "done", NEW v \in Seq(Characters), Request = v
  PROVE  \E r \in Seq(Seq(Characters)) : /\ Readings(v) = {r} /\ r # <<>>
                                         /\ Tokens = <<Command(r[1])>> \o Tail(r)
<1>1. PICK r \in Readings(Request) : IsRequest(r) /\ Tokens = <<Command(r[1])>> \o Tail(r)
  BY Zenon DEF Inv, ParsesAsGrammar
<1>2. \A x, q \in Readings(Request) : x = q
  BY DEF Inv, EndInv
<1>3. r \in Readings(v) /\ Readings(v) = {r}
  BY <1>1, <1>2
<1>4. Readings(v) \subseteq Seq(Seq(Characters))
  <2>1. 1 \in 1 .. Len(v) + 1
    BY LenProperties
  <2> QED BY <2>1, ReadsTyped DEF Readings
<1>5. r # <<>>
  BY <1>1 DEF IsRequest
<1> QED BY <1>1, <1>3, <1>4, <1>5

\* A line that the CLI takes for a subscription reads as one.
LEMMA SubscribeReads ==
  ASSUME Inv, pc = "done", NEW v \in Seq(Characters), Request = v, NEW s, KeywordAt(v, s)
  PROVE  /\ Readings(v) = Behind(<< <<SUBSCRIBE>> >>, Reads(v)[s + 1])
         /\ Readings(v) = {Tokens} /\ Tokens[1] = <<SUBSCRIBE>>
<1> DEFINE w == <<SUBSCRIBE>>
           X == Reads(v)[s + 1]
<1>0. Len(v) \in Nat
  BY LenProperties
<1>1. /\ s \in 1 .. Len(v) /\ s + 1 \in 1 .. Len(v) + 1 /\ v[s] = SUBSCRIBE
      /\ v[s + 1] \in Separators /\ \A n \in 1 .. s - 1 : v[n] \in Separators
  BY <1>0 DEF KeywordAt
<1>2. SUBSCRIBE \in Characters /\ Upper[SUBSCRIBE] = SUBSCRIBE
  <2>1. SUBSCRIBE \in Characters
    BY <1>1, ElementOfSeq
  <2> QED BY <2>1, WordAssumption
<1>3. v[s] \notin Separators \cup {Quote}
  BY <1>1 DEF SUBSCRIBE, Separators, Quote
<1>4. Readings(v) = Behind(<<w>>, X)
  <2>1. Readings(v) = Behind(<< <<v[s]>> >>, Reads(v)[s + 1])
    BY <1>1, <1>3, WordReads
  <2> QED BY <1>1, <2>1
<1>5. X \subseteq Seq(Seq(Characters))
  BY <1>1, ReadsTyped
<1>6. w \in Seq(Characters)
  BY <1>2
<1>7. PICK r \in Seq(Seq(Characters)) : /\ Readings(v) = {r} /\ r # <<>>
                                        /\ Tokens = <<Command(r[1])>> \o Tail(r)
  BY DoneReads
<1>8. Command(w) = w
  <2>1. w = [n \in 1 .. 1 |-> SUBSCRIBE] /\ DOMAIN w = 1 .. 1
    OBVIOUS
  <2> QED BY <1>2, <2>1 DEF Command
<1> HIDE DEF w, X
<1>9. PICK m \in X : r = <<w>> \o m
  <2>1. r \in Behind(<<w>>, X)
    BY <1>4, <1>7
  <2> QED BY <2>1, Zenon DEF Behind
<1>10. r[1] = w /\ Tail(r) = m
  BY <1>5, <1>6, <1>9, InFront
<1>11. Tokens = r
  BY <1>7, <1>8, <1>9, <1>10
<1> QED BY <1>4, <1>7, <1>10, <1>11 DEF w, X

Blank == " "

\* unsubscribe_command without its CRLF.
UndoText(a) == <<UNSUBSCRIBE, Blank>> \o a

LEMMA BlankIs == Blank \in Separators /\ \A a : Unsubscribe(a) = UndoText(a) \o CRLF
BY Zenon DEF Blank, Separators, Unsubscribe, UndoText

\* UNSUBSCRIBE with the argument reads as SUBSCRIBE with it, but for the word.
LEMMA UndoReads ==
  ASSUME NEW C, NEW v \in Seq(C), NEW s, KeywordAt(v, s),
         NEW u \in Seq(C), BehindKeyword(v, s, u), NEW g, NEW a \in Seq(C), Cut(u, g, a),
         UNSUBSCRIBE \in C, Blank \in C
  PROVE  /\ UndoText(a) \in Seq(C) /\ Len(UndoText(a)) = Len(a) + 2
         /\ UndoText(a)[Len(UndoText(a))] = a[Len(a)]
         /\ Readings(UndoText(a)) = Behind(<< <<UNSUBSCRIBE>> >>, Reads(v)[s + 1])
<1> DEFINE o == <<UNSUBSCRIBE, Blank>>
           w == UndoText(a)
           p == s + g
           n == Len(a)
<1>0. Len(v) \in Nat /\ Len(u) \in Nat /\ Len(a) \in Nat
  BY LenProperties
<1>1. /\ s \in 1 .. Len(v) /\ s + 1 \in 1 .. Len(v) /\ v[s] = SUBSCRIBE
      /\ v[s + 1] \in Separators /\ \A i \in 1 .. s - 1 : v[i] \in Separators
  BY DEF KeywordAt
<1>2. Len(u) = Len(v) - s /\ \A i \in 1 .. Len(v) - s : u[i] = v[s + i]
  BY DEF BehindKeyword
<1>3. /\ g \in 1 .. Len(u) /\ n \in Nat \ {0} /\ g + n - 1 <= Len(u)
      /\ \A i \in 1 .. g - 1 : u[i] \in Separators
      /\ \A i \in 0 .. n - 1 : a[1 + i] = u[g + i]
      /\ a[n] \notin Separators
      /\ \A i \in g + n .. Len(u) : u[i] \in Separators
  BY DEF Cut
<1>4. o \in Seq(C) /\ Len(o) = 2 /\ o[1] = UNSUBSCRIBE /\ o[2] = Blank
  OBVIOUS
<1>5. /\ w \in Seq(C) /\ Len(w) = Len(o) + Len(a)
      /\ \A i \in 1 .. Len(o) + Len(a) : w[i] = IF i <= Len(o) THEN o[i] ELSE a[i - Len(o)]
  BY <1>4, ConcatProperties DEF UndoText
<1> HIDE DEF o, w, p, n
<1>6. Len(w) = n + 2 /\ w[1] = UNSUBSCRIBE /\ w[2] = Blank
  <2>1. 1 \in 1 .. Len(o) + Len(a) /\ 1 <= Len(o) /\ 2 \in 1 .. Len(o) + Len(a) /\ 2 <= Len(o)
    BY <1>0, <1>4
  <2>2. w[1] = o[1] /\ w[2] = o[2]
    BY <1>5, <2>1
  <2>3. Len(w) = n + 2
    BY <1>0, <1>4, <1>5 DEF n
  <2> QED BY <1>4, <2>2, <2>3
<1>7. ASSUME NEW i \in 0 .. n - 1 PROVE w[3 + i] = a[1 + i]
  <2>1. 3 + i \in 1 .. Len(o) + Len(a) /\ ~(3 + i <= Len(o)) /\ (3 + i) - Len(o) = 1 + i
    BY <1>0, <1>3, <1>4 DEF n
  <2>2. w[3 + i] = a[(3 + i) - Len(o)]
    BY <1>5, <2>1
  <2> QED BY <2>1, <2>2
<1>8. ASSUME NEW i \in 0 .. n - 1 PROVE v[p + i] = a[1 + i]
  <2>1. g + i \in 1 .. Len(v) - s /\ s + (g + i) = p + i
    BY <1>0, <1>1, <1>2, <1>3 DEF p
  <2>2. u[g + i] = v[s + (g + i)]
    BY <1>2, <2>1
  <2> QED BY <1>3, <2>1, <2>2
<1>9. p \in 1 .. Len(v) /\ p + n - 1 <= Len(v) /\ p \in s + 1 .. Len(v) + 1 /\ p \in Nat
  <2>1. /\ s \in 1 .. Len(v) /\ Len(u) = Len(v) - s /\ g \in 1 .. Len(u) /\ n \in Nat \ {0}
        /\ g + n - 1 <= Len(u)
    BY <1>1, <1>2, <1>3
  <2> QED BY <1>0, <2>1 DEF p
<1>10. n - 1 \in 0 .. n - 1 /\ 1 + (n - 1) = n /\ 3 + (n - 1) = n + 2
  <2>1. n \in Nat \ {0}
    BY <1>3
  <2> QED BY <2>1
<1>11. v[p + (n - 1)] \notin Separators
  BY <1>3, <1>8, <1>10
<1>12. ASSUME NEW i \in p + n .. Len(v) PROVE v[i] \in Separators
  <2>1. i - s \in g + n .. Len(u) /\ i - s \in 1 .. Len(v) - s /\ s + (i - s) = i
    BY <1>0, <1>1, <1>2, <1>3 DEF p
  <2>2. u[i - s] = v[s + (i - s)]
    BY <1>2, <2>1
  <2> QED BY <1>3, <2>1, <2>2
<1>13. Alike(v, p, w, 3, n)
  <2>1. 3 \in 1 .. Len(w) /\ 3 + n - 1 <= Len(w)
    BY <1>3, <1>6
  <2>2. \A i \in 0 .. n - 1 : v[p + i] = w[3 + i]
    BY <1>7, <1>8
  <2>3. \A i \in 3 + n .. Len(w) : w[i] \in Separators
    BY <1>3, <1>6
  <2> QED BY <1>3, <1>9, <1>11, <1>12, <2>1, <2>2, <2>3 DEF Alike
<1>14. Reads(v)[p] = Reads(w)[3]
  BY <1>5, <1>13, AlikeReads
<1>15. Reads(v)[s + 1] = Reads(v)[p]
  <2>1. ASSUME NEW i \in s + 1 .. p - 1 PROVE v[i] \in Separators
    <3>1. i - s \in 1 .. g - 1 /\ i - s \in 1 .. Len(v) - s /\ s + (i - s) = i
      BY <1>0, <1>1, <1>2, <1>3 DEF p
    <3>2. u[i - s] = v[s + (i - s)]
      BY <1>2, <3>1
    <3> QED BY <1>3, <3>1, <3>2
  <2>2. s + 1 \in 1 .. Len(v) + 1
    BY <1>0, <1>1
  <2> QED BY <1>9, <2>1, <2>2, ReadsSkipAll
<1>16. Readings(w) = Behind(<< <<UNSUBSCRIBE>> >>, Reads(w)[2])
  <2>1. w[1] \notin Separators \cup {Quote} /\ w[2] \in Separators
    BY <1>6, BlankIs DEF UNSUBSCRIBE, Separators, Quote
  <2>2. 1 \in 1 .. Len(w) /\ 1 + 1 = 2 /\ \A i \in 1 .. 1 - 1 : w[i] \in Separators
    BY <1>3, <1>6
  <2>3. Readings(w) = Behind(<< <<w[1]>> >>, Reads(w)[1 + 1])
    BY <1>5, <2>1, <2>2, WordReads
  <2> QED BY <1>6, <2>2, <2>3
<1>17. Reads(w)[2] = Reads(w)[3]
  <2>1. 2 \in 1 .. Len(w) /\ w[2] \in Separators /\ 2 + 1 = 3
    BY <1>3, <1>6, BlankIs
  <2>2. Reads(w)[2] = Reads(w)[2 + 1]
    BY <1>5, <2>1, ReadsSkip
  <2> QED BY <2>1, <2>2
<1>18. Readings(w) = Behind(<< <<UNSUBSCRIBE>> >>, Reads(v)[s + 1])
  BY <1>14, <1>15, <1>16, <1>17
<1>19. w[Len(w)] = a[n]
  <2>1. w[3 + (n - 1)] = a[1 + (n - 1)]
    BY <1>7, <1>10
  <2> QED BY <1>6, <1>10, <2>1
<1> QED BY <1>5, <1>6, <1>18, <1>19 DEF n, w

\* The channel that Ctrl+C takes back is the one that was subscribed to.
LEMMA UndoneIs ==
  ASSUME Inv, pc = "done", NEW l \in Typed, Len(CommandPart(l)) > 0, text = Sent(l),
         NEW a, a = SubscribeArgument(l), a # <<>>, undo = Unsubscribe(a)
  PROVE  Tokens[1] = <<SUBSCRIBE>> /\ (~EndsInCR => Undone = {Tokens})
<1> DEFINE v == CommandPart(l)
           C == Characters \cup {UNSUBSCRIBE, Blank}
<1>1. v \in Seq(Characters) /\ Request = v /\ EndTrimmed(l, {CR, LF}, v) /\ l \in Seq(Characters)
  BY SentIs, LinesAssumption
<1> HIDE DEF v
<1>2. PICK s : \E u \in Seq(Characters) : /\ KeywordAt(v, s) /\ BehindKeyword(v, s, u)
                                          /\ SubscribeArgument(l) = Argument(u)
  BY <1>1, SubscribeIs DEF v
<1>3. PICK u \in Seq(Characters) : /\ KeywordAt(v, s) /\ BehindKeyword(v, s, u)
                                   /\ SubscribeArgument(l) = Argument(u)
  BY <1>2
<1>4. a \in Seq(Characters) /\ \E g : Cut(u, g, a)
  BY <1>3, ArgumentIs
<1>5. PICK g : Cut(u, g, a)
  BY <1>4
<1>6. /\ Readings(v) = Behind(<< <<SUBSCRIBE>> >>, Reads(v)[s + 1])
      /\ Readings(v) = {Tokens} /\ Tokens[1] = <<SUBSCRIBE>>
  BY <1>1, <1>3, SubscribeReads
<1>7. ASSUME ~EndsInCR PROVE Undone = {Tokens}
  <2> DEFINE w == UndoText(a)
  <2>1. Characters \subseteq C /\ UNSUBSCRIBE \in C /\ Blank \in C /\ CR \in C /\ LF \in C
    BY UpperAssumption
  <2> HIDE DEF C
  <2>2. v \in Seq(C) /\ u \in Seq(C) /\ a \in Seq(C)
    BY <1>1, <1>4, <2>1, SeqMonotonic
  <2>3. /\ w \in Seq(C) /\ Len(w) = Len(a) + 2 /\ w[Len(w)] = a[Len(a)]
        /\ Readings(w) = Behind(<< <<UNSUBSCRIBE>> >>, Reads(v)[s + 1])
    <3>1. KeywordAt(v, s) /\ BehindKeyword(v, s, u)
      BY <1>3
    <3>2. UNSUBSCRIBE \in C /\ Blank \in C
      BY <2>1
    <3> QED BY <1>5, <2>2, <3>1, <3>2, UndoReads, SMTT(30)
  <2>4. undo = w \o CRLF
    BY BlankIs
  <2> HIDE DEF w
  <2>5. Len(a) \in Nat \ {0} /\ Len(w) \in Nat /\ Len(w) > 0
    BY <1>5, <2>3 DEF Cut
  <2>6. Len(undo) = Len(w) + 2 /\ undo[Len(w)] = w[Len(w)]
    <3>1. CRLF \in Seq(C) /\ Len(CRLF) = 2
      BY <2>1 DEF CRLF
    <3> DEFINE t == w \o CRLF
    <3>2. /\ Len(t) = Len(w) + Len(CRLF)
          /\ \A i \in 1 .. Len(w) + Len(CRLF) : t[i] = IF i <= Len(w) THEN w[i] ELSE CRLF[i - Len(w)]
      BY <2>3, <3>1, ConcatProperties
    <3>3. Len(w) \in 1 .. Len(w) + Len(CRLF) /\ Len(w) <= Len(w)
      BY <2>5, <3>1
    <3>4. undo = t
      BY <2>4
    <3> HIDE DEF t
    <3> QED BY <3>1, <3>2, <3>3, <3>4
  <2>7. a[Len(a)] # CR
    <3>1. Len(undo) - 2 = Len(w)
      BY <2>5, <2>6
    <3>2. undo[Len(w)] # CR
      BY <1>7, <3>1 DEF EndsInCR
    <3> QED BY <2>3, <2>6, <3>2
  <2>8. a[Len(a)] # LF
    <3> DEFINE h == s + (g + (Len(a) - 1))
    <3>1. /\ s \in 1 .. Len(v) /\ Len(u) = Len(v) - s
          /\ \A i \in 1 .. Len(v) - s : u[i] = v[s + i]
      BY <1>3 DEF KeywordAt, BehindKeyword
    <3>2. /\ g \in 1 .. Len(u) /\ g + Len(a) - 1 <= Len(u)
          /\ \A i \in 0 .. Len(a) - 1 : a[1 + i] = u[g + i]
      BY <1>5 DEF Cut
    <3>3. /\ Len(v) \in 0 .. Len(l) /\ Len(v) \in Nat /\ Len(l) \in Nat
          /\ \A i \in 1 .. Len(v) : v[i] = l[i]
          /\ Len(v) > 0 => v[Len(v)] \notin {CR, LF}
      BY <1>1 DEF EndTrimmed
    <3>4. /\ Len(a) - 1 \in 0 .. Len(a) - 1 /\ 1 + (Len(a) - 1) = Len(a)
          /\ g + (Len(a) - 1) \in 1 .. Len(v) - s /\ h \in 1 .. Len(v)
      BY <2>5, <3>1, <3>2, <3>3
    <3>5. a[Len(a)] = v[h]
      <4>1. a[1 + (Len(a) - 1)] = u[g + (Len(a) - 1)]
        BY <3>2, <3>4
      <4>2. u[g + (Len(a) - 1)] = v[s + (g + (Len(a) - 1))]
        BY <3>1, <3>4
      <4> QED BY <3>4, <4>1, <4>2
    <3> HIDE DEF h
    <3>6. CASE h = Len(v)
      BY <3>3, <3>4, <3>5, <3>6
    <3>7. CASE h # Len(v)
      <4>1. h \in 1 .. Len(l) - 1
        BY <3>3, <3>4, <3>7
      <4>2. l[h] # LF
        BY <4>1, LinesAssumption
      <4> QED BY <3>3, <3>4, <3>5, <4>2
    <3> QED BY <3>6, <3>7
  <2>9. CommandPart(undo) = w
    BY <2>1, <2>3, <2>4, <2>5, <2>7, <2>8, CrlfComesOff
  <2>10. Reads(v)[s + 1] \subseteq Seq(Seq(C))
    <3>1. s + 1 \in 1 .. Len(v) + 1
      <4>1. s \in 1 .. Len(v) /\ Len(v) \in Nat
        BY <1>1, <1>3, LenProperties DEF KeywordAt
      <4> QED BY <4>1
    <3> QED BY <2>2, <3>1, ReadsTyped
  <2> DEFINE c == <<UNSUBSCRIBE>>
             d == <<SUBSCRIBE>>
             Y == Readings(w)
             X == Reads(v)[s + 1]
  <2>11. c \in Seq(C) /\ d \in Seq(C)
    <3>1. SUBSCRIBE \in Characters
      BY <1>1, <1>3, ElementOfSeq DEF KeywordAt
    <3> QED BY <2>1, <3>1
  <2>12. Undone = Replaced(Y, c, d)
    BY <2>9, Zenon DEF Undone, Replaced
  <2>13. Y = Behind(<<c>>, X) /\ X \subseteq Seq(Seq(C))
    BY <2>3, <2>10
  <2> HIDE DEF c, d, X, Y
  <2>14. Replaced(Y, c, d) = Behind(<<d>>, X)
    BY <2>11, <2>13, WordChanged
  <2> QED BY <1>6, <2>12, <2>14 DEF d, X
<1> QED BY <1>6, <1>7

\* The first token from f on that is not quoted, and how the text reads from there.
LEMMA PlainFirst ==
  ASSUME NEW C, NEW t \in Seq(C), NEW f \in 1 .. Len(t), t[f] \notin Separators \cup {Quote},
         Reads(t)[f] # {}
  PROVE  \E e \in f .. Len(t) : /\ Reads(t)[f] = Behind(<<SubSeq(t, f, e)>>, Reads(t)[e + 1])
                                /\ e = Len(t) \/ t[e + 1] \in Separators
<1> DEFINE S == {Len(t) + 1} \cup {n \in f .. Len(t) : t[n] \in Separators \cup {Quote}}
           q == Min(S)
<1>0. Len(t) \in Nat
  BY LenProperties
<1>1. S \in SUBSET Nat /\ S # {}
  BY <1>0
<1>2. q \in S /\ \A y \in S : q <= y
  BY <1>1, MinIsLeast
<1> HIDE DEF q
<1>3. q \in f + 1 .. Len(t) + 1
  <2>1. q \in f .. Len(t) + 1 /\ q # f
    BY <1>0, <1>2
  <2> QED BY <1>0, <2>1
<1>4. ASSUME NEW n \in f .. q - 1 PROVE t[n] \notin Separators \cup {Quote}
  <2>1. n \in f .. Len(t) /\ ~(q <= n)
    BY <1>0, <1>3
  <2>2. n \notin S
    BY <1>2, <2>1
  <2> QED BY <2>1, <2>2
<1>5. CASE q # Len(t) + 1 /\ t[q] = Quote
  <2>1. q \in f + 1 .. Len(t)
    BY <1>0, <1>3, <1>5
  <2>2. \A n \in f .. q - 1 : t[n] \notin Separators \cup {Quote}
    BY <1>4
  <2> HIDE DEF S
  <2>3. Reads(t)[f] = {}
    BY <1>5, <2>1, <2>2, PlainBreaks
  <2> QED BY <2>3
<1>6. CASE q = Len(t) + 1 \/ t[q] # Quote
  <2> DEFINE e == q - 1
  <2>1. e \in f .. Len(t) /\ e + 1 = q
    BY <1>0, <1>3
  <2>2. q = Len(t) + 1 \/ t[q] \in Separators
    BY <1>2, <1>6
  <2>3. e = Len(t) \/ t[e + 1] \in Separators
    BY <1>0, <2>1, <2>2
  <2>4. \A n \in f .. e : t[n] \notin Separators \cup {Quote}
    BY <1>4
  <2> HIDE DEF e, S
  <2>5. Reads(t)[f] = Behind(<<SubSeq(t, f, e)>>, Reads(t)[e + 1])
    BY <2>1, <2>3, <2>4, PlainReads
  <2> QED BY <2>1, <2>3, <2>5
<1> QED BY <1>5, <1>6

\* A token that toupper makes SUBSCRIBE is SUBSCRIBE.
LEMMA CommandIs ==
  ASSUME NEW w \in Seq(Characters), Command(w) = <<SUBSCRIBE>>
  PROVE  Len(w) = 1 /\ w[1] = SUBSCRIBE
<1>1. Len(w) \in Nat /\ DOMAIN w = 1 .. Len(w)
  BY LenProperties
<1>2. Command(w) = [n \in 1 .. Len(w) |-> Upper[w[n]]]
  BY <1>1 DEF Command
<1>3. DOMAIN Command(w) = 1 .. 1 /\ Command(w)[1] = SUBSCRIBE
  OBVIOUS
<1>4. 1 .. Len(w) = 1 .. 1
  BY <1>2, <1>3
<1>5. Len(w) = 1
  BY <1>1, <1>4
<1>6. Upper[w[1]] = SUBSCRIBE /\ w[1] \in Characters
  BY <1>2, <1>3, <1>5, ElementOfSeq
<1> QED BY <1>5, <1>6, WordAssumption

\* A line that the CLI takes for no subscription reads as one only if the word is
\* quoted.
LEMMA MissedIsQuoted ==
  ASSUME Inv, pc = "done", NEW l \in Typed, Len(CommandPart(l)) > 0, text = Sent(l),
         SubscribeArgument(l) = <<>>, Len(Tokens) > 1, Tokens[1] = <<SUBSCRIBE>>
  PROVE  Head(TrimStart(l, Separators)) = Quote
<1> DEFINE v == CommandPart(l)
           f == FirstNot(v, Separators)
           D == Seq(Characters)
<1>1. v \in D /\ Request = v /\ EndTrimmed(l, {CR, LF}, v) /\ l \in D
  BY SentIs, LinesAssumption
<1>2. /\ f \in 1 .. Len(v) + 1 /\ (f <= Len(v) => v[f] \notin Separators)
      /\ \A n \in 1 .. f - 1 : v[n] \in Separators
  BY <1>1, FirstNotIs
<1> HIDE DEF v, f
<1>3. PICK r \in Seq(D) : Readings(v) = {r} /\ r # <<>> /\ Tokens = <<Command(r[1])>> \o Tail(r)
  BY <1>1, DoneReads
<1>4. Len(v) \in Nat /\ 1 \in 1 .. Len(v) + 1 /\ f \in Nat
  BY <1>1, <1>2, LenProperties
<1>5. Reads(v)[f] = {r}
  <2>1. f \in 1 .. Len(v) + 1
    BY <1>2
  <2>2. Reads(v)[1] = Reads(v)[f]
    BY <1>1, <1>2, <1>4, <2>1, ReadsSkipAll
  <2> QED BY <1>3, <2>2 DEF Readings
<1>6. r[1] \in D /\ Len(r) \in Nat \ {0} /\ Tail(r) \in Seq(D) /\ Len(Tail(r)) \in Nat
  <2>1. Len(r) # 0
    BY <1>3, EmptySeq
  <2>2. Len(r) \in Nat \ {0}
    BY <2>1, LenProperties
  <2>3. 1 \in 1 .. Len(r)
    BY <2>2
  <2> HIDE DEF D
  <2>4. Tail(r) \in Seq(D)
    BY <1>3, HeadTailProperties
  <2> QED BY <2>2, <2>3, <2>4, ElementOfSeq, LenProperties
<1>7. Command(r[1]) = <<SUBSCRIBE>> /\ Len(Tail(r)) > 0
  <2> DEFINE c == Command(r[1])
             W == {c} \cup D
             m == Tail(r)
  <2>1. c \in W /\ D \subseteq W
    OBVIOUS
  <2> HIDE DEF W, c, D
  <2>2. m \in Seq(W)
    BY <1>6, <2>1, SeqMonotonic
  <2>3. Tokens = <<c>> \o m
    BY <1>3 DEF c
  <2> HIDE DEF m
  <2>4. (<<c>> \o m)[1] = c /\ Len(<<c>> \o m) = Len(m) + 1 /\ Len(m) \in Nat
    BY <2>1, <2>2, InFront
  <2>5. c = <<SUBSCRIBE>> /\ Len(m) > 0
    BY <2>3, <2>4
  <2> QED BY <2>5 DEF c, m
<1>8. Len(r[1]) = 1 /\ r[1][1] = SUBSCRIBE
  BY <1>6, <1>7, CommandIs
<1>9. f \in 1 .. Len(v)
  <2>1. SUFFICES ASSUME f = Len(v) + 1 PROVE FALSE
    BY <1>2, <1>4
  <2>2. f \in 1 .. Len(v) + 1 /\ \A n \in f .. Len(v) : v[n] \in Separators
    BY <1>4, <2>1
  <2>3. Reads(v)[f] = {<<>>}
    BY <1>1, <2>2, ReadsAtEnd
  <2> QED BY <1>3, <1>5, <2>3
<1>10. v[f] = Quote
  <2>1. SUFFICES ASSUME v[f] # Quote PROVE FALSE
    OBVIOUS
  <2>2. v[f] \notin Separators \cup {Quote} /\ Reads(v)[f] # {}
    BY <1>2, <1>5, <1>9, <2>1
  <2>3. PICK e \in f .. Len(v) : /\ Reads(v)[f] = Behind(<<SubSeq(v, f, e)>>, Reads(v)[e + 1])
                                 /\ e = Len(v) \/ v[e + 1] \in Separators
    BY <1>1, <1>9, <2>2, PlainFirst
  <2> DEFINE w == SubSeq(v, f, e)
             X == Reads(v)[e + 1]
  <2>4. w \in D /\ Len(w) = e - f + 1 /\ w[1] = v[f]
    BY <1>1, <1>9, TokenIs
  <2>5. e + 1 \in 1 .. Len(v) + 1 /\ e \in Nat
    BY <1>4, <1>9
  <2>6. X \subseteq Seq(D)
    BY <1>1, <2>5, ReadsTyped
  <2> HIDE DEF w, X, D
  <2>7. PICK m \in X : r = <<w>> \o m
    <3>1. r \in Behind(<<w>>, X)
      BY <1>5, <2>3 DEF w, X
    <3> QED BY <3>1, Zenon DEF Behind
  <2>8. r[1] = w /\ Tail(r) = m
    <3>1. w \in D /\ m \in Seq(D)
      BY <2>4, <2>6, <2>7
    <3>2. (<<w>> \o m)[1] = w /\ Tail(<<w>> \o m) = m
      BY <3>1, InFront
    <3> QED BY <2>7, <3>2
  <2>9. e = f /\ v[f] = SUBSCRIBE
    <3>1. Len(w) = 1 /\ w[1] = SUBSCRIBE
      BY <1>8, <2>8
    <3>2. e - f + 1 = 1 /\ v[f] = SUBSCRIBE
      BY <2>4, <3>1
    <3>3. f \in Nat /\ e \in Nat
      BY <1>4, <2>5
    <3> QED BY <3>2, <3>3
  <2>10. X # {<<>>}
    <3>1. m # <<>>
      BY <1>7, <2>8, EmptySeq
    <3> QED BY <3>1
  <2>11. ~(\A n \in e + 1 .. Len(v) : v[n] \in Separators)
    <3>1. SUFFICES ASSUME \A n \in e + 1 .. Len(v) : v[n] \in Separators PROVE FALSE
      OBVIOUS
    <3> DEFINE k == e + 1
    <3>2. k \in 1 .. Len(v) + 1 /\ \A n \in k .. Len(v) : v[n] \in Separators
      BY <2>5, <3>1
    <3> HIDE DEF k
    <3>3. Reads(v)[k] = {<<>>}
      BY <1>1, <3>2, ReadsAtEnd DEF D
    <3> QED BY <2>10, <3>3 DEF k, X
  <2>12. e # Len(v)
    BY <1>4, <2>11
  <2>13. KeywordAt(v, f)
    <3>1. v[f + 1] \in Separators /\ f # Len(v)
      BY <2>3, <2>9, <2>12
    <3>2. f + 1 \in 1 .. Len(v)
      BY <1>4, <1>9, <3>1
    <3> QED BY <1>2, <1>9, <2>9, <3>1, <3>2 DEF KeywordAt
  <2>14. PICK s : \E u \in D : /\ KeywordAt(v, s) /\ BehindKeyword(v, s, u)
                               /\ SubscribeArgument(l) = Argument(u)
                               /\ \A n : KeywordAt(v, n) => n = s
    BY <1>1, <2>13, SubscribeIs DEF D, v
  <2>15. PICK u \in D : /\ KeywordAt(v, s) /\ BehindKeyword(v, s, u)
                        /\ SubscribeArgument(l) = Argument(u)
                        /\ \A n : KeywordAt(v, n) => n = s
    BY <2>14
  <2>16. s = f /\ Argument(u) = <<>>
    BY <2>13, <2>15
  <2>17. \A n \in 1 .. Len(u) : u[n] \in Separators
    BY <2>16, ArgumentIs DEF D
  <2>18. Len(u) = Len(v) - f /\ \A n \in 1 .. Len(v) - f : u[n] = v[f + n]
    BY <2>15, <2>16 DEF BehindKeyword
  <2>19. ASSUME NEW n \in e + 1 .. Len(v) PROVE v[n] \in Separators
    <3>0. n \in f + 1 .. Len(v)
      BY <2>9
    <3>1. n - f \in 1 .. Len(v) - f /\ f + (n - f) = n /\ Len(u) = Len(v) - f
      BY <1>4, <2>18, <3>0
    <3>2. u[n - f] = v[f + (n - f)]
      BY <2>18, <3>1
    <3> QED BY <2>17, <3>1, <3>2
  <2> QED BY <2>11, <2>19
<1>11. /\ Len(v) \in 0 .. Len(l) /\ Len(l) \in Nat /\ \A i \in 1 .. Len(v) : l[i] = v[i]
  BY <1>1 DEF EndTrimmed
<1> DEFINE t == TrimStart(l, Separators)
           h == FirstNot(l, Separators)
<1>12. t \in D /\ StartTrimmed(l, Separators, h, t)
  BY <1>1, TrimStartIs
<1> HIDE DEF t, h
<1>13. /\ h \in 1 .. Len(l) + 1 /\ (h <= Len(l) => l[h] \notin Separators)
       /\ \A n \in 1 .. h - 1 : l[n] \in Separators
       /\ Len(t) = Len(l) + 1 - h /\ \A i \in 0 .. Len(t) - 1 : t[1 + i] = l[h + i]
  BY <1>12 DEF StartTrimmed
<1>14. f \in 1 .. Len(l) /\ l[f] = Quote /\ Quote \notin Separators
  <2>1. Quote \notin Separators
    BY DEF Quote, Separators
  <2>2. f \in 1 .. Len(l) /\ l[f] = v[f]
    BY <1>9, <1>11
  <2> QED BY <1>10, <2>1, <2>2
<1>15. ~(h < f)
  <2>1. SUFFICES ASSUME h < f PROVE FALSE
    OBVIOUS
  <2>2. h \in 1 .. f - 1 /\ h \in 1 .. Len(v) /\ h <= Len(l)
    <3>1. h \in Nat /\ h > 0 /\ f <= Len(v) /\ f \in Nat /\ Len(v) \in Nat /\ Len(v) <= Len(l)
      BY <1>4, <1>9, <1>11, <1>13
    <3>2. Len(l) \in Nat
      BY <1>11
    <3> QED BY <2>1, <3>1, <3>2
  <2> QED BY <1>2, <1>11, <1>13, <2>2
<1>16. ~(f < h)
  <2>1. SUFFICES ASSUME f < h PROVE FALSE
    OBVIOUS
  <2>2. f \in 1 .. h - 1
    BY <1>13, <1>14, <2>1
  <2> QED BY <1>13, <1>14, <2>2
<1>17. h = f
  BY <1>13, <1>14, <1>15, <1>16
<1>18. 0 \in 0 .. Len(t) - 1 /\ h + 0 = h /\ 1 + 0 = 1 /\ Len(t) # 0
  BY <1>11, <1>13, <1>14, <1>17
<1>19. t[1] = Quote
  <2>1. t[1 + 0] = l[h + 0]
    BY <1>13, <1>18
  <2> QED BY <1>14, <1>17, <1>18, <2>1
<1>20. Head(t) = t[1]
  <2>1. t # <<>>
    BY <1>18, EmptySeq
  <2> QED BY <1>12, <2>1
<1> QED BY <1>19, <1>20 DEF t

-----------------------------------------------------------------------------
\* What the CLI's turn leaves: the line, what it sent, and what it kept for Ctrl+C.
LineInv ==
  /\ outcome \in {"command", "subscribe"} =>
       typed \in Typed /\ Len(CommandPart(typed)) > 0 /\ text = Sent(typed)
  /\ outcome = "command" => SubscribeArgument(typed) = <<>>
  /\ outcome = "subscribe" =>
       SubscribeArgument(typed) # <<>> /\ undo = Unsubscribe(SubscribeArgument(typed))

LEMMA LineInitial == Init => LineInv
  BY DEF Init, LineInv

\* No step of the parser touches the text or the CLI.
LEMMA StepsKeepText == Steps => text' = text
<1>1. (Reject => text' = text) /\ \A r : Copy(r) => text' = text
  BY DEF Reject, Copy
<1>2. (StartRejects \/ BadEscape \/ QuoteOpen \/ TextAfterQuote \/ QuoteInPlain \/ EmptyCommand
         \/ TooManyTokens) => Reject
  BY DEF StartRejects, BadEscape, QuoteOpen, TextAfterQuote, QuoteInPlain, EmptyCommand,
         TooManyTokens
<1>3. (CopyChar \/ CopyEscaped) => \E r : Copy(r)
  BY DEF CopyChar, CopyEscaped
<1>4. (Start \/ OpenQuoted \/ OpenPlain \/ CloseQuoted \/ PlainChar) => text' = text
  BY DEF Start, OpenQuoted, OpenPlain, CloseQuoted, PlainChar
<1>5. (ClosePlain \/ NextToken \/ Finish) => text' = text
  BY DEF ClosePlain, NextToken, Finish
<1> QED BY <1>1, <1>2, <1>3, <1>4, <1>5 DEF Steps

LEMMA LineKept == LineInv /\ [Next]_vars => LineInv'
<1> SUFFICES ASSUME LineInv, [Next]_vars PROVE LineInv'
  OBVIOUS
<1>1. ASSUME text' = text, UNCHANGED cli PROVE LineInv'
  BY <1>1 DEF LineInv, cli
<1>2. ASSUME NEW l \in Typed, Exits(l) PROVE LineInv'
  BY <1>2 DEF Exits, LineInv
<1>3. ASSUME NEW l \in Typed, Skips(l) PROVE LineInv'
  BY <1>3 DEF Skips, LineInv
<1>4. ASSUME NEW l \in Others, Other(l) PROVE LineInv'
  BY <1>4 DEF Other, LineInv
<1>5. ASSUME NEW l \in Typed, Sends(l) PROVE LineInv'
  <2>1. typed' = l /\ text' = Sent(l) /\ Len(CommandPart(l)) > 0
    BY <1>5 DEF Sends, Parse
  <2>2. CASE SubscribeArgument(l) = <<>>
    BY <1>5, <2>1, <2>2 DEF Sends, LineInv
  <2>3. CASE SubscribeArgument(l) # <<>>
    BY <1>5, <2>1, <2>3 DEF Sends, LineInv
  <2> QED BY <2>2, <2>3
<1>6. CASE UNCHANGED vars
  BY <1>1, <1>6 DEF vars, parser
<1>7. CASE Next
  BY <1>1, <1>2, <1>3, <1>4, <1>5, <1>7, StepsKeepText DEF Next
<1> QED BY <1>6, <1>7

LEMMA LineAgrees == Inv /\ LineInv => CliAgreesWithServer
<1> SUFFICES ASSUME Inv, LineInv, pc = "done" PROVE CliAgreesWithServer
  BY DEF CliAgreesWithServer
<1>1. ASSUME outcome = "command", Len(Tokens) > 1, Tokens[1] = <<SUBSCRIBE>>
      PROVE  Head(TrimStart(typed, Separators)) = Quote
  BY <1>1, MissedIsQuoted DEF LineInv
<1>2. ASSUME outcome = "subscribe"
      PROVE  Tokens[1] = <<SUBSCRIBE>> /\ (~EndsInCR => Undone = {Tokens})
  BY <1>2, UndoneIs DEF LineInv
<1> QED BY <1>1, <1>2 DEF CliAgreesWithServer

\* The CLI and the server agree on every line a user types and every channel it
\* names: a line is taken for a subscription exactly if the server reads it as one,
\* the quoted word apart, and the UNSUBSCRIBE of Ctrl+C names the same channel,
\* one that ends in CR apart.
THEOREM AgreesWithServer == Spec => []CliAgreesWithServer
<1>1. Init => LineInv
  BY LineInitial
<1>2. LineInv /\ [Next]_vars => LineInv'
  BY LineKept
<1>3. Spec => []LineInv
  BY <1>1, <1>2, PTL DEF Spec
<1>4. Inv /\ LineInv => CliAgreesWithServer
  BY LineAgrees
<1> QED BY <1>3, <1>4, Invariance, PTL

-----------------------------------------------------------------------------
(* The responses: no request makes one longer than its buffer, or a reply  *)
(* longer than what the output queue has left.                             *)

\* The framing of a bulk string takes at most 11 bytes.
LEMMA BulkOverhead ==
  ASSUME NEW n \in Nat
  PROVE  /\ BulkLen(n) \in Nat
         /\ BulkLen(n) <= n + 11
BY SMT DEF DigitCount, LineLen, BulkLen

\* An argument takes at least its length.
LEMMA WrittenBounds ==
  ASSUME NEW n \in Nat
  PROVE  Written(n) \in Nat /\ n <= Written(n)
BY SMT DEF Written

\* The replies of handle_command that do not depend on the request: errors of up
\* to 42 bytes, integers of up to 20 characters, HELP, and INFO, whose numbers have
\* up to 20 digits and whose text is formatted in a buffer of its own first.
THEOREM FixedRepliesFit ==
  /\ \A n \in 1 .. 42 : ErrorLen(n) < ErrorCap
  /\ \A d \in 1 .. 20 : LineLen(d) < ReplyCap
  /\ BulkLen(HelpTextLen) < ReplyCap
  /\ \A d \in 1 .. 20 : InfoTextLen(d) < InfoCap /\ BulkLen(InfoTextLen(d)) < ReplyCap
<1>1. \A n \in 1 .. 42 : ErrorLen(n) < ErrorCap
  BY SMT DEF ErrorLen, ErrorCap
<1>2. \A d \in 1 .. 20 : LineLen(d) < ReplyCap
  BY SMT, LimitAssumption DEF LineLen, ReplyCap
<1>3. BulkLen(HelpTextLen) < ReplyCap
  BY SMT, BulkOverhead, LimitAssumption DEF HelpTextLen, ReplyCap
<1>4. ASSUME NEW d \in 1 .. 20
      PROVE  InfoTextLen(d) < InfoCap /\ BulkLen(InfoTextLen(d)) < ReplyCap
  <2>1. InfoTextLen(d) \in Nat /\ InfoTextLen(d) <= 385
    BY SMT DEF InfoTextLen
  <2>2. BulkLen(InfoTextLen(d)) \in Nat /\ BulkLen(InfoTextLen(d)) <= 396
    BY SMT, <2>1, BulkOverhead
  <2> QED BY SMT, <2>1, <2>2, LimitAssumption DEF InfoCap, ReplyCap
<1> QED BY <1>1, <1>2, <1>3, <1>4

\* The replies that carry a text of a request, whatever its length: ECHO's
\* argument, and for GET a value that a SET has brought (SETEX's is shorter).
THEOREM CarriedRepliesFit ==
  /\ \A n \in Nat : IsRequestOf(5, Written(n)) => BulkLen(n) < ReplyCap
  /\ \A k, v \in Nat : IsRequestOf(4, Written(k) + 1 + Written(v)) => BulkLen(v) < ReplyCap
<1>1. ASSUME NEW n \in Nat, IsRequestOf(5, Written(n)) PROVE BulkLen(n) < ReplyCap
  BY SMT, <1>1, BulkOverhead, WrittenBounds, LimitAssumption DEF IsRequestOf, ReplyCap
<1>2. ASSUME NEW k \in Nat, NEW v \in Nat, IsRequestOf(4, Written(k) + 1 + Written(v))
      PROVE  BulkLen(v) < ReplyCap
  BY SMT, <1>2, BulkOverhead, WrittenBounds, LimitAssumption DEF IsRequestOf, ReplyCap
<1> QED BY <1>1, <1>2

\* The message of every PUBLISH fits deliver_pubsub_message's buffer.
THEOREM MessagesFit ==
  \A c, m \in Nat : IsRequestOf(8, Written(c) + 1 + Written(m)) => MessageLen(c, m) < MessageCap
<1> SUFFICES ASSUME NEW c \in Nat, NEW m \in Nat, IsRequestOf(8, Written(c) + 1 + Written(m))
             PROVE  MessageLen(c, m) < MessageCap
  OBVIOUS
<1>1. LineLen(1) = 4 /\ BulkLen(7) = 13
  BY SMT DEF LineLen, BulkLen, DigitCount
<1>2. c + m + 9 <= MaxRequest
  BY SMT, WrittenBounds, LimitAssumption DEF IsRequestOf
<1>3. /\ BulkLen(c) \in Nat /\ BulkLen(c) <= c + 11
      /\ BulkLen(m) \in Nat /\ BulkLen(m) <= m + 11
  BY BulkOverhead
<1> QED BY SMT, <1>1, <1>2, <1>3, LimitAssumption DEF MessageLen, MessageCap

\* A reply that fits its buffer fits the output queue of a client below the
\* high-water mark, where handle_command is called: no client is disconnected
\* for its own replies, however it pipelines.
THEOREM RepliesFitQueue ==
  ASSUME NEW pending \in Nat, pending < HighWater, NEW len \in Nat, len < ReplyCap
  PROVE  pending + len <= OutputCap
BY SMT, LimitAssumption DEF HighWater, OutputCap, ReplyCap

=============================================================================
