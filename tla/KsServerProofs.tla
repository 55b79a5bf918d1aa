--------------------------- MODULE KsServerProofs ---------------------------
(***************************************************************************)
(* The safety of the event loop for every number of slots, every size of   *)
(* the buffers, every text in every split and every order in which bytes,  *)
(* messages, connections and failures arrive.                              *)
(***************************************************************************)
EXTENDS KsServer, TLAPS, FiniteSetTheorems, SequenceTheorems

-----------------------------------------------------------------------------
(* Counting in sequences.                                                  *)

\* Min (of FiniteSetsExt) is the least element of a set of naturals.
LEMMA MinIsLeast ==
  ASSUME NEW S \in SUBSET Nat, S # {}
  PROVE  Min(S) \in S /\ \A y \in S : Min(S) <= y
<1> DEFINE R == OpToRel(<, Nat)
<1>1. \A x, y \in Nat : y < x => <<y, x>> \in R
  BY DEF OpToRel
<1>2. IsWellFoundedOn(R, Nat)
  BY NatLessThanWellFounded
<1> HIDE DEF R
<1>3. PICK x \in S : \A y \in S : ~(<<y, x>> \in R)
  BY <1>2, WFMin
<1>4. ASSUME NEW y \in S
      PROVE  x <= y
  <2>1. ~(<<y, x>> \in R)
    BY <1>3
  <2>2. ~(y < x)
    BY <1>1, <2>1
  <2> QED BY <2>2
<1> QED BY <1>4 DEF Min

\* C are the places A of a sequence of n elements and the places B of one of m
\* elements behind it.
Joins(C, A, B, n, m) ==
  /\ n \in Nat /\ m \in Nat
  /\ C \in SUBSET Nat /\ A \in SUBSET (1 .. n) /\ B \in SUBSET (1 .. m)
  /\ \A x \in Nat : x \in C <=> x \in A \/ (x - n) \in B

\* They count separately.
LEMMA SplitCount ==
  ASSUME NEW A, NEW B, NEW C, NEW n, NEW m, Joins(C, A, B, n, m)
  PROVE  /\ Cardinality(A) \in Nat /\ Cardinality(B) \in Nat
         /\ Cardinality(C) = Cardinality(A) + Cardinality(B)
<1> USE DEF Joins
<1> DEFINE D == {x + n : x \in B}
           f == [x \in B |-> x + n]
<1>1. IsFiniteSet(1 .. n) /\ IsFiniteSet(1 .. m)
  BY FS_Interval
<1>2. IsFiniteSet(A) /\ IsFiniteSet(B)
  BY <1>1, FS_Subset
<1>3. f \in Bijection(B, D)
  BY DEF Bijection, Injection, Surjection, IsInjective
<1>4. IsFiniteSet(D) /\ Cardinality(D) = Cardinality(B)
  BY <1>2, <1>3, FS_Bijection DEF ExistsBijection
<1>5. A \cap D = {}
  OBVIOUS
<1>6. Cardinality(A \cap D) = 0
  BY <1>5, FS_EmptySet
<1>7. Cardinality(A) \in Nat /\ Cardinality(B) \in Nat
  BY <1>2, FS_CardinalityType
<1>8. Cardinality(A \cup D) = Cardinality(A) + Cardinality(D) - Cardinality(A \cap D)
  BY <1>2, <1>4, FS_Union
<1>9. C = A \cup D
  <2>1. ASSUME NEW x \in C
        PROVE  x \in A \cup D
    <3>1. x \in Nat /\ (x \in A \/ (x - n) \in B) /\ x = (x - n) + n
      BY <2>1
    <3> QED BY <3>1
  <2>2. ASSUME NEW x \in A
        PROVE  x \in C
    OBVIOUS
  <2>3. ASSUME NEW x \in B
        PROVE  x + n \in C
    <3>1. x + n \in Nat /\ (x + n) - n = x
      OBVIOUS
    <3> QED BY <3>1
  <2> QED BY <2>1, <2>2, <2>3
<1> HIDE DEF Joins, D
<1> QED BY <1>4, <1>6, <1>7, <1>8, <1>9

\* The lines of a text followed by another one.
LEMMA LinesOfConcat ==
  ASSUME NEW s \in Seq(Bytes), NEW t \in Seq(Bytes)
  PROVE  /\ s \o t \in Seq(Bytes) /\ Len(s \o t) = Len(s) + Len(t)
         /\ Cardinality(LineEnds(s)) \in Nat /\ Cardinality(LineEnds(t)) \in Nat
         /\ Cardinality(LineEnds(s \o t)) = Cardinality(LineEnds(s)) + Cardinality(LineEnds(t))
<1> DEFINE u == s \o t
           A == LineEnds(s)  B == LineEnds(t)  C == LineEnds(u)
           n == Len(s)  m == Len(t)
<1>1. /\ u \in Seq(Bytes) /\ Len(u) = n + m
      /\ \A x \in 1 .. n : u[x] = s[x]
      /\ \A x \in 1 .. n + m : x > n => u[x] = t[x - n]
  OBVIOUS
<1> HIDE DEF u
<1>2. /\ n \in Nat /\ m \in Nat
      /\ A = {x \in 1 .. n : s[x] = "n"} /\ B = {x \in 1 .. m : t[x] = "n"}
      /\ C = {x \in 1 .. n + m : u[x] = "n"}
  BY <1>1 DEF LineEnds
<1> HIDE DEF A, B, C, n, m
<1>3. /\ C \in SUBSET Nat /\ A \in SUBSET (1 .. n) /\ B \in SUBSET (1 .. m)
      /\ \A x \in Nat : x \in C <=> x \in A \/ (x - n) \in B
  BY <1>1, <1>2
<1>4. Joins(C, A, B, n, m)
  BY <1>2, <1>3 DEF Joins
<1>5. /\ Cardinality(A) \in Nat /\ Cardinality(B) \in Nat
      /\ Cardinality(C) = Cardinality(A) + Cardinality(B)
  BY <1>4, SplitCount
<1> QED BY <1>1, <1>5 DEF A, B, C, u, n, m

\* A text without its first line has one line less.
LEMMA LinesOfRest ==
  ASSUME NEW s \in Seq(Bytes), LineEnds(s) # {},
         NEW e, e = Min(LineEnds(s)), NEW r, r = SubSeq(s, e + 1, Len(s))
  PROVE  /\ e \in 1 .. Len(s)
         /\ r \in Seq(Bytes) /\ Len(r) = Len(s) - e
         /\ Cardinality(LineEnds(r)) \in Nat
         /\ Cardinality(LineEnds(s)) = 1 + Cardinality(LineEnds(r))
<1> DEFINE A == {e}  B == LineEnds(r)  C == LineEnds(s)
           n == Len(s)
<1>1. n \in Nat /\ C = {x \in 1 .. n : s[x] = "n"}
  BY DEF LineEnds
<1>2. C \in SUBSET Nat /\ C # {}
  BY <1>1
<1>3. e \in C /\ \A x \in C : e <= x
  BY <1>2, MinIsLeast
<1>4. e \in 1 .. n
  BY <1>1, <1>3
<1>5. /\ r \in Seq(Bytes) /\ Len(r) = n - e
      /\ \A x \in 1 .. n - e : r[x] = s[x + e]
  BY <1>4
<1>6. DOMAIN r = 1 .. n - e
  BY <1>5
<1>7. B = {x \in 1 .. n - e : r[x] = "n"}
  BY <1>6 DEF LineEnds
<1>8. n - e \in Nat /\ e \in Nat /\ A \in SUBSET (1 .. e) /\ B \in SUBSET (1 .. n - e)
  BY <1>1, <1>4, <1>7
<1> HIDE DEF B, C, n
<1>9. \A x \in Nat : x \in C <=> x \in A \/ (x - e) \in B
  <2> TAKE x \in Nat
  <2>1. CASE x <= e
    BY <2>1, <1>1, <1>3, <1>4, <1>7
  <2>2. CASE x > e
    <3>1. x \notin A /\ (x \in C <=> x \in 1 .. n /\ s[x] = "n")
      BY <2>2, <1>1, <1>4
    <3>2. (x - e) + e = x /\ (x - e \in 1 .. n - e <=> x \in 1 .. n)
      BY <2>2, <1>1, <1>4
    <3>3. x - e \in B <=> x - e \in 1 .. n - e /\ r[x - e] = "n"
      BY <1>7
    <3>4. x - e \in 1 .. n - e => r[x - e] = s[x]
      BY <3>2, <1>5
    <3> QED BY <3>1, <3>2, <3>3, <3>4
  <2> QED BY <2>1, <2>2, <1>4, <1>1
<1>10. Joins(C, A, B, e, n - e)
  BY <1>2, <1>8, <1>9 DEF Joins
<1>11. /\ Cardinality(A) \in Nat /\ Cardinality(B) \in Nat
       /\ Cardinality(C) = Cardinality(A) + Cardinality(B)
  BY <1>10, SplitCount
<1>12. Cardinality(A) = 1
  BY FS_Singleton
<1> QED BY <1>4, <1>5, <1>11, <1>12 DEF B, C, n

-----------------------------------------------------------------------------
(* The output: bytes of replies and messages.                              *)

OutBytes == {"r", "m"} \X (Nat \ {0}) \X (Nat \ {0})

EndsOf(out) == {j \in 1 .. Len(out) : out[j][1] = "r" /\ out[j][2] = out[j][3]}

\* How many replies end in the bytes out.
Answers(out) == Cardinality(EndsOf(out))

\* The replies that end in a whole queue are its answers.
LEMMA RepliesEndedAll ==
  ASSUME NEW out \in Seq(OutBytes)
  PROVE  /\ RepliesEnded(out, Len(out)) = Answers(out)
         /\ Answers(out) \in Nat
<1>1. EndsOf(out) \in SUBSET (1 .. Len(out)) /\ IsFiniteSet(1 .. Len(out))
  BY FS_Interval DEF EndsOf
<1>2. IsFiniteSet(EndsOf(out))
  BY <1>1, FS_Subset
<1> QED BY <1>2, FS_CardinalityType DEF RepliesEnded, Answers, EndsOf

\* Replies behind each other are counted separately.
LEMMA AnswersOfConcat ==
  ASSUME NEW s \in Seq(OutBytes), NEW t \in Seq(OutBytes)
  PROVE  Answers(s \o t) = Answers(s) + Answers(t)
<1> DEFINE u == s \o t
           A == EndsOf(s)  B == EndsOf(t)  C == EndsOf(u)
           n == Len(s)  m == Len(t)
<1>1. /\ Len(u) = n + m
      /\ \A x \in 1 .. n : u[x] = s[x]
      /\ \A x \in 1 .. n + m : x > n => u[x] = t[x - n]
  OBVIOUS
<1> HIDE DEF u
<1>2. /\ n \in Nat /\ m \in Nat
      /\ A = {x \in 1 .. n : s[x][1] = "r" /\ s[x][2] = s[x][3]}
      /\ B = {x \in 1 .. m : t[x][1] = "r" /\ t[x][2] = t[x][3]}
      /\ C = {x \in 1 .. n + m : u[x][1] = "r" /\ u[x][2] = u[x][3]}
  BY <1>1 DEF EndsOf
<1> HIDE DEF A, B, C, n, m
<1>3. /\ C \in SUBSET Nat /\ A \in SUBSET (1 .. n) /\ B \in SUBSET (1 .. m)
      /\ \A x \in Nat : x \in C <=> x \in A \/ (x - n) \in B
  <2>1. C \in SUBSET Nat /\ A \in SUBSET (1 .. n) /\ B \in SUBSET (1 .. m)
    BY <1>2
  <2>2. ASSUME NEW x \in Nat
        PROVE  x \in C <=> x \in A \/ (x - n) \in B
    <3>1. CASE x <= n
      BY <3>1, <1>1, <1>2
    <3>2. CASE x > n
      <4>1. x \in 1 .. n + m <=> x - n \in 1 .. m
        BY <3>2, <1>2
      <4> QED BY <3>2, <4>1, <1>1, <1>2
    <3> QED BY <3>1, <3>2, <1>2
  <2> QED BY <2>1, <2>2
<1>4. Joins(C, A, B, n, m)
  BY <1>2, <1>3 DEF Joins
<1>5. Cardinality(C) = Cardinality(A) + Cardinality(B)
  BY <1>4, SplitCount
<1> QED BY <1>5 DEF A, B, C, u, Answers

\* A reply is counted once, a message not at all.
LEMMA AnswersOfUnit ==
  ASSUME NEW kind \in {"r", "m"}, NEW n \in Nat \ {0}
  PROVE  /\ Unit(kind, n) \in Seq(OutBytes) /\ Len(Unit(kind, n)) = n
         /\ \A j \in 1 .. n : Unit(kind, n)[j] = <<kind, j, n>>
         /\ Answers(Unit(kind, n)) = IF kind = "r" THEN 1 ELSE 0
<1> DEFINE u == Unit(kind, n)
<1>1. u \in [1 .. n -> OutBytes] /\ \A j \in 1 .. n : u[j] = <<kind, j, n>>
  BY DEF Unit, OutBytes
<1>2. u \in Seq(OutBytes) /\ Len(u) = n
  BY <1>1
<1>3. EndsOf(u) = IF kind = "r" THEN {n} ELSE {}
  BY <1>1, <1>2 DEF EndsOf
<1> QED BY <1>1, <1>2, <1>3, FS_Singleton, FS_EmptySet DEF Answers

\* What was sent and what is left are counted separately.
LEMMA AnswersOfSent ==
  ASSUME NEW out \in Seq(OutBytes), NEW n \in 0 .. Len(out),
         NEW rest, rest = SubSeq(out, n + 1, Len(out))
  PROVE  /\ rest \in Seq(OutBytes) /\ Len(rest) = Len(out) - n
         /\ \A j \in 1 .. Len(rest) : rest[j] = out[j + n]
         /\ RepliesEnded(out, n) \in Nat
         /\ Answers(out) = RepliesEnded(out, n) + Answers(rest)
<1> DEFINE head == SubSeq(out, 1, n)
<1>1. /\ rest \in Seq(OutBytes) /\ Len(rest) = Len(out) - n
      /\ \A j \in 1 .. Len(rest) : rest[j] = out[j + n]
  OBVIOUS
<1>2. /\ head \in Seq(OutBytes) /\ Len(head) = n
      /\ \A j \in 1 .. n : head[j] = out[j]
  OBVIOUS
<1>3. out = head \o rest
  <2>1. 1 \in 1 .. Len(out) + 1 /\ n \in 1 - 1 .. Len(out) /\ Len(out) \in n .. Len(out)
    OBVIOUS
  <2>2. SubSeq(out, 1, n) \o SubSeq(out, n + 1, Len(out)) = SubSeq(out, 1, Len(out))
    BY <2>1, ConcatAdjacentSubSeq, Zenon
  <2>3. SubSeq(out, 1, Len(out)) = out
    BY SubSeqFull
  <2> QED BY <2>2, <2>3
<1>4. Answers(head \o rest) = Answers(head) + Answers(rest)
  BY <1>1, <1>2, AnswersOfConcat
<1>5. EndsOf(head) = {j \in 1 .. n : out[j][1] = "r" /\ out[j][2] = out[j][3]}
  BY <1>2 DEF EndsOf
<1>6. Answers(head) = RepliesEnded(out, n)
  BY <1>5 DEF Answers, RepliesEnded
<1>7. Answers(head) \in Nat
  BY <1>2, RepliesEndedAll
<1> QED BY <1>1, <1>3, <1>4, <1>6, <1>7

-----------------------------------------------------------------------------
(* Clients: what each operation on the buffers does to one of them.        *)

ClientSet == [used : BOOLEAN, fd : Nat, id : Nat, closing : BOOLEAN, drop : BOOLEAN,
              input : Seq(Bytes), output : Seq(OutBytes), offset : Nat]
PeerSet   == [owed : Int, at : Nat]

\* The bytes out continue a stream of which the peer has seen `at' bytes of the
\* current reply or message.
Stream(out, at) ==
  /\ out = <<>> => at = 0
  /\ out # <<>> => out[1][2] = at + 1 /\ out[Len(out)][2] = out[Len(out)][3]
  /\ \A j \in 1 .. Len(out) - 1 :
       out[j + 1][2] = IF out[j][2] = out[j][3] THEN 1 ELSE out[j][2] + 1

\* The buffers of a client are within their bounds and its stream is whole.
Good(c, p) == /\ Len(c.input) <= InputCap
              /\ c.offset + Len(c.output) <= OutputCap
              /\ c.used => Stream(c.output, p.at)

\* The peer is owed what is waiting in the two buffers.
Owes(c, p) == p.owed = Cardinality(LineEnds(c.input)) + Answers(c.output)

\* No complete line is waiting for nothing.
Settled(c) == HasLine(c) => Pending(c) >= HighWater

\* d is c, perhaps with messages behind its output.
Grows(c, d) == /\ d \in ClientSet
               /\ d.used = c.used /\ d.fd = c.fd /\ d.id = c.id /\ d.closing = c.closing
               /\ d.input = c.input
               /\ Len(d.output) >= Len(c.output)
               /\ Answers(d.output) = Answers(c.output)
               /\ \A p \in PeerSet : Good(c, p) => Good(d, p)
               /\ ~c.used => d = c

\* The buffers of ks_server.c: the queue holds two replies of full length.
LEMMA Sizes ==
  /\ InputCap \in Nat /\ OutputCap \in Nat /\ HighWater \in Nat
  /\ HighWater = MaxRequest + Slack /\ OutputCap = 2 * HighWater /\ HighWater > 0
BY SizeAssumption DEF InputCap, OutputCap, HighWater

\* An empty slot and a fresh client are in order.
LEMMA EmptyClient ==
  /\ NoClient \in ClientSet /\ NewPeer \in PeerSet
  /\ Good(NoClient, NewPeer) /\ Settled(NoClient)
  /\ \A p \in PeerSet : Good(NoClient, p)
  /\ \A fd, id \in Nat :
       LET c == NewClient(fd, id)
       IN  /\ c \in ClientSet /\ Good(c, NewPeer) /\ Settled(c) /\ Owes(c, NewPeer)
           /\ c.used /\ c.fd = fd /\ c.id = id
<1>1. <<>> \in Seq(Bytes) /\ <<>> \in Seq(OutBytes) /\ LineEnds(<<>>) = {} /\ EndsOf(<<>>) = {}
  BY DEF LineEnds, EndsOf
<1>2. Cardinality(LineEnds(<<>>)) = 0 /\ Answers(<<>>) = 0
  BY <1>1, FS_EmptySet DEF Answers
<1>3. Stream(<<>>, 0)
  BY DEF Stream
<1>4. NoClient \in ClientSet /\ NewPeer \in PeerSet
  BY <1>1 DEF NoClient, NewPeer, ClientSet, PeerSet
<1>5. \A p \in PeerSet : Good(NoClient, p)
  BY Sizes DEF NoClient, Good
<1>6. Settled(NoClient)
  BY <1>1 DEF NoClient, Settled, HasLine
<1>7. ASSUME NEW fd \in Nat, NEW id \in Nat
      PROVE  LET c == NewClient(fd, id)
             IN  /\ c \in ClientSet /\ Good(c, NewPeer) /\ Settled(c) /\ Owes(c, NewPeer)
                 /\ c.used /\ c.fd = fd /\ c.id = id
  <2> DEFINE c == NewClient(fd, id)
  <2>1. /\ c \in ClientSet /\ c.used /\ c.fd = fd /\ c.id = id
        /\ c.input = <<>> /\ c.output = <<>> /\ c.offset = 0
    BY <1>1 DEF NewClient, NoClient, ClientSet
  <2> HIDE DEF c
  <2>2. Good(c, NewPeer) /\ Settled(c) /\ Owes(c, NewPeer)
    BY <2>1, <1>1, <1>2, <1>3, Sizes DEF Good, Settled, HasLine, Owes, NewPeer
  <2> QED BY <2>1, <2>2 DEF c
<1> QED BY <1>4, <1>5, <1>6, <1>7

\* A stream stays whole when a reply or message is queued behind it.
LEMMA StreamGrows ==
  ASSUME NEW out \in Seq(OutBytes), NEW at \in Nat, Stream(out, at),
         NEW kind \in {"r", "m"}, NEW n \in Nat \ {0}
  PROVE  Stream(out \o Unit(kind, n), at)
<1> DEFINE u == Unit(kind, n)
           new == out \o u
           k == Len(out)
<1>1. u \in Seq(OutBytes) /\ Len(u) = n /\ \A j \in 1 .. n : u[j] = <<kind, j, n>>
  BY AnswersOfUnit
<1> HIDE DEF u
<1>2. /\ k \in Nat /\ Len(new) = k + n /\ new \in Seq(OutBytes)
      /\ \A j \in 1 .. k : new[j] = out[j]
      /\ \A j \in 1 .. k + n : j > k => new[j] = u[j - k]
  <2>1. u \in Seq(OutBytes)
    BY <1>1
  <2>2. /\ k \in Nat /\ Len(new) = k + Len(u) /\ new \in Seq(OutBytes)
        /\ \A j \in 1 .. k : new[j] = out[j]
        /\ \A j \in 1 .. k + Len(u) : j > k => new[j] = u[j - k]
    BY <2>1
  <2> HIDE DEF new, k
  <2> QED BY <1>1, <2>2
<1> HIDE DEF new, k
<1>3. \A j \in 1 .. k + n : j > k => new[j][2] = j - k /\ new[j][3] = n
  BY <1>1, <1>2
<1>4. new # <<>> /\ new[Len(new)][2] = new[Len(new)][3]
  BY <1>2, <1>3
<1>5. new[1][2] = at + 1
  <2>1. CASE k = 0
    <3>1. out = <<>>
      BY <2>1 DEF k
    <3> QED BY <2>1, <3>1, <1>2, <1>3 DEF Stream
  <2>2. CASE k # 0
    <3>1. out # <<>> /\ new[1] = out[1]
      BY <2>2, <1>2 DEF k
    <3> QED BY <3>1 DEF Stream
  <2> QED BY <2>1, <2>2
<1>6. ASSUME NEW j \in 1 .. Len(new) - 1
      PROVE  new[j + 1][2] = IF new[j][2] = new[j][3] THEN 1 ELSE new[j][2] + 1
  <2>1. CASE j < k
    <3>1. j \in 1 .. k - 1 /\ new[j] = out[j] /\ new[j + 1] = out[j + 1]
      BY <2>1, <1>2
    <3> QED BY <3>1 DEF Stream, k
  <2>2. CASE j = k
    <3>1. out # <<>> /\ new[j] = out[Len(out)] /\ new[j + 1][2] = 1
      BY <2>2, <1>2, <1>3 DEF k
    <3> QED BY <3>1 DEF Stream
  <2>3. CASE j > k
    BY <2>3, <1>2, <1>3
  <2> QED BY <2>1, <2>2, <2>3, <1>2
<1>7. Stream(new, at)
  BY <1>4, <1>5, <1>6 DEF Stream
<1> QED BY <1>7 DEF new, u

\* client_queue has room for a reply or message and puts it behind the others.
Queues(c, d, kind, n) ==
  /\ c \in ClientSet /\ kind \in {"r", "m"} /\ n \in Nat \ {0} /\ Fits(c, n)
  /\ d = Queue(c, Unit(kind, n))

\* Such a client is in order again, with one more answer if it was a reply.
LEMMA QueueClient ==
  ASSUME NEW c, NEW d, NEW kind, NEW n, Queues(c, d, kind, n)
  PROVE  /\ d \in ClientSet
         /\ d.used = c.used /\ d.fd = c.fd /\ d.id = c.id /\ d.closing = c.closing
         /\ d.input = c.input /\ d.offset = 0
         /\ Len(d.output) = Len(c.output) + n
         /\ Answers(d.output) = Answers(c.output) + (IF kind = "r" THEN 1 ELSE 0)
         /\ \A p \in PeerSet : Good(c, p) => Good(d, p)
<1> USE DEF Queues
<1> DEFINE u == Unit(kind, n)
<1>1. u \in Seq(OutBytes) /\ Len(u) = n /\ Answers(u) = IF kind = "r" THEN 1 ELSE 0
  BY AnswersOfUnit
<1>2. c.output \in Seq(OutBytes)
  BY DEF ClientSet
<1>3. /\ c.output \o u \in Seq(OutBytes)
      /\ Len(c.output \o u) = Len(c.output) + n
      /\ Answers(c.output \o u) = Answers(c.output) + Answers(u)
  BY <1>1, <1>2, AnswersOfConcat
<1>4. /\ d \in ClientSet
      /\ d.used = c.used /\ d.fd = c.fd /\ d.id = c.id /\ d.closing = c.closing
      /\ d.input = c.input /\ d.offset = 0 /\ d.output = c.output \o u
  BY <1>3 DEF Queue, ClientSet
<1>5. ASSUME NEW p \in PeerSet, Good(c, p)
      PROVE  Good(d, p)
  <2>1. d.offset + Len(d.output) <= OutputCap
    BY <1>2, <1>3, <1>4, Sizes DEF Fits, Pending
  <2>2. c.used => Stream(d.output, p.at)
    BY <1>2, <1>4, <1>5, StreamGrows DEF Good, PeerSet
  <2> QED BY <2>1, <2>2, <1>4, <1>5 DEF Good
<1> QED BY <1>1, <1>3, <1>4, <1>5

\* A message from another client, whether it fits or not.
LEMMA DeliverGrows ==
  ASSUME clients \in [Slots -> ClientSet], NEW ids, NEW n \in Nat \ {0}, NEW s \in Slots
  PROVE  /\ Grows(clients[s], Deliver(ids, n)[s])
         /\ clients[s].id \notin ids => Deliver(ids, n)[s] = clients[s]
<1> DEFINE c == clients[s]
           d == Deliver(ids, n)[s]
<1>1. c \in ClientSet
  OBVIOUS
<1>2. d = IF ~c.used \/ c.id \notin ids \/ c.drop THEN c
          ELSE IF Fits(c, n) THEN Queue(c, Unit("m", n)) ELSE Overflow(c, n)
  BY DEF Deliver
<1> HIDE DEF c, d
<1>3. CASE d = c
  BY <1>1, <1>2, <1>3 DEF Grows, c, d, ClientSet
<1>4. CASE c.used /\ c.id \in ids /\ Fits(c, n) /\ d = Queue(c, Unit("m", n))
  <2>1. Grows(c, d)
    <3>1. /\ d \in ClientSet
          /\ d.used = c.used /\ d.fd = c.fd /\ d.id = c.id /\ d.closing = c.closing
          /\ d.input = c.input
          /\ Len(d.output) = Len(c.output) + n
          /\ Answers(d.output) = Answers(c.output) + (IF "m" = "r" THEN 1 ELSE 0)
          /\ \A p \in PeerSet : Good(c, p) => Good(d, p)
      <4>1. Queues(c, d, "m", n)
        BY <1>1, <1>4 DEF Queues
      <4> QED BY <4>1, QueueClient
    <3>2. c.output \in Seq(OutBytes)
      BY <1>1 DEF ClientSet
    <3>3. Len(c.output) \in Nat /\ Answers(c.output) \in Nat
      BY <3>2, RepliesEndedAll
    <3> QED BY <3>1, <3>3, <1>4 DEF Grows
  <2> QED BY <2>1, <1>4 DEF c, d
<1>5. CASE c.used /\ c.id \in ids /\ d = Overflow(c, n)
  <2>1. /\ d \in ClientSet
        /\ d.used = c.used /\ d.fd = c.fd /\ d.id = c.id /\ d.closing = c.closing
        /\ d.input = c.input /\ d.output = c.output /\ d.offset = 0
    BY <1>1, <1>5 DEF Overflow, Compacted, ClientSet
  <2>2. \A p \in PeerSet : Good(c, p) => Good(d, p)
    <3>1. c.offset \in Nat /\ Len(c.output) \in Nat
      BY <1>1 DEF ClientSet
    <3> QED BY <2>1, <3>1, Sizes DEF Good
  <2>3. Grows(c, d)
    BY <2>1, <2>2, <1>1, <1>5 DEF Grows, ClientSet
  <2> QED BY <2>3, <1>5 DEF c, d
<1> QED BY <1>2, <1>3, <1>4, <1>5

\* write_client sends n bytes of c, which becomes d, and the peer sees them.
Sends(c, p, n, d, q) ==
  /\ c \in ClientSet /\ p \in PeerSet /\ Good(c, p) /\ c.used /\ n \in 0 .. Len(c.output)
  /\ d = Sent(c, n) /\ q = PeerAfter(p, c.output, n)

\* What is left is in order, and what the peer got is no longer owed.
LEMMA SentClient ==
  ASSUME NEW c, NEW p, NEW n, NEW d, NEW q, Sends(c, p, n, d, q)
  PROVE  /\ d \in ClientSet /\ q \in PeerSet
         /\ d.used = c.used /\ d.fd = c.fd /\ d.id = c.id /\ d.closing = c.closing
         /\ d.input = c.input
         /\ Len(d.output) = Len(c.output) - n
         /\ Good(d, q)
         /\ Owes(c, p) => Owes(d, q)
<1> USE DEF Sends
<1> DEFINE out == c.output
           rest == SubSeq(out, n + 1, Len(out))
<1>1. out \in Seq(OutBytes) /\ Len(out) \in Nat
  BY DEF ClientSet
<1>2. /\ rest \in Seq(OutBytes) /\ Len(rest) = Len(out) - n
      /\ \A j \in 1 .. Len(rest) : rest[j] = out[j + n]
      /\ RepliesEnded(out, n) \in Nat
      /\ Answers(out) = RepliesEnded(out, n) + Answers(rest)
  BY <1>1, AnswersOfSent
<1>3. Answers(rest) \in Nat /\ c.offset \in Nat
  BY <1>2, RepliesEndedAll DEF ClientSet
<1>4. /\ d \in ClientSet
      /\ d.used = c.used /\ d.fd = c.fd /\ d.id = c.id /\ d.closing = c.closing
      /\ d.input = c.input /\ d.output = rest
      /\ d.offset = IF n = Len(out) THEN 0 ELSE c.offset + n
  <2>1. d = [c EXCEPT !.output = rest, !.offset = IF n = Len(out) THEN 0 ELSE @ + n]
    BY DEF Sent, Pending
  <2>2. (IF n = Len(out) THEN 0 ELSE c.offset + n) \in Nat
    BY <1>1, <1>3
  <2> HIDE DEF rest, out
  <2> QED BY <2>1, <2>2, <1>2 DEF ClientSet
<1> HIDE DEF rest
<1>5. CASE n = 0
  <2>1. q = p /\ RepliesEnded(out, n) = 0 /\ rest = out
    <3>1. {j \in 1 .. n : out[j][1] = "r" /\ out[j][2] = out[j][3]} = {}
      BY <1>5
    <3>2. rest = out
      BY <1>1, <1>5, SubSeqFull DEF rest
    <3> QED BY <1>5, <3>1, <3>2, FS_EmptySet DEF PeerAfter, RepliesEnded
  <2>2. d.offset + Len(d.output) <= OutputCap
    BY <2>1, <1>1, <1>3, <1>4, <1>5, Sizes DEF Good
  <2>3. Good(d, q)
    BY <2>1, <2>2, <1>4 DEF Good
  <2> QED BY <2>1, <2>3, <1>4, <1>2 DEF Owes
<1>6. CASE n # 0
  <2>1. n \in 1 .. Len(out) /\ out # <<>> /\ out[n] \in OutBytes
    BY <1>1, <1>6
  <2>2. /\ q \in PeerSet
        /\ q.owed = p.owed - RepliesEnded(out, n)
        /\ q.at = IF out[n][2] = out[n][3] THEN 0 ELSE out[n][2]
    BY <1>2, <1>6, <2>1 DEF PeerAfter, PeerSet, OutBytes
  <2>3. d.offset + Len(d.output) <= OutputCap
    BY <1>1, <1>2, <1>3, <1>4, Sizes DEF Good
  <2>4. Stream(out, p.at)
    BY DEF Good
  <2>5. Stream(rest, q.at)
    <3>1. CASE n = Len(out)
      <4>1. Len(rest) = 0 /\ rest \in Seq(OutBytes)
        BY <3>1, <1>1, <1>2
      <4>2. rest = <<>>
        BY <4>1, EmptySeq
      <4>3. q.at = 0
        BY <3>1, <2>1, <2>2, <2>4 DEF Stream
      <4> QED BY <4>2, <4>3 DEF Stream
    <3>2. CASE n < Len(out)
      <4>1. Len(rest) > 0 /\ rest # <<>>
        BY <3>2, <1>1, <1>2
      <4>2. rest[1] = out[n + 1] /\ rest[Len(rest)] = out[Len(out)]
        BY <3>2, <4>1, <1>1, <1>2
      <4>3. rest[1][2] = q.at + 1
        <5>1. n \in 1 .. Len(out) - 1
          BY <3>2, <2>1
        <5>2. out[n + 1][2] = IF out[n][2] = out[n][3] THEN 1 ELSE out[n][2] + 1
          BY <5>1, <2>4 DEF Stream
        <5> QED BY <5>2, <4>2, <2>2
      <4>4. rest[Len(rest)][2] = rest[Len(rest)][3]
        BY <4>2, <2>1, <2>4 DEF Stream
      <4>5. ASSUME NEW j \in 1 .. Len(rest) - 1
            PROVE  rest[j + 1][2] = IF rest[j][2] = rest[j][3] THEN 1 ELSE rest[j][2] + 1
        <5>1. /\ j + n \in 1 .. Len(out) - 1 /\ rest[j] = out[j + n]
              /\ rest[j + 1] = out[(j + n) + 1]
          <6>1. /\ j \in 1 .. Len(rest) /\ j + 1 \in 1 .. Len(rest)
                /\ j + n \in 1 .. Len(out) - 1 /\ (j + 1) + n = (j + n) + 1
            <7>1. Len(rest) \in Nat /\ Len(out) \in Nat /\ n \in Nat /\ Len(rest) = Len(out) - n
              BY <1>1, <1>2, <2>1
            <7> HIDE DEF out, Sends
            <7> QED BY <7>1, <1>6
          <6> HIDE DEF out
          <6> QED BY <6>1, <1>2
        <5> QED BY <5>1, <2>4 DEF Stream
      <4> QED BY <4>1, <4>3, <4>4, <4>5 DEF Stream
    <3> QED BY <3>1, <3>2, <1>1
  <2>6. Good(d, q)
    BY <2>3, <2>5, <1>4 DEF Good
  <2>7. ASSUME Owes(c, p)
        PROVE  Owes(d, q)
    <3>1. c.input \in Seq(Bytes)
      BY DEF ClientSet
    <3>2. Cardinality(LineEnds(c.input)) \in Nat
      BY <3>1, LinesOfConcat
    <3> QED BY <2>7, <3>2, <2>2, <1>2, <1>3, <1>4 DEF Owes
  <2> QED BY <2>2, <2>6, <2>7, <1>2, <1>4
<1> QED BY <1>5, <1>6

-----------------------------------------------------------------------------
(* The inductive invariant.                                                *)

Reasons == {"no", "drop", "overflow", "io", "flushed"}

InVisit == {"read", "process", "write", "again", "check"}

Typed ==
  /\ clients \in [Slots -> ClientSet] /\ peer \in [Slots -> PeerSet]
  /\ nextId \in 1 .. MaxConnections + 1
  /\ backoff \in 0 .. BackoffTicks
  /\ cur \in 0 .. MaxClients
  /\ pc \in InVisit \cup {"top", "select", "accept", "visit", "shutdown", "stopped"}
  /\ why \in Reasons

\* A reason to close belongs to a visit, and is looked at after reading.
Visited ==
  /\ pc \in InVisit => cur \in Slots /\ me.used
  /\ pc \notin InVisit => why = "no"
  /\ pc \in {"read", "process"} => why \in {"no", "drop"}

\* Slots, what is in them and where they are in the buffers' life.
Placed ==
  \A s \in Slots :
    /\ Good(clients[s], peer[s])
    /\ clients[s].used => /\ clients[s].fd \in Fds /\ clients[s].fd < FdSetSize
                          /\ clients[s].id \in 1 .. nextId - 1
    /\ ~clients[s].used => clients[s] = NoClient

\* Only the client that is being visited may have a line waiting for nothing:
\* until process_requests is through with it, or because it is to be closed.
MayBeUnsettled == pc \in {"process", "again"} \/ (pc \in {"write", "check"} /\ why # "no")

AllSettled == \A s \in Slots : Settled(clients[s]) \/ (s = cur /\ MayBeUnsettled)

\* What a peer is owed is in the buffers.
Accounted ==
  /\ why = "overflow" => \E p \in subs : p[2] = me.id
  /\ \A s \in Slots :
       clients[s].used /\ ~clients[s].closing /\ ~(s = cur /\ why = "overflow")
         => Owes(clients[s], peer[s])

\* The ready bits are those of open descriptors until a visit closes one.
Bits ==
  /\ pc = "select" => mark = nextId
  /\ pc \in {"select", "accept"} => rset \cup wset \subseteq OpenFds
  /\ ReadyBitsAreOwn

Inv == /\ Typed /\ Visited /\ Placed /\ AllSettled /\ Accounted
       /\ ConnectionsConsistent /\ Bits

-----------------------------------------------------------------------------
(* A step within the visit of slot cur: it changes the buffers of that     *)
(* client, and may put messages into the queues of the others.             *)

CurStep ==
  /\ pc \in InVisit /\ pc' \in InVisit
  /\ UNCHANGED <<nextId, connected, stop, cur, turn>>
  /\ clients' \in [Slots -> ClientSet] /\ peer' \in [Slots -> PeerSet]
  /\ \A s \in Slots : s # cur => Grows(clients[s], clients'[s]) /\ peer'[s] = peer[s]
  /\ clients'[cur].used /\ clients'[cur].fd = me.fd /\ clients'[cur].id = me.id
  /\ Good(clients'[cur], peer'[cur])
  /\ \A p \in subs' : p \in subs \/ p[2] = me.id
  /\ why' \in Reasons
  /\ pc' \in {"read", "process"} => why' \in {"no", "drop"}
  /\ why' = "overflow" => \E p \in subs' : p[2] = me.id
  /\ Settled(clients'[cur]) \/ MayBeUnsettled'
  /\ ~clients'[cur].closing /\ why' # "overflow" => Owes(clients'[cur], peer'[cur])

\* Such a step keeps the invariant, whatever it did to the client.
LEMMA VisitInv ==
  ASSUME Inv, CurStep
  PROVE  Inv'
<1> USE DEF Inv
<1>1. /\ cur \in Slots /\ cur' = cur /\ me.used /\ me' = clients'[cur]
      /\ me'.used /\ me'.fd = me.fd /\ me'.id = me.id
      /\ UNCHANGED <<nextId, connected, backoff, rset, wset, lset, mark, accepted>>
  BY DEF CurStep, Visited, me, turn
<1>2. Typed'
  BY <1>1 DEF CurStep, Typed
<1>3. Visited'
  BY <1>1 DEF CurStep, Visited
<1>4. ASSUME NEW s \in Slots
      PROVE  /\ clients'[s].used = clients[s].used
             /\ clients'[s].fd = clients[s].fd /\ clients'[s].id = clients[s].id
  <2>1. CASE s = cur
    BY <2>1, <1>1 DEF CurStep, me
  <2>2. CASE s # cur
    BY <2>2 DEF CurStep, Grows
  <2> QED BY <2>1, <2>2
<1>5. Placed'
  <2> SUFFICES ASSUME NEW s \in Slots
               PROVE  /\ Good(clients'[s], peer'[s])
                      /\ clients'[s].used => /\ clients'[s].fd \in Fds
                                             /\ clients'[s].fd < FdSetSize
                                             /\ clients'[s].id \in 1 .. nextId' - 1
                      /\ ~clients'[s].used => clients'[s] = NoClient
    BY DEF Placed
  <2>1. Good(clients'[s], peer'[s])
    <3>1. CASE s = cur
      BY <3>1 DEF CurStep
    <3>2. CASE s # cur
      <4>1. Grows(clients[s], clients'[s]) /\ peer'[s] = peer[s] /\ peer[s] \in PeerSet
        BY <3>2 DEF CurStep, Typed
      <4>2. Good(clients[s], peer[s])
        BY DEF Placed
      <4> QED BY <4>1, <4>2 DEF Grows
    <3> QED BY <3>1, <3>2
  <2>2. ~clients'[s].used => clients'[s] = NoClient
    <3>1. CASE s = cur
      BY <3>1, <1>1
    <3>2. CASE s # cur
      BY <3>2 DEF CurStep, Grows, Placed
    <3> QED BY <3>1, <3>2
  <2>3. clients'[s].used => /\ clients'[s].fd \in Fds /\ clients'[s].fd < FdSetSize
                            /\ clients'[s].id \in 1 .. nextId' - 1
    BY <1>1, <1>4 DEF Placed
  <2> QED BY <2>1, <2>2, <2>3
<1>6. AllSettled'
  <2> SUFFICES ASSUME NEW s \in Slots
               PROVE  Settled(clients'[s]) \/ (s = cur /\ MayBeUnsettled')
    BY <1>1 DEF AllSettled
  <2>1. CASE s = cur
    BY <2>1 DEF CurStep
  <2>2. CASE s # cur
    <3>1. Grows(clients[s], clients'[s]) /\ Settled(clients[s])
      BY <2>2 DEF CurStep, AllSettled
    <3>2. clients[s].output \in Seq(OutBytes) /\ clients'[s].output \in Seq(OutBytes)
      BY DEF Typed, CurStep, ClientSet
    <3>3. Len(clients[s].output) \in Nat /\ Len(clients'[s].output) \in Nat
      BY <3>2
    <3> QED BY <3>1, <3>3, Sizes DEF Grows, Settled, HasLine, Pending
  <2> QED BY <2>1, <2>2
<1>7. Accounted'
  <2>1. why' = "overflow" => \E p \in subs' : p[2] = me'.id
    BY <1>1 DEF CurStep
  <2>2. ASSUME NEW s \in Slots, clients'[s].used, ~clients'[s].closing,
               ~(s = cur /\ why' = "overflow")
        PROVE  Owes(clients'[s], peer'[s])
    <3>1. CASE s = cur
      BY <3>1, <2>2 DEF CurStep
    <3>2. CASE s # cur
      <4>1. Grows(clients[s], clients'[s]) /\ peer'[s] = peer[s]
        BY <3>2 DEF CurStep
      <4>2. Owes(clients[s], peer[s])
        BY <3>2, <4>1, <2>2 DEF Grows, Accounted
      <4> QED BY <4>1, <4>2 DEF Grows, Owes
    <3> QED BY <3>1, <3>2
  <2> QED BY <2>1, <2>2, <1>1 DEF Accounted
<1>8. ConnectionsConsistent'
  <2>1. {s \in Slots : clients'[s].used} = {s \in Slots : clients[s].used}
    BY <1>4
  <2>2. pc # "stopped"
    BY DEF CurStep, InVisit
  <2>3. connected' = Cardinality({s \in Slots : clients'[s].used})
    BY <2>1, <2>2, <1>1 DEF ConnectionsConsistent
  <2>4. ASSUME NEW p \in subs'
        PROVE  \E s \in Slots : clients'[s].used /\ clients'[s].id = p[2]
    <3>1. CASE p \in subs
      <4>1. PICK s \in Slots : clients[s].used /\ clients[s].id = p[2]
        BY <3>1 DEF ConnectionsConsistent
      <4> QED BY <4>1, <1>4
    <3>2. CASE p[2] = me.id
      BY <3>2, <1>1 DEF me
    <3> QED BY <3>1, <3>2 DEF CurStep
  <2>5. ASSUME NEW s \in Slots, NEW t \in Slots, clients'[s].used, clients'[t].used, s # t
        PROVE  clients'[s].fd # clients'[t].fd /\ clients'[s].id # clients'[t].id
    BY <2>5, <1>4 DEF ConnectionsConsistent
  <2> QED BY <2>3, <2>4, <2>5 DEF ConnectionsConsistent
<1>9. Bits'
  <2>1. pc \in InVisit /\ pc' \in InVisit
    BY DEF CurStep
  <2>2. ReadyBitsAreOwn'
    BY <2>1, <1>1, <1>4 DEF ReadyBitsAreOwn, InVisit, Bits
  <2> QED BY <2>1, <2>2 DEF Bits, InVisit
<1> QED BY <1>2, <1>3, <1>5, <1>6, <1>7, <1>8, <1>9

-----------------------------------------------------------------------------
(* The steps of a visit.                                                   *)

\* What read_client and process_requests know when they answer: the queue is
\* below the high-water mark, perhaps but for a message to the client itself;
\* an answer that does not close takes one line off the input.
Answering(cs, input, closing, next) ==
  /\ pc \in {"read", "process"} /\ Pending(me) < HighWater
  /\ cs \in [Slots -> ClientSet]
  /\ \A s \in Slots : Grows(clients[s], cs[s])
  /\ cs[cur] = me \/ (subs' = subs /\ \E p \in subs : p[2] = me.id)
  /\ \A p \in subs' : p \in subs \/ p[2] = me.id
  /\ input \in Seq(Bytes) /\ Len(input) <= InputCap
  /\ closing \in BOOLEAN /\ next \in {"process", "write"}
  /\ ~closing => /\ ~me.closing
                 /\ Cardinality(LineEnds(input)) \in Nat
                 /\ Cardinality(LineEnds(me.input)) = 1 + Cardinality(LineEnds(input))
  /\ next = "write" => LineEnds(input) = {}

\* An answer given in these circumstances keeps the invariant.
LEMMA RespondInv ==
  ASSUME Inv, NEW STATE cs, NEW STATE input, NEW STATE closing, NEW CONSTANT next,
         Answering(cs, input, closing, next), Respond(cs, input, closing, next)
  PROVE  Inv'
<1> USE DEF Inv
<1> DEFINE c == cs[cur]
<1>1. /\ cur \in Slots /\ me.used /\ clients[cur] = me /\ me \in ClientSet
      /\ peer[cur] \in PeerSet /\ peer \in [Slots -> PeerSet]
      /\ pc \in InVisit /\ why \in {"no", "drop"}
  BY DEF Visited, Typed, InVisit, me, Answering
<1>2. /\ cs \in [Slots -> ClientSet] /\ c \in ClientSet
      /\ Grows(me, c) /\ \A s \in Slots : Grows(clients[s], cs[s])
  BY <1>1 DEF Answering
<1>3. Good(c, peer[cur]) /\ c.used /\ c.fd = me.fd /\ c.id = me.id
  <2>1. Good(me, peer[cur])
    BY <1>1 DEF Placed
  <2> QED BY <2>1, <1>1, <1>2 DEF Grows
<1>4. PICK n \in ReplyLens :
        /\ IF Fits(c, n)
           THEN /\ clients' = [cs EXCEPT ![cur] = [Queue(@, Unit("r", n)) EXCEPT
                                                     !.input = input, !.closing = closing]]
                /\ Visiting(next)
                /\ UNCHANGED why
           ELSE /\ clients' = [cs EXCEPT ![cur] = Compacted(@)]
                /\ Visiting("write")
                /\ why' = "overflow"
        /\ UNCHANGED <<from, peer>>
  BY DEF Respond
<1>5. n \in Nat \ {0} /\ n <= HighWater
  BY ReplyAssumption, Sizes, SizeAssumption
<1>6. c.output \in Seq(OutBytes) /\ Len(c.output) \in Nat /\ Answers(c.output) \in Nat
  <2>1. c.output \in Seq(OutBytes)
    BY <1>2 DEF ClientSet
  <2> QED BY <2>1, RepliesEndedAll
<1>7. peer' = peer /\ \A p \in subs' : p \in subs \/ p[2] = me.id
  BY <1>4 DEF Answering
<1> HIDE DEF c
<1>8. CASE Fits(c, n)
  <2> DEFINE q == Queue(c, Unit("r", n))
             d == [q EXCEPT !.input = input, !.closing = closing]
  <2>1. /\ clients' = [cs EXCEPT ![cur] = d]
        /\ UNCHANGED <<nextId, connected, stop, cur, turn>> /\ pc' = next /\ why' = why
    BY <1>4, <1>8 DEF Visiting, c
  <2>2. Queues(c, q, "r", n)
    BY <1>2, <1>5, <1>8 DEF Queues
  <2> HIDE DEF q
  <2>3. /\ q \in ClientSet /\ q.used = c.used /\ q.fd = c.fd /\ q.id = c.id
        /\ Answers(q.output) = Answers(c.output) + (IF "r" = "r" THEN 1 ELSE 0)
        /\ \A p \in PeerSet : Good(c, p) => Good(q, p)
    BY <2>2, QueueClient
  <2>4. Good(q, peer[cur])
    BY <2>3, <1>1, <1>3
  <2>5. /\ d \in ClientSet /\ d.used /\ d.fd = me.fd /\ d.id = me.id
        /\ d.input = input /\ d.output = q.output /\ d.offset = q.offset
        /\ d.closing = closing
    BY <2>3, <1>3 DEF ClientSet, Answering
  <2> HIDE DEF d
  <2>6. Good(d, peer[cur])
    BY <2>3, <2>4, <2>5, <1>3 DEF Good, Answering
  <2>7. clients' \in [Slots -> ClientSet] /\ clients'[cur] = d
    BY <2>1, <2>5, <1>1, <1>2
  <2>8. \A s \in Slots : s # cur => Grows(clients[s], clients'[s])
    BY <2>1, <1>1, <1>2
  <2>9. Settled(d) \/ MayBeUnsettled'
    BY <2>1, <2>5 DEF Answering, Settled, HasLine, MayBeUnsettled
  <2>10. ~d.closing => Owes(d, peer[cur])
    <3> HAVE ~d.closing
    <3>1. /\ ~me.closing /\ Cardinality(LineEnds(input)) \in Nat
          /\ Cardinality(LineEnds(me.input)) = 1 + Cardinality(LineEnds(input))
      BY <2>5 DEF Answering
    <3>2. Owes(me, peer[cur])
      BY <3>1, <1>1 DEF Accounted
    <3>3. Answers(c.output) = Answers(me.output)
      BY <1>2 DEF Grows
    <3> QED BY <3>1, <3>2, <3>3, <2>3, <2>5, <1>6 DEF Owes
  <2>11. pc' \in InVisit /\ why' \in {"no", "drop"}
    BY <2>1, <1>1 DEF InVisit, Answering
  <2>12. CurStep
    BY <2>1, <2>5, <2>6, <2>7, <2>8, <2>9, <2>10, <2>11, <1>1, <1>7 DEF CurStep, Reasons
  <2> QED BY <2>12, VisitInv
<1>9. CASE ~Fits(c, n)
  <2> DEFINE d == Compacted(c)
  <2>1. /\ clients' = [cs EXCEPT ![cur] = d]
        /\ UNCHANGED <<nextId, connected, stop, cur, turn>> /\ pc' = "write" /\ why' = "overflow"
    BY <1>4, <1>9 DEF Visiting, c
  <2>2. subs' = subs /\ \E p \in subs : p[2] = me.id
    <3>1. c # me
      <4>1. Len(me.output) < HighWater
        BY DEF Answering, Pending
      <4> QED BY <4>1, <1>5, <1>6, <1>9, Sizes DEF Fits, Pending
    <3> QED BY <3>1 DEF Answering, c
  <2>3. /\ d \in ClientSet /\ d.used /\ d.fd = me.fd /\ d.id = me.id
        /\ d.input = c.input /\ d.output = c.output /\ d.offset = 0
    BY <1>2, <1>3 DEF ClientSet, Compacted
  <2> HIDE DEF d
  <2>4. c.offset \in Nat
    BY <1>2 DEF ClientSet
  <2>5. Good(d, peer[cur])
    BY <2>3, <2>4, <1>3, <1>6, Sizes DEF Good
  <2>6. clients' \in [Slots -> ClientSet] /\ clients'[cur] = d
    BY <2>1, <2>3, <1>1, <1>2
  <2>7. \A s \in Slots : s # cur => Grows(clients[s], clients'[s])
    BY <2>1, <1>1, <1>2
  <2>8. MayBeUnsettled' /\ pc' \in InVisit
    BY <2>1 DEF MayBeUnsettled, InVisit
  <2>9. CurStep
    BY <2>1, <2>2, <2>3, <2>5, <2>6, <2>7, <2>8, <1>1, <1>7 DEF CurStep, Reasons
  <2> QED BY <2>9, VisitInv
<1> QED BY <1>8, <1>9

\* A client that nobody touches.
LEMMA GrowsSelf ==
  ASSUME NEW c \in ClientSet
  PROVE  Grows(c, c)
<1>1. c.output \in Seq(OutBytes)
  BY DEF ClientSet
<1>2. Len(c.output) \in Nat
  BY <1>1
<1> QED BY <1>2 DEF Grows

\* What a step of a visit finds.
LEMMA InsideVisit ==
  ASSUME Inv, pc \in InVisit
  PROVE  /\ cur \in Slots /\ me.used /\ clients[cur] = me /\ me \in ClientSet
         /\ peer[cur] \in PeerSet /\ peer \in [Slots -> PeerSet]
         /\ clients \in [Slots -> ClientSet]
         /\ Good(me, peer[cur])
         /\ \A s \in Slots : Grows(clients[s], clients[s])
         /\ Settled(me) \/ MayBeUnsettled
         /\ ~me.closing /\ why # "overflow" => Owes(me, peer[cur])
         /\ me.input \in Seq(Bytes) /\ Len(me.input) \in Nat /\ Len(me.input) <= InputCap
         /\ me.output \in Seq(OutBytes) /\ Len(me.output) \in Nat
<1>1. cur \in Slots /\ me.used /\ clients[cur] = me
  BY DEF Inv, Visited, me
<1>2. /\ me \in ClientSet /\ clients \in [Slots -> ClientSet]
      /\ peer[cur] \in PeerSet /\ peer \in [Slots -> PeerSet]
  BY <1>1 DEF Inv, Typed, me
<1>3. Good(me, peer[cur])
  BY <1>1 DEF Inv, Placed
<1>4. ~me.closing /\ why # "overflow" => Owes(me, peer[cur])
  BY <1>1 DEF Inv, Accounted
<1>5. Settled(me) \/ MayBeUnsettled
  BY <1>1 DEF Inv, AllSettled
<1>6. \A s \in Slots : Grows(clients[s], clients[s])
  BY <1>2, GrowsSelf
<1>7. me.input \in Seq(Bytes) /\ me.output \in Seq(OutBytes)
  BY <1>2 DEF ClientSet
<1>8. Len(me.input) \in Nat /\ Len(me.output) \in Nat /\ Len(me.input) <= InputCap
  BY <1>3, <1>7 DEF Good
<1> QED BY <1>1, <1>2, <1>3, <1>4, <1>5, <1>6, <1>7, <1>8

\* A step of a visit that only decides where to go on.
Stays == /\ pc \in InVisit /\ pc' \in InVisit
         /\ UNCHANGED <<nextId, connected, stop, cur, turn, clients, subs, peer>>
         /\ why' \in Reasons /\ (why' = "overflow" <=> why = "overflow")
         /\ pc' \in {"read", "process"} => why' \in {"no", "drop"}
         /\ Settled(me) \/ MayBeUnsettled'

\* It keeps the invariant.
LEMMA StaysInv ==
  ASSUME Inv, Stays
  PROVE  Inv'
<1>1. pc \in InVisit
  BY DEF Stays
<1>2. /\ clients' = clients /\ peer' = peer /\ subs' = subs
      /\ clients'[cur] = me /\ peer'[cur] = peer[cur]
  BY <1>1, InsideVisit DEF Stays
<1>3. why' = "overflow" => \E p \in subs' : p[2] = me.id
  BY <1>2 DEF Stays, Inv, Accounted
<1>4. CurStep
  BY <1>1, <1>2, <1>3, InsideVisit DEF Stays, CurStep
<1> QED BY <1>4, VisitInv

\* The steps that are of this kind.
LEMMA DecidesInv ==
  ASSUME Inv,
         \/ ReadPauses \/ ReadWouldBlock \/ ReadError \/ ProcessEnds
         \/ WriteSkipped \/ ProcessAgain
  PROVE  Inv'
<1>1. why \in Reasons /\ (pc \in {"read", "process"} => why \in {"no", "drop"})
  BY DEF Inv, Typed, Visited
<1>2. pc \in InVisit => Settled(me) \/ MayBeUnsettled
  BY InsideVisit
<1>3. CASE ReadPauses \/ ReadWouldBlock \/ ReadError
  <2>1. /\ pc = "read" /\ pc' = "write" /\ why' \in {why, "io"}
        /\ UNCHANGED <<nextId, connected, stop, cur, turn, clients, subs, peer>>
    BY <1>3 DEF ReadPauses, ReadWouldBlock, ReadError, Recv, Decide, Visiting
  <2>2. Settled(me)
    BY <1>2, <2>1 DEF MayBeUnsettled, InVisit
  <2>3. Stays
    BY <1>1, <2>1, <2>2 DEF Stays, InVisit, Reasons
  <2> QED BY <2>3, StaysInv
<1>4. CASE ProcessEnds
  <2>1. /\ pc = "process" /\ pc' \in {"check", "write", "read"} /\ why' = why
        /\ UNCHANGED <<nextId, connected, stop, cur, turn, clients, subs, peer>>
        /\ ~MayProcess
    BY <1>4 DEF ProcessEnds, AfterProcess, Visiting
  <2>2. Settled(me)
    <3>1. Len(me.output) \in Nat
      BY <2>1, InsideVisit DEF InVisit
    <3> QED BY <2>1, <3>1, Sizes DEF MayProcess, Settled, Pending
  <2>3. Stays
    BY <1>1, <2>1, <2>2 DEF Stays, InVisit
  <2> QED BY <2>3, StaysInv
<1>5. CASE WriteSkipped
  <2>1. /\ pc = "write" /\ pc' = "again" /\ why' = why
        /\ UNCHANGED <<nextId, connected, stop, cur, turn, clients, subs, peer>>
    BY <1>5 DEF WriteSkipped, Decide, Visiting
  <2>2. Stays
    BY <1>1, <2>1 DEF Stays, InVisit, MayBeUnsettled
  <2> QED BY <2>2, StaysInv
<1>6. CASE ProcessAgain
  <2>1. /\ pc = "again" /\ why' = why /\ pc' = (IF Again THEN "process" ELSE "check")
        /\ UNCHANGED <<nextId, connected, stop, cur, turn, clients, subs, peer>>
    BY <1>6 DEF ProcessAgain, Visiting
  <2>2. Settled(me) \/ MayBeUnsettled'
    <3>1. CASE Again \/ why # "no"
      BY <2>1, <3>1 DEF MayBeUnsettled
    <3>2. CASE me.input = <<>>
      BY <3>2 DEF Settled, HasLine, LineEnds
    <3>3. CASE ~(Pending(me) < HighWater)
      <4>1. Len(me.output) \in Nat
        BY <2>1, InsideVisit DEF InVisit
      <4> QED BY <3>3, <4>1, Sizes DEF Settled, Pending
    <3> QED BY <3>1, <3>2, <3>3 DEF Again
  <2>3. Stays
    BY <1>1, <2>1, <2>2 DEF Stays, InVisit, Again
  <2> QED BY <2>3, StaysInv
<1> QED BY <1>3, <1>4, <1>5, <1>6

\* recv returned bytes.
LEMMA ReadBytesInv ==
  ASSUME Inv, NEW chunk \in Chunks, ReadBytes(chunk)
  PROVE  Inv'
<1> DEFINE d == [me EXCEPT !.input = @ \o chunk]
           n == Cardinality(LineEnds(chunk))
           q == [peer[cur] EXCEPT !.owed = @ + n]
<1>1. /\ pc = "read" /\ pc' = "process" /\ why' = why /\ subs' = subs
      /\ UNCHANGED <<nextId, connected, stop, cur, turn>>
      /\ Len(chunk) <= InputCap - Len(me.input)
      /\ clients' = [clients EXCEPT ![cur].input = @ \o chunk]
      /\ peer' = [peer EXCEPT ![cur].owed = @ + n]
  BY DEF ReadBytes, Recv, Visiting
<1>2. pc \in InVisit /\ pc' \in InVisit /\ why \in {"no", "drop"} /\ MayBeUnsettled'
  BY <1>1 DEF InVisit, Inv, Visited, MayBeUnsettled
<1>3. chunk \in Seq(Bytes)
  BY ChunkAssumption DEF Bytes
<1>4. me.input \in Seq(Bytes) /\ Len(me.input) \in Nat /\ me \in ClientSet /\ me.used
  BY <1>2, InsideVisit
<1>5. /\ me.input \o chunk \in Seq(Bytes)
      /\ Len(me.input \o chunk) = Len(me.input) + Len(chunk)
      /\ n \in Nat /\ Cardinality(LineEnds(me.input)) \in Nat
      /\ Cardinality(LineEnds(me.input \o chunk)) = Cardinality(LineEnds(me.input)) + n
  BY <1>3, <1>4, LinesOfConcat
<1>6. clients' = [clients EXCEPT ![cur] = d] /\ peer' = [peer EXCEPT ![cur] = q]
  BY <1>1, <1>2, InsideVisit
<1> HIDE DEF n
<1>7. /\ d \in ClientSet /\ d.used = me.used /\ d.fd = me.fd /\ d.id = me.id
      /\ d.closing = me.closing /\ d.input = me.input \o chunk
      /\ d.output = me.output /\ d.offset = me.offset
  BY <1>4, <1>5 DEF ClientSet
<1>8. q \in PeerSet /\ q.owed = peer[cur].owed + n /\ q.at = peer[cur].at
  <2>1. peer[cur] \in PeerSet
    BY <1>2, InsideVisit
  <2> QED BY <2>1, <1>5 DEF PeerSet
<1> HIDE DEF d, q
<1>9. Good(d, q)
  <2>1. Good(me, peer[cur]) /\ Len(chunk) \in Nat
    BY <1>2, <1>3, InsideVisit
  <2>2. Len(d.input) <= InputCap
    BY <2>1, <1>1, <1>4, <1>5, <1>7, Sizes
  <2> QED BY <2>1, <2>2, <1>7, <1>8 DEF Good
<1>10. ~d.closing => Owes(d, q)
  <2>1. Answers(me.output) \in Nat
    BY <1>2, InsideVisit, RepliesEndedAll
  <2>2. ~me.closing => Owes(me, peer[cur])
    BY <1>2, InsideVisit
  <2>3. peer[cur].owed \in Int
    BY <1>2, InsideVisit DEF PeerSet
  <2> QED BY <2>1, <2>2, <2>3, <1>5, <1>7, <1>8 DEF Owes
<1>11. /\ clients' \in [Slots -> ClientSet] /\ peer' \in [Slots -> PeerSet]
       /\ clients'[cur] = d /\ peer'[cur] = q
       /\ \A s \in Slots : s # cur => Grows(clients[s], clients'[s]) /\ peer'[s] = peer[s]
  BY <1>2, <1>6, <1>7, <1>8, InsideVisit
<1>12. CurStep
  BY <1>1, <1>2, <1>4, <1>7, <1>9, <1>10, <1>11 DEF CurStep, Reasons
<1> QED BY <1>12, VisitInv

\* send took n bytes.
LEMMA WriteInv ==
  ASSUME Inv, InWrite, NEW n \in 0 .. Pending(me), NEW reason \in {"no", "io", "flushed"},
         Write(n, reason)
  PROVE  Inv'
<1> DEFINE d == Sent(me, n)
           q == PeerAfter(peer[cur], me.output, n)
<1>1. /\ pc = "write" /\ pc' = "again" /\ why = "no" /\ why' = reason /\ subs' = subs
      /\ UNCHANGED <<nextId, connected, stop, cur, turn>>
  BY DEF InWrite, Write, Visiting
<1>2. pc \in InVisit /\ pc' \in InVisit /\ MayBeUnsettled'
  BY <1>1 DEF InVisit, MayBeUnsettled
<1>3. clients' = [clients EXCEPT ![cur] = d] /\ peer' = [peer EXCEPT ![cur] = q]
  BY DEF Write
<1> HIDE DEF d, q
<1>4. /\ d \in ClientSet /\ q \in PeerSet
      /\ d.used = me.used /\ d.fd = me.fd /\ d.id = me.id /\ d.closing = me.closing
      /\ Good(d, q) /\ (Owes(me, peer[cur]) => Owes(d, q))
  <2>1. me \in ClientSet /\ peer[cur] \in PeerSet /\ Good(me, peer[cur]) /\ me.used
    BY <1>2, InsideVisit
  <2>2. Sends(me, peer[cur], n, d, q)
    BY <2>1 DEF Sends, d, q, Pending
  <2> QED BY <2>2, SentClient
<1>5. /\ clients' \in [Slots -> ClientSet] /\ peer' \in [Slots -> PeerSet]
      /\ clients'[cur] = d /\ peer'[cur] = q
      /\ \A s \in Slots : s # cur => Grows(clients[s], clients'[s]) /\ peer'[s] = peer[s]
  BY <1>2, <1>3, <1>4, InsideVisit
<1>6. me.used /\ (~d.closing => Owes(d, q))
  BY <1>1, <1>2, <1>4, InsideVisit
<1>7. CurStep
  BY <1>1, <1>2, <1>4, <1>5, <1>6 DEF CurStep, Reasons
<1> QED BY <1>7, VisitInv

\* An error answer closes the connection.
LEMMA ErrorInv ==
  ASSUME Inv, ReadTooLarge \/ ReadClosed \/ ProcessTooLarge
  PROVE  Inv'
<1>1. /\ pc \in {"read", "process"} /\ Pending(me) < HighWater /\ subs' = subs
      /\ pc \in InVisit
  BY DEF ReadTooLarge, ReadFull, ReadClosed, Recv, ProcessTooLarge, MayProcess, InVisit
<1>2. <<>> \in Seq(Bytes) /\ Len(<<>>) <= InputCap /\ LineEnds(<<>>) = {}
  BY Sizes DEF LineEnds
<1>3. \A next \in {"process", "write"} : Answering(clients, <<>>, TRUE, next)
  BY <1>1, <1>2, InsideVisit DEF Answering
<1>4. CASE ReadTooLarge
  BY <1>3, <1>4, RespondInv DEF ReadTooLarge, InputAfterError
<1>5. CASE ProcessTooLarge
  BY <1>3, <1>5, RespondInv DEF ProcessTooLarge
<1>6. CASE ReadClosed /\ me.input # <<>>
  BY <1>3, <1>6, RespondInv DEF ReadClosed, InputAfterError
<1>7. CASE ReadClosed /\ me.input = <<>>
  <2> DEFINE d == [me EXCEPT !.closing = TRUE]
  <2>1. /\ pc' = "write" /\ why' = why /\ peer' = peer /\ subs' = subs
        /\ UNCHANGED <<nextId, connected, stop, cur, turn>>
        /\ clients' = [clients EXCEPT ![cur].closing = TRUE]
    BY <1>7 DEF ReadClosed, Visiting
  <2>2. clients' = [clients EXCEPT ![cur] = d]
    BY <2>1, <1>1, InsideVisit
  <2>3. me \in ClientSet /\ me.used /\ why \in {"no", "drop"} /\ pc' \in InVisit
    BY <1>1, <2>1, InsideVisit DEF Inv, Visited, InVisit
  <2>4. /\ d \in ClientSet /\ d.used = me.used /\ d.fd = me.fd /\ d.id = me.id
        /\ d.closing /\ d.input = me.input /\ d.output = me.output /\ d.offset = me.offset
    BY <2>3 DEF ClientSet
  <2> HIDE DEF d
  <2>5. Good(d, peer[cur])
    BY <2>4, <1>1, InsideVisit DEF Good
  <2>6. Settled(d)
    BY <2>4, <1>2, <1>7 DEF Settled, HasLine
  <2>7. /\ clients' \in [Slots -> ClientSet] /\ peer' \in [Slots -> PeerSet]
        /\ clients'[cur] = d /\ peer'[cur] = peer[cur]
        /\ \A s \in Slots : s # cur => Grows(clients[s], clients'[s]) /\ peer'[s] = peer[s]
    BY <1>1, <2>1, <2>2, <2>4, InsideVisit
  <2>8. CurStep
    BY <1>1, <2>1, <2>3, <2>4, <2>5, <2>6, <2>7 DEF CurStep, Reasons
  <2> QED BY <2>8, VisitInv
<1> QED BY <1>4, <1>5, <1>6, <1>7

\* Every command takes its line off the input and answers it.
LEMMA CommandInv ==
  ASSUME Inv,
         \/ Command
         \/ \E ch \in Channels : \/ CommandSubscribe(ch) \/ CommandUnsubscribe(ch)
                                 \/ \E m \in MsgLens : CommandPublish(ch, m)
  PROVE  Inv'
<1>1. pc = "process" /\ pc \in InVisit /\ Pending(me) < HighWater /\ HasLine(me)
  BY DEF Command, CommandSubscribe, CommandUnsubscribe, CommandPublish, InCommand,
         MayProcess, InVisit
<1>2. /\ Rest \in Seq(Bytes) /\ Len(Rest) <= InputCap
      /\ Cardinality(LineEnds(Rest)) \in Nat
      /\ Cardinality(LineEnds(me.input)) = 1 + Cardinality(LineEnds(Rest))
  <2>1. /\ me.input \in Seq(Bytes) /\ Len(me.input) \in Nat /\ Len(me.input) <= InputCap
        /\ LineEnds(me.input) # {}
    BY <1>1, InsideVisit DEF HasLine
  <2>2. /\ LineEnd \in 1 .. Len(me.input)
        /\ Rest \in Seq(Bytes) /\ Len(Rest) = Len(me.input) - LineEnd
        /\ Cardinality(LineEnds(Rest)) \in Nat
        /\ Cardinality(LineEnds(me.input)) = 1 + Cardinality(LineEnds(Rest))
    BY <2>1, LinesOfRest DEF Rest, LineEnd
  <2> QED BY <2>1, <2>2, Sizes
<1>3. me.closing \in BOOLEAN
  BY <1>1, InsideVisit DEF ClientSet
<1>4. CASE \/ Command
           \/ \E ch \in Channels : CommandSubscribe(ch) \/ CommandUnsubscribe(ch)
  <2>1. Respond(clients, Rest, me.closing, "process")
    BY <1>4 DEF Command, CommandSubscribe, CommandUnsubscribe
  <2>2. \A p \in subs' : p \in subs \/ p[2] = me.id
    BY <1>4 DEF Command, CommandSubscribe, CommandUnsubscribe
  <2>3. Answering(clients, Rest, me.closing, "process")
    BY <1>1, <1>2, <1>3, <2>2, InsideVisit DEF Answering
  <2> QED BY <2>1, <2>3, RespondInv
<1>5. ASSUME NEW ch \in Channels, NEW m \in MsgLens, CommandPublish(ch, m)
      PROVE  Inv'
  <2> DEFINE ids == {id \in 1 .. nextId - 1 : <<ch, id>> \in subs}
             cs == Deliver(ids, m)
  <2>1. subs' = subs /\ Respond(cs, Rest, me.closing, "process")
    BY <1>5 DEF CommandPublish
  <2>2. m \in Nat \ {0}
    BY MsgAssumption
  <2>3. \A s \in Slots : /\ Grows(clients[s], cs[s])
                         /\ clients[s].id \notin ids => cs[s] = clients[s]
    <3>1. clients \in [Slots -> ClientSet]
      BY <1>1, InsideVisit
    <3> HIDE DEF ids
    <3> QED BY <2>2, <3>1, DeliverGrows
  <2>4. cs \in [Slots -> ClientSet]
    <3>1. \A s \in Slots : cs[s] \in ClientSet
      BY <2>3 DEF Grows
    <3>2. DOMAIN cs = Slots /\ cs = [s \in Slots |-> cs[s]]
      BY DEF Deliver
    <3> HIDE DEF cs
    <3> QED BY <3>1, <3>2
  <2>5. cs[cur] = me \/ \E p \in subs : p[2] = me.id
    <3>1. CASE me.id \notin ids
      BY <3>1, <2>3, <1>1, InsideVisit
    <3>2. CASE me.id \in ids
      BY <3>2
    <3> QED BY <3>1, <3>2
  <2> HIDE DEF cs
  <2>6. Answering(cs, Rest, me.closing, "process")
    BY <1>1, <1>2, <1>3, <2>1, <2>3, <2>4, <2>5 DEF Answering
  <2> QED BY <2>1, <2>6, RespondInv
<1> QED BY <1>4, <1>5

-----------------------------------------------------------------------------
(* The steps around the visits.                                            *)

\* A step that leaves the registry alone while no visit is half done.
Quiet == /\ UNCHANGED registry
         /\ pc # "stopped" /\ why = "no" /\ ~MayBeUnsettled
         /\ backoff' \in 0 .. BackoffTicks /\ cur' \in 0 .. MaxClients
         /\ pc' \in InVisit \cup {"top", "select", "accept", "visit", "shutdown"}
         /\ why' \in {"no", "drop"}
         /\ pc' \in InVisit => cur' \in Slots /\ clients[cur'].used
         /\ pc' \notin InVisit => why' = "no"
         /\ Bits'

\* It keeps the invariant.
LEMMA QuietInv ==
  ASSUME Inv, Quiet
  PROVE  Inv'
<1> USE DEF Inv, Quiet
<1>1. /\ clients' = clients /\ peer' = peer /\ subs' = subs /\ nextId' = nextId
      /\ connected' = connected
  BY DEF registry
<1>2. Typed'
  BY <1>1 DEF Typed, Reasons
<1>3. Visited'
  BY <1>1 DEF Visited, me
<1>4. Placed'
  BY <1>1 DEF Placed
<1>5. AllSettled'
  BY <1>1 DEF AllSettled
<1>6. Accounted'
  BY <1>1 DEF Accounted
<1>7. ConnectionsConsistent'
  BY <1>1 DEF ConnectionsConsistent
<1> QED BY <1>2, <1>3, <1>4, <1>5, <1>6, <1>7

\* The steps that are of this kind.
LEMMA TurnInv ==
  ASSUME Inv,
         \/ StopSignal \/ Poll \/ SelectReturns \/ SelectInterrupted \/ SelectFails
         \/ AcceptEnds \/ AcceptError \/ \E fd \in Fds \ OpenFds : AcceptRejects(fd)
         \/ VisitEnds \/ VisitUnused \/ VisitClient \/ VisitKeeps \/ LoopEnds
  PROVE  Inv'
<1> USE DEF Inv
<1>1. /\ backoff \in Nat /\ backoff <= BackoffTicks /\ BackoffTicks \in Nat \ {0}
      /\ MaxClients \in Nat /\ cur \in Nat /\ cur <= MaxClients
      /\ 0 \in 0 .. MaxClients /\ BackoffTicks \in 0 .. BackoffTicks
      /\ why \in Reasons /\ (pc \notin InVisit => why = "no")
      /\ \A s \in Slots : s \in Nat /\ s + 1 \in 0 .. MaxClients
  BY SizeAssumption DEF Typed, Visited, Slots
<1>2. Bits
  OBVIOUS
<1>3. CASE StopSignal
  <2>1. Bits'
    BY <1>2, <1>3 DEF StopSignal, registry, turn, Bits, OpenFds, FreeSlots, ReadyBitsAreOwn
  <2>2. Quiet
    BY <1>1, <1>3, <2>1 DEF StopSignal, Quiet, turn, InVisit, MayBeUnsettled
  <2> QED BY <2>2, QuietInv
<1>4. CASE Poll
  <2>1. /\ rset' = ReadFds /\ wset' = WriteFds /\ mark' = nextId /\ pc' = "select"
        /\ pc = "top" /\ UNCHANGED <<clients, nextId>>
    BY <1>4 DEF Poll, registry
  <2>2. Bits'
    BY <2>1 DEF Bits, ReadyBitsAreOwn, OpenFds, FreeSlots, ReadFds, WriteFds,
                PollRead, PollWrite
  <2>3. backoff' \in 0 .. BackoffTicks
    BY <1>1, <1>4 DEF Poll
  <2>4. Quiet
    BY <1>1, <1>4, <2>2, <2>3 DEF Poll, Quiet, InVisit, MayBeUnsettled
  <2> QED BY <2>4, QuietInv
<1>5. CASE SelectReturns
  <2>1. /\ rset' \subseteq rset /\ wset' \subseteq wset /\ mark' = mark
        /\ pc' \in {"accept", "visit"} /\ pc = "select" /\ UNCHANGED <<clients, nextId>>
    BY <1>5 DEF SelectReturns, registry
  <2>2. ReadyBitsAreOwn'
    <3>1. \A s \in Slots : clients[s].used => clients[s].id < mark
      <4>1. nextId \in Nat /\ mark = nextId
        BY <2>1, SizeAssumption DEF Typed, Bits
      <4> QED BY <4>1 DEF Placed
    <3> QED BY <2>1, <3>1 DEF ReadyBitsAreOwn
  <2>3. Bits'
    BY <2>1, <2>2 DEF Bits, OpenFds, FreeSlots
  <2>4. Quiet
    BY <1>1, <1>5, <2>3 DEF SelectReturns, Quiet, InVisit, MayBeUnsettled
  <2> QED BY <2>4, QuietInv
<1>6. CASE SelectInterrupted \/ SelectFails \/ VisitEnds \/ LoopEnds
  <2>1. /\ pc \in {"select", "visit", "top"} /\ pc' \in {"top", "shutdown"} /\ cur' = 0
        /\ UNCHANGED <<registry, why, backoff>>
    BY <1>6 DEF SelectInterrupted, SelectFails, VisitEnds, LoopEnds, EndTurn
  <2>2. Bits'
    BY <2>1 DEF Bits, ReadyBitsAreOwn
  <2>3. Quiet
    BY <1>1, <2>1, <2>2 DEF Quiet, InVisit, MayBeUnsettled
  <2> QED BY <2>3, QuietInv
<1>7. CASE AcceptEnds \/ AcceptError \/ \E fd \in Fds \ OpenFds : AcceptRejects(fd)
  <2>1. /\ pc = "accept" /\ pc' \in {"accept", "visit"}
        /\ UNCHANGED <<registry, why, cur, rset, wset, mark>>
        /\ backoff' \in {backoff, BackoffTicks}
    BY <1>7 DEF AcceptEnds, AcceptError, AcceptRejects, AcceptTurn, InAccept, turn, registry
  <2>2. Bits'
    BY <2>1 DEF Bits, ReadyBitsAreOwn, OpenFds, FreeSlots, registry
  <2>3. Quiet
    BY <1>1, <2>1, <2>2 DEF Quiet, InVisit, MayBeUnsettled
  <2> QED BY <2>3, QuietInv
<1>8. CASE VisitUnused \/ VisitKeeps
  <2>1. /\ pc \in {"visit", "check"} /\ pc' = "visit" /\ why = "no" /\ cur \in Slots
        /\ cur' = cur + 1 /\ UNCHANGED <<registry, turn, why>>
    BY <1>8 DEF VisitUnused, VisitKeeps, ShouldClose, Visited, InVisit
  <2>2. Bits'
    BY <2>1 DEF Bits, ReadyBitsAreOwn, registry, turn
  <2>3. Quiet
    BY <1>1, <2>1, <2>2 DEF Quiet, InVisit, MayBeUnsettled, turn
  <2> QED BY <2>3, QuietInv
<1>9. CASE VisitClient
  <2>1. /\ pc = "visit" /\ pc' \in {"read", "write"} /\ why' \in {"no", "drop"}
        /\ cur \in Slots /\ cur' = cur /\ clients[cur].used
        /\ UNCHANGED <<registry, turn>>
    BY <1>9 DEF VisitClient, Decide, Visiting, FirstReason, me, registry
  <2>2. Bits'
    BY <2>1 DEF Bits, ReadyBitsAreOwn, registry, turn
  <2>3. Quiet
    BY <1>1, <2>1, <2>2 DEF Quiet, InVisit, MayBeUnsettled, turn
  <2> QED BY <2>3, QuietInv
<1> QED BY <1>3, <1>4, <1>5, <1>6, <1>7, <1>8, <1>9

\* The used slots can be counted.
LEMMA UsedSlots ==
  LET used == {s \in Slots : clients[s].used}
  IN  IsFiniteSet(used) /\ Cardinality(used) \in Nat
<1>1. IsFiniteSet(Slots)
  BY SizeAssumption, FS_Interval DEF Slots
<1>2. IsFiniteSet({s \in Slots : clients[s].used})
  BY <1>1, FS_Subset
<1> QED BY <1>2, FS_CardinalityType

\* A connection gets the first free slot and an id of its own.
LEMMA AcceptClientInv ==
  ASSUME Inv, NEW fd \in Fds \ OpenFds, AcceptClient(fd)
  PROVE  Inv'
<1> USE DEF Inv
<1> DEFINE s0 == Min(FreeSlots)
           new == NewClient(fd, nextId)
<1>1. /\ pc = "accept" /\ pc' = pc /\ fd < FdSetSize /\ nextId <= MaxConnections
      /\ nextId' = nextId + 1 /\ connected' = connected + 1
      /\ clients' = [clients EXCEPT ![s0] = new] /\ peer' = [peer EXCEPT ![s0] = NewPeer]
      /\ UNCHANGED <<subs, stop, cur, why, backoff, rset, wset, mark>>
  BY DEF AcceptClient, AcceptTurn, InAccept, HasPlace
<1>2. s0 \in Slots /\ ~clients[s0].used
  <2>1. FreeSlots \in SUBSET Nat /\ FreeSlots # {}
    BY SizeAssumption DEF FreeSlots, Slots, AcceptClient, HasPlace
  <2>2. s0 \in FreeSlots
    BY <2>1, MinIsLeast
  <2> QED BY <2>2 DEF FreeSlots
<1>3. why = "no" /\ ~MayBeUnsettled /\ ~MayBeUnsettled' /\ nextId \in Nat \ {0}
  BY <1>1, SizeAssumption DEF Visited, InVisit, MayBeUnsettled, Typed
<1>4. /\ new \in ClientSet /\ Good(new, NewPeer) /\ Settled(new) /\ Owes(new, NewPeer)
      /\ new.used /\ new.fd = fd /\ new.id = nextId /\ NewPeer \in PeerSet
  <2>1. fd \in Nat /\ nextId \in Nat
    BY <1>3, FdAssumption
  <2> QED BY <2>1, EmptyClient
<1> HIDE DEF s0, new
<1>5. /\ clients \in [Slots -> ClientSet] /\ peer \in [Slots -> PeerSet]
      /\ clients'[s0] = new /\ peer'[s0] = NewPeer
      /\ \A s \in Slots : s # s0 => clients'[s] = clients[s] /\ peer'[s] = peer[s]
  BY <1>1, <1>2 DEF Typed
<1>6. Typed'
  <2>1. clients' \in [Slots -> ClientSet] /\ peer' \in [Slots -> PeerSet]
    BY <1>1, <1>2, <1>4, <1>5
  <2>2. nextId' \in 1 .. MaxConnections + 1
    BY <1>1, <1>3, SizeAssumption
  <2> QED BY <1>1, <2>1, <2>2 DEF Typed
<1>7. Visited'
  BY <1>1, <1>3 DEF Visited, InVisit
<1>8. Placed'
  <2> SUFFICES ASSUME NEW s \in Slots
               PROVE  /\ Good(clients'[s], peer'[s])
                      /\ clients'[s].used => /\ clients'[s].fd \in Fds
                                             /\ clients'[s].fd < FdSetSize
                                             /\ clients'[s].id \in 1 .. nextId' - 1
                      /\ ~clients'[s].used => clients'[s] = NoClient
    BY DEF Placed
  <2>1. CASE s = s0
    BY <2>1, <1>1, <1>3, <1>4, <1>5
  <2>2. CASE s # s0
    <3>1. clients[s].used => clients[s].id \in 1 .. nextId - 1
      BY DEF Placed
    <3>2. clients[s].used => clients[s].id \in 1 .. nextId' - 1
      BY <3>1, <1>1, <1>3
    <3> QED BY <2>2, <3>2, <1>5 DEF Placed
  <2> QED BY <2>1, <2>2
<1>9. AllSettled'
  BY <1>3, <1>4, <1>5 DEF AllSettled
<1>10. Accounted'
  BY <1>1, <1>3, <1>4, <1>5 DEF Accounted
<1>11. ConnectionsConsistent'
  <2> DEFINE used == {s \in Slots : clients[s].used}
  <2>1. {s \in Slots : clients'[s].used} = used \cup {s0}
    BY <1>2, <1>4, <1>5
  <2>2. s0 \notin used /\ IsFiniteSet(used) /\ connected = Cardinality(used)
    BY <1>1, <1>2, UsedSlots DEF ConnectionsConsistent
  <2>3. Cardinality(used \cup {s0}) = Cardinality(used) + 1
    BY <2>2, FS_AddElement
  <2>4. connected' = Cardinality({s \in Slots : clients'[s].used})
    BY <1>1, <2>1, <2>2, <2>3
  <2>5. ASSUME NEW s \in Slots, clients[s].used
        PROVE  clients[s].fd # fd /\ clients[s].id # nextId
    <3>1. clients[s].fd \in OpenFds
      BY <2>5 DEF OpenFds, FreeSlots
    <3>2. clients[s].id \in 1 .. nextId - 1
      BY <2>5 DEF Placed
    <3> QED BY <1>3, <3>1, <3>2
  <2>6. ASSUME NEW s \in Slots, NEW t \in Slots, clients'[s].used, clients'[t].used, s # t
        PROVE  clients'[s].fd # clients'[t].fd /\ clients'[s].id # clients'[t].id
    <3>1. CASE s # s0 /\ t # s0
      BY <2>6, <3>1, <1>5 DEF ConnectionsConsistent
    <3>2. CASE s = s0
      BY <2>5, <2>6, <3>2, <1>4, <1>5
    <3>3. CASE t = s0
      BY <2>5, <2>6, <3>3, <1>4, <1>5
    <3> QED BY <3>1, <3>2, <3>3
  <2>7. ASSUME NEW p \in subs'
        PROVE  \E s \in Slots : clients'[s].used /\ clients'[s].id = p[2]
    <3>1. PICK s \in Slots : clients[s].used /\ clients[s].id = p[2]
      BY <2>7, <1>1 DEF ConnectionsConsistent
    <3> QED BY <3>1, <1>2, <1>5
  <2> QED BY <2>4, <2>6, <2>7 DEF ConnectionsConsistent
<1>12. Bits'
  <2>1. fd \notin rset \cup wset
    BY <1>1 DEF Bits
  <2>2. ReadyBitsAreOwn'
    BY <1>1, <1>4, <1>5, <2>1 DEF Bits, ReadyBitsAreOwn
  <2>3. OpenFds \subseteq OpenFds'
    BY <1>2, <1>5 DEF OpenFds, FreeSlots
  <2> QED BY <1>1, <2>2, <2>3 DEF Bits
<1> QED BY <1>6, <1>7, <1>8, <1>9, <1>10, <1>11, <1>12

\* Only an id is spent.
LEMMA AcceptNoMemoryInv ==
  ASSUME Inv, NEW fd, AcceptNoMemory(fd)
  PROVE  Inv'
<1> USE DEF Inv
<1>1. /\ pc = "accept" /\ nextId <= MaxConnections /\ nextId' = nextId + 1
      /\ UNCHANGED <<clients, peer, connected, subs, stop, pc, cur, why, backoff, rset, wset,
                     mark>>
  BY DEF AcceptNoMemory, AcceptTurn, InAccept
<1>2. Typed'
  BY <1>1, SizeAssumption DEF Typed
<1>3. Placed'
  <2>1. nextId \in Nat
    BY SizeAssumption DEF Typed
  <2> QED BY <1>1, <2>1 DEF Placed
<1>4. Visited' /\ AllSettled' /\ Accounted' /\ ConnectionsConsistent'
  BY <1>1 DEF Visited, me, AllSettled, MayBeUnsettled, Accounted, ConnectionsConsistent
<1>5. Bits'
  BY <1>1 DEF Bits, OpenFds, FreeSlots, ReadyBitsAreOwn
<1> QED BY <1>2, <1>3, <1>4, <1>5

\* disconnect_client: the slot is empty again and the client subscribes to nothing.
LEMMA VisitClosesInv ==
  ASSUME Inv, VisitCloses
  PROVE  Inv'
<1> USE DEF Inv
<1>1. /\ pc = "check" /\ pc' = "visit" /\ cur' = cur + 1 /\ why' = "no"
      /\ connected' = (IF connected > 0 THEN connected - 1 ELSE 0)
      /\ subs' = {p \in subs : p[2] # me.id}
      /\ clients' = [clients EXCEPT ![cur] = NoClient]
      /\ peer' = [peer EXCEPT ![cur] = NewPeer]
      /\ UNCHANGED <<nextId, stop, backoff, rset, wset, mark>>
  BY DEF VisitCloses, SubsWithout, turn
<1>2. cur \in Slots /\ me.used /\ clients[cur] = me
  BY <1>1 DEF Visited, InVisit, me
<1>3. /\ clients \in [Slots -> ClientSet] /\ peer \in [Slots -> PeerSet]
      /\ clients'[cur] = NoClient /\ peer'[cur] = NewPeer
      /\ \A s \in Slots : s # cur => clients'[s] = clients[s] /\ peer'[s] = peer[s]
      /\ ~NoClient.used
  BY <1>1, <1>2 DEF Typed, NoClient
<1>4. Typed'
  <2>1. clients' \in [Slots -> ClientSet] /\ peer' \in [Slots -> PeerSet]
    BY <1>1, <1>2, <1>3, EmptyClient
  <2>2. cur' \in 0 .. MaxClients
    BY <1>1, <1>2, SizeAssumption DEF Slots
  <2> QED BY <1>1, <2>1, <2>2 DEF Typed, Reasons
<1>5. Visited'
  BY <1>1 DEF Visited, InVisit
<1>6. Placed'
  BY <1>1, <1>3, EmptyClient DEF Placed
<1>7. AllSettled'
  BY <1>3, EmptyClient DEF AllSettled
<1>8. Accounted'
  BY <1>1, <1>3 DEF Accounted
<1>9. ConnectionsConsistent'
  <2> DEFINE used == {s \in Slots : clients[s].used}
  <2>1. {s \in Slots : clients'[s].used} = used \ {cur}
    BY <1>2, <1>3
  <2>2. cur \in used /\ IsFiniteSet(used) /\ connected = Cardinality(used) /\ connected \in Nat
    BY <1>1, <1>2, UsedSlots DEF ConnectionsConsistent
  <2>3. Cardinality(used \ {cur}) = Cardinality(used) - 1
    BY <2>2, FS_RemoveElement
  <2>4. Cardinality(used \ {cur}) \in Nat
    <3>1. IsFiniteSet(used \ {cur})
      BY <2>2, FS_RemoveElement
    <3> QED BY <3>1, FS_CardinalityType
  <2>5. connected' = Cardinality({s \in Slots : clients'[s].used})
    <3>1. connected' = Cardinality(used \ {cur})
      <4> DEFINE n == Cardinality(used \ {cur})
      <4>1. connected = n + 1 /\ n \in Nat
        BY <2>2, <2>3, <2>4
      <4>2. connected' = IF connected > 0 THEN connected - 1 ELSE 0
        BY <1>1
      <4> HIDE DEF n
      <4>3. connected' = n
        BY <4>1, <4>2
      <4> QED BY <4>3 DEF n
    <3> QED BY <2>1, <3>1
  <2>6. ASSUME NEW s \in Slots, NEW t \in Slots, clients'[s].used, clients'[t].used, s # t
        PROVE  clients'[s].fd # clients'[t].fd /\ clients'[s].id # clients'[t].id
    BY <2>6, <1>3 DEF ConnectionsConsistent
  <2>7. ASSUME NEW p \in subs'
        PROVE  \E s \in Slots : clients'[s].used /\ clients'[s].id = p[2]
    <3>1. p \in subs /\ p[2] # me.id
      BY <1>1, <2>7
    <3>2. PICK s \in Slots : clients[s].used /\ clients[s].id = p[2]
      BY <3>1 DEF ConnectionsConsistent
    <3> QED BY <3>1, <3>2, <1>2, <1>3
  <2> QED BY <2>5, <2>6, <2>7 DEF ConnectionsConsistent
<1>10. Bits'
  BY <1>1, <1>3 DEF Bits, ReadyBitsAreOwn
<1> QED BY <1>4, <1>5, <1>6, <1>7, <1>8, <1>9, <1>10

\* ks_server_run closes all clients when its loop has ended.
LEMMA ShutdownInv ==
  ASSUME Inv, Shutdown
  PROVE  Inv'
<1> USE DEF Inv
<1>1. /\ pc = "shutdown" /\ pc' = "stopped"
      /\ subs' = {p \in subs : \A s \in Slots : clients[s].used => p[2] # clients[s].id}
      /\ clients' = [s \in Slots |-> NoClient]
      /\ UNCHANGED <<nextId, connected, peer, backoff, cur, why>>
  BY DEF Shutdown, turn
<1>2. why = "no"
  BY <1>1 DEF Visited, InVisit
<1>3. \A s \in Slots : clients'[s] = NoClient /\ ~NoClient.used
  BY <1>1 DEF NoClient
<1>4. Typed'
  BY <1>1, EmptyClient DEF Typed
<1>5. Visited' /\ AllSettled' /\ Accounted'
  BY <1>1, <1>2, <1>3, EmptyClient DEF Visited, InVisit, AllSettled, Accounted
<1>6. Placed'
  BY <1>1, <1>3, EmptyClient DEF Placed, Typed
<1>7. ConnectionsConsistent'
  BY <1>1, <1>3 DEF ConnectionsConsistent
<1>8. Bits'
  BY <1>1 DEF Bits, ReadyBitsAreOwn
<1> QED BY <1>4, <1>5, <1>6, <1>7, <1>8

-----------------------------------------------------------------------------
(* The theorems.                                                           *)

\* The server starts in order.
LEMMA InitInv == Init => Inv
<1> SUFFICES ASSUME Init PROVE Inv
  OBVIOUS
<1> USE DEF Init
<1>1. \A s \in Slots : clients[s] = NoClient /\ peer[s] = NewPeer /\ ~NoClient.used
  BY DEF NoClient
<1>2. Typed
  BY EmptyClient, SizeAssumption DEF Typed, Reasons
<1>3. Visited /\ AllSettled /\ Accounted
  BY <1>1, EmptyClient DEF Visited, InVisit, AllSettled, Accounted
<1>4. Placed
  BY <1>1, EmptyClient DEF Placed
<1>5. ConnectionsConsistent
  <2>1. {s \in Slots : clients[s].used} = {}
    BY <1>1
  <2> QED BY <1>1, <2>1, FS_EmptySet DEF ConnectionsConsistent
<1>6. Bits
  BY DEF Bits, ReadyBitsAreOwn
<1> QED BY <1>2, <1>3, <1>4, <1>5, <1>6 DEF Inv

\* Every step of the server keeps the invariant.
LEMMA NextInv == Inv /\ [Next]_vars => Inv'
<1> SUFFICES ASSUME Inv, [Next]_vars PROVE Inv'
  OBVIOUS
<1>1. CASE \/ StopSignal \/ Poll \/ SelectReturns \/ SelectInterrupted \/ SelectFails
           \/ AcceptEnds \/ AcceptError \/ \E fd \in Fds \ OpenFds : AcceptRejects(fd)
           \/ VisitEnds \/ VisitUnused \/ VisitClient \/ VisitKeeps \/ LoopEnds
  BY <1>1, TurnInv
<1>2. CASE \E fd \in Fds \ OpenFds : AcceptClient(fd) \/ AcceptNoMemory(fd)
  BY <1>2, AcceptClientInv, AcceptNoMemoryInv
<1>3. CASE \/ ReadPauses \/ ReadWouldBlock \/ ReadError \/ ProcessEnds
           \/ WriteSkipped \/ ProcessAgain
  BY <1>3, DecidesInv
<1>4. CASE ReadTooLarge \/ ReadClosed \/ ProcessTooLarge
  BY <1>4, ErrorInv
<1>5. CASE \E chunk \in Chunks : ReadBytes(chunk)
  BY <1>5, ReadBytesInv
<1>6. CASE \/ Command
           \/ \E ch \in Channels : \/ CommandSubscribe(ch) \/ CommandUnsubscribe(ch)
                                   \/ \E m \in MsgLens : CommandPublish(ch, m)
  BY <1>6, CommandInv
<1>7. CASE WriteAll \/ \E n \in 0 .. OutputCap : WriteSome(n) \/ WriteError(n)
  <2>1. Pending(me) \in Nat
    <3>1. pc \in InVisit
      BY <1>7 DEF WriteAll, WriteSome, WriteError, InWrite, InVisit
    <3> QED BY <3>1, InsideVisit DEF Pending
  <2>2. CASE WriteAll
    <3>1. Pending(me) \in 0 .. Pending(me)
      BY <2>1
    <3>2. CASE me.closing
      BY <2>2, <3>1, <3>2, WriteInv DEF WriteAll
    <3>3. CASE ~me.closing
      BY <2>2, <3>1, <3>3, WriteInv DEF WriteAll
    <3> QED BY <3>2, <3>3
  <2>3. ASSUME NEW n \in 0 .. OutputCap, WriteSome(n) \/ WriteError(n)
        PROVE  Inv'
    <3>1. n \in 0 .. Pending(me)
      BY <2>1, <2>3, Sizes DEF WriteSome, WriteError
    <3> QED BY <2>3, <3>1, WriteInv DEF WriteSome, WriteError
  <2> QED BY <1>7, <2>2, <2>3
<1>8. CASE VisitCloses
  BY <1>8, VisitClosesInv
<1>9. CASE Shutdown
  BY <1>9, ShutdownInv
<1>10. CASE UNCHANGED vars
  <2>1. UNCHANGED <<clients, subs, nextId, connected, peer, backoff, rset, wset, mark, pc,
                    cur, why>>
    BY <1>10 DEF vars, registry, turn
  <2>2. Typed' /\ Visited' /\ Placed'
    BY <2>1 DEF Inv, Typed, Visited, Placed, me
  <2>3. AllSettled' /\ Accounted'
    BY <2>1 DEF Inv, AllSettled, MayBeUnsettled, Accounted, me
  <2>4. ConnectionsConsistent' /\ Bits'
    BY <2>1 DEF Inv, ConnectionsConsistent, Bits, ReadyBitsAreOwn, OpenFds, FreeSlots
  <2> QED BY <2>2, <2>3, <2>4 DEF Inv
<1> QED
  BY <1>1, <1>2, <1>3, <1>4, <1>5, <1>6, <1>7, <1>8, <1>9, <1>10
  DEF Next, Server, Accepting, Reading, Processing, Writing

\* Inv holds in every state the event loop can be in.
THEOREM Invariance == Spec => []Inv
BY InitInv, NextInv, PTL DEF Spec

\* No buffer is ever written past its end and no descriptor beyond FD_SETSIZE is
\* taken, whatever arrives in whatever pieces.
THEOREM TypeCorrect == Spec => []TypeOK
<1>1. Inv => TypeOK
  <2> SUFFICES ASSUME Inv PROVE TypeOK
    OBVIOUS
  <2>1. ASSUME NEW s \in Slots
        PROVE  LET c == clients[s]
               IN  /\ c.used \in BOOLEAN /\ c.closing \in BOOLEAN /\ c.drop \in BOOLEAN
                   /\ c.used => c.fd \in Fds /\ c.fd < FdSetSize /\ c.id \in 1 .. nextId - 1
                   /\ c.input \in Seq(Bytes) /\ Len(c.input) <= InputCap
                   /\ c.offset \in Nat /\ c.offset + Pending(c) <= OutputCap
                   /\ ~c.used => c = NoClient
    <3>1. clients[s] \in ClientSet /\ Good(clients[s], peer[s])
      BY DEF Inv, Typed, Placed
    <3> QED BY <3>1 DEF Inv, Placed, ClientSet, Good, Pending
  <2> QED BY <2>1 DEF Inv, Typed, Visited, InVisit, TypeOK
<1> QED BY <1>1, Invariance, PTL

\* When the loop goes back to select, a client with a complete line left in its
\* buffer is above the high-water mark, so that a write will bring it back to
\* process_requests: none is forgotten.
THEOREM NoneStranded == Spec => []NoStrandedRequest
<1>1. Inv => NoStrandedRequest
  BY DEF Inv, AllSettled, MayBeUnsettled, Settled, NoStrandedRequest
<1> QED BY <1>1, Invariance, PTL

\* read_client throws its buffer away only when no complete line is in it.
THEOREM NoLineThrownAway == Spec => []ReadSeesNoLine
<1>1. Inv => ReadSeesNoLine
  <2> SUFFICES ASSUME Inv, ReadFull \/ Recv PROVE ~HasLine(me)
    BY DEF ReadSeesNoLine
  <2>1. pc = "read" /\ Pending(me) < HighWater /\ pc \in InVisit
    BY DEF ReadFull, Recv, InVisit
  <2>2. Settled(me) /\ Pending(me) \in Nat
    BY <2>1, InsideVisit DEF MayBeUnsettled, Pending
  <2> QED BY <2>1, <2>2, Sizes DEF Settled
<1> QED BY <1>1, Invariance, PTL

\* What a peer is owed is in its buffers, and the queue is large enough for
\* every reply: only a client that subscribes can be dropped for a full one.
THEOREM RequestsAnswered == Spec => []EveryRequestAnswered
<1>1. Inv => EveryRequestAnswered
  <2> SUFFICES ASSUME Inv PROVE EveryRequestAnswered
    OBVIOUS
  <2>1. ASSUME NEW s \in Slots
        PROVE  RepliesEnded(clients[s].output, Pending(clients[s])) = Answers(clients[s].output)
    <3>1. clients[s].output \in Seq(OutBytes)
      BY DEF Inv, Typed, ClientSet
    <3> QED BY <3>1, RepliesEndedAll DEF Pending
  <2> QED BY <2>1 DEF Inv, Accounted, Owes, EveryRequestAnswered
<1> QED BY <1>1, Invariance, PTL

\* Every peer sees whole replies and messages, one behind the other.
THEOREM StreamsWhole == Spec => []StreamWellFormed
<1>1. Inv => StreamWellFormed
  BY DEF Inv, Placed, Good, Stream, StreamWellFormed
<1> QED BY <1>1, Invariance, PTL

\* connected_clients counts the used slots, connections share neither a
\* descriptor nor an id, and nobody else is in the Pub/Sub registry.
THEOREM ConnectionsStayConsistent == Spec => []ConnectionsConsistent
<1>1. Inv => ConnectionsConsistent
  BY DEF Inv
<1> QED BY <1>1, Invariance, PTL

\* A ready bit is only used for the connection that was polled.
THEOREM ReadyBitsStayOwn == Spec => []ReadyBitsAreOwn
<1>1. Inv => ReadyBitsAreOwn
  BY DEF Inv, Bits
<1> QED BY <1>1, Invariance, PTL

=============================================================================
