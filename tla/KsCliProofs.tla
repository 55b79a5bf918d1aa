---------------------------- MODULE KsCliProofs ----------------------------
(***************************************************************************)
(* The safety of the CLI for every number of commands, messages, addresses *)
(* and pieces of a response: what it shows as a reply is the reply to its  *)
(* own request, whenever Ctrl+C, the deadline, the data and the end of the *)
(* stream come, and it closes the sockets it has opened.                   *)
(***************************************************************************)
EXTENDS KsCli, TLAPS, SequenceTheorems, WellFoundedInduction

-----------------------------------------------------------------------------
(* The inductive invariant.                                                *)

Whats   == {"plain", "sub", "badsub", "longsub", "crsub", "quoted"}
Callers == {"main", "loop", "leave"}

\* Inside fill_reader; inside render_response; between a line and its end.
Filling == {"pending", "deadline", "poll", "recv"}
Reading == {"render"} \cup Filling
Turn    == {"send", "returned", "loop", "leave", "after"} \cup Reading
Before  == {"resolve", "socket", "connect", "input", "prompt"}
Places  == Before \cup Turn \cup {"exit", "killed"}

Piece   == [kind : {"simple", "integer", "bulk", "error", "array"},
            to : Nat \X {"cmd", "un", "message"}, first : BOOLEAN, last : BOOLEAN]
Request == [no : Nat, what : Whats, un : BOOLEAN]

Typed ==
  /\ pc \in Places /\ caller \in Callers
  /\ cmd \in [no : Nat, what : Whats, stray : BOOLEAN]
  /\ cmd.what = "quoted" => cmd.stray
  /\ buf \in Seq(Piece) /\ replies \in Seq(Piece) /\ requests \in Seq(Request)
  /\ messages \in Nat /\ closed \in BOOLEAN /\ inside \in BOOLEAN
  /\ subscribed \in SUBSET Whats /\ closing \in BOOLEAN
  /\ interrupted \in BOOLEAN /\ active \in BOOLEAN /\ sent \in BOOLEAN /\ late \in BOOLEAN

\* The one socket.
Socketed ==
  /\ pc \in {"resolve", "socket"} => fd = 0
  /\ pc \in {"resolve", "socket", "exit"} => open = {}
  /\ pc \notin {"resolve", "socket", "exit", "killed"} => open = {fd}

\* The flags that the signal's handler shares.
Flagged ==
  /\ pc \in Before => ~sent
  /\ pc \in Turn => active = Recognised(cmd.what)
  /\ pc = "send" => ~sent
  /\ pc \in Turn /\ sent => active /\ interrupted
  /\ pc \in {"pending", "deadline", "poll", "loop", "leave"} => active
  /\ pc \in Reading \cup {"returned"} /\ caller # "main" => active
  /\ pc \in Filling => buf = <<>>

\* What is on its way to the CLI.
Incoming == buf \o replies

\* Whole responses follow each other, behind the rest of the one being read; only
\* a server that is gone may have left one unfinished.
WholeStream(s, begun, ended) ==
  /\ s # <<>> => (s[1].first <=> ~begun)
  /\ \A i \in 1 .. Len(s) - 1 : s[i + 1].first <=> s[i].last
  /\ s # <<>> /\ ~ended => s[Len(s)].last
  /\ s = <<>> /\ ~ended => ~begun

Whole == WholeStream(Incoming, inside, closed)

\* The reader was cut short by the deadline and will not read again.
Cut == active /\ sent /\ late /\ buf = <<>>

Own     == <<cmd.no, "cmd">>
UnOwn   == <<cmd.no, "un">>
CmdReq  == [no |-> cmd.no, what |-> cmd.what, un |-> FALSE]
UnReq   == [no |-> cmd.no, what |-> cmd.what, un |-> TRUE]

\* Nothing is on its way.
Quiet == Incoming = <<>> /\ requests = <<>> /\ subscribed = {}

\* The command is not answered yet.
Unanswered == /\ Incoming = <<>> /\ subscribed = {}
              /\ requests = IF sent THEN <<CmdReq, UnReq>> ELSE <<CmdReq>>

\* The UNSUBSCRIBE is answered last.  There are no messages after that, unless the
\* subscription remains.
UnLast ==
  /\ requests = <<>> \/ (requests = <<UnReq>> /\ sent)
  /\ subscribed \subseteq {cmd.what} \ {"plain", "badsub"}
  /\ \A j \in 1 .. Len(Incoming) :
       Incoming[j].to = UnOwn => /\ sent /\ requests = <<>>
                                 /\ Incoming[j].kind \in {"integer", "error"}
                                 /\ ~Remains(cmd.what) =>
                                      subscribed = {} /\ (Incoming[j].last => j = Len(Incoming))

IsMessage(p) == p.kind = "array" /\ p.to[2] = "message"

\* The command is answered and the reply, or the rest of it, comes first; a reply
\* that does not confirm a subscription is followed by no message.
Answered ==
  /\ UnLast
  /\ Incoming = <<>> => closed
  /\ \A j \in 1 .. Len(Incoming) :
       /\ Incoming[j].to = Own <=> \A i \in 1 .. j - 1 : ~Incoming[i].last
       /\ Incoming[j].to \notin {Own, UnOwn} => IsMessage(Incoming[j])
       /\ Incoming[j].to = Own /\ ~(Incoming[j].kind = "simple" /\ Recognised(cmd.what)) =>
            subscribed = {} /\ \A i \in 1 .. Len(Incoming) : Incoming[i].to \in {Own, UnOwn}

\* The reply to the command has been read.
Listening ==
  /\ UnLast
  /\ \A j \in 1 .. Len(Incoming) : Incoming[j].to = UnOwn \/ IsMessage(Incoming[j])

\* The turn leaves nothing, or a subscription that the server has not taken back.
Over == Quiet \/ (sent /\ Remains(cmd.what))

\* Where the turn is, by what is on its way.
Flow ==
  /\ pc \in Before \cup {"send"} => Quiet
  /\ pc \in Reading /\ caller = "main" => Unanswered \/ Answered
  /\ pc \in Reading /\ caller # "main" => Listening
  /\ pc = "returned" /\ status = "OK" =>
       /\ Listening
       /\ caller = "main" => /\ got.to = Own
                             /\ ~(got.kind = "simple" /\ Recognised(cmd.what)) /\ ~sent => Quiet
       /\ caller = "leave" /\ IsUnsubscribeReply(got.kind) => got.to = UnOwn /\ Over
  /\ pc \in {"loop", "leave"} => Listening
  /\ pc = "after" /\ status = "OK" => Over

Kept == Whole /\ (InStep => Flow)

\* A response that was given up is not read on.
Followed ==
  /\ pc \in Before \cup {"send", "poll", "recv"} => Kept
  /\ pc \in {"render", "pending", "deadline", "loop", "leave"} => Kept \/ Cut
  /\ pc \in {"returned", "after"} /\ status = "OK" => Kept
  /\ pc = "returned" /\ status = "INTERRUPTED" => Cut

Inv == Typed /\ Socketed /\ Flagged /\ Followed

-----------------------------------------------------------------------------
(* Streams.                                                                *)

\* t is s without its first n elements; the first n of s; s with r behind it.
Drops(t, s, n) == /\ t \in Seq(Piece) /\ Len(t) = Len(s) - n
                  /\ \A j \in 1 .. Len(t) : t[j] = s[n + j]
Begins(t, s, n) == /\ t \in Seq(Piece) /\ Len(t) = n
                   /\ \A j \in 1 .. n : t[j] = s[j]
Extends(t, s, r) == /\ t \in Seq(Piece) /\ Len(t) = Len(s) + Len(r)
                    /\ \A j \in 1 .. Len(s) : t[j] = s[j]
                    /\ \A j \in 1 .. Len(r) : t[Len(s) + j] = r[j]

\* r is a response.
IsResponse(r, kind, to) ==
  /\ r \in Seq(Piece) /\ Len(r) = Pieces
  /\ \A j \in 1 .. Len(r) : /\ r[j].kind = kind /\ r[j].to = to
                            /\ (r[j].first <=> j = 1) /\ (r[j].last <=> j = Pieces)

LEMMA MinIsLeast ==
  ASSUME NEW S \in SUBSET Nat, S # {}
  PROVE  Min(S) \in S /\ \A y \in S : Min(S) <= y
<1> DEFINE R == OpToRel(<, Nat)
<1>1. \A x, y \in Nat : y < x => <<y, x>> \in R
  BY DEF OpToRel
<1>2. IsWellFoundedOn(R, Nat)
  BY NatLessThanWellFounded
<1> HIDE DEF R
<1>3. PICK x \in S : \A y \in S : ~(<<y, x>> \in R)
  BY <1>2, WFMin
<1>4. ASSUME NEW y \in S
      PROVE  x <= y
  <2>1. ~(<<y, x>> \in R)
    BY <1>3
  <2>2. ~(y < x)
    BY <1>1, <2>1
  <2> QED BY <2>2
<1> QED BY <1>4 DEF Min

LEMMA EmptyLen ==
  ASSUME NEW T, NEW s \in Seq(T)
  PROVE  Len(s) \in Nat /\ (s = <<>> <=> Len(s) = 0)
BY EmptySeq, LenProperties

LEMMA Suffix ==
  ASSUME NEW s \in Seq(Piece), NEW n \in 0 .. Len(s)
  PROVE  Drops(SubSeq(s, n + 1, Len(s)), s, n)
<1>1. \A k \in n + 1 .. Len(s) : s[k] \in Piece
  BY ElementOfSeq
<1> QED BY <1>1, SubSeqProperties DEF Drops

LEMMA Prefix ==
  ASSUME NEW s \in Seq(Piece), NEW n \in 0 .. Len(s)
  PROVE  Begins(SubSeq(s, 1, n), s, n)
<1>1. \A k \in 1 .. n : s[k] \in Piece
  BY ElementOfSeq
<1> QED BY <1>1, SubSeqProperties DEF Begins

LEMMA Concat ==
  ASSUME NEW s \in Seq(Piece), NEW r \in Seq(Piece)
  PROVE  Extends(s \o r, s, r)
BY ConcatProperties DEF Extends

LEMMA Responses ==
  ASSUME NEW kind \in {"simple", "integer", "bulk", "error", "array"},
         NEW to \in Nat \X {"cmd", "un", "message"}
  PROVE  IsResponse(Response(kind, to), kind, to)
<1> DEFINE r == Response(kind, to)
           P(j) == [kind |-> kind, to |-> to, first |-> j = 1, last |-> j = Pieces]
<1>1. Pieces \in Nat
  BY BoundAssumption
<1>2. ASSUME NEW j \in 1 .. Pieces
      PROVE  P(j) \in Piece
  BY Zenon DEF Piece
<1>3. ASSUME NEW j \in 1 .. Pieces
      PROVE  /\ P(j).kind = kind /\ P(j).to = to
             /\ (P(j).first <=> j = 1) /\ (P(j).last <=> j = Pieces)
  BY Zenon
<1>4. r = [j \in 1 .. Pieces |-> P(j)]
  BY Zenon DEF Response
<1> HIDE DEF P, r
<1>5. r \in Seq(Piece) /\ Len(r) = Pieces
  BY <1>1, <1>2, <1>4
<1>6. IsResponse(r, kind, to)
  BY <1>1, <1>3, <1>4, <1>5 DEF IsResponse
<1> QED BY <1>6 DEF r

\* A part of the response being read is taken off: there is more of it.
LEMMA WholeRest ==
  ASSUME NEW s \in Seq(Piece), NEW begun, NEW ended, WholeStream(s, begun, ended), ~ended,
         NEW n \in 1 .. Len(s), \A i \in 1 .. n : ~s[i].last, NEW t, Drops(t, s, n)
  PROVE  t # <<>>
<1>1. /\ t \in Seq(Piece) /\ Len(t) = Len(s) - n
  BY DEF Drops
<1>2. /\ Len(s) \in Nat /\ (s = <<>> <=> Len(s) = 0)
      /\ Len(t) \in Nat /\ (t = <<>> <=> Len(t) = 0)
  BY <1>1, EmptyLen
<1>3. SUFFICES ASSUME t = <<>> PROVE FALSE
  OBVIOUS
<1>4. n = Len(s) /\ s # <<>> /\ ~s[Len(s)].last
  BY <1>1, <1>2, <1>3
<1> QED BY <1>4 DEF WholeStream

LEMMA WholeSkip ==
  ASSUME NEW s \in Seq(Piece), NEW begun, NEW ended, WholeStream(s, begun, ended),
         NEW n \in 1 .. Len(s), \A i \in 1 .. n : ~s[i].last, NEW t, Drops(t, s, n)
  PROVE  WholeStream(t, TRUE, ended)
<1>1. /\ t \in Seq(Piece) /\ Len(t) = Len(s) - n
      /\ \A j \in 1 .. Len(t) : t[j] = s[n + j]
  BY DEF Drops
<1>2. /\ Len(s) \in Nat /\ (s = <<>> <=> Len(s) = 0)
      /\ Len(t) \in Nat /\ (t = <<>> <=> Len(t) = 0)
  BY <1>1, EmptyLen
<1>3. t # <<>> => ~t[1].first
  BY <1>1, <1>2, SMTT(40) DEF WholeStream
<1>4. t = <<>> => ended
  BY WholeRest
<1>5. \A i \in 1 .. Len(t) - 1 : t[i + 1].first <=> t[i].last
  BY <1>1, <1>2 DEF WholeStream
<1>6. t # <<>> /\ ~ended => t[Len(t)].last
  <2>1. SUFFICES ASSUME t # <<>>, ~ended PROVE t[Len(t)].last
    OBVIOUS
  <2>2. t[Len(t)] = s[Len(s)] /\ s # <<>>
    BY <1>1, <1>2, <2>1
  <2> QED BY <2>1, <2>2 DEF WholeStream
<1> QED BY <1>3, <1>4, <1>5, <1>6 DEF WholeStream

\* The response being read is taken off.
LEMMA WholeNext ==
  ASSUME NEW s \in Seq(Piece), NEW begun, NEW ended, WholeStream(s, begun, ended),
         NEW n \in 1 .. Len(s), s[n].last, NEW t, Drops(t, s, n)
  PROVE  WholeStream(t, FALSE, ended)
<1>1. /\ t \in Seq(Piece) /\ Len(t) = Len(s) - n
      /\ \A j \in 1 .. Len(t) : t[j] = s[n + j]
  BY DEF Drops
<1>2. /\ Len(s) \in Nat
      /\ Len(t) \in Nat /\ (t = <<>> <=> Len(t) = 0)
  BY <1>1, EmptyLen
<1>3. t # <<>> => t[1].first
  BY <1>1, <1>2 DEF WholeStream
<1>4. ASSUME NEW i \in 1 .. Len(t) - 1
      PROVE  t[i + 1].first <=> t[i].last
  <2>1. n + i \in 1 .. Len(s) - 1 /\ i \in 1 .. Len(t) /\ i + 1 \in 1 .. Len(t)
    BY <1>1, <1>2
  <2>2. t[i] = s[n + i] /\ t[i + 1] = s[n + i + 1]
    BY <1>1, <2>1, SMTT(40)
  <2> QED BY <2>1, <2>2 DEF WholeStream
<1>5. t # <<>> /\ ~ended => t[Len(t)].last
  <2>1. SUFFICES ASSUME t # <<>>, ~ended PROVE t[Len(t)].last
    OBVIOUS
  <2>2. t[Len(t)] = s[Len(s)] /\ Len(s) # 0
    BY <1>1, <1>2, <2>1
  <2> QED BY <2>1, <2>2, EmptyLen DEF WholeStream
<1> QED BY <1>3, <1>4, <1>5 DEF WholeStream

\* The server sends another response.
LEMMA WholeMore ==
  ASSUME NEW s \in Seq(Piece), NEW begun, NEW was, ~was, WholeStream(s, begun, was),
         NEW ended, NEW kind, NEW to, NEW r, IsResponse(r, kind, to), NEW t, Extends(t, s, r)
  PROVE  WholeStream(t, begun, ended)
<1>1. /\ r \in Seq(Piece) /\ Len(r) = Pieces
      /\ \A j \in 1 .. Len(r) : (r[j].first <=> j = 1) /\ (r[j].last <=> j = Pieces)
  BY DEF IsResponse
<1>2. Pieces \in Nat \ {0}
  BY BoundAssumption
<1>3. /\ t \in Seq(Piece) /\ Len(t) = Len(s) + Pieces
      /\ \A j \in 1 .. Len(s) : t[j] = s[j]
      /\ \A j \in 1 .. Pieces : t[Len(s) + j] = r[j]
  BY <1>1 DEF Extends
<1>4. (s = <<>> <=> Len(s) = 0) /\ Len(s) \in Nat
  BY EmptyLen
<1>5. t # <<>>
  BY <1>2, <1>3, <1>4, EmptyLen
<1>6. t[1].first <=> ~begun
  <2>1. CASE Len(s) = 0
    <3>1. t[1] = r[1] /\ r[1].first
      BY <1>1, <1>2, <1>3, <2>1
    <3> QED BY <1>4, <2>1, <3>1 DEF WholeStream
  <2>2. CASE Len(s) # 0
    <3>1. t[1] = s[1]
      BY <1>3, <1>4, <2>2
    <3> QED BY <1>4, <2>2, <3>1 DEF WholeStream
  <2> QED BY <2>1, <2>2
<1>7. ASSUME NEW i \in 1 .. Len(t) - 1
      PROVE  t[i + 1].first <=> t[i].last
  <2>1. CASE i < Len(s)
    <3>1. i \in 1 .. Len(s) - 1 /\ i + 1 \in 1 .. Len(s) /\ i \in 1 .. Len(s)
      BY <1>4, <2>1
    <3>2. t[i] = s[i] /\ t[i + 1] = s[i + 1]
      BY <1>3, <3>1
    <3> QED BY <3>1, <3>2 DEF WholeStream
  <2>2. CASE i = Len(s)
    <3>1. t[i + 1] = r[1] /\ t[i] = s[Len(s)]
      BY <1>2, <1>3, <1>4, <2>2
    <3>2. s[Len(s)].last
      BY <1>4, <2>2 DEF WholeStream
    <3>3. r[1].first
      BY <1>1, <1>2
    <3> QED BY <3>1, <3>2, <3>3
  <2>3. CASE i > Len(s)
    <3> DEFINE j == i - Len(s)
    <3>1. j \in 1 .. Pieces - 1 /\ i = Len(s) + j
      BY <1>2, <1>3, <1>4, <2>3
    <3> HIDE DEF j
    <3>2. t[i] = r[j] /\ t[i + 1] = r[j + 1]
      BY <1>2, <1>3, <1>4, <3>1
    <3>3. ~r[j].last /\ ~r[j + 1].first
      BY <1>1, <1>2, <3>1
    <3> QED BY <3>2, <3>3
  <2> QED BY <1>3, <1>4, <2>1, <2>2, <2>3
<1>8. t[Len(t)].last
  <2>1. t[Len(t)] = r[Pieces] /\ r[Pieces].last
    BY <1>1, <1>2, <1>3, <1>4
  <2> QED BY <2>1
<1> QED BY <1>5, <1>6, <1>7, <1>8 DEF WholeStream

\* The server goes away: any part of what was on its way remains.
LEMMA WholeLost ==
  ASSUME NEW s \in Seq(Piece), NEW begun, NEW was, WholeStream(s, begun, was),
         NEW ended, ended, NEW n \in 0 .. Len(s), NEW t, Begins(t, s, n)
  PROVE  WholeStream(t, begun, ended)
<1>1. /\ t \in Seq(Piece) /\ Len(t) = n
      /\ \A j \in 1 .. n : t[j] = s[j]
  BY DEF Begins
<1>2. (t = <<>> <=> n = 0) /\ (s = <<>> <=> Len(s) = 0) /\ Len(s) \in Nat
  BY <1>1, EmptyLen
<1>3. t # <<>> => t[1] = s[1] /\ s # <<>>
  BY <1>1, <1>2
<1>4. \A i \in 1 .. Len(t) - 1 : t[i + 1].first <=> t[i].last
  BY <1>1, <1>2 DEF WholeStream
<1> QED BY <1>3, <1>4 DEF WholeStream

-----------------------------------------------------------------------------
(* How the steps change what is on its way.                                *)

LEMMA IncomingIs ==
  ASSUME NEW b \in Seq(Piece), NEW r \in Seq(Piece), NEW t, t = b \o r
  PROVE  /\ t \in Seq(Piece) /\ Len(t) = Len(b) + Len(r)
         /\ \A j \in 1 .. Len(b) : t[j] = b[j]
         /\ \A j \in Len(b) + 1 .. Len(t) : t[j] = r[j - Len(b)]
         /\ Len(b) \in Nat /\ Len(r) \in Nat /\ Len(t) \in Nat
         /\ (t = <<>> <=> Len(t) = 0)
<1>1. Extends(t, b, r)
  BY Concat
<1>2. Len(b) \in Nat /\ Len(r) \in Nat
  BY EmptyLen
<1>3. t \in Seq(Piece) /\ Len(t) = Len(b) + Len(r)
  BY <1>1 DEF Extends
<1>4. Len(t) \in Nat /\ (t = <<>> <=> Len(t) = 0)
  BY <1>3, EmptyLen
<1>5. ASSUME NEW j \in Len(b) + 1 .. Len(t)
      PROVE  t[j] = r[j - Len(b)]
  <2> DEFINE k == j - Len(b)
  <2>1. k \in 1 .. Len(r) /\ j = Len(b) + k
    BY <1>2, <1>3
  <2>2. t[Len(b) + k] = r[k]
    BY <1>1, <2>1 DEF Extends
  <2> QED BY <2>1, <2>2
<1>6. \A j \in 1 .. Len(b) : t[j] = b[j]
  BY <1>1 DEF Extends
<1> QED BY <1>2, <1>3, <1>4, <1>5, <1>6

\* render_response takes n pieces out of the buffer.
LEMMA ReadEffect ==
  ASSUME NEW b \in Seq(Piece), NEW r \in Seq(Piece), NEW n \in 0 .. Len(b),
         NEW c, Drops(c, b, n)
  PROVE  Drops(c \o r, b \o r, n)
<1> DEFINE s == b \o r  t == c \o r
<1>1. /\ c \in Seq(Piece) /\ Len(c) = Len(b) - n
      /\ \A j \in 1 .. Len(c) : c[j] = b[n + j]
  BY DEF Drops
<1>2. /\ s \in Seq(Piece) /\ Len(s) = Len(b) + Len(r)
      /\ \A j \in 1 .. Len(b) : s[j] = b[j]
      /\ \A j \in Len(b) + 1 .. Len(s) : s[j] = r[j - Len(b)]
      /\ Len(b) \in Nat /\ Len(r) \in Nat
  BY IncomingIs
<1>3. /\ t \in Seq(Piece) /\ Len(t) = Len(c) + Len(r)
      /\ \A j \in 1 .. Len(c) : t[j] = c[j]
      /\ \A j \in Len(c) + 1 .. Len(t) : t[j] = r[j - Len(c)]
  <2>1. c \in Seq(Piece)
    BY <1>1
  <2> QED BY <2>1, IncomingIs
<1> HIDE DEF s, t
<1>4. ASSUME NEW j \in 1 .. Len(t)
      PROVE  t[j] = s[n + j]
  <2>1. CASE j <= Len(c)
    <3>1. j \in 1 .. Len(c) /\ n + j \in 1 .. Len(b)
      BY <1>1, <1>2, <2>1
    <3> QED BY <1>1, <1>2, <1>3, <3>1
  <2>2. CASE j > Len(c)
    <3>1. /\ j \in Len(c) + 1 .. Len(t) /\ n + j \in Len(b) + 1 .. Len(s)
          /\ j - Len(c) = (n + j) - Len(b)
      BY <1>1, <1>2, <1>3, <2>2
    <3>2. t[j] = r[j - Len(c)] /\ s[n + j] = r[(n + j) - Len(b)]
      BY <1>2, <1>3, <3>1
    <3> QED BY <3>1, <3>2
  <2> QED BY <1>1, <1>2, <1>3, <2>1, <2>2
<1>5. Drops(t, s, n)
  BY <1>1, <1>2, <1>3, <1>4 DEF Drops
<1> QED BY <1>5 DEF s, t

\* recv fills the empty buffer.
LEMMA RecvEffect ==
  ASSUME NEW r \in Seq(Piece), NEW n \in 0 .. Len(r)
  PROVE  SubSeq(r, 1, n) \o SubSeq(r, n + 1, Len(r)) = <<>> \o r
<1> DEFINE b == SubSeq(r, 1, n)  c == SubSeq(r, n + 1, Len(r))  t == b \o c
<1>1. /\ b \in Seq(Piece) /\ Len(b) = n /\ \A j \in 1 .. n : b[j] = r[j]
      /\ c \in Seq(Piece) /\ Len(c) = Len(r) - n
      /\ \A j \in 1 .. Len(c) : c[j] = r[n + j]
  BY Prefix, Suffix DEF Begins, Drops
<1> HIDE DEF b, c
<1>2. /\ t \in Seq(Piece) /\ Len(t) = Len(b) + Len(c)
      /\ \A j \in 1 .. Len(b) : t[j] = b[j]
      /\ \A j \in Len(b) + 1 .. Len(t) : t[j] = c[j - Len(b)]
  BY <1>1, IncomingIs
<1>3. Len(r) \in Nat
  BY EmptyLen
<1> HIDE DEF t
<1>4. ASSUME NEW j \in 1 .. Len(t)
      PROVE  t[j] = r[j]
  <2>1. CASE j <= n
    BY <1>1, <1>2, <2>1
  <2>2. CASE j > n
    <3>1. j \in Len(b) + 1 .. Len(t) /\ j - Len(b) \in 1 .. Len(c) /\ n + (j - Len(b)) = j
      BY <1>1, <1>2, <1>3, <2>2
    <3> QED BY <1>1, <1>2, <3>1
  <2> QED BY <1>1, <1>2, <1>3, <2>1, <2>2
<1>5. t = r
  BY <1>1, <1>2, <1>3, <1>4, SeqEqual
<1>6. <<>> \o r = r
  BY ConcatEmptySeq
<1> QED BY <1>5, <1>6 DEF t, b, c

LEMMA SendEffect ==
  ASSUME NEW b \in Seq(Piece), NEW r \in Seq(Piece), NEW q \in Seq(Piece)
  PROVE  Extends(b \o (r \o q), b \o r, q)
<1>1. b \o (r \o q) = (b \o r) \o q
  BY ConcatAssociative, SMTT(40)
<1>2. b \o r \in Seq(Piece)
  BY IncomingIs
<1> QED BY <1>1, <1>2, Concat

LEMMA LostEffect ==
  ASSUME NEW b \in Seq(Piece), NEW r \in Seq(Piece), NEW n \in 0 .. Len(r)
  PROVE  /\ Len(b) + n \in 0 .. Len(b \o r)
         /\ Begins(b \o SubSeq(r, 1, n), b \o r, Len(b) + n)
<1> DEFINE c == SubSeq(r, 1, n)  s == b \o r  t == b \o c
<1>1. c \in Seq(Piece) /\ Len(c) = n /\ \A j \in 1 .. n : c[j] = r[j]
  BY Prefix DEF Begins
<1> HIDE DEF c
<1>2. /\ s \in Seq(Piece) /\ Len(s) = Len(b) + Len(r)
      /\ \A j \in 1 .. Len(b) : s[j] = b[j]
      /\ \A j \in Len(b) + 1 .. Len(s) : s[j] = r[j - Len(b)]
      /\ Len(b) \in Nat /\ Len(r) \in Nat
  BY IncomingIs
<1>3. /\ t \in Seq(Piece) /\ Len(t) = Len(b) + Len(c)
      /\ \A j \in 1 .. Len(b) : t[j] = b[j]
      /\ \A j \in Len(b) + 1 .. Len(t) : t[j] = c[j - Len(b)]
  <2>1. c \in Seq(Piece)
    BY <1>1
  <2> QED BY <2>1, IncomingIs
<1> HIDE DEF s, t
<1>4. ASSUME NEW j \in 1 .. Len(b) + n
      PROVE  t[j] = s[j]
  <2>1. CASE j <= Len(b)
    BY <1>2, <1>3, <2>1
  <2>2. CASE j > Len(b)
    <3>1. /\ j \in Len(b) + 1 .. Len(t) /\ j \in Len(b) + 1 .. Len(s)
          /\ j - Len(b) \in 1 .. n
      BY <1>1, <1>2, <1>3, <2>2
    <3> QED BY <1>1, <1>2, <1>3, <3>1
  <2> QED BY <1>2, <2>1, <2>2
<1>5. Begins(t, s, Len(b) + n) /\ Len(b) + n \in 0 .. Len(s)
  BY <1>1, <1>2, <1>3, <1>4 DEF Begins
<1> QED BY <1>5 DEF s, t, c

-----------------------------------------------------------------------------
(* How what is on its way belongs to the command of this turn.             *)

LEMMA IncomingSeq ==
  ASSUME Typed
  PROVE  /\ Incoming \in Seq(Piece) /\ Len(Incoming) \in Nat
         /\ (Incoming = <<>> <=> Len(Incoming) = 0)
         /\ \A j \in 1 .. Len(Incoming) : Incoming[j] \in Piece
<1>1. buf \in Seq(Piece) /\ replies \in Seq(Piece)
  BY DEF Typed
<1>2. Incoming \in Seq(Piece)
  BY <1>1, IncomingIs DEF Incoming
<1> QED BY <1>2, EmptyLen, ElementOfSeq

\* A step that moves nothing.
LEMMA Frame ==
  ASSUME Incoming' = Incoming, UNCHANGED <<inside, closed, requests, subscribed, sent, cmd>>
  PROVE  /\ Whole' <=> Whole
         /\ (Quiet' <=> Quiet) /\ (Over' <=> Over)
         /\ Unanswered' <=> Unanswered
         /\ Answered' <=> Answered
         /\ Listening' <=> Listening
         /\ Own' = Own /\ UnOwn' = UnOwn
<1>1. /\ Own' = Own /\ UnOwn' = UnOwn /\ CmdReq' = CmdReq /\ UnReq' = UnReq
  BY DEF Own, UnOwn, CmdReq, UnReq
<1>2. Whole' <=> Whole
  BY DEF Whole
<1>3. (Quiet' <=> Quiet) /\ (Over' <=> Over)
  BY DEF Quiet, Over
<1>4. Unanswered' <=> Unanswered
  BY <1>1 DEF Unanswered
<1>5. UnLast' <=> UnLast
  BY <1>1 DEF UnLast
<1>6. Answered' <=> Answered
  BY <1>1, <1>5 DEF Answered
<1>7. Listening' <=> Listening
  BY <1>1, <1>5 DEF Listening
<1> QED BY <1>1, <1>2, <1>3, <1>4, <1>6, <1>7

LEMMA FrameUnchanged ==
  ASSUME UNCHANGED <<reader, replies, closed, requests, subscribed, sent, cmd>>
  PROVE  Incoming' = Incoming /\ UNCHANGED <<inside, closed, requests, subscribed, sent, cmd>>
BY DEF Incoming, reader

\* The CLI reads a part of the reply to the command.
LEMMA AnsweredSkip ==
  ASSUME Typed, Answered, Whole,
         NEW n \in 1 .. Len(Incoming), \A i \in 1 .. n : ~Incoming[i].last,
         Drops(Incoming', Incoming, n), UNCHANGED <<closed, requests, subscribed, sent, cmd>>
  PROVE  Answered'
<1> DEFINE s == Incoming  t == Incoming'
<1>1. /\ Len(t) = Len(s) - n /\ t \in Seq(Piece)
      /\ \A j \in 1 .. Len(t) : t[j] = s[n + j]
      /\ Len(s) \in Nat /\ Len(t) \in Nat
  BY IncomingSeq, EmptyLen DEF Drops
<1>2. t = <<>> => closed
  <2>1. WholeStream(s, inside, closed) /\ s \in Seq(Piece)
    BY IncomingSeq DEF Whole
  <2>2. n \in 1 .. Len(s) /\ (\A i \in 1 .. n : ~s[i].last) /\ Drops(t, s, n)
    OBVIOUS
  <2> HIDE DEF s, t
  <2> QED BY <2>1, <2>2, WholeRest
<1>3. /\ Own' = Own /\ UnOwn' = UnOwn /\ UnReq' = UnReq
  BY DEF Own, UnOwn, UnReq
<1> HIDE DEF s, t
<1>4. ASSUME NEW j \in 1 .. Len(t)
      PROVE  n + j \in 1 .. Len(s) /\ t[j] = s[n + j] /\ (n + j = Len(s) <=> j = Len(t))
  BY <1>1
<1>5. UnLast'
  BY <1>3, <1>4 DEF Answered, UnLast, s, t
<1>6. ASSUME NEW j \in 1 .. Len(t)
      PROVE  t[j].to = Own <=> \A i \in 1 .. j - 1 : ~t[i].last
  <2>1. s[n + j].to = Own <=> \A i \in 1 .. n + j - 1 : ~s[i].last
    BY <1>4 DEF Answered, s
  <2>2. ASSUME NEW i \in 1 .. j - 1
        PROVE  t[i] = s[n + i] /\ n + i \in 1 .. n + j - 1
    <3>1. i \in 1 .. Len(t) /\ n + i \in 1 .. n + j - 1
      BY <1>1
    <3> QED BY <1>1, <3>1
  <2>3. ASSUME NEW i \in 1 .. n + j - 1
        PROVE  i \in 1 .. n \/ (i - n \in 1 .. j - 1 /\ t[i - n] = s[i])
    <3>1. CASE i <= n
      BY <1>1, <3>1
    <3>2. CASE i > n
      <4>1. i - n \in 1 .. j - 1 /\ n + (i - n) = i
        BY <1>1, <3>2
      <4> QED BY <2>2, <4>1
    <3> QED BY <1>1, <3>1, <3>2
  <2>4. \A i \in 1 .. n : ~s[i].last
    BY DEF s
  <2> QED BY <1>4, <2>1, <2>2, <2>3, <2>4
<1>7. ASSUME NEW j \in 1 .. Len(t)
      PROVE  t[j].to \notin {Own, UnOwn} => IsMessage(t[j])
  BY <1>4 DEF Answered, s
<1>8. ASSUME NEW j \in 1 .. Len(t), t[j].to = Own,
             ~(t[j].kind = "simple" /\ Recognised(cmd.what))
      PROVE  subscribed = {} /\ \A i \in 1 .. Len(t) : t[i].to \in {Own, UnOwn}
  BY <1>4, <1>8, ZenonT(40) DEF Answered, s
<1> QED BY <1>2, <1>3, <1>5, <1>6, <1>7, <1>8 DEF Answered, t

\* The CLI reads the reply to the command.
LEMMA AnsweredRead ==
  ASSUME Typed, Answered,
         NEW n \in 1 .. Len(Incoming), Incoming[n].last, \A i \in 1 .. n - 1 : ~Incoming[i].last,
         Drops(Incoming', Incoming, n), UNCHANGED <<closed, requests, subscribed, sent, cmd>>
  PROVE  /\ Incoming[n].to = Own
         /\ Listening'
         /\ ~(Incoming[n].kind = "simple" /\ Recognised(cmd.what)) /\ ~sent => Quiet'
<1> DEFINE s == Incoming  t == Incoming'
<1>1. /\ Len(t) = Len(s) - n /\ t \in Seq(Piece)
      /\ \A j \in 1 .. Len(t) : t[j] = s[n + j]
      /\ Len(s) \in Nat /\ Len(t) \in Nat /\ (t = <<>> <=> Len(t) = 0)
  BY IncomingSeq, EmptyLen DEF Drops
<1>2. /\ Own' = Own /\ UnOwn' = UnOwn /\ UnReq' = UnReq
  BY DEF Own, UnOwn, UnReq
<1>3. s[n].to = Own
  BY DEF Answered
<1> HIDE DEF s, t
<1>4. ASSUME NEW j \in 1 .. Len(t)
      PROVE  /\ n + j \in 1 .. Len(s) /\ t[j] = s[n + j] /\ (n + j = Len(s) <=> j = Len(t))
             /\ n \in 1 .. n + j - 1
  BY <1>1
<1>5. UnLast'
  BY <1>2, <1>4, ZenonT(40) DEF Answered, UnLast, s, t
<1>6. ASSUME NEW j \in 1 .. Len(t)
      PROVE  t[j].to # Own
  <2>1. s[n + j].to = Own <=> \A i \in 1 .. n + j - 1 : ~s[i].last
    BY <1>4 DEF Answered, s
  <2>2. s[n].last
    BY DEF s
  <2> QED BY <1>4, <2>1, <2>2
<1>7. ASSUME NEW j \in 1 .. Len(t)
      PROVE  t[j].to = UnOwn \/ IsMessage(t[j])
  BY <1>4, <1>6 DEF Answered, s
<1>8. Listening'
  BY <1>2, <1>5, <1>7 DEF Listening, t
<1>9. ASSUME ~(s[n].kind = "simple" /\ Recognised(cmd.what)), ~sent
      PROVE  Quiet'
  <2>1. subscribed = {} /\ \A i \in 1 .. Len(s) : s[i].to \in {Own, UnOwn}
    BY <1>3, <1>9 DEF Answered, s
  <2>2. requests = <<>> /\ \A i \in 1 .. Len(s) : s[i].to # UnOwn
    BY <1>9 DEF Answered, UnLast, s
  <2>3. \A j \in 1 .. Len(t) : FALSE
    BY <1>4, <1>6, <2>1, <2>2
  <2>4. t = <<>>
    BY <1>1, <2>3
  <2> QED BY <2>1, <2>2, <2>4 DEF Quiet, t
<1> QED BY <1>3, <1>8, <1>9 DEF s

\* In subscription mode any number of pieces is read.
LEMMA ListeningRead ==
  ASSUME Typed, Listening, NEW n \in 1 .. Len(Incoming),
         Drops(Incoming', Incoming, n), UNCHANGED <<requests, subscribed, sent, cmd>>
  PROVE  /\ Listening'
         /\ Incoming[n].last /\ Incoming[n].kind \in {"integer", "error"} =>
              Incoming[n].to = UnOwn /\ Over'
<1> DEFINE s == Incoming  t == Incoming'
<1>1. /\ Len(t) = Len(s) - n /\ t \in Seq(Piece)
      /\ \A j \in 1 .. Len(t) : t[j] = s[n + j]
      /\ Len(s) \in Nat /\ Len(t) \in Nat /\ (t = <<>> <=> Len(t) = 0)
  BY IncomingSeq, EmptyLen DEF Drops
<1>2. /\ Own' = Own /\ UnOwn' = UnOwn /\ UnReq' = UnReq
  BY DEF Own, UnOwn, UnReq
<1> HIDE DEF s, t
<1>4. ASSUME NEW j \in 1 .. Len(t)
      PROVE  n + j \in 1 .. Len(s) /\ t[j] = s[n + j] /\ (n + j = Len(s) <=> j = Len(t))
  BY <1>1
<1>5. UnLast'
  BY <1>2, <1>4 DEF Listening, UnLast, s, t
<1>6. Listening'
  BY <1>2, <1>4, <1>5 DEF Listening, s, t
<1>7. ASSUME s[n].last, s[n].kind \in {"integer", "error"}
      PROVE  s[n].to = UnOwn /\ Over'
  <2>1. s[n].to = UnOwn
    BY <1>7 DEF Listening, IsMessage, s
  <2>2. sent /\ requests = <<>> /\ (~Remains(cmd.what) => subscribed = {} /\ n = Len(s))
    BY <1>7, <2>1 DEF Listening, UnLast, s
  <2>3. CASE Remains(cmd.what)
    BY <2>1, <2>2, <2>3 DEF Over
  <2>4. CASE ~Remains(cmd.what)
    <3>1. t = <<>>
      BY <1>1, <2>2, <2>4
    <3> QED BY <2>1, <2>2, <2>4, <3>1 DEF Over, Quiet, t
  <2> QED BY <2>3, <2>4
<1> QED BY <1>6, <1>7 DEF s

LEMMA AppendIs ==
  ASSUME NEW T, NEW s \in Seq(T), NEW b \in T, NEW t, t = Append(s, b)
  PROVE  /\ t \in Seq(T) /\ Len(t) = Len(s) + 1
         /\ \A i \in 1 .. Len(s) : t[i] = s[i]
         /\ t[Len(s) + 1] = b
BY AppendProperties

LEMMA AppendOne ==
  ASSUME NEW T, NEW a \in T, NEW b \in T
  PROVE  Append(<<a>>, b) = <<a, b>>
<1> DEFINE s == <<a>>  t == Append(s, b)  u == <<a, b>>
<1>1. s \in Seq(T) /\ Len(s) = 1 /\ s[1] = a
  OBVIOUS
<1>2. u \in Seq(T) /\ Len(u) = 2 /\ u[1] = a /\ u[2] = b
  OBVIOUS
<1> HIDE DEF s, u
<1>3. t \in Seq(T) /\ Len(t) = 2 /\ t[1] = a /\ t[2] = b
  <2>1. /\ t \in Seq(T) /\ Len(t) = Len(s) + 1
        /\ (\A i \in 1 .. Len(s) : t[i] = s[i]) /\ t[Len(s) + 1] = b
    <3>1. s \in Seq(T) /\ t = Append(s, b)
      BY <1>1
    <3> HIDE DEF t
    <3> QED BY <3>1, AppendIs
  <2> HIDE DEF t
  <2> QED BY <1>1, <2>1
<1> HIDE DEF t
<1>4. t = u
  BY <1>2, <1>3, SeqEqual
<1> QED BY <1>4 DEF s, t, u

\* The CLI sends UNSUBSCRIBE.
LEMMA UnsubscribeSent ==
  ASSUME Typed, ~sent, sent', requests' = Append(requests, UnReq), Incoming' = Incoming,
         UNCHANGED <<closed, subscribed, cmd>>
  PROVE  /\ Unanswered => Unanswered'
         /\ Answered => Answered'
         /\ Listening => Listening'
<1>1. /\ Own' = Own /\ UnOwn' = UnOwn /\ CmdReq' = CmdReq /\ UnReq' = UnReq
  BY DEF Own, UnOwn, CmdReq, UnReq
<1>2. ASSUME Unanswered PROVE Unanswered'
  <2>1. requests = <<CmdReq>> /\ Incoming = <<>> /\ subscribed = {}
    BY <1>2 DEF Unanswered
  <2>2. Append(<<CmdReq>>, UnReq) = <<CmdReq, UnReq>>
    <3>1. CmdReq \in Request /\ UnReq \in Request
      BY DEF Typed, CmdReq, UnReq, Request
    <3> QED BY <3>1, AppendOne
  <2>3. requests' = <<CmdReq, UnReq>>
    BY <2>1, <2>2, Zenon
  <2>4. requests' = <<CmdReq', UnReq'>>
    BY <1>1, <2>3, Zenon
  <2> QED BY <2>1, <2>4, Zenon DEF Unanswered
<1>3. ASSUME UnLast PROVE UnLast'
  <2>1. requests = <<>> /\ \A j \in 1 .. Len(Incoming) : Incoming[j].to # UnOwn
    BY <1>3 DEF UnLast
  <2>2. requests' = <<UnReq>>
    BY <2>1
  <2> QED BY <1>1, <1>3, <2>1, <2>2 DEF UnLast
<1>4. Answered => Answered'
  BY <1>1, <1>3 DEF Answered
<1>5. Listening => Listening'
  BY <1>1, <1>3 DEF Listening
<1> QED BY <1>2, <1>4, <1>5

\* What the server may answer: only a SUBSCRIBE adds a channel, its own, and then
\* the reply is simple; an UNSUBSCRIBE is answered by an integer or an error.
LEMMA AnswersAre ==
  ASSUME subscribed \in SUBSET Whats, NEW r \in Request, NEW a \in Answers(r)
  PROVE  /\ a[1] \in {"simple", "integer", "bulk", "error"} /\ a[2] \in SUBSET Whats
         /\ a[2] \subseteq subscribed \cup ({r.what} \ {"plain", "badsub"})
         /\ r.what # "quoted" =>
              a[2] \subseteq subscribed \/ (a[1] = "simple" /\ Recognised(r.what) /\ ~r.un)
         /\ r.un /\ Recognised(r.what) => a[1] \in {"integer", "error"}
         /\ r.un /\ r.what = "sub" => a[2] = subscribed \ {"sub"}
<1>1. r.what \in Whats /\ r.un \in BOOLEAN
  BY DEF Request
<1>2. CASE r.what = "plain"
  <2> DEFINE taken == {subscribed} \cup {subscribed \ {what} : what \in subscribed}
  <2>1. a \in ({"simple", "bulk", "error"} \X {subscribed}) \cup ({"integer"} \X taken)
    BY <1>2 DEF Answers
  <2>2. a[1] \in {"simple", "integer", "bulk", "error"} /\ a[2] \in taken
    BY <2>1
  <2>3. a[2] \subseteq subscribed
    BY <2>2
  <2> QED BY <1>2, <2>2, <2>3 DEF Recognised
<1>3. CASE r.what # "plain"
  <2>1. PICK k \in {"simple", "integer", "error"}, S \in SUBSET Whats :
          /\ a = <<k, S>>
          /\ S \subseteq subscribed \cup ({r.what} \ {"plain", "badsub"})
          /\ r.what # "quoted" =>
               S \subseteq subscribed \/ (k = "simple" /\ Recognised(r.what) /\ ~r.un)
          /\ r.un /\ Recognised(r.what) => k \in {"integer", "error"}
          /\ r.un /\ r.what = "sub" => S = subscribed \ {"sub"}
    <3>1. CASE r.what = "badsub"
      BY <1>3, <3>1 DEF Answers, Recognised
    <3>2. CASE r.what # "badsub" /\ ~r.un
      BY <1>1, <1>3, <3>2 DEF Answers, Recognised, Whats
    <3>3. CASE r.what = "longsub" /\ r.un
      BY <1>3, <3>3 DEF Answers, Recognised
    <3>4. CASE r.what \notin {"badsub", "longsub"} /\ r.un
      BY <1>1, <1>3, <3>4 DEF Answers, Recognised, Remains, Whats
    <3> QED BY <1>1, <3>1, <3>2, <3>3, <3>4
  <2>2. a[1] = k /\ a[2] = S
    BY <2>1, Zenon
  <2> QED BY <2>1, <2>2
<1> QED BY <1>2, <1>3

\* The server answers the command.
LEMMA CommandAnswered ==
  ASSUME Typed, InStep, Unanswered,
         NEW a \in Answers(CmdReq), NEW r, IsResponse(r, a[1], Own), Extends(Incoming', Incoming, r),
         subscribed' = a[2], requests' = Tail(requests), UNCHANGED <<sent, cmd>>
  PROVE  Answered'
<1>1. /\ Own' = Own /\ UnOwn' = UnOwn /\ UnReq' = UnReq /\ Own # UnOwn
  BY DEF Own, UnOwn, UnReq
<1>2. cmd.what \in Whats \ {"quoted"}
  BY DEF Typed, InStep
<1>3. /\ subscribed = {}
      /\ Len(Incoming) = 0
      /\ requests' = IF sent THEN <<UnReq>> ELSE <<>>
  <2>1. subscribed = {} /\ Len(Incoming) = 0
    BY IncomingSeq DEF Unanswered
  <2>2. CASE sent
    BY <2>1, <2>2 DEF Unanswered
  <2>3. CASE ~sent
    BY <2>1, <2>3 DEF Unanswered
  <2> QED BY <2>1, <2>2, <2>3
<1>4. /\ subscribed' \subseteq {cmd.what} \ {"plain", "badsub"}
      /\ ~(a[1] = "simple" /\ Recognised(cmd.what)) => subscribed' = {}
  <2>1. CmdReq.what = cmd.what /\ CmdReq \in Request /\ subscribed \in SUBSET Whats
    BY DEF CmdReq, Request, Typed
  <2>2. /\ a[2] \subseteq subscribed \cup ({cmd.what} \ {"plain", "badsub"})
        /\ a[2] \subseteq subscribed \/ (a[1] = "simple" /\ Recognised(cmd.what))
    BY <1>2, <2>1, AnswersAre
  <2> QED BY <1>3, <2>2
<1>5. Pieces \in Nat \ {0}
  BY BoundAssumption
<1> DEFINE t == Incoming'
<1>6. /\ t \in Seq(Piece) /\ Len(t) = Pieces
      /\ \A j \in 1 .. Len(t) : /\ t[j].kind = a[1] /\ t[j].to = Own
                                /\ t[j].last <=> j = Pieces
  <2>1. /\ t \in Seq(Piece) /\ Len(t) = Len(r) /\ Len(r) = Pieces
        /\ \A j \in 1 .. Len(r) : t[0 + j] = r[j]
    BY <1>3, <1>5 DEF Extends, IsResponse
  <2>2. ASSUME NEW j \in 1 .. Len(t)
        PROVE  t[j] = r[j] /\ j \in 1 .. Len(r)
    <3>1. j \in 1 .. Len(r) /\ 0 + j = j
      BY <2>1, <1>5
    <3> QED BY <2>1, <3>1
  <2>3. \A j \in 1 .. Len(r) : /\ r[j].kind = a[1] /\ r[j].to = Own
                               /\ (r[j].last <=> j = Pieces)
    BY DEF IsResponse
  <2> HIDE DEF t
  <2> QED BY <2>1, <2>2, <2>3
<1> HIDE DEF t
<1>7. t # <<>>
  BY <1>5, <1>6, EmptyLen
<1>8. UnLast'
  BY <1>1, <1>3, <1>4, <1>6 DEF UnLast, t
<1>9. ASSUME NEW j \in 1 .. Len(t)
      PROVE  /\ t[j].to = Own <=> \A i \in 1 .. j - 1 : ~t[i].last
             /\ t[j].to \notin {Own, UnOwn} => IsMessage(t[j])
             /\ t[j].to = Own /\ ~(t[j].kind = "simple" /\ Recognised(cmd.what)) =>
                  subscribed' = {} /\ \A i \in 1 .. Len(t) : t[i].to \in {Own, UnOwn}
  BY <1>4, <1>5, <1>6
<1> QED BY <1>1, <1>7, <1>8, <1>9 DEF Answered, t

\* A response goes behind all others: the reply to UNSUBSCRIBE or a message.
LEMMA More ==
  ASSUME Typed, NEW kind, NEW to, NEW r, IsResponse(r, kind, to), Extends(Incoming', Incoming, r)
  PROVE  /\ Len(Incoming') \in Nat /\ Incoming' # <<>> /\ Len(Incoming') > Len(Incoming)
         /\ \A j \in 1 .. Len(Incoming) : Incoming'[j] = Incoming[j]
         /\ \A j \in Len(Incoming) + 1 .. Len(Incoming') :
              Incoming'[j].kind = kind /\ Incoming'[j].to = to
              /\ (Incoming'[j].last <=> j = Len(Incoming'))
<1> DEFINE s == Incoming  t == Incoming'
<1>1. /\ Pieces \in Nat \ {0} /\ Len(r) = Pieces /\ Len(s) \in Nat
      /\ t \in Seq(Piece) /\ Len(t) = Len(s) + Len(r)
  BY BoundAssumption, IncomingSeq DEF Extends, IsResponse
<1>2. t # <<>>
  BY <1>1, EmptyLen
<1>3. \A j \in 1 .. Len(s) : t[j] = s[j]
  BY DEF Extends
<1>4. /\ \A j \in 1 .. Len(r) : t[Len(s) + j] = r[j]
      /\ \A j \in 1 .. Len(r) : r[j].kind = kind /\ r[j].to = to /\ (r[j].last <=> j = Pieces)
  BY DEF Extends, IsResponse
<1> HIDE DEF s, t
<1>5. ASSUME NEW j \in Len(s) + 1 .. Len(t)
      PROVE  t[j].kind = kind /\ t[j].to = to /\ (t[j].last <=> j = Len(t))
  <2> DEFINE k == j - Len(s)
  <2>1. k \in 1 .. Len(r) /\ j = Len(s) + k /\ (k = Pieces <=> j = Len(t))
    BY <1>1
  <2> HIDE DEF k
  <2> QED BY <1>4, <2>1
<1>6. Len(t) \in Nat /\ Len(t) > Len(s)
  BY <1>1
<1> QED BY <1>2, <1>3, <1>5, <1>6 DEF s, t

LEMMA AnsweredMore ==
  ASSUME Typed, Whole, ~closed, Answered, NEW kind, NEW to, NEW r, IsResponse(r, kind, to),
         Extends(Incoming', Incoming, r), UNCHANGED <<sent, cmd>>,
         UnLast', subscribed' \subseteq subscribed,
         to = UnOwn \/ (kind = "array" /\ to[2] = "message" /\ subscribed # {})
  PROVE  Answered'
<1> DEFINE s == Incoming  t == Incoming'
<1>1. /\ Own' = Own /\ UnOwn' = UnOwn /\ Own # UnOwn /\ Own[2] # "message"
  BY DEF Own, UnOwn
<1>2. /\ Len(t) \in Nat /\ t # <<>> /\ Len(t) > Len(s)
      /\ \A j \in 1 .. Len(s) : t[j] = s[j]
      /\ \A j \in Len(s) + 1 .. Len(t) : t[j].kind = kind /\ t[j].to = to
  BY More
<1>3. Len(s) \in Nat /\ Len(s) # 0 /\ s[Len(s)].last
  BY IncomingSeq DEF Answered, Whole, WholeStream
<1>4. to # Own
  BY <1>1
<1> HIDE DEF s, t
<1>5. ASSUME NEW j \in 1 .. Len(t)
      PROVE  t[j].to = Own <=> \A i \in 1 .. j - 1 : ~t[i].last
  <2>1. CASE j <= Len(s)
    <3>1. j \in 1 .. Len(s) /\ \A i \in 1 .. j - 1 : i \in 1 .. Len(s)
      BY <1>2, <1>3, <2>1
    <3>2. s[j].to = Own <=> \A i \in 1 .. j - 1 : ~s[i].last
      BY <3>1 DEF Answered, s
    <3> QED BY <1>2, <3>1, <3>2
  <2>2. CASE j > Len(s)
    <3>1. j \in Len(s) + 1 .. Len(t) /\ Len(s) \in 1 .. j - 1 /\ Len(s) \in 1 .. Len(s)
      BY <1>2, <1>3, <2>2
    <3>2. t[Len(s)].last
      BY <1>2, <1>3, <3>1
    <3> QED BY <1>2, <1>4, <3>1, <3>2
  <2> QED BY <1>2, <1>3, <2>1, <2>2
<1>6. ASSUME NEW j \in 1 .. Len(t)
      PROVE  (j \in 1 .. Len(s) /\ t[j] = s[j]) \/ (t[j].kind = kind /\ t[j].to = to)
  BY <1>2, <1>3
<1>7. ASSUME NEW j \in 1 .. Len(t)
      PROVE  t[j].to \notin {Own, UnOwn} => IsMessage(t[j])
  BY <1>6 DEF Answered, IsMessage, s
<1>8. ASSUME NEW j \in 1 .. Len(t), t[j].to = Own,
             ~(t[j].kind = "simple" /\ Recognised(cmd.what))
      PROVE  subscribed' = {} /\ \A i \in 1 .. Len(t) : t[i].to \in {Own, UnOwn}
  <2>1. j \in 1 .. Len(s) /\ t[j] = s[j]
    BY <1>4, <1>6, <1>8
  <2>2. subscribed = {} /\ \A i \in 1 .. Len(s) : s[i].to \in {Own, UnOwn}
    BY <1>8, <2>1 DEF Answered, s
  <2> QED BY <1>6, <2>2
<1> QED BY <1>1, <1>2, <1>5, <1>7, <1>8 DEF Answered, t

LEMMA ListeningMore ==
  ASSUME Typed, Listening, NEW kind, NEW to, NEW r, IsResponse(r, kind, to),
         Extends(Incoming', Incoming, r), UNCHANGED <<sent, cmd>>,
         UnLast', to = UnOwn \/ (kind = "array" /\ to[2] = "message")
  PROVE  Listening'
<1> DEFINE s == Incoming  t == Incoming'
<1>1. UnOwn' = UnOwn
  BY DEF UnOwn
<1>2. /\ Len(t) \in Nat /\ Len(t) > Len(s)
      /\ \A j \in 1 .. Len(s) : t[j] = s[j]
      /\ \A j \in Len(s) + 1 .. Len(t) : t[j].kind = kind /\ t[j].to = to
  BY More
<1>3. Len(s) \in Nat
  BY IncomingSeq
<1> HIDE DEF s, t
<1>6. ASSUME NEW j \in 1 .. Len(t)
      PROVE  (j \in 1 .. Len(s) /\ t[j] = s[j]) \/ (t[j].kind = kind /\ t[j].to = to)
  BY <1>2, <1>3
<1>7. ASSUME NEW j \in 1 .. Len(t)
      PROVE  t[j].to = UnOwn \/ IsMessage(t[j])
  BY <1>6 DEF Listening, IsMessage, s
<1> QED BY <1>1, <1>7 DEF Listening, t

\* The server answers the UNSUBSCRIBE.
LEMMA UnsubscribeAnswered ==
  ASSUME Typed, InStep, UnLast, requests = <<UnReq>>, Recognised(cmd.what),
         NEW a \in Answers(UnReq), NEW r, IsResponse(r, a[1], UnOwn), Extends(Incoming', Incoming, r),
         subscribed' = a[2], requests' = Tail(requests), UNCHANGED <<sent, cmd>>
  PROVE  UnLast' /\ subscribed' \subseteq subscribed
<1> DEFINE s == Incoming  t == Incoming'
<1>1. UnOwn' = UnOwn
  BY DEF UnOwn
<1>2. requests' = <<>> /\ sent
  <2>1. UnReq \in Request /\ <<UnReq>> # <<>>
    BY DEF Typed, UnReq, Request
  <2> QED BY <2>1 DEF UnLast
<1>3. /\ subscribed' \subseteq subscribed /\ a[1] \in {"integer", "error"}
      /\ ~Remains(cmd.what) => subscribed' = {}
  <2>1. UnReq.what = cmd.what /\ UnReq.un = TRUE /\ UnReq \in Request /\ subscribed \in SUBSET Whats
    BY DEF UnReq, Request, Typed
  <2>2. /\ a[2] \subseteq subscribed /\ a[1] \in {"integer", "error"}
        /\ cmd.what = "sub" => a[2] = subscribed \ {"sub"}
    BY <2>1, AnswersAre DEF Recognised
  <2>3. subscribed \subseteq {cmd.what} \ {"plain", "badsub"}
    BY DEF UnLast
  <2>4. ~Remains(cmd.what) => cmd.what \in {"sub", "badsub"}
    BY DEF Recognised, Remains
  <2> QED BY <2>2, <2>3, <2>4
<1>4. /\ \A j \in 1 .. Len(s) : t[j] = s[j]
      /\ \A j \in Len(s) + 1 .. Len(t) :
           t[j].kind = a[1] /\ t[j].to = UnOwn /\ (t[j].last <=> j = Len(t))
      /\ Len(s) \in Nat /\ Len(t) \in Nat
  BY More, IncomingSeq
<1>5. \A j \in 1 .. Len(s) : s[j].to # UnOwn
  <2>1. requests # <<>>
    BY DEF Typed, UnReq, Request
  <2> QED BY <2>1 DEF UnLast
<1> HIDE DEF s, t
<1>6. ASSUME NEW j \in 1 .. Len(t), t[j].to = UnOwn
      PROVE  t[j].kind \in {"integer", "error"} /\ (t[j].last => j = Len(t))
  <2>1. j \in 1 .. Len(s) \/ j \in Len(s) + 1 .. Len(t)
    BY <1>4
  <2> QED BY <1>3, <1>4, <1>5, <1>6, <2>1
<1>7. UnLast'
  BY <1>1, <1>2, <1>3, <1>6 DEF UnLast, t
<1> QED BY <1>3, <1>7

\* The server publishes a message.
LEMMA MessagePublished ==
  ASSUME Typed, UnLast, subscribed # {}, NEW to, to[2] = "message", NEW r, IsResponse(r, "array", to),
         Extends(Incoming', Incoming, r), UNCHANGED <<requests, subscribed, sent, cmd>>
  PROVE  UnLast'
<1> DEFINE s == Incoming  t == Incoming'
<1>1. UnOwn' = UnOwn /\ UnReq' = UnReq /\ to # UnOwn
  BY DEF UnOwn, UnReq
<1>2. /\ \A j \in 1 .. Len(s) : t[j] = s[j]
      /\ \A j \in Len(s) + 1 .. Len(t) : t[j].to = to
      /\ Len(s) \in Nat /\ Len(t) \in Nat
  BY More, IncomingSeq
<1>3. \A j \in 1 .. Len(s) : s[j].to = UnOwn => Remains(cmd.what)
  BY DEF UnLast
<1> HIDE DEF s, t
<1>4. ASSUME NEW j \in 1 .. Len(t), t[j].to = UnOwn
      PROVE  j \in 1 .. Len(s) /\ t[j] = s[j] /\ Remains(cmd.what)
  <2>1. j \in 1 .. Len(s) \/ j \in Len(s) + 1 .. Len(t)
    BY <1>2
  <2> QED BY <1>1, <1>2, <1>3, <1>4, <2>1
<1> QED BY <1>1, <1>4 DEF UnLast, s, t

\* The server goes away.
LEMMA Lost ==
  ASSUME Typed, NEW n \in 0 .. Len(Incoming), Begins(Incoming', Incoming, n),
         closed', subscribed' = {}, UNCHANGED <<requests, sent, cmd>>
  PROVE  /\ Quiet => Quiet'
         /\ Unanswered => Unanswered'
         /\ Answered => Answered'
         /\ Listening => Listening'
<1> DEFINE s == Incoming  t == Incoming'
<1>1. /\ Own' = Own /\ UnOwn' = UnOwn /\ CmdReq' = CmdReq /\ UnReq' = UnReq
  BY DEF Own, UnOwn, CmdReq, UnReq
<1>2. /\ t \in Seq(Piece) /\ Len(t) = n /\ \A j \in 1 .. n : t[j] = s[j]
      /\ Len(s) \in Nat /\ (s = <<>> <=> Len(s) = 0) /\ n \in 0 .. Len(s)
  BY IncomingSeq DEF Begins
<1>3. s = <<>> => t = <<>>
  BY <1>2, EmptyLen
<1> HIDE DEF s, t
<1>4. Quiet => Quiet'
  BY <1>3 DEF Quiet, s, t
<1>5. Unanswered => Unanswered'
  BY <1>1, <1>3, Zenon DEF Unanswered, s, t
<1>6. ASSUME NEW j \in 1 .. Len(t)
      PROVE  j \in 1 .. Len(s) /\ t[j] = s[j] /\ (j = Len(s) => j = Len(t))
  BY <1>2
<1>7. ASSUME UnLast PROVE UnLast'
  <2>1. ASSUME NEW j \in 1 .. Len(t), t[j].to = UnOwn
        PROVE  /\ sent /\ requests = <<>> /\ t[j].kind \in {"integer", "error"}
               /\ ~Remains(cmd.what) /\ t[j].last => j = Len(t)
    BY <1>6, <1>7, <2>1 DEF UnLast, s
  <2>2. requests = <<>> \/ (requests = <<UnReq>> /\ sent)
    BY <1>7 DEF UnLast
  <2> QED BY <1>1, <2>1, <2>2 DEF UnLast, t
<1>8. ASSUME Answered PROVE Answered'
  <2>1. ASSUME NEW j \in 1 .. Len(t)
        PROVE  t[j].to = Own <=> \A i \in 1 .. j - 1 : ~t[i].last
    <3>1. s[j].to = Own <=> \A i \in 1 .. j - 1 : ~s[i].last
      BY <1>6, <1>8 DEF Answered, s
    <3>2. \A i \in 1 .. j - 1 : t[i] = s[i]
      BY <1>2, <1>6
    <3> QED BY <1>6, <3>1, <3>2
  <2>2. ASSUME NEW j \in 1 .. Len(t)
        PROVE  t[j].to \notin {Own, UnOwn} => IsMessage(t[j])
    BY <1>6, <1>8 DEF Answered, s
  <2>3. ASSUME NEW j \in 1 .. Len(t), t[j].to = Own,
               ~(t[j].kind = "simple" /\ Recognised(cmd.what))
        PROVE  \A i \in 1 .. Len(t) : t[i].to \in {Own, UnOwn}
    BY <1>6, <1>8, <2>3 DEF Answered, s
  <2>4. UnLast'
    BY <1>7, <1>8 DEF Answered
  <2> QED BY <1>1, <2>1, <2>2, <2>3, <2>4 DEF Answered, t
<1>9. ASSUME Listening PROVE Listening'
  <2>1. ASSUME NEW j \in 1 .. Len(t)
        PROVE  t[j].to = UnOwn \/ IsMessage(t[j])
    BY <1>6, <1>9 DEF Listening, s
  <2>2. UnLast'
    BY <1>7, <1>9 DEF Listening
  <2> QED BY <1>1, <2>1, <2>2 DEF Listening, t
<1> QED BY <1>4, <1>5, <1>8, <1>9

-----------------------------------------------------------------------------
(* Steps that leave the CLI where it is.                                   *)

LEMMA SocketKept ==
  ASSUME Socketed, Keeps,
         \/ pc' \in {pc, "killed"}
         \/ /\ pc \notin {"resolve", "socket", "exit", "killed"}
            /\ pc' \notin {"resolve", "socket"}
  PROVE  Socketed'
BY DEF Socketed, Keeps

LEMMA FlowStays ==
  ASSUME Kept, UNCHANGED <<pc, caller, status, got, cmd, sent>>, Whole',
         InStep /\ pc \in Before \cup Turn =>
           /\ Quiet => Quiet'
           /\ Unanswered => Unanswered' \/ Answered'
           /\ Answered => Answered'
           /\ Listening => Listening'
  PROVE  Kept'
<1>1. Own' = Own /\ UnOwn' = UnOwn /\ (InStep' <=> InStep)
  BY DEF Own, UnOwn, InStep
<1>2. SUFFICES ASSUME InStep PROVE Flow'
  BY <1>1 DEF Kept
<1>3. Flow
  BY <1>2 DEF Kept
<1>4. CASE pc \in Before \cup Turn
  <2>1. /\ Quiet => Quiet'
        /\ Unanswered => Unanswered' \/ Answered'
        /\ Answered => Answered'
        /\ Listening => Listening'
    BY <1>2, <1>4
  <2> QED BY <1>1, <1>3, <2>1 DEF Flow, Over
<1>5. CASE pc \notin Before \cup Turn
  BY <1>5 DEF Flow, Before, Turn, Reading, Filling
<1> QED BY <1>4, <1>5

LEMMA FollowedStays ==
  ASSUME Followed, UNCHANGED <<pc, status>>, Kept => Kept', Cut => Cut'
  PROVE  Followed'
BY DEF Followed

\* A step in which the CLI does nothing and the connection neither.
LEMMA NothingMoves ==
  ASSUME Kept, UNCHANGED <<pc, caller, status, got, cmd, sent, reader, replies, closed, requests, subscribed>>
  PROVE  Kept'
<1>1. /\ Whole' <=> Whole
      /\ Quiet' <=> Quiet
      /\ Unanswered' <=> Unanswered
      /\ Answered' <=> Answered
      /\ Listening' <=> Listening
  BY FrameUnchanged, Frame
<1>2. Whole
  BY DEF Kept
<1> QED BY <1>1, <1>2, FlowStays

LEMMA CtrlCInv ==
  ASSUME Inv, CtrlC, Keeps
  PROVE  Inv'
<1>1. Typed'
  <2>1. /\ pc' \in {pc, "killed"} /\ interrupted' \in {interrupted, TRUE}
        /\ UNCHANGED <<active, sent, late, caller, cmd, buf, inside, requests, replies, subscribed,
                       closing, messages, closed>>
    BY DEF CtrlC, reader, server
  <2> QED BY <2>1 DEF Inv, Typed, Places
<1>2. Flagged'
  <2>1. /\ pc' \in {pc, "killed"} /\ (interrupted => interrupted')
        /\ UNCHANGED <<active, sent, caller, cmd, buf>>
    BY DEF CtrlC, reader
  <2>2. CASE pc' = pc
    BY <2>1, <2>2 DEF Inv, Flagged, Recognised
  <2>3. CASE pc' = "killed"
    BY <2>3 DEF Flagged, Before, Turn, Reading, Filling
  <2> QED BY <2>1, <2>2, <2>3
<1>3. Socketed'
  BY SocketKept DEF Inv, CtrlC
<1>4. Followed'
  <2>1. CASE pc' = pc
    <3>1. Kept => Kept'
      BY <2>1, NothingMoves DEF CtrlC, server
    <3>2. Cut => Cut'
      BY DEF Cut, CtrlC, reader
    <3> QED BY <2>1, <3>1, <3>2, FollowedStays DEF CtrlC, Inv
  <2>2. CASE pc' = "killed"
    BY <2>2 DEF Followed, Before
  <2> QED BY <2>1, <2>2 DEF CtrlC
<1> QED BY <1>1, <1>2, <1>3, <1>4 DEF Inv

LEMMA DeadlineInv ==
  ASSUME Inv, DeadlinePasses, Keeps
  PROVE  Inv'
<1>1. Typed' /\ Flagged'
  BY DEF Inv, DeadlinePasses, Typed, Flagged, Before, Turn, Reading, Filling, reader, server, Places, Recognised
<1>2. Socketed'
  BY SocketKept DEF Inv, DeadlinePasses
<1>3. Kept => Kept'
  BY NothingMoves DEF DeadlinePasses, server
<1>4. Cut => Cut'
  BY DEF Cut, DeadlinePasses, reader
<1>5. Followed'
  BY <1>3, <1>4, FollowedStays DEF DeadlinePasses, Inv
<1> QED BY <1>1, <1>2, <1>5 DEF Inv

\* A step of the server.
LEMMA ServerStep ==
  ASSUME Inv, Keeps, Kept => Kept', Typed',
         UNCHANGED <<statics, pc, caller, cmd, status, got, timedOut, reader>>
  PROVE  Inv'
<1>1. Flagged'
  BY DEF Inv, Flagged, statics, reader, Recognised
<1>2. Socketed'
  BY SocketKept DEF Inv
<1>3. Cut => Cut'
  BY DEF Cut, statics, reader
<1>4. Followed'
  BY <1>3, FollowedStays DEF Inv
<1> QED BY <1>1, <1>2, <1>4 DEF Inv

LEMMA ServerAnswersInv ==
  ASSUME Inv, ServerAnswers, Keeps
  PROVE  Inv'
<1> DEFINE r == Head(requests)
           to == <<r.no, IF r.un THEN "un" ELSE "cmd">>
<1>1. PICK a \in Answers(r) : replies' = replies \o Response(a[1], to) /\ subscribed' = a[2]
  BY DEF ServerAnswers
<1> DEFINE q == Response(a[1], to)
<1>2. /\ requests # <<>> /\ ~closed /\ requests' = Tail(requests)
      /\ closing' = (r.un /\ r.what = "longsub") /\ UNCHANGED closed
      /\ UNCHANGED <<statics, pc, caller, cmd, status, got, timedOut, reader, messages>>
  BY DEF ServerAnswers
<1>3. Typed /\ Flagged
  BY DEF Inv
<1>4. requests \in Seq(Request) /\ r \in Request /\ requests' \in Seq(Request)
  BY <1>2, <1>3, HeadTailProperties DEF Typed
<1>5. r.no \in Nat /\ r.un \in BOOLEAN /\ to \in Nat \X {"cmd", "un", "message"}
  <2>1. r.no \in Nat /\ r.un \in BOOLEAN
    BY <1>4 DEF Request
  <2> HIDE DEF r
  <2> QED BY <2>1
<1>6. a[1] \in {"simple", "integer", "bulk", "error", "array"} /\ a[2] \in SUBSET Whats
  BY <1>3, <1>4, AnswersAre DEF Typed
<1>7. IsResponse(q, a[1], to)
  BY <1>5, <1>6, Responses
<1> HIDE DEF r, to, q
<1>8. replies' = replies \o q /\ subscribed' = a[2]
  BY <1>1 DEF q
<1>9. q \in Seq(Piece) /\ replies \in Seq(Piece) /\ buf \in Seq(Piece)
  BY <1>3, <1>7 DEF IsResponse, Typed
<1>10. Extends(Incoming', Incoming, q)
  BY <1>2, <1>8, <1>9, SendEffect DEF Incoming, reader
<1>11. Typed'
  <2>1. replies' \in Seq(Piece)
    BY <1>8, <1>9, IncomingIs
  <2>2. closing' \in BOOLEAN /\ subscribed' \in SUBSET Whats
    BY <1>2, <1>5, <1>6, <1>8
  <2> QED BY <1>2, <1>3, <1>4, <2>1, <2>2 DEF Typed, statics, reader
<1>12. ASSUME Whole PROVE Whole'
  <2>1. WholeStream(Incoming, inside, closed) /\ Incoming \in Seq(Piece)
    BY <1>3, <1>12, IncomingSeq DEF Whole
  <2>2. WholeStream(Incoming', inside, closed')
    BY <1>2, <1>7, <1>10, <2>1, WholeMore
  <2> QED BY <1>2, <2>2 DEF Whole, reader
<1>13. ASSUME InStep, pc \in Before \cup Turn, Unanswered
       PROVE  Answered'
  <2>1. r = CmdReq
    <3>1. CASE sent
      BY <1>13, <3>1 DEF Unanswered, r
    <3>2. CASE ~sent
      BY <1>13, <3>2 DEF Unanswered, r
    <3> QED BY <3>1, <3>2
  <2>2. to = Own
    BY <2>1 DEF to, Own, CmdReq
  <2>3. a \in Answers(CmdReq)
    BY <2>1
  <2>4. UNCHANGED <<sent, cmd>>
    BY <1>2 DEF statics
  <2> QED BY <1>2, <1>3, <1>7, <1>8, <1>10, <1>13, <2>2, <2>3, <2>4, CommandAnswered
<1>14. ASSUME InStep, pc \in Before \cup Turn, UnLast
       PROVE  UnLast' /\ subscribed' \subseteq subscribed /\ to = UnOwn
  <2>1. requests = <<UnReq>> /\ sent
    BY <1>2, <1>14 DEF UnLast
  <2>2. Recognised(cmd.what)
    BY <1>3, <1>14, <2>1 DEF Flagged
  <2>3. r = UnReq
    BY <2>1 DEF r
  <2>4. to = UnOwn
    BY <2>3 DEF to, UnOwn, UnReq
  <2>5. a \in Answers(UnReq)
    BY <2>3
  <2>6. UNCHANGED <<sent, cmd>>
    BY <1>2 DEF statics
  <2>7. UnLast' /\ subscribed' \subseteq subscribed
    BY <1>2, <1>3, <1>7, <1>8, <1>10, <1>14, <2>1, <2>2, <2>4, <2>5, <2>6, UnsubscribeAnswered
  <2> QED BY <2>4, <2>7
<1>15. ASSUME Kept PROVE Kept'
  <2>1. UNCHANGED <<sent, cmd>> /\ UNCHANGED <<pc, caller, status, got, cmd, sent>>
    BY <1>2 DEF statics
  <2>2. Whole /\ Whole'
    BY <1>12, <1>15 DEF Kept
  <2>3. ASSUME InStep, pc \in Before \cup Turn, Answered
        PROVE  Answered'
    <3>1. UnLast' /\ subscribed' \subseteq subscribed /\ to = UnOwn
      BY <1>14, <2>3 DEF Answered
    <3> QED BY <1>2, <1>3, <1>7, <1>10, <2>1, <2>2, <2>3, <3>1, AnsweredMore
  <2>4. ASSUME InStep, pc \in Before \cup Turn, Listening
        PROVE  Listening'
    <3>1. UnLast' /\ to = UnOwn
      BY <1>14, <2>4 DEF Listening
    <3> QED BY <1>3, <1>7, <1>10, <2>1, <2>4, <3>1, ListeningMore
  <2>5. Quiet => Quiet'
    BY <1>2 DEF Quiet
  <2> QED BY <1>13, <1>15, <2>1, <2>2, <2>3, <2>4, <2>5, FlowStays
<1> QED BY <1>2, <1>11, <1>15, ServerStep

LEMMA ServerPublishesInv ==
  ASSUME Inv, ServerPublishes, Keeps
  PROVE  Inv'
<1> DEFINE to == <<messages + 1, "message">>
           q == Response("array", to)
<1>1. /\ subscribed # {} /\ ~closed /\ messages' = messages + 1 /\ replies' = replies \o q
      /\ UNCHANGED <<statics, pc, caller, cmd, status, got, timedOut, reader, requests>> /\ UNCHANGED <<subscribed, closing, closed>>
  BY DEF ServerPublishes
<1>2. Typed
  BY DEF Inv
<1>3. to \in Nat \X {"cmd", "un", "message"} /\ to[2] = "message" /\ messages' \in Nat
  BY <1>1, <1>2 DEF Typed
<1>4. IsResponse(q, "array", to)
  BY <1>3, Responses
<1> HIDE DEF q, to
<1>5. q \in Seq(Piece) /\ replies \in Seq(Piece) /\ buf \in Seq(Piece)
  BY <1>2, <1>4 DEF IsResponse, Typed
<1>6. Extends(Incoming', Incoming, q)
  BY <1>1, <1>5, SendEffect DEF Incoming, reader
<1>7. Typed'
  <2>1. replies' \in Seq(Piece)
    BY <1>1, <1>5, IncomingIs
  <2> QED BY <1>1, <1>2, <1>3, <2>1 DEF Typed, statics, reader
<1>8. ASSUME Kept PROVE Kept'
  <2>1. /\ UNCHANGED <<sent, cmd>> /\ UNCHANGED <<pc, caller, status, got, cmd, sent>>
        /\ UNCHANGED <<requests, subscribed, sent, cmd>> /\ (subscribed' \subseteq subscribed)
    BY <1>1 DEF statics
  <2>2. Whole
    BY <1>8 DEF Kept
  <2>3. Whole'
    <3>1. WholeStream(Incoming, inside, closed) /\ Incoming \in Seq(Piece)
      BY <1>2, <2>2, IncomingSeq DEF Whole
    <3>2. WholeStream(Incoming', inside, closed')
      BY <1>1, <1>4, <1>6, <3>1, WholeMore
    <3> QED BY <1>1, <3>2 DEF Whole, reader
  <2>4. ASSUME UnLast PROVE UnLast'
    BY <1>1, <1>2, <1>3, <1>4, <1>6, <2>1, <2>4, MessagePublished
  <2>5. ASSUME Answered PROVE Answered'
    <3>1. UnLast'
      BY <2>4, <2>5 DEF Answered
    <3> QED BY <1>1, <1>2, <1>3, <1>4, <1>6, <2>1, <2>2, <2>5, <3>1, AnsweredMore
  <2>6. ASSUME Listening PROVE Listening'
    <3>1. UnLast'
      BY <2>4, <2>6 DEF Listening
    <3> QED BY <1>2, <1>3, <1>4, <1>6, <2>1, <2>6, <3>1, ListeningMore
  <2>7. ~Quiet /\ ~Unanswered
    BY <1>1 DEF Quiet, Unanswered
  <2> QED BY <1>8, <2>1, <2>3, <2>5, <2>6, <2>7, FlowStays
<1> QED BY <1>1, <1>7, <1>8, ServerStep

LEMMA ServerClosesInv ==
  ASSUME Inv, ServerCloses, Keeps
  PROVE  Inv'
<1>1. PICK n \in 0 .. Len(replies) : replies' = SubSeq(replies, 1, n)
  BY DEF ServerCloses
<1>2. /\ closed' /\ subscribed' = {} /\ closed' \in BOOLEAN /\ closing' \in BOOLEAN /\ subscribed' \in SUBSET Whats
      /\ UNCHANGED <<statics, pc, caller, cmd, status, got, timedOut, reader, requests, messages>>
  BY DEF ServerCloses
<1>3. Typed
  BY DEF Inv
<1>4. replies \in Seq(Piece) /\ buf \in Seq(Piece) /\ Incoming \in Seq(Piece)
  BY <1>3, IncomingSeq DEF Typed
<1> DEFINE m == Len(buf) + n
<1>5. m \in 0 .. Len(Incoming) /\ Begins(Incoming', Incoming, m)
  BY <1>1, <1>2, <1>4, LostEffect DEF Incoming, reader
<1>6. Typed'
  <2>1. replies' \in Seq(Piece)
    BY <1>1, <1>4, Prefix DEF Begins
  <2> QED BY <1>2, <1>3, <2>1 DEF Typed, statics, reader
<1> HIDE DEF m
<1>7. ASSUME Kept PROVE Kept'
  <2>1. UNCHANGED <<pc, caller, status, got, cmd, sent>> /\ UNCHANGED <<requests, sent, cmd>>
    BY <1>2 DEF statics
  <2>2. Whole'
    <3>1. WholeStream(Incoming, inside, closed)
      BY <1>7 DEF Kept, Whole
    <3>2. WholeStream(Incoming', inside, closed')
      BY <1>2, <1>4, <1>5, <3>1, WholeLost
    <3> QED BY <1>2, <3>2 DEF Whole, reader
  <2>3. /\ Quiet => Quiet'
        /\ Unanswered => Unanswered'
        /\ Answered => Answered'
        /\ Listening => Listening'
    BY <1>2, <1>3, <1>5, <2>1, Lost
  <2> QED BY <1>7, <2>1, <2>2, <2>3, FlowStays
<1> QED BY <1>2, <1>6, <1>7, ServerStep

-----------------------------------------------------------------------------
(* Steps of the CLI.                                                       *)

LEMMA ConnectingInv ==
  ASSUME Inv, Connecting
  PROVE  Inv'
<1>1. UNCHANGED loop /\ pc \in Before \ {"prompt"} /\ pc' \in Before \cup {"exit"}
  BY DEF Connecting, Tries, Resolve, ResolveFails, Socket, SocketFails, Connect, ConnectFails,
         AllTried, InputReady, InputFails, Before
<1>2. Typed'
  BY <1>1 DEF Inv, Typed, loop, statics, reader, server, Places, Before
<1>3. Socketed'
  <2>1. CASE Socket
    BY <2>1 DEF Socket, Tries, Inv, Socketed
  <2>2. CASE ~Socket
    BY <2>2 DEF Connecting, Tries, Resolve, ResolveFails, SocketFails, Connect, ConnectFails,
                AllTried, InputReady, InputFails, Inv, Socketed
  <2> QED BY <2>1, <2>2
<1>4. Flagged'
  BY <1>1 DEF Inv, Flagged, loop, statics, reader, Before, Turn, Reading, Filling
<1>5. Followed'
  <2>1. Kept
    BY <1>1 DEF Inv, Followed
  <2>2. /\ Whole' <=> Whole
        /\ Quiet' <=> Quiet
        /\ InStep' <=> InStep
    BY <1>1, Frame, FrameUnchanged DEF loop, statics, server, InStep
  <2>3. InStep => Quiet
    BY <1>1, <2>1 DEF Kept, Flow
  <2>4. InStep' => Flow'
    BY <1>1, <2>2, <2>3 DEF Flow, Before, Reading, Filling
  <2>5. Kept'
    BY <2>1, <2>2, <2>4 DEF Kept
  <2> QED BY <1>1, <2>5 DEF Followed, Before
<1> QED BY <1>2, <1>3, <1>4, <1>5 DEF Inv

LEMMA EndsInv ==
  ASSUME Inv, pc \in {"prompt", "send"}, Ends, Keeps
  PROVE  Inv'
<1>1. Typed'
  BY DEF Inv, Ends, Typed, statics, reader, server, Places
<1>2. Socketed'
  BY SocketKept DEF Inv, Ends
<1>3. Flagged' /\ Followed'
  BY DEF Ends, Flagged, Followed, Before, Turn, Reading, Filling
<1> QED BY <1>1, <1>2, <1>3 DEF Inv

LEMMA TypeInv ==
  ASSUME Inv, NEW what \in Lines, Type(what), Keeps
  PROVE  Inv'
<1>1. /\ pc = "prompt" /\ pc' = "send"
      /\ cmd' = [no |-> cmd.no + 1, what |-> what, stray |-> cmd.stray \/ what = "quoted"]
      /\ ~interrupted' /\ ~sent' /\ ~late' /\ active' = Recognised(what)
      /\ UNCHANGED <<caller, reader, requests, replies, server>>
  BY DEF Type
<1>2. what \in Whats
  BY LinesAssumption DEF Whats
<1>3. /\ cmd' \in [no : Nat, what : Whats, stray : BOOLEAN]
      /\ cmd'.what = what /\ (cmd'.stray <=> cmd.stray \/ what = "quoted")
  <2>1. cmd.no + 1 \in Nat
    BY DEF Inv, Typed
  <2>2. (cmd.stray \/ what = "quoted") \in BOOLEAN
    BY Zenon
  <2>3. cmd' \in [no : Nat, what : Whats, stray : BOOLEAN]
    BY <1>1, <1>2, <2>1, <2>2, Zenon
  <2>4. cmd'.what = what /\ cmd'.stray = (cmd.stray \/ what = "quoted")
    BY <1>1, Zenon
  <2> QED BY <2>3, <2>4, Zenon
<1>4. Typed'
  <2>1. interrupted' \in BOOLEAN /\ active' \in BOOLEAN /\ sent' \in BOOLEAN /\ late' \in BOOLEAN
    <3>1. interrupted' = FALSE /\ sent' = FALSE /\ late' = FALSE
      BY DEF Type
    <3>2. active' = (what \in {"sub", "badsub", "longsub", "crsub"})
      BY DEF Type, Recognised
    <3>3. (what \in {"sub", "badsub", "longsub", "crsub"}) \in BOOLEAN
      OBVIOUS
    <3> QED BY <3>1, <3>2, <3>3, Zenon
  <2> QED BY <1>1, <1>3, <2>1 DEF Inv, Typed, reader, server, Places, Turn
<1>5. Socketed'
  BY <1>1, SocketKept DEF Inv
<1>6. Flagged'
  BY <1>1, <1>3 DEF Flagged, Before, Turn, Reading, Filling
<1>7. Followed'
  <2>1. Kept
    BY <1>1 DEF Inv, Followed, Before
  <2>2. Incoming' = Incoming /\ (Whole' <=> Whole)
    BY <1>1 DEF Incoming, Whole, reader, server
  <2>3. InStep' => Quiet'
    BY <1>1, <1>3, <2>1, <2>2 DEF Kept, Flow, InStep, Before, Quiet, server
  <2>4. Kept'
    BY <1>1, <2>1, <2>2, <2>3 DEF Kept, Flow, Before, Reading, Filling
  <2> QED BY <1>1, <2>4 DEF Followed, Before
<1> QED BY <1>4, <1>5, <1>6, <1>7 DEF Inv

LEMMA SendCommandInv ==
  ASSUME Inv, SendCommand, Keeps
  PROVE  Inv'
<1>1. /\ pc = "send" /\ pc' = "render" /\ caller' = "main"
      /\ requests' = Append(requests, CmdReq)
      /\ UNCHANGED <<statics, cmd, status, got, timedOut, reader, replies, server>>
  BY DEF SendCommand, CmdReq
<1>2. requests \in Seq(Request) /\ CmdReq \in Request
  BY DEF Inv, Typed, CmdReq, Request
<1>3. requests' \in Seq(Request)
  BY <1>1, <1>2, AppendIs
<1>4. Typed'
  BY <1>1, <1>3 DEF Inv, Typed, statics, reader, server, Places, Turn, Reading, Callers
<1>5. Socketed'
  BY <1>1, SocketKept DEF Inv
<1>6. Flagged'
  BY <1>1 DEF Inv, Flagged, Before, Turn, Reading, Filling, statics, Recognised
<1>7. Followed'
  <2>1. Kept /\ ~sent
    BY <1>1 DEF Inv, Followed, Flagged
  <2>2. Incoming' = Incoming /\ (Whole' <=> Whole) /\ (InStep' <=> InStep) /\ CmdReq' = CmdReq
    BY <1>1 DEF Incoming, Whole, reader, server, InStep, CmdReq
  <2>3. ASSUME InStep PROVE Unanswered'
    <3>1. Incoming = <<>> /\ requests = <<>> /\ subscribed = {}
      BY <1>1, <2>1, <2>3 DEF Kept, Flow, Quiet
    <3>2. requests' = <<CmdReq>>
      BY <1>1, <3>1
    <3> QED BY <1>1, <2>1, <2>2, <3>1, <3>2, Zenon DEF Unanswered, statics, server
  <2>4. Kept'
    BY <1>1, <2>1, <2>2, <2>3 DEF Kept, Flow, Before, Reading, Filling
  <2> QED BY <1>1, <2>4 DEF Followed, Before
<1> QED BY <1>4, <1>5, <1>6, <1>7 DEF Inv

\* The CLI goes on in its turn, and nothing moves.
LEMMA GoesOn ==
  ASSUME Inv, Keeps, pc \in Turn, pc' \in Turn, caller' \in Callers,
         UNCHANGED <<statics, cmd, reader, requests, replies, server>>
  PROVE  /\ Typed' /\ Socketed'
         /\ Whole' <=> Whole
         /\ Quiet' <=> Quiet
         /\ Over' <=> Over
         /\ Unanswered' <=> Unanswered
         /\ Answered' <=> Answered
         /\ Listening' <=> Listening
         /\ Cut' <=> Cut
         /\ InStep' <=> InStep
         /\ Own' = Own /\ UnOwn' = UnOwn
<1>1. Typed'
  BY DEF Inv, Typed, Places, statics, reader, server
<1>2. Socketed'
  BY SocketKept DEF Inv, Turn, Reading, Filling
<1>3. /\ Whole' <=> Whole
      /\ Quiet' <=> Quiet
      /\ Over' <=> Over
      /\ Unanswered' <=> Unanswered
      /\ Answered' <=> Answered
      /\ Listening' <=> Listening
      /\ Own' = Own /\ UnOwn' = UnOwn
  BY Frame, FrameUnchanged DEF statics, server
<1>4. (Cut' <=> Cut) /\ (InStep' <=> InStep)
  BY DEF Cut, InStep, statics, reader
<1> QED BY <1>1, <1>2, <1>3, <1>4

\* fill_reader goes on.
LEMMA FillInv ==
  ASSUME Inv, FillStart \/ FillNeedsNoSend \/ FillInTime \/ PollReady \/ PollTimeout, Keeps
  PROVE  Inv'
<1>1. /\ pc \in Reading /\ pc' \in Reading
      /\ UNCHANGED <<statics, cmd, reader, requests, replies, server>> /\ UNCHANGED caller
  BY DEF FillStart, FillNeedsNoSend, FillInTime, PollReady, PollTimeout, Step, Goes, Reading, Filling
<1>2. /\ pc \in Turn /\ pc' \in Turn /\ caller' \in Callers
  BY <1>1 DEF Turn, Inv, Typed
<1>3. /\ Typed' /\ Socketed'
      /\ Whole' <=> Whole
      /\ Unanswered' <=> Unanswered
      /\ Answered' <=> Answered
      /\ Listening' <=> Listening
      /\ Cut' <=> Cut
      /\ InStep' <=> InStep
  BY <1>1, <1>2, GoesOn
<1>4. Flagged'
  <2>1. CASE FillStart
    BY <1>1, <2>1 DEF FillStart, Step, Goes, Inv, Flagged, statics, reader, Before, Turn, Reading, Filling, Recognised
  <2>2. CASE FillNeedsNoSend \/ FillInTime \/ PollReady \/ PollTimeout
    BY <1>1, <2>2 DEF FillNeedsNoSend, FillInTime, PollReady, PollTimeout, Step, Goes,
       Inv, Flagged, statics, reader, Before, Turn, Reading, Filling, Recognised
  <2> QED BY <2>1, <2>2
<1>5. ASSUME Kept PROVE Kept'
  BY <1>1, <1>3, <1>5 DEF Kept, Flow, Before, Reading, Filling
<1>6. Followed'
  <2>1. CASE pc' \in {"render", "pending", "deadline"}
    <3>1. Kept \/ Cut
      BY <1>1 DEF Inv, Followed, Reading, Filling
    <3> QED BY <1>3, <1>5, <2>1, <3>1 DEF Followed, Before
  <2>2. CASE pc' \in {"poll", "recv"}
    <3>1. Kept
      <4>1. CASE FillStart
        BY <2>2, <4>1 DEF FillStart, Step, Goes, Inv, Followed, Cut
      <4>2. CASE FillInTime
        BY <4>2 DEF FillInTime, DeadlineReached, Inv, Followed, Cut
      <4>3. CASE PollReady
        BY <4>3 DEF PollReady, Inv, Followed
      <4> QED BY <2>2, <4>1, <4>2, <4>3 DEF FillNeedsNoSend, PollTimeout, Step, Goes
    <3> QED BY <1>5, <2>2, <3>1 DEF Followed, Before
  <2> QED BY <1>1, <2>1, <2>2 DEF Reading, Filling
<1> QED BY <1>3, <1>4, <1>6 DEF Inv

\* render_response gives up.
LEMMA AbandonInv ==
  ASSUME Inv, pc \in Reading, NEW result, Abandon(result), Keeps, result # "OK",
         result = "INTERRUPTED" => sent /\ late /\ pc = "deadline"
  PROVE  Inv'
<1>1. /\ pc' = "returned" /\ status' = result /\ ~inside' /\ inside' \in BOOLEAN
      /\ UNCHANGED <<caller, cmd, statics, buf, requests, replies, server>>
  BY DEF Abandon, Return
<1>2. Typed'
  BY <1>1 DEF Inv, Typed, statics, server, Places, Turn
<1>3. Socketed'
  BY <1>1, SocketKept DEF Inv, Reading, Filling
<1>4. Flagged'
  BY <1>1 DEF Inv, Flagged, statics, Before, Turn, Reading, Filling, Recognised
<1>5. Followed'
  BY <1>1 DEF Inv, Followed, Flagged, Before, Cut, statics, Filling
<1> QED BY <1>2, <1>3, <1>4, <1>5 DEF Inv

LEMMA GivingUpInv ==
  ASSUME Inv, Keeps,
         RenderFails \/ FillSendFails \/ FillTimesOut \/ PollError \/ RecvClosed \/ RecvError
  PROVE  Inv'
<1>1. CASE FillTimesOut
  BY <1>1, AbandonInv DEF FillTimesOut, DeadlineReached, Reading, Filling
<1>2. CASE RecvClosed
  BY <1>2, AbandonInv DEF RecvClosed, Reading, Filling
<1>3. CASE RenderFails \/ FillSendFails \/ PollError \/ RecvError
  BY <1>3, AbandonInv DEF RenderFails, FillSendFails, PollError, RecvError, Reading, Filling
<1> QED BY <1>1, <1>2, <1>3

LEMMA RecvInv ==
  ASSUME Inv, NEW n \in 1 .. Len(replies), Recv(n), Keeps
  PROVE  Inv'
<1>1. /\ pc = "recv" /\ pc' = "render"
      /\ buf' = SubSeq(replies, 1, n) /\ replies' = SubSeq(replies, n + 1, Len(replies))
      /\ UNCHANGED <<statics, caller, cmd, status, got, timedOut, inside, requests, server>>
  BY DEF Recv
<1>2. buf = <<>> /\ replies \in Seq(Piece) /\ n \in 0 .. Len(replies)
  BY <1>1 DEF Inv, Flagged, Filling, Typed
<1>3. buf' \in Seq(Piece) /\ replies' \in Seq(Piece)
  BY <1>1, <1>2, Prefix, Suffix DEF Begins, Drops
<1>4. Incoming' = Incoming
  BY <1>1, <1>2, RecvEffect DEF Incoming
<1>5. Typed'
  BY <1>1, <1>3 DEF Inv, Typed, statics, server, Places, Turn, Reading
<1>6. Socketed'
  BY <1>1, SocketKept DEF Inv
<1>7. Flagged'
  BY <1>1 DEF Inv, Flagged, statics, Before, Turn, Reading, Filling, Recognised
<1>8. Followed'
  <2>1. Kept
    BY <1>1 DEF Inv, Followed
  <2>2. /\ Whole' <=> Whole
        /\ Unanswered' <=> Unanswered
        /\ Answered' <=> Answered
        /\ Listening' <=> Listening
        /\ InStep' <=> InStep
    BY <1>1, <1>4, Frame DEF statics, server, InStep
  <2>3. Kept'
    BY <1>1, <2>1, <2>2 DEF Kept, Flow, Before, Reading, Filling
  <2> QED BY <1>1, <2>3 DEF Followed, Before
<1> QED BY <1>5, <1>6, <1>7, <1>8 DEF Inv

\* All of the buffer is read and the response is not complete.
LEMMA RenderPartInv ==
  ASSUME Inv, Keeps, pc = "render", buf # <<>>, {j \in DOMAIN buf : buf[j].last} = {},
         buf' = <<>>, inside' = TRUE, Goes("render"), UNCHANGED <<caller, cmd, timedOut, status, got>>
  PROVE  Inv'
<1> DEFINE n == Len(buf)
<1>1. /\ pc' = "render" /\ UNCHANGED <<statics, requests, replies, server>>
  BY DEF Goes
<1>2. buf \in Seq(Piece) /\ replies \in Seq(Piece) /\ Typed /\ buf' \in Seq(Piece)
  BY DEF Inv, Typed
<1>3. n \in Nat /\ n # 0
  BY <1>2, EmptyLen
<1>4. /\ Len(Incoming) = Len(buf) + Len(replies) /\ Len(replies) \in Nat
      /\ \A j \in 1 .. Len(buf) : Incoming[j] = buf[j]
  BY <1>2, IncomingIs DEF Incoming
<1>5. n \in 1 .. Len(Incoming) /\ \A j \in 1 .. n : ~Incoming[j].last
  <2>1. DOMAIN buf = 1 .. Len(buf)
    BY <1>2
  <2>2. \A j \in 1 .. n : ~buf[j].last
    BY <2>1
  <2> QED BY <1>3, <1>4, <2>2
<1>6. Drops(Incoming', Incoming, n)
  <2>1. Len(<<>>) = 0 /\ <<>> \in Seq(Piece)
    OBVIOUS
  <2>2. Drops(buf', buf, n) /\ n \in 0 .. Len(buf)
    BY <1>2, <1>3, <2>1 DEF Drops
  <2>3. Drops(buf' \o replies, buf \o replies, n)
    BY <1>2, <2>2, ReadEffect
  <2> QED BY <1>1, <2>3 DEF Incoming
<1>7. Kept
  BY DEF Inv, Followed, Cut
<1> HIDE DEF n
<1>8. Typed'
  BY <1>1, <1>2 DEF Typed, statics, server, Places, Turn, Reading
<1>9. Socketed'
  BY <1>1, SocketKept DEF Inv
<1>10. Flagged'
  BY <1>1 DEF Inv, Flagged, statics, Before, Turn, Reading, Filling, Recognised
<1>11. Whole'
  <2>1. WholeStream(Incoming, inside, closed) /\ Incoming \in Seq(Piece)
    BY <1>2, <1>7, IncomingSeq DEF Kept, Whole
  <2>2. WholeStream(Incoming', TRUE, closed)
    BY <1>5, <1>6, <2>1, WholeSkip
  <2> QED BY <1>1, <2>2 DEF Whole, server
<1>12. ASSUME InStep PROVE Flow'
  <2>1. UNCHANGED <<closed, requests, subscribed, sent, cmd>>
    BY <1>1 DEF statics, server
  <2>2. Whole /\ Flow
    BY <1>7, <1>12 DEF Kept
  <2>3. ~Unanswered
    BY <1>2, <1>5, IncomingSeq DEF Unanswered
  <2>4. ASSUME caller = "main" PROVE Answered'
    <3>1. Answered
      BY <2>2, <2>3, <2>4 DEF Flow, Reading
    <3> QED BY <1>2, <1>5, <1>6, <2>1, <2>2, <3>1, AnsweredSkip
  <2>5. ASSUME caller # "main" PROVE Listening'
    <3>1. Listening
      BY <2>2, <2>5 DEF Flow, Reading
    <3> QED BY <1>2, <1>5, <1>6, <2>1, <3>1, ListeningRead
  <2> QED BY <1>1, <2>4, <2>5 DEF Flow, Before, Reading, Filling
<1>13. Kept'
  BY <1>11, <1>12 DEF Kept, InStep
<1>14. Followed'
  BY <1>1, <1>13 DEF Followed, Before
<1> QED BY <1>8, <1>9, <1>10, <1>14 DEF Inv

\* A response is read to its end.
LEMMA RenderWholeInv ==
  ASSUME Inv, Keeps, pc = "render", buf # <<>>,
         NEW n \in 1 .. Len(buf), buf[n].last, \A j \in 1 .. n - 1 : ~buf[j].last,
         buf' = SubSeq(buf, n + 1, Len(buf)), inside' = FALSE,
         got' = [kind |-> buf[n].kind, to |-> buf[n].to], Return("OK"),
         UNCHANGED <<statics, requests, replies, server>>
  PROVE  Inv'
<1>1. /\ pc' = "returned" /\ status' = "OK" /\ UNCHANGED <<caller, cmd>>
      /\ got'.kind = buf[n].kind /\ got'.to = buf[n].to
  BY DEF Return
<1>2. buf \in Seq(Piece) /\ replies \in Seq(Piece) /\ Typed
  BY DEF Inv, Typed
<1>3. n \in 0 .. Len(buf) /\ Len(buf) \in Nat
  BY <1>2, EmptyLen
<1>4. /\ Len(Incoming) = Len(buf) + Len(replies) /\ Len(replies) \in Nat
      /\ \A j \in 1 .. Len(buf) : Incoming[j] = buf[j]
  BY <1>2, IncomingIs DEF Incoming
<1>5. /\ n \in 1 .. Len(Incoming) /\ Incoming[n] = buf[n] /\ Incoming[n].last
      /\ \A j \in 1 .. n - 1 : ~Incoming[j].last
  <2>1. n \in 1 .. Len(Incoming) /\ \A j \in 1 .. n - 1 : j \in 1 .. Len(buf)
    BY <1>3, <1>4
  <2>2. Incoming[n] = buf[n]
    BY <1>4
  <2>3. ASSUME NEW j \in 1 .. n - 1 PROVE ~Incoming[j].last
    <3>1. Incoming[j] = buf[j] /\ ~buf[j].last
      BY <1>4, <2>1
    <3> QED BY <3>1
  <2> QED BY <2>1, <2>2, <2>3
<1>6. Drops(buf', buf, n)
  BY <1>2, <1>3, Suffix
<1>7. Drops(Incoming', Incoming, n)
  <2>1. Drops(buf' \o replies, buf \o replies, n)
    BY <1>2, <1>3, <1>6, ReadEffect
  <2> QED BY <2>1 DEF Incoming
<1>8. Kept
  BY DEF Inv, Followed, Cut
<1>9. Typed'
  <2>1. buf' \in Seq(Piece)
    BY <1>6 DEF Drops
  <2> QED BY <1>1, <1>2, <2>1 DEF Typed, statics, server, Places, Turn
<1>10. Socketed'
  BY <1>1, SocketKept DEF Inv
<1>11. Flagged'
  BY <1>1 DEF Inv, Flagged, statics, Before, Turn, Reading, Filling, Recognised
<1>12. Whole'
  <2>1. WholeStream(Incoming, inside, closed) /\ Incoming \in Seq(Piece)
    BY <1>2, <1>8, IncomingSeq DEF Kept, Whole
  <2>2. WholeStream(Incoming', FALSE, closed)
    BY <1>5, <1>7, <2>1, WholeNext
  <2> QED BY <2>2 DEF Whole, server
<1>13. ASSUME InStep PROVE Flow'
  <2>1. UNCHANGED <<closed, requests, subscribed, sent, cmd>> /\ Own' = Own /\ UnOwn' = UnOwn
    BY <1>1 DEF statics, server, Own, UnOwn
  <2>2. Flow
    BY <1>8, <1>13 DEF Kept
  <2>3. ~Unanswered
    BY <1>2, <1>5, IncomingSeq DEF Unanswered
  <2>4. ASSUME caller = "main"
        PROVE  /\ Listening' /\ got'.to = Own
               /\ ~(got'.kind = "simple" /\ Recognised(cmd.what)) /\ ~sent => Quiet'
    <3>1. Answered
      BY <2>2, <2>3, <2>4 DEF Flow, Reading
    <3>2. /\ Incoming[n].to = Own
          /\ Listening'
          /\ ~(Incoming[n].kind = "simple" /\ Recognised(cmd.what)) /\ ~sent => Quiet'
      BY <1>2, <1>5, <1>7, <2>1, <3>1, AnsweredRead
    <3> QED BY <1>1, <1>5, <3>2
  <2>5. ASSUME caller # "main"
        PROVE  Listening' /\ (IsUnsubscribeReply(got'.kind) => got'.to = UnOwn /\ Over')
    <3>1. Listening
      BY <2>2, <2>5 DEF Flow, Reading
    <3>2. /\ Listening'
          /\ Incoming[n].kind \in {"integer", "error"} => Incoming[n].to = UnOwn /\ Over'
      BY <1>2, <1>5, <1>7, <2>1, <3>1, ListeningRead
    <3> QED BY <1>1, <1>5, <3>2 DEF IsUnsubscribeReply
  <2> QED BY <1>1, <2>1, <2>4, <2>5 DEF Flow, Before, Reading, Filling
<1>14. Kept'
  BY <1>1, <1>12, <1>13 DEF Kept, InStep
<1>15. Followed'
  BY <1>1, <1>14 DEF Followed, Before
<1> QED BY <1>9, <1>10, <1>11, <1>15 DEF Inv

LEMMA RenderBufferedInv ==
  ASSUME Inv, RenderBuffered, Keeps
  PROVE  Inv'
<1> DEFINE ends == {j \in DOMAIN buf : buf[j].last}
           n == Min(ends)
<1>1. pc = "render" /\ buf # <<>>
  BY DEF RenderBuffered
<1>2. CASE ends = {}
  <2>1. /\ buf' = <<>> /\ inside' = TRUE /\ Goes("render")
        /\ UNCHANGED <<caller, cmd, timedOut, status, got>>
    BY <1>2 DEF RenderBuffered
  <2> QED BY <1>1, <1>2, <2>1, RenderPartInv
<1>3. CASE ends # {}
  <2>1. /\ buf' = SubSeq(buf, n + 1, Len(buf)) /\ inside' = FALSE
        /\ got' = [kind |-> buf[n].kind, to |-> buf[n].to]
        /\ Return("OK")
        /\ UNCHANGED <<statics, requests, replies, server>>
    BY <1>3 DEF RenderBuffered
  <2>2. buf \in Seq(Piece) /\ Len(buf) \in Nat /\ DOMAIN buf = 1 .. Len(buf)
    BY EmptyLen DEF Inv, Typed
  <2>3. ends \in SUBSET Nat
    BY <2>2
  <2>4. n \in ends /\ \A y \in ends : n <= y
    BY <1>3, <2>3, MinIsLeast
  <2> HIDE DEF n
  <2>5. n \in 1 .. Len(buf) /\ buf[n].last
    BY <2>2, <2>4
  <2>6. \A j \in 1 .. n - 1 : ~buf[j].last
    BY <2>2, <2>4, <2>5
  <2> QED BY <1>1, <2>1, <2>5, <2>6, RenderWholeInv
<1> QED BY <1>2, <1>3

\* send_pending_unsubscribe.
LEMMA SendPendingInv ==
  ASSUME Inv, Keeps, NEW next, SendPending(next),
         \/ pc = "pending" /\ next = "deadline" /\ caller' = caller
         \/ pc = "leave" /\ next = "render" /\ caller' = "leave"
  PROVE  Inv'
<1>1. /\ interrupted /\ ~sent /\ requests' = Append(requests, UnReq)
      /\ sent' /\ ~late' /\ sent' \in BOOLEAN /\ late' \in BOOLEAN /\ pc' = next
      /\ UNCHANGED <<interrupted, active, cmd, status, got, reader, replies, server>>
  BY DEF SendPending, MustSend, UnReq
<1>2. Typed /\ Kept
  BY <1>1 DEF Inv, Followed, Cut
<1>3. requests' \in Seq(Request)
  <2>1. UnReq \in Request /\ requests \in Seq(Request)
    BY <1>2 DEF Typed, UnReq, Request
  <2> QED BY <1>1, <2>1, AppendIs
<1>4. Typed'
  BY <1>1, <1>2, <1>3 DEF Typed, reader, server, Places, Turn, Reading, Filling, Callers
<1>5. Socketed'
  BY <1>1, SocketKept DEF Inv
<1>6. Flagged'
  BY <1>1 DEF Inv, Flagged, reader, Before, Turn, Reading, Filling, Recognised
<1>7. /\ Whole' <=> Whole
      /\ InStep' <=> InStep
      /\ Unanswered => Unanswered'
      /\ Answered => Answered'
      /\ Listening => Listening'
  <2>1. Incoming' = Incoming
    BY <1>1 DEF Incoming, reader
  <2>2. UNCHANGED <<closed, subscribed, cmd>>
    BY <1>1 DEF server
  <2>3. (Whole' <=> Whole) /\ (InStep' <=> InStep)
    BY <1>1, <2>1, <2>2 DEF Whole, InStep, reader
  <2> QED BY <1>1, <1>2, <2>1, <2>2, <2>3, UnsubscribeSent
<1>8. Kept'
  BY <1>1, <1>2, <1>7 DEF Kept, Flow, Before, Reading, Filling
<1>9. Followed'
  BY <1>1, <1>8 DEF Followed, Before
<1> QED BY <1>4, <1>5, <1>6, <1>9 DEF Inv

\* main has its reply.
LEMMA RepliedInv ==
  ASSUME Inv, Replied, Keeps
  PROVE  Inv'
<1>1. /\ pc = "returned" /\ caller = "main" /\ pc' = IF EntersMode THEN "loop" ELSE "after"
      /\ status' = IF EntersMode THEN "OK" ELSE status
      /\ UNCHANGED <<statics, cmd, reader, requests, replies, server>> /\ UNCHANGED <<caller, got>>
  BY DEF Replied, Goes
<1>2. /\ pc \in Turn /\ pc' \in Turn /\ caller' \in Callers
  BY <1>1 DEF Turn, Callers
<1>3. /\ Typed' /\ Socketed'
      /\ Whole' <=> Whole
      /\ Quiet' <=> Quiet
      /\ Over' <=> Over
      /\ Listening' <=> Listening
      /\ Cut' <=> Cut
      /\ InStep' <=> InStep
  BY <1>1, <1>2, GoesOn
<1>4. active = Recognised(cmd.what) /\ (sent => active /\ interrupted)
  BY <1>1, <1>2 DEF Inv, Flagged
<1>5. Flagged'
  BY <1>1, <1>4 DEF Inv, Flagged, EntersMode, statics, reader, Before, Turn, Reading, Filling, Recognised
<1>6. CASE EntersMode /\ status = "OK"
  <2>1. Kept
    BY <1>1, <1>6 DEF Inv, Followed
  <2>2. Kept'
    BY <1>1, <1>3, <1>6, <2>1 DEF Kept, Flow, Before, Reading, Filling
  <2>3. Followed'
    BY <1>1, <1>6, <2>2 DEF Followed, Before
  <2> QED BY <1>3, <1>5, <2>3 DEF Inv
<1>7. CASE EntersMode /\ status = "INTERRUPTED"
  <2>1. Cut
    BY <1>1, <1>7 DEF Inv, Followed
  <2>2. Followed'
    BY <1>1, <1>3, <1>7, <2>1 DEF Followed, Before
  <2> QED BY <1>3, <1>5, <2>2 DEF Inv
<1>8. CASE ~EntersMode /\ status = "OK"
  <2>1. Kept
    BY <1>1, <1>8 DEF Inv, Followed
  <2>2. ~(got.kind = "simple" /\ Recognised(cmd.what)) /\ ~sent
    BY <1>4, <1>8 DEF EntersMode
  <2>3. InStep => Quiet
    BY <1>1, <1>8, <2>1, <2>2 DEF Kept, Flow
  <2>4. Kept'
    BY <1>1, <1>3, <1>8, <2>1, <2>3 DEF Kept, Flow, Over, Before, Reading, Filling
  <2>5. Followed'
    BY <1>1, <1>8, <2>4 DEF Followed, Before
  <2> QED BY <1>3, <1>5, <2>5 DEF Inv
<1>9. CASE ~EntersMode /\ status # "OK"
  <2>1. Followed'
    BY <1>1, <1>9 DEF Followed, Before
  <2> QED BY <1>3, <1>5, <2>1 DEF Inv
<1> QED BY <1>6, <1>7, <1>8, <1>9 DEF EntersMode

\* run_subscription goes on.
LEMMA ModeInv ==
  ASSUME Inv, Keeps, Await \/ LoopEnds \/ LoopRendered \/ LeaveNeedsNoSend \/ LeaveRendered
  PROVE  Inv'
<1>1. /\ pc \in {"loop", "leave", "returned"} /\ pc' \in {"render", "loop", "leave", "after"}
      /\ UNCHANGED <<statics, cmd, reader, requests, replies, server>> /\ UNCHANGED <<status, got>>
      /\ caller' \in {caller, "loop", "leave"}
  BY DEF Await, LoopEnds, LoopRendered, LeaveNeedsNoSend, LeaveRendered, Step, Goes
<1>2. /\ pc \in Turn /\ pc' \in Turn /\ caller' \in Callers
  BY <1>1 DEF Turn, Reading, Callers, Inv, Typed
<1>3. /\ Typed' /\ Socketed'
      /\ Whole' <=> Whole
      /\ Quiet' <=> Quiet
      /\ Over' <=> Over
      /\ Listening' <=> Listening
      /\ Cut' <=> Cut
      /\ InStep' <=> InStep
  BY <1>1, <1>2, GoesOn
<1>4. Flagged'
  <2>1. CASE Await \/ LoopEnds \/ LeaveNeedsNoSend
    BY <1>1, <2>1 DEF Await, LoopEnds, LeaveNeedsNoSend, Step, Goes,
       Inv, Flagged, statics, reader, Before, Turn, Reading, Filling, Recognised
  <2>2. CASE LoopRendered \/ LeaveRendered
    BY <1>1, <2>2 DEF LoopRendered, LeaveRendered, Step, Goes,
       Inv, Flagged, statics, reader, Before, Turn, Reading, Filling, Recognised
  <2> QED BY <2>1, <2>2
<1>5. CASE Await \/ LoopEnds \/ LeaveNeedsNoSend
  <2>1. /\ pc \in {"loop", "leave"} /\ pc' \in {"render", "leave"} /\ (pc' = "render" => caller' # "main")
    BY <1>5 DEF Await, LoopEnds, LeaveNeedsNoSend, Step, Goes
  <2>2. ASSUME Kept PROVE Kept'
    BY <1>1, <1>3, <2>1, <2>2 DEF Kept, Flow, Before, Reading, Filling
  <2>3. Kept \/ Cut
    BY <2>1 DEF Inv, Followed
  <2>4. Followed'
    BY <1>3, <2>1, <2>2, <2>3 DEF Followed, Before
  <2> QED BY <1>3, <1>4, <2>4 DEF Inv
<1>6. CASE (LoopRendered \/ LeaveRendered) /\ status # "OK"
  <2>1. pc' = "after" /\ status' # "OK"
    BY <1>1, <1>6 DEF LoopRendered, LeaveRendered, Step, Goes
  <2>2. Followed'
    BY <2>1 DEF Followed, Before
  <2> QED BY <1>3, <1>4, <2>2 DEF Inv
<1>7. CASE (LoopRendered \/ LeaveRendered) /\ status = "OK"
  <2>1. /\ pc = "returned" /\ caller' = caller /\ caller \in {"loop", "leave"}
        /\ pc' \in {"loop", "render", "after"}
        /\ pc' = "after" => caller = "leave" /\ IsUnsubscribeReply(got.kind)
    BY <1>7 DEF LoopRendered, LeaveRendered, Step, Goes
  <2>2. Kept
    BY <1>7, <2>1 DEF Inv, Followed
  <2>3. Kept'
    BY <1>1, <1>3, <1>7, <2>1, <2>2 DEF Kept, Flow, Before, Reading, Filling
  <2>4. Followed'
    BY <2>1, <2>3 DEF Followed, Before
  <2> QED BY <1>3, <1>4, <2>4 DEF Inv
<1> QED BY <1>5, <1>6, <1>7

\* run_subscription fails.
LEMMA ModeFailsInv ==
  ASSUME Inv, Keeps, AwaitError \/ LeaveSendFails
  PROVE  Inv'
<1>1. /\ pc \in {"loop", "leave"} /\ pc' = "after" /\ status' = "IO_ERROR"
      /\ UNCHANGED <<statics, cmd, reader, requests, replies, server>> /\ UNCHANGED caller
  BY DEF AwaitError, LeaveSendFails, Goes
<1>2. /\ pc \in Turn /\ pc' \in Turn /\ caller' \in Callers
  BY <1>1 DEF Turn, Inv, Typed
<1>3. Typed' /\ Socketed'
  BY <1>1, <1>2, GoesOn
<1>4. Flagged'
  BY <1>1 DEF Inv, Flagged, statics, reader, Before, Turn, Reading, Filling, Recognised
<1>5. Followed'
  BY <1>1 DEF Followed, Before
<1> QED BY <1>3, <1>4, <1>5 DEF Inv

LEMMA AfterInv ==
  ASSUME Inv, After, Keeps
  PROVE  Inv'
<1>1. /\ pc = "after" /\ pc' = IF status = "OK" THEN "prompt" ELSE "exit"
      /\ ~sent' /\ interrupted' = FALSE /\ active' = FALSE /\ sent' = FALSE /\ late' = FALSE
      /\ cmd' = [cmd EXCEPT !.stray = @ \/ (sent /\ Remains(cmd.what))] /\ caller' = "main"
      /\ UNCHANGED <<status, reader, requests, replies, server>>
  BY DEF After
<1> DEFINE stray == cmd.stray \/ (sent /\ Remains(cmd.what))
<1>0. /\ cmd' \in [no : Nat, what : Whats, stray : BOOLEAN]
      /\ cmd'.what = cmd.what /\ (cmd'.stray <=> stray)
  <2>1. cmd \in [no : Nat, what : Whats, stray : BOOLEAN]
    BY DEF Inv, Typed
  <2>2. stray \in BOOLEAN
    BY Zenon
  <2> HIDE DEF stray
  <2>3. cmd' = [cmd EXCEPT !.stray = stray]
    BY <1>1 DEF stray
  <2> QED BY <2>1, <2>2, <2>3
<1>2. Typed'
  <2>1. interrupted' \in BOOLEAN /\ active' \in BOOLEAN /\ sent' \in BOOLEAN /\ late' \in BOOLEAN
    BY <1>1
  <2> QED BY <1>0, <1>1, <2>1 DEF Inv, Typed, reader, server, Places, Before, Callers
<1>3. Socketed'
  BY <1>1, SocketKept DEF Inv
<1>4. Flagged'
  BY <1>1 DEF Flagged, Before, Turn, Reading, Filling
<1>5. CASE status # "OK"
  <2>1. Followed'
    BY <1>1, <1>5 DEF Followed, Before
  <2> QED BY <1>2, <1>3, <1>4, <2>1 DEF Inv
<1>6. CASE status = "OK"
  <2>1. Kept
    BY <1>1, <1>6 DEF Inv, Followed
  <2>2. Incoming' = Incoming /\ (Whole' <=> Whole)
    BY <1>1 DEF Incoming, Whole, reader, server
  <2>3. ASSUME InStep' PROVE Quiet'
    <3>1. InStep /\ ~(sent /\ Remains(cmd.what))
      BY <1>0, <2>3 DEF InStep
    <3>2. Quiet
      BY <1>1, <1>6, <2>1, <3>1 DEF Kept, Flow, Over
    <3> QED BY <1>1, <2>2, <3>2 DEF Quiet, server
  <2>4. Kept'
    BY <1>1, <1>6, <2>1, <2>2, <2>3 DEF Kept, Flow, Before, Reading, Filling
  <2>5. Followed'
    BY <1>1, <1>6, <2>4 DEF Followed, Before
  <2> QED BY <1>2, <1>3, <1>4, <2>5 DEF Inv
<1> QED BY <1>5, <1>6

-----------------------------------------------------------------------------
(* The theorems.                                                           *)

LEMMA InitInv ==
  ASSUME Init
  PROVE  Inv
<1>1. /\ pc = "resolve" /\ caller = "main" /\ cmd = [no |-> 0, what |-> "plain", stray |-> FALSE]
      /\ buf = <<>> /\ replies = <<>> /\ requests = <<>> /\ ~inside /\ ~closed /\ subscribed = {} /\ ~sent
      /\ fd = 0 /\ open = {}
  BY DEF Init
<1>2. Typed
  <2>1. cmd \in [no : Nat, what : Whats, stray : BOOLEAN] /\ cmd.what = "plain"
    BY <1>1 DEF Whats
  <2>2. <<>> \in Seq(Piece) /\ <<>> \in Seq(Request)
    OBVIOUS
  <2> QED BY <1>1, <2>1, <2>2 DEF Typed, Init, Places, Before, Callers
<1>3. Socketed /\ Flagged
  BY <1>1 DEF Socketed, Flagged, Before, Turn, Reading, Filling
<1>4. Incoming = <<>>
  BY <1>1 DEF Incoming
<1>5. Whole /\ Quiet
  <2>1. Len(<<>>) = 0
    OBVIOUS
  <2> QED BY <1>1, <1>4, <2>1 DEF Whole, WholeStream, Quiet
<1>6. Kept
  BY <1>1, <1>5 DEF Kept, Flow, Before, Reading, Filling
<1>7. Followed
  BY <1>1, <1>6 DEF Followed, Before
<1> QED BY <1>2, <1>3, <1>7 DEF Inv

LEMMA WorkInv ==
  ASSUME Inv, Work, Keeps
  PROVE  Inv'
<1>1. CASE SendCommand
  BY <1>1, SendCommandInv
<1>2. CASE RenderBuffered
  BY <1>2, RenderBufferedInv
<1>3. CASE FillStart \/ FillNeedsNoSend \/ FillInTime \/ PollReady \/ PollTimeout
  BY <1>3, FillInv
<1>4. CASE FillSends
  BY <1>4, SendPendingInv DEF FillSends
<1>5. CASE FillTimesOut \/ RecvClosed
  BY <1>5, GivingUpInv
<1>6. CASE \E n \in 1 .. Len(replies) : Recv(n)
  BY <1>6, RecvInv
<1>7. CASE Replied
  BY <1>7, RepliedInv
<1>8. CASE Await \/ LoopEnds \/ LoopRendered \/ LeaveNeedsNoSend \/ LeaveRendered
  BY <1>8, ModeInv
<1>9. CASE LeaveSends
  BY <1>9, SendPendingInv DEF LeaveSends
<1>10. CASE After
  BY <1>10, AfterInv
<1> QED BY <1>1, <1>2, <1>3, <1>4, <1>5, <1>6, <1>7, <1>8, <1>9, <1>10 DEF Work

LEMMA NextInv ==
  ASSUME Inv, [Next]_vars
  PROVE  Inv'
<1>1. CASE Connecting
  BY <1>1, ConnectingInv
<1>2. CASE Work /\ Keeps
  BY <1>2, WorkInv
<1>3. CASE User /\ Keeps
  BY <1>3, EndsInv, TypeInv DEF User, Exit
<1>4. CASE Failures /\ Keeps
  <2>1. CASE SendFails
    BY <1>4, <2>1, EndsInv DEF SendFails
  <2>2. CASE RenderFails \/ FillSendFails \/ PollError \/ RecvError
    BY <1>4, <2>2, GivingUpInv
  <2>3. CASE AwaitError \/ LeaveSendFails
    BY <1>4, <2>3, ModeFailsInv
  <2> QED BY <1>4, <2>1, <2>2, <2>3 DEF Failures
<1>5. CASE DeadlinePasses /\ Keeps
  BY <1>5, DeadlineInv
<1>6. CASE World /\ Keeps
  BY <1>6, CtrlCInv, ServerAnswersInv, ServerPublishesInv, ServerClosesInv DEF World
<1>7. CASE UNCHANGED vars
  <2>1. /\ UNCHANGED <<statics, pc, caller, cmd, status, got, timedOut, reader>>
        /\ UNCHANGED <<requests, replies, server>> /\ UNCHANGED <<tries, fd, open>>
    BY <1>7 DEF vars, loop
  <2>2. Typed'
    BY <2>1 DEF Inv, Typed, statics, reader, server
  <2>3. Socketed'
    BY <2>1 DEF Inv, Socketed
  <2>4. Flagged'
    BY <2>1 DEF Inv, Flagged, statics, reader, Recognised
  <2>5. Kept => Kept'
    BY <2>1, NothingMoves DEF statics, server
  <2>6. Cut => Cut'
    BY <2>1 DEF Cut, statics, reader
  <2>7. Followed'
    BY <2>1, <2>5, <2>6, FollowedStays DEF Inv
  <2> QED BY <2>2, <2>3, <2>4, <2>7 DEF Inv
<1> QED BY <1>1, <1>2, <1>3, <1>4, <1>5, <1>6, <1>7 DEF Next

\* The inductive invariant: as long as the CLI reads, whole responses follow each
\* other, or the deadline has cut the reading short and nothing is read any more;
\* and what is on its way fits the place of the turn.
THEOREM Invariance == Spec => []Inv
<1>1. Init => Inv
  BY InitInv
<1>2. Inv /\ [Next]_vars => Inv'
  BY NextInv
<1> QED BY <1>1, <1>2, PTL DEF Spec

\* Whenever render_response returns to main with a response, it is the response to
\* the command just sent, and the integer or error that ends run_subscription is
\* the response to its own UNSUBSCRIBE: no message, no late reply and no reply
\* to another request is ever taken for it, in any order of Ctrl+C, data, deadline
\* and loss of the server.  It holds until the server has a subscription that the
\* CLI knows nothing of: one typed in quotes, or one whose UNSUBSCRIBE, already
\* answered, was too long or named another channel.
THEOREM RepliesAreOwn == Spec => []ReplyIsOwn
<1>1. ASSUME Inv PROVE ReplyIsOwn
  <2>1. SUFFICES ASSUME InStep, pc = "returned", status = "OK"
                 PROVE  /\ caller = "main" => got.to = Own
                        /\ caller = "leave" /\ IsUnsubscribeReply(got.kind) => got.to = UnOwn
    BY DEF ReplyIsOwn, Own, UnOwn, IsUnsubscribeReply
  <2>2. Flow
    BY <1>1, <2>1 DEF Inv, Followed, Kept
  <2> QED BY <2>1, <2>2 DEF Flow
<1> QED BY <1>1, Invariance, PTL

\* render_response starts at the beginning of a response, and goes on in the middle
\* of one only when it has read the part before: a response that the deadline cut
\* short is never taken up again in the middle.
THEOREM StaysAligned == Spec => []Aligned
<1>1. ASSUME Inv PROVE Aligned
  <2>1. SUFFICES ASSUME pc = "render", buf # <<>>
                 PROVE  inside = ~buf[1].first
    BY DEF Aligned
  <2>2. Typed /\ Whole
    BY <1>1, <2>1 DEF Inv, Followed, Cut, Kept
  <2>3. buf \in Seq(Piece) /\ replies \in Seq(Piece) /\ inside \in BOOLEAN
    BY <2>2 DEF Typed
  <2>4. Len(buf) \in Nat /\ Len(buf) # 0
    BY <2>1, <2>3, EmptyLen
  <2>5. Incoming[1] = buf[1] /\ Incoming # <<>>
    BY <2>3, <2>4, IncomingIs DEF Incoming
  <2>6. buf[1].first <=> ~inside
    BY <2>2, <2>5 DEF Whole, WholeStream
  <2>7. buf[1].first \in BOOLEAN
    <3>1. buf[1] \in Piece
      BY <2>3, <2>4, ElementOfSeq
    <3> QED BY <3>1 DEF Piece
  <2> QED BY <2>3, <2>6, <2>7, Zenon
<1> QED BY <1>1, Invariance, PTL

\* At the prompt nothing of the last command is left: no request, no byte of a
\* response and no subscription, but for those that the CLI knows nothing of (see
\* RepliesAreOwn).  The socket that main closes is the one open, so that none is
\* open when the CLI has ended.
THEOREM PromptsQuiet == Spec => []PromptIsQuiet
<1>1. ASSUME Inv PROVE PromptIsQuiet
  <2>1. ASSUME InStep, pc = "prompt"
        PROVE  buf = <<>> /\ requests = <<>> /\ replies = <<>> /\ subscribed = {}
    <3>1. Quiet
      BY <1>1, <2>1 DEF Inv, Followed, Kept, Flow, Before
    <3>2. buf \in Seq(Piece) /\ replies \in Seq(Piece)
      BY <1>1 DEF Inv, Typed
    <3>3. Len(buf) = 0 /\ Len(replies) = 0
      BY <3>1, <3>2, IncomingIs DEF Quiet, Incoming
    <3> QED BY <3>1, <3>2, <3>3, EmptyLen DEF Quiet
  <2>2. (pc = "prompt" => open = {fd}) /\ (pc = "exit" => open = {})
    BY <1>1 DEF Inv, Socketed
  <2> QED BY <2>1, <2>2 DEF PromptIsQuiet
<1> QED BY <1>1, Invariance, PTL

=============================================================================
