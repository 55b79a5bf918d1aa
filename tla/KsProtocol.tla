----------------------------- MODULE KsProtocol -----------------------------
(***************************************************************************)
(* src/ks_protocol.c, the request side: ks_parse_line takes a line apart   *)
(* in place.  The buffer is a sequence of characters ending in NUL; the    *)
(* tokens it returns are positions in it, so what one token decodes must   *)
(* never reach what another one still needs.  KsRequest gives it its lines.*)
(***************************************************************************)
EXTENDS KsGrammar, KsLimits, FiniteSets, FiniteSetsExt

CONSTANTS MaxArgs,  \* KS_MAX_ARGS
          Upper     \* toupper

CR  == "\r"
LF  == "\n"
NUL == "NUL"

ASSUME SizesAssumption == MaxRequest \in Nat /\ MaxArgs \in Nat

\* The characters of a line: a NUL would end it.
Characters == DOMAIN Upper

ASSUME UpperAssumption == /\ {CR, LF} \subseteq Characters /\ NUL \notin Characters
                          /\ \A c \in Characters : Upper[c] # NUL

VARIABLES line,         \* the buffer, <<>> before a line has come
          text,         \* the line as it came in (not in the code)
          pc,
          read, write,  \* parse_token's pointers; read is *cursor between tokens
          token,        \* where the token being read starts
          found         \* cmd and argv: where the tokens start

parser == <<line, text, pc, read, write, token, found>>

\* The string that starts at position p.
StringAt(p) ==
  SubSeq(line, p, Min({n \in p .. Len(line) : line[n] = NUL}) - 1)

Idle == /\ line = <<>> /\ text = <<>> /\ pc = "idle"
        /\ read = 1 /\ write = 1 /\ token = 1
        /\ found = <<>>

\* The call, with a line that does not hold a NUL.
Parse(t) == /\ pc = "idle"
            /\ text' = t /\ line' = t \o <<NUL>>
            /\ pc' = "start"
            /\ UNCHANGED <<read, write, token, found>>

Reject == /\ pc' = "rejected" /\ found' = <<>>
          /\ UNCHANGED <<line, text, read, write, token>>

-----------------------------------------------------------------------------
(* ks_parse_line up to the first token.                                    *)

Length == Len(line) - 1

\* trim_crlf: every CR and LF at the end goes.
Trimmed == Max({0} \cup {n \in 1 .. Length : line[n] \notin {CR, LF}})

\* The first position from p on that holds no separator.
SkipSeparators(l, p) == Min({n \in p .. Len(l) : l[n] \notin Separators})

TooLong == Length > MaxRequest + 2 \/ Trimmed > MaxRequest
IsBlank == \A n \in 1 .. Trimmed : line[n] \in Separators

StartRejects == /\ pc = "start"
                /\ TooLong \/ IsBlank
                /\ Reject

Start ==
  /\ pc = "start"
  /\ ~TooLong /\ ~IsBlank
  /\ line' = [n \in DOMAIN line |-> IF n > Trimmed THEN NUL ELSE line[n]]
  /\ read' = SkipSeparators(line', 1)
  /\ pc' = "token"
  /\ UNCHANGED <<text, write, token, found>>

-----------------------------------------------------------------------------
(* parse_token.                                                            *)

OpenQuoted ==
  /\ pc = "token" /\ line[read] = Quote
  /\ read' = read + 1 /\ write' = read + 1 /\ token' = read + 1
  /\ pc' = "quoted"
  /\ UNCHANGED <<line, text, found>>

OpenPlain ==
  /\ pc = "token" /\ line[read] # Quote
  /\ token' = read
  /\ pc' = "plain"
  /\ UNCHANGED <<line, text, read, write, found>>

\* *write++ = *read++, behind a skipped backslash or not.
Copy(r) == /\ line' = [line EXCEPT ![write] = line[r]]
           /\ read' = r + 1 /\ write' = write + 1
           /\ UNCHANGED <<text, pc, token, found>>

CopyChar == /\ pc = "quoted" /\ line[read] \notin {NUL, Quote, Backslash}
            /\ Copy(read)

\* Mutant: anything may follow a backslash, the end of the line too.
MayEscapeAny(c) == TRUE

MayEscape(c) == c \in {Quote, Backslash}

CopyEscaped == /\ pc = "quoted" /\ line[read] = Backslash
               /\ MayEscape(line[read + 1])
               /\ Copy(read + 1)

BadEscape == /\ pc = "quoted" /\ line[read] = Backslash
             /\ ~MayEscape(line[read + 1])
             /\ Reject

QuoteOpen == pc = "quoted" /\ line[read] = NUL /\ Reject

\* Mutant: a token may follow a closing quote at once.
EndsTokenAnyhow(c) == TRUE

EndsToken(c) == c = NUL \/ c \in Separators

CloseQuoted ==
  /\ pc = "quoted" /\ line[read] = Quote
  /\ EndsToken(line[read + 1])
  /\ line' = [line EXCEPT ![write] = NUL]
  /\ read' = SkipSeparators(line', read + 1)
  /\ pc' = "next"
  /\ UNCHANGED <<text, write, token, found>>

TextAfterQuote == /\ pc = "quoted" /\ line[read] = Quote
                  /\ ~EndsToken(line[read + 1])
                  /\ Reject

PlainChar == /\ pc = "plain"
             /\ ~EndsToken(line[read]) /\ line[read] # Quote
             /\ read' = read + 1
             /\ UNCHANGED <<line, text, pc, write, token, found>>

QuoteInPlain == pc = "plain" /\ line[read] = Quote /\ Reject

\* A separator becomes the end of the token; the end of the line is one already.
PlainEnd(l, p) == [l EXCEPT ![p] = NUL]

ClosePlain ==
  /\ pc = "plain" /\ EndsToken(line[read])
  /\ line' = PlainEnd(line, read)
  /\ read' = IF line[read] = NUL THEN read ELSE SkipSeparators(line', read + 1)
  /\ pc' = "next"
  /\ UNCHANGED <<text, write, token, found>>

-----------------------------------------------------------------------------
(* ks_parse_line after a token: cmd first, then argv.                      *)

EmptyCommand == pc = "next" /\ found = <<>> /\ line[token] = NUL /\ Reject

\* Whether one more token than the n found is too many.
TooMany(n) == n > MaxArgs

Kept == ~(found = <<>> /\ line[token] = NUL)

NextToken ==
  /\ pc = "next" /\ Kept
  /\ line[read] # NUL
  /\ ~TooMany(Len(found) + 1)
  /\ found' = Append(found, token)
  /\ pc' = "token"
  /\ UNCHANGED <<line, text, read, write, token>>

TooManyTokens == pc = "next" /\ Kept /\ line[read] # NUL /\ TooMany(Len(found) + 1) /\ Reject

\* The command is normalised to upper case.
Finish ==
  /\ pc = "next" /\ Kept
  /\ line[read] = NUL
  /\ found' = Append(found, token)
  /\ LET cmd == Append(found, token)[1]
     IN  line' = [n \in DOMAIN line |->
                    IF n \in cmd .. cmd + Len(StringAt(cmd)) - 1 THEN Upper[line[n]] ELSE line[n]]
  /\ pc' = "done"
  /\ UNCHANGED <<text, read, write, token>>

Steps == \/ StartRejects \/ Start \/ OpenQuoted \/ OpenPlain
         \/ CopyChar \/ CopyEscaped \/ BadEscape \/ QuoteOpen \/ CloseQuoted \/ TextAfterQuote
         \/ PlainChar \/ QuoteInPlain \/ ClosePlain
         \/ EmptyCommand \/ NextToken \/ TooManyTokens \/ Finish

-----------------------------------------------------------------------------
(* Properties.                                                             *)

\* The parser stays inside the line: it never reads behind the final NUL, which
\* stays, what it writes while it decodes stays behind what it still has to
\* read, and argv has room for its tokens.
InBounds ==
  pc # "idle" =>
    /\ line[Len(line)] = NUL /\ read \in DOMAIN line
    /\ pc = "quoted" => token <= write /\ write <= read
    /\ Len(found) <= MaxArgs + 1 /\ \A n \in DOMAIN found : found[n] \in DOMAIN line

\* The tokens of an accepted request: still whole when the last one is decoded.
Tokens == [n \in DOMAIN found |-> StringAt(found[n])]

Command(t) == [n \in DOMAIN t |-> Upper[t[n]]]

\* The line without the CR and LF at its end.
Request == SubSeq(text, 1, Max({0} \cup {n \in DOMAIN text : text[n] \notin {CR, LF}}))

\* Whether r is a request: it names a command and has no more than MaxArgs
\* arguments.
IsRequest(r) == r # <<>> /\ r[1] # <<>> /\ Len(r) <= MaxArgs + 1

InLimits == Len(Request) <= MaxRequest /\ Len(text) <= MaxRequest + 2

\* The parser says what the grammar says: an accepted line reads as its tokens,
\* with the command in upper case and the arguments unchanged, and a line that
\* reads as a request within the limits is accepted.
ParsesAsGrammar ==
  /\ pc = "done" =>
       /\ InLimits
       /\ \E r \in Readings(Request) : IsRequest(r) /\ Tokens = << Command(r[1]) >> \o Tail(r)
  /\ pc = "rejected" => ~(InLimits /\ \E r \in Readings(Request) : IsRequest(r))

=============================================================================
