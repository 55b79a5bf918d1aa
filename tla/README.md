# Kessel: TLA+ specifications and proofs

Kessel is a single-threaded in-memory key-value store with expiry and a
Pub/Sub broker, written in C, with a command line client. This directory models
both from the source, model-checks them with TLC and proves with TLAPS, for all
values of the constants, the safety of the server and of the client's turn: of
the hash table, the store, the registry, the event loop, the commands, the
parser, the start and the shutdown, the CLI's bookkeeping of replies and its
recognition of subscriptions, and that
the first three implement their abstract specifications. `PROJECT.json` maps
every definition to the lines it models, and lists the hazards at their lines with the properties that would catch them.

## The system

| Component | State | Operations | Talks to |
| --- | --- | --- | --- |
| `ks_ds` (hash table) | slots EMPTY/OCCUPIED/TOMBSTONE, `capacity`, `size`, `occupied` | init, put, get, contains, remove, size, destroy; rebuild inside put | called by `ks_kv`, which also walks the slots itself |
| `ks_ttl` | none (a clock) | now, deadline | called by `ks_kv` |
| `ks_kv` (store) | a table of values with deadlines, the reaper's cursor | set, setex, get, delete, exists, expire, ttl, reap, size | called by `ks_server` |
| `ks_pubsub` | linked list of channels, each with a linked list of client ids; two counters | subscribe, unsubscribe, remove_client, publish, counts | called by `ks_server`; publish calls back into it |
| `ks_server` | client slots with an input buffer and an output queue, fd sets, client ids, metrics, the stop flag | start up; the event loop: poll, accept, read, process, write, close; shut down; every command | everything else in the server |
| `ks_net` | none | listen, accept, recv, send, close | the kernel |
| `ks_protocol` | none | split a line into tokens in place, format responses | called by `ks_server` |
| `ks_config` | the settings | defaults, environment, arguments | called by `main` |
| `main_server` | none | load the settings, run the server | `ks_config`, `ks_server` |
| `kessel-cli` | a socket, a response reader, the flags of a subscription, which its signal handler shares | connect, REPL, subscription mode | the server, the user, SIGINT |
| `ks_log` | a level | print | |

What is hard here:

* **The table.** Linear probing with tombstones is correct only while three
  facts hold together: an EMPTY slot remains, no EMPTY slot cuts a probe
  sequence, and the counters that trigger a rebuild are exact. Each can be
  broken by one call and noticed many calls later. `ks_ds_find` has no bound
  on its loop.
* **Time.** SETEX, EXPIRE and TTL read the clock twice. Expired entries stay in
  the table until something touches them, and the reaper's cursor outlives the
  array it indexes. Seconds arrive signed and are used unsigned.
* **The registry.** It unlinks nodes while it walks, and relies on never listing
  a client twice.
* **The loop.** Everything arrives in pieces: a recv may end in the middle of a
  line or bring several lines, a send may take part of a response, a PUBLISH
  writes into the queues of other clients, and requests may have to wait in the
  input buffer until the output queue drains. Nothing may be lost, repeated,
  split or left waiting, no peer may hold the loop, and descriptors are reused.
* **The protocol.** Requests are decoded in the buffer they arrived in.
  Responses are formatted into buffers whose sizes were chosen by hand.
* **The client.** Replies and messages share one stream, Ctrl+C may come at any
  moment, UNSUBSCRIBE has a deadline, and the CLI recognises SUBSCRIBE with a
  scanner of its own.
* **Start and stop.** Each step of the start may fail and has its own list of
  what to give back; a signal may arrive between any two of them.

There is no persistence and no second thread: crash recovery and data races do
not arise.

## Modules

| Module | What it is |
| --- | --- |
| `KsTable` | what `ks_ds` promises: a map in which every entry has a slot |
| `KsDs`, `KsDsProofs` | `ks_ds.c`, refines `KsTable`; theorems about it |
| `KsKvAbs` | what `ks_kv` promises: a map without the expired keys |
| `KsKv`, `KsKvProofs` | `ks_kv.c` and `ks_ttl.c` on top of `KsTable`, refines `KsKvAbs`; theorems |
| `KsPubsubAbs` | what `ks_pubsub` promises: a set of (channel, client) pairs |
| `KsPubsub`, `KsPubsubProofs` | `ks_pubsub.c`, refines `KsPubsubAbs`; theorems |
| `Kessel`, `KesselProofs` | `handle_command`: every command, over `KsKvAbs` and `KsPubsubAbs`; theorems |
| `KsServer`, `KsServerProofs` | the event loop of `ks_server.c` over the abstract registry; theorems |
| `KsConfig` | `ks_config.c` |
| `KsStartup`, `KsStartupProofs` | `main_server.c` and both ends of `ks_server_run`, starts with `KsConfig`; theorems about both |
| `KsNet` | `ks_net.c`; the theorems about it are in `KsStartupProofs` |
| `KsGrammar` | the reference grammar of requests |
| `KsLimits` | the limit on a request, which the parser and the buffers share |
| `KsProtocol` | the request side of `ks_protocol.c` |
| `KsRequest` | `KsProtocol` and the CLI's scanners of a typed line |
| `KsSizes` | lengths of responses and sizes of buffers |
| `KsProtocolProofs` | theorems about the parser and the CLI's scanners, on any line of `KsRequest`, and about `KsSizes` |
| `KsReply` | the response side of `ks_protocol.c` and the CLI's reader |
| `KsCli`, `KsCliProofs` | connecting, the loop and the subscription mode of `kessel_cli.c`, against a server; theorems |
| `MC*` | constants for TLC |

How they fit together. The refinements chain: `KsKv` uses the table only
through what `KsTable` says, and `Kessel` and `KsServer` use the store and the
registry only as `KsKv` and `KsPubsub` are shown to implement them. `Kessel`
asks what clients see of the commands, `KsServer` how requests and responses
travel through buffers and turns of the loop; the two meet in the queue.
`KsProtocolProofs` shows what both take for granted of replies, that one always
fits a queue below the high-water mark (`ReplyAssumption` of `KsServer`), and
`KsReply` checks the lengths `KsSizes` gives against the formats themselves.
`MessagesAsSubscribed` of `Kessel`, that no message follows the reply to an
UNSUBSCRIBE of the only channel, is how the server in `KsCli` behaves, and `Deliver` of
`KsServer`, that a client which is to be closed gets messages until its queue is
flushed, is what it does after a request that is too long. `KsStartup` takes from
`KsServer` that the loop keeps coming back to the stop flag (`LoopTurns`). The
`*Abs` modules, `KsTable`'s shape and `KsGrammar` are specifications, not
translations.

**KsDs.** `entries`, `capacity`, `size` and `occupied` are the fields of
`ks_ds_t`. Keys are abstract; `Hash` is any function, so collisions are a
choice of the instance. The cached `entry->hash` is `Hash[key]`, so it is not
kept, and comparing hashes before keys is comparing keys. `& (capacity - 1)` is
`%` since capacities are powers of two. `ks_ds_find` is a set of operators: the
distance at which the search stops (`StopDistance`), whether it stopped at the
key (`Found`) and the slot it returns (`FindIndex`). A put that needs a rebuild
is several steps: `PutRebuild`, one `RebuildStep` per slot of the old array,
`RebuildDone`. `calloc` may fail whenever it is called (`PutFails`). `live` is
the set of heap objects the table owns.

**KsKv.** `map` and `pos` are the table as `KsTable` sees it: a put may leave
every entry where it is or move all of them. A command reads the clock at `now`
first and, where the code reads it again, at any later time. `Deadline` is
computed modulo `UintMax + 1`, behind the check of the code.

**KsPubsub.** A linked list is a sequence, grown at the head. The callback of
publish accepts for any set of clients. A `malloc` may fail in any subscribe.

**Kessel.** One action per command, with its error replies; a text given as
seconds is any text, and `Number` says which integer it stands for. `stream` is
all that was queued for a client, `sent` how much of it has left. Two observers:
`asked` is what the successful replies have told all clients of each key, and
`due` the messages a client must get, taken from the replies in its stream. The
store and the registry are the actions of the abstract modules, which are
conjoined with the reply. A reply fits the queue, except perhaps the one to a
PUBLISH, behind the message the publisher has just sent to itself: then the
publisher is closed without it (`PublishCloses`).

**KsServer.** One action per step of the loop; the kernel and the peers choose
the outcomes. Bytes are kept, since the properties are about them: a byte of
input is text, CR, NUL or LF, a byte of output carries its place within its
response. `peer` is an observer: the number of requests a peer is owed and how
far into a response it has read. A command is one step; what it answers is the
subject of `Kessel`, here it has a length only. `process_requests` removes the
lines it has processed when its loop ends; the model removes each at once,
which nothing can see.

**KsConfig, KsStartup.** The loader goes through the four settings of the
environment, then through the arguments, one per step. A text is a string and
`Number` the integer it stands for; `strtoul` is modelled with its wrap of
negative numbers. From `check` on, each step of `ks_server_run` acquires
something or fails with what the code gives back there (`held` and `twice` keep
the account). A signal may arrive anywhere; `signal()` may or may not reset the
handler when it runs, as systems differ, and without a handler the process is
killed.

**KsNet.** Each call is the sequence of its system calls on a kernel of open,
non-blocking and ready descriptors. Each may fail, accept, recv and send may be
interrupted and are repeated then.

**KsProtocol, KsRequest.** `line` is the buffer with its NUL, `read` and `write`
the pointers of `parse_token`, `found` the positions of the tokens. The words
EXIT, SUBSCRIBE and UNSUBSCRIBE, whose case no scanner cares about, are one
character each; everything else is characters. `KsRequest` lets a user type a
line, applies the CLI's scanners and gives the bytes it sends to the parser;
another client may send any line.

**KsReply.** `Formatted` is what the format functions leave in a buffer of a
given capacity, to the byte. The stream is cut anywhere, and the CLI's reader
takes it byte by byte or, inside a bulk string, chunk by chunk.

**KsCli.** The places of `pc` are the lines of `main`, `run_subscription`,
`render_response` and `fill_reader` at which something may happen in between:
a signal, the deadline, data, the end of the stream. A response is a sequence of
pieces so that it may arrive in parts; the bytes are `KsReply`'s. The server
answers in order, whenever it likes. After an UNSUBSCRIBE that is too long it
reads nothing more (`closing` is its `close_after_write`), yet it publishes to the
CLI until its answer is on its way and it closes. `subscribed` is where it has the
CLI in its registry, and `cmd.stray` remembers that this may be a channel the CLI
knows nothing of.

## Runs

| Run | Checks | Bounds |
| --- | --- | --- |
| `ds` | type, `FindTerminates`, `CountsExact`, `Reachable`, `Ownership`, `ImplementsTable` | 5 keys whose home slots collide in the last slot and wrap; 4 slots doubling to 8; 5 keys are the most 8 slots hold, so rebuilds for growth, for tombstones alone and ones refused by a failed `calloc` all occur. The doubling that `SizeMax` refuses would take a sixth key and is not reached; in the code it is out of reach too, since `calloc` has failed long before |
| `kv` | the cursor's range, `ImplementsKv`, `ReaperDrains` | 2 keys in 2 slots (the second one rehashes and doubles), 2 values, times 0..2, deadlines up to 3 = `UintMax`: a TTL of 1 "second" (2 ms) set at time 0 ends at 2, at time 2 it overflows; reaper budget 1 |
| `pubsub` | lists, counters, `ImplementsPubsub` | 2 channels, 3 clients: heads, middles and tails of both lists |
| `framing` | buffers, `NoStrandedRequest`, `ReadSeesNoLine`, `EveryRequestAnswered`, `StreamWellFormed` | 1 connection, requests of at most 1 byte, an input buffer of 3, every text of up to 3 bytes in every split; an output queue of 4 with the mark at 2, as in the code twice the longest response |
| `loop` | streams, slots, ids, ready bits; `LoopTurns`, `DroppedIsClosed`, `StopsOnSignal` | 2 slots, 3 descriptors (one may be reused, the third is beyond the fd sets), 2 connections accepted in all; bytes arriving one by one, messages that overflow a queue |
| `commands` | `StoreIsAsAsked`, `MessagesAsSubscribed`, `RepliesAreTrue` | 2 clients, 1 key, 2 values, 1 channel; 3 commands at times 0..2; seconds -2, 0, 1, 3 (whose deadline overflows at time 2) and one beyond INT64_MAX; messages that fill half and all of a queue of 2, so that a reply may not fit behind the publisher's own |
| `cli` | `ReplyIsOwn`, `Aligned`, `PromptIsQuiet`, `CtrlCLeaves` | 2 commands of every kind, SUBSCRIBEs whose UNSUBSCRIBE is too long or names another channel among them, 2 messages, responses in 2 pieces, up to 2 addresses |
| `cli_messages` | `MessagesAppear`, **violated** | 1 subscription, 1 message |
| `requests` | `InBounds`, `ParsesAsGrammar`, `CliAgreesWithServer` | every line of up to 6 characters typed, of up to 4 with every terminator from others, and lines around `MaxRequest` = 6; one argument at most, so that a second is one too many |
| `replies` | `ShowsWhatWasSent`, `ShowsAll` | every kind of response at every capacity from 0 to 60, and every two behind each other; texts that are empty, hold CRLF, look like a response or take two digits of length |
| `startup` | `ConfigAsGiven`, `GivesBackExactly`, `StopReturns` | up to two options and lists that end too early, five environments, values on both sides of every limit (`ULong` 16, so that -15 wraps to 1), two signals |
| `net` | `NoLeak`, `NeverBlocks` | 3 descriptors, transfers of up to 2 bytes |

All but `cli_messages` pass. The sizes of the buffers enter `KsServer` only
through the relations the small ones keep (the input holds the longest request
and its terminator, the queue two of the longest responses, the mark is half of
it); `KsServerProofs` shows that nothing else matters, and `KsProtocolProofs` that
the real sizes keep what the code needs. `ds`, `pubsub` and
`commands` use symmetry in values, keys, channels or clients that nothing tells
apart; runs with liveness use none. A deadlock is an error in `ds`, `kv`,
`pubsub`, `commands` and `net`; in the others a behaviour ends: the server has
stopped, the CLI has exited, the line is parsed, all is shown.

**Fairness.** `KsServer` assumes weak fairness of the server (one thread that
only ever waits in `select`, which has a timeout of 100 ms) and strong fairness
of `select` returning at all: signals interrupt it now and then, not always.
`KsKv` assumes weak fairness of the reaper, which `ks_server_run` calls on every
turn. `ReaperDrains` asks in addition that puts stop moving entries at some
time: a rehash may move an entry behind the cursor, again and again. `KsCli`
assumes that the CLI is scheduled and that a second passes; its poll has a
timeout. `KsStartup` assumes that the process is scheduled, `KsReply` that it is
and that the stream delivers. Nothing is assumed of peers, servers, users,
signals or failures: a peer may never read, a server may never answer.

## What the code does that its documents do not say

* **Messages appear only after Ctrl+C** (`cli_messages`).
  `wait_for_subscription_data` waits until the reader's buffer holds something,
  but only `fill_reader` fills it, and it is not called there. What arrives
  after the buffer was drained, a message or the end of the connection, is not
  read before Ctrl+C; meanwhile the loop spins, since `poll` reports the data
  at once.
Smaller limits met while modelling; each is in the model and named where a
property makes an exception for it:

* The CLI does not recognise `"SUBSCRIBE"` in quotes, which the server accepts:
  messages then arrive at the prompt (`cmd.stray` and `InStep` in `KsCli`).
* Ctrl+C may leave a subscription behind: `run_subscription` takes any integer or
  error for the end of the subscription. A SUBSCRIBE of the maximal length has an
  UNSUBSCRIBE that is two bytes too long (`"longsub"` in `KsCli`): the server queues
  an error and closes once it is sent, and until then the client is subscribed
  and gets messages behind the error. And for a channel that ends in CR, with a
  blank behind it (`"crsub"`, and `EndsInCR` in `KsRequest`), UNSUBSCRIBE names
  another channel, because it puts CRLF right behind the argument and the server
  trims every CR: the answer is `:0` and the subscription stays. In both cases the
  CLI prompts again, and a message is shown as the reply to the next command.
  `ReplyIsOwn` and `PromptIsQuiet` hold to the end of such a turn and say nothing
  of the time after (`InStep`).
* `CliAgreesWithServer` compares the channel of the UNSUBSCRIBE with the one of
  the SUBSCRIBE and leaves the limit on the former's length aside; what becomes
  of one that is too long is `"longsub"` in `KsCli`.
* `strtoul` takes `--max-clients -18446744073709551615` for 1 (`StrToUL` in
  `KsConfig`); `--port`, which uses `strtol`, refuses every negative number.
* The value of `--host` is looked at by `has_argument` like any other argument:
  `--host --port` hides the port of the environment (`ValueIsOption`). No such
  host can be listened on.

## Proofs

Every safety property of the runs is also a theorem, except for
`ShowsWhatWasSent` (see "Model-checked only"). The constants are arbitrary, within the named
assumptions of the modules; TLC evaluates those on the instances it checks.

| Module | Property of a run | Theorem |
| --- | --- | --- |
| `KsDs` | `TypeOK`, `FindTerminates`, `CountsExact`, `Reachable` | `TypeCorrect`, `SearchesEnd`, `CountersCorrect`, `EntriesReachable` |
| | `Ownership`, `ImplementsTable` | `ObjectsOwned`, `ArrayImplementsTable` |
| `KsKv` | `TypeOK`, `ImplementsKv` | `TypeCorrect`, `StoreImplementsKv` |
| `KsPubsub` | `ListsAreSets`, `CountersExact`, `ImplementsPubsub` | `ListsStaySets`, `CountersStayExact`, `RegistryImplementsPairs` |
| `KsServer` | `TypeOK`, `NoStrandedRequest`, `ReadSeesNoLine` | `TypeCorrect`, `NoneStranded`, `NoLineThrownAway` |
| | `EveryRequestAnswered`, `StreamWellFormed` | `RequestsAnswered`, `StreamsWhole` |
| | `ConnectionsConsistent`, `ReadyBitsAreOwn` | `ConnectionsStayConsistent`, `ReadyBitsStayOwn` |
| `Kessel` | `StoreIsAsAsked`, `RepliesAreTrue`, `MessagesAsSubscribed` | `StoreAsAsked`, `AnswersTrue`, `MessagesDelivered` |
| `KsConfig`, `KsStartup` | `ConfigAsGiven`, `GivesBackExactly` | `ConfigurationAsGiven`, `AllGivenBack` |
| `KsNet` | `NoLeak`, `NeverBlocks` | `DescriptorsKept`, `CallsReturn` |
| `KsRequest` | `InBounds`, `ParsesAsGrammar`, `CliAgreesWithServer` | `StaysInBounds`, `AgreesWithGrammar`, `AgreesWithServer` |
| `KsCli` | `ReplyIsOwn`, `Aligned`, `PromptIsQuiet` | `RepliesAreOwn`, `StaysAligned`, `PromptsQuiet` |

### The table

`KsDsProofs` proves for **every** set of keys and values, every hash function,
every initial capacity of at least 2 and every `SizeMax` that the table's
invariants hold in every reachable state: `TypeCorrect`, `SearchesEnd`,
`CountersCorrect`, `KeysUnique`, `EntriesReachable`, `RebuildCorrect`, and that
a search finds a key exactly when it is stored (`FindCorrect`). The assumptions
are the ones named in `KsDs`: NULL is no key and no value, `Hash` maps keys to
naturals, and the sizes are naturals.

None of these is inductive alone. That a put keeps `Reachable` needs a search
that ends, which needs an EMPTY slot, which follows from the load, which needs
exact counters, which need unique keys, which need `Reachable`. The invariant
`Inv` closes the circle: `TypeOK`, `ArrayInv` (well-formed slots, unique keys,
no cut probe sequence, load at most 70 %), `CountsExact`, and for the rebuild
`RebuildInv` and `RebuildExact`: the new array has no tombstones and as many
entries as the loop has passed, the old array holds each key once and not the
one being put, and `(size + 1) * 10 <= capacity * 7`, so that the put fits. The
last needs the capacity to be at least 2 when it doubles: at 1 it would fail.

The argument runs from the arithmetic of the probe sequence (`Probe` and
`Distance` are inverse), over what a search returns (`FindStops`, `FindSlot`,
`NotFoundAbsent`), what one changed slot does to an array (`StoreKeepsTable`,
`ReplaceKeepsTable`, `RemoveKeepsTable`) and counting, to one lemma per action.

`FullInv` adds to it that every object is owned by one slot of the current array
or by the put in progress (`Owning`), and that a rebuild has doubled the capacity
exactly if the entries alone needed it (`Growing`). `ObjectsOwned` follows from
the first by counting the slots. `ArrayImplementsTable` needs both: the abstract
table (`TableMap`, `TablePos`) is the array the last completed put left, and the
step that ends a rebuild has to be the rehash that `KsTable` allows for this
number of entries.

### The store

`StoreImplementsKv` shows, for all keys, initial capacities, lifetimes, reaper
budgets and widths of the clock, that to a caller the store is the map of the
keys that have not expired (`View`). `TypeOK` is inductive by itself: entries
have distinct slots, and the reaper's cursor stays within the array through every
rehash. The refinement has three parts. What a step of `KsTable` does to `map` it
does to `View`, where a key that has expired is as good as absent. A removal of
expired entries, by a lookup, by the reaper over any stretch of slots or by the
sweep of `ks_kv_size`, leaves `View` alone. And the overflow check of
`ks_ttl_deadline` is exact (`FitsExact`): it passes if and only if the sum fits,
so the wrapped sum is the sum. `ClockAssumption` says that a second has
milliseconds, that the clock is below its limit and that lifetimes, 0 among
them, are within its width.

### The registry

`ListsAreSets` and `CountersExact` rest on each other: the code decrements a
counter once per node it unlinks, which is once per pair only if no list names a
client twice. `Inv` adds for `ks_pubsub_remove_client` that the client is nowhere
behind the walk (`Walked`), so that at its end it is nowhere. With this,
`RegistryImplementsPairs` maps the lists to the pairs without those of the client
that is leaving, and the pending answer to what is removed plus what is still to
remove. That a publish calls every subscriber once is again that lists are sets.

### The event loop

`Inv` of `KsServerProofs` has one part per concern: `Typed` (buffers within their
capacities), `Visited` (what `cur` and `why` are where), `Placed` (a used slot has
a descriptor fit for `select` and an id given out earlier; the queue is a
sequence of whole responses behind what the peer has read), `AllSettled` (a
complete line waits only above the high-water mark, except in the slot being
visited, before its lines have been looked at), `Accounted` (what a peer is owed
is in its buffers), `ConnectionsConsistent` and `Bits` (the bits that `select`
has set are of descriptors that were open then).

The properties are its consequences at certain places of the loop and none is
inductive alone. `NoStrandedRequest`, say, speaks of the top of the loop only; it
needs to be known in the middle of a visit which slot may still have work to do,
and that messages queued by others only raise the mark. `EveryRequestAnswered`
has it that a reply always fits, which follows from the test against the mark
and the assumption on the lengths of replies, which `KsProtocolProofs` justifies; a
client is dropped for its queue only because of messages. The lemmas underneath
count line ends and ends of responses in sequences under the operations the
loop has: append, drop a prefix, cut at the first line end.

### The commands

Three invariants of `KesselProofs`, each on top of the abstract store and
registry. `AskedInv`: the keys that are alive in the store are those the replies
so far say are there, with these values and deadlines, and the store holds
nothing else. It gives `StoreAsAsked` and, for the replies, `AnswersTrue`; the
latter is an action property and speaks of the reply a step queues and of the
state before and after. `StreamInv`: a message in a stream carries the number of
a command already executed, so the messages of the current PUBLISH can be told
from all others when its reply is compared with them. `MessageInv`: a client is
in the registry exactly if the last reply about the channel in its stream says
so, and the messages in the stream are those due, all of them unless the client
is being dropped. The registry alone would not do: the property compares streams
with streams, and the registry is what connects two replies far apart.

It is assumed that NULL is no channel (`NameAssumption`) and that the
largest argument the code accepts is within the width of the clock
(`ClockAssumption`: INT64_MAX and UINT64_MAX).

### Start and shutdown, the network

`ConfigInv` says what the loader has done after each variable and each argument:
the settings are those of the sources read so far, the last argument first, and
variables are skipped exactly if an option overrides them. The defaults are
assumed to be in range (`DefaultsAssumption`). `StartInv` adds what is held at
each place of `ks_server_run` (`HeldAt`), what has been checked by then (`Fit`)
and whose handler a signal has, before, between and after its installation and
its restoration (`Handled`), with any number of signals at any place.

About `KsNet`, in the same module: a descriptor the caller does not have is open only inside the call
that sets it up, and then it is this call's; nothing has moved before the system
call succeeds.

### The parser

`KsProtocolProofs` proves for lines of every length, over any set of characters
and for any limits, that the decoder that works in place says what the grammar
says (`AgreesWithGrammar`) and stays in the line (`StaysInBounds`).
The assumptions are that the limits are naturals (`SizesAssumption`), that lines
are made of characters, among which CR and LF but not NUL are, and that no
character becomes NUL in upper case (`UpperAssumption`, `LinesAssumption`).

The grammar is two recursive functions over positions, `Rests` and `Reads`. That
they obey their equations is the first result (`RestsObey`, `ReadsObey`): a
function that obeys them exists from every position on, by descent over the set
of the positions from which one is missing, and so the one `CHOOSE`s does. From
the equations follows what one token contributes to the readings (`PlainReads`,
`QuotedReads`) and when it leaves none (`PlainBreaks`, `QuotedBreaks`).

The invariant `Inv` says of every place of the parser that from `read` on the
line is as it came (`Unread`), and that the readings of the request are exactly
the tokens found so far, then the one in progress, then the readings of what is
still to be read (`ReadsOn`; inside quotes `Scanned`: what has been decoded
up to `read` is what the quoted text stands for so far, however it goes on).
`Ended` keeps the tokens apart: each string that was found ends before the place
where the decoder may still write, and the command's before all others, so that
neither decoding nor the upper case touches another token. All of it is needed:
that a rejected line has no reading needs the readings of the rest, that an
accepted one has its tokens needs that no later write reached them.

### The two scanners

`AgreesWithServer`, in the same module, compares the CLI's scanner with the
server's parser on every line that can be typed. It assumes in addition that such
a line has its LF at the end, if anywhere, as what `getline` and `el_gets` return
(`LinesAssumption`), and that SUBSCRIBE stands for the word in any case and for
nothing else (`WordAssumption`).

The readings of two texts are compared: of the line, and of the UNSUBSCRIBE built
from a piece of it. What carries one over to the other is `AlikeReads`: where two
texts agree from some position on, up to separators at their ends, the grammar
reads them alike from there. It goes back from the end of the common part; a
token that ends inside it has its counterpart, and none ends in the separators
behind it, since no token has one for its last character
(`NoTokenEndsSeparated`). The rest says exactly what
each scanner returns (`TrimEndIs`, `TrimStartIs`, `ArgumentIs`, `SubscribeIs`)
and so that the channel is the same piece of text in both (`SubscribeReads`,
`UndoReads`). In the other direction (`MissedIsQuoted`), a line whose first word
the server reads as SUBSCRIBE starts with that word or with a quote. `LineInv`
connects the CLI's turn with the parser's: what is parsed is what it has sent, and
what it keeps for Ctrl+C comes from the same line. `EndsInCR`, the exception named
above, is needed: only an argument that does not end in CR comes through the trim
of the server (`CrlfComesOff`).

### The buffers

The same module proves for every limit on requests from 1000 to 999999 bytes
(`LimitAssumption`, which the theorems about the parser do not use; the code's
is 65536), and for arguments of every length
that such a request can hold, that every response fits the buffer it is
formatted in (`FixedRepliesFit`, `CarriedRepliesFit`, `MessagesFit`) and that a
reply then fits the queue of a client below the high-water mark
(`RepliesFitQueue`). It rests on two facts: the framing of a bulk string takes
at most 11 bytes, and an argument takes at least its length in the request, two
bytes if it is empty.

### The client

`KsCliProofs` proves, for any number of commands, messages, addresses and pieces
of a response, that a reply shown is the reply to the command just sent
(`RepliesAreOwn`), that no response is read from its middle (`StaysAligned`), and
that nothing is left over at the prompt (`PromptsQuiet`). The first and the last
hold as long as the server has no subscription the CLI knows nothing of
(`InStep`).

None says enough of what is still on its way. `Inv` does: what the CLI has not
read yet is whole responses one behind the other, continuing where the reader
stands (`Whole`), unless the deadline of UNSUBSCRIBE has cut the reading short
(`Cut`), after which nothing is read from this connection any more. And while
`InStep` holds, each place of the turn has its phase (`Flow`): nothing is on its way
and nothing is subscribed (`Quiet`); a request has not been answered
(`Unanswered`); its reply comes first (`Answered`); or the reply has been read
and there are only messages, and last, if it has been asked for, the reply to
UNSUBSCRIBE (`Listening`). That there is no message behind that reply is what
makes the prompt quiet again; for an UNSUBSCRIBE that takes its channel back it is
`MessagesDelivered` of the server. For one that does not (`Remains`) nothing is
known of what follows its reply (`Over`), and `After`, the end of the turn, ends
`InStep`.

### Model-checked only

* All liveness: `ReaperDrains`, `LoopTurns`, `DroppedIsClosed`, `StopsOnSignal`,
  `CtrlCLeaves`, `ShowsAll`, `StopReturns`, and the violated `MessagesAppear`.
  Fairness and ENABLED are outside what the prover handles.
* `ShowsWhatWasSent`: it compares what formatting leaves in a buffer, byte by
  byte and decimal by decimal, with what reading brings back. The decimals are
  recursive, and `KsReply` uses RECURSIVE operators of the libraries.

## Not modelled

* `ks_log`; the two arguments of the CLI; line editing and history, which
  libedit keeps; the branches for Windows.
* The contents of keys, values and messages outside the protocol's modules, the
  FNV hash itself, NULL arguments, INFO's counters of connections and commands
  as replies, a failing `clock_gettime`, the wrap of 64-bit ids and counters,
  numbers beyond `long` in settings and beyond `long long` in responses.
* A partial write of a command by the CLI: `write_all` repeats until all is
  written, and the model sends the line in one step.
* A socket's address: `ks_listen` and `connect_to_server` succeed or fail.

## Plan

Done: every component but `ks_log` and the CLI's outermost layer is modelled, and
the safety of the server and of the client's turn is proved. What could follow is
`ShowsWhatWasSent` as a theorem, which needs the decimals of `KsReply` without
RECURSIVE operators, and the CLI's two arguments (`parse_args`).
