# Specifications of two

TLA+ specifications of the HTTP/2 server *two* (`src/`), checked with TLC on
small instances and, where marked, proved with TLAPS for every value of the
constants. `PROJECT.json` maps each definition to the lines it models.

## The system

*two* is a single-threaded HTTP/2 server for constrained devices. All memory is
static: lists of sockets, events, write operations and client contexts.

| part | source | what it does |
|---|---|---|
| event loop | `event.c` | one iteration is timers, `select` and its reads, accepts and writes, pending reads, closing |
| linked lists | `ll.h` | macros for the static lists |
| circular buffer | `cbuf.c` | read and write buffer of a socket |
| connection | `http2.c` | preface, SETTINGS, one stream at a time, flow control, GOAWAY, the settings timer |
| frames | `frames.c` | frame headers, and one `event_write` for each frame sent |
| HPACK | `hpack/` | dynamic and static table, integer and Huffman codes, decoder, encoder |
| header list | `header_list.c` | the headers of a request or a response, in one array |
| server | `two.c` | start, stop, resources, the answer to a request |
| Contiki variant | `event.c`, `#ifdef CONTIKI` | the same interface on protothreads and uIP |

The loop reads bytes into a socket's circular buffer and calls the connection's
read callback (`waiting_for_preface`, `waiting_for_settings`, `receiving`). The
handlers write frames with `event_write`: bytes go to the write buffer and an
operation with a callback to the socket's queue. When the bytes of an operation
have been written the callback runs: it starts the settings timer, continues a
response or closes the connection. `event_loop_close` releases sockets that are
closing and have an empty queue.

What makes this hard to test is that completion callbacks, timers, frames of the
peer and errors of the socket meet in any order in a few shared structures
(one stream per connection, one pool of operations for all sockets), and that
calls into full buffers and empty pools return values nobody looks at. The list
is under `hazards` in `PROJECT.json`.

## Modules

| module | models | state |
|---|---|---|
| `CBuf` | `cbuf.c` | the array, the indices and the count, and the locals of the running call |
| `Fifo` | what `cbuf.h` promises | a bounded queue of bytes |
| `Http2` | `http2.c` for one connection, with its socket in `event.c` | context, stream, buffers, queue, timer, place in the iteration |
| `EventLoop` | `event.c` with all sockets, start and stop in `two.c` | the loop's lists, descriptors, sockets, client contexts, place in the iteration |
| `HpackTable` | the dynamic table of `hpack/tables.c` | the character buffer and its positions |
| `HpackEntries` | what HPACK says of a dynamic table | a list of headers and its limits |
| `HpackCode` | the octets of integers, strings and headers in `hpack/` | none: integers and strings are enumerated |
| `HeaderList` | `header_list.c` | none: functions on the array |
| `Hpack` | decoder and encoder of `hpack/`, on representations | none: functions on a table and a block |
| `Resources` | the array of resources of `two.c`, `content_type.c` | the array, and what was registered |
| `Request` | `handle_end_stream` and what it calls, up to the peer | the connection's table, the peer's two tables, frames under way, the resources |
| `Sums` | sums of sequences, for `Http2`, `HpackTable` and `HpackEntries` | none |
| `CBuf_proofs`, `Http2_proofs`, `EventLoop_proofs` | | theorems |
| `HpackTable_proofs` | | theorems on the dynamic table, its refinement included |
| `ServerPools_proofs` | | theorems on the events and the operations of the loop, and on the resources |
| `Http2Answers_proofs`, `Http2Bytes_proofs` | | theorems on closed streams and on bytes, for any peer |
| `Http2Peer_proofs` | | theorems on a peer that follows the protocol |
| `MCCBuf`, `MCHttp2`, `MCEventLoop`, `MCHpackTable`, `MCHpackCode`, `MCRequest` | | instances for TLC |

Operators have the names of the C functions. A definition named
`<name>_<variant>` with the comment "Variant" is a wrong version of `<name>`; it
is used by no specification and serves to see that a property notices the fault.

### CBuf

A call is a first step with its arguments, a step for each turn of the copying
loop and a return. `IsFifo` maps a call that is under way to the queue as it will
be when it returns, so the first step is the step of `Fifo` and the others
stutter.

### Http2

A step is one handler or callback, or one part of the loop's iteration, each with
everything it calls. `phase` is the place in the iteration. Abstractions:

* Bytes are counted in units and frames are records. `length` of a received frame
  is one of the cases the code distinguishes: right, wrong for the type, bad
  padding, over the limit, or within the limit but larger than the read buffer.
* `buf` says what the stream buffer holds: part of a request's header block (or
  one that was cut to fit) or the response.
* Whether `hpack_decode` and `validate_pseudoheaders` accept a block is a choice,
  restricted by `DecodeMayFail`; the length of the response is chosen in `Bodies`.
* A SETTINGS frame is processed one parameter at a time, because an error in the
  middle leaves the earlier ones applied.
* A failed assertion is recorded in `failed` and stops the model, as it stops the
  program (the `release` build and the unit tests define `NDEBUG`). The error of a first
  SETTINGS frame fails one at once, so that its GOAWAY is left out.
* `send_headers_frame` failing in `handle_end_stream` is left out: the three short
  headers of a response always encode.
* `http2_close_gracefully` is public and called nowhere in the repository; it is
  an action that `GracefulClose` enables.

`peer`, `resp`, `granted`, `lost` and `received` are history: what a peer has sent
and been sent, and the kinds of frames that were cut or dropped because the write buffer
had no room. With `Conforming`, `PeerMaySend` limits the peer to what the
protocol allows; `Habits` are things a peer may do, seldom does, and the code
does not expect.

### EventLoop

All sockets at once, one step for each socket visited in each part of the
iteration. The callbacks of `http2.c` are reduced to what they do to the loop:
write, fail to write, stop reading, set or stop the timer, close. The kernel
gives the lowest free descriptor. `event_loop_close` is a walk of the list, one socket
a step, that removes the sockets it releases. `two_server_stop` may happen between any two
steps, since the examples call it from a signal handler (`examples/basic/basic.c`). It
is called once for each server: a second call while the server is closing does nothing
more, and one after its socket was released is outside of what `two.h` is for.

Both builds are in the model. Where a socket's state is asserted (`event_accept`,
`event_write`), the program may end, as with assertions, or go on, as with `NDEBUG`: a
server that is stopped between the test of its state and the accept then takes a client
while it is closing. An accept that fails loses the connection, unless there was no
descriptor for it, which leaves it waiting. A read callback may handle several frames,
and write for each of them.

### HpackTable

The buffer cell by cell: entries are `0 name 0 value 0 ...` with shared zeros and
positions modulo the current size. `stuck` records a loop of evictions that would
not end. Static-table hits never reach this code. The overhead of an entry (32)
is a constant, small in the instances so that the buffer wraps.

### HpackCode

Functions from integers, strings and headers to octets and back, with the limits
and the tables of the code: all symbols of the Huffman code, and `FRAME_MAX_SIZE`,
`HPACK_MAXIMUM_INTEGER` and the lengths of names and values as constants. A decoder
gets the octets in the buffer with the ones behind it, and the size of the block,
because the code looks at the octets and checks the size at different places. Integers
are summed in 32 bits, as by the code; a sixth septet, which is shifted by more than the
width and has no defined result, does not occur. Numbers and sequences of bits stand for
the masks and shifts of packing and reading (`encoder.c:24-73`, `decoder.c:76-112`). The
whole Huffman code is there because the decoder finds a symbol by comparing numbers from
its tables, of which a single wrong one would go unnoticed with fewer symbols. The
specification is an enumeration: one behaviour counts through the integers, the
others build strings, and the invariants compare the two directions in every state.

### HeaderList, Hpack, Resources, Request

`HeaderList` has the array with names, values and zeros, so that the cases of a full
array and of a name that is there are those of the code. `Hpack` is the decoder and
the encoder on representations (`[preamble, index, name, value]`): their octets are
the matter of `HpackCode`, and the dynamic table is that of `HpackEntries`, which
`HpackTable` is shown to implement. The static table is searched as a list: its loops
(`tables.c:613`, 678) go one entry beyond the last, which is not modelled. Nor is a
negative result of one header (`encoder.c:431`), as the headers of a response always
encode.

`Request` composes them with `Resources` and a peer. `handle_end_stream` decodes the
block with the table of the connection, checks it, finds the resource, calls its
handler (whose result is given by `Returns`) and encodes the response with the same
table. The peer has a table per direction, as RFC 7541 has it, chooses the
representation of each header, and may change its SETTINGS_HEADER_TABLE_SIZE or send
size updates. Resources are registered at any time, also between two requests.
`list` in a message is history: what the sender meant. A request that is refused
ends the model's connection.

## Runs

| run | instance | distinct states |
|---|---|---|
| `cbuf` | 3 cells, 2 byte values, data and requests longer than the buffer | 11,016 |
| `conforming` | 2 streams, bodies of 0 or 3 units, window 2, write buffer of 10, 7 frames received, 2 at once | 2,032,399 |
| `any` | 17 kinds of frames, good and bad, in any order, write buffer of 3, 3 operations, 5 frames | 3,487,332 |
| `closes` | requests, errors, GOAWAY and silence, bodies of 0 or 2, window and write buffer of 3, 5 frames; fair | 97,254 |
| `loop` | 3 sockets, 7 events, 2 operations, 3 connections, 2 starts of the server | 2,242,179 |
| `live` | 3 sockets, 2 descriptors, 2 connections; fair | 13,349 |
| `table` | buffer of 12 cells, sizes 0, 8, 12, strings that begin others | 31,005 |
| `codec` | integers up to 4200 (limit 4096), strings of up to 3 of 9 symbols with codes of 5 to 30 bits and every single symbol, indices around the ends of all prefixes | 5,020 |
| `request` | 7 kinds of requests, 2 resources, 2 handlers, 3 paths, a second method that begins with GET, table of 12 with the sizes 6 and 13, which the server takes for 12, header list of 23 characters | 106,813 |

* `cbuf`: the three counters agree at each turn of each loop, unread bytes are
  kept, calls return, and the buffer is a queue.
* `conforming`: every answer is HEADERS and then DATA that ends once, its DATA are
  the body of its own request, a stream is closed only after its answer, and windows
  are what the peer granted. The write buffer is large enough for what the frames of
  this run ask for. A smaller one cuts frames (`http2.c:564` below), and nothing is said
  of an answer after that.
* `any`: whatever the peer sends, bytes are accounted for by operations,
  operations by the pool, the wait for the settings by a timer; closing is final; an open
  connection that is no longer read has the callback that closes it in its queue, unless
  the GOAWAY that carries it was lost. Buffers are so small that
  all the cases of full buffers and empty pools occur. The model may stop at a
  failed assertion, so deadlock is not checked.
* `closes`: a connection that gives up is released, unless its GOAWAY was lost; the wait
  for the settings ends; and a whole request is answered whole, or the connection or the
  program ends, unless a window is used up or the HEADERS of an answer were lost. The
  connection's window is used up and HEADERS and GOAWAY are lost in this run, so that
  these exceptions are needed.
* `loop`: sockets, events, operations, descriptors and contexts are neither lost
  nor used twice, although lists are changed while they are walked, accepts fail
  and descriptors are reused; the events suffice, even one for the server and three
  for each client instead of the nine of `EVENT_MAX_EVENTS`. This also holds for a server
  that takes a client while it is closing; the contexts, which outlive the loop, are all free when it
  returns, for the next start.
* `live`: a stopped server is closed, a waiting client is accepted unless descriptors
  run out, which they do here, and a closing socket is released.
* `table`: through wraps, evictions and changes of size the buffer is the list of
  headers that HPACK defines; sizes agree; evictions end; a string that is not the
  beginning of another is found at its newest index.
* `codec`: every integer up to the limit is read as it was written, below every
  preamble, and the length that the decoder recomputes from its value is the number
  of its octets; larger ones are refused in both directions. Strings and headers are
  read as they were written, whatever follows them. A Huffman code with an octet of
  padding too much is refused. So is a header cut off at any octet, if a number that is
  cut ends within four octets of the memory behind the buffer. A longer one may pass 2^32
  and come out small (`decoder.c:42-57` has no limit), and a size update of three octets
  that is cut after the second may be read as one of a smaller size.
* `request`: a request is accepted exactly if it is well formed and fits into the
  header list, and then has the headers that the peer sent, with repeated ones joined;
  the peer reads the status, type and length that belong to its request, although
  the server resizes its table without telling it; a path is served by what was last
  registered for it under GET or, if there is nothing, first under another method that
  begins with GET. The peer indexes static entries only: see `shared_table`.

Bounds are small because the interesting cases need little: a second stream to
meet leftovers of the first, a third socket to have two clients in the lists, one
more descriptor than the lowest to be reused, a buffer of three cells to wrap in
the middle of a copy, a header list that one request fills exactly and another
exceeds by one character, a table that a response's headers fit into at one of its
sizes only. The integers of `codec` include all that the code accepts. `MaxFrames`, `MaxBatch`, `MaxConns`, `MaxStarts`, `MaxQueue`
and `MaxFd` only bound the exploration.

### Fairness

`Http2`: the loop never stops (`WF` of the whole next-state relation); a socket
that can be written to again and again is written to, or fails; the settings timer
expires if it stays set. The peer need not send anything. `EventLoop`: the loop
goes round, `select` is not interrupted every time, and a socket with queued bytes
eventually takes them or fails. A peer that neither reads nor fails would hold a
closing socket for ever; the code has no timer against that.

## Disagreements between the code and its comments

Three have a run that shows them (`findings` in `PROJECT.json`):

* `late_timer`: the settings timer expires on a closing socket and writes to it.
* `prefix`: a header that is a prefix of one in the table is encoded as that one.
* `shared_table`: requests are decoded and responses encoded with one table, so that
  after a response the indices of a peer that adds headers to its own table name
  other headers.

Others were met while modelling. The model has the code's behaviour, and the
passing runs stay clear of them by the frames and habits they allow:

* `http2.c:639`: a WINDOW_UPDATE before the end of a request sends the request's own
  bytes as DATA before any HEADERS, against 758-759.
* `http2.c:182`: with a full write buffer the GOAWAY of `http2_error` is dropped, with
  the callback that would close the connection ("send goaway and close the
  connection", 177).
* `http2.c:629`: a larger connection window does not resume a response ("as much data
  as flow control allows", 68).
* `http2.c:172`, `151`: `flags &= GOAWAY_SENT` never sets the flag, so the branch
  at 417 ("if sent goaway, close connection immediately") is dead.
* `http2.c:277`: an error in `update_settings` is returned as 0, and
  `waiting_for_settings` calls `event_read` on a stopped socket, against the
  assertion at `event.c:676`.
* `http2.c:834`: opening a stream ("reset stream flags", 833) leaves
  `WAITING_TRAILERS` set.
* `http2.c:976`: after a RST_STREAM ("close the stream", 975) the completion
  callback of a queued frame still continues the answer.
* `http2.c:564`: "limit size to write buffer" (563) does not count the 9 bytes of
  the frame header.
* `http2.c:934`: a CONTINUATION of another stream is accepted, against 1145-1147.
* `http2.c:636`: a WINDOW_UPDATE for an earlier stream enlarges the current one.
* `http2.c:1007`: a wrong preface is not answered with a PROTOCOL_ERROR, against
  985-987.
* `event.c:887`: "update max fds value" (886) lowers `nfds` when a descriptor is
  reused, and the poll of that iteration ends early. `SelectSeesAll` says that
  `select` itself is not affected.
* `event.c:307`: a signal handler that stops the server between the test at 306
  and the accept makes the assertion at 862 fail or, without assertions, the closing
  server accept a client.
* `http2.c:269`: the peer's SETTINGS_HEADER_TABLE_SIZE, which is about responses, also
  limits the table for requests: a peer that lowers it and uses a larger table for its
  own requests has its size updates refused. The server sends none itself.
* `header_list.c:44`: a stored name that begins the one looked for is taken for it, so
  `accept` for `accept-encoding`, and values are looked at like names.
* `header_list.c:204-238`: the room that `header_list_set` asks for is more than it
  needs, and the difference is unsigned. The server calls it with new names only.
* `hpack/decoder.c:478`: an integer that is not in its shortest form is read, and the
  decoder then moves on by the length of the shortest form.
* `hpack/decoder.c:612`: the EOS code is looked for at every bit, and in strings that
  are not in the Huffman code.
* `hpack/decoder.c`, literal with incremental indexing: a header that is larger than
  the table is an error, where RFC 7541 (4.4) empties the table.
* `two.c:211`: a path that does not fit into `path` is cut, and the request answered as
  if it had asked for the beginning.
* `two.c:153`: any method that begins with `GET` is taken for it, but 310-311 compare
  the whole: "If it does, replaces the resource" (312) is not true of such a method, whose
  second registration is put behind the first and not found.
* `http2.c:507`: a comma in `:path` is taken for that of a repeated header.

## Proofs

| theorem | statement |
|---|---|
| `CBuf_proofs!Indices` | `Spec => [](TypeOK /\ IndicesAgree)` |
| `CBuf_proofs!PushKeepsUnread` | `Spec => UnreadKept` |
| `CBuf_proofs!CBufIsFifo` | `Spec => IsFifo` |
| `Http2_proofs!TypeCorrect` | `Spec => []TypeOK` |
| `Http2_proofs!PoolAndSlots` | `Spec => [](PoolConserved /\ ReleasedClean)` |
| `Http2_proofs!SettingsAreTimed` | `Spec => []SettingsTimed` |
| `Http2_proofs!ReadingIsOpen` | `Spec => []ReadsWhileOpen` |
| `Http2_proofs!ClosingStays` | `Spec => ClosingIsFinal` |
| `Http2_proofs!CloserStays` | `Spec => []CloserQueued` |
| `Http2Bytes_proofs!BytesAccountedThm` | `Spec => []BytesAccounted` |
| `Http2Answers_proofs!ClosedAfterAnswerThm` | `Spec => [](Undisturbed => ClosedAfterAnswer)` |
| `Http2Peer_proofs!WindowMatchesGrantThm` | for `Conforming`: `Spec /\ []GrantsInRange => [](AssertionsHold => WindowMatchesGrant)` |
| `Http2Peer_proofs!AnswersInOrderThm` | for `Conforming` and no `Habits`: `Spec /\ [](NothingLost /\ NoReset) => [](AssertionsHold /\ state = "READY" => AnswersInOrder /\ ClosedAfterAnswer)` |
| `EventLoop_proofs!SocketsConservedThm` | `Spec => []SocketsConserved` |
| `EventLoop_proofs!DescriptorsMatchThm` | `Spec => []DescriptorsMatch` |
| `EventLoop_proofs!SelectSeesAllThm` | `Spec => []SelectSeesAll` |
| `EventLoop_proofs!ContextsConservedThm` | `Spec => []ContextsConserved` |
| `ServerPools_proofs!PoolsConservedThm` | `Spec => []PoolsConserved` |
| `ServerPools_proofs!EventsSufficeThm` | for `MaxEvents >= 3 * MaxClients + 1`: `Spec => []EventsSuffice` |
| `HpackTable_proofs!BufferIsEntries` | `Spec => IsEntries` |
| `HpackTable_proofs!SizesAlwaysAgree` | `Spec => []SizesAgree` |
| `HpackTable_proofs!EvictionAlwaysEnds` | `Spec => []EvictionEnds` |
| `HpackTable_proofs!AlwaysFindsNewest` | `Spec => []FindsNewest` |
| `HpackTable_proofs!CounterSuffices` | for 32 octets beside the characters of a header, at most 4096 in a table and no empty name: `Spec => [](2 * table.n_entries <= UINT8_MAX)` |
| `ServerPools_proofs!FindsLastRegistered` | `RSpec => []LastRegistered` |
| `ServerPools_proofs!RegistersOnce` | `RSpec => []ResourcesDistinct` |

They hold for every size of buffers and pools, every set of frames and every
bound, under the `ASSUME`s of `CBuf`, `Http2`, `EventLoop`, `HpackTable` and
`Resources`: sizes are positive, a response fits into the stream buffer, stream
identifiers are positive; a table has at most 32767 characters, since the distances in it are returned as `int16_t`
(`hpack/tables.c:85`, 126), an entry counts for more than its two zeros beside its
characters, and its strings have no zeros inside and are, by the buffers that they are
decoded into, short enough for 16 bits to hold the size of an entry. What a theorem assumes beyond that is in its statement.

*CBuf.* The inductive invariant is the type invariant and `IndicesAgree` with what
is known of the locals of a peek: its own index and count stand to `head` as
`tail` and `len` do. With it the piece copied by a turn is contiguous, inside the
array, and outside the unread cells for a push. For the refinement each turn is
shown to leave `Content` and `Moved` as they are, cell by cell: the lemmas about
`Cell` reduce the sums modulo `MaxLen` to two cases.

*Http2.* None of the invariants is inductive alone. `IInv` joins the types, with
`PoolConserved` (the type of `in_use` depends on it), `SettingsTimed`,
`ReadsWhileOpen` and `Control`, which relates the place in the iteration to the
rest: a slot is free exactly when its socket is closed, and is then clean; the
handler that runs is the read callback of the socket; the context is CLOSED
exactly when its socket is not connected; the stream is the last one opened.
There is one lemma per action. `ClosingIsFinal` follows from `IInv` action by action.
`CloserQueued` is inductive together with it. The steps are sorted into those that leave
the socket and what is read alone and take no closing GOAWAY away (`Leaves`), and those
after which the connection is read, is closing or has its closing GOAWAY (`Settles`): a
write puts its operation behind the others, and an operation only leaves the queue when
its callback runs, which for this one closes the socket.

*Http2, answers.* The properties below are about few things that a handler can do, and
there are many handlers. `Classified` therefore first sorts the steps of all handlers
and timers into the kinds of `Class` (say something about the connection, end, reset a
stream, enlarge a window, open a stream, go on with a request, ...), and each invariant
is shown kind by kind. `BytesAccounted` becomes inductive as `BInv`: outside the
notification of writes, nothing written is left to be notified. `KInv` says how far a
stream is: its request is being received, and not answered, or its response is in
the buffer, and its answer has ended exactly if nothing is left there. `Undisturbed`
excludes what makes the code lose this: a frame cut or dropped in a full write buffer
(`http2.c:182`, `564`), an answer out of order, and the flag of trailers (`http2.c:834`).

*Http2 with a peer.* For windows `OInv` says that no frame under way names a stream
before the one in hand, so that each update meets its own stream; `GrantsInRange` that
the peer does not overrun a 32-bit window, as the protocol demands. For answers `JInv`
joins `Orderly` (the callbacks in the queue are of the stream in hand; a stream whose
request is incomplete has none; no new request is under way before the answer ended),
`Followed` (the frames under way take the peer from where the server believes it to be
to where it is) and `Opened`. The hypotheses are those without which the code does not
do it: a lost frame or a reset leaves a callback that goes on with another
stream (`http2.c:976`), and the habits are those of `http2.c:639`, `834` and `976`. It
is about connections that are `READY`: `http2_close_gracefully` and a GOAWAY clear the
flags of the request, and DATA that come after that are answered as if they ended it.
That a stream is closed only after its answer needs no `Undisturbed` here, since
`Orderly` implies it.

*EventLoop.* `IInv` says that the two lists of sockets are disjoint, complete and without
repetition, that descriptors and contexts have one owner, and what holds at each place of
the iteration (`AtPlace`): in the walk of `event_loop_close` the rest to visit is the
end of the list that it changes; `nfds` is above all descriptors when `select` is
reached, though not between an accept and the walk. `PInv` adds the pools: `Counted`
counts events as pairs of a socket and a type, operations as pairs of a socket and a
place in its queue; `Fit` and `Unused` say which of them a socket may have: one that
is not in use none, the server only connections. So there are at
most one and three for each client (`Entitled`), which `EVENT_MAX_EVENTS`, three for
each of one socket more than clients (`event.h:30`, `two-conf.h:124-127`), provides.

*HpackTable.* The properties speak of what can be read, so that the invariant has to say
where the headers lie. `Holds(t, es)` does: the table `t` is of its type; `first` is where
the oldest of the headers `es` begins, as many cells before `next` as their characters
and zeros need; each header lies at its offset before `next` as a zero, its name, a
zero, its value and a zero; and `actual_size` is the size of `es`, which is within
`max_size`. `IInv` is `Holds(table, Entries)` with `~stuck`. The lemmas follow the code:

* `ReadsAll`: a table that holds `es` reads as `es`. The zeros are counted from `next`
  backwards, two for each header, and the strings have none inside, so that each header
  is found at its offset, also where it wraps.
* `PopHolds`, `PoppedHolds`, `EvictedHolds`: `pop` takes the last header away, and the
  16-bit subtraction does not borrow; so the loops end at the latest with the last
  header, and leave as many headers as fit (`NewestIs`).
* `WriteHolds`, `AddedHolds`: the new header is written into cells that no other
  uses, but for the zero that it shares with the one before. That there is room is
  where `Overhead > 2` comes in: the cells of all headers are fewer than their size.
* `ShrinkHolds`, `ResizedHolds`: the entries are moved to the start of the buffer, into
  cells inside the new size.
* `ComparesAll`, `ComparesOnly`, `FoundIs`: a search compares at the beginning of each
  header and nowhere else, and stops at the newest that it takes for the one it looks
  for. Its counter of strings has 8 bits (`hpack/tables.c:627`), so that this holds for
  at most 127 headers, which is a hypothesis of `FindsNewest`. `CounterSuffices`
  discharges it for the default size of a table, 4096 octets, by `SizeAtLeast`: a header
  with a name has 33 octets.
* `Recognises`: comparing the characters of a string that begins no other is the same
  as being equal to it.

With these every action maps to the action of `HpackEntries`, and the theorems follow
from the invariant.

*Resources.* `LastRegistered` is about the first resource of a path that is found. All are
stored under GET (`ResourceSet`), so that a registration under GET finds the first of its
path and replaces that one, and one under a longer method finds none and comes behind it.
`RInv` joins this with `Agree`: the first resource of each path has what is in effect for
it, and a path that is not there nothing. `ResourcesDistinct` says when there is a second.
`RSpec` is the part of `Request` that registers; its other actions leave its variables
alone.

*Induction over numbers.* `Http2Bytes_proofs`, for sums of sequences, and
`HpackTable_proofs`, for the entries that are removed one after the other, need it. The
library's theorem takes an operator; here it is stated for sets (`Induction`: a set of
naturals with 0 and all successors has all of them), which the provers can instantiate.

Only model-checked:

* Liveness, in `cbuf`, `closes` and `live`.
* `DataFromBody` of `conforming`.
* `HpackCode` and `Request`: what codes, header lists and blocks are read as needs
  inductions over strings and lists. For integers the run is complete all the same: it
  tries every one up to the `HPACK_MAXIMUM_INTEGER` of the default configuration.

`AssertionsHold` and `NothingLost` are hypotheses of theorems and are not claimed: the
settings timer fails an assertion on a closing socket (`late_timer`), and what is lost
depends on the ratio of the write buffer and the frames under way.

## Not modelled

The bytes of frame headers, byte order, logging, and the entries of the static table,
which are data. The Contiki variant of the loop: it is another program behind the same
interface. The pointers of `ll.h`: lists are sequences. In `event.c` the layout of the
union `event_t.data` is not modelled: a new write event is taken to have an empty queue
(740-744).

Between the modules: `Http2` takes the outcome of decoding and the length of a response
as choices, of which `Request` shows the ones that happen; their product is out of
TLC's reach. In `Request` no string that is looked up begins another; what then
happens is that of `prefix` and of the list above. A block that was cut between two
headers is a shorter block, which `Http2` lets be accepted or refused.

## Plan

1. `HpackCode`: that integers are read as they were written, for every limit.
2. `Request`: what is read over a table, from the theorems on `HpackTable`.
3. `Http2` with the buffers of `CBuf` in place of counts of units.
4. The Contiki variant of the loop, with retransmission.
