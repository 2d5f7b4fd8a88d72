# FreeGrok in TLA+

FreeGrok is a tunnelling server. A client behind a NAT (a *tunnel*) connects to
the main server and asks for a *proxy*, a public listening socket. Whoever
connects to the proxy (a *visitor*) gets an identifier; what visitors do is
multiplexed onto the tunnel's connection as `GROK_CONNECTED`, `GROK_PACKET` and
`GROK_DISCONNECT` frames, and `GROK_PACKET` and `GROK_DISCONNECT` requests of
the tunnel act on visitors by identifier. All of it runs in one thread on one
epoll loop, together with a small HTTP interface. On Windows the epoll is
wepoll, which is built from the same tree.

This directory models the server's own code, checks it with TLC on small
instances, and proves with TLAPS what can be proved for all of them.
`PROJECT.json` lists components, runs, mutants, the source lines behind each
definition, the findings, the hazards and the theorems. Paths below are
relative to the repository.

## 1. Inventory

| Component | State | Operations | What makes it correct |
|---|---|---|---|
| **Identifier pool** `src/grokserver/id_pool.hpp` | `last`, `ids` | `get_id`, `remove_id` | no identifier handed out twice, lost, or returned twice; `last++` does not wrap |
| **Event loop** `src/loop/loop.cpp`, `loop.hpp` | `observers`, `linked_clients`, `queues` (read, write), the batch on `run`'s stack | `run`, `send`, `recv`, `capture`, `perform_read_queue`, `perform_write_queue`, `force_disconnect`, `link_client`, `unlink_client`, `add_observer` | EPOLLOUT is watched exactly while there is something to send; every hangup is handled in the end; nothing survives a closed descriptor; no exception |
| **Selector** `src/loop/selector.cpp` | the epoll set | `add`, `modify`, `remove`, `wait` | reports hangups of all registered descriptors |
| **Sockets** `src/loop/sockets.h` | the descriptor table | `accept`, `recv`, `send`, `close`, `socket`, `bind`, `listen` | (external) |
| **Main server** `src/grokserver/server.cpp` | `users`: descriptor -> proxy and rights | `on_connect`, `on_received`, `process_message`, `on_disconnect` | a proxy lives exactly as long as its tunnel; every request is answered or acted on, by what it names |
| **Proxy server** `src/grokserver/proxy_server.cpp` | `initiator`, `id_to_sock`, `sock_to_id` | `link_client`, `unlink_client`, `on_connect`, `on_received`, `on_disconnect`, `disconnect_client`, `shutdown` | the two maps are inverse and agree with the loop's links; the frames of an identifier are bracketed by its connect and disconnect |
| **Packet framing** `src/freegrok/streamer.hpp`, `proto_spec.h`, `src/loop/bytebuffer.hpp` | the state in a `ReadItem`'s `u64`, a growing buffer | three reads per packet (type, length, payload), `FStreamer::send` | decoding what was encoded gives it back, however the bytes are split |
| **HTTP interface** `src/grokserver/http_interface.cpp`, `src/hincl/hincl.cpp` | a parser per descriptor | `on_connect`, `on_received`, `on_disconnect`, `feed` | one answer per request, however it is cut; no parser outlives its descriptor |
| **llhttp** `src/hincl/llhttp.c`, `http.c`, `api.c` | the state of a parser between two reads | `llhttp_execute`, the callbacks, `llhttp__after_message_complete` | what is left of a message never reaches the next; lengths do not overflow |
| **Startup** `main.cpp`, `config.hpp`, `magic_generator.hpp` | the fields of the configuration | reads the ini file, checks it, makes the magic, adds the two observers | a configuration out of range does not start |
| **inih** `src/freegrok/inih.hpp` | sections, keys, values | `ini_parse`, `Get`, `GetInteger` | repeated and continued values join |
| **wepoll** `src/loop/wepoll.c` | the port: the tree, the update and delete queues, a `sock_state` per socket, requests with the AFD driver | `epoll_ctl`, `epoll_wait`, submission, cancellation, completion | behaves as the epoll the loop was written for; nothing is freed while the driver may write to it |
| zstd | - | vendored, a header only | not modelled |

*Interactions.* `Loop::run` calls an observer (`on_connect`, `on_received`,
`on_disconnect`) for each event of the batch. Observers call back into the loop
(`send`, `recv`, `capture`, `force_disconnect`, `add_observer`,
`remove_observer`) and change its tables while it walks the batch. `FreeGrok`
creates a `GrokProxy` and registers it as an observer of the same loop; the
proxy sends on its initiator's connection and shares the server's pool.
`HttpInterface` is a third observer of the same loop: it shares descriptors and
batches with the others, and nothing else. `main` reads the configuration and
adds the two permanent observers. `Selector` calls epoll, or wepoll, which
collects completions of the driver in `epoll_wait`.

*Hard behaviours.* One thread, so no data races; but peers act between any two
steps, and the events of a batch were all reported before it began. A handler
may close descriptors that are still to come, and the kernel gives the lowest
free number to the next socket, which may be of another kind. A hangup ends the
batch (`break`), a `GROK_DISCONNECT` does not. Sends and receives may fail
before the hangup is seen. `accept` may fail. Identifiers are reused at once,
while requests naming them are on their way. Exceptions leave `Loop::run`, and
nothing catches them. A parser sees a message in any pieces, and the next one
joined to it. wepoll's requests outlive the registrations that made them. The
list, line by line and with the properties that cover
each, is `hazards` in `PROJECT.json`.

## 2. Modules

```
IdAllocator            what the server promises about identifiers
   ^
   |  (refinement, proved)
IdLifecycle ------ IdLifecycleProofs (TLAPS)
   |      ^
   |      |  (refinement, run requests, and proved; IdAllocator directly, too)
IdPool ------- GrokServer ------- MCGrokServer (TLC)
                 |      \
                 |    GrokServerProofs --- GrokBatchProofs (TLAPS)
             EventLoop                          |
                 |                          FoldFacts (TLAPS)
                 |                              |
HttpService      |                              |    what a client of the HTTP
   ^             |                              |    interface is promised
   |  (refinement, run http, and proved)        |
HttpServer ------+---------------------- HttpServerProofs (TLAPS)
   |        \
Llhttp       MCHttpServer (TLC)

Epoll                  what the loop expects of an epoll
   ^
   |  (refinement, run wepoll, and proved)
Wepoll ----------- MCWepoll (TLC), WepollProofs (TLAPS)

PacketChannel          what the framing promises of one connection
   ^
   |  (refinement, run packets, and proved)
PacketStream ----- MCPacketStream (TLC), PacketStreamProofs (TLAPS)
   |
Framing

WriteQueue ------- WriteQueueProofs (TLAPS)

Startup ---------- MCStartup (TLC)
```

**Framing**: packets as bytes, in pure operators: the flags and the two headers
of `FStreamer::send_header`, `int_to_bytes` and `bytes_to_int`, `Encode` for
`FStreamer::send`. zstd is external: a run of one byte compresses to three
bytes, nothing else does.

**PacketStream**: one connection on bytes, from a peer that encodes to
`FreeGrok::on_received`. `Read(k)` is `perform_read_queue` when `recv` returns any
`k` bytes; `TypeGot`, `HeaderGot` and `BufferGot` are the three cases of
`on_received`, and what they give is what they queue (`next`) and what they make
of the packet (`done`): a call of `process_message`, or an error. Between rounds
nothing is known but the item's `u64`, packed and unpacked as the code does.
Peers use `FStreamer`, or the protocol's other forms (a long header for a short
or empty payload, compression below the threshold), or send payloads that do
not decompress.

**PacketChannel**: the abstract promise: each packet is processed, or refused
for what it is, once and in order.

**WriteQueue**: the write queue of one connection on bytes. `Give` is
`Loop::send`, which merges into the item at the front even when a part of it is
sent; `Take` is `perform_write_queue` with a `send` that takes any part of the
item, `TakeFails` one that fails. It justifies `writeq` of EventLoop, a FIFO of
whole frames.

**IdPool**: `id_pool.hpp`. `last` and `ids`; `GetId` and `RemoveIds` are
`get_id` and a run of `remove_id`. `last` wraps at `IdSpace`, as `c_id_t` does.

**IdLifecycle**: the pool and callers that owe it only to give back what they
hold, once; one at a time (`unlink_client`) or those of a proxy in any order
(`shutdown`). GrokServer implements it (`LifecycleSpec`) as long as no accept
fails and peers only hang up: one that fails leaves an identifier with `-1`,
which several may share (section 5, `failed_accept`).

**IdAllocator**: the abstract promise, on the set of pairs of an identifier and the
connection it names. An identifier that names nobody is given to one connection,
or some are let go; none changes hands.

**EventLoop**: `loop.cpp`, `selector.cpp` and the sockets. Its variables are
the kernel's and the peers' (`sock`, `backlog`, `peer`, `rx`), and the loop's
(`observers`, `clients`, `linked`, `readq`, `writeq`, `interest`, and of the
batch `pending`, `resume`). A step is one turn of the `for` over the batch;
`EpollWait` starts a batch. A descriptor with several events is handled in the
code's order, hangup, then EPOLLOUT, then EPOLLIN: the fall through from
EPOLLOUT to EPOLLIN is two steps (`resume`), since peers may act between them,
and no other descriptor's event comes in between. `Turn`, `HangupTurn`,
`WriteTurn`, `ReadTurn` are the conditions of `run`; `NextEvent`, `DropBatch`,
`OutDone` are its ways on. `Throw` records the exception in `status` and
nothing happens after.

**GrokServer**: `FreeGrok` and `GrokProxy` as observers. A `GrokProxy` object
is named by its listening descriptor. One action per handler, and per request
of `process_message`:

| Action | Code |
|---|---|
| `AcceptTunnel`, `AcceptTunnelFails` | `FreeGrok::on_connect` |
| `AcceptVisitor`, `AcceptVisitorFails` | `GrokProxy::on_connect`, `link_client` |
| `TunnelHangUp`, `IdleTunnelHangUp` | `FreeGrok::on_disconnect`, `GrokProxy::shutdown`, `Loop::remove_observer` |
| `VisitorHangUp`, `UnknownHangUp` | `GrokProxy::on_disconnect` |
| `HandlePing`, `HandleAuth`, `HandleCreate`, `CreateThrows`, `HandlePacket`, `HandleDisconnect`, `Refuse` | `FreeGrok::on_received`, `process_message` |
| `VisitorData`, `VisitorDataFails` | `GrokProxy::on_received`, `FreeGrok::redirect_packet` |
| `Deliver` | `Loop::perform_write_queue`, and the peer reading what was sent |
| `LoopStep` | hangups nobody answers for, failed sends and reads, incomplete packets, empty queues |

`register` in `AcceptVisitor` tells the EPOLLIN that registers and links the new
connection from an EPOLLOUT that was meant for the connection that had the
descriptor before, which calls `on_connect` too (`loop.cpp:229-236`) but does
neither. `Connected`, `PACKET` and so on are kinds of frame: payloads are one
abstract unit each, named by the connection they come from. `view` is not the
program's: it is what a tunnel's peer knows after the frames it has read, and
is used to make it name identifiers it has reason to name, and to state what the
stream must tell it.

**MCGrokServer** adds the symmetry of tunnels and of visitors. The sets and
bounds are in the `.cfg` files.

**Llhttp**: the parser as a function from a state and a character to a state,
one operator for each group of labels of `llhttp.c` in its loose mode, and the
callbacks of `http.c` and `hincl.cpp` they reach (`OnMessageComplete`,
`AfterMessageComplete`, `AfterHeadersComplete`...). A parser is a record of
what stays between two calls of `llhttp_execute`. A word that is compared as a
whole (a method, `HTTP/`, a header's name) is one character.

**HttpServer**: `HttpInterface` as an observer of EventLoop.
`AcceptClient`, `AcceptClientFails` are `on_connect`; `HangUp` is
`on_disconnect`; `Receive`, `ReceiveEnd`, `ReceiveFails` are `on_received` with
a `recv` that returns bytes, 0 or -1. `OtherAccepted`, `OtherServed` and
`OtherClosed` are what tunnels, visitors and proxies do to descriptors and
batches, so that numbers change hands between them and HTTP clients.

**HttpService**: the abstract promise, in terms of messages: each one received
whole is answered once, in order, up to the first that ends the conversation,
whose kind (`last`, `refused`, `upgrade`, `silent`) says what it gets. The
kinds are what the code does, and are the instance's input (`Outcome`), so a
message cut or pipelined must get what it gets alone.

**MCHttpServer** gives HttpServer its messages, character by character, and has
TLC read each of its conversations in one piece, which is what the theorems
assume of messages (`MessagesFit`).

**Startup**: `main`, from the file to the loop: `ReadLine` and `IniParse`
(inih, with its continuation lines and repeated keys), `Reject` (the checks of
main.cpp:31-62), `Configure` with `generate_magic`, and `AddObserver`, whose
bind may find the port taken. `crashed` is a magic longer than its buffer, whose
outcome the build decides.

**Wepoll**: one port of `wepoll.c`, used by one thread as `Selector` does. The program
adds, modifies and removes registrations and closes sockets; `epoll_wait` is
`PortWait` (flags what is to be updated), `Submit`, `SubmitFails`, `Recancel` or
`LeaveAsIs` for each `sock_state` of the update queue, `Blocks`/`Wakes` (waits for the
completion port), and `FeedDeleted`, `FeedClosed` or `FeedEvents` for each completion; `Returns`
gives the events. The AFD driver is external: it has at most one request per
`sock_state`, which completes at any time, with what it found, as cancelled,
or because the socket was closed. `sock_state`s are memory and are reused.

**Epoll**: the abstract promise: a report names only events that were asked for, of
the registration in force, that were true at some time since it was made.

**GrokServerProofs**, **GrokBatchProofs**, **HttpServerProofs**,
**IdLifecycleProofs**, **WriteQueueProofs**, **PacketStreamProofs**,
**WepollProofs** hold the theorems; **FoldFacts** what is true of a fold over any
sequence, for the folds of messages and characters in two of them.

### What is abstracted

* In GrokServer the three rounds of a packet are one step, and `ReadPart` is a
  packet still incomplete. Nothing else of the program looks at a tunnel's read
  queue between the rounds, and PacketStream shows what they amount to.
* In PacketStream a connection is alone, `process_message` is the entry it makes
  in `decoded`, and the bytes on their way are a FIFO (WriteQueue, and TCP). A
  byte has three bits in the run, two for the flags and one for the type, so
  that lengths need one or two of the four bytes; the operators take any width.
* Payloads are left out of GrokServer. The bytes of a partial
  send are WriteQueue's; in GrokServer `merge_buffers` is the append of a frame. `Deliver` takes any whole
  number of frames, none included.
* Accepted sockets are blocking (nothing sets `O_NONBLOCK` on them). A
  `recv` with nothing there waits for the peer: `VisitorData` has no step then.
  A `send` that fits the window returns. That a peer which never reads stops
  the whole loop is a hazard no run shows.
* An interrupted or failing `epoll_wait` is retried: a stutter.
* `MAX_EVENTS` is 4096: a batch holds every ready descriptor. The order in it
  is the kernel's, so any order is taken.
* The kernel gives the lowest free descriptor (`NewFd`). Descriptors are
  numbers for this reason, and are not symmetric.
* Sending on a descriptor that is `-1` or unregistered writes to a queue nobody
  serves; `-1`'s is not kept.
* In HttpServer the answers are `OK` and `BAD`; their text is left out (a 400
  has no `Content-Length`, which is a matter for clients).
* In Llhttp `MaxLength` stands for 2^64 - 1; overflow of lengths and of the
  chunk size is tested against it as the code does. The code stores what it has computed
  before the check that refuses it, and so do the models: the product of a length whose
  sum overflows, and a status code of four digits, stay in the parser that fails.
* In Wepoll `EPOLLIN` and `EPOLLOUT` with their AFD flags are kept, conditions
  of a socket come and go, and NT calls succeed, but for a poll of a socket
  that was closed.
* Tunnels name identifiers they were told of. One that makes them up reaches
  the visitors of its own proxy or `NO_SUCH_CLIENT`.

## 3. Runs

Bounds: `Fds` and `IdSpace` by the size of the sets; `MaxRx` is how many
messages a peer sends ahead of the server; `MaxQueue` is the length of write
queues above which peers, and failing accepts, cause no more (`Quiet`); a connection is opened
once. They bound the environment only: handlers are never refused for them,
except that the counter of the pool stays below its width (`IdAvailable`).
`CHECK_DEADLOCK` is off for `GrokServer` and `HttpServer`, since the server idles in
`epoll_wait` when its peers have finished, and stops when it throws; for
`Wepoll`, since a thread that watches nothing may wait for ever; for `Startup`,
since the process ends. WriteQueue and PacketStream likewise end when the bound on what is sent is
reached and nothing waits.

| Run | Instance | Shows |
|---|---|---|
| `write_queue` | 6 bytes of two kinds, cut in every way by sends and by the socket | `TypeOK`, `Fifo`, `Waiting`: merging and short writes keep the order, and EPOLLOUT is watched exactly while a byte waits |
| `packets` | 2 packets of 2 types, payloads of 0 to 9 bytes at the boundaries of threshold and header, 3 spoilt ones, every cut of the stream, fairness | `TypeOK` (no item is queued complete), `OneRound`, `InStep`; `ChannelSpec`: PacketStream implements PacketChannel; `AllDecoded` |
| `sessions` | 5 descriptors, 1 tunnel, 2 visitors, data both ways, orderly closes | `NeverThrows`, `PoolComplete`, `WakeupArmed`, `ClosedForCause` |
| `requests` | 5 descriptors, 1 tunnel, 2 visitors, every request that may be refused, orderly closes, fairness | `TypeOK`; `LifecycleSpec`: GrokServer implements IdLifecycle; `HungUpReleased`: every hangup is handled in the end |
| `disconnects` | 4 descriptors, 1 tunnel, 2 visitors, data, `GROK_DISCONNECT`, closes and resets | `IdsExclusive`, `MapsAgree`, `SessionOwned`, `NoStaleDescriptor`, `StreamAgrees`, `BracketedStream`; `AllocatorSpec` |
| `http` | 2 descriptors, 1 client, 1 connection of another observer, 2 messages of every kind MCHttpServer lists, cut after one character or not at all, fairness | `TypeOK` (no number passes its width, refused digits included), `ParserKnown`, `ParserFresh`; `ServiceSpec`: HttpServer implements HttpService; `AllAnswered` |
| `wepoll` | 2 numbers of sockets, 2 `sock_state`s, 3 conditions that come and go, closes and reuse, fairness | `RequestOwned`, `TreeAgrees`, `NoMissedEvent`; `EpollSpec`: Wepoll implements Epoll; `EventReported`, `DeletedFreed` |
| `failed_send`, `failed_accept`, `late_disconnect`, `no_descriptor`, `http_port` | see section 5 | each a counterexample |

Two visitors are what identifier reuse, two hangups of one batch, and a stale
event for a reused descriptor need. With four descriptors the
second visitor finds none (three with the main server's listener, a tunnel and
a proxy leave one), so that accepts fail; five are enough for one tunnel's visitors. Two tunnels are
what a descriptor that changes from visitor to tunnel to another tunnel's proxy
needs: the properties of `disconnects` were checked once on such an instance
(4 descriptors, 2 tunnels, 2 visitors, one message each way, 976,305 states),
which is not among the runs for its size, and all seven are
proved for any number (section 4). In `http` two descriptors are the listener and
one whose owner changes; the second message is what a keep-alive needs, and a cut of
one character, taken again and again, reaches every state of the parser between
two reads. `MaxLength` is 15, one hexadecimal digit: it is passed by the second. In
`wepoll` the two `sock_state`s are one that waits for its last completion and the
one made for the same number since, or one for each number; a third would be another
that waits. The
properties of `sessions` are claimed for orderly peers and enough descriptors
only: with resets, failed accepts or `GROK_DISCONNECT` the code breaks them, in
the ways the runs of section 5 show. The theorems of section 4 say under which conditions
each holds.

Every property of a passing run has a mutant: a definition replaced by the form
a plausible slip would give it (an item popped too early or not at all, a map entry
not erased, a missing EPOLLRDHUP...), under which TLC finds the property broken.

*Fairness.* `FairSpec` assumes weak fairness of the server as a whole: the
process is scheduled, and `epoll_wait` returns when something is ready. It is
not fair to single descriptors, since the kernel's order is not: that every
hangup is handled although each one drops the rest of the batch is a property,
not an assumption. It holds because peers are finite in number and connect
once. Peers are not fair: they need never send, read or close. In PacketStream `FairSpec` is weakly fair to
the server's reads, of whatever length, since level-triggered `epoll_wait`
reports a connection as long as bytes wait; two packets suffice there because the
only state a packet leaves behind is the read queue, which is the same after each
(`InStep`). In HttpServer `Server` is weakly fair (the process runs), with
strong fairness that what waits finds room to be sent again and again: clients
read. In Wepoll the thread calls `epoll_wait` again and goes on inside of it, as
`Loop::run` does (weak fairness of `Waiting`), the driver ends what it is
able to end (weak fairness per request), and the completion port is a queue, so that each
completion is taken after finitely many waits (strong fairness per `sock_state`).
The calls in between are not fair.

## 4. Theorems

`GrokServerProofs` proves, for every finite set of descriptors, every set of
tunnels, visitors, kinds of message and endings, every width of identifiers and
every bound (`LoopAssumption`, `IdSpaceAssumption`, `ServerAssumption`):

* `TypeCorrect`: `Spec => []TypeOK`. `TypeOK` is inductive by itself. One lemma
  per action, on lemmas about what the loop's calls leave behind.
* `IdentifiersExclusive`: `Spec => []IdsExclusive`. The inductive invariant is
  `TypeOK /\ IdsExclusive`. Of the four conjuncts, `TablesDisjoint` is the
  claim for the connections of different proxies and `MapsInverse` for those of
  one; `HeldNotFree` and `FreeOnce` strengthen them: without them a pool that
  holds an identifier twice, or one that is in use, would break the claim one
  step later. `NextIsIdStep` first reduces all the actions to five things that
  can happen to the tables and the pool (link, unlink, shut down, clear,
  nothing); one lemma each follows. `ShutDownKeepsExclusive` needs that the
  identifiers `shutdown` collects are distinct, in whatever order the map
  yields them, which is `MapsInverse`.
* `ImplementsAllocator`: `Spec => AllocatorSpec`, from the same invariant and
  the same five steps; `NextIdIsFree` is its core.

The same module goes on to who holds what, for the same constants:

* `SessionsOwned`, `TablesAgree`, `NothingStale`: `Spec => []SessionOwned`,
  `[]MapsAgree`, `[]NoStaleDescriptor`. None of the three is inductive alone: a
  free descriptor that becomes a tunnel's or a proxy's must not be named
  by a queue, link, proxy or map, nor have a proxy in `users`
  (`NoStaleDescriptor`), or a new session inherits an old one (its rights it may
  inherit, section 5); a
  descriptor that closes must be named only where its handler looks
  (`MapsAgree`, `SessionOwned`), or it stays behind. Their conjunction with
  `Rooted` (the main server never goes, and what is no proxy has no initiator) is
  inductive on top of `TypeOK /\ IdsExclusive`. Each handler that
  opens or closes has a lemma of its own (`AcceptVisitorKeeps`,
  `HandleCreateKeeps`, `TunnelHangUpKeeps`...), over what they share: opening a
  free descriptor (`OpenedKeepsOwned`), closing one (`CloseOne`), the maps
  without an entry (`UnlinkedMaps`); all others change none of these tables
  (`QuietKeeps`). Failed accepts and resets are included: the `-1` of
  `id_to_sock` is allowed for, and shown to be the only exception.
* `NoIdLost` and `ImplementsLifecycle`: `PoolComplete` and `LifecycleSpec`, under
  `[][NoOverwrite]_vars`: no accept fails for a proxy whose tables have the `-1` of an
  earlier failure. It is what run `failed_accept` breaks, and the only thing that can lose
  an identifier: resets, `GROK_DISCONNECT`, failed sends and one failed accept per
  proxy are all allowed. The invariant adds `IdsReturnable`: every entry of
  `id_to_sock` has the one in `sock_to_id` by which it will be returned.

`GrokBatchProofs`, again for the same constants, is on the batch of events and
the calls of the loop:

* `WakeupsArmed`: `Spec => []WakeupArmed`, without conditions. The inductive
  invariant is `LoopAgrees`: each connection once in the selector, and for each
  descriptor `Wired`, which relates its registration, what it watches, its queues and
  what the batch has of it.
* `ClosesForCause`: `ClosedForCause` under `[][NoneLeftInBatch]_vars`: no descriptor is closed while
  an event of it is left in the batch. `run` drops the batch after a hangup it handles itself, but not after
  a `GROK_DISCONNECT`; `ClosesForCauseUnasked` shows that
  without that message no condition is needed.
* `RunsOn`: `NeverThrows`, for peers that do not reset, none of which may both
  authenticate and choose a port (it may be taken), with a descriptor free whenever one is asked
  for, and `NoneLeftInBatch`. Each of the four is needed: without the first a failed `send` leaves an empty
  read queue to the next EPOLLIN (run `failed_send`), without the second or the
  third a request for a proxy throws (run `no_descriptor`), without the last
  `linked_clients.at` throws for the event of a connection that `GROK_DISCONNECT`
  has closed. `RunsOnUnasked` drops the last one for peers that never send it.

and on what a tunnel hears:

* `StreamsAgree`, `StreamsBracketed`: `Spec => []StreamAgrees`, `[]BracketedStream`, without
  conditions. What a tunnel has been told (`view`) and what waits in its write queue
  together give the visitors that are there, each connect before its data and
  before its disconnect. The invariant relates the fold of the queue (`Heard`) to
  the tables; every action is one of five kinds for a descriptor: it says
  nothing (`Silent`), appends to the queue (`Speaks`), the tunnel goes (`Forgets`), its
  proxy shuts down (`Renounces`), or the queue drains (`Drains`). What
  `Heard` computes of a queue with one message more, or cut in two, is by induction over its length.

`IdLifecycleProofs` proves, for every `IdSpace` and set of holders:

* `TypeCorrect`, and `NeverLostNorShared`: `Spec => []Partitioned`, every
  identifier below the counter is held by one holder or waits in the pool, once. The
  invariant adds that the holders are finitely many, since `shutdown`
  enumerates those of a proxy. No run checks `Partitioned` by itself;
  what implements IdLifecycle inherits it: GrokServer does, under `NoOverwrite`
  (`GrokServerProofs!ImplementsLifecycle`, and run `requests`).
* `ImplementsAllocator`: IdLifecycle implements IdAllocator.

`WriteQueueProofs` proves, for every set of bytes and every `MaxGiven`:

* `TypeCorrect`, `QueueIsFifo`, `QueueWatched`: `Spec => []TypeOK`, `[]Fifo`,
  `[]Waiting`. The inductive invariant is `TypeOK /\ Waiting /\ Fifo`: what a merge does to the
  bytes that wait depends on there being one item, sent short of its end
  (`OneItem`), and then is a fact about sequences (`MergedUnsentBytes`); a short
  write cuts the bytes that wait in two adjacent parts. A `broken` connection
  owes nothing: what was queued is dropped.

`PacketStreamProofs` proves, for every width of a byte that holds the flags and a
type (`ByteBase >= 8`, divisible by 4), all sets of types, payloads and spoilt
frames and every way the bytes are cut (`FramingAssumption`, `StreamAssumption`,
`PayloadsFit`):

* `TypeCorrect`, `OneRoundAwaited`, `StaysInStep`: `Spec => []TypeOK`, `[]OneRound`,
  `[]InStep`; and `ImplementsChannel`: `Spec => ChannelSpec`. All four are of one inductive
  invariant, `IInv`: the packets sent are those processed and others, `ps`; and the bytes
  read of the packet that is begun, with those on the wire, are `ps`
  one after the other (`Stream`), while one item waits that holds what was read, in one of
  the three rounds (`Fills`).
* Three things carry it. What any peer puts on the wire is `Whole`
  (`PeersPutWhole`): the length and flags of either header are read back, `int_to_bytes` and
  `bytes_to_int` undo each other (`ThereAndBack`, by
  quotients and remainders), and a compressed payload is understood as what it was. A
  complete round queues the next round of the same packet or ends it
  (`RoundEnds`): all that is kept between rounds is the 40 bits of `u64`,
  and they hold both the first byte and the length (`MergedApart`). And a header tells its packet's
  length in its own bytes (`HeadStays`), so the packet a round completes is the first of the
  stream (`FirstOf`).
* `PayloadsFit` is needed: payloads are shorter than 2^32, and
  those that compress no longer than `MAX_DECOMPRESSED_SIZE`. A longer one is
  refused with `TOO_LONG_BUFFER`, as the code has it, and the channel would be broken; the spoilt frames
  are those that really do not decompress.

`WepollProofs` proves, for every set of sockets, of `sock_state`s and of
conditions that change:

* `RequestsOwned`, `TreeCorrect`, `NoneMissed`: `Spec => []RequestOwned`,
  `[]TreeAgrees`, `[]NoMissedEvent`. The inductive invariant `IInv` adds to the
  first two: the types; what is free is in no table (`Allocation`); a request
  looks for the conditions that stand for its `pending_events` (`LookedFor`), which is what makes
  `NoMissedEvent` survive a change of interest while a request is out; the
  batch names only what occurred and is asked for (`Batches`); and a result is of
  conditions that did hold for the registration it will be reported to
  (`Found`), or its `sock_state` is to be deleted. One lemma per action.
* `ImplementsEpoll`: `Spec => EpollSpec`; `EpollStep` maps each step to one of
  Epoll or to a stutter, from `IInv`.

`HttpServerProofs` proves, for every finite set of descriptors, all sets of
clients and of other connections, and every set of messages, of characters in any
order (`LoopAssumption`, `HttpAssumption`):

* `TypeCorrect`, `KnownCorrect`: `Spec => []TypeOK`, `[]ParserKnown`, without
  conditions. `TypeOK` says of a status code that it has at most three digits while
  the parser goes on, and at most four (as `llhttp.c:8561` stores it, within its 16 bits)
  when it has failed.
* `ServesAsPromised`: `Spec => ServiceSpec`, if `OutcomesAgree`: the parser of
  `llhttp.c`, when it reads a conversation alone and in one piece, treats its
  messages as `Outcome` says, at each of its characters. Here an assumption is what should be: the
  abstract service is defined by `Outcome`, and a message whose kind is given wrongly is
  answered differently. It says nothing of cuts, pipelining, descriptors,
  hangups, failures or other clients, and that these make no difference is what is proved.
* `FreshCorrect`: `Spec => []ParserFresh`, if `PlainTrailers`: no trailer has
  a `Content-Length`. The condition is needed: such a length stays in
  the parser (`TrailerLengthStays` of MCHttpServer, and section 5).
* `CutAnywhere`, on the parser alone: from any state it can be in, what is read in two calls
  completes the same messages as what is read in one, and ends in the same state
  and error.

TLC evaluates both conditions for the messages of run `http`.

Two parsers are `Alike` if they agree in all but the pieces of names and values,
which a cut may split, the headers made of them, which nothing reads, and in the number of
messages completed, by `k`. Alike parsers make alike steps: one lemma per group of
states (`AlikeLine`, `AlikeField`, `AlikeValue`...), and, by induction over what is
read, alike scans. For this a parser must be in one of the states of the table and
have what goes with it (`Sound`: the span that is open, numbers in range, a body only
of a length above 0), which is a second induction in the same layout.
The inductive invariant `Inv` then says of each connection that its parser has
read, in whatever pieces, what was sent and is no longer waiting (`Feeds`), so that it is alike
the parser that read this alone; that what its client heard and what waits to be
sent are the answers of that parser (`Answering`); and that sockets, links,
queues and the map of parsers agree (`SocksHeld`, `LinksHeld`, `QueuesHeld`), without which the
next client of a number would get another's parser. There is one lemma for each
action. `NextServes` maps each step to one of HttpService: to `Ask`, `Take` or `Leave` of the one
client it is about, or to a stutter; it needs in addition that nobody has more waiting
than was sent (`PartsLeft`). `FreshCorrect` has a third induction over the
states: to which `Content-Length` or chunk a length belongs (`Measured`).

Only model-checked: `HungUpReleased`, `AllDecoded`, `AllAnswered`,
`EventReported` and `DeletedFreed`, since liveness and `ENABLED` are out of the prover's
reach; and `OutcomesAgree` and `PlainTrailers`, which are about given messages.
Whether a text is well-formed HTTP is not stated anywhere: `Outcome` is by example.

Induction over lengths is by the least element: the library's induction theorems take an
operator, which no prover here instantiates, but `WFMin` with
`NatLessThanWellFounded` gives the least number that fails a claim, once the claim is
put in a set (`NatSetInduction` in FoldFacts). The community modules define a
fold by a function that is chosen; FoldFacts shows that one exists
(`FoldsExists`), that two of them agree on a common beginning (`FoldsAgree`), and so what a fold gives
for nothing, for one element more, and for two sequences joined. The operator that is folded is a
constant of that module, which the others give by `INSTANCE`.

## 5. Findings

* `failed_send`: after a failed `send` the comment says *We will wait for epoll
  hup* (`loop.cpp:104`) and the queues are cleared; but `run` goes on to the
  EPOLLIN of the same event, and `perform_read_queue` throws on the empty read
  queue.
* `failed_accept`: `on_connect` links the `-1` of a failed `accept`. Several
  share the entry `-1` of `sock_to_id`, so `shutdown` returns one of their
  identifiers; the others are lost (`server.cpp:312`: *free ids*).
* `late_disconnect`: a `GROK_DISCONNECT` that crosses its visitor's hangup
  reaches the visitor that got the identifier next (`docs/ru.md:93`: the client
  to be disconnected).
* `no_descriptor`: when no socket can be had, `post_init` throws `SysError`,
  and the `INTERNAL_SERVER_ERROR` of `server.cpp:50-56` is never sent.
* `http_port`: `main.cpp:51` tests `port` where `http_port` is meant, so the
  message of line 52, *Invalid http port value*, never meets a value above
  65535; it is cut to 16 bits by `Config`, and that port is served.

Seen while modelling, and in the models as the code has it; no run refutes
a claim about them:

* *HTTP.* `http.c` has a comment that a request with a `Transfer-Encoding` which
  does not end in `chunked` must be answered 400 and the connection closed
  (`http.c:57-63`); the interface answers 400 and keeps it open. A message that asks for an upgrade is answered
  200 and, when anything follows, 400. A header's name or value that is cut by a read
  is overwritten by its second half. `llhttp__after_message_complete` resets flags, but not
  `content_length` (`http.c:101`), which only a body uses up. A `Content-Length` in the
  trailer of a chunked message has none, so its digits stay, and those of the next
  `Content-Length` are added to them: after `1`, `0` makes 10, and the parser waits for a
  body that `http.c:85` takes for absent. TLC evaluates this (`TrailerLengthStays`), and the C
  code, compiled and given the same two messages, does the same; such messages are left
  out of the instance, where `ParserFresh` would not hold. `hincl.hpp` ignores the
  `type` a parser is made with, so that responses are parsed, and answered, too.
* *Rights.* `on_disconnect` erases an entry of `users` only if it has a proxy
  (`server.cpp:310`). One that `GROK_AUTH` made for a connection without a proxy stays,
  and the next connection with the descriptor may select ports. This is in GrokServer
  (`IdleTunnelHangUp`), and the one thing of the server's tables that outlives a
  descriptor: `NoStaleDescriptor` leaves it out and says so.
* *Startup.* `main.cpp:64` asks for the key `DEFAULT_SERVER_NAME`, so
  `server_name` of the example file has no effect. `generate_magic` may
  return up to 1033 characters where 1024 is the limit. A magic given in the file
  is too long only if its key is repeated or continued, since a line ends at 200
  characters. SIGPIPE is ignored (main.cpp:20-22), which is why a failed `send`
  returns at all.
* *wepoll.* `remove_observer` closes a listener that the selector still has
  (`loop.cpp:150`). On Linux the kernel forgets it; in wepoll the registration
  stays until its request ends, and an `EPOLL_CTL_ADD` of the number fails until then, which
  `loop.cpp:276` only prints.
* *Rights.* Those granted by `GROK_AUTH` to a connection without a proxy stay with
  its descriptor when it hangs up (`server.cpp:310`).

## 6. Not modelled, and what is left

Left for later:

1. **TunnelService**: an abstract service (tunnels, visitors, no descriptors
   and no batches) that GrokServer implements for orderly peers; isolation of
   tunnels that name identifiers they were not told.
2. `GrokServer` and `HttpServer` as one composition, instead of `Others`.
3. The bytes of a peer that never reads: accepted sockets are blocking, and a
   `send` larger than its window stops the loop.

Left out for good:

* *llhttp*: the strict half of the file (`LLHTTP_STRICT_MODE` is not set, and
  the C it guards is not compiled), which is half of its lines; the matching
  of words letter by letter; `llhttp_finish`, pausing, lenient flags and WASM, which nothing calls.
* *hincl*: the overload of `feed` for strings, which nothing calls.
* *inih*: readers of floats and booleans, which nothing calls; the cutting of
  lines at 200 characters.
* *wepoll*: `EPOLLONESHOT`, `EPOLLPRI` and failed connects, which the loop does not
  use; NT requests that fail, memory that runs out, `epoll_close`; several threads
  on one port (the locks, reference counts and the thread-safe tree), since the
  loop is one; poll groups, and how the tree is balanced.
* *zstd*: one vendored header. Build files and documents: no behaviour.
* The BIG byte order of `bytebuffer.hpp` and its string and float helpers, which
  nothing uses (`int_to_bytes` writes one byte too far there); client observers
  (`is_server` false) and `Loop::stop`, which nothing uses.
