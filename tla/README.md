# A TLA+ model of super_box (Hide-UI and Super-Box core)

The repository is a tunnel: a client takes the TCP connections and DNS queries
of a device from a TUN interface and carries them to a server, which connects
to the targets; a web panel on the server manages the peers that may connect.
This directory models the parts where something can go wrong between two
steps: what several tasks, two hosts or a crash can do to the state.

Paths below are relative to `src/` of the checkout (`src/inbound.rs` is
`src/src/inbound.rs` in `PROJECT.json`).

## 1. The system

| Component | State | Operations | Module |
|---|---|---|---|
| Multiplexer pool, `inbound.rs` | `MUX_CLIENT`, an `RwLock<Option<Arc<MuxClient>>>`; per connection a driver task and `is_closed` | `get_mux_client`, `get_active_mux_client`, the driver's clear | MuxPool |
| Stream relay, `inbound.rs`, `hidekey/mux.rs` | an HTTP/2 stream, two relay tasks on each side | open, upload, download, end | MuxStream |
| User-space TCP stack, `netstack-smoltcp` | two ring buffers, two states, two wakers, a `Notify` | poll loop; `TcpStream` read, write, shutdown, drop | NetTcp |
| TUN device and DNS, `tun_device.rs` | `DNS_CACHE` | intercept, forward with two fallbacks | DnsForward |
| Embedding APIs, `c_api.rs`, `android/jni_wrapper.rs` | `STOP_REQUESTED`, file descriptors, tasks of each start | start, stop, the loop | TunnelLifecycle |
| UDP transport, download, `outbound_udp.rs`, `inbound.rs` | packet id counter, replay window | relay, filter, deliver | UdpLink, ReplayWindow, AntiReplay |
| UDP server and upload, `outbound_udp.rs` | session table, two tasks and a channel per session | handshake, connect, insert, pass on, remove | UdpServer |
| Raw TCP server, `outbound.rs`, `stats.rs` | `active_connections`, two tasks per relay | accept, handshake, relay, count | RawServer |
| Sealed relay, `inbound.rs`, `outbound.rs`, over `hidekey/h2_obfs.rs`, `stego.rs`, `framing.rs` and `HideCipher` | per direction a counter and an RTP sequence number; where the framing is | preface, challenge, seal, open, two `select!` loops | SealedRelay |
| Peer store, `hideui/` | sled database, `AppState::peers`, an `RwLock<HashMap>` | create, delete, toggle, load | PeerStore |
| Server authentication, `hidekey/mux.rs` | none across requests | `/api/v1/auth` | its outcome, in MuxPool |
| Multiplexer UDP relay, `hidekey/mux.rs` | a socket, two tasks | relay DNS | its answers, in DnsForward |
| Codec, `hidekey/udp_obfs.rs` | `UdpSessionCounter` | encode, decode, `accept_rx` | ids and lengths, in UdpLink |
| Panel, `hideui/handlers.rs` | settings in sled, metrics | login, settings, plugins, metrics | - |
| VLESS, REALITY, TLS helpers, `config.rs`, `main.rs` | none or per connection | relay, records, parsing, start-up | - |

How they interact. A start of the tunnel (TunnelLifecycle) runs the TUN reader,
which feeds the user-space stack (NetTcp) and hands DNS packets to
`forward_dns_query` (DnsForward). Each stream of the stack becomes a session;
sessions and lookups share one client behind one lock (MuxPool), and each of
them is one stream of its connection (MuxStream). The stack's `TcpStream` is
the sink and source that MuxStream calls "app". The server's other three ways
in, raw TCP, HTTP/2 frames and UDP, are RawServer, SealedRelay and
UdpServer with UdpLink. All of them ask for the active peers that PeerStore keeps.

What is hard here, and what makes each part right:

- **Pool.** One lock, three kinds of users, network I/O under the write guard,
  and drivers that write to the same slot. Right means: creation is exclusive,
  streams run only on authenticated connections, a live client is not
  replaced, a dead one leaves as long as its runtime lives, nobody waits for
  ever.
- **Stream relay.** Four tasks on two hosts, each ending for its own reasons,
  flow control between them. Right means: buffers stay bounded, a byte stream
  that ends is complete, and an end on one side reaches the other.
- **User-space TCP.** A loop that sleeps and three halves of a stream, with
  wakers and a permit between them. Right means: no task sleeps past what it
  waits for, and a shutdown takes everything before it along.
- **DNS.** A lookup may be the one that a dial is waiting for, under the lock
  that the lookup wants. Right means: every lookup ends, and a cached name is
  the way out of the circle.
- **Life cycle.** A global flag, a descriptor handed on as a bare number, and
  many early returns. Right means: nobody closes what is not his, everything
  is given back, a stop stops.
- **UDP.** Loss, duplication and reordering; 32-bit ids that wrap; a 64-bit
  window; a table whose entries are inserted and removed by address from three
  places. Right means: nothing twice, nothing lost that the window covers, one
  relay per address, nobody removes another's session.
- **Sealed relay.** `select!` drops a half-read frame, packet lengths wrap at
  2^16, and so does the number in the nonce. Right means: what is written is a
  beginning of what was read, and no nonce repeats.
- **Raw server.** A counter with a hand-written decrement on each return path,
  in two steps. Right means: it is exact, and an answer is not cut short.
- **Peer store.** Two copies of the truth, changed in different orders by
  different handlers, storage errors, dropped handlers, crashes. Right means:
  what was answered holds, and the copies agree once nothing is in flight.

`PROJECT.json` lists the hazards line by line, each with the properties that
would catch it.

## 2. The modules

Definitions whose comment begins with "Faulty variant" are not part of any
specification. Each is a plausible mistake in one operation, kept next to it:
replacing the operation by it makes one of the properties fail, which shows
that the property depends on how the code is written.

Two modules that stand beside another one in the same proof module carry a
prefix in the names both would use (`NetInit`, `NetSpec`, `NetTypeOK` in
`NetTcp`; `DnsInit`, `DnsSpec`, `DnsTypeOK` in `DnsForward`): `NetTcp` is proved
about together with `MuxStream`, whose bytes it carries on to the device, and
`DnsForward` together with `MuxPool`, whose lock it waits for.

### MuxPool (`MCMuxPool`, `MuxPoolProofs`)

`slot` is `MUX_CLIENT`; `holder` the task that awaits under the write guard;
`queue` tokio's fair wait queue. A section that runs under a guard without an
await is one action (`CheckUnderRead`, `CheckUnderWrite`, `Lookup`,
`DriverClears`); `get_mux_client` is the path `FastPath`, `AskRead`,
`CheckUnderRead`, `AskWrite`, `CheckUnderWrite`, `DialOk`, `AuthOk`, `Install`
with its early returns `DialFails` and `AuthFails`. A connection goes "up",
"down", "flagged" (`is_closed` stored), "queued" (its driver waits for the
lock) and "gone". `is_alive` is true for "up" and for "down", as in the code.
A connection that has ended and is unreferenced can be dialled again, so there
is no bound on how many a run sees.

`MUX_CLIENT` is a static, but its users are tasks of the tokio runtime that each
start builds and drops at the end of its tunnel (`c_api.rs:60-72`,
`jni_wrapper.rs:127-139`; `RuntimeDrops` in TunnelLifecycle). The drop takes
each task at the await where it is, one after the other, while tasks that are
not dropped yet, or those of another start's runtime, still run; so it is an
action per task that may happen at any time and never has to. A waiting task is
dropped by `WaiterDropped`; one that dials, authenticates or uses a connection
ends as in `DialFails`, `AuthFails` and `Finish`; a driver by `DriverDropped`,
which leaves its connection "orphaned" (before `is_closed` was stored: it
counts as alive) or "closed" (after it), and in both cases where it is in the
slot. The drop at the process's own end needs no model: the static ends too.

### MuxStream (`MCMuxStream`, `MuxStreamProofs`)

One stream. Both directions are the same two loops, so `Sender(d)` and
`Receiver(d)` are written once: "up" is sent by the client's upload task and
received by the server's, "down" the other way round. They differ where the
code does: only the client ends the stream (`SenderEof`), only the client
aborts its other task (`ClientEnds` against `ServerEnds`). Seven counters per
direction say where each unit is; order in a stream and in a connection makes
a count enough. `Accept` answers before `Connect`, as the code does. The h2
crate is external: it delivers in order, puts a reset behind the data already
sent, and resets a stream when its last handle is dropped; when the connection
goes down what it carried is lost.

### NetTcp (`MCNetTcp`, `MuxStreamProofs`)

One connection through `netstack-smoltcp`. `loop` is where `handle_socket` is:
in `iface.poll` (`Receive`, `ReceiveDrops`, `Transmit`, `Expire`), at the
socket under `control`'s lock (`Visit`, `VisitClosed`, `VisitNone`), between
the rounds (`Rest`) or asleep under `select!` with `handle_packet`
(`HandlePacket`, `Notified`, `TimesOut`). `PollRead`, `PollWrite`,
`PollShutdown` and `Drop` are `TcpStream`'s. `up` and `down` count units along
each direction, so that every ring buffer and socket buffer is a difference of
two counts. smoltcp and the device are external: a segment brings any part of
what its sender has and its receiver lacks (`Segment`), the states are
smoltcp's ten.

### DnsForward (`MCDnsForward`, `MuxPoolProofs`)

`look[l]` is one `forward_dns_query`: `CacheHit`; or `WaitForLock`,
`GetActiveClient`, then the stream (`HeadArrives` without a timeout,
`DataArrives` within 2 s), DNS over TCP, DNS over UDP, each failing into the
next, and `Save`. `sess[s]` is `get_mux_client` as far as lookups feel it:
read lock, write lock, `Resolve` (the system's resolver, whose query may come
back through the TUN as a lookup of its own), `Connects`. `waiting` is the
lock's fair queue. `Tick` lets time pass only when nothing can run without waiting.

`GetActiveClient` may fail the whole lookup although there is a client: that is
`dns_ip.parse()?` when `DNS_SERVER` is not an address. The UDP socket of the last
fallback is taken to send past the TUN. On Windows the code ties it to the
physical interface when it was given one; elsewhere that is left to the routes,
and where they lead into the TUN the query would come back as one more lookup,
which this model does not have. It shows one life of the runtime; what a drop
does to the lock's users is in MuxPool.

### TunnelLifecycle (`MCTunnelLifecycle`, `TunnelProofs`)

`run_c_vpn_loop` and `run_vpn_loop` are the same loop; where they differ (what
ends the pipe) the model allows both. `phase[t]` is the thread of start t,
`reader`, `pipe` and `writer` its tasks, `fd` the process's descriptor table:
`dup` gives the least free number, and a number handed on after its file was
closed may name another file. `RuntimeDrops` ends all tasks at their awaits. A
task that was never polled has no `File` yet, so its number may stay open.

### UdpLink over ReplayWindow, implementing AntiReplay (`MCUdpLink`, `UdpLinkProofs`)

`ReplayWindow` holds `accept_rx` as operators on a set of bit positions.
`UdpLink` runs them: the server's relay reads, cuts and sends, the network
keeps every datagram for ever (so it can lose, delay, reorder and duplicate),
the client filters and writes. `opens` is the set of ids whose datagrams
`decode_packet` can open: the code rebuilds the nonce from ciphertext bytes,
which gives the sender's nonce only for a set of ids that depends on the key.
`AntiReplay` is the filter one would like to have, with unbounded memory.

### UdpServer (`MCUdpServer`, `UdpServerProofs`)

`start_udp_server`'s receive loop is one actor (`loop`): for each datagram
`AnswerChallenge`, `StartConnect`, `RejectTarget` or `PassOn`; while it
connects it serves nobody (`Connected`, `Refused`, `ConnectTimesOut`,
`Insert`). `relay[h]` and `writer[h]` are the tasks of handshake h. Both the
relay and the loop change `table` by address. The client's
`handle_hidekey_udp` is there with its handshake timeout and with sessions one
after another from one address; a shared secret is the pair of the two key
pairs. Every datagram may open. That is an over-approximation: in the present
build the handshake's do not (see "Other observations"), so the properties hold
of what the server would do once the labels agree.

### SealedRelay (`MCSealedRelay`, `SealedRelayProofs`)

The client's `handle_hidekey_connection` against the server's
`handle_hidekey_h2`. A frame is two units on the wire, because `recv_data`
reads it with two `read_exact` and `select!` may drop it between them; after
that the reader takes payloads for headers (`RecvGarbage`). `Advance` moves
counter and sequence number of the sealing cipher together; `Opens` asks for
the counter of the opening one. The preface exchange is modelled frame by
frame on both sides, with what each function discards. When an end returns, its
socket is closed: `Eof` on the other side, and failing writes (`SendFails`).
Both ends follow the protocol with the same master key; the client's returns on
a response of another length or with another MAC are not steps of their own.

### RawServer (`MCRawServer`, `RawServerProofs`)

Two listeners (`AltAcceptFails` ends the secondary one), `Dispatch`, the
handshake's steps and return paths, `TargetConnects`, the two relay tasks and
their `join`, and `dec_active_connections` as the load and the subtraction that
it is, modulo `Wrap`. Client and target send, half-close and leave as they
like. The returns of the handshake are one step, `HandshakeEnds`, with the
decrement that each of them has: that a single one lacks it would be seen by
comparing this step with the code, not by a run.

### PeerStore (`MCPeerStore`, `PeerStoreProofs`)

`db` is what sled holds, `disk` what a crash leaves of it, `mem` the map. A
request walks through "store" (insert or remove), "flush" and "lock";
`toggle_peer` takes the lock first and keeps it over both database calls. Any
database call may fail, a handler that waits may be dropped, sled may flush by
itself, and the process may die between any two steps (`Restart` is
`HideUiServer::new`'s load). `born`, `created`, `doomed`, `deleted` and `torn`
are history: what was drawn, answered and left half done.

## 3. The runs

| Run | Bounds | Shows | Properties |
|---|---|---|---|
| `mux_pool` | 2 tasks, 2 connections | authenticated streams, no live client replaced, dead ones leave while their driver is not dropped, every call returns | `StreamsOnlyAfterAuth`, `NoLiveOverwrite`, `DrivenDeadLeaves`, `EveryCallReturns` |
| `mux_one_connection` | the same | **violated**: two live connections in use | `OneConnection` |
| `mux_stream` | window 1, sink buffer 1, 2 units a direction | back-pressure, whole uploads, the server's relay ends after the client's session | `TypeOK`, `BacklogBounded`, `EofMeansComplete`, `RelayWindsUp` |
| `net_tcp` | 2 units each way, all buffers 1, 2 frames in the ingress queue | no lost wake-up, FIN behind the data, a shutdown completes | `NetTypeOK`, `NoLostWakeup`, `FinBehindData`, `ShutdownCompletes` |
| `dns_forward` | 2 lookups, 2 sessions, 2 questions; TTL 3, timeout 1, resolver's patience 2 ticks | no stale answer, every lookup ends, a cached name lets a dial through | `DnsTypeOK`, `NoStaleAnswer`, `EveryLookupEnds`, `CachedNameReconnects` |
| `tunnel` | 2 starts, 4 descriptors, channel 1 | descriptors are owned and returned, a stop that no start follows ends every tunnel | `TypeOK`, `ReaderOwnsItsFd`, `FdReturned`, `StopEndsAll` |
| `udp_link` | 6 ids, window 3, 7 datagrams | nothing twice, nothing in the window lost, refinement of `AntiReplay` | `AtMostOnce`, `AcceptsExactly`, `FilterSpec` |
| `udp_server` | 2 addresses, 2 sessions each, 2 handshakes, 1 payload, channel 1 | one relay per address, own session removed, dead sessions leave | `TypeOK`, `OneRelayPerAddr`, `ClosedLeavesTable`, `RemovesOwnSession` |
| `sealed_relay` | 2 chunks each way, batch 2, frame limit 1, wire 3, sequence numbers modulo 2 | order, unique nonces, clean preface, one end ends the other | `TypeOK`, `DeliveredInOrder`, `NonceOnce`, `PrefaceConsumed`, `OneEndsBoth` |
| `raw_server` | 2 connections of 4 and 2 frames, 2 chunks, buffer 1, counter modulo 3 | exact count, whole answers, who left is uncounted | `TypeOK`, `ActiveExact`, `AnswerWhole`, `LeftIsUncounted` |
| `peer_store` | 2 peers, 2 requests, symmetric | created peers survive, what is served is stored, the stores agree, deletions hold until a restart | `ServedIsStored`, `CreatedSurvives`, `AgreeWhenQuiet`, `DeletedUntilRestart` |
| `peer_delete` | the same | **violated**: a deleted peer is back in the database | `DeletedStaysDeleted` |

Why the bounds are enough. Two tasks and two connections give every pair of
users of the lock: two creators, creator and lookup, creator and driver, a
connection and its replacement with both drivers alive, or one of them dropped
with its runtime. A window of one unit
against two units to send, and a read that takes both, makes the sender wait
for credit in the middle of `send_bytes` and the receiver wait for its sink
with credit withheld; a third unit repeats the second. In `net_tcp` every
buffer is full with one unit, so each half parks and is woken, and there is
data behind a shutdown. In `dns_forward` a dial, the lookup it waits for,
another lookup and a second dial behind the lock are all there at once; three
ticks of life against one of timeout let an entry age while a lookup is under
way. Four descriptors are what two starts can open, so a closed number is given
out again while the old one is still in a variable. Six ids and seven
datagrams wrap the id once; a window of three distinguishes a shift inside the
window, by exactly its width and beyond it. Read sizes 862, 863 and 2220 are
the largest payload that is taken, one byte more, and a full chunk with such a
payload behind it. Two handshakes are two sessions of one address, with the
replayed challenge of the first, or one each of two addresses. In
`sealed_relay` two chunks that wait give a batch whose length does not fit, a
wire of three units cuts a frame in its middle, and sequence numbers modulo 2
repeat at the third packet. In `raw_server` one connection goes through every
stage while the other is counted and uncounted beside it; the counter wraps at
three if it can. Two requests are every pair of operations on one peer; the
second peer makes the flush of one request persist the half-done work of the
other. All safety properties of the passing runs are also proved for every value of
these constants (section 4).

Deadlock is checked in `mux_pool`, `peer_store`, `tunnel` and the two runs with
a violation. It is off where the system stops for good: when the session is
over, every bounded resource is used up, or every end has closed.

### The properties found violated

1. `OneConnection`. A creator's authentication fails and it drops its
   connection; the next creator installs a live one; now the first
   connection's driver gets the lock and sets `MUX_CLIENT = None`. The next
   session dials a second connection beside the one in use.
2. `DeletedStaysDeleted`. `delete_peer` removes the record; a toggle that took
   the lock before writes it back; `delete_peer` gets the lock, empties the
   map and answers 200. After a restart the peer is served again.

### Other observations

These came up while modelling. No run of their own shows them; each is a
disjunct, an exception in a property, or a hazard in `PROJECT.json`.

- The target closes its half: the server's download task breaks out of its loop
  without END_STREAM and its upload task keeps the stream alive, so the
  client's download task waits for an end that does not come, until the app
  closes. (`MuxStream`; this is why `RelayWindsUp` starts from the client.)
- The server's `select!` uncounts a multiplexed relay when one task ends; the
  other one is detached and goes on. `RawServer` joins its tasks, and there the
  count is exact.
- The decoder of `udp_obfs` rebuilds the nonce from bytes of the ciphertext
  (`opens` in `UdpLink`); chunks of 1358 bytes are cut where 862 are accepted,
  and the rest is logged and lost.
- A UDP target that closes between the spawn of the relay and the insert leaves
  a dead session in the table, and its address deaf to new handshakes (`early`
  in `ClosedLeavesTable`).
- A start clears the flag that an earlier stop has set, also a start that is
  refused: the earlier tunnel goes on (the premise of `StopEndsAll`).
- A stop drops the runtime and with it the driver at `connection.await`
  (`c_api.rs:60-72`, `jni_wrapper.rs:127-139`, `inbound.rs:149-160`), before it
  stores `is_closed` and empties `MUX_CLIENT`. The static outlives the runtime:
  the next start gets the dead client as a live one, every stream on it fails,
  and no creation replaces it (`OrphansAreKept`), unless another connection's
  driver happens to empty the slot. The comment at `inbound.rs:155-156` says that
  it is reset so that the next stream does not get a dead connection.
- The two ends of the UDP transport label the keys of the handshake as each sees
  it: the client encrypts with "...pre-session-tx" and decrypts with
  "...pre-session-rx" (`inbound.rs:1780-1781`), and so does the server
  (`outbound_udp.rs:97-98`). So neither opens what the other sends.
- The writer's copy of the descriptor is made late (`c_api.rs:207`): when the
  reader has closed the number by then, the copy fails or is one of another
  file. The model marks it "stray"; `ReaderOwnsItsFd` is about the reader's.
- A lookup of the server's own name that is not in the cache waits for the lock
  under which the dial waits for it. Only the resolver's patience ends that
  (`GivesUp`), so `CachedNameReconnects` has the cache in its premise.

### Fairness

Every liveness property is checked under weak fairness of the code's own tasks
(tokio runs a task that can run), and what is assumed beyond that is named:

- `MuxPool`: tasks and drivers run for as long as they are not dropped with
  their runtime: fairness of a driver says nothing once `DriverDropped` took it,
  and `DrivenDeadLeaves` claims nothing of such a connection, nor
  `EveryCallReturns` of a task that was dropped. `RuntimeFairness` also says that
  h2 winds up a connection whose last handle is gone. `PeerAnswers` is an assumption on the other side:
  dialling and authentication end. The code does not enforce it (only the TCP
  connect has a timeout), which is on the hazard list. Tasks need not start,
  finish or die.
- `MuxStream`: with the client's 15 s timeout on the response and a `connect`
  that ends. `EndsRead` assumes that app and target read what they are sent.
  Nothing makes them produce, close or break.
- `NetTcp`: the poll loop always wakes by its time-out, and rests once smoltcp
  has nothing left to say (strong fairness: it may be asked again in
  between). The device receives what is queued for it and acknowledges what
  it received, however often a frame is lost.
- `DnsForward`: lookups and sessions run, time passes. Strong fairness of
  `Connects`, and of the answer past the TUN for the server's name, says that
  what is tried again and again succeeds once; `EveryLookupEnds` does not use
  it. That a stream's response is answered or the connection ends is the
  server's doing: `response_future` has no timeout.
- `TunnelLifecycle`: threads and tasks run, loading a URL ends. The device and
  the application owe nothing, so a tunnel must end although no packet comes.
- `SealedRelay`: each side as one process. The local ends need not produce or
  close.
- `RawServer`: handler and tasks; a client that has not gone reads what it is
  sent (it need not send or close).
- `UdpServer`: its specification states the fairness of its timers and tasks;
  its properties, and those of `UdpLink` and `PeerStore`, are safety.

## 4. What is proved

Each `...Proofs` module proves, for every value of the constants, what TLC
checks on the instance. Assumptions are those of the modules: windows, id
spaces and capacities are positive, `None` is no task, connection, request or
peer, no task is a connection, there is at least one client address, and `active_connections` can count
all connections.

- **MuxPool**: `TypeCorrect`, `CreationIsExclusive`, `StreamsAreAuthenticated`,
  `NoDriverEndsBeside`, `DoubleCheckedLocking`, `OrphansAreKept`. The inductive
  invariant adds to
  the properties what the write guard protects from the second check to the
  install: a connection being set up is not gone, because its driver's clear
  needs the lock too (`CreatorInv`), what is in the slot is authenticated and
  no driver has run to its end beside it (`SlotInv`), and the dead client the
  holder saw stays dead (`HolderInv`). `OrphansAreKept` needs that a driver's
  request is in the queue once and only while it waits (`ClearInv`): a driver
  that was dropped has left none behind that would empty the slot.
- **DnsForward** (in `MuxPoolProofs`): `DnsTypeCorrect`, `AnswersFresh`,
  `QueuedOnce`. An answer is fresh because an entry in the cache is exactly as
  old as the answer it holds (`AgesOK`): a hit does not renew it, and whoever
  saves writes an answer of his own. The types say that nobody is twice in the
  lock's queue. That is not inductive: it takes that the queue holds exactly
  those whose state is to wait (`LineOK`), so that who joins cannot be in it,
  and who leaves its head was there once.
- **MuxStream**: `TypeCorrect`, `BackpressureHolds`, `UploadsAreWhole`. The
  counters are ordered (`Flow`: `written <= recvd <= sent <= taken <=
  produced`, `released <= written`, and the window bounds `sent - released`).
  Whole uploads need to know who may end the upload and why (`Complete`,
  `Finished`) and how the states of the two sides go together (`Phases`): a
  reset by the server, for one, implies that its upload task is over.
- **NetTcp** (in `MuxStreamProofs`): `NetTypeCorrect`, `WakeupsKept`,
  `FinLast`. The counters are ordered and every buffer keeps to its capacity;
  `NoLostWakeup` is inductive with these types, because whoever changes what a
  parked task waits for takes its waker in the same locked section. `FinLast`
  needs `FinInv`: once smoltcp may send a FIN, `send_buffer` is empty and
  `send_state` keeps everybody from filling it again, and a FIN the device has
  seen came with all that was queued. No assumption on the network is used.
- **UdpLink**: `TypeCorrect`, `DuplicatesAreDropped`, `WindowLosesNothing`,
  `ImplementsAntiReplay`. `WindowExact` says the mask is the accepted ids in
  the window, read from the highest; with it, accepting an id is a step of
  `AntiReplay`. `DuplicatesAreDropped` needs that a serial number belongs to
  one datagram (`NetInv`) and that what was written was accepted (`WriteInv`).
- **UdpServer**: `TypeCorrect`, `RelaysAreUnique`, `DeadSessionsLeave`,
  `RelaysRemoveTheirOwn`. Table entries are changed by address, and what
  connects them to sessions is that the loop serves nobody while it connects:
  the entry it works for stays Pending, or its own relay has taken it out
  (`LoopOwns`); then a running relay is the one its address's entry names, or
  the one about to be inserted (`RelayNamed`).
- **SealedRelay**: `NoncesAreUnique`, `ChunksInOrder`, `PrefaceIsConsumed`,
  `TypeCorrect`. The k-th packet of an end
  carries the counter k (`Numbered`). For the order there is a plan g for each
  direction: g[k] chunks were sealed before packet k. What is under way carries
  the chunks its counter stands for in the plan (`SenderFollows`), and the
  reader has delivered the first g[counter] (`ReceiverFollows`). Each sealing
  extends the plan (`LongerPlan`); steps that only lose units, or add ones that
  are not sealed, keep it (`Quiet`). Nothing has to be known of `reading`: the
  order does not depend on the framing. For the preface, `Handshake` gives, for
  each step at which an end can be, the frames that are under way to it, one
  by one, and where the other end may then be; from the relay on it is enough
  that none of them belongs to the preface. `TypeCorrect` needs both: the plan,
  since chunks on the wire must be chunks that were made, and the handshake,
  since `WireCap` binds only an end that relays.
- **RawServer**: `TypeCorrect`, `ActiveIsExact`, `AnswersAreWhole`. The counter
  equals the number of counted connections, so it is positive whenever one of
  them loads it, and cannot wrap: the two steps of the decrement are harmless
  as long as everybody who decrements was counted. The download task ends
  behind the last chunk or because somebody has gone.
- **TunnelLifecycle**: `TypeCorrect`, `ReadersOwnTheirFd`,
  `DescriptorsReturned`. Until its reader is done a tunnel's number is open and
  its own; numbers of living tunnels differ; a copy made of a number that was
  already given to somebody else is marked "stray" and never taken for the
  device's. `MinIn` is the fact about least numbers that `dup` rests on.
- **PeerStore**: `TypeCorrect`, `CreationIsDurable`, `MapIsBacked`,
  `StoresAgree`, `DeletionHolds`. `LockInv` is what toggle's guard protects
  (its peer stays in the map between flip and save), `BirthInv` that an id is
  drawn once and its creation answered once, `StoreInv` follows a peer nobody
  deletes through disk, database and map, `QuietInv` says between which two
  steps of a request the stores may differ.

`TypeCorrect` of MuxPool, UdpLink and PeerStore, `CreationIsExclusive`,
`NoDriverEndsBeside`, `OrphansAreKept` and `QueuedOnce` state properties that no
run checks, because the runs check the stronger or deeper ones.

Only model-checked: all liveness properties (`DrivenDeadLeaves`,
`EveryCallReturns`, `RelayWindsUp`, `ShutdownCompletes`, `EveryLookupEnds`,
`CachedNameReconnects`, `StopEndsAll`, `OneEndsBoth`, `LeftIsUncounted`), which
are outside what the prover does. Every other property of a passing run is a
theorem.

## 5. What is left out

Bytes, keys and wording everywhere; MACs by whether they verify; HTTP/2
connection-level flow control, which couples streams; the keepalive PING (it
only makes a dead transport fail sooner); the client's TUN-to-UDP direction
beyond the datagrams it sends; panel settings, login, metrics and plugins;
configuration parsing; routing set-up, which is shell commands; VLESS, REALITY
and the hand-made TLS records, which are byte layout and not reached with the
default protocol; TLS, h2, smoltcp and sled, which are libraries. Tasks and
sockets that the server's UDP relay leaves behind for each lookup are a hazard
without a property: nothing in the code ends them.

Some of what is modelled is not reached in the present build, and is modelled
as the code stands: `start_udp_server` is public but `main` does not call it;
the client uses `handle_mux_session` and the TLS server `run_mux_server`, so
both handlers of `SealedRelay` have no caller; `RawServer` runs only without a
certificate.

## 6. Plan

What would add most from here:

1. **Composition of MuxStream with NetTcp** through its sink, to carry the end
   of the target's half down to the device.
2. **MuxUdpRelay**: the server's UDP relay with its two tasks and its leak, and
   `DnsForward` on top of it.
3. **PanelSettings**: the six writes of `save_settings` under crashes.
4. **Codec**: `encode_packet` and `decode_packet` as operators over small
   widths, to derive `opens` instead of assuming it.
