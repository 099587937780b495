# A TLA+ model of gsc-fq

gsc-fq is a TCP/UDP proxy written in Rust on tokio. It forwards connections
(forward proxy) and publishes services behind NAT (reverse proxy): a client
behind the NAT keeps one control connection to a server, the server listens on
the client's behalf, and every outside connection travels back over a yamux
stream. This directory models the parts of the program whose correctness
depends on the order of events, checks them with TLC and proves all of the
safety results with TLAPS. Source paths below are relative to the crate's `src/`.

## 1. The system

| Part | State | Operations | Interacts with | Hard behaviours | What makes it correct |
|---|---|---|---|---|---|
| Reverse server (`reverse_proxy/server.rs`) | `clients` map, one `handle_client` task per control connection, listener tasks, request channel, tunnels | accept, handshake, bind, register, accept outside requests, open streams, notice the loss, clean up, idle sweep, shutdown | client (TCP + yamux), kernel ports, outside peers | sweep against handler, abort is asynchronous, full channel, stream backlog, reconnect before clean-up | the map names live sessions only; no listener without an owner; a lost client releases its ports |
| Reverse client (`reverse_proxy/client.rs`, `start`) | retry count, backoff, three receivers of the shutdown signal | connect, handshake, serve, back off, give up, stop | server, operator | signals lost between receivers, lagging receivers, hanging server, losses that count as failures | limits kept, the signal is honoured, a lost session is followed by another |
| Tunnel (`server.rs` 527-611, `client.rs` 340-515) | two byte streams, framing state of both ends | header, length, payload, answer, copy | outside peer, local service | connection lost at any byte, errors of either TCP socket, framing, two-byte lengths | datagrams whole or not at all, TCP data unaltered, tunnels end |
| Admission and UDP sessions (`proxy/stealth_connection_handler.rs`) | per-IP counters and windows, session table, response tasks | check, register end, forward, expire | forward proxy, backends | checks and ends interleave over tasks, late removal, early returns that skip the release, peers that reset between check and end | limits hold, every slot is accounted for, sessions have one owner |
| Handlers and black hole (`proxy/stealth_handler.rs`, `handler.rs`, `blackhole.rs`) | per connection | connect, relay or swallow | zero-copy relay | timers, refused remotes | refused peers are held, others relayed |
| Relays (`proxy/zero_copy.rs`, `splice_optimizer.rs`, `high_perf.rs`) | two workers, pipes or buffers, counters | read, write in parts, join, time out | kernel, peers | partial and empty writes, errors in one direction, bytes left in a pipe, a second pipe that cannot be made | an ordered prefix arrives, no byte twice, counts are true, workers end |
| Adaptive copies (`proxy/adaptive_copy.rs`, `adaptive_stream.rs`) | sample, buffer, flush counters | sample, choose, copy, flush | any AsyncWrite | held-back data on an idle stream, thresholds at their boundaries | everything has arrived at Ok, little is held back |
| Resilient manager (`proxy/resilient.rs`) | sessions, pending data, error count, quality report, two fair locks | create, cache, recover, report, expire | backends | fair locks taken in several orders, a failed recovery, expiry of used sessions | cached data is in one place, calls end, sessions expire |
| Proxy server, runtime, configuration (`proxy/server.rs`, `config/runtime.rs`, `config/loader.rs`) | configuration, services, instances, signal handlers, broadcast | load, validate, build, start, bind, broadcast, join, exit | all services, the operator | bind failure, signals before the handlers exist, late subscribers, first service to end stops all | accepted forward proxies can be built, a caught signal stops everything, an error ends the process |
| Control messages, selection, metrics, TOTP, monitoring, crypto, errors | counters, bits | - | - | - | see section 6 |

## 2. Modules

Actions are cut at the code's awaits: what a task does between two awaits, or
while it holds a mutex that no other await interrupts, is one action.

**ReverseServer** - `pc[c]` is the position of `handle_client` for control
connection `c`: `hello` (waiting for the ClientHello), `bindTcp`/`bindUdp` (the
loop over the proxy list, `next[c]` its index), `serving` (the `select!`),
`opening` (awaiting `poll_new_outbound`), `cleanup`, `done`. `clients` is the
shared map from peer address to the connection that owns the session;
`handles[c]` the collected JoinHandles. `replaced` is history: the connections whose
session another one from the same address has overwritten. A listener task is `accept`ing, blocked
in `send`, or `closed`. A message is abstracted to the facts the handshake
decides on; `Verdict` applies the checks in the code's order. Kernel ports
(`PortFree`), yamux (`Streams`, `unacked`, `AckBacklog`) and the clock are external.
yamux is modelled from how the code uses it: opening fails beyond
`max_num_streams`, waits while too many streams lack an ACK, and only
`poll_next_inbound` reads ACKs or reports the loss of the peer.

**ReverseClient** - the loop of `start()`; `pc` is `head` (try_recv), `begin`,
`connect`, `handshake`, `yamux`, `error`, `backoff`, and `Ok`/`Err` for the
result. A broadcast receiver is the number of signals it has read or skipped;
`TryRecvIsOk` is exact about `Empty` and `Lagged`. `late` is a history variable.

**TunnelStream** - both ends of one stream, byte by byte. A byte is a digit of
base `Base`; lengths and ports are two digits, so the conversions
(`BeBytes`/`FromBe`, the header) are computed, not assumed. The outside and the
local TCP socket may fail at any time of the copy (`OutsideFails`, `LocalFails`: the
Err arms of server.rs:548 and client.rs:509); `failed` is the history of that. Its definitions carry
the prefix `Tunnel` where ReverseClient has the same name: one proof module extends
both.

**Admission** - every connection and packet is a task; the sections under the
`ip_stats` and `udp_sessions` mutexes are single actions. `admitted` is history: the
times of all admissions. `recent_connections` is the set of the numbers of those
it still holds, so that two admissions of one instant stay two.
`cps_limit` is a number after `as usize`; the relay behind `handle_stealth` is a
step that succeeds, fails or panics, and is modelled in Relay. `addr[c]` is what
`peer_addr()` told the task, which asks twice (lines 68 and 81): without an address
at first there is no check, without one later no slot is given back. A panic is
that of a build that unwinds; the release profile aborts the process.

**ByteRelay** - the abstract specification of every relay: per channel, what was
sent, what was received (always a prefix of it), and a verdict: `complete` only if
everything arrived, else `cut`.

**Relay** - one relayed connection. `call` is the handler (connecting, black hole,
setting up, relaying, the result of the call), `impl` one of the seven relay
functions (`Traits`). They share their structure, so what sets them apart is a set of
traits: does the function go on after a write error, count parts or
chunks, keep its count at an error, make its pipes one after the other, bound its
join, relay one way only. `pc[d]` is the worker of direction `d`, `buf[d]` its
pipe or Vec, `chunk`/`left` the inner write loop. A byte is its position in the
stream, so that loss, repetition and reordering all show. A write that fails and
a splice that takes nothing (`WriteTakesNothing`) are different: the second is no error
anywhere. `forward_adaptive` is not among the functions: it relays nothing (section 6).

**AdaptiveCopy** - the four one-way copy functions over a writer that may hold data
back until it is flushed (`held`). The sizes of the code are constants whose
order is assumed, not their values.

**Chunks** - the two operators on buffers that Relay and AdaptiveCopy share.

**Resilient** - callers of the manager's public functions and the health check as
tasks over tokio's fair locks: `queue[l]` is the line at lock `l`, readers and
writers in order of arrival. Who stands at its head takes, uses and
releases the lock in one step; only `get_quality_stats` keeps its read guards
over several (`HealthHolds`), and a writer waits for them. `pending`, `batch`, `handed` and `lost` are the places a cached chunk can be.

**Config**, **Lifecycle** - Config is pure: the search for a file, `validate` with its
repairs, the parsing of addresses (a text is the sequence of its parts between
colons, so splitting and joining are what they are in the code; `ConfigFiles` is
what serde can make of a file) and what `add_proxy` refuses. Lifecycle EXTENDS it and runs the process: `run` is
`RuntimeManager::run`, `fwd` is `ProxyServer::start`, `inst[i]` and `udp[i]` the two
tasks of an instance, `rx`/`udpRx` whether their receivers were made before or
after the broadcast. A service ends in order, with an error its task prints, or with
a panic (the Err arm of `select_all`; the handlers' `expect` for the forward service).
The reverse server and client are one step here: how they
end is the business of their own modules. A second host, `library`, stands
for an owner that calls `start()` itself and may keep the server afterwards.

**MC\*** modules only supply constants. **\*Proofs** and **ByteRuns** hold the theorems.

Definitions marked `faulty variant` are not used by the specifications. They are
plausible slips of the code (a dropped removal, an off-by-one) that break the
property they are paired with in `PROJECT.json`.

## 3. Runs

| Run | Checks | Result |
|---|---|---|
| `server` | `TypeOK`, `NoGhostSession`, `RegisteredListenersAlive`, `NoOrphanListener`, `DisconnectReleasesPorts`, `BlockedListenerResumes` | hold, 109,587 states |
| `server_backlog` | `OpeningEnds` | violated: see below |
| `server_idle` | `CleanupSparesActive` | violated |
| `client_loop` | `TypeOK`, `SignalsStopRetries`, `ShutdownHonoured` | hold, 7,324 states |
| `client_retry` | `LostSessionReconnects` | violated |
| `tunnel` | `TunnelTypeOK`, `RequestIntact`, `TcpTransparent`, `UdpTunnelEnds` | hold, 73,054 states |
| `tunnel_reply` | `ReplyIntact` | violated |
| `admission` | `TypeOK`, `ConcurrencyLimit`, `RateLimit`, `SessionOwned`, `SlotAccounting` | hold, 378,546 states |
| `relay` | `TypeOK`, `CountsDelivered`, `ReturnedIsQuiet`, `Promise`, `WorkerEnds` | hold, 21,604 states |
| `copy` | `TypeOK`, `HeldBackBounded`, `Promise`, `CopyReturns` | hold, 6,137 states |
| `resilient` | `TypeOK`, `Accounted`, `StatsConsistent`, `CallsEnd`, `SessionsExpire` | hold, 78,273 states |
| `lifecycle` | `StartJoins`, `ConfigSound`, `ShutdownStops`, `ErrorEndsAll`, `UdpEnds` | hold, 102,650 states |

What the violated ones show:

- `server_backlog`: the handler awaits `poll_new_outbound` outside the `select!`
  (server.rs:527). With the ACK backlog full nobody reads the ACKs it waits
  for. The liveness properties except exactly this state (`Stalled`).
- `server_idle`: `last_activity` is written once (server.rs:125); a busy session
  is removed five minutes after its handshake.
- `client_retry`: two refused connects, a session that works and is lost, and the
  client returns Err: with every loss counted for good (client.rs:88) a working
  session may be the last, where the notes of the project promise unlimited retries.
- `tunnel_reply`: the client sends a UDP answer without the length the server
  reads first (client.rs:433, server.rs:577).

What the others show of the code beyond their names. Where a natural property
is false, the property names its exceptions, so that TLC and the proofs show that
there are no others in the model:

- A splice worker leaves its inner loop with bytes in its pipe after a write error
  (Linux relay, zero_copy.rs:114) or an empty write (all of them). No later byte is
  reordered and nothing undelivered is counted, but once the pipe is full the worker spins for
  ever: `Wedged`. A sink that stays connected and takes nothing keeps any worker in its
  write for ever (zero_copy.rs:110). These are the two exceptions of `WorkerEnds`.
- If the second pipe cannot be made, the first worker outlives the call
  (zero_copy.rs:153); so would both after the timeout of handler.rs:258, in a function
  without a caller. These are the exceptions of `ReturnedIsQuiet`.
- `adaptive_stream_copy` never flushes a stream of exactly the sample's length
  (adaptive_stream.rs:320): `SampleUnflushed`, the exception of its `Promise`.
- The report of the resilient manager reads the error count while it already
  holds it for reading (resilient.rs:346). A writer that queues between the two
  reads stops both for ever: `Stuck`, the one exception of `CallsEnd` and
  `SessionsExpire`, and final by theorem `StuckForEver`. Sessions expire only if
  `start_health_check` was called, which nothing in the built crate does.
- A recovery that cannot reconnect loses the pending data it took
  (resilient.rs:294): `Accounted` has the place `lost` for it.
- Slots that are never given back, in `SlotAccounting`: of every UDP packet, of a
  connection whose `set_nodelay` fails, of one whose peer resets between the check
  and the second `peer_addr()`, and of one whose relay panics. A connection whose first
  `peer_addr()` fails is served without a check and outside every limit.
- A session replaced by a later one from the same address
  (reverse_proxy/server.rs:501) loses its handles: its listeners can no longer be
  stopped. It is the exception of `NoOrphanListener` and `DisconnectReleasesPorts`.
- `DisconnectReleasesPorts` says that the listener tasks end. A UDP socket is
  closed only when the requests and tunnels that share it are gone too.
- An instance that binds UDP after the broadcast subscribes too late
  (proxy/server.rs:336). The program is saved by dropping the server; an owner
  that keeps it has a UDP task that goes on: the exception of `UdpEnds`.
- The answer to a client precedes the binds and a failed bind is only logged
  (reverse_proxy/server.rs:367), so a client that is back before its old session
  is gone keeps a session without a listener.
- When `main` returns, tokio waits for relay workers on blocking threads: one
  open connection holds the process (`Busy` in `ErrorEndsAll`).

Where the code and a text of the repository disagree beyond the four violated runs:

- runtime.rs:128 says "Wait for all services (any error will terminate the program)".
  The second half holds (`ErrorEndsAll`); the first does not, `select_all` waits for one,
  and the first service to return, cleanly too, ends the others.
- FIXES_AND_IMPROVEMENTS.md:210 has the handshake bounded by the connection timeout;
  only the connect is (client.rs:254), and `ShutdownHonoured` leaves the handshake out.
- adaptive_stream.rs:75 says that streams of 64 KB and more are spliced. The sample
  is at most 32 KB and is what line 119 compares with 64 KB, so the position `splice` of
  AdaptiveCopy is never reached and the TCP version gives such streams up.
- adaptive_stream.rs:325 says that the last data is flushed at the end: not for
  `SampleUnflushed`.
- loader.rs:59 and 128 allow host names, which `build()` refuses: `ConfigSound` is
  about hosts that are IPs. It says nothing of the control port of
  `reverse_proxy_server` (loader.rs:262) either, which no code validates: 0 and
  the port of a forward proxy are accepted.
- resilient.rs:408, 427 and 467 describe a relay in both directions; lines 438 and 477
  write back to the peer just read.

### Refinement

`Promise` is `Abstract!Spec` of ByteRelay, in Relay with one channel per direction
and in AdaptiveCopy with one channel. What the sink has received is `out`; the
verdict is `open` while the worker runs, then `complete` if none of its calls failed
and `cut` otherwise (in AdaptiveCopy: on Ok, but for `SampleUnflushed`). In Relay the
verdict is read off the history variable `fault`: the sink itself sees a FIN in both
cases, and the Linux relay returns Ok in both. A
read, an accepted but unflushed write and an error or an empty write in the middle are stuttering
steps, a write or a flush is `Deliver`.

### Bounds

- Server: two connections from one address, one port, a channel, a stream limit
  and an ACK backlog of one. Two is what every race needs: an old session and a new one
  that want the same port and the same key of the map; the handler, the sweep and two
  listeners of each run concurrently. A capacity of one makes "full" reachable with
  one request; one connection gets two requests, one queued and one blocked.
  `IdleLimit = 0`, `MaxTime = 1`: a session is either fresh or expired. No symmetry.
- Client: five retries and a cap of 6, so that the backoff (1, 2, 4, 6, 6)
  reaches its cap; five signals, so that receivers lag more than once. The retry run
  has three retries and one signal.
- Tunnel: base 3 makes a datagram of three bytes need the high byte of its
  length; empty datagrams, two entries for one port, answers whose first bytes
  read as a length that is zero, available or too large.
- Admission: three connections and two packets of one IP against limits of two, a
  window of two ticks, plus a packet from an IP that is not on the list.
- Relay: all seven functions, a buffer of two bytes, three bytes one way and one
  the other: a chunk written in two parts, a full pipe, and a byte after it.
- Copy: streams of up to eight bytes against sizes in the order of the code
  (sample 2, buffers 1 to 4, intervals 5 and 8): shorter than, equal to and longer
  than the sample, each buffer and each interval.
- Resilient: two callers, one session, four calls, two retries and an error limit
  of two: a creation, a cached chunk, two overlapping recoveries, and enough
  errors to reach the limit, with the health check between any two steps.
- Lifecycle: at most two proxies and one connection per instance, so that one
  instance binds while the other serves or has failed; every choice of services;
  files with a good and a bad value of every field, and a control port that is
  zero, one or the port of a proxy.

### Fairness

- Server: weak fairness of each handler and of each listener task - the runtime
  polls every task that can run. Nothing is assumed of clients (they may stay
  for ever, `DriveConnection` needs their ACKs), of outside peers, of tunnels, of
  time or of the operator. `select!` picks a ready branch
  at random, so a stream of requests does not keep the handler from noticing a
  lost peer; in the model the bound on requests stands for that.
- Client: weak fairness of its own steps and timers, none for the server's
  answers, the loss of the connection or signals.
- Tunnel: weak fairness of each end as a whole; the two-second timer is a step
  of the client. The local service may never answer.
- Relay: weak fairness of the handler and of the reads of each worker, which have a
  thread or task each. Writes are not fair: a sink need not take a byte. Peers send
  and close as they please.
- Copy: weak fairness of the copying task, its writes and flushes included: the sink
  is assumed to drain. None of the peer or of the writer's own draining.
- Resilient: weak fairness of every call in progress (a lock serves the head of
  its line, a connect ends at the latest in its timeout), of the health check and
  of the passing of time. No call is ever forced.
- Lifecycle: weak fairness of the runtime's, the server's and the instances' steps
  while the tokio runtime is driven. Services, signals, peers and the owner of a
  library do as they please.

`CHECK_DEADLOCK FALSE` where the system may stop: all connections gone and
the clock at its bound, a relay that has returned, a process that has ended, or
callers that make no more calls.

## 4. Proofs

TLAPS proves these for all values of the constants that satisfy the named
assumptions (`ServerAssumption`, `ClientAssumption`, `TunnelAssumption`, `AdmissionAssumption`,
`ConfigAssumption`, `RelayAssumption`, `CopyAssumption`, `ResilientAssumption`, `LifecycleAssumption`), which
TLC evaluates on every run.

- **ReverseServerProofs**: `TypeCorrect`, `MapNamesLiveHandlers`,
  `RegisteredSessionsListen`, `NoOrphans`. The properties are not inductive
  alone: that a sweep leaves other sessions' listeners alone needs
  `HandleInv` (a handler's handles are its own listeners, every spawned or
  aborted task is among them, and before registration all run and none is
  aborted), and the binding loop needs `SetupInv` (what the handler's locals hold
  at each position). `IInv` is the conjunction; one lemma per conjunct has one case
  per action. Addresses are arbitrary: a session may be replaced by another of its
  address at any time, and `NoOrphans` then excepts the replaced one.
- **ReverseClientProofs**: `TypeCorrect`, `ShutdownBoundsRetries`.
  `CountInv` keeps an attempt below the retry limit, `LagInv` ties the late passes to the
  position of the loop's receiver. For the tunnel:
  `TunnelTypeCorrect`, `DatagramIntact`, `TcpUnchanged`, for every base of a byte,
  proxy list, request and answer. `Wire(r, i)` is the i-th byte that request `r`
  puts on the stream; `UpInv` says that what is on its way to the client is the
  part of the wire between the positions of the two ends, and ends where the
  server stands while nothing is lost. From it `ReadInv` follows: what the client
  reads as a port, a length or a payload is what the server wrote as one. The
  conversions are inverse to each other by `TwoBytes` and `ReadBack`, and the lookup
  finds the first entry because every set of indices has a least one. `DownInv` is
  the same for the answer; `EndInv` says what is empty when an end closes
  and neither the connection nor a socket has failed.
  Even the types need all of it: a misread port would have no entry.
- **AdmissionProofs**: `AdmissionTypes`, `SessionsOwned`, `SlotsAccounted`, `LimitKept`,
  `RateKeptEverywhere`. A task that has
  stopped but not yet removed its session still owns it, because nobody inserts
  under an address that has an entry. The counter of an IP is compared with the
  cardinality of the set of its holders: each admission adds one element, each
  release removes one, a leak leaves its own behind, and the check admits only below the
  limit (`Exact`).
  `RateInv` says that no admission of the last second has been forgotten by the
  pruning (`Remembered`), so the set the check counts contains every window that
  ends now; the windows that ended earlier are not touched (`Bounded`).
  That `active_connections` does not wrap is `StatsTyped`: it is the number of the
  connections that were counted and not taken off, those whose relay failed
  included.
- **RelayProofs**: `RelayTypes`, `CountsRight`, `QuietReturn`, `RelayImplements`. The
  invariant says where each byte is: `Order` - out, buffer and unread input are
  consecutive runs of what was sent; `Shape` - what the write loop's locals say
  about the buffer, and that only a failed or an empty write leaves more in it; `Counting`
  - what has been counted and what a chunk still owes; `Started` - which workers a
  state of the call can have.
- **CopyProofs**: `CopyTypes`, `HoldsLittle`, `CopyImplements`. `Order` as
  above with the sample and the writer's hold as the middle part, `Sampled` - how
  full the sample is at each position - and `Flushing` - what is held was counted
  since the last flush, but for a sample taken for flushed.
- **ByteRuns** holds the lemmas about consecutive runs that both use.
- **ResilientProofs**: `ResilientTypes`, `ReportsConsistent`, `StuckForEver`,
  `ChunksAccounted`. `Places` says where callers and the health check can be, `Frozen`
  that the error count does not change between the two reads of a report. `Books`
  are the accounts of a session: what is pending is the run of numbers after
  `Taken(s)`, and the numbers up to it are spread over the recoveries' batches and
  the two histories without overlap (`Apart`) and without a gap (`Covered`). Every
  action moves a whole run from one place to another; that a batch is in only
  one needs `EmptyHanded`: a task that is not connecting has taken nothing.
- **LifecycleProofs**: `LifecycleTypes`, `ServerJoins`, `ConfigIsSound`. For any file:
  the repairs of `validate` change only values it then accepts, a second
  application changes nothing (`RepairOnce`), an accepted proxy has a port of its
  own in 1..65535 (`PortsBindable`), so that `build` can refuse only hosts
  that are no IPs (`IpsBuild`); and the configuration is fixed once it is loaded (`ConfigFixed`). `Ordered` and `Ending` tie the
  position of `start()` to signal, broadcast and instances, `SomeoneEnded` the
  end of the process to a service that ended.

Every invariant and both refinements that the passing runs check are thus proved.
Only model-checked are the liveness properties (`DisconnectReleasesPorts`,
`BlockedListenerResumes`, `ShutdownHonoured`, `UdpTunnelEnds`, `WorkerEnds`,
`CopyReturns`, `CallsEnd`, `SessionsExpire`, `ShutdownStops`, `ErrorEndsAll`, `UdpEnds`):
fairness and ENABLED are out of the prover's reach. So are the four violated
properties, which are refuted by a trace. Nothing is proved by induction over
data: the definitions the theorems rest on use quantifiers, sets and CHOOSE where
the code loops.

## 5. Further work

- A composition of server, tunnel and client over one control connection with an
  abstract specification of a published port.
- A TCP tunnel as a refinement of ByteRelay, with the two streams as its channels.

## 6. Not modelled

- Control messages (`reverse_proxy/protocol.rs`): length-prefixed JSON of a library.
  The models take the decoded message as an input, including one that fails
  to decode. Ping and Pong exist, but nobody sends them.
- Selection, metrics and quality-aware connections: compiled, but nothing in the
  program constructs them; floating-point scores that no other part reads.
- `SignalHandler` of `utils/signal.rs`: unused; the server waits for its signals
  itself, and that is modelled in Lifecycle.
- `forward_adaptive` of `proxy/resilient.rs` (409-507): both of its tasks write to the
  write half of the socket they read (438, 477), so it echoes each peer instead of
  relaying, and no property of a relay applies. Only `enhanced_handler.rs` calls it,
  which is not compiled.
- TOTP and cryptography: functions over hashes and ciphers, bit level.
  ReverseServer takes the verdict of `verify` as part of the message.
- Monitoring: counters and reports that nothing else reads.
- TOML and the replacement of a bare `null` before it: text processing. Config
  starts from the fields of the file.
- Error types, debug output and operating-system helpers have no state of their own.
- Files outside the build, named by no `mod`: `service/*`, `proxy/handler_copy.rs`,
  `proxy/enhanced_handler.rs`, `crypto/handshake.rs`, `crypto/stream_cipher.rs`.
