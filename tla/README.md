# Verification of lkrequest-rs

TLA+ specifications of the stateful core of lkrequest-rs, an HTTP client that
imitates browsers on the wire: connections and the budget they draw on, HTTP/2, QUIC
establishment, DNS, the TLS client, the life of a request with its redirects and
retries, proxies and sessions, and the asynchronous C interface. TLC checks the modules
on small instances; TLAPS proves most of their safety properties, and that the resolver
implements its abstract specification, for every value of the constants. `PROJECT.json` maps every
definition to the lines it models and lists the runs, the hazards they are for, the
theorems, and the places where the code and its own documentation disagree.

## 1. Inventory of the system

| Component | State | Operations | Hard behaviour | What makes it correct | Here |
|---|---|---|---|---|---|
| Connection pool (`lkrequest/src/connection_pool.rs`) | H1/H2/H3 entries per key, `connections_in_use`, permits, driver and tracker tasks, legacy records | reserve, insert, acquire, return, remove, evict, clear, and the deprecated methods | speculative dials take slots without the pool's mutex; lost insertion races; aborts that end later | the counter equals the permits alive and stays below the limit; one multiplexed connection per key; H1 connections are exclusive; no slot leaks | `ConnectionPool` |
| HTTP/2 driver (`lkh2/src/driver.rs`, `adapter.rs`) | command and cancellation channels, pending semaphore, waiting queue, pending streams, shutdown deadline | `send_request`, drop of a future, a body or a handle, the loop's select arms, dispatch | cancellation overtakes its command; the driver ends with work in every queue; biased select | every caller gets an answer; slots are exact; first come first served; the driver stops | `H2Driver` |
| HTTP/2 engine (`lkh2/src/engine.rs`, `conn_state.rs`, `stream.rs`, `policy.rs`) | stream states, four kinds of windows, buffered bodies, accumulators | DATA, HEADERS, SETTINGS, WINDOW_UPDATE, RST_STREAM, GOAWAY in; DATA and WINDOW_UPDATE out | SETTINGS shrink windows below zero; partial sends; updates held back by a policy while others are on their way | windows exact at both ends; bodies neither lost nor doubled; nobody stalls | `H2SendWindow`, `H2RecvWindow`, `H2Stream`, parts of `H2Driver` |
| QUIC establishment (`session/transport.rs`) | `quic_in_flight`, one Notify per origin | register, wait, handshake, 0-RTT, fallback, guard drop | Notify without a stored permit; guards of requests that registered nothing; dropped futures | no dead marker, no forgotten Notify, waiters woken | `QuicInFlight` |
| TCP dialing (`tcp_fingerprint.rs`) | attempts, their windows, the deadline | primary and speculative attempts, cutoff | a success that races the cutoff; a slot for speculation that comes late or never | every address is tried once, a reachable one is found | `Dial`; the permits in `ConnectionPool` |
| DNS (`dns.rs`) | cache, process-wide map of lookups | resolve, join, publish, expire | leader dropped, task dropped with its runtime | one lookup per name, everybody answered with what was found | `Dns`, `SingleLookup` |
| Request (`session/transport.rs`, `request.rs`, `retry.rs`, `hsts.rs`) | hop, headers, attempts, what is on the wire | retry loop, redirect loop, pooled send, H2→H1 fallback, race, deadline | resending what the server has processed; chains over origins | credentials stay home, no cleartext, duplicates only where accepted, every call ends | `Request` |
| Alt-Svc, broken QUIC, protocol decision (`alt_svc.rs`, `protocol.rs`, `session/pipeline.rs`) | entries with expiry, quarantines of origins and of routes | learn, decide, attempt, probe, report, expire, evict | learned state is read before an await and used after it, by a probe after a whole request; reports in two steps, from four call sites | QUIC is skipped only where a failure was reported, and a quarantine is passed over only by whoever looked before it was set | `QuicChoice` |
| Streaming call (`session/streaming.rs`, `response.rs`) | reservation of each leg, bridge task and its channel of two, decoder | pooled stream, race of TCP and QUIC, open, read, decode, drop | permits handed from a leg to a bridge; a task between the connection and the reader; reads dropped half way | a call takes what it needs of the budget and gives it back, the body is read whole or an error is seen | `Streaming` |
| Proxy chains (`proxy/connect.rs`, `socks5_udp.rs`, `probe.rs`) | one stream for all hops, control connections, relays | CONNECT, SOCKS5 greeting, authentication and connect, UDP ASSOCIATE, nested datagrams, probe | retries over addresses start the chain anew; the target may speak at once | every hop gets its own credentials, nothing of the target's bytes is lost, datagrams visit the hops in order | `ProxyTunnel` |
| Proxy pool, session pool (`proxy_pool.rs`, `proxy/provider.rs`, `session_pool.rs`) | rotation, failures, cooldowns, removed proxies, permits, idle sessions | acquire, report, health check, return, evict | shared cursor; reports over several locks; guards dropped without a runtime | permits exact, no unusable proxy handed out, cooldowns with evidence | `ProxyPool` |
| TLS client (`lktls`, `lkrequest/src/tls/connector.rs`) | handshake state, transcript, record keys, write buffer, tickets | handshake messages, key updates, reads, writes, shutdown, tickets | coalesced and cut messages, retry, ECH, resumption, partial writes | transcript and keys agree with the server's, the peer is authenticated, bytes keep their order, a ticket is used once | `TlsHandshake`, `TlsStream`, `SessionStore` |
| C interface (`lkrequest-ffi`) | operations, count of outstanding ones, streaming responses | start, wait, cancel, take, free, read, close | cancel racing an answer; two locks per read | capacity exact, one outcome, sleepers wake, no chunk lost | `FfiOps` |
| HPACK (`lkh2/src/hpack.rs`, `hpack_enc`) | dynamic table, pending size update, partial header block | encode, resize on SETTINGS, assemble CONTINUATION, decode | both ends evolve their tables from frames that cross on the wire | every block is read as the fields it was written from | `Hpack`, `H2RequestHeaders`, `H2ResponseHeaders` |
| QUIC/H3 stacks (`lkquic`, `lkh3`, `lktls-quic`), WebSocket | endpoints, drivers | adapters of external stacks | – | – | not modelled |
| Codecs, profiles, ClientHello, certificates, cryptography, builders, telemetry, tools | – | – | data formats | – | not modelled, see section 5 |

How they interact: a call of `RequestBuilder::send` (`Request`) decides for each hop
between TCP and QUIC (`QuicChoice`) and asks the pool for a connection of its key. If
there is none it reserves a permit (`try_reserve_connection`), resolves the name
(`Dns`), dials (`Dial`, TLS, HTTP/2 preface, or QUIC under the in-flight marker of
`QuicInFlight`) and inserts the connection, whose permit then belongs to the pool
entry (H1) or to the task that tracks the connection's driver (H2, H3). An HTTP/2
request is a command to the driver of its connection; the driver owns the engine, which
owns streams and windows. The pool ends a driver by dropping its handle or by aborting
its task. A session may come from a session pool, with a proxy of the proxy pool. A C
program sees all of this through operations it waits on.

## 2. Modules

| Module | Models | Notes |
|---|---|---|
| `ConnectionPool` | `ConnectionPool`, `ConnectionPermit`, `SpeculativeConnectionBudget`, tracker tasks; callers in `transport.rs` and `tcp_fingerprint.rs` | All methods run under the pool's mutex and are one action each, except `try_reserve_connection`: speculative dials and permits dropped elsewhere use the atomic counter without the mutex, so it is split at each access (`ReserveBegin`, `ReserveGranted`, `ReserveEvict`, `ReserveRefused`) and the other methods wait (`MutexFree`). `last_used` is the relation `older`; expiry is any set closed under it. A connection's identity is reused once nothing refers to it. |
| `H2Stream` | stream states of `stream.rs`, `cleanup_closed_streams` | extended by the driver and the two window modules |
| `H2Driver` | `NativeSendRequest`, `CancelGuard`, `driver_loop` and what the engine does that the driver sees | Queues are sets ordered by `ticket`, the order of `cmd_tx.send`. A turn of the loop is one select arm (`HandleCancel`, `HandleCommand`, the `Read...` actions, `HandlesGone`, `ShutdownTimeout`, `ConnectionLost`), followed by dispatch request by request (`Dispatch...`) because a write in it may fail. A dropped future takes two steps (`DropWaiting`, `FinishDrop`): the guard sends the cancellation before the receivers are dropped. |
| `H2SendWindow` | `build_data`, `drain_pending_data`, `handle_window_update`, `handle_settings` | `pending_data` is `held` per stream, drained in stream order, one item per step. SETTINGS that overflow one window leave the others resized or not, in the map's order. |
| `H2RecvWindow` | `handle_data`, `ThresholdFlowControl`, `ImmediateFlowControl`, and a server that keeps to its windows, with updates under way | A stream's threshold comes from the server's SETTINGS, as in the code; `starved` remembers the streams for which it was beyond our window. The server (`Data`, `ConnCredit`, `StreamCredit`, `SeesReset`) is external: it obeys RFC 9113 and nothing else. |
| `Hpack` | `DynamicTable`, `find_header`, `Encoder`; the decoder of the crate `hpack` is external | A field has a name, a value and a weight in entries; indices are those of the static table followed by the dynamic one. |
| `H2RequestHeaders` | `handle_settings` as far as it concerns the encoder, `build_headers_priority`, the split into HEADERS and CONTINUATION, and a server that decodes | SETTINGS and frames travel in order, each in its direction. Two size changes between two blocks announce only the last one, as in the code. |
| `H2ResponseHeaders` | `ContinuationAssembler`, `handle_headers`, `handle_continuation`, the decoder's limit, and a server that encodes | A block is decoded before its stream is looked up, so that the table follows also for streams the engine has forgotten. |
| `QuicInFlight` | the QUIC part of `establish_and_send` | One origin. A Notify is named by the request that put it into the map; a waiter registers (`Listen`) in a step after it cloned the Notify (`Start`), as in the code. |
| `Dial` | `dial_tcp_addresses` | The top of the loop and its select are two places (`spot`); which ready branch of the select runs is open. The clock moves only while the loop waits. |
| `SingleLookup` | what callers of a resolver are promised | abstract: one lookup of a name at a time, answers are errors or what a lookup of that name found |
| `Dns` | `CachedSystemDns`, `SystemDnsFlightGroup`, `InFlightTaskGuard` | implements `SingleLookup` (`LookupSpec`, an `INSTANCE` with a refinement mapping). A task publishes and removes its entry in two steps; a caller may be dropped wherever it waits. |
| `Request` | `send_impl`, `send_with_redirects`, `send_single_request`, `establish_and_send…` | A job is one future that carries the request; `Process` (the server) may happen after any `Transmit`, also when the job fails afterwards. |
| `QuicChoice` | Alt-Svc cache, `BrokenQuicTracker`, `discover_quic_support`, `decide_protocol`, `spawn_background_quic_probe`, and the reports of `establish_and_send_quic`, `establish_and_send_streaming_quic` and `preconnect_h3` | A task is a request, a streaming call or a preconnect, and then the probe it leaves behind: it learns, decides, tries and reports in separate steps. A probe starts (`SpawnProbe`) after the TCP request, on the discovery made before it. A request and a probe mark the origin for errors of the handshake only, the other two for any error (`BlamesOrigin`). Tables hold the ticks left; `late` remembers the quarantines that were set since a task looked. |
| `Streaming` | `send_streaming` and its transports, the H1 bridge task, `StreamingResponse` | A call has up to two legs, each with its reservation; other calls take and return slots meanwhile. The body is a sequence of chunks that decode to nothing, something or an error; the limits on its size are counted in chunks. Over HTTP/1.1 and HTTP/3 a cut is an error; an HTTP/2 driver may also drop the body channel in silence (`produced.silent`), as `H2Driver` shows. |
| `ProxyTunnel` | `connect_chain`, `connect_http`, `connect_socks5`, `udp_associate`, `Socks5UdpSocket`, `probe_socks5_udp` | Parties are numbered along the chain. A proxy may refuse at each step; the relays are external. |
| `ProxyPool` | `ProxyPool`, `ProxyRotator`, `SessionPool`, their guards and maintenance tasks | One action per lock scope. |
| `TlsHandshake` | `HandshakeDriver`, `QuicHandshakeDriver`, `Tls13Handshake`, `Tls12Handshake` | A message is its type, the choices its sender made and whether its checks succeed; a hash is the sequence of messages hashed. A record holds whole messages, the beginning of one behind them, or the rest of one. |
| `TlsStream` | `TlsStream` after the handshake, `PostHandshakeState` | Keys are numbered; a record knows the keys it was sealed with, and a record of data which write it is. |
| `SessionStore` | `InMemorySessionStore` | |
| `FfiOps` | `lk_op_*`, `lk_stream_*`, `lk_request_send_async` and the other starters | The README of lkrequest-ffi makes `Op` shareable and says that `StreamingResponse` is a single-owner handle that must not be driven concurrently: one thread (`owner`) drives the stream. |
| `MC…` | TLC instances | see below |
| `…Proofs` | the proofs, in eight modules | `ConnectionPoolProofs`; `H2Proofs` (`H2Driver`, `H2SendWindow`); `H2RecvWindowProofs`; `SharingProofs` (`QuicInFlight`, `Dns`); `ClientProofs` (`Request`, `QuicChoice`, `Streaming`); `FfiOpsProofs`; `TlsProofs` (`TlsHandshake`, `TlsStream`, `SessionStore`); `RouteProofs` (`Dial`, `ProxyTunnel`, `ProxyPool`) |

Components that share no state at this level are checked in one run (`MCParts`,
`MCSharing`, `MCSession`, `MCClient`): the variable `focus`, chosen
initially, names the one that moves, so a run explores each of them completely and
never their product. Where a run has several components, its properties are stated
over the variables of one of them.

In a module, an operator directly before a definition with a telling name
(`RefusalDueOnRetry` before `RefusalDue`, `ReturnedLate` before `Returned`) is a
plausible wrong version of it; no specification uses it. `PROJECT.json` pairs it with the
property that must fail when it takes the definition's place.

## 3. What the runs check

Most invariants are conjunctions of named parts; the parts are defined and explained
in the module.

| Run | Instance | Result |
|---|---|---|
| `pool` | 3 connections, 1 key, limit 2, managed and deprecated methods, fair tasks | `Accounting` (`BudgetConserved`, `HardLimit`, `LiveIsCounted`), `Exclusivity` (`MuxUnique`, `H1Exclusive`); no slot is kept for good, a reservation always answers |
| `h2_frames` | 2 requests, one with the preface, all frames, a server that may stay silent | `GoawayHonoured` (`DrainedAfterError`, `CutOnlyByAbortOrGoaway`: a body ends early without an error only by an abort, or on a stream above the last one of a graceful GOAWAY); the driver stops, every future returns |
| `parts` | driver: 3 requests, 1 stream, 2 pending slots, an upload. send: bodies of 3 and 2 bytes, windows up to 4. requests and responses: table sizes 0, 1 and 3 around the default 2, two SETTINGS, three blocks, two streams, frames of two instructions. proxies: 2 proxies, one flaky, 2 users, one through the session pool. dial: 4 addresses, a short and a long timeout. tunnel: every chain of up to 3 hops, names of 0 to 2 addresses. ffi: one stream with two reads, one other operation, one sleeping thread, capacity 2 | `QueueSound` (`NoCallerForgotten`, `PermitsExact`, `ServedInOrder`); `UploadSound` (`StreamWindowExact`, `BodyConserved`, `StallOnlyAfterSettings`), `ConnWindowExact`; `HeadersReadRight` (`RequestsReadRight`, `ResponsesReadRight`); `ProxiesAccounted` (`ProxyPermitsExact`, `CooldownHasEvidence`), `ProxyChosenWell` (`UnusableNotChosen`, `DirectWhenAlone`); `DialSound` (`DialAccounted`, `ReachableFound`); `TunnelSound`; `OutstandingExact`, `SleepersWillWake`, `ReadsSound` (`StreamReadable`, `EndIsWhole`), `SettledOnce` |
| `sharing` | quic: 4 requests. dns: 2 callers, 2 names, 3 lookups, a cache of one entry | `MarkerSound` (`MarkerHasDriver`, `NoNotifyForgotten`), who listens in time is woken; `EntryHasTask`, everybody is answered, `Dns` implements `SingleLookup` |
| `session` | handshake: 5 configurations (ECH, a ticket of each version, TLS 1.2 only, QUIC), up to 7 records, 1 irregularity. records: 3 each way. store: 2 hosts, 4 tickets. choice: 2 tasks (a request or a streaming call; a forced preconnect) with their probes, 2 SOCKS routes, 1 origin, room for 1 quarantine of each kind | `HandshakeAgrees` (`TranscriptExact`, `FinishedAgrees`), `LegalNeverRejected`, `DoneAuthenticated`; `KeysInStep` (`ReadKeysInStep`, `WritesReadable`), `WritesOrderly` (`WritesConserved`, `CloseIsLast`); `TicketsUsedOnce`; `QuarantineJustified` (`CooldownEscalates`, `SkipsOnlyFailed`), `QuarantineBinds` |
| `client` | request: 2 sites, 2 redirects, 1 retry, a GET and a POST. streaming: a budget of 2, bodies of up to 4 chunks, a channel of 2, limits just below and at the body. recv: responses of 3 and 1 bytes, window 2, server sizes 1, 4 and 6 | `CredentialsStayHome`, `NoCleartext`, `DuplicatesExplained`, every call ends; `StreamingFrugal` (`StaysInBudget`, `RaceNotStarved`), `BodyReadRight`; `CreditSound` (`WindowsAgree`, `CreditAccounted`), and a response arrives unless the threshold of its stream was out of reach |

Six further runs each check one sentence of the code's own documentation or tests,
which the code does not keep (`findings` in `PROJECT.json`, with the quotation):

| Run | The sentence | What happens |
|---|---|---|
| `h2_cancel` | "cancelled queued request did not release its pending permit" (a test's failure message) | a cancellation that overtakes its command leaves the request queued with its slot |
| `h2_truncates` | "The receiver yields body chunks; when it returns `None` the body is complete." | a graceful GOAWAY below the stream, or an abort, drops the channel of an unfinished body without an error |
| `quic_lost` | "make sure we drop the in-flight marker and wake waiters" | a request that registers with the Notify after it was fired waits until its total timeout |
| `tls12_split` | "After verifying server Finished, the client sends CCS + Finished." | when the server's ChangeCipherSpec and Finished of a resumed handshake arrive in two reads, the handshake is reported done and neither is sent |
| `retry_replays` | "A non-idempotent POST that failed *after* transmission must surface the error rather than be silently re-sent." | the error of a protocol race counts as a connection failure, and the POST is sent again |
| `proxy_direct` | "Returns `None` if no proxy was available from the provider" | two tasks share the cursor; one draws the cooling proxy twice and goes direct |

Three more sentences the code does not keep are part of the models and exempted by name
in the properties beside them (the hazards' notes have the details). "send an update when
the consumed amount exceeds a threshold (typically half the initial window size)"
(`lkh2/src/policy.rs:139`): the threshold is half of the size in the server's SETTINGS, so
all of our window may be consumed without an update (`starved` in `ResponsesArrive`). "This
extension tells the server that the client supports receiving an OCSP response stapled to
the certificate." (`lktls/src/extensions/status_request.rs:13`): with RSA key exchange the
CertificateStatus is refused (the exception of `LegalNeverRejected`). "this is a property
of the proxy, not the origin" (`session/mod.rs:1627`): a streaming call or a preconnect
quarantines the origin too when UDP ASSOCIATE fails (`blamed` in `QuarantineJustified`).

Further observations without a property that could state them are notes of the
hazards, or are these: a connection that loses the insertion race can lose to a dead
entry (`connection_pool.rs:568`); permits of aborted connections are free before their
tasks end (`:68`); a refused stream WINDOW_UPDATE resets the stream without telling its
caller (`engine.rs:1006`), and streams are still opened after a graceful GOAWAY (`:721`);
a failed QUIC attempt keeps its reservation through the TCP fallback
(`transport.rs:993`); `insert_h3_reserved` may abort the connection the request is then
sent on (`:1034`); `finish_quic_tls13` does not send the empty Certificate it hashed
(`lktls/src/handshake/driver.rs:1257`); a ServerHello that spans two records is not reassembled (`:523`); the bridge of a streaming
H1 response whose server falls silent keeps its permit until the reader goes
(`session/streaming.rs:861`); `send_streaming` upgrades no initial request to HTTPS,
whatever the HSTS policy; the probe of a chain of proxies sends its datagram through the
first relay only (`proxy/probe.rs:281`).

### Bounds

Two connections are enough for an insertion race, three for one beside a full
budget of two. Three requests let one hold the stream, one wait and one be cancelled or
blocked on a slot. Two streams share a connection window. Bodies, windows and increments
are a few bytes so that every relation between them occurs (window smaller than, equal
to and larger than the body; increments of zero and beyond the largest window,
`MaxWindow`, which stands for 2^31-1). Four requests give the in-flight map a winner, a
waiter that falls through, a second winner and its waiter, which is what it takes for one
guard to remove the marker of another request. Three lookups (`MaxFlights`) let a name
be looked up again after its entry was evicted or its task dropped. Four addresses let
one hang while the others refuse one after the other; the delay, the serial window and
the latency are 2, 3 and 2 ticks, and the two timeouts are one that cuts the fair share
below the serial window and one that does not. Three hops have a first, an
inner and a last one, two addresses a refused one and another. A body of four chunks is
longer than the channel. Two redirects reach another origin and come back. One
place for quarantines, of origins and of routes, makes the second failure evict the
first; two routes that differ in the name resolution only are two keys; a request whose
probe outlives it and a preconnect that is forced meet at one key. Half of the server's
sizes 1, 4 and 6 is below, at and above our window of 2. The handshake needs at
most seven records; `MaxExtras` is how often the server cuts, coalesces out of turn or
misbehaves. The operations of the C interface are `"preconnect"`, `"proxy"` and `"probe"`
beside the reads: responses, streaming responses and sessions go the way of
`"preconnect"` up to the take. `FrameKinds`, `Flaky` and `MaxReports` limit what the
environment of an instance does. Deadlock checking is off where a finished instance
stands still and on for the pool.

### Fairness

`ConnectionPool!TaskFairness`: the runtime polls tasks, a dial ends by its connect
timeout, and the driver of a connection that left the pool ends when its last
requests do. `H2Driver!FairSpec`: weak fairness of the driver's and the callers' own
steps; strong fairness of the command arm, the end of the handles and the deadline,
because the select is biased and polls the socket before them: this assumes that the
server does not keep the socket readable at every turn and that a write ends, taken or
failed. Nothing is assumed about answers. `MCSharing`: what is ready is polled,
handshakes, responses and lookups end by their timeouts; nothing makes a waiter give up.
`MCClient`: the redirect loop goes on and `timeout_at` fires, and nothing is assumed
about servers or transports; for the receive windows, updates are delivered, and a
server that can send again and again does. `MCParts` and `MCSession` check safety only.

## 4. What is proved

Each `…Proofs` module has, for every component, the invariance of an inductive
invariant and its consequences, for any finite set of connections, requests, tasks,
callers or operations, any chain of proxies, any number of streams, any bodies, sizes and
limits, from the named assumptions of the constants only. The proof of a step has a
lemma or a case per action. TLC has checked each inductive invariant on the instance
of the component's run.

* **ConnectionPool.** `Accounting` and `Exclusivity` (`AccountingHolds`,
  `ExclusivityHolds`) and each of their parts. The count is not inductive by itself:
  that a released entry owns a permit, that a granted reservation had none and that a
  running driver is counted needs to know where a permit can be given where its
  connection is (`Placement`) and what the holder of the mutex may assume
  (`MutexOwner`). `ReleaseBudget` and its companions carry the cardinality reasoning.
* **H2Driver.** `QueueSound` and `GoawayHonoured` and their parts, against every server
  and with every frame (`DriverInv`). `Placement` ties the state of a future to the queue
  its request is in, `Bounds` says what is empty before the start, in shutdown and after
  the end, `Order` that tickets and stream ids grow together.
* **H2SendWindow.** `UploadSound` and its parts, and the action property
  `SendsWithinWindow`, that no step overdraws the stream's or the connection's window,
  which no run checks (`SendInv`). `FitsWithin` and `BuildDataKeeps`
  state once what `build_data` takes; the connection window is never negative, and
  unopened streams are untouched. `ConnWindowExact` (`ConnWindowIsExact`) is a sum over
  all streams: `Sums` is the recursion of that sum on every set of streams, and `SumsMove`,
  by induction over the size of the set, what a step on one stream does to it.
* **H2RecvWindow.** `CreditSound` and its parts; and `NeverStalled` (`NoReceiveStall`), for
  every size the server announces: the server is without room and without an update under
  way only on a stream in `starved`, whose threshold was beyond our window. The exception
  is needed because the code takes the threshold from the window of the wrong side. The
  invariant is a part for the connection and a part per stream (`StreamInv`), and `Held`,
  how much a policy can hold back.
* **QuicInFlight.** `MarkerSound` and its parts, with `SomeNotify` as strengthening.
* **Dns.** `EntryHasTask`, and the refinement: `ResolverRefines` shows that every step
  is a step of `SingleLookup` or a stuttering one under the mapping of `LookupSpec`. Both
  rest on `DnsInv`: the lookup that an entry, a caller or a cached answer names is one
  of the same name in the right phase, a name is cached once, and there are as many
  unused lookups as callers that may start one.
* **Request.** `CredentialsStayHome`, `NoCleartext`, `DuplicatesExplained`, for any sites,
  redirects, retries and servers (`RequestInv`). The ghosts record what has happened, so
  the strengthening says what cannot happen any more: the headers that are left
  (`CredentialsDropped`), the scheme of the hop under way (`HopEncrypted`), and, as long
  as no cause was recorded, which future can have reached the server (`NoCauseYet`).
* **QuicChoice.** `QuarantineJustified` and `QuarantineBinds` (`QuarantineIsHeeded`), from
  `ChoiceInv`: the tables are about keys that failed or were blamed, an entry's cooldown is
  the one of its count, and a task that acts on what it has learned knows of every
  quarantine in force, or has been overtaken by it; evictions and expiries only end
  quarantines. That the cooldown grows is arithmetic over `cooldown_for_failure`
  (`LinearStep`, `CooldownGrows`) and needs `CooldownsGrow`: the configured range has at
  least one unit per failure. The default (5 minutes to an hour, in nanoseconds) has; a
  range of a few nanoseconds would not, and the linear steps would round to none.
* **Streaming.** `StreamingFrugal` (`StreamingInv`): a leg that dials or streams has its
  permit (`LegPaid`), and the last attempt of a race holds none when it asks for one
  (`LastAlone`). The limit may be below what two legs want. `BodyReadRight` for bodies,
  channels and limits of any size (`BodyInv`): what the reader has, the channel, the chunk
  in the bridge's hands and what is still to be read make up what the server sent, in
  order and with its end (`Flow`), and what the reader has given out is what those chunks
  decode to (`OutRight`). A body dropped in silence is the one exception to its end
  being whole.
* **FfiOps.** `OutstandingExact`, `SleepersWillWake`, `ReadsSound` and the action property
  `SettledOnce` (`FfiInv`): the counter is the number of `Slots`; what a handle's phase
  says of its worker (`HandlesSound`); who still answers for a read on an open stream
  (`ReadersTracked`); what a lost chunk leaves behind (`LossCloses`).
* **TlsHandshake.** `DoneAuthenticated`, for every sequence of records a server can send
  and every configuration (`AuthInv`): what was checked and received by the time the
  client waits for a given message, in TLS 1.3 (`Stage13`) and TLS 1.2 (`Stage12`).
  `HandshakeAgrees`, with as many records (`ViewInv`): client and server have chosen the
  same version or the hello that settles it is the next message (`Versions`), what is
  hashed before that hello is one of two short transcripts (`AwaitsHello`) and afterwards
  the reference (`Hashing`), and the client's Finished stands at one place of the exchange
  and covers what is before it (`FinAt`). `ReferenceGrows` says when one message more is
  one message more of the reference: whenever it does not change which hellos count
  (`AcceptsStays`).
* **TlsStream.** `KeysInStep` and `WritesOrderly` (`StreamInv`): the records under way
  form a chain of keys from the writer's to the reader's (`Chained`), each update
  shifting it by one, and the numbers of the writes sealed and
  not yet received are consecutive, up to the last one written (`Numbered`; `NumbersGrow`
  and `NumbersShrink` for a record more and a record less).
* **SessionStore.** `TicketsUsedOnce` (`StoreInv`): queues are increasing and disjoint.
* **Dial.** `DialSound`, for any number of addresses and any timing. `DialAccounted` from
  `DialInv`: the addresses tried so far are those under way and those with an error, each
  once. `ReachableFound` from `ReachInv`: how much time the addresses tried so far can have
  taken when at most one of them hangs (`Pace`). It needs the delay between speculative
  attempts to be shorter than the serial window, as it is in the code (250 ms and 2 s).
* **ProxyTunnel.** `TunnelSound`, for chains of any length (`TunnelInv`): who is at the
  end of the stream at each step (`Negotiating`), and that the hops behind a datagram and
  the headers still on it make up the chain in order (`OnItsWay`).
* **ProxyPool.** `ProxiesAccounted` from `PermitInv` (the queue of the semaphore holds
  exactly the tasks that wait, once each, and all permits add up; `HandKeeps` says what
  handing them out does) and from `EvidenceInv` (failures in the window and cooldowns
  begun are bounded by the reports counted, whatever recording tasks are between two
  locks). The action property `ProxyChosenWell` from `SearchInv`: every proxy usable since
  the search began is the one looked at or fewer draws away than the search has left,
  unless another task moved the cursor.

Theorems of type correctness are `TypeCorrect`, `DriverTypeCorrect`, `SendTypeCorrect`; the
other inductive invariants contain their types.

Only model-checked:

* liveness, which needs fairness: `SlotsReturn`, `ReserveAnswers`, `DriverStops`,
  `CallersReturn`, `ResponsesArrive`, `ListenersWoken`, `CallersAnswered`, `CallEnds`;
* `LegalNeverRejected`, which needs, beside `ViewInv`, what every prefix of every legal
  flight (`Flights12`, `Flights13`) leaves the client waiting for and under which keys; the
  ChangeCipherSpecs that count depend on a later ServerHello, so it is no invariant of
  prefixes;
* `HeadersReadRight`, which compares the two ends of header compression: the decoder's
  table lags behind the encoder's by all blocks under way, so the proof would be an
  induction over those blocks, and inside it one over the fields of each.

Recursive definitions over sequences and sums are within reach where the recursion is
one function: a solution is built stage by stage, by an induction over a set of numbers
(`AllNumbers`) that rests on the least counterexample.

## 5. Not modelled

Wall-clock time, except in `Dial` and as ticks in `QuicChoice` (elsewhere timeouts and
expiry are steps that may happen whenever armed), the bytes of any protocol, tracing;
in the engine PING, PUSH_PROMISE and priorities; in the session
cookies, middleware chains (user code) and streaming request bodies; in the proxies the random and sticky providers; in the C interface builders, getters
and stale handles. An HTTP/1.1 body that is delimited by the close of
its connection, whose cut nobody can tell from its end, is outside `Streaming`. A driver task's cancellation at an await point inside a frame is an
`Abort` between two steps.

The definitions map to about an eighth of the repository's lines. Most of the rest is not
state that steps change: ClientHello synthesis and profile data, codecs and Huffman
coding, certificate chains and cryptography, builders with their getters and setters, error
texts, the tools that collect and compare fingerprints, and tests inside the source
files. A model of these would copy encodings and tables.

## 6. Plan

1. Done: the modules of section 2, with their runs, and the proofs of section 4.
2. Theorems next: `LegalNeverRejected`, from the pairs of messages that may follow each
   other in a legal flight; that tables that agree up to their length still do after an
   insertion or a new size, for `HeadersReadRight`.
3. Compositions: QUIC establishment over the pool (the loser's aborted connection), the
   driver over the send and receive windows, `Request` over `QuicChoice`.
4. Abstract specifications: a counting budget that `ConnectionPool` implements, and a
   bounded first-come-first-served server that `H2Driver` implements.
5. The shared endpoint of `lkquic`.
