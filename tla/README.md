# A TLA+ verification of ech-rust

ech-rust is a proxy in two programs. The *client* listens on the local machine
for SOCKS5 and HTTP proxy connections, decides for each whether to connect
directly or through a backend, and carries the proxied ones as bidirectional
gRPC calls over TLS with Encrypted Client Hello. The *server* accepts those
calls, checks a token and a target policy, dials the target and copies bytes.
This directory holds TLA+ modules translated from the Rust sources, TLC
configurations that check them on small instances, and TLAPS proofs of all their
safety properties for every value of the constants. Paths below are relative to the
root of the repository.

To repeat a check: `tlc -config MCTunnel.cfg MCTunnel`; to repeat a
proof: `tlapm TunnelProofs.tla`. `PROJECT.json` lists every run, the source
lines behind every definition, the hazards the properties are aimed at, and for
each property a mutation of the model that violates it.

## 1. Inventory

| Part | Source | State it keeps | Operations |
|---|---|---|---|
| tunnel protocol | `proto/tunnel/v1/tunnel.proto` | one call: two directions of frames | Open, OpenResult, Data, HalfClose, Reset, Ping, Pong |
| client tunnel relay | `client/src/tunnel.rs` | the split local socket, the task `local_to_grpc`, the request sender | `relay_grpc`, `relay_direct` |
| server tunnel handler | `server/src/service.rs` | the split target socket, the task `target_to_grpc`, two senders of one channel | `tunnel`, `handle_tunnel`, `connect_any` |
| target policy | `server/src/policy.rs` | ports, host, private ranges (fixed) | `resolve_target`, `check_ip`, `check_connected_addr` |
| server token auth, start-up | `server/src/auth.rs`, `config.rs`, `main.rs` | the set of tokens (fixed after start) | `load`, `apply_env`, `parse_tokens`, `authenticate` |
| backend pool | `client/src/grpc_pool.rs` | fair semaphore, round-robin counter, channels | `acquire_stream_permit`, `pick`, `PoolRegistry::connect` |
| ECH transport | `client/src/ech_tls.rs`, `ech_connector.rs` | process-wide caches of ECHConfigs and SslConnectors, per-channel config | bootstrap, connect, reconnect |
| DNS HTTPS record | `client/src/ech_tls.rs` | offsets into one untrusted message | `build_https_query`, `parse_https_response_for_ech` |
| China IP table | `client/src/china_ip.rs` | sorted disjoint ranges per family | load, `contains` |
| router | `client/src/router.rs` | none of its own (table, users, resolver) | `decide`, `connect_direct` |
| local users | `client/src/auth.rs` | users, passwords, their backends (fixed) | `authenticate`, `user` |
| SOCKS5, HTTP ingress | `client/src/ingress_socks5.rs`, `ingress_http.rs` | one task per connection | negotiate, authenticate, parse, route, reply, relay |
| client process | `client/src/main.rs`, `config.rs` | two listener tasks, a task per connection | `run`, `validate_users_backends`, accept loops, `select!` |
| socket options, generated code | `*/tcp_util.rs`, `tunnel.proto` | none | see section 7 |

**How they interact.** An ingress task authenticates the user, asks the router,
and either calls `relay_direct` or takes the pool of the user's backend from
the registry and calls `relay_grpc`. That call waits for a permit of the pool,
picks a channel, and runs one gRPC call against the server's `handle_tunnel`.
Client and server share nothing but the frames of that call. The ECH
transport sits under every channel: it is asked once when the channel is
built and again by every reconnect; the DNS parser feeds it. Both processes
read their configuration once and check it before they listen; the client ends
as soon as one of its two listeners does.

**What is hard here.**

- *Concurrency inside one tunnel.* Each end has two tasks. They share a socket,
  two of them share the response channel, and all of them block: on a full
  channel, on a full socket, on silence. `abort()` may strike a task between
  any two awaits, and `?`/`bail!` leave tasks behind.
- *Failure.* The HTTP/2 connection, the application and the target can each
  disappear at any moment, with any prefix of what was under way delivered.
- *Ends.* FIN, HalfClose, the end of a gRPC stream, Reset and an error are five
  different ways to say "over"; what one peer is told must be true of the other.
- *Time.* Idle timeout, connect timeout, cache lifetimes, a resolver that
  answers differently a moment later.
- *Limits.* Permits, queue sizes, address-space ends, zero configurations.

**What makes each part correct** is stated by the properties of section 4.

## 2. Modules

| Module | Models | Extends / composes |
|---|---|---|
| `GrpcStream` | one gRPC call: bounded FIFO directions, their two ends (external: tokio mpsc, tonic, h2) | |
| `TcpPeer` | a TCP socket and the program behind it (external: kernel) | |
| `TunnelClient` | `relay_grpc`, `local_to_grpc` | `GrpcStream`, `TcpPeer` |
| `TunnelServer` | `tunnel`, `handle_tunnel`, `target_to_grpc` | `GrpcStream`, `TcpPeer` |
| `Tunnel` | the whole tunnel with its environment | `TunnelClient`, `TunnelServer` |
| `DuplexPipe` | **abstract specification**: what a tunnel promises | implemented by `Tunnel` |
| `TunnelInvariant` | the inductive invariant | `Tunnel` |
| `AnyClient` | the server end against a client that follows no protocol | `TunnelServer` |
| `AnyServer` | the client end against a server that follows no protocol | `TunnelClient` |
| `TargetPolicy` | one dial of the server, address by address, and the write of `first_payload` | |
| `ServerAdmission` | the server from its configuration to the OpenResult of a call | `TargetPolicy`; implements the steps `ServerAuth`, `ServerFirstFrame`, `ServerDial` of `TunnelServer` |
| `BackendPool` | permits, waiters, round robin | |
| `ClientProcess` | `run`, the accept loops, the handler tasks, the end of the process | `BackendPool` |
| `EchTransport` | settings of a backend, channel building, policy, both caches, reconnect | |
| `DnsMessage` | **reference definition**: what the bytes of a DNS response mean (external: RFC 1035, RFC 9460) | |
| `HttpsRecord` | the DNS query and the parser of its answer, byte by byte | `DnsMessage` |
| `ChinaIp` | load, sort, merge, search | |
| `Router` | `decide`, `connect_direct`, users, a changing resolver | |
| `Socks5`, `HttpProxy` | the two handlers of a local connection | `Router` |
| `Ingress` | one connection accepted by either listener, and the resolver | `Socks5`, `HttpProxy` |
| `MC*` | instances for TLC | |
| `TunnelProofs` | proofs about the composed tunnel | `TunnelInvariant` |
| `TunnelEndProofs` | proofs about each end alone | `AnyClient`, `AnyServer`, `TunnelProofs` |
| `ClientProcessProofs`, `ServerAdmissionProofs`, `EchTransportProofs`, `HttpsRecordProofs`, `ChinaIpProofs`, `IngressProofs` | proofs about the module of that name | |

### State and code

- **Chunks.** Data is abstracted to numbered chunks: a chunk is what one
  `read()` returned. `sent` and `taken` count what the peer wrote and what the
  program read; `got` is the sequence of chunks the program wrote to the peer.
  So "in order, once, a prefix" is `got = 1..k`.
- **A direction** (`req`, `rsp`) is one queue that stands for the mpsc channel,
  the HTTP/2 stream and the receive buffer, with `end` one of open, end (all
  senders dropped, queue still readable), err (an arbitrary prefix of the queue
  is still readable).
- **Program counters.** `cpc` is where `relay_grpc` is, and after its return how
  it returned: "closed" and "stopped" are the two ways to `Ok(())`, the others are
  the `Err`s. `spc` is where `handle_tunnel` is; "sending" is the await inside
  `send_reset` or the Pong's `send`, and `held` the frame it holds there. `why`
  records why it left. `l2g` and `t2g` are the spawned tasks: none, run,
  aborting (`abort()` called, not yet dropped), exit.
- **Read-then-send** of the two copy tasks is one step. While `send().await`
  waits for room, the chunk counts as not yet read; nobody else can observe the
  difference, and an abort loses the chunk in both readings.
- **`wshut`** is what the target sees of the write half: "clean" after a
  HalfClose frame, "cut" when the half is shut down or dropped for any other
  reason. On the wire both are a FIN; the variable remembers the cause, so that
  the clean case can be held against what the application did.
- **Permits.** Waiting for a permit, picking a channel, `relay_grpc`'s return and
  the closing of its HTTP/2 stream are separate steps in `BackendPool`: the permit
  goes back when `relay_grpc` returns, the stream closes later.
- **The client process.** `phase` is where `run` is, `listener` the two `serve`
  tasks, `task` the handler of each connection: it stands for everything `Ingress`
  and `Tunnel` say about one connection, reduced to whether it is inside
  `relay_grpc`. When a listener has returned, `select!` ends the process and the
  runtime drops all other tasks; there is no state after "stopped".
- **`ServerDial`** takes resolution, connect and the write of `first_payload` as
  one step with two outcomes; `TargetPolicy` takes each candidate, and the write
  in part, as a step of its own. `ImplementsDial` maps the call of
  `ServerAdmission` to `TunnelServer`: all dial stages are its "dial".
- **Tokens** are a text and whether blanks surround it. TOML keeps the blanks,
  `parse_tokens` and `authenticate` trim them; a padded token of the file can
  therefore never be presented.
- **DNS messages** are sequences of bytes with the offsets of the code. One
  iteration of a loop is a step; `reach` remembers how far the parser has read,
  since a read beyond the slice would be a panic. A name is where its labels start and
  how many dots trail it; the text of a label is of no interest. `said` remembers
  whether the message came from an honest server, and then the whole response and
  where its parts begin.
- **What a response means** is stated in `DnsMessage` without computing anything:
  whoever claims that bytes are a response gives the bounds of its names, records and
  parameters, and the operators say when the claim is right. So the parser is compared
  with a definition that does not parse.
- **ECHConfigs** are version numbers with the server, the name and the time they
  were fetched from, for and at; a handshake succeeds only with a version the
  backend still accepts.
- **Text.** Requests, headers, table lines and host names are abstracted to
  what the parsers tell apart (kinds of authority, kinds of line, which header
  names carry credentials). Parsing of numbers keeps its limits: port 0, 65536.

## 3. Runs

"States" are distinct states. Each configuration finishes within three minutes with
two workers.

| Run | Instance | States | What it shows |
|---|---|---|---|
| `tunnel` | queue 2, socket 1, 2 chunks each way | 815,763 | order, completeness and reporting of ends; implements `DuplexPipe`; the inductive invariant of the proofs; a vanished application frees its permit, the server follows, EOF reaches the target |
| `server_any_client` | queue 1, 4 arbitrary client frames, 1 chunk down | 660,961 | the handler against a client that follows no protocol |
| `client_any_server` | queue 2, 3 arbitrary server frames, 2 chunks up | 353,558 | the relay against a server that follows no protocol |
| `client_process` | 4 connections, 2 channels, limit 0, counter of 3 values, 8 configurations | 108,834 | permits, no starvation, wrap-around; every user has a pool; one failed listener ends the process |
| `china_ip` | 3-bit V4, 1-bit V6, 3 lines | 686,435 | `contains` is exact for every table and address |
| `ingress` | 2 users, 2 backends, 2 addresses, 2 names, ports 0, 8080, 65536, 3 header lists | 293,932 | authorization, routes, replies |
| `server_admission` | 77 settings, 8 headers, all answers of up to 3 of 4 addresses (allowed and denied V4, denied V6, a private V4 in mapped form), ports 0, 443, 8080, 65536 | 379,628 | exactly the meant callers, no denied V4 or native V6 peer, no denied port, every call answered; implements the steps of `TunnelServer` |
| `ech_transport` | up to 2 channels, 7 plans, 2 names, 2 resolvers, 2 versions, 5 ticks | 273,696 | strict is strict, freshness, caches keep backends apart |
| `https_record` | 10 names; answers of 0, 1, 2 of 5 records; each whole, cut anywhere, or with one byte replaced by one of 8 | 433,316 | no read out of bounds, the right ECHConfig or none, the parser ends |
| `tunnel_local_closed`, `tunnel_idle_timeout` | small | | violations: disagreements with the design document, section 6 |
| `server_denied_hosts` | as `server_admission`, answers of up to 2 addresses, port 443 | | violation: IPv4-mapped addresses, section 6 |

**Deadlock checking** is off (`CHECK_DEADLOCK FALSE`) in every run, since all these
systems really stop: a connection, a table load, a call, a parse, a process or a
bounded clock comes to its end. "Does not stop too early" is stated as liveness
instead.

**Why the bounds are enough.**

- Queue sizes are 64 in the code. With a queue of 2 and two chunks each way,
  a queue can be empty, partly filled and full, with a terminal frame behind
  data and a Reset of the handler behind data of the reader task. Liveness
  needs sends that block: a response that holds OpenResult and a chunk blocks Data,
  HalfClose and Reset, a request that holds two chunks blocks HalfClose and Reset (and
  would block a third chunk in the same await of the same task). In `server_any_client`
  and in the two violations a queue of 1 makes every send block. The safety results do
  not depend on the bounds at all: they are proved for every value.
- A socket that holds one chunk makes `write_all` block after one.
- Four arbitrary frames reach every state of `handle_tunnel` and go one frame
  past it (Open, HalfClose, Data, anything); three do the same for `relay_grpc`.
- `COUNTER = 3` is no multiple of the two channels, as a wrapped `usize` need not
  be of a pool size of 3; the wrap itself happens.
- Three ranges on eight addresses can overlap, touch, nest, repeat, leave gaps
  and reach both ends; every choice an unstable sort has is explored.
- Cache times are scaled (2, 3, 4 for the minimum, default and maximum lifetime)
  and TTLs lie at 0, below, between and above them. Two channels are what it takes
  for one to find what another left in a cache.
- One address of each form `check_ip` treats differently is enough for the dial; port
  8080 is a good port that some of the settings allow and others do not.
- The settings of the server vary the tokens of file and environment together, the
  policy and the identity together, and file and address together; the other
  combinations do not meet in the code.
- DNS responses keep their real field widths. Two records are enough for "the
  first that has one"; the records differ in type, TTL (0, small, a high half),
  target name (root, label, pointer) and parameters. The eight replacement bytes are
  the ones a name or a length tells apart, and every byte of every short response is
  replaced by each of them.
- No symmetry is used: connections of `ClientProcess` appear in liveness
  properties, and the other instances are small without it.

## 4. Properties

*Tunnel* (`Tunnel.tla`)

- `BytesInOrder`: each side receives a prefix of what the other wrote, whatever
  fails and however four tasks interleave.
- `CleanEnds`: a clean end is only reported when the writer closed and everything
  arrived, in both directions.
- `NoSilentTruncation`: `relay_grpc` also returns `Ok(())` when the response just
  ends. That would make a truncated download look complete; it happens only to
  an application that has reset its own connection.
- `NoProtocolError`: no bail!/Reset for a protocol violation between the two ends.
- `ImplementsPipe`: all of this as refinement of `DuplexPipe`.
- `PermitReleased`, `ServerFollows`, `EofReachesTarget`: liveness.

*Each end alone* (`AnyClient.tla`, `AnyServer.tla`)

- `ResponseWellFormed`, `RequestWellFormed`: the frames each end sends form a
  legal conversation whatever it receives; Pongs answer Pings.
- `TargetGetsOffered`, `AppGetsServed`: what comes out is what went in.
- `HandlerEnds`, `RelayReturns`: a partner that stops does not hold the task for ever.

*Client process*: `PoolInv` (no permit lost or invented, nobody waits beside a free
permit, whoever waits is queued once, permits are held only inside `relay_grpc`),
`NoStarvation` (which rests on tokio's fair semaphore, external), `EveryUserHasPool`,
`StopsTogether` (a listener that could not bind or accept takes the process with it).

*China IP table*: `ContainsExact` (binary search answers membership in the union
of the lines), `MergeSound` (the merged ranges are sorted, disjoint and not
adjacent, and the merge loop loses and invents no address at any step).

*Ingress and router*: `DirectOnlyListed` (every address connected to directly is
in the table, although the resolver may change its answer), `RelayOnlyAuthorized`
(a relay has a user who presented his password, or is the default user, and it
uses that user's backend), `RepliesTrue` (what the client is told comes in order, once,
nothing follows a refusal, and a 407 went to somebody who got nothing; on the direct
path the *SOCKS5* success means connected, the 200 of the HTTP ingress does not: it is
written first).

*Server up to the OpenResult*: `AdmittedExactly` (`TOKENS` revokes the tokens of the
file, blanks and empty entries admit nobody), `NeverDenied` (no byte, not even of
`first_payload`, to a denied port, or to an address that is denied as a V4 or native V6
address), `AllTried` (every candidate, and no
second connection), `DialEnds`, `ImplementsDial`. `NeverDenied` excepts IPv4-mapped V6
addresses, which are in the model and which `check_ip` lets through;
`DeniedHostsUnreached` is the documents' claim without that exception
(`server_denied_hosts`).

*ECH*: `StrictNeverPlain`, `FreshWhenChosen` (config of the right resolver and name;
younger than its TTL, or than the minimum lifetime for a shorter TTL, or than the
default lifetime for a TTL of 0, and than the maximum in any case; roots of the right CA
file), `StartupEnds`.

*DNS*: `ReadsInside`, `EchExact` (from an honest answer the value of the first HTTPS
record that has one, with its TTL, as `DnsMessage` defines them; from a cut one that or
nothing), `ParseEnds`.

### Fairness

- *Tasks* (`TaskFairness`): weak fairness of `relay_grpc`, of `handle_tunnel`, of the
  two copy tasks, of dropping an aborted task and of the HTTP/2 layer, each on its
  own. tokio polls every woken task, timers fire, and `abort()` takes effect at
  the next await. Nothing is assumed of what application and target write, of
  when they close, or of the connection.
- *Peers* (`ReadingPeersSpec`): application and target keep reading what they are
  sent, or are gone. The code does not guarantee this, and the liveness
  properties need it: `write_all` has no timeout, and the idle timeout does not
  run while the handler is inside it. A peer that stops reading for ever holds
  its tunnel for ever.
- *Client process*: `Stop`, and `Pick`, `Closed` and the end of the handler of each
  connection are weakly fair, that is, relays end (`PermitReleased` says when they do).
  Nobody has to connect and no listener has to fail.
- *Any-peer runs*: the task fairness of the end in question, a partner that reads.
- *A call on the server*: the handler is weakly fair. Connects are under
  `connect_timeout`; that the system resolver answers and that a target takes its
  `first_payload` or breaks the connection is assumed, the code sets no timeout there.
- *ECH start-up*: `connect_channel` is weakly fair; the DoH query and the connects are
  under timeouts. Time, the operator and lost connections are not fair.
- *DNS parser*: sequential code, weakly fair.

## 5. Proofs

Every invariant, every action property and every refinement a passing run checks is also
proved for every value of the constants; liveness is not. Each module has its inductive
invariant `Inv`, and `Spec => []Inv` stands behind its theorems. A theorem without a
property in the table is a variant, explained under "The steps behind liveness".

| Module | Theorem | Property |
|---|---|---|
| `TunnelProofs` | `Invariance`, `TypeCorrect` | `IndInv`, `TypeOK` |
| | `BytesOrdered` | `BytesInOrder`, i.e. `UploadInOrder` and `DownloadInOrder` |
| | `EndsComplete` | `CleanEnds`, i.e. `CleanUpload` and `CleanDownload` |
| | `TruncationReported` | `NoSilentTruncation` |
| | `ProtocolKept` | `NoProtocolError` |
| | `Refinement` | `ImplementsPipe` (refinement of `DuplexPipe`) |
| `TunnelEndProofs` | `ResponseIsWellFormed`, `TargetIsOffered` | `ResponseWellFormed`, `TargetGetsOffered` |
| | `RequestIsWellFormed`, `AppIsServed` | `RequestWellFormed`, `AppGetsServed` |
| `ClientProcessProofs` | `PoolInvariant`, `UsersHavePools` | `PoolInv`, `EveryUserHasPool` |
| `ServerAdmissionProofs` | `TypeCorrect`, `DeniedNeverReached` | `TypeOK`, `NeverDenied` |
| | `ConnectAnyTriesAll`, `TokensAdmitExactly` | `AllTried`, `AdmittedExactly` |
| | `DialImplements` | `ImplementsDial` (refinement of steps of `TunnelServer`) |
| | `CallsGoForward` | variant of a call |
| `EchTransportProofs` | `TypeCorrect`, `StrictBackendsStayEncrypted` | `TypeOK`, `StrictNeverPlain` |
| | `ConfigsAreFresh` | `FreshWhenChosen` |
| | `StartGoesForward` | variant of the start |
| `HttpsRecordProofs` | `ParserStaysInside`, `EchIsExact` | `ReadsInside`, `EchExact` |
| | `ParserAdvances` | variant of the parser |
| `ChinaIpProofs` | `MergeIsSound`, `ContainsIsExact` | `MergeSound`, `ContainsExact` |
| `IngressProofs` | `TypeCorrect`, `DirectOnlyToListed` | `TypeOK`, `DirectOnlyListed` |
| | `RelaysAreAuthorized`, `RepliesAreTrue` | `RelayOnlyAuthorized`, `RepliesTrue` |

### Assumptions

All are named ASSUMEs of the module that declares the constants, and TLC evaluates
each on the instances of section 3.

- `QueueAssumption`, `SockAssumption`: a queue and a socket hold at least one item.
  `BoundAssumption`, `ClientAloneAssumption`, `ServerAloneAssumption`: the bounds on
  chunks and frames are natural numbers.
- `PoolAssumption`: finitely many connections, a counter of at least one value; the
  settings may be 0. `ProcessAssumption`: what a configuration is.
- `PolicyAssumption`, `AdmissionAssumption`: the types of addresses, ports, settings and
  headers.
- `EchAssumption`: the three lifetimes are in order, the minimum is not 0 (30, 300 and
  3600 s in the code).
- `NamesAssumption`: the labels of a name start in ascending order, the first at 0. Labels
  may be empty or too long; `NameOk` is for the code to check.
- `ResponsesAssumption`: whatever the DoH server returns is a sequence of bytes. Nothing
  is assumed of its contents, except of a response that is said to be honest: it is a
  beginning of a DNS response to the query in the sense of `DnsMessage`. TLC evaluates
  this on every response of the instance, so the definition is met by real messages.
- `RouterAssumption`: the table lists addresses, no name is an address, and every user has
  a backend, which is `EveryUserHasPool` of `ClientProcess`. `HttpAssumption`: header lists
  are sequences of header names.
- `TableAssumption`: the families have a positive width. `PowersOfTwo`: `2^h` is positive and
  divides `2^w` for `h <= w`. It is a law of arithmetic, not of the code; the provers know
  nothing of exponentiation, so it is assumed for the widths and evaluated by TLC.

### The tunnel

**The argument.** None of the safety properties is inductive: they speak of what
has arrived, and a step that delivers the head of a queue is only right if the
queue was right. `IndInv` (module `TunnelInvariant`) therefore describes the
queues. Its parts:

- `PhaseInv`: who can have started what. Before the handler has answered Open the
  response is empty and no target exists; before the client has read OpenResult
  nothing has been delivered and `local_to_grpc` does not run.
- `EndInv`: a direction ends only after every sender has been dropped.
- `OpenInv`: before Open is answered the request holds at most that Open.
- `UpInv`: while the handler relays, the *i*-th frame of the request is chunk
  `Len(tgt.got) + i`, or it is the last frame and a HalfClose behind *all*
  chunks of an application that has closed, or a Reset of one that is gone; and
  while the sender is alive, queue and delivered chunks add up to what was read.
- `DownInv`: the same for the response, up to the first Reset, since after a Reset
  of the handler the reader task may still append; shifted by one while
  OpenResult stands in front.
- `FarewellInv`: if the handler has ended while the client still listens on a
  living response, a Reset is queued or the client reset the tunnel itself. This
  is what excludes a silent truncation.

`TunnelProofs` first proves what popping, appending and cutting a queue does to
`UpQueueOK` and `DownQueueOK`, which is where the arithmetic of positions is; then
one lemma per action of each end; then the invariance, and last the refinement: a
delivering step is `Deliver`, the shutdown for a HalfClose is a clean end, every
other ending is a cut, the rest stutters.

### Each end alone

Here the partner may send anything, so an invariant cannot describe the queue by
what the partner means. `TunnelEndProofs` uses histories instead: `said` and `asked` are
all the partner has sent, `heard` and `answered` all it has read. A conversation is the
history followed by the queue, so reading moves a frame and changes nothing
(`ConcatPop`), sending appends, a failure cuts.

- *What an end receives.* There is a number `k` of frames read such that the queue holds
  the frames after place `k` (`Behind`); while the loop runs, the first `k` frames were all
  of the kind it goes on for, and what was written is exactly the members of
  `ServedIn`/`OfferedIn` up to `k` (`KeptUp`). `FirstOf` alone is not inductive: a next chunk
  leaves no gap only because nothing up to `k` is missing.
- *What an end sends.* `RequestInv` and `ResponseInv` say of an unfinished conversation that
  all chunks read are in it (`Unfinished`, `Flowing`), that a response with a running
  `target_to_grpc` starts with a positive OpenResult (`Opened`) and that a handler which
  has not answered has said nothing (`Silent`).
- *Pings.* The two meet in the Pongs: while the handler is in its loop, exactly the Pings
  up to `k` are answered (`PongsUpTo`); while it waits for room for a Pong, that Pong
  answers frame `k` and all before it are answered. All this only while the response is
  alive: a failed one loses frames, and keeps no one's promise.

### The other components

- *Client process.* `PoolInv` is nearly inductive: free and held permits add up, whoever
  waits is queued once. `Validated` adds that a running process has passed
  `validate_users_backends`. The work is in the cardinality of the holders under one step.
- *Server admission.* `DialInv` carries what was checked with what it was checked for:
  every candidate passed `check_ip`, a peer that is kept did again, and failed attempts
  precede the one that counts. `PublicOnly` turns a passed check into a public address
  for V4 and native V6, the two forms `check_ip` knows. `AuthInv` carries the effective tokens from start-up to
  the call. `DialImplements` describes the mapped state at each stage
  (`SeenWaiting`, `SeenDialling`, `SeenAnswered`) and maps each step to one of `TunnelServer` or
  to a stutter.
- *ECH.* A channel is as its backend wants it (`AllProper`). This needs both caches (an
  entry belongs to its key and expires a lifetime after it was fetched) and what
  `connect_channel` has established on its way (`StepInv`): a config that suits the
  backend before the handshake, and no plain step for a strict backend.
- *DNS parser.* What was read lies behind the parser: below `pos` in a name, below `offset`
  elsewhere, and RDATA ends within the message. From there each check ahead of a read
  bounds `reach`. What it returns is the next subsection.
- *China IP table.* `LoopInv` is the loop invariant of the merge: what is behind is apart and
  below the current range, what is ahead is in ascending order, and the three together
  cover exactly the ranges that were read. `RangesExact` ties those to the lines, which is
  where a netmask needs `PowersOfTwo`. Exactness of the search then needs only that the
  table is apart.
- *Ingress.* `AuthInv` and `RouteInv` say at each stage who the user is and what route he was
  given; `SocksSaid` and `HttpSaid` say what the client has been told by then.

### What the parser returns

`EchExact` speaks of answers with any number of records, parameters and labels. No
induction over the answer is needed, because `DnsMessage` gives the bounds of all parts at
once and the parser visits them one by one: the induction over the answer is the one over
the steps. The invariant is `HonestInv`, for a message that is said to be honest:

- `Honest`: the message is a beginning of a response to the query. So every byte the parser
  finds in it is a byte of that response (`SameByte`), and where it finds none it fails.
- `OnTrack`: the parser stands at a bound of the part it believes to read. In a name `pos` is
  one of the name's bounds; behind it `offset` is the last of them; among the parameters
  `offset` is a bound of the answer's parameters and no earlier one has the key `ech`; and
  `left.answers` tells which answer that is, none before which carries one (`NoEch`).

The question is the part the client wrote itself. `QuestionName` shows that the name
`build_https_query` writes is a domain name in the sense of `DnsMessage` for *every* name it
accepts; this is where labels of at most 63 bytes are needed, and where the limit 64 breaks
`EchExact`. Then each action leads from bound to bound, and a step to "done" either returns the
value between two bounds or fails because the message is cut or no answer is left.

### The steps behind liveness

Liveness itself is out of the prover's reach, but for the three sequential parts the
reason for it is proved: no step goes back. `ParserAdvances`: on every sequence of bytes a step
begins one of the records still owed or moves forward in the message, to a place at most 63
bytes behind its end; a pointer is never followed. `CallsGoForward`: a call passes its stages in
order and dials a candidate at most once. `StartGoesForward`: `connect_channel` passes its steps in
order for each channel, and a channel that was built stays. With them `ParseEnds`,
`DialEnds` and `StartupEnds` come down to the fairness of section 4 and to some step being
possible before the end, which TLC checks.

### Only model-checked

Liveness: `PermitReleased`, `ServerFollows`, `EofReachesTarget`, `HandlerEnds`, `RelayReturns`,
`NoStarvation`, `StopsTogether`, `DialEnds`, `StartupEnds`, `ParseEnds`. The prover has no rules for
fairness and ENABLED.

## 6. Where code and documents disagree

Shown by a run, with both sides quoted in `PROJECT.json`:

1. `relay_grpc` returns by `bail!`/`?` without aborting `local_to_grpc`; the local
   connection stays open while the application is silent, where the design says
   "Close the local connection and report failure instead."
   (`tunnel_local_closed`)
2. A handler whose idle timeout has fired waits without limit for room for its
   Reset; together with 1 both ends can wait for each other for ever.
   (`tunnel_idle_timeout`)
3. `check_ip` judges a V6 address by its V6 prefix, and an IPv4-mapped address has none
   of those it denies; the V4 address inside is not looked at, neither by
   `resolve_target` nor by `check_connected_addr`. README, line 251: "The server denies
   private, loopback, link-local, multicast, documentation, and unspecified target IPs
   by default."; also design, line 434, and `server/README.md`, line 39.
   (`server_denied_hosts`)

Met while modelling; the models do what the code does and no run is spent on them:

- The HTTP ingress parses and rewrites the first absolute-form request of a
  connection and relays all that follows (`ingress_http.rs`, lines 74-83), so the next
  request of a client that keeps the connection alive is forwarded with its
  `Proxy-Authorization` and `Proxy-Connection` (`NextRequest` of `HttpProxy`). README,
  line 253: "HTTP proxy removes `Proxy-Authorization` and `Proxy-Connection` before
  forwarding absolute-form requests."; also design, line 190. No property of the model
  says that credentials stay local: of the first request it is the filter of
  `rewrite_absolute_request`, of the later ones it is false.
- A channel keeps the ECHConfig it was built with; a reconnect uses it again, and
  after the backend has retired it the channel stays down (`Reconnect` of
  `EchTransport`). Design, line 383: "Rebuild affected backend channels when cached
  ECHConfig records expire or change." Retry configs of the backend are not used.
  No property is about this: that the channel comes back is not so, and that it does
  not come back without ECH holds by construction, its connector being fixed.
- An HTTPS record with TTL 0 is cached for the default lifetime of 300 s, and one with a
  TTL below 30 s for 30 s (design, line 356: "cache it according to DNS TTL").
- A target cannot tell a HalfClose from a Reset: `handle_tunnel` shuts down its write half
  in the same way for both (`service.rs`, lines 179, 186, 200, 204). So a local read error,
  which the server hears of as a Reset, ends the upload at the target like an EOF.
  `CleanEnds` speaks of the cause (`wshut`), not of what is on the wire.
- Every `ech_policy` other than `strict` acts as a fallback to ordinary TLS, a
  misspelt one too.
- `password_hash` of a user is compared with the presented password as it is.
- A certificate without a key, or the reverse, starts the server without TLS.
- A token with blanks around it in the server's TOML file can never be presented.
- `validate_users_backends` runs after all channels were connected, so a
  misspelt backend is reported only then.
- `effective` settings: `tls_domain` wins over `ech_name` also for the DNS query.
- HalfClose from the target also ends the upload: `relay_grpc` breaks its loop and
  aborts `local_to_grpc` (design, line 467, has the receiver shut down its write
  half only, as `handle_tunnel` does).
- `max_streams_per_channel` limits the pool, not a channel: `pick` is a plain round
  robin (design, line 315: "Each channel carries up to
  `max_streams_per_channel` active gRPC streams.").
- A failed lookup makes `Router::decide` fail and closes the connection (design,
  line 269: "fail closed to the proxy path"). It never leads to a direct
  connection (`DirectOnlyListed`).
- A bracketed authority is returned before host and port are checked, so an empty
  host passes (design, line 191: "requests without a usable host" are rejected).
- The idle timeout counts only the client's silence, so a long download without
  upload is cut off.
- `concurrency_limit_per_connection` of the server counts calls whose `tunnel()` has
  not returned; the handler it spawns is not counted, so the number of tunnels is
  not limited (design, line 437).
- On its own local write error the client sends no Reset (design, line 468: "Any
  protocol or I/O error sends `Reset`.").
- `server/README.md` line 42 speaks of 32 KiB chunks where the code has 64 KiB.
- Both ingresses report success on the proxy path before the tunnel is open, and the
  HTTP ingress answers CONNECT with 200 before it connects on the direct path too
  (`ingress_http.rs`, line 53 before 56), so a failure after it is visible only as a
  closed connection.
- A returned permit does not mean that the HTTP/2 stream is closed.

## 7. Not modelled

- The TLS library, certificate checks, HTTP/2 flow control in bytes: external.
- `relay_direct`: one call of tokio's `copy_bidirectional`.
- The syntax of TOML and of the command line; `update-geoip` and `service`, which only
  report that they are not implemented. `test-backend` is a plan of `EchTransport`
  with one channel.
- A `write_all` of a Data frame that fails after part of a chunk: in the tunnel a chunk
  is written whole or not at all. For `first_payload` the part is modelled
  (`PayloadPart`); its trace at a target that is then dropped is not mapped to
  `TunnelServer`.
- The bodies of HTTP requests: `NextRequest` takes the header of each later absolute-form
  request as it passes through the relay; inside a CONNECT nothing is looked at.
- Several connections in one model of the ingress: they share nothing but the
  pool (`ClientProcess`), the table and the users, which never change.
- Two start-ups of channels at the same time: `PoolRegistry::connect` builds them one
  after the other, so the two caches are never raced for.
- Socket options, logging, generated protobuf code.

## 8. Plan

The order followed the importance of the behaviour: tunnel, its refinement and
proofs; the pool; the router and the ingresses; the table; the dial; ECH; then the
two processes around them and the DNS parser; then the proofs about all of them, the
parser's answers last.

What is left is the tie between the components: `ServerDial` of the composed tunnel
replaced by the steps of `ServerAdmission`, and one model of several tunnels over the
permits of `ClientProcess`.
