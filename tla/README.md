# hematite, specified

TLA+ specifications of hematite, a default-deny egress proxy: models of its
components translated from the Rust sources, TLC runs that check them on small
instances, and TLAPS proofs of the properties that matter most for instances of
every size. `PROJECT.json` maps every definition to the lines it models and
lists runs, mutants, findings, hazards and theorems.

## 1. The system and its hard parts

A workload's requests reach hematite over plain HTTP, over TLS that hematite
terminates with certificates it mints, or through CONNECT/SOCKS5 tunnels. Each
request goes through a pipeline of transforms; if the pipeline lets it
through, the target is resolved, checked by a guard against denied networks,
dialled, and the exchange is relayed. Every request leaves one audit record.
The documents name four invariants: INV-1 (a secret never gets into a record),
INV-2 (no dial without the pipeline's proof), INV-3 (one record per request),
INV-4 (the kernel is deterministic).

| component | state it keeps | operations | what is hard | module |
|---|---|---|---|---|
| request handler, `http.rs` `handle` | per request: runtime, target, buffered body, pending audit | accept, buffer, evaluate, dial, send, respond | dropped or panicking at any await; reloads in between; the body cap's edge; some fifteen exits that each write a record | `RequestHandler` |
| dialler and guard, `dial.rs`, `state.rs` | address list, position | resolve, check, connect, TLS | several addresses, some denied; silent upstreams | `RequestHandler`, `Tunnel` |
| audit backstop, `audit.rs` | emitted or not | emit, drop | exactly once, on every path | `RequestHandler` |
| listeners, `listen.rs`, `tunnel.rs` | per connection: target, SNI, reply | CONNECT, SOCKS5, sniff, terminate, splice | two readings of the runtime; recorded exactly once or not at all; TLS identity | `Tunnel` |
| certificate cache, `tls.rs` | LRU, inflight map, one channel per flight | get | two locks, cancelled waiters, failing and panicking minters, eviction | `CertCache` |
| secret resolver, `resolver.rs` | cache of values and failures with stamps | resolve | clock read before the lock; sources that share an entry; rotation, failure, stale values | `SecretResolver` |
| kernel pipeline, `pipeline.rs`, `transforms.rs`, `secrets.rs`, load checks of `config.rs` | the request, traces, captured body | five transforms, load checks | what a record may hold under every order of transforms; refusals half-way | `Pipeline` |
| management and reload, `management.rs`, `config.rs`, `state.rs` | files, runtime in force | reload | concurrent reloads, several files, clients that leave | `Reload` |
| start-up, `main.rs` | listeners bound so far | load, bind | what may fail and what may not, in which order | `Reload` |
| DNS server, `hematite-dns` | per query: message, socket, reply; counters | receive, answer, forward, time out | an unreliable network behind a server that relays what comes first; a timer that races an answer; 16-bit lengths | `Dns` |
| configuration loading, `config.rs` | none | overrides, defaults, validation, overlap test | a setting has two sources and is checked once | `ConfigLoad` |
| matchers, `matcher.rs` | none | globs, CIDRs, paths, headers, rules | label boundaries, prefix 0, IPv4-mapped addresses, matching without backtracking | `Matchers` |
| codecs, `codec.rs`, `secrets.rs`, `http.rs` | none | base64, percent encoding, replacement, swaps | a secret with any bytes in an encoded place | `Codecs` |
| wire parsers, `tunnel.rs`, `wire.rs`, `http.rs`, `hop.rs` | none | SNI, SOCKS5, authorities, DNS queries, hop-by-hop headers | input cut off at any byte; lengths that lie; two parsers of one syntax | `Wire` |
| metrics, `metrics.rs` | counters, histograms | observe, render | families that must agree | `Metrics`; counters in `Dns`, `Reload` |
| telemetry | exporters | set up, shut down | little | not modelled |

## 2. Modules

**EgressBoundary** is what the proxy promises about a request, without saying
how: it is judged by the one configuration installed when it was accepted;
addresses are contacted only if that configuration lets the host through and
does not deny the address; it is settled once, with one record, after which
nothing is contacted; an "allow" means something was contacted.

**RequestHandler** is `handle` with `connect_upstream`, the guard, `SharedState`
and `PendingAudit`. A request is a task with a program counter that names the
await it is suspended at, or the synchronous stretch it is in. `Accept` takes
the runtime and settles the target (`resolve_target`, `extract_target`);
`ReadFrame`, `EndOfBody`, `FrameError` are the buffering loop;
`EvaluateRequest` the pipeline; `Resolve`, `TryAddress`, `Connected`,
`ConnectFails`, `TlsDone`, `TlsFails` the dialler; `SendFails`, `Respond` the
exchange; `Disconnect` and `Panic` end a handler early, through
`PendingAudit`'s Drop. The pipeline's verdict is a constant function of
runtime, host and over-cap flag. The response body is relayed after the record
and is not modelled. The record's status is the upstream's even if building
the client's response from it should fail (`build_response`'s fallback to 502);
that needs a header hyper accepted and rejects, and is left out.

**CertCache** is `CertCache::get`, one action per critical section: `Lookup`
under the cache lock, `Join` under the inflight lock, `Mint`, `Remove`,
`Publish`, `Awake` for a waiter, and `Cancel` for one whose future is dropped.
The LRU crate is modelled from its use.
`MintPanics` stands for the date arithmetic in `mint`, which panics for a huge
`leaf_cert_expiry_hours` that loading does not bound.

**SecretResolver** is `EnvFileResolver::resolve`. `Begin` reads the clock,
`Resolve` is everything under the lock, so calls may be overtaken in between.
The history variables `changed`, `had` and `failed` let the properties speak of
what a source held when. `Rotating` are the secrets that change while it runs;
the others never do. `MaxTime` bounds the clock.

**Tunnel** is `handle_tunnel`, `terminate_and_serve` and `passthrough_tunnel`.
`Evaluate` and `Terminate` are the two readings of the runtime. The dial is one
step here, as nothing shared is read on the way; RequestHandler has it step by
step. At `served`, requests are `serve_io`'s, each a handler of its own.

**Pipeline** takes one request through one loaded list of transforms, secret by
secret inside `secrets`. A location of the request is the set of tokens and
credentials that occur in it: encodings (base64 in Basic, percent-encoding in
the query) are part of the location, tokens are atomic and do not occur inside
credentials, repeated headers are one, and only values of a query count.
`Loads` is the part of `build_pipeline_inner` that refuses a list: no
allowlist, and the two ordering checks.

**Reload** is the process around its configuration. Start-up (`main`): `LoadConfig`,
`LoadCert` and `LoadKey` read the files one after the other, while the operator
may rewrite them, and build the first runtime or exit; `Bind` and `BindFails`
take the listeners in `main`'s order, where a failure of the plain HTTP or the
management listener ends the process and one of the others is logged. Then
`serve_management` and `reload`, a task per call that reads the configuration,
the CA certificate and the CA key one after the other while the operator
rewrites them, and swaps. Whether contents load and compile is a constant of
the contents; ConfigLoad has the functions. The DNS section is left out of
`Runtime`, as it is in the code.

**Dns** is `DnsServer`. Every datagram or TCP connection is a task:
`ReceiveUdp`, `AcceptTcp` and `ReadTcp` bring a message in, `Drop`,
`AnswerLocally`, `Forward`, `Relay`, `Timeout`, `RecvFails` and `ForwardFails`
are `respond` and `forward`, `Send` writes the reply and, over TCP, its length
as 16 bits. `UpstreamAnswers`, `Deliver` and `Lose` are the network and the
resolver, which lose, delay, duplicate and reorder. A message is its id, name,
type and the lengths of its question and of the rest: a datagram that is longer
than the buffer is cut, in its question or behind it, and framing depends on
lengths. A new socket gets any port that no socket has at that moment, also one
for which answers are still underway; the history variable `via` remembers the
port a query was forwarded from.

**Metrics** is the registry and what an audit record adds to it: `Emit` is
`MetricsSink::emit`, `Restart` a new process. `observed` is the history of the
records the counters are compared with.

**Matchers**, **Codecs**, **Wire** and **ConfigLoad** are pure
functions, and beside them, marked as reference, what they are meant to compute:
a glob is a set of names, a CIDR compares leading bits (`CidrMeans`), a path
glob may match any run of characters at each star (`PathMeans`), replacement is a set
of places (`Replaced`). Addresses have `Width4` and `Width6` bits and buckets
are a constant, so that TLC can enumerate them. In ConfigLoad a configuration is
a tree of sections, as serde_yaml has it, since overrides work on the tree.
**Policy** tries the matchers and the loading of a configuration on one input per
behaviour and states what they decide; **Algorithms** adds the other functions on
the same variable, and the metrics registry beside it. Each of its steps is one
of Policy's `PolicyNext`, whose `Elsewhere` is any input of another function, or
one of `MetricsNext`, and leaves the other's variables alone, so that what is
proved of `PolicySpec` and `MetricsSpec` holds in Algorithms.

The `MC*` modules give constants their values; the `*Proofs`
modules hold the theorems. `Fault:` marks definitions that are no part of a
specification: each is a plausible bug in the definition that follows it, and
the property it is listed with in `PROJECT.json` is violated when it takes that
definition's place.

Components meet through constants and operators: Reload's `Loads`, `Listen` and
`Mitm` are ConfigLoad's `load_str`, `listen_keys` and `mitm`; ConfigLoad's
overlap test is Matchers' globs; Dns' `Passthrough` and RequestHandler's denied
addresses are sets Matchers decides; Tunnel's SNI and targets and Dns' messages
are what Wire parses; RequestHandler's `Verdict` is what Pipeline
computes; Tunnel's `ctx` is RequestHandler's `conn`; `Swap` in RequestHandler
and Tunnel is Reload's `Swap`; Pipeline's `Unavailable` is SecretResolver's
failure. RequestHandler is shown to implement EgressBoundary, TLC run and proof.

## 3. Runs

| run | instance | checks |
|---|---|---|
| `handler_inputs` | one request; every request head on four kinds of connection; two runtimes with different policy, guard and cap; names that resolve to no, one or two addresses; frames up to 2 bytes around caps of 1 and 2; fair | one record (INV-3), no dial before policy (INV-2), guarded dials, bounded buffer, truthful records, `RequestsFinish`, refinement of EgressBoundary |
| `cert_cache` | three tasks, two names, room for one; fair | single flight, right leaf, waiters served by their own flight, `WaitersReturn` |
| `resolver` | two threads; one secret of a file configured with ttls 2 and 3, another of the same file cached for ever; failure ttl 2, clock to 4 | no source is answered with another one's value, rotation, recovery, stale values, retry at half the ttl |
| `tunnel` | two connections, two runtimes that differ in passthrough, policy, guard and TLS | judged before served or spliced, passthrough apart from bumping, at most one record, TLS identity, records that match replies |
| `pipeline` | every list of up to four of ten transforms; the token in five arrangements, body within or over the cap | INV-1, default deny, custody, required secrets, over-cap bodies, traces |
| `reload` | two calls, four configurations (one that stays in force, one with other listeners, one that does not load, one that does not compile; ConfigLoad is evaluated to say which is which), two generations of the CA, any of the files unreadable, rewritten at any time from the start on; fair | fail closed from the first listener on, truthful answers, freshness, `ReloadsComplete` |
| `dns` | two queries of one id, ten messages and a malformed one, two ports; datagrams that are cut, questions around the length where a reply no longer fits 16 bits; fair | each client is answered from the right source, about its own query or one given up before on the same port, counted once, `QueriesAnswered` |
| `algorithms` | every text up to four or five of the characters a function tells apart; addresses of 3 and 5 bits; hellos with three extensions, cut at every byte; sequences of three records; trees of four sections with up to two overrides | functions against references |

**Bounds.** A second actor is what an interleaving hazard needs. Handlers share
only the installed runtime, so for `handler_inputs` the second actor is the
reload; the proofs are for any number of requests. Of two runtimes, one is to be
judged by and one to be mistaken for it. Three tasks are a minter, a waiter and a late arrival,
or two names that evict each other. `MaxTime` 4 leaves time for a ttl of 2 to run
out, a refresh to fail and half a ttl to pass; ttl 3 has a half that is rounded.
One secret rotates; that the other one's values never turn up under its key, nor
its own under the other's, is what `ValueGenuine` checks.
Four transforms hold an allowlist, and a record writer and a secrets transform
with one more between them. In `dns` two queries
suffice to confuse answers, and two ports to have sockets that differ and one
that is used again. The texts of
`algorithms` hold two labels, two stars or two occurrences that overlap; 3 and 5
bits have a full, an empty and a partial mask and a mapped range. Symmetry
(threads and values) is used in `resolver`, which checks no liveness.

**Deadlock** is not checked for CertCache, Pipeline, Reload and Dns: when every
call has returned, the pipeline has decided, the process has exited or every
query is answered, nothing is left to do. In the others the environment (a
reload, a rotation) can always act.

**Fairness.** RequestHandler: weak fairness of the steps a handler takes without
its client. tokio polls what can run, connect() and the response headers are
under timeouts, the OS resolver gives up. None for the client's body, which may
never come, and none for the upstream's TLS handshake, which has no timeout;
`RequestsFinish` therefore promises the end or that handshake. CertCache: weak
fairness of the steps of `get`, none for callers or cancellation. Reload: weak
fairness of the spawned task; nobody has to write, call or disconnect. Dns: weak
fairness of the spawned task, its timer included; clients, the network and the
resolver owe nothing.

## 4. Where code and documents differ

Four runs are expected to find a violation. Each states what a comment or a
document says; `findings` in `PROJECT.json` quotes both sides.

| run | the code |
|---|---|
| `pipeline_two_captures` | a second `body_capture` behind `secrets` loads, and records the swapped body |
| `cert_cache_mint_once` | a stale miss mints a second time after the flight has ended |
| `tunnel_passthrough` | a failing write ends a connected passthrough tunnel without a record |
| `dns_late_answer` | the first datagram on a socket is relayed whatever it answers: after a timeout and with the same port given out again, a client gets the answer to another query |

`pipeline_two_captures` uses a list outside the set of the `pipeline` run, in
which no transform occurs twice: INV-1 holds there. `dns_late_answer` has one
port, so that it is used again; `RepliesTrue`, which the `dns` run checks and
DnsProofs proves, says how far the confusion can go: only to a query that is no
longer waited for, never between two that are.

Further differences met on the way, for which the project keeps no run:

| the code | the document |
|---|---|
| `dial.rs:89` awaits the upstream TLS handshake without a timeout | `spec/07-upstream.md:58`, 10 s |
| `audit.rs:77`: the backstop's record has an empty host though the host was known | `spec/08-audit.md:55-56` |
| `audit.rs:83`: a disconnect while forwarding is recorded as error | `spec/05-listeners.md:140-141`, `client_cancel` |
| `http.rs:205`: in a bumped tunnel Host is not compared with the SNI | `spec/05-listeners.md:17-18` |
| `resolver.rs:176`: sources that differ only in ttl share an entry, and the retry time of the one that failed; `RetriesAtHalfTtl` is stated for the shortest ttl | `spec/04-transforms.md:87-88` |
| `listen.rs:261`: several ends of a bumped tunnel without a request leave no record | `spec/08-audit.md:12-13` |
| `listen.rs:523`: a pipeline error on CONNECT is a 403 reject | `spec/05-listeners.md:139`, 502 |
| kernel `config.rs:472`: `match_headers: null` scans all headers, and the ordering check for `annotate` takes it for none; the `pipeline` run has lists and absent ones only | kernel `config.rs:478-480` |
| `management.rs:77`: a reload does not reach the DNS server | `spec/09-config.md:97-98` |
| `server.rs:92` (DNS): the decision is reported after the forward | `server.rs:46-47`, "after the decision is made, before I/O" |
| `codec.rs:35`: padding inside the text (`AA=A`, `AA==AAAA`) is decoded | `codec.rs:33`, "Returns `None` on any invalid input" |
| `config.rs:440`: a tunnel listener requires a `tls` section, passthrough or not; `LoadSound` and `RuntimeSound` state it as the code and `spec/09-config.md:72-73` have it | `spec/05-listeners.md:123-124`, "Passthrough requires no `tls` section" |
| `config.rs:316`: a section that is set to nothing ends the loop over all overrides | the comment on that line, "skip" |

And behaviour no document speaks about, which the models have:

- A reply over TCP of more than 65535 bytes is framed with its length modulo
  65536 (DNS `server.rs:156`).
- The CA's certificate and key are two files, read one after the other and never
  compared (`config.rs:624`): a rewrite in between, at start or at reload, leaves
  a runtime in force with a certificate and a key that do not belong together.
  `InForceIsOnDisk` lets it stand, as a file was written after the call began.
- The overlap test of `config.rs:599` does not see CIDR clauses. A pattern that
  ends in a dot matches only names that end in two, and their overlaps it may miss.
- An environment variable that looks like a number is refused for a text
  setting, and one `HEMATITE_DNS_*` variable creates a DNS section, which is
  enabled by default.
- A failing `recv_from` or `accept` ends the DNS server's loop for good; a DNS,
  HTTPS or tunnel listener that cannot be bound is only logged.
- `parse_duration` multiplies minutes by 60 without a check; `percent_decode`
  takes `%+f` for an escape, as `from_str_radix` does.
- Each reload starts with an empty secret cache (`config.rs:575`).
- A leaf may be served past its `not_after`: entries leave the certificate cache
  only by eviction or reload. After a panic in `mint` its name has no
  certificate until the next reload.
- A scrape locks one metric family after the other, so that families may disagree
  by the requests recorded meanwhile.

## 5. Proofs

The theorems hold for every value of the constants that satisfies the named
assumptions of the module: that the sentinels are none of the values, and that
the constant functions have the types the code gives them.

*RequestHandlerProofs.* `HandlerInv` adds to the type invariant and the safety
properties what a handler knows at each program point (`Located`): before the
dialler nothing is resolved or tried; from "resolve" on the verdict is
"continue"; in the address loop there is a next address; after connect() one was
tried; while the body is read no more than the cap is buffered, and after it the
over-cap flag is exact. The properties alone are not inductive: that a dialled
request was let through needs the verdict to be known at "dial", that a guard's
record names a denied address needs a next address to exist. The first lemmas
show that leaving a request alone keeps what is true of it, and cover the
three ways a handler moves: on to another program point (`GotoInv`), out with an
answer (`FinishInv`, which needs the record to be `Warranted`), out early
(`EarlyEndInv`). There is a lemma per action, each reduced to the request that
moves. `HandlerImplementsBoundary`
maps every step to a step of EgressBoundary or a stutter, using the invariant.

*SharedStateProofs*, CertCache. `CacheInv`: whoever is minting or about to remove its entry
is the one in `inflight` for its name, and whoever is in `inflight[x]` asked for
x and is there or, after a panic, has ended (`Flights`); cache slots and channels
hold leaves of their name, and a waiter waits for a call for the same name that
was a minter (`Filed`); a call has a result only at its end (`Called`). Single
flight follows from `Flights`, the right leaf and the shared result from `Filed`.
The order of the LRU list plays no part in
them; `CacheTypeCorrect` adds that it stays a list of names when an entry is
moved to its front or evicted.

*SharedStateProofs*, Metrics. `MetricsInv` says what the registry stores, where
`MetricsAgree` says what is rendered: each histogram holds per band the number of
records whose first bucket it is. `Histogram::observe` puts a value into exactly
one band, as the bounds ascend (`ObserveBand`); the running totals of
`render_histogram` then count the records up to each bound, since the bands below
it are disjoint and exhaust it (`Rendered`). The refusals of secrets are counted
once because only the last trace of a record can be one (`RecordAssumption`, which
is what `PipelineTraces` proves of the pipeline).

*SecretResolverProofs.* `ResolverInv`: no stamp and no clock reading is ahead of
the clock, and a cached value that differs from what its readable source holds
was stamped no later than the source last changed (`Dated`), because a call
reads the clock before it reads the source; every cached value is one its source
has held (`Genuine`). Rotation, recovery, memory and genuineness are action
properties proved from it. The retry at half a ttl needs more (`RetryInv`): while
the last refresh of a key has failed, its entry is a success whose stamp lies
half the ttl of the source that tried before the failure. The subtraction never
saturates, because a refresh is only due after a whole ttl (`RetryExact`); the
source that asks may be another one on the same entry, hence the hypothesis of
`RetriesAtHalfTtl` that its ttl is the shortest.

*PipelineProofs.* For every list of transforms that loads, of any length, and
every request. `PInv` has five parts. `Flow` says where the loop is and that the
traces behind it are those of the transforms passed, all but a last refusal
"continue". `Admitted` says that the allowlists passed let the host through.
`Custody` relates the request to the swaps performed so far: each one is by a
secret of the list at or before the turn, for the request's own host, not into
an over-cap body, and its token is gone from every location it opted into; and
each credential in a location is accounted for by a swap that opted into it.
`Required` says that the required secrets passed were swapped in. `CustodyKept`
and `RequiredSwapped` speak of the request at the end and are not inductive: a
later transform could undo them, and that none does rests on credentials and
tokens being disjoint and on no transform putting a token back. Seven theorems
follow, one per property of the run. `PipelineRecord` has a hypothesis on the list,
`Plain`: one body_capture at most and no `match_headers: null`. It is where the
load checks stop short of what they are for. `body_capture_ordering` looks at
the first body_capture only, and the run *pipeline_two_captures* shows what a
second one records; `annotate_after_secret_swap` takes a null for a secret
without headers while the swap takes it for all headers. For every other list
the proof goes from the credential in the record to the swap that accounts for
it, and from there to the load check that would have refused the list.

*TunnelProofs.* A connection reads nothing of another, so the invariant is one
about a single connection: what is known from where its task is (`Where`), what
has not happened yet (`Fresh`), how its record agrees with the reply
(`Recorded`), and that it is bumped or linked, by the runtime that judged it and
not by the one now installed (`Apart`). The properties speak of connections that
are served or spliced; `Where` carries the verdict from `Evaluate` through the
reply, the sniffing and the handshake to that point. The lemmas have one step per
action.

*ReloadProofs.* `StartInv`: while main loads, what it has read so far was accepted
and nothing is bound or called; then listeners are bound in order, by a process that
lives, with an accepted and complete runtime in force. `CallInv`: what a call
has read so far, and that it is what is on disk if nothing was written since it
began. `SwapInv`: every swap belongs to one call that says so, and the last one
is in force. `CountInv` counts calls with cardinalities.

*DnsProofs.* `IInv`: a reply says what the precedence demands of its message,
lengths and frames agree, and the counters are cardinalities of sets of queries;
it needs nothing of the network. `OwnInv`: no two sockets have one port, and
whatever is underway to a port is about a query that was forwarded from it
(`Sent`), whatever is in an inbox about its own query or about one forwarded from
the same port that has its reply (`Told`). That the other query has its reply is
the point of the argument: a port is given out only when its last owner has
closed it, and a query that was answered stays so (`StableTold`).
`RepliesAlwaysTrue` needs both, the other two theorems only the first.

*PolicyProofs.* The matchers and the loading of a configuration, for all inputs.
Policy has one variable and its invariant is only that the input tried is one of
the given ones (`Tried`); the work is in the functions. Loops of the code are
functions by recursion over the numbers up to the length of a text or of
`ENV_KEYS`. What is needed of them is proved without an induction rule: a set of
numbers has a least element (`LeastNat`), so a set that holds 0 and passes from
each number below n to the next holds n (`UpTo`); the recursive function exists
(`Recursion`) and is determined by its steps (`SameSteps`).

- `PathAgrees`. The reference follows the pattern character by character with the
  set of all places reachable; the code places part after part, each leftmost.
  The invariant over the characters (`Placed`): reachable are exactly the ends of
  those occurrences of the part being read that begin at or behind the place where
  the code's choice for the part before it ends. At a star everything behind the
  first such end becomes reachable, and that end is the one the code takes, so
  the leftmost choice loses nothing.
- `CidrAgrees`. Equal masks are equal quotients by a power of two, and those are
  equal exactly if the leading bits are, by induction on the number of bits.
- `GlobAgrees`, `OverlapSound`. Both compare texts from their ends. If two globs
  match one host, then both suffixes end it, the shorter one ends the longer one
  at a label boundary, and so the pattern with the longer one, read as a host, is
  matched by the other.
- `OverridesHold`. The invariant over `ENV_KEYS`: what was set up to the i-th key
  is in the tree unless the loop was left, and it is only left at a key whose
  section the file sets to nothing. A later key
  changes no other key's value.

The assumptions are that the characters include the ones the code compares with
(`CharAssumption`), that IPv4 addresses are narrower than IPv6 ones
(`WidthAssumption`), that `Absent` and `Null` are no values of a tree
(`KeyAssumption`), and that the inputs are of the types the code gives them:
texts and addresses (`MatcherCases`), rules that compiled (`CompiledRules`), trees
as YAML has them (`ConfigCases`).

**Only model-checked:** all liveness (`RequestsFinish`, `WaitersReturn`,
`ReloadsComplete`, `QueriesAnswered`), as fairness and ENABLED are beyond the
prover; and `CodecsAgree` and `WireAgree`, which are about encoders and parsers of
byte strings that invert one another, where a proof would be an induction over
strings for each format.

## 6. Not modelled

Telemetry: set-up and shutdown of exporters, state of an external SDK the proxy
never reads. The response path of the pipeline, since no transform overrides
`on_response`. Contents of certificates, streaming of response bodies, WebSocket
traffic after the 101, and the text of logs and metrics: data the properties do
not tell apart. The counters of dials and of the certificate cache: one
increment each. Parsing of the transforms' settings in the kernel's `config.rs`
and of durations: by outcome only. Errors of the DNS server's listening sockets.
Text that is not ASCII: the branches for invalid UTF-8 (`tunnel.rs:130`, `:264`)
and what `from_utf8_lossy` makes of a secret that is none (`secrets.rs:226`). Of
`ENV_KEYS` the model has the keys that loading depends on.
The composition of Tunnel with RequestHandler is by `ctx`: a state space that
multiplies the two is out of reach, and neither reads what the other writes but
the installed runtime, which both take from `Swap` at any moment.
