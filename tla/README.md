# TLA+ models of the blackbox exporter's probing engine

This directory holds TLA+ models of the probers in this repository's
source (`src/`). It also holds the TLC configurations that check them. The
natural-language specification is `spec.md`. The `map` in `PROJECT.json` links
each definition to the source lines it translates.

## 1. Inventory

### The source

| file | what it is |
|---|---|
| `src/icmp.go` | `probeICMP` and `getICMPSequence` (package `main`), which return a diagnostic string beside the verdict, as `probeHTTP` does |
| `src/unnamed/part_001` | a later copy of `probeICMP` that reports through Prometheus gauges instead. Its control flow is the same as `icmp.go` |
| `src/unnamed/part_000` | `ProbeDNS`, `validRcode`, `validRRs` (package `prober`) |
| `src/http.go` | `probeHTTP`, `matchRegularExpressions` (package `main`) |
| `src/config/config_test.go` | tests of the configuration loader. `config.go` itself is not in `src/` |

The spec also names parts that have no source here: the configuration
model, validator and `SafeConfig` store (`config.go`), `chooseProtocol`, and
the dispatcher (`main.go`). The metrics HTTP endpoint, flag parsing and TLS
config generation are external collaborators.

### Components, their state and operations

* **ICMP prober** (`icmp.go`, `part_001`). It has one piece of process-wide
  shared state: `icmpSequence uint16` under `icmpSequenceMutex`. Everything
  else is local to the probe: its deadline, the resolved `ip`, the raw socket,
  and the request and expected reply. A probe works in this order:
  1. Apply the protocol and family defaults.
  2. Resolve the preferred family, then the fallback family.
  3. Open a raw socket: `ip4:icmp` or `ip6:ipv6-icmp`.
  4. Draw a Seq with `getICMPSequence`, then, outside the mutex, send the echo
     request.
  5. Loop on `ReadFrom` until the deadline. A packet ends the loop only if its
     peer and bytes both match. A read error other than a timeout continues the
     loop.

  Interactions: every probe goroutine runs it concurrently. A raw socket
  receives every ICMP packet of its family, so a probe reads the replies meant
  for the others. All requests carry the same identifier, the pid. So the Seq
  is the only thing that separates one probe's reply from another's.
* **DNS prober** (`part_000`). It has no shared state: the gauges live in a
  registry per probe. It works in this order:
  1. Default the transport, and reject any other than udp or tcp.
  2. Split off the port (default 53) and resolve with `chooseProtocol`.
  3. Pin the dial network to the family, e.g. `udp6`.
  4. Look up the query type and build the question.
  5. Call `client.Exchange` with a timeout taken from the context deadline.
  6. Record the section counts. Deferred updates export them on every path.
  7. Run `validRcode`, then `validRRs` for the answer, authority and additional
     sections.
* **HTTP prober** (`http.go`). Its state is local to the probe. A
  `CheckRedirect` callback writes the captured `redirects`. It works in this
  order:
  1. Default the protocol and preferred family, and add a default scheme.
  2. Resolve the target, with fallback, and choose `tcp4` or `tcp6`.
  3. Build a client with a pinned dial and no keep-alive.
  4. Follow redirects while `len(via) <= 10` and following is allowed.
  5. Build the request. Headers come from a Go map in random order; a key
     whose `strings.Title` is `Host` sets `request.Host`.
  6. Run `client.Do`, then evaluate the status, then the body regexps (only if
     the status passed), then the TLS policy, which overrides the result.
* **IP-family resolver** (`chooseProtocol` is not in `src/`; the ICMP and HTTP
  probers inline it). It tries the preferred family and falls back to the
  other. It has no state of its own, so it is modelled inside each prober:
  `ProtocolChoice` and `ResolveIPAddr` in `ICMPProber` and `HTTPProber`,
  `chooseProtocol` in `DNSProber`. In each, the action that resolves also
  pins the listen or dial network to the family of the result.
* **Configuration validator and `SafeConfig` store** (not in `src/`, not
  modelled: see section 4). The
  validator runs load-time checks: bearer token vs token file, body vs body
  file, prober kind, DNS query name, class and type, regexps, compression vs
  Accept-Encoding, and the ICMP TTL. The store is a reader/writer-locked
  configuration that a reload replaces whole when it succeeds, and leaves
  untouched when it fails.
* **Dispatcher** (not in `src/`, not modelled). It maps `Module.Prober` to a prober and
  records duration and success.

### What is hard

* **ICMP, interleaving.** Several goroutines draw from one counter. The
  increment is a read-modify-write, and only the mutex makes it atomic.
* **ICMP, shared delivery.** Every raw socket sees every reply. Whether a
  probe accepts only its own reply rests on the Seq being unique among the
  probes in flight. The counter is 16 bits wide and wraps.
* **ICMP, unreliable network.** Replies may be lost, duplicated or delayed
  past another probe's start. A reply that arrives late races the deadline.
  The loop ends only by match or timeout.
* **DNS.** The verdict combines four checks with early returns. `nil` and an
  empty rcode list behave differently. The exchange timeout is `deadline - now`, computed after
  a resolution that does not see the deadline.
* **HTTP.** The order of Host and duplicate headers follows the map iteration
  order. The redirect limit is off by one relative to the count reported. The
  result flag is overwritten several times: by the status check, the regexp
  check and the TLS policy.

### Properties that make each component correct

* ICMP:
  * `getICMPSequence` is an atomic fetch-and-increment;
  * a probe succeeds only on the reply to its own request;
  * icmp4 and icmp6 modules never leave their family;
  * every probe returns.
* DNS:
  * the verdict equals the specification's verdict;
  * a probe whose resolution outlasts its deadline gets no response;
  * the question carries the configured class.
* HTTP:
  * success means an accepted status, the body regexps held, and the TLS
    policy held;
  * the request authority is the configured Host header, whatever its case and
    whatever the order;
  * the redirect count and the redirect limit agree;
  * a redirect ends the request only when the redirect policy stops it.

## 2. Modules and runs

### `ICMPProber.tla`: the ICMP prober (core, written first)

The constants are the following:

* `Probes` are the goroutines.
* `Targets` are host names, with `TargetFamilies` their address families.
* `ICMPModules` are the module configurations.
* `SeqWidth` is the width of `icmpSequence`: 16 in the code, smaller to
  reach a wrap.
* `MaxProbes` bounds the number of probes started.

The state is the following:

* the shared `icmpSequence` and `icmpSequenceMutex`;
* per probe: `pc`, `target`, `module`, the resolved `ip`, `loaded` (the value
  read inside the increment), `seq` (the value `getICMPSequence` returned, or
  `NoSeq`), `expired` (the deadline has passed) and `result`, the pair
  `(success, probe_error)` the probe returned;
* the network: `requests` sent and `wire`, the echo replies that may be
  delivered. `wire` is a set that is never drained. Any open socket of the
  family may read a reply there any number of times, or never. This models
  loss, duplication and arbitrary delay;
* ghosts: `tag` numbers each probe, each request and reply carry the tag of the
  probe that sent the request, `accepted` is the tag of the reply a probe
  accepted.

The actions follow the code in order:

1. `Start`: a probe request arrives and the deadline is fixed.
2. `Resolve`: preferred lookup, then fallback, or "Error resolving address".
   Any lookup may fail.
3. `Listen`: the socket opens, or fails with "Error listening to socket".
4. `getICMPSequence` is split at the points where another goroutine may
   interleave:
   * `Lock` takes the mutex;
   * `Load` reads the counter;
   * `Send` writes back `(loaded+1) % 2^SeqWidth`, unlocks and returns the
     value, which becomes the echo's Seq.
5. `Write`: outside the mutex, the request is marshalled and written to the
   socket. The write may fail with "Error writing to socket".
6. `ReadReply` accepts a packet that passes the peer check and the byte check.
   The byte check reduces to an equal Seq, because ID and Data are the same for
   every probe.
7. `Timeout` fires once `Expire` has passed the deadline: "Timeout reading
   from socket".
8. `EchoReply` is the environment: the peer answers a request.

Some steps are not actions. Reading a packet that does not match and a
non-timeout read error are `continue` steps that change nothing, so in TLA+
they are stuttering. The marshal errors and the `SetReadDeadline` error cannot
occur: marshalling an `icmp.Echo` never fails, and the socket is open.

The fairness is as follows:

* Every probe step is weakly fair, because the Go scheduler runs runnable
  goroutines.
* `Expire` is weakly fair, because time passes.
* `Lock` is strongly fair, because `sync.Mutex` switches to starvation mode
  and hands the lock to a waiter after 1ms.
* `EchoReply` and `Start` are not fair: a target may never answer, and no
  scrape may come.

### `ICMPSequence.tla`: what `getICMPSequence` promises

The abstract counter: `counter` and, per probe, the value `got` it holds.
`Draw(p)` steps the counter by one modulo `2^SeqWidth` and hands the new value
to `p` in one atomic step; `Release(p)` drops it when the probe returns.
`ICMPProber` implements it under the mapping `counter <- icmpSequence`,
`got <- seq`: `Lock`, `Load` and the network steps are stuttering steps, `Send`
is a `Draw` and the return of a probe that drew is a `Release`.
`SequenceAtomic` (that refinement) is checked with a counter small enough to
wrap.

### `DNSProber.tla`: the DNS prober

The constants are `Targets`, `TargetFamilies`, `Regexps` with `BadRegexps`
(expressions that do not compile), `DNSModules` and `Responses`. A resource
record is the set of expressions its text matches. Time is counted in ticks
from the start of the probe: the context expires at `Deadline`,
resolution takes up to `MaxElapsed` ticks, and `DefaultTimeout` is
miekg/dns's per-phase default.

The actions are the following:

* `Prepare` covers ProbeDNS up to the exchange: the transport check,
  `chooseProtocol` (spec-modelled, because it is not in `src/`),
  `DialNetwork`, and the question. Then `ClientTimeout` sets
  `client.Timeout = deadline - now` from the clock when resolution ended.
  `chooseProtocol` takes no context, so that clock may be past the deadline.
* `ExchangeError` is a timeout or a transport error.
* `ExchangeResponse` covers the counts, `validRcode` and the three `validRRs`.
  A response can only arrive within `ExchangeBudget(timeout)`. That is
  miekg/dns's behaviour: a negative timeout puts the connection deadlines in
  the past, and zero falls back to the library's defaults.

Some paths are not modelled:

* The unknown-query-type branch (lines 146-152) cannot be reached.
* The unknown-rcode branch of `validRcode` cannot be reached.

In both cases the loader rejects such modules (spec §4.6 and the
`invalid-dns-type` test), so the model's modules are ones the loader accepts.

### `HTTPProber.tla`: the HTTP prober

One probe of one module against one target; its state is local to the
probe. The constants are `Hosts` with `HostFamilies`, `Targets` (a host, a
scheme or none, and whether the URL parses), `Regexps` with `BadRegexps`,
header `Values`, the `Statuses` of final responses, `HTTPModules` and
`MaxChain`, the number of redirect responses the server may send. A header
key is a name (`host`, `accept`) and a letter case; a body is the set of
expressions it matches.

The state: `pc`; `dialProtocol` and `ipProtocol` (the pinned network and
`probe_ip_protocol`); `authority` and `sentHeader` (what the first request
is written with); `host`, `tls` and `hop` (the current URL and the redirects
followed); `redirects` (the local `CheckRedirect` sets); `response` (what
`client.Do` returns, with `stopped` for a redirect `CheckRedirect` refused
and `cut` for a body that cannot be read: closed by `client.Do` or cut by
the network); `success` and `probeError`.

The actions:

* `Prepare` is lines 59-161: defaults, URL parse, resolution with fallback
  (`ResolveIPAddr`), the pinned network, the TLS config, `NewRequest` and the
  header loop. The loop is `BuildRequest`, a `FoldLeft` of `SetHeader` over
  one of `SetToSeqs` of the keys: every Go map order. `Request.write` takes
  the authority from `request.Host` and never writes `Header["Host"]`.
* `RequestError`: `client.Do` returns no response (refused, reset, timeout,
  or a hop the pinned family cannot reach).
* `Redirect`: the server redirects with 302 (standing for 301/302/303) or 307
  (for 307/308). A module with a request body gets a 307 back unfollowed:
  probeHTTP sets `request.Body` without `GetBody`, and Go's
  `redirectBehavior` does not redo such a request. Otherwise
  `CheckRedirect(via)` either stops (the response comes back with its body
  closed, which fails to read unless it had Content-Length 0: net/http then
  gives the readable, empty `NoBody`) or the hop is followed.
* `Respond`: a final status and body.
* `Evaluate` is lines 163-207 through `Verdict`: status, the regexps
  (`matchRegularExpressions`, whose ordered short-circuit is the RECURSIVE
  `RegexpFailure`) only if the status passed, then the TLS policy.

`VerdictPerSpec` checks `Verdict` against a set-based reading of spec §4.2
(`SpecBodyValid`), so the recursive operator is checked against a reference
definition over every module's lists.

### Runs

| run | module / cfg | expect | what it shows |
|---|---|---|---|
| `icmp_counter` | `MC_ICMPProber_wrap` / `MC_ICMPProber_counter.cfg` | pass | `ICMPProber` refines `ICMPSequence`: concurrent `getICMPSequence` calls act as one atomic fetch-and-increment, across the wrap (a 1-bit counter, 3 probes contending for the mutex at once), and every started probe returns whatever the network does. |
| `icmp_matching` | `MC_ICMPProber` / `MC_ICMPProber.cfg` | pass | With the real 16-bit counter, 2 concurrent probes out of 4, a dual-stack target and an IPv4-only one, a probe accepts only its own reply, and icmp4/icmp6 modules keep their family. |
| `icmp_seq_wrap` | `MC_ICMPProber_wrap` / `MC_ICMPProber_wrap.cfg` | violation | Once the counter wraps, a probe accepts the reply to another probe's request. |
| `dns_verdict` | `MC_DNSProber` / `MC_DNSProber.cfg` | pass | For 288 modules, 2 targets and 48 responses, the verdict of ProbeDNS is the spec's. Resolution ends before, at or after the deadline, and a late probe gets no response. |
| `http_verdict` | `MC_HTTPProber` / `MC_HTTPProber.cfg` | pass | For 232 modules (every header map over four keys and two values, every combination of the verdict options, the early returns, modules with a body), 3 targets and chains of up to 12 redirects: the verdict is the spec's, the request carries the configured Host and headers in every map order, at most 10 redirects are followed (none with `NoFollowRedirects`), and `probe_http_redirects` counts the one that stopped the chain. |
| `http_body_307` | `MC_HTTPProber` / `MC_HTTPProber_body307.cfg` | violation | A module with a request body gets a 307 redirect as its response, unfollowed, though the redirect policy allows following. |
| `http_host_case` | `MC_HTTPProber` / `MC_HTTPProber_hostcase.cfg` | violation | A `HOST` key does not set the authority, and the value is not sent. |
| `http_redirect_body` | `MC_HTTPProber` / `MC_HTTPProber_redirectbody.cfg` | violation | A stopped redirect that is an accepted status fails the body check: its body was closed by `client.Do` (only a Content-Length 0 body reads, as `NoBody`). |
| `http_diagnostic` | `MC_HTTPProber` / `MC_HTTPProber_diagnostic.cfg` | violation | A request error or a rejected status returns false with an empty diagnostic. |
| `dns_empty_rcodes` | `MC_DNSProber` / `MC_DNSProber_rcodes.cfg` | violation | `valid_rcodes: []` rejects even NOERROR. |
| `dns_query_class` | `MC_DNSProber` / `MC_DNSProber_class.cfg` | violation | A configured `query_class` is not sent. |

The bounds are chosen for the following reasons:

* Two concurrent probes are enough for every two-goroutine interleaving of
  one probe reading the other's reply. The counter run takes three at once,
  so that two wait on the mutex while one holds it.
* Four probes in `icmp_matching` (three in the counter run) let a later
  probe meet delayed replies to two earlier ones (7.7 million states, under
  two minutes).
* The two targets make the preferred-family lookup, the fallback lookup and
  the no-fallback cases all happen.
* The wrap is reached by scaling the counter width, not by 65536 draws. The
  arithmetic is the same modular arithmetic.
* For HTTP, chains of up to 12 redirects: the limit needs 12 (10 followed,
  the 11th stopped, and one more for a mutant to pass it). Shorter chains
  within the same run give a followed redirect, a stop under
  `NoFollowRedirects`, an unfollowed 307 and a redirect to an unreachable
  host. Status 200, 300 and 404 are the 2xx edge,
  the first non-2xx code and a code only a list accepts.
* For DNS, a deadline of 1 tick with resolution ending at tick 0, 1 or 2
  gives a positive, a zero and a negative client timeout.
* For DNS, sections of at most one record already exercise every branch of
  `validRRs`: an empty section, a match, a miss, and an expression that does
  not compile.

Deadlock checking is off in every run. When no more probe requests come, the
exporter is idle, and a DNS or HTTP probe ends by returning.

The symmetry over `Probes` is used only in `icmp_matching` and
`icmp_seq_wrap`, which check safety properties that do not name a particular
goroutine. The run that checks a liveness property (`icmp_counter`) uses no symmetry.

## 3. Plan

1. Done: `ICMPProber` (shared counter, raw-socket delivery, deadline, the
   diagnostics of `icmp.go`) and `DNSProber` (verdict and metrics).
2. Done: `HTTPProber.tla` for `probeHTTP` (request, redirects, verdict,
   307/308 with a request body). Left: the Host a relative redirect keeps,
   which is `net/http`'s rule, not this code's.
3. Done: `ICMPSequence.tla`, refined by `ICMPProber` (`SequenceAtomic`).
4. Not possible here: the configuration store, validator and dispatcher,
   whose code is not in `src/` (see section 4).

The project is held to twelve runs, so a new question joins an existing run
where the bounds fit.

## 4. Not modelled

* `src/unnamed/part_001` separately. Its control flow is that of `icmp.go`,
  and only the reporting differs (gauges instead of `probe_error`).
* Metric formatting and logging.
* Timing beyond "the deadline has passed", except for the DNS client
  timeout. The ICMP probe fixes its deadline before resolving and hands it
  to the socket. The HTTP probe has no overall deadline. `client.Timeout`
  bounds only `client.Do`, so resolution (lines 92-98, up to two lookups)
  can add to `module.Timeout`. This is listed as a hazard with no property:
  `probeHTTP` takes no context, so the code states no bound to check.
* Whether a DNS response must arrive by the deadline. At a client timeout of
  exactly zero, miekg/dns waits up to its 2s defaults, so a response can
  arrive after the deadline. No run states the stronger property, because
  a violation run would need a clear statement of the intended bound, and
  the specification gives none for the zero case.
* The configuration validator, the `SafeConfig` store and the dispatcher.
  Their code (`config.go`, `main.go`) is not in this source tree. A model
  written from the specification alone only checks the specification
  against itself: a reload is atomic by construction (one assignment of a
  validated object), a validator can only be compared with another reading
  of §4.6, and the readers' and writer's progress is `sync.RWMutex`'s
  guarantee, not this repository's. So they are not modelled.
* The `Error marshalling packet` and `Error setting socket deadline` returns
  of `probeICMP`. Marshalling an echo message and setting a deadline on an
  open socket do not fail.
* TLS certificate handling, the proxy, and the HTTP metrics other than
  `probe_ip_protocol` and `probe_http_redirects` (they are read off `response`).
* YAML/JSON parsing.
