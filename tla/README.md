# A TLA+ model of httpjail

httpjail runs a command inside a network jail and sends all its HTTP and HTTPS
traffic through a proxy that asks a user-supplied rule engine about every
request. This directory models the parts of it that are hard to test:
lifecycles with crashes, shared files, pipes and caches, reloads, the way of a
request through the rules and the byte limit, chains of proxies and connections
whose bytes arrive in pieces. Paths below are
relative to `src/src/`.

## The system

| Component | State | Operations | What makes it correct |
|---|---|---|---|
| `jail/managed.rs`, `sys_resource.rs`, `main.rs` cleanup | one canary file per jail, its mtime, the host's resources, the heartbeat thread and its stop flag | setup, heartbeat, cleanup, Drop, signal handler, orphan scans, `--cleanup` | live jails keep their resources, dead ones are found and reaped |
| `jail/linux/*` | namespace, veth pair, resolv.conf, nftables table; Docker network and routing | create and delete in a fixed order | part of the above |
| `rules/proc.rs` | one child process with two pipes behind an async mutex | spawn, write a line, read a line, kill, retry | each request gets the verdict on its own line, or is denied |
| `rules/v8_js.rs` | cached code and mtime, reload lock | stat, double-checked reload, evaluate | a change takes effect on the next request; nothing older comes back |
| `limited_body.rs`, `proxy.rs` byte limit | bytes transmitted, limit | reject by Content-Length, wrap, poll frames | never beyond `max_tx_bytes`, never less than it allows |
| `proxy.rs`, `proxy_tls.rs` forwarding | none between requests; the loop nonce of the instance | loop check, verdict, rewrite, forward | what is judged is what is sent; loops end |
| `proxy_tls.rs` connections | the connection's position, its host | detect, SNI, CONNECT, intercept, serve | requests are judged for the host the client meant; no handler is held |
| `tls.rs` | `ca-cert.pem`, `ca-key.pem`, an LRU cache of certificates | load or generate, look up, sign, put | the CA that signs is the one the jail trusts; a client gets the certificate of its host |
| `rules/shell.rs` | one script per request | spawn, wait, time out, kill | it ends with its request; the exit status decides |
| `rules/common.rs`, `rules/v8_js.rs` values | none | parse an answer, convert a V8 value | every answer means what the documentation says; nothing is allowed by default |
| `rules.rs` | the engine, the request log | evaluate, then log | what is done is what was decided and logged |
| `proxy.rs` listeners | two sockets | bind, accept, spawn a task per connection | not modelled |
| `rules/console_log.rs` | none | format logs | not modelled |
| `jail/weak.rs`, `jail/linux/dns.rs`, `jail/linux/nftables.rs`, `macos_keychain.rs`, `dangerous_verifier.rs` | none of their own | environment variables, constant DNS answers, rule text, calls of external tools | not modelled |

How they interact: `main` builds a rule engine, starts the two listeners, sets
the jail up, runs the command and cleans up. Each accepted connection is a task
that calls the rule engine once per request (and once per CONNECT) and applies
the byte limit of the verdict to what it forwards. httpjail processes of one
host meet only in the file system (canaries, `/etc/netns`, CA files, the rules
file) and in the kernel's network objects, with no lock between them.

What is hard: three threads of one process and any number of other processes
work on the same canary and resources; a process may be killed between any two
system calls; hyper drops the future of a request at whatever await it stands
when its client leaves; `peek` sees as much as TCP has delivered; files are
written without rename. `PROJECT.json` lists the hazards with their lines and
the properties that watch them.

## Modules

| Module | Models | Variables and the code's state |
|---|---|---|
| `JailLifecycle` | `ManagedJail`, `LinuxJail`, `DockerLinux`, `--cleanup` | `canary`, `age` (now - mtime), `res` (what exists on the host), `pc`, `todo`, `target`, `left` (main thread), `sig`, `sigLeft` (ctrlc handler), `hb`, `stop` (heartbeat) |
| `RuleEngine` | what `RuleEngineTrait::evaluate` promises | `decision` |
| `ProcRuleEngine` | `rules/proc.rs`, shown to implement `RuleEngine` | `queue`, `lock` (tokio's FIFO mutex), `handle`, `alive`, `stdin`, `stdout` (the child), `pc`, `attempt`, `decision` (requests) |
| `JsRuleReload` | the reload path of `rules/v8_js.rs` and `main.rs`'s first read | `file`, `exists`; `code`, `mtime` (the ArcSwap pair); `lock`; `pc`, `seen`, `fetched`, `used` |
| `Verdict` | `AllowPolicy`, `RuleResponse`, the conversion of V8 values and of exit statuses, as operators; and the documented response format to compare them with | none |
| `RequestHandling` | one request: `handle_http_request` and `handle_decrypted_https_request` with the three engines, `LoggingRuleEngine` and the byte limit; shown to implement `RuleEngine` and `RequestByteLimit` | `case` (engine and answer), `loop` (it carries our nonce), `pc`, `child`, `pipe` (the script), `result` (EvaluationResult), `logFile`, `log`, `status`, `shown` (the response), and the variables of `RequestByteLimit` |
| `RequestByteLimit` | `apply_request_byte_limit`, `LimitedBody` | `max`, `transmitted` (its fields), `received`, `sent` |
| `ProxyChain` | `handle_http_request`, `handle_decrypted_https_request`, `prepare_upstream_request` and forwarding, over several instances | `route`, `uri`, `host`, `peer`, `lines` (loop header), `at`, `hops`, `status` |
| `HttpsConnection` | `handle_https_connection` and what it calls | `sent`, `open` (the client's bytes), `pc`, `taken` (what the BufReader has read off the socket), `host`, `upstream` |
| `CaStore` | `load_or_generate_ca_with_dir` | `certFile`, `keyFile`, `pc`, `ca` |
| `HostCertificates` | `get_cert_for_host` on top of `CaStore` | `cache` (per process, oldest entry first), `task` (the handlers), `time` |

`MC*` modules fix the constants for TLC; `*Proofs` modules hold the theorems.
One action is one system call, one await-to-await section, or one step of the
environment. A definition whose comment starts with "Mutant:" is not part of a
specification: it is a plausible defect of the definition after it, and putting
it in that definition's place must make TLC refute the property `PROJECT.json`
names.

Data is abstracted to what the properties tell apart: a jail id, a host, a
request, a CA key is a model value; a body is a number of bytes; a rules file
is the number of its version, which stands for its mtime too; a ClientHello or
CONNECT request is a few units cut where the handler's decisions are. The
integers of the byte limit wrap at `Word`. An answer of the rules is a word, a
JSON object or array told by what its two fields deserialize to, or another
text; of a JavaScript value also what `JSON.stringify` makes of `undefined` and
`NaN`. A ClientHello is told by whether it names its host and whether its record
fits the 2048 bytes of the peek.

Compositions: `RequestHandling` extends `RequestByteLimit` and takes its steps
over under the limit of the verdict; `HostCertificates` extends `CaStore` and
interleaves the handlers of serving processes with processes that start and
die. What requests share of an engine (the program's pipes, the cached rules)
stays in `ProcRuleEngine` and `JsRuleReload`; `RequestHandling` takes from the
former that a request gets an answer to its own line or fails.

## Runs

| Run | Shows | Bounds |
|---|---|---|
| `LifecycleFailures` | `TypeOK`, `LiveJailKeepsResources`: whatever fails or dies, no step takes a resource from a jail in use | two Docker jails with three kinds of resource, so that each scans the other's network; every command may fail |
| `LifecycleCrash` | `OrphansDiscoverable`, `ExitLeavesNoResources` (whoever comes to the end of a cleanup, main's, the signal handler's or that of a failed setup, leaves nothing), `LiveJailKeepsResources` | two jails, one `--cleanup` that may run repeatedly, commands succeed, kills anywhere |
| `LifecycleReaped` | `OrphansReaped` (liveness): resources and canary of a dead jail go in the end, the canary also when the heartbeat wrote it again after cleanup | one jail, one `--cleanup` |
| `ProcEngine` | `PipesBelongToReader`, `MutexHeld`, `ImplementsRuleEngine`, `EveryRequestDecided` | three requests, two attempts each, a program that may exit, stay silent or answer with an empty line |
| `JsReload` | `CacheCoherent`, `EvaluatesCurrentFile`, `RulesNeverRollBack`, `RequestsFinish` | two requests, four versions of the file, one of them invalid, removal and restoration |
| `RequestHandling` | `ImplementsRuleEngine`, `AnsweredAsDocumented` (verdict, limit, status and message are those documented for the answer), `ScriptEndsWithRequest`, `LoggedBeforeActedOn`, `EvaluationEnds`; `ImplementsByteLimit`, `BodyWithinLimit`, `NothingWithheld`, `OversizedIsRejected`, `HintsKept` | every answer of the three engines that documentation and code read alike (`Unlisted = {}`), every failure, loops, clients that leave at every await; a word of six bits, limits 0, 1, 5, 8, 63 against headers 1, 4, 5, bodies up to 9 bytes without length and 50 with |
| `Chain` | `PlainLoopsBroken`, `OriginGetsWhatWasAllowed` | three instances, two hosts, every routing, four hops |
| `HttpsConnection` | `VerifyingClientsReachTheirHost`, `OnlyAllowedForwarded`, `SniExtracted`, `ConnectDetected`, `EveryConnectionSettles` | three hosts and the default one, two ports, all kinds of client, also such that do not wait for the 200, bytes in any portions |
| `CaStore` | `SigningCaTrusted`, `CaNeverReplaced`, `ServedChainVerifies` (a client gets a valid chain for its host, signed by the trusted CA) | four processes, three handlers, two hosts, a cache for one |
| `NetnsScan` (violation) | `NetnsScanRemovesConfig` | one jail |
| `ProcEngineCancel` (violation) | `ImplementsRuleEngine` with clients that leave at every await | as `ProcEngine` |
| `HttpsPort` (violation) | `TunnelReachesTarget` | as `HttpsConnection` |

Why the bounds suffice. Two jails and a cleaner give every pair of roles
(owner, reaper, second reaper); plain and Docker jails mixed are left to the
proof. Timeouts of one and two ticks separate "young",
"older than the cleanup timeout" and "older than both". Two kinds of resource
show orders and half-done deletions; the proofs are for any set of kinds.
Three requests let a stray answer pass through two others. Three versions after
the first allow a valid, an invalid and a valid edit during one reload. Four
hops let a request come back to any of three instances. Two of four processes
can die in the middle of writing and two more start after them. Three handlers
and a cache for one of two hosts let two sign for the same host while a third
evicts it. Bounds of
counters are constants: `MaxAge` (ages beyond it are alike to every scan),
`MaxEdits`, `MaxBody`, `MaxHops`, and `MaxAge` of a serving process.

Deadlock is checked except where the system may stop: requests that are over
(`JsReload`, `RequestHandling`, `Chain`), closed connections, ended processes.

### What the violations show

- `NetnsScan`: `--cleanup` hands the whole name `httpjail_<id>` of an
  `/etc/netns` entry to `cleanup_orphaned`, which prefixes it again; the scan
  that is to handle deleted canaries removes nothing. (The mutant
  `NetnsCleanupIdStripped` shows that stripping the prefix alone is no repair:
  the scan looks at no age, so it would take the resources of live jails.)
- `ProcEngineCancel`: a future dropped at its `read_line` leaves the answer in
  the pipe, and every later request gets the answer of the one before it, until
  something kills the program.
- `HttpsPort`: the port of a CONNECT target is cut off, so requests in a tunnel
  to port 8443 go to 443, and are judged under a URL without port.

### What the passing runs exclude

Where the code does less than a document or a comment says, the passing runs and
the theorems are about the rest. Each line below is a constant to change, or an
invariant to add to the run's configuration; TLC then refutes the property.

| Run | Change | Refuted | What the code does, and what is said of it |
|---|---|---|---|
| `LifecycleFailures` | `SetupDelay` > `CleanupTimeout` | `LiveJailKeepsResources` | nothing touches the canary between its creation and the heartbeat (`jail/managed.rs:229`) |
| `LifecycleCrash` | `SetupMayFail = TRUE` | `OrphansDiscoverable` | a failed setup deletes the canary (`jail/managed.rs:239`) before the jail is dropped; `jail/managed.rs:287`: "cleanup jail resources BEFORE deleting canary" |
| `LifecycleCrash` | `DeleteMayFail = TRUE` | `OrphansDiscoverable`, `ExitLeavesNoResources` | Drop swallows errors (`sys_resource.rs:69`) and the canary goes; `jail/managed.rs:99`: "We never delete the canary unless we're certain that the system resources are cleaned up" |
| `LifecycleCrash` | none | `EveryExitCleansUp` | `main.rs:703` and `:714` return the error of `execute` before `cleanup` is called, and the Arc in the signal handler keeps Drop from running: everything stays until a later scan; `jail/managed.rs:14`: "automatic cleanup on drop" |
| `ProcEngine` | `LeavePoints` with `"read"` | `ImplementsRuleEngine` | the run `ProcEngineCancel` |
| `JsReload` | `EditsDuringStartup = TRUE` | `CacheCoherent`, `EvaluatesCurrentFile` | `main.rs:427` reads the file, `rules/v8_js.rs:56` stats it later: an edit between the two counts as loaded; `javascript.md:59`: "If the file has changed, it's reloaded" |
| `RequestHandling` | `Lengths` with 61 | `OversizedIsRejected` | `proxy.rs:128` adds in u64, which wraps in release builds (the body limit still holds for what is sent); `request-body-limiting.md:41`: 413 "immediately" |
| `RequestHandling` | `Unlisted = {"unset"}` | `AnsweredAsDocumented`, `ImplementsRuleEngine`, `ExplicitlyAllowed` | an object with neither field, `{allow: undefined}` and misspelt names included, allows (`rules/common.rs:130`; the test at `:227` expects it); `docs/introduction.md:28`: "blocked unless explicitly allowed" |
| `RequestHandling` | `Unlisted = {"string"}` | the first two, `StringsDeny` | the JavaScript strings `"true"` and `'{"allow": true}'` are verdicts; `rules/v8_js.rs:153`: "will be treated as deny message" |
| `RequestHandling` | `Unlisted = {"array"}` | the first two, `OtherTextDenies` | serde also reads a struct from an array of its fields, so the line `[true, null]` allows, and so does the same array in JavaScript; `line-processor.md:36`: "Any other text: Treated as deny" |
| `RequestHandling` | none | `NoErrorDetails` | when a script cannot be started or waited for (`rules/shell.rs:65`, `:94`), the 403 tells the operating system's error; `rules.rs:58`: "MUST NOT expose detailed error information" |
| `RequestHandling` | none | `AllRequestsLogged` | a request whose loop is detected is answered before the rules, and with them the log, are asked (`proxy.rs:547`); `request-logging.md:3`: "Log all HTTP/HTTPS requests" |
| `Chain` | none | `NoInstanceTwice` | decrypted requests have no loop check (`proxy_tls.rs:462`), and a joined header line does not equal the nonce (`proxy.rs:551`); `proxy.rs:39`: "comma-separated nonces". With `Schemes = {"http"}` and `Combining = FALSE` it holds |
| `HttpsConnection` | none | `EverySniExtracted` | `parse_tls_plaintext` needs the whole record within the 2048 bytes of the peek (`proxy_tls.rs:94`, `:111`): a longer hello, or one of which only a part has arrived, is judged for the default host, wherever its name stands; `tls-interception.md:33`: "Extracts SNI from TLS ClientHello" |
| `CaStore` | `MaxAge` > `Validity` | `ServedChainVerifies` | a cached certificate is not looked at again (`tls.rs:219`): a process older than a year serves expired ones |
| `CaStore` | `Overlap = TRUE` | `SigningCaTrusted` | two first starts overwrite each other's CA (`tls.rs:58`); `tls-interception.md:11`: "The jailed process trusts the CA" |

In the model a jail process whose `execute` failed ends as `failed`; those that end
as `gone` were killed or run with `--no-jail-cleanup`. `ExitLeavesNoResources` is
about the others, which end as `done` after a cleanup. `LoggedBeforeActedOn` says of
a request with a loop that it is not forwarded without a line.

Seen while modelling and stated by no property: a Docker jail that ends normally
leaves its network and routing table, for the Arc in the signal handler keeps the
Drop from running that `jail/linux/docker.rs:530` relies on (the next Docker
jail's scan removes the network only); an orphan scan that fails because a canary
vanished under it (`jail/managed.rs:74`) fails the setup of its own jail; headers
alone may exceed `max_tx_bytes` (`proxy.rs:145`); without `whole`, a CONNECT
request in two segments may be taken for plain HTTP (`proxy_tls.rs:46`); a key
file that was created and not filled makes every later start fail (`tls.rs:66`); a
client that sends its hello right behind its CONNECT request fails, for the bytes
are dropped with the BufReader (`proxy_tls.rs:320`).

Of the rules' answers: `null` or a number denies without message in JavaScript
and with its text in a line processor; the `max_tx_bytes` of a verdict on CONNECT
is ignored; what a killed script has started runs on; an expression has no
timeout.

### What "documented" means

The oracle of `AnsweredAsDocumented` and of the refinement of `RuleEngine` is
`DocumentedVerdict` in `Verdict`, written from the documentation alone: the table
`docs/includes/response-format-table.md`; for other lines of a program
`line-processor.md:36`; for strings of an expression the comment at
`rules/v8_js.rs:153`; for scripts `shell.md`; and for whatever none of them names,
an object with neither field among them, "blocked unless explicitly allowed"
(`docs/introduction.md:28`), with a message that is left open. Three kinds of
answers (`AnswerKind`) are read otherwise by the code. They belong to the
specification like all others; the run and the theorems about documented answers
leave them out by `Unlisted = {}`, and the table above says what they refute. The
other theorems of `RequestHandlingProofs` are for every `Unlisted`.

### Fairness

- `LifecycleReaped`: weak fairness of every thread (the scheduler), of the
  clock, and of somebody running `--cleanup` again; `--cleanup` itself is not
  killed in this run. Commands need not end and no signal or crash is owed.
  No failure of deletions, for the canary then goes while resources stay.
- `ProcEngine`: weak fairness of the mutex hand-over (tokio's mutex is FIFO) and
  of the holder's next step, the 5-second timer included. The program owes
  nothing: it may stay silent for ever. The timer covers the answer, not the
  write (`rules/proc.rs:122`): that the pipe takes a line is assumed, see below.
- `JsReload`: weak fairness of each request. It awaits the reload lock, whose
  holder is fair too, and the evaluation of the expression: that an expression
  ends is assumed, for the code sets no timeout (`rules/v8_js.rs:324`).
- `RequestHandling`: weak fairness of the handler, the 30-second timer included;
  an error of `wait_with_output` is not owed.
  That an expression ends is assumed (the code has no timeout for it), that the
  line processor decides is what `ProcEngine` shows. Scripts, clients and
  upstream servers owe nothing: no timeout covers an upstream answer, so only
  the end of the evaluation is claimed.
- `HttpsConnection`: weak fairness of the handler up to serving, its timers
  included. The client owes nothing; that the rule engine returns its verdict on a
  CONNECT is taken from the two runs above. A client that is silent while hyper
  serves it (`serving`, `http`) counts as settled: the code sets no timeout there.

## Proofs

TLAPS proves, for every value of the constants that satisfies the named
assumptions:

- `JailLifecycleProofs`: `TypeOK`; `LiveJailKeepsResources` if `SetupDelay <=
  CleanupTimeout`, with all failures and kills. The property is about steps; the
  inductive invariant says why a step that deletes is never aimed at a jail in
  use: `Roles` (which thread is in which phase), `LiveCanary` (a jail in use has
  a canary no older than its punctuality allows), `NothingBeforeCanary` (before
  the canary there are no resources), `TargetsOver` (whoever is being reaped is
  no longer in use, and a jail never comes back). `ExitLeavesNoResources` if
  deletions succeed (`DeleteMayFail = FALSE`; setups may fail at any command), for
  every process that comes to the end of a cleanup:
  main thread and signal handler of a jail each still have on their list what is
  left of its Linux resources, whoever else deletes them meanwhile
  (`OwnCleanup`). `OrphansDiscoverable` if all commands succeed and `SetupDelay <=
  CleanupTimeout`: whoever reaps a jail still has on its list what is left of it
  (`Discovery`), so a canary that goes is one whose jail has nothing left.
- `ProcRuleEngineProofs`: `TypeOK` and `MutexHeld` for clients that leave
  anywhere, from the shape of the queue (`Waiting`: no request twice, all of
  them waiting); `PipesBelongToReader` and the refinement of `RuleEngine` if no
  client leaves while it reads. A step of `ReadResponse` is a step of `Decide`
  because the line at the head of the pipe is the reader's own; every other
  return denies.
- `JsRuleReloadProofs`: `TypeOK`; `CacheCoherent`, `EvaluatesCurrentFile` and
  `RulesNeverRollBack` if the file is not written during startup. The invariant
  orders the versions: recorded mtime <= cached code <= file, and what the
  holder of the lock has read is at least as new as what it saw and what is
  cached.
- `RequestByteLimitProofs`: `TypeOK`, `BodyWithinLimit`, `NothingWithheld` and
  `HintsKept` for every word size, from one invariant of the counters
  (`Accounting`). `OversizedIsRejected` if no sum of header size and
  Content-Length reaches the word size; where the sum wraps it is false.
- `CaStoreProofs`: `TypeOK`; `SigningCaTrusted` and `CaNeverReplaced` for starts
  that do not overlap. Whoever writes found no complete key (`WritesFirstKey`),
  so nobody serves meanwhile (`ServesPair`). Then the certificates:
  `HostCertificates` implements `CaStore` (`CertificatesKeepCa`), so both
  properties hold while handlers run; `CertTypeOK`, with lemmas about the LRU
  cache (`OthersOfCache`, `CacheGet`, `CachePut`: within its capacity, no host
  twice, the rest in order); `ServedChainVerifies` if starts do not overlap and no
  process gets older than a certificate's validity (`MaxAge <= Validity`). All
  that a serving process has in its cache it signed itself (`CachesSigned`), and
  what a handler puts or serves is for its host and from that process
  (`TasksSigned`).
- `HttpsConnectionProofs`: all the invariants of `HttpsConnection`, for any
  hosts, rules and portions of bytes. What must be known of a connection beyond
  the properties: what a client sends in one piece is there whole or not at all
  (`WholeBursts`), where the handler stands tells what the client speaks
  (`Detected`), a tunnel's host is the target of its CONNECT line, unless the
  client went before the line was complete (`TunnelHost`), a tunnel being
  established was allowed (`TunnelAllowed`), and whoever is served accepted the
  certificate (`ServesAccepted`).
- `ProxyChainProofs`: all the invariants of `ProxyChain`, for any instances,
  hosts, rules and routes. `OriginGetsWhatWasAllowed`: from the first hop on Host
  header and URL agree, the host never changes again, every instance on the way
  allowed it and sent the request where it leads (`UnderWay`, `Course`).
  `PlainLoopsBroken`: every instance that forwarded the request is named in the
  loop header (`Marked`), so while every line names one instance, an instance
  that gets the request again finds a line that is its own nonce. Where all
  requests are plain HTTP and no lines are joined no instance forwards a request
  twice (`UnjoinedNoncesBreakLoops`).
- `RequestHandlingProofs`: `HandlingTypeOK`, `ScriptEndsWithRequest` and
  `LoggedBeforeActedOn` for all answers; `AnsweredAsDocumented` and the
  refinements of `RuleEngine` and `RequestByteLimit` for the answers that
  documentation and code read alike (`Unlisted = {}`; the three other kinds refute
  them, see above). The first half is about operators: case by case the verdict
  computed from an answer of the listed kinds is the documented one or, where the
  documentation names no message, one with the documented action
  (`VerdictDocumented`), for every set of limits. The second half carries it
  through the handler: there is a verdict exactly from the return of the engine on
  (`Decided`), the limit applied is the verdict's (`Limited`), answer and log are
  the verdict's (`Answered`, `Logged`), a loop is answered before there is a
  verdict (`LoopIInv`), and the verdict is the documented one or the engine's
  own refusal (`AsDocumented`). Through the refinement what
  `RequestByteLimitProofs` shows holds of the handled request and the documented
  limit. For the limit of the verdict, whatever the answer, `BodyWithinLimit`,
  `NothingWithheld`, `HintsKept` and `OversizedIsRejected` are theorems of their
  own: to the body a step of the handler is a step of `RequestByteLimit`, none, or
  the choice of a limit before anything was measured (`StepOfBody`).

Only model-checked: the liveness properties (`OrphansReaped`,
`EveryRequestDecided`, `RequestsFinish`, `EvaluationEnds`,
`EveryConnectionSettles`), because the prover does not handle fairness.

## Not modelled

- Listeners (`proxy.rs`): binding tries ports of a range until one is free, and
  an accept loop spawns a task per connection. The tasks share only what has a
  module of its own.
- nftables rule text and the addresses and routes of the jail: what they mean is
  decided by the kernel. The DNS responder, the weak jail, the keychain,
  console.log formatting and the test verifier have no protocol of their own.
- What V8 computes; the calendar (on 29 February a certificate cannot be given
  its last day, `tls.rs:259`: signing may fail in the model).
- Hop-by-hop headers other than Host and the loop header, the upstream
  connection pool, option parsing and `--test`.
- A line to the processor is written as a whole (pipes take one unless it is
  longer than their buffer; the write of a longer one to a program that does not
  read blocks without a timeout, `rules/proc.rs:122`), and two writes of the rules
  file never have one mtime.
- The BufReader of a CONNECT request takes all that has arrived at its first read,
  which is so up to its 8 KiB.
- Objects that an expression returns have no `toJSON` of their own.

## Plan

1. An abstract specification of a jail's resources (created, in use, reaped)
   that `JailLifecycle` implements, should the lifecycle grow.
2. Listeners, should their tasks come to share more than they do.
