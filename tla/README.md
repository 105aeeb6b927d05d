# TLA+ models of go-away's challenge engine

This directory holds TLA+ models of the go-away gateway (`src/`). The models
are checked with TLC. Each module is written from the Go source. Where the
code sits outside `src/` (the `challenge`, `policy`, `action` and `condition`
packages), the module follows `spec.md`, and PROJECT.json marks that
definition `spec_modelled`.

Note on the sources: the files under `src/` come from different revisions of
the project. `src/lib/state.go` builds challenges inline, with `ServeChallenge`
closures and the `ChallengeSolve` map. `src/lib/http.go` and
`src/lib/challenge/refresh/refresh.go` use the later `challenge.Registration`
API. Each module models the file it names, as that file is written.

## 1. Inventory

### Components and their state

| Component | Source | State it keeps | Operations |
|---|---|---|---|
| Await/Solve coordinator | `state.go` 63, 70-94 | `State.ChallengeSolve` (`sync.Map` from a key to a callback). Each waiter also has its own `atomic.Int64` result and a cancellable context. | `AwaitChallenge` (Store, then wait on ctx), `SolveChallenge` (LoadAndDelete, then call the callback) |
| preload-link mode | `state.go` 450-497 | per request: key, `data.Challenges[id]` | HTTP/1 skip, 103 Early Hints with the verify URL, deadline wait, Pass/Continue |
| key runtime verify endpoint | `state.go` 562-660 | per request only; sets a token cookie on the client | redirect check, hex decode, compare with the recomputed key, SolveChallenge(PASS/FAIL), IPv4→IPv6 retry path, response |
| cookie mode | `state.go` 386-410 | the client's cookie jar, the `__goaway_challenge` marker | issue token cookie and 307 to self; a marked request that still lacks a valid token gets 403 |
| http mode/runtime | `state.go` 286-385 | none in the process; an outbound HTTP call | forward headers to an external URL, compare the status, bind a token to hash(cookie, key, public key) |
| refresh / meta / header / resource-load / js modes | `state.go` 411-554, `refresh.go` | none | render a page or header pointing at the verify endpoint and return Stop |
| wasm runtime and runner | `runner.go`, `state.go` 662-731 | `Runner.modules` (compiled modules by name), wazero runtime | Compile with the four-export interface check; Instantiate a fresh named instance per call; MakeChallenge/VerifyChallenge; Close |
| Challenge registry loading | `state.go` 119-812 | `State.Challenges`, `State.Rules`, the key pair | key from seed or random; alias substitution; ids from a counter; VerifyProbability clamped; mode/runtime dispatch; rules validated |
| Rule table / dispatch | `http.go` 218-331 | per request `RequestData` | evaluate rules in order; continuing vs terminal actions; default PASS; cleanup (strip go-away query args and cookies, set headers) before the backend |
| TLS fingerprinting | `fingerprint*.go` | per-connection atomic pointers to JA3N/JA4 | computed in GetCertificate, read only by the request logger |
| Listeners / servers / startup | `bind.go`, `http_*.go`, `main.go` | atomic handler pointer; passthrough server | passthrough until the state is loaded, then swap or restart the listener |
| Tag fetching | `http.go` 41-216, `tagfetcher.go` | `tagCache` | fetch a backend page and keep only allow-listed meta/link tags |

### How they interact

A request first goes through `ServeHTTP`. The Rule Table then evaluates the
rules in order. A CHALLENGE or CHECK rule calls the challenge registry, and
each challenge's mode handler returns Pass, Continue or Stop. Most modes end
the request with Stop and point the client at a verify endpoint. The client
then sends a **separate** request there, and that request issues the token
cookie. The one exception is preload-link, which keeps its request open: it
sends Early Hints and blocks on the coordinator. A concurrent verify request
from the same client unblocks it through the shared `ChallengeSolve` map.
That map is the only mutable state shared between requests. Everything else
is built at load time and read-only afterwards.

### What is hard

* **Concurrency.** Every request runs on its own goroutine. The preload
  waiter, a verify for the same key, a second preload request with the same
  key, and the waiter's deadline all interleave. Registration, take, delivery
  and wait are separate atomic steps.
* **Timeouts.** The preload deadline (default 3s) races the verify. Client
  disconnect cancels the same context. The http runtime's outbound call has
  no timeout.
* **Ordering.** The Early Hints response is flushed before the callback is
  registered.
* **Windows and keys.** A key depends on the client, the address family and
  the expiry bucket. A family switch (happy eyeballs) or a bucket rollover
  between two requests changes the key.
* **Load-time validation.** Invalid policies must be refused.
  VerifyProbability is clamped, and ids depend on map iteration order.

### Correctness properties, per component

* Coordinator and preload-link:
  * a waiter returns Pass only for a proven key;
  * no waiter is resolved twice;
  * every waiter returns;
  * a verify that lands while the waiter blocks reaches it;
  * registrations are neither overwritten nor leaked.
* Verify endpoint:
  * a token is issued only when the result equals the recomputed key;
  * the IPv4→IPv6 retry never passes.
* Cookie mode:
  * a client that keeps cookies reaches the backend after one redirect;
  * a client without cookies gets 403 after at most one redirect, with no
    redirect loop.
* Rule table:
  * the first terminal matching rule decides the outcome;
  * an evaluation error never reaches the backend;
  * the backend never sees go-away cookies or query arguments;
  * the backend-host override selects that backend.
* Loading:
  * ids are unique and sequential;
  * probabilities end up in (0,1];
  * a CHALLENGE/CHECK rule has at least one known challenge;
  * a non-conforming wasm module is rejected.
* Wasm runner: each call gets its own instance, and the instance is closed
  when the call returns.

## 2. Plan

Modules, in order of importance:

1. **PreloadLink** (done): the coordinator, the preload-link mode and the key
   runtime's verify endpoint. This is the only cross-request concurrency in
   the core.
2. **RuleTable** (done): `handleRequest` as a loop over an ordered rule sequence,
   with continuing and terminal actions (spec_modelled), cleanup, and the
   backend-host override.
3. **CookieMode** (done): a client cookie jar, the marker argument, and token
   expiry across a window rollover and an address family switch.
4. **ChallengeLoad** (done): `NewState` as a load procedure over a small policy:
   ids, clamping and validation. Alias substitution is reduced to whether
   the aliases compile; the substitution itself is not modelled.
5. **WasmRunner** (done): the Compile interface check as an operator checked against
   the spec's four-export definition, plus concurrent Instantiate with
   wazero's unique module names.
6. **HttpChallenge** (done): the outbound call without a context or timeout,
   and token binding.
7. **Ja4** (done): the fingerprinter per connection, with JA3N and JA4 as
   pure operators with uint16 arithmetic, and the request logger reading them.
8. **Startup** (done): the `-passthrough` hand-off in `main.go`.
9. An abstract **AwaitSolve** specification (done): each waiter gets exactly
   one outcome, Pass exactly when solved, solved only for a proven key, and
   PreloadLink is shown to refine it.

Not modelled because nothing in `src/` calls it: `State.fetchTags` and its
meta allow-list. Reading it shows `strings.HasPrefix("og:", name)` with its
arguments swapped (`http.go` 151-160).

The meta-refresh, header-refresh and resource-load modes were tried
as key-issuing actions of PreloadLink. They only add keys to `hinted`, and
they made the pass run ten times larger (4.4M states, 11 minutes), so they
are listed as not modelled.

## 3. Modules and runs

### PreloadLink (`PreloadLink.tla`, `MCPreloadLink.tla`)

**State.**

| Variable | Models |
|---|---|
| `solve` | `ChallengeSolve`, as a function from keys to the waiter whose callback is stored |
| `wpc` | each preload goroutine's position: idle, hinted (103 sent), waiting (callback stored), done |
| `wresult` | the waiter's atomic result |
| `wdone` | the waiter's context is done |
| `wout` | the returned Pass/Continue |
| `vpc`, `vkey`, `vres`, `vcb` | each verify goroutine and the callback it took |
| `now` | the expiry bucket |
| `hinted` | keys given to clients |
| `proven`, `landed`, `deliveries` | history variables for the properties |

A key is the triple (client, family, bucket) it is derived from.

**Actions.**

| Action | Code |
|---|---|
| `PreloadStart` | the HTTP/1 skip and the Early Hints response (`state.go` 456-486) |
| `Register` | `ChallengeSolve.Store` (76) |
| `Timeout` | the deadline or disconnect of the context (485) |
| `Finish` | `<-ctx.Done()`, the result load and the return (81-83, 487-496) |
| `VerifyStart` | `ServeVerifyChallenge` up to `LoadAndDelete` (590-637, 87) |
| `VerifyDeliver` | the callback, i.e. result store and cancel (77-78, 89) |
| `Tick` | the expiry bucket advancing |

**Bounds.**
* One client, which can use either address family.
* Two waiters, which is the least that can show overwriting.
* Two verifiers, which is the least that can race on LoadAndDelete.
* Two buckets, so a rollover can happen.
* Clients may submit any hinted key or a non-hex value, with no, a local or
  an open redirect.

This covers each path of the verify handler and every interleaving of two
waiters on one key.

**Fairness.** Weak fairness applies to Register, Timeout, Finish and
VerifyDeliver. A runnable goroutine eventually runs, and the
`context.WithTimeout` deadline always fires. Requests need not arrive, so the
Start actions are not fair. The model stops once its bounded requests are
served, which an idle server does too, so the cfgs say CHECK_DEADLOCK FALSE.

**Runs.**

| Run | cfg | Expect | What it shows |
|---|---|---|---|
| preload_safety | `MCPreloadLink.cfg` | pass | `PassImpliesProven`: Pass only for a key some request proved. `TakeOnce`: no waiter resolved twice. `WaiterTerminates`: every hinted waiter returns. `AwaitSolveSpec`: PreloadLink implements AwaitSolve (below). 468k distinct states, about 95s. |
| preload_registry | `MCPreloadLink_RegistryTracksWaiters.cfg` | violation | `RegistryTracksWaiters`: ChallengeSolve should deliver every verify that lands while a request waits, and hold a callback only as long as its waiter waits (spec 3, 5, 8). It fails in three ways. A waiter that times out never deletes its entry (`state.go` 81), so every unanswered Early Hints leaks one map entry; this is TLC's shortest trace (5 states: start, register, timeout, finish). A verify handled between the 103 response and `Store` (`state.go` 483) finds no entry, and the waiter sits out its deadline and returns Continue. A second preload request of the same client, family and window overwrites the first registration (`state.go` 76), so a verify reaches only the second; that is realistic for a page and its sub-resources loaded in parallel. Each of the last two gives a 9-state trace when the other conjuncts are left out. |

**Mutants.** Each property of the passing run has a mutant that breaks it:
* a verify response that skips the error page for a missing redirect (a 200)
  breaks `TypeOK`;
* comparing keys without the family flag breaks `PassImpliesProven`;
* loading the callback without deleting it breaks `TakeOnce`;
* waiting for a result instead of the context breaks `WaiterTerminates`;
* the same Load-without-delete breaks `AwaitSolveSpec`: a second verify
  request for the key runs the callback again, and a FAIL after a PASS
  unsolves the waiter.

**Refinement.** `AwaitSolve.tla` states what a preload-link request
promises, with none of the machinery: a request skips the mode or waits on a
key; while waiting it may be solved, once, and only for a key a verify
request has proven (`Prove`); it returns once, with Pass exactly when solved;
and a waiting request always returns (weak fairness on `Return`).
`PreloadLink` instantiates it as `Abstract` with this mapping:
* `aw`: idle stays idle, hinted and waiting are waiting, done is done
  (`AwaitPhase`);
* `akey` is `wkey`, `proven` is `proven`, `aout` is `wout`;
* `solved` is the waiter's atomic result being PASS while it waits, and its
  returned outcome being Pass once it is done (`SolvedFor`). A callback that
  runs after the handler returned, which the registry leak allows, changes
  nothing the request can still show and maps to a stutter.

`PreloadStart` maps to `Begin` or `Skip`, the PASS `VerifyDeliver` to
`Solve`, the proving `VerifyStart` to `Prove`, `Finish` to `Return`, and
every other step to a stutter. `AwaitSolveSpec == Abstract!Spec` is checked
as a PROPERTY of preload_safety. It says more than the invariants: a
waiter's phase only moves forward, a solved waiter is never unsolved, and
the outcome matches the solve. The lost solve and the overwritten
registration of preload_registry are allowed by the abstraction (the
waiter is simply never solved), which is why that run is separate.

**Left out.**
* URL, header and HTML formatting.
* Token signing. A token is always produced, and its failure only changes
  which cookie header is written.
* The per-request `data.Challenges` cache of the verify request, which is
  discarded with the request.

### RuleTable (`RuleTable.tla`, `MCRuleTable.tla`)

`State.handleRequest` (`src/lib/http.go` 218-304) for one request. The
policy, the request and the outcome of each rule's condition program are
chosen in `Init`. One run therefore covers every policy of up to `MaxRules`
rules against every request, and the walk itself is a short behaviour.

**State.**

| Variable | Models |
|---|---|
| `rules` | `state.rules`: a sequence of rules, each an action and a host scope (or none) |
| `conds` | the result of each rule's compiled condition: true, false or a runtime error |
| `req` | the request: host, query arguments, cookies and Referer. Go-away's own argument and cookie are `goawayToken`/`goawayReferer`. |
| `tokenValid` | a CHALLENGE/CHECK rule finds a valid token (the Token Protocol's answer, abstracted) |
| `pc`, `i` | position in the handler and the rule index of the `for` loop |
| `opt` | `RequestOptBackendHost` as set by a CONTEXT action |
| `outcome`, `served`, `backendReq` | the response, the backend used, and the request as the backend sees it |

**Actions.**

| Action | Code |
|---|---|
| `Start` | the 503 for a host without backend (225-230) |
| `SkipRule` | a rule out of host scope or with a false condition: `next` is true (280, 292) |
| `RuleError` | `err != nil`: ErrorPage 500, then panic (285-289) |
| `ContinueRule` | a continuing action, CONTEXT possibly setting the backend-host option (290-294) |
| `TerminalRule` | a terminal action. PASS, or CHALLENGE/CHECK with a valid token, calls the backend callback with `fromChallenge = true` (281-284). |
| `DefaultPass` | `action.Pass` with `fromChallenge = false` (297-304) |

`Cleanup` is `cleanupRequest` (245-278) and `GetBackend` is `getBackend`
(232-243). What each action does is outside `src/` and follows spec 4.2.

**Bounds.**
* Hosts h1 and h2, of which only h1 has a backend in the safety run.
* Up to two rules over PASS, DROP, DENY, CODE, CHALLENGE, CONTEXT and NONE.
  BLOCK and CHECK behave as DENY and CHALLENGE.
* Every subset of one user and two go-away query arguments, and of one user
  and one go-away cookie.

Two rules are enough to put a continuing or a false or an out-of-scope rule
before a deciding one, and an erroring rule before or after a terminal one.

**Fairness.** Weak fairness on `Next`. The handler runs to completion once
started.

**Runs.**

| Run | cfg | Expect | What it shows |
|---|---|---|---|
| rules_dispatch | `MCRuleTable.cfg` | pass | `DecisionMatchesPolicy`: the loop ends each request as a reference decision over the whole list says (the first in-scope rule that errs, or is true and terminal, decides; none means PASS). 3.2M states, 15s. |

**Mutants.**
* An evaluation error that skips the rule instead of ending the request breaks
  `DecisionMatchesPolicy`.
* An error path that writes no page breaks `TypeOK`, whose last conjunct says
  every finished request has exactly one response.

**Observed, not a run.** With a CONTEXT rule setting the backend-host
option to another host, the request still goes to its own host's backend:
`getBackend` looks up `host` where it means `opt` (`http.go` 234). TLC
showed this while the model was built; it is a sequential defect a unit test
reaches, so no run is kept for it.

Every rule path calls `cleanupRequest` with
`fromChallenge = true`, and that includes an explicit PASS rule. A request
passed by a PASS rule therefore loses its Referer, while the default pass
keeps it. Nothing in the spec says which is meant.

**Left out.**
* `setupRoutes` and `ServeHTTP`. Challenge paths are registered on the mux
  beside "/", so the rules never see them.
* Response and extra headers.

### ChallengeLoad (`ChallengeLoad.tla`, `MCChallengeLoad.tla`)

`NewState` (`src/lib/state.go` 119-811) as the sequence of checks it runs.
Each part of the policy is chosen by `\E` when the code first reads it, and
recorded in a history variable (`seedCfg`, `tmplCfg`, `netCfg`, `aliasOk`,
`chalCfg`, `ruleCfg`). A load that fails early therefore ends early, and the
reference validity is judged on what was read.

**State.** `pc` is the position in `NewState`. `pending` is the set of
challenge names the map iteration has not visited yet; picking any member
models Go's unspecified map order. `idCounter` is the id counter.
`registry` is `state.Challenges` keyed by id, with name and probability.
`rules` holds the challenge ids of each compiled rule.

**Actions.**

| Action | Code |
|---|---|
| `CheckSeed` | seed length check (146-162) |
| `CheckTemplate` | built-in template, else read the file and `initTemplate` it, then return an error in every case (166-181) |
| `LoadNetworks` | a failed fetch is skipped; a refused prefix is fatal (183-206) |
| `CompileAliases` | condition aliases compiled (208-230) |
| `LoadChallenge` | one challenge: conditions, id, clamp, mode switch, runtime switch with the wasm asset and `Compile`, store by id (232-289, 557-559, 662-670, 733) |
| `ChallengesDone` | end of the challenge loop |
| `LoadRule` | one rule: `GetChallengeByName` for each name, empty gating list, condition compile, append (736-789) |
| `Finish` | mux and routes, return (791-811) |

**Bounds.**
* Two challenge names, so both iteration orders happen and ids can collide.
* Each challenge mode is http (with or without a URL), cookie or unknown.
* Each runtime is none, key, wasm (good, with the asset missing, or failing
  the interface check) or unknown.
* Probability is 0, 0.5 or 1.5, so both clamps fire. Conditions compile or
  not.
* Up to two rules, each PASS or CHALLENGE, naming no challenge, one of the
  two, or an unknown one.

This gives 354k states in 4s.

**Runs.**

| Run | cfg | Expect | What it shows |
|---|---|---|---|
| load_checks | `MCChallengeLoad.cfg` | pass | `LoadRefusesInvalid`: a State is returned only for a valid policy, in either map order. `ChallengesRegistered`: every challenge is found by name, and every rule's ids name the challenges it lists. The clamp of the verify probability (`ClampProbability`) is modelled as written and bounded by `TypeOK`. |

**Mutants.**
* Dropping the ceiling of the clamp breaks `TypeOK`.
* Accepting a CHALLENGE rule with no challenges breaks `LoadRefusesInvalid`.
* Not advancing the id counter makes the second challenge overwrite the
  first, which breaks `ChallengesRegistered`.

**Observed, not a run.** A template given as a readable file is loaded and
renamed, and then `NewState` returns "no template defined" anyway (180):
`CheckTemplate` fails in every case. Like the backend override above, this
is sequential and a unit test reaches it, so no run is kept.

**Left out.**
* What conditions compile to, template rendering and network contents. Each
  is abstracted to whether it loads.
* The closures each mode builds. They are modelled where they run.
* Alias substitution is a single `strings.Replacer` pass. An alias that
  mentions another alias is not expanded inside a rule, and the alias's own
  compile sees `$name`. Whether that compiles depends on the condition
  package, which is outside `src/`.

### Startup (`Startup.tla`, `MCStartup.tla`)

The `-passthrough` start-up of `src/cmd/go-away/main.go` (287-385).

* The pass-through goroutine binds the address and serves the backends from
  an inner Serve goroutine.
* main builds the State, cancels the pass-through context, waits on the
  WaitGroup, binds the address again, and serves the State.
* The pass-through goroutine shuts its server down with a 30 s deadline and
  calls `log.Fatal` on any error.
* Clients connect at any time.
* The process can be killed at any time (main installs no signal handler)
  and started again. With `-bind-network unix`, the socket file is the only
  state that outlives the process: `net.Listen` creates it, and only the
  listener's Close removes it.

**State.**
* `mpc`, `ppc` and `spc` are the positions of main, the pass-through
  goroutine and its Serve goroutine.
* `wg` is the WaitGroup counter.
* `ctxDone` is the cancelled context.
* `bound` is which server's listener holds the address.
* `ptClosed` means Shutdown has begun.
* `req` and `owner` are each connection's state and its server.
* `fatal` is the reason the process ended: a configuration error, the
  seed-printing exit, a NewState error, a bind conflict, a failed socket
  chmod, the Shutdown deadline or a signal.
* `sockFile` says a socket file exists at the unix path. It survives a
  restart.
* `restarts` counts the starts after the first.

**Actions.**

| Action | Code |
|---|---|
| `PassBind` | `setupListener`, then `wg.Add(1)` and the inner goroutine (294-315) |
| `PassServe`, `PassServeReturn` | `server.Serve`, returning `ErrServerClosed` after Shutdown, and the deferred `wg.Done` (315-327) |
| `PassShutdown` | `<-ctx.Done()` and `Shutdown`, which closes the listener at once (329-334) |
| `PassDrained` | Shutdown returns nil once no connection is active; then Close, the deferred `listener.Close` and `wg.Done` (334-338) |
| `PassShutdownTimeout` | the deadline passes with a connection active, and `log.Fatal` runs (331-335) |
| `Configure` | main before the hand-off (209-294): the key seed (`generate` prints one and exits, a bad one is fatal), the policy, the backends and the cache directories, each fatal on error; then, with `-passthrough`, `wg.Add(1)` and the pass-through goroutine |
| `LoadState` | `lib.NewState`, whose error is fatal (339-358) |
| `Cancel`, `Wait`, `BindState` | main (362-385) |
| `Arrive`, `Refuse`, `Complete` | a client connecting to a serving listener, connecting to an unbound address, and being answered |
| `Stop`, `Restart` | the environment: the process is killed, and is started again with its goroutines, listeners and connections gone (active ones are reset) but the socket file kept |

`Listen` is `setupListener` (34-79). `net.Listen` fails fatally while
another listener holds the address, or, for a unix socket, while a socket
file exists at the path. A unix socket is then chmod-ed to `-socket-mode`.
A mode that does not parse, or a failed chmod, closes the listener (which
removes the file) and is fatal. `PassShutdown` closing the listener removes
the file too.

**Bounds.**
* Two connections, so that one can be active on the pass-through server at
  cancel time while another arrives during the gap.
* One restart, enough for a second process to meet what the first left.
* The pass run binds TCP and gives 1,893 states. The violation run binds a
  unix socket.

**Fairness.**
* Weak fairness on every goroutine step.
* Weak fairness on `Complete`, because handlers finish.
* Weak fairness on the Shutdown deadline, because it is a timer.
* No fairness on `Stop` or `Restart`, which the operator or the OS decide.

**Runs.**

| Run | cfg | Expect | What it shows |
|---|---|---|---|
| startup_handoff | `MCStartup.cfg` | pass | `NoBindConflict`: no bind finds its TCP address taken. That covers main's second bind and the binds of a restarted process, in every interleaving. `StartupCompletes`: start-up ends with the State served or the process exited. |
| startup_fatal | `MCStartup_ListenerNeverFatal.cfg` | violation | `ListenerNeverFatal`: go-away never ends itself over its own listeners. Bound to a unix socket, TLC's shortest trace (7 states) is the pass-through bind, a kill, a restart, and the new pass-through bind failing on the stale socket file (`main.go` 50). With `Network = "tcp"` the same property fails through the hand-off (9 states): a connection still active on the pass-through server at cancel time makes Shutdown miss its deadline, and `log.Fatal` ends the process (335). |

**Mutants.**
* Skipping `wg.Wait` breaks `NoBindConflict`.
* A Serve goroutine without its deferred `wg.Done` breaks `StartupCompletes`.
* Starting it without `wg.Add(1)` drives the counter negative, which breaks
  `TypeOK`.

**Also visible.** After `PassShutdown` and before `BindState`, connections are
refused (`Refuse`). Nothing promises otherwise, so no property checks it.

**Left out.**
* bind.go's `Bind.Server`, with its TLS configuration and atomic handler
  swap. Nothing in `src/` calls it: main.go has its own `setupListener`,
  `newServer` and `newACMEManager`.
* PROXY protocol wrapping and the listen URL, which change no state.
* Start-up without `-passthrough`, which is the same sequence without the
  pass-through goroutine.

### CookieMode (`CookieMode.tla`, cfgs `MCCookieMode*.cfg`)

The cookie mode's `ServeChallenge` (`src/lib/state.go` 386-410), run in a
round trip with one browser.

* A request under a CHALLENGE rule first has its token checked. This check is
  outside `src/` and is modelled from spec 4.4/5 as `TokenValid`: signed, and
  bound to the current window and the key of the client's address family.
* A valid token passes.
* Otherwise, on a URL carrying the marker `__goaway_challenge=<name>`, the
  mode clears the cookie and answers 403.
* On an unmarked URL, it sets a token for the current window and key
  (`Issued`, 395-400) and redirects (307). The Location is computed by
  `SelfRedirect` (402-408): the request URL with the marker set in its query.

**State.**
* `now` is the expiry window.
* `family` and `switches` are the browser's address family and how often it
  has changed.
* `kind` is whether the browser keeps, drops or alters cookies.
* `link` is the marker of the link the user opens: none, or another
  challenge's.
* `url` is the marker of the URL the browser is on.
* `location` is the marker of the last 307's Location header.
* `jar` is its token cookie.
* `cpc` is the last response: idle, redirected, denied or passed.
* `redirects` counts consecutive 307s.

**Actions.**
* `Send` is one request and its response. The handler keeps no state between
  requests, so the pair is a single step.
* `Tick` advances the window.
* `SwitchFamily` changes the address family, as a dual-stack browser does.
* `ServeCookie` is the mode's branch.
* `Respond` is the token check in front of it.
* `Store` and `NextUrl` are the browser's side: how the jar takes each
  header, and which URL the browser requests next (the Location of a 307,
  or after a 403 the link). The browser follows whatever Location the
  server sent, so the marker that stops the chain comes from the server's
  own `SelfRedirect`.

**Bounds.** Four windows and two family switches, so that a rollover or a
switch can fall between a 307 and its retry more than once. Links carry no
marker or another challenge's. This gives 932 states.

**Fairness.** Weak fairness on `Send` only. The browser follows redirects and
retries; windows and family switches are not forced to happen.

**Runs.**

| Run | cfg | Expect | What it shows |
|---|---|---|---|
| cookie_roundtrip | `MCCookieMode.cfg` | pass | `NoRedirectLoop`: the marker ends every redirect chain after one 307. `CookielessNeverPasses`: clients that drop or alter the cookie never pass. `CookieClientEventuallyPasses`: a cookie-keeping browser that goes back to the plain link after a 403 eventually passes. |

**Mutants.**
* A self-redirect that sets the marker but does not write the query back
  (a dropped `uri.RawQuery = values.Encode()`) breaks `NoRedirectLoop`: the
  browser is sent to the unmarked URL again.
* Passing the request on issue breaks `CookielessNeverPasses`.
* Clearing the cookie after setting it breaks `CookieClientEventuallyPasses`.
* Issuing the token for the next window breaks `TypeOK`.

**Also visible, not checked.** A browser that reloads the marked page after a
403, instead of going back to the link, never recovers. The marked branch
(388-391) clears the cookie and denies without issuing a token. So a window
rollover or family switch between the 307 and the retry locks that URL, and a
shared marked link is denied to everyone. The spec (4.4) does not say what the
marked retry should do once its token has stopped matching the key.

**Left out.**
* The token's contents and signature, which are abstracted to the window,
  the family and a signed flag.
* The token-issue error path, because signing with an in-memory key does not
  fail.

### HttpChallenge (`HttpChallenge.tla`, `MCHttpChallenge.tla`)

The http challenge mode of `src/lib/state.go` (286-385), over one client's
successive requests.

* `TokenValid` is the token check. The signature and expiry are outside
  `src/` and follow spec 4.4. The mode's `Verify` (302-322) follows: a missing
  expected cookie fails, and otherwise the hash of the cookie value, key and
  public key must equal the token's binding. The hash is abstracted to the
  cookie value it binds.
* `ServeStart` (325-342): a valid token passes, and a missing expected cookie
  continues to the next challenge. Otherwise the request goes upstream.
* `UpstreamError` (344-352): `NewRequest` or `Client.Do` fails, and the mode
  continues.
* `UpstreamAnswer` (353-383): another status clears the token cookie and
  continues. The expected status issues a token bound to the cookie value and
  the expiry computed before the call, sets it, and passes. If
  `IssueChallengeToken` fails, the token cookie is cleared instead and the
  request still passes (371-376).
* `Deliver`: a cookie header reaches the jar only if the client is still
  connected.
* The environment: `Arrive` sends the next request, `Disconnect` closes its
  connection, `Rotate` changes the client's upstream session cookie between
  requests, and `Tick` advances the window, also during a call.

History variables: `approved` is the set of (cookie, window) pairs the
upstream accepted, and `passes` is the set of pairs under which a request
passed.

**Bounds.** Two cookie values and the absent cookie, two windows, three
requests, two cookie changes, with a required cookie. This is enough to issue
a token, change the cookie or the window, and come back with the old token,
with a disconnect or a rollover during a call. This gives 3184 states. The
client stops after its last request, so deadlock is not checked.

**Fairness.**
* `Spec` has weak fairness on the handler, which assumes the upstream
  eventually answers or the call fails.
* `SpecStall` has weak fairness only on `ServeStart`: the upstream may
  stall, as nothing in the code bounds the call.

**Runs.**

| Run | cfg | Expect | What it shows |
|---|---|---|---|
| http_binding | `MCHttpChallenge.cfg` | pass | `PassesOnlyApproved`: every request that passes, by token or by a fresh upstream call, carries a cookie value the upstream accepted in the same window. `TypeOK` also says no signed token binds an absent cookie. |
| http_disconnect | `MCHttpChallenge_Disconnect.cfg` | violation | `DisconnectReleasesHandler`: the client disconnects during the call and the upstream stalls, and the handler stays in `Client.Do` forever. The request is built without a context (344) and the client has no Timeout (123). Spec 5 says the call must inherit the request's cancellation. |

**Mutants.**
* A Verify that hashes the key without the cookie value breaks
  `PassesOnlyApproved`: a token issued for one session passes another.
* A ServeStart without the cookie check issues a token binding an absent
  cookie, which breaks `TypeOK`.

**Also visible, not checked.** A session the upstream revokes keeps passing
until the token's window ends. That is the design: the token caches the
upstream's answer.

**Left out.**
* The HTTP method and headers forwarded.
* Draining the response body, which could stall too, like the call itself.

### WasmRunner (`WasmRunner.tla`, `MCWasmRunner.tla`)

The wasm sandbox runner (`src/lib/challenge/wasm/runner.go`) and the wasm
runtime of a challenge (`src/lib/state.go` 662-731), for two concurrent
requests on one challenge.

**State.** `exports` is the guest binary's export table: for each of the four
functions the host calls, its parameter and result types, or absent.
`loaded` is the outcome of `Compile`. `live` is the request whose instance
holds the module name in the shared wazero runtime. Per request: `rpc`
(idle, running, done), `kind` (ServeMakeChallenge or Verify), `guest` (what
the guest call returned) and `rout` (what the request answered).

**Actions.**

| Action | Code |
|---|---|
| `Compile` | `NewState` case "wasm": read the asset and `Runner.Compile` (state.go 662-670) |
| `CompileError`, `CheckFails`, `Wanted` | the four export checks in order, the first failing one returning its error (runner.go 37-95) |
| `Instantiate(r)` | `Runner.Instantiate` with `WithName(key)`; a failure becomes a 500 page or Verify's error (runner.go 106-124, state.go 701-703, 726-728) |
| `Call(r)` | the callback runs the guest export, then the deferred `mod.Close` frees the name (state.go 672-705) |
| `Verdict` | what the request makes of the guest's answer: trap or ERROR is an error, OK passes, anything else fails (state.go 707-731) |

wazero itself is not in the repository. The model uses its documented
behaviour: a module name is unique among the open modules of a runtime, and
`InstantiateModule` fails while a module of that name is open.

**Bounds.** Every export table over two parameter lists and three result
lists per function, plus absent (7^4 tables), and two requests of either
kind. 19k states in under a second. The requests end, so deadlock is not
checked.

**Fairness.** Weak fairness on `Compile` and on each `Call`: every guest call
is assumed to return. Nothing in the code bounds it (see below).

**Runs.**

| Run | cfg | Expect | What it shows |
|---|---|---|---|
| wasm_runner | `MCWasmRunner.cfg` | pass | `CompileMatchesInterface`: `Compile` accepts exactly the guests with the spec 4.5 interface, over every export table. `TypeOK` also says every finished request was answered once. |
| wasm_concurrent | `MCWasmRunner_Independent.cfg` | violation | `InvocationsIndependent`: two requests on one challenge, and the second fails in `InstantiateModule` because the first still holds the module name (runner.go 113). ServeMakeChallenge answers 500 and Verify an error, though spec 4.5 and 5 make invocations isolated and requests independent. |

**Mutants.**
* A failed instantiation that writes no page breaks `TypeOK`.
* Not comparing free's result types breaks `CompileMatchesInterface`.

**Left out.**
* Guest memory, `malloc`/`free` calls and the payload encoding of
  `MakeChallengeCall` and `VerifyChallengeCall`: abstracted to the outcome of
  the call.
* Time. The guest runs under the runner's `context.Background()` (runner.go
  22, 123) with no deadline, while spec 5 asks for time-bounded guest
  execution. A looping guest also holds the module name, so every other
  request on that challenge fails as in wasm_concurrent.
* `Runner.Close`, which nothing in `src/` calls.

### Ja4 (`Ja4.tla`, `MCJa4.tla`)

TLS fingerprinting (`src/utils/fingerprint.go`, `fingerprint_modern.go`) and
the request logger that reads it (`src/lib/http.go` 19-39). The fingerprints
are used for logging only; no rule condition in `src/` reads them.

* `ConnContext` (45-47): every accepted connection gets an empty
  `TLSFingerprint`, two atomic pointers (`fp[c]`, `Nil` when not stored).
* `GetCertificate` (18-44): the wrapper computes `buildTLSFingerprint` of the
  ClientHello and stores both values. Then the configured GetCertificate
  runs (ACME), or crypto/tls falls back to the config's certificates; either
  may fail the handshake.  crypto/tls calls GetCertificate only when it needs to pick a certificate:
  with a single configured certificate, or with several and no SNI, it uses
  `Certificates[0]` and the wrapper does not run. That case behaves like
  `Resume` below (nothing stored); `GetCertificate` is the path of a
  deployment that relies on the callback (ACME, or several certificates).
* `Resume`: a TLS 1.3 handshake resumed with a PSK. crypto/tls selects no
  certificate then, so the wrapper does not run and the pointers stay `Nil`.
* `LogRequest` (http.go 19-39 with `GetTLSFingerprint`, fingerprint.go
  73-79): a request logs JA3N and JA4 when they were stored.
* `Close` ends an open connection.
* `tlsFingerprintJA3` (50-129): the highest non-GREASE version, capped to
  TLS 1.2 only when `supported_versions` comes with a GREASE version; the
  ciphers in order; the sorted extensions; curves and points. The md5 is
  abstracted to the tuple it hashes.
* `tlsFingerprintJA4` (131-241): the a-field is built character by
  character: `t`, `Ja4VersionBytes` (the named cases and the default branch,
  which subtracts 0x0201 in uint16 and appends both bytes in decimal with
  `Decimal`), `d`/`i`, and `Ja4Count` for the cipher and extension counts
  (zero-padded, `99` above 99). Then come the ALPN's first and last
  characters and the `copy` into the 10-byte `A`. The b and c parts are
  abstracted to the sorted lists they hash, with the signature schemes
  attached to c only when there are any. GREASE is recognised through
  `Bitwise`'s `&` with the code's mask and value.
* No property reads JA3N or the JA4 b and c parts; `Ja4ALayout` is about
  the a-field only. They stay in the model because the log line carries the
  whole fingerprint and they cost nothing in states (they are functions of
  the hello). Their digests are not checked against a reference.

**Inputs** (`MCJa4.tla`). The ClientHellos are built from:
* version lists that crypto/tls can negotiate: a GREASE value with TLS 1.3
  and 1.2, a legacy list without `supported_versions`, and TLS 1.3 draft 23
  next to TLS 1.2, as pre-RFC browsers sent it;
* 2, 12 and 120 ciphers (below 10, between 10 and 99, above 99);
* 2, 4 and 11 distinct extensions (crypto/tls refuses duplicates);
* SNI and ALPN where their extensions are present.

There are two connections with one request each. The set of connections is
finite and every connection ends, so deadlock is not checked.

| run | cfg | expect | what it shows |
|---|---|---|---|
| ja4_layout | `MCJa4.cfg` | violation | `Ja4ALayout`: every logged JA4 a-field has the SNI flag at position 4 and the two-digit cipher and extension counts at 5-8, for its connection's hello. TLC's trace (4 states) is a hello offering 0x7f17 and TLS 1.2. It is logged as `t12522i020`: the default branch writes five version characters, the counts move, and the copy into 10 bytes drops the ALPN (`fingerprint_modern.go` 159, 227). Without the draft version the property holds over all 15,876 states (33 s), including the count caps. |

**Build tags.** `fingerprint_modern.go` and `http_modern.go` carry
`//go:build !go1.22 && !go1.23`, and the `go1.22` tag holds on Go 1.22 and
every later release. So they compile only with Go older than 1.22, where
`http.Protocols` (used by `http_modern.go`) does not exist, and every real
build takes `http_legacy.go`, which installs no fingerprinter. The model is
of the code these tags are meant to enable (Go 1.24 and later).

**Left out.**
* The hex encoding and the digests (`uint16SliceToHex`, `ja4SHA256`, md5),
  which are abstracted to their injective input.
* A one-character ALPN, for which the code writes `00` as if there were no
  ALPN. The inputs do not compare it with a reference.
* The non-TLS server of `NewServer`, which has no fingerprint.

