# Heterion router: specifications, model checking and proofs

Heterion router is a gateway for language-model APIs written in Rust
(`crates/`), with a desktop shell around it (`desktop/`).  A client sends a
request in the dialect of OpenAI's chat or Responses API or of Anthropic's
Messages API; the gateway authenticates it, meters it, resolves the model name
to a plan of provider backends, walks that plan behind one circuit breaker per
backend, translates the answer, and books what it cost.  This directory holds
TLA+ modules of that program, the TLC configurations that check them, and proofs
that TLAPS checks.

Sections: [inventory](#inventory), [modules](#modules-and-the-code-they-model),
[runs](#runs), [statements about pure functions](#statements-about-pure-functions),
[fairness](#fairness), [proofs](#proofs),
[disagreements](#where-the-code-and-its-comments-disagree),
[not modelled](#not-modelled), [plan](#plan).

Paths below are relative to the repository.  `gw` stands for
`crates/heterion-router-gateway/src`, `db` for `crates/heterion-router-db/src`,
`tr` for `crates/heterion-router-translate/src`.  A bare file name is in `gw`.

## Inventory

A request goes through the layers in this order:

    cors -> guardrails -> budgets -> response cache -> handler (gw/lib.rs)
         -> RoutingBackend -> provider executor (pool of credentials)
         -> HTTP client / SSE decoder -> translation -> books

The layers share one SQLite connection behind a mutex (`db/db.rs`), one
`RoutingBackend` (breakers and the attribution ring), one cursor and refresh
lock per provider executor, and some process-wide tables (rate windows,
Gemini's thought signatures).  The axum server runs each request as a task; a
task that is not a spawned stream is dropped at an await when its client goes
away.  So every step between two awaits, or two lock regions, may be followed by
a step of any other request, or by none.

| Component | State | Operations | What is hard, and what makes it correct |
|---|---|---|---|
| Circuit breaker, `crates/heterion-router-routing/src/breaker.rs` | failure count, `opened_at`, `probe_at` per backend | `allow`, `record_success`, `record_failure`, `state` | Answers come in any order and carry no identity. A trial must be single-flight, an open breaker must shed for a whole cooldown, a lost probe must not pin it, and it opens only on consecutive outages. |
| Routing backend, `gw/routing.rs` | breakers, attribution ring, per-request walk | `complete`, `stream`, `attribute`, `attribution` | Retries, failover, sheds and unknown names decide the error reported; concurrent requests must not trip each other's backends or be booked on each other's backend; every request must be answered. |
| Combos, prefix router, providers, `gw/combos.rs`, `crates/heterion-router-routing/src/router.rs`, `crates/heterion-router-providers` | combo rows | parse, load, `plan_steps`, `resolve`, `route` | Archived combos, entries of several forms, names that are both combo and model, backends that exist in the table and not in the process. |
| Administration and embeddings, `gw/admin.rs`, `gw/embeddings.rs`, `gw/main.rs` | connection and combo rows against the backends built at the start | list, PATCH, restart, `dispatch`, `parse_response`, `record` | What the dashboard shows against what the running process does. |
| Budgets and rate limits, `gw/budgets.rs`, `db/budget_repos.rs` | budget row, rate ceiling, cost ledger, in-memory rate window | `enforce`, `PUT`, `DELETE` | The verdict is reached long before the cost is booked; one clock reading is used across four lock regions; windows roll; the budget is edited in between; a restart forgets the window. |
| Requests and their books, `gw/lib.rs`, `gw/claude_endpoint.rs`, `db/repos.rs`, `crates/heterion-router-usage` | usage rows, `StreamAccounting` per stream | completion, stream, responses, messages, prices, summaries | A stream ends by its finish chunk, an error, end of input or the drop of its body, and must be booked once and truly. |
| Stored responses, `gw/lib.rs`, `gw/continuation.rs`, `db/repos.rs` | `response_store` table with TTL and cap | persist, replay, sweep, delete | A turn continues one that is expired, evicted, deleted or written over meanwhile. |
| Guardrails, response cache, keys: `gw/guardrails.rs`, `gw/cache.rs`, `gw/auth.rs`, `gw/apikeys.rs`, `db/cache_repos.rs` | policy, exact and semantic entries per caller, key rows | scan, refuse, annotate; dispatch, store; check, issue, revoke, expire | Layers around one another, each with its own reading of the request and of who asks, while keys and policy change. |
| Credential pools and executors, `gw/backend.rs`, `gw/openai.rs`, `gw/grok_cli.rs`, `gw/gemini.rs`, `gw/exa.rs`, `gw/credentials.rs` | shared cursor, tokens in memory and table, refresh lock | `next_token`, `try_each_credential`, `refresh_after_unauthorized` | A cursor shared by concurrent requests; a rotating refresh token whose renewal is lost, dropped, or made by another request. |
| Streams and translation, `gw/responses.rs`, `gw/claude.rs`, `gw/repetition_guard.rs`, `tr/*` | pump, router task, guard and body per stream; translator state | events to chunks to frames | How a stream ends as its client and as the books see it; interleaved fragments of calls. |
| Histories, `tr/requests.rs`, `tr/claude_request.rs`, `tr/gemini_request.rs`, `gw/gemini.rs` | signature store: memory, queue, file | request translation, record, lookup, append, load | One history told to several upstreams in turn, with ids and signatures made elsewhere; a bounded queue that drops; what a restart finds. |
| Start, `gw/main.rs`, `db/migrate.rs`, `gw/restart.rs` | schema and ledger of migrations, signature file, port | `migrate`, column reconciliation, load, serve | Crashes between statements, two processes at once. |
| SSE decoder, `crates/heterion-router-http/src/sse.rs` | buffered bytes | push | Chunk boundaries inside lines, line ends and frames; the size limit. |
| HTTP client, config, crypto, cors, ids, desktop shell | little | conversions, I/O | See [not modelled](#not-modelled). |

`PROJECT.json` lists every component with its status, and under `hazards` what
in this code a test hardly reaches, each at its line, with the properties that
cover it.

## Modules and the code they model

Arrows are EXTENDS; the last module of a line is what a run checks.

| Modules | What they are |
|---|---|
| `CircuitBreaker` -> `BreakerLoad` | The record and the methods of `breaker.rs` as operators, and one breaker under concurrent callers: `AdmitPlain`/`AdmitProbe` are the two ways `allow` says yes, `Succeed`, `Fail`, `ReportNothing` the ways an answer comes back, `Tick` time. An instant is kept as its age, capped at the cooldown, because the code only asks whether a whole cooldown has passed. History variables appear in no guard. |
| `BreakerPromise` | The abstract breaker: three modes, the reasons to leave each, the time to stay. It knows nothing of requests. `BreakerLoad` implements it. |
| `RoutingBackend` -> `MCRoutingBackend` | Concurrent requests over shared breakers and the ring. `Start` resolves a plan, `Shed`/`Skip`/`Dispatch` are the head of the loop over candidates, `AnswerOk`/`AnswerEmpty`/`AnswerError` what a call may bring, `Wake` the end of a retry delay, `GiveUp` the end of the loop, `EndForward`, `HangUp`, `Cancel` the ends of a stream and of its client, `Book` the usage row. |
| `UsageBooks` -> `Completions`; `Budgets`; both -> `MCBudgets` | `UsageBooks`: counts read from a provider's answer, their estimates, prices, the two rows of a call (`db/repos.rs`, `crates/heterion-router-usage`), the queries and the log window of the dashboard. `Completions`: a whole answer of the chat, Responses and Messages endpoints with its cost header. `Budgets`: the middleware and the admin surface over one key's row, ceiling, ledger and rate window: `TakeSlot`/`RateLimited`/`PassUnmetered` are `rpm_retry_after`, `Block`/`Allow`/`AllowUnread` are `evaluate`, `WarnOnce`/`NoWarning`/`StampFails` are `warn_once`, `Charge`/`ServeFree` come after `next.run`, `Upsert`, `UpsertHalf`, `Remove` are the operator's. At its end stands the civil calendar that `budgets.rs`, `credentials.rs`, `grok_cli.rs` and `admin.rs` each compute; `MCBudgets` compares it with one counted day by day. |
| `Streams` | One streamed request: the pump of the executor, the forwarding task of the router with its guard, and the body with its accounting, over two bounded channels. `Executors` differ in how they end. |
| `Translators` -> `Surfaces` -> `Dialects` | What `tr/claude.rs`, `tr/gemini.rs`, `tr/responses.rs` make of a stream, event by event; what `claude_endpoint.rs` and `lib.rs` tell a client of each chunk in three dialects, and whole answers; an upstream that keeps to its protocol and may break off anywhere. |
| `CredentialPool` -> `MCCredentialPool` | Loading, the cursor, the walk of each executor over its credentials, and grok's refresh: lock, re-read, exchange, write to memory and table, each a step. |
| `ResponseStore` -> `MCResponseStore` | The table of stored responses under concurrent turns: look-up along `previous_response_id`, upstream call, persist, sweep, DELETE in its two steps, restart. |
| `KeyGate`; `Scanners` -> `Guardrails`; `ResponseCache` -> `Edge` -> `MCEdge` | Keys and the gate; the detectors over letters and the policy; the cache's namespaces and entries; and the layers composed, each step ending where a lock is released or a call goes out. |
| `Combos` -> `Embeddings` -> `Administration` -> `MCAdministration` | Providers, connections and the backends a start builds; combo rows, plans and `resolve`; an embeddings call; the dashboard's edits against the running process. |
| `Migrations`, `ThoughtSignatures` -> `Startup` -> `MCStartup` | The runner of migrations statement by statement, the signature store with its queue and file, and a process from `main` to serving, with a second process beside it. |
| `Prompts`, `ThoughtSignatures` -> `Conversations` -> `MCConversations` | How a request of each dialect becomes the body for each kind of upstream; whole agent conversations whose turns go to any upstream. |
| `ServerSentEvents`, `Repetition` -> `Wire` -> `MCWire` | `push_bytes` with all it calls, over bytes cut anywhere; the loop test, the guard of a stream and the trimming of a whole answer. |
| `BreakerLoadProofs`, `RoutingBackendProofs`, `StreamsProofs`, `CredentialPoolProofs`, `ResponseStoreProofs`, `EdgeProofs`, `StartupProofs` | Theorems about the module each is named for; `StreamsProofs` also has those about `Dialects`, `CredentialPoolProofs` those about `Administration`. |
| `SpendingProofs` | Theorems about `Budgets`, `UsageBooks` and `Completions`. |

**Granularity.** A step ends where the task awaits or gives up a mutex that
another step takes.  In `RoutingBackend` the update of a breaker and of the ring
after an answer are one step, although each takes its own mutex: no step reads
both, and the task is not dropped between them.  In `Budgets` the clock and the
ceiling are read in one step: nothing that may happen between the two depends on
the request.  In `Edge`, `CredentialPool` and `ResponseStore` each hold of the
connection's lock is a step; in `Startup` each statement is, because a process may
end between any two.

**Abstraction.** An upstream failure is an `outage` (5xx or none), `throttled` (429) or
`refused` (any other 4xx), the classes `is_backend_outage` and `is_transient` tell
apart; `Streams` keeps the statuses the client's map tells apart.  Money is whole
units.  Texts are numbers that name a piece, arguments the sequence of their pieces,
ids and names model values or strings.  `Scanners` works on short words over a few
classes of letters, with the thresholds of the code scaled down together as constants.
Two texts are near in the semantic cache if a constant relation says so.  `plan` in
`RoutingBackend` is chosen from a set; `Combos` says which plans `resolve` makes.

## Runs

`tlc -config X.cfg M` in this directory; each ends within two minutes on two workers.

| Run | Checks | Instance and why it is enough |
|---|---|---|
| `breaker_load` | `KeepsPromise`, `NeverPinned` | Limit 2, cooldown 2, three callers: a probe, a late answer of a request admitted before the trip, and a third that asks. Limit 2 tells a first failure from the one that trips; cooldown 2 tells "some time" from "the whole cooldown". Finite without a bound: ages and streak are capped where the code cannot tell more. |
| `routing` | `VerdictMatchesHistory`, `OpenOnlyIfFaulted`, `BooksNameTheServer`, `EveryRequestAnswered` | Two requests over a combo of two backends, a combo that retries after a delay, and a name without a backend; threshold 1, so each outage trips; a ring of one slot, so it is always contended. |
| `budgets` | `OverrunBounded`, `WarnsOncePerPeriod`, `RateBounded`, `NoFalseRefusal` | Two requests; scenes with one cap, with a daily and a weekly one, or with a ceiling; edits, one roll-over of the day, one restart. Costs of 1 under a cap of 2 let both requests in one unit short of it; a ceiling of 2, a window of 2 and times 0 to 2 hold a stretch that straddles the window's end and lets through 3, one below the bound; both exceptions of `WarnsOncePerPeriod` are reached. |
| `streams` | `BooksWhatWasTold`, `NeverASilentEnd`, `EverythingEnds` | Channels of one place, so a sender blocks after one chunk; two candidates; three frames, so that text, a finish and usage behind it all fit; three kinds of executor. |
| `dialects` | `WellFormed`, `CallsArriveWhole`, `ToolUseShown`, `SameAnswer` | Answers of up to three parts in up to seven events from each kind of upstream: two calls whose fragments alternate, with a text around them. |
| `tokens` | `RenewalsAreKept`, `TriesWholePool`, `EveryRequestEnds` | Two requests, pools of none, one and two usable credentials, four executors, three generations of a token: two renewals one behind the other. |
| `turns` | `OnlyOwnTurns`, `DropsOnlyWhatIsDue` | Three turns of a keyed and an open caller, two ids that upstreams repeat, a table of one place, a retention of one tick, and a DELETE whose two locks others pass. |
| `edge` | `HitsMatchTheirRequest`, `ServedOnlyIfAdmitted`, `RefusedExactlyForCause`, `WarningsReachTheClient` | Two requests, two keys and an open gate, two models, texts with and without a secret and near each other, one edit of keys, one of the policy, one failing database call, one tick that lets keys and entries expire. |
| `routes` | `TellsWhenToRestart`, `ListedModelsAreRouted`, `RoundTripKeepsRouting`, `EmbeddingsAddUp` | Two edits under a running process, from three tables with aliases, keyless providers and hidden rows, and two sets of combos. |
| `startup` | `ServesOnlyMigrated`, `LoadsWhatWasWritten`, `ComesToServe` | Two processes, three kinds of database (none, the JS server's without a ledger, one from before combos could be archived), one end between any two steps, four signatures over a store of two and a queue of one: enough that a process serves from signatures it read before another one replaced them. |
| `conversations` | `EverythingIsTold`, `ResultsFollowTheirCalls`, `TurnsAlternate`, `OwnSignatureIsReplayed` | Two conversations in any two dialects, up to five turns and two answers, in one second or in two, their calls with ids of the upstream or made by the gateway, answered in between, four kinds of upstream, a signature store of two. |
| `wire` | `EventsSurviveCuts`, `CutAtTheFirstLoop` | Up to five frames in LF, CRLF and CR, chunks of up to four bytes, a limit of eight; loops of two-word n-grams in a window of five words, in pieces that may end inside a word; an answer that was not streamed is compared where they do not. |

What the properties say, in short:

- *Breaker.* It keeps an abstract promise: what may open it, what may close it, how
  long it stays shut, how far apart its trials are; and no lost probe keeps it shut.
- *Walk.* The error a request ends with is true of its history; no backend is tripped
  for another's fault; no usage row names another request's backend.
- *Money and rate.* A cap is overrun by less than what the requests in hand at one time
  can cost.  A period is warned of once, unless a request stamps it after its end or
  another cap was warned of.  A stretch of a window's length lets through less than twice
  the ceiling, while requests are metered as they arrive, no window is dropped, no ceiling
  edited and no process restarted.  A refusal is owed to so many requests that passed less
  than a window before the refused one arrived, or overtook it while it waited.
- *Streams.* A stream is booked once, and the row says what the client was told; a client
  that stays is told how the answer ended; the tasks behind one that left end.
- *Dialects.* A Claude client can read what it is told whatever the order of fragments;
  calls arrive whole under their own ids; streamed and whole answers agree, with three
  exceptions the property names.
- *Tokens.* A renewal is not forgotten, a replaced refresh token is not sent again, a
  request that is alone tries the whole pool, nobody waits for a lock for ever.
- *Turns.* No caller's messages reach another's turn; nothing leaves the table before its
  time or another's cap.
- *Edge.* No cached answer reaches another caller, model or question; a key revoked before
  a request arrived gets nothing, of the cache either; what the guardrails found is acted
  on wherever the answer came from.
- *Routes.* The dashboard says when a restart is due; what is listed is routed; what was
  shown may be sent back, and loses only the items of another kind that share an entry's
  id; a vector is its own input's.
- *Startup.* A process that serves finds the schema its queries name, whatever was cut
  short before; a start holds signatures that were written, at their last value, and
  misses one only if as many others followed it as there is room for; a crash leaves
  nothing that makes every later start fail.
- *Conversations.* A body tells the whole history, results behind their calls, turns in
  alternation, and a call with the signature made last under its id: its own, unless
  an answer of the same second got the same id.
- *Wire.* Cutting the bytes changes no event; the guard cuts at the first piece whose end is
  a loop, counting the words of each piece apart, and where no word is cut a whole answer
  is trimmed if the stream was cut.

**Bounds.** `Max...` constants stop clocks and counts in the guards of the actions they
name.  Instances with such bounds come to an end, so the runs `budgets`, `streams`,
`dialects`, `tokens`, `edge`, `conversations` and `wire` do not check deadlock; the
others always have a step.  Symmetry is used in `budgets`, `edge` and `turns`, whose
properties are invariants and action properties.

Every property of a run has a mutated form of a definition, in the module just before the
definition (`... AnyStatus`, `... KeepsCount`), that TLC shows to break it;
`PROJECT.json` pairs them.

## Statements about pure functions

What the code computes without state is checked as `ASSUME`s of the MC modules, which
TLC evaluates over bounded inputs in the runs named:

- `MCBudgets` (in `budgets`): what is read of a provider's counts and what estimates
  keep of them; what cached tokens cost; that a whole answer's row and its cost header are
  of the same counts; that totals, buckets, percentiles, recent calls and the window of
  the log are those of the rows and files.
- `MCBudgets` too: the calendar's dates follow one another, and its periods divide the
  time line.
- `MCEdge` (in `edge`): what the scanners find, where they look, what hides a value from
  them, and that their own words are no finding.
- `MCAdministration` (in `routes`): which rows are servable, the order of lists, that a
  vector survives base64, and which texts are refused.

Some of them state what the code does where one would expect something else; those are
in the list of disagreements below.

## Fairness

- `BreakerLoad`: only that time passes (`WF(Tick)`).  Nothing obliges a client to ask or
  an upstream to answer: `NeverPinned` holds although probes may be lost.
- `RoutingBackend`: for each request, that a task that can run does (`WF(Walk)`: tokio
  schedules it, a retry delay ends) and that an upstream call ends (`WF(Upstream)`).  The
  latter is what the shared HTTP client's connect, response and idle timeouts give
  (`crates/heterion-router-http/src/client.rs`); they end the call with no status, which
  is an outage.  It would not hold of an upstream that sends SSE comments for ever: each
  resets the idle timeout.  Nothing is assumed of clients.
- `CredentialPool`: the same two, per request, `WF(Step)` and `WF(Upstream)`.  The lock of
  a refresh is held over one call that ends, and is released when its holder is dropped.
- `Streams`: `WF(Pump)`, `WF(Router)`, and that a client reads or leaves
  (`WF(Body \/ HangUp)`).  The SSE keep-alive of both surfaces finds a connection that is
  gone; of a client that stays connected and never reads nothing is claimed.
- `Startup`: a process that runs goes on (`WF(Proceeds)`), and the supervisor starts the
  one it watches (`WF(Start(Supervised))`), as launchd and the desktop shell do.
- The other modules state no liveness: their handlers are straight lines between calls
  that end.

## Proofs

`tlapm M.tla` checks all obligations of the eight modules named `...Proofs`.  The theorems
hold for every value of the constants that satisfies the `...Assumption`s of the modules
they are about; TLC evaluates each of these in a run.  Most say what kind of value a
constant is.  The ones that say more:

- `ThresholdAssumption`, `CooldownAssumption`, `SlotsAssumption`, `PlansAssumption`: a
  ring has a slot, plans name backends, `Nobody` and `"unbooked"` are no backends.
- `FinitenessAssumption` of `Budgets`: so many requests are in hand at most, and an
  answer costs so much at most.  Without it an overrun has no bound, and none is claimed.
- `ScenesAssumption`: rows and PUT bodies are of the types the handlers admit.
- `RegistryAssumption`, `CombosAssumption`: no two entries of the registry have one id,
  which holds of the 279 in `registry.json`, and `name` is UNIQUE in a first table of combos.
- `WordsAssumption` of `Edge`: what the guardrails look for is what the properties call a
  finding.  `KeyRows` holds no row whose value looks like a digest and that has no
  `key_hash`, which no statement of `db` writes.
- `NamesAssumption` of `Dialects`: the names an upstream gives its calls are not empty, and
  its ids of calls and of their items tell them apart.  The module builds them from numbers;
  the prover cannot look into strings.
- `MigrationAssumption`: a version in the ledger of a first database has had its effect.
  A ledger that lies is not repaired by anything the code does.

Every inductive invariant, and each property that only the proofs name, was checked by TLC
on the instances above first.  `Induction` and `SmallerFirst`, of numbers and of finite
sets, are stated with a set in place of a predicate and rest on `WFMin`; with them a fold
or a recursive function is reasoned about (`SumIn`, `FlattenSeq`).

### BreakerLoadProofs

| Theorem | Statement |
|---|---|
| `Invariance` | `Spec => []IInv` |
| `TypeCorrect`, `ConsecutiveCount` | `TypeOK` and `CountsConsecutive` are invariants |
| `SpacedProbes` | `Spec => ProbesAreSpaced` |
| `Shedding` | `Spec => ShedsUntilCooled` |
| `UnbrokenTrial` | `Spec => ClosesOnUnbrokenTrial` |
| `StreakOpens` | `Spec => OpensOnStreak` |
| `Refinement` | `Spec => KeepsPromise`: `BreakerLoad` implements `BreakerPromise` |

**The argument.** None of the action properties is inductive by itself: that a
probe is admitted only a cooldown after the last one depends on what the two
time stamps mean.  `IInv` says it.  `ClosedIsClean`: a closed breaker has no probe
and a count below its limit, so a trip cannot inherit an old probe.
`OpenIsRecent`: an open breaker's cooldown runs from the *last* outage reported, late
ones included, which is what shedding needs.  `ProbeIsLatest`: a probe on record is
the last one admitted and no outage came since, which gives `UnbrokenTrial`.
`RestCoversProbe`: an open breaker without a probe was tripped after the last probe,
so waiting out the cooldown also spaces the probes; it needs that ageing keeps the
order of ages (`OlderMonotone`).  `StepInv` has one step per action;
`OnlyProbesWhileOpen` says that a request an open breaker lets through is a probe;
`PromiseStep` maps each action to a step of `BreakerPromise` or to a stutter.

### RoutingBackendProofs

| Theorem | Statement |
|---|---|
| `RoutingInvariance` | `Spec => []IInv` |
| `RoutingTypeCorrect` | `TypeOK`, the bound on the ring included |
| `TrueVerdicts` | `VerdictMatchesHistory` |
| `TriesEveryCandidate` | `GivesUpOnlyAfterAll` |
| `AttemptsBounded` | `BoundedAttempts` |
| `NoCollateralTrip` | `OpenOnlyIfFaulted` |
| `TrueBooks` | `BooksNameTheServer` |

**The argument.** `IInv` ties four records of one walk together.  `WalksInOrder` says
what `calls`, `shed`, `retries` and `step` have to do with each other: candidates ahead
are untouched, the one being tried was called once per retry (`CallsHere`), those behind
were called or shed unless nobody has their name.  With `RetriesAllowed` it bounds the
attempts; with `ErrorsAreRemembered` (a call that is behind left an error) it makes the
verdict of `GiveUp` true, and `VerdictsAreFinal` keeps it true, because a request with a
verdict does nothing more that the verdict speaks of.  `ShedsAreConfigured` is where the
walk needs the breakers: a name without a backend never fails, so its breaker never
opens (`OpenOnlyIfFaulted`) and it is never shed, and so "every candidate is cooling
down" is only said of a plan that has a candidate.  `CallsAreConfigured` says the same of
calls, and keeps `faulted` within the configured names.

`BooksNameTheServer` needs `RingIsTrue`, a token is in the ring once and names its last
answerer, and `BookedLast`, a row is written when no answer can follow; `TailIsTrue`,
`WithoutIsTrue` and `AttributeIsTrue` show that eviction and replacement keep the ring
true.  `OneActor` reduces each step to the request it acts for; there is one lemma per
part of `IInv`, and in it one case per action.  That each breaker keeps its promise
under whole walks is not stated again: the callers of `BreakerLoad` call the methods in
any order they can be called in, so `Refinement` covers every walk.

### SpendingProofs

| Theorem | Statement |
|---|---|
| `BudgetsInvariance`, `BudgetsTypeCorrect` | `Spec => []IInv`, `Spec => []TypeOK` |
| `OverrunHolds` | `Spec => []OverrunBounded` |
| `RateHolds` | `Spec => []RateBounded` |
| `RefusalsAreReal` | `Spec => NoFalseRefusal` |
| `WarnsOnce` | `Spec => WarnsOncePerPeriod` |
| `CostIsNeverARebate` | the cost of a completion is a natural number, for all rates and counts: a premium is never negative, cached input is not taken off twice |
| `DiscountNeverRaises` | a published cache rate no higher than the input rate never raises a cost |
| `PurgeKeepsTheWindow` | a sweep takes no row that a report over the days it keeps would show |
| `ChargedAsBookedAlways` | the cost in the headers of a whole answer is the price of the counts in its row, and an error has none |
| `WeeksAreWindows`, `DaysAreWindows` | a day lies in one spending week and a moment in one spending day, before 1970 too |

**Money in hand.** `OverrunBounded` speaks of what is booked, and what breaks it is booked
later: several requests are let through one unit below the cap, and each books its cost at
its own time.  So the invariant `Within` counts them before they book: what is booked in a
period and the highest cost of each request in hand there (`InHand`) stay below the cap and
the highest cost of all requests together.  Letting one through keeps it, because its
verdict was reached below the cap (`AllowedWithin`); booking moves a cost from one side to
the other (`ChargedWithin`).

**The rate.** A window is reset lazily, by the next request that looks, so it says nothing
of a stretch that begins before it.  `WindowCounts` says that it counts no more than passed
the meter since it started, which makes a refusal true (`RefusedForARate`; `NoneAhead`
says that nothing passed at a time to come).  `Metering` says the other direction, as long
as nobody is metered at an older time than the window's: it counts no less, the first
request it counts passed when it started (`Behind`), nobody passed after its end, and in
the window's length *before* it less than the ceiling passed, because the first request of
the window before lies further back.  A stretch of that length meets at most the two
(`StretchHolds`): hence less than twice the ceiling.

**Sums.** Both books are sums over functions of time, and `SumIn` is a fold.  `SumsExist`
shows that the function the fold is defined by exists, by `SmallerFirst`; `SumWithout`,
`SumOfParts`, `SumOfMore` and `SumAfterAdding` are what the proofs use of it.

**Warnings.** Several requests may be judged due for a warning before the first of them
stamps it, so that `WarnOnce` warns of a new period depends on what the stamp means then.
`StampIsLatest` says it: while nobody stamped a period after its end, and no second cap was
warned of, no period warned of starts after the stamp, and the stamp is no later than the
start of the present period, which `Tick` only moves on (`StartsInOrder`: of two moments the
later one's period starts no earlier).  `StampIsNew` combines it with the guard of
`mark_warning_emitted`: a stamp that is not this period's is an earlier one's, so everything
that was warned of is older.  An edit clears the stamp, and the history with it.

**Prices, books, calendar.** These are about functions, so there is no invariant to
strengthen.  The terms of `cost_usd` are bounded one after another (the rate that is used,
the part of the prompt that is cached, the premium), with products by `ProductsGrow`.  The
calendar's facts are reduced to integer division: `week_start` differs from a day by its
weekday, which is a remainder of 7.

### StreamsProofs

| Theorem | Statement |
|---|---|
| `StreamsInvariance`, `StreamsTypeCorrect` | `Spec => []IInv`, `Spec => []TypeOK`; no channel is over its capacity |
| `TrueRows` | `Spec => []BooksWhatWasTold` |
| `AlwaysAnEnd` | `Spec => []NeverASilentEnd` |
| `ClientsAreTold` | `DialectsSpec => []DialectsInv` |
| `ClientsCanRead` | `DialectsSpec => []WellFormed` |
| `CallsAreCounted` | `DialectsSpec => []ToolInv` |
| `ToolsAreShown` | `DialectsSpec => []ToolUseShown` |

**The argument.** Three tasks hand items on through two channels, and any of them may be
gone while the others still have something to say.  `BooksInv` ties the accounting to what
the body has passed on: before anything is booked no end was told and the books are as they
were opened, and afterwards there is one row, which is that of the first end told
(`FirstEnd`, `TrueRow`); `RowIsFinal` keeps it true as more is told.  `EndInv` follows the
end of the answer downstream: as long as a client is there and the task behind it has seen
an end or has stopped, the end is in somebody's hand, in a channel, told, or was cut away by
the repetition guard, which then tells an end of its own (`EndComes`).  No task leaves
before the end it knows of is further down, so a body that ends has told one.

`ClientsCanRead` is about what that body is told in, for every number of events and of
parts.  A dialect is *going* while its message is open, *over* once it is closed and
*refused* once it told an error; in each of these the frames so far are read to the same
point (`Reads`), the blocks are numbered as they were begun, every delta names one of its
own kind, and the block that is open is the last one (`Core`).  One lemma per operation of
the dialect says from which of the three to which it leads, so `ChunkTold` can say it of a
chunk and `RelayPlain`, `RelayEnding` and `RelaySilent` of what a translator makes of one
event.  `DialectsInv` needs one thing from upstream, which the actions of `Dialects` state
as its protocol: nothing that becomes text or a call comes after what becomes a finish.  It
needs one thing from each translator, that a finish is the last chunk of its list and is not
made twice: the one of Claude remembers that it sent it (`ClaudeKnows`), the others turn
what may follow into nothing.  That an answer broken off in the middle leaves the client
with an error, and one that ended with an end, follows because `Closed` is always taken
together with a refusal or a finish.  The loops over calls, parts and chunks are folds;
`FoldSteps` gives the accumulators one after the other, and `StepsKeep` carries a property
from one to the next.

`ToolsAreShown` does not hold of the dialect alone, which would repeat any reason to stop: a
translator must not finish with `tool_calls` before it told of a call.  So `ToolInv` counts.
Some number n of calls is told: the chat client has put together n, numbered in a row
(`Numbered`), n is no more than the upstream made, and if it is not 0 a tool block has
started (`ToldOf`); a block of a tool that is open was shown, and so was one if a finish
asks for it (`Honest`).  Of each translator it says how its state gives n.  The one of
Claude tells a call when its block stops, so it has all but an open one; that of Gemini
tells a call with its payload; OpenAI upstreams number their calls themselves.  The one of
Responses is the hard case, since calls are open side by side and a call with no name yet
is told when its item is done: every open call is found by its item, a call that is
announced has a number, only an open call is current, and n and the open calls that are not
announced are together no more than the calls made (`ResponsesNumbers`).  A call whose name
never comes is then taken off the open ones and never off n.  `Brings(out, n, m)` says that
the chunks of one event tell of the calls from n to m; `FeedTells` takes it to the clients,
and `ToolSends` and `ToolStays` leave one lemma for each kind of upstream.

### CredentialPoolProofs

| Theorem | Statement |
|---|---|
| `CredentialsInvariance`, `CredentialsTypeCorrect` | `Spec => []IInv`, `Spec => []TypeOK`; the cursor stays inside the pool |
| `OneRenewer` | nobody but its renewer holds a credential's lock, and there is one |
| `RenewalsKept` | `Spec => []RenewalsAreKept` |
| `WholePoolTried` | `Spec => []TriesWholePool` |
| `ToldToRestart` | `AdministrationSpec => []TellsWhenToRestart` |
| `ListedIsRouted` | `AdministrationSpec => []ListedModelsAreRouted` |
| `EmbeddingsAlwaysAddUp` | `AdministrationSpec => []EmbeddingsAddUp` |

**The argument.** `HeldInv` says that a request renews exactly while it holds the lock of
the connection whose credential it was sent with; the credential it holds may be older than
the pool's.  `TokenInv` then follows the token that the provider expects next: unless it is
being renewed or was lost it is in memory, and in the table if there is a key (`TokensOf`);
without a key the table only ages (`AgeOf`); and whoever is about to renew sends that token
(`SentBy`), because it read it again under the lock.  `TriesInv` describes the walk of a
request no other one crosses: from some place on and around (`Around`), so that the places
tried are as many as the tries, and after the last one they are all (`AttemptsBounded` puts
the limits of the four executors side by side).

The last three are about a gateway whose tables are edited while it runs.  A list that is
read in an order is `Sorted` by a set of pairs; `SortedIs` says, for a finite set and pairs
that compare any two of its members, that there is such a list, that every member stands in
it, and none twice (`OrderExists`, by induction over the subsets).  For connections that
gives `PoolIs`: a pool holds the active and usable rows of its provider and is empty if
there are none.  So what a start builds depends on which rows are active and not on their
order (`SamePools`), a PATCH that does not ask for a restart leaves these alone
(`PatchedTable`), and `ToldToRestart` follows.  For the vectors of an answer it gives
`PlacesAre`; vectors that an upstream placed are as many as the inputs and grow, and so are
all of them in order (`GrowingAreAll`).  `ListedIsRouted` rests on one invariant, that no
two combos have one name (`NamesApart`), without which `resolve` could take the other row.

### ResponseStoreProofs

| Theorem | Statement |
|---|---|
| `StoreInvariance` | `Spec => []IInv` |
| `OwnTurnsOnly` | `Spec => []OnlyOwnTurns` |
| `RowsStayApart` | no two rows share an id or a rowid, and the table is finite |
| `OnlyDueRowsLeave` | `Spec => DropsOnlyWhatIsDue` |

They hold for all callers, models, ids and permits, every retention, cap and bound; they
rest on `StoreAssumption`.  TLC checked the parts of `IInv` on the instance of `turns`.

**The argument.** What a turn is sent with was looked up when it was asked for, and the row
it came from may be gone or somebody else's by now, so `OnlyOwnTurns` says nothing of the
table.  `RowsAreTheirs` does: a row is of a turn that was sent, and its owner is that
turn's caller, which `Record` makes true at the write and nothing else touches
(`FewerRows`: sweeps, look-ups and deletes only take rows away).  With it `ReplayIsOwn`
shows that what `response_visible` lets a caller see is that caller's own.  `SentIsPast`
keeps the property true as turns are added: no turn names one that is yet to come.

A sweep keeps the rows with the highest rowids, so that *no more* than the overdue and the
overtaken leave is a matter of counting: a row that is dropped has as many rows above it as
the cap allows.  That needs `RowsApart`, which rests on how a rowid is given: a new row gets
one above the greatest (`RowidIsFree`), a row that is written over keeps its own
(`WrittenApart`).  `CapIsKept` and `CapDropsTheLowest` do the counting, by `SmallerFirst`.

### EdgeProofs

| Theorem | Statement |
|---|---|
| `EdgeInvariance`, `EdgeTypeCorrect` | `Spec => []IInv`, `Spec => []TypeOK` |
| `AnswersOnlyTheAdmitted` | `Spec => []ServedOnlyIfAdmitted` |
| `HitsAreAnswers` | `Spec => []HitsMatchTheirRequest` |
| `RefusalsHaveACause` | `Spec => []RefusedExactlyForCause` |
| `WarningsShow` | `Spec => []WarningsReachTheClient` |

**The argument.** The properties are about requests that are over, and what makes them true
happened while keys, gate, policy and table were others.  `OnItsWayInv` says what a request
carries at each place it waits at: a body with the prompt that was sent, the findings of the
policy it was judged by, a namespace only of its caller, and behind the handler an answer to
that very prompt.  `TableInv` says what a row remembers of the request it was made for, with
the caller's namespace in its signature; hits, counts and sweeps change nothing of that
(`HitsKeepTheTable`, `SweepKeepsTheTable`).  With both, a row that is found is an answer to
the request that finds it.  `CheckedMayEnter` is the gate: who passes it could have been let
in at that moment, and `admitted` remembers the moment.

That a refusal has its cause whatever the chunks needs the first part of the module:
`ReadPrefix` says that reading a prefix of the chunks scans what a scan of the whole text
would, up to the limit, and rebuilds a body with the same text.  It rests on what
`FlattenSeq` computes of two bodies put together (`FlattenConcat`), by induction over the
chunks.

### StartupProofs

| Theorem | Statement |
|---|---|
| `StartupInvariance` | `Spec => []IInv` |
| `MigratedWhenServing` | `Spec => []ServesOnlyMigrated` |
| `FileInvariance` | `Spec => []FileInv` |
| `LoadedAsWritten` | `Spec => LoadsWhatWasWritten` |

**The argument.** A process reads the ledger and the columns once and acts on them later,
when another process may have gone on.  `Reached(d, place, read)` is what a process at a
place relies on, as a statement about the database and what it has read; what was read
may be too little by now and never too much.  `Grows` says that a step of any process only adds to the
schema, so `Reached` stays true of the others (`ReachedStays`), and `MigrationKeeps` has one
step per statement for the one that moves.  A statement that fails because the other process
did the same ends the start, and says nothing false.

`LoadsWhatWasWritten` compares two things that grow apart: the file, which every start
replaces, and the history of all lines, which nothing shortens.  `TrueTo(store, h)` is what
relates them.  Every id the store holds has the value of its last line in `h`; every id of
`h` that it does not hold was overtaken; and the ids are in such an order that behind some
line of each there is a line of every later one (`InOrder`).  The last part is what makes
the rest inductive: when the oldest fall out (`TrimmedIsTrue`), those that stay are as many
as there is room for, and all of them have a line behind one of the id that fell out, so
that this one is overtaken.  "In the order in which they were first written" would not do:
an id that fell out and is recorded again by a process that still holds it comes back at
the end.  `FileInv` says where this holds: of the replay of the file while nobody writes it,
of the memory of the one process that has emptied it, and of nothing once a write was
torn.  The steps rest on four lemmas about the store: what a line more does to a replay
(`ReplayOfMore`, from the definition of `FoldLeft` as a recursive function), that a
rewritten file is replayed into the store it was written from (`RewriteIsReplayed`, by
induction over its lines), and that inserting a line on both sides (`InsertedIsTrue`) and
trimming (`TrimmedIsTrue`) keep `TrueTo`.  The capacity of the store, the depth of the
queue, and the number of records and crashes are any numbers.

**Only model-checked.** Liveness (`NeverPinned`, `EveryRequestAnswered`,
`EveryRequestEnds`, `EverythingEnds`, `ComesToServe`), which is out of the prover's reach.
The safety properties of `Conversations` and `Wire`, `CallsArriveWhole` and `SameAnswer`,
`RoundTripKeepsRouting`, and `OwnSignatureIsReplayed`: what the recursive functions of
`Prompts`, `ServerSentEvents` and `Repetition` compute is not proved, nor what
`render_model_items` makes of ids that collide, which some ids would spoil; and that calls
are told whole compares lists that were filtered and flattened, with operators the provers
cannot open.  What `Scanners` finds in a text is only model-checked
too; `EdgeProofs` takes the finding as a function of the text.

**What the proofs changed.** Three attempts failed for a reason in the model.  The guards of
the CASE that gives an executor's number of attempts overlapped, so its value was anybody's
choice; they now exclude each other.  A first database could have a ledger that claimed what
was never done; `MigrationAssumption` excludes it.  And a start does not hold what a store
that had never ended would: a process that read the file before another one dropped the
oldest from it can come to serve with what it read, record an old id again, and so leave a
line whose place in the order is new.  With four signatures TLC finds it in seconds;
`LoadsWhatWasWritten` now says what does hold.

## Where the code and its comments disagree

None of these has a run: the models do what the code does, and the properties above
state what holds.  They were met while translating; `doc` is the line that says
otherwise.

*Breaker, walk, combos*

- A request admitted before a trip that succeeds while another's probe is out closes the
  breaker (breaker.rs:98; doc breaker.rs:12-14, the admission is the token).
- `attribute` evicts the oldest entry of a full ring before it removes the token's own,
  so another's entry goes and a slot stays empty (routing.rs:232; doc 28-30).  The row
  then names nobody, never a wrong backend.
- With `failover_before_retry` the failed candidate is never retried (routing.rs:434; doc
  combos.rs:23).  `stream` fails over when the first item is an error (doc
  routing.rs:4-6, streaming uses the first allowed backend).
- `dispatch_head_connection_id` reads the live table (doc routing.rs:239-262).

*Budgets and books*

- A period may be warned of more than once (doc budgets.rs:455-456, "at most once per
  period"), in two ways.  The three periods share one stamp, so a warning for the day makes
  the week's due again (budgets.rs:469).  And a request that stamps after its period's end
  writes the older start over the newer (budgets.rs:463, 473: any other start counts as not
  warned), so the newer period is warned of again.  `WarnsOncePerPeriod` excepts these two.
- A request that waits for the meter is counted by the clock of its arrival: it may be
  refused for requests that came after it and overtook it, and its `retry_after` may be
  longer than a window (budgets.rs:203, 389-395; doc 105-106, exact).  An absent `rpm` clears the ceiling (budgets.rs:628;
  doc 543).  A streamed completion's cost is never booked (budgets.rs:276; doc 10-12).
  `normalize_threshold` clamps (doc budget_repos.rs:135-138; its test at 413 expects it).
- The cost header is priced by the name that was asked for, so a combo or alias carries no
  cost and is not charged to a budget (lib.rs:519-526).  Embeddings and streams carry none.
- A client is told the upstream's counts, zero if there were none, while its row and cost
  use the estimate (lib.rs:472-532), as does that of a stream whose counts follow its finish
  (lib.rs:803, 813); a provider's own zero completion is overwritten by it.
- Rows of `/v1/messages` are booked with `source_format` "openai" (lib.rs:576-588; its doc
  names "claude").  `usage: null` hides a `usageMetadata` beside it
  (provider_usage.rs:73-78).  Cached tokens beyond the prompt raise a bill.
- `recent_calls` orders by the text of time stamps, so mixed spellings are out of order
  (db/repos.rs:1222; doc 1221).  `count_active_api_keys` counts rows that cannot authenticate.
- `tail_lines` tells the partial first line of a cut window (admin.rs:564-572; doc
  543-544).  An undated `gateway.log` left behind hides all dated files, which are the
  ones the appender writes (admin.rs:505-509, main.rs:571-572).

*Streams, dialects, surfaces*

- After a hang-up the router still walks its failover candidates.  An error after the
  finish is told to the client while the row stays a success.  A chunk of usage with empty
  `choices` is dropped; a chunk that ends a loop and carries usage loses it.
- `drive_openai_sse` takes `"error": null` for a refusal, `try_each_credential` does not.
- A call that a Responses upstream announces without a name gets an invented id and name
  (tr/responses.rs:170).  Fragments of two calls that alternate become several `tool_use`
  blocks of one id for a Claude client (claude_endpoint.rs:602-604).
- A Responses answer cut after a call ends "length" as a stream and "tool_calls" whole, and
  whole it has no reasoning; a Claude answer's prompt counts its cache only in the stream.
- A Messages answer asked for whole is not run through the repetition guard; a trimmed
  answer whose reasoning loops has no finish "length", its stream has.

*Turns and histories*

- The replay of `previous_response_id` loses a chat upstream's own answer, and everything
  before the previous turn (lib.rs:1670, 2110; doc CHANGELOG.md:219).  Unknown and expired
  ids are ignored without a word; streamed responses are never persisted.
- A key that is restricted to requested names cannot read its own response when the served
  name differs.  A sweep removes at age >= TTL, reads expire at age > TTL.  A response that
  is stored again keeps its place in the eviction order.
- A call without a signature is replayed to Gemini with another conversation's
  (gemini.rs:350; doc gemini_request.rs:308-311).  `OwnSignatureIsReplayed` is about calls
  that have one.
- A Gemini answer without `responseId` is named by the second it came in (tr/gemini.rs:80-84;
  doc gemini.rs:322-329, a kept id finds its own signature), so two conversations answered in
  one second share their calls' ids, and the signature recorded last is replayed for both.
- A Responses client's turn of pictures alone is dropped, and Gemini is then asked to go on
  with its own answer; before Claude it leaves two assistant turns in a row.
- `clamp_call_id` cuts to 63 characters, not 64.

*Credentials*

- A row whose expiry cannot be parsed is skipped (credentials.rs:67-69; doc 111-112, an odd
  timestamp never hides a credential).
- "Each try uses a different credential" (openai.rs:136-138) holds of a request that is
  alone; concurrent ones share the cursor.
- Grok's and most streams try one credential only, exa's walks its pool.  A renewal that
  cannot be persisted leaves the replaced refresh token in the table;
  `update_connection_tokens` keeps the old `expires_at` when the answer names none.

*Edge*

- The gate counts a key in SQL and checks it in Rust, and the two read a row differently: a
  row without `key_hash` is usable and cannot authenticate (auth.rs:73-77); each reads some
  spellings of an expiry the other does not.
- `tokens_saved` doubles at each hit of the cache (cache.rs:579, 632; doc
  cache_repos.rs:45).  A cached answer ignores a change of `allowed_models` until its TTL,
  and may name a stored response that was deleted.  The layer is inside the budgets (doc
  cache.rs says outside).
- `script_language` names the last script, not the majority's (guardrails.rs:627-675; doc
  519-534).  Blocked answers are not annotated (guardrails.rs:905; doc 984).
- A number beside an address hides it, because the two are one run (guardrails.rs:447-474);
  a JWT is found at the end of a text only; stop words with other than ASCII letters never
  count (guardrails.rs:702-706).
- A body that breaks off while the guardrails read it ends cleanly for those behind them: the
  error is dropped (guardrails.rs:1068-1070; doc 1049-1053, lossless).
- `PATCH /api/guardrails` answers with the merged policy although the write failed.

*Routes, embeddings*

- A combo that is rewritten loses an item of another kind whose id an entry has, even if
  what was shown is sent back unedited (db/repos.rs:747-751; doc 681-682, preserved
  verbatim).  `RoundTripKeepsRouting` says that nothing else is lost; its instance has the
  case.
- `PATCH` of a combo with `is_active` alone is refused (doc admin.rs:657-660).  A priority
  change needs a restart and does not say so; a row stored under an alias is servable in
  name only (admin.rs:150-165); providers whose rows have no usable credential are missing
  from `report_unserved`.
- `parse_response` accepts duplicate and missing indexes and checks dimensions on the first
  vector only; a base64 text cut at a whole float is a shorter vector.

*Start, wire*

- Two processes that start together may run a migration the ledger already has
  (migrate.rs:83; doc 6).  A process that will not get the port still rewrites the signature
  file, and the rewrite empties the file first.
- With CR line ends the last event waits for one more byte.  An event beyond the limit
  passes if one chunk completes it.
- The guard of a stream counts the halves of a word that two pieces share as two words, the
  analysis of a whole answer as one (repetition_guard.rs:185-191; doc 170-171, the streaming
  counterpart of `analyze`), so that either may see a loop the other does not.  What is kept
  of a whole answer may end in a loop itself.

## Not modelled

- `crates/heterion-router-http/src/client.rs`: I/O.  Its time limits are the reason for the
  fairness of upstream calls.
- Configuration, encryption of fields, CORS, ids, client profiles: values read once, or one
  bit, or a table; nothing that two steps could disagree about.
- The desktop shell: a window that starts a gateway as its child.  Two gateways on one
  database are in `Startup`.
- SQLite inside a statement: a statement succeeds or fails as a whole, and the busy errors of
  deferred transactions are left out.  A wall clock that is set back.  Floating point:
  amounts are whole units, and a float in an embedding is its bytes.
- Of components listed as "partly": the credential pool that grok reads from its own
  environment variable, the connection and combo names beside the provider in the ring, the
  PRAGMAs and permissions of the database, the launchd command line of a restart, the HTML
  pages, sampling parameters and JSON schemas in translation, the rendering of a search,
  statements of `db` that nothing calls.
- Failing reads: of a body in the guardrails, of the connections before a `PATCH` of one
  (admin.rs:794-797).  An operator who switches the empty combo on again after the
  migration that archived it (admin.rs:663, db/repos.rs:787): `Startup` has no operator.
- Two streams whose calls are recorded in turns; in `Conversations` an answer is recorded
  whole.
- Wording, masking, logging and layout.

## Plan

Done: every subsystem of the program's own logic has a module, an instance, properties with
mutants; the breaker, the walk, budgets and rates, prices, the books of whole answers, the
calendar, streams and what their clients are told, credential pools, stored responses, the
layers around the handler and the start have proofs.  Left, in this order:

1. Proofs for `Wire` (`CutAtTheFirstLoop`) and `Administration` (`RoundTripKeepsRouting`,
   which needs to know how ids are derived).
2. Proofs for `Conversations` (`TurnsAlternate`).
3. Abstract specifications of `ResponseStore` (a map with retention) and of
   `CredentialPool` (a token with at most one renewal per generation), with refinements.
4. Larger instances: three requests in `Edge`, two streams that share a signature store.
