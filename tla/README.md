# Formal model of nicheLLMProxy

TLA+ modules, TLC configurations and TLAPS proofs about the proxy in
`src/niche_llm_proxy`. Paths below are relative to the package unless they
start with `src/` or `tests/`; `featherless.py:571` is a line of that file.

Contents: 1 the system, 2 modules and code, 3 runs, 4 what the code does not
do as documented, 5 proofs, 6 assumptions and limits, 7 what comes next.

## 1. The system

The proxy is one Python process. Every listener of the configuration file is a
uvicorn server with its own FastAPI application; all of them share one asyncio
loop. A listener has a mode (passthrough, grok-image, grok-image-edit,
gemini-image, featherless) that decides which handler a request gets, and may
have the logging feature. Nothing is persisted except log files.

| Component | State | Operations | Interacts with |
|---|---|---|---|
| Concurrency gate (`featherless.py` 381–687, `_acquire_or_disconnect` in `app.py`) | limit and its source, reserved units, snapshot, queue of waiters, poll task | `acquire`, `release`, `_wake_queue`, `update_upstream_used`, poll loop, plan lookup, `close` | handlers (tasks, cancellation), upstream (plan, snapshot) |
| Gate registry (`featherless.py` 690–777) | gates by credential, sweep task | `gate_for`, `start`, `close`, `_sweep` | handlers, lifespan, gates |
| Model info cache (`featherless.py` 173–378) | common layer, availability per credential, one time stamp, one lock, warnings | `ensure_warm`, `models_payload`, `model_payload`, `concurrency_cost` | model routes, gate (costs), upstream |
| Featherless handlers (`featherless.py` 71–115, 813–875; `app.py` 376–437) | none | classification, whitelist check, model routes | cache, registry, relay, log |
| Streaming relay (`app.py` 224–339, `passthrough.py`) | per request: client, response, reservation, exchange | send, stream, callbacks for completion, error and cancellation | gate, log, upstream |
| Image relay (`image_relay.py`, `grok_image.py`, `grok_image_edit.py`, `gemini_image.py`, `multipart_forms.py`) | per request: client, body, exchange | read body, transform, send, read response, transform | log, upstream |
| Protocol logging (`logging_feature.py`) | per exchange: captured prefixes, final flag; per listener: bounded queue, thread, closed flag | `observe`, `metadata`, redaction, `emit`, `complete`, `fail`, `cancel`, `enqueue`, `close` | every handler, lifespan |
| Routing and lifespan (`app.py` 81–222, 447–479) | none | route by mode, path and method; start and stop background tasks | every handler |
| Configuration (`config.py`) | none after start | JSONC stripping, validation, selection of listeners, warnings | startup |
| Startup and shutdown (`main.py`) | signal handlers, servers | `serve_all`, signal handler | all listeners |
| Translations, packaging (`i18n.py`) | catalogue | table lookup | everywhere |

What is hard here, and what each component must get right:

* **Gate.** Acquire task, handler and poll loop interleave at every await; a
  grant races its waiter's timeout, its cancellation and its client's
  disconnect. Units must be accounted for exactly, stay within a limit, go to
  waiters that fit in arrival order, and come back however a request ends.
* **Registry.** Handlers keep a gate across awaits while the sweeper and the
  shutdown remove gates. A credential must not get two budgets, and nothing may
  run on after the end.
* **Cache.** Many handlers share one lock and two layers with one time stamp;
  fetches fail in part, last longer than the time to live, or are abandoned.
  Availability must stay with its credential, entries must survive failures,
  refreshes must not come late, warnings must not repeat.
* **Relay.** A request may end in a dozen places, with three resources to give
  back and one final record to write; request stream, send and response stream
  all try.
* **Logging.** Loop and thread share a bounded queue that may be full when the
  application closes. A capture sees a body in chunks that a limit may cut
  anywhere; a record must tell of the body all the same, and hide by name.
* **Configuration.** A text with comments is stripped by hand-kept indices;
  entries are validated, skipped or refused one by one, and one must not change
  what becomes of another.
* **Routing, headers, transformations.** Pure functions with many branches; what
  matters is which credential goes where, that the framing of a message is that
  of the body which goes with it, and that a transformation keeps what the
  client asked for.
* **Startup and shutdown.** One process, several servers, one signal handler,
  four ways for a lifespan to end, and records to be written before it has.

Every such hazard is listed with its line in `PROJECT.json` under `hazards`,
with the properties aimed at it or the reason why there is none yet.

## 2. Modules and code

A step of a model is what runs between two awaits, because everything but the
logging thread runs on one loop.

### ConcurrencyGate (with Units, UnitBudget, MCConcurrencyGate)

One gate and the requests that acquire from it. `cap`, `capSource`, `reserved`,
`upstreamUsed` are the gate's fields; `poll` is its poll task; `ticket` gives
the order of `_queue`. Each request has an acquire call (`task`) and a handler
(`handler`). An `_acquire_or_disconnect` call creates the acquire task, which
starts in `Arrive`; `Collects`, `ClientDisconnects`, `HandlerCancelled` are the
handler's three ways on, `CancelLands` is the arrival of a cancellation.
`WakeQueue` is `_wake_queue`: the set of waiters it admits is the only one that
satisfies `IsAdmitted`, which says of each waiter that it is in the set exactly
if it fits what the admitted waiters before it leave. The timer of a waiter and
its grant are separate steps, and so are a grant and the resumption of the
waiter: those are the races.

Two things are merged: the first step of the acquire task belongs to `Arrive`
(no state is touched between creation and start), and the check for a
disconnect is one step with the cancellation (uvicorn's `receive` does not
suspend once the client is gone). Whether an idle poll loop stops is left open
in time.

`UnitBudget` is the abstract specification: requests ask, hold, are done, each
once, and what is held fits the limit. `ConcurrencyGate` implements it with the
refinement mapping `Standing` (property `ImplementsBudget`). `Units` writes sums
of costs as cardinalities, so that they need no recursion.

### GateRegistry (with MCGateRegistry)

`gates` is `_gates`, a gate being named by the request it was created for;
`gateOf` is the gate each handler holds. Gates are abstracted to what keeps
them in use: reservations, queue, poll loop (`polling`) and the ticks since the
last activity (`idleFor`). Every request costs one unit, limits are equal, and
which fitting waiters are admitted is open; ConcurrencyGate has the detail.
`waited` is the duration of a plan lookup, bounded by `LookupTime`. `Sweeps` is
one turn of the sweeper over all gates (it awaits nothing for a gate that is
disposable). `Close` follows the server's wait for its handlers.

### ModelInfoCache (with MCModelInfoCache)

`entries`, `missing`, `availability`, `warned` are the fields; an entry and an
availability record whose response they come from instead of their content.
`lockQueue` is the FIFO of the asyncio lock; a call may be cancelled in the fetch
(`FetchAborts`) or in line (`WaitAborts`). Times are ages in ticks; `commonAge`
and `planAge` are history variables that record when a layer was really filled,
next to `fetchedAge`, the one time stamp the code keeps. `notices` counts
warnings since a model was last in order, up to `NoticeBound`; in order means that
details with a usable cost arrived. `costless` are the models of which details
without one arrived since, which the code takes for the end of the episode.

### Relay (with MCRelay)

The life of a request of each kind (streamed, gated, image). `phase` is the
await it stands at; `reservation`, `client`, `log` are what it owns. `Mishaps`
is the set of what may happen besides the plain errors of upstream and client:
httpx refuses the URL ("build"), the client leaves while its body is read for the
whitelist ("body") or while a chunk is sent to it ("abandon"), the server cancels
the wait for the gate ("gate") or for upstream ("cancel"), upstream breaks off a
response ("stream"), and `json.loads` raises something else than a
`JSONDecodeError`, on the request's body ("parse") or on a captured one when the
final record is made ("redact"). `mishap` remembers which of them a request met, so
that properties can say which the code survives. The
gate is one counter here; its queue is ConcurrencyGate's business. In the
exception handlers `await client.aclose()` is merged with the release that
follows. `StreamEnds` is `stream_response`'s callbacks and its `finally`;
`CompleteRaises` is what is left of them when `exchange.complete` raises: the
`finally`. `RaisesEarly` is an exception that leaves the handler unrecorded.

### LogQueue, Redaction, ProtocolLog (with MCProtocolLog)

`LogQueue` is the bounded queue between the loop and the listener's thread, and
`LoggingRuntime.close`. Records are numbers in their order of emission, and the
sentinel that ends the thread is a number above them. `Takes` and `Writes` stand
for the standard library's `QueueListener` and are external.

`Redaction` holds `_is_sensitive_name` and the `_redact` functions. A name is its
words with the character that joins them and its case, so that the two ways the
code normalises names stay distinguishable. A JSON value is a record of its kind,
text, names and items. Parsing is external: `Loads` is `json.loads`, a function from
the texts that are JSON to values, about which only `JsonAssumption` and
`LoadsAssumption` are known (a value's items are values, less deep than it), and
`Refused` are the texts on which it, or the walk through its result, raises
something else than a `JSONDecodeError`.
`RedactJsonValue` is a recursive function over the values. The reference it is
compared with, `ShowsButSecrets`, does not recur: it speaks of `Ways` into a value,
each a sequence of positions, and of what stands at their ends. The instances in
`MCProtocolLog` compute values, depths, texts and ways from a few documents.

`ProtocolLog` extends both. `captures` are the two `_BodyCapture`s of the current
exchange, `passed` is how much of each body went on, `records` what the exchange
has emitted. `Passes` observes a chunk as `wrap_request` and `observe_response`
do. `Metadata` is `metadata()`. `Complete` makes the exchange final before it makes
the metadata, and emits nothing if that raises. A closed runtime ignores `emit`, and `close()`
blocks the loop, so nothing else runs while it does.

### JsoncComments, Configuration, MultipartForm, Forwarding, Proxy (with MCProxy)

The first four hold the pure functions; `Proxy` runs them. `stage` goes from a
file to `loaded`, `refused` (a `ConfigError`) or `crashed` (any other
exception), and from `serving` through `sent` to `answered` and back, once per
request.

* `JsoncComments`: `Turn` is one turn of the stripper's loop, `StripComments` the
  walk of as many turns as there are characters. What JSONC says is stated in
  tokens: strings with escapes, line and block comments, single characters, and at
  the end a comment that the text breaks off. `IsToken` and `IsTail` say which
  there are, of any length; `TextOf` joins their texts and `ValueOf` what is left
  of each, so that the reference needs no second parser.
* `Configuration`: an entry maps dotted keys to classes of values; the checks of
  an entry are a list in the order of the code, of which the first that fails
  decides (`Reaction`). `ListenerRuntime` and `LoadConfig` are the functions of
  these names. A listener stands at the position of its entry, so that what starts
  is a function on positions and no selection from a sequence.
* `MultipartForm`: `ParseMultipart` and `BuildMultipart` over tokens. The second is
  the reference for the first: a request's body is the beginning of what
  `BuildMultipart` makes of its parts, as long as the client's data does not contain
  the delimiter (`FormsAssumption`).
* `Forwarding`: routes by mode, method and path, the header functions, the body
  transformations. `Completed` is what httpx adds to a request, external: a length
  for a body it has in memory, unless that is empty, chunks for a stream.

### Shutdown (with MCShutdown)

`main`, `serve_all`, the signal handler, and what uvicorn and `asyncio.run` make
of them. Per server: where `serve()` stands, its two exit flags, the lifespan of
its application and its log; per exchange whether its final record was written
or came too late. `Binds`, `Drains`, `Leaves` and the like are uvicorn's and
external; `LeavesLifespan` and `EndsLifespan` are the `finally` of the
application's lifespan, which awaits the registry's `close` before the log's.

### Correspondence

`PROJECT.json` maps every definition that models code to its lines.

## 3. Runs

Passing runs:

| Run | Shows | Bounds |
|---|---|---|
| `gate_config` | accounting, limit, work conservation, order, polling, refinement of the budget | limit 3, four requests of cost 1 or 2 (chosen in Init): two can hold while two wait, one of which fits and one not; snapshots 0 and 2; everybody may disconnect or be cancelled, with Python 3.11's cancellation; symmetric in the requests |
| `gate_plan` | no lost units, every wait answered | lookups answering 1, 4 or nothing around the fallback of 2; three requests; one client may disconnect; Python 3.12's cancellation |
| `registry` | one budget per credential, no gate swept in use, nothing left after close, unused gates go | two requests of one credential and one of another, lookup 1 tick, poll idle 1, sweep idle 2 |
| `cache` | availability, age of refreshes for a sole credential, warnings while no details come without a usable cost, lock, failures, return of every call | a model, two credentials, four handlers, time to live of 2 ticks; every fetch ends in details with or without a usable cost, 404 or failure, at any age |
| `relay` | reservations, clients, order and completeness of records, each for the mishaps its definition names | a request of each kind, and a second gated one, without a log, that competes for the one unit; every mishap |
| `protocol_log` | nothing vanishes, close flushes and returns, records tell the body, redaction by name of headers, queries and JSON bodies captured whole | queue of 2, five records; chunks of 1 and 3 bytes, capture limits of 4 and 20; JSON, text, binary and untyped bodies, a character of two bytes, a document that redaction cannot take; sensitive names at every depth and in every spelling |
| `proxy` | comments, independent entries, one credential, framing, hop-by-hop headers, faithful image requests | every text of up to two tokens and a tail; files of up to two entries of which one deviates from a correct one in one key; each route with each set of headers, each field and part a transformation can tell apart, forms cut after every token; responses with and without length, gzip and br |
| `shutdown` | no record lost without cause, logs closed, a signal stops the process | two servers, one of them with gates, three exchanges, up to three signals at any moment, binds that fail |

Each property of a passing run has a mutant in `PROJECT.json`: a plausible bug
in a mapped definition that makes TLC find the property violated.

Small bounds are enough for these questions: the races involve a grant and one
other event of the same waiter, seen by at most one waiter before and one after
it; two credentials suffice for what leaks between credentials, and one model,
because what a fetch says of one touches nothing the code keeps of another, and the
lock, the time stamp and the known credentials depend on no result; a second
entry is the only other one that the independence of entries speaks of; a third
signal cannot do what the second did not. Where it matters that no bound hides
anything, there is a proof (section 5).

`CHECK_DEADLOCK FALSE` is set where the requests of an instance are used up and
the system rests; `Cache` keeps the check.

Fairness. `gate_plan`: tasks that are ready run, timers fire, and the gate's
HTTP calls end, which is as true as the client's timeouts are finite
(`read_seconds: null` removes that bound); no relay need ever end, no snapshot
arrive. `cache`: fetches end likewise, and asyncio's lock wakes the first in
line. `registry`: clock, sweeper and poll loops go on; requests owe nothing.
`protocol_log`: the thread and the retry loop of `close` run; nobody must close,
and no body need go on. `shutdown`: the loop goes on; an exchange need not end
unless it is cancelled, and nobody has to send a signal.

## 4. What the code does not do as documented

Each is a run that TLC answers with a counterexample; the quoted lines are in
`PROJECT.json` under `findings`.

* `gate_lost`: with the `wait_for` of Python 3.11 (the Docker image's) a grant
  that races a disconnect is returned to a handler that drops it, and the units
  are lost. Python 3.12 raises instead: `gate_plan` checks `NoLostUnits` there.
* `gate_stale`: only a reservation starts the poll loop. A request that queues
  behind a stale snapshot with the loop stopped waits for its timeout, and so
  do the next ones that do not fit.
* `relay_break`: `_chain_error` calls `exchange.fail(error)` without its stage,
  so a response broken off by upstream raises `TypeError` and is never recorded.
* `relay_leak`: `_chain` calls `exchange.complete` before it releases, and
  `complete()` parses captured bodies: on an integer of more than 4300 digits, or a
  nesting deeper than the interpreter recurses, redaction raises (it catches
  `JSONDecodeError` only), so that the reservation is lost for good and no final
  record is written.

Eight configurations are kept for counterexamples of the same kind; they are run
by hand (`tlc -config X.cfg M`), and none of their properties is among those of a
passing run:

* `GateLatePlan` (`MCConcurrencyGate`, `PlanSticky`): a plan lookup that fails
  late overwrites the limit another lookup obtained meanwhile.
* `CacheStale` (`MCModelInfoCache`, `CommonIsFresh`): a request of a new
  credential renews the time stamp of the common layer without fetching it. For
  a sole credential the refreshes are young enough (`SoleKeyIsFresh`).
* `CacheWarnings` (`MCModelInfoCache`, `WarnsOncePerEpisode`): "warn once per
  degraded episode so refreshes stay quiet" (`featherless.py:311`). Details with
  status 200 but no usable cost take the model out of `_warned`
  (`featherless.py:273`), so the next lookup of its cost warns again, after every
  refresh.
* `RelayBuild` (`MCRelay`, `ReservationReturned`): the upstream request is built
  outside the `try` that releases the reservation.
* `ProxyAuth` (`MCProxy`, `ClientKeepsCredential`): a request of a featherless
  listener that is neither POST nor a model route gets `Bearer ` and an empty key in
  place of the client's credential, which the proxy "relays ... unchanged"
  (`src/README.md:256`). The transport httpx uses, h11, refuses a value that
  ends in a space, so the request ends in a 502.
* `ProxyCrash` (`MCProxy`, `OnlyConfigErrors`): some faults of a file leave
  `load_config` as something else than a `ConfigError`: an integer too large for
  a float (`OverflowError`) or for `int()` (`ValueError`), a file that is not
  UTF-8 (`UnicodeDecodeError`).
* `ProtocolLogCut` (`MCProtocolLog`, `TruncatedAreMarked`): a text that the
  capture limit cuts inside a character is omitted as not being UTF-8 instead of
  being marked as truncated (`logging_feature.py:116`), although "truncated textual
  bodies are marked in the record" (`src/README.md:617`).
* `ProtocolLogSecrets` (`MCProtocolLog`, `CutBodiesKeepSecrets`): a JSON body that
  was cut does not parse and is logged as it came (`logging_feature.py:429`), with
  what stands under names that `src/README.md:618` says are redacted.

Also seen while modelling, without a run:

* Gate and handlers: with a limit from the plan `NoOvertaking` does not hold,
  because an answer that raises the limit does not wake the queue. A handler that
  the server cancels after its acquire task has finished drops the reservation. A
  client that leaves during the upload of a gated request (`app.py:386`) or while
  a chunk is sent to it, a handler cancelled at the gate, and a body on which the
  parser raises something else than a `JSONDecodeError` (`app.py:387`,
  `image_relay.py:93`; the client sees a 500) leave an exchange without a final record
  (these are mishaps of `Relay`).
* Cache: `_availability` keeps a layer per credential for the life of the process.
* Configuration: unknown keys inside an entry, its `upstream` or its `timeouts`
  are ignored without a warning; the stripper keeps lines but not the columns its
  docstring speaks of (`config.py:441`); the port and the mode of an entry are
  checked before it is skipped.
* Transformations: an explicit `n: null` is copied; the limit of five images of
  the README is left to the provider; a text field `images` stands beside the
  `image` made of one picture, and is overwritten by several pictures
  (`SentIsWhatWasAsked` leaves that one field out; the attempt to prove it without
  this exception showed the case); a GET that is relayed goes out chunked.
* Logging: an unwritable log file raises out of `create_app`. The names of HTTP's own headers
  are compared in their own spelling: a JSON field `set_cookie` or
  `proxy_authorization` is shown (`logging_feature.py:409`), while configured names
  match with `-` and `_` alike.
* Shutdown: uvicorn returns without a shutdown from a start during which a signal
  came; that server goes on taking exchanges until the loop ends ("abandoned").

## 5. Proofs

TLAPS checks the theorems for every value of the constants, under the named
assumptions of the modules.

* **ConcurrencyGateProofs**: `TypeCorrectness`, `AccountingHolds`, `LimitHolds`,
  `ReservedIsPolledHolds`, from the inductive invariant `IInv`. Accounting alone
  is not inductive: a release must know that its request holds units
  (`HandlerFitsTask`), and a grant that the limit it fits is one the gate may
  use (`CapIsALimit`); the set `_wake_queue` admits fits because its last
  member by ticket fitted what the others left (`TicketsOrdered`). Holds for
  configured and looked-up limits and either way of cancelling. The module begins
  with lemmas on costs of sets of requests (finite, additive over disjoint sets,
  monotone). `DisconnectsLoseNothing` is `NoLostUnits` under the two assumptions
  without which it fails: a `wait_for` that raises when it is cancelled, and no
  handler cancelled by the server.
  With a configured limit it goes on to `WorkConservation` (no live waiter fits),
  `ArrivalOrder` (no overtaking) and `BudgetImplemented` (refinement of
  `UnitBudget`).
* **GateRegistryProofs**: `BusyGatesSurvive`, `BudgetsAreSingle`,
  `PollsEndWithClose`, `TypeCorrectness`, all assuming `LookupTime < SweepIdle`.
  The sweeper cannot see a request that looks its plan up; the invariant
  `LookupsAreRecent` says that its gate has been idle for no longer than the
  lookup has taken. The assumption is needed: with `read_seconds` of 600 or
  more, or null, a lookup may outlast the sweeper's idle time.
* **RelayProofs**: `Story` (the events of an exchange have increasing ranks,
  none above what its phase has reached) gives `RecordsKeepOrder`; `Ownership`
  (only a gated request under way, or one that ended because building its request
  or making its final record raised, holds units) gives `AccountsBalance` and
  `ReservationsComeBack`; `Clients` gives `ConnectionsClose`; `Recorded` gives
  `RecordsAreComplete`. `TypeCorrectness` combines three of them. None assumes
  anything of the mishaps: what an ending has to have met for the code to fail is
  said in the properties.
* **ModelInfoCacheProofs**: `AvailabilityStaysWithItsCredential`,
  `SoleCredentialSeesFreshData`, `LockIsNeverOrphaned`, `FailuresKeepEntries`,
  `TypeCorrectness`, and `EpisodesWarnOnce`, which speaks of the models outside
  `costless`. The invariant adds that nobody stands in line twice, that layers filled by one
  credential alone are of the age the code keeps (`SoleKeyHasOneAge`), and that a
  call which fetches does so because the common layer was stale or its credential
  new (`FetchHasReason`): without it a fetch could fill only the second layer and
  still leave a single credential.
* **ProtocolLogProofs**, first of the queue alone (`Spec`): `RecordsStayOnTheirWay`
  and `CloseFlushes`. What the thread has written, has in hand and has before it is
  one ascending sequence (`Way`) that misses only the dropped records, and the
  sentinel is the last of it. Then of exchanges and queue together (`LogSpec`):
  `ExchangesUseTheQueue` shows that every step of an exchange is a step of the
  queue or leaves it alone, so that the former theorems hold there too;
  `BodiesAreTold` and `SecretsStayOut` (of headers, queries and JSON bodies that were
  captured whole) rest on `ExchangeInv`, which says of a capture
  that it holds count and beginning of what has passed, and of a record that it was
  made from the captures of its time. `RedactionUnfolds` gets the recursive
  function's defining equation from well-founded recursion over `Depth`; then an
  induction along a way compares what is shown with the value, step by step
  (`OneStepOn`, `SecretsAreHidden`).
* **ShutdownProofs**: `RecordsSurvive`, `LogsClose`, `TypeCorrectness`.
  `NoRecordLost` needs to know where an exchange may still be open
  (`OpenWhileServing`, `OpenWhileUnwinding`), that a log ends with its lifespan
  (`LogEndsWithLifespan`), and that a server is forced only by a second signal
  (`FlagsFollowSignals`).
* **ParsingProofs**, of the two parsers, on inputs of any length.
  `CommentsAreStripped` says that the walk over a text of tokens leaves what the
  tokens leave. What holds at the start and through every turn holds at the end of
  the text (`LoopRule`, for a set of walks); for each kind of token there is a set of
  walks that the loop does not leave before it has read the token, put out what it
  leaves, and is in the state "normal" again (`ReadsThrough`). `FormsAreRead` is the round trip of forms: of what
  `BuildMultipart` makes of any fields, `ParseMultipart` reads exactly these fields if
  at most the last line break is missing, and is refused wherever else the body
  breaks off. It rests on where the parts stand (`FormIsLaid`), on that only they
  begin with a delimiter (`DelimitersAreAt`), and on that a part is read as it was
  written (`PartIsRead`).
* **ProxyProofs**: of loading, `CommentsAreIgnored`, `EntriesAreTheirOwn` and
  `SkippedAreAside`, for any files of any number of entries that meet
  `FilesAssumption` (whole tokens, but perhaps a tail; entries in an array). The
  invariant `LoadedAsWritten` says that what was loaded is `LoadConfig` of the
  document; what follows are lemmas on the verdict, the listeners and the warnings
  of a load. Of exchanges, `CredentialsFollowRoutes`, `OneCredentialIsSeen`,
  `HeadersOfOneHopStay` and `MessagesFit`, for any files, requests and responses
  that meet `RequestsAssumption` and `ResponsesAssumption` too: a server takes no
  request with a wrong length, and an upstream frames its responses as it should.
  The invariant (`SentAsMade`, `AnsweredAsMade`) says from which of the header
  functions a message came; the rest are lemmas about these functions. That the key
  is one of the environment (`KeyIsSet`) follows from the checks of an entry: one
  that started passed them all, among them that of its key (`StartedHasKey`), and
  `EnvironAssumption`. `SentSaysWhatWasAsked` adds to the invariant that an image
  request was sent with what `Transformed` makes of it (`SentBody`); `Tells` says of a
  body what the property asks for, step by step: with the fields every request has
  (`BasicsTell`), the pictures (`OthersTell`) and the settings (`DefaultsTell`). For
  forms it needs `FormsAssumption` and `FormsAreRead`.

Inductions are over numbers in a set, by the smallest one that is missing
(`SetInduction`, `NumberByNumber`), because the provers cannot instantiate the
operator of the library's `NatInduction`.

Every safety invariant of the passing runs is stated by a theorem. Only
model-checked are the temporal properties that need fairness (`Answered`,
`EveryCallReturns`, `UnusedGatesGo`, `CloseReturns`, `Stops`), since TLAPS has no
support for it.

## 6. Assumptions and limits

* asyncio runs one step at a time; its lock and the queue of its waiters are
  FIFO; a cancelled task sees the cancellation at its await.
* uvicorn ends the lifespan of an application after its handlers in a graceful
  stop. A forced stop skips the lifespan; the cancellation of every task with
  which `asyncio.run` ends still runs its `finally`, in no particular order with
  the handlers, whose last records may be lost (`Shutdown`). `GateRegistry` models
  the graceful stop only. Connections accepted while the tasks are being
  cancelled, and signals after `serve_all` has returned, are not modelled.
* `Authorization` is ASCII. httpx cannot encode anything else, which raises out
  of a plan lookup, and out of the poll loop, which then ends.
* A plan lookup's failure and a malformed plan are one case; so are a failed and
  a malformed snapshot.
* Each module represents of the data what its properties tell apart: `Relay` and
  `Shutdown` no bodies or headers, `Proxy` classes of values, `ProtocolLog` bytes
  and names. A JSON object has distinct names.
* Form names hold no semicolon, at which `_parse_disposition` splits. A form breaks
  off between tokens: a cut inside the last delimiter leaves no closing one either.
* An httpx request "cannot be built" when httpx refuses its URL.
* `Relay` calls `Reservation.release` where the code does, which is at one place of
  each ending; that a second call would change nothing is part of `Releases`. That a
  handler cancelled between the response's headers and its first chunk never starts
  the generator, which then runs no callback, is not modelled: only the end of the
  process cancels it there.
* A record that a handler fails to write (a lone surrogate cannot be encoded, a disk
  is full) counts as written in `LogQueue`: `logging` swallows the error.
* External, modelled from how the code uses them: uvicorn's servers,
  `asyncio.run`, httpx (framing, decoding), the standard library's
  `QueueListener`.

Not modelled: the search for the configuration file (`get_config_path`), the
syntax of base URLs (`_base_url`) and their join with a path, the construction of
HTTP clients, base64, the detection of picture types and of boundaries, the text
of messages, log formats, digests and time stamps, and the payloads of the model
routes beyond whose availability they show. Translations and packaging have no
behaviour.

## 7. What comes next

1. **Cache and gate together**: a POST does not fill the cache (`app.py:404`), so
   costs are the fallback until a model route is requested.
2. **Gates in the registry**: a registry of `ConcurrencyGate` instances refining
   one `UnitBudget` per credential, in place of the abstracted gates.
3. **Model routes**: the payloads of `models_payload` and `model_payload`.
