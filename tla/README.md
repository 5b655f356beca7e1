# InterSignal: the live market workspace, its governance and its ledger in TLA+

InterSignal is a research and market workspace (`src/backend/app`, FastAPI). Most of
its code is batch research over price history. Its interactive core is the live market
workspace: browsers over WebSockets, one shared provider feed, an observation session
with a durable log, and a quote cache in front of a rate-limited REST provider. Event
loop coroutines, worker threads, callbacks, crashes and an unreliable provider meet
there, and there this project starts. Its governance domain keeps append-only
histories of permissions, violations and overrides with an audit log beside them, and
its Portfolio OS an append-only ledger in files from which holdings are derived.

## Inventory

| Component | State | Operations | Interacts with |
|---|---|---|---|
| Stream hub `market_api/live.py` | clients and their queues, subscriptions, reference counts | register, unregister, subscribe, unsubscribe, publish_observation | the route calls it, the feed's tick callback publishes |
| Stream route `api/routes/market.py:243-297` | one receiver, one sender and one main coroutine per socket | subscribe/unsubscribe messages, clean-up | hub, feed |
| Feed manager `providers/groww/feed.py` | connection state, SDK connection, reference counts | connect, subscribe, unsubscribe, reconnect, ingest | route and session call it; calls the SDK in threads; reports ticks and states by callback |
| Observation session `market_api/session_manager.py`, `session_repository.py` | session record, runtime fields, monitor task; JSONL files | start, stop, observe_tick, record_provider_state, recorders of errors, check_stale, monitor | feed, exchange status, store |
| Quote cache `providers/groww/market_data.py:164-202` | quotes with their age, Events of requests in flight | get_quote | REST worker threads, SDK |
| Rate limiter `market_data.py:40-57` | deque of clock readings, a lock | acquire | every REST request of the provider, in front of the SDK |
| Governance and audit `governance_audit/` | append-only records: authorizations, policies, violations, overrides, audit events | guarded transitions, each followed by an audit event | repositories in memory and JSONL |
| Portfolio OS `portfolio_os/` | portfolio versions, accounts, references, securities, transactions, snapshots of holdings and lots, events; a JSONL file each | register, link, change status, record, rebuild holdings | repositories in memory and JSONL, FIFO engine |
| Platform registry `platform/` | entities, lineage, event log | register, transition | its repositories |
| Ingestion `services/*acquisition*`, `historical_ingestion.py` | run manifests, per-symbol results | run, resume, retry | providers, files |
| Backtest engine `backtesting/` | cash, slots, positions | daily steps | price history |
| Read APIs, research, strategy, regime, features | none that changes interactively | reads and batch computations | - |

`PROJECT.json` lists every component with its status and the hazards with their lines.

What is hard, by component: in the hub, a queue that overflows while a message is being
sent. In the feed, everything that happens between two awaits of one caller: other
callers, a cancelled caller whose SDK call runs on, calls that overtake each other,
failed and repeated connects. In the session, two requests and the monitor that each
await in the middle of ending it, callbacks and worker threads that write at any time,
and a crash between event and save. In the quote cache, threads between two lock
sections, a failing leader, an expired wait. In governance, a record and its audit event
in two appends, timestamps in any order, permissions revoked after they were used. In
the rate limiter, a clock read outside the lock, so that readings enter out of order. In
the ledger, transactions recorded in another order than they happened, and an operation
that writes several rows of several files and may die after any of them.

## Modules

| Module | Models |
|---|---|
| `MarketNames` | names, instruments and which name stands for which (the instrument cache, as used) |
| `StreamHub` | the hub and the senders |
| `MarketFeed` | the feed manager; the SDK and its threads as external actions |
| `MarketStream` | the route: `StreamHub` and `MarketFeed` composed by EXTENDS, an action being a hub step and a feed step where a handler makes both before its first await |
| `MarketSession` | the session manager and its store |
| `QuoteCache` | `get_quote` |
| `LimitedQuotes` | `QuoteCache` behind the rate limiter, which refines its one step between registering an Event and the answer |
| `PortfolioLedger` | `PortfolioOSService` over its JSONL repository, the cash ledger and the FIFO engine |
| `Governance` | `GovernanceService` over a repository: authorizations, violations, overrides, audit events, the integrity summary's judgement |
| `GovernanceLifecycle` | what `Governance` promises of permissions and waivers, and is shown to implement |
| `StreamHub_proofs`, `MarketStream_proofs`, `QuoteCache_proofs`, `LimitedQuotes_proofs`, `Governance_proofs`, `PortfolioLedger_proofs`, `LedgerReplay_proofs`, `MarketSession_proofs` | theorems |
| `MC*` | constants for TLC |

### How actions correspond to code

A coroutine of the event loop is atomic between two awaits that really suspend, so one
action is the code from one such await to the next. A coroutine inside the feed manager
is a caller with a program counter (`calls`): `connecting` is the await of
`asyncio.to_thread` in `connect`, `subscribe` and `unsubscribe` with `n` are the awaits
of the n-th SDK call. A call in a thread is an element of `threads`; it runs or raises at
any time and goes to the connection that was current when it was handed over. A
`ValueError` of a subscription is answered; any other exception of the SDK ends the
receiver (`Raised`), and only the clean-up follows. A caller that is cancelled
(`AfterCancel`) leaves its call to run on, unless it was still queued in the executor.
Browsers disconnect at every await of their receiver.

`MarketSession` writes each stretch between awaits as an operator from *worlds* to
worlds (session, runtime fields, log, saved row), so that the handlers read as the code
does: `Judge(Released(w))` and `Concluded` are the end of `stop()`. The recorders of
errors run in worker threads without a lock: a worker tests `active`, loads the count,
stores it, appends its event and saves in five steps (`RecorderTests` to
`RecorderSaves`), and the event loop may do anything between two of them. The loop's own
stretches are single steps, except where a worker's step inside them matters to what is
stored: `_finalize` is split between reading what the verdict needs (`Judge`) and writing
it (`Concluded`). A restart keeps `log` and `saved` only. Wherever the loop is inside a
stretch, a crash may fall after any of its events and before their save (`Interrupted`,
`DiesOnTheWayTo`, and `CrashInStart` up to the first await of `start()`).

The references that the feed counts for the session are taken before the awaits inside
`feed.subscribe` and are counted in the model when `start()` resumes; no step of the
manager reads them in between. A subscription may raise after the feed has counted it.
`strays` counts the references that no stop will return, for either reason. A `start()`
that finds the monitor of the last session cancelled and not yet ended keeps that task
and so has no monitor.

Worker threads of `QuoteCache` interleave between lock sections, and at single
assignments where no lock is held.

A call of the governance service is one action: the version it appends and the event that
follows, is refused because its identifier is known, or never comes because the process
died (`Audited`). The append-only checks of the repository are part of the guard
(`AcceptsAuthorization`, `AcceptsViolation`). A refused event leaves what a death leaves,
the stored version; the caller's exception is not state. Reloading runs the same checks
over the same records, so a restart changes nothing else.

The limiter's `acquire` is two actions: `ReadClock`, which takes no lock, and `Admit` or
`Refuse`, the section under the lock with the loop that pops the deque (`Kept`). `Refuse`
is `Fail` of `QuoteCache`, and `LimitedAsk`, the SDK call, its `Ask`; all else stutters
there. Time passes between the actions; a thread takes at most `MaxLag` from its clock to
the lock, the one parameter the code does not state. `get_client` and the SDK come after
`acquire`, so the provider sees a request later than it was admitted; the properties
speak of admissions.

An operation of the Portfolio OS appends its rows, each with an fsync, and then its
event (`RecordEvent`). The event may be refused when the rows are there already: its
identifier is known, its actor or reason is blank, or its timestamp has no time zone.
The caller then gets an error, which the history variable `refused` remembers. Each
stretch between two appends may be the last of the process (`Crash`): the files are the
state, and `_load` takes them as they are. A rebuild takes the date of its instant in
the caller's time zone (`accounting.py:85`), so that one instant has several dates
(`Dates`) and a later instant may have an earlier one. `Link` stands for
`register_account`, `link_benchmark` and `add_goal`, which write a row, the portfolio's
next version and the event. `RebuildHoldings` writes the holdings, then the lots, in the
order of their hashed identifiers: a rebuild that dies leaves any subset of the holdings,
or all of them and any subset of the lots. Within an operation nothing else runs, as one
process owns the files.

### Abstractions

- A tick is its publication number; a quote is the number of the provider's answer, and
  its age whether the two seconds have passed.
- The instant a stale interval began is whether it did: a recorded interval starts at
  the last tick, beyond the threshold, so its duration always exceeds it.
- An event log is its incident counts, its milestones, and how soon each milestone
  leaves the window of events that the verdict reads.
- The monitored instruments of a session are one, resolved or not, so that a
  subscription is complete or failed; `PRE_OPEN` and `UNKNOWN` are one status, `OTHER`,
  which the manager treats alike but for the name of a new session's state; the answer
  of `get_market_status` is assumed to change with the exchange.
- What the SDK makes of its calls is left out, and so is the session manager as one more
  caller of the feed (`factory.py:98-112`): `NoPhantomReference` is about the route.
- The feed's state moves freely for the session, as its other subscribers are not part of
  that module; what is kept is which state may follow which (`FeedNext`), and that
  `feed.subscribe` does not return before it has tried to connect.
- `RATE_LIMITED` and `PROVIDER_ERROR` events are one kind: both count as errors.
- `_connected` of the provider, heartbeats, coverage, snapshots' contents and report
  files are left out.
- In governance a version is its status, subject, scope, moments, decider and waiver:
  versions that differ in description, reason or metadata only are one, and the order of
  the log is left out. One policy, one requester; writes to the JSONL files succeed.
  `append_audit_event`, which takes a finished event, is left out.
- `reconnect()` is modelled for a configured provider; unconfigured, it only makes
  attempts that return at once.
- The limiter's clock ticks in units of which `Second` and `Minute` have a few; the age
  of a cached quote is not tied to it, so that every expiry meets every window.
- The ledger has one portfolio, one currency and exact integer amounts, which exclude no
  order of sales and purchases; the code divides Decimals for the price of a lot
  (`accounting.py:104`) and accepts a net amount within 1e-6 (`models.py:328`). A price
  exists for every security. An identifier hashed from fields is their tuple. `PAUSED` and
  the like are `ACTIVE`: only `ARCHIVED` is tested. A torn last line, which makes `_load`
  raise, and an append that raises in a process that goes on are left out, as are the
  checks against known strategies and evidence.

## Runs

| Run | Shows | Bounds and why they suffice |
|---|---|---|
| `hub` | types, exact interest counts, newest tick kept and delivered, in order | two browsers, queue of two, three ticks: a queue overflows while its sender is busy and while it is idle; one instrument under two names makes one tick match twice; a cap of two is reached |
| `stream` | types, provider cap, no phantom references, handlers and `reconnect()` end | two browsers, one instrument under two names, cap of one: the cap refuses in every interleaving; two connections, two SDK calls per subscription, one reconnect of two attempts, raising SDK calls, sockets that break anywhere. A cancelled call is withdrawn (`MaxAbandoned` 0): one that runs on changes nothing the properties speak of |
| `session` | evidence of counts, recoveries, clean verdicts, unfinished sessions, degradation | two requests at once, the monitor, a worker thread, one crash, one incident of each kind, a window of four events, so that milestones leave it. The exchange stays what it is. Symmetry over the two requests (safety only) |
| `session_ends` | references returned, completion final, close completes | two requests at once and two sessions, one move of the exchange, one failing subscription or release. No worker thread, no crash |
| `session_race` (violation) | `stop()` during `start()` leaks a feed reference | two requests, no crash, no error |
| `session_late_error` (violation) | a saved `PASS` with an error counted | one request, one worker thread, no crash |
| `session_verdict` (violation) | a long session fails for events out of the window | window of four instead of 1000 |
| `session_recovery` (violation) | a recovery of several attempts fails its session | one request, no crash; the two failed attempts are those of other subscribers |
| `governance` | types, life cycle (refinement), every exception permitted, what the integrity summary blames, requests and decisions always audited | one authorization, one violation, one override: no guard relates two of a kind, and audit events carry the authorization. Three instants are a request, a decision and a revocation, or an expiry on the boundary; two subjects, scopes and actors so that each can be wrong; crashes |
| `governance_audit` (violation) | a write that reaches no audit log | two violations, one subject, no crash |
| `quotes` | coalescing, waiters, no outdated quote, waits end, the limits, no refusal without cause | two threads (a leader and a waiter, or two leaders whose readings cross), two instruments, three calls; two requests a second, three a minute, a second of two ticks, a minute of three and a lag of one. Other endpoints pass the same limiter: it starts empty or with two of their requests whose readings crossed, so that the deque is out of order, and the limit of the minute refuses as well as that of the second. The properties of the limiter are proved for any number of threads |
| `portfolio` | cash and lots agree, FIFO, replay from day to day, what snapshots and events vouch for | two accounts, one of them linked before, one security, four transactions two of which have two forms; two instants whose dates in the callers' time zones span three days, so that the later instant may have the earlier date; sales that empty a lot, span two or find too little; dates, settlement and identifiers disagree about the order; two snapshots, one crash or one refused event |

The constants that exist only to bound the models are marked so in each module
(`MaxTicks`, `MaxFeeds`, `MaxReconnects`, `MaxAbandoned`, `MaxSessions`, `MaxCrashes`,
`MaxExchangeMoves`, `MaxTime`, `MaxVersions`, `MaxDisconnects`, `MaxStales`, `MaxErrors`,
`MaxCalls`, `MaxClock`, `MaxHoldings`, `MaxMishaps`); they are guards, not state
constraints, so that liveness is checked on complete behaviours.
`CHECK_DEADLOCK FALSE` stands where a system may rest: all calls are made, the last
session has ended.

Every property has a mutant: an operator with a plausible mistake (named as such in a
comment next to the right one), with which the property fails.

### Fairness

Weak fairness of what the event loop and the thread pool owe: a coroutine whose await is
over is resumed, a call handed to a thread ends (returns or raises), a timer fires.
In the hub, a sender whose queue is not empty runs and a connected browser reads in the
end, since a socket that never drains is closed. Nothing is assumed of browsers' and
clients' requests, of ticks, of connections succeeding, of the exchange, of errors, of
the expiry of quotes or waits. `WaitsEnd` therefore holds without the 30 seconds
timeout and however often the limiter refuses, `HandlersFinish` with connections that
fail for ever. That a whole call of `get_quote` ends is not claimed: it loops
(`market_data.py:164-202`), and with enough calls of others a waiter may always find the
answer expired and another leader registered.

## Findings

1. *A start that outlives its session* (`session_race`). `start()` does not look at its
   session again after the await of `feed.subscribe`, and keeps a reference that no stop
   returns. There is a second way to such a stray: `feed.subscribe` counts before its SDK
   calls (`feed.py:91-99`), and when one raises, `start()` records an error and no
   subscription. `ReferencesReturned` shows that there is no third.
2. *A pass with an error* (`session_late_error`). A worker thread that found the session
   active counts its error after `_finalize` has read the count and before it saves. The
   stored session has the verdict `PASS` and one error; its event follows in the log.
3. *A verdict from the last 1000 events* (`session_verdict`). The criteria look for
   events of the session's start.
4. *A governed write without its event* (`governance_audit`). The identifier of an audit
   event is derived from type, subject, action, time and authorization, not from the
   violation. Two violations of one subject under one policy detected at one instant, two
   of them resolved at one instant, or a violation recorded again after its resolution,
   collide: the version stays, the event is refused and the caller gets an error.
   Requests and decisions never collide (`DecisionsNeverRefused`).
5. *A recovery that counts as none* (`session_recovery`). Every attempt passes through
   `CONNECTING`, which is neither connected nor disconnected, so each one that fails
   counts as a disconnect of its own; the recovery counts one reconnect, and the
   criterion compares the two numbers. A `subscribe()` makes one attempt, and only while
   there is no feed: the others come from further subscribers, the browsers, or from
   `reconnect()`.

An observation on the feed: `subscribe()` counts first and asks the provider only when
`CONNECTED` and only for new names (`feed.py:91-94`). A name counted while the state is
not `CONNECTED` is asked for by nobody, not even by those who subscribe to it once it is.

Two more observations that no document contradicts: `_decide_authorization` refuses every
decision at or after the expiry, so an approval that has expired can be neither revoked
nor marked `EXPIRED`; and a waiver may be dated before the approval it rests on, which is
why `Permitted` does not compare the two.

Observations on the ledger, none of which the model has as a property:

- When every position is sold, a rebuild stores no row, and `get_holdings` keeps showing
  the snapshot before. `LaterRebuildShows` asks for a position for this reason.
- A second rebuild of the same instant after another transaction, or with another date of
  it, shows the rows of both. `LaterRebuildShows` asks for a later instant for this reason.
- An event is validated after its rows are stored: a blank actor or reason
  (`models.py:498-500`), a timestamp without a time zone (`service.py:150-154`) and a
  second rebuild of one instant with one reason and timestamp leave rows without their
  event and an error to the caller, although `docs/portfolio-os-domain-model-v1.md:33` has
  every mutation emit one. `GapsAreAnswered` says that without a crash nothing else does.
- A sale of more than is held is accepted when recorded and refused by every later
  rebuild. A `REVERSAL` moves cash but no lots.
- A process that dies inside `register_account` leaves an account that cannot be
  registered again and takes transactions all the same. An archived portfolio takes
  transactions too.

The limits hold in windows shorter than a second and a minute by the lag: two threads
that read the clock together may be admitted further apart than they read, and a third
close to the later one.

## Theorems

For every value of the constants, from the assumptions named in the modules only:

- `StreamHub_proofs`: `HubTypeCorrect`, `InterestIsCounted`, `NewestIsKept`,
  `DeliveryIsInOrder`. `InterestCounted` is inductive once a disconnected client holds
  nothing (`GoneIsEmpty`): it changes by one holder at a time (`SubscribeCounts`,
  `UnsubscribeCounts`, with the cardinality theorems of the library). The delivery
  properties are not inductive: that the newest tick is last says nothing of the step
  that drops the first, and that each delivery is newer needs the whole queue. The
  invariant `HubInv` adds that a queue ascends (`Ascending`), that it lies beyond what
  was taken and delivered (`BeyondSent`) and that its last entry is the newest tick
  (`EndsWithNewest`); `EnqueueQueue` says what a full and a free queue become.
- `MarketStream_proofs`: `StreamImplementsHub`, `StreamTypeCorrect`, `ProviderLimitHolds`,
  `NoReferenceIsPhantom`. The hub's invariant is carried over by `StreamStepIsHubStep`. The
  provider's cap is inductive with the types, because test and count are one step
  (`Taken`). `NoPhantomReference` is not: a name given back with no reference left must
  not leave a caller announced that no longer holds it. `AnnouncedIsHeld` (a caller inside
  `connect()` holds every name it will count) closes the gap: a step changes the holders
  of a name, its references and its announced callers by at most one of each, in one of
  four ways (`CountedAsBefore`, `CountedOneMore`, `CountedAfterConnect`, `CountedOneLess`).
- `QuoteCache_proofs`: all safety properties of the run. `SingleFlight` is stated for the
  threads between registering their Event and the end of the finally block and is
  inductive with the types; `WaitersAreOwed` follows through it, since who waits found an
  Event; that results are current and quotes advance needs the order of answers: what a
  leader carries is newer than what the cache holds for its key.
- `LimitedQuotes_proofs`: all safety properties of the run. `LimitedQuotesImplementQuotes`
  carries the theorems of `QuoteCache_proofs` over. `LimitsHold` is not inductive: what a
  limit sees is the deque, not the admissions. `Remembers` relates them: the deque holds
  the readings of the last admissions in their order, each late by at most the lag, and
  every admission it has forgotten is a minute old, but for the lag. The loop keeps this
  although the deque is out of order (`KeptIsTheRest`, by well-foundedness, and
  `KeptRemembers`). An admission finds room in each window that reaches the present
  (`RoomInWindow`), a refusal a limit's worth of admissions (`RefusalIsDue`); both move a
  set of positions of the deque to the history and compare cardinalities (`CountShifted`).
- `PortfolioLedger_proofs`: what the files promise across crashes, for any transactions and
  number of crashes. `EventsVouch` is inductive with the types, since an event comes last.
  `GapsAreAnswered` is too, but counts: a rebuild adds at most one holding to a position at
  its instant and one event to the instant, or its refusal (`RebuildAnswered`, with
  `CountsAreFinite`). `LaterRebuildShows` needs more: that rows of a rebuild that died do
  not show under a later one follows from `LotsHaveHoldings` (no lot is stored without its
  holding) and from identifiers that hold their instant (`IdHoldsInstant`).
- `LedgerReplay_proofs`: what the FIFO replay computes and what agrees with it, for any
  accounts, transactions and days: `LotsAreFifo`, `ReplayIsMonotone`, `BooksBalance`
  and `SnapshotsReconcile`. Replay and sums are folds, which no library theorem reaches
  here: one whose hypothesis is an operator cannot be instantiated. So induction is over
  *sets* (`NatInductionOn`, `FiniteInductionOn`), by the least counterexample under the
  well-founded order of the naturals; each sum of the model is shown to be `SumOver` of a
  function, for which the laws are proved once (one element more, disjoint sets, equal
  values); and a fold over a sequence is a sequence of states with one lemma per step. A
  sale goes through the lots (`Sells`): it takes from the k-th what is still owed after
  the lots before it. The replay then keeps `ReplayInv`: it goes on exactly as long as no
  sale exceeds the purchases before it, and then `FifoLots`: the lots are the purchases
  in their order, each with what the cumulated sales of its position leave of it. This is
  a closed form, which `LotsAreFifo` states in the words of the model's reference
  definition and from which `ReplayIsMonotone` follows, since an earlier day replays a
  prefix. `Balanced` is kept beside it: net amounts are realized profit less what the open
  lots cost. `BooksBalance` adds that the accounts' ledgers are a partition of the
  transactions, `SnapshotsReconcile` that a stored holding is a sum over its lots and that
  no later row joins them (`Reconciled`, inductive with `LedgerInv`). The assumption
  `TicketAssumption` says what `validate_transaction` (`models.py:292-330`) and the field
  types enforce: dates, identifiers and amounts are comparable numbers and a purchase or
  sale has a quantity; quantities count the smallest unit. Accounts are finitely many.
- `Governance_proofs`: all properties of the run. Every step is one of three kinds
  (`StepKinds`): it appends a version to one authorization or to one violation, or records
  an override. `ExceptionsWerePermitted` is inductive with the types since histories only
  grow. That the event of a decision is new needs `MomentsAscend` and `EventsHaveVersions`:
  an event in the log has a version behind it, and a new version is later than all of
  them. The integrity summary needs `OverridesStand`: the authorization of an override is
  approved or revoked, in scope, and was not expired. The refinement follows from
  what a step does to a status (`StatusMoves`) and to a waiver (`WaiverMoves`).
- `MarketSession_proofs`: the safety and action properties of runs `session` and
  `session_ends`, for any number of requests, worker threads, sessions and crashes. As in
  the model, the proof goes by worlds: each operation keeps a good world good (`Kept`; one
  lemma per operation), and an action is the operations it is made of.
  `CountsAreEvidenced` is stated of the session in memory and of the row on disk alike; for
  errors it is `Recorded`: the count exceeds the log by at most the workers that have
  counted and not logged (`Late`), and a worker that has loaded a count has loaded no more
  than that (`Read`), so that a count lost to another worker only helps.
  `ReconnectsAreOwed` is inductive with the types. `PassIsClean` needs that the log shows
  no more losses than the session counts, and no stale interval that is not remembered
  (`Exact`). A crash between an event and its save breaks that, and a stop request after
  the restart judges the adopted row against such a log; but a PASS also needs `hadOpen`,
  which a restart clears. So `Exact` is claimed only where someone of the same process may
  still act on the session (`Own`: it was open, the monitor exists, a request subscribes),
  and `Dormant` says that a process without a session has none of these.
  `UnfinishedOnlyByCrash` needs that every write settles the row on disk (`Settled`): it is
  completed or the session is active, or about to be written.
  The end of a session is `EndInv`. `ReferencesReturned` is not inductive: `RefsOwed` says
  that all references are strays but for one, which the next release gives back (`Holding`:
  an active, subscribed session that nobody is releasing), and `OneStart` that no two
  requests subscribe for one session. `CompletionIsFinal` follows with `Watch` (a monitor
  that sleeps has an active session, or one that a stop is about to write), `Judged` (what
  is about to be written is completed) and `Firm` (no row on disk is completed while its
  session is active). Nothing is assumed about how requests overlap.

Only model-checked: the liveness properties (`NewestReachesBrowser`, `HandlersFinish`,
`ReconnectReturns`, `CloseCompletes`, `WaitsEnd`), which with ENABLED are beyond the
prover. Every safety and action property of the passing runs is a theorem.

## Not modelled

- Portfolio OS: valuations, recorded cash balances, exposure, performance, attribution,
  risk and comparisons (records that the last write replaces), and the reads computed
  from them (metrics, `reconcile`, export).
- Governance: subjects, policies, readiness, the order of the combined timeline.
- The backtests (`backtesting/`, `research/strategy/`), index membership, acquisition and
  ingestion: sequential batch computations over price history. They are most of the
  repository's lines, and their hazards are numerical: nothing interleaves, and what they
  write is written again by the next run.
- The read APIs (no interaction, no state that outlives a call), the frontend, the
  database client.

## Plan

1. Governance: subjects, policies and readiness, and the order of the combined timeline.
2. Portfolio OS: valuations and `reconcile` over torn snapshots.
3. Ingestion and resume.
4. The session manager and the browsers over one feed: `MarketSession` composed with
   `MarketFeed`, so that `NoPhantomReference` covers both kinds of callers.
