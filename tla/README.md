# Bantoozi: a verification project

Bantoozi reads feeds, classifies the articles with paid language-model engines
and ranks them for each user.  PostgreSQL is its only stateful service.  This
directory holds TLA+ modules translated from the source, TLC configurations
that check them on small instances, and TLAPS proofs.  Paths are relative to
the repository.

## 1. The system

| Part | State it keeps | Operations | Hard behaviour |
|---|---|---|---|
| **Outbox and relay** `packages/db/src/outbox.ts`, `apps/worker/src/outbox-relay.ts` | `job_outbox` rows: due time, lease token and end, delivered | API insert (INSERT only), worker insert (re-arms), claim, complete, fail, purge | crash after send, expired leases, coalescing with a row in flight, singleton conflicts at the broker |
| **Spend guard** `packages/db/src/engine/store.ts`, `packages/engine/src/router.ts`, `packages/db/src/house/*` | `engine_reservations`, `engine_calls`, `usage_daily` | reserve under a per-day advisory lock, release, settle with retries, reconcile, expire, fold, mark budget crossings | concurrent admission, lost acknowledgements, late settlements, midnight |
| **Circuit breaker** `packages/engine/src/breaker.ts`, store and router | `settings['engine.circuit']`; per router a cached copy, a window of outcomes, the last reset applied | poll, admit, acquire/renew/complete/release a probe, trip, auth mode, reset, credential activation | stale caches, probe lease against retries, late verdicts and 401s, old resets |
| **Capacity** `semaphore.ts`, `rate-limiter.ts` | permits and waiters; two token buckets and a penalty | acquire, cancel, deadline, release, resize; refund, penalize | aging against starvation, refunds after a penalty |
| **Credentials** `packages/db/src/engine/credentials.ts` | envelopes, versions, revision, validation lease | stage, validate, activate, disable, rewrap | a late validation of a replaced candidate |
| **Match queue** `packages/db/src/classify/match-claims.ts`, `ingest/match-queue.ts` | claims and versions of (article, card) pairs | claim, store answers, rescore degraded | a crash between claim and answer, demand lost meanwhile |
| **Analysis requests** `packages/db/src/classify/analysis.ts` | request rows with status and lease | create, process, complete, cancel | deferral re-armed while the relay delivers it |
| **Feed fetch** `packages/db/src/ingest/feeds.ts`, `merge-feeds.ts`, `apps/worker/src/handlers/feed-fetch.ts` | feeds with schedule, validators, error streak and merge pointer; when each item was last seen | schedule, fetch under a session advisory lock, follow redirects (rename or merge), ingest item by item, record the outcome, defer | a lost lock, a merge between resolving and locking, failing items, an outcome computed from a stale row |
| **Origin limiter** `ingest/origin-limiter.ts` | slots and cooldowns per publisher | acquire, extend, release | leases of dead workers |
| **Article actions** `packages/db/src/api/article-actions.ts` | per-user article state and event log | apply, undo | replays and reordering by offline clients |
| **Web client** `apps/web/src/features/reader/actions`, `apps/web/src/offline` | each page's changes and what it knows of an article; the device's queue of records; the Web Lock of the sending page | change, keep, send under one key and fence, undo, replay, expire, hear of other pages | offline, reloads at every await, lost answers, two pages |
| Ranking, learning, cards, accounts, parsing, evaluation, operations | model and content tables | mostly pure computation or one transaction each | versioned writes |

How they interact.  A request or a job writes its state change and the intents
of the follow-on jobs in one transaction.  One relay loop per worker process
claims the due intents under a lease, sends them to pg-boss and acknowledges
them.  A pg-boss consumer reads the database when it starts and may run more
than once.  A handler that needs an engine asks the router: the router asks
the breaker for admission, waits for capacity, renews a probe lease, resolves
the credential, reserves the spend, sends, settles, and records the outcome
with the breaker.  The housekeeping jobs expire and fold what processes left
behind.  An admin activates credentials and requests resets.

What makes each part correct:

- *Outbox*: a committed request is on its way until a consumer that does its
  work starts after it; an acknowledgement never erases a request the sent job
  does not serve.
- *Spend guard*: caps and budget hold under concurrent admission; every paid
  attempt is counted and booked exactly once on its day; nothing that may have
  been sent is refunded; nothing is reserved forever.
- *Breaker*: one probe at a time; decisions on recent state only; only
  evidence about the current incident and the current credential changes the
  state; resets take effect.
- *Capacity*: never more permits than capacity, no starvation of bulk work,
  the long-run rate is the refill rate.
- *Credentials*: only a validated candidate becomes active, and by the
  revision the admin saw.
- *Match queue and analysis*: one claimant per unit of work, no answer for an
  old version stored as current, no unit forgotten.
- *Feed fetch and origin limiter*: one fetch per feed, politeness per origin
  over all workers, every feed due again.
- *Article actions and web client*: replays are idempotent, the last action
  of the user wins, nothing of one account reaches another.

`PROJECT.json` lists every component with its status, and under `hazards` the
lines where each hazard bites with the properties aimed at it.

## 2. The plan

1. `Outbox` with its abstraction `CoalescingQueue`, then `OutboxProofs`. *Done.*
2. `SpendLedger`, then `SpendLedgerProofs`. *Done.*
3. `EngineBreaker`, then `EngineBreakerProofs`. *Done.*
4. `PrioritySemaphore` and `RateLimiter` (router capacity): order with aging,
   resize, refund and penalty; proofs that permits never exceed capacity.
5. `BudgetAlerts`: `markBudgetCrossings` beside `SpendLedger`, then
   `BudgetAlertsProofs`. *Done; to do:* the notifications of `house.alerts`.
6. `MatchQueue`, then `MatchQueueProofs`. *Done; to do:* `AnalysisRequest`
   (leases, deferral through `Outbox`).
7. `ProviderCredentials`, composed with `EngineBreaker` at activation.
8. `FeedFetch`, then `FeedFetchProofs`. *Done; to do:* `OriginLimiter`,
   `StaleRecovery`, `SuggestLease`.
9. `ReaderTab` and `ReaderActions`: the web client's changes and their replay
   composed with the server's fences and keys. *Done; to do:* server-side undo
   requests and bulk actions.
10. `OutboxRefinement`: the proof of `ImplementsQueue`. *Done.*

Bounds stay at one or two actors of each kind and two or three units of time
per timeout: every race in the hazard list needs at most two actors and one
expiry.  The modules name their bounds as constants and the theorems hold for
all of their values.

## 3. The modules

### Outbox, CoalescingQueue

A *key* is one dedupe key of one queue and stands for one payload and revision;
a *singleton* for the key `sendSpecFor` gives its job (`SingletonOf`).  A row
has a status, the ticks until it is due and until its lease ends, and a token.
`ApiInsert`/`ApiCommit`/`ApiRollback` are a tenant transaction, which coalesces
without locking; `WorkerEnqueue` is the upsert, which locks.  A relay pass is
`Claim`, then for each row of the batch `Reject`, `Send` or `SendUnanswered`,
`CheckEquivalent` after a null send, and `Complete` or `Keep`; `DatabaseFails`
is the catch.  `Crash` forgets the pass and leaves the leases.  pg-boss holds
at most one created, one retry and one active job of a singleton, as the
queues' policy in the code implies; starting a job serves every key its
payload covers (`Rereading`: the singletons of debounced and full-rank jobs).

*History*: `fresh[k]` (requested, no start since) and `absorbed[k]` (how an
existing row took the latest request in) speak about requests; no action's
guard reads them.

`CoalescingQueue` is the promise: a request may be merged with pending work,
but only a consumer that starts after it takes it off.

*Left out*: attempts and errors of a row and the length of the backoff (any
delay up to `MaxDelay`), queue priorities, null dedupe keys (they never
coalesce), the requester.

### SpendLedger

An *attempt* is one wire attempt with its reservation and call row.  `Ask`,
`TakeLock`, `Check`, `Insert`, `Refuse` are `reserveSpend`'s transaction in the
steps other transactions can interleave with; `Insert` may lose its answer.
`Cancel`, `Send`, `Answer` are the router; `Settle`, `Release` and `TryFails`
its tries, each of which may commit and lose its acknowledgement.
`Settlement` is the settle transaction with its three cases.  `Expire` and
`Fold` are the housekeeping; `NextDay` the calendar.  `usageCalls` and
`usageCost` split each `usage_daily` bucket by attempt, so that the bucket is
their sum.

*Left out*: users, models, tokens and audit fields; call rows without a
reservation; the purge after 180 days, long after every reservation is settled.
An expiry may happen at any time after the reservation, which includes after its
TTL.

### BudgetAlerts

`BudgetAlerts` extends `SpendLedger` with the setting `engine.budget_alerts`
(`alerts`) and the transactions that mark it.  Each transaction is split: a
`Count` step reads what its day has committed, its own change included and the
uncommitted ones of others not (`CommittedWith`), and what that reaches
(`Reached`); the `Commit` step is the ledger's step together with the update of
the record (`Marked`), which the row lock of the setting makes one step.  A
transaction holds its reservation's row lock from its count to its commit, so
housekeeping and the other settler of the reservation wait (`Free`, `Count`); a
refusal, a failed try or a crash rolls it back.

*History*: `blind` holds the days on which a bill above its reserve committed
while another transaction of the day had counted, or was itself passed by one.

*Left out*: changes of the budget setting, the times of the marks, and the
notifications that `house.alerts` derives from them.

### EngineBreaker

One engine.  `shared` is its entry in the settings row.  A store update is one
transaction, but its caller reads the clock and its cached state before
(`Begin`: `at`, `before`) and acts after.  `PollRead`/`PollEnd` split a poll at
its await.  A logical request goes through `Decide`, `Acquire`, `Prepare`,
`Renew`, `Reply`, `Continue` (a retry or the next pack), `Unauthorized` and
`AuthFailure`, and ends with `Conclude`, `Trip` or without an update.  A cached
copy keeps what `evaluateBreaker` needs of it, as ticks left (`View`).
`OtherEngine` is the copy an update of the other engine brings along.

*History*: `closedAgo`, `authOf`.

*Left out*: the environment key (version `null`), disabling a credential, log
lines, and whether an error is retryable (a choice).  Windows hold at most
`MaxWindow` outcomes (the oldest is forgotten): with `MinRequests` at or below
it the trip decision is reached in both ways.

### MatchQueue

One article and the cards whose pairs with it are followed.  `row` is
`match_queue`, `ans` is `card_answers`, `stage` the part of `pipeline_state`
that matters here (`waiting` for facets, `enriched`, `matched`), `rev` the
content revision, `cfg` a number for the settings `sameMatchConfig` compares.
A step is one committed transaction, with the reads before it where nothing can
tell the two apart; an engine call lies between two steps (`pc = "call"`).

| Code | Actions |
|---|---|
| `claimMatchRows` and the configuration snapshot | `Claim` |
| `prepareCards`, or the early return when the article moved on | `Prepare`, `GiveBack` |
| `askPack` up to the call | `AskPack` |
| a reply: `applyPack`; `failPack`; the fences `revisionHolds`, `configHolds` | `ApplyPack`; `FailPack`, `Revoked`; `Discard`, `OutdatedReply` |
| the end of the pack loop; `finish` | `Stop`; `Finish` |
| `card.backfill`, `house.rematch`, the answer pages of `house.rescore-degraded` | `BackfillRead`, `RematchRead`, `RescoreRead`, each followed by `WritePlan` |
| `recoverMatchQueue` and the jobs its caller records | `Recover` |
| completion of `article.enrich`, `resetArticleAnswers`, the fill of `analysis.process` | `Enrich`, `Reset`, `CacheFill` |
| readers and administrators | `GainDemand`, `LoseDemand`, `ChangeConfig` |
| time | `Ripen` (due times, cool-down), `Expire`, `Lapse` (leases) |
| a dead process, a shutdown, a job that outlives its expiration | `Crash`, `Drain`, `Overrun` |

`intent` and `active` abstract the outbox and pg-boss: an `article.match` job is
recorded and not started, and the queue runs one of them at a time per article.
After `Overrun` it hands out another while the first still works.
A job's token is its worker's name, and `Orphan` once the job is gone: tokens
are fresh UUIDs that are only ever compared with the job's own.

*Left out*: level-2 questions, prefilter markers, the restart-class fence
(`lockWorkerCurrent`), the sweep of stalled rows, stale, failed and degraded
articles, priorities and the order of claims, probabilities.  A pack too large
for the engine is `FailPack` with `Exhausted`.  Rows another transaction has
locked (SKIP LOCKED) are any subset while another worker is at work.  One
producer at a time is between its read and its write (`plan`).  A renewal and
the drop of undemanded rows are one step with the reads after them, because a
job acts on nothing in between.

### FeedFetch

A feed is its row and the sightings (`last_seen_at`) of its items.  An article
is the URL that publishes it with its version, a URL's document the newest two
of them, a validator a version; `next_fetch_at` is due or not due, and time is
the number of fetches started.

| Code | Actions |
|---|---|
| `feed.schedule` | `Schedule` |
| `createFeedFetchHandler`: resolve, lock, re-read, request | `Take`; `Skip`, `StartStale` or `Start` |
| `followPermanentRedirect`: `renameFeed`, `mergeFeeds`, `tryExtend` | `Rename`; `Merge`, then `Extend` or `GiveUp` |
| the item loop, one transaction each | `Ingest`, `IngestFails` |
| the target's row after a redirect; the outcome | `Gather`; `Record` (`nextSchedule`, `recordFeedFetch`, `markFeedItemsStillListed`) |
| `FEED_ORIGIN_COOLDOWN` | `Defer` |
| a lost lock connection, a dead worker | `LoseLock` |
| publishers, time, administrators, subscribers, operators | `Publish`, `Move`, `FallDue`, `Reset`, `Refresh` |

A job is resolved in one step and locked in another.  The lock, the read of the
row and the answer are one step (`Start`): the row is the session's own from
there on but for resets, which commute with the request.  Every feed has been
fetched once when a behaviour starts.

*History*: `blurred` holds the feeds with sightings that no recorded outcome
accounts for: a feed was merged into while a fetch of it held its lock, or was
fetched by another session between the start of a fetch that merged into it and
that fetch's own lock on it, or a fetch of it died after it had ingested.
`dropped` holds those a job of which died with its connection.

*Left out*: intervals, jitter and publisher hints (`publisherEarliest`), robots,
resumed redirect hops, the unconditional retry of a 304 without validators,
paused feeds and unsubscribing, metadata and language hints, parse errors apart
from other errors, the identity of items (GUIDs, aliases) and what a merge does
to subscriptions, cards and analysis requests.

### ReaderTab, ReaderActions

One article, the pages of one device, its queue store, the network and the
server.  A change is its place in the order of creation; a reader state is its
`stateVersion`, and so is a fence.  `ReaderTab` holds what one synchronous
stretch of `store.ts` does to a page (`Dispatched`, `FixFence`, `Settle`,
`Drop`, `Park`, `Cancelled`, `Adopt`, `Expired`); `ReaderActions` puts these
between the awaits.

| Code | Actions |
|---|---|
| `dispatch`, `undo` | `Dispatch`, `Undo` |
| `run`, `exchange` between their awaits | `Resume`, `Acquire`, `DiskStep` (the record looked at, then marked), `Reply`, `Fail` |
| `putRecord`, `patchRecord`, `deleteRecord` in the order asked, or failing | `DiskStep`, `DiskFault` |
| notes of other pages; fetched lists | `Hear`; `Observe` |
| `restore`, `replay`, `drain` | `Restore`; `ReplayBegin`, `ReplayAdopt`, `ReplayAbandon`, `DrainNext`, `DrainEnd` |
| a page closed or reloaded | `Reload` |
| the API: receipt, fence, write, one transaction | `Handle` (`Replayed`, `Applied`, `StaleState`, `NotFound`) |
| another device, the connection | `OtherWrites`, `Disconnect`, `Reconnect` |

The server's row is the log of what was written to it and its version the log's
length.  *History*: `made` (the state each change was made on, whether offline
and whether it followed no other), `told` (what each page told the person of a
change), `withdrawn` (the changes whose record an Undo has removed; an Undo that
still waits for the removal has withdrawn nothing yet).

The properties about applied and refused changes hold for one page whose
database answers (`DiskSound`), which is how they are stated and run.  With two
pages a page may restore the record of a change that waits behind another one,
take a fence for it and find it stale while the other page sends it; a fence
whose write failed has the same effects after a reload.

*Left out*: the held changes of the reason bar, bulk actions, saved snapshots
and content revisions, the second send after `obsolete_request`, undo requests
to the server, changes the server finds already made, browsers without Web
Locks, switches of account, and accounts that keep nothing on the device.

## 4. What the runs check

| Run | Shows | Bounds |
|---|---|---|
| `OutboxAll` | `TypeOK`, `RequestsCovered` with both writers and a slow relay | 2 payloads of one singleton, 1 relay, 3 tokens, lease 1, delay 1 |
| `OutboxWorker` | `ImplementsQueue`: refinement of `CoalescingQueue`; `RequestsServed` under fairness | 1 payload, 2 punctual relays, 2 tokens, lease 1 |
| `SpendAdmission` | `CapRespected`, `AdmissionWithinLimit`, `CrossingsMarked` (`BudgetAlerts`) | 2 attempts, a decision and an exempt kind, amounts 1-2, two days, thresholds 80 and 100 % of 2 |
| `SpendSettlement` | `CountedOnce`, `CostBooked`, `SentStaysCharged`; `EveryReservationSettles` under fairness | 2 attempts, 3 days, 2 tries |
| `BreakerRouters` | `ProbeExclusive`, `AdmitsRecentlyClosed`, `StreakKept`, `ClosesForAReason` | 2 routers with a request each, 3 ticks |
| `BreakerAdmin` | `TypeOK`, `AuthOfActive`, `ClosesForAReason`, `ResetClears` with resets and an activation | 1 router, 1 request, 2 versions, 4 ticks |
| `MatchPair` | `TypeOK`, `PairsAccounted`, `AnswersFenced`, `PrimaryKept`; `PairsServed` under fairness | 1 card, 1 worker, 2 attempts, 2 revisions, 2 configurations, 1 fault |
| `MatchWorkers` | `LeaseRespected`, `FailuresHonest` among workers that overlap | 2 cards, 2 workers, 1 attempt, 2 revisions, 2 configurations or 1 fault |
| `FeedFetch` | `TypeOK`, `ValidatorsHonest`, `OneWriter`, `OwnFeedLive`, `ForceKept`, `NotModifiedHonest` | 2 feeds, 3 URLs, 2 sessions, 4 fetches (2 of them past), 2 versions, 2 events |
| `ReaderPage` | `TypeOK`, `StaleIsNotApplied`, `WithdrawnNeverApplied`, `NeverRefusedAfterApplied`; `EverythingSettles` under fairness | 1 page, 2 changes, 1 retry, 2 of: another device's write, a failure, a lost connection, a reload, a database fault, an expiry, an undo |
| `ReaderPages` | `OneSender`, `DoneIsApplied`, `AppliedAsMade` | 2 pages, 2 changes, 1 reload |
| `ReaderOverwrite` | violation of `NoSilentOverwrite` | 1 page, 2 changes, 1 other write, 1 lost connection |

Why the bounds are enough: a lease of two ticks can be live, expiring and
expired; two relays (routers, attempts) are one that acts and one that is
late; three tokens let a fresh one be drawn while two are remembered; two
keys are the smallest singleton conflict; one pair meets every producer, reset
and configuration change, two pairs are the smallest partly answered pack and
two workers the smallest overlap; two feeds and two sessions are a fetch that
merges into a feed under fetch, three URLs let a feed move twice and two events
let a failure meet a move, a reset or a lost lock; two changes are one that
follows another, and two events an interruption of the recovery from one.
`MatchWorkers` starts with both pairs queued
for an enriched article, has no producers but the recovery job, and a behaviour
of it has a change of configuration or a worker's fault, never both
(`WorkerNext`), which keeps two workers within reach; `MatchPair` has both.  Symmetry is used for tokens and
interchangeable actors, never in a liveness run.

`Punctual` is the one environment assumption of the outbox and the breaker:
a relay settles its batch within the 60 s lease, a router polls without delay
and finishes a probe's attempt within the probe lease (150 s against a 60 s
HTTP timeout).  It is off where the property does not need it
(`OutboxAll`) and on where the code relies on it: without it,
`ImplementsQueue` fails for a relay that outlasts its lease, and
`ProbeExclusive` for an attempt that outlasts its own.

Fairness.  The relay loop polls every second and worker processes are
restarted; claims go oldest first, so no due row is passed over forever
(strong fairness of `Claim` for each key); the broker and the database answer
again and again (strong fairness of `Send`, `CheckEquivalent`, `Complete`,
`PollEnd`); time passes; pg-boss starts pending jobs and active jobs end.  The
daily housekeeping runs (`Expire`, `Fold`).  A router polls whenever its copy
is stale, at the latest when a house job asks for `states()`.  Crashes and
failures need no fairness and may happen any number of times.

Fairness of the match queue.  `article.match` jobs are started and go on
(`Step`), enrichment and recorded backfills run, `house.rescore-degraded` comes
round every ten minutes (`Recover`), due times and leases pass.
`comparePackItems` puts older pairs first, so a pair that is left out of a job's
time again and again is asked (strong fairness of `AskPack` for each card), and
a primary engine asked again and again answers (strong fairness of `ApplyPack`).
`BackfillRead` is strongly fair because the other producers may take the one
`plan` slot in between.  Crashes, shutdowns and overruns are at most
`MaxFaults`, resets and configuration changes at most `MaxRev` and `MaxCfg`.
A pair set aside as `bad`, a request no engine accepts, needs an administrator,
which is why `PairsServed` exempts it.

Fairness of the reader.  A page runs, its database and the server answer, notes
arrive and the connection comes back (weak fairness of each).  A page that sends
or replays is strongly fair, because the lock it asks for, or the connection it
needs, may come and go: the Web Lock is granted in the order asked, and
`retryLater` tries again for as long as kept changes wait.  Failures, reloads
and lost connections need no fairness and are bounded (`MaxEvents`).

Deadlock is checked everywhere but in the ledger's runs, where attempts are
finite and everything may be settled, in `MatchWorkers`, where the queued work
is finite, in the reader's runs, where every change settles in the end, and in
`FeedFetch`, where the fetches are bounded.

### Where the code and its documents disagree

- `ReaderOverwrite`: spec 08 says a stale offline write is surfaced and never
  silently overwrites a newer action of another device.  A change that waits
  behind another one takes its fence from that one's answer (`fixFence`), and
  the answer may report a state another device made.

Others are described here without a run:

- Spec 02 section 3.2 asks to serialize the producer's conflict handling with
  the relay.  An API insert takes no lock on the row it coalesces with, so the
  relay can claim, send and acknowledge that row before the API commits
  (`absorbed` in `Outbox`, the exception of `RequestsCovered`).
- Spec 03 section 2.1 asks for the same *unexpired* lease token on an
  acknowledgement, and `completeOutboxIntent` compares the token only: a worker
  insert that meets an expired lease can lose its request the same way.
- `breaker.ts:352` says a transition invalidates the evidence gathered before.
  A router that learns of a transition by polling keeps its window (`PollEnd`).
- Spec 04 section 5 says a restart must not clear a bad-key incident.  A
  restarted router applies an old reset again, and closes an incident whose
  clock reading is older than that reset (`Crash`, `PollEnd`).  The same section
  says a reset closes the breaker atomically; the handler only records its
  timestamp (`RequestReset`).
- Spec 04 section 6 says crossings are marked atomically.  A settlement counts
  without the day's lock: two that bill more than they reserved and overlap each
  count without the other's excess, and a crossing that only both together
  reach stays unmarked until the next transaction of the day counts (`blind` in
  `CrossingsMarked`).
- `feeds.ts:450` says a fetch outcome never changes a dead status.  It does not
  bring a dead feed to life, but a forced fetch of a dead feed that was loaded
  before an administrator's reset writes its `dead` over the reset
  (`AfterSuccess` with `Recorded`).
- `merge-feeds.ts:369` drops the survivor's validators so that its next 304
  does not stamp items it does not list.  A fetch of the survivor that was under
  way puts its own back, and the next 304 stamps the moved items (`blurred` in
  `NotModifiedHonest`).
- A continuation of a forced fetch that dies with its lock connection is not
  retried (`retryLimit` 0): on a feed that is dead the flag stays, with no job
  to fulfil it (`dropped` in `ForceKept`).
- `store.ts:102` shows a page's changes in the order they were made, and
  `store.ts:243` restores records "each after the record it follows".  A change
  restored while a younger one is being sent is put at the second place
  (`restoreEntry`), and so is the next one: two or more restored changes then
  stand, and are sent, in the reverse of their order.  Of the order only
  `AppliedAsMade` holds: a change that followed none is applied to the state it
  was made on.
- `types.ts:202` says of a cancelled change that nothing reached the server, and
  spec 09 (docs/specs/09-web-app.md:46) that Undo of a queued change whose
  request never left cancels it on the device.  Undo answers at once and the
  removal of the record is only queued (`retire`, `store.ts:517`): a page
  reloaded before the removal is done finds the record, restores the change and
  sends it.  And a second page that listed the record before the first one
  marked it as sent may cancel the change while the first sends it.  TLC finds
  both when `"undone" \in Told(c) => ~InLog(c)` is asked of one page with a lost
  connection, a reload and an undo, and `WithdrawnNeverApplied` of two pages.
  `WithdrawnNeverApplied` is therefore about one page and a record it removed.
- A third feed makes one more order possible, which the two of the run do not
  reach: the survivor of a merge may itself be merged before the session
  extends its lock to it, and the rest of the fetch works on a tombstone
  (`tryExtend` does not read the row again).  `OwnFeedLive` is therefore about a
  session's own feed.

## 5. What is proved

All proofs are for any values of the constants that satisfy the modules'
assumptions; the four theorems that assume more say so (three `Punctual`, one a
single page).

**OutboxProofs.** `TypeCorrect`; `RequestsAreCovered`: `[]RequestsCovered`.
`RequestsCovered` is not inductive: between a send and its acknowledgement the
row alone covers the request, and the acknowledgement takes the row away.  The
invariant adds that a relay in phase `sent` that still owns its row has a
pending job for whatever is fresh and not absorbed (`SentCovered`), and that
tokens of rows and passes agree.  The steps that matter are `WorkerEnqueue` (a
live lease is re-armed under a null token, so no relay owns the row any more),
`Complete`, and the starts of jobs.

`SentIsCovered` is that conjunct as a theorem.

**OutboxRefinement.** `QueueImplemented`: with punctual relays, the outbox with
its worker writers implements `CoalescingQueue`; every step maps to a request, a
service or a stutter.  The mapping reads `pending` off the rows and the broker's
jobs, so the proof needs an invariant (`QueueInv`) that says where a request can
be at every moment of a pass: jobs stay with their singleton (`JobsHome`), a
relay between claim and acknowledgement has its batch (`BusyWithBatch`), a row
it still owns has a live lease (`OwnedIsLive`, where `Punctual` is used), and
what is requested is in a row or at the broker, also while the row's
acknowledgement is on its way (`RequestsPending`, `SentPending`).

**SpendLedgerProofs.** `TypeCorrect`; `CallsCountedOnce`; `CostsBooked`;
`SentAttemptsStayCharged` (strengthened by what each router step says of the
reservation: a sent attempt's reservation is never in the state a release
deletes, because a releasing attempt was not sent); `CapIsRespected`
(strengthened by the lock: at most one attempt of a day is between its check
and its insert, and its check still holds, because nothing else inserts into
the day; the rest is cardinality of a set and of a set with one more element);
and `AdmissionsAreWithinLimit`, the action property of the run.  The amounts of
a day are summed by a fold, and what a fold computes is proved without an
induction theorem: of the finite sets for which the recursive function does not
exist, or for which removing an element does not take off its summand, a smallest
one leads to a contradiction (`FoldExists`, `SumRecursion`, `SumRemove`).  The
invariant (`Within`) is that between check and insert the day owes no more than
its check allows: under the lock nobody inserts, and a settlement, a release, an
expiry or a reconciliation never raises what `Owed` counts of an attempt
(`OwesNoMore`), because it counts none at more than it reserved.

**BudgetAlertsProofs.** `LedgerImplemented`: every behaviour of `BudgetAlerts`
is one of `SpendLedger`, so that what is proved of the ledger holds with the
marks (`CapsHoldBesideAlerts`).  A reconciliation is the step that needs an
invariant: the amount it books was chosen when it counted (`HouseCharges`).
`AlertsTypeCorrect` types the record and the transactions;
`AdmissionsWithinLimitBesideAlerts` carries the ledger's action property over.
`CrossingsAreMarked` needs to know what an open transaction will leave
(`Marking`): on a day that is not blind, what an open transaction that can raise
the committed spend (an admission, a bill above its reserve) would make of the
day, by the others' present charges, is marked or among the marks it has due.  A
step falls into one of three kinds (`StepKinds`): it counts, it commits, or it
raises no charge, and the three keep the invariant for different reasons
(`CountMarks`, `CommitMarks`, `QuietMarks`).

**MatchQueueProofs.** `TypeCorrect`; `PairsAreAccounted`: `[]PairsAccounted`;
and the action properties `AnswersAreFenced`, `FailuresAreHonest`,
`PrimaryIsKept`, `LeasesAreRespected`.  `PairsAccounted` needs `RevisionBounds`:
no row and no producer's plan has a revision above the article's.  Without it an
upsert at the article's revision could meet a newer row and leave it, and the
pair would have no row at the revision in force.  The argument then has three
parts: a step of a worker removes the row of a demanded pair only together with
a current answer (`RowsLeft` says what a step may do to a row), a producer that
decided before a reset writes at a revision that no longer counts and the reset
has queued the pair itself, and a reader who arrives during a drop has a
backfill still to come.  The action properties follow per action from the two
fences, which hold the revision and the configuration for as long as their
transaction lasts. `LeasesAreRespected` adds that a row somebody has leased is
at the article's revision (`LeasesCurrent`): otherwise an upsert would take it
for a stale row and start it afresh under its worker.  A worker's step but a
claim touches only rows of its own token (`StepLeaves`), and moves its job
(`JobMoves`).

**EngineBreakerProofs.** `Shape` types what most proofs need and says that a pending update has read the clock, that a streak has a start
and that a poll has read no reset but one that was requested.  From it and from
a list of the few steps that touch the shared circuit (`MostlyIdle`,
`TouchedBy`, `ResetBy`) follow `StreakIsKept`, `AuthIsOfActive` and
`ClosesOnlyForAReason`, for any timing.  Two theorems assume `Punctual`.
`AdmissionsAreRecent` rests on `Recentness`: while a router's copy says closed,
the age of the last closed state and the time the copy may still be used add up
to at most one interval, and a poll in flight that read closed read it in this
tick.  `ProbeIsExclusive` (without resets, as the code's comment has it) rests
on `ProbeInv`: tokens have one holder, a lease update in flight has the present
time, and whoever sends as the probe holds the token of a running lease, or auth
mode has ended the probing; so a new lease is granted only when nobody sends.

`BreakerBounded` is `TypeOK` with its bounds, which are not inductive.  That
there are fewer failed probes than ticks rests on `Timed`, the same of the
shared circuit and of every circuit a poll holds: a circuit is half open only
later than it opened, so each reopening is later than the last.  `VerdictsLate`
adds that the update which ends a probe began after the circuit opened, although
it commits later than it read the clock; `CopiesThere` that a router with a
request under way has a copy.
`2 ** n` is a recursive function (`Doubled`) and a window loses a prefix
(`Pruned`, as `prune` splices it); the facts about both come from a least
counterexample (`Least`), since the library's induction theorems take an
operator.

**FeedFetchProofs.** `LocksHeld`: a session under way holds the lock of the
feed it fetches, and one that writes the lock of the feed it writes to
(`LockInv`).  `OneWriterHolds` follows, since a lock has one holder.
`OwnFeedStaysLive` adds the rows' `merged` (`LiveInv`): the re-read under the
lock finds the feed unmerged, and only the session that holds its lock merges it
away.  Every action but `Merge` keeps every row's `merged` (`MergedKept`).

`TypesKept` is `[]TypeOK`: the types of rows, sightings and jobs, what each
session carries in each phase (`TaskOK`), the locks it holds (`HoldsOwn`,
`HoldsTarget`, from `LockInv`), and that following `merged_into` ends at an
unmerged feed (`MergesEnd`).  The last is the hard part: `Live` and `Serving` are recursive
functions over chains of merges and redirects, which exist because every chain
ends (`FollowExists`, by a smallest set of feeds that a chain could stay in) and
stay that way when a chain's end is linked to another end (`LinkKeepsRooted`).

`ValidatorsStayHonest` is the promise of the conditional request.  While a
session works, what it has ingested of its document is its target's, and if it
got none, the articles behind the validator it found are (`Backed`); and the row
it read still has the URL it polls (`Current`).  Articles never leave a feed but
by its merge (`CarriedGrows`), whose survivor loses its validators.

`NotModifiedStaysHonest`: between fetches, what was seen of a feed since its
last success is listed by the version its validator names (`Accounted`), and
during one, what was seen since its start is of its document, or the row is as
it was read (`Exact`).  In trying to prove it the set `blurred` of an earlier
version of the module turned out too small, and TLC found the order with larger
bounds: a session merges its feed into a survivor nobody has locked, another one
fetches and ends there, and the first extends its lock to it.

`ForcedFetchKept`: a lock's holder is under way for the feed (`Held`), a session
that left its own feed has merged it away (`Away`) and one that stayed knows of
the flag its feed carries (`Owed`).  So a job that is skipped because the feed is
locked leaves the flag to a session that will find it.

**ReaderActionsProofs.** For any number of pages, changes, retries and faults:
`ShapesKeptAlways`, `OneSenderAlways`, `DoneMeansApplied`,
`AppliedAsMadeAlways`.  None of the four is inductive; they are parts or
consequences of `ReaderInv` (`ReaderInvHolds`), which has three conjuncts.

- `PagesInv`: every page is one of `Pages(made, Landed, B)`.  Its queue lists
  each unsettled change once (`Lists`), what it says is done has landed, notes
  and records it has yet to write are true of the row (`Tasks`), and a change
  that followed no other carries, in the page, in its record and in whatever is
  still to be written, the version it was made on (`EntryOK`, `RecordOK`).  `B`
  holds the kept changes the page may be exchanging: all of them if it has the
  Web Lock, none otherwise.
- `DeviceInv`: the same of the records, the notes, the requests and the answers
  on their way, a late duplicate included.
- `ServerInv`: the row's length counts the receipts and the other devices'
  writes, so versions stay within those modelled; the keys with a receipt are
  the changes in the row.

`OneSender` follows from `B`, `DoneIsApplied` from the truth of notes and
answers, `AppliedAsMade` from the fence that a change that followed none never
loses.  `Settle`, `Drop`, `HandOver`, `Adopt` and `Expired` are folds over the
queue, so most of the module is about them: what a left fold keeps if each of
its steps keeps it (`StepRun`) is proved without an induction theorem, through a
smallest set of indices for which the claim fails, and each operator of
`ReaderTab` then has a lemma that it maps `Pages(M, L, B)` into itself.

`TakenBackStaysAway` is `[]WithdrawnNeverApplied` for a device with one page, any
number of changes, and every fault but a failing database: with that one the
property has nothing to say (`DiskSound`).  It is about changes whose record the
Undo's page has removed; one that is reloaded before the removal is not covered
(section 4, `types.ts:202`).  `ReaderInv` does not give it, because
it does not follow the order of the writes the page has asked the queue store
for, and a removal the store has not done yet leaves a record that a reload
restores.  The inductive invariant is `ReaderInv /\ (DiskSound => NeatPage(p))`;
for every change, `NeatPage` says of the page's entry, its waiting writes, the
records, what a replay has listed, and what has reached the server or is on its
way:

- `SaveComesFirst`: when the save of a change still waits, nothing else was asked
  of the change before it and nothing of it was sent;
- `SentIsMarked`: a record of a change that may have reached the server is marked
  sent, and an Undo's removal that still waits finds a record that is not, with no
  mark before it;
- `StaysAway`: a change that was taken back, or whose record was found gone, has
  no record and no save that waits, and one taken back is neither at the server
  nor on its way;
- `OldGone`: a change the page had kept before it listed the records, and that was
  not among them, will have no record again.

Most steps are calm about a change: they send nothing of it and ask only for
writes that neither save nor mark it (`Calm`), and a calm step keeps the
invariant whatever the queue holds (`NeatCalm`).  `CalmPages` carries that through
the folds; what is left are the sends, the answers of the store, the reload, the
restoring of records and the Undo itself, with a lemma each.  TLC checked this
invariant on the bounds of `ReaderPage` before it was proved.

Only model-checked:

- all liveness (`RequestsServed`, `EveryReservationSettles`, `ResetClears`,
  `PairsServed`, `EverythingSettles`): under fairness it is out of the prover's
  reach;
- `StaleIsNotApplied` and `NeverRefusedAfterApplied`: they also hold for one page
  whose database answers, and rest on the fence that a change carries.
  `SentIsMarked` is part of what a proof needs; the rest is that the change being
  exchanged is the one at the head of the page's queue, that its fence is the same
  in the entry, in the record and in the fence writes that still wait once a
  request was sent with it, and that a fence the page gives a change is a version
  the row has had since it was made.

## 6. What is not modelled

Pure computation (parsing, ranking arithmetic, prompts), presentation, and
evaluation tools: outside of what a model checker tells apart.  The components
marked *not_modelled* in `PROJECT.json` that the plan names are for later; what
a modelled component leaves out is listed with its module in section 3.
