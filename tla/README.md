# A verification of ocx-quota-manager

TLA+ models of the parts of ocx-quota-manager whose correctness depends on order,
failure, restarts or long runs of small steps; TLC configurations that check them on
small instances; and proofs, checked by TLAPS, of what matters most for every value of
the constants. Every definition is translated from the sources under `src/`; the
definitions and the lines they stand for are listed in `PROJECT.json` ("map").

## 1. The system

One Go process (`cmd/quota-manager`) on the machine that runs OpenCodex. Every ten
seconds a *cycle* reads OpenCodex's local files, asks the providers for quota, writes
what it learned into a SQLite database, ingests the usage log, computes the analytics
and publishes one immutable snapshot, which an HTTP server hands to a web page and a
macOS menu bar application.

| Part | State it keeps | Operations | Interacts with |
|---|---|---|---|
| Direct-read scheduler (`internal/collect/scheduler.go`) | per credential and endpoint: in flight, deadline and failure count, last good rows, last rows, last outcome | Collect, fetch, back-off, Outcomes, Restore | the cycle calls it; outcomes go to `meta` and come back at start |
| Provider adapters and requests (`collect/adapters.go`, `*_parsers.go`, `request.go`) | none | build one request, parse one body | scheduler |
| HTTPS transport (`collect/transport.go`) | none | Do: one request, timeout 8 s, no redirects, bounded body | scheduler |
| Local reader and merge (`collect/local.go`) | none | LoadLocal, MergeDirect | cycle |
| Runtime cycle and publication (`internal/runtime/runtime.go`, `maintenance.go`, `analytics_failure.go`, `direct_status.go`) | the published snapshot, the poll lock, the maintenance clock | cycle, Start, Close, Snapshot, MaintainIfDue, retainAnalysis | everything |
| Identity epochs (`runtime/identity.go`, `store/identity.go`) | the cache of open epochs; epoch rows; the epoch sequence | bindingEpochs, EpochForIdentity | cycle, observations |
| Observations (`runtime/local_observations.go`, `direct_observations.go`, `ollama.go`, `store/ollama.go`) | last persisted reading per window | persistLocalObservations, persistOllama, InsertObservation | cycle, epochs |
| Usage ingest (`store/ingest*.go`) | cursor per source, usage rows, price links, observed span | IngestJSONL | cycle; retention |
| History store and retention (`store/sqlite.go`, `query.go`) | the database | Maintain, Transact, meta | cycle |
| Usage cache (`store/cache.go`) | copies of usage rows and observations, dirty ids | ListUsage, ListObservations, invalidation | analytics; every writer |
| Price rules and catalog (`store/price_rules.go`, `tariff_revision.go`, `catalog.go`, `ingest_price.go`, `runtime/catalog.go`) | revisions in `meta`, the copy on disk | selectUsageRate, SetCatalog, Load | ingest |
| Model roster and price gaps (`runtime/roster.go`, `price_gaps.go`) | what was listed and when, findings | recordRoster, recordPriceGaps | analytics |
| Quota arithmetic (`internal/calc`) | none | normalise readings, consumption by period and bucket, needed accounts, recommendations | analytics |
| Analytics (`runtime/analytics.go`, `breakdown.go`, `quota_series.go`, `forecast.go`, ...) | none | attachAnalyticsWith | cycle |
| HTTP server (`internal/httpserver`) | bind file | GET of snapshot, page and health | the page, the menu bar application |
| Web page (`web/src`) | busy flag, last snapshot and what was drawn from it, selections, the fragment, the drawer and the focus, what a chart reserved | refresh, the timer, navigation, redraw, views | HTTP server, browser |
| Embedding of the page (`scripts/build-web.ts`, `web-assets.ts`, `internal/webembed`) | `web/dist`, `webembed/static` | build, verify, clear, copy; RequireAssets | the Go build, the service's start |
| Browser checks (`scripts/ui-flow.ts`, `ui-browser.ts`, `check-port-ui.ts`) | what the page is under, the processes started, the port | ten steps; build, spawn, drive, release | page, embedding |
| Menu bar application (`macos/`) | loading flag, last snapshot | refresh, settings | HTTP server |
| Deployment (`scripts/deploy.sh`, `install.sh`, `deploy/backup-history.py`) | releases, `current` link, backup registry | deploy, roll back, back up, prune | the service |

### What is hard here

* **The scheduler** runs reads concurrently, looks at a deadline before it waits for a slot,
  captures a failure count before a request and writes it back after, and carries deadlines
  over restarts. Correct: one read of a credential at a time, never before its deadline,
  failures forgotten only by a success, nobody starved.
* **The ingest** follows a growing file that may be truncated, replaced or written in the
  middle of a line, while retention deletes from the same tables and prices are revised.
  Correct: each record is counted once, none that was kept is lost, none that was deleted
  comes back, and a price once settled changes only by a revision.
* **The usage cache** must equal the database after every writer, through five different ways
  of invalidating it.
* **Identity epochs** divide an account's readings by credential. Correct: one open epoch per
  account, a number used once for ever, no reading booked on an epoch that was not open when
  it was taken.
* **The cycle** has a dozen error paths; each must publish something true: analysis from an
  earlier cycle is shown only as stale, and ages.
* **The page** redraws everything from one snapshot, several times a minute, while requests
  are under way, time passes and the browser moves focus and width. Correct: a figure that
  expired is never shown as current, an answer that was overtaken never drawn, silence is
  told, the keyboard never lost, and no figure claims more than what was published.
* **The checks** disturb what they look at (clock, network, fetch, ports). Correct: a pass is
  a pass of the whole route, of the binary just built, with everything put back.
* **Deployment** switches a link and restarts a service: a failure at any step must leave a
  release that runs.

## 2. Modules

### 2.1 The direct-read scheduler

`Backoff` holds the waiting times, `BackoffLoop` the loop of `backoff` run statement by
statement (it runs as a part of `MCFigures`), `Scheduler` the rest: Collect with its loop, its slots and its reading goroutines,
the outcomes and their way to disk and back.

| TLA+ | Code |
|---|---|
| a key `<<account, endpoint, credential>>` | `FlightKey`; the credential is the digest `Identity` |
| `inflight`, `cool`, `outcome`, `lastGood`, `latest`, `restored` | the maps of `Scheduler`, guarded by its mutex |
| `pc`, `todo`, `cur` | where each caller of Collect is in its two loops |
| `flight[c][k]` | the reading goroutine of Collect `c` for `k` |
| `saved` | the list in `meta` under `directOutcomesV1` |
| `BeginCollect`, `Visit`, `Refuse`, `Begin`, `Acquire`, `Return` | Collect: the filters, applyRestored, tryBegin and its two results, the semaphore, wg.Wait |
| `Decline`, `Send`, `Succeed`, `Fail`, `BeLimited`, `BeRefused`, `BeUnusable`, `End` | fetch and the deferred calls of the goroutine |
| `Persist`, `Restart` | persistDirectOutcomes, restoreDirectOutcomes |

Deadlines are the time left until them, counted down by `Tick`. Times are in units of the
poll interval, so the code's 30 minutes are 15 units; the instances use a cap of 2 or 3,
which keeps both a doubling below the cap and one that hits it. The code writes a reply in
three critical sections (deadline, outcome, last good rows); the model makes one step of them,
because only `Outcomes` reads two of them, and the cycle calls it after its own Collect has
returned and cycles exclude each other (`rt.poll`).

What the proofs add: `RestoredOnce`, a saved outcome is used up
before the key it is for is looked at; `DueUntilSent`, a key stays due from `tryBegin` to its
request; `CountHeld`, the failure count that was captured is still the key's at the end;
`RowsHeld`, what a goroutine leaves tells of its outcome before it is published; `BackoffKept`,
a back-off on disk waits to be restored or is no longer than the one in force.

### 2.2 The usage log

`UsageLog` is `IngestJSONL` and `Maintain` with the cycle around them and OpenCodex's file at
the other end; `UsageLedger` is what they promise, in 26 lines: calls are counted once and
above a floor, the floor only rises, and what it passes expires for ever.

| TLA+ | Code |
|---|---|
| `log` | the file: its inode, its complete lines, a partial last line shorter or longer than the 64 bytes of the fingerprint, and since when it is being written |
| `cursor` | `usageCursor` in `meta`: inode, offset, fingerprint |
| `cycle` | where the cycle is: its clock, and the inode and size that `Stat` returned before `Open` |
| `usage`, `excluded`, `since`, `through` | the table and `usageExcludedBefore`, `usageObservedSince`, `usageObservedThrough` |
| `replayDue` | any of the three revisions whose change makes the ingest read the file again |
| `WriteLine`, `WritePart`, `WriteGarbage`, `Rotate`, `TruncateInPlace` | OpenCodex; `Stat` and `IngestJSONL` may have any of them between them |
| `MaintainUnnoted`, `MaintainFails`, `Abandon` | the process dies between the deletion and its note; the deletion fails; the cycle fails anywhere |
| `SetBack` | the clock jumps backward |

A line carries one call. An offset counts lines; a digest is the id of the first line or
`Torn` where a partial one is digested. The ghost `excused` says where the code's own
claims end: a clock set back, or a file replaced while the cursor had an offset and no
fingerprint (see section 7). `LogInv` is the invariant behind the two claims about reading: ids
follow each other in a file (`IdsFollow`), file numbers are not used again (`FilesFollow`),
nothing is dated after its time (`TimesFollow`), and all that lies before an offset and is kept
is counted, in whatever file the cursor was saved (`CursorHolds`).

### 2.3 The history store: cache and prices

`UsageCache` holds the rows of `usage` and of `quota_observations` with their rowids, and the
two copies with the highest rowid read, the ids marked dirty and the limit above which a copy
is dropped. `IngestJSONL`, `IngestFails`, `InsertUsage`, `InsertObservation`, `Maintain` and
`SetMeta` are the writers, each with the invalidation it makes; `Reload...` and `Refresh...`
are the two ways of reading. Rowids come back: SQLite gives the highest one plus one, so
after a deletion a new row may take the number of one that is gone. Contents and cache
references are sets of model values; the view of a row is a function of both, as the
`cacheReference` is applied while reading.

`UsagePrices` is the other half of the store: where the amount in a row comes from and what
explains it. `MCUsageCache` runs the two one at a time, as a sum.

| TLA+ | Code |
|---|---|
| `amounts`, `records`, `links` | `usage.usd`, `price_evidence`, `usage_prices` |
| `tariff`, `offered` | `tariffRevision` and `catalogPriceRevision` in `meta` |
| `revision`, `Rules`, `Repriced` | what a release is compiled with: `TariffRevision`, `price_rules.json`, `repricedModels` |
| `catalog`, `catalogRev`, `CatalogForIngest` | the catalog in memory and its revision, computed once per catalog |
| `QuoteIngest` | the order of `quoteIngest`: the tariff of the release, else a stored record, else the catalog |
| `Replays`, `Repricing`, `Batch` | which lines `IngestJSONL` reads |
| `Created`, `Filled`, `Replaced`, `KeptLinks`, `NewLinks` | `settleIngest`: the insert, the two guards of its update, its delete and its insert of a link |
| `MaintainPrices` | the last three deletions of `Maintain` on these tables |
| `Deploy` | a restart with the same or another release, forward or back |

Every call has the same tokens, so that a rate is an amount; a model has one tariff for each of
the two tiers, and `plain` says that a stored record carries no condition `quoteIngest` refuses
from a record. Dates of validity and context sizes are left out. `conditionalPriceReplay` is
written together with the first `tariffRevision` and decides nothing after it. `InsertEvidence`
and `LinkUsagePrice` have no caller in the service. The ghost `unoffered` notes a call whose
last quote did not get as far as a catalog: none was loaded, or a tariff or a record came first
(see section 7).

### 2.4 Whose reading is it

`Identity` is the one module about several components at once: `LoadLocal`, the scheduler's
rows, `bindingEpochs`, both ways of booking, publication and `retainAnalysis`, with OpenCodex's
files changing between any two of them.

| TLA+ | Code |
|---|---|
| `bound`, `cached` | the credential of an account in OpenCodex's files and its quota cache |
| `Ref`, `Key` | the account id a token carries, if any; `identityKey`: that id, else the digest of the token |
| `epochRows`, `seq` | table `identity_epochs`, `identityEpochSequence` in `meta` |
| `obs` | table `quota_observations` |
| `identities`, `base`, `good` | `rt.identities`, `rt.localObservations`, the scheduler's last good rows |
| `seen`, `held`, `fresh`, `epochs`, `tag`, `failed` | the locals of one cycle: bindings, cache projections, rows read now, the map of epochs, the epochs tagged on cached windows, `storeFailed` |
| `published[a][w]` | a window of the snapshot: its reading, its epoch, and the owners of the readings its analysis rests on |
| `bindingEpochs(a)`, `BindFails`, `BindDone` | one turn of the loop, the early return, the forgetting at its end |
| `PersistDirect`, `persistLocalObservations` | the two loops of bookings, either of which may be refused part of the way |
| `Publish`, `PublishRetained` | the end of a cycle that succeeded and of one that did not |

What is abstracted: an account that is read from the cache has one window, one that is read
directly has one per endpoint; an account is on one list only; the numbers of an observation
are left out; of the analysis only its owners are kept. Two facts come from outside: OpenCodex
replies to a quota request after the login it was made with (`young`), and a login that is
undone before any cycle sees it leaves no trace in the files (`missed`), so its readings are
not held against the code.

### 2.5 The page as a machine

`Page`, `Drawer` and `Chart` share no state in the code: an answer redraws all three, which
each models as its own redraw. `MCDashboard` runs them in one instance as a sum: `part` says
which one runs, the others stay in one state. `MCFigures` does the same with the modules of
2.6 and 2.7. A sum checks each part on its own, never a combination of them.

| TLA+ | Code |
|---|---|
| `requests`, `busy` | the fetch of `refresh` under way, and `ctx.busy` that keeps it single |
| `Ask`, `Answer`, `Succeed`, `Fail` | `refresh` up to its fetch, the reply, and its two ends (`app.ts:216-244`) |
| `shown`, `crossed`, `Render` | what the last `render` wrote, and `renderedMinute` |
| `Timer`, `Pass` | the call of `setInterval` each second; time |
| `Press`, `Show`, `Hide`, `GoOnline`, `GoOffline`, `Redraw` | the listeners |
| `started` | the script ended with its first refresh: a malformed fragment cuts it short |
| `narrow`, `told` | what the media query matches now, and what its callback last saw |
| `doc` | the drawer, the `inert` attributes, `ctx.selected`, the providers drawn, and `busy`, which disables the refresh button |
| `Tab`, `FixUp` | the reader, and the browser when it takes the focus off a hidden element |
| `RefreshStarts`, `Refreshed` | `refresh` up to its request, and from its answer or failure on (`app.ts:215-242`) |
| `DrawAgain` | the redraws that ask nothing: a new minute, the network lost, a search, a period |
| `Refocused` | `render` with the focus it saves by key, provider or disclosure and puts back |
| `Select`, `Address`, `HashChange` | navigation from inside, from outside, and the queued event |
| `Frame`, `Observer`, `Fonts` | the three callbacks that measure the strip of a chart (`views.ts:1000-1110`) |
| `active`, `tip`, `height` | the marked bar, what the strip says, the height kept for it |

The ghosts are `silent` (how long the page could ask and showed no answer) and `held` (the
reader placed the focus and nothing excused moved it). What excuses a lost focus is written
out in two places. `Excused` is what a redraw does not keep: content without a key (section 7
lists the controls among it), an order button, search box or period button that is gone,
hidden or disabled after the redraw, a page without an entry in an open drawer, a width not
reported yet, a script that was cut short. `Retired` is what the browser loses between two
redraws because the page took it from under the focus: the search box and the periods of the
page that was left, and the refresh button, which every refresh disables. `Elements` holds
every kind of control of `index.html` and of a redraw.

### 2.6 What the page writes

`Values` reads a published value as `types.ts` does: a value may be missing, of the wrong
type, or what it should be, and every figure goes through `QuotaFigure` or `InstantNote`.

* `Readings`: `freshWindow` and `measurementReason` of `quota.ts`, the windows, direct
  readings, averages, capacities and accounts of `views.ts`, and what `validateSnapshot`
  refuses. `Publish` is a new answer, `Wait` a unit of time in front of the reader.
* `Periods`: the two axes of a span (how much is on record, how much was observed), the one
  word a cell gives them, and the cost page with its note on calls without an account.
* `QuotaUsage`: the total of a period three times over: by the server
  (`calc/consumption_total.go`), as the page shows the server's, and by the page itself for a
  server without totals; and `NeededAccounts`, with the roundings of floating point as a
  number of half units in the last place that lies anywhere in its range: how many roundings a
  sum has is posited there, not derived from its operations.

A view is an operator that returns what it writes, as a record of figures and names of notes.

### 2.7 The tools

* `Flow`: the ten steps of `ui-flow.ts` as sequences of the kinds of call they make, so that a
  failure can fall on any call; `injected` is what the page is really under, `flags` what the
  script believes, `running` the server, the browser and the directories.
* `Embed`: files of `web/dist` and of `webembed/static` one by one, with a revision for a
  content. `Stop` ends a script between two files, `CutShort` in the middle of any file the
  compiler, the copies of `build-web.ts` or those of `syncEmbed` write. `Edit` changes the
  sources at any time, also under a build: each file is of a revision they had since the
  build began (`Revisions`). `StartSync` and `GoBuild` are also run by hand. One file is read at
  one revision, and one script runs at a time.
* `PortCheck`: the phases of `check-port-ui.ts`; `Take` and `GoAway` are other processes on
  its ports, and `RunAgain` the next run, which finds whatever this one left. Whoever holds a
  port may be slower than the 200 ms of the pick, and than the tries of `waitHealth`; `late`
  and `raced` note the two ways in which another server is taken for the check's own.

## 3. What is checked

`MC*.tla` give the constants that a configuration file cannot. Every bound is in the `.cfg`.

| Run | Bounds | Shows |
|---|---|---|
| `sched_flights` | two collects, one slot, two endpoints of one account (one cannot be asked), one sign-out and sign-in, one restart | single flight, no request before its deadline, failures forgotten by a success alone, a back-off that was written down survives, rows and status agree |
| `sched_slots` | two endpoints, one slot | each is read again and again |
| `sched_rotated_restart` | two credentials of one endpoint | **violated**: see section 5 |
| `log_files` | two lines, two files, one mishap of three kinds | cursor, observed interval, expired calls; implements `UsageLedger` |
| `log_liveness` | two lines, two files, one price change | every record that stays is counted |
| `log_slow_cycle` | no mishap at all, a cycle two units long | **violated**: see section 5 |
| `cache` | copies: three ids, two contents, two references, limit 1. Prices: three calls of two models, one on the fast tier; three releases, of which one knows no model, one reprices, one has no fast tariff; two catalogs, none at start; retention once | every read is current; every amount is explained, none that can be read again is left at a tariff that was replaced, a settled one changes in a repricing pass alone |
| `identity_cache` | two tokens of one account and an API key; two replacements, one restart, one refused write, retention of two units | the four invariants of the epochs, and fresh numbers |
| `identity_direct` | two endpoints, one replacement, one refused write | the analysis shown is of the identity it is shown under |
| `identity_failed_lookup` | nothing goes wrong at all | **violated**: see section 5 |
| `dashboard` | waits of one unit, a minute of two, one new snapshot, two requests if the guard let them; two providers; charts of two bars and two providers | the page stays current or says so, never goes backward, catches up; the focus is kept, but for what 2.5 lists, and reachable; the fragment names the page; the strip tells of the bar |
| `figures` | two accounts with every status, age and form of a value; spans of 4 and 1 units; every call of both checks; two revisions, one compiled module beside `contract.js`, one copied file; two ports; back-off with the code's 2, 30 and 30 minutes, counts to 12 | a window that does not count says why; a word names the shorter axis; both totals agree; the number of accounts is the least; a pass is whole, and of this build unless another server came in between or answered late; a script embeds what it found, whole when it built it; the loop of `backoff` computes the table and never a wait of twice the cap |

Why these bounds are enough to be worth having: each makes the awkward case happen. Two
collects are what a poll and a manual one would be; a slot less than the keys makes them
wait; a cap of two or three units has a doubling below and one at it. Two lines and two files
give a rotation whose new file has been read, or partly written, when the cursor is used. A
limit of one refetched id is passed by the second. Three releases are an upgrade and a rollback past
the release a row was settled by; two calls of one model on two tiers share a model and not a record. Two replacements give A, B, A; three units
of time with a retention of two remove an epoch's row and let a later one be opened. A minute
of two units tells a redraw of the timer from one of an answer; a percentage in thousandths of
a point shows each rounding of a figure with two decimals; two accounts are the fewest of
which one lacks a limit, is unread or has only a past period. The
proofs below remove the bounds altogether for what they cover.

Each property is shown to depend on the code by at least one mutant: a definition with one
mistake in it (kept beside the right one, "Mistaken: ..."), under which the run finds the
property violated. Deadlock is not checked where a behaviour ends: the bounds end those of `log_*`, and
in `figures` the route check and the loop of `backoff` return; the other instances go on for ever.

### Fairness

`Scheduler`: weak fairness of every Collect, of every reading goroutine and of time. The
ticker of `Start` calls the cycle for ever, the Go runtime runs goroutines, a request ends
within the 8 s of its context. Replacements and restarts have none.
`UsageLog`: weak fairness of the cycle, and strong fairness of `Stat` and `IngestJSONL`: a
cycle may fail at any step (`Abandon`), but not at the same step for ever; without it a
disk that always fails refutes any progress.
`Page`: weak fairness of the answers (`AbortSignal.timeout` ends a request that gets none), of
the timer and of time. Nobody has to touch the page: no listener, no reload and no server is
fair, so `EventuallyCurrent` is about a page that is left alone, visible, with a network and a
server that answers from some time on.
The other modules claim no progress.

## 4. What is proved

Eight modules of proofs, for every value of the constants that the named assumptions allow.
Every safety property of the passing runs is a theorem, the action properties included.

**`SchedulerProofs`**: the types; `SingleFlight` (a key is marked exactly while one collect
reads it); `NoEarlyRequests`; `FailuresForgotten`; `RowsMatchOutcomes`; `RestartsKeepBackoff`.
One invariant, `SchedulerInv`, carries all but the last. The deadline is looked at long before
the request, and what keeps it passed is that only the holder of the flight and a restored
outcome write it, the latter being used up first (`RestoredOnce`, `DueUntilSent`). The same
holder keeps the count it captured (`CountHeld`) and the rows it will publish (`RowsHeld`).
`RestartsKeepBackoff` is for accounts that never had a second credential: with one, it is what
`sched_rotated_restart` refutes.

**`UsageLogProofs`**: the types; `CountedAboveFloorAlways`, the refinement
`ImplementsLedgerAlways`, `ConsumedIsCountedAlways`, `ThroughIsReadAlways`. That no expired call
comes back is inductive only together with "no counted call is below the floor": with a clock
set back, `Maintain` may compute a cutoff below an earlier one. The last two rest on `LogInv`,
and on `MaxLag <= Skew`: the cycle comes to the log within the minute by which a line may lie
ahead of its clock. Without that they are false, as `log_slow_cycle` shows.

**`UsageCacheProofs`**: `CacheCoherentAlways` and `ReadsAreCurrentAlways`. The invariant
includes the types (`Typed`, which no run repeats) and needs `Taken`: the highest rowid that was
read is still taken in the table, for otherwise a new row could get a number below it and never
be read. Retention keeps it by dropping the copy.

**`UsagePricesProofs`**: `ExplainedAlways` (all of `AmountsExplained`) and `SettledOnceAlways`.
Links are kept right only because a link that stays belongs to a row that is not written; that a
row is at the tariff in use is not inductive, for a release may be replaced before it has read
the log, so `LastTariffApplied` says it of the tariff on record. It needs `RowsWereRead`: a line
that is still to be read has no row, or its amount could be an old one. That no row is left
without an amount that the catalog has needs `CatalogInv`: the revision in memory is of the
catalog in use (`RevisionIsOfCatalog`); it was computed over fewer rows than there are, yet
speaks for each row that was asked of a catalog (`RevisionCovers`); and what was offered last
has nothing for those it left (`OfferedInVain`).

**`IdentityProofs`**: the types, all invariants of `Identity`, and `NumbersAreFresh`. That a
booked reading is its credential's own is not inductive: the code compares times, so the
invariant says what times mean. `Baselines`: whatever the cache holds beyond the baseline of an
open epoch was read while that epoch was open, and with its credential unless nobody noticed the
turn. It needs `Turns` (which credential a turn stands for, and that one that was replaced since
was replaced before now), `Caches` (a reading of a later turn is later than the cycle, and so
not eligible in it), `Numbers` (numbers grow, so a row that was removed is not mistaken for a
later one), `BookedBehind` (nothing is booked beyond the baseline, hence nothing twice) and
`WithinEpoch` (retention keeps an epoch as long as its readings).

**`PageProofs`**: all safety properties of `Page`, `Drawer` and `Chart`.

* `PageInv` joins the versions of what is published, asked for, held and drawn (`VersionsRise`)
  to the one request the guard lets out (`OneAnswer`); says that what is drawn as current
  expired in the minute that runs (`DrawnThisMinute`), which the redraw of the timer and the one
  on showing the page keep between them; and measures a silence by when the next request is due
  and how long the one that is out has lasted (`SilenceMeasured`).
* `DrawerInv` says what is inert follows from what is open, exactly while the width is the one
  the callback last saw (`InertFollows`), and that a focus that was placed is within reach,
  where the two callbacks will fetch it from, or on the refresh button while a refresh disables
  it and the browser has not taken it away yet (`HeldIsReached`).
* `ChartInv`: whoever changes the width leaves a callback due that measures again
  (`Remeasured`), and once the fonts are in, the height fits every detail at the width that was
  measured (`FontsMeasured`). The reserve is a maximum over a set of bars.

**`FigureProofs`**: `ReasonExplainsAlways`, `WordMatchesSpanAlways`, `PublishedAgreesAlways`,
`NeedIsLeastAlways`, and the loop of `backoff`.

* What the page writes is computed from what is published, so the invariants of `Readings`,
  `Periods` and `QuotaUsage` follow from types that last: that a reset stays an instant while
  the reader waits (`ReadingsTyped`), that counts are not negative (`PeriodsTyped`), that
  samples are records (`UsageTyped`). Under these are case analyses of the reasons, the words
  and the figures, and sums.
* A sum is a fold over a finite set, whose definition recurs over subsets. `MinimalSubset` takes
  a least subset for which a claim would fail (the order on subsets of a finite set is
  well-founded), and so gives `SubsetInduction`, the steps of a sum and its bounds, the least
  element of a set and the mean between the lowest and the whole.
* `NeedIsLeastAlways` holds as long as the roundings of the sum stay within the tolerance of
  `NeededAccounts`, `Cardinality(Owner) + 2 <= HalfUlps`, wherever each of them falls.
* `LoopInv` gives the loop of `backoff` its five values (`Doubled`) by the counter.

**`ToolProofs`**: the three properties of the tools.

* `PortInv`: whoever answers on the port came after the pick, was late at it or is the child (`OwnAnswers`),
  without an error the page that was driven to its end is that of this build (`DrivenWhole`),
  and the child is there from the start to the release (`ChildFollows`).
* `EmbedInv`: what the compiler and the copies have left to make is on their list
  (`BuildAdvances`), every file it made is of a recent revision (`Made`), what was checked stays
  so until it is put (`SyncAdvances`), and no module that is embedded has an extensionless
  import (`StaticLoads`).
* `FlowInv`: a mark that a step makes is taken back by what the step has left, or recorded
  (`PutBackOrRecorded`), and steps end in order (`StepsInOrder`).

The assumptions are on constants only. Those named in the modules are evaluated by the runs:
that local and direct accounts are apart, that bounds and spans are numbers, that `None`,
`Nobody`, `Null` and `Junk` are none of the values, that an account id is no token, that the
lists of the build and the bars of a chart are lists, that a published window has its fields and
a sample its numbers, that counts of calls are not negative. Those of a single theorem are its
hypotheses: `MaxLag <= Skew`, one credential, finite sets of accounts (`Account`, `Owner`), the
tolerance above, and that a record is neither `Null` nor `Junk` (`Objects`), which TLA+ leaves
open and TLC's model values satisfy.

Only model-checked: the three liveness properties (`EventuallyRead`, `EventuallyCounted`,
`EventuallyCurrent`), which need fairness and ENABLED, out of reach of the prover; and the three
runs that find a violation, which are counterexamples.

## 5. Where the code and its documents disagree

1. `sched_rotated_restart`. `Restore` keeps one outcome per provider, account and endpoint,
   while the list it walks has one per credential, in the order of a Go map. After a token was
   replaced, a restart may pick the old one's outcome and send the failing credential at once
   (`scheduler.go:72-82`).
2. `log_slow_cycle`. The ingest takes its time from the start of the cycle, before all
   providers are asked; a line written more than a minute later is "future-dated", and is
   consumed without being counted (`ingest.go:118`, `runtime.go:143`).
3. `identity_failed_lookup`. A window gets its epoch only if its reading is as recent as the
   account. Of two endpoints, the one read earlier loses its epoch, and so its analysis
   (`identity.go:87`).

## 6. The plan

| Order | Modules | About | State |
|---|---|---|---|
| 1 | `Backoff`, `BackoffLoop`, `Scheduler`, proofs | direct reads | done; worth adding: an abstract `KeyDiscipline` that the scheduler implements |
| 2 | `UsageLedger`, `UsageLog`, proofs | ingest and retention | done |
| 3 | `UsageCache`, proofs | cached reads | done |
| 4 | `Identity`, proofs | epochs, bookings, kept analysis | done |
| 5 | `Page`, `Drawer`, `Chart`, proofs | the page as a machine | done |
| 6 | `Values`, `Readings`, `Periods`, `QuotaUsage`, proofs | what the page writes, the totals and the number of accounts | done |
| 7 | `Flow`, `Embed`, `PortCheck`, proofs | the checks and the embedding | done |
| 8 | `UsagePrices`, proofs | settling, repricing by revision, replay, links to evidence and their removal | done; to be added: the amounts of Claude's hour-long cache |
| 9 | `RuntimeCycle`, proofs | a snapshot and its age, `markFailure`, retention of provider and top-level analysis, maintenance due and failed, Start and Close; composes the abstract specifications of 1 to 4 and 8 | next |
| 10 | `Roster`, `PriceGaps` | what was listed, removed and returned; findings that open and recur | |
| 11 | `Consumption` | from readings to segments, periods and buckets, as recursive functions against reference definitions | |
| 12 | `Deploy`, `Backup` | releases, the link and the unit; the registry and its files, with a failure at any line | |
| 13 | `Client` | the loading flag and the settings of the menu bar application | |

Hazards that wait for these modules, beside the one of `PROJECT.json` that has no property:
what a snapshot says of its own
age when cycles stop, and analysis joined to figures collected now at three levels
(`runtime.go:229`, `:237`); a baseline published under the epoch that follows it
(`local_observations.go:65`); rows inserted out of order and never read (`ollama.go:262`); a
model that left the list of the last hundred changes (`roster.go:159`); a restart that fails
before the health check (`deploy.sh:110`); a crash between a copy and its registration
(`backup-history.py:47`).

Modules that are proved about have no RECURSIVE operator; those of step 11 are for TLC.
Theorems worth having: for 9, that what is shown as current is of this cycle; for 12, that `current`
always names a whole release.

## 7. Seen while modelling, without a run

* `Outcomes` also returns entries of replaced credentials (`scheduler.go:57` says "latest
  outcome per endpoint"); `applyRestored` does not compare the credential, so a new one
  inherits the old one's back-off (`scheduler.go:253-254`); an unusable body never makes the
  back-off grow (`operations.md:8`).
* `usageObservedSince` is written once, so that a break in observation is not recorded
  (`architecture.md:98`). The cursor may be saved with an offset and no fingerprint, when `Stat`
  saw fewer than 64 bytes and `Open` more; a file replaced in place after that is not noticed
  (`architecture.md:100`).
* In the second cycle after a replacement the baseline itself, a reading of the replaced
  credential, is published under the new epoch (`local_observations.go:65-69`, against the comment at lines 17-19).
* Readings stored without an epoch, in a cycle whose epochs could not be written, are joined by
  `windowPoints` for windows that are shown without one, whoever holds the account then
  (`architecture.md:178-183`).
* `project` compares RFC3339Nano strings, whose trailing zeros are cut, to find the latest
  time (`local.go:724-729`).
* "A later tariff cannot restate" and "already-priced base amounts stay immutable"
  (`quota-and-pricing.md:283`, `:303`) against the repricing pass (`ingest_price.go:209-212`).
* A call that is read while no catalog is loaded, as after a restart whose copy cannot be read,
  stays without an amount when the catalog already priced its model: the revision over the models
  in history is unchanged, so no replay starts (`catalog.go:179`, against the comment at `ingest.go:72-73`).
* A row whose line was rotated away, or that retention's cutoff has passed, keeps the amount of an
  earlier tariff while `tariffRevision` names the new one. A release that is rolled back to prices
  a model it has no rule for from the stored record; when there are two, or one with a condition,
  it gets no amount, and the catalog is not asked (`ingest_price.go:117-125`). A repricing whose new quote is
  unknown keeps the old amount (`ingest_price.go:203`).
* A repricing replaces the link but not the row of `claude_cache_costs`, which is inserted or ignored
  (`ingest_price.go:247-258`).
* The page, focus: a refresh drops the focus from plain content (the drawing of a chart, the
  buttons of the attention strip, names in the account table, the buttons that reset a search
  or show every account), since only controls with a key are found again (`app.ts:207`). A
  redraw, or Escape, between a change of width and its callback may lose it too.
* The page, refresh button: every refresh, the one of the ten-second timer too, disables it
  (`app.ts:219`, enabled at `:240`), so a reader who is on it loses the focus. `render` acts
  only for an element it saved by key, provider or disclosure (`app.ts:208-213`), so nothing
  puts it back. Leaving the overview hides the period buttons in the same way (`app.ts:154`).
* The page, figures: the strip says all accounts are fine while some are unknown or idle
  (`views.ts:710-720`). `recommendationOf` does not read what the title of a recommendation
  asks for (`totalConsumedPp`, `sampleAccounts`, `basisPeriod`), so that title is never shown. Spans
  in `periodState` are rounded to the nearest, where the amounts round toward "not yet". Two
  unknown axes give the state "ok". The note on calls without an account counts those of the
  first provider that has such calls (`views.ts:857`). An account whose calls are all without a price reads $0 in
  the account table. An instant that cannot be read throws in `views.ts:151` and `dom.ts:94`, against
  the comment at `views.ts:572-573`. A figure of a measurement that is undefined, not null, is
  written as an unknown figure with its unit or percent sign (`views.ts:554-562`); the models
  count both as `Null` and say nothing of a field that is absent.
* The page judges a span short by the mean of the accounts, the server by each of them, so an
  account that is short alone leaves the page's own total "measured". The tolerance of `NeededAccounts`
  (8 eps) covers the roundings of some 13 accounts.
* A malformed fragment ends the script before its first refresh; the timer makes up for it.
* `ui-flow.ts` writes its mark of an unattended refresh before the `try` that removes it
  (lines 98-101), and never takes its counter of requests off `fetch` again (lines 89-92), which
  `injected` does not count, since it passes every call on; `ui-browser.ts` leaves its server running when the directory of the profile
  cannot be made; a browser that dies leaves either check waiting.
* `check-port-ui.ts`: the expectation that an incomplete directory is refused uses a fixed port
  and passes without a word when that port is taken (lines 94-98); `waitHealth` asks the port,
  not the process; `fail` inside the `try` ends the process past its `finally` (line 134).
  `check-port.ts` carries its own copy of `neededAccounts` (lines 18-26).
* `pickPort` takes any port whose holder does not answer within 200 ms (`check-port-ui.ts:103-106`),
  so the server of another check that is slow at that moment looks like a free port: the child
  cannot listen (`ui-fixture/main.go:55-57`), `waitHealth` is answered by the other, and the
  check passes on another build. `PassIsOfThisBuild` says so by `late`.
* A build that is cut short leaves a file in `web/dist/ui` that is neither whole nor empty, and a
  sync by hand accepts and embeds it (`web-assets.ts:54-66`); so does a Go build by hand after a
  sync that was cut short, and `RequireAssets` lets it start. Sources edited between the compiler
  and the copies of `build-web.ts` are embedded in two revisions. Two scripts that build at once
  are not kept apart. `EmbedWhole` claims none of this.
* The fixtures of `ui-check.ts` (lines 106-140) still expect a recommendation with the fields of
  a headroom that `RecommendFromTotal` no longer produces.

## 8. Not modelled

Parsers, adapters, transport, contract validation, HTTP headers and origins
keep no state and follow no protocol: the repository's table tests fit them better.
Of the page, the drawing itself (axes, colours, sparklines), the wording of notes, the lists of
methods, the rankings of `quotaView` and the layout of bars are left out. `webembed/static` is
compiled from `web/src` and not modelled twice. `ui-check.ts` and `ui-fixture.ts` are
assertions and data over the session that `Flow` models.
SQLite's transactions are taken to be atomic and durable, and the file system's rename to be
atomic. The other development tools are outside of the service. `PROJECT.json` lists every
part with its reason.

## 9. Running

    tlc -workers 2 -config identity_cache.cfg MCIdentity.tla
    tlc -workers 2 -config dashboard.cfg MCDashboard.tla
    tlc -workers 2 -config figures.cfg MCFigures.tla
    tlc -workers 2 -config cache.cfg MCUsageCache.tla
    tlapm IdentityProofs.tla
    tlapm FigureProofs.tla
