# Camovar: a TLA+ verification project

Camovar (`src/src/camovar`, Python) loads end-of-day quotes of exchange traded funds from the
EODHD provider into a local lake of Parquet files, derives statistics and portfolios from them, and
offers a *hosted* mode: a FastAPI server with sessions, encrypted provider keys, per-user grants and
projects. This directory holds TLA+ models of the parts of it that are hard to test, TLC
configurations that check them on small instances, and TLAPS proofs of what matters most for every
instance.

Run from this directory:

    tlc -workers 2 -config QuoteLake_own.cfg MCQuoteLake     # one run, see "Runs"
    tlapm QuoteLakeProofs.tla                                # one proof module, see "Proofs"

`PROJECT.json` lists the components, the runs, the mutants that show each property can fail, the
lines every definition stands for, the findings, the hazards and the theorems.

## 1. Inventory

### 1.1 Lake and workflows

| component | state it keeps | operations | interacts with |
|---|---|---|---|
| Bronze ingestion (`bronze.py`) | one Parquet file per dataset, exchange, ISIN and year; error rows; gap and coverage manifests | plan from gaps, load with a thread pool, merge and rewrite a file, report | provider, Silver (planning), table files |
| Silver (`silver.py`) | one Parquet file per exchange and ISIN | rebuild from all of Bronze, read all | Bronze, table files |
| Fetch-all-quotes workflow (`workflows.py`) | the module lock, the selection pointer | plan, quotes, companion datasets, Silver, manifests in this order | all of the above |
| Table files, paths (`table_io.py`, `paths.py`) | files | `write_rows` truncates in place, `read_rows` raises on a broken file | every stage |
| Run locks (`run_locks.py`) | a lock file per module | take or refuse; released with the process | the workflows of one module; two modules exclude nothing |
| HTTP client (`http.py`) | the time of the last request | pacing, `Retry-After`, retries | worker threads share it |
| Selections and filters (`metadata_filter.py`, `selection_filters.py`, `univariate_filter.py`) | rows, manifest and pointer of a selection | publish in three writes, read | workflows, statistics |
| Search and instrument list (`search.py`, `fetch_all_isins.py`) | the instrument list | fetch every exchange, rewrite the list | provider, metadata filter |
| Statistics (`univariate_statistics.py`, `bivariate_statistics.py`, `multivariate_statistics.py`, `gold*.py`) | results and their manifests | incremental update, cache reuse | Silver |

Hard here: a pool of threads that reads, merges and rewrites files which several plan rows may
share; requests that fail while others succeed; a process that dies between any two writes, with
in-place writes and no journal; plans made from Silver, which lags behind Bronze; a provider that
publishes late and days that pass while runs repeat. What makes it correct: no row is invented, none
is lost, a clean run closes the gaps it saw, what failed is asked for again, and runs go on for ever unless a death has torn a file.

### 1.2 Hosted mode

| component | state it keeps | operations | interacts with |
|---|---|---|---|
| Hosted API (`hosted_api.py`) | dictionaries of projects, selections, analyses, downloads, idempotency references | create, list, select, load, analyse, delete a project or an account | vault, entitlements, the fetch-all-quotes workflow |
| Entitlements (`entitlements.py`, `user_ingestion.py`, `scoped_inputs.py`) | grants and snapshots per user, current pointers, deleted users | publish a snapshot, read grants, resolve a snapshot, delete a user | API, ingestion |
| Credential vault (`hosted_credentials.py`) | one encrypted record per user; the key-encryption key (KEK) and its version | set, revoke, delete, unwrap, rotate | API, ingestion |
| Authentication (`hosted_auth.py`) | login states, sessions | begin, callback, rotate, log out | API |
| Shared observations (`shared_observations.py`) | segments, manifest, catalog | append, catalog | ingestion |
| Artifact cache (`artifact_cache.py`) | files, grants | publish, reuse | analyses |
| Catalog, readiness, cutover (`hosted_catalog.py`, `hosted_readiness.py`, `hosted_cutover.py`) | SQL, check results | migrate, gate | deployment |

Hard here: FastAPI runs the handlers on a thread pool and none of the stores has a lock, so any two
dictionary accesses of two requests may interleave; deletions assign filtered *copies* of
dictionaries; a handler keeps references into structures another handler has removed; one user's
operation changes state all users need (the KEK). What makes it correct: no user ever gets at
another's rows, grants or key; deletions are complete; snapshots are exact and immutable; what is
granted was returned by the provider. The code meets some of this only while a user's requests do not
race; the properties say where.

### 1.3 Decisions

| component | state it keeps | operations | interacts with |
|---|---|---|---|
| Portfolio construction (`portfolio.py`, `portfolio_parts/`) | none between calls | grid search, solvers, fallback, clustering, diagnostics | return matrix, covariances |
| Evaluation (`evaluation.py`) | the walk along the dates | walk-forward splits, rebalancing, drawdowns | portfolios |
| Profiles, recommendation, scorecard (`profiles.py`, `recommendation.py`, `scorecard.py`) | none | combine, gate, rank | portfolios, evaluation |
| Development watcher (`compose_web_watch.py`) | the snapshot of file times it saw last | poll, rebuild | Docker |

Hard here: boundaries (a threshold met exactly, a window that ends on the last date, equal distances),
limits that replace a result by a fallback, and places that must tell the same about one result
although each works it out anew. What makes it correct: nothing is decided with data of later dates,
weights are whole and within bounds, and a result that is not what was asked for says so.

Costs, tax and cash-flow modules are frozen value contracts; the Node front end, the CLI and logging
hand over to the parts above. `PROJECT.json` lists all of them with their status.

## 2. Modules

| module | models | refines / extends / composed in |
|---|---|---|
| `QuoteLake` | bronze, silver, the workflow, table files, lock | implements `QuoteArchive` |
| `QuoteArchive` | what the lake promises its readers | |
| `TableFiles` | the outcomes of reading a file that is rewritten in place | extended by the three below |
| `Selections` | instrument list, the two filters, how commands find a selection | `MCStatisticsCaches` |
| `StatisticsCaches` (with `QuoteReturns`) | univariate and bivariate Gold files, the three commands that write them | `MCStatisticsCaches` |
| `AnalysisRuns` | Gold inputs, portfolios and manifests of the multivariate command | |
| `UserEntitlements` | grants, snapshots, current pointers, deletion, reads | `MCAccounts` |
| `ServerThreads` | the handlers of the server | extended by the hosted modules |
| `CredentialVault` | set, revoke, delete, unwrap, rotate | `MCHosted` |
| `HostedProjects` | projects, selections, analyses, loads, downloads, credentials, deletions of the API | |
| `LoginSessions` | OIDC login states, sessions, rotation, log-out | `MCAccounts` |
| `SharedArtifacts` | artifact cache, references, analysis runs | `MCHosted` |
| `SharedObservations` | segments, manifests, catalog | `MCHosted` |
| `HttpClient`, `WebWatch` | pace and retries; the rebuild loop | `MCDecisions` |
| `RiskParityTree`, `PortfolioWeights` | clustering and recursive bisection; grid, solvers, fallback, reports, the balanced profile | `MCDecisions` |
| `WalkForward`, `Rebalancing` | splits of a walk-forward run; simulation and drawdowns | `MCDecisions` |
| `Recommendation` | ranking of candidates, slots of a report, orders | `MCDecisions` |
| `ReturnMatrix` | the rows a date has, one per listing, several of one ISIN | extended by the three above |
| `MC...` | the constants of the runs | extends the modules it composes |
| `...Proofs` | theorems | extend their modules and TLAPS; `AccountProofs` is about the vault and sessions, `HostedDataProofs` about artifacts and observations, `CommandProofs` about selections and caches, `DecisionsProofs` about four of the algorithms of §2.11 |

The parts that `MCStatisticsCaches`, `MCAccounts`, `MCHosted` and `MCDecisions` put side by side share no
state in the program as modelled. Such a run has a variable `part` that no step changes, and a behaviour is one of
the part it starts with: the run explores the union of the parts' state spaces, not their product.

### 2.1 QuoteLake

A row is `<<listing, day>>`; prices are abstracted, since no property tells two values of one row
apart. A Bronze file is `<<path id, year>>`. `FileOf[l]` is the (exchange, ISIN) part of a path: the
code of a listing is *not* in it (`paths.py:85-92`), so two listings of one ISIN can share a file.

- `StartRun` takes the lock, resolves the end date (`workflows.py:166`), and plans: `Known`,
  `Missing`, `Planned` and `Window` are `_quote_dates_for_listing`, `build_quote_gap_rows` and
  `build_gap_bronze_plan`. The plan is made from Silver alone.
- A worker of the executor runs `load_one`: `LoaderReturns`/`LoaderFails` (the request),
  `ReadFile`/`ReadFails`, `OpenFile` (the file is truncated), `CloseFile` (it has its new content), and
  the next year. `CloseClashedFile` is what two threads writing one file can leave: an unreadable file.
  An exception becomes an error row and drops the years not yet written.
- `NextDataset` goes on to dividends and splits with the plan of the quotes. `BuildSilver` reads all
  of Bronze before `WriteSilver` merges it file by file; `FinishRun` writes the gap report for the
  plan's listings. `Abort` is an unreadable file raising out of the workflow.
- `Crash` is the death of the process: files being written stay torn, the lock is released.
- `NextDay` and `Release` are the world: the date, and rows the provider has out, late or on time.

`need`, `owed`, `met` (the files two workers had at once) and, in the other modules, `returned`, `shown`,
`raced`, `entered`, `wish`, `overlap`, `doubled`, `crossed`, `mixed`, `asked`, `since`, `dirty` and `strayed`
are history variables: no guard reads them. Where a property has a premise about races or arguments, one
of them records whether it holds of the behaviour so far, so that runs and theorems need no assumption.

### 2.2 UserEntitlements

A user's grants are a dictionary *object*: `slot[u]` is what the store refers to, `held[c]` what a
handler got from `setdefault` and goes on filling, even after a deletion took it out of the store. Each
action is one access of `publish_user_data_snapshot`, `delete_user_entitlements`,
`visible_observation_ids` or `resolve_user_snapshot`. A snapshot is named by its ids, as its hash is.
`Fetch` is `run_user_key_backed_ingestion` up to the publication: partial, failed and empty answers
raise before it. Look-up and storing of a snapshot record are two steps: `raced` records the users two of
whose requests were between them at once.

### 2.3 CredentialVault

A ciphertext is the key it decrypts to under its KEK version and user. Each operation reads the
record, computes, and writes a whole record back; `Rotate` is `rotate_key`, which unwraps, reads the
record again, replaces the vault's KEK and stores under the old id. An unwrap under the same version and
another key fails like one under another version.

### 2.4 HostedProjects

Each access to `projects_by_id`, `selections_by_id`, `analyses_by_id`, `downloads_by_id` and
`idempotency_refs` is a step. An insert goes into the dictionary in place. A deletion is `Copy` (the
comprehension) and `Put...` (the assignment) for each table: an insert between them is lost, a
removal undone; an insert during the iteration may raise (`CopyRaises`), which ends the request with
the later tables untouched. `view` says what became of the dictionary a handler iterates over. The
vault is the set of users with an active credential, the workflow an answer with the quotes of some of the
members; `POST /downloads/run` grants ids made of the symbols asked for. A selection filter may raise between
the insertion of a selection and of its reference (`hosted_api.py:533`).

### 2.5 Selections

`fetch-all-isins` collects the listings of each exchange (or skips one that fails, as long as one
answers) and rewrites the list in place. A filter is a constant set of listings it matches (its
expression is data); a filter run reads, writes rows (`WriteSelected`), manifest (`WriteManifest`) and
pointer (`WritePointer`), and `FilterStops` is its death at any of these points. A reader is a
workflow that resolves a selection (`Resolve`: by the pointer, or, for fetch-all-quotes, by the newest
manifest) and later takes its rows (`TakeSelection`). `found` records every result a filter ever had.

### 2.6 StatisticsCaches

A statistic is named by the data it was computed from: a univariate row by its listing and days, a pair
row by its common return days. `CachedRow` and `CacheRowMatches` are the identity tests of
`univariate_statistics.py` and `bivariate_statistics.py`. `write_bivariate_statistics` keeps, computes and
drops rows bucket by bucket and rewrites changed buckets one after the other (`WriteBucket`). Three
commands under three locks write the same files: `alone[c]` records that no command that writes the same
files worked while `c` did, and the exactness properties are claimed for those. `Backfills` lets Silver gain a day before
one it has; the caches' identity does not see it (§5).

### 2.7 AnalysisRuns

Data is named by the date the quotes it was computed from reached. A run in one of four modes brings the
inputs up to date (`Inputs`: returns, one covariance file per listing, `gold_runs`), then writes the
matrix, the portfolios, and, as the mode wants, profiles, recommendation, hand-off and the cache manifest
(`Analysis`). `Crash` and `CrashWriting` end a run between two writes or within one. A listing's date may lag
behind another's. `asked` records what runs were started from: `Steady` says that `gold_runs`, which knows
the newest date and the number of listings, can tell these runs apart, `Apart` that selections were given
evaluations of their own. Returns are claimed exact without either.

### 2.8 LoginSessions

Tokens and codes are names, since they cannot be guessed. A code is the claims of the ID token it is
exchanged for. `ReceiveCallback` checks the login state, `Consume` marks it in a second step,
`CompleteCallback` creates the session; `BeginRotate` revokes and `FinishRotate` creates, as
`rotate_session` does. Two handler threads interleave at these steps. `doubled` and `crossed` record
the two races the code has, and the properties are exact up to them.

### 2.9 SharedArtifacts and SharedObservations

An id is the value it is hashed from. Keys come from callers, who may name an artifact and pass another
where the code does not compare them (`artifact_cache.py:376-403`); `mixed` records the ids this was done
with. Snapshots of two users with the same rows may have the same hash, as in the tests, so artifacts are
shared between users. Calls of the
artifact cache follow one another; `held` inputs may be used long after they were read, by a user deleted
since. In `SharedObservations` each publisher writes a temporary file, renames it, writes the manifest in
place and enters both in the catalog, whose check and insertion are two steps; `Restart` is the death of the
process, which loses the catalog and leaves the files. The Parquet round trip gives rows of
different keys back changed (`Stored`), which the hash notices only when they are read.

### 2.10 HttpClient and WebWatch

`gap` is the time since the last request, saturated at the interval; `holder` is the thread that sleeps
inside the pace lock. `Fail` is an outcome that is retried (with or without `Retry-After`), `Refuse` one
that is not. The watcher's `content` is the version of the files, whose digest alone it
compares: files may change back. The watcher and Docker read them file by file, so what they read while a file
changes may be any version; a file gone between listing and reading raises and ends the watcher (`PollRaises`).
`image` is the version of the last build.

### 2.11 RiskParityTree, PortfolioWeights, WalkForward, Rebalancing, Recommendation

Sequential algorithms with exact arithmetic: distances, variances and returns are integers, weights
numbers of `Units`. Amounts of a simulation are in a unit of which `Capital` is so many (`Grain`) that no
day of it divides with a remainder: a choice of the unit, which the code does not need, having floats.
`Compounded` and the product of denominators are recursive functions, sums the library's folds. What
single linkage puts together is said without paths: a merge at a height may not split a set of listings
that holds all listings that near to its members (`Closed`). Every combination of the inputs is an initial step. A solver is any answer that its checks
accept, converged or not, because its iterations are floating point; the grid search is computed.
`PortfolioWeights` keeps the request, what the solvers gave, what was delivered and what was reported
(with solver and convergence status), so that its properties relate what two functions work out separately.
`ReturnMatrix` gives a date a row per listing: `build_rebalance_events` takes the last row of an ISIN, while
`build_portfolio_returns` counts the weight once per row. The schedule "threshold" without a `drift_threshold`
is left out.

`Recommendation` has three functions that hand on what they found: `Compare` is
`build_model_comparison_scorecard` (a split is a Sharpe ratio and a growth factor; candidates share the
windows), `Recommend` is `build_candidate_report` for each candidate and `build_recommendation_report`, and
`Approve` is the hand-off with `prepare_flatex_orders`. In the program as it runs only the growth profile is
scored, and a profile candidate has no `production_eligible` key, so that field of its report is always
false; neither is used by a slot.

## 3. Runs

| run | instance | shows |
|---|---|---|
| `lake_own` | 2 listings with a file each, 3 days in 2 years, 2 workers, dividends for one row, failing requests, no death | `CleanRunClosesGaps`, `FailedQuotesAreResumed`, `ReportIsExact`; Silver implements `QuoteArchive` |
| `lake_shared` | 2 codes of one ISIN in one file, 2 workers, a holiday, 1 process death, gap-aware, back-dated and quotes-only runs | `TypeOK`; `Provenance` through clashes, torn files and aborts; `BronzeKeepsRows`: a file loses rows only to two workers that had it at once or to a torn rewrite |
| `lake_live` | 2 listings, quotes of one on 3 days in 2 years, 1 worker, daily runs, 1 process death, fairness | `SilverFromBronze`; `QuotesArrive`, `RunsKeepFinishing` as long as the death tore no file |
| `accounts` | logins: 2 handler threads, 2 login states, 3 tokens, 2 subjects, a clock of 1; entitlements: 2 users with one tab each, or 1 user with two, 2 observations, downloads, deletions and reads | `LoginsAreSound`, `StateUsedOnce`, `LogoutIsFinal`, the last two up to the recorded races; `HoldingsAreOwn`, `SnapshotsImmutable` up to the recorded race, `SnapshotsFollowGrants` of a user with one tab |
| `hosted` | vault: 2 users, one operation each at a time, 2 KEKs; artifacts: 2 users, 2 rows, 1 project, 3 artifacts, mixed-up inputs; observations: 2 publishers, 2 shelves, 2 overlapping batches, one of rows with different keys, 1 restart | `KeysAreOwn`, `StoreFollowsUser`; `ReferencesAreAuthorized`, `RunsArePinned`; `StoreIsSound` |
| `projects` | 2 users' threads, all requests, one idempotency key, 4 requests | `RowsStayWithOwner`; `NoOrphans` and `DeletionsAreExact` when deletions run alone |
| `account_leftovers` | the same | finding: `CredentialGoesWithAccount` fails |
| `statistics` | caches: 3 listings (one new) in 2 buckets, 2 selections, 3 days, 3 commands, 1 death; selections: 2 exchanges, 3 filters, 4 commands, 1 stop | `CachesAreExact`, `DeliveriesAreExact`; `SelectionsAreWhole`, `PointersAreCurrent` |
| `analyses` | 2 listings that may lag, 3 selections, two of one size, two with one evaluation, 3 runs in 4 modes, 1 death | `InputsAreExact`, `ResultsAreWhole` |
| `analysis_lagging` | 2 listings, one of which lags, 2 runs, no death | finding: `CovariancesFollow` fails |
| `decisions` | HTTP: 2 threads, 2 retries, `Retry-After` 0 or 3; watcher: 3 versions, 3 edits; tree: 4 listings; weights: 4 listings of 3 ISINs in 6 units, a limit of 10 candidates; walk: 5 dates, rebalancing: 3 days, both of 2 ISINs in 2 or 3 rows; recommendation: 3 candidates, up to 4 windows | see below |
| `weights_reported` | the same | finding: `OnlySolversConverge` fails |

Each property is stated beside its module's specification. Most are conjunctions of parts that a reader meets
under names of their own there:

| property | parts |
|---|---|
| `KeysAreOwn` (`CredentialVault`) | `VaultTypeOK`, `OwnKeyOnly` |
| `HoldingsAreOwn`, `SnapshotsFollowGrants` (`UserEntitlements`) | `EntitlementTypeOK`, `OwnDataOnly`; `CurrentIsExact`, `LineageGrows`, `DeletionRemoves`, of users with one tab |
| `DeletionsAreExact` (`HostedProjects`) | `AccountIsEmptied` (of projects, selections, analyses and grants), `OnlyOwnerRemoves` |
| `LoginsAreSound` (`LoginSessions`) | `TypeOK`, `SessionsFollowLogins` |
| `CachesAreExact`, `DeliveriesAreExact` (`StatisticsCaches`) | `TypeOK`, `UnivariateIsExact`, `BucketsAreExact`; `DeliveredIsComplete`, `DeliveredAgrees` |
| `SelectionsAreWhole`, `PointersAreCurrent` (`Selections`) | `SelectionsTypeOK`, `ReadersSeeResults`, `SelectedByMetadataFirst`; `PointersResolve`, `CurrentIsNewest` |
| `ReferencesAreAuthorized`, `RunsArePinned` (`SharedArtifacts`) | `CacheTypeOK`, `ClosureAuthorized`, `NoForeignRows`; `RunsAreOwn`, `RunsStayReachable` |
| `StoreIsSound` (`SharedObservations`) | `SegmentsReadBack`, `CatalogIsExact` |
| `InputsAreExact`, `ResultsAreWhole` (`AnalysisRuns`) | the returns, and `CovariancesFollow` if `Steady`; `TypeOK`, `ArtifactsAgree`, `ReusedIsWhole` if `Apart` |

And those of `decisions`:

| property | parts |
|---|---|
| `CallsAreServed` (`HttpClient`) | `HttpTypeOK`, `RequestsArePaced`, `RetriesAreMade`, `CallsEnd` (liveness) |
| `EditsAreBuilt` (`WebWatch`) | liveness: a version that stays is built, unless its build fails, the watcher was ended by an exception, or the files went back to the version it knew while a build read others |
| `TreeIsSound` (`RiskParityTree`) | `TreeTypeOK`, `MergesAreLinked` (the clusters of single linkage, whatever the ties), `OrderKeepsClusters`, `WeightsAreWhole` |
| `WeightsAreRight`, `ReportsAreTrue` (`PortfolioWeights`) | `WeightsTypeOK`, `WeightsAreSound`, `TargetIsMet`, `MajorityIsKept`; `FallbackIsLabelled`, `DeliveredAreEligible`, `EligibleAreSound`, `ConvergenceIsTrue`, `ProfilesFailClosed` |
| `SplitsAreSound` (`WalkForward`) | `WalkTypeOK`, `NoLookAhead`, `TestsTile`, `WindowsCompound`, `EligibleRunsAreLong` |
| `SimulationIsSound` (`Rebalancing`) | `RebalancingTypeOK`, `ValueIsHeld`, `SimulationsAgree` (for distinct ISINs), `OncePerPeriod`, `DriftIsBounded`, `DrawdownsFollowThePath` |
| `ComparisonsAreFair`, `RecommendationsAreSound` (`Recommendation`) | `RanksAreDense`, `HalvesDecide`, `OneSplitDecidesNothing`, `DrawdownIsTheWorst`; `SlotsNameTheBest`, `OrdersAreFunded` |

Every property of a passing run has a mutant in `PROJECT.json`: a variant of one mapped definition,
beside it in the module, under which the run fails.

**Bounds.** `MaxDay` 2 or 3 is enough for a first known date, a gap after it and a later day, which is
all the planning distinguishes; with `YearEvens` day 1 has a year of its own, so one plan row spans two
files. Two workers are needed for every interleaving of a pair of threads; the proofs cover more. One
crash tears files in one run and lets the next meet them. Two listings decide whether a file is shared.
A second day of one file lets a merge meet a row that Silver has. Two observations suffice for snapshots
that grow, and two tabs of one user for the races of its requests. `MaxRequests` 4 in `projects` lets one user create,
load or analyse and delete while the other inserts. In `accounts` a third token lets a rotated session
meet a second login, and times of 1 let each of state, code and session expire while another is alive.
In `statistics` three listings give pairs within and across the two buckets, the smaller selection
makes rows that must go, the new listing has no return at first; `MaxRuns` 3 lets a cache be filled,
made stale and used, or two rivals meet a third command. `MaxSecond` 1 gives filters of the same and of
different seconds. In `analyses` the third run reuses or repairs what two ran or died over; two selections of
one size and a shared evaluation are what the code cannot tell apart, a third differs in both. In `decisions` four listings give every tree shape and
ties of three distances; six units and a limit of ten candidates put requests on both sides of the limit;
five dates give two windows, overlapping ones and a rest; gaps of 0, 1 and 12 months meet each period's
end, and factors 1 to 3 bring the drift to the threshold exactly; a second row of an ISIN is enough for two
simulations to count it differently. Walks of one to four windows have odd and even medians, ties and one
window that outdoes all others; three candidates leave one between the best and an excluded one.

**Deadlock.** Runs that say `CHECK_DEADLOCK FALSE` stop where a bound does: the clock, the tokens and
deletions in `accounts`, inputs and artifacts in `hosted`, `MaxRequests` in `projects` and
`account_leftovers`, `MaxRuns` and `MaxCommands` in `statistics`, `MaxRuns` in `analyses` and
`analysis_lagging`; in `decisions` and `weights_reported` calls, edits and dates run out and the algorithms
end; and in `lake_live` (and `QuoteLake_stuck.cfg`) the torn file of the last death may leave no step.
`lake_own` and `lake_shared` look for deadlocks.

**Symmetry.** The handlers of logins, and observations (`accounts`), users with their handlers, and rows,
keys, ids and publishers (`hosted`), whole pairs of user and thread (`projects`, `account_leftovers`), none
of which a definition names. No run with a symmetry checks liveness.

**Fairness.** `QuoteLake!FairSpec` (`lake_live`): weak fairness of starting a run, as cron starts one each
day; weak fairness of the run's steps, as the executor's threads go on and nothing waits for another
process; strong fairness of a loader answering: a listing that is asked for again and again is answered
in the end, which is what the retries of `http.py` are for, though requests may fail any number of times
before. Nothing is assumed of the provider's releases or of days passing. `HttpFairness` (`decisions`): time passes while somebody waits for it, and each thread
is scheduled while it can go on; a request ends because `urlopen` has a timeout. The outcome of a request
is not assumed. `WatchFairness`: unless an exception
ended it, the watcher's loop goes on and a build ends; edits need not stop, nor builds succeed.

## 4. Proofs

All theorems hold for every value of the constants under the `ASSUME` of their module (types of the
constants, and that `None` is none of the values).

| theorem | argument |
|---|---|
| `QuoteLakeProofs!TypeCorrect` | `IInv` = `TypeOK` and `WorkerHolds` (a worker past reading has a file, and rows of it) |
| `QuoteLakeProofs!ProvenanceCorrect` | `Provenance` with `IInv` is inductive: buffers hold Bronze rows, pending rows are served ones |
| `QuoteLakeProofs!ArchiveRefinement` | for `MaxCrashes = 0`: each step maps to `Release`, `Accumulate` or a stutter of `QuoteArchive`; a crash may tear a Silver file and drop its rows until the next rebuild |
| `QuoteLakeProofs!BronzeKeepsRowsCorrect` | no assumption: what a worker read of a file not in `met` is still what the file holds when it writes, since nobody else had it (`Kept`) |
| `QuoteLakeProofs!SilverFromBronzeCorrect`, `CleanRunClosesGapsCorrect` | under `OneWriter`: no two workers can hold one file, because listings have files of their own or there is one worker. The key is `WorkerAlone`: what a worker read is still what its file holds when it writes. `QuoteLake_overlap.cfg` shows that the assumption is needed. For the second the invariant follows each needed row from the window through queue, pending, Bronze and the Silver list, or finds an error row; both hold through any deaths |
| `QuoteLakeProofs!ReportIsExactCorrect` | under `OneWriter`, for `MaxCrashes = 0`. What Silver is about to have is what Bronze has of the selected listings; a listing outside the plan had no gap when the run was planned and gains none, since Silver never loses a row. Without deaths the year files of a listing are complete up to a failure, so a failure leaves no hole before the first known date; a death between two year files can leave one that later plans do not see |
| `QuoteLakeProofs!FailedQuotesAreResumedCorrect` | moreover `CronRuns` (the requests cron makes look for gaps, over all of the history) and `QuotedOnTradingDays`: what is owed is in Bronze, in a worker's hands, in the queue, or a gap that the next plan will find, because Silver has no row Bronze lacks and the window reaches back to the owed day |
| `UserEntitlementsProofs!HoldingsAreOwnCorrect` | `OneOwner`: a dictionary object is referred to on behalf of one user only, by the store or by handlers; `HandsOwn`: what a handler has in hand was returned to its user. Neither needs any order of the handlers |
| `UserEntitlementsProofs!SnapshotsFollowGrantsCorrect` | of each user with one tab (a premise of the property): the user's requests follow one another, those of others interleave freely. `Progress`: what a request has listed, found or stored is still what the store holds, because nobody else touches its user's entries (`OthersUntouched`); between requests the user is `Settled` |
| `UserEntitlementsProofs!SnapshotsImmutableCorrect` | no assumption: a request that found no record and stores one finds one there only if another stored it since, which `raced` recorded |
| `AccountProofs!KeysAreOwnCorrect` | what a handler holds at each label, and that records it has seen are its user's |
| `AccountProofs!StoreFollowsUserCorrect` | under `OneServer`: one handler serves a user at a time. `SeenIsCurrent`: the record an operation has seen is still the stored one when it replaces or marks it |
| `HostedProjectsProofs!TypeCorrect`, `RowsStayWithOwnerCorrect` | `Knows`: the label a request has reached says which checks it passed; `Carries`: copies that are still to be assigned hold well-owned rows, and a found selection is the user's |
| `HostedProjectsProofs!NoOrphansCorrect`, `DeletionsAreExactCorrect` | a deletion that has run alone so far has the tables to itself: the copies it made are the tables without its victims, and a row without its project is one of these victims. From the first step of another request on nothing is claimed of it, as `overlap` records |
| `AccountProofs!LoginsCorrect` | what a callback has in hand at each label: after the exchange its code is valid and of its own login state |
| `AccountProofs!StatesAreUsedOnce` | `OneCall`: a state that was not doubled has one callback, whose work past the check has marked the state, and none once a session was made |
| `AccountProofs!LogoutsAreFinal` | `OneBranch`: of a login nobody else was inside of, one session is accepted or one handler is about to replace it, and neither after a log-out; `OneCall` keeps a second callback from starting another branch |
| `HostedDataProofs!ReferencesCorrect`, `RunsCorrect` | a key that is not `mixed` names the inputs the artifact was made from, so a second creation under it by another user adds nothing (`KeysTellDeps`); a user's references are closed under what such artifacts were made of (`RefsClosed`) |
| `HostedDataProofs!StoreCorrect`, `SegmentsNeverChange` | each gap is accounted for: a manifest that is not whole has a writer, or a dead process left it (`WholeOrWritten`); rows that are catalogued and not yet objects have a publisher about to add them (`CatalogFilled`). Holds however often a hash changes hands between publishers |
| `CommandProofs!SelectionsAreWholeCorrect`, `PointersAreCurrentCorrect` | what holds of rows, manifest and pointer is said by how far the filter that writes them has come; stamps rise with the clock, so the newest manifest is that of the last filter. A stopped filter leaves the three in one of the states it went through |
| `CommandProofs!CachesAreExactCorrect` | `CachesInv`: rows are of days that Silver has, a cached row counts its days, and of two nested sets of days that are equally many one is the other. A bucket is exact once an unrivalled command has come past it |
| `CommandProofs!DeliveriesAreExactCorrect` | assumes that `FileOf` is injective: with a file of two codes a rival may rewrite one between a command's two reads of it |
| `AnalysisRunsProofs!InputsAreExactCorrect` | no assumption: returns and covariances only get newer and are never newer than the quotes; what `gold_runs` says of a listing's returns is in their file, or newer data is. Of covariances it is so while the runs so far were `Steady`, the premise the property has for them; `analysis_lagging` shows that it is needed |
| `AnalysisRunsProofs!ResultsAreWholeCorrect` | no assumption: the matrix is of the run's snapshot, a portfolio of the matrix, and of the covariances as exact as they are, as far as the run has come; a finished analysis stays of one piece until a run begins to rewrite it, unless a run of another selection wrote to its evaluation, which the premise `Apart` of `ReusedIsWhole` excepts |
| `DecisionsProofs!WeightsAreRightCorrect`, `ReportsAreTrueCorrect` | scores are in a strict weak order and ties are broken by a total one, so a finite grid has a best weighting. `WeightsInv`: delivered weights are what the request, the grid and the recorded outcome of the solver give; a report works out the same again, except for weights from elsewhere, of which `ConvergenceIsTrue` and `EligibleAreSound` claim no solver |
| `DecisionsProofs!SplitsAreSoundCorrect` | `WindowsCut`: window `k` starts where window `k - 1` ended; compounding over dates and then over later ones is compounding over their union |
| `DecisionsProofs!TreeIsSoundCorrect` | the table's minimum is the distance of the closest listings of two clusters, so heights never fall and no closed set is split; each cluster is contiguous in every cluster it is part of. `AreWhole`: over any common denominator, the weights of the listings that stand for the clusters still on the stack sum to it |
| `DecisionsProofs!SimulationIsSoundCorrect` | amounts are multiples of the grain of the days left, so every division is exact and a rebalanced portfolio has no drift; rows are counted by ISIN, and with one row each the last is the only one; periods rise with months, so one that is not the last is new; the peak was reached `duration` dates ago, and not since |

Where a claim is about a sum, a fold or a recursive function, its induction is written out over the set of
the numbers, or of the subsets of a finite set, that it holds for: such a set, with a least element outside it
ruled out, is all of them. The sums in `DecisionsProofs` (`SumAdded`, `SumMonotone`, ...) are lemmas on
the community modules' folds.

Only model-checked: liveness (`QuotesArrive`, `RunsKeepFinishing`, `CallsAreServed` with the safety parts it
has, `EditsAreBuilt`), as fairness and `ENABLED` are outside the prover's reach; and `ComparisonsAreFair` and
`RecommendationsAreSound`, which are not proved yet. All other properties of passing runs have a theorem.
Assumptions beyond the modules' own are named in the table; where the code does not guarantee one, §5 says
what happens without it.

## 5. Findings

Three runs of `PROJECT.json` end with a counterexample to what a document of the repository says:

- `analysis_lagging`: a run takes the newest date among all listings as the date of its inputs
  (`gold.py:368`). If the quotes of a listing lag behind and arrive later, that date does not move: the listing
  itself is computed again, the covariance files of the other listings, complete by `gold_runs`, are kept
  (`:378-382`, `:413-431`), and the matrix is made of covariances of two dates. CONTRACTS.md:85 says any
  listing date counts.
- `account_leftovers`: deleting an account leaves the stored provider key (`hosted_api.py:779-801`);
  docs/hosted_security_architecture.md:257 says it removes credentials.
- `weights_reported`: valid weights that are not the solver's are reported as feasible, converged and, in
  production, eligible (`portfolio.py:451-458`), though not under the solver's name; CONTRACTS.md:170 says
  they are never misreported as a converged solver result.

Six configurations stand beside the runs. Each checks one property that the code does not meet, and TLC
ends with a counterexample:

| configuration | module | what it shows |
|---|---|---|
| `QuoteLake_overlap.cfg` | `MCQuoteLake` | `MergesAreSafe` fails: two workers read, merge and rewrite the file of two codes of one ISIN and lose each other's rows (`bronze.py:446`; README.md:466 "Bronze is safe for unattended cron execution") |
| `QuoteLake_companions.cfg` | `MCQuoteLake` | `FailedCompanionsAreResumed` fails: a failed dividend request is not repeated once quotes are complete (`workflows.py:188`; README.md:466 "resume safely after partial failures") |
| `QuoteLake_stuck.cfg` | `MCQuoteLake` | `RunsSurviveDeaths` fails: a death while a file is rewritten in place stops all later runs (`table_io.py:55`) |
| `Accounts_deletion.cfg` | `MCAccounts` | `DeletionRemovesGrants` fails with two tabs: a download in progress brings grants back (`entitlements.py:90`; docs/hosted_security_architecture.md:168) |
| `Hosted_rotation.cfg` | `MCHosted` | `ActiveCanBeUnwrapped` fails: rotating one user's key makes every other user's unreadable (`hosted_credentials.py:224`; docs/hosted_security_architecture.md:131) |
| `HostedProjects_partial.cfg` | `MCHostedProjects` | `GrantsWereReturned` fails: a load grants members whose quotes failed (`hosted_api.py:628`; docs/hosted_security_architecture.md:163) |

Seen while modelling, without a configuration:

- Hosted stores. `CurrentIsExact` fails with two tabs of one user, and a record is replaced in the race that
  `SnapshotsImmutable` excepts; a rotation that races a deletion stores the key as active again; account
  deletion leaves download records; `create_selection` does not write the selection the load reads.
  `publish_user_data_snapshot` puts the user into the snapshot hash (`entitlements.py:160`), so no artifact made
  of such snapshots is shared between users, against docs/hosted_security_architecture.md:212; tests share
  artifacts through hashes of their own. `create_univariate_artifact` does not compare the key's
  `return_artifact_id` with the artifact it is given, as the bivariate call does (`artifact_cache.py:376-403`,
  `:417-422`), nor does `create_return_artifact` compare the listing. Rows of different keys are answered as a
  segment and fail to read back (`shared_observations.py:182`).
- Planning. CONTRACTS.md:72 says planning uses coverage; the code uses Silver.
- Selections. fetch-all-quotes takes the newest manifest, univariate statistics the pointer: after a filter that
  stopped between the two, or two filters in one second, they work on different selections. A metadata
  filter without an instrument list publishes an empty selection. The univariate filter reads statistics of
  all listings ever computed.
- Statistics. A day that Silver gains before one it has is not seen by the caches: with `Backfills = TRUE`
  `BucketsAreExact` and `DeliveredAgrees` fail. `right_id` of a kept pair row is that of an earlier plan. Two
  codes of one ISIN share a univariate file.
- Analyses. Another selection of the same size, or a run of another selection that died, leaves covariances
  `gold_runs` vouches for wrongly (`Steady` and `since` in `InputsAreExact`). The default evaluation id is shared by
  selections. A torn `gold_runs`, `portfolio_returns` or cache manifest makes later runs raise. Rebalance and
  tail-risk files of a run are rewritten by each portfolio, so the last one stays
  (`evaluation.py:673-698`, `:824-844`). `write_profile_candidate` writes nothing, and falls back to equal weights
  under the profile's label (`profiles.py:333-357`).
- Decisions. With two listings of one ISIN the grid puts the weight on the last, portfolio returns count it once
  per listing and rebalancing takes the last listing's return: `DeliveredAreEligible` and `SimulationsAgree`
  need distinct ISINs. `resolve_actual_optimizer_method` does not look at the mode. The schedule "threshold"
  also rebalances monthly (`evaluation.py:940-947`). Target weights of a simulation are not validated. At a total
  of zero the drift is 0.5 (`evaluation.py:604-614`). Split ids `split-%03d` sort wrongly beyond 999
  (`scorecard.py:84`). The watcher does not build files that return, while a build reads others, to the version it
  saw last, and an exception of `snapshot_paths` ends it (`compose_web_watch.py:93-99`).

## 6. Not modelled, and the plan

Not modelled in the modules above: prices and their normalisation, the exact holiday calendars
(`TradingDays` is what `_is_trading_day` accepts), JSON and CSV layout, encryption itself, audit events,
the usage ledger, request validation; the values of statistics, risk models, stress scenarios and
scores other than rank and drawdown, which are floating point; costs, tax and cash flows, which are value contracts without state;
the SQL text of the catalog; search, page rendering, the CLI and logging, which read or hand over.

Next:

1. Proofs: `RecommendationsAreSound` and `ComparisonsAreFair`; the safety parts of `CallsAreServed`
   (`RequestsArePaced`, `RetriesAreMade`), stated apart from the liveness; an abstract lake of selections, each a whole result of its filter, that `Selections` implements,
   with the refinement step by step; the abstract cache of `StatisticsCaches`.
2. Trading calendars, cost-basis lots and the readiness gates as algorithms against a reference
   definition.
