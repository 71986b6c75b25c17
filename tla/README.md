# Formal models of gc-tour-planner

gc-tour-planner plans walking tours over a user's geocaches. A NestJS API
stores caches in PostGIS, asks an OSRM container for walking distances, keeps
the answers in one table, warms that table in the background through a BullMQ
queue on Valkey, finds clusters of caches that can be walked, and plans tours
from them, on a worker pool or with a Timefold service. A React client shows
all of it on a MapLibre map. This directory holds TLA+ models of that
program's logic, the TLC configurations that check them, and TLAPS proofs.

Paths are relative to the repository; `api/` is `apps/api/src/`, `web/` is
`apps/web/src/`.

* [1. The system](#1-the-system)
* [2. The modules and the code](#2-the-modules-and-the-code)
* [3. The runs](#3-the-runs)
* [4. Where code and documents disagree](#4-where-code-and-documents-disagree)
* [5. The proofs](#5-the-proofs)
* [6. What is only model-checked](#6-what-is-only-model-checked)
* [7. What is abstracted, and what is left out](#7-what-is-abstracted-and-what-is-left-out)
* [8. What comes next](#8-what-comes-next)

Check a model with `tlc -config plan.cfg MCToursService.tla` (the table of
section 3 names the module of every configuration), and the proofs of a module
with `tlapm Planner_proofs.tla`.

## 1. The system

### Components

| component | state it keeps | operations | correct when |
|---|---|---|---|
| `route_legs` cache (`api/routing/routing.repository.ts`) | one row per ordered pair of caches: source `table`/`route`/`noroute`, figures, geometry, extract version | upserts of legs, cells and noroute markers, lookups, the purge of suspicious legs | a served row answers its own pair's question for the caches' present coordinates; a geometry is not downgraded; no row joins two users |
| walking precompute and its queue (`api/jobs/walking-precompute/`, `api/precompute-state/`, `api/admin/precompute/`) | BullMQ jobs; state and version per cache; the locals of a running job | enqueue, retrigger, retry, stalled check; resolve scope, mark, read, ask OSRM, persist, mark | nothing that is missing is forgotten; every job ends |
| routing service (`api/routing/routing.service.ts`) | locals of a request | `getLeg`, `getMatrix` | reads through the table, stores what was missing |
| OSRM and its version file (`infra/osrm/`) | served extract, `osrm-version.txt` | restart: rebuild, publish, serve | the version names the extract that answers |
| OSRM client (`api/routing/osrm.client.ts`) | `inFlight`, waiters | `withSemaphore` | the cap is kept, nobody waits beside a free slot |
| GPX ingest (`api/gpx/`) | `gpx_uploads`, raw files, `caches`, `additional_waypoints`, `cache_finds` | upload with its options, dedup by hash, `upsertFromGpx`, finds, reprocess, clear solved coordinate | upload modes do not clobber each other; newest export wins; success means stored, and found where that was asked for |
| Adventure Lab import (`api/jobs/adventure-lab-import/`, `api/sources/adventure-lab/`) | rows of stages, jobs, the button's status | enrich, sync, backfill, removal of duplicates | stages keep their adventure; none is lost |
| tours service and planners (`api/tours/`, `packages/shared/src/tsp/`, `infra/solver/`) | locals of a request | choice of planner, matrix closure, collapse, 2-opt, parking, trim, legs, fringe drop, expansion; solver, mend, re-add, fallback | every candidate is answered for; legs join; adventures stay whole; budget is kept once met |
| cluster discovery (`api/tours/strategies/greedy/`) | walking cells shared through `route_legs`, worker pool | candidate pool, walking graph, strategies, refinement, explanation of a selection | the cache only saves calls; every request ends; the strategies find what they define |
| saved tours (`api/tours/saved-tours.*`) | rows of tours, slugs | save, update, rename, share, revoke, delete | what a save overwrites is its own |
| sessions and limits (`api/auth/`) | users, Valkey keys with a TTL | register, sign in, Google, change password, sign out; count, expire, reset | one registration wins; ended sessions stay ended |
| planning client (`web/App.tsx`, `web/features/tours/`) | React state, React Query, IndexedDB, localStorage | discover, plan, open, save, switch pages, reload | a tour on screen stays there while it is open; what is flagged or overwritten is what it claims to be |
| leg edits (`web/features/map/LegViaPointLayer.tsx`, `web/lib/persistent-state.ts`) | picks, the via-point marker, its requests | pick an alternative, drag a via point, reset, bake into a save | one request in flight; the latest place wins, with three exceptions; a saved tour shows what was shown |
| map (`web/features/map/`) | WebGL context, style, `ready` | lose, restore or rebuild the context; draw layers | effects touch a live style only; layers end as asked, in the order of the list; the map comes back |
| GPX parser (`packages/shared/src/gpx/`) | none | `parseGpx`: kinds of caches, waypoints, finds, codes of stages | waypoints go to their cache; a stage's code names its adventure |
| not modelled | | other cache queries, landuse population, upload validation, shared types, queue dashboard, health, wiring, containers | queries, pure parsing, I/O |

### Interactions

An **upload** commits its transaction (rows inserted or moved; legs and landuse
of moved caches deleted with it) and afterwards, fire-and-forget, enqueues a
precompute job. A **job** reads coordinates, neighbours, the extract version
and the rows that exist in four statements, asks OSRM one request per origin,
and writes what came back. **Requests** for legs, matrices and clusters write
through the same table, and share the slots of one OSRM client. A **plan** runs
2-opt on a worker or asks the solver service, which may be out. The **client**
asks for clusters, plans, tours and via routes; its answers come late, out of
order or never, and the page that asked may be gone. **Operators** retrigger,
purge and import; the **OSRM container** may restart onto another extract. No
lock is held across two statements: PostgreSQL makes single statements and two
transactions atomic, JavaScript makes a turn of the event loop atomic, and
everything else interleaves.

### Hard behaviours

Reads that are old when they are used (coordinates, versions, captured React
state); several writers of one row; commit and enqueue that are not one step;
crashes between any two awaits; retries of half-done jobs; row-lock deadlocks;
lost wake-ups; answers that overtake each other; index arithmetic on lists of
different lengths; stages of a pipeline that each may lose a stop. `PROJECT.json`
lists each hazard at its line with the properties that would notice it.

## 2. The modules and the code

```
RouteLegs -> CacheStore -> PrecomputeQueue, RoutingService -> WalkingSystem
LegLifecycle                       abstract specification of WalkingSystem

Distances -> TwoOpt                                   \
Distances -> WalkMatrix -> LoopLegs                    > GreedyPlanner
GreedyPlanner -> SolverPlanner -> ToursService

Clustering -> WalkingGraph (with OsrmClient) -> ClusterExplain \
Clustering -> LeidenDetect                                      > Discovery

SavedTours -> TourSession -> PlannerClient
LegPicks -> LegEdits        MapLayers -> MapSurface
GpxParse -> GpxIngest       GpxParse -> LabImport       Accounts
```

A module `MCx` gives the constants of `x` for TLC, a module `x_proofs` holds the
theorems about `x`. Definitions whose comment starts with "Mutant:" are
deliberately wrong variants of the definition after them. No specification uses
one: put in the place of the original they show that a property is able to
fail, and every property of a passing run has one that violates it.

### Walking distances

**RouteLegs** gives each statement of `RoutingRepository` as an operator from a
table to a table. The figures of a row are represented by the question they
answer, `<<extract, from, to>>`, so that "the row is right" can be said.
`Answer` is how OSRM responds: a leg, a leg near zero (what the purge removes),
an impossible speed (what the upserts drop), or no route. **CacheStore** adds
where caches are, their precompute state, engine and version file, the queries
and transactions, and the container's restart.

**PrecomputeQueue** has the edits that owe a job, the BullMQ queue and the
locals of each `process()`; `run[w].pc` names the call it is about to make:

| `pc` | action | what `walking-precompute.processor.ts` does |
|---|---|---|
| `affected` | `ResolveScope` | `findAffected`, outside the `try` block |
| `mark` | `MarkInProgress` | first `markBulk`, outside it too |
| `coords`, `neighbours` | `ReadCoords`, `ReadNeighbours` | two statements: caches may move between them |
| `version`, `cached` | `ReadVersion`, `FilterCached` | version file, `findMatrixCells` |
| `fetch` | `FetchOrigin`, `FetchFails` | one `/table` request; those of a batch in any order |
| `cells`, `noroutes` | `PersistCells`, `PersistNoroutes` | the upserts; a cache that is gone fails the foreign key |
| `fresh`, `catch` | `MarkFresh`, `MarkFailed` | last `markBulk`; the catch block and its rethrow |

`Columns` models how an answer is assigned to a destination: the request lists
the destinations that have coordinates, the answer is read by position in the
list of all of them. **RoutingService** is `getLeg` and `getMatrix`, one action
per await; `prefetchClusterLegs` is any legs, asked for whenever a request is free. **WalkingSystem** composes them. **LegLifecycle** is what a reader
may rely on, whoever writes: of a pair of caches something is known or nothing;
within a version it only gets better; a cache that moves or goes takes away in the
same step all that is known then. It does not promise that what is known is about the
present place: a job that read a place before a move may still `Learn` of it afterwards
(section 4). `WalkingSystem` implements it under the mapping `Known`.

**OsrmClient** is `withSemaphore`: a slot given back while calls wait is
promised to the first of them, which takes it in a microtask, unseen by the
counter.

### Ingest

**GpxParse** is `parseGpx`: what a document's rows are taken for (a cache, a
stage, an additional waypoint, a find) and what is skipped. **GpxIngest** follows `GpxService.ingest`, `upsertFromGpx` and the reprocess
endpoint; `req[r].pc` names the next awaited call.
The options `force`, `markAsFound` and `solvedCoordinates` belong to the request, not to the
file. The transaction is READ
COMMITTED: `ReadExisting` is the bulk read, `UpsertOne` one `INSERT ... ON
CONFLICT` evaluated against the row that is committed then and kept in `mine`
until `Commit`; an upsert of a locked row is not enabled, which is the wait;
`DeadlockDetected` is Postgres ending one of the waiting transactions. Some
properties exempt the caches in `raced`, a history variable to which an action
adds a cache exactly when it writes a row that is no longer the one its
transaction read, or replaces waypoints it did not see. That *nothing else* goes
wrong is what the properties say.

**LabImport** is the enricher (inline in a request, or run by the worker for a
sync or an import), the backfill of adventure ids with the removal of
duplicates, and the button that polls its job.

### Planning

**WalkMatrix** has the pure steps on a matrix: the walk-connected component,
the metric closure, co-located groups, the cheapest edge for a parking place.
**TwoOpt** is `solveTwoOpt`, one action per turn of its loops: seed, 2-opt,
Or-opt, rounds. **LoopLegs** chooses the route of a leg among OSRM's
alternatives so that a tour does not walk a street twice, or nudges it over a
point to the side. **GreedyPlanner** composes them as `planLoop` does: filter,
close, collapse, solve, park, trim, rotate, route, drop the fringe, expand.
**SolverPlanner** poses the problem to the Timefold service and mends its
answer; what the service may answer is written from its hard constraints.
**ToursService** first lets nearby adventures join a cluster
(`AugmentClusterWithLabs`), then chooses the planner, completes adventures,
falls back.

### Discovery

**WalkingGraph** is `buildWalkingGraph`: read the cells the table has, ask
OSRM for the rest a batch of origins at a time over the shared client, store,
keep the nearest. **Clustering** has the strategies components, dbscan, hdbscan
and hdbscan-star and the refinement as functions of a graph; **LeidenDetect** is
`leidenCommunities` move by move. **ClusterExplain** is `explainSelection`.
**Discovery** takes a request from its pool to its candidates, or its
explanation, with a worker thread that may be aborted.

### Client

**SavedTours** has the statements on the rows of tours, **TourSession** is
`TourSessionProvider` (which tour is open; React Query and the IndexedDB copy),
**PlannerClient** adds `App` and My Tours: a handler with its render and effects
is one step; a request, its answer and an effect that waits for data are steps of
their own; a read of the browser's copy (`reads`) ends when it likes, for the pointer it was
begun for. **LegPicks** resolves and bakes the picks on the legs of a plan;
**LegEdits** is the marker with its throttled requests, the picks in
localStorage, and saving. **MapLayers** says what each layer component draws
into the style, and at which height; **MapSurface** is `MapView` and `useMap` under a WebGL context
that may be lost, with or without an event. `Render` is where `useMap` asks
whether the map is ready; `Draw`, `Renew` and `Throw` are its effects, which React runs in a
later task with that answer: everything the browser and MapLibre do may come in between. **Accounts** is the server's side of
signing in, statement by statement, with Valkey's expiry as the clock.

## 3. The runs

| run | module | distinct states | what it explores | properties |
|---|---|---|---|---|
| `warm` | MCWalkingSystem | 371k | 2 caches, 2 places further apart than the radius, 2 extracts, one restart, two edits, one crash | `DebtIsVisible`, `VersionNamesExtract`, `JobsFinish` |
| `table` | MCWalkingSystem | 186k | 3 caches, a job beside a `getLeg`/`getMatrix` request, one restart, extracts that differ in what is unroutable, impossible or collapsed, the purge | `ServedLegsAreTrue`, `NoDowngradeWithinVersion` |
| `owners` | MCWalkingSystem | 321k | two users with three caches at two places, moves, two extracts with every kind of answer, the purge; and any two of a second upload, a restart, a `getLeg`/`getMatrix` request and a fault (failing statement or OSRM call, lost enqueue, deletion), or a retrigger | `SameOwnerLegs`, `FollowsLifecycle` |
| `gpx` | MCGpxIngest | 290k | two requests, each with options of its own, after an earlier upload; two exports in opposite orders, a corrected file, a waypoint file, a broken file; repeats, reprocessing, clearing, a failing statement or a crash | `SolvedCoordinateSurvives`, `DerivedFollowsLocation`, `WaypointsOfOneFile`, `SuccessMeansStored`, `NewestExportWins`, `RequestsAreAnswered` |
| `plan` | MCToursService | 135k | 117 requests with Adventure Labs over five worlds and both planners; 1500 over four to six plain caches with every mix of short, longer, long and missing walks | `EveryCandidateAnswered`, `LegsJoinTheirStops`, `ClosureIsShortestWalk`, `IsTour`, `LocalOptimum`, `AdventuresStayWhole`, `OnceInBudget` |
| `discover` | MCDiscovery | 37k | two requests at a time over two OSRM slots, a failure of OSRM, the database or the pool; single requests over five layouts for every strategy; selections explained | `WaitingMeansFull`, `CacheIsTransparent`, `NeverOrphaned`, `MassIsMaximal`, `ExplainedAsClustered`, `RequestsEnd`, `QualityNeverFalls` |
| `labs` | MCLabImport | 425k | a sync, a backfill and an enriching request over stages of two adventures of one title, an upload of either code scheme, one failure or crash | `IdsAreTrue`, `StagesSurvive` |
| `client` | MCPlannerClient | 1138k | four things the user does, on either page, with two tours, two places, two settings, every answer and every read of the browser's copy late, lost or reordered | `TourStaysShown`, `UnflaggedPlanIsCurrent`, `OverwritesItsOwn` |
| `accounts` | Accounts | 648k | two requests at a time of the kinds that meet, failures anywhere, keys that expire | `OneRegistrationWins`, `EndedStaysEnded` |
| `maps` | MCMapSurface | 394k | one or two losses of the context, with and without an event, at any moment, while the inputs that layers share change together, and each other input alone | `EffectsTouchLiveStyle`, `LayersAreWhatIsAsked`, `MapComesBack` |
| `edits` | MCLegEdits | 740k | two plans, a marker dragged over two places, requests answered in any order; saving and opening again, repeatedly | `NoBacklog`, `LatestPositionWins`, `SavedShowsWhatWasShown` |
| `v_edits` | MCLegEdits | | the same instance; a violation, section 4 | `EditsStayWithTheirPlan` |

What each property says stands above its definition; what each run shows is its
`about` in `PROJECT.json`.

**Bounds.** In `warm`, `table` and `owners` a property relates one pair of rows
to at most one read before and one write after a conflicting step. Two edits (a job and the move
that overtakes it), one restart (a version read before, a write after), two
writers and three caches (a destination beyond the one whose column is missing)
are the smallest instances in which each happens; `MaxAttempts = 2` where the
code has 3 keeps one failure, one retry and giving up. In `gpx` two requests
are enough for an overlap of any two transactions and their deadlock; the file
of the initial state is the history before them. In `plan` the greedy
planner's tours have up to five stops and the solver's up to seven, so 2-opt and
Or-opt both find moves, chains of three exist, and the closing edge takes part;
co-located, cut-off and marginal stops exercise each trim and drop. In `discover` eight caches allow three levels of density
and two clusters that compete in each; two requests and two slots give waiters.
In `client` four steps of the user are enough to open a tour, plan over it,
switch or close it, and save. In `maps` two losses, a loss
during the recovery from a loss, are for the inputs with which layers come and go; for
the others there is one. In `owners` the constraint `TwoAtMost` leaves out behaviours with
three of its occasions, or a retrigger beside another: a row is written by
one process and invalidated, replaced or purged by one other; `MaxAttempts = 1`, since what a retry
does to the table is what another job does. In `gpx` `OptionsTicked` gives the options of
each file: finds are asked for with an older export, as new or forced, solved
coordinates with the corrected file only. Bounds on drags and saves are per behaviour
(`MCBounds`): those that drag do not save and the other way round, because the
two share no variable but the picks. All bounds are constants with a name
(`Max...`, `Mixes`, `Bounds`, `Batches`), and the theorems hold for all of them.

**Fairness.** `warm` and `gpx`: the event loop of a running process keeps
executing what its worker or its requests can do, and Postgres ends deadlocks
after its timeout. A step that waits for a row lock is not enabled, so weak
fairness does not push it through the lock; it goes on because the holder's
steps are fair. `discover`: a request whose call has come back goes on, the
worker's loops turn; the shuffle order of Leiden's nodes is not fair. `maps`: a
style that is on its way loads, timers expire, the user who left comes back
(weak); frames are drawn again and again while there is a context, so that
`load` and `idle` fire though a context may be lost in between (strong).
`labs`, `client` and `accounts` state fairness of answers and of the clock,
which their present properties, all of safety, do not use. Users, operators, OSRM
and faults owe nothing: a call to an OSRM that stays down fails, which is
progress.

**Deadlock checking** is off where users and operators have a bounded number of
things to do, after which the system rightly rests (`warm`, `table`, `owners`,
`gpx`, `labs`, `client`, `edits`) and where the error screen is the end (`maps`), and on in `plan`,
`discover` and `accounts`.

## 4. Where code and documents disagree

`v_edits` is a run: `docs/requirements/tour-planning.md:22` (FR-T11) says that
"replanning a different cluster does not apply" the edits of another plan.
`useLocalStorageState` reads localStorage in the initializer of `useState` only
(`web/lib/persistent-state.ts:32`) although `App` passes a key that changes with
the plan (`App.tsx:366`): the picks in memory stay, are applied by leg index to
the legs of the new plan, and are written under its key.

Others were found with earlier runs of these models, or while reading; the
models behave as the code does, and the properties are stated so as to exempt
exactly these cases:

* `process()` drops destinations without coordinates from the request but not
  from the list it reads the answer with (`walking-precompute.processor.ts:175`).
  A neighbour outside the job's scope that has none shifts the columns.
  `buildWalkingGraph` does the same when its pool filter is off: `Closed` in
  `CacheIsTransparent`.
* A job that read coordinates before a move writes the old legs back after the
  upload deleted them; the re-warm takes them for fresh. In `table` caches are
  uploaded once, so `ServedLegsAreTrue` is about everything else; in `owners`
  they move, and the lifecycle lets such a job learn.
* A file that was parsed before is answered as a duplicate without a look at the options
  (`gpx.service.ts:98-101`): a pocket query that is uploaded again with "mark as found" or "solved
  coordinates" ticked is answered with success, and no find is recorded and no coordinate
  taken over, until it is uploaded with `force`. `SuccessMeansStored` asks for the
  finds of a request's option only where its answer is not "duplicate".
* When the enqueue after a move fails, the legs are gone, the state is `fresh`,
  and retrigger-stale does not select the cache. In `warm` no enqueue is lost.
* Versions have no order, the guard is `<>`: a late writer of an old extract
  replaces rows of the live one, and after a rollback of the extract they are
  served. `VersionNamesExtract` holds for one restart, and the theorem for any
  number that publish newer and newer versions.
* The guard of the solved coordinate uses the bulk read of its transaction: a
  solved upload that commits in between is overwritten while its row stays
  `solved` (`gpx.repository.ts:191`); such caches are in `raced`.
* That a file held solved coordinates is not recorded; reprocessing replays it
  as a normal upload into `published_location`.
* A skipped stale cache loses its additional waypoints all the same
  (`gpx.repository.ts:380`); a crash between `save` and `markRawStored` leaves a
  file no upload refers to.
* A deleted cache fails the first `markBulk` outside the `try` block on every
  attempt, so that the rest of its scope is not warmed (processor:92); a failing
  chunk marks the whole scope failed where `docs/design/precompute.md` promises
  the affected chunk only.
* `leiden-detect.ts:20` and the design document promise that every community is
  connected. A sub-community may lose, in a later move, the node that connects
  it; the property was dropped for `QualityNeverFalls`, which holds.
* `explain.ts:530` says its caller takes the maximum of the two directions of a
  walk, `symmetrisePairMap` (`:622`) takes the minimum. `ExplainedAsClustered`
  is what remains true: what is shown is never longer than the edge.
* `MapContext.tsx:36-38` says that a map whose style has gone is treated as not ready, "so
  every layer's `if (!ready) return` short-circuits before it touches the dead style". That is
  decided when the layer renders. The effects of a render that no click or key
  caused run in a later task, and `webglcontextlost` may null the style between
  (`MapView.tsx:277`); no effect asks again, and one that touches the style then throws into the
  error screen. `EffectsTouchLiveStyle` says that this is the only way, and `MapComesBack`
  ends there too.
* The leader line of the parking place is emptied by the draw effect of the tour, which depends on
  the edits (`TourLayer.tsx:212`), and filled by an effect that does not
  (`:852`): when a tour begins or ends to be edited the line is gone until the map is
  moved. `LayersAreWhatIsAsked` lets it be empty where the edits change.
* `map-layers.ts:122` says that "every layer component calls" `applyLayerOrder`. Seven
  of the fifteen do. Most of the others are put in their place by the next
  one that does, since App renders it after them; the parking preview, the walking
  graph and the test route are added when they are asked for, and lie on top
  until some other layer is drawn. `InOrder` is about the rest.
* "The latest position always wins" (`LegViaPointLayer.tsx:39`) fails in two ways, which the
  history variable `strays` of `LegEdits` names; `LatestPositionWins` is about all else, and about
  these again from the next release that is answered in time. *Moved*: `latestRouteRef` is not reset
  when the marker is dropped on another leg (`:101`, `:400-403`). A via point of the first leg is
  routed, the marker put on the second, pressed and released before its own first
  answer: the route of the first leg becomes the pick of the second. *Late*: the
  answer to a release that comes during the next drag commits the place of the release
  (`:366-370`), which puts the marker back; where the request for the newer place has been
  sent by then, the next release finds nothing pending and commits the last route at
  the old place, and the newer route is only previewed.
* A detail that was asked for before a tour was overwritten and arrives after it, while the
  tour is not open, replaces the detail the save put into the query cache and takes
  its invalidation back (`App.tsx:581-590`); it is shown when the tour is opened again.

## 5. The proofs

The theorems hold for every value of the constants that satisfies the named
assumptions (`...Assumption`, which TLC evaluates in the runs): any number of
caches, versions, workers, requests, files, faults, callers, positions, plans
and losses. `PROJECT.json` lists all of them; every proof is complete down to
its leaves. What the code does not ensure is not an assumption but a hypothesis of its
theorem: that versions are numbers and restarts publish newer ones, in `ServedExtractIsNamed`.

**WalkingSystem_proofs**

* `RoutesAreNotDowngraded`: needs no invariant. Whatever version a writer has
  in hand, the `WHERE` of the cell upserts protects a row of the same version,
  `upsertLegs` writes a geometry, and the deletes remove rows. One lemma per
  statement, one step per action.
* `Invariance`, `TypeCorrect`: types are not inductive alone. A job's attempts
  stay within the limit only because a job that is waiting or active has some
  left (`JobsWithinLimits`), which is true at a retry only because each active
  job is held by one `process()` (`JobsHeld`); a row has a version only because
  a process that is about to write has read one (`RunsKnow`, `RequestsKnow`).
* `OwnersAreNotMixed`: `route_legs` has no owner column, so `SameOwnerLegs`
  depends on all code that builds pairs. Strengthened by `LocalsHaveOneOwner`.
* `ServedExtractIsNamed`: `VersionNamesExtract`, as long as extracts get newer.
  The invariant dates everything: no row and no version in hand is newer than the
  version file, and what was answered under the present version was
  answered by the present engine (`VersionInv`). Without the hypothesis it is
  false, as section 4 says.
* `LifecycleIsFollowed`: `Spec => FollowsLifecycle`, the refinement. Each
  statement on the table is an insertion, an improvement or a removal of
  knowledge, or a stutter; a move and the removal of what the table says of the cache
  then are one step of both.

**GpxIngest_proofs**

* `IngestIsTyped`: strengthened by what a request knows (`RequestsKnow`) and by
  `StoredUploadsKnow` (an upload that can be reprocessed has a file).
* `SolvedCoordinatesSurvive`, `LocationsAreEffective`, `DerivedRowsFollow`,
  `NewestExportsWin`: from one invariant over committed *and* uncommitted rows.
  Both are in order; a row is written by one transaction at a time; and, the
  heart of it, a locked row is still the one its transaction read, so that
  decisions taken on the bulk read are decisions about the row they replace
  (`LockedRowsAreCurrent`). Where this fails the cache is in `raced`.
* `WaypointsComeFromOneFile`: a transaction inserts only where it wiped, and saw
  all it wiped unless it raced.
* `SuccessIsStored`: an upload that is `parsed` has its caches stored and its
  finds recorded (`ParsedAreStored`), each request has stored what its place in the
  loop says (`HasStored`), and no step removes a row or a find (`Grows`); so a
  duplicate of a My Finds file may be answered without looking. The finds a request
  asks for by its option are recorded before it is answered, or it is answered as a duplicate.

**Planner_proofs** (ToursService with the planners and TwoOpt; OsrmClient)

* `ClosureIsExact`: `ClosureIsShortestWalk` for every request of `ServiceSpec`, on the path of
  either planner and of a fallback. Filter and closure take one step, so the
  invariant is small (the request is one of `Requests` with its ids cut down or
  built up; nothing is prepared, or all of it at once), and the work is in the
  operators: that the kept set is a component of finitely many caches with walks
  between any two, and that what `metricClosure` relaxes over `via` the first k
  caches is at most any path through them and equal to one, which is proved for the smallest k at which it could fail.
  The assumptions on `Requests` are what `loadAnchorPoints` and
  `findMatrixCells` deliver: finitely many candidates with a place of their own,
  and a walk, perhaps none, between any two of them.
* `CandidatesAreAnswered`: `EveryCandidateAnswered` for every request. The
  invariant (`PlannerInv`) says by phase what the planners rely on: there is a list of
  stops and one of drops, neither with a repetition, nothing in both and no
  representative in neither (`Shares`, while the solver's answer is mended of what it
  answered); the matrix handed to 2-opt has a row for each stop, so that the order that comes
  back is a rearrangement; the units that may come back are drops that share no stop
  (`Apart`); parking was offered; the legs lead from place to place (`LegsTo`). One
  lemma per action (`TrimDropKeeps`, `AccountKeeps`, `ReclaimSolvedKeeps`, ...).
  That the drop is a stop at all, that a place is found for parking and that a leg is picked
  rest on lemmas that a choice by a figure and then a rank has a first. When the plan is done
  the count follows from `Parted` (the groups of co-located caches part what was
  kept) and `FlattenedListing` (expansion lists the members of the stops).
* `LegsAreJoined`: `LegsJoinTheirStops` for every request, on the same invariant. The
  code reads `interCacheLegs` by position, and a leg OSRM cannot route leaves no gap there:
  the later ones move up. `PlannerInv` therefore has the leg count bounded by the arcs, the
  legs tied to their arcs only where none is missing (`LegsTo`), and the expanded
  legs as a function of tour and legs (`LegsExpanded`). A plan that is done has read
  every leg; the one that arrives at the last stop is the one that is undefined
  as soon as any is missing, so none was (`NoneIsMissing`). That the legs of the groups,
  put one after another, chain through all members is `GroupsWeave`.

* `SolverKeepsTours`: reversals and chain moves are permutations of the positions
  that leave the first one alone.
* `SolverEndsInOptimum`: a round that applied no move has evaluated every 2-opt
  and Or-opt move for one and the same tour (`RoundInv`), so that the solver, if it ends
  by convergence, ends in a local optimum of both neighbourhoods.

  Both are about `SolverSpec`, the solver by itself; in `plan` the same
  properties are checked with the planners around it.
* `CapIsKept`, `NoWakeUpIsLost`: the counter and the promises to woken waiters
  together never pass the cap, every caller is in one place, and a call waits
  only while every slot is taken or promised. A counting argument over sequences
  without duplicates. In `discover` the client is checked under its real callers.

**Accounts_proofs**

* `RegistrationsAreUnique`: at most one registration is past its insert, since
  the insert succeeds only without an account; what the sign-in's statements
  know of the account stays true because accounts are never deleted (`Known`,
  `AtMostOne`).
* `EndedSessionsStayEnded`: the sliding `EXPIRE` of a session finds no key.
* `GoogleGoesThrough`: who fails to insert finds the account that was in the way.
* `AccountsAreTyped` needs `Throttled`: the block lasts at least as long as the
  window that caused it, so no counter counts past its limit and one.

**MapSurface_proofs**

* `OnlyALossBreaksEffects`: a loss that was told of has taken `ready` back in the same
  turn (`LossIsKnown`), and ready means loaded; so a render that finds the map ready finds a
  loaded style. That stays so until its effects run, unless the context is lost with its
  event (`RenderHolds`): nothing else takes a loaded style away, since a silent loss leaves it in
  place, a map that is replaced is removed only after the effects, and the next map is made by
  them. The history in `pending.lost` is set by that one step and read by properties only.
* `NoMapWaitsForNothing`: the safety half of `MapComesBack`. A map with a
  context that is not ready is to be rebuilt, or its style is on its way and the
  first `load` or the next `idle` will report it: there is no state in which it
  waits for an event that has already been.

**LegEdits_proofs**

* `OneRequestInFlight`, `TheLatestPositionWins`: the only request under way is
  the one `inflightRef` names; it asks for the place of the marker unless a
  newer one is pending; what is pending has a timer and a drag to send it. A route that is kept
  for the marker is that of its leg and place, unless one of `strays` has
  happened, which the next release answered in time takes back.
* `SavedToursShowWhatWasShown`: baking a via route appends an alternative and
  selects it, so that a leg without picks resolves to what it showed with them;
  the invariant says so of a tour that was saved, is being saved or is open, however often.
* `OnlyOnePlanIsKept`: localStorage holds the picks of the plan that is shown, if
  one is, and of one plan at most; every write prunes the others.

**PlannerClient_proofs**

* `ToursStayShown`: a detail, once in the query cache, is only replaced until a reload; the copy that
  is read is that of the tour the effect last ran for (a read for another was
  cancelled), so that while the pointer stands the copy on screen is only replaced by one
  of the same tour. Before the effect has run for a new pointer, its id keeps the old copy
  off the screen, and there is nothing to lose.
* `CurrentPlansAreUnflagged`: the key captured with a request for a plan is the
  setting it was asked with (`PlanningIsBound`), and the plan on screen keeps it.
* `SavesOverwriteTheirOwn`: while a plan is on screen no tour is open beside it,
  and the tour to overwrite is the one that was open when the plan was asked for
  (`IsSound`); a plan under way was asked for over the tour that is still open,
  or that tour was closed since.

**LabImport_proofs**

* `IdsAreTrueOfTheirStages`: an id is written by an import, by code, or by a fill,
  by code or by place; whoever is to work on an answer holds one that is made of
  stages (`AnswersAreStages`), and the rows are about stages (`RowsAreStages`). Both
  survive crashes, since an enricher that is idle has nothing to work on.
* `StagesAreNeverLost`: a row that counts as a duplicate has the same
  adventure and number, and because its id is true (`LabInv`) it is a row of the same
  stage. `LabImportAssumption`: an adventure and a number make a stage, which is
  the `PARTITION BY` of `dedupAdventureStages`.

## 6. What is only model-checked

* **Liveness**: `JobsFinish`, `RequestsAreAnswered`, `RequestsEnd`,
  `MapComesBack`. TLAPS does not reach ENABLED and fairness. The safety halves of
  the last two are proved: `NoWakeUpIsLost`, `NoMapWaitsForNothing`.
* **Recursion and folds over data**: `AdventuresStayWhole`, `OnceInBudget` (folds
  over stops and legs), `CacheIsTransparent`, `ExplainedAsClustered`, `NeverOrphaned`, `MassIsMaximal`, `QualityNeverFalls`
  (fixpoints and folds over graphs), `LayersAreWhatIsAsked` (sequences of
  drawn layers, compared with the list of `MAP_LAYER_ORDER`). What such definitions compute
  for every input takes an induction over the data. The induction rules that take
  an operator cannot be instantiated here; `ClosureIsExact` shows the way around them, a
  set of counterexamples and its smallest member, at some length.
* **`ServedLegsAreTrue`** is false in general: by a job that overtakes a move, by the columns that
  shift where a destination has no coordinate, and by a rollback of the extract (section 4).
  A theorem would have to exclude the first two by hypotheses on the
  state which the code does not ensure, and would be about little else; the run `table` checks it where caches stay
  in place and every destination is in scope.
* **`DebtIsVisible`** is false in general, by the
  cases of section 4 (a purge, an enqueue that fails, a job that overtakes a
  move), and what excludes these would have to be said of every pair of neighbours at
  once; the run `warm` checks it where they are absent.
* `IdsAreTrue` and `StagesSurvive` say nothing where two adventures share a
  place to the metre: there the match by coordinate takes whichever comes last.

## 7. What is abstracted, and what is left out

* **Distances.** Figures in `route_legs` are the questions they answer. In the
  planners they are small numbers, `Infinity` for `null`; coordinates appear
  only through them, so a choice by bearing or centroid is a choice of any. In
  discovery caches lie on a line; seconds and the speed check are represented by
  the detour check. Scores rank candidates in any order.
* **Precompute.** `K`, the limit of neighbours, never binds in the runs: where it
  does, deleting a cache brings a new neighbour within the limit that only a
  later request fetches. The 30-day TTL of a fresh state, the version
  `"unknown"`, chunks of 50, and a BullMQ lock lost while its worker lives are
  left out; one crash per behaviour. The purge is an action of `table` and
  `owners`.
* **Ingest.** Names, ratings and attributes; waits on waypoint rows (either
  order has the same outcome); a file is the rows the XML parser makes of it.
  Invalidation and COMMIT are one step; the re-warm is one step, its own races
  are those of `WalkingSystem`. In the run users tick "solved coordinates" for corrected
  files only; the specification lets them tick anything `Options` has. The XML parser is external.
* **Planners.** The Timefold search is external. Route alternatives and via
  points are external; a route is its metres and the cells it passes, the
  spacing of points a floored division. Time limits of the solver, parking previews and debug
  endpoints are left out.
* **Discovery.** Weights of Leiden edges are whole numbers; `Lambda` is given;
  louvain is a library. Explanations are without seconds, scores, names and
  centroids.
* **Client.** The content of a plan is what it was asked for. Preview images,
  connectivity, the button that pulls labs in, GPX export, sign-out and
  prefetching in more than one step are left out; one save at a time, as the button allows; discovery
  finds two clusters. `over` and `told` are history variables.
* **Leg edits.** A route stands for its geometry, metres and seconds; any leg may
  be the open one; one slot for a saved tour.
* **Map.** What MapLibre does with a lost context is external, written from how
  `MapView` uses it. The effects of one render are one step, and no
  render starts before they have run, as React does it. An effect that fails is the end: the error
  screen and what the user does there are left out. A silent loss happens in the
  background only. A loaded style of which a source is still loading counts as loaded. Popups, pointers and viewport queries are left out.
* **Accounts.** One email and one address; time is a tick of Valkey's clock. The
  CSRF check, cookies and the developer bypass are left out.
* **Not modelled**: landuse population; cache queries; ingest guards
  (validation); health, dashboards, wiring, infrastructure scripts; admin and
  profile pages (I/O and presentation).

## 8. What comes next

A theorem for `LayersAreWhatIsAsked`, for each way a layer is put back after the style was
rebuilt, and the three layers `InOrder` leaves out, with what puts them in order again.
