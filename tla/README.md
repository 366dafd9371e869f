# TLA+ verification of the NHVR road-compliance system

This directory models the programs of this repository, checks the models with
TLC and proves what matters most about them with TLAPS. Of the vendored Valhalla engine it
models the part a truck's approved route depends on: the bidirectional search,
its queue, the shortcuts it runs over and the rule that keeps them off
NHVR roads. The rest of the engine is a server that opens a tile archive.

1. [Inventory](#inventory)
2. [Modules and how they follow the code](#modules-and-how-they-follow-the-code)
3. [What is checked](#what-is-checked)
4. [What is proved](#what-is-proved)
5. [Where code and text disagree](#where-code-and-text-disagree)
6. [Not modelled](#not-modelled)

## Inventory

Heavy-vehicle operators plan routes that respect the network approvals of the
National Heavy Vehicle Regulator (NHVR). Four data products have to agree with
each other: the OSM extract with the approvals merged in, the Valhalla tiles
built from it, the PostGIS table behind the map's access layer, and the
compliance database behind the forms. A web app asks Valhalla for routes, with
the networks the vehicle must not leave.

| part | source | state it keeps | operations |
|---|---|---|---|
| Update pipeline | `update.sh`, `setup.sh`, `scripts/lib.sh` | `.state/data`, `custom_files` with `.build` and `.old`, the running Valhalla | full update, `--simple`, `--db-only`, `--tiles-only`, `--rollback`, `--force`, `--keep-old`; setup and its `--skip-*` |
| Valhalla container start | `nhvr-valhalla/docker/scripts` | the data directory | build when there is nothing to serve, pack the tar, serve |
| NHVR importer | `nhvr-importer/import-nhvr.py`, `entrypoint.sh` | the output extract | merge access codes, write beside and rename |
| NHVR table load | `nhvr-importer/load-nhvr.sh` | staging, dedup, live and old tables | load each GeoPackage, deduplicate, swap, index |
| Compliance migration | `db/compliance/migrate.py` and its SQL | two schemas, `schema_migrations` | apply, adopt an older database, `--reset` |
| Compliance API: accounts | `db/compliance/routes.py`, `auth.py` | users, profiles, favourites | sign up, log in, change the profile |
| Compliance API: vehicle administration | `routes.py`, `combined_create_tables.sql` | profiles, templates, ranges, axle configurations with masses and limits | add a vehicle, change it |
| Compliance API: classification | the classifiers | none | classify, validate masses |
| Compliance API: goods | `routes.py`, `goods_resolver.py` | goods categories and rules | resolve the rules of a load |
| Directions page | `web-app/src` stores, `use-directions-queries.ts` | waypoints, selected networks, shown routes, the query cache | edit the list, ask for routes, filter, optimize |
| Navigation | `use-keyboard-navigation.ts`, `navigation-store.ts` | the session, its timer, reroute requests | start, drive, leave the route, reroute, stop |
| Route search | `thor/bidirectional_astar.cc`, `thor/route_action.cc`, `sif/truckcost.cc`, `baldr/double_bucket_queue.h` | labels, statuses and queues of two searches, the connections found | pop, settle, connect, expand, prune, second pass, form paths |
| Shortcut builder | `mjolnir/shortcutbuilder.cc` | the tiles being built | contract nodes, lay shortcuts over chains |
| NHVR attributes in tiles and answers | `graphbuilder.cc`, `edgeinfo.cc`, `triplegbuilder.cc`, ... | a string per edge | format and parse |

**How they interact.** `setup.sh` and `update.sh` start the importer, the
loader, the tile build and the migration as container jobs, one after the
other, and stop and start the Valhalla server. The compliance API reads the
loader's table while the loader replaces it. The web app calls Valhalla
(`/route`, `/optimized_route`) and the compliance API over HTTP; its
directions and navigation parts share stores: navigation drives a route the
directions page shows, and starts with the settings it was asked with.

**Which behaviours are hard.** For the scripts: a run can be killed or fail at
any statement, its inputs can be replaced while it works, and the next run
must cope with whatever was left. For the loader and the migration: the same
at SQL-statement granularity, with a second container possibly still at work.
For the web app: every request is answered some time later, in any order,
while the user goes on editing; timers and requests outlive the session that
started them. For the route search: two searches share a request but not their
labels, each decides by its own distance what to skip, and a path is put
together from both; its queue is only sorted up to the width of a bucket and
moves its range as it goes; a first pass prunes what a second one has to find.
For the API: two
gunicorn workers whose requests check, write and flush in turns over the same
rows, at READ COMMITTED.

**What makes each part correct.**

* Pipeline: "up to date" is never reported falsely; a failing run leaves or
  restores the previous release; directory, tar and extract always come from
  one build; retried runs converge; the server is down only while there is an
  update to do.
* Loader: a finished load has published every row of every file, once, with
  its most restrictive code; the published table never disappears; it agrees
  with the rule by which the importer tags the roads.
* Migration: success is only reported over a complete schema; an interrupted
  run can be retried; an administrator's edits are never overwritten. The first two
  have exceptions that depend on what an older installation left.
* Directions: no shown route crosses a network it was asked to respect; the
  active route exists; a user who waits sees routes for what is selected.
* Navigation: the rerouting indicator and the switched-off detection never
  outlive their cause; the route driven respects what the started one did.
* Route search: no path given back uses a prohibited road, a closed direction
  or a forbidden turn, whatever shortcuts it was found over; where nothing limits
  the search the first path is the cheapest; a way is found when there is one.
* Shortcuts: none lies over a tagged road or a forbidden turn.
* Vehicle administration: a stored vehicle is whole, whoever changed it beside
  whom; the masses and limits of a configuration come from one request; a
  request alone stores what it says and is refused only for a reason; requests
  that wait for each other are all answered.
* Accounts, goods: one account per e-mail; a favourite fits the licence; the
  rules of a load do not depend on row order.

`PROJECT.json` lists every component and every hazard at its line.

## Modules and how they follow the code

```
DataRelease <- - (refinement) - - Deploy <- DeployInvariant, ReleaseInvariant <- MCDeploy
                                              ^- DeployProofs
NhvrImport <- NhvrLoad <- MCLoad              Migrate <- MCMigrate, MigrateProofs
                  ^- LoadProofs -> RecursionFacts
Directions <- Navigation <- MCNavigation, DirectionsProofs
    ^- MCDirections
RoadGraph <- RouteSearch <- MCRoute -> Shortcuts -> RoadGraph
BucketQueue <-'   ^- RouteProofs -> Shortcuts, RecursionFacts
                        ^- SearchProofs
ReadCommitted <- Vehicles <- VehiclesInvariant <- MCVehicles, VehiclesProofs
```

### Deploy: the update pipeline

The model runs one script at a time on one host, with `pc` naming the
statement the run has come to. Each statement that changes a file, the
database, the server or the state file is an action: `Import`, `LoadDb`,
`BuildTiles`, `ClearOld` (`rm -rf .old`), `Stop`, and the renames of
`promote_build` and `rollback_build` one by one (`MoveAside`, `MoveIn`,
`MoveFailed`, `Restore`). `--simple` has its own path (`SimpleAside`,
`CopyPbf`, `Rebuild`), `WriteState` ends a run.

A file is the pair of input versions it was derived from, and for tiles also
the extract behind the admin database; a fingerprint (size and mtime) is the
version it stands for. `TILE_ITEMS` keeps the four items whose content depends
on the inputs. `Opened` and `ComposeUp` are what the started Valhalla container
does: pack the tar when there is none, build when there is only an extract. A
server that is already running is left alone. `verified`, `exit` and `mixed` are
history: what last passed the health check, how the last run ended, and whether
a setup or a rollback has been run.

Faults: a killed run at any step (also in the middle of the in-place build or
of writing the state file), a failing container job (`set -e`), a failing `mv`,
`cp` or `compose up` within a swap or a rollback, and a Valhalla that does not
answer `/status`. The input files may be replaced at any moment.

`DataRelease` states what the pipeline promises without files or swaps: the
recorded versions never claim more than the table and the server hold, and the
server goes down only while the record asks for an update. `PublishesReleases`
says that Deploy implements it.

### NhvrLoad and NhvrImport: the table load

One action per SQL statement or `ogr2ogr` call of `load-nhvr.sh`, over a
catalog `tables` that maps the tables that exist to their rows and index. The
swap is one action because it is one transaction. A run that fails or is
killed (`Interrupted`) keeps the feature groups `ogr2ogr` had committed. There is no
lock in the script, so there are several `Loaders`. A row is its key and access
code. `NhvrImport` is the rule by which the importer merges the codes of a road
segment, folded over the features in reading order as the code does;
`AgreesWithImporter` (in NhvrLoad) compares it with the loader's `DISTINCT ON`.

### Migrate: the compliance migration

One action per commit of `migrate.py`, for several runs at once. The schema is
two parts (core and goods, which older releases created from separate files),
with each part's rows absent, as seeded, or edited since. `MayApply` is what
makes a plain `INSERT` seed refuse to run twice; `MayRecord` is the primary key
of `schema_migrations`. `Counted` is what a run takes for applied when it starts:
what is recorded and what the recorded older files cover, or, without a history,
what the core tables show.

What a run can make of a database depends on who made it, so the system starts from
every kind there is (`FromAll` in MCMigrate), and `origin` remembers which it was:

* nothing at all, or a history of the present list (these are reached from nothing);
* the older list of four files, which committed file by file, stopped before its
  first file or behind each of the four. Behind its second or third file the core rows are
  there under a history that covers neither merged file
  (`legacy.issubset(applied)`, `migrate.py:104-108`), so that `combined_seed.sql` fails on
  its own rows in every run until `--reset` (`Stuck`; `CanFinish` is false);
* an older setup without a history: core and goods, or only the core, with no goods
  tables or with empty ones. It is adopted whole (`migrate.py:117-130`), so that without the goods
  part every run reports success over a database that lacks it (`Short`).

The older `setup.sh` is not in the repository. As the code does ("the core schema and
seeds are present", `migrate.py:118-119`), the model takes its core part for complete; had
it stopped before its first seed, the core would be missing too.

`MayStart` is an assumption about the operator, not code: a first run, an
adoption or a `--reset` is given no company. Without it two first runs overlap
(each commits the tracking table before deciding what to adopt,
`migrate.py:95-120`): the second sees the tables of the first without their
rows, counts everything as applied, and reports success. The scripts run the
migration as one container job, so the assumption is how it is used.

### Directions: the directions page

State is what the stores and the query cache keep: the list of waypoints, the
selected networks, the shown routes with what was asked for them, the requests
in flight, and which of them the cache still waits for. A route is the set of
networks its maneuvers report as prohibited, which is all that
`isRouteLegal` looks at.

Every edit of the list is an action with its `refetchDirections()` (`Refetch`).
The page uses TanStack Query v5, which is a library; from how it is called:
while the first fetch runs and there is no data, a refetch joins it; later it
drops the running fetch and starts another, whose predecessor still runs to its
end and still writes the store, because the store is written inside the query
function (`use-directions-queries.ts:217`). `Answer` is the whole handler: filter
out the illegal routes, promote the first legal alternate, store them, make it the
active one. `Guarded` says whether the tiles were built with the repository's
shortcut guard; without it Valhalla may answer with a route over a prohibited
edge that a shortcut hides. `optimizeRoute` is a mutation that is retried once.

Abstractions: the profile is `truck` (the only one that sends networks); the
retries with a larger search radius (error 442) ask the same question and are
part of the time in flight; the answer of the browser's geolocation, which
keeps the index it was asked for, is one case of `ChooseStop`, whose index may
be past the end of a list that has become shorter.

### Navigation: driving a route

`Navigation` EXTENDS `Directions` and adds the session: the trip driven, the
1.5 s off-route timer, `reroutingRef` and the reroute requests in flight. While
navigating, the panel is hidden, but the map, the settings and everything in
flight go on (`Elsewhere`). The position of the vehicle is reduced to on or off
the route: `DriveOff` and `DriveBack` may happen whenever the code looks.
`stopNavigation` and `simulate` leave what the code leaves: a timer survives a
stop, requests survive both.

### RoadGraph, Shortcuts, BucketQueue, RouteSearch: one route request

`RoadGraph` is what the engine reads of the tiles and the request: directed
edges in opposing pairs, nodes on up to three levels tied by transitions, the
networks for which an edge is tagged, forbidden turns, and the candidate edges
of the two locations. A shortcut is an edge with several `parts`. It also says
what a route has to be (`LegalRoute`) and, by relaxation over all edges, what
the least cost is (`LeastCost`): the reference the search is compared with.
`WellFormed` is the assumption about tiles under which all of this is stated:
finitely many edges, each listed at the node it leaves, the shortcuts of a node
ahead of its other edges, transitions both ways. `DeadEnd` says where a way may
turn round: where no other road is open, neither to go on nor to come from. What a
candidate counts with is not tied to its road: `SetOrigin` adds the distance to it.

`Shortcuts` builds the shortcuts of a graph as `shortcutbuilder.cc` does:
`CanContract` decides which nodes have nothing to decide, among them never one with a
tagged edge; `StartsShortcut` and `Chain` are the loops of `AddShortcutEdges`.

`BucketQueue` is `DoubleBucketQueue` as a value: `Add`, `Decrease`, `Pop` with
`Refill` for the overflow bucket. Costs are whole numbers.

`RouteSearch` is `GetBestPath` and what it calls. Both directions are written
once, with `d` the direction; a label of the reverse search names the edge
driven away from the destination. One iteration of the loop is several steps:
pop forward and pop reverse (`StopAt`, `Connect`, `GoOn`, `Exhausted`), choose
and prune (`Prune`, `BeginExpand`), then one step for each edge `Expand` hands
to `ExpandInner`, with one action per outcome of that function
(`SkipSuperseded`, `SkipShortcut`, `Refuse`, `KeepLabel`, `Improve`, `Reach`).
A way back is put aside (`SetAside`) and evaluated only where no other edge was
approved. `Retry` is the second pass of `get_path`; `FormPath`, `WalkBack`,
`WalkOn` and `GivePath` recover the path of a connection label by label.

The graph families leave out barriers, missing tiles, closures, complex,
timed and destination-only restrictions, internal turns, candidates filtered by
heading, the extended search (off by default), more shortcuts at a node than
its mask holds, and different heuristics for the two directions
(`cost_diff_` is 0). The stretch, sharing and local-optimality tests of
alternates are a choice: an alternate may be kept or dropped.

### ReadCommitted and Vehicles: the vehicle administration

`ReadCommitted` is what `routes.py` uses of PostgreSQL and SQLAlchemy: a
statement sees what is committed when it starts and its own transaction's
writes; a written row is locked until the transaction ends; a unique key makes
an INSERT wait for an uncommitted row of that key and fail on a committed one. The session has
autoflush off (`database.py`), so it collects statements (`unflushed`) and sends
them at `flush` and `commit`, one lock at a time, the classes of one flush in
the order SQLAlchemy gives them. An UPDATE carries only the columns
that differ from what was read, or that cannot be compared: a float beside a
NUMERIC (`Inexact`). A DELETE deletes the rows it found when it started (`StartDelete`)
that are still those rows when it has their locks (`FinishDelete`). PostgreSQL
ends one transaction of a circle (`Victim`).

`Vehicles` is the two handlers over it, with one action per query, flush and
return: `admin_add_vehicle` (`AddRefused`, `AddParents`, `AddChildren`,
`AddAxles`) and `admin_update_vehicle` (`LookUp`, `ReadRange`, `StoreConfig`,
`AddConfig`, `DeleteMasses`, `MassesDeleted`, `ReadLimit`, `UpdateLimits`). The
loop over the configurations is walked in the order of the request; what one
pass leaves unflushed goes with the next flush. A worker is one of the
gunicorn processes (`API_WORKERS=2`, `Dockerfile:31`), each with one request
at a time. `Fail` is every exception that has to do with the values, and a worker
killed at its timeout. Rows are functions from keys to columns; of the three
dimensions one is kept, names and notes are left out, and the dimension rule,
which is stored and changed beside the range, is part of it.

## What is checked

`tlc -config <cfg> <module>`; every run ends within a few minutes.

| run | what is asked |
|---|---|
| `deploy_routine` | full updates, `--simple` and `--db-only` with every fault, two of them: "up to date" is true, the inductive invariant `Inv` holds, the scripts implement `DataRelease`; with fairness, retried plain updates converge on the current inputs |
| `deploy_every` | all command lines of both scripts, with failing jobs and unhealthy tiles, two faults: a failing update restores the previous release, and tiles come with the admin database of their extract; with one fault, rollbacks and setups too leave directory, tar and extract of one build, which the server has open; the inductive invariant `ReleaseInv` of the three holds |
| `load` | two loaders, two files, killed or failing anywhere, files replaced meanwhile: complete and clean tables, the published one never lost, agreement with the importer |
| `migrate` | two containers over an empty database, the older list wherever it stopped and older setups with and without goods, kills and resets: success is true except over a core-only setup, where it never is; a run can be finished just when it could at the start; retried runs end unless that rules it out; edits survive; the inductive invariant `MigrateInv` holds |
| `directions` | edits of every kind interleaved with late, failing and dropped answers, unguarded tiles: legality of what is shown, the active route, currency for a user who waits; the inductive invariant `DirectionsInv` behind it |
| `navigation` | sessions started and stopped while timers and requests of earlier ones are out: the indicator never outlives its cause and always clears |
| `route` | 944 requests on three families of graphs: legality and cost of the paths, a way found when there is one, sound shortcuts, and the consistency of queues, statuses, labels and of the two searches with each other |
| `vehicles` | two workers, three requests out of four edits and two additions, with deadlocks and failures: whole vehicles, masses and limits of one request, exactness of an undisturbed request, every request answered; the inductive invariants (`VehiclesInv`) hold |
| `vehicles_new_axle`, `migrate_old_setup`, `directions_race`, `navigation_reroute` | end in a counterexample; see [below](#where-code-and-text-disagree) |

**Bounds and why they are enough.** Deploy needs two versions of each input to
tell new from old; what matters is only whether a product is of the recorded,
the looked-at or the current version, and the proofs hold for any number. Two
faults give a crash followed by a failing retry, which is what all the
recovery code is about. In `deploy_every` the history
variable `mixed` limits two properties to updates (`RestoredOnFailure`,
`AdminsAreCurrent`): `setup.sh` and `--rollback` bring in files of which the state
file knows nothing. In `load` a second loader, two files and two segments give every
overlap of statements, a partial file before a complete one, and conflicting
codes; three runs let a third one meet the remains of two. In `migrate` two
failures interrupt a run and its retry. In `directions` `MaxEdits` counts the opening of the page as the first: two
edits after it are the fewest in which a request, a later one and a still later
answer of the first meet; permalinks of none, two and four stops start the page empty, ready and
optimizable; one alternate is enough to be promoted, dropped or left as the
active index. In `navigation` two reroute requests are one of the current
session and one of an earlier session; the page opens with two stops and answers
have no alternates, because the flags do not depend on either.

`route` asks about three graphs. The town has two ways with a link between them,
on one level; every set of the four roads of the two ways may be prohibited, combined with
one-ways, roads that are not through in the middle or around it, forbidden
turns, two sets of costs, one candidate, two, or one with alternates. The
highway lies on the level above a local road, with shortcuts over it; it has
every set of prohibited roads, tags of a network nobody asked for, one-ways, a
forbidden turn inside the chain, an exit halfway, alternates, and hierarchy
limits that are never, sometimes and always used up. The spur is a line with a
side road at its end, whose candidates may count with far more than their roads and
whose estimate may fall faster than its roads cost: on a quarter of its requests a popped label
costs over a bucket more than one that waits, and on two the searches
miss each other (`TurnedRound`). The bucket queue has three
buckets of width two, so that labels wait in the overflow bucket, the range moves and
labels share a bucket. On the town and the highway `Delta` (6) is more than the ends'
roads cost: with less the searches may stop before they meet on the cheapest way, which is why
`FirstIsLeast` asks for it (`ThresholdCovers`), and the real value
is minutes. The searches themselves are deterministic, which is why the family
is wide rather than the state space.

In `vehicles` three requests are two that overlap with one before, between or
after them; the
edits take the shared configurations in opposite orders, one of them is bare of masses
so that two edits insert the first ones, and an addition and a refused edit
name the same configuration. Two mass schemes of the three are enough to read
one limit before and one after another transaction's commit. Two workers are
the deployment's default.

Three claims about routes are restricted on purpose.

* `FirstIsLeast` is for requests without hierarchy limits, on graphs where no road
  costs less than the estimate falls along it, with a threshold that covers the ends'
  roads (`IsPlainSearch`).
* `FindsRoute` leaves out searches in which a limit was used up (`LimitsUnused`) and those
  that turned round onto their own candidate's road (`TurnedRound`), which do miss ways; see
  [below](#where-code-and-text-disagree).
* `PopIsLeast` is exact up to a bucket's width, and above the queue's `Floor`. Where
  no road costs less than the estimate falls along it the floor is the first bucket
  for good. Elsewhere it is the bucket the queue has come to, because `Add` puts what
  is cheaper into that bucket. `EdgeCost` makes such graphs: it scales a truck route by
  `kTruckRouteFactor`, 0.85 (`truckcost.cc:70`, `:584`), while the estimate goes by the
  top speed alone (`AStarCostFactor`, `:766`). This also bounds how far the comment "Forward
  path to this edge can't be improved" (`bidirectional_astar.cc:611`) is true.

**Deadlock** is checked for Deploy, where the operator can always start
another run. It is switched off where the bounds or the users end the system:
loads, failures and requests are counted, and a user may leave the page.

**Fairness.** `deploy_routine`: a run takes its next step (weak fairness of
`Script`; a shell does not stop by itself) and somebody keeps running plain
`./update.sh` (strong fairness, since it is possible only between other runs).
`migrate`: a scheduled container takes its next step and a failed migration is
started again. `navigation`: a browser runs a timer that is due, and a reroute
ends because `AbortSignal.timeout(8000)` ends it. `route`: the one thread of
the request goes on. `vehicles`: a worker goes on with its request, and
PostgreSQL ends a deadlock after its timeout. Nothing is assumed of
Valhalla's answers to the web app, of the network, or of the user.

Each property has a mutant in `PROJECT.json`: a plausible bug (a dropped guard,
a loop one short, fingerprints taken late, `ASC` for `DESC`) that makes TLC
report exactly that property.

## What is proved

`tlapm <module>` checks these for every value of the constants, under the
assumptions named in the modules: `ScopeAssumption`, `LoadAssumption`,
`MigrateAssumption`, `DirectionsAssumption`, `NavigationAssumption`,
`BucketAssumption` and `DeltaAssumption` only give the constants their kinds;
`EdgesAssumption` says that an edge's number is not the one that stands for none,
`FilesAreFinite` that a folder holds finitely many features; `RequestAssumption` says
route requests are well formed; `VehiclesAssumption` says that the vehicles
start whole and that bodies have the shape the handlers' validation lets through. A
theorem with a hypothesis of its own names it below.

What a recursive function computes is proved by induction up to a number
(RecursionFacts): a set that holds 0 and with each number the next holds all of them
(`UpTo`, from the well-foundedness of `Nat`), where the set collects the numbers for
which a claim holds. TLA+ defines a recursive function by `CHOOSE`, so one also has to
know that there is one (`Recursion`). `ReadGpkgs` and `Chain` are reasoned about this way.

**Deploy** (DeployProofs)

* `TypeCorrect`: type correctness of the pipeline, for all commands and faults.
* `RoutineInvariant`, `UpToDateReportsAreTrue`, under `RoutineUse`.
  `UpToDateIsTrue` is not inductive: the next run reads only the state file, so
  one has to know what any file may hold that a retry or a rollback could still
  serve. `Inv` (DeployInvariant) says, step by step, that no product in the
  directory, in `.old` or open in the server is older than the recorded state
  (`FilesAreFresh`, `ServerIsFresh`), and where the product of the current run
  has got to (`ProductIsThere`); versions are ordered state, looked at, current
  (`VersionsInOrder`). `RoutineUse` is full updates and `--db-only` with
  inputs that only move forward; outside of it the claim is false for known
  reasons (see the list below).
* `ImplementsDataRelease`: under `RoutineUse` every behaviour of Deploy is one
  of `DataRelease`, from the same invariant.
* `FailedUpdatesRestore`, `AdminsStayCurrent`, `AlwaysOneRelease`, from
  `ReleaseInvariantHolds`. The hypothesis of all is `HandledFaults`: a job fails or
  Valhalla does not come up; a killed run and a failing `mv` have no handler, and the
  claims are false for them. `ReleaseInv` (ReleaseInvariant) has three parts.
  `SafeInv` follows the files of the verified release: at rest they are in
  place (`Kept`), during a swap each is in `.old` or still in place
  (`Recoverable`), and nothing in `.old` is ever overwritten
  (`BackupIsSafe`). `AdminInv` says from which extract the admin database
  is that a build takes over, copies or makes (`BuildIsCurrent`); it needs inputs
  that only move forward (`~Revert`). `OneInv` has no history of what was verified to
  lean on, because setups and rollbacks put in place whatever they find: the
  three files an interrupted loop would leave (`Before`, `After`,
  `Restored`) are always one build, nothing, or the remains of a first
  `--simple` build that failed (`Coherent`).

**The database side** (LoadProofs, MigrateProofs, VehiclesProofs)

* `LoadInvariant`, `LoadsEveryFile`, `LiveIsAlwaysClean`, `LiveIsSafe`.
  `LoadInv` says what each statement of an undisturbed load has left behind
  (`Progress`), and that tables under construction carry no index and, once
  deduplicated, no duplicate key, whoever made them (`BuildsAreClean`): this is
  what keeps overlapping loads from publishing a bad table.
* `PostGisAgreesWithTiles`: `LoadInv` says that an undisturbed load ends with
  the most restrictive row of each segment of the folder. `ReadsTheWorst` says,
  by induction over the features read, that `read_gpkgs` ends with the highest status among the
  features of each segment, in whatever order it reads them; both name one code.
* `MigrateInvariant`, `SuccessIsTrue`, `InterruptedRunsCanBeRetried`,
  `EditsSurviveTheorem`; `MigrateTypes` without the hypothesis. The hypothesis is
  that every database the system starts from is one that is `Left` by an earlier
  release or an older setup: consistent, an older setup with its core part, stuck
  between the older list's seeds, or short and adopted already. `MigrateInv` says of
  each kind what it remains (`FromOrigin`): a history that tells what the tables hold
  keeps telling it, an older setup keeps its rows and goods as they were found
  (`FromOldSetup`), a stuck one stays stuck and no run over it ends well, and of a
  short one nothing is applied any more. Beside that, a run that found no history is alone until it has
  recorded something (`Deciding`), and what a run goes by is recorded and stays so
  (`Recorded`). `SuccessIsTrue` is then exact: a report is false just for the core-only
  setup. So is `InterruptedRunsCanBeRetried`, with the one exception it names: an older
  setup whose adoption was killed, which `migrate_old_setup` shows.
* `VehiclesAreWhole` (from `WholeIsInvariant`), `AxlesAreStored` (from
  `AxlesInvariant`), `AloneStores` (from `AskedInvariant`), together
  `VehiclesInvariantHolds`: for any number of workers and any set of bodies. `Whole` speaks
  of committed rows only; `WholeInv` adds what every open transaction holds and
  is about to send: each such row leaves the vehicles whole whatever the others
  do (`Fits`), because parents that an addition brings are its own until it
  ends, an edit changes only rows that exist, and no two requests hold a row
  (`LocksAreExclusive`). For the axles, `Becomes` says what flush and commit will make of a
  row; the masses and limits of every configuration a request has passed become
  what it named, or another request has meanwhile committed the configuration's first
  mass (`Doomed`). In that case the request's own insert of this mass
  (`Insists`) is refused by the unique key, so that it never commits: the
  first mass serves as the lock the handlers do not take.

**The web app** (DirectionsProofs)

* `ShownRoutesAreLegalAsAsked`, `ActiveRouteIsShown`, each inductive by itself.
  The one arithmetic fact is that a non-empty set of positions has a first one
  (the library's well-foundedness of `Nat`).
* `DirectionsInvariant`, `WaitingUsersSeeCurrentRoutes`. `DirectionsInv` says that
  shown routes answer the present question, or the one request that is out asks
  it, unless an edit did not wait for an answer. What has to be shown of each edit is
  that the stops it leaves are the ones it asked about; the lemmas about
  `relevantWaypoints` do it by counting the placed stops (`Places`, `Nth`), as it filters the list.
* `NavigationIsNeverStuck`, `NavigationImplementsDirections`: the first is
  inductive once `calls` is known to be a number; the second carries what is
  proved about the page over to driving.

**The route search** (RouteProofs, SearchProofs)

* `StatusTheorem`, `ShortcutsTheorem`, from the inductive
  invariant `SearchInv`: types, where the worker is in its loop, that every
  label is legal by itself (`LabelsAreLegal`: its edge is open, untagged and
  entered by an allowed turn from its predecessor's), and that statuses lead to
  labels. `ShortcutsAgree` is not inductive alone: a search may skip a shortcut
  only because the other has not reached it, so one has to know that a
  shortcut is reached only when it was due (`ShortcutsAreDue`).
* `BuiltTheorem`: on tiles as the builder makes them (`AreBuilt`: each graph
  asked about has no shortcuts, or is `WithShortcuts` of tiles that had none) shortcuts are
  sound. `ChainIsSound` follows `Chain` edge by edge: it goes on only
  through nodes that `CanContract` accepts, so that each next edge is
  untagged, as open as the last (`EdgesMatch`) and entered by a turn that is allowed;
  `BuiltFacts` and `BuiltIsSound` carry this over to the numbering of the new graph. In
  `route` the premise is evaluated on every graph (`TilesArePlain` in
  MCRoute).
* `LegalTheorem`: on the same tiles every path given back is legal. It puts together
  `BuiltTheorem` and `RoutesTheorem`, which holds on any graph, however its
  shortcuts were made, as long as they are sound.
  For it `PathInv` follows `FormPath`: what has been put together so far is a legal
  path (`BackFrom`, `OnFrom`), and the rest of the chain leads on from it. It rests on lemmas about
  sequences (`PathsJoin`, `PartsAreLegal`): two legal paths that meet by an
  allowed turn make one.
* `CostsTheorem`, from `CostsInv`: a label that others follow belongs to a
  settled edge, and the label of a settled edge is never improved.
* `QueueTheorem`, `PopTheorem`, `TypeTheorem` (SearchProofs, which extends RouteProofs).
  The first lemmas are about `BucketQueue` alone: for a queue that holds a set of labels, each once, in the bucket its cost asks
  for (`Holds`), `Add`, `Decrease` and `Pop` give one that holds the set with
  the label added, moved or taken out, whatever range the queue has moved on to
  (`Ranged`). `QueueInv` says this of both searches, the set being the labels still
  to be settled; it also needs that an edge has one label (`IsLabelled`).
  For what is popped, `RisesInv` says that on a graph with a consistent estimate a
  queue that has moved on holds no label below its current cost; on another graph
  `PopIsLeast` speaks of that cost itself. The theorem has no premise. `TypeTheorem` takes from these that costs are never negative and that
  queues hold labels there are.
* `FindsTheorem`: when there is a way, a request ends with a path, unless a
  hierarchy limit was used up or a search turned round onto its own candidate; no premise about
  what candidates count with is left. The inductive invariant is `FindInv`, beside those of
  the other theorems. While the second pass has met nothing (`Second`), every edge that a way
  may lead on to from a settled edge is reached (`Completes`), save for the
  label popped last, of which `Progress` says how far its expansion has looked; nothing
  is pruned and no shortcut reached (`AreOpen`, `AreRegular`). A candidate keeps its label, improved or not (`RootsStand`); where the
  other search has settled its road it was improved (`RootsApart`), and a road settled by
  both is one of the origin's (`NoneMet`), or they would have met. What a label follows is
  settled (`PredsSettled`), and no label follows itself (`ChainsEnd`). So when a queue is
  empty, the settled edges of that search are closed under `MayFollow`, forward or backward,
  and lemmas about the graph (`ExtendedStays`, `WaysStay`, `NoWayOut`) turn this into
  `LeastCost` being `NoWay`, unless a candidate of the other search is among them. The label of
  that candidate then follows another one, whose road, the search not having turned round, the empty one has settled as
  well; so it is the origin's. Behind a destination's road that makes a trivial request
  (`NotFollowed`); from one origin's road to the next it comes to an end. It is no matter which search runs out first,
  nor in what order the queue gives its labels back.

**Only model-checked:**

* all liveness (`Converges`, `Migrates`, `BarClears`, `Terminates`,
  `Answered`), which this prover does not handle;
* the optimality of the first path (`FirstIsLeast`). It takes the bounds of
  `Unlimited` requests, an estimate that is consistent and a `Delta` that is
  large enough for the graph; with a bucket wider than one it is a fact
  about the graphs of `route` and not about every graph, since a label popped
  early by less than a bucket's width may settle its edge too dear. A proof for
  every graph would have to state how large `Delta` has to be, which the
  code does not.

## Where code and text disagree

Found by a run each:

* `vehicles_new_axle`: an edit that names a new axle configuration flushes its
  row before the required columns are set (`routes.py:1156-1162`), so that the database
  refuses it and the edit fails with 400. The test of the case
  (`test_admin_edit_vehicle.py:1330`) expects 200 and passes, over a session
  that checks nothing.
* `migrate_old_setup` (`RetriedRunsCanFinish`): a run killed between committing the tracking table and
  recording the adoption leaves an empty history; every later run replays the
  seeds and fails (`migrate.py:95,117`). The docstring says an interrupted run
  can be retried.
* `directions_race`: a network selected while the first request is in flight
  joins that request; its answer, asked without the network, is shown.
* `navigation_reroute`: `fetchReroute` asks with costing `auto` and no networks,
  so a truck that leaves its route is sent along any road.

Read from the code, without a run of their own:

* **Swap.** A run killed during the swap leaves the only copy of the previous tiles in
  `.old`; the retry starts with `rm -rf .old` (`lib.sh:411`), and if its tiles are unhealthy there is
  nothing good to restore, where the README promises that the previous tiles are
  restored. This is one reason why `deploy_every` has no kills (`RestoredOnFailure`). A
  failing `mv` leaves Valhalla stopped (`lib.sh:360`); a `compose stop` that
  fails is ignored (`lib.sh:413`) and files move under a running server; two
  update runs are not kept apart.
* **State file.** After `--rollback` a plain update reports "up to date" over the old tiles
  (`lib.sh:385`); `setup.sh` takes its fingerprints at the end (`:204`) and records the
  GeoPackages even when it skipped what they feed (`:198-205`); a failed `--force` run is not
  retried by the next plain one (`update.sh:115`); inputs that are put back after a failed
  run hide its leftovers. This is why `RoutineUse` excludes them.
* **Admin database.** A killed run without one, followed by a change of GeoPackages only,
  builds tiles without it (`lib.sh:299`). This is the other reason why `deploy_every`, which checks
  `AdminsAreCurrent`, has no kills.
* **Migration.** A database of the older `setup.sh` without its goods part is reported up to
  date without it for ever (`migrate.py:120`). One the older list left between its two seeds
  fails in every run until `--reset` (`:104-108`), although the docstring says that an interrupted
  run can be retried.
* **Estimate.** It "must underestimate the cost to the destination" (`truckcost.cc:762`); on a
  designated truck route, scaled by 0.85 (`:584`), it need not, and neither the order of
  the pops nor the first path is then the least.
* **Candidates.** A candidate counts with its distance to the location added
  (`bidirectional_astar.cc:1055`, `:1160`), as if that were driven at 1 m/s, and so may
  count with more than its whole road. A search can then come back to its own candidate's
  road and improve the label, after which the other no longer meets it there; if it came
  from the same road the other way round, at a place that is a dead end for one search only, a request
  ends without a path although there is one (`TurnedRound`).
* **Dead ends.** A way that has to turn round where other roads only lead in is missed: the
  reverse search approves such a road, so that it never tries the way back
  (`bidirectional_astar.cc:164`, `:453-493`), and ends the request when it runs out first; the same
  happens where the only other road is closed to the turn but already settled. That is why
  `DeadEnd` is narrower than `Expand`'s own test.
* **Vehicles.** Two overlapping edits of a vehicle may store a minimum above the
  maximum, because only changed columns are written (`routes.py:1056`); profiles
  that share a template share its range, so narrowing it for one may leave the
  other's default, and the lengths of configurations the request does not list, outside.

## Not modelled

* The rest of the engine: tile formats, the other costings, algorithms and
  services, narration. Trivial routes (origin and destination on connected
  edges) and multimodal ones do not use the search modelled here.
* The strings that carry a way's networks through tiles and answers
  (`edgeinfo.cc`, `graphbuilder.cc`, `triplegbuilder.cc`): formatting and
  parsing, without state. A network name with a colon or a bar in it would
  break the parser (`edgeinfo.cc:578`).
* Accounts (`routes.py`): requests of one check and one commit, with no promise
  that spans two of them. Two sign-ups with one e-mail end in a 500 instead of the
  400; and an axle
  configuration without a favourite vehicle is stored, since the test for it
  (`routes.py:234`) is inside the branch it excludes.
* Classifiers and the goods resolver: pure functions of table rows.
* Rendering, forms and styling; preflight checks, image pulls and smoke tests,
  which only print; the installer, which asks for settings and writes `.env`.
* In the modules there are: a silently failing `compose stop` in Deploy; the
  simulated geometry beside the shown trip in Navigation; the viability tests of alternates
  and timed restrictions in RouteSearch.
