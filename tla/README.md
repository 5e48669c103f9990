# EcoBus backend: formal models

TLA+ models, TLC checks and TLAPS proofs for the EcoBus API: a Node/Express
process over PostgreSQL that dispatches school buses, takes their GPS pings,
tells parents where the bus is and keeps the users' sessions. Paths below are
those of the repository.

The program has almost no state of its own. Its state is the database, its
concurrency is that of requests, jobs and database transactions, and its hard
behaviour lies *between* SQL statements: nearly every operation reads, decides
and writes in separate statements under READ COMMITTED. The models are
therefore written at the level of the statement: an action is one statement
together with the code that runs before the next `await`, and a request in the
middle of its statements is a record in `job`.

## 1. Inventory

| Part | State | Operations | What is hard |
|---|---|---|---|
| Assignments (`driverService`) | `route_assignments`: route, bus, driver, is_active | create, update, deactivate, delete | checks before writes, one unique index (active bus), a PATCH checked on an old row |
| Trips (`tripService`) | `trips`: assignment, status, end_time | start, end, auto-close job | a transaction without locks; the driver of a trip is looked up through its assignment, which may change |
| Buses (`busService`) | `buses` | create, update, remove (soft) | check-then-write against assignments and plate numbers |
| GPS ingest (`gpsService`, `gps.routes`) | `gps_logs`, `bus_live_status`, `stop_events` | resolve the trip, store the ping, detect arrivals, answer, broadcast, notify | row locks, index entries of open transactions, an empty catch inside a transaction, a COMMIT whose answer is lost, work after the answer |
| GPS rate limiter (`middleware/gpsRateLimit`) | an in-memory `Map` | let through, refuse, evict | its limit, its loss on restart |
| Jobs (`jobs/index.js`) | timers | GPS-offline (60 s), delay (120 s), auto-close (300 s) | racing pings and drivers; errors are swallowed |
| Sessions (`refreshTokenService`, `authService`) | `refresh_tokens` | login, refresh, logout, replay detection | a rotation in four statements, retries, crashes |
| Routes and stops (`routeService`) | `routes`, `route_stops` | add, replace all, update, remove | stops replaced under a running trip, row by row, against the locks of pings; `stop_order` is not unique |
| Users and registration (`userService`, `authService`) | `users`, `roles`, `user_roles` | create, register, update, delete | a query on a second connection inside a transaction; two-part updates; roles that are deleted and inserted by two requests |
| Connection pool (`config/db.js`) | 20 connections | `query`, `withTransaction` | nested use of connections, the timeout of `connect` |
| Alerts, SOS (`alertService`, `sosService`) | `alerts`, `sos_alerts` | trigger, acknowledge, resolve, delete; delay job | the same audit columns written by several managers, a fan-out after the commit that may fail halfway |
| Check-ins, children (`checkinService`, `childrenService`) | `checkins`, `child_routes`, `children` | check in, assign and unassign routes | check-then-insert without an index; the list of who has boarded is read while it changes |
| Demo seed (`migrations/seed.js`, `POST /dev/seed`) | all tables | find or insert everything, in one transaction | pressed twice, and while the office works |
| Migrations, boot, git sync (`autoMigrate`, `migrate.js`, `server.js`, `gitSync`) | `schema_migrations`, the process, the clone | apply pending files, roll back, start, pull | several processes and ticks at once, a failure in the middle |
| Request pipeline (`app`, `middleware/`, `asyncHandler`) and routers (`routes/`) | the request, the caller's roles | 22 mounts, some 90 routes | the order of mounts and layers, errors that nobody takes or that come when the headers are out, roles that change on the way |
| Notifications, devices, push | `notifications`, `device_tokens` | bulk insert, upsert | push is a stub in the code |
| Websocket (`sockets/io.js`) | rooms | subscribe, broadcast | at-most-once delivery |
| ETA, geofences, organizations, analytics, logs, docs | none worth a model | reads, single statements, pure I/O | – |

How they interact: a driver's request starts a **trip** on an **assignment**;
a **ping** is resolved through bus, active assignment and trip in progress,
stored in one transaction and answered; arrivals then go to the **websocket**
rooms and to the parents' **notifications**. The **jobs** write the same rows
as pings and drivers do. Administrators edit assignments, stops, buses and users
at any moment.

What makes each part correct:

* dispatch: a bus has one active assignment, a trip keeps its assignment and ends
  once; a driver has one active assignment and one trip in progress, a ping one trip
  to go to, a deleted bus no assignment, but for requests in the middle of which
  another one wrote what they had looked for;
* tracking: what is shown or broadcast is stored and what is stored is broadcast,
  nobody is notified twice, offline means silent, silent trips close, no transaction
  waits for ever; what an error in the empty catch, or a death of the process, takes
  from this is said in each property;
* sessions: a token is exchanged once, its holder has one live token, a replay
  ends every session;
* limiter: bounded, never refuses a ping that is due, forgets only by eviction
  or restart;
* alerts and SOS: resolved is final, an acknowledgement is written once, whoever
  must hear of an SOS is told before it is announced, or the failure is logged;
* accounts: no live account without roles, a failed change of roles leaves them as
  they were (the fields of the same PATCH are written before and stay), no request
  waits for ever for a connection or a lock;
* migrations and boot: the table says what the schema is, a server that listens
  has all of its migrations, a server that starts comes up in the end;
* requests: every route is reached by what it was registered for, roles decide
  fairly while they change, every request is answered, and once.

## 2. Modules

### Dispatch
`Dispatch` models `driverService`'s assignments, `tripService` and
`busService.remove`.

| Variable | Code |
|---|---|
| `assignments`, `assignmentSeq` | rows of `route_assignments`, in order of `created_at` |
| `trips`, `tripSeq` | rows of `trips`; `endWrites` counts the statements that wrote `end_time` |
| `deleted` | buses with `deleted_at` |
| `job` | for each worker the request it is in the middle of, with the values it read |
| `missed`, `blind` | history: what others wrote since a request read it; trips started on what had been missed |

A request of several statements is a chain of actions of a worker:
`CreateBegin → CreateCheck → CreateInsert`, `UpdateBegin → UpdateCheck →
UpdateWrite`, `RemoveBusCheck → RemoveBusWrite`, `StartPick → StartCheck →
StartInsert`. Refusals (400, 404, 409) that change nothing are either no step or
return the worker to idle. `EndTrip`, `DeactivateAssignment`, `DeleteAssignment`
and `AutoClose` have one effective statement and fall between any others. The
partial unique index `uq_route_assignments_active_bus` is `IndexAllows`, applied
where the write happens; the foreign key from trips to assignments is a guard
of `DeleteAssignment` and of `StartInsert`. A PATCH of dates only is left out
(it touches nothing modelled), and so is the check of a driver's role and
activity (drivers are a constant set). One organization is modelled: every
query filters on it and no row changes its organization.

`missed` says precisely where a check no longer counts. `HasRead` is what a request has
looked at by the point it is at: a row of `route_assignments`, the trips on one, the
`deleted_at` of a bus. Whoever writes one of these adds it to `missed` of every request
that had read it (`Touched`). A statement that only takes away (deactivate, delete, end,
the job) adds nothing, because it makes no check wrong. The properties no index keeps are
stated against it: a driver comes to a second active assignment only through a request
that missed one of the two rows, and so on. That is stronger than to say they hold
without concurrency, and it is what the checks of the code are worth.

### GpsTracking
`GpsTracking` follows a ping through `gpsService.ingest` and its handler:
`Resolve` (on a pool connection) → `InsertLog` → `UpsertLive` → `SelectStops` →
(`InsertArrival` → `CheckStop`)* → `Commit` → `Reply` → `FanOut`. Around it run
`StartTrip`, `EndTrip`, `Rebind` (assignment updated or deactivated), the edits of the
stops, the jobs `AutoClose` and GPS-offline, the passing of 30 seconds (`Age30s`) and 30
minutes (`Age30m`), statement failures (`Fail`, `StopsFail`) and the death of the
process (`Crash`).

The transaction is modelled as PostgreSQL runs it: its writes become visible at
`Commit`; each statement reads what is committed when it starts; the upsert of
`bus_live_status` holds the bus's row (`HoldsRow`), the inserts hold index entries of
`stop_events` (`HoldsEvent`) and, once the foreign key is checked, the rows of the stops
FOR KEY SHARE (`HoldsKey`) until the transaction ends, and whoever needs them waits
(`WaitsFor`). `NOW()` is the time of BEGIN, here the number of the transaction. `Stops
within 75 m` is any set, chosen with the SELECT. `Place` ranks the stops by `stop_order`,
which no index makes unique: stops of one rank come in any order (`Firsts`). `StartTrip`
is one step here and `AutoClose` picks any set of trips in `Dispatch`; each is detailed in
the other module.

The empty catch takes every error of the INSERT (`Swallowed`): that of the foreign key
(`CheckStop` on a stop that is gone), that of the victim of a deadlock (`Victim`), and any
other (`InsertFails`). The transaction is aborted by then and has let its locks go; the
stops that had arrived before stay in `arrived`, those behind it throw as well; `Commit`
is then a rollback that reports no error, and is recorded in the history variable
`lost`. An error outside the catch is a 500 (`Fail`), and a COMMIT that is done but whose
answer does not come is one too (`LoseCommit`). `cut` is history as well: what was
committed and never came to its broadcasts.

| Action | Code |
|---|---|
| `AddStop` | `routeService.addStop`, one INSERT |
| `ReplaceStops → DeleteStop* → CommitStops` | `replaceStops`: its DELETE takes the rows one by one in the order it finds them, and waits for those a ping holds; its foreign key is checked at the end (`RefuseStops`, also for the victim of a deadlock) |
| `GpsOffSelect → GpsOffRow* → GpsOffEnd` | the one UPDATE of `gpsOffDetection`: it selects its rows, waits for each, and looks at its condition again |

### Sessions and RefreshTokens
`Sessions` is the promise to a client: a login begins a session (`Begin`); a token is
exchanged for one new token of the same session (`Exchange`), and is dead by then;
tokens lapse and never become usable again (`Lapse`); only a token two requests
`Meet` at may be exchanged twice. `RefreshTokens` is the code: the
rows of `refresh_tokens` of one user, and each rotation as the four
statements it is: `Read` (a revoked row leads to `RevokeFamily`) → `Issue` →
`RevokeOld` → `Reply`. A client may present any token it was ever given, at any
time. `parent` and `session` record where a row came from; `uses`, `tainted` and
`raced` are history that only the properties read. Registration ends in the
same insert as login. `is_active` is not read by refresh and is left out.
It implements the promise: `SessionsKept` is `Line!Spec`, where a token is `usable` when
the client holds it and refresh would not refuse it (`Standing`), and `forked` is
`raced`. The refinement leaves out what a client cannot see: the rows nobody was given,
`replaced_by`, and the statement a rotation is at.

### GpsRateLimit
The `Map` as a sequence of entries in iteration order, with `Put`, `Evict` and
the decision `TooSoon`; `accepted` remembers what the limiter itself may have
forgotten. Requests run in one synchronous piece, so nothing interleaves.

### AlertLifecycle and Alerts
`AlertLifecycle` is the promise: active → acknowledged → resolved, never back;
the acknowledgement stays what it is once written, the last resolution counts,
a deleted alert never returns. `Alerts` is the code: `alertService`,
`sosService`, `checkinService`, `tripService.end` and the delay job over the
tables `alerts` and `sos_alerts`. It implements the promise twice, as `AlertFeed`
and as `SosFeed`; the refinement maps each table, as a function from row to
record, to the three columns `status`, `ackBy`, `resBy`. The property
`LifecyclesKept` is `AlertFeed!Spec /\ SosFeed!Spec`.

| Action | Code |
|---|---|
| `AckAlert`, `ResolveAlert`, `AckSos`, `ResolveSos` | one guarded UPDATE each, with `COALESCE(acknowledged_by, …)` as `FirstOf` |
| `RemoveFind → RemoveDelete` | `getById`, then DELETE; two requests may have found the same row |
| `SosInsert → SosCommit → SosAudience → SosNotify → SosAnnounce` | `trigger`: the transaction with both rows, `resolveAudience`, the bulk insert of notifications, the broadcast of the handler |
| `Fail` | a statement fails: before COMMIT the request ends, after it the error is logged and the call still announced |
| `DelayJob` | one alert for each late trip, on every run |
| `Checkin`, `EndTrip` | what an SOS reads of the trip; neither asks for the other |

`boarded` has the pairs of a trip and a child with a row "boarded", which is what
`resolveAudience` looks for; in `onBoard` it is the last row of the pair. `aboard` is
history: the children on board when an SOS was stored, and ever since. These are whom the
comments promise to tell the parents of ("currently checked-in (boarded)"); that the query
also finds children who got off is a disagreement of section 3.

### Office: Pool, Accounts, Roster, Seed
`Pool` holds the requests being served and the connections they use; its
`Query`, `Connect`, `Statement` and `Release` are the only ways for the modules
above it to take a step, so that every chain of statements is also a chain of
borrowed connections. `Accounts` (users and roles) and `Roster` (plate numbers,
routes of a child) are two sets of chains over it; `Seed` is the chain of
`migrations/seed.js` over both; `Office` puts them together with the pool's
timeout (`Timeout`), PostgreSQL's deadlock detector (`Victim`) and failures.

What a transaction has written stays in the `job` of its worker until COMMIT,
which makes it visible at once. The locks it holds follow from that (`Inserted`,
`Upserted`, `Granted`, `Revoked`, `Referenced`), and `Blocks(v, w)` says who
waits for whom: for a key in a unique index, for a role somebody upserts, for a
row of `user_roles` somebody has deleted. A DELETE takes its snapshot in one
step (`UpdateSnapshot`) and finds what is left of it in the next
(`UpdateDelete`), as READ COMMITTED does. `mixed` and `raced` are history: what
two requests wrote at the same time.

### Boot: Migrations
`Migrations` is one run of `runPendingMigrations`, or of `migrate.js` up or
down, per runner: read what is applied, then one transaction per file with its
SQL and its row (`RunSql`, `Commit`). Versions are numbered in the order of
their file names. A second run that meets a version in an open transaction
waits, and then fails on what it finds. `Boot` adds who runs it: the API of each
node (`Launch`, `BootDone`, `BootFailed`, and `autorestart`), git-sync's ticks,
which may overlap, and the command line; releases (`Push`, `Deploy`), crashes
and failures happen around them. git-sync pulls into a directory of its own
(`repo`), while the migrations that run afterwards read those of the image.

### Requests: Routers
`Routers` lists every mount and every layer of every router in order, as data: method,
path, the middleware in front of the handler, and the handler by what it does. Most are
`Async` (behind `asyncHandler`); some of these answer 404 themselves (`Finding`), 503
(`Ready`), or work on after their answer (`Ingest`); `/health`, the viewer (`File`) and
the stream of the logs (`Stream`) are not behind `asyncHandler`.

`Requests` follows one request: body parser, `apiLimiter`, the mounts whose prefix it has,
in their order (`Mount`), the layers that fit (`Dispatch`), the middleware of each, the
handler, its rejection (`Catch` is `asyncHandler`) and `errorHandler`. A handler may fail
before it has answered (`Throw`, `Reject`) or when the headers are out (`FailLate`); then
`errorHandler`'s own `res.status().json()` throws, and Express destroys the connection.
One request at a time is enough because requests share nothing here but the caller's
roles, which `ChangeRoles` may change between any two steps. Whether a body parses, a
limiter is exhausted or a handler throws is a free choice. The lines that `Routers` stands
for contain the API's OpenAPI comments between the registrations.

### Other modules
`MCDispatch`, `MCGpsTracking` and `MCRefreshTokens` add the symmetry sets the
runs use, `MCAlerts` and `MCBoot` the values of function and tuple constants.
`Dispatch_proofs`, `GpsTracking_proofs`, `Alerts_proofs`, `GpsRateLimit_proofs`,
`RefreshTokens_proofs`, `Office_proofs`, `Boot_proofs` and `Requests_proofs` hold the
theorems.
Operators whose comment begins with "Mutant of" are faulty variants of the
definition after them: putting one in the place of that definition makes TLC
find the property it belongs to violated, which shows that the property depends
on that piece of code.

## 3. What the runs check

| Run | Instance | Shows |
|---|---|---|
| `dispatch_race` | 2 workers, 2 buses, 2 drivers, 2 assignments, 1 trip | `OneActivePerBus`, `TripKept` (a trip keeps its assignment and ends once) under every interleaving; `OneActivePerDriver`, `DeletedBusIsFree` (a bus is deleted while nothing active holds it, and gets no assignment afterwards) but for what a request missed |
| `dispatch_starts` | 2 workers, 1 bus, 2 drivers, 2 assignments, 2 trips | `ResolveUnambiguous`, `StartsOnlyFreeDriver`, but for what a request missed |
| `gps_safety` | 2 workers, 2 buses, 3 rows of stops, 2 pings, 1 upset | `ShownIsStored`, `ArrivalAnnounced`, `OfflineMeansOld`, `NotifiedOnce`, `NoWaitCycle` |
| `gps_live` | 2 workers, 1 bus, 2 rows of stops, 2 pings, 1 upset | `PingFinishes`, `SilentTripCloses` |
| `tokens` | 2 workers, 4 tokens, 1 crash | `SessionsKept` (the refinement), `RotationKept`, `OneLivePerSession`, `ReplayEndsSessions` |
| `limiter` | 3 buses, room for 2, 7 ticks | `TypeOK` (the Map is bounded, one entry per bus), `PaceKept` |
| `alerts` | 1 worker, 2 managers, 1 caller, 1 trip, 1 child, 2 alerts, 1 SOS, 1 crash | `LifecyclesKept` (the refinement), `BoardedParentsTold`, `StoredIsAnnounced` |
| `office` | 2 workers on a pool of 2, 3 requests, 1 e-mail, 2 roles, 1 plate number, 2 routes | `RolesKept`, `DoublesOnlyInRace`, `Answered` |
| `boot` | 2 nodes; boot on each, 2 ticks and the command line on one; 2 versions, 1 stop, 1 failure, 1 command | `SchemaIsTable`, `ServesComplete`, `InOrder`, `BootCompletes` |
| `requests` | all mounts and routes; callers with any set of super_admin, school_manager and parent | `ReachesItsOwn`, `DecidedByRoles`, `AnsweredOnce`, `RequestEnds` |
| `gps_stop_edit` | 2 workers, 1 bus | **violated**: a ping answered 202 is stored nowhere |
| `create_user` | as `office` | **violated**: `createUser` reads the user back and still loses it |

Every run of a module also checks its `TypeOK`, except where two runs share one.

Why the bounds are enough. Every race in this code is between two statements of
two requests and one that falls between them, so two workers plus the
single-statement actions contain it; two buses and two drivers are what a
conflict needs, two assignments and two trips what a driver must not have; a PATCH of
one field at a time reaches what one of several does, because each field is checked on
its own and two PATCHes may follow each other. `dispatch_starts` has one bus: a driver's
trips and the trips of a bus differ by their assignments, of which it has two. Two pings
race for one row and one stop; in `gps_safety` three rows of stops, two of them with the
same `stop_order`, make an order of locks and leave one to be added or put in the place of others, and the one upset is an edit, a
change of bus, a statement that fails, a COMMIT without an answer or a death of the
process: each of the hazards needs one of them. More of them are covered by the theorems.
four tokens make a chain with a fork (login, two rotations of one token, one
more rotation). In `alerts` everything that writes a row is a statement of its
own, so one worker is in the middle of an SOS or a deletion while managers, the
job, check-ins and the crash fall between its steps; two managers are what it
takes to overwrite an acknowledgement. What more workers add is covered by the
theorems of section 4. In `office` two requests fill a pool of two, which is
every way of waiting for a connection; the third meets what they left. One
e-mail address is enough because accounts meet only in it and in the roles. In
`boot` two nodes race for a version, two ticks overlap, and two versions make an order.
In `requests` three roles let a caller have one that suffices, one that does
not, both, and none.

Where the bound on rows is reached the insert has no effect and the request
ends, or the worker stays where it is; no property relies on that. Deadlock
checking is off where the bounded system really comes to rest (tokens, pings,
alerts or requests used up, the clock at its end), and on in `dispatch_race`,
`dispatch_starts`, `boot` and `requests`.

The violated runs:

* `gps_stop_edit`: the empty catch of `gpsService.js:93` expects unique conflicts,
  which `ON CONFLICT DO NOTHING` never raises; what it does swallow aborts the
  transaction. In the shortest trace the INSERT is cancelled; that it inserts a stop
  which `replaceStops` has just deleted, or is the victim of a deadlock with it, does the
  same. Stops that had arrived before it are broadcast, and their parents notified, without
  a row, and again with the next ping: `ShownIsStored` and `NotifiedOnce` except the pings
  of `lost`, and nothing else.
* `create_user`: `userService.js:92` calls `getUserById` inside
  `withTransaction`, on another connection of the pool, which does not see the row
  that is not committed. It throws 404 and the transaction is rolled back, against
  the 201 that `user.routes.js` documents. With a pool full of such requests
  each has one connection and waits for a second; only the timeout ends that, which
  is why `Answered` needs `Timeout`.

Without their exceptions `OneActivePerDriver`, `ResolveUnambiguous`,
`StartsOnlyFreeDriver` and `DeletedBusIsFree` do not survive two workers: only the bus of
an active assignment has an index. A bus is deleted while an active assignment holds it:
create finds the bus live, `busService.remove` finds no active assignment, create inserts,
remove writes `deleted_at` (`CreateBegin`, `RemoveBusCheck`, `CreateCheck`,
`CreateInsert`, `RemoveBusWrite`), although `bus.routes.js:132` documents a 409 for it.
Two creates that look together give a driver two active assignments, and two starts that
look together two trips. The exceptions are exact: they name the row, the trip or the bus
that was written between a request's look and its write, by the request that did it.

### Disagreements
Seen while modelling, and without a run of their own:

* A deleted bus gets an active assignment: `updateAssignment` asks for
  `deleted_at` only when the PATCH names a bus (`driverService.js:175`).
  Deactivate the assignment, delete the bus, activate the assignment;
  `busService.js:113` means to exclude it.
* A driver has two trips in progress: `tripService.js:15` promises one per
  driver, and `tripService.js:42` finds the driver of a trip through its
  assignment. Start a trip, re-assign the driver, start another, re-assign back;
  no concurrency is needed.
* The parents of children who got off are told of an SOS: `sosService.js:9` promises it to
  those "currently checked-in (boarded)" and `sos.routes.js:25-26` to those "currently
  boarded", but the query of `sosService.js:27-35` asks for any row "boarded" of the trip,
  also when one that says "left" came after it. `BoardedParentsTold` is about those the
  comments mean, whom the query finds as well; the others are told besides.
* A refresh token is used twice: "single-use" (`OPERATIONS.md:124`),
  "atomically" (`refreshTokenService.js:39`), but the read at line 50 and the
  update at line 78 do not exclude a second request in between.
  `SessionsKept` shows that such a race is the only way.
* git-sync does not bring new migrations to the database: `README.md:315` of
  the repository says a pull runs them, but `autoMigrate.js:10` reads the directory
  of the running code. They arrive with the next deployment.
* A check-in on a trip that is over is accepted: the header comment of
  `checkinService.js` says "in_progress" (line 8), the query does not (line 13).
* The delay job is called idempotent per stop, and inserts its alert again on
  every run (`jobs/index.js:49` and `:64`).
* The GPS limiter answers 400 (`gpsRateLimit.js:35`) where its header and
  `gps.routes.js:94` say 429.
* A body that is not JSON is answered 500, and `apiLimiter` answers 429, without the
  envelope that `responseEnvelope.js:4` says all JSON responses have: both come from in
  front of it. (Files, and the routes that set `skipEnvelope`, opt out of it as lines 10-14
  say.) `apiLimiter` means to spare `/logs`, but sees the path with the prefix of the API.
* The header of `user.routes.js` lets a school_manager change users; the routes
  ask for admin or super_admin.
* `requireAuth` does not look at `is_active` or `deleted_at`: an access token
  outlives its user until it expires.

### Fairness
`gps_live` assumes weak fairness of each worker's next step (`Handle`): Node runs
a continuation when its query answers, and PostgreSQL grants a lock when its
holder ends, and breaks a circle within a second (`Victim`, `RefuseStops`). The
statements of `replaceStops` (`Editing`) and of the GPS-offline job (`Sweeping`) go on
for the same reasons. `Fail`, `InsertFails` and `StopsFail` are not part of it: a ping
must finish without being rescued by an error. The auto-close job is weakly fair
(`setInterval` fires for as long as the process lives, `safe` swallows a failed run).
Time is not: that a trip falls silent is the premise of `SilentTripCloses`. Nothing makes a
driver start, send or end anything, and `Crash` has no fairness.

`alerts` assumes the same of `Handle`, and `StoredIsAnnounced` excuses a crash:
what it does to unsent broadcasts, the code does not repair. `office` assumes weak fairness of each worker's next
statement (`Step`), of the pool's timer (`Timeout`, `connectionTimeoutMillis`)
and of PostgreSQL's deadlock detector (`Victim`), not of `Fail`. `boot` assumes
that a process goes on with its run (`RunStep`) and that `autorestart` starts a
server that is off (`Server`); that a boot completes needs the bound on stops
and failures, which stands for their being finite. `requests` assumes that Node
runs what is ready (`Step`).

## 4. What is proved

All for arbitrary constants. The assumptions are those of the modules:
`BoundAssumption` (the bounds are natural numbers; for `Alerts` also that there
are finitely many trips, which the number of rows one run of the delay job
inserts needs), `NoneAssumption` (NULL is no value of a column), for `Dispatch` that
patches are patches (`PatchAssumption`), for `GpsTracking` that every stop has a rank
(`PlaceAssumption`) and that the job and `replaceStops` are no pings
(`AgentAssumption`), for `Requests` that the roles are ones of the program
(`RolesAssumption`), and for `Boot` that
there are migrations and that the run of a node's own boot is one of the runs
(`MigrationsAssumption`, `BootAssumption`). Each inductive invariant was checked by
TLC on the instance of one of the runs.

`Dispatch_proofs`:

* `TypeCorrect`: `Spec => []TypeOK`, one step per action.
* `BusInvariant`, `TripIsKept`: `OneActivePerBus` and `TripKept`, for any number of
  concurrent requests; the two halves of `TripKept` are `TripInvariant` and `EndInvariant`.
  Two lemmas carry them: `AssignmentStep` (a step changes at most one
  assignment, to a row the index accepts, or removes one no trip refers to) and
  `TripStep` (a step starts one trip on an existing assignment or closes trips
  in progress, and touches no assignment). Given these, each property is inductive with
  `TypeOK`.

* `DriverInvariant`, `ResolveInvariant`, `StartsFree` and `DeletedIsFree`:
  `OneActivePerDriver`, `ResolveUnambiguous`, `StartsOnlyFreeDriver` and `DeletedBusIsFree`,
  for any number of concurrent requests too.
* None of them is inductive: between a check and its write the request relies on what
  it saw. `AllKnown` is the invariant that says what that is worth: for each request,
  whatever it found out still holds (no other active assignment of the driver, no trip of
  the driver, no active assignment of the bus, a bus that is not deleted, the row it read),
  *except* for the rows, trips and buses in its `missed`. `KnownStep` goes through the
  actions: what is written is either missed by all who had read it (`RowKnown`, `TripKnown`,
  `BusKnown`), or was only taken away (`Less`: rows vanish or become inactive, trips end),
  which never undoes a check (`LessKnown`).
* The action properties then follow at the step that writes: a request that has missed
  nothing of the rows concerned knows what the property asks for. `ResolveInvariant` needs
  `OneTripPerAssignment`, which is inductive with `AllKnown` (two trips are in progress on
  one assignment only if one of them is in `blind`), and `OneActivePerBus`.
* `DeletedIsFree` has two halves, `RemovalKept` and `DeletedStays`. An assignment the bus
  already had may become active again: `DeletedStays` does not exclude what the code allows.

`Alerts_proofs`:

* `TypeCorrect`: `Spec => []TypeOK`.
* `LifecyclesRefined`: `Spec => LifecyclesKept`, the refinement of
  `AlertLifecycle` by both tables. A step of the lifecycle looks at less than
  the code knows: that an active row has no audit and an acknowledged one has
  an acknowledgement, that rows beyond the sequence do not exist, and that what
  a deletion has found is or was a row. `AuditInv` says so and is inductive with
  `TypeOK` (`AuditInvariant`). `AlertStep` and `SosStep` then map each action:
  a second acknowledgement, and a second deletion of one row, are stutters; a
  run of the delay job raises several alerts at once. `OneRowWritten` and
  `RowsAdded` carry the writes over to the three columns of the mapping.
* `ParentsTold`: `Spec => []BoardedParentsTold`. Between COMMIT and broadcast
  the promise is in the worker's hands: `WorkerOK` says, for each point of
  `trigger`, that whoever is due (the parents of the children in `aboard`) is among the
  parents of those with a row "boarded", in the audience, or notified, unless the fan-out
  failed. Who gets off leaves `aboard`, and no row "boarded" is taken back. `CallsKept` is what every step
  leaves alone (calls that are stored, notifications that suffice, check-ins,
  which are never taken back), and `OthersKept` that under it no other worker is
  disturbed. That two workers might announce one call need not be excluded.

`GpsRateLimit_proofs`, from `LimitAssumption` (the Map has room for one entry;
NULL is neither a time nor an answer):

* `TypeCorrect` and `PaceIsKept`: the Map is one, within its bound, and the
  limiter keeps the pace. `Remembers` is what makes it inductive: an entry says
  when its bus was last let through. `PutKeeps` and `EvictKeeps` show that
  setting a key and dropping entries at the front preserve it.

`RefreshTokens_proofs`:

* `TypeCorrect` and `RotationIsKept`, for any number of concurrent rotations.
  `RotationInv` adds that rows are numbered without gaps and refer to rows
  (`RowsOK`), and what a worker knows at each statement of its rotation
  (`JobOK`): at the last one, the old row is revoked, which is why answering can
  give out the new token. `RowsKept` is what all steps have in common: no row is
  deleted, made valid again or given another parent; `ChainKept` and
  `ChainGrows` draw the conclusions for steps that write rows and that insert one.

* `TwiceOnlyInRace`, `SessionIsSingle` and `ReplayIsFinal`: the properties about races.
  None of them is inductive, because what they say of rows depends on what workers hold
  in their hands. `RaceInv` adds it: a token no other request met is in one hand at a
  time (`OneRotation`) and, once exchanged, revoked and in none (`Spent`); the rows of a
  session descend from each other (`Lineage`), and of those a client holds all but the
  last are spent, unless the session has seen a race (`OnlyLastUnspent`); a tainted
  token that a worker is about to exchange is in such a session (`TaintedInHand`). A
  second worker that reads a token in somebody's hand marks it, which is the one step
  that gives `OneRotation` up. `RaceStep` goes through the actions; `HandsKept`,
  `LineageKept`, `TaintKept` and `RacedGrows` are what most of them share.
* `SessionsRefined`: `Spec => SessionsKept`, the refinement of `Sessions`. A login is a
  `Begin` and an answer an `Exchange`; every other step is a `Lapse`, a `Meet` or both
  (`LapseStep`). That an answer is an exchange needs all three invariants: `JobOK` (the old
  row is revoked, hence dead), `Spent` (it was not exchanged before, unless raced),
  `Lineage` (the session is the same), and `Fresh`, which is added here: a token that was
  issued and not answered is held by no client, and by one worker.

`Office_proofs`, from `PoolAssumption`, `RolesAssumption` (`admin` and `parent` are
roles) and `SeedAssumption` (the seed's account, role and route are ones of the model):

* `TypeCorrect`, `RolesAreKept`, `DoublesNeedRace`: `TypeOK`, `RolesKept` and
  `DoublesOnlyInRace`, for any number of requests, connections, accounts, roles and
  routes.
* What a transaction has written is in its worker's `job`, and the locks follow from it,
  so the invariant relates jobs to tables and to each other. `JobOK` says what a request
  knows: an account it updates has a row, one it has inserted has none that is
  committed, the rows its DELETE has seen are all there are, unless the account is
  `mixed`; a bus or link it is about to add is not there, unless it is `raced`. `Apart`
  says what two requests do not both do: insert one account, update its roles while the
  other writes them, seed, or add one bus or link. The waits give `Apart` when a row is
  inserted (`Waits` in `AccountInsertStep`) and when a seed upserts the roles
  (`SeedFirstStep`); where no lock helps, the history variables record the race
  (`WritingOf`, `BusFindStep`, `LinkFindStep`).
* `Moves` carries `JobsInv` over a step of one request whatever happens to the data,
  `GoesOn` over a step that claims nothing new, `Ends` and `AbortStep` over the end of a
  request; `StillOK` says what the others need of a COMMIT, `Stays` covers the requests of
  one statement. Liveness of the pool is not part of this: see below.

`Boot_proofs`:

* `TypeCorrect`, `SchemaIsKept`, `ServesIsComplete`, `OrderIsKept`: `TypeOK`,
  `SchemaIsTable`, `ServesComplete` and `InOrder`, for any number of nodes and runs.
  `BootInv` adds what the run of a booting node knows: whatever its image contains is
  applied, was rolled back, or is among what the run has left to do. `OrderInv` says that
  unless a rollback has met a run that applies versions, what is applied is `1..k`, each
  such run goes on with an interval that begins at most at `k + 1`, and a rollback has
  found `k` or more (`OrderAt`). `ServesGrows` is what the steps of other runs leave of
  the first; the least version of what is left is the next one (`LeastOf`, `AppliesOf`).

`Requests_proofs`:

* `TidyRoutes`: in every chain of every router of the table, the handler is the last
  step, so that no check is behind it. One case per router.
* `RoutesReached`: `ReachesItsOwn`, a request is served by the route it was made for, and
  404 is answered only to one made for none. Three facts about the table carry it:
  `DistinctMounts` (no two mounts have the same prefix) and, one case per router, `ShapedRoutes` (paths have at most three segments, and what
  `router.use` puts in front serves nothing) and `UnambiguousRoutes` (of two routes of a
  router, the earlier does not take a request for the later: their methods, lengths, or a
  segment that is spelled out, differ). `Routed` is inductive: a request is in front of its
  own mount or in it, has only passed layers in front of its own route, the chain it is in
  is its own or that of a `router.use` in front of it, and `notFound` answers only what has
  no route. `MountRouted` takes it to its mount, `DispatchRouted`,
  `PassedRouted`, `StoppedRouted` and `ChainRouted` through the layers. A
  path with a parameter put in front of one that is spelled out makes
  `UnambiguousRoutes` false.
* `TypeCorrect`, `DecidedFairly`, `OneAnswer`: `TypeOK`, `DecidedByRoles` and the action
  property `AnsweredOnce`, for every set of roles. `Sound` is inductive: `always ⊆ roles ⊆
  ever` while a request is served, the same of the roles read for it, `Checked` (each
  `requireRole` behind the request has met one of its roles) and `FailureKnown` (who
  has failed, what is meant to be answered then, and what has been sent: nothing while the
  request is on its way, so that only behind a handler can a failure come late). That `Checked` covers the
  whole chain when the handler runs is `TidyRoutes`.

`GpsTracking_proofs`:

* `TypeCorrect`, `ShownStored`, `RecordedAnnounced`, `OfflineIsOld`, `NotifiesOnce`,
  `NoDeadlock`: every invariant of the module that the code keeps, for any number of pings,
  buses, stops, ties, edits, failures and crashes.
* `Inv` is one inductive invariant for all of them. `JobOK` says what a ping knows at each
  statement. While its transaction is whole, what has arrived is an entry of the index, its
  own or a committed one; once an error was swallowed nothing is known of it, and after
  COMMIT such a ping is in `lost`. With that `ShownIsStored` holds whatever
  `replaceStops` does: a stop with a committed entry stays, because the foreign key refuses
  its DELETE, and one with an entry of an open transaction is waited for.
* `ArrivalAnnounced` is part of it: each step that commits entries leaves its ping at the
  broadcasts or in `cut`, and the broadcasts are of all that has arrived, the ping's own
  entries among them.
* `NotifiedOnce` rests on the row of the bus: `Apart` says that two pings of a bus do
  not both hold it and do not claim one stop (`Claim`: what a ping whose transaction is whole
  may yet notify), `Unsaid` that nobody who was stored has notified what a ping claims, and
  `SaidOnce` that of a stop without an event only pings of `lost` have. `SelectStops` sees
  every stop claimed by those before it as an event. A ping that swallows an error claims
  nothing any more.
* `OfflineMeansOld` rests on the lock of the job's UPDATE (`SweepOK`): what it has locked
  is silent, and no ping can write it until the job has ended.
* `NoWaitCycle` rests on the order of the stops (`NobodyInTheWay`): of those who wait for
  an entry, where no two tie, the one furthest along the route waits for nobody in the group.

A note on reading the modules: `tlapm` takes `SUBSET S \ T` as `SUBSET (S \ T)`, TLC as
`(SUBSET S) \ T`. Such expressions are written with the parentheses of the latter.

Only model-checked: liveness (`PingFinishes`, `SilentTripCloses`,
`StoredIsAnnounced`, `BootCompletes`, `Answered` and `RequestEnds`), which is out of the prover's
reach (`ENABLED` and fairness). Every invariant, every action property and both refinements
that a passing run checks are proved.

## 5. Not modelled

* ETA: a read and a computation in floating point. Geofences, organizations,
  analytics: single statements and reports. The reader of the logs, OpenAPI
  documentation, the UI, zod schemas and settings: I/O, text and declarations. Their
  routes are in `Routers`.
* The websocket's rooms and its delivery; a broadcast is counted. Push, a stub in the
  code. Device tokens, one upsert.
* The counters of express-rate-limit: that a limit is reached is a free choice.
  HEAD and OPTIONS, which Express answers by itself.
* Passwords, profiles, `deactivate`: columns that nothing modelled reads; and so are the
  fields of `updateUser`. (Its UPDATE, `userService.js:115-122`, is committed before the
  roles are looked at, and stays when an unknown role answers 400.) A PATCH of dates of an
  assignment.
* The seed's assignments, trips, fixes and notifications. `ensureAssignment`
  (`migrations/seed.js:198-209`) inserts an active assignment with none of the checks of
  `createAssignment`: the properties of `Dispatch` are about `driverService`, and the seed
  can give a driver two active assignments by itself.
* Two `replaceStops` of one route at a time, which wait for each other's rows.
* The envelope's shape (`responseEnvelope`), and what is served beside the routers:
  `/api/docs.json`, `/api/docs` and `/tests`, static text without state.
* Whether `delayDetection`'s comparison of times means what it says in SQL: here
  any trip in progress may be late.
* The order of file names under the database's collation: versions are numbers.
* Floating-point distances: any set of stops may be within 75 m.
* Also without a property: a ping resolved before its trip ends still stores a
  fix (`gpsService.js:107`); two buses on one trip, after a change of the
  assignment, may each notify the parents of a stop.

## 6. Plan

Done: Dispatch, GpsTracking, RefreshTokens and Alerts with their
refinements, GpsRateLimit, Office, Boot, Requests; the proofs of section 4.

Every safety property of a passing run is proved. What may follow: two replacements of a
route's stops at a time, the seed's assignments as requests of `Dispatch`, and an abstract
specification of a pool or of an account that `Office` implements, as `Alerts` implements
`AlertLifecycle` and `RefreshTokens` implements `Sessions`.
