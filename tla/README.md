# TLA+ verification of the AI CCTV platform

The platform takes video from IP cameras, has frames analysed, turns detections
into incidents and alerts, and shows cameras, incidents and alerts to the members
of an organization. This directory holds TLA+ models of its server
(`server/src`), the TLC configurations that check them on small instances, and
proofs that TLAPS checks for every instance.

Paths below are relative to `server/src` unless they start at the root.

## 1. The system

Three kinds of processes share one PostgreSQL database:

* the **API** (`index.ts`, `app.ts`, `routes/`, `realtime/`, `jobs/worker.ts`):
  one Node process, many requests at a time, every `await` a point where other
  requests run;
* the **media worker** (`media-worker.entry.ts`, `media/worker.ts`): one Node
  process that runs an ffmpeg child per camera, sends frames to the inference
  service and reports detections, health and statistics to the API's
  `/internal` routes;
* the **inference service** (Python): stateless, a frame in, boxes out.

### Components

| component | state | operations | interacts with |
|---|---|---|---|
| detection engine, `ai/engine.ts` | `events`, `alert_cooldowns`, `audit_logs`, `notifications` rows | `processDetection`: find the rule, read the cooldown, fold / upgrade / create, upsert the cooldown, alert | called by `routes/internal.routes.ts`, `routes/events.routes.ts`, `jobs/worker.ts`; publishes to `realtime/hub.ts` |
| rule evaluation, `ai/rule-eval.ts`, `zone.ts`, `schedule.ts`, `tracker.ts` | tracks per camera (memory) | which event types a detection raises, presence and loitering | `/internal/detections` |
| camera health, `media/health.service.ts` | `cameras.status/health`, `camera_health_events` | `applyHealthUpdate` | worker reports, connection tests; publishes |
| camera pipeline, `media/worker.ts` `CameraPipeline`, `media/frame-source.ts` | current source, reconnect attempts and timer, counters, one ffmpeg child | start, exit, reconnect, frame, inference, flush, stop | posts reports to the API |
| media worker, `media/worker.ts` `MediaWorker` | the Map of pipelines | poll, reconcile, shutdown | database, pipelines |
| HLS sessions, `media/hls.service.ts` | the Map of ffmpeg sessions | ensure, read, stop, reap | `routes/cameras.routes.ts` |
| realtime, `realtime/hub.ts`, `ws.ts` | channels and sockets | subscribe, publish, close | every publisher |
| dashboard cache, `services/cache.service.ts` | cached counters | read-through, invalidate | engine, health, routes |
| database access, `db/pool.ts` | two pools, per-connection tenant settings | `withTenant`, `withUser`, `withAppRole` | everything |
| cameras and plans, `routes/cameras.routes.ts`, `billing.routes.ts` | cameras, credentials, subscription | create under a limit, change, delete, test | worker, health, HLS |
| event lifecycle, `routes/events.routes.ts` | incident status | acknowledge, resolve, ingest | engine |
| accounts, `services/auth.service.ts`, `routes/members.routes.ts` | users, sessions, memberships, roles | sign up, log in, invite, change role, suspend | middleware |
| jobs, `jobs/worker.ts` | none of its own | `processAiJob`: the result of a job is ingested, in one transaction | engine, incidents, notifications; publishes |

### What is hard here

1. **READ COMMITTED and reads without locks.** `withTenant` opens a plain
   transaction. The engine and the health service read a row, decide, and write
   it later in the same transaction; two requests may both decide on the old row.
2. **Effects that are not transactional.** The realtime message is sent before
   the COMMIT; a rollback cannot take it back.
3. **Fire-and-forget requests.** The worker does not await its health reports:
   they are lost and overtake each other, and several are processed at once.
4. **Callbacks that outlive what they belong to.** Frames arrive after `exit`,
   timers fire after `stop`, an inference answers after its pipeline was replaced.
5. **Awaits between test and set** in `MediaWorker.reconcile` and in
   `HlsManager.ensureSession`.
6. **Windows.** Cooldown and correlation windows of different lengths, expiring
   between two steps of one request; a cache entry and a stream token that outlive
   what they were made from.
7. **Checks before writes.** `requireTenantResource` sees a row that may be gone at
   the INSERT; cameras are counted before they are inserted; a slug is probed before
   it is taken. Foreign keys and unique indexes decide in the end.
8. **One question, several queries.** The session, the membership and the data of a
   request are read one after the other, a rule, its zone and its schedule too.
9. **Retries.** An ingest with a correlation id may be repeated, by the route and by a
   job at once, and meets its own earlier, perhaps uncommitted, event.
10. **Deletion in cascade.** Deleting a camera or a site takes its incidents, rules and
   health events with it, empties references to them and keeps the audit log, while
   requests hold the deleted rows in hand.

## 2. Modules

| module | models | source |
|---|---|---|
| `DetectionEngine` | `processDetection` under concurrent transactions | `ai/engine.ts`, `db/pool.ts`, `routes/{internal,airules,cameras,sites}.routes.ts`, `db/migrations` |
| `CooldownPromise` | the abstract promise: one incident and one alert per camera, category and window | root `README.md` 246-255 |
| `Perception` | from a raw detection to event types: tracker, rules, zones, schedules | `ai/tracker.ts`, `ai/rule-eval.ts`, `ai/zone.ts`, `ai/schedule.ts`, `routes/{internal,safety,airules,sites}.routes.ts` |
| `CameraHealth` | `applyHealthUpdate` under concurrent callers | `media/health.service.ts` |
| `CameraPipeline` | one camera's pipeline and its FrameSources | `media/worker.ts`, `media/frame-source.ts` |
| `CameraFeed` | `CameraPipeline` composed with `CameraHealth` over a lossy, reordering channel, with connection tests | both, `routes/{internal,cameras}.routes.ts`, `media/connection.service.ts` |
| `MediaWorker` | `reconcile`, the Map, shutdown and restart | `media/worker.ts`, `media-worker.entry.ts`, `lib/crypto.ts` |
| `HlsSessions` | live playback: sessions, ffmpeg children, reaper, players | `media/hls.service.ts`, `routes/cameras.routes.ts`, `lib/crypto.ts`, `web/src/LivePlayer.tsx` |
| `TenantResources` | creation and deletion of configuration rows of several tenants, the camera limit | `routes/{sites,zones,cameras,airules,...}.routes.ts`, `services/resource.service.ts`, `db/pool.ts`, `db/migrations` |
| `Access` | sign-up, login, sessions, members, roles, sockets | `services/auth.service.ts`, `middleware/context.ts`, `routes/{auth,members}.routes.ts`, `realtime/{ws,hub}.ts` |
| `Incidents` | ingests by route and by job, operators, notifications, evidence, the dashboard cache | `routes/events.routes.ts`, `jobs/worker.ts`, `services/{notification,cache}.service.ts`, `routes/misc.routes.ts` |
| `*Proofs` | the theorems about the module they are named for | |

Each `MC*` module instantiates one of them for TLC. `PROJECT.json` maps every
definition to the lines it stands for. Operators marked `[mutant]` are plausible
bugs: each property has one that breaks it.

### DetectionEngine

A request `t` of `Tx` is one database connection. `pc[t]` is the statement it has
reached, `local[t]` the variables of `processDetection`, `pending[t]` what its
transaction has written and nobody else sees, `rowLock` and `keyLock` the locks
those writes hold until the end. `cameras`, `events`, `cooldowns` and `auditLog` are
the committed tables, `published` the messages of the realtime channel; `removed` is
history: the incidents that were committed and deleted since.

| action | code |
|---|---|
| `Receive`, `Refuse` | the route: BEGIN, the camera is visible and the types are known, or it is gone |
| `RejectDisabled`, `SkipDetection`, `FindRule` | `engine.ts` 101-125 |
| `ReadCooldown`, `ReadIncident` | 127-168: the two reads without locks |
| `FoldDetection`, `CreateIncident`, `UpsertCooldown` | 158-207 |
| `Alert` | 208-237: notifications, audit row, then the message |
| `Commit`, `Rollback` | `withTenant`, `pool.ts` 102-110; a crash of the API is `Rollback` of every open request |
| `ConfigureRule`, `Tick` | a rule changes, time passes, between any two steps |
| `RemoveCameras` | DELETE of a camera, or of a site with its cameras: incidents and rules go in cascade, a cooldown row stays and names no incident, the audit log stays |

A correlation upgrade is applied to the row at COMMIT (`EventsAfter`): the row is
locked from the UPDATE to the COMMIT, so nobody else can change it in between,
and the UPDATE re-reads the row it waited for, as READ COMMITTED does.

A deletion is one step, of the COMMIT: it waits (`Untouched`) for the requests that hold
rows it would take or that refer to them, and they for it. After it `WindowOpen` finds a
cooldown row without an incident, `ReadIncident` and `FoldDetection` find no row, and a
request that would insert what refers to a deleted row can only roll back. The model has
no tenant deletion; the code has no route for it.

### CameraHealth, CameraPipeline, CameraFeed

`CameraHealth` has the read of the prior status, the UPDATE and the insertion of
the event as separate steps of each request. `CameraPipeline` has an action per
callback of the Node process: an ffmpeg exit, the reconnect timer, a frame, an
inference that ends, the statistics timer, `stop`, the end of the grace period.
A health report that was sent is counted in `outbox`. In `CameraFeed` a report
in the outbox is delivered to `CameraHealth`, in any order, or lost. It EXTENDS both
modules, whose specifications therefore have names of their own (`PipelineInit`,
`PipelineNext`, `HealthNext`, ...): an action of the feed is one of a part with the
other left alone, except the delivery, which takes from `outbox` what a request then
processes. `ReportAssumption` says that what the worker reports is a status the API
takes.

`TestConnection` is the probe of `/cameras/:id/test` and `/test-connection`: it begins an
`applyHealthUpdate` of its own, with a status of its own, at any time and whatever the
pipeline does. `failedTests` and `reached` are its history. `Delete` removes the camera
with its health events while the pipeline goes on and reports about nothing.

### MediaWorker

`Walk` is the loop of `reconcile` from one `await` to the next, so one action is
what runs without interruption. A camera whose stored credentials do not decrypt
ends the process (`DecryptThrows`): the rejection of `reconcile` is unhandled.

### Perception

One camera. `Receive` is a request up to its first `await`: the tracker is updated
and the dwell time taken, unless the job states one itself (`given`). `ReadRules`, then
for each rule `LookUp` of its zone (once per request: `cache` is `zoneCache`) and `Judge`
with the read of its schedule, each see what is committed then; `SwitchRule`,
`DeleteZone`, `CreateSchedule` and `DeleteSchedule` happen in between, and `Restart`
empties the tracker. `presence`, `det.ever`, `det.always` and `det.shut` are history: what
was really seen, which rules, as stored, asked for their event at some time or all the
time of the request, and which zones were closed at some time of it.

Geometry, overlap and schedule are operators on integers (`PointInPolygon`, `Iou`,
`IsAfterHours`): coordinates count steps of the frame, centers are doubled and quotients
compared by cross-multiplication. The code computes in doubles. What its rounding can
change is the comparison at `zone.ts` 39 when both sides are equal, that is for a center
on an edge, and it can come out differently for the two directions of one edge: the
center (0.3, 0.3) is left of the diagonal of the unit square in one direction and on it
in the other. `Crosses` therefore leaves the verdict for a center on an edge to the
constant `Rounded`, any set of center and edge. Two sides that differ, differ by far more
than a rounding error as long as the steps are not about as small as one.

### HlsSessions

`sessions` is the Map, `procs` the ffmpeg children, `viewers` the players. The
`await mkdir` splits `ensureSession` into `OpenLive` and `StartTranscoder`; exits
are delivered by `ExitEvent`; `Tick` is 15 seconds, the interval of the reaper, and
`Reap` runs once before the next. `Restart` is a crash or stop of the API process:
its children become `"orphan"`. `overlapped` is history: processes whose entry a
second start overwrote.

### TenantResources

A member of `Tx` is a connection of the pool with the request that holds it.
`Create*` and `Delete*` are the routes: they put the references of the row into
`unchecked`; `Check` is one `requireTenantResource`; `CountCameras`, `Insert` and
`Remove` are the statements, `CommitCreate` and `CommitDelete` the COMMIT with its
cascades, `Fail` a rollback at any point. `Visible` is row-level security;
`Removing` and `Pinned` are the row locks of a DELETE and of the foreign keys of an
INSERT. A delete cascades without row-level security, as PostgreSQL does.

### Access

A member of `Visit` is a request or a socket, `step` the query it has reached. The
session (`Resolve`) and the membership (`ReadMembership`, `Subscribe`) are different
queries; what follows uses what they returned. `held` is history: every
organization and role in which its user was an active member at some time since
the visit began. A sign-up is four steps in two transactions (`CreateUser`,
`CreateOrganization`). A socket that closes during its handshake becomes
`"leaked"` when it is subscribed afterwards.

### Incidents

A request is an ingest by route or job, a status change, a note, or the deletion of a
camera; each statement is a step, and its rows are in the request until `Commit`. `Throw`
is an error of the store, a statement or the COMMIT at any of them: the ingest is rolled
back, a file it has written stays. `InFlight` is the wait of `ON CONFLICT DO NOTHING` for
an uncommitted row with the same correlation id, `Pinned` the locks a DELETE waits for.
`StoreSnapshot` writes a file outside the transaction; `Announce` is in the transaction
for a job and after it for the route. `Look`, `Count` and `CacheSet` are a dashboard
request, `Invalidate` the `cacheInvalidate` after a deletion.

### How they fit together

The modules share no variables except in `CameraFeed`; where one component calls
another, the callee's action stands for the call. A raw detection goes through
`Perception`, whose `det.raised` is a batch of `DetectionEngine!Receive`; a
pipeline's reports reach `CameraHealth` in `CameraFeed`; a camera that is created
or deleted is a row of `TenantResources`, an enabled camera of `MediaWorker`, a row
of `Incidents`; who may make a request at all is `Access`.

## 3. Runs

Twelve runs; each asks one question.

| run | instance | question |
|---|---|---|
| `engine_fire` | 2 requests, 2 incidents, fire and smoke on one camera that may be deleted, cooldown 2, correlation 1, time 0..2 | do cooldown rows, incidents, alerts and messages stay consistent under every interleaving, with rollback anywhere? |
| `engine_batch` | 2 requests, 3 incidents, batches of two event types in both orders, rules changing between none, too strict and disabled, the camera deleted | is a batch all or nothing, and its alerts with it? |
| `engine_serial` | 1 request, 2 incidents, 4 event types, the camera deleted, time 0..3 | does the engine, one request at a time, implement `CooldownPromise`? |
| `health_race` | 2 requests, 6 statuses, 3 messages | does an event ever commit without its status? |
| `pipeline` | 3 successive streams, delay 3 capped at 5 | never two ffmpeg processes, never silently given up, nothing reported after a stop; does a dropped stream restart? |
| `feed_safety` | 2 streams, reports processed one after the other, connection tests of which one may fail, deletion of the camera, 3 messages | does the record ever show an outage or a recovery that was not there? |
| `worker` | 3 cameras, limit 2, 3 changes, failing queries, one call at a time | is what runs always in the Map, within the limit although more is enabled, and do cameras start and stop? |
| `resources` | 2 organizations, 4 rows, 2 connections, limits 0 and 1 | do references stay in their organization, and is the camera limit exceeded by less than the connections? |
| `hls` | 2 cameras, 2 players, 2 processes, idle timeout 1, token life 2 | is a running transcoder in the map, is none reaped under a player, and do all end when the players are gone? |
| `access` | 2 users, 2 organizations, 2 sessions, 2 visits, 2 changes by administrators | does anybody act where, or as what, they were not a member? who changes members? |
| `perception` | 2 classes, 3 boxes, dwell times stated or not, 2 rules in 2 zones, 2 schedules that come and go, 4 ticks in days of 3 and weeks of 2 | is loitering presence, is what is raised what was configured, do zones tile off the cut, is after hours closed? |
| `incidents` | 3 requests, 2 cameras, 2 rules of different minimum, 2 severities, 1 correlation id, time 0..3 | do retries agree, rows stay complete, announcements match commits, and is the dashboard stale no longer than its cache? |

**Bounds.** Two requests are enough for a race between a read and a write; two incidents
(three in the batch) allow one to be folded into while another is created, and three time
units let a cooldown window end while a request is under way. One unit is ten seconds. Two
streams give every report an earlier and a later one of the same kind to be confused with.
Three successive sources give a reconnect before and after another. Four rows allow the
deepest chain of owners (site, camera, rule) with a link beside it (zone). Two processes
allow a start that overwrites another. Three cameras under a limit of two make the limit
cut the list. In `incidents`, two ingests and one operator overlap with a deletion, which
is every pair of writers and the deletion that disturbs both. `MaxAlerts`, `MaxTests`,
`MaxSources`, `MaxInFlight`, `MaxChanges`, `MaxPipelines`, `MaxTime` and `MaxClock` only
bound exploration: the actions they guard are the environment's (a report accepted, a
stream started, a change made, time passing). Runs whose bounds let the system use
everything up say `CHECK_DEADLOCK FALSE`.

**Constraints.** Four runs cut exploration by state or action constraints of their MC
module, each named there.

* `MCTenantResources`: plans change while one organization at most is busy, and states
  whose fourth row is not a rule or monitored object are not explored further.
* `MCIncidents`: two ingests, of one correlation id (`TwoIngests`); one status change or
  note at most, while no rule is missing (`OneOperator`); the second rule and the low
  severity, for which one rule is due and the other is not, with one request at a time
  (`RulesAlone`, `SecondStays`); the dashboard in behaviours of its own (`DashboardApart`).
* `MCPerception`: one of the two rules is switched (`NightStays`), a fire is seen at the
  start in one place (`FireEarly`), and the configuration changes only when no more than
  one person's track is there (`OneAtATime`).
* `MCCameraFeed`: of the two refusals a probe tells apart, which the API treats alike, one
  is explored (`OneRefusal`); two reports of the worker are under way at most
  (`FewUnderWay`); the grace period of a stopped process, the matter of `pipeline`, does
  not end (`GraceGoesOn`).

The theorems are about the specifications without the constraints.

**Symmetry.** Incident ids and requests are interchangeable in the engine, requests
in `health_race`, organizations, keys and connections in `resources`, everything in
`access`, requests and cameras in `incidents`. The runs with liveness properties use
no symmetry.

**Fairness.** `CameraPipeline!Fairness`: the timers of a live Node process fire
(`Reconnect`, `GracePeriodEnds`), and the kernel ends a process that was sent SIGKILL.
Nothing is assumed of cameras, frames, reports, or an ffmpeg that got SIGTERM.
`MediaWorker!FairSpec`: the interval of a live process fires, its queries end, and a
shutdown ends. Nothing makes a supervisor relaunch the worker, so `EnabledStarts` speaks
of a worker that stays up, and of times when no more cameras are enabled than the limit
(`Fits`): the query has no order, and of more cameras it may return the same one last at
every poll, which then never starts. `HlsSessions!Fairness`: time passes, the interval
fires, and an exit is delivered. Nothing is assumed of players or of ffmpeg, so
`AbandonedStreamsEnd` has players that leave for good as its condition.

## 4. What is proved

Eight modules hold theorems, each an extension of the module it is about. Every
invariant and every action property of every run is a theorem, for all values of the
constants that the stated assumptions allow; the other assumption of a theorem, where
it has one, is in its statement.

### DetectionEngineProofs

`DetectionEngineProofs` proves, for every set of cameras, event types, incidents
and concurrent requests, every rule configuration, every window length and
every bound on the clock:

| theorem | statement |
|---|---|
| `TypeCorrectness` | `Spec => []TypeOK` |
| `CooldownCorrectness` | `Spec => []CooldownTracksIncident` |
| `AlertedOnce` | `Spec => []AlertedExactlyOnce` |
| `UpgradesStick` | `Spec => []UpgradedIsCritical` |
| `NothingSilent` | `Spec => []CommittedWasPublished` |
| `OnlyEscalation` | `Spec => IncidentsOnlyEscalate` |
| `FewUpgradeAlerts` | `Spec => []UpgradeAlertsBounded`, if `Tx` is finite |
| `PromiseKept` | `Spec => KeepsPromise`, if `OneAtATime` |

Assumptions: `ConstantTypes` and `NilIsFresh` of `DetectionEngine` (the constants
have their types, `Nil` is none of the values it is compared with), and for
`PromiseKept` also `DistinctBuckets` (a batch has one type per cooldown key). TLC
evaluates them in every engine run. Any cameras may be deleted at any step. The locks
matter for that alone (`Locked`): what a request has written of an incident or a cooldown
row makes the deletion wait until it ends. Between requests they prevent less than one
might think; what they do not prevent is shown by `MC_engine_duplicate`.

The invariant `Inv`. None of the safety properties is inductive, because a
COMMIT publishes what a request decided many steps earlier. `Inv` adds what a
request carries with it:

* `Working`, `StepOK`: at each step, the incident at hand is committed and of the key
  being processed, or was deleted since (`Known`), or is the request's own; an upgrade is
  under way only for an incident that may escalate;
* `Grouped`: cooldown rows, committed or not, name an incident of their key, and the
  committed ones of a deleted camera none;
* `Fresh`: an incident being created belongs to one request, is not in the table and
  never was, and a deleted one does not come back;
* `Upgrading`: pending upgrades are of committed incidents that escalate;
* `AlertsOK`: a request's pending alerts are those of its creations and
  upgrades, and only the incident at hand may still lack one;
* `Locked`: a request holds the rows of the upgrades and cooldowns it has written.

`IncidentsTraced` is the heart of the argument: whatever one request commits or a
deletion takes, an incident another has read is still there, under the same key, and
still escalates, or it is in `removed`. The proof of a step shows `StepOK` and `AlertsOK`
for the request that moves and uses `OthersKept` for the others; `RemovalStep` is the
deletion, where `Locked` says that no uncommitted upgrade or cooldown loses its incident.

`FewUpgradeAlerts` counts: `UpgradesCounted` says that the upgrade alerts of an incident
on record and the requests that may still commit one (`Upgraders`) are together no more
than the requests there can be at once, which the pool's connections bound. The number
of requests over time does not matter, because once one upgrade is committed nobody who
reads the incident decides to upgrade it again.

`PromiseKept` is the refinement: one request at a time (`OneAtATime`, the requests of a
tenant do not overlap) implements `CooldownPromise` for every camera and category.
A step of the engine is a stutter except the COMMIT, which is a detection of the promise
inside or outside its window, the deletion of the camera, which starts the promise over,
and time. What the COMMIT writes was decided several statements earlier,
under a clock that moved on and rules that may have changed; `SerialInv` carries the
decision there: the window is still as it was read (`Decisions`), the types that are
left have keys nothing was written for (`KeysLeft`), a written window starts where the
request decided (`WindowsWritten`), and an incident that is created or upgraded is the
one of its window (`CreatedInWindow`, `UpgradedInWindow`). The assumption is the
code's gap and not the proof's: `MC_engine_duplicate` shows two requests break it.

### CameraFeedProofs

The two parts first, each for its own specification, then what holds of both together.

For any number of concurrent requests and any reported statuses (`HealthConstants`):

| theorem | statement |
|---|---|
| `HealthTypes` | `HealthSpec => []HealthTypeOK` |
| `EventsAgree` | `HealthSpec => EventsMatchRow` |
| `SerialHistory` | `HealthSpec => []OutageOnRecord /\ []RecoveryEndsOutage`, if `OneAtATime` |

An event is decided two steps before it is committed,
so `HealthInv` adds that an event about to be committed is the one the report
calls for (`EventHeld`) and that its request holds the row (`RowHeld`); here the
row lock does matter, because it keeps the camera from being deleted between the
UPDATE and the COMMIT. `SerialHistory` needs reports that are processed one after the
other: then the status a request has read is still the row's (`PriorIsRow`);
`MC_health_double` shows two at once break it.

For any number of streams, any base and maximum delay (`PipelineConstants`):

| theorem | statement |
|---|---|
| `PipelineTypes` | `PipelineSpec => []PipelineTypeOK` |
| `AtMostOneProcess` | `PipelineSpec => []OneProcess` |
| `StopIsNoOutage` | `PipelineSpec => NoOutageAfterStop` |
| `NeverGivesUp` | `PipelineSpec => []KeepsTrying`, if `SpawnMayFail = FALSE` |

`PipelineInv` says that only the latest FrameSource can
have a process (`LatestOnly`), that a reconnect is pending only when none runs and
never after a stop (`WaitsAlone`), and that a process is listened to and not
stopped until the pipeline is (`Attended`): this is why an exit is always
answered before the stop and never after it. `NeverGivesUp` needs its assumption:
`MC_pipeline_spawn` shows the property fail without it.

For the composition, from both and `ReportAssumption`:

| theorem | statement |
|---|---|
| `FeedImplementsParts` | `Spec => PipelineSpec /\ HealthSpec` |
| `HistoryIsReal` | `Spec => []OutagesNotInvented` |
| `RecoveriesAreReal` | `Spec => []RecoveryIsReal` |
| `OutagesAreOnRecord` | `Spec => []OutageOnRecord`, if `OneAtATime` |

`FeedImplementsParts` lets all that is proved of the parts be used of the whole, and
gives `OutagesAreOnRecord` at once from `SerialHistory`. The other two are about both
ends of a channel that loses and reorders. `FeedInv` counts: the outages on record, the
OFFLINE reports under way and what is being processed of them and of failed connection
tests are together no more than the streams that ended and the tests that failed
(`OutagesCounted`); and it follows ONLINE from a frame through an inference and a report,
or from a test that reached the camera, to a recovery (`OnlineOfFrames`), and an offline
status from the outage that set it to whoever has read it, until the camera is deleted
with its record (`OfflineOnRecord`). Neither needs `OneAtATime`.

### MediaWorkerProofs

For any finite set of cameras, any limit and any sequence of changes, failures,
crashes and restarts, under `OneCall`: no two calls of `reconcile` overlap.

| theorem | statement |
|---|---|
| `WorkerTypes` | `Spec => []TypeOK` |
| `NothingUnmanaged` | `Spec => []RunningIsManaged` |
| `LimitRespected` | `Spec => []LimitHoldsAtRest` |

From `WorkerConstants`. `WorkerInv` adds that the camera whose credentials a
call waits for has no pipeline (`AtHand`), so the one that is started replaces
nothing; `LimitInv` adds that a call has marked at most `Limit` cameras active.
At the end of a call what runs injects into those. The code does not enforce
`OneCall`; it holds when a reconcile takes less than `pollMs`, and
`MC_worker_overlap` shows what happens otherwise.

### TenantResourcesProofs

For any finite set of row ids and of connections, any organizations and limits:

| theorem | statement |
|---|---|
| `ResourceTypes` | `Spec => []TypeOK` |
| `TenantReferences` | `Spec => []ReferencesStayInOrg` |
| `RowsStayWithin` | `Spec => RowsChangeFromWithin` |
| `OvershootLimited` | `Spec => []OvershootBounded` |

From `IdsAssumption`, `TxAssumption`, `LimitAssumption` and `NilAssumption`. A
reference is checked long before it is inserted, so `IInv` adds what a check is still
worth at the INSERT: `Vetted` says that a reference still to be checked, or whose row
is gone, is all that can be wrong, because keys are never used again and a row never
changes its organization. `PinsHold` is what the foreign keys' locks give: a row that
an open INSERT refers to is not removed by an open DELETE or its cascade. The limit
needs a count: `OvershootInv` bounds the cameras of an organization and the connections
that have counted and will insert one (`Adding`) together by less than the highest
limit it had plus the number of connections.

### AccessProofs

For any users, organizations, sessions and visits:

| theorem | statement |
|---|---|
| `AccessTypes` | `Spec => []TypeOK` |
| `VisitorsWereMembers` | `Spec => []VisitsWereMembers` |
| `HubIsClean` | `Spec => []SubscribersVerified` |
| `OnlyManagersManage` | `Spec => ManagedByManagers` |

From `AccessConstants` and `NilAssumption`. `VisitOk` says what a visit has learned at
each step: the role it carries is one its user held in that organization since the
visit began, and it carries none before the query that reads it.

### HlsSessionsProofs

For any cameras, players, processes, idle timeout and token life:

| theorem | statement |
|---|---|
| `StreamTypes` | `Spec => []TypeOK` |
| `StreamsAreManaged` | `Spec => []StreamsManaged` |
| `NoReapUnderAPlayer` | `Spec => WatchedNotReaped` |
| `IdleAreReaped` | `Spec => []IdleSessionsReaped` |

From `HlsConstants` and `NilAssumption`; they are stated for `Spec` and hold for
`FairSpec`, which implies it. `EntriesAreOwn` says that the process of an entry is
known, of that camera, and was not killed; `IdleCounts` that an entry is idle no
longer than any of its players; both together are why the reaper hits no player.
`TimedInv` relates the idle time to whether the interval is set and due.

### IncidentsProofs

For any requests, cameras, rules, correlation ids and lifetimes, from
`IncidentConstants` and `NilAssumption`, with an error possible at every step:

| theorem | statement |
|---|---|
| `IncidentTypes` | `Spec => []TypeOK` |
| `RetriesNameOneEvent` | `Spec => []RetriesAgree` |
| `DuplicatesNeverFail` | `Spec => []FailsOnlyIfDisturbed` |
| `NoRowDangles` | `Spec => []RowsComplete` |
| `DueRulesAreNotified` | `Spec => []DueRulesNotified` |
| `AnnouncementsAreKept` | `Spec => []AnnouncedAsPromised` |
| `DashboardCatchesUp` | `Spec => []DashboardFresh` |

`IInv` says what each step of a request still has to have: `ShapeOk` which fields are set,
`IngestOk` what an answered ingest has stored and announced, `RunningOk` what the
foreign keys of an open transaction pin and which of the rules it read are still due.
The heart is `OnePerCorrelation`: among the committed events and those being inserted,
no two have one correlation id, so an ingest that waits in `ON CONFLICT DO NOTHING`
finds, or is, the only one. `NotifiedOk` and `MessagesOk` trace rows and messages back
to the request that wrote them. `BoardOk` is about time: a list of cameras that is wrong
was counted before the last change, so its entry expires within `RequestTime` and
`CacheTtl` of it.

### PerceptionProofs

For any classes, boxes, rules, polygons, schedules and times, from
`PerceptionConstants` and `NilAssumption`; coordinates are integers of any size, and
whatever `Rounded` says of centers on an edge:

| theorem | statement |
|---|---|
| `PerceptionTypes` | `Spec => []TypeOK` |
| `LoiteringWasThere` | `Spec => []LoiteringIsPresence` |
| `RulesDecide` | `Spec => []RaisedAsConfigured` |
| `AfterHoursAreClosed` | `Spec => []AfterHoursMeansClosed` |
| `ZonesAreTiled` | `Spec => []ZonesTile` |

* Loitering: a track that is alive began no earlier than the presence of its class
  (`TracksSeen`), so no dwell time that the tracker measured is longer than a presence;
  one that a job states is taken as it is, and the property says so. The step is the
  tracker's: `BestIsHit` shows that the search for the best overlap ends with a track of
  the class above the threshold, because overlaps are fractions and their order is
  transitive (`AtLeastIsTransitive`), and `LiveIsKept` that the dropping of old tracks, a
  recursive function, yields a sequence of tracks that were there.
* Rules: `HistoryCovers` and `RulesAsRead` say what is still true of the rules, zones and
  schedules a request has read when it raises a type several statements later.
* After hours: a schedule that was read was the zone's at some time of the request, and
  `Shut` in the history is the definition the schedule's comments give, not the code's;
  the two agree for windows whose overnight ones are for every day.
* Tiling: any polygon cut along a diagonal, and any center that is not on the cut (on it
  the rounding may let both parts, or neither, claim the center). A ray crosses the
  diagonal in both parts or in neither (`CrossesBothWays`) and every other edge in exactly
  one of them (`NearPart`, `FarPart`), so the parities add up (`DiagonalCuts`).

The library's induction theorems take an operator as a parameter and cannot be used
here. Where these proofs need induction over numbers they take the least counterexample
(`LeastNumber`), which the well-foundedness of `<` on naturals provides.

### Only model-checked

The four liveness properties, `DroppedStreamRestarts`, `DisabledStops`, `EnabledStarts`
and `AbandonedStreamsEnd`. They rest on weak fairness and so on ENABLED, which the prover
does not reason about. The configurations of section 5 show violations and are not
claims of a proof.

## 5. Where the code and its documents disagree

Each line names a configuration kept for exploration, with which TLC finds the
property violated. The property states what the document or comment says; what the
code does is the counterexample.

| configuration | property | the code |
|---|---|---|
| `MC_engine_duplicate` | `NoIncidentInsideWindow` | two requests that read the cooldown row before either commits create two incidents in one window, against the root `README.md` 252-255 |
| `MC_feed_recovery` | `RecoveryRecorded` | the worker reports RECONNECTING and CONNECTING before the camera is ONLINE again, so the ONLINE report never finds an offline status and CAMERA_RECOVERED is not recorded |
| `MC_pipeline_backoff` | `BackoffGrows` | `start()` resets the attempt counter, so the delay between reconnects never grows |
| `MC_pipeline_kill` | `StoppedSourceEnds` | `child.killed` is true once SIGTERM was sent, so SIGKILL is never sent to an ffmpeg that ignores it |
| `MC_worker_broken` | `OthersUndisturbed` | credentials with only one part given cannot be decrypted, and the worker ends with all its pipelines |
| `MC_resources_limit` | `PlanLimitHolds` | two requests count the cameras before either inserts one |
| `MC_hls_refused` | `FreshTokenServes` | the token is in the playlist's URL; the segments are requested without it and refused |
| `MC_hls_double` | `OneTranscoderPerCamera` | two viewers pass the test of the map before either sets it, and two ffmpeg write one directory |
| `MC_access_signup` | `SignUpAtomic` | a sign-up that ends between its two transactions leaves a user without an organization |
| `MC_access_owner` | `OwnersAmongThemselves` | an ADMIN demotes, suspends or removes an OWNER, whom `lib/rbac.ts` 6 excepts from what an ADMIN manages |
| `MC_perception_overnight` | `NightWindowsWrap` | an overnight window is looked up by the weekday of the moment, so its morning belongs to the wrong day |
| `MC_incidents_renotified` | `NotifiedOnce` | an ingest that meets its correlation id again stores evidence and notifies again |

Two more were met in reading and have no configuration of their own: an invited
user's password can be set by nobody, as forgot-password does nothing
(`routes/members.routes.ts` 46, 64); a socket that closes during its handshake is
subscribed afterwards and never leaves its channel (`realtime/ws.ts` 36-43; `Access` has
it as `"leaked"`). `SubscribersVerified` excepts such sockets by name: it says that they
too were verified, and that no other closed socket stays in a channel.

Other configurations kept for exploration, where no document is contradicted:
`MC_engine_correlation` (`FireAndSmokeCorrelated`: a smoke detection after the cooldown
but inside the correlation window becomes an incident of its own), `MC_health_double`
(`RecoveryEndsOutage` with two requests at once), `MC_pipeline_spawn` (`KeepsTrying` when
ffmpeg cannot be spawned: no `exit` event, no retry), `MC_worker_overlap`
(`OnePipelinePerCamera` with two reconciles under way), `MC_worker_limit`
(`StreamsWithinLimit` while pipelines are exchanged).

## 6. Not modelled, and the plan

Left out, and why:

* the inference service, the model registry and its adapter: a call without state,
  whose answer, failure or timeout `CameraPipeline` takes as given;
* the deletion of a whole tenant, for which there is no route;
* `/inference-stats`, reports, the platform and system routes, listings and signed
  downloads: they count or return rows and change none a property is about;
* the wait for a pooled connection and statement timeouts: how long a request takes
  is bounded by no document;
* reference images and the activation of a model: single UPDATEs that nothing reads
  and writes back;
* the evidence files of the engine itself (`engine.ts` 251-271): those of the two other
  ingests are `Incidents!StoreSnapshot`, in the same order of steps;
* migrations and the seed, run by hand while nothing else runs;
* the pages of the web client, except the requests of the live player; the live player's
  and the dashboard's cached data are otherwise what the API answers.

Every safety property of the runs is proved. What would add to it, in this order:

1. What the duplicate of two concurrent requests is bounded by: no more incidents of
   one key start within a window than requests overlap, the concurrent counterpart of
   `PromiseKept`.
2. The composition of `CameraFeed` for reports that do overlap: which part of
   `OutageOnRecord` survives.
3. A lemma that the batches `Perception` raises satisfy `DistinctBuckets`, which
   `DetectionEngine` assumes.
4. The safety half of the liveness properties: what each fair action leaves enabled.
