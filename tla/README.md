# Verification of iwork

iwork shows the production of a garment plant: a Django application (`src/iwork`)
that folds a remote MySQL database into snapshots in Redis, streams them to
dashboards, stores the history of past days in its own MySQL database, keeps the
daily targets that group leaders owe, and raises alerts on those they have not
submitted. This directory holds TLA+ models of its concurrent core, of the folds that
turn production rows into what the pages show and of its deployment to the production
host, their TLC configurations, and proofs checked by TLAPS.

`PROJECT.json` lists, for every definition, the source lines it models, every run
with its properties, a mutation of the code that breaks each property, the hazards
of the code, the findings and the theorems. Paths below are relative to
`src/iwork/` unless they start with `src/`.

## 1. The system

Processes (`src/start.sh`, `src/docker-compose.yml`, `celery.py`, `settings.py`):

- the web container: four Uvicorn workers (threads for Django views, one event loop
  for streams), one Celery worker `-P solo -Q celery`, and Celery beat;
- the alert container: one Celery worker `-P solo -Q alerts`;
- management commands, run by hand next to them;
- Redis (cache, locks, Pub/Sub, broker) and two MySQL databases: the remote one is
  only read, the local one is written at READ COMMITTED.

A solo worker runs one task at a time and enforces no time limit. Tasks are
acknowledged late, so a crash delivers them again. The beat starts the refresh, the
obligations task (each every 60 s), `reconcile_alerts` (300 s) and the nightly
history (03:00).

### Inventory

| Component | State it keeps | Operations | What is hard | What makes it correct |
|---|---|---|---|---|
| Realtime snapshot store, `read_model/store.py` | Redis: `current`, `previous`, a publish lock, the keys of each version | `publish`, `read_many` | no transaction: eight commands, each may fail before or after it took effect; the lock expires; readers read while versions are deleted | `current` leads to a whole snapshot; readers get one version, never a mixture; versions only advance |
| Refresh task, `tasks.py:47-127`, `read_model/builder.py` | refresh lock; the cached month | collect, build, validate, publish, announce | rows change between the reads; midnight during a build, overlap, retry, death before the announcement | a snapshot is one instant of the remote table; a published one is announced, or found by polling |
| Queries, facts and folds, `queries.py`, `read_model/fact_source.py`, `statistics.py`, `read_model/queries.py`, `employee_id_mapping.py` | none | folds over rows; read-only queries over a snapshot | two implementations of the same question; several steps with orders and hours in common; empty groups, missing lines, hours and numbers | every page says the same of the same rows |
| Stored days, `historical_queries.py`, `local_queries.py`, `history_store.py:63-162` | none | the same questions, asked of the copied facts | other code than the realtime pages, after midnight | a day looks the same the next morning |
| Target pages, `api_views.py:580-1350, 1735-1860`, `target_analysis.py` | MySQL: targets; Redis: four copies per day | `set_targets`, readers with fallback, pages of a flow, a step, a style, today's targets | copies written from what was read before somebody else's commit; rounding; the end of the workday; past days | a page shows the stored target unless a copy was left behind; shares add up |
| Payload cache and stream, `sse_events.py`, `api_views.py:1478-1647`, `dashboard.html` | per worker: cache, builds under way, handled notifications; per connection: a queue of one | `get`, `broadcast`, the stream's loop | every await is a switch; builds shared by connections that may leave; lost, reordered notifications; midnight | a notified connection gets that version; streams do not go back; pages converge |
| History build, `history_store.py` | MySQL: facts and a `HistoricalSyncState` row per date; Redis: build lock | `snapshot_history_date` | the lease lapses under a live build; the failure path writes without a lock | a success describes the stored facts and stays |
| History request, `api_views_local.py`, `snapshot_request_lock.py`, `tasks.py:171-249` | Redis: request lock with token and two lease lengths; the broker's queue | ensure, renew, promote, own, release; task, retry, redelivery | two processes hand a lock over while one still renews it; ambiguous submission; crashes | one build per request; polling ends with a snapshot |
| Alerts on obligations, `alerts/service.py`, `alerts/tasks.py` | MySQL: event and delivery rows with revisions | evaluate, claim, send, save | evaluation and sending interleave on one row; five-minute claims; failing sends | the last revision is announced |
| Alert evaluation of snapshots, `alerts/service.py:87-207` | MySQL: one run row per snapshot | evaluate, take over | takeover after five minutes, whether the first worker lives or not | "completed" means that every candidate has its event and its deliveries |
| Notification inbox, `alerts/notification_events.py`, `alerts/api.py`, `src/static/iwork/notifications.js` | subscribers and queues per worker; receipts | subscribe, broadcast, listen, list, mark read | gaps while reconnecting; answers out of order; concurrent marks | the page ends up with the receipts and events of the database |
| Target responsibility, `target_responsibility.py`, `api_views_account.py` | MySQL: assignments, targets, obligations | ensure, save, assign, remove and waive | stale rows saved in full; the deadline; no row lock in ensure | an obligation agrees with target, deadline and leaders |
| Submission gate, `middleware.py:229-319` | none | refresh, decide, answer | decides on what others write in between | no leader passes who owes a target |
| Identity, routing, write guard | none | pure | - | covered by tests |
| Other pages (`templates/iwork/*.html`) | what is shown | requests and renderings | late answers are drawn as they come | what an answer contains, which is its endpoint's |
| Production deployment, `src/scripts/Invoke-IworkProductionDeployment.ps1`, `ProductionCoordination.psm1` | files: lock, marker, state, receipts, pointer to the active release; containers | deploy, drill, roll back, archive stale locks | death between switching and recording; stale locks; rollback that fails | the pointer names what runs; one deployment at a time |

Interactions: the refresh task publishes to the store and announces the version by
Pub/Sub; the stream's cache reads the store; the history request hands its token to
the build task, which calls the history build; the gate, the account views and the
minute task all call the same refresh of obligations; the alert worker reads those
obligations, opens events and wakes the inbox. The deployment script replaces the two
containers in which all of this runs and shares its lock file with the deployments of
other repositories on the host.

## 2. The modules

| Module | Models | Kind |
|---|---|---|
| `SnapshotRegister` | what the store promises: a register replaced as a whole | abstract specification |
| `SnapshotStore` | `read_model/store.py`, one action per Redis command | implements `SnapshotRegister` |
| `ReadModelProofs` | `SnapshotStore` and `ReadModelRefresh` | theorems |
| `DashboardStream` | refresh task, broker, payload cache, stream loop and page | composition of five parts |
| `DashboardStreamProofs` | `DashboardStream` | theorems |
| `HistoryBuild`, `HistoryBuildProofs` | `snapshot_history_date` | detailed, theorems |
| `HistoryRequest`, `HistoryRequestProofs` | request lock, web view, Celery task, broker | composition of web and worker, theorems |
| `AlertDelivery`, `AlertDeliveryProofs` | evaluation of obligations and sending, on the event and delivery rows | composition, theorems |
| `AlertEvaluation` | `evaluate_published_snapshot`, its run row and its takeover | one component |
| `NotificationInbox`, `NotificationInboxProofs` | wake-up broker, connection, page, receipts, on top of `AlertEvaluation` | composition, theorems |
| `TargetObligations` | obligations, submissions, removals, gate | composition |
| `ProductionRows` | rows, groups, sums, the whitelist of lines | operators |
| `RemoteQueries` | the batch queries of `queries.py` and the reads of one collection | operators |
| `FactSource` | `ReadModelFactSource`: the same answers from collected facts | operators |
| `RealtimeViews` | `statistics.py`, `builder.py`, `schemas.py`: views of a snapshot, validation | operators |
| `TargetAnalysis` | production by period, what is due and made in each | operators |
| `ReadModelQueries` | what pages, stream and kanban read from a snapshot | operators |
| `HistoryViews` | the copy of a day, its validation, and every question asked of it | operators |
| `ReadModelRefresh` | the factory's table, the refresh task, midnight, the copy; composes the seven above | composition |
| `TargetViews` | pages of a flow, step and style; split of a target; today's targets | operators |
| `TargetPages` | saving and showing targets through MySQL and Redis | composition |
| `TargetProofs` | `TargetObligations` and `TargetPages` | theorems |
| `DeploymentLock` | the lock file of `ProductionCoordination.psm1` | abstract specification of the lock, and part of `Deployment` |
| `Deployment` | preflight, deployment, rollback and cleanup of the production script | composition, implements `DeploymentLock` |
| `DeploymentProofs` | `DeploymentLock` and `Deployment` | theorems |
| `MC*` | small sets for the constants, mutations used to test the properties | |

How actions were cut: where the code talks to Redis, an action is one command; where
it talks to MySQL, one committed read, one blocking lock or one commit; in the event
loop, the code between two awaits; in the deployment script, one access to a file or one
command to Docker. A transaction whose intermediate writes nobody can
see is one action at its commit, after an action for what it read first. History
variables (`overrun`, `lapsed`, `overlapped`, `met`, `stale`, `crossed`, `behind`, `marked`,
`last`, `overturned`, ...) record what has happened; no guard reads them. `faults`,
`refusals`, `changes`, `flips` and their like only bound how much happens.

**SnapshotStore.** `keys`, `current`, `previous`, `lock` are Redis. A publisher walks
through `pc`: take the lock, read both pointers, write the parts (metadata first), read
them back, set `previous`, set `current`, delete the version before, release; any
failing command goes to the clean-up of line 130. `Crash` and `ExpireLock` come at any
time. A reader pins `current`, then fetches part after part. Whether the reply of the
switch can be lost is the constant `SwitchReplyMayBeLost`, because it decides which
properties hold (section 6). `Register` instantiates `SnapshotRegister` with the pointers and
the readers' state: keys, lock and publishers are what the register hides.

**DashboardStream.** Versions are ranks of `generated_at`. `BuildSnapshot`, `Publish`,
`Announce`, `GiveUp` are the refresh task; `Read` and `FinishBuild` are the threaded
build and its completion in the event loop, which wakes every waiter at once because the
cache's lock is never held across an await; `ClientStep` is the stream's loop. Age is
the Boolean `fresh`: the cache takes the event for young.

**HistoryBuild.** A payload is the token of the build that loaded it. `row` is the
`HistoricalSyncState` row, `seen` the copy a build read first, `leaseLost` the event its
renewal thread sets. The transaction of lines 305-341 is three steps because it waits for
a row lock and checks its lease inside.

**HistoryRequest.** The request lock is a token and a lease, short or full. A task
carries its token and its retry count. Every Redis and broker call may fail; a submission
may raise although it was queued ("ambiguous"); processes die; a build by somebody else
may hold the build lock. Several workers are allowed for: a worker that died leaves its task
to the queue, where another takes it while the first attempt's retry waits beside it.
Production has one, and the exception of `SupersededBeginsNoBuild` for crashes is for more
than one only (`OneWorker`).

**AlertDelivery.** `CommitEvaluation` acts on what `ReadObligations` saw before its
transaction. `Claim` takes the rows that wait, `Send` publishes, `Save` writes the whole
row as it was claimed. `told` records what was announced.

**TargetObligations.** One flow on one date. `ensure_daily_target_obligations` is
`ReadLeaders`, `ReadFlows`, `ReadTarget`, `WriteObligation`, then the rows of flows
nobody leads (`ReadOthers`, `WriteOverdue`): what is written depends on what was read,
never on what is there. `CommitSave` is a submission, `LockPending` and `CommitRemove`
the waiver and the removal, `StartGate`, `DecideGate`, `Respond` the gate. Time is
`phase`: "due", the instant of the deadline frozen in the row itself, which compares like
every earlier one and is the last on time, then "late"; so a `<` for a `<=` shows.

**ProductionRows, RemoteQueries, FactSource, RealtimeViews, TargetAnalysis,
ReadModelQueries, HistoryViews.** A row of `pytckreg3` is a record of ticket, employee,
step, order, line, station, day, hour and quantity; an absent value is `NoName`, `NoHour`
or `NoDay`. Each query or fold of the code is one operator of its name, so that the same
question can be asked of the table, of the collected facts, of the published snapshot
and of the stored day. Sequences stand where the code promises an order.

**ReadModelRefresh.** `RegisterRow` and `WithdrawRow` change the table at any moment,
between the reads of a collection too; `ReadFacts` and `ReadCumulative` are its first and its last
reads, both of the transaction that the first one opened. `BuildAndPublish` folds, fills the
cached month, validates, and publishes or refuses; `Midnight` and `CopyDay` follow.

**TargetViews, TargetPages.** A request saves in one of the two forms (group target with
planned minutes, or personal targets) or shows a day: it tries Redis, then MySQL, then
writes the copy it lacked. `submitted` and `personal` are MySQL, `cache` Redis, `request` what
each of the `Requests` is doing; `stale` records that a copy was left behind, and by what. The pages
are operators over production and whatever targets were read, which the properties
evaluate for every moment in `Moments`.

**AlertEvaluation, NotificationInbox.** An evaluation claims the row of its snapshot,
materialises one candidate after the other and completes. The inbox adds subscriptions,
the queue of one wake-up, the requests a page has under way in the order they began,
and what it shows. `Apart` is a bound: the page is used after the evaluation has ended.

**DeploymentLock.** One file at one path: whose it is, whether it is open, written,
orphaned. While it is open Windows moves and removes it for nobody (`Loose`). Whether a
lease is over is left to whoever looks.

**Deployment.** `StartPreflight` and `Observe` are the preflight, which takes no lock;
`Deploy` is one step of a deployment: mutexes, lock, marker, request, checks against the
receipt, the two switches, validation, drill or pointer, report, cleanup; or the way back.
The cleanup gives the mutexes back first (`ReleaseMutex`) and reports what of it failed
afterwards (`ReportCleanup`), when the next deployment may already be at work. Every step may fail and every process die, up to `MaxFaults` together.

## 3. The runs

The state counts are distinct states.

| Run | Instance | Shows |
|---|---|---|
| `store` | 2 publishers, 1 reader, 2 parts, 3 versions (233 k) | `current` always leads to a whole snapshot, even when a publisher outlasts its lock; before that happens `previous` does too, and the store implements `SnapshotRegister`. No lock stays for ever. |
| `history` | 2 builders, 4 builds (179 k) | success and facts belong together whatever lapses; until a lease lapses a success stays |
| `stream` | 2 connections, 3 snapshots, 2 faults (1.7 M) | two attempts reach the announced version; a handled notification is cached; whoever waits has a build; no stream goes back |
| `stream_midnight` | 1 connection, 2 dates, 2 snapshots, 2 faults (53 k) | the page converges and recovers from "unavailable" |
| `request` | 2 browsers, 1 worker, 3 tokens, 1 retry, 2 faults (1.1 M) | an accepted request stays protected; a late renewal shortens no build's lease; a superseded task does not build; polling ends with a snapshot |
| `obligations` | 1 leader, 2 requests and the minute task, 1 failing call (461 k) | the gate lets no leader pass without a target; a stored target is eventually shown for good; a led flow without target ends up overdue, and nothing is overdue at the instant of the deadline |
| `obligations_waiver` | as above, no fault | the finding of section 6 |
| `alerts` | 2 workers, 1 rule, 2 roles, 2 changes, 1 fault (568 k) | with workers taking turns the last revision, a recovery included, is announced; with overlap too if the event stays open; events follow the obligations |
| `views` | 8 rows, 2 always there and every choice of the others, 1 change, 2 days (93 k) | a snapshot is one instant of the table whatever changes between the reads; it is refused for one reason only; the month ends with the day itself; selections, stream, work orders and kanban agree with the rows; the stored day shows what the realtime pages showed |
| `targets` | 2 requests, 2 saves, 1 refused command, 2 days (1.5 M) | a page shows what is stored unless a copy was left behind; a target is divided without loss among workers and periods; pages by style agree with pages by flow; today's states add up |
| `notifications` | 2 evaluators, 3 events, 2 roles, 2 revisions, 2 requests of the page, 1 fault (252 k) | a completed evaluation leaves nothing out and comes; a mark holds for the revision it read; a page that lost nothing shows what is true |
| `deployment` | 2 deployments, one a drill, and 1 process of another repository, 2 faults (5.7 M) | whoever is in the lock has its own file at the path; what the state file of the last switch promises is so, with the two exceptions of section 6 that the property names; a switch begins only on what its preflight saw, and a rollback leads to a validated release |

Why the bounds suffice. Every interaction in these protocols is between two actors (two
publishers, two builders, web and worker, evaluation and sending, a refresh and what it
overwrites, a save and a page, two deployments), with at most one more as observer: a
reader, a second poll, the minute task, another repository. Three versions let a reader's
version be deleted, which takes two publications. Four builds let a stale build meet two
newer ones. Two faults reach every pair of independent failures. A second leader adds
nothing to the properties (the invariant of the proof was also checked with two, 1.6 M
states; that of `HistoryRequest` with two workers). The rows of `views` are one for each thing the folds distinguish: the sewing step
and another, a hidden line, a line that is none, no line, no hour, the day before, a
negative correction, and an employee who takes another's number; every subset of them
meets one change at any moment. Lists are cut after 1 or 2 entries, where the code has 8 to
20, so that there is more than fits. The moments of `targets` lie before work, in the first
period, a minute to noon in the break, at the end of the workday and one minute later.
Each property's mutant in `PROJECT.json` shows that the instance reaches the case the
property is about. The theorems of section 5 remove the bounds for the safety properties
they cover.

Most properties of `views` and `targets` are action properties: they speak of the step that
publishes a snapshot, copies a day or shows a page.

Deadlock is checked except where the system may rest with the bound used up: when all
versions, builds, tokens, days or deployments are spent (`store`, `history`, `request`,
`views`, `deployment`). Only `targets` uses symmetry, of its two requests; it checks no
liveness.

## 4. Fairness

Used for liveness only, and never for faults, deaths, midnight, changes of obligations
or user requests (except the polling of `HistoryRequest` and the reconnection of a page).

- `SnapshotStore`: a running call goes on; a lock that is kept expires, whether its
  holder lives or not (Redis TTL, `store.py:79`).
- `HistoryRequest`: processes that run go on, the worker takes tasks, leases of the dead
  expire, the browser polls on: `Ask` is fair because the page repeats its request until
  it gets a snapshot. The number of faults is bounded, which is how "once the faults are
  over" is said.
- `DashboardStream`: the loop of a connection and builds go on; the cache ages, since its
  age is compared with a clock every heartbeat; a page reconnects (`EventSource`). Strong
  fairness of `LeaseEnds`: the loop compares its 60 s lease with the clock at every turn,
  so a connection that is between turns again and again is closed at one of them.
- `AlertDelivery`: strong fairness of evaluation and of claiming, because the beat queues
  both tasks again and again and a queue hands each to a worker between others; a
  claim's five minutes and a retry's delay pass.
- `TargetObligations`: the minute task starts again and again. Its steps need strong
  fairness because they wait for a row lock that others take in between; InnoDB
  serves waiters in turn.
- `NotificationInbox`: weak fairness of the workers' claims and of work they have begun,
  of the five minutes, of the announcements of the reconciliation, of the listener's and
  the page's reconnection, of the delivery of a queued wake-up and of answers to requests.
  None for failures, deaths, lost wake-ups, revisions, marks or openings of the page.
- `ReadModelRefresh`, `TargetPages`, `Deployment`: safety only.

## 5. Proofs

All theorems hold for every value of the constants under the named assumptions of the
modules (bounds are natural numbers, names are distinct). tlapm checks them to the last
leaf. Liveness, `ENABLED` and whatever needs induction over data stay with TLC.

**SnapshotStore** (`TypeCorrect`, `CurrentIsComplete`, `PreviousIsComplete`,
`CurrentMovesForward`, `TornReadsAreOvertaken`, `StoreImplementsRegister`). "current leads
to a whole snapshot" is not inductive: setting `current` preserves it only if what was read
back is still there, and deleting only if nobody switched to what is deleted. Hence
`CompleteInv`: versions not yet switched to belong to one publisher alone
(`UnswitchedIsPrivate`), what a publisher has verified stays whole
(`VerifiedStaysWhole`), and what it is about to delete is not current
(`RetiredIsReplaced`). It needs that versions are drawn once (`Drawn`), not that the lock
holds. The other theorems do: `SerialInv` says that until a publisher outlasts its lock
there is one live publisher, with the newest version, and `RegisterInv` that the pointers are as it read
them, and that a pinned version is whole until two publications have passed. All but
`TypeCorrect` and `CurrentMovesForward` assume that the reply of the switch is not lost:
section 6 says what happens otherwise. The refinement's step lemma shows that each step of
the store is a step of the register or changes nothing the register sees.

**ReadModelRefresh** (`PublishedIsOneInstant`, `HistoryCoversPublished`). The rows change
between the reads of a collection, so the invariant must say what a collection under way
holds. `CollectionOk`: there is one set of rows, none of a later day than its date, of which
both reads are functions (`CollectedFrom`); the rows of the table now do not enter.
Publishing carries this over to the snapshot, with the validation it has passed
(`PublishedAtOnce`), copying a day to its history (`CopiedAtOnce`); a later build or copy
replaces the whole record. Of the same rows both give the same facts (`Numbered`): the
history has those of the snapshot, under the snapshot's numbers, and loses only employees
without one. `TableInv`, no row of a day that has not begun, is why none of
a later day is among the rows of a published one. The theorems hold for any table, calendar,
catalogue and number of changes.

**HistoryBuild** (`TypeCorrect`, `SuccessIsConsistent`, `PublishedStays`, `VersionsGrow`).
The consistency of a success rests on the row lock: between `select_for_update` and the
commit nobody else changes facts. The other two rest on the lease: until one lapses, a
live build holds the build lock and is alone (`BuildsAlone`), so a success it meets is
one it read at its start (`ReadIsCurrent`), and its failure path, which decides by that
copy, leaves it in place.

**DashboardStream** (`TypeCorrect`, `NotificationsAreServed`,
`HandledNotificationsAreCached`, `WaitersAreServed`, `StreamsMoveForward`). `OrderInv`
orders the versions along their way: what a queue, a build, the cache or a page holds for
a date is never newer than what the store serves; a build that a second attempt joins began after
the announced version was stored, so its result is at least that version.

**TargetObligations** (`TypeCorrect`, `DoneHasTarget`, `GateIsSafe`). `GateHolds` speaks
of the moment of the answer, but what decides was written earlier by anybody.
`GateInv` follows the gate from its arrival: while its leader keeps the assignment, its
refresh takes the path of a led flow, what it has left is owed or submitted, and a
removal that found the row pending since knows of that leader. `DoneHasTarget` needs
`KnownInv`: a target read is a target stored, because targets are never deleted.

**TargetPages** (`PagesShowWhatIsStored`, `CopiesAreRenewed`). That a page shows what is
stored is not inductive: it shows what it read some steps before, or a copy that somebody else
wrote. `CopiesAgree` says of every copy in Redis, while its day is not `stale`, that it is the
stored value or that a request which has committed is still going to write that key.
`RequestsFit` speaks of what requests hold: what a page has read or is about to copy, and what
a save writes next, is what is stored. `AloneIsAlone` gives a page that no save overlapped the
right to what it read: nobody is writing copies of its day. Two steps could break this: a
commit while another request holds a value it will write, and a save whose writes Redis
refuses. Both mark the day, and only midnight, which removes the copies, clears the mark,
unless such a request is under way even then. The theorems hold for any number of requests,
days and saves, and whatever is asked for. The older form's commit updates single entries,
which is why `Within` compares dictionaries entry by entry.

**HistoryRequest** (`TypeCorrect`, `AcceptedStaysProtected`, `BuildsKeepFullLease`,
`SupersededBuildsNothing`). That an accepted request keeps its lock is not inductive: the
lock is lost to whoever compares it with the same token, so the invariant must say who can.
`OwnsToken` gives each web process a token of its own that nobody has accepted yet;
`SubmitsLast` says that no task carries it before it is submitted; `OneTaskPerToken` that,
while no process dies, a token has one task, because a worker queues its next attempt only
when it is through. With these, `Protected` holds of every task that will still be worked on
(`Due`: also of one whose next attempt is about to be queued). `WorkerLease` follows the
lease from a worker's check to the end of its build: the script of the late renewal leaves a
full lease alone. `KeepsLockToBuild` says why a build begins with the lock still held, and
is what the action property rests on.

**AlertDelivery** (`SentIsAnnounced`). A row saved as "sent" was sent some steps before.
`Announced` follows the sending: what a worker has announced stays current until it is
saved, since while the workers take turns (`Turns`) nobody else is between its steps. That an
evaluation takes "sent" back whenever it draws a new revision needs `NotAhead`: neither a
row nor a claim is ever for a revision beyond the event's, so that the comparison in
`_ensure_role_delivery` notices every new one. `NotAhead` holds with overlap too.

**NotificationInbox** (`CompletedHasEvents`, `MarksAreTrue`). `Worked` says that what is no
longer in a worker's list has its event and deliveries; so a worker that completes, even
one that was taken over from, completes what all of them owe. Sending moves deliveries from
`due` to `sent`, and the obligations take back only their own (`InboxAssumption`). For the
marks, `Recorded` says that receipts never pass what was marked, nor marks what was revised,
and `Read` follows the marks under way: one that nobody crossed (`Meet`) holds a revision at
least as new as the last one marked (`Fresh`), so that its commit leaves the receipt equal
to it. The lemmas `ReadsWithout`, `ReadsWith`, `ReadsAlike` and `ReadsLater` carry this over
requests that end, begin and change, for sequences of any length.

**Deployment** (`LockExcludes`, `DeploymentUsesLock`, `GroundIsKnown`, `ReportsAreTrue`,
`DeploymentsExclude`). That whoever is in the lock has
its own file at the path is not inductive: somebody who has judged a stale file may move
whatever lies there by now. `LockInv` adds that the file is open (`HeldOpen`), and nobody
moves or removes an open file. `LockStep` shows that each step of the lock keeps it. Each
step of the deployment is a step of `LockNext` or leaves file and lock alone
(`DeploymentUsesLock`), so that the deployment, with all that fails in it, inherits the
exclusion.

That a report is true speaks of every later state, with the run that wrote it gone on, dead
or rolled back, and of every report, the unfinished and failed ones included: whatever the
file says, containers and pointer hold nothing but what was found and the candidate
(`NothingElse`). "deployed" and "rolled_back" promise which of the two it is, and that it
was healthy, except for a run in `overturned` and for a first pointer in `leftover`
(section 6); without either exception TLC finds the property violated. The invariant follows the run: `Exclusive` (who is past the mutexes has
them alone) keeps other runs from touching containers and pointer meanwhile; `Once` (a
request is claimed before its one switch, and one that has not switched has nothing to undo)
decides which way back a failure takes; `Ground` and `Sound` say what the run found, that it
goes back to one release, and that pointers name validated releases; `Stage` says what
each step of switching and rolling back has brought about, `Says` what its file says then,
and `Truthful` that of the last run that switched the promise of the file holds at every
step; `NothingElseKept` shows the part common to all reports. A run that did not switch leaves the ground as it was, which is why `Truthful` survives it.

The types of the proved modules are proved rather than checked by a run.

TLC checked each inductive invariant on an instance of its run before it was proved.

Only model-checked: the properties of `ReadModelRefresh` (the invariant
`RefusedOnlyForRowsWithoutLine` among them) and `SharesAddUp`, `StylesAgreeWithFlows` and
`TodayAddsUp` of `TargetPages`. They compare sums over sets of rows and folds over
sequences, which is induction over data; what is proved is what they start from: one set of
rows behind every read of a collection, and targets that are the stored ones. Model-checked
too are the liveness properties (`EveryHoldEnds`, `PageConverges`, `UnavailableIsRevoked`,
`PollingEndsWithSnapshot`, `LastRevisionIsAnnounced`, `OpenIsAnnounced`,
`EventFollowsObligations`, `SubmittedIsSettled`, `LedFlowIsOverdue`, `SnapshotIsEvaluated`,
`PageCatchesUp`).

## 6. What the models show of the code's weak points

One disagreement with a line of the repository is a run that TLC ends with a
counterexample:

- `target_responsibility.py:482`: a refresh that read the last leader before the removal
  undoes the waiver; the flow is owed by nobody. (`obligations_waiver`)

The others are behaviours of the code that the properties name as their exceptions, that
a hazard's note describes, or that a model had to follow where one would expect otherwise.

Store, stream, history, alerts:
- When the switch of `current` took effect but its reply was lost, the failure path
  (`read_model/store.py:130`) deletes the snapshot that is now current.
- A build that lost its lease fails and marks the success of another build failed
  (`history_store.py:350`), so that stored facts are no longer served.
- A finished build whose waiters have all left is served to the next connection, whatever
  its age (`sse_events.py:345`).
- With two alert workers, saving the whole delivery row undoes the reset made for a newer
  revision (`alerts/tasks.py:158`); for a recovery nothing repairs it. Production runs one.

Views:
- Rows without a line at a step other than the sewing step block the publication as long
  as they do not add up to nothing.
- Earlier days of the month stay as the day's first build cached them.
- The number of orders of several steps, or of all, counts only orders that are among the
  first twenty of some step: the lists it is the length of are cut before they are merged
  (`read_model/queries.py:320-341`, `statistics.py:419-442`). A single step's is complete.
  The page shows it as "本厂款号数量", the number of orders, and takes the number of its
  pages of work orders from it (`src/PCI-看板框架&前后端数据映射.md:464`, `dashboard.html:868`),
  so that after an event of the stream the last pages cannot be reached. `SelectionsAgree`
  states which orders are dropped; the run cuts the lists after their first order.
- Heat maps of several steps merge to nothing (`_merge_heatmaps`); a step selected twice
  counts twice; two absent steps yield no view for polling and an empty one for the stream.
- Work orders of the sewing step mixed with others, or of all steps, differ from the
  realtime totals: the whitelist of lines applies to a single step or to none.
- After midnight the kanban and the target analysis lose the employees without a number
  of their own; the history's totals by line and station apply no whitelist.

Targets:
- A copy in Redis written from what was read before somebody else's commit is shown until
  midnight. Target and minutes are two copies and may come from two saves. The older form
  replaces the whole dictionary of a day.
- When Redis refuses the fill, the page shows no target although the database has one.
- With more than ten planned hours the share due by now never reaches the day's target,
  while the periods hand all of it out within ten.
- Production outside the periods is in none of them. For a past day the counts of today's
  targets may exceed their total.

Inbox:
- Reading marks the revision that is current at the click, even if the page showed an
  older one; of two marks at once the older revision may win.
- A lost wake-up is not repeated: the badge stays as it is until the next wake-up or the
  next opening. Lists are drawn in the order they arrive. The rule of the watermark has no
  mandatory roles, so its events wake nobody.
- `started_at` of an evaluation is never renewed: after five minutes a second worker joins
  a live one. Nothing is left out or doubled, because materialising is idempotent.

Deployment:
- After a death that leaves the maintenance marker no preflight passes until a deployment
  with an older receipt archives the expired marker.
- When the pointer disagrees with the containers, every later deployment fails closed.
- "deployed" is written before the last renewal of the lock: a failure there, followed by a
  death in the rollback or a report that cannot be written, leaves a report of success over
  containers that may be half rolled back (`overturned`).
- A first pointer that cannot be removed stays behind a report of "rolled_back"
  (`leftover`), although
  `src/docs/2026-08-28-iwork-CICD最后冲刺实施方案.md:501-502` has the pointer restored before
  `rolled_back` is written. `ReportIsTrue` names both cases as its exceptions.
- Without a pointer, a release nobody validated may become the base of a rollback.
- A death while the lease is rewritten leaves an empty lock file that nobody can archive.
- A new lock taken right after the removal of one's own is reported as a failed cleanup.
- `Invoke-Preflight` returns text, so `RequestClaimPath` in the state file is always empty.

## 7. What is not modelled

- The wording of SQL, request parsing, rendering, logging: no state that the properties
  distinguish. In `SnapshotStore`, `DashboardStream` and `HistoryBuild` the contents of a
  snapshot are a token; `ReadModelRefresh` says what they are.
- Redis and MySQL themselves: a Redis command or a committed transaction is atomic; they
  do not lose what they stored. Retention times of 48 h do not run out within a run.
  Nor does a snapshot grow so old (600 s, `read_model/store.py:292`) that reading it fails.
- The refresh task's lock and retries: rounds follow one another in `ReadModelRefresh` and
  overlap in `DashboardStream`, where only their order matters.
- `HistoryKeepsTheDay` compares the production detail, the kanban and the target analysis,
  not the overview by product.
- Queries of several days and of single employees in `local_queries.py`, and the queries
  of `queries.py` that nothing calls for today's data any more.
- The snapshot of leaders, CRUD on policies and principals, subscriptions a user chooses,
  and roles revoked while a page is open.
- What a deployment validates of a configuration bundle, an image, an access list or the
  external probe; the weekly maintenance marker; a drill's record once it exists.
- Identity, routing and the write guard are decisions without state, covered by tests.
  Imports, exports, migrations, installation and the tool that drives GitHub Actions share
  no state with the running system.
- The drawing of the pages: an answer is drawn when it arrives, without sequence numbers.

## 8. Plan

What is left, in this order:

1. The refresh task's lock and retries over `SnapshotRegister`.
2. The ranges of several days and the employee pages of `local_queries.py`, in the run
   `views`.
3. The sequence of requests in the pages, where a late answer replaces a newer one.
