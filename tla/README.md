# kube-agent-helper in TLA+

Specifications of the controller of kube-agent-helper and of its agents:
modules that follow the code call by call, TLC configurations that check them
on small instances, and TLAPS proofs for every size of instance. Paths are
relative to the repository; `fix_reconciler.go` and the like are under
`internal/controller/reconciler/`, `server.go` and `logs_handler.go` under
`internal/controller/httpserver/`, `sqlite.go` is
`internal/store/sqlite/sqlite.go`, `*.py` are under
`agent-runtime/runtime/`.

- [Inventory](#inventory): the system's parts and what makes each correct
- [What is modelled](#what-is-modelled): module by module
- [Runs](#runs): what TLC checks, with which bounds
- [Fairness](#fairness)
- [Proofs](#proofs)
- [Disagreements with the documents](#disagreements-with-the-documents)
- [What is left out](#what-is-left-out)
- [What could come next](#what-could-come-next)

## Inventory

One controller process (`cmd/controller/main.go`) holds the reconcilers, the
HTTP server, the notification manager and the collector. They share the
Kubernetes API server, read through one informer cache and written with
optimistic concurrency, and one SQLite file. Agents run outside, one Job each,
and talk back over HTTP.

| Component | State | Operations | Hard behaviour | Correct when |
|---|---|---|---|---|
| DiagnosticRun reconciler (`run_reconciler.go`) | CR status, row, workqueue, cache | Pending: insert row, create Job, set Running; Running: timeout, Job result, message; ending: findings, CR, row, logs, notification | stale cache, crash or failed call between any two of its writes, conflicting edits, deletion meanwhile, timeout against completion | a run moves Pending, Running, ended and stops there; one Job per run; store follows CR; every run ends and its ending is announced |
| Translator (`translator.go`) | none | run to ServiceAccount, binding, ConfigMap, Job | name truncation, target cluster | the Job is where the reconciler looks for it |
| Batch delete (`server.go` 1588) | none | list cache, delete CRs, delete rows | runs between two steps of a reconcile | what was deleted stays deleted |
| SQLite store (`sqlite.go`) | runs, findings, logs, fixes, skills, events, channels | INSERT and UPDATE, `DeleteRuns` in one transaction | plain INSERTs retried, foreign keys | a row agrees with its CR |
| ClusterConfig reconciler, registry | clients by cluster name | Set, Delete | empty after a restart | a remote run is not failed for want of a client that will come |
| DiagnosticFix reconciler (`fix_reconciler.go`) | CR status, row, snapshot | settle, claim, snapshot, patch, roll back, conclude | stale approval, lost answer of the patch, crash while applying | a patch has an approval of its own; the outcome is what happened |
| Fix endpoints (`server.go` 197, 680, 851, 1634, 1662) | none | callback, approve, reject, generate, batch approve, batch reject | read from the cache, written back later; store and CR separately | a decision is not turned into an outcome, nor an outcome into a decision by accident |
| Fix generator pod (`fix_main.py`) | none | read target, ask LLM, one callback | deadline, no retry | at most one fix per finding |
| ScheduledRun reconciler (`scheduled_run_reconciler.go`) | `nextRunAt`, `activeRuns`, timers | initialise, wait, create child, enforce history limit, move on | downtime over due times, status update lost after the child was created, stale list of children, a timer that is not set | every due time gets its child, none gets two; the history stays within its limit |
| Notification manager and channels (`internal/notification`) | channels with their filters, dedup map and its timers | Notify, Reload, SendTest; CRUD of the rows | callers at once, a timer that runs late, edits between a read of the rows and the swap of the channels, endpoints that fail, HTTP clients that leave | an event is let through once per window and again after it; every channel that wants it is tried, or its error is reported; changes take effect |
| Agent Job and translator (`translator.go`, `main.go`, `orchestrator.py`, `model_chain.py`, `skill_loader.py`) | environment, ConfigMap, turn, place in the chain | load, call, retry, fall back, read the reply | a ConfigMap left by another run, broken streams, every stop reason | the agent works with what the run asked for; the chain is tried in order; it ends |
| Finding reporter and LLM metrics (`reporter.py`) | findings, buffered counters | POST with retries, one flush | an answer lost after the INSERT, a failure before anything was posted | no finding is dropped early or stored more often than answers were lost |
| Skill reconciler, registry, start-up (`skill_reconciler.go`, `main.go` 331) | skills table | upsert, delete, load built-in ones | CR deleted while down, CR shadowing a built-in one, one name in two namespaces | the table has the CRs and the built-in ones |
| Log streaming (`logs_handler.go`, `run_reconciler.go` 361) | cursor, `run_logs` | live, stored, followed; collection after the run | end of stream against late lines, other runs' rows, a pod that goes | however it is read, it is the same log; a reader is let go |
| Event collector and queries (`internal/collector`) | watch, channel, buffer, `events` | list, watch, batch, upsert, purge, page | full channel, broken watch, restart with a buffer | every occurrence gets into the table, no row falls back |
| Metric collector (`metric_collector.go`) | `metrics` | query and INSERT per tick | | |
| ModelConfig reconciler, MCP tools, sanitizer, trimmer, CLI, dashboard, audit, run metrics | none that a call leaves behind | read-only, formatting, counters | | |

How they meet: reconcilers and endpoints write the same CRs (optimistic
concurrency decides) and the same rows (last write wins); an endpoint's write
to a CR wakes a reconciler through the watch; agents post findings to rows
that the reconciler inserted; deleting a run's rows takes its findings and
fixes along; a restart loses worker, requests, registry, queue,
dedup map and event buffer, and lists every CR again.

## What is modelled

### DiagnosticRun

`DiagnosticRun.tla` is the life of runs. A run is a UID. Two UIDs with the same
`WatchSlot` are one name used twice; at most one is live. A slot is a Job's
cluster, namespace and name: `JobSlot` is where the translator puts a run's
Job, `WatchSlot` the slot `agent-<name>` of the local cluster that the Running
branch looks at. They differ for a run with `clusterRef` and for a name that
the translator cuts at 63 characters.

| State | Code |
|---|---|
| `phase`, `version`, `reported` | the CR: `status.phase` ("" counts as Pending, the code treats them alike), `resourceVersion`, number of `status.findings` |
| `seenPhase`, `seenVersion`, `queue` | informer cache, workqueue keyed by name |
| `row`, `findings`, `logs` | `diagnostic_runs`, `findings`, `run_logs` |
| `jobPhase`, `jobOwner` | the Job in each slot and its ownerReference |
| `overdue`, `expired` | `timeoutSeconds`, and one hour, have passed since `StartedAt` |
| `registered` | `ClusterClientRegistry` has the remote cluster |
| `pc`, `req`, `cur`, `snap`, `goal`, `counted` | the worker: program counter, request, run, resourceVersion read, phase being written, findings read |
| `delPc`, `delRun` | a batch delete in progress |
| `notified`, `created`, `erased` | history, read by properties only |

A worker action is one call that leaves the process with the code up to the
next call; so a crash, an edit or a request can come between any two. A call
that the code does not check has two outcomes and one continuation; a call
that it checks returns to the queue. `Fresh` is the API server's conflict
check, `InEnum` its schema check.

`RunContract.tla` is what a watcher of the CR may rely on: the lifecycle, an
ending with findings that never change, one announcement. `DiagnosticRun`
implements it (`ImplementsContract`).

### DiagnosticFix

`DiagnosticFix.tla` is the life of one fix. Fixes share nothing but the
worker, so one is enough; the worker being busy with another fix is the same
as it being slow. The CR is one record `cr` with phase, resourceVersion,
strategy, approval and rollback; `seen` is the cache's copy, `fix` the
worker's and `copy[q]` the copy of request `q`. All four are the same kind of
record because the code writes back what it read: an update is accepted only if
nothing was written since (`Fresh`).

| State | Code |
|---|---|
| `row` | phase in the `fixes` table |
| `gen` | the fix-generator Job and the callback it makes |
| `run` | the run with its findings, until it is batch-deleted |
| `pc`, `fix`, `queue` | the worker in `Reconcile`, `applyPatch`, `rollback`, `failFix` |
| `rpc`, `verb`, `copy` | approve and reject requests (`handleAPIFixDetail`): ask the row, find the CR, update the spec, update the status |
| `attempts`, `effect` | history: patches sent; whether the latest took effect |

`Apply` has three outcomes: the patch lands, it is refused, or it lands and
the answer is lost, which the code takes for a refusal. `Rollback` sends the
snapshot with the target's old resourceVersion, so it is refused when the
target changed since, for instance because the patch landed after all.

`FixContract.tla` is the promise: `Approved` may be claimed for one permit, a
permit buys one patch, an outcome needs a claim and says what happened.

### ScheduledRun

`ScheduledRun.tla` is one template and its children. Due times are numbered
1, 2, ... in the order of the schedule and `now` is the last that passed; a
child is named after its due time (`childRunName`), so it is that number.

| State | Code |
|---|---|
| `template`, `version`, `next`, `active` | the CR, `status.nextRunAt`, `status.activeRuns` |
| `alive` | the children in the API server |
| `seenVersion`, `seenNext`, `seenActive`, `seenAlive` | informer cache; template and children are of one kind and come by one watch |
| `queue`, `timers` | workqueue, and the requests that `RequeueAfter` delays |
| `pc`, `ver`, `due`, `list`, `victims` | the worker: resourceVersion read, due time it acts on, `activeRuns` as it will write it, children to delete |
| `first`, `stamp`, `created`, `lost` | history: the first due time, creation times, creations, children deleted by a user or by a sweep of their own or an earlier due time |

`RequeueAfter: time.Until(t)` sets no timer when `t` has passed by then
(`ReturnUntil`), which can happen because the worker compares with an earlier
reading of the clock. Children do not wake the template's reconciler, because
their ownerReference names a group that no CRD has.

### Notification

`Notification.tla` is the manager between the callers that raise events, each
in its own thread, and the requests that edit `notification_configs`. Every
access to shared state is a step: `Claim` (`LoadOrStore` of the dedup map),
`Arm` (`AfterFunc`), the copy of the channels under the read lock, one `Send`
per channel. A request writes its row, lists the rows, and swaps the channels:
three steps, between which anything may happen, other requests included. Time is
relative: what is left of each timer, and how long ago each event was let through.

`Deliver` is a channel's `Send` with the context of its caller: the request
goes out and is answered; it goes out and the answer is an error or never comes;
or none goes out, because the URL cannot be used, nobody answers the dial, or the
context is cancelled. The contexts of approvals, rejections, tests and edits are
those of HTTP requests (`Clients`, `Requests`), which `net/http` cancels when the
client leaves (`Disconnect`): from then on every send fails, and so does a read
of the rows. A caller that is no client is a reconciler, whose context stays.

| State | Code |
|---|---|
| `configs` | the rows, oldest first |
| `loaded` | `Manager.channels`, `Manager.eventFilters` (by the channel's index) |
| `held`, `timers` | `Manager.dedup` and its `AfterFunc`s |
| `pc`, `event`, `snap`, `at` | a caller in `Notify` |
| `job`, `copy` | a request on the configurations, the rows it read |
| `sent`, `errs` | what a thread has put on the wire; the channels whose error it has noted |
| `gone` | the cancelled contexts |
| `age` | history: ticks since an event was let through, at most TTL |
| `lone` | history: the last edit met no other and its read succeeded |

### Translator and Agent

`Translator.tla` has no state: `selectSkills`, `resolveModelChain`,
`buildConfigMap`, `buildChainEnv` and `buildJob` as operators on skills and
ModelConfigs. `Agent.tla` is one run's agent built on it: `Compile`, `Start`
(`load_skills`, `from_env`), then the two loops of the model chain within the
loop of `run_agent`, the extraction of findings, the posts with their retries
and the flush of the counters. Whatever the model answers (four stop reasons,
four kinds of text), whatever fails (transient, refused, broken stream) and
whatever a POST does (stored, refused, stored with the answer lost) is a choice.

| State | Code |
|---|---|
| `keyed`, `bundle`, `job` | Secrets, the ConfigMap `skill-bundle-<run>`, the Job's environment |
| `pc`, `exit` | place of the process, and its end |
| `skills`, `chain` | what the agent loaded |
| `turn`, `cut`, `ep`, `attempt`, `reply` | `run_agent` and `ModelChain.invoke` |
| `found`, `next`, `tries`, `buffer` | findings, `post_findings`, buffered LLM events |
| `stored`, `counted` | the controller's table and its Prometheus counters |
| `calls`, `broken`, `posts`, `lost` | history |

### LogStream

`LogStream.tla` is the log of one run: the pod writes it, `collectPodLogs`
stores it after the run's end, and one reader gets it by whichever of the three
ways `handleAPIRunLogs` chooses. A line is described by what the two parsers ask
of it: is it JSON, which fields it has, is it longer than the scanner's buffer.

| State | Code |
|---|---|
| `pod`, `written` | the agent's pod and its output |
| `cr`, `row` | the CR in the cache, the run's row |
| `stored`, `nextId`, `others` | `run_logs` |
| `col`, `limit`, `taken` | `collectPodLogs`, `ParsePodLogStream` |
| `pc`, `follow`, `holds`, `got`, `lastID`, `empty`, `how` | the reader: `streamLivePodLogs`, `serveStoredLogs`, `streamStoredLogs` |

### EventCollector and EventQueries

`EventCollector.tla` follows one table: event objects that recur and expire, a
log of their changes by resourceVersion, the watcher that lists and then watches
from the list's version, the channel, the batcher, the upserts, the purge and
a restart. `EventQueries.tla` adds what `GET /api/events` answers from the
table, paged or not, as operators, so that paging is checked in every state
that the collector can bring the table into.

`Listings.tla` has the listings of runs and fixes and the page that all three
share: filters, `ORDER BY`, `LIMIT` and `OFFSET` (`PageOf`), the older limit and
offset, the names that the handlers put in from the CRs, and the scheduled
templates that `mergeScheduledTemplates` adds. The tables are constants: a
listing reads and writes nothing. Columns are numbers, and a page that is not a
number is like 0: either is taken for the first. No `ORDER BY` of the code
has a second key; `Tie` is the order of rows that compare equal, and that it is
the same in every query is an assumption about SQLite on which `PagesCover` rests.

`Selection.tla` says what a sorted or filtered sequence is, by the places of
indices in an order. The translator's skills and models, the manager's
channels and the listings are built on it; it uses cardinalities instead of
`SelectSeq` and `SortSeq`, of which the provers know nothing.

| State | Code |
|---|---|
| `version`, `born`, `last`, `here`, `log` | the API server |
| `watcher`, `pending`, `at` | `runEventCollector`'s `watchEvents` |
| `queue`, `batcher`, `buf` | the channel and `runBatcher` |
| `rows` | `events` |

### SkillSync

`SkillSync.tla` is the `skills` table and its writers: `loadBuiltinSkills` at
start-up, `SkillReconciler`, and through it users who apply, post, edit and
delete DiagnosticSkills. A CR has a key; the table only the name, which two
CRs of different namespaces share.

| State | Code |
|---|---|
| `cr`, `cache`, `news` | API server, informer, and of what it has not heard |
| `rows` | `skills` |
| `queue`, `pc`, `at`, `req`, `seen` | workqueue; the process: down, loading file `at`, or its worker |
| `orphans`, `erased` | history: rows that outlived their CR, names whose CR's row was erased |

The MC modules hold the instances' constants, the Proofs modules the proofs. Operators
with the comment "mutant" are plausible bugs of the definition below them; no
specification uses them. Each property was seen to fail with one of them in
place of that definition.

## Runs

| Run | Shows | Bounds and why they are enough |
|---|---|---|
| `run_faults` | types, `RowAgreesWithCR`, `NoSecondJob`, `AgentCanReport`, `ReportComplete`, `RowNotReopened`, `EndedStartsNoJob`, `ImplementsContract`; `RunningEnds`, `PendingLeftUnlessBlocked` under fairness | one run: runs of different names share only the worker. One crash at any point and one failed call anywhere, which together give two passes over every branch; one finding, which the summary has or lacks, as `ListFindings` is one query; a Job that its TTL takes away; edits up to version 3 so that every copy can be stale, also after the status update |
| `run_moved` | `ImplementsContract` with two UIDs of one name, the second for another cluster | the old Job in the slot that is watched for the new run, a registry that comes and goes; no crash or failed call, which `run_faults` covers |
| `fix_safe` | types, `OutcomeTrue`, `PatchNeedsConsent`, `ImplementsFixContract` | two requests, each approve or reject, because the hazard is a second decision on a copy read before the first took effect; a crash, a failed call, an edit. Symmetric in the requests |
| `fix_taken` | `DecisionsTaken` under fairness | one request; requests are finitely many and a second one only overwrites the phase |
| `sched_catchup` | types, `NoneSkipped`, `NoneRepeated`, `HistoryBounded`; `DueTimesServed` under fairness | two due times, so that the worker can act on the first while the second passes or is done; a limit of none, with which every sweep deletes, also the child just made; a crash, a failed call, an edit, the first child deleted by a user |
| `notify_window` | types, `LoneEditsTakeEffect`, `WindowKept`, `SentOrReported`; `WindowCloses` under fairness | two approvals and two requests (edits or tests), because a window is a matter between two callers and a lost edit one between two requests; `MaxStarts`: three of the four in all, so that two of either kind meet one of the other, or one that comes after both; one event, since events share nothing but the channels; one stored row, and settings with a filter that does not want the event, without one, and of a kind that has no channel; `MaxFaults`: a restart, a failed read, a failed send or a client that leaves, at any one point |
| `logs_followed` | types, `SameLog`; `FollowerReleased` under fairness | five lines, one of each shape that the parsers treat differently; another run's row between two of this run's, so that ids have gaps; one failed call, cut connection or crash |
| `events_stored` | types, `PagesCover`, `RowsNeverFallBack`; `OccurrencesStored` under fairness | two events, one without `lastTimestamp`, and two occurrences, so that one event occurs again; a channel of one and a batch of two, so that both are at their limit; a tick that makes rows old, a restart, a failed call. Three runs and three fixes in two clusters, with ties; templates with and without a row, a row without its CR. Page sizes 1 and 2 split the matches, 200 is clamped |
| `agent_ends` | types, `FallbackInOrder`, `FindingsAccounted`, `AsAsked`; `AgentEnds` under fairness | three skills, one disabled, and a wish in another order; a primary with a retry and two fallbacks, each of which may be missing; three turns, two continuations; two findings and two retries per POST |
| `skills_synced` | `RowsTrue`; `SyncedAtLast` under fairness | a name with two CRs and one that is built in, two broken files; four changes by users, so that a CR can be deleted and applied again around a crash; a crash and a failed call |
| `notify_edits` | a disagreement, see below | two requests, no failure: seven states |
| `fix_applying` | a disagreement, see below | the least that shows it |

Deadlock is not checked: a settled run, fix or table with spent bounds is a
state in which the system waits for its users.

What the properties say beyond their definitions:

- `NoSecondJob` rests on the primary key of `diagnostic_runs` alone. The cache
  may show Pending long after the run ended and its Job was cleaned up; the
  failing INSERT is what keeps a second Job from being created. An upsert, the
  obvious repair of runs that stay Pending behind their own row, breaks it.
- `PendingLeftUnlessBlocked` says which runs leave Pending: all but those whose
  row is already there, inserted by a pass that a crash or a refused status
  update ended early.
- `AgentCanReport`: the row is there before the Job, so the foreign key of
  `findings` never refuses an agent unless its run was batch-deleted.
- `RowNotReopened`: the message update writes Running into the row even when
  the CR refused the same write. It is safe because the worker is alone and
  checks the timeout before the message; with the check moved behind it, a run
  that timed out is reopened.
- `ReportComplete` holds without failed calls: a failed `ListFindings` is
  reported as no findings, as the code has it.
- `PatchNeedsConsent` counts: a fix that needs consent is patched at most as
  often as approve requests were made, through stale copies and restarts. One
  request cannot be spent twice because the claim is written with the
  resourceVersion at which `Approved` was read.
- `NoneRepeated`: a worker with an old copy of the template could create a child
  again that the history limit has deleted. It does not: a sweep by a worker
  whose copy is due later shows that the cache is past the child's time, and
  the cache does not go back; before that the child is still there and its name
  is taken. With a generated name the property fails.
- `HistoryBounded` says by how much a stale list and failed deletes may exceed
  the limit: by the latest child, one more that the cache lacked, and one for
  each failure.
- `OutcomeTrue`: the rollback's old resourceVersion is what keeps RolledBack
  from being reported when the answer of a successful patch was lost.
- `WindowKept` is about timers: a map without times is cleared by
  `AfterFunc`s, and one of an earlier window must not clear a later one.
- `RunningEnds` has one exception: a run whose Job was cleaned up before the worker
  saw how it ended (see below).
- `SentOrReported` compares what went out with the snapshot, channel by channel: an
  error must not end the loop, a client that leaves must leave an error for each
  channel not tried, and no request may go to a channel that does not want the
  event. Filters are found by index, and rows that are disabled or of an unknown kind
  have no channel; the index that counts is the channel's. What `Notify` returns is
  dropped by all its callers, so that "reported" means no more than a line in the log.
- `LoneEditsTakeEffect`: what overlapping or failed edits left wrong, the next edit that
  meets no other puts right; nothing of the old channels survives a reload.
- `WindowCloses` is also about failures: an event that reached nobody is suppressed
  for a window like any other, and not for longer.
- `SameLog`: the followed log is a poll by id over a table that other runs write
  to, the live one a stream parsed by other code than the stored one; all must
  give line `k` as the `k`-th entry, and the same entry.
- `FollowerReleased` has one exception: a reader of a run whose row was erased
  polls on.
- `RowsNeverFallBack`: list and watch feed one channel, and the upsert does not
  compare. It holds because what is in front is never newer than what is
  behind; a watch resumed at an old resourceVersion breaks it.
- `OccurrencesStored`: a failed upsert or a buffer lost in a restart is made good
  by the next list, because the API server closes every watch.
- `FallbackInOrder` counts calls per endpoint and turn against the retries of
  that endpoint.
- `FindingsAccounted` includes what the code loses: an agent that fails has
  reported nothing, not even the findings of its earlier turns, and the counter
  of exhausted chains stays zero.
- `AsAsked` has one exception: a ConfigMap of the run's name that was there
  before.
- `RowsTrue` has three, each with a history variable or a quantifier of its own:
  orphaned rows, a name that two CRs share, and a built-in skill whose row a CR
  had taken.

## Fairness

- `WF(WorkerStep)`: a call returns; controller-runtime keeps the worker going.
- `SF(Pop(n))`: the workqueue is first in, first out, but the worker is busy
  between two pops, so a pop is enabled again and again and not always.
- `WF(Sync)`: the watch delivers, or the informer lists again.
- `WF(Overdue)`, `WF(Expire)`: clocks advance.
- `WF(JobFinish)` only for runs without `timeoutSeconds`: nothing else bounds
  them. A timed run's agent may hang.
- Users, edits, crashes, failed calls, the registry, and the requests have no
  fairness: they may never come.

- `ScheduledRun`: `WF(Sync)`, `WF(Alarm)`, `WF(WorkerStep)` as above, and
  `WF(Resync)`, the informer's resync every ten hours, which makes up for a
  timer that was not set. The clock has none: a due time that never comes
  promises nothing.

- `Notification`: `WF(Dispatch)` (a thread runs on; an HTTP client has a
  timeout), `WF(Expire)` and `WF(Tick)` (timers fire). Requests have none, nor have
  failures and clients that leave.
- `LogStream`: `WF(Collector)`, `WF(Reader)`; pods, runs and connections may do as
  they like.
- `EventCollector`: `WF(Watcher)`, `WF(Batcher)` (the ticker ticks), and
  `WF(WatchCloses)`: the API server ends a watch after its
  `--min-request-timeout`.
- `Agent`: `WF(Process)`. Every call has a timeout: MCP 10 and 30 s, POSTs 10 s,
  reads of a model's stream 120 s. The kubelet's start is part of it, enabled
  when all keys are there.
- `SkillSync`: `WF(Start)` (the kubelet restarts the process), `WF(Deliver)`,
  `WF(Reconcile)`.

In `DiagnosticFix` and `ScheduledRun` the worker's fairness includes taking from the queue, since
there is one key. No property relies on the number of edits or crashes being
bounded other than by not being infinite: an edit storm that meets every
status update would starve any optimistic writer.

## Proofs

Every invariant and every action property that a passing run checks is stated by a
theorem, for every set of runs, slots and requests and every bound. Two have a
hypothesis, named in the table; otherwise they rest on the ASSUMEs only, which
TLC evaluates in the runs:

- slots are functions on runs, subsets are subsets, bounds are naturals,
  `Requests` is finite, the history limit is any integer;
- `SettingsAssumption`, `StoredAssumption`, `FlagsAssumption`, `SkillsAssumption`
  and `ModelsAssumption` say what rows, flags and ModelConfigs may hold (a flag
  makes a channel of a known kind without a filter, retries are naturals);
  `ThreadsAssumption`: a request is not a caller, a client is one;
- `EventsAssumption`, `RunsAssumption`, `FixesAssumption`, `CRsAssumption`: tables are
  finite, and sorted columns are integers; `Tie` orders rows that compare
  equal; `UnsetAssumption`: a parameter that is not given is not a number.

| Theorem | Statement |
|---|---|
| `TypeCorrect`, `FixTypeCorrect`, `ScheduleTypeCorrect`, `NotifyTypeCorrect`, `LogTypeCorrect`, `CollectorTypeCorrect`, `AgentTypeCorrect` | `[]TypeOK` |
| `Invariance`, `FixInvariance`, `ScheduleInvariance` | `[]Inv`, `[]FixInv`, `[]ScheduleInv` |
| `NothingSkipped`, `NothingRepeated` | `[]NoneSkipped`, `NoneRepeated` |
| `HistoryStaysBounded` | `[]HistoryBounded` |
| `StoreFollowsCR` | `[]RowAgreesWithCR` |
| `OneJob` | `[]NoSecondJob` |
| `AgentsCanReport` | `[]AgentCanReport` |
| `EndedStaysEnded` | `EndedStartsNoJob` |
| `ReportsAreComplete` | `[]ReportComplete`, if `LooksAtItsOwn` |
| `RowsStayEnded` | `RowNotReopened`, if `LooksAtItsName` |
| `Refinement` | `ImplementsContract` |
| `TruthfulOutcome` | `[]OutcomeTrue` |
| `Consent` | `[]PatchNeedsConsent` |
| `FixRefinement` | `ImplementsFixContract` |
| `NotifyInvariance`, `WindowIsKept` | `[](ManagerOK /\ WindowInv)`, `WindowKept` |
| `EachSentOrReported` | `SentOrReported` |
| `LoneEditTakesEffect` | `[]LoneEditsTakeEffect` |
| `SkillInvariance`, `TableTellsTheTruth` | `[]SkillInv`, `[]RowsTrue` |
| `OneLog` | `[]SameLog` |
| `FlowInvariance`, `NoRowFallsBack` | `[]FlowInv`, `RowsNeverFallBack` |
| `PagesAreComplete` | `[]PagesCover` |
| `FindingsAddUp` | `[]FindingsAccounted` |
| `NoFallbackTooSoon` | `[]FallbackInOrder` |
| `WorksAsAsked` | `[]AsAsked` |

**The invariant of DiagnosticRun.** `RowAgreesWithCR` is not inductive: when
the worker writes a row's terminal phase it must know that the CR has it. So
`Inv` adds what each program counter knows. `CacheLags`: a cached copy with the
CR's resourceVersion has the CR's phase. `WorkerLags`: the worker's copy comes
from the cache, so if it is still fresh at an update, the CR is in the phase
its branch is for; this turns optimistic concurrency into knowledge about
phases, and is the reason that no update turns an ended run back.
`EndingPending`: past the terminal update the CR is at the goal, or gone, and
nobody was told. `RowBeforeJob`: a row precedes the first Job and outlives it,
so a worker at "create", which has just inserted, is creating the first. With
`Inv`, each step is a step of `RunContract` or a stutter.

Two more properties are about the Job that the Running branch looks at, which
is found by name and may be another run's. `ReportInv` adds to `Inv` that
every Job is where its run's Jobs are created (`JobsInPlace`), that a run past
Pending has its row, so no stale pass gets beyond the INSERT to a second Job
(`StartedHasRow`), and that from the moment its Job was seen to have succeeded
an agent posts nothing more (`CountFinal`). The last is false if the Job that
succeeded is not the run's own, as when a run for another cluster is looked for
locally and finds its namesake; `LooksAtItsOwn` excludes that. `RowInv` adds
that the cache follows the CR along its lifecycle and that of two runs of one
name one lives at most (`CacheBehind`), and what is known once a row has ended
(`EndedRows`): the Job that would be looked at is not running, or the run is over
its time, or nobody takes the run for Running. It needs that the Job looked at
is of the same name (`LooksAtItsName`), because a run whose truncated Job name
is another's name lends it a running Job. Local runs whose names are not cut
satisfy both, as do those of `run_faults`; in `run_moved` the first does not
hold.

**The invariant of DiagnosticFix.** `CopiesLag` says the same of all copies at
once: a copy with the CR's version is the CR. `WorkerKnows` gives the phase of
the worker's copy at each call, so a fresh conclusion finds Applying.
`NoEarlierOutcome` keeps `OutcomeTrue` over a patch: while one is on its way the
CR cannot show the outcome of an earlier one. `ConsentCovers` is the account
behind `Consent`: patches sent, the one about to be sent and an unclaimed
`Approved` together never exceed the approve requests answered. Each approve
status write answers one request, each claim moves one unit within the sum.

**The invariant of ScheduledRun.** `NoneSkipped` needs to know that a worker
about to move `nextRunAt` on has created the child of the time it moves past
(`WorkerKnows`) and that its time is the template's (`CopiesAge`: copies are
never ahead, and one with the template's resourceVersion is equal).
`NoneRepeated` needs `ChildrenKnown`: a child that was created and is gone,
and was not lost, belongs to a time before every copy's. A sweep keeps that
because whatever it takes at or after its own due time counts as lost.
`HistoryBounded` is proved from `HistoryInv`, an account of cardinalities: a
copy with the template's resourceVersion lists every child that must be within
the limit (`ChildrenListed`), because the status update that recorded a child
in `activeRuns` came after its creation; so what a sweep leaves before
`nextRunAt` moves on is limit + 1 and one per failed call (`SweepBounded`), and
between two moves nothing is added but the latest child.

**The invariant of Notification.** `WindowInv`: an event in the map has exactly
one timer, or a caller between `LoadOrStore` and `AfterFunc`; what is left of a
timer and the age of its event together are at least TTL. So a timer that
runs late still belongs to the window it was set in. `LoneInv`: when no edit is
being served after a lone one, the channels are those of the rows; while one is,
and it is alone, the rows it read are the rows there are. Overlapping edits and
failed reads make `lone` false until the next lone edit, which starts the argument
again. `WireInv` is about what was sent: a caller at channel `n` of its snapshot has
sent what the channels before `n` are due, in their order, except some of those whose
errors it noted; all these are wanted; and filters and channels of a snapshot
belong to the same rows. It rests on lemmas about `Selection`: a subsequence
grows by one element when one more index at the end is chosen.

**The invariant of SkillSync.** `SkillInv` sorts the rows a name may have:
built-in (`BuiltinYields`), none (`MissingKnown`), a CR's (`CRRowsTrue`), and
says of each that it is right or that something is pending for a CR of the name:
an event, a request in the queue, or the worker itself. `WorkerCurrent` ties
what the worker holds to the cache, or to another request for the same key,
since the queue takes a key again while it is being worked on.

**The invariant of LogStream.** `TableInv`: the run's rows are the lines taken so
far, by growing ids, or none once it is erased. `ReaderInv`: a polling reader's
`lastID` is the id of the last entry it was sent. The two parsers agree on every
line (`SameEntry`), which makes live and stored logs one.

**The invariant of EventCollector.** `FlowInv`: what is listed, what is in the log
past the watcher's place, what is in the channel, in the buffer and in the table
of an event are in the order of its occurrences. Each step moves one item one
place on (`JoinKeeps`, `TakeKeeps`, `TableKeeps`); a restart empties the middle.

**The invariants of Agent.** `FindInv`: what is behind `next` is done with, `next`
was posted `tries` times, the rest not at all, and before the first POST the
controller has heard of nothing. `ChainInv`: while an endpoint is called its
calls are one less than `attempt`; those in front are spent, those behind
untouched. That the chain is a sequence of ModelConfigs, and not empty, follows
from the lemmas about `Selection`. `AskedInv`: what the agent loaded is what the
ConfigMap and the environment say, and these were made from the rows and the
ModelConfigs: every skill loaded is enabled, every enabled one that was asked
for is loaded, and each endpoint of the chain has the retries of its own model.

**Pages.** `PagesAreComplete` needs no invariant but the type of the table. A
strict total order puts each row of a finite table at one place
(`SortedRows`), so the sorted table lists every row once; page `p` of size `m`
is its places `(p - 1) * m + 1` to `p * m`, every place is on exactly one page
(`PagesTile`), and as many pages as there are rows reach the last place. Filters
take a part of a finite table (`Subtables`), names change no uid (`NamesKeepRows`),
and a merged template has a uid that no row of the answer has (`MergedTemplates`).

Only model-checked: the liveness properties (`RunningEnds`,
`PendingLeftUnlessBlocked`, `DecisionsTaken`, `DueTimesServed`, `WindowCloses`,
`FollowerReleased`, `OccurrencesStored`, `AgentEnds`, `SyncedAtLast`), which
need fairness and ENABLED, outside the prover's reach; and the disagreements that
`fix_applying` and `notify_edits` show. The inductive invariants themselves were
also checked with TLC on the instances of `run_faults` (with `ReportInv` and
`RowInv`), `run_moved`, `fix_safe`, `sched_catchup` (with `HistoryInv`),
`notify_window` and `skills_synced`.

## Disagreements with the documents

| Run | The document | The code |
|---|---|---|
| `fix_applying` | `docs/crd-user-guide.md:639`: Applying ends in Succeeded or Failed | after a crash, or a conflicting write of the outcome, the branch for Applying only waits |
| `notify_edits` | `manager.go:12`: changes of the configuration take effect at once | each request writes, lists and loads with no lock across the three (`server.go:1519`): of two at a time the older list may be loaded last, and stays loaded |

Others are visible in the models, where they are exceptions of a property or
outcomes of an action, and have no run of their own:

Runs
- `docs/crd-user-guide.md:314` has Pending lead to Running. After a crash or a
  refused update between `CreateRun` (`run_reconciler.go:121`) and the status update
  the plain INSERT refuses every retry: Pending for ever
  (`PendingLeftUnlessBlocked`).
- A remote run's Job is looked for locally (`cluster_registry.go:17` promises
  otherwise); after an hour the phase Unknown is written, which the CRD does not
  admit: Running for ever. The same holds of a local Job cleaned up by its TTL
  unseen.
- `run_reconciler.go:19`: every ending is logged, counted, announced. A crash after
  the terminal status update leaves row, logs and notification undone.
- `server.go:1586`: deleting the CR first keeps the row from coming back. A
  reconcile that read the CR earlier inserts it afterwards. `kubectl delete`
  leaves the row for ever.
- A run deleted and created again under its name adopts its predecessor's Job
  (AlreadyExists, `run_reconciler.go:134`).
- The gauge of active runs is decremented for runs that were never counted and
  restarts at zero; `started_at` of a row is overwritten by every message; a
  failed `ListFindings` is reported as no findings; a run over its time is failed
  but its Job, which has no `activeDeadlineSeconds`, goes on and posts.

Fixes
- `fix_reconciler.go:34`, `README.md:229`: Failed, then RolledBack. `rollback` runs
  first and `failFix` overwrites RolledBack.
- `docs/crd-user-guide.md:644` says a dry run is never executed, `README.md:228` and
  the approve endpoint execute it. Batch approve and reject write only the store,
  so the fix is not applied although its row says Approved.

Schedules
- A negative history limit makes `enforceHistoryLimit` panic after deleting every
  child; the limit deletes by age though `api/v1alpha1/types.go:89` speaks of
  completed children; children outlive their template because of the
  ownerReference's group; a child is made without the template's `clusterRef` and
  `fallbackModelConfigRefs`.

Notifications
- The comment of `Notify` speaks of parallel delivery; channels are served one
  after the other, with the caller's context. When the client of an approval or a
  rejection leaves, no further channel is sent anything, the error is dropped
  (`server.go:741`), and the window stays closed for the whole TTL, so that a second
  approval is not announced either. The same holds when every endpoint failed. The
  handler's reload uses such a context as well: an edit whose client leaves
  after the write is in the table and not in effect (`ListFails`). PUT accepts an unknown kind, whose row then has no channel. After the
  last row is deleted the command line's channels are back only with a restart.
  An answer of status 200 with an error in its body counts as delivered.

Logs
- `logs_handler.go:152`: "done" comes when all is sent. It comes after two empty
  polls once the row has ended, and `collectPodLogs` stores lines after that row
  was written; a reader can be let go before the first of them.
- `logger.py:3` describes fields `ts`, `level`, `msg`; both parsers look for
  `timestamp`, `type`, `message`, so every line of an agent is kept as raw text
  of type info with the time it was read.
- A line over 1 MB ends the collection and every live reader. The pod is found by
  the untruncated name, locally.

Agents
- `reporter.py:6` calls findings idempotent; the INSERT takes a fresh id, so a
  POST whose answer was lost stores the finding twice.
- `model_chain.py:5` sends a broken stream on to the next endpoint; a
  `RemoteProtocolError` is retried on the same one and a `ReadError` ends the
  agent.
- A chain that is exhausted, or any other failure, ends the process before the
  findings of earlier turns are posted and the counters flushed, so
  `kah_llm_chain_exhausted_total` never grows.
- The ConfigMap of the skills has no owner and is accepted as found; a
  ModelConfig whose Secret lacks the key keeps the pod from starting, a fallback's
  as well; `ModelConfig.maxTurns` is not passed on; a reply cut off by
  `max_tokens` within a tool call is continued without a result for it; an enum of
  a finding that is not a string ends the agent; an agent whose POSTs all
  failed exits with 0.

Skills
- `skill_reconciler.go:20`: built-in skills are not deleted by mistake. One that a
  CR had shadowed is gone with the CR until the next restart.
- `docs/crd-user-guide.md:345`: a CR of the same name has priority, and files are
  loaded while running. They are read at start-up only, over the CRs' rows, and
  a run compiled before the first reconcile gets the built-in skill, even one that
  its CR disables.
- A CR deleted while the controller is down, or whose clean-up failed, leaves its
  row for ever. The table's key is the name alone: the CR of another namespace
  loses its row with the deleted one. A skill posted without `enabled` is
  disabled.

Clusters and events
- `clusterconfig_reconciler.go` keeps the old client registered when a new
  kubeconfig does not work, and does not watch the Secret.
- At a shutdown the batcher flushes with a cancelled context, so nothing of its
  buffer is stored; `OccurrencesStored` holds because the next start lists again.

## What is left out

- In `DiagnosticRun`: times other than the two deadlines, messages, metrics, audit.
- ServiceAccount, binding and ConfigMap are part of `CreateJob`: they are
  idempotent and created before the Job, and nothing reads them back.
- The informer of Jobs: `CheckJob` reads the Job as it is. A lagging copy only
  delays what the next poll sees, except that the Job may be seen as missing
  shortly after its creation, which `expired` keeps from mattering for an hour.
- `CreateJob` cannot tell a lost answer from a refusal, and neither can the code: the run
  is failed in either case, and in the first its Job goes on and posts.
- `Owns(Job)` events: a Running run is requeued every ten seconds anyway.
- `Sync` jumps to the latest version of an object: informers may skip
  versions but do not go back.
- A TTL-cleaned Job (`TTLSlots`) is possible only where a run says so, because
  it needs an hour of controller downtime, and a run that may be deleted
  (`Doomed`) likewise; both keep the instances small.
- In `DiagnosticFix` users edit labels but not the spec, the only spec change
  being the one the approve endpoint makes; a fix is one UID, so the generator
  does not meet a successor; notifications are omitted; the target is its
  latest patch's effect. A fix whose target kind is unknown, or whose manifest
  does not parse, counts as a refused patch.
- In `ScheduledRun` the schedule is fixed; a template whose schedule is edited
  keeps its old `nextRunAt` once more, one whose schedule is removed becomes an
  ordinary run. The children's lives are `DiagnosticRun`'s subject; the two are
  not composed. Negative limits are in the proofs but not in the run.
- In `Notification` the wording of messages and the signatures themselves; redirects
  of an endpoint. A write to the rows that landed although its answer was lost is
  not an action of its own: it leaves what an edit leaves whose reading of the rows
  fails.
- In `Agent` prompts, tools' results (an MCP call returns text or nothing and
  changes no state), backoff times, and the single-model environment that
  older images read. The run the agent belongs to is `DiagnosticRun`'s subject: there
  a Job may post and finish at any time, which covers every agent.
- In `LogStream` other readers, which share nothing with this one; a time is "own" or
  "now", so that `SameLog` does not compare the times at which a raw line was read by
  one way or the other, which differ.
- In `Listings` one set of CRs (`RunCRs`) answers both lists that a request for runs makes,
  one for the names and one for the templates; in the code one of them may fail, or
  see a change, without the other: then a name is missing, or a template.
- In `EventCollector` severity and message of an event; queries by other columns
  are equality filters and part of `opts.uids`.
- In `SkillSync` the texts of skills; a row is its source, whether it is enabled, and
  its priority.
- Not modelled: the metric collector (one query and INSERT per tick, no state
  kept), the ModelConfig reconciler (logs whether a Secret exists), MCP tools,
  sanitizer and trimmer (projections of what they read), the CLI and the dashboard
  (clients), the audit middleware and run metrics (nothing reads them), the
  construction of Kubernetes clients, generated deep copies. Of the REST
  endpoints: reads, and creations that are one call to the API server. The
  ClusterConfig reconciler only by what it does to the registry.
- A second controller replica: the manager runs without leader election and
  the manifests deploy one replica.

## What could come next

- `DiagnosticRun` composed with `Agent`: the findings of the one are posts of the
  other, so that a run's report and the agent's losses meet in one property.
- `ScheduledRun` composed with the phase of its children, for a history limit
  that counts completed ones.
- The ClusterConfig reconciler with the Secret it does not watch.
- An abstract schedule that `ScheduledRun` implements while no child is lost, and
  an abstract window that `Notification` implements.
- `RowNotReopened` with names instead of slots: the translator's cut at 63
  characters says which names are harmless.
