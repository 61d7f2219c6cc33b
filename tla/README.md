# TLA+ models of OpenClaw AutoDeploy

OpenClaw AutoDeploy runs one container for each tenant. An HTTP API
(`control-plane-api`) stores tenants, profiles, secrets and LLM keys in Postgres
and enqueues *lifecycle jobs*; worker processes (`ultraworker`) take the jobs
and drive Docker through its command line; `openclawctl` is a client of the API,
and for one command (`tenant insert`) of the database.
Nothing but the database connects the processes. The repository has hardly any
tests, opens one transaction in the whole program (the claim of a job), and its
hard part is what happens between two statements. That is what is modelled here.

Run anything from this directory: `tlc -config <run>.cfg <MC module>`,
`tlapm <X>_proofs.tla`.

## 1. Inventory

| component | state | operations | hard behaviour | what makes it correct |
|---|---|---|---|---|
| lifecycle API (`internal/api/server.go`, `handleLifecycleEnqueue`) | none of its own; inserts into `deployment_jobs` | deploy, redeploy, stop, start, restart, destroy | check of active jobs, idempotency lookup and INSERT are separate statements; answers get lost | one active job per tenant; one job per Idempotency-Key; a 202 names the right job |
| job queue (`internal/store/postgres/store.go:631-815`) | `deployment_jobs`: status, heartbeat, worker, attempts | enqueue, claim (`FOR UPDATE SKIP LOCKED`), heartbeat, mark | claims race; workers die, fall silent, report late | exclusive execution; final outcomes; no job is lost |
| worker loop (`cmd/ultraworker/main.go`) | `worker_heartbeats` | poll, drain, die, restart | the loop is blocked while a job runs | an abandoned job is taken up again |
| job executor (`internal/jobs/executor.go`) | `tenant_instances`, `tenants.status`, release directories, the link `current` | six handlers | a handler is 5 to 15 fallible steps; half of the errors are ignored; a job is executed again after a crash | tables agree with Docker after success; containers stay reachable; each row has a version and a release of its own; what failures leave behind is accounted for |
| docker client (`internal/docker/client.go`) | the daemon: containers by name, volumes | run, start, stop, rm, inspect, volume | names are reused, ids go stale, a container may exit | (properties of the executor) |
| LLM key pool (`store.go:397-629`) | `llm_providers`, `llm_api_keys`, `tenant_llm_key_allocations` | upsert and delete provider, add and deactivate key, allocate, revoke; read by a deploy | three statements each, cascades from other requests in between, a derived counter | references hold; a key is injected under its provider's name; the counter covers the allocations |
| profiles and secrets (`service/profile_validator.go`, `store.go:105-271`) | `tenant_profiles` with `is_valid`, `tenant_secrets` | PUT, validate, set and delete secret; read by a deploy | validation is several queries, its result is cached | what is marked valid, and what is deployed, was validated |
| tenants, templates, images | three tables | single-statement handlers | none | - |
| readiness and metrics (`server.go:83-182`, `main.go:45-79`) | `worker_heartbeats`; the worker's ticker | heartbeat, drain, `GET /readyz`, `GET /metrics` | the heartbeat is written between drains only; a busy worker looks dead | no false alarm about a waiting worker; a death is noticed |
| CLI and HTTP client (`cli/root.go`, `client/client.go`) | a command's own | `job watch`, paging, `tenant insert` | several requests against a table that changes; a write past the API | what was shown stays true; a watch ends; no row is missed |
| configuration, process start, scripts | none | - | none | not modelled |

Interaction: the API and the workers share the tables; a job row is the only
message between them. A deploy reads the profile and secrets that profile
requests are writing, and the key pool that allocation requests are changing.
`PROJECT.json` lists every component with its status, and every hazard with the
line at which it bites.

## 2. Modules and how they correspond to the code

One action is one SQL statement, one docker command or one change of the file
system; a `pc` says which comes next in a handler, so anything may happen in
between. Only the claim of a job is a transaction, and there the row lock is
modelled.

**`JobQueue`** is the table `deployment_jobs` with the API handlers and the
workers. `Admit`, `ReturnExisting`, `MissKey` and `InsertJob` are the statements
of `handleLifecycleEnqueue` and `EnqueueDeploymentJob`; `SelectJobForUpdate` and
`CommitClaim` (or `FailClaim`) the transaction of `ClaimNextPendingJob`; then
`UpdateJobHeartbeat`, `MarkJob`, `LoseOutcome`, `Crash`, `Restart`. Rows are
numbered in the order of `scheduled_at`. A heartbeat is `null`, `fresh` or
`stale`; `Expire` is the passing of `job_heartbeat_ttl`. `by` is history: which
handler inserted a row. The UPDATEs of heartbeats and outcomes wait for a row
lock (`~Locked`) and, as in the code, look at nothing else.

*SlowExecution.* `execute` sends a heartbeat before and between some phases and none while
it waits for a container. The wait lasts up to `health_timeout` (60 s in the
README's example), while `job_heartbeat_ttl` is 20 s there (30 s by default); also
the threshold is computed by the worker's clock and compared with the
database's. With `SlowExecution = TRUE` a live worker's heartbeat may expire at
any time; with `FALSE` a deployment has set the TTL above the longest silence.
Both are checked and proved about, and each property says which one it needs.
Workers are assumed to have distinct names.

**`JobLease`** is the abstract specification of the queue: a job is undecided
until the one worker that runs it decides it, once. `JobQueue` implements it when
`~SlowExecution`, under the mapping `outcome` = pending and running collapse to
"undecided", `runner` = the live worker that executes the job.

**`Executor`** is what a job does: rows of `tenant_instances`, `tenants.status`,
containers under their names, the volume, the releases and the link. The steps of
`handleDeploy` are `ReadCurrent` ... `PublishNew`, `UpdateTenantStatus`; those of
the other four handlers `ReadInstance` ... `RecordInstance`. Ignored errors are a
disjunct of the step (`\/ Fault /\ UNCHANGED docker`), returned errors are
`Fail`, and `Crash` is possible anywhere and makes the job start from its first
step. The queue appears as what `JobLease` promises: a tenant has one active job
and one worker runs it; what happens without that is `ControlPlane`'s
question. `ContainerName` stands for `containerNameForTenant` and need not be
injective. `Begin` is split so that the composition can use its half (`Start`),
and `Agree` says what each type of job establishes.

**`ControlPlane`** composes the two by `INSTANCE`: `Claim` commits a claim and
calls `execute` with the row, `Run` is a step of the handler, `Report` writes its
outcome and forgets the job, `Die` kills the worker in both, `Request` asks `rows`
for the instance that all but a deploy need. Nothing is assumed of the number of
workers at one job. `slow`, chosen at the start, says whether a heartbeat may
expire under a live worker, so that one run covers both. `ImplementsExecutor` shows
that the assumption `Executor` makes about its queue is one the queue meets. `RenderInv`
and `HoldInv` are the invariants of its proofs.

**`KeyPool`** has one action for each statement on the three tables, `Cascade`
for `ON DELETE CASCADE`, `Abort` for a request whose client goes away half way
(no transaction undoes its first statements), and the three reads of a deploy.
`serial` is history: requests came one at a time and none was cut off.

**`Profile`** has `Validate` query by query (`CheckTemplate`, `CheckRoute`,
`CheckSecrets`), the upsert with its constraints, secrets with their versions, the
admission of a deploy and what the worker reads. Checks that look at the request
alone are one boolean, `sound`. `Revocable` is the set of tenants whose clients delete
secrets, so that what is lost by revoking can be told from what is lost by races. `InsertProfile`
is `openclawctl tenant insert`, which writes the row of a profile past every check
and leaves its `is_valid` alone; `direct` remembers that the stored input came this way.

**`Readiness`** is the loop of `main.go` (a `select` on a ticker whose channel holds one
tick, a heartbeat, a drain that takes as long as it takes) and `handleReady`. Time is counted
in units, `Elapse`, in which a worker that only waits acts at once; `missed` is history: the time since
a heartbeat could not be written. Several processes may share the one worker name the API asks for.

**`Operator`** extends `JobQueue` with those who only read: `job watch` with its two timers and
Go's choice between channels that are both ready, a client that pages with `OFFSET`, a
monitor that scrapes the counters of `/metrics`. One of them is at work at a time; as they change
nothing the others read, that loses nothing.

The **`MC...`** modules give the constants values for TLC; workers, and handlers, are
interchangeable in `JobQueue` and `Profile` (symmetry is used in runs of safety properties and
of `JobLease`, which has no liveness, only). The **`..._proofs`** modules hold the theorems.

Definitions whose comment begins with "Mutant:" are plausible mistakes, one for
each checked property; no specification uses them. Replacing the definition
after them by one of them breaks the property, which shows that the property
depends on that line of the code.

## 3. What the runs check

| run | checks | bounds |
|---|---|---|
| `JobQueue_leased` | `TypeOK`, `RunningHasHeartbeat`, `ExclusiveExecution`, `OutcomeStable`, `ImplementsLease` | 2 workers, 2 handlers, 3 jobs, 2 faults; heartbeats in time |
| `JobQueue_concurrent` | `DistinctAdmitters`, `KeyedDistinct`, `AcceptedJobMatchesRequest`, `NeverReopened`, `RunningHasHeartbeat` | 2 handlers, 2 workers, 2 job types, one key or none, 2 jobs; slow workers |
| `Executor_agree` | `TypeOK`, `SuccessMeansAgreement`, `VersionsIncrease`, `LeftRunningIsDue`, `ContainerReachable` | 1 tenant, 4 jobs of any type, 2 faults, 1 exit |
| `ControlPlane_composed` | `ImplementsExecutor`, `RowsAreRendered`, `JobsSettle` under `FairSpec` | 1 tenant, 2 workers, deploys and destroys; 2 jobs and 2 faults when heartbeats come in time, 1 of each (`MaxSlow`) when they need not |
| `KeyPool_refer` | `TypeOK`, `AllocationsRefer`, `KeysCarryNames`, `InjectedUnderItsName`, `CountCoversAllocations` | 2 tenants, 2 handlers, 2 providers, 2 keys, 4 requests one at a time or 3 concurrent, 1 fault |
| `Profile_valid` | `TypeOK`, `RouteKeysDistinct`, `ValidIsValidated`, `DeploysValidated` | 2 tenants (one revocable), 2 concurrent requests, an enabled, a disabled and an unknown template, 3 requests, 2 versions of a secret |
| `Readiness_alarm` | `TypeOK`, `RenewedSinceTick`, `NoFalseAlarm`, `DeathIsNoticed`, `IdleWorkerIsReady` under `FairSpec` | 2 processes of one name, an interval of 3 units, a TTL of 4 |
| `Operator_watch` | `ShownIsFinal`, `PagesMissNothing`, `CountersOnlyGrow`, `WatchEnds` | 3 jobs, 2 workers, pages of 2, 1 fault; heartbeats in time |

Why these bounds: every hazard the properties are about is between two actors
(two claims, two requests, a request and a deploy, a reader and a worker) and over one row; two actors
and one row more than the conflict needs are there in each run. Two faults allow a failure
during the recovery from a failure. Four jobs are the longest chain that matters
to a tenant: deploy, a second deploy that replaces or fails, an operation on
what is left, and one more that shows it recovered. Three jobs on pages of two push a row
from one page to the next. A TTL one unit above the interval is the tightest that
`NoFalseAlarm` survives by more than equality. The theorems of section 5
then remove the bounds for all safety properties.

What each passing run shows. *`JobQueue_leased`*: while heartbeats come in time, a job has one
runner and one outcome, whatever dies or is lost. *`JobQueue_concurrent`*: what is left when
requests race and workers are silent: two active jobs of a tenant come from
different handlers, and a finished job is never reopened. *`Executor_agree`*: a success means that
tables, Docker and files agree, no failure puts a container out of reach, and superseded rows left "running" are
as few as the failures explain. *`ControlPlane_composed`*:
the queue keeps what the executor relies on; and even when two workers execute one job at once,
rows refer to rendered releases and every job is settled. *`KeyPool_refer`*, *`Profile_valid`*,
*`Readiness_alarm`*, *`Operator_watch`*: see their properties.

`SuccessMeansAgreement` speaks of the current row of a tenant and of what its job did. Of a destroy that
is to delete the workspace it says what the code does: the link is gone, and the release of every row, with its
`app.env`, is still there. That is less than the command line promises (below).
`LeftRunningIsDue` speaks of the rows behind the current one. A deploy retires the row it replaces,
but ignores errors of doing so, takes an error of its query for "no current instance", and sets the old row to running
again when the new container fails; the next job looks at the latest row only, so that nobody ever corrects
the old one. One such row for each failure, death or exit is therefore allowed, and a row left
without one is not. It is no idle count: `CountRunningContainers` (`store.go:1162`) counts these rows too.

In the composition a death in the middle of an execution counts twice against `MaxFaults`, once in the queue and
once in the executor. With a bound of 2 such a death is therefore combined with no other fault, and
where heartbeats may be late (`MaxSlow` = 1) a worker dies only while it executes nothing. The runs
`JobQueue_leased` and `Executor_agree` combine two deaths, each in its component; looser bounds take TLC far beyond
a few minutes. The theorems about the composition have no such bound, `JobsSettle` has it.

`CountCoversAllocations` is claimed only while `serial`. Two revocations of one allocation
decrement twice, and a request cut off between its upsert and its count never
counts; then the property is false, and the code makes no claim about it. `ShownIsFinal`
(for the status itself) and `CountersOnlyGrow` are claimed for heartbeats in time: a job that two workers
execute is reported twice, and the second report may contradict the first. `ContainerReachable` is not claimed
of the composition: two workers at one job may leave the container of the one and the
row of the other.

Deadlock is checked for `JobQueue`, `Executor` (which may rest when the bound
on jobs is reached and no worker is at work), `ControlPlane`, `Readiness` and `Operator`; `KeyPool` and
`Profile` stop when their bounds are used up.

*Fairness.* `ControlPlane`: workers poll on a ticker and drain the queue (`main.go:51-79`), so a
worker that can select a job does; statements return; a health check has a
deadline, so a job ends in either way; `Restart=on-failure` of the systemd unit restarts
a worker that died, while one stopped by SIGTERM exits cleanly and is somebody's
intention, not a fault; clocks advance. All of it is weak. Docker commands have no timeout in the code: that they
return is an assumption, and a daemon that hangs stops the worker for good. No
client is obliged to send anything. Faults are bounded; without a bound a job
that kills its worker each time never ends, and the code has no limit on reclaims.
`Readiness`: somebody asks `/readyz`, time passes, a process in its `select` takes a tick; neither
that a process starts nor that a drain ends. `Operator`: a request returns (the client has a timeout), tickers tick, and the
deadline of a watch passes. Taking the deadline has strong fairness: Go's `select` chooses
at random between channels that are ready, so it is not for ever against the deadline, which
is ready in each select after it has passed, but is not looked at in the requests between. Nothing is assumed of workers there: a
watch of a job that nobody takes ends too.

### Runs that end in a violation

Each checks one statement of the repository against the model.

* `JobQueue_two_active`: "rejects if another lifecycle job is already active"
  (`docs/en/api-reference.md:378`). Two concurrent requests pass `FindActiveJob`
  before either inserts.
* `JobQueue_live_reclaim`: "TTL before a stalled job is re-claimed"
  (`README.md:106`). A worker in a health check is silent for longer than the TTL; a second
  worker executes the same job beside it.
* `Executor_rollback`: "the previous container is restarted automatically"
  (`README.md:144`). The previous container has the name of the new one, and
  `CreateAndStartContainer` removes that name before `docker run`.
* `Executor_shared_name`: "one dedicated OpenClaw container"
  (`docs/en/architecture-design.md:106`). Slugs such as `a.b` and `a_b` give one
  container name; a deploy of the one tenant removes the container of the other.

### Other disagreements between code and documents

Met while modelling; the models do what the code does, and no run is kept for these.

* A retry with the Idempotency-Key of a job that is still active is answered 409
  and not with the job (`api-reference.md:491`; `server.go:664` looks for active jobs first).
* One key with two different bodies is no conflict (`api-reference.md:492`;
  `store.go:655` compares tenant, type and key).
* `openclaw_jobs_succeeded_total` is exported as a counter (`server.go:170`) but counts
  rows, and a late `MarkJobFailed` (`store.go:796`) turns one back.
* `openclaw_containers_running` (`server.go:163`) counts rows that a failed deploy
  set to running without looking (`executor.go:185`), and superseded rows whose retirement failed (`executor.go:192`).
* `--destroy-workspace` says "Delete workspace files" (`cli/root.go:728`); `workspace_path`
  is the link, and `RemoveAll` of it (`executor.go:268`) leaves all releases with their `app.env`.
* There is no reconciliation loop (`architecture-design.md:372`): the exit of a container
  is seen by the next job at the earliest.
* Of several allocations of a tenant a deploy injects an arbitrary one (`README.md:154`;
  `store.go:588` has no ORDER BY and no provider).
* A required secret revoked since the last validation does not stop a deploy
  (`api-reference.md:377`; `server.go:689` looks at the stored `is_valid`).
* A validate request writes the profile it read over a PUT answered meanwhile
  (`server.go:344`).
* `tenants.status` goes draft -> running directly and running -> ready by a destroy, unlike
  the diagram in section 6 of the API reference.
* `docker run`'s combined output is taken for the container id (`client.go:124`), so
  that with other output (the progress of a pull) the health check fails.
* Exit statuses (`docs/en/cli-reference.md:324-328`): a second tenant of one `external_user_id` is a
  `VALIDATION_ERROR` and so exit 2, not 5; not-found answers about providers, keys and
  allocations exit 10, not 4; a request that does not reach the API exits 1, not 10. `job watch` exits 0
  for a job that failed.
* `tenant insert` keeps the old slug on a conflict and prints the one it was asked for
  (`cli/root.go:236-246`), and replaces a profile without resetting `is_valid` (`root.go:264`).
* `README.md:48-51` calls the totals of `/metrics` counters; `handleMetrics` exports 0 when a statement fails.
* `tenant list` and `job list` send no page, so only the newest 20 rows are reachable from the CLI;
  the lists are ordered by a timestamp alone, so that rows of one instant may change places between pages, and
  a filter on a status that changes meanwhile can lose rows. `PagesMissNothing` is about pages without a filter.
* `scanImage` reads the nullable `default_template_id` into a plain string (`domain/types.go:84`),
  so that an image without one breaks the list of images and the fallback of `ResolveImageForTemplate` (`store.go:337-361`).

## 4. What a reader may rely on

While heartbeats come in time, a job has one runner and one outcome; even if they do not,
no job is stuck or reopened. Requests of one client at a time never give a tenant
two active jobs. After a job that succeeded tables, Docker and files agree,
whatever failed before (but a workspace that was to be deleted has lost only its link), and the current row always leads to the container of the tenant, provided
that its name is its own and that executions do not overlap.
Keys are never injected under a wrong provider's name. What is deployed was validated, unless the
profile was inserted past the API. `/readyz` raises no false alarm about a worker that waits, and notices
one that is gone; of one that is busy it says nothing to rely on. A watch ends.

## 5. What is proved

All proofs are for any number of tenants, workers, handlers, jobs and faults, from the
named assumptions on constants: the "no such value" constants are outside of
their sets; bounds are naturals and a page has 1 to 100 rows; `Required` maps providers to sets of
secrets; the poll interval is positive and at most the TTL; the key pool has finitely many tenants and
requests, as it counts them; the jobs of `ControlPlane` are jobs `Executor` knows. TLC
evaluates all of them.

* **`JobQueue_proofs`**. `QueueInvariant` proves `QueueInv` inductive. Beside `TypeOK` it needs
  `LockInv` (a row lock has one holder, and what was claimable when it was selected still
  is: reports and heartbeats wait for the lock), `RowInv` (what is executed was
  claimed, and a row is none exactly from `nextJob` on) and `LeaseInv` (unless
  `SlowExecution`, whoever executes a job has it running, fresh and in its
  name). Without `LockInv` a claim could reopen a job that was marked meanwhile; without
  `LeaseInv` two executions are not excluded, as `fresh` is what keeps the claim query
  away. From it: `TypeCorrect`, `RunningKeepsHeartbeat`, `ExclusiveExecutionHolds`,
  `FinishedStaysFinished`, `OutcomeIsStable`, and `QueueImplementsLease`, where every step
  is matched with a step of `JobLease` or a stutter. `EnqueueInv` on top
  (what an admitted request knows about the jobs of its own handler) gives
  `AdmittersAreDistinct`, `KeyedJobsAreDistinct`, `AnswersMatch`, and
  `OneHandlerOneActiveJob`: with one request at a time `AtMostOneActiveJob` holds, so that
  concurrency is the only way to the violation above.
* **`KeyPool_proofs`**. `PoolInv` adds what a request or a deploy in progress remembers: the
  provider it read is that of the key *if the key still exists*, since ids are
  never used again. From it `PoolTypeCorrect`, `AllocationsAlwaysRefer`,
  `KeysAlwaysCarryNames` and the action property `InjectedKeysAreNamed`. `CountsCover` proves
  `CountCoversAllocations`, which by itself is not inductive: between the upsert and the increment, and between
  the deletion and the decrement, the counter is not the number of holders. `CountInv` balances them: while
  `serial` one request is busy, and holders with the decrement it still owes are at most the counter with
  the increment it still owes; a request about to delete has an allocation to delete (otherwise its
  decrement would be one too many).
* **`Profile_proofs`**. `ProfileInv` adds `ChecksInv`: a request that has found no issue up to
  its n-th query has what the first n promise, which no other request can
  take back except by revoking a secret. From it `RouteKeysStayDistinct`,
  `ValidProfilesAreValidated`, `DeploysAreValidated` and type correctness.

  A direct insert clears nothing but `direct` inputs are exempt, so it keeps the invariant, also when
  a request is between its check and its upsert.
* **`Readiness_proofs`**. `RenewedSinceTick` with the types is inductive, and `NoFalseAlarm` follows from it as the
  interval is at most the TTL: what a waiting process wrote is no older than its ticker.
* **`Executor_proofs`**, for any container names. `RowInv` adds to the types that a tenant has one worker, which
  has its active job (`Owned`), and that the version a deploy carries from its query to its row is above all
  of the rows (`VersionIsNew`); rows are only appended and only by that worker. From it `TypeCorrect`,
  `VersionsAlwaysIncrease`.
* **`Executor_agree_proofs`**, for container names that differ (`OwnNames`; without it
  `Executor_shared_name` is a counterexample). `AgreeInv` adds that ids are given out once and rows and
  workers know only ids of their own tenant's container (`Ids`), and for each `pc` what the finished
  steps established (`Progress`), which no other worker can disturb. From it
  `SuccessIsAgreement` (with `ReleasesAreFiled`: a row comes after its release, and nothing removes one)
  and `ContainersStayReachable`.

  `LeftRunningStaysDue` proves `LeftRunningIsDue`, which is not inductive: in the middle of a deploy the row it
  replaces says "running" behind the new one, and that will be put right if nothing fails. `Paid` balances the account at every
  step. `Due(w)` is the set of rows the worker would leave running if nothing failed from here on: without the
  row a deploy is about to retire (`Replacing`), with the row it is about to set to running (`Reviving`) or that it
  missed (`Missing`). `WorkAdds` goes through the steps: only one that fails adds to `Due`, and
  one row at most. `InHand` says what this needs: a deploy has the latest row in hand or none, a running row has a container id (so that
  only an error makes it a missed one), and the name is free when `docker run` is called.
* **`Operator_proofs`** extends `JobQueue_proofs`, whose `QueueInv` every step of the observers keeps (they leave
  the queue alone). `CommandInv` has a part for each of them: a job that a watch
  has shown as finished is finished, with that outcome unless `SlowExecution` (`WatchInv`, from the
  lemmas `FinishedStays` and `OutcomeStays` about single steps of the queue); of the jobs there were when a
  client began to page, each was listed or lies on a page still to come, since new jobs are inserted
  in front and only push it back (`PagingInv`); and no counter is ahead of the table
  (`CountedInv`). From it `ShownStaysFinal`, `PagingIsComplete` for every page size, and the action property
  `CountersAreCounters`, which counts finite sets of jobs.
* **`ControlPlane_proofs`** is about the composition and reuses the other proofs by
  `INSTANCE`: `QP` is `JobQueue_proofs` and `EP` is `Executor_agree_proofs` under the substitutions of
  `ControlPlane`; `SameQueue` and `SameHandlers` say that they speak of the same definitions. The
  lemmas about single steps of a handler in `Executor_proofs` ask only that a worker is *equipped* (has a tenant,
  a job, and a version if it is rendering), not that it is alone, so that they also hold where executions overlap.
  * `CompositionIsAQueue`: each step is a step of `JobQueue` or none, so that its invariants hold here.
  * `RowsAreAlwaysRendered`, whoever overlaps with whom: `RenderInv` adds to `RowsAreRendered` that a worker past
    `RenderRelease` carries a version whose release is there. No step of another worker takes
    a release away, which is why it survives the overlap.
  * `TimelyExecutionIsExclusive`: `HoldInv` relates the two `pc`s of a worker. One at work executes the row
    of its job and, unless `slow`, has it running, fresh and in its name; a request about to insert
    has seen the instance it needs. This is what `JobQueue` assumes with `~SlowExecution`; here it follows
    from what the handlers do.
  * `TimelyCompositionIsALease`: a third instance, `QT`, is `JobQueue_proofs` with `SlowExecution` FALSE.
    Without `slow` each step is one of that queue (a row may expire only where nobody executes it, which `HoldInv`
    gives), so that `JobLease` and the stability of outcomes, proved of the queue alone, hold of the program.
  * `CompositionImplementsExecutor`, for an API that serves one lifecycle request at a time (with two, a
    tenant may have two active jobs and it is false: `JobQueue_two_active`). `ActiveFacts`
    (from `EnqueueInv`) makes "the active job of a tenant" well defined; then an INSERT is `Enqueue`, a
    committed claim `Begin` (nobody else is on the tenant, as a row that is claimable is not fresh), a report
    `Finish`, a death `Crash`, and the rest of the queue a stutter.
  * `VersionsIncreaseInTime` and `LifecycleJobsAgree`: along the refinement `Executor`'s
    theorems hold of the program in behaviours that are not `slow`, the second for names that differ. Each has the
    disjunct `slow`, which never changes, for the behaviours it says nothing about.

The inductive invariants were checked with TLC on the instances of the runs before they were proved.

Only model-checked: what is temporal beyond action properties and refinements of safety (`JobsSettle`, `WatchEnds`,
`DeathIsNoticed`, `IdleWorkerIsReady`), as TLAPS proves nothing about fairness and `ENABLED`.

## 6. What is not modelled

Encryption, fingerprints, file contents, labels and arguments of `docker run`, JSON and
HTTP; handlers of a single statement that interact with nothing (tenants,
templates, images); the gauges of `/metrics`, on which nothing depends; the commands of the CLI that turn flags into one
request; configuration; scripts. `EnsureNetwork` is never called. Pure string functions (`normalizeImageRef`,
`containerNameForTenant`) appear by what matters of them, that the second is not injective. Postgres is taken to execute a statement
atomically at read committed, and Docker to keep names unique.

Overlapping executions are modelled (`ControlPlane` with `slow`) but checked for one job at a time;
with more jobs the state space is out of reach of a run of a few minutes. `RowsAreRendered` is proved
for any number; `JobsSettle` is known for one.

## 7. Status

Written in the order of importance: `JobLease` and `JobQueue` with proofs, `Executor`, `KeyPool` and `Profile` with
proofs, `ControlPlane`, `Readiness` with proofs, `Operator`, the two modules of proofs about `Executor`, and the
proofs about `Operator`, the counter of the key pool, and `ControlPlane`. Every safety property, action property and
refinement that a run checks is now a theorem. What a next step could add: that a container is only touched for a
tenant that has its name (whoever overlaps, and names that differ or not), what of
`SuccessMeansAgreement` survives when executions overlap, a `slow` that concerns single heartbeats, and tenants,
templates and images should they ever get behaviour of more than a statement.
