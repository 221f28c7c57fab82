# qtiva-cloud: specifications and proofs

qtiva-cloud runs GUI tests of Qt applications. A *manager* (HTTP API) stores
uploaded artifacts, creates runs and collects garbage; *agents* take the runs'
jobs from a queue in PostgreSQL and execute each in a docker container.
This directory holds TLA+ models of the program, TLC instances that check them,
and TLAPS proofs of their main properties, for every value of the constants.

Contents: [inventory](#inventory) · [modules](#modules) ·
[the job queue](#the-job-queue) · [containers](#containers) ·
[storage](#storage) · [the manager process](#the-manager-process) ·
[accounts](#accounts) · [runs and bounds](#runs-and-bounds) ·
[fairness](#fairness) · [findings](#findings) · [proofs](#proofs) ·
[not modelled](#not-modelled) · [plan](#plan).

    tlc -config overlap.cfg MCJobQueue       # PROJECT.json lists the runs
    tlapm JobQueueProofs.tla                 # likewise the other *Proofs modules

## Inventory

Processes: one manager, any number of agents, docker daemons (one per agent
host), PostgreSQL, the `seed-admin` command, HTTP clients. They share the
database, and the manager and the agents share the artifact directory. There
are no messages between the manager and the agents: everything goes through
rows and files.

| component | state | operations | hard behaviours | what makes it correct |
|---|---|---|---|---|
| **Job queue and workers** `internal/agent/worker.go`, `agent.go` | tables `jobs`, `runs`; goroutines: workers, one lease cleanup per agent | claim, execute, settle (two statements: `failJob`, `finishRun`), release leases, stop, restart | workers that compete, leases that expire under an execution, crashes between statements, errors of statements that are discarded | one worker per job, bounded executions, a run's status and result from one execution, every run ends |
| **Container execution** `docker.go` | containers by name in the daemon | create, start, wait with a deadline, stop, remove after an error, AutoRemove | the exit races the deadline, calls that fail or whose answer is lost, retries that meet the last attempt's container | one container per run, none left behind where the daemon answers and the agent lives, none running after the run |
| **Run API** `manager/run_http.go` | `runs`, `jobs`, `artifacts.consumed_at` | POST /runs, GET /runs/{id}, GET /runs/{id}/log | the artifact is checked outside the transaction that uses it; a log is offered while it is collected | an archive is there for its run; an offered log exists |
| **Garbage collector** `gc.go` | rows and files | delete expired runs and their logs, used artifacts, old jobs | acts on rows it read earlier, files and rows are deleted in two steps, either may fail | deletes everything, nothing that is needed |
| **Artifact upload** `artifacts_http.go`, `artifactsx/` | `artifacts`, files | save to a temporary file, rename, validate the manifest, insert | failures between file and row, a process that ends under the handler; the manifest is read again by another program | a row has its file; what was accepted can be executed |
| **Accounts and invites** `auth_http.go`, `admin_http.go`, `seed_user.go` | `users`, `invites`, `clients` | register, log in, seed or replace the administrator, create clients and invites | concurrent multi-statement transactions under READ COMMITTED, partial unique indexes, locks | uses of an invite are users, one administrator, never none again, no deadlock |
| **Client settings** `admin_http.go` | two columns of `clients` | PATCH | `concurrency_limit` is stored and never read | – |
| **Authentication** `httpx/auth_middleware.go`, `jwtx/`, `authx/` | none (the token and a row of `users`) | check a token, load the user | the user is read once, at the start | – |
| **HTTP servers** `httpx/server.go`, `manager/cli.go` | goroutines, `errCh`, requests under way | serve, fail, shut down, exit | a failure against a signal, servers shut down in turn under one deadline, how many answers are still owed | the manager exits, with the right status, and gives requests their time |
| **HTTP helpers, ids** `httpx/`, `idgen/` | none | encode, decode, number | – | – |
| **Configuration, database access, CLI** `commonx/`, `dbx/`, `agent/config.go`, `*/cli.go` | the table of images | parse, connect, `WithTx`, `GetImageName` | the manager's and the agent's lists must agree | an accepted run has an image; rollback on error (inside the other models) |
| **Runner script** `runner/runner.sh` | `run.log` | unpack, read the manifest, run a test under a display with a timeout | reads by its own rules what the manager has validated | accepts what the manager has accepted |
| **Schema** `migrations/` | constraints | – | partial unique indexes | (inside the models of the writers) |
| **Build and deployment** | – | – | – | – |

PROJECT.json lists the hazards of this code one by one, each with its line and
with the properties that look for it.

## Modules

| module | what it is |
|---|---|
| `JobQueue` | rows, workers, lease cleanup, agents |
| `LeaseQueue` | what the queue promises: jobs that wait, are held by one owner, are settled |
| `Executions` | what one run's executions may rely on: when each begins, what its answer leads to |
| `JobQueueProperties`, `MCJobQueue` | properties, with the refinement mappings to `LeaseQueue` and, run by run, to `Executions`; instances |
| `JobQueueProofs` | types, attempt counting, the bound on attempts – in general |
| `JobQueueExclusionProofs` | exclusion and finality, a run's outcome – without overruns |
| `JobQueueRefinementProofs` | the two refinements: `LeaseQueue` without overruns, `Executions` in general |
| `Containers`, `ContainersProperties`, `MCContainers`, `ContainersProofs` | `RunContainer` against the daemon, on the queue `Executions` |
| `Custody` | one archive's life: who answers for its file from the upload to its removal |
| `RunStorage`, `RunStorageProperties`, `MCRunStorage`, `RunStorageProofs` | files against rows: upload, POST /runs, logs, garbage collector |
| `HttpServers` | `RunHTTPServers`: goroutines, select, shutdown, exit |
| `Submission` | what manager, agent and runner ask of an archive and of a run's parameters, as operators |
| `Manager`, `ManagerProperties`, `MCManager`, `ManagerProofs` | the process: `HttpServers` with the handlers of POST /artifacts and POST /runs on it, which use `Submission` |
| `Ledger` | what the accounts promise: one administrator, at most; invites that are used up by users |
| `Accounts`, `AccountsProperties`, `MCAccounts`, `AccountsProofs` | registrations, seed-admin, the administrator's requests |
| `AccountsLedgerProofs` | the accounts implement `Ledger` |

Definitions marked "Variant of X" are what X would be with a plausible mistake
in it. No specification uses them: they stand next to X to be put in its place,
and PROJECT.json ("mutants") says which property notices each.

The systems meet at narrow places, each of them the full system in one
model and a coarse one in the others. `JobQueue` takes an execution's outcome
as a choice; `Containers` says what `RunContainer` does before it returns one.
Between them is `Executions`: `JobQueue` implements it for each of its runs
(`RunsAsExecutions`), and `Containers` runs on it, its steps being those of
`Executions` with calls to the daemon between them (`ContainersFollowQueue`). So
what is true of the containers of a run that goes through its executions in
this way is true of those of every run of the queue.
`RunStorage` has claims and outcomes only, one execution at a time (that is
`ExclusiveExecution`) and any number of retries; `CleanupOldJobs` of the
collector is in `JobQueue`, the other two cleanups are in `RunStorage`. The
handler of an upload is in two models: `RunStorage` has it against the
collector and the agents, with a crash that comes from nowhere; `Manager` has it
in a process that ends as `HttpServers` says, and with what it accepts. `Custody`
is what the two agree on: each implements it for every archive (`KeepsCustody`
of both), so neither takes a step with a file or its row that the other's
abstractions rule out.

## The job queue

**State.** `jobStatus`, `attempts`, `lease`, `due` are columns of `jobs`,
`runStatus` and `exitCode` of `runs`; `jobs.run_id` is unique, so both are
indexed by the run. A time that a guard compares with `now()` is kept as the
comparison's answer: `lease` is null, live or expired, `due` is
`available_at <= now()`. A worker goroutine is `pc`, `cur` (its job), `seen`
(`job.Attempts`, read by the claim's SELECT before its UPDATE adds one) and
`result` (what `RunContainer` returned). An agent is `agent`, and its lease
cleanup is `cleanPc`, `cleanRows`.

**Actions.** One statement that commits on its own, or one transaction, is one
action:

| action | code |
|---|---|
| `CreateRun` | the transaction of `handleCreateRun` |
| `ProcessNextJob` | `processNextJob`: SELECT ... FOR UPDATE SKIP LOCKED, UPDATE jobs, UPDATE runs, COMMIT |
| `ClaimUnacknowledged` | the same, with the acknowledgement of COMMIT lost |
| `ExecuteJob` | `executeJob` up to `failJob` ("error") or `finishRun` |
| `FinishRunUpdatesJob`, `FinishRunUpdatesRun` | the two statements of `finishRun` |
| `RetryUpdatesJob`, `RetryUpdatesRun`, `FailUpdatesJob`, `FailUpdatesRun` | the two branches of `failJob`, two statements each |
| `LoseJobUpdate`, `LoseRunUpdate` | their errors, which the code discards |
| `ReleaseExpiredLeases` | the first UPDATE of `releaseExpiredLeases` |
| `SnapshotRows`, `ResetRuns`, `LoseReset` | its second UPDATE, under READ COMMITTED |
| `LeaseExpires`, `BecomesDue` | time |
| `CleanupOldJobs` | `cleanupOldJobs` of the collector |
| `StopAgent`, `WorkerExit`, `AgentExit` | SIGTERM, `stopCh`, `wg.Wait` |
| `CrashAgent`, `StartAgent` | the process dies; it is started (again) |

The second UPDATE of the lease cleanup joins `jobs` and `runs`. PostgreSQL
evaluates the join on a snapshot and re-checks only the row it updates if that
changed meanwhile; hence two actions, and `ResetRuns` looks at `runStatus` again
and not at `jobStatus`. When the agent stops, the cleanup's context is cancelled
and this statement fails (`LoseReset`, at no cost to the budget of faults).
A cleanup whose *first* UPDATE fails or affects no row changes nothing and is
left out.

**Abstractions.** `ORDER BY available_at` is "some due row", because SKIP LOCKED
may skip any prefix. `CleanupOldJobs` spares rows that a worker is still
at work on: the code deletes rows that have been settled for 24 hours, and no
worker is that late. A lost statement is one whose error is discarded; its
connection may break after the effect, but then the worker goes on just
as after a success.

`Overruns` says whether an execution may outlive its lease. The lease is
`MaxTimeout + 30s`, and `RunContainer` stops its container after at most
`MaxTimeout` and a grace period; with prompt daemons, clocks and processes an
execution ends in time (`FALSE`). Nothing enforces it, and leases are not
renewed, so the general theorems and the run `overlap` have it `TRUE`.

**Properties.** In general: `AttemptsBounded`, `DistinctAttempts`,
`NoEarlyGiveUp`, `RunningIsHeld`, `JobSettlesOrExhausted`, `RunSettlesAlone`,
`RunsAsExecutions`.
Without overruns: `ExclusiveExecution`, `JobFinal`, `TriesWithinRetryBudget`,
`ResultCoherent`, `FinishedRunSettled`, `OnlyStragglersReopen`,
`RefinesLeaseQueue`. `OutcomeFinal`, a client's view that what has ended has
ended, is refuted (`reopened_run`); `OnlyStragglersReopen` says that the
statement found there is the only way. `RunSettlesAlone` has its condition for
the same reason: two workers on one run may leave it pending.
The comments in `JobQueueProperties` say each in words. `AttemptsBounded` is
not evident: with overruns every stale execution may grant one more retry, as
its guard reads its own old count; the proof needs the number of such
executions. `RunsAsExecutions` numbers the executions of a run by `seen` + 1
and sees in its steps those of `Executions`, where a late answer still changes the
job. It implies what `TriesWithinRetryBudget` says where executions do not
overlap, which is therefore only proved.

## Containers

**State and actions.** `container[t]` is the container of the t-th execution of
one run, `pc[t]` the call to the daemon that `RunContainer` has come to. All
containers of a run want the name `qtiva-run-<id>`, so different runs do not
meet and one run is enough. There is one daemon for all its executions: an
agent uses that of its own host (ToR.md:40 and 129), so the model is of agents
that share a host. With several hosts it is about the executions on one of
them: the name then locks nothing across hosts, and neither `OneContainer` nor
`EndedRunIsStill` is claimed of a run that is retried on another host. Each call
(`Create`, `Start`, `Remove`, `Wait`, `Stop`) succeeds, is refused, or loses its
answer with or without the effect. Where a failed call is the last that
`RunContainer` does for the container, the execution joins `abandoned`: a
refused or lost `Remove` (docker.go:173) or `Stop` (197), an error of the wait
(203), and a `Create` that took effect without an answer (164). A refused
`Create` or `Start`, a lost `Start`, a wait for or a stop of a container that is
removed already do not. A lost settling statement leaves `pc[t]` at `"unsettled"`,
a death of the agent at `"dead"`. `ReceiveExit`, `ReceiveError` and `Deadline` are
the branches of the select; the branch `ctx.Done()` is unreachable, as the
workers' context is `context.Background()`. `ContainerExits` and `AutoRemove` are
the daemon's (external). `Die` is the death of the agent, in or between calls.
It takes any set of executions with it, and one of them at most, of those that were
being created, comes by the name.
`Begin`, `ClaimUnacknowledged`, `Settle`, `LoseSettlement`, `ReleaseLease` and
`CleanupOldJobs` are the queue's, each a step of `Executions` (instance `Queue`); the
two statements of `failJob` and `finishRun` are one here, `JobQueue`
separates them. `Return` leaves the result in `pc[t]` until the worker settles
the job. There are at most twice `max_attempts` executions (`Tries`), which the
type invariant shows to be enough: `TriesBudget` counts them as `JobQueue` does. `overlapped` says that a lease expired under a living
execution. What can fail before the first call (directories, paths) is a
refused `Create`.

**Properties.** `OneContainer` holds always: the name is the lock.
`EndedRunIsStill` (nothing of an ended run is running) holds with all calls that
fail and agents that die, for executions that do not overlap. `RetryFindsName`
(what can have the name when the job is queued again) and `ContainersRemoved`
(every container is removed, also a hanging program's) name the executions
whose containers the code does leave, each for its own container: those in
`abandoned`, those whose agent died, and for the first also one that has exited
with its result lost, until AutoRemove has come. So these error paths of
docker.go do leave a container behind, which keeps the run's name and fails the
next attempts – after a refused removal or stop as much as after an agent's
death between create and start – and the properties say that there is no other.

## Storage

**State and actions.** `artFile`, `artRow`, `aged`: an archive on disk, its row,
and whether `consumed_at` is an hour old. `logFile`, `logPath`, `expired`,
`deleted`: `run.log`, its link in `runs`, `delete_after < now()`, `deleted_at`.
Handlers are `upload` (`BeginUpload` ... `InsertArtifact`), `request`
(`CheckArtifact`, which is outside of the transaction, then `SubmitRun` or
`RollbackRun`) and `download` (`OpenLog`, `ReceiveLog`, `AbortDownload`). An
execution is `ClaimRun`, `StartContainer` (the bind mount needs the archive),
`WriteLog`, then `StatLog` and `FinishRun`, or `FailRun`. The collector walks
through the rows that a query returned: `SelectRuns`, `RemoveLog`,
`MarkRunDeleted`, `SelectArtifacts`, `RemoveArtifact`, `MarkArtifactDeleted`,
`EndCleanup`. Removals and statements of the collector may fail (`Fault`), and
the manager may die at any point (`CrashManager`, which includes the start).

**Abstractions.** Contents and manifests: an archive is accepted or not. All
requests are of one client: another's answer is 404. Empty directories are left
out, and so is the LIMIT 100 of the collector's queries: the rows beyond it are
the next cleanup's. `HourPasses` waits for requests that have checked the artifact, as no
request takes an hour. An upload's failure of the INSERT and an invalid manifest
leave the same, a file without a row (`RejectArtifact`).

**Properties.** `KeepsCustody`, `InputPresent`, `OfferedLogExists`,
`DeletedInTime`, `RunsCollected`, `ArtifactsCollected`. `DeletedInTime` counts:
a download that ends while the collector is at its run moves a `delete_after`
that the collector has already compared, and the run is deleted early; that
may happen once for each download, and for no other reason. In `InputPresent`
two requests may pass the check for one artifact: then both transactions set
`consumed_at`, and it is the later one that must count. `KeepsCustody` puts the
three that touch an archive in order: an upload cleans up or hands a complete
file to the row, runs are given only what is there, and the collector takes only
what was used and is an hour old. That an archive which may be used is stored
(`FreshArtifactStored`) follows from it, and is stated as a theorem.

## The manager process

`serve` starts the garbage collector and two servers, the API and, on a port of
its own, the upload of artifacts, and then is `RunHTTPServers` until its end.

**State and actions.** `HttpServers`: `serving[s]` is where the goroutine of a
server is, between `net.Listen` (`Listen`), `Serve` and its answer in `errCh`
(`SendAnswer`); `main`, `turn`, `owed`, `ret` are the main goroutine between the
select (`SelectSignal`, `SelectError`), `shutdownAll` (`CallShutdown`,
`ShutdownReturns`), `firstNonNil` (`ReceiveAnswer`) and `Exit`. A server may
fail to bind, break later (`ServeFails`), or meet the shutdown before it
listens. `deadline` is the one context for all calls of `Shutdown`. Requests are
accepted until their own server's `Shutdown` and are cut by `Exit`.
`Manager` puts the handlers on it: `step[q]` is where a request's is, `file`,
`artRow`, `runOf`, `params` what it has left behind, of which an exit
takes nothing back.

`Submission` has no state. An archive is a sequence of tar entries; the
manager's manifest is the first regular `manifest.json` or `./manifest.json`
(`FirstManifest`), the runner's the last that tar puts at that name
(`LastUnpacked`). A manifest is what the validations tell apart: whether it
decodes, blank and missing strings, the scripts, the timeout, and `plain` – the
keys spelled as documented and nothing after the document, as `encoding/json`
is lenient in both and jq in neither. `Ordinary` archives have one manifest and
a plain one.

**Abstractions.** Connections, keep-alive, and the addresses; a handler's
database and file errors are choices, and a statement whose error is reported
may have taken effect (`InsertArtifact`). gzip and tar errors are archives
without a manifest. Symbolic links lead nowhere. jq's results are compared with
the manager's for plain documents only.

**Properties.** `FailureReported` (exit status), `CutAfterDeadline` (nothing is cut
before the ten seconds since the select have passed, so that a request under way
then has all of them whatever has failed; and a server whose `Shutdown` returned in
time loses nothing, however long those after it hang), `ServeEnds` (the process exits),
`KeepsCustody` (wherever the shutdown cuts a handler, the archive is its row's, or
what `Custody` allows an upload to leave), `AcceptedStarts` and `TimeoutAgrees` (what the manager
accepted passes the agent's and the runner's checks of parameters and manifest,
for ordinary archives; that the runner then looks for the configuration file
among the unpacked files, runner.sh:69-73, is left out). The ten seconds are one
for both servers, one after the other: a request that the upload server accepts
while the main server's shutdown waits has what that leaves, perhaps nothing
(`CutAfterDeadline` allows it, as no document says otherwise). `AcceptedStarts` and
`TimeoutAgrees` say where the three programs agree; that they differ for other
archives and for a timeout of zero or less is in the list of hazards. Two
remarks: docs/endpoints.md:308 calls `timeout_sec` mandatory, and the code
supplies 60; the limits on time are two variables,
`QTIVA_MAX_TIMEOUT_SEC` of the manager, for one test, and `QTIVA_MAX_TIMEOUT` of
the agent, for the container, and nothing compares them.

## Accounts

**State.** `user`, `clients`, `maxUses`, `used`, `expired` are what is
committed. What a transaction has written and not committed is told by its
`pc`, and so are its locks: a registration that has `consumed` holds its
invite's row, one that has `inserted` its e-mail's key, a run of seed-admin the
row of the administrator it has updated or deleted (`HoldsOldAdmin`). A
statement that has to wait is not enabled (`InviteLocked`, `InsertWaits`,
`LockedByOther`), and looks at the values it finds when it goes on, as READ
COMMITTED does. A rollback leaves nothing, and the request's id is used again:
so any number of requests fail, while those that leave rows are bounded.

**Actions.** `BeginRegister` (which fixes `now()`), `ConsumeInvite`,
`InsertUser`, `CommitUser` are `handleRegister`; `SelectAdmin`,
`UpdatePassword`, `DeleteOldAdmin`, `ChooseClient`, `InsertAdmin`,
`CommitPassword`, `CommitAdmin` are seed-admin; `Authorize`, `CreateClient`,
`CreateInvite`, `Refuse` the administrator's requests; `Abort` an error, a
cancelled request, a process that dies, or a deadlock the database breaks.

**Abstractions.** Passwords, tokens, names and texts. The index checks of one
INSERT are one step. A client is looked up and used in one step, as clients are
never deleted. The id of a user's row is its request's.

**Properties.** `InvitesBalance`, `ActiveEmailsDistinct`, `SingleAdmin`,
`AdminKept`, `NoStandstill`, `ImplementsLedger`. The last says that what is
committed is what `Ledger` could have come to, in which a request is one step and
is judged by what it then finds: a registration finds its invite with a use left
and its e-mail free, seed-admin either no administrator and no client or the one
administrator that it replaces. The code tests these at one time and commits at
another; locks and unique indexes must keep them true in between. That
an invite expires is not in it: a registration is held to the time at which it
began; nor is who asks: it wants some administrator where clients and invites are
made, not the one the request was authorized for, who may be deleted meanwhile, and
passwords are not committed state (both are in the list of hazards). `OneBaseClient`, which is only proved, is a consequence
of the unique index on *users*: seed-admin looks for a client and inserts one
without a lock, but of two that find none only one commits its administrator.

## Runs and bounds

| run | instance | states | shows |
|---|---|---|---|
| `overlap` | 1 run, 2 workers of one agent, max_attempts 2, overruns; a stop, a crash, a lost statement | 348 k | counting and giving up under overlapping executions; every job settles or is lost with its attempts used; a run no two workers share ends; every run goes through `Executions` |
| `exclusive` | 1 run, 2 agents of 1 worker, no overruns; 2 crashes, a stop, a lost statement | 178 k | exclusion, finality, coherent results, who may reopen a run, `LeaseQueue` |
| `containers` | max_attempts 2: up to 4 executions, overlapping | 37 k | every property of `Containers`, with liveness |
| `storage` | 1 archive, 2 runs, a download; a crash, a fault | 257 k | every property of `RunStorage`, with liveness |
| `accounts` | 2 registrations, 3 runs of seed-admin, 1 request of the administrator, 3 e-mails, 2 invites of one use | 252 k | every property of `Accounts` |
| `manager` | 2 servers, an upload of any of some 40 archives, a run request with 5 parameter sets, 2 signals | 168 k | every property of `Manager`, with liveness |
| `reopened_run`, `extra_attempt`, `torn_finish`, `lost_lease`, `early_artifact`, `leaked_log` | the smallest instance each | | a [finding](#findings) each |

Why the bounds are enough. *Job queue*: jobs share no row, and what they share
is workers and the cleanup, so one run shows what can happen to a run; two
workers give every overlap of a stale and a fresh execution. The theorems are for any number of runs. Two attempts reach both
branches of `failJob`, the release and its limit, and the attempt beyond; two
crashes on two agents lose a job twice. The theorems do not depend on them.
*Storage*: archives are independent of each other, one archive under two
runs is the race; a second of anything else would only repeat. *Accounts*: an
administrator, one that replaces it and a rival; two registrations compete for
the last use of an invite, which is its only one (the theorems are for any number), with two invites for an e-mail; a third e-mail lets
both succeed beside the administrator. *Containers*: with two attempts, three executions follow one another when each
fails, and the fourth is a retry granted to one whose lease expired; each attempt more repeats
that, and the theorems are for any number. *Manager*: the program has two servers,
one signal more than the channel holds, one request on either server. The archives differ from a good one
in one respect each, or are pairs of entries; the theorems are for any archives. *Symmetry* (accounts) permutes
requests, e-mails and codes of a kind; the run has invariants and one step
property, which no permutation distinguishes.

`CHECK_DEADLOCK FALSE` is in every configuration because every system may
rightly stop: when all runs have ended, all requests are answered and the
budgets are spent. Where a standstill would be wrong, a liveness property or
`NoStandstill` says so.

## Fairness

*Job queue* (`FairSpec`): the workers' tickers tick and find a due job, so
`ProcessNextJob` is weakly fair; statements return; `RunContainer` returns (its
wait has a deadline, and `Containers` shows it); the cleanup's ticker ticks;
time passes; an agent that has stopped exits, and whoever operates it starts it
again – the one assumption that is not in the code, and without it a
queue without agents would refute every liveness property. Nothing is assumed
of `CreateRun`, stops, crashes, lost statements, the collector.

*Containers*: each execution's call returns (`RunContainer(t)`), the daemon
removes what has exited. The program under test owes nothing: that it may hang
is the point of the deadline.

*Storage*: the collector's ticker, time, and `SubmitRun`/`RollbackRun` of a
request under way. Clients and agents owe nothing: runs and artifacts are
collected even if no agent ever executes them. Downloads are bounded
(`MaxDownloads`): a client that fetches a log again and again does keep it.

*Manager*: the servers' goroutines and the main one run, and the ten seconds
pass. Handlers and clients owe nothing (a request may hang for ever), and no
listener needs to break.

*Accounts*: none. What liveness there is to want is that transactions do not
wait for one another forever, which `NoStandstill` says as an invariant.

## Findings

Each is a run that TLC finds violated, and is quoted in PROJECT.json.

- `reopened_run` (`OutcomeFinal`, worker.go:258): `failJob` first returns the job
  to the queue and then sets the run to pending, without a condition. In
  between another worker may claim, execute and finish the job: the run that has
  passed is pending again, and stays so.
- `extra_attempt` (`AttemptsWithinMax`, worker.go:244): the retry guard
  reads the count from before the claim's increment; a failing job is executed
  max_attempts + 1 times. The lease cleanup counts the other way.
- `torn_finish` (`RunSettles`, worker.go:306): an agent that dies between the
  two statements of `finishRun` leaves a run running, its job done.
- `lost_lease` (`ExpiredLeaseRequeued`, agent.go:105): a job whose agent died in
  an execution at the limit of its attempts is not released, and nothing ends
  its run.
- `early_artifact` (`InputKept`, gc.go:135): the collector's hour begins when the
  run is created; a run that queues longer loses its archive.
- `leaked_log` (`LogsCollected`, worker.go:274): `failJob` does not link the log,
  so the collector marks the run deleted and leaves the file.

## Proofs

All theorems are for any finite number of workers, any sets of runs, agents,
artifacts and requests, and any budgets; they rest on the modules' ASSUMEs
(constants are of their kinds and distinct), which TLC evaluates in its runs.
PROJECT.json lists them. "Inductive" below means: holds initially, kept by every
step; the rest follows.

*Job queue, in general* (`JobQueueProofs`). `CountInv` adds to `TypeOK`,
`DistinctAttempts` and `NoEarlyGiveUp`: a run that does not exist has no
attempts (`Fresh`), and who is at work on a job has seen fewer attempts than
there are (`Counted`) – a new claim then sees another number than every older
one. `TypeOK` itself couples a worker's `pc`, `cur` and `result`, without which
no statement has a row to update. For `AttemptsBounded`, `BudgetInv` counts the
executions that would still grant a retry: once max_attempts is reached,
attempts, such executions and a queued job together are at most twice
max_attempts; a claim moves one from the queued job to the attempts, a retry
one from the executions to the queued job, a release needs attempts left.

`RunningIsHeld` is proved from `TypeOK` alone: only a claim makes a job running
(`OnlyClaimsRun`), only the holder's own statement, a release or a fault ends
that, and a graceful stop waits for the worker (`HolderStays`).

*Without overruns* (`JobQueueExclusionProofs`, assuming `~Overruns`).
`ExclusionInv` is `CountInv`, `ExclusiveExecution` and `Tries`: an executing
worker's count is the latest. Exclusion is what makes a held job's row
untouched by others (`HeldUntouched`), and finality follows.

*Outcomes* (`JobQueueExclusionProofs`, assuming `~Overruns`). `OutcomeInv`: while a
job is queued or running its run has no exit code; a worker that has settled a
job and has not yet written the run's final status (`Settling`) is the only one,
and finds the run unfinished. So status and exit code come from one statement,
and a terminal status belongs to a settled job, which nothing claims or
releases: only a `failJob` that is at its second statement can still touch the run.

*Refinement* (`JobQueueRefinementProofs`, assuming `~Overruns`). Under
`ExclusionInv` the owner, a CHOOSE, is the one holder. `StepImplements` maps
every step: `ProcessNextJob` to Grant, an unacknowledged claim to a Grant to
nobody, the statements on `jobs` to Complete, Return, GiveUp, a lost statement
and a crash to Abandon, the lease cleanup to Reclaim, `CleanupOldJobs` to
Forget; everything else, all statements on `runs` included, stutters.

*Executions* (the second half of `JobQueueRefinementProofs`, with overruns or
without). For every run at once: a step on another run, or on no job, leaves what
`Executions` sees of this one (`Unseen`); a claim is Begin or Forfeit; the holder's
number leaves `Living` with its statement on `jobs`, and no other's with it, as holders
differ in their numbers (`NumberGoes`, from `DistinctAttempts`); a crash is Lose of
the agent's executions. Only the release asks for more than `CountInv`: without
overruns an expired lease is nobody's (`ReleaseInv`).

*Storage*. `ArchiveInv`: an upload that has not ended has no row, and its file is
as far as its handler (`Uploading`); what the collector has in hand is used, aged and
in hand once, and nothing aged is checked by a request (`Aging`); an inserted
archive is stored or aged (`Kept`). Under it every step is one of `Custody` for its
archive and a stutter for the others (`StepFollowsCustody`): a second run's
transaction is Use again, as the check it passed keeps the archive's hour from
passing; a crash is ProcessEnds. `ArchivesAreAnsweredFor` then needs nothing of
`RunStorage` but this (`CustodyAnswers`). `LogInv`: links, and paths in the collector's hand, are of finished
runs, whose log nobody writes (`Linked`); without failures a link leads to a
log or the collector is at it (`Unbroken`). `DownloadInv`: the runs that are
deleted early or are in the collector's hand with a moved `delete_after`
(`Early`), and the downloads under way, are together at most the downloads
begun; only a complete download adds a run, and ends itself.

*The manager*. `ServeInv` is inductive for any number of servers: the answers
still owed are as many as the servers not received from, or a failure came
first and none is owed (`Accounted`); servers whose shutdown has returned accept
nothing and have nothing active before the deadline (`Drained`), so a server
shut down in time is one that loses nothing, and stays so (`Safe`). Every step of
`Manager` is one of `HttpServers` or leaves it alone (`ManagerServes`), so
`ManagerSpec => Spec`, and these facts carry over (`ManagerImplementsServers`).
`HandlersInv` adds: a file is as far as its handler, and complete if it has a row
(`FilesAsSteps`), and what has a row passed the checks (`Accepted`). Under it every
step is one of `Custody`, the exit of the process being ProcessEnds
(`ManagerKeepsCustody`), and a temporary file without an active request is of one
that was cut (`TmpFilesAreFromCuts`). Then
`AcceptedStarts` and `TimeoutAgrees` are facts about `Submission`: in an ordinary
archive the first and the last manifest are one entry (`OneManifest`), whose
validation implies the runner's (`AcceptedRuns`); the accepted values are keys
of the table of images (`AcceptedHasImage`).

*Accounts*. `HeldInvites`: at most one open registration has consumed an invite,
and it leaves room for that use – hence `InvitesBalance`, by counting
(`FS_AddElement`). `AdminInv`: a transaction that has inserted its row clashes
neither with another nor with an active row except the one it replaces.
`ClientsWithAdmin`: there is a client exactly when there is an
administrator, whence `OneBaseClient`. `NoStandstill` follows from `TypeOK` and
`SingleAdmin` without induction: if no row is inserted, whoever waits for a row
waits for a run of seed-admin that has updated the one administrator, and that run itself waits for
nobody (`HolderGoesOn`).

*The ledger* (`AccountsLedgerProofs`). `ServedInv` joins the invariants above with
`LedgerInv`: only an open transaction replaces an administrator, and by one with
another e-mail, and a request that has created a client has ended. Under it
every COMMIT is the ledger's step (`UserImplements`, `AdminImplements`, ...):
`HeldInvites` keeps the use, `InsertedEmails` the e-mail, `InsertedAlone` the
administrator that the transaction found, `ClientsWithAdmin` the client. All other
steps show nothing of what is committed (`Invisible`).

*Containers*. Every step is one of `Executions` or leaves it alone (`QueueStep`),
whence `ContainersFollowQueue`. Types and the number of executions come first and
from the queue alone: once max_attempts is reached, the executions begun, those
that may still be retried and a queued job are together at most twice
max_attempts (`TriesBudget`). `OneContainer` is inductive: only `Create` (or a death
in it) makes a container, and only if the name is free. `StillInv` adds, for
executions that do not overlap: one at a time while the job is taken
(`Sequential`), no other container beside that of an execution which has one
(`HolderAlone`), nothing running once one has returned a verdict
(`VerdictIsStill`), and no container outlives its execution but for the end of
the run, a failed call or a dead agent (`HeldOrJudged`). If leases do not expire under executions then
none overlap (`NothingOverlaps`), and the condition can be dropped.

*Only model-checked*: liveness (`JobSettlesOrExhausted`, `RunSettlesAlone`,
`RunsCollected`, `ArtifactsCollected`, `ContainersRemoved`, `ServeEnds`), as TLAPS
proves neither liveness under fairness nor ENABLED. Out of the prover's reach
are also recursive operators and induction over data; no module here has
either. Every other property of a passing run is the subject of a theorem.

## Not modelled

- Client settings: one UPDATE; `network_allowed` only selects the container's
  network, `concurrency_limit` is not read by any code (a hazard in the list).
- The agent's health server (`agent/cli.go`): it does not use `RunHTTPServers`,
  keeps no state, and its failure is only logged. The order of the agent's stop is
  `StopAgent` ... `AgentExit`.
- Archives on disk without a row (an invalid manifest, a failed INSERT, a process
  that ends): both models reach them, no document promises their removal, so no
  property speaks of it.
- Directories: the collector removes empty ones up to the data directory, and an
  upload that has just made its own may fail for it; a refusal in the models.
- The connection pool: the collector keeps its query's connection while each
  UPDATE needs a second one, so it needs `QTIVA_DB_MAX_OPEN` of at least 2 (10 in
  .env.example).
- Authentication: password hashing, token signatures are taken as given; what
  the middleware reads and when is `Authorize` of `Accounts`. Login changes no state.
- Encoding, ids, the parsing of the environment and of command lines, build scripts:
  stateless or pure I/O. Ids are taken to be distinct.
- The runner script beyond the manifest, its log and its exit status: sequential
  shell around the display server and the tests.

## Plan

Done, in this order: `LeaseQueue`, `JobQueue`, their proofs and the refinement;
`RunStorage`; `Accounts`; `Containers`; `HttpServers`, `Submission`, `Manager`;
the proofs of a run's outcome, of the manager and of `DeletedInTime`; `Ledger` and
its refinement; `Executions`, which puts `Containers` on the queue of `JobQueue`;
`Custody`, which `RunStorage` and `Manager` share. Left:

1. A lease's expiry and an execution's deadline as one clock, so that `Overruns`
   is a consequence of what docker and the process delay.
2. The container that is left when an agent dies between create and start,
   against docs/ToR.md:66.
3. The collector in `Manager`, stopped by the process's exit instead of a crash.
4. The timeouts of several tests in one run against the container's.
