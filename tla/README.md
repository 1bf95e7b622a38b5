# Verification of the code quality platform

TLA+ models of the platform's run protocols, engines, services, browser checks and
pages, the TLC runs that check them on small instances, and TLAPS proofs of the safety
properties of its core for every instance. Everything is translated from the TypeScript
under `src/`; where the repository's documents and its code disagree, the models follow
the code and a run shows the disagreement.

    tlc -workers 2 -config MCScanRun.cfg MCScanRun     # a run
    tlapm ScanRun_proofs.tla                           # the proofs of a module

## 1. The system

The platform is a TypeScript monorepo: an HTTP API (`apps/api`), a web front end
(`apps/web`), worker processes (`apps/worker`), a QA automation service
(`apps/qa-automation`) and about thirty packages in ports-and-adapters style. The
processes share PostgreSQL (through Prisma) and Redis (BullMQ queues), and nothing
else. What has to be right is therefore the order of database and queue operations of
different processes, each of which may die between any two of them; and, inside an
execution, engines that drive what is not theirs: plugins, Jest, pytest, a language
model, somebody else's web portal.

| Component | State | Operations | Modelled in |
|---|---|---|---|
| Scan execution | the `Scan` row (status, timestamps), the BullMQ job, the execution in a worker, its cancel poll | create, enqueue, cancel, take, execute, poll, acknowledge | `ScanRun` (abstractly `RunLifecycle`) |
| Unit test runs, coverage runs | run rows, generated files, test and file results, two queues of one worker process | create, cancel, execute, redeliver; shut down, restart | `WorkerRuns` |
| Plugin runtime and scan engine | worker threads, timers, abort listeners, the progress columns | `runScan`, `runIsolated`, `updateProgress` | `PluginRuntime` |
| Unit test engine, test generators | the directory of generated tests, the Jest it may install, its report file | discover, clear, extract functions, generate with retries, run Jest, report | `UnitTestEngine`, `ExportedFunctions` |
| Coverage gate, hunks of a diff | the working tree | diff, Jest with coverage, cross reference, verdict | `CoverageGate` |
| Staging test runner | a pytest process, its two report files | set up, run batch by batch with a timeout, read back what is left | `StagingSuite` |
| Browser checks | what was read off a page so far | slots and prices, booking, upgrade, report download; sidebars of seven personas; candidate search | `PortalChecks`, `PortalSidebar`, `CandidateSearch` |
| Finding store | `Finding` and `FindingHistory` rows | `upsertFromScan` | `FindingStore` |
| Reports and storage | one file and one row per run and format | generate, overlapping, over a run that is executed meanwhile | `Reports` |
| QA automation service | `QaAutomationRun` rows and their results, two queues, one process | execute a suite, reconcile at boot, shut down | `QaAutomationRuns` |
| QA automation schedules | a schedule row and a BullMQ job scheduler per environment | GET, PUT, tick, manual run, rerun | `Schedules` |
| Deploy mail poll | the poll cursor | poll, advance, trigger a run | `DeployMailPoll` |
| OneDrive copy | the stored refresh token | refresh, store, upload; connect anew | `OneDriveCopy` |
| Accounts and API tokens | users, mailed links, session tokens | sign up, verify, log in, forget and reset a password | `Accounts` |
| Cron runs, directory browsing | a `CronRun` row; a queue and a ten second wait | call and record; request, list, answer, give up | `ApiCalls` |
| Web front end | React Query's cache, the selected run | fetch, poll, invalidate, cancel, start, generate and recheck | `RunPages` |
| Git checkout | a temporary directory | checkout, cleanup | as a step of `ScanRun` |
| Incremental file list, cross-file correlation, enrichment, analysis plugins, repositories and credentials | little or none of their own | | not modelled (section 8) |

**How they interact.** `CreateScanUseCase` inserts the row and then adds a job whose id
is the scan's. A worker takes the job and runs `RunScanUseCase.execute`: check for
cancellation, write "running", arm a poll of the row, check the repository out, run the
plugins in threads (`scan-engine` over `plugin-runtime`), upsert each finding
(`PrismaFindingRepository`), write "completed", clean up, stop the poll.
`CancelScanUseCase` removes a waiting job and writes "cancelled"; a running execution
learns of it only through its poll. Unit-test and coverage runs follow the same protocol
on queues of their own in the same worker process, with an engine in place of the plugins
and separate statements for the result rows, the summary and the status.
`apps/qa-automation` has the same shape with one row per *delivery* of a job instead of
one per request, and the only startup reconciliation of the system; its jobs come from
the dashboard, from the job schedulers and from the mail poll, its suites are the pytest
runner and the browser checks, and its reports are mailed and copied to OneDrive. The
API answers the pages from the database, except a directory listing, which it asks a
worker for over a queue. The pages poll what they show until it is over.

**What is hard about it.**

- *Two statements where one is needed.* `updateStatus` reads the timestamps and then
  writes; `execute` checks for cancellation and then writes "running"; `cancel` reads
  the job's state and then removes it; `upsertFromScan` looks a fingerprint up and then
  inserts it; a mailed link is looked up and then marked used; a schedule is written to
  PostgreSQL and then to Redis; a refresh token is spent and then its successor stored.
- *Crashes and redelivery.* BullMQ delivers a job again when its lock expires, at most
  `maxStalledCount` (1) times; executions must bear being repeated, also when the lock
  was lost under a worker that is still alive.
- *Races to settle.* Message, error, timeout and abort of a plugin thread; a pytest that
  ends while it is being killed; a cancel that lands before, during or after each step of
  an execution; a listing that arrives after its request was refused.
- *Several statements that belong together.* Result rows, summary and status of a unit
  test or coverage run are separate writes, and a crash between any two of them has the
  job delivered and executed again, beside what is already there. A report reads the same
  rows one table after the other.
- *Partial failure.* Every await can reject: before, inside and in the catch block of
  `execute`, in its cleanup, in the report mail of a run that completed, in every step of
  an account request; a report log ends in the middle of a line.
- *Waiting.* Row locks of overlapping transactions; a thread that never answers; an
  engine without a timeout; queues closed one after the other; a reconciliation without
  which no worker starts; a page that stops asking too early.
- *Looking at something that moves.* The working tree is edited between diff and Jest;
  the portal's filter lists re-render under the click, its slots flicker, its sidebar is
  animated, and midnight in India falls at 18:30 of the container's clock.

The correctness of each component comes down to: the scan protocol executes a scan in
one place at a time, leaves no scan without someone to finish it and finishes each with
a status that is backed by what was persisted, and so do the protocols of unit-test and
coverage runs, independently of each other; the engines end whatever they drive does,
leave nothing behind, and report what happened; the finding store loses no sighting and
never rewrites history; the QA service leaves no ghost rows and contradicts itself to
nobody; the mail poll forgets no deploy; a session is only for whoever showed the inbox
to be theirs; two stores that are written one after the other agree once nothing is in
flight; a check's verdict is about the portal and not about the moment it looked; a page
that shows a run as active shows at last how it ended. `PROJECT.json` lists the hazards
line by line with the properties that answer for them.

## 2. The modules

Each component module holds the state, one action per step between two awaits, the
specification, the properties, and - last, where something is proved - the parts of its
inductive invariant. Next to some definitions stands a variant marked "Mutant", the same
definition with a plausible bug; no specification uses them, they serve to show that each
property can fail. Variables called ghosts record what happened for the properties; no
guard reads them, except that the environment's faults are counted against their budget.

### Runs

**`RunLifecycle`** is the abstract specification of what a user of a run is promised:
`absent -> queued -> running -> completed | failed`, cancellation from queued or
running, terminal statuses final, an accepted run finishes.

**`ScanRun`** is the protocol that should provide it. `status`, `startedAt`,
`completedAt`, `persisted` are the database (timestamps count how often the column was
stamped), `job`, `owner`, `stalls` BullMQ's job with its lock, `pc` and the variables
after it one execution of `execute` per worker (`signal` is the cancel poll together
with its AbortController), `rpc` and companions one `CancelScanUseCase.execute` per
request. Actions and code:

| Action | Code |
|---|---|
| `CreateScan`, `Enqueue`, `EnqueueFails` | `create-scan.use-case.ts`: insert, then `queue.add` |
| `CancelFind`, `CancelJobState`, `CancelRemoveJob`, `CancelRead`, `CancelWrite` | the awaits of `cancel-scan.use-case.ts`, `BullMqScanQueue.cancel` and `updateStatus` |
| `TakeJob`, `FinishJob`, `StalledCheck`, `LoseLock` | BullMQ (external): lock, acknowledgement, redelivery |
| `FindScan`, `ReadForUpdate`, `WriteRunning`, `EnsureLocalCheckout`, `RunScan`, `PersistFinding`, `WriteCompleted`, `Cleanup`, `WriteFailed` | the awaits of `run-scan.use-case.ts` in their order |
| `CheckoutThrows`, `TargetThrows`, `CallFails` | its error paths; which call throws decides whether the catch block runs |
| `PollReads`, `PollAborts` | `startCancelPoll`: the row is read at one instant, the callback aborts later |
| `Crash` | the process dies and is restarted |

**`WorkerRuns`** is the two other kinds of run a worker process executes. `KindOf[r]` says
which queue a run goes through; each kind has one execution (`pc[k]` and the variables
after it) that takes the same steps, `Parts(k)` being the statements that record its
results. `rows` holds triples of run, table and execution, because `saveMany` inserts and
never replaces; `summary` the execution whose totals stand in the row. `Number(k)` counts
executions of a run by its deliveries. `proc` is the process with its shutdown, which
closes the queues in the order of `main.ts`; `Taking` says which of them still deliver
meanwhile. The engines may return, throw or never end. `AfterJob` is
`removeOnComplete`/`removeOnFail`. Details that `ScanRun` has are left there: the two
statements of `updateStatus`, and locks lost under a live worker.

| Action | Code |
|---|---|
| `CreateRun`, `Enqueue`, `EnqueueFails` | `create-unit-test-run.use-case.ts`, `create-coverage-run.use-case.ts` |
| `CancelFind`, `CancelJobState`, `CancelRemoveJob`, `CancelWrite`, `CancelFails` | `cancel-*-run.use-case.ts` and the queues' `cancel` |
| `FindRun`, `WriteRunning`, `EnsureLocalCheckout`, `EngineReturns`, `EngineThrows`, `SaveResults`, `WriteCompleted`, `Cleanup`, `WriteFailed` | the awaits of the two `execute` methods, `runUnitTestGeneration`, `runCoverageGate` |
| `TakeJob`, `FinishJob`, `StalledCheck` | BullMQ (external) |
| `Shutdown`, `CloseNext`, `Kill`, `Boot` | `apps/worker/src/main.ts` and whoever runs it |

**`QaAutomationRuns`** is the QA automation service: two queues, one process with its
boot (`Boot`, `ReconcileRow`, `StartWorkers`, `BootFails`), shutdown in the order of the
code and kill, and the execution both use cases share (`CreateRun` to `FinishJob`), its
catch block and what throws inside it. `<<j, n>>` is the n-th run of job j.

### Engines

**`PluginRuntime`** is one call of `runScan`: the selection by globs, the synchronous
start of all threads, the ends of a thread (`PluginEnds`: message, error, silent exit),
the settle function with its flag, timers, abort listeners (a listener added to an
aborted signal never fires), and the progress writes, which are not awaited and land in
any order, or not at all; the ghost `late` notes a write that failed or was overtaken. The
abort may come at any time after the poll is armed, also before any plugin runs. `ScanRun`
takes all of this as its step `RunScan`; `RunScanEnds` is what
justifies that.

**`UnitTestEngine`** is `runUnitTestGeneration`, run after run over one checkout that a
developer edits meanwhile. `disk[g][f]` is the run whose test of file f is on disk,
`report` the report file of a target, `tree[f]` what f exports. `Begin` discovers files up
to the cap, `Clear` empties the output directory, `NextFile` reads and skips, `Retryable`,
`Backoff` and `Fail` are `withGeminiRetry` around one model call, `Write` writes a test;
`StartJest`, `Install`, `WriteBabelConfig` and `RunJest` are `run-jest.ts` with its
fallbacks, `Report` the local execution report. `Edit`, `Abort` and `Dies` are the
environment; a run that dies is followed by one that finds what it left.

**`ExportedFunctions`** is `extractExportedFunctions`, the pure part of it: a file is a
sequence of top-level statements, the two Maps and the Set are filled statement by
statement as in the code (`Visit`, `FoundBy`, `Walk`), and `Signatures` resolves the names at
the end. `exports.f = ...` is the object literal with the one property f.
The reference is what an importer gets from Node's loader (`Named`, `DefaultExports`).
`Plain` names the files for which the answer is right. The extractor does not read every way
to write or to export a function: `export { f as g }`, `export default f` and
`module.exports = () => {}` have no handler, and methods, getters and quoted keys of an
exported object or functions that only another expression gives (`f.bind(this)`) no
declaration. All of these are statements of the model (`ExportLists`, `ExportAssignments`,
`Unread`), and the property says that they are left out: it promises what is exported in a
form a handler takes (`Handled`) and written in one `callableIn` reads (`Readable`). A
statement of several declarators counts as one for each; `exports = f`, which the code takes
for `module.exports = f`, and files that mix the two module systems are not modelled.

**`CoverageGate`** is `runCoverageGate`. A file is the sequence of its lines, each new or
not and a statement or not; its path is a sequence of directories and a name, and `prefix` is
where `repoRoot` lies below the top of git's working tree. `Hunks` is what git prints of the
files it has `tracked` (external), under `gitPath`; `parseUnifiedDiffHunks` reads it and
strips the prefix again, `Diff` collects `changed`. A new file that was never added is not in
the diff, as the comment at `incremental.ts:123` says, and passes the gate without a test;
`GateIsHonest` therefore speaks of tracked files. Names git quotes (non-ASCII) are not
modelled. Then `Jest` runs the repository's suite, which may pass,
fail, load only in part or leave no report; `CrossReference` compares and decides. The
developer may edit between the steps (`moved`), the run may be aborted.

**`StagingSuite`** is `PytestStagingTestRunner.run`: `SetupStep` (clone, dependencies,
environment, browser), `Resolve` (which batches a mode runs), then for each batch
`StartPytest` or `SpawnFails`, pytest's own `Phase` (setup, call, teardown of a test),
`WriteJunit` and `PytestCrashes`, the runner's `TimerFires`, and `ReadReport`, which takes
the JUnit report when there is one (`ParseJunitXml`) and otherwise what the report log
says (`ParseReportLog`), whose last line a kill may have cut. A JUnit report a kill has cut
may not parse, or parse to a part of its rows and, when the cut is inside a testcase, to one
row with what there was of it (`CutRow`): a testcase without its `<failure>` reads as passed.
That row is the exception in `RowsAreTrue`. The run ends "untidy" when the `rm` of its
`finally` fails and throws its results away. `results` are the rows,
`ran` what pytest observed. The tests deselected beforehand get stubs. The four modes are
a full run, one without its first batch, one path, and a rerun of named tests, whose one
batch `Resolve` looks up in the checkout.

**`PortalChecks`**, **`PortalSidebar`** and **`CandidateSearch`** are the browser checks.
The portal is external: what it lists, opens late, animates, covers with a dialog or
drops is nondeterministic, within budgets, and what no variable shows of it is noted in the
ghost `faults`. Modelled from the code is everything the checks do about it: the dates they look
at (`upcomingDates`, in India's calendar on a container that runs on UTC), the retry of a
missing slot, the judgement of a date, the booking and payment scripts probe by probe; the
login with its promo, `ensureSidebarOpen` over an animated width, `dismissOpenDialog`,
`openFromSidebar` over groups, where a click has to lead and what a failure says; the
virtualised filter lists, `setGenderFilter`, when a count on screen belongs to the last
Apply. In `PortalChecks`, `unopened` are the bookable dates whose cells the calendar has
disabled or does not show because they are of the next month (`isDateBookable` reads both as
closed), the verification modal may appear at any point after the login, and the probe
"Terms-checkbox" of `premium-upgrade` throws instead of failing. In `PortalSidebar` the
readings of a moving sidebar settle before their cap of fifteen, and the branch of
`clickThroughSidebar` for a target without an expected URL is left out, there being none. In
`CandidateSearch` every check and unchecking click may be lost, an answer may come after the
count was read, and the box of the gender before may be out of sight: `counts` keeps, as a
ghost, the boxes each count was for.

### Data

**`FindingStore`** is the two finding tables of a repository while several executions
persist into them. A transaction of `upsertFromScan` is `FindUnique`, `WriteRow`,
`UpsertHistoryAndCommit`; read committed isolation is modelled by letting the lookup
see committed rows, letting `WriteRow` wait while another open transaction holds the
row (or has inserted its key), and letting an update read the row as it is when it gets
the lock. `TransactionFails` is a timeout or a lost connection.

**`Reports`** is the four generate use cases over one run. The run is moved by its execution
(`Save` writes rows in order, a table at once or one by one; `Complete`; `RunFails`, also
after it completed, when a cleanup or a report mail throws; `ExecutionEnds`), by `Cancel`,
which writes whenever it gets there, and by `Redeliver` and `WriteRunning`, which have it
executed anew over the rows that are there. `Generate` begins a request, `ReadNext` reads the
run's row and then each of its tables, `Truncate` and `WriteOut` are the two moments of
writing a file, `Create` upserts the row, `Fails` ends a request anywhere. `had` and
`savedThen` are ghosts: the statuses the run has had since the last request began, and what
was saved then. What is rendered is modelled where numbers must agree: the three sheets and
the counts of the QA report, the health score of a scan.

**`Schedules`** has a row and a job scheduler per environment. `GetSchedule` creates a
missing row enabled, `PutRow`, `PutScheduler` and `PutFails` are the two statements of an
update, `Tick` is BullMQ's scheduler, `TriggerRun` and `RerunStagingRun` add one-off jobs,
`TakeJob` consumes one. `settled` (ghost) are the environments whose last update overlapped
no other and did not fail.

**`OneDriveCopy`** has one stored refresh token and the set `valid` of those Microsoft
accepts (external; a use replaces the token, and the old one is spent). An upload is
`FindConnection`, `Refresh`, `Save`, `Send`; the OAuth callback `CallbackExchanges`,
`CallbackEnds`; `UploadDies` a process that ends between two of them.

**`Accounts`** has the users, the mailed links (`AuthToken`), the live session tokens, and
requests that walk the awaits of their use case: `SignupUseCase`, `VerifyEmailUseCase`,
`LoginUseCase`, `RequestPasswordResetUseCase` and `ResetPasswordUseCase` are sequences of
awaits, `Path(kind)` the one of a request, and `Step` its next await; `Fail` has any of
them reject, `Expire` ends a link. `Open` is a page: a person can only send what their
page lets them, and the secret of a link only when it was mailed. `proven` and `owed` are
ghosts: whose inbox was shown to be theirs, who was handed a session.

### Services and pages

**`DeployMailPoll`** is one mailbox and its poll: clock, cursor, the page a request
returns, the trigger. A poll reads the clock *before* it lists the mails and stores that
time, which is the whole argument for its correctness.

**`ApiCalls`** is two calls the API makes for a waiting user. `Trigger`, `Answered`,
`Throws`, `Complete`, `CompleteFails` are `TriggerCronRunUseCase`; `Browse`, `AddJob`,
`Deliver`, `TimerFires`, `Respond` are `BullMqDirectoryBrowseQueue.browse` with its ten
seconds, `Take`, `Finish`, `WorkerDies` the worker; `ApiDies` takes the requests of both.

**`RunPages`** is a browser tab on one of seven pages of runs. `Mounted` says which queries
a page has, `Panel` what it shows and offers; `ListArrives`, `StatusArrives`,
`DetailsArrive`, `RequestFails`, `Poll` and `Focus` are React Query as `hooks.ts`
configures it (which queries poll, and until when); `Select`, `HandleCreate`, `Starts`,
`Cancel` the user with what each mutation invalidates; `HandleGenerate`,
`WaitForUnitTestRunToFinish`, `Recheck` and `ChainFails` the gate page's chain of a test
run and a second gate; `RunMoves` is the server.

### Composed instances

`MCX` modules give TLC its constants and symmetry, `X_proofs` modules hold the proofs.
`MCPluginRuntime`, `MCStagingSuite` and `MCCandidateSearch` are the instances in which one
sentence of the repository is violated.
`Engines_proofs`, `Services_proofs` and `Dashboard_proofs` extend the composed instances, so
that what they prove is about the very modules the runs check.
`MCServices`, `MCDashboard` and `MCEngines` each check several modules that share no state
in one model: a variable (`part`, `engine`) fixed in the initial state says which of them
moves, the others rest in one initial state, and fairness is per part. A behaviour of the
composition is a behaviour of one part, so each property says of its module exactly what a
run of that module alone would. `MCEngines`, `MCServices` and `MCDashboard` extend one or
two of their modules, so that TLC evaluates those modules' assumptions, and instantiate
the rest.

## 3. The runs

Six runs pass. The system's components share little, so a run is a question about a group
of them and not about one module.

| Run | What it checks | What it shows |
|---|---|---|
| `scan_run` | one scan, two workers, a cancel request, two crashes, a lost lock and a failing call, in every order, fair | executions exclude each other (`ExecutorOwnsJob`), `startedAt` is stamped once (`StartedOnce`), no scan is left behind (`NoOrphan`), checkouts are released (`CheckoutReleased`), a completed scan has its findings (`CompletedIsBacked`); every accepted scan settles for good (`EventuallyOver`); an execution aborted before its plugins returned leaves no trace (`AbortLeavesNoTrace`) |
| `worker_runs` | a unit-test run and a coverage run on one worker, any two of: shutdown or kill, failing call, cancel request; fair | a completed run shows one whole execution (`CompletedIsWhole`); no run is left behind (`NoOrphan`); each run ends, whatever the other kind's engine does, unless the process is stuck in its shutdown with the run's queue closed (`EveryRunEnds`); the API key of a unit-test job leaves Redis (`KeyLeavesRedis`); undisturbed, the runs take the steps of `RunLifecycle` (`LifecycleWhileCalm`, a refinement) |
| `qa_runs` | a production job and a staging rerun, two ends of the process, two throwing calls, fair | no run is "running" without an execution or a reconciliation to come (`RunningIsLive`), a completed run is whole (`CompletedIsWhole`), nobody gets contradicting mails (`OneMailPerRun`), every row is decided (`Settles`) |
| `engines` | three plugins with all their ends; a staging suite in its four modes; test generation run after run over a directory that is edited; the functions extracted of every small source file; the gate over every working tree of one file, tracked or not, at the top of git's working tree or below | nothing is left running (`NothingLeftRunning`), and progress counts what settled, all of it once its writes have landed and none was lost or overtaken (`ProgressAddsUp`); a row of a suite says what pytest observed, but for a testcase a JUnit report was cut in (`RowsAreTrue`), and a verdict that reached the disk is reported however the batch ended (`NothingFlushedIsLost`); what stands in a directory of generated tests is of the run its report describes (`FreshOutput`); the functions tests are written for are what the file exports, in whatever order it declares and exports them, and in the forms the extractor reads none is left out (`SignaturesAreTheExports`); the gate's verdict is right in both directions for what git tracks (`GateIsHonest`); no engine is held for ever, and a run calls the model at most so often (`EnginesEnd`) |
| `services` | the services, the reports and the browser checks | no deploy mail goes without a run (`EveryDeployTriggers`); nobody gets in before the inbox was shown to be theirs (`SessionsAreEarned`), and of sessions that revoke each other one survives (`LastLoginWorks`); a schedule that is at rest runs as its row says (`SettledSchedulesAgree`); the next upload finds a token Microsoft accepts (`ConnectionStaysUsable`); a report has what it claims, and one that is requested alone is whole and not older than its request, whatever earlier ones damaged (`ReportIsHonest`); a check's verdict is about the portal (`SlotVerdictsAreReal`, `OneVerdictEach`), or its counts are of other boxes than it thinks, which takes a lost click, a late answer or a box out of sight (`SearchVerdictsAreReal`) |
| `dashboard` | overlapping executions that persist findings; cron runs and directory requests; a tab on each page of runs | every sighting has its history (`SightingsHaveHistory`), a finished execution is recorded (`ExecutionIsRecorded`), nobody waits for ever for a row lock (`ExecutionsEnd`); a cron row tells how it ended (`CronRowsTell`); every directory request is answered (`EveryBrowseAnswered`); what is shown as active is at last shown as it ended (`PageSettles`) |

The other six are expected to end in a counterexample: each checks one sentence of the
repository that the code does not keep.

| Run | Sentence | What the code does |
|---|---|---|
| `scan_cancelled_findings` | ADR 0023: "A cancelled scan's partial findings are **not** persisted" | the abort check runs once, after `runScan`; a cancel polled later does not stop `persistFindings` |
| `plugin_abort` | `orchestrator.ts:25`: cancelling "aborts every still-running plugin's worker thread" | a signal aborted before `runIsolated` registers its listener stops nobody |
| `qa_completed_final` | `run-qa-automation-suite.use-case.ts:74-75`: "failed" is reserved for a run that never got the chance to run | a report mail that throws turns a completed run "failed" |
| `staging_nothing_ran` | ADR 0053: "Only if both batches produce zero results does the run fail outright" | the stubs of the tests deselected beforehand count as results, so a run in which nothing ran returns normally |
| `search_contaminated` | `candidate-search-navigation.ts:249-251`: a gender that is still checked makes the check throw, because it "would silently contaminate the next gender's count" | a box that is not rendered at the one moment it is counted is taken for an unchecked one; it stays checked under the next gender's count |
| `web_full_result` | `CoverageGateSection.tsx:22-23`: the latest run's "full result (verdict + fixable file list)" is shown inline | the file results are fetched once; fetched while the run was active they are never fetched again, and the finished gate shows a verdict without its files |

Also met while modelling, without a sentence to contradict or a run of its own:

- a cancel written between the guard of `execute` and the "running" write is overwritten,
  although the comment at `run-scan.use-case.ts:51-53` takes the guard for safe;
- `completedAt` can be stamped twice by a cancel and a completion that both read null;
- progress writes may land in reverse and leave the last count below the total (ADR 0023
  accepts it: they are best-effort);
- a scan whose cleanup throws is "failed" after it was "completed", over findings that are
  there;
- a rejected `findById` in the cancel poll is an unhandled rejection that ends the worker;
- a scan whose `queue.add` fails stays queued for ever;
- a redelivered coverage or unit-test run has the result rows of both executions, and a
  coverage run whose status write fails shows a verdict and "failed";
- a hanging engine keeps a worker that was told to stop from stopping, while the queues it
  closed before stay closed;
- a deploy mail may trigger two runs; a reconciliation that throws leaves the QA service
  alive without workers;
- reading a schedule creates its row enabled, and no job scheduler with it: until the first
  PUT the dashboard shows a schedule that never fires;
- a JUnit report that is cut inside a testcase passes it (`junit-xml-parser.ts:101`), and a
  work directory that cannot be removed costs a staging run all of its results;
- a new file nobody has added to git passes the coverage gate untested (its comment says so);
- an upload that dies between spending a refresh token and storing its successor ends the
  OneDrive connection until somebody connects anew;
- the health trend keeps the score of a scan that was listed while it ran;
- functions are listed by name in one Map: a CommonJS property with a function of its own
  that shares its name with a declaration shows the text of whichever stands later, and
  `exports.f` before a `module.exports = {...}` is listed although the module loses it;
- the unit test page says no exported functions were found when it read the files too early;
- the health score is 100 with open findings of severity info, which cost nothing.

## 4. Bounds, and why they are enough

- *Scans.* Executions of different scans share nothing but the worker that is busy, so
  one scan suffices. Two workers are what mutual exclusion needs.
- *Cancel requests.* One, which the execution and the queue race in every way. That a
  second one changes nothing is part of the proofs, which hold for any set of requests.
- *Worker runs.* One of each kind: runs of one kind queue behind each other, and the kinds
  share the process. Two disturbances in all suffice for a crash whose redelivery crashes
  again (the budget of one is exceeded), a crash and a failing call, a shutdown that a
  kill interrupts, a cancel that races any of them.
- *Crashes.* Two exceed the redelivery budget of one, so that a job is redelivered and
  also given up. `MaxStalledCount = 1` is BullMQ's default, which the code keeps.
- *Faults and lock losses.* One each for scans: the promises that survive a fault are
  stated with their exceptions, and a second fault only weakens them. Two for the QA
  service, so that the catch block may fail too.
- *Plugins.* Three: two to race and one that an incremental target skips.
- *Staging suite.* A test per batch and two batches are what the loop, its progress and the
  isolation of batches need (one sub-batch and the panel-admin file; `staging_nothing_ran`
  takes two sub-batches). A test has three phases with three outcomes each, which is where
  the states are.
- *Test generation.* Three source files with a cap of two, so that one is left out; two
  attempts, so that a retry happens and is exhausted; two runs, the second of which finds
  what the first left, with one edit in between.
- *Extraction.* Every file of up to three statements over two names, ES module or
  CommonJS: a declaration, an export of it under another name and a second export are the
  interactions there are.
- *Gate.* One file of up to three lines has every shape a hunk can have (none, one line,
  several, two hunks, removed lines). It lies in a directory that is also the prefix of one of
  the two places `repoRoot` can have, so that stripping it once too often would show. That
  nothing is lost for longer files, deeper paths and more of them is proved.
- *Findings.* `FindingStore` needs two fingerprints for a deadlock on locks, three
  executions for a redelivery that overlaps another scan, and one timeout, which frees a
  waiting transaction.
- *Mails.* Six ticks allow three polls with a lookback of one; a page of two with three
  mails can overflow; two failures.
- *Accounts.* One address, because the rows of different addresses meet only in the
  organisation; two requests race, of any two kinds, one after another as long as links
  last; two links and two passwords make the old and the new distinguishable. Names of
  spent links are reused, so the number of requests in a behaviour is unbounded.
- *Schedules, OneDrive.* Two updates, two uploads and one callback overlap; five tokens
  are always enough for a fresh one, since spent names are given out again.
- *Reports.* Two requests, two rows per table (four where the sheets are counted), one
  redelivery and one request that fails: a second failure would only repeat the damage the
  first one does.
- *Browser checks.* Four starting times: a Saturday morning, a Saturday evening on which it
  is already Sunday in India, just before and just after the same-day cutoff of a Sunday,
  with one half-hour that may pass;
  five offers, one for each way to keep or break the pricing rule; three sidebar targets
  (the start page's own, one into the other shell, one behind a group) and one slip of
  the portal; pools of 3, 2 and 1 so that no two counts agree by chance.
- *API calls, pages.* Two of each, so that one can be late for the other; a second run so
  that selecting and rerunning have somewhere to go.
- Deadlock checking is off throughout: these systems come to rest when every run is
  over and every budget of the environment is spent.

`services` has about 4.1 million distinct states, `engines` 1.3 million, `dashboard`
110,000. The theorems of section 6 hold for all values of these bounds.

## 5. Fairness

Only what a scheduler really provides is assumed: Node finishes the awaits it started and
fires timers, BullMQ's workers fetch waiting jobs and its stalled check runs, the API
finishes the requests it accepted, the cancel poll is on an interval, the platform
restarts a dead container. All of it is weak fairness but for two conditions of
`RunPages`. `Execute(w)` is one fairness condition per worker because an execution is one
sequential thread of control. In detail:

- *Engines.* In `WorkerRuns` the engines have none: neither the language model nor Jest is
  given a timeout (`runSubprocess` has an option for one that these callers do not use).
  Plugins need not end in `PluginRuntime` (the timer does), nor pytest in `StagingSuite`:
  there only the runner's own steps (`StartPytest`, `SpawnFails`, `TimerFires`,
  `ReadReport`) are fair. In `UnitTestEngine` the backoff timer fires and a model that is
  asked answers, if only with an error: `RetriesEnd` speaks about the retries, not about a
  model that never answers. Suites do end in `QaAutomationRuns` because their runners have
  timeouts.
- *Row locks.* In `FindingStore` weak fairness of a waiting transaction is PostgreSQL
  granting a lock that has become free.
- *API calls.* `AddJob`, `TimerFires` and `Respond` of a directory request; no worker
  answers, and the external system of a cron need not either.
- *Pages.* The intervals of the polls and the progress of runs on the server are weakly
  fair. The arrival of an answer (`ListArrives`, `StatusArrives`) is strongly fair: a
  request that is made again and again is answered at some time, although each single one
  may fail. Nothing is assumed of the user, nor of focus events.
- Nothing is assumed of users, crashes, faults, lock losses, mails, the portal, Microsoft
  or the developer.

The liveness properties exempt the cases where nothing in the code would help: a call that
failed, a lock lost under a live worker, a job given up by BullMQ, a boot that threw.

## 6. The proofs

All theorems are about a module's specification and hold for any sets of scans, workers,
requests, findings, plugins, jobs, mails, addresses, paths, tests, source files, rows,
sidebar targets, offers, candidates and any bounds. The only assumptions are the named ones
listed at the end of this section, which TLC evaluates in the runs. For each module the
argument has the same form: an inductive invariant (`IInv`, or under a name of its own where
modules are composed: `UnitInv`, `GateInv`, `AccountsInv`, `NavInv`, `SearchInv`, `SlotsInv`,
`ReportsInv`), one lemma for the initial state, one per action (or group of actions that
leave the same variables alone) for the step, and the properties as consequences. The parts
of an inductive invariant were checked by TLC before they were proved; what the runs check
are the properties. Eight modules hold the proofs: five about one component each, three
about the components of a composed run, whose theorems name the instances
(`Docs!Spec => []ReportIsHonest` is about `Reports`).

**`ScanRun_proofs`.** `TypeCorrect`; `Inductive`; `MutualExclusion`
(`ExecutorOwnsJob`), `NoScanLeftBehind` (`NoOrphan`), `NoCheckoutLeak`
(`CheckoutReleased`), `StampedOnce` (`StartedOnce`), `CompletedOnlyBacked`
(`CompletedIsBacked`), `AbortedScansStayClean` (`AbortLeavesNoTrace`). Mutual exclusion is
nearly inductive: it needs `Fresh` (no job
before the API enqueues it, so none is made twice). `NoOrphan` is not: that an
execution may end without leaving the scan to anybody needs `Settled` - an execution
about to acknowledge, or one that has seen a cancellation, has a terminal status behind
it, which no later step undoes, because by mutual exclusion nobody else executes the
scan and cancel requests write "cancelled". `StartedOnce` needs `FirstStamp`: between
the two statements of `updateStatus` the null that was read is still there.
`CompletedIsBacked` needs `Backed`, which follows findings from `outcome` through
`todo` into the table. `AbortLeavesNoTrace` speaks about two instants, so it is not the
consequence of an invariant; what an abort in time establishes, and every step of any
process keeps, is `NoTraceOf`: an execution of the scan is on its way out with its signal
aborted, and one that is delivered again gets no further than the guard of `execute`, which
finds the row cancelled. `ImplementsLifecycle` is the step simulation of
`RunLifecycle`: without crash, lock loss, fault and cancel request every step of the
protocol is one of the lifecycle's or leaves the statuses alone.

**`WorkerRuns_proofs`.** `Inductive`, `TypeCorrect`, `CompletedRunsAreWhole`
(`CompletedIsWhole`), `NoRunLeftBehind` (`NoOrphan`), `ImplementsLifecycle`
(`LifecycleWhileCalm`). `CompletedIsWhole` is not inductive: it needs `Recording`, which
says that the parts before the next statement are stored under the number of the running
execution, and that no earlier "completed" vouches for the run while its summary is being
overwritten - which holds because "running" was written first and the kinds never execute
the same run (`HoldsJob`). Even the types need an argument: that a run is executed at most
`MaxStalledCount + 1` times is `Deliverable`. For `ImplementsLifecycle` the invariant says
for each point of an undisturbed execution which status its run has (`Phase`).

**`QaAutomationRuns_proofs`.** `Inductive`, `NoGhosts` (`RunningIsLive`),
`CompletedRunsAreWhole`, `NoContradictingMails` (`OneMailPerRun`).
`GhostsAwaitReconciliation` carries a dead process's rows over to the next boot: there
"running" means exactly "still to be reconciled". `RunsPerDelivery` bounds the runs of
a job by its deliveries, and `Unmailed` says that what may still be mailed about has not
been.

**`DeployMailPoll_proofs`.** `Inductive`, `NoDeployForgotten`, `NoThirdRun`.
`PollsInOrder`, `PageIsComplete` and `PageIsNew` relate clock, cursor and page: what an
advancing cursor skips was in the page or cut from it, and a mail triggered twice is
older than the cursor.

**`Accounts_proofs`.** `Inductive`, `NobodyGetsInUnproven` (`SessionsAreEarned`),
`SomebodyStaysLoggedIn` (`LastLoginWorks`). Neither property is inductive. `EarnedSoFar`
says for each await what its request has shown so far: past the lookup of a link its user
is in `proven`, and past the activation that user is active. `OnItsPath` ties the await a
request is at to the route of its use case, so that "past" means something; the lemmas
`PlaceOnPath`, `FollowingOnPath`, `NextAwait` and `Onward` are about the routes.
`LinksAreOwned` says that an active link is somebody's and that only requests with a link
carry its secret. `LastLoginWorks` holds because whoever revokes goes on to make a session,
and is exempt only when that very write fails.

**`Engines_proofs`.** The engines of `MCEngines`.

- *Plugin runtime*: `PluginsInductive`, `NothingLeaks` (`NothingLeftRunning`),
  `ProgressIsHonest` (`ProgressAddsUp`). `Quiet` says that whatever settled or was not
  applicable is switched off; `Counted` that a progress write in flight never names more
  plugins than have settled, which is why it may land at any time; `InOrder` that, as long as
  none was lost or overtaken, the writes in flight are those that follow the count shown.
- *Staging suite*: `StagingRowsAreTrue` (`RowsAreTrue`), `FlushedIsKept`
  (`NothingFlushedIsLost`). `BatchObserved` relates the place pytest is at to what it has
  observed: the JUnit report exists only after the last test, and a test behind that place
  was executed. `LogSoFar` and `RowsSoFar` keep the batches apart, so that a log line is
  read by its own batch only, and `Collected` carries what was read to the end of the run.
  `CutRowIsTrue` bounds what a cut JUnit report can get wrong - one row, a pass - and
  `RowsStayTrue` keeps the rows of earlier batches through the next ones.
  Of the percentage the runner reports, `Percentage` shows that it is one.
- *Unit test engine*: `OutputIsFresh` (`FreshOutput`), `BillStaysBounded` (a part of
  `EnginesEnd`). `FreshOutput` is about the directory at rest; `OutputSoFar` says what a
  run under way finds there - nothing but its own - which is why it may die anywhere.
  `BillSoFar` pays for the files ahead: what was asked so far, and `MaxAttempts` calls for
  each file still to come, never exceed the cap.
- *Exported functions*: `ListedAsExported` (`SignaturesAreTheExports`), for files of any
  length. The walk is a recursive function of the number of statements (`WalkVisitsEach` shows
  that it is well defined). `FoundSoFar` says what n statements have put into the Maps and the
  Set - each key comes from one of them and none is missing - and holds for every n, because a
  least n without it would contradict `VisitFinds`. From there `ListedIsExported`,
  `NamedIsListed` and `DefaultIsListed` compare the Maps with what an importer gets; they use
  that a plain file says each thing once, and never in which order. Of statements the
  extractor has no handler for, and of functions `callableIn` does not find, they say nothing.
- *Coverage gate*: `DiffLosesNothing`, `GateInductive`, `VerdictsAreHonest`
  (`GateIsHonest`). The first is about the pure part, for files of any length: the lines
  read off the hunks of a diff are exactly its new lines. A new line belongs to the hunk
  that starts at the greatest first line not after it (`EveryNewLineInAHunk`, with
  `GreatestNat`), and the lines of a hunk are an interval as long as its header says
  (`HunkIsInterval`, `HeaderIsExact`); `LeastNat` and `GreatestNat` replace the induction,
  by well-foundedness of the naturals. `PathFromRepoRoot` shows that stripping the prefix of
  a path undoes prepending it, and `HunksOfAFile` that the lines of two files are never
  mixed. The rest follows the exact diff through Jest to the verdict.

**`Services_proofs`.** The services, checks and reports of `MCServices`.

- *Schedules*: `SchedulesAgree` (`SettledSchedulesAgree`). `AloneIsAlone`: a PUT nobody has
  met since it wrote the row is the only one of its environment, and the row says what it
  is about to tell Redis.
- *OneDrive*: `ConnectionUsable` (`ConnectionStaysUsable`). A successor on its way to the
  row is accepted and nobody else's (`SuccessorsAreTheirs`), so is the token of a new
  connection (`GrantIsTheirs`); whoever spent the stored one is about to save
  (`SomebodySaves`).
- *Sidebar*: `EveryTargetIsJudged` (`OneVerdictEach`). `VerdictsSoFar` says that the targets
  behind the current one have their verdicts, `SidebarSoFar` that every state the code can
  mistake - a sidebar not open, a dialog still there, a page that derailed - is a fault of
  the portal with this very target.
- *Candidate search*: `SearchesAreJudged` (`SearchVerdictsAreReal`). `CountsAreShown` says
  that each count is what the site shows for the boxes noted with it; `OneAtATime` that no two
  genders are checked, asked for or owed at once as long as no box was out of sight; and
  `AsPlanned` that the boxes are those of the plan as long as nothing went astray. The
  verdict then follows by arithmetic for any pool, any miscount and any faults.
- *Slots*: `SlotsAreJudged` (`SlotVerdictsAreReal`). `OnADate` keeps the check on dates of
  India's calendar at its start, `PanelsRead` says that what was read is of that date unless
  the panels were slow, `RetriesSoFar` that each retry had a reason.
- *Reports*: `ReportsAreHonest` (`ReportIsHonest`). `RequestSoFar`: a request that read
  "completed" has all of every table it read since, because tables only grow, whatever becomes
  of the run, and "completed" is written after them. `CompletedIsSaved` says so of the run and
  the file. `UndisturbedSoFar` follows a request that runs alone to the row: each thing it has
  read is one the run had since it began. `SheetsAddUp` and `ScoresAddUp` show for any rows
  that the three sheets and the counts agree, and that the health score stays in 0..100.

**`Dashboard_proofs`.** The two models of `MCDashboard` with safety properties.

- *Finding store*: `Inductive`, `TypeCorrect`, `HistoryIsComplete` (`SightingsHaveHistory`),
  `DoneIsRecorded` (`ExecutionIsRecorded`), `FirstSeenStays`. The core is `LockedByWriter`
  (a row is held exactly by the execution about to commit it) with `WrittenContinues` (what
  it will commit continues the row as it now is): nobody else can commit in between, so the
  first scan survives every race.
- *Cron runs*: `CronRowsAreHonest` (`CronRowsTell`). `RequestKnows`: a request in flight has
  a running row, and what it is about to record is what the external system answered.

**Proved without a run.** `ImplementsLifecycle` of `ScanRun`, `FirstSeenStays` and
`NoThirdRun` state properties no run checks.

**Only model-checked.** Everything under fairness (`EventuallyOver`, `EveryRunEnds`,
`KeyLeavesRedis`, `Settles`, `EnginesEnd` except its bill, `ExecutionsEnd`,
`EveryBrowseAnswered`, `PageSettles`), since the prover has no rule for it and none for
ENABLED. No invariant of a passing run is left without a theorem. The violated sentences of
section 3 are TLC counterexamples.

**What is assumed of the constants**, besides disjoint null values, finite sets where a
cardinality is taken, and bounds in `Nat`:

| Assumption | What it says, and why the code justifies it |
|---|---|
| `SuiteAssumption` | batches are sequences of tests, no test is in two of them, none of them is quarantined: the runner lists its sub-batches and the panel-admin file by disjoint paths and deselects the quarantined tests by name beforehand |
| `UnitAssumption` | the discovered files are a sequence of sources; cap and attempts are positive, as the constants of the code are |
| `NamesAssumption` | an identifier is not one of the two other kinds of expression |
| `PathsAssumption` | paths and the prefix of `repoRoot` are sequences of names, and no path is empty |
| `TargetsAssumption` | a persona has at least one sidebar target, each with the three fields of the type |
| `PoolAssumption` | the portal has candidates (a check of an empty result says nothing), a degree leaves out at most all of them, and a portal whose filter is broken miscounts by something |
| `SlotsAssumption` | a site lists times of a day, and a check starts at a half-hour of the model's clock |
| `RowsAssumption` | the rows of a run are sequences; no passed result of the QA suites has a message that says it was skipped (their runners set one only with `passed: false`); null is no status |
| `StoreAssumption`, `QaAssumption`, `RunsAssumption` | an execution is of one scan, a job of one queue, a run of one kind |

## 7. What is left

1. Compositions: `ScanRun` with `FindingStore` in place of its step `PersistFinding`, and
   the mail poll with the queue of `QaAutomationRuns`.
2. Proofs: type correctness of the modules whose invariants hold it as a part, as theorems of
   their own; steps that never happen (a run that leaves "completed", a finding whose first
   scan changes) as action properties of more modules.
3. The pure algorithms not modelled yet: the import rewriting of generated tests, cross-file
   correlation, the file list of an incremental target, enrichment selection.

## 8. Not modelled, and why

- *Analysis plugins* wrap external tools and parse their output; to the protocol a plugin
  is something that ends or does not. *Enrichment* is a table of text rules, *repositories
  and credentials* a single insert or update per request around Node's cipher.
- *HTTP controllers* other than those of accounts, schedules, reruns, the OneDrive callback
  and directory requests validate a request and call one use case.
- *Pages* without a run (repositories, crons), forms, layout and styles; of the others what
  React Query keeps of runs out of view.
- *Data*: rendering of reports beyond sheets, counts and scores, prompts and generated
  sources, templates, selectors and texts of the portal, environment variables of the
  staging suite. Most of the lines of `qa-automation-tests`, `reporting`, `web` and of the
  staging runner are of this kind.
- Within the modelled components: scans of different worker ids (their queues are disjoint),
  the contents of findings, the file selection of an incremental target, the progress column
  of a staging run as the QA service stores it. Two containers of the QA service at once
  are excluded by its deployment (one replica), except in `OneDriveCopy`, where a deploy
  overlaps them. Rows with `passed = true` and a "SKIPPED" message, which older versions
  wrote, are not inputs of `Reports`.
- A behaviour of `PortalSidebar` cannot have the start page's own item fail: the address
  already matches before the click, so the code cannot tell, and `OneVerdictEach` exempts it.
