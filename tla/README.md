# A TLA+ model of ERSEC

ERSEC is a scanner for authorised security assessments: it crawls one web
target, runs detectors against what it found, correlates and scores the
findings, keeps a history of a target's exposure across scans, and checks what a
target shows to whom against a model of who may see it.  A gateway, ERSEC
Shield, turns a report into virtual patches.  This directory models its core
logic in TLA+, checks it with TLC and proves the properties that matter most
with TLAPS.  Paths below are relative to the repository; the sources are in
`src/ersec/`, and a number alone is a line of `src/ersec/ersec_core.py`, which
holds most of what is modelled.

## 1. The system

### Components, their state and their operations

| Component | State | Operations | Modelled in |
|---|---|---|---|
| HTTP client `SafeHttpClient` | `request_count`, budget flags, `_last_request_time`, `_backoff_until`, `_consecutive_429s`, audit events, all shared by worker threads | `request`, `request_follow_redirects`, `_throttle`, `_handle_response_backoff`, `_authorize_request` | `HttpClient`, abstractly `RequestBudget` |
| Scheduler `BoundedScheduler` | futures and outcomes of one batch | `map` (pool, or inline for a ceiling of one) | `Scheduler`, abstractly `Batch` |
| Crawler `WebCrawler` | queue, `visited`, `endpoints`, `link_graph`, skipped addresses | `crawl`, seeds from robots.txt and sitemaps, routes from scripts | `Crawler` |
| Scan orchestration `ERSECScanner.run` | list of findings, `ScanExecutionLedger`, `ScanProgress`, component errors, result | twelve stages; `InstrumentedDetector` around each detector call | `ScanRun` |
| Detectors (about 75 classes) | none between calls | `run_url`, `run_param`; `reverify_finding` | 49 in `Detectors`, abstracted in `ScanRun` |
| Scan command `_run_single_target` | baseline file, SQLite tables `exposure_history` and `scan_findings`, report files, exit code | baseline diff and save, history reconciliation, report, exit | `ScanCommand` |
| Multi-target command `main` | futures, `sys.stdout`, exit code | a command per target, in a pool or one by one | `MultiTarget` |
| Audit log of re-verifications | one JSON file, the records a run has read and makes | `append_to_audit_log`, `verify_audit_log_integrity` | `AuditLog` |
| Shield gateway `ShieldRuntime`, `ShieldRateLimiter`, `ERSECShieldServer` | a queue of times per client, rules, learned routes and their file | one thread per request: limits, rules, forwarding, `save_learning`; stop, restart | `Shield` |
| Security behaviour verifier, invariant engine, matrix | rows of one verification | `verify`, `evaluate` | `Assurance` |
| Scoped transport | a request on its way through redirects | `request` | `Assurance` |
| Authorization assurance | none | `evaluate`, `remediation_delta` | `Assurance` |
| Contract approval and gate | the bundle of contracts | `approve`, `load`, `evaluate` | `Assurance` |
| Everything else | | | section 6 and `PROJECT.json` |

### How they interact

The scan command builds one scanner, the scanner one client.  Crawler,
detectors and replays all call that client, so its lock, its budget and its
pace are the shared state of a scan.  Detector jobs run on the scheduler's
pool; the scheduler asks the client's budget flag (`should_cancel`) before it
submits and after each result.  Each job goes through `InstrumentedDetector`,
which writes the ledger and the progress under two different locks.  The run
turns ledger, budget and component errors into `scan_status`, the command turns
`scan_status` into files, database rows and an exit code that CI reads; with a
file of targets `main` runs one command per line, in threads that share the
process's `sys.stdout`, and folds the exit codes into one.

A scan with a security model verifies it through the scoped transport; its rows
become reports, the reports become contract drafts, a person approves some, and
the gate judges later reports by what was approved.  A report's findings are
also what Shield compiles its rules from.  `verify` replays a report's findings
and appends the verdicts to the audit log.

### What is hard

* threads: slots of the throttle, the budget at its limit, the cancellation
  sweep against pool threads that keep starting tasks, one `sys.stdout`, saves
  through one temporary name;
* time: an authorisation that is checked before a sleep and used after it,
  backoff announced while others already hold a slot, a limiter that takes the
  time before its lock, contracts that expire;
* partial failure: some jobs of a batch fail, some are skipped, some find; one
  probe of a detector fails; one target of a file raises; one cell of a matrix
  cannot be tested;
* stale summaries: a status computed before the last stages have run, a verdict
  by another predicate than the one that reported;
* persistence: commands killed anywhere, two commands on one database or one
  audit log, a database that is locked, a file left half written.

`PROJECT.json` lists each hazard at its line with the properties that would
catch it.

## 2. The modules

**`RequestBudget`** is what the client promises about requests: a pool of
`MaxRequests` permits, at most one network contact per permit, a refusal only
when the pool is empty.

**`HttpClient`** is the client.  `pc[w]` is the line of `request` worker `w` is
at.  `Acquire`/`Reject` are the first critical section; `Authorize` is
`_authorize_request` and its audit event; `ReadClock`, `Reserve`, `Send` are
`_throttle` cut where the code leaves and enters the lock (the clock is read
*before* the lock); `RespondBusy`/`Respond`/`NetworkError` end the exchange;
`FollowHop` is the redirect loop, which authorises again, without the address
check and without an audit event, and then calls `request`.  Addresses are
resolved twice, by the manifest and by the client, so `Authorize` takes two
independent answers.  Urls are abstract; a scope and a manifest are the sets of
what they accept.  `audit`, `asked`, `slot`, `sentAt` and `strays` (the requests a
thread has sent before the end of the backoff in force) are history.

**`Batch`** is what a batch of tasks promises; **`Scheduler`** is `map`.  Its
ceiling `max_workers` is chosen when the scheduler is built: one runs the tasks
on the calling thread, more on a pool.  The executor is outside the repository
and modelled as used: its workers take futures in submission order, and a
cancelled future reaches `as_completed` only when a worker has met it.

**`Crawler`** has one queue and no assumption on the site: each answer brings
any number of links, scripts and script routes up to a bound.  Two addresses
that differ in the fragment are one.  `Raise` is the `ValueError` that leaves
`crawl` when a reference cannot be joined or an address cannot be parsed
(`Malformed`).

**`ScanRun`** has one action per stage and five per detector job
(`Begin`, `Probe`, `End`, `Record`, `Report`).  `config` is the scan's profile,
whether it has a security model and whether adaptive discovery is on; it decides
which stages follow which and which fail.  A detector asks for any number
of requests and ends clean, with a finding, or with an error, which it may also
do because the budget refused it.  A job's findings are abstracted to the job.
Stages that are one `try`/`except` each are `Component` (their error counts for
the status) or `SwallowingStage` (it does not).  `Asking` are the stages that send
requests of their own through the scan's client.  Some stages build clients for
other identities (6780, 7580, 7712, 9515, 11159); each has `max_requests` of its
own and nothing in the run reads its counts, so their requests are no steps.

**`Detectors`** is the inside of those jobs: the 49 detectors that send probes
of their own.  A site is, for one detector, the answer to each probe the
detector may send, cut down to the features the detector reads (`Sites`); a
detector is an operator from a site to what it reports and how sure it claims to
be, or `Raised` when a failed request leaves it (`Judge`).  Each answer may be
`Failed`; the statuses and the times an answer may have are the parameters
`Codes` and `Times`.  The clock of a timed probe also runs while the client sleeps
for its slot, which other threads' answers may have pushed back: `Waits` are the
seconds of that sleep, `Elapsed` what the detector measures.  `method` is GET, or
POST for the detectors that are run on form fields too.  Then one answer may change,
or one page be served everywhere (`Change`), and every finding is replayed and read
by the predicate of its category (`Verify`), as `reverify_finding` does.  The
replay sends no body, so of a probe that is `Stripped` any verdict of its category
is possible; `Shows` is where the predicate holds by what the detector reads,
`Unread` where it may also hold by another text of the answer.  The passive
detectors read one page and compare it with nothing; they are left out.

**`ScanCommand`** starts where the scanner has answered.  Each command reads,
changes, commits and publishes in the code's order, in turn with the others or
beside them; `Die` may strike between any two steps and SQLite then rolls back.
`Claim(r)` is the status command `r` gives each finding in its report and its
rows.  `history` (the committed scans, from which `StatusAfter` computes what
every row should say) and `overlapped` (some command was started while another
was running) are history variables.  A baseline written by two commands at once
may be left torn; `diff_against_baseline` takes such a file for a missing one.

**`MultiTarget`** is `main` over a file of targets, above `ScanCommand`: of a
command it keeps the lines it prints, its report file, named after the host, and
how it ends.  `Enter` and `Leave` are `contextlib.redirect_stdout`, which
replaces the process's `sys.stdout` and later puts back what it found;
`Collect` is the loop over finished futures, `Fail` the exception of a target
that leaves it.  A command passes, finds, fails without a report, ends with 1
because a report cannot be written (14282-14284), raises, or is interrupted, which
only the main thread can be.

**`AuditLog`** is the log that `--reverify --audit-log` keeps.  A run loads the
file, empties it (`Open`) and fills it again piece by piece (`Flush`, and `Write`
for the last piece); nothing keeps runs apart, and two that fill the file at the
same time (`shared`) may leave a mix of their texts (`Jumbled`).  SHA-256 is taken
as injective, so a hash is the sequence of contents it commits to.  `Edit` and
`TakeOut` are a person with an editor, who may also make the record's link and
hash fit again; the hash of the last record is left alone, because nothing
follows that could contradict it.  `Broken` is what verification looks for.

**`Shield`** is the gateway.  `Scenarios` are configurations with the traffic
they meet; a behaviour picks one.  A request's thread takes the time (`Arrive`),
waits at most `MaxStale` ticks for the limiter's lock, is limited, refused or
passed on there (`Allow`, with the rules that `Rules` compiles from a report),
and after the upstream's answer records the route (`Forward`).  `save_learning`
is cut at its system calls: `OpenTmp` empties the file of the temporary name or
makes a new one, `WriteTmp` fills the file it has open, under whatever name that
file now has (the routes are those of one moment, as `sort_keys` sorts a copy;
where another thread has the file open or has written it, one of the two texts
stays or none; other mixes of the two are left out), and `Replace` moves whatever now bears the temporary name into
place.  Files are therefore kept apart from names.  `Stop` is the end of
`serve_forever`, with its own save while handlers may still run; `Crash` and
`Restart` complete the life of the process.  `passed`, `promised` and
`overlapped` are history.

**`Assurance`** goes from a model of who may read what to a gate.  The verifier
asks for one resource as every identity through the transport, whose redirect
loop is one step per hop (`MayRequest`, `Redirected`, `Answered`, `Denied`,
`Failed`); a site answers as it likes, differently each time.  `EngineStatus`,
`MatrixStatus` and `AssuranceStatus` are what the three reports make of the rows
and `Remediation` what two of them say together.  There is a contract for each
cell, for each invariant, those that name no resource included, for a finding of
an earlier scan and for an invariant that scan inferred.  `Approve` reads a bundle and
`Written` writes it, in two steps, as the file is emptied in between; `Gate` is
the gate's exit code for a report and the file as it is.

`MC*` modules hold the finite instances.  Definitions named `<name>_<fault>` are
the faulty variants each property is tried against; they stand right before the
definition they distort and no specification uses them.

## 3. The runs

| Run | Question | Instance |
|---|---|---|
| `http_client` | are slots spaced, what is sent inside a backoff, is every contact cleared, is the budget implemented, does every call return | 2 threads, GET and POST, two hosts, a manifest with a window, every answer of two resolutions, redirects, 2 permits, 3 calls, interval 2, Retry-After 3 or absent |
| `scheduler` | accounting, sweep, refinement, termination | 4 tasks, inline or on 2 or 3 threads |
| `crawl` | bounds, breadth first, closure, termination | 7 addresses, one out of scope, one malformed; 3 pages, depth 2; 2 seeds, and per page a link, a script and its route |
| `scan` | completeness, kept findings, counters, end | active and passive, with a model or without, adaptive or not; 5 jobs in four stages, 2 threads, 4 requests |
| `detectors` | what is evidence, what does a failure hide, what does a replay prove | each of 49 detectors against every site its probes can tell apart, with 6 statuses, a fast and a slow answer, a client that waits or does not and any request failing; GET and POST |
| `command` | history, exit code, end | 3 commands in any overlap on one finding |
| `multi_target` | exit code, lost scans, end | 3 targets, two of them on one host or one invalid, on one thread or two, each ending in any way |
| `audit_log` | does the log verify, do edits show, is it complete | 3 runs of up to 2 records, 2 edits, 2 contents |
| `shield` | limits kept, nobody limited without cause, saves kept, requests answered | 4 requests of one client over 6 ticks; 3 clients in learn mode with stop, crash and restart; 4 requests against two rules |
| `assurance` | scope, verdicts, remediation, gate | 2 identities, 2 fields, 2 invariants, one of which names no resource, 2 redirects, 2 verifications, 2 approvals |
| `scan_url_findings` | does what a detector found reach the report | found violated, section 5 |
| `command_resolved` | is resolved said by a complete scan only | found violated, section 5 |

### Bounds, and why they are enough

`MaxCalls` and `MaxTime` bound the client's run: there is one call more than
there are permits, so the budget is met by threads in every phase; the clock
moves on by itself up to `MaxTime` and beyond it only while someone sleeps,
which lets slots pile up past two intervals and the Retry-After and the window
end before, at and after them.  Four tasks on two threads give a task that ran,
one that runs, one that is queued and one that is not submitted at the same
time.  The crawler's bounds are per page (`MaxLinks`, `MaxScripts`, `MaxFound`);
a link and a script route of each page give two successors, and five pages in
scope, of which three may be visited, allow cycles, a diamond, a page beyond the
depth limit and one beyond the page limit; the theorems hold for any of these.  In `ScanRun` the
budget is smaller than what the jobs may ask for.  Three commands are what it
takes for a finding to appear, vanish and return; findings do not depend on each
other, so one identity is enough.  Two edits to a log of up to six records are
what it takes to repair a record and its successor; nobody edits a log that two
runs have filled at the same time, as no property says anything of it.  Three targets on two
threads give one finished, one running and one waiting; `MaxLines` is one,
because what a line meets is the stream of its moment.

`Detectors` has no bound but the features: two lengths that no threshold takes
for alike, a fast and a slow answer, a wait of nothing or of four seconds before
it (both together at most `Longest`, enough for the wait alone to make a fast page
slow), and of the statuses those that most detectors tell apart, 200, 401, 404,
429, 500 and 503.  The theorems of section 4 hold for any
set of them, so a status the run leaves out is not a gap.
In `Shield` four requests are one more than the rate and two more than the
burst; six ticks let the first leave the window while others wait for the lock
with times taken before; three savers and the last save meet in every order.  In
`Assurance` one identity is allowed and one is not, which is all a row depends
on; two verifications are what a remediation compares; two approvals give an
approval and its renewal, or one that dies.  The gate judges a report of the first
verification, as contracts are reviewed only between the two (`Idle`).

Symmetry, of runs and of contents, is used in `audit_log` only: no liveness
property is checked there.  The violation runs use the smallest instance in
which the counterexample fits.

### Fairness

`HttpClient`: weak fairness of each thread's steps and of time; the answer of a
request is part of it because connect and read timeouts end every exchange
(`timeout` at 967).  `Scheduler`: weak fairness of the calling thread, of every
worker and of the end of a task, which holds for the same reason.  `ScanRun`:
weak fairness of the calling thread and of each job; a detector sends finitely
many requests, and the model's requests stop changing the state once the budget
is spent.  `Crawler`: weak fairness of its one thread.  `ScanCommand`: a command
that runs goes on; nobody has to start one, and nobody has to kill one.
`MultiTarget`: every command ends, as `ScanCommand` shows, and `main` goes on.
`Shield`: each request's thread goes on, the upstream's answer included, whose
request has a timeout; nothing has to arrive, stop or crash.  `Detectors` and
`Assurance` state none: their properties are safety properties.

Deadlock is checked everywhere except where the system really may stop: workers
that have nothing left to ask for, a gateway without requests, a verification
and a detector that are over, a process that has ended.

## 4. The proofs

| Module | Theorems |
|---|---|
| `HttpClientProofs` | `TypeCorrect`, `SlotSpacing`, `ClearedContacts`, `Exhaustion`, `BackoffStopsThreads`, `Refinement` |
| `SchedulerProofs` | `TypeCorrect`, `Accounting`, `Refinement`, `QueueIsSwept` |
| `CrawlerProofs` | of the crawler: `TypeCorrect`, `CrawlIsBounded`, `ShortestWay`, `NothingForgotten`; of the detectors: `ProbesInvariance`, `QuietOnOnePage`, `FailureIsNoEvidence`, `FailureIsNoBlindness`, `NothingResolvesItself`, `StillPresentIsThere` |
| `ScanRunProofs` | `TypeCorrect`, `HonestCompletion`, `FindingsKept`, `LedgersAgree`, `StagesAreBatches`, `ScanClientSpendsBudget` |
| `ScanCommandProofs` | `TypeCorrect`, `ExposureIsHistory`, `OverlapKeepsFindings`, `PassesAreBacked` |
| `AuditLogProofs` | of the log: `TypeCorrect`, `LogVerifies`, `EditsAreShown`, `QuietLogs`; of several targets: `PassesOfAll`, `FailuresAreLocal`, `PoolIsBatch` |
| `ShieldProofs` | `TypeCorrect`, `Limits`, `CausedLimits`, `KeptSaves` |
| `AssuranceProofs` | `ScopeKept`, `EarnedReports`, `ProvenRemediation`, `JustGate` |

Each holds for every value of the constants that satisfies the module's named
assumption (`ClientAssumption`, `SchedulerAssumption`, `CrawlerAssumption`,
`CodesAssumption`, `TimesAssumption`, `ScanAssumption`, `CommandAssumption`,
`LogAssumption`, `MultiTargetAssumption`, `ShieldAssumption`,
`PolicyAssumption`); TLC evaluates those on every run.  That no status is 101 is
the one that says something of the world: the status is the protocol's answer to
a handshake, so only that probe (`Sites["websocket"]`) can meet it.  None of the
theorems uses fairness.

None of the properties is inductive by itself.

* *Client.*  Contacts are cleared because a permit has one holder and its audit
  entry cannot change once the holder has left `Authorize`: `PermitInv` says
  which worker holds which permit, `DecisionInv` what its phase implies for the
  audit entry.  Slots are spaced because the last slot given out is
  `last_request_time` and all others lie an interval before it (`SlotInv`).  A
  backoff stops a thread after one request because whoever still holds a slot
  inside it has sent nothing into it yet (`StrayInv`), and slots are reserved
  behind it.
* *Scheduler.*  `FateInv` ties a future's state to the outcome recorded for it,
  `LoopInv` says which tasks the caller has passed, `InlineInv` and `PoolInv`
  what only one of the two modes can reach.  `SweptInv`: what the sweep has
  passed is not pending, as only the submission loop puts tasks on the queue.
* *Crawler.*  The queue is sorted by depth and spans at most two depths
  (`QueueInv`): that is why first in first out means shortest path first.
  Closure needs `PendingInv`: each target of a page already read is visited at a
  depth that fits, or still in the queue, or excluded for a reason.
* *Detectors.*  `ProbeInv`: what was reported is the detector's judgement of the
  site, the site has changed since in one answer at most, behind a finding, or
  serves one page everywhere, and each verdict is one the replay can give.  With it the five properties are
  statements about `Judge`, which each detector has by a lemma of its own
  (`Judging_<detector>`: silence on one page, nothing added and little hidden by
  a failure; `Replaying_<detector>`: what the predicate shows of an unchanged
  and of a changed site).  Any statuses and times are allowed, and in place of a
  failed or a changed answer any value at all, which is more than
  `Answers` has.  Detectors that stop at the first hit need the least index that
  hits (`Least`); that a failed probe did not hit leaves a hit where it was, or moves
  it before.  The detectors share a module with the crawler, but neither state nor
  lemmas; their specification is `ProbesInit`, `ProbesNext`, `ProbesSpec`.
* *Run.*  `OrderInv` carries facts from stage to stage: a stage that is past
  left no invocation unsettled and lost none of its findings; `JobInv` says that
  a failure is in the ledger and that a skip needs a spent budget.  The ledger
  and the progress counters differ by the number of invocations that stand
  between their two steps (`CountInv`), and only the current stage has any
  (`PlaceInv`, which also says that the form stage has one at most: that one may
  end the run).
* *Run and scheduler, run and client.*  What a scan does in a pooled stage is a
  behaviour of `Batch`, the specification that the scheduler implements, and what it
  sends through its own client is a behaviour of `RequestBudget`, which the client implements:
  `ScanRun` leaves the threads and the client out, and these two theorems say
  that it gives them no behaviour their specifications rule out.  The batch of stage `s`
  is `Stage(s)`, given back when the scan goes on (`Back(s)`).  `StagesGoOn`
  says that it never takes that back, `OrderInv` that it goes on from a settled
  batch only; for a scan that has raised, `FormsInv` tells whether a form probe
  ended it, before the API stage, or the security model, after it; a crawl that
  raises ends it in a place of its own (`crawl_raised`).  The form stage is no pool
  and skips nothing, so it has no such theorem.
* *Command.*  While a command is between its SELECT and its commit, its
  snapshot is the table unless commands have overlapped (`SnapshotInv`, which
  needs `TurnInv`: then all others are over); lemma `StatusStep` shows that
  adding a scan to the history moves every status exactly as the code's rule
  does.  Exit code 0 is earned step by step: `BackedInv` says what a command at
  each of its steps has already left behind.
* *Audit log, hashes.*  What every run has loaded holds as a chain too
  (`ChainInv`), and lemma `AppendHolds` extends a chain that holds by any number
  of records.  `EditsAreShown` rests on what a hash commits to.  `Record(h, i)` is
  the record that hash `h` fixes at place `i`, and `CommitInv` says that runs wrote
  each of those records for the last hash of the file and of every copy a run has
  loaded; an edit keeps it, because it does not touch the last hash, and so does a
  run that appends to an edited log, because it chains its records on the last
  hash as it is (`ChainedCommits`).  Both theorems leave out logs that two runs
  have filled at the same time: there the code promises nothing (section 5).  In a log that verifies every record is the one
  its last hash commits to (`HoldsCommits`): the lemma follows the chain by the
  least record that is not (`FirstOf`), since induction with an operator for
  parameter is out of reach.
* *Audit log, records.*  Runs in turn lose nothing because what the run under way
  has loaded is the whole file (`LoadedIsFile`), and while the file is empty that
  run alone has the records of all the others (`LoadedHasAll`): `QuietInv`.
* *Several targets.*  `EndedInv` ties a target's outcome to where its command is,
  `ReportsInv` an outcome to the file of the host, `WorstInv` the exit code so far
  to the targets main has collected.  `PoolIsBatch` maps a target from `Enter` to
  `Return` to a running task: the third caller of `Batch`, one that never skips.
  These theorems share a module with the log's, but neither state nor lemmas;
  the two specifications are told apart by `TargetsInit`, `TargetsNext` and
  `TargetsSpec`.
* *Shield, limits.*  `Follows` relates a client's queue to the true times of
  passing: the queue holds, in the order of passing, for each of the last
  requests a time at most `MaxStale` too early, and whatever has left the queue
  is older than the window.  So a request passed within `Window - MaxStale` is
  in the queue, and the queue is no longer than the rate allows (`RateBound`;
  for the burst `BurstBound` counts through the order-preserving shift of
  indices that `MoveCardinality` states); conversely, what is in a pruned queue
  was passed within `Window + MaxStale`, which is the cause `CausedLimits`
  needs.  Entries are out of order, so a young head hides older ones: the
  bound by the wait is what remains true.
* *Shield, saves.*  A thread that has not opened a file yet has its own name
  for a new one free (`Fresh`, in `FileInv`).  While no two saves have
  overlapped (`Orderly`), the one saver under way has the file of the temporary
  name open, and that file is torn before the write and holds all that was
  promised after it; so `Replace` puts a profile in place that loads and
  contains all that was promised before, over any number of restarts.
* *Assurance.*  `FlightInv`, `RowInv` and `ReportInv` say what a row records of
  an answer: a pass is an answer with the expected status, a wrong status is a
  violation.  The reports' statuses follow by cases.  For the gate, `FileInv`
  keeps the bundle between what has ever been granted (its contracts and dates
  are ones an approval gave) and what was granted last (all of it active), also
  for the bundle an approval is about to write.

Only model-checked: the liveness properties (`CallsReturn`, `BatchReturns`,
`CrawlEnds`, `RunEnds`, `CommandsEnd`, `MainEnds`, `RequestsAnswered`),
because neither fairness nor ENABLED can be handled by the prover, and the
violated promises.  Every safety property that a passing run checks is a
theorem.

## 5. Where code and documents disagree

Two of these are runs in which TLC finds the documented sentence violated by
what the code does; the sentence and the lines are quoted in `PROJECT.json`.

1. `scan_url_findings`: findings of URL-level detectors are dropped, because
   their result has status FINDINGS and the stage keeps PASSED.
2. `command_resolved`: an incomplete scan resolves what it did not look for.

Read from the code, kept in the models unless the model leaves the part out, and
without a run of their own:

*Client, crawler, scheduler*

* the testing window is asked before the sleep for a slot (957, 962, 783), so a
  request may be sent after its end, against `README.md:501`;
* a thread that already holds a slot sends inside a backoff announced since (783),
  one request each, as `BackoffHolds` says;
* with a pool, a queued task stopped by the budget never runs and is recorded as an
  error (`CancelledError`, `ersec_scheduler.py:78`), one not yet submitted, and
  inline all, as cancelled: `EveryTaskAccounted` counts the former among the failures;
* `crawl` catches what its requests raise, but not the `ValueError` of an address
  that is none (1087, 1113): one such link ends the scan before it reports;
* routes that a script merely mentions are queued and requested (1148).

*Scan and command*

* the planner of adaptive discovery puts a list into a set (7005) and raises; the
  handler (11092) stores an error that makes every default scan that reached its
  target incomplete;
* a failing form probe, the one that meets the spent budget included, ends the
  command with `RuntimeError` (7372, 11009, 14229), against `README.md:122`;
* with a security model `run()` uses `_result` before it is bound (11189) and
  raises before it reports;
* a report can say completed although the repeatability check, which comes
  after the status, still sends requests (11484);
* the clients that stages build for other identities (6780, 7580, 7712, 9515,
  11159) have `max_requests` each: the target may receive more than the scope's
  limit, and the status does not tell when one of them ran out;
* the baseline is rewritten before anything is reported (14249);
* distances of urls that differ in the query overwrite each other (11289);
* `--control-plane-memory` is parsed (14433) and its value reaches no
  configuration, so no snapshot is ever kept or compared;
* `run_multi_target_scan` (11618), which nothing calls, loses the results of a
  pool when one target raises.

*Several targets*

* `redirect_stdout` in worker threads (16072) replaces one variable of the
  process: lines are lost or appear under another target's prefix, against
  16063-16065; the console may be left replaced by a buffer;
* two targets on one host share a report file, so one's report may be overwritten
  by the other's, against 16038-16043 ("never overwrites one target's report");
* a report that cannot be written ends a target with 1 and maybe without a report
  (14282-14284), Ctrl-C on the main thread with 130;
* one by one, a target that raises ends the run before the rest.

*Audit log*

* overlapping runs overwrite each other's records, and a torn file is taken for
  an empty log (5952-5967), while the log verifies (5803) and 16022 says the
  records were appended;
* the log is rewritten in place: a run that dies while it writes has lost it;
* two runs that fill the file at the same time leave pieces of both texts
  (5966-5967), which may read as a log that does not verify although nobody has
  edited it, or lose records and verify.

*Shield*

* a monitor rule that matches earlier shadows a block rule;
* the expiry of a policy is written and never read;
* `retry_after` is truncated to whole seconds, so a client that waits as told may
  be limited again;
* overlapping saves can leave a profile torn, and one that does not load counts
  as nothing learned.

*Detectors and replay*

* a control request that fails counts as answered in 0.0 s (1803), against the
  comment at 1787-1791; a missing-page baseline that fails lifts the suppression
  it is for; a burst cut short by a failure is still reported as unlimited;
  `security.txt` is reported missing when the requests for it failed;
* the template probe reports any page that holds 49, others any page that
  already shows the error text they look for;
* `verify` says "resolved" of an unchanged site for the findings `Blind` names,
  and "still present" of an exposed file when any page is served in its place;
  the predicate for CORS ignores credentials;
* the replay drops the body of every POST probe and the headers of some (541-546,
  5914), and the evidence of the preflight check is not the answer that shows it:
  of a finding made by POST any verdict may come out, whatever the site does;
* predicates take more than their detectors: "Directory listing for" anywhere (5837;
  2505 wants it in a title), database errors in the answer to any SQL probe
  (5822-5824), any tag of ERSEC's in the answer to any marker probe (5819,
  5827-5829); `Unread` and `Loose` name them;
* the client's own sleep for a slot or a backoff (962, 777-783) counts as the
  page's delay (1238-1240, 1794-1796, 3311-3316): a `Retry-After` that another
  thread meets between two probes makes a finding of a page that ignores both;
* `api_version_drift` looks for a doubled backslash (9421) and never matches;
  the condition on duplicate JSON keys is vacuous; `client_side_credential_leak`
  ignores the status; `backup_artifact_exposure` has no missing-page baseline.

*Assurance and contracts*

* the verifier's own summary is "pass" when nothing was tested
  (`ersec_behavior.py:480`), and the invariant engine's when there are no
  invariants; an invariant that names no resource is not tested by the one and
  judged over all rows by the other, and its contract, `not_tested` for good, is
  skipped by the gate (`ersec_behavior.py:463-465`, 10146-10153);
* a forbidden field passes when the body cannot be read as JSON, and a field
  violation reaches neither findings nor gate;
* the login page at the end of a redirect is judged as the resource's answer;
* a missing credential is "inconclusive" in a scan, which
  `docs/security-behavior-model.md:18` says is `not_tested`;
* a remediation in which only new violations appeared is "unchanged";
* a contract's identity drops port, query and the identity it is about, and an
  old contract is still compared by finding number (10159), against 9970-9972;
* the gate also stops without evidence of a regression, against 10083-10084: for an
  expiry that cannot be read, for a finding number that another finding bears now,
  and for a contract that was drafted as violated (`WithoutEvidence`); a renewal without an expiry keeps the old one; approving from
  drafts drops what the output file had approved before;
* the active bundle is written in place (10075): a death in between leaves a
  file the gate refuses.

## 6. What is not modelled

* **Passive detectors**: each compares one page with constants; a unit test says
  as much as a model.
* **Scoring, deduplication, enrichment, crown-jewel distances, report schema,
  control plane, risk budget**: functions of one finished report.
* **Workspace**: one JSON file that one command loads, merges and saves.  Read
  for its hazards (two ingests at once share a temporary name and lose each
  other's imports; an upsert overwrites the evidence of assets and services,
  operations merge theirs; a failing input saves nothing), and the first part
  that would be worth a module of its own.
* **Assurance kernel, lineage, loop and the other offline analyses**: each turns
  artifacts into one artifact; the stateful and the concurrent planner plan
  requests that nothing in the repository sends.
* **CI, release and roadmap gates**: conditions that do not depend on each other.
* **Contents of requests and responses, report wording and layout, the
  language-model advisor, benchmarks and laboratories**: no property is about
  them.
* **Inside the modelled parts**: telemetry, the events counter and the policy
  file of Shield; the parsing of models, the graphs and the state store around
  `Assurance`; forms, response hashes and statistics of the crawler; the
  remediation queue of the scan command.

What could still be proved: that `ScanCommand` starts from a report `ScanRun` can
give, and `MultiTarget` from an exit code `ScanCommand` can give; both are
assumptions on the inputs of the upper module now.
