# Formal models of ParishKit

TLA+ models of the parts of ParishKit whose correctness depends on the order in
which things happen: the durable task engine of the Stewardship application and
the services that run on it (mail to Families, source refreshes, going live,
publication of answers), and the two command-line tools that keep state between
invocations (the cron runner and the Constant Contact synchronization). TLC
checks them on small instances; TLAPS proves the results listed under "Proofs"
for every instance. Paths below are relative to `src/parishkit/` unless they say
otherwise.

Run a check with `tlc -config Tasks.cfg MCTasks`, a proof with
`tlapm DeliveryProofs.tla`.

## 1. The system

ParishKit has two halves.

**The command-line tools** (`pk_*.py`) are single-process programs that
`pk_cron_runner.py` starts in sequence. They read ParishSoft, compute a
difference and write Google Groups, Constant Contact, calendars or rosters. The
only state they share between invocations is the runner's lock file.

**Stewardship** (`stewardship/`) is a Django and PostgreSQL application made of a
web process, a scheduler, and several consumers (general work, interactive mail,
bulk mail, source refresh, backup). Every piece of asynchronous work is a
`TaskRun` row. A request or the scheduler inserts the row; a hint in a broker
that may lose it wakes a consumer; the consumer claims the row under a lease and
a fencing token, works, and moves the row to its next state. Mail leaves through
a helper process outside every transaction. PostgreSQL triggers check again
what the Python services decide, and are read here as part of the code.

### Inventory

| component | state | operations | talks to | what makes it correct |
| --- | --- | --- | --- | --- |
| Task engine (`stewardship/jobs/storage.py`, `dispatch.py`, `ownership.py`, `models.py`) | `TaskRun` rows: state, attempt, fence, worker, lease, phase, retry command | enqueue, retry, claim, heartbeat, progress, finish, retry later, effect, recover, cancel | every service below | one owner per fence; finished work stays finished; one live run per chain; orphans are recovered |
| Scheduler and hints (`jobs/scanning.py`, `scheduler.py`, `broker.py`) | scan cursors, recently published hints | scan page, publish, suppress | task engine | every actionable row is hinted again |
| Lease renewal (`jobs/lifetime.py`) | monotonic deadline, database lease | renew, extend, retry, give up | task engine, source lease | work stops before the lease does |
| Family mail (`jobs/family_mail_delivery_tasks.py`, `family_mail_dispatch.py`, `family_delivery_process.py`, `delivery_resolution.py`, `schema/delivery*.sql`) | `OutboxMessage`, `ScheduleOccurrence`, the helper process, pause and scope of the campaign, two journals | create, claim, read, park, no-send, submit, launch, settle, conclude, recover, resolve, retry, pause, resume, withdraw, give up, count | task engine, provider, schedule | never sent again while in doubt; what is reported is true; nothing is stranded; one uncertain message per Family; budgets and the daily reserve hold |
| Bulk send (`jobs/family_mail_bulk.py`) | a batch of submissions, its claims | commit batch, send in order, settle each, take turns | Family mail | as above, for a batch that dies half-way and whose leases nobody renews |
| Mail circuit (`family_mail_delivery_tasks.py`, `mail_halt.py`, `mail_halt_clear.py`, `installer_health.py`) | outage pauses, stop marker shared by consumers | trip, follow, wait, clear, lift | Family mail | a stop is shared and never cleared by another halt's clear |
| Schedule planning (`campaigns/family_schedule_planning.py`, `schedule_recovery.py`, `catchup.py`) | schedule revisions, occurrences | plan, select, skip, reconcile | Family mail | each Family gets the selected occurrence, no other |
| Going live (`campaigns/go_live_sequencing.py`, `activation_*.py`, `cleanup_*.py`, `link_tokens.py`, `accounts/go_live_prepare*.py`) | request, cleanup journal, link preparations and token generations | start, clean up, prepare, discard, stop, confirm | task engine, source refresh | gates passed in order; live links never touched; work never stuck |
| Source refresh (`source/`) | source lease, attempts, snapshots, current pointer, slots | request, lease, load, stage, accept, promote, supersede, compact, decide a slot | task engine, ParishSoft | one read at a time; every snapshot built on the one before it; no slot lost; no false alarm |
| Publication (`responses/publication*.py`) | proposed changes, plans, runs, held fingerprints | review, plan, confirm, run, refresh | ParishSoft, source refresh | only approved values are written, once, over what the reviewer saw |
| Cron runner (`pk_cron_runner.py`) | lock file with its metadata, an flock, child process groups | acquire, recover stale, run, time out, signal, release | operating system | one runner at a time; jobs in turn; a run ends |
| Constant Contact tool (`pk_sync_ps_to_cc.py`) | the account's contacts and lists; the report's state file | load, plan, write, report | Constant Contact, ParishSoft | lists converge; opt-outs hold; one report a day |
| Other sync tools, reservation checks, clients, pagination, retry | none between runs | compute differences, fetch pages | external services | the difference applied to the target gives the source |

Unqualified directories in this table are under `stewardship/`. Accounts,
reports, workflows, archive, audit, backup, health, web pages, migrations and
local tooling are listed with their reasons in section 8.

### What is hard to test

* A consumer that stalls past its lease still holds its claim in memory while
  another consumer has claimed the row: everything it still does must fail.
* A consumer dies between two of the seven transactions of one dispatch, while
  its helper goes on talking to the provider; a batch dies half-way.
* The message is read in one transaction and submitted in the next; a pause, a
  withdrawal or another consumer commits in between.
* A deadline kills the helper just before or just after it reported that it
  started to send.
* An Administrator's answer or retry is replayed, or races recovery; a clear
  races the next halt.
* The renewal thread is late, its transaction times out, or it meets an
  extension that the handler has just committed.
* Two processes decide from counts that do not show what the other has on the
  way.
* A refresh is overtaken: its lease lapses, its call comes back late, the scope
  changes, another refresh promotes first.
* A promotion invalidates link preparations while their task runs or while an
  Administrator stops or confirms.
* A publication dies between its PUT and the record of it, while somebody edits
  the same Member in ParishSoft.
* Two runners recover one stale lock; a stale runner releases a lock that was
  recovered meanwhile; a signal arrives inside the wait for a child.

`PROJECT.json` lists each of these at its line with the properties aimed at it.

## 2. Modules

| module | role |
| --- | --- |
| `TaskRuns` | the task engine |
| `HintScan` | the scheduler's scans and hints |
| `LeaseRenewal` | one execution and its lease renewal thread |
| `SendOnce` | abstract specification: what the outbox promises about one message |
| `Delivery`, `DeliveryProofs` | scheduled Family mail; extends `TaskRuns`, implements `SendOnce`; proofs about the engine and the mail |
| `BulkSend`, `BulkSendProofs` | the bulk send; implements `SendOnce` message by message; proofs of both |
| `MailGiveUp` | how long one message is retried |
| `DailyCount` | the daily sending limit and its reserve |
| `MailCircuit` | outage pauses and shared stops |
| `MailProofs` | proofs about `SendOnce`, `LeaseRenewal` and `MailCircuit` |
| `SourceRefresh`, `SourceRefreshProofs` | refresh requests, the source lease, snapshots, promotion; proofs |
| `RefreshSlots` | when refreshes are requested, and the data-age alarm; proved in `SourceRefreshProofs` |
| `GoLive`, `GoLiveProofs` | one go-live request; proofs |
| `Publication`, `PublicationProofs` | one answer's way from review to ParishSoft; proofs |
| `CronLock` | the cron runner's lock file |
| `CronJobs`, `CronProofs` | its jobs; extends `CronLock`; proofs about the lock and the jobs |
| `ContactSync`, `OptOutReport`, `ContactProofs` | the Constant Contact synchronization and its daily report; proofs |
| `MCTasks`, `MCDelivery`, `MCBulkSend`, `MCTruth`, `MCEnds`, `MCProduction`, `MCTools` | instances for TLC, each of one or several components |
| `MCSource` | what `MCTruth` and `MCEnds` share |

An operator called a *mutant* in its comment is a deliberately wrong variant of
the definition after it, used to confirm that a property can fail.

Most MC modules check several components in one run. The components share no
variable, so a behaviour chooses one `part` at the start and takes only its
steps, beside the others' initial state, or beside a reachable state of theirs in
which nothing moves where a liveness property needs it: the run explores the
sum of the parts, not their product, and a property of a component is checked
in every state of its part. An MC module may also tighten the bounds of a part
(`PausedEarly`, `OneEnd`, `Within`, `GoLiveBound`, `CircuitBound`, `OneSignalled`,
`OneMapping`); it replaces no
definition. Fairness in an MC module is the component's own, limited to the part
in which its steps are taken.

### TaskRuns

`run[root][retry]` is a `TaskRun` row: one chain per root, one row per explicit
retry. `held[c]` is the `TaskClaim` a consumer keeps in memory, which may be out
of date; `open[c]` says that the consumer has an effect transaction open, with the
root's lock; `effects` records committed effects with their fence and worker.

| action | code |
| --- | --- |
| `Enqueue`, `RetryFailed` | `jobs/storage.py` `enqueue`, `retry_failed` |
| `Claim`, `Heartbeat`, `Progress`, `Finish`, `RetryLater` | `jobs/dispatch.py`, `jobs/lifetime.py`, `change_run`, with `stewardship_task_state_v1` |
| `BeginEffect`, `CommitEffect` | `Execution.effect` |
| `LetGo` | the consumer dies, or `execute_hint` drops the claim |
| `CancelUnclaimed` | `source/superseding.py` `supersede` and its like |
| `Recover` | `_recover_once` with any of the plans a handler may return |
| `Tick` | the database clock |

Abstractions: leases and waits are counted in ticks; a worker's identity is its
consumer; a row's version number is left out because every transition reads the
row again under the root's lock; progress counts are data; a batch of a bulk
consumer is several consumers; the phases are a constant.

### Delivery and SendOnce

`msg[root]` is the outbox message whose task chain is `root`, `occurrence[root]`
its schedule occurrence, `deferrals` the journaled holds of each run, `job[c]` the
dispatching program of a consumer (`pc` says between which two transactions it
stands), `wire[root][attempt]` the helper process of one provider attempt. All
messages of an instance belong to one Family and one campaign, whose pause and
scope are `paused`, `campaign` and `withdrawn`. `ruledOut` and `answered` are
history variables: attempts recorded as definitely not accepted, and attempts an
Administrator answered for.

A dispatch is `ClaimMail`, `ReadMessage`, then `Park`, `NoSend` and `FinishNoSend`,
or `Submit`, `Launch`, `Settle`, `Conclude`; `HoldBack` and `PreparationFails` leave it
early, `LetGoMail` is the consumer's death at any point, and `Transmit` is the
helper, which goes on regardless. `RecoverMail` combines the task's recovery with
the message's. `AcceptUnknown`, `ConfirmUnsent`, `Resend`, `RetryFailedMail` and
`RetryUnsent` are the Administrator's resolutions; `Pause`, `Resume`, `EndScope` and
`Withdraw` act on the campaign.

Abstractions: each step is one transaction of the code; reading the helper's
answer and recording it are one step, which loses nothing because a consumer
that dies in between is `LetGoMail` before the step. "Coalesced" occurrences are
"skipped". The gates of `FamilyDeliveryHeld` that depend on parts not modelled
(circuit, credentials, restore review) are the nondeterminism of `HoldBack`; the
time budgets of limit and outage refusals are the nondeterminism of `GivesUp`;
the decision of `plan_family` is any subset of the pending messages. Restore
dispositions behave like an ended scope. Resolving messages of a closed and
paused campaign is not modelled.

`SendOnce` has four variables and four steps: start an attempt, the provider
accepts one (however late), an attempt is ruled out, an Administrator answers
for one. An attempt may start only when the one before it is ruled out or
answered for. `Delivery` maps `started` to the message's attempt count and
`accepted` to the attempts whose wire is accepted.

### CronLock

A runner is one invocation; each step is one system call on the lock path. The
file is identified by the runner that created it (`creator`), `written` says
whether its metadata can be read, `guard` is the holder of the flock on the
sibling `.recovery` file, `age` counts from the metadata's `start_time`.
`Start` to `Write` are `LockFile.acquire`; `FinishJobs`, `CheckToken` and `Release`
are the end of the run and `LockFile.release`; `AcquireFails` is any other
`OSError`; `Crash` is a death, or a signal inside `acquire`, at any point. What runs
between them is `CronJobs`. `stale_after` unset behaves as `fail-closed` does.

### HintScan

`state`, `version` and `at` are the due rows; the scheduler's own state is its
cursor, the page being admitted, and `RecentHints` (`recent`, `pending`, `seen`). The rows of a page are an
unordered set: nothing depends on their order. The broker is the freedom of the
consumer: a published hint may lead to a claim at any later time, repeatedly or
never. At most the first row is claimed when an instance starts. The advisory
lock that keeps one scheduler, the bulk worker's drained rows and due-work
health are left out.

### LeaseRenewal

The handler and the renewal thread are two processes over the control object
and the database's lease. Deadlines are the ticks that remain, so the process's
monotonic view can be compared with the database's. The claim's commit
(`ClaimLease`), the start of the thread (`MaintainExecution`) and the thread's first
statements (`RenewerStarts`) are three steps: until the last one `control.lease_end`
is None, which `lease_expired` takes for a lease that runs (`EndUnknown`).
`WorkCovered` therefore speaks of the time after it; what the specification
promises without that proviso is `HardLocalBound`, which fails (section 6).
`Extension` is 0 for handlers that never extend their lease.

### BulkSend, MailGiveUp, DailyCount

`BulkSend` keeps, for each message, its submissions and what their helpers
report, and for each consumer the batch it has committed and how long ago. The
claims of a batch are not renewed: `BulkTiming` states the relation between
the lease, the launch cutoff, the helper's budget and `Stall`, the longest a
consumer is assumed to take from its check to the launch. The code does not
bound `Stall`; `ClaimOutlastsSend` says what follows from a bound. Two bounds are
needed: from a launch at the last moment both the helper's budget and the margin
of a claim must still fit into the lease (`Cutoff + Stall + Helper` and
`Cutoff + Stall + SendMargin`). With the code's values, 240, 150, 30 and 30
seconds, both say that `Stall` is at most a minute. The preparation drain and
prebuilt bodies are left out, and the messages belong to different Families
(`Delivery` has the rule for one Family).

`MailGiveUp` follows the two journals of one message, because the code reads a
limit refusal back from a phase in the other journal. Time is in ticks; failures
for a changed mode, epoch or revision are `Delivery`'s. `DailyCount` has two
processes and their cached counts; it assumes that a batch's recipients fit into
one largest message, which nothing in the code enforces (section 6).

### MailCircuit

`circuit[c]` is a process's `DeliveryCircuit`, the marker file is known by the
identity its creator made for it, `recorded` and `cleared` are the halts and clears in
the database. A process that may clear a halt sees the permission some time after it was
granted. Restarts of the container and failed file operations are bounded.
`TwoProcesses` says that a container has a main process and at most one companion,
as `runtime_process.py` starts them. It is needed: with three, a third process
could put its marker in place while another has the current one aside, and
`StopIsShared` fails.

### SourceRefresh and RefreshSlots

A transaction is one step, and deadlines are Booleans that time may end at any
step; a call that was reserved a deadline ends before it (the timing assumption
the code's `external_deadline` states). A snapshot is named by the source fence it
was read under. Delta requests and an Administrator's retry of a failed refresh
are left out, and compaction changes nothing that a decision reads. The code's
answer to a base that is no longer current is unreachable here: `BaseIsCurrent`
holds in every state. `MaxClaims` is needed because two refreshes can hold each
other off by turns through the retention lease; the deployment runs one source
worker. `truth` starts in a state after a refused load, so that an
acceptance is within reach of its bounds.

In `RefreshSlots` a slot is named by its due time, and the horizon is less than a
day after a nightly refresh. Which slots lie in a Family email's window is
chosen at every read. The go-live hold, failing refreshes (they alarm by
themselves), refusals by the decision guard and the older hourly cadence are
left out. The alarm's `Margin` has to exceed one loop of the producer and the
refresh it asks for.

### GoLive

Every step of the code runs under the work-order lock, so a transaction is one
action. "Waiting" is queued or retry_wait, which every rule here treats alike;
the inputs of a preparation are the number of the source generation; a
promotion and the reconciliation it triggers are one transaction. Manual
preparations, a new request after a stop, restore and purge gates, the
campaign's end and the expiry of a preview are left out. One automatic try and
one explicit retry stand for the code's larger numbers.

### Publication

`rows` are proposed changes of one Member's fields, `plans` the confirmed plans
with their entities, `pf` a preflight, `ps` the Member in ParishSoft, whom others
may edit. A preflight's read is one step. A crash decides what became of its PUT
at once: the external deadline keeps every other worker out until the call is
over. A run that finds the source lease with somebody else spends an attempt and
leaves its plan to the next one, or after the last to an Administrator
(`StartBusy`; it shares its bound with the crashes). A run without its lease
behaves as a crashed one; a plan may expire at any time. Administrator-edited values, By hand and Ignore, parish additions, Back to
review, unusable values and the page's gates are left out or over-approximated
by a free choice.

### CronJobs

Extends `CronLock`: while a runner is "running" it starts its jobs in turn, each
a child in its own process group, waits, tears down on a timeout or a signal,
and releases. A signal may arrive between any two steps; `reaping` says that it
interrupted a wait that holds the Popen's internal lock. Nothing is assumed of
children: they may ignore SIGTERM, hang, or outlive a killed runner. Processes a
child starts itself are not tracked. Running the checks of the configuration
and sending notifications are not modelled.

### ContactSync and OptOutReport

Loading all pages is one step; each write is one step, between which others
may edit the account or the run may abort. The account starts in every state of
the given size. A PUT sends back the `email_address` of the load with its
permission, as an update by the contact: the service may take the permission
over or keep its own (`PutOut`). A salutation with an empty part keeps the stored
part, so the name of an address in `Partial` may stay as it is (`PutNamed`). Contact
deletion, dry runs and notifications are left out.

`OptOutReport` has overlapping runs that reach past midnight, fail and die, with
the state file's flock. A send may raise before the provider has the message
(`SendFails`) or after it (`SendFailsLate`: a refused recipient, a connection lost
after DATA or at QUIT); the report that is out but not recorded is counted in
`unmarked`, with the runs that died there.

## 3. Runs

| run | instance | properties |
| --- | --- | --- |
| `tasks` (`MCTasks`) | 1 chain, 2 consumers, 2 explicit retries, 1 retry command, lease of 2 ticks; hints: 2 due rows, pages of 1, 1 fault | `TaskTypeOK`, `OneOwnerPerFence`, `ChainsSound`, `EffectsFenced`, `HistoryStands`, `OrphanRecovered`; `HintsReach` |
| `delivery_sends` (`MCDelivery`) | 1 message, 2 consumers, 2 runs, 2 provider attempts, withdrawal, pauses before the first attempt, fair | `SendsOnce` (the refinement), `ReportIsTrue`, `NoMailStranded`, `BudgetCountsClaims`, `SubmissionEnds` |
| `bulk` (`MCBulkSend`) | a batch of 2 messages, or 2 consumers taking turns at 1; one execution's lease with an extension; one message's retries; the daily limit of 2 processes | `BulkSafe`, `BulkSendsOnce`; `LeaseSafe`; `GiveUpSafe`; `DailySafe` |
| `truth` (`MCTruth`) | refreshes: 3 requests, one refused before, 2 workers, 2 scopes, acceptance; slots: horizon 3, 1 send, 1 pause, changed schedule; mail: 2 messages of a Family, 2 consumers, every campaign event | `SourceSafe`; `SlotsSafe`, `SlotsKept`; `DeliveryTypeOK`, `OneUncertainPerFamily`, `OccurrenceAgrees`, `PauseHoldsUnsent` |
| `ends` (`MCEnds`) | refreshes: 1 request, 2 workers, 2 attempts, fair; slots: horizon 7, steady and prompt producer; circuit: 2 consumers, 2 halts, a restart or a failed file operation, fair | `EveryRequestEnds`; `NoFalseAlarm`; `HaltSafe`, `StopsHold`, `MailResumes` |
| `production` (`MCProduction`) | publication: 1 Member in five parts (2 fields, new answers, 2 plans, 3 values, mode switches), fair; go-live: 1 cleanup item, 2 Families, 2 preparations, 2 attempts, 3 generations, fair | `PublicationSafe`, `WritesSafe`, `PublicationEnds`; `GoLiveSafe`, `GoLiveMoves` |
| `tools` (`MCTools`) | contacts: 2 addresses, one new, 3 lists, 2 of them targets, 1 edit, 1 aborted run; report: 2 runs, 2 days of 1 mapping or 1 day of 2, 1 death, 1 late failure; cron: 2 invocations, recovery at once, 2 jobs, one with a timeout, 1 signal, fair | `ContactSafe`, `ContactsKept`; `ReportSafe`; `LockSafe`, `JobsSafe`, `RunEnds` |
| `jobs_signal` (`CronJobs`) | 1 invocation, no timeouts | `SignalEndsRun` is violated |
| `give_up_cap` (`MailGiveUp`) | one message, 4 outcomes, a cap of 2 ticks | `CapInAnyCase` is violated |
| `opt_out_kept` (`ContactSync`) | 1 address, 1 list, 1 edit | `NeverResubscribed` is violated |
| `report_once` (`OptOutReport`) | 2 runs, 1 mapping, 1 day, no deaths | `OncePerDay` is violated |
| `lease_bound` (`LeaseRenewal`) | one execution, lease of 2 ticks | `HardLocalBound` is violated |

The last five state what the repository's documents say and are expected to
fail; section 6 says why.

Properties that are conjunctions name their parts, and each part carries its own
comment:

* `ChainsSound`: `OnlyLatestLives`, `CommandBindsOnce`. `HintsReach`:
  `SuppressionEarned`, `HintedAgain`.
* `BulkSafe`: type, `ClaimOutlastsSend`, `PauseStopsBatch`, `BulkReportIsTrue`.
  `LeaseSafe`: type, `WorkCovered`, `LeaseKept`, `SourceNotRevived`. `GiveUpSafe`:
  type, `HistoryIsTrue`, `FailureIsEarned`, `PastCapOnce`. `DailySafe`: type,
  `FamilyKeepsReserve`.
* `HaltSafe`: type, `OneHalt`. `StopsHold`: `StopIsShared`, `OnlyItsClearLifts`.
  `MailResumes`: `ClearLifts`, `PauseLifts`.
* `SourceSafe`: type, `OneReadAtATime`, `TruthIsAChain`, `BaseIsCurrent`,
  `OutcomeIsPublication`, `AcceptedAsReviewed`. `SlotsSafe`: type, `ShortcutAgrees`,
  `HungAlarms`. `SlotsKept`: `DecisionsKept`, `HeldCaughtUp`.
* `GoLiveSafe`: type, `OneStaging`, `LiveLinksKept`, `ReleasedAfterWorker`,
  `StopLeavesOwner`. `GoLiveMoves`: `StopEnds`, `PrepareMoves`.
* `PublicationSafe`: type, `PublishedIsHeld`, `WritesOnce`, `OneOpenChange`,
  `QueuedHasOwner`, `CompleteIsFinal`, `WritesListed`, `WritesApproved`. `WritesSafe`:
  `OthersKept`, `MismatchIsLast`, `NewestIsWritten`, `NoBlindOverwrite`.
* `ContactSafe`: type, `QuietRunSyncs`. `ContactsKept`: `UndoingNeedsEdit`,
  `OptOutAtLoadHolds`, `Mended`. `ReportSafe`: type, `RepeatNeedsLostRecord`,
  `EndedMeansReported`.
* `LockSafe`: type, `OverlapNeedsStaleRunner`, `RecoveryRemovesStale`. `JobsSafe`:
  type, `JobsOverlapOnlyAfterLoss`, `JobsInTurn`.

Bounds. Two consumers are enough for a lost lease and its successor; a chain of
three runs for a retry command replayed after a later one; two provider attempts
for a resend of an uncertain one; two messages of a Family for one overtaking the
other; two halts for a clear that meets the wrong one; two snapshots after a
refused one for a promotion that overtakes another; two preparations for a stale
one that must go. A lease of two ticks lets a renewal happen in the middle of
one; one tick everywhere else lets every timer run out in every state. With
`StaleAfter` 0 every lock may be found stale at once. `Controls` bounds the campaign
events of an instance; `MaxRetry`, `MaxAttempt`, `MaxSend`, `MaxFences`, `MaxClaims`,
`MaxPlans` and their like bound the length of a history, for which the code has
no limit, `MaxDeaths`, `MaxUnmarked`, `MaxMarkerFaults` and `MaxCrashes` the failures;
`MaxTries`, `MaxAttempts` and the limits of `DailyCount` are the code's own
constants at smaller values.

The tightened parts keep one cause of trouble at a time where the product of two
is out of reach: a pause or a provider attempt for one message (`truth` has both
for two), a withdrawn message or an ended campaign, a restart of the container
or a failed marker operation, an edit or a crash for an answer with two fields,
a second attempt, an explicit retry or a lost authority in a go-live, one runner
that is signalled, one consumer that meets sending limits. The circuit and the
go-live also pass with both together, in runs of their own that take longer.

Runs whose bounded history can be used up say `CHECK_DEADLOCK FALSE`; the system
too stops when there is no work. Where it must not stop, a liveness property
says so (`GoLiveMoves`, `RunEnds`, `EveryRequestEnds`, `PublicationEnds`).
Interchangeable processes are symmetric in the runs without a liveness property.

## 4. Fairness

| specification | assumed | because |
| --- | --- | --- |
| `TaskFair` | the database clock advances; recovery of a run that stays recoverable commits | the scheduler scans for expired leases on every pass and hints them again |
| hints in `MCTasks` | the scheduler's loop goes on; windows end | `serve_scheduler` loops for ever; windows are clock times |
| `DeliveryFair` | as `TaskFair`; a consumer that lives and keeps its lease settles its submission | `family_delivery_process.py` kills the helper at the deadline, so an answer always comes |
| `CircuitFair` | idle passes, identification, file steps and admission go on; a pause ends | every consumer loops with a timeout; pauses are clock times |
| `SourceFair` | workers, claims, scans and lapses go on; a load that is tried again and again finishes (strong fairness) | loads are bounded by the budget of their calls, and the bounded faults run out |
| `GoLiveFairness` | workers, recovery, the producer and refreshes go on | tasks of the engine and the scheduler's loop; nobody is assumed to click |
| `PublicationFair` | a run and a plan being made go on | one worker, one request |
| `ContactFair` | a synchronization that runs goes on | one process |
| `JobsFairSpec`, `MCTools` | a runner that can proceed does | one process; nothing is assumed of children |

Nothing is assumed of claims, of helpers, of Administrators or of a process's
survival. The bulk send is checked for safety only.

## 5. Proofs

TLAPS checks these for all values of the constants that satisfy the named
assumptions (distinct "nobody" values, natural bounds, the phases the engine
itself uses). None of the properties is inductive alone; each proof is built
on an invariant that adds what the actors in between may still rely on.

**DeliveryProofs, the engine.** `TypesHold`, `ChainsAreSound`, `FencesHaveOneOwner`,
`EffectsAreFenced`, `HistoryIsImmutable`. `TaskInv` adds what a claim in memory can
still say about its row (`ClaimsBehind`: its fence is never ahead, and at equal
fences the worker is the claimant), that an open effect transaction has the
row's current claim and the root to itself (`OpenOwned`, `OneOpen`), that recorded
effects never run ahead of the fence (`EffectsBehind`), and that a row not yet
created is blank (`AbsentBlank`). Owner moves and service moves reduce to one
lemma on replacing a single row under the root's lock (`MoveKeepsInv`), creation
to another.

**MailProofs, the contract.** `DuplicatesAreConsented`: in the abstract specification, a
message accepted by two attempts was answered for by an Administrator in
between.

**DeliveryProofs, the mail.** For any number of messages, consumers, retries, pauses and
provider attempts: `MailTypesHold`, `PausesHoldUnsent`, `OccurrencesAgree`,
`UncertaintyIsAlone`, `MailIsNotStranded`, `ReportsAreTrue`, the refinement
`MailSendsOnce` (`DeliverySpec` implements `SendOnce` for every message, so
`DuplicatesAreConsented` is the promise to the Family), and `MailKeepsHistory` (the
engine's `HistoryStands` survives the composition). The invariant `DeliveryInv`
contains the engine's `TaskInv` and adds

* `MailOK`: the shape of each message in each state, with its occurrence and hold;
* `RunsFollow`: which task runs can stand beside a message in each state. It says
  that the run that submitted an attempt is the run that ends it, and it is
  what makes `NoMailStranded` inductive;
* `LedgerOK`: the last attempt of an unsent or failed message is ruled out or
  answered for, a ruled-out attempt has no helper that could still deliver it,
  and no helper exists beyond the last attempt. It carries the refinement;
* `FlightsOK`: a dispatching program that has submitted holds the claim and the
  attempt it thinks it holds, or its message has moved on without it;
* `NoneOpen`: mail handlers open no effect transaction, so the engine's steps
  between `BeginEffect` and `CommitEffect` do not interleave.

Each action has one step, with one step below it for each conjunct it can
disturb; actions that only change the engine go through the engine's lemmas.

**BulkSendProofs.** `BulkIsSafe` and the refinement `BulkKeepsSendOnce` (`BulkSpec`
implements `SendOnce` for every message), for any number of messages, consumers
and submissions, any size of batch and any timing with `BulkTiming`. `BulkInv` adds

* `StageOK`: where a consumer is in its batch in each stage, and how late it can be
  there. A launch that passed the check ends before `Cutoff + Stall`, its helper
  `Helper` seconds later;
* `ItemOK`: for each committed item, what its result says about its helper, and
  that until the lease has run out since the commit, the message still
  has the item's attempt, with a lease that covers the rest (`ClaimKept`). This
  and `StageOK` give `ClaimOutlastsSend`;
* `OneItemPerAttempt`: no attempt is in two batches or twice in one. Without it a
  consumer that settles late could write its outcome over another's;
* `LedgerOK`: as in `Delivery`, which attempts are ruled out or answered for. It
  carries the refinement.

The second bound on `Stall` in `BulkTiming` came out of this proof: without it, a
margin larger than the helper's budget let a launch begin inside the margin.

**SourceRefreshProofs.** `SourceIsSafe`, for any number of requests, workers,
windows, faults and changes of scope. `SourceInv` adds

* `CallsOK`: a request to ParishSoft in flight is the lease's own and under its
  reserved deadline, so a lapse of the lease cannot overtake it;
* `ClaimOK` and `FenceOK`: what a worker in each stage may still assume of its
  request and of its snapshot. They speak of the row only as long as the worker's
  fence is the newest, and of the snapshot's own states for ever;
* `OneWorkerPerClaim` and `OneWorkerPerFence`: two workers never act under the same
  claim or the same source fence, however many have been given up;
* `OpenOnCurrent`: the open snapshot of the newest fence was begun on the current
  corpus. It makes `BaseIsCurrent` and `TruthIsAChain` inductive;
* `RefusalOK` and `AcceptedOK`: the newest refused load was compared with the
  corpus that is current now, and an acceptance that was used names a refused
  load that is no longer the newest;
* `OutcomeOK`: what a request's outcome says about its snapshot.

TLC checked the invariant on instances with 0.7 and 1.9 million states first.

**SourceRefreshProofs, the slots.** `SlotsAreSafe` and `SlotsAreKept`, for every pair of
schedules and every margin, allowance and lead, and without any assumption on how
often the producer runs or how soon a refresh promotes. `SlotsInv` adds

* `CatchUpOK`: the catch-up slot has no tick, no decision and no pass that read it as
  due before the schedule changed, and no email's window ever skips it;
* `SkippedNeverRan`: kept although a pass may act on windows it read long before;
* `DroppedWereDue`: a held slot that the new schedule dropped had fallen due under
  the old one. `HeldIsMadeUp` rests on it: such a slot is no longer listed, so only
  the catch-up can make up for it, and `catch_up_at` finds it due.

That a set of due times has a least and a greatest member (`MinIs`, `MaxIs`) comes
from the library's theorem on well-founded orders. TLC checked the invariant on
the instance of `truth` first.

**MailProofs, the halts.** `HaltIsSafe` and `StopsAreHeld`, for any number of halts,
clears, restarts and failures and at most two processes (`TwoProcesses`). `CircuitInv`
adds that identities are made one after another (`Numbered`), where a process
can be with a stop or a halt in hand (`PlaceOK`), that an identity being written is
nobody's halt yet (`WritingOK`), and the point of it, `MarkersKept`: unless a marker
file could not be written, a halt that still holds a process has its marker in
place, or the other process has it aside and nothing has taken its place. A
process about to delete what it has aside has read that halt's clear, and one
that finds the place taken when it puts a marker back drops one that holds
nobody any more. TLC checked the invariant on an instance with a million states
first.

**MailProofs, the lease.** `LeaseIsSafe`, for every lease, margin, pause and extension
and any delay of the two threads, the delay of the thread's start included:
`WorkCovered` holds from its first statements on. `LeaseInv` adds that what the
process believes never exceeds what it was told is committed (`Confirmed`), that
before the first claim there is nothing to lose (`Unclaimed`), what a renewal (`RenewalAsks`) and an
extension (`ExtensionAsks`) in flight will have committed at least, by the time
they report, and that a source claim is only released with the lock held
(`SourceSteady`). The point is the last two: a report comes any number of ticks
after the commit, and the process counts from before it.

**CronProofs, the lock.** `LockIsSafe`, for any number of invocations. `LockInv` adds that
whoever recovers has found a stale lock and may remove it (`RecoveryIsDue`), that
between the second read and the unlink the path can only lose the file that was
read (`RemovesWhatItSaw`, by the flock), and that as long as nothing can be
recovered every holder finds its own file at the path (`HolderHasFile`). The last
depends on staleness being permanent (`StaleForGood`).

**CronProofs, the jobs.** `JobsAreSafe` and `JobsKeepLock`, for any number of invocations,
jobs and signals. The lock's invariant is not enough for the composition: a
signal turns a runner back from its release to the teardown of its jobs.
`JobsInv` adds where a runner's children can be in each stage (`RunOK`, `TurnsOK`) and
that a killed runner's file stays at the path as long as its child may live and
nothing was recovered (`FileKept`).

**GoLiveProofs.** `GoLiveIsSafe`, for any number of Families, Testing rows,
preparations, attempts, claims and promotions. `GoLiveInv` adds what the state of
a preparation's generation says about its sealed links and its two tasks
(`RowOK`: while it is built links are missing, once ready its task has succeeded,
once active nobody discards it), that a waiting task always has a claim left
(`HasClaim`), that a stop leaves every preparation disposed of or discarded, and
that the request is activated exactly when a generation is active, on the inputs
of the current promotion. A worker's transaction, its recovery and a discard
reduce to one relation on a single preparation (`Follows`), and the few steps that
make, confirm or invalidate preparations are proved on their own.

**PublicationProofs.** `PublicationIsSafe` and `WritesAreSafe`, for any Members, fields
and values, and any number of answers, plans, runs, edits, mode switches and
crashes; of the code's numbers only that an entity is attempted at least once
(`ATTEMPTS`). `PublicationInv` adds

* `RowsOK`: an open change is the newest of its field, and of a listed Member it
  knows the promoted value. `OneOpenChange` and `NewestIsWritten` rest on it;
* `PlansOK` and `PreflightOK`: a plan names changes of its Member and plans to write
  what they say, and a change that still has the version a preflight read is as
  it was read, so the version check at recording and at the write is enough;
* `RunOK`: the run works on unfinished entities of confirmed plans only, and its
  closing list still has all that is left of its own plan. It gives
  `CompleteIsFinal`, and keeps `QueuedHasOwner` through every outcome and crash;
* `PutOK`: what a PUT about to be sent rests on: the record read right before, equal
  to the confirmed one, and for each written change the value it may replace;
* `Unedited`, as long as nobody edits ParishSoft itself: what the run's read, the
  preflight's reads and the promoted data know of ParishSoft.

The last is the hard one. The Family may answer a field again while its PUT is
under way, and the new answer may be shown as Updated later: the PUT must not
undo a value that is already reported as held. It cannot, because a new answer
differs from the promoted value, and the promoted value is what the PUT replaces
(`PutLands`). That the planner, run again from the fresh record, agrees with the
confirmed plan gives the same facts for every written change (`ConfirmedAgain`).
TLC checked the invariant on the run's instances first.

**ContactProofs, the synchronization.** `ContactsAreSafe` and `WritesAreModest`, for
any contacts, lists, limits, edits and interrupted runs. `ContactInv` adds how far
the run has come with each contact that nobody else edited since the load
(`Tracked`: as loaded, posted, or as the plan wants it, permission included), and that everything left
to do follows from the plan (`PlanHolds`). The point is the contact that needs
both a POST and a PUT: the PUT is built from what was loaded, and must not undo
what the POST did.

**ContactProofs, the report.** `ReportsAreSafe`, for any number of runs, mappings, days
and deaths. `ReportInv` accounts for every email that was sent (`Accounted`): it is
recorded in the state file, or a run that holds the flock has sent it and not
recorded it yet (`InHand`), or a run failed or died in between. A run sends only what its
state says is new (`SentIsNew`) and has recorded or passed every mapping before
the one it is at (`PassedRecorded`).

**Model-checked only.**

* Liveness: `OrphanRecovered`, `HintsReach`, `SubmissionEnds`, `MailResumes`,
  `EveryRequestEnds`, `GoLiveMoves`, `PublicationEnds`, `RunEnds` and `Mended` in
  `ContactsKept`. The prover does not handle fairness.
* `BudgetCountsClaims` of `Delivery` and the safety properties of `HintScan`,
  `MailGiveUp` and `DailyCount`. The last two fold over a journal or a batch, which
  needs induction over data.
* `NoFalseAlarm` of `RefreshSlots`. It is a matter of proportions and not true for every
  value of the constants: a schedule saved, or a delivery paused, between the reads
  of a pass and its lock makes that pass request nothing, and here the next pass
  comes a whole time unit later. With `Margin` equal to `Lead` one saved schedule is
  enough for an alarm; with a denser schedule than the run's, so is one pause just
  when a long hold ends. The code's margin and lead are both half an hour by
  default, a load takes 7 to 17 minutes (`send_hold.py`), and the next pass comes
  seconds later; the run leaves that slack as one unit of margin beyond the lead.
  It holds there with three pauses too.

## 6. Findings

* `jobs_signal`: `handle_signal` runs inside the `process.wait` it interrupts. A wait
  without a timeout holds the Popen's internal lock while it blocks, so the
  handler's own wait for the killed child never returns: the runner never ends
  and its lock file stays. The specification promises that on a signal it
  terminates every child, releases every lock and exits.
* `give_up_cap`: `budget_spent` returns before it looks at `LIMIT_GIVE_UP_ABSOLUTE`
  when no limit run has begun. A message that outages have kept past the cap, and
  whose next outcome is a limit refusal, is deferred once more and fails at the
  one after. Comment, docstring, specification and guide all say that the cap holds in any
  case. `PastCapOnce` in `GiveUpSafe` says how far past it a message can get.
* `opt_out_kept`: opt-outs are filtered from the contacts as loaded. Whoever opts
  out between the load and the write is still put on the target lists by the
  POST, and a PUT sends the old permission back. The specification says that an
  opted-out person is never re-added or re-subscribed. `ContactsKept` says what
  holds: the opt-outs of the load do.
* `report_once`: `GoogleWorkspaceSMTPProvider.send` raises also after the server took
  the message, and the run ends before it records the report, so the next run of
  the window sends it again. The specification says at most once per local day.
  `RepeatNeedsLostRecord` counts what can be repeated.
* `lease_bound`: `maintain_execution` lets the handler go on as soon as the thread is
  started, and until the thread has assigned `lease_end`, `check()` admits work
  after the claim's lease. The specification calls the local bound a hard one.
  The database's fence still refuses such work's effects.

Observations made while modelling, each visible as a reachable behaviour of the
module named; the properties above are stated so that they hold beside them.

* `CronLock`: `LockFile.release` compares the token and unlinks the path in two
  steps outside the flock; a runner whose lock went stale in between can delete
  the next runner's. `OverlapNeedsStaleRunner` allows for it.
* `CronLock`: the lock file is created empty and filled afterwards. A runner that
  dies in between leaves a lock that is refused at any age.
* `CronJobs`: `_terminate_process` looks only at the child; a process of its group
  that ignores SIGTERM outlives the timeout once the child has ended.
* `MailCircuit`: `_follow_shared_stop` tests for the marker and reads it afterwards.
  If the halt is lifted in between, the consumer stops with no identity that a
  clear could name, until a restart or another halt.
* `LeaseRenewal`: `_renewed_seconds` forgets an extension before the renewal that
  replaces it commits, so work may be given up although its lease still runs.
* `MailGiveUp`: the refusal that gives a message up is not spared from the attempt
  budget after a staff retry; a bulk release without a launch starts the limit
  clock.
* `DailyCount`: what a process cannot see is not one message but the other's whole
  batch. The reserve holds while a batch has no more recipients than the largest
  message.
* `GoLive`: a refused request is known only to the scheduler, so the page goes on
  saying that work is under way; a cleanup task whose worker died after its last
  commit stays abandoned once Production is confirmed.
* `RefreshSlots`: a held slot is not caught up when the skip setting is turned off
  during the hold (`HeldCaughtUp` is stated for passes with the setting on).
* `Publication`: a run refused outside Production mode leaves its plan's entities
  open, and they block later plans until Run again or a later sweep.
* `Publication`: a run that meets a busy source lease counts against `MAX_RUNS` like
  one that failed.
* `ContactSync`: an operator's edit of any list of a contact between the load and
  the PUT is lost, for good where the list is outside the configuration. A
  salutation with an empty part is planned as a change of name at every run when
  the stored part differs from it.

## 7. Plan

Done: the modules of section 2, and the proofs of section 5. Next: pure
algorithms against reference definitions, `plan_recovery` of the schedule, the
differences of the sync tools, pagination.

## 8. Not modelled

Not modelled although it has state: schedule planning (`plan_family`'s decision is
a free choice in `Delivery`), the boundaries at the start and the end of a
campaign, catch-up and restore, rotation of link keys, delta refreshes, the
first loading at setup, the Google Group tool. Receipts, tests of chosen
Families, report mail and operational notices go through the same outbox with
other routing and are not modelled separately; neither are partial refusals of
recipients.

Left out for good: web pages and forms (presentation over the services above),
reports, rosters and queries (formatting of one snapshot), accounts and sign-in
(checks within one request), workflows, migrations, local tooling, configuration
and logging (parsing and wording), backup, restore, supervision and health
probes (operating-system programs), and the thin clients of Google, Microsoft
and Constant Contact.

The modelled code is a few per cent of the repository's lines. Most of the rest
is initial migrations, pages, command-line parsing, reports and their tests, in
which nothing depends on the order of events.
