# TailState in TLA+

TailState watches a Tailscale tailnet: it polls the control plane's inventory,
compares every answer with a stored baseline, records the differences and tells
the operator through notification destinations. It is one Go process over one
SQLite file. This directory holds TLA+ models of the parts of it where the order
of events matters, the TLC configurations that check them on small instances,
and TLAPS proofs for every instance.

Paths below are relative to `src/internal/` of the repository.

## 1. The system

### 1.1 How a change becomes a notification

    webhook request --> webhook_triggers --+            timers
                         (durable queue)   |              |
                    \--> fast-path channel-+--> scheduler loop --> poll
                                                                    |
         collector answers, one per API endpoint                    v
         --> ApplyBatch: one transaction that reconciles snapshots,
             records an event batch, appends it to the evidence ledger and
             inserts one outbox row per destination
                                                                    |
      destinations <-- delivery worker <-- outbox (durable queue) <-+

Three goroutines do the work: the scheduler loop (`monitor/scheduler.go`), the
delivery worker (`monitor/delivery.go`) and the retention worker
(`monitor/cleanup.go`); checkpoint and expiry workers run beside them. The web
handlers run concurrently with all of them. They share the database and the
fast-path channel. The store has a single SQLite connection, so every store
method that opens a transaction is atomic with respect to the others; the
hazards lie between transactions: what a goroutine read, leased or decided in
one and acts on in a later one.

### 1.2 Inventory

| Component | State | Operations | Hard behaviour | What makes it correct |
|---|---|---|---|---|
| Notification outbox (`store/outbox.go`) | `outbox` rows with status, attempts, next attempt, first attempt, lease and lease token | enqueue, claim, renew, release, delivered, retry, retry of dead letters | leases that run out, batch claims, per-destination ordering, the 24-hour horizon | one owner per row, oldest first per destination, never delivered unsent, always settled |
| Delivery worker (`monitor/delivery.go`) | claimed items, failed destinations of the pass, one lease goroutine per item | claim, send, settle, release | a send that outlives its lease, bookkeeping that fails after a send, crashes | no outcome of a lost lease is recorded |
| Destinations and routing (`store/destinations.go`, `routing.go`) | destinations, soft-deleted; routing rules | save, enable, disable, delete | rows in flight while a destination closes | nothing live at a closed destination |
| Settings and generations (`store/settings.go`) | one row, `generation`, `revision` | save, identity change | polls and sends under way when the identity changes | nothing of the old identity is delivered or stored as the new one's |
| Retention (`store/status.go`, `monitor/cleanup.go`) | cutoffs, a pass budget, escalation and backoff | one transaction per phase and slice | phases that overtake one another between budgets, rows that others hold | only settled rows go; a lapsed row does not stay live |
| Webhook triggers (`store/webhooks.go`, `monitor/triggers.go`, `web/webhook.go`) | `webhook_triggers` rows; channel and overflow queue in memory | record, announce, fast claim, durable claim, complete, retry, dead-letter | fast path racing the durable queue, joined polls, stale settings, dropped requests | completed only if reconciled, one owner, always settled |
| Scheduler (`monitor/scheduler.go`, `engine.go`) | loop position, revision in use, two timers | reload, serve triggers, select, scheduled polls | starvation of timers by triggers and of triggers by retries | timers are served |
| Poll and collector health (`monitor/poll.go`, `store/snapshots.go`) | `collector_state`, `snapshots`, removal-guard marks | collect, record failures, apply batch, queue health notices | partial answers, mass disappearance, transient 403/404, a crash between a batch and its notice | no removal on one absence, no event before a baseline, one unhealthy notice per episode |
| Evidence ledger (`store/signing.go`, `evidence.go`, `evidence_verify.go`, `audit.go`) | a hash chain of entries, its head, the backfill's cursor and mark; a signing key | append with each event batch, backfill at start, export in parts, verify, audit | a backfill that dies between chunks, readers of several statements beside retention, caps that shorten a part | one entry per authorised batch, what is signed verifies, parts cover everything once, no alarm over a stored batch |
| Checkpoints (`store/checkpoint.go`, `monitor/checkpoint.go`) | destination, last sequence sent | choose, clear, enqueue when due | off, on again and a restart between | no sequence twice |
| Change model and severity (`model/`) | none | differences of two documents, their severity | lists with, without and half with ids, null against empty, a cap on the fields | the fields account for the snapshot, severity is that of the worst difference |
| Change attribution (`store/attribution.go`, `model/attribution.go`, `monitor/attribution.go`) | `last_success`, guard marks | search window, two passes, ranking | changes recorded long after they were made, entries made during the read | credit goes to an edit that made the change |
| Expiry reminders (`expiry/expiry.go`, `store/expiry.go`, `monitor/expiry.go`) | warning state per key | plan, commit warnings with their messages | thresholds that pass while the process is down, keys that are renewed | one reminder per threshold, none for a gone key |
| Sessions, login, challenge, API tokens, administrative trail (`store/auth.go`, `sessions.go`, `api_tokens.go`, `admin_audit.go`, `web/`) | administrator, one-time tokens, sessions, API tokens; in memory: challenges spent, throttle, secrets waiting | claim, log in, reset, change password, create and revoke tokens, sign out | requests that checked something and act on it later, caches that forget, a process that stops between a change and its record | what is to be used once is, a password change ends what was before it, changes are on record |
| Database lifecycle, backup, compaction, re-keying (`store/store.go`, `migrations*.go`, `backup.go`, `compact.go`, `rekey.go`, `lock_*.go`, `cmd/tailstate/main.go`) | the file, two file locks, schema version, migration progress, the key each value is sealed under | open, migrate, record, back up, compact, re-key, inspect | a crash between any two transactions, commands beside the service, a file replaced under an open handle | one key, a version that grows, every commit kept, no step half done |
| Tailscale client (`tailscale/`) | OAuth token, device list of the poll, detail attempts | get with retries, page walk, fan-out over devices | workers that share a token, a budget and a list; cuts by deadlines and by one another | what is reported complete is whole, the real cause is named, nobody starves |
| Senders, pages, metrics | none that outlives a request | HTTP in and out | modelled as free choices of outcome | – |

`PROJECT.json` lists every component with its files and the reason where it is
not modelled, and every hazard with its line and the properties that watch it.

## 2. Modules

| Module | Models | Kind |
|---|---|---|
| `Outbox` | the outbox table, destinations, event batches as far as the queue reads them, delivery workers, retention | state machine |
| `OutboxMC` | instances for TLC | model values |
| `OutboxProofs` | leases, closed destinations and the identity switch; then the life of a notification: order, honesty, settled rows | proofs |
| `Triggers` | the trigger table, the fast path, the scheduler loop, trigger polls | state machine |
| `TriggersMC` | instances for TLC | model values |
| `TriggersProofs` | theorems about `Triggers` | proofs |
| `Collectors` | polls, collector health, snapshot reconciliation and its guards | state machine |
| `CollectorsMC` | instances for TLC | model values |
| `CollectorsProofs` | theorems about `Collectors` | proofs |
| `Changes` | one device as a collector describes it, the audit log, differences, severity and attribution | state machine |
| `ChangesMC` | documents to start from | model values |
| `ChangesProofs` | theorems about `Changes` | proofs |
| `Evidence` | the ledger, its backfill, exports, verifier and audit, and retention beside them | state machine |
| `EvidenceMC` | batch contents | model values |
| `EvidenceProofs` | theorems about `Evidence` | proofs |
| `Access` | requests of the web interface up to and after authentication | state machine |
| `AccessMC` | requests | model values |
| `AccessProofs` | theorems about `Access` | proofs |
| `Vault` | what a database promises | abstract specification |
| `Database` | the processes that share the file, their locks, migrations, copies and keys; implements `Vault` | state machine |
| `DatabaseMC` | databases to start from | model values |
| `DatabaseProofs` | theorems about `Database`, and that it implements `Vault` | proofs |
| `Client` | the client's token, one GET, the page walk and the fan-out | state machine |
| `ClientMC` | device lists | model values |
| `ClientProofs` | theorems about `Client` | proofs |

### 2.1 Conventions

*Atomicity.* A store method that runs in one transaction is one action; a
goroutine that calls several has one action per call, and what it keeps between
calls is in a variable (`claims`, `sent`, `failed`; `proc`).

*Time.* Nothing in the code compares absolute times across rows, only a column
with "now". So a row keeps the ticks that are left (`wait`, `lease`) or have
passed (`age`, up to the longest limit anything compares it with), and `Tick`
moves them all. This keeps the state finite without a bound on the clock.

*Mutants.* Some definitions come twice: the form the code has and, before it and
marked `(mutant)`, a form with a plausible slip (a dropped guard, a check that
was forgotten). The mutated form is used by no run as it stands; it documents
which slip the property would catch.

*Composition.* The components meet in the database, and each module models the
tables another one writes as far as it reads them: `Outbox` has event batches that
`CleanupBatch` removes, `Triggers` has polls that store collectors, `Changes` has the
snapshot row, its missing mark and the guard of `Collectors`, and `Evidence` appends
an entry in the action that records a batch. `Database` has them all as rows of one
file, and implements `Vault`.

### 2.2 Outbox

One row of the table is a record `[dest, batch, status, attempts, wait, age, old,
lease, token, reason]`: the columns of `outbox`, with `last_error` reduced to
whether it is the identity text `retryableDeadOutbox` looks for. `claims` is what
workers hold in memory; a claim keeps the token it was given, and `Owns` is the
WHERE clause `status='processing' AND lease_token=?` of all four bookkeeping
statements. `ClaimDueOutbox` is the five statements of the method in their order:
`Reclaimed`, `Horizon`, `Due`/`Selected`, dead-lettering of unreadable URLs, and
leasing. The delivery loop of `monitor/delivery.go` is `BeginSend`, `EndSend`,
`Settle` or `ReleaseItem` for the oldest item the worker still holds; the lease
goroutine is `RenewClaimed`, which may run for any item until its send returns.
`Settle` may change nothing: a bookkeeping call has five seconds and is not tried
again. `EndSend` separates what the provider did (`accepted`) from what the
sender saw: a time-out may have been accepted.

Operator actions (`SaveDestination`, `SetDestinationEnabled`, `DeleteDestination`,
`ChangeIdentity`, `RetryDeadOutbox`) are the whole transactions, with the rows they
close. Retention phases act on any subset of their candidates, since budgets and
slices may stop a phase anywhere. `RetentionPeriod` lets the thirty days pass at
once, with idle workers: no interleaving depends on a longer clock.

### 2.3 Triggers

`rows` is `webhook_triggers`, with the same lease columns. `handlers` holds
requests that were recorded and not yet handed to `Engine.Trigger`; `channel` and
`overflow` are the fast path. `proc[p].at` is the place of the scheduler goroutine
in its loop: `top` (reload settings), `serve` (take fast requests), `claim`,
`durable` (claim the table), `poll`, `finish`, `elapsed` (serve timers), `select`.
A claim of several triggers is one poll over the union of their scopes, and each
trigger is finished by itself (`Succeeds` is `pollOutcome.succeeds`). `seen` and
`covered` are history: which triggers' deliveries had arrived when a collector was
asked, and which collectors were thereby stored for a trigger. They give
`ProcessedWasReconciled` its meaning: a completion must not rest on an answer that
is older than the delivery, or that was never stored. `seen` and `covered` are read by
no guard.

### 2.4 Collectors

`state` is `collector_state`, `snapshots` the table of that name with a resource's
content reduced to a version (0 is no row), `mark` the `removal_guard_since`
entries and `scope` the `users_shared_scope_generation` option. All are of the
current generation: an identity change deletes the older rows. `poll` is the
goroutine in `pollWithOutcomes`: `Start`, one `Collect` per collector (the flag is
read, then the API is asked), `RecordFailures`, `Apply` or `ApplyFails`,
`NotifyRecovered`, `NotifyUnhealthy`, `Schedule`, each a transaction of its own,
each able to fail, with `Crash` between any two.

`Apply` is the whole of `ApplyBatchWithOptions`. `AfterSnapshots` is what
`upsertResource` and `reconcileMissing` leave, `Guarded` is `massRemovalGuard`,
`Events` what `recordChangeBatch` is given, `AfterState` the four ways in which a
collector's row is written. The error column keeps the two texts the code compares
(`"guard"`, `"confirm"`) apart from every other. The guard's own notices stand alone
in the code and in the model: no flag refers to them.

Four variables are history. `view` adds the recorded events to the silent baseline,
as a reader of the digests would. `absent` holds the resources the last complete
answer omitted, `waited` counts guarded responses since nothing was pending. `told`
is the last health notice an operator had about a collector; a notice that a crash
or a failed enqueue lost makes it `unknown`, and the properties ask nothing then.

### 2.5 Changes

A behaviour is about one device as `devices` or `device_details` describes it.
Administrators edit it and every edit enters `log`; the node upgrades itself and
no entry says so. `BeginPoll`, `EndRead` and `Apply` are the three moments the code
takes times at: before a collector is asked, when its answer is there
(`ObservedAt`), and when the batch commits, after the log was fetched. `FailPoll` is
a poll without an answer; `Apply(held)` lets the mass-removal guard hold a removal
back, since whether it engages depends on resources outside the model.

Documents are what `normalizeFor` leaves. `ElementPaths`, `InvitePaths`, `ArrayIdentity` and
`IdentifiedBy` are `differ.diff` and `diffKeyed` for lists of share invites: by id
when every element of both has one, as a whole otherwise. `Classify` is
`model.Severity` on the fields shown, with what a cut-off list allows for.
`WindowStart`, the two passes and the ranking are `attributionWindow` and
`attributeChange`. `view` rebuilds the snapshot from the recorded fields alone.

Three kinds of entry may be credited without having touched what changed, and
`OnlyEditorsCredited` names each: an invite entry that names the device and not the
invite (`NamesDeviceOnly`), an approval of a device whose creation is out of the search's
reach (`StandsInForCreation`), and any node entry when the list of fields was cut off
(`FitsCutOffList`). The documentation has the first two; the third is section 3.3's.

### 2.6 Evidence

A hash is the sequence of the payloads it covers, so that two hashes are equal when
the histories are. The ledger is therefore written in closed form: `Appended` gives the
entries of a chunk from the head and the payloads in the order of their batches (`Nth`),
with no recursion over them. `Start`, `BackfillChunk`, `BackfillClear` and `BackfillMark` are the
start of the service, chunk by chunk; `Crash` may fall between. `RecordBatch` is the
poll's transaction with its entry. An export and an audit are a reader that issues
one statement at a time (`ReadBatch`, `ReadRow`, `ReadLinks`, `ReadEvents`, `ReadPage`,
`AuditEntries`, `AuditEntry`), because the code reads them outside a transaction:
`DeleteExpiredBatches` and `DeleteTriggerLinks` fall between any two. `Pack` is
`ExportEvidencePack` with its caps and `Verifies` the verifier, written from its own
source file and not from the exporter. `chain` is an operator following `next_cursor`.

### 2.7 Access

`requests[q]` is a request and the step it is at: `throttle`, `challenge`, `slot`,
`check`, `commit`, `signin`, `record`, `reveal`, or `auth`, `touch`, `act` for a request with
a session. A step is one locked section or one transaction, so what a request has
checked may be gone when it commits. A form challenge is a record with its
operation, browser, expiry and the process that issued it: the signature of
`issueCredentialChallenge` is by a key of the process, and `Authentic` compares these.
What memory holds (`consumed`, `failures`, `overall`, `reveals`) is lost by `Stop`.

Three behaviours of the code shape the properties. A sign-in or step-up that was under
way when a password was changed may finish after the change, so `NothingOutlivesPassword`
speaks of what was there before it (`history.cut` compares the order of creation);
`TokensOfCurrentPassword`, which fails, speaks of the rest (section 3.3). A change whose process stops before
`Record` is not on record: `history.lost` holds those. And the throttle counts the
failures it remembers. `noted` is history: every failure since the client's last success
or the start of the process; `evicted` says how many of them went with a bucket that
`pruneLoginAttemptsLocked` removed to make room. Pruning what is out of the window,
and what other clients do, leave both alone.

### 2.8 Database and Vault

A process (`serve`, `change`, `rekey`, `compact`, `inspect`, `backup`) is a record with its
place, its key, its locks and the file it has open; `files` has every file the path
ever named, the last of them live, so that a process may go on with one that was
replaced. `Launch*` is each command up to its first lock, `LockService` and
`LockMaintenance` take the two file locks, `Open` is `OpenExisting` or `OpenWithLimits` with
the preflight. Then the migrations: `MigrateOnce` for those of one transaction,
`BeginScan`, `MigrateChunk`, `NextTable`, `FinishScan` for the chunked ones, with the
progress row only the step to version 12 stores (the others start over). `Tables` lists what each of the
sixteen steps rewrites and `upgraded` which rows have been. A sealed value is the key
it is under. A configured key may be any key whenever it is read.

`IsAVault` is the refinement: `version`, the one key of the sealed values (`KeyOf`) and the commits
of the live file are a `Vault`, whose step `Commit` raises what is kept and what was
acknowledged together. Hence a compaction that loses a commit, a rotation that
leaves a value behind, or a migration that steps back is no step of `Vault`.

### 2.9 Client

`Main` polls, `Workers` are the fan-out's goroutines; each has at most one GET. A GET
waits for the token (`UseToken`, `StartFetch`, `Fetched`, `FetchFails`: the mutex is held while
the token is fetched), is answered (`Unauthorized`, `Refused`, `Lost`), waits and
wakes, and is cut by its own or the poll's deadline at any point. The page walk is
`LastPage`, `NextPage`, `TooMuch`, `UnusablePage`, `PageFails`. `Dispatch` hands the head of
the stalest-first order to a worker; the collectors of a poll that are still to be asked are a
set (`todo`), of which `Collector` is the first in the fixed order of the code; `DetailFails` separates a refusal of the whole
account, which stops the others, from a failure of one device. Status 503 and 504
are one (`unavailable`), apart from 502, which the status of a log stream tolerates. The device list of the API changes between polls only. DNS and log
streaming, the collectors of several objects, are modelled; the others follow
the same page walk or the same single GET.

## 3. What the runs check

| Run | Instance | Properties | What it shows |
|---|---|---|---|
| `outbox_order` | fair; 1 worker, 2 rows, the second undecodable by some builds, window 2, claims of 2 | `DeliveredWasAccepted`, `OldestFirst`, `EventuallySettled` | order and honesty of one destination's queue under crashes, failed bookkeeping, lapses and retries; every notification ends delivered or dead |
| `outbox_fence` | 2 workers and tokens, 2 destinations, 2 identities, 1 row with its batch, retention period, unreadable key | `TypeOK`, `LeaseDiscipline`, `DisabledHoldsNothing`, `IdentityFence`, `SettledIsFinal`, `LeaseRespected` | one owner per row, what the operator closes stays closed, settled rows change only by the operator's retry, and not while their batch tells another identity |
| `triggers_work` | fair; 2 triggers, the first undecodable, 1 collector, channel and overflow of 1, 1 timer, 2 identities | `ProcessedWasReconciled`, `EventuallySettled`, `TimersServed` | no trigger is completed by a poll that was not stored for it, nothing is stranded or starved |
| `collectors_polls` | fair; the users collector, 3 resources (1 shared), 2 identities | `EventsExplainSnapshots`, `NoticesAlternate`, `RemovedWasAbsentTwice`, `MassRemovalWasGuarded`, `Converges` | which removals are believed, and that a mass removal was held back once at least, that the events account for what is stored, one notice per episode, and that guard and two-poll rule delay removals without suppressing them |
| `changes_credit` | 1 device from 6 starts, 2 edits, 2 invites, 3 ticks, 2 fields shown | `FieldsExplainSnapshots`, `SeverityIsWorst`, `EditorsAreNamed`, `OnlyEditorsCredited` | no difference is lost or invented, severity in either form of a list, credit through slow, failed and guarded polls, with the three exceptions of section 2.5 |
| `evidence_ledger` | 4 batches, 2 of them older than the ledger, chunks of 1, parts of 2, packs of 3 links | `EntryIffAuthorised`, `SignedPacksVerify`, `ChainCoversOnce`, `StoredBatchesAudit` | the chain, the packs and the audit of what is stored beside crashes and retention |
| `access_requests` | 2 requests, 1 browser, and one side of two: 2 forms, 2 process lifetimes, a setup or reset token; or 2 sessions, 2 API tokens, 2 passwords | `UsedOnce`, `GuessesBounded`, `NothingOutlivesPassword`, `ChangesOnRecord`, `IdleSessionsEnd` | no form or token works twice; the throttle forgets no failure of a bucket it keeps; a password change ends what was there before it, idle tabs are signed out, changes are recorded |
| `database_processes` | 2 processes, 2 keys: serve, change, rekey, compact, inspect over no database, the first release's, version 2 or 10; or serve, rekey, backup over version 13 | `ServesTheLiveKey`, `UpgradedWhole`, `CheckpointsAdvance`, `IsAVault`, `BackupsOpen` | the refinement, that no upgrade, key or checkpoint is left half done, and that a published backup opens and starts |
| `client_fanout` | 2 polls, 2 workers, 3 device lists, 1 fault, 1 expiry | `RejectedTokenNotResent`, `ReportedAsRead`, `WithinBudget`, `CauseIsNamed`, `NobodyOvertakes` | tokens, completeness, budgets, causes and fairness of the fan-out; deadlock is checked, so no poll gets stuck |

Each of the following runs checks one statement of the documentation or of a comment,
and ends in a trace that violates it. Section 3.3 tells the traces.

| Run | Instance | Property | Statement |
|---|---|---|---|
| `collectors_guard` | that of `collectors_polls` | `MassRemovalWasGuardedTwice` | `docs/monitoring.md:42` |
| `evidence_audit` | that of `evidence_ledger` | `NeverPartlyDeleted` | `docs/operations.md:298`, `store/status.go:672` |
| `access_admitted` | 2 requests that make a token and change the password | `TokensOfCurrentPassword` | `docs/security.md:139`, `store/api_tokens.go:240` |

Where a run says `CHECK_DEADLOCK FALSE` its system may stop: a history is full, the
clock is at its bound, or every process has exited. The type invariants of the
modules other than `Outbox` document the state; the properties above leave
little for them to find. `access_requests` and `database_processes` have a CONSTRAINT,
`OneSide` and `OneAge`: everything at once is millions of states more than fit, so a
state is on one side or the other, and both sides are searched whole. Their
properties are invariants and action properties, which a constraint can only
restrict to the states it admits.

### 3.1 Why the bounds are enough to be interesting

*Rows.* Ordering needs an older and a younger row of one destination, and an
undecodable one that leaves the worker's failed map alone: two rows, of which the
second may or may not be decodable by the build that runs. Fencing, closing, retrying and pruning
are about one row and who acts on it, so `outbox_fence` spends its states on actors:
two owners, a destination that is closed, another that is added, two identities, the
retention period. That rows do not disturb each other there, and that one insert
for several destinations is right, is what the proofs of section 4 show for any
number of rows.

*Ticks.* `Lease = 1` and `RetryWindow = 2` let a lease run out inside the window and
a row be leased twice before it closes; `MaxDelay = 1` makes a row back off past a
tick. `Retention` is one more than `RetryWindow`, as the code's 30 days are more
than its 24 hours.

*Tokens.* The code draws 128-bit tokens; the model gives a claim any token nobody
holds for the row, so that two claims of one row never share one. `Tokens` has as
many as there can be owners.

*Triggers.* Two triggers, the first of which no build can decode: the second has to get
past it through the channel, the overflow queue or the durable queue. Its poll may
fail, meet a change of identity or a crash, and be claimed again. Two triggers
of different collectors in one poll, where the outcome of one could be taken
for another's, are more than the liveness properties leave room for; of these the
proof of `ProcessedWasReconciled` speaks, which holds for any number of both.
Trigger ids are used again after retention, so that deliveries never stop: without
that, liveness would hold because the input runs dry.

*Resources.* The guard looks at three missing resources or more, and more than are
seen. With three, everything may go at once, or one at a time below the guard.
Edits of a resource are left to `Changes`. Collectors meet only in one batch, whose
statements each name their collector, so one is polled where the resources matter.
A failure count saturates at the alert threshold, 3, beyond which no comparison of
the code tells values apart.

*Changes.* Two fields are shown, so that a third can be cut off. Two edits are an
editor and somebody else. Three ticks put an edit before the last success, between,
and after the read; `MaxWindow` is as long as the clock. The six starting pairs are
the list shapes a later answer can differ in: null, without ids, with ids, more
fields than are shown, and unchanged documents of either collector that edits
then change.

*Ledger.* Four batches: two the migration authorised (one with the links of two
triggers or of none), and two live ones. A part of two batches whose links reach
three entries is shortened by each of the caps in turn.

*Requests.* Two requests are what races; a third would repeat one of them. Lifetimes
are one or two ticks so that everything can expire while something is under way. In
`access_requests` three requests are admitted after one another, one more than may fail
together, and one bucket is kept for the kinds of operation, so that buckets
are evicted. After a restart, and on the other side unless one of them signs in, there
are two.

*Processes.* The locks exclude a third process as they do the second. Two rows per
table (one under a backup) let a chunk of one leave a table half done, and version 10 puts the upgrade
before each of the chunked steps. Two commits and two files are one compaction
with a write on each side.

*Devices.* Three device lists: one grows, one has a device without an id. A poll of two
ticks lets each request time out or be answered. One fault and one expiry per
history still meet each other and the cuts of the deadline.

### 3.2 Fairness

`Outbox`: time passes; the claiming ticker fires; a worker goes on with an item it
holds. Each is a Go ticker or a call with a deadline. Nothing is promised about
success: a send may fail for ever and bookkeeping may fail for ever, and a row
then still dies at the horizon. Crashes are unrestricted, renewals and the
operator are not fair.

`Triggers`: time passes and each scheduler loop goes on (every call it makes has a
deadline). Two assumptions are stronger. Strong fairness of `SelectTimer` stands for
Go's random choice among the ready cases of a `select`. Weak fairness of
`CleanupDeadLetter` is the retention worker: `EventuallySettled` needs it. Fast-path
requests that never pause keep the loop from its durable branch, and one
undecodable row rolls back `ClaimWebhookTriggers` for every row behind it until
the 24-hour horizon takes it, so that the durable queue alone does not settle
every row.

`Collectors`: a poll goes on, and no collector is left out of polls for ever. That is
strong fairness of the polls a collector is part of, since between two of them other
polls keep the loop busy; `TimersServed` of `Triggers` is the ground for it. `Converges`
further supposes, as part of its statement, that the tailnet has stopped changing
and answers (`SettleDown`, which may come after any history).

`Changes`, `Evidence`, `Access`, `Database` and `Client` are checked for safety only: what
must eventually happen there is the outbox's, the scheduler's or the operator's to
make happen. For `Client` the absence of deadlock says that a poll can always go on.

### 3.3 Where documentation and code part

In nine places what a document or a comment says is more than what the code does. For
each a property states what does hold, and its comment says what it leaves out. The
first three are findings of `PROJECT.json`: a run of their own checks the sentence and
ends in the trace told here. The others are told here only; their traces are
behaviours of the same models.

1. *The mass-removal guard may hold one response only* (run `collectors_guard`). `docs/monitoring.md:42`
   says that after two consecutive guarded responses the new population is accepted.
   `massRemovalGuard` reads how many there were from `failure_count`, which an ordinary
   failed poll has raised as well: a failed poll, one guarded response, and the next
   response is accepted. What holds is `MassRemovalWasGuarded`: at least one
   response was held back, and the attribution mark is there.
2. *An audit can raise an alarm over a batch that retention is removing* (run `evidence_audit`).
   `store/status.go:672` and `docs/operations.md:298` say an audit never sees a partly deleted
   batch. `AuditEvidenceLedger` reads the row, its links and its events in three statements
   outside a transaction; when the retention transaction commits after the first, the
   digest does not match. What holds is `StoredBatchesAudit`: never over a batch that is
   stored, and run again the audit counts the entry as unverifiable.
3. *A token can be made with a password that is no longer the current one*
   (run `access_admitted`). `docs/security.md:139-142` and `store/api_tokens.go:240-242` say a
   token made with a stolen session does not outlive a password reset. `checkStepUp`
   compares the password, and `CreateAPIToken` inserts the token in a later transaction; the
   change may commit between the two, and the token is live after it. A login that
   checked the old password signs in after the change in the same way. What holds is
   `NothingOutlivesPassword`: everything that was there before the change is ended.
4. *A dead letter of another identity can come back.* `store/outbox.go:406-409`
   says that rows whose batch belongs to a previous settings generation stay dead, and
   `docs/operations.md:81` that dead letters of a previous identity are never requeued. The
   predicate finds the generation through `event_batches`; retention deletes old
   batches in an earlier phase than old dead rows, and a pass may end between the
   two. The row then passes for one without a batch and is requeued. What holds is
   `SettledIsFinal`: no row comes back that the identity change killed, or whose batch
   is on record under another identity.
5. *A digest of another identity can be sent.* `store/settings.go:159-161`
   says digests of the previous identity are not delivered after the switch. The switch takes
   the row's lease, but a worker that has claimed the row and not begun to send it does
   not look again: it sends it and only the bookkeeping is refused. What holds is
   `IdentityFence`: the row is dead and stays so.
6. *A collector can be marked notified and never be reported.*
   `CHANGELOG.md:48` and `store/snapshots.go:771-773` say that the flag and its outbox row
   commit together. This is so for failures (`RecordCollectorHealth`). The demotion of a
   collector that turned unsupported sets the flag in the batch's transaction, and
   `monitor/poll.go:163` queues the notice afterwards: a crash or a failed enqueue
   between the two loses it, and the flag suppresses the next one. What holds is
   `NoticesAlternate`: no notice is repeated or out of turn.
7. *Two backups to one target.* `store/backup.go:153` says the recheck
   keeps a target that appeared meanwhile from being replaced. The recheck and the rename are
   two system calls without a lock: two backups may both recheck, and the second
   replaces the first, beside the first one's checksum. What holds is `BackupsOpen`, of
   whichever copy is there.
8. *A client can fail more often than the limit.* `docs/security.md:171`
   allows a client five failures per action in fifteen minutes. When more buckets are kept
   than `maxTrackedLoginIPs`, `pruneLoginAttemptsLocked` removes the one that failed
   longest ago although it is within the window, and its client starts again at zero;
   so it does after a success or a restart. What holds is `GuessesBounded`, which counts
   from each of these. The budget of all clients together, which the documentation
   names too, slows this down and is not counted here.
9. *A change of many fields is credited to any edit of the device.*
   `docs/monitoring.md:192-196` says that a change of device fields needs an entry for that
   property. When more fields differ than a change lists, `entryFitsKind` accepts every
   node entry: an approval and an upgrade may be credited to whoever then
   edited something else. A share entry that names no invite fits a change of any
   of the device's invites. What holds is `OnlyEditorsCredited`, with these exceptions.

## 4. What is proved

Eight modules hold proofs. Their theorems speak of every instance: any number of
rows, workers, requests, devices or processes, every limit and every bound. TLC
checked each inductive invariant on the instances of section 3 before it was proved.

| Module | Theorem | States |
|---|---|---|
| `OutboxProofs` | `TypeCorrect` | `[]TypeOK` |
| | `LeasesAreExclusive` | `[]LeaseDiscipline` |
| | `ClosedDestinationsStayEmpty` | `[]DisabledHoldsNothing` |
| | `IdentitySwitchFences` | `[]IdentityFence` |
| | `DeliveredMeansAccepted` | `[]DeliveredWasAccepted` |
| | `SettledRowsStay` | `SettledIsFinal`; of a dead letter whose batch is gone it says only that the identity change did not kill it |
| | `RunningLeasesHold` | `LeaseRespected` |
| | `ServedOldestFirst` | `OldestFirst` |
| `TriggersProofs` | `TypeCorrect` | `[]TypeOK` |
| | `ProcessedMeansReconciled` | `[]ProcessedWasReconciled` |
| `CollectorsProofs` | `TypeCorrect` | `[]TypeOK` |
| | `EventsExplain` | `[]EventsExplainSnapshots` |
| | `HealthNoticesAlternate` | `[]NoticesAlternate` |
| | `RemovalsTakeTwo` | `RemovedWasAbsentTwice` |
| | `MassRemovalsAreGuarded` | `MassRemovalWasGuarded`: one guarded response at least |
| `ChangesProofs` | `TypeCorrect` | `[]TypeOK` |
| | `FieldsRebuild` | `[]FieldsExplainSnapshots` |
| | `SeverityCorrect` | `[]SeverityIsWorst` |
| | `EditorsNamed` | `[]EditorsAreNamed` |
| | `CreditSound` | `[]OnlyEditorsCredited`, with its three named exceptions |
| `DatabaseProofs` | `ServiceKeyIsLive` | `[]ServesTheLiveKey` |
| | `UpgradesAreWhole` | `[]UpgradedWhole` |
| | `CheckpointsOnlyAdvance` | `[]CheckpointsAdvance` |
| | `PublishedBackupsOpen` | `[]BackupsOpen` |
| | `ImplementsVault` | `IsAVault`: every step is a step of `Vault` or a stutter |
| `ClientProofs` | `TypeCorrect` | `[]TypeOK` |
| | `TokenNotResent` | `[]RejectedTokenNotResent` |
| | `ReportedWhole` | `[]ReportedAsRead` |
| | `BudgetKept` | `[]WithinBudget` |
| | `RefusalNamed` | `[]CauseIsNamed` |
| | `StalestFirst` | `NobodyOvertakes` |
| `EvidenceProofs` | `Invariant` | `[]Inv`, the inductive invariant |
| | `LedgerIsAuthorised` | `[]EntryIffAuthorised` |
| | `PacksVerify` | `[]SignedPacksVerify` |
| | `PartsCoverOnce` | `[]ChainCoversOnce` |
| | `AuditsAreQuiet` | `[]StoredBatchesAudit`: of batches that are stored |
| `AccessProofs` | `Inductive` | `[]AInv`, the inductive invariant |
| | `OnceOnly` | `[]UsedOnce` |
| | `PasswordEndsSessions` | `[]NothingOutlivesPassword` |
| | `ChangesRecorded` | `[]ChangesOnRecord` |
| | `IdleEnds` | `IdleSessionsEnd` |
| | `GuessingLimited` | `[]GuessesBounded`: failures within a window, counted from the last success, start or eviction |

### 4.1 The assumptions

Each module names its own, and TLC evaluates them in every run.

* `OutboxAssumption`, `TriggersAssumption`: durations and limits are positive, ids are
  positive, 0 is no token, destinations are finitely many, and the retention of triggers is
  longer than their retry window (the code has 30 days and 24 hours).
* `CollectorsAssumption`: an inventory is finite.
* `ChangesAssumption`: ids are positive (0 stands for an invite without one) and finitely many, limits and
  durations are natural numbers, a collector is read for no longer than the skew that is
  allowed for (`ReadTime <= Skew`; both are two minutes in the code), what is not there is not an
  invite, and what the histories start from are documents of the collector. A device's
  tags are at most the one tag of the model. The two theorems about credit suppose one
  thing more, `NullIsNoList`: `Null` and `Missing`, which stand for a JSON null and an absent
  field, are not sets of invites. It is a hypothesis of the theorems and no ASSUME because
  TLC cannot say whether a model value is in a SUBSET; in the run both are model values.
* `DatabaseAssumption` and `FoundedAssumption`: a file the service finds was left by a
  release up to this one. Its migrations are whole up to its version or the stored
  progress, it has one key (a rotation is one transaction), and nothing of this
  service's is in it yet. A file that somebody edited by hand is outside the model.
* `ClientAssumption`: budgets are positive, there is a worker, a request may be tried
  twice at least (the code tries four times), and the API lists a device once.
* `AccessAssumption`: lifetimes and limits are positive, the server handles finitely many
  requests at a time, and the last-seen time is written more often than sessions time out
  (`TouchInterval < IdleTimeout`).

### 4.2 The arguments

*Leases* (`IInv` of `OutboxProofs`: the four properties and `RowsNameDestinations`). They
are needed together: that two claims cannot both own a row rests on a token being
recorded exactly while a row is processing, that an enabled destination cannot
acquire foreign rows on the rows' types, that a retry cannot revive a foreign digest
on `IdentityFence` quantifying over batches still on record. Most actions need no
argument of their own. A step *narrows* a row (`Narrows`) if it keeps the row's lease or
ends it, and makes nothing live that was not; the table narrows under every
bookkeeping statement, horizon, disabling, retention phase and tick, and `NarrowStep`
proves the invariant for all of these at once. Inserting, claiming, the retry of dead
letters and the identity switch have lemmas of their own.

*Order* (`OInv`, in the second half of the module: `IInv` and what claims know). `RowSteps` says, row by row, what any
step may do; `SettledIsFinal` and `LeaseRespected` follow from it alone. That a destination is
served oldest first needs `OlderAreHeld`: whoever holds a row also holds every older
row its destination still waits for, or has seen the destination fail in this pass.
A claim establishes it, because the older rows of a claimable row are due themselves
and rank before it; `HeadOutcome` carries it from the send to the bookkeeping, which
may be cut off by a crash or a lost lease between the two.

*Reconciled triggers* (`TInv`: types, the property and `Backed`). The property compares a
completion with answers given long before. `Backed` says of every poll under way that
what it calls usable was collected after the receipt of every claim it serves. It
survives retention taking the row of a claim away, because the delivery that gets the
same id again finds the claim in memory.

*Collectors* (`CInv`: types, `Data`, `Flags`). A removal needs two absences because what is
counted as missing was absent from the last complete answer (`CountedIsAbsent`), and a mass
removal a guard because neither a guarded row nor a majority that is counted is without
the guard's mark (`GuardFirst`). The notices alternate because the flag in the row and
what the operator was told differ only by the notices that the poll under way still
owes (`FlagWasTold`, `FlagWasSeen`).

*Changes* (`Inv`: types and the two properties). A step that changes nothing of the history but the log is
covered by `QuietKeeps` and `LoggedKeeps`; what is left is `ApplyKeeps`. That the fields account
for the snapshot is a fact about two documents: `DiffIsComplete` says that `Diff` leaves
nothing out, in each of the forms of a list of invites, and `Rebuilds` that writing what it lists over
the old document gives the new one up to the form of an empty list. A change is never
without a field because a cut-off difference keeps its first one (`KeptNonempty`, from
`FirstPath`). The severity is compared with the two documents in `DeviceSeverity` and
`DetailSeverity`: some path is severe exactly if some invite's access grew, some path is above
low exactly if the documents are not `alike`. `ChangeSeverity` adds what a cut-off list allows for. The
proof found a slip of the model: `Classify` and `Rebuild` had been CASE expressions with two
guards true at once, of which TLA+ does not say which is taken, while the checker takes the
first. They are IF chains now, in the order of the code's early returns.

*Credit* (`CreditInv`, beside `Inv`). A record is judged by positions in the audit log and credited by times, so the
invariant ties the two together. `PollInTime`: the entries up to a poll's position are not after it began, the others
not before, and a read takes no longer than the skew. `DifferencesEdited`: what differs between the stored document, the answer
under way and the device was edited by an entry between the positions of the two (a snapshot of before the
log, position 0, may differ without one, and every credit is after it). `EditsInReach`: no edit
that the stored snapshot does not reflect is older than where the next search starts, which is
`last_success` less the skew, the interval before that once a removal is half confirmed, and the guard's mark
while it holds; a partial answer (`broken`) and polls too far apart (`late`) are exactly what breaks it.
`RemovedForGood`: a removed device does not come back. It is inductive by itself: every
edit is a `LogStep`, which one lemma for each part covers (`LogStepKeeps`), and `ApplyCredit` is the rest.

At `Apply`, an edit of something shown is an entry that explains the change (`TouchExplains`; the posture
attributes are the last path, so they are shown only if nothing is cut off, `LastPathShown`) and lies in the window
(`WindowReaches`), and if there is a candidate one is best (`BestExists`), so somebody is
named. The other way round, who explains the change touched one of its paths, or is `NamesDeviceOnly`, `StandsInForCreation`
or `FitsCutOffList` (`ExplainerTouches`); a creation outranks an approval, so the second is left only
where no creation is in reach. An entry that the stored snapshot reflects cannot win: if it
explains the change, then so does a later one (`LaterEditExplains`), since a part that differs
was edited again after the snapshot, and later wins.

*Database* (`DInv`: types, `Excluded`, `SentBelowMark`, `Local` for each process). What one process may rely
on is `Local`: the locks its stage holds (`Staged`, `LocksAt`), that what it writes is the live file
(`Writing`), that a migration's cursor has passed every row below it (`Passed`, kept by
every chunk for any number of rows), that a compaction's copy equals the live file as
long as it holds the locks. `Excluded` makes the local facts stable: whoever could
disturb them would hold a lock they hold. `ServesTheLiveKey` and `UpgradedWhole` are read off
`Local`. The refinement maps a database to its version, its key and its commits;
`InitMaps` and `NextMaps` are its two halves, with one lemma per group of commands.

*Client* (`CInv`: nine named parts and two of the properties). The part `Tokens` says that the
cache never holds a token as old as one that an attempt under way was refused with:
a fetch makes a newer one, and whoever is refused empties only the token that was
refused. `ListRead` says that what a poll has of the device list is a prefix of the API's
list that ends at a page, so that the last page completes it. `Unshared` says that every device
is at most in one of the order, a worker's hands and the completed set, from which
`NobodyOvertakes` follows with `Ordered`.

*Access* (`AInv`: types, `FormsSpent`, `OffersSpent`, `CutOff`, `ChangesOnRecord`, `Placed` for each request). None of the
properties survives a step by itself, since a request writes what it decided earlier.
`Placed` says what it still knows: that its change is committed, that a password was there, that the
last-seen time it will write is no later than its user's last act. `FormsSpent` is what makes
forgetting safe: an accepted form is remembered, or expired, or signed by another
process, so pruning, a full cache and a restart never make it acceptable again.
`OffersSpent` says that a used one-time token is offered under no kind any more. In
`CutOff`, whatever is live is younger than the last password change, and a write that
comes late finds its session gone.

*Guesses* (`GuessInv` and `NotedInv`, beside `AInv`). The throttle counts failures and is told of one only
after the guess was looked at, so the number of failures alone is not bounded by an invariant.
`WithinLimit` bounds, for each bucket, the recent failures it remembers and the requests past the
throttle together: a request is admitted only below the limit, and then all requests
together are within it; a refusal turns an attempt into a failure; everything else,
time, pruning and a cleared bucket, only takes away. The recent times are the tail of
the bucket (`Recent`), since they are noted in order. That bounds a bucket; `NotedInv`
relates it to what happened. A bucket is the end of the list of failures noted against it (`Remembers`),
and a failure that is missing from it is out of the window or among those an eviction
took. So the failures within the window since the last eviction are all remembered
(`PruningRemembers` for the pruning, one step for each way a bucket changes), and the limit on the bucket is one on them.

*Evidence* (`Inv`: `LedgerInv`, `ChainInv`, `ReaderInv`). The ledger is a function of its history of
payloads (`LedgerOf(head)`), so links and hashes need no induction. `Phases` says of a backfill
what it may have left undone at each point of its life: everything up to the cursor, and everything
below the last entry, is entered, which a crash between chunks preserves because the cursor
and the entries commit together. A reader issues its statements while the database goes on, so
its part of the invariant must survive every other step: `Evolves` is what those steps
keep (entries stay, and a stored batch does not change), and `Exporting`, `Auditing` and
`SignedInv` say only of batches that are *still stored* that what was read of them is true.
`Pending` says where a wanted batch is: delivered, loaded, on the page, or below all of it. That a
shortened pack still verifies is `SpanIs`: the links that were read from the oldest
checkpoint on have the whole span of every prefix that reaches no checkpoint before it.

### 4.3 Only model-checked

* Liveness (`EventuallySettled` of `Outbox` and `Triggers`, `TimersServed`, `Converges`): fairness and ENABLED
  are beyond the prover's temporal backend.

Every safety invariant and every action property that a passing run checks is stated by a theorem.

## 5. Limits of the models

* Delivery order is modelled within the queue. Whether a provider keeps the order
  of what it accepts is its own affair.
* Payloads are abstract: a row is decodable or not, a URL is readable or not.
* `EnqueueDigest` receives any set of enabled destinations: routing rules choose
  them from the changes, which the queue does not see.
* A tick may fall between any two steps, so every race of a deadline is
  explored, but relative lengths are kept only as far as section 3.1 says.
* SQLite is trusted to make a transaction atomic and durable, and the single
  connection to order them. One process serves a file at a time: `Database` shows
  that the lock sees to it, and the other modules rely on it.
* In `Triggers` a scheduled poll is one step, since it holds no trigger.
* `Collectors`: resources appear and go but are not edited in the run, and the
  silent collectors of a first poll are not exercised.
* `Changes`: clocks agree, and no two log entries share a time. An entry made
  while the collector was being read may be credited, since the time of the answer is
  taken after it. `EditorsAreNamed` asks nothing after a partial answer (it moves
  `last_success`), a failed poll between two guarded ones (the guard engages anew and
  overwrites its mark), or polls further apart than the interval. An edit that the
  log does not show may be credited to an entry that fits. `OnlyEditorsCredited` does not tell
  which invite a share entry that names only the device was about. Tailnet-wide collectors,
  mutes, size limits and the form changes of policy documents are left out.
* `Evidence`: signatures are by one key; a retention pass removes whole batches.
* `Access`: the rate limit of the API, cookies, headers and scopes are left out.
* `Database`: `InsertMarker` follows `CreateMarkerTable`, and a crash between leaves a
  file that every later start refuses; so it is in the code. A release older
  than the file and restoring a backup are left out, and so are the checkpoint's
  interval and whether it is enabled. The check for leftover side files is modelled
  by whether another process has the file open.
* `Client`: a feature a tailnet lacks is no fault and may meet any other; clocks
  count from the start of a poll, since one scheduler runs them one by one.

### 5.1 Not modelled

* *Webhook verification, mute rules, history queries and options*: pure functions
  of one request or one statement.
* *Expiry reminders*: a planner over one list of keys; what it queues is a row of the
  outbox like any other.
* *Storage limits*: a read of sizes before each write, which refuses it.
* *Rendering, senders, pages, metrics*: formatting and HTTP. A send's outcome is a
  free choice in `Outbox`.
* *Budget, escalation and backoff of the cleanup pass*: in `Outbox`, `Triggers` and
  `Evidence` a phase takes any part of its candidates at any time.

## 6. Plan

1. `Outbox`, `OutboxProofs`, `Triggers` and `Collectors` (done).
2. `Evidence`, `Access`, `Database` with `Vault`, `Client` and `Changes` (done).
3. *Expiry.* The planner as an operator checked against a reference definition over
   all small inputs, then the worker around it: at most one reminder per threshold,
   none for a renewed key, warnings and messages commit together.
4. *Cleanup.* The pass with its budget, slices, escalation and backoff: every phase
   is reached in the end.
5. *Proofs.* The safety and action properties of every module, and the refinement (done).
