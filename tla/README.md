# TerraOps in TLA+

TerraOps is one Rust binary (actix-web, PostgreSQL, local files) with a Yew
client. Handlers run concurrently, most of them as a few SQL statements outside
any transaction; background jobs are tokio tasks that do the same; a budget
middleware drops a handler after three seconds at whatever `await` it stands.
So the unit of interleaving is the SQL statement, and that is the step of every
module here: what a component may assume about a row it has read, what another
may have written by the time it writes, and what is left behind when it is cut
off between two statements.

Paths below are relative to `src/repo/crates/backend/src` unless they start with
`src/` or `docs/`.

## Inventory

| Component | State | Operations | What is hard | What makes it correct |
|---|---|---|---|---|
| Report jobs (`reports/scheduler.rs`, `handlers.rs`) | `report_jobs`, artifact files, the pass's snapshot | ten-second pass: promote, cron re-arm, batch of five, run, close, notify; create, run-now, cancel | unguarded UPDATEs from stale reads; crash between running and done; retry counter written from a snapshot | bounded retries; an artifact behind every link; nothing stuck; a queue that drains |
| Cron (`reports/cron.rs`) | none | parse, next run within 400 days | calendar boundaries, the day rule | the next run is the next one |
| Sessions (`auth/`, `handlers/auth.rs`, `middleware/authn.rs`) | `sessions`, `users.password_hash`, `is_active` | login, refresh with rotation, logout, password change and reset, deactivation, bearer check | rotation in two statements; sweeps racing inserts | a revoked session stays revoked; rotation never leaves two by being cut off; no session outlives its password |
| Accounts, roles, lockout, audit (`handlers/users.rs`, `services/`, `auth/password.rs`) | `users`, `user_roles`, `audit_log` | create in three statements, PATCH column by column, delete, unlock, role assignment, reset, the count of failures | a lock checked before a slow verification; partial updates; the record after the change | the lock holds; role sets do not mix; every answered change is in the log |
| Security (`handlers/security.rs`, `tls.rs`, `app.rs`) | allowlist, device certificates, `mtls_config`, the pin set in memory | list, unlist, register, revoke, switch; refresh of the pins; restart | the cached set lags behind the table | a revoked pin leaves the set |
| Imports (`products/import.rs`, `import_validator.rs`) | `import_batches`, rows, `products`, `product_history` | upload, validate, commit (transaction with row locks), cancel | status checked outside the transaction; unlocked before image; lock order; numbers and texts of a sheet | whole valid batches only; history agrees with the rows; a valid row keeps its numbers |
| Catalog (`products/handlers.rs`, `repo.rs`, `history.rs`, `images.rs`, `tax_rates.rs`, `crypto/signed_url.rs`) | `products`, `product_history`, rates, images, image files | create, update, status, soft delete, images, rates, signed links | history in a separate statement; order by transaction start; file and row | history leads to the row; a row has its file; the deleted stays deleted |
| Alerts (`alerts/`) | `alert_rules`, `alert_events` | thirty-second pass: load, latest value, check, window, fire or resolve, notify; rule create, PATCH, delete, acknowledge | rules edited mid-pass; check then fire; fire then notify | one open event per rule; convergence to the latest value; nobody told twice or against their will |
| Metrics (`metrics_env/`) | sources, observations, definitions, computations | ingest, series, background persistence, lineage, PATCH | id handed out before the INSERT; definition edited between reads | lineage leads to the inputs used |
| Background jobs (`jobs/mod.rs`), retention (`handlers/retention.rs`) | `kpi_rollup_daily`, `retention_policies` | hourly rollup and retention sweep; PATCH of a TTL, run by hand | a window of 36 hours over calendar days; sweeps that overlap with edits | a day's rollup is its average; nothing younger than its TTL is deleted, nothing older stays |
| KPI queries (`kpi/repo.rs`), formulas (`metrics_env/formula.rs`), scoring (`talent/scoring.rs`) | none | queries with slices and pages; four formulas; cold start and blend | six queries with joins of their own; windows and ties | they agree; bounds and monotony |
| Notifications (`services/notifications.rs`, `handlers/notifications.rs`) | `notifications`, attempts, subscriptions, mailbox exports | emit, mark read, subscribe, export | check then insert | opt-outs honoured |
| Browser client (`frontend/src`) | `AuthState`, the refresh task, the lists and forms of a page | routes and gates, loading, paging, retrying, sign-in and -out | answers out of turn; a cookie shared by tabs; permissions copied at sign-in; three sources of who may do what | pages fit roles; lists tell the truth; the screen shows the user whose token is used |
| Others | | exports, monitoring, reference data, crypto wrappers, configuration | | read-only, single-statement or library code: see *Not modelled* |

Components meet in five places: the tables they share (imports and catalog,
metrics, alerts, KPI queries and jobs, sessions and accounts),
`notifications::emit`, which reports, imports and alerts call, the artifact and
image files, the budget middleware, which is an action of every module with
handlers, and the HTTP interface between the client and all handlers.

## Modules

| Module | Models | Run |
|---|---|---|
| `ReportScheduler`, `ReportsAndAlgorithmsProofs` | the pass of `reports/scheduler.rs`, `create_job`, `run_now`, `cancel_job` | `report_pass`, `report_retry` |
| `AuthSessions`, `AuthSessionsProofs` | `auth/sessions.rs` and the handlers that call it | `session_pass` |
| `ImportBatches`, `ImportBatchesProofs` | `products/import.rs` | `import_pass` |
| `AtomicImport` | what an import promises the catalog; `ImportBatches` implements it | `import_pass` |
| `AlertEvaluator`, `AlertEvaluatorProofs` | `alerts/evaluator.rs`, `alerts/rules.rs`, `notifications::emit` as it uses it | `alert_pass` |
| `Administration`, `AdministrationProofs` | `handlers/users.rs`, `services/users.rs`, `auth/password.rs`, `handlers/security.rs`, the allowlist of `middleware/authn.rs`, `tls.rs`, the audit log | `admin_pass` |
| `Catalog`, `CatalogProofs` | `products/handlers.rs`, `repo.rs`, `history.rs`, `tax_rates.rs`, `images.rs`, signed links, the rows of an import | `catalog_pass` |
| `Metrics`, `MetricsProofs` | `metrics_env/`, `jobs/mod.rs`, `handlers/retention.rs` | `metrics_pass` |
| `CronSchedule`, `MetricFormulas`, `ImportRows`, `TalentScoring`, `KpiQueries` | the algorithms, as operators | |
| `Algorithms`, `ReportsAndAlgorithmsProofs` | asks each of them every question of the sets its constants name | `algorithms_pass` |
| `ClientPages` | routes, gates, requests, buttons and links of the client against the handlers' permissions and the seeded grants | `client_pages` |
| `ClientLists`, `ClientProofs` | a list that grows with "Load more", the retry policy of `api.rs` | `client_lists` |
| `ClientSession`, `ClientProofs` | `state.rs`, the refresh task of `app.rs`, sign-in and -out, the cookie | `client_session` |

Every `MC` module gives the constants of its component small values. Operators
commented `Slip:` are plausible bugs of the definition that follows them; they
are in no specification, and each is the evidence that some property can fail.
A property that is a conjunction of named parts (`SettingsHold`, `RecordsHold`,
`ListsTruthful`, ...) is stated part by part above it, each with its comment.

### ReportScheduler

State: `job` is the table; `pc`, `due`, `batch`, `snap`, `cur` are the local
variables of `run_due_jobs` (volatile: `Crash` clears them); `req` holds the
handlers that have read a row and not yet written it; `files` is the artifact
directory; `runs`, `attempts` and `notices` are history. An action per
statement: `Promote` (45-51), `CronSelect` and `CronRearm` (53-101),
`SelectBatch` (104-120), `MarkRunning` (122-127), `RenderOk`/`RenderFails`,
`FinishDone`/`FinishFailed`, `NotifyOwner`, `EndPass`. `PassError` is an error
that ends the pass with `?`, `Crash` a restart of the process.

A cron schedule is a period: `next_after` returns the first matching minute
after the reference, and the pass only compares it with the clock. Reports'
contents, formats and access checks are abstracted.

- `RetryBudget`, `ArtifactOnDisk`, `RunningIsInHand`, `NoticeFollowsRow`,
  `ArtifactNeverRegresses` and `QueueDrains` hold (`report_pass`).
- `OneTransientRetry` (`report_retry`), `RestartResumes` and `CancelledNotRun`
  do not: see *Findings*.

### AuthSessions

State: `sess` are the rows, `user` the two columns of `users` that matter (a
password is a version number), `hnd` the handlers in flight and what they hold,
`owed` (history) whether a sweep is still to come after a write to the account.
Each handler is split at its `await`s: `LoginVerify`, `Issue`; `RefreshLookup`,
`RefreshRevoke`, `Issue`; `LogoutLookup`, `LogoutRevoke`; `BearerSession`,
`BearerUser`; `ChangeVerify`, `ChangeHash`, `Sweep`. `Drop` is the budget. Time
passes only while no handler is in flight: the lifetimes are minutes to months,
a handler three seconds.

- `LiveHasNoChild`: rotation revokes first, so being cut off costs a session
  and never makes one. `OutdatedOnlyByOverlap`: the one way a session outlives
  a password change is to have been read before the sweep and inserted after
  it. `RevokedIsFinal`.
- `SingleUse` and `AllSessionsRevoked` do not hold.

### ImportBatches and AtomicImport

State: `status` and `errors` of the batches, `products` and `history` as
committed, and per handler its step, its row and its own transaction's writes.
`Upsert` waits while another open transaction has written the product
(`Locked`); `ReadBefore` does not, and sees committed rows and its own
(`Seen`): READ COMMITTED, PostgreSQL's default, which the pool does not change.
A deadlock the database breaks, an error, the budget and a crash are all `Drop`:
the transaction's writes vanish. `CommitTx` publishes them, the history and the
status together. A batch ends committed or cancelled and a bounded number of
batches can be uploaded, so the system may stop: the configurations switch the
deadlock check off.

`AtomicImport` is the promise: the catalog changes by one whole valid batch at a
time. `ImportBatches` states it as `Atomic == INSTANCE AtomicImport WITH ...`,
with the committed `products` as the mapping, and `ImplementsAtomicImport` is
`Atomic!Spec`: a commit maps to a step of it, everything else to a stutter.

- `WholeValidBatches` (`WholeBatches` and `InvalidKeptOut`: nothing of a part of
  a batch, nothing of an invalid one), `HistoryTrue` (`HistoryEndsAtRow` and
  `BeforeWasStored`: the newest record shows the row, a before image shows
  something that was once stored) and the refinement hold.
- `NoReopen` does not.

### AlertEvaluator

State: the two tables, the computations of the one metric all rules look at,
`subs` and `notices` of the users who hold `alert.ack`, and the pass's locals.
A rule's operator and threshold are the set of values `check_operator` accepts.
The pass: `LoadRules`, `FetchLatest`, `CheckActive`, `CountWindow`, `Fire` or
`Resolve`, `LoadUsers`, `EmitCheck`, `EmitInsert`. `StatementFails` gives up the
rule or the user in hand as the code does; `Crash` starts the loop afresh.
A PATCH reads the row (`PatchRead`) and writes every column (`PatchWrite`).

- `OneOpenEvent`, `NoticesOnce`, `OptOutHonoured`, `Converges` and
  `AnnouncedWithoutFault` hold. The last needs its exception: a crash after
  `Fire` leaves an open event that keeps later passes from notifying anybody.
- `FiredHeld` and `AckAccepted` do not hold.

### Administration

State: `user` holds for each account its state, `failed_login_count` and
`locked_until`; `grant`, `allow`, `cert`, `mtls` and `audit` are tables; `live`
is the set of accounts with a session; `server` is the process with its TLS mode,
its pins and the pins it has read but not put in place. A call is the list of
statements it has still to run (`todo`), and an action per statement takes the
first: `Login` lists the verification and what follows it, `Patch` a statement
for every column that is given (`Name`, `Forbid`, `SetActive`, `Revoke`),
`CreateUser` `Insert`, `Grant`, `Audit`. `AssignRoles` is one transaction whose
DELETE sees the rows of its own snapshot and waits for a transaction that has
locked one of them (`Snapshot`, `Replace`). `Drop` is the budget, `Restart`
fixes the TLS mode and drops what was running, `LoadPins` and `SwapPins` are the
30-second refresher, `LoadFails` a reading that fails. Callers are checked
against the allowlist and their permissions when they arrive (`Arrive`,
`Manages`).

- `LockHolds`: an attempt after the threshold is looked at only when the lock
  time is over, or when its check had begun before the lock was set.
- `RolesReplaced`: the roles of an account are those of the last request,
  unless two overlapped: then the union can come out, since the second DELETE
  does not see what the first transaction inserts.
- `ChangesAreAudited`: every answered change is in the log; what is missing was
  cut short or refused half-way (`Forbid` refuses after `Name` has written).
- `PinsAgeOnce`, `PinsSettle`: a revoked certificate is accepted for one reading
  of the pins at most, and in the end not at all.

### Catalog

State: of a product the call that wrote its fields last, the `on_shelf` flag and
`deleted_at`; rates, images, `file` on disk with whether all of it was written;
`history` with the time of each record (its transaction's start); `url`, the
signed links handed out. Calls are lists of statements as in `Administration`:
an update is `Exists`, `Before`, `Update`, `After`, `Record`, each committing by
itself; an import reads `Before`, upserts and records in one transaction that
holds the row (`Held`), so that the handlers' UPDATEs wait. An upload writes the
file in two steps and the row after it; a removal deletes the row before the
file. Serving an image is `Verify`, `Fetch` and `Read`: the link, the row, the file.

- `HistoryReplays`: the records of a product lead to its row, unless changes
  overlapped or one was cut short between the change and its record. What the
  records lead to (`Replayed`) is a recursive function of their number.
  `ChangesAreTold`: every answered change has its record. `ListedInOrder`: the
  listing by `changed_at` is the order of the changes, imports excepted.
- `GoneStaysGone`: after a deletion, later calls change neither the product nor
  its rates and images; only an import still writes the row.
- `RowHasFile`: wherever an upload or a removal is cut short, a row promises a
  whole file (it is files that leak). `ServedInTime`: links end with their time.

### Metrics

Time goes by half days, so that the rollup's 36 hours are `Back` = 3 of them. A
value is abstracted to the observations it was computed from. `Bulk` writes
observation by observation; `Series` loads the definition, fetches the window of
each source, answers, and leaves a `pending` task whose INSERT (`Persist`) may
fail or be lost; `Patch` reads and then writes every column; `Lineage` finds a
computation and then describes it. `Sweep` enforces the policies it has read one
after the other (`Enforce` is the next whose TTL is not zero), `RunRetention`
does the same by hand for one domain; `Roll` is
a transaction that deletes and re-inserts. `Restart` ends all of it.

- `YoungStay`: whatever was deleted was older than a TTL that had been in force.
  `OldGoes`: and it does go, as long as the sweep runs and the TTL stays.
- `DayIsWhole`: a rollup row of a pass before noon of the next day averages the
  whole day. A later pass replaces it by a part: the condition is the point, see
  *Findings*.
- `InputsOfOneVersion`: a computation never mixes the sources of two versions of
  its definition. `IdsResolve`: an id that was answered leads to its lineage,
  unless its INSERT failed or is on its way.

### Algorithms

`CronSchedule` (parsing of fields, the rule for day of month and day of week, the
search minute by minute), `MetricFormulas` (windows, alignment, comfort),
`ImportRows` (what the two parsers make of a cell, the validator, the stored
fields, with an i32 scaled down to `MaxInt`), `TalentScoring` (in integers, with
the weights as numerators) and `KpiQueries` (each query as a set expression over
events and computations) are operators. `Algorithms` asks them: each question is
a state, and the invariants say what the answer must be.

- `CronFindsNext`: the next run is later than now, matches, and stays the same
  when asked from any moment before it; none only for a day that comes less than
  once a year.
- `FormulasHold`: late and future points and the order of storage do not count;
  the comfort index and its alignment stay on their scale.
- `ValidRowKeepsNumbers`: a row that passes validation is stored with the price
  that it shows, up to the width of an i32.
- `ScoresFair`: between 0 and 1 unless a skill is listed twice, monotone in
  skills, years, education and last visit.
- `KpisAgree`: cycle times, anomalies, funnel, efficiency and drill-down count the
  same events and computations, and the summary does if its 30 days begin with a
  day, as those of a slice do; pages partition the rows, whatever their size.

### ClientPages, ClientLists and ClientSession

`ClientPages` relates four tables of the code: `Grants` (seed of migration
`0002_rbac.sql`), `Requires` of every endpoint (the literals in the handlers), `Shows`
of every page (its gate in `pages.rs`, what it requests, its buttons and links)
and `NavLinks` (`components.rs`). A user signs in, follows links, presses
buttons; an administrator changes roles meanwhile. `PagesFitRoles` says that
what a page asks for is allowed to whoever its gate admits (four known
exceptions), that no link leads to a "Not authorized" card, and that no page is
out of reach of those who may see it. `GateLeadsToLogin` is the redirection.

`ClientLists` is the policy of `api.rs` (three seconds, a second try of a GET
only) under a list of pages: requests overlap, are answered in any order, and a
mutation that was given up may still reach the server (`unheard`).
`ListsTruthful`: a GET is sent at most twice and a mutation once; a list that
nothing disturbed is exactly the first pages; it shows the effect of every
press; the table's slice exists. `SpinnerStops`: no loading state is for ever.

`ClientSession` is a tab, its refresh task and the cookie against the rotation
of `AuthSessions`, a handler being one step here. `SessionTruthful`: one refresh
task per signed-in tab; the user shown is that of the token; after sign-out no
live cookie is left; each with the exceptions it names, an answer out of turn
above all. `DeadTokenNoticed`: a token whose session has ended is replaced or
the tab signs out.

## Bounds

| Run | Instance | Why it is enough |
|---|---|---|
| `report_pass` | 2 jobs, 1 request, batch of 1, periods {0, 1}, minutes 0..1, 2 calls, 1 fault | the batch limit is below the number of jobs; cron re-arms; a call lands in any phase; a fault hits any statement. Safety for any number of requests, jobs and faults is proved |
| `report_retry` | 1 job, 1 request | the shortest counterexample |
| `session_pass` | 1 user, 3 rows, 2 handlers, clock 0..3, 1 password change | two handlers overlap at every statement, rows expire, a chain of two rotations exists; users share no rows |
| `import_pass` | 3 batches, 2 products, 2 handlers, 2 commits of a batch | two valid batches with the products in opposite orders (so that they block each other) and a repeated product, one invalid batch |
| `alert_pass` | 1 rule, 2 values, 2 users, 1 PATCH handler, clock 0..1, 1 edit, 1 fault, 2 events | a rule trips, clears, is edited or deleted at every point of a pass; one user opts out while the other is told |
| `admin_pass` | 2 accounts, a threshold of 2, a lock time of 2, 2 calls at once; a behaviour is one of six mixes of 2 to 4 calls | a lock is reached, ends and is reached again with two attempts overlapping; two role assignments overlap; a certificate is registered, revoked and read, with a restart or a failed reading at every point |
| `catalog_pass` | 2 products, links of length 1, 2 calls at once; five mixes of 3 or 4 calls | two calls overlap at every statement and a third sees what they leave; an import over edits and a deletion; an image uploaded, listed, removed and served |
| `metrics_pass` | 2 sources, 1 definition, 1 user, 3 formula kinds, up to half-day 5; eight mixes of 1 to 3 calls with at most 1 fault | the rollup's 36 hours pass a whole day; TTLs of 0 and 1 day; a PATCH between the statements of a series, a sweep and another PATCH |
| `algorithms_pass` | schedules with lists, ranges and steps at month and leap-year boundaries; up to three points of two sources around both ends of a window; every row of small cell sets, an i32 of 8 bits; candidates and roles of two skills; histories of up to five KPI events, in pages of one and two rows | every branch of the algorithms is taken, and each boundary is met on both sides |
| `client_pages` | each role alone and combinations, 1 change of roles, 1 task in flight | a change can come between sign-in and any request |
| `client_lists` | 3 rows, pages of 1, 3 fetches, 1 press, 1 fault | two loads and an append overlap, the first load fails once |
| `client_session` | 2 users, 1 tab, 4 sessions, 3 acts, 1 fault | sign-in of another user while an answer of the first is under way. Two tabs disturb each other, see *Findings*, and the properties exclude them by name |

`MaxTime`, `MaxCalls`, `MaxFaults`, `MaxListFaults`, `MaxPassword`, `MaxCommits`, `MaxEdits`,
`MaxEvents`, `MaxRunning`, `MaxChanges`, `MaxTasks`, `MaxFetches`, `MaxPresses`,
`MaxSession`, `MaxActs` and the members of `Mixes` are such bounds and nothing
else; the code has no counterpart. A mix is chosen in the initial state and says
which kinds of calls a behaviour may have, so that kinds that touch the same
tables are together and others do not multiply.

Calls, batches, fetches and acts are bounded, and users owe nothing, so these
systems may stop: the configurations of imports, administration, catalog,
metrics, lists and client sessions switch the deadlock check off.

## Fairness

The loops that the process spawns once and that catch every error of a pass are
weakly fair as a whole, and nothing else on the server is: `Scheduler`
(`report_pass`), `Evaluator` (`alert_pass`), the pin refresher (`LoadPins` and
`SwapPins`, `admin_pass`), `Sweep` (`metrics_pass`). Requests, edits, the clock
and faults owe nothing; all of them are bounded, so "once they stop" is part of
every behaviour. In the client every spawned task goes on and every request is
answered or given up after three seconds, by the timeout of `api.rs`
(`ClientLists`, `ClientSession`), and an effect runs after a render (`Redirect`
in `ClientPages`).

## Findings

`report_retry` is a disagreement between the code and its own documents that a
run shows: the first failure stores `retry_count` 1 (`scheduler.rs:176`), which
the promotion excludes, though `scheduler.rs:9` and `docs/design.md:194` promise
one transient retry.

Seven more promises stand as properties at the end of their modules, and TLC
refutes each within seconds when the module's configuration names it in place
of the properties there; they have no run of their own.

| Property | The code | The promise |
|---|---|---|
| `ReportScheduler!RestartResumes` | nothing ever selects a job left `running` | `docs/design.md:319`: restart resumes from DB |
| `ReportScheduler!CancelledNotRun` | the UPDATE to `running` (`scheduler.rs:124`) has no status guard | `handlers.rs:198`: cannot run a cancelled job |
| `AuthSessions!SingleUse` | `rotate` ignores whether it revoked anything (`sessions.rs:131`) | `sessions.rs:10`: the presented token is single-use |
| `AuthSessions!AllSessionsRevoked` | sessions are inserted after the sweep by handlers that read before it | `password.rs:14`: all sessions revoked |
| `ImportBatches!NoReopen` | `validate` and `cancel` write over `committed` | `docs/design.md:203`: no reopen of committed |
| `AlertEvaluator!FiredHeld` | the window query counts computations of any value (`evaluator.rs:120`) | `evaluator.rs:6`: held continuously |
| `AlertEvaluator!AckAccepted` | the acknowledging UPDATE uses an undeclared alias (`rules.rs:213`) | migration 0022, line 8: events track ack |

Where a property of a passing run has an exception, the exception is what the
code does. These and what else was seen while modelling:

Reports and sessions. `cancel_job` cancels finished jobs (`docs/design.md:204`
allows non-terminal ones). A run-now that lands while the job is in hand is
overwritten by the end of that run. Every rotation restarts the ninety-day limit
of `sessions.rs:8`.

Accounts and security. The count of failures has no window
(`docs/design.md:186`), outlives the lock, so that one more failure locks again,
and is cleared by an attempt whose check began before the lock. A PATCH by
somebody who is no administrator writes name and time zone and then answers 403
to `is_active`, without a record. `create_user` cut short leaves an account
without roles, and its retry a conflict. Nothing keeps the last administrator,
and an allowlist without the administrator's address shuts everybody out; the
check of the list lets everybody in when its query fails. Pins are read every 30
seconds, where `docs/design.md:293` and `:306` speak of every mutation and of one
second. A revoked key cannot be registered again. Update and unlock of an
unknown account answer 204 and leave a record.

Catalog and imports. The history record is a statement of its own, although
`history.rs:3` has every mutation call it: a call cut short has none, and of two
overlapping edits the newest record may show the other's row. The snapshot omits
`unit_id` and `deleted_at`. Two overlapping commits of one batch both apply it;
the before image may be older than the row it replaces. An import onto a deleted
SKU writes it and leaves it deleted, and creating a product under a deleted SKU
fails. Signed links serve images of deleted products; image files leak.

Alerts. A crash between an event and its notifications is never made up for. Of
two overlapping PATCHes of a rule one is lost (`rules.rs:110`).

Metrics and jobs. The rollup calls itself idempotent (`jobs/mod.rs:149`), but a
pass after noon of the next day replaces a day's average by that of the part that
is within 36 hours; it also writes rows again that the retention of one day has
deleted, and its result is read by no KPI query. Lineage shows the formula the
definition has now (`lineage.rs:3`). An id is handed out before the INSERT that
may be lost. A bulk insert cut short leaves its first part, and its retry
doubles it. `run_retention` deletes feedback by the owner's last session, where
its comment (98-105) speaks of the candidate.

Algorithms. `next_after` gives none for 29 February more than 400 days ahead,
though `cron.rs:32` has it mean that no such day exists; `*/1` counts as
restricted in the day rule. A skill listed twice counts twice, so that a score
can exceed 1. The price of an import wraps at the width of an i32 when it is a
number and becomes 0 when it is a text; a blank price is an error and a blank
shelf life is none. The comfort index's density factor is always 1.

Client. Tabs share the cookie, so concurrent refreshes sign one out. The refresh
task gives up after one retry, where `app.rs:37` has it go on until it succeeds
or the user signs out. A request that was given up still sets the cookie; a
password change leaves a live one. "Clear" and "Reset" buttons send the filters
of the previous render (`pages.rs:4628`, `:3420`, `:5200`); "Load more" after
typing mixes two filters; a failed append leaves the page number advanced
(`pages.rs:1586`), and overlapping loads can leave a table's slice outside its
rows (`components.rs:467`). Holders of `report.run` without `report.schedule` are
offered the form of a report and get 403, as do recruiters and regular users with
the history card of a product.

## Proofs

Eight modules hold theorems, proved with TLAPS for every value of the constants
that satisfies the named assumptions. Each has the same shape: an inductive
invariant `IInv`, `InitIInv` for the initial states, `NextTypeOK` and `NextInv`
for the steps (one step of the proof per action), `Inductive`, and the theorems
as consequences of `IInv`, or of one step from a state that satisfies it. The
properties are not inductive as they stand; what the invariants add is what a
handler or a pass may rely on between two of its statements. The assumptions on
the constants type them, require that bounds are naturals, and say what the code
fixes: a lock threshold and a lock time of at least one, a rollup window (`Back`)
that reaches a day and a half back, at least one source for the comfort index, at
least one user for the client.

`ReportsAndAlgorithmsProofs`: `TypeOK`, `RetryBudget`, `ArtifactOnDisk`,
`RunningIsInHand`, `NoticeFollowsRow` and the action property
`ArtifactNeverRegresses`. `InHand` says which phases have a job in hand, and that
it is not in the batch any more. `RetryInv` says why a job never runs more often
than it may: every way into the queue resets its counters, so a job in the
batch was read with `retry_count` 0 and has not run since it was armed, and a
failed one stores 1, which the promotion excludes (this is also why
`OneTransientRetry` fails: nothing is ever promoted). `ArtifactInv` says that
the file of a run exists from `RenderOk` on, before the row names it, and that
run numbers only grow.

`ReportsAndAlgorithmsProofs` also holds what the algorithms promise. `AskSpec`
asks one question after the other; `QuestionsAreKnown` says that each is about
inputs of the constants, so that a property of it is a fact about every input of
the types that `QuestionAssumption` gives: expressions of any fields, moments since
1970, points of any integers, cells of any kind and number, skills of any names,
weights that are not negative and sum to 100. Where a definition is a recursive
function, that it exists and what it computes is proved by least counterexample
(`LeastOf`, from the well-foundedness of the naturals).

- `SchedulesAreKept` (`CronFindsNext`). `NextRunIsTheFirst`: `next_after` tries
  every minute of 400 days, `NextAfter` tries days and then the minutes of one day,
  and for every expression that is accepted both find the same, and the same again
  from any moment before that run. That none is found only for a day that not every
  year has (`SilentOnlyIfRare`) rests on the calendar: a day that every year has comes
  within 366 days (`DayComes`), a given weekday within six more (`WeekdayComes`).
  This needs a horizon of at least 400 days (`HorizonAssumption`), which is what the
  code has.
- `RowsKeepNumbers` (`ValidRowKeepsNumbers`), by the kind of the price's cell: a text
  that is not a number of an i32 becomes 0, a number keeps its low bits, and the two
  files differ for nothing else.
- `ScoresAreFair` (`ScoresFair`). Each part of a score is between 0 and 1 and grows
  with what it measures (`Matched` by the indices of the skills, the others by the
  monotonicity of division), a weighted sum of such parts is, and so is a product.
  A list without repetitions has no more matches than the role has skills.
- `FormulasAreSound` (`FormulasHold`). `FilterKeeps` says what a filter has kept after
  n points: those that count, once, in order. `TurnedIn` follows the filter from the
  other end, and sums (`TurnedTotal`), counts (`TurnedAbove`) and the first and the
  last point of different moments (`TurnedEnds`) come out the same. For the comfort
  index, a point that counts is as stale as it is old (`StaleIs`), which the window
  bounds, and the clamp is monotone (`ClampIs`).
- `KpisAreConsistent` (`KpisAgree`), for any finite tables and any slice.
  `SumFunctionOnSet` is a fold, which takes its elements in an order nobody chose:
  `SumUpToExists` and `SumIsOne` show that its sums exist and are one function,
  `SumIs` that the element taken first makes no difference, and `GroupsSum` that
  summing up groups is summing up. With it the rows of a query by day (`ByDayIs`,
  every day having one place, `PlaceIs`) and those of the drill-down add up to what
  the records do. `FlattenIs` does the same for joining pages, each of which begins
  where the one before it ends (`PagesMeet`).

`AuthSessionsProofs`: `TypeOK`, `LiveHasNoChild`, `OutdatedOnlyByOverlap` and
the action property `RevokedIsFinal`. `HandlerInv` says that a row a handler
will revoke exists, and that a handler about to insert has revoked the row it
rotates; `ParentRevoked` carries this over to the rows. `FlightInv` is
`OutdatedOnlyByOverlap` for the row that a handler has not inserted yet: the
account it read is current, or the sweep is still to come, or has overtaken it.

`AlertEvaluatorProofs`: `TypeOK`, `OneOpenEvent`, `NoticesOnce` and
`OptOutHonoured`. `PassInv` says that a pass that has found no open event finds
none until it fires, whatever is edited or deleted meanwhile, because nothing
else inserts events. `NoticeInv` says that a user's notices come in the order
of the events, and that a user who may still be told of the last event
(`Awaiting`) has not been told of it. `BarredInv` says the same of users who
opted out.

`ImportBatchesProofs`: `TypeOK`, `WholeValidBatches`, `HistoryTrue` and
`ImplementsAtomicImport`, for any batches and any rows. `WriteInv` says what an open
transaction has written of every product: the last of the rows it is past that
name it, and a record for each of them. `RowLockExclusive` says that no two open
transactions have written the same product: PostgreSQL's row locks, and the
reason why a before image read earlier in the transaction is still true when it is
logged (`ImageInv`). `CountInv` counts the records of a batch, `TellInv` the
notifications. The refinement is proved step by step: a commit is a step of
`AtomicImport` because by `WriteInv` what it publishes is the whole batch, and
every other action leaves the committed products alone.

`AdministrationProofs`: `SettingsHold` (`LockHolds`, `RolesReplaced`, `PinsAgeOnce`)
and `ChangesAreAudited`, for any mixes of calls. `CallInv` says which statements
a call may have left, and that its record is the last one. `LockInv` carries
`LockHolds` over to guesses that still run: a guess let in while the account was
locked has not reached the counter. `PinInv` says that pins that were read and
are not in place yet are no older than the reading before them. `UntouchedInv`
says that a call which can still be refused has changed nothing, `Patch` excepted.

`CatalogProofs`: the action property `GoneStaysGone`, `ImagesHold` (`RowHasFile`,
`ServedInTime`) and `HistoryHolds` (`HistoryReplays`, `ChangesAreTold`,
`ListedInOrder`). `CallInv` reads off a call's statement how far it is; `GoneInv`
says that a call that came after the deletion stops at its first look; `ImageInv`
that a row which an upload is about to insert has its file, and that an image that
was removed stays away. `ReplayInv` is what makes the replay inductive: on a
product whose changes did not overlap, at most one call is between its change and
its record, an import that holds the row is alone, the row is deleted exactly
if the record of the deletion was written or is owed, and the records lead to the
row, or would with the one that is owed. `Replayed` is a recursive function; that
it exists and what one more record makes of it is proved by least counterexample
(`Least`, from the well-foundedness of the naturals), since the library's
induction theorems cannot be instantiated by the provers at hand.

`MetricsProofs`: `RecordsHold` (`YoungStay`, `DayIsWhole`, `InputsOfOneVersion`,
`IdsResolve`). `CallInv` says what a call has read so far: a series has the
windows left of a version of its definition that was in force, and inputs that
this version uses, inside its window. `SweepInv` and the case of `RunCall` say that
a deletion works with TTLs that were in force; `TimeInv` that nothing is stored
or averaged in the future, without which a rollup could not have the whole day
before it; `ShownInv` where an id that was answered can be: in the table, on its
way, or lost with its INSERT.

`ClientProofs`: `SessionTruthful` (`OneRefreshTask`, `ShowsTokenUser`,
`SignedOutForGood`), for any users, tabs, acts and failures. `OneRefreshTask` needs
that only refresh tasks sleep and that a renewal brings a token the tab does not
have yet, or the effect would start no task for it: `ReplyInv`, by which no
session is issued twice. The other two rest on `SpentInv` and `TabInv`. `SpentInv`:
whatever the answer to a renewal, a sign-out or a change of password is, the
session that the request carried has ended when the answer leaves. `TabInv`:
while a tab is signed in its token and the cookie are one session, which is the
user's; while it is signed out the cookie is of no live session; a task that was
not cancelled was started for the user who is signed in and, if it is a renewal,
with the cookie that is still there; and a change of password that succeeded
finds no renewal that did, since both need the session alive. `TabInv` holds for
one tab and as long as no answer came out of turn, the exceptions that the two
properties name; `OneRefreshTask` holds for any number of tabs and without them.

`ClientProofs` also proves `ListsTruthful` (`RetryPolicy`, `ExactWhenClean`,
`FreshWhenSettled`, `TableInRange`), for any rows, filters, page sizes and numbers
of requests. `TriesInv` and `ToldInv` number the requests apart, and say that a press which waits for its
answer or was given up has been carried out exactly if its stage says so.
`ExactWhenClean` speaks of a list at rest only. `LoadInv` carries it over to the
one load of a list that nothing disturbed: an append holds the rows on the screen,
which are the pages before its own, and its answer is the page of the same
snapshot. `FreshInv` names what a list that does not show the server's rows waits
for: a load from the start, or a press still to be told. `Matching`, a recursive
function of the number of rows looked at, is typed by least counterexample.

Model-checked only:

- Liveness, since TLAPS cannot reason about ENABLED: `QueueDrains`, `Converges`,
  `AnnouncedWithoutFault`, `PinsSettle`, `OldGoes`, `GateLeadsToLogin`,
  `SpinnerStops`, `DeadTokenNoticed`.
- `PagesFitRoles`, a fact about four finite tables of the code that have no
  parameters: TLC's check is already about all of it.

No module declares a RECURSIVE operator.

## Not modelled

- Report writers, product export, mailbox export: formatting of rows already
  read; one file and one row that nothing reads back in the process.
- Reference data, talent CRUD, search and watchlists, monitoring: single
  statements on tables that no other component writes, and read-only queries.
- Delivery attempts: the worker is one UPDATE of a table nothing else reads.
- Crypto wrappers (Argon2, JWT, e-mail encryption): library calls without state.
  A token is modelled by the session it names, a link by its path and expiry.
- Startup, configuration, the connection pool, the seed, SPA files: wiring; what
  a start fixes for the life of the process is in `Administration`.
- Request identifiers, the error envelope, CSRF: functions of one request.
- Request and response bodies, layout, form validation and charts of the client.
- Of what is modelled: renames of SKUs and barcodes, the several SELECTs of a
  product's detail as one step, two averages of the KPI summary, the order of
  ties in the drill-down, `Clear` and `Reset` buttons, toasts, detail pages whose
  id changes.
- That an administrator is left, and that a chain of rotations ends: nothing in
  the repository promises either, so no property states them.

`PROJECT.json` lists every component with its status, and every hazard with the
properties that are about it.

## Plan

The modules, runs and theorems that were planned are written. What stays with TLC
is listed above with the reasons, and what is left out under *Not modelled*.
