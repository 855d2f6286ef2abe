# DrillIQ in TLA+

A TLA+ model of DrillIQ, the drilling-performance application in this
repository: a NestJS API over PostgreSQL with row-level security, a React client
and a library of drilling formulas. The modules translate the source; TLC checks
them on small instances and TLAPS proves the main results for every instance.

- [The system](#the-system)
- [Modules](#modules)
- [Runs](#runs)
- [Findings](#findings)
- [Theorems](#theorems)
- [Plan and what is left](#plan-and-what-is-left)
- [Not modelled](#not-modelled)

## The system

### Parts, their state and their operations

| Part | Source | State | Operations |
|---|---|---|---|
| Plan workflow | `api/src/plans` | `plan`, `recommendation`, `approval`, `audit_log` | createPlan, addRecommendation, submit, approve, reject; list, get |
| Auth and sessions | `api/src/auth`, the `auth_*` SQL functions | `app_user.refresh_token_hash`, `is_active`; the tokens clients hold | login, refresh, logout; the JWT guard |
| DDR import | `api/src/ddr-import` | `well`, `wellbore`, `daily_report` (+ activities, fluids), `bit_master`, `bit_run`, `audit_log` | parse, import |
| Capture | `api/src/capture` | `daily_report`, `bit_run`, `audit_log` | createDailyReport, createBitRun; lists and selectors |
| Tenant scope | `api/src/prisma`, the RLS migration | the tenant of a request (CLS) and of a transaction (`SET LOCAL`), the connection pool | tenant, runForTenant, the policies |
| Reports, dashboard, ROP | `api/src/reports`, `dashboard`, `rop` | reads only; exports are audited | workbooks, PDFs, KPIs, optimisation points |
| Shared formulas | `packages/shared/src` | none | founder detection, MSE, cost and trip times, statistics, dull grades, dysfunction |
| WITSML exchange | `api/src/integrations` | `well`, `bit_run` | exportXml, importXml |
| Web client | `web/src` | `localStorage`, React state, query cache | login, logout, pages with queries, parse, import, plan buttons |
| Seed and migration | `db/prisma/seed.ts`, `migration/etl.py` | the tables they fill | the seed, run again at will; the legacy load, dry or not |
| Operations | `ml`, `run.sh`, CI | files, processes | stub service, dump and restore |

### How they interact

A request passes `JwtAuthGuard`, which verifies the access token and puts its
client id in the request's CLS store, and `RolesGuard`. A service then calls
`prisma.tenant(fn)`: one interactive transaction on a pooled connection that
first sets the tenant with `SET LOCAL` and runs `fn`. PostgreSQL filters every
statement by that tenant. The auth service is the exception: it has no tenant
yet and calls three `SECURITY DEFINER` functions, each its own transaction.
Services share nothing in memory; **everything they do to each other they do
through the database**, at its default isolation level, READ COMMITTED. Figures
(optimisation points, KPIs, sheets) are functions of rows read in such
transactions. The web client keeps one session in `localStorage`, which all tabs
share, shows the one in its React state, never refreshes either, and empties
`localStorage` on any 401. The seed and the migration fill the database from
outside the application.

### What is hard, and what correctness means

Node runs many requests at once, and each `await` lets another one in.

- *Plans.* Check, then act: `transition` reads the status without a lock and
  updates it unconditionally. Correct: the state machine is followed, a proposed
  plan can be decided, a decision is on the approval it decided, the audit log
  and the rows tell the same, also where the answer was lost, nobody waits for
  ever.
- *Sessions.* The stored hash is read, compared (slowly) and written in separate
  statements. Correct: a refresh token is exchanged once, an ended session stays
  ended, what was rotated out never works again, and a deactivated user gains no
  access.
- *Import and capture.* Find, else create, over four tables, of which three have
  a unique constraint to fall back on. Correct: one report for a day of a well,
  nothing filed by half, a conflict is reported when and only when there is one,
  one catalogue row for a bit.
- *Tenant scope.* A pooled connection must not carry one tenant into the next
  transaction; requests of several transactions must not wait for each other's
  connections; an export is audited in a later transaction than it was read in;
  every query of runs or reports has a limit.
  Correct: the shared database looks like one private database for each client.
- *Figures.* Bins, quartiles, limits and text layout have boundaries: the highest
  point, a zero, a tie, exactly the limit, a heading that is missing. Correct:
  each agrees with a definition that does not have the boundary.
- *WITSML.* A document meets rows that were edited since. Correct: import is
  idempotent, stays in its client, and brings back what it reads, where no text
  is taken for a number.
- *Seed and migration.* Either may stop anywhere; the seed is run again, with the
  application running, which may rename what the seed looks for. Correct: the
  re-run repairs, nobody's edits are lost, the legacy load is all or nothing, and
  it is known which of its rows it drops.
- *Web.* Late answers, other tabs and pages that are left. Correct: nothing is
  sent with a session that was signed out of, a tab shows its user's data, and
  the preview is of the file that is picked.

`PROJECT.json` lists each hazard at its line, with the property that watches it.

## Modules

| Module | Models | Notes |
|---|---|---|
| `PlanLifecycle` | what the plan workflow promises | abstract: one atomic step per operation |
| `PlanApproval` | `plans.service.ts` | implements `PlanLifecycle` when requests take turns |
| `SessionLifecycle` | what the auth service promises | abstract |
| `AuthSession` | `auth.service.ts`, the guard on logout | implements `SessionLifecycle` when requests take turns |
| `DdrImport` | `ddr-import.service.ts` and the writes of `capture.service.ts` | one module: they insert under the same constraints |
| `TenantDatabases` | what tenant scoping promises | abstract: one database for each client |
| `TenantScope` | `prisma.service.ts`, the RLS policies, the transactions of reports and dashboard | implements `TenantDatabases`, requests overlapping |
| `DrillOff` | `drilling-formulas.ts` (founder), `stats.ts`, `screening.ts` | operators |
| `RopRuns` | `rop.service.ts`, the rollups of the dashboard, the NPT of both | operators; extends `DrillOff` |
| `RopViews` | `RopOptimizationTab.tsx`, its views, `cost.ts` | operators; extends `RopRuns` |
| `DdrText` | `pdf-text.ts`, the activity log, tables and narrative of `ddr-parser.ts` | operators |
| `Witsml` | `witsml.service.ts` | operators |
| `Analysis` | | composes these: their inputs as they grow |
| `Provisioning` | `seed.ts` and `etl.py` | |
| `WebSession` | `auth.ts`, `AuthContext`, `RequireAuth`, the queries | |
| `ImportTab` | `ImportDdrTab.tsx` and its `api.ts` | composed with `WebSession` |
| `MC*` | | instances for TLC: symmetry sets, a threshold |
| `*_proofs` | | theorems and their proofs; `DrillOff_proofs` has lemmas only, which `Analysis_proofs` uses |

### Conventions they share

The first three detailed modules, and in part `TenantScope`, are written alike.

*Requests.* `Req` is the set of requests of a behaviour; a request is used once
and names the rows (or tokens) it creates, which keeps ids fresh without
counters. `pc[r]` is the statement the request runs next, or its answer. One
action is one database statement, since READ COMMITTED and `await` let other
requests in between any two. Reads of one request that nothing can disturb, and
inserts that nobody can see before COMMIT and no constraint watches, are merged
into the neighbouring step.

*Transactions.* `PlanApproval` and `DdrImport` keep uncommitted writes in the
request and publish them in `Commit`; what an `UPDATE` writes there is what its
statement said, whatever became of the row. Row locks (`PlanLockFree`,
`ApprovalLockFree`) and uncommitted unique keys (`HoldsWell`, `HoldsWellbore`,
`HoldsReport`) are derived from how far each request is; a step that would block
in PostgreSQL is not enabled. `Abort` (a timeout, a lost connection, a crash)
may come before any statement and publishes nothing; after COMMIT the answer can
still be lost (`LoseAnswer` of `PlanApproval`, where the log is compared with
what was answered). In `AuthSession` every statement commits at once,
and `Crash` loses only the answer.

*Overlap.* With `Overlap = TRUE` requests interleave freely. With `Overlap =
FALSE` a request begins only when no other is in progress. What the handlers
promise as state machines holds in the second case; what survives interleaving
is checked in the first. The difference is the content of the findings.

### PlanApproval

`status`, `recs`, `approval`, `decider` and `audit` are the committed columns
`plan.status`, `recommendation.plan_id`, `approval.status`, `decided_by` and
`audit_log`; `stamp` is `approval.created_at`, by which `decide` picks the
newest pending row. `Receive` begins the transaction; `PlanMissing`,
`TransitionRefused` and `PlanRead` are the outcomes of `findUnique` and
`canTransition`; `OpenApproval`, `FindOpen` and `UpdateApproval` are the `onOk`
callbacks of `submit` and `decide`; `InsertAudit` is the call of `audit`, which
comes before `UpdatePlan`, the last line of `transition`, and after everything
else elsewhere: `written` is who has inserted a row, and only COMMIT makes it
part of the log. `Respond` sends the answer. `addRecommendation` has no guard on
the plan's state, in the code as in the model: recommendations can be added to
an approved plan (the web form does not offer it).

### AuthSession

`hash` is `refresh_token_hash`, represented by the token it verifies. A login
or refresh names the pair it issues (the `jti` makes pairs unique). `Login`,
`Refresh` and `Logout` verify and read; `IssueFor` signs and stores; `Respond`
delivers; `Clear` is `setRefreshHash(user, null)`. A request can present only a
token that reached a client. `session` and `ended` are history: the login a token
descends from, and the logins whose session was ended. `Deactivate` is an
operator's update; no handler changes `is_active`. `Expire` ages a pair past
`JWT_ACCESS_TTL` and then `JWT_REFRESH_TTL`. A deactivated user keeps the access
tokens she has until then, since the guard looks at nothing but the token:
`AccessOnlyRunsOut` says that they do not become more.

### DdrImport

A document is the well name, date and bit that the parser read. The steps are
the statements of `import` in order: find or insert the well, find or insert the
wellbore, the duplicate guard, insert the report, find or insert the bit,
commit. `createDailyReport` starts at the insert of the report, `createBitRun` at
the commit. A seeded well has no wellbore yet, as the seed script leaves it for
its second tenant. The model holds one tenant: row-level security hides the rows
of others. The mud-type lookup reads a table nobody writes and is left out.

### TenantScope

`pc[r]` is how far a request is in its current transaction, `txn[r]` how many
have committed; `Program` lists the transactions of each operation: a capture
inserts a bit run or a daily report, an export reads one of the two tables and
then audits (rendering in between), the dashboard reads runs and then activities,
which come with their reports. `claim` is the CLS store, `setting` is
`app.current_client_id` of each pooled connection, `holder` whose transaction it
runs. `Begin` takes a free connection, `Refuse` is `maxWait`, `SetClient` is
`SET LOCAL`, `ReadRows` and `WriteRow` are a statement under `USING` and `WITH
CHECK`, `Commit` and `Rollback` end the transaction and with it the setting.
`Answers` is what a `findMany` may return: at most `MAX_POINTS` runs, the oldest by
`created_at` (`clock` counts inserts), at most `MAX_REPORTS` reports, which are
sorted by a date the user gave, and all activities. A captured row can be missing
from a later answer that is full, and only from such a one: `AnsweredIsVisible`
says so.
`untenanted` is a query outside `tenant()`, as the database gate test makes one.
What a transaction wrote is published by `Commit`. Mutants show what the properties
would catch: `SET` for `SET LOCAL`, a client id shared by requests, a policy that
fails open, a connection that leaks.

### DrillOff, RopRuns, RopViews, DdrText, Witsml and Analysis

The first five translate functions without state. Numbers are small integers; a
quotient is a pair of integers, a quantile is multiplied by 4 and a fence by 8,
so that results are exact. Of MSE, HSI and cost only "no value, zero, finite,
infinite" is kept, with every guard and every divisor. A footage may be
negative, as an import stores it. A list of points is a function from places to
records, and a filter keeps some of the places, so that a point keeps its
identity from the stored run to the chart: "this run is shown" is about a place,
and a `Map` from makes or wells to lists is a function to sets of places.
`Sorted(v, k)` is what `[...arr].sort()[k - 1]` holds: the least value that has
`k` values at or below it. A curve is a function from the bins that have points.
The two founder detectors keep their own defaults, `Threshold` (0.3) and
`SlopeFraction` (0.5), and their own meaning of `founderWob`:
`detectFounderPoint` returns the point before the flat step
(`drilling-formulas.ts:249`), `founderCurve` the bin after it (`:342`).

`Request` is what the tab asks for, given the form; `Received` is what JSON
makes of the answer (an infinite MSE becomes `null`), and `ShownPoints` what the
views are given. Of the form's filters bit families and mud types both
reach the API, and the where clause asks for the families only. Each view is
what it computes of the points: groups, sums, quotients, cells and the filter
before a fit. The fitted lines and the drawing are left out.

A line of a report is the kind of text the parser's patterns tell
apart, a text item its position and length. `Layout` takes the lines off the top
of a page one after the other: the items within three points of the topmost one
are a line, `Lower` is what remains, and the columns of a line are a recursive
function of its `Nth` item from the left. `Slice` is `colSlice`: labels are what
the parser lists, wherever the header row has them, and a value is cut at each
column where one begins, so that its parts may come under two labels. A WITSML
row is a well with the one bit record the properties need; of its texts "0" and
"007" are those the XML parser makes numbers of.

`Analysis` makes state machines of their inputs: `RecordPoint`, `RecordRun`,
`WriteLine` and `PlaceText` each append one point, run, line or text item, so
TLC visits every input up to the bounds, and invariants compare the functions
with definitions of what they promise, and with each other: the dashboard with
the tab and with the exported sheet, the server's curve with the chart's, one
founder detector with the other. `Edit`, `Export` and `Import` are the real
interleaving: a document is taken, rows change, and it is brought back by either
client.

### Provisioning

`Statements` is `seed.ts` in its order: autocommitted upserts and three reads.
`count` is the test for existing bit runs that skips the rest; `findWell` and
`findHoleSizes` look for rows by name and end the seed with a warning, and with
success, when these were renamed (`seed.ts:251`, `:273`). `SeedFails` is the one
statement that a rename makes impossible: the wellbore has a fixed id, and is not
found by its name. `Interrupt` stops the seed anywhere; `EditRow` and `CaptureRun`
are the application and the Studio in between, with at most `Edits` rows changed
at a time. Not modelled are changes of a user's email or of a section's sequence
number, and deletions.
`EnsureClean`, `LoadReports`, `LoadChildren` and `Finish` are `etl.py`'s phases
inside one transaction: what it has written is `loading`, published into `target`
by a commit and dropped by a dry run or `Fail`. Truncating empties the tables that
refer to the listed ones too (`assignments`). Of the child tables `L05` stands for
those that are loaded row by row; the losses of `N05` are joined to the mud rows
of `N01`, the last one of an interval winning, and `OperationAnalysis` is asked
for its dates only. `Key` is the ETL's datekey as the
code uses it, without normalising the spelling.

### WebSession and ImportTab

`storage` is `localStorage`, `auth[t]` the state of `AuthProvider` in tab `t`,
`cache[t]` whose data its query cache holds. `Header` is `authHeader()`, which
reads `localStorage` when the request is sent. `QueryRefused` is a 401: storage
is emptied whatever it holds by now, and the query is retried with whatever is
stored then. `Logout` sends its request with what is stored by then (`signout`),
which another tab may have replaced; the server ends the sessions of that
header's user (`AuthSession`'s `Logout`). `ImportTab` adds the page: `form` is
its component state, `Press` is `onParse`/`onImport` up to the `await`, `Arrive`
the rest of them, `Orphaned` the requests whose page is gone. `Logout` and
`Reload` of that tab take the form with them. `ended`, `alone` and `switched`
are history. The server answers by `Accepted` alone: what it does with an upload
is `DdrImport`'s.

## Runs

| Run | Instance | Checks |
|---|---|---|
| `plan_concurrent` | 1 plan, 4 requests, overlapping | `ProposedHasOpenApproval`, `AuditIsExact`, `DecisionIsAccountable`, `EveryRequestAnswered` |
| `plan_serial` | 2 plans, 5 requests, in turn | `OneOpenApproval`, `DecisionIsRecorded`, `LifecycleSpec` |
| `plan_transitions_raced` | 1 plan, 4 requests, overlapping | `PlanFollowsTransitions`, violated: see [Findings](#findings) |
| `auth_concurrent` | 1 user, 4 requests, overlapping | `RetiredStaysRetired`, `DeactivatedGetsNoToken`, `AccessOnlyRunsOut` |
| `auth_serial` | 2 users, 4 requests, in turn | `RefreshTokenUsedOnce`, `SessionsStayEnded`, `LifecycleSpec` |
| `ddr_concurrent` | a seeded and a new well, 2 dates, 1 bit, 3 requests, overlapping | `OneReportPerDay`, `FiledAsAWhole`, `ConflictIsReal`, `EveryRequestAnswered` |
| `ddr_serial` | the same, 4 requests, in turn | `ImportNeverErrors`, `OneMasterPerBit` |
| `tenant_scope` | 3 requests, 2 connections, 2 clients; 2 runs or 1 report in an answer | `OnlyOwnRows`, `ScopeEndsWithTransaction`, `ExportIsAudited`, `AnsweredIsVisible`, `EveryRequestAnswered`, `DatabasesSpec` |
| `analysis` | sweeps of 5 points, 4 runs, 5 lines, 4 text items, 3 exchanges | `FounderIsSound`, `StatisticsAreFair`, `FiguresAreFinite`, `MissingIsFlagged`, `DashboardAgrees`, `TextIsReadInFull`, `PageIsReadAsPrinted`, `ExchangeIsSafe` |
| `rop_unit` | 1 run | `RopIsInFeet`, violated: see [Findings](#findings) |
| `provisioning` | 2 interruptions, 1 re-run after success, 2 rows edited or renamed at a time; 2 legacy reports, 2 child rows | `RerunRepairs`, `NothingIsOverwritten`, `DemoRunsAreWhole`, `LoadIsWhole` |
| `web_import` | 2 tabs, 2 users, 2 sessions, 2 files, 1 retry, 2 uploads | `RequestsAreOwn`, `LoneTabShowsOwn`, `PreviewIsOfItsFile` |

The type invariants are proved for every instance and no run repeats them.

*Bounds.* In the runs of plans, sessions and imports the only bound is the
number of requests; nothing else is cut. Four requests on a plan are a creation,
a submit and two decisions, or a creation and submits and decisions racing;
five, in turn, include a rejection and a second submit, and let two plans be
proposed at once, so that a decision could pick the wrong plan's approval. Four
requests of a user are a login and three operations on its session: the races
need a pair of requests on one token. Three imports race for one well, wellbore
and day while a third party files another day or a capture. With three requests
on two connections one always may have to wait, and each connection is used
again after another client. Each client has a seeded run, so that `MAX_POINTS` =
2 is reached by one capture and passed by the second, and two captured reports
pass `MAX_REPORTS` = 1; `MaxReaders` = 1 of a client's requests reads, since two
of them have nothing to do with each other. In `analysis`, `Bins` is 4 and
sweeps have 5 points, so that every bin can hold its own and one be shared or
empty; the four `Rops` let a second step fall below half of the first but not
below 0.3 of it, and below both; fences and screening start at four points;
`MaxPoints` is 3 with four runs, one more than the limit, and three are what a
founder curve needs, so that a curve can be cut by the limit; `MaxReports` is 1,
and of the two reports one is beyond it; a heat map of two by two cells has an
inner boundary in each direction; a log of five lines holds a heading, two rows,
a comment and the next heading, and a narrative its four headings and a line; a
page has up to four items (`Items`) on two lines (`PrintedLines`) at `Columns`
0, 2 and 4 with a length of at most `MaxLen` = 3, so that an item can run into
the next column, push it to the right, or leave a gap, and a line can have a
column that the other lacks. Two interruptions reach the gap between the two
demo runs twice; `Edits` = 2 lets two of what the seed looks for be renamed at
once; two legacy rows can share a key, spell a day in two ways, or have no
report, and a loss can be with its mud row, without it, or follow another. Two
tabs, users and sessions are the smallest in which one tab can hold the session
of another user; only one of them opens a page with a query and only the other
the import page, which halves the interleavings and no property relates the two.
The theorems remove the bounds. `CHECK_DEADLOCK FALSE`: a behaviour ends when
all requests have been answered, or its bound is reached.

*Symmetry.* The two `_serial` runs of plans and sessions and `ddr_serial`
declare requests (and plans, users or dates) interchangeable: they check safety
only, and no definition orders or chooses among them. Runs with a liveness
property use no symmetry.

*Fairness.* `WF_vars(Step(r))` for each request: Node's event loop resumes a
handler when its statement returns, and PostgreSQL runs a statement once the
lock, key or connection it waits for is free. Arrivals and failures get no
fairness. Strong fairness is not assumed: a request that waits for a lock could
starve only behind endlessly many others, and a behaviour has finitely many.
`AuthSession` needs none: its properties are of safety. `Provisioning` has `WF`
on the next statement of a running seed and on starting one while none has
succeeded: the operator's part, without which "it can be re-run" promises
nothing. `Analysis` and the web modules have no liveness property and no
fairness. That weak fairness is enough for any finite number of requests rests
on the theorems on waiting: see [Theorems](#theorems).

*Mutants.* Every property is tested against a fault in a definition it depends
on: a dropped guard, a forgotten filter, an audit row on another connection, a
missing `jti`, `SET` for `SET LOCAL`, a limit off by one, a stale preview. Mutated
definitions stand above the original, with the fault in the comment.

## Findings

Two are runs that TLC finds violated, against a sentence of the repository.

| Run | What happens |
|---|---|
| `plan_transitions_raced` | two decisions both read PROPOSED; the plan is approved and then rejected (`plans.service.ts:157`, against the transition table of `schemas.ts:180`) |
| `rop_unit` | `toPoint` multiplies the stored ROP by 3.28084 (`rop.service.ts:184`), though the form, the import and `data-model.md:359` have it in ft/hr already; only the seed stores m/hr |

The same cause as the first, on other statements. These properties are checked
and proved for requests in turn and do not hold for overlapping ones. For two of
them a theorem says what is left: a decision is lost only to another audited one
on the same plan (the last part of `AuditIsExact`), and a constraint fails only
where another request has filed a report on the same well (`ErrorRaced`).

- of two overlapping decisions one is answered with success and recorded on no
  approval (`DecisionIsRecorded`, `plans.service.ts:121`); two submits open two
  approvals for one plan (`OneOpenApproval`);
- two refreshes with one token both pass the comparison and both get a pair
  (`RefreshTokenUsedOnce`, against `docs/phases.md:173`); logout clears the hash
  while a refresh is signing, and the refresh stores a new one
  (`SessionsStayEnded`, `auth.service.ts:76`);
- two imports of one report both pass the duplicate guard, and the second is
  answered 500 by a constraint where `README.md:176` promises 409; so is an
  import of another day of the same new well (`ImportNeverErrors`); imports leave
  two catalogue rows for one bit (`OneMasterPerBit`).

What else the translation showed. Where the models contain it, the property that
holds nevertheless says under which condition:

- *Import.* Activities are stored as PLANNED (`ddr-import.service.ts:169`), while
  dashboard and sheet both count NPT by classification (`dashboard.service.ts:95`,
  `reports.service.ts:103`): imported NPT is never counted, consistently
  (`DashboardAgrees`) and by the rule of `data-model.md:455`, though not by what
  `:451` says of the flag. A
  bit without a size is stored with size 0 (`:207`), and its
  MSE is infinite (`FiguresAreFinite` has it as the only case); one such run makes
  the dashboard's average MSE infinite, which JSON sends as `null`. The footage of
  a bit is the report's depth less the bit's depth in, whatever its sign
  (`:217`): the dashboard subtracts a negative one from its total
  (`dashboard.service.ts:64`), the tab's summary skips it (`SummaryView.tsx:41`).
- *Parser.* Lines of a comment that hold "Start" or "Com" are taken for column
  titles and dropped (`ddr-parser.ts:239`; excepted in `TextIsReadInFull`). A
  narrative section whose closing heading is missing runs to the end. A value that
  begins before its label is cut in two, and what stands before the first label is
  lost (`:133`; `PageIsReadAsPrinted` says for each column where it is read).
- *Founder.* What the two detectors return as `founderWob` is one step apart
  (`drilling-formulas.ts:249`, `:342`), and their thresholds differ (0.5 at `:212`,
  0.3 at `:299`); `FounderIsSound` states how they relate.
- *ROP.* The query takes the oldest runs first, so that beyond `MAX_POINTS` new
  runs never show; the answer says it is truncated (`MissingIsFlagged`). The
  dashboard asks for all runs and drops that flag (`dashboard.service.ts:38`): its
  totals are of the oldest runs then, unmarked. The activity sheet has the latest
  1000 reports (`reports.service.ts:83`) and does not say so: its NPT is less than
  the dashboard's when there are more (`DashboardAgrees`). The tab's mud types
  (`RopOptimizationTab.tsx:130`) and the schema's formations reach the API and are
  asked for in no where clause (`rop.service.ts:80`). Screening
  looks at each metric by itself, and with four metrics can drop every point.
- *WITSML.* "Lossless" (`witsml.service.ts:21`) is so for text that is no number.
  The XML parser makes a number of the others: a name loses its leading zeros, a
  field, dull characteristic or reason "0" counts as absent, and any other numeric
  one is refused by the database and with it the whole import (`:89`). An empty
  field keeps what is stored; the outer grade, `numBit` and depths are not read
  (`:107`; `ExchangeIsSafe` is about what is read, and states these exceptions).
- *Seed.* A crash between the two demo runs is never repaired, since the next
  seed finds runs (`seed.ts:242`; a case of its own in `DemoRunsAreWhole`).
  After the tenant's well or its hole sizes were renamed the seed succeeds
  without demo runs, with a warning (`:251`, `:273`); after its wellbore was,
  and before there are runs, it fails on the fixed id each time. A re-run resets
  the vocabulary and the users to their seeded values (excepted in
  `NothingIsOverwritten`).
- *Migration.* It drops legacy rows: of several `L04` rows of a well and date all
  but the first (`etl.py:290`), of several losses of an interval all but the last
  (`:375`), losses without a mud row (`:380`); `OperationAnalysis` rows make reports
  and are not loaded (`:458`); `LoadIsWhole` states what is kept. Two spellings of a
  date are two reports; a mud row without a report is loaded with none (`:379`); a
  dry run skips the test for a clean target. `TRUNCATE ... CASCADE` (`:176`) empties
  tables outside its list, which nothing fills again (`NothingIsOverwritten`).
- *Web.* A late 401 removes the session that was stored since. The query cache is
  neither keyed by user nor cleared on logout (`main.tsx:9`): another user who
  signs in in the same tab is shown it until the query is answered
  (`LoneTabShowsOwn` holds until then). An answer for a file that is no longer
  picked is shown (`PreviewIsOfItsFile` excepts it). Leaving the import page while
  it is busy and coming back allows a second upload at once. The refresh token is
  stored but the client never refreshes with it.
- *Unmodelled.* A bit run whose answer was lost can be saved twice; the plan
  buttons are not disabled while a decision is pending; recommendations can be
  added after approval; `createDailyReport` has no duplicate guard of its own.
  `detectFounderPoint` and the dysfunction rules are used by no screen.

## Theorems

Proved by TLAPS for every value of the constants, from the named assumptions of
the modules: `None` is none of the other values; requests are not clients or
seeded wells; `Overlap` is a Boolean; in `TenantScope` requests and clients are
finite sets (an export counts rows), requests are numbers and so are the limits;
the bound on legacy reports is a natural number; the import page is in one of
the tabs. Those about `Analysis` assume that there is a bin, a cell and a limit
of at least one, that the founder thresholds are positive fractions and
`founderCurve`'s is not the greater, that the limit of the sheet, the sanity
limits, the largest value of a sweep and the metre in feet are naturals, the
last above zero, that the lines, columns and lengths of a page are naturals,
that screening looks at metrics a sweep has, and that `None` is no number and
none of the figures "zero", "finite" and "infinite". "In turn" theorems assume
`Overlap = FALSE`.

| Theorem | States |
|---|---|
| `PlanApproval_proofs!TypeCorrect` | `TypeOK` |
| `PlanApproval_proofs!ProposedCanBeDecided` | `ProposedHasOpenApproval`, requests overlapping |
| `PlanApproval_proofs!AuditExact` | `AuditIsExact`, requests overlapping, answers lost; with it, that a decision is lost to a rival only |
| `PlanApproval_proofs!Accountable` | `DecisionIsAccountable`, requests overlapping |
| `PlanApproval_proofs!WaitingEnds`, `StepsGoForward` | chains of waits have at most two links and end; no step goes back |
| `PlanApproval_proofs!SerialOneOpenApproval` | `OneOpenApproval`, in turn |
| `PlanApproval_proofs!SerialDecisionRecorded` | `DecisionIsRecorded`, in turn |
| `PlanApproval_proofs!SerialImplementsLifecycle` | `PlanApproval` implements `PlanLifecycle`, in turn |
| `AuthSession_proofs!TypeCorrect` | `TypeOK` |
| `AuthSession_proofs!RetiredTokensStayRetired` | `RetiredStaysRetired`, requests overlapping |
| `AuthSession_proofs!LockedOutForGood` | `DeactivatedGetsNoToken`, requests overlapping |
| `AuthSession_proofs!AccessRunsOut` | `AccessOnlyRunsOut`, requests overlapping |
| `AuthSession_proofs!SerialUsedOnce`, `SerialStayEnded` | `RefreshTokenUsedOnce`, `SessionsStayEnded`, in turn |
| `AuthSession_proofs!SerialImplementsSessions` | `AuthSession` implements `SessionLifecycle`, in turn |
| `DdrImport_proofs!TypeCorrect` | `TypeOK` |
| `DdrImport_proofs!OneReport` | `OneReportPerDay`, requests overlapping |
| `DdrImport_proofs!FiledWhole` | `FiledAsAWhole`, requests overlapping |
| `DdrImport_proofs!ConflictReal` | `ConflictIsReal`, requests overlapping |
| `DdrImport_proofs!ErrorRaced` | a constraint fails only after another request filed on the well; requests overlapping |
| `DdrImport_proofs!WaitingEnds`, `StepsGoForward` | nobody waits for one who waits; no step goes back |
| `DdrImport_proofs!SerialImportsFind`, `SerialOneMaster` | `ImportNeverErrors`, `OneMasterPerBit`, in turn |
| `TenantScope_proofs!TypeCorrect` | `TypeOK` |
| `TenantScope_proofs!ReadsOwnRows`, `ScopeEnds` | `OnlyOwnRows`, `ScopeEndsWithTransaction`, any pool |
| `TenantScope_proofs!ExportAudited`, `AnsweredVisible` | `ExportIsAudited`, `AnsweredIsVisible`, any limits |
| `TenantScope_proofs!PoolSuffices`, `StepsGoForward` | whoever holds a connection can go on with that one, any pool; no step goes back |
| `TenantScope_proofs!ImplementsDatabases` | `TenantScope` implements `TenantDatabases`, requests overlapping |
| `Provisioning_proofs!DemoRunsWhole` | `DemoRunsAreWhole` |
| `Provisioning_proofs!SeededWhole` | after a success, by whatever return, vocabulary and tenants are complete; a demo run is there only with them and the fixtures |
| `Provisioning_proofs!LoadWhole` | `LoadIsWhole`, any legacy tables and options |
| `Provisioning_proofs!NothingOverwritten` | `NothingIsOverwritten` |
| `ImportTab_proofs!RequestsOwn` | `RequestsAreOwn` |
| `ImportTab_proofs!ShowsOwn` | `LoneTabShowsOwn` |
| `ImportTab_proofs!PreviewOfItsFile` | `PreviewIsOfItsFile` |
| `Analysis_proofs!FounderSound` | `FounderIsSound`, sweeps of any length, any bins and thresholds |
| `Analysis_proofs!StatisticsFair` | `StatisticsAreFair`, sweeps of any length |
| `Analysis_proofs!FiguresFinite` | `FiguresAreFinite`, lists of any length of the recorded runs |
| `Analysis_proofs!MissingFlagged` | `MissingIsFlagged`, the same, any limit, the filters of the form and of dates |
| `Analysis_proofs!DashboardAgreement` | `DashboardAgrees`, the same, any log, up to one report more than any limit |
| `Analysis_proofs!TextReadInFull` | `TextIsReadInFull`, reports of any length |
| `Analysis_proofs!PageReadAsPrinted` | `PageIsReadAsPrinted`, pages of any size |
| `Analysis_proofs!ExchangeSafe` | `ExchangeIsSafe`, any number of exchanges |

*Plans, overlapping.* A proposed plan keeps a pending approval because a
decision decides only the approval of its own plan and moves that plan in the
same commit. `ConcurrentInv` says where a request may be for each operation, that
only committed submits have approval rows, and that `open` is an approval of the
request's plan.

*Plans, in turn.* `SerialInv`: one request in progress; what it read is still so
when it writes (`StillSo`); pending approvals belong to proposed plans and are
unique. `CreateInv`: a plan's row is made by one createPlan. With these each
`Commit` is a `Create`, `Submit` or `Decide` of `PlanLifecycle` and every other
step stutters.

*Accountability.* `AccountInv` is about the audit log only, not about who is in
progress: a plan that was proposed has an audited submit on it, a decided one an
audited decision, and a decided approval both. The log only grows
(`EvidenceStays`), so only the `Commit` that moves a plan has to show its
evidence, and it writes that in the same transaction.

*The audit log.* `AuditInv`: it has exactly the requests that have committed,
since whoever gets to COMMIT has inserted its row (`RequestInv`), and a rollback
takes that along. `RowsInv` relates it to recommendations and plans. `RivalInv`
adds that an audited submit has left an approval, and that a decision which
found none has a rival already: the approval of the submit that proposed the
plan is decided, by an audited decision on the same plan (`NoneFound`). A commit
that overrules a recorded decision is a rival of it.

*Waiting.* Liveness cannot be proved here, but its safety half can: that whoever
cannot take its next statement waits for somebody who can, and that each step
goes strictly forward (`Place` of the program counter grows), so that a request
takes at most as many steps as its handler has statements, and one to answer.
`CanProceed` is the guard of `Step`. A plan request waits only for an approval
row and then for the plan's row, and every transaction locks them in that order,
so that a chain has at most two links. An import that holds a new well or
wellbore meets no other key that is held, since every further row it inserts
hangs on what only it can see: whoever is waited for does not wait. A request
for tenant data has at most one connection and never waits for a second
(`PoolSuffices`): a pool of one is slow, not stuck. What remains for fairness is
that a request that can go on does.

*Access.* `AccessRunsOut` is an action property: from a state in which the user
is inactive, no step adds to the pairs under way or to the access tokens that are
accepted, other than by answering with a pair that was under way.

*Sessions.* `SessionInv`: a pair is signed once, for the user and session it was
asked for, and only such pairs are stored. Since `IssueFor` stores a pair that
had no session before, it never stores an old one. The type invariant needs it
too: the session of a new pair is looked up through the presented token. In turn,
`SerialInv` adds that what a refresh compared is still stored when it writes and
that an exchanged token is stored no more.

*Import.* `FilingInv`: where the rows are that a request found or inserted
(`Placed`), that a key inserted by a transaction in progress is neither committed
nor inserted by another (`KeysHeld`), and that committed keys are unique. Two
reports of one day of a well then have the same well by its name, the same
wellbore, and are the same by the day.

*Import, conflicts and turns.* A request that is refused has a committed report
of its well and day, and committed reports stay (`Refused`). In turn, what a
request did not find is still absent when it inserts (`StillAbsent`), since only
itself could have inserted it: so no insert meets a constraint, and a bit it
inserts is the only one (`TurnsInv`). Overlapping, `NameInv` follows a request to
the well it names: an insert that meets a committed key meets a row another
request has committed, with its report, on a well of that name.

*Tenant scope.* `IInv`: a held connection is in a transaction of its holder, who
holds no other (`HolderInv`); from `SET LOCAL` to the end it carries the holder's
client (`ScopedInv`), and a free one carries none, which is what makes the next
use safe; a row belongs to the client of the request that wrote it, and what was
answered before a request arrived is there (`RowsInv`). What an answer leaves out
stays older or newer than what is in it, because a run's `created_at` does not
change (`AnswersKept`). The refinement then maps
each client to the rows it owns: a read sees that set because the setting is the
claim, a commit adds to it, everything else stutters.

*Provisioning.* `SeedInv`: before the count the demo runs are both there or both
missing unless a seed was cut between them; after a success there are runs, so that
no seed gets past the count again, unless that success was with a warning, and then
nothing was created past it. `InOrder`: rows are never deleted by the seed or the
application's edits, so what is there is always a beginning of the list of
statements that write. `EtlInv`: what is loading is a function of the
source and the phase. That every selected row has its report needs the first row
of its key, which exists because the naturals are well-founded (`FirstRow`), and
that it is the only one (`OneReport`); that a mud row has the last loss of its
interval is `LastLoss`.

*Web.* `SessionInv`: what is stored was not signed out of; in a tab nobody else
has disturbed, what is stored, shown, asked for and cached is of one session.
What a step sends, a sign-out among it, has the stored session in its header
(`SentIsStored`). `FormInv`:
at most one of the uploads belongs to the open page, and it is of the picked file
unless that was changed.

*Exchange.* `ExchangeInv` keeps database and document records with their fields;
`ImportRowIs` is the one row: idempotent, in its client, and restoring. An import
that is refused is refused again, since it changed nothing.

*Computations.* An input of `Analysis` only grows, so the inductive invariants
are short: a sweep is a sequence of recorded points (`SweepInv`), the runs are
recorded runs (`RunsInv`), the lines are lines (`LinesInv`). They are
what the functions are defined on, the runs with a metric that is absent and a
footage of zero among them. The work is in the functions.

- *Sums.* `DrillOff_proofs` has what the community modules' folds lack here: a
  sum over a finite set exists and is unique, and one may add a point to it, split
  it by groups, bound it by the least and the greatest (`SumAdd`, `SumGroups`,
  `SumBounds`). They are proved by induction on the size of the set, stated for
  the set of sizes at which a claim holds (`FiniteInduction`), since a theorem
  with an operator for a parameter cannot be used. That the rollups of the dashboard
  add up, and that an overall ROP is between the slowest and the best, are then
  cases of them.
- *Founder.* `BinnedOnce` gives each point one bin, `CurveIsCurve` each bin a
  mean. A step of a curve that rises and has not fallen gains at least
  `Threshold` times a positive slope (`StepUp`). If some bin below the optimum
  were as fast as it, take the highest such bin: its step up gains, and the next
  bin is slower than the optimum or is the optimum (`Fastest`). With one point
  in each of even bins the steps of the two detectors are the same (`EvenCurve`,
  `DetectIs`, `FallenIs`), so for one share they stop at the same step, of which
  they report the two ends; a step too flat for a share is too flat for a
  greater one (`FlatterShare`), and a rising MSE only removes steps
  (`Detectors`).
- *Statistics.* `KthIsSorted` characterises a sorted place without sorting: fewer
  than `k` values below it and at least `k` at or below. Quartiles (`Quartiles`),
  ranks (`RanksFair`) and outliers (`OutsideFence`) follow by counting. A fence has
  no side because the mirror image of the list has the mirrored places
  (`SortedMirror`, `QuartilesMirror`), which interpolation respects.
- *Limit.* The oldest `n` of a set are all of it exactly if it has no more than
  `n`; the oldest of the oldest are the oldest, and of an earlier part of the
  history they are the same up to there (`OldestAreAll`, `OldestOfOldest`,
  `OldestUpTo`). Nothing else is needed for the flag and for what is never pushed
  out.
- *Agreement.* Asked for one well, the tab has the places that the dashboard
  groups under it (`AnswerForWell`), and JSON takes nothing from them that a curve
  looks at (`CurveSame`), so both detect a founder or neither does (`Founders`).
  Negative footage is split off both totals (`Views`), and NPT hours are compared
  report by report (`LostIs`, `Reports`).
- *Text.* The log is read by a recursive function of the line; its value is
  pinned by existence and uniqueness of what was read up to a line (`ReadExists`,
  `ReadUnique`), and the claim is an induction over lines (`LogRead`).
- *Page.* Every recursive function over the first naturals exists (`Recursion`), so
  what `Layout` has left after `k` lines is defined; by induction it is what was
  printed below the `k`-th line that has text, since the items of a line are at
  most two points apart and lines at least four (`LayoutIs`, `RowsOfPage`). Within a
  line items have different places, and the `k`-th from the left is the one with
  `k - 1` to its left (`NthIs`). Where no item runs into its neighbour each keeps
  its own column (`LineIs`), so that cutting the second line at labels of the
  first gives each column of a value to the last label at or before it (`SliceIs`).

Statements that hold under a condition or with an exception name it, and it is the
code's: the exceptions are listed above, the dashboard's founder rate is compared
with the tab's when its runs were not truncated (`DashboardAgrees`), and nothing is
said of the demo runs of a tenant that has runs of its own (`DemoRunsAreWhole`).

*Only model-checked:* the four properties under fairness (`EveryRequestAnswered`
three times, `RerunRepairs`), which TLAPS cannot do. The theorems on waiting and
on what a seed leaves are the parts of them that can be stated without fairness.
Every safety property and action property that a run finds to hold has a
theorem. `CanProceed` and `CanGoOn` restate guards, since ENABLED is out of the
prover's reach; that they are `ENABLED Step(r)` was compared with TLC on the
bounds of the runs.

## Plan and what is left

Written in this order, each checked and then proved: the plan workflow; sessions;
import and capture; tenant scope with the transactions of reports and dashboard;
the computations; seed and migration; the web session with the import page.
`MCx` modules and `.cfg` files go with each, abstract specifications where a part
promises more than an invariant says.

What a next step would add:

1. The plan panel and the capture forms of the web client, against the services
   they call: pressing again after a lost answer.
2. Composition of `ImportTab` with `DdrImport`, for two tabs importing one file.
3. The lookup and well tables of the migration.
4. Several wellbores of one well in `DdrImport`, once the code creates them.
5. The WITSML exchange, the import and the capture forms against `RopRuns`: the
   runs that `Analysis` records are those the schemas accept, not those a
   particular writer leaves.

## Not modelled

- *Roles.* `RolesGuard` decides, without state, who may send a request; the
  modules let any request arrive.
- *SSO and ERP stubs, ML service.* Configuration and health checks; nothing
  changes state.
- *Operations.* `run.sh` and CI are process control; dump and restore are external
  programs. Of them only running the seed is in a module.
- *Rendering* of workbooks, PDFs, pages and charts; the HTTP layer and input
  validation; OpenAPI and logging: no state, or layout only.
- *Capture forms and plan panel* of the web client: see what is left.
- *Single-number patterns* of the DDR parser (bit, mud, DDR number): regular
  expressions on one line, better tested than modelled.
- *Floating-point formulas* (MSE, hydraulics, cost, depth of cut, dysfunction
  thresholds): out of TLC's reach; only their divisions are modelled, in `RopRuns`.
- *Lookup and well tables* of `etl.py`: row-by-row copies.
- *Network failures* of a query in `WebSession`: they are retried like an answer
  that never came and change nothing that is stored. Uploads may fail.
- Foreign keys other than those the modules follow, and lookup tables: nothing
  deletes or changes the rows they name.
