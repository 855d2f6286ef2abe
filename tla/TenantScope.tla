---------------------------- MODULE TenantScope ----------------------------
(***************************************************************************)
(* PrismaService.tenant and runForTenant, the row-level security policies  *)
(* and the handlers of reports.service.ts and dashboard.service.ts that    *)
(* run several tenant transactions. JwtAuthGuard puts the client id of the *)
(* verified token in the request's CLS store; each transaction takes a     *)
(* pooled connection, issues SET LOCAL app.current_client_id and runs its  *)
(* statement; PostgreSQL shows and accepts only rows of that client.       *)
(* A request is used once and names the row it inserts; a seeded bit run   *)
(* is named by its client, a captured one has the parameters RopRuns asks  *)
(* for, and a daily report stands for its activities.                      *)
(* Statements outside tenant() run with no client set, as the database     *)
(* gate test does on purpose. The clients whose requests arrive are        *)
(* distinct values, and None is a token without one.                       *)
(***************************************************************************)
EXTENDS Naturals, Sequences, FiniteSets

CONSTANTS
  Req,      \* requests, numbered as they arrive
  Conn,     \* connections of the pool
  Tenant,   \* clients
  None,     \* no client, no request
  MAX_POINTS,   \* how many bit runs a query of rop.service.ts keeps
  MAX_REPORTS,  \* how many daily reports the workbook's query takes
  MaxReaders    \* how many requests of a client may be no captures (bound)

ASSUME NoneAssumption == None \notin Req \union Tenant
ASSUME DisjointAssumption == Req \intersect Tenant = {}
ASSUME FiniteAssumption == IsFiniteSet(Req) /\ IsFiniteSet(Tenant)
ASSUME NumberAssumption == Req \subseteq Nat
ASSUME LimitAssumption == MAX_POINTS \in Nat /\ MAX_REPORTS \in Nat

VARIABLES
  pc,       \* request -> its next step, or its answer
  op,       \* request -> its operation
  claim,    \* request -> the client id in its CLS store
  txn,      \* request -> how many of its transactions have committed
  holder,   \* connection -> the request whose transaction it runs
  setting,  \* connection -> its app.current_client_id
  rows,     \* committed rows: id -> client_id, None where there is none
  clock,    \* the last created_at given to a bit run
  created,  \* id -> its created_at, 0 for a seeded run or none
  exports,  \* committed audit_log rows: request -> what it recorded
  reads,    \* request -> what its reads returned, in order
  before    \* request -> the rows of answered captures when it arrived (history)

vars == <<pc, op, claim, txn, holder, setting, rows, clock, created,
          exports, reads, before>>

\* The transactions of an operation, one after another: the table it reads,
\* or what it inserts. Between those of an export it renders the workbook or
\* the PDF. A list is a dashboard's first read.
Program ==
  [captureRun |-> <<"insert">>, captureReport |-> <<"insert">>,
   exportRuns |-> <<"bit_run", "audit">>, exportReports |-> <<"daily_report", "audit">>,
   kpis |-> <<"bit_run", "activity">>, untenanted |-> <<"bit_run">>]
Op == DOMAIN Program
InTxn == {"begun", "scoped", "queried"}
Capture == {"captureRun", "captureReport"}
Export == {"exportRuns", "exportReports"}
Readable == {"bit_run", "daily_report", "activity"}

\* Whether a row answers a query of that table: activities come with their
\* daily report.
In(i, table) ==
  IF table = "bit_run" THEN i \in Tenant \/ op[i] = "captureRun"
                       ELSE i \in Req /\ op[i] = "captureReport"

\* current_setting is NULL outside a scope: the policy's predicate is then
\* not true of any row.
\* Mutant: an unset client id matches every row.
Visible_FailOpen(c) == {i \in DOMAIN rows :
  rows[i] # None /\ (setting[c] = None \/ rows[i] = setting[c])}
Visible(c) == {i \in DOMAIN rows : rows[i] # None /\ rows[i] = setting[c]}

\* A findMany of bit runs takes so many, oldest first; one of daily reports
\* so many, by the date that the user gave them; one of activities takes all.
Full(S, table) == \/ table = "bit_run" /\ Cardinality(S) = MAX_POINTS
                  \/ table = "daily_report" /\ Cardinality(S) = MAX_REPORTS
TooMany(S, table) == \/ table = "bit_run" /\ Cardinality(S) > MAX_POINTS
                     \/ table = "daily_report" /\ Cardinality(S) > MAX_REPORTS

\* Whether an answer S may leave out row q, which is there.
LeftOut(q, S, table) ==
  Full(S, table) /\ (table = "bit_run" => \A i \in S : created[i] <= created[q])

\* What a findMany of a table may return on connection c.
Answers(c, table) ==
  LET V == {i \in Visible(c) : In(i, table)} IN
  {S \in SUBSET V : ~TooMany(S, table) /\ \A q \in V \ S : LeftOut(q, S, table)}

Init ==
  /\ pc = [r \in Req |-> "new"]
  /\ op = [r \in Req |-> "kpis"]
  /\ claim = [r \in Req |-> None]
  /\ txn = [r \in Req |-> 0]
  /\ holder = [c \in Conn |-> None]
  /\ setting = [c \in Conn |-> None]
  /\ rows = [i \in Req \union Tenant |-> IF i \in Tenant THEN i ELSE None]
  /\ clock = 0
  /\ created = [i \in Req \union Tenant |-> 0]
  /\ exports = [r \in Req |-> None]
  /\ reads = [r \in Req |-> <<>>]
  /\ before = [r \in Req |-> {}]
-----------------------------------------------------------------------------
Goto(r, label) == pc' = [pc EXCEPT ![r] = label]
DatabaseUnchanged == UNCHANGED <<rows, clock, created, exports>>
RequestUnchanged == UNCHANGED <<op, claim, before>>

Reader == {q \in Req : claim[q] # None /\ op[q] \notin Capture}
Captured == {q \in Req : pc[q] = "answered" /\ op[q] \in Capture}

\* The guard verifies the token and stores its client id.
Authenticate(r, o, t) ==
  /\ pc[r] = "new" /\ \A q \in Req : q < r => pc[q] # "new"
  /\ t = None \/ o \in Capture \/ Cardinality(Reader) < MaxReaders
  /\ op' = [op EXCEPT ![r] = o]
  /\ claim' = [claim EXCEPT ![r] = t]
  /\ before' = [before EXCEPT ![r] = {q \in Captured : claim[q] = t}]
  /\ Goto(r, "ready")
  /\ UNCHANGED <<txn, holder, setting, reads>> /\ DatabaseUnchanged

\* tenant(): without a client in scope it throws before any connection is
\* taken.
NoTenantInScope(r) ==
  /\ pc[r] = "ready" /\ claim[r] = None /\ op[r] # "untenanted"
  /\ Goto(r, "failed")
  /\ UNCHANGED <<txn, holder, setting, reads>> /\ DatabaseUnchanged /\ RequestUnchanged

\* $transaction: a free connection, BEGIN.
Begin(r, c) ==
  /\ pc[r] = "ready"
  /\ claim[r] # None \/ op[r] = "untenanted"
  /\ holder[c] = None
  /\ holder' = [holder EXCEPT ![c] = r]
  /\ Goto(r, "begun")
  /\ UNCHANGED <<txn, setting, reads>> /\ DatabaseUnchanged /\ RequestUnchanged

\* No connection became free within maxWait.
Refuse(r) ==
  /\ pc[r] = "ready"
  /\ \A c \in Conn : holder[c] # None
  /\ Goto(r, "failed")
  /\ UNCHANGED <<txn, holder, setting, reads>> /\ DatabaseUnchanged /\ RequestUnchanged

\* SET LOCAL. Mutant: the client id of whoever arrived last, as a field of
\* the service would hold it, in place of the request's own.
SetClient_Shared(r, c) ==
  /\ pc[r] = "begun" /\ holder[c] = r /\ op[r] # "untenanted"
  /\ \E q \in Req : /\ claim[q] # None
                    /\ setting' = [setting EXCEPT ![c] = claim[q]]
  /\ Goto(r, "scoped")
  /\ UNCHANGED <<txn, holder, reads>> /\ DatabaseUnchanged /\ RequestUnchanged
SetClient(r, c) ==
  /\ pc[r] = "begun" /\ holder[c] = r /\ op[r] # "untenanted"
  /\ setting' = [setting EXCEPT ![c] = claim[r]]
  /\ Goto(r, "scoped")
  /\ UNCHANGED <<txn, holder, reads>> /\ DatabaseUnchanged /\ RequestUnchanged

MayQuery(r) == pc[r] = IF op[r] = "untenanted" THEN "begun" ELSE "scoped"
Body(r) == Program[op[r]][txn[r] + 1]

\* A findMany: of the rows the policy shows, committed by now, what fits.
ReadRows(r, c) ==
  /\ MayQuery(r) /\ holder[c] = r /\ Body(r) \in Readable
  /\ \E S \in Answers(c, Body(r)) : reads' = [reads EXCEPT ![r] = Append(@, S)]
  /\ Goto(r, "queried")
  /\ UNCHANGED <<txn, holder, setting>> /\ DatabaseUnchanged /\ RequestUnchanged

\* An insert of a bit run, a daily report or the audit row of an export, with
\* the user's client_id. WITH CHECK accepts it when that is the transaction's
\* client. A run's created_at is fixed now; rows are visible at COMMIT.
WriteRow(r, c) ==
  /\ MayQuery(r) /\ holder[c] = r /\ Body(r) \in {"insert", "audit"}
  /\ setting[c] = claim[r]
  /\ \/ /\ op[r] = "captureRun"
        /\ clock' = clock + 1
        /\ created' = [created EXCEPT ![r] = clock + 1]
     \/ /\ op[r] # "captureRun"
        /\ UNCHANGED <<clock, created>>
  /\ Goto(r, "queried")
  /\ UNCHANGED <<txn, holder, setting, reads, rows, exports>> /\ RequestUnchanged

\* The end of a transaction: SET LOCAL is undone and the connection is free.
\* Mutant: the setting was made with SET.
ReleaseConn_Session(c) == holder' = [holder EXCEPT ![c] = None] /\ UNCHANGED setting
ReleaseConn(c) ==
  /\ holder' = [holder EXCEPT ![c] = None]
  /\ setting' = [setting EXCEPT ![c] = None]

\* What a transaction leaves behind: the captured row, or the audit row with
\* the number of rows exported.
\* Mutants: the audit row counts what the table holds by now; a capture is
\* answered though its row may not be there.
Publish_Recount(r) ==
  /\ rows' = IF Body(r) = "insert" THEN [rows EXCEPT ![r] = claim[r]] ELSE rows
  /\ exports' = IF Body(r) = "audit"
                THEN [exports EXCEPT ![r] = Cardinality({i \in DOMAIN rows : rows[i] = claim[r]})]
                ELSE exports
Publish_Unawaited(r) ==
  /\ \/ Body(r) = "insert" /\ rows' = [rows EXCEPT ![r] = claim[r]]
     \/ UNCHANGED rows
  /\ exports' = IF Body(r) = "audit"
                THEN [exports EXCEPT ![r] = Cardinality(reads[r][1])] ELSE exports
Publish(r) ==
  /\ rows' = IF Body(r) = "insert" THEN [rows EXCEPT ![r] = claim[r]] ELSE rows
  /\ exports' = IF Body(r) = "audit"
                THEN [exports EXCEPT ![r] = Cardinality(reads[r][1])] ELSE exports

\* COMMIT. The handler goes on to its next transaction or answers.
Commit(r, c) ==
  /\ pc[r] = "queried" /\ holder[c] = r
  /\ Publish(r)
  /\ txn' = [txn EXCEPT ![r] = @ + 1]
  /\ Goto(r, IF txn[r] + 1 = Len(Program[op[r]]) THEN "answered" ELSE "ready")
  /\ ReleaseConn(c)
  /\ UNCHANGED <<reads, clock, created>> /\ RequestUnchanged

\* A statement fails, the transaction exceeds its timeout, or the connection
\* is lost: ROLLBACK, and the handler throws.
\* Mutant: the connection is not returned to the pool.
Rollback_Leak(r, c) ==
  /\ pc[r] \in InTxn /\ holder[c] = r
  /\ Goto(r, "failed")
  /\ UNCHANGED <<txn, holder, setting, reads>> /\ DatabaseUnchanged /\ RequestUnchanged
Rollback(r, c) ==
  /\ pc[r] \in InTxn /\ holder[c] = r
  /\ Goto(r, "failed")
  /\ ReleaseConn(c)
  /\ UNCHANGED <<txn, reads>> /\ DatabaseUnchanged /\ RequestUnchanged

OnConn(r, c) == \/ Begin(r, c) \/ SetClient(r, c) \/ ReadRows(r, c)
                \/ WriteRow(r, c) \/ Commit(r, c)
Step(r) == NoTenantInScope(r) \/ \E c \in Conn : OnConn(r, c)

Next == \E r \in Req :
  \/ \E o \in Op \ {"untenanted"}, t \in Tenant : Authenticate(r, o, t)
  \/ \E o \in {"kpis", "untenanted"} : Authenticate(r, o, None)
  \/ Step(r) \/ Refuse(r)
  \/ \E c \in Conn : Rollback(r, c)

Spec == Init /\ [][Next]_vars
\* The event loop resumes a handler when its statement returns or a
\* connection is free; nothing says that a transaction fails.
FairSpec == Spec /\ \A r \in Req : WF_vars(Step(r))
-----------------------------------------------------------------------------
TypeOK ==
  /\ pc \in [Req -> {"new", "ready", "answered", "failed"} \union InTxn]
  /\ op \in [Req -> Op]
  /\ claim \in [Req -> Tenant \union {None}]
  /\ txn \in [Req -> 0..2]
  /\ holder \in [Conn -> Req \union {None}]
  /\ setting \in [Conn -> Tenant \union {None}]
  /\ rows \in [Req \union Tenant -> Tenant \union {None}]
  /\ clock \in Nat /\ created \in [Req \union Tenant -> Nat]
  /\ exports \in [Req -> Nat \union {None}]
  /\ reads \in [Req -> Seq(SUBSET (Req \union Tenant))]
  /\ before \in [Req -> SUBSET Req]

\* rls.test.ts: a request sees rows of its own client only, and none when no
\* client is set, whatever connection it gets and whoever used it before.
OnlyOwnRows ==
  \A r \in Req : \A k \in DOMAIN reads[r] : \A i \in reads[r][k] :
    claim[r] # None /\ rows[i] = claim[r]

\* "SET LOCAL is transaction-scoped and therefore connection-pool safe": a
\* connection carries the client of the transaction it runs, or none.
ScopeEndsWithTransaction ==
  \A c \in Conn : setting[c] # None =>
    /\ holder[c] # None
    /\ setting[c] = claim[holder[c]]
    /\ pc[holder[c]] \in {"scoped", "queried"}

\* "Every download is audited", with the number of rows that are in the file,
\* though the audit row is written in a later transaction than the read.
ExportIsAudited ==
  \A r \in Req : op[r] \in Export /\ pc[r] = "answered" =>
    exports[r] = Cardinality(reads[r][1])

\* What a client was told is captured is in everything it asks for later, in
\* each read of a dashboard or an export, though they are transactions of
\* their own on other connections; only a full answer leaves any of it out,
\* and one of bit runs only what was created after all that is in it. An
\* answer of activities is never full.
AnsweredIsVisible ==
  \A r \in Req : claim[r] # None => \A k \in DOMAIN reads[r] :
    \A q \in before[r] \ reads[r][k] : In(q, Program[op[r]][k]) =>
      LeftOut(q, reads[r][k], Program[op[r]][k])

\* A request that passed the guard is answered, or fails, without having to
\* wait for somebody's timeout: no request keeps a connection while it waits
\* for another, so a pool of any size suffices.
EveryRequestAnswered ==
  \A r \in Req : pc[r] = "ready" ~> pc[r] \in {"answered", "failed"}

\* The shared database looks like one private database for each client.
Databases == INSTANCE TenantDatabases WITH
  database <- [t \in Tenant |-> [table \in {"bit_run", "daily_report"} |->
                 {i \in Req \union Tenant : rows[i] = t /\ In(i, table)}]]
DatabasesSpec == Databases!Spec
=============================================================================
