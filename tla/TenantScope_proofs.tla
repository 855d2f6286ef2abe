------------------------- MODULE TenantScope_proofs -------------------------
(***************************************************************************)
(* Theorems about TenantScope, for any clients, any requests and a pool of *)
(* any size.                                                               *)
(***************************************************************************)
EXTENDS TenantScope, FiniteSetTheorems, TLAPS

-----------------------------------------------------------------------------
(***************************************************************************)
(* The inductive invariant, in parts.                                      *)
(***************************************************************************)
\* A request that has not arrived has done nothing.
FreshInv == \A r \in Req : pc[r] = "new" =>
  claim[r] = None /\ txn[r] = 0 /\ reads[r] = <<>> /\ before[r] = {} /\ rows[r] = None

\* An operation that is under way has a transaction left to run, and a
\* client, unless it is the one that goes without.
ProgressInv == \A r \in Req :
  /\ pc[r] \in {"ready"} \union InTxn => txn[r] < Len(Program[op[r]])
  /\ pc[r] # "new" /\ op[r] = "untenanted" => claim[r] = None
  /\ pc[r] \in {"answered"} \union InTxn /\ op[r] # "untenanted" => claim[r] # None

\* A connection that is held rows the transaction of its holder, who holds no
\* other one.
HolderInv == \A c \in Conn : holder[c] # None =>
  /\ pc[holder[c]] \in InTxn
  /\ \A d \in Conn : holder[d] = holder[c] => d = c

\* From SET LOCAL on it carries the holder's client.
ScopedInv == \A c \in Conn :
  holder[c] # None /\ pc[holder[c]] \in {"scoped", "queried"}
    /\ op[holder[c]] # "untenanted" => setting[c] = claim[holder[c]]

\* A row belongs to the client of the request that wrote it; a capture that
\* is answered has its row, and what was captured before a request arrived
\* is there.
RowsInv == \A r \in Req :
  /\ rows[r] # None => rows[r] = claim[r]
  /\ pc[r] = "answered" /\ op[r] \in Capture => rows[r] = claim[r]
  /\ \A q \in before[r] : rows[q] # None /\ rows[q] = claim[r]
  /\ pc[r] # "answered" => rows[r] = None

\* A request has read in each of its transactions that does: an export has
\* before it is audited.
ReadInv == \A r \in Req :
  /\ pc[r] \in {"ready", "begun", "scoped"} => Len(reads[r]) = txn[r]
  /\ pc[r] = "queried" =>
       Len(reads[r]) = IF Body(r) \in Readable THEN txn[r] + 1 ELSE txn[r]

IInv == /\ TypeOK /\ FreshInv /\ ProgressInv /\ HolderInv /\ ScopedInv
        /\ ScopeEndsWithTransaction /\ RowsInv /\ ReadInv
        /\ OnlyOwnRows /\ ExportIsAudited /\ AnsweredIsVisible

\* The transactions of each operation.
LEMMA Programs ==
  /\ Op = {"captureRun", "captureReport", "exportRuns", "exportReports", "kpis", "untenanted"}
  /\ \A o \in Capture : o \in Op /\ Len(Program[o]) = 1 /\ Program[o][1] = "insert"
  /\ \A o \in Export : /\ o \in Op /\ o \notin Capture
                       /\ Len(Program[o]) = 2 /\ Program[o][2] = "audit"
  /\ Program["exportRuns"][1] = "bit_run" /\ Program["exportReports"][1] = "daily_report"
  /\ Len(Program["kpis"]) = 2
  /\ Program["kpis"][1] = "bit_run" /\ Program["kpis"][2] = "activity"
  /\ Len(Program["untenanted"]) = 1 /\ Program["untenanted"][1] = "bit_run"
  /\ \A o \in Op : Len(Program[o]) \in {1, 2}
BY DEF Program, Op, Capture, Export

\* What a request under way is about to do, and with which client.
LEMMA BodyOf ==
  ASSUME IInv, NEW r \in Req, pc[r] \in {"ready"} \union InTxn
  PROVE  /\ txn[r] \in {0, 1} /\ op[r] \in Op
         /\ Body(r) \in Readable \union {"insert", "audit"}
         /\ Body(r) = "insert" <=> op[r] \in Capture
         /\ Body(r) = "audit" <=> op[r] \in Export /\ txn[r] = 1
         /\ op[r] \in Capture => txn[r] = 0
         /\ Body(r) \in Readable <=> Body(r) \notin {"insert", "audit"}
         /\ Len(Program[op[r]]) \in {1, 2} /\ txn[r] < Len(Program[op[r]])
         /\ Body(r) \in {"insert", "audit"} => txn[r] + 1 = Len(Program[op[r]])
<1> USE DEF Readable
<1>1. op[r] \in Op /\ txn[r] \in 0..2 /\ txn[r] < Len(Program[op[r]])
  BY DEF IInv, TypeOK, ProgressInv
<1>2. CASE op[r] \in Capture
  <2>1. Len(Program[op[r]]) = 1 /\ Program[op[r]][1] = "insert" /\ op[r] \notin Export
    BY <1>2, Programs
  <2>2. txn[r] = 0
    BY <1>1, <2>1
  <2> QED BY <1>1, <1>2, <2>1, <2>2 DEF Body
<1>3. CASE op[r] \in Export
  <2>1. /\ Len(Program[op[r]]) = 2 /\ Program[op[r]][2] = "audit" /\ op[r] \notin Capture
        /\ Program[op[r]][1] \in {"bit_run", "daily_report"}
    BY <1>3, Programs DEF Export
  <2>2. txn[r] \in {0, 1}
    BY <1>1, <2>1
  <2> QED BY <1>1, <1>3, <2>1, <2>2 DEF Body
<1>4. CASE op[r] = "kpis"
  <2>1. op[r] \notin Capture /\ op[r] \notin Export
    BY <1>4 DEF Capture, Export
  <2> QED BY <1>1, <1>4, <2>1, Programs DEF Body
<1>5. CASE op[r] = "untenanted"
  <2>1. op[r] \notin Capture /\ op[r] \notin Export
    BY <1>5 DEF Capture, Export
  <2> QED BY <1>1, <1>5, <2>1, Programs DEF Body
<1> QED BY <1>1, <1>2, <1>3, <1>4, <1>5, Programs DEF Capture, Export

\* Answers that were given stay right: their rows, and those captured before
\* the request came, keep their table and their created_at.
LEMMA AnswersKept ==
  ASSUME IInv, UNCHANGED reads,
         \A q \in Req : pc[q] # "new" =>
           op'[q] = op[q] /\ claim'[q] = claim[q] /\ before'[q] = before[q],
         \A i \in Req \union Tenant : rows[i] # None => created'[i] = created[i]
  PROVE  AnsweredIsVisible'
<1> USE DEF IInv, TypeOK
<1> SUFFICES ASSUME NEW q \in Req, NEW k \in DOMAIN reads[q], claim'[q] # None,
                    NEW p \in before'[q] \ reads[q][k], In(p, Program[op[q]][k])'
             PROVE  LeftOut(p, reads[q][k], Program[op[q]][k])'
  BY DEF AnsweredIsVisible, In, LeftOut, Full
<1>1. pc[q] # "new"
  BY DEF FreshInv
<1>2. op'[q] = op[q] /\ claim'[q] = claim[q] /\ before'[q] = before[q]
  BY <1>1
<1>3. p \in Req /\ rows[p] # None /\ pc[p] # "new" /\ op'[p] = op[p]
  BY <1>2 DEF RowsInv, FreshInv
<1>4. In(p, Program[op[q]][k])
  BY <1>2, <1>3 DEF In
<1>5. \A i \in reads[q][k] : i \in Req \union Tenant /\ created'[i] = created[i]
  BY <1>2 DEF OnlyOwnRows
<1>6. created'[p] = created[p]
  BY <1>3
<1>7. LeftOut(p, reads[q][k], Program[op[q]][k])
  BY <1>2, <1>4 DEF AnsweredIsVisible
<1> QED BY <1>2, <1>5, <1>6, <1>7 DEF LeftOut, Full

\* What was read is counted as long as no transaction reads or ends.
LEMMA ReadsCounted ==
  ASSUME IInv, UNCHANGED <<reads, txn>>,
         \A q \in Req :
           /\ pc'[q] \in {"ready", "begun", "scoped"} => pc[q] \in {"new", "ready", "begun", "scoped"}
           /\ pc'[q] = "queried" => pc[q] = "queried" /\ op'[q] = op[q]
  PROVE  ReadInv'
<1> SUFFICES ASSUME NEW q \in Req
             PROVE  /\ pc'[q] \in {"ready", "begun", "scoped"} => Len(reads[q]) = txn[q]
                    /\ pc'[q] = "queried" =>
                         Len(reads[q]) = IF Body(q)' \in Readable THEN txn[q] + 1 ELSE txn[q]
  BY DEF ReadInv
<1>1. pc[q] = "new" => Len(reads[q]) = txn[q]
  BY DEF IInv, FreshInv
<1>2. op'[q] = op[q] => Body(q)' = Body(q)
  BY DEF Body
<1> QED BY <1>1, <1>2 DEF IInv, ReadInv

\* An arrival keeps the invariant.
LEMMA AuthenticateStep ==
  ASSUME IInv, NEW r \in Req, NEW o \in Op, NEW t \in Tenant \union {None},
         t = None => o \in {"kpis", "untenanted"}, t # None => o # "untenanted",
         Authenticate(r, o, t)
  PROVE  IInv'
<1> USE NoneAssumption, DisjointAssumption DEF IInv, TypeOK, Goto, DatabaseUnchanged, RequestUnchanged, InTxn
<1>1. TypeOK'
  BY DEF Authenticate, Captured
<1>2. FreshInv'
  BY DEF Authenticate, Captured, FreshInv
<1>3. ProgressInv'
  <2>1. txn'[r] = 0 /\ 0 < Len(Program[op'[r]]) /\ claim'[r] = t /\ op'[r] = o /\ pc'[r] = "ready"
    BY Programs DEF Authenticate, FreshInv
  <2>2. \A q \in Req \ {r} : txn'[q] = txn[q] /\ op'[q] = op[q] /\ pc'[q] = pc[q] /\ claim'[q] = claim[q]
    BY DEF Authenticate
  <2> QED BY <2>1, <2>2 DEF ProgressInv
<1>4. HolderInv'
  BY DEF Authenticate, Captured, HolderInv
<1>5. ScopedInv'
  BY DEF Authenticate, Captured, ScopedInv, HolderInv, ScopeEndsWithTransaction
<1>6. ScopeEndsWithTransaction'
  BY DEF Authenticate, Captured, ScopeEndsWithTransaction, HolderInv
<1>7. RowsInv'
  <2>1. \A q \in before'[r] : rows[q] # None /\ rows[q] = t
    BY DEF Authenticate, Captured, RowsInv, ProgressInv, Capture
  <2>2. /\ claim'[r] = t /\ rows[r] = None /\ pc'[r] = "ready"
        /\ \A q \in Req \ {r} : UNCHANGED <<pc[q], op[q], claim[q], before[q]>>
        /\ UNCHANGED rows
    BY DEF Authenticate, FreshInv
  <2> QED BY <2>1, <2>2 DEF RowsInv
<1>8. ReadInv'
  BY ReadsCounted DEF Authenticate
<1>9. OnlyOwnRows'
  BY DEF Authenticate, Captured, OnlyOwnRows, FreshInv, RowsInv
<1>10. ExportIsAudited'
  BY DEF Authenticate, Captured, ExportIsAudited
<1>11. AnsweredIsVisible'
  BY AnswersKept DEF Authenticate
<1> QED BY <1>1, <1>2, <1>3, <1>4, <1>5, <1>6, <1>7, <1>8, <1>9, <1>10, <1>11 DEF IInv

\* A refusal keeps the invariant.
LEMMA RefusalStep ==
  ASSUME IInv, NEW r \in Req, NoTenantInScope(r) \/ Refuse(r)
  PROVE  IInv'
<1> USE NoneAssumption, DisjointAssumption DEF IInv, TypeOK, Goto, DatabaseUnchanged, RequestUnchanged, InTxn
<1> HIDE DEF Goto, DatabaseUnchanged, RequestUnchanged
<1>0. /\ pc[r] = "ready" /\ pc' = [pc EXCEPT ![r] = "failed"]
      /\ UNCHANGED <<op, claim, txn, holder, setting, rows, clock, created, exports, reads, before>>
  BY DEF NoTenantInScope, Refuse, Goto, DatabaseUnchanged, RequestUnchanged
<1>1. TypeOK'
  BY <1>0
<1>2. FreshInv'
  BY <1>0 DEF FreshInv
<1>3. ProgressInv'
  BY <1>0 DEF ProgressInv, FreshInv
<1>4. HolderInv'
  BY <1>0 DEF HolderInv
<1>5. ScopedInv'
  BY <1>0 DEF ScopedInv, HolderInv, ScopeEndsWithTransaction
<1>6. ScopeEndsWithTransaction'
  BY <1>0 DEF ScopeEndsWithTransaction, HolderInv
<1>7. RowsInv'
  BY <1>0 DEF RowsInv, FreshInv, ProgressInv
<1>8. ReadInv'
  BY <1>0, ReadsCounted
<1>9. OnlyOwnRows'
  BY <1>0 DEF OnlyOwnRows, FreshInv, RowsInv
<1>10. ExportIsAudited'
  BY <1>0 DEF ExportIsAudited
<1>11. AnsweredIsVisible'
  BY <1>0, AnswersKept
<1> QED BY <1>1, <1>2, <1>3, <1>4, <1>5, <1>6, <1>7, <1>8, <1>9, <1>10, <1>11 DEF IInv

\* BEGIN keeps the invariant.
LEMMA BeginStep ==
  ASSUME IInv, NEW r \in Req, NEW c \in Conn, Begin(r, c)
  PROVE  IInv'
<1> USE NoneAssumption, DisjointAssumption DEF IInv, TypeOK, Goto, DatabaseUnchanged, RequestUnchanged, InTxn
<1>1. TypeOK'
  BY DEF Begin
<1>2. FreshInv'
  BY DEF Begin, FreshInv
<1>3. ProgressInv'
  BY DEF Begin, ProgressInv, FreshInv
<1>4. HolderInv'
  BY DEF Begin, HolderInv
<1>5. ScopedInv'
  BY DEF Begin, ScopedInv, HolderInv, ScopeEndsWithTransaction
<1>6. ScopeEndsWithTransaction'
  BY DEF Begin, ScopeEndsWithTransaction, HolderInv
<1>7. RowsInv'
  BY DEF Begin, RowsInv, FreshInv, ProgressInv
<1>8. ReadInv'
  BY ReadsCounted DEF Begin
<1>9. OnlyOwnRows'
  BY DEF Begin, OnlyOwnRows, FreshInv, RowsInv
<1>10. ExportIsAudited'
  BY DEF Begin, ExportIsAudited
<1>11. AnsweredIsVisible'
  BY AnswersKept DEF Begin
<1> QED BY <1>1, <1>2, <1>3, <1>4, <1>5, <1>6, <1>7, <1>8, <1>9, <1>10, <1>11 DEF IInv

\* SET LOCAL keeps the invariant.
LEMMA SetClientStep ==
  ASSUME IInv, NEW r \in Req, NEW c \in Conn, SetClient(r, c)
  PROVE  IInv'
<1> USE NoneAssumption, DisjointAssumption DEF IInv, TypeOK, Goto, DatabaseUnchanged, RequestUnchanged, InTxn
<1>1. TypeOK'
  BY DEF SetClient
<1>2. FreshInv'
  BY DEF SetClient, FreshInv
<1>3. ProgressInv'
  BY DEF SetClient, ProgressInv, FreshInv
<1>4. HolderInv'
  BY DEF SetClient, HolderInv
<1>5. ScopedInv'
  BY DEF SetClient, ScopedInv, HolderInv, ScopeEndsWithTransaction
<1>6. ScopeEndsWithTransaction'
  BY DEF SetClient, ScopeEndsWithTransaction, HolderInv
<1>7. RowsInv'
  BY DEF SetClient, RowsInv, FreshInv, ProgressInv
<1>8. ReadInv'
  BY ReadsCounted DEF SetClient
<1>9. OnlyOwnRows'
  BY DEF SetClient, OnlyOwnRows, FreshInv, RowsInv
<1>10. ExportIsAudited'
  BY DEF SetClient, ExportIsAudited
<1>11. AnsweredIsVisible'
  BY AnswersKept DEF SetClient
<1> QED BY <1>1, <1>2, <1>3, <1>4, <1>5, <1>6, <1>7, <1>8, <1>9, <1>10, <1>11 DEF IInv

\* A read keeps the invariant.
LEMMA ReadStep ==
  ASSUME IInv, NEW r \in Req, NEW c \in Conn, ReadRows(r, c)
  PROVE  IInv'
<1> USE NoneAssumption, DisjointAssumption DEF IInv, TypeOK, Goto, DatabaseUnchanged, RequestUnchanged, InTxn
<1> USE DEF Readable
<1>s. PICK S \in Answers(c, Body(r)) : reads' = [reads EXCEPT ![r] = Append(reads[r], S)]
  BY DEF ReadRows
<1> DEFINE V == {i \in Visible(c) : In(i, Body(r))}
<1> DEFINE R == Append(reads[r], S)
<1>0. /\ reads[r] \in Seq(SUBSET (Req \union Tenant)) /\ S \subseteq V
      /\ S \in SUBSET (Req \union Tenant) /\ reads' = [reads EXCEPT ![r] = R]
  BY <1>s DEF Visible, Answers
<1>a. /\ Len(R) = Len(reads[r]) + 1 /\ R \in Seq(SUBSET (Req \union Tenant))
      /\ \A k \in DOMAIN R : \/ k \in DOMAIN reads[r] /\ R[k] = reads[r][k]
                             \/ k = Len(reads[r]) + 1 /\ R[k] = S
  BY <1>0
\* What the policy shows the request.
<1>b. \A i \in S : claim[r] # None /\ rows[i] = claim[r]
  BY <1>0 DEF ReadRows, Visible, ScopeEndsWithTransaction
<1>c. claim[r] # None => setting[c] = claim[r]
  BY DEF ReadRows, MayQuery, ProgressInv, ScopedInv
<1>d. /\ pc[r] \in {"begun", "scoped"} /\ Len(reads[r]) = txn[r] /\ Body(r) \in Readable
      /\ op[r] \in Op
  BY DEF ReadRows, MayQuery, ReadInv
<1>e. /\ pc' = [pc EXCEPT ![r] = "queried"]
      /\ UNCHANGED <<op, claim, txn, holder, setting, rows, clock, created, exports, before>>
  BY DEF ReadRows
<1> HIDE DEF R, V
<1>1. TypeOK'
  BY <1>0, <1>a, <1>e
<1>2. FreshInv'
  BY DEF ReadRows, MayQuery, FreshInv
<1>3. ProgressInv'
  BY DEF ReadRows, MayQuery, ProgressInv, FreshInv
<1>4. HolderInv'
  BY DEF ReadRows, MayQuery, HolderInv
<1>5. ScopedInv'
  BY DEF ReadRows, MayQuery, ScopedInv, HolderInv, ScopeEndsWithTransaction
<1>6. ScopeEndsWithTransaction'
  BY DEF ReadRows, MayQuery, ScopeEndsWithTransaction, HolderInv
<1>7. RowsInv'
  BY DEF ReadRows, MayQuery, RowsInv, FreshInv, ProgressInv
<1>8. ReadInv'
  <2>1. \A q \in Req : Body(q)' = Body(q)
    BY <1>e DEF Body
  <2>2. \A q \in Req \ {r} : reads'[q] = reads[q]
    BY <1>0
  <2>3. Len(reads'[r]) = txn[r] + 1
    BY <1>0, <1>a, <1>d
  <2> QED BY <1>d, <1>e, <2>1, <2>2, <2>3 DEF ReadInv
<1>9. OnlyOwnRows'
  <2>1. UNCHANGED <<claim, rows>>
    BY DEF ReadRows
  <2>2. \A q \in Req : reads'[q] = IF q = r THEN R ELSE reads[q]
    BY <1>0
  <2> SUFFICES ASSUME NEW q \in Req, NEW k \in DOMAIN reads'[q], NEW i \in reads'[q][k]
               PROVE  claim[q] # None /\ rows[i] = claim[q]
    BY <2>1 DEF OnlyOwnRows
  <2>3. CASE q # r
    BY <2>2, <2>3 DEF OnlyOwnRows
  <2>4. CASE q = r
    <3>1. \/ k \in DOMAIN reads[r] /\ i \in reads[r][k]
          \/ i \in S
      BY <1>a, <2>2, <2>4
    <3> QED BY <1>b, <2>4, <3>1 DEF OnlyOwnRows
  <2> QED BY <2>3, <2>4
<1>10. ExportIsAudited'
  <2>1. \A q \in Req \ {r} : reads'[q] = reads[q] /\ pc'[q] = pc[q]
    BY <1>0, <1>e
  <2> QED BY <1>e, <2>1 DEF ExportIsAudited
<1>11. AnsweredIsVisible'
  <2>1. \A q \in Req : reads'[q] = IF q = r THEN R ELSE reads[q]
    BY <1>0
  <2>2. ASSUME claim[r] # None, NEW p \in before[r] \ S, In(p, Body(r))
        PROVE  LeftOut(p, S, Body(r))
    <3>1. p \in V
      BY <1>c, <2>2 DEF V, Visible, RowsInv
    <3> QED BY <1>s, <2>2, <3>1 DEF Answers, V
  <2> SUFFICES ASSUME NEW q \in Req, NEW k \in DOMAIN reads'[q], claim[q] # None,
                      NEW p \in before[q] \ reads'[q][k], In(p, Program[op[q]][k])
               PROVE  LeftOut(p, reads'[q][k], Program[op[q]][k])
    BY <1>e DEF AnsweredIsVisible, In, LeftOut, Full
  <2>3. CASE q # r
    BY <2>1, <2>3 DEF AnsweredIsVisible
  <2>4. CASE q = r
    <3>1. \/ k \in DOMAIN reads[r] /\ reads'[r][k] = reads[r][k]
          \/ k = txn[r] + 1 /\ reads'[r][k] = S
      BY <1>a, <1>d, <2>1, <2>4
    <3>2. CASE k \in DOMAIN reads[r] /\ reads'[r][k] = reads[r][k]
      BY <2>4, <3>2 DEF AnsweredIsVisible
    <3>3. CASE k = txn[r] + 1 /\ reads'[r][k] = S
      <4>1. Program[op[q]][k] = Body(r)
        BY <2>4, <3>3 DEF Body
      <4> QED BY <2>2, <2>4, <3>3, <4>1
    <3> QED BY <3>1, <3>2, <3>3
  <2> QED BY <2>3, <2>4
<1> QED BY <1>1, <1>2, <1>3, <1>4, <1>5, <1>6, <1>7, <1>8, <1>9, <1>10, <1>11 DEF IInv

\* A write keeps the invariant.
LEMMA WriteStep ==
  ASSUME IInv, NEW r \in Req, NEW c \in Conn, WriteRow(r, c)
  PROVE  IInv'
<1> USE NoneAssumption, DisjointAssumption DEF IInv, TypeOK, Goto, DatabaseUnchanged, RequestUnchanged, InTxn
<1>0. /\ pc[r] \in {"begun", "scoped"} /\ pc' = [pc EXCEPT ![r] = "queried"]
      /\ UNCHANGED <<op, claim, txn, holder, setting, rows, exports, reads, before>>
      /\ \A i \in (Req \union Tenant) \ {r} : created'[i] = created[i]
      /\ rows[r] = None /\ Body(r) \notin Readable
  BY DEF WriteRow, MayQuery, RowsInv, Readable
<1>1. TypeOK'
  <2>1. clock' \in Nat /\ created' \in [Req \union Tenant -> Nat]
    <3>1. clock' \in Nat /\ (created' = [created EXCEPT ![r] = clock + 1] \/ created' = created)
      BY DEF WriteRow
    <3>2. clock + 1 \in Nat
      OBVIOUS
    <3> QED BY <3>1, <3>2
  <2> QED BY <1>0, <2>1
<1>2. FreshInv'
  BY DEF WriteRow, MayQuery, FreshInv
<1>3. ProgressInv'
  BY DEF WriteRow, MayQuery, ProgressInv, FreshInv
<1>4. HolderInv'
  BY DEF WriteRow, MayQuery, HolderInv
<1>5. ScopedInv'
  BY DEF WriteRow, MayQuery, ScopedInv, HolderInv, ScopeEndsWithTransaction
<1>6. ScopeEndsWithTransaction'
  BY DEF WriteRow, MayQuery, ScopeEndsWithTransaction, HolderInv
<1>7. RowsInv'
  BY DEF WriteRow, MayQuery, RowsInv, FreshInv, ProgressInv
<1>8. ReadInv'
  <2>1. \A q \in Req : Body(q)' = Body(q)
    BY <1>0 DEF Body
  <2> QED BY <1>0, <2>1 DEF ReadInv
<1>9. OnlyOwnRows'
  BY DEF WriteRow, MayQuery, OnlyOwnRows, FreshInv, RowsInv
<1>10. ExportIsAudited'
  BY DEF WriteRow, MayQuery, ExportIsAudited
<1>11. AnsweredIsVisible'
  BY <1>0, AnswersKept
<1> QED BY <1>1, <1>2, <1>3, <1>4, <1>5, <1>6, <1>7, <1>8, <1>9, <1>10, <1>11 DEF IInv

\* COMMIT keeps the invariant.
LEMMA CommitStep ==
  ASSUME IInv, NEW r \in Req, NEW c \in Conn, Commit(r, c)
  PROVE  IInv'
<1> USE NoneAssumption, DisjointAssumption DEF IInv, TypeOK, Goto, DatabaseUnchanged, RequestUnchanged, InTxn
<1>0. /\ pc[r] = "queried" /\ op[r] \in Op /\ txn[r] \in {0, 1}
      /\ Body(r) = "insert" <=> op[r] \in Capture
      /\ Body(r) = "audit" <=> op[r] \in Export /\ txn[r] = 1
      /\ op[r] \in Capture => txn[r] = 0
      /\ Len(Program[op[r]]) \in {1, 2} /\ txn[r] < Len(Program[op[r]])
      /\ Body(r) \in Readable \union {"insert", "audit"}
      /\ Body(r) \in {"insert", "audit"} => txn[r] + 1 = Len(Program[op[r]])
  BY BodyOf DEF Commit
<1>a. pc' = [pc EXCEPT ![r] = IF txn[r] + 1 = Len(Program[op[r]]) THEN "answered" ELSE "ready"]
  BY DEF Commit
<1>b. op[r] \in Capture => claim[r] # None
  BY <1>0 DEF ProgressInv, Capture
<1>1. TypeOK'
  <2>1. Body(r) = "audit" => Cardinality(reads[r][1]) \in Nat
    <3> SUFFICES ASSUME Body(r) = "audit"
                 PROVE  IsFiniteSet(reads[r][1])
      BY FS_CardinalityType
    <3>1. reads[r] # <<>> /\ reads[r] \in Seq(SUBSET (Req \union Tenant))
      BY <1>0 DEF ReadInv, Readable
    <3>2. reads[r][1] \in SUBSET (Req \union Tenant)
      BY <3>1
    <3>3. IsFiniteSet(Req \union Tenant)
      <4> QED BY ONLY FiniteAssumption, FS_Union
    <3> QED BY ONLY <3>2, <3>3, FS_Subset
  <2>2. exports' \in [Req -> Nat \union {None}]
    BY <1>0, <2>1 DEF Commit, Publish
  <2>3. rows' \in [Req \union Tenant -> Tenant \union {None}]
    BY DEF Commit, Publish
  <2>4. pc' \in [Req -> {"new", "ready", "answered", "failed"} \union InTxn] /\ txn' \in [Req -> 0..2]
    BY <1>0, <1>a DEF Commit
  <2> QED BY <2>2, <2>3, <2>4 DEF Commit, ReleaseConn
<1>2. FreshInv'
  <2>1. /\ \A q \in Req \ {r} : pc'[q] = pc[q] /\ txn'[q] = txn[q] /\ rows'[q] = rows[q]
        /\ pc'[r] # "new" /\ UNCHANGED <<claim, reads, before>>
    BY <1>a DEF Commit, Publish
  <2> QED BY <2>1 DEF FreshInv
<1>c. /\ \A q \in Req \ {r} : pc'[q] = pc[q] /\ txn'[q] = txn[q]
      /\ \A d \in Conn : holder'[d] = (IF d = c THEN None ELSE holder[d])
      /\ \A d \in Conn : setting'[d] = (IF d = c THEN None ELSE setting[d])
      /\ \A d \in Conn \ {c} : holder[d] # r
      /\ UNCHANGED <<op, claim, reads, before>>
  BY DEF Commit, ReleaseConn, HolderInv
<1>3. ProgressInv'
  <2>1. pc'[r] = "ready" => txn'[r] < Len(Program[op[r]])
    <3>1. txn'[r] = txn[r] + 1 /\ (pc'[r] = "ready" => txn[r] + 1 # Len(Program[op[r]]))
      BY <1>a DEF Commit
    <3>2. txn[r] < Len(Program[op[r]]) /\ Len(Program[op[r]]) \in Nat
      BY <1>0, Programs DEF ProgressInv
    <3> QED BY ONLY <1>0, <3>1, <3>2
  <2>2. pc'[r] \in {"ready", "answered"}
    BY <1>a
  <2> QED BY <1>0, <1>c, <2>1, <2>2 DEF ProgressInv
<1>4. HolderInv'
  BY <1>c DEF HolderInv
<1>5. ScopedInv'
  BY <1>c DEF ScopedInv
<1>6. ScopeEndsWithTransaction'
  BY <1>c DEF ScopeEndsWithTransaction
<1>7. RowsInv'
  <2>1. /\ \A q \in Req \union Tenant : rows'[q] = IF q = r /\ op[r] \in Capture THEN claim[r] ELSE rows[q]
        /\ \A q \in Req \ {r} : pc'[q] = pc[q]
        /\ UNCHANGED <<op, claim, before>>
    BY <1>0 DEF Commit, Publish
  <2> SUFFICES ASSUME NEW q \in Req
               PROVE  /\ rows'[q] # None => rows'[q] = claim[q]
                      /\ pc'[q] = "answered" /\ op[q] \in Capture => rows'[q] = claim[q]
                      /\ \A p \in before[q] : rows'[p] # None /\ rows'[p] = claim[q]
                      /\ pc'[q] # "answered" => rows'[q] = None
    BY <2>1 DEF RowsInv
  <2>2. rows'[q] # None => rows'[q] = claim[q]
    BY <2>1 DEF RowsInv
  <2>3. pc'[q] = "answered" /\ op[q] \in Capture => rows'[q] = claim[q]
    BY <2>1 DEF RowsInv
  <2>4. \A p \in before[q] : rows'[p] # None /\ rows'[p] = claim[q]
    <3>1. \A p \in before[q] : p \in Req /\ rows[p] = claim[q] /\ rows[p] # None /\ rows[p] = claim[p]
      BY DEF RowsInv
    <3> QED BY <1>b, <2>1, <3>1
  <2>5. pc'[q] # "answered" => rows'[q] = None
    BY <1>0, <1>a, <2>1, Programs DEF RowsInv
  <2> QED BY <2>2, <2>3, <2>4, <2>5
<1>8. ReadInv'
  <2>1. UNCHANGED <<op, reads>> /\ \A q \in Req \ {r} : pc'[q] = pc[q] /\ txn'[q] = txn[q]
    BY <1>c
  <2>2. \A q \in Req \ {r} : Body(q)' = Body(q)
    BY <2>1 DEF Body
  <2>3. pc'[r] \in {"ready", "answered"} /\ txn'[r] = txn[r] + 1
    BY <1>0, <1>a DEF Commit
  <2>4. pc'[r] = "ready" => Len(reads[r]) = txn[r] + 1
    BY <1>0, <1>a DEF ReadInv
  <2> QED BY <2>1, <2>2, <2>3, <2>4 DEF ReadInv
<1>9. OnlyOwnRows'
  BY DEF Commit, Publish, ReleaseConn, OnlyOwnRows, FreshInv, RowsInv
<1>10. ExportIsAudited'
  <2>1. /\ \A q \in Req \ {r} : pc'[q] = pc[q] /\ exports'[q] = exports[q]
        /\ UNCHANGED <<op, reads>>
    BY DEF Commit, Publish
  <2>2. op[r] \in Export /\ pc'[r] = "answered" => exports'[r] = Cardinality(reads[r][1])
    BY <1>0, <1>a, Programs DEF Commit, Publish
  <2> QED BY <2>1, <2>2 DEF ExportIsAudited
<1>11. AnsweredIsVisible'
  BY AnswersKept DEF Commit
<1> QED BY <1>1, <1>2, <1>3, <1>4, <1>5, <1>6, <1>7, <1>8, <1>9, <1>10, <1>11 DEF IInv

\* ROLLBACK keeps the invariant.
LEMMA RollbackStep ==
  ASSUME IInv, NEW r \in Req, NEW c \in Conn, Rollback(r, c)
  PROVE  IInv'
<1> USE NoneAssumption, DisjointAssumption DEF IInv, TypeOK, Goto, DatabaseUnchanged, RequestUnchanged, InTxn
<1>1. TypeOK'
  BY DEF Rollback, ReleaseConn
<1>2. FreshInv'
  BY DEF Rollback, ReleaseConn, FreshInv
<1>3. ProgressInv'
  BY DEF Rollback, ReleaseConn, ProgressInv, FreshInv
<1>4. HolderInv'
  BY DEF Rollback, ReleaseConn, HolderInv
<1>5. ScopedInv'
  BY DEF Rollback, ReleaseConn, ScopedInv, HolderInv, ScopeEndsWithTransaction
<1>6. ScopeEndsWithTransaction'
  BY DEF Rollback, ReleaseConn, ScopeEndsWithTransaction, HolderInv
<1>7. RowsInv'
  BY DEF Rollback, ReleaseConn, RowsInv, FreshInv, ProgressInv
<1>8. ReadInv'
  BY ReadsCounted DEF Rollback
<1>9. OnlyOwnRows'
  BY DEF Rollback, ReleaseConn, OnlyOwnRows, FreshInv, RowsInv
<1>10. ExportIsAudited'
  BY DEF Rollback, ReleaseConn, ExportIsAudited
<1>11. AnsweredIsVisible'
  BY AnswersKept DEF Rollback
<1> QED BY <1>1, <1>2, <1>3, <1>4, <1>5, <1>6, <1>7, <1>8, <1>9, <1>10, <1>11 DEF IInv

\* Every step keeps the invariant.
THEOREM IInvInvariant == Spec => []IInv
<1>1. Init => IInv
  <2> SUFFICES ASSUME Init
               PROVE  IInv
    OBVIOUS
  <2> USE NoneAssumption, DisjointAssumption DEF Init
  <2>1. TypeOK
    BY Programs DEF TypeOK
  <2>2. FreshInv /\ RowsInv
    BY DEF FreshInv, RowsInv
  <2>3. ProgressInv /\ HolderInv /\ ScopedInv /\ ScopeEndsWithTransaction
    BY DEF ProgressInv, HolderInv, ScopedInv, ScopeEndsWithTransaction, InTxn
  <2>4. ReadInv /\ OnlyOwnRows /\ ExportIsAudited /\ AnsweredIsVisible
    BY DEF ReadInv, OnlyOwnRows, ExportIsAudited, AnsweredIsVisible
  <2> QED BY <2>1, <2>2, <2>3, <2>4 DEF IInv
<1>2. IInv /\ [Next]_vars => IInv'
  <2> SUFFICES ASSUME IInv, [Next]_vars
               PROVE  IInv'
    OBVIOUS
  <2>1. ASSUME NEW r \in Req, NEW o \in Op \ {"untenanted"}, NEW t \in Tenant, Authenticate(r, o, t)
        PROVE  IInv'
    BY <2>1, AuthenticateStep, NoneAssumption
  <2>2. ASSUME NEW r \in Req, NEW o \in {"kpis", "untenanted"}, Authenticate(r, o, None)
        PROVE  IInv'
    BY <2>2, AuthenticateStep, Programs
  <2>3. ASSUME NEW r \in Req, NoTenantInScope(r) \/ Refuse(r)
        PROVE  IInv'
    BY <2>3, RefusalStep
  <2>4. ASSUME NEW r \in Req, NEW c \in Conn, OnConn(r, c) \/ Rollback(r, c)
        PROVE  IInv'
    BY <2>4, BeginStep, SetClientStep, ReadStep, WriteStep, CommitStep, RollbackStep DEF OnConn
  <2>5. CASE UNCHANGED vars
    <3>1. AnsweredIsVisible' /\ ReadInv'
      BY <2>5, AnswersKept, ReadsCounted DEF vars
    <3> QED BY <2>5, <3>1 DEF vars, IInv, TypeOK, FreshInv, ProgressInv, HolderInv, ScopedInv,
       ScopeEndsWithTransaction, RowsInv, OnlyOwnRows, ExportIsAudited
  <2> QED BY <2>1, <2>2, <2>3, <2>4, <2>5 DEF Next, Step
<1> QED BY <1>1, <1>2, PTL DEF Spec

-----------------------------------------------------------------------------
(***************************************************************************)
(* What follows from it.                                                   *)
(***************************************************************************)
\* The connections, requests and rows keep their types.
THEOREM TypeCorrect == Spec => []TypeOK
<1>1. IInv => TypeOK
  BY DEF IInv
<1> QED BY <1>1, IInvInvariant, PTL

\* Whatever connection a request gets and whoever had it before, it reads
\* rows of its own client only.
THEOREM ReadsOwnRows == Spec => []OnlyOwnRows
<1>1. IInv => OnlyOwnRows
  BY DEF IInv
<1> QED BY <1>1, IInvInvariant, PTL

\* No connection carries a client beyond the transaction that set it.
THEOREM ScopeEnds == Spec => []ScopeEndsWithTransaction
<1>1. IInv => ScopeEndsWithTransaction
  BY DEF IInv
<1> QED BY <1>1, IInvInvariant, PTL

\* Whatever is captured while an export is rendered, its audit row counts
\* what was read.
THEOREM ExportAudited == Spec => []ExportIsAudited
<1>1. IInv => ExportIsAudited
  BY DEF IInv
<1> QED BY <1>1, IInvInvariant, PTL

\* Each read of a request shows what was answered before the request came,
\* as far as the limit of the query goes, which takes the oldest bit runs.
THEOREM AnsweredVisible == Spec => []AnsweredIsVisible
<1>1. IInv => AnsweredIsVisible
  BY DEF IInv
<1> QED BY <1>1, IInvInvariant, PTL

-----------------------------------------------------------------------------
(***************************************************************************)
(* A request needs one connection at a time.                               *)
(***************************************************************************)
\* The transaction of r has a next statement on its connection, or COMMIT.
CanGoOn(r, c) ==
  \/ pc[r] = "begun" /\ op[r] # "untenanted"
  \/ MayQuery(r) /\ Body(r) \in Readable
  \/ MayQuery(r) /\ Body(r) \in {"insert", "audit"} /\ setting[c] = claim[r]
  \/ pc[r] = "queried"

\* A transaction has exactly one connection and what it needs to end on it;
\* a request between its transactions has none.
OneConnSuffices ==
  /\ \A r \in Req : pc[r] \in InTxn <=> \E c \in Conn : holder[c] = r
  /\ \A c \in Conn : holder[c] # None =>
       /\ CanGoOn(holder[c], c)
       /\ \A d \in Conn \ {c} : holder[d] # holder[c]

Statement == [ready |-> 1, begun |-> 2, scoped |-> 3, queried |-> 4]

\* How far a request is: the statements of its transactions in their order.
Place(r) ==
  IF pc[r] = "new" THEN 0
  ELSE IF pc[r] \in {"answered", "failed"} THEN 9
  ELSE 4 * txn[r] + Statement[pc[r]]
OnlyForward ==
  \A r \in Req : (pc'[r] = pc[r] /\ txn'[r] = txn[r]) \/ Place(r)' > Place(r)

\* A transaction has a connection until it ends, and one without a client
\* sets none.
HasConn == \A r \in Req :
  /\ pc[r] \in InTxn => \E c \in Conn : holder[c] = r
  /\ pc[r] = "scoped" => op[r] # "untenanted"

LEMMA HasConnInvariant == Spec => []HasConn
<1> USE NoneAssumption
<1>1. Init => HasConn
  BY DEF Init, HasConn, InTxn
<1>2. IInv /\ HasConn /\ [Next]_vars => HasConn'
  <2> SUFFICES ASSUME TypeOK, HasConn, [Next]_vars, NEW q \in Req
               PROVE  /\ pc'[q] \in InTxn => \E c \in Conn : holder'[c] = q
                      /\ pc'[q] = "scoped" => op'[q] # "untenanted"
    BY DEF IInv, HasConn
  <2> USE DEF TypeOK, Goto, InTxn
  <2>1. ASSUME NEW r \in Req, NEW o \in Op, NEW t \in Tenant \union {None}, Authenticate(r, o, t)
        PROVE  /\ pc'[q] \in InTxn => \E d \in Conn : holder'[d] = q
               /\ pc'[q] = "scoped" => op'[q] # "untenanted"
    BY <2>1 DEF Authenticate, HasConn
  <2>2. ASSUME NEW r \in Req, NoTenantInScope(r) \/ Refuse(r)
        PROVE  /\ pc'[q] \in InTxn => \E d \in Conn : holder'[d] = q
               /\ pc'[q] = "scoped" => op'[q] # "untenanted"
    BY <2>2 DEF NoTenantInScope, Refuse, HasConn, RequestUnchanged
  <2>3. ASSUME NEW r \in Req, NEW c \in Conn, Begin(r, c)
        PROVE  /\ pc'[q] \in InTxn => \E d \in Conn : holder'[d] = q
               /\ pc'[q] = "scoped" => op'[q] # "untenanted"
    <3>1. CASE q = r
      BY <2>3, <3>1 DEF Begin
    <3>2. CASE q # r
      BY <2>3, <3>2 DEF Begin, HasConn, RequestUnchanged
    <3> QED BY <3>1, <3>2
  <2>4. ASSUME NEW r \in Req, NEW c \in Conn, SetClient(r, c) \/ ReadRows(r, c) \/ WriteRow(r, c)
        PROVE  /\ pc'[q] \in InTxn => \E d \in Conn : holder'[d] = q
               /\ pc'[q] = "scoped" => op'[q] # "untenanted"
    <3>1. holder' = holder /\ holder[c] = r /\ op' = op /\ \A p \in Req \ {r} : pc'[p] = pc[p]
      BY <2>4 DEF SetClient, ReadRows, WriteRow, RequestUnchanged
    <3>2. pc[r] \in InTxn /\ pc'[r] \in InTxn /\ (pc'[r] = "scoped" => op[r] # "untenanted")
      BY <2>4 DEF SetClient, ReadRows, WriteRow, MayQuery
    <3> QED BY <3>1, <3>2 DEF HasConn
  <2>5. ASSUME NEW r \in Req, NEW c \in Conn, Commit(r, c) \/ Rollback(r, c)
        PROVE  /\ pc'[q] \in InTxn => \E d \in Conn : holder'[d] = q
               /\ pc'[q] = "scoped" => op'[q] # "untenanted"
    <3>1. /\ holder' = [holder EXCEPT ![c] = None] /\ holder[c] = r
          /\ op' = op /\ \A p \in Req \ {r} : pc'[p] = pc[p]
      BY <2>5 DEF Commit, Rollback, ReleaseConn, RequestUnchanged
    <3>2. pc'[r] \notin InTxn
      BY <2>5 DEF Commit, Rollback
    <3>3. CASE q = r
      BY <3>2, <3>3
    <3>4. CASE q # r
      BY <3>1, <3>4 DEF HasConn
    <3> QED BY <3>3, <3>4
  <2>6. CASE UNCHANGED vars
    BY <2>6 DEF vars, HasConn
  <2>7. Op \ {"untenanted"} \subseteq Op /\ {"kpis", "untenanted"} \subseteq Op
    BY Programs
  <2> QED BY <2>1, <2>2, <2>3, <2>4, <2>5, <2>6, <2>7 DEF Next, Step, OnConn
<1> QED BY <1>1, <1>2, IInvInvariant, PTL DEF Spec

\* A transaction ends on the connection it has: it never waits for another
\* one, and no connection is kept outside a transaction. A pool of any size
\* serves any number of requests.
THEOREM PoolSuffices == Spec => []OneConnSuffices
<1>1. IInv /\ HasConn => OneConnSuffices
  <2> SUFFICES ASSUME IInv, HasConn
               PROVE  OneConnSuffices
    OBVIOUS
  <2> USE NoneAssumption DEF IInv, TypeOK, HolderInv
  <2>1. ASSUME NEW r \in Req
        PROVE  pc[r] \in InTxn <=> \E c \in Conn : holder[c] = r
    BY DEF HasConn
  <2>2. ASSUME NEW c \in Conn, holder[c] # None
        PROVE  CanGoOn(holder[c], c) /\ \A d \in Conn \ {c} : holder[d] # holder[c]
    <3> DEFINE r == holder[c]
    <3>1. r \in Req /\ pc[r] \in InTxn /\ \A d \in Conn : holder[d] = r => d = c
      BY <2>2
    <3>2. CASE pc[r] = "queried" \/ (pc[r] = "begun" /\ op[r] # "untenanted")
      BY <3>1, <3>2 DEF CanGoOn
    <3>3. CASE pc[r] = "begun" /\ op[r] = "untenanted"
      BY <3>1, <3>3, BodyOf DEF CanGoOn, MayQuery, Capture, Export
    <3>4. CASE pc[r] = "scoped"
      <4>1. op[r] # "untenanted"
        BY <3>1, <3>4 DEF HasConn
      <4>2. setting[c] = claim[r]
        BY <2>2, <3>4, <4>1 DEF ScopedInv
      <4> QED BY <3>1, <3>4, <4>1, <4>2, BodyOf DEF CanGoOn, MayQuery
    <3> QED BY <3>1, <3>2, <3>3, <3>4 DEF InTxn
  <2> QED BY <2>1, <2>2 DEF OneConnSuffices
<1> QED BY <1>1, IInvInvariant, HasConnInvariant, PTL

\* No step takes a request back to a statement or a transaction it has run,
\* nor undoes an answer: it is answered after eight steps of its own at most.
THEOREM StepsGoForward == Spec => [][OnlyForward]_vars
<1>1. IInv /\ [Next]_vars => OnlyForward
  <2> SUFFICES ASSUME IInv, [Next]_vars, NEW q \in Req
               PROVE  (pc'[q] = pc[q] /\ txn'[q] = txn[q]) \/ Place(q)' > Place(q)
    BY DEF OnlyForward
  \* A step of r that leaves the other requests where they are.
  <2>1. ASSUME NEW r \in Req, Place(r)' > Place(r),
               \A p \in Req \ {r} : pc'[p] = pc[p] /\ txn'[p] = txn[p]
        PROVE  (pc'[q] = pc[q] /\ txn'[q] = txn[q]) \/ Place(q)' > Place(q)
    BY <2>1
  <2>2. \A r \in Req : pc[r] \in {"ready"} \union InTxn => txn[r] \in {0, 1}
    BY BodyOf
  <2>3. \A r \in Req : pc[r] = "new" => txn[r] = 0
    BY DEF IInv, FreshInv
  <2>a. /\ pc \in [Req -> {"new", "ready", "answered", "failed"} \union InTxn]
        /\ txn \in [Req -> 0..2]
    BY DEF IInv, TypeOK
  <2>b. /\ Statement["ready"] = 1 /\ Statement["begun"] = 2
        /\ Statement["scoped"] = 3 /\ Statement["queried"] = 4
    BY DEF Statement
  \* From one statement to the next, to the next transaction, and to an end.
  <2>c. ASSUME NEW r \in Req, txn'[r] = txn[r],
               \/ pc[r] = "ready" /\ pc'[r] = "begun"
               \/ pc[r] = "begun" /\ pc'[r] = "scoped"
               \/ pc[r] \in {"begun", "scoped"} /\ pc'[r] = "queried"
        PROVE  Place(r)' > Place(r)
    BY <2>2, <2>b, <2>c DEF Place, InTxn
  <2>d. ASSUME NEW r \in Req, pc[r] = "queried", pc'[r] = "ready", txn'[r] = txn[r] + 1
        PROVE  Place(r)' > Place(r)
    BY <2>2, <2>b, <2>d DEF Place, InTxn
  <2>e. ASSUME NEW r \in Req, pc[r] \in {"ready"} \union InTxn,
               pc'[r] \in {"answered", "failed"}
        PROVE  Place(r)' > Place(r)
    <3>1. 4 * txn[r] \in {0, 4}
      BY <2>2, <2>e
    <3> QED BY <2>b, <2>e, <3>1 DEF Place, InTxn
  <2> USE <2>a DEF Goto, InTxn
  <2>4. ASSUME NEW r \in Req, NEW o \in Op, NEW t \in Tenant \union {None}, Authenticate(r, o, t)
        PROVE  (pc'[q] = pc[q] /\ txn'[q] = txn[q]) \/ Place(q)' > Place(q)
    <3>1. Place(r)' > Place(r)
      BY <2>3, <2>4, <2>b DEF Authenticate, Place
    <3> QED BY <2>1, <2>4, <3>1 DEF Authenticate
  <2>5. ASSUME NEW r \in Req, NoTenantInScope(r) \/ Refuse(r)
        PROVE  (pc'[q] = pc[q] /\ txn'[q] = txn[q]) \/ Place(q)' > Place(q)
    <3>1. Place(r)' > Place(r)
      BY <2>e, <2>5 DEF NoTenantInScope, Refuse
    <3> QED BY <2>1, <2>5, <3>1 DEF NoTenantInScope, Refuse
  <2>6. ASSUME NEW r \in Req, NEW c \in Conn,
               Begin(r, c) \/ SetClient(r, c) \/ ReadRows(r, c) \/ WriteRow(r, c)
        PROVE  (pc'[q] = pc[q] /\ txn'[q] = txn[q]) \/ Place(q)' > Place(q)
    <3>1. /\ txn' = txn /\ \A p \in Req \ {r} : pc'[p] = pc[p]
          /\ \/ pc[r] = "ready" /\ pc'[r] = "begun"
             \/ pc[r] = "begun" /\ pc'[r] = "scoped"
             \/ pc[r] \in {"begun", "scoped"} /\ pc'[r] = "queried"
      BY <2>6 DEF Begin, SetClient, ReadRows, WriteRow, MayQuery
    <3>2. Place(r)' > Place(r)
      BY <2>c, <3>1
    <3> QED BY <2>1, <3>1, <3>2
  <2>7. ASSUME NEW r \in Req, NEW c \in Conn, Commit(r, c) \/ Rollback(r, c)
        PROVE  (pc'[q] = pc[q] /\ txn'[q] = txn[q]) \/ Place(q)' > Place(q)
    <3>1. /\ \A p \in Req \ {r} : pc'[p] = pc[p] /\ txn'[p] = txn[p]
          /\ \/ pc[r] = "queried" /\ pc'[r] = "ready" /\ txn'[r] = txn[r] + 1
             \/ pc[r] \in InTxn /\ pc'[r] \in {"answered", "failed"}
      BY <2>7 DEF Commit, Rollback
    <3>2. Place(r)' > Place(r)
      BY <2>d, <2>e, <3>1
    <3> QED BY <2>1, <3>1, <3>2
  <2>8. CASE UNCHANGED vars
    BY <2>8 DEF vars
  <2>9. Op \ {"untenanted"} \subseteq Op /\ {"kpis", "untenanted"} \subseteq Op
    BY Programs
  <2> QED BY <2>4, <2>5, <2>6, <2>7, <2>8, <2>9 DEF Next, Step, OnConn
<1> QED BY <1>1, IInvInvariant, PTL DEF Spec

-----------------------------------------------------------------------------
(***************************************************************************)
(* The refinement.                                                         *)
(***************************************************************************)
Rows(t, table) == {i \in Req \union Tenant : rows[i] = t /\ In(i, table)}
Database == [t \in Tenant |-> [table \in {"bit_run", "daily_report"} |-> Rows(t, table)]]

\* A step that keeps the rows, their tables, the clients and what was read is
\* none of the databases'.
LEMMA RowsKept ==
  ASSUME UNCHANGED <<claim, rows, reads>>,
         \A i \in Req : i \notin Tenant /\ rows[i] # None => op'[i] = op[i]
  PROVE  UNCHANGED Databases!vars
<1>1. ASSUME NEW t \in Tenant, NEW table \in {"bit_run", "daily_report"}
      PROVE  Rows(t, table)' = Rows(t, table)
  BY <1>1, NoneAssumption, DisjointAssumption DEF Rows, In
<1> QED BY <1>1 DEF Databases!vars, Rows

\* A read of a request is one of its client's database.
LEMMA ReadImplements ==
  ASSUME IInv, NEW r \in Req, NEW c \in Conn, ReadRows(r, c)
  PROVE  Databases!Read(r)
<1>1. claim[r] \in Tenant \union {None} /\ DOMAIN rows = Req \union Tenant
  BY DEF IInv, TypeOK
<1>2. PICK S \in Answers(c, Body(r)) : reads' = [reads EXCEPT ![r] = Append(reads[r], S)]
  BY DEF ReadRows
<1> DEFINE table == IF Body(r) = "bit_run" THEN "bit_run" ELSE "daily_report"
<1> DEFINE V == {i \in Visible(c) : In(i, Body(r))}
<1>3. Body(r) \in Readable /\ UNCHANGED <<claim, rows, op>>
  BY DEF ReadRows, DatabaseUnchanged, RequestUnchanged
<1>4. V = {i \in Visible(c) : In(i, table)}
  BY <1>3 DEF In, Readable
<1>5. claim[r] # None => V = Rows(claim[r], table)
  <2>1. claim[r] # None => op[r] # "untenanted"
    BY DEF ReadRows, MayQuery, IInv, ProgressInv
  <2>2. claim[r] # None => setting[c] = claim[r]
    BY <2>1, NoneAssumption DEF ReadRows, MayQuery, IInv, TypeOK, ScopedInv
  <2> QED BY <1>1, <1>4, <2>2, NoneAssumption DEF Visible, Rows
<1>6. claim[r] = None => V = {}
  BY <1>1 DEF ReadRows, Visible, IInv, ScopeEndsWithTransaction
<1>7. V = IF claim[r] = None THEN {} ELSE Database[claim[r]][table]
  BY <1>1, <1>5, <1>6 DEF Database
<1>8. S \in SUBSET V /\ (S = V \/ Full(S, table))
  <2>1. S \in SUBSET V /\ \A q \in V \ S : LeftOut(q, S, Body(r))
    BY <1>2 DEF Answers
  <2>2. S = V \/ \E q \in V \ S : LeftOut(q, S, Body(r))
    BY <2>1
  <2> QED BY <2>1, <2>2 DEF LeftOut, Full
<1>9. UNCHANGED Database
  BY <1>3 DEF Database, Rows, In
<1> HIDE DEF V
<1> DEFINE X == IF claim[r] = None THEN {} ELSE Database[claim[r]][table]
<1>10. table \in Databases!Table
  BY DEF Databases!Table
<1> HIDE DEF table
<1>12. V = X
  BY <1>7
<1> HIDE DEF X
<1>11. S \in SUBSET X /\ (S = X \/ Full(S, table))
  BY ONLY <1>12, <1>8
<1> QED BY <1>2, <1>3, <1>9, <1>10, <1>11 DEF X, Databases!Read, Database, Rows

\* A commit is a write to the client's database, or changes none.
LEMMA CommitImplements ==
  ASSUME IInv, NEW r \in Req, NEW c \in Conn, Commit(r, c)
  PROVE  Databases!Write(r) \/ UNCHANGED Databases!vars
<1>1. /\ pc[r] = "queried" /\ claim[r] \in Tenant \union {None}
      /\ rows \in [Req \union Tenant -> Tenant \union {None}]
  BY DEF Commit, IInv, TypeOK
<1>2. Body(r) = "insert" <=> op[r] \in Capture
  BY <1>1, BodyOf DEF InTxn
<1>3. CASE op[r] \notin Capture
  BY <1>2, <1>3, RowsKept DEF Commit, Publish, RequestUnchanged
<1>4. CASE op[r] \in Capture
  <2>1. claim[r] # None /\ claim[r] \in Tenant
    BY <1>1, <1>4 DEF IInv, ProgressInv, InTxn, Capture
  <2>2. rows' = [rows EXCEPT ![r] = claim[r]] /\ UNCHANGED <<claim, reads, op>>
    BY <1>2, <1>4 DEF Commit, Publish, RequestUnchanged
  <2>3. rows[r] # None => rows[r] = claim[r]
    BY DEF IInv, RowsInv
  <2> DEFINE own == IF op[r] = "captureRun" THEN "bit_run" ELSE "daily_report"
  <2>4. ASSUME NEW t \in Tenant, NEW table \in {"bit_run", "daily_report"}
        PROVE  Rows(t, table)' = IF t = claim[r] /\ table = own
                                 THEN Rows(t, table) \union {r} ELSE Rows(t, table)
    <3>1. In(r, table) <=> table = own
      BY <1>4, <2>4, DisjointAssumption DEF In, Capture
    <3>2. \A i \in Req \union Tenant : In(i, table)' = In(i, table)
      BY <2>2 DEF In
    <3> HIDE DEF own
    <3> QED BY <1>1, <2>1, <2>2, <2>3, <2>4, <3>1, <3>2, NoneAssumption DEF Rows
  <2>6. own \in Databases!Table
    BY DEF Databases!Table
  <2>5. Database' = [Database EXCEPT ![claim[r]][own] = @ \union {r}]
    <3> HIDE DEF own
    <3>1. \A t \in Tenant : \A table \in {"bit_run", "daily_report"} :
            Rows(t, table)' = IF t = claim[r] /\ table = own
                              THEN Rows(t, table) \union {r} ELSE Rows(t, table)
      BY <2>4 DEF own
    <3>2. \A t \in Tenant : t # claim[r] => Database'[t] = Database[t]
      BY <3>1 DEF Database
    <3>3. Database'[claim[r]] = [Database[claim[r]] EXCEPT ![own] = @ \union {r}]
      <4>1. Database'[claim[r]] = [table \in {"bit_run", "daily_report"} |-> Rows(claim[r], table)']
        BY <2>1, <2>2 DEF Database
      <4>2. Database[claim[r]] = [table \in {"bit_run", "daily_report"} |-> Rows(claim[r], table)]
        BY <2>1 DEF Database
      <4>3. \A table \in {"bit_run", "daily_report"} :
              Rows(claim[r], table)' = IF table = own THEN Rows(claim[r], table) \union {r}
                                                      ELSE Rows(claim[r], table)
        BY <2>1, <2>2, <3>1
      <4> QED BY <4>1, <4>2, <4>3
    <3>4. Database = [t \in Tenant |-> Database[t]] /\ Database' = [t \in Tenant |-> Database'[t]]
      BY DEF Database
    <3>5. DOMAIN Database = Tenant /\ DOMAIN Database' = Tenant
      BY DEF Database
    <3>6. [Database EXCEPT ![claim[r]][own] = @ \union {r}]
            = [t \in Tenant |-> IF t = claim[r] THEN [Database[claim[r]] EXCEPT ![own] = @ \union {r}]
                                                ELSE Database[t]]
      BY <2>1, <3>5
    <3>7. Database' = [t \in Tenant |-> IF t = claim[r] THEN [Database[claim[r]] EXCEPT ![own] = @ \union {r}]
                                                        ELSE Database[t]]
      BY <2>1, <3>2, <3>3, <3>4
    <3> QED BY <3>6, <3>7
  <2> HIDE DEF own
  <2> QED BY <2>1, <2>2, <2>5, <2>6 DEF Databases!Write, Database, Rows
<1> QED BY <1>3, <1>4

\* For every pool and however transactions overlap and fail, a behaviour of
\* the shared database is one of a private database for each client.
THEOREM ImplementsDatabases == Spec => DatabasesSpec
<1>1. Init => Databases!Init
  <2> SUFFICES ASSUME Init
               PROVE  Databases!Init
    OBVIOUS
  <2>1. ASSUME NEW t \in Tenant, NEW table \in {"bit_run", "daily_report"}
        PROVE  Rows(t, table) = IF table = "bit_run" THEN {t} ELSE {}
    BY <2>1, NoneAssumption, DisjointAssumption DEF Init, Rows, In
  <2>2. ASSUME NEW t \in Tenant
        PROVE  [table \in {"bit_run", "daily_report"} |-> Rows(t, table)]
                 = [table \in {"bit_run", "daily_report"} |-> IF table = "bit_run" THEN {t} ELSE {}]
    BY <2>1
  <2>3. Database = [t \in Tenant |-> [table \in Databases!Table |-> IF table = "bit_run" THEN {t} ELSE {}]]
    BY <2>2 DEF Database, Databases!Table
  <2> QED BY <2>3 DEF Init, Databases!Init, Database, Rows
<1>2. IInv /\ [Next]_vars => [Databases!Next]_Databases!vars
  <2> SUFFICES ASSUME IInv, [Next]_vars
               PROVE  Databases!Next \/ UNCHANGED Databases!vars
    OBVIOUS
  <2>1. ASSUME NEW r \in Req, NEW o \in Op, NEW t \in Tenant, Authenticate(r, o, t)
        PROVE  Databases!Arrive(r, t)
    <3>1. \A i \in Req : rows[i] # None => op'[i] = op[i]
      BY <2>1 DEF Authenticate, IInv, FreshInv
    <3>2. UNCHANGED <<rows, reads>> /\ claim[r] = None /\ claim' = [claim EXCEPT ![r] = t]
      BY <2>1 DEF Authenticate, DatabaseUnchanged, IInv, FreshInv
    <3>3. ASSUME NEW u \in Tenant, NEW table \in {"bit_run", "daily_report"}
          PROVE  Rows(u, table)' = Rows(u, table)
      BY <3>1, <3>2, <3>3, NoneAssumption, DisjointAssumption DEF Rows, In
    <3> QED BY <3>2, <3>3 DEF Databases!Arrive, Rows
  <2>2. ASSUME NEW r \in Req, NEW o, Authenticate(r, o, None)
        PROVE  UNCHANGED Databases!vars
    <3>1. claim' = claim
      BY <2>2 DEF Authenticate, IInv, FreshInv, TypeOK
    <3>2. \A i \in Req : rows[i] # None => op'[i] = op[i]
      BY <2>2 DEF Authenticate, IInv, FreshInv
    <3> QED BY <2>2, <3>1, <3>2, RowsKept DEF Authenticate, DatabaseUnchanged
  <2>3. ASSUME NEW r \in Req, NEW c \in Conn,
               Begin(r, c) \/ SetClient(r, c) \/ WriteRow(r, c) \/ Rollback(r, c)
        PROVE  UNCHANGED Databases!vars
    <3>1. UNCHANGED <<claim, rows, reads, op>>
      BY <2>3 DEF Begin, SetClient, WriteRow, Rollback, DatabaseUnchanged, RequestUnchanged
    <3> QED BY <3>1, RowsKept
  <2>4. ASSUME NEW r \in Req, NoTenantInScope(r) \/ Refuse(r)
        PROVE  UNCHANGED Databases!vars
    BY <2>4, RowsKept DEF NoTenantInScope, Refuse, DatabaseUnchanged, RequestUnchanged
  <2>5. CASE UNCHANGED vars
    BY <2>5, RowsKept DEF vars
  <2> QED BY <2>1, <2>2, <2>3, <2>4, <2>5, ReadImplements, CommitImplements
          DEF Next, Step, OnConn, Databases!Next
<1> QED BY <1>1, <1>2, IInvInvariant, PTL DEF Spec, DatabasesSpec, Databases!Spec
=============================================================================
