------------------------------ MODULE DdrImport ------------------------------
(***************************************************************************)
(* How daily reports and bit runs are filed: import of                     *)
(* api/src/ddr-import/ddr-import.service.ts, createDailyReport and         *)
(* createBitRun of api/src/capture/capture.service.ts, each one            *)
(* interactive transaction at READ COMMITTED:                              *)
(*   - a SELECT sees what is committed, and what its own transaction wrote; *)
(*   - an INSERT under a unique constraint waits for a transaction in      *)
(*     progress that inserted the same key, and violates the constraint    *)
(*     when that transaction commits (PostgreSQL then refuses the rest of  *)
(*     the transaction, and the API answers 500);                          *)
(*   - bit_master has an index on what identifies a bit, no constraint.    *)
(* A request is used once and names the rows it inserts. What pdf-text.ts  *)
(* and ddr-parser.ts read from the file is the document of the request; a  *)
(* date they cannot read is None, a well name falls back to another name.  *)
(* Rows that nobody can observe before COMMIT and that carry no constraint *)
(* (bit master, bit run, audit row, activities, fluids) are part of it.    *)
(* All requests are of one tenant: RLS hides the rows of the others.       *)
(***************************************************************************)
EXTENDS Naturals

CONSTANTS
  Name,     \* well names
  Date,     \* report dates
  Bit,      \* what identifies a bit: manufacturer and type
  Req,      \* requests
  Seeded,   \* the wells that are there from the start, by name
  None,     \* no date, no bit, no row
  Overlap   \* whether two requests may be in progress at the same time

ASSUME RowAssumption == Seeded \subseteq Name /\ Seeded \intersect Req = {}
ASSUME NoneAssumption == None \notin Name \union Date \union Bit \union Req
ASSUME OverlapAssumption == Overlap \in BOOLEAN

VARIABLES
  wells,      \* committed well rows
  wellbores,  \* committed wellbore rows
  reports,    \* committed daily_report rows
  bits,       \* committed bit_master rows
  runs,       \* committed bit_run rows
  audit,      \* the requests with a committed audit_log row
  pc,         \* request -> the statement it runs next, or its answer
  op,         \* request -> its operation
  doc,        \* request -> the well name, date and bit of its document
  well,       \* request -> the well it files under
  wellbore,   \* request -> the wellbore it files under
  master      \* request -> the bit_master row of its bit run

rows == <<wells, wellbores, reports, bits, runs, audit>>
vars == <<rows, pc, op, doc, well, wellbore, master>>

Op == {"import", "createDailyReport", "createBitRun"}
Document == [well : Name \union {None}, date : Date \union {None}, bit : Bit \union {None}]
Answer == {"ok", "badRequest", "conflict", "serverError", "failed"}
Running == {"findWell", "insertWell", "findWellbore", "insertWellbore",
            "findDuplicate", "insertReport", "findBit", "commit"}

\* A seeded well is named by its name, an imported one by its request.
nameOf(w) == IF w \in Seeded THEN w ELSE doc[w].well

Init ==
  /\ wells = Seeded
  /\ wellbores = {} /\ reports = {} /\ bits = {} /\ runs = {} /\ audit = {}
  /\ pc = [r \in Req |-> "idle"]
  /\ op = [r \in Req |-> "import"]
  /\ doc = [r \in Req |-> [well |-> None, date |-> None, bit |-> None]]
  /\ well = [r \in Req |-> None]
  /\ wellbore = [r \in Req |-> None]
  /\ master = [r \in Req |-> None]
-----------------------------------------------------------------------------
(***************************************************************************)
(* Unique constraints. A transaction holds the keys it inserted until it   *)
(* ends.                                                                   *)
(***************************************************************************)
Ongoing(q) == pc[q] \in Running

HoldsWell(q, n) == Ongoing(q) /\ well[q] = q /\ doc[q].well = n

HoldsWellbore(q, w) == Ongoing(q) /\ wellbore[q] = q /\ well[q] = w

\* Mutant: the key is still held after the transaction.
HoldsReport_Leak(q, b, d) ==
  /\ pc[q] \in {"findBit", "commit", "ok"} /\ op[q] # "createBitRun"
  /\ wellbore[q] = b /\ doc[q].date = d
HoldsReport(q, b, d) ==
  /\ pc[q] \in {"findBit", "commit"} /\ op[q] # "createBitRun"
  /\ wellbore[q] = b /\ doc[q].date = d

Reported(b, d) == \E c \in reports : wellbore[c] = b /\ doc[c].date = d
-----------------------------------------------------------------------------
Goto(r, label) == pc' = [pc EXCEPT ![r] = label]
RowsUnchanged == UNCHANGED rows
RequestUnchanged == UNCHANGED <<op, doc>>

Arrive(r, o, d) ==
  /\ pc[r] = "idle"
  /\ Overlap \/ \A q \in Req : ~ Ongoing(q)
  /\ op' = [op EXCEPT ![r] = o]
  /\ doc' = [doc EXCEPT ![r] = d]
  /\ RowsUnchanged

\* POST /ddr-import: without a date the document is not imported.
ReceiveImport(r, d) ==
  /\ d.well # None
  /\ Arrive(r, "import", d)
  /\ \/ d.date = None /\ Goto(r, "badRequest")
     \/ d.date # None /\ Goto(r, "findWell")
  /\ UNCHANGED <<well, wellbore, master>>

\* POST /daily-reports: for a wellbore the form offered, not asking whether
\* it has a report for the day.
ReceiveDailyReport(r, b, d) ==
  /\ b \in wellbores
  /\ d.well = nameOf(well[b]) /\ d.date # None /\ d.bit = None
  /\ Arrive(r, "createDailyReport", d)
  /\ Goto(r, "insertReport")
  /\ well' = [well EXCEPT ![r] = well[b]]
  /\ wellbore' = [wellbore EXCEPT ![r] = b]
  /\ UNCHANGED master

\* POST /bit-runs: for a wellbore and a bit the form offered.
ReceiveBitRun(r, b, m, d) ==
  /\ b \in wellbores /\ m \in bits
  /\ d = [well |-> nameOf(well[b]), date |-> None, bit |-> doc[m].bit]
  /\ Arrive(r, "createBitRun", d)
  /\ Goto(r, "commit")
  /\ well' = [well EXCEPT ![r] = well[b]]
  /\ wellbore' = [wellbore EXCEPT ![r] = b]
  /\ master' = [master EXCEPT ![r] = m]

FindWell(r) ==
  /\ pc[r] = "findWell"
  /\ \/ \E w \in wells : /\ nameOf(w) = doc[r].well
                         /\ well' = [well EXCEPT ![r] = w]
                         /\ Goto(r, "findWellbore")
     \/ /\ \A w \in wells : nameOf(w) # doc[r].well
        /\ Goto(r, "insertWell")
        /\ UNCHANGED well
  /\ RowsUnchanged /\ RequestUnchanged
  /\ UNCHANGED <<wellbore, master>>

\* INSERT well. Mutant: the index on (client_id, name) is not unique.
InsertWell_NotUnique(r) ==
  /\ pc[r] = "insertWell"
  /\ well' = [well EXCEPT ![r] = r]
  /\ Goto(r, "findWellbore")
  /\ RowsUnchanged /\ RequestUnchanged
  /\ UNCHANGED <<wellbore, master>>
InsertWell(r) ==
  /\ pc[r] = "insertWell"
  /\ \A q \in Req \ {r} : ~ HoldsWell(q, doc[r].well)
  /\ \/ /\ \E w \in wells : nameOf(w) = doc[r].well
        /\ Goto(r, "serverError")
        /\ UNCHANGED well
     \/ /\ \A w \in wells : nameOf(w) # doc[r].well
        /\ well' = [well EXCEPT ![r] = r]
        /\ Goto(r, "findWellbore")
  /\ RowsUnchanged /\ RequestUnchanged
  /\ UNCHANGED <<wellbore, master>>

\* The wellbore of the well, whichever comes first.
FindWellbore(r) ==
  /\ pc[r] = "findWellbore"
  /\ \/ \E b \in wellbores : /\ well[b] = well[r]
                             /\ wellbore' = [wellbore EXCEPT ![r] = b]
                             /\ Goto(r, "findDuplicate")
     \/ /\ \A b \in wellbores : well[b] # well[r]
        /\ Goto(r, "insertWellbore")
        /\ UNCHANGED wellbore
  /\ RowsUnchanged /\ RequestUnchanged
  /\ UNCHANGED <<well, master>>

\* INSERT wellbore: imports call every wellbore they make OH.
InsertWellbore(r) ==
  /\ pc[r] = "insertWellbore"
  /\ \A q \in Req \ {r} : ~ HoldsWellbore(q, well[r])
  /\ \/ /\ \E b \in wellbores : well[b] = well[r]
        /\ Goto(r, "serverError")
        /\ UNCHANGED wellbore
     \/ /\ \A b \in wellbores : well[b] # well[r]
        /\ wellbore' = [wellbore EXCEPT ![r] = r]
        /\ Goto(r, "findDuplicate")
  /\ RowsUnchanged /\ RequestUnchanged
  /\ UNCHANGED <<well, master>>

\* The duplicate guard: ConflictException.
\* Mutants: it is left out; it forgets the date.
FindDuplicate_Skip(r) ==
  /\ pc[r] = "findDuplicate"
  /\ Goto(r, "insertReport")
  /\ RowsUnchanged /\ RequestUnchanged
  /\ UNCHANGED <<well, wellbore, master>>
FindDuplicate_AnyDate(r) ==
  /\ pc[r] = "findDuplicate"
  /\ Goto(r, IF \E c \in reports : wellbore[c] = wellbore[r]
             THEN "conflict" ELSE "insertReport")
  /\ RowsUnchanged /\ RequestUnchanged
  /\ UNCHANGED <<well, wellbore, master>>
FindDuplicate(r) ==
  /\ pc[r] = "findDuplicate"
  /\ \/ Reported(wellbore[r], doc[r].date) /\ Goto(r, "conflict")
     \/ ~ Reported(wellbore[r], doc[r].date) /\ Goto(r, "insertReport")
  /\ RowsUnchanged /\ RequestUnchanged
  /\ UNCHANGED <<well, wellbore, master>>

\* INSERT daily_report, with its activities and fluids.
InsertReport(r) ==
  /\ pc[r] = "insertReport"
  /\ \A q \in Req \ {r} : ~ HoldsReport(q, wellbore[r], doc[r].date)
  /\ \/ Reported(wellbore[r], doc[r].date) /\ Goto(r, "serverError")
     \/ /\ ~ Reported(wellbore[r], doc[r].date)
        /\ Goto(r, IF op[r] = "import" /\ doc[r].bit # None THEN "findBit"
                   ELSE "commit")
  /\ RowsUnchanged /\ RequestUnchanged
  /\ UNCHANGED <<well, wellbore, master>>

\* The bit's master row, whichever comes first, or a new one.
\* Mutant: a new one each time.
FindBit_Always(r) ==
  /\ pc[r] = "findBit"
  /\ master' = [master EXCEPT ![r] = r]
  /\ Goto(r, "commit")
  /\ RowsUnchanged /\ RequestUnchanged
  /\ UNCHANGED <<well, wellbore>>
FindBit(r) ==
  /\ pc[r] = "findBit"
  /\ \/ \E m \in bits : /\ doc[m].bit = doc[r].bit
                        /\ master' = [master EXCEPT ![r] = m]
     \/ /\ \A m \in bits : doc[m].bit # doc[r].bit
        /\ master' = [master EXCEPT ![r] = r]
  /\ Goto(r, "commit")
  /\ RowsUnchanged /\ RequestUnchanged
  /\ UNCHANGED <<well, wellbore>>

\* COMMIT: the rows the request inserted, and what it did to the audit log.
Own(r, column) == {s \in {r} : column[s] = r}

Commit(r) ==
  /\ pc[r] = "commit"
  /\ wells' = wells \union Own(r, well)
  /\ wellbores' = wellbores \union Own(r, wellbore)
  /\ bits' = bits \union Own(r, master)
  /\ reports' = reports \union {s \in {r} : op[s] # "createBitRun"}
  /\ runs' = runs \union {s \in {r} : master[s] # None}
  /\ audit' = audit \union {r}
  /\ Goto(r, "ok")
  /\ RequestUnchanged
  /\ UNCHANGED <<well, wellbore, master>>

\* Rollback: transaction timeout, lost connection, API crash.
\* Mutant: the well is created before the transaction begins.
Abort_KeepsWell(r) ==
  /\ Ongoing(r)
  /\ wells' = wells \union Own(r, well)
  /\ Goto(r, "failed")
  /\ RequestUnchanged
  /\ UNCHANGED <<wellbores, reports, bits, runs, audit, well, wellbore, master>>
Abort(r) ==
  /\ Ongoing(r)
  /\ Goto(r, "failed")
  /\ RowsUnchanged /\ RequestUnchanged
  /\ UNCHANGED <<well, wellbore, master>>

Step(r) ==
  \/ FindWell(r) \/ InsertWell(r) \/ FindWellbore(r) \/ InsertWellbore(r)
  \/ FindDuplicate(r) \/ InsertReport(r) \/ FindBit(r) \/ Commit(r)

Receive(r, d) ==
  \/ ReceiveImport(r, d)
  \/ \E b \in wellbores : \/ ReceiveDailyReport(r, b, d)
                          \/ \E m \in bits : ReceiveBitRun(r, b, m, d)

Next == \E r \in Req : (\E d \in Document : Receive(r, d)) \/ Step(r) \/ Abort(r)

Spec == Init /\ [][Next]_vars

\* A transaction in progress runs its next statement once nothing blocks it.
FairSpec == Spec /\ \A r \in Req : WF_vars(Step(r))
-----------------------------------------------------------------------------
TypeOK ==
  /\ wells \subseteq Seeded \union Req
  /\ wellbores \subseteq Req /\ reports \subseteq Req /\ bits \subseteq Req
  /\ runs \subseteq Req /\ audit \subseteq Req
  /\ pc \in [Req -> {"idle"} \union Running \union Answer]
  /\ op \in [Req -> Op]
  /\ doc \in [Req -> Document]
  /\ well \in [Req -> Seeded \union Req \union {None}]
  /\ wellbore \in [Req -> Req \union {None}]
  /\ master \in [Req -> Req \union {None}]

(***************************************************************************)
(* Holds however the requests interleave.                                  *)
(***************************************************************************)
SameDay(q, r) ==
  nameOf(well[q]) = nameOf(well[r]) /\ doc[q].date = doc[r].date

\* A day of a well has one report, whoever files it and by whichever route,
\* though several imports may create the well and its wellbore at once.
OneReportPerDay == \A q, r \in reports : SameDay(q, r) => q = r

\* Nothing is filed by half: a well, wellbore or bit an import created is
\* there with its report and its audit row or not at all; and what a report
\* or a bit run refers to is committed, and on the same well.
FiledAsAWhole ==
  /\ wells \ Seeded \subseteq reports /\ wellbores \subseteq reports
  /\ bits \subseteq reports
  /\ audit = reports \union runs
  /\ \A r \in audit : /\ pc[r] = "ok"
                      /\ well[r] \in wells /\ wellbore[r] \in wellbores
                      /\ well[wellbore[r]] = well[r]
  /\ \A r \in runs : master[r] \in bits /\ doc[master[r]].bit = doc[r].bit

\* An import is answered "already imported" only when the day of its well
\* really has a report, by another request.
ConflictIsReal ==
  \A r \in Req : pc[r] = "conflict" =>
    \E q \in reports \ {r} : SameDay(q, r)

\* Every request is answered: waiting for a key another transaction inserted
\* never becomes a circle, nor is a key kept after the transaction.
EveryRequestAnswered == \A r \in Req : Ongoing(r) ~> pc[r] \in Answer

(***************************************************************************)
(* What makes the above inductive.                                         *)
(***************************************************************************)
\* The rows a request has found or inserted so far, and where they are.
Placed(r) ==
  /\ pc[r] \in Running \ {"insertReport", "commit"} => op[r] = "import"
  /\ pc[r] = "insertReport" => op[r] # "createBitRun"
  /\ pc[r] \in {"idle", "findWell", "insertWell"} => well[r] = None
  /\ pc[r] \in {"idle", "findWell", "insertWell", "findWellbore", "insertWellbore"} =>
       wellbore[r] = None
  /\ pc[r] \in {"idle"} \union (Running \ {"commit"}) => master[r] = None
  /\ pc[r] \in Running \ {"findWell", "insertWell"} => well[r] \in wells \union {r}
  /\ pc[r] \in {"findDuplicate", "insertReport", "findBit", "commit"} =>
       wellbore[r] \in wellbores \union {r} /\ well[wellbore[r]] = well[r]
  /\ pc[r] = "commit" /\ master[r] # None =>
       master[r] \in bits \union {r} /\ doc[master[r]].bit = doc[r].bit
  /\ pc[r] = "commit" /\ op[r] = "createBitRun" => master[r] # None
  /\ pc[r] \in Running /\ op[r] # "import" =>
       well[r] # r /\ wellbore[r] # r /\ master[r] # r

\* A key that a transaction inserted is neither committed nor inserted by
\* another transaction in progress.
KeysHeld(r) ==
  /\ Ongoing(r) /\ well[r] = r =>
       /\ \A w \in wells : nameOf(w) # doc[r].well
       /\ \A q \in Req \ {r} : ~ HoldsWell(q, doc[r].well)
  /\ Ongoing(r) /\ wellbore[r] = r =>
       /\ \A b \in wellbores : well[b] # well[r]
       /\ \A q \in Req \ {r} : ~ HoldsWellbore(q, well[r])
  /\ HoldsReport(r, wellbore[r], doc[r].date) =>
       /\ ~ Reported(wellbore[r], doc[r].date)
       /\ \A q \in Req \ {r} : ~ HoldsReport(q, wellbore[r], doc[r].date)

\* The unique constraints.
UniqueKeys ==
  /\ \A v, w \in wells : nameOf(v) = nameOf(w) => v = w
  /\ \A b, c \in wellbores : well[b] = well[c] => b = c
  /\ \A q, r \in reports :
       wellbore[q] = wellbore[r] /\ doc[q].date = doc[r].date => q = r

FilingInv == UniqueKeys /\ FiledAsAWhole /\ \A r \in Req : Placed(r) /\ KeysHeld(r)

(***************************************************************************)
(* Holds when requests do not overlap, and is broken by requests that do.  *)
(***************************************************************************)
\* Imports never fail on a constraint: what they would insert a second time
\* they find, and a duplicate is refused by the guard.
ImportNeverErrors == \A r \in Req : op[r] = "import" => pc[r] # "serverError"

\* The catalogue has one row for each bit: an import that meets a bit again
\* uses the row that is there.
OneMasterPerBit == \A m, n \in bits : doc[m].bit = doc[n].bit => m = n
=============================================================================
