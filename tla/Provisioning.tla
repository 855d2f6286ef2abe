---------------------------- MODULE Provisioning ----------------------------
(***************************************************************************)
(* The two scripts an operator fills a database with. seed.ts upserts the  *)
(* vocabulary, the demo tenants and the demo bit runs, each statement a    *)
(* transaction of its own, while the application may be running. etl.py    *)
(* loads the legacy database into the tables of an earlier application in  *)
(* one transaction: wells and rigs, a daily report for each well and date, *)
(* and the child rows of the reports. A behaviour is about one of them.    *)
(* The operator runs the seed until it has succeeded, and again at will.   *)
(***************************************************************************)
EXTENDS Integers, Sequences, SequencesExt, FiniteSetsExt

CONSTANTS
  Interruptions, \* the most interruptions of the seed
  Reruns,        \* the most seeds that are run after one succeeded
  Edits,         \* the most rows that are edited or renamed at a time
  LegacyReports, \* the most rows of L04
  LegacyRows,    \* the most rows of the child tables
  None           \* no filter, no well

ASSUME BoundAssumption == LegacyReports \in Nat

VARIABLES
  script,   \* "seed" or "etl"
  rows,     \* seeded row -> absent, seeded, edited, or renamed by somebody
  moved,    \* the wellbore hangs on a well that has been renamed
  ownRuns,  \* tenant A has bit runs of its own
  step,     \* the seed's next statement; 0: it is not running
  done,     \* seeds that have succeeded
  warned,   \* the last of them has skipped the demo runs with a warning
  stopped,  \* interruptions so far
  cut,      \* one of them was between the demo bit runs (history)
  source,   \* the legacy tables and the script's options
  phase,    \* the migration's next phase
  loading,  \* what its transaction has written
  target    \* committed rows: reports, children, others, assignments of rigs

seedVars == <<rows, moved, ownRuns, step, done, warned, stopped, cut>>
etlVars == <<source, phase, loading, target>>
vars == <<script, seedVars, etlVars>>
-----------------------------------------------------------------------------
\* seed.ts in the order of its statements. The vocabulary and the users are
\* updated when they exist, the others are left alone. Three statements read:
\* tenant A's runs are counted, and its well and the hole sizes of the demo
\* runs are looked for by name.
Vocabulary == {"holeSizes", "reasonsPulled"}
Tenants == {"clientA", "clientB", "wellA", "wellB", "users"}
Fixtures == {"wellbore", "section", "bitMaster"}
DemoRuns == {"run1", "run2"}
Statements ==
  <<"holeSizes", "reasonsPulled", "clientA", "clientB", "wellA", "wellB", "users",
    "count", "findWell", "wellbore", "findHoleSizes", "section", "bitMaster", "run1", "run2">>
Reads == {"count", "findWell", "findHoleSizes"}
Updated == {"holeSizes", "reasonsPulled", "users"}
Base == Vocabulary \union Tenants
Row == Base \union Fixtures \union DemoRuns
\* The rows whose names a WITSML import or the Studio changes.
Named == {"holeSizes", "wellA", "wellB", "wellbore"}

\* Legacy rows: of wells and dates. d1 and d1x are spellings of one day, bad
\* is no date. Of the child tables L05 stands for those that are loaded row by
\* row; the losses of N05, of which two can be of one interval, are joined to
\* the mud rows of N01; OperationAnalysis is asked for its dates only.
Date == {"d1", "d1x", "bad"}
L04Row == [well : {"w1", "w2"}, date : Date]
ChildRow ==
  [table : {"L05", "N01", "N05", "OperationAnalysis"}, well : {"w1", "w2"}, date : Date, nth : {1}]
  \union [table : {"N05"}, well : {"w1", "w2"}, date : Date, nth : {2}]
Key(r) == <<r.well, r.date>>
Sources == [l04 : BoundedSeq(L04Row, LegacyReports),
            children : {ToSet(s) : s \in BoundedSeq(ChildRow, LegacyRows)},
            wellset : {None, "w1"}, dry : BOOLEAN, allowTruncate : BOOLEAN]
Nothing == [reports |-> {}, children |-> {}, others |-> FALSE, assignments |-> FALSE]
\* An assignment needs a rig (target_constraints.tsv).
Found == {t \in [reports : {{}}, children : {{}}, others : BOOLEAN, assignments : BOOLEAN] :
            t.assignments => t.others}

Init ==
  /\ script \in {"seed", "etl"}
  /\ rows = [x \in Row |-> "absent"]
  /\ moved = FALSE /\ ownRuns = FALSE /\ step = 0 /\ done = 0
  /\ warned = FALSE /\ stopped = 0 /\ cut = FALSE
  /\ source \in IF script = "etl" THEN Sources ELSE {None}
  /\ phase = "start"
  /\ target \in IF script = "etl" THEN Found ELSE {Nothing}
  /\ loading = target
-----------------------------------------------------------------------------
Seed == script = "seed" /\ UNCHANGED <<script, etlVars>>
Running == step > 0

StartSeed ==
  /\ Seed /\ ~Running /\ done <= Reruns
  /\ step' = 1
  /\ UNCHANGED <<rows, moved, ownRuns, done, warned, stopped, cut>>

\* An upsert: create, or update what the statement updates. A well that has
\* been renamed is not found, and there is a new one of the old name.
\* Mutants: every existing row is updated; rows of the vocabulary are
\* inserted only while the table is empty.
Upsert_All(x) == [rows EXCEPT ![x] = "seeded"]
Upsert_IfEmpty(x) ==
  IF x = "reasonsPulled" /\ rows["holeSizes"] # "absent" THEN rows
  ELSE [rows EXCEPT ![x] = IF @ \in {"absent", "renamed"} \/ x \in Updated THEN "seeded" ELSE @]
Upsert(x) ==
  [rows EXCEPT ![x] = IF @ \in {"absent", "renamed"} \/ x \in Updated THEN "seeded" ELSE @]

\* The wellbore is looked for by well and name and created with a fixed id:
\* renamed, or under a renamed well, it is not found and in the way.
InTheWay(x) == x = "wellbore" /\ rows[x] # "absent" /\ (moved \/ rows[x] = "renamed")

\* Mutant: the wellbore of the runs is looked for.
HasRuns_Wellbore == ownRuns \/ rows["wellbore"] # "absent"
HasRuns == ownRuns \/ \E r \in DemoRuns : rows[r] # "absent"

\* What ends the seed before its last statement: it is done, with a warning
\* when the well or the hole sizes are not found.
Ends(x) == \/ x = "count" /\ HasRuns
           \/ x = "findWell" /\ rows["wellA"] = "renamed"
           \/ x = "findHoleSizes" /\ rows["holeSizes"] = "renamed"

\* One statement.
SeedStep ==
  /\ Seed /\ Running /\ ~InTheWay(Statements[step])
  /\ LET x == Statements[step] IN
     /\ rows' = IF x \in Reads THEN rows ELSE Upsert(x)
     /\ moved' = (moved \/ (x = "wellA" /\ rows[x] = "renamed" /\ rows["wellbore"] # "absent"))
     /\ IF step = Len(Statements) \/ Ends(x)
        THEN step' = 0 /\ done' = done + 1 /\ warned' = (x \in {"findWell", "findHoleSizes"})
        ELSE step' = step + 1 /\ UNCHANGED <<done, warned>>
  /\ UNCHANGED <<ownRuns, stopped, cut>>
SeedFails ==
  /\ Seed /\ Running /\ InTheWay(Statements[step])
  /\ step' = 0
  /\ UNCHANGED <<rows, moved, ownRuns, done, warned, stopped, cut>>

\* The script stops with an error, or is stopped. What it wrote stays.
Interrupt ==
  /\ Seed /\ Running /\ stopped < Interruptions
  /\ step' = 0 /\ stopped' = stopped + 1
  /\ cut' = (cut \/ \E r, q \in DemoRuns : rows[r] = "absent" /\ rows[q] # "absent")
  /\ UNCHANGED <<rows, moved, ownRuns, done, warned>>

\* The application and the Studio: a row is edited or renamed, a bit run is
\* captured or imported.
EditRow ==
  /\ Seed /\ Cardinality({x \in Row : rows[x] \in {"edited", "renamed"}}) < Edits
  /\ \E x \in Row, to \in {"edited", "renamed"} :
       /\ rows[x] = "seeded" /\ (to = "renamed" => x \in Named)
       /\ rows' = [rows EXCEPT ![x] = to]
  /\ UNCHANGED <<moved, ownRuns, step, done, warned, stopped, cut>>
CaptureRun ==
  /\ Seed /\ rows["clientA"] # "absent" /\ ownRuns' = TRUE
  /\ UNCHANGED <<rows, moved, step, done, warned, stopped, cut>>
-----------------------------------------------------------------------------
Etl(from, to) == script = "etl" /\ phase = from /\ phase' = to /\ UNCHANGED <<script, seedVars, source>>
Selected(r) == source.wellset = None \/ r.well = source.wellset

\* ensure_clean: not in a dry run; empty tables, or leave to truncate them,
\* which empties the tables that refer to them too.
EnsureClean ==
  /\ Etl("start", "reports")
  /\ source.dry \/ ~target.others \/ source.allowTruncate
  /\ loading' = IF source.dry \/ ~target.others THEN loading ELSE Nothing
  /\ UNCHANGED target
Abort == Etl("start", "failed") /\ ~source.dry /\ target.others /\ ~source.allowTruncate
         /\ UNCHANGED <<loading, target>>

\* Reports of L04, the first row of a key; then a bare one for each other
\* key of a child table. A date that cannot be read makes none.
\* Mutant: the child tables are not asked.
Rich == {i \in DOMAIN source.l04 :
  /\ Selected(source.l04[i]) /\ source.l04[i].date # "bad"
  /\ \A j \in 1..(i - 1) : Key(source.l04[j]) # Key(source.l04[i])}
RichReports == {[key |-> Key(source.l04[i]), row |-> i] : i \in Rich}
Extra_None == {}
Extra == {c \in source.children :
  /\ Selected(c) /\ c.date # "bad"
  /\ \A i \in Rich : Key(source.l04[i]) # Key(c)}
LoadReports ==
  /\ Etl("reports", "children")
  /\ loading' = [loading EXCEPT !.reports = RichReports \union {[key |-> Key(c), row |-> 0] : c \in Extra}]
  /\ UNCHANGED target

\* A child row goes to the report of its key; without one it is passed over,
\* but a mud row is loaded all the same, with the last loss of its interval.
RidOf(c) == {r \in loading.reports : r.key = Key(c)}
LossOf(c) ==
  LET losses == {n \in source.children : n.table = "N05" /\ Key(n) = Key(c)}
  IN IF c.table = "N01" THEN {n \in losses : \A m \in losses : m.nth <= n.nth} ELSE {}
LoadChildren ==
  /\ Etl("children", "finish")
  /\ loading' = [loading EXCEPT !.children =
       {[row |-> c, report |-> RidOf(c), loss |-> LossOf(c)] :
          c \in {c \in source.children :
                  Selected(c) /\ (c.table = "N01" \/ (c.table = "L05" /\ RidOf(c) # {}))}}]
  /\ UNCHANGED target

\* A dry run ends in a rollback, another in a commit; an error rolls back.
Finish ==
  /\ Etl("finish", "done")
  /\ target' = IF source.dry THEN target ELSE loading
  /\ UNCHANGED loading
Fail == \E p \in {"reports", "children", "finish"} :
  Etl(p, "failed") /\ UNCHANGED <<loading, target>>

Next == \/ StartSeed \/ SeedStep \/ SeedFails \/ Interrupt \/ EditRow \/ CaptureRun
        \/ EnsureClean \/ Abort \/ LoadReports \/ LoadChildren \/ Finish \/ Fail

Spec == Init /\ [][Next]_vars
\* The operator runs the seed again until it has succeeded.
FairSpec == Spec /\ WF_vars(SeedStep \/ SeedFails) /\ WF_vars(StartSeed /\ done = 0)
-----------------------------------------------------------------------------
\* "Idempotent ... so it can be re-run" (seed.ts:8): however often the seed is
\* interrupted, running it again ends with the vocabulary and the tenants in
\* place.
RerunRepairs == script = "seed" ~> \A x \in Base : rows[x] # "absent"

\* When seeds have succeeded, the demo runs are all there; or none is, and the
\* last seed warned that it skipped them; or some are, and a seed was
\* interrupted between two of them: the others are then never created
\* (seed.ts:242). Nothing is said of a tenant A with runs of its own.
DemoRunsAreWhole ==
  ~Running /\ done > 0 /\ ~ownRuns =>
    \/ \A r \in DemoRuns : rows[r] # "absent"
    \/ warned /\ \A r \in DemoRuns : rows[r] = "absent"
    \/ cut /\ \E r \in DemoRuns : rows[r] # "absent"

\* What somebody has changed in the demo clients, wells and runs survives
\* every seed: they are upserted with nothing to update (what was changed in
\* the vocabulary and the users does not). "Non-destructive by default"
\* (etl.py:164): rows that were in the target go only when the operator
\* allowed it, and then with the load that replaces them in one step; with
\* them go the assignments of their rigs, which nothing replaces (:176).
NothingIsOverwritten ==
  [][/\ \A x \in Row \ Updated : rows[x] = "edited" => rows'[x] = "edited"
     /\ \A t \in {"others", "assignments"} : target[t] /\ ~target'[t] =>
          source.allowTruncate /\ phase' = "done" /\ ~source.dry]_vars

\* The load is all or nothing: whatever fails, and in a dry run, the target
\* is as it was.
LoadIsAtomic ==
  target.reports \union target.children # {} =>
    phase = "done" /\ ~source.dry /\ target = loading

\* What a load leaves behind of the legacy rows of the selected wells that
\* have a readable date: for each, of whatever table, one report of its well
\* and date, with the first row of L04 that has them, if any; every row of the
\* tables that are loaded row by row, with that report; and of the losses of
\* an interval the last, if there is a mud row for it. All else is lost: the
\* later rows of L04 (etl.py:290), the losses without a mud row (:380) and the
\* earlier ones (:375), the rows of OperationAnalysis (:458).
LegacyIsKept ==
  script = "etl" /\ phase = "done" /\ ~source.dry =>
    LET reports(c) == {r \in target.reports : r.key = Key(c)}
        Kept(c) == Selected(c) /\ c.date # "bad"
    IN /\ \A i \in DOMAIN source.l04 : Kept(source.l04[i]) =>
            \E r \in target.reports :
              /\ reports(source.l04[i]) = {r} /\ r.row \in 1..i
              /\ \A j \in 1..(r.row - 1) : Key(source.l04[j]) # r.key
       /\ \A c \in source.children : Kept(c) =>
            \E r \in target.reports :
              /\ reports(c) = {r}
              /\ c.table \in {"L05", "N01"} =>
                   \E k \in target.children : k.row = c /\ k.report = {r}
       /\ \A n \in source.children : Kept(n) /\ n.table = "N05" =>
            \A k \in target.children : k.row.table = "N01" /\ Key(k.row) = Key(n) =>
              \E last \in source.children :
                k.loss = {last} /\ last.table = "N05" /\ Key(last) = Key(n) /\ n.nth <= last.nth

\* A migration leaves what it keeps of the selected legacy data behind, or
\* nothing.
LoadIsWhole == LoadIsAtomic /\ LegacyIsKept
=============================================================================
