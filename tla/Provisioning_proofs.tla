------------------------ MODULE Provisioning_proofs ------------------------
(***************************************************************************)
(* Theorems about Provisioning, for any number of interruptions, reruns,   *)
(* edits and legacy rows.                                                  *)
(***************************************************************************)
EXTENDS Provisioning, WellFoundedInduction, TLAPS

-----------------------------------------------------------------------------
(***************************************************************************)
(* The seed.                                                               *)
(***************************************************************************)
RowState == {"absent", "seeded", "edited", "renamed"}
SeedTypeOK ==
  /\ rows \in [Row -> RowState]
  /\ step \in 0..15 /\ done \in Nat

\* Past the count the demo runs are created one after the other; before it
\* there are both or none, unless the seed was cut between them. Once it has
\* succeeded there are runs, unless it ended with a warning.
SeedInv ==
  /\ step \in 9..14 => rows["run1"] = "absent" /\ rows["run2"] = "absent"
  /\ step = 15 => rows["run1"] # "absent" /\ rows["run2"] = "absent"
  /\ step <= 8 /\ ~cut => (rows["run1"] = "absent" <=> rows["run2"] = "absent")
  /\ done > 0 /\ ~warned => HasRuns

\* The statements that read and those that write.
Reading == {8, 9, 11}
Writing == (1..15) \ Reading

\* The count is the eighth statement, the demo runs are the last two.
LEMMA StatementsAre ==
  /\ Len(Statements) = 15
  /\ \A k \in 1..15 : Statements[k] = "count" <=> k = 8
  /\ \A k \in Reading : Statements[k] \in Reads
  /\ \A k \in Writing : Statements[k] \in Row \ Reads
BY DEF Statements, Reading, Writing, Reads, Row, Base, Vocabulary, Tenants, Fixtures, DemoRuns

LEMMA RunsAreLast ==
  /\ \A k \in 1..15 : Statements[k] = "run1" <=> k = 14
  /\ \A k \in 1..15 : Statements[k] = "run2" <=> k = 15
BY DEF Statements

LEMMA RunsAreRows == "run1" \in Row /\ "run2" \in Row
BY DEF Row, DemoRuns

LEMMA HasRunsIs == HasRuns <=> ownRuns \/ rows["run1"] # "absent" \/ rows["run2"] # "absent"
BY DEF HasRuns, DemoRuns

\* A statement that reads writes nothing; the seed may end with it.
LEMMA ReadStep ==
  ASSUME SeedTypeOK, SeedStep, step \in Reading
  PROVE  /\ UNCHANGED <<rows, ownRuns, cut>>
         /\ \/ step' = 0 /\ done' = done + 1 /\ (~warned' => HasRuns)
            \/ step' = step + 1 /\ UNCHANGED <<done, warned>> /\ (step = 8 => ~HasRuns)
<1>1. Statements[step] \in Reads /\ step \in 1..15 /\ step # Len(Statements)
  BY StatementsAre DEF Reading
<1>2. UNCHANGED <<rows, ownRuns, cut>>
  BY <1>1 DEF SeedStep
<1>3. CASE Ends(Statements[step])
  <2>1. step' = 0 /\ done' = done + 1 /\ warned' = (Statements[step] \in {"findWell", "findHoleSizes"})
    BY <1>3 DEF SeedStep
  <2>2. Statements[step] = "count" => HasRuns
    BY <1>3 DEF Ends
  <2> QED BY <1>1, <1>2, <2>1, <2>2 DEF Reads
<1>4. CASE ~Ends(Statements[step])
  <2>1. step' = step + 1 /\ UNCHANGED <<done, warned>>
    BY <1>1, <1>4 DEF SeedStep
  <2>2. step = 8 => ~HasRuns
    BY <1>1, <1>4, StatementsAre DEF Ends
  <2> QED BY <1>2, <2>1, <2>2
<1> QED BY <1>3, <1>4

\* Another statement is an upsert of its row.
LEMMA UpsertStep ==
  ASSUME SeedTypeOK, SeedStep, step \notin Reading
  PROVE  /\ step \in Writing /\ Statements[step] \in Row
         /\ rows' \in [Row -> RowState]
         /\ rows'[Statements[step]] # "absent"
         /\ \A y \in Row \ {Statements[step]} : rows'[y] = rows[y]
         /\ UNCHANGED <<ownRuns, cut>>
         /\ step = 15 => step' = 0 /\ done' = done + 1
         /\ step # 15 => step' = step + 1 /\ UNCHANGED <<done, warned>>
<1>1. step \in Writing
  BY DEF SeedStep, Running, SeedTypeOK, Writing
<1>2. Statements[step] \in Row /\ Statements[step] \notin Reads /\ Len(Statements) = 15
  BY <1>1, StatementsAre
<1>3. rows' = Upsert(Statements[step]) /\ UNCHANGED <<ownRuns, cut>>
  BY <1>2 DEF SeedStep
<1>4. /\ rows' \in [Row -> RowState]
      /\ rows'[Statements[step]] # "absent"
      /\ \A y \in Row \ {Statements[step]} : rows'[y] = rows[y]
  BY <1>2, <1>3 DEF Upsert, SeedTypeOK, RowState
<1>5. ~Ends(Statements[step])
  BY <1>2 DEF Ends, Reads
<1>6. /\ step = 15 => step' = 0 /\ done' = done + 1
      /\ step # 15 => step' = step + 1 /\ UNCHANGED <<done, warned>>
  BY <1>2, <1>5 DEF SeedStep
<1> QED BY <1>1, <1>2, <1>3, <1>4, <1>6

\* One statement of the seed keeps the invariant.
LEMMA SeedStepKeeps ==
  ASSUME SeedTypeOK, SeedInv, SeedStep
  PROVE  SeedTypeOK' /\ SeedInv'
<1>1. CASE step \in Reading
  <2>1. UNCHANGED <<rows, ownRuns, cut>> /\ (HasRuns' <=> HasRuns)
    BY <1>1, ReadStep DEF HasRuns
  <2>2. CASE step' = 0 /\ done' = done + 1 /\ (~warned' => HasRuns)
    <3>1. ~cut => (rows["run1"] = "absent" <=> rows["run2"] = "absent")
      BY <1>1 DEF SeedInv, Reading
    <3> QED BY <2>1, <2>2, <3>1 DEF SeedTypeOK, SeedInv
  <2>3. CASE step' = step + 1 /\ UNCHANGED <<done, warned>> /\ (step = 8 => ~HasRuns)
    <3>1. rows["run1"] = "absent" /\ rows["run2"] = "absent"
      BY <1>1, <2>3, HasRunsIs DEF SeedInv, Reading
    <3>2. step' \in 9..12
      BY <1>1, <2>3 DEF Reading
    <3> QED BY <2>1, <2>3, <3>1, <3>2 DEF SeedTypeOK, SeedInv
  <2> QED BY <1>1, <2>2, <2>3, ReadStep
<1>2. CASE step \in 1..7
  <2>1. /\ UNCHANGED <<ownRuns, cut, done, warned>> /\ step' = step + 1
        /\ rows' \in [Row -> RowState]
    BY <1>2, UpsertStep DEF Reading
  <2>2. Statements[step] # "run1" /\ Statements[step] # "run2"
    BY <1>2, RunsAreLast
  <2>3. rows'["run1"] = rows["run1"] /\ rows'["run2"] = rows["run2"]
    BY <1>2, <2>2, UpsertStep, RunsAreRows DEF Reading
  <2>4. HasRuns' <=> HasRuns
    BY <2>1, <2>3 DEF HasRuns, DemoRuns
  <2> QED BY <1>2, <2>1, <2>3, <2>4 DEF SeedTypeOK, SeedInv
<1>3. CASE step \in (9..14) \ Reading
  <2>1. /\ UNCHANGED <<ownRuns, cut, done, warned>> /\ step' = step + 1
        /\ rows' \in [Row -> RowState]
    BY <1>3, UpsertStep
  <2>2. Statements[step] # "run2" /\ (Statements[step] = "run1" <=> step = 14)
    BY <1>3, RunsAreLast
  <2>3. rows'["run2"] = rows["run2"]
    BY <1>3, <2>2, UpsertStep, RunsAreRows
  <2>4. step # 14 => rows'["run1"] = rows["run1"]
    BY <1>3, <2>2, UpsertStep, RunsAreRows
  <2>5. step = 14 => rows'["run1"] # "absent"
    BY <1>3, <2>2, UpsertStep
  <2>6. rows["run1"] = "absent" /\ rows["run2"] = "absent"
    BY <1>3 DEF SeedInv
  <2>7. done > 0 /\ ~warned => ownRuns
    BY <2>6, HasRunsIs DEF SeedInv
  <2>8. done' > 0 /\ ~warned' => HasRuns'
    BY <2>1, <2>7 DEF HasRuns
  <2> QED BY <1>3, <2>1, <2>3, <2>4, <2>5, <2>6, <2>8 DEF SeedTypeOK, SeedInv
<1>4. CASE step = 15
  <2>1. /\ UNCHANGED <<ownRuns, cut>> /\ step' = 0 /\ done' = done + 1
        /\ rows' \in [Row -> RowState]
    BY <1>4, UpsertStep DEF Reading
  <2>2. Statements[step] = "run2"
    BY <1>4, RunsAreLast
  <2>3. rows'["run1"] # "absent" /\ rows'["run2"] # "absent"
    BY <1>4, <2>2, UpsertStep, RunsAreRows DEF SeedInv, Reading
  <2>4. HasRuns'
    BY <2>3 DEF HasRuns, DemoRuns
  <2> QED BY <2>1, <2>3, <2>4 DEF SeedTypeOK, SeedInv
<1> QED BY <1>1, <1>2, <1>3, <1>4 DEF SeedStep, Running, SeedTypeOK, Reading

\* The seed, its interruptions and what else happens to its rows.
THEOREM SeedInvInvariant == Spec => [](SeedTypeOK /\ SeedInv)
<1>1. Init => SeedTypeOK /\ SeedInv
  BY RunsAreRows DEF Init, SeedTypeOK, SeedInv, RowState
<1>2. SeedTypeOK /\ SeedInv /\ [Next]_vars => SeedTypeOK' /\ SeedInv'
  <2> SUFFICES ASSUME SeedTypeOK, SeedInv, [Next]_vars
               PROVE  SeedTypeOK' /\ SeedInv'
    OBVIOUS
  <2>1. CASE StartSeed
    BY <2>1 DEF StartSeed, Running, SeedTypeOK, SeedInv, HasRuns
  <2>2. CASE SeedStep
    BY <2>2, SeedStepKeeps
  <2>3. CASE SeedFails
    <3>1. UNCHANGED <<rows, ownRuns, done, warned, cut>> /\ step' = 0
      BY <2>3 DEF SeedFails
    <3>2. step = 10
      <4>1. Statements[step] = "wellbore" /\ step \in 1..15
        BY <2>3 DEF SeedFails, InTheWay, Running, SeedTypeOK
      <4> QED BY <4>1 DEF Statements
    <3>3. rows'["run1"] = "absent" /\ rows'["run2"] = "absent"
      BY <3>1, <3>2 DEF SeedInv
    <3>4. HasRuns' <=> HasRuns
      BY <3>1 DEF HasRuns
    <3> QED BY <3>1, <3>3, <3>4 DEF SeedTypeOK, SeedInv
  <2>4. CASE Interrupt
    <3>1. UNCHANGED <<rows, ownRuns, done, warned>> /\ step' = 0
      BY <2>4 DEF Interrupt
    <3>2. ~cut' => (rows["run1"] = "absent" <=> rows["run2"] = "absent")
      BY <2>4 DEF Interrupt, DemoRuns
    <3>3. HasRuns' <=> HasRuns
      BY <3>1 DEF HasRuns
    <3> QED BY <3>1, <3>2, <3>3 DEF SeedTypeOK, SeedInv
  <2>5. CASE EditRow
    <3>1. UNCHANGED <<ownRuns, step, done, warned, cut>> /\ rows' \in [Row -> RowState]
      BY <2>5 DEF EditRow, SeedTypeOK, RowState
    <3>2. \A x \in Row : rows'[x] = "absent" <=> rows[x] = "absent"
      BY <2>5 DEF EditRow, SeedTypeOK
    <3>3. \A x \in {"run1", "run2"} : rows'[x] = "absent" <=> rows[x] = "absent"
      BY <3>2, RunsAreRows
    <3> QED BY <3>1, <3>3 DEF SeedTypeOK, SeedInv, HasRuns, DemoRuns
  <2>6. CASE CaptureRun
    BY <2>6 DEF CaptureRun, SeedTypeOK, SeedInv, HasRuns
  <2>7. CASE UNCHANGED seedVars
    BY <2>7 DEF seedVars, SeedTypeOK, SeedInv, HasRuns
  <2> QED BY <2>1, <2>2, <2>3, <2>4, <2>5, <2>6, <2>7
          DEF Next, EnsureClean, Abort, LoadReports, LoadChildren, Finish, Fail, Etl, vars
<1> QED BY <1>1, <1>2, PTL DEF Spec

\* A seed that succeeds leaves all demo runs behind, or none and a warning,
\* however often it was interrupted, failed or was ended early; one that was
\* interrupted between two of them, some.
THEOREM DemoRunsWhole == Spec => []DemoRunsAreWhole
<1>1. SeedTypeOK /\ SeedInv => DemoRunsAreWhole
  BY DEF SeedTypeOK, SeedInv, DemoRunsAreWhole, HasRuns, DemoRuns, Running
<1> QED BY <1>1, SeedInvInvariant, PTL

-----------------------------------------------------------------------------
(***************************************************************************)
(* What a seed leaves behind.                                              *)
(***************************************************************************)
Written == {k \in Writing : rows[Statements[k]] # "absent"}

\* Whatever was interrupted, edited, renamed or captured, a row is there only
\* with all the rows that come before it: those of the statements that have
\* run, and the first seven once a seed has succeeded.
InOrder ==
  /\ \A k \in Written : \A j \in Writing : j < k => j \in Written
  /\ \A j \in Writing : j < step => j \in Written
  /\ done > 0 => 1..7 \subseteq Written

\* A seed that succeeded left the vocabulary and the tenants behind, by
\* whatever of its returns; and no demo run is there without them, or without
\* the wellbore, the sections and the bits that it hangs on.
SeededAsAWhole ==
  /\ done > 0 => \A x \in Base : rows[x] # "absent"
  /\ (\E r \in DemoRuns : rows[r] # "absent") => \A x \in Base \union Fixtures : rows[x] # "absent"

\* The rows of the first statements, and of those between the count and the
\* demo runs.
LEMMA StatementRows ==
  /\ \A x \in Base : \E k \in 1..7 : Statements[k] = x
  /\ \A x \in Fixtures : \E k \in {10, 12, 13} : Statements[k] = x
  /\ \A x \in DemoRuns : \E k \in 14..15 : Statements[k] = x
<1>1. /\ Statements[1] = "holeSizes" /\ Statements[2] = "reasonsPulled"
      /\ Statements[3] = "clientA" /\ Statements[4] = "clientB" /\ Statements[5] = "wellA"
      /\ Statements[6] = "wellB" /\ Statements[7] = "users"
  BY DEF Statements
<1>2. /\ Statements[10] = "wellbore" /\ Statements[12] = "section"
      /\ Statements[13] = "bitMaster" /\ Statements[14] = "run1" /\ Statements[15] = "run2"
  BY DEF Statements
<1>3. ASSUME NEW x \in Base PROVE \E k \in 1..7 : Statements[k] = x
  BY <1>1 DEF Base, Vocabulary, Tenants
<1>4. ASSUME NEW x \in Fixtures PROVE \E k \in {10, 12, 13} : Statements[k] = x
  BY <1>2 DEF Fixtures
<1>5. ASSUME NEW x \in DemoRuns PROVE \E k \in 14..15 : Statements[k] = x
  BY <1>2 DEF DemoRuns
<1> QED BY <1>3, <1>4, <1>5

\* A statement writes its own row, and no step takes one away.
LEMMA WrittenStep ==
  ASSUME SeedTypeOK, SeedStep
  PROVE  Written' = IF step \in Reading THEN Written ELSE Written \union {step}
<1>1. CASE step \in Reading
  BY <1>1, ReadStep DEF Written
<1>2. CASE step \notin Reading
  <2>1. step \in Writing
    BY <1>2, UpsertStep
  <2>2. \A k \in Writing : Statements[k] \in Row
    BY StatementsAre
  <2>3. \A k \in Writing :
          rows'[Statements[k]] # "absent" <=> Statements[k] = Statements[step] \/ rows[Statements[k]] # "absent"
    BY <1>2, <2>2, UpsertStep
  <2>4. \A k \in Writing : Statements[k] = Statements[step] => k = step
    BY <1>2, <2>1 DEF Statements, Writing, Reading
  <2> QED BY <1>2, <2>1, <2>3, <2>4 DEF Written
<1> QED BY <1>1, <1>2

LEMMA InOrderInvariant == Spec => []InOrder
<1>1. Init => InOrder
  <2> SUFFICES ASSUME Init PROVE InOrder
    OBVIOUS
  <2>1. Written = {}
    BY StatementsAre DEF Init, Written
  <2> QED BY <2>1 DEF Init, InOrder, Writing
<1>2. SeedTypeOK /\ SeedInv /\ InOrder /\ [Next]_vars => InOrder'
  <2> SUFFICES ASSUME SeedTypeOK, SeedInv, InOrder, [Next]_vars
               PROVE  InOrder'
    OBVIOUS
  <2>1. CASE StartSeed
    <3>1. UNCHANGED <<rows, done>> /\ step' = 1
      BY <2>1 DEF StartSeed
    <3>2. Written' = Written
      BY <3>1 DEF Written
    <3> QED BY <3>1, <3>2 DEF InOrder, Writing
  <2>2. CASE SeedStep
    <3> HIDE DEF Written
    <3>1. CASE step \in Reading
      <4>1. Written' = Written /\ 1..7 \subseteq Written
        BY <2>2, <3>1, WrittenStep DEF InOrder, Reading, Writing
      <4>2. step' \in {0, step + 1}
        BY <2>2, <3>1, ReadStep
      <4>3. \A j \in Writing : j < step' => j \in Written
        BY <3>1, <4>2 DEF InOrder, Reading, Writing
      <4> QED BY <4>1, <4>3 DEF InOrder
    <3>2. CASE step \notin Reading
      <4>1. Written' = Written \union {step} /\ step \in Writing
        BY <2>2, <3>2, WrittenStep, UpsertStep
      <4>2. step' \in {0, step + 1}
        BY <2>2, <3>2, UpsertStep DEF SeedTypeOK
      <4>3. \A j \in Writing : j < step => j \in Written
        BY DEF InOrder
      <4>4. \A j \in Writing : j < step' => j \in Written'
        BY <4>1, <4>2, <4>3 DEF Writing
      <4>5. done' > 0 => 1..7 \subseteq Written'
        <5>1. CASE step = 15
          BY <4>1, <4>3, <5>1 DEF Writing, Reading
        <5>2. CASE step # 15
          BY <2>2, <3>2, <4>1, <5>2, UpsertStep DEF InOrder
        <5> QED BY <5>1, <5>2
      <4>6. \A k \in Written' : \A j \in Writing : j < k => j \in Written'
        BY <4>1, <4>3 DEF InOrder
      <4> QED BY <4>4, <4>5, <4>6 DEF InOrder
    <3> QED BY <3>1, <3>2
  <2>3. CASE Interrupt \/ SeedFails
    <3>1. UNCHANGED <<rows, done>> /\ step' = 0
      BY <2>3 DEF Interrupt, SeedFails
    <3>2. Written' = Written
      BY <3>1 DEF Written
    <3> QED BY <3>1, <3>2 DEF InOrder, Writing
  <2>4. CASE EditRow
    <3>1. UNCHANGED <<step, done>> /\ \A x \in Row : rows'[x] = "absent" <=> rows[x] = "absent"
      BY <2>4 DEF EditRow, SeedTypeOK
    <3>2. \A k \in Writing : Statements[k] \in Row
      BY StatementsAre
    <3>3. Written' = Written
      BY <3>1, <3>2 DEF Written
    <3> QED BY <3>1, <3>3 DEF InOrder
  <2>5. CASE UNCHANGED <<rows, step, done>>
    BY <2>5 DEF InOrder, Written
  <2> QED BY <2>1, <2>2, <2>3, <2>4, <2>5
          DEF Next, CaptureRun, EnsureClean, Abort, LoadReports, LoadChildren, Finish, Fail,
              Etl, vars, seedVars
<1> QED BY <1>1, <1>2, SeedInvInvariant, PTL DEF Spec

\* What RerunRepairs promises is there whenever a seed has succeeded, and
\* stays; the demo runs never hang on rows that are missing.
THEOREM SeededWhole == Spec => []SeededAsAWhole
<1>1. InOrder => SeededAsAWhole
  <2> SUFFICES ASSUME InOrder PROVE SeededAsAWhole
    OBVIOUS
  <2>1. done > 0 => \A k \in 1..7 : rows[Statements[k]] # "absent"
    BY DEF InOrder, Written
  <2>2. ASSUME NEW r \in DemoRuns, rows[r] # "absent"
        PROVE  \A k \in (1..7) \union {10, 12, 13} : rows[Statements[k]] # "absent"
    <3>1. PICK k \in 14..15 : Statements[k] = r
      BY StatementRows
    <3>2. k \in Written /\ (1..7) \union {10, 12, 13} \subseteq {j \in Writing : j < k}
      BY <2>2, <3>1 DEF Written, Writing, Reading
    <3>3. (1..7) \union {10, 12, 13} \subseteq Written
      <4> HIDE DEF Written
      <4> QED BY <3>2 DEF InOrder
    <3> QED BY <3>3 DEF Written
  <2>3. ASSUME NEW r \in DemoRuns, rows[r] # "absent", NEW x \in Base \union Fixtures
        PROVE  rows[x] # "absent"
    <3>1. \E k \in (1..7) \union {10, 12, 13} : Statements[k] = x
      BY StatementRows
    <3> QED BY <2>2, <2>3, <3>1
  <2> QED BY <2>1, <2>3, StatementRows DEF SeededAsAWhole
<1> QED BY <1>1, InOrderInvariant, PTL

-----------------------------------------------------------------------------
(***************************************************************************)
(* The migration.                                                          *)
(***************************************************************************)
Loaded == RichReports \union {[key |-> Key(c), row |-> 0] : c \in Extra}
Of(c) == {r \in Loaded : r.key = Key(c)}
LoadedChildren ==
  {[row |-> c, report |-> Of(c), loss |-> LossOf(c)] :
     c \in {c \in source.children :
             Selected(c) /\ (c.table = "N01" \/ (c.table = "L05" /\ Of(c) # {}))}}

\* By phase, what the transaction has written: what it found or nothing, the
\* reports of the legacy keys, the child rows with their reports. Committed
\* rows are those the script found, until it is done and was no dry run.
EtlInv ==
  /\ loading = [reports |-> loading.reports, children |-> loading.children,
                others |-> loading.others, assignments |-> loading.assignments]
  /\ phase = "start" => loading = target
  /\ phase \in {"start", "reports"} => loading.reports = {} /\ loading.children = {}
  /\ phase \in {"children", "finish", "done"} => loading.reports = Loaded
  /\ phase = "children" => loading.children = {}
  /\ phase \in {"finish", "done"} => loading.children = LoadedChildren
  /\ phase # "done" \/ source.dry => target.reports = {} /\ target.children = {}
  /\ phase = "done" /\ ~source.dry => target = loading
  /\ phase \in {"reports", "children", "finish"} =>
       \/ source.dry \/ source.allowTruncate
       \/ ~target.others /\ loading.assignments = target.assignments
  /\ script = "etl" => /\ \E n \in Nat : DOMAIN source.l04 = 1..n
                       /\ source.children \subseteq ChildRow

\* What is derived from the source does not change.
LEMMA SourceIsConstant ==
  ASSUME source' = source
  PROVE  Loaded' = Loaded /\ LoadedChildren' = LoadedChildren
BY DEF Loaded, LoadedChildren, Of, RichReports, Rich, Extra, Selected, Key, LossOf

THEOREM EtlInvInvariant == Spec => []EtlInv
<1>1. Init => EtlInv
  <2> SUFFICES ASSUME Init PROVE EtlInv
    OBVIOUS
  <2>1. /\ phase = "start" /\ loading = target
        /\ target = [reports |-> {}, children |-> {}, others |-> target.others,
                     assignments |-> target.assignments]
    <3>1. target \in Found
      <4>1. Nothing \in Found
        BY DEF Found, Nothing
      <4> QED BY <4>1 DEF Init
    <3>2. \A t \in Found : t = [reports |-> {}, children |-> {}, others |-> t.others,
                                assignments |-> t.assignments]
      BY DEF Found, Nothing
    <3> QED BY <3>1, <3>2 DEF Init
  <2>2. ASSUME script = "etl"
        PROVE  (\E n \in Nat : DOMAIN source.l04 = 1..n) /\ source.children \subseteq ChildRow
    <3>1. source \in Sources
      BY <2>2 DEF Init
    <3>2. source.l04 \in BoundedSeq(L04Row, LegacyReports)
      BY <3>1 DEF Sources
    <3>3. PICK s \in BoundedSeq(ChildRow, LegacyRows) : source.children = ToSet(s)
      BY <3>1 DEF Sources
    <3>4. \E n \in Nat : DOMAIN source.l04 = 1..n
      BY <3>2, BoundAssumption DEF BoundedSeq, SeqOf
    <3>5. source.children \subseteq ChildRow
      BY <3>3 DEF BoundedSeq, SeqOf, ToSet
    <3> QED BY <3>4, <3>5
  <2> QED BY <2>1, <2>2 DEF EtlInv
<1>2. EtlInv /\ [Next]_vars => EtlInv'
  <2> SUFFICES ASSUME EtlInv, [Next]_vars PROVE EtlInv'
    OBVIOUS
  <2> USE DEF EtlInv, Etl
  <2>1. CASE EnsureClean
    BY <2>1 DEF EnsureClean, Nothing
  <2>2. CASE Abort
    BY <2>2 DEF Abort
  <2>3. CASE LoadReports
    <3>1. /\ loading'.reports = Loaded /\ loading'.children = {}
          /\ loading'.others = loading.others /\ loading'.assignments = loading.assignments
      BY <2>3 DEF LoadReports, Loaded
    <3>2. loading' = [reports |-> loading'.reports, children |-> loading'.children,
                      others |-> loading'.others, assignments |-> loading'.assignments]
      BY <2>3 DEF LoadReports
    <3> QED BY <2>3, <3>1, <3>2, SourceIsConstant DEF LoadReports
  <2>4. CASE LoadChildren
    <3>1. loading.reports = Loaded
      BY <2>4 DEF LoadChildren
    <3>2. \A c : RidOf(c) = Of(c)
      BY <3>1 DEF RidOf, Of
    <3>3. loading' = [loading EXCEPT !.children = LoadedChildren]
      BY <2>4, <3>2 DEF LoadChildren, LoadedChildren
    <3> QED BY <2>4, <3>1, <3>3, SourceIsConstant DEF LoadChildren
  <2>5. CASE Finish
    BY <2>5, SourceIsConstant DEF Finish
  <2>6. CASE Fail
    BY <2>6 DEF Fail
  <2>7. CASE UNCHANGED <<script, etlVars>>
    BY <2>7, SourceIsConstant DEF etlVars
  <2> QED BY <2>1, <2>2, <2>3, <2>4, <2>5, <2>6, <2>7
          DEF Next, StartSeed, SeedStep, SeedFails, Interrupt, EditRow, CaptureRun, Seed, vars
<1> QED BY <1>1, <1>2, PTL DEF Spec

\* Whatever the legacy tables hold, the first row of each key becomes its
\* report: there is a first one among any of them.
LEMMA FirstRow ==
  ASSUME EtlInv, script = "etl", NEW i \in DOMAIN source.l04,
         Selected(source.l04[i]), source.l04[i].date # "bad"
  PROVE  \E j \in Rich : j \in 1..i /\ Key(source.l04[j]) = Key(source.l04[i])
<1>1. PICK n \in Nat : DOMAIN source.l04 = 1..n
  BY DEF EtlInv
<1> DEFINE T == {j \in 1..n : Key(source.l04[j]) = Key(source.l04[i])}
           R == OpToRel(<, Nat)
<1>2. \E j \in T : \A k \in T : ~(<<k, j>> \in R)
  <2>1. T \subseteq Nat /\ T # {}
    BY <1>1
  <2>2. IsWellFoundedOn(R, Nat)
    BY NatLessThanWellFounded
  <2> HIDE DEF T, R
  <2> QED BY <2>1, <2>2, WFMin
<1>3. PICK j \in T : \A k \in T : ~(<<k, j>> \in R)
  BY <1>2
<1>4. \A k \in T : ~(k < j)
  <2>1. R = {ss \in Nat \X Nat : ss[1] < ss[2]} /\ T \subseteq Nat
    BY DEF OpToRel
  <2> HIDE DEF R, T
  <2> QED BY <1>3, <2>1
<1>5. j \in 1..n /\ Key(source.l04[j]) = Key(source.l04[i]) /\ j \in 1..i
  BY <1>1, <1>4
<1>6. \A k \in 1..(j - 1) : Key(source.l04[k]) # Key(source.l04[j])
  BY <1>4, <1>5
<1>7. source.l04[j].well = source.l04[i].well /\ source.l04[j].date = source.l04[i].date
  BY <1>5 DEF Key
<1> QED BY <1>1, <1>5, <1>6, <1>7 DEF Rich, Selected

\* A key has one report: that of its first row, or a bare one.
LEMMA OneReport ==
  ASSUME EtlInv, script = "etl", NEW r \in Loaded, NEW q \in Loaded, r.key = q.key
  PROVE  r = q
<1>1. PICK n \in Nat : DOMAIN source.l04 = 1..n
  BY DEF EtlInv
<1>2. ASSUME NEW i \in Rich, NEW j \in Rich, Key(source.l04[i]) = Key(source.l04[j])
      PROVE  i = j
  <2>1. i \in 1..n /\ j \in 1..n
    BY <1>1 DEF Rich
  <2>2. ~(i < j)
    BY <1>2, <2>1 DEF Rich
  <2>3. ~(j < i)
    BY <1>2, <2>1 DEF Rich
  <2> QED BY <2>1, <2>2, <2>3
<1>3. CASE r \in RichReports /\ q \in RichReports
  <2>1. PICK i \in Rich : r = [key |-> Key(source.l04[i]), row |-> i]
    BY <1>3 DEF RichReports
  <2>2. PICK j \in Rich : q = [key |-> Key(source.l04[j]), row |-> j]
    BY <1>3 DEF RichReports
  <2> QED BY <1>2, <2>1, <2>2
<1>4. CASE r \notin RichReports \/ q \notin RichReports
  <2>1. \A c \in Extra : \A i \in Rich : Key(source.l04[i]) # Key(c)
    BY DEF Extra
  <2> QED BY <1>4, <2>1 DEF Loaded, RichReports
<1> QED BY <1>3, <1>4

\* Of the losses of an interval the last is there, whatever their number.
LEMMA LastLoss ==
  ASSUME EtlInv, script = "etl", NEW n \in source.children, n.table = "N05",
         NEW c \in source.children, c.table = "N01", Key(c) = Key(n)
  PROVE  \E last \in source.children :
           LossOf(c) = {last} /\ last.table = "N05" /\ Key(last) = Key(n) /\ n.nth <= last.nth
<1> DEFINE losses == {m \in source.children : m.table = "N05" /\ Key(m) = Key(n)}
<1>1. LossOf(c) = {m \in losses : \A l \in losses : l.nth <= m.nth}
  BY DEF LossOf
<1>2. n \in losses
  OBVIOUS
<1>3. \A m \in losses : m.nth \in {1, 2}
  BY DEF EtlInv, ChildRow
<1>4. \A m, l \in losses : m.nth = l.nth => m = l
  <2> SUFFICES ASSUME NEW m \in losses, NEW l \in losses, m.nth = l.nth PROVE m = l
    OBVIOUS
  <2>1. m.table = l.table /\ m.well = l.well /\ m.date = l.date
    BY DEF Key
  <2>2. \A x \in losses : x = [table |-> x.table, well |-> x.well, date |-> x.date, nth |-> x.nth]
    BY DEF EtlInv, ChildRow
  <2> QED BY <2>1, <2>2
<1>5. \E last \in losses : \A l \in losses : l.nth <= last.nth
  <2>1. CASE \E m \in losses : m.nth = 2
    BY <1>3, <2>1
  <2>2. CASE \A m \in losses : m.nth # 2
    BY <1>2, <1>3, <2>2
  <2> QED BY <2>1, <2>2
<1>6. PICK last \in losses : \A l \in losses : l.nth <= last.nth
  BY <1>5
<1>7. \A m \in losses : (\A l \in losses : l.nth <= m.nth) => m = last
  BY <1>3, <1>4, <1>6
<1> QED BY <1>1, <1>2, <1>6, <1>7

\* A migration leaves of the selected legacy data what LegacyIsKept says, or
\* nothing, wherever it fails: one report of each well and date that a row
\* has, with the first row of L04, the rows that are loaded, each with that
\* report, and the last of the losses of an interval that has a mud row.
THEOREM LoadWhole == Spec => []LoadIsWhole
<1>1. EtlInv => LoadIsAtomic
  BY DEF EtlInv, LoadIsAtomic
<1>2. EtlInv => LegacyIsKept
  <2> SUFFICES ASSUME EtlInv, script = "etl", phase = "done", ~source.dry
               PROVE  LegacyIsKept
    BY DEF LegacyIsKept
  <2> DEFINE reports(c) == {r \in target.reports : r.key = Key(c)}
             Kept(c) == Selected(c) /\ c.date # "bad"
  <2>1. target.reports = Loaded /\ target.children = LoadedChildren
    BY DEF EtlInv
  <2>2. ASSUME NEW r \in Loaded, NEW c, r.key = Key(c)
        PROVE  reports(c) = {r} /\ Of(c) = {r}
    BY <2>1, <2>2, OneReport DEF Of
  <2>3. ASSUME NEW c \in source.children, Kept(c)
        PROVE  \E r \in target.reports :
                 /\ reports(c) = {r}
                 /\ c.table \in {"L05", "N01"} =>
                      \E k \in target.children : k.row = c /\ k.report = {r}
    <3>1. PICK r \in Loaded : r.key = Key(c)
      <4>1. CASE \E i \in Rich : Key(source.l04[i]) = Key(c)
        <5>1. PICK i \in Rich : Key(source.l04[i]) = Key(c)
          BY <4>1
        <5>2. [key |-> Key(source.l04[i]), row |-> i] \in Loaded
          BY DEF Loaded, RichReports
        <5> QED BY <5>1, <5>2
      <4>2. CASE \A i \in Rich : Key(source.l04[i]) # Key(c)
        <5>1. [key |-> Key(c), row |-> 0] \in Loaded
          BY <2>3, <4>2 DEF Loaded, Extra
        <5> QED BY <5>1
      <4> QED BY <4>1, <4>2
    <3>2. reports(c) = {r} /\ Of(c) = {r}
      BY <2>2, <3>1
    <3>3. ASSUME c.table \in {"L05", "N01"}
          PROVE  \E k \in target.children : k.row = c /\ k.report = {r}
      <4>1. [row |-> c, report |-> Of(c), loss |-> LossOf(c)] \in target.children
        BY <2>1, <2>3, <3>2, <3>3 DEF LoadedChildren
      <4> QED BY <3>2, <4>1
    <3> QED BY <2>1, <3>1, <3>2, <3>3
  <2>4. ASSUME NEW i \in DOMAIN source.l04, Kept(source.l04[i])
        PROVE  \E r \in target.reports :
                 /\ reports(source.l04[i]) = {r} /\ r.row \in 1..i
                 /\ \A j \in 1..(r.row - 1) : Key(source.l04[j]) # r.key
    <3>1. PICK j \in Rich : j \in 1..i /\ Key(source.l04[j]) = Key(source.l04[i])
      BY <2>4, FirstRow
    <3> DEFINE r == [key |-> Key(source.l04[j]), row |-> j]
    <3>2. r \in Loaded
      BY DEF Loaded, RichReports
    <3>3. r.key = Key(source.l04[i]) /\ r.key = Key(source.l04[j]) /\ r.row = j
      BY <3>1
    <3>4. \A k \in 1..(j - 1) : Key(source.l04[k]) # Key(source.l04[j])
      BY DEF Rich
    <3> HIDE DEF r
    <3>5. reports(source.l04[i]) = {r}
      BY <2>2, <3>2, <3>3
    <3> QED BY <2>1, <3>1, <3>2, <3>3, <3>4, <3>5
  <2>5. ASSUME NEW n \in source.children, n.table = "N05", NEW k \in target.children,
               k.row.table = "N01", Key(k.row) = Key(n)
        PROVE  \E last \in source.children :
                 k.loss = {last} /\ last.table = "N05" /\ Key(last) = Key(n) /\ n.nth <= last.nth
    <3>1. k.row \in source.children /\ k.loss = LossOf(k.row)
      BY <2>1 DEF LoadedChildren
    <3> QED BY <2>5, <3>1, LastLoss
  <2> QED BY <2>3, <2>4, <2>5 DEF LegacyIsKept
<1> QED BY <1>1, <1>2, EtlInvInvariant, PTL DEF LoadIsWhole

\* Neither script destroys what it did not write: no seed undoes an edit of
\* the rows it does not update, and rows found by the migration, and the
\* assignments of their rigs, go only when the operator allowed it, with the
\* load that replaces them.
THEOREM NothingOverwritten == Spec => NothingIsOverwritten
<1> DEFINE Kept == /\ \A x \in Row \ Updated : rows[x] = "edited" => rows'[x] = "edited"
                   /\ \A t \in {"others", "assignments"} : target[t] /\ ~target'[t] =>
                        source.allowTruncate /\ phase' = "done" /\ ~source.dry
<1>1. SeedTypeOK /\ EtlInv /\ [Next]_vars => Kept
  <2> SUFFICES ASSUME SeedTypeOK, EtlInv, Next PROVE Kept
    BY DEF vars, seedVars, etlVars
  <2>1. CASE SeedStep
    <3>1. UNCHANGED target
      BY <2>1 DEF SeedStep, Seed, etlVars
    <3>2. UNCHANGED rows \/ \E x : rows' = Upsert(x)
      BY <2>1 DEF SeedStep
    <3> QED BY <3>1, <3>2 DEF Upsert, SeedTypeOK, RowState
  <2>2. CASE EditRow
    BY <2>2 DEF EditRow, Seed, etlVars, SeedTypeOK, RowState
  <2>3. CASE Finish
    <3>1. UNCHANGED rows /\ phase' = "done" /\ phase = "finish"
      BY <2>3 DEF Finish, Etl, seedVars
    <3>2. target' # target => ~source.dry /\ target' = loading
      BY <2>3 DEF Finish
    <3>3. ASSUME ~source.dry, ~source.allowTruncate, target' = loading
          PROVE  ~target["others"] /\ target'["assignments"] = target["assignments"]
      BY <3>1, <3>3 DEF EtlInv
    <3> QED BY <3>1, <3>2, <3>3
  <2>4. CASE UNCHANGED <<rows, target>>
    BY <2>4
  <2> QED BY <2>1, <2>2, <2>3, <2>4
          DEF Next, StartSeed, SeedFails, Interrupt, CaptureRun, Seed, etlVars, EnsureClean, Abort,
              LoadReports, LoadChildren, Fail, Etl, seedVars
<1>2. Kept => [Kept]_vars
  OBVIOUS
<1> QED BY <1>1, <1>2, SeedInvInvariant, EtlInvInvariant, PTL DEF Spec, NothingIsOverwritten
=============================================================================
