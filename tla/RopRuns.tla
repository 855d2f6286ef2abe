------------------------------ MODULE RopRuns ------------------------------
(***************************************************************************)
(* From stored bit runs and activities to the figures people see:          *)
(* RopService.getRopOptimization and toPoint, the KPIs of                  *)
(* DashboardService, the activity sheet of ReportsService. A stored number *)
(* is a natural, or None, and a footage may be negative; of the formulas   *)
(* (MSE, HSI, cost) only whether there is a value, and whether it is zero  *)
(* or finite, is kept. The runs of a client are a sequence, oldest first,  *)
(* and a list made from them is a function from their places in it, which  *)
(* stand for bitRunId and for createdAt. Activities are a sequence too, and *)
(* reports a sequence of these, the latest first.                          *)
(***************************************************************************)
EXTENDS DrillOff, Sequences

CONSTANTS
  MaxPoints,   \* MAX_POINTS
  MaxReports,  \* the reports of the activity sheet
  MaxWob,      \* the sanity limits of WOB
  MaxRpm,      \* and RPM
  FtPerM       \* mhrToFthr

ASSUME MaxPointsAssumption == MaxPoints \in Nat \ {0} /\ MaxReports \in Nat
ASSUME LimitsAssumption == MaxWob \in Nat /\ MaxRpm \in Nat /\ FtPerM \in Nat \ {0}
ASSUME FiguresAssumption == None \notin {"finite", "infinite", "zero"}

\* Division as JavaScript does it, also of a numerator that may be zero.
Over(denominator) == IF denominator = 0 THEN "infinite" ELSE "finite"
Positive(v) == v # None /\ v > 0
Figure(n, d) == IF n = 0 /\ d # 0 THEN "zero" ELSE Over(d)

\* ROP: as stored, or footage by hours.
RopMhr(row) ==
  IF row.rop # None THEN row.rop
  ELSE IF row.footage # None /\ Positive(row.hours)
       THEN row.footage \div row.hours ELSE None

\* A run without the three essentials, or with absurd ones, is no point.
Qualifies(row) ==
  /\ row.wob # None /\ row.rpm # None /\ RopMhr(row) # None
  /\ row.wob > 0 /\ row.wob <= MaxWob /\ row.rpm > 0 /\ row.rpm <= MaxRpm
  /\ RopMhr(row) > 0

\* By the area of the bit and the ROP, from the WOB and a torque, which is
\* estimated when there is none.
Mse(row) ==
  IF row.dia = None \/ RopMhr(row) <= 0 THEN None ELSE Figure(row.wob, row.dia * RopMhr(row))

\* Reported, or by the nozzles' area and the diameter, from mud weight and
\* flow.
\* Mutant: an area of zero divides.
Hsi_NoNozzles(row) ==
  IF row.hsi # None THEN Figure(row.hsi, 1)
  ELSE IF row.mw # None /\ Positive(row.flow) /\ row.tfa # None /\ Positive(row.dia)
       THEN Figure(row.mw, row.tfa * row.dia) ELSE None
Hsi(row) ==
  IF row.hsi # None THEN Figure(row.hsi, 1)
  ELSE IF row.mw # None /\ Positive(row.flow) /\ Positive(row.tfa) /\ Positive(row.dia)
       THEN Figure(row.mw, row.tfa * row.dia) ELSE None

CostPerMeter(row) ==
  IF row.cost # None /\ Positive(row.footage) /\ row.hours # None
  THEN Over(row.footage) ELSE None

ToPoint(row) ==
  [well |-> row.well, make |-> row.make, size |-> row.size, class |-> row.class,
   wob |-> row.wob, rpm |-> row.rpm, mhr |-> RopMhr(row), rop |-> FtPerM * RopMhr(row),
   meters |-> row.footage, hours |-> row.hours, depthOut |-> row.depthOut,
   mse |-> Mse(row), mseEstimated |-> row.dia # None /\ row.torque = None,
   hsi |-> Hsi(row), cost |-> CostPerMeter(row)]

\* The where clause. An absent filter asks for nothing; a run without a depth
\* is in no range, one without a section has no size. Mud types are not looked
\* at.
Matches(rows, i, f) ==
  /\ f.wells # {} => rows[i].well \in f.wells
  /\ f.sizes # {} => rows[i].size \in f.sizes
  /\ f.families # {} => rows[i].family \in f.families
  /\ f.depthFrom # None => rows[i].depthIn # None /\ rows[i].depthIn >= f.depthFrom
  /\ f.depthTo # None => rows[i].depthIn # None /\ rows[i].depthIn <= f.depthTo
  /\ f.dateFrom # None => i >= f.dateFrom
  /\ f.dateTo # None => i <= f.dateTo

\* The oldest n of some runs.
Oldest(S, n) == {i \in S : Cardinality({j \in S : j < i}) < n}

\* One more than the limit, to notice that there are more.
\* Mutant: exactly the limit.
Fetch_Limit(rows, f) == Oldest({i \in DOMAIN rows : Matches(rows, i, f)}, MaxPoints)
Fetch(rows, f) == Oldest({i \in DOMAIN rows : Matches(rows, i, f)}, MaxPoints + 1)

GetRopOptimization(rows, f) ==
  LET used == {i \in Oldest(Fetch(rows, f), MaxPoints) : Qualifies(rows[i])}
      points == [i \in used |-> ToPoint(rows[i])]
  IN [points |-> points,
      bitSizes |-> {points[i].size : i \in used} \ {None},
      truncated |-> Cardinality(Fetch(rows, f)) > MaxPoints]
-----------------------------------------------------------------------------
NoFilter ==
  [wells |-> {}, sizes |-> {}, families |-> {}, mudTypes |-> {},
   depthFrom |-> None, depthTo |-> None, dateFrom |-> None, dateTo |-> None]
Or0(v) == IF v = None THEN 0 ELSE v

\* A Map from the values of a field, the unknown one among them, to lists.
Groups(ps, field) ==
  [v \in {ps[i][field] : i \in DOMAIN ps} |-> {i \in DOMAIN ps : ps[i][field] = v}]

\* Runs per make, with an entry for the unknown make; footage and runs per
\* well, and the total footage.
\* Mutant: runs without a make are in no entry.
Leaderboard_Known(ps) ==
  LET byMake == Groups(ps, "make")
  IN [m \in DOMAIN byMake \ {None} |-> Cardinality(byMake[m])]
Leaderboard(ps) ==
  LET byMake == Groups(ps, "make") IN [m \in DOMAIN byMake |-> Cardinality(byMake[m])]
Meters(ps) == [i \in DOMAIN ps |-> Or0(ps[i].meters)]
FootageByWell(ps) ==
  LET byWell == Groups(ps, "well")
  IN [w \in DOMAIN byWell |->
        [runs |-> Cardinality(byWell[w]), footage |-> SumFunctionOnSet(Meters(ps), byWell[w])]]
TotalFootage(ps) ==
  SumFunctionOnSet([w \in DOMAIN FootageByWell(ps) |-> FootageByWell(ps)[w].footage],
                   DOMAIN FootageByWell(ps))

\* The average of a figure, which one infinite value makes infinite.
Average(ps, m) ==
  IF Having(ps, m) = {} THEN None
  ELSE IF \E i \in Having(ps, m) : ps[i][m] = "infinite" THEN "infinite" ELSE "finite"

\* Wells with three points are assessed; those whose curve founders count.
FounderRate(ps) ==
  LET byWell == Groups(ps, "well")
      assessed == {w \in DOMAIN byWell : Cardinality(byWell[w]) >= 3}
  IN [assessed |-> assessed,
      foundered |-> {w \in assessed : FounderCurve(Restrict(ps, byWell[w])).founder # None}]
-----------------------------------------------------------------------------
\* An activity without hours counts as none.
Hours(acts, counted) ==
  SumFunctionOnSet([k \in DOMAIN acts |-> Or0(acts[k].hours)], counted)

\* Non-productive time as the dashboard counts it and as the sheet marks it:
\* each asks for the flag and the classification.
Npt(acts) ==
  {k \in DOMAIN acts : ~acts[k].isProductive /\ acts[k].classification \in {"UNPLANNED", "DOWNTIME"}}
SheetNpt(acts) ==
  {k \in DOMAIN acts : ~acts[k].isProductive /\ acts[k].classification \in {"UNPLANNED", "DOWNTIME"}}

\* Its hours: the dashboard reads all activities, the sheet the latest reports.
NptHours(reports) ==
  SumFunctionOnSet([r \in DOMAIN reports |-> Hours(reports[r], Npt(reports[r]))], DOMAIN reports)
SheetNptHours(reports) ==
  SumFunctionOnSet([r \in DOMAIN reports |-> Hours(reports[r], SheetNpt(reports[r]))],
                   {r \in DOMAIN reports : r <= MaxReports})
=============================================================================
