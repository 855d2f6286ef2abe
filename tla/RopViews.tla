------------------------------ MODULE RopViews ------------------------------
(***************************************************************************)
(* The ROP optimization tab: from the filters of the form to the request   *)
(* (RopOptimizationTab.tsx), from the points that come back to what each   *)
(* view shows of them (views/*.tsx). A view keeps the points it can use,   *)
(* and shows their groups, sums, and quotients; of a quotient either the   *)
(* exact value is kept, or, as in RopRuns, whether it is finite.           *)
(***************************************************************************)
EXTENDS RopRuns

CONSTANTS
  WobBins,   \* WOB_BINS of the contour
  RpmBins    \* RPM_BINS

ASSUME CellsAssumption == WobBins \in Nat \ {0} /\ RpmBins \in Nat \ {0}

\* A number field of the form holds the digits typed, or nothing, which
\* Number() would read as zero.
FieldText == {"", "0", "1"}
Number(text) == IF text = "1" THEN 1 ELSE 0

\* Only what is filled in is asked for, and dates cannot be.
Bound(text) == IF text = "" THEN None ELSE Number(text)
Request(draft) ==
  [wells |-> draft.wells, sizes |-> draft.sizes, families |-> draft.families,
   mudTypes |-> draft.mudTypes, depthFrom |-> Bound(draft.depthFrom),
   depthTo |-> Bound(draft.depthTo), dateFrom |-> None, dateTo |-> None]

\* JSON has no infinity: it becomes null.
Received(points) ==
  [i \in DOMAIN points |->
     [points[i] EXCEPT !.mse = IF @ = "infinite" THEN None ELSE @]]

\* The points the views are given.
ShownPoints(rows, draft) ==
  LET received == Received(GetRopOptimization(rows, Request(draft)).points)
  IN IF draft.includeOutliers THEN received ELSE ScreenOutliers(received)

BitSizeCount(ps) == Cardinality({ps[i].size : i \in DOMAIN ps} \ {None})
-----------------------------------------------------------------------------
\* Numerator and denominator; a mean of nothing is zero.
Mean(v, S) ==
  IF S = {} THEN <<0, 1>> ELSE <<SumFunctionOnSet(v, S), Cardinality(S)>>
WeightedMean(v, weight, S) ==
  LET den == SumFunctionOnSet(weight, S)
  IN IF den = 0 THEN <<0, 1>>
     ELSE <<SumFunctionOnSet([i \in S |-> v[i] * weight[i]], S), den>>

\* The footage, the ROP weighted with it, the best and the slowest run.
Drilled(ps) == {i \in Having(ps, "meters") : ps[i].meters > 0}
Summary(ps) ==
  LET drilled == Drilled(ps) \intersect Having(ps, "mhr")
      mhr == {ps[i].mhr : i \in Having(ps, "mhr")}
  IN [meters |-> SumFunctionOnSet(Meters(ps), Drilled(ps)),
      overall |-> IF drilled = {} THEN None
                  ELSE WeightedMean(Column(ps, "mhr"), Meters(ps), drilled),
      best |-> IF mhr = {} THEN None ELSE Max(mhr),
      slowest |-> IF mhr = {} THEN None ELSE Min(mhr)]

\* The mean ROP of each hole size, with an entry for the unknown size.
BySize(ps) ==
  LET having == Restrict(ps, Having(ps, "mhr"))
      groups == Groups(having, "size")
  IN [s \in DOMAIN groups |->
        [n |-> Cardinality(groups[s]), rop |-> Mean(Column(ps, "mhr"), groups[s])]]

\* The scatter's series of each size.
Scatter(ps, x) == Groups(Restrict(ps, Having(ps, x) \intersect Having(ps, "rop")), "size")

\* The cells of the heat map that have points. With one WOB, or one RPM,
\* there is one column, or row.
Cell(w, lo, hi, n) == IF hi > lo THEN Bin(w, lo, hi, n) ELSE 0
Contour(ps) ==
  LET valid == Having(ps, "wob") \intersect Having(ps, "rpm") \intersect Having(ps, "rop")
      wobs == {ps[i].wob : i \in valid}
      rpms == {ps[i].rpm : i \in valid}
      in(c) == {i \in valid : /\ Cell(ps[i].wob, Min(wobs), Max(wobs), WobBins) = c[1]
                              /\ Cell(ps[i].rpm, Min(rpms), Max(rpms), RpmBins) = c[2]}
  IN [c \in {c \in (0..(WobBins - 1)) \X (0..(RpmBins - 1)) :
               Cardinality(valid) >= 2 /\ in(c) # {}} |-> in(c)]

\* The points of the two fitted charts, none when there are fewer than two,
\* and of the MSE's, which takes logarithms, those above zero; the founder
\* that the MSE view marks.
FitOf(ps, y) ==
  LET valid == {i \in Having(ps, y) \intersect Having(ps, "rop") :
                  /\ ps[i][y] # "infinite"
                  /\ y = "mse" => ps[i].mse # "zero" /\ ps[i].rop > 0}
  IN IF Cardinality(valid) < 2 THEN {} ELSE valid
MarkedFounder(ps) ==
  IF Cardinality(Having(ps, "wob") \intersect Having(ps, "rop")) < 3 THEN None
  ELSE FounderCurve(ps).founder

\* What the economics view lets one set, and the round trip of a bit.
Settings == [speed : {0, 1}, handling : {-2, 2}, includeTrip : BOOLEAN]
TripHours(depth, e) ==
  IF e.speed <= 0 THEN e.handling ELSE (2 * depth) \div e.speed + e.handling

\* Of each run with footage, hours and a class, the cost per meter and the
\* ROP with its trip; the means of each class.
TripAdjustedRop(total) == IF total <= 0 THEN "finite" ELSE Over(total)
Economics(ps, e) ==
  LET used == {i \in Drilled(ps) \intersect Having(ps, "hours") :
                 ps[i].hours > 0 /\ ps[i].class \in {"PDC", "roller"}}
      depth(i) == IF ps[i].depthOut # None THEN ps[i].depthOut ELSE ps[i].meters
      trip(i) == IF e.includeTrip THEN TripHours(depth(i), e) ELSE 0
  IN [rows |-> [i \in used |-> [cost |-> Over(ps[i].meters),
                                rop |-> TripAdjustedRop(ps[i].hours + trip(i))]],
      means |-> [c \in {c \in {"PDC", "roller"} : \E i \in used : ps[i].class = c} |->
                   Over(Cardinality({i \in used : ps[i].class = c}))]]
=============================================================================
