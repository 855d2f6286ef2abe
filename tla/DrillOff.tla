------------------------------ MODULE DrillOff ------------------------------
(***************************************************************************)
(* The analysis of a drill-off: founderCurve and detectFounderPoint of     *)
(* drilling-formulas.ts, quantile, iqrFence and the ranks of spearman in   *)
(* stats.ts, screenOutliers of screening.ts. A list of points is a         *)
(* function from their places (or ids) to records of metrics, and a filter *)
(* keeps the places; a metric is an integer, or None where the run has no  *)
(* value. A quotient is kept as <<numerator, denominator>> with a          *)
(* denominator above zero, a quantile is multiplied by 4 and a fence by 8, *)
(* so that every result is exact.                                          *)
(***************************************************************************)
EXTENDS Integers, FiniteSets, FiniteSetsExt, Functions

CONSTANTS
  Bins,          \* founderCurve's bins
  Threshold,     \* share of the first slope below which founderCurve has
                 \* foundered
  SlopeFraction, \* detectFounderPoint's default for the same
  Metrics,       \* what screening looks at
  None           \* no value

ASSUME BinsAssumption == Bins \in Nat \ {0}
ASSUME ThresholdAssumption == Threshold \in (Nat \ {0}) \X (Nat \ {0})
ASSUME FractionAssumption ==
  /\ SlopeFraction \in (Nat \ {0}) \X (Nat \ {0})
  /\ Threshold[1] * SlopeFraction[2] <= SlopeFraction[1] * Threshold[2]
ASSUME NoneAssumption == None \notin Int

Column(ps, m) == [i \in DOMAIN ps |-> ps[i][m]]
Having(ps, m) == {i \in DOMAIN ps : ps[i][m] # None}
Less(a, b) == a[1] * b[2] < b[1] * a[2]
Share(t, a) == <<t[1] * a[1], t[2] * a[2]>>
-----------------------------------------------------------------------------
\* The bin of a WOB among n. The highest point divides to n and is clamped.
Bin(w, lo, hi, n) == Min({((w - lo) * n) \div (hi - lo), n - 1})

\* The bins that have points, each with its points and their mean ROP.
Curve(ps) ==
  LET wobs == {ps[i].wob : i \in DOMAIN ps}
      in(b) == {i \in DOMAIN ps : Bin(ps[i].wob, Min(wobs), Max(wobs), Bins) = b}
      flat == Cardinality(DOMAIN ps) < 3 \/ Min(wobs) = Max(wobs)
  IN [b \in {b \in 0..(Bins - 1) : ~flat /\ in(b) # {}} |->
        [points |-> in(b),
         rop |-> <<SumFunctionOnSet(Column(ps, "rop"), in(b)), Cardinality(in(b))>>]]

CurveSlope(a, b, c) ==
  <<c[b].rop[1] * c[a].rop[2] - c[a].rop[1] * c[b].rop[2],
    c[a].rop[2] * c[b].rop[2] * (b - a)>>

\* The first bin after the second whose step falls below Threshold times the
\* first one; the optimum is the bin before it, or the last.
Before(S, b) == Max({a \in S : a < b})
Second(S) == Min(S \ {Min(S)})
Fallen(c) ==
  {b \in DOMAIN c : /\ b > Second(DOMAIN c)
                    /\ Less(CurveSlope(Before(DOMAIN c, b), b, c),
                            Share(Threshold, CurveSlope(Min(DOMAIN c), Second(DOMAIN c), c)))}
Rises(c) ==
  Cardinality(DOMAIN c) >= 2 /\ CurveSlope(Min(DOMAIN c), Second(DOMAIN c), c)[1] > 0
\* Mutant: the founder bin itself is recommended.
FounderOf_AtFounder(c) ==
  IF ~Rises(c) THEN [founder |-> None, optimal |-> None]
  ELSE IF Fallen(c) = {} THEN [founder |-> None, optimal |-> Max(DOMAIN c)]
  ELSE [founder |-> Min(Fallen(c)), optimal |-> Min(Fallen(c))]
FounderOf(c) ==
  IF ~Rises(c) THEN [founder |-> None, optimal |-> None]
  ELSE IF Fallen(c) = {} THEN [founder |-> None, optimal |-> Max(DOMAIN c)]
  ELSE [founder |-> Min(Fallen(c)), optimal |-> Before(DOMAIN c, Min(Fallen(c)))]

\* The curve is of the points that have both values.
CurveOf(ps) == Curve(Restrict(ps, Having(ps, "wob") \intersect Having(ps, "rop")))
FounderCurve(ps) == FounderOf(CurveOf(ps))

\* detectFounderPoint, on a series by ascending WOB: the point before the
\* first step flatter than the share t of the first one, where the MSE, if
\* there is one, does not fall.
DetectFounder(s, mse, t) ==
  LET slope(i) == IF s[i].wob = s[i - 1].wob THEN <<0, 1>>
                  ELSE <<s[i].rop - s[i - 1].rop, s[i].wob - s[i - 1].wob>>
      flat == {i \in DOMAIN s : /\ i >= 3
                                /\ Less(slope(i), Share(t, slope(2)))
                                /\ mse[i] >= mse[i - 1]}
  IN IF Cardinality(DOMAIN s) < 3 \/ slope(2)[1] <= 0 \/ flat = {} THEN None
     ELSE Min(flat) - 1
-----------------------------------------------------------------------------
\* The k-th of the values in ascending order: the least that has k values at
\* or below it.
AtOrBelow(v, x) == {i \in DOMAIN v : v[i] <= x}
Sorted(v, k) == Min({v[i] : i \in {i \in DOMAIN v : Cardinality(AtOrBelow(v, v[i])) >= k}})

\* Four times the quantile k/4, interpolated between neighbours.
Quantile4(v, k) ==
  LET pos == (Cardinality(DOMAIN v) - 1) * k
      lo == pos \div 4 + 1
  IN IF pos % 4 = 0 THEN 4 * Sorted(v, lo)
     ELSE 4 * Sorted(v, lo) + (pos % 4) * (Sorted(v, lo + 1) - Sorted(v, lo))

\* Eight times Tukey's fence: a quartile, and 1.5 quartile distances.
\* Mutant: the distance taken backwards.
IqrFence8_Reversed(v) ==
  LET q1 == Quantile4(v, 1)
      q3 == Quantile4(v, 3)
  IN [lo |-> 2 * q1 + 3 * (q3 - q1), hi |-> 2 * q3 - 3 * (q3 - q1)]
IqrFence8(v) ==
  LET q1 == Quantile4(v, 1)
      q3 == Quantile4(v, 3)
  IN [lo |-> 2 * q1 - 3 * (q3 - q1), hi |-> 2 * q3 + 3 * (q3 - q1)]

\* A metric has a fence when at least four points have it; a point without
\* the metric passes.
Values(ps, m) == Restrict(Column(ps, m), Having(ps, m))
Outside(ps, p, m) ==
  /\ p[m] # None
  /\ Cardinality(Having(ps, m)) >= 4
  /\ \/ 8 * p[m] < IqrFence8(Values(ps, m)).lo
     \/ 8 * p[m] > IqrFence8(Values(ps, m)).hi

ScreenOutliers(ps) ==
  IF Cardinality(DOMAIN ps) < 4 THEN ps
  ELSE Restrict(ps, {i \in DOMAIN ps : \A m \in Metrics : ~Outside(ps, ps[i], m)})

\* Twice the rank of each value: the places of its ties in ascending order
\* are averaged.
Ranks2(v) ==
  LET at(x) == {k \in 1..Cardinality(DOMAIN v) : Sorted(v, k) = x}
  IN [i \in DOMAIN v |-> Min(at(v[i])) + Max(at(v[i]))]
=============================================================================
