-------------------------- MODULE Analysis_proofs ---------------------------
(***************************************************************************)
(* Theorems about what is computed of recorded inputs, for any length of   *)
(* them and any value of the constants: the figures and rollups of bit     *)
(* runs, the text that is read of a report and of a page of it, founder    *)
(* detection and statistics of a sweep, and the exchange of WITSML         *)
(* documents.                                                              *)
(***************************************************************************)
EXTENDS Analysis, DrillOff_proofs

-----------------------------------------------------------------------------
(***************************************************************************)
(* The figures of bit runs.                                                *)
(***************************************************************************)
Run == AnyRun \union OrdinaryRun
RunsInv == subject = "runs" => input \in Seq(Run)

\* What the figures need of a stored run, and of a point.
IsRun(r) ==
  /\ \A f \in {"wob", "rpm", "rop", "hours", "tfa"} : r[f] \in Nat \union {None}
  /\ r.footage \in Int \union {None} /\ r.dia \in Nat
  /\ r.class \in {"PDC", "roller"}
IsPoint(p) ==
  /\ \A f \in {"wob", "rpm", "mhr", "rop"} : p[f] \in Nat
  /\ p.meters \in Int \union {None}
ArePoints(ps) ==
  /\ ps = [i \in DOMAIN ps |-> ps[i]] /\ IsFiniteSet(DOMAIN ps)
  /\ \A i \in DOMAIN ps : IsPoint(ps[i])

\* What is recorded is a run.
LEMMA RunsAreRuns == \A r \in Run : IsRun(r)
<1>1. ASSUME NEW well, NEW wob \in 1..3, NEW rop \in {None, 3}
      PROVE  IsRun(Recorded(well, wob, rop))
  BY DEF Recorded, IsRun
<1>2. ASSUME NEW r \in AnyRun PROVE IsRun(r)
  <2> DEFINE old == Recorded("w1", 2, None)
             first(wob, rpm, rop, footage, hours, cost) ==
               [old EXCEPT !.wob = wob, !.rpm = rpm, !.rop = rop, !.footage = footage,
                           !.hours = hours, !.cost = cost]
             second(torque, dia, tfa, mw, hsi, flow) ==
               [old EXCEPT !.torque = torque, !.dia = dia, !.tfa = tfa, !.mw = mw,
                           !.hsi = hsi, !.flow = flow]
  <2>1. IsRun(old)
    BY <1>1
  <2>2. ASSUME NEW wob \in Nat \union {None}, NEW rpm \in Nat \union {None},
               NEW rop \in Nat \union {None}, NEW footage \in Int \union {None},
               NEW hours \in Nat \union {None}, NEW cost
        PROVE  IsRun(first(wob, rpm, rop, footage, hours, cost))
    BY <2>1 DEF Recorded, IsRun
  <2>3. ASSUME NEW torque, NEW dia \in Nat, NEW tfa \in Nat \union {None}, NEW mw, NEW hsi, NEW flow
        PROVE  IsRun(second(torque, dia, tfa, mw, hsi, flow))
    BY <2>1 DEF Recorded, IsRun
  <2>4. \/ \E wob \in {None, 0, 1, MaxWob + 1}, rpm \in {None, 0, 1, MaxRpm + 1},
              rop \in {None, 0, 2}, footage \in {None, -2, 0, 2}, hours \in {None, 0, 1},
              cost \in {None, 1} : r = first(wob, rpm, rop, footage, hours, cost)
        \/ \E torque \in {None, 1}, dia \in {0, 1}, tfa \in {None, 0, 1}, mw \in {None, 0, 1},
              hsi \in {None, 0}, flow \in {None, 0, 1} : r = second(torque, dia, tfa, mw, hsi, flow)
    BY <1>2 DEF AnyRun
  <2> HIDE DEF old, first, second
  <2>5. CASE \E wob \in {None, 0, 1, MaxWob + 1}, rpm \in {None, 0, 1, MaxRpm + 1},
                rop \in {None, 0, 2}, footage \in {None, -2, 0, 2}, hours \in {None, 0, 1},
                cost \in {None, 1} : r = first(wob, rpm, rop, footage, hours, cost)
    <3>1. PICK wob \in {None, 0, 1, MaxWob + 1}, rpm \in {None, 0, 1, MaxRpm + 1},
               rop \in {None, 0, 2}, footage \in {None, -2, 0, 2}, hours \in {None, 0, 1},
               cost \in {None, 1} : r = first(wob, rpm, rop, footage, hours, cost)
      BY <2>5
    <3>2. /\ wob \in Nat \union {None} /\ rpm \in Nat \union {None} /\ rop \in Nat \union {None}
          /\ footage \in Int \union {None} /\ hours \in Nat \union {None}
      BY LimitsAssumption
    <3>3. IsRun(first(wob, rpm, rop, footage, hours, cost))
      BY <2>2, <3>2
    <3> QED BY <3>1, <3>3
  <2>6. CASE \E torque \in {None, 1}, dia \in {0, 1}, tfa \in {None, 0, 1}, mw \in {None, 0, 1},
                hsi \in {None, 0}, flow \in {None, 0, 1} : r = second(torque, dia, tfa, mw, hsi, flow)
    <3>1. PICK torque \in {None, 1}, dia \in {0, 1}, tfa \in {None, 0, 1}, mw \in {None, 0, 1},
               hsi \in {None, 0}, flow \in {None, 0, 1} : r = second(torque, dia, tfa, mw, hsi, flow)
      BY <2>6
    <3>2. IsRun(second(torque, dia, tfa, mw, hsi, flow))
      <4>1. dia \in Nat /\ tfa \in Nat \union {None}
        OBVIOUS
      <4> QED BY <2>3, <4>1
    <3> QED BY <3>1, <3>2
  <2> QED BY <2>4, <2>5, <2>6
<1>3. ASSUME NEW r \in OrdinaryRun PROVE IsRun(r)
  BY <1>1 DEF OrdinaryRun
<1> QED BY <1>2, <1>3 DEF Run

\* The runs of a client are recorded ones.
LEMMA RunsInvInvariant == Spec => []RunsInv
<1>1. Init => RunsInv
  BY DEF Init, RunsInv
<1>2. RunsInv /\ [Next]_vars => RunsInv'
  <2> SUFFICES ASSUME RunsInv, [Next]_vars, subject' = "runs" PROVE input' \in Seq(Run)
    BY DEF RunsInv
  <2>1. CASE RecordRun
    <3>1. PICK row \in Run : input' = Append(input, row)
      BY <2>1 DEF RecordRun, Run
    <3>2. input \in Seq(Run)
      BY <2>1 DEF RecordRun, RunsInv
    <3> QED BY <3>1, <3>2
  <2>2. CASE UNCHANGED vars
    BY <2>2 DEF vars, RunsInv
  <2> QED BY <2>1, <2>2
          DEF Next, RecordPoint, WriteLine, PlaceText, Edit, Export, Import, Exchange
<1> QED BY <1>1, <1>2, PTL DEF Spec

\* A run that qualifies makes a point.
LEMMA PointOfRun ==
  ASSUME NEW r, IsRun(r), Qualifies(r)
  PROVE  IsPoint(ToPoint(r)) /\ RopMhr(r) \in Nat \ {0}
<1>1. r.wob \in Nat /\ r.rpm \in Nat /\ r.footage \in Int \union {None}
  BY DEF IsRun, Qualifies
<1>2. RopMhr(r) \in Nat
  <2>1. CASE r.rop # None
    BY <2>1 DEF RopMhr, IsRun
  <2>2. CASE r.rop = None
    <3>1. RopMhr(r) # None /\ RopMhr(r) > 0
      BY DEF Qualifies
    <3>2. r.footage \in Int /\ r.hours \in Nat \ {0} /\ RopMhr(r) = r.footage \div r.hours
      BY <2>2, <3>1 DEF RopMhr, IsRun, Positive
    <3> QED BY <3>1, <3>2
  <2> QED BY <2>1, <2>2
<1>3. FtPerM * RopMhr(r) \in Nat
  BY <1>2, LimitsAssumption
<1>4. RopMhr(r) > 0
  BY DEF Qualifies
<1> QED BY <1>1, <1>2, <1>3, <1>4 DEF IsPoint, ToPoint

\* The answer holds a point of each run it uses, and the tab receives them
\* with another MSE at most.
LEMMA AnswerPoints ==
  ASSUME NEW rows \in Seq(Run), NEW f, NEW ps, ps = GetRopOptimization(rows, f).points
  PROVE     /\ DOMAIN ps \subseteq DOMAIN rows
            /\ ps = [i \in DOMAIN ps |-> ToPoint(rows[i])]
            /\ \A i \in DOMAIN ps : rows[i] \in Run /\ Qualifies(rows[i])
            /\ ArePoints(ps)
            /\ ArePoints(Received(ps)) /\ DOMAIN Received(ps) = DOMAIN ps
            /\ \A i \in DOMAIN ps :
                 Received(ps)[i] = [ToPoint(rows[i]) EXCEPT
                   !.mse = IF ToPoint(rows[i]).mse = "infinite" THEN None ELSE ToPoint(rows[i]).mse]
<1> DEFINE used == {i \in Oldest(Fetch(rows, f), MaxPoints) : Qualifies(rows[i])}
<1>1. ps = [i \in used |-> ToPoint(rows[i])]
  BY DEF GetRopOptimization
<1>2. used \subseteq DOMAIN rows /\ \A i \in used : Qualifies(rows[i])
  BY DEF Oldest, Fetch
<1>3. IsFiniteSet(used) /\ \A i \in used : rows[i] \in Run
  <2>1. DOMAIN rows = 1..Len(rows) /\ Len(rows) \in Nat /\ \A i \in 1..Len(rows) : rows[i] \in Run
    OBVIOUS
  <2>2. IsFiniteSet(1..Len(rows))
    BY <2>1, FS_Interval
  <2> HIDE DEF used
  <2> QED BY <1>2, <2>1, <2>2, FS_Subset
<1> HIDE DEF used
<1>4. \A i \in used : IsPoint(ToPoint(rows[i]))
  BY <1>2, <1>3, RunsAreRuns, PointOfRun
<1>5. ArePoints(ps)
  BY <1>1, <1>3, <1>4 DEF ArePoints
<1>6. /\ Received(ps) = [i \in used |-> [ToPoint(rows[i]) EXCEPT
              !.mse = IF ToPoint(rows[i]).mse = "infinite" THEN None ELSE ToPoint(rows[i]).mse]]
  BY <1>1 DEF Received
<1>7. \A i \in used : IsPoint(Received(ps)[i])
  BY <1>4, <1>6 DEF IsPoint, ToPoint
<1>8. ArePoints(Received(ps))
  BY <1>3, <1>6, <1>7 DEF ArePoints
<1> QED BY <1>1, <1>2, <1>3, <1>5, <1>6, <1>8

\* What the tab shows of the runs of a client.
LEMMA ShownAre ==
  ASSUME NEW rows \in Seq(Run), NEW ps, ps = Received(Shown(rows))
  PROVE  /\ ArePoints(ps) /\ DOMAIN ps \subseteq DOMAIN rows
         /\ \A i \in DOMAIN ps :
              /\ rows[i] \in Run
              /\ ps[i].hours = rows[i].hours /\ ps[i].meters = rows[i].footage
              /\ ps[i].mse = IF Mse(rows[i]) = "infinite" THEN None ELSE Mse(rows[i])
<1> DEFINE q == Shown(rows)
<1>1. q = GetRopOptimization(rows, NoFilter).points
  BY DEF Shown
<1> HIDE DEF q
<1>2. /\ DOMAIN ps = DOMAIN q /\ DOMAIN ps \subseteq DOMAIN rows
      /\ \A i \in DOMAIN ps : rows[i] \in Run
      /\ ArePoints(ps)
      /\ \A i \in DOMAIN ps :
            ps[i] = [ToPoint(rows[i]) EXCEPT
                   !.mse = IF ToPoint(rows[i]).mse = "infinite" THEN None ELSE ToPoint(rows[i]).mse]
  BY <1>1, AnswerPoints DEF q
<1>3. ASSUME NEW r, NEW m
      PROVE  /\ ToPoint(r).mse = Mse(r)
             /\ [ToPoint(r) EXCEPT !.mse = m].mse = m
             /\ [ToPoint(r) EXCEPT !.mse = m].hours = r.hours
             /\ [ToPoint(r) EXCEPT !.mse = m].meters = r.footage
  BY DEF ToPoint
<1>4. ASSUME NEW i \in DOMAIN ps
      PROVE  /\ ps[i].hours = rows[i].hours /\ ps[i].meters = rows[i].footage
             /\ ps[i].mse = IF Mse(rows[i]) = "infinite" THEN None ELSE Mse(rows[i])
  <2> DEFINE m == IF ToPoint(rows[i]).mse = "infinite" THEN None ELSE ToPoint(rows[i]).mse
  <2>1. ps[i] = [ToPoint(rows[i]) EXCEPT !.mse = m]
    BY <1>2
  <2>2. m = IF Mse(rows[i]) = "infinite" THEN None ELSE Mse(rows[i])
    BY <1>3
  <2> HIDE DEF m
  <2> QED BY <1>3, <2>1, <2>2
<1> QED BY <1>2, <1>4

\* The weights of runs with footage have a sum above zero.
LEMMA DrilledWeighs ==
  ASSUME NEW ps, ArePoints(ps), NEW S \in SUBSET Drilled(ps)
  PROVE  /\ IsFiniteSet(S) /\ S \subseteq DOMAIN ps
         /\ \A i \in S : Meters(ps)[i] \in Nat \ {0} /\ Meters(ps)[i] = ps[i].meters
         /\ SumFunctionOnSet(Meters(ps), S) \in Nat
<1>1. IsFiniteSet(S) /\ S \subseteq DOMAIN ps
  BY FS_Subset DEF ArePoints, Drilled, Having
<1>2. \A i \in S : Meters(ps)[i] \in Nat \ {0} /\ Meters(ps)[i] = ps[i].meters
  BY NoneAssumption DEF Drilled, Having, Meters, Or0, ArePoints, IsPoint
<1>3. SumFunctionOnSet(Meters(ps), S) \in Nat
  BY <1>1, <1>2, SumNat
<1> QED BY <1>1, <1>2, <1>3

\* No view of points divides by zero.
LEMMA ViewsFinite ==
  ASSUME NEW ps, ArePoints(ps)
  PROVE  ViewsAreFinite(ps)
<1>1. ASSUME NEW e \in Settings
      PROVE  LET view == Economics(ps, e)
             IN /\ \A i \in DOMAIN view.rows : "infinite" \notin {view.rows[i].cost, view.rows[i].rop}
                /\ \A c \in DOMAIN view.means : view.means[c] # "infinite"
  <2> DEFINE view == Economics(ps, e)
             used == {i \in Drilled(ps) \intersect Having(ps, "hours") :
                        ps[i].hours > 0 /\ ps[i].class \in {"PDC", "roller"}}
             depth(i) == IF ps[i].depthOut # None THEN ps[i].depthOut ELSE ps[i].meters
             trip(i) == IF e.includeTrip THEN TripHours(depth(i), e) ELSE 0
  <2>1. /\ view.rows = [i \in used |-> [cost |-> Over(ps[i].meters),
                                        rop |-> TripAdjustedRop(ps[i].hours + trip(i))]]
        /\ view.means = [c \in {c \in {"PDC", "roller"} : \E i \in used : ps[i].class = c} |->
                           Over(Cardinality({i \in used : ps[i].class = c}))]
    BY DEF Economics
  <2>2. \A i \in used : Over(ps[i].meters) # "infinite"
    BY DEF Drilled, Over
  <2>3. ASSUME NEW total PROVE TripAdjustedRop(total) # "infinite"
    BY DEF TripAdjustedRop, Over
  <2>4. ASSUME NEW c, \E i \in used : ps[i].class = c
        PROVE  Over(Cardinality({i \in used : ps[i].class = c})) # "infinite"
    <3> DEFINE S == {i \in used : ps[i].class = c}
    <3>1. IsFiniteSet(S)
      BY FS_Subset DEF ArePoints, Drilled, Having
    <3>2. S # {}
      BY <2>4
    <3> HIDE DEF S
    <3>3. Cardinality(S) # 0
      BY <3>1, <3>2, FS_EmptySet
    <3> QED BY <3>3 DEF Over, S
  <2> HIDE DEF used, trip, view
  <2>5. \A i \in DOMAIN view.rows : /\ view.rows[i].cost = Over(ps[i].meters) /\ i \in used
                                    /\ view.rows[i].rop = TripAdjustedRop(ps[i].hours + trip(i))
    BY <2>1
  <2>6. \A i \in DOMAIN view.rows : "infinite" \notin {view.rows[i].cost, view.rows[i].rop}
    BY <2>2, <2>3, <2>5
  <2>7. ASSUME NEW c \in DOMAIN view.means PROVE view.means[c] # "infinite"
    <3>1. \E i \in used : ps[i].class = c
      BY <2>1
    <3>2. view.means[c] = Over(Cardinality({i \in used : ps[i].class = c}))
      BY <2>1
    <3> QED BY <2>4, <3>1, <3>2
  <2> QED BY <2>6, <2>7 DEF view
<1>2. ASSUME NEW s \in DOMAIN BySize(ps) PROVE BySize(ps)[s].rop[2] > 0
  <2> DEFINE having == Restrict(ps, Having(ps, "mhr"))
             groups == Groups(having, "size")
  <2>1. s \in DOMAIN groups /\ BySize(ps)[s].rop = Mean(Column(ps, "mhr"), groups[s])
    BY DEF BySize
  <2>2. groups[s] \subseteq DOMAIN ps
    <3>1. DOMAIN having \subseteq DOMAIN ps
      BY DEF Restrict, Having
    <3> HIDE DEF having
    <3>2. groups[s] \subseteq DOMAIN having
      BY <2>1 DEF Groups
    <3> QED BY <3>1, <3>2
  <2>3. IsFiniteSet(groups[s])
    BY <2>2, FS_Subset DEF ArePoints
  <2> HIDE DEF groups, having
  <2>4. groups[s] # {} => Cardinality(groups[s]) > 0
    BY <2>3, FS_EmptySet, FS_CardinalityType
  <2> QED BY <2>1, <2>4 DEF Mean
<1>3. Summary(ps).overall # None => Summary(ps).overall[2] > 0
  <2> DEFINE drilled == Drilled(ps) \intersect Having(ps, "mhr")
             den == SumFunctionOnSet(Meters(ps), drilled)
  <2>1. Summary(ps).overall = IF drilled = {} THEN None
                              ELSE WeightedMean(Column(ps, "mhr"), Meters(ps), drilled)
    BY DEF Summary
  <2>2. den \in Nat
    BY DrilledWeighs
  <2> QED BY <2>1, <2>2 DEF WeightedMean
<1> QED BY <1>1, <1>2, <1>3 DEF ViewsAreFinite

\* No figure of a stored run divides by zero but the MSE of a bit without its
\* size, which takes the average MSE with it and reaches no chart, and no view
\* divides by zero.
THEOREM FiguresFinite == Spec => []FiguresAreFinite
<1>1. RunsInv => FiguresAreFinite
  <2> SUFFICES ASSUME RunsInv, subject = "runs", NEW shown, shown = Shown(input),
                      NEW ps, ps = Received(shown)
               PROVE  /\ \A i \in DOMAIN input : Qualifies(input[i]) =>
                          /\ "infinite" \notin {ToPoint(input[i]).hsi, ToPoint(input[i]).cost}
                          /\ ToPoint(input[i]).mse = "infinite" <=> input[i].dia = 0
                      /\ Average(shown, "cost") # "infinite"
                      /\ Average(shown, "mse") = "infinite" <=> \E i \in DOMAIN shown : input[i].dia = 0
                      /\ \A i \in FitOf(ps, "mse") : input[i].dia \notin {None, 0}
                      /\ ViewsAreFinite(ps)
    BY DEF FiguresAreFinite
  <2>1. input \in Seq(Run)
    BY DEF RunsInv
  <2>2. ASSUME NEW r \in Run, Qualifies(r)
        PROVE  /\ "infinite" \notin {ToPoint(r).hsi, ToPoint(r).cost}
               /\ ToPoint(r).mse = "infinite" <=> r.dia = 0
    <3>1. IsRun(r) /\ RopMhr(r) \in Nat \ {0}
      BY <2>2, RunsAreRuns, PointOfRun
    <3>2. ToPoint(r).hsi = Hsi(r) /\ ToPoint(r).cost = CostPerMeter(r) /\ ToPoint(r).mse = Mse(r)
      BY DEF ToPoint
    <3>3. Hsi(r) # "infinite"
      <4>1. ASSUME NEW n, NEW d \in Nat \ {0} PROVE Figure(n, d) # "infinite"
        BY DEF Figure, Over
      <4>2. CASE r.hsi # None
        BY <4>1, <4>2 DEF Hsi
      <4>3. CASE r.hsi = None /\ Positive(r.tfa) /\ Positive(r.dia)
        <5>1. r.tfa \in Nat \ {0} /\ r.dia \in Nat \ {0}
          BY <3>1, <4>3 DEF Positive, IsRun
        <5>2. r.tfa * r.dia \in Nat \ {0}
          BY <5>1
        <5> QED BY <4>1, <4>3, <5>2, FiguresAssumption DEF Hsi
      <4>4. CASE r.hsi = None /\ ~(Positive(r.tfa) /\ Positive(r.dia))
        BY <4>4, FiguresAssumption DEF Hsi
      <4> QED BY <4>2, <4>3, <4>4
    <3>4. CostPerMeter(r) # "infinite"
      BY FiguresAssumption DEF CostPerMeter, Over, Positive
    <3>5. Mse(r) = "infinite" <=> r.dia = 0
      <4>1. r.dia \in Nat /\ r.dia # None /\ ~(RopMhr(r) <= 0)
        BY <3>1, NoneAssumption DEF IsRun
      <4>2. Mse(r) = Figure(r.wob, r.dia * RopMhr(r))
        BY <4>1 DEF Mse
      <4>3. r.dia * RopMhr(r) = 0 <=> r.dia = 0
        BY <3>1, <4>1
      <4> QED BY <4>2, <4>3 DEF Figure, Over
    <3> QED BY <3>2, <3>3, <3>4, <3>5
  <2>3. ASSUME NEW i \in FitOf(ps, "mse") PROVE input[i].dia \notin {None, 0}
    <3>1. i \in DOMAIN ps /\ ps[i].mse # None
      BY <2>3 DEF FitOf, Having
    <3>2. ps[i].mse = IF Mse(input[i]) = "infinite" THEN None ELSE Mse(input[i])
      BY <2>1, <3>1, ShownAre
    <3>3. Mse(input[i]) # None /\ Mse(input[i]) # "infinite"
      BY <3>1, <3>2
    <3>4. DOMAIN ps = DOMAIN shown /\ input[i] \in Run /\ Qualifies(input[i])
      BY <2>1, <3>1, AnswerPoints DEF Shown
    <3>5. ToPoint(input[i]).mse = Mse(input[i])
      BY DEF ToPoint
    <3>6. input[i].dia # 0
      BY <2>2, <3>3, <3>4, <3>5
    <3>7. input[i].dia # None
      BY <3>3 DEF Mse
    <3> QED BY <3>6, <3>7
  <2>4. ViewsAreFinite(ps)
    BY <2>1, ShownAre, ViewsFinite
  <2>5. \A i \in DOMAIN input : input[i] \in Run
    BY <2>1
  <2>6. /\ DOMAIN shown \subseteq DOMAIN input
        /\ \A i \in DOMAIN shown : shown[i] = ToPoint(input[i]) /\ Qualifies(input[i])
    BY <2>1, AnswerPoints DEF Shown
  <2>7. \A i \in DOMAIN shown :
          shown[i].cost # "infinite" /\ (shown[i].mse = "infinite" <=> input[i].dia = 0)
    BY <2>2, <2>5, <2>6
  <2>8. Average(shown, "cost") # "infinite"
    BY <2>7, FiguresAssumption DEF Average, Having
  <2>9. Average(shown, "mse") = "infinite" <=> \E i \in DOMAIN shown : input[i].dia = 0
    <3>1. Average(shown, "mse") = "infinite" <=> \E i \in Having(shown, "mse") : shown[i].mse = "infinite"
      BY FiguresAssumption DEF Average
    <3>2. \A i : i \in Having(shown, "mse") <=> i \in DOMAIN shown /\ shown[i].mse # None
      BY DEF Having
    <3> QED BY <2>7, <3>1, <3>2, FiguresAssumption
  <2> QED BY <2>2, <2>3, <2>4, <2>5, <2>8, <2>9
<1> QED BY <1>1, RunsInvInvariant, PTL

-----------------------------------------------------------------------------
(***************************************************************************)
(* What a limit leaves out.                                                *)
(***************************************************************************)
Earlier(S, i) == {j \in S : j < i}

\* The later a place, the more are earlier.
LEMMA EarlierSizes ==
  ASSUME NEW S, \A i \in S : i \in Nat, IsFiniteSet(S)
  PROVE  /\ \A i : IsFiniteSet(Earlier(S, i)) /\ Cardinality(Earlier(S, i)) \in Nat
         /\ \A i, j \in S : j < i => Cardinality(Earlier(S, j)) < Cardinality(Earlier(S, i))
<1>1. ASSUME NEW i PROVE IsFiniteSet(Earlier(S, i)) /\ Cardinality(Earlier(S, i)) \in Nat
  BY FS_Subset, FS_CardinalityType DEF Earlier
<1>2. ASSUME NEW i \in S, NEW j \in S, j < i
      PROVE  Cardinality(Earlier(S, j)) < Cardinality(Earlier(S, i))
  <2>1. Earlier(S, j) \union {j} \subseteq Earlier(S, i) /\ j \notin Earlier(S, j)
    <3>1. \A x \in S : x < j => x < i
      BY <1>2
    <3>2. ~(j < j)
      OBVIOUS
    <3> QED BY <1>2, <3>1, <3>2, Zenon DEF Earlier
  <2>2. Cardinality(Earlier(S, j) \union {j}) = Cardinality(Earlier(S, j)) + 1
    BY <1>1, <2>1, FS_AddElement
  <2>3. Cardinality(Earlier(S, j) \union {j}) <= Cardinality(Earlier(S, i))
    BY <1>1, <2>1, FS_Subset
  <2> QED BY <1>1, <2>2, <2>3
<1> QED BY <1>1, <1>2

\* The oldest of the oldest are the oldest.
LEMMA OldestOfOldest ==
  ASSUME NEW S, \A i \in S : i \in Nat, IsFiniteSet(S), NEW n \in Nat
  PROVE  Oldest(Oldest(S, n + 1), n) = Oldest(S, n)
<1> DEFINE T == Oldest(S, n + 1)
<1>1. /\ T = {i \in S : Cardinality(Earlier(S, i)) < n + 1}
      /\ Oldest(S, n) = {i \in S : Cardinality(Earlier(S, i)) < n}
      /\ Oldest(T, n) = {i \in T : Cardinality(Earlier(T, i)) < n}
  BY DEF Oldest, Earlier
<1> HIDE DEF T
<1>2. ASSUME NEW i \in T PROVE Earlier(T, i) = Earlier(S, i)
  <2>1. ASSUME NEW j \in Earlier(S, i) PROVE j \in T
    <3>1. i \in S /\ j \in S /\ j < i
      BY <1>1 DEF Earlier
    <3>2. /\ Cardinality(Earlier(S, j)) < Cardinality(Earlier(S, i))
          /\ Cardinality(Earlier(S, j)) \in Nat /\ Cardinality(Earlier(S, i)) \in Nat
      BY <3>1, EarlierSizes
    <3> QED BY <1>1, <3>1, <3>2
  <2> QED BY <1>1, <2>1 DEF Earlier
<1>3. \A i \in S : Cardinality(Earlier(S, i)) \in Nat
  BY EarlierSizes
<1>4. Oldest(S, n) \subseteq T
  <2>1. \A i \in S : Cardinality(Earlier(S, i)) < n => Cardinality(Earlier(S, i)) < n + 1
    BY <1>3
  <2> QED BY <1>1, <2>1, Zenon
<1>5. Oldest(T, n) = {i \in T : Cardinality(Earlier(S, i)) < n}
  BY <1>1, <1>2
<1>6. Oldest(T, n) = Oldest(S, n)
  BY <1>1, <1>4, <1>5
<1> QED BY <1>6 DEF T

\* When no more than n are among the oldest n + 1, these are all.
LEMMA OldestAreAll ==
  ASSUME NEW S, \A i \in S : i \in Nat, IsFiniteSet(S), NEW n \in Nat,
         Cardinality(Oldest(S, n + 1)) <= n
  PROVE  Oldest(S, n) = S
<1> SUFFICES ASSUME S \ Oldest(S, n) # {} PROVE FALSE
  BY DEF Oldest
<1> DEFINE Late == S \ Oldest(S, n)
           m == Min(Late)
           B == Earlier(S, m)
           c(i) == Cardinality(Earlier(S, i))
<1>1. /\ Late = {i \in S : ~(c(i) < n)}
      /\ Oldest(S, n + 1) = {i \in S : c(i) < n + 1}
      /\ \A i \in S : c(i) \in Nat
  BY EarlierSizes DEF Oldest, Earlier
<1>2. m \in Late /\ \A y \in Late : m <= y
  <2>1. \A i \in S : i \in Int
    OBVIOUS
  <2>2. Late \subseteq S
    OBVIOUS
  <2>3. Late \in SUBSET Int
    BY <2>1, <2>2, Zenon
  <2>4. IsFiniteSet(Late) /\ Late # {}
    BY FS_Subset
  <2> HIDE DEF Late
  <2> QED BY <2>3, <2>4, MinMax
<1>h. m \in S /\ ~(c(m) < n)
  BY <1>1, <1>2
<1> HIDE DEF m, Late
<1>3. m \in S /\ c(m) \in Nat /\ c(m) >= n
  <2>1. c(m) \in Nat
    BY <1>1, <1>h
  <2> HIDE DEF c
  <2> QED BY <1>h, <2>1
<1>4. c(m) <= n
  <2>1. CASE B = {}
    BY <2>1, FS_EmptySet
  <2>2. CASE B # {}
    <3> DEFINE p == Max(B)
    <3>0. \A i \in S : i \in Int
      OBVIOUS
    <3>1. B \in SUBSET Int /\ IsFiniteSet(B)
      BY <3>0, EarlierSizes, Zenon DEF Earlier
    <3>2. p \in B /\ \A y \in B : p >= y
      <4> HIDE DEF B
      <4> QED BY <2>2, <3>1, MinMax
    <3> HIDE DEF p
    <3>3. p \in S /\ p < m /\ B = Earlier(S, p) \union {p} /\ p \notin Earlier(S, p)
      <4>1. p \in S /\ p < m /\ \A y \in S : y < m => p >= y
        BY <3>2 DEF Earlier
      <4>2. \A y \in S : y < m <=> y < p \/ y = p
        BY <1>3, <4>1
      <4>3. ~(p < p)
        BY <4>1
      <4> QED BY <4>1, <4>2, <4>3, Zenon DEF Earlier
    <3>4. p \notin Late
      BY <1>2, <1>3, <3>3
    <3>5. c(p) < n
      BY <1>1, <3>3, <3>4
    <3>6. c(m) = c(p) + 1
      <4>1. IsFiniteSet(Earlier(S, p))
        BY EarlierSizes
      <4>2. Cardinality(Earlier(S, p) \union {p}) = Cardinality(Earlier(S, p)) + 1
        BY <3>3, <4>1, FS_AddElement
      <4> QED BY <3>3, <4>2
    <3> QED BY <1>1, <3>3, <3>5, <3>6
  <2> QED BY <2>1, <2>2
<1>5. B \union {m} \subseteq Oldest(S, n + 1)
  <2>1. ASSUME NEW j \in B PROVE c(j) < n + 1 /\ j \in S
    <3>1. j \in S /\ j < m
      BY DEF Earlier
    <3>2. c(j) < c(m)
      BY <1>3, <3>1, EarlierSizes
    <3> QED BY <1>1, <1>3, <1>4, <3>1, <3>2
  <2> HIDE DEF B
  <2> QED BY <1>1, <1>3, <1>4, <2>1
<1>6. Cardinality(B \union {m}) = c(m) + 1
  <2>1. IsFiniteSet(B) /\ m \notin B
    <3>1. ~(m < m)
      BY <1>3
    <3> QED BY <3>1, EarlierSizes, Zenon DEF Earlier
  <2> HIDE DEF B
  <2>2. Cardinality(B \union {m}) = Cardinality(B) + 1
    BY <2>1, FS_AddElement
  <2> QED BY <2>2 DEF B
<1>7. Cardinality(B \union {m}) <= Cardinality(Oldest(S, n + 1)) /\ Cardinality(Oldest(S, n + 1)) \in Nat
  <2>1. IsFiniteSet(Oldest(S, n + 1))
    BY FS_Subset DEF Oldest
  <2> HIDE DEF B
  <2> QED BY <1>5, <2>1, FS_Subset, FS_CardinalityType
<1> QED BY <1>3, <1>6, <1>7

\* Of those up to k, the oldest are the oldest up to k.
LEMMA OldestUpTo ==
  ASSUME NEW S, \A i \in S : i \in Nat \ {0}, NEW k \in Nat, NEW n \in Nat
  PROVE  Oldest(S \intersect 1..k, n) = Oldest(S, n) \intersect 1..k
<1> DEFINE T == S \intersect 1..k
<1>1. ASSUME NEW i \in T PROVE {j \in T : j < i} = {j \in S : j < i}
  <2>1. i \in 1..k /\ \A j \in S : j < i => j \in 1..k
    OBVIOUS
  <2> QED BY <2>1, Zenon
<1>2. Oldest(T, n) = {i \in T : Cardinality({j \in S : j < i}) < n}
  BY <1>1 DEF Oldest
<1> QED BY <1>2 DEF Oldest

\* The runs that an answer shows: of those asked for, the oldest that the
\* limit allows, if they qualify.
Asked(rows, f) == {i \in DOMAIN rows : Matches(rows, i, f)}

\* That is what an answer holds.
LEMMA AnswerRuns ==
  ASSUME NEW rows \in Seq(Run), NEW f
  PROVE  LET ps == GetRopOptimization(rows, f).points
         IN /\ DOMAIN ps = {i \in Oldest(Asked(rows, f), MaxPoints) : Qualifies(rows[i])}
            /\ ps = [i \in DOMAIN ps |-> ToPoint(rows[i])]
            /\ ~GetRopOptimization(rows, f).truncated =>
                 Oldest(Asked(rows, f), MaxPoints) = Asked(rows, f)
            /\ GetRopOptimization(rows, f).bitSizes = {ps[i].size : i \in DOMAIN ps} \ {None}
<1> DEFINE S == Asked(rows, f)
           used == {i \in Oldest(Fetch(rows, f), MaxPoints) : Qualifies(rows[i])}
           ps == GetRopOptimization(rows, f).points
<1>1. (\A i \in S : i \in Nat) /\ IsFiniteSet(S)
  <2>1. S \subseteq 1..Len(rows) /\ Len(rows) \in Nat
    BY DEF Asked
  <2>2. IsFiniteSet(1..Len(rows))
    BY <2>1, FS_Interval
  <2> HIDE DEF S
  <2>3. IsFiniteSet(S)
    BY <2>1, <2>2, FS_Subset, Zenon
  <2> QED BY <2>1, <2>3
<1>2. Fetch(rows, f) = Oldest(S, MaxPoints + 1)
  BY DEF Fetch, Asked
<1> HIDE DEF S
<1>3. Oldest(Fetch(rows, f), MaxPoints) = Oldest(S, MaxPoints)
  BY <1>1, <1>2, OldestOfOldest, MaxPointsAssumption
<1>4. ps = [i \in used |-> ToPoint(rows[i])]
  BY DEF GetRopOptimization
<1>5. GetRopOptimization(rows, f).bitSizes = {ps[i].size : i \in used} \ {None}
  BY DEF GetRopOptimization
<1>6. GetRopOptimization(rows, f).truncated <=> Cardinality(Oldest(S, MaxPoints + 1)) > MaxPoints
  BY <1>2 DEF GetRopOptimization
<1>7. ~GetRopOptimization(rows, f).truncated => Oldest(S, MaxPoints) = S
  <2>1. IsFiniteSet(Oldest(S, MaxPoints + 1))
    BY <1>1, FS_Subset DEF Oldest
  <2>2. Cardinality(Oldest(S, MaxPoints + 1)) \in Nat
    BY <2>1, FS_CardinalityType
  <2> QED BY <1>1, <1>6, <2>2, OldestAreAll, MaxPointsAssumption
<1> HIDE DEF ps
<1> QED BY <1>3, <1>4, <1>5, <1>7 DEF S, ps

\* An answer that is not marked truncated lacks no run that was asked for,
\* and recording a run takes no other out of the figures.
THEOREM MissingFlagged == Spec => []MissingIsFlagged
<1>1. RunsInv => MissingIsFlagged
  <2> SUFFICES ASSUME RunsInv, subject = "runs",
                      NEW f, NEW answer, answer = GetRopOptimization(input, f)
               PROVE  /\ AnswerIsComplete(input, f)
                      /\ \A draft \in Draft :
                           LET shown == ShownPoints(input, draft)
                           IN f = Request(draft) /\ draft.includeOutliers =>
                                /\ DOMAIN shown = DOMAIN answer.points
                                /\ BitSizeCount(shown) = Cardinality(answer.bitSizes)
    BY DEF MissingIsFlagged
  <2> DEFINE S == Asked(input, f)
             asked == {i \in DOMAIN input : Matches(input, i, f) /\ Qualifies(input[i])}
             ps == answer.points
  <2>1. input \in Seq(Run)
    BY DEF RunsInv
  <2>2. /\ DOMAIN ps = {i \in Oldest(S, MaxPoints) : Qualifies(input[i])}
        /\ ps = [i \in DOMAIN ps |-> ToPoint(input[i])]
        /\ ~answer.truncated => Oldest(S, MaxPoints) = S
        /\ answer.bitSizes = {ps[i].size : i \in DOMAIN ps} \ {None}
    BY <2>1, AnswerRuns
  <2>3. ASSUME NEW draft \in Draft, f = Request(draft), draft.includeOutliers,
               NEW shown, shown = ShownPoints(input, draft)
        PROVE  DOMAIN shown = DOMAIN ps /\ BitSizeCount(shown) = Cardinality(answer.bitSizes)
    <3>1. shown = Received(ps)
      BY <2>3 DEF ShownPoints
    <3>2. DOMAIN shown = DOMAIN ps /\ \A i \in DOMAIN ps : shown[i].size = ps[i].size
      <4>1. \A i \in DOMAIN ps : ps[i] = ToPoint(input[i])
        BY <2>2
      <4>2. \A r : ToPoint(r).size = r.size
        BY DEF ToPoint
      <4>3. DOMAIN shown = DOMAIN ps
        BY <3>1 DEF Received
      <4>4. ASSUME NEW i \in DOMAIN ps PROVE shown[i].size = ps[i].size
        <5>1. \E m : shown[i] = [ps[i] EXCEPT !.mse = m]
          BY <3>1 DEF Received
        <5>2. ASSUME NEW r, NEW m PROVE [ToPoint(r) EXCEPT !.mse = m].size = r.size
          BY DEF ToPoint
        <5> QED BY <4>1, <4>2, <5>1, <5>2
      <4> QED BY <4>3, <4>4
    <3>4. {shown[i].size : i \in DOMAIN shown} = {ps[i].size : i \in DOMAIN ps}
      BY <3>2
    <3> HIDE DEF ps
    <3> QED BY <2>2, <3>2, <3>4 DEF BitSizeCount
  <2>4. ASSUME [f EXCEPT !.mudTypes = {}] = NoFilter
        PROVE  asked = {i \in DOMAIN input : Qualifies(input[i])}
    <3> DEFINE g == [f EXCEPT !.mudTypes = {}]
    <3>1. /\ g.wells = f.wells /\ g.sizes = f.sizes /\ g.families = f.families
          /\ g.depthFrom = f.depthFrom /\ g.depthTo = f.depthTo
          /\ g.dateFrom = f.dateFrom /\ g.dateTo = f.dateTo
      OBVIOUS
    <3>2. /\ f.wells = {} /\ f.sizes = {} /\ f.families = {}
          /\ f.depthFrom = None /\ f.depthTo = None /\ f.dateFrom = None /\ f.dateTo = None
      <4> HIDE DEF g
      <4> QED BY <2>4, <3>1 DEF NoFilter, g
    <3> QED BY <3>2 DEF Matches
  <2>6. ~answer.truncated => DOMAIN ps = asked
    BY <2>2 DEF Asked
  <2>5. ASSUME NEW k \in DOMAIN input
        PROVE  GetRopOptimization(SubSeq(input, 1, k), f).points
                 = Restrict(answer.points, DOMAIN answer.points \intersect 1..k)
    <3> DEFINE rows == SubSeq(input, 1, k)
               q == GetRopOptimization(rows, f).points
    <3>1. /\ rows \in Seq(Run) /\ DOMAIN rows = 1..k /\ k \in Nat
          /\ \A i \in 1..k : rows[i] = input[i] /\ i \in DOMAIN input
      <4>1. k \in 1..Len(input) /\ Len(input) \in Nat /\ DOMAIN input = 1..Len(input)
        BY <2>1
      <4>2. rows \in Seq(Run) /\ Len(rows) = k /\ \A i \in 1..k : rows[i] = input[i]
        BY <2>1, <4>1
      <4> QED BY <4>1, <4>2
    <3>2. Asked(rows, f) = S \intersect 1..k
      BY <3>1 DEF Asked, Matches
    <3>3. \A i \in S : i \in Nat \ {0}
      BY <2>1 DEF Asked
    <3> HIDE DEF rows, S
    <3>4. Oldest(Asked(rows, f), MaxPoints) = Oldest(S, MaxPoints) \intersect 1..k
      BY <3>1, <3>2, <3>3, OldestUpTo, MaxPointsAssumption
    <3>5. /\ DOMAIN q = {i \in Oldest(Asked(rows, f), MaxPoints) : Qualifies(rows[i])}
          /\ q = [i \in DOMAIN q |-> ToPoint(rows[i])]
      BY <3>1, AnswerRuns
    <3> HIDE DEF q, ps
    <3>6. DOMAIN q = DOMAIN ps \intersect 1..k
      BY <2>2, <3>1, <3>4, <3>5
    <3>7. \A i \in DOMAIN q : q[i] = ps[i]
      BY <2>2, <3>1, <3>5, <3>6
    <3>8. q = [i \in DOMAIN ps \intersect 1..k |-> ps[i]]
      BY <3>5, <3>6, <3>7
    <3> QED BY <3>8 DEF q, rows, ps, Restrict
  <2> QED BY <2>3, <2>4, <2>5, <2>6 DEF AnswerIsComplete
<1> QED BY <1>1, RunsInvInvariant, PTL

-----------------------------------------------------------------------------
(***************************************************************************)
(* The text of a report.                                                   *)
(***************************************************************************)
Line == LogLine \union NarrativeLine
LinesInv == subject \in {"log", "narrative"} => input \in Seq(Line)

\* The lines of a report are lines.
LEMMA LinesInvInvariant == Spec => []LinesInv
<1>1. Init => LinesInv
  BY DEF Init, LinesInv
<1>2. LinesInv /\ [Next]_vars => LinesInv'
  <2> SUFFICES ASSUME LinesInv, [Next]_vars, subject' \in {"log", "narrative"}
               PROVE  input' \in Seq(Line)
    BY DEF LinesInv
  <2>1. CASE WriteLine
    <3>1. PICK l \in Line : input' = Append(input, l)
      BY <2>1 DEF WriteLine, Line
    <3>2. input \in Seq(Line)
      BY <2>1 DEF WriteLine, LinesInv
    <3> QED BY <3>1, <3>2
  <2>2. CASE UNCHANGED vars
    BY <2>2 DEF vars, LinesInv
  <2> QED BY <2>1, <2>2
          DEF Next, RecordPoint, RecordRun, PlaceText, Edit, Export, Import, Exchange
<1> QED BY <1>1, <1>2, PTL DEF Spec

\* The activities read so far, up to a line.
Act == [row : Nat, comment : Seq(Nat)]
ReadTo(lines, start, g, n) ==
  /\ g \in [0..n -> Seq(Act)]
  /\ \A i \in 0..n : g[i] = IF i <= start THEN <<>> ELSE ReadLine(lines, g[i - 1], i)

\* Reading a line leaves a list of activities.
LEMMA ReadLineType ==
  ASSUME NEW lines, NEW acts \in Seq(Act), NEW i \in Nat
  PROVE  ReadLine(lines, acts, i) \in Seq(Act)
<1>1. CASE lines[i] \in {"row", "wait"}
  <2>1. [row |-> i, comment |-> <<i>>] \in Act
    BY DEF Act
  <2> QED BY <1>1, <2>1 DEF ReadLine
<1>2. CASE lines[i] \notin {"row", "wait"} /\ acts # <<>> /\ lines[i] \notin Skipped
  <2>1. Len(acts) \in DOMAIN acts /\ acts[Len(acts)] \in Act
    BY <1>2
  <2>2. Append(acts[Len(acts)].comment, i) \in Seq(Nat)
    BY <2>1 DEF Act
  <2>3. [acts[Len(acts)] EXCEPT !.comment = Append(@, i)] \in Act
    BY <2>1, <2>2 DEF Act
  <2>4. ReadLine(lines, acts, i)
          = [acts EXCEPT ![Len(acts)] = [acts[Len(acts)] EXCEPT !.comment = Append(@, i)]]
    BY <1>2, <2>1 DEF ReadLine
  <2> QED BY <2>1, <2>3, <2>4
<1> QED BY <1>1, <1>2 DEF ReadLine

\* A log can be read up to any line.
LEMMA ReadExists ==
  ASSUME NEW lines, NEW start \in Nat, NEW n \in Nat
  PROVE  \E g : ReadTo(lines, start, g, n)
<1> DEFINE A == {m \in Nat : \E g : ReadTo(lines, start, g, m)}
<1>1. 0 \in A
  <2> DEFINE g == [i \in 0..0 |-> <<>>]
  <2>1. g \in [0..0 -> Seq(Act)]
    OBVIOUS
  <2>2. \A i \in 0..0 : g[i] = <<>> /\ i <= start
    OBVIOUS
  <2> HIDE DEF g
  <2>3. ReadTo(lines, start, g, 0)
    BY <2>1, <2>2 DEF ReadTo
  <2> QED BY <2>3
<1>2. ASSUME NEW m \in Nat, m \in A PROVE m + 1 \in A
  <2>1. PICK f : ReadTo(lines, start, f, m)
    BY <1>2
  <2> DEFINE new == IF m + 1 <= start THEN <<>> ELSE ReadLine(lines, f[m], m + 1)
             g == [i \in 0..(m + 1) |-> IF i = m + 1 THEN new ELSE f[i]]
  <2>2. f \in [0..m -> Seq(Act)] /\ new \in Seq(Act)
    <3>1. f \in [0..m -> Seq(Act)]
      BY <2>1 DEF ReadTo
    <3>2. f[m] \in Seq(Act)
      BY <3>1
    <3> QED BY <3>1, <3>2, ReadLineType
  <2> HIDE DEF new
  <2>3. g \in [0..(m + 1) -> Seq(Act)]
    BY <2>2
  <2>4. /\ \A i \in 0..m : g[i] = f[i]
        /\ g[m + 1] = new
    OBVIOUS
  <2> HIDE DEF g
  <2>5. ASSUME NEW i \in 0..(m + 1)
        PROVE  g[i] = IF i <= start THEN <<>> ELSE ReadLine(lines, g[i - 1], i)
    <3>1. CASE i = m + 1
      <4>1. i - 1 = m /\ m \in 0..m
        BY <3>1
      <4> QED BY <2>4, <3>1, <4>1 DEF new
    <3>2. CASE i \in 0..m
      <4>1. f[i] = IF i <= start THEN <<>> ELSE ReadLine(lines, f[i - 1], i)
        BY <2>1, <3>2 DEF ReadTo
      <4>2. ~(i <= start) => i - 1 \in 0..m
        BY <3>2
      <4> QED BY <2>4, <3>2, <4>1, <4>2
    <3> QED BY <3>1, <3>2
  <2>6. ReadTo(lines, start, g, m + 1)
    BY <2>3, <2>5 DEF ReadTo
  <2> QED BY <2>6
<1>3. Nat \subseteq A
  <2> HIDE DEF A
  <2> QED BY <1>1, <1>2, NatSet
<1> QED BY <1>3

\* There is one way to read it.
LEMMA ReadUnique ==
  ASSUME NEW lines, NEW start \in Nat, NEW m \in Nat, NEW n \in Nat, NEW f, NEW g,
         ReadTo(lines, start, f, m), ReadTo(lines, start, g, n), NEW i \in 0..m, i \in 0..n
  PROVE  f[i] = g[i]
<1> DEFINE A == {j \in Nat : j \in 0..m /\ j \in 0..n => f[j] = g[j]}
<1>1. 0 \in A
  BY DEF ReadTo
<1>2. ASSUME NEW j \in Nat, j \in A PROVE j + 1 \in A
  <2> SUFFICES ASSUME j + 1 \in 0..m, j + 1 \in 0..n PROVE f[j + 1] = g[j + 1]
    OBVIOUS
  <2>1. f[j] = g[j]
    BY <1>2
  <2>2. (j + 1) - 1 = j
    OBVIOUS
  <2>3. /\ f[j + 1] = IF j + 1 <= start THEN <<>> ELSE ReadLine(lines, f[(j + 1) - 1], j + 1)
        /\ g[j + 1] = IF j + 1 <= start THEN <<>> ELSE ReadLine(lines, g[(j + 1) - 1], j + 1)
    BY DEF ReadTo
  <2> QED BY <2>1, <2>2, <2>3
<1>3. Nat \subseteq A
  <2> HIDE DEF A
  <2> QED BY <1>1, <1>2, NatSet
<1> QED BY <1>3

\* The recursion that Activities reads the log with has a solution.
LEMMA ReadIs ==
  ASSUME NEW lines, NEW start \in Nat, start # 0,
         start = First(Where(lines, {"day"}), 0), LogEnd(lines, start) \in Nat \ {0}
  PROVE  \E g : /\ ReadTo(lines, start, g, LogEnd(lines, start) - 1)
                /\ Activities(lines) = g[LogEnd(lines, start) - 1]
<1> DEFINE G(i) == CHOOSE g : ReadTo(lines, start, g, i)
           h == [i \in Nat |-> G(i)[i]]
           F(f) == [i \in Nat |-> IF i <= start THEN <<>> ELSE ReadLine(lines, f[i - 1], i)]
           read == CHOOSE f : f = F(f)
<1>1. \A i \in Nat : ReadTo(lines, start, G(i), i)
  BY ReadExists
<1> HIDE DEF G
<1>2. h = F(h)
  <2>1. ASSUME NEW i \in Nat
        PROVE  h[i] = IF i <= start THEN <<>> ELSE ReadLine(lines, h[i - 1], i)
    <3>1. G(i)[i] = IF i <= start THEN <<>> ELSE ReadLine(lines, G(i)[i - 1], i)
      <4>1. ReadTo(lines, start, G(i), i)
        BY <1>1
      <4> QED BY <4>1 DEF ReadTo
    <3>2. ASSUME ~(i <= start) PROVE G(i)[i - 1] = h[i - 1]
      <4>1. i - 1 \in Nat /\ i - 1 \in 0..i /\ i - 1 \in 0..(i - 1)
        BY <3>2
      <4>2. ReadTo(lines, start, G(i), i) /\ ReadTo(lines, start, G(i - 1), i - 1)
        BY <1>1, <4>1
      <4>3. G(i)[i - 1] = G(i - 1)[i - 1]
        BY <4>1, <4>2, ReadUnique
      <4> QED BY <4>1, <4>3
    <3> QED BY <3>1, <3>2
  <2> HIDE DEF h
  <2>2. h = [i \in Nat |-> h[i]]
    BY DEF h
  <2> QED BY <2>1, <2>2
<1>3. read = F(read)
  <2> HIDE DEF h, F
  <2> QED BY <1>2
<1>4. Activities(lines) = read[LogEnd(lines, start) - 1]
  BY DEF Activities
<1>5. read = [i \in Nat |-> IF i <= start THEN <<>> ELSE ReadLine(lines, read[i - 1], i)]
  BY <1>3
<1> HIDE DEF read, F, h
<1> DEFINE n == LogEnd(lines, start) - 1
           g == G(n)
<1>6. n \in Nat
  OBVIOUS
<1> HIDE DEF n
<1>7. ReadTo(lines, start, g, n)
  BY <1>1, <1>6
<1>8. g[n] = read[n]
  <2> DEFINE A == {j \in Nat : j <= n => g[j] = read[j]}
  <2>1. \A i \in Nat : read[i] = IF i <= start THEN <<>> ELSE ReadLine(lines, read[i - 1], i)
    BY <1>5
  <2>2. \A i \in 0..n : g[i] = IF i <= start THEN <<>> ELSE ReadLine(lines, g[i - 1], i)
    BY <1>7 DEF ReadTo
  <2> HIDE DEF g
  <2>3. 0 \in A
    BY <1>6, <2>1, <2>2
  <2>4. ASSUME NEW j \in Nat, j \in A PROVE j + 1 \in A
    <3> SUFFICES ASSUME j + 1 <= n PROVE g[j + 1] = read[j + 1]
      OBVIOUS
    <3>1. g[j] = read[j] /\ (j + 1) - 1 = j /\ j + 1 \in 0..n /\ j + 1 \in Nat
      BY <1>6, <2>4
    <3>2. /\ g[j + 1] = IF j + 1 <= start THEN <<>> ELSE ReadLine(lines, g[(j + 1) - 1], j + 1)
          /\ read[j + 1] = IF j + 1 <= start THEN <<>> ELSE ReadLine(lines, read[(j + 1) - 1], j + 1)
      BY <2>1, <2>2, <3>1
    <3> QED BY <3>1, <3>2
  <2>5. Nat \subseteq A
    <3> HIDE DEF A
    <3> QED BY <2>3, <2>4, NatSet
  <2> QED BY <1>6, <2>5
<1> HIDE DEF g
<1> QED BY <1>4, <1>7, <1>8 DEF n
RowOf(rows, j) == Max({0} \union {r \in rows : r <= j})
Ascends(s) == \A a, b \in DOMAIN s : a < b => s[a] < s[b]

\* What has been read of a log up to a line: its rows, and with each row the
\* text up to the next.
ReadUpTo(rows, text, acts, i) ==
  /\ {acts[k].row : k \in DOMAIN acts} = {r \in rows : r <= i}
  /\ \A a, b \in DOMAIN acts : a < b => acts[a].row < acts[b].row
  /\ \A k \in DOMAIN acts :
       /\ Range(acts[k].comment) = {j \in text : j <= i /\ acts[k].row = RowOf(rows, j)}
       /\ Ascends(acts[k].comment)

\* The last row up to a line.
LEMMA RowOfIs ==
  ASSUME NEW rows, \A r \in rows : r \in Nat \ {0}, IsFiniteSet(rows), NEW j \in Nat
  PROVE  /\ RowOf(rows, j) \in Nat /\ RowOf(rows, j) <= j
         /\ RowOf(rows, j) = 0 \/ RowOf(rows, j) \in rows
         /\ \A r \in rows : r <= j => r <= RowOf(rows, j)
<1> DEFINE T == {r \in rows : r <= j}
           S == {0} \union T
<1>1. IsFiniteSet(T)
  BY FS_Subset
<1>2. IsFiniteSet(S)
  BY <1>1, FS_AddElement
<1>3. \A y \in S : y \in Nat /\ y <= j
  OBVIOUS
<1>4. S \in SUBSET Int /\ S # {}
  BY <1>3
<1> HIDE DEF S
<1>5. Max(S) \in S /\ \A y \in S : Max(S) >= y
  BY <1>2, <1>4, MinMax
<1>6. Max(S) = RowOf(rows, j)
  BY DEF S, RowOf
<1> DEFINE m == RowOf(rows, j)
<1> HIDE DEF m
<1>7. m \in S /\ \A y \in S : m >= y
  BY <1>5, <1>6 DEF m
<1>8. m \in Nat /\ m <= j
  BY <1>3, <1>7
<1>9. m = 0 \/ m \in rows
  BY <1>7 DEF S
<1>10. \A r \in rows : r <= j => r <= m
  BY <1>7, <1>8 DEF S
<1> QED BY <1>8, <1>9, <1>10 DEF m

\* A row begins an activity.
LEMMA ReadRow ==
  ASSUME NEW rows, \A r \in rows : r \in Nat \ {0}, IsFiniteSet(rows),
         NEW text, \A j \in text : j \in Nat,
         NEW acts \in Seq(Act), NEW i \in Nat, ReadUpTo(rows, text, acts, i),
         i + 1 \in rows, i + 1 \in text
  PROVE  ReadUpTo(rows, text, Append(acts, [row |-> i + 1, comment |-> <<i + 1>>]), i + 1)
<1> DEFINE act == [row |-> i + 1, comment |-> <<i + 1>>]
           new == Append(acts, act)
           m == Len(acts)
<1>1. /\ m \in Nat /\ DOMAIN acts = 1..m /\ DOMAIN new = 1..(m + 1)
      /\ \A k \in 1..m : new[k] = acts[k] /\ acts[k].row \in Nat
      /\ new[m + 1] = act
  <2>1. \A k \in 1..m : acts[k] \in Act
    OBVIOUS
  <2>2. act \in Act
    BY DEF Act
  <2> HIDE DEF act
  <2>3. /\ m \in Nat /\ DOMAIN acts = 1..m /\ DOMAIN new = 1..(m + 1)
        /\ \A k \in 1..m : new[k] = acts[k]
        /\ new[m + 1] = act
    BY <2>2
  <2> QED BY <2>1, <2>3 DEF Act
<1>2. act.row = i + 1 /\ act.comment = <<i + 1>>
  OBVIOUS
<1> HIDE DEF act, new, m
<1>3. /\ {acts[k].row : k \in 1..m} = {r \in rows : r <= i}
      /\ \A a, b \in 1..m : a < b => acts[a].row < acts[b].row
      /\ \A k \in 1..m :
           /\ Range(acts[k].comment) = {j \in text : j <= i /\ acts[k].row = RowOf(rows, j)}
           /\ Ascends(acts[k].comment)
  BY <1>1 DEF ReadUpTo
<1>4. \A k \in 1..m : acts[k].row <= i /\ acts[k].row \in Nat
  BY <1>1, <1>3
<1>5. {new[k].row : k \in 1..(m + 1)} = {r \in rows : r <= i + 1}
  <2>1. 1..(m + 1) = 1..m \union {m + 1}
    BY <1>1
  <2>2. {new[k].row : k \in 1..(m + 1)} = {acts[k].row : k \in 1..m} \union {i + 1}
    BY <1>1, <1>2, <2>1
  <2>3. \A r \in rows : r <= i + 1 <=> r <= i \/ r = i + 1
    OBVIOUS
  <2> QED BY <1>3, <2>2, <2>3, Zenon
<1>6. \A a, b \in 1..(m + 1) : a < b => new[a].row < new[b].row
  <2> SUFFICES ASSUME NEW a \in 1..(m + 1), NEW b \in 1..(m + 1), a < b
               PROVE  new[a].row < new[b].row
    OBVIOUS
  <2>1. a \in 1..m
    BY <1>1
  <2>2. CASE b \in 1..m
    BY <1>1, <1>3, <2>1, <2>2
  <2>3. CASE b = m + 1
    BY <1>1, <1>2, <1>4, <2>1, <2>3
  <2> QED BY <1>1, <2>2, <2>3
<1>7. /\ RowOf(rows, i + 1) = i + 1
      /\ \A j \in text : j <= i => RowOf(rows, j) \in Nat /\ RowOf(rows, j) <= i
  <2>1. RowOf(rows, i + 1) = i + 1
    <3>1. RowOf(rows, i + 1) \in Nat /\ RowOf(rows, i + 1) <= i + 1
          /\ \A r \in rows : r <= i + 1 => r <= RowOf(rows, i + 1)
      BY RowOfIs
    <3> QED BY <3>1
  <2>2. ASSUME NEW j \in text, j <= i PROVE RowOf(rows, j) \in Nat /\ RowOf(rows, j) <= i
    <3>1. j \in Nat /\ RowOf(rows, j) \in Nat /\ RowOf(rows, j) <= j
      BY RowOfIs
    <3> QED BY <2>2, <3>1
  <2> QED BY <2>1, <2>2
<1>8. ASSUME NEW k \in 1..(m + 1)
      PROVE  /\ Range(new[k].comment) = {j \in text : j <= i + 1 /\ new[k].row = RowOf(rows, j)}
             /\ Ascends(new[k].comment)
  <2>0. \A j \in text : j <= i + 1 <=> j <= i \/ j = i + 1
    OBVIOUS
  <2>1. CASE k \in 1..m
    <3>1. new[k].row # i + 1
      BY <1>1, <1>4, <2>1
    <3>2. \A j \in text : j <= i + 1 /\ new[k].row = RowOf(rows, j)
                            <=> j <= i /\ acts[k].row = RowOf(rows, j)
      BY <1>1, <1>7, <2>0, <2>1, <3>1
    <3> QED BY <1>1, <1>3, <2>1, <3>2
  <2>2. CASE k = m + 1
    <3>1. Range(new[k].comment) = {i + 1} /\ Ascends(new[k].comment)
      <4>1. DOMAIN <<i + 1>> = {1} /\ <<i + 1>>[1] = i + 1
        OBVIOUS
      <4> QED BY <1>1, <1>2, <2>2, <4>1 DEF Range, Ascends
    <3>2. \A j \in text : j <= i + 1 /\ i + 1 = RowOf(rows, j) <=> j = i + 1
      BY <1>7, <2>0
    <3>3. {j \in text : j <= i + 1 /\ new[k].row = RowOf(rows, j)} = {i + 1}
      <4>1. new[k].row = i + 1
        BY <1>1, <1>2, <2>2
      <4> QED BY <3>2, <4>1, Zenon
    <3> QED BY <3>1, <3>3
  <2> QED BY <1>1, <2>1, <2>2
<1> QED BY <1>1, <1>5, <1>6, <1>8 DEF ReadUpTo, new, act

\* A line of text continues the last activity.
LEMMA ReadText ==
  ASSUME NEW rows, \A r \in rows : r \in Nat \ {0}, IsFiniteSet(rows),
         NEW text, \A j \in text : j \in Nat,
         NEW acts \in Seq(Act), NEW i \in Nat, ReadUpTo(rows, text, acts, i),
         i + 1 \notin rows, i + 1 \in text, acts # <<>>
  PROVE  ReadUpTo(rows, text, [acts EXCEPT ![Len(acts)].comment = Append(@, i + 1)], i + 1)
<1> DEFINE m == Len(acts)
           new == [acts EXCEPT ![Len(acts)].comment = Append(@, i + 1)]
           c == acts[m].comment
<1>0. \A k \in 1..m : acts[k] \in Act
  OBVIOUS
<1>1. /\ m \in Nat /\ DOMAIN acts = 1..m /\ DOMAIN new = 1..m /\ m \in 1..m
      /\ \A k \in 1..m : acts[k].row \in Nat /\ acts[k].comment \in Seq(Nat)
  BY <1>0 DEF Act
<1>2. /\ \A k \in 1..m : k # m => new[k] = acts[k]
      /\ new[m] = [acts[m] EXCEPT !.comment = Append(c, i + 1)]
  BY <1>1
<1>3. new[m].row = acts[m].row /\ new[m].comment = Append(c, i + 1)
  <2>1. acts[m] \in Act
    BY <1>0, <1>1
  <2> QED BY <1>2, <2>1 DEF Act
<1>4. c \in Seq(Nat)
  BY <1>1
<1> HIDE DEF new, c, m
<1>5. /\ {acts[k].row : k \in 1..m} = {r \in rows : r <= i}
      /\ \A a, b \in 1..m : a < b => acts[a].row < acts[b].row
      /\ \A k \in 1..m :
           /\ Range(acts[k].comment) = {j \in text : j <= i /\ acts[k].row = RowOf(rows, j)}
           /\ Ascends(acts[k].comment)
  BY <1>1 DEF ReadUpTo
<1>6. \A k \in 1..m : new[k].row = acts[k].row
  BY <1>2, <1>3
<1>7. {new[k].row : k \in 1..m} = {r \in rows : r <= i + 1}
  <2>1. \A r \in rows : r <= i + 1 <=> r <= i
    OBVIOUS
  <2>2. {new[k].row : k \in 1..m} = {acts[k].row : k \in 1..m}
    BY <1>6
  <2> QED BY <1>5, <2>1, <2>2, Zenon
<1>8. RowOf(rows, i + 1) = acts[m].row
  <2>1. /\ RowOf(rows, i + 1) \in Nat /\ RowOf(rows, i + 1) <= i + 1
        /\ RowOf(rows, i + 1) = 0 \/ RowOf(rows, i + 1) \in rows
        /\ \A r \in rows : r <= i + 1 => r <= RowOf(rows, i + 1)
    BY RowOfIs
  <2>2. acts[m].row \in rows /\ acts[m].row <= i /\ acts[m].row \in Nat \ {0}
    BY <1>1, <1>5
  <2>3. acts[m].row <= RowOf(rows, i + 1)
    BY <2>1, <2>2
  <2>4. RowOf(rows, i + 1) \in rows /\ RowOf(rows, i + 1) <= i
    BY <2>1, <2>2, <2>3
  <2>5. PICK k \in 1..m : acts[k].row = RowOf(rows, i + 1)
    BY <1>5, <2>4
  <2>6. acts[k].row <= acts[m].row
    <3>1. k = m \/ k < m
      BY <1>1
    <3>2. k < m => acts[k].row < acts[m].row
      BY <1>1, <1>5
    <3> QED BY <1>1, <3>1, <3>2
  <2> QED BY <2>1, <2>2, <2>3, <2>5, <2>6
<1>9. ASSUME NEW k \in 1..m
      PROVE  /\ Range(new[k].comment) = {j \in text : j <= i + 1 /\ new[k].row = RowOf(rows, j)}
             /\ Ascends(new[k].comment)
  <2>0. \A j \in text : j <= i + 1 <=> j <= i \/ j = i + 1
    OBVIOUS
  <2>1. CASE k # m
    <3>1. acts[k].row # acts[m].row
      <4>1. k < m
        BY <1>1, <2>1
      <4>2. acts[k].row < acts[m].row /\ acts[k].row \in Nat /\ acts[m].row \in Nat
        BY <1>1, <1>5, <4>1
      <4> QED BY <4>2
    <3>2. \A j \in text : j <= i + 1 /\ new[k].row = RowOf(rows, j)
                            <=> j <= i /\ acts[k].row = RowOf(rows, j)
      <4>1. \A j \in text : j = i + 1 => new[k].row # RowOf(rows, j)
        BY <1>6, <1>8, <3>1
      <4>2. ~(i + 1 <= i)
        OBVIOUS
      <4> QED BY <1>6, <2>0, <4>1
    <3> QED BY <1>2, <1>5, <2>1, <3>2
  <2>2. CASE k = m
    <3>1. /\ Range(c) = {j \in text : j <= i /\ acts[m].row = RowOf(rows, j)}
          /\ Ascends(c)
      BY <1>1, <1>5 DEF c
    <3>2. /\ Range(Append(c, i + 1)) = Range(c) \union {i + 1}
          /\ \A a \in DOMAIN c : c[a] <= i /\ c[a] \in Nat
      <4>1. /\ DOMAIN c = 1..Len(c) /\ Len(c) \in Nat
            /\ DOMAIN Append(c, i + 1) = 1..(Len(c) + 1)
            /\ Append(c, i + 1)[Len(c) + 1] = i + 1
            /\ \A a \in 1..Len(c) : Append(c, i + 1)[a] = c[a] /\ c[a] \in Nat
        BY <1>4
      <4>2. 1..(Len(c) + 1) = 1..Len(c) \union {Len(c) + 1}
        BY <4>1
      <4>3. Range(Append(c, i + 1)) = Range(c) \union {i + 1}
        BY <4>1, <4>2 DEF Range
      <4>4. \A a \in DOMAIN c : c[a] \in Range(c)
        BY DEF Range
      <4> QED BY <3>1, <4>1, <4>3, <4>4
    <3>3. Ascends(Append(c, i + 1))
      <4>1. /\ DOMAIN c = 1..Len(c) /\ Len(c) \in Nat
            /\ DOMAIN Append(c, i + 1) = 1..(Len(c) + 1)
            /\ Append(c, i + 1)[Len(c) + 1] = i + 1
            /\ \A a \in 1..Len(c) : Append(c, i + 1)[a] = c[a]
        BY <1>4
      <4> DEFINE d == Append(c, i + 1)
      <4> HIDE DEF d
      <4>2. ASSUME NEW a \in 1..(Len(c) + 1), NEW b \in 1..(Len(c) + 1), a < b
            PROVE  d[a] < d[b]
        <5>1. a \in 1..Len(c)
          BY <4>1, <4>2
        <5>2. CASE b \in 1..Len(c)
          BY <3>1, <4>1, <4>2, <5>1, <5>2 DEF Ascends, d
        <5>3. CASE b = Len(c) + 1
          BY <3>2, <4>1, <5>1, <5>3 DEF d
        <5> QED BY <4>1, <5>2, <5>3
      <4> QED BY <4>1, <4>2 DEF Ascends, d
    <3>4. {j \in text : j <= i + 1 /\ acts[m].row = RowOf(rows, j)}
            = {j \in text : j <= i /\ acts[m].row = RowOf(rows, j)} \union {i + 1}
      BY <1>8, <2>0, Zenon
    <3> QED BY <1>3, <2>2, <3>1, <3>2, <3>3, <3>4
  <2> QED BY <2>1, <2>2
<1> QED BY <1>1, <1>6, <1>5, <1>7, <1>9 DEF ReadUpTo, new

\* The first of some lines, or what is asked for instead.
LEMMA FirstIs ==
  ASSUME NEW S, \A i \in S : i \in Nat, IsFiniteSet(S), NEW otherwise
  PROVE  \/ S = {} /\ First(S, otherwise) = otherwise
         \/ First(S, otherwise) \in S /\ \A i \in S : First(S, otherwise) <= i
<1>1. CASE S = {}
  BY <1>1 DEF First
<1>2. CASE S # {}
  <2>1. S \in SUBSET Int
    OBVIOUS
  <2>2. Min(S) \in S /\ \A i \in S : Min(S) <= i
    BY <1>2, <2>1, MinMax
  <2> QED BY <1>2, <2>2 DEF First
<1> QED BY <1>1, <1>2

\* The lines of a kind are finitely many.
LEMMA WhereIs ==
  ASSUME NEW lines \in Seq(Line), NEW kinds
  PROVE  /\ IsFiniteSet(Where(lines, kinds))
         /\ \A i \in Where(lines, kinds) : i \in 1..Len(lines) /\ i \in Nat /\ lines[i] \in kinds
         /\ \A i \in 1..Len(lines) : lines[i] \in kinds => i \in Where(lines, kinds)
         /\ Len(lines) \in Nat /\ DOMAIN lines = 1..Len(lines)
<1>1. Len(lines) \in Nat /\ DOMAIN lines = 1..Len(lines)
  OBVIOUS
<1>2. IsFiniteSet(1..Len(lines))
  BY <1>1, FS_Interval
<1>3. Where(lines, kinds) = {i \in 1..Len(lines) : lines[i] \in kinds}
  BY <1>1 DEF Where
<1>4. IsFiniteSet(Where(lines, kinds))
  BY <1>2, <1>3, FS_Subset
<1> QED BY <1>1, <1>3, <1>4

\* A log reads on to the line before the next heading of the morning report.
LEMMA LogEnds ==
  ASSUME NEW lines \in Seq(Line), NEW start \in 1..Len(lines)
  PROVE  /\ LogEnd(lines, start) \in Nat /\ LogEnd(lines, start) > start
         /\ LogEnd(lines, start) <= Len(lines) + 1
         /\ \A i \in DOMAIN lines :
              i > start /\ (\A j \in (start + 1)..i : lines[j] # "morning")
                <=> i \in (start + 1)..(LogEnd(lines, start) - 1)
<1> DEFINE S == {i \in Where(lines, {"morning"}) : i > start}
           end == LogEnd(lines, start)
<1>1. /\ IsFiniteSet(Where(lines, {"morning"})) /\ Len(lines) \in Nat /\ DOMAIN lines = 1..Len(lines)
      /\ \A i \in Where(lines, {"morning"}) : i \in 1..Len(lines) /\ i \in Nat /\ lines[i] = "morning"
      /\ \A i \in 1..Len(lines) : lines[i] = "morning" => i \in Where(lines, {"morning"})
  BY WhereIs
<1>2. IsFiniteSet(S) /\ \A i \in S : i \in Nat
  BY <1>1, FS_Subset
<1>3. end = First(S, Len(lines) + 1)
  BY DEF LogEnd
<1> HIDE DEF end
<1>4. \/ S = {} /\ end = Len(lines) + 1
      \/ end \in S /\ \A i \in S : end <= i
  <2> HIDE DEF S
  <2> QED BY <1>2, <1>3, FirstIs
<1>5. end \in Nat /\ end > start /\ end <= Len(lines) + 1
  BY <1>1, <1>4
<1>6. \A j \in (start + 1)..(end - 1) : lines[j] # "morning"
  BY <1>1, <1>4, <1>5
<1>7. end <= Len(lines) => lines[end] = "morning"
  BY <1>1, <1>4
<1>8. ASSUME NEW i \in DOMAIN lines
      PROVE  i > start /\ (\A j \in (start + 1)..i : lines[j] # "morning")
               <=> i \in (start + 1)..(end - 1)
  <2>1. ASSUME i > start, \A j \in (start + 1)..i : lines[j] # "morning"
        PROVE  i \in (start + 1)..(end - 1)
    <3>1. i \in Nat /\ i <= Len(lines)
      BY <1>1
    <3>2. CASE i < end
      BY <1>5, <2>1, <3>1, <3>2
    <3>3. CASE end <= i
      <4>1. end \in (start + 1)..i /\ end <= Len(lines)
        BY <1>1, <1>5, <3>1, <3>3
      <4> QED BY <1>7, <2>1, <4>1
    <3> QED BY <1>5, <3>1, <3>2, <3>3
  <2>2. ASSUME i \in (start + 1)..(end - 1)
        PROVE  i > start /\ \A j \in (start + 1)..i : lines[j] # "morning"
    <3>1. i > start /\ \A j \in (start + 1)..i : j \in (start + 1)..(end - 1)
      BY <1>5, <2>2
    <3> QED BY <1>6, <3>1
  <2> QED BY <2>1, <2>2
<1> QED BY <1>5, <1>8 DEF end

\* The log is read in full.
LEMMA LogRead ==
  ASSUME NEW lines \in Seq(Line)
  PROVE  LogIsReadInFull(lines)
<1> DEFINE acts == Activities(lines)
           start == First(Where(lines, {"day"}), 0)
           inLog == {i \in DOMAIN lines : /\ start # 0 /\ i > start
                                          /\ \A j \in (start + 1)..i : lines[j] # "morning"}
           rows == inLog \intersect Where(lines, {"row", "wait"})
           text == {i \in inLog : lines[i] \notin Skipped}
<1>1. /\ Len(lines) \in Nat /\ DOMAIN lines = 1..Len(lines)
      /\ start = 0 \/ start \in 1..Len(lines)
  <2>1. /\ IsFiniteSet(Where(lines, {"day"})) /\ Len(lines) \in Nat /\ DOMAIN lines = 1..Len(lines)
        /\ \A i \in Where(lines, {"day"}) : i \in 1..Len(lines) /\ i \in Nat
    BY WhereIs
  <2> QED BY <2>1, FirstIs
<1>2. SUFFICES /\ {acts[k].row : k \in DOMAIN acts} = rows
               /\ \A a, b \in DOMAIN acts : a < b => acts[a].row < acts[b].row
               /\ \A k \in DOMAIN acts :
                    /\ Range(acts[k].comment) = {j \in text : acts[k].row = RowOf(rows, j)}
                    /\ Ascends(acts[k].comment)
  <2>1. /\ DOMAIN [k \in DOMAIN acts |-> acts[k].row] = DOMAIN acts
        /\ \A k \in DOMAIN acts : [j \in DOMAIN acts |-> acts[j].row][k] = acts[k].row
    OBVIOUS
  <2> HIDE DEF acts
  <2> QED BY <1>2, <2>1 DEF LogIsReadInFull, RowOf, Ascends, acts
<1>3. CASE start = 0
  <2>1. acts = <<>>
    BY <1>3 DEF Activities
  <2>2. DOMAIN acts = {} /\ rows = {}
    BY <1>3, <2>1
  <2> HIDE DEF acts, rows
  <2> QED BY <2>2
<1>4. CASE start # 0
  <2> DEFINE n == LogEnd(lines, start) - 1
  <2>1. start \in 1..Len(lines) /\ start \in Nat
    BY <1>1, <1>4
  <2> HIDE DEF acts
  <2>2. /\ LogEnd(lines, start) \in Nat /\ LogEnd(lines, start) > start
        /\ LogEnd(lines, start) <= Len(lines) + 1
        /\ \A i \in DOMAIN lines :
             i > start /\ (\A j \in (start + 1)..i : lines[j] # "morning")
               <=> i \in (start + 1)..(LogEnd(lines, start) - 1)
    <3> HIDE DEF start
    <3> QED BY <2>1, LogEnds
  <2>3. n \in Nat /\ start <= n /\ n <= Len(lines)
    <3> HIDE DEF start
    <3> QED BY <1>1, <2>1, <2>2
  <2>4. PICK g : ReadTo(lines, start, g, n) /\ acts = g[n]
    <3>1. LogEnd(lines, start) \in Nat \ {0}
      <4> HIDE DEF start
      <4> QED BY <2>1, <2>2
    <3>2. start = First(Where(lines, {"day"}), 0)
      OBVIOUS
    <3> HIDE DEF start
    <3> QED BY <1>4, <2>1, <3>1, <3>2, ReadIs DEF acts
  <2>5. inLog = (start + 1)..n
    <3>1. \A i \in (start + 1)..n : i \in DOMAIN lines
      <4> HIDE DEF start, n
      <4> QED BY <1>1, <2>1, <2>3
    <3> HIDE DEF start
    <3> QED BY <1>4, <2>2, <3>1
  <2> HIDE DEF start, n, inLog
  <2>6. /\ \A r \in rows : r \in Nat \ {0} /\ r > start /\ r <= n
        /\ \A j \in text : j \in Nat /\ j > start /\ j <= n
        /\ IsFiniteSet(rows)
        /\ \A i \in (start + 1)..n : i \in rows <=> lines[i] \in {"row", "wait"}
        /\ \A i \in (start + 1)..n : i \in text <=> lines[i] \notin Skipped
    <3>1. IsFiniteSet(Where(lines, {"row", "wait"}))
          /\ \A i \in 1..Len(lines) : i \in Where(lines, {"row", "wait"}) <=> lines[i] \in {"row", "wait"}
      BY WhereIs
    <3>2. IsFiniteSet(rows)
      BY <3>1, FS_Subset
    <3>3. \A i \in (start + 1)..n : i \in 1..Len(lines) /\ i \in Nat \ {0} /\ i > start /\ i <= n
      BY <1>1, <2>1, <2>3
    <3>4. \A r \in rows : r \in (start + 1)..n
      BY <2>5
    <3>5. \A r \in text : r \in (start + 1)..n
      BY <2>5
    <3>6. \A i \in (start + 1)..n : i \in rows <=> lines[i] \in {"row", "wait"}
      BY <2>5, <3>1, <3>3
    <3>7. \A i \in (start + 1)..n : i \in text <=> lines[i] \notin Skipped
      BY <2>5
    <3> HIDE DEF rows, text
    <3> QED BY <3>2, <3>3, <3>4, <3>5, <3>6, <3>7
  <2> HIDE DEF rows, text
  <2>7. /\ \A i \in 0..n : g[i] \in Seq(Act)
        /\ \A i \in 0..n : g[i] = IF i <= start THEN <<>> ELSE ReadLine(lines, g[i - 1], i)
    BY <2>4 DEF ReadTo
  <2> DEFINE A == {i \in Nat : start <= i /\ i <= n => ReadUpTo(rows, text, g[i], i)}
  <2>8. ReadUpTo(rows, text, g[start], start)
    <3>1. g[start] = <<>>
      BY <2>1, <2>3, <2>7
    <3>2. {r \in rows : r <= start} = {}
      BY <2>1, <2>6
    <3> QED BY <3>1, <3>2 DEF ReadUpTo
  <2>9. ASSUME NEW i \in Nat, start <= i, i + 1 <= n, ReadUpTo(rows, text, g[i], i)
        PROVE  ReadUpTo(rows, text, g[i + 1], i + 1)
    <3> DEFINE old == g[i]
    <3>1. /\ old \in Seq(Act) /\ i + 1 \in (start + 1)..n
          /\ g[i + 1] = ReadLine(lines, old, i + 1)
      <4>1. i \in 0..n /\ i + 1 \in 0..n /\ (i + 1) - 1 = i /\ ~(i + 1 <= start)
        BY <2>1, <2>3, <2>9
      <4>2. i + 1 \in (start + 1)..n
        BY <2>1, <2>3, <2>9
      <4> QED BY <2>7, <4>1, <4>2
    <3>2. ReadUpTo(rows, text, old, i)
      BY <2>9
    <3> HIDE DEF old
    <3>3. CASE lines[i + 1] \in {"row", "wait"}
      <4>1. i + 1 \in rows /\ i + 1 \in text
        BY <2>6, <3>1, <3>3 DEF Skipped
      <4>2. ReadUpTo(rows, text, Append(old, [row |-> i + 1, comment |-> <<i + 1>>]), i + 1)
        BY <2>6, <3>1, <3>2, <4>1, ReadRow
      <4> QED BY <3>1, <3>3, <4>2 DEF ReadLine
    <3>4. CASE lines[i + 1] \notin {"row", "wait"} /\ old # <<>> /\ lines[i + 1] \notin Skipped
      <4>1. i + 1 \notin rows /\ i + 1 \in text
        BY <2>6, <3>1, <3>4
      <4>2. ReadUpTo(rows, text, [old EXCEPT ![Len(old)].comment = Append(@, i + 1)], i + 1)
        BY <2>6, <3>1, <3>2, <3>4, <4>1, ReadText
      <4> QED BY <3>1, <3>4, <4>2 DEF ReadLine
    <3>5. CASE lines[i + 1] \notin {"row", "wait"} /\ (old = <<>> \/ lines[i + 1] \in Skipped)
      <4>1. g[i + 1] = old
        BY <3>1, <3>5 DEF ReadLine
      <4>2. i + 1 \notin rows
        BY <2>6, <3>1, <3>5
      <4>3. \A r \in rows : r <= i + 1 <=> r <= i
        BY <2>6, <4>2
      <4>4. {r \in rows : r <= i + 1} = {r \in rows : r <= i}
        BY <4>3, Zenon
      <4>5. CASE old = <<>>
        <5>1. DOMAIN old = {}
          BY <4>5
        <5> QED BY <3>2, <4>1, <4>4, <5>1 DEF ReadUpTo
      <4>6. CASE lines[i + 1] \in Skipped
        <5>1. i + 1 \notin text
          BY <2>6, <3>1, <4>6
        <5>2. \A j \in text : j <= i + 1 <=> j <= i
          BY <2>6, <5>1
        <5>3. ASSUME NEW k \in DOMAIN old
              PROVE  {j \in text : j <= i + 1 /\ old[k].row = RowOf(rows, j)}
                       = {j \in text : j <= i /\ old[k].row = RowOf(rows, j)}
          BY <5>2, Zenon
        <5> QED BY <3>2, <4>1, <4>4, <5>3 DEF ReadUpTo
      <4> QED BY <3>5, <4>5, <4>6
    <3> QED BY <3>3, <3>4, <3>5
  <2>10. Nat \subseteq A
    <3>1. 0 \in A
      <4>1. start # 0
        BY <2>1
      <4> QED BY <2>1, <4>1
    <3>2. ASSUME NEW i \in Nat, i \in A PROVE i + 1 \in A
      <4> SUFFICES ASSUME start <= i + 1, i + 1 <= n PROVE ReadUpTo(rows, text, g[i + 1], i + 1)
        OBVIOUS
      <4>1. CASE start = i + 1
        BY <2>8, <4>1
      <4>2. CASE start <= i
        <5>1. ReadUpTo(rows, text, g[i], i)
          BY <2>3, <3>2, <4>2
        <5> QED BY <2>9, <4>2, <5>1
      <4> QED BY <2>1, <4>1, <4>2
    <3> HIDE DEF A
    <3> QED BY <3>1, <3>2, NatSet
  <2>11. ReadUpTo(rows, text, acts, n)
    BY <2>3, <2>4, <2>10
  <2>12. {r \in rows : r <= n} = rows /\ \A j \in text : j <= n
    BY <2>6
  <2>13. ASSUME NEW k \in DOMAIN acts
         PROVE  {j \in text : j <= n /\ acts[k].row = RowOf(rows, j)}
                  = {j \in text : acts[k].row = RowOf(rows, j)}
    BY <2>12, Zenon
  <2> QED BY <2>11, <2>12, <2>13 DEF ReadUpTo
<1> QED BY <1>3, <1>4

\* What is read of the narrative under one heading ends where the next one
\* begins.
LEMMA NarrativeRead ==
  ASSUME NEW lines \in Seq(Line)
  PROVE  NarrativeIsReadInFull(lines)
<1> DEFINE at(heading) == First(Where(lines, {heading}), 0)
           contacts == {i \in Where(lines, {"contact"}) : i > at("next")}
           end == First(contacts, Len(lines) + 1)
           s == Section(lines)
           text == {i \in (at("now") + 1)..(end - 1) :
                      lines[i] # "blank" /\ i \notin {at("summary"), at("next")}}
<1> SUFFICES ASSUME 0 < at("now"), at("now") < at("summary"), at("summary") < at("next")
             PROVE  Partition(s, text)
  BY DEF NarrativeIsReadInFull
<1>1. Len(lines) \in Nat /\ DOMAIN lines = 1..Len(lines)
  OBVIOUS
<1>2. ASSUME NEW h
      PROVE  /\ at(h) \in Nat
             /\ at(h) # 0 => at(h) \in 1..Len(lines) /\ lines[at(h)] = h
             /\ \A i \in 1..Len(lines) : lines[i] = h => i >= at(h)
  <2>1. /\ IsFiniteSet(Where(lines, {h}))
        /\ \A i \in Where(lines, {h}) : i \in 1..Len(lines) /\ i \in Nat /\ lines[i] = h
        /\ \A i \in 1..Len(lines) : lines[i] = h => i \in Where(lines, {h})
    BY WhereIs
  <2>2. \/ at(h) = 0
        \/ at(h) \in Where(lines, {h})
    BY <2>1, FirstIs
  <2>3. \A i \in Where(lines, {h}) : at(h) <= i
    BY <2>1, FirstIs
  <2> HIDE DEF at
  <2>4. CASE at(h) = 0
    BY <1>1, <2>1, <2>3, <2>4
  <2>5. CASE at(h) \in Where(lines, {h})
    BY <1>1, <2>1, <2>3, <2>5
  <2> QED BY <2>2, <2>4, <2>5
<1>3. /\ at("now") \in Nat /\ at("summary") \in Nat /\ at("next") \in Nat
      /\ at("now") \in 1..Len(lines) /\ at("summary") \in 1..Len(lines) /\ at("next") \in 1..Len(lines)
      /\ lines[at("now")] = "now" /\ lines[at("summary")] = "summary" /\ lines[at("next")] = "next"
  <2>1. /\ at("now") \in Nat /\ at("summary") \in Nat /\ at("next") \in Nat
    BY <1>2
  <2> HIDE DEF at
  <2>2. at("now") # 0 /\ at("summary") # 0 /\ at("next") # 0
    BY <2>1
  <2> QED BY <1>2, <2>1, <2>2
<1>4. /\ end \in Nat /\ end <= Len(lines) + 1 /\ end > at("next")
      /\ end <= Len(lines) => lines[end] = "contact"
      /\ \A i \in 1..Len(lines) : lines[i] = "contact" /\ i > at("next") => i >= end
  <2>1. /\ IsFiniteSet(contacts)
        /\ \A i \in contacts : i \in 1..Len(lines) /\ i \in Nat /\ lines[i] = "contact" /\ i > at("next")
        /\ \A i \in 1..Len(lines) : lines[i] = "contact" /\ i > at("next") => i \in contacts
    <3>1. /\ IsFiniteSet(Where(lines, {"contact"}))
          /\ \A i \in Where(lines, {"contact"}) : i \in 1..Len(lines) /\ i \in Nat /\ lines[i] = "contact"
          /\ \A i \in 1..Len(lines) : lines[i] = "contact" => i \in Where(lines, {"contact"})
      BY WhereIs
    <3>2. IsFiniteSet(contacts)
      BY <3>1, FS_Subset
    <3> HIDE DEF at
    <3> QED BY <3>1, <3>2
  <2> HIDE DEF contacts, at
  <2>2. /\ (contacts = {} /\ end = Len(lines) + 1) \/ end \in contacts
        /\ \A i \in contacts : end <= i
    BY <2>1, FirstIs, <1>1
  <2> HIDE DEF end
  <2>3. CASE contacts = {} /\ end = Len(lines) + 1
    BY <1>1, <1>3, <2>1, <2>3
  <2>4. CASE end \in contacts
    BY <1>1, <1>3, <2>1, <2>2, <2>4
  <2> QED BY <2>2, <2>3, <2>4
<1>5. ASSUME NEW from, NEW to, at(from) # 0
      PROVE  SectionText(lines, from, to)
               = {i \in 1..Len(lines) : /\ i > at(from) /\ lines[i] # "blank"
                                        /\ \A j \in (at(from) + 1)..i : lines[j] # to}
  <2>1. SectionText(lines, from, to)
          = {i \in DOMAIN lines : /\ at(from) # 0 /\ i > at(from) /\ lines[i] # "blank"
                                  /\ \A j \in (at(from) + 1)..i : lines[j] # to}
    BY DEF SectionText
  <2> HIDE DEF at
  <2> QED BY <1>1, <1>5, <2>1
<1>6. s = [now |-> SectionText(lines, "now", "summary"),
           summary |-> SectionText(lines, "summary", "next"),
           next |-> SectionText(lines, "next", "contact")]
  BY DEF Section
<1> HIDE DEF at, s, end
<1>7. s.now = {i \in 1..Len(lines) : at("now") < i /\ i < at("summary") /\ lines[i] # "blank"}
  <2>1. ASSUME NEW i \in 1..Len(lines), i > at("now")
        PROVE  (\A j \in (at("now") + 1)..i : lines[j] # "summary") <=> i < at("summary")
    BY <1>2, <1>3, <2>1
  <2>2. s.now = {i \in 1..Len(lines) : /\ i > at("now") /\ lines[i] # "blank"
                                       /\ \A j \in (at("now") + 1)..i : lines[j] # "summary"}
    BY <1>3, <1>5, <1>6
  <2> QED BY <1>3, <2>1, <2>2
<1>8. s.summary = {i \in 1..Len(lines) : at("summary") < i /\ i < at("next") /\ lines[i] # "blank"}
  <2>1. ASSUME NEW i \in 1..Len(lines), i > at("summary")
        PROVE  (\A j \in (at("summary") + 1)..i : lines[j] # "next") <=> i < at("next")
    BY <1>2, <1>3, <2>1
  <2>2. s.summary = {i \in 1..Len(lines) : /\ i > at("summary") /\ lines[i] # "blank"
                                           /\ \A j \in (at("summary") + 1)..i : lines[j] # "next"}
    BY <1>3, <1>5, <1>6
  <2> QED BY <1>3, <2>1, <2>2
<1>9. s.next = {i \in 1..Len(lines) : at("next") < i /\ i < end /\ lines[i] # "blank"}
  <2>1. ASSUME NEW i \in 1..Len(lines), i > at("next")
        PROVE  (\A j \in (at("next") + 1)..i : lines[j] # "contact") <=> i < end
    BY <1>3, <1>4, <2>1
  <2>2. s.next = {i \in 1..Len(lines) : /\ i > at("next") /\ lines[i] # "blank"
                                        /\ \A j \in (at("next") + 1)..i : lines[j] # "contact"}
    BY <1>3, <1>5, <1>6
  <2> QED BY <1>3, <2>1, <2>2
<1>10. DOMAIN s = {"now", "summary", "next"}
  BY <1>6
<1>11. s.now \union s.summary \union s.next = text
  <2>1. \A i \in (at("now") + 1)..(end - 1) : i \in 1..Len(lines)
    BY <1>1, <1>3, <1>4
  <2>2. ASSUME NEW i \in 1..Len(lines), lines[i] # "blank"
        PROVE  (\/ at("now") < i /\ i < at("summary")
                \/ at("summary") < i /\ i < at("next")
                \/ at("next") < i /\ i < end)
                 <=> i \in (at("now") + 1)..(end - 1) /\ i \notin {at("summary"), at("next")}
    BY <1>1, <1>3, <1>4
  <2>3. s.now \union s.summary \union s.next \subseteq text
    BY <1>7, <1>8, <1>9, <2>2
  <2>4. text \subseteq s.now \union s.summary \union s.next
    BY <1>7, <1>8, <1>9, <2>1, <2>2
  <2> QED BY <2>3, <2>4
<1>12. UNION {s[f] : f \in DOMAIN s} = s.now \union s.summary \union s.next
  BY <1>10
<1>13. /\ s.now \intersect s.summary = {}
       /\ s.now \intersect s.next = {}
       /\ s.summary \intersect s.next = {}
  BY <1>3, <1>7, <1>8, <1>9
<1> QED BY <1>10, <1>11, <1>12, <1>13 DEF Partition

\* Of the activity log every row and of the narrative every line of text is
\* read, and nothing is read twice; of the log's comments, the lines after a
\* row that hold no word of the column titles (ddr-parser.ts:147, :211).
THEOREM TextReadInFull == Spec => []TextIsReadInFull
<1>1. LinesInv => TextIsReadInFull
  BY LogRead, NarrativeRead DEF LinesInv, TextIsReadInFull
<1> QED BY <1>1, LinesInvInvariant, PTL

-----------------------------------------------------------------------------
(***************************************************************************)
(* The layout of a page.                                                   *)
(***************************************************************************)
\* What is placed on a page: within a line every item has an x of its own,
\* and is a little off the base line.
Item == [line : 1..PrintedLines, x : Columns, len : 1..MaxLen, y : Int]
IsPage(S) ==
  /\ IsFiniteSet(S)
  /\ \A i \in S : /\ i.line \in Nat /\ i.x \in Nat /\ i.len \in Nat /\ i.y \in Int
                  /\ -1 <= i.y + 6 * i.line /\ i.y + 6 * i.line <= 1
  /\ \A i, j \in S : i.line = j.line /\ i.x = j.x => i = j
PageInv ==
  subject = "page" =>
    /\ input \in Seq(Item) /\ IsPage(ToSet(input))
    /\ input # <<>> => \A i \in ToSet(input) :
         \/ i.line < Last(input).line
         \/ i.line = Last(input).line /\ i.x <= Last(input).x

\* What is placed is a page.
LEMMA PageInvInvariant == Spec => []PageInv
<1>0. \A i \in Item : i.line \in Nat /\ i.x \in Nat
  <2>1. 1..PrintedLines \subseteq Nat /\ Columns \subseteq Nat
    BY PageAssumption
  <2> QED BY <2>1 DEF Item
<1>1. Init => PageInv
  <2>1. ToSet(<<>>) = {} /\ <<>> \in Seq(Item)
    BY DEF ToSet
  <2>2. IsPage({})
    BY FS_EmptySet DEF IsPage
  <2>3. Init /\ subject = "page" => input = <<>>
    BY DEF Init
  <2> QED BY <2>1, <2>2, <2>3 DEF PageInv
<1>2. PageInv /\ [Next]_vars => PageInv'
  <2> SUFFICES ASSUME PageInv, [Next]_vars, subject' = "page"
               PROVE  PageInv'
    BY DEF PageInv
  <2>1. CASE PlaceText
    <3>1. PICK line \in 1..PrintedLines, x \in Columns, len \in 1..MaxLen, off \in {-1, 1} :
            /\ input # <<>> => \/ line > Last(input).line
                               \/ line = Last(input).line /\ x > Last(input).x
            /\ input' = Append(input, [line |-> line, x |-> x, len |-> len, y |-> off - 6 * line])
      BY <2>1 DEF PlaceText
    <3>2. /\ input \in Seq(Item) /\ IsPage(ToSet(input))
          /\ input # <<>> => \A i \in ToSet(input) :
               \/ i.line < Last(input).line
               \/ i.line = Last(input).line /\ i.x <= Last(input).x
      BY <2>1 DEF PlaceText, PageInv
    <3> DEFINE new == [line |-> line, x |-> x, len |-> len, y |-> off - 6 * line]
               S == ToSet(input)
    <3>3. line \in Nat /\ x \in Nat /\ len \in Nat /\ off - 6 * line \in Int
      BY PageAssumption
    <3>4. new \in Item
      BY <3>3 DEF Item
    <3>5. input' \in Seq(Item) /\ input' # <<>> /\ Last(input') = new
      BY <3>1, <3>2, <3>4 DEF Last
    <3>6. ToSet(input') = S \union {new}
      BY <3>1, <3>2, <3>4 DEF ToSet
    <3>7. /\ new.line = line /\ new.x = x /\ new.len = len
          /\ new.y \in Int /\ -1 <= new.y + 6 * line /\ new.y + 6 * line <= 1
      BY <3>3
    <3> HIDE DEF new
    <3>8. \A i \in S : i.line < line \/ (i.line = line /\ i.x < x)
      <4> SUFFICES ASSUME NEW i \in S PROVE i.line < line \/ (i.line = line /\ i.x < x)
        OBVIOUS
      <4>0. PICK p \in DOMAIN input : i = input[p]
        BY DEF ToSet
      <4>1. input # <<>> /\ i \in Item
        BY <3>2, <4>0
      <4>2. Last(input) \in Item
        <5>1. Len(input) \in DOMAIN input
          BY <3>2, <4>1
        <5> QED BY <3>2, <5>1 DEF Last
      <4>3. /\ Last(input).line \in Nat /\ Last(input).x \in Nat
            /\ i.line \in Nat /\ i.x \in Nat
        BY <1>0, <4>1, <4>2
      <4>4. /\ i.line < Last(input).line \/ (i.line = Last(input).line /\ i.x <= Last(input).x)
            /\ line > Last(input).line \/ (line = Last(input).line /\ x > Last(input).x)
        BY <3>1, <3>2, <4>1
      <4> QED BY <3>3, <4>3, <4>4
    <3>9. IsPage(S \union {new})
      <4>1. IsFiniteSet(S \union {new})
        BY <3>2, FS_AddElement DEF IsPage
      <4>2. \A i, j \in S \union {new} : i.line = j.line /\ i.x = j.x => i = j
        <5>1. \A i \in S : i.line \in Nat /\ i.x \in Nat
          BY <3>2 DEF IsPage
        <5>2. \A i \in S : ~(i.line = line /\ i.x = x)
          BY <3>3, <3>8, <5>1
        <5> QED BY <3>2, <3>7, <5>2 DEF IsPage
      <4> QED BY <3>2, <3>3, <3>7, <4>1, <4>2 DEF IsPage
    <3>10. \A i \in S \union {new} :
             i.line < new.line \/ (i.line = new.line /\ i.x <= new.x)
      <4>1. \A i \in S : i.line \in Nat /\ i.x \in Nat
        BY <3>2 DEF IsPage
      <4> QED BY <3>3, <3>7, <3>8, <4>1
    <3> QED BY <3>5, <3>6, <3>9, <3>10 DEF PageInv
  <2>2. CASE UNCHANGED vars
    BY <2>2 DEF vars, PageInv
  <2> QED BY <2>1, <2>2
          DEF Next, RecordPoint, RecordRun, WriteLine, Edit, Export, Import, Exchange
<1> QED BY <1>1, <1>2, PTL DEF Spec

\* The part of a page from a line on, and the row that is taken of it.
Part(S, items) ==
  /\ S \subseteq items
  /\ \A i \in S, j \in items : j.line >= i.line => j \in S
IsPrinted(R, items) == \E l \in {i.line : i \in items} : R = {i \in items : i.line = l}

\* A row is a line: the items of the first line that is left are within 3 of
\* the highest, and those of the other lines are not.
LEMMA RowIsLine ==
  ASSUME NEW items, IsPage(items), NEW S, Part(S, items), S # {}
  PROVE  /\ IsPrinted(S \ Lower(S), items) /\ Part(Lower(S), items)
         /\ Lower(S) \subseteq S /\ Lower(S) # S
         /\ \A i \in S \ Lower(S), j \in Lower(S) : i.line < j.line
<1>1. /\ S \subseteq items /\ IsFiniteSet(S)
      /\ \A i \in items : /\ i.line \in Nat /\ i.y \in Int
                          /\ -1 <= i.y + 6 * i.line /\ i.y + 6 * i.line <= 1
  <2>1. S \subseteq items /\ IsFiniteSet(items)
    BY DEF Part, IsPage
  <2>2. IsFiniteSet(S)
    BY <2>1, FS_Subset
  <2> QED BY <2>1, <2>2 DEF IsPage
<1>2. PICK first \in S : \A i \in S : first.line <= i.line
  <2> DEFINE line == [i \in S |-> i.line]
             L == {line[i] : i \in S}
  <2>1. L \in SUBSET Int /\ L # {}
    BY <1>1
  <2>2. IsFiniteSet(L)
    <3> HIDE DEF line
    <3> QED BY <1>1, Image
  <2>3. Min(L) \in L /\ \A l \in L : Min(L) <= l
    <3> HIDE DEF L
    <3> QED BY <2>1, <2>2, MinMax
  <2> QED BY <2>3
<1>3. \A i \in S : i \in Lower(S) <=> i.line # first.line
  <2> SUFFICES ASSUME NEW i \in S PROVE i \in Lower(S) <=> i.line # first.line
    OBVIOUS
  <2>1. ASSUME i.line = first.line, NEW top \in S PROVE ~(top.y - i.y > 3)
    BY <1>1, <1>2, <2>1
  <2>2. ASSUME i.line # first.line PROVE first.y - i.y > 3
    <3>1. /\ i.line \in Nat /\ i.y \in Int /\ first.line \in Nat /\ first.y \in Int
          /\ i.y + 6 * i.line <= 1 /\ -1 <= first.y + 6 * first.line
          /\ first.line <= i.line
      BY <1>1, <1>2
    <3> QED BY <2>2, <3>1
  <2> QED BY <1>2, <2>1, <2>2 DEF Lower
<1>4. Lower(S) \subseteq S
  BY DEF Lower
<1>5. \A i \in items : i.line = first.line => i \in S
  BY <1>1, <1>2 DEF Part
<1>6. S \ Lower(S) = {i \in items : i.line = first.line}
  BY <1>1, <1>3, <1>5
<1>7. IsPrinted(S \ Lower(S), items)
  BY <1>1, <1>2, <1>6 DEF IsPrinted
<1>8. Part(Lower(S), items)
  <2> SUFFICES ASSUME NEW i \in Lower(S), NEW j \in items, j.line >= i.line
               PROVE  j \in Lower(S)
    BY <1>1, <1>4 DEF Part
  <2>1. j \in S /\ i \in S
    BY <1>4 DEF Part
  <2>2. first.line < i.line /\ j.line # first.line
    BY <1>1, <1>2, <1>3, <2>1
  <2> QED BY <1>3, <2>1, <2>2
<1>9. \A i \in S \ Lower(S), j \in Lower(S) : i.line < j.line
  BY <1>1, <1>2, <1>3, <1>4
<1> QED BY <1>2, <1>3, <1>4, <1>7, <1>8, <1>9

\* What is left after each row, and the layout that is made of it.
IsLeft(left, items) ==
  /\ left \in [0..Cardinality(items) -> SUBSET items] /\ left[0] = items
  /\ \A k \in 1..Cardinality(items) : left[k] = Lower(left[k - 1])
RowsOf(left, items) == {k \in 1..Cardinality(items) : left[k - 1] # {}}

LEMMA LayoutIs ==
  ASSUME NEW items, IsFiniteSet(items)
  PROVE  \E left : /\ IsLeft(left, items)
                   /\ Layout(items) = [k \in RowsOf(left, items) |->
                                         LineOf(left[k - 1] \ left[k])]
<1> DEFINE n == Cardinality(items)
           F(f) == [k \in 0..n |-> IF k = 0 THEN items ELSE Lower(f[k - 1])]
           left == CHOOSE f : f = F(f)
<1>1. n \in Nat
  BY FS_CardinalityType
<1> HIDE DEF n
<1>2. PICK h \in [0..n -> SUBSET items] :
        h[0] = items /\ \A k \in 1..n : h[k] = Lower(h[k - 1])
  <2> DEFINE step == [k \in 1..n |-> [S \in SUBSET items |-> Lower(S)]]
  <2>1. step \in [1..n -> [SUBSET items -> SUBSET items]]
    BY DEF Lower
  <2>2. \A k \in 1..n, S \in SUBSET items : step[k][S] = Lower(S)
    OBVIOUS
  <2> HIDE DEF step
  <2>3. items \in SUBSET items
    OBVIOUS
  <2>4. PICK h \in [0..n -> SUBSET items] : h[0] = items /\ \A k \in 1..n : h[k] = step[k][h[k - 1]]
    <3> DEFINE U == SUBSET items
    <3> HIDE DEF U
    <3>1. items \in U /\ step \in [1..n -> [U -> U]]
      BY <2>1, <2>3 DEF U
    <3>2. \E h \in [0..n -> U] : h[0] = items /\ \A k \in 1..n : h[k] = step[k][h[k - 1]]
      BY <1>1, <3>1, Recursion
    <3> QED BY <3>2 DEF U
  <2>5. \A k \in 1..n : h[k] = Lower(h[k - 1])
    <3> SUFFICES ASSUME NEW k \in 1..n PROVE h[k] = Lower(h[k - 1])
      OBVIOUS
    <3>1. h[k - 1] \in SUBSET items
      BY <1>1, <2>4
    <3> QED BY <2>2, <2>4, <3>1
  <2> QED BY <2>4, <2>5
<1>3. h = F(h)
  <2>1. \A k \in 0..n : h[k] = IF k = 0 THEN items ELSE Lower(h[k - 1])
    BY <1>1, <1>2
  <2> QED BY <1>2, <2>1
<1>4. left = F(left)
  <2> HIDE DEF F
  <2> QED BY <1>3
<1>5. Layout(items) = [k \in {k \in 1..n : left[k - 1] # {}} |-> LineOf(left[k - 1] \ left[k])]
  BY DEF Layout, n
<1> HIDE DEF left
<1>6. /\ left = [k \in 0..n |-> left[k]] /\ left[0] = items
      /\ \A k \in 1..n : left[k] = Lower(left[k - 1])
  <2>1. left = [k \in 0..n |-> IF k = 0 THEN items ELSE Lower(left[k - 1])]
    BY <1>4
  <2>2. 0 \in 0..n /\ \A k \in 1..n : k \in 0..n /\ k # 0
    BY <1>1
  <2>3. /\ left[0] = items
        /\ \A k \in 1..n : left[k] = Lower(left[k - 1])
    BY <2>1, <2>2
  <2>4. left = [k \in 0..n |-> left[k]]
    BY <2>1
  <2> QED BY <2>3, <2>4
<1>7. \A k \in 0..n : left[k] \in SUBSET items
  <2> DEFINE A == {k \in Nat : k \in 0..n => left[k] \in SUBSET items}
  <2>1. 0 \in A
    BY <1>6
  <2>2. ASSUME NEW k \in Nat, k \in A PROVE k + 1 \in A
    <3> SUFFICES ASSUME k + 1 \in 0..n PROVE left[k + 1] \in SUBSET items
      OBVIOUS
    <3>1. left[k + 1] = Lower(left[k]) /\ left[k] \in SUBSET items
      <4>1. k + 1 \in 1..n /\ (k + 1) - 1 = k /\ k \in 0..n
        BY <1>1
      <4> QED BY <1>6, <2>2, <4>1
    <3> QED BY <3>1 DEF Lower
  <2>3. Nat \subseteq A
    <3> HIDE DEF A
    <3> QED BY <2>1, <2>2, NatSet
  <2> QED BY <1>1, <2>3
<1>8. IsLeft(left, items)
  <2>1. left \in [0..n -> SUBSET items]
    BY <1>6, <1>7
  <2> QED BY <1>6, <2>1 DEF IsLeft, n
<1> QED BY <1>5, <1>8 DEF RowsOf, n

\* Every row is a line, every item is in a row, and the rows come in the
\* order of the lines.
LEMMA RowsOfPage ==
  ASSUME NEW items, IsPage(items), NEW left, IsLeft(left, items)
  PROVE  /\ \A k \in RowsOf(left, items) : IsPrinted(left[k - 1] \ left[k], items)
         /\ \A i \in items : \E k \in RowsOf(left, items) : i \in left[k - 1] \ left[k]
         /\ \A r, s \in RowsOf(left, items) : r < s =>
              \A i \in left[r - 1] \ left[r], j \in left[s - 1] \ left[s] : i.line < j.line
<1> DEFINE n == Cardinality(items)
<1>1. IsFiniteSet(items) /\ n \in Nat
  BY FS_CardinalityType DEF IsPage
<1>2. /\ \A k \in 0..n : left[k] \subseteq items
      /\ left[0] = items
      /\ \A k \in 1..n : left[k] = Lower(left[k - 1])
  BY DEF IsLeft
<1>3. RowsOf(left, items) = {k \in 1..n : left[k - 1] # {}}
  BY DEF RowsOf
<1>4. \A T \in SUBSET items : /\ IsFiniteSet(T) /\ Cardinality(T) \in Nat
                              /\ Cardinality(T) = 0 => T = {}
  <2> TAKE T \in SUBSET items
  <2>1. IsFiniteSet(T)
    BY <1>1, FS_Subset
  <2> QED BY <2>1, FS_CardinalityType, FS_EmptySet
<1>5. Cardinality(items) = n
  OBVIOUS
<1> HIDE DEF n
<1>6. \A k \in 0..n : Part(left[k], items) /\ Cardinality(left[k]) <= n - k
  <2> DEFINE A == {k \in Nat : k \in 0..n => Part(left[k], items) /\ Cardinality(left[k]) <= n - k}
  <2>1. 0 \in A
    BY <1>1, <1>2, <1>5 DEF Part
  <2>2. ASSUME NEW k \in Nat, k \in A PROVE k + 1 \in A
    <3> SUFFICES ASSUME k + 1 \in 0..n
                 PROVE  Part(left[k + 1], items) /\ Cardinality(left[k + 1]) <= n - (k + 1)
      OBVIOUS
    <3>1. k \in 0..n /\ k + 1 \in 1..n /\ (k + 1) - 1 = k
      BY <1>1
    <3>2. left[k + 1] = Lower(left[k]) /\ left[k] \subseteq items
      BY <1>2, <3>1
    <3>3. Part(left[k], items) /\ Cardinality(left[k]) <= n - k
      BY <2>2, <3>1
    <3>4. CASE left[k] = {}
      <4>1. left[k + 1] = {}
        BY <3>2, <3>4 DEF Lower
      <4>2. Cardinality(left[k + 1]) = 0
        BY <4>1, FS_EmptySet
      <4> QED BY <1>1, <3>1, <4>1, <4>2 DEF Part
    <3>5. CASE left[k] # {}
      <4>1. /\ Part(Lower(left[k]), items)
            /\ Lower(left[k]) \subseteq left[k] /\ Lower(left[k]) # left[k]
        BY <3>3, <3>5, RowIsLine
      <4>2. IsFiniteSet(left[k]) /\ Cardinality(left[k]) \in Nat
        BY <1>4, <3>2
      <4>3. /\ Cardinality(Lower(left[k])) <= Cardinality(left[k])
            /\ Cardinality(Lower(left[k])) # Cardinality(left[k])
        BY <4>1, <4>2, FS_Subset
      <4>4. Cardinality(Lower(left[k])) \in Nat
        BY <1>4, <3>2, <4>1
      <4> QED BY <1>1, <3>1, <3>2, <3>3, <4>1, <4>2, <4>3, <4>4
    <3> QED BY <3>4, <3>5
  <2>3. Nat \subseteq A
    <3> HIDE DEF A
    <3> QED BY <2>1, <2>2, NatSet
  <2> QED BY <1>1, <2>3
<1>7. left[n] = {}
  <2>1. n \in 0..n
    BY <1>1
  <2>2. Cardinality(left[n]) <= n - n /\ left[n] \in SUBSET items
    BY <1>2, <1>6, <2>1
  <2> QED BY <1>1, <1>4, <2>2
<1>8. \A k \in 1..n : left[k] \subseteq left[k - 1]
  BY <1>2 DEF Lower
<1>9. ASSUME NEW m \in 0..n, NEW k \in 0..m PROVE left[m] \subseteq left[k]
  <2> DEFINE A == {d \in Nat : k + d \in 0..n => left[k + d] \subseteq left[k]}
  <2>0. k \in Nat
    BY <1>1
  <2>1. 0 \in A
    BY <2>0
  <2>2. ASSUME NEW d \in Nat, d \in A PROVE d + 1 \in A
    <3> SUFFICES ASSUME k + (d + 1) \in 0..n PROVE left[k + (d + 1)] \subseteq left[k]
      OBVIOUS
    <3>1. k + d \in 0..n /\ k + (d + 1) \in 1..n /\ (k + (d + 1)) - 1 = k + d
      BY <1>1, <2>0
    <3> QED BY <1>8, <2>2, <3>1
  <2>3. Nat \subseteq A
    <3> HIDE DEF A
    <3> QED BY <2>1, <2>2, NatSet
  <2>4. m - k \in Nat /\ k + (m - k) = m
    BY <1>1, <2>0
  <2> QED BY <2>3, <2>4
<1>10. ASSUME NEW k \in RowsOf(left, items) PROVE IsPrinted(left[k - 1] \ left[k], items)
  <2>1. k \in 1..n /\ k - 1 \in 0..n /\ left[k - 1] # {}
    BY <1>1, <1>3
  <2> QED BY <1>2, <1>6, <2>1, RowIsLine
<1>11. ASSUME NEW i \in items PROVE \E k \in RowsOf(left, items) : i \in left[k - 1] \ left[k]
  <2> DEFINE A == {m \in Nat : m \in 0..n =>
                     i \in left[m] \/ \E k \in 1..n : i \in left[k - 1] \ left[k]}
  <2>1. 0 \in A
    BY <1>2
  <2>2. ASSUME NEW m \in Nat, m \in A PROVE m + 1 \in A
    <3> SUFFICES ASSUME m + 1 \in 0..n
                 PROVE  i \in left[m + 1] \/ \E k \in 1..n : i \in left[k - 1] \ left[k]
      OBVIOUS
    <3>1. m \in 0..n /\ m + 1 \in 1..n /\ (m + 1) - 1 = m
      BY <1>1
    <3> QED BY <2>2, <3>1
  <2>3. Nat \subseteq A
    <3> HIDE DEF A
    <3> QED BY <2>1, <2>2, NatSet
  <2>4. PICK k \in 1..n : i \in left[k - 1] \ left[k]
    <3>1. n \in A /\ n \in 0..n
      BY <1>1, <2>3
    <3> QED BY <1>7, <3>1
  <2> QED BY <1>3, <2>4
<1>12. ASSUME NEW r \in RowsOf(left, items), NEW s \in RowsOf(left, items), r < s,
              NEW i \in left[r - 1] \ left[r], NEW j \in left[s - 1] \ left[s]
       PROVE  i.line < j.line
  <2>1. /\ r \in 1..n /\ s \in 1..n /\ r - 1 \in 0..n /\ s - 1 \in 0..n /\ r \in 0..(s - 1)
        /\ left[r - 1] # {}
    BY <1>1, <1>3, <1>12
  <2>2. j \in left[r]
    BY <1>9, <2>1
  <2>3. left[r] = Lower(left[r - 1]) /\ Part(left[r - 1], items)
    BY <1>2, <1>6, <2>1
  <2>4. \A a \in left[r - 1] \ Lower(left[r - 1]), b \in Lower(left[r - 1]) : a.line < b.line
    BY <2>1, <2>3, RowIsLine
  <2> QED BY <2>2, <2>3, <2>4
<1> QED BY <1>10, <1>11, <1>12

\* The items of one line, each with an x of its own.
IsLine(R) ==
  /\ IsFiniteSet(R) /\ \A i \in R : i.x \in Nat /\ i.len \in Nat /\ i.y \in Int
  /\ \A i, j \in R : i.x = j.x => i = j
LeftItems(R, x) == {j \in R : j.x < x}

\* The k-th item of a line has k - 1 to its left, and every item is the k-th
\* for one k.
LEMMA NthIs ==
  ASSUME NEW R, IsLine(R), NEW k \in 1..Cardinality(R)
  PROVE  Nth(R, k) \in R /\ Cardinality(LeftItems(R, Nth(R, k).x)) = k - 1
<1> DEFINE v == [i \in R |-> i.x]
           x == Sorted(v, k)
<1>1. IsList(v) /\ k \in 1..Cardinality(DOMAIN v) /\ k \in Nat
  <2>1. Cardinality(R) \in Nat
    BY FS_CardinalityType DEF IsLine
  <2> QED BY <2>1 DEF IsList, IsLine
<1>2. x \in Int /\ IsKth(v, k, x)
  <2> HIDE DEF v
  <2> QED BY <1>1, SortedIsKth
<1> HIDE DEF x
<1>3. PICK i \in R : i.x = x
  BY <1>2 DEF IsKth
<1>4. Below(v, x) = LeftItems(R, x) /\ AtOrBelow(v, x) = LeftItems(R, x) \union {i}
  <2>1. \A j \in R : (j.x <= x <=> j.x < x \/ j = i)
    BY <1>3 DEF IsLine
  <2> QED BY <1>3, <2>1 DEF Below, AtOrBelow, LeftItems
<1>5. IsFiniteSet(LeftItems(R, x)) /\ i \notin LeftItems(R, x)
  <2>1. LeftItems(R, x) \subseteq R /\ IsFiniteSet(R)
    BY DEF LeftItems, IsLine
  <2>2. i \notin LeftItems(R, x)
    BY <1>2, <1>3 DEF LeftItems
  <2> QED BY <2>1, <2>2, FS_Subset
<1>6. Cardinality(LeftItems(R, i.x)) = k - 1
  <2>1. Cardinality(LeftItems(R, x) \union {i}) = Cardinality(LeftItems(R, x)) + 1
    BY <1>5, FS_AddElement
  <2>2. Cardinality(LeftItems(R, x)) \in Nat
    BY <1>5, FS_CardinalityType
  <2>3. /\ Cardinality(LeftItems(R, x)) < k
        /\ k <= Cardinality(LeftItems(R, x) \union {i})
    BY <1>2, <1>4 DEF IsKth
  <2> QED BY <1>1, <1>3, <2>1, <2>2, <2>3
<1>7. \A a \in R : {j \in R : LeftOf(j, a)} = LeftItems(R, a.x)
  <2>1. \A a, j \in R : ~(j.x = a.x /\ j.y > a.y)
    BY DEF IsLine
  <2> QED BY <2>1 DEF LeftOf, LeftItems
<1>8. Nth(R, k) = CHOOSE a \in R : Cardinality({j \in R : LeftOf(j, a)}) = k - 1
  BY DEF Nth
<1>9. \E a \in R : Cardinality({j \in R : LeftOf(j, a)}) = k - 1
  BY <1>6, <1>7
<1>10. Nth(R, k) \in R /\ Cardinality({j \in R : LeftOf(j, Nth(R, k))}) = k - 1
  BY <1>8, <1>9
<1> QED BY <1>7, <1>10

LEMMA NthAll ==
  ASSUME NEW R, IsLine(R)
  PROVE  /\ \A k, l \in 1..Cardinality(R) : k < l => Nth(R, k).x < Nth(R, l).x
         /\ \A i \in R : \E k \in 1..Cardinality(R) : i = Nth(R, k)
<1> DEFINE n == Cardinality(R)
<1>1. n \in Nat /\ IsFiniteSet(R) /\ \A i \in R : i.x \in Nat
  BY FS_CardinalityType DEF IsLine
<1>2. \A k \in 1..n : Nth(R, k) \in R /\ Cardinality(LeftItems(R, Nth(R, k).x)) = k - 1
  BY NthIs
<1>3. \A i \in R : IsFiniteSet(LeftItems(R, i.x)) /\ Cardinality(LeftItems(R, i.x)) \in Nat
  <2> TAKE i \in R
  <2>1. LeftItems(R, i.x) \in SUBSET R
    BY DEF LeftItems
  <2>2. IsFiniteSet(LeftItems(R, i.x))
    BY <1>1, <2>1, FS_Subset
  <2> QED BY <2>2, FS_CardinalityType
<1>4. ASSUME NEW i \in R, NEW j \in R, i.x < j.x
      PROVE  Cardinality(LeftItems(R, i.x)) < Cardinality(LeftItems(R, j.x))
  <2>1. LeftItems(R, i.x) \union {i} \subseteq LeftItems(R, j.x) /\ i \notin LeftItems(R, i.x)
    BY <1>1, <1>4 DEF LeftItems
  <2>2. Cardinality(LeftItems(R, i.x) \union {i}) = Cardinality(LeftItems(R, i.x)) + 1
    BY <1>3, <2>1, FS_AddElement
  <2>3. Cardinality(LeftItems(R, i.x) \union {i}) <= Cardinality(LeftItems(R, j.x))
    BY <1>3, <2>1, FS_Subset
  <2> QED BY <1>3, <2>2, <2>3
<1>5. ASSUME NEW i \in R PROVE \E k \in 1..n : i = Nth(R, k)
  <2> DEFINE k == Cardinality(LeftItems(R, i.x)) + 1
  <2>1. LeftItems(R, i.x) \union {i} \subseteq R /\ i \notin LeftItems(R, i.x)
    BY <1>1 DEF LeftItems
  <2>2. Cardinality(LeftItems(R, i.x) \union {i}) = k
    BY <1>3, <2>1, FS_AddElement
  <2>3. Cardinality(LeftItems(R, i.x) \union {i}) <= n
    BY <1>1, <2>1, FS_Subset
  <2>4. k \in 1..n /\ Cardinality(LeftItems(R, i.x)) = k - 1
    BY <1>1, <1>3, <2>2, <2>3
  <2> HIDE DEF k, n
  <2>5. Nth(R, k) \in R /\ Cardinality(LeftItems(R, Nth(R, k).x)) = k - 1
    BY <1>2, <2>4
  <2>6. ~(i.x < Nth(R, k).x) /\ ~(Nth(R, k).x < i.x)
    BY <1>3, <1>4, <2>4, <2>5
  <2>7. i = Nth(R, k)
    BY <1>1, <2>5, <2>6 DEF IsLine
  <2> QED BY <2>4, <2>7
<1>6. ASSUME NEW k \in 1..n, NEW l \in 1..n, k < l PROVE Nth(R, k).x < Nth(R, l).x
  <2>1. /\ Nth(R, k) \in R /\ Cardinality(LeftItems(R, Nth(R, k).x)) = k - 1
        /\ Nth(R, l) \in R /\ Cardinality(LeftItems(R, Nth(R, l).x)) = l - 1
    BY <1>2
  <2>2. k \in Int /\ l \in Int
    BY <1>1
  <2>3. Nth(R, k).x # Nth(R, l).x
    BY <1>6, <2>1, <2>2
  <2>4. ~(Nth(R, l).x < Nth(R, k).x)
    <3>1. ASSUME Nth(R, l).x < Nth(R, k).x PROVE l - 1 < k - 1
      BY <1>4, <2>1, <3>1
    <3> QED BY <1>6, <2>2, <3>1
  <2> QED BY <1>1, <2>1, <2>3, <2>4
<1> QED BY <1>5, <1>6

\* The items of a line with their columns.
Placed(R) == [at : Nat, len : Nat, item : R]
Clear(R) == \A i, j \in R : i.x < j.x => i.x + i.len <= j.x

\* Each item of a line is written once, left to right, and if none runs into
\* the next, at its column.
LEMMA LineIs ==
  ASSUME NEW R, IsLine(R)
  PROVE  /\ LineOf(R) \in Seq(Placed(R)) /\ Len(LineOf(R)) = Cardinality(R)
         /\ \A k \in 1..Cardinality(R) : LET c == LineOf(R)[k] IN
              /\ c.item = Nth(R, k) /\ c.len = Nth(R, k).len
              /\ Clear(R) => c.at = Nth(R, k).x
<1> DEFINE n == Cardinality(R)
           F(f) == [k \in 0..n |-> IF k = 0 THEN 0 ELSE Max({Nth(R, k).x, f[k - 1]}) + Nth(R, k).len]
           length == CHOOSE f : f = F(f)
           cell(k) == [at |-> Max({Nth(R, k).x, length[k - 1]}), len |-> Nth(R, k).len,
                       item |-> Nth(R, k)]
<1>1. n \in Nat
  BY FS_CardinalityType DEF IsLine
<1>2. \A k \in 1..n : Nth(R, k) \in R /\ Nth(R, k).x \in Nat /\ Nth(R, k).len \in Nat
  BY NthIs DEF IsLine
<1>3. \A a, b \in Nat : /\ Max({a, b}) \in Nat
                        /\ b <= a => Max({a, b}) = a
  <2> TAKE a, b \in Nat
  <2>1. {a, b} \in SUBSET Int /\ {a, b} # {}
    OBVIOUS
  <2>2. IsFiniteSet({a, b})
    BY FinitePair
  <2>3. Max({a, b}) \in {a, b} /\ \A y \in {a, b} : Max({a, b}) >= y
    BY <2>1, <2>2, MinMax
  <2> QED BY <2>3
<1>4. LineOf(R) = [k \in 1..n |-> cell(k)]
  BY DEF LineOf
<1> HIDE DEF n
<1>5. PICK h \in [0..n -> Nat] :
        h[0] = 0 /\ \A k \in 1..n : h[k] = Max({Nth(R, k).x, h[k - 1]}) + Nth(R, k).len
  <2> DEFINE step == [k \in 1..n |-> [a \in Nat |-> Max({Nth(R, k).x, a}) + Nth(R, k).len]]
  <2>1. step \in [1..n -> [Nat -> Nat]]
    BY <1>2, <1>3
  <2>2. \A k \in 1..n, a \in Nat : step[k][a] = Max({Nth(R, k).x, a}) + Nth(R, k).len
    OBVIOUS
  <2> HIDE DEF step
  <2>3. PICK h \in [0..n -> Nat] : h[0] = 0 /\ \A k \in 1..n : h[k] = step[k][h[k - 1]]
    <3> DEFINE U == Nat
               first == 0
    <3> HIDE DEF U, first
    <3>1. first \in U /\ step \in [1..n -> [U -> U]]
      BY <2>1 DEF U, first
    <3>2. \E h \in [0..n -> U] : h[0] = first /\ \A k \in 1..n : h[k] = step[k][h[k - 1]]
      BY <1>1, <3>1, Recursion
    <3> QED BY <3>2 DEF U, first
  <2>4. \A k \in 1..n : h[k - 1] \in Nat
    BY <1>1
  <2> QED BY <2>2, <2>3, <2>4
<1>6. h = F(h)
  <2>1. \A k \in 0..n : h[k] = IF k = 0 THEN 0 ELSE Max({Nth(R, k).x, h[k - 1]}) + Nth(R, k).len
    BY <1>1, <1>5
  <2> QED BY <1>5, <2>1
<1>7. length = F(length)
  <2> HIDE DEF F
  <2> QED BY <1>6
<1> HIDE DEF length
<1>8. /\ length[0] = 0
      /\ \A k \in 1..n : length[k] = Max({Nth(R, k).x, length[k - 1]}) + Nth(R, k).len
  <2>1. 0 \in 0..n /\ \A k \in 1..n : k \in 0..n /\ k # 0
    BY <1>1
  <2>2. \A k \in 0..n : length[k] = IF k = 0 THEN 0
                                    ELSE Max({Nth(R, k).x, length[k - 1]}) + Nth(R, k).len
    BY <1>7
  <2> QED BY <2>1, <2>2
<1> HIDE DEF F
\* No item starts before the line so far ends.
<1>9. \A k \in Nat : k \in 0..n =>
        /\ length[k] \in Nat
        /\ Clear(R) /\ k > 0 => length[k] = Nth(R, k).x + Nth(R, k).len
        /\ Clear(R) /\ k < n => length[k] <= Nth(R, k + 1).x
  <2> DEFINE A == {k \in Nat : k \in 0..n =>
               /\ length[k] \in Nat
               /\ Clear(R) /\ k > 0 => length[k] = Nth(R, k).x + Nth(R, k).len
               /\ Clear(R) /\ k < n => length[k] <= Nth(R, k + 1).x}
  <2>1. 0 \in A
    <3>1. 0 < n => Nth(R, 0 + 1).x \in Nat
      BY <1>1, <1>2
    <3> QED BY <1>8, <3>1
  <2>2. ASSUME NEW k \in Nat, k \in A PROVE k + 1 \in A
    <3> SUFFICES ASSUME k + 1 \in 0..n
                 PROVE  /\ length[k + 1] \in Nat
                        /\ Clear(R) => length[k + 1] = Nth(R, k + 1).x + Nth(R, k + 1).len
                        /\ Clear(R) /\ k + 1 < n => length[k + 1] <= Nth(R, (k + 1) + 1).x
      OBVIOUS
    <3>1. k \in 0..n /\ k < n /\ k + 1 \in 1..n /\ (k + 1) - 1 = k
      BY <1>1
    <3> DEFINE i == Nth(R, k + 1)
    <3>2. /\ length[k] \in Nat
          /\ Clear(R) => length[k] <= i.x
      BY <2>2, <3>1
    <3>3. i \in R /\ i.x \in Nat /\ i.len \in Nat
      BY <1>2, <3>1
    <3>4. length[k + 1] = Max({i.x, length[k]}) + i.len
      BY <1>8, <3>1
    <3>5. length[k + 1] \in Nat /\ (Clear(R) => length[k + 1] = i.x + i.len)
      BY <1>3, <3>2, <3>3, <3>4
    <3>6. ASSUME Clear(R), k + 1 < n PROVE i.x + i.len <= Nth(R, (k + 1) + 1).x
      <4>1. (k + 1) + 1 \in 1..n /\ k + 1 < (k + 1) + 1
        BY <1>1, <3>6
      <4>2. Nth(R, (k + 1) + 1) \in R /\ i.x < Nth(R, (k + 1) + 1).x
        BY <1>2, <3>1, <4>1, NthAll DEF n
      <4> QED BY <3>3, <3>6, <4>2 DEF Clear
    <3> QED BY <3>5, <3>6
  <2>3. Nat \subseteq A
    <3> HIDE DEF A
    <3> QED BY <2>1, <2>2, NatSet
  <2> QED BY <2>3
<1>10. ASSUME NEW k \in 1..n
       PROVE  /\ length[k - 1] \in Nat /\ cell(k) \in Placed(R)
              /\ Clear(R) => cell(k).at = Nth(R, k).x
  <2>1. k - 1 \in Nat /\ k - 1 \in 0..n /\ k - 1 < n /\ (k - 1) + 1 = k
    BY <1>1
  <2>2. length[k - 1] \in Nat /\ (Clear(R) => length[k - 1] <= Nth(R, k).x)
    BY <1>9, <2>1
  <2>3. /\ Max({Nth(R, k).x, length[k - 1]}) \in Nat
        /\ Clear(R) => Max({Nth(R, k).x, length[k - 1]}) = Nth(R, k).x
    BY <1>2, <1>3, <2>2
  <2> QED BY <1>2, <2>2, <2>3 DEF Placed
<1>11. LineOf(R) \in [1..n -> Placed(R)]
  <2> HIDE DEF cell
  <2> QED BY <1>4, <1>10
<1>12. LineOf(R) \in Seq(Placed(R)) /\ Len(LineOf(R)) = n
  BY <1>1, <1>11
<1>13. \A k \in 1..n : LineOf(R)[k] = cell(k)
  BY <1>4
<1>14. \A k \in 1..n : cell(k).item = Nth(R, k) /\ cell(k).len = Nth(R, k).len
  OBVIOUS
<1> HIDE DEF cell
<1> QED BY <1>10, <1>12, <1>13, <1>14 DEF n

\* Of a value that stands on a line, what is cut out under the label at p is
\* what is neither before p nor behind the next label.
LEMMA SliceIs ==
  ASSUME NEW T, IsLine(T), Clear(T),
         NEW P \in SUBSET Nat, IsFiniteSet(P), NEW p \in P,
         NEW v \in T, NEW x \in v.x..(v.x + v.len - 1)
  PROVE  (\E c \in Slice(P, LineOf(T), p) : c.item = v /\ c.from <= x /\ x < c.to)
           <=> p <= x /\ \A q \in P : p < q => x < q
<1> DEFINE m == Cardinality(T)
           V == LineOf(T)
           next == {q \in P : q > p}
           end == First(next, Last(V).at + Last(V).len)
           part(w) == [item |-> w.item, from |-> Max({w.at, p}), to |-> Min({w.at + w.len, end})]
           cut == {w \in ToSet(V) : w.at < end /\ p < w.at + w.len}
<1>1. m \in Nat \ {0}
  BY FS_CardinalityType, FS_EmptySet DEF IsLine
<1>2. \A j \in T : j.x \in Nat /\ j.len \in Nat
  BY DEF IsLine
<1>3. /\ V \in Seq(Placed(T)) /\ Len(V) = m
      /\ \A l \in 1..m : V[l].item = Nth(T, l) /\ V[l].len = Nth(T, l).len /\ V[l].at = Nth(T, l).x
  BY LineIs
<1>4. /\ \A a, b \in 1..m : a < b => Nth(T, a).x < Nth(T, b).x
      /\ \A j \in T : \E l \in 1..m : j = Nth(T, l)
      /\ \A l \in 1..m : Nth(T, l) \in T
  BY NthAll, NthIs
<1>5. Slice(P, V, p) = {part(w) : w \in cut}
  BY DEF Slice
<1>6. ToSet(V) = {V[l] : l \in 1..m}
  BY <1>3 DEF ToSet
<1> HIDE DEF m, V
<1>7. PICK k \in 1..m : v = Nth(T, k)
  BY <1>4
<1>8. v.x \in Nat /\ v.len \in Nat /\ x \in Nat /\ v.x <= x /\ x < v.x + v.len /\ p \in Nat
  BY <1>2
<1>9. end \in Nat /\ (x < end <=> \A q \in P : p < q => x < q)
  <2>1. IsFiniteSet(next) /\ \A q \in next : q \in Nat
    BY FS_Subset
  <2>2. Last(V) = V[m] /\ m \in 1..m
    BY <1>1, <1>3 DEF Last
  <2>3. CASE next = {}
    <3> DEFINE w == Nth(T, m)
    <3>1. end = w.x + w.len
      <4>1. end = Last(V).at + Last(V).len
        BY <2>3 DEF First
      <4> QED BY <1>3, <2>2, <4>1
    <3>2. w \in T /\ w.x \in Nat /\ w.len \in Nat
      BY <1>2, <1>4, <2>2
    <3>3. v.x + v.len <= w.x + w.len
      <4>1. k = m \/ k < m
        BY <1>1
      <4>2. CASE k = m
        BY <1>7, <1>8, <4>2
      <4>3. CASE k < m
        <5>1. v.x < w.x
          BY <1>4, <1>7, <2>2, <4>3
        <5>2. v.x + v.len <= w.x
          BY <3>2, <5>1 DEF Clear
        <5> QED BY <1>8, <3>2, <5>2
      <4> QED BY <4>1, <4>2, <4>3
    <3> HIDE DEF w
    <3>4. x < end /\ end \in Nat
      BY <1>8, <3>1, <3>2, <3>3
    <3> QED BY <2>3, <3>4
  <2>4. CASE next # {}
    <3>1. end \in next /\ \A q \in next : end <= q
      BY <2>1, <2>4, FirstIs
    <3> HIDE DEF end
    <3> QED BY <1>8, <2>1, <3>1
  <2> QED BY <2>3, <2>4
<1>10. \A a, b \in Nat : \A y \in Nat : /\ Max({a, b}) <= y <=> a <= y /\ b <= y
                                        /\ y < Min({a, b}) <=> y < a /\ y < b
  <2> TAKE a, b \in Nat
  <2>1. {a, b} \in SUBSET Int /\ {a, b} # {}
    OBVIOUS
  <2>2. IsFiniteSet({a, b})
    BY FinitePair
  <2>3. /\ Max({a, b}) \in {a, b} /\ \A y \in {a, b} : Max({a, b}) >= y
        /\ Min({a, b}) \in {a, b} /\ \A y \in {a, b} : Min({a, b}) <= y
    BY <2>1, <2>2, MinMax
  <2> QED BY <2>3
<1> HIDE DEF end
<1>11. part(V[k]).from <= x /\ x < part(V[k]).to <=> p <= x /\ x < end
  <2>1. V[k].at = v.x /\ V[k].len = v.len
    BY <1>3, <1>7
  <2>2. Max({v.x, p}) <= x <=> v.x <= x /\ p <= x
    BY <1>8, <1>10
  <2>3. x < Min({v.x + v.len, end}) <=> x < v.x + v.len /\ x < end
    <3>1. v.x + v.len \in Nat
      BY <1>8
    <3> QED BY <1>8, <1>9, <1>10, <3>1
  <2> QED BY <1>8, <2>1, <2>2, <2>3
<1>12. part(V[k]).item = v
  BY <1>3, <1>7
<1>13. ASSUME NEW c \in Slice(P, V, p), c.item = v PROVE c = part(V[k])
  <2>1. PICK l \in 1..m : c = part(V[l])
    BY <1>5, <1>6, <1>13
  <2>2. Nth(T, l) = Nth(T, k)
    BY <1>3, <1>7, <1>13, <2>1
  <2>3. l = k
    <3>1. Nth(T, l).x \in Nat /\ Nth(T, k).x = Nth(T, l).x
      BY <1>2, <1>4, <2>2
    <3>2. ~(l < k) /\ ~(k < l)
      BY <1>4, <3>1
    <3> QED BY <1>1, <3>2
  <2> QED BY <2>1, <2>3
<1>14. p <= x /\ x < end => part(V[k]) \in Slice(P, V, p)
  <2>1. V[k].at = v.x /\ V[k].len = v.len /\ V[k] \in ToSet(V)
    BY <1>3, <1>6, <1>7
  <2>2. p <= x /\ x < end => V[k] \in cut
    BY <1>8, <1>9, <2>1
  <2> QED BY <1>5, <2>2
<1> HIDE DEF part, cut, next
<1> QED BY <1>9, <1>11, <1>12, <1>13, <1>14 DEF V

\* A row of a page is a line with an x for each of its items.
LEMMA RowIsALine ==
  ASSUME NEW items, IsPage(items), NEW R, IsPrinted(R, items)
  PROVE  IsLine(R) /\ R # {} /\ R \subseteq items /\ \A i, j \in R : i.line = j.line
<1>1. R \subseteq items /\ R # {} /\ \A i, j \in R : i.line = j.line
  BY DEF IsPrinted
<1>2. IsFiniteSet(R)
  BY <1>1, FS_Subset DEF IsPage
<1> QED BY <1>1, <1>2 DEF IsLine, IsPage

\* The rows of a page are its lines in their order, and each value is read
\* under the label that it stands under.
LEMMA PageIsRead ==
  ASSUME NEW items, IsPage(items)
  PROVE  RowsAreLines(items) /\ ValuesAreReadInColumn(items)
<1>1. IsFiniteSet(items)
  BY DEF IsPage
<1>2. PICK left : /\ IsLeft(left, items)
                  /\ Layout(items) = [k \in RowsOf(left, items) |-> LineOf(left[k - 1] \ left[k])]
  BY <1>1, LayoutIs
<1> DEFINE rows == Layout(items)
           D == RowsOf(left, items)
           row(r) == left[r - 1] \ left[r]
           placed(r) == {cell.item : cell \in Range(rows[r])}
<1>3. /\ \A r \in D : IsPrinted(row(r), items)
      /\ \A i \in items : \E r \in D : i \in row(r)
      /\ \A r, s \in D : r < s => \A i \in row(r), j \in row(s) : i.line < j.line
  BY <1>2, RowsOfPage
<1>4. DOMAIN rows = D /\ \A r \in D : rows[r] = LineOf(row(r))
  BY <1>2
<1> HIDE DEF rows, D, row
<1>5. \A r \in D : IsLine(row(r)) /\ row(r) # {} /\ row(r) \subseteq items
  BY <1>3, RowIsALine
<1>6. ASSUME NEW r \in D PROVE placed(r) = row(r)
  <2> DEFINE R == row(r)
             n == Cardinality(R)
  <2>1. IsLine(R)
    BY <1>5
  <2>2. /\ \A k \in 1..n : Nth(R, k) \in R
        /\ \A i \in R : \E k \in 1..n : i = Nth(R, k)
    BY <2>1, NthIs, NthAll
  <2>3. /\ LineOf(R) \in Seq(Placed(R)) /\ Len(LineOf(R)) = n
        /\ \A k \in 1..n : LineOf(R)[k].item = Nth(R, k)
    BY <2>1, LineIs
  <2>4. Range(rows[r]) = {LineOf(R)[k] : k \in 1..n}
    <3>1. DOMAIN LineOf(R) = 1..n
      BY <2>3
    <3> QED BY <1>4, <3>1 DEF Range
  <2> HIDE DEF n, R
  <2>5. placed(r) = R
    BY <2>2, <2>3, <2>4
  <2> QED BY <2>5 DEF R
<1>7. {placed(r) : r \in D} = {{i \in items : i.line = l} : l \in {i.line : i \in items}}
  <2>1. {placed(r) : r \in D} = {row(r) : r \in D}
    BY <1>6
  <2>2. ASSUME NEW r \in D PROVE row(r) \in {{i \in items : i.line = l} : l \in {i.line : i \in items}}
    BY <1>3 DEF IsPrinted
  <2>3. ASSUME NEW l \in {i.line : i \in items} PROVE {i \in items : i.line = l} \in {row(r) : r \in D}
    <3>1. PICK i \in items : i.line = l
      OBVIOUS
    <3>2. PICK r \in D : i \in row(r)
      BY <1>3
    <3>3. PICK m \in {j.line : j \in items} : row(r) = {j \in items : j.line = m}
      BY <1>3 DEF IsPrinted
    <3>4. m = l
      BY <3>1, <3>2, <3>3
    <3> QED BY <3>3, <3>4
  <2> QED BY <2>1, <2>2, <2>3
<1>8. \A r, s \in D : r < s => \A i \in placed(r), j \in placed(s) : i.line < j.line
  <2> SUFFICES ASSUME NEW r \in D, NEW s \in D, r < s
               PROVE  \A i \in placed(r), j \in placed(s) : i.line < j.line
    OBVIOUS
  <2>1. placed(r) = row(r) /\ placed(s) = row(s)
    BY <1>6
  <2> HIDE DEF placed
  <2> QED BY <1>3, <2>1
<1>9. RowsAreLines(items)
  BY <1>4, <1>7, <1>8 DEF RowsAreLines, rows
<1>10. ASSUME \A i, j \in items : i.line = j.line /\ i.x < j.x => i.x + i.len <= j.x,
              NEW r \in D, r + 1 \in D,
              NEW labels \in SUBSET Range(rows[r]), NEW label \in labels,
              NEW value \in Range(rows[r + 1]),
              NEW x \in value.item.x..(value.item.x + value.item.len - 1)
       PROVE  (\E c \in {c \in Slice({l.at : l \in labels}, rows[r + 1], label.at) :
                           c.item = value.item} : c.from <= x /\ x < c.to)
                <=> /\ label.item.x <= x
                    /\ \A l \in labels : label.item.x < l.item.x => x < l.item.x
  <2> DEFINE R == row(r)
             T == row(r + 1)
             P == {l.at : l \in labels}
             S == Slice(P, LineOf(T), label.at)
  <2>1. rows[r] = LineOf(R) /\ rows[r + 1] = LineOf(T)
    BY <1>4, <1>10
  <2>2. IsLine(R) /\ IsLine(T)
    BY <1>5, <1>10
  <2>3. Clear(R) /\ Clear(T)
    <3>1. ASSUME NEW s \in D PROVE Clear(row(s))
      <4>1. row(s) \subseteq items /\ \A i, j \in row(s) : i.line = j.line
        BY <1>3, RowIsALine
      <4> QED BY <1>10, <4>1 DEF Clear
    <3> QED BY <1>10, <3>1
  <2>4. value.item \in T
    <3>1. \A v \in placed(r + 1) : v \in T
      BY <1>6, <1>10
    <3> QED BY <3>1
  <2> HIDE DEF R, T
  <2>5. IsFiniteSet(Range(rows[r])) /\ \A l \in Range(rows[r]) : l.at = l.item.x /\ l.at \in Nat
    <3> DEFINE n == Cardinality(R)
    <3>1. /\ LineOf(R) \in Seq(Placed(R)) /\ Len(LineOf(R)) = n /\ DOMAIN LineOf(R) = 1..n
          /\ \A k \in 1..n : LineOf(R)[k].item = Nth(R, k) /\ LineOf(R)[k].at = Nth(R, k).x
      BY <2>2, <2>3, LineIs
    <3>2. \A k \in 1..n : LineOf(R)[k] \in Placed(R)
      BY <3>1
    <3>3. Range(rows[r]) = {LineOf(R)[k] : k \in 1..n}
      BY <2>1, <3>1 DEF Range
    <3>4. n \in Nat
      BY <2>2, FS_CardinalityType DEF IsLine
    <3>5. IsFiniteSet(1..n)
      BY <3>4, FS_Interval
    <3> HIDE DEF n
    <3>6. IsFiniteSet({LineOf(R)[k] : k \in 1..n})
      BY <3>5, Image
    <3>7. \A k \in 1..n : LineOf(R)[k].at = LineOf(R)[k].item.x /\ LineOf(R)[k].at \in Nat
      BY <3>1, <3>2 DEF Placed
    <3> QED BY <3>3, <3>6, <3>7
  <2>6. /\ P \in SUBSET Nat /\ IsFiniteSet(P) /\ label.at \in P
        /\ label.at = label.item.x
        /\ (\A q \in P : label.at < q => x < q)
             <=> \A l \in labels : label.item.x < l.item.x => x < l.item.x
    <3>1. \A l \in labels : l.at = l.item.x /\ l.at \in Nat
      BY <2>5
    <3>2. IsFiniteSet(labels)
      BY <2>5, FS_Subset
    <3>3. IsFiniteSet(P)
      <4> DEFINE at == [l \in labels |-> l.at]
      <4>1. IsFiniteSet({at[l] : l \in labels})
        BY <3>2, Image
      <4>2. {at[l] : l \in labels} = P
        OBVIOUS
      <4> QED BY <4>1, <4>2
    <3> QED BY <3>1, <3>3
  <2> HIDE DEF P
  <2>7. (\E c \in S : c.item = value.item /\ c.from <= x /\ x < c.to)
          <=> label.at <= x /\ \A q \in P : label.at < q => x < q
    <3> DEFINE v == value.item
               p == label.at
    <3>1. IsLine(T) /\ Clear(T) /\ v \in T
      BY <2>2, <2>3, <2>4
    <3>2. P \in SUBSET Nat /\ IsFiniteSet(P) /\ p \in P
      BY <2>6
    <3>3. x \in v.x..(v.x + v.len - 1)
      OBVIOUS
    <3> HIDE DEF v, p
    <3>4. (\E c \in Slice(P, LineOf(T), p) : c.item = v /\ c.from <= x /\ x < c.to)
            <=> p <= x /\ \A q \in P : p < q => x < q
      BY <3>1, <3>2, <3>3, SliceIs
    <3> QED BY <3>4 DEF v, p
  <2>8. Slice({l.at : l \in labels}, rows[r + 1], label.at) = S
    BY <2>1 DEF P
  <2> HIDE DEF S
  <2> QED BY <2>6, <2>7, <2>8
<1>11. ValuesAreReadInColumn(items)
  BY <1>4, <1>10 DEF ValuesAreReadInColumn, rows
<1> QED BY <1>9, <1>11

\* A page of text is read as it is printed, line by line and each value under
\* its label: pdfToLayoutText (pdf-text.ts:55) and colSlice (ddr-parser.ts:116)
\* together, for pages of any size.
THEOREM PageReadAsPrinted == Spec => []PageIsReadAsPrinted
<1>1. PageInv => PageIsReadAsPrinted
  BY PageIsRead DEF PageInv, PageIsReadAsPrinted
<1> QED BY <1>1, PageInvInvariant, PTL

-----------------------------------------------------------------------------
(***************************************************************************)
(* The rollups and the views.                                              *)
(***************************************************************************)
\* The groups of a list are finitely many, have nothing in common, and hold
\* the list.
LEMMA GroupsIs ==
  ASSUME NEW ps, IsFiniteSet(DOMAIN ps), NEW field, NEW G, G = Groups(ps, field)
  PROVE  /\ Splits(G, DOMAIN ps)
         /\ \A k \in DOMAIN G : /\ G[k] \subseteq DOMAIN ps /\ IsFiniteSet(G[k])
                                /\ G[k] = {i \in DOMAIN ps : ps[i][field] = k}
<1> DEFINE v == [i \in DOMAIN ps |-> ps[i][field]]
           K == {v[i] : i \in DOMAIN ps}
<1>1. IsFiniteSet(K)
  BY Image
<1>2. DOMAIN G = K /\ \A k \in K : G[k] = {i \in DOMAIN ps : v[i] = k}
  BY DEF Groups
<1>3. \A k \in K : G[k] = {i \in DOMAIN ps : ps[i][field] = k}
  BY DEF Groups
<1> HIDE DEF v
<1>4. \A k \in K : G[k] \subseteq DOMAIN ps /\ IsFiniteSet(G[k])
  BY <1>2, FS_Subset
<1>5. UNION {G[k] : k \in DOMAIN G} = DOMAIN ps
  <2>1. \A i \in DOMAIN ps : v[i] \in K /\ i \in G[v[i]]
    BY <1>2
  <2> HIDE DEF K
  <2>2. DOMAIN G = K
    BY <1>2
  <2>3. \A x : x \in UNION {G[k] : k \in K} <=> \E k \in K : x \in G[k]
    BY Zenon
  <2>4. \A x : (\E k \in K : x \in G[k]) <=> x \in DOMAIN ps
    BY <1>4, <2>1
  <2>5. UNION {G[k] : k \in K} = DOMAIN ps
    BY <2>3, <2>4, Zenon
  <2> QED BY <2>2, <2>5
<1>6. \A k, l \in DOMAIN G : k # l => G[k] \intersect G[l] = {}
  BY <1>2
<1> HIDE DEF K
<1> QED BY <1>1, <1>2, <1>3, <1>4, <1>5, <1>6 DEF Splits

\* The rollups of the dashboard agree.
LEMMA Rollups ==
  ASSUME NEW ps, ArePoints(ps)
  PROVE  RollupsAgree(ps)
<1> DEFINE makes == Groups(ps, "make")
           byWell == Groups(ps, "well")
           wells == FootageByWell(ps)
           runs == [w \in DOMAIN wells |-> wells[w].runs]
<1>1. IsFiniteSet(DOMAIN ps)
  BY DEF ArePoints
<1>2. Splits(makes, DOMAIN ps)
  BY <1>1, GroupsIs
<1>3. Splits(byWell, DOMAIN ps)
  BY <1>1, GroupsIs
<1>4. Leaderboard(ps) = [m \in DOMAIN makes |-> Cardinality(makes[m])]
  BY DEF Leaderboard
<1>5. DOMAIN wells = DOMAIN byWell /\ \A w \in DOMAIN byWell : wells[w].runs = Cardinality(byWell[w])
  BY DEF FootageByWell
<1>6. FounderRate(ps).foundered \subseteq {w \in DOMAIN byWell : Cardinality(byWell[w]) >= 3}
  BY DEF FounderRate
<1> HIDE DEF makes, byWell, wells
<1>7. SumFunctionOnSet(Leaderboard(ps), DOMAIN Leaderboard(ps)) = Cardinality(DOMAIN ps)
  <2> DEFINE t == Leaderboard(ps)
  <2>1. DOMAIN t = DOMAIN makes /\ \A k \in DOMAIN makes : t[k] = Cardinality(makes[k])
    BY <1>4
  <2> HIDE DEF t
  <2>2. SumFunctionOnSet(t, DOMAIN makes) = Cardinality(DOMAIN ps)
    BY <1>1, <1>2, <2>1, CountGroups
  <2> QED BY <2>1, <2>2 DEF t
<1>8. SumFunctionOnSet(runs, DOMAIN runs) = Cardinality(DOMAIN ps)
  <2>1. DOMAIN runs = DOMAIN byWell /\ \A k \in DOMAIN byWell : runs[k] = Cardinality(byWell[k])
    BY <1>5
  <2> HIDE DEF runs
  <2>2. SumFunctionOnSet(runs, DOMAIN byWell) = Cardinality(DOMAIN ps)
    BY <1>1, <1>3, <2>1, CountGroups
  <2> QED BY <2>1, <2>2
<1>9. FounderRate(ps).foundered \subseteq {w \in DOMAIN wells : runs[w] >= 3}
  BY <1>5, <1>6
<1> QED BY <1>7, <1>8, <1>9 DEF RollupsAgree, wells

\* The total footage, added up well by well, is that of the runs that have
\* any, and the negative footage.
LEMMA FootageIs ==
  ASSUME NEW ps, ArePoints(ps)
  PROVE  LET negative == {i \in Having(ps, "meters") : ps[i].meters < 0}
         IN Summary(ps).meters = TotalFootage(ps) - SumFunctionOnSet(Meters(ps), negative)
<1> DEFINE byWell == Groups(ps, "well")
           wells == FootageByWell(ps)
           t == [w \in DOMAIN wells |-> wells[w].footage]
           v == Meters(ps)
           D == DOMAIN ps
           negative == {i \in Having(ps, "meters") : ps[i].meters < 0}
           some == Drilled(ps) \union negative
           rest == D \ some
<1>1. IsFiniteSet(D)
  BY DEF ArePoints
<1>2. \A i \in D : v[i] \in Int
  BY DEF Meters, Or0, ArePoints, IsPoint
<1>3. Drilled(ps) \subseteq D /\ negative \subseteq D /\ \A i \in rest : v[i] = 0
  <2>1. ASSUME NEW i \in rest PROVE v[i] = 0
    <3>1. i \in D /\ (ps[i].meters = None \/ (~(ps[i].meters > 0) /\ ~(ps[i].meters < 0)))
      BY DEF Drilled, Having
    <3>2. v[i] = IF ps[i].meters = None THEN 0 ELSE ps[i].meters
      BY <3>1 DEF Meters, Or0
    <3>3. ps[i].meters \in Int \union {None}
      BY <3>1 DEF ArePoints, IsPoint
    <3> QED BY <3>1, <3>2, <3>3
  <2> QED BY <2>1 DEF Drilled, Having
<1>a. Drilled(ps) \intersect negative = {}
  <2> SUFFICES ASSUME NEW i \in Drilled(ps), i \in negative PROVE FALSE
    OBVIOUS
  <2>1. i \in D /\ ps[i].meters # None /\ ps[i].meters > 0 /\ ps[i].meters < 0
    BY DEF Drilled, Having
  <2>2. ps[i].meters \in Int
    BY <2>1 DEF ArePoints, IsPoint
  <2> QED BY <2>1, <2>2
<1>4. Splits(byWell, D)
  BY <1>1, GroupsIs
<1>5. DOMAIN wells = DOMAIN byWell /\ \A w \in DOMAIN byWell : wells[w].footage = SumFunctionOnSet(v, byWell[w])
  BY DEF FootageByWell
<1>6. Summary(ps).meters = SumFunctionOnSet(v, Drilled(ps))
  BY DEF Summary
<1>7. TotalFootage(ps) = SumFunctionOnSet(t, DOMAIN wells)
  BY DEF TotalFootage
<1> HIDE DEF byWell, wells, v, D, negative
<1>8. \A k \in DOMAIN byWell : t[k] = SumFunctionOnSet(v, byWell[k])
  BY <1>5
<1> HIDE DEF t
<1>9. \A i \in D : v[i] \in Int
  BY <1>2
<1>10. SumFunctionOnSet(t, DOMAIN byWell) = SumFunctionOnSet(v, D)
  BY <1>1, <1>4, <1>8, <1>9, SumGroups
<1>11. SumFunctionOnSet(v, D) = SumFunctionOnSet(v, some) + SumFunctionOnSet(v, rest)
  <2>1. D = some \union rest /\ some \intersect rest = {} /\ rest \in SUBSET D /\ some \in SUBSET D
    BY <1>3
  <2> HIDE DEF rest, some
  <2>2. SumFunctionOnSet(v, some \union rest) = SumFunctionOnSet(v, some) + SumFunctionOnSet(v, rest)
    BY <1>1, <1>9, <2>1, SumUnion
  <2> QED BY <2>1, <2>2
<1>b. SumFunctionOnSet(v, some) = SumFunctionOnSet(v, Drilled(ps)) + SumFunctionOnSet(v, negative)
  BY <1>1, <1>3, <1>9, <1>a, SumUnion
<1>12. SumFunctionOnSet(v, rest) = 0
  <2>1. IsFiniteSet(rest)
    BY <1>1, FS_Subset
  <2> HIDE DEF rest
  <2> QED BY <1>3, <2>1, SumZero
<1>13. SumFunctionOnSet(v, Drilled(ps)) \in Int /\ SumFunctionOnSet(v, negative) \in Int
  BY <1>1, <1>3, <1>9, SumAdd
<1>14. Summary(ps).meters = TotalFootage(ps) - SumFunctionOnSet(v, negative)
  BY <1>5, <1>6, <1>7, <1>10, <1>11, <1>b, <1>12, <1>13
<1> QED BY <1>14 DEF v, negative

\* The weighted ROP is between the slowest and the best.
LEMMA OverallIs ==
  ASSUME NEW ps, ArePoints(ps), NEW summary, summary = Summary(ps), summary.overall # None
  PROVE  /\ summary.slowest * summary.overall[2] <= summary.overall[1]
         /\ summary.overall[1] <= summary.best * summary.overall[2]
<1> DEFINE S == Drilled(ps) \intersect Having(ps, "mhr")
           mhr == {ps[i].mhr : i \in Having(ps, "mhr")}
           w == Meters(ps)
           v == Column(ps, "mhr")
           p == [i \in S |-> v[i] * w[i]]
<1>1. /\ summary.overall = IF S = {} THEN None ELSE WeightedMean(v, w, S)
      /\ summary.best = IF mhr = {} THEN None ELSE Max(mhr)
      /\ summary.slowest = IF mhr = {} THEN None ELSE Min(mhr)
  BY DEF Summary
<1>2. S # {} /\ summary.overall = WeightedMean(v, w, S)
  BY <1>1
<1>3. IsFiniteSet(DOMAIN ps) /\ \A i \in DOMAIN ps : v[i] = ps[i].mhr /\ v[i] \in Nat
  BY DEF ArePoints, IsPoint, Column
<1>4. S \in SUBSET Drilled(ps) /\ S \subseteq Having(ps, "mhr") /\ Having(ps, "mhr") \subseteq DOMAIN ps
  BY DEF Having
<1>5. /\ IsFiniteSet(S) /\ \A i \in S : w[i] \in Nat \ {0}
      /\ SumFunctionOnSet(w, S) \in Nat
  <2> HIDE DEF S
  <2> QED BY <1>4, DrilledWeighs
<1>6. mhr = {v[i] : i \in Having(ps, "mhr")}
  BY <1>3, <1>4
<1>7. IsFiniteSet(mhr) /\ mhr \in SUBSET Int /\ \A i \in S : v[i] \in mhr
  <2>1. IsFiniteSet(Having(ps, "mhr"))
    BY <1>3, <1>4, FS_Subset
  <2> HIDE DEF S, mhr, v
  <2> QED BY <1>3, <1>4, <1>6, <2>1, Image
<1> HIDE DEF S, mhr, v, w
<1>8. mhr # {}
  BY <1>2, <1>7
<1>9. Min(mhr) \in Int /\ Max(mhr) \in Int /\ \A i \in S : v[i] \in Int /\ Min(mhr) <= v[i] /\ v[i] <= Max(mhr)
  <2>1. /\ Min(mhr) \in mhr /\ \A y \in mhr : Min(mhr) <= y
        /\ Max(mhr) \in mhr /\ \A y \in mhr : Max(mhr) >= y
    BY <1>7, <1>8, MinMax
  <2>2. \A y \in mhr : Max(mhr) >= y => y <= Max(mhr)
    BY <1>7, <2>1
  <2> QED BY <1>7, <2>1, <2>2
<1>10. /\ Min(mhr) * SumFunctionOnSet(w, S) <= SumFunctionOnSet(p, S)
       /\ SumFunctionOnSet(p, S) <= Max(mhr) * SumFunctionOnSet(w, S)
  <2>1. \A i \in S : w[i] \in Nat /\ p[i] = v[i] * w[i]
    BY <1>5
  <2> HIDE DEF p
  <2> QED BY <1>5, <1>9, <2>1, SumBounds
<1>11. SumFunctionOnSet(w, S) # 0
  <2> DEFINE one == [i \in S |-> 1]
  <2>1. \A i \in S : one[i] = 1 /\ one[i] \in Int /\ w[i] \in Int /\ one[i] <= w[i]
    BY <1>5
  <2> HIDE DEF one
  <2>2. SumFunctionOnSet(one, S) <= SumFunctionOnSet(w, S)
    BY <1>5, <2>1, SumMonotone
  <2>3. SumFunctionOnSet(one, S) = Cardinality(S)
    BY <1>5, <2>1, SumOnes
  <2>4. Cardinality(S) \in Nat /\ Cardinality(S) # 0
    BY <1>2, <1>5, FS_CardinalityType, FS_EmptySet
  <2> QED BY <1>5, <2>2, <2>3, <2>4
<1>12. WeightedMean(v, w, S) = <<SumFunctionOnSet(p, S), SumFunctionOnSet(w, S)>>
  BY <1>11 DEF WeightedMean
<1> HIDE DEF p
<1> QED BY <1>1, <1>2, <1>8, <1>10, <1>12

\* A cell of the heat map is one of its cells.
LEMMA CellInRange ==
  ASSUME NEW S, IsFiniteSet(S), \A x \in S : x \in Nat, NEW w \in S, NEW n \in Nat \ {0}
  PROVE  Cell(w, Min(S), Max(S), n) \in 0..(n - 1)
<1>1. S \in SUBSET Int /\ S # {}
  OBVIOUS
<1>2. /\ Min(S) \in S /\ \A y \in S : Min(S) <= y
      /\ Max(S) \in S /\ \A y \in S : Max(S) >= y
  BY <1>1, MinMax
<1>3. Min(S) \in Int /\ Max(S) \in Int /\ w \in Int /\ Min(S) <= w /\ w <= Max(S)
  BY <1>2
<1>4. CASE Max(S) > Min(S)
  <2>1. Min(S) < Max(S)
    BY <1>3, <1>4
  <2>2. Bin(w, Min(S), Max(S), n) \in 0..(n - 1)
    BY <1>3, <2>1, BinInRange
  <2> QED BY <1>4, <2>2 DEF Cell
<1>5. CASE ~(Max(S) > Min(S))
  BY <1>5 DEF Cell
<1> QED BY <1>4, <1>5

\* Points have the metrics that the views ask for.
LEMMA PointsHave ==
  ASSUME NEW ps, ArePoints(ps), NEW m \in {"wob", "rpm", "mhr", "rop"}
  PROVE  Having(ps, m) = DOMAIN ps /\ \A i \in DOMAIN ps : ps[i][m] \in Nat
<1>1. \A i \in DOMAIN ps : ps[i][m] \in Nat
  BY DEF ArePoints, IsPoint
<1>2. None \notin Nat
  BY NoneAssumption
<1> QED BY <1>1, <1>2 DEF Having

\* A list is its own restriction to all of it.
LEMMA RestrictAll ==
  ASSUME NEW ps, ArePoints(ps)
  PROVE  Restrict(ps, DOMAIN ps) = ps
BY DEF Restrict, ArePoints

\* Every point is in one cell of the heat map.
LEMMA ContourPartition ==
  ASSUME NEW ps, ArePoints(ps), Cardinality(DOMAIN ps) >= 2
  PROVE  Partition(Contour(ps), DOMAIN ps)
<1> DEFINE valid == Having(ps, "wob") \intersect Having(ps, "rpm") \intersect Having(ps, "rop")
           wobs == {ps[i].wob : i \in valid}
           rpms == {ps[i].rpm : i \in valid}
           cw(i) == Cell(ps[i].wob, Min(wobs), Max(wobs), WobBins)
           cr(i) == Cell(ps[i].rpm, Min(rpms), Max(rpms), RpmBins)
           in(c) == {i \in valid : cw(i) = c[1] /\ cr(i) = c[2]}
           cells == (0..(WobBins - 1)) \X (0..(RpmBins - 1))
           C == {c \in cells : Cardinality(valid) >= 2 /\ in(c) # {}}
           G == Contour(ps)
<1>1. G = [c \in C |-> in(c)]
  BY DEF Contour
<1>2. valid = DOMAIN ps /\ IsFiniteSet(valid)
  BY PointsHave DEF ArePoints
<1>3. IsFiniteSet(wobs) /\ (\A x \in wobs : x \in Nat) /\ \A i \in valid : ps[i].wob \in wobs
  <2> DEFINE v == [i \in valid |-> ps[i].wob]
  <2>1. IsFiniteSet({v[i] : i \in valid})
    BY <1>2, Image
  <2>2. {v[i] : i \in valid} = wobs
    OBVIOUS
  <2>3. \A i \in valid : ps[i].wob \in Nat
    BY <1>2, PointsHave
  <2> HIDE DEF valid, v
  <2> QED BY <2>1, <2>2, <2>3
<1>4. IsFiniteSet(rpms) /\ (\A x \in rpms : x \in Nat) /\ \A i \in valid : ps[i].rpm \in rpms
  <2> DEFINE v == [i \in valid |-> ps[i].rpm]
  <2>1. IsFiniteSet({v[i] : i \in valid})
    BY <1>2, Image
  <2>2. {v[i] : i \in valid} = rpms
    OBVIOUS
  <2>3. \A i \in valid : ps[i].rpm \in Nat
    BY <1>2, PointsHave
  <2> HIDE DEF valid, v
  <2> QED BY <2>1, <2>2, <2>3
<1> HIDE DEF G, valid, wobs, rpms
<1>5. ASSUME NEW i \in valid PROVE cw(i) \in 0..(WobBins - 1) /\ cr(i) \in 0..(RpmBins - 1)
  BY <1>3, <1>4, CellInRange, CellsAssumption
<1> HIDE DEF cw, cr
<1>6. ASSUME NEW i \in valid PROVE <<cw(i), cr(i)>> \in C /\ i \in in(<<cw(i), cr(i)>>)
  <2>1. <<cw(i), cr(i)>> \in cells
    BY <1>5
  <2>2. i \in in(<<cw(i), cr(i)>>)
    OBVIOUS
  <2> QED BY <1>2, <2>1, <2>2
<1>7. \A c, d \in C : c # d => in(c) \intersect in(d) = {}
  <2> SUFFICES ASSUME NEW c \in C, NEW d \in C, NEW i, i \in in(c), i \in in(d) PROVE c = d
    BY Zenon
  <2>1. c \in cells /\ d \in cells
    OBVIOUS
  <2>2. cw(i) = c[1] /\ cr(i) = c[2] /\ cw(i) = d[1] /\ cr(i) = d[2]
    OBVIOUS
  <2>3. \A e \in cells : e = <<e[1], e[2]>>
    OBVIOUS
  <2> HIDE DEF in, C, cells
  <2>4. c = <<c[1], c[2]>> /\ d = <<d[1], d[2]>>
    BY <2>1, <2>3
  <2> QED BY <2>2, <2>4
<1>8. \A c \in C : in(c) \subseteq valid
  OBVIOUS
<1> HIDE DEF C, in
<1>9. DOMAIN G = C /\ \A c \in C : G[c] = in(c)
  BY <1>1
<1>10. UNION {G[c] : c \in DOMAIN G} = valid
  <2>1. \A i \in valid : \E c \in C : i \in G[c]
    BY <1>6, <1>9
  <2>2. \A c \in C : G[c] \subseteq valid
    BY <1>8, <1>9
  <2>3. \A x : x \in UNION {G[c] : c \in C} <=> \E c \in C : x \in G[c]
    BY Zenon
  <2>4. UNION {G[c] : c \in C} = valid
    BY <2>1, <2>2, <2>3, Zenon
  <2> QED BY <1>9, <2>4
<1>11. \A c, d \in DOMAIN G : c # d => G[c] \intersect G[d] = {}
  BY <1>7, <1>9
<1> QED BY <1>2, <1>10, <1>11 DEF Partition, G

\* The views of the tab agree.
LEMMA Views ==
  ASSUME NEW ps, ArePoints(ps)
  PROVE  ViewsAgree(ps)
<1> DEFINE sizes == BySize(ps)
           counts == [s \in DOMAIN sizes |-> sizes[s].n]
           negative == {i \in Having(ps, "meters") : ps[i].meters < 0}
<1>1. Summary(ps).meters = TotalFootage(ps) - SumFunctionOnSet(Meters(ps), negative)
  BY FootageIs
<1>2. Summary(ps).overall # None =>
        /\ Summary(ps).slowest * Summary(ps).overall[2] <= Summary(ps).overall[1]
        /\ Summary(ps).overall[1] <= Summary(ps).best * Summary(ps).overall[2]
  BY OverallIs
<1>3. Cardinality(DOMAIN ps) >= 2 => Partition(Contour(ps), DOMAIN ps)
  BY ContourPartition
<1>4. SumFunctionOnSet(counts, DOMAIN counts) = Cardinality(DOMAIN ps)
  <2> DEFINE groups == Groups(ps, "size")
  <2>1. Restrict(ps, Having(ps, "mhr")) = ps
    BY PointsHave, RestrictAll
  <2>2. sizes = [s \in DOMAIN groups |->
                   [n |-> Cardinality(groups[s]), rop |-> Mean(Column(ps, "mhr"), groups[s])]]
    BY <2>1 DEF BySize
  <2>3. IsFiniteSet(DOMAIN ps)
    BY DEF ArePoints
  <2>4. Splits(groups, DOMAIN ps)
    BY <2>3, GroupsIs
  <2> HIDE DEF sizes, groups
  <2>5. DOMAIN counts = DOMAIN groups /\ \A k \in DOMAIN groups : counts[k] = Cardinality(groups[k])
    BY <2>2
  <2> HIDE DEF counts
  <2>6. SumFunctionOnSet(counts, DOMAIN groups) = Cardinality(DOMAIN ps)
    BY <2>3, <2>4, <2>5, CountGroups
  <2> QED BY <2>5, <2>6
<1>5. ASSUME NEW x \in {"wob", "rpm"} PROVE Partition(Scatter(ps, x), DOMAIN ps)
  <2>1. Scatter(ps, x) = Groups(ps, "size")
    <3>1. Having(ps, x) = DOMAIN ps /\ Having(ps, "rop") = DOMAIN ps
      BY PointsHave
    <3>2. Restrict(ps, Having(ps, x) \intersect Having(ps, "rop")) = ps
      BY <3>1, RestrictAll
    <3> QED BY <3>2 DEF Scatter
  <2>2. Splits(Groups(ps, "size"), DOMAIN ps)
    BY GroupsIs DEF ArePoints
  <2> QED BY <2>1, <2>2 DEF Splits, Partition
<1> HIDE DEF counts, sizes, negative
<1> QED BY <1>1, <1>2, <1>3, <1>4, <1>5 DEF ViewsAgree, counts, sizes, negative

\* The founder point depends on the WOB and the ROP of the points alone.
LEMMA CurveSame ==
  ASSUME NEW p, NEW q, DOMAIN p = DOMAIN q,
         \A i \in DOMAIN p : p[i].wob = q[i].wob /\ p[i].rop = q[i].rop
  PROVE  FounderCurve(p) = FounderCurve(q)
<1> DEFINE P == Restrict(p, Having(p, "wob") \intersect Having(p, "rop"))
           Q == Restrict(q, Having(q, "wob") \intersect Having(q, "rop"))
<1>1. Having(p, "wob") = Having(q, "wob") /\ Having(p, "rop") = Having(q, "rop")
  BY DEF Having
<1>2. /\ DOMAIN P = DOMAIN Q /\ DOMAIN P \subseteq DOMAIN p
      /\ \A i \in DOMAIN P : P[i] = p[i] /\ Q[i] = q[i]
  BY <1>1 DEF Restrict, Having
<1>3. \A i \in DOMAIN P : P[i].wob = Q[i].wob /\ P[i].rop = Q[i].rop
  BY <1>2
<1>h. CurveOf(p) = Curve(P) /\ CurveOf(q) = Curve(Q)
  BY DEF CurveOf
<1> HIDE DEF P, Q
<1>4. Column(P, "rop") = Column(Q, "rop")
  BY <1>2, <1>3 DEF Column
<1>5. {P[i].wob : i \in DOMAIN P} = {Q[i].wob : i \in DOMAIN Q}
  BY <1>2, <1>3
<1> DEFINE W == {P[i].wob : i \in DOMAIN P}
           V == {Q[i].wob : i \in DOMAIN Q}
           inP(b) == {i \in DOMAIN P : Bin(P[i].wob, Min(W), Max(W), Bins) = b}
           inQ(b) == {i \in DOMAIN Q : Bin(Q[i].wob, Min(V), Max(V), Bins) = b}
           flatP == Cardinality(DOMAIN P) < 3 \/ Min(W) = Max(W)
           flatQ == Cardinality(DOMAIN Q) < 3 \/ Min(V) = Max(V)
<1>6. ASSUME NEW b PROVE inP(b) = inQ(b)
  <2>1. W = V
    BY <1>5
  <2> HIDE DEF W, V
  <2> QED BY <1>2, <1>3, <2>1
<1>7. flatP <=> flatQ
  BY <1>2, <1>5
<1>8. Curve(P) = [b \in {b \in 0..(Bins - 1) : ~flatP /\ inP(b) # {}} |->
        [points |-> inP(b), rop |-> <<SumFunctionOnSet(Column(P, "rop"), inP(b)), Cardinality(inP(b))>>]]
  BY DEF Curve
<1>9. Curve(Q) = [b \in {b \in 0..(Bins - 1) : ~flatQ /\ inQ(b) # {}} |->
        [points |-> inQ(b), rop |-> <<SumFunctionOnSet(Column(Q, "rop"), inQ(b)), Cardinality(inQ(b))>>]]
  BY DEF Curve
<1> HIDE DEF inP, inQ, flatP, flatQ
<1>10. Curve(P) = Curve(Q)
  BY <1>4, <1>6, <1>7, <1>8, <1>9
<1> QED BY <1>h, <1>10 DEF FounderCurve

\* Of an answer that is complete, the one for a well holds the well's points.
LEMMA AnswerForWell ==
  ASSUME NEW rows \in Seq(Run), ~GetRopOptimization(rows, NoFilter).truncated,
         NEW w, NEW ps, ps = Shown(rows), NEW q,
         q = GetRopOptimization(rows, Request(OnlyWell(w))).points
  PROVE  q = Restrict(ps, {i \in DOMAIN ps : ps[i].well = w})
<1> DEFINE f == Request(OnlyWell(w))
           A == Asked(rows, NoFilter)
           B == Asked(rows, f)
<1>1. /\ DOMAIN ps = {i \in Oldest(A, MaxPoints) : Qualifies(rows[i])}
      /\ ps = [i \in DOMAIN ps |-> ToPoint(rows[i])]
      /\ Oldest(A, MaxPoints) = A
  BY AnswerRuns DEF Shown
<1>2. /\ DOMAIN q = {i \in Oldest(B, MaxPoints) : Qualifies(rows[i])}
      /\ q = [i \in DOMAIN q |-> ToPoint(rows[i])]
  BY AnswerRuns
<1>3. A = DOMAIN rows
  BY DEF Asked, Matches, NoFilter
<1>4. /\ f.wells = {w} /\ f.sizes = {} /\ f.families = {} /\ f.depthFrom = None
      /\ f.depthTo = None /\ f.dateFrom = None /\ f.dateTo = None
  BY DEF Request, OnlyWell, Bound
<1>5. \A i : Matches(rows, i, f) <=> rows[i].well = w
  <2> HIDE DEF f
  <2> QED BY <1>4 DEF Matches
<1>6. B = {i \in A : rows[i].well = w}
  <2> HIDE DEF f
  <2> QED BY <1>3, <1>5 DEF Asked
<1> HIDE DEF A, B
<1>7. Oldest(B, MaxPoints) = B
  <2>1. IsFiniteSet(A) /\ \A i \in A : i \in Nat
    <3>1. DOMAIN rows = 1..Len(rows) /\ Len(rows) \in Nat
      OBVIOUS
    <3>2. IsFiniteSet(1..Len(rows))
      BY <3>1, FS_Interval
    <3> QED BY <1>3, <3>1, <3>2
  <2>2. ASSUME NEW i \in B PROVE Cardinality({j \in B : j < i}) < MaxPoints
    <3>1. i \in A /\ Cardinality({j \in A : j < i}) < MaxPoints
      BY <1>1, <1>6 DEF Oldest
    <3>2. {j \in B : j < i} \subseteq {j \in A : j < i} /\ IsFiniteSet({j \in A : j < i})
      BY <1>6, <2>1, FS_Subset
    <3>3. /\ Cardinality({j \in B : j < i}) <= Cardinality({j \in A : j < i})
          /\ Cardinality({j \in B : j < i}) \in Nat /\ Cardinality({j \in A : j < i}) \in Nat
      BY <3>2, FS_Subset, FS_CardinalityType
    <3> QED BY <3>1, <3>3, MaxPointsAssumption
  <2> QED BY <2>2 DEF Oldest
<1>8. \A i \in DOMAIN ps : ps[i].well = rows[i].well
  <2>1. \A r : ToPoint(r).well = r.well
    BY DEF ToPoint
  <2> QED BY <1>1, <2>1
<1>9. DOMAIN q = {i \in DOMAIN ps : ps[i].well = w}
  BY <1>1, <1>2, <1>6, <1>7, <1>8
<1>10. \A i \in DOMAIN q : q[i] = ps[i]
  BY <1>1, <1>2, <1>9
<1> HIDE DEF f
<1>11. q = [i \in DOMAIN q |-> ps[i]]
  BY <1>2, <1>10
<1> QED BY <1>9, <1>11 DEF Restrict

\* The dashboard's wells that founder are those of the tab.
LEMMA Founders ==
  ASSUME NEW rows \in Seq(Run)
  PROVE  FounderAgrees(rows)
<1> SUFFICES ASSUME ~GetRopOptimization(rows, NoFilter).truncated,
                    NEW w \in DOMAIN FootageByWell(Shown(rows))
             PROVE  w \in FounderRate(Shown(rows)).foundered
                      <=> MarkedFounder(ShownPoints(rows, OnlyWell(w))) # None
  BY DEF FounderAgrees
<1> DEFINE ps == Shown(rows)
           byWell == Groups(ps, "well")
           q == GetRopOptimization(rows, Request(OnlyWell(w))).points
           r == Received(q)
<1>1. w \in DOMAIN byWell
  BY DEF FootageByWell
<1>2. /\ ArePoints(q) /\ ArePoints(r) /\ DOMAIN r = DOMAIN q
      /\ \A i \in DOMAIN q : r[i].wob = q[i].wob /\ r[i].rop = q[i].rop
  <2>1. /\ ArePoints(q) /\ ArePoints(r) /\ DOMAIN r = DOMAIN q
        /\ q = [i \in DOMAIN q |-> ToPoint(rows[i])]
    BY AnswerPoints
  <2>2. \A i \in DOMAIN q : \E m : r[i] = [ToPoint(rows[i]) EXCEPT !.mse = m]
    <3> HIDE DEF q
    <3> QED BY <2>1 DEF Received
  <2>3. ASSUME NEW x, NEW m
        PROVE  /\ [ToPoint(x) EXCEPT !.mse = m].wob = ToPoint(x).wob
               /\ [ToPoint(x) EXCEPT !.mse = m].rop = ToPoint(x).rop
    BY DEF ToPoint
  <2> HIDE DEF q, r
  <2>4. ASSUME NEW i \in DOMAIN q PROVE r[i].wob = q[i].wob /\ r[i].rop = q[i].rop
    <3>1. q[i] = ToPoint(rows[i])
      BY <2>1
    <3>2. PICK m : r[i] = [ToPoint(rows[i]) EXCEPT !.mse = m]
      BY <2>2
    <3> QED BY <2>3, <3>1, <3>2
  <2> QED BY <2>1, <2>4
<1>3. ShownPoints(rows, OnlyWell(w)) = r
  BY DEF ShownPoints, OnlyWell
<1>4. IsFiniteSet(DOMAIN ps)
  <2>1. ArePoints(ps)
    BY AnswerPoints DEF Shown
  <2> QED BY <2>1 DEF ArePoints
<1>5. byWell[w] = {i \in DOMAIN ps : ps[i].well = w}
  BY <1>1, <1>4 DEF Groups
<1>6. q = Restrict(ps, byWell[w])
  <2> HIDE DEF ps, q, byWell
  <2>1. q = Restrict(ps, {i \in DOMAIN ps : ps[i].well = w})
    BY AnswerForWell DEF ps, q
  <2> QED BY <1>5, <2>1
<1>7. w \in FounderRate(ps).foundered
        <=> Cardinality(byWell[w]) >= 3 /\ FounderCurve(Restrict(ps, byWell[w])).founder # None
  BY <1>1 DEF FounderRate
<1> HIDE DEF byWell, q, r, ps
<1>8. DOMAIN q = byWell[w] /\ IsFiniteSet(byWell[w])
  BY <1>2, <1>6 DEF Restrict, ArePoints
<1>9. FounderCurve(r) = FounderCurve(q)
  BY <1>2, CurveSame
<1>10. Having(r, "wob") \intersect Having(r, "rop") = byWell[w]
  BY <1>2, <1>8, PointsHave
<1>11. Cardinality(byWell[w]) \in Nat
  BY <1>8, FS_CardinalityType
<1>12. MarkedFounder(r) # None <=> Cardinality(byWell[w]) >= 3 /\ FounderCurve(q).founder # None
  <2>1. MarkedFounder(r) = IF Cardinality(byWell[w]) < 3 THEN None ELSE FounderCurve(q).founder
    BY <1>9, <1>10 DEF MarkedFounder
  <2>2. Cardinality(byWell[w]) < 3 <=> ~(Cardinality(byWell[w]) >= 3)
    BY <1>11
  <2> QED BY <2>1, <2>2
<1> QED BY <1>3, <1>6, <1>7, <1>12 DEF ps

\* What counts as non-productive of a report is what was captured as such.
LEMMA LostIs ==
  ASSUME NEW lines, NEW source \in Sources, NEW acts, acts = ReportOf(lines, source)
  PROVE  Npt(acts) = SheetNpt(acts) /\ Hours(acts, Npt(acts)) = Lost(lines, source)
<1>1. Npt(acts) = SheetNpt(acts)
  BY DEF Npt, SheetNpt
<1>2. CASE source \in {"UNPLANNED", "DOWNTIME"}
  <2>1. \A k \in DOMAIN acts : acts[k].classification = source
    BY <1>2 DEF ReportOf
  <2>2. Npt(acts) = {k \in DOMAIN acts : ~acts[k].isProductive}
    BY <1>2, <2>1 DEF Npt
  <2> QED BY <1>1, <1>2, <2>2 DEF Lost
<1>3. CASE source \in {"imported", "PLANNED"}
  <2>1. \A k \in DOMAIN acts : acts[k].classification = "PLANNED"
    BY <1>3 DEF ReportOf, ImportedActivity
  <2>2. Npt(acts) = {}
    BY <2>1 DEF Npt
  <2>3. Hours(acts, {}) = 0
    <3>1. IsFiniteSet({})
      BY FS_EmptySet
    <3>2. ASSUME NEW v PROVE SumFunctionOnSet(v, {}) = 0
      BY <3>1, SumZero
    <3> QED BY <3>2 DEF Hours
  <2>4. Lost(lines, source) = 0
    BY <1>3 DEF Lost
  <2> QED BY <1>1, <2>2, <2>3, <2>4
<1> QED BY <1>2, <1>3 DEF Sources

\* The dashboard's and the sheet's hours are those, report by report.
LEMMA Reports ==
  ASSUME NEW lines
  PROVE  NptAgrees(lines)
<1> SUFFICES ASSUME NEW n \in 1..(MaxReports + 1), NEW sources \in [1..n -> Sources],
                    NEW reports, reports = [r \in DOMAIN sources |-> ReportOf(lines, sources[r])],
                    NEW lost, lost = [r \in DOMAIN sources |-> Lost(lines, sources[r])]
             PROVE  /\ NptHours(reports) = SumFunctionOnSet(lost, DOMAIN lost)
                    /\ SheetNptHours(reports)
                         = SumFunctionOnSet(lost, {r \in DOMAIN lost : r <= MaxReports})
  BY DEF NptAgrees
<1>1. DOMAIN reports = 1..n /\ DOMAIN lost = 1..n
  OBVIOUS
<1>2. ASSUME NEW r \in 1..n
      PROVE  /\ Hours(reports[r], Npt(reports[r])) = lost[r]
             /\ Hours(reports[r], SheetNpt(reports[r])) = lost[r]
  <2>1. sources[r] \in Sources /\ reports[r] = ReportOf(lines, sources[r])
        /\ lost[r] = Lost(lines, sources[r])
    OBVIOUS
  <2> QED BY <2>1, LostIs
<1>3. lost = [r \in 1..n |-> lost[r]]
  OBVIOUS
<1>4. /\ [r \in DOMAIN reports |-> Hours(reports[r], Npt(reports[r]))] = lost
      /\ [r \in DOMAIN reports |-> Hours(reports[r], SheetNpt(reports[r]))] = lost
  BY <1>1, <1>2, <1>3
<1> QED BY <1>1, <1>4 DEF NptHours, SheetNptHours

\* What the dashboard adds up is what the tab and the exported sheet show one
\* by one, but for negative footage and the reports beyond the sheet's limit.
THEOREM DashboardAgreement == Spec => []DashboardAgrees
<1>1. RunsInv => DashboardAgrees
  <2>1. ASSUME NEW rows \in Seq(Run)
        PROVE  RollupsAgree(Shown(rows)) /\ ViewsAgree(Received(Shown(rows))) /\ FounderAgrees(rows)
    <3>1. ArePoints(Shown(rows)) /\ ArePoints(Received(Shown(rows)))
      BY AnswerPoints DEF Shown
    <3> QED BY <3>1, Rollups, Views, Founders
  <2>2. ASSUME NEW lines PROVE NptAgrees(lines)
    BY Reports
  <2> QED BY <2>1, <2>2 DEF RunsInv, DashboardAgrees
<1> QED BY <1>1, RunsInvInvariant, PTL

-----------------------------------------------------------------------------
(***************************************************************************)
(* Founder detection.                                                      *)
(***************************************************************************)
\* The points of a sweep are recorded ones.
SweepPoint == [wob : Nat, rop : Nat \union {None}]
SweepInv == subject = "sweep" => input \in Seq(SweepPoint)

\* The points of a sweep are recorded ones.
LEMMA SweepInvInvariant == Spec => []SweepInv
<1>1. Init => SweepInv
  BY DEF Init, SweepInv
<1>2. SweepInv /\ [Next]_vars => SweepInv'
  <2> SUFFICES ASSUME SweepInv, [Next]_vars, subject' = "sweep"
               PROVE  input' \in Seq(SweepPoint)
    BY DEF SweepInv
  <2>1. CASE RecordPoint
    <3>1. PICK w \in 0..MaxValue, r \in Rops \union {None} :
            input' = Append(input, [wob |-> w, rop |-> r])
      BY <2>1 DEF RecordPoint
    <3>2. [wob |-> w, rop |-> r] \in SweepPoint
      BY MaxValueAssumption DEF SweepPoint
    <3>3. input \in Seq(SweepPoint)
      BY <2>1 DEF RecordPoint, SweepInv
    <3> QED BY <3>1, <3>2, <3>3
  <2>2. CASE UNCHANGED vars
    BY <2>2 DEF vars, SweepInv
  <2> QED BY <2>1, <2>2
          DEF Next, RecordRun, WriteLine, PlaceText, Edit, Export, Import, Exchange
<1> QED BY <1>1, <1>2, PTL DEF Spec

\* The points of a sweep that have both values, and those in a bin.
Complete(ps) == Having(ps, "wob") \intersect Having(ps, "rop")
Wobs(ps) == {ps[i].wob : i \in Complete(ps)}
BinOf(ps, i) == Bin(ps[i].wob, Min(Wobs(ps)), Max(Wobs(ps)), Bins)
Binned(ps, b) == {i \in Complete(ps) : BinOf(ps, i) = b}
IsFlat(ps) == Cardinality(Complete(ps)) < 3 \/ Min(Wobs(ps)) = Max(Wobs(ps))
RopsOf(ps) == Column(Restrict(ps, Complete(ps)), "rop")

\* What a sweep holds.
LEMMA SweepIs ==
  ASSUME NEW ps \in Seq(SweepPoint)
  PROVE  /\ Len(ps) \in Nat /\ DOMAIN ps = 1..Len(ps)
         /\ \A i \in DOMAIN ps : ps[i].wob \in Nat /\ ps[i].rop \in Nat \union {None}
         /\ Complete(ps) = {i \in DOMAIN ps : ps[i].rop # None}
         /\ Complete(ps) \subseteq DOMAIN ps /\ IsFiniteSet(DOMAIN ps) /\ IsFiniteSet(Complete(ps))
         /\ \A i \in Complete(ps) : RopsOf(ps)[i] = ps[i].rop /\ ps[i].rop \in Nat
         /\ IsFiniteSet(Wobs(ps)) /\ \A x \in Wobs(ps) : x \in Nat
         /\ \A i \in Complete(ps) : ps[i].wob \in Wobs(ps)
<1>1. /\ Len(ps) \in Nat /\ DOMAIN ps = 1..Len(ps)
      /\ \A i \in DOMAIN ps : ps[i].wob \in Nat /\ ps[i].rop \in Nat \union {None}
  <2>1. Len(ps) \in Nat /\ DOMAIN ps = 1..Len(ps) /\ \A i \in DOMAIN ps : ps[i] \in SweepPoint
    OBVIOUS
  <2> QED BY <2>1 DEF SweepPoint
<1>2. IsFiniteSet(DOMAIN ps)
  BY <1>1, FS_Interval
<1>3. Complete(ps) = {i \in DOMAIN ps : ps[i].rop # None}
  BY <1>1, NoneAssumption DEF Complete, Having
<1>4. Complete(ps) \subseteq DOMAIN ps /\ IsFiniteSet(Complete(ps))
  BY <1>2, <1>3, FS_Subset
<1>5. \A i \in Complete(ps) : RopsOf(ps)[i] = ps[i].rop /\ ps[i].rop \in Nat
  BY <1>1, <1>3 DEF RopsOf, Column, Restrict
<1>6. IsFiniteSet(Wobs(ps))
  <2> DEFINE v == [i \in Complete(ps) |-> ps[i].wob]
  <2>1. IsFiniteSet({v[i] : i \in Complete(ps)})
    BY <1>4, Image
  <2>2. {v[i] : i \in Complete(ps)} = Wobs(ps)
    BY DEF Wobs
  <2> QED BY <2>1, <2>2
<1>7. (\A x \in Wobs(ps) : x \in Nat) /\ \A i \in Complete(ps) : ps[i].wob \in Wobs(ps)
  BY <1>1, <1>4 DEF Wobs
<1> QED BY <1>1, <1>2, <1>3, <1>4, <1>5, <1>6, <1>7

\* The curve of a sweep, bin by bin.
LEMMA CurveIs ==
  ASSUME NEW ps \in Seq(SweepPoint), NEW c, c = CurveOf(ps)
  PROVE  /\ DOMAIN c = {b \in 0..(Bins - 1) : ~IsFlat(ps) /\ Binned(ps, b) # {}}
         /\ \A b \in DOMAIN c :
              /\ c[b].points = Binned(ps, b)
              /\ c[b].rop = <<SumFunctionOnSet(RopsOf(ps), Binned(ps, b)), Cardinality(Binned(ps, b))>>
<1> DEFINE P == Restrict(ps, Having(ps, "wob") \intersect Having(ps, "rop"))
           W == {P[i].wob : i \in DOMAIN P}
           in(b) == {i \in DOMAIN P : Bin(P[i].wob, Min(W), Max(W), Bins) = b}
           flat == Cardinality(DOMAIN P) < 3 \/ Min(W) = Max(W)
           D == {b \in 0..(Bins - 1) : ~flat /\ in(b) # {}}
<1>1. c = [b \in D |->
             [points |-> in(b),
              rop |-> <<SumFunctionOnSet(Column(P, "rop"), in(b)), Cardinality(in(b))>>]]
  BY DEF CurveOf, Curve
<1>2. DOMAIN P = Complete(ps) /\ \A i \in DOMAIN P : P[i] = ps[i]
  BY DEF Restrict, Complete
<1>3. Column(P, "rop") = RopsOf(ps)
  BY DEF RopsOf, Complete
<1> HIDE DEF P
<1>4. W = Wobs(ps)
  BY <1>2 DEF Wobs
<1> HIDE DEF W
<1>5. \A b : in(b) = Binned(ps, b)
  BY <1>2, <1>4 DEF Binned, BinOf
<1>6. flat <=> IsFlat(ps)
  BY <1>2, <1>4 DEF IsFlat
<1> HIDE DEF in, flat
<1>7. D = {b \in 0..(Bins - 1) : ~IsFlat(ps) /\ Binned(ps, b) # {}}
  BY <1>5, <1>6
<1> HIDE DEF D
<1>8. DOMAIN c = D /\ \A b \in D : c[b] =
        [points |-> in(b), rop |-> <<SumFunctionOnSet(Column(P, "rop"), in(b)), Cardinality(in(b))>>]
  BY <1>1
<1>9. \A b \in D : /\ c[b].points = in(b)
                  /\ c[b].rop = <<SumFunctionOnSet(Column(P, "rop"), in(b)), Cardinality(in(b))>>
  BY <1>8
<1> QED BY <1>3, <1>5, <1>7, <1>8, <1>9

\* The bin of a point is one of the bins.
LEMMA BinOfIs ==
  ASSUME NEW ps \in Seq(SweepPoint), ~IsFlat(ps), NEW i \in Complete(ps)
  PROVE  BinOf(ps, i) \in 0..(Bins - 1)
<1>1. IsFiniteSet(Wobs(ps)) /\ (\A x \in Wobs(ps) : x \in Nat) /\ ps[i].wob \in Wobs(ps)
  BY SweepIs
<1>2. Cell(ps[i].wob, Min(Wobs(ps)), Max(Wobs(ps)), Bins) \in 0..(Bins - 1)
  BY <1>1, CellInRange, BinsAssumption
<1>3. Min(Wobs(ps)) < Max(Wobs(ps))
  <2>1. /\ Min(Wobs(ps)) \in Wobs(ps) /\ \A y \in Wobs(ps) : Min(Wobs(ps)) <= y
        /\ Max(Wobs(ps)) \in Wobs(ps)
    <3>1. Wobs(ps) \in SUBSET Int /\ Wobs(ps) # {}
      BY <1>1
    <3> QED BY <1>1, <3>1, MinMax
  <2>2. Min(Wobs(ps)) # Max(Wobs(ps))
    BY DEF IsFlat
  <2> QED BY <1>1, <2>1, <2>2
<1>4. Max(Wobs(ps)) > Min(Wobs(ps))
  <2>1. Min(Wobs(ps)) \in Int /\ Max(Wobs(ps)) \in Int
    <3>1. Wobs(ps) \in SUBSET Int /\ Wobs(ps) # {}
      BY <1>1
    <3> QED BY <1>1, <3>1, MinMax
  <2> QED BY <1>3, <2>1
<1> QED BY <1>2, <1>4 DEF Cell, BinOf

\* Every point with both values is in one bin.
LEMMA BinnedOnce ==
  ASSUME NEW ps \in Seq(SweepPoint)
  PROVE  EveryPointIsBinned(ps)
<1> DEFINE c == CurveOf(ps)
           bins == [b \in DOMAIN c |-> c[b].points]
           H == Having(ps, "wob") \intersect Having(ps, "rop")
<1> SUFFICES ASSUME bins # <<>> PROVE Partition(bins, H)
  BY DEF EveryPointIsBinned
<1>1. /\ DOMAIN c = {b \in 0..(Bins - 1) : ~IsFlat(ps) /\ Binned(ps, b) # {}}
      /\ \A b \in DOMAIN c : c[b].points = Binned(ps, b)
  <2>1. c = CurveOf(ps)
    OBVIOUS
  <2> HIDE DEF c
  <2> QED BY <2>1, CurveIs
<1>2. H = Complete(ps)
  BY DEF Complete
<1> HIDE DEF c, H
<1>3. DOMAIN bins = DOMAIN c /\ \A b \in DOMAIN c : bins[b] = Binned(ps, b)
  BY <1>1
<1>4. DOMAIN c # {}
  <2>1. ASSUME DOMAIN c = {} PROVE bins = <<>>
    BY <2>1
  <2> HIDE DEF bins
  <2> QED BY <2>1
<1> HIDE DEF bins
<1>5. ~IsFlat(ps)
  BY <1>1, <1>4
<1>6. \A i \in H : \E b \in DOMAIN bins : i \in bins[b]
  <2> TAKE i \in H
  <2>1. BinOf(ps, i) \in 0..(Bins - 1) /\ i \in Binned(ps, BinOf(ps, i))
    BY <1>2, <1>5, BinOfIs DEF Binned
  <2> QED BY <1>1, <1>3, <1>5, <2>1
<1>7. \A b \in DOMAIN bins : bins[b] \subseteq H
  BY <1>2, <1>3 DEF Binned
<1>8. \A b, d \in DOMAIN bins : b # d => bins[b] \intersect bins[d] = {}
  BY <1>3 DEF Binned
<1>9. UNION {bins[b] : b \in DOMAIN bins} = H
  <2>1. \A x : x \in UNION {bins[b] : b \in DOMAIN bins} <=> \E b \in DOMAIN bins : x \in bins[b]
    BY Zenon
  <2> QED BY <1>6, <1>7, <2>1, Zenon
<1> QED BY <1>8, <1>9 DEF Partition

\* A sweep has a curve.
LEMMA CurveIsCurve ==
  ASSUME NEW ps \in Seq(SweepPoint), NEW c, c = CurveOf(ps)
  PROVE  IsCurve(c)
<1>1. /\ DOMAIN c = {b \in 0..(Bins - 1) : ~IsFlat(ps) /\ Binned(ps, b) # {}}
      /\ \A b \in DOMAIN c :
           c[b].rop = <<SumFunctionOnSet(RopsOf(ps), Binned(ps, b)), Cardinality(Binned(ps, b))>>
  BY CurveIs
<1>2. IsFiniteSet(DOMAIN c)
  <2>1. IsFiniteSet(0..(Bins - 1))
    BY BinsAssumption, FS_Interval
  <2>2. DOMAIN c \subseteq 0..(Bins - 1)
    BY <1>1
  <2> QED BY <2>1, <2>2, FS_Subset
<1>3. ASSUME NEW b \in DOMAIN c PROVE b \in Nat /\ IsQuotient(c[b].rop)
  <2>1. /\ IsFiniteSet(Complete(ps))
        /\ \A i \in Complete(ps) : RopsOf(ps)[i] \in Int
    BY SweepIs
  <2>2. Binned(ps, b) \in SUBSET Complete(ps) /\ Binned(ps, b) # {}
    BY <1>1 DEF Binned
  <2>3. SumFunctionOnSet(RopsOf(ps), Binned(ps, b)) \in Int
    BY <2>1, <2>2, SumAdd
  <2>4. Cardinality(Binned(ps, b)) \in Nat \ {0}
    <3>1. IsFiniteSet(Binned(ps, b))
      BY <2>1, <2>2, FS_Subset
    <3> QED BY <2>2, <3>1, FS_EmptySet, FS_CardinalityType
  <2>5. b \in Nat
    BY <1>1, BinsAssumption
  <2> QED BY <1>1, <2>3, <2>4, <2>5 DEF IsQuotient
<1> QED BY <1>2, <1>3 DEF IsCurve

\* The recommended bin is of the curve, and the fastest up to it.
LEMMA Optimum ==
  ASSUME NEW ps \in Seq(SweepPoint)
  PROVE  OptimumIsFastest(ps)
<1> DEFINE o == FounderCurve(ps).optimal
<1> SUFFICES ASSUME NEW c, c = CurveOf(ps), o # None
             PROVE  o \in DOMAIN c /\ \A b \in DOMAIN c : b < o => Less(c[b].rop, c[o].rop)
  BY DEF OptimumIsFastest
<1>1. IsCurve(c)
  BY CurveIsCurve
<1>2. o = FounderOf(c).optimal
  BY DEF FounderCurve
<1> HIDE DEF o
<1>3. Rises(c)
  BY <1>2 DEF FounderOf
<1> DEFINE D == DOMAIN c
           F == Fallen(c)
<1>4. IsFiniteSet(D) /\ (\A x \in D : x \in Int) /\ Cardinality(D) >= 2
  BY <1>1, <1>3 DEF IsCurve, Rises
<1>5. CASE F = {}
  <2>1. o = Max(D)
    BY <1>2, <1>3, <1>5 DEF FounderOf
  <2>2. D \in SUBSET Int /\ D # {}
    <3> HIDE DEF D
    <3> QED BY <1>4, FS_EmptySet
  <2>3. o \in D
    <3> HIDE DEF D
    <3> QED BY <1>4, <2>1, <2>2, MinMax
  <2> QED BY <1>1, <1>3, <1>5, <2>3, Fastest
<1>6. CASE F # {}
  <2>1. o = Before(D, Min(F))
    BY <1>2, <1>3, <1>6 DEF FounderOf
  <2>2. F \subseteq D /\ \A x \in F : x > Second(D)
    BY DEF Fallen
  <2>3. Min(F) \in F /\ \A y \in F : Min(F) <= y
    <3>1. F \in SUBSET Int /\ IsFiniteSet(F)
      BY <1>4, <2>2, FS_Subset
    <3> HIDE DEF F
    <3> QED BY <1>6, <3>1, MinMax
  <2> HIDE DEF D, F
  <2>4. Second(D) \in D
    BY <1>4, SecondIs
  <2>5. o \in D /\ o < Min(F)
    BY <1>4, <2>1, <2>2, <2>3, <2>4, BeforeIs
  <2>6. \A x \in D : x <= o => x \notin F
    BY <1>4, <2>2, <2>3, <2>5
  <2> QED BY <1>1, <1>3, <2>5, <2>6, Fastest DEF D, F
<1> QED BY <1>5, <1>6

\* A sweep in even steps with one point for each bin.
EvenSteps(ps) ==
  /\ Bins >= 3 /\ Len(ps) = Bins
  /\ \A k \in 1..Bins : ps[k].wob = k - 1 /\ ps[k].rop # None

\* Each of its points is in a bin of its own.
LEMMA EvenBins ==
  ASSUME NEW ps \in Seq(SweepPoint), EvenSteps(ps)
  PROVE  /\ Complete(ps) = 1..Bins /\ ~IsFlat(ps)
         /\ \A b \in 0..(Bins - 1) : Binned(ps, b) = {b + 1}
<1>0. /\ Bins \in Nat /\ Bins >= 3 /\ Len(ps) = Bins /\ DOMAIN ps = 1..Bins
      /\ \A k \in 1..Bins : ps[k].wob = k - 1 /\ ps[k].rop # None
  BY SweepIs, BinsAssumption DEF EvenSteps
<1>1. Complete(ps) = 1..Bins
  BY <1>0, SweepIs
<1>2. Wobs(ps) = 0..(Bins - 1)
  <2>1. \A x \in Wobs(ps) : x \in 0..(Bins - 1)
    BY <1>0, <1>1 DEF Wobs
  <2>2. ASSUME NEW x \in 0..(Bins - 1) PROVE x \in Wobs(ps)
    <3>1. x + 1 \in Complete(ps) /\ ps[x + 1].wob = x
      BY <1>0, <1>1
    <3> QED BY <3>1 DEF Wobs
  <2> QED BY <2>1, <2>2
<1>3. Min(Wobs(ps)) = 0 /\ Max(Wobs(ps)) = Bins - 1
  <2>1. Wobs(ps) \in SUBSET Int /\ Wobs(ps) # {} /\ IsFiniteSet(Wobs(ps))
    <3>1. IsFiniteSet(0..(Bins - 1)) /\ 0 \in 0..(Bins - 1)
      BY <1>0, FS_Interval
    <3> QED BY <1>2, <3>1
  <2>2. /\ Min(Wobs(ps)) \in Wobs(ps) /\ \A y \in Wobs(ps) : Min(Wobs(ps)) <= y
        /\ Max(Wobs(ps)) \in Wobs(ps) /\ \A y \in Wobs(ps) : Max(Wobs(ps)) >= y
    BY <2>1, MinMax
  <2>3. 0 \in Wobs(ps) /\ Bins - 1 \in Wobs(ps)
    BY <1>0, <1>2
  <2>4. Min(Wobs(ps)) \in 0..(Bins - 1) /\ Max(Wobs(ps)) \in 0..(Bins - 1)
    BY <1>2, <2>2
  <2>5. Min(Wobs(ps)) <= 0 /\ Max(Wobs(ps)) >= Bins - 1
    BY <2>2, <2>3
  <2> QED BY <1>0, <2>4, <2>5
<1>4. ~IsFlat(ps)
  <2>1. Cardinality(Complete(ps)) = Bins
    <3>1. Cardinality(1..Bins) = Bins
      BY <1>0, FS_Interval
    <3> QED BY <1>1, <3>1
  <2> QED BY <1>0, <1>3, <2>1 DEF IsFlat
<1>5. ASSUME NEW k \in 1..Bins PROVE BinOf(ps, k) = k - 1
  <2> DEFINE q == ((k - 1 - 0) * Bins) \div (Bins - 1 - 0)
             S == {q, Bins - 1}
  <2>1. BinOf(ps, k) = Min(S)
    BY <1>0, <1>3 DEF BinOf, Bin
  <2>2. q = IF k = Bins THEN Bins ELSE k - 1
    <3>1. CASE k = Bins
      <4>1. (k - 1 - 0) * Bins = Bins * (Bins - 1) + 0
        BY <1>0, <3>1
      <4>2. (Bins * (Bins - 1) + 0) \div (Bins - 1) = Bins
        <5>1. Bins - 1 \in Nat \ {0} /\ 0 \in 0..((Bins - 1) - 1)
          BY <1>0
        <5> QED BY <1>0, <5>1, DivUnique
      <4>3. Bins - 1 - 0 = Bins - 1
        BY <1>0
      <4> QED BY <3>1, <4>1, <4>2, <4>3
    <3>2. CASE k # Bins
      <4>1. (k - 1 - 0) * Bins = (k - 1) * (Bins - 1) + (k - 1)
        BY <1>0
      <4>2. ((k - 1) * (Bins - 1) + (k - 1)) \div (Bins - 1) = k - 1
        <5>1. Bins - 1 \in Nat \ {0} /\ k - 1 \in 0..((Bins - 1) - 1) /\ k - 1 \in Nat
          BY <1>0, <3>2
        <5> QED BY <5>1, DivUnique
      <4>3. Bins - 1 - 0 = Bins - 1
        BY <1>0
      <4> QED BY <3>2, <4>1, <4>2, <4>3
    <3> QED BY <3>1, <3>2
  <2> HIDE DEF q
  <2>3. Min(S) \in S /\ \A y \in S : Min(S) <= y
    <3>1. S \in SUBSET Int /\ S # {} /\ IsFiniteSet(S)
      <4>1. IsFiniteSet(S)
        BY FinitePair
      <4> QED BY <1>0, <2>2, <4>1
    <3> HIDE DEF S
    <3> QED BY <3>1, MinMax
  <2>4. \/ Min(S) = q /\ q <= Bins - 1
        \/ Min(S) = Bins - 1 /\ Bins - 1 <= q
    BY <2>3
  <2> HIDE DEF S
  <2> QED BY <1>0, <2>1, <2>2, <2>4
<1>6. \A b \in 0..(Bins - 1) : Binned(ps, b) = {b + 1}
  <2> TAKE b \in 0..(Bins - 1)
  <2>1. \A k \in 1..Bins : BinOf(ps, k) = b <=> k = b + 1
    BY <1>0, <1>5
  <2>2. b + 1 \in 1..Bins
    BY <1>0
  <2> QED BY <1>1, <2>1, <2>2 DEF Binned
<1> QED BY <1>1, <1>4, <1>6

\* The slope of a step of such a sweep, and the steps where its founder is
\* looked for.
Rate(ps, i) == <<ps[i].rop - ps[i - 1].rop, 1>>
Steps(ps, mse, t) ==
  {i \in 3..Bins : Less(Rate(ps, i), Share(t, Rate(ps, 2))) /\ mse[i] >= mse[i - 1]}

\* The curve of such a sweep has its points.
LEMMA EvenCurve ==
  ASSUME NEW ps \in Seq(SweepPoint), EvenSteps(ps), NEW c, c = CurveOf(ps)
  PROVE  /\ DOMAIN c = 0..(Bins - 1)
         /\ Min(DOMAIN c) = 0 /\ Second(DOMAIN c) = 1 /\ Cardinality(DOMAIN c) = Bins
         /\ \A b \in 1..(Bins - 1) : Before(DOMAIN c, b) = b - 1
         /\ \A b \in 1..(Bins - 1) :
              CurveSlope(b - 1, b, c) = <<ps[b + 1].rop - ps[b].rop, 1>>
<1>0. /\ Bins \in Nat /\ Bins >= 3 /\ Complete(ps) = 1..Bins /\ ~IsFlat(ps)
      /\ \A b \in 0..(Bins - 1) : Binned(ps, b) = {b + 1}
  BY EvenBins, BinsAssumption DEF EvenSteps
<1>1. /\ DOMAIN c = {b \in 0..(Bins - 1) : ~IsFlat(ps) /\ Binned(ps, b) # {}}
      /\ \A b \in DOMAIN c :
           c[b].rop = <<SumFunctionOnSet(RopsOf(ps), Binned(ps, b)), Cardinality(Binned(ps, b))>>
  BY CurveIs
<1>2. DOMAIN c = 0..(Bins - 1)
  BY <1>0, <1>1
<1>3. \A i \in 1..Bins : ps[i].rop \in Nat /\ RopsOf(ps)[i] = ps[i].rop
  BY <1>0, SweepIs
<1>4. \A b \in 0..(Bins - 1) : c[b].rop = <<ps[b + 1].rop, 1>>
  <2> TAKE b \in 0..(Bins - 1)
  <2>1. b + 1 \in 1..Bins
    BY <1>0
  <2>2. SumFunctionOnSet(RopsOf(ps), {b + 1}) = ps[b + 1].rop
    <3>1. RopsOf(ps)[b + 1] = ps[b + 1].rop /\ ps[b + 1].rop \in Int
      BY <1>3, <2>1
    <3> QED BY <3>1, SumOne
  <2>3. Cardinality({b + 1}) = 1
    BY FS_Singleton
  <2>4. c[b].rop = <<SumFunctionOnSet(RopsOf(ps), {b + 1}), Cardinality({b + 1})>>
    BY <1>0, <1>1, <1>2
  <2> QED BY <2>2, <2>3, <2>4
<1>5. Cardinality(DOMAIN c) = Bins /\ IsFiniteSet(DOMAIN c)
  <2>1. Cardinality(0..(Bins - 1)) = Bins /\ IsFiniteSet(0..(Bins - 1))
    BY <1>0, FS_Interval
  <2> QED BY <1>2, <2>1
<1> DEFINE D == DOMAIN c
<1>6. D = 0..(Bins - 1) /\ IsFiniteSet(D) /\ Cardinality(D) >= 2 /\ \A x \in D : x \in Int
  BY <1>0, <1>2, <1>5
<1>7. Min(D) = 0 /\ Second(D) = 1
  <2> HIDE DEF D
  <2>1. /\ Min(D) \in D /\ Second(D) \in D /\ Min(D) < Second(D)
        /\ \A a \in D : a = Min(D) \/ a >= Second(D)
        /\ \A a \in D : a >= Min(D)
    BY <1>6, SecondIs
  <2>2. 0 \in D /\ 1 \in D
    BY <1>0, <1>6
  <2>3. Min(D) \in Nat /\ Second(D) \in Nat /\ 0 >= Min(D)
    BY <1>0, <1>6, <2>1, <2>2
  <2> QED BY <2>1, <2>2, <2>3
<1>8. \A b \in 1..(Bins - 1) : Before(D, b) = b - 1
  <2> TAKE b \in 1..(Bins - 1)
  <2>1. b - 1 \in D /\ b - 1 < b /\ b \in Int
    BY <1>0, <1>6
  <2> HIDE DEF D
  <2>2. /\ Before(D, b) \in D /\ Before(D, b) < b
        /\ \A a \in D : a < b => a <= Before(D, b)
    BY <1>6, <2>1, BeforeIs
  <2>3. Before(D, b) \in Int /\ b - 1 <= Before(D, b)
    BY <1>6, <2>1, <2>2
  <2> QED BY <2>1, <2>2, <2>3
<1>9. \A b \in 1..(Bins - 1) : CurveSlope(b - 1, b, c) = <<ps[b + 1].rop - ps[b].rop, 1>>
  <2> TAKE b \in 1..(Bins - 1)
  <2>1. /\ b - 1 \in 0..(Bins - 1) /\ b \in 0..(Bins - 1) /\ (b - 1) + 1 = b /\ b - (b - 1) = 1
        /\ b \in 1..Bins /\ b + 1 \in 1..Bins
    BY <1>0
  <2>2. c[b - 1].rop = <<ps[b].rop, 1>> /\ c[b].rop = <<ps[b + 1].rop, 1>>
    BY <1>4, <2>1
  <2>3. CurveSlope(b - 1, b, c) = <<ps[b + 1].rop * 1 - ps[b].rop * 1, 1 * 1 * 1>>
    BY <2>1, <2>2 DEF CurveSlope
  <2>4. ps[b + 1].rop \in Int /\ ps[b].rop \in Int
    BY <1>3, <2>1
  <2> QED BY <2>3, <2>4
<1> QED BY <1>2, <1>5, <1>7, <1>8, <1>9

\* Of a sweep in even steps, the detector on series looks at the same steps.
LEMMA DetectIs ==
  ASSUME NEW ps \in Seq(SweepPoint), EvenSteps(ps), NEW mse, NEW t,
         NEW flat, flat = Steps(ps, mse, t)
  PROVE  DetectFounder(ps, mse, t) =
           IF ~Rises(CurveOf(ps)) \/ flat = {} THEN None ELSE Min(flat) - 1
<1> DEFINE c == CurveOf(ps)
           D == DOMAIN c
           slope(i) == IF ps[i].wob = ps[i - 1].wob THEN <<0, 1>>
                       ELSE <<ps[i].rop - ps[i - 1].rop, ps[i].wob - ps[i - 1].wob>>
           F == {i \in DOMAIN ps : /\ i >= 3
                                   /\ Less(slope(i), Share(t, slope(2)))
                                   /\ mse[i] >= mse[i - 1]}
<1>1. DetectFounder(ps, mse, t) =
        IF Cardinality(DOMAIN ps) < 3 \/ slope(2)[1] <= 0 \/ F = {} THEN None ELSE Min(F) - 1
  BY DEF DetectFounder
<1>2. /\ Bins \in Nat /\ Bins >= 3 /\ Len(ps) = Bins /\ DOMAIN ps = 1..Bins
      /\ \A k \in 1..Bins : ps[k].wob = k - 1 /\ ps[k].rop \in Int
  <2>1. \A k \in DOMAIN ps : ps[k].rop \in Nat \union {None}
    BY SweepIs
  <2> QED BY <2>1, SweepIs, BinsAssumption DEF EvenSteps
<1>3. /\ D = 0..(Bins - 1)
      /\ Min(D) = 0 /\ Second(D) = 1 /\ Cardinality(D) = Bins
      /\ \A b \in 1..(Bins - 1) : Before(D, b) = b - 1
      /\ \A b \in 1..(Bins - 1) : CurveSlope(b - 1, b, c) = <<ps[b + 1].rop - ps[b].rop, 1>>
  <2>1. c = CurveOf(ps)
    OBVIOUS
  <2> HIDE DEF c
  <2> QED BY <2>1, EvenCurve
<1>4. Cardinality(DOMAIN ps) = Bins
  <2>1. Cardinality(1..Bins) = Bins
    BY <1>2, FS_Interval
  <2> QED BY <1>2, <2>1
<1>5. \A i \in 2..Bins : slope(i) = CurveSlope(i - 2, i - 1, c)
  <2> TAKE i \in 2..Bins
  <2>1. i \in 1..Bins /\ i - 1 \in 1..Bins /\ i - 1 \in 1..(Bins - 1) /\ (i - 1) - 1 = i - 2
        /\ (i - 1) + 1 = i
    BY <1>2
  <2>2. ps[i].wob = i - 1 /\ ps[i - 1].wob = i - 2
    BY <1>2, <2>1
  <2>3. slope(i) = <<ps[i].rop - ps[i - 1].rop, 1>>
    <3>1. (i - 1) - (i - 2) = 1 /\ i - 1 # i - 2
      OBVIOUS
    <3> QED BY <2>2, <3>1
  <2>4. CurveSlope((i - 1) - 1, i - 1, c) = <<ps[(i - 1) + 1].rop - ps[i - 1].rop, 1>>
    <3> HIDE DEF c, D
    <3> QED BY <1>3, <2>1
  <2> QED BY <2>1, <2>3, <2>4
<1> HIDE DEF slope, D
<1>6. CurveSlope(0, 1, c) = slope(2)
  <2>1. 2 \in 2..Bins /\ 2 - 2 = 0 /\ 2 - 1 = 1
    BY <1>2
  <2>2. slope(2) = CurveSlope(2 - 2, 2 - 1, c)
    BY <1>5, <2>1
  <2> QED BY <2>1, <2>2
<1>7. slope(2)[1] <= 0 <=> ~Rises(c)
  <2>1. Rises(c) <=> slope(2)[1] > 0
    <3>1. Cardinality(D) >= 2
      BY <1>2, <1>3
    <3> HIDE DEF c
    <3> QED BY <1>3, <1>6, <3>1 DEF Rises, D
  <2>2. slope(2)[1] \in Int
    <3>1. slope(2) = <<ps[2].rop - ps[1].rop, 1>>
      <4>1. 1 \in 1..(Bins - 1) /\ 1 - 1 = 0 /\ 1 + 1 = 2
        BY <1>2
      <4>2. CurveSlope(1 - 1, 1, c) = <<ps[1 + 1].rop - ps[1].rop, 1>>
        <5> HIDE DEF c
        <5> QED BY <1>3, <4>1
      <4> QED BY <1>6, <4>1, <4>2
    <3>2. ps[2].rop \in Int /\ ps[1].rop \in Int
      BY <1>2
    <3> QED BY <3>1, <3>2
  <2> QED BY <2>1, <2>2
<1>8. \A i \in 2..Bins : slope(i) = Rate(ps, i)
  <2> TAKE i \in 2..Bins
  <2>1. i \in 1..Bins /\ i - 1 \in 1..Bins /\ (i - 1) - 1 = i - 2
    BY <1>2
  <2>2. ps[i].wob = i - 1 /\ ps[i - 1].wob = i - 2
    BY <1>2, <2>1
  <2>3. (i - 1) - (i - 2) = 1 /\ i - 1 # i - 2
    OBVIOUS
  <2> QED BY <2>2, <2>3 DEF Rate, slope
<1>9. F = flat
  <2>1. \A i : i \in F <=> i \in 3..Bins /\ Less(slope(i), Share(t, slope(2))) /\ mse[i] >= mse[i - 1]
    BY <1>2
  <2>2. \A i : i \in flat <=> i \in 3..Bins /\ Less(Rate(ps, i), Share(t, Rate(ps, 2))) /\ mse[i] >= mse[i - 1]
    BY DEF Steps
  <2>3. 2 \in 2..Bins /\ \A i \in 3..Bins : i \in 2..Bins
    BY <1>2
  <2> HIDE DEF F, c
  <2> QED BY <1>8, <2>1, <2>2, <2>3
<1> HIDE DEF F
<1>10. DetectFounder(ps, mse, t) = IF ~Rises(c) \/ flat = {} THEN None ELSE Min(flat) - 1
  <2>1. ~(Bins < 3)
    BY <1>2
  <2> HIDE DEF c
  <2> QED BY <1>1, <1>4, <1>7, <1>9, <2>1
<1> QED BY <1>10

\* The steps at which its curve has fallen.
LEMMA FallenIs ==
  ASSUME NEW ps \in Seq(SweepPoint), EvenSteps(ps), NEW c, c = CurveOf(ps), NEW i \in 3..Bins
  PROVE  i - 1 \in Fallen(c) <=> Less(Rate(ps, i), Share(Threshold, Rate(ps, 2)))
<1> DEFINE D == DOMAIN c
<1>1. /\ D = 0..(Bins - 1) /\ Min(D) = 0 /\ Second(D) = 1
      /\ \A b \in 1..(Bins - 1) : Before(D, b) = b - 1
      /\ \A b \in 1..(Bins - 1) : CurveSlope(b - 1, b, c) = <<ps[b + 1].rop - ps[b].rop, 1>>
  BY EvenCurve
<1>2. /\ i - 1 \in 0..(Bins - 1) /\ i - 1 > 1 /\ i - 1 \in 1..(Bins - 1)
      /\ (i - 1) - 1 = i - 2 /\ (i - 1) + 1 = i
      /\ 1 \in 1..(Bins - 1) /\ 1 - 1 = 0 /\ 1 + 1 = 2 /\ 2 - 1 = 1
  BY BinsAssumption
<1>3. i - 1 \in D /\ i - 1 > Second(D) /\ Before(D, i - 1) = i - 2
  BY <1>1, <1>2
<1>4. i - 1 \in Fallen(c) <=>
        Less(CurveSlope(Before(D, i - 1), i - 1, c), Share(Threshold, CurveSlope(Min(D), Second(D), c)))
  BY <1>3 DEF Fallen
<1> HIDE DEF D
<1>5. CurveSlope((i - 1) - 1, i - 1, c) = Rate(ps, i)
  BY <1>1, <1>2 DEF Rate
<1>6. CurveSlope(1 - 1, 1, c) = Rate(ps, 2)
  BY <1>1, <1>2 DEF Rate
<1> QED BY <1>1, <1>2, <1>3, <1>4, <1>5, <1>6

\* A step that is too flat for the smaller share is so for the larger one.
LEMMA FlatterShare ==
  ASSUME NEW x \in Int, NEW y \in Nat, Less(<<x, 1>>, Share(Threshold, <<y, 1>>))
  PROVE  Less(<<x, 1>>, Share(SlopeFraction, <<y, 1>>))
<1> DEFINE a == Threshold[1]
           b == Threshold[2]
           p == SlopeFraction[1]
           q == SlopeFraction[2]
<1>1. a \in Nat /\ b \in Nat \ {0} /\ p \in Nat /\ q \in Nat \ {0} /\ a * q <= p * b
  BY ThresholdAssumption, FractionAssumption
<1>2. x * (b * 1) < (a * y) * 1
  BY DEF Less, Share
<1> SUFFICES x * (q * 1) < (p * y) * 1
  BY DEF Less, Share
<1> HIDE DEF a, b, p, q
<1>3. x * b < a * y
  BY <1>1, <1>2
<1>4. (x * b) * q < (a * y) * q
  BY <1>1, <1>3
<1>5. (a * y) * q <= (p * b) * y
  <2>1. (a * q) * y <= (p * b) * y
    BY <1>1
  <2>2. (a * y) * q = (a * q) * y
    BY <1>1
  <2> QED BY <2>1, <2>2
<1>6. (x * q) * b < (p * y) * b
  <2>1. (x * b) * q = (x * q) * b /\ (p * b) * y = (p * y) * b
    BY <1>1
  <2>2. /\ (x * b) * q \in Int /\ (a * y) * q \in Int /\ (p * b) * y \in Int
    BY <1>1
  <2> QED BY <1>4, <1>5, <2>1, <2>2
<1>7. x * q < p * y
  <2>1. x * q \in Int /\ p * y \in Int
    BY <1>1
  <2> QED BY <1>1, <1>6, <2>1
<1> QED BY <1>1, <1>7

\* The two detectors find the two ends of one step.
LEMMA Detectors ==
  ASSUME NEW ps \in Seq(SweepPoint)
  PROVE  DetectorsRelate(ps)
<1> SUFFICES ASSUME Len(ps) = Bins, \A k \in 1..Bins : ps[k].wob = k - 1 /\ ps[k].rop # None,
                    NEW flat, flat = [k \in 1..Bins |-> 0],
                    NEW f, f = FounderCurve(ps)
             PROVE  /\ DetectFounder(ps, flat, Threshold) = IF f.founder = None THEN None ELSE f.optimal + 1
                    /\ DetectFounder(ps, flat, Threshold) # None =>
                         /\ DetectFounder(ps, flat, SlopeFraction) # None
                         /\ DetectFounder(ps, flat, SlopeFraction) <= DetectFounder(ps, flat, Threshold)
                         /\ DetectFounder(ps, flat, Threshold) < f.founder + 1
                    /\ \A mse \in [1..Bins -> 0..1], t \in {Threshold, SlopeFraction} :
                         DetectFounder(ps, mse, t) # None =>
                           /\ DetectFounder(ps, mse, t) >= DetectFounder(ps, flat, t)
                           /\ mse[DetectFounder(ps, mse, t) + 1] >= mse[DetectFounder(ps, mse, t)]
  BY DEF DetectorsRelate
<1> DEFINE c == CurveOf(ps)
<1>f. f = FounderOf(c)
  BY DEF FounderCurve
<1>1. CASE Bins < 3
  <2>1. Cardinality(DOMAIN ps) < 3
    <3>1. DOMAIN ps = 1..Bins /\ Cardinality(1..Bins) = Bins
      BY BinsAssumption, SweepIs, FS_Interval
    <3> QED BY <1>1, <3>1
  <2>2. \A mse, t : DetectFounder(ps, mse, t) = None
    BY <2>1 DEF DetectFounder
  <2>3. ~Rises(c)
    <3>1. Complete(ps) = DOMAIN ps
      BY SweepIs, BinsAssumption
    <3>2. IsFlat(ps)
      BY <2>1, <3>1 DEF IsFlat
    <3>3. DOMAIN c = {b \in 0..(Bins - 1) : ~IsFlat(ps) /\ Binned(ps, b) # {}}
      <4>1. c = CurveOf(ps)
        OBVIOUS
      <4> HIDE DEF c
      <4> QED BY <4>1, CurveIs
    <3>4. DOMAIN c = {}
      BY <3>2, <3>3
    <3>5. Cardinality(DOMAIN c) = 0
      BY <3>4, FS_EmptySet
    <3> HIDE DEF c
    <3> QED BY <3>5 DEF Rises
  <2>4. f.founder = None
    BY <1>f, <2>3 DEF FounderOf
  <2> QED BY <2>2, <2>4
<1>2. CASE Bins >= 3
  <2> DEFINE F == Fallen(c)
  <2>1. EvenSteps(ps)
    BY <1>2 DEF EvenSteps
  <2>2. /\ DOMAIN c = 0..(Bins - 1) /\ Second(DOMAIN c) = 1
        /\ \A b \in 1..(Bins - 1) : Before(DOMAIN c, b) = b - 1
    <3>1. c = CurveOf(ps)
      OBVIOUS
    <3> HIDE DEF c
    <3> QED BY <2>1, <3>1, EvenCurve
  <2>3. \A b \in F : b \in 2..(Bins - 1)
    <3> HIDE DEF c
    <3> QED BY <2>2, BinsAssumption DEF Fallen
  <2>4. \A mse, t : DetectFounder(ps, mse, t) =
          IF ~Rises(c) \/ Steps(ps, mse, t) = {} THEN None ELSE Min(Steps(ps, mse, t)) - 1
    BY <2>1, DetectIs
  <2>5. \A mse, t : Steps(ps, mse, t) \subseteq Steps(ps, flat, t)
    <3>1. \A i \in 3..Bins : flat[i] = 0 /\ flat[i - 1] = 0
      <4>1. \A i \in 3..Bins : i \in 1..Bins /\ i - 1 \in 1..Bins
        BY BinsAssumption
      <4> QED BY <4>1
    <3> QED BY <3>1 DEF Steps
  <2>6. \A i : i \in Steps(ps, flat, Threshold) <=> i \in 3..Bins /\ i - 1 \in F
    <3>1. \A i \in 3..Bins : i \in 1..Bins /\ i - 1 \in 1..Bins
      BY BinsAssumption
    <3>2. \A i \in 3..Bins : flat[i] = 0 /\ flat[i - 1] = 0
      BY <3>1
    <3>3. \A i \in 3..Bins : flat[i] >= flat[i - 1]
      BY <3>2
    <3>4. \A i \in 3..Bins : i - 1 \in F <=> Less(Rate(ps, i), Share(Threshold, Rate(ps, 2)))
      <4>1. c = CurveOf(ps)
        OBVIOUS
      <4> HIDE DEF c
      <4> QED BY <2>1, <4>1, FallenIs
    <3> HIDE DEF F
    <3> QED BY <3>3, <3>4 DEF Steps
  <2>10. Rises(c) => Steps(ps, flat, Threshold) \subseteq Steps(ps, flat, SlopeFraction)
    <3> SUFFICES ASSUME Rises(c), NEW i \in Steps(ps, flat, Threshold)
                 PROVE  Less(Rate(ps, i), Share(SlopeFraction, Rate(ps, 2)))
      BY DEF Steps
    <3>1. i \in 3..Bins /\ Less(Rate(ps, i), Share(Threshold, Rate(ps, 2)))
      BY DEF Steps
    <3>2. \A k \in 1..Bins : ps[k].rop \in Int
      <4>1. \A k \in DOMAIN ps : ps[k].rop \in Nat \union {None}
        BY SweepIs
      <4> QED BY <4>1, SweepIs, BinsAssumption DEF EvenSteps
    <3>3. i \in 1..Bins /\ i - 1 \in 1..Bins /\ 2 \in 1..Bins /\ 1 \in 1..Bins /\ 2 - 1 = 1
      BY <3>1, BinsAssumption
    <3>4. ps[i].rop - ps[i - 1].rop \in Int /\ ps[2].rop - ps[1].rop \in Int
      BY <3>2, <3>3
    <3>5. ps[2].rop - ps[1].rop > 0
      <4>1. CurveSlope(1 - 1, 1, c) = <<ps[1 + 1].rop - ps[1].rop, 1>> /\ Min(DOMAIN c) = 0
        <5>1. c = CurveOf(ps) /\ 1 \in 1..(Bins - 1)
          BY <1>2, BinsAssumption
        <5> HIDE DEF c
        <5> QED BY <2>1, <5>1, EvenCurve
      <4>2. CurveSlope(0, 1, c)[1] > 0
        <5> HIDE DEF c
        <5> QED BY <2>2, <4>1 DEF Rises
      <4>3. 1 - 1 = 0 /\ 1 + 1 = 2
        OBVIOUS
      <4> HIDE DEF c
      <4> QED BY <4>1, <4>2, <4>3
    <3>6. ps[2].rop - ps[1].rop \in Nat
      BY <3>4, <3>5
    <3>7. Rate(ps, i) = <<ps[i].rop - ps[i - 1].rop, 1>> /\ Rate(ps, 2) = <<ps[2].rop - ps[1].rop, 1>>
      BY <3>3 DEF Rate
    <3> HIDE DEF c
    <3> QED BY ONLY <3>1, <3>4, <3>6, <3>7, FlatterShare
  <2>7. \A mse, t : Steps(ps, mse, t) # {} =>
          /\ Min(Steps(ps, mse, t)) \in Steps(ps, mse, t) /\ Min(Steps(ps, mse, t)) \in 3..Bins
          /\ \A y \in Steps(ps, mse, t) : Min(Steps(ps, mse, t)) <= y
    <3> TAKE mse, t
    <3> DEFINE S == Steps(ps, mse, t)
    <3>1. S \subseteq 3..Bins /\ IsFiniteSet(3..Bins)
      BY BinsAssumption, FS_Interval DEF Steps
    <3>2. S \in SUBSET Int /\ IsFiniteSet(S)
      BY <3>1, FS_Subset
    <3> HIDE DEF S
    <3>3. S # {} => Min(S) \in S /\ \A y \in S : Min(S) <= y
      BY <3>2, MinMax
    <3> QED BY <3>1, <3>3 DEF S
  <2> HIDE DEF F, c
  <2>8. DetectFounder(ps, flat, Threshold) = IF f.founder = None THEN None ELSE f.optimal + 1
    <3>1. CASE ~Rises(c)
      BY <1>f, <2>4, <3>1 DEF FounderOf
    <3>2. CASE Rises(c) /\ F = {}
      <4>1. Steps(ps, flat, Threshold) = {}
        BY <2>6, <3>2
      <4>2. f = [founder |-> None, optimal |-> Max(DOMAIN c)]
        BY <1>f, <3>2 DEF FounderOf, F
      <4>3. f.founder = None
        BY <4>2
      <4> QED BY <2>4, <4>1, <4>3
    <3>3. CASE Rises(c) /\ F # {}
      <4> DEFINE m == Min(F)
      <4>1. m \in F /\ \A y \in F : m <= y
        <5>1. F \in SUBSET Int /\ IsFiniteSet(F)
          <6>1. F \subseteq 2..(Bins - 1) /\ IsFiniteSet(2..(Bins - 1))
            BY <2>3, BinsAssumption, FS_Interval
          <6>2. \A b \in F : b \in Int
            BY <2>3, BinsAssumption
          <6>3. IsFiniteSet(F)
            BY <6>1, FS_Subset
          <6> QED BY <6>2, <6>3
        <5> QED BY <3>3, <5>1, MinMax
      <4>2. f.founder = m /\ f.optimal = Before(DOMAIN c, m)
        BY <1>f, <3>3 DEF FounderOf, F
      <4> HIDE DEF m
      <4>3. m \in 2..(Bins - 1)
        BY <2>3, <4>1
      <4>4. f.optimal = m - 1 /\ f.founder # None
        BY <2>2, <4>2, <4>3, BinsAssumption, NoneAssumption
      <4>5. m + 1 \in Steps(ps, flat, Threshold)
        <5>1. m + 1 \in 3..Bins /\ (m + 1) - 1 = m
          BY <4>3, BinsAssumption
        <5> QED BY <2>6, <4>1, <5>1
      <4>6. Min(Steps(ps, flat, Threshold)) = m + 1
        <5> DEFINE x == Min(Steps(ps, flat, Threshold))
        <5>1. x \in Steps(ps, flat, Threshold) /\ x \in 3..Bins /\ x <= m + 1
          BY <2>7, <4>5
        <5>2. x - 1 \in F
          BY <2>6, <5>1
        <5>3. m <= x - 1
          BY <4>1, <5>2
        <5> HIDE DEF x
        <5>4. x = m + 1
          BY <4>3, <5>1, <5>3
        <5> QED BY <5>4 DEF x
      <4>7. DetectFounder(ps, flat, Threshold) = (m + 1) - 1
        BY <2>4, <3>3, <4>5, <4>6
      <4> QED BY <4>3, <4>4, <4>7
    <3> QED BY <3>1, <3>2, <3>3
  <2>11. f.founder # None => Rises(c) /\ f.founder \in 2..(Bins - 1) /\ f.optimal = f.founder - 1
    <3> SUFFICES ASSUME f.founder # None
                 PROVE  Rises(c) /\ f.founder \in 2..(Bins - 1) /\ f.optimal = f.founder - 1
      OBVIOUS
    <3>1. Rises(c) /\ F # {}
      BY <1>f DEF FounderOf, F
    <3>2. F \in SUBSET Int /\ IsFiniteSet(F)
      <4>1. F \subseteq 2..(Bins - 1) /\ IsFiniteSet(2..(Bins - 1))
        BY <2>3, BinsAssumption, FS_Interval
      <4>2. \A b \in F : b \in Int
        BY <2>3, BinsAssumption
      <4> QED BY <4>1, <4>2, FS_Subset
    <3>3. Min(F) \in F
      BY <3>1, <3>2, MinMax
    <3>4. f.founder = Min(F) /\ f.optimal = Before(DOMAIN c, Min(F))
      BY <1>f, <3>1 DEF FounderOf, F
    <3>5. Min(F) \in 2..(Bins - 1) /\ Min(F) \in 1..(Bins - 1)
      BY <2>3, <3>3, BinsAssumption
    <3> QED BY <2>2, <3>1, <3>4, <3>5
  <2>12. ASSUME DetectFounder(ps, flat, Threshold) # None
         PROVE  /\ DetectFounder(ps, flat, SlopeFraction) # None
                /\ DetectFounder(ps, flat, SlopeFraction) <= DetectFounder(ps, flat, Threshold)
                /\ DetectFounder(ps, flat, Threshold) < f.founder + 1
    <3> DEFINE x == Min(Steps(ps, flat, Threshold))
               y == Min(Steps(ps, flat, SlopeFraction))
    <3>1. Rises(c) /\ Steps(ps, flat, Threshold) # {} /\ DetectFounder(ps, flat, Threshold) = x - 1
      BY <2>4, <2>12
    <3>2. x \in Steps(ps, flat, Threshold) /\ x \in 3..Bins
      BY <2>7, <3>1
    <3>3. x \in Steps(ps, flat, SlopeFraction)
      BY <2>10, <3>1, <3>2
    <3>4. y \in 3..Bins /\ y <= x /\ DetectFounder(ps, flat, SlopeFraction) = y - 1
      BY <2>4, <2>7, <3>1, <3>3
    <3> HIDE DEF x, y
    <3>5. y - 1 \in Int /\ y - 1 <= x - 1
      BY <3>2, <3>4
    <3>6. f.founder # None
      BY <2>8, <2>12
    <3>7. DetectFounder(ps, flat, Threshold) = (f.founder - 1) + 1 /\ f.founder \in Nat
      BY <2>8, <2>11, <3>6, BinsAssumption
    <3>8. (f.founder - 1) + 1 < f.founder + 1
      BY <3>7
    <3> QED BY <3>1, <3>4, <3>5, <3>7, <3>8, NoneAssumption
  <2>9. ASSUME NEW mse \in [1..Bins -> 0..1], NEW t \in {Threshold, SlopeFraction},
               DetectFounder(ps, mse, t) # None
        PROVE  /\ DetectFounder(ps, mse, t) >= DetectFounder(ps, flat, t)
               /\ mse[DetectFounder(ps, mse, t) + 1] >= mse[DetectFounder(ps, mse, t)]
    <3> DEFINE x == Min(Steps(ps, mse, t))
               y == Min(Steps(ps, flat, t))
    <3>1. Rises(c) /\ Steps(ps, mse, t) # {} /\ DetectFounder(ps, mse, t) = x - 1
      BY <2>4, <2>9
    <3>2. x \in Steps(ps, mse, t) /\ x \in 3..Bins
      BY <2>7, <3>1
    <3>3. x \in Steps(ps, flat, t) /\ mse[x] >= mse[x - 1]
      BY <2>5, <3>2 DEF Steps
    <3>4. y \in 3..Bins /\ y <= x /\ DetectFounder(ps, flat, t) = y - 1
      BY <2>4, <2>7, <3>1, <3>3
    <3> HIDE DEF x, y
    <3>5. (x - 1) + 1 = x /\ x - 1 >= y - 1
      BY <3>2, <3>4
    <3> QED BY <3>1, <3>3, <3>4, <3>5
  <2> QED BY <2>8, <2>9, <2>12
<1> QED BY <1>1, <1>2, BinsAssumption

\* Founder detection of every recorded sweep, whatever Bins and the shares.
THEOREM FounderSound == Spec => []FounderIsSound
<1>1. SweepInv => FounderIsSound
  BY BinnedOnce, Optimum, Detectors DEF SweepInv, FounderIsSound
<1> QED BY <1>1, SweepInvInvariant, PTL

-----------------------------------------------------------------------------
(***************************************************************************)
(* Statistics.                                                             *)
(***************************************************************************)
\* The places of a value are those of its ties.
LEMMA RanksFair ==
  ASSUME NEW v, IsList(v)
  PROVE  RanksAreFair(v)
<1> SUFFICES ASSUME NEW i \in DOMAIN v
             PROVE  Ranks2(v)[i] = 1 + 2 * Cardinality({j \in DOMAIN v : v[j] < v[i]})
                                     + Cardinality({j \in DOMAIN v : v[j] = v[i]})
  BY DEF RanksAreFair
<1> DEFINE n == Cardinality(DOMAIN v)
           x == v[i]
           A == {k \in 1..n : Sorted(v, k) = x}
           L == Cardinality(Below(v, x))
           U == Cardinality(AtOrBelow(v, x))
           E == {j \in DOMAIN v : v[j] = x}
<1>0. (\A j \in DOMAIN v : v[j] \in Int) /\ x \in Int
  BY DEF IsList
<1>1. Ranks2(v)[i] = Min(A) + Max(A)
  BY DEF Ranks2
<1>2. L \in Nat /\ U \in Nat /\ n \in Nat /\ U <= n
  BY <1>0, Counts
<1>3. U = L + Cardinality(E) /\ Cardinality(E) \in Nat \ {0}
  <2>1. AtOrBelow(v, x) = Below(v, x) \union E /\ Below(v, x) \intersect E = {}
    BY <1>0 DEF AtOrBelow, Below
  <2>2. IsFiniteSet(E) /\ IsFiniteSet(Below(v, x))
    <3>1. IsFiniteSet(DOMAIN v)
      BY DEF IsList
    <3>2. E \subseteq DOMAIN v /\ Below(v, x) \subseteq DOMAIN v
      BY DEF Below
    <3> QED BY <3>1, <3>2, FS_Subset
  <2>3. i \in E
    OBVIOUS
  <2>4. Cardinality(E) \in Nat \ {0}
    <3> HIDE DEF E
    <3> QED BY <2>2, <2>3, FS_EmptySet, FS_CardinalityType
  <2> HIDE DEF E, x
  <2>5. Cardinality(Below(v, x) \union E)
          = Cardinality(Below(v, x)) + Cardinality(E) - Cardinality(Below(v, x) \intersect E)
    BY <2>2, FS_Union
  <2>6. Cardinality(Below(v, x) \intersect E) = 0
    BY <2>1, FS_EmptySet
  <2>7. Cardinality(Below(v, x)) \in Nat
    BY <2>2, FS_CardinalityType
  <2> QED BY <2>1, <2>4, <2>5, <2>6, <2>7
<1>4. A = (L + 1)..U
  <2>1. \A k \in 1..n : Sorted(v, k) = x <=> L < k /\ k <= U
    <3> TAKE k \in 1..n
    <3>1. IsKth(v, k, Sorted(v, k))
      BY SortedIsKth
    <3>2. IsKth(v, k, x) => Sorted(v, k) = x
      BY <1>0, KthIsSorted
    <3>3. IsKth(v, k, x) <=> L < k /\ k <= U
      BY DEF IsKth
    <3> QED BY <3>1, <3>2, <3>3
  <2> HIDE DEF n, L, U, x
  <2> QED BY <1>2, <2>1
<1> HIDE DEF A, L, U, E, n
<1>5. Min(A) = L + 1 /\ Max(A) = U
  <2>1. A \in SUBSET Int /\ IsFiniteSet(A) /\ L + 1 \in A /\ U \in A
    <3>1. IsFiniteSet((L + 1)..U)
      BY <1>2, FS_Interval
    <3> QED BY <1>2, <1>3, <1>4, <3>1
  <2>2. /\ Min(A) \in A /\ \A y \in A : Min(A) <= y
        /\ Max(A) \in A /\ \A y \in A : Max(A) >= y
    BY <2>1, MinMax
  <2>3. Min(A) \in (L + 1)..U /\ Max(A) \in (L + 1)..U /\ Min(A) <= L + 1 /\ Max(A) >= U
    BY <1>4, <2>1, <2>2
  <2> QED BY <1>2, <2>3
<1>6. Ranks2(v)[i] = 1 + 2 * L + Cardinality(E)
  BY <1>1, <1>2, <1>3, <1>5
<1> QED BY <1>6 DEF L, E, Below

\* What is screened out is in the outermost quarter of a metric.
LEMMA Extreme ==
  ASSUME NEW ps \in Seq(SweepPoint)
  PROVE  OutliersAreExtreme(ps)
<1> SUFFICES ASSUME NEW i \in DOMAIN ps \ DOMAIN ScreenOutliers(ps)
             PROVE  \E m \in Metrics :
                      /\ i \in DOMAIN Values(ps, m)
                      /\ \/ 4 * Cardinality({j \in DOMAIN Values(ps, m) : Values(ps, m)[j] <= Values(ps, m)[i]})
                              <= Cardinality(DOMAIN Values(ps, m))
                         \/ 4 * Cardinality({j \in DOMAIN Values(ps, m) : Values(ps, m)[j] >= Values(ps, m)[i]})
                              <= Cardinality(DOMAIN Values(ps, m))
  BY DEF OutliersAreExtreme
<1>1. PICK m \in Metrics : Outside(ps, ps[i], m)
  <2> DEFINE K == {j \in DOMAIN ps : \A m \in Metrics : ~Outside(ps, ps[j], m)}
  <2>1. ScreenOutliers(ps) = Restrict(ps, K)
    BY DEF ScreenOutliers
  <2>2. DOMAIN Restrict(ps, K) = K
    BY DEF Restrict
  <2> QED BY <2>1, <2>2
<1> DEFINE v == Values(ps, m)
<1>2. DOMAIN v = Having(ps, m) /\ \A j \in Having(ps, m) : v[j] = ps[j][m]
  BY DEF Values, Restrict, Column, Having
<1>3. IsList(v)
  <2>1. \A j \in DOMAIN ps : ps[j].wob \in Nat /\ ps[j].rop \in Nat \union {None}
    BY SweepIs
  <2>2. \A j \in Having(ps, m) : ps[j][m] \in Int
    <3>1. m = "wob" \/ m = "rop"
      BY MetricsAssumption
    <3> QED BY <2>1, <3>1 DEF Having
  <2>3. IsFiniteSet(Having(ps, m))
    <3>1. Having(ps, m) \subseteq DOMAIN ps /\ IsFiniteSet(DOMAIN ps)
      BY SweepIs DEF Having
    <3> QED BY <3>1, FS_Subset
  <2> HIDE DEF v
  <2> QED BY <1>2, <2>2, <2>3 DEF IsList
<1>4. /\ i \in DOMAIN v /\ Cardinality(DOMAIN v) >= 4
      /\ \/ 8 * v[i] < IqrFence8(v).lo
         \/ 8 * v[i] > IqrFence8(v).hi
  <2>1. /\ ps[i][m] # None /\ Cardinality(Having(ps, m)) >= 4
        /\ \/ 8 * ps[i][m] < IqrFence8(v).lo
           \/ 8 * ps[i][m] > IqrFence8(v).hi
    BY <1>1 DEF Outside
  <2>2. i \in Having(ps, m)
    BY <2>1 DEF Having
  <2> HIDE DEF v
  <2> QED BY <1>2, <2>1, <2>2
<1>5. \/ 4 * Cardinality({j \in DOMAIN v : v[j] <= v[i]}) <= Cardinality(DOMAIN v)
      \/ 4 * Cardinality({j \in DOMAIN v : v[j] >= v[i]}) <= Cardinality(DOMAIN v)
  <2> HIDE DEF v
  <2> QED BY <1>3, <1>4, OutsideFence
<1> QED BY <1>4, <1>5

\* The statistics of every recorded sweep.
THEOREM StatisticsFair == Spec => []StatisticsAreFair
<1>1. SweepInv => StatisticsAreFair
  <2> SUFFICES ASSUME input \in Seq(SweepPoint)
               PROVE  /\ FenceIsFair(Column(input, "wob")) /\ RanksAreFair(Column(input, "wob"))
                      /\ OutliersAreExtreme(input)
    BY DEF SweepInv, StatisticsAreFair
  <2> DEFINE v == Column(input, "wob")
  <2>1. IsList(v)
    BY SweepIs DEF IsList, Column
  <2>2. FenceIsFair(v)
    <3> HIDE DEF v
    <3> DEFINE w == [i \in DOMAIN v |-> MaxValue - v[i]]
    <3>1. w = Mirror(v, MaxValue)
      BY DEF Mirror
    <3> HIDE DEF w
    <3>0. MaxValue \in Int
      BY MaxValueAssumption
    <3>2. ASSUME DOMAIN v # {}
          PROVE  /\ IqrFence8(w).lo = 8 * MaxValue - IqrFence8(v).hi
                 /\ IqrFence8(w).hi = 8 * MaxValue - IqrFence8(v).lo
      BY <2>1, <3>0, <3>1, <3>2, FenceMirror
    <3> QED BY <3>2 DEF FenceIsFair, w
  <2>3. RanksAreFair(v)
    <3> HIDE DEF v
    <3> QED BY <2>1, RanksFair
  <2> QED BY <2>2, <2>3, Extreme
<1> QED BY <1>1, SweepInvInvariant, PTL

-----------------------------------------------------------------------------
(***************************************************************************)
(* The exchange of WITSML documents.                                       *)
(***************************************************************************)
\* The rows of a database, and a document of some of them.
IsRow(r) ==
  r = [client |-> r.client, name |-> r.name, field |-> r.field, inner |-> r.inner, outer |-> r.outer]
IsEntry(e) == e = [name |-> e.name, field |-> e.field, inner |-> e.inner, outer |-> e.outer]
IsDatabase(db) == /\ db = [id \in {"a", "b"} |-> db[id]]
                  /\ \A id \in {"a", "b"} : IsRow(db[id])

ExchangeInv ==
  subject = "exchange" =>
    /\ input = [db |-> input.db, doc |-> input.doc, steps |-> input.steps]
    /\ IsDatabase(input.db)
    /\ \A id \in DOMAIN input.doc : id \in {"a", "b"} /\ IsEntry(input.doc[id])

\* One row of an import: reading it again changes nothing, and it is a row
\* of the same client.
LEMMA ImportRowIs ==
  ASSUME NEW row, IsRow(row), NEW c, NEW d, IsEntry(d)
  PROVE  /\ IsRow(ImportRow(row, c, d))
         /\ ImportRow(row, c, d).client = row.client
         /\ ImportRow(ImportRow(row, c, d), c, d) = ImportRow(row, c, d)
         /\ row.client # c => ImportRow(row, c, d) = row
         /\ row.client = c =>
              /\ ImportRow(row, c, d).name = ParsedName(d.name)
              /\ ImportRow(row, c, d).field = KeptField(d.field, row.field)
              /\ ImportRow(row, c, d).inner = Kept(d.inner, row.inner)
<1>1. /\ KeptField(d.field, KeptField(d.field, row.field)) = KeptField(d.field, row.field)
      /\ Kept(d.inner, Kept(d.inner, row.inner)) = Kept(d.inner, row.inner)
  BY DEF Kept, KeptField
<1>2. CASE row.client # c
  BY <1>2 DEF ImportRow
<1>3. CASE row.client = c
  <2>1. ImportRow(row, c, d) =
          [row EXCEPT !.name = ParsedName(d.name), !.field = KeptField(d.field, row.field),
                      !.inner = Kept(d.inner, row.inner)]
    BY <1>3 DEF ImportRow
  <2>2. /\ IsRow(ImportRow(row, c, d))
        /\ ImportRow(row, c, d).client = row.client
        /\ ImportRow(row, c, d).name = ParsedName(d.name)
        /\ ImportRow(row, c, d).field = KeptField(d.field, row.field)
        /\ ImportRow(row, c, d).inner = Kept(d.inner, row.inner)
    BY <2>1 DEF IsRow
  <2> DEFINE new == ImportRow(row, c, d)
  <2>3. ImportRow(new, c, d) =
          [new EXCEPT !.name = ParsedName(d.name), !.field = KeptField(d.field, new.field),
                      !.inner = Kept(d.inner, new.inner)]
    BY <1>3, <2>2 DEF ImportRow
  <2> HIDE DEF new
  <2>4. ImportRow(new, c, d) = new
    BY <1>1, <2>2, <2>3 DEF IsRow, new
  <2> QED BY <1>3, <2>2, <2>4 DEF new
<1> QED BY <1>2, <1>3

\* Edits, exports and imports leave rows and documents.
LEMMA ExchangeInvInvariant == Spec => []ExchangeInv
<1>1. Init => ExchangeInv
  BY DEF Init, ExchangeInv, IsDatabase, Stored, IsRow, Null
<1>2. ExchangeInv /\ [Next]_vars => ExchangeInv'
  <2> SUFFICES ASSUME ExchangeInv, [Next]_vars, subject' = "exchange"
               PROVE  ExchangeInv'
    BY DEF ExchangeInv
  <2>1. CASE Edit
    <3>1. PICK row : /\ IsRow(row)
                     /\ input' = [input EXCEPT !.steps = @ + 1, !.db.a = row]
      BY <2>1 DEF Edit, IsRow
    <3>2. input = [db |-> input.db, doc |-> input.doc, steps |-> input.steps]
      BY <2>1 DEF Edit, Exchange, ExchangeInv
    <3>3. /\ input' = [db |-> input'.db, doc |-> input'.doc, steps |-> input'.steps]
          /\ input'.db = [input.db EXCEPT !["a"] = row] /\ input'.doc = input.doc
      BY <3>1, <3>2
    <3>4. IsDatabase(input.db)
      BY <2>1 DEF Edit, Exchange, ExchangeInv
    <3>5. IsDatabase(input'.db)
      BY <3>1, <3>3, <3>4 DEF IsDatabase
    <3> QED BY <2>1, <3>3, <3>5 DEF Edit, Exchange, ExchangeInv
  <2>2. CASE Export
    <3>1. PICK c \in {"a", "b"} :
            input' = [input EXCEPT !.steps = @ + 1, !.doc = ExportXml(input.db, c)]
      BY <2>2 DEF Export
    <3>2. \A id \in DOMAIN ExportXml(input.db, c) :
            id \in {"a", "b"} /\ IsEntry(ExportXml(input.db, c)[id])
      BY <2>2 DEF Export, Exchange, ExchangeInv, IsDatabase, ExportXml, IsRow, IsEntry
    <3> QED BY <2>2, <3>1, <3>2 DEF Export, Exchange, ExchangeInv
  <2>3. CASE Import
    <3>1. PICK c \in {"a", "b"} :
            input' = [input EXCEPT !.steps = @ + 1, !.db = ImportXml(input.db, c, input.doc)]
      BY <2>3 DEF Import
    <3>2. IsDatabase(ImportXml(input.db, c, input.doc))
      BY <2>3, ImportRowIs DEF Import, Exchange, ExchangeInv, IsDatabase, ImportXml
    <3> QED BY <2>3, <3>1, <3>2 DEF Import, Exchange, ExchangeInv
  <2>4. CASE UNCHANGED vars
    BY <2>4 DEF vars, ExchangeInv
  <2> QED BY <2>1, <2>2, <2>3, <2>4
          DEF Next, RecordPoint, RecordRun, WriteLine, PlaceText
<1> QED BY <1>1, <1>2, PTL DEF Spec

\* Whatever was edited since a document was exported, whoever imports it: a
\* second import changes nothing, an import changes rows of its own client
\* only, and all of what it reads comes back as it was exported but for texts
\* that are numbers, or, with a field of digits, nothing does.
THEOREM ExchangeSafe == Spec => []ExchangeIsSafe
<1>1. ExchangeInv => ExchangeIsSafe
  <2> SUFFICES ASSUME ExchangeInv, subject = "exchange", NEW c \in {"a", "b"}
               PROVE  /\ ImportIsSafe(input.db, input.doc, c)
                      /\ ExportComesBack(input.db, input.doc, c)
    BY DEF ExchangeIsSafe
  <2> DEFINE db == input.db
             doc == input.doc
  <2>1. /\ IsDatabase(db)
        /\ \A id \in DOMAIN doc : id \in {"a", "b"} /\ IsEntry(doc[id])
    BY DEF ExchangeInv
  <2> HIDE DEF db, doc
  <2> DEFINE once == ImportXml(db, c, doc)
             refused == \E id \in DOMAIN doc : Refused(db[id], c, doc[id])
  <2>2. /\ DOMAIN db \intersect DOMAIN doc = DOMAIN doc /\ DOMAIN db = {"a", "b"}
        /\ \A id \in {"a", "b"} : IsRow(db[id])
    BY <2>1 DEF IsDatabase
  <2>3. refused <=> \E id \in {i \in DOMAIN doc : db[i].client = c} : doc[id].field = "007"
    BY DEF Refused, Numeric
  <2>4. CASE refused
    <3>1. once = db
      BY <2>2, <2>4 DEF ImportXml
    <3>2. ImportIsSafe(db, doc, c)
      BY <3>1 DEF ImportIsSafe
    <3>3. ExportComesBack(db, doc, c)
      BY <2>3, <2>4, <3>1 DEF ExportComesBack
    <3> QED BY <3>2, <3>3 DEF db, doc
  <2>5. CASE ~refused
    <3>1. once = [id \in {"a", "b"} |-> IF id \in DOMAIN doc
                                        THEN ImportRow(db[id], c, doc[id]) ELSE db[id]]
      BY <2>2, <2>5 DEF ImportXml
    <3> HIDE DEF once
    <3>2. ImportXml(once, c, doc) = once
      <4>1. \A id \in DOMAIN doc : once[id].client = db[id].client
        BY <2>1, <2>2, <3>1, ImportRowIs
      <4>2. ~\E id \in DOMAIN doc : Refused(once[id], c, doc[id])
        BY <2>5, <4>1 DEF Refused
      <4>3. DOMAIN once \intersect DOMAIN doc = DOMAIN doc
        BY <2>1, <3>1
      <4>4. ImportXml(once, c, doc) =
              [id \in {"a", "b"} |-> IF id \in DOMAIN doc
                                     THEN ImportRow(once[id], c, doc[id]) ELSE once[id]]
        BY <3>1, <4>2, <4>3 DEF ImportXml
      <4>5. \A id \in {"a", "b"} : id \in DOMAIN doc => ImportRow(once[id], c, doc[id]) = once[id]
        BY <2>1, <2>2, <3>1, ImportRowIs
      <4> QED BY <3>1, <4>4, <4>5
    <3>3. ASSUME NEW id \in DOMAIN once, once[id] # db[id]
          PROVE  db[id].client = c
      BY <2>1, <2>2, <3>1, <3>3, ImportRowIs
    <3>4. ASSUME NEW id \in DOMAIN doc, db[id].client = c
          PROVE  /\ doc[id].name # "007" => once[id].name = doc[id].name
                 /\ once[id].field = IF doc[id].field \in {"", "0"} THEN db[id].field ELSE doc[id].field
                 /\ once[id].inner = IF doc[id].inner = "" THEN db[id].inner ELSE doc[id].inner
      <4>1. once[id] = ImportRow(db[id], c, doc[id]) /\ IsRow(db[id]) /\ IsEntry(doc[id])
        BY <2>1, <2>2, <3>1
      <4>2. /\ once[id].name = ParsedName(doc[id].name)
            /\ once[id].field = KeptField(doc[id].field, db[id].field)
            /\ once[id].inner = Kept(doc[id].inner, db[id].inner)
        BY <3>4, <4>1, ImportRowIs
      <4> QED BY <4>2 DEF ParsedName, KeptField, Kept
    <3>5. ImportIsSafe(db, doc, c)
      BY <3>2, <3>3 DEF ImportIsSafe, once
    <3>6. ExportComesBack(db, doc, c)
      BY <2>3, <2>5, <3>4 DEF ExportComesBack, once
    <3> QED BY <3>5, <3>6 DEF db, doc
  <2> QED BY <2>4, <2>5
<1> QED BY <1>1, ExchangeInvInvariant, PTL
=============================================================================
