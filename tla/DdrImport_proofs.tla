-------------------------- MODULE DdrImport_proofs --------------------------
(***************************************************************************)
(* Theorems about DdrImport, for any sets of names, dates, bits and        *)
(* requests, and for requests that overlap.                                *)
(***************************************************************************)
EXTENDS DdrImport, TLAPS

-----------------------------------------------------------------------------
(***************************************************************************)
(* Type correctness.                                                       *)
(***************************************************************************)
\* The committed rows and the requests keep their types.
THEOREM TypeCorrect == Spec => []TypeOK
<1>1. Init => TypeOK
  BY DEF Init, TypeOK, Document, Op
<1>2. TypeOK /\ [Next]_vars => TypeOK'
  <2> SUFFICES ASSUME TypeOK, [Next]_vars
               PROVE  TypeOK'
    OBVIOUS
  <2> USE DEF TypeOK, Goto, RowsUnchanged, RequestUnchanged, rows, Running, Answer
  <2>1. ASSUME NEW r \in Req, NEW d \in Document, ReceiveImport(r, d)
        PROVE  TypeOK'
    BY <2>1 DEF ReceiveImport, Arrive, Op
  <2>2. ASSUME NEW r \in Req, NEW d \in Document, NEW b \in wellbores,
               ReceiveDailyReport(r, b, d)
        PROVE  TypeOK'
    BY <2>2 DEF ReceiveDailyReport, Arrive, Op
  <2>3. ASSUME NEW r \in Req, NEW d \in Document, NEW b \in wellbores,
               NEW m \in bits, ReceiveBitRun(r, b, m, d)
        PROVE  TypeOK'
    BY <2>3 DEF ReceiveBitRun, Arrive, Op
  <2>4. ASSUME NEW r \in Req, FindWell(r)
        PROVE  TypeOK'
    BY <2>4 DEF FindWell
  <2>5. ASSUME NEW r \in Req, InsertWell(r)
        PROVE  TypeOK'
    BY <2>5 DEF InsertWell
  <2>6. ASSUME NEW r \in Req, FindWellbore(r)
        PROVE  TypeOK'
    BY <2>6 DEF FindWellbore
  <2>7. ASSUME NEW r \in Req, InsertWellbore(r)
        PROVE  TypeOK'
    BY <2>7 DEF InsertWellbore
  <2>8. ASSUME NEW r \in Req, FindDuplicate(r)
        PROVE  TypeOK'
    BY <2>8 DEF FindDuplicate
  <2>9. ASSUME NEW r \in Req, InsertReport(r)
        PROVE  TypeOK'
    BY <2>9 DEF InsertReport
  <2>10. ASSUME NEW r \in Req, FindBit(r)
        PROVE  TypeOK'
    BY <2>10 DEF FindBit
  <2>11. ASSUME NEW r \in Req, Commit(r)
        PROVE  TypeOK'
    BY <2>11 DEF Commit, Own
  <2>12. ASSUME NEW r \in Req, Abort(r)
        PROVE  TypeOK'
    BY <2>12 DEF Abort, Ongoing
  <2>13. CASE UNCHANGED vars
    BY <2>13 DEF vars, rows
  <2> QED
    BY <2>1, <2>2, <2>3, <2>4, <2>5, <2>6, <2>7, 
       <2>8, <2>9, <2>10, <2>11, <2>12, <2>13
       DEF Next, Receive, Step
<1> QED BY <1>1, <1>2, PTL DEF Spec

-----------------------------------------------------------------------------
(***************************************************************************)
(* The inductive invariant, one lemma for each of its parts.               *)
(***************************************************************************)
Whole == FiledAsAWhole /\ \A r \in Req : Placed(r)
Keys == UniqueKeys /\ \A r \in Req : KeysHeld(r)

\* Every step keeps where the rows of a request hang.
LEMMA PlacedStep ==
  ASSUME TypeOK, Whole, [Next]_vars, NEW q \in Req
  PROVE  Placed(q)'
<1> USE RowAssumption, NoneAssumption
<1>1. Placed(q)'
  <2>0. TypeOK /\ FiledAsAWhole /\ \A s \in Req : Placed(s)
    BY DEF Whole
  <2> USE DEF TypeOK, Placed, FiledAsAWhole, Goto, RowsUnchanged, RequestUnchanged,
              rows, Running, Document
  <2>1. ASSUME NEW r \in Req, NEW d \in Document, ReceiveImport(r, d)
        PROVE  Placed(q)'
    BY <2>0, <2>1 DEF ReceiveImport, Arrive
  <2>2. ASSUME NEW r \in Req, NEW d \in Document, NEW b \in wellbores,
               ReceiveDailyReport(r, b, d)
        PROVE  Placed(q)'
    BY <2>0, <2>2 DEF ReceiveDailyReport, Arrive
  <2>3. ASSUME NEW r \in Req, NEW d \in Document, NEW b \in wellbores,
               NEW m \in bits, ReceiveBitRun(r, b, m, d)
        PROVE  Placed(q)'
    BY <2>0, <2>3 DEF ReceiveBitRun, Arrive
  <2>4. ASSUME NEW r \in Req, FindWell(r)
        PROVE  Placed(q)'
    BY <2>0, <2>4 DEF FindWell
  <2>5. ASSUME NEW r \in Req, InsertWell(r)
        PROVE  Placed(q)'
    <3>1. CASE q # r
      BY <2>0, <2>5, <3>1 DEF InsertWell
    <3>2. CASE q = r /\ pc'[r] = "serverError"
      BY <2>0, <2>5, <3>2 DEF InsertWell
    <3>3. CASE q = r /\ pc'[r] = "findWellbore"
      BY <2>0, <2>5, <3>3 DEF InsertWell
    <3> QED BY <2>5, <3>1, <3>2, <3>3 DEF InsertWell
  <2>6. ASSUME NEW r \in Req, FindWellbore(r)
        PROVE  Placed(q)'
    BY <2>0, <2>6 DEF FindWellbore
  <2>7. ASSUME NEW r \in Req, InsertWellbore(r)
        PROVE  Placed(q)'
    <3>1. CASE q # r
      BY <2>0, <2>7, <3>1 DEF InsertWellbore
    <3>2. CASE q = r /\ pc'[r] = "serverError"
      BY <2>0, <2>7, <3>2 DEF InsertWellbore
    <3>3. CASE q = r /\ pc'[r] = "findDuplicate"
      BY <2>0, <2>7, <3>3 DEF InsertWellbore
    <3> QED BY <2>7, <3>1, <3>2, <3>3 DEF InsertWellbore
  <2>8. ASSUME NEW r \in Req, FindDuplicate(r)
        PROVE  Placed(q)'
    BY <2>0, <2>8 DEF FindDuplicate
  <2>9. ASSUME NEW r \in Req, InsertReport(r)
        PROVE  Placed(q)'
    <3>1. CASE q # r
      BY <2>0, <2>9, <3>1 DEF InsertReport
    <3>2. CASE q = r /\ pc'[r] = "serverError"
      BY <2>0, <2>9, <3>2 DEF InsertReport
    <3>3. CASE q = r /\ pc'[r] = "findBit"
      BY <2>0, <2>9, <3>3 DEF InsertReport
    <3>4. CASE q = r /\ pc'[r] = "commit"
      BY <2>0, <2>9, <3>4 DEF InsertReport
    <3> QED BY <2>9, <3>1, <3>2, <3>3, <3>4 DEF InsertReport
  <2>10. ASSUME NEW r \in Req, FindBit(r)
        PROVE  Placed(q)'
    <3>1. CASE q # r
      BY <2>0, <2>10, <3>1 DEF FindBit
    <3>2. CASE q = r
      <4>1. /\ pc' = [pc EXCEPT ![r] = "commit"]
            /\ master'[r] \in bits \union {r}
            /\ doc[master'[r]].bit = doc[r].bit
        BY <2>0, <2>10 DEF FindBit
      <4> QED BY <2>0, <2>10, <3>2, <4>1 DEF FindBit
    <3> QED BY <3>1, <3>2
  <2>11. ASSUME NEW r \in Req, Commit(r)
        PROVE  Placed(q)'
    BY <2>0, <2>11 DEF Commit, Own
  <2>12. ASSUME NEW r \in Req, Abort(r)
        PROVE  Placed(q)'
    BY <2>0, <2>12 DEF Abort, Ongoing
  <2>13. CASE UNCHANGED vars
    BY <2>0, <2>13 DEF vars, rows
  <2> QED
    BY <2>1, <2>2, <2>3, <2>4, <2>5, <2>6, <2>7, 
       <2>8, <2>9, <2>10, <2>11, <2>12, <2>13
       DEF Next, Receive, Step
<1> QED BY <1>1

\* Every step keeps that what is committed is complete.
LEMMA FiledStep ==
  ASSUME TypeOK, Whole, [Next]_vars
  PROVE  FiledAsAWhole'
<1> USE RowAssumption, NoneAssumption
<1>1. FiledAsAWhole'
  <2>0. TypeOK /\ FiledAsAWhole /\ \A s \in Req : Placed(s)
    BY DEF Whole
  <2> USE DEF TypeOK, Placed, FiledAsAWhole, Goto, RowsUnchanged, RequestUnchanged,
              rows, Running, Document
  <2>1. ASSUME NEW r \in Req, NEW d \in Document, ReceiveImport(r, d)
        PROVE  FiledAsAWhole'
    BY <2>0, <2>1 DEF ReceiveImport, Arrive
  <2>2. ASSUME NEW r \in Req, NEW d \in Document, NEW b \in wellbores,
               ReceiveDailyReport(r, b, d)
        PROVE  FiledAsAWhole'
    BY <2>0, <2>2 DEF ReceiveDailyReport, Arrive
  <2>3. ASSUME NEW r \in Req, NEW d \in Document, NEW b \in wellbores,
               NEW m \in bits, ReceiveBitRun(r, b, m, d)
        PROVE  FiledAsAWhole'
    BY <2>0, <2>3 DEF ReceiveBitRun, Arrive
  <2>4. ASSUME NEW r \in Req, FindWell(r)
        PROVE  FiledAsAWhole'
    BY <2>0, <2>4 DEF FindWell
  <2>5. ASSUME NEW r \in Req, InsertWell(r)
        PROVE  FiledAsAWhole'
    BY <2>0, <2>5 DEF InsertWell
  <2>6. ASSUME NEW r \in Req, FindWellbore(r)
        PROVE  FiledAsAWhole'
    BY <2>0, <2>6 DEF FindWellbore
  <2>7. ASSUME NEW r \in Req, InsertWellbore(r)
        PROVE  FiledAsAWhole'
    BY <2>0, <2>7 DEF InsertWellbore
  <2>8. ASSUME NEW r \in Req, FindDuplicate(r)
        PROVE  FiledAsAWhole'
    BY <2>0, <2>8 DEF FindDuplicate
  <2>9. ASSUME NEW r \in Req, InsertReport(r)
        PROVE  FiledAsAWhole'
    BY <2>0, <2>9 DEF InsertReport
  <2>10. ASSUME NEW r \in Req, FindBit(r)
        PROVE  FiledAsAWhole'
    BY <2>0, <2>10 DEF FindBit
  <2>11. ASSUME NEW r \in Req, Commit(r)
        PROVE  FiledAsAWhole'
    BY <2>0, <2>11 DEF Commit, Own
  <2>12. ASSUME NEW r \in Req, Abort(r)
        PROVE  FiledAsAWhole'
    BY <2>0, <2>12 DEF Abort, Ongoing
  <2>13. CASE UNCHANGED vars
    BY <2>0, <2>13 DEF vars, rows
  <2> QED
    BY <2>1, <2>2, <2>3, <2>4, <2>5, <2>6, <2>7, 
       <2>8, <2>9, <2>10, <2>11, <2>12, <2>13
       DEF Next, Receive, Step
<1> QED BY <1>1

\* Every step keeps the keys a request in progress holds free of others.
LEMMA KeysHeldStep ==
  ASSUME TypeOK, Whole, Keys, [Next]_vars, NEW q \in Req
  PROVE  KeysHeld(q)'
<1> USE RowAssumption, NoneAssumption
<1>1. KeysHeld(q)'
  <2>0. TypeOK /\ FiledAsAWhole /\ (\A s \in Req : Placed(s) /\ KeysHeld(s))
    BY DEF Whole, Keys
  <2> USE DEF TypeOK, Placed, FiledAsAWhole, KeysHeld, HoldsWell, HoldsWellbore,
              HoldsReport, Reported, Ongoing, nameOf, Goto, RowsUnchanged,
              RequestUnchanged, rows, Running, Document
  <2>1. ASSUME NEW r \in Req, NEW d \in Document, ReceiveImport(r, d)
        PROVE  KeysHeld(q)'
    BY <2>0, <2>1 DEF ReceiveImport, Arrive
  <2>2. ASSUME NEW r \in Req, NEW d \in Document, NEW b \in wellbores,
               ReceiveDailyReport(r, b, d)
        PROVE  KeysHeld(q)'
    BY <2>0, <2>2 DEF ReceiveDailyReport, Arrive
  <2>3. ASSUME NEW r \in Req, NEW d \in Document, NEW b \in wellbores,
               NEW m \in bits, ReceiveBitRun(r, b, m, d)
        PROVE  KeysHeld(q)'
    BY <2>0, <2>3 DEF ReceiveBitRun, Arrive
  <2>4. ASSUME NEW r \in Req, FindWell(r)
        PROVE  KeysHeld(q)'
    <3>1. /\ pc[r] = "findWell" /\ pc' = [pc EXCEPT ![r] = pc'[r]]
          /\ pc'[r] \in {"findWellbore", "insertWell"}
          /\ UNCHANGED <<wells, wellbores, reports, doc, op, wellbore>>
          /\ \A s \in Req \ {r} : well'[s] = well[s]
          /\ well'[r] \in wells \union {None}
      BY <2>0, <2>4 DEF FindWell
    <3>2. well'[r] # r /\ wellbore[r] = None
      BY <2>0, <3>1
    <3>3. \A b \in wellbores : well'[b] = well[b]
      BY <2>0, <3>1
    <3>4. (Ongoing(q) /\ well[q] = q =>
             /\ \A w \in wells : nameOf(w) # doc[q].well
             /\ \A s \in Req \ {q} : ~ HoldsWell(s, doc[q].well))'
      BY <2>0, <3>1, <3>2
    <3>5. (Ongoing(q) /\ wellbore[q] = q =>
             /\ \A b \in wellbores : well[b] # well[q]
             /\ \A s \in Req \ {q} : ~ HoldsWellbore(s, well[q]))'
      <4>1. CASE q = r
        BY <3>1, <3>2, <4>1
      <4>2. CASE q # r /\ Ongoing(q) /\ wellbore[q] = q
        <5>1. well'[q] = well[q]
          BY <3>1, <4>2
        <5>2. \A b \in wellbores : well'[b] # well[q]
          BY <2>0, <3>3, <4>2
        <5>3. ASSUME NEW s \in Req \ {q}
              PROVE  ~ HoldsWellbore(s, well[q])'
          BY <2>0, <3>1, <3>2, <4>2, <5>1, <5>3
        <5> QED BY <3>1, <5>1, <5>2, <5>3
      <4>3. CASE q # r /\ ~ (Ongoing(q) /\ wellbore[q] = q)
        BY <3>1, <4>3
      <4> QED BY <4>1, <4>2, <4>3
    <3>6. (HoldsReport(q, wellbore[q], doc[q].date) =>
             /\ ~ Reported(wellbore[q], doc[q].date)
             /\ \A s \in Req \ {q} : ~ HoldsReport(s, wellbore[q], doc[q].date))'
      BY <2>0, <3>1
    <3> QED BY <3>4, <3>5, <3>6
  <2>5. ASSUME NEW r \in Req, InsertWell(r)
        PROVE  KeysHeld(q)'
    BY <2>0, <2>5 DEF InsertWell
  <2>6. ASSUME NEW r \in Req, FindWellbore(r)
        PROVE  KeysHeld(q)'
    <3>1. /\ pc[r] = "findWellbore" /\ pc' = [pc EXCEPT ![r] = pc'[r]]
          /\ pc'[r] \in {"findDuplicate", "insertWellbore"}
          /\ UNCHANGED <<wells, wellbores, reports, doc, op, well>>
          /\ \A s \in Req \ {r} : wellbore'[s] = wellbore[s]
          /\ wellbore'[r] \in wellbores \union {None}
      BY <2>0, <2>6 DEF FindWellbore
    <3>2. wellbore'[r] # r /\ r \notin reports
      BY <2>0, <3>1
    <3>3. (Ongoing(q) /\ well[q] = q =>
             /\ \A w \in wells : nameOf(w) # doc[q].well
             /\ \A s \in Req \ {q} : ~ HoldsWell(s, doc[q].well))'
      BY <2>0, <3>1
    <3>4. (Ongoing(q) /\ wellbore[q] = q =>
             /\ \A b \in wellbores : well[b] # well[q]
             /\ \A s \in Req \ {q} : ~ HoldsWellbore(s, well[q]))'
      BY <2>0, <3>1, <3>2
    <3>5. (HoldsReport(q, wellbore[q], doc[q].date) =>
             /\ ~ Reported(wellbore[q], doc[q].date)
             /\ \A s \in Req \ {q} : ~ HoldsReport(s, wellbore[q], doc[q].date))'
      BY <2>0, <3>1, <3>2
    <3> QED BY <3>3, <3>4, <3>5
  <2>7. ASSUME NEW r \in Req, InsertWellbore(r)
        PROVE  KeysHeld(q)'
    <3>1. CASE pc'[r] = "serverError"
      BY <2>0, <2>7, <3>1 DEF InsertWellbore
    <3>2. CASE pc'[r] # "serverError" /\ q = r
      <4>1. /\ pc' = [pc EXCEPT ![r] = "findDuplicate"]
            /\ wellbore' = [wellbore EXCEPT ![r] = r]
            /\ UNCHANGED <<well, wells, wellbores, reports, doc, op>>
            /\ pc[r] = "insertWellbore"
        BY <2>7, <3>2 DEF InsertWellbore
      <4>2. /\ \A b \in wellbores : well[b] # well[r]
            /\ \A s \in Req \ {r} : ~ (pc[s] \in Running /\ wellbore[s] = s /\ well[s] = well[r])
        BY <2>7, <3>2 DEF InsertWellbore
      <4>3. ~ HoldsReport(r, wellbore[r], doc[r].date)'
        BY <4>1
      <4>4. (\A s \in Req \ {r} : ~ HoldsWellbore(s, well[r]))'
        BY <4>1, <4>2
      <4>5. (Ongoing(r) /\ well[r] = r =>
               /\ \A w \in wells : nameOf(w) # doc[r].well
               /\ \A s \in Req \ {r} : ~ HoldsWell(s, doc[r].well))'
        BY <2>0, <4>1
      <4> QED BY <3>2, <4>1, <4>2, <4>3, <4>4, <4>5
    <3>3. CASE pc'[r] # "serverError" /\ q # r
      <4>1. /\ pc' = [pc EXCEPT ![r] = "findDuplicate"]
            /\ wellbore' = [wellbore EXCEPT ![r] = r]
            /\ UNCHANGED <<well, wells, wellbores, reports, doc, op>>
            /\ pc[r] = "insertWellbore"
        BY <2>7, <3>3 DEF InsertWellbore
      <4>2. pc[q] \in Running /\ wellbore[q] = q => well[q] # well[r]
        BY <2>7, <3>3 DEF InsertWellbore
      <4>3. (HoldsReport(q, wellbore[q], doc[q].date) =>
               /\ ~ Reported(wellbore[q], doc[q].date)
               /\ \A s \in Req \ {q} : ~ HoldsReport(s, wellbore[q], doc[q].date))'
        BY <2>0, <3>3, <4>1
      <4>4. (Ongoing(q) /\ wellbore[q] = q =>
               /\ \A b \in wellbores : well[b] # well[q]
               /\ \A s \in Req \ {q} : ~ HoldsWellbore(s, well[q]))'
        BY <2>0, <3>3, <4>1, <4>2
      <4>5. (Ongoing(q) /\ well[q] = q =>
               /\ \A w \in wells : nameOf(w) # doc[q].well
               /\ \A s \in Req \ {q} : ~ HoldsWell(s, doc[q].well))'
        BY <2>0, <3>3, <4>1
      <4> QED BY <4>3, <4>4, <4>5
    <3> QED BY <3>1, <3>2, <3>3
  <2>8. ASSUME NEW r \in Req, FindDuplicate(r)
        PROVE  KeysHeld(q)'
    BY <2>0, <2>8 DEF FindDuplicate
  <2>9. ASSUME NEW r \in Req, InsertReport(r)
        PROVE  KeysHeld(q)'
    BY <2>0, <2>9 DEF InsertReport
  <2>10. ASSUME NEW r \in Req, FindBit(r)
        PROVE  KeysHeld(q)'
    BY <2>0, <2>10 DEF FindBit
  <2>11. ASSUME NEW r \in Req, Commit(r)
        PROVE  KeysHeld(q)'
    BY <2>0, <2>11 DEF Commit, Own
  <2>12. ASSUME NEW r \in Req, Abort(r)
        PROVE  KeysHeld(q)'
    BY <2>0, <2>12 DEF Abort
  <2>13. CASE UNCHANGED vars
    BY <2>0, <2>13 DEF vars, rows
  <2> QED
    BY <2>1, <2>2, <2>3, <2>4, <2>5, <2>6, <2>7, 
       <2>8, <2>9, <2>10, <2>11, <2>12, <2>13
       DEF Next, Receive, Step
<1> QED BY <1>1

\* Every step keeps the unique keys of the committed rows.
LEMMA UniqueStep ==
  ASSUME TypeOK, Whole, Keys, [Next]_vars
  PROVE  UniqueKeys'
<1> USE RowAssumption, NoneAssumption
<1>1. UniqueKeys'
  <2>0. TypeOK /\ FiledAsAWhole /\ UniqueKeys /\ (\A s \in Req : Placed(s) /\ KeysHeld(s))
    BY DEF Whole, Keys
  <2> USE DEF TypeOK, Placed, FiledAsAWhole, KeysHeld, UniqueKeys,
              HoldsReport, Reported, Ongoing, nameOf, Goto, RowsUnchanged,
              RequestUnchanged, rows, Running, Document
  <2>1. ASSUME NEW r \in Req, NEW d \in Document, ReceiveImport(r, d)
        PROVE  UniqueKeys'
    BY <2>0, <2>1 DEF ReceiveImport, Arrive
  <2>2. ASSUME NEW r \in Req, NEW d \in Document, NEW b \in wellbores,
               ReceiveDailyReport(r, b, d)
        PROVE  UniqueKeys'
    BY <2>0, <2>2 DEF ReceiveDailyReport, Arrive
  <2>3. ASSUME NEW r \in Req, NEW d \in Document, NEW b \in wellbores,
               NEW m \in bits, ReceiveBitRun(r, b, m, d)
        PROVE  UniqueKeys'
    BY <2>0, <2>3 DEF ReceiveBitRun, Arrive
  <2>4. ASSUME NEW r \in Req, FindWell(r)
        PROVE  UniqueKeys'
    <3>1. /\ UNCHANGED <<wells, wellbores, reports, doc, wellbore>>
          /\ \A s \in Req \ {r} : well'[s] = well[s]
          /\ r \notin wellbores
      BY <2>0, <2>4 DEF FindWell
    <3> QED BY <2>0, <3>1
  <2>5. ASSUME NEW r \in Req, InsertWell(r)
        PROVE  UniqueKeys'
    BY <2>0, <2>5 DEF InsertWell
  <2>6. ASSUME NEW r \in Req, FindWellbore(r)
        PROVE  UniqueKeys'
    <3>1. /\ UNCHANGED <<wells, wellbores, reports, doc, well>>
          /\ \A s \in Req \ {r} : wellbore'[s] = wellbore[s]
          /\ r \notin reports
      BY <2>0, <2>6 DEF FindWellbore
    <3> QED BY <2>0, <3>1
  <2>7. ASSUME NEW r \in Req, InsertWellbore(r)
        PROVE  UniqueKeys'
    BY <2>0, <2>7 DEF InsertWellbore
  <2>8. ASSUME NEW r \in Req, FindDuplicate(r)
        PROVE  UniqueKeys'
    BY <2>0, <2>8 DEF FindDuplicate
  <2>9. ASSUME NEW r \in Req, InsertReport(r)
        PROVE  UniqueKeys'
    BY <2>0, <2>9 DEF InsertReport
  <2>10. ASSUME NEW r \in Req, FindBit(r)
        PROVE  UniqueKeys'
    BY <2>0, <2>10 DEF FindBit
  <2>11. ASSUME NEW r \in Req, Commit(r)
        PROVE  UniqueKeys'
    BY <2>0, <2>11 DEF Commit, Own
  <2>12. ASSUME NEW r \in Req, Abort(r)
        PROVE  UniqueKeys'
    BY <2>0, <2>12 DEF Abort
  <2>13. CASE UNCHANGED vars
    BY <2>0, <2>13 DEF vars, rows
  <2> QED
    BY <2>1, <2>2, <2>3, <2>4, <2>5, <2>6, <2>7, 
       <2>8, <2>9, <2>10, <2>11, <2>12, <2>13
       DEF Next, Receive, Step
<1> QED BY <1>1

\* The four together are an invariant.
LEMMA FilingInvInvariant == Spec => []FilingInv
<1>1. Init => FilingInv
  <2> SUFFICES ASSUME Init PROVE FilingInv
    OBVIOUS
  <2>1. UniqueKeys
    BY RowAssumption DEF Init, UniqueKeys, nameOf
  <2>2. FiledAsAWhole
    BY DEF Init, FiledAsAWhole
  <2>3. ASSUME NEW r \in Req PROVE Placed(r) /\ KeysHeld(r)
    BY <2>3, NoneAssumption DEF Init, Placed, KeysHeld, HoldsReport, Ongoing, Running
  <2> QED BY <2>1, <2>2, <2>3 DEF FilingInv
<1>2. TypeOK /\ FilingInv /\ [Next]_vars => FilingInv'
  BY PlacedStep, FiledStep, KeysHeldStep, UniqueStep DEF FilingInv, Whole, Keys
<1> QED BY TypeCorrect, <1>1, <1>2, PTL DEF Spec

-----------------------------------------------------------------------------
\* However many requests file at once, a day of a well has one report.
THEOREM OneReport == Spec => []OneReportPerDay
<1>1. TypeOK /\ FilingInv => OneReportPerDay
  <2> SUFFICES ASSUME TypeOK, FilingInv, NEW q \in reports, NEW r \in reports,
                      SameDay(q, r)
               PROVE  q = r
    BY DEF OneReportPerDay
  <2>1. /\ q \in audit /\ r \in audit
        /\ well[q] \in wells /\ well[r] \in wells
        /\ wellbore[q] \in wellbores /\ wellbore[r] \in wellbores
        /\ well[wellbore[q]] = well[q] /\ well[wellbore[r]] = well[r]
    BY DEF FilingInv, FiledAsAWhole
  <2>2. well[q] = well[r]
    BY <2>1 DEF SameDay, FilingInv, UniqueKeys
  <2>3. wellbore[q] = wellbore[r]
    BY <2>1, <2>2 DEF FilingInv, UniqueKeys
  <2> QED BY <2>3 DEF SameDay, FilingInv, UniqueKeys
<1> QED BY TypeCorrect, FilingInvInvariant, <1>1, PTL

\* Nothing is filed by half, whatever fails and whatever overlaps.
THEOREM FiledWhole == Spec => []FiledAsAWhole
<1>1. FilingInv => FiledAsAWhole
  BY DEF FilingInv
<1> QED BY FilingInvInvariant, <1>1, PTL

\* A refused import found a report of its wellbore and date, and that report
\* is of the well it looked up.
Refused(r) == pc[r] = "conflict" =>
  \E q \in reports : well[q] = well[r] /\ doc[q].date = doc[r].date

\* An import is answered "already imported" only when there is such a report,
\* and nothing takes that report away.
THEOREM ConflictReal == Spec => []ConflictIsReal
<1> DEFINE Inv == \A r \in Req : Refused(r)
<1>1. Init => Inv
  BY DEF Init, Refused
<1>2. TypeOK /\ FilingInv /\ Inv /\ [Next]_vars => Inv'
  <2> SUFFICES ASSUME TypeOK, FilingInv, Inv, [Next]_vars, NEW s \in Req
               PROVE  Refused(s)'
    OBVIOUS
  <2>1. \A q \in reports : q \in Req /\ pc[q] = "ok"
    BY DEF FilingInv, FiledAsAWhole, TypeOK
  <2> USE DEF Refused, TypeOK, Goto, RowsUnchanged, RequestUnchanged, rows
  \* A step of r: its answer is another one, or it found the report; the
  \* filed reports and what is said of the other requests stay.
  <2>2. ASSUME NEW r \in Req, pc[r] \in {"idle"} \union Running,
               pc'[r] # "conflict", reports \subseteq reports',
               \A q \in Req \ {r} : /\ pc'[q] = pc[q] /\ well'[q] = well[q]
                                    /\ doc'[q] = doc[q]
        PROVE  Refused(s)'
    <3>1. \A q \in reports : well'[q] = well[q] /\ doc'[q] = doc[q] /\ q \in reports'
      BY <2>1, <2>2 DEF Running
    <3> QED BY <2>2, <3>1
  <2>3. ASSUME NEW r \in Req, NEW d \in Document, Receive(r, d)
        PROVE  Refused(s)'
    <3>1. pc[r] = "idle" /\ pc'[r] # "conflict"
      BY <2>3 DEF Receive, ReceiveImport, ReceiveDailyReport, ReceiveBitRun, Arrive
    <3> QED BY <2>2, <2>3, <3>1
            DEF Receive, ReceiveImport, ReceiveDailyReport, ReceiveBitRun, Arrive
  <2>4. ASSUME NEW r \in Req, FindDuplicate(r)
        PROVE  Refused(s)'
    <3>1. UNCHANGED <<reports, well, doc>> /\ \A q \in Req \ {r} : pc'[q] = pc[q]
      BY <2>4 DEF FindDuplicate
    <3>2. CASE s = r /\ Reported(wellbore[r], doc[r].date)
      <4>1. PICK q \in reports : wellbore[q] = wellbore[r] /\ doc[q].date = doc[r].date
        BY <3>2 DEF Reported
      <4>2. well[wellbore[q]] = well[q] /\ well[wellbore[r]] = well[r]
        BY <2>4 DEF FilingInv, FiledAsAWhole, Placed, FindDuplicate
      <4> QED BY <3>1, <3>2, <4>1, <4>2
    <3>3. CASE ~(s = r /\ Reported(wellbore[r], doc[r].date))
      BY <2>4, <3>1, <3>3 DEF FindDuplicate
    <3> QED BY <3>2, <3>3
  <2>5. ASSUME NEW r \in Req, FindWell(r) \/ InsertWell(r) \/ FindWellbore(r)
                              \/ InsertWellbore(r) \/ InsertReport(r) \/ FindBit(r)
        PROVE  Refused(s)'
    BY <2>2, <2>5 DEF FindWell, InsertWell, FindWellbore, InsertWellbore,
                      InsertReport, FindBit, Running
  <2>6. ASSUME NEW r \in Req, Commit(r) \/ Abort(r)
        PROVE  Refused(s)'
    BY <2>2, <2>6 DEF Commit, Abort, Ongoing, Running
  <2>7. CASE UNCHANGED vars
    BY <2>7 DEF vars
  <2> QED BY <2>3, <2>4, <2>5, <2>6, <2>7 DEF Next, Step
<1>3. TypeOK /\ FilingInv /\ Inv => ConflictIsReal
  <2> SUFFICES ASSUME TypeOK, FilingInv, Inv, NEW r \in Req, pc[r] = "conflict"
               PROVE  \E q \in reports \ {r} : SameDay(q, r)
    BY DEF ConflictIsReal
  <2>1. PICK q \in reports : well[q] = well[r] /\ doc[q].date = doc[r].date
    BY DEF Refused
  <2>2. pc[q] = "ok"
    BY DEF FilingInv, FiledAsAWhole
  <2> QED BY <2>1, <2>2 DEF SameDay
<1> QED BY TypeCorrect, FilingInvInvariant, <1>1, <1>2, <1>3, PTL DEF Spec

-----------------------------------------------------------------------------
(***************************************************************************)
(* Which requests a constraint refuses.                                    *)
(***************************************************************************)
\* What a request files under has the name in its document, and a well that
\* it is about to insert is not a seeded one.
Filing(r) ==
  /\ pc[r] = "insertWell" => doc[r].well \notin Seeded
  /\ r \in audit \/ pc[r] \in Running \ {"findWell", "insertWell"} =>
       nameOf(well[r]) = doc[r].well

\* A request is answered 500 by a constraint only when another one has filed
\* a report on its well: an import lost a race for it, a form repeats a day.
\* What the other one inserted is committed.
ErrorIsRaced ==
  \A r \in Req : pc[r] = "serverError" =>
    \E q \in reports \ {r} : nameOf(well[q]) = doc[r].well

NameInv == Seeded \subseteq wells /\ (\A r \in Req : Filing(r)) /\ ErrorIsRaced

\* A request that arrives may name anything, and the wells and the requests
\* there were keep their names; no other step changes a document.
LEMMA NameInvStep ==
  ASSUME TypeOK, FilingInv, NameInv, [Next]_vars
  PROVE  NameInv'
<1> USE RowAssumption
<1>1. /\ \A b \in wellbores : b \in reports /\ well[b] \in wells
      /\ \A w \in wells : w \in Seeded \/ w \in reports
      /\ \A q \in audit : q \in Req /\ pc[q] = "ok" /\ well[q] \in wells
      /\ reports \subseteq audit
      /\ \A q \in reports : well[wellbore[q]] = well[q]
  BY DEF TypeOK, FilingInv, FiledAsAWhole
<1>2. \A q \in Req : /\ pc[q] \in Running \ {"findWell", "insertWell"} => well[q] \in wells \union {q}
                     /\ pc[q] = "insertReport" => well[wellbore[q]] = well[q]
  BY DEF FilingInv, Placed, Running
<1>3. ASSUME NEW r \in Req, NEW d \in Document, Receive(r, d)
      PROVE  NameInv'
  <2>1. /\ pc[r] = "idle" /\ UNCHANGED rows
        /\ \A q \in Req \ {r} : doc'[q] = doc[q] /\ pc'[q] = pc[q] /\ well'[q] = well[q]
        /\ pc'[r] \in {"badRequest", "findWell", "insertReport", "commit"}
    BY <1>3 DEF Receive, ReceiveImport, ReceiveDailyReport, ReceiveBitRun, Arrive, Goto,
                RowsUnchanged, TypeOK
  <2>2. r \notin audit /\ r \notin wells
    BY <1>1, <2>1
  <2>3. \A w \in wells \union (Req \ {r}) : nameOf(w)' = nameOf(w)
    BY <2>1, <2>2 DEF nameOf, TypeOK
  <2>4. ASSUME pc'[r] \in {"insertReport", "commit"}
        PROVE  well'[r] \in wells /\ doc'[r].well = nameOf(well'[r])
    BY <1>1, <1>3, <2>4
       DEF Receive, ReceiveImport, ReceiveDailyReport, ReceiveBitRun, Arrive, Goto, TypeOK
  <2>5. ASSUME NEW s \in Req PROVE Filing(s)'
    <3>1. CASE s = r
      BY <2>1, <2>2, <2>3, <2>4, <3>1 DEF Filing, Running, rows
    <3>2. CASE s # r
      <4>1. s \in audit \/ pc[s] \in Running \ {"findWell", "insertWell"} =>
              nameOf(well[s])' = nameOf(well[s])
        BY <1>1, <1>2, <2>1, <2>3, <3>2
      <4> QED BY <2>1, <3>2, <4>1 DEF Filing, NameInv, rows
    <3> QED BY <3>1, <3>2
  <2>6. ErrorIsRaced'
    <3> SUFFICES ASSUME NEW s \in Req, pc'[s] = "serverError"
                 PROVE  \E q \in reports' \ {s} : nameOf(well[q])' = doc'[s].well
      BY DEF ErrorIsRaced
    <3>1. s # r
      BY <2>1
    <3>2. PICK q \in reports \ {s} : nameOf(well[q]) = doc[s].well
      BY <2>1, <3>1 DEF NameInv, ErrorIsRaced
    <3>3. q # r /\ well[q] \in wells
      BY <1>1, <2>2
    <3> QED BY <1>1, <2>1, <2>3, <3>1, <3>2, <3>3 DEF rows
  <2> QED BY <2>1, <2>5, <2>6 DEF NameInv, rows
\* A step that changes no document: names stay, and what was filed.
<1>4. ASSUME doc' = doc, reports \subseteq reports', wells \subseteq wells',
             NEW r \in Req, pc[r] \in Running,
             \A q \in Req \ {r} : /\ pc'[q] = pc[q] /\ well'[q] = well[q]
                                  /\ q \in audit' => q \in audit,
             Filing(r)',
             pc'[r] = "serverError" => \E q \in reports : nameOf(well[q]) = doc[r].well
      PROVE  NameInv'
  <2>1. \A w : nameOf(w)' = nameOf(w)
    BY <1>4 DEF nameOf
  <2>2. r \notin reports
    BY <1>1, <1>4 DEF Running
  <2>3. ASSUME NEW s \in Req PROVE Filing(s)'
    BY <1>4, <2>1 DEF Filing, NameInv
  <2>4. ErrorIsRaced'
    <3> SUFFICES ASSUME NEW s \in Req, pc'[s] = "serverError"
                 PROVE  \E q \in reports' \ {s} : nameOf(well[q])' = doc'[s].well
      BY DEF ErrorIsRaced
    <3>1. PICK q \in reports : nameOf(well[q]) = doc[s].well /\ q # s
      BY <1>4, <2>2 DEF NameInv, ErrorIsRaced
    <3>2. q # r /\ q \in Req
      BY <1>1, <2>2
    <3> QED BY <1>4, <2>1, <3>1, <3>2
  <2> QED BY <1>4, <2>3, <2>4 DEF NameInv
<1>5. ASSUME NEW r \in Req, pc[r] \in Running, r \in audit PROVE FALSE
  BY <1>1, <1>5 DEF Running
<1> USE DEF Goto, RowsUnchanged, RequestUnchanged, rows
<1>6. ASSUME NEW r \in Req, FindWell(r)
      PROVE  NameInv'
  <2>1. Filing(r)'
    BY <1>5, <1>6 DEF FindWell, Filing, NameInv, nameOf, TypeOK, Running
  <2> QED BY <1>4, <1>6, <2>1 DEF FindWell, TypeOK, Running
<1>7. ASSUME NEW r \in Req, InsertWell(r)
      PROVE  NameInv'
  <2>1. Filing(r)'
    BY <1>5, <1>7 DEF InsertWell, Filing, nameOf, TypeOK, Running
  <2>2. ASSUME NEW w \in wells, nameOf(w) = doc[r].well
        PROVE  \E q \in reports : nameOf(well[q]) = doc[r].well
    <3>1. w \notin Seeded
      BY <1>7, <2>2 DEF InsertWell, NameInv, Filing, nameOf
    <3>2. w \in reports /\ w \in audit /\ w \in Req
      BY <1>1, <3>1
    <3>3. nameOf(well[w]) = doc[w].well
      BY <3>2 DEF NameInv, Filing
    <3> QED BY <2>2, <3>1, <3>2, <3>3 DEF nameOf
  <2>3. pc'[r] = "serverError" => \E w \in wells : nameOf(w) = doc[r].well
    BY <1>7 DEF InsertWell, TypeOK
  <2>4. /\ doc' = doc /\ UNCHANGED rows /\ pc[r] = "insertWell"
        /\ \A q \in Req \ {r} : pc'[q] = pc[q] /\ well'[q] = well[q]
    BY <1>7 DEF InsertWell, TypeOK
  <2> QED BY <1>4, <2>1, <2>2, <2>3, <2>4 DEF Running
<1>8. ASSUME NEW r \in Req, FindWellbore(r) \/ FindDuplicate(r) \/ FindBit(r)
      PROVE  NameInv'
  <2>1. Filing(r)'
    BY <1>5, <1>8 DEF FindWellbore, FindDuplicate, FindBit, Filing, NameInv, nameOf, TypeOK, Running
  <2> QED BY <1>4, <1>8, <2>1 DEF FindWellbore, FindDuplicate, FindBit, TypeOK, Running
<1>9. ASSUME NEW r \in Req, InsertWellbore(r) \/ InsertReport(r)
      PROVE  NameInv'
  <2>0. /\ pc[r] \in {"insertWellbore", "insertReport"} /\ UNCHANGED <<rows, well, doc>>
        /\ pc'[r] \in {"serverError"} \union (Running \ {"findWell", "insertWell"})
        /\ \A q \in Req \ {r} : pc'[q] = pc[q]
    BY <1>9 DEF InsertWellbore, InsertReport, TypeOK, Running
  <2>1. nameOf(well[r]) = doc[r].well
    BY <2>0 DEF NameInv, Filing, Running
  <2>2. Filing(r)'
    BY <1>5, <2>0, <2>1 DEF Filing, nameOf, Running
  <2>3. ASSUME pc'[r] = "serverError"
        PROVE  \E q \in reports : well[q] = well[r]
    <3>1. CASE InsertWellbore(r)
      <4>1. PICK b \in wellbores : well[b] = well[r]
        BY <2>3, <3>1 DEF InsertWellbore, TypeOK
      <4> QED BY <1>1, <4>1
    <3>2. CASE InsertReport(r)
      <4>1. Reported(wellbore[r], doc[r].date) /\ pc[r] = "insertReport"
        BY <2>3, <3>2 DEF InsertReport, TypeOK
      <4> QED BY <1>1, <1>2, <4>1 DEF Reported
    <3> QED BY <1>9, <3>1, <3>2
  <2> QED BY <1>4, <2>0, <2>1, <2>2, <2>3 DEF Running
<1>10. ASSUME NEW r \in Req, Commit(r)
      PROVE  NameInv'
  <2>1. Filing(r)'
    BY <1>10 DEF Commit, Filing, NameInv, nameOf, TypeOK, Running
  <2> QED BY <1>4, <1>10, <2>1 DEF Commit, TypeOK, Running
<1>11. ASSUME NEW r \in Req, Abort(r)
      PROVE  NameInv'
  <2>1. Filing(r)'
    BY <1>5, <1>11 DEF Abort, Ongoing, Filing, TypeOK, Running
  <2> QED BY <1>4, <1>11, <2>1 DEF Abort, Ongoing, TypeOK, Running
<1>12. CASE UNCHANGED vars
  BY <1>12 DEF vars, NameInv, Filing, ErrorIsRaced, nameOf
<1> QED
  BY <1>3, <1>6, <1>7, <1>8, <1>9, <1>10, <1>11, <1>12 DEF Next, Step

\* No request fails on a constraint of its own making: it met a well, a
\* wellbore or a report that another one had filed on its well.
THEOREM ErrorRaced == Spec => []ErrorIsRaced
<1>1. Init => NameInv
  BY DEF Init, NameInv, Filing, ErrorIsRaced, Running
<1>2. NameInv => ErrorIsRaced
  BY DEF NameInv
<1> QED BY TypeCorrect, FilingInvInvariant, NameInvStep, <1>1, <1>2, PTL DEF Spec

-----------------------------------------------------------------------------
(***************************************************************************)
(* When requests take turns, what one did not find is still not there when *)
(* it inserts it.                                                          *)
(***************************************************************************)
StillAbsent(r) ==
  /\ pc[r] = "insertWell" => \A w \in wells : nameOf(w) # doc[r].well
  /\ pc[r] = "insertWellbore" => \A b \in wellbores : well[b] # well[r]
  /\ pc[r] = "insertReport" /\ op[r] = "import" => ~ Reported(wellbore[r], doc[r].date)
  /\ pc[r] = "commit" /\ master[r] = r => \A m \in bits : doc[m].bit # doc[r].bit

TurnsInv ==
  /\ \A q, r \in Req : Ongoing(q) /\ Ongoing(r) => q = r
  /\ \A r \in Req : StillAbsent(r)
  /\ ImportNeverErrors /\ OneMasterPerBit

LEMMA TurnsInvInvariant ==
  ASSUME Overlap = FALSE
  PROVE  Spec => []TurnsInv
<1> USE RowAssumption, NoneAssumption
<1>1. Init => TurnsInv
  BY DEF Init, TurnsInv, Ongoing, Running, StillAbsent, ImportNeverErrors, OneMasterPerBit
<1>2. TypeOK /\ FilingInv /\ TurnsInv /\ [Next]_vars => TurnsInv'
  <2> SUFFICES ASSUME TypeOK, FilingInv, TurnsInv, [Next]_vars
               PROVE  TurnsInv'
    OBVIOUS
  <2> USE DEF TypeOK, Goto, RowsUnchanged, RequestUnchanged, rows
  <2>0. \A r \in audit : pc[r] = "ok"
    BY DEF FilingInv, FiledAsAWhole
  <2>1. ASSUME NEW r \in Req, NEW d \in Document, Receive(r, d)
        PROVE  TurnsInv'
    <3>1. \A q \in Req : ~ Ongoing(q)
      BY <2>1 DEF Receive, ReceiveImport, ReceiveDailyReport, ReceiveBitRun, Arrive
    <3>2. /\ pc'[r] \in {"badRequest", "findWell", "insertReport", "commit"}
          /\ pc'[r] = "insertReport" => op'[r] = "createDailyReport"
          /\ pc'[r] = "commit" => master'[r] \in bits
          /\ \A q \in Req \ {r} : pc'[q] = pc[q] /\ op'[q] = op[q] /\ doc'[q] = doc[q]
          /\ UNCHANGED rows /\ pc[r] = "idle"
      BY <2>1 DEF Receive, ReceiveImport, ReceiveDailyReport, ReceiveBitRun, Arrive
    <3>3. r \notin bits /\ bits \subseteq Req
      BY <2>0, <3>2 DEF FilingInv, FiledAsAWhole
    <3>4. \A q \in Req : Ongoing(q)' => q = r
      BY <3>1, <3>2 DEF Ongoing
    <3>5. \A q \in Req : StillAbsent(q)'
      BY <3>2, <3>3, <3>4 DEF StillAbsent, Ongoing, Running
    <3>6. ImportNeverErrors' /\ OneMasterPerBit'
      BY <3>2, <3>3 DEF TurnsInv, ImportNeverErrors, OneMasterPerBit
    <3> QED BY <3>4, <3>5, <3>6 DEF TurnsInv
  \* A step of the one request in progress.
  <2>2. ASSUME NEW r \in Req, Ongoing(r),
               \A q \in Req \ {r} : pc'[q] = pc[q], UNCHANGED op,
               StillAbsent(r)', OneMasterPerBit',
               op[r] = "import" => pc'[r] # "serverError"
        PROVE  TurnsInv'
    <3>1. \A q \in Req \ {r} : pc'[q] \notin Running
      BY <2>2 DEF TurnsInv, Ongoing
    <3>2. \A q \in Req \ {r} : StillAbsent(q)'
      BY <3>1 DEF StillAbsent, Running
    <3>3. ImportNeverErrors'
      BY <2>2 DEF TurnsInv, ImportNeverErrors
    <3> QED BY <2>2, <3>1, <3>2, <3>3 DEF TurnsInv, Ongoing
  <2>3. ASSUME NEW r \in Req, UNCHANGED <<bits, doc>>
        PROVE  OneMasterPerBit'
    BY <2>3 DEF TurnsInv, OneMasterPerBit
  <2>4. ASSUME NEW r \in Req, FindWell(r)
        PROVE  TurnsInv'
    <3>1. StillAbsent(r)'
      BY <2>4 DEF FindWell, StillAbsent, nameOf
    <3> QED BY <2>2, <2>3, <2>4, <3>1 DEF FindWell, Ongoing, Running
  <2>5. ASSUME NEW r \in Req, InsertWell(r)
        PROVE  TurnsInv'
    <3>1. pc'[r] = "findWellbore"
      BY <2>5 DEF InsertWell, TurnsInv, StillAbsent
    <3> QED BY <2>2, <2>3, <2>5, <3>1 DEF InsertWell, Ongoing, Running, StillAbsent
  <2>6. ASSUME NEW r \in Req, FindWellbore(r)
        PROVE  TurnsInv'
    <3>1. StillAbsent(r)'
      BY <2>6 DEF FindWellbore, StillAbsent
    <3> QED BY <2>2, <2>3, <2>6, <3>1 DEF FindWellbore, Ongoing, Running
  <2>7. ASSUME NEW r \in Req, InsertWellbore(r)
        PROVE  TurnsInv'
    <3>1. pc'[r] = "findDuplicate"
      BY <2>7 DEF InsertWellbore, TurnsInv, StillAbsent
    <3> QED BY <2>2, <2>3, <2>7, <3>1 DEF InsertWellbore, Ongoing, Running, StillAbsent
  <2>8. ASSUME NEW r \in Req, FindDuplicate(r)
        PROVE  TurnsInv'
    <3>1. /\ UNCHANGED <<reports, wellbore, doc>> /\ pc'[r] \in {"conflict", "insertReport"}
          /\ pc'[r] = "insertReport" => ~ Reported(wellbore[r], doc[r].date)
      BY <2>8 DEF FindDuplicate
    <3>2. StillAbsent(r)'
      BY <3>1 DEF StillAbsent, Reported
    <3> QED BY <2>2, <2>3, <2>8, <3>1, <3>2 DEF FindDuplicate, Ongoing, Running
  <2>9. ASSUME NEW r \in Req, InsertReport(r)
        PROVE  TurnsInv'
    <3>1. master[r] = None
      BY <2>9 DEF InsertReport, FilingInv, Placed, Running
    <3>2. op[r] = "import" => pc'[r] # "serverError"
      BY <2>9 DEF InsertReport, TurnsInv, StillAbsent
    <3>3. StillAbsent(r)'
      BY <2>9, <3>1 DEF InsertReport, StillAbsent
    <3> QED BY <2>2, <2>3, <2>9, <3>2, <3>3 DEF InsertReport, Ongoing, Running
  <2>10. ASSUME NEW r \in Req, FindBit(r)
         PROVE  TurnsInv'
    <3>1. r \notin bits
      BY <2>0, <2>10 DEF FindBit, FilingInv, FiledAsAWhole
    <3>2. StillAbsent(r)'
      BY <2>10, <3>1 DEF FindBit, StillAbsent
    <3> QED BY <2>2, <2>3, <2>10, <3>2 DEF FindBit, Ongoing, Running
  <2>11. ASSUME NEW r \in Req, Commit(r)
         PROVE  TurnsInv'
    <3>1. master[r] = r => \A m \in bits : doc[m].bit # doc[r].bit
      BY <2>11 DEF Commit, TurnsInv, StillAbsent
    <3>2. OneMasterPerBit'
      BY <2>11, <3>1 DEF Commit, Own, TurnsInv, OneMasterPerBit
    <3>3. StillAbsent(r)' /\ pc'[r] = "ok"
      BY <2>11 DEF Commit, StillAbsent
    <3> QED BY <2>2, <2>11, <3>2, <3>3 DEF Commit, Ongoing, Running
  <2>12. ASSUME NEW r \in Req, Abort(r)
         PROVE  TurnsInv'
    BY <2>2, <2>3, <2>12 DEF Abort, StillAbsent
  <2>13. CASE UNCHANGED vars
    BY <2>13 DEF vars, TurnsInv, Ongoing, StillAbsent, Reported, nameOf,
                 ImportNeverErrors, OneMasterPerBit
  <2> QED BY <2>1, <2>4, <2>5, <2>6, <2>7, <2>8, <2>9, <2>10, <2>11, <2>12, <2>13
          DEF Next, Step
<1> QED BY <1>1, <1>2, TypeCorrect, FilingInvInvariant, PTL DEF Spec

\* When requests take turns no import fails on a constraint.
THEOREM SerialImportsFind ==
  ASSUME Overlap = FALSE
  PROVE  Spec => []ImportNeverErrors
<1>1. TurnsInv => ImportNeverErrors
  BY DEF TurnsInv
<1> QED BY <1>1, TurnsInvInvariant, PTL

\* And the catalogue has one row for each bit.
THEOREM SerialOneMaster ==
  ASSUME Overlap = FALSE
  PROVE  Spec => []OneMasterPerBit
<1>1. TurnsInv => OneMasterPerBit
  BY DEF TurnsInv
<1> QED BY <1>1, TurnsInvInvariant, PTL

-----------------------------------------------------------------------------
(***************************************************************************)
(* No wait without end.                                                    *)
(***************************************************************************)
\* The next statement of r waits for no other transaction.
CanProceed(r) ==
  \/ pc[r] \in {"findWell", "findWellbore", "findDuplicate", "findBit", "commit"}
  \/ pc[r] = "insertWell" /\ \A q \in Req \ {r} : ~ HoldsWell(q, doc[r].well)
  \/ pc[r] = "insertWellbore" /\ \A q \in Req \ {r} : ~ HoldsWellbore(q, well[r])
  \/ /\ pc[r] = "insertReport"
     /\ \A q \in Req \ {r} : ~ HoldsReport(q, wellbore[r], doc[r].date)

\* The next statement of r waits until q has ended.
WaitsFor(r, q) ==
  \/ pc[r] = "insertWell" /\ HoldsWell(q, doc[r].well)
  \/ pc[r] = "insertWellbore" /\ HoldsWellbore(q, well[r])
  \/ pc[r] = "insertReport" /\ HoldsReport(q, wellbore[r], doc[r].date)

\* A request in progress can go on or waits for another, and every other that
\* it waits for can go on.
WaitsAreShort ==
  \A r \in Req : Ongoing(r) =>
    /\ CanProceed(r) \/ \E q \in Req \ {r} : WaitsFor(r, q)
    /\ \A q \in Req \ {r} : WaitsFor(r, q) => CanProceed(q)

\* The statements of a request in their order.
Place == [idle |-> 0, findWell |-> 1, insertWell |-> 2, findWellbore |-> 3,
          insertWellbore |-> 4, findDuplicate |-> 5, insertReport |-> 6, findBit |-> 7,
          commit |-> 8, ok |-> 9, badRequest |-> 9, conflict |-> 9, serverError |-> 9,
          failed |-> 9]
OnlyForward == \A r \in Req : pc'[r] = pc[r] \/ Place[pc'[r]] > Place[pc[r]]

\* Nobody waits for a transaction that waits. One that inserted a well finds
\* no wellbore and no report of that well, its own apart, and one that inserted
\* a wellbore no report of that wellbore: later statements meet no key of
\* another's.
THEOREM WaitingEnds == Spec => []WaitsAreShort
<1>1. TypeOK /\ FilingInv => WaitsAreShort
  <2> SUFFICES ASSUME TypeOK, FilingInv, NEW r \in Req, Ongoing(r)
               PROVE  /\ CanProceed(r) \/ \E q \in Req \ {r} : WaitsFor(r, q)
                      /\ \A q \in Req \ {r} : WaitsFor(r, q) => CanProceed(q)
    BY DEF WaitsAreShort
  <2> USE RowAssumption
  <2>1. CanProceed(r) \/ \E q \in Req \ {r} : WaitsFor(r, q)
    BY DEF CanProceed, WaitsFor, Ongoing, Running
  <2>2. \A s \in Req : Placed(s)
    BY DEF FilingInv
  \* What a transaction in progress inserted is not committed.
  <2>3. \A s \in Req : Ongoing(s) => s \notin wells /\ s \notin wellbores
    BY DEF FilingInv, FiledAsAWhole, TypeOK, Ongoing, Running
  <2>4. \A b \in wellbores : well[b] \in wells
    BY DEF FilingInv, FiledAsAWhole, TypeOK
  <2>5. ASSUME NEW q \in Req, Ongoing(q), wellbore[q] = q,
               pc[q] \notin {"findWell", "insertWell", "findWellbore", "insertWellbore"}
        PROVE  CanProceed(q)
    <3>1. CASE pc[q] = "insertReport"
      <4>1. ASSUME NEW s \in Req \ {q}, HoldsReport(s, q, doc[q].date) PROVE FALSE
        <5>1. wellbore[s] = q /\ pc[s] \in {"findBit", "commit"}
          BY <4>1 DEF HoldsReport
        <5>2. wellbore[s] \in wellbores \union {s}
          BY <2>2, <5>1 DEF Placed
        <5> QED BY <2>3, <2>5, <5>1, <5>2
      <4> QED BY <2>5, <3>1, <4>1 DEF CanProceed
    <3>2. CASE pc[q] \in {"findDuplicate", "findBit", "commit"}
      BY <3>2 DEF CanProceed
    <3> QED BY <2>5, <3>1, <3>2 DEF Ongoing, Running
  <2>6. ASSUME NEW q \in Req, Ongoing(q), well[q] = q,
               pc[q] \notin {"findWell", "insertWell"}
        PROVE  CanProceed(q)
    <3>1. CASE pc[q] = "insertWellbore"
      <4>1. ASSUME NEW s \in Req \ {q}, HoldsWellbore(s, well[q]) PROVE FALSE
        <5>1. Ongoing(s) /\ wellbore[s] = s /\ well[s] = q
          BY <2>6, <4>1 DEF HoldsWellbore
        <5>2. s # None
          BY NoneAssumption
        <5>3. pc[s] \in Running \ {"findWell", "insertWell"}
          BY <2>2, <5>1, <5>2 DEF Placed, Ongoing
        <5>4. well[s] \in wells \union {s}
          BY <2>2, <5>3 DEF Placed
        <5> QED BY <2>3, <2>6, <5>1, <5>4
      <4> QED BY <3>1, <4>1 DEF CanProceed
    <3>2. CASE pc[q] \in {"findDuplicate", "insertReport", "findBit", "commit"}
      <4>1. wellbore[q] \in wellbores \union {q} /\ well[wellbore[q]] = q
        BY <2>2, <2>6, <3>2 DEF Placed
      <4>2. wellbore[q] = q
        BY <2>3, <2>4, <2>6, <4>1
      <4> QED BY <2>5, <2>6, <3>2, <4>2
    <3>3. CASE pc[q] = "findWellbore"
      BY <3>3 DEF CanProceed
    <3> QED BY <2>6, <3>1, <3>2, <3>3 DEF Ongoing, Running
  <2>7. ASSUME NEW q \in Req \ {r}, WaitsFor(r, q) PROVE CanProceed(q)
    <3>0. q # None
      BY NoneAssumption
    <3>1. CASE HoldsWell(q, doc[r].well)
      <4>1. Ongoing(q) /\ well[q] = q
        BY <3>1 DEF HoldsWell
      <4>2. pc[q] \notin {"findWell", "insertWell"}
        BY <2>2, <3>0, <4>1 DEF Placed
      <4> QED BY <2>6, <4>1, <4>2
    <3>2. CASE HoldsWellbore(q, well[r])
      <4>1. Ongoing(q) /\ wellbore[q] = q
        BY <3>2 DEF HoldsWellbore
      <4>2. pc[q] \notin {"findWell", "insertWell", "findWellbore", "insertWellbore"}
        BY <2>2, <3>0, <4>1 DEF Placed
      <4> QED BY <2>5, <4>1, <4>2
    <3>3. CASE HoldsReport(q, wellbore[r], doc[r].date)
      BY <3>3 DEF HoldsReport, CanProceed
    <3> QED BY <2>7, <3>1, <3>2, <3>3 DEF WaitsFor
  <2> QED BY <2>1, <2>7
<1> QED BY TypeCorrect, FilingInvInvariant, <1>1, PTL

\* No step takes a request back to a statement it has run, nor undoes an
\* answer: an import is answered after eight steps of its own at most.
THEOREM StepsGoForward == Spec => [][OnlyForward]_vars
<1>1. TypeOK /\ [Next]_vars => OnlyForward
  <2> SUFFICES ASSUME TypeOK, [Next]_vars, NEW q \in Req
               PROVE  pc'[q] = pc[q] \/ Place[pc'[q]] > Place[pc[q]]
    BY DEF OnlyForward
  <2> USE DEF TypeOK, Goto, Place
  <2>1. ASSUME NEW r \in Req, NEW d \in Document, ReceiveImport(r, d)
        PROVE  pc'[q] = pc[q] \/ Place[pc'[q]] > Place[pc[q]]
    BY <2>1 DEF ReceiveImport, Arrive
  <2>2. ASSUME NEW r \in Req, NEW d \in Document, NEW b \in wellbores,
               \/ ReceiveDailyReport(r, b, d)
               \/ \E m \in bits : ReceiveBitRun(r, b, m, d)
        PROVE  pc'[q] = pc[q] \/ Place[pc'[q]] > Place[pc[q]]
    BY <2>2 DEF ReceiveDailyReport, ReceiveBitRun, Arrive
  <2>3. ASSUME NEW r \in Req, FindWell(r) \/ InsertWell(r)
        PROVE  pc'[q] = pc[q] \/ Place[pc'[q]] > Place[pc[q]]
    BY <2>3 DEF FindWell, InsertWell
  <2>4. ASSUME NEW r \in Req, FindWellbore(r) \/ InsertWellbore(r)
        PROVE  pc'[q] = pc[q] \/ Place[pc'[q]] > Place[pc[q]]
    BY <2>4 DEF FindWellbore, InsertWellbore
  <2>5. ASSUME NEW r \in Req, FindDuplicate(r) \/ InsertReport(r)
        PROVE  pc'[q] = pc[q] \/ Place[pc'[q]] > Place[pc[q]]
    BY <2>5 DEF FindDuplicate, InsertReport
  <2>6. ASSUME NEW r \in Req, FindBit(r) \/ Commit(r)
        PROVE  pc'[q] = pc[q] \/ Place[pc'[q]] > Place[pc[q]]
    BY <2>6 DEF FindBit, Commit
  <2>7. ASSUME NEW r \in Req, Abort(r)
        PROVE  pc'[q] = pc[q] \/ Place[pc'[q]] > Place[pc[q]]
    BY <2>7 DEF Abort, Ongoing, Running
  <2>8. CASE UNCHANGED vars
    BY <2>8 DEF vars
  <2> QED
    BY <2>1, <2>2, <2>3, <2>4, <2>5, <2>6, <2>7, <2>8 DEF Next, Receive, Step
<1> QED BY <1>1, TypeCorrect, PTL DEF Spec
=============================================================================
