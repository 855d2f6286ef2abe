------------------------------ MODULE Analysis ------------------------------
(***************************************************************************)
(* The code that computes: what is shown is a function of what was stored  *)
(* or read, and these are its inputs as they grow. A behaviour is about    *)
(* one subject: the points of a drill-off (sweep), the bit runs of a       *)
(* client (runs), the lines of a report's activity log (log) and of its    *)
(* narrative (narrative), the text items of a PDF page (page), a database  *)
(* and a WITSML document (exchange).                                       *)
(***************************************************************************)
EXTENDS RopViews, DdrText, Witsml

CONSTANTS
  Sweeps,       \* the most points of a sweep
  Runs,         \* the most bit runs
  Lines,        \* the most lines
  MaxValue,     \* the largest WOB of a sweep
  Rops,         \* and its ROPs
  Items,        \* the most text items of a page
  PrintedLines, \* its lines
  Columns,      \* where an item can start
  MaxLen,       \* the longest item
  Exchanges     \* the most edits, exports and imports

\* The points of a sweep have two of screening.ts's four metrics.
ASSUME MetricsAssumption == Metrics \subseteq {"wob", "rop"}
ASSUME MaxValueAssumption == MaxValue \in Nat /\ Rops \subseteq Nat
\* An item starts at its rounded column, never left of the page (pdf-text.ts:74).
ASSUME PageAssumption == PrintedLines \in Nat /\ Columns \subseteq Nat /\ MaxLen \in Nat

VARIABLES
  subject,  \* what the behaviour is about
  input     \* the input so far

vars == <<subject, input>>

Subject == {"sweep", "runs", "log", "narrative", "page", "exchange"}
Sources == {"imported", "PLANNED", "UNPLANNED", "DOWNTIME"}
LogLine == {"day", "morning", "row", "wait", "columns", "titled", "blank", "text"}
NarrativeLine == {"now", "summary", "next", "contact", "blank", "text"}

Stored == [a |-> [client |-> "a", name |-> "w", field |-> Null, inner |-> Null, outer |-> Null],
           b |-> [client |-> "b", name |-> "w", field |-> "f", inner |-> "1", outer |-> Null]]

Init ==
  /\ subject \in Subject
  /\ input = IF subject = "exchange"
             THEN [db |-> Stored, doc |-> <<>>, steps |-> 0]
             ELSE <<>>
-----------------------------------------------------------------------------
\* Runs that differ in what the figures group by and what the filters ask for,
\* and any one run alone. An import stores the report's depth less the bit's
\* depth in as its footage, negative when the columns are read out of order
\* (ddr-import.service.ts:217).
Recorded(well, wob, rop) ==
  [well |-> well, make |-> IF rop = None THEN None ELSE "m1",
   size |-> IF rop = None THEN "s" ELSE None, class |-> IF rop = None THEN "PDC" ELSE "roller",
   family |-> IF rop = None THEN "PDC" ELSE "TCI",
   wob |-> wob, rpm |-> wob, rop |-> rop, footage |-> IF rop # None /\ wob = 2 THEN -2 ELSE wob,
   hours |-> wob, torque |-> None, dia |-> 1, tfa |-> None, mw |-> None, hsi |-> 1, flow |-> None,
   cost |-> 1, depthIn |-> IF wob = 3 THEN None ELSE wob - 1, depthOut |-> wob]
OrdinaryRun ==
  {Recorded(well, wob, rop) : well \in {"w1", "w2"}, wob \in 1..3, rop \in {None, 3}}
AnyRun ==
  {[Recorded("w1", 2, None) EXCEPT
     !.wob = wob, !.rpm = rpm, !.rop = rop, !.footage = footage, !.hours = hours, !.cost = cost] :
     wob \in {None, 0, 1, MaxWob + 1}, rpm \in {None, 0, 1, MaxRpm + 1}, rop \in {None, 0, 2},
     footage \in {None, -2, 0, 2}, hours \in {None, 0, 1}, cost \in {None, 1}}
  \union
  {[Recorded("w1", 2, None) EXCEPT
     !.torque = torque, !.dia = dia, !.tfa = tfa, !.mw = mw, !.hsi = hsi, !.flow = flow] :
     torque \in {None, 1}, dia \in {0, 1}, tfa \in {None, 0, 1}, mw \in {None, 0, 1},
     hsi \in {None, 0}, flow \in {None, 0, 1}}

RecordPoint == subject = "sweep" /\ Len(input) < Sweeps
  /\ \E w \in 0..MaxValue, r \in Rops \union {None} :
       /\ input # <<>> => w >= Last(input).wob
       /\ input' = Append(input, [wob |-> w, rop |-> r])
  /\ UNCHANGED subject

RecordRun == subject = "runs" /\ Len(input) < Runs /\ ToSet(input) \subseteq OrdinaryRun
  /\ \E row \in IF input = <<>> THEN AnyRun \union OrdinaryRun ELSE OrdinaryRun :
       input' = Append(input, row)
  /\ UNCHANGED subject

WriteLine == subject \in {"log", "narrative"} /\ Len(input) < Lines
  /\ \E l \in IF subject = "log" THEN LogLine ELSE NarrativeLine : input' = Append(input, l)
  /\ UNCHANGED subject

\* Lines of text, from left to right, each item up to one unit off its base
\* line.
PlaceText == subject = "page" /\ Len(input) < Items
  /\ \E line \in 1..PrintedLines, x \in Columns, len \in 1..MaxLen, off \in {-1, 1} :
       /\ input # <<>> => \/ line > Last(input).line
                          \/ line = Last(input).line /\ x > Last(input).x
       /\ input' = Append(input, [line |-> line, x |-> x, len |-> len, y |-> off - 6 * line])
  /\ UNCHANGED subject

Exchange == subject = "exchange" /\ input.steps < Exchanges /\ UNCHANGED subject
Edit == Exchange /\ \E n \in {"w", "v", "007"}, f \in {Null, "f", "0", "007"}, i, o \in {Null, "0", "1"} :
  input' = [input EXCEPT !.steps = @ + 1,
              !.db.a = [client |-> "a", name |-> n, field |-> f, inner |-> i, outer |-> o]]
Export == Exchange /\ \E c \in {"a", "b"} :
  input' = [input EXCEPT !.steps = @ + 1, !.doc = ExportXml(input.db, c)]
Import == Exchange /\ \E c \in {"a", "b"} :
  input' = [input EXCEPT !.steps = @ + 1, !.db = ImportXml(input.db, c, input.doc)]

Next == RecordPoint \/ RecordRun \/ WriteLine \/ PlaceText \/ Edit \/ Export \/ Import
Spec == Init /\ [][Next]_vars
-----------------------------------------------------------------------------
Partition(groups, S) ==
  /\ UNION {groups[k] : k \in DOMAIN groups} = S
  /\ \A k, l \in DOMAIN groups : k # l => groups[k] \intersect groups[l] = {}

\* Every point with both values is in one bin, the one with the highest WOB
\* too, whose bin number is out of range before it is clamped
\* (drilling-formulas.ts:314).
EveryPointIsBinned(ps) ==
  LET bins == [b \in DOMAIN CurveOf(ps) |-> CurveOf(ps)[b].points]
  IN bins # <<>> => Partition(bins, Having(ps, "wob") \intersect Having(ps, "rop"))

\* The WOB that is recommended: up to it every step of the curve gains ROP,
\* so no lower WOB of the curve drills faster ("the recommended operating
\* WOB", drilling-formulas.ts:287).
OptimumIsFastest(ps) ==
  LET optimal == FounderCurve(ps).optimal
  IN optimal # None =>
       /\ optimal \in DOMAIN CurveOf(ps)
       /\ \A b \in DOMAIN CurveOf(ps) :
            b < optimal => Less(CurveOf(ps)[b].rop, CurveOf(ps)[optimal].rop)

\* The two founder detectors of drilling-formulas.ts, on a sweep in even steps
\* with one point for each bin. Asked for the same share of the first slope
\* they find the same flat step, but what each calls founderWob are its two
\* ends: detectFounderPoint's (:249) is the point of founderCurve's optimum
\* (:343), and before that of its founderWob (:342). With its own default it
\* finds founder there or earlier, maybe where founderCurve finds none; and a
\* measured MSE, which "confirms" founder, only ever makes it later.
DetectorsRelate(ps) ==
  Len(ps) = Bins /\ (\A k \in 1..Bins : ps[k].wob = k - 1 /\ ps[k].rop # None) =>
    LET flat == [k \in 1..Bins |-> 0]
        f == FounderCurve(ps)
        same == DetectFounder(ps, flat, Threshold)
        early == DetectFounder(ps, flat, SlopeFraction)
    IN /\ same = IF f.founder = None THEN None ELSE f.optimal + 1
       /\ same # None => early # None /\ early <= same /\ same < f.founder + 1
       /\ \A mse \in [1..Bins -> 0..1], t \in {Threshold, SlopeFraction} :
            DetectFounder(ps, mse, t) # None =>
              /\ DetectFounder(ps, mse, t) >= DetectFounder(ps, flat, t)
              /\ mse[DetectFounder(ps, mse, t) + 1] >= mse[DetectFounder(ps, mse, t)]

\* Founder detection loses no point, recommends the fastest WOB that was
\* reached without foundering, and its two implementations are a step apart.
FounderIsSound ==
  subject = "sweep" =>
    EveryPointIsBinned(input) /\ OptimumIsFastest(input) /\ DetectorsRelate(input)

\* Screening has no side: turning a metric around turns its fence around, so
\* that no value is an outlier for being high that would not be for being low.
FenceIsFair(v) ==
  LET down == [i \in DOMAIN v |-> MaxValue - v[i]]
  IN DOMAIN v # {} =>
       /\ IqrFence8(down).lo = 8 * MaxValue - IqrFence8(v).hi
       /\ IqrFence8(down).hi = 8 * MaxValue - IqrFence8(v).lo

\* A point that is screened out is among the outermost quarter of some
\* metric.
OutliersAreExtreme(ps) ==
  \A i \in DOMAIN ps \ DOMAIN ScreenOutliers(ps) : \E m \in Metrics :
    LET v == Values(ps, m)
        n == Cardinality(DOMAIN v)
    IN /\ i \in DOMAIN v
       /\ \/ 4 * Cardinality({j \in DOMAIN v : v[j] <= v[i]}) <= n
          \/ 4 * Cardinality({j \in DOMAIN v : v[j] >= v[i]}) <= n

\* Spearman's ranks: each value has as many ranks below it as there are
\* smaller values, and half of its equals.
RanksAreFair(v) ==
  \A i \in DOMAIN v : Ranks2(v)[i] =
    1 + 2 * Cardinality({j \in DOMAIN v : v[j] < v[i]}) + Cardinality({j \in DOMAIN v : v[j] = v[i]})

\* The statistics that decide which runs are shown favour no side, and
\* screening drops nothing from the middle.
StatisticsAreFair ==
  subject = "sweep" =>
    LET wobs == Column(input, "wob") IN
    FenceIsFair(wobs) /\ RanksAreFair(wobs) /\ OutliersAreExtreme(input)
-----------------------------------------------------------------------------
Shown(rows) == GetRopOptimization(rows, NoFilter).points
\* What the form can hold, of two wells that are alike; what can be asked for,
\* with the dates that the API takes besides.
Draft ==
  {[wells |-> wells, sizes |-> sizes, families |-> choice[1], mudTypes |-> choice[2],
    depthFrom |-> from, depthTo |-> to, includeOutliers |-> outliers] :
     wells \in {{}, {"w1"}}, sizes \in SUBSET {"s"},
     choice \in {<<{}, {}>>, <<{"PDC"}, {"m"}>>}, from \in FieldText, to \in {"", "0"},
     outliers \in BOOLEAN}
Asks == {Request(draft) : draft \in Draft}
  \union {[NoFilter EXCEPT !.mudTypes = muds, !.dateFrom = from, !.dateTo = to] :
            muds \in {{}, {"m"}}, from \in {None, 2}, to \in {None, 3}}
OnlyWell(w) ==
  [wells |-> {w}, sizes |-> {}, families |-> {}, mudTypes |-> {}, depthFrom |-> "",
   depthTo |-> "", includeOutliers |-> TRUE]

\* No view divides by zero, whatever one enters for the trip.
ViewsAreFinite(ps) ==
  /\ \A e \in Settings :
       LET view == Economics(ps, e)
       IN /\ \A i \in DOMAIN view.rows : "infinite" \notin {view.rows[i].cost, view.rows[i].rop}
          /\ \A c \in DOMAIN view.means : view.means[c] # "infinite"
  /\ \A s \in DOMAIN BySize(ps) : BySize(ps)[s].rop[2] > 0
  /\ Summary(ps).overall # None => Summary(ps).overall[2] > 0

\* No figure of a stored run divides by zero, whichever of its nozzles, flow,
\* mud weight and footage are zero or missing, but for the MSE of a bit
\* recorded without its size, as ddr-import.service.ts:207 stores it. One such
\* bit takes the average MSE from the whole dashboard, and no other average;
\* the tab never puts it into a chart, and no view divides by zero.
FiguresAreFinite ==
  subject = "runs" =>
    LET shown == Shown(input)
        received == Received(shown) IN
    /\ \A i \in DOMAIN input : Qualifies(input[i]) =>
         /\ "infinite" \notin {ToPoint(input[i]).hsi, ToPoint(input[i]).cost}
         /\ ToPoint(input[i]).mse = "infinite" <=> input[i].dia = 0
    /\ Average(shown, "cost") # "infinite"
    /\ Average(shown, "mse") = "infinite" <=> \E i \in DOMAIN shown : input[i].dia = 0
    /\ \A i \in FitOf(received, "mse") : input[i].dia \notin {None, 0}
    /\ ViewsAreFinite(received)

\* An answer that is not marked truncated lacks no run that was asked for,
\* also when there are exactly as many as the limit; one that asks for nothing,
\* or for mud types only, asks for all. And recording a run never takes another
\* out of the figures, nor changes its point, at the limit either.
AnswerIsComplete(rows, f) ==
  LET answer == GetRopOptimization(rows, f)
      asked == {i \in DOMAIN rows : Matches(rows, i, f) /\ Qualifies(rows[i])}
  IN /\ ~answer.truncated => DOMAIN answer.points = asked
     /\ [f EXCEPT !.mudTypes = {}] = NoFilter => asked = {i \in DOMAIN rows : Qualifies(rows[i])}
     /\ \A k \in DOMAIN rows :
          LET earlier == GetRopOptimization(SubSeq(rows, 1, k), f).points
          IN earlier = Restrict(answer.points, DOMAIN answer.points \intersect 1..k)

\* Answers are complete or marked, whatever is asked for, and the tab shows
\* all of what it got when it is told to keep outliers.
MissingIsFlagged ==
  subject = "runs" =>
    /\ \A f \in Asks : AnswerIsComplete(input, f)
    /\ \A draft \in Draft :
         LET answer == GetRopOptimization(input, Request(draft))
             shown == ShownPoints(input, draft)
         IN draft.includeOutliers =>
              /\ DOMAIN shown = DOMAIN answer.points
              /\ BitSizeCount(shown) = Cardinality(answer.bitSizes)

\* The dashboard's rollups are of the same runs: those of the makes, with the
\* unknown make, and those of the wells add up to the total; the wells that
\* founder are among those with three runs.
RollupsAgree(ps) ==
  LET wells == FootageByWell(ps)
      runs == [w \in DOMAIN wells |-> wells[w].runs]
  IN /\ SumFunctionOnSet(Leaderboard(ps), DOMAIN Leaderboard(ps)) = Cardinality(DOMAIN ps)
     /\ SumFunctionOnSet(runs, DOMAIN runs) = Cardinality(DOMAIN ps)
     /\ FounderRate(ps).foundered \subseteq {w \in DOMAIN wells : runs[w] >= 3}

\* The tab shows the same, but for negative footage, which the dashboard takes
\* off its total and the tab leaves out of its own. The ROP weighted with
\* footage is between the slowest and the best, and each point is in one cell
\* of the heat map, in one size's mean and in one series.
ViewsAgree(ps) ==
  LET summary == Summary(ps)
      sizes == BySize(ps)
      counts == [s \in DOMAIN sizes |-> sizes[s].n]
      negative == {i \in Having(ps, "meters") : ps[i].meters < 0}
  IN /\ summary.meters = TotalFootage(ps) - SumFunctionOnSet(Meters(ps), negative)
     /\ summary.overall # None =>
          /\ summary.slowest * summary.overall[2] <= summary.overall[1]
          /\ summary.overall[1] <= summary.best * summary.overall[2]
     /\ Cardinality(DOMAIN ps) >= 2 => Partition(Contour(ps), DOMAIN ps)
     /\ SumFunctionOnSet(counts, DOMAIN counts) = Cardinality(DOMAIN ps)
     /\ \A x \in {"wob", "rpm"} : Partition(Scatter(ps, x), DOMAIN ps)

\* A well counts as foundered on the dashboard when the tab, asked for this
\* well with its outliers, marks a founder point.
FounderAgrees(rows) ==
  ~GetRopOptimization(rows, NoFilter).truncated =>
    \A w \in DOMAIN FootageByWell(Shown(rows)) :
      w \in FounderRate(Shown(rows)).foundered
        <=> MarkedFounder(ShownPoints(rows, OnlyWell(w))) # None

\* The activities of a log, imported, or captured with a classification.
ReportOf(lines, source) ==
  LET read == Activities(lines)
  IN [k \in DOMAIN read |->
       IF source = "imported" THEN ImportedActivity(lines, read[k])
       ELSE [isProductive |-> lines[read[k].row] # "wait", hours |-> k, classification |-> source]]

\* The dashboard's NPT hours, and those the exported sheet marks, are of what
\* was captured as unproductive and not planned, and the sheet's lack those of
\* all but the latest reports. Of an imported report they have none, whatever
\* the parser took for non-productive.
Lost(lines, source) ==
  IF source \in {"UNPLANNED", "DOWNTIME"}
  THEN LET acts == ReportOf(lines, source)
       IN Hours(acts, {k \in DOMAIN acts : ~acts[k].isProductive})
  ELSE 0
NptAgrees(lines) ==
  \A sources \in UNION {[1..n -> Sources] : n \in 1..(MaxReports + 1)} :
    LET reports == [r \in DOMAIN sources |-> ReportOf(lines, sources[r])]
        lost == [r \in DOMAIN sources |-> Lost(lines, sources[r])]
    IN /\ NptHours(reports) = SumFunctionOnSet(lost, DOMAIN lost)
       /\ SheetNptHours(reports) = SumFunctionOnSet(lost, {r \in DOMAIN lost : r <= MaxReports})

\* What the dashboard adds up is what the other screens and the exported
\* sheet show one by one, but for what they leave out.
DashboardAgrees ==
  /\ subject = "runs" => /\ RollupsAgree(Shown(input))
                         /\ ViewsAgree(Received(Shown(input)))
                         /\ FounderAgrees(input)
  /\ subject = "log" => NptAgrees(input)

\* data-model.md:359 has the stored ROP in ft/hr, as the capture form asks for
\* it and the import writes it: it is shown as stored.
RopIsInFeet ==
  subject = "runs" => \A row \in ToSet(input) :
    Qualifies(row) /\ row.rop # None => ToPoint(row).rop = row.rop
-----------------------------------------------------------------------------
\* Each row of the 24-hour log is an activity, in order, and no row of the
\* morning report is; each line of text after the first row is part of
\* exactly one comment, that of the row before it. Text before the first row,
\* and text that holds a word of the column titles, is part of none: a
\* comment loses its lines with "Start" or "Com" (ddr-parser.ts:239).
LogIsReadInFull(lines) ==
  LET acts == Activities(lines)
      start == First(Where(lines, {"day"}), 0)
      inLog == {i \in DOMAIN lines : /\ start # 0 /\ i > start
                                     /\ \A j \in (start + 1)..i : lines[j] # "morning"}
      rows == inLog \intersect Where(lines, {"row", "wait"})
      comments == {i \in inLog : lines[i] \notin Skipped}
      ascending(s) == \A a, b \in DOMAIN s : a < b => s[a] < s[b]
  IN /\ {acts[k].row : k \in DOMAIN acts} = rows
     /\ ascending([k \in DOMAIN acts |-> acts[k].row])
     /\ \A k \in DOMAIN acts :
          /\ Range(acts[k].comment) =
               {i \in comments : acts[k].row = Max({0} \union {r \in rows : r <= i})}
          /\ ascending(acts[k].comment)

\* A report whose narrative headings come in order: each line of text from
\* the first heading up to the contact, the two headings between them left
\* out, is in a section, and none is in two.
NarrativeIsReadInFull(lines) ==
  LET at(heading) == First(Where(lines, {heading}), 0)
      end == First({i \in Where(lines, {"contact"}) : i > at("next")}, Len(lines) + 1)
      s == Section(lines)
  IN 0 < at("now") /\ at("now") < at("summary") /\ at("summary") < at("next") =>
       Partition(s, {i \in (at("now") + 1)..(end - 1) :
                       lines[i] # "blank" /\ i \notin {at("summary"), at("next")}})

\* What the parser reads of a report's activity log and of its narrative it
\* reads once, and what it leaves out is what LogIsReadInFull and
\* NarrativeIsReadInFull except.
TextIsReadInFull ==
  /\ subject = "log" => LogIsReadInFull(input)
  /\ subject = "narrative" => NarrativeIsReadInFull(input)

\* Items of one printed line, a little off the base line, are laid out as one
\* row, items of two lines never are, and the rows come in the order of the
\* lines.
RowsAreLines(items) ==
  LET rows == Layout(items)
      placed(r) == {cell.item : cell \in Range(rows[r])}
  IN /\ {placed(r) : r \in DOMAIN rows}
          = {{i \in items : i.line = l} : l \in {i.line : i \in items}}
     /\ \A r, s \in DOMAIN rows : r < s =>
          \A i \in placed(r), j \in placed(s) : i.line < j.line

\* Of two rows of which the second follows the first, if no item runs into
\* its neighbour: whichever items of the first are the listed labels, each
\* column of a value is read under the last label that begins at or before it
\* on the page, and under no other. So a value that stands between its label
\* and the next is read whole; one that begins before its label is split, and
\* what stands before the first label is lost (ddr-parser.ts:133).
ValuesAreReadInColumn(items) ==
  LET rows == Layout(items)
      clear == \A i, j \in items : i.line = j.line /\ i.x < j.x => i.x + i.len <= j.x
  IN clear => \A r \in DOMAIN rows : r + 1 \in DOMAIN rows =>
       \A labels \in SUBSET Range(rows[r]) : \A label \in labels, value \in Range(rows[r + 1]) :
         LET v == value.item
             read == {c \in Slice({l.at : l \in labels}, rows[r + 1], label.at) : c.item = v}
         IN \A x \in v.x..(v.x + v.len - 1) :
              (\E c \in read : c.from <= x /\ x < c.to)
                <=> /\ label.item.x <= x
                    /\ \A l \in labels : label.item.x < l.item.x => x < l.item.x

\* A page is read as it is printed: line by line, and each part of a value
\* under the label that it is printed under.
PageIsReadAsPrinted ==
  subject = "page" => RowsAreLines(ToSet(input)) /\ ValuesAreReadInColumn(ToSet(input))
-----------------------------------------------------------------------------
\* "it is idempotent and cannot write across the tenant boundary"
\* (witsml.service.ts:20): a second import of a document changes nothing, and
\* an import changes rows of its own client only.
ImportIsSafe(db, doc, c) ==
  LET once == ImportXml(db, c, doc) IN
  /\ ImportXml(once, c, doc) = once
  /\ \A id \in DOMAIN once : once[id] # db[id] => db[id].client = c

\* Of "export, import, export is lossless" (witsml.service.ts:21), what is so:
\* where no text is a number, the fields that import reads come back as they
\* were exported, zero grades too, whatever they have become since, and what
\* a document leaves empty stays as it is. A field 0 does not come back, a
\* name loses its leading zeros, and one field that is another number keeps
\* every row of its document out.
ExportComesBack(db, doc, c) ==
  LET new == ImportXml(db, c, doc)
      own == {id \in DOMAIN doc : db[id].client = c}
  IN IF \E id \in own : doc[id].field = "007" THEN new = db
     ELSE \A id \in own :
            /\ doc[id].name # "007" => new[id].name = doc[id].name
            /\ new[id].field = IF doc[id].field \in {"", "0"} THEN db[id].field ELSE doc[id].field
            /\ new[id].inner = IF doc[id].inner = "" THEN db[id].inner ELSE doc[id].inner

\* Whatever was edited since a document was exported, and whoever imports it:
\* the import is safe, and brings back what it reads, but for numbers.
ExchangeIsSafe ==
  subject = "exchange" => \A c \in {"a", "b"} :
    ImportIsSafe(input.db, input.doc, c) /\ ExportComesBack(input.db, input.doc, c)
=============================================================================
