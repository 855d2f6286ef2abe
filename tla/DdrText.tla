------------------------------ MODULE DdrText ------------------------------
(***************************************************************************)
(* From the text items of a PDF to a parsed daily report: pdfToLayoutText  *)
(* of pdf-text.ts, colSlice, sectionText and the activity log of           *)
(* ddr-parser.ts, and what the import makes of an activity.                *)
(* A line is the kind of text that the parser's patterns tell apart:       *)
(*   day, morning          the headings of the two activity logs           *)
(*   now, summary, next, contact                 the narrative headings    *)
(*   row, wait     an activity row, the second with a non-productive code  *)
(*   columns       the titles of the log's columns                         *)
(*   titled        text of a comment that holds a word of those titles     *)
(*   blank; text: anything else                                            *)
(* Positions are in units of the median glyph width.                       *)
(***************************************************************************)
EXTENDS Integers, Sequences, SequencesExt, FiniteSetsExt

Where(lines, kinds) == {i \in DOMAIN lines : lines[i] \in kinds}
First(S, otherwise) == IF S = {} THEN otherwise ELSE Min(S)
-----------------------------------------------------------------------------
\* The 24-hour log: from its heading to the next heading of the morning
\* report, or to the end of the document.
LogEnd(lines, start) ==
  First({i \in Where(lines, {"morning"}) : i > start}, Len(lines) + 1)

\* Each row starts an activity; a line of another kind goes on with the
\* comment of the last one, unless it is blank or holds a word of the column
\* titles ("Start", "Com"), be it text. An activity here is its row and the
\* lines of its comment.
Skipped == {"blank", "columns", "titled"}
\* Mutant: a line goes on with the comment of the first one.
ReadLine_First(lines, acts, i) ==
  IF lines[i] \in {"row", "wait"} THEN Append(acts, [row |-> i, comment |-> <<i>>])
  ELSE IF acts # <<>> /\ lines[i] \notin Skipped
       THEN [acts EXCEPT ![1].comment = Append(@, i)]
       ELSE acts
ReadLine(lines, acts, i) ==
  IF lines[i] \in {"row", "wait"} THEN Append(acts, [row |-> i, comment |-> <<i>>])
  ELSE IF acts # <<>> /\ lines[i] \notin Skipped
       THEN [acts EXCEPT ![Len(acts)].comment = Append(@, i)]
       ELSE acts

Activities(lines) ==
  LET start == First(Where(lines, {"day"}), 0)
      read[i \in Nat] == IF i <= start THEN <<>> ELSE ReadLine(lines, read[i - 1], i)
  IN IF start = 0 THEN <<>> ELSE read[LogEnd(lines, start) - 1]

\* The import stores each activity as planned, and the productive flag.
ImportedActivity(lines, act) ==
  [isProductive |-> lines[act.row] # "wait", classification |-> "PLANNED", hours |-> 1]

\* sectionText: the lines after a heading, up to the next one, or to the end
\* of the document when that one is missing.
SectionText(lines, from, to) ==
  LET start == First(Where(lines, {from}), 0)
  IN {i \in DOMAIN lines : /\ start # 0 /\ i > start /\ lines[i] # "blank"
                           /\ \A j \in (start + 1)..i : lines[j] # to}
Section(lines) ==
  [now |-> SectionText(lines, "now", "summary"),
   summary |-> SectionText(lines, "summary", "next"),
   next |-> SectionText(lines, "next", "contact")]
-----------------------------------------------------------------------------
\* A row begins with the highest item that is left and takes those within 3
\* of it; these are lower.
Lower(S) == {i \in S : \E top \in S : top.y - i.y > 3}

\* A row is written left to right, of items at one x the higher first: each
\* item at its column, or behind what is already there.
LeftOf(a, b) == a.x < b.x \/ (a.x = b.x /\ a.y > b.y)
Nth(row, k) == CHOOSE i \in row : Cardinality({j \in row : LeftOf(j, i)}) = k - 1
LineOf(row) ==
  LET length[k \in 0..Cardinality(row)] ==
        IF k = 0 THEN 0 ELSE Max({Nth(row, k).x, length[k - 1]}) + Nth(row, k).len
  IN [k \in 1..Cardinality(row) |->
        LET i == Nth(row, k) IN [at |-> Max({i.x, length[k - 1]}), len |-> i.len, item |-> i]]

Layout(items) ==
  LET left[k \in 0..Cardinality(items)] == IF k = 0 THEN items ELSE Lower(left[k - 1])
      rows == {k \in 1..Cardinality(items) : left[k - 1] # {}}
  IN [k \in rows |-> LineOf(left[k - 1] \ left[k])]

\* colSlice: P is where the listed labels begin in the header row, as far as
\* it has them. The value row is cut at each, wherever in a value that is:
\* under the label at p, the part of each value from p up to the next label.
\* Mutant: up to and with the next label's column.
Slice_Inclusive(P, values, p) ==
  LET end == First({q \in P : q > p}, Last(values).at + Last(values).len)
  IN {[item |-> v.item, from |-> Max({v.at, p}), to |-> Min({v.at + v.len, end + 1})] :
        v \in {v \in ToSet(values) : v.at <= end /\ p < v.at + v.len}}
Slice(P, values, p) ==
  LET end == First({q \in P : q > p}, Last(values).at + Last(values).len)
  IN {[item |-> v.item, from |-> Max({v.at, p}), to |-> Min({v.at + v.len, end})] :
        v \in {v \in ToSet(values) : v.at < end /\ p < v.at + v.len}}
=============================================================================
