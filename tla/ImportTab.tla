----------------------------- MODULE ImportTab ------------------------------
(***************************************************************************)
(* The "Import DDR" page of one of the tabs: a file is picked, parsed for a *)
(* preview, imported. An upload outlives the page that sent it, and the    *)
(* file can be changed while it is on its way. What the server does with   *)
(* it is DdrImport's.                                                      *)
(***************************************************************************)
EXTENDS WebSession

CONSTANTS
  File,
  Importer, \* the tab with the page
  Uploads   \* the most uploads on their way

\* What the page shows: the picked, the parsed and the imported file, and what
\* is on its way.
Form == [file : File \union {None}, parsed : File \union {None},
         result : File \union {None}, busy : {"idle", "parsing", "importing"}]

ASSUME TabAssumption == Importer \in Tab /\ Viewers \subseteq Tab
ASSUME FormAssumption == None \notin File \union Form

VARIABLES
  form,     \* the component's state, or None: the page is not open
  uploads,  \* requests on their way
  switched  \* a file was picked while an upload was on its way (history)

formVars == <<form, uploads, switched>>
allVars == <<vars, formVars>>

EmptyForm == [file |-> None, parsed |-> None, result |-> None, busy |-> "idle"]
ImportInit == Init /\ form = None /\ uploads = {} /\ switched = FALSE
-----------------------------------------------------------------------------
OpenPage ==
  /\ auth[Importer] # None /\ form = None
  /\ form' = EmptyForm /\ switched' = FALSE
  /\ UNCHANGED <<vars, uploads>>

\* The component goes. What it sent goes on without it, and may still be
\* answered 401.
Orphaned == {[kind |-> None, file |-> None, as |-> u.as, mine |-> FALSE] : u \in uploads}
ClosePage ==
  /\ form # None /\ form' = None /\ uploads' = Orphaned
  /\ UNCHANGED <<vars, switched>>

\* pick.
\* Mutant: the preview stays.
Pick_KeepParsed(f) ==
  /\ form # None
  /\ form' = [form EXCEPT !.file = f, !.result = None]
  /\ switched' = (form.busy # "idle")
  /\ UNCHANGED <<vars, uploads>>
Pick(f) ==
  /\ form # None
  /\ form' = [form EXCEPT !.file = f, !.parsed = None, !.result = None]
  /\ switched' = (form.busy # "idle")
  /\ UNCHANGED <<vars, uploads>>

\* onParse and onImport up to the answer. A button works when a file is
\* picked and nothing is on its way.
MayPress == form # None /\ form.file # None /\ form.busy = "idle"
Press(kind) ==
  /\ MayPress /\ Cardinality(uploads) < Uploads
  /\ form' = [form EXCEPT !.busy = kind,
                          !.result = IF kind = "parsing" THEN None ELSE @]
  /\ uploads' = uploads \union
       {[kind |-> kind, file |-> form.file, as |-> Header(Importer), mine |-> TRUE]}
  /\ UNCHANGED <<vars, switched>>

\* The answer, or an error (a 409, a file that is no DDR, the network): catch,
\* finally. Any 401 empties localStorage; the rest is for the component, if it
\* is there.
Shown(u, a) ==
  IF a = "ok" THEN [form EXCEPT !.parsed = u.file, !.busy = "idle",
                                !.result = IF u.kind = "importing" THEN u.file ELSE @]
  ELSE [form EXCEPT !.busy = "idle"]
Arrive(u) ==
  /\ uploads' = uploads \ {u}
  /\ \E a \in {IF Accepted(u.as) THEN "ok" ELSE "refused", "failed"} :
       /\ storage' = IF a = "refused" THEN None ELSE storage
       /\ form' = IF u.mine THEN Shown(u, a) ELSE form
  /\ UNCHANGED <<serverVars, tabVars, ended, alone, switched>>

\* Signing out leaves the page, loading the tab again aborts its requests as
\* well.
Leave ==
  \/ /\ Logout(Importer) /\ form' = None /\ uploads' = Orphaned /\ UNCHANGED switched
  \/ /\ Reload(Importer) /\ form' = None /\ uploads' = {} /\ UNCHANGED switched

PageStep ==
  \/ OpenPage \/ ClosePage \/ Leave
  \/ \E f \in File : Pick(f)
  \/ \E k \in {"parsing", "importing"} : Press(k)
  \/ \E u \in uploads : Arrive(u)

OtherStep ==
  /\ \/ \E t \in Tab : SessionStep(t)
     \/ \E t \in Tab \ {Importer} : Logout(t) \/ Reload(t)
     \/ Expire
  /\ UNCHANGED formVars

Next == PageStep \/ OtherStep
Spec == ImportInit /\ [][Next]_allVars
-----------------------------------------------------------------------------
\* "verify the extraction before it lands in the database" (ImportDdrTab.tsx:
\* 6-7): what is shown was read from the file that is picked, and so is what
\* is said to be imported, unless another file was picked while an upload
\* was on its way: its answer is shown all the same.
PreviewIsOfItsFile ==
  form # None /\ ~switched =>
    form.parsed \in {None, form.file} /\ form.result \in {None, form.file}

\* What a step makes a tab send: the session in the header.
Sent(t) ==
  ((IF query'[t] # query[t] THEN {query'[t].as} ELSE {})
   \union (IF signout'[t] # signout[t] THEN {signout'[t]} ELSE {})
   \union {u.as : u \in {u \in uploads' \ uploads : t = Importer /\ u.mine}}) \ {None}

\* "local state is cleared regardless" (auth.ts:62): once somebody has signed
\* out of a session, in whichever tab, no tab sends a request with it, not
\* even one that still shows it. And as long as nobody signs in or out in
\* another tab, what is asked for or imported, and what signing out ends on
\* the server, is of the session the tab shows. (After that it may be the
\* other user's: the header is the one that is stored.)
RequestsAreOwn ==
  [][\A t \in Tab : \A s \in Sent(t) : s \notin ended /\ (t \in alone => s = auth[t])]_allVars
=============================================================================
