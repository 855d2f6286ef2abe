-------------------------- MODULE ImportTab_proofs --------------------------
(***************************************************************************)
(* Theorems about WebSession and ImportTab, for any sets of tabs, users    *)
(* and files, and any number of sessions, retries and uploads.             *)
(***************************************************************************)
EXTENDS ImportTab, FiniteSetTheorems, TLAPS

-----------------------------------------------------------------------------
(***************************************************************************)
(* The session in localStorage and the sessions the tabs show.             *)
(***************************************************************************)
SessionTypeOK ==
  /\ \E n \in Nat : owner \in [1..n -> User]
  /\ storage \in Session \union {None}
  /\ auth \in [Tab -> Session \union {None}]
  /\ query \in [Tab -> [state : {"idle", "sent", "waiting"}, as : Session \union {None}, tries : Nat]]
  /\ cache \in [Tab -> User \union {None}]
  /\ signout \in [Tab -> Session \union {None}]
  /\ ended \subseteq Session /\ alone \subseteq Tab

\* What is stored was not signed out of, and is what a tab shows that nobody
\* else has signed in or out of; what such a tab has asked for, or was shown,
\* is its own session's.
SessionInv ==
  /\ storage # None => storage \notin ended
  /\ \A t \in alone :
       /\ storage # None => auth[t] = storage
       /\ query[t].state = "sent" /\ query[t].as # None /\ auth[t] # None => query[t].as = auth[t]
       /\ auth[t] # None /\ cache[t] # None => cache[t] = owner[auth[t]]

WebInv == SessionTypeOK /\ SessionInv

\* The next session has a number of its own.
LEMMA NewSession ==
  ASSUME SessionTypeOK
  PROVE  /\ Session \subseteq Nat
         /\ Cardinality(Session) + 1 \in Nat \ Session
         /\ Session \union {Cardinality(Session) + 1} = 1..(Cardinality(Session) + 1)
<1>1. PICK n \in Nat : owner \in [1..n -> User]
  BY DEF SessionTypeOK
<1>2. Session = 1..n
  BY <1>1 DEF Session
<1>3. Cardinality(1..n) = n
  BY FS_Interval
<1> QED BY <1>2, <1>3

LEMMA LoginKeeps ==
  ASSUME WebInv, NEW t \in Tab, NEW u \in User, Login(t, u)
  PROVE  WebInv'
<1> USE NoneAssumption
<1> DEFINE s == Cardinality(Session) + 1
<1>1. /\ s \in Nat \ Session /\ Session \subseteq Nat
      /\ Session \union {s} = 1..s
  BY NewSession DEF WebInv
<1>2. /\ owner' = [x \in Session \union {s} |-> IF x = s THEN u ELSE owner[x]]
      /\ storage' = s /\ auth' = [auth EXCEPT ![t] = s]
      /\ alone' \subseteq {t} /\ alone' \subseteq alone
      /\ t \in alone' => cache[t] = None /\ query[t] = Idle
      /\ UNCHANGED <<query, cache, signout, ended>>
  BY DEF Login
<1> HIDE DEF s
<1>3. Session' = Session \union {s}
  BY <1>2 DEF Session
<1>4. owner' \in [1..s -> User]
  <2>1. \A x \in Session : owner[x] \in User
    BY DEF WebInv, SessionTypeOK, Session
  <2> QED BY <1>1, <1>2, <2>1
<1>5. SessionTypeOK'
  <2>1. \E n \in Nat : owner' \in [1..n -> User]
    BY <1>1, <1>4
  <2> QED BY <1>2, <1>3, <2>1 DEF WebInv, SessionTypeOK
<1>6. SessionInv'
  BY <1>1, <1>2 DEF WebInv, SessionTypeOK, SessionInv, Idle
<1> QED BY <1>5, <1>6 DEF WebInv

LEMMA LogoutKeeps ==
  ASSUME WebInv, NEW t \in Tab, Logout(t)
  PROVE  WebInv'
<1>1. Session' = Session
  BY DEF Logout, serverVars, Session
<1>2. SessionTypeOK'
  BY <1>1 DEF WebInv, SessionTypeOK, Logout, serverVars, Header
<1>3. SessionInv'
  BY DEF WebInv, SessionInv, SessionTypeOK, Logout, serverVars
<1> QED BY <1>2, <1>3 DEF WebInv

LEMMA ReloadKeeps ==
  ASSUME WebInv, NEW t \in Tab, Reload(t)
  PROVE  WebInv'
<1>1. Session' = Session
  BY DEF Reload, serverVars, Session
<1>2. SessionTypeOK'
  BY <1>1 DEF WebInv, SessionTypeOK, Reload, serverVars, Idle
<1>3. SessionInv'
  BY DEF WebInv, SessionInv, SessionTypeOK, Reload, serverVars, Idle
<1> QED BY <1>2, <1>3 DEF WebInv

\* A query is sent, answered or sent again.
LEMMA QueryKeeps ==
  ASSUME WebInv, NEW t \in Tab,
         Visit(t) \/ QueryAnswered(t) \/ QueryRefused(t) \/ Retry(t)
  PROVE  WebInv'
<1> USE NoneAssumption
<1>1. Session' = Session
  BY DEF Visit, QueryAnswered, QueryRefused, Retry, serverVars, Session
<1>2. CASE Visit(t) \/ Retry(t)
  <2>1. /\ UNCHANGED <<owner, storage, auth, cache, signout, ended, alone>>
        /\ query'[t].as = storage
        /\ \A x \in Tab \ {t} : query'[x] = query[x]
    <3>1. CASE Visit(t)
      BY <3>1 DEF Visit, serverVars, Header, WebInv, SessionTypeOK
    <3>2. CASE Retry(t)
      BY <3>2 DEF Retry, serverVars, Header, WebInv, SessionTypeOK
    <3> QED BY <1>2, <3>1, <3>2
  <2>2. query' \in [Tab -> [state : {"idle", "sent", "waiting"}, as : Session \union {None}, tries : Nat]]
    <3>1. CASE Visit(t)
      BY <3>1 DEF Visit, Header, WebInv, SessionTypeOK
    <3>2. CASE Retry(t)
      <4>1. /\ query' = [query EXCEPT ![t] = [@ EXCEPT !.state = "sent", !.as = storage]]
            /\ storage \in Session \union {None}
        BY <3>2 DEF Retry, Header, WebInv, SessionTypeOK
      <4> QED BY <4>1 DEF WebInv, SessionTypeOK
    <3> QED BY <1>2, <3>1, <3>2
  <2> QED BY <1>1, <2>1, <2>2 DEF WebInv, SessionTypeOK, SessionInv
<1>3. CASE QueryAnswered(t)
  <2>1. query[t].as \in Session /\ query[t].state = "sent" /\ owner[query[t].as] \in User
    BY <1>3 DEF QueryAnswered, Accepted, WebInv, SessionTypeOK, Session
  <2>2. SessionTypeOK'
    BY <1>1, <1>3, <2>1 DEF QueryAnswered, serverVars, WebInv, SessionTypeOK, Idle
  <2>3. SessionInv'
    BY <1>3, <2>1 DEF QueryAnswered, serverVars, WebInv, SessionTypeOK, SessionInv, Idle, Session
  <2> QED BY <2>2, <2>3 DEF WebInv
<1>4. CASE QueryRefused(t)
  <2>1. /\ UNCHANGED <<owner, auth, cache, signout, ended, alone>> /\ storage' = None
        /\ query'[t].state # "sent"
        /\ \A x \in Tab \ {t} : query'[x] = query[x]
    BY <1>4 DEF QueryRefused, serverVars, WebInv, SessionTypeOK, Idle
  <2>2. query' \in [Tab -> [state : {"idle", "sent", "waiting"}, as : Session \union {None}, tries : Nat]]
    <3>1. query[t].tries + 1 \in Nat
      BY DEF WebInv, SessionTypeOK
    <3> QED BY <1>4, <3>1 DEF QueryRefused, WebInv, SessionTypeOK, Idle
  <2> QED BY <1>1, <2>1, <2>2 DEF WebInv, SessionTypeOK, SessionInv
<1> QED BY <1>2, <1>3, <1>4

\* A tab's steps and the page's, which may empty localStorage.
LEMMA WebInvInvariant == Spec => []WebInv
<1>1. ImportInit => WebInv
  <2> SUFFICES ASSUME ImportInit PROVE WebInv
    OBVIOUS
  <2>1. owner \in [1..0 -> User]
    BY DEF ImportInit, Init
  <2> QED BY <2>1 DEF ImportInit, Init, WebInv, SessionTypeOK, SessionInv, Idle
<1>2. WebInv /\ [Next]_allVars => WebInv'
  <2> SUFFICES ASSUME WebInv, [Next]_allVars PROVE WebInv'
    OBVIOUS
  <2>1. ASSUME UNCHANGED <<owner, auth, query, cache, signout, ended, alone>>,
               storage' \in {storage, None}
        PROVE  WebInv'
    BY <2>1 DEF WebInv, SessionTypeOK, SessionInv, Session
  <2>2. ASSUME NEW t \in Tab, SessionStep(t) \/ Logout(t) \/ Reload(t)
        PROVE  WebInv'
    BY <2>2, LoginKeeps, LogoutKeeps, ReloadKeeps, QueryKeeps DEF SessionStep
  <2>3. CASE Expire
    BY <2>1, <2>3 DEF Expire, tabVars
  <2>4. CASE Leave
    BY <2>2, <2>4, TabAssumption DEF Leave
  <2>5. CASE OpenPage \/ ClosePage \/ (\E f \in File : Pick(f))
             \/ (\E k \in {"parsing", "importing"} : Press(k))
    BY <2>1, <2>5 DEF OpenPage, ClosePage, Pick, Press, vars, serverVars, tabVars
  <2>6. ASSUME NEW u \in uploads, Arrive(u)
        PROVE  WebInv'
    BY <2>1, <2>6 DEF Arrive, serverVars, tabVars
  <2>7. CASE UNCHANGED allVars
    BY <2>1, <2>7 DEF allVars, vars, serverVars, tabVars
  <2> QED BY <2>2, <2>3, <2>4, <2>5, <2>6, <2>7 DEF Next, PageStep, OtherStep
<1> QED BY <1>1, <1>2, PTL DEF Spec

-----------------------------------------------------------------------------
\* A tab shows its own user's data as long as nobody has signed in or out
\* elsewhere, or before in the same tab, since it was loaded.
THEOREM ShowsOwn == Spec => []LoneTabShowsOwn
<1>1. WebInv => LoneTabShowsOwn
  BY DEF WebInv, SessionInv, LoneTabShowsOwn
<1> QED BY <1>1, WebInvInvariant, PTL

-----------------------------------------------------------------------------
(***************************************************************************)
(* What is sent.                                                           *)
(***************************************************************************)
\* What a step sends it sends with the stored session.
LEMMA SentIsStored ==
  ASSUME WebInv, Next, NEW t \in Tab, NEW s \in Sent(t)
  PROVE  s = storage
<1> USE NoneAssumption, TabAssumption
<1>1. s # None
  BY DEF Sent
<1>2. query'[t] = query[t] \/ query'[t].as \in {storage, None}
  <2>1. ASSUME NEW x \in Tab,
               Visit(x) \/ QueryAnswered(x) \/ QueryRefused(x) \/ Retry(x) \/ Reload(x)
        PROVE  query'[t] = query[t] \/ query'[t].as \in {storage, None}
    <3>1. x # t => query'[t] = query[t]
      BY <2>1 DEF Visit, QueryAnswered, QueryRefused, Retry, Reload, WebInv, SessionTypeOK
    <3>2. CASE Visit(t)
      BY <3>2 DEF Visit, Header, WebInv, SessionTypeOK
    <3>3. CASE QueryAnswered(t) \/ QueryRefused(t) \/ Reload(t)
      BY <3>3 DEF QueryAnswered, QueryRefused, Reload, Idle, WebInv, SessionTypeOK
    <3>4. CASE Retry(t)
      BY <3>4 DEF Retry, Header, WebInv, SessionTypeOK
    <3> QED BY <2>1, <3>1, <3>2, <3>3, <3>4
  <2>2. CASE query' = query
    BY <2>2
  <2> QED BY <2>1, <2>2
          DEF Next, PageStep, OtherStep, SessionStep, Login, Logout, Expire, OpenPage, ClosePage,
              Leave, Pick, Press, Arrive, vars, tabVars
<1>3. ASSUME NEW u \in uploads' \ uploads, u.mine
      PROVE  u.as = storage
  <2>1. CASE \E k \in {"parsing", "importing"} : Press(k)
    BY <1>3, <2>1 DEF Press, Header
  <2>2. CASE uploads' \subseteq uploads \/ uploads' = Orphaned
    BY <1>3, <2>2 DEF Orphaned
  <2> QED BY <2>1, <2>2
          DEF Next, PageStep, OtherStep, OpenPage, ClosePage, Leave, Pick, Arrive, formVars
<1>4. signout'[t] = signout[t] \/ signout'[t] = storage
  <2>1. ASSUME NEW x \in Tab, Logout(x)
        PROVE  signout'[t] = signout[t] \/ signout'[t] = storage
    BY <2>1 DEF Logout, Header, WebInv, SessionTypeOK
  <2>2. ASSUME NEW x \in Tab, Reload(x) \/ SessionStep(x)
        PROVE  signout'[t] = signout[t]
    BY <2>2 DEF Reload, SessionStep, Login, Visit, QueryAnswered, QueryRefused, Retry
  <2> QED BY <2>1, <2>2
          DEF Next, PageStep, OtherStep, Expire, OpenPage, ClosePage, Leave, Pick, Press, Arrive,
              vars, tabVars
<1> QED BY <1>1, <1>2, <1>3, <1>4 DEF Sent

\* Once somebody has signed out of a session nothing is sent with it, and a
\* tab that nobody else has signed in or out of sends with the session it
\* shows, the request that signs it out included.
THEOREM RequestsOwn == Spec => RequestsAreOwn
<1>1. WebInv /\ [Next]_allVars =>
        [\A t \in Tab : \A s \in Sent(t) : s \notin ended /\ (t \in alone => s = auth[t])]_allVars
  <2> SUFFICES ASSUME WebInv, Next, NEW t \in Tab, NEW s \in Sent(t)
               PROVE  s \notin ended /\ (t \in alone => s = auth[t])
    OBVIOUS
  <2>1. s = storage /\ s # None
    BY SentIsStored DEF Sent
  <2> QED BY <2>1 DEF WebInv, SessionInv
<1> QED BY <1>1, WebInvInvariant, PTL DEF Spec, RequestsAreOwn

-----------------------------------------------------------------------------
(***************************************************************************)
(* The page. While it waits, one upload is its own; while it does not,     *)
(* none is.                                                                *)
(***************************************************************************)
Own == {u \in uploads : u.mine}

FormInv ==
  /\ form \in Form \union {None}
  /\ \A u \in Own : u.file \in File
  /\ \A u, v \in Own : u = v
  /\ form = None \/ form.busy = "idle" => Own = {}
  /\ form # None /\ ~switched => \A u \in Own : u.file = form.file
  /\ PreviewIsOfItsFile

\* Every step of the page, and of another tab.
LEMMA FormInvInvariant == Spec => []FormInv
<1> USE FormAssumption, NoneAssumption
<1>1. ImportInit => FormInv
  BY DEF ImportInit, FormInv, Own, PreviewIsOfItsFile
<1>2. FormInv /\ [Next]_allVars => FormInv'
  <2> SUFFICES ASSUME FormInv, [Next]_allVars PROVE FormInv'
    OBVIOUS
  <2> USE DEF FormInv, PreviewIsOfItsFile
  <2>1. CASE OpenPage
    <3>1. Own' = {} /\ form' = EmptyForm
      BY <2>1 DEF OpenPage, Own
    <3> QED BY <3>1 DEF EmptyForm, Form
  <2>2. CASE ClosePage
    <3>1. Own' = {} /\ form' = None
      BY <2>2 DEF ClosePage, Own, Orphaned
    <3> QED BY <3>1
  <2>3. ASSUME NEW f \in File, Pick(f)
        PROVE  FormInv'
    <3>1. Own' = Own /\ form \in Form /\ form' \in Form
      BY <2>3 DEF Pick, Own, Form
    <3>2. /\ form'.file = f /\ form'.parsed = None /\ form'.result = None
          /\ form'.busy = form.busy /\ (~switched' => form.busy = "idle")
      BY <2>3, <3>1 DEF Pick, Form
    <3> QED BY <3>1, <3>2
  <2>4. ASSUME NEW k \in {"parsing", "importing"}, Press(k)
        PROVE  FormInv'
    <3> DEFINE u == [kind |-> k, file |-> form.file, as |-> Header(Importer), mine |-> TRUE]
    <3>1. /\ form \in Form /\ form.file \in File /\ form.busy = "idle" /\ Own = {}
          /\ UNCHANGED switched
      BY <2>4 DEF Press, MayPress, Form
    <3>2. Own' = {u}
      BY <2>4, <3>1 DEF Press, Own
    <3>3. /\ form' \in Form /\ form'.file = form.file /\ form'.parsed = form.parsed
          /\ form'.busy = k /\ form'.result \in {form.result, None}
      BY <2>4, <3>1 DEF Press, Form
    <3>4. u.file = form.file
      OBVIOUS
    <3> HIDE DEF u
    <3> QED BY <3>1, <3>2, <3>3, <3>4
  <2>5. ASSUME NEW u \in uploads, Arrive(u)
        PROVE  FormInv'
    <3>1. Own' = Own \ {u} /\ UNCHANGED switched
      BY <2>5 DEF Arrive, Own
    <3>2. CASE u.mine
      <4>1. u \in Own /\ Own' = {} /\ form \in Form /\ u.file \in File
        BY <3>1, <3>2 DEF Own
      <4>2. PICK a \in {"ok", "refused", "failed"} : form' = Shown(u, a)
        BY <2>5, <3>2 DEF Arrive
      <4>3. /\ form' \in Form /\ form'.file = form.file
            /\ form'.parsed \in {form.parsed, u.file}
            /\ form'.result \in {form.result, u.file}
        BY <4>1, <4>2 DEF Shown, Form
      <4> QED BY <3>1, <4>1, <4>3
    <3>3. CASE ~u.mine
      <4>1. Own' = Own /\ form' = form
        BY <2>5, <3>1, <3>3 DEF Arrive, Own
      <4> QED BY <3>1, <4>1
    <3> QED BY <3>2, <3>3
  <2>6. CASE Leave
    <3>1. Own' = {} /\ form' = None
      BY <2>6 DEF Leave, Own, Orphaned
    <3> QED BY <3>1
  <2>7. CASE UNCHANGED formVars
    BY <2>7 DEF formVars, Own
  <2> QED BY <2>1, <2>2, <2>3, <2>4, <2>5, <2>6, <2>7
          DEF Next, PageStep, OtherStep, allVars
<1> QED BY <1>1, <1>2, PTL DEF Spec

\* What the page shows was read from the file that is picked, unless another
\* was picked while an upload was on its way.
THEOREM PreviewOfItsFile == Spec => []PreviewIsOfItsFile
<1>1. FormInv => PreviewIsOfItsFile
  BY DEF FormInv
<1> QED BY <1>1, FormInvInvariant, PTL
=============================================================================
