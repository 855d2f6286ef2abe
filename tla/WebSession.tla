----------------------------- MODULE WebSession -----------------------------
(***************************************************************************)
(* Signing in and out in the browser. The session is kept twice: in        *)
(* localStorage, which all tabs share and every request takes its header   *)
(* from, and in the React state of each tab, which the route guard looks   *)
(* at and which is read from localStorage when the tab is loaded. A page's *)
(* query outlives the page, its answer goes to the tab's query cache, and  *)
(* the cache outlives the session.                                         *)
(***************************************************************************)
EXTENDS Naturals, FiniteSets

CONSTANTS
  Tab, User,
  Viewers, \* tabs that open a page with a query
  Logins,  \* the most sessions
  Retries, \* the most retries of a query
  None

ASSUME NoneAssumption == None \notin Nat \union User

VARIABLES
  owner,   \* the users of the sessions so far: session -> user
  expired, \* sessions whose access token has expired
  storage, \* localStorage: the session, or None
  auth,    \* AuthProvider's state: tab -> session, or None
  query,   \* tab -> its query: idle, sent as a session, or waiting to retry
  signout, \* tab -> the session in its last sign-out request, or None
  cache,   \* tab -> whose data the query cache holds, or None
  ended,   \* sessions that were signed out of (history)
  alone    \* tabs no other sign-in or sign-out has touched (history)

serverVars == <<owner, expired>>
tabVars == <<auth, query, cache, signout>>
vars == <<serverVars, storage, tabVars, ended, alone>>

Session == DOMAIN owner
Idle == [state |-> "idle", as |-> None, tries |-> 0]

Init ==
  /\ owner = <<>> /\ expired = {} /\ storage = None
  /\ auth = [t \in Tab |-> None]
  /\ query = [t \in Tab |-> Idle] /\ cache = [t \in Tab |-> None]
  /\ signout = [t \in Tab |-> None]
  /\ ended = {} /\ alone = Tab
-----------------------------------------------------------------------------
\* authHeader: the token that is stored when the request is sent.
\* Mutant: the token of the tab's state.
Header_State(t) == auth[t]
Header(t) == storage

\* JwtAuthGuard's verdict on a request.
Accepted(s) == s # None /\ s \notin expired

\* login, from its answer on: it is stored and shown. In a tab that has loaded
\* nothing yet nobody else's data can be.
Login(t, u) ==
  /\ auth[t] = None /\ Cardinality(Session) < Logins
  /\ LET s == Cardinality(Session) + 1 IN
       /\ owner' = [x \in Session \union {s} |-> IF x = s THEN u ELSE owner[x]]
       /\ storage' = s /\ auth' = [auth EXCEPT ![t] = s]
  /\ alone' = alone \intersect (IF cache[t] = None /\ query[t] = Idle THEN {t} ELSE {})
  /\ UNCHANGED <<expired, query, cache, signout, ended>>

\* logout: a request with what is stored by now (whose sessions it ends is
\* the Logout of AuthSession: those of the header's user); then what is stored
\* and what is shown go, whatever becomes of it. The query cache stays.
Logout(t) ==
  /\ auth[t] # None
  /\ signout' = [signout EXCEPT ![t] = Header(t)]
  /\ storage' = None /\ auth' = [auth EXCEPT ![t] = None]
  /\ ended' = ended \union {auth[t]} /\ alone' = alone \intersect {t}
  /\ UNCHANGED <<serverVars, query, cache>>

\* RequireAuth lets a tab with a session in its state open a page. useQuery
\* sends its query unless one is on its way. Leaving the page stops nothing.
Visit(t) ==
  /\ auth[t] # None /\ t \in Viewers /\ query[t] = Idle
  /\ query' = [query EXCEPT ![t] = [state |-> "sent", as |-> Header(t), tries |-> 0]]
  /\ UNCHANGED <<serverVars, storage, auth, cache, signout, ended, alone>>

\* asJson: a 401 empties localStorage, whatever is in it by now. The query
\* is tried again a few times, with the header of that time.
QueryAnswered(t) ==
  /\ query[t].state = "sent" /\ Accepted(query[t].as)
  /\ cache' = [cache EXCEPT ![t] = owner[query[t].as]]
  /\ query' = [query EXCEPT ![t] = Idle]
  /\ UNCHANGED <<serverVars, storage, auth, signout, ended, alone>>
QueryRefused(t) ==
  /\ query[t].state = "sent" /\ ~Accepted(query[t].as)
  /\ storage' = None
  /\ query' = [query EXCEPT ![t] = IF @.tries < Retries
                 THEN [state |-> "waiting", as |-> None, tries |-> @.tries + 1] ELSE Idle]
  /\ UNCHANGED <<serverVars, auth, cache, signout, ended, alone>>
Retry(t) ==
  /\ query[t].state = "waiting"
  /\ query' = [query EXCEPT ![t] = [@ EXCEPT !.state = "sent", !.as = Header(t)]]
  /\ UNCHANGED <<serverVars, storage, auth, cache, signout, ended, alone>>

\* Loading the tab again: nothing is left of it but localStorage.
\* Mutant: the query cache is kept.
Reload_KeepCache(t) ==
  /\ auth' = [auth EXCEPT ![t] = storage]
  /\ query' = [query EXCEPT ![t] = Idle]
  /\ alone' = alone \union {t}
  /\ UNCHANGED <<serverVars, storage, cache, signout, ended>>
Reload(t) ==
  /\ auth' = [auth EXCEPT ![t] = storage]
  /\ query' = [query EXCEPT ![t] = Idle]
  /\ cache' = [cache EXCEPT ![t] = None]
  /\ alone' = alone \union {t}
  /\ UNCHANGED <<serverVars, storage, signout, ended>>

Expire ==
  /\ \E s \in Session \ expired : expired' = expired \union {s}
  /\ UNCHANGED <<owner, storage, tabVars, ended, alone>>

SessionStep(t) ==
  \/ \E u \in User : Login(t, u)
  \/ Visit(t) \/ QueryAnswered(t) \/ QueryRefused(t) \/ Retry(t)
-----------------------------------------------------------------------------
\* A tab shows its own user's data as long as nobody has signed in or out
\* elsewhere, or before in the same tab, since it was loaded. (The query
\* keys do not name the user and the cache is not cleared: otherwise it may
\* show what another user has loaded.)
LoneTabShowsOwn ==
  \A t \in alone : auth[t] # None /\ cache[t] # None => cache[t] = owner[auth[t]]
=============================================================================
