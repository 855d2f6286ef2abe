----------------------------- MODULE AuthSession -----------------------------
(***************************************************************************)
(* login, refresh and logout of api/src/auth/auth.service.ts. A user's row *)
(* holds the hash of one refresh token. Each handler reads the row in one  *)
(* autocommitted statement and writes it in a later one, with argon2 and   *)
(* the JWT signatures in between: there is no transaction, and the write   *)
(* (auth_set_refresh_hash) does not look at what it replaces.              *)
(* A request is used once and names the pair of tokens it issues: their    *)
(* jti is random, so no two pairs are alike. A hash is modelled by the     *)
(* token it verifies. A crash loses the answer but not a write that was    *)
(* made.                                                                   *)
(***************************************************************************)
CONSTANTS
  User,     \* user ids
  Req,      \* requests
  None,     \* no token
  Overlap   \* whether two requests may be in progress at the same time

ASSUME NoneAssumption == None \notin Req \union User
ASSUME OverlapAssumption == Overlap \in BOOLEAN

VARIABLES
  hash,     \* user -> app_user.refresh_token_hash
  active,   \* user -> app_user.is_active
  pc,       \* request -> its next step, or its answer
  op,       \* request -> its operation
  user,     \* request -> the user it acts for
  token,    \* request -> the token it presents
  age,      \* token pair -> how much of it has expired
  session,  \* token -> the login its session began with (history)
  ended     \* the logins whose session was ended (history)

vars == <<hash, active, pc, op, user, token, age, session, ended>>

Op == {"login", "refresh", "logout"}
Running == {"issue", "stored", "clear"}
Answer == {"ok", "unauthorized", "failed"}

\* JWT_ACCESS_TTL passes before JWT_REFRESH_TTL.
Age == {"fresh", "accessExpired", "expired"}

\* The token pairs a client holds: those that were sent to it.
Held(t) == pc[t] = "ok" /\ op[t] \in {"login", "refresh"}

Init ==
  /\ hash = [u \in User |-> None]
  /\ active = [u \in User |-> TRUE]
  /\ pc = [r \in Req |-> "idle"]
  /\ op = [r \in Req |-> "login"]
  /\ user = [r \in Req |-> None]
  /\ token = [r \in Req |-> None]
  /\ age = [t \in Req |-> "fresh"]
  /\ session = [t \in Req |-> None]
  /\ ended = {}
-----------------------------------------------------------------------------
Goto(r, label) == pc' = [pc EXCEPT ![r] = label]

\* A request arrives: its operation, its user and the token it carries.
Arrive(r, o, u, t) ==
  /\ pc[r] = "idle"
  /\ Overlap \/ \A q \in Req : pc[q] \notin Running
  /\ op' = [op EXCEPT ![r] = o]
  /\ user' = [user EXCEPT ![r] = u]
  /\ token' = [token EXCEPT ![r] = t]
  /\ UNCHANGED <<hash, active, age, session, ended>>

\* login: find the user by email and verify the password, which is wrong
\* in the second case.
\* Mutant: is_active is asked for by refresh alone.
Login_Inactive(r, u) ==
  /\ Arrive(r, "login", u, None)
  /\ Goto(r, "issue") \/ Goto(r, "unauthorized")
Login(r, u) ==
  /\ Arrive(r, "login", u, None)
  /\ \/ active[u] /\ Goto(r, "issue")
     \/ Goto(r, "unauthorized")

\* refresh: verify the JWT, find the user, compare the token with the hash.
\* Mutants: the user is not asked to be active; the comparison is left out;
\* an expired token will do.
Refresh_Inactive(r, t) ==
  /\ Held(t)
  /\ Arrive(r, "refresh", user[t], t)
  /\ \/ /\ age[t] = "expired" \/ hash[user[t]] = None
        /\ Goto(r, "unauthorized")
     \/ /\ age[t] # "expired" /\ hash[user[t]] # None
        /\ Goto(r, IF hash[user[t]] = t THEN "issue" ELSE "clear")
Refresh_NoCompare(r, t) ==
  /\ Held(t)
  /\ Arrive(r, "refresh", user[t], t)
  /\ \/ /\ age[t] = "expired" \/ ~ active[user[t]] \/ hash[user[t]] = None
        /\ Goto(r, "unauthorized")
     \/ /\ age[t] # "expired" /\ active[user[t]] /\ hash[user[t]] # None
        /\ Goto(r, "issue")
Refresh(r, t) ==
  LET u == user[t] IN
  /\ Held(t)
  /\ Arrive(r, "refresh", u, t)
  /\ \/ /\ age[t] = "expired" \/ ~ active[u] \/ hash[u] = None
        /\ Goto(r, "unauthorized")
     \/ /\ age[t] # "expired" /\ active[u]
        /\ hash[u] = t
        /\ Goto(r, "issue")
     \/ /\ age[t] # "expired" /\ active[u]
        /\ hash[u] \notin {None, t}
        /\ Goto(r, "clear")

\* logout: JwtAuthGuard asks for an access token that has not expired, and
\* nothing more: not that its session still exists.
Logout(r, t) ==
  /\ Held(t)
  /\ Arrive(r, "logout", user[t], t)
  /\ \/ age[t] = "fresh" /\ Goto(r, "clear")
     \/ age[t] # "fresh" /\ Goto(r, "unauthorized")

\* The session that is over when the hash of u becomes that of a token of s.
EndedBy(u, s) == IF hash[u] = None THEN {} ELSE {session[hash[u]]} \ {s}

\* issueFor: sign the new pair and store the hash of its refresh token.
\* Mutant: without a jti the pair is the presented one, byte for byte.
IssueFor_NoJti(r) ==
  LET u == user[r]
      t == IF op[r] = "refresh" THEN token[r] ELSE r
      s == IF op[r] = "login" THEN r ELSE session[token[r]]
  IN /\ pc[r] = "issue"
     /\ hash' = [hash EXCEPT ![u] = t]
     /\ session' = [session EXCEPT ![r] = s]
     /\ ended' = ended \union EndedBy(u, s)
     /\ Goto(r, "stored")
     /\ UNCHANGED <<active, op, user, token, age>>
\* Mutant: the pair is sent before its hash is stored, and it never is.
IssueFor_NotStored(r) ==
  /\ pc[r] = "issue"
  /\ session' = [session EXCEPT ![r] = IF op[r] = "login" THEN r ELSE session[token[r]]]
  /\ Goto(r, "stored")
  /\ UNCHANGED <<hash, ended, active, op, user, token, age>>
IssueFor(r) ==
  LET u == user[r]
      s == IF op[r] = "login" THEN r ELSE session[token[r]]
  IN /\ pc[r] = "issue"
     /\ hash' = [hash EXCEPT ![u] = r]
     /\ session' = [session EXCEPT ![r] = s]
     /\ ended' = ended \union EndedBy(u, s)
     /\ Goto(r, "stored")
     /\ UNCHANGED <<active, op, user, token, age>>

\* The answer with the new pair reaches the client.
Respond(r) ==
  /\ pc[r] = "stored"
  /\ Goto(r, "ok")
  /\ UNCHANGED <<hash, active, op, user, token, age, session, ended>>

\* setRefreshHash(user, null), of a logout or of a token that did not match.
\* Mutant: a mismatch is only refused.
Clear_LogoutOnly(r) ==
  /\ pc[r] = "clear"
  /\ hash' = [hash EXCEPT ![user[r]] = IF op[r] = "logout" THEN None ELSE @]
  /\ ended' = ended \union (IF hash[user[r]] = None THEN {} ELSE {session[hash[user[r]]]})
  /\ Goto(r, IF op[r] = "logout" THEN "ok" ELSE "unauthorized")
  /\ UNCHANGED <<active, op, user, token, age, session>>
Clear(r) ==
  /\ pc[r] = "clear"
  /\ hash' = [hash EXCEPT ![user[r]] = None]
  /\ ended' = ended \union EndedBy(user[r], None)
  /\ \/ op[r] = "logout" /\ Goto(r, "ok")
     \/ op[r] # "logout" /\ Goto(r, "unauthorized")
  /\ UNCHANGED <<active, op, user, token, age, session>>

\* The API stops, or the connection is lost, between two steps.
Crash(r) ==
  /\ pc[r] \in Running
  /\ Goto(r, "failed")
  /\ UNCHANGED <<hash, active, op, user, token, age, session, ended>>

\* An operator clears is_active in the database: no handler does.
Deactivate(u) ==
  /\ active[u]
  /\ active' = [active EXCEPT ![u] = FALSE]
  /\ UNCHANGED <<hash, pc, op, user, token, age, session, ended>>

\* Time passes for the tokens of a pair.
Expire(t) ==
  /\ Held(t)
  /\ \/ age[t] = "fresh" /\ age' = [age EXCEPT ![t] = "accessExpired"]
     \/ age[t] = "accessExpired" /\ age' = [age EXCEPT ![t] = "expired"]
  /\ UNCHANGED <<hash, active, pc, op, user, token, session, ended>>

Step(r) == IssueFor(r) \/ Respond(r) \/ Clear(r)

Next ==
  \/ \E r \in Req : \/ \E u \in User : Login(r, u)
                    \/ \E t \in Req : Refresh(r, t) \/ Logout(r, t)
                    \/ Step(r)
                    \/ Crash(r)
                    \/ Expire(r)
  \/ \E u \in User : Deactivate(u)

Spec == Init /\ [][Next]_vars
-----------------------------------------------------------------------------
TypeOK ==
  /\ hash \in [User -> Req \union {None}]
  /\ active \in [User -> BOOLEAN]
  /\ pc \in [Req -> {"idle"} \union Running \union Answer]
  /\ op \in [Req -> Op]
  /\ user \in [Req -> User \union {None}]
  /\ token \in [Req -> Req \union {None}]
  /\ age \in [Req -> Age]
  /\ session \in [Req -> Req \union {None}]
  /\ ended \subseteq Req \union {None}

(***************************************************************************)
(* Holds however the requests interleave.                                  *)
(***************************************************************************)
\* No write brings back a token that was issued and is not the stored one.
RetiredStays ==
  \A u \in User, t \in Req : session[t] # None /\ hash[u] # t => hash'[u] # t

\* A refresh token that was rotated out or cleared never works again, even
\* when the writes of several requests cross: every write stores a token
\* that was never stored before (what the jti is for) or none.
RetiredStaysRetired == [][RetiredStays]_hash

\* Locked out: deactivated, and every request that had read the row before is
\* done. From then on nothing the user sends, with whatever token, leads to a
\* new pair: the state is never left, and the hash stays or is cleared.
LockedOut(u) == ~ active[u] /\ \A r \in Req : ~ (user[r] = u /\ pc[r] = "issue")
StaysLockedOut ==
  \A u \in User : LockedOut(u) => LockedOut(u)' /\ hash'[u] \in {hash[u], None}
DeactivatedGetsNoToken == [][StaysLockedOut]_vars

\* The pairs that a request of u has passed its checks for and not sent yet,
\* and those whose access token opens the API to u: JwtAuthGuard looks at its
\* signature and its age, not at the user's row.
UnderWay(u) == {t \in Req : user[t] = u /\ pc[t] \in {"issue", "stored"}}
Access(u) == {t \in Req : Held(t) /\ user[t] = u /\ age[t] = "fresh"}

\* Deactivation does not end the access of a user, it lets it run out: from
\* then on no request of hers passes its checks, whatever tokens she holds,
\* and the access tokens in use are those of before and what was under way.
NoAccessIsAdded ==
  \A u \in User : ~ active[u] =>
    /\ ~ active'[u]
    /\ UnderWay(u)' \subseteq UnderWay(u)
    /\ Access(u)' \subseteq Access(u) \union UnderWay(u)
AccessOnlyRunsOut == [][NoAccessIsAdded]_vars

(***************************************************************************)
(* What makes the above inductive: a pair is signed once, for the user and *)
(* the session it was asked for, and only such pairs are stored.           *)
(***************************************************************************)
PairInv(t) ==
  /\ pc[t] # "idle" => user[t] \in User
  /\ pc[t] \in {"idle", "issue", "clear"} => session[t] = None
  /\ pc[t] \in {"issue", "stored"} => op[t] \in {"login", "refresh"}
  /\ pc[t] = "stored" \/ Held(t) => session[t] # None
  /\ pc[t] = "issue" /\ op[t] = "refresh" =>
       /\ token[t] \in Req /\ session[token[t]] # None
       /\ user[token[t]] = user[t]
  /\ session[t] # None =>
       /\ session[t] \in Req /\ session[session[t]] = session[t]
       /\ user[session[t]] = user[t]

StoredInv ==
  \A u \in User : hash[u] # None => session[hash[u]] # None /\ user[hash[u]] = u

SessionInv == StoredInv /\ \A t \in Req : PairInv(t)

(***************************************************************************)
(* Holds when requests do not overlap, and is broken by requests that do.  *)
(***************************************************************************)
\* "Reusing the OLD refresh token -> 401 (rotation)": a refresh token is
\* exchanged for a new pair once.
RefreshTokenUsedOnce ==
  \A q, r \in Req :
    /\ op[q] = "refresh" /\ session[q] # None
    /\ op[r] = "refresh" /\ session[r] # None
    /\ token[q] = token[r]
    => q = r

\* "Refresh rotates; logout invalidates": once a session was ended, by a
\* logout, by the reuse of a token or by a newer login, none of its tokens is
\* the current one again.
SessionsStayEnded ==
  \A u \in User : hash[u] # None => session[hash[u]] \notin ended

(***************************************************************************)
(* What makes these inductive: what a refresh compared is still stored     *)
(* when it writes, and a token that was exchanged is stored no more.       *)
(***************************************************************************)
Exchanged(r) == op[r] = "refresh" /\ session[r] # None

TurnInv(r) ==
  /\ \A q \in Req : pc[q] \in Running /\ pc[r] \in Running => q = r
  /\ pc[r] = "issue" /\ op[r] = "refresh" => hash[user[r]] = token[r]
  /\ Exchanged(r) => /\ token[r] \in Req /\ session[token[r]] # None
                     /\ \A u \in User : hash[u] # token[r]

SerialInv ==
  /\ \A r \in Req : TurnInv(r)
  /\ \A s \in ended : s \in Req /\ session[s] = s
  /\ RefreshTokenUsedOnce
  /\ SessionsStayEnded

\* Sessions as one atomic step per operation.
Lifecycle == INSTANCE SessionLifecycle WITH Token <- Req, current <- hash
LifecycleSpec == Lifecycle!Spec
=============================================================================
