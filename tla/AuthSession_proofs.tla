------------------------- MODULE AuthSession_proofs -------------------------
(***************************************************************************)
(* Theorems about AuthSession, for any sets of users and requests.         *)
(***************************************************************************)
EXTENDS AuthSession, TLAPS

-----------------------------------------------------------------------------
(***************************************************************************)
(* However requests interleave. The types need the rest of the invariant:  *)
(* the session of a new pair is that of a token somebody was issued.       *)
(***************************************************************************)
\* The stored hashes, the requests and the tokens keep their types.
LEMMA TypeStep ==
  ASSUME TypeOK, SessionInv, [Next]_vars
  PROVE  TypeOK'
<1> USE NoneAssumption
<1>1. TypeOK'
  <2>0. TypeOK /\ StoredInv /\ \A s \in Req : PairInv(s)
    BY DEF SessionInv
  <2> USE DEF TypeOK, PairInv, StoredInv, Goto, Running, Answer, Held, Age
  <2>1. ASSUME NEW r \in Req, NEW w \in User, Login(r, w)
        PROVE  TypeOK'
    BY <2>0, <2>1 DEF Login, Arrive, Op
  <2>2. ASSUME NEW r \in Req, NEW k \in Req, Refresh(r, k)
        PROVE  TypeOK'
    BY <2>0, <2>2 DEF Refresh, Arrive, Op
  <2>3. ASSUME NEW r \in Req, NEW k \in Req, Logout(r, k)
        PROVE  TypeOK'
    BY <2>0, <2>3 DEF Logout, Arrive, Op
  <2>4. ASSUME NEW r \in Req, IssueFor(r)
        PROVE  TypeOK'
    BY <2>0, <2>4 DEF IssueFor, EndedBy
  <2>5. ASSUME NEW r \in Req, Respond(r)
        PROVE  TypeOK'
    BY <2>0, <2>5 DEF Respond
  <2>6. ASSUME NEW r \in Req, Clear(r)
        PROVE  TypeOK'
    BY <2>0, <2>6 DEF Clear, EndedBy
  <2>7. ASSUME NEW r \in Req, Crash(r)
        PROVE  TypeOK'
    BY <2>0, <2>7 DEF Crash
  <2>8. ASSUME NEW r \in Req, Expire(r)
        PROVE  TypeOK'
    BY <2>0, <2>8 DEF Expire
  <2>9. ASSUME NEW w \in User, Deactivate(w)
        PROVE  TypeOK'
    BY <2>0, <2>9 DEF Deactivate
  <2>10. CASE UNCHANGED vars
    BY <2>0, <2>10 DEF vars
  <2> QED
    BY <2>1, <2>2, <2>3, <2>4, <2>5, <2>6, <2>7, <2>8, <2>9, <2>10 DEF Next, Step
<1> QED BY <1>1

\* A pair is signed once, for the user and the session it was asked for.
LEMMA PairStep ==
  ASSUME TypeOK, SessionInv, [Next]_vars, NEW q \in Req
  PROVE  PairInv(q)'
<1> USE NoneAssumption
<1>1. PairInv(q)'
  <2>0. TypeOK /\ StoredInv /\ \A s \in Req : PairInv(s)
    BY DEF SessionInv
  <2> USE DEF TypeOK, PairInv, Goto, Running, Answer, Held
  <2>1. ASSUME NEW r \in Req, NEW w \in User, Login(r, w)
        PROVE  PairInv(q)'
    BY <2>0, <2>1 DEF Login, Arrive
  <2>2. ASSUME NEW r \in Req, NEW k \in Req, Refresh(r, k)
        PROVE  PairInv(q)'
    BY <2>0, <2>2 DEF Refresh, Arrive
  <2>3. ASSUME NEW r \in Req, NEW k \in Req, Logout(r, k)
        PROVE  PairInv(q)'
    BY <2>0, <2>3 DEF Logout, Arrive
  <2>4. ASSUME NEW r \in Req, IssueFor(r)
        PROVE  PairInv(q)'
    BY <2>0, <2>4 DEF IssueFor
  <2>5. ASSUME NEW r \in Req, Respond(r)
        PROVE  PairInv(q)'
    BY <2>0, <2>5 DEF Respond, Held
  <2>6. ASSUME NEW r \in Req, Clear(r)
        PROVE  PairInv(q)'
    BY <2>0, <2>6 DEF Clear
  <2>7. ASSUME NEW r \in Req, Crash(r)
        PROVE  PairInv(q)'
    BY <2>0, <2>7 DEF Crash
  <2>8. ASSUME NEW r \in Req, Expire(r)
        PROVE  PairInv(q)'
    BY <2>0, <2>8 DEF Expire
  <2>9. ASSUME NEW w \in User, Deactivate(w)
        PROVE  PairInv(q)'
    BY <2>0, <2>9 DEF Deactivate
  <2>10. CASE UNCHANGED vars
    BY <2>0, <2>10 DEF vars
  <2> QED
    BY <2>1, <2>2, <2>3, <2>4, <2>5, <2>6, <2>7, <2>8, <2>9, <2>10 DEF Next, Step
<1> QED BY <1>1

\* Only such pairs are stored, each for its own user.
LEMMA StoredStep ==
  ASSUME TypeOK, SessionInv, [Next]_vars
  PROVE  StoredInv'
<1> USE NoneAssumption
<1>1. StoredInv'
  <2>0. TypeOK /\ StoredInv /\ \A s \in Req : PairInv(s)
    BY DEF SessionInv
  <2> USE DEF TypeOK, PairInv, StoredInv, Goto, Running, Answer, Held
  <2>1. ASSUME NEW r \in Req, NEW w \in User, Login(r, w)
        PROVE  StoredInv'
    BY <2>0, <2>1 DEF Login, Arrive
  <2>2. ASSUME NEW r \in Req, NEW k \in Req, Refresh(r, k)
        PROVE  StoredInv'
    BY <2>0, <2>2 DEF Refresh, Arrive
  <2>3. ASSUME NEW r \in Req, NEW k \in Req, Logout(r, k)
        PROVE  StoredInv'
    BY <2>0, <2>3 DEF Logout, Arrive
  <2>4. ASSUME NEW r \in Req, IssueFor(r)
        PROVE  StoredInv'
    BY <2>0, <2>4 DEF IssueFor
  <2>5. ASSUME NEW r \in Req, Respond(r)
        PROVE  StoredInv'
    BY <2>0, <2>5 DEF Respond
  <2>6. ASSUME NEW r \in Req, Clear(r)
        PROVE  StoredInv'
    BY <2>0, <2>6 DEF Clear
  <2>7. ASSUME NEW r \in Req, Crash(r)
        PROVE  StoredInv'
    BY <2>0, <2>7 DEF Crash
  <2>8. ASSUME NEW r \in Req, Expire(r)
        PROVE  StoredInv'
    BY <2>0, <2>8 DEF Expire
  <2>9. ASSUME NEW w \in User, Deactivate(w)
        PROVE  StoredInv'
    BY <2>0, <2>9 DEF Deactivate
  <2>10. CASE UNCHANGED vars
    BY <2>0, <2>10 DEF vars
  <2> QED
    BY <2>1, <2>2, <2>3, <2>4, <2>5, <2>6, <2>7, <2>8, <2>9, <2>10 DEF Next, Step
<1> QED BY <1>1

\* The three together.
LEMMA SessionInvInvariant == Spec => [](TypeOK /\ SessionInv)
<1>1. Init => TypeOK /\ SessionInv
  BY DEF Init, TypeOK, Op, Age, SessionInv, StoredInv, PairInv, Held
<1>2. TypeOK /\ SessionInv /\ [Next]_vars => (TypeOK /\ SessionInv)'
  BY TypeStep, PairStep, StoredStep DEF SessionInv
<1> QED BY <1>1, <1>2, PTL DEF Spec

\* Type correctness.
THEOREM TypeCorrect == Spec => []TypeOK
BY SessionInvInvariant, PTL

\* A refresh token that was rotated out or cleared is never stored again.
THEOREM RetiredTokensStayRetired == Spec => RetiredStaysRetired
<1>1. TypeOK /\ SessionInv /\ [Next]_vars => [RetiredStays]_hash
  <2> SUFFICES ASSUME TypeOK, SessionInv, [Next]_vars,
                      NEW u \in User, NEW t \in Req, session[t] # None, hash[u] # t
               PROVE  hash'[u] # t
    BY DEF RetiredStays
  <2>0. TypeOK /\ (\A s \in Req : PairInv(s)) /\ session[t] # None /\ hash[u] # t
    BY DEF SessionInv
  <2> USE NoneAssumption DEF TypeOK, PairInv
  <2>1. ASSUME NEW r \in Req, NEW w \in User, Login(r, w)
        PROVE  hash'[u] # t
    BY <2>0, <2>1 DEF Login, Arrive
  <2>2. ASSUME NEW r \in Req, NEW k \in Req, Refresh(r, k)
        PROVE  hash'[u] # t
    BY <2>0, <2>2 DEF Refresh, Arrive
  <2>3. ASSUME NEW r \in Req, NEW k \in Req, Logout(r, k)
        PROVE  hash'[u] # t
    BY <2>0, <2>3 DEF Logout, Arrive
  <2>4. ASSUME NEW r \in Req, IssueFor(r)
        PROVE  hash'[u] # t
    BY <2>0, <2>4 DEF IssueFor
  <2>5. ASSUME NEW r \in Req, Respond(r)
        PROVE  hash'[u] # t
    BY <2>0, <2>5 DEF Respond
  <2>6. ASSUME NEW r \in Req, Clear(r)
        PROVE  hash'[u] # t
    BY <2>0, <2>6 DEF Clear
  <2>7. ASSUME NEW r \in Req, Crash(r)
        PROVE  hash'[u] # t
    BY <2>0, <2>7 DEF Crash
  <2>8. ASSUME NEW r \in Req, Expire(r)
        PROVE  hash'[u] # t
    BY <2>0, <2>8 DEF Expire
  <2>9. ASSUME NEW w \in User, Deactivate(w)
        PROVE  hash'[u] # t
    BY <2>0, <2>9 DEF Deactivate
  <2>10. CASE UNCHANGED vars
    BY <2>0, <2>10 DEF vars
  <2> QED
    BY <2>1, <2>2, <2>3, <2>4, <2>5, <2>6, <2>7, <2>8, <2>9, <2>10 DEF Next, Step
<1> QED BY SessionInvInvariant, <1>1, PTL DEF Spec, RetiredStaysRetired

\* Once a user is deactivated and the requests that had read the row before
\* are done, nothing the user sends leads to a new pair.
THEOREM LockedOutForGood == Spec => DeactivatedGetsNoToken
<1>1. TypeOK /\ [Next]_vars => [StaysLockedOut]_vars
  <2> SUFFICES ASSUME TypeOK, [Next]_vars, NEW u \in User, LockedOut(u)
               PROVE  LockedOut(u)' /\ hash'[u] \in {hash[u], None}
    BY DEF StaysLockedOut
  <2> USE DEF TypeOK, LockedOut, Goto
  <2>1. ASSUME NEW r \in Req, NEW w \in User, Login(r, w)
        PROVE  LockedOut(u)' /\ hash'[u] \in {hash[u], None}
    BY <2>1 DEF Login, Arrive
  <2>2. ASSUME NEW r \in Req, NEW k \in Req, Refresh(r, k)
        PROVE  LockedOut(u)' /\ hash'[u] \in {hash[u], None}
    BY <2>2 DEF Refresh, Arrive
  <2>3. ASSUME NEW r \in Req, NEW k \in Req, Logout(r, k)
        PROVE  LockedOut(u)' /\ hash'[u] \in {hash[u], None}
    BY <2>3 DEF Logout, Arrive
  <2>4. ASSUME NEW r \in Req, IssueFor(r)
        PROVE  LockedOut(u)' /\ hash'[u] \in {hash[u], None}
    BY <2>4 DEF IssueFor
  <2>5. ASSUME NEW r \in Req, Respond(r)
        PROVE  LockedOut(u)' /\ hash'[u] \in {hash[u], None}
    BY <2>5 DEF Respond
  <2>6. ASSUME NEW r \in Req, Clear(r)
        PROVE  LockedOut(u)' /\ hash'[u] \in {hash[u], None}
    BY <2>6 DEF Clear
  <2>7. ASSUME NEW r \in Req, Crash(r)
        PROVE  LockedOut(u)' /\ hash'[u] \in {hash[u], None}
    BY <2>7 DEF Crash
  <2>8. ASSUME NEW r \in Req, Expire(r)
        PROVE  LockedOut(u)' /\ hash'[u] \in {hash[u], None}
    BY <2>8 DEF Expire
  <2>9. ASSUME NEW w \in User, Deactivate(w)
        PROVE  LockedOut(u)' /\ hash'[u] \in {hash[u], None}
    BY <2>9 DEF Deactivate
  <2>10. CASE UNCHANGED vars
    BY <2>10 DEF vars
  <2> QED
    BY <2>1, <2>2, <2>3, <2>4, <2>5, <2>6, <2>7, <2>8, <2>9, <2>10 DEF Next, Step
<1> QED BY SessionInvInvariant, <1>1, PTL DEF Spec, DeactivatedGetsNoToken

-----------------------------------------------------------------------------
(***************************************************************************)
(* How the access of a user who was deactivated runs out.                  *)
(***************************************************************************)
\* The access of a user who was deactivated runs out: what is left to time is
\* the expiry of tokens that were sent or under way then.
THEOREM AccessRunsOut == Spec => AccessOnlyRunsOut
<1>1. TypeOK /\ SessionInv /\ [Next]_vars => NoAccessIsAdded
  <2> DEFINE Added(u, t) == \/ user'[t] = u /\ pc'[t] \in {"issue", "stored"} /\ t \notin UnderWay(u)
                            \/ /\ Held(t)' /\ user'[t] = u /\ age'[t] = "fresh"
                               /\ t \notin Access(u) \union UnderWay(u)
  <2> SUFFICES ASSUME TypeOK, [Next]_vars, NEW u \in User, ~ active[u]
               PROVE  ~ active'[u] /\ \A t \in Req : ~ Added(u, t)
    BY DEF NoAccessIsAdded, UnderWay, Access
  <2> USE DEF TypeOK, UnderWay, Access, Held, Goto
  <2>1. ASSUME NEW r \in Req, NEW w \in User, Login(r, w)
        PROVE  ~ active'[u] /\ \A t \in Req : ~ Added(u, t)
    BY <2>1 DEF Login, Arrive
  <2>2. ASSUME NEW r \in Req, NEW k \in Req, Refresh(r, k)
        PROVE  ~ active'[u] /\ \A t \in Req : ~ Added(u, t)
    BY <2>2 DEF Refresh, Arrive
  <2>3. ASSUME NEW r \in Req, NEW k \in Req, Logout(r, k)
        PROVE  ~ active'[u] /\ \A t \in Req : ~ Added(u, t)
    BY <2>3 DEF Logout, Arrive
  <2>4. ASSUME NEW r \in Req, IssueFor(r)
        PROVE  ~ active'[u] /\ \A t \in Req : ~ Added(u, t)
    BY <2>4 DEF IssueFor
  <2>5. ASSUME NEW r \in Req, Respond(r)
        PROVE  ~ active'[u] /\ \A t \in Req : ~ Added(u, t)
    BY <2>5 DEF Respond
  <2>6. ASSUME NEW r \in Req, Clear(r)
        PROVE  ~ active'[u] /\ \A t \in Req : ~ Added(u, t)
    BY <2>6 DEF Clear
  <2>7. ASSUME NEW r \in Req, Crash(r)
        PROVE  ~ active'[u] /\ \A t \in Req : ~ Added(u, t)
    BY <2>7 DEF Crash
  <2>8. ASSUME NEW r \in Req, Expire(r)
        PROVE  ~ active'[u] /\ \A t \in Req : ~ Added(u, t)
    BY <2>8 DEF Expire
  <2>9. ASSUME NEW w \in User, Deactivate(w)
        PROVE  ~ active'[u] /\ \A t \in Req : ~ Added(u, t)
    BY <2>9 DEF Deactivate
  <2>10. CASE UNCHANGED vars
    BY <2>10 DEF vars
  <2> QED
    BY <2>1, <2>2, <2>3, <2>4, <2>5, <2>6, <2>7, <2>8, <2>9, <2>10 DEF Next, Step
<1> QED BY SessionInvInvariant, <1>1, PTL DEF Spec, AccessOnlyRunsOut

-----------------------------------------------------------------------------
(***************************************************************************)
(* When requests take turns.                                               *)
(***************************************************************************)
\* What a refresh compared is still stored when it writes, and a token that
\* was exchanged is stored no more.
LEMMA TurnStep ==
  ASSUME Overlap = FALSE, TypeOK, SessionInv, SerialInv, [Next]_vars, NEW q \in Req
  PROVE  TurnInv(q)'
<1> USE NoneAssumption
<1>1. TurnInv(q)'
  <2>0. /\ Overlap = FALSE /\ TypeOK /\ StoredInv
        /\ (\A s \in Req : PairInv(s)) /\ (\A s \in Req : TurnInv(s))
    BY DEF SessionInv, SerialInv
  <2> USE DEF TypeOK, PairInv, StoredInv, TurnInv, Exchanged, Goto, Running, Held
  <2>1. ASSUME NEW r \in Req, NEW w \in User, Login(r, w)
        PROVE  TurnInv(q)'
    BY <2>0, <2>1 DEF Login, Arrive
  <2>2. ASSUME NEW r \in Req, NEW k \in Req, Refresh(r, k)
        PROVE  TurnInv(q)'
    BY <2>0, <2>2 DEF Refresh, Arrive
  <2>3. ASSUME NEW r \in Req, NEW k \in Req, Logout(r, k)
        PROVE  TurnInv(q)'
    BY <2>0, <2>3 DEF Logout, Arrive
  <2>4. ASSUME NEW r \in Req, IssueFor(r)
        PROVE  TurnInv(q)'
    BY <2>0, <2>4 DEF IssueFor
  <2>5. ASSUME NEW r \in Req, Respond(r)
        PROVE  TurnInv(q)'
    BY <2>0, <2>5 DEF Respond
  <2>6. ASSUME NEW r \in Req, Clear(r)
        PROVE  TurnInv(q)'
    BY <2>0, <2>6 DEF Clear
  <2>7. ASSUME NEW r \in Req, Crash(r)
        PROVE  TurnInv(q)'
    BY <2>0, <2>7 DEF Crash
  <2>8. ASSUME NEW r \in Req, Expire(r)
        PROVE  TurnInv(q)'
    BY <2>0, <2>8 DEF Expire
  <2>9. ASSUME NEW w \in User, Deactivate(w)
        PROVE  TurnInv(q)'
    BY <2>0, <2>9 DEF Deactivate
  <2>10. CASE UNCHANGED vars
    BY <2>0, <2>10 DEF vars
  <2> QED
    BY <2>1, <2>2, <2>3, <2>4, <2>5, <2>6, <2>7, <2>8, <2>9, <2>10 DEF Next, Step
<1> QED BY <1>1

\* Only logins are ended.
LEMMA EndedStep ==
  ASSUME Overlap = FALSE, TypeOK, SessionInv, SerialInv, [Next]_vars
  PROVE  (\A s \in ended : s \in Req /\ session[s] = s)'
<1> USE NoneAssumption
<1>1. (\A s \in ended : s \in Req /\ session[s] = s)'
  <2>0. /\ TypeOK /\ StoredInv /\ (\A s \in Req : PairInv(s))
        /\ (\A s \in ended : s \in Req /\ session[s] = s)
    BY DEF SessionInv, SerialInv
  <2> USE DEF TypeOK, PairInv, StoredInv, Goto, Running, Held
  <2>1. ASSUME NEW r \in Req, NEW w \in User, Login(r, w)
        PROVE  (\A s \in ended : s \in Req /\ session[s] = s)'
    BY <2>0, <2>1 DEF Login, Arrive
  <2>2. ASSUME NEW r \in Req, NEW k \in Req, Refresh(r, k)
        PROVE  (\A s \in ended : s \in Req /\ session[s] = s)'
    BY <2>0, <2>2 DEF Refresh, Arrive
  <2>3. ASSUME NEW r \in Req, NEW k \in Req, Logout(r, k)
        PROVE  (\A s \in ended : s \in Req /\ session[s] = s)'
    BY <2>0, <2>3 DEF Logout, Arrive
  <2>4. ASSUME NEW r \in Req, IssueFor(r)
        PROVE  (\A s \in ended : s \in Req /\ session[s] = s)'
    BY <2>0, <2>4 DEF IssueFor, EndedBy
  <2>5. ASSUME NEW r \in Req, Respond(r)
        PROVE  (\A s \in ended : s \in Req /\ session[s] = s)'
    BY <2>0, <2>5 DEF Respond
  <2>6. ASSUME NEW r \in Req, Clear(r)
        PROVE  (\A s \in ended : s \in Req /\ session[s] = s)'
    BY <2>0, <2>6 DEF Clear, EndedBy
  <2>7. ASSUME NEW r \in Req, Crash(r)
        PROVE  (\A s \in ended : s \in Req /\ session[s] = s)'
    BY <2>0, <2>7 DEF Crash
  <2>8. ASSUME NEW r \in Req, Expire(r)
        PROVE  (\A s \in ended : s \in Req /\ session[s] = s)'
    BY <2>0, <2>8 DEF Expire
  <2>9. ASSUME NEW w \in User, Deactivate(w)
        PROVE  (\A s \in ended : s \in Req /\ session[s] = s)'
    BY <2>0, <2>9 DEF Deactivate
  <2>10. CASE UNCHANGED vars
    BY <2>0, <2>10 DEF vars
  <2> QED
    BY <2>1, <2>2, <2>3, <2>4, <2>5, <2>6, <2>7, <2>8, <2>9, <2>10 DEF Next, Step
<1> QED BY <1>1

\* No second request writes a pair for a token that was exchanged.
LEMMA OnceStep ==
  ASSUME Overlap = FALSE, TypeOK, SessionInv, SerialInv, [Next]_vars
  PROVE  RefreshTokenUsedOnce'
<1> USE NoneAssumption
<1>1. RefreshTokenUsedOnce'
  <2>0. /\ TypeOK /\ StoredInv /\ (\A s \in Req : PairInv(s))
        /\ (\A s \in Req : TurnInv(s)) /\ RefreshTokenUsedOnce
    BY DEF SessionInv, SerialInv
  <2> USE DEF TypeOK, PairInv, StoredInv, TurnInv, Exchanged,
              RefreshTokenUsedOnce, Goto, Running, Held
  <2>1. ASSUME NEW r \in Req, NEW w \in User, Login(r, w)
        PROVE  RefreshTokenUsedOnce'
    BY <2>0, <2>1 DEF Login, Arrive
  <2>2. ASSUME NEW r \in Req, NEW k \in Req, Refresh(r, k)
        PROVE  RefreshTokenUsedOnce'
    BY <2>0, <2>2 DEF Refresh, Arrive
  <2>3. ASSUME NEW r \in Req, NEW k \in Req, Logout(r, k)
        PROVE  RefreshTokenUsedOnce'
    BY <2>0, <2>3 DEF Logout, Arrive
  <2>4. ASSUME NEW r \in Req, IssueFor(r)
        PROVE  RefreshTokenUsedOnce'
    BY <2>0, <2>4 DEF IssueFor
  <2>5. ASSUME NEW r \in Req, Respond(r)
        PROVE  RefreshTokenUsedOnce'
    BY <2>0, <2>5 DEF Respond
  <2>6. ASSUME NEW r \in Req, Clear(r)
        PROVE  RefreshTokenUsedOnce'
    BY <2>0, <2>6 DEF Clear
  <2>7. ASSUME NEW r \in Req, Crash(r)
        PROVE  RefreshTokenUsedOnce'
    BY <2>0, <2>7 DEF Crash
  <2>8. ASSUME NEW r \in Req, Expire(r)
        PROVE  RefreshTokenUsedOnce'
    BY <2>0, <2>8 DEF Expire
  <2>9. ASSUME NEW w \in User, Deactivate(w)
        PROVE  RefreshTokenUsedOnce'
    BY <2>0, <2>9 DEF Deactivate
  <2>10. CASE UNCHANGED vars
    BY <2>0, <2>10 DEF vars
  <2> QED
    BY <2>1, <2>2, <2>3, <2>4, <2>5, <2>6, <2>7, <2>8, <2>9, <2>10 DEF Next, Step
<1> QED BY <1>1

\* No write stores a token of a session that is over.
LEMMA StayStep ==
  ASSUME Overlap = FALSE, TypeOK, SessionInv, SerialInv, [Next]_vars
  PROVE  SessionsStayEnded'
<1> USE NoneAssumption
<1>1. SessionsStayEnded'
  <2>0. /\ TypeOK /\ StoredInv /\ (\A s \in Req : PairInv(s))
        /\ (\A s \in Req : TurnInv(s)) /\ SessionsStayEnded
        /\ (\A s \in ended : s \in Req /\ session[s] = s)
    BY DEF SessionInv, SerialInv
  <2> USE DEF TypeOK, PairInv, StoredInv, TurnInv,
              SessionsStayEnded, Goto, Running, Held
  <2>1. ASSUME NEW r \in Req, NEW w \in User, Login(r, w)
        PROVE  SessionsStayEnded'
    BY <2>0, <2>1 DEF Login, Arrive
  <2>2. ASSUME NEW r \in Req, NEW k \in Req, Refresh(r, k)
        PROVE  SessionsStayEnded'
    BY <2>0, <2>2 DEF Refresh, Arrive
  <2>3. ASSUME NEW r \in Req, NEW k \in Req, Logout(r, k)
        PROVE  SessionsStayEnded'
    BY <2>0, <2>3 DEF Logout, Arrive
  <2>4. ASSUME NEW r \in Req, IssueFor(r)
        PROVE  SessionsStayEnded'
    BY <2>0, <2>4 DEF IssueFor, EndedBy
  <2>5. ASSUME NEW r \in Req, Respond(r)
        PROVE  SessionsStayEnded'
    BY <2>0, <2>5 DEF Respond
  <2>6. ASSUME NEW r \in Req, Clear(r)
        PROVE  SessionsStayEnded'
    BY <2>0, <2>6 DEF Clear, EndedBy
  <2>7. ASSUME NEW r \in Req, Crash(r)
        PROVE  SessionsStayEnded'
    BY <2>0, <2>7 DEF Crash
  <2>8. ASSUME NEW r \in Req, Expire(r)
        PROVE  SessionsStayEnded'
    BY <2>0, <2>8 DEF Expire
  <2>9. ASSUME NEW w \in User, Deactivate(w)
        PROVE  SessionsStayEnded'
    BY <2>0, <2>9 DEF Deactivate
  <2>10. CASE UNCHANGED vars
    BY <2>0, <2>10 DEF vars
  <2> QED
    BY <2>1, <2>2, <2>3, <2>4, <2>5, <2>6, <2>7, <2>8, <2>9, <2>10 DEF Next, Step
<1> QED BY <1>1

LEMMA SerialInvInvariant ==
  ASSUME Overlap = FALSE
  PROVE  Spec => []SerialInv
<1>1. Init => SerialInv
  BY DEF Init, SerialInv, TurnInv, Exchanged, RefreshTokenUsedOnce,
         SessionsStayEnded, Running
<1>2. TypeOK /\ SessionInv /\ SerialInv /\ [Next]_vars => SerialInv'
  BY TurnStep, EndedStep, OnceStep, StayStep DEF SerialInv
<1> QED BY SessionInvInvariant, <1>1, <1>2, PTL DEF Spec

\* When requests take turns, a refresh token is exchanged once.
THEOREM SerialUsedOnce ==
  ASSUME Overlap = FALSE
  PROVE  Spec => []RefreshTokenUsedOnce
<1>1. SerialInv => RefreshTokenUsedOnce
  BY DEF SerialInv
<1> QED BY SerialInvInvariant, <1>1, PTL

\* When requests take turns, an ended session stays ended.
THEOREM SerialStayEnded ==
  ASSUME Overlap = FALSE
  PROVE  Spec => []SessionsStayEnded
<1>1. SerialInv => SessionsStayEnded
  BY DEF SerialInv
<1> QED BY SerialInvInvariant, <1>1, PTL

\* When requests take turns, the handlers implement SessionLifecycle: a write
\* of a pair is a Login or a Refresh, a cleared hash an End, and the rest
\* changes nothing there.
THEOREM SerialImplementsSessions ==
  ASSUME Overlap = FALSE
  PROVE  Spec => LifecycleSpec
<1> USE NoneAssumption
<1>1. Init => Lifecycle!Init
  BY DEF Init, Lifecycle!Init
<1>2. TypeOK /\ SessionInv /\ SerialInv /\ [Next]_vars => [Lifecycle!Next]_(Lifecycle!vars)
  <2> SUFFICES ASSUME TypeOK, SessionInv, SerialInv, [Next]_vars
               PROVE  Lifecycle!Next \/ UNCHANGED Lifecycle!vars
    OBVIOUS
  <2>0. /\ TypeOK /\ StoredInv /\ (\A s \in Req : PairInv(s))
        /\ (\A s \in Req : TurnInv(s))
    BY DEF SessionInv, SerialInv
  <2>a. ASSUME UNCHANGED <<hash, session, ended>>
        PROVE  UNCHANGED Lifecycle!vars
    BY <2>a DEF Lifecycle!vars
  <2>1. ASSUME NEW r \in Req, NEW w \in User, Login(r, w)
        PROVE  Lifecycle!Next \/ UNCHANGED Lifecycle!vars
    BY <2>a, <2>1 DEF Login, Arrive
  <2>2. ASSUME NEW r \in Req, NEW k \in Req, Refresh(r, k)
        PROVE  Lifecycle!Next \/ UNCHANGED Lifecycle!vars
    BY <2>a, <2>2 DEF Refresh, Arrive
  <2>3. ASSUME NEW r \in Req, NEW k \in Req, Logout(r, k)
        PROVE  Lifecycle!Next \/ UNCHANGED Lifecycle!vars
    BY <2>a, <2>3 DEF Logout, Arrive
  <2>4. ASSUME NEW r \in Req, IssueFor(r)
        PROVE  Lifecycle!Next \/ UNCHANGED Lifecycle!vars
    <3>1. user[r] \in User /\ session[r] = None /\ op[r] \in {"login", "refresh"}
      BY <2>0, <2>4 DEF IssueFor, PairInv
    <3>2. CASE op[r] = "login"
      <4>1. Lifecycle!Login(user[r], r)
        BY <3>1, <3>2, <2>4 DEF IssueFor, EndedBy, Lifecycle!Login, Lifecycle!EndedBy
      <4> QED BY <3>1, <4>1 DEF Lifecycle!Next
    <3>3. CASE op[r] = "refresh"
      <4>1. hash[user[r]] = token[r] /\ token[r] \in Req
        BY <2>0, <3>3, <2>4 DEF IssueFor, TurnInv, PairInv
      <4>2. ended' = ended
        BY <3>3, <4>1, <2>4 DEF IssueFor, EndedBy
      <4>3. Lifecycle!Refresh(user[r], r)
        BY <3>1, <3>3, <4>1, <4>2, <2>4 DEF IssueFor, Lifecycle!Refresh
      <4> QED BY <3>1, <4>3 DEF Lifecycle!Next
    <3> QED BY <3>1, <3>2, <3>3
  <2>5. ASSUME NEW r \in Req, Respond(r)
        PROVE  Lifecycle!Next \/ UNCHANGED Lifecycle!vars
    BY <2>a, <2>5 DEF Respond
  <2>6. ASSUME NEW r \in Req, Clear(r)
        PROVE  Lifecycle!Next \/ UNCHANGED Lifecycle!vars
    <3>1. user[r] \in User
      BY <2>0, <2>6 DEF Clear, PairInv
    <3>2. Lifecycle!End(user[r])
      BY <3>1, <2>6 DEF Clear, EndedBy, Lifecycle!End, Lifecycle!EndedBy
    <3> QED BY <3>1, <3>2 DEF Lifecycle!Next
  <2>7. ASSUME NEW r \in Req, Crash(r)
        PROVE  Lifecycle!Next \/ UNCHANGED Lifecycle!vars
    BY <2>a, <2>7 DEF Crash
  <2>8. ASSUME NEW r \in Req, Expire(r)
        PROVE  Lifecycle!Next \/ UNCHANGED Lifecycle!vars
    BY <2>a, <2>8 DEF Expire
  <2>9. ASSUME NEW w \in User, Deactivate(w)
        PROVE  Lifecycle!Next \/ UNCHANGED Lifecycle!vars
    BY <2>a, <2>9 DEF Deactivate
  <2>10. CASE UNCHANGED vars
    BY <2>a, <2>10 DEF vars
  <2> QED
    BY <2>1, <2>2, <2>3, <2>4, <2>5, <2>6, <2>7, <2>8, <2>9, <2>10 DEF Next, Step
<1> QED BY SessionInvInvariant, SerialInvInvariant, <1>1, <1>2, PTL
        DEF Spec, LifecycleSpec, Lifecycle!Spec
=============================================================================
