-------------------------- MODULE SessionLifecycle --------------------------
(***************************************************************************)
(* What the auth service promises about sessions. A session begins with a  *)
(* login and is named by it; it has one current refresh token, which each  *)
(* refresh replaces. Logging out, presenting a token that is not current,  *)
(* or another login of the user ends it, and an ended session never comes  *)
(* back. Each operation is one atomic step here; AuthSession models the    *)
(* handlers, which read the stored hash in one statement and write it in   *)
(* another.                                                                *)
(***************************************************************************)
CONSTANTS User, Token, None

VARIABLES
  current,  \* user -> the refresh token that works, or None
  session,  \* token -> the login its session began with
  ended     \* the logins whose session is over

vars == <<current, session, ended>>

Init ==
  /\ current = [u \in User |-> None]
  /\ session = [t \in Token |-> None]
  /\ ended = {}

\* The session of u that ends when its current token gives way to that of s.
EndedBy(u, s) == IF current[u] = None THEN {} ELSE {session[current[u]]} \ {s}

\* t is a new token; the user's earlier session is over.
Login(u, t) ==
  /\ session[t] = None
  /\ current' = [current EXCEPT ![u] = t]
  /\ session' = [session EXCEPT ![t] = t]
  /\ ended' = ended \union EndedBy(u, t)

\* The current token is replaced by a new one of the same session.
Refresh(u, t) ==
  /\ current[u] # None
  /\ session[t] = None
  /\ current' = [current EXCEPT ![u] = t]
  /\ session' = [session EXCEPT ![t] = session[current[u]]]
  /\ ended' = ended

\* Logout, or a token that is not the current one was presented.
End(u) ==
  /\ current' = [current EXCEPT ![u] = None]
  /\ ended' = ended \union EndedBy(u, None)
  /\ UNCHANGED session

Next ==
  \E u \in User : \/ \E t \in Token : Login(u, t) \/ Refresh(u, t)
                  \/ End(u)

Spec == Init /\ [][Next]_vars
=============================================================================
