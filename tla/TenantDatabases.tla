-------------------------- MODULE TenantDatabases --------------------------
(***************************************************************************)
(* What tenant scoping promises: the shared database behaves as one        *)
(* private database for each client. A request belongs to one client, and  *)
(* everything it reads or writes is in that client's database, which holds *)
(* a seeded bit run, named by the client, from the start. The limits of    *)
(* the queries count the rows of that database alone. TenantScope models   *)
(* how one database and a pool of connections are made to look like this.  *)
(***************************************************************************)
EXTENDS Sequences

CONSTANTS
  Req,       \* requests
  Tenant,    \* clients
  None,      \* no client
  Full(_, _) \* a set of rows is as many as a query of that table takes

VARIABLES
  claim,    \* request -> its client, or None before it arrives
  database, \* client -> table -> its rows
  reads     \* request -> what its reads returned, in order

vars == <<claim, database, reads>>

Table == {"bit_run", "daily_report"}

Init ==
  /\ claim = [r \in Req |-> None]
  /\ database = [t \in Tenant |-> [table \in Table |-> IF table = "bit_run" THEN {t} ELSE {}]]
  /\ reads = [r \in Req |-> <<>>]

Arrive(r, t) ==
  /\ claim[r] = None
  /\ claim' = [claim EXCEPT ![r] = t]
  /\ UNCHANGED <<database, reads>>

\* A query returns all rows of the client's table, or as many of them as it
\* takes. A request without a client reads nothing.
Read(r) ==
  /\ \E table \in Table :
       LET there == IF claim[r] = None THEN {} ELSE database[claim[r]][table] IN
       \E S \in SUBSET there :
         /\ S = there \/ Full(S, table)
         /\ reads' = [reads EXCEPT ![r] = Append(@, S)]
  /\ UNCHANGED <<claim, database>>

Write(r) ==
  /\ claim[r] # None
  /\ \E table \in Table :
       database' = [database EXCEPT ![claim[r]][table] = @ \union {r}]
  /\ UNCHANGED <<claim, reads>>

Next == \E r \in Req : \/ \E t \in Tenant : Arrive(r, t)
                       \/ Read(r)
                       \/ Write(r)

Spec == Init /\ [][Next]_vars
=============================================================================
