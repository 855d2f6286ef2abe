---------------------------- MODULE PlanApproval ----------------------------
(***************************************************************************)
(* The plan and approval handlers of api/src/plans/plans.service.ts, each  *)
(* an interactive Prisma transaction at PostgreSQL's default isolation,    *)
(* READ COMMITTED:                                                         *)
(*   - a SELECT takes no lock and sees what is committed when it runs;     *)
(*   - an UPDATE by id waits for the row lock and then writes, whatever    *)
(*     became of the row since the transaction read it;                    *)
(*   - inserted rows are seen by nobody before COMMIT.                     *)
(* A request is used once: Req is the set of the requests of a behaviour,  *)
(* and names the rows they insert (an approval is named by its submit).    *)
(* The plan and the recommendation appear at COMMIT, and so does the audit *)
(* row, whose INSERT is a statement of its own (written). A timeout of the *)
(* transaction or a crash of the API before COMMIT is Abort: rollback. An  *)
(* API or a connection that is gone after COMMIT is LoseAnswer.            *)
(* Role checks (RolesGuard) decide who may send an operation, not what it  *)
(* does, and are left out. The read-only listPlans and getPlan also.       *)
(***************************************************************************)
EXTENDS Naturals

CONSTANTS
  Plan,     \* plan ids
  Req,      \* requests
  None,     \* no plan, no approval
  Overlap   \* whether two requests may be in progress at the same time

ASSUME NoneAssumption == None \notin Req \union Plan
ASSUME OverlapAssumption == Overlap \in BOOLEAN

VARIABLES
  status,    \* plan.status as committed, "NONE" where there is no row
  recs,      \* plan -> its committed recommendation rows
  approval,  \* approval.status as committed, "NONE" where there is no row
  decider,   \* approval -> the request whose decision it holds
  clock,     \* the last created_at given to an approval
  stamp,     \* approval -> its created_at, 0 before the INSERT
  audit,     \* the requests with a committed audit_log row
  written,   \* the requests whose transaction has inserted one
  pc,        \* request -> the statement it runs next, or its answer
  op,        \* request -> its operation
  target,    \* request -> the plan in its path
  open       \* request -> the PENDING approval decide found

vars == <<status, recs, approval, decider, clock, stamp, audit, written, pc,
          op, target, open>>

Status == {"NONE", "DRAFT", "PROPOSED", "APPROVED", "REJECTED"}
Op == {"createPlan", "addRecommendation", "submit", "approve", "reject"}
Decision == {"approve", "reject"}
Answer == {"ok", "notFound", "badRequest", "failed", "lost"}
InTransaction == {"read", "openApproval", "findOpen", "updateApproval",
                  "insertAudit", "updatePlan", "commit"}
Running == InTransaction \union {"committed"}

\* The pc of a request that has committed, whatever its client hears of it.
Done == {"committed", "ok", "lost"}

\* The state an operation moves its plan to.
To == [o \in Op |-> CASE o = "createPlan" -> "DRAFT"
                      [] o = "submit" -> "PROPOSED"
                      [] o = "approve" -> "APPROVED"
                      [] o = "reject" -> "REJECTED"
                      [] OTHER -> "NONE"]

\* The states each state may move to.
\* Mutants: a draft may be approved without having been proposed; a proposed
\* plan may be proposed again; a rejected one approved.
PLAN_TRANSITIONS_Skip == [DRAFT |-> {"PROPOSED", "APPROVED"}, APPROVED |-> {},
  PROPOSED |-> {"APPROVED", "REJECTED"}, REJECTED |-> {"PROPOSED"}]
PLAN_TRANSITIONS_Again == [DRAFT |-> {"PROPOSED"}, APPROVED |-> {},
  PROPOSED |-> {"PROPOSED", "APPROVED", "REJECTED"}, REJECTED |-> {"PROPOSED"}]
PLAN_TRANSITIONS_Reapprove == [DRAFT |-> {"PROPOSED"}, APPROVED |-> {},
  PROPOSED |-> {"APPROVED", "REJECTED"}, REJECTED |-> {"PROPOSED", "APPROVED"}]
PLAN_TRANSITIONS == [DRAFT |-> {"PROPOSED"}, APPROVED |-> {},
  PROPOSED |-> {"APPROVED", "REJECTED"}, REJECTED |-> {"PROPOSED"}]

canTransition(from, to) == to \in PLAN_TRANSITIONS[from]

Init ==
  /\ status = [p \in Plan |-> "NONE"]
  /\ recs = [p \in Plan |-> {}]
  /\ approval = [a \in Req |-> "NONE"]
  /\ decider = [a \in Req |-> None]
  /\ clock = 0
  /\ stamp = [a \in Req |-> 0]
  /\ audit = {}
  /\ written = {}
  /\ pc = [r \in Req |-> "idle"]
  /\ op = [r \in Req |-> "createPlan"]
  /\ target = [r \in Req |-> None]
  /\ open = [r \in Req |-> None]
-----------------------------------------------------------------------------
(***************************************************************************)
(* Row locks. An UPDATE holds its row from the statement to the end of the *)
(* transaction, so who holds what follows from how far each request is.    *)
(***************************************************************************)
Writes(o) == o \in {"submit"} \union Decision

\* Mutant: a lock is kept after the transaction has ended.
PlanLockFree_Leak(p) ==
  \A q \in Req : ~ (Writes(op[q]) /\ target[q] = p /\ pc[q] \in {"commit"} \union Done)
PlanLockFree(p) ==
  \A q \in Req : ~ (Writes(op[q]) /\ target[q] = p /\ pc[q] = "commit")

ApprovalLockFree(a) ==
  \A q \in Req : ~ (open[q] = a /\ pc[q] \in {"insertAudit", "updatePlan", "commit"})

\* The PENDING approvals decide can find.
PendingApprovals(p) == {a \in Req : approval[a] = "PENDING" /\ target[a] = p}
-----------------------------------------------------------------------------
(***************************************************************************)
(* The steps of a request.                                                 *)
(***************************************************************************)
Goto(r, label) == pc' = [pc EXCEPT ![r] = label]
RowsUnchanged == UNCHANGED <<status, recs, approval, decider, audit>>
RequestUnchanged == UNCHANGED <<op, target>>

\* A request arrives and its transaction begins. createPlan draws a new id.
Receive(r, o, p) ==
  /\ pc[r] = "idle"
  /\ Overlap \/ \A q \in Req : pc[q] \notin Running
  /\ \/ /\ o = "createPlan"
        /\ \A q \in Req : ~ (pc[q] # "idle" /\ op[q] = o /\ target[q] = p)
        /\ Goto(r, "insertAudit")
     \/ /\ o # "createPlan"
        /\ Goto(r, "read")
  /\ op' = [op EXCEPT ![r] = o]
  /\ target' = [target EXCEPT ![r] = p]
  /\ RowsUnchanged
  /\ UNCHANGED <<clock, stamp, written, open>>

\* findUnique found no plan: NotFoundException.
PlanMissing(r) ==
  /\ pc[r] = "read"
  /\ status[target[r]] = "NONE"
  /\ Goto(r, "notFound")
  /\ RowsUnchanged /\ RequestUnchanged
  /\ UNCHANGED <<clock, stamp, written, open>>

\* The state machine refuses the transition: BadRequestException.
TransitionRefused(r) ==
  /\ pc[r] = "read"
  /\ status[target[r]] # "NONE"
  /\ op[r] # "addRecommendation"
  /\ ~ canTransition(status[target[r]], To[op[r]])
  /\ Goto(r, "badRequest")
  /\ RowsUnchanged /\ RequestUnchanged
  /\ UNCHANGED <<clock, stamp, written, open>>

\* The plan is there and, for a transition, in a state that allows it.
PlanRead(r) ==
  /\ pc[r] = "read"
  /\ status[target[r]] # "NONE"
  /\ \/ /\ op[r] = "addRecommendation"
        /\ Goto(r, "insertAudit")
     \/ /\ op[r] = "submit"
        /\ canTransition(status[target[r]], "PROPOSED")
        /\ Goto(r, "openApproval")
     \/ /\ op[r] \in Decision
        /\ canTransition(status[target[r]], To[op[r]])
        /\ Goto(r, "findOpen")
  /\ RowsUnchanged /\ RequestUnchanged
  /\ UNCHANGED <<clock, stamp, written, open>>

\* submit: INSERT the PENDING approval; its created_at is fixed now.
OpenApproval(r) ==
  /\ pc[r] = "openApproval"
  /\ clock' = clock + 1
  /\ stamp' = [stamp EXCEPT ![r] = clock + 1]
  /\ Goto(r, "insertAudit")
  /\ RowsUnchanged /\ RequestUnchanged
  /\ UNCHANGED <<written, open>>

\* decide: the newest PENDING approval of the plan, if there is one.
\* Mutant: the query forgets the plan it is about.
FindOpen_AnyPlan(r) ==
  /\ pc[r] = "findOpen"
  /\ \E a \in {b \in Req : approval[b] = "PENDING"} :
       /\ open' = [open EXCEPT ![r] = a]
       /\ Goto(r, "updateApproval")
  /\ RowsUnchanged /\ RequestUnchanged
  /\ UNCHANGED <<clock, stamp, written>>
FindOpen(r) ==
  /\ pc[r] = "findOpen"
  /\ \/ /\ PendingApprovals(target[r]) = {}
        /\ Goto(r, "insertAudit")
        /\ UNCHANGED open
     \/ \E a \in PendingApprovals(target[r]) :
          /\ \A b \in PendingApprovals(target[r]) : stamp[b] <= stamp[a]
          /\ open' = [open EXCEPT ![r] = a]
          /\ Goto(r, "updateApproval")
  /\ RowsUnchanged /\ RequestUnchanged
  /\ UNCHANGED <<clock, stamp, written>>

\* decide: UPDATE approval ... WHERE id = open.id, once its row is free.
\* Mutant: the approval is updated outside the transaction.
UpdateApproval_Outside(r) ==
  /\ pc[r] = "updateApproval"
  /\ ApprovalLockFree(open[r])
  /\ approval' = [approval EXCEPT ![open[r]] = To[op[r]]]
  /\ Goto(r, "insertAudit")
  /\ UNCHANGED <<status, recs, decider, audit, clock, stamp, written, open>>
  /\ RequestUnchanged
UpdateApproval(r) ==
  /\ pc[r] = "updateApproval"
  /\ ApprovalLockFree(open[r])
  /\ Goto(r, "insertAudit")
  /\ RowsUnchanged /\ RequestUnchanged
  /\ UNCHANGED <<clock, stamp, written, open>>

\* audit: INSERT the row into audit_log. In a transition this comes before the
\* UPDATE of the plan, otherwise it is the last statement.
\* Mutant: on another connection, which commits at once.
InsertAudit_Outside(r) ==
  /\ pc[r] = "insertAudit"
  /\ audit' = audit \union {r}
  /\ written' = written \union {r}
  /\ Goto(r, IF Writes(op[r]) THEN "updatePlan" ELSE "commit")
  /\ UNCHANGED <<status, recs, approval, decider, clock, stamp, open>>
  /\ RequestUnchanged
InsertAudit(r) ==
  /\ pc[r] = "insertAudit"
  /\ written' = written \union {r}
  /\ Goto(r, IF Writes(op[r]) THEN "updatePlan" ELSE "commit")
  /\ RowsUnchanged /\ RequestUnchanged
  /\ UNCHANGED <<clock, stamp, open>>

\* transition: UPDATE plan SET status ... WHERE id = planId, once it is free.
UpdatePlan(r) ==
  /\ pc[r] = "updatePlan"
  /\ PlanLockFree(target[r])
  /\ Goto(r, "commit")
  /\ RowsUnchanged /\ RequestUnchanged
  /\ UNCHANGED <<clock, stamp, written, open>>

\* What COMMIT makes of the approval rows: a submit's own row appears as
\* PENDING, and the row a decision found takes the decision.
ApprovalAfter(r) ==
  [a \in Req |-> CASE op[r] = "submit" /\ a = r -> "PENDING"
                   [] op[r] \in Decision /\ a = open[r] -> To[op[r]]
                   [] OTHER -> approval[a]]

DeciderAfter(r) ==
  [a \in Req |-> IF op[r] \in Decision /\ a = open[r] THEN r ELSE decider[a]]

\* COMMIT: everything the transaction wrote becomes visible, the audit row if
\* it wrote one, and the locks are released.
Commit(r) ==
  /\ pc[r] = "commit"
  /\ Goto(r, "committed")
  /\ audit' = audit \union (written \intersect {r})
  /\ approval' = ApprovalAfter(r)
  /\ decider' = DeciderAfter(r)
  /\ \/ /\ op[r] = "addRecommendation"
        /\ recs' = [recs EXCEPT ![target[r]] = @ \union {r}]
        /\ UNCHANGED status
     \/ /\ op[r] # "addRecommendation"
        /\ status' = [status EXCEPT ![target[r]] = To[op[r]]]
        /\ UNCHANGED recs
  /\ RequestUnchanged
  /\ UNCHANGED <<clock, stamp, written, open>>

\* The handler's promise resolves and the answer is sent.
Respond(r) ==
  /\ pc[r] = "committed"
  /\ Goto(r, "ok")
  /\ RowsUnchanged /\ RequestUnchanged
  /\ UNCHANGED <<clock, stamp, written, open>>

\* The transaction is rolled back: timeout, lost connection, API crash.
Abort(r) ==
  /\ pc[r] \in InTransaction
  /\ Goto(r, "failed")
  /\ written' = written \ {r}
  /\ RowsUnchanged /\ RequestUnchanged
  /\ UNCHANGED <<clock, stamp, open>>

\* The API or the connection is gone after COMMIT: the client hears of an
\* error, or of nothing, though the change is there.
LoseAnswer(r) ==
  /\ pc[r] = "committed"
  /\ Goto(r, "lost")
  /\ RowsUnchanged /\ RequestUnchanged
  /\ UNCHANGED <<clock, stamp, written, open>>

Step(r) ==
  \/ PlanMissing(r) \/ TransitionRefused(r) \/ PlanRead(r)
  \/ OpenApproval(r) \/ FindOpen(r) \/ UpdateApproval(r) \/ InsertAudit(r)
  \/ UpdatePlan(r) \/ Commit(r) \/ Respond(r)

Next ==
  \E r \in Req : \/ \E o \in Op, p \in Plan : Receive(r, o, p)
                 \/ Step(r)
                 \/ Abort(r) \/ LoseAnswer(r)

Spec == Init /\ [][Next]_vars

\* A request in progress goes on: the event loop and the database run its
\* next statement once nothing blocks it. Requests need not arrive or fail.
FairSpec == Spec /\ \A r \in Req : WF_vars(Step(r))
-----------------------------------------------------------------------------
TypeOK ==
  /\ status \in [Plan -> Status]
  /\ recs \in [Plan -> SUBSET Req]
  /\ approval \in [Req -> {"NONE", "PENDING", "APPROVED", "REJECTED"}]
  /\ decider \in [Req -> Req \union {None}]
  /\ clock \in Nat
  /\ stamp \in [Req -> 0 .. clock]
  /\ audit \subseteq Req /\ written \subseteq Req
  /\ pc \in [Req -> {"idle"} \union Running \union Answer]
  /\ op \in [Req -> Op]
  /\ target \in [Req -> Plan \union {None}]
  /\ open \in [Req -> Req \union {None}]

\* The decision of r is on an approval of its plan; another decision on that
\* plan is in the audit log.
RecordedOnApproval(r) ==
  \E a \in Req : decider[a] = r /\ approval[a] = To[op[r]] /\ target[a] = target[r]
HasRival(r) ==
  \E q \in audit \ {r} : op[q] \in Decision /\ target[q] = target[r]

(***************************************************************************)
(* Holds however the requests interleave.                                  *)
(***************************************************************************)
\* A plan that waits for a decision (PROPOSED) always has a PENDING approval
\* for decide to find, whatever submits and decisions raced to get it there:
\* the row that put it in PROPOSED is decided only by a transaction that also
\* moves the plan on.
ProposedHasOpenApproval ==
  \A p \in Plan : status[p] = "PROPOSED" => PendingApprovals(p) # {}

\* The audit log tells exactly what happened, though its rows are written
\* before what they record is certain, and the client may never hear of it:
\* whoever was answered with success is in it; every row there is comes from
\* an audited request; and every audited request has left its rows. Of a
\* decision, that is an approval which holds it, unless a decision on the same
\* plan that raced it is audited too.
AuditIsExact ==
  /\ \A r \in Req : pc[r] = "ok" => r \in audit
  /\ \A p \in Plan : status[p] # "NONE" =>
       \E r \in audit : target[r] = p /\ To[op[r]] = status[p]
  /\ \A p \in Plan : recs[p] = {r \in audit : op[r] = "addRecommendation" /\ target[r] = p}
  /\ \A a \in Req : approval[a] # "NONE" <=> a \in audit /\ op[a] = "submit"
  /\ \A r \in audit : status[target[r]] # "NONE"
  /\ \A r \in audit : op[r] \in Decision => RecordedOnApproval(r) \/ HasRival(r)

\* Nobody decides what was never submitted: a plan or an approval that holds
\* a decision has an audited submit and an audited decision of that kind on
\* the same plan behind it, and the approval names the request that made it.
DecisionIsAccountable ==
  /\ \A p \in Plan : status[p] \in {"APPROVED", "REJECTED"} =>
       /\ \E s \in audit : op[s] = "submit" /\ target[s] = p
       /\ \E d \in audit : To[op[d]] = status[p] /\ target[d] = p
  /\ \A a \in Req : approval[a] \in {"APPROVED", "REJECTED"} =>
       /\ a \in audit /\ op[a] = "submit"
       /\ decider[a] \in audit
       /\ To[op[decider[a]]] = approval[a]
       /\ target[decider[a]] = target[a]

\* Every request that was received is answered: submits and decisions lock
\* the approval before the plan, so they never wait for each other in a ring.
EveryRequestAnswered ==
  \A r \in Req : pc[r] \in Running ~> pc[r] \in Answer

(***************************************************************************)
(* What makes the above inductive: where a request may be for each         *)
(* operation, and which rows may exist.                                    *)
(***************************************************************************)
\* A request is at a statement of its own operation, on a plan.
RequestInv(r) ==
  /\ pc[r] # "idle" => target[r] \in Plan
  /\ pc[r] = "read" => op[r] # "createPlan"
  /\ pc[r] = "openApproval" => op[r] = "submit"
  /\ pc[r] \in {"findOpen", "updateApproval"} => op[r] \in Decision
  /\ pc[r] = "updatePlan" => Writes(op[r])
  /\ pc[r] \in {"updatePlan", "commit"} \union Done <=> r \in written
  /\ pc[r] = "updateApproval" => open[r] # None

\* Only a committed submit has an approval row.
ApprovalInv(a) ==
  approval[a] # "NONE" => op[a] = "submit" /\ pc[a] \in Done

\* The approval a decision found is one of its own plan.
OpenInv(r) ==
  open[r] # None => /\ pc[r] # "idle" /\ op[r] \in Decision
                    /\ approval[open[r]] # "NONE"
                    /\ target[open[r]] = target[r]

ConcurrentInv ==
  \A r \in Req : RequestInv(r) /\ ApprovalInv(r) /\ OpenInv(r)

(***************************************************************************)
(* Holds when requests do not overlap (Overlap = FALSE), and is broken by  *)
(* requests that do: PlanApproval's handlers check, then act.              *)
(***************************************************************************)
\* "Allowed plan state transitions (state machine)": the state a plan leaves
\* allows the state it enters. APPROVED allows none.
PlanFollowsTransitions ==
  [][\A p \in Plan : \/ status'[p] = status[p]
                     \/ status[p] = "NONE" /\ status'[p] = "DRAFT"
                     \/ status[p] # "NONE" /\ canTransition(status[p], status'[p])]_status

\* "DRAFT|REJECTED -> PROPOSED, opening a PENDING approval": a submit commits
\* only on a plan that is a draft or was rejected, so a plan never has two
\* approvals waiting at once.
OneOpenApproval ==
  \A p \in Plan : \A a, b \in PendingApprovals(p) : a = b

\* "PROPOSED -> APPROVED / REJECTED, deciding the open approval": a decision
\* that succeeds is recorded on the approval it decided, and stays there.
DecisionIsRecorded ==
  \A r \in Req : pc[r] \in Done /\ op[r] \in Decision => RecordedOnApproval(r)

(***************************************************************************)
(* What makes these inductive. A plan's row is made by one createPlan; and *)
(* when requests take turns, what a request read is still so when it       *)
(* writes.                                                                 *)
(***************************************************************************)
Created(p) == \E q \in Req : op[q] = "createPlan" /\ target[q] = p /\ pc[q] \in Done

CreateInv ==
  /\ \A p \in Plan : status[p] # "NONE" => Created(p)
  /\ \A r \in Req : pc[r] \in Running \ {"read"} /\ op[r] # "createPlan" =>
       status[target[r]] # "NONE"
  /\ \A q, r \in Req :
       /\ op[q] = "createPlan" /\ pc[q] # "idle"
       /\ op[r] = "createPlan" /\ pc[r] # "idle"
       /\ target[q] = target[r]
       => q = r

StillSo(r) ==
  /\ op[r] = "submit" /\ pc[r] \in {"openApproval", "insertAudit", "updatePlan", "commit"} =>
       status[target[r]] \in {"DRAFT", "REJECTED"}
  /\ op[r] \in Decision /\ pc[r] \in InTransaction \ {"read"} =>
       status[target[r]] = "PROPOSED"
  /\ op[r] \in Decision /\ pc[r] \in InTransaction \ {"read", "findOpen"} =>
       open[r] \in Req /\ approval[open[r]] = "PENDING"

SerialInv ==
  /\ \A q, r \in Req : pc[q] \in Running /\ pc[r] \in Running => q = r
  /\ \A a \in Req : approval[a] = "PENDING" => status[target[a]] = "PROPOSED"
  /\ \A r \in Req : StillSo(r)
  /\ OneOpenApproval

\* The workflow as one atomic step per operation.
Lifecycle == INSTANCE PlanLifecycle WITH
  awaiting <- {p \in Plan : PendingApprovals(p) # {}},
  verdicts <- [p \in Plan |-> {approval[a] : a \in {b \in Req :
                 target[b] = p /\ approval[b] \in {"APPROVED", "REJECTED"}}}]
LifecycleSpec == Lifecycle!Spec
=============================================================================
