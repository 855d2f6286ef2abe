------------------------ MODULE PlanApproval_proofs ------------------------
(***************************************************************************)
(* Theorems about PlanApproval, for any sets of plans and requests.        *)
(***************************************************************************)
EXTENDS PlanApproval, WellFoundedInduction, NaturalsInduction, TLAPS

-----------------------------------------------------------------------------
(***************************************************************************)
(* Type correctness.                                                       *)
(***************************************************************************)
\* The committed rows and the requests keep their types.
THEOREM TypeCorrect == Spec => []TypeOK
<1>1. Init => TypeOK
  BY DEF Init, TypeOK, Status, Op
<1>2. TypeOK /\ [Next]_vars => TypeOK'
  <2> SUFFICES ASSUME TypeOK, [Next]_vars
               PROVE  TypeOK'
    OBVIOUS
  <2> USE DEF TypeOK, Goto, RowsUnchanged, RequestUnchanged, Running, InTransaction, Answer
  <2>1. ASSUME NEW r \in Req, NEW o \in Op, NEW p \in Plan, Receive(r, o, p)
        PROVE  TypeOK'
    BY <2>1 DEF Receive
  <2>2. ASSUME NEW r \in Req, PlanMissing(r)
        PROVE  TypeOK'
    BY <2>2 DEF PlanMissing
  <2>3. ASSUME NEW r \in Req, TransitionRefused(r)
        PROVE  TypeOK'
    BY <2>3 DEF TransitionRefused
  <2>4. ASSUME NEW r \in Req, PlanRead(r)
        PROVE  TypeOK'
    BY <2>4 DEF PlanRead
  <2>5. ASSUME NEW r \in Req, OpenApproval(r)
        PROVE  TypeOK'
    BY <2>5 DEF OpenApproval
  <2>6. ASSUME NEW r \in Req, FindOpen(r)
        PROVE  TypeOK'
    BY <2>6 DEF FindOpen, PendingApprovals
  <2>7. ASSUME NEW r \in Req, UpdateApproval(r)
        PROVE  TypeOK'
    BY <2>7 DEF UpdateApproval
  <2>8. ASSUME NEW r \in Req, UpdatePlan(r)
        PROVE  TypeOK'
    BY <2>8 DEF UpdatePlan
  <2>9. ASSUME NEW r \in Req, Commit(r)
        PROVE  TypeOK'
    <3>1. ApprovalAfter(r) \in [Req -> {"NONE", "PENDING", "APPROVED", "REJECTED"}]
      BY DEF ApprovalAfter, To, Decision, Op
    <3>2. DeciderAfter(r) \in [Req -> Req \union {None}]
      BY DEF DeciderAfter
    <3>3. To[op[r]] \in Status
      BY DEF To, Op, Status
    <3>4. status' \in [Plan -> Status]
      BY <2>9, <3>3 DEF Commit
    <3>5. recs' \in [Plan -> SUBSET Req]
      <4>1. CASE op[r] = "addRecommendation"
        BY <2>9, <4>1 DEF Commit
      <4>2. CASE op[r] # "addRecommendation"
        BY <2>9, <4>2 DEF Commit
      <4> QED BY <4>1, <4>2
    <3>6. audit' \subseteq Req /\ pc' \in [Req -> {"idle"} \union Running \union Answer]
      BY <2>9 DEF Commit
    <3> QED BY <2>9, <3>1, <3>2, <3>4, <3>5, <3>6 DEF Commit
  <2>10. ASSUME NEW r \in Req, Abort(r)
        PROVE  TypeOK'
    BY <2>10 DEF Abort
  <2>11. CASE UNCHANGED vars
    BY <2>11 DEF vars
  <2>12. ASSUME NEW r \in Req, InsertAudit(r)
         PROVE  TypeOK'
    BY <2>12 DEF InsertAudit
  <2>13. ASSUME NEW r \in Req, Respond(r) \/ LoseAnswer(r)
         PROVE  TypeOK'
    BY <2>13 DEF Respond, LoseAnswer
  <2> QED BY <2>1, <2>2, <2>3, <2>4, <2>5, <2>6, <2>7, <2>8, <2>9, <2>10, <2>11, <2>12,
             <2>13 DEF Next, Step
<1> QED BY <1>1, <1>2, PTL DEF Spec

-----------------------------------------------------------------------------
(***************************************************************************)
(* However requests interleave, a proposed plan can be decided.            *)
(***************************************************************************)
LEMMA ConcurrentInvInvariant == Spec => []ConcurrentInv
<1> USE NoneAssumption DEF Done
<1>1. Init => ConcurrentInv
  BY DEF Init, ConcurrentInv, RequestInv, ApprovalInv, OpenInv
<1>2. TypeOK /\ ConcurrentInv /\ [Next]_vars => ConcurrentInv'
  <2> SUFFICES ASSUME TypeOK, ConcurrentInv, [Next]_vars, NEW q \in Req
               PROVE  (RequestInv(q) /\ ApprovalInv(q) /\ OpenInv(q))'
    BY DEF ConcurrentInv
  <2>0. \A s \in Req : RequestInv(s) /\ ApprovalInv(s) /\ OpenInv(s)
    BY DEF ConcurrentInv
  <2>t. TypeOK
    OBVIOUS
  <2> USE DEF TypeOK, Goto, RowsUnchanged, RequestUnchanged, RequestInv,
              ApprovalInv, OpenInv, Writes, Decision, Done
  <2>1. ASSUME NEW r \in Req, NEW o \in Op, NEW p \in Plan, Receive(r, o, p)
        PROVE  (RequestInv(q) /\ ApprovalInv(q) /\ OpenInv(q))'
    BY <2>0, <2>1 DEF Receive
  <2>2. ASSUME NEW r \in Req, PlanMissing(r)
        PROVE  (RequestInv(q) /\ ApprovalInv(q) /\ OpenInv(q))'
    BY <2>0, <2>2 DEF PlanMissing
  <2>3. ASSUME NEW r \in Req, TransitionRefused(r)
        PROVE  (RequestInv(q) /\ ApprovalInv(q) /\ OpenInv(q))'
    BY <2>0, <2>3 DEF TransitionRefused
  <2>4. ASSUME NEW r \in Req, PlanRead(r)
        PROVE  (RequestInv(q) /\ ApprovalInv(q) /\ OpenInv(q))'
    BY <2>0, <2>4 DEF PlanRead
  <2>5. ASSUME NEW r \in Req, OpenApproval(r)
        PROVE  (RequestInv(q) /\ ApprovalInv(q) /\ OpenInv(q))'
    BY <2>0, <2>5 DEF OpenApproval
  <2>6. ASSUME NEW r \in Req, FindOpen(r)
        PROVE  (RequestInv(q) /\ ApprovalInv(q) /\ OpenInv(q))'
    BY <2>0, <2>6 DEF FindOpen, PendingApprovals
  <2>7. ASSUME NEW r \in Req, UpdateApproval(r)
        PROVE  (RequestInv(q) /\ ApprovalInv(q) /\ OpenInv(q))'
    BY <2>0, <2>7 DEF UpdateApproval
  <2>8. ASSUME NEW r \in Req, UpdatePlan(r)
        PROVE  (RequestInv(q) /\ ApprovalInv(q) /\ OpenInv(q))'
    BY <2>0, <2>8 DEF UpdatePlan
  <2>9. ASSUME NEW r \in Req, Commit(r)
        PROVE  (RequestInv(q) /\ ApprovalInv(q) /\ OpenInv(q))'
    <3>1. /\ pc[r] = "commit" /\ pc' = [pc EXCEPT ![r] = "committed"]
          /\ UNCHANGED <<op, target, open, written>>
          /\ approval' = ApprovalAfter(r)
      BY <2>9 DEF Commit
    <3>2. \A a \in Req : approval[a] # "NONE" => approval'[a] # "NONE"
      BY <3>1 DEF ApprovalAfter, To, Op
    <3>3. approval'[q] # "NONE" =>
            \/ q = r /\ op[q] = "submit"
            \/ op[r] \in Decision /\ q = open[r]
            \/ approval[q] # "NONE"
      BY <3>1 DEF ApprovalAfter
    <3>4. ApprovalInv(q)'
      BY <2>0, <3>1, <3>3
    <3>5. RequestInv(q)' /\ OpenInv(q)'
      BY <2>0, <3>1, <3>2
    <3> QED BY <3>4, <3>5
  <2>10. ASSUME NEW r \in Req, Abort(r)
        PROVE  (RequestInv(q) /\ ApprovalInv(q) /\ OpenInv(q))'
    BY <2>0, <2>10 DEF Abort, InTransaction
  <2>11. CASE UNCHANGED vars
    BY <2>0, <2>11 DEF vars
  <2>12. ASSUME NEW r \in Req, InsertAudit(r)
         PROVE  (RequestInv(q) /\ ApprovalInv(q) /\ OpenInv(q))'
    BY <2>0, <2>12 DEF InsertAudit
  <2>13. ASSUME NEW r \in Req, Respond(r) \/ LoseAnswer(r)
         PROVE  (RequestInv(q) /\ ApprovalInv(q) /\ OpenInv(q))'
    BY <2>0, <2>13 DEF Respond, LoseAnswer
  <2> QED BY <2>1, <2>2, <2>3, <2>4, <2>5, <2>6, <2>7, <2>8, <2>9, <2>10, <2>11, <2>12,
             <2>13 DEF Next, Step
<1> QED BY <1>1, <1>2, TypeCorrect, PTL DEF Spec

\* A plan that is PROPOSED has a PENDING approval for decide to find: the
\* commit of a decision closes one approval and moves that approval's plan on
\* in the same transaction, and only a submit proposes a plan.
THEOREM ProposedCanBeDecided == Spec => []ProposedHasOpenApproval
<1> USE NoneAssumption DEF Done
<1>1. Init => ProposedHasOpenApproval
  BY DEF Init, ProposedHasOpenApproval
<1>2. /\ TypeOK /\ ConcurrentInv /\ ConcurrentInv' /\ ProposedHasOpenApproval
      /\ [Next]_vars
      => ProposedHasOpenApproval'
  <2> SUFFICES ASSUME TypeOK, ConcurrentInv, ConcurrentInv', ProposedHasOpenApproval,
                      [Next]_vars, NEW p \in Plan, status'[p] = "PROPOSED"
               PROVE  \E b \in Req : approval'[b] = "PENDING" /\ target'[b] = p
    BY DEF ProposedHasOpenApproval, PendingApprovals
  <2>1. ASSUME status[p] = "PROPOSED"
        PROVE  \E a \in Req : /\ approval[a] = "PENDING" /\ target[a] = p
                              /\ op[a] = "submit" /\ pc[a] \in Done
    BY <2>1 DEF ProposedHasOpenApproval, PendingApprovals, ConcurrentInv, ApprovalInv
  <2>2. ASSUME NEW r \in Req, Commit(r)
        PROVE  \E b \in Req : approval'[b] = "PENDING" /\ target'[b] = p
    <3>1. /\ target' = target /\ approval' = ApprovalAfter(r) /\ op[r] \in Op
          /\ pc[r] = "commit"
      BY <2>2 DEF Commit, TypeOK, RequestUnchanged
    <3>2. CASE op[r] = "submit" /\ target[r] = p
      <4>1. approval'[r] = "PENDING"
        BY <3>1, <3>2 DEF ApprovalAfter, Decision
      <4>2. target'[r] = p
        BY <3>1, <3>2
      <4> QED BY <4>1, <4>2
    <3>3. CASE ~ (op[r] = "submit" /\ target[r] = p)
      <4>1. status[p] = "PROPOSED" /\ (op[r] \in Decision => target[r] # p)
        BY <2>2, <3>1, <3>3 DEF Commit, TypeOK, To, Op, Decision
      <4>2. PICK a \in Req : approval[a] = "PENDING" /\ target[a] = p /\ pc[a] \in Done
        BY <2>1, <4>1
      <4>3. a # r
        BY <3>1, <4>2
      <4>4. op[r] \in Decision => a # open[r]
        BY <4>1, <4>2 DEF ConcurrentInv, OpenInv
      <4>5. approval'[a] = "PENDING"
        BY <3>1, <4>2, <4>3, <4>4 DEF ApprovalAfter
      <4> QED BY <3>1, <4>2, <4>5
    <3> QED BY <3>2, <3>3
  <2>3. ASSUME UNCHANGED <<status, approval>>,
               \A a \in Req : pc[a] \in Done => target'[a] = target[a]
        PROVE  \E b \in Req : approval'[b] = "PENDING" /\ target'[b] = p
    BY <2>1, <2>3
  <2>4. ASSUME NEW r \in Req, NEW o \in Op, NEW s \in Plan, Receive(r, o, s)
        PROVE  \E b \in Req : approval'[b] = "PENDING" /\ target'[b] = p
    BY <2>3, <2>4 DEF Receive, RowsUnchanged, TypeOK
  <2>5. ASSUME NEW r \in Req, Step(r) \/ Abort(r) \/ LoseAnswer(r), ~ Commit(r)
        PROVE  \E b \in Req : approval'[b] = "PENDING" /\ target'[b] = p
    BY <2>3, <2>5 DEF Step, PlanMissing, TransitionRefused, PlanRead, OpenApproval,
       FindOpen, UpdateApproval, InsertAudit, UpdatePlan, Respond, Abort, LoseAnswer, RowsUnchanged, RequestUnchanged
  <2>6. CASE UNCHANGED vars
    BY <2>3, <2>6 DEF vars
  <2> QED BY <2>2, <2>4, <2>5, <2>6 DEF Next
<1> QED BY <1>1, <1>2, TypeCorrect, ConcurrentInvInvariant, PTL DEF Spec

-----------------------------------------------------------------------------
(***************************************************************************)
(* The safety half of EveryRequestAnswered: whoever waits, waits for       *)
(* somebody who can go on, and nobody goes back.                           *)
(***************************************************************************)
\* Step(r) can be taken: its query has an answer, and nobody holds the row
\* that it writes.
CanProceed(r) ==
  \/ pc[r] = "read" /\ op[r] # "createPlan"
  \/ pc[r] \in {"openApproval", "insertAudit", "commit", "committed"}
  \/ /\ pc[r] = "findOpen"
     /\ LET found == PendingApprovals(target[r])
        IN found = {} \/ \E a \in found : \A b \in found : stamp[b] <= stamp[a]
  \/ pc[r] = "updateApproval" /\ ApprovalLockFree(open[r])
  \/ pc[r] = "updatePlan" /\ PlanLockFree(target[r])

WaitsFor(r, q) ==
  \/ pc[r] = "updateApproval" /\ open[q] = open[r] /\ pc[q] \in {"insertAudit", "updatePlan", "commit"}
  \/ /\ pc[r] = "updatePlan" /\ Writes(op[q]) /\ target[q] = target[r]
     /\ pc[q] = "commit"

WaitsAreShort ==
  \A r \in Req : pc[r] \in Running =>
    \/ CanProceed(r)
    \/ \E q \in Req : WaitsFor(r, q) /\ CanProceed(q)
    \/ \E q, s \in Req : WaitsFor(r, q) /\ WaitsFor(q, s) /\ CanProceed(s)

\* The statements of a request in their order.
Place == [idle |-> 0, read |-> 1, openApproval |-> 2, findOpen |-> 2, updateApproval |-> 3,
          insertAudit |-> 4, updatePlan |-> 5, commit |-> 6, committed |-> 7, ok |-> 8,
          notFound |-> 8, badRequest |-> 8, failed |-> 8, lost |-> 8]
OnlyForward == \A r \in Req : pc'[r] = pc[r] \/ Place[pc'[r]] > Place[pc[r]]

\* The newest pending approval exists.
LEMMA NewestFound ==
  ASSUME NEW S \in SUBSET Req, S # {}, clock \in Nat, stamp \in [Req -> 0 .. clock]
  PROVE  \E a \in S : \A b \in S : stamp[b] <= stamp[a]
<1> DEFINE U == {n \in Nat : \A a \in S : stamp[a] <= n}
           R == OpToRel(<, Nat)
<1>1. PICK j \in U : \A k \in U : ~(<<k, j>> \in R)
  <2>1. U \subseteq Nat /\ clock \in U
    OBVIOUS
  <2>2. IsWellFoundedOn(R, Nat)
    BY NatLessThanWellFounded
  <2>3. U # {}
    BY <2>1
  <2> HIDE DEF U, R
  <2> QED BY <2>1, <2>2, <2>3, WFMin
<1>2. \A k \in U : ~(k < j)
  <2>1. R = {ss \in Nat \X Nat : ss[1] < ss[2]} /\ U \subseteq Nat
    BY DEF OpToRel
  <2> HIDE DEF R, U
  <2> QED BY <1>1, <2>1
<1>3. ASSUME \A a \in S : stamp[a] # j PROVE FALSE
  <2>1. \A a \in S : stamp[a] \in Nat /\ stamp[a] < j
    BY <1>3
  <2>2. j - 1 \in Nat
    BY <2>1
  <2>3. j - 1 \in U
    BY <2>1, <2>2
  <2> QED BY <1>2, <2>2, <2>3
<1> QED BY <1>3

\* A request that cannot go on waits for one that is past it: a decision for
\* the one that holds its approval, and either for the one that holds the
\* plan, which has nothing left to do but COMMIT. Approvals are locked before
\* plans (plans.service.ts:148), so no wait comes back to its beginning.
THEOREM WaitingEnds == Spec => []WaitsAreShort
<1>1. TypeOK /\ ConcurrentInv => WaitsAreShort
  <2> SUFFICES ASSUME TypeOK, ConcurrentInv, NEW r \in Req, pc[r] \in Running
               PROVE  \/ CanProceed(r)
                      \/ \E q \in Req : WaitsFor(r, q) /\ CanProceed(q)
                      \/ \E q, s \in Req : WaitsFor(r, q) /\ WaitsFor(q, s) /\ CanProceed(s)
    BY DEF WaitsAreShort
  <2>1. \A q \in Req : pc[q] = "commit" => CanProceed(q)
    BY DEF CanProceed
  <2>2. ASSUME NEW q \in Req, pc[q] = "updatePlan", ~ CanProceed(q)
        PROVE  \E s \in Req : WaitsFor(q, s) /\ CanProceed(s)
    BY <2>1, <2>2 DEF CanProceed, PlanLockFree, WaitsFor
  <2>3. CASE pc[r] = "read"
    BY <2>3 DEF CanProceed, ConcurrentInv, RequestInv
  <2>4. CASE pc[r] \in {"openApproval", "insertAudit", "commit", "committed"}
    BY <2>4 DEF CanProceed
  <2>5. CASE pc[r] = "findOpen"
    <3>1. PendingApprovals(target[r]) \in SUBSET Req
      BY DEF PendingApprovals
    <3>2. \/ PendingApprovals(target[r]) = {}
          \/ \E a \in PendingApprovals(target[r]) :
               \A b \in PendingApprovals(target[r]) : stamp[b] <= stamp[a]
      BY <3>1, NewestFound DEF TypeOK
    <3> QED BY <2>5, <3>2 DEF CanProceed
  <2>6. CASE pc[r] = "updateApproval"
    <3>1. CASE ApprovalLockFree(open[r])
      BY <2>6, <3>1 DEF CanProceed
    <3>2. CASE ~ ApprovalLockFree(open[r])
      <4>1. PICK q \in Req : open[q] = open[r] /\ pc[q] \in {"insertAudit", "updatePlan", "commit"}
        BY <3>2 DEF ApprovalLockFree
      <4>2. WaitsFor(r, q)
        BY <2>6, <4>1 DEF WaitsFor
      <4>3. CASE pc[q] = "insertAudit"
        BY <4>2, <4>3 DEF CanProceed
      <4> QED BY <2>1, <2>2, <4>1, <4>2, <4>3
    <3> QED BY <3>1, <3>2
  <2>7. CASE pc[r] = "updatePlan"
    BY <2>2, <2>7
  <2> QED BY <2>3, <2>4, <2>5, <2>6, <2>7 DEF Running, InTransaction
<1> QED BY <1>1, TypeCorrect, ConcurrentInvInvariant, PTL

\* No step takes a request back to a statement it has run, nor undoes an
\* answer: a request is answered after seven steps of its own at most.
THEOREM StepsGoForward == Spec => [][OnlyForward]_vars
<1>1. TypeOK /\ ConcurrentInv /\ [Next]_vars => OnlyForward
  <2> SUFFICES ASSUME TypeOK, ConcurrentInv, [Next]_vars, NEW q \in Req
               PROVE  pc'[q] = pc[q] \/ Place[pc'[q]] > Place[pc[q]]
    BY DEF OnlyForward
  <2> USE DEF TypeOK, Goto, Place
  <2>1. ASSUME NEW r \in Req, NEW o \in Op, NEW p \in Plan, Receive(r, o, p)
        PROVE  pc'[q] = pc[q] \/ Place[pc'[q]] > Place[pc[q]]
    BY <2>1 DEF Receive
  <2>2. ASSUME NEW r \in Req, PlanMissing(r) \/ TransitionRefused(r) \/ PlanRead(r)
        PROVE  pc'[q] = pc[q] \/ Place[pc'[q]] > Place[pc[q]]
    BY <2>2 DEF PlanMissing, TransitionRefused, PlanRead
  <2>3. ASSUME NEW r \in Req, OpenApproval(r) \/ FindOpen(r)
        PROVE  pc'[q] = pc[q] \/ Place[pc'[q]] > Place[pc[q]]
    BY <2>3 DEF OpenApproval, FindOpen
  <2>4. ASSUME NEW r \in Req, \/ UpdateApproval(r) \/ InsertAudit(r) \/ UpdatePlan(r)
                              \/ Commit(r) \/ Respond(r)
        PROVE  pc'[q] = pc[q] \/ Place[pc'[q]] > Place[pc[q]]
    BY <2>4 DEF UpdateApproval, InsertAudit, UpdatePlan, Commit, Respond
  <2>5. ASSUME NEW r \in Req, Abort(r) \/ LoseAnswer(r)
        PROVE  pc'[q] = pc[q] \/ Place[pc'[q]] > Place[pc[q]]
    BY <2>5 DEF Abort, LoseAnswer, InTransaction
  <2>6. CASE UNCHANGED vars
    BY <2>6 DEF vars
  <2> QED BY <2>1, <2>2, <2>3, <2>4, <2>5, <2>6 DEF Next, Step
<1> QED BY <1>1, TypeCorrect, ConcurrentInvInvariant, PTL DEF Spec

-----------------------------------------------------------------------------
(***************************************************************************)
(* The audit log is written by COMMIT, and by nothing else.                *)
(***************************************************************************)
\* The audit log has a row for exactly the requests that have committed,
\* because audit() runs in the transaction of what it records.
AuditInv == audit = {r \in Req : pc[r] \in Done}

LEMMA AuditInvInvariant == Spec => []AuditInv
<1>1. Init => AuditInv
  BY DEF Init, AuditInv, Done
<1>2. TypeOK /\ ConcurrentInv /\ AuditInv /\ [Next]_vars => AuditInv'
  <2> SUFFICES ASSUME TypeOK, ConcurrentInv, AuditInv, [Next]_vars
               PROVE  AuditInv'
    OBVIOUS
  <2> USE DEF AuditInv, Goto, Done
  <2>1. ASSUME NEW r \in Req, Commit(r)
        PROVE  AuditInv'
    <3>1. r \in written
      BY <2>1 DEF Commit, ConcurrentInv, RequestInv
    <3> QED BY <2>1, <3>1 DEF Commit, TypeOK
  \* Every other step commits no request and undoes no commit.
  <2>2. ASSUME audit' = audit, \A q \in Req : pc'[q] \in Done <=> pc[q] \in Done
        PROVE  AuditInv'
    BY <2>2
  <2>3. ASSUME NEW r \in Req, NEW o \in Op, NEW p \in Plan, Receive(r, o, p)
        PROVE  AuditInv'
    BY <2>2, <2>3 DEF Receive, RowsUnchanged, TypeOK
  <2>4. ASSUME NEW r \in Req, PlanMissing(r) \/ TransitionRefused(r) \/ PlanRead(r)
        PROVE  AuditInv'
    BY <2>2, <2>4 DEF PlanMissing, TransitionRefused, PlanRead, RowsUnchanged, TypeOK
  <2>5. ASSUME NEW r \in Req,
               OpenApproval(r) \/ FindOpen(r) \/ UpdateApproval(r) \/ UpdatePlan(r)
        PROVE  AuditInv'
    BY <2>2, <2>5 DEF OpenApproval, FindOpen, UpdateApproval, UpdatePlan,
                      RowsUnchanged, TypeOK
  <2>6. ASSUME NEW r \in Req, InsertAudit(r) \/ Respond(r) \/ Abort(r) \/ LoseAnswer(r)
        PROVE  AuditInv'
    BY <2>2, <2>6 DEF InsertAudit, Respond, Abort, LoseAnswer, InTransaction,
                      RowsUnchanged, TypeOK
  <2>7. CASE UNCHANGED vars
    BY <2>2, <2>7 DEF vars
  <2> QED BY <2>1, <2>3, <2>4, <2>5, <2>6, <2>7 DEF Next, Step
<1> QED BY <1>1, <1>2, TypeCorrect, ConcurrentInvInvariant, PTL DEF Spec

-----------------------------------------------------------------------------
(***************************************************************************)
(* What was decided was submitted. The evidence is in the audit log, which *)
(* only grows; a decision in progress has seen the plan proposed.          *)
(***************************************************************************)
Submitted == {target[s] : s \in {s \in audit : op[s] = "submit"}}
Moved(p) == \E d \in audit : To[op[d]] = status[p] /\ target[d] = p

AccountInv ==
  /\ \A p \in Plan : status[p] \in {"PROPOSED", "APPROVED", "REJECTED"} => p \in Submitted
  /\ \A p \in Plan : status[p] # "NONE" => Moved(p)
  /\ \A r \in Req : /\ op[r] \in Decision
                    /\ pc[r] \in {"findOpen", "updateApproval", "insertAudit", "updatePlan", "commit"}
                    => target[r] \in Submitted
  /\ \A a \in Req : approval[a] \in {"APPROVED", "REJECTED"} =>
       /\ decider[a] \in audit
       /\ To[op[decider[a]]] = approval[a]
       /\ target[decider[a]] = target[a]

\* No step changes what an audited request was.
LEMMA EvidenceStays ==
  ASSUME TypeOK, AuditInv, [Next]_vars
  PROVE  \A s \in audit : s \in audit' /\ op'[s] = op[s] /\ target'[s] = target[s]
<1>1. \A s \in audit : pc[s] \in Done /\ s \in Req
  BY DEF TypeOK, AuditInv
<1> USE DEF TypeOK, RowsUnchanged, RequestUnchanged, Done
<1>2. ASSUME NEW r \in Req, NEW o \in Op, NEW p \in Plan, Receive(r, o, p)
      PROVE  \A s \in audit : s \in audit' /\ op'[s] = op[s] /\ target'[s] = target[s]
  BY <1>1, <1>2 DEF Receive
<1>3. ASSUME NEW r \in Req, Step(r) \/ Abort(r) \/ LoseAnswer(r)
      PROVE  \A s \in audit : s \in audit' /\ op'[s] = op[s] /\ target'[s] = target[s]
  BY <1>3 DEF Step, PlanMissing, TransitionRefused, PlanRead, OpenApproval, FindOpen,
              UpdateApproval, InsertAudit, UpdatePlan, Commit, Respond, Abort, LoseAnswer
<1>4. CASE UNCHANGED vars
  BY <1>4 DEF vars
<1> QED BY <1>2, <1>3, <1>4 DEF Next

\* The commit of a request r.
LEMMA CommitAccounted ==
  ASSUME TypeOK, ConcurrentInv, AuditInv, AccountInv, NEW r \in Req, Commit(r),
         \A s \in audit : s \in audit' /\ op'[s] = op[s] /\ target'[s] = target[s]
  PROVE  AccountInv'
<1> USE NoneAssumption DEF Done
<1>1. /\ pc[r] = "commit" /\ pc' = [pc EXCEPT ![r] = "committed"] /\ audit' = audit \union {r}
      /\ UNCHANGED <<op, target>> /\ op[r] \in Op /\ target[r] \in Plan
      /\ approval' = ApprovalAfter(r) /\ decider' = DeciderAfter(r)
      /\ status' = status \/ status' = [status EXCEPT ![target[r]] = To[op[r]]]
  BY DEF Commit, Goto, RequestUnchanged, TypeOK, ConcurrentInv, RequestInv
<1>2. Submitted \subseteq Submitted'
  BY DEF Submitted
<1>3. ASSUME NEW p \in Plan, status'[p] \in {"PROPOSED", "APPROVED", "REJECTED"}
      PROVE  p \in Submitted'
  <2>1. CASE status'[p] = status[p]
    BY <1>2, <1>3, <2>1 DEF AccountInv
  <2>2. CASE status'[p] # status[p]
    <3>1. target[r] = p /\ To[op[r]] = status'[p]
      BY <1>1, <2>2 DEF TypeOK
    <3>2. op[r] = "submit" \/ op[r] \in Decision
      BY <1>1, <1>3, <3>1 DEF To, Op, Decision
    <3>3. CASE op[r] = "submit"
      BY <1>1, <3>1, <3>3 DEF Submitted
    <3>4. CASE op[r] \in Decision
      BY <1>1, <1>2, <3>1, <3>4 DEF AccountInv
    <3> QED BY <3>2, <3>3, <3>4
  <2> QED BY <2>1, <2>2
<1>4. ASSUME NEW p \in Plan, status'[p] # "NONE"
      PROVE  Moved(p)'
  <2>1. CASE status'[p] = status[p]
    BY <1>1, <1>4, <2>1 DEF AccountInv, Moved
  <2>2. CASE status'[p] # status[p]
    <3>1. target[r] = p /\ To[op[r]] = status'[p]
      BY <1>1, <2>2 DEF TypeOK
    <3> QED BY <1>1, <3>1 DEF Moved
  <2> QED BY <2>1, <2>2
<1>5. ASSUME NEW q \in Req, op'[q] \in Decision,
             pc'[q] \in {"findOpen", "updateApproval", "insertAudit", "updatePlan", "commit"}
      PROVE  target'[q] \in Submitted'
  <2>1. pc[q] = pc'[q] /\ op[q] = op'[q] /\ target[q] \in Plan
    BY <1>1, <1>5 DEF TypeOK, ConcurrentInv, RequestInv
  <2> QED BY <1>1, <1>2, <1>5, <2>1 DEF AccountInv
<1>6. ASSUME NEW a \in Req, approval'[a] \in {"APPROVED", "REJECTED"}
      PROVE  /\ decider'[a] \in audit'
             /\ To[op'[decider'[a]]] = approval'[a]
             /\ target'[decider'[a]] = target'[a]
  <2>1. CASE op[r] \in Decision /\ a = open[r]
    <3>1. op[r] # "submit" /\ target[a] = target[r]
      BY <2>1 DEF Decision, ConcurrentInv, OpenInv
    <3>2. decider'[a] = r /\ approval'[a] = To[op[r]]
      BY <1>1, <2>1, <3>1 DEF ApprovalAfter, DeciderAfter
    <3> QED BY <1>1, <3>1, <3>2
  <2>2. CASE ~(op[r] \in Decision /\ a = open[r])
    <3>1. decider'[a] = decider[a]
      BY <1>1, <2>2 DEF DeciderAfter
    <3>2. approval'[a] = approval[a]
      BY <1>1, <1>6, <2>2 DEF ApprovalAfter
    <3> QED BY <1>1, <1>6, <3>1, <3>2 DEF AccountInv
  <2> QED BY <2>1, <2>2
<1>7. \A q \in Req : target'[q] = target[q]
  BY <1>1
<1> QED BY <1>3, <1>4, <1>5, <1>6, <1>7 DEF AccountInv

\* No step takes the evidence away.
LEMMA AccountInvInvariant == Spec => []AccountInv
<1>1. Init => AccountInv
  BY DEF Init, AccountInv
<1>2. TypeOK /\ ConcurrentInv /\ AuditInv /\ AccountInv /\ [Next]_vars => AccountInv'
  <2> SUFFICES ASSUME TypeOK, ConcurrentInv, AuditInv, AccountInv, [Next]_vars
               PROVE  AccountInv'
    OBVIOUS
  <2>1. \A s \in audit : s \in audit' /\ op'[s] = op[s] /\ target'[s] = target[s]
    BY EvidenceStays
  <2>2. Submitted \subseteq Submitted'
    BY <2>1 DEF Submitted
  \* A step that is no commit writes no row; a decision that goes on past its
  \* read has evidence, or has just read that the plan is proposed.
  <2>3. ASSUME UNCHANGED <<status, approval, decider>>,
               \A r \in Req : /\ op'[r] \in Decision
                              /\ pc'[r] \in {"findOpen", "updateApproval", "insertAudit", "updatePlan", "commit"}
                              => target'[r] \in Submitted'
        PROVE  AccountInv'
    <3>1. ASSUME NEW p \in Plan, status'[p] # "NONE"
          PROVE  Moved(p)'
      BY <2>1, <2>3, <3>1 DEF AccountInv, Moved
    <3>2. ASSUME NEW a \in Req, approval'[a] \in {"APPROVED", "REJECTED"}
          PROVE  /\ decider'[a] \in audit'
                 /\ To[op'[decider'[a]]] = approval'[a]
                 /\ target'[decider'[a]] = target'[a]
      <4>1. a \in audit
        BY <2>3, <3>2 DEF ConcurrentInv, ApprovalInv, AuditInv
      <4> QED BY <2>1, <2>3, <3>2, <4>1 DEF AccountInv
    <3>3. \A p \in Plan : status'[p] \in {"PROPOSED", "APPROVED", "REJECTED"} => p \in Submitted'
      BY <2>2, <2>3 DEF AccountInv
    <3> QED BY <2>3, <3>1, <3>2, <3>3 DEF AccountInv
  <2> USE DEF RowsUnchanged, RequestUnchanged, Goto
  <2>4. ASSUME NEW r \in Req, UNCHANGED <<status, approval, decider, op, target>>,
               \A q \in Req \ {r} : pc'[q] = pc[q],
               /\ op[r] \in Decision
               /\ pc'[r] \in {"findOpen", "updateApproval", "insertAudit", "updatePlan", "commit"}
               => pc[r] \in {"findOpen", "updateApproval", "insertAudit", "updatePlan", "commit"}
        PROVE  AccountInv'
    <3>1. ASSUME NEW q \in Req, op'[q] \in Decision,
                 pc'[q] \in {"findOpen", "updateApproval", "insertAudit", "updatePlan", "commit"}
          PROVE  target'[q] \in Submitted'
      BY <2>2, <2>4, <3>1 DEF AccountInv
    <3> QED BY <2>3, <2>4, <3>1
  <2>5. ASSUME NEW r \in Req, NEW o \in Op, NEW p \in Plan, Receive(r, o, p)
        PROVE  AccountInv'
    <3>1. ASSUME NEW q \in Req, op'[q] \in Decision,
                 pc'[q] \in {"findOpen", "updateApproval", "insertAudit", "updatePlan", "commit"}
          PROVE  target'[q] \in Submitted'
      <4>1. q # r
        BY <2>5, <3>1 DEF Receive, TypeOK, Decision
      <4>2. op[q] = op'[q] /\ pc[q] = pc'[q] /\ target[q] = target'[q]
        BY <2>5, <4>1 DEF Receive, TypeOK
      <4> QED BY <2>2, <3>1, <4>2 DEF AccountInv
    <3> QED BY <2>3, <2>5, <3>1 DEF Receive
  <2>6. ASSUME NEW r \in Req, PlanRead(r)
        PROVE  AccountInv'
    <3>1. ASSUME NEW q \in Req, op'[q] \in Decision,
                 pc'[q] \in {"findOpen", "updateApproval", "insertAudit", "updatePlan", "commit"}
          PROVE  target'[q] \in Submitted'
      <4>1. op[q] = op'[q] /\ target[q] = target'[q]
        BY <2>6 DEF PlanRead
      <4>2. CASE q # r
        <5>1. pc[q] = pc'[q]
          BY <2>6, <4>2 DEF PlanRead, TypeOK
        <5> QED BY <2>2, <3>1, <4>1, <5>1 DEF AccountInv
      <4>3. CASE q = r
        <5>1. status[target[r]] = "PROPOSED" /\ target[r] \in Plan
          BY <2>6, <3>1, <4>1, <4>3 DEF PlanRead, TypeOK, ConcurrentInv, RequestInv,
             canTransition, PLAN_TRANSITIONS, To, Op, Decision, Status
        <5> QED BY <2>2, <4>1, <4>3, <5>1 DEF AccountInv
      <4> QED BY <4>2, <4>3
    <3> QED BY <2>3, <2>6, <3>1 DEF PlanRead
  <2>7. ASSUME NEW r \in Req, PlanMissing(r) \/ TransitionRefused(r)
                              \/ Abort(r) \/ Respond(r) \/ LoseAnswer(r)
        PROVE  AccountInv'
    BY <2>4, <2>7 DEF PlanMissing, TransitionRefused, Abort, Respond, LoseAnswer, TypeOK
  <2>8. ASSUME NEW r \in Req, OpenApproval(r)
        PROVE  AccountInv'
    BY <2>4, <2>8 DEF OpenApproval, TypeOK, ConcurrentInv, RequestInv, Decision
  <2>9. ASSUME NEW r \in Req,
               FindOpen(r) \/ UpdateApproval(r) \/ InsertAudit(r) \/ UpdatePlan(r)
        PROVE  AccountInv'
    BY <2>4, <2>9 DEF FindOpen, UpdateApproval, InsertAudit, UpdatePlan, TypeOK
  <2>10. ASSUME NEW r \in Req, Commit(r)
         PROVE  AccountInv'
    BY <2>1, <2>10, CommitAccounted
  <2>11. CASE UNCHANGED vars
    BY <2>2, <2>3, <2>11 DEF vars, AccountInv
  <2> QED BY <2>5, <2>6, <2>7, <2>8, <2>9, <2>10, <2>11 DEF Next, Step
<1> QED BY <1>1, <1>2, TypeCorrect, ConcurrentInvInvariant, AuditInvInvariant, PTL DEF Spec

\* Nobody decides what was never submitted, whatever overlaps or fails.
THEOREM Accountable == Spec => []DecisionIsAccountable
<1>1. TypeOK /\ ConcurrentInv /\ AuditInv /\ AccountInv => DecisionIsAccountable
  <2> SUFFICES ASSUME TypeOK, ConcurrentInv, AuditInv, AccountInv
               PROVE  DecisionIsAccountable
    OBVIOUS
  <2>1. \A a \in Req : approval[a] \in {"APPROVED", "REJECTED"} => a \in audit /\ op[a] = "submit"
    BY DEF ConcurrentInv, ApprovalInv, AuditInv
  <2> QED BY <2>1 DEF AccountInv, Submitted, Moved, DecisionIsAccountable
<1> QED BY <1>1, TypeCorrect, ConcurrentInvInvariant, AuditInvInvariant, AccountInvInvariant, PTL

-----------------------------------------------------------------------------
\* A plan's row is made by one createPlan, overlapping requests or not.
LEMMA CreateInvInvariant == Spec => []CreateInv
<1>1. Init => CreateInv
  BY DEF Init, CreateInv
<1>2. TypeOK /\ ConcurrentInv /\ CreateInv /\ [Next]_vars => CreateInv'
  <2> SUFFICES ASSUME TypeOK, ConcurrentInv, CreateInv, [Next]_vars
               PROVE  CreateInv'
    OBVIOUS
  <2> USE DEF TypeOK, Goto, RowsUnchanged, RequestUnchanged, CreateInv,
              Created, Running, InTransaction, Done
  <2>1. ASSUME NEW r \in Req, NEW o \in Op, NEW p \in Plan, Receive(r, o, p)
        PROVE  CreateInv'
    BY <2>1 DEF Receive
  <2>2. ASSUME NEW r \in Req, PlanMissing(r) \/ TransitionRefused(r) \/ PlanRead(r)
        PROVE  CreateInv'
    BY <2>2 DEF PlanMissing, TransitionRefused, PlanRead
  <2>3. ASSUME NEW r \in Req, OpenApproval(r) \/ FindOpen(r) \/ UpdateApproval(r)
        PROVE  CreateInv'
    BY <2>3 DEF OpenApproval, FindOpen, UpdateApproval
  <2>4. ASSUME NEW r \in Req, InsertAudit(r) \/ UpdatePlan(r) \/ Abort(r)
        PROVE  CreateInv'
    BY <2>4 DEF InsertAudit, UpdatePlan, Abort
  <2>4a. ASSUME NEW r \in Req, Respond(r) \/ LoseAnswer(r)
         PROVE  CreateInv'
    BY <2>4a DEF Respond, LoseAnswer
  <2>5. ASSUME NEW r \in Req, Commit(r)
        PROVE  CreateInv'
    <3>1. /\ pc[r] = "commit" /\ pc' = [pc EXCEPT ![r] = "committed"]
          /\ op' = op /\ target' = target
      BY <2>5 DEF Commit
    <3>2. ASSUME NEW p \in Plan, status'[p] # "NONE"
          PROVE  Created(p)'
      <4>1. CASE status[p] # "NONE"
        BY <3>1, <4>1
      <4>2. CASE status[p] = "NONE"
        \* Only a createPlan can have made the row: any other request has
        \* read it, and a row is never removed.
        <5>1. target[r] = p /\ op[r] # "addRecommendation"
          BY <2>5, <3>2, <4>2 DEF Commit
        <5>2. CASE op[r] = "createPlan"
          BY <3>1, <5>1, <5>2
        <5>3. CASE op[r] # "createPlan"
          BY <5>1, <5>3, <4>2, <3>1
        <5> QED BY <5>2, <5>3
      <4> QED BY <4>1, <4>2
    <3>3. \A p \in Plan : status[p] # "NONE" => status'[p] # "NONE"
      BY <2>5 DEF Commit, To, Op
    <3>4. /\ op[r] = "createPlan" => target[r] \in Plan
          /\ \A q \in Req : pc[q] # "idle" => target[q] \in Plan
      BY <3>1 DEF ConcurrentInv, RequestInv
    <3>5. ASSUME NEW q \in Req, pc'[q] \in Running \ {"read"}, op'[q] # "createPlan"
          PROVE  status'[target'[q]] # "NONE"
      BY <3>1, <3>3, <3>4, <3>5
    <3>6. ASSUME NEW q \in Req, NEW s \in Req,
                 op'[q] = "createPlan", pc'[q] # "idle",
                 op'[s] = "createPlan", pc'[s] # "idle", target'[q] = target'[s]
          PROVE  q = s
      BY <3>1, <3>6
    <3> QED BY <3>2, <3>5, <3>6
  <2>6. CASE UNCHANGED vars
    BY <2>6 DEF vars
  <2> QED BY <2>1, <2>2, <2>3, <2>4, <2>4a, <2>5, <2>6 DEF Next, Step
<1> QED BY <1>1, <1>2, TypeCorrect, ConcurrentInvInvariant, PTL DEF Spec

-----------------------------------------------------------------------------
(***************************************************************************)
(* What the audit log tells.                                               *)
(***************************************************************************)
RecordedOn(r, a) == decider[a] = r /\ approval[a] = To[op[r]] /\ target[a] = target[r]

\* An audited decision is recorded on an approval of its plan, or another
\* decision on that plan is audited too.
LostOnlyToARival ==
  \A r \in audit : op[r] \in Decision => HasRival(r) \/ \E a \in Req : RecordedOn(r, a)

\* A decision finds no approval only when a rival took it: the submit that
\* proposed the plan left one.
RivalInv ==
  /\ LostOnlyToARival
  /\ \A s \in audit : op[s] = "submit" => approval[s] # "NONE"
  /\ \A r \in Req : op[r] \in Decision /\ pc[r] \in {"insertAudit", "updatePlan", "commit"}
                  /\ open[r] = None => HasRival(r)

\* A rival stays one, whatever step comes next.
LEMMA RivalStays ==
  ASSUME TypeOK, AuditInv, [Next]_vars, NEW r \in Req, HasRival(r), target'[r] = target[r]
  PROVE  HasRival(r)'
BY EvidenceStays DEF HasRival

\* A decision that finds no pending approval has a rival.
LEMMA NoneFound ==
  ASSUME TypeOK, ConcurrentInv, AuditInv, AccountInv, RivalInv, NEW r \in Req,
         pc[r] = "findOpen", PendingApprovals(target[r]) = {}
  PROVE  HasRival(r)
<1>1. op[r] \in Decision /\ r \notin audit
  BY DEF ConcurrentInv, RequestInv, AuditInv, Done
<1>2. target[r] \in Submitted
  BY <1>1 DEF AccountInv
<1>3. PICK s \in audit : op[s] = "submit" /\ target[s] = target[r]
  BY <1>2 DEF Submitted
<1>4. s \in Req /\ approval[s] \in {"APPROVED", "REJECTED"}
  BY <1>3 DEF TypeOK, RivalInv, PendingApprovals
<1>5. decider[s] \in audit /\ To[op[decider[s]]] = approval[s] /\ target[decider[s]] = target[s]
  BY <1>4 DEF AccountInv
<1>6. op[decider[s]] \in Decision
  BY <1>4, <1>5 DEF TypeOK, To, Op, Decision
<1> QED BY <1>1, <1>3, <1>5, <1>6 DEF HasRival

\* The commit of a request r: it is recorded on what it found, and a decision
\* it overrules gets a rival.
LEMMA CommitRival ==
  ASSUME TypeOK, ConcurrentInv, AuditInv, RivalInv, [Next]_vars, NEW r \in Req, Commit(r)
  PROVE  RivalInv'
<1> USE NoneAssumption DEF Done
<1>1. /\ pc[r] = "commit" /\ pc' = [pc EXCEPT ![r] = "committed"] /\ audit' = audit \union {r}
      /\ UNCHANGED <<op, target, open>> /\ op[r] \in Op /\ r \notin audit
      /\ approval' = ApprovalAfter(r) /\ decider' = DeciderAfter(r)
  BY DEF Commit, Goto, RequestUnchanged, TypeOK, AuditInv, ConcurrentInv, RequestInv, Done
<1>2. ASSUME NEW q \in Req, HasRival(q)
      PROVE  HasRival(q)'
  BY <1>1, <1>2, RivalStays
<1>3. \A a \in Req : approval'[a] =
        IF op[r] = "submit" /\ a = r THEN "PENDING"
        ELSE IF op[r] \in Decision /\ a = open[r] THEN To[op[r]] ELSE approval[a]
  BY <1>1 DEF ApprovalAfter, Decision
<1>4. \A a \in Req : decider'[a] = IF op[r] \in Decision /\ a = open[r] THEN r ELSE decider[a]
  BY <1>1 DEF DeciderAfter
<1>5. ASSUME NEW q \in audit', op'[q] \in Decision
      PROVE  HasRival(q)' \/ \E a \in Req : RecordedOn(q, a)'
  <2>1. CASE q = r /\ open[r] = None
    <3>1. HasRival(r)
      BY <1>1, <1>5, <2>1 DEF RivalInv
    <3> QED BY <1>2, <2>1, <3>1
  <2>2. CASE q = r /\ open[r] # None
    <3>1. open[r] \in Req /\ target[open[r]] = target[r] /\ op[r] # "submit"
      BY <1>1, <1>5, <2>2 DEF TypeOK, ConcurrentInv, OpenInv, Decision
    <3>2. RecordedOn(r, open[r])'
      BY <1>1, <1>3, <1>4, <1>5, <2>2, <3>1 DEF RecordedOn
    <3>3. \E a \in Req : RecordedOn(r, a)'
      BY <1>1, <3>1, <3>2
    <3> QED BY <2>2, <3>3 DEF RecordedOn
  <2>3. CASE q # r
    <3>1. q \in audit /\ q \in Req /\ op[q] \in Decision
      BY <1>1, <1>5, <2>3 DEF TypeOK
    <3>2. CASE HasRival(q)
      BY <1>2, <3>1, <3>2
    <3>3. CASE \E a \in Req : RecordedOn(q, a)
      <4>1. PICK a \in Req : decider[a] = q /\ approval[a] = To[op[q]] /\ target[a] = target[q]
        BY <3>3 DEF RecordedOn
      <4>2. CASE op[r] \in Decision /\ a = open[r]
        <5>1. target[r] = target[q]
          BY <4>1, <4>2 DEF ConcurrentInv, OpenInv
        <5> QED BY <1>1, <2>3, <4>2, <5>1 DEF HasRival
      <4>3. CASE ~(op[r] \in Decision /\ a = open[r])
        <5>1. a # r
          <6>1. approval[a] # "NONE"
            BY <3>1, <4>1 DEF To, Op, Decision
          <6> QED BY <1>1, <6>1 DEF ConcurrentInv, ApprovalInv, Done
        <5>2. RecordedOn(q, a)'
          BY <1>1, <1>3, <1>4, <4>1, <4>3, <5>1 DEF RecordedOn
        <5> QED BY <5>2
      <4> QED BY <4>2, <4>3
    <3> QED BY <3>1, <3>2, <3>3 DEF RivalInv, LostOnlyToARival
  <2> QED BY <2>1, <2>2, <2>3
<1>6. ASSUME NEW s \in audit', op'[s] = "submit"
      PROVE  approval'[s] # "NONE"
  <2>1. s \in Req /\ (s = r \/ s \in audit)
    BY <1>1 DEF TypeOK
  <2>2. op[r] \in Decision => To[op[r]] # "NONE"
    BY DEF To, Op, Decision
  <2>3. s = r \/ approval[s] # "NONE"
    BY <1>1, <1>6, <2>1 DEF RivalInv
  <2> QED BY <1>1, <1>3, <1>6, <2>1, <2>2, <2>3
<1>7. ASSUME NEW q \in Req, op'[q] \in Decision, pc'[q] \in {"insertAudit", "updatePlan", "commit"},
             open'[q] = None
      PROVE  HasRival(q)'
  <2>1. q # r /\ pc[q] = pc'[q] /\ op[q] = op'[q] /\ open[q] = open'[q]
    BY <1>1, <1>7 DEF TypeOK
  <2> QED BY <1>2, <1>7, <2>1 DEF RivalInv
<1> QED BY <1>5, <1>6, <1>7 DEF RivalInv, LostOnlyToARival

LEMMA RivalInvInvariant == Spec => []RivalInv
<1>1. Init => RivalInv
  BY DEF Init, RivalInv, LostOnlyToARival
<1>2. TypeOK /\ ConcurrentInv /\ AuditInv /\ AccountInv /\ RivalInv /\ [Next]_vars => RivalInv'
  <2> SUFFICES ASSUME TypeOK, ConcurrentInv, AuditInv, AccountInv, RivalInv, [Next]_vars
               PROVE  RivalInv'
    OBVIOUS
  \* A step that is no commit leaves what is recorded, and the rivals.
  <2>1. ASSUME UNCHANGED <<audit, approval, decider>>,
               \A q \in Req : \/ pc'[q] = "idle"
                              \/ op'[q] \notin Decision
                              \/ pc'[q] \notin {"insertAudit", "updatePlan", "commit"}
                              \/ open'[q] # None
                              \/ HasRival(q) /\ target'[q] = target[q]
        PROVE  RivalInv'
    <3>1. \A s \in audit : op'[s] = op[s] /\ target'[s] = target[s] /\ s \in Req
      BY EvidenceStays DEF TypeOK
    <3>2. ASSUME NEW q \in audit, op[q] \in Decision
          PROVE  HasRival(q)' \/ \E a \in Req : RecordedOn(q, a)'
      <4>1. CASE HasRival(q)
        BY <3>1, <4>1, RivalStays
      <4>2. CASE \E a \in Req : RecordedOn(q, a)
        <5>1. PICK a \in Req : RecordedOn(q, a)
          BY <4>2
        <5>2. approval[a] # "NONE"
          BY <3>2, <5>1 DEF RecordedOn, To, Op, Decision
        <5>3. a \in audit
          BY <5>2 DEF ConcurrentInv, ApprovalInv, AuditInv
        <5> QED BY <2>1, <3>1, <5>1, <5>3 DEF RecordedOn
      <4> QED BY <3>2, <4>1, <4>2 DEF RivalInv, LostOnlyToARival
    <3>3. ASSUME NEW q \in Req, op'[q] \in Decision, pc'[q] \in {"insertAudit", "updatePlan", "commit"},
                 open'[q] = None
          PROVE  HasRival(q)'
      BY <2>1, <3>3, RivalStays
    <3> QED BY <2>1, <3>1, <3>2, <3>3 DEF RivalInv, LostOnlyToARival
  \* What a request that is not past its search does not change.
  <2>2. ASSUME NEW r \in Req, UNCHANGED <<audit, approval, decider>>,
               \A q \in Req \ {r} : /\ pc'[q] = pc[q] /\ op'[q] = op[q]
                                    /\ open'[q] = open[q] /\ target'[q] = target[q],
               \/ op'[r] \notin Decision
               \/ pc'[r] \notin {"insertAudit", "updatePlan", "commit"}
               \/ open'[r] # None
               \/ HasRival(r) /\ target'[r] = target[r]
        PROVE  RivalInv'
    BY <2>1, <2>2 DEF RivalInv
  <2> USE NoneAssumption DEF TypeOK, RowsUnchanged, RequestUnchanged, Goto
  <2>3. ASSUME NEW r \in Req, NEW o \in Op, NEW p \in Plan, Receive(r, o, p)
        PROVE  RivalInv'
    BY <2>2, <2>3 DEF Receive, Decision
  <2>4. ASSUME NEW r \in Req, PlanMissing(r) \/ TransitionRefused(r) \/ PlanRead(r)
        PROVE  RivalInv'
    BY <2>2, <2>4 DEF PlanMissing, TransitionRefused, PlanRead, Decision
  <2>5. ASSUME NEW r \in Req, OpenApproval(r)
        PROVE  RivalInv'
    BY <2>2, <2>5 DEF OpenApproval, ConcurrentInv, RequestInv, Decision
  <2>6. ASSUME NEW r \in Req, FindOpen(r)
        PROVE  RivalInv'
    <3>1. CASE PendingApprovals(target[r]) = {} /\ UNCHANGED open
      BY <2>2, <2>6, <3>1, NoneFound DEF FindOpen
    <3>2. CASE \E a \in PendingApprovals(target[r]) : open' = [open EXCEPT ![r] = a]
      <4>1. open'[r] # None
        BY <3>2 DEF PendingApprovals
      <4> QED BY <2>2, <2>6, <3>2, <4>1 DEF FindOpen
    <3> QED BY <2>6, <3>1, <3>2 DEF FindOpen
  <2>7. ASSUME NEW r \in Req, UpdateApproval(r)
        PROVE  RivalInv'
    BY <2>2, <2>7 DEF UpdateApproval, ConcurrentInv, RequestInv
  <2>8. ASSUME NEW r \in Req, UpdatePlan(r)
        PROVE  RivalInv'
    BY <2>2, <2>8 DEF UpdatePlan, RivalInv
  <2>8a. ASSUME NEW r \in Req, InsertAudit(r)
         PROVE  RivalInv'
    BY <2>2, <2>8a DEF InsertAudit, RivalInv
  <2>9. ASSUME NEW r \in Req, Commit(r)
        PROVE  RivalInv'
    BY <2>9, CommitRival
  <2>10. ASSUME NEW r \in Req, Abort(r) \/ Respond(r) \/ LoseAnswer(r)
        PROVE  RivalInv'
    BY <2>2, <2>10 DEF Abort, Respond, LoseAnswer
  <2>11. CASE UNCHANGED vars
    BY <2>11 DEF vars, RivalInv, LostOnlyToARival, HasRival, RecordedOn
  <2> QED BY <2>3, <2>4, <2>5, <2>6, <2>7, <2>8, <2>8a, <2>9, <2>10, <2>11 DEF Next, Step
<1> QED BY <1>1, <1>2, TypeCorrect, ConcurrentInvInvariant, AuditInvInvariant, AccountInvInvariant,
           PTL DEF Spec

\* A recommendation appears with its audit row, and what was audited keeps its
\* plan.
RowsInv ==
  /\ \A p \in Plan : recs[p] = {r \in audit : op[r] = "addRecommendation" /\ target[r] = p}
  /\ \A r \in audit : target[r] \in Plan /\ status[target[r]] # "NONE"

LEMMA RowsInvInvariant == Spec => []RowsInv
<1>1. Init => RowsInv
  BY DEF Init, RowsInv
<1>2. TypeOK /\ ConcurrentInv /\ CreateInv /\ AuditInv /\ RowsInv /\ [Next]_vars => RowsInv'
  <2> SUFFICES ASSUME TypeOK, ConcurrentInv, CreateInv, AuditInv, RowsInv, [Next]_vars
               PROVE  RowsInv'
    OBVIOUS
  <2>1. \A s \in audit : s \in audit' /\ op'[s] = op[s] /\ target'[s] = target[s]
    BY EvidenceStays
  <2>2. ASSUME UNCHANGED <<audit, recs, status>>
        PROVE  RowsInv'
    BY <2>1, <2>2 DEF RowsInv
  <2> USE DEF RowsUnchanged, RequestUnchanged
  <2>3. ASSUME NEW r \in Req, NEW o \in Op, NEW p \in Plan, Receive(r, o, p)
        PROVE  RowsInv'
    BY <2>2, <2>3 DEF Receive
  <2>4. ASSUME NEW r \in Req, Step(r) \/ Abort(r) \/ LoseAnswer(r), ~ Commit(r)
        PROVE  RowsInv'
    BY <2>2, <2>4 DEF Step, PlanMissing, TransitionRefused, PlanRead, OpenApproval,
       FindOpen, UpdateApproval, InsertAudit, UpdatePlan, Respond, Abort, LoseAnswer
  <2>5. ASSUME NEW r \in Req, Commit(r)
        PROVE  RowsInv'
    <3>1. /\ pc[r] = "commit" /\ r \in written /\ target[r] \in Plan /\ op[r] \in Op
          /\ audit' = audit \union {r} /\ UNCHANGED <<op, target>>
      BY <2>5 DEF Commit, ConcurrentInv, RequestInv, TypeOK
    <3>2. \A p \in Plan : status[p] # "NONE" => status'[p] # "NONE"
      BY <2>5, <3>1 DEF Commit, TypeOK, To, Op
    <3>3. status'[target[r]] # "NONE"
      <4>1. CASE op[r] = "createPlan"
        BY <2>5, <3>1, <4>1 DEF Commit, TypeOK, To, Op
      <4>2. CASE op[r] # "createPlan"
        BY <3>1, <3>2, <4>2 DEF CreateInv, Running, InTransaction
      <4> QED BY <4>1, <4>2
    <3>4. \A s \in audit' : target'[s] \in Plan /\ status'[target'[s]] # "NONE"
      BY <3>1, <3>2, <3>3 DEF RowsInv
    <3>5. ASSUME NEW p \in Plan
          PROVE  recs'[p] = {s \in audit' : op'[s] = "addRecommendation" /\ target'[s] = p}
      <4>1. CASE op[r] = "addRecommendation" /\ p = target[r]
        BY <2>5, <3>1, <4>1 DEF Commit, RowsInv, TypeOK
      <4>2. CASE ~ (op[r] = "addRecommendation" /\ p = target[r])
        <5>1. recs'[p] = recs[p]
          BY <2>5, <4>2 DEF Commit, TypeOK
        <5> QED BY <3>1, <4>2, <5>1 DEF RowsInv
      <4> QED BY <4>1, <4>2
    <3> QED BY <3>4, <3>5 DEF RowsInv
  <2>6. CASE UNCHANGED vars
    BY <2>2, <2>6 DEF vars
  <2> QED BY <2>3, <2>4, <2>5, <2>6 DEF Next
<1> QED BY <1>1, <1>2, TypeCorrect, ConcurrentInvInvariant, CreateInvInvariant, AuditInvInvariant,
           PTL DEF Spec

\* Whatever overlaps, fails or is answered to nobody, the audit log tells what
\* happened: its INSERT (plans.service.ts:24) shares the transaction of what it
\* records. Of a decision that was overtaken it tells that there were two.
THEOREM AuditExact == Spec => []AuditIsExact
<1>1. ConcurrentInv /\ AuditInv /\ AccountInv /\ RivalInv /\ RowsInv => AuditIsExact
  <2> SUFFICES ASSUME ConcurrentInv, AuditInv, AccountInv, RivalInv, RowsInv
               PROVE  AuditIsExact
    OBVIOUS
  <2>1. \A r \in Req : pc[r] = "ok" => r \in audit
    BY DEF AuditInv, Done
  <2>2. \A p \in Plan : status[p] # "NONE" =>
          \E r \in audit : target[r] = p /\ To[op[r]] = status[p]
    BY DEF AccountInv, Moved
  <2>3. \A a \in Req : approval[a] # "NONE" <=> a \in audit /\ op[a] = "submit"
    BY DEF ConcurrentInv, ApprovalInv, AuditInv, RivalInv
  <2>4. \A r \in audit : op[r] \in Decision => RecordedOnApproval(r) \/ HasRival(r)
    BY DEF RivalInv, LostOnlyToARival, RecordedOn, RecordedOnApproval
  <2> QED BY <2>1, <2>2, <2>3, <2>4 DEF AuditIsExact, RowsInv
<1> QED BY <1>1, ConcurrentInvInvariant, AuditInvInvariant, AccountInvInvariant,
           RivalInvInvariant, RowsInvInvariant, PTL

-----------------------------------------------------------------------------
(***************************************************************************)
(* Requests that do not overlap: the handlers implement the workflow of    *)
(* PlanLifecycle, one step for each operation.                             *)
(***************************************************************************)

-----------------------------------------------------------------------------
\* What PLAN_TRANSITIONS says of the states a plan may be in.
LEMMA TransitionTable ==
  ASSUME NEW s \in Status \ {"NONE"}
  PROVE  /\ canTransition(s, "PROPOSED") <=> s \in {"DRAFT", "REJECTED"}
         /\ canTransition(s, "APPROVED") <=> s = "PROPOSED"
         /\ canTransition(s, "REJECTED") <=> s = "PROPOSED"
BY DEF canTransition, PLAN_TRANSITIONS, Status

\* One request at a time: what it read is still so when it writes.
LEMMA SerialInvInvariant ==
  ASSUME Overlap = FALSE
  PROVE  Spec => []SerialInv
<1> USE NoneAssumption DEF Done
<1>1. Init => SerialInv
  BY DEF Init, SerialInv, StillSo, OneOpenApproval, PendingApprovals, Running, InTransaction
<1>2. /\ TypeOK /\ ConcurrentInv /\ CreateInv /\ ProposedHasOpenApproval
      /\ SerialInv /\ [Next]_vars
      => SerialInv'
  <2> SUFFICES ASSUME TypeOK, ConcurrentInv, CreateInv, ProposedHasOpenApproval,
                      SerialInv, [Next]_vars
               PROVE  SerialInv'
    OBVIOUS
  <2>0. /\ \A q, r \in Req : pc[q] \in Running /\ pc[r] \in Running => q = r
        /\ \A a \in Req : approval[a] = "PENDING" => status[target[a]] = "PROPOSED"
        /\ \A r \in Req : StillSo(r)
        /\ \A a, b \in Req : approval[a] = "PENDING" /\ approval[b] = "PENDING"
                             /\ target[a] = target[b] => a = b
        /\ \A r \in Req : RequestInv(r) /\ ApprovalInv(r) /\ OpenInv(r)
    <3>1. ASSUME NEW a \in Req, NEW b \in Req, approval[a] = "PENDING",
                 approval[b] = "PENDING", target[a] = target[b]
          PROVE  a = b
      BY <3>1 DEF SerialInv, OneOpenApproval, PendingApprovals, ConcurrentInv,
         ApprovalInv, RequestInv
    <3> QED BY <3>1 DEF SerialInv, ConcurrentInv
  <2>s. /\ \A q, r \in Req : pc'[q] \in Running /\ pc'[r] \in Running => q = r
        /\ \A a \in Req : approval'[a] = "PENDING" => status'[target'[a]] = "PROPOSED"
        /\ \A r \in Req : StillSo(r)'
        /\ \A a, b \in Req : approval'[a] = "PENDING" /\ approval'[b] = "PENDING"
                             /\ target'[a] = target'[b] => a = b
        => SerialInv'
    BY DEF SerialInv, OneOpenApproval, PendingApprovals
  <2> USE DEF TypeOK, Goto, RowsUnchanged, RequestUnchanged, RequestInv, ApprovalInv,
              OpenInv, StillSo, Running, InTransaction, Done
  <2>1. ASSUME NEW r \in Req, NEW o \in Op, NEW p \in Plan, Receive(r, o, p)
        PROVE  SerialInv'
    <3>1. \A q \in Req : pc[q] \notin Running
      BY <2>1 DEF Receive
    <3>2. \A q \in Req : pc'[q] \in Running => q = r
      BY <2>1, <3>1 DEF Receive
    <3>3. \A a \in Req : approval[a] = "PENDING" => target'[a] = target[a]
      BY <2>0, <2>1 DEF Receive
    <3>4. StillSo(r)'
      <4>1. pc'[r] = "read" \/ (pc'[r] = "insertAudit" /\ op'[r] = "createPlan")
        BY <2>1 DEF Receive
      <4>2. op'[r] = "createPlan" => op'[r] # "submit" /\ op'[r] \notin Decision
        BY DEF Decision
      <4> QED BY <4>1, <4>2
    <3>5. ASSUME NEW q \in Req, q # r
          PROVE  StillSo(q)'
      BY <3>2, <3>5
    <3>6. approval' = approval /\ status' = status
      BY <2>1 DEF Receive
    <3> QED BY <2>0, <2>s, <3>2, <3>3, <3>4, <3>5, <3>6
  <2>2. ASSUME NEW r \in Req, PlanMissing(r) \/ TransitionRefused(r)
        PROVE  SerialInv'
    BY <2>0, <2>2, <2>s DEF PlanMissing, TransitionRefused
  <2>3. ASSUME NEW r \in Req, PlanRead(r)
        PROVE  SerialInv'
    <3>1. /\ op[r] = "submit" /\ pc'[r] = "openApproval" =>
               status[target[r]] \in {"DRAFT", "REJECTED"}
          /\ op[r] \in Decision /\ pc'[r] = "findOpen" => status[target[r]] = "PROPOSED"
      <4>1. target[r] \in Plan /\ status[target[r]] \in Status \ {"NONE"}
        BY <2>0, <2>3 DEF PlanRead
      <4>2. CASE op[r] = "submit"
        BY <2>3, <4>1, <4>2, TransitionTable DEF PlanRead, Decision
      <4>3. CASE op[r] \in Decision
        BY <2>3, <4>1, <4>3, TransitionTable DEF PlanRead, Decision, To, Op
      <4> QED BY <4>2, <4>3
    <3>2. /\ pc'[r] \in {"openApproval", "findOpen", "insertAudit"}
          /\ pc'[r] = "insertAudit" => op[r] = "addRecommendation"
          /\ pc'[r] = "openApproval" => op[r] = "submit"
          /\ \A q \in Req : q # r => pc'[q] = pc[q]
          /\ pc[r] = "read"
          /\ UNCHANGED <<status, approval, op, target, open>>
      <4>1. PICK l \in {"openApproval", "findOpen", "insertAudit"} :
              /\ Goto(r, l)
              /\ l = "insertAudit" => op[r] = "addRecommendation"
              /\ l = "openApproval" => op[r] = "submit"
        BY <2>3 DEF PlanRead
      <4> QED BY <2>3, <4>1 DEF PlanRead
    <3>3. StillSo(r)'
      BY <3>1, <3>2 DEF Decision, InTransaction
    <3>4. ASSUME NEW q \in Req, q # r
          PROVE  StillSo(q)'
      BY <2>0, <3>2, <3>4
    <3>5. \A q, t \in Req : pc'[q] \in Running /\ pc'[t] \in Running => q = t
      BY <2>0, <3>2
    <3> QED BY <2>0, <2>s, <3>2, <3>3, <3>4, <3>5
  <2>4. ASSUME NEW r \in Req, OpenApproval(r)
        PROVE  SerialInv'
    BY <2>0, <2>4, <2>s DEF OpenApproval, Decision
  <2>5. ASSUME NEW r \in Req, FindOpen(r)
        PROVE  SerialInv'
    \* The plan is still PROPOSED, so there is an approval to be found.
    <3>1. /\ pc[r] = "findOpen" /\ op[r] \in Decision /\ target[r] \in Plan
          /\ status[target[r]] = "PROPOSED"
      BY <2>0, <2>5 DEF FindOpen
    <3>2. PendingApprovals(target[r]) # {}
      BY <3>1 DEF ProposedHasOpenApproval
    <3>3. /\ pc' = [pc EXCEPT ![r] = "updateApproval"]
          /\ open'[r] \in Req /\ approval[open'[r]] = "PENDING"
          /\ \A q \in Req : q # r => open'[q] = open[q]
          /\ UNCHANGED <<status, approval, op, target>>
      BY <2>5, <3>2 DEF FindOpen, PendingApprovals
    <3>4. StillSo(r)'
      BY <3>1, <3>3 DEF Decision
    <3>5. ASSUME NEW q \in Req, q # r
          PROVE  StillSo(q)'
      BY <2>0, <3>3, <3>5
    <3>6. \A q, t \in Req : pc'[q] \in Running /\ pc'[t] \in Running => q = t
      BY <2>0, <3>1, <3>3
    <3> QED BY <2>0, <2>s, <3>3, <3>4, <3>5, <3>6
  <2>6. ASSUME NEW r \in Req, UpdateApproval(r)
        PROVE  SerialInv'
    BY <2>0, <2>6, <2>s DEF UpdateApproval, Decision
  <2>7. ASSUME NEW r \in Req, InsertAudit(r) \/ UpdatePlan(r) \/ Abort(r)
        PROVE  SerialInv'
    BY <2>0, <2>7, <2>s DEF InsertAudit, UpdatePlan, Abort, Decision
  <2>7a. ASSUME NEW r \in Req, Respond(r) \/ LoseAnswer(r)
         PROVE  SerialInv'
    BY <2>0, <2>7a, <2>s DEF Respond, LoseAnswer
  <2>8. ASSUME NEW r \in Req, Commit(r)
        PROVE  SerialInv'
    <3>1. /\ pc[r] = "commit" /\ pc' = [pc EXCEPT ![r] = "committed"]
          /\ op' = op /\ target' = target /\ open' = open
          /\ approval' = ApprovalAfter(r) /\ target[r] \in Plan
      BY <2>0, <2>8 DEF Commit
    <3>2. /\ \A q \in Req : pc'[q] \notin InTransaction
          /\ \A q, t \in Req : pc'[q] \in Running /\ pc'[t] \in Running => q = t
      BY <2>0, <3>1
    <3>3. ASSUME NEW a \in Req, approval'[a] = "PENDING"
          PROVE  \/ a = r /\ op[r] = "submit"
                 \/ approval[a] = "PENDING" /\ (op[r] \in Decision => a # open[r])
      BY <3>1, <3>3 DEF ApprovalAfter, To, Op, Decision
    <3>4. /\ op[r] = "submit" => status[target[r]] \in {"DRAFT", "REJECTED"}
          /\ op[r] \in Decision =>
               /\ status[target[r]] = "PROPOSED" /\ open[r] \in Req
               /\ approval[open[r]] = "PENDING" /\ target[open[r]] = target[r]
      BY <2>0, <3>1
    <3>5. ASSUME NEW a \in Req, approval'[a] = "PENDING"
          PROVE  status'[target'[a]] = "PROPOSED"
      <4>1. CASE a = r /\ op[r] = "submit"
        BY <2>8, <3>1, <4>1 DEF Commit, To, Op
      <4>2. CASE approval[a] = "PENDING" /\ (op[r] \in Decision => a # open[r])
        \* a is another plan's, unless the request does not write the status.
        <5>1. /\ status[target[a]] = "PROPOSED" /\ pc[a] \in Done
              /\ target[a] \in Plan
          BY <2>0, <4>2
        <5>2. op[r] \in Decision => target[a] # target[r]
          BY <2>0, <3>4, <4>2
        <5>3. op[r] = "submit" => target[a] # target[r]
          BY <3>4, <5>1
        <5>4. CASE target[a] # target[r]
          BY <2>8, <3>1, <5>1, <5>4 DEF Commit
        <5>5. CASE op[r] = "addRecommendation"
          BY <2>8, <3>1, <5>1, <5>5 DEF Commit
        <5>6. CASE op[r] = "createPlan"
          \* The id is new: a plan with that id would be another createPlan's.
          BY <3>1, <5>1, <5>6, <5>4 DEF CreateInv, Created
        <5> QED BY <5>2, <5>3, <5>4, <5>5, <5>6 DEF Op, Decision
      <4> QED BY <3>3, <3>5, <4>1, <4>2
    <3>6. ASSUME NEW a \in Req, NEW b \in Req, approval'[a] = "PENDING",
                 approval'[b] = "PENDING", target'[a] = target'[b]
          PROVE  a = b
      BY <2>0, <3>1, <3>3, <3>4, <3>6
    <3> QED BY <2>s, <3>2, <3>5, <3>6
  <2>9. CASE UNCHANGED vars
    BY <2>0, <2>9, <2>s DEF vars
  <2> QED BY <2>1, <2>2, <2>3, <2>4, <2>5, <2>6, <2>7, <2>7a, <2>8, <2>9 DEF Next, Step
<1> QED BY <1>1, <1>2, TypeCorrect, ConcurrentInvInvariant, CreateInvInvariant,
          ProposedCanBeDecided, PTL DEF Spec

\* A plan has at most one approval waiting when requests do not overlap.
THEOREM SerialOneOpenApproval ==
  ASSUME Overlap = FALSE
  PROVE  Spec => []OneOpenApproval
<1>1. SerialInv => OneOpenApproval
  BY DEF SerialInv
<1> QED BY <1>1, SerialInvInvariant, PTL

\* And a decision that succeeds is recorded on the approval it decided: what
\* it found PENDING still is when it commits.
THEOREM SerialDecisionRecorded ==
  ASSUME Overlap = FALSE
  PROVE  Spec => []DecisionIsRecorded
<1> USE NoneAssumption DEF Done
<1>1. Init => DecisionIsRecorded
  BY DEF Init, DecisionIsRecorded
<1>2. TypeOK /\ ConcurrentInv /\ SerialInv /\ DecisionIsRecorded /\ [Next]_vars
      => DecisionIsRecorded'
  <2> SUFFICES ASSUME TypeOK, ConcurrentInv, SerialInv, DecisionIsRecorded, [Next]_vars,
                      NEW q \in Req, pc'[q] \in Done, op'[q] \in Decision
               PROVE  \E a \in Req : /\ decider'[a] = q /\ approval'[a] = To[op'[q]]
                                     /\ target'[a] = target'[q]
    BY DEF DecisionIsRecorded, RecordedOnApproval
  <2> DEFINE Recorded == \E a \in Req : /\ decider'[a] = q /\ approval'[a] = To[op'[q]]
                                        /\ target'[a] = target'[q]
  <2> USE DEF TypeOK, Goto, RowsUnchanged, RequestUnchanged
  <2>1. ASSUME pc[q] \in Done, op'[q] = op[q]
        PROVE  \E a \in Req : /\ decider[a] = q /\ approval[a] = To[op[q]]
                              /\ target[a] = target[q] /\ pc[a] \in Done
                              /\ approval[a] # "PENDING" /\ op[a] = "submit"
    <3>1. PICK a \in Req : decider[a] = q /\ approval[a] = To[op[q]] /\ target[a] = target[q]
      BY <2>1 DEF DecisionIsRecorded, RecordedOnApproval
    <3>2. approval[a] \in {"APPROVED", "REJECTED"}
      BY <2>1, <3>1 DEF Decision, To, Op
    <3> QED BY <3>1, <3>2 DEF ConcurrentInv, ApprovalInv
  \* A step that is no commit writes no row and answers no request with success.
  <2>2. ASSUME UNCHANGED <<approval, decider>>, pc[q] \in Done,
               \A a \in Req : pc[a] \in Done => op'[a] = op[a] /\ target'[a] = target[a]
        PROVE  Recorded
    <3>1. PICK a \in Req : /\ decider[a] = q /\ approval[a] = To[op[q]]
                           /\ target[a] = target[q] /\ pc[a] \in Done
      BY <2>1, <2>2
    <3> QED BY <2>2, <3>1
  <2>3. ASSUME NEW r \in Req, NEW o \in Op, NEW p \in Plan, Receive(r, o, p)
        PROVE  Recorded
    <3>1. pc[r] = "idle" /\ pc'[r] \notin Done /\ \A a \in Req \ {r} : pc'[a] = pc[a]
      BY <2>3 DEF Receive
    <3>2. q # r /\ pc[q] \in Done
      BY <3>1
    <3> QED BY <2>2, <2>3, <3>1, <3>2 DEF Receive
  <2>4. ASSUME NEW r \in Req, Step(r) \/ Abort(r) \/ LoseAnswer(r), ~ Commit(r)
        PROVE  Recorded
    <3>1. \A a \in Req : pc'[a] \in Done => pc[a] \in Done
      BY <2>4 DEF Step, PlanMissing, TransitionRefused, PlanRead, OpenApproval, FindOpen,
                  UpdateApproval, InsertAudit, UpdatePlan, Respond, Abort, LoseAnswer
    <3>2. UNCHANGED <<approval, decider, op, target>>
      BY <2>4 DEF Step, PlanMissing, TransitionRefused, PlanRead, OpenApproval, FindOpen,
                  UpdateApproval, InsertAudit, UpdatePlan, Respond, Abort, LoseAnswer
    <3> QED BY <2>2, <3>1, <3>2
  <2>5. ASSUME NEW r \in Req, Commit(r)
        PROVE  Recorded
    <3>1. /\ pc[r] = "commit" /\ pc' = [pc EXCEPT ![r] = "committed"]
          /\ UNCHANGED <<op, target>>
          /\ approval' = ApprovalAfter(r) /\ decider' = DeciderAfter(r)
      BY <2>5 DEF Commit
    <3>2. op[r] \in Decision => /\ open[r] \in Req /\ approval[open[r]] = "PENDING"
                                /\ target[open[r]] = target[r] /\ op[r] # "submit"
      BY <3>1 DEF SerialInv, StillSo, ConcurrentInv, OpenInv, Decision, InTransaction
    <3>3. CASE q = r
      <4>1. decider'[open[r]] = r /\ approval'[open[r]] = To[op[r]]
        BY <3>1, <3>2, <3>3 DEF ApprovalAfter, DeciderAfter
      <4> QED BY <3>1, <3>2, <3>3, <4>1
    <3>4. CASE q # r
      <4>1. PICK a \in Req : /\ decider[a] = q /\ approval[a] = To[op[q]]
                             /\ target[a] = target[q] /\ pc[a] \in Done
                             /\ approval[a] # "PENDING"
        BY <2>1, <3>1, <3>4
      <4>2. a # r /\ (op[r] \in Decision => a # open[r])
        BY <3>1, <3>2, <4>1
      <4>3. decider'[a] = decider[a] /\ approval'[a] = approval[a]
        BY <3>1, <4>2 DEF ApprovalAfter, DeciderAfter
      <4> QED BY <3>1, <4>1, <4>3
    <3> QED BY <3>3, <3>4
  <2>6. CASE UNCHANGED vars
    BY <2>2, <2>6 DEF vars
  <2> QED BY <2>3, <2>4, <2>5, <2>6 DEF Next
<1> QED BY <1>1, <1>2, TypeCorrect, ConcurrentInvInvariant, SerialInvInvariant,
          PTL DEF Spec

-----------------------------------------------------------------------------
(***************************************************************************)
(* The refinement: COMMIT is the step of PlanLifecycle, everything before  *)
(* it is a stutter.                                                        *)
(***************************************************************************)
Awaiting == {p \in Plan : PendingApprovals(p) # {}}
Verdicts == [p \in Plan |-> {approval[a] : a \in {b \in Req :
               target[b] = p /\ approval[b] \in {"APPROVED", "REJECTED"}}}]

\* A step that leaves the plan and approval rows alone maps to a stutter.
LEMMA RowsKeptStutters ==
  ASSUME ConcurrentInv, UNCHANGED <<status, approval>>,
         \A a \in Req : approval[a] # "NONE" => target'[a] = target[a]
  PROVE  UNCHANGED <<status, Awaiting, Verdicts>>
<1>1. Awaiting' = Awaiting
  BY DEF Awaiting, PendingApprovals
<1>2. \A p \in Plan : {b \in Req : target'[b] = p /\ approval'[b] \in {"APPROVED", "REJECTED"}}
                     = {b \in Req : target[b] = p /\ approval[b] \in {"APPROVED", "REJECTED"}}
  OBVIOUS
<1>3. Verdicts' = Verdicts
  BY <1>2 DEF Verdicts
<1> QED BY <1>1, <1>3

\* The commit of each operation maps to that operation of PlanLifecycle.
LEMMA CommitImplements ==
  ASSUME TypeOK, ConcurrentInv, CreateInv, SerialInv, NEW r \in Req, Commit(r)
  PROVE  \/ UNCHANGED <<status, Awaiting, Verdicts>>
         \/ Lifecycle!Next
<1> DEFINE p == target[r]
<1>1. /\ pc[r] = "commit" /\ op[r] \in Op /\ p \in Plan
      /\ op' = op /\ target' = target /\ approval' = ApprovalAfter(r)
      /\ approval \in [Req -> {"NONE", "PENDING", "APPROVED", "REJECTED"}]
      /\ status \in [Plan -> Status]
  BY DEF Commit, RequestUnchanged, TypeOK, ConcurrentInv, RequestInv
<1>2. approval[r] = "NONE"
  BY <1>1 DEF ConcurrentInv, ApprovalInv, Done
<1>3. CASE op[r] = "addRecommendation"
  <2>1. approval' = approval /\ status' = status
    BY <1>1, <1>3 DEF Commit, ApprovalAfter, Decision
  <2> QED BY <1>1, <2>1, RowsKeptStutters
<1>4. CASE op[r] = "createPlan"
  <2>1. approval' = approval /\ status' = [status EXCEPT ![p] = "DRAFT"]
    BY <1>1, <1>4 DEF Commit, ApprovalAfter, Decision, To, Op
  <2>2. status[p] = "NONE"
    BY <1>1, <1>4 DEF CreateInv, Created, Done
  <2>3. Awaiting' = Awaiting /\ Verdicts' = Verdicts
    BY <1>1, <2>1 DEF Awaiting, Verdicts, PendingApprovals
  <2> QED BY <1>1, <2>1, <2>2, <2>3
      DEF Lifecycle!Next, Lifecycle!Create, Awaiting, Verdicts
<1>5. CASE op[r] = "submit"
  <2>1. status[p] \in {"DRAFT", "REJECTED"}
    BY <1>1, <1>5 DEF SerialInv, StillSo
  <2>2. status' = [status EXCEPT ![p] = "PROPOSED"]
    BY <1>1, <1>5 DEF Commit, To, Op
  <2>3. approval' = [approval EXCEPT ![r] = "PENDING"]
    BY <1>1, <1>5 DEF ApprovalAfter, Decision
  <2>4. Awaiting' = Awaiting \union {p}
    BY <1>1, <1>2, <2>3 DEF Awaiting, PendingApprovals
  <2>5. \A s \in Plan : {b \in Req : target'[b] = s /\ approval'[b] \in {"APPROVED", "REJECTED"}}
                     = {b \in Req : target[b] = s /\ approval[b] \in {"APPROVED", "REJECTED"}}
    BY <1>1, <1>2, <2>3
  <2>6. \A b \in Req : approval[b] \in {"APPROVED", "REJECTED"} => approval'[b] = approval[b]
    BY <1>1, <1>2, <2>3
  <2>7. Verdicts' = Verdicts
    BY <2>5, <2>6 DEF Verdicts
  <2>8. status[p] # "NONE" /\ Lifecycle!canTransition(status[p], "PROPOSED")
    BY <2>1 DEF Lifecycle!canTransition, Lifecycle!PLAN_TRANSITIONS
  <2> QED BY <1>1, <2>2, <2>4, <2>7, <2>8
      DEF Lifecycle!Next, Lifecycle!Submit, Awaiting, Verdicts
<1>6. CASE op[r] \in Decision
  <2> DEFINE a == open[r]
             to == To[op[r]]
  <2>1. /\ status[p] = "PROPOSED" /\ a \in Req /\ approval[a] = "PENDING"
        /\ target[a] = p /\ to \in {"APPROVED", "REJECTED"}
    <3>1. a \in Req /\ approval[a] = "PENDING" /\ status[p] = "PROPOSED"
      BY <1>1, <1>6 DEF SerialInv, StillSo, InTransaction
    <3>2. a # None
      BY <3>1, NoneAssumption
    <3> QED BY <3>1, <3>2, <1>1, <1>6 DEF ConcurrentInv, OpenInv, To, Op, Decision
  <2>2. status' = [status EXCEPT ![p] = to]
    BY <1>1, <1>6 DEF Commit, Decision
  <2>3. approval' = [approval EXCEPT ![a] = to]
    BY <1>1, <1>6, <2>1 DEF ApprovalAfter, Decision
  <2>4. \A b \in Req : approval[b] = "PENDING" /\ target[b] = p => b = a
    BY <2>1 DEF SerialInv, OneOpenApproval, PendingApprovals, ConcurrentInv,
       ApprovalInv, RequestInv, Done
  <2>5. Awaiting' = Awaiting \ {p} /\ p \in Awaiting
    BY <1>1, <2>1, <2>3, <2>4 DEF Awaiting, PendingApprovals
  <2>6. Verdicts' = [Verdicts EXCEPT ![p] = @ \union {to}]
    <3>1. Verdicts'[p] = Verdicts[p] \union {to}
      BY <1>1, <2>1, <2>3 DEF Verdicts
    <3>2. ASSUME NEW s \in Plan, s # p
          PROVE  Verdicts'[s] = Verdicts[s]
      BY <1>1, <2>1, <2>3, <3>2 DEF Verdicts
    <3>3. /\ Verdicts' = [s \in Plan |-> Verdicts'[s]]
          /\ Verdicts = [s \in Plan |-> Verdicts[s]]
      BY DEF Verdicts
    <3> HIDE DEF p, to
    <3> QED BY <3>1, <3>2, <3>3
  <2>7. status[p] # "NONE" /\ Lifecycle!canTransition(status[p], to)
    BY <2>1 DEF Lifecycle!canTransition, Lifecycle!PLAN_TRANSITIONS
  <2>8. PICK c \in Plan : c = p
    BY <1>1
  <2>9. ASSUME NEW t, t = to
        PROVE  Lifecycle!Decide(c, t)
    <3> HIDE DEF a, p, to
    <3> QED BY <2>2, <2>5, <2>6, <2>7, <2>8, <2>9, Zenon
            DEF Lifecycle!Decide, Awaiting, Verdicts
  <2>10. Lifecycle!Decide(c, "APPROVED") \/ Lifecycle!Decide(c, "REJECTED")
    BY <2>1, <2>9
  <2> QED BY <2>8, <2>10 DEF Lifecycle!Next
<1> QED BY <1>1, <1>3, <1>4, <1>5, <1>6 DEF Op, Decision

\* With requests that do not overlap, every behaviour of the handlers is a
\* behaviour of the workflow: a submit opens exactly one approval, a decision
\* closes it, and only the transitions of the state machine happen.
THEOREM SerialImplementsLifecycle ==
  ASSUME Overlap = FALSE
  PROVE  Spec => LifecycleSpec
<1>1. Init => Lifecycle!Init
  BY DEF Init, Lifecycle!Init, PendingApprovals
<1>2. TypeOK /\ ConcurrentInv /\ CreateInv /\ SerialInv /\ [Next]_vars
      => [Lifecycle!Next]_Lifecycle!vars
  <2> SUFFICES ASSUME TypeOK, ConcurrentInv, CreateInv, SerialInv, [Next]_vars
               PROVE  Lifecycle!Next \/ UNCHANGED <<status, Awaiting, Verdicts>>
    BY DEF Lifecycle!vars, Awaiting, Verdicts
  <2>1. ASSUME NEW r \in Req, Commit(r)
        PROVE  Lifecycle!Next \/ UNCHANGED <<status, Awaiting, Verdicts>>
    BY <2>1, CommitImplements
  <2>2. ASSUME NEW r \in Req, NEW o \in Op, NEW p \in Plan, Receive(r, o, p)
        PROVE  UNCHANGED <<status, Awaiting, Verdicts>>
    <3>1. \A a \in Req : approval[a] # "NONE" => target'[a] = target[a]
      BY <2>2 DEF Receive, ConcurrentInv, ApprovalInv, TypeOK, Done
    <3> QED BY <2>2, <3>1, RowsKeptStutters DEF Receive, RowsUnchanged
  <2>3. ASSUME NEW r \in Req, Step(r) \/ Abort(r) \/ LoseAnswer(r), ~ Commit(r)
        PROVE  UNCHANGED <<status, Awaiting, Verdicts>>
    <3>1. UNCHANGED <<status, approval, target>>
      BY <2>3 DEF Step, PlanMissing, TransitionRefused, PlanRead, OpenApproval,
         FindOpen, UpdateApproval, InsertAudit, UpdatePlan, Respond, Abort, LoseAnswer, RowsUnchanged, RequestUnchanged
    <3> QED BY <3>1, RowsKeptStutters
  <2>4. CASE UNCHANGED vars
    BY <2>4, RowsKeptStutters DEF vars
  <2> QED BY <2>1, <2>2, <2>3, <2>4 DEF Next
<1> QED BY <1>1, <1>2, TypeCorrect, ConcurrentInvInvariant, CreateInvInvariant,
          SerialInvInvariant, PTL DEF Spec, LifecycleSpec, Lifecycle!Spec
=============================================================================
