--------------------------- MODULE PlanLifecycle ---------------------------
(***************************************************************************)
(* What the plan workflow promises: every plan is a state machine         *)
(* DRAFT -> PROPOSED -> APPROVED | REJECTED -> PROPOSED, submitting opens  *)
(* exactly one request for approval, and a decision closes that request.  *)
(* Each operation is one atomic step here; PlanApproval models the         *)
(* handlers that implement them as transactions of several statements.    *)
(***************************************************************************)
CONSTANTS Plan  \* the plan ids

VARIABLES
  status,    \* plan -> its state, "NONE" before createPlan
  awaiting,  \* the plans with an undecided request for approval
  verdicts   \* plan -> the decisions management has recorded on it

vars == <<status, awaiting, verdicts>>

\* PLAN_TRANSITIONS: the states each state may move to.
PLAN_TRANSITIONS == [DRAFT |-> {"PROPOSED"}, APPROVED |-> {},
  PROPOSED |-> {"APPROVED", "REJECTED"}, REJECTED |-> {"PROPOSED"}]

canTransition(from, to) == to \in PLAN_TRANSITIONS[from]

Init ==
  /\ status = [p \in Plan |-> "NONE"]
  /\ awaiting = {}
  /\ verdicts = [p \in Plan |-> {}]

Create(p) ==
  /\ status[p] = "NONE"
  /\ status' = [status EXCEPT ![p] = "DRAFT"]
  /\ UNCHANGED <<awaiting, verdicts>>

Submit(p) ==
  /\ status[p] # "NONE" /\ canTransition(status[p], "PROPOSED")
  /\ status' = [status EXCEPT ![p] = "PROPOSED"]
  /\ awaiting' = awaiting \union {p}
  /\ UNCHANGED verdicts

Decide(p, to) ==
  /\ status[p] # "NONE" /\ canTransition(status[p], to)
  /\ p \in awaiting
  /\ status' = [status EXCEPT ![p] = to]
  /\ awaiting' = awaiting \ {p}
  /\ verdicts' = [verdicts EXCEPT ![p] = @ \union {to}]

Next ==
  \E p \in Plan : \/ Create(p)
                  \/ Submit(p)
                  \/ Decide(p, "APPROVED")
                  \/ Decide(p, "REJECTED")

Spec == Init /\ [][Next]_vars
=============================================================================
