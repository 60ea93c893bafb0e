-------------------------- MODULE PermissionChecker --------------------------
(***************************************************************************)
(* PermissionChecker.check_permission as a function of the capability's    *)
(* policy for one action, its effective WAL level and the job's context.   *)
(* The durable wal.permission_check event every call emits belongs to the  *)
(* caller (WorkerDispatch).                                                *)
(***************************************************************************)
EXTENDS Integers

Levels == 0..3
Suspended == -1
Never == 4          \* required_level None: no level permits the action

Gates == {"none", "pre_action", "pre_delivery", "post_action", "on_accept"}

\* The policy of one action at one level.  A missing action and the string
\* "blocked" are one thing to every reader.
Policy == [permitted: BOOLEAN, cost_gate: BOOLEAN, review_gate: Gates]

\* over_cost: est_cost is known and above the policy's cost_gate_usd.
JobContext == [over_cost: BOOLEAN, human_approved: BOOLEAN, result_accepted: BOOLEAN]

\* The pipeline's context: the cost is not known before the dispatch, and
\* nothing has been approved or accepted.
PipelineContext ==
  [over_cost |-> FALSE, human_approved |-> FALSE, result_accepted |-> FALSE]

RequiredLevel(table) ==
  LET open == {l \in Levels : table[l].permitted} IN
  IF open = {} THEN Never ELSE CHOOSE l \in open : \A m \in open : l <= m

\* The cost gate is looked at before the review gate.
HoldType(policy, c) ==
  IF policy.cost_gate /\ c.over_cost THEN "cost_approval"
  ELSE IF policy.review_gate = "pre_action" /\ ~c.human_approved THEN "pre_action"
  ELSE IF policy.review_gate = "on_accept" /\ ~c.result_accepted THEN "on_accept"
  ELSE "none"

Blocked == [result |-> "blocked", hold_type |-> "none", delivery_hold |-> FALSE]

Unblocked(policy, c) ==
  LET hold == HoldType(policy, c) IN
  [result |-> IF hold = "none" THEN "allowed" ELSE "held",
   hold_type |-> hold,
   delivery_hold |-> hold = "none" /\ policy.review_gate = "pre_delivery"]

CheckPermission(table, level, c) ==
  IF level = Suspended \/ ~table[level].permitted
  THEN Blocked
  ELSE Unblocked(table[level], c)

\* _derive_proposal_hold_reason: the answers that hold the result for review.
HoldsResult(answer) == answer.delivery_hold \/ answer.hold_type = "on_accept"

-----------------------------------------------------------------------------

\* A table's policies may differ from level to level.
Table == [Levels -> Policy]

\* A block is the policy's and a hold is the context's: no context gets past
\* a block, some context gets past every hold, nothing is allowed with a gate
\* of its policy unmet, and required_level is the first level at which the
\* action stops being blocked (the docstrings of check_permission and
\* _compute_required_level).
AnswersSound ==
  \A table \in Table, level \in Levels \cup {Suspended} :
    LET Result(c) == CheckPermission(table, level, c).result
        blocked == {c \in JobContext : Result(c) = "blocked"}
        allowed == {c \in JobContext : Result(c) = "allowed"}
    IN
    /\ blocked \in {{}, JobContext}
    /\ blocked = {} => allowed # {}
    /\ \A c \in allowed :
         /\ table[level].cost_gate => ~c.over_cost
         /\ table[level].review_gate = "pre_action" => c.human_approved
         /\ table[level].review_gate = "on_accept" => c.result_accepted
    /\ \A l \in Levels : l < RequiredLevel(table) => ~table[l].permitted
    /\ level \in Levels /\ blocked = {} => RequiredLevel(table) <= level
=============================================================================
