----------------------------- MODULE MCWorkflowV2 ----------------------------
(* An instance of WorkflowV2 for TLC: a task that nothing goes wrong with    *)
(* but an owner who changes his mind.                                       *)
EXTENDS WorkflowV2

(* Executions succeed, reviewers approve, calls follow their jobs at once,
   the plan file goes missing from nobody's branch.  The owner revises the
   requirements while the first of them are being registered, and pauses
   while a second plan is under review.                                     *)
Smooth(j) ==
    \/ Claim(j) \/ Prepare(j) \/ Reuse(j)
    \/ Persist(j) /\ \A k \in jobs' : k.verdict \in {"none", "approve"}
    \/ Propose(j) \/ Drafted(j) \/ PublishPlan(j) \/ Planned(j) \/ PlanReviewed(j)
    \/ PublishImplementation(j) \/ RecordHead(j) \/ PublishIndex(j) \/ ReadyForReview(j)
    \/ Implemented(j) \/ PostReview(j) \/ FinishReview(j)
Latest == CHOOSE j \in jobs : Open(j) /\ \A k \in jobs : Open(k) => k.id <= j.id

OrdersNext ==
    \/ /\ pending = {} /\ \E j \in jobs : Open(j) /\ Smooth(j)
    \/ \E p \in pending : Registration(p)
    \/ pending # {} /\ made = 1 /\ Revise
    \/ task.plan = 2 /\ pending = {} /\ task.state = "ReviewingImplementationPlan" /\ Pause
    \/ pending = {} /\ (Resume \/ RetryProposal \/ CopyProposal)
    \/ pending = {} /\ (ApproveRequirements \/ ApprovePlan \/ ApproveMerge)
    \/ AskToMerge \/ BeginMerge \/ ReconcileIssue \/ ReconcilePlan
    \/ Merge /\ Calm
OrdersSpec == Init /\ [][OrdersNext /\ UNCHANGED recovery]_vars
=============================================================================
