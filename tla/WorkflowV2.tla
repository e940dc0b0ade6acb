------------------------------ MODULE WorkflowV2 ------------------------------
(***************************************************************************)
(* One task of workflow v2 from its draft to its merge: the requirements   *)
(* Issue, the versioned plan, the implementation on the task's branch, the *)
(* independent review, the checks and the merge, with the owner's          *)
(* approvals, the reconciliation with GitHub, and what owner, third        *)
(* parties and crashes do in between.                                      *)
(*                                                                         *)
(* Every action is one database transaction, with the GitHub call that     *)
(* Engine.external makes under the lock of the task row.  A finished run   *)
(* takes several of them, and the last one of a draft, a plan and a plan   *)
(* review belongs to WorkflowV2Service: nothing but process memory         *)
(* (`pending') connects it to the job that is already done.                *)
(*                                                                         *)
(* Leases, fences, attempts and concurrency limits are the module          *)
(* Scheduler's: here an execution is the job's own progress `at'.          *)
(***************************************************************************)
EXTENDS Integers, Sequences, FiniteSets

CONSTANTS
    MaxJobs,          \* bound: jobs queued for the task
    MaxPlans,         \* bound: versions of the plan
    MaxCommits,       \* bound: commits on the task's branch
    MaxEdits,         \* bound: edits of the Issue by the owner and by others
    MaxTrouble,       \* bound: interventions, failures, silences and crashes
    PlanRevisionLimit, ImplementationRevisionLimit

ASSUME WorkflowV2Assumption ==
    /\ MaxJobs \in Nat \ {0} /\ MaxPlans \in Nat \ {0}
    /\ MaxCommits \in Nat \ {0} /\ MaxEdits \in Nat /\ MaxTrouble \in Nat
    /\ PlanRevisionLimit \in Nat /\ ImplementationRevisionLimit \in Nat

JobIds == 1..MaxJobs
Commits == 0..MaxCommits      \* 0: no commit, the base
Versions == 0..MaxPlans       \* 0: no plan

(* What an author wrote, an Issue body or a plan, is named by its author:
   the job that proposed it, or a third party.                             *)
Placeholder == 0
Foreign == MaxJobs + 1
Texts == Placeholder..Foreign

Kinds == {"draft", "plan", "review_plan", "implement", "fix", "review", "clarify"}
STOPPED == {"Paused", "Blocked", "Cancelled", "Merged"}
Working == {"DraftingRequirements", "PlanningImplementation", "ReviewingImplementationPlan",
            "Queued", "Implementing", "Fixing", "Reviewing"}
Gated == {"AwaitingChecks", "AwaitingMergeApproval", "ReadyToMerge", "Merging"}
States == STOPPED \cup Working \cup Gated
          \cup {"AwaitingRequirementsConfirmation", "AwaitingPlanApproval", "Clarifying"}

(* A head/base/requirements/plan tuple: what jobs pin and approvals name.
   0 is an absent or empty value.  A plan's hash is as good as its version. *)
Identities == [req: Texts, plan: Versions, base: Nat, head: Commits]
None == [req |-> 0, plan |-> 0, base |-> 0, head |-> 0]

TaskRows == [
    state: States,
    proposed: BOOLEAN,            \* data["reason"] asks to copy the proposal
    req: Texts, reqAt: Nat,       \* requirements_hash, requirements_updated_at
    body: Texts, reqApproved: BOOLEAN,   \* RequirementsReference: body_hash, status
    plan: Versions, base: Nat, head: Commits,
    offer: [req: Nat, plan: Nat],       \* *_confirmation_id
    approval: [req: Nat, plan: Nat],    \* *_approval_id
    review: Identities,           \* review_approval
    merge: Identities, mergeLive: BOOLEAN,   \* merge_approval and not expired
    retry: States \cup {"none"},      \* retry_state
    revisions: [plan: Nat, fix: Nat],   \* ExecutionBudget
    stalled: BOOLEAN]             \* data["stalled_retry_version"] = state_version

(* "proposed" is a draft that is done and waits for its proposal to be
   copied, "asked" an implementation that is done with questions; other jobs
   that are done, and cancelled ones, are dropped: nothing reads them.      *)
JobStatuses == {"queued", "running", "failed", "proposed", "asked"}
Progress == {"start", "run", "result", "published", "recorded", "indexed", "ready"}
Verdicts == {"none", "approve", "request_changes", "needs_human"}
JobRows == [id: JobIds, kind: Kinds, status: JobStatuses, pins: Identities,
            at: Progress,
            request: Identities \cup {<<>>},     \* Job.data["request"]
            saved: BOOLEAN, verdict: Verdicts,   \* Job.data["response"]
            published: Commits, indexed: Commits]  \* results of done operations
Pendings == [kind: {"requirements"}, body: Texts, at: Nat]
            \cup [kind: {"plan"}, hash: Texts, base: Nat]
            \cup [kind: {"plan_review"}, plan: Versions, ok: BOOLEAN]
(* What recover_stalled_v2 has read: the row of the task, its open jobs and
   the kind of the latest.                                                 *)
Recoveries == [row: TaskRows, open: SUBSET JobIds, kind: Kinds]

VARIABLES
    task, jobs,
    made,        \* jobs created so far: the latest one has this id
    plans,       \* PlanVersion rows by version
    ledger,      \* ApprovalGrant, Review and Approval rows
    pending,     \* calls of WorkflowV2Service a finished job still has to make
    merging,     \* reconcile is between its two merge transactions
    github,      \* Issue, branch, pull request and base, as they are
    recovery,    \* recover_stalled_v2, between what it reads and what it writes
    trouble

vars == <<task, jobs, made, plans, ledger, pending, merging, github, recovery, trouble>>
-----------------------------------------------------------------------------
(* Rows *)

Open(j) == j.status \in {"queued", "running"}
Identity == [req |-> task.req, plan |-> task.plan, base |-> task.base, head |-> task.head]
IdentityOf(row) == [req |-> row.req, plan |-> row.plan, base |-> row.base, head |-> row.head]

(* identity_current: an empty pin matches anything; a job of workflow v1
   matches no v2 task.                                                     *)
IdentityCurrent(j) ==
    /\ j.kind # "clarify"
    /\ \A f \in {"req", "plan", "base", "head"} : j.pins[f] \in {0, task[f]}

(* Engine.current, without what the module Scheduler adds.                 *)
Current(j) == j.status = "running" /\ task.state \notin STOPPED /\ IdentityCurrent(j)

To(row, state) == [row EXCEPT !.state = state, !.proposed = FALSE, !.stalled = FALSE]
Unapproved(row) == [row EXCEPT !.review = None, !.merge = None]
(* invalidate, on the task row and on the jobs.                            *)
Invalidated(row) == Unapproved(row)
(* Mutant: a running execution is left alone.                              *)
KeptRunning == {j \in jobs : j.status # "queued"}
Kept == {j \in jobs : ~Open(j)}

NewJob(kind, pins) ==
    [id |-> made + 1, kind |-> kind, status |-> "queued", pins |-> pins, at |-> "start",
     request |-> <<>>, saved |-> FALSE, verdict |-> "none", published |-> 0, indexed |-> 0]
(* A new job makes older failures and questions past history.              *)
EnqueuePinned(rows, kind, pins) ==
    /\ made < MaxJobs /\ made' = made + 1
    /\ jobs' = {j \in rows : Open(j) \/ j.status = "proposed"} \cup {NewJob(kind, pins)}
Enqueue(rows, kind, row) == EnqueuePinned(rows, kind, IdentityOf(row))

Set(j, k) == jobs' = (jobs \ {j}) \cup {k}
(* A job that is retried is executed from its start.                       *)
Closed(j, status) ==
    (jobs \ {j}) \cup
    (IF j.id = made THEN {[j EXCEPT !.status = status, !.at = "start"]} ELSE {})

(* fail, for a GuardError: the phase to retry in is saved with the row.    *)
Fail(j) == /\ jobs' = Closed(j, "failed")
           /\ task' = [To(task, "Blocked") EXCEPT !.retry = task.state]

Troubled == trouble < MaxTrouble /\ trouble' = trouble + 1
Calm == UNCHANGED trouble
-----------------------------------------------------------------------------
(* GitHub, as the calls of this code see it *)

Tip == Len(github.log)
(* The plan file of a version at a commit; the base has none.              *)
PlanFile(commit, version) ==
    IF commit = 0 \/ version = 0 THEN Placeholder ELSE github.log[commit].files[version]
PlanIntact(commit) == task.plan # 0 /\ PlanFile(commit, task.plan) = plans[task.plan].hash
IssueIntact == github.body = task.req /\ github.at = task.reqAt
FilesAt(commit) ==
    IF commit = 0 THEN [v \in 1..MaxPlans |-> Placeholder] ELSE github.log[commit].files

(* publish: a commit on the branch, unless it is there already, and a draft
   pull request.  Refused when the branch or the pull request has moved on.  *)
Published(key) == Tip # 0 /\ github.log[Tip].key = key
(* Mutant: the branch is not compared with the task's head.                *)
PublishableAnywhere(key) == github.pr \in {"none", "open"}
Publishable(key) == github.pr \in {"none", "open"} /\ (Published(key) \/ Tip = task.head)
PublishTo(key, files) ==
    IF Published(key) THEN UNCHANGED github
    ELSE /\ Tip < MaxCommits
         /\ github' = [github EXCEPT !.log = Append(@, [key |-> key, files |-> files]),
                                     !.pr = "open",
                                     !.draft = @ \/ github.pr = "none"]
-----------------------------------------------------------------------------
(* Engine.claim and Engine.execute, up to the result *)

Claim(j) ==
    /\ j.status = "queued" /\ task.state \notin STOPPED
    /\ IF IdentityCurrent(j)
       THEN /\ Set(j, [j EXCEPT !.status = "running"])
            /\ task' = CASE j.kind = "implement" -> To(task, "Implementing")
                         [] j.kind = "fix" -> To(task, "Fixing")
                         [] OTHER -> task
       ELSE jobs' = jobs \ {j} /\ UNCHANGED task
    /\ Calm /\ UNCHANGED <<made, plans, ledger, pending, merging, github>>

(* No attempt is left: the job fails without a phase to retry in.          *)
GiveUp(j) ==
    /\ j.status = "queued" /\ task.state \notin STOPPED /\ IdentityCurrent(j)
    /\ jobs' = Closed(j, "failed") /\ task' = To(task, "Blocked")
    /\ Troubled /\ UNCHANGED <<made, plans, ledger, pending, merging, github>>

(* An execution that was refused ends; its job returns to the queue when
   the lease lapses.                                                       *)
Lapse(j) ==
    /\ j.status = "running" /\ ~Current(j)
    /\ Set(j, [j EXCEPT !.status = "queued", !.at = "start"])
    /\ Calm /\ UNCHANGED <<task, made, plans, ledger, pending, merging, github>>

RequirementsGrant == [stage |-> "requirements", id |-> task.approval.req,
                      target |-> [None EXCEPT !.req = task.req]]
PlanGrant == [stage |-> "plan", id |-> task.approval.plan,
              target |-> [None EXCEPT !.plan = task.plan, !.base = task.base]]
(* prepare_v2: what a request of this kind is checked against.             *)
Verified(kind) ==
    kind = "draft" \/
    /\ IssueIntact /\ task.body = task.req /\ task.reqApproved /\ RequirementsGrant \in ledger
    /\ task.plan # 0 => PlanIntact(task.head)
    /\ kind \in {"implement", "fix"} =>
          /\ task.plan # 0 /\ PlanGrant \in ledger
          /\ plans[task.plan].status = "approved" /\ plans[task.plan].base = task.base
    /\ kind = "review" => Tip = task.head /\ github.base = task.base

Prepare(j) ==
    /\ j.at = "start" /\ j.request = <<>> /\ Current(j)
    /\ IF Verified(j.kind)
       THEN LET base == IF task.base = 0 THEN github.base ELSE task.base
            IN /\ task' = [task EXCEPT !.base = base]
               /\ Set(j, [j EXCEPT !.at = "run", !.request = [Identity EXCEPT !.base = base]])
       ELSE Fail(j)
    /\ Calm /\ UNCHANGED <<made, plans, ledger, pending, merging, github>>

(* The request, and perhaps the response, of an earlier execution is reused. *)
Reuse(j) ==
    /\ j.at = "start" /\ j.request # <<>> /\ Current(j)
    /\ Set(j, [j EXCEPT !.at = IF j.saved THEN "result" ELSE "run"])
    /\ Calm /\ UNCHANGED <<task, made, plans, ledger, pending, merging, github>>

(* persist_v2_result.                                                      *)
Persist(j) ==
    /\ j.at = "run" /\ Current(j)
    /\ \E verdict \in IF j.kind = "review" THEN Verdicts \ {"none"}
                      ELSE IF j.kind = "review_plan" THEN {"approve", "request_changes"} ELSE {"none"} :
         Set(j, [j EXCEPT !.at = "result", !.saved = TRUE, !.verdict = verdict])
    /\ Calm /\ UNCHANGED <<task, made, plans, ledger, pending, merging, github>>

(* The run asks for clarification or declares itself blocked.              *)
Ask(j) ==
    /\ j.at = "run" /\ Current(j)
    /\ jobs' = IF j.kind \in {"implement", "fix"} THEN Closed(j, "asked") ELSE jobs \ {j}
    /\ task' = To(task, "Blocked")
    /\ Troubled /\ UNCHANGED <<made, plans, ledger, pending, merging, github>>

(* The result does not pass its validation, or a call is refused.          *)
Reject(j) ==
    /\ j.at = "result" /\ Current(j) /\ Fail(j)
    /\ Troubled /\ UNCHANGED <<made, plans, ledger, pending, merging, github>>

(* A connection failure: the same job is tried again from its saved data.  *)
Disconnect(j) ==
    /\ j.at # "start" /\ Current(j)
    /\ Set(j, [j EXCEPT !.status = "queued", !.at = "start"])
    /\ Troubled /\ UNCHANGED <<task, made, plans, ledger, pending, merging, github>>
-----------------------------------------------------------------------------
(* finish_v2: the requirements draft *)

(* The Issue does not hold the draft yet: it becomes a comment, which the
   owner is asked to copy into the body.                                   *)
Propose(j) ==
    /\ j.kind = "draft" /\ j.at = "result" /\ Current(j) /\ github.body # j.id
    /\ jobs' = {k \in jobs \ {j} : k.status # "proposed"}
                \cup {[j EXCEPT !.status = "proposed", !.at = "start"]}
    /\ task' = [To(task, "Blocked") EXCEPT !.proposed = TRUE]
    /\ Calm /\ UNCHANGED <<made, plans, ledger, pending, merging, github>>

Drafted(j) ==
    /\ j.kind = "draft" /\ j.at = "result" /\ Current(j) /\ github.body = j.id
    /\ jobs' = jobs \ {j}
    /\ pending' = pending \cup {[kind |-> "requirements", body |-> github.body, at |-> github.at]}
    /\ Calm /\ UNCHANGED <<task, made, plans, ledger, merging, github>>

(* Mutant: the state is not checked.                                       *)
RegisterRequirementsAnyway(p) ==
    /\ p.kind = "requirements" /\ pending' = pending \ {p}
    /\ task' = [To(task, "AwaitingRequirementsConfirmation") EXCEPT
                  !.req = p.body, !.reqAt = p.at, !.body = p.body, !.reqApproved = FALSE,
                  !.offer.req = p.body]
    /\ Calm /\ UNCHANGED <<jobs, made, plans, ledger, merging, github>>
(* The call of register_requirements that follows: a GuardError is lost,
   for the job is done.  A confirmation has a new id: a job's draft is
   registered once, and its name will do.                                  *)
RegisterRequirements(p) ==
    /\ p.kind = "requirements" /\ pending' = pending \ {p}
    /\ task' = IF task.state # "DraftingRequirements" THEN task
               ELSE [To(task, "AwaitingRequirementsConfirmation") EXCEPT
                       !.req = p.body, !.reqAt = p.at, !.body = p.body, !.reqApproved = FALSE,
                       !.offer.req = p.body]
    /\ Calm /\ UNCHANGED <<jobs, made, plans, ledger, merging, github>>
-----------------------------------------------------------------------------
(* finish_v2: the plan and its review *)

PublishPlan(j) ==
    LET key == <<j.id, "plan">>
        version == Len(plans) + 1
    IN /\ j.kind = "plan" /\ j.at = "result" /\ Current(j) /\ version <= MaxPlans
       /\ IF j.published # 0
          THEN Set(j, [j EXCEPT !.at = "published"]) /\ UNCHANGED <<task, github>>
          ELSE IF Publishable(key)
          THEN /\ PublishTo(key, [FilesAt(task.head) EXCEPT ![version] = j.id])
               /\ Set(j, [j EXCEPT !.at = "published", !.published = Len(github'.log)])
               /\ UNCHANGED task
          ELSE Fail(j) /\ UNCHANGED github
       /\ Calm /\ UNCHANGED <<made, plans, ledger, pending, merging>>

Planned(j) ==
    /\ j.kind = "plan" /\ j.at = "published" /\ Current(j)
    /\ task' = [task EXCEPT !.head = j.published]
    /\ jobs' = jobs \ {j}
    /\ pending' = pending \cup {[kind |-> "plan", hash |-> j.id, base |-> j.request.base]}
    /\ Calm /\ UNCHANGED <<made, plans, ledger, merging, github>>

RegisterPlan(p) ==
    /\ p.kind = "plan" /\ pending' = pending \ {p}
    /\ IF task.state # "PlanningImplementation" \/ ~task.reqApproved
       THEN UNCHANGED <<task, jobs, made, plans>>
       ELSE /\ Len(plans) < MaxPlans
            /\ plans' = Append(plans, [hash |-> p.hash, base |-> p.base, status |-> "pending"])
            /\ task' = [To(task, "ReviewingImplementationPlan") EXCEPT
                           !.plan = Len(plans'), !.base = p.base]
            /\ Enqueue(jobs, "review_plan", task')
    /\ Calm /\ UNCHANGED <<ledger, merging, github>>

PlanReviewed(j) ==
    /\ j.kind = "review_plan" /\ j.at = "result" /\ Current(j)
    /\ jobs' = jobs \ {j}
    /\ pending' = pending \cup {[kind |-> "plan_review", plan |-> task.plan,
                                 ok |-> j.verdict = "approve"]}
    /\ Calm /\ UNCHANGED <<task, made, plans, ledger, merging, github>>

(* Another plan is only reviewed after another job: `made' is a new id.      *)
CompletePlanReview(p) ==
    /\ p.kind = "plan_review" /\ pending' = pending \ {p}
    /\ IF task.state # "ReviewingImplementationPlan" \/ task.plan # p.plan
       THEN UNCHANGED <<task, jobs, made, plans>>
       ELSE /\ plans' = [plans EXCEPT ![p.plan].status =
                            IF p.ok THEN "approved" ELSE "changes_requested"]
            /\ IF p.ok
               THEN /\ task' = [To(task, "AwaitingPlanApproval") EXCEPT !.offer.plan = made]
                    /\ UNCHANGED <<jobs, made>>
               ELSE IF task.revisions.plan >= PlanRevisionLimit
               THEN task' = To(task, "Blocked") /\ UNCHANGED <<jobs, made>>
               ELSE /\ task' = [To(task, "PlanningImplementation") EXCEPT !.revisions.plan = @ + 1]
                    /\ Enqueue(jobs, "plan", task')
    /\ Calm /\ UNCHANGED <<ledger, merging, github>>
-----------------------------------------------------------------------------
(* finish_v2: an implementation or a fix *)

Implementing(j) == j.kind \in {"implement", "fix"}

PublishImplementation(j) ==
    LET key == <<j.id, "implementation">>
    IN /\ Implementing(j) /\ j.at = "result" /\ Current(j)
       /\ IF j.published # 0
          THEN Set(j, [j EXCEPT !.at = "published"]) /\ UNCHANGED <<task, github>>
          ELSE IF Publishable(key)
          THEN /\ PublishTo(key, FilesAt(task.head))
               /\ Set(j, [j EXCEPT !.at = "published", !.published = Len(github'.log)])
               /\ UNCHANGED task
          ELSE Fail(j) /\ UNCHANGED github
       /\ Calm /\ UNCHANGED <<made, plans, ledger, pending, merging>>

(* The new head becomes the task's and the job's own pin.                  *)
RecordHead(j) ==
    /\ Implementing(j) /\ j.at = "published" /\ Current(j)
    /\ task' = [task EXCEPT !.head = j.published]
    /\ Set(j, [j EXCEPT !.at = "recorded", !.pins.head = j.published])
    /\ Calm /\ UNCHANGED <<made, plans, ledger, pending, merging, github>>

PublishIndex(j) ==
    LET key == <<j.id, "index">>
    IN /\ Implementing(j) /\ j.at = "recorded" /\ Current(j)
       /\ IF j.indexed # 0
          THEN Set(j, [j EXCEPT !.at = "indexed"]) /\ UNCHANGED <<task, github>>
          ELSE IF Publishable(key)
          THEN /\ PublishTo(key, FilesAt(task.head))
               /\ Set(j, [j EXCEPT !.at = "indexed", !.indexed = Len(github'.log)])
               /\ UNCHANGED task
          ELSE Fail(j) /\ UNCHANGED github
       /\ Calm /\ UNCHANGED <<made, plans, ledger, pending, merging>>

ReadyForReview(j) ==
    /\ j.at = "indexed" /\ Current(j)
    /\ github' = [github EXCEPT !.draft = FALSE]
    /\ Set(j, [j EXCEPT !.at = "ready"])
    /\ Calm /\ UNCHANGED <<task, made, plans, ledger, pending, merging>>

Implemented(j) ==
    /\ Implementing(j) /\ j.at = "ready" /\ Current(j)
    /\ task' = [Unapproved(To(task, "Reviewing")) EXCEPT !.head = j.indexed]
    /\ Enqueue(jobs \ {j}, "review", task')
    /\ Calm /\ UNCHANGED <<plans, ledger, pending, merging, github>>

(* The answer of GitHub to a publication is lost: the commit is there, the
   transaction is not, and the job is tried again.                         *)
LosePublication(j) ==
    /\ j.kind \in {"plan", "implement", "fix"} /\ Current(j)
    /\ \E stage \in {"plan", "implementation", "index"} :
         /\ IF j.kind = "plan" THEN stage = "plan" /\ j.at = "result"
            ELSE \/ stage = "implementation" /\ j.at = "result"
                 \/ stage = "index" /\ j.at = "recorded"
         /\ IF stage = "index" THEN j.indexed = 0 ELSE j.published = 0
         /\ Publishable(<<j.id, stage>>) /\ ~Published(<<j.id, stage>>)
         /\ stage = "plan" => Len(plans) < MaxPlans
         /\ PublishTo(<<j.id, stage>>,
                      IF stage = "plan" THEN [FilesAt(task.head) EXCEPT ![Len(plans) + 1] = j.id]
                      ELSE FilesAt(task.head))
    /\ Set(j, [j EXCEPT !.status = "queued", !.at = "start"])
    /\ Troubled /\ UNCHANGED <<task, made, plans, ledger, pending, merging>>
-----------------------------------------------------------------------------
(* finish_v2: the independent review *)

Reviewed(j) == [stage |-> "review", id |-> 0, target |-> j.request]

(* The Issue body and the commits are read again, then the review is posted
   for the commit of the request; a question is only a comment.            *)
PostReview(j) ==
    /\ j.kind = "review" /\ j.at = "result" /\ Current(j)
    /\ IF github.body = task.req /\ Tip = j.request.head /\ github.base = j.request.base
       THEN /\ Set(j, [j EXCEPT !.at = "published"]) /\ UNCHANGED task
            /\ github' = IF j.verdict = "needs_human" \/ github.pr = "merged" THEN github
                         ELSE [github EXCEPT !.review =
                                 [head |-> j.request.head, ok |-> j.verdict = "approve"]]
       ELSE Fail(j) /\ UNCHANGED github
    /\ Calm /\ UNCHANGED <<made, plans, ledger, pending, merging>>

FinishReview(j) ==
    /\ j.kind = "review" /\ j.at = "published" /\ Current(j)
    /\ CASE j.verdict = "approve" ->
              /\ task' = [To(task, "AwaitingChecks") EXCEPT
                            !.review = [Identity EXCEPT !.head = j.request.head, !.base = j.request.base]]
              /\ jobs' = jobs \ {j} /\ UNCHANGED made
         [] j.verdict = "request_changes" /\ task.revisions.fix < ImplementationRevisionLimit ->
              /\ task' = [To(task, "Fixing") EXCEPT !.revisions.fix = @ + 1]
              /\ Enqueue(jobs \ {j}, "fix", task')
         [] OTHER ->
              task' = To(task, "Blocked") /\ jobs' = jobs \ {j} /\ UNCHANGED made
    /\ ledger' = IF j.verdict = "approve" THEN ledger \cup {Reviewed(j)} ELSE ledger
    /\ Calm /\ UNCHANGED <<plans, pending, merging, github>>

(* claim, for one job; the rest is an execution's own.                      *)
Dispatch(j) == Claim(j) \/ GiveUp(j) \/ Lapse(j)
Execution(j) ==
    \/ Prepare(j) \/ Reuse(j) \/ Persist(j) \/ Ask(j)
    \/ Reject(j) \/ Disconnect(j) \/ Propose(j) \/ Drafted(j) \/ PublishPlan(j) \/ Planned(j)
    \/ PlanReviewed(j) \/ PublishImplementation(j) \/ RecordHead(j) \/ PublishIndex(j)
    \/ ReadyForReview(j) \/ Implemented(j) \/ LosePublication(j) \/ PostReview(j) \/ FinishReview(j)
Registration(p) == RegisterRequirements(p) \/ RegisterPlan(p) \/ CompletePlanReview(p)
-----------------------------------------------------------------------------
(* The owner's commands *)

Granted(grants, id, stage) == \E g \in grants : g.stage = stage /\ g.id = id

ApproveRequirements ==
    /\ task.state = "AwaitingRequirementsConfirmation"
    /\ task.offer.req # 0 /\ task.body = task.req
    /\ ~Granted(ledger, task.offer.req, "requirements")
    /\ task' = [To(task, "PlanningImplementation") EXCEPT
                  !.reqApproved = TRUE, !.approval.req = task.offer.req]
    /\ ledger' = ledger \cup {[stage |-> "requirements", id |-> task.offer.req,
                                target |-> [None EXCEPT !.req = task.req]]}
    /\ Enqueue(jobs, "plan", task')
    /\ Calm /\ UNCHANGED <<plans, pending, merging, github>>

ApprovePlan ==
    /\ task.state = "AwaitingPlanApproval" /\ task.plan # 0 /\ task.offer.plan # 0
    /\ plans[task.plan].status = "approved"
    /\ ~Granted(ledger, task.offer.plan, "plan")
    /\ task' = [To(task, "Queued") EXCEPT !.approval.plan = task.offer.plan]
    /\ ledger' = ledger \cup {[stage |-> "plan", id |-> task.offer.plan,
                                target |-> [None EXCEPT !.plan = task.plan,
                                                        !.base = plans[task.plan].base]]}
    /\ Enqueue(jobs, "implement", task')
    /\ Calm /\ UNCHANGED <<plans, pending, merging, github>>

ApproveMerge ==
    /\ task.state = "AwaitingMergeApproval"
    /\ task' = [To(task, "ReadyToMerge") EXCEPT !.merge = Identity, !.mergeLive = TRUE]
    /\ ledger' = ledger \cup {[stage |-> "merge", id |-> 0, target |-> Identity]}
    /\ Calm /\ UNCHANGED <<jobs, made, plans, pending, merging, github>>

(* answer to an implementation that asked: the same work again, under the
   same approvals.                                                         *)
Asked == \E j \in jobs : /\ j.id = made /\ j.status = "asked" /\ task.state = "Blocked"
                         /\ task.approval.req # 0 /\ task.approval.plan # 0
AnswerImplementation ==
    \E j \in jobs :
        /\ Asked /\ j.status = "asked" /\ IdentityCurrent(j)
        /\ task' = To(task, IF j.kind = "implement" THEN "Queued" ELSE "Fixing")
        /\ Enqueue(jobs, j.kind, task')
        /\ Calm /\ UNCHANGED <<plans, ledger, pending, merging, github>>

(* answer and revise: back to the requirements, without approvals.         *)
Revise ==
    /\ task.state \notin {"Cancelled", "Merged", "Merging"}
    /\ task' = [Invalidated(To(task, "DraftingRequirements")) EXCEPT
                  !.approval = [req |-> 0, plan |-> 0]]
    /\ EnqueuePinned(Kept, "draft", [Identity EXCEPT !.plan = 0, !.head = 0])
    /\ Troubled /\ UNCHANGED <<plans, ledger, pending, merging, github>>

Stop(state) ==
    /\ task.state \notin {"Cancelled", "Merged"}
    /\ jobs' = Kept /\ task' = Invalidated(To(task, state))
    /\ Troubled /\ UNCHANGED <<made, plans, ledger, pending, merging, github>>
Pause == Stop("Paused")
Cancel == Stop("Cancelled")

(* resume, and retry when no job of its own can be retried: a new review
   when there is a pull request, else a job that only workflow v1 knows.    *)
Restart == LET restarted == To(task, IF task.head # 0 THEN "Reviewing" ELSE "Clarifying")
           IN /\ task' = restarted
              /\ Enqueue(jobs, IF task.head # 0 THEN "review" ELSE "clarify", restarted)
              /\ UNCHANGED <<plans, ledger, pending, merging, github>>

Resume == task.state = "Paused" /\ Restart /\ Calm

RetryProposal ==
    /\ task.state = "Blocked" /\ task.proposed
    /\ \E j \in jobs : j.status = "proposed" /\ Set(j, [j EXCEPT !.status = "queued"])
    /\ task' = To(task, "DraftingRequirements")
    /\ Calm /\ UNCHANGED <<made, plans, ledger, pending, merging, github>>

RetryState(kind) ==
    CASE kind = "draft" -> "DraftingRequirements" [] kind = "plan" -> "PlanningImplementation"
      [] kind = "review_plan" -> "ReviewingImplementationPlan" [] kind = "implement" -> "Queued"
      [] kind = "fix" -> "Fixing" [] kind = "review" -> "Reviewing"
(* Mutant: nothing stands in for a state that was not saved.               *)
RetryFailedAsSaved ==
    /\ task.state = "Blocked" /\ ~task.proposed
    /\ \E j \in jobs :
         /\ j.id = made /\ j.status = "failed" /\ Set(j, [j EXCEPT !.status = "queued"])
         /\ task' = [To(task, task.retry) EXCEPT !.retry = "none"]
    /\ Calm /\ UNCHANGED <<made, plans, ledger, pending, merging, github>>
RetryFailed ==
    /\ task.state = "Blocked" /\ ~task.proposed
    /\ \E j \in jobs :
         /\ j.id = made /\ j.status = "failed" /\ Set(j, [j EXCEPT !.status = "queued"])
         /\ task' = [To(task, IF task.retry # "none" THEN task.retry ELSE RetryState(j.kind))
                       EXCEPT !.retry = "none"]
    /\ Calm /\ UNCHANGED <<made, plans, ledger, pending, merging, github>>

RetryAnew == /\ task.state = "Blocked" /\ ~task.proposed
             /\ ~\E j \in jobs : j.id = made /\ j.status = "failed"
             /\ Restart /\ Calm

Command == \/ ApproveRequirements \/ ApprovePlan \/ ApproveMerge \/ AnswerImplementation
           \/ Revise \/ Pause \/ Cancel \/ Resume
           \/ RetryProposal \/ RetryFailed \/ RetryAnew
-----------------------------------------------------------------------------
(* Engine.reconcile: its first transaction looks at GitHub once and takes   *)
(* the first of these branches that applies                                 *)

Reconciled == ~merging /\ task.state \notin {"Paused", "Cancelled", "Merged"} /\ task.head # 0
(* Drafting and confirming the requirements own the Issue.                 *)
Owned == \/ task.state \in {"DraftingRequirements", "AwaitingRequirementsConfirmation"}
         \/ task.state = "Blocked" /\ task.approval.req = 0
Confirmed == Reconciled /\ ~Owned /\ IssueIntact /\ PlanIntact(Tip)
Unmerged == Confirmed /\ github.pr # "merged" /\ task.state # "Blocked"
Aligned == /\ Unmerged /\ github.pr = "open" /\ github.base = task.base /\ Tip = task.head
           /\ task.state \in Gated

ReconcileIssue ==
    /\ Reconciled /\ ~Owned /\ ~IssueIntact
    /\ task' = [Invalidated(To(task, "DraftingRequirements")) EXCEPT
                  !.approval = [req |-> 0, plan |-> 0]]
    /\ Enqueue(Kept, "draft", task')
    /\ Calm /\ UNCHANGED <<plans, ledger, pending, merging, github>>

ReconcilePlan ==
    /\ Reconciled /\ ~Owned /\ IssueIntact /\ ~PlanIntact(Tip)
    /\ task' = [Invalidated(To(task, "PlanningImplementation")) EXCEPT !.approval.plan = 0]
    /\ Enqueue(Kept, "plan", task')
    /\ Calm /\ UNCHANGED <<plans, ledger, pending, merging, github>>

ReconcileMerged ==
    /\ Confirmed /\ github.pr = "merged"
    /\ task' = Invalidated(To(task, "Merged")) /\ jobs' = Kept
    /\ Calm /\ UNCHANGED <<made, plans, ledger, pending, merging, github>>

Halt == /\ task' = Invalidated(To(task, "Blocked")) /\ jobs' = Kept /\ UNCHANGED made

ReconcileClosed ==
    /\ Unmerged /\ (github.pr = "closed" \/ github.base # task.base) /\ Halt
    /\ Calm /\ UNCHANGED <<plans, ledger, pending, merging, github>>

ReconcileHead ==
    /\ Unmerged /\ github.pr = "open" /\ github.base = task.base /\ Tip # task.head
    /\ task' = [Invalidated(To(task, "Reviewing")) EXCEPT !.head = Tip]
    /\ Enqueue(Kept, "review", task')
    /\ Calm /\ UNCHANGED <<plans, ledger, pending, merging, github>>

(* merge_gate: what makes it raise, and whether the owner is still to ask.   *)
GateRefuses ==
    \/ task.state \notin Gated \/ github.pr # "open" \/ github.draft
    \/ Tip # task.head \/ github.base # task.base
    \/ task.approval.req = 0 \/ task.approval.plan = 0
    \/ task.review # Identity
    \/ github.review # [head |-> Tip, ok |-> TRUE]
(* Mutant: an approval that has not expired is good for any identity.      *)
NeedsHumanUntilExpired == ~task.mergeLive
NeedsHuman == task.merge # Identity \/ ~task.mergeLive

ReconcileRefused ==
    /\ Aligned /\ GateRefuses /\ Halt
    /\ Calm /\ UNCHANGED <<plans, ledger, pending, merging, github>>

FailedChecks ==
    /\ Aligned /\ ~GateRefuses /\ Halt
    /\ Troubled /\ UNCHANGED <<plans, ledger, pending, merging, github>>

AskToMerge ==
    /\ Aligned /\ ~GateRefuses /\ NeedsHuman /\ task.state # "AwaitingMergeApproval"
    /\ task' = To(task, "AwaitingMergeApproval")
    /\ Calm /\ UNCHANGED <<jobs, made, plans, ledger, pending, merging, github>>

BeginMerge ==
    /\ Aligned /\ ~GateRefuses /\ ~NeedsHuman
    /\ task' = To(task, "Merging") /\ merging' = TRUE
    /\ Calm /\ UNCHANGED <<jobs, made, plans, ledger, pending, github>>

(* The second transaction reads the pull request again, but neither the
   Issue nor the plan.                                                     *)
MergedByUs == [github EXCEPT !.pr = "merged", !.at = @ + 1, !.merged = Identity]
Merge ==
    /\ merging /\ ~GateRefuses /\ ~NeedsHuman
    /\ github' = MergedByUs /\ merging' = FALSE
    /\ \/ task' = To(task, "Merged") /\ Calm
       \/ UNCHANGED task /\ Troubled        \* the answer is lost
    /\ UNCHANGED <<jobs, made, plans, ledger, pending>>
MergeRefused ==
    /\ merging /\ merging' = FALSE
    /\ IF github.pr # "merged" /\ GateRefuses /\ task.state \notin STOPPED
       THEN Halt
       ELSE UNCHANGED <<task, jobs, made>>    \* merged by now, or a check is not
    /\ Calm /\ UNCHANGED <<plans, ledger, pending, github>>

(* GitHub cannot be read three times in a row.                             *)
ReconcileFails ==
    /\ task.state \notin STOPPED /\ task.head # 0 /\ Halt /\ merging' = FALSE
    /\ Troubled /\ UNCHANGED <<plans, ledger, pending, github>>

Reconcile == \/ ReconcileIssue \/ ReconcilePlan \/ ReconcileMerged \/ ReconcileClosed
             \/ ReconcileHead \/ ReconcileRefused \/ FailedChecks \/ AskToMerge \/ BeginMerge
             \/ Merge \/ MergeRefused \/ ReconcileFails
-----------------------------------------------------------------------------
(* recover_stalled_v2, with which reconcile begins: a transaction of its own
   that locks no row.  It reads a task whose open jobs have been silent for
   long - silence is time, the module Scheduler's too, and may come at any
   moment here - and writes the row as it read it, whatever was committed in
   between.  Claims and reconciliations are its own process's and wait.      *)

OpenJobs == {j \in jobs : Open(j)}
ReadStalled ==
    /\ recovery = <<>> /\ ~merging /\ task.state \in Working
    /\ \E latest \in OpenJobs :
         /\ \A j \in OpenJobs : j.id <= latest.id
         /\ recovery' = [row |-> task, open |-> {j.id : j \in OpenJobs}, kind |-> latest.kind]
    /\ Troubled /\ UNCHANGED <<task, jobs, made, plans, ledger, pending, merging, github>>

(* What is not in Task.data stays as it is: the state, the tables that
   RequirementsReference and ExecutionBudget are, and the clock.           *)
Recalled ==
    [recovery.row EXCEPT
       !.state = task.state, !.body = task.body, !.reqApproved = task.reqApproved,
       !.revisions = task.revisions,
       !.mergeLive = @ /\ (task.merge = recovery.row.merge => task.mergeLive)]
RecoverStalled ==
    /\ recovery # <<>> /\ recovery' = <<>>
    /\ LET left == {j \in jobs : j.id \notin recovery.open}
       IN IF recovery.row.stalled
          THEN /\ task' = To(Recalled, "Blocked")
               /\ jobs' = left /\ UNCHANGED made
          ELSE /\ \E retried \in BOOLEAN :      \* is the state still the one it read
                    /\ retried => task.state = recovery.row.state
                    /\ task = recovery.row => retried
                    /\ task' = [Recalled EXCEPT !.stalled = retried]
               /\ EnqueuePinned(left, recovery.kind, IdentityOf(recovery.row))
    /\ Calm /\ UNCHANGED <<plans, ledger, pending, merging, github>>

StallRecovery == ReadStalled \/ RecoverStalled
-----------------------------------------------------------------------------
(* What happens to GitHub and to the process *)

(* The owner copies a proposal into the Issue; anyone edits it.            *)
CopyProposal ==
    /\ \E j \in jobs : /\ j.status = "proposed" /\ github.body # j.id
                       /\ github.at < MaxEdits
                       /\ github' = [github EXCEPT !.body = j.id, !.at = @ + 1]
    /\ Calm /\ UNCHANGED <<task, jobs, made, plans, ledger, pending, merging>>

Interfere(state) ==
    /\ github' = state /\ Troubled
    /\ UNCHANGED <<task, jobs, made, plans, ledger, pending, merging>>
EditIssue == github.at < MaxEdits /\ Interfere([github EXCEPT !.body = Foreign, !.at = @ + 1])
Push == /\ Tip \in 1..(MaxCommits - 1) /\ github.pr \in {"open", "closed"}
        /\ \E files \in {FilesAt(Tip)} \cup
                        {[FilesAt(Tip) EXCEPT ![v] = Foreign] : v \in {task.plan} \ {0}} :
             Interfere([github EXCEPT !.log = Append(@, [key |-> <<>>, files |-> files])])
MoveBase == github.base = 1 /\ Interfere([github EXCEPT !.base = 2])
(* GitHub closes the Issue that the pull request names when it is merged.    *)
MergeOutside == github.pr = "open" /\ Interfere([github EXCEPT !.pr = "merged", !.at = @ + 1])
ClosePull == github.pr = "open" /\ Interfere([github EXCEPT !.pr = "closed"])

ExpireApproval ==
    /\ task.mergeLive /\ task' = [task EXCEPT !.mergeLive = FALSE]
    /\ Troubled /\ UNCHANGED <<jobs, made, plans, ledger, pending, merging, github>>

(* The process restarts: its jobs lapse, its unmade calls are forgotten.    *)
Crash ==
    /\ jobs' = {IF j.status = "running" THEN [j EXCEPT !.status = "queued", !.at = "start"] ELSE j :
                  j \in jobs}
    /\ pending' = {} /\ merging' = FALSE /\ recovery' = <<>>
    /\ Troubled /\ UNCHANGED <<task, made, plans, ledger, github>>

World == \/ CopyProposal \/ EditIssue \/ Push \/ MoveBase \/ MergeOutside \/ ClosePull
         \/ ExpireApproval
-----------------------------------------------------------------------------
Init ==
    /\ task = [state |-> "DraftingRequirements", proposed |-> FALSE, req |-> 0, reqAt |-> 0,
               body |-> 0, reqApproved |-> FALSE, plan |-> 0, base |-> 0, head |-> 0,
               offer |-> [req |-> 0, plan |-> 0], approval |-> [req |-> 0, plan |-> 0],
               review |-> None, merge |-> None, mergeLive |-> FALSE, retry |-> "none",
               revisions |-> [plan |-> 0, fix |-> 0], stalled |-> FALSE]
    /\ made = 1
    /\ jobs = {[id |-> 1, kind |-> "draft", status |-> "queued", pins |-> None, at |-> "start",
                request |-> <<>>, saved |-> FALSE, verdict |-> "none", published |-> 0, indexed |-> 0]}
    /\ plans = <<>> /\ ledger = {} /\ pending = {} /\ merging = FALSE
    /\ recovery = <<>> /\ trouble = 0
    /\ github = [body |-> Placeholder, at |-> 0, log |-> <<>>, pr |-> "none", draft |-> FALSE,
                 base |-> 1, review |-> [head |-> 0, ok |-> FALSE], merged |-> None]

Steps == \/ \E j \in jobs : Execution(j)
         \/ \E p \in pending : Registration(p)
         \/ Command \/ World
         \/ recovery = <<>> /\ (Reconcile \/ \E j \in jobs : Dispatch(j))
Next == \/ Steps /\ UNCHANGED recovery
        \/ StallRecovery \/ Crash

Spec == Init /\ [][Next]_vars
-----------------------------------------------------------------------------
(* Properties *)

(* Every row has its type, and the task's head is a commit of its branch.   *)
Tables ==
    /\ task \in TaskRows
    /\ made \in JobIds /\ jobs \subseteq JobRows
    /\ plans \in Seq([hash : Texts, base : Nat,
                      status : {"pending", "approved", "changes_requested"}])
    /\ ledger \subseteq [stage : {"requirements", "plan", "review", "merge"}, id : Nat,
                        target : Identities]
    /\ pending \subseteq Pendings
    /\ merging \in BOOLEAN /\ trouble \in 0..MaxTrouble
    /\ github.body \in Texts /\ github.pr \in {"none", "open", "merged", "closed"}
    /\ Tip <= MaxCommits /\ task.head <= Tip
TypeOK == Tables /\ recovery \in Recoveries \cup {<<>>}

Has(stage, target) == \E g \in ledger : g.stage = stage /\ g.target = target

(* Engine.reconcile: what the orchestrator merges has requirements that their
   owner confirmed, and its head, base, requirements and plan together were
   approved by an independent review and again by the owner.                *)
MergedAsReviewed ==
    LET merged == github.merged
    IN merged # None =>
        /\ Has("requirements", [None EXCEPT !.req = merged.req])
        /\ Has("review", merged)
        /\ Has("merge", merged)

(* docs/adr/0006: only the version of the plan that the owner approved is
   implemented, let alone merged.                                          *)
MergedPlanApproved ==
    LET merged == github.merged
    IN merged # None => Has("plan", [None EXCEPT !.plan = merged.plan, !.base = merged.base])

(* Work under an implementation is only published while its plan and its
   requirements are approved.                                              *)
PublishesApproved ==
    [][\A j \in jobs :
        Implementing(j) /\ github' # github /\ Tip' > Tip
            /\ github'.log[Tip'].key \in {<<j.id, "implementation">>, <<j.id, "index">>} =>
          RequirementsGrant \in ledger /\ PlanGrant \in ledger]_vars

(* Engine.external and GitHub.publish: whatever is lost, repeated, or pushed
   in between, a job puts each of its commits on the branch at most once.   *)
PublishedOnce ==
    \A a, b \in 1..Tip :
        github.log[a].key = github.log[b].key /\ github.log[a].key # <<>> => a = b

(* A pause and a cancellation hold against everything in flight: executions,
   unmade calls of WorkflowV2Service and reconciliation neither leave the
   state nor approve, publish, review or merge anything; only the owner's
   resume, answer or cancellation leaves a pause, and nothing a cancellation.
   The one exception is the stall recovery that had read the task at work: it
   may put Blocked over either, but does nothing else to GitHub or the books. *)
Stopped == task.state \in {"Paused", "Cancelled"}
Ended == task.state = "Paused" /\ (Resume \/ Revise \/ Stop("Cancelled"))
WrittenOver == RecoverStalled /\ recovery.row.state \in Working
StopHolds ==
    [][Stopped =>
        \/ Ended
        \/ /\ task'.state = task.state \/ (WrittenOver /\ task'.state = "Blocked")
           /\ UNCHANGED <<plans, ledger, github.review, github.draft, github.merged>>
           /\ UNCHANGED github.log \/ Push]_vars
=============================================================================
