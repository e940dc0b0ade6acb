------------------------ MODULE WorkflowV2GrantProofs ------------------------
(***************************************************************************)
(* What module WorkflowV2 promises of an implementation: it is published   *)
(* only while its owner's grants of the requirements and of the plan are   *)
(* on record, for any number of jobs, plans, commits and troubles.         *)
(*                                                                         *)
(* A grant names a text and a version, and so do the jobs; the invariant   *)
(* says that neither comes back, and what becomes of a job that pins none. *)
(***************************************************************************)
EXTENDS WorkflowV2Proofs

(* A text is named by the job that wrote it, and is registered once: one
   that waits to be, or can still be proposed, is in use nowhere.           *)
Waits(p) == p.kind = "requirements"
Unused(text) == task.req # text /\ \A j \in jobs : j.pins.req # text
Named ==
    /\ task.req <= made /\ \A j \in jobs : j.pins.req <= made
    /\ \A p \in pending : Waits(p) => p.body <= made
Fresh ==
    /\ \A p \in pending : Waits(p) => Unused(p.body)
    /\ \A p, q \in pending : Waits(p) /\ Waits(q) /\ p.body = q.body => p = q
    /\ \A j \in jobs : j.kind = "draft" =>
          Unused(j.id) /\ \A p \in pending : Waits(p) => p.body # j.id

(* The task's plan is the latest, and has the task's base; what jobs pin is
   not newer than the task.                                                 *)
Versioned ==
    /\ task.plan = Len(plans) /\ github.base # 0
    /\ task.plan # 0 => task.head # 0 /\ task.req # 0 /\ task.base = plans[task.plan].base
    /\ \A v \in 1..Len(plans) : plans[v].base # 0 /\ plans[v].hash # 0
    /\ \A p \in pending : p.kind = "plan" =>
          p.base # 0 /\ p.hash # 0 /\ task.head # 0 /\ task.req # 0
    /\ \A j \in jobs :
          /\ j.pins.head <= task.head /\ j.pins.plan <= task.plan
          /\ j.request # <<>> => j.request.base # 0
          /\ Implementing(j) => j.pins.req # 0 /\ j.pins.head # 0
          /\ j.kind = "review_plan" => j.pins.plan # 0

(* A plan is reviewed once.                                                 *)
Undecided(plan) == plan \in 1..Len(plans) /\ plans[plan].status = "pending"
ReviewedOnce ==
    /\ \A j \in jobs : j.kind = "review_plan" =>
          /\ Undecided(j.pins.plan)
          /\ \A k \in jobs : k.kind = "review_plan" /\ k.pins.plan = j.pins.plan => k = j
          /\ \A p \in pending : p.kind = "plan_review" => p.plan # j.pins.plan
    /\ \A p \in pending : p.kind = "plan_review" =>
          /\ Undecided(p.plan)
          /\ \A q \in pending : q.kind = "plan_review" /\ q.plan = p.plan => q = p

(* Files are written for the next plan only: a head from before the first
   plan will not do for a second one.                                       *)
Blank(commit) == \A v \in 2..MaxPlans : github.log[commit].files[v] = 0
Unprepared(j) == \/ j.kind = "review"
                 \/ Implementing(j) /\ j.request = <<>>
Files ==
    /\ \A a \in 1..Tip, v \in 1..MaxPlans : v > task.plan + 1 => github.log[a].files[v] = 0
    /\ \A j \in jobs : Unprepared(j) /\ j.pins.plan = 0 => Blank(j.pins.head)

(* A fix that was asked for before there was a plan pins none, and matches
   any.                                                                     *)
Bare(j) == /\ Implementing(j) /\ j.pins.plan = 0
           /\ j.pins.req = task.req /\ j.pins.head = task.head
(* The requirements it pins are confirmed, and will not be again.           *)
Confirmations ==
    /\ task.reqApproved => Granted(ledger, task.offer.req, "requirements")
    /\ \A j \in jobs :
          /\ j.pins.req = task.req
          /\ \/ j.kind = "review" /\ j.request # <<>>
             \/ Implementing(j) /\ j.pins.plan = 0
          =>
             Granted(ledger, task.offer.req, "requirements")

(* When the first plan can still be approved, or is, no second one can be
   registered while such a fix is current.                                  *)
Planning == "PlanningImplementation"
Rejected == \/ task.plan > 1
            \/ task.plan = 1 /\ plans[1].status = "changes_requested"
OnePlan ==
    \A j \in jobs : Bare(j) =>
        \/ Rejected
        \/ /\ IF task.plan = 0 THEN task.state # Planning \/ task.retry # Planning
              ELSE Planning \notin {task.state, task.retry}
           /\ \A k \in jobs : k.kind = "plan" => k.id < j.id

(* What was prepared under the task's requirements and plan was under its
   owner's grants of both.                                                  *)
Prepared(j) == Implementing(j) /\ j.request # <<>>
Granting ==
    \A j \in jobs :
        /\ Prepared(j) /\ j.pins.req = task.req /\ j.pins.plan # 0 /\ j.pins.plan = task.plan =>
              RequirementsGrant \in ledger /\ PlanGrant \in ledger
        /\ Prepared(j) /\ Bare(j) =>
              /\ task.plan = 1 /\ plans[1].status = "approved"
              /\ RequirementsGrant \in ledger /\ PlanGrant \in ledger

GInv == Named /\ Fresh /\ Versioned /\ ReviewedOnce /\ Files /\ Confirmations /\ OnePlan /\ Granting

-----------------------------------------------------------------------------
(* What is known of types                                                   *)

Sorts ==
    /\ task.req \in Nat /\ task.plan \in Nat /\ task.head \in Nat /\ task.base \in Nat
    /\ made \in Nat /\ Tip \in Nat /\ task.head <= Tip /\ Len(plans) \in Nat
    /\ task \in TaskRows /\ plans \in Seq(Plans)
    /\ \A j \in jobs :
          /\ j \in JobRows /\ j.id \in Nat /\ j.id # 0 /\ j.id <= made
          /\ j.pins.req \in Nat /\ j.pins.plan \in Nat /\ j.pins.head \in Nat /\ j.pins.base \in Nat
          /\ j.kind = "review" => j.pins.head # 0
    /\ \A j, k \in jobs : j.id = k.id => j = k
    /\ \A p \in pending :
          /\ Waits(p) => p.body \in Nat /\ p.body # 0
          /\ p.kind = "plan" => p.hash \in Nat /\ p.base \in Nat
          /\ p.kind = "plan_review" => p.plan \in Nat

LEMMA Sorted == IInv => Sorts
<1> SUFFICES ASSUME IInv PROVE Sorts
  OBVIOUS
<1>1. Tables /\ JobRowsTell /\ Reviews /\ Grown /\ github \in Hubs
  BY DEF IInv
<1>2. /\ task \in TaskRows /\ made \in JobIds /\ \A j \in jobs : j \in JobRows
      /\ plans \in Seq(Plans) /\ Len(plans) \in Nat /\ pending \subseteq Pendings
      /\ task.head <= Tip
  BY <1>1, Typed
<1>3. Tip \in Nat
  BY <1>1, Tips
<1>4. /\ task.req \in Nat /\ task.plan \in Nat /\ task.head \in Nat /\ task.base \in Nat /\ made \in Nat
  BY <1>2, TaskTyped, Numbers
<1>5. ASSUME NEW j \in jobs
      PROVE  /\ j.id \in Nat /\ j.id # 0 /\ j.id <= made
             /\ j.pins.req \in Nat /\ j.pins.plan \in Nat /\ j.pins.head \in Nat /\ j.pins.base \in Nat
             /\ j.kind = "review" => j.pins.head # 0
  BY <1>1, <1>2, JobTyped, IdentityTyped, Numbers DEF JobRowsTell, Row, Reviews, Pinned
<1>6. ASSUME NEW p \in pending
      PROVE  /\ Waits(p) => p.body \in Nat /\ p.body # 0
             /\ p.kind = "plan" => p.hash \in Nat /\ p.base \in Nat
             /\ p.kind = "plan_review" => p.plan \in Nat
  BY <1>1, <1>2, Numbers DEF Pendings, Waits, Grown
<1> QED BY <1>1, <1>2, <1>3, <1>4, <1>5, <1>6 DEF Sorts, JobRowsTell

LEMMA SortedAfter == IInv' => Sorts'
BY Sorted, PTL

-----------------------------------------------------------------------------
(* What becomes of the jobs                                                 *)

(* A job joins with what the task pins; a draft may pin less.               *)
Joins(k) ==
    /\ k.id = made + 1 /\ made' = made + 1 /\ k.request = <<>>
    /\ k.pins.req \in {0, task'.req} /\ k.pins.plan \in {0, task'.plan}
    /\ k.pins.head \in {0, task'.head}
    /\ k.kind # "draft" =>
          k.pins.req = task'.req /\ k.pins.plan = task'.plan /\ k.pins.head = task'.head
    /\ Implementing(k) => task'.req # 0 /\ task'.head # 0
    /\ k.kind = "review" => task'.head # 0
    /\ k.kind = "review_plan" => task'.plan # 0

Kin(j, k) ==
    /\ k.id = j.id /\ k.kind = j.kind
    /\ k.pins.req = j.pins.req /\ k.pins.plan = j.pins.plan
Going(j, k) == k.id = j.id /\ k.kind = j.kind /\ k.pins = j.pins /\ k.request = j.request
Kins == made <= made' /\ \A k \in jobs' : Joins(k) \/ \E j \in jobs : Kin(j, k)
Crew == made <= made' /\ \A k \in jobs' : Joins(k) \/ \E j \in jobs : Going(j, k)

LEMMA CrewKins == Crew => Kins
BY DEF Crew, Kins, Going, Kin

-----------------------------------------------------------------------------
(* The parts of the invariant, when little changes                          *)

LEMMA NamedKept ==
    ASSUME IInv, IInv', GInv, Kins, task'.req <= made',
           \A p \in pending' : Waits(p) => p \in pending \/ p.body <= made
    PROVE  Named'
<1>1. Sorts /\ Sorts' /\ Named
  BY Sorted, SortedAfter DEF GInv
<1>2. ASSUME NEW k \in jobs' PROVE k.pins.req <= made'
  <2>1. made \in Nat /\ made' \in Nat /\ made <= made'
    BY <1>1 DEF Sorts, Kins
  <2>2. CASE Joins(k)
    BY <2>1, <2>2 DEF Joins
  <2>3. CASE \E j \in jobs : Kin(j, k)
    BY <1>1, <2>1, <2>3 DEF Kin, Sorts, Named
  <2> QED BY <2>2, <2>3 DEF Kins
<1>3. ASSUME NEW p \in pending', Waits(p) PROVE p.body <= made'
  BY <1>1, <1>3 DEF Kins, Sorts, Named
<1> QED BY <1>2, <1>3 DEF Named, Waits

LEMMA StillUnused ==
    ASSUME Kins, task'.req = task.req, NEW text, text # 0, Unused(text)
    PROVE  Unused(text)'
BY DEF Unused, Kins, Joins, Kin

LEMMA FreshKept ==
    ASSUME IInv, IInv', GInv, Kins, task'.req = task.req,
           \A p \in pending' : Waits(p) => p \in pending
    PROVE  Fresh'
<1>1. Sorts /\ Sorts' /\ Named /\ Fresh
  BY Sorted, SortedAfter DEF GInv
<1>2. ASSUME NEW p \in pending', Waits(p) PROVE Unused(p.body)'
  BY <1>1, <1>2, StillUnused DEF Fresh, Sorts
<1>3. \A p, q \in pending' : Waits(p) /\ Waits(q) /\ p.body = q.body => p = q
  BY <1>1 DEF Fresh
<1>4. ASSUME NEW k \in jobs', k.kind = "draft"
      PROVE  Unused(k.id)' /\ \A p \in pending' : Waits(p) => p.body # k.id
  <2>1. CASE \E j \in jobs : Kin(j, k)
    <3>1. PICK j \in jobs : Kin(j, k)
      BY <2>1
    <3>2. PICK id : id = k.id
      OBVIOUS
    <3>3. id # 0 /\ Unused(id) /\ \A p \in pending : Waits(p) => p.body # id
      BY <1>1, <1>4, <3>1, <3>2 DEF Kin, Sorts, Fresh
    <3>4. Unused(id)'
      BY <3>3, StillUnused
    <3> QED BY <3>2, <3>3, <3>4
  <2>2. CASE Joins(k)
    <3>1. k.id = made + 1 /\ task'.req <= made
      BY <1>1, <2>2 DEF Joins, Named
    <3>2. ASSUME NEW l \in jobs' PROVE l.pins.req <= made
      <4>1. made \in Nat
        BY <1>1 DEF Sorts
      <4>2. CASE Joins(l)
        BY <3>1, <4>1, <4>2 DEF Joins
      <4>3. CASE \E j \in jobs : Kin(j, l)
        BY <1>1, <4>3 DEF Kin, Named
      <4> QED BY <4>2, <4>3 DEF Kins
    <3>3. Unused(k.id)'
      BY <1>1, <3>1, <3>2 DEF Unused, Sorts
    <3> QED BY <1>1, <3>1, <3>3 DEF Named, Sorts
  <2> QED BY <2>1, <2>2 DEF Kins
<1> QED BY <1>2, <1>3, <1>4 DEF Fresh, Waits

(* The plans keep what they are, and the task its plan.                     *)
PlansStay ==
    /\ task'.plan = task.plan /\ Len(plans') = Len(plans)
    /\ \A v \in 1..Len(plans) :
          /\ plans'[v].hash = plans[v].hash /\ plans'[v].base = plans[v].base
          /\ plans[v].status # "pending" => plans'[v].status = plans[v].status

LEMMA VersionedKept ==
    ASSUME IInv, IInv', GInv, Crew, PlansStay, github'.base # 0, task.head <= task'.head,
           task.req # 0 => task'.req # 0, task.plan # 0 => task'.base = task.base,
           \A p \in pending' : p.kind = "plan" =>
              p \in pending \/ (p.base # 0 /\ p.hash # 0 /\ task'.head # 0 /\ task'.req # 0)
    PROVE  Versioned'
<1>1. Sorts /\ Sorts' /\ Versioned
  BY Sorted, SortedAfter DEF GInv
<1>2. task'.plan = Len(plans')
  BY <1>1 DEF Versioned, PlansStay
<1>3. task.head \in Nat /\ task'.head \in Nat /\ task.head <= task'.head
  BY <1>1 DEF Sorts
<1>4. task'.plan # 0 =>
        task'.head # 0 /\ task'.req # 0 /\ task'.base = plans'[task'.plan].base
  BY <1>1, <1>3 DEF Versioned, PlansStay, Sorts
<1>5. \A v \in 1..Len(plans') : plans'[v].base # 0 /\ plans'[v].hash # 0
  BY <1>1 DEF Versioned, PlansStay
<1>6. ASSUME NEW p \in pending', p.kind = "plan"
      PROVE  p.base # 0 /\ p.hash # 0 /\ task'.head # 0 /\ task'.req # 0
  BY <1>1, <1>3, <1>6 DEF Versioned
<1>7. ASSUME NEW k \in jobs'
      PROVE  /\ k.pins.head <= task'.head /\ k.pins.plan <= task'.plan
             /\ k.request # <<>> => k.request.base # 0
             /\ Implementing(k) => k.pins.req # 0 /\ k.pins.head # 0
             /\ k.kind = "review_plan" => k.pins.plan # 0
  <2>1. CASE Joins(k)
    <3>1. task'.plan \in Nat
      BY <1>1 DEF Sorts
    <3> QED BY <1>3, <2>1, <3>1 DEF Joins, Implementing
  <2>2. CASE \E j \in jobs : Going(j, k)
    <3>1. PICK j \in jobs : Going(j, k)
      BY <2>2
    <3>2. /\ j.pins.head <= task.head /\ j.pins.plan <= task.plan /\ j.pins.head \in Nat
          /\ j.request # <<>> => j.request.base # 0
          /\ Implementing(j) => j.pins.req # 0 /\ j.pins.head # 0
          /\ j.kind = "review_plan" => j.pins.plan # 0
      BY <1>1 DEF Versioned, Sorts
    <3> QED BY <1>3, <3>1, <3>2 DEF Going, PlansStay, Implementing
  <2> QED BY <2>1, <2>2 DEF Crew
<1> QED BY <1>1, <1>2, <1>4, <1>5, <1>6, <1>7 DEF Versioned, Implementing

(* No review of a plan is asked for or done.                                *)
LEMMA ReviewedOnceKept ==
    ASSUME IInv, IInv', GInv, Kins, Len(plans') = Len(plans),
           \A v \in 1..Len(plans) : plans'[v].status = plans[v].status,
           \A k \in jobs' : Joins(k) => k.kind # "review_plan",
           \A p \in pending' : p.kind = "plan_review" => p \in pending
    PROVE  ReviewedOnce'
<1>1. Sorts /\ Sorts' /\ ReviewedOnce
  BY Sorted, SortedAfter DEF GInv
<1>2. \A v : Undecided(v) => Undecided(v)'
  BY DEF Undecided
<1>3. ASSUME NEW k \in jobs', k.kind = "review_plan"
      PROVE  /\ Undecided(k.pins.plan)'
             /\ \A l \in jobs' : l.kind = "review_plan" /\ l.pins.plan = k.pins.plan => l = k
             /\ \A p \in pending' : p.kind = "plan_review" => p.plan # k.pins.plan
  <2>1. PICK j \in jobs : Kin(j, k)
    BY <1>3 DEF Kins
  <2>2. Undecided(j.pins.plan) /\ j.kind = "review_plan" /\ k.pins.plan = j.pins.plan /\ k.id = j.id
    BY <1>1, <1>3, <2>1 DEF ReviewedOnce, Kin
  <2>3. PICK plan : plan = k.pins.plan
    OBVIOUS
  <2>4. Undecided(plan)'
    BY <1>2, <2>2, <2>3
  <2>5. ASSUME NEW l \in jobs', l.kind = "review_plan", l.pins.plan = k.pins.plan PROVE l = k
    <3>1. PICK i \in jobs : Kin(i, l)
      BY <2>5 DEF Kins
    <3>2. i = j
      BY <1>1, <2>2, <2>5, <3>1 DEF ReviewedOnce, Kin
    <3> QED BY <1>1, <2>2, <3>1, <3>2 DEF Kin, Sorts
  <2> QED BY <1>1, <2>2, <2>3, <2>4, <2>5 DEF ReviewedOnce
<1>4. ASSUME NEW p \in pending', p.kind = "plan_review"
      PROVE  Undecided(p.plan)' /\ \A q \in pending' : q.kind = "plan_review" /\ q.plan = p.plan => q = p
  BY <1>1, <1>2, <1>4 DEF ReviewedOnce
<1> QED BY <1>3, <1>4 DEF ReviewedOnce

(* The branch only grows, by commits with no more files.                    *)
BranchStays ==
    /\ Tip <= Tip' /\ \A a \in 1..Tip : github'.log[a] = github.log[a]
    /\ \A a \in 1..Tip' : a \in 1..Tip \/ \A v \in 1..MaxPlans :
          v > task.plan + 1 => github'.log[a].files[v] = 0

LEMMA FilesKept ==
    ASSUME IInv, IInv', GInv, Crew, task.plan <= task'.plan, BranchStays
    PROVE  Files'
<1>1. Sorts /\ Sorts' /\ Versioned /\ Files
  BY Sorted, SortedAfter DEF GInv
<1>2. task.plan \in Nat /\ task'.plan \in Nat /\ MaxPlans \in Nat /\ Tip \in Nat /\ Tip' \in Nat
  BY <1>1, WorkflowV2Assumption DEF Sorts
<1>3. ASSUME NEW a \in 1..Tip', NEW v \in 1..MaxPlans, v > task'.plan + 1
      PROVE  github'.log[a].files[v] = 0
  <2>1. v > task.plan + 1
    BY <1>2, <1>3
  <2> QED BY <1>1, <2>1 DEF Files, BranchStays
<1>4. ASSUME NEW k \in jobs', Unprepared(k), k.pins.plan = 0 PROVE Blank(k.pins.head)'
  <2>1. PICK head : head = k.pins.head
    OBVIOUS
  <2>2. CASE Joins(k)
    <3>1. task'.plan = 0 /\ head \in 1..Tip'
      BY <1>1, <1>4, <2>1, <2>2 DEF Joins, Unprepared, Implementing, Sorts
    <3>2. \A v \in 2..MaxPlans : v \in 1..MaxPlans /\ v > task'.plan + 1
      BY <1>2, <3>1
    <3> QED BY <1>3, <2>1, <3>1, <3>2 DEF Blank
  <2>3. CASE \E j \in jobs : Going(j, k)
    <3>1. PICK j \in jobs : Going(j, k)
      BY <2>3
    <3>2. Blank(head) /\ head # 0 /\ head \in Nat /\ head <= task.head
      BY <1>1, <1>4, <2>1, <3>1 DEF Going, Unprepared, Implementing, Files, Sorts, Versioned
    <3>3. head \in 1..Tip
      BY <1>1, <3>2 DEF Sorts
    <3>4. Blank(head)'
      BY <3>2, <3>3 DEF Blank, BranchStays
    <3> QED BY <2>1, <3>4
  <2> QED BY <2>2, <2>3 DEF Crew
<1> QED BY <1>3, <1>4 DEF Files, Unprepared, Implementing

(* A grant is for good.                                                     *)
LEMMA StillGranted ==
    ASSUME ledger \subseteq ledger', NEW id, NEW stage, Granted(ledger, id, stage)
    PROVE  Granted(ledger', id, stage)
BY DEF Granted

LEMMA ConfirmationsKept ==
    ASSUME GInv, Crew, task'.req = task.req, task'.offer.req = task.offer.req,
           task'.reqApproved => task.reqApproved, ledger \subseteq ledger',
           \A k \in jobs' : Joins(k) /\ Implementing(k) /\ task'.plan = 0 =>
              Granted(ledger, task.offer.req, "requirements")
    PROVE  Confirmations'
<1>1. Confirmations
  BY DEF GInv
<1>2. Granted(ledger, task.offer.req, "requirements") => Granted(ledger', task'.offer.req, "requirements")
  BY StillGranted
<1>3. ASSUME NEW k \in jobs', k.pins.req = task'.req,
             \/ k.kind = "review" /\ k.request # <<>>
             \/ Implementing(k) /\ k.pins.plan = 0
      PROVE  Granted(ledger, task.offer.req, "requirements")
  <2>1. CASE Joins(k)
    BY <1>3, <2>1 DEF Joins, Implementing
  <2>2. CASE \E j \in jobs : Going(j, k)
    <3>1. PICK j \in jobs : Going(j, k)
      BY <2>2
    <3>2. j.pins.req = task.req /\ (\/ j.kind = "review" /\ j.request # <<>>
                                    \/ Implementing(j) /\ j.pins.plan = 0)
      BY <1>3, <3>1 DEF Going, Implementing
    <3> QED BY <1>1, <3>2 DEF Confirmations
  <2> QED BY <2>1, <2>2 DEF Crew
<1> QED BY <1>1, <1>2, <1>3 DEF Confirmations, Implementing

(* Nothing leads back into planning, but a retry of what was planning.      *)
Replans == task.retry = Planning \/ \E j \in jobs : j.kind = "plan" /\ j.id = made
StateStays ==
    \/ task'.state # Planning /\ task'.retry \in {task.retry, "none", task.state}
    \/ task'.state = task.state /\ task'.retry = task.retry
    \/ task'.retry = "none" /\ (task'.state = Planning => Replans)

LEMMA OnePlanKept ==
    ASSUME IInv, IInv', GInv, Crew, PlansStay, task'.req = task.req, task.head <= task'.head,
           StateStays,
           \A k \in jobs' : Joins(k) =>
              /\ k.kind # "plan"
              /\ Implementing(k) /\ task.plan = 0 => task'.state # Planning
    PROVE  OnePlan'
<1>1. Sorts /\ Sorts' /\ OnePlan /\ task'.plan = task.plan /\ Versioned
  BY Sorted, SortedAfter DEF GInv, PlansStay
<1>2. Rejected => Rejected'
  BY <1>1 DEF Rejected, PlansStay, Versioned, Sorts
<1>3. ASSUME NEW k \in jobs', k.kind = "plan" PROVE \E i \in jobs : i.kind = "plan" /\ i.id = k.id
  BY <1>3 DEF Crew, Going
<1>4. ASSUME NEW k \in jobs', Bare(k)', ~Rejected'
      PROVE  /\ IF task'.plan = 0 THEN task'.state # Planning \/ task'.retry # Planning
                ELSE Planning \notin {task'.state, task'.retry}
             /\ \A l \in jobs' : l.kind = "plan" => l.id < k.id
  <2>1. CASE Joins(k)
    <3>1. task.plan = 0 /\ task'.state # Planning /\ k.id = made + 1
      BY <1>1, <1>4, <2>1 DEF Joins, Bare, Implementing
    <3>2. \A l \in jobs' : l.kind = "plan" => l.id < k.id
      BY <1>1, <1>3, <3>1 DEF Sorts
    <3> QED BY <1>1, <3>1, <3>2
  <2>2. CASE \E j \in jobs : Going(j, k)
    <3>1. PICK j \in jobs : Going(j, k)
      BY <2>2
    <3>2. Bare(j) /\ ~Rejected
      <4>1. j.pins.head = task'.head /\ j.pins.head <= task.head
        BY <1>1, <1>4, <3>1 DEF Bare, Going, Versioned
      <4>2. j.pins.head = task.head
        BY <1>1, <4>1 DEF Sorts
      <4> QED BY <1>2, <1>4, <3>1, <4>2 DEF Bare, Going, Implementing
    <3>3. /\ IF task.plan = 0 THEN task.state # Planning \/ task.retry # Planning
             ELSE Planning \notin {task.state, task.retry}
          /\ \A l \in jobs : l.kind = "plan" => l.id < j.id
      BY <1>1, <3>2 DEF OnePlan
    <3>4. \A l \in jobs' : l.kind = "plan" => l.id < k.id
      BY <1>3, <3>1, <3>3 DEF Going
    <3>5. task.retry # Planning => ~Replans
      BY <1>1, <3>1, <3>3 DEF Replans, Sorts
    <3>6. /\ task.state # Planning => task'.state # Planning \/ task'.retry # Planning
          /\ Planning \notin {task.state, task.retry} => Planning \notin {task'.state, task'.retry}
          /\ task.retry # Planning => task'.state # Planning \/ task'.retry # Planning
      BY <3>5 DEF StateStays, Planning
    <3> QED BY <1>1, <3>3, <3>4, <3>6
  <2> QED BY <2>1, <2>2, <1>4 DEF Crew
<1> QED BY <1>4 DEF OnePlan

LEMMA GrantingKept ==
    ASSUME IInv, IInv', GInv, Crew, PlansStay, task'.req = task.req, task.head <= task'.head,
           task.plan # 0 => task'.base = task.base,
           task'.approval = task.approval, ledger \subseteq ledger'
    PROVE  Granting'
<1>1. Sorts /\ Sorts' /\ Granting /\ task'.plan = task.plan /\ Versioned
  BY Sorted, SortedAfter DEF GInv, PlansStay
<1>2. task.plan # 0 => RequirementsGrant' = RequirementsGrant /\ PlanGrant' = PlanGrant
  BY <1>1 DEF RequirementsGrant, PlanGrant
<1>3. task.plan = 1 /\ plans[1].status = "approved" => plans'[1].status = "approved"
  BY <1>1 DEF PlansStay, Versioned
<1>4. ASSUME NEW k \in jobs', Prepared(k)
      PROVE  \E j \in jobs : Going(j, k) /\ Prepared(j) /\ (Bare(k)' => Bare(j))
  <2>1. PICK j \in jobs : Going(j, k)
    BY <1>4 DEF Crew, Joins, Prepared
  <2>2. k.pins.head = task'.head => j.pins.head = task.head
    BY <1>1, <2>1 DEF Going, Versioned, Sorts
  <2> QED BY <1>4, <2>1, <2>2 DEF Going, Prepared, Bare, Implementing
<1>5. ASSUME NEW k \in jobs', Prepared(k), k.pins.req = task'.req, k.pins.plan # 0,
             k.pins.plan = task'.plan
      PROVE  RequirementsGrant' \in ledger' /\ PlanGrant' \in ledger'
  BY <1>1, <1>2, <1>4, <1>5 DEF Granting, Going
<1>6. ASSUME NEW k \in jobs', Prepared(k), Bare(k)'
      PROVE  /\ task'.plan = 1 /\ plans'[1].status = "approved"
             /\ RequirementsGrant' \in ledger' /\ PlanGrant' \in ledger'
  BY <1>1, <1>2, <1>3, <1>4, <1>6 DEF Granting
<1> QED BY <1>5, <1>6 DEF Granting, Prepared, Implementing

(* The task stays what it is of requirements, plan and head.                *)
TaskStays ==
    /\ task'.req = task.req /\ task'.head = task.head /\ task'.plan = task.plan
    /\ task'.base = task.base /\ task'.reqApproved = task.reqApproved
    /\ task'.offer = task.offer /\ task'.approval = task.approval

(* ... but for its head.                                                    *)
TaskLasts ==
    /\ task'.req = task.req /\ task.head <= task'.head /\ task'.plan = task.plan
    /\ task'.base = task.base /\ task'.reqApproved = task.reqApproved
    /\ task'.offer = task.offer /\ task'.approval = task.approval

LEMMA StaysLasts == ASSUME IInv, TaskStays PROVE TaskLasts
BY Sorted DEF Sorts, TaskStays, TaskLasts

(* What most steps do.                                                      *)
PlanReady(p) == p.kind = "plan" /\ p.base # 0 /\ p.hash # 0 /\ task'.head # 0 /\ task'.req # 0
Routine ==
    /\ Crew /\ TaskLasts /\ StateStays /\ plans' = plans /\ ledger \subseteq ledger'
    /\ \A p \in pending' : p \in pending \/ PlanReady(p)
    /\ github'.base # 0 /\ BranchStays
    /\ \A k \in jobs' : Joins(k) =>
          /\ k.kind \notin {"plan", "review_plan"}
          /\ Implementing(k) /\ task.plan = 0 =>
                /\ task'.state # Planning
                /\ Granted(ledger, task.offer.req, "requirements")

LEMMA RoutineKeeps == ASSUME IInv, IInv', GInv, Routine PROVE GInv'
<1>1. Sorts /\ Sorts' /\ Named
  BY Sorted, SortedAfter DEF GInv
<1>2. PlansStay /\ Kins
  BY CrewKins DEF Routine, TaskLasts, PlansStay
<1>3. Named'
  <2>1. task'.req <= made'
    BY <1>1 DEF Routine, TaskLasts, Crew, Named, Sorts
  <2> QED BY <1>2, <2>1, NamedKept DEF Routine, PlanReady, Waits
<1>4. Fresh'
  BY <1>2, FreshKept DEF Routine, TaskLasts, PlanReady, Waits
<1>5. Versioned' /\ Files'
  <2>1. task.head <= task'.head /\ task.plan <= task'.plan
    BY <1>1 DEF Sorts, Routine, TaskLasts
  <2> QED BY <1>2, <2>1, VersionedKept, FilesKept DEF Routine, TaskLasts, PlanReady
<1>6. ReviewedOnce'
  BY <1>2, ReviewedOnceKept DEF Routine, PlanReady
<1>7. Confirmations'
  BY ConfirmationsKept DEF Routine, TaskLasts
<1>8. OnePlan' /\ Granting'
  BY <1>2, OnePlanKept, GrantingKept DEF Routine, TaskLasts
<1> QED BY <1>3, <1>4, <1>5, <1>6, <1>7, <1>8 DEF GInv

-----------------------------------------------------------------------------
(* Steps that change nothing of this                                        *)

LEMMA Progressing ==
    ASSUME NEW j \in JobRows, NEW status, NEW at, NEW saved, NEW verdict, NEW commit
    PROVE  /\ Going(j, [j EXCEPT !.status = status]) /\ Going(j, [j EXCEPT !.at = at])
           /\ Going(j, [j EXCEPT !.status = status, !.at = at])
           /\ Going(j, [j EXCEPT !.at = at, !.saved = saved, !.verdict = verdict])
           /\ Going(j, [j EXCEPT !.at = at, !.published = commit])
           /\ Going(j, [j EXCEPT !.at = at, !.indexed = commit])
BY DEF JobRows, Going

LEMMA NobodyJoins ==
    ASSUME IInv, made' = made
    PROVE  made <= made' /\ \A k \in jobs' : ~Joins(k)
BY Sorted DEF Sorts, Joins

LEMMA GoesOn ==
    ASSUME IInv, NEW j \in jobs, NEW k, Going(j, k), jobs' \subseteq (jobs \ {j}) \cup {k}, made' = made
    PROVE  Crew
<1>1. \A l \in jobs : Going(l, l)
  BY DEF Going
<1> QED BY <1>1, NobodyJoins DEF Crew

LEMMA FewerJobs == ASSUME IInv, jobs' \subseteq jobs, made' = made PROVE Crew
<1>1. \A l \in jobs : Going(l, l)
  BY DEF Going
<1> QED BY <1>1, NobodyJoins DEF Crew

LEMMA ClosedGoes ==
    ASSUME IInv, NEW j \in jobs, NEW status, jobs' = Closed(j, status), made' = made
    PROVE  Crew
<1>1. PICK k : k = [j EXCEPT !.status = status, !.at = "start"]
  OBVIOUS
<1>2. Going(j, k)
  <2>1. \A at : Going(j, [j EXCEPT !.status = status, !.at = at])
    BY Sorted, Progressing DEF Sorts
  <2> QED BY <1>1, <2>1
<1>3. jobs' \subseteq (jobs \ {j}) \cup {k}
  BY <1>1 DEF Closed
<1> QED BY <1>2, <1>3, GoesOn

LEMMA MovedStays ==
    ASSUME IInv, NEW state, NEW retry \in {task.retry, "none", task.state}, state # Planning,
           \/ task' = To(task, state) \/ task' = Invalidated(To(task, state))
           \/ task' = [To(task, state) EXCEPT !.retry = retry]
           \/ task' = [To(task, state) EXCEPT !.proposed = TRUE]
    PROVE  TaskStays /\ StateStays
<1>1. task \in TaskRows
  BY Sorted DEF Sorts
<1>2. PICK row : row = To(task, state)
  OBVIOUS
<1>3. /\ row = [task EXCEPT !.state = state, !.proposed = FALSE, !.stalled = FALSE]
      /\ DOMAIN task = {"state", "proposed", "req", "reqAt", "reqApproved", "plan", "base", "head", "offer",
                        "approval", "review", "merge", "mergeLive", "retry", "revisions",
                        "body", "stalled"}
  BY <1>1, <1>2 DEF To, TaskRows
<1>4. /\ row.state = state /\ row.retry = task.retry /\ row.req = task.req /\ row.head = task.head
      /\ row.plan = task.plan /\ row.base = task.base /\ row.reqApproved = task.reqApproved
      /\ row.offer = task.offer /\ row.approval = task.approval /\ DOMAIN row = DOMAIN task
  BY <1>3
<1>5. \/ task' = row \/ task' = [row EXCEPT !.review = None, !.merge = None]
      \/ task' = [row EXCEPT !.retry = retry] \/ task' = [row EXCEPT !.proposed = TRUE]
  BY <1>2 DEF Invalidated, Unapproved
<1>6. /\ task'.state = state /\ task'.retry \in {task.retry, retry} /\ task'.req = task.req
      /\ task'.head = task.head /\ task'.plan = task.plan /\ task'.base = task.base
      /\ task'.reqApproved = task.reqApproved /\ task'.offer = task.offer
      /\ task'.approval = task.approval
  <2>1. CASE task' = row
    BY <1>4, <2>1
  <2>2. CASE task' = [row EXCEPT !.review = None, !.merge = None]
    BY <1>3, <1>4, <2>2
  <2>3. CASE task' = [row EXCEPT !.retry = retry]
    BY <1>3, <1>4, <2>3
  <2>4. CASE task' = [row EXCEPT !.proposed = TRUE]
    BY <1>3, <1>4, <2>4
  <2> QED BY <1>5, <2>1, <2>2, <2>3, <2>4
<1> QED BY <1>6 DEF TaskStays, StateStays

LEMMA TaskSame == ASSUME UNCHANGED task PROVE TaskStays /\ StateStays
BY DEF TaskStays, StateStays

LEMMA LogSame ==
    ASSUME IInv, github'.log = github.log
    PROVE  BranchStays
<1>1. Tip' = Tip /\ Tip \in Nat
  BY Sorted DEF Tip, Sorts
<1> QED BY <1>1 DEF BranchStays

LEMMA HubSame ==
    ASSUME IInv, GInv, UNCHANGED github
    PROVE  BranchStays /\ github'.base # 0
BY LogSame DEF GInv, Versioned

(* Nothing but the jobs there are, and where the task stands.               *)
LEMMA Quiet ==
    ASSUME IInv, IInv', GInv, Crew, made' = made, TaskStays, StateStays,
           UNCHANGED plans, ledger \subseteq ledger', pending' \subseteq pending,
           BranchStays, github'.base # 0
    PROVE  GInv'
BY NobodyJoins, StaysLasts, RoutineKeeps DEF Routine

LEMMA Failing ==
    ASSUME IInv, GInv, NEW j \in jobs, Fail(j), made' = made
    PROVE  Crew /\ TaskStays /\ StateStays
<1>1. Crew
  BY ClosedGoes DEF Fail
<1>2. TaskStays /\ StateStays
  BY MovedStays DEF Fail, Planning
<1> QED BY <1>1, <1>2

LEMMA RunsKeep ==
    ASSUME IInv, IInv', GInv, NEW j \in jobs,
           \/ Claim(j) \/ GiveUp(j) \/ Lapse(j) \/ Reuse(j) \/ Persist(j) \/ Ask(j) \/ Reject(j)
           \/ Disconnect(j)
    PROVE  GInv'
<1>1. /\ UNCHANGED <<made, plans, ledger, pending, merging, github>>
      /\ BranchStays /\ github'.base # 0
  BY HubSame DEF Claim, GiveUp, Lapse, Reuse, Persist, Ask, Reject, Disconnect
<1>2. j \in JobRows
  BY Sorted DEF Sorts
<1>3. Crew
  <2>1. CASE Claim(j)
    <3>1. CASE jobs' = jobs \ {j}
      BY <1>1, <3>1, FewerJobs
    <3>2. CASE Set(j, [j EXCEPT !.status = "running"])
      <4>1. PICK k : k = [j EXCEPT !.status = "running"]
        OBVIOUS
      <4>2. Going(j, k)
        BY <1>2, <4>1, Progressing
      <4> QED BY <1>1, <3>2, <4>1, <4>2, GoesOn DEF Set
    <3> QED BY <2>1, <3>1, <3>2 DEF Claim
  <2>2. CASE GiveUp(j) \/ Reject(j)
    BY <1>1, <2>2, ClosedGoes DEF GiveUp, Reject, Fail
  <2>3. CASE Lapse(j) \/ Disconnect(j)
    <3>1. PICK k : k = [j EXCEPT !.status = "queued", !.at = "start"]
      OBVIOUS
    <3>2. Going(j, k)
      BY <1>2, <3>1, Progressing
    <3> QED BY <1>1, <2>3, <3>1, <3>2, GoesOn DEF Lapse, Disconnect, Set
  <2>4. CASE Reuse(j)
    <3>1. PICK at : Set(j, [j EXCEPT !.at = at])
      BY <2>4 DEF Reuse
    <3> QED BY <1>1, <1>2, <3>1, Progressing, GoesOn DEF Set
  <2>5. CASE Persist(j)
    <3>1. PICK verdict : Set(j, [j EXCEPT !.at = "result", !.saved = TRUE, !.verdict = verdict])
      BY <2>5 DEF Persist
    <3>2. PICK k : k = [j EXCEPT !.at = "result", !.saved = TRUE, !.verdict = verdict]
      OBVIOUS
    <3>3. Going(j, k)
      BY <1>2, <3>2, Progressing
    <3> QED BY <1>1, <3>1, <3>2, <3>3, GoesOn DEF Set
  <2>6. CASE Ask(j)
    BY <1>1, <2>6, ClosedGoes, FewerJobs DEF Ask
  <2> QED BY <2>1, <2>2, <2>3, <2>4, <2>5, <2>6
<1>4. TaskStays /\ StateStays
  <2>1. \/ \E state \in {"Blocked", "Implementing", "Fixing"} : task' = To(task, state)
        \/ Fail(j) \/ UNCHANGED task
    BY DEF Claim, GiveUp, Lapse, Reuse, Persist, Ask, Reject, Disconnect
  <2> QED BY <1>1, <2>1, MovedStays, TaskSame, Failing DEF Planning
<1> QED BY <1>1, <1>3, <1>4, Quiet

(* A proposal waits to be copied.                                           *)
LEMMA ProposeKeep == ASSUME IInv, IInv', GInv, NEW j \in jobs, Propose(j) PROVE GInv'
<1>1. /\ UNCHANGED <<made, plans, ledger, pending, merging, github>>
      /\ BranchStays /\ github'.base # 0
  BY HubSame DEF Propose
<1>2. PICK k : k = [j EXCEPT !.status = "proposed", !.at = "start"]
  OBVIOUS
<1>3. Going(j, k)
  BY <1>2, Sorted, Progressing DEF Sorts
<1>4. Crew
  BY <1>1, <1>2, <1>3, GoesOn DEF Propose
<1>5. TaskStays /\ StateStays
  BY MovedStays DEF Propose, Planning
<1> QED BY <1>1, <1>4, <1>5, Quiet

(* A commit with files for the next plan at most.                           *)
LEMMA LongerStays ==
    ASSUME IInv, GInv, NEW key \in Keys, NEW files \in [1..MaxPlans -> Texts], Longer(key, files),
           \A v \in 1..MaxPlans : v > task.plan + 1 => files[v] = 0
    PROVE  BranchStays
<1>1. /\ Tip \in Nat /\ Tip' = Tip + 1
      /\ \A a \in 1..Tip : github'.log[a] = github.log[a]
      /\ \A a \in 1..Tip' : a \in 1..Tip \/ a = Tip + 1
  BY LongerLog
<1>3. Tip <= Tip'
  BY <1>1
<1>2. github'.log[Tip + 1].files = files
  <2>1. PICK commit : commit = [key |-> key, files |-> files]
    OBVIOUS
  <2>2. github'.log = Append(github.log, commit) /\ commit \in Commit /\ commit.files = files
    BY <2>1 DEF Longer, Commit
  <2>3. github.log \in Seq(Commit)
    BY Tips DEF IInv
  <2> QED BY <2>2, <2>3, AppendProperties DEF Tip
<1> QED BY <1>1, <1>2, <1>3 DEF BranchStays

LEMMA HeadBlank ==
    ASSUME IInv, GInv
    PROVE  \A v \in 1..MaxPlans : v > task.plan + 1 => FilesAt(task.head)[v] = 0
<1>1. Sorts /\ Files
  BY Sorted DEF GInv
<1>2. CASE task.head = 0
  BY <1>2 DEF FilesAt, Placeholder
<1>3. CASE task.head # 0
  BY <1>1, <1>3 DEF FilesAt, Files, Sorts
<1> QED BY <1>2, <1>3

LEMMA PublishStays ==
    ASSUME IInv, GInv, NEW key \in Keys, NEW files, PublishTo(key, files),
           \/ files = FilesAt(task.head)
           \/ \E j \in jobs : /\ files = [FilesAt(task.head) EXCEPT ![Len(plans) + 1] = j.id]
                              /\ Len(plans) < MaxPlans
    PROVE  BranchStays /\ github'.base # 0
<1>1. github \in Hubs /\ github.base # 0 /\ task.plan = Len(plans) /\ Len(plans) \in Nat
  BY Sorted DEF IInv, GInv, Versioned, Sorts
<1>2. files \in [1..MaxPlans -> Texts]
  BY HeadFiles, PlanFiles
<1>3. ASSUME NEW v \in 1..MaxPlans, v > task.plan + 1 PROVE files[v] = 0
  <2>1. FilesAt(task.head)[v] = 0
    BY <1>3, HeadBlank
  <2>2. v # Len(plans) + 1 /\ v \in Nat
    BY <1>1, <1>3
  <2>3. files[v] = FilesAt(task.head)[v]
    <3>1. PICK head : head = FilesAt(task.head)
      OBVIOUS
    <3>2. head \in [1..MaxPlans -> Texts]
      BY <3>1, HeadFiles
    <3>3. files = head \/ \E j \in jobs : files = [head EXCEPT ![Len(plans) + 1] = j.id]
      BY <3>1
    <3> QED BY <2>2, <3>1, <3>2, <3>3
  <2> QED BY <2>1, <2>3
<1>4. CASE Published(key)
  BY <1>1, <1>4, HubSame DEF PublishTo
<1>5. CASE ~Published(key)
  <2>1. Longer(key, files)
    BY <1>1, <1>5 DEF PublishTo, Longer, Hubs
  <2>2. github'.base = github.base
    BY <1>1, <1>5 DEF PublishTo, Hubs
  <2> QED BY <1>1, <1>2, <1>3, <2>1, <2>2, LongerStays
<1> QED BY <1>4, <1>5

(* Publications.                                                            *)
LEMMA KeyOf == ASSUME IInv, NEW j \in jobs, NEW stage \in Stages PROVE <<j.id, stage>> \in Keys
BY Typed, JobTyped DEF IInv, Keys

LEMMA PublicationsKeep ==
    ASSUME IInv, IInv', GInv, NEW j \in jobs,
           PublishPlan(j) \/ PublishImplementation(j) \/ PublishIndex(j) \/ LosePublication(j)
    PROVE  GInv'
<1>1. UNCHANGED <<made, plans, ledger, pending, merging>>
  BY DEF PublishPlan, PublishImplementation, PublishIndex, LosePublication
<1>2. j \in JobRows /\ Sorts
  BY Sorted DEF Sorts
<1>3. ASSUME NEW stage \in Stages, NEW files, PublishTo(<<j.id, stage>>, files),
             \/ files = FilesAt(task.head)
             \/ /\ files = [FilesAt(task.head) EXCEPT ![Len(plans) + 1] = j.id]
                /\ Len(plans) < MaxPlans
      PROVE  BranchStays /\ github'.base # 0
  <2>1. PICK key \in Keys : key = <<j.id, stage>>
    BY KeyOf
  <2> QED BY <1>3, <2>1, PublishStays
<1>4. BranchStays /\ github'.base # 0
  <2>1. CASE UNCHANGED github
    BY <2>1, HubSame
  <2>2. CASE github' # github
    <3>1. CASE PublishPlan(j)
      <4>1. Len(plans) < MaxPlans
        BY <1>2, <3>1, WorkflowV2Assumption DEF PublishPlan, Sorts
      <4>2. PublishTo(<<j.id, "plan">>, [FilesAt(task.head) EXCEPT ![Len(plans) + 1] = j.id])
        BY <2>2, <3>1 DEF PublishPlan
      <4> QED BY <1>3, <4>1, <4>2 DEF Stages
    <3>2. CASE PublishImplementation(j)
      <4>1. PublishTo(<<j.id, "implementation">>, FilesAt(task.head))
        BY <2>2, <3>2 DEF PublishImplementation
      <4> QED BY <1>3, <4>1 DEF Stages
    <3>3. CASE PublishIndex(j)
      <4>1. PublishTo(<<j.id, "index">>, FilesAt(task.head))
        BY <2>2, <3>3 DEF PublishIndex
      <4> QED BY <1>3, <4>1 DEF Stages
    <3>4. CASE LosePublication(j)
      <4>1. PICK stage \in Stages :
              /\ stage = "plan" => Len(plans) < MaxPlans
              /\ PublishTo(<<j.id, stage>>,
                      IF stage = "plan" THEN [FilesAt(task.head) EXCEPT ![Len(plans) + 1] = j.id]
                      ELSE FilesAt(task.head))
        BY <3>4 DEF LosePublication, Stages
      <4> QED BY <1>3, <4>1
    <3> QED BY <3>1, <3>2, <3>3, <3>4
  <2> QED BY <2>1, <2>2
<1>5. Crew /\ TaskStays /\ StateStays
  <2>1. CASE Fail(j)
    BY <1>1, <2>1, Failing
  <2>2. CASE ~Fail(j)
    <3>1. UNCHANGED task
      BY <2>2 DEF PublishPlan, PublishImplementation, PublishIndex, LosePublication
    <3>2. PICK status, at, commit :
             \/ Set(j, [j EXCEPT !.at = at]) \/ Set(j, [j EXCEPT !.status = status, !.at = at])
             \/ Set(j, [j EXCEPT !.at = at, !.published = commit])
             \/ Set(j, [j EXCEPT !.at = at, !.indexed = commit])
      BY <2>2 DEF PublishPlan, PublishImplementation, PublishIndex, LosePublication
    <3>3. \E k : Going(j, k) /\ Set(j, k)
      BY <1>2, <3>2, Progressing
    <3>4. Crew
      BY <1>1, <3>3, GoesOn DEF Set
    <3> QED BY <3>1, <3>4, TaskSame
  <2> QED BY <2>1, <2>2
<1> QED BY <1>1, <1>4, <1>5, Quiet

-----------------------------------------------------------------------------
(* Jobs that are queued                                                     *)

LEMMA Enqueued ==
    ASSUME IInv, NEW rows, rows \subseteq jobs, NEW kind, Enqueue(rows, kind, task'),
           kind \in {"implement", "fix"} => task'.req # 0 /\ task'.head # 0,
           kind = "review" => task'.head # 0, kind = "review_plan" => task'.plan # 0
    PROVE  /\ Crew
           /\ \A k \in jobs' : Joins(k) => k.kind = kind
           /\ \A k \in jobs' : Joins(k) \/ (k \in rows /\ (Open(k) \/ k.status = "proposed"))
<1>1. PICK new : new = NewJob(kind, IdentityOf(task'))
  OBVIOUS
<1>2. /\ new.id = made + 1 /\ new.kind = kind /\ new.request = <<>>
      /\ new.pins = IdentityOf(task')
  BY <1>1 DEF NewJob
<1>3. /\ new.pins.req = task'.req /\ new.pins.plan = task'.plan /\ new.pins.head = task'.head
  BY <1>2 DEF IdentityOf
<1>4. /\ made' = made + 1 /\ made \in Nat
      /\ jobs' = {j \in rows : Open(j) \/ j.status = "proposed"} \cup {new}
  BY <1>1, Sorted DEF Enqueue, EnqueuePinned, Sorts
<1>5. Joins(new)
  BY <1>2, <1>3, <1>4 DEF Joins, Implementing
<1>6. \A l \in jobs : Going(l, l) /\ ~Joins(l)
  BY <1>4, Sorted DEF Going, Sorts, Joins
<1> QED BY <1>2, <1>4, <1>5, <1>6 DEF Crew

LEMMA ReviewsHub ==
    ASSUME IInv, NEW j \in jobs, ReadyForReview(j) \/ PostReview(j)
    PROVE  github'.log = github.log /\ github'.base = github.base
<1>1. github \in Hubs
  BY DEF IInv
<1>2. CASE UNCHANGED github
  BY <1>2
<1>3. CASE \E draft, review : \/ github' = [github EXCEPT !.draft = draft]
                              \/ github' = [github EXCEPT !.review = review]
  BY <1>1, <1>3 DEF Hubs
<1> QED BY <1>2, <1>3 DEF ReadyForReview, PostReview

LEMMA ReviewsQuietly ==
    ASSUME IInv, IInv', GInv, NEW j \in jobs, ReadyForReview(j) \/ PostReview(j)
    PROVE  GInv'
<1>1. UNCHANGED <<made, plans, ledger, pending, merging>>
  BY DEF ReadyForReview, PostReview
<1>2. j \in JobRows /\ github.base # 0
  BY Sorted DEF Sorts, GInv, Versioned
<1>3. github'.log = github.log /\ github'.base = github.base
  BY ReviewsHub
<1>4. BranchStays /\ github'.base # 0
  BY <1>2, <1>3, LogSame
<1>5. Crew /\ TaskStays /\ StateStays
  <2>1. CASE Fail(j)
    BY <1>1, <2>1, Failing
  <2>2. CASE ~Fail(j)
    <3>1. UNCHANGED task /\ \E at : Set(j, [j EXCEPT !.at = at])
      BY <2>2 DEF ReadyForReview, PostReview
    <3>2. \E k : Going(j, k) /\ Set(j, k)
      BY <1>2, <3>1, Progressing
    <3>3. Crew
      BY <1>1, <3>2, GoesOn DEF Set
    <3> QED BY <3>1, <3>3, TaskSame
  <2> QED BY <2>1, <2>2
<1> QED BY <1>1, <1>4, <1>5, Quiet

(* A fix is asked for under the requirements of the review.                 *)
LEMMA FinishReviewKeep == ASSUME IInv, IInv', GInv, NEW j \in jobs, FinishReview(j) PROVE GInv'
<1>1. /\ UNCHANGED <<plans, pending, merging, github>> /\ ledger \subseteq ledger'
      /\ BranchStays /\ github'.base # 0
  BY HubSame DEF FinishReview
<1>2. /\ task \in TaskRows /\ j.kind = "review" /\ j.request # <<>> /\ Sorts
      /\ j.pins.req = task.req /\ j.pins.head = task.head /\ task.req # 0 /\ task.head # 0
  BY Sorted DEF IInv, JobRowsTell, Row, Reviews, Pinned, FinishReview, Current, IdentityCurrent, Sorts
<1>3. Granted(ledger, task.offer.req, "requirements")
  BY <1>2 DEF GInv, Confirmations
<1>4. CASE jobs' = jobs \ {j} /\ made' = made
  <2>1. TaskStays /\ StateStays
    <3>1. CASE task' = To(task, "Blocked")
      BY <3>1, MovedStays DEF Planning
    <3>2. CASE \E review : task' = [To(task, "AwaitingChecks") EXCEPT !.review = review]
      <4>1. PICK review : task' = [To(task, "AwaitingChecks") EXCEPT !.review = review]
        BY <3>2
      <4>2. PICK row : row = To(task, "AwaitingChecks")
        OBVIOUS
      <4>3. row \in TaskRows /\ Alike(row, task) /\ row.state = "AwaitingChecks"
        BY <1>2, <4>2, Moved DEF States, Gated
      <4>4. task' = [row EXCEPT !.review = review]
        BY <4>1, <4>2
      <4>5. /\ task'.state = row.state /\ task'.retry = row.retry /\ task'.req = row.req
            /\ task'.head = row.head /\ task'.plan = row.plan /\ task'.base = row.base
            /\ task'.reqApproved = row.reqApproved /\ task'.offer = row.offer
            /\ task'.approval = row.approval
        BY <4>3, <4>4 DEF TaskRows
      <4> QED BY <4>3, <4>5 DEF Alike, TaskStays, StateStays, Planning
    <3>3. CASE /\ \E fix : task' = [To(task, "Fixing") EXCEPT !.revisions.fix = fix]
               /\ Enqueue(jobs \ {j}, "fix", task')
      BY <1>2, <1>4, <3>3 DEF Enqueue, EnqueuePinned, Sorts
    <3> QED BY <3>1, <3>2, <3>3 DEF FinishReview
  <2>2. Crew
    BY <1>4, FewerJobs
  <2> QED BY <1>1, <1>4, <2>1, <2>2, Quiet
<1>5. CASE ~(jobs' = jobs \ {j} /\ made' = made)
  <2>1. PICK fix : /\ task' = [To(task, "Fixing") EXCEPT !.revisions.fix = fix]
                   /\ Enqueue(jobs \ {j}, "fix", task')
    BY <1>5 DEF FinishReview
  <2>2. PICK row, revisions : row = To(task, "Fixing") /\ revisions = [row.revisions EXCEPT !.fix = fix]
    OBVIOUS
  <2>3. row \in TaskRows /\ Alike(row, task) /\ row.state = "Fixing"
    BY <1>2, <2>2, Moved DEF States, Working
  <2>4. task' = [row EXCEPT !.revisions = revisions]
    BY <2>1, <2>2
  <2>5. /\ task'.state = row.state /\ task'.retry = row.retry /\ task'.req = row.req
        /\ task'.head = row.head /\ task'.plan = row.plan /\ task'.base = row.base
        /\ task'.reqApproved = row.reqApproved /\ task'.offer = row.offer
        /\ task'.approval = row.approval
    BY <2>3, <2>4 DEF TaskRows
  <2>6. TaskStays /\ StateStays /\ task'.state # Planning
    BY <2>3, <2>5 DEF Alike, TaskStays, StateStays, Planning
  <2>7. Crew /\ \A k \in jobs' : Joins(k) => k.kind = "fix"
    <3>1. task'.req # 0 /\ task'.head # 0
      BY <1>2, <2>6 DEF TaskStays
    <3> QED BY <2>1, <3>1, Enqueued
  <2>8. Routine
    BY <1>1, <1>3, <2>6, <2>7, StaysLasts DEF Routine
  <2> QED BY <2>8, RoutineKeeps
<1> QED BY <1>4, <1>5

-----------------------------------------------------------------------------
(* The owner's commands that neither approve a text nor go back to one      *)

LEMMA ApproveMergeKeep == ASSUME IInv, IInv', GInv, ApproveMerge PROVE GInv'
<1>1. /\ UNCHANGED <<jobs, made, plans, pending, merging, github>> /\ ledger \subseteq ledger'
      /\ BranchStays /\ github'.base # 0
  BY HubSame DEF ApproveMerge
<1>2. PICK row : row = To(task, "ReadyToMerge")
  OBVIOUS
<1>3. row \in TaskRows /\ Alike(row, task) /\ row.state = "ReadyToMerge"
  BY <1>2, Sorted, Moved DEF Sorts, States, Gated
<1>4. PICK merge, live : task' = [row EXCEPT !.merge = merge, !.mergeLive = live]
  BY <1>2 DEF ApproveMerge
<1>5. /\ task'.state = row.state /\ task'.retry = row.retry /\ task'.req = row.req
      /\ task'.head = row.head /\ task'.plan = row.plan /\ task'.base = row.base
      /\ task'.reqApproved = row.reqApproved /\ task'.offer = row.offer
      /\ task'.approval = row.approval
  BY <1>3, <1>4 DEF TaskRows
<1>6. TaskStays /\ StateStays
  BY <1>3, <1>5 DEF Alike, TaskStays, StateStays, Planning
<1> QED BY <1>1, <1>6, FewerJobs, Quiet

(* Questions about a fix from before the plan are answered by such a fix.    *)
LEMMA AnswerImplementationKeep == ASSUME IInv, IInv', GInv, AnswerImplementation PROVE GInv'
<1>1. /\ UNCHANGED <<plans, ledger, pending, merging, github>>
      /\ BranchStays /\ github'.base # 0
  BY HubSame DEF AnswerImplementation
<1>2. PICK j \in jobs : /\ j.status = "asked" /\ IdentityCurrent(j) /\ Enqueue(jobs, j.kind, task')
                        /\ task' = To(task, IF j.kind = "implement" THEN "Queued" ELSE "Fixing")
  BY DEF AnswerImplementation
<1>3. PICK state \in {"Queued", "Fixing"} : task' = To(task, state)
  BY <1>2
<1>4. /\ TaskStays /\ StateStays /\ task'.state # Planning
  <2>1. task'.state = state
    BY <1>3, Sorted, Moved DEF Sorts, States, Working
  <2> QED BY <1>3, <2>1, MovedStays DEF Planning
<1>5. /\ Implementing(j) /\ j.pins.req # 0 /\ j.pins.head # 0
      /\ j.pins.req = task.req /\ j.pins.head = task.head /\ j.pins.plan \in {0, task.plan}
  BY <1>2 DEF IInv, JobRowsTell, Row, GInv, Versioned, IdentityCurrent
<1>6. task.plan = 0 => Granted(ledger, task.offer.req, "requirements")
  BY <1>5 DEF GInv, Confirmations
<1>7. Crew /\ \A k \in jobs' : Joins(k) => k.kind = j.kind
  <2>1. task'.req # 0 /\ task'.head # 0 /\ j.kind \notin {"review", "review_plan"}
    BY <1>4, <1>5 DEF TaskStays, Implementing
  <2> QED BY <1>2, <2>1, Enqueued
<1>8. Routine
  BY <1>1, <1>4, <1>5, <1>6, <1>7, StaysLasts DEF Routine, Implementing
<1> QED BY <1>8, RoutineKeeps

LEMMA RestartKeep == ASSUME IInv, IInv', GInv, Restart PROVE GInv'
<1>1. /\ UNCHANGED <<plans, ledger, pending, merging, github>>
      /\ BranchStays /\ github'.base # 0
  BY HubSame DEF Restart
<1>2. PICK kind \in {"review", "clarify"} :
         Enqueue(jobs, kind, task') /\ (kind = "review" => task.head # 0)
  BY DEF Restart
<1>3. TaskStays /\ StateStays
  <2>1. PICK state \in {"Reviewing", "Clarifying"} : task' = To(task, state)
    BY DEF Restart
  <2> QED BY <2>1, MovedStays DEF Planning
<1>4. Crew /\ \A k \in jobs' : Joins(k) => k.kind = kind
  BY <1>2, <1>3, Enqueued DEF TaskStays
<1>5. Routine
  BY <1>1, <1>3, <1>4, StaysLasts DEF Routine, Implementing
<1> QED BY <1>5, RoutineKeeps

LEMMA StopKeep ==
    ASSUME IInv, IInv', GInv, NEW state \in {"Paused", "Cancelled"}, Stop(state)
    PROVE  GInv'
<1>1. /\ UNCHANGED <<made, plans, ledger, pending, merging, github>> /\ jobs' \subseteq jobs
      /\ BranchStays /\ github'.base # 0
  BY HubSame DEF Stop, Kept
<1>2. TaskStays /\ StateStays
  BY MovedStays DEF Stop, Planning
<1> QED BY <1>1, <1>2, FewerJobs, Quiet

LEMMA RetryProposalKeep == ASSUME IInv, IInv', GInv, RetryProposal PROVE GInv'
<1>1. /\ UNCHANGED <<made, plans, ledger, pending, merging, github>>
      /\ BranchStays /\ github'.base # 0
  BY HubSame DEF RetryProposal
<1>2. PICK j \in jobs : Set(j, [j EXCEPT !.status = "queued"])
  BY DEF RetryProposal
<1>3. Crew
  BY <1>1, <1>2, Sorted, Progressing, GoesOn DEF Sorts, Set
<1>4. TaskStays /\ StateStays
  BY MovedStays DEF RetryProposal, Planning
<1> QED BY <1>1, <1>3, <1>4, Quiet

(* A failed job that plans is the latest one.                               *)
LEMMA RetryFailedKeep == ASSUME IInv, IInv', GInv, RetryFailed PROVE GInv'
<1>1. /\ UNCHANGED <<made, plans, ledger, pending, merging, github>>
      /\ BranchStays /\ github'.base # 0
  BY HubSame DEF RetryFailed
<1>2. PICK j \in jobs :
         /\ j.id = made /\ j.status = "failed" /\ Set(j, [j EXCEPT !.status = "queued"])
         /\ task' = [To(task, IF task.retry # "none" THEN task.retry ELSE RetryState(j.kind))
                       EXCEPT !.retry = "none"]
  BY DEF RetryFailed
<1>3. j \in JobRows /\ j.kind \in Kinds \ {"clarify"} /\ task \in TaskRows
  BY <1>2, Typed, JobTyped DEF IInv, JobRowsTell, Row
<1>4. Crew
  BY <1>1, <1>2, <1>3, Progressing, GoesOn DEF Set
<1>5. PICK state : state = IF task.retry # "none" THEN task.retry ELSE RetryState(j.kind)
  OBVIOUS
<1>6. state \in States
  BY <1>3, <1>5, TaskTyped DEF RetryState, States, Working, Kinds
<1>7. state = Planning => Replans
  <2>1. RetryState(j.kind) = Planning => j.kind = "plan"
    BY <1>3 DEF RetryState, Planning, Kinds
  <2> QED BY <1>2, <1>5, <2>1 DEF Replans
<1>8. PICK row : row = To(task, state)
  OBVIOUS
<1>9. row \in TaskRows /\ Alike(row, task) /\ row.state = state
  BY <1>3, <1>6, <1>8, Moved
<1>10. task' = [row EXCEPT !.retry = "none"]
  BY <1>2, <1>5, <1>8
<1>11. /\ task'.state = row.state /\ task'.retry = "none" /\ task'.req = row.req
       /\ task'.head = row.head /\ task'.plan = row.plan /\ task'.base = row.base
       /\ task'.reqApproved = row.reqApproved /\ task'.offer = row.offer
       /\ task'.approval = row.approval
  BY <1>9, <1>10 DEF TaskRows
<1>12. TaskStays /\ StateStays
  BY <1>7, <1>9, <1>11 DEF Alike, TaskStays, StateStays
<1> QED BY <1>1, <1>4, <1>12, Quiet

-----------------------------------------------------------------------------
(* Reconciliation that leaves the phase alone, and the world                *)

LEMMA Halting == ASSUME IInv, Halt PROVE Crew /\ made' = made /\ TaskStays /\ StateStays
<1>1. jobs' \subseteq jobs /\ made' = made
  BY DEF Halt, Kept
<1>2. TaskStays /\ StateStays
  BY MovedStays DEF Halt, Planning
<1> QED BY <1>1, <1>2, FewerJobs

LEMMA MergeHub ==
    ASSUME IInv, Merge
    PROVE  github'.log = github.log /\ github'.base = github.base
<1>1. PICK merged : github' = [github EXCEPT !.pr = "merged", !.at = @ + 1, !.merged = merged]
  BY DEF Merge, MergedByUs
<1>2. PICK at : github' = [github EXCEPT !.pr = "merged", !.at = at, !.merged = merged]
  BY <1>1
<1>3. github \in Hubs
  BY DEF IInv
<1> QED BY <1>2, <1>3 DEF Hubs

LEMMA ReconciliationsKeep ==
    ASSUME IInv, IInv', GInv,
           \/ ReconcileMerged \/ ReconcileClosed \/ ReconcileRefused \/ FailedChecks \/ AskToMerge
           \/ BeginMerge \/ Merge \/ MergeRefused \/ ReconcileFails
    PROVE  GInv'
<1>1. UNCHANGED <<plans, ledger, pending>>
  BY DEF ReconcileMerged, ReconcileClosed, ReconcileRefused, FailedChecks, AskToMerge, BeginMerge,
         Merge, MergeRefused, ReconcileFails
<1>2. BranchStays /\ github'.base # 0
  <2>1. CASE UNCHANGED github
    BY <2>1, HubSame
  <2>2. CASE Merge
    <3>1. github'.log = github.log /\ github'.base = github.base
      BY <2>2, MergeHub
    <3>2. github.base # 0
      BY DEF GInv, Versioned
    <3> QED BY <3>1, <3>2, LogSame
  <2> QED BY <2>1, <2>2 DEF ReconcileMerged, ReconcileClosed, ReconcileRefused, FailedChecks,
                            AskToMerge, BeginMerge, MergeRefused, ReconcileFails
<1>3. Crew /\ made' = made /\ TaskStays /\ StateStays
  <2>1. CASE Halt
    BY <2>1, Halting
  <2>2. CASE ~Halt
    <3>1. jobs' \subseteq jobs /\ made' = made
      BY <2>2 DEF ReconcileMerged, ReconcileClosed, ReconcileRefused, FailedChecks, AskToMerge,
                  BeginMerge, Merge, MergeRefused, ReconcileFails, Kept
    <3>2. \/ UNCHANGED task
          \/ \E state \in {"Merged", "AwaitingMergeApproval", "Merging"} :
                task' = To(task, state) \/ task' = Invalidated(To(task, state))
      BY <2>2 DEF ReconcileMerged, ReconcileClosed, ReconcileRefused, FailedChecks, AskToMerge,
                  BeginMerge, Merge, MergeRefused, ReconcileFails
    <3> QED BY <3>1, <3>2, FewerJobs, TaskSame, MovedStays DEF Planning
  <2> QED BY <2>1, <2>2
<1> QED BY <1>1, <1>2, <1>3, Quiet

(* A third party's commit has files for no later plan than the task's.      *)
LEMMA PushStays == ASSUME IInv, GInv, Push PROVE BranchStays /\ github'.base # 0
<1>1. /\ github \in Hubs /\ Tip \in Nat /\ Tip # 0 /\ Tip < MaxCommits /\ task.plan \in Nat
      /\ github.base # 0
  BY Sorted, WorkflowV2Assumption DEF IInv, Push, Sorts, GInv, Versioned
<1>2. PICK files \in {FilesAt(Tip)} \cup
                     {[FilesAt(Tip) EXCEPT ![v] = Foreign] : v \in {task.plan} \ {0}} :
         Interfere([github EXCEPT !.log = Append(@, [key |-> <<>>, files |-> files])])
  BY DEF Push
<1>3. PICK tip : tip = FilesAt(Tip)
  OBVIOUS
<1>4. /\ tip \in [1..MaxPlans -> Texts]
      /\ \A v \in 1..MaxPlans : v > task.plan + 1 => tip[v] = 0
  BY <1>1, <1>3, FilesTyped DEF GInv, Files, FilesAt
<1>5. files = tip \/ files = [tip EXCEPT ![task.plan] = Foreign]
  BY <1>2, <1>3
<1>6. files \in [1..MaxPlans -> Texts]
  BY <1>4, <1>5, Numbers
<1>7. ASSUME NEW v \in 1..MaxPlans, v > task.plan + 1 PROVE files[v] = 0
  <2>1. v # task.plan
    BY <1>1, <1>7
  <2> QED BY <1>4, <1>5, <1>7, <2>1
<1>8. PICK key \in Keys : key = <<>>
  BY DEF Keys
<1>9. github' = [github EXCEPT !.log = Append(@, [key |-> key, files |-> files])]
  BY <1>2, <1>8 DEF Interfere
<1>10. Longer(key, files) /\ github'.base = github.base
  BY <1>1, <1>9 DEF Longer, Hubs
<1> QED BY <1>1, <1>6, <1>7, <1>10, LongerStays

LEMMA WorldHub ==
    ASSUME IInv, CopyProposal \/ EditIssue \/ MoveBase \/ MergeOutside \/ ClosePull
    PROVE  github'.log = github.log /\ github'.base \in {github.base, 2}
<1>1. github \in Hubs
  BY DEF IInv
<1>2. \E body, at, pr : \/ github' = [github EXCEPT !.body = body, !.at = at]
                        \/ github' = [github EXCEPT !.pr = pr, !.at = at]
                        \/ github' = [github EXCEPT !.pr = pr] \/ github' = [github EXCEPT !.base = 2]
  BY DEF CopyProposal, EditIssue, MoveBase, MergeOutside, ClosePull, Interfere
<1>3. CASE \E body, at : github' = [github EXCEPT !.body = body, !.at = at]
  BY <1>1, <1>3 DEF Hubs
<1>4. CASE \E at, pr : github' = [github EXCEPT !.pr = pr, !.at = at]
  BY <1>1, <1>4 DEF Hubs
<1>5. CASE \E pr : github' = [github EXCEPT !.pr = pr]
  BY <1>1, <1>5 DEF Hubs
<1>6. CASE github' = [github EXCEPT !.base = 2]
  BY <1>1, <1>6 DEF Hubs
<1> QED BY <1>2, <1>3, <1>4, <1>5, <1>6

LEMMA WorldStays ==
    ASSUME IInv, GInv, CopyProposal \/ EditIssue \/ MoveBase \/ MergeOutside \/ ClosePull
    PROVE  BranchStays /\ github'.base # 0
<1>1. github.base # 0
  BY DEF GInv, Versioned
<1> QED BY <1>1, WorldHub, LogSame

LEMMA WorldKeep == ASSUME IInv, IInv', GInv, World \/ Crash PROVE GInv'
<1>1. CASE ExpireApproval
  <2>1. task' = [task EXCEPT !.mergeLive = FALSE] /\ task \in TaskRows
    BY <1>1, Sorted DEF ExpireApproval, Sorts
  <2>2. /\ task'.state = task.state /\ task'.retry = task.retry /\ task'.req = task.req
        /\ task'.head = task.head /\ task'.plan = task.plan /\ task'.base = task.base
        /\ task'.reqApproved = task.reqApproved /\ task'.offer = task.offer
        /\ task'.approval = task.approval
    BY <2>1 DEF TaskRows
  <2>3. TaskStays /\ StateStays
    BY <2>2 DEF TaskStays, StateStays
  <2> QED BY <1>1, <2>3, HubSame, FewerJobs, Quiet DEF ExpireApproval
<1>2. CASE Crash
  <2>1. Crew
    <3>1. ASSUME NEW k \in jobs' PROVE \E j \in jobs : Going(j, k)
      <4>1. PICK j \in jobs :
               k = IF j.status = "running" THEN [j EXCEPT !.status = "queued", !.at = "start"] ELSE j
        BY <1>2 DEF Crash
      <4>2. PICK l : l = [j EXCEPT !.status = "queued", !.at = "start"]
        OBVIOUS
      <4>3. Going(j, l) /\ Going(j, j)
        BY <4>2, Sorted, Progressing DEF Sorts, Going
      <4> QED BY <4>1, <4>2, <4>3
    <3> QED BY <1>2, <3>1, NobodyJoins DEF Crash, Crew
  <2> QED BY <1>2, <2>1, HubSame, TaskSame, Quiet DEF Crash
<1>3. CASE ~ExpireApproval /\ ~Crash
  <2>1. UNCHANGED <<task, jobs, made, plans, ledger, pending, merging>>
    BY <1>3 DEF World, CopyProposal, EditIssue, Push, MoveBase, MergeOutside, ClosePull, Interfere
  <2>2. BranchStays /\ github'.base # 0
    BY <1>3, PushStays, WorldStays DEF World
  <2> QED BY <2>1, <2>2, FewerJobs, TaskSame, Quiet
<1> QED BY <1>1, <1>2, <1>3

-----------------------------------------------------------------------------
(* The head moves                                                           *)

(* A job's commits are not below the head that it was done for.             *)
LEMMA HeadUp ==
    ASSUME IInv, NEW j \in jobs, IdentityCurrent(j)
    PROVE  /\ j.published # 0 => task.head <= j.published /\ j.published \in Nat
           /\ j.indexed # 0 => task.head <= j.indexed /\ j.indexed \in Nat
<1>1. /\ Known(j) /\ task.head \in Nat /\ j.published \in Nat /\ j.indexed \in Nat
      /\ j.pins.head \in {0, task.head}
  BY Sorted, Typed, JobTyped, Numbers DEF IInv, Branch, Sorts, IdentityCurrent
<1>2. j.published # 0 => j.published > task.head \/ j.published = task.head
  BY <1>1 DEF Known
<1>3. j.indexed # 0 => j.indexed > task.head
  BY <1>1 DEF Known
<1> QED BY <1>1, <1>2, <1>3

LEMMA PlannedKeep == ASSUME IInv, IInv', GInv, NEW j \in jobs, Planned(j) PROVE GInv'
<1>1. /\ UNCHANGED <<made, plans, ledger, merging, github>> /\ jobs' = jobs \ {j}
      /\ BranchStays /\ github'.base # 0
  BY HubSame DEF Planned
<1>2. /\ task \in TaskRows /\ j.kind = "plan" /\ j.request # <<>> /\ j.published # 0 /\ j.id # 0
      /\ task.head \in Nat /\ IdentityCurrent(j) /\ task.req # 0 /\ j.request.base # 0
  BY Sorted DEF Sorts, IInv, JobRowsTell, Row, Grown, Planned, Current, Publishing, GInv, Versioned
<1>3. task' = [task EXCEPT !.head = j.published]
  BY DEF Planned
<1>4. TaskLasts /\ StateStays /\ task'.head # 0 /\ task'.req # 0
  <2>1. /\ task'.state = task.state /\ task'.retry = task.retry /\ task'.req = task.req
        /\ task'.head = j.published /\ task'.plan = task.plan /\ task'.base = task.base
        /\ task'.reqApproved = task.reqApproved /\ task'.offer = task.offer
        /\ task'.approval = task.approval
    BY <1>2, <1>3 DEF TaskRows
  <2> QED BY <1>2, <2>1, HeadUp DEF TaskLasts, StateStays
<1>5. PICK p : /\ pending' = pending \cup {p}
               /\ p = [kind |-> "plan", hash |-> j.id, base |-> j.request.base]
  BY DEF Planned
<1>6. PlanReady(p)
  BY <1>2, <1>4, <1>5 DEF PlanReady
<1>7. Routine
  BY <1>1, <1>4, <1>5, <1>6, FewerJobs, NobodyJoins DEF Routine
<1> QED BY <1>7, RoutineKeeps

LEMMA ImplementedKeep == ASSUME IInv, IInv', GInv, NEW j \in jobs, Implemented(j) PROVE GInv'
<1>1. /\ UNCHANGED <<plans, ledger, pending, merging, github>>
      /\ BranchStays /\ github'.base # 0
  BY HubSame DEF Implemented
<1>2. /\ task \in TaskRows /\ j.indexed # 0 /\ task.head \in Nat /\ IdentityCurrent(j)
  BY Sorted DEF Sorts, IInv, JobRowsTell, Row, Implemented, Current
<1>3. PICK row : row = To(task, "Reviewing")
  OBVIOUS
<1>4. row \in TaskRows /\ Alike(row, task) /\ row.state = "Reviewing"
  BY <1>2, <1>3, Moved DEF States, Working
<1>5. PICK merge, review : task' = [row EXCEPT !.review = review, !.merge = merge, !.head = j.indexed]
  <2>1. task' = [[row EXCEPT !.review = None, !.merge = None] EXCEPT !.head = j.indexed]
    BY <1>3 DEF Implemented, Unapproved
  <2> QED BY <1>4, <2>1 DEF TaskRows
<1>6. TaskLasts /\ StateStays /\ task'.head # 0
  <2>1. /\ task'.state = row.state /\ task'.retry = row.retry /\ task'.req = row.req
        /\ task'.head = j.indexed /\ task'.plan = row.plan /\ task'.base = row.base
        /\ task'.reqApproved = row.reqApproved /\ task'.offer = row.offer
        /\ task'.approval = row.approval
    BY <1>4, <1>5 DEF TaskRows
  <2> QED BY <1>2, <1>4, <2>1, HeadUp DEF Alike, TaskLasts, StateStays, Planning
<1>7. Crew /\ \A k \in jobs' : Joins(k) => k.kind = "review"
  <2>1. Enqueue(jobs \ {j}, "review", task')
    BY DEF Implemented
  <2> QED BY <1>6, <2>1, Enqueued
<1>8. Routine
  BY <1>1, <1>6, <1>7 DEF Routine, Implementing
<1> QED BY <1>8, RoutineKeeps

(* The job that moves the head moves along.                                 *)
LEMMA RecordHeadKeep == ASSUME IInv, IInv', GInv, NEW j \in jobs, RecordHead(j) PROVE GInv'
<1>1. /\ UNCHANGED <<made, plans, ledger, pending, merging, github>>
      /\ BranchStays /\ github'.base # 0
  BY HubSame DEF RecordHead
<1>2. /\ task \in TaskRows /\ j \in JobRows /\ Implementing(j) /\ j.request # <<>> /\ j.published # 0
      /\ task.head \in Nat /\ IdentityCurrent(j) /\ Sorts /\ Sorts'
      /\ Versioned /\ Files /\ Confirmations /\ OnePlan /\ Granting
  BY Sorted, SortedAfter
     DEF Sorts, IInv, JobRowsTell, Row, RecordHead, Current, Publishing, Implementing, GInv
<1>3. j.pins.head = task.head
  BY <1>2 DEF Versioned, IdentityCurrent
<1>4. /\ task'.state = task.state /\ task'.retry = task.retry /\ task'.req = task.req
      /\ task'.head = j.published /\ task'.plan = task.plan /\ task'.base = task.base
      /\ task'.reqApproved = task.reqApproved /\ task'.offer = task.offer
      /\ task'.approval = task.approval
  <2>1. task' = [task EXCEPT !.head = j.published]
    BY DEF RecordHead
  <2> QED BY <1>2, <2>1 DEF TaskRows
<1>5. task.head <= task'.head /\ task'.head # 0 /\ task'.head \in Nat
  BY <1>2, <1>4, HeadUp
<1>6. PICK k : k = [j EXCEPT !.at = "recorded", !.pins.head = j.published]
  OBVIOUS
<1>7. /\ k.id = j.id /\ k.kind = j.kind /\ k.request = j.request
      /\ k.pins.req = j.pins.req /\ k.pins.plan = j.pins.plan /\ k.pins.head = task'.head
  <2>1. PICK pins : pins = [j.pins EXCEPT !.head = j.published]
    OBVIOUS
  <2>2. k = [j EXCEPT !.at = "recorded", !.pins = pins]
    BY <1>6, <2>1
  <2>3. k.id = j.id /\ k.kind = j.kind /\ k.request = j.request /\ k.pins = pins
    BY <1>2, <2>2 DEF JobRows
  <2>4. pins.req = j.pins.req /\ pins.plan = j.pins.plan /\ pins.head = j.published
    BY <1>2, <2>1 DEF JobRows, Identities
  <2> QED BY <1>4, <2>3, <2>4
<1>8. \A l \in jobs' : l = k \/ (l \in jobs /\ l # j)
  BY <1>6 DEF RecordHead, Set
<1>9. Kins
  <2>1. made <= made'
    BY <1>1, NobodyJoins
  <2>2. Kin(j, k) /\ \A l \in jobs : Kin(l, l)
    BY <1>7 DEF Kin
  <2> QED BY <1>8, <2>1, <2>2 DEF Kins
<1>10. Named' /\ Fresh' /\ ReviewedOnce'
  <2>1. task'.req <= made' /\ \A l \in jobs' : ~Joins(l)
    BY <1>1, <1>4, NobodyJoins DEF GInv, Named
  <2> QED BY <1>1, <1>4, <1>9, <2>1, NamedKept, FreshKept, ReviewedOnceKept
<1>11. Versioned'
  <2>1. ASSUME NEW l \in jobs'
        PROVE  /\ l.pins.head <= task'.head /\ l.pins.plan <= task'.plan
               /\ l.request # <<>> => l.request.base # 0
               /\ Implementing(l) => l.pins.req # 0 /\ l.pins.head # 0
               /\ l.kind = "review_plan" => l.pins.plan # 0
    <3>1. CASE l = k
      <4>1. j.pins.plan <= task'.plan /\ j.request.base # 0 /\ j.pins.req # 0
        BY <1>2, <1>4 DEF Versioned
      <4> QED BY <1>2, <1>5, <1>7, <3>1, <4>1 DEF Implementing
    <3>2. CASE l \in jobs
      <4>1. l.pins.head \in Nat /\ l.pins.head <= task.head
        BY <1>2, <3>2 DEF Sorts, Versioned
      <4>2. l.pins.head <= task'.head
        BY <1>2, <1>5, <4>1
      <4> QED BY <1>2, <1>4, <3>2, <4>2 DEF Versioned
    <3> QED BY <1>8, <3>1, <3>2
  <2> QED BY <1>1, <1>2, <1>4, <1>5, <2>1 DEF Versioned, Implementing
<1>12. Files'
  <2>1. ASSUME NEW l \in jobs', Unprepared(l), l.pins.plan = 0 PROVE Blank(l.pins.head)'
    <3>1. l \in jobs
      BY <1>2, <1>7, <1>8, <2>1 DEF Unprepared, Implementing
    <3> QED BY <1>1, <1>2, <2>1, <3>1 DEF Files, Blank
  <2> QED BY <1>1, <1>2, <1>4, <2>1 DEF Files, Unprepared, Implementing, Tip
<1>13. ASSUME NEW l \in jobs', Bare(l)'
       PROVE  \E i \in jobs : Bare(i) /\ i.id = l.id /\ i.request = l.request
  <2>1. CASE l = k
    BY <1>2, <1>3, <1>4, <1>7, <1>13, <2>1 DEF Bare, Implementing
  <2>2. CASE l \in jobs
    <3>1. l.pins.head = task.head
      <4>1. l.pins.head = task'.head /\ l.pins.head <= task.head
        BY <1>2, <1>13, <2>2 DEF Bare, Versioned
      <4> QED BY <1>2, <1>5, <4>1
    <3> QED BY <1>4, <1>13, <2>2, <3>1 DEF Bare, Implementing
  <2> QED BY <1>8, <2>1, <2>2
<1>14. Confirmations'
  <2>1. ASSUME NEW l \in jobs' PROVE \E i \in jobs : /\ i.kind = l.kind /\ i.request = l.request
                                                     /\ i.pins.req = l.pins.req
                                                     /\ i.pins.plan = l.pins.plan
    BY <1>7, <1>8
  <2> QED BY <1>1, <1>2, <1>4, <2>1 DEF Confirmations, Implementing
<1>15. OnePlan'
  <2>1. \A l \in jobs' : l.kind = "plan" => \E i \in jobs : i.kind = "plan" /\ i.id = l.id
    BY <1>7, <1>8
  <2> QED BY <1>1, <1>2, <1>4, <1>13, <2>1 DEF OnePlan, Rejected
<1>16. Granting'
  <2>1. RequirementsGrant' = RequirementsGrant /\ PlanGrant' = PlanGrant /\ ledger' = ledger
    BY <1>1, <1>4 DEF RequirementsGrant, PlanGrant
  <2>2. ASSUME NEW l \in jobs', Prepared(l), l.pins.req = task'.req, l.pins.plan # 0,
               l.pins.plan = task'.plan
        PROVE  RequirementsGrant' \in ledger' /\ PlanGrant' \in ledger'
    <3>1. \E i \in jobs : Prepared(i) /\ i.pins.req = l.pins.req /\ i.pins.plan = l.pins.plan
      BY <1>7, <1>8, <2>2 DEF Prepared, Implementing
    <3> QED BY <1>2, <1>4, <2>1, <2>2, <3>1 DEF Granting
  <2>3. ASSUME NEW l \in jobs', Prepared(l), Bare(l)'
        PROVE  /\ task'.plan = 1 /\ plans'[1].status = "approved"
               /\ RequirementsGrant' \in ledger' /\ PlanGrant' \in ledger'
    <3>1. PICK i \in jobs : Bare(i) /\ i.request = l.request
      BY <1>13, <2>3
    <3>2. Prepared(i)
      BY <2>3, <3>1 DEF Prepared, Bare
    <3> QED BY <1>1, <1>2, <1>4, <2>1, <3>1, <3>2 DEF Granting
  <2> QED BY <2>2, <2>3 DEF Granting, Prepared, Implementing
<1> QED BY <1>10, <1>11, <1>12, <1>14, <1>15, <1>16 DEF GInv

-----------------------------------------------------------------------------
(* Texts                                                                    *)

(* What a draft wrote waits to be registered.                               *)
LEMMA DraftedKeep == ASSUME IInv, IInv', GInv, NEW j \in jobs, Drafted(j) PROVE GInv'
<1>1. /\ UNCHANGED <<task, made, plans, ledger, merging, github>> /\ jobs' = jobs \ {j}
      /\ BranchStays /\ github'.base # 0 /\ TaskStays /\ StateStays /\ Crew
  BY HubSame, TaskSame, FewerJobs DEF Drafted
<1>2. /\ Sorts /\ Sorts' /\ Fresh /\ Named /\ j.kind = "draft" /\ Kins /\ \A k \in jobs' : ~Joins(k)
      /\ PlansStay
  BY <1>1, Sorted, SortedAfter, CrewKins, NobodyJoins DEF GInv, Drafted, PlansStay
<1>3. PICK p : /\ pending' = pending \cup {p}
               /\ p = [kind |-> "requirements", body |-> github.body, at |-> github.at]
  BY DEF Drafted
<1>4. p.kind = "requirements" /\ p.body = j.id
  BY <1>3 DEF Drafted
<1>5. Named'
  <2>1. task'.req <= made' /\ p.body <= made
    BY <1>1, <1>2, <1>4 DEF Named, Sorts
  <2> QED BY <1>2, <1>3, <2>1, NamedKept
<1>6. Fresh'
  <2>1. ASSUME NEW q \in pending', Waits(q) PROVE Unused(q.body)'
    <3>1. Unused(q.body) /\ q.body # 0
      BY <1>2, <1>3, <1>4, <2>1 DEF Fresh, Sorts
    <3> QED BY <1>1, <1>2, <3>1, StillUnused
  <2>2. ASSUME NEW q \in pending', NEW r \in pending', Waits(q), Waits(r), q.body = r.body
        PROVE  q = r
    BY <1>2, <1>3, <1>4, <2>2 DEF Fresh
  <2>3. ASSUME NEW k \in jobs', k.kind = "draft"
        PROVE  Unused(k.id)' /\ \A q \in pending' : Waits(q) => q.body # k.id
    <3>1. PICK id : id = k.id
      OBVIOUS
    <3>2. Unused(id) /\ id # 0 /\ id # j.id /\ \A q \in pending : Waits(q) => q.body # id
      BY <1>1, <1>2, <2>3, <3>1 DEF Fresh, Sorts
    <3>3. Unused(id)'
      BY <1>1, <1>2, <3>2, StillUnused
    <3> QED BY <1>3, <1>4, <3>1, <3>2, <3>3
  <2> QED BY <2>1, <2>2, <2>3 DEF Fresh, Waits
<1>7. Versioned' /\ Files'
  <2>1. task.head <= task'.head /\ task.plan <= task'.plan
    BY <1>1, <1>2 DEF Sorts
  <2> QED BY <1>1, <1>2, <1>3, <1>4, <2>1, VersionedKept, FilesKept
<1>8. ReviewedOnce'
  BY <1>1, <1>2, <1>3, <1>4, ReviewedOnceKept
<1>9. Confirmations' /\ OnePlan' /\ Granting'
  <2>1. task.head <= task'.head
    BY <1>1, <1>2 DEF Sorts
  <2> QED BY <1>1, <1>2, <2>1, ConfirmationsKept, OnePlanKept, GrantingKept
<1> QED BY <1>5, <1>6, <1>7, <1>8, <1>9 DEF GInv

(* Registered requirements are nobody's pins yet.                           *)
LEMMA RegisterRequirementsKeep ==
    ASSUME IInv, IInv', GInv, NEW p \in pending, RegisterRequirements(p)
    PROVE  GInv'
<1>1. /\ UNCHANGED <<jobs, made, plans, ledger, merging, github>> /\ pending' = pending \ {p}
      /\ BranchStays /\ github'.base # 0 /\ Crew /\ p.kind = "requirements"
  BY HubSame, FewerJobs DEF RegisterRequirements
<1>2. /\ Sorts /\ Sorts' /\ Fresh /\ Named /\ Kins /\ \A k \in jobs' : ~Joins(k)
  BY <1>1, Sorted, SortedAfter, CrewKins, NobodyJoins DEF GInv
<1>3. CASE task' = task
  BY <1>1, <1>3, TaskSame, Quiet
<1>4. CASE task' # task
  <2>1. PICK row, offer : /\ row = To(task, "AwaitingRequirementsConfirmation")
                          /\ offer = [row.offer EXCEPT !.req = p.body]
    OBVIOUS
  <2>2. row \in TaskRows /\ Alike(row, task)
    BY <1>2, <2>1, Moved DEF States, Sorts
  <2>3. task' = [row EXCEPT !.req = p.body, !.reqAt = p.at, !.body = p.body, !.reqApproved = FALSE,
                            !.offer = offer]
    BY <1>4, <2>1 DEF RegisterRequirements
  <2>4. /\ task'.req = p.body /\ task'.head = row.head /\ task'.plan = row.plan
        /\ task'.base = row.base /\ task'.reqApproved = FALSE
    BY <2>2, <2>3 DEF TaskRows
  <2>5. /\ task'.req = p.body /\ task'.head = task.head /\ task'.plan = task.plan
        /\ task'.base = task.base /\ task'.reqApproved = FALSE
    BY <2>2, <2>4 DEF Alike
  <2>6. Unused(p.body) /\ p.body # 0 /\ p.body <= made
    BY <1>1, <1>2 DEF Fresh, Sorts, Named, Waits
  <2>7. \A k \in jobs' : k.pins.req # task'.req
    BY <1>1, <2>5, <2>6 DEF Unused
  <2>8. Named'
    BY <1>1, <1>2, <2>5, <2>6, NamedKept
  <2>9. Fresh'
    <3>1. ASSUME NEW q \in pending', Waits(q) PROVE Unused(q.body)'
      BY <1>1, <1>2, <2>5, <3>1 DEF Fresh, Unused, Waits
    <3>2. ASSUME NEW k \in jobs', k.kind = "draft"
          PROVE  Unused(k.id)' /\ \A q \in pending' : Waits(q) => q.body # k.id
      BY <1>1, <1>2, <2>5, <3>2 DEF Fresh, Unused, Waits
    <3> QED BY <1>1, <1>2, <3>1, <3>2 DEF Fresh, Waits
  <2>10. Versioned' /\ Files'
    <3>1. PlansStay /\ task.head <= task'.head /\ task.plan <= task'.plan /\ task'.req # 0
      BY <1>1, <1>2, <2>5, <2>6 DEF PlansStay, Sorts
    <3> QED BY <1>1, <2>5, <3>1, VersionedKept, FilesKept
  <2>11. ReviewedOnce'
    BY <1>1, <1>2, ReviewedOnceKept
  <2>12. Confirmations' /\ OnePlan' /\ Granting'
    BY <2>5, <2>7 DEF Confirmations, OnePlan, Granting, Bare
  <2> QED BY <2>8, <2>9, <2>10, <2>11, <2>12 DEF GInv
<1> QED BY <1>3, <1>4

-----------------------------------------------------------------------------
(* Plans                                                                    *)

LEMMA PlanReviewedKeep == ASSUME IInv, IInv', GInv, NEW j \in jobs, PlanReviewed(j) PROVE GInv'
<1>1. /\ UNCHANGED <<task, made, plans, ledger, merging, github>> /\ jobs' = jobs \ {j}
      /\ BranchStays /\ github'.base # 0 /\ TaskStays /\ StateStays /\ Crew
  BY HubSame, TaskSame, FewerJobs DEF PlanReviewed
<1>2. /\ Sorts /\ Sorts' /\ ReviewedOnce /\ Versioned /\ Named /\ Kins /\ PlansStay
      /\ \A k \in jobs' : ~Joins(k)
      /\ j.kind = "review_plan" /\ IdentityCurrent(j)
  BY <1>1, Sorted, SortedAfter, CrewKins, NobodyJoins DEF GInv, PlanReviewed, Current, PlansStay
<1>3. PICK p, ok : /\ pending' = pending \cup {p}
                   /\ p = [kind |-> "plan_review", plan |-> task.plan, ok |-> ok]
  BY DEF PlanReviewed
<1>4. p.kind = "plan_review" /\ p.plan = task.plan /\ j.pins.plan = task.plan
  BY <1>2, <1>3 DEF Versioned, IdentityCurrent
<1>5. ReviewedOnce'
  <2>1. \A v : Undecided(v) => Undecided(v)'
    BY <1>1 DEF Undecided
  <2>2. ASSUME NEW k \in jobs', k.kind = "review_plan"
        PROVE  /\ Undecided(k.pins.plan)'
               /\ \A l \in jobs' : l.kind = "review_plan" /\ l.pins.plan = k.pins.plan => l = k
               /\ \A q \in pending' : q.kind = "plan_review" => q.plan # k.pins.plan
    <3>1. PICK plan : plan = k.pins.plan
      OBVIOUS
    <3>2. Undecided(plan) /\ k \in jobs /\ k # j
      BY <1>1, <1>2, <2>2, <3>1 DEF ReviewedOnce
    <3>3. Undecided(plan)'
      BY <2>1, <3>2
    <3>4. plan # task.plan
      BY <1>2, <1>4, <2>2, <3>1, <3>2 DEF ReviewedOnce
    <3> QED BY <1>1, <1>2, <1>3, <1>4, <2>2, <3>1, <3>2, <3>3, <3>4 DEF ReviewedOnce
  <2>3. ASSUME NEW q \in pending', q.kind = "plan_review"
        PROVE  /\ Undecided(q.plan)'
               /\ \A r \in pending' : r.kind = "plan_review" /\ r.plan = q.plan => r = q
    <3>1. Undecided(task.plan) /\ \A r \in pending : r.kind = "plan_review" => r.plan # task.plan
      BY <1>2, <1>4 DEF ReviewedOnce
    <3>2. PICK plan : plan = q.plan
      OBVIOUS
    <3>3. Undecided(plan)
      BY <1>2, <1>3, <1>4, <2>3, <3>1, <3>2 DEF ReviewedOnce
    <3>4. Undecided(plan)'
      BY <2>1, <3>3
    <3> QED BY <1>2, <1>3, <1>4, <2>3, <3>1, <3>2, <3>4 DEF ReviewedOnce
  <2> QED BY <2>2, <2>3 DEF ReviewedOnce
<1>6. Named' /\ Fresh'
  <2>1. task'.req <= made'
    BY <1>1, <1>2 DEF Named
  <2> QED BY <1>1, <1>2, <1>3, <1>4, <2>1, NamedKept, FreshKept DEF Waits
<1>7. task.head <= task'.head /\ task.plan <= task'.plan
  BY <1>1, <1>2 DEF Sorts
<1>8. Versioned' /\ Files' /\ Confirmations' /\ OnePlan' /\ Granting'
  BY <1>1, <1>2, <1>3, <1>4, <1>7, VersionedKept, FilesKept, ConfirmationsKept, OnePlanKept,
     GrantingKept
<1> QED BY <1>5, <1>6, <1>8 DEF GInv

(* A plan is registered while a fix without one is current only if it is the
   first, or another was rejected.                                          *)
LEMMA RegisterPlanKeep ==
    ASSUME IInv, IInv', GInv, NEW p \in pending, RegisterPlan(p)
    PROVE  GInv'
<1>1. /\ UNCHANGED <<ledger, merging, github>> /\ pending' = pending \ {p} /\ p.kind = "plan"
      /\ BranchStays /\ github'.base # 0
  BY HubSame DEF RegisterPlan
<1>2. /\ Sorts /\ Sorts' /\ Versioned /\ Named /\ ReviewedOnce /\ OnePlan /\ Granting
      /\ p.base # 0 /\ p.hash # 0 /\ task.head # 0 /\ task.req # 0
  BY <1>1, Sorted, SortedAfter DEF GInv, Versioned
<1>3. CASE UNCHANGED <<task, jobs, made, plans>>
  BY <1>1, <1>3, TaskSame, FewerJobs, Quiet
<1>4. CASE ~UNCHANGED <<task, jobs, made, plans>>
  <2>1. PICK new, plan : /\ new = [hash |-> p.hash, base |-> p.base, status |-> "pending"]
                         /\ plan = Len(plans) + 1
    OBVIOUS
  <2>2. /\ task.state = Planning /\ plans' = Append(plans, new)
        /\ task' = [To(task, "ReviewingImplementationPlan") EXCEPT !.plan = Len(plans'), !.base = p.base]
        /\ Enqueue(jobs, "review_plan", task')
    BY <1>4, <2>1 DEF RegisterPlan, Planning
  <2>3. new \in Plans /\ new.hash = p.hash /\ new.base = p.base /\ new.status = "pending"
    <3>1. p.hash \in Texts /\ p.base \in Nat
      BY <1>1, Typed DEF IInv, Pendings
    <3> QED BY <2>1, <3>1 DEF Plans
  <2>4. /\ Len(plans') = plan /\ plans'[plan] = new
        /\ \A v \in 1..Len(plans) : plans'[v] = plans[v]
    BY <1>2, <2>1, <2>2, <2>3, AppendProperties DEF Sorts
  <2>5. PICK row : row = To(task, "ReviewingImplementationPlan")
    OBVIOUS
  <2>6. row \in TaskRows /\ Alike(row, task) /\ row.state = "ReviewingImplementationPlan"
    BY <1>2, <2>5, Moved DEF Sorts, States, Working
  <2>7. task' = [row EXCEPT !.plan = plan, !.base = p.base]
    BY <2>2, <2>4, <2>5
  <2>8. /\ task'.state = row.state /\ task'.retry = row.retry /\ task'.req = row.req
        /\ task'.head = row.head /\ task'.plan = plan /\ task'.base = p.base
        /\ task'.reqApproved = row.reqApproved /\ task'.offer = row.offer
    BY <2>6, <2>7 DEF TaskRows
  <2>9. /\ task'.state = "ReviewingImplementationPlan" /\ task'.retry = task.retry
        /\ task'.req = task.req /\ task'.head = task.head
        /\ task'.reqApproved = task.reqApproved /\ task'.offer = task.offer
    BY <2>6, <2>8 DEF Alike
  <2>10. task.plan = Len(plans) /\ plan = task.plan + 1 /\ task.plan \in Nat /\ plan # 0
    BY <1>2, <2>1 DEF Versioned, Sorts
  <2>11. /\ Crew /\ Kins
         /\ \A k \in jobs' : Joins(k) => k.kind = "review_plan"
    BY <2>2, <2>8, <2>10, Enqueued, CrewKins
  <2>12. Named' /\ Fresh' /\ Files' /\ Confirmations'
    <3>1. task'.req <= made' /\ task.plan <= task'.plan
      BY <1>2, <2>8, <2>9, <2>10, <2>11 DEF Named, Crew, Sorts
    <3> QED BY <1>1, <2>9, <2>11, <3>1, NamedKept, FreshKept, FilesKept, ConfirmationsKept
            DEF Implementing
  <2>13. Versioned'
    <3>1. task'.plan = Len(plans') /\ task'.base = plans'[task'.plan].base
      BY <2>3, <2>4, <2>8
    <3>2. \A v \in 1..Len(plans') : v \in 1..Len(plans) \/ v = plan
      BY <2>1, <2>4, <2>10
    <3>3. \A v \in 1..Len(plans') : plans'[v].base # 0 /\ plans'[v].hash # 0
      BY <1>2, <2>3, <2>4, <3>2 DEF Versioned
    <3>4. ASSUME NEW k \in jobs'
          PROVE  /\ k.pins.head <= task'.head /\ k.pins.plan <= task'.plan
                 /\ k.request # <<>> => k.request.base # 0
                 /\ Implementing(k) => k.pins.req # 0 /\ k.pins.head # 0
                 /\ k.kind = "review_plan" => k.pins.plan # 0
      <4>1. CASE Joins(k)
        <5>1. task'.head \in Nat /\ task'.plan \in Nat
          BY <1>2 DEF Sorts
        <5> QED BY <4>1, <5>1 DEF Joins, Implementing
      <4>2. CASE \E j \in jobs : Going(j, k)
        <5>1. PICK j \in jobs : Going(j, k)
          BY <4>2
        <5>2. j.pins.plan <= task.plan /\ j.pins.plan \in Nat
          BY <1>2 DEF Versioned, Sorts
        <5>3. j.pins.plan <= task'.plan
          BY <2>8, <2>10, <5>2
        <5> QED BY <1>2, <2>9, <5>1, <5>3 DEF Going, Versioned, Implementing
      <4> QED BY <2>11, <4>1, <4>2 DEF Crew
    <3> QED BY <1>1, <1>2, <2>9, <3>1, <3>3, <3>4 DEF Versioned, Implementing
  <2>14. ReviewedOnce'
    <3>1. \A v : Undecided(v) => Undecided(v)' /\ v # plan
      BY <1>2, <2>4, <2>10 DEF Undecided, Sorts
    <3>2. Undecided(plan)'
      BY <2>3, <2>4, <2>10 DEF Undecided
    <3>3. ASSUME NEW k \in jobs', k.kind = "review_plan"
          PROVE  \/ k.pins.plan = plan /\ k.id = made + 1
                 \/ \E j \in jobs : Going(j, k) /\ j.kind = "review_plan" /\ k.pins.plan # plan
      <4>1. CASE Joins(k)
        BY <2>8, <3>3, <4>1 DEF Joins
      <4>2. CASE \E j \in jobs : Going(j, k)
        <5>1. PICK j \in jobs : Going(j, k)
          BY <4>2
        <5>2. Undecided(j.pins.plan) /\ j.kind = "review_plan"
          BY <1>2, <3>3, <5>1 DEF ReviewedOnce, Going
        <5> QED BY <3>1, <5>1, <5>2 DEF Going
      <4> QED BY <2>11, <4>1, <4>2 DEF Crew
    <3>4. ASSUME NEW k \in jobs', k.kind = "review_plan"
          PROVE  /\ Undecided(k.pins.plan)'
                 /\ \A l \in jobs' : l.kind = "review_plan" /\ l.pins.plan = k.pins.plan => l = k
                 /\ \A q \in pending' : q.kind = "plan_review" => q.plan # k.pins.plan
      <4>1. CASE k.pins.plan = plan /\ k.id = made + 1
        <5>1. Undecided(k.pins.plan)'
          <6>1. PICK v : v = k.pins.plan
            OBVIOUS
          <6>2. Undecided(v)'
            BY <3>2, <4>1, <6>1
          <6> QED BY <6>1, <6>2
        <5>2. ASSUME NEW l \in jobs', l.kind = "review_plan", l.pins.plan = k.pins.plan PROVE l = k
          <6>1. l.id = made + 1
            BY <3>3, <4>1, <5>2
          <6> QED BY <1>2, <4>1, <6>1 DEF Sorts
        <5>3. ASSUME NEW q \in pending', q.kind = "plan_review" PROVE q.plan # k.pins.plan
          <6>1. Undecided(q.plan)
            BY <1>1, <1>2, <5>3 DEF ReviewedOnce
          <6> QED BY <3>1, <4>1, <6>1
        <5> QED BY <5>1, <5>2, <5>3
      <4>2. CASE \E j \in jobs : Going(j, k) /\ j.kind = "review_plan" /\ k.pins.plan # plan
        <5>1. PICK j \in jobs : Going(j, k) /\ j.kind = "review_plan" /\ k.pins.plan # plan
          BY <4>2
        <5>2. PICK v : v = k.pins.plan
          OBVIOUS
        <5>3. Undecided(v) /\ j.pins.plan = v
          BY <1>2, <5>1, <5>2 DEF ReviewedOnce, Going
        <5>4. Undecided(v)'
          BY <3>1, <5>3
        <5>5. ASSUME NEW l \in jobs', l.kind = "review_plan", l.pins.plan = v PROVE l = k
          <6>1. PICK i \in jobs : Going(i, l) /\ i.kind = "review_plan"
            BY <3>3, <5>1, <5>2, <5>5
          <6>2. i = j
            BY <1>2, <5>1, <5>3, <5>5, <6>1 DEF ReviewedOnce, Going
          <6>3. l.id = k.id
            BY <5>1, <6>1, <6>2 DEF Going
          <6> QED BY <1>2, <6>3 DEF Sorts
        <5> QED BY <1>1, <1>2, <5>1, <5>2, <5>3, <5>4, <5>5 DEF ReviewedOnce
      <4> QED BY <3>3, <3>4, <4>1, <4>2
    <3>5. ASSUME NEW q \in pending', q.kind = "plan_review"
          PROVE  /\ Undecided(q.plan)'
                 /\ \A r \in pending' : r.kind = "plan_review" /\ r.plan = q.plan => r = q
      <4>1. PICK v : v = q.plan
        OBVIOUS
      <4>2. Undecided(v)
        BY <1>1, <1>2, <3>5, <4>1 DEF ReviewedOnce
      <4>3. Undecided(v)'
        BY <3>1, <4>2
      <4> QED BY <1>1, <1>2, <3>5, <4>1, <4>3 DEF ReviewedOnce
    <3> QED BY <3>4, <3>5 DEF ReviewedOnce
  <2>15. ASSUME NEW k \in jobs', Bare(k)' PROVE \E j \in jobs : Going(j, k) /\ Bare(j)
    <3>1. PICK j \in jobs : Going(j, k)
      BY <2>11, <2>15 DEF Crew, Bare, Implementing
    <3> QED BY <2>9, <2>15, <3>1 DEF Going, Bare, Implementing
  <2>16. OnePlan'
    <3>1. ASSUME NEW k \in jobs', Bare(k)', ~Rejected'
          PROVE  /\ IF task'.plan = 0 THEN task'.state # Planning \/ task'.retry # Planning
                    ELSE Planning \notin {task'.state, task'.retry}
                 /\ \A l \in jobs' : l.kind = "plan" => l.id < k.id
      <4>1. PICK j \in jobs : Going(j, k) /\ Bare(j)
        BY <2>15, <3>1
      <4>2. task.plan = 0 /\ ~Rejected
        BY <2>8, <2>10, <3>1 DEF Rejected
      <4>3. task.retry # Planning /\ \A i \in jobs : i.kind = "plan" => i.id < j.id
        BY <1>2, <2>2, <4>1, <4>2 DEF OnePlan
      <4>4. \A l \in jobs' : l.kind = "plan" => \E i \in jobs : i.kind = "plan" /\ i.id = l.id
        BY <2>11 DEF Crew, Going
      <4> QED BY <2>8, <2>9, <2>10, <4>1, <4>3, <4>4 DEF Going, Planning
    <3> QED BY <3>1 DEF OnePlan
  <2>17. Granting'
    <3>1. ASSUME NEW k \in jobs', Prepared(k) PROVE \E j \in jobs : Going(j, k) /\ Prepared(j)
      BY <2>11, <3>1 DEF Crew, Joins, Going, Prepared, Implementing
    <3>2. ASSUME NEW k \in jobs', Prepared(k), k.pins.plan = task'.plan PROVE FALSE
      <4>1. PICK j \in jobs : Going(j, k)
        BY <3>1, <3>2
      <4>2. j.pins.plan = task'.plan /\ j.pins.plan <= task.plan
        BY <1>2, <3>2, <4>1 DEF Going, Versioned
      <4> QED BY <2>8, <2>10, <4>2
    <3>3. ASSUME NEW k \in jobs', Prepared(k), Bare(k)' PROVE FALSE
      <4>1. PICK j \in jobs : Going(j, k) /\ Bare(j)
        BY <2>15, <3>3
      <4>2. Prepared(j)
        BY <3>3, <4>1 DEF Prepared, Going, Implementing
      <4>3. task.plan = 1 /\ plans[1].status = "approved"
        BY <1>2, <4>1, <4>2 DEF Granting
      <4> QED BY <1>2, <2>2, <4>1, <4>3 DEF OnePlan, Rejected
    <3> QED BY <3>2, <3>3 DEF Granting, Prepared, Implementing
  <2> QED BY <2>12, <2>13, <2>14, <2>16, <2>17 DEF GInv
<1> QED BY <1>3, <1>4

(* A plan is decided once; one that is not approved was rejected.           *)
LEMMA CompletePlanReviewKeep ==
    ASSUME IInv, IInv', GInv, NEW p \in pending, CompletePlanReview(p)
    PROVE  GInv'
<1>1. /\ UNCHANGED <<ledger, merging, github>> /\ pending' = pending \ {p} /\ p.kind = "plan_review"
      /\ BranchStays /\ github'.base # 0
  BY HubSame DEF CompletePlanReview
<1>2. /\ Sorts /\ Sorts' /\ Versioned /\ Named /\ ReviewedOnce /\ Undecided(p.plan)
      /\ task.plan = Len(plans)
  BY <1>1, Sorted, SortedAfter DEF GInv, ReviewedOnce, Versioned
<1>3. CASE UNCHANGED <<task, jobs, made, plans>>
  BY <1>1, <1>3, TaskSame, FewerJobs, Quiet
<1>4. CASE ~UNCHANGED <<task, jobs, made, plans>>
  <2>1. PICK status : /\ status = IF p.ok THEN "approved" ELSE "changes_requested"
                      /\ plans' = [plans EXCEPT ![p.plan].status = status]
    BY <1>4 DEF CompletePlanReview
  <2>2. PICK plan, new : plan = p.plan /\ new = [plans[plan] EXCEPT !.status = status]
    OBVIOUS
  <2>3. plans' = [plans EXCEPT ![plan] = new] /\ plan = task.plan /\ plan \in 1..Len(plans)
    BY <1>2, <1>4, <2>1, <2>2 DEF CompletePlanReview, Undecided
  <2>4. /\ new.status = status /\ new.hash = plans[plan].hash /\ new.base = plans[plan].base
        /\ status # "pending" /\ plans[plan].status = "pending"
    BY <1>2, <2>1, <2>2, <2>3 DEF Undecided, Sorts, Plans
  <2>5. /\ Len(plans') = Len(plans) /\ plans'[plan] = new
        /\ \A v \in 1..Len(plans) : v # plan => plans'[v] = plans[v]
    BY <1>2, <2>3, <2>4 DEF Sorts
  <2>6. /\ task'.req = task.req /\ task'.head = task.head /\ task'.plan = task.plan
        /\ task'.base = task.base /\ task'.reqApproved = task.reqApproved
        /\ task'.offer.req = task.offer.req /\ task'.approval = task.approval
        /\ task'.retry = task.retry
        /\ \/ task'.state = Planning /\ ~p.ok
           \/ task'.state # Planning /\ jobs' = jobs /\ made' = made
    <3>1. PICK state : /\ state = IF p.ok THEN "AwaitingPlanApproval"
                                  ELSE IF task.revisions.plan >= PlanRevisionLimit THEN "Blocked"
                                  ELSE Planning
      OBVIOUS
    <3>2. PICK row : row = To(task, state)
      OBVIOUS
    <3>3. row \in TaskRows /\ Alike(row, task) /\ row.state = state
      BY <1>2, <3>1, <3>2, Moved DEF Sorts, States, Working, STOPPED, Planning
    <3>4. \/ task' = row
          \/ \E plans1 : task' = [row EXCEPT !.offer.plan = plans1]
          \/ \E count : task' = [row EXCEPT !.revisions.plan = count]
      BY <1>4, <3>1, <3>2 DEF CompletePlanReview, Planning
    <3>5. \/ task' = row
          \/ \E offer : task' = [row EXCEPT !.offer = offer] /\ offer.req = row.offer.req
          \/ \E revisions : task' = [row EXCEPT !.revisions = revisions]
      <4>1. CASE \E n : task' = [row EXCEPT !.offer.plan = n]
        <5>1. PICK n : task' = [row EXCEPT !.offer.plan = n]
          BY <4>1
        <5>2. PICK offer : offer = [row.offer EXCEPT !.plan = n]
          OBVIOUS
        <5>3. offer.req = row.offer.req
          BY <3>3, <5>2, TaskTyped DEF Pairs
        <5> QED BY <5>1, <5>2, <5>3
      <4>2. CASE \E n : task' = [row EXCEPT !.revisions.plan = n]
        <5>1. PICK n : task' = [row EXCEPT !.revisions.plan = n]
          BY <4>2
        <5>2. PICK revisions : revisions = [row.revisions EXCEPT !.plan = n]
          OBVIOUS
        <5> QED BY <5>1, <5>2
      <4> QED BY <3>4, <4>1, <4>2
    <3>6. /\ task'.req = row.req /\ task'.head = row.head /\ task'.plan = row.plan
          /\ task'.base = row.base /\ task'.reqApproved = row.reqApproved
          /\ task'.offer.req = row.offer.req /\ task'.approval = row.approval
          /\ task'.retry = row.retry /\ task'.state = state
      BY <3>3, <3>5 DEF TaskRows
    <3>7. state # Planning => jobs' = jobs /\ made' = made
      BY <1>4, <3>1 DEF CompletePlanReview, Planning
    <3>8. state = Planning => ~p.ok
      BY <3>1 DEF Planning
    <3> QED BY <3>3, <3>6, <3>7, <3>8 DEF Alike
  <2>7. /\ Crew /\ Kins
        /\ \A k \in jobs' : Joins(k) => k.kind = "plan" /\ ~p.ok
    <3>1. CASE task'.state = Planning /\ ~p.ok /\ Enqueue(jobs, "plan", task')
      BY <3>1, Enqueued, CrewKins
    <3>2. CASE jobs' = jobs /\ made' = made
      BY <3>2, FewerJobs, NobodyJoins, CrewKins
    <3> QED BY <1>4, <2>6, <3>1, <3>2 DEF CompletePlanReview
  <2>8. PlansStay /\ task.head <= task'.head /\ task.plan <= task'.plan
    BY <1>2, <2>4, <2>5, <2>6 DEF PlansStay, Sorts
  <2>9. Named' /\ Fresh' /\ Versioned' /\ Files' /\ Confirmations' /\ Granting'
    <3>1. task'.req <= made'
      BY <1>2, <2>6, <2>7 DEF Named, Crew, Sorts
    <3> QED BY <1>1, <2>6, <2>7, <2>8, <3>1, NamedKept, FreshKept, VersionedKept, FilesKept,
               ConfirmationsKept, GrantingKept DEF Implementing
  <2>10. ReviewedOnce'
    <3>1. \A v : Undecided(v) /\ v # plan => Undecided(v)'
      BY <2>5 DEF Undecided
    <3>2. ASSUME NEW k \in jobs', k.kind = "review_plan"
          PROVE  /\ Undecided(k.pins.plan)'
                 /\ \A l \in jobs' : l.kind = "review_plan" /\ l.pins.plan = k.pins.plan => l = k
                 /\ \A q \in pending' : q.kind = "plan_review" => q.plan # k.pins.plan
      <4>1. PICK j \in jobs : Going(j, k)
        BY <2>7, <3>2 DEF Crew
      <4>2. PICK v : v = k.pins.plan
        OBVIOUS
      <4>3. Undecided(v) /\ v # plan
        BY <1>1, <1>2, <2>2, <3>2, <4>1, <4>2 DEF ReviewedOnce, Going
      <4>4. Undecided(v)'
        BY <3>1, <4>3
      <4>5. ASSUME NEW l \in jobs', l.kind = "review_plan", l.pins.plan = v PROVE l = k
        <5>1. PICK i \in jobs : Going(i, l)
          BY <2>7, <4>5 DEF Crew
        <5>2. i = j
          BY <1>2, <3>2, <4>1, <4>2, <4>5, <5>1 DEF ReviewedOnce, Going
        <5> QED BY <1>2, <4>1, <5>1, <5>2 DEF Going, Sorts
      <4> QED BY <1>1, <1>2, <3>2, <4>1, <4>2, <4>4, <4>5 DEF ReviewedOnce, Going
    <3>3. ASSUME NEW q \in pending', q.kind = "plan_review"
          PROVE  /\ Undecided(q.plan)'
                 /\ \A r \in pending' : r.kind = "plan_review" /\ r.plan = q.plan => r = q
      <4>1. PICK v : v = q.plan
        OBVIOUS
      <4>2. Undecided(v) /\ v # plan
        BY <1>1, <1>2, <2>2, <3>3, <4>1 DEF ReviewedOnce
      <4>3. Undecided(v)'
        BY <3>1, <4>2
      <4> QED BY <1>1, <1>2, <3>3, <4>1, <4>3 DEF ReviewedOnce
    <3> QED BY <3>2, <3>3 DEF ReviewedOnce
  <2>11. OnePlan'
    <3>1. CASE p.ok
      <4>1. StateStays /\ \A k \in jobs' : ~Joins(k)
        BY <2>6, <2>7, <3>1 DEF StateStays
      <4> QED BY <2>6, <2>7, <2>8, <4>1, OnePlanKept
    <3>2. CASE ~p.ok
      <4>1. Rejected'
        <5>1. status = "changes_requested" /\ plans'[plan].status = "changes_requested"
          BY <2>1, <2>4, <2>5, <3>2
        <5> QED BY <1>2, <2>3, <2>6, <5>1 DEF Rejected, Sorts
      <4> QED BY <4>1 DEF OnePlan
    <3> QED BY <3>1, <3>2
  <2> QED BY <2>9, <2>10, <2>11 DEF GInv
<1> QED BY <1>3, <1>4

-----------------------------------------------------------------------------
(* What is prepared                                                         *)

(* A fix that pins no plan is only prepared under the first.                *)
LEMMA FirstPlan ==
    ASSUME IInv, GInv, NEW j \in jobs, Implementing(j), j.request = <<>>, IdentityCurrent(j),
           Verified(j.kind)
    PROVE  /\ task.plan # 0 /\ plans[task.plan].status = "approved"
           /\ RequirementsGrant \in ledger /\ PlanGrant \in ledger
           /\ j.pins.plan = 0 => task.plan = 1
<1>1. /\ task.plan # 0 /\ plans[task.plan].status = "approved" /\ PlanIntact(task.head)
      /\ RequirementsGrant \in ledger /\ PlanGrant \in ledger
  BY DEF Verified, Implementing
<1>2. /\ task.plan \in Versions /\ task.plan \in Nat /\ task.plan = Len(plans)
      /\ plans[task.plan].hash # 0 /\ j.pins.head = task.head /\ task.head # 0
  BY <1>1, Sorted DEF GInv, Versioned, IdentityCurrent, Sorts, TaskRows
<1>3. github.log[task.head].files[task.plan] # 0
  BY <1>1, <1>2 DEF PlanIntact, PlanFile
<1>4. j.pins.plan = 0 => task.plan = 1
  <2>1. SUFFICES ASSUME j.pins.plan = 0, task.plan # 1 PROVE FALSE
    OBVIOUS
  <2>2. Blank(task.head)
    BY <1>2, <2>1 DEF GInv, Files, Unprepared
  <2>3. task.plan \in 2..MaxPlans
    <3>1. PICK plan : plan = task.plan
      OBVIOUS
    <3>2. plan \in 0..MaxPlans /\ plan # 0 /\ plan # 1
      BY <1>1, <1>2, <2>1, <3>1 DEF Versions
    <3> QED BY <3>1, <3>2, WorkflowV2Assumption
  <2> QED BY <1>3, <2>2, <2>3 DEF Blank
<1> QED BY <1>1, <1>4

LEMMA PrepareKeep == ASSUME IInv, IInv', GInv, NEW j \in jobs, Prepare(j) PROVE GInv'
<1>1. /\ UNCHANGED <<made, plans, ledger, pending, merging, github>>
      /\ BranchStays /\ github'.base # 0
  BY HubSame DEF Prepare
<1>2. /\ task \in TaskRows /\ j \in JobRows /\ j.request = <<>> /\ IdentityCurrent(j)
      /\ Sorts /\ Sorts' /\ Named /\ Versioned /\ Files /\ Confirmations /\ OnePlan /\ Granting
      /\ github.base # 0
  BY Sorted, SortedAfter DEF Sorts, Prepare, Current, GInv, Versioned
<1>3. CASE ~Verified(j.kind)
  BY <1>1, <1>3, Failing, Quiet DEF Prepare
<1>4. CASE Verified(j.kind)
  <2>1. PICK base, request :
           /\ base = (IF task.base = 0 THEN github.base ELSE task.base)
           /\ request = [Identity EXCEPT !.base = base]
    OBVIOUS
  <2>2. PICK k : k = [j EXCEPT !.at = "run", !.request = request]
    OBVIOUS
  <2>3. task' = [task EXCEPT !.base = base] /\ Set(j, k)
    BY <1>4, <2>1, <2>2 DEF Prepare
  <2>4. base # 0 /\ request # <<>> /\ request.base = base
    BY <1>2, <2>1 DEF Identity
  <2>5. /\ k.id = j.id /\ k.kind = j.kind /\ k.pins = j.pins /\ k.request = request
    BY <1>2, <2>2 DEF JobRows
  <2>6. \A l \in jobs' : l = k \/ (l \in jobs /\ l # j)
    BY <2>3 DEF Set
  <2>7. /\ task'.req = task.req /\ task'.head = task.head /\ task'.plan = task.plan
        /\ task'.base = base /\ task'.reqApproved = task.reqApproved
        /\ task'.offer = task.offer /\ task'.approval = task.approval
        /\ task'.state = task.state /\ task'.retry = task.retry
    BY <1>2, <2>3 DEF TaskRows
  <2>8. task.plan # 0 => base = task.base
    <3>1. task.plan # 0 => task.base # 0
      BY <1>2 DEF Versioned, Sorts
    <3> QED BY <2>1, <3>1
  <2>9. Kins /\ \A l \in jobs' : ~Joins(l)
    <3>1. made <= made' /\ \A l \in jobs' : ~Joins(l)
      BY <1>1, NobodyJoins
    <3>2. Kin(j, k) /\ \A l \in jobs : Kin(l, l)
      BY <2>5 DEF Kin
    <3> QED BY <2>6, <3>1, <3>2 DEF Kins
  <2>10. Named' /\ Fresh' /\ ReviewedOnce'
    <3>1. task'.req <= made'
      BY <1>1, <1>2, <2>7 DEF Named
    <3> QED BY <1>1, <2>7, <2>9, <3>1, NamedKept, FreshKept, ReviewedOnceKept
  <2>11. Versioned'
    <3>1. task.plan # 0 => task'.base = plans[task.plan].base
      BY <1>2, <2>7, <2>8 DEF Versioned
    <3>2. ASSUME NEW l \in jobs'
          PROVE  /\ l.pins.head <= task'.head /\ l.pins.plan <= task'.plan
                 /\ l.request # <<>> => l.request.base # 0
                 /\ Implementing(l) => l.pins.req # 0 /\ l.pins.head # 0
                 /\ l.kind = "review_plan" => l.pins.plan # 0
      BY <1>2, <2>4, <2>5, <2>6, <2>7 DEF Versioned, Implementing
    <3> QED BY <1>1, <1>2, <2>7, <3>1, <3>2 DEF Versioned, Implementing
  <2>12. Files'
    <3>1. ASSUME NEW l \in jobs', Unprepared(l), l.pins.plan = 0 PROVE Blank(l.pins.head)'
      <4>1. \E i \in jobs : Unprepared(i) /\ i.pins = l.pins
        BY <1>2, <2>5, <2>6, <3>1 DEF Unprepared, Implementing
      <4> QED BY <1>1, <1>2, <3>1, <4>1 DEF Files, Blank
    <3> QED BY <1>1, <1>2, <2>7, <3>1 DEF Files, Unprepared, Implementing, Tip
  <2>13. Confirmations'
    <3>1. k.kind = "review" => Granted(ledger, task.offer.req, "requirements")
      BY <1>2, <1>4, <2>5 DEF Verified, Confirmations
    <3>2. ASSUME NEW l \in jobs', l.pins.req = task.req,
                 \/ l.kind = "review" /\ l.request # <<>>
                 \/ Implementing(l) /\ l.pins.plan = 0
          PROVE  Granted(ledger, task.offer.req, "requirements")
      <4>1. CASE l = k
        BY <1>2, <2>5, <3>1, <3>2, <4>1 DEF Confirmations, Implementing
      <4>2. CASE l \in jobs
        BY <1>2, <3>2, <4>2 DEF Confirmations
      <4> QED BY <2>6, <4>1, <4>2
    <3> QED BY <1>1, <1>2, <2>7, <3>2 DEF Confirmations, Implementing
  <2>14. ASSUME NEW l \in jobs'
         PROVE  \E i \in jobs : i.id = l.id /\ i.kind = l.kind /\ i.pins = l.pins /\ (Bare(l)' => Bare(i))
    <3>1. CASE l = k
      BY <2>5, <2>7, <3>1 DEF Bare, Implementing
    <3>2. CASE l \in jobs
      BY <2>7, <3>2 DEF Bare
    <3> QED BY <2>6, <3>1, <3>2
  <2>15. OnePlan'
    BY <1>1, <1>2, <2>7, <2>14 DEF OnePlan, Rejected
  <2>16. task.plan # 0 => RequirementsGrant' = RequirementsGrant /\ PlanGrant' = PlanGrant
    BY <2>7, <2>8 DEF RequirementsGrant, PlanGrant
  <2>17. Granting'
    <3>1. Prepared(k) => /\ task.plan # 0 /\ plans[task.plan].status = "approved"
                         /\ RequirementsGrant \in ledger /\ PlanGrant \in ledger
                         /\ k.pins.plan = 0 => task.plan = 1
      BY <1>2, <1>4, <2>5, FirstPlan DEF Prepared, Implementing
    <3>2. ASSUME NEW l \in jobs', Prepared(l), l.pins.req = task'.req, l.pins.plan # 0,
                 l.pins.plan = task'.plan
          PROVE  RequirementsGrant' \in ledger' /\ PlanGrant' \in ledger'
      BY <1>1, <1>2, <2>6, <2>7, <2>16, <3>1, <3>2 DEF Granting
    <3>3. ASSUME NEW l \in jobs', Prepared(l), Bare(l)'
          PROVE  /\ task'.plan = 1 /\ plans'[1].status = "approved"
                 /\ RequirementsGrant' \in ledger' /\ PlanGrant' \in ledger'
      <4>1. CASE l = k
        BY <1>1, <2>7, <2>16, <3>1, <3>3, <4>1 DEF Bare
      <4>2. CASE l \in jobs
        <5>1. Bare(l)
          BY <2>7, <3>3 DEF Bare
        <5> QED BY <1>1, <1>2, <2>7, <2>16, <3>3, <4>2, <5>1 DEF Granting
      <4> QED BY <2>6, <4>1, <4>2
    <3> QED BY <3>2, <3>3 DEF Granting, Prepared, Implementing
  <2> QED BY <2>10, <2>11, <2>12, <2>13, <2>15, <2>17 DEF GInv
<1> QED BY <1>3, <1>4

-----------------------------------------------------------------------------
(* What the owner approves                                                  *)

(* An offer that is not granted yet is not that of a fix's requirements.    *)
LEMMA ApproveRequirementsKeep == ASSUME IInv, IInv', GInv, ApproveRequirements PROVE GInv'
<1>1. /\ UNCHANGED <<plans, pending, merging, github>> /\ ledger \subseteq ledger'
      /\ BranchStays /\ github'.base # 0 /\ ~Granted(ledger, task.offer.req, "requirements")
  BY HubSame DEF ApproveRequirements
<1>2. Sorts /\ Sorts' /\ Named /\ Versioned /\ Confirmations /\ Granting
  BY Sorted, SortedAfter DEF GInv
<1>3. PICK row, approval : /\ row = To(task, Planning)
                           /\ approval = [row.approval EXCEPT !.req = task.offer.req]
  OBVIOUS
<1>4. row \in TaskRows /\ Alike(row, task) /\ row.approval \in Pairs
  BY <1>2, <1>3, Moved, TaskTyped DEF Sorts, States, Working, Planning
<1>5. task' = [row EXCEPT !.reqApproved = TRUE, !.approval = approval]
  BY <1>3 DEF ApproveRequirements, Planning
<1>6. /\ task'.req = row.req /\ task'.head = row.head /\ task'.plan = row.plan
      /\ task'.base = row.base /\ task'.offer = row.offer /\ task'.approval = approval
  BY <1>4, <1>5 DEF TaskRows
<1>7. /\ task'.req = task.req /\ task'.head = task.head /\ task'.plan = task.plan
      /\ task'.base = task.base /\ task'.offer = task.offer
      /\ task'.approval.req = task.offer.req /\ task'.approval.plan = task.approval.plan
  <2>1. approval.req = task.offer.req /\ approval.plan = row.approval.plan
    BY <1>3, <1>4 DEF Pairs
  <2> QED BY <1>4, <1>6, <2>1 DEF Alike
<1>8. Crew /\ Kins /\ \A k \in jobs' : Joins(k) => k.kind = "plan"
  <2>1. Enqueue(jobs, "plan", task')
    BY DEF ApproveRequirements
  <2> QED BY <2>1, Enqueued, CrewKins
<1>9. /\ PlansStay /\ task.head <= task'.head /\ task.plan <= task'.plan /\ task'.req <= made'
  BY <1>1, <1>2, <1>7, <1>8 DEF PlansStay, Sorts, Named, Crew
<1>10. Named' /\ Fresh' /\ Versioned' /\ ReviewedOnce' /\ Files'
  BY <1>1, <1>7, <1>8, <1>9, NamedKept, FreshKept, VersionedKept, ReviewedOnceKept, FilesKept
<1>11. RequirementsGrant' \in ledger' /\ Granted(ledger', task'.offer.req, "requirements")
  <2>1. PICK grant : /\ grant = [stage |-> "requirements", id |-> task.offer.req,
                                 target |-> [None EXCEPT !.req = task.req]]
                     /\ grant \in ledger'
    BY DEF ApproveRequirements
  <2>2. grant = RequirementsGrant'
    BY <1>7, <2>1 DEF RequirementsGrant
  <2> QED BY <1>7, <2>1, <2>2 DEF Granted
<1>12. Confirmations'
  BY <1>11 DEF Confirmations
<1>13. ASSUME NEW k \in jobs' PROVE ~Bare(k)'
  <2>1. SUFFICES ASSUME Bare(k)' PROVE FALSE
    OBVIOUS
  <2>2. PICK j \in jobs : Going(j, k)
    BY <1>8, <2>1 DEF Crew, Bare, Implementing
  <2>3. Implementing(j) /\ j.pins.plan = 0 /\ j.pins.req = task.req
    BY <1>7, <2>1, <2>2 DEF Bare, Going, Implementing
  <2> QED BY <1>1, <1>2, <2>3 DEF Confirmations
<1>14. OnePlan'
  BY <1>13 DEF OnePlan
<1>15. Granting'
  <2>1. PlanGrant' = PlanGrant
    BY <1>7 DEF PlanGrant
  <2>2. ASSUME NEW k \in jobs', Prepared(k), k.pins.req = task'.req, k.pins.plan # 0,
               k.pins.plan = task'.plan
        PROVE  RequirementsGrant' \in ledger' /\ PlanGrant' \in ledger'
    <3>1. PICK j \in jobs : Going(j, k)
      BY <1>8, <2>2 DEF Crew, Joins, Prepared
    <3>2. Prepared(j) /\ j.pins.req = task.req /\ j.pins.plan # 0 /\ j.pins.plan = task.plan
      BY <1>7, <2>2, <3>1 DEF Going, Prepared, Implementing
    <3>3. PlanGrant \in ledger
      BY <1>2, <3>2 DEF Granting
    <3> QED BY <1>1, <1>11, <2>1, <3>3
  <2> QED BY <1>13, <2>2 DEF Granting, Prepared, Implementing
<1> QED BY <1>10, <1>12, <1>14, <1>15 DEF GInv

LEMMA ApprovePlanKeep == ASSUME IInv, IInv', GInv, ApprovePlan PROVE GInv'
<1>1. /\ UNCHANGED <<plans, pending, merging, github>> /\ ledger \subseteq ledger'
      /\ BranchStays /\ github'.base # 0 /\ task.plan # 0
  BY HubSame DEF ApprovePlan
<1>2. /\ Sorts /\ Sorts' /\ Named /\ Versioned /\ Granting
      /\ task.head # 0 /\ task.req # 0 /\ task.base = plans[task.plan].base
  BY <1>1, Sorted, SortedAfter DEF GInv, Versioned
<1>3. PICK row, approval : /\ row = To(task, "Queued")
                           /\ approval = [row.approval EXCEPT !.plan = task.offer.plan]
  OBVIOUS
<1>4. row \in TaskRows /\ Alike(row, task) /\ row.approval \in Pairs /\ row.state = "Queued"
  BY <1>2, <1>3, Moved, TaskTyped DEF Sorts, States, Working
<1>5. task' = [row EXCEPT !.approval = approval]
  BY <1>3 DEF ApprovePlan
<1>6. /\ task'.req = row.req /\ task'.head = row.head /\ task'.plan = row.plan
      /\ task'.base = row.base /\ task'.offer = row.offer /\ task'.approval = approval
      /\ task'.state = row.state /\ task'.retry = row.retry /\ task'.reqApproved = row.reqApproved
  BY <1>4, <1>5 DEF TaskRows
<1>7. /\ task'.req = task.req /\ task'.head = task.head /\ task'.plan = task.plan
      /\ task'.base = task.base /\ task'.offer = task.offer /\ task'.reqApproved = task.reqApproved
      /\ task'.approval.req = task.approval.req /\ task'.approval.plan = task.offer.plan
      /\ task'.state # Planning /\ task'.retry = task.retry
  <2>1. approval.plan = task.offer.plan /\ approval.req = row.approval.req
    BY <1>3, <1>4 DEF Pairs
  <2> QED BY <1>4, <1>6, <2>1 DEF Alike, Planning
<1>8. Crew /\ Kins /\ \A k \in jobs' : Joins(k) => k.kind = "implement"
  <2>1. Enqueue(jobs, "implement", task') /\ task'.req # 0 /\ task'.head # 0
    BY <1>2, <1>7 DEF ApprovePlan
  <2> QED BY <2>1, Enqueued, CrewKins
<1>9. /\ PlansStay /\ task.head <= task'.head /\ task.plan <= task'.plan /\ task'.req <= made'
      /\ StateStays
  BY <1>1, <1>2, <1>7, <1>8 DEF PlansStay, Sorts, Named, Crew, StateStays
<1>10. Named' /\ Fresh' /\ Versioned' /\ ReviewedOnce' /\ Files' /\ Confirmations' /\ OnePlan'
  BY <1>1, <1>7, <1>8, <1>9, NamedKept, FreshKept, VersionedKept, ReviewedOnceKept, FilesKept,
     ConfirmationsKept, OnePlanKept DEF Implementing
<1>11. PlanGrant' \in ledger'
  <2>1. PICK grant : /\ grant = [stage |-> "plan", id |-> task.offer.plan,
                                 target |-> [None EXCEPT !.plan = task.plan,
                                                         !.base = plans[task.plan].base]]
                     /\ grant \in ledger'
    BY DEF ApprovePlan
  <2>2. grant = PlanGrant'
    BY <1>2, <1>7, <2>1 DEF PlanGrant
  <2> QED BY <2>1, <2>2
<1>12. RequirementsGrant' = RequirementsGrant
  BY <1>7 DEF RequirementsGrant
<1>13. Granting'
  <2>1. ASSUME NEW k \in jobs', Prepared(k)
        PROVE  \E j \in jobs : Going(j, k) /\ Prepared(j) /\ (Bare(k)' => Bare(j))
    BY <1>7, <1>8, <2>1 DEF Crew, Joins, Going, Prepared, Bare, Implementing
  <2>2. ASSUME NEW k \in jobs', Prepared(k), k.pins.req = task'.req, k.pins.plan # 0,
               k.pins.plan = task'.plan
        PROVE  RequirementsGrant' \in ledger' /\ PlanGrant' \in ledger'
    <3>1. PICK j \in jobs : Going(j, k) /\ Prepared(j)
      BY <2>1, <2>2
    <3>2. RequirementsGrant \in ledger
      BY <1>2, <1>7, <2>2, <3>1 DEF Granting, Going
    <3> QED BY <1>1, <1>11, <1>12, <3>2
  <2>3. ASSUME NEW k \in jobs', Prepared(k), Bare(k)'
        PROVE  /\ task'.plan = 1 /\ plans'[1].status = "approved"
               /\ RequirementsGrant' \in ledger' /\ PlanGrant' \in ledger'
    BY <1>1, <1>2, <1>7, <1>11, <1>12, <2>1, <2>3 DEF Granting
  <2> QED BY <2>2, <2>3 DEF Granting, Prepared, Implementing
<1> QED BY <1>10, <1>13 DEF GInv

-----------------------------------------------------------------------------
(* Back to an earlier phase: only drafts are left, and the new job          *)

LEMMA AnewKeeps ==
    ASSUME IInv, IInv', GInv, Crew, \A k \in jobs' : k.kind = "draft" \/ Joins(k),
           \A k \in jobs' : k.kind \in {"draft", "plan", "review"},
           task'.req = task.req, task.head <= task'.head, task'.plan = task.plan,
           task'.base = task.base, task'.offer.req = task.offer.req,
           task'.reqApproved = task.reqApproved,
           UNCHANGED <<plans, ledger, pending, github>>
    PROVE  GInv'
<1>1. Sorts /\ Sorts' /\ Named /\ Kins /\ PlansStay /\ BranchStays /\ github'.base # 0
  <2>1. BranchStays /\ github'.base # 0
    BY HubSame
  <2> QED BY <2>1, Sorted, SortedAfter, CrewKins DEF GInv, PlansStay
<1>2. task.plan <= task'.plan /\ task'.req <= made'
  BY <1>1 DEF Sorts, Named, Crew
<1>3. Named' /\ Fresh' /\ Versioned' /\ ReviewedOnce' /\ Files' /\ Confirmations'
  BY <1>1, <1>2, NamedKept, FreshKept, VersionedKept, ReviewedOnceKept, FilesKept,
     ConfirmationsKept DEF Implementing
<1>4. OnePlan' /\ Granting'
  BY DEF OnePlan, Granting, Bare, Prepared, Implementing
<1> QED BY <1>3, <1>4 DEF GInv

LEMMA Drafts ==
    ASSUME IInv, NEW j \in Kept, Open(j) \/ j.status = "proposed"
    PROVE  j.kind = "draft"
BY DEF IInv, JobRowsTell, Row, Kept

LEMMA Reopened ==
    ASSUME IInv, NEW state \in States, NEW row, row = Invalidated(To(task, state)),
           \/ \E approval : task' = [row EXCEPT !.approval = approval]
           \/ task' = [row EXCEPT !.approval.plan = 0]
           \/ task' = [row EXCEPT !.head = Tip]
    PROVE  /\ task'.req = task.req /\ task'.plan = task.plan
           /\ task'.base = task.base /\ task'.offer.req = task.offer.req
           /\ task'.reqApproved = task.reqApproved
           /\ task.head <= task'.head /\ (task.head # 0 => task'.head # 0)
<1>1. task \in TaskRows /\ Sorts
  BY Sorted DEF Sorts
<1>2. PICK moved : moved = To(task, state)
  OBVIOUS
<1>3. moved \in TaskRows /\ Alike(moved, task)
  BY <1>1, <1>2, Moved
<1>4. row = [moved EXCEPT !.review = None, !.merge = None]
  BY <1>2 DEF Invalidated, Unapproved
<1>5. /\ row \in TaskRows /\ row.req = moved.req /\ row.plan = moved.plan /\ row.base = moved.base
      /\ row.offer = moved.offer /\ row.reqApproved = moved.reqApproved /\ row.head = moved.head
  BY <1>3, <1>4, NoneTyped DEF TaskRows
<1>6. \/ \E approval : task' = [row EXCEPT !.approval = approval]
      \/ task' = [row EXCEPT !.head = Tip]
  <2>1. CASE task' = [row EXCEPT !.approval.plan = 0]
    <3>1. PICK approval : approval = [row.approval EXCEPT !.plan = 0]
      OBVIOUS
    <3> QED BY <2>1, <3>1
  <2> QED BY <2>1
<1>7. /\ task'.req = row.req /\ task'.plan = row.plan /\ task'.base = row.base
      /\ task'.offer = row.offer /\ task'.reqApproved = row.reqApproved
      /\ task'.head \in {row.head, Tip}
  BY <1>5, <1>6 DEF TaskRows
<1> QED BY <1>1, <1>3, <1>5, <1>7 DEF Alike, Sorts

LEMMA ReviseKeep == ASSUME IInv, IInv', GInv, Revise PROVE GInv'
<1>1. UNCHANGED <<plans, ledger, pending, merging, github>>
  BY DEF Revise
<1>2. /\ task'.req = task.req /\ task'.plan = task.plan
      /\ task'.base = task.base /\ task'.offer.req = task.offer.req
      /\ task'.reqApproved = task.reqApproved /\ task.head <= task'.head
  <2>1. PICK row : row = Invalidated(To(task, "DraftingRequirements"))
    OBVIOUS
  <2>2. \E approval : task' = [row EXCEPT !.approval = approval]
    BY <2>1 DEF Revise
  <2>3. "DraftingRequirements" \in States
    BY DEF States, Working
  <2> QED BY <2>1, <2>2, <2>3, Reopened
<1>3. PICK pins, new : /\ pins = [Identity EXCEPT !.plan = 0, !.head = 0]
                       /\ new = NewJob("draft", pins)
  OBVIOUS
<1>4. /\ new.id = made + 1 /\ new.kind = "draft" /\ new.request = <<>> /\ new.pins.req = task.req
      /\ new.pins.plan = 0 /\ new.pins.head = 0
  BY <1>3 DEF NewJob, Identity
<1>5. made' = made + 1 /\ made \in Nat
      /\ jobs' = {j \in Kept : Open(j) \/ j.status = "proposed"} \cup {new}
  BY <1>3, Sorted DEF Revise, EnqueuePinned, Sorts
<1>6. Joins(new)
  BY <1>2, <1>4, <1>5 DEF Joins, Implementing
<1>7. Crew
  <2>1. \A k \in jobs' : Joins(k) \/ (k \in jobs /\ Going(k, k))
    BY <1>5, <1>6 DEF Going, Kept
  <2> QED BY <1>5, <2>1 DEF Crew
<1>8. \A k \in jobs' : k.kind = "draft"
  BY <1>4, <1>5, Drafts
<1> QED BY <1>1, <1>2, <1>7, <1>8, AnewKeeps

LEMMA ReconcileAnewKeep ==
    ASSUME IInv, IInv', GInv, ReconcileIssue \/ ReconcilePlan \/ ReconcileHead
    PROVE  GInv'
<1>1. UNCHANGED <<plans, ledger, pending, merging, github>>
  BY DEF ReconcileIssue, ReconcilePlan, ReconcileHead
<1>2. PICK state \in {"DraftingRequirements", "PlanningImplementation", "Reviewing"},
           kind \in {"draft", "plan", "review"} :
         /\ Enqueue(Kept, kind, task') /\ task.head # 0
         /\ \/ \E approval : task' = [Invalidated(To(task, state)) EXCEPT !.approval = approval]
            \/ task' = [Invalidated(To(task, state)) EXCEPT !.approval.plan = 0]
            \/ task' = [Invalidated(To(task, state)) EXCEPT !.head = Tip]
  BY DEF ReconcileIssue, ReconcilePlan, ReconcileHead, Reconciled, Confirmed, Unmerged
<1>3. /\ task'.req = task.req /\ task'.plan = task.plan
      /\ task'.base = task.base /\ task'.offer.req = task.offer.req
      /\ task'.reqApproved = task.reqApproved /\ task.head <= task'.head /\ task'.head # 0
  <2>1. PICK row : row = Invalidated(To(task, state))
    OBVIOUS
  <2>2. state \in States
    BY DEF States, Working
  <2> QED BY <1>2, <2>1, <2>2, Reopened
<1>4. /\ Crew /\ \A k \in jobs' : Joins(k) => k.kind = kind
      /\ \A k \in jobs' : Joins(k) \/ (k \in Kept /\ (Open(k) \/ k.status = "proposed"))
  <2>1. Kept \subseteq jobs
    BY DEF Kept
  <2> QED BY <1>2, <1>3, <2>1, Enqueued
<1>5. \A k \in jobs' : k.kind = "draft" \/ (Joins(k) /\ k.kind = kind)
  BY <1>4, Drafts
<1> QED BY <1>1, <1>3, <1>4, <1>5, AnewKeeps

-----------------------------------------------------------------------------
(* The invariant                                                            *)

LEMMA GrantsInitially == Init => GInv
<1> SUFFICES ASSUME Init PROVE GInv
  OBVIOUS
<1>1. /\ task.req = 0 /\ task.plan = 0 /\ task.reqApproved = FALSE /\ made = 1 /\ plans = <<>>
      /\ pending = {} /\ github.base = 1 /\ Tip = 0 /\ task.head = 0
  BY DEF Init, Tip
<1>2. PICK first : /\ jobs = {first} /\ first.id = 1 /\ first.kind = "draft" /\ first.request = <<>>
                   /\ first.pins.req = 0 /\ first.pins.plan = 0 /\ first.pins.head = 0
  <2>1. PICK job : /\ jobs = {job}
                   /\ job = [id |-> 1, kind |-> "draft", status |-> "queued", pins |-> None,
                             at |-> "start", request |-> <<>>, saved |-> FALSE, verdict |-> "none",
                             published |-> 0, indexed |-> 0]
    BY DEF Init
  <2>2. job.id = 1 /\ job.kind = "draft" /\ job.request = <<>> /\ job.pins = None
    BY <2>1
  <2>3. None.req = 0 /\ None.plan = 0 /\ None.head = 0
    BY DEF None
  <2>4. job.pins.req = 0 /\ job.pins.plan = 0 /\ job.pins.head = 0
    BY <2>2, <2>3
  <2> QED BY <2>1, <2>2, <2>4
<1>3. Named /\ Fresh
  BY <1>1, <1>2 DEF Named, Fresh, Unused
<1>4. Versioned
  BY <1>1, <1>2 DEF Versioned, Implementing
<1>5. ReviewedOnce /\ Confirmations /\ OnePlan /\ Granting
  BY <1>1, <1>2 DEF ReviewedOnce, Confirmations, OnePlan, Granting, Bare, Prepared, Implementing
<1>6. Files
  BY <1>1, <1>2 DEF Files, Unprepared, Implementing
<1> QED BY <1>3, <1>4, <1>5, <1>6 DEF GInv

-----------------------------------------------------------------------------
(* The stall recovery                                                       *)

(* Of the jobs there were it leaves drafts only, and repeats one that is of
   the task as it is.                                                       *)
LEMMA RetriedJob ==
    ASSUME IInv, IInv', GInv, RecoverStalled, Stands, ~recovery.row.stalled
    PROVE  /\ TaskStays /\ task'.state = task.state /\ task'.retry = task.retry
           /\ Crew /\ \A k \in jobs' : Joins(k) \/ k.kind = "draft"
           /\ \E j \in jobs : /\ IdentityCurrent(j)
                              /\ \A k \in jobs' : Joins(k) => k.kind = j.kind
<1>1. Sorts /\ Recalled = task /\ Versioned
  BY Sorted, RecalledTask DEF Stands, GInv
<1>2. PICK retried \in BOOLEAN : task' = [task EXCEPT !.stalled = retried]
  BY <1>1 DEF RecoverStalled
<1>3. /\ task'.state = task.state /\ task'.retry = task.retry /\ TaskStays
      /\ IdentityOf(task') = IdentityOf(task)
  BY <1>1, <1>2 DEF Sorts, TaskRows, TaskStays, IdentityOf
<1>4. PICK j \in OpenJobs : j.kind = recovery.kind /\ IdentityCurrent(j)
  BY DEF Stands
<1>5. PICK rows : /\ rows = {k \in jobs : k.id \notin recovery.open}
                  /\ EnqueuePinned(rows, j.kind, IdentityOf(task))
  BY <1>4 DEF RecoverStalled, Stands
<1>6. j \in jobs /\ rows \subseteq jobs /\ Enqueue(rows, j.kind, task')
  BY <1>3, <1>4, <1>5 DEF Enqueue, OpenJobs
<1>7. /\ j.kind \in {"implement", "fix"} => task'.req # 0 /\ task'.head # 0
      /\ j.kind = "review" => task'.head # 0
      /\ j.kind = "review_plan" => task'.plan # 0
  BY <1>1, <1>3, <1>4, <1>6 DEF IdentityCurrent, Versioned, Implementing, Sorts, TaskStays
<1>8. /\ Crew /\ \A k \in jobs' : Joins(k) => k.kind = j.kind
      /\ \A k \in jobs' : Joins(k) \/ (k \in rows /\ (Open(k) \/ k.status = "proposed"))
  BY <1>6, <1>7, Enqueued
<1>9. ASSUME NEW k \in rows, Open(k) \/ k.status = "proposed" PROVE k.kind = "draft"
  <2>1. ~Open(k)
    BY <1>5, <1>9 DEF Stands, OpenJobs
  <2> QED BY <1>6, <1>9, <2>1 DEF IInv, JobRowsTell, Row
<1> QED BY <1>3, <1>4, <1>6, <1>8, <1>9

LEMMA RecoverStalledKeep ==
    ASSUME IInv, IInv', GInv, RecoverStalled, Stands
    PROVE  GInv'
<1>1. /\ UNCHANGED <<plans, ledger, pending, merging, github>> /\ pending = {}
      /\ BranchStays /\ github'.base # 0 /\ Sorts /\ Sorts'
  BY HubSame, Sorted, SortedAfter DEF RecoverStalled, Stands
<1>2. CASE recovery.row.stalled
  <2>1. task' = To(task, "Blocked") /\ jobs' \subseteq jobs /\ made' = made
    BY <1>2, RecalledTask DEF RecoverStalled, Stands
  <2>2. TaskStays /\ StateStays
    BY <2>1, MovedStays DEF Planning
  <2> QED BY <1>1, <2>1, <2>2, FewerJobs, Quiet
<1>3. CASE ~recovery.row.stalled
  <2>1. /\ TaskStays /\ task'.state = task.state /\ task'.retry = task.retry
        /\ Crew /\ Kins /\ \A k \in jobs' : Joins(k) \/ k.kind = "draft"
    BY <1>3, RetriedJob, CrewKins
  <2>2. PICK j \in jobs : IdentityCurrent(j) /\ \A k \in jobs' : Joins(k) => k.kind = j.kind
    BY <1>3, RetriedJob
  <2>3. /\ PlansStay /\ task.head <= task'.head /\ task.plan <= task'.plan /\ task'.req <= made'
        /\ task'.req = task.req /\ task'.plan = task.plan /\ task'.head = task.head
        /\ task'.base = task.base /\ task'.offer = task.offer
    BY <1>1, <2>1 DEF PlansStay, TaskStays, Sorts, Crew, GInv, Named
  <2>4. Named' /\ Fresh' /\ Versioned' /\ Files' /\ Granting'
    BY <1>1, <2>1, <2>3, NamedKept, FreshKept, VersionedKept, FilesKept, GrantingKept DEF TaskStays
  <2>5. Implementing(j) =>
          /\ j.pins.req = task.req /\ j.pins.head = task.head /\ j.pins.plan \in {0, task.plan}
    BY <2>2 DEF IdentityCurrent, GInv, Versioned
  <2>6. Confirmations'
    <3>1. \A k \in jobs' : Joins(k) /\ Implementing(k) /\ task'.plan = 0 =>
             Granted(ledger, task.offer.req, "requirements")
      BY <2>2, <2>3, <2>5 DEF Implementing, GInv, Confirmations
    <3> QED BY <1>1, <2>1, <2>3, <3>1, ConfirmationsKept DEF TaskStays
  <2>7. ReviewedOnce'
    <3>1. ASSUME NEW k \in jobs', k.kind = "review_plan"
          PROVE  /\ Joins(k) /\ Undecided(k.pins.plan)'
                 /\ \A l \in jobs' : l.kind = "review_plan" => l.id = k.id
      <4>1. Joins(k) /\ j.kind = "review_plan" /\ k.pins.plan = task.plan
        BY <2>1, <2>2, <2>3, <3>1 DEF Joins
      <4>2. Undecided(j.pins.plan) /\ j.pins.plan # 0
        BY <4>1 DEF GInv, ReviewedOnce, Versioned
      <4>3. j.pins.plan = task.plan
        BY <2>2, <4>2 DEF IdentityCurrent
      <4>4. \A l \in jobs' : l.kind = "review_plan" => Joins(l)
        BY <2>1
      <4> QED BY <1>1, <4>1, <4>2, <4>3, <4>4 DEF Undecided, Joins
    <3> QED BY <1>1, <3>1 DEF ReviewedOnce, Sorts
  <2>8. OnePlan'
    <3>1. ASSUME NEW k \in jobs', Bare(k)'
          PROVE  /\ Joins(k) /\ Implementing(k) /\ task.plan = 0 /\ Bare(j)
                 /\ \A l \in jobs' : l.kind # "plan"
      <4>1. Implementing(k) /\ k.pins.plan = 0
        BY <3>1 DEF Bare, Implementing
      <4>2. Joins(k) /\ Implementing(j)
        BY <2>1, <2>2, <4>1 DEF Implementing
      <4>3. task.plan = 0
        BY <2>3, <4>1, <4>2 DEF Joins, Implementing
      <4> QED BY <2>1, <2>2, <2>5, <4>1, <4>2, <4>3 DEF Bare, Implementing
    <3>2. task.plan = 0 => ~Rejected
      BY DEF Rejected
    <3>3. ASSUME NEW k \in jobs', Bare(k)'
          PROVE  task'.plan = 0 /\ (task'.state # Planning \/ task'.retry # Planning)
      BY <2>1, <2>3, <3>1, <3>2, <3>3 DEF GInv, OnePlan
    <3> QED BY <3>1, <3>3 DEF OnePlan
  <2> QED BY <2>4, <2>6, <2>7, <2>8 DEF GInv
<1> QED BY <1>2, <1>3

LEMMA ExecutionGrants == ASSUME IInv, IInv', GInv, NEW j \in jobs, Execution(j) PROVE GInv'
BY RunsKeep, PrepareKeep, ProposeKeep, DraftedKeep, PublicationsKeep, PlannedKeep, PlanReviewedKeep,
   RecordHeadKeep, ReviewsQuietly, ImplementedKeep, FinishReviewKeep DEF Execution

LEMMA StepsGrants == ASSUME IInv, IInv', GInv, Steps PROVE GInv'
<1>1. CASE \E j \in jobs : Execution(j)
  BY <1>1, ExecutionGrants
<1>2. CASE \E j \in jobs : Dispatch(j)
  BY <1>2, RunsKeep DEF Dispatch
<1>3. CASE \E p \in pending : Registration(p)
  BY <1>3, RegisterRequirementsKeep, RegisterPlanKeep, CompletePlanReviewKeep DEF Registration
<1>4. CASE Command
  BY <1>4, ApproveRequirementsKeep, ApprovePlanKeep, ApproveMergeKeep,
     AnswerImplementationKeep, ReviseKeep, StopKeep, RestartKeep, RetryProposalKeep,
     RetryFailedKeep DEF Command, Pause, Cancel, Resume, RetryAnew
<1>5. CASE Reconcile
  BY <1>5, ReconcileAnewKeep, ReconciliationsKeep DEF Reconcile
<1>6. CASE World
  BY <1>6, WorldKeep
<1> QED BY <1>1, <1>2, <1>3, <1>4, <1>5, <1>6 DEF Steps

LEMMA SameGrants ==
    ASSUME IInv, IInv', GInv,
           UNCHANGED <<task, jobs, made, plans, ledger, pending, merging, github>>
    PROVE  GInv'
BY TaskSame, HubSame, FewerJobs, Quiet

LEMMA NextGrants == ASSUME IInv, GInv, Next, RecoverStalled => Stands PROVE GInv'
<1>1. IInv'
  BY NextKeeps
<1>2. CASE Steps
  BY <1>1, <1>2, StepsGrants
<1>3. CASE ReadStalled
  BY <1>1, <1>3, SameGrants DEF ReadStalled
<1>4. CASE RecoverStalled
  BY <1>1, <1>4, RecoverStalledKeep
<1>5. CASE Crash
  BY <1>1, <1>5, WorldKeep
<1> QED BY <1>2, <1>3, <1>4, <1>5 DEF Next, StallRecovery

LEMMA StutterGrants == ASSUME IInv, GInv, UNCHANGED vars PROVE GInv'
BY StutterKeeps, SameGrants DEF vars

(* What an implementation needs of its task and its owner's grants holds in
   every state, whatever becomes of the jobs.                               *)
THEOREM GrantsHold == Spec /\ Undisturbed => []GInv
<1>1. Init => GInv
  BY GrantsInitially
<1>2. IInv /\ GInv /\ [Next]_vars /\ [RecoverStalled => Stands]_vars => GInv'
  BY NextGrants, StutterGrants
<1> QED BY <1>1, <1>2, Inductive, PTL DEF Spec, Undisturbed

-----------------------------------------------------------------------------
(* Publications                                                             *)

(* Which steps put a commit on the branch.                                  *)
LEMMA Publications ==
    ASSUME IInv, Next, Tip' > Tip
    PROVE  \/ Push
           \/ \E j \in jobs : \/ PublishPlan(j) \/ PublishImplementation(j) \/ PublishIndex(j)
                              \/ LosePublication(j)
<1>1. github'.log # github.log
  <2>1. Tip \in Nat
    BY Tips DEF IInv
  <2> QED BY <2>1 DEF Tip
<1>2. CASE \E j \in jobs : Execution(j)
  <2>1. PICK j \in jobs : Execution(j)
    BY <1>2
  <2>2. ~(ReadyForReview(j) \/ PostReview(j))
    BY <1>1, ReviewsHub
  <2>3. ~(UNCHANGED github)
    BY <1>1
  <2> QED BY <2>1, <2>2, <2>3
          DEF Execution, Prepare, Reuse, Persist, Ask, Reject, Disconnect,
              Propose, Drafted, Planned, PlanReviewed, RecordHead, Implemented, FinishReview
<1>3. CASE \E p \in pending : Registration(p)
  BY <1>1, <1>3 DEF Registration, RegisterRequirements, RegisterPlan, CompletePlanReview
<1>4. CASE Command
  BY <1>1, <1>4 DEF Command, ApproveRequirements, ApprovePlan, ApproveMerge, AnswerImplementation,
     Revise, Pause, Cancel, Stop, Resume, Restart, RetryProposal, RetryFailed, RetryAnew
<1>5. CASE Reconcile
  BY <1>1, <1>5, MergeHub DEF Reconcile, ReconcileIssue, ReconcilePlan, ReconcileMerged,
     ReconcileClosed, ReconcileHead, ReconcileRefused, FailedChecks, AskToMerge, BeginMerge,
     MergeRefused, ReconcileFails
<1>6. CASE World
  BY <1>1, <1>6, WorldHub DEF World, ExpireApproval
<1>7. CASE (\E j \in jobs : Dispatch(j)) \/ StallRecovery \/ Crash
  BY <1>1, <1>7 DEF Dispatch, Claim, GiveUp, Lapse, StallRecovery, ReadStalled, RecoverStalled, Crash
<1> QED BY <1>2, <1>3, <1>4, <1>5, <1>6, <1>7 DEF Next, Steps

LEMMA NewKey ==
    ASSUME IInv, NEW key \in Keys, NEW files \in [1..MaxPlans -> Texts], PublishTo(key, files),
           Tip' > Tip
    PROVE  github'.log[Tip'].key = key
<1>1. github \in Hubs /\ Tip \in Nat
  BY Tips DEF IInv
<1>2. ~Published(key)
  <2>1. github' # github
    BY <1>1 DEF Tip
  <2> QED BY <2>1 DEF PublishTo
<1>3. Longer(key, files)
  BY <1>1, <1>2 DEF PublishTo, Longer, Hubs
<1> QED BY <1>3, LongerLog

(* A job puts commits of its own on the branch only.                        *)
LEMMA Publisher ==
    ASSUME IInv, Next, NEW j \in jobs, Implementing(j), Tip' > Tip,
           github'.log[Tip'].key \in {<<j.id, "implementation">>, <<j.id, "index">>}
    PROVE  j.request # <<>> /\ IdentityCurrent(j)
<1>1. github' # github
  BY Tips DEF IInv, Tip
<1>2. CASE Push
  <2>1. PICK files \in {FilesAt(Tip)} \cup
                       {[FilesAt(Tip) EXCEPT ![v] = Foreign] : v \in {task.plan} \ {0}} :
           github' = [github EXCEPT !.log = Append(@, [key |-> <<>>, files |-> files])]
    BY <1>2 DEF Push, Interfere
  <2>2. FilesAt(Tip) \in [1..MaxPlans -> Texts] /\ github \in Hubs /\ Tip < MaxCommits
    BY <1>2, Tips, FilesTyped, WorkflowV2Assumption DEF IInv, Push
  <2>3. files \in [1..MaxPlans -> Texts]
    BY <2>1, <2>2, Numbers
  <2>4. PICK key \in Keys : key = <<>>
    BY DEF Keys
  <2>5. Longer(key, files)
    BY <2>1, <2>2, <2>4 DEF Longer, Hubs
  <2>6. github'.log[Tip'].key = <<>>
    BY <2>3, <2>4, <2>5, LongerLog
  <2> QED BY <2>6, Keyed
<1>3. ASSUME NEW i \in jobs, PublishPlan(i) \/ PublishImplementation(i) \/ PublishIndex(i)
                             \/ LosePublication(i)
      PROVE  i.at # "start" /\ Current(i) /\ \E stage : github'.log[Tip'].key = <<i.id, stage>>
  <2>1. i.at # "start" /\ Current(i)
    BY <1>3 DEF PublishPlan, PublishImplementation, PublishIndex, LosePublication
  <2>2. PICK stage \in Stages, files \in [1..MaxPlans -> Texts] : PublishTo(<<i.id, stage>>, files)
    <3>1. CASE PublishPlan(i)
      <4>1. Len(plans) < MaxPlans
        BY <3>1, Sorted, WorkflowV2Assumption DEF PublishPlan, Sorts
      <4> QED BY <1>1, <3>1, <4>1, PlanFiles DEF PublishPlan, Stages
    <3>2. CASE PublishImplementation(i)
      BY <1>1, <3>2, HeadFiles DEF PublishImplementation, Stages
    <3>3. CASE PublishIndex(i)
      BY <1>1, <3>3, HeadFiles DEF PublishIndex, Stages
    <3>4. CASE LosePublication(i)
      BY <3>4, PlanFiles, HeadFiles DEF LosePublication, Stages
    <3> QED BY <1>3, <3>1, <3>2, <3>3, <3>4
  <2>3. PICK key \in Keys : key = <<i.id, stage>>
    BY KeyOf
  <2>4. github'.log[Tip'].key = key
    BY <2>2, <2>3, NewKey
  <2> QED BY <2>1, <2>3, <2>4
<1>4. CASE ~Push
  <2>1. PICK i \in jobs : \/ PublishPlan(i) \/ PublishImplementation(i) \/ PublishIndex(i)
                          \/ LosePublication(i)
    BY <1>4, Publications
  <2>2. i.at # "start" /\ Current(i) /\ \E stage : github'.log[Tip'].key = <<i.id, stage>>
    BY <1>3, <2>1
  <2>3. i.id = j.id
    BY <2>2, Keyed
  <2>4. i = j
    BY <2>3 DEF IInv, JobRowsTell
  <2> QED BY <2>2, <2>4 DEF IInv, JobRowsTell, Row, Current
<1> QED BY <1>2, <1>4

(* Whatever approvals, revisions, retries, crashes and third parties do in
   between, a commit of an implementation is put on the branch only while
   the owner's grants of the task's requirements and plan are on record.     *)
THEOREM PublishesAsApproved == Spec /\ Undisturbed => PublishesApproved
<1>1. ASSUME IInv, GInv, [Next]_vars, NEW j \in jobs,
             Implementing(j), github' # github, Tip' > Tip,
             github'.log[Tip'].key \in {<<j.id, "implementation">>, <<j.id, "index">>}
      PROVE  RequirementsGrant \in ledger /\ PlanGrant \in ledger
  <2>1. Next
    BY <1>1 DEF vars
  <2>2. j.request # <<>> /\ IdentityCurrent(j)
    BY <1>1, <2>1, Publisher
  <2>3. /\ j.pins.req = task.req /\ j.pins.head = task.head /\ j.pins.plan \in {0, task.plan}
    BY <1>1, <2>2 DEF GInv, Versioned, IdentityCurrent
  <2> QED BY <1>1, <2>2, <2>3 DEF GInv, Granting, Prepared, Bare
<1>2. IInv /\ GInv /\ [Next]_vars =>
        [\A j \in jobs :
            Implementing(j) /\ github' # github /\ Tip' > Tip
                /\ github'.log[Tip'].key \in {<<j.id, "implementation">>, <<j.id, "index">>} =>
              RequirementsGrant \in ledger /\ PlanGrant \in ledger]_vars
  BY <1>1
<1> QED BY <1>2, Inductive, GrantsHold, PTL DEF Spec, PublishesApproved
=============================================================================
