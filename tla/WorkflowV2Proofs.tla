--------------------------- MODULE WorkflowV2Proofs ---------------------------
(***************************************************************************)
(* What module WorkflowV2 promises, for any number of jobs, plans, commits *)
(* and troubles: types, that a stop holds, that a job puts each of its     *)
(* commits on the branch once, and that what is merged was reviewed and    *)
(* approved as one.                                                        *)
(*                                                                         *)
(* Jobs may be open side by side and outlive the state they were queued in;*)
(* the invariant does not say which.  It ties the jobs to the commits of   *)
(* the branch above the task's head, of which one at most is a job's.      *)
(***************************************************************************)
EXTENDS WorkflowV2, SequenceTheorems, TLAPS

Stages == {"plan", "implementation", "index"}
Keys == {<<>>} \cup (JobIds \X Stages)
Commit == [key: Keys, files: [1..MaxPlans -> Texts]]
Hubs == [body: Texts, at: Nat, log: Seq(Commit), pr: {"none", "open", "merged", "closed"},
         draft: BOOLEAN, base: Nat, review: [head: Commits, ok: BOOLEAN], merged: Identities]

Publishing(kind) == kind \in {"plan", "implement", "fix"}
On(commit, j, stage) == github.log[commit].key = <<j.id, stage>>
Recorded(j, stage) == IF stage = "index" THEN j.indexed ELSE j.published
StageOf(j) == IF j.kind = "plan" THEN "plan" ELSE "implementation"
Implementation(commit) == \E i \in JobIds : github.log[commit].key = <<i, "implementation">>

(* A row tells how far the execution of its job has come.                   *)
Row(j) ==
    /\ j.id <= made /\ (j.kind = "clarify" => j.status = "queued")
    /\ j.status = "proposed" => j.kind = "draft"
    /\ j.status = "asked" => Implementing(j)
    /\ j.at # "start" => j.status = "running" /\ j.request # <<>>
    /\ j.published # 0 => Publishing(j.kind) /\ j.request # <<>>
    /\ j.indexed # 0 => Implementing(j) /\ j.published # 0 /\ j.published = j.pins.head
    /\ j.at = "published" /\ Publishing(j.kind) => j.published # 0
    /\ j.at \in {"recorded", "indexed", "ready"} =>
          Implementing(j) /\ j.published # 0 /\ j.published = j.pins.head
    /\ j.at \in {"indexed", "ready"} => j.indexed # 0
JobRowsTell ==
    /\ \A j \in jobs : Row(j)
    /\ \A j, k \in jobs : j.id = k.id => j = k

(* What there has to be before a job of a kind is prepared, or publishes.   *)
Grown ==
    /\ task.plan <= Len(plans)
    /\ (\/ task.reqApproved \/ Tip # 0
        \/ "AwaitingRequirementsConfirmation" \in {task.state, task.retry}) => task.req # 0
    /\ \A j \in jobs : j.request # <<>> =>
          /\ j.kind # "draft" => task.req # 0
          /\ Implementing(j) => task.plan # 0
    /\ \A p \in pending : p.kind = "requirements" => p.body # 0

(* A review was asked for a head with requirements, and is of what it pins. *)
Pinned(r) ==
    /\ r.pins.req # 0 /\ r.pins.head # 0 /\ r.pins.head <= task.head
    /\ r.request # <<>> =>
          /\ r.request.req = r.pins.req /\ r.request.head = r.pins.head
          /\ r.pins.plan # 0 => r.request.plan = r.pins.plan
          /\ Has("requirements", [None EXCEPT !.req = r.request.req])
Reviews == \A r \in jobs : r.kind = "review" => Pinned(r)

(* Above the task's head there is one commit of a job at most, and it is the
   job's to record; at or below it a job knows its commits.                 *)
Known(j) ==
    /\ \A a \in 1..Tip, stage \in Stages : On(a, j, stage) =>
          /\ IF stage = "plan" THEN j.kind = "plan" ELSE Implementing(j)
          /\ j.request # <<>>
          /\ Recorded(j, stage) = a \/ (Recorded(j, stage) = 0 /\ a > task.head)
    /\ j.published # 0 => /\ j.published <= Tip /\ On(j.published, j, StageOf(j))
                          /\ j.published > task.head \/ j.published = j.pins.head
    /\ j.indexed # 0 => j.indexed <= Tip /\ On(j.indexed, j, "index") /\ j.indexed > task.head
Branch ==
    /\ \A a \in 1..Tip : github.log[a].key # <<>> => github.log[a].key[1] <= made
    /\ \A j \in jobs : Known(j)
    /\ \A a, b \in 1..Tip :
          github.log[a].key # <<>> /\ github.log[b].key # <<>> /\ task.head < a /\ task.head < b
          => a = b

(* Without a plan nothing is implemented, and the pull request is a draft
   until there is an implementation: a review asked for before that is of an
   older head.                                                              *)
Unplanned(head) == \A a \in 1..Tip : Implementation(a) => head < a
Works ==
    /\ \A a \in 1..Tip : Implementation(a) => task.plan # 0
    /\ github.pr # "none" /\ ~github.draft => \E a \in 1..task.head : Implementation(a)
    /\ github.pr = "none" => Tip = 0
    /\ \A r \in jobs : r.kind = "review" /\ r.pins.plan = 0 => Unplanned(r.pins.head)

(* The approvals in the task's row are in the ledger.                       *)
Approved(review) ==
    /\ review.head <= task.head
    /\ Has("requirements", [None EXCEPT !.req = review.req])
    /\ Has("review", review) \/ Unplanned(review.head)
Approvals ==
    /\ task.merge # None => Has("merge", task.merge)
    /\ task.review # None => Approved(task.review)

IInv ==
    /\ Tables /\ github \in Hubs /\ JobRowsTell /\ Grown /\ Reviews /\ Branch /\ Works /\ Approvals
    /\ PublishedOnce /\ MergedAsReviewed

-----------------------------------------------------------------------------
(* The task's row                                                           *)

Grants == [stage : {"requirements", "plan", "review", "merge"}, id : Nat, target : Identities]
Plans == [hash : Texts, base : Nat, status : {"pending", "approved", "changes_requested"}]
Pairs == [req: Nat, plan: Nat]
Counts == [plan: Nat, fix: Nat]

LEMMA NoneTyped == None \in Identities
BY WorkflowV2Assumption DEF None, Identities, Texts, Placeholder, Foreign, Versions, Commits

LEMMA TaskTyped ==
    ASSUME NEW row \in TaskRows
    PROVE  /\ row.state \in States /\ row.proposed \in BOOLEAN /\ row.req \in Texts
           /\ row.reqAt \in Nat /\ row.reqApproved \in BOOLEAN /\ row.plan \in Versions
           /\ row.base \in Nat /\ row.head \in Commits /\ row.offer \in Pairs
           /\ row.approval \in Pairs /\ row.review \in Identities /\ row.merge \in Identities
           /\ row.mergeLive \in BOOLEAN /\ row.retry \in States \cup {"none"}
           /\ row.revisions \in Counts /\ row.body \in Texts /\ row.stalled \in BOOLEAN
           /\ IdentityOf(row) \in Identities
BY DEF TaskRows, Pairs, Counts, IdentityOf, Identities

(* The fields the invariant speaks of.                                      *)
Alike(new, row) ==
    /\ new.req = row.req /\ new.reqApproved = row.reqApproved /\ new.plan = row.plan
    /\ new.base = row.base /\ new.head = row.head /\ new.review = row.review
    /\ new.merge = row.merge /\ new.retry = row.retry
    /\ new.offer = row.offer /\ new.approval = row.approval /\ new.revisions = row.revisions
    /\ new.mergeLive = row.mergeLive

LEMMA Moved ==
    ASSUME NEW row \in TaskRows, NEW state \in States
    PROVE  /\ To(row, state) \in TaskRows /\ Alike(To(row, state), row)
           /\ To(row, state).state = state
BY DEF To, TaskRows, Alike

LEMMA Unapproving ==
    ASSUME NEW row \in TaskRows
    PROVE  LET new == Unapproved(row) IN
           /\ new \in TaskRows /\ new.state = row.state
           /\ new.req = row.req /\ new.reqApproved = row.reqApproved /\ new.plan = row.plan
           /\ new.base = row.base /\ new.head = row.head /\ new.retry = row.retry
           /\ new.review = None /\ new.merge = None
BY NoneTyped DEF Unapproved, TaskRows

LEMMA Retrying ==
    ASSUME NEW row \in TaskRows, NEW state \in States \cup {"none"},
           NEW new, new = [row EXCEPT !.retry = state]
    PROVE  /\ new \in TaskRows /\ new.state = row.state /\ new.retry = state
           /\ new.req = row.req /\ new.reqApproved = row.reqApproved /\ new.plan = row.plan
           /\ new.base = row.base /\ new.head = row.head
           /\ new.review = row.review /\ new.merge = row.merge
BY DEF TaskRows

LEMMA Heading ==
    ASSUME NEW row \in TaskRows, NEW head \in Commits, NEW new, new = [row EXCEPT !.head = head]
    PROVE  /\ new \in TaskRows /\ new.state = row.state /\ new.retry = row.retry
           /\ new.req = row.req /\ new.reqApproved = row.reqApproved /\ new.plan = row.plan
           /\ new.base = row.base /\ new.head = head
           /\ new.review = row.review /\ new.merge = row.merge
BY DEF TaskRows

-----------------------------------------------------------------------------
(* What a step may do to the task, to the jobs and to GitHub                *)

Onwards ==
    /\ task' \in TaskRows /\ task.head <= task'.head
    /\ task.plan # 0 => task'.plan # 0
    /\ task.req # 0 => task'.req # 0

(* The task stays at its head, plan and requirements.                       *)
Awaits(row) == "AwaitingRequirementsConfirmation" \in {row.state, row.retry}
Steady ==
    /\ task' \in TaskRows
    /\ task'.head = task.head /\ task'.plan = task.plan /\ task'.req = task.req
    /\ task'.reqApproved \/ Awaits(task') => task.req # 0
    /\ task'.merge \in {None, task.merge} /\ task'.review \in {None, task.review}

(* A job goes on as the one it is, or is new.                               *)
Same(j, k) ==
    /\ k.id = j.id /\ k.kind = j.kind /\ k.pins = j.pins /\ k.request = j.request
    /\ k.published = j.published /\ k.indexed = j.indexed
New(k) ==
    /\ k.id = made' /\ made' = made + 1
    /\ k.request = <<>> /\ k.published = 0 /\ k.indexed = 0
    /\ k.kind = "review" =>
          /\ k.pins.req # 0 /\ k.pins.head # 0 /\ k.pins.head <= task'.head
          /\ k.pins.plan = 0 => task.plan = 0
JobsMove ==
    /\ jobs' \subseteq JobRows /\ made' \in JobIds /\ made <= made'
    /\ \A k \in jobs' : Row(k)' /\ (New(k) \/ \E j \in jobs : Same(j, k))
    /\ \A k, l \in jobs' : k.id = l.id => k = l

(* ... or it learns of its commits.                                         *)
Similar(j, k) ==
    /\ k.id = j.id /\ k.kind = j.kind /\ k.request = j.request
    /\ k.kind = "review" => k.pins = j.pins
JobsGrow ==
    /\ jobs' \subseteq JobRows /\ made' \in JobIds /\ made <= made'
    /\ \A k \in jobs' : Row(k)' /\ (New(k) \/ \E j \in jobs : Similar(j, k))
    /\ \A k, l \in jobs' : k.id = l.id => k = l

LEMMA MovesGrow == JobsMove => JobsGrow
BY DEF JobsMove, JobsGrow, Same, Similar

(* The branch stays as it is, and so does what was merged.                  *)
HubSteady ==
    /\ github' \in Hubs /\ github'.log = github.log
    /\ github'.draft = github.draft \/ \E a \in 1..task.head : Implementation(a)
    /\ github'.pr = "none" <=> github.pr = "none"
    /\ github'.merged = github.merged \/ MergedAsReviewed'

(* The other tables keep their types and rows.                              *)
Books ==
    /\ plans' \in Seq(Plans) /\ Len(plans) <= Len(plans')
    /\ ledger' \subseteq Grants /\ ledger \subseteq ledger'
    /\ pending' \subseteq Pendings
    /\ \A p \in pending' : p \in pending \/ (p.kind = "requirements" => p.body # 0)
    /\ merging' \in BOOLEAN /\ trouble' \in 0..MaxTrouble

LEMMA Tips ==
    ASSUME github \in Hubs
    PROVE  /\ Tip \in Nat /\ github.log \in Seq(Commit)
           /\ \A a \in 1..Tip : github.log[a] \in Commit /\ github.log[a].key \in Keys
           /\ \A a \in 1..Tip : github.log[a].key # <<>> => github.log[a].key[1] \in JobIds
<1>1. Tip \in Nat /\ github.log \in Seq(Commit) /\ \A a \in 1..Tip : github.log[a] \in Commit
  BY DEF Hubs, Tip
<1>3. \A c \in Commit : c.key \in Keys
  BY DEF Commit
<1>2. \A key \in Keys : key # <<>> => key[1] \in JobIds
  BY DEF Keys
<1> QED BY <1>1, <1>2, <1>3

LEMMA Keyed == \A i, stage : <<i, stage>> # <<>> /\ <<i, stage>>[1] = i /\ <<i, stage>>[2] = stage
OBVIOUS

LEMMA JobTyped ==
    ASSUME NEW j \in JobRows
    PROVE  /\ j.id \in JobIds /\ j.kind \in Kinds /\ j.status \in JobStatuses
           /\ j.pins \in Identities /\ j.at \in Progress
           /\ j.request \in Identities \cup {<<>>} /\ j.saved \in BOOLEAN /\ j.verdict \in Verdicts
           /\ j.published \in Commits /\ j.indexed \in Commits
           /\ j.request # <<>> => j.request \in Identities
BY DEF JobRows

LEMMA IdentityTyped ==
    ASSUME NEW i \in Identities
    PROVE  i.req \in Texts /\ i.plan \in Versions /\ i.base \in Nat /\ i.head \in Commits
BY DEF Identities

LEMMA Numbers ==
    /\ \A i \in JobIds : i \in Nat /\ i # 0 /\ i \in Texts
    /\ \A i \in Commits : i \in Nat
    /\ \A i \in Texts : i \in Nat
    /\ \A i \in Versions : i \in Nat
    /\ 0 \in Commits /\ 0 \in Texts /\ 0 \in Versions /\ Foreign \in Texts /\ Foreign # 0
BY WorkflowV2Assumption DEF JobIds, Commits, Texts, Versions, Placeholder, Foreign

LEMMA Typed ==
    ASSUME Tables
    PROVE  /\ task \in TaskRows /\ made \in JobIds /\ \A j \in jobs : j \in JobRows
           /\ plans \in Seq(Plans) /\ Len(plans) \in Nat /\ ledger \subseteq Grants
           /\ pending \subseteq Pendings
           /\ merging \in BOOLEAN /\ trouble \in 0..MaxTrouble
           /\ Tip <= MaxCommits /\ task.head <= Tip
BY DEF Tables, Plans, Grants

LEMMA TypesAgain ==
    ASSUME task' \in TaskRows, made' \in JobIds, jobs' \subseteq JobRows, github' \in Hubs,
           Books, Tip' <= MaxCommits, task'.head <= Tip'
    PROVE  Tables'
BY DEF Books, Tables, Plans, Grants, Hubs

-----------------------------------------------------------------------------
(* Jobs                                                                     *)

LEMMA DroppedJobs ==
    ASSUME IInv, jobs' \subseteq jobs, made' = made
    PROVE  JobsMove
<1>1. Tables /\ JobRowsTell
  BY DEF IInv
<1>2. made \in JobIds /\ \A j \in jobs : j \in JobRows
  BY <1>1, Typed
<1>3. \A k \in jobs' : Row(k)' /\ Same(k, k)
  BY <1>1 DEF JobRowsTell, Row, Same
<1> QED BY <1>1, <1>2, <1>3, Numbers DEF JobsMove, JobRowsTell

LEMMA ReplacedJob ==
    ASSUME IInv, NEW j \in jobs, NEW k \in JobRows, Same(j, k), Row(k),
           jobs' \subseteq (jobs \ {j}) \cup {k}, made' = made
    PROVE  JobsMove
<1>1. Tables /\ JobRowsTell
  BY DEF IInv
<1>2. made \in JobIds /\ \A l \in jobs : l \in JobRows
  BY <1>1, Typed
<1>3. ASSUME NEW l \in jobs' PROVE Row(l)' /\ \E m \in jobs : Same(m, l)
  <2>1. CASE l = k
    BY <1>3, <2>1 DEF Row
  <2>2. CASE l \in jobs
    BY <1>1, <2>2 DEF Row, Same, JobRowsTell
  <2> QED BY <2>1, <2>2
<1>4. ASSUME NEW l \in jobs', NEW m \in jobs', l.id = m.id PROVE l = m
  BY <1>1, <1>4 DEF JobRowsTell, Same
<1> QED BY <1>2, <1>3, <1>4, Numbers DEF JobsMove

LEMMA LearnedJob ==
    ASSUME IInv, NEW j \in jobs, NEW k \in JobRows, Similar(j, k), Row(k),
           jobs' \subseteq (jobs \ {j}) \cup {k}, made' = made
    PROVE  JobsGrow
<1>1. Tables /\ JobRowsTell
  BY DEF IInv
<1>2. made \in JobIds /\ \A l \in jobs : l \in JobRows
  BY <1>1, Typed
<1>3. ASSUME NEW l \in jobs' PROVE Row(l)' /\ \E m \in jobs : Similar(m, l)
  <2>1. CASE l = k
    BY <1>3, <2>1 DEF Row
  <2>2. CASE l \in jobs
    BY <1>1, <2>2 DEF Row, Similar, JobRowsTell
  <2> QED BY <2>1, <2>2
<1>4. ASSUME NEW l \in jobs', NEW m \in jobs', l.id = m.id PROVE l = m
  BY <1>1, <1>4 DEF JobRowsTell, Similar
<1> QED BY <1>2, <1>3, <1>4, Numbers DEF JobsGrow

LEMMA QueuedJob ==
    ASSUME IInv, NEW rows, rows \subseteq jobs, NEW kind \in Kinds, NEW pins \in Identities,
           EnqueuePinned(rows, kind, pins),
           kind = "review" => /\ pins.req # 0 /\ pins.head # 0 /\ pins.head <= task'.head
                              /\ pins.plan = 0 => task.plan = 0
    PROVE  /\ JobsMove
           /\ \A k \in jobs' : New(k) \/ (k \in rows /\ (Open(k) \/ k.status = "proposed"))
<1> DEFINE new == NewJob(kind, pins)
<1>1. Tables /\ JobRowsTell
  BY DEF IInv
<1>2. made \in JobIds /\ \A l \in jobs : l \in JobRows /\ l.id <= made
  BY <1>1, Typed DEF JobRowsTell, Row
<1>3. made < MaxJobs /\ made' = made + 1 /\ jobs' \subseteq jobs \cup {new}
  BY DEF EnqueuePinned
<1>4. /\ new \in JobRows /\ new.id = made + 1 /\ new.kind = kind /\ new.status = "queued"
      /\ new.pins = pins /\ new.at = "start" /\ new.request = <<>>
      /\ new.published = 0 /\ new.indexed = 0
  <2>1. made + 1 \in JobIds
    BY <1>2, <1>3, WorkflowV2Assumption DEF JobIds
  <2> QED BY <2>1, Numbers DEF NewJob, JobRows, JobStatuses, Progress, Verdicts
<1> HIDE DEF new
<1>5. ASSUME NEW l \in jobs' PROVE Row(l)' /\ (New(l) \/ \E m \in jobs : Same(m, l))
  <2>1. CASE l = new
    BY <1>2, <1>3, <1>4, <2>1, Numbers DEF Row, New, Implementing
  <2>2. CASE l \in jobs
    BY <1>1, <1>2, <1>3, <2>2, Numbers, JobTyped DEF Row, Same, JobRowsTell
  <2> QED BY <1>3, <2>1, <2>2
<1>6. ASSUME NEW l \in jobs', NEW m \in jobs', l.id = m.id PROVE l = m
  BY <1>1, <1>2, <1>3, <1>4, <1>6, Numbers, JobTyped DEF JobRowsTell
<1>7. made' \in JobIds /\ made <= made'
  BY <1>2, <1>3, WorkflowV2Assumption DEF JobIds
<1>8. \A k \in jobs' : k = new \/ (k \in rows /\ (Open(k) \/ k.status = "proposed"))
  BY DEF EnqueuePinned, new
<1>9. New(new)
  BY <1>3, <1>4 DEF New
<1> QED BY <1>2, <1>3, <1>4, <1>5, <1>6, <1>7, <1>8, <1>9 DEF JobsMove

-----------------------------------------------------------------------------
(* The parts of the invariant                                               *)

LEMMA ReviewsKept ==
    ASSUME IInv, Onwards, JobsGrow, ledger \subseteq ledger'
    PROVE  Reviews'
<1>1. /\ task.head \in Nat /\ task'.head \in Nat /\ task.head <= task'.head
      /\ \A r \in jobs : r.pins.head \in Nat
  <2>1. task \in TaskRows /\ \A r \in jobs : r \in JobRows
    BY Typed DEF IInv
  <2> QED BY <2>1, TaskTyped, JobTyped, IdentityTyped, Numbers DEF Onwards
<1>2. ASSUME NEW r \in jobs', r.kind = "review" PROVE Pinned(r)'
  <2>1. CASE New(r)
    BY <1>2, <2>1 DEF New, Pinned
  <2>2. CASE \E j \in jobs : Similar(j, r)
    <3>1. PICK j \in jobs : Similar(j, r)
      BY <2>2
    <3>2. Pinned(j)
      BY <1>2, <3>1 DEF IInv, Reviews, Similar
    <3>3. /\ r.pins = j.pins /\ r.request = j.request
      BY <1>2, <3>1 DEF Similar
    <3>4. r.pins.req # 0 /\ r.pins.head # 0 /\ r.pins.head <= task'.head
      BY <1>1, <3>2, <3>3 DEF Pinned
    <3> QED BY <3>2, <3>3, <3>4 DEF Pinned, Has
  <2> QED BY <2>1, <2>2 DEF JobsGrow
<1> QED BY <1>2 DEF Reviews

(* A branch without a new commit: who is not new knows the commits anew.     *)
LEMMA BranchKnown ==
    ASSUME IInv, Onwards, JobsGrow, github'.log = github.log,
           \A k \in jobs' : New(k) \/ Known(k)'
    PROVE  Branch'
<1>1. Tables /\ Branch /\ github \in Hubs /\ Tip \in Nat /\ Tip' = Tip
  BY Tips DEF IInv, Tip
<1>2. /\ made \in Nat /\ made' \in Nat /\ made <= made'
      /\ \A a \in 1..Tip : github.log[a].key # <<>> =>
            github.log[a].key[1] \in Nat /\ github.log[a].key[1] <= made
  BY <1>1, Typed, Tips, Numbers DEF JobsGrow, Branch
<1>3. \A a \in 1..Tip : github.log[a].key # <<>> => github.log[a].key[1] <= made'
  BY <1>2
<1>4. ASSUME NEW k \in jobs', New(k) PROVE Known(k)'
  <2>1. k.id = made + 1 /\ k.published = 0 /\ k.indexed = 0
    BY <1>4 DEF New
  <2>2. ASSUME NEW a \in 1..Tip, NEW stage \in Stages PROVE ~On(a, k, stage)
    <3>1. PICK key : key = github.log[a].key
      OBVIOUS
    <3>2. key # <<>> => key[1] \in Nat /\ key[1] <= made
      BY <1>2, <3>1
    <3>3. key = <<k.id, stage>> => key # <<>> /\ key[1] = made + 1
      BY <2>1, Keyed
    <3>4. key # <<k.id, stage>>
      BY <1>2, <3>2, <3>3
    <3> QED BY <3>1, <3>4 DEF On
  <2> QED BY <1>1, <2>1, <2>2 DEF Known, On
<1>5. /\ task.head \in Nat /\ task'.head \in Nat /\ task.head <= task'.head
  BY <1>1, Typed, TaskTyped, Numbers DEF Onwards
<1>6. ASSUME NEW a \in 1..Tip, NEW b \in 1..Tip, github.log[a].key # <<>>, github.log[b].key # <<>>,
             task'.head < a, task'.head < b
      PROVE  a = b
  BY <1>1, <1>5, <1>6 DEF Branch
<1> QED BY <1>1, <1>3, <1>4, <1>6 DEF Branch

LEMMA BranchKept ==
    ASSUME IInv, Onwards, task'.head = task.head, JobsMove, github'.log = github.log
    PROVE  Branch'
<1>1. Branch /\ Tip' = Tip
  BY DEF IInv, Tip
<1>2. ASSUME NEW k \in jobs' PROVE New(k) \/ Known(k)'
  <2>1. CASE \E j \in jobs : Same(j, k)
    <3>1. PICK j \in jobs : Same(j, k)
      BY <2>1
    <3>2. Known(j)
      BY <1>1 DEF Branch
    <3> QED BY <1>1, <3>1, <3>2 DEF Known, On, Same, Implementing, Recorded, StageOf
  <2> QED BY <2>1 DEF JobsMove
<1> QED BY <1>2, MovesGrow, BranchKnown

LEMMA WorksKept ==
    ASSUME IInv, Onwards, JobsGrow, github'.log = github.log,
           github'.draft = github.draft \/ \E a \in 1..task.head : Implementation(a),
           github'.pr = "none" <=> github.pr = "none"
    PROVE  Works'
<1>1. Tables /\ Works /\ github \in Hubs /\ Tip \in Nat /\ Tip' = Tip
  BY Tips DEF IInv, Tip
<1>2. task.head \in Nat /\ task'.head \in Nat /\ task.head <= task'.head
  BY <1>1, Typed, TaskTyped, Numbers DEF Onwards
<1>3. \A a : Implementation(a)' <=> Implementation(a)
  BY DEF Implementation
<1>4. \A a \in 1..Tip : Implementation(a) => task'.plan # 0
  BY <1>1 DEF Works, Onwards
<1>5. github'.pr # "none" /\ ~github'.draft => \E a \in 1..task'.head : Implementation(a)
  BY <1>1, <1>2 DEF Works
<1>6. ASSUME NEW r \in jobs', r.kind = "review", r.pins.plan = 0 PROVE Unplanned(r.pins.head)
  <2>1. CASE New(r)
    <3>1. task.plan = 0
      BY <1>6, <2>1 DEF New
    <3> QED BY <1>1, <3>1 DEF Works, Unplanned
  <2>2. CASE \E j \in jobs : Similar(j, r)
    BY <1>1, <1>6, <2>2 DEF Works, Similar
  <2> QED BY <2>1, <2>2 DEF JobsGrow
<1>7. \A r \in jobs' : r.kind = "review" /\ r.pins.plan = 0 => Unplanned(r.pins.head)'
  BY <1>1, <1>3, <1>6 DEF Unplanned
<1> QED BY <1>1, <1>3, <1>4, <1>5, <1>7 DEF Works

LEMMA ApprovedStill ==
    ASSUME IInv, Onwards, github'.log = github.log, ledger \subseteq ledger',
           NEW review \in Identities, Approved(review)
    PROVE  Approved(review)'
<1>1. Tip' = Tip
  BY DEF Tip
<1>2. \A head : Unplanned(head) => Unplanned(head)'
  BY <1>1 DEF Unplanned, Implementation
<1>3. \A stage, target : Has(stage, target) => Has(stage, target)'
  BY DEF Has
<1>4. review.head \in Nat /\ task.head \in Nat /\ task'.head \in Nat
  BY Typed, TaskTyped, IdentityTyped, Numbers DEF IInv, Onwards
<1> QED BY <1>2, <1>3, <1>4 DEF Approved, Onwards

LEMMA ApprovalsKept ==
    ASSUME IInv, Onwards, github'.log = github.log, ledger \subseteq ledger',
           task'.merge \in {None, task.merge}, task'.review \in {None, task.review}
    PROVE  Approvals'
<1>1. Approvals /\ task.review \in Identities
  BY Typed, TaskTyped DEF IInv
<1>3. \A stage, target : Has(stage, target) => Has(stage, target)'
  BY DEF Has
<1>4. PICK merge, review : merge = task'.merge /\ review = task'.review
  OBVIOUS
<1>5. merge # None => Has("merge", merge)'
  BY <1>1, <1>3, <1>4 DEF Approvals
<1>6. ASSUME review # None PROVE Approved(review)'
  <2>1. Approved(review) /\ review \in Identities
    BY <1>1, <1>4, <1>6 DEF Approvals
  <2> QED BY <2>1, ApprovedStill
<1> QED BY <1>4, <1>5, <1>6 DEF Approvals

LEMMA GrownKept ==
    ASSUME IInv, Onwards, JobsGrow, Tip' = Tip \/ task'.req # 0,
           task'.plan <= Len(plans'),
           task'.reqApproved \/ Awaits(task') => task'.req # 0,
           \A p \in pending' : p \in pending \/ (p.kind = "requirements" => p.body # 0)
    PROVE  Grown'
<1>1. Grown
  BY DEF IInv
<1>2. ASSUME NEW k \in jobs', k.request # <<>>
      PROVE  (k.kind # "draft" => task'.req # 0) /\ (Implementing(k) => task'.plan # 0)
  BY <1>1, <1>2 DEF JobsGrow, New, Similar, Grown, Onwards, Implementing
<1>3. Tip' # 0 => task'.req # 0
  BY <1>1 DEF Grown, Onwards
<1>4. \A p \in pending' : p.kind = "requirements" => p.body # 0
  BY <1>1 DEF Grown
<1> QED BY <1>1, <1>2, <1>3, <1>4 DEF Grown, Awaits, Implementing

LEMMA RowsKept == ASSUME JobsGrow PROVE JobRowsTell'
BY DEF JobsGrow, JobRowsTell

LEMMA MergedKept ==
    ASSUME IInv, github'.merged = github.merged \/ MergedAsReviewed', ledger \subseteq ledger'
    PROVE  MergedAsReviewed'
BY DEF IInv, MergedAsReviewed, Has

LEMMA OnceKept == ASSUME IInv, github'.log = github.log PROVE PublishedOnce'
BY DEF IInv, PublishedOnce, Tip

(* The steps that leave the branch alone.                                   *)
LEMMA OnwardsKeeps ==
    ASSUME IInv, Onwards, JobsGrow, HubSteady, Books, task'.head <= Tip, Branch', Approvals',
           task'.plan <= Len(plans'), task'.reqApproved \/ Awaits(task') => task'.req # 0
    PROVE  IInv'
<1>1. Tables /\ Tip' = Tip
  BY DEF IInv, HubSteady, Tip
<1>2. Tables'
  <2>1. task'.head <= Tip' /\ Tip' <= MaxCommits
    BY <1>1, Typed
  <2> QED BY <2>1, TypesAgain DEF Onwards, JobsGrow, HubSteady
<1>3. Reviews' /\ Works' /\ Grown'
  BY <1>1, ReviewsKept, WorksKept, GrownKept DEF HubSteady, Books
<1>4. MergedAsReviewed' /\ PublishedOnce' /\ JobRowsTell'
  BY MergedKept, OnceKept, RowsKept DEF HubSteady, Books
<1> QED BY <1>2, <1>3, <1>4 DEF IInv, HubSteady

(* Most steps leave the branch and the task's identity alone.               *)
LEMMA SteadyOnwards ==
    ASSUME IInv, Steady, Len(plans) <= Len(plans'), plans' \in Seq(Plans)
    PROVE  Onwards /\ task'.head <= Tip /\ task'.plan <= Len(plans')
<1>1. task.head <= Tip /\ task \in TaskRows /\ Len(plans) \in Nat /\ Len(plans') \in Nat
  BY Typed DEF IInv
<1>2. task.plan \in Nat /\ task.plan <= Len(plans) /\ task.head \in Nat
  BY <1>1, TaskTyped, Numbers DEF IInv, Grown
<1> QED BY <1>1, <1>2 DEF Steady, Onwards

LEMMA SteadyKeeps ==
    ASSUME IInv, Steady, JobsMove, HubSteady, Books
    PROVE  IInv'
<1>1. Onwards /\ task'.head <= Tip /\ task'.plan <= Len(plans')
  BY SteadyOnwards DEF Books
<1>2. Branch' /\ Approvals' /\ JobsGrow
  BY <1>1, BranchKept, ApprovalsKept, MovesGrow DEF Steady, HubSteady, Books
<1>3. task'.reqApproved \/ Awaits(task') => task'.req # 0
  BY DEF Steady
<1> QED BY <1>1, <1>2, <1>3, OnwardsKeeps


-----------------------------------------------------------------------------
(* The task's row in a step                                                 *)

RowKept(new, row) ==
    /\ new.req = row.req /\ new.plan = row.plan /\ new.head = row.head
    /\ new.reqApproved = row.reqApproved /\ new.retry = row.retry
    /\ new.merge \in {None, row.merge} /\ new.review \in {None, row.review}

LEMMA SteadyTask ==
    ASSUME IInv, task' \in TaskRows, RowKept(task', task),
           task'.state \in States \ {"AwaitingRequirementsConfirmation"}
    PROVE  Steady
BY DEF IInv, Grown, RowKept, Steady, Awaits

LEMMA MovedTask ==
    ASSUME IInv, NEW state \in States \ {"AwaitingRequirementsConfirmation"},
           task' = To(task, state) \/ task' = Invalidated(To(task, state))
    PROVE  Steady /\ task'.head = task.head /\ task'.req = task.req /\ task'.plan = task.plan
<1> DEFINE row == To(task, state)
<1>1. task \in TaskRows
  BY Typed DEF IInv
<1>2. row \in TaskRows /\ Alike(row, task) /\ row.state = state
  BY <1>1, Moved
<1> HIDE DEF row
<1>3. RowKept(row, task)
  BY <1>2 DEF Alike, RowKept
<1>4. /\ Unapproved(row) \in TaskRows /\ RowKept(Unapproved(row), task)
      /\ Unapproved(row).state = state
  BY <1>2, Unapproving DEF Alike, RowKept
<1>5. task' = row \/ task' = Unapproved(row)
  BY DEF row, Invalidated
<1>6. task' \in TaskRows /\ RowKept(task', task) /\ task'.state = state
  BY <1>2, <1>3, <1>4, <1>5
<1> QED BY <1>6, SteadyTask DEF RowKept

LEMMA SameTask ==
    ASSUME IInv, UNCHANGED task
    PROVE  Steady /\ task'.head = task.head /\ task'.req = task.req /\ task'.plan = task.plan
BY Typed DEF IInv, Steady, Grown, Awaits

LEMMA SameHub == ASSUME IInv, UNCHANGED github PROVE HubSteady
BY DEF IInv, HubSteady

LEMMA SameBooks ==
    ASSUME IInv, UNCHANGED <<plans, ledger, pending, merging>>, Calm \/ Troubled
    PROVE  Books
<1>1. trouble' \in 0..MaxTrouble
  BY Typed, WorkflowV2Assumption DEF IInv, Calm, Troubled
<1> QED BY <1>1, Typed DEF IInv, Books

(* A job that is only moved, and one that is closed.                        *)
LEMMA AdvancedJob ==
    ASSUME IInv, NEW j \in jobs, NEW status \in JobStatuses, NEW at \in Progress,
           NEW saved \in BOOLEAN, NEW verdict \in Verdicts,
           j.kind = "clarify" => status = "queued", status = "proposed" => j.kind = "draft",
           status = "asked" => Implementing(j),
           at # "start" => status = "running" /\ j.request # <<>>,
           at = "published" /\ Publishing(j.kind) => j.published # 0,
           at \in {"recorded", "indexed", "ready"} =>
              Implementing(j) /\ j.published # 0 /\ j.published = j.pins.head,
           at \in {"indexed", "ready"} => j.indexed # 0,
           jobs' \subseteq (jobs \ {j}) \cup
              {[j EXCEPT !.status = status, !.at = at, !.saved = saved, !.verdict = verdict]},
           made' = made
    PROVE  JobsMove
<1> DEFINE k == [j EXCEPT !.status = status, !.at = at, !.saved = saved, !.verdict = verdict]
<1>1. j \in JobRows /\ Row(j)
  BY Typed DEF IInv, JobRowsTell
<1>2. /\ k \in JobRows /\ Same(j, k) /\ k.status = status /\ k.at = at
  BY <1>1 DEF JobRows, Same
<1>3. jobs' \subseteq (jobs \ {j}) \cup {k}
  OBVIOUS
<1> HIDE DEF k
<1>4. Row(k)
  BY <1>1, <1>2 DEF Row, Same, Implementing
<1> QED BY <1>2, <1>3, <1>4, ReplacedJob

LEMMA SameExcept ==
    ASSUME NEW j \in JobRows, NEW status, NEW at, NEW saved, NEW verdict
    PROVE  /\ [j EXCEPT !.status = status] =
              [j EXCEPT !.status = status, !.at = j.at, !.saved = j.saved, !.verdict = j.verdict]
           /\ [j EXCEPT !.at = at] =
              [j EXCEPT !.status = j.status, !.at = at, !.saved = j.saved, !.verdict = j.verdict]
           /\ [j EXCEPT !.status = status, !.at = at] =
              [j EXCEPT !.status = status, !.at = at, !.saved = j.saved, !.verdict = j.verdict]
           /\ [j EXCEPT !.at = at, !.saved = saved, !.verdict = verdict] =
              [j EXCEPT !.status = j.status, !.at = at, !.saved = saved, !.verdict = verdict]
BY DEF JobRows

LEMMA ClosedJob ==
    ASSUME IInv, NEW j \in jobs, NEW status \in JobStatuses \ {"proposed"}, j.kind # "clarify",
           status = "asked" => Implementing(j),
           jobs' = Closed(j, status), made' = made
    PROVE  JobsMove
<1>1. j \in JobRows /\ j.saved \in BOOLEAN /\ j.verdict \in Verdicts
  BY Typed, JobTyped DEF IInv
<1>2. PICK at, saved, verdict : at = "start" /\ saved = j.saved /\ verdict = j.verdict
  OBVIOUS
<1>3. jobs' \subseteq (jobs \ {j}) \cup {[j EXCEPT !.status = status, !.at = at]}
  BY <1>2 DEF Closed
<1>4. [j EXCEPT !.status = status, !.at = at] =
         [j EXCEPT !.status = status, !.at = at, !.saved = saved, !.verdict = verdict]
  <2>1. [j EXCEPT !.status = status, !.at = at] =
           [j EXCEPT !.status = status, !.at = at, !.saved = j.saved, !.verdict = j.verdict]
    BY <1>1, SameExcept
  <2> QED BY <1>2, <2>1
<1>5. jobs' \subseteq (jobs \ {j}) \cup
         {[j EXCEPT !.status = status, !.at = at, !.saved = saved, !.verdict = verdict]}
  BY <1>3, <1>4
<1>6. /\ at \in Progress /\ saved \in BOOLEAN /\ verdict \in Verdicts /\ status \in JobStatuses
      /\ j.kind = "clarify" => status = "queued"
      /\ status = "proposed" => j.kind = "draft"
      /\ status = "asked" => Implementing(j)
      /\ at # "start" => status = "running" /\ j.request # <<>>
      /\ at = "published" /\ Publishing(j.kind) => j.published # 0
      /\ at \in {"recorded", "indexed", "ready"} =>
            Implementing(j) /\ j.published # 0 /\ j.published = j.pins.head
      /\ at \in {"indexed", "ready"} => j.indexed # 0
  BY <1>1, <1>2 DEF Progress
<1> QED BY <1>5, <1>6, AdvancedJob

LEMMA AdvancedTo ==
    ASSUME IInv, NEW j \in jobs, NEW status \in JobStatuses, NEW at \in Progress,
           j.kind = "clarify" => status = "queued", status = "proposed" => j.kind = "draft",
           status = "asked" => Implementing(j),
           at # "start" => status = "running" /\ j.request # <<>>,
           at = "published" /\ Publishing(j.kind) => j.published # 0,
           at \in {"recorded", "indexed", "ready"} =>
              Implementing(j) /\ j.published # 0 /\ j.published = j.pins.head,
           at \in {"indexed", "ready"} => j.indexed # 0,
           jobs' \subseteq (jobs \ {j}) \cup {[j EXCEPT !.status = status, !.at = at]},
           made' = made
    PROVE  JobsMove
<1>1. j \in JobRows /\ j.saved \in BOOLEAN /\ j.verdict \in Verdicts
  BY Typed, JobTyped DEF IInv
<1>2. PICK saved, verdict : saved = j.saved /\ verdict = j.verdict
  OBVIOUS
<1>3. [j EXCEPT !.status = status, !.at = at] =
         [j EXCEPT !.status = status, !.at = at, !.saved = saved, !.verdict = verdict]
  <2>1. [j EXCEPT !.status = status, !.at = at] =
           [j EXCEPT !.status = status, !.at = at, !.saved = j.saved, !.verdict = j.verdict]
    BY <1>1, SameExcept
  <2> QED BY <1>2, <2>1
<1>4. jobs' \subseteq (jobs \ {j}) \cup
         {[j EXCEPT !.status = status, !.at = at, !.saved = saved, !.verdict = verdict]}
  BY <1>3
<1>5. saved \in BOOLEAN /\ verdict \in Verdicts
  BY <1>1, <1>2
<1> QED BY <1>4, <1>5, AdvancedJob

(* A job that goes on where it is, or to another point of its execution.    *)
LEMMA StatusOnly ==
    ASSUME NEW j \in JobRows, NEW status
    PROVE  [j EXCEPT !.status = status] = [j EXCEPT !.status = status, !.at = j.at]
BY DEF JobRows
LEMMA AtOnly ==
    ASSUME NEW j \in JobRows, NEW at
    PROVE  [j EXCEPT !.at = at] = [j EXCEPT !.status = j.status, !.at = at]
BY DEF JobRows

LEMMA JobsStatus ==
    ASSUME IInv, NEW j \in jobs, NEW status \in JobStatuses,
           j.kind = "clarify" => status = "queued", status = "proposed" => j.kind = "draft",
           status = "asked" => Implementing(j),
           j.at # "start" => status = "running",
           jobs' \subseteq (jobs \ {j}) \cup {[j EXCEPT !.status = status]}, made' = made
    PROVE  JobsMove
<1>1. j \in JobRows /\ Row(j) /\ j.at \in Progress
  BY Typed, JobTyped DEF IInv, JobRowsTell
<1>2. PICK at : at = j.at
  OBVIOUS
<1>3. jobs' \subseteq (jobs \ {j}) \cup {[j EXCEPT !.status = status, !.at = at]}
  BY <1>1, <1>2, StatusOnly
<1>4. /\ at \in Progress
      /\ at # "start" => status = "running" /\ j.request # <<>>
      /\ at = "published" /\ Publishing(j.kind) => j.published # 0
      /\ at \in {"recorded", "indexed", "ready"} =>
            Implementing(j) /\ j.published # 0 /\ j.published = j.pins.head
      /\ at \in {"indexed", "ready"} => j.indexed # 0
  BY <1>1, <1>2 DEF Row
<1> QED BY <1>3, <1>4, AdvancedTo

LEMMA JobsAt ==
    ASSUME IInv, NEW j \in jobs, NEW at \in Progress, j.status = "running", j.request # <<>>,
           at = "published" /\ Publishing(j.kind) => j.published # 0,
           at \in {"recorded", "indexed", "ready"} =>
              Implementing(j) /\ j.published # 0 /\ j.published = j.pins.head,
           at \in {"indexed", "ready"} => j.indexed # 0,
           Set(j, [j EXCEPT !.at = at]), made' = made
    PROVE  JobsMove
<1>1. j \in JobRows /\ Row(j) /\ "running" \in JobStatuses
  BY Typed DEF IInv, JobRowsTell, JobStatuses
<1>2. jobs' = (jobs \ {j}) \cup {[j EXCEPT !.status = j.status, !.at = at]}
  BY <1>1, AtOnly DEF Set
<1>3. jobs' \subseteq (jobs \ {j}) \cup {[j EXCEPT !.status = "running", !.at = at]}
  BY <1>2
<1>4. j.kind # "clarify"
  BY <1>1 DEF Row
<1> QED BY <1>1, <1>3, <1>4, AdvancedTo

LEMMA JobsBack ==
    ASSUME IInv, NEW j \in jobs, NEW status \in JobStatuses,
           j.kind = "clarify" => status = "queued", status = "proposed" => j.kind = "draft",
           status = "asked" => Implementing(j),
           jobs' \subseteq (jobs \ {j}) \cup {[j EXCEPT !.status = status, !.at = "start"]},
           made' = made
    PROVE  JobsMove
<1>1. PICK at : at = "start"
  OBVIOUS
<1>2. /\ at \in Progress /\ at = "start" /\ at # "published" /\ at \notin {"indexed", "ready"}
      /\ at \notin {"recorded", "indexed", "ready"}
      /\ jobs' \subseteq (jobs \ {j}) \cup {[j EXCEPT !.status = status, !.at = at]}
  BY <1>1 DEF Progress
<1> QED BY <1>2, AdvancedTo

LEMMA RetryTask ==
    ASSUME IInv, NEW state \in States, NEW retry \in States \cup {"none"},
           state # "AwaitingRequirementsConfirmation" \/ task.req # 0,
           retry # "AwaitingRequirementsConfirmation" \/ task.req # 0,
           task' = [To(task, state) EXCEPT !.retry = retry]
    PROVE  Steady /\ task'.head = task.head /\ task'.req = task.req /\ task'.plan = task.plan
<1> DEFINE row == To(task, state)
<1>1. task \in TaskRows
  BY Typed DEF IInv
<1>2. row \in TaskRows /\ Alike(row, task) /\ row.state = state
  BY <1>1, Moved
<1>3. PICK new : task' = new /\ new = [row EXCEPT !.retry = retry]
  OBVIOUS
<1> HIDE DEF row
<1>5. PICK base \in TaskRows : base = row
  BY <1>2
<1>6. /\ new \in TaskRows /\ new.state = base.state /\ new.retry = retry
      /\ new.req = base.req /\ new.reqApproved = base.reqApproved /\ new.plan = base.plan
      /\ new.head = base.head /\ new.review = base.review /\ new.merge = base.merge
  BY <1>3, <1>5, Retrying
<1>4. /\ task' \in TaskRows /\ task'.state = state /\ task'.retry = retry
      /\ task'.req = row.req /\ task'.reqApproved = row.reqApproved /\ task'.plan = row.plan
      /\ task'.head = row.head /\ task'.review = row.review /\ task'.merge = row.merge
  BY <1>2, <1>3, <1>5, <1>6
<1> QED BY <1>2, <1>4 DEF Alike, Steady, Awaits, IInv, Grown

LEMMA FailedJob ==
    ASSUME IInv, NEW j \in jobs, Current(j), Fail(j), made' = made
    PROVE  JobsMove /\ Steady
<1>1. JobsMove
  BY ClosedJob DEF Current, IdentityCurrent, Fail, JobStatuses
<1>2. PICK state, retry : state = "Blocked" /\ retry = task.state
  OBVIOUS
<1>3. /\ state \in States /\ retry \in States \cup {"none"}
      /\ state # "AwaitingRequirementsConfirmation"
      /\ retry # "AwaitingRequirementsConfirmation" \/ task.req # 0
  BY <1>2, Typed, TaskTyped DEF IInv, Grown, States, STOPPED
<1>4. task' = [To(task, state) EXCEPT !.retry = retry]
  BY <1>2 DEF Fail
<1> QED BY <1>1, <1>3, <1>4, RetryTask

-----------------------------------------------------------------------------
(* Executions, up to the result                                             *)

LEMMA ClaimKeeps == ASSUME IInv, NEW j \in jobs, Claim(j) PROVE IInv'
<1>1. HubSteady /\ Books
  BY SameHub, SameBooks DEF Claim
<1>2. JobsMove /\ Steady
  <2>1. CASE IdentityCurrent(j)
    <3>1. JobsMove
      BY <2>1, JobsStatus DEF Claim, IdentityCurrent, Set, JobStatuses
    <3>2. Steady
      <4>1. \/ \E state \in {"Implementing", "Fixing"} : task' = To(task, state)
            \/ task' = task
        BY <2>1 DEF Claim
      <4>2. {"Implementing", "Fixing"} \subseteq States \ {"AwaitingRequirementsConfirmation"}
        BY DEF States, Working
      <4> QED BY <4>1, <4>2, MovedTask, SameTask
    <3> QED BY <3>1, <3>2
  <2>2. CASE ~IdentityCurrent(j)
    BY <2>2, DroppedJobs, SameTask DEF Claim
  <2> QED BY <2>1, <2>2
<1> QED BY <1>1, <1>2, SteadyKeeps

LEMMA GiveUpKeeps == ASSUME IInv, NEW j \in jobs, GiveUp(j) PROVE IInv'
<1>1. HubSteady /\ Books
  BY SameHub, SameBooks DEF GiveUp
<1>2. JobsMove
  BY ClosedJob DEF GiveUp, IdentityCurrent, JobStatuses
<1>3. Steady
  BY MovedTask DEF GiveUp, States, STOPPED
<1> QED BY <1>1, <1>2, <1>3, SteadyKeeps

LEMMA ReturnKeeps == ASSUME IInv, NEW j \in jobs, Lapse(j) \/ Disconnect(j) PROVE IInv'
<1>1. HubSteady /\ Books /\ Steady
  BY SameHub, SameBooks, SameTask DEF Lapse, Disconnect
<1>2. JobsMove
  BY JobsBack DEF Lapse, Disconnect, Set, JobStatuses
<1> QED BY <1>1, <1>2, SteadyKeeps

LEMMA ReuseKeeps == ASSUME IInv, NEW j \in jobs, Reuse(j) PROVE IInv'
<1>1. HubSteady /\ Books /\ Steady
  BY SameHub, SameBooks, SameTask DEF Reuse
<1>2. PICK at : at = IF j.saved THEN "result" ELSE "run"
  OBVIOUS
<1>3. at \in Progress /\ at # "published" /\ at \notin {"recorded", "indexed", "ready"}
  BY <1>2 DEF Progress
<1>4. JobsMove
  BY <1>2, <1>3, JobsAt DEF Reuse, Current
<1> QED BY <1>1, <1>4, SteadyKeeps

LEMMA PersistKeeps == ASSUME IInv, NEW j \in jobs, Persist(j) PROVE IInv'
<1>1. HubSteady /\ Books /\ Steady
  BY SameHub, SameBooks, SameTask DEF Persist
<1>2. JobsMove
  <2>1. j \in JobRows /\ Row(j) /\ j.status = "running" /\ j.request # <<>>
    BY Typed DEF IInv, JobRowsTell, Row, Persist, Current
  <2>2. PICK verdict \in Verdicts :
           Set(j, [j EXCEPT !.at = "result", !.saved = TRUE, !.verdict = verdict])
    BY DEF Persist, Verdicts
  <2>3. PICK status, at, saved : status = j.status /\ at = "result" /\ saved = TRUE
    OBVIOUS
  <2>4. [j EXCEPT !.at = at, !.saved = saved, !.verdict = verdict] =
           [j EXCEPT !.status = status, !.at = at, !.saved = saved, !.verdict = verdict]
    <3>1. [j EXCEPT !.at = at, !.saved = saved, !.verdict = verdict] =
             [j EXCEPT !.status = j.status, !.at = at, !.saved = saved, !.verdict = verdict]
      BY <2>1, SameExcept
    <3> QED BY <2>3, <3>1
  <2>5. jobs' \subseteq (jobs \ {j}) \cup
           {[j EXCEPT !.status = status, !.at = at, !.saved = saved, !.verdict = verdict]}
    BY <2>2, <2>3, <2>4 DEF Set
  <2>6. /\ at \in Progress /\ at # "published" /\ at \notin {"recorded", "indexed", "ready"}
        /\ at \notin {"indexed", "ready"} /\ status \in JobStatuses /\ status = "running"
        /\ saved \in BOOLEAN /\ j.kind # "clarify"
    BY <2>1, <2>3 DEF Progress, JobStatuses, Row
  <2> QED BY <2>1, <2>5, <2>6, AdvancedJob DEF Persist
<1> QED BY <1>1, <1>2, SteadyKeeps

LEMMA AskKeeps == ASSUME IInv, NEW j \in jobs, Ask(j) PROVE IInv'
<1>1. HubSteady /\ Books
  BY SameHub, SameBooks DEF Ask
<1>2. Steady
  BY MovedTask DEF Ask, States, STOPPED
<1>3. JobsMove
  <2>1. CASE j.kind \in {"implement", "fix"}
    BY <2>1, ClosedJob DEF Ask, JobStatuses, Implementing
  <2>2. CASE j.kind \notin {"implement", "fix"}
    BY <2>2, DroppedJobs DEF Ask
  <2> QED BY <2>1, <2>2
<1> QED BY <1>1, <1>2, <1>3, SteadyKeeps

LEMMA RejectKeeps == ASSUME IInv, NEW j \in jobs, Reject(j) PROVE IInv'
BY SameHub, SameBooks, FailedJob, SteadyKeeps DEF Reject

LEMMA ProposeKeeps == ASSUME IInv, NEW j \in jobs, Propose(j) PROVE IInv'
<1>1. HubSteady /\ Books
  BY SameHub, SameBooks DEF Propose
<1>2. JobsMove
  BY JobsBack DEF Propose, JobStatuses
<1>3. Steady
  <2> DEFINE row == To(task, "Blocked")
  <2>1. task \in TaskRows /\ "Blocked" \in States
    BY Typed DEF IInv, States, STOPPED
  <2>2. row \in TaskRows /\ Alike(row, task) /\ row.state = "Blocked"
    BY <2>1, Moved
  <2>3. task' = [row EXCEPT !.proposed = TRUE]
    BY DEF Propose
  <2> HIDE DEF row
  <2>4. /\ task' \in TaskRows /\ task'.state = "Blocked" /\ task'.retry = row.retry
        /\ task'.req = row.req /\ task'.reqApproved = row.reqApproved /\ task'.plan = row.plan
        /\ task'.head = row.head /\ task'.review = row.review /\ task'.merge = row.merge
    BY <2>2, <2>3 DEF TaskRows
  <2> QED BY <2>1, <2>2, <2>4, SteadyTask DEF Alike, RowKept
<1> QED BY <1>1, <1>2, <1>3, SteadyKeeps

LEMMA DraftedKeeps == ASSUME IInv, NEW j \in jobs, Drafted(j) PROVE IInv'
<1>1. HubSteady /\ Steady /\ JobsMove
  BY SameHub, SameTask, DroppedJobs DEF Drafted
<1>2. Books
  <2>1. /\ plans \in Seq(Plans) /\ Len(plans) \in Nat /\ ledger \subseteq Grants
        /\ pending \subseteq Pendings /\ merging \in BOOLEAN /\ trouble \in 0..MaxTrouble
        /\ j \in JobRows
    BY Typed DEF IInv
  <2>2. github.body \in Texts /\ github.at \in Nat /\ j.id # 0
    BY <2>1, JobTyped, Numbers DEF IInv, Hubs
  <2>3. /\ [kind |-> "requirements", body |-> github.body, at |-> github.at] \in Pendings
    BY <2>2 DEF Pendings
  <2>4. \A p \in pending' : p \in pending \/ p.body # 0
    BY <2>2 DEF Drafted
  <2> QED BY <2>1, <2>3, <2>4 DEF Drafted, Books, Calm
<1> QED BY <1>1, <1>2, SteadyKeeps

LEMMA IdentityNow ==
    ASSUME IInv
    PROVE  Identity \in Identities /\ task.head <= Tip /\ task.head \in Nat
BY Typed, TaskTyped, Numbers DEF IInv, Identity, IdentityOf

(* prepare_v2 fills in the base, and the request is what the task is now.   *)
LEMMA PrepareKeeps == ASSUME IInv, NEW j \in jobs, Prepare(j) PROVE IInv'
<1>1. HubSteady /\ Books
  BY SameHub, SameBooks DEF Prepare
<1>2. CASE ~Verified(j.kind)
  BY <1>1, <1>2, FailedJob, SteadyKeeps DEF Prepare
<1>3. CASE Verified(j.kind)
  <2> PICK base, request : /\ base = IF task.base = 0 THEN github.base ELSE task.base
                           /\ request = [Identity EXCEPT !.base = base]
    OBVIOUS
  <2> DEFINE row == [j EXCEPT !.at = "run", !.request = request]
  <2>1. /\ Tables /\ task \in TaskRows /\ j \in JobRows /\ Row(j) /\ base \in Nat /\ github \in Hubs
        /\ Identity \in Identities
    BY IdentityNow, Typed, TaskTyped DEF IInv, JobRowsTell, Hubs
  <2>2. /\ request \in Identities /\ request.req = task.req /\ request.head = task.head
        /\ request.plan = task.plan
    BY <2>1 DEF Identities, Identity
  <2>3. task' = [task EXCEPT !.base = base] /\ jobs' = (jobs \ {j}) \cup {row} /\ made' = made
    BY <1>3 DEF Prepare, Set
  <2>4. j.status = "running" /\ j.request = <<>> /\ IdentityCurrent(j)
    BY DEF Prepare, Current
  <2>5. request # <<>>
    BY <2>2 DEF Identities
  <2>6. PICK k : k = row
    OBVIOUS
  <2>17. /\ k \in JobRows /\ k.id = j.id /\ k.kind = j.kind /\ k.pins = j.pins /\ k.at = "run"
        /\ k.status = j.status /\ k.request = request
        /\ k.published = j.published /\ k.indexed = j.indexed
    BY <2>1, <2>2, <2>6 DEF JobRows, Progress
  <2> HIDE DEF row
  <2>7. /\ Steady /\ Onwards /\ task'.reqApproved = task.reqApproved /\ task'.head = task.head
        /\ task'.state = task.state /\ task'.retry = task.retry
        /\ task'.plan = task.plan /\ task'.req = task.req
    <3>1. /\ task' \in TaskRows /\ task'.state = task.state /\ task'.retry = task.retry
          /\ task'.req = task.req /\ task'.reqApproved = task.reqApproved
          /\ task'.plan = task.plan /\ task'.head = task.head /\ task'.review = task.review
          /\ task'.merge = task.merge
      BY <2>1, <2>3 DEF TaskRows
    <3> QED BY <2>1, <3>1, TaskTyped, Numbers DEF Steady, Onwards, Awaits, IInv, Grown
  <2>8. Row(k) /\ \A l \in jobs' : Row(l)
    BY <2>1, <2>3, <2>4, <2>5, <2>6, <2>17 DEF Row, Implementing, IInv, JobRowsTell
  <2>9. JobRowsTell'
    <3>1. \A l \in jobs' : Row(l)'
      BY <2>3, <2>8 DEF Row
    <3> QED BY <2>3, <2>6, <2>17, <3>1 DEF JobRowsTell, IInv
  <2>10. Tables'
    <3>1. Tip' = Tip /\ Tip <= MaxCommits /\ task.head <= Tip /\ made \in JobIds
          /\ \A l \in jobs : l \in JobRows
      BY <2>1, Typed DEF HubSteady, Tip, Prepare
    <3> QED BY <1>1, <2>3, <2>6, <2>17, <2>7, <3>1, TypesAgain DEF HubSteady, Onwards
  <2>11. /\ j.kind # "draft" => task.req # 0
         /\ Implementing(j) => task.plan # 0
         /\ j.kind = "review" => Has("requirements", [None EXCEPT !.req = task.req])
    BY <1>3 DEF Verified, IInv, Grown, Implementing, RequirementsGrant, Has
  <2>12. Grown'
    <3>1. Tip' = Tip
      BY <1>1 DEF HubSteady, Tip
    <3> QED BY <2>3, <2>6, <2>17, <2>7, <2>11, <3>1 DEF Grown, IInv, Implementing, Prepare
  <2>13. Reviews'
    <3>1. ASSUME NEW r \in jobs', r.kind = "review" PROVE Pinned(r)'
      <4>1. CASE r \in jobs
        BY <2>7, <3>1, <4>1 DEF Pinned, IInv, Reviews, Has, Prepare
      <4>2. CASE r = k
        <5>1. Pinned(j) /\ j.kind = "review"
          BY <2>6, <2>17, <3>1, <4>2 DEF IInv, Reviews
        <5>2. /\ request.req = j.pins.req /\ request.head = j.pins.head
              /\ j.pins.plan # 0 => request.plan = j.pins.plan
          BY <2>1, <2>2, <2>4, <5>1, JobTyped DEF IdentityCurrent, Pinned, Identities
        <5>3. PICK req : req = task.req /\ req = request.req
          BY <2>2
        <5>4. Has("requirements", [None EXCEPT !.req = req])
          BY <2>11, <5>1, <5>3
        <5>5. Has("requirements", [None EXCEPT !.req = req])'
          BY <5>4 DEF Has, Prepare
        <5>6. /\ r.request = request /\ r.pins = j.pins
          BY <2>17, <4>2
        <5>7. Has("requirements", [None EXCEPT !.req = r.request.req])'
          BY <5>3, <5>5, <5>6
        <5>8. r.pins.head <= task'.head
          BY <2>7, <5>1, <5>6 DEF Pinned
        <5>9. r.pins.req # 0 /\ r.pins.head # 0
          BY <5>1, <5>6 DEF Pinned
        <5>10. /\ r.request.req = r.pins.req /\ r.request.head = r.pins.head
               /\ r.pins.plan # 0 => r.request.plan = r.pins.plan
          BY <5>2, <5>6
        <5>11. Pinned(r)'
          BY <5>7, <5>8, <5>9, <5>10 DEF Pinned
        <5> QED BY <5>11
      <4> QED BY <2>3, <2>6, <4>1, <4>2
    <3> QED BY <3>1 DEF Reviews
  <2>14. Branch'
    <3>1. Tip' = Tip /\ github' = github
      BY DEF Prepare, Tip
    <3>2. \A l \in jobs : Known(l)' <=> Known(l)
      BY <2>7, <3>1 DEF Known, On
    <3>3. Known(j)
      BY DEF IInv, Branch
    <3>4. Known(k)
      BY <2>5, <2>6, <2>17, <3>3 DEF Known, On, Recorded, StageOf, Implementing
    <3>5. Known(k)'
      BY <2>7, <3>1, <3>4 DEF Known, On
    <3>6. \A l \in jobs' : Known(l)'
      BY <2>3, <2>6, <3>2, <3>5 DEF Branch, IInv
    <3> QED BY <2>3, <2>7, <3>1, <3>6 DEF Branch, IInv
  <2>15. Works'
    <3>1. \A r \in jobs' : r.kind = "review" /\ r.pins.plan = 0 => Unplanned(r.pins.head)
      BY <2>3, <2>6, <2>17 DEF IInv, Works
    <3> QED BY <2>7, <3>1 DEF Works, IInv, Unplanned, Implementation, Tip, Prepare
  <2>16. Approvals' /\ PublishedOnce' /\ MergedAsReviewed'
    BY <1>1, <2>7, ApprovalsKept, OnceKept, MergedKept DEF Steady, HubSteady, Books
  <2> QED BY <1>1, <2>9, <2>10, <2>12, <2>13, <2>14, <2>15, <2>16 DEF IInv, HubSteady
<1> QED BY <1>2, <1>3

-----------------------------------------------------------------------------
(* The requirements and the plan                                            *)

LEMMA PendingTyped ==
    ASSUME NEW p \in Pendings
    PROVE  /\ p.kind = "requirements" => p.body \in Texts /\ p.at \in Nat
           /\ p.kind = "plan" => p.hash \in Texts /\ p.base \in Nat
BY DEF Pendings

LEMMA FewerPending ==
    ASSUME IInv, pending' \subseteq pending, plans' \in Seq(Plans), Len(plans) <= Len(plans'),
           UNCHANGED <<ledger, merging>>, Calm
    PROVE  Books
BY Typed DEF IInv, Books, Calm

LEMMA QueuedWork ==
    ASSUME IInv, task' \in TaskRows, NEW rows, rows \subseteq jobs,
           NEW kind \in Kinds \ {"review"}, Enqueue(rows, kind, task')
    PROVE  /\ JobsMove
           /\ \A k \in jobs' : New(k) \/ (k \in rows /\ (Open(k) \/ k.status = "proposed"))
<1>1. PICK pins : pins = IdentityOf(task')
  OBVIOUS
<1>2. pins \in Identities
  <2>1. \A row \in TaskRows : IdentityOf(row) \in Identities
    BY TaskTyped
  <2> QED BY <1>1, <2>1
<1>3. EnqueuePinned(rows, kind, pins)
  BY <1>1 DEF Enqueue
<1> QED BY <1>2, <1>3, QueuedJob

LEMMA QueuedReview ==
    ASSUME IInv, Onwards, task'.req # 0, task'.head # 0, NEW rows, rows \subseteq jobs,
           Enqueue(rows, "review", task')
    PROVE  /\ JobsMove
           /\ \A k \in jobs' : New(k) \/ (k \in rows /\ (Open(k) \/ k.status = "proposed"))
<1>1. PICK pins : pins = IdentityOf(task')
  OBVIOUS
<1>2. pins \in Identities
  <2>1. \A row \in TaskRows : IdentityOf(row) \in Identities
    BY TaskTyped
  <2> QED BY <1>1, <2>1 DEF Onwards
<1>3. EnqueuePinned(rows, "review", pins)
  BY <1>1 DEF Enqueue
<1>4. /\ pins.req # 0 /\ pins.head # 0 /\ pins.head <= task'.head
      /\ pins.plan = 0 => task.plan = 0
  <2>1. pins.req = task'.req /\ pins.head = task'.head /\ pins.plan = task'.plan
    BY <1>1 DEF IdentityOf
  <2>2. pins.head \in Nat
    BY <1>2, IdentityTyped, Numbers
  <2> QED BY <2>1, <2>2 DEF Onwards
<1>5. "review" \in Kinds
  BY DEF Kinds
<1> QED BY <1>2, <1>3, <1>4, <1>5, QueuedJob

LEMMA RegisterRequirementsKeeps == ASSUME IInv, NEW p \in pending, RegisterRequirements(p) PROVE IInv'
<1>1. HubSteady /\ JobsMove
  BY SameHub, DroppedJobs DEF RegisterRequirements
<1>2. Books
  <2>1. plans \in Seq(Plans) /\ Len(plans) \in Nat
    BY Typed DEF IInv
  <2> QED BY <2>1, FewerPending DEF RegisterRequirements
<1>3. CASE task.state # "DraftingRequirements"
  BY <1>1, <1>2, <1>3, SameTask, SteadyKeeps DEF RegisterRequirements
<1>4. CASE task.state = "DraftingRequirements"
  <2> DEFINE row == To(task, "AwaitingRequirementsConfirmation")
  <2>1. task \in TaskRows /\ "AwaitingRequirementsConfirmation" \in States
    BY Typed DEF IInv, States
  <2>2. row \in TaskRows /\ Alike(row, task) /\ row.state = "AwaitingRequirementsConfirmation"
    BY <2>1, Moved
  <2>3. task' = [row EXCEPT !.req = p.body, !.reqAt = p.at, !.body = p.body,
                            !.reqApproved = FALSE, !.offer.req = p.body]
    BY <1>4 DEF RegisterRequirements
  <2>4. p.body \in Texts /\ p.at \in Nat /\ p.body # 0
    <3>1. p \in Pendings /\ p.kind = "requirements"
      BY Typed DEF IInv, RegisterRequirements
    <3> QED BY <3>1, PendingTyped DEF IInv, Grown
  <2> HIDE DEF row
  <2>5. row.offer \in Pairs /\ p.body \in Nat
    BY <2>2, <2>4, TaskTyped, Numbers
  <2>6. /\ task' \in TaskRows /\ task'.req # 0 /\ task'.plan = row.plan /\ task'.head = row.head
        /\ task'.merge = row.merge /\ task'.review = row.review
    BY <2>2, <2>3, <2>4, <2>5 DEF TaskRows, Pairs
  <2>7. /\ Onwards /\ task'.head <= Tip /\ task'.plan <= Len(plans') /\ task'.head = task.head
    <3>1. task'.head = task.head /\ task'.plan = task.plan
      BY <2>2, <2>6 DEF Alike
    <3>2. task.head <= Tip /\ task.head \in Nat /\ task.plan <= Len(plans) /\ plans' = plans
      BY <2>1, Typed, TaskTyped, Numbers DEF IInv, Grown, RegisterRequirements
    <3> QED BY <2>6, <3>1, <3>2 DEF Onwards
  <2>8. task'.merge \in {None, task.merge} /\ task'.review \in {None, task.review}
    BY <2>2, <2>6 DEF Alike
  <2>9. Branch' /\ Approvals' /\ JobsGrow
    BY <1>1, <1>2, <2>7, <2>8, BranchKept, ApprovalsKept, MovesGrow DEF HubSteady, Books
  <2> QED BY <1>1, <1>2, <2>6, <2>7, <2>9, OnwardsKeeps
<1> QED BY <1>3, <1>4

LEMMA RegisterPlanKeeps == ASSUME IInv, NEW p \in pending, RegisterPlan(p) PROVE IInv'
<1>1. HubSteady
  BY SameHub DEF RegisterPlan
<1>2. plans \in Seq(Plans) /\ Len(plans) \in Nat /\ task \in TaskRows
  BY Typed DEF IInv
<1>3. CASE task.state # "PlanningImplementation" \/ ~task.reqApproved
  <2>1. UNCHANGED <<task, jobs, made, plans>>
    BY <1>3 DEF RegisterPlan
  <2>2. Books /\ JobsMove
    BY <1>2, <2>1, FewerPending, DroppedJobs DEF RegisterPlan
  <2> QED BY <1>1, <2>1, <2>2, SameTask, SteadyKeeps
<1>4. CASE ~(task.state # "PlanningImplementation" \/ ~task.reqApproved)
  <2> DEFINE row == To(task, "ReviewingImplementationPlan")
  <2>1. "ReviewingImplementationPlan" \in States
    BY DEF States, Working
  <2>2. row \in TaskRows /\ Alike(row, task) /\ row.state = "ReviewingImplementationPlan"
    BY <1>2, <2>1, Moved
  <2>3. p \in Pendings /\ p.hash \in Texts /\ p.base \in Nat
    <3>1. p \in Pendings /\ p.kind = "plan"
      BY Typed DEF IInv, RegisterPlan
    <3> QED BY <3>1, PendingTyped
  <2>4. PICK plan : plan = [hash |-> p.hash, base |-> p.base, status |-> "pending"]
    OBVIOUS
  <2>5. plans' = Append(plans, plan) /\ plan \in Plans /\ Len(plans) < MaxPlans
    BY <1>4, <2>3, <2>4 DEF RegisterPlan, Plans
  <2>6. plans' \in Seq(Plans) /\ Len(plans') = Len(plans) + 1 /\ Len(plans') \in Versions
    BY <1>2, <2>5, AppendProperties, WorkflowV2Assumption DEF Versions
  <2>7. Books
    BY <1>2, <2>6, FewerPending DEF RegisterPlan
  <2>8. PICK version : version = Len(plans')
    OBVIOUS
  <2>9. task' = [row EXCEPT !.plan = version, !.base = p.base] /\ Enqueue(jobs, "review_plan", task')
    BY <1>4, <2>8 DEF RegisterPlan
  <2> HIDE DEF row
  <2>10. /\ task' \in TaskRows /\ task'.plan = version /\ task'.req = row.req /\ task'.head = row.head
         /\ task'.reqApproved = row.reqApproved
         /\ task'.merge = row.merge /\ task'.review = row.review
    BY <2>2, <2>3, <2>6, <2>8, <2>9 DEF TaskRows
  <2>11. JobsMove
    BY <2>9, <2>10, QueuedWork DEF Kinds
  <2>12. Onwards /\ task'.head = task.head /\ task'.head <= Tip /\ task'.plan <= Len(plans')
         /\ task'.req # 0
    <3>1. task'.head = task.head /\ task'.req = task.req /\ version # 0 /\ version <= Len(plans')
      BY <1>2, <2>2, <2>6, <2>8, <2>10 DEF Alike
    <3>2. task.head <= Tip /\ task.head \in Nat /\ task.req # 0
      BY <1>2, <1>4, Typed, TaskTyped, Numbers DEF IInv, Grown
    <3> QED BY <2>10, <3>1, <3>2 DEF Onwards
  <2>13. task'.merge \in {None, task.merge} /\ task'.review \in {None, task.review}
    BY <2>2, <2>10 DEF Alike
  <2>14. Branch' /\ Approvals' /\ JobsGrow
    BY <1>1, <2>7, <2>11, <2>12, <2>13, BranchKept, ApprovalsKept, MovesGrow DEF HubSteady, Books
  <2> QED BY <1>1, <2>7, <2>12, <2>14, OnwardsKeeps
<1> QED BY <1>3, <1>4

LEMMA PlanReviewedKeeps == ASSUME IInv, NEW j \in jobs, PlanReviewed(j) PROVE IInv'
<1>1. HubSteady /\ Steady /\ JobsMove
  BY SameHub, SameTask, DroppedJobs DEF PlanReviewed
<1>2. Books
  <2>1. /\ plans \in Seq(Plans) /\ Len(plans) \in Nat /\ ledger \subseteq Grants
        /\ pending \subseteq Pendings /\ merging \in BOOLEAN /\ trouble \in 0..MaxTrouble
        /\ task.plan \in Versions
    BY Typed, TaskTyped DEF IInv
  <2>2. PICK ok \in BOOLEAN : ok = (j.verdict = "approve")
    OBVIOUS
  <2>3. [kind |-> "plan_review", plan |-> task.plan, ok |-> ok] \in Pendings
    BY <2>1, <2>2 DEF Pendings
  <2>4. pending' = pending \cup {[kind |-> "plan_review", plan |-> task.plan, ok |-> ok]}
    BY <2>2 DEF PlanReviewed
  <2>5. \A p \in pending' : p \in pending \/ p.kind = "plan_review"
    BY <2>4
  <2> QED BY <2>1, <2>3, <2>4, <2>5 DEF PlanReviewed, Books, Calm
<1> QED BY <1>1, <1>2, SteadyKeeps

LEMMA CompletePlanReviewKeeps == ASSUME IInv, NEW p \in pending, CompletePlanReview(p) PROVE IInv'
<1>1. HubSteady
  BY SameHub DEF CompletePlanReview
<1>2. plans \in Seq(Plans) /\ Len(plans) \in Nat /\ task \in TaskRows
  BY Typed DEF IInv
<1>3. CASE task.state # "ReviewingImplementationPlan" \/ task.plan # p.plan
  <2>1. UNCHANGED <<task, jobs, made, plans>>
    BY <1>3 DEF CompletePlanReview
  <2>2. Books /\ JobsMove
    BY <1>2, <2>1, FewerPending, DroppedJobs DEF CompletePlanReview
  <2> QED BY <1>1, <2>1, <2>2, SameTask, SteadyKeeps
<1>4. CASE ~(task.state # "ReviewingImplementationPlan" \/ task.plan # p.plan)
  <2>1. Books
    <3>1. PICK version, status : /\ version = p.plan
                                 /\ status = IF p.ok THEN "approved" ELSE "changes_requested"
      OBVIOUS
    <3>2. plans' = [plans EXCEPT ![version].status = status]
      BY <1>4, <3>1 DEF CompletePlanReview
    <3>3. PICK plan : plan = [plans[version] EXCEPT !.status = status]
      OBVIOUS
    <3>4. plans' = [plans EXCEPT ![version] = plan]
      BY <3>2, <3>3
    <3>5. plans' \in Seq(Plans) /\ Len(plans') = Len(plans)
      <4>1. CASE version \in 1..Len(plans)
        <5>1. plans[version] \in Plans
          BY <1>2, <4>1, ElementOfSeq
        <5>2. plan \in Plans
          BY <3>1, <3>3, <5>1 DEF Plans
        <5> QED BY <1>2, <3>4, <4>1, <5>2, ExceptSeq
      <4>2. CASE version \notin 1..Len(plans)
        <5>1. plans \in [1..Len(plans) -> Plans]
          BY <1>2, LenProperties
        <5>2. plans' = plans
          BY <3>4, <4>2, <5>1
        <5> QED BY <1>2, <5>2
      <4> QED BY <4>1, <4>2
    <3> QED BY <1>2, <3>5, FewerPending DEF CompletePlanReview
  <2>2. CASE p.ok
    <3>1. task' = [To(task, "AwaitingPlanApproval") EXCEPT !.offer.plan = made] /\ JobsMove
      BY <1>4, <2>2, DroppedJobs DEF CompletePlanReview
    <3> DEFINE row == To(task, "AwaitingPlanApproval")
    <3>2. row \in TaskRows /\ Alike(row, task) /\ row.state = "AwaitingPlanApproval"
      BY <1>2, Moved DEF States
    <3> HIDE DEF row
    <3>3. task' = [row EXCEPT !.offer.plan = made]
      BY <3>1 DEF row
    <3>4. row.offer \in Pairs /\ made \in Nat
      BY <3>2, Typed, TaskTyped, Numbers DEF IInv
    <3>5. /\ task' \in TaskRows /\ task'.state = row.state /\ task'.retry = row.retry
          /\ task'.req = row.req /\ task'.reqApproved = row.reqApproved /\ task'.plan = row.plan
          /\ task'.head = row.head /\ task'.review = row.review /\ task'.merge = row.merge
      BY <3>2, <3>3, <3>4 DEF TaskRows, Pairs
    <3>6. Steady
      BY <3>2, <3>5, SteadyTask DEF Alike, RowKept, States
    <3> QED BY <1>1, <2>1, <3>1, <3>6, SteadyKeeps
  <2>3. CASE ~p.ok /\ task.revisions.plan >= PlanRevisionLimit
    <3>1. task' = To(task, "Blocked") /\ JobsMove
      BY <1>4, <2>3, DroppedJobs DEF CompletePlanReview
    <3>2. Steady
      BY <3>1, MovedTask DEF States, STOPPED
    <3> QED BY <1>1, <2>1, <3>1, <3>2, SteadyKeeps
  <2>4. CASE ~p.ok /\ ~(task.revisions.plan >= PlanRevisionLimit)
    <3>1. /\ task' = [To(task, "PlanningImplementation") EXCEPT !.revisions.plan = @ + 1]
          /\ Enqueue(jobs, "plan", task')
      BY <1>4, <2>4 DEF CompletePlanReview
    <3> DEFINE row == To(task, "PlanningImplementation")
    <3>2. row \in TaskRows /\ Alike(row, task) /\ row.state = "PlanningImplementation"
      BY <1>2, Moved DEF States, Working
    <3> HIDE DEF row
    <3>3. task' = [row EXCEPT !.revisions.plan = @ + 1]
      BY <3>1 DEF row
    <3>4. row.revisions \in Counts /\ row.revisions.plan + 1 \in Nat
      BY <3>2, TaskTyped DEF Counts
    <3>5. /\ task' \in TaskRows /\ task'.state = row.state /\ task'.retry = row.retry
          /\ task'.req = row.req /\ task'.reqApproved = row.reqApproved /\ task'.plan = row.plan
          /\ task'.head = row.head /\ task'.review = row.review /\ task'.merge = row.merge
      BY <3>2, <3>3, <3>4 DEF TaskRows, Counts
    <3>6. Steady
      BY <3>2, <3>5, SteadyTask DEF Alike, RowKept, States, Working
    <3>7. JobsMove
      BY <3>1, <3>5, QueuedWork DEF Kinds
    <3> QED BY <1>1, <2>1, <3>6, <3>7, SteadyKeeps
  <2> QED BY <2>2, <2>3, <2>4
<1> QED BY <1>3, <1>4

-----------------------------------------------------------------------------
(* The task takes a new head                                                *)

(* A commit of a job above the head is the only one there.                  *)
LEMMA OnlyOne ==
    ASSUME IInv, NEW j, NEW k, NEW a \in 1..Tip, NEW b \in 1..Tip, NEW stage, NEW other,
           On(a, j, stage), On(b, k, other), task.head < a, task.head < b
    PROVE  a = b /\ j.id = k.id /\ stage = other
<1>1. github.log[a].key = <<j.id, stage>> /\ github.log[b].key = <<k.id, other>>
  BY DEF On
<1>2. <<j.id, stage>> # <<>> /\ <<k.id, other>> # <<>>
  BY Keyed
<1>3. a = b
  BY <1>1, <1>2 DEF IInv, Branch
<1>4. <<j.id, stage>> = <<k.id, other>>
  BY <1>1, <1>3
<1> QED BY <1>3, <1>4, Keyed

LEMMA OthersKnow ==
    ASSUME IInv, github'.log = github.log, NEW head \in 1..Tip, task'.head = head, task.head < head,
           NEW j, NEW stage \in Stages, On(head, j, stage),
           NEW k \in jobs, k.id # j.id
    PROVE  Known(k)'
<1>1. Known(k) /\ Row(k) /\ Tip' = Tip /\ k \in JobRows
  BY Typed DEF IInv, Branch, JobRowsTell, Tip
<1>2. Tip \in Nat /\ task.head \in Nat
  BY Tips, Typed, TaskTyped, Numbers DEF IInv
<1>3. \A a \in 1..Tip, other \in Stages : On(a, k, other) => ~(task.head < a)
  BY OnlyOne
<1>4. ASSUME NEW a \in 1..Tip, NEW other \in Stages, On(a, k, other)
      PROVE  /\ IF other = "plan" THEN k.kind = "plan" ELSE Implementing(k)
             /\ k.request # <<>>
             /\ Recorded(k, other) = a
  BY <1>1, <1>2, <1>3, <1>4 DEF Known
<1>5. ASSUME k.published # 0
      PROVE  k.published <= Tip /\ On(k.published, k, StageOf(k)) /\ k.published = k.pins.head
  <2>1. /\ k.published <= Tip /\ On(k.published, k, StageOf(k))
        /\ k.published > task.head \/ k.published = k.pins.head
    BY <1>1, <1>5 DEF Known
  <2>2. k.published \in 1..Tip /\ StageOf(k) \in Stages
    BY <1>1, <1>2, <1>5, <2>1, JobTyped, Numbers DEF StageOf, Stages
  <2> QED BY <1>2, <1>3, <2>1, <2>2
<1>6. k.indexed = 0
  <2>1. SUFFICES ASSUME k.indexed # 0 PROVE FALSE
    OBVIOUS
  <2>2. k.indexed <= Tip /\ On(k.indexed, k, "index") /\ k.indexed > task.head
    BY <1>1, <2>1 DEF Known
  <2>3. k.indexed \in 1..Tip /\ "index" \in Stages
    BY <1>1, <1>2, <2>1, <2>2, JobTyped, Numbers DEF Stages
  <2> QED BY <1>2, <1>3, <2>2, <2>3
<1>7. \A a \in 1..Tip', other \in Stages : On(a, k, other)' =>
         /\ IF other = "plan" THEN k.kind = "plan" ELSE Implementing(k)'
         /\ k.request # <<>>
         /\ Recorded(k, other) = a
  BY <1>1, <1>4 DEF On, Implementing
<1>8. k.published # 0 => k.published <= Tip' /\ On(k.published, k, StageOf(k))'
                         /\ k.published = k.pins.head
  BY <1>1, <1>5 DEF On, StageOf
<1> QED BY <1>6, <1>7, <1>8 DEF Known, Recorded, StageOf, Implementing

LEMMA PlannedKeeps == ASSUME IInv, NEW j \in jobs, Planned(j) PROVE IInv'
<1>1. HubSteady /\ JobsMove
  BY SameHub, DroppedJobs DEF Planned
<1>2. /\ Tables /\ task \in TaskRows /\ j \in JobRows /\ Row(j) /\ Known(j) /\ IdentityCurrent(j)
      /\ Tip \in Nat /\ task.head \in Nat /\ task.head <= Tip /\ Tip <= MaxCommits
  BY Tips, Typed, TaskTyped, Numbers DEF IInv, JobRowsTell, Branch, Planned, Current
<1>3. PICK head : head = j.published
  OBVIOUS
<1>4. head # 0 /\ head \in Commits /\ head <= Tip /\ head \in 1..Tip /\ On(head, j, "plan")
  <2>1. head # 0 /\ head \in Commits
    BY <1>2, <1>3, JobTyped DEF Planned, Row, Publishing
  <2> QED BY <1>2, <1>3, <2>1, Numbers DEF Known, StageOf, Planned
<1>5. head = task.head \/ head > task.head
  BY <1>2, <1>3, <1>4 DEF Known, IdentityCurrent
<1>6. Books
  <2>1. /\ plans \in Seq(Plans) /\ Len(plans) \in Nat /\ ledger \subseteq Grants
        /\ pending \subseteq Pendings /\ merging \in BOOLEAN /\ trouble \in 0..MaxTrouble
    BY Typed DEF IInv
  <2>2. j.id \in Texts /\ j.request.base \in Nat
    BY <1>2, JobTyped, IdentityTyped, Numbers DEF Planned, Row
  <2>3. [kind |-> "plan", hash |-> j.id, base |-> j.request.base] \in Pendings
    BY <2>2 DEF Pendings
  <2>4. \A p \in pending' : p \in pending \/ p.kind = "plan"
    BY DEF Planned
  <2> QED BY <2>1, <2>3, <2>4 DEF Planned, Books, Calm
<1>7. task' = [task EXCEPT !.head = head]
  BY <1>3 DEF Planned
<1>8. /\ task' \in TaskRows /\ task'.state = task.state /\ task'.retry = task.retry
      /\ task'.req = task.req /\ task'.reqApproved = task.reqApproved /\ task'.plan = task.plan
      /\ task'.head = head /\ task'.review = task.review /\ task'.merge = task.merge
  BY <1>2, <1>4, <1>7 DEF TaskRows
<1>9. Onwards
  BY <1>2, <1>4, <1>5, <1>8 DEF Onwards
<1>10. task'.reqApproved \/ Awaits(task') => task'.req # 0
  BY <1>8 DEF IInv, Grown, Awaits
<1>11. task'.head <= Tip /\ task'.plan <= Len(plans')
  BY <1>4, <1>8 DEF IInv, Grown, Planned
<1>12. Branch'
  <2>1. CASE head = task.head
    BY <1>1, <1>8, <1>9, <2>1, BranchKept DEF HubSteady
  <2>2. CASE head > task.head
    <3>1. ASSUME NEW k \in jobs' PROVE Known(k)'
      <4>1. k \in jobs /\ k.id # j.id
        BY DEF Planned, IInv, JobRowsTell
      <4> QED BY <1>1, <1>2, <1>4, <1>8, <2>2, <4>1, OthersKnow DEF Stages, HubSteady
    <3> QED BY <1>1, <1>9, <3>1, MovesGrow, BranchKnown DEF HubSteady
  <2> QED BY <1>5, <2>1, <2>2
<1>13. Approvals'
  BY <1>1, <1>6, <1>8, <1>9, ApprovalsKept DEF HubSteady, Books
<1> QED BY <1>1, <1>6, <1>9, <1>10, <1>11, <1>12, <1>13, MovesGrow, OnwardsKeeps

LEMMA RecordHeadKeeps == ASSUME IInv, NEW j \in jobs, RecordHead(j) PROVE IInv'
<1>1. HubSteady /\ Books
  BY SameHub, SameBooks DEF RecordHead
<1>2. /\ Tables /\ task \in TaskRows /\ j \in JobRows /\ Row(j) /\ Known(j) /\ IdentityCurrent(j)
      /\ Tip \in Nat /\ task.head \in Nat /\ task.head <= Tip /\ Tip <= MaxCommits
      /\ Implementing(j) /\ j.at = "published" /\ j.status = "running"
  BY Tips, Typed, TaskTyped, Numbers DEF IInv, JobRowsTell, Branch, RecordHead, Current
<1>3. PICK head : head = j.published
  OBVIOUS
<1>4. head # 0 /\ head \in Commits /\ head <= Tip /\ head \in 1..Tip /\ On(head, j, "implementation")
  <2>1. head # 0 /\ head \in Commits
    BY <1>2, <1>3, JobTyped DEF Row, Publishing, Implementing
  <2> QED BY <1>2, <1>3, <2>1, Numbers DEF Known, StageOf, Implementing
<1>5. head = task.head \/ (head > task.head /\ j.indexed = 0)
  BY <1>2, <1>3, <1>4 DEF Known, IdentityCurrent, Row
<1>7. task' = [task EXCEPT !.head = head]
  BY <1>3 DEF RecordHead
<1>8. /\ task' \in TaskRows /\ task'.state = task.state /\ task'.retry = task.retry
      /\ task'.req = task.req /\ task'.reqApproved = task.reqApproved /\ task'.plan = task.plan
      /\ task'.head = head /\ task'.review = task.review /\ task'.merge = task.merge
  BY <1>2, <1>4, <1>7 DEF TaskRows
<1>9. Onwards
  BY <1>2, <1>4, <1>5, <1>8 DEF Onwards
<1>10. task'.reqApproved \/ Awaits(task') => task'.req # 0
  BY <1>8 DEF IInv, Grown, Awaits
<1>11. task'.head <= Tip /\ task'.plan <= Len(plans')
  BY <1>4, <1>8 DEF IInv, Grown, RecordHead
<1>12. PICK pins, at : pins = [j.pins EXCEPT !.head = head] /\ at = "recorded"
  OBVIOUS
<1>13. PICK k : k = [j EXCEPT !.at = at, !.pins = pins]
  OBVIOUS
<1>14. jobs' = (jobs \ {j}) \cup {k} /\ made' = made
  BY <1>3, <1>12, <1>13 DEF RecordHead, Set
<1>15. /\ k \in JobRows /\ k.id = j.id /\ k.kind = j.kind /\ k.request = j.request
       /\ k.status = j.status /\ k.published = j.published /\ k.indexed = j.indexed
       /\ k.at = "recorded" /\ k.pins.head = head
  <2>1. pins \in Identities /\ pins.head = head /\ at \in Progress
    BY <1>2, <1>4, <1>12, JobTyped DEF Identities, Progress
  <2> QED BY <1>2, <1>12, <1>13, <2>1 DEF JobRows
<1>16. Row(k) /\ Similar(j, k)
  BY <1>2, <1>3, <1>4, <1>15 DEF Row, Similar, Implementing
<1>17. JobsGrow
  BY <1>14, <1>15, <1>16, LearnedJob
<1>18. Branch'
  <2>1. Tip' = Tip /\ github' = github
    BY DEF RecordHead, Tip
  <2>2. ASSUME NEW l \in jobs, l # j PROVE Known(l)'
    <3>1. l.id # j.id /\ Known(l)
      BY <2>2 DEF IInv, JobRowsTell, Branch
    <3>2. CASE head = task.head
      BY <1>8, <2>1, <3>1, <3>2 DEF Known, On
    <3>3. CASE head > task.head
      BY <1>2, <1>4, <1>8, <2>1, <3>1, <3>3, OthersKnow DEF Stages
    <3> QED BY <1>5, <3>2, <3>3
  <2>3. Known(k)'
    <3>1. \A a, stage : On(a, k, stage)' <=> On(a, j, stage)
      BY <1>15, <2>1 DEF On
    <3>2. ASSUME NEW a \in 1..Tip, NEW stage \in Stages, On(a, j, stage)
          PROVE  /\ IF stage = "plan" THEN k.kind = "plan" ELSE Implementing(k)
                 /\ k.request # <<>>
                 /\ Recorded(k, stage) = a \/ (Recorded(k, stage) = 0 /\ a > head)
      <4>1. /\ IF stage = "plan" THEN j.kind = "plan" ELSE Implementing(j)
            /\ j.request # <<>>
            /\ Recorded(j, stage) = a \/ (Recorded(j, stage) = 0 /\ a > task.head)
        BY <1>2, <3>2 DEF Known
      <4>2. CASE head = task.head
        BY <1>15, <4>1, <4>2 DEF Recorded, Implementing
      <4>3. CASE head > task.head /\ j.indexed = 0 /\ stage # "index"
        BY <1>3, <1>4, <1>15, <4>1, <4>3 DEF Recorded, Implementing
      <4>4. CASE head > task.head /\ j.indexed = 0 /\ stage = "index"
        <5>1. a > task.head
          BY <1>2, <4>1, <4>4 DEF Recorded
        <5>2. PICK other : other = "implementation"
          OBVIOUS
        <5>3. stage = other
          BY <1>2, <1>4, <3>2, <4>4, <5>1, <5>2, OnlyOne
        <5> QED BY <4>4, <5>2, <5>3
      <4> QED BY <1>5, <4>2, <4>3, <4>4
    <3>3. k.published <= Tip /\ On(k.published, j, StageOf(k)) /\ k.published = k.pins.head
      BY <1>2, <1>3, <1>4, <1>15 DEF StageOf, Implementing
    <3>4. k.indexed # 0 => k.indexed <= Tip /\ On(k.indexed, j, "index") /\ k.indexed > head
      BY <1>2, <1>5, <1>15 DEF Known
    <3>5. \A a \in 1..Tip', stage \in Stages : On(a, k, stage)' =>
             /\ IF stage = "plan" THEN k.kind = "plan" ELSE Implementing(k)'
             /\ k.request # <<>>
             /\ Recorded(k, stage)' = a \/ (Recorded(k, stage)' = 0 /\ a > task'.head)
      BY <1>8, <2>1, <3>1, <3>2 DEF Implementing, Recorded
    <3>6. k.published <= Tip' /\ On(k.published, k, StageOf(k))' /\ k.published = k.pins.head
      BY <2>1, <3>1, <3>3 DEF StageOf
    <3>7. k.indexed # 0 => k.indexed <= Tip' /\ On(k.indexed, k, "index")' /\ k.indexed > task'.head
      BY <1>8, <2>1, <3>1, <3>4
    <3> QED BY <3>5, <3>6, <3>7 DEF Known
  <2>4. \A l \in jobs' : New(l) \/ Known(l)'
    BY <1>14, <2>2, <2>3
  <2> QED BY <1>9, <1>17, <2>1, <2>4, BranchKnown
<1>19. Approvals'
  BY <1>1, <1>8, <1>9, ApprovalsKept DEF HubSteady, Books
<1> QED BY <1>1, <1>9, <1>10, <1>11, <1>17, <1>18, <1>19, OnwardsKeeps

LEMMA ImplementedKeeps == ASSUME IInv, NEW j \in jobs, Implemented(j) PROVE IInv'
<1>1. HubSteady /\ Books
  BY SameHub, SameBooks DEF Implemented
<1>2. /\ Tables /\ task \in TaskRows /\ j \in JobRows /\ Row(j) /\ Known(j)
      /\ Tip \in Nat /\ task.head \in Nat /\ task.head <= Tip /\ Tip <= MaxCommits
  BY Tips, Typed, TaskTyped, Numbers DEF IInv, JobRowsTell, Branch
<1>3. PICK head : head = j.indexed
  OBVIOUS
<1>4. head # 0 /\ head \in Commits /\ head \in 1..Tip /\ On(head, j, "index") /\ head > task.head
  <2>1. head # 0 /\ head \in Commits
    BY <1>2, <1>3, JobTyped DEF Row, Implemented
  <2> QED BY <1>2, <1>3, <2>1, Numbers DEF Known
<1> DEFINE row == To(task, "Reviewing")
<1> DEFINE bare == Unapproved(row)
<1>5. row \in TaskRows /\ Alike(row, task) /\ row.state = "Reviewing"
  BY <1>2, Moved DEF States, Working
<1> HIDE DEF row
<1>6. /\ bare \in TaskRows /\ bare.state = row.state
      /\ bare.req = row.req /\ bare.reqApproved = row.reqApproved /\ bare.plan = row.plan
      /\ bare.head = row.head /\ bare.retry = row.retry
      /\ bare.review = None /\ bare.merge = None
  BY <1>5, Unapproving
<1>7. task' = [bare EXCEPT !.head = head] /\ Enqueue(jobs \ {j}, "review", task')
  BY <1>3 DEF Implemented, row
<1> HIDE DEF bare
<1>8. /\ task' \in TaskRows /\ task'.state = "Reviewing" /\ task'.retry = task.retry
      /\ task'.req = task.req /\ task'.reqApproved = task.reqApproved /\ task'.plan = task.plan
      /\ task'.head = head /\ task'.review = None /\ task'.merge = None
  <2>1. /\ task' \in TaskRows /\ task'.state = bare.state /\ task'.retry = bare.retry
        /\ task'.req = bare.req /\ task'.reqApproved = bare.reqApproved /\ task'.plan = bare.plan
        /\ task'.head = head /\ task'.review = bare.review /\ task'.merge = bare.merge
    BY <1>4, <1>6, <1>7 DEF TaskRows
  <2> QED BY <1>5, <1>6, <2>1 DEF Alike
<1>9. Onwards
  BY <1>2, <1>4, <1>8 DEF Onwards
<1>10. task'.req # 0 /\ task'.head # 0
  BY <1>2, <1>4, <1>8 DEF IInv, Grown
<1>11. task'.head <= Tip /\ task'.plan <= Len(plans')
  BY <1>4, <1>8 DEF IInv, Grown, Implemented
<1>12. JobsMove /\ \A k \in jobs' : New(k) \/ k \in jobs \ {j}
  BY <1>7, <1>9, <1>10, QueuedReview
<1>13. Branch'
  <2>1. ASSUME NEW k \in jobs \ {j} PROVE Known(k)'
    <3>1. k.id # j.id
      BY <2>1 DEF IInv, JobRowsTell
    <3> QED BY <1>1, <1>2, <1>4, <1>8, <3>1, OthersKnow DEF Stages, HubSteady
  <2> QED BY <1>1, <1>9, <1>12, <2>1, MovesGrow, BranchKnown DEF HubSteady
<1>14. Approvals'
  BY <1>1, <1>8, <1>9, ApprovalsKept DEF HubSteady, Books
<1> QED BY <1>1, <1>9, <1>10, <1>11, <1>12, <1>13, <1>14, MovesGrow, OnwardsKeeps

LEMMA ReconcileHeadKeeps == ASSUME IInv, ReconcileHead PROVE IInv'
<1>1. HubSteady /\ Books
  BY SameHub, SameBooks DEF ReconcileHead
<1>2. /\ Tables /\ task \in TaskRows
      /\ Tip \in Nat /\ task.head \in Nat /\ task.head <= Tip /\ Tip <= MaxCommits
  BY Tips, Typed, TaskTyped, Numbers DEF IInv
<1>3. PICK head : head = Tip
  OBVIOUS
<1>4. head # 0 /\ head \in Commits /\ head <= Tip /\ head > task.head
  BY <1>2, <1>3, WorkflowV2Assumption
     DEF Commits, ReconcileHead, Unmerged, Confirmed, Reconciled
<1> DEFINE row == To(task, "Reviewing")
<1> DEFINE bare == Unapproved(row)
<1>5. row \in TaskRows /\ Alike(row, task) /\ row.state = "Reviewing"
  BY <1>2, Moved DEF States, Working
<1> HIDE DEF row
<1>6. /\ bare \in TaskRows /\ bare.state = row.state
      /\ bare.req = row.req /\ bare.reqApproved = row.reqApproved /\ bare.plan = row.plan
      /\ bare.head = row.head /\ bare.retry = row.retry
      /\ bare.review = None /\ bare.merge = None
  BY <1>5, Unapproving
<1>7. task' = [bare EXCEPT !.head = head] /\ Enqueue(Kept, "review", task')
  BY <1>3 DEF ReconcileHead, row, Invalidated
<1> HIDE DEF bare
<1>8. /\ task' \in TaskRows /\ task'.state = "Reviewing" /\ task'.retry = task.retry
      /\ task'.req = task.req /\ task'.reqApproved = task.reqApproved /\ task'.plan = task.plan
      /\ task'.head = head /\ task'.review = None /\ task'.merge = None
  <2>1. /\ task' \in TaskRows /\ task'.state = bare.state /\ task'.retry = bare.retry
        /\ task'.req = bare.req /\ task'.reqApproved = bare.reqApproved /\ task'.plan = bare.plan
        /\ task'.head = head /\ task'.review = bare.review /\ task'.merge = bare.merge
    BY <1>4, <1>6, <1>7 DEF TaskRows
  <2> QED BY <1>5, <1>6, <2>1 DEF Alike
<1>9. Onwards
  BY <1>2, <1>3, <1>4, <1>8 DEF Onwards
<1>10. task'.req # 0 /\ task'.head # 0
  BY <1>2, <1>3, <1>4, <1>8 DEF IInv, Grown
<1>11. task'.head <= Tip /\ task'.plan <= Len(plans')
  BY <1>4, <1>8 DEF IInv, Grown, ReconcileHead
<1>12. JobsMove /\ \A k \in jobs' : New(k) \/ (k \in jobs /\ k.status = "proposed")
  <2>1. Kept \subseteq jobs /\ \A k \in Kept : ~Open(k)
    BY DEF Kept
  <2> QED BY <1>7, <1>9, <1>10, <2>1, QueuedReview
<1>13. Branch'
  <2>1. ASSUME NEW k \in jobs, k.status = "proposed" PROVE Known(k)'
    <3>1. k.kind = "draft" /\ Known(k) /\ Row(k)
      BY <2>1 DEF IInv, JobRowsTell, Row, Branch
    <3>2. k.published = 0 /\ k.indexed = 0
      BY <3>1 DEF Row, Publishing, Implementing
    <3>3. \A a \in 1..Tip, stage \in Stages : ~On(a, k, stage)
      BY <3>1 DEF Known, Implementing
    <3>4. \A a \in 1..Tip', stage \in Stages : ~On(a, k, stage)'
      BY <3>3 DEF On, Tip, ReconcileHead
    <3> QED BY <3>2, <3>4 DEF Known
  <2> QED BY <1>1, <1>9, <1>12, <2>1, MovesGrow, BranchKnown DEF HubSteady
<1>14. Approvals'
  BY <1>1, <1>8, <1>9, ApprovalsKept DEF HubSteady, Books
<1> QED BY <1>1, <1>9, <1>10, <1>11, <1>12, <1>13, <1>14, MovesGrow, OnwardsKeeps

-----------------------------------------------------------------------------
(* The review and the approvals                                             *)

LEMMA GrantedBooks ==
    ASSUME IInv, UNCHANGED <<plans, pending, merging>>, Calm \/ Troubled,
           ledger \subseteq ledger', ledger' \subseteq Grants
    PROVE  Books
<1>1. trouble' \in 0..MaxTrouble
  BY Typed, WorkflowV2Assumption DEF IInv, Calm, Troubled
<1> QED BY <1>1, Typed DEF IInv, Books

LEMMA ApprovalsGiven ==
    ASSUME IInv, Onwards, github'.log = github.log, ledger \subseteq ledger',
           NEW review, NEW merge, task'.review = review, task'.merge = merge,
           review \in {None, task.review} \/ Approved(review)',
           merge \in {None, task.merge} \/ Has("merge", merge)'
    PROVE  Approvals'
<1>1. Approvals /\ task.review \in Identities
  BY Typed, TaskTyped DEF IInv
<1>2. \A target : Has("merge", target) => Has("merge", target)'
  BY DEF Has
<1>3. merge # None => Has("merge", merge)'
  BY <1>1, <1>2 DEF Approvals
<1>4. ASSUME review # None PROVE Approved(review)'
  <2>1. CASE review = task.review
    <3>1. Approved(review) /\ review \in Identities
      BY <1>1, <1>4, <2>1 DEF Approvals
    <3> QED BY <3>1, ApprovedStill
  <2>2. CASE Approved(review)'
    BY <2>2
  <2> QED BY <1>4, <2>1, <2>2
<1> QED BY <1>3, <1>4 DEF Approvals

LEMMA ReadyForReviewKeeps == ASSUME IInv, NEW j \in jobs, ReadyForReview(j) PROVE IInv'
<1>1. Steady /\ Books
  BY SameTask, SameBooks DEF ReadyForReview
<1>2. /\ task \in TaskRows /\ j \in JobRows /\ Row(j) /\ Known(j) /\ IdentityCurrent(j)
      /\ Tip \in Nat /\ task.head \in Nat /\ j.status = "running" /\ j.at = "indexed"
  BY Tips, Typed, TaskTyped, Numbers DEF IInv, JobRowsTell, Branch, ReadyForReview, Current
<1>3. /\ Implementing(j) /\ j.published # 0 /\ j.published = j.pins.head /\ j.indexed # 0
      /\ j.request # <<>>
  BY <1>2 DEF Row
<1>4. task.head = j.published /\ On(task.head, j, "implementation") /\ task.head # 0
  BY <1>2, <1>3 DEF IdentityCurrent, Known, StageOf, Implementing
<1>5. \E a \in 1..task.head : Implementation(a)
  <2>1. j.id \in JobIds
    BY <1>2, JobTyped
  <2>2. task.head \in 1..task.head
    BY <1>2, <1>4
  <2> QED BY <1>4, <2>1, <2>2 DEF Implementation, On
<1>6. HubSteady
  <2>1. github' \in Hubs /\ github'.log = github.log /\ github'.pr = github.pr
        /\ github'.merged = github.merged
    BY DEF IInv, Hubs, ReadyForReview
  <2> QED BY <1>5, <2>1 DEF HubSteady
<1>7. JobsMove
  <2>1. PICK at : at = "ready"
    OBVIOUS
  <2> QED BY <1>2, <1>3, <2>1, JobsAt DEF ReadyForReview, Progress
<1> QED BY <1>1, <1>6, <1>7, SteadyKeeps

LEMMA PostReviewKeeps == ASSUME IInv, NEW j \in jobs, PostReview(j) PROVE IInv'
<1>1. Books
  BY SameBooks DEF PostReview
<1>2. CASE ~(github.body = task.req /\ Tip = j.request.head /\ github.base = j.request.base)
  BY <1>1, <1>2, SameHub, FailedJob, SteadyKeeps DEF PostReview
<1>3. CASE github.body = task.req /\ Tip = j.request.head /\ github.base = j.request.base
  <2>1. /\ j \in JobRows /\ Row(j) /\ j.status = "running" /\ j.at = "result" /\ j.request # <<>>
        /\ j.kind = "review"
    BY Typed DEF IInv, JobRowsTell, PostReview, Current, Row
  <2>2. JobsMove
    <3>1. PICK at : at = "published"
      OBVIOUS
    <3> QED BY <1>3, <2>1, <3>1, JobsAt DEF PostReview, Progress, Publishing
  <2>3. Steady
    BY <1>3, SameTask DEF PostReview
  <2>4. HubSteady
    <3>1. CASE github' = github
      BY <3>1, SameHub
    <3>2. CASE github' # github
      <4>1. PICK ok \in BOOLEAN : ok = (j.verdict = "approve")
        OBVIOUS
      <4>2. PICK review : review = [head |-> j.request.head, ok |-> ok]
        OBVIOUS
      <4>3. github' = [github EXCEPT !.review = review]
        BY <1>3, <3>2, <4>1, <4>2 DEF PostReview
      <4>4. review \in [head: Commits, ok: BOOLEAN]
        BY <2>1, <4>2, JobTyped, IdentityTyped
      <4>5. github' \in Hubs /\ github'.log = github.log /\ github'.pr = github.pr
            /\ github'.draft = github.draft /\ github'.merged = github.merged
        BY <4>3, <4>4 DEF IInv, Hubs
      <4> QED BY <4>5 DEF HubSteady
    <3> QED BY <3>1, <3>2
  <2> QED BY <1>1, <2>2, <2>3, <2>4, SteadyKeeps
<1> QED BY <1>2, <1>3

(* An approval names what the task is; it is in the ledger for that, unless
   the review was asked for before there was a plan.                        *)
LEMMA ReviewTold ==
    ASSUME IInv, NEW j \in jobs, j.kind = "review", IdentityCurrent(j), j.request # <<>>,
           NEW review, review = [Identity EXCEPT !.head = j.request.head, !.base = j.request.base]
    PROVE  /\ review \in Identities /\ review.head <= task.head
           /\ Has("requirements", [None EXCEPT !.req = review.req])
           /\ review = j.request \/ Unplanned(review.head)
<1>1. Pinned(j) /\ j \in JobRows /\ j.request \in Identities /\ task \in TaskRows
      /\ Identity \in Identities
  BY Typed, JobTyped, IdentityNow DEF IInv, Reviews
<1>2. /\ review \in Identities /\ review.req = task.req /\ review.plan = task.plan
      /\ review.head = j.request.head /\ review.base = j.request.base
  BY <1>1 DEF Identities, Identity
<1>3. /\ j.request.req = task.req /\ j.request.head = j.pins.head /\ j.pins.head <= task.head
      /\ j.pins.plan # 0 => j.request.plan = task.plan
      /\ Has("requirements", [None EXCEPT !.req = j.request.req])
  BY <1>1 DEF Pinned, IdentityCurrent
<1>4. PICK req : req = review.req /\ req = j.request.req
  BY <1>2, <1>3
<1>5. Has("requirements", [None EXCEPT !.req = review.req])
  BY <1>3, <1>4
<1>6. CASE j.pins.plan # 0
  <2>1. review = j.request
    <3>1. \A a, b \in Identities :
             a.req = b.req /\ a.plan = b.plan /\ a.base = b.base /\ a.head = b.head => a = b
      BY DEF Identities
    <3> QED BY <1>1, <1>2, <1>3, <1>6, <3>1
  <2> QED BY <1>2, <1>3, <1>5, <2>1
<1>7. CASE j.pins.plan = 0
  BY <1>2, <1>3, <1>5, <1>7 DEF IInv, Works
<1> QED BY <1>6, <1>7

LEMMA FinishReviewKeeps == ASSUME IInv, NEW j \in jobs, FinishReview(j) PROVE IInv'
<1>1. HubSteady
  BY SameHub DEF FinishReview
<1>2. /\ task \in TaskRows /\ j \in JobRows /\ Row(j) /\ IdentityCurrent(j) /\ j.kind = "review"
      /\ j.request # <<>> /\ j.request \in Identities /\ ledger \subseteq Grants
  BY Typed, JobTyped DEF IInv, JobRowsTell, FinishReview, Current, Row
<1>3. Books
  <2>1. Reviewed(j) \in Grants
    BY <1>2 DEF Reviewed, Grants
  <2>2. ledger \subseteq ledger' /\ ledger' \subseteq Grants
    BY <1>2, <2>1 DEF FinishReview
  <2> QED BY <2>2, GrantedBooks DEF FinishReview
<1>4. CASE j.verdict = "approve"
  <2>1. PICK review : review = [Identity EXCEPT !.head = j.request.head, !.base = j.request.base]
    OBVIOUS
  <2>2. /\ review \in Identities /\ review.head <= task.head
        /\ Has("requirements", [None EXCEPT !.req = review.req])
        /\ review = j.request \/ Unplanned(review.head)
    BY <1>2, <2>1, ReviewTold
  <2> DEFINE row == To(task, "AwaitingChecks")
  <2>3. row \in TaskRows /\ Alike(row, task) /\ row.state = "AwaitingChecks"
    BY <1>2, Moved DEF States, Gated
  <2>4. task' = [row EXCEPT !.review = review] /\ JobsMove /\ ledger' = ledger \cup {Reviewed(j)}
    BY <1>4, <2>1, DroppedJobs DEF FinishReview
  <2> HIDE DEF row
  <2>5. /\ task' \in TaskRows /\ task'.state = "AwaitingChecks" /\ task'.retry = row.retry
        /\ task'.req = row.req /\ task'.reqApproved = row.reqApproved /\ task'.plan = row.plan
        /\ task'.head = row.head /\ task'.review = review /\ task'.merge = row.merge
    BY <2>2, <2>3, <2>4 DEF TaskRows
  <2>6. /\ task'.retry = task.retry
        /\ task'.req = task.req /\ task'.reqApproved = task.reqApproved /\ task'.plan = task.plan
        /\ task'.head = task.head /\ task'.merge = task.merge
    BY <2>3, <2>5 DEF Alike
  <2>7. /\ task.head <= Tip /\ task.head \in Nat /\ task.plan <= Len(plans) /\ plans' = plans
        /\ task.reqApproved \/ task.retry = "AwaitingRequirementsConfirmation" => task.req # 0
    BY IdentityNow DEF IInv, Grown, FinishReview
  <2>8. /\ Onwards /\ task'.head <= Tip /\ task'.plan <= Len(plans')
        /\ task'.reqApproved \/ Awaits(task') => task'.req # 0
    BY <2>5, <2>6, <2>7 DEF Onwards, Awaits
  <2>9. Approved(review)'
    <3>1. Has("requirements", [None EXCEPT !.req = review.req])'
      BY <2>2, <2>4 DEF Has
    <3>2. Has("review", j.request)'
      <4>1. PICK grant : grant = Reviewed(j)
        OBVIOUS
      <4>2. grant.stage = "review" /\ grant.target = j.request /\ grant \in ledger'
        BY <2>4, <4>1 DEF Reviewed
      <4> QED BY <4>2 DEF Has
    <3>3. Unplanned(review.head) => Unplanned(review.head)'
      BY DEF Unplanned, Implementation, Tip, FinishReview
    <3>4. Has("review", review)' \/ Unplanned(review.head)'
      BY <2>2, <3>2, <3>3
    <3> QED BY <2>2, <2>6, <3>1, <3>4 DEF Approved
  <2>10. Approvals'
    <3>1. PICK merge : merge = task.merge
      OBVIOUS
    <3> QED BY <1>1, <1>3, <2>5, <2>6, <2>8, <2>9, <3>1, ApprovalsGiven DEF HubSteady, Books
  <2>11. Branch'
    BY <1>1, <2>4, <2>6, <2>8, BranchKept DEF HubSteady
  <2> QED BY <1>1, <1>3, <2>4, <2>8, <2>10, <2>11, MovesGrow, OnwardsKeeps
<1>5. CASE /\ j.verdict = "request_changes" /\ j.verdict # "approve"
           /\ task.revisions.fix < ImplementationRevisionLimit
  <2> DEFINE row == To(task, "Fixing")
  <2>1. row \in TaskRows /\ Alike(row, task) /\ row.state = "Fixing"
    BY <1>2, Moved DEF States, Working
  <2>2. task' = [row EXCEPT !.revisions.fix = @ + 1] /\ Enqueue(jobs \ {j}, "fix", task')
    BY <1>5 DEF FinishReview
  <2> HIDE DEF row
  <2>3. row.revisions \in Counts /\ row.revisions.fix + 1 \in Nat
    BY <2>1, TaskTyped DEF Counts
  <2>4. /\ task' \in TaskRows /\ task'.state = row.state /\ task'.retry = row.retry
        /\ task'.req = row.req /\ task'.reqApproved = row.reqApproved /\ task'.plan = row.plan
        /\ task'.head = row.head /\ task'.review = row.review /\ task'.merge = row.merge
    BY <2>1, <2>2, <2>3 DEF TaskRows, Counts
  <2>5. Steady
    BY <2>1, <2>4, SteadyTask DEF Alike, RowKept, States, Working
  <2>6. JobsMove
    BY <2>2, <2>4, QueuedWork DEF Kinds
  <2> QED BY <1>1, <1>3, <2>5, <2>6, SteadyKeeps
<1>6. CASE ~(j.verdict = "approve" \/ (/\ j.verdict = "request_changes"
                                       /\ task.revisions.fix < ImplementationRevisionLimit))
  <2>1. task' = To(task, "Blocked") /\ jobs' = jobs \ {j} /\ made' = made
    BY <1>6 DEF FinishReview
  <2>2. Steady /\ JobsMove
    BY <2>1, MovedTask, DroppedJobs DEF States, STOPPED
  <2> QED BY <1>1, <1>3, <2>2, SteadyKeeps
<1> QED BY <1>4, <1>5, <1>6

-----------------------------------------------------------------------------
(* The owner's commands                                                     *)

LEMMA ApproveRequirementsKeeps == ASSUME IInv, ApproveRequirements PROVE IInv'
<1>1. HubSteady
  BY SameHub DEF ApproveRequirements
<1>2. task \in TaskRows /\ task.offer \in Pairs /\ task.req \in Texts /\ ledger \subseteq Grants
  BY Typed, TaskTyped DEF IInv
<1>3. Books
  <2>1. [None EXCEPT !.req = task.req] \in Identities
    BY <1>2, NoneTyped DEF Identities
  <2>2. PICK target \in Identities : target = [None EXCEPT !.req = task.req]
    BY <2>1
  <2>3. [stage |-> "requirements", id |-> task.offer.req, target |-> target] \in Grants
    BY <1>2 DEF Grants, Pairs
  <2>4. ledger \subseteq ledger' /\ ledger' \subseteq Grants
    BY <1>2, <2>2, <2>3 DEF ApproveRequirements
  <2> QED BY <2>4, GrantedBooks DEF ApproveRequirements
<1> DEFINE row == To(task, "PlanningImplementation")
<1>4. row \in TaskRows /\ Alike(row, task) /\ row.state = "PlanningImplementation"
  BY <1>2, Moved DEF States, Working
<1>5. /\ task' = [row EXCEPT !.reqApproved = TRUE, !.approval.req = task.offer.req]
      /\ Enqueue(jobs, "plan", task')
  BY DEF ApproveRequirements
<1> HIDE DEF row
<1>6. row.approval \in Pairs /\ task.offer.req \in Nat
  BY <1>2, <1>4, TaskTyped DEF Pairs
<1>7. /\ task' \in TaskRows /\ task'.state = row.state /\ task'.retry = row.retry
      /\ task'.req = row.req /\ task'.plan = row.plan
      /\ task'.head = row.head /\ task'.review = row.review /\ task'.merge = row.merge
  BY <1>4, <1>5, <1>6 DEF TaskRows, Pairs
<1>8. Steady
  BY <1>4, <1>7 DEF Alike, Steady, IInv, Grown, ApproveRequirements
<1>9. JobsMove
  BY <1>5, <1>7, QueuedWork DEF Kinds
<1> QED BY <1>1, <1>3, <1>8, <1>9, SteadyKeeps

LEMMA ApprovePlanKeeps == ASSUME IInv, ApprovePlan PROVE IInv'
<1>1. HubSteady
  BY SameHub DEF ApprovePlan
<1>2. /\ task \in TaskRows /\ task.offer \in Pairs /\ task.plan \in Versions /\ ledger \subseteq Grants
      /\ plans \in Seq(Plans) /\ Len(plans) \in Nat
  BY Typed, TaskTyped DEF IInv
<1>3. Books
  <2>1. plans[task.plan].base \in Nat
    <3>1. task.plan \in 1..Len(plans)
      BY <1>2, Numbers DEF IInv, Grown, ApprovePlan
    <3>2. plans[task.plan] \in Plans
      BY <1>2, <3>1, ElementOfSeq
    <3> QED BY <3>2 DEF Plans
  <2>2. [None EXCEPT !.plan = task.plan, !.base = plans[task.plan].base] \in Identities
    BY <1>2, <2>1, NoneTyped DEF Identities
  <2>3. PICK target \in Identities :
           target = [None EXCEPT !.plan = task.plan, !.base = plans[task.plan].base]
    BY <2>2
  <2>4. [stage |-> "plan", id |-> task.offer.plan, target |-> target] \in Grants
    BY <1>2 DEF Grants, Pairs
  <2>5. ledger \subseteq ledger' /\ ledger' \subseteq Grants
    BY <1>2, <2>3, <2>4 DEF ApprovePlan
  <2> QED BY <2>5, GrantedBooks DEF ApprovePlan
<1> DEFINE row == To(task, "Queued")
<1>4. row \in TaskRows /\ Alike(row, task) /\ row.state = "Queued"
  BY <1>2, Moved DEF States, Working
<1>5. task' = [row EXCEPT !.approval.plan = task.offer.plan] /\ Enqueue(jobs, "implement", task')
  BY DEF ApprovePlan
<1> HIDE DEF row
<1>6. row.approval \in Pairs /\ task.offer.plan \in Nat
  BY <1>2, <1>4, TaskTyped DEF Pairs
<1>7. /\ task' \in TaskRows /\ task'.state = row.state /\ task'.retry = row.retry
      /\ task'.req = row.req /\ task'.reqApproved = row.reqApproved /\ task'.plan = row.plan
      /\ task'.head = row.head /\ task'.review = row.review /\ task'.merge = row.merge
  BY <1>4, <1>5, <1>6 DEF TaskRows, Pairs
<1>8. Steady
  BY <1>4, <1>7, SteadyTask DEF Alike, RowKept, States, Working
<1>9. JobsMove
  BY <1>5, <1>7, QueuedWork DEF Kinds
<1> QED BY <1>1, <1>3, <1>8, <1>9, SteadyKeeps

LEMMA ApproveMergeKeeps == ASSUME IInv, ApproveMerge PROVE IInv'
<1>1. HubSteady /\ JobsMove
  BY SameHub, DroppedJobs DEF ApproveMerge
<1>2. task \in TaskRows /\ Identity \in Identities /\ ledger \subseteq Grants
  BY Typed, IdentityNow DEF IInv
<1>3. PICK target \in Identities : target = Identity
  BY <1>2
<1>4. PICK grant : grant = [stage |-> "merge", id |-> 0, target |-> target]
  OBVIOUS
<1>5. ledger' = ledger \cup {grant} /\ grant \in Grants
  BY <1>3, <1>4 DEF ApproveMerge, Grants
<1>6. Books
  BY <1>2, <1>5, GrantedBooks DEF ApproveMerge
<1> DEFINE row == To(task, "ReadyToMerge")
<1>7. row \in TaskRows /\ Alike(row, task) /\ row.state = "ReadyToMerge"
  BY <1>2, Moved DEF States, Gated
<1>8. task' = [row EXCEPT !.merge = target, !.mergeLive = TRUE]
  BY <1>3 DEF ApproveMerge
<1> HIDE DEF row
<1>9. /\ task' \in TaskRows /\ task'.state = row.state /\ task'.retry = row.retry
      /\ task'.req = row.req /\ task'.reqApproved = row.reqApproved /\ task'.plan = row.plan
      /\ task'.head = row.head /\ task'.review = row.review /\ task'.merge = target
  BY <1>7, <1>8 DEF TaskRows
<1>10. /\ task.head <= Tip /\ task.head \in Nat /\ task.plan <= Len(plans) /\ plans' = plans
       /\ task.reqApproved \/ task.retry = "AwaitingRequirementsConfirmation" => task.req # 0
  BY IdentityNow DEF IInv, Grown, ApproveMerge
<1>11. /\ Onwards /\ task'.head <= Tip /\ task'.plan <= Len(plans') /\ task'.head = task.head
       /\ task'.reqApproved \/ Awaits(task') => task'.req # 0
  BY <1>7, <1>9, <1>10 DEF Onwards, Awaits, Alike
<1>12. Has("merge", target)'
  BY <1>4, <1>5 DEF Has
<1>13. Approvals'
  <2>1. PICK review : review = task.review
    OBVIOUS
  <2>2. task'.review = review
    BY <1>7, <1>9, <2>1 DEF Alike
  <2> QED BY <1>1, <1>6, <1>9, <1>11, <1>12, <2>1, <2>2, ApprovalsGiven DEF HubSteady, Books
<1>14. Branch'
  BY <1>1, <1>11, BranchKept DEF HubSteady
<1> QED BY <1>1, <1>6, <1>11, <1>13, <1>14, MovesGrow, OnwardsKeeps

LEMMA AnswerImplementationKeeps == ASSUME IInv, AnswerImplementation PROVE IInv'
<1>1. HubSteady /\ Books
  BY SameHub, GrantedBooks, Typed DEF IInv, AnswerImplementation
<1>2. PICK j \in jobs : /\ j.status = "asked" /\ Enqueue(jobs, j.kind, task')
                        /\ task' = To(task, IF j.kind = "implement" THEN "Queued" ELSE "Fixing")
  BY DEF AnswerImplementation
<1>3. PICK state : state = IF j.kind = "implement" THEN "Queued" ELSE "Fixing"
  OBVIOUS
<1>4. Steady
  BY <1>2, <1>3, MovedTask DEF States, Working
<1>5. Implementing(j)
  BY <1>2 DEF IInv, JobRowsTell, Row
<1>6. JobsMove
  BY <1>2, <1>4, <1>5, QueuedWork DEF Kinds, Implementing, Steady
<1> QED BY <1>1, <1>4, <1>6, SteadyKeeps

(* Back to an earlier phase, without approvals.                             *)
LEMMA ReopenedTask ==
    ASSUME IInv, NEW state \in States \ {"AwaitingRequirementsConfirmation"}, NEW approval \in Pairs,
           task' = [Invalidated(To(task, state)) EXCEPT !.approval = approval]
    PROVE  Steady
<1> DEFINE row == To(task, state)
<1> DEFINE bare == Unapproved(row)
<1>1. task \in TaskRows
  BY Typed DEF IInv
<1>2. row \in TaskRows /\ Alike(row, task) /\ row.state = state
  BY <1>1, Moved
<1>3. task' = [bare EXCEPT !.approval = approval]
  BY DEF Invalidated
<1> HIDE DEF row
<1>4. /\ bare \in TaskRows /\ bare.state = row.state
      /\ bare.req = row.req /\ bare.reqApproved = row.reqApproved /\ bare.plan = row.plan
      /\ bare.head = row.head /\ bare.retry = row.retry
      /\ bare.review = None /\ bare.merge = None
  BY <1>2, Unapproving
<1> HIDE DEF bare
<1>5. /\ task' \in TaskRows /\ task'.state = bare.state /\ task'.retry = bare.retry
      /\ task'.req = bare.req /\ task'.reqApproved = bare.reqApproved /\ task'.plan = bare.plan
      /\ task'.head = bare.head /\ task'.review = bare.review /\ task'.merge = bare.merge
  BY <1>3, <1>4 DEF TaskRows, Pairs
<1> QED BY <1>2, <1>4, <1>5, SteadyTask DEF Alike, RowKept

LEMMA ReviseKeeps == ASSUME IInv, Revise PROVE IInv'
<1>1. HubSteady /\ Books
  BY SameHub, SameBooks DEF Revise
<1>2. Steady
  <2>1. PICK approval : approval = [req |-> 0, plan |-> 0]
    OBVIOUS
  <2> QED BY <2>1, ReopenedTask DEF Revise, States, Working, Pairs
<1>3. JobsMove
  <2>1. PICK pins : pins = [Identity EXCEPT !.plan = 0, !.head = 0]
    OBVIOUS
  <2>2. pins \in Identities
    BY <2>1, IdentityNow, Numbers DEF Identities
  <2>3. EnqueuePinned(Kept, "draft", pins) /\ Kept \subseteq jobs
    BY <2>1 DEF Revise, Kept
  <2> QED BY <2>2, <2>3, QueuedJob DEF Kinds
<1> QED BY <1>1, <1>2, <1>3, SteadyKeeps

LEMMA StopKeeps == ASSUME IInv, NEW state \in {"Paused", "Cancelled"}, Stop(state) PROVE IInv'
<1>1. HubSteady /\ Books
  BY SameHub, SameBooks DEF Stop
<1>2. Steady
  BY MovedTask DEF Stop, States, STOPPED
<1>3. JobsMove
  BY DroppedJobs DEF Stop, Kept
<1> QED BY <1>1, <1>2, <1>3, SteadyKeeps

LEMMA RestartKeeps == ASSUME IInv, Restart, Calm PROVE IInv'
<1>1. HubSteady /\ Books
  BY SameHub, SameBooks DEF Restart
<1>2. PICK state : state = IF task.head # 0 THEN "Reviewing" ELSE "Clarifying"
  OBVIOUS
<1>3. task' = To(task, state) /\ state \in States \ {"AwaitingRequirementsConfirmation"}
  BY <1>2 DEF Restart, States, Working
<1>4. Steady
  BY <1>3, MovedTask
<1>5. CASE task.head # 0
  <2>1. Enqueue(jobs, "review", task')
    BY <1>5 DEF Restart
  <2>2. Onwards /\ task'.req # 0 /\ task'.head # 0
    <3>1. task.req # 0 /\ Tip \in Nat /\ task.head \in Nat
      BY <1>5, IdentityNow, Tips DEF IInv, Grown
    <3> QED BY <1>4, <1>5, <3>1 DEF Steady, Onwards
  <2>3. JobsMove
    BY <2>1, <2>2, QueuedReview
  <2> QED BY <1>1, <1>4, <2>3, SteadyKeeps
<1>6. CASE task.head = 0
  <2>1. Enqueue(jobs, "clarify", task')
    BY <1>6 DEF Restart
  <2>2. JobsMove
    BY <1>4, <2>1, QueuedWork DEF Kinds, Steady
  <2> QED BY <1>1, <1>4, <2>2, SteadyKeeps
<1> QED BY <1>5, <1>6

LEMMA RetryProposalKeeps == ASSUME IInv, RetryProposal PROVE IInv'
<1>1. HubSteady /\ Books
  BY SameHub, SameBooks DEF RetryProposal
<1>2. PICK j \in jobs : j.status = "proposed" /\ Set(j, [j EXCEPT !.status = "queued"])
  BY DEF RetryProposal
<1>3. JobsMove
  <2>1. j.at = "start"
    BY <1>2 DEF IInv, JobRowsTell, Row
  <2> QED BY <1>2, <2>1, JobsStatus DEF Set, JobStatuses, RetryProposal
<1>4. Steady
  BY MovedTask DEF RetryProposal, States, Working
<1> QED BY <1>1, <1>3, <1>4, SteadyKeeps

LEMMA RetryFailedKeeps == ASSUME IInv, RetryFailed PROVE IInv'
<1>1. HubSteady /\ Books
  BY SameHub, SameBooks DEF RetryFailed
<1>2. PICK j \in jobs :
         /\ j.id = made /\ j.status = "failed" /\ Set(j, [j EXCEPT !.status = "queued"])
         /\ task' = [To(task, IF task.retry # "none" THEN task.retry ELSE RetryState(j.kind))
                       EXCEPT !.retry = "none"]
  BY DEF RetryFailed
<1>3. j \in JobRows /\ Row(j) /\ j.kind \in Kinds /\ task \in TaskRows
  BY Typed, JobTyped DEF IInv, JobRowsTell
<1>4. JobsMove
  BY <1>2, <1>3, JobsStatus DEF Row, Set, JobStatuses, RetryFailed
<1>5. Steady
  <2>1. PICK state, retry : /\ state = IF task.retry # "none" THEN task.retry ELSE RetryState(j.kind)
                            /\ retry = "none"
    OBVIOUS
  <2>2. j.kind \in Kinds \ {"clarify"}
    BY <1>2, <1>3 DEF Row
  <2>3. RetryState(j.kind) \in Working
    BY <2>2 DEF RetryState, Working, Kinds
  <2>4. /\ state \in States /\ retry \in States \cup {"none"}
        /\ state # "AwaitingRequirementsConfirmation" \/ task.req # 0
        /\ retry # "AwaitingRequirementsConfirmation"
    BY <1>3, <2>1, <2>3, TaskTyped DEF IInv, Grown, States, Working
  <2> QED BY <1>2, <2>1, <2>4, RetryTask
<1> QED BY <1>1, <1>4, <1>5, SteadyKeeps

-----------------------------------------------------------------------------
(* Reconciliation and merge                                                 *)

LEMMA OtherBooks ==
    ASSUME IInv, UNCHANGED <<plans, ledger>>, pending' \subseteq pending, merging' \in BOOLEAN,
           Calm \/ Troubled
    PROVE  Books
<1>1. trouble' \in 0..MaxTrouble
  BY Typed, WorkflowV2Assumption DEF IInv, Calm, Troubled
<1> QED BY <1>1, Typed DEF IInv, Books

LEMMA ReconcileIssueKeeps == ASSUME IInv, ReconcileIssue PROVE IInv'
<1>1. HubSteady /\ Books
  BY SameHub, SameBooks DEF ReconcileIssue
<1>2. Steady
  <2>1. PICK approval : approval = [req |-> 0, plan |-> 0]
    OBVIOUS
  <2> QED BY <2>1, ReopenedTask DEF ReconcileIssue, States, Working, Pairs
<1>3. JobsMove
  <2>1. Kept \subseteq jobs /\ Enqueue(Kept, "draft", task')
    BY DEF ReconcileIssue, Kept
  <2> QED BY <1>2, <2>1, QueuedWork DEF Kinds, Steady
<1> QED BY <1>1, <1>2, <1>3, SteadyKeeps

LEMMA ReconcilePlanKeeps == ASSUME IInv, ReconcilePlan PROVE IInv'
<1>1. HubSteady /\ Books
  BY SameHub, SameBooks DEF ReconcilePlan
<1>2. Steady
  <2> DEFINE row == Invalidated(To(task, "PlanningImplementation"))
  <2>1. row \in TaskRows
    <3>1. task \in TaskRows /\ "PlanningImplementation" \in States
      BY Typed DEF IInv, States, Working
    <3> QED BY <3>1, Moved, Unapproving DEF Invalidated
  <2>2. PICK approval : approval = [row.approval EXCEPT !.plan = 0]
    OBVIOUS
  <2>3. approval \in Pairs
    BY <2>1, <2>2, TaskTyped DEF Pairs
  <2>4. task' = [row EXCEPT !.approval = approval]
    BY <2>2 DEF ReconcilePlan
  <2> QED BY <2>3, <2>4, ReopenedTask DEF States, Working
<1>3. JobsMove
  <2>1. Kept \subseteq jobs /\ Enqueue(Kept, "plan", task')
    BY DEF ReconcilePlan, Kept
  <2> QED BY <1>2, <2>1, QueuedWork DEF Kinds, Steady
<1> QED BY <1>1, <1>2, <1>3, SteadyKeeps

LEMMA ReconcileMergedKeeps == ASSUME IInv, ReconcileMerged PROVE IInv'
<1>1. HubSteady /\ Books
  BY SameHub, SameBooks DEF ReconcileMerged
<1>2. Steady /\ JobsMove
  BY MovedTask, DroppedJobs DEF ReconcileMerged, Kept, States, STOPPED
<1> QED BY <1>1, <1>2, SteadyKeeps

LEMMA HaltMoves == ASSUME IInv, Halt PROVE Steady /\ JobsMove
BY MovedTask, DroppedJobs DEF Halt, Kept, States, STOPPED

LEMMA HaltKeeps ==
    ASSUME IInv, ReconcileClosed \/ ReconcileRefused \/ FailedChecks \/ ReconcileFails
    PROVE  IInv'
<1>1. HubSteady /\ Steady /\ JobsMove
  BY SameHub, HaltMoves DEF ReconcileClosed, ReconcileRefused, FailedChecks, ReconcileFails
<1>2. Books
  BY OtherBooks, Typed DEF IInv, ReconcileClosed, ReconcileRefused, FailedChecks, ReconcileFails
<1> QED BY <1>1, <1>2, SteadyKeeps

LEMMA AskToMergeKeeps == ASSUME IInv, AskToMerge \/ BeginMerge PROVE IInv'
<1>1. HubSteady /\ JobsMove
  BY SameHub, DroppedJobs DEF AskToMerge, BeginMerge
<1>2. Books
  BY OtherBooks, Typed DEF IInv, AskToMerge, BeginMerge
<1>3. Steady
  BY MovedTask DEF AskToMerge, BeginMerge, States, Gated
<1> QED BY <1>1, <1>2, <1>3, SteadyKeeps

LEMMA MergeKeeps == ASSUME IInv, Merge PROVE IInv'
<1>1. Books /\ JobsMove
  BY OtherBooks, DroppedJobs DEF Merge
<1>2. Steady
  <2>1. CASE task' = To(task, "Merged")
    BY <2>1, MovedTask DEF States, STOPPED
  <2>2. CASE task' = task
    BY <2>2, SameTask
  <2> QED BY <2>1, <2>2 DEF Merge
<1>3. PICK merged : merged = Identity
  OBVIOUS
<1>4. github' = [github EXCEPT !.pr = "merged", !.at = @ + 1, !.merged = merged]
  BY <1>3 DEF Merge, MergedByUs
<1>5. /\ github' \in Hubs /\ github'.log = github.log /\ github'.draft = github.draft
      /\ github'.pr = "merged" /\ github'.merged = merged
  <2>1. merged \in Identities /\ github \in Hubs
    BY <1>3, IdentityNow DEF IInv
  <2>2. github.at + 1 \in Nat
    BY <2>1 DEF Hubs
  <2>3. PICK at \in Nat, pr \in {"merged"} : at = github.at + 1
    BY <2>2
  <2>4. github' = [github EXCEPT !.pr = pr, !.at = at, !.merged = merged]
    BY <1>4, <2>3
  <2> QED BY <2>1, <2>3, <2>4 DEF Hubs
<1>6. /\ github.pr = "open" /\ ~github.draft /\ task.review = merged /\ task.merge = merged
      /\ ledger' = ledger
  BY <1>3 DEF Merge, GateRefuses, NeedsHuman
<1>7. MergedAsReviewed'
  <2>1. SUFFICES ASSUME merged # None
                 PROVE  /\ Has("requirements", [None EXCEPT !.req = merged.req])'
                        /\ Has("review", merged)' /\ Has("merge", merged)'
    BY <1>5 DEF MergedAsReviewed
  <2>2. Approved(merged) /\ Has("merge", merged)
    BY <1>6, <2>1 DEF IInv, Approvals
  <2>3. merged.head = task.head
    BY <1>3 DEF Identity
  <2>4. ~Unplanned(merged.head)
    <3>1. PICK a \in 1..task.head : Implementation(a)
      BY <1>6 DEF IInv, Works
    <3>2. a \in 1..Tip /\ ~(task.head < a)
      BY <3>1, Tips, IdentityNow DEF IInv
    <3> QED BY <2>3, <3>1, <3>2 DEF Unplanned
  <2> QED BY <1>6, <2>2, <2>4 DEF Approved, Has
<1>8. HubSteady
  BY <1>5, <1>6, <1>7 DEF HubSteady
<1> QED BY <1>1, <1>2, <1>8, SteadyKeeps

LEMMA MergeRefusedKeeps == ASSUME IInv, MergeRefused PROVE IInv'
<1>1. HubSteady /\ Books
  BY SameHub, OtherBooks DEF MergeRefused
<1>2. Steady /\ JobsMove
  <2>1. CASE Halt
    BY <2>1, HaltMoves
  <2>2. CASE UNCHANGED <<task, jobs, made>>
    BY <2>2, SameTask, DroppedJobs
  <2> QED BY <2>1, <2>2 DEF MergeRefused
<1> QED BY <1>1, <1>2, SteadyKeeps

-----------------------------------------------------------------------------
(* GitHub and the process                                                   *)

LEMMA WorldSteady ==
    ASSUME IInv, UNCHANGED <<task, jobs, made, plans, ledger, pending, merging>>, Calm \/ Troubled,
           HubSteady
    PROVE  IInv'
BY SameTask, SameBooks, DroppedJobs, SteadyKeeps

LEMMA EditKeeps == ASSUME IInv, CopyProposal \/ EditIssue PROVE IInv'
<1>1. PICK body \in Texts : github' = [github EXCEPT !.body = body, !.at = @ + 1]
  <2>1. CASE CopyProposal
    <3>1. PICK j \in jobs : github' = [github EXCEPT !.body = j.id, !.at = @ + 1]
      BY <2>1 DEF CopyProposal
    <3>2. j.id \in Texts
      BY Typed, JobTyped, Numbers DEF IInv
    <3> QED BY <3>1, <3>2
  <2>2. CASE EditIssue
    BY <2>2, Numbers DEF EditIssue, Interfere
  <2> QED BY <2>1, <2>2
<1>2. /\ github' \in Hubs /\ github'.log = github.log /\ github'.draft = github.draft
      /\ github'.pr = github.pr /\ github'.merged = github.merged
  <2>1. github \in Hubs /\ github.at + 1 \in Nat
    BY DEF IInv, Hubs
  <2> QED BY <1>1, <2>1 DEF Hubs
<1>3. HubSteady
  BY <1>2 DEF HubSteady
<1> QED BY <1>3, WorldSteady DEF CopyProposal, EditIssue, Interfere

LEMMA MoveBaseKeeps == ASSUME IInv, MoveBase PROVE IInv'
<1>1. /\ github' \in Hubs /\ github'.log = github.log /\ github'.draft = github.draft
      /\ github'.pr = github.pr /\ github'.merged = github.merged
  BY DEF IInv, Hubs, MoveBase, Interfere
<1>2. HubSteady
  BY <1>1 DEF HubSteady
<1> QED BY <1>2, WorldSteady DEF MoveBase, Interfere

LEMMA PullKeeps == ASSUME IInv, MergeOutside \/ ClosePull PROVE IInv'
<1>1. github \in Hubs /\ github.at + 1 \in Nat
  BY DEF IInv, Hubs
<1>2. PICK pr \in {"merged", "closed"} : \/ github' = [github EXCEPT !.pr = pr, !.at = @ + 1]
                                         \/ github' = [github EXCEPT !.pr = pr]
  BY DEF MergeOutside, ClosePull, Interfere
<1>3. /\ github' \in Hubs /\ github'.log = github.log /\ github'.draft = github.draft
      /\ github'.pr # "none" /\ github.pr # "none" /\ github'.merged = github.merged
  <2>1. github.pr = "open"
    BY DEF MergeOutside, ClosePull
  <2> QED BY <1>1, <1>2, <2>1 DEF Hubs
<1>4. HubSteady
  BY <1>3 DEF HubSteady
<1> QED BY <1>4, WorldSteady DEF MergeOutside, ClosePull, Interfere

LEMMA ExpireApprovalKeeps == ASSUME IInv, ExpireApproval PROVE IInv'
<1>1. HubSteady /\ Books /\ JobsMove
  BY SameHub, SameBooks, DroppedJobs DEF ExpireApproval
<1>2. task \in TaskRows
  BY Typed DEF IInv
<1>3. task' = [task EXCEPT !.mergeLive = FALSE]
  BY DEF ExpireApproval
<1>4. /\ task' \in TaskRows /\ task'.state = task.state /\ task'.retry = task.retry
      /\ task'.req = task.req /\ task'.reqApproved = task.reqApproved /\ task'.plan = task.plan
      /\ task'.head = task.head /\ task'.review = task.review /\ task'.merge = task.merge
  BY <1>2, <1>3 DEF TaskRows
<1>5. Steady
  BY <1>4 DEF Steady, IInv, Grown, Awaits
<1> QED BY <1>1, <1>5, SteadyKeeps

LEMMA CrashKeeps == ASSUME IInv, Crash PROVE IInv'
<1>1. HubSteady /\ Steady
  BY SameHub, SameTask DEF Crash
<1>2. Books
  BY OtherBooks DEF Crash
<1>3. JobsMove
  <2>1. made \in JobIds /\ made' = made
    BY Typed DEF IInv, Crash
  <2>2. ASSUME NEW k \in jobs'
        PROVE  k \in JobRows /\ Row(k)' /\ \E j \in jobs : Same(j, k)
    <3>1. PICK j \in jobs :
             k = IF j.status = "running" THEN [j EXCEPT !.status = "queued", !.at = "start"] ELSE j
      BY DEF Crash
    <3>2. j \in JobRows /\ Row(j)
      BY Typed DEF IInv, JobRowsTell
    <3>3. k \in JobRows /\ Same(j, k) /\ (k = j \/ (k.status = "queued" /\ k.at = "start"))
      BY <3>1, <3>2 DEF JobRows, JobStatuses, Progress, Same
    <3>4. Row(k)
      BY <3>2, <3>3 DEF Row, Same, Implementing
    <3> QED BY <2>1, <3>3, <3>4 DEF Row
  <2>3. ASSUME NEW k \in jobs', NEW l \in jobs', k.id = l.id PROVE k = l
    <3>1. PICK i \in jobs :
             k = IF i.status = "running" THEN [i EXCEPT !.status = "queued", !.at = "start"] ELSE i
      BY DEF Crash
    <3>2. PICK j \in jobs :
             l = IF j.status = "running" THEN [j EXCEPT !.status = "queued", !.at = "start"] ELSE j
      BY DEF Crash
    <3>3. i \in JobRows /\ j \in JobRows
      BY Typed DEF IInv
    <3>4. k.id = i.id /\ l.id = j.id
      BY <3>1, <3>2, <3>3 DEF JobRows
    <3>5. i = j
      BY <2>3, <3>4 DEF IInv, JobRowsTell
    <3> QED BY <3>1, <3>2, <3>5
  <2>4. made' \in Nat /\ made <= made'
    BY <2>1, Numbers
  <2> QED BY <2>1, <2>2, <2>3, <2>4 DEF JobsMove
<1> QED BY <1>1, <1>2, <1>3, SteadyKeeps

-----------------------------------------------------------------------------
(* Commits                                                                  *)

LEMMA FilesTyped ==
    ASSUME github \in Hubs, NEW commit \in 0..Tip
    PROVE  FilesAt(commit) \in [1..MaxPlans -> Texts]
<1>1. CASE commit = 0
  BY <1>1, Numbers DEF FilesAt, Placeholder
<1>2. CASE commit # 0
  <2>1. commit \in 1..Tip
    BY <1>2, Tips
  <2>2. github.log[commit] \in Commit
    BY <2>1, Tips
  <2> QED BY <1>2, <2>2 DEF FilesAt, Commit
<1> QED BY <1>1, <1>2

(* One more commit on the branch.                                           *)
Longer(key, files) ==
    /\ Tip < MaxCommits
    /\ github'.log = Append(github.log, [key |-> key, files |-> files])

LEMMA LongerLog ==
    ASSUME IInv, NEW key \in Keys, NEW files \in [1..MaxPlans -> Texts], Longer(key, files)
    PROVE  /\ Tip \in Nat /\ Tip' = Tip + 1 /\ Tip' <= MaxCommits
           /\ github'.log \in Seq(Commit)
           /\ github'.log[Tip + 1].key = key
           /\ \A a \in 1..Tip : github'.log[a] = github.log[a]
           /\ \A a \in 1..Tip' : a \in 1..Tip \/ a = Tip + 1
<1>1. github.log \in Seq(Commit) /\ Tip \in Nat
  BY Tips DEF IInv
<1>2. PICK commit : commit = [key |-> key, files |-> files]
  OBVIOUS
<1>3. commit \in Commit /\ commit.key = key
  BY <1>2 DEF Commit
<1>4. github'.log = Append(github.log, commit)
  BY <1>2 DEF Longer
<1>5. /\ Append(github.log, commit) \in Seq(Commit)
      /\ Len(Append(github.log, commit)) = Len(github.log) + 1
      /\ \A a \in 1..Len(github.log) : Append(github.log, commit)[a] = github.log[a]
      /\ Append(github.log, commit)[Len(github.log) + 1] = commit
  BY <1>1, <1>3, AppendProperties
<1>6. Tip' = Tip + 1
  BY <1>4, <1>5 DEF Tip
<1>7. Tip' <= MaxCommits
  BY <1>1, <1>6, WorkflowV2Assumption DEF Longer
<1> QED BY <1>1, <1>3, <1>4, <1>5, <1>6, <1>7 DEF Tip

(* What the commit of nobody, or of a job that has none yet, leaves alone.   *)
LEMMA LongerKeeps ==
    ASSUME IInv, NEW key \in Keys, NEW files \in [1..MaxPlans -> Texts], Longer(key, files),
           UNCHANGED <<task, made, plans, ledger, pending, merging>>, Calm \/ Troubled,
           JobsGrow, github' \in Hubs, github'.merged = github.merged, github'.pr # "none",
           github'.draft = (github.draft \/ github.pr = "none"),
           key # <<>> => /\ key[1] <= made /\ Tip = task.head
                         /\ \A a \in 1..Tip : github.log[a].key # key
                         /\ key[2] = "implementation" => task.plan # 0,
           task.req # 0, \A k \in jobs' : Known(k)'
    PROVE  IInv'
<1>1. /\ Tip \in Nat /\ Tip' = Tip + 1 /\ Tip' <= MaxCommits
      /\ github'.log[Tip + 1].key = key
      /\ \A a \in 1..Tip : github'.log[a] = github.log[a]
      /\ \A a \in 1..Tip' : a \in 1..Tip \/ a = Tip + 1
  BY LongerLog
<1>2. /\ Tables /\ task \in TaskRows /\ task.head \in Nat /\ task.head <= Tip /\ task'.head <= Tip'
      /\ Onwards /\ task.plan \in Nat
  BY <1>1, IdentityNow, Typed, TaskTyped, Numbers DEF IInv, Onwards
<1>3. Books
  BY SameBooks
<1>4. Tables'
  BY <1>1, <1>2, <1>3, TypesAgain DEF Onwards, JobsGrow
<1>5. Reviews' /\ Grown' /\ JobRowsTell' /\ MergedAsReviewed'
  <2>1. task'.plan <= Len(plans')
    BY DEF IInv, Grown
  <2> QED BY <1>2, <1>3, <2>1, ReviewsKept, GrownKept, RowsKept, MergedKept DEF Books
<1>6. \A a \in 1..Tip : Implementation(a)' <=> Implementation(a)
  BY <1>1 DEF Implementation
<1> PICK top : top = Tip + 1
  OBVIOUS
<1>7. Implementation(top)' => task.plan # 0
  <2>1. SUFFICES ASSUME Implementation(top)' PROVE task.plan # 0
    OBVIOUS
  <2>2. PICK i \in JobIds : key = <<i, "implementation">>
    BY <1>1, <2>1 DEF Implementation
  <2> QED BY <2>2, Keyed
<1>8. \A head \in Nat : head <= Tip /\ Unplanned(head) => Unplanned(head)'
  BY <1>1, <1>6 DEF Unplanned
<1>9. Works'
  <2>1. \A a \in 1..Tip' : Implementation(a)' => task'.plan # 0
    <3>1. ASSUME NEW a \in 1..Tip', Implementation(a)' PROVE task.plan # 0
      <4>1. CASE a \in 1..Tip
        BY <1>6, <3>1, <4>1 DEF IInv, Works
      <4>2. CASE a = top
        BY <1>7, <3>1, <4>2
      <4> QED BY <1>1, <4>1, <4>2
    <3> QED BY <3>1
  <2>2. ~github'.draft => \E a \in 1..task'.head : Implementation(a)'
    <3>1. SUFFICES ASSUME ~github'.draft PROVE \E a \in 1..task.head : Implementation(a)'
      OBVIOUS
    <3>2. PICK a \in 1..task.head : Implementation(a)
      BY <3>1 DEF IInv, Works
    <3>3. a \in 1..Tip
      BY <1>1, <1>2
    <3> QED BY <1>6, <3>2, <3>3
  <2>3. ASSUME NEW r \in jobs', r.kind = "review", r.pins.plan = 0 PROVE Unplanned(r.pins.head)'
    <3>1. PICK j \in jobs : Similar(j, r)
      BY <1>2, Numbers DEF JobsGrow, New, Typed
    <3>2. r.pins = j.pins /\ j.kind = "review"
      BY <2>3, <3>1 DEF Similar
    <3>3. Unplanned(r.pins.head) /\ r.pins.head <= task.head
      BY <2>3, <3>2 DEF IInv, Works, Reviews, Pinned
    <3>4. r.pins.head \in Nat
      BY <3>2, Typed, JobTyped, IdentityTyped, Numbers DEF IInv
    <3> QED BY <1>1, <1>2, <1>8, <3>3, <3>4
  <2> QED BY <2>1, <2>2, <2>3 DEF Works
<1>10. Approvals'
  <2>1. Approvals /\ task' = task /\ ledger' = ledger
    BY DEF IInv
  <2>2. PICK review, merge : review = task.review /\ merge = task.merge
    OBVIOUS
  <2>3. merge # None => Has("merge", merge)'
    BY <2>1, <2>2 DEF Approvals, Has
  <2>4. ASSUME review # None PROVE Approved(review)'
    <3>1. Approved(review) /\ review \in Identities
      BY <1>2, <2>1, <2>2, <2>4, TaskTyped DEF Approvals
    <3>2. review.head \in Nat /\ review.head <= task.head
      BY <3>1, IdentityTyped, Numbers DEF Approved
    <3>3. Unplanned(review.head) => Unplanned(review.head)'
      BY <1>1, <1>2, <1>8, <3>2
    <3> QED BY <2>1, <3>1, <3>2, <3>3 DEF Approved, Has
  <2> QED BY <2>1, <2>2, <2>3, <2>4 DEF Approvals
<1>11. PublishedOnce'
  <2>1. ASSUME NEW a \in 1..Tip', NEW b \in 1..Tip', github'.log[a].key = github'.log[b].key,
               github'.log[a].key # <<>>
        PROVE  a = b
    <3>1. CASE a \in 1..Tip /\ b \in 1..Tip
      BY <1>1, <2>1, <3>1 DEF IInv, PublishedOnce
    <3>2. CASE a = Tip + 1 /\ b \in 1..Tip
      BY <1>1, <2>1, <3>2
    <3>3. CASE b = Tip + 1 /\ a \in 1..Tip
      BY <1>1, <2>1, <3>3
    <3>4. CASE a = Tip + 1 /\ b = Tip + 1
      BY <3>4
    <3> QED BY <1>1, <3>1, <3>2, <3>3, <3>4
  <2> QED BY <2>1 DEF PublishedOnce
<1>12. Branch'
  <2>1. \A a \in 1..Tip' : github'.log[a].key # <<>> => github'.log[a].key[1] <= made'
    BY <1>1 DEF IInv, Branch
  <2>2. ASSUME NEW a \in 1..Tip', NEW b \in 1..Tip', github'.log[a].key # <<>>,
               github'.log[b].key # <<>>, task'.head < a, task'.head < b
        PROVE  a = b
    <3>1. CASE a \in 1..Tip /\ b \in 1..Tip
      BY <1>1, <2>2, <3>1 DEF IInv, Branch
    <3>2. CASE key = <<>>
      BY <1>1, <2>2, <3>1, <3>2
    <3>3. CASE key # <<>>
      BY <1>1, <2>2, <3>3
    <3> QED BY <3>2, <3>3
  <2> QED BY <2>1, <2>2 DEF Branch
<1> QED BY <1>4, <1>5, <1>9, <1>10, <1>11, <1>12 DEF IInv

LEMMA KnownStill ==
    ASSUME IInv, NEW key \in Keys, NEW files \in [1..MaxPlans -> Texts], Longer(key, files),
           task' = task, NEW k \in jobs, key # <<>> => key[1] # k.id
    PROVE  Known(k)'
<1>1. /\ Tip \in Nat /\ Tip' = Tip + 1 /\ github'.log[Tip + 1].key = key
      /\ \A a \in 1..Tip : github'.log[a] = github.log[a]
      /\ \A a \in 1..Tip' : a \in 1..Tip \/ a = Tip + 1
  BY LongerLog
<1>2. Known(k) /\ k \in JobRows
  BY Typed DEF IInv, Branch
<1>3. ASSUME NEW a \in 1..Tip', NEW stage \in Stages, On(a, k, stage)'
      PROVE  a \in 1..Tip /\ On(a, k, stage)
  <2>1. github'.log[a].key = <<k.id, stage>>
    BY <1>3 DEF On
  <2>2. <<k.id, stage>> # <<>> /\ <<k.id, stage>>[1] = k.id
    BY Keyed
  <2>3. a # Tip + 1
    BY <1>1, <2>1, <2>2
  <2> QED BY <1>1, <2>1, <2>3 DEF On
<1>4. \A a \in 1..Tip', stage \in Stages : On(a, k, stage)' =>
         /\ IF stage = "plan" THEN k.kind = "plan" ELSE Implementing(k)'
         /\ k.request # <<>>
         /\ Recorded(k, stage) = a \/ (Recorded(k, stage) = 0 /\ a > task'.head)
  BY <1>2, <1>3 DEF Known, Implementing
<1>5. k.published # 0 => /\ k.published <= Tip' /\ On(k.published, k, StageOf(k))'
                         /\ k.published > task'.head \/ k.published = k.pins.head
  <2>1. SUFFICES ASSUME k.published # 0
                 PROVE  /\ k.published <= Tip' /\ On(k.published, k, StageOf(k))'
                        /\ k.published > task'.head \/ k.published = k.pins.head
    OBVIOUS
  <2>2. /\ k.published <= Tip /\ On(k.published, k, StageOf(k))
        /\ k.published > task.head \/ k.published = k.pins.head
    BY <1>2, <2>1 DEF Known
  <2>3. k.published \in 1..Tip
    BY <1>1, <1>2, <2>1, <2>2, JobTyped, Numbers
  <2> QED BY <1>1, <2>2, <2>3 DEF On, StageOf
<1>6. k.indexed # 0 => k.indexed <= Tip' /\ On(k.indexed, k, "index")' /\ k.indexed > task'.head
  <2>1. SUFFICES ASSUME k.indexed # 0
                 PROVE  k.indexed <= Tip' /\ On(k.indexed, k, "index")' /\ k.indexed > task'.head
    OBVIOUS
  <2>2. k.indexed <= Tip /\ On(k.indexed, k, "index") /\ k.indexed > task.head
    BY <1>2, <2>1 DEF Known
  <2>3. k.indexed \in 1..Tip
    BY <1>1, <1>2, <2>1, <2>2, JobTyped, Numbers
  <2> QED BY <1>1, <2>2, <2>3 DEF On
<1> QED BY <1>4, <1>5, <1>6 DEF Known, Recorded, StageOf, Implementing

(* The job whose commit it is: its row names it, or it is above the head.    *)
SameButCommits(j, k, stage) ==
    /\ k.id = j.id /\ k.kind = j.kind /\ k.request = j.request /\ k.pins = j.pins
    /\ IF stage = "index" THEN k.published = j.published ELSE k.indexed = j.indexed

Publishes(j, stage) ==
    /\ j.request # <<>> /\ Recorded(j, stage) = 0
    /\ IF stage = "plan" THEN j.kind = "plan" ELSE Implementing(j)

LEMMA KnownAnew ==
    ASSUME IInv, NEW j \in jobs, NEW k \in JobRows, NEW stage \in Stages, SameButCommits(j, k, stage),
           Publishes(j, stage), NEW files \in [1..MaxPlans -> Texts],
           NEW key \in Keys, key = <<j.id, stage>>, Longer(key, files),
           task' = task, Tip = task.head, Recorded(k, stage) \in {0, Tip + 1}
    PROVE  Known(k)'
<1>1. /\ Tip \in Nat /\ Tip' = Tip + 1 /\ github'.log[Tip + 1].key = key
      /\ \A a \in 1..Tip : github'.log[a] = github.log[a]
      /\ \A a \in 1..Tip' : a \in 1..Tip \/ a = Tip + 1
  BY LongerLog
<1> PICK top : top = Tip + 1
  OBVIOUS
<1>2. Known(j) /\ j \in JobRows
  BY Typed DEF IInv, Branch
<1>3. ASSUME NEW a \in 1..Tip', NEW other \in Stages, On(a, k, other)'
      PROVE  /\ IF other = "plan" THEN k.kind = "plan" ELSE Implementing(k)
             /\ k.request # <<>>
             /\ Recorded(k, other) = a \/ (Recorded(k, other) = 0 /\ a > task.head)
  <2>1. github'.log[a].key = <<j.id, other>>
    BY <1>3 DEF On, SameButCommits
  <2>2. CASE a \in 1..Tip
    <3>1. On(a, j, other)
      BY <1>1, <2>1, <2>2 DEF On
    <3>2. /\ IF other = "plan" THEN j.kind = "plan" ELSE Implementing(j)
          /\ j.request # <<>>
          /\ Recorded(j, other) = a \/ (Recorded(j, other) = 0 /\ a > task.head)
      BY <1>2, <2>2, <3>1 DEF Known
    <3>3. Recorded(j, other) = a
      BY <1>1, <2>2, <3>2
    <3>4. Recorded(k, other) = Recorded(j, other)
      BY <1>1, <2>2, <3>3 DEF Recorded, SameButCommits, Publishes
    <3> QED BY <3>2, <3>3, <3>4 DEF SameButCommits, Implementing
  <2>3. CASE a = top
    <3>1. <<j.id, other>> = <<j.id, stage>>
      BY <1>1, <2>1, <2>3
    <3>2. other = stage
      BY <3>1, Keyed
    <3> QED BY <1>1, <2>3, <3>2 DEF SameButCommits, Publishes, Implementing
  <2> QED BY <1>1, <2>2, <2>3
<1>4. On(top, k, stage)'
  BY <1>1 DEF On, SameButCommits
<1>5. stage # "index" => StageOf(k) = stage
  BY DEF StageOf, SameButCommits, Publishes, Implementing, Stages
<1>6. ASSUME k.published # 0
      PROVE  /\ k.published <= Tip' /\ On(k.published, k, StageOf(k))'
             /\ k.published > task.head \/ k.published = k.pins.head
  <2>1. CASE stage = "index"
    <3>1. /\ j.published <= Tip /\ On(j.published, j, StageOf(j))
          /\ j.published > task.head \/ j.published = j.pins.head
      BY <1>2, <1>6, <2>1 DEF Known, SameButCommits
    <3>2. j.published \in 1..Tip
      BY <1>1, <1>2, <1>6, <2>1, <3>1, JobTyped, Numbers DEF SameButCommits
    <3> QED BY <1>1, <2>1, <3>1, <3>2 DEF On, StageOf, SameButCommits
  <2>2. CASE stage # "index"
    <3>1. k.published = top
      BY <1>6, <2>2 DEF Recorded
    <3> QED BY <1>1, <1>4, <1>5, <2>2, <3>1 DEF StageOf
  <2> QED BY <2>1, <2>2
<1>7. ASSUME k.indexed # 0
      PROVE  k.indexed <= Tip' /\ On(k.indexed, k, "index")' /\ k.indexed > task.head
  <2>1. CASE stage # "index"
    <3>1. j.indexed <= Tip /\ On(j.indexed, j, "index") /\ j.indexed > task.head
      BY <1>2, <1>7, <2>1 DEF Known, SameButCommits
    <3>2. j.indexed \in 1..Tip
      BY <1>1, <1>2, <1>7, <2>1, <3>1, JobTyped, Numbers DEF SameButCommits
    <3> QED BY <1>1, <2>1, <3>1, <3>2 DEF On, SameButCommits
  <2>2. CASE stage = "index"
    <3>1. k.indexed = top
      BY <1>7, <2>2 DEF Recorded
    <3> QED BY <1>1, <1>4, <2>2, <3>1
  <2> QED BY <2>1, <2>2
<1> QED BY <1>3, <1>6, <1>7 DEF Known, Recorded, StageOf, Implementing

(* publish, with the row that remembers the commit, or without it.          *)
LEMMA PublishKeeps ==
    ASSUME IInv, NEW j \in jobs, NEW k \in JobRows, NEW stage \in Stages, SameButCommits(j, k, stage),
           Publishes(j, stage), NEW files \in [1..MaxPlans -> Texts],
           NEW key, key = <<j.id, stage>>, Publishable(key), PublishTo(key, files),
           Recorded(k, stage) = Len(github'.log) \/ (Recorded(k, stage) = 0 /\ ~Published(key)),
           Row(k), jobs' = (jobs \ {j}) \cup {k},
           UNCHANGED <<task, made, plans, ledger, pending, merging>>, Calm \/ Troubled
    PROVE  IInv'
<1>1. /\ j \in JobRows /\ Known(j) /\ Row(j) /\ github \in Hubs /\ Tip \in Nat /\ task.head \in Nat
      /\ task.head <= Tip
  BY Typed, Tips, TaskTyped, Numbers DEF IInv, Branch, JobRowsTell
<1>2. key \in Keys /\ key # <<>> /\ key[1] = j.id /\ key[2] = stage
  BY <1>1, JobTyped, Keyed DEF Keys
<1>3. JobsGrow
  BY LearnedJob DEF SameButCommits, Similar
<1>4. task.req # 0 /\ (stage = "implementation" => task.plan # 0)
  BY DEF IInv, Grown, Publishes, Implementing
<1>5. CASE ~Published(key)
  <2>1. Tip = task.head /\ github.pr \in {"none", "open"}
    BY <1>5 DEF Publishable
  <2>2. /\ Longer(key, files)
        /\ github' = [github EXCEPT !.log = Append(@, [key |-> key, files |-> files]), !.pr = "open",
                                    !.draft = @ \/ github.pr = "none"]
    BY <1>1, <1>5 DEF PublishTo, Longer, Hubs
  <2>3. github'.log \in Seq(Commit) /\ Tip' = Tip + 1
    BY <1>2, <2>2, LongerLog
  <2>4. /\ github' \in Hubs /\ github'.merged = github.merged /\ github'.pr = "open"
        /\ github'.draft = (github.draft \/ github.pr = "none")
    BY <1>1, <2>2, <2>3 DEF Hubs
  <2>5. \A a \in 1..Tip : github.log[a].key # key
    <3>1. ASSUME NEW a \in 1..Tip, On(a, j, stage) PROVE FALSE
      <4>1. Recorded(j, stage) = a \/ (Recorded(j, stage) = 0 /\ a > task.head)
        BY <1>1, <3>1 DEF Known
      <4> QED BY <1>1, <2>1, <4>1 DEF Publishes
    <3> QED BY <3>1 DEF On
  <2>6. \A l \in jobs' : Known(l)'
    <3>1. ASSUME NEW l \in jobs, l # j PROVE Known(l)'
      <4>1. l.id # j.id
        BY <3>1 DEF IInv, JobRowsTell
      <4> QED BY <1>2, <2>2, <4>1, KnownStill
    <3>2. Recorded(k, stage) \in {0, Tip + 1}
      BY <2>3 DEF Tip
    <3>3. Known(k)'
      BY <1>2, <2>1, <2>2, <3>2, KnownAnew
    <3> QED BY <3>1, <3>3
  <2>7. key # <<>> => /\ key[1] <= made /\ Tip = task.head
                      /\ \A a \in 1..Tip : github.log[a].key # key
                      /\ key[2] = "implementation" => task.plan # 0
    BY <1>1, <1>2, <1>4, <2>1, <2>5 DEF Row
  <2> QED BY <1>2, <1>3, <1>4, <2>2, <2>4, <2>6, <2>7, LongerKeeps
<1>6. CASE Published(key)
  <2>1. github' = github /\ Tip' = Tip /\ Tip # 0 /\ On(Tip, j, stage)
    BY <1>6 DEF PublishTo, Published, On, Tip
  <2>2. Tip \in 1..Tip /\ Tip > task.head
    BY <1>1, <2>1 DEF Known, Publishes
  <2>3. Recorded(k, stage) = Tip
    BY <1>6, <2>1 DEF Tip
  <2>4. HubSteady /\ Books /\ Steady
    BY <2>1, SameHub, SameBooks, SameTask
  <2>5. /\ Onwards /\ task'.head <= Tip /\ task'.plan <= Len(plans')
        /\ task'.reqApproved \/ Awaits(task') => task'.req # 0
    BY <2>4, SteadyOnwards DEF Books, Steady
  <2>6. Approvals'
    BY <2>4, <2>5, ApprovalsKept DEF Steady, HubSteady, Books
  <2>7. ASSUME NEW l \in jobs, l # j PROVE Known(l)'
    <3>1. Known(l)
      BY DEF IInv, Branch
    <3> QED BY <2>1, <3>1 DEF Known, On
  <2>8. ASSUME NEW a \in 1..Tip, NEW other \in Stages, On(a, j, other)
        PROVE  /\ IF other = "plan" THEN k.kind = "plan" ELSE Implementing(k)
               /\ k.request # <<>>
               /\ Recorded(k, other) = a \/ (Recorded(k, other) = 0 /\ a > task.head)
    <3>1. /\ IF other = "plan" THEN j.kind = "plan" ELSE Implementing(j)
          /\ j.request # <<>>
          /\ Recorded(j, other) = a \/ (Recorded(j, other) = 0 /\ a > task.head)
      BY <1>1, <2>8 DEF Known
    <3>2. CASE a > task.head
      <4>1. a = Tip /\ other = stage
        BY <2>1, <2>2, <2>8, <3>2, OnlyOne
      <4> QED BY <2>3, <3>1, <4>1 DEF SameButCommits, Implementing
    <3>3. CASE ~(a > task.head)
      <4>1. Recorded(j, other) = a /\ a # 0
        BY <1>1, <3>1, <3>3
      <4>2. Recorded(k, other) = Recorded(j, other)
        BY <4>1 DEF Recorded, SameButCommits, Publishes
      <4> QED BY <3>1, <4>1, <4>2 DEF SameButCommits, Implementing
    <3> QED BY <3>2, <3>3
  <2>9. Known(k)
    <3>1. \A a, other : On(a, k, other) <=> On(a, j, other)
      BY DEF On, SameButCommits
    <3>2. CASE stage = "index"
      <4>1. k.indexed = Tip /\ k.published = j.published
        BY <2>3, <3>2 DEF Recorded, SameButCommits
      <4>2. k.published # 0 => /\ k.published <= Tip /\ On(k.published, k, StageOf(k))
                               /\ k.published > task.head \/ k.published = k.pins.head
        BY <1>1, <3>1, <4>1 DEF Known, StageOf, SameButCommits
      <4>3. k.indexed <= Tip /\ On(k.indexed, k, "index") /\ k.indexed > task.head
        BY <1>1, <2>1, <2>2, <3>1, <3>2, <4>1
      <4> QED BY <2>8, <3>1, <4>2, <4>3 DEF Known
    <3>3. CASE stage # "index"
      <4>1. k.published = Tip /\ k.indexed = j.indexed /\ StageOf(k) = stage
        BY <2>3, <3>3 DEF Recorded, SameButCommits, StageOf, Publishes, Implementing, Stages
      <4>2. k.indexed # 0 => k.indexed <= Tip /\ On(k.indexed, k, "index") /\ k.indexed > task.head
        BY <1>1, <3>1, <4>1 DEF Known
      <4> QED BY <1>1, <2>1, <2>2, <2>8, <3>1, <4>1, <4>2 DEF Known
    <3> QED BY <3>2, <3>3
  <2>10. Known(k)'
    BY <2>1, <2>9 DEF Known, On
  <2>11. Branch'
    BY <1>3, <2>1, <2>5, <2>7, <2>10, BranchKnown
  <2> QED BY <1>3, <2>4, <2>5, <2>6, <2>11, OnwardsKeeps
<1> QED BY <1>5, <1>6

LEMMA PlanFiles ==
    ASSUME IInv, NEW j \in jobs, Len(plans) < MaxPlans
    PROVE  [FilesAt(task.head) EXCEPT ![Len(plans) + 1] = j.id] \in [1..MaxPlans -> Texts]
<1>1. FilesAt(task.head) \in [1..MaxPlans -> Texts]
  BY IdentityNow, Tips, FilesTyped DEF IInv
<1>2. j.id \in Texts
  BY Typed, JobTyped, Numbers DEF IInv
<1> QED BY <1>1, <1>2

LEMMA HeadFiles == ASSUME IInv PROVE FilesAt(task.head) \in [1..MaxPlans -> Texts]
BY IdentityNow, Tips, FilesTyped DEF IInv

LEMMA PublishedTip ==
    ASSUME IInv, NEW key \in Keys, NEW files \in [1..MaxPlans -> Texts], PublishTo(key, files)
    PROVE  Len(github'.log) \in Commits /\ Len(github'.log) # 0
<1>1. Tip \in Nat /\ Tip <= MaxCommits /\ github \in Hubs
  BY Tips, Typed DEF IInv
<1>2. CASE Published(key)
  BY <1>1, <1>2, WorkflowV2Assumption DEF PublishTo, Published, Commits, Tip
<1>3. CASE ~Published(key)
  <2>1. Longer(key, files)
    BY <1>1, <1>3 DEF PublishTo, Longer, Hubs
  <2>2. Len(github'.log) = Tip + 1 /\ Tip + 1 <= MaxCommits
    BY <2>1, LongerLog DEF Tip
  <2> QED BY <1>1, <2>2, WorkflowV2Assumption DEF Commits
<1> QED BY <1>2, <1>3

(* A publication that the row already remembers, that is refused, or that is
   made now.                                                                *)
LEMMA PublishPlanKeeps == ASSUME IInv, NEW j \in jobs, PublishPlan(j) PROVE IInv'
<1>1. /\ j \in JobRows /\ Row(j) /\ j.kind = "plan" /\ j.at = "result" /\ j.status = "running"
      /\ j.request # <<>> /\ Len(plans) \in Nat /\ Len(plans) < MaxPlans
  BY Typed, WorkflowV2Assumption DEF IInv, JobRowsTell, PublishPlan, Current, Row
<1>2. PICK key, at, files : /\ key = <<j.id, "plan">> /\ at = "published"
                            /\ files = [FilesAt(task.head) EXCEPT ![Len(plans) + 1] = j.id]
  OBVIOUS
<1>3. CASE j.published # 0
  <2>1. HubSteady /\ Books /\ Steady
    BY <1>3, SameHub, SameBooks, SameTask DEF PublishPlan
  <2>2. JobsMove
    BY <1>1, <1>2, <1>3, JobsAt DEF PublishPlan, Progress
  <2> QED BY <2>1, <2>2, SteadyKeeps
<1>4. CASE j.published = 0 /\ ~Publishable(key)
  <2>1. Fail(j) /\ UNCHANGED github
    BY <1>2, <1>4 DEF PublishPlan
  <2> QED BY <2>1, SameHub, SameBooks, FailedJob, SteadyKeeps DEF PublishPlan
<1>5. CASE j.published = 0 /\ Publishable(key)
  <2>1. PICK n : n = Len(github'.log)
    OBVIOUS
  <2>2. PICK k : k = [j EXCEPT !.at = at, !.published = n]
    OBVIOUS
  <2>3. /\ PublishTo(key, files) /\ jobs' = (jobs \ {j}) \cup {k}
    BY <1>2, <1>5, <2>1, <2>2 DEF PublishPlan, Set
  <2>4. key \in Keys /\ files \in [1..MaxPlans -> Texts]
    BY <1>1, <1>2, JobTyped, PlanFiles DEF Keys, Stages
  <2>5. n \in Commits /\ n # 0
    BY <2>1, <2>3, <2>4, PublishedTip
  <2>6. /\ k \in JobRows /\ k.id = j.id /\ k.kind = j.kind /\ k.status = j.status /\ k.pins = j.pins
        /\ k.at = "published" /\ k.request = j.request /\ k.published = n /\ k.indexed = j.indexed
    BY <1>1, <1>2, <2>2, <2>5 DEF JobRows, Progress
  <2>7. Row(k)
    BY <1>1, <1>5, <2>5, <2>6 DEF Row, Publishing, Implementing
  <2>8. PICK stage \in Stages : stage = "plan"
    BY DEF Stages
  <2>9. SameButCommits(j, k, stage) /\ Publishes(j, stage) /\ Recorded(k, stage) = n
    BY <1>1, <1>5, <2>6, <2>8 DEF SameButCommits, Publishes, Recorded
  <2>10. key = <<j.id, stage>>
    BY <1>2, <2>8
  <2>11. UNCHANGED <<task, made, plans, ledger, pending, merging>> /\ Calm
    BY <1>2, <1>5 DEF PublishPlan
  <2>12. Recorded(k, stage) = Len(github'.log)
    BY <2>1, <2>9
  <2> QED BY <1>5, <2>3, <2>4, <2>6, <2>7, <2>9, <2>10, <2>11, <2>12, PublishKeeps
<1> QED BY <1>3, <1>4, <1>5

LEMMA PublishImplementationKeeps == ASSUME IInv, NEW j \in jobs, PublishImplementation(j) PROVE IInv'
<1>1. /\ j \in JobRows /\ Row(j) /\ Implementing(j) /\ j.at = "result" /\ j.status = "running"
      /\ j.request # <<>>
  BY Typed DEF IInv, JobRowsTell, PublishImplementation, Current, Row
<1>2. PICK key, at, files : /\ key = <<j.id, "implementation">> /\ at = "published"
                            /\ files = FilesAt(task.head)
  OBVIOUS
<1>3. CASE j.published # 0
  <2>1. HubSteady /\ Books /\ Steady
    BY <1>3, SameHub, SameBooks, SameTask DEF PublishImplementation
  <2>2. JobsMove
    BY <1>1, <1>2, <1>3, JobsAt DEF PublishImplementation, Progress
  <2> QED BY <2>1, <2>2, SteadyKeeps
<1>4. CASE j.published = 0 /\ ~Publishable(key)
  <2>1. Fail(j) /\ UNCHANGED github
    BY <1>2, <1>4 DEF PublishImplementation
  <2> QED BY <2>1, SameHub, SameBooks, FailedJob, SteadyKeeps DEF PublishImplementation
<1>5. CASE j.published = 0 /\ Publishable(key)
  <2>1. PICK n : n = Len(github'.log)
    OBVIOUS
  <2>2. PICK k : k = [j EXCEPT !.at = at, !.published = n]
    OBVIOUS
  <2>3. /\ PublishTo(key, files) /\ jobs' = (jobs \ {j}) \cup {k}
    BY <1>2, <1>5, <2>1, <2>2 DEF PublishImplementation, Set
  <2>4. key \in Keys /\ files \in [1..MaxPlans -> Texts]
    BY <1>1, <1>2, JobTyped, HeadFiles DEF Keys, Stages
  <2>5. n \in Commits /\ n # 0
    BY <2>1, <2>3, <2>4, PublishedTip
  <2>6. /\ k \in JobRows /\ k.id = j.id /\ k.kind = j.kind /\ k.status = j.status /\ k.pins = j.pins
        /\ k.at = "published" /\ k.request = j.request /\ k.published = n /\ k.indexed = j.indexed
    BY <1>1, <1>2, <2>2, <2>5 DEF JobRows, Progress
  <2>7. Row(k)
    BY <1>1, <1>5, <2>5, <2>6 DEF Row, Publishing, Implementing
  <2>8. PICK stage \in Stages : stage = "implementation"
    BY DEF Stages
  <2>9. SameButCommits(j, k, stage) /\ Publishes(j, stage) /\ Recorded(k, stage) = n
    BY <1>1, <1>5, <2>6, <2>8 DEF SameButCommits, Publishes, Recorded
  <2>10. key = <<j.id, stage>>
    BY <1>2, <2>8
  <2>11. UNCHANGED <<task, made, plans, ledger, pending, merging>> /\ Calm
    BY <1>2, <1>5 DEF PublishImplementation
  <2>12. Recorded(k, stage) = Len(github'.log)
    BY <2>1, <2>9
  <2> QED BY <1>5, <2>3, <2>4, <2>6, <2>7, <2>9, <2>10, <2>11, <2>12, PublishKeeps
<1> QED BY <1>3, <1>4, <1>5

LEMMA PublishIndexKeeps == ASSUME IInv, NEW j \in jobs, PublishIndex(j) PROVE IInv'
<1>1. /\ j \in JobRows /\ Row(j) /\ Implementing(j) /\ j.at = "recorded" /\ j.status = "running"
      /\ j.request # <<>> /\ j.published # 0 /\ j.published = j.pins.head
  BY Typed DEF IInv, JobRowsTell, PublishIndex, Current, Row
<1>2. PICK key, at, files : /\ key = <<j.id, "index">> /\ at = "indexed" /\ files = FilesAt(task.head)
  OBVIOUS
<1>3. CASE j.indexed # 0
  <2>1. HubSteady /\ Books /\ Steady
    BY <1>3, SameHub, SameBooks, SameTask DEF PublishIndex
  <2>2. JobsMove
    BY <1>1, <1>2, <1>3, JobsAt DEF PublishIndex, Progress
  <2> QED BY <2>1, <2>2, SteadyKeeps
<1>4. CASE j.indexed = 0 /\ ~Publishable(key)
  <2>1. Fail(j) /\ UNCHANGED github
    BY <1>2, <1>4 DEF PublishIndex
  <2> QED BY <2>1, SameHub, SameBooks, FailedJob, SteadyKeeps DEF PublishIndex
<1>5. CASE j.indexed = 0 /\ Publishable(key)
  <2>1. PICK n : n = Len(github'.log)
    OBVIOUS
  <2>2. PICK k : k = [j EXCEPT !.at = at, !.indexed = n]
    OBVIOUS
  <2>3. /\ PublishTo(key, files) /\ jobs' = (jobs \ {j}) \cup {k}
    BY <1>2, <1>5, <2>1, <2>2 DEF PublishIndex, Set
  <2>4. key \in Keys /\ files \in [1..MaxPlans -> Texts]
    BY <1>1, <1>2, JobTyped, HeadFiles DEF Keys, Stages
  <2>5. n \in Commits /\ n # 0
    BY <2>1, <2>3, <2>4, PublishedTip
  <2>6. /\ k \in JobRows /\ k.id = j.id /\ k.kind = j.kind /\ k.status = j.status /\ k.pins = j.pins
        /\ k.at = "indexed" /\ k.request = j.request /\ k.published = j.published /\ k.indexed = n
    BY <1>1, <1>2, <2>2, <2>5 DEF JobRows, Progress
  <2>7. Row(k)
    BY <1>1, <2>5, <2>6 DEF Row, Publishing, Implementing
  <2>8. PICK stage \in Stages : stage = "index"
    BY DEF Stages
  <2>9. SameButCommits(j, k, stage) /\ Publishes(j, stage) /\ Recorded(k, stage) = n
    BY <1>1, <1>5, <2>6, <2>8 DEF SameButCommits, Publishes, Recorded
  <2>10. key = <<j.id, stage>>
    BY <1>2, <2>8
  <2>11. UNCHANGED <<task, made, plans, ledger, pending, merging>> /\ Calm
    BY <1>2, <1>5 DEF PublishIndex
  <2>12. Recorded(k, stage) = Len(github'.log)
    BY <2>1, <2>9
  <2> QED BY <1>5, <2>3, <2>4, <2>6, <2>7, <2>9, <2>10, <2>11, <2>12, PublishKeeps
<1> QED BY <1>3, <1>4, <1>5

LEMMA LosePublicationKeeps == ASSUME IInv, NEW j \in jobs, LosePublication(j) PROVE IInv'
<1>1. j \in JobRows /\ Row(j) /\ j.kind # "clarify" /\ Len(plans) \in Nat
  BY Typed DEF IInv, JobRowsTell, LosePublication
<1>2. PICK stage \in Stages :
         /\ IF j.kind = "plan" THEN stage = "plan" /\ j.at = "result"
            ELSE \/ stage = "implementation" /\ j.at = "result"
                 \/ stage = "index" /\ j.at = "recorded"
         /\ IF stage = "index" THEN j.indexed = 0 ELSE j.published = 0
         /\ Publishable(<<j.id, stage>>) /\ ~Published(<<j.id, stage>>)
         /\ stage = "plan" => Len(plans) < MaxPlans
         /\ PublishTo(<<j.id, stage>>,
                      IF stage = "plan" THEN [FilesAt(task.head) EXCEPT ![Len(plans) + 1] = j.id]
                      ELSE FilesAt(task.head))
  BY DEF LosePublication, Stages
<1>3. PICK key, files :
         /\ key = <<j.id, stage>>
         /\ files = IF stage = "plan" THEN [FilesAt(task.head) EXCEPT ![Len(plans) + 1] = j.id]
                    ELSE FilesAt(task.head)
  OBVIOUS
<1>4. files \in [1..MaxPlans -> Texts]
  <2>1. CASE stage = "plan"
    BY <1>2, <1>3, <2>1, PlanFiles
  <2>2. CASE stage # "plan"
    BY <1>3, <2>2, HeadFiles
  <2> QED BY <2>1, <2>2
<1>5. Publishable(key) /\ ~Published(key) /\ PublishTo(key, files)
  BY <1>2, <1>3
<1>6. PICK status, at : status = "queued" /\ at = "start"
  OBVIOUS
<1>7. PICK k : k = [j EXCEPT !.status = status, !.at = at]
  OBVIOUS
<1>8. /\ k \in JobRows /\ k.id = j.id /\ k.kind = j.kind /\ k.status = "queued" /\ k.pins = j.pins
      /\ k.at = "start" /\ k.request = j.request /\ k.published = j.published /\ k.indexed = j.indexed
  BY <1>1, <1>6, <1>7 DEF JobRows, JobStatuses, Progress
<1>9. jobs' = (jobs \ {j}) \cup {k}
  BY <1>6, <1>7 DEF LosePublication, Set
<1>10. Row(k)
  BY <1>1, <1>8 DEF Row, Implementing
<1>11. SameButCommits(j, k, stage) /\ Publishes(j, stage) /\ Recorded(k, stage) = 0
  <2>1. j.request # <<>>
    BY <1>1, <1>2 DEF Row
  <2>2. IF stage = "plan" THEN j.kind = "plan" ELSE Implementing(j)
    BY <1>2 DEF LosePublication, Implementing
  <2> QED BY <1>2, <1>8, <2>1, <2>2 DEF SameButCommits, Publishes, Recorded
<1> QED BY <1>3, <1>4, <1>5, <1>8, <1>9, <1>10, <1>11, PublishKeeps DEF LosePublication

LEMMA PushKeeps == ASSUME IInv, Push PROVE IInv'
<1>1. /\ github \in Hubs /\ Tip \in Nat /\ Tip # 0 /\ Tip < MaxCommits /\ github.pr # "none"
      /\ task.plan \in Versions /\ task.req # 0
  BY Tips, Typed, TaskTyped, WorkflowV2Assumption DEF IInv, Push, Grown
<1>2. PICK files \in {FilesAt(Tip)} \cup
                     {[FilesAt(Tip) EXCEPT ![v] = Foreign] : v \in {task.plan} \ {0}} :
         Interfere([github EXCEPT !.log = Append(@, [key |-> <<>>, files |-> files])])
  BY DEF Push
<1>3. files \in [1..MaxPlans -> Texts]
  <2>1. FilesAt(Tip) \in [1..MaxPlans -> Texts]
    BY <1>1, FilesTyped
  <2> QED BY <1>2, <2>1, Numbers
<1>4. PICK key \in Keys : key = <<>>
  BY DEF Keys
<1>5. /\ Longer(key, files)
      /\ github' = [github EXCEPT !.log = Append(@, [key |-> key, files |-> files])]
  BY <1>1, <1>2, <1>4 DEF Interfere, Longer, Hubs
<1>6. github'.log \in Seq(Commit)
  BY <1>3, <1>5, LongerLog
<1>7. /\ github' \in Hubs /\ github'.merged = github.merged /\ github'.pr # "none"
      /\ github'.draft = (github.draft \/ github.pr = "none")
  BY <1>1, <1>5, <1>6 DEF Hubs
<1>8. JobsGrow
  BY <1>2, DroppedJobs, MovesGrow DEF Interfere
<1>9. \A k \in jobs' : Known(k)'
  BY <1>2, <1>3, <1>4, <1>5, KnownStill DEF Interfere
<1> QED BY <1>1, <1>2, <1>3, <1>4, <1>5, <1>7, <1>8, <1>9, LongerKeeps DEF Interfere

-----------------------------------------------------------------------------
(* The specification                                                        *)

LEMMA Initially == Init => IInv
<1> SUFFICES ASSUME Init PROVE IInv
  OBVIOUS
<1>1. Tip = 0 /\ github.log = <<>> /\ github.log \in Seq(Commit)
  BY DEF Init, Tip
<1>2. PICK pair : pair = [req |-> 0, plan |-> 0]
  OBVIOUS
<1>3. PICK counts : counts = [plan |-> 0, fix |-> 0]
  OBVIOUS
<1>4. pair \in Pairs /\ counts \in Counts
  BY <1>2, <1>3 DEF Pairs, Counts
<1>5. /\ task \in TaskRows /\ task.head = 0 /\ task.plan = 0 /\ ~task.reqApproved
      /\ task.state = "DraftingRequirements" /\ task.retry = "none"
      /\ task.merge = None /\ task.review = None
  BY <1>2, <1>3, <1>4, NoneTyped, Numbers DEF Init, TaskRows, States, Working, Pairs, Counts
<1>6. PICK j \in jobs : jobs = {j} /\ j.id = 1 /\ j.kind = "draft" /\ j.status = "queued"
                        /\ j.pins = None /\ j.at = "start" /\ j.request = <<>> /\ j.saved = FALSE
                        /\ j.verdict = "none" /\ j.published = 0 /\ j.indexed = 0
                        /\ j = [id |-> 1, kind |-> "draft", status |-> "queued", pins |-> None,
                                at |-> "start", request |-> <<>>, saved |-> FALSE,
                                verdict |-> "none", published |-> 0, indexed |-> 0]
  BY DEF Init
<1>7. 1 \in JobIds /\ made = 1
  BY WorkflowV2Assumption DEF Init, JobIds
<1>8. j \in JobRows
  BY <1>6, <1>7, NoneTyped, Numbers DEF JobRows, Kinds, JobStatuses, Progress, Verdicts
<1>9. Row(j)
  BY <1>6, <1>7 DEF Row, Implementing
<1>10. github \in Hubs
  BY <1>1, NoneTyped, Numbers DEF Init, Hubs, Placeholder
<1>11. plans = <<>> /\ Len(plans) = 0 /\ plans \in Seq(Plans)
  BY DEF Init
<1>12. Tables
  <2>1. trouble \in 0..MaxTrouble /\ merging \in BOOLEAN /\ ledger = {} /\ pending = {}
    <3>1. ledger = {} /\ pending = {} /\ trouble = 0 /\ (merging = FALSE)
      BY DEF Init
    <3>2. merging \in BOOLEAN
      BY <3>1
    <3> QED BY <3>1, <3>2, WorkflowV2Assumption
  <2>2. Tip <= MaxCommits /\ task.head <= Tip
    BY <1>1, <1>5, WorkflowV2Assumption
  <2> QED BY <1>5, <1>6, <1>7, <1>8, <1>10, <1>11, <2>1, <2>2 DEF Tables, Plans, Hubs
<1>13. JobRowsTell /\ Grown /\ Reviews
  BY <1>1, <1>5, <1>6, <1>9, <1>11 DEF JobRowsTell, Grown, Reviews, Implementing, Init, States, Working
<1>14. Branch /\ Works
  BY <1>1, <1>6 DEF Branch, Known, Works, Init
<1>15. Approvals /\ PublishedOnce /\ MergedAsReviewed
  BY <1>1, <1>5 DEF Approvals, PublishedOnce, MergedAsReviewed, Init
<1> QED BY <1>10, <1>12, <1>13, <1>14, <1>15 DEF IInv

LEMMA ExecutionKeeps == ASSUME IInv, NEW j \in jobs, Execution(j) PROVE IInv'
BY PrepareKeeps, ReuseKeeps, PersistKeeps, AskKeeps, ReturnKeeps,
   RejectKeeps, ProposeKeeps, DraftedKeeps, PublishPlanKeeps, PlannedKeeps, PlanReviewedKeeps,
   PublishImplementationKeeps, RecordHeadKeeps, PublishIndexKeeps, ReadyForReviewKeeps,
   ImplementedKeeps, LosePublicationKeeps, PostReviewKeeps, FinishReviewKeeps DEF Execution

LEMMA DispatchKeeps == ASSUME IInv, NEW j \in jobs, Dispatch(j) PROVE IInv'
BY ClaimKeeps, GiveUpKeeps, ReturnKeeps DEF Dispatch

LEMMA RegistrationKeeps == ASSUME IInv, NEW p \in pending, Registration(p) PROVE IInv'
BY RegisterRequirementsKeeps, RegisterPlanKeeps, CompletePlanReviewKeeps DEF Registration

LEMMA CommandKeeps == ASSUME IInv, Command PROVE IInv'
BY ApproveRequirementsKeeps, ApprovePlanKeeps, ApproveMergeKeeps, AnswerImplementationKeeps,
   ReviseKeeps, StopKeeps, RestartKeeps, RetryProposalKeeps, RetryFailedKeeps
   DEF Command, Pause, Cancel, Resume, RetryAnew

LEMMA ReconcileKeeps == ASSUME IInv, Reconcile PROVE IInv'
BY ReconcileIssueKeeps, ReconcilePlanKeeps, ReconcileMergedKeeps, HaltKeeps, ReconcileHeadKeeps,
   AskToMergeKeeps, MergeKeeps, MergeRefusedKeeps DEF Reconcile

LEMMA WorldKeeps == ASSUME IInv, World PROVE IInv'
BY EditKeeps, PushKeeps, MoveBaseKeeps, PullKeeps, ExpireApprovalKeeps DEF World

(* What the stall recovery read still stands when it writes: the row of the
   task, its open jobs, no call of the service is on its way, and the job
   that is repeated is of the task's present identity.                      *)
Stands ==
    /\ task = recovery.row /\ recovery.open = {j.id : j \in OpenJobs} /\ pending = {}
    /\ \E j \in OpenJobs : j.kind = recovery.kind /\ IdentityCurrent(j)
Undisturbed == [][RecoverStalled => Stands]_vars

LEMMA RecalledTask ==
    ASSUME IInv, task = recovery.row
    PROVE  Recalled = task
<1>1. task \in TaskRows
  BY Typed DEF IInv
<1>2. /\ task.mergeLive \in BOOLEAN
      /\ task = [task EXCEPT !.state = task.state, !.body = task.body,
                   !.reqApproved = task.reqApproved, !.revisions = task.revisions,
                   !.mergeLive = task.mergeLive]
  BY <1>1 DEF TaskRows
<1>3. (task.mergeLive /\ (task.merge = task.merge => task.mergeLive)) = task.mergeLive
  BY <1>2
<1> QED BY <1>2, <1>3 DEF Recalled

LEMMA RecoveryMoves ==
    ASSUME IInv, RecoverStalled, Stands
    PROVE  Steady /\ JobsMove
<1>1. task \in TaskRows /\ IdentityOf(task) \in Identities /\ Recalled = task
  BY Typed, TaskTyped, RecalledTask DEF IInv, Stands
<1>2. CASE recovery.row.stalled
  <2>1. task' = To(task, "Blocked")
    BY <1>1, <1>2 DEF RecoverStalled
  <2>2. Steady
    BY <2>1, MovedTask DEF States, STOPPED
  <2>3. JobsMove
    BY <1>2, DroppedJobs DEF RecoverStalled
  <2> QED BY <2>2, <2>3
<1>3. CASE ~recovery.row.stalled
  <2>1. PICK retried \in BOOLEAN : task' = [task EXCEPT !.stalled = retried]
    BY <1>1, <1>3 DEF RecoverStalled
  <2>2. /\ task' \in TaskRows /\ task'.state = task.state /\ task'.retry = task.retry
        /\ task'.head = task.head /\ task'.plan = task.plan /\ task'.req = task.req
        /\ task'.reqApproved = task.reqApproved /\ task'.merge = task.merge
        /\ task'.review = task.review
    BY <1>1, <2>1 DEF TaskRows
  <2>3. Steady
    BY <2>2 DEF Steady, Awaits, IInv, Grown
  <2>4. PICK k \in jobs : k.kind = recovery.kind /\ IdentityCurrent(k)
    BY DEF Stands, OpenJobs
  <2>5. /\ k \in JobRows /\ k.kind \in Kinds
        /\ k.kind = "review" => task.req # 0 /\ task.head # 0 /\ task.head \in Commits
    <3>1. k \in JobRows /\ k.kind \in Kinds
      BY <2>4, Typed, JobTyped DEF IInv
    <3>2. ASSUME k.kind = "review" PROVE task.req # 0 /\ task.head # 0 /\ task.head \in Commits
      BY <2>4, <3>2, <1>1, TaskTyped DEF IInv, Reviews, Pinned, IdentityCurrent
    <3> QED BY <3>1, <3>2
  <2>6. PICK rows : /\ rows = {j \in jobs : j.id \notin recovery.open}
                    /\ EnqueuePinned(rows, k.kind, IdentityOf(task))
    BY <1>3, <2>4 DEF RecoverStalled, Stands
  <2>7. /\ IdentityOf(task).req = task.req /\ IdentityOf(task).head = task.head
        /\ IdentityOf(task).plan = task.plan
    BY DEF IdentityOf
  <2>8. task.head \in Nat
    BY <1>1, TaskTyped, Numbers
  <2>9. JobsMove
    BY <1>1, <2>2, <2>5, <2>6, <2>7, <2>8, QueuedJob
  <2> QED BY <2>3, <2>9
<1> QED BY <1>2, <1>3

LEMMA RecoverStalledKeeps == ASSUME IInv, RecoverStalled, Stands PROVE IInv'
<1>1. UNCHANGED github /\ Calm /\ UNCHANGED <<plans, ledger, pending, merging>>
  BY DEF RecoverStalled
<1> QED BY <1>1, RecoveryMoves, SameHub, SameBooks, SteadyKeeps

LEMMA SameKeeps ==
    ASSUME IInv, UNCHANGED <<task, jobs, made, plans, ledger, pending, merging, github>>,
           Calm \/ Troubled
    PROVE  IInv'
<1>1. HubSteady
  BY SameHub
<1> QED BY <1>1, WorldSteady

LEMMA NextKeeps == ASSUME IInv, Next, RecoverStalled => Stands PROVE IInv'
<1>1. CASE Steps
  BY <1>1, ExecutionKeeps, DispatchKeeps, RegistrationKeeps, CommandKeeps, ReconcileKeeps, WorldKeeps
     DEF Steps
<1>2. CASE ReadStalled
  BY <1>2, SameKeeps DEF ReadStalled
<1> QED BY <1>1, <1>2, RecoverStalledKeeps, CrashKeeps DEF Next, StallRecovery

LEMMA StutterKeeps == ASSUME IInv, UNCHANGED vars PROVE IInv'
BY SameKeeps DEF vars, Calm

(* What jobs, branch and approvals tell of each other stands in every state
   that a run reaches in which what the recovery reads stands.               *)
THEOREM Inductive == Spec /\ Undisturbed => []IInv
<1>1. IInv /\ [Next]_vars /\ [RecoverStalled => Stands]_vars => IInv'
  BY NextKeeps, StutterKeeps
<1> QED BY Initially, <1>1, PTL DEF Spec, Undisturbed

(* Every row keeps its type and the task's head is a commit of its branch
   (the tables of domain.py and db.py, and GitHub.publish).                 *)
THEOREM TypeCorrect == Spec /\ Undisturbed => []TypeOK
<1> DEFINE Reads == recovery \in Recoveries \cup {<<>>}
<1>1. Init => Reads
  BY DEF Init
<1>2. IInv /\ Reads /\ [Next]_vars => Reads'
  <2>1. CASE UNCHANGED recovery
    BY <2>1
  <2>2. CASE RecoverStalled \/ Crash
    BY <2>2 DEF RecoverStalled, Crash
  <2>3. ASSUME IInv, ReadStalled PROVE Reads'
    <3>1. PICK latest \in OpenJobs :
             recovery' = [row |-> task, open |-> {j.id : j \in OpenJobs}, kind |-> latest.kind]
      BY <2>3 DEF ReadStalled
    <3>2. task \in TaskRows /\ latest.kind \in Kinds /\ \A j \in OpenJobs : j.id \in JobIds
      BY <2>3, Typed, JobTyped DEF IInv, OpenJobs
    <3> QED BY <3>1, <3>2 DEF Recoveries
  <2> QED BY <2>1, <2>2, <2>3 DEF Next, StallRecovery, vars
<1>3. IInv /\ Reads => TypeOK
  BY DEF IInv, TypeOK
<1> QED BY <1>1, <1>2, <1>3, Inductive, PTL DEF Spec

(* A job puts each of its commits on the branch at most once, whatever is
   lost, repeated or pushed in between (Engine.external, GitHub.publish).    *)
THEOREM PublishesOnce == Spec /\ Undisturbed => []PublishedOnce
<1>1. IInv => PublishedOnce
  BY DEF IInv
<1> QED BY Inductive, <1>1, PTL

(* What the orchestrator merges was confirmed, reviewed and approved as the
   one head, base, requirements and plan it is (Engine.merge_gate).         *)
THEOREM MergesAsReviewed == Spec /\ Undisturbed => []MergedAsReviewed
<1>1. IInv => MergedAsReviewed
  BY DEF IInv
<1> QED BY Inductive, <1>1, PTL

-----------------------------------------------------------------------------
(* A stop holds, whatever the recovery writes: of the rows only their shape
   is needed, and that no write disturbs                                    *)

Shape ==
    /\ "state" \in DOMAIN task
    /\ {"log", "review", "draft", "merged"} \subseteq DOMAIN github
    /\ recovery # <<>> => "state" \in DOMAIN recovery.row /\ recovery.row.state \in Working
Shaped == DOMAIN task' = DOMAIN task /\ DOMAIN github' = DOMAIN github

LEMMA ExecutionShaped == ASSUME NEW j \in jobs, Execution(j) PROVE Shaped
<1>1. CASE Prepare(j) \/ Reuse(j) \/ Persist(j) \/ Ask(j) \/ Reject(j) \/ Disconnect(j)
           \/ Propose(j) \/ Drafted(j)
  BY <1>1 DEF Shaped, Prepare, Reuse, Persist, Ask, Reject, Disconnect, Propose, Drafted, Fail, To
<1>2. CASE \/ PublishPlan(j) \/ PublishImplementation(j) \/ PublishIndex(j) \/ LosePublication(j)
           \/ ReadyForReview(j) \/ PostReview(j)
  BY <1>2 DEF Shaped, PublishPlan, PublishImplementation, PublishIndex, LosePublication, PublishTo,
     ReadyForReview, PostReview, Fail, To
<1>3. CASE Planned(j) \/ PlanReviewed(j) \/ RecordHead(j) \/ Implemented(j) \/ FinishReview(j)
  BY <1>3 DEF Shaped, Planned, PlanReviewed, RecordHead, Implemented, FinishReview, To, Unapproved
<1> QED BY <1>1, <1>2, <1>3 DEF Execution

LEMMA OthersShaped ==
    ASSUME \/ \E j \in jobs : Dispatch(j)
           \/ \E p \in pending : Registration(p)
           \/ Command \/ Reconcile \/ World \/ Crash
    PROVE  Shaped
<1>1. CASE \E j \in jobs : Dispatch(j)
  BY <1>1 DEF Shaped, Dispatch, Claim, GiveUp, Lapse, To
<1>2. CASE \E p \in pending : Registration(p)
  BY <1>2 DEF Shaped, Registration, RegisterRequirements, RegisterPlan, CompletePlanReview, To
<1>3. CASE Command
  BY <1>3 DEF Shaped, Command, ApproveRequirements, ApprovePlan, ApproveMerge, AnswerImplementation,
     Revise, Pause, Cancel, Stop, Resume, Restart, RetryProposal, RetryFailed, RetryAnew,
     Invalidated, Unapproved, To
<1>4. CASE Reconcile
  BY <1>4 DEF Shaped, Reconcile, ReconcileIssue, ReconcilePlan, ReconcileMerged, ReconcileClosed,
     ReconcileHead, ReconcileRefused, FailedChecks, AskToMerge, BeginMerge, Merge, MergedByUs,
     MergeRefused, ReconcileFails, Halt, Invalidated, Unapproved, To
<1>5. CASE World \/ Crash
  BY <1>5 DEF Shaped, World, CopyProposal, EditIssue, Push, MoveBase, MergeOutside, ClosePull,
     Interfere, ExpireApproval, Crash
<1> QED BY <1>1, <1>2, <1>3, <1>4, <1>5

(* The row that the recovery writes: where its state is from.               *)
LEMMA Recalls ==
    ASSUME Shape, RecoverStalled
    PROVE  /\ "state" \in DOMAIN task' /\ task'.state \in {task.state, "Blocked"}
           /\ recovery.row.state \in Working /\ recovery' = <<>>
           /\ UNCHANGED <<plans, ledger, github>>
<1>1. /\ "state" \in DOMAIN recovery.row /\ recovery.row.state \in Working
      /\ recovery' = <<>> /\ UNCHANGED <<plans, ledger, github>>
  BY DEF Shape, RecoverStalled
<1>2. "state" \in DOMAIN Recalled /\ Recalled.state = task.state
  BY <1>1 DEF Recalled
<1>3. task' = To(Recalled, "Blocked") \/ \E retried \in BOOLEAN : task' = [Recalled EXCEPT !.stalled = retried]
  BY DEF RecoverStalled
<1>4. "state" \in DOMAIN task' /\ task'.state \in {task.state, "Blocked"}
  BY <1>2, <1>3 DEF To
<1> QED BY <1>1, <1>4

LEMMA ShapeStays == Shape /\ [Next]_vars => Shape'
<1>1. ASSUME Shape, Shaped, recovery' \in {recovery, <<>>} PROVE Shape'
  BY <1>1 DEF Shape, Shaped
<1>2. ASSUME Shape, Steps /\ UNCHANGED recovery PROVE Shape'
  BY <1>1, <1>2, ExecutionShaped, OthersShaped DEF Steps
<1>3. ASSUME Shape, Crash PROVE Shape'
  BY <1>1, <1>3, OthersShaped DEF Crash
<1>4. ASSUME Shape, ReadStalled PROVE Shape'
  <2>1. recovery'.row = task /\ task.state \in Working /\ UNCHANGED <<task, github>>
    BY <1>4 DEF ReadStalled
  <2> QED BY <1>4, <2>1 DEF Shape
<1>5. ASSUME Shape, RecoverStalled PROVE Shape'
  BY <1>5, Recalls DEF Shape
<1>6. ASSUME Shape, UNCHANGED vars PROVE Shape'
  BY <1>6 DEF Shape, vars
<1> QED BY <1>2, <1>3, <1>4, <1>5, <1>6 DEF Next, StallRecovery

(* Nothing decides or publishes anything for a task that is stopped.         *)
Held ==
    /\ task'.state = task.state \/ (WrittenOver /\ task'.state = "Blocked")
    /\ UNCHANGED <<plans, ledger, github.review, github.draft, github.merged>>
    /\ UNCHANGED github.log \/ Push

LEMMA SameHolds == ASSUME UNCHANGED <<task, plans, ledger, github>> PROVE Held
BY DEF Held

LEMMA ExecutionStops == ASSUME Stopped, NEW j \in jobs, Execution(j) PROVE FALSE
<1>1. ~Current(j)
  BY DEF Stopped, STOPPED, Current
<1> QED
  BY <1>1 DEF Execution, Prepare, Reuse, Persist, Ask, Reject, Disconnect, Propose,
     Drafted, PublishPlan, Planned, PlanReviewed, PublishImplementation, RecordHead, PublishIndex,
     ReadyForReview, Implemented, LosePublication, PostReview, FinishReview

LEMMA DispatchStops == ASSUME Stopped, NEW j \in jobs, Dispatch(j) PROVE Held
<1>1. task.state \in STOPPED
  BY DEF Stopped, STOPPED
<1> QED BY <1>1, SameHolds DEF Dispatch, Claim, GiveUp, Lapse

LEMMA RegistrationStops == ASSUME Stopped, NEW p \in pending, Registration(p) PROVE Held
<1>1. task.state \notin {"DraftingRequirements", "PlanningImplementation", "ReviewingImplementationPlan"}
  BY DEF Stopped
<1>2. UNCHANGED <<task, plans, ledger, github>>
  BY <1>1 DEF Registration, RegisterRequirements, RegisterPlan, CompletePlanReview
<1> QED BY <1>2, SameHolds

LEMMA CommandStops == ASSUME Shape, Stopped, Command PROVE Held \/ Ended
<1>1. task.state \notin {"Blocked", "AwaitingRequirementsConfirmation", "AwaitingPlanApproval",
                         "AwaitingMergeApproval"}
  BY DEF Stopped
<1>2. Revise \/ Pause \/ Cancel \/ Resume
  BY <1>1 DEF Command, ApproveRequirements, ApprovePlan, ApproveMerge, AnswerImplementation, Asked,
     RetryProposal, RetryFailed, RetryAnew
<1>3. CASE task.state = "Paused" /\ ~Pause
  BY <1>2, <1>3 DEF Ended, Cancel
<1>4. CASE task.state = "Paused" /\ Pause
  <2>1. task' = Unapproved(To(task, "Paused")) /\ UNCHANGED <<plans, ledger, github>>
    BY <1>4 DEF Pause, Stop, Invalidated
  <2>2. task'.state = "Paused"
    BY <2>1 DEF Shape, To, Unapproved
  <2> QED BY <1>4, <2>1, <2>2 DEF Held
<1>5. CASE task.state = "Cancelled"
  BY <1>2, <1>5 DEF Revise, Pause, Cancel, Stop, Resume
<1> QED BY <1>3, <1>4, <1>5 DEF Stopped

LEMMA ReconcileStops == ASSUME Stopped, Reconcile PROVE Held
<1>1. ~Reconciled /\ task.state \notin Gated /\ task.state \in STOPPED
  BY DEF Stopped, Reconciled, Gated, STOPPED
<1>2. MergeRefused
  BY <1>1 DEF Reconcile, ReconcileIssue, ReconcilePlan, ReconcileMerged, Confirmed, ReconcileClosed,
     Unmerged, ReconcileHead, ReconcileRefused, Aligned, FailedChecks, AskToMerge, BeginMerge, Merge,
     GateRefuses, ReconcileFails
<1>3. UNCHANGED <<task, plans, ledger, github>>
  BY <1>1, <1>2 DEF MergeRefused
<1> QED BY <1>3, SameHolds

LEMMA WorldStops == ASSUME Shape, Stopped, World PROVE Held
<1>1. CASE ExpireApproval
  BY <1>1 DEF Shape, Held, ExpireApproval
<1>2. CASE World /\ ~ExpireApproval
  <2>1. UNCHANGED <<task, plans, ledger>>
    BY <1>2 DEF World, CopyProposal, EditIssue, Push, MoveBase, MergeOutside, ClosePull, Interfere
  <2>2. UNCHANGED <<github.review, github.draft, github.merged>>
    BY <1>2 DEF Shape, World, CopyProposal, EditIssue, Push, MoveBase, MergeOutside, ClosePull, Interfere
  <2>3. UNCHANGED github.log \/ Push
    BY <1>2 DEF Shape, World, CopyProposal, EditIssue, MoveBase, MergeOutside, ClosePull, Interfere
  <2> QED BY <2>1, <2>2, <2>3 DEF Held
<1> QED BY <1>1, <1>2

(* A pause and a cancellation hold against everything in flight, until the
   owner takes the pause back (Engine.command, Engine.current, the guards of
   WorkflowV2Service and of reconcile).  Only a stall recovery that read the
   task at work may put Blocked over either, and even that releases, approves
   and publishes nothing (recover_stalled_v2).  No condition on what the
   recovery reads is needed.                                                *)
THEOREM StopsHold == Spec => StopHolds
<1>1. Init => Shape
  BY DEF Init, Shape
<1>2. ASSUME Shape, Next, Stopped PROVE Ended \/ Held
  <2>1. CASE Steps
    BY <1>2, <2>1, ExecutionStops, DispatchStops, RegistrationStops, CommandStops, ReconcileStops,
       WorldStops DEF Steps
  <2>2. CASE ReadStalled \/ Crash
    BY <2>2, SameHolds DEF ReadStalled, Crash
  <2>3. CASE RecoverStalled
    BY <1>2, <2>3, Recalls DEF Held, WrittenOver
  <2> QED BY <1>2, <2>1, <2>2, <2>3 DEF Next, StallRecovery
<1>3. UNCHANGED vars => Held
  BY SameHolds DEF vars
<1>4. Shape /\ [Next]_vars =>
         [Stopped =>
            \/ Ended
            \/ /\ task'.state = task.state \/ (WrittenOver /\ task'.state = "Blocked")
               /\ UNCHANGED <<plans, ledger, github.review, github.draft, github.merged>>
               /\ UNCHANGED github.log \/ Push]_vars
  BY <1>2, <1>3 DEF Held
<1> QED BY <1>1, <1>4, ShapeStays, PTL DEF Spec, StopHolds
=============================================================================
