--------------------------- MODULE SchedulerProofs ---------------------------
(***************************************************************************)
(* Proofs about Scheduler for every number of tasks, repositories, roles,  *)
(* jobs, controller processes and every lease length: first the inductive  *)
(* invariant and what it implies of leases and tokens; then, from it, the  *)
(* concurrency limits, the exclusion of two writers of a repository        *)
(* whatever their executions have read, and what a stopped task keeps.     *)
(***************************************************************************)
EXTENDS Scheduler, FiniteSetTheorems, TLAPS

-----------------------------------------------------------------------------
(* Types of the rows the actions write *)

(* A new job is a well-typed row when its task, kind, role and pin are.     *)
LEMMA NewJobType ==
    ASSUME NEW t \in Tasks, NEW kind \in Kinds, NEW role \in Roles,
           NEW identity \in Pins, NEW reformatted \in BOOLEAN
    PROVE  /\ NewJob(t, kind, role, identity, reformatted) \in JobRows
           /\ NewJob(t, kind, role, identity, reformatted).task = t
           /\ NewJob(t, kind, role, identity, reformatted).role = role
           /\ NewJob(t, kind, role, identity, reformatted).status = "queued"
  BY DEF NewJob, JobRows, Statuses, Deadlines, Lapsed

(* invalidate yields well-typed rows of the same tasks and roles.           *)
LEMMA InvalidatedType ==
    ASSUME TablesOK, NEW t \in Tasks
    PROVE  /\ Invalidated(t) \in [Jobs -> JobRows]
           /\ \A j \in Jobs : /\ Invalidated(t)[j].task = job[j].task
                              /\ Invalidated(t)[j].role = job[j].role
                              /\ Invalidated(t)[j].status = "absent" <=> job[j].status = "absent"
<1> SUFFICES ASSUME NEW j \in Jobs
             PROVE  /\ Invalidated(t)[j] \in JobRows
                    /\ Invalidated(t)[j].task = job[j].task
                    /\ Invalidated(t)[j].role = job[j].role
                    /\ Invalidated(t)[j].status = "absent" <=> job[j].status = "absent"
  BY DEF Invalidated
<1> DEFINE row == job[j]
<1>1. row \in JobRows
  BY DEF TablesOK
<1>2. CASE row.task = t /\ Open(j)
  <2> DEFINE new == [row EXCEPT !.status = "cancelled", !.fence = @ + 1]
  <2>1. Invalidated(t)[j] = new
    BY <1>2 DEF Invalidated
  <2>2. row.status \in {"queued", "running"}
    BY <1>2 DEF Open
  <2>3. new \in JobRows /\ new.task = row.task /\ new.role = row.role /\ new.status = "cancelled"
    <3>1. row.fence + 1 \in Nat
      BY <1>1 DEF JobRows
    <3> QED
      BY <1>1, <3>1 DEF JobRows, Statuses
  <2> QED
    BY <2>1, <2>2, <2>3
<1>3. CASE ~(row.task = t /\ Open(j))
  BY <1>1, <1>3 DEF Invalidated
<1> QED
  BY <1>2, <1>3

(* transition yields a well-typed task row with the same identity.          *)
LEMMA TransitionType ==
    ASSUME NEW row \in TaskRows, NEW state \in TaskStates
    PROVE  Transition(row, state) \in TaskRows
  BY DEF Transition, TaskRows

(* Deleting leases leaves a well-typed table.                               *)
LEMMA ReleasedType ==
    ASSUME TablesOK, NEW gone, NEW owner
    PROVE  /\ Released(gone) \in [Repos -> Leases \cup {NoLease}]
           /\ ReleasedBy(gone, owner) \in [Repos -> Leases \cup {NoLease}]
  BY DEF TablesOK, Released, ReleasedBy

(* A job table whose created rows belong to a task and a role.              *)
RowsOK(rows) == /\ rows \in [Jobs -> JobRows]
                /\ \A j \in Jobs : rows[j].status # "absent" =>
                                     rows[j].task \in Tasks /\ rows[j].role \in Roles

LEMMA RowsOfType == ASSUME TablesOK PROVE RowsOK(job)
  BY DEF TablesOK, RowsOK, Created

LEMMA InvalidatedRows == ASSUME TablesOK, NEW t \in Tasks PROVE RowsOK(Invalidated(t))
  BY InvalidatedType, RowsOfType DEF RowsOK

LEMMA ChangedRow ==
    ASSUME NEW rows, RowsOK(rows), NEW j \in Jobs, NEW row \in JobRows,
           row.status # "absent" => row.task \in Tasks /\ row.role \in Roles
    PROVE  RowsOK([rows EXCEPT ![j] = row])
  BY DEF RowsOK

(* Queueing a job keeps the job table well-typed.                           *)
LEMMA EnqueueType ==
    ASSUME NEW rows, RowsOK(rows), NEW n \in Jobs, NEW t \in Tasks, NEW kind \in Kinds,
           NEW role \in Roles, NEW identity \in Pins,
           Enqueue(rows, n, t, kind, role, identity)
    PROVE  RowsOK(job')
<1> DEFINE new == NewJob(t, kind, role, identity, FALSE)
<1>1. new \in JobRows /\ new.task = t /\ new.role = role
  BY NewJobType
<1> HIDE DEF new
<1>2. RowsOK([rows EXCEPT ![n] = new])
  BY <1>1, ChangedRow
<1> QED
  BY <1>2 DEF Enqueue, new

(* The parts of TablesOK an action must establish.                            *)
LEMMA TypeFromParts ==
    ASSUME leader' \in Nat, task' \in [Tasks -> TaskRows], RowsOK(job'),
           repoLease' \in [Repos -> Leases \cup {NoLease}],
           exec' \subseteq Executions, deploying' \in BOOLEAN
    PROVE  TablesOK'
  BY DEF TablesOK, RowsOK, Created

LEMMA PinTypes == ASSUME TablesOK, NEW t \in Tasks
                  PROVE  /\ task[t] \in TaskRows
                         /\ task[t].identity \in Nat
                         /\ task[t].identity \in Pins
                         /\ task[t].identity + 1 \in Nat
                         /\ task[t].identity + 1 \in Pins
<1>1. task[t] \in TaskRows
  BY DEF TablesOK
<1>2. task[t].identity \in Nat
  BY <1>1 DEF TaskRows
<1> QED
  BY <1>1, <1>2 DEF Pins

(* The row of a task after a transition under a new identity.               *)
LEMMA MovedType ==
    ASSUME TablesOK, NEW t \in Tasks, NEW state \in TaskStates, NEW identity \in Nat
    PROVE  /\ [task EXCEPT ![t] = Transition(@, state)] \in [Tasks -> TaskRows]
           /\ [task EXCEPT ![t] = Under(Transition(@, state), identity)] \in [Tasks -> TaskRows]
           /\ [task EXCEPT ![t].identity = identity] \in [Tasks -> TaskRows]
<1>1. task[t] \in TaskRows /\ task \in [Tasks -> TaskRows]
  BY DEF TablesOK
<1>2. Transition(task[t], state) \in TaskRows
  BY <1>1, TransitionType
<1>3. Under(Transition(task[t], state), identity) \in TaskRows
  BY <1>2 DEF TaskRows, Under
<1>4. [task[t] EXCEPT !.identity = identity] \in TaskRows
  BY <1>1 DEF TaskRows
<1> QED
  BY <1>1, <1>2, <1>3, <1>4

LEMMA LeadType == Lead \in Roles /\ "review" \in Kinds /\ "implement" \in Kinds
                  /\ "Active" \in TaskStates /\ "Blocked" \in TaskStates
                  /\ "Paused" \in TaskStates /\ "Cancelled" \in TaskStates
                  /\ Foreign \in Pins /\ Unpinned \in Pins
  BY SchedulerAssumption DEF Kinds, TaskStates, Foreign, Unpinned, Pins
-----------------------------------------------------------------------------
(* Commands keep the types *)

(* What the commands leave alone.                                           *)
LEMMA CommandType ==
    ASSUME TablesOK, NEW t \in Tasks, Command(t)
    PROVE  TablesOK'
<1>0. /\ leader \in Nat /\ task \in [Tasks -> TaskRows] /\ RowsOK(job)
      /\ repoLease \in [Repos -> Leases \cup {NoLease}]
      /\ exec \subseteq Executions /\ deploying \in BOOLEAN
  BY RowsOfType DEF TablesOK
<1>1. CASE Submit(t)
  <2>1. PICK n \in Jobs, s \in Submits : Enqueue(job, n, t, s[1], s[2], task[t].identity)
    BY <1>1 DEF Submit
  <2>2. s[1] \in Kinds /\ s[2] \in Roles
    BY SchedulerAssumption
  <2>3. RowsOK(job')
    BY <1>0, <2>1, <2>2, EnqueueType, PinTypes
  <2> QED
    BY <1>0, <1>1, <2>3, TypeFromParts DEF Submit
<1>2. CASE Register(t)
  <2>1. task' \in [Tasks -> TaskRows]
    BY <1>2, MovedType, PinTypes, LeadType DEF Register
  <2>2. RowsOK(job')
    <3>1. CASE UNCHANGED job
      BY <1>0, <3>1
    <3>2. CASE \E n \in Jobs : Enqueue(job, n, t, "review", Lead, task[t].identity + 1)
      BY <1>0, <3>2, EnqueueType, PinTypes, LeadType
    <3> QED
      BY <1>2, <3>1, <3>2 DEF Register
  <2> QED
    BY <1>0, <1>2, <2>1, <2>2, TypeFromParts DEF Register
<1>3. CASE Revise(t)
  <2>1. PICK identity \in IF VersionOf[t] = 1 THEN {task[t].identity + 1}
                          ELSE {task[t].identity, Unpinned} :
          \E n \in Jobs : Enqueue(Invalidated(t), n, t, "review", Lead, identity)
    BY <1>3 DEF Revise
  <2>2. identity \in Pins
    BY PinTypes, LeadType
  <2>3. RowsOK(job')
    BY <2>1, <2>2, EnqueueType, InvalidatedRows, LeadType
  <2>4. task' \in [Tasks -> TaskRows]
    <3> DEFINE next == IF VersionOf[t] = 1 THEN task[t].identity + 1 ELSE task[t].identity
    <3>1. task' = [task EXCEPT ![t] = Under(Transition(@, "Active"), next)]
      BY <1>3 DEF Revise
    <3>2. next \in Nat
      BY PinTypes
    <3> HIDE DEF next
    <3> QED
      BY <3>1, <3>2, MovedType, LeadType
  <2> QED
    BY <1>0, <1>3, <2>3, <2>4, TypeFromParts DEF Revise
<1>4. CASE AnswerImplementation(t)
  <2>1. PICK j \in Jobs, n \in Jobs :
          /\ IsLatest(j, t)
          /\ Enqueue(job, n, t, "implement", job[j].role, task[t].identity)
    BY <1>4 DEF AnswerImplementation
  <2>2. job[j].role \in Roles
    BY <1>0, <2>1 DEF IsLatest, Created, RowsOK
  <2>3. RowsOK(job')
    BY <1>0, <2>1, <2>2, EnqueueType, PinTypes, LeadType
  <2> QED
    BY <1>0, <1>4, <2>3, MovedType, PinTypes, LeadType, TypeFromParts
       DEF AnswerImplementation
<1>5. CASE Reidentify(t)
  <2>1. RowsOK(job')
    BY <1>5, EnqueueType, InvalidatedRows, PinTypes, LeadType DEF Reidentify
  <2>2. task' \in [Tasks -> TaskRows]
    BY <1>5, MovedType, PinTypes, LeadType DEF Reidentify
  <2> QED
    BY <1>0, <1>5, <2>1, <2>2, TypeFromParts DEF Reidentify
<1>6. CASE Pause(t)
  BY <1>0, <1>6, InvalidatedRows, MovedType, PinTypes, LeadType, TypeFromParts DEF Pause
<1>7. CASE Cancel(t)
  <2>1. repoLease' \in [Repos -> Leases \cup {NoLease}]
    BY <1>0, <1>7, ReleasedType DEF Cancel
  <2> QED
    BY <1>0, <1>7, <2>1, InvalidatedRows, MovedType, PinTypes, LeadType, TypeFromParts
       DEF Cancel
<1>8. ASSUME Restarted(t) PROVE RowsOK(job') /\ task' \in [Tasks -> TaskRows]
  <2>1. PICK n \in Jobs, identity \in {task[t].identity, Foreign} :
          Enqueue(job, n, t, "review", Lead, identity)
    BY <1>8 DEF Restarted
  <2>2. RowsOK(job')
    BY <1>0, <2>1, EnqueueType, PinTypes, LeadType
  <2> QED
    BY <1>8, <2>2, MovedType, PinTypes, LeadType DEF Restarted
<1>9. CASE Resume(t)
  BY <1>0, <1>8, <1>9, TypeFromParts DEF Resume
<1>10. CASE RetryAnew(t)
  BY <1>0, <1>8, <1>10, TypeFromParts DEF RetryAnew
<1>11. CASE RetryFailed(t)
  <2>1. PICK j \in Jobs :
          /\ job[j].status = "failed"
          /\ job' = [job EXCEPT ![j].status = "queued", ![j].attempt = 0,
                                ![j].owner = IF VersionOf[t] = 2 THEN 0 ELSE @,
                                ![j].lease = IF VersionOf[t] = 2 THEN Lapsed ELSE @]
    BY <1>11 DEF RetryFailed
  <2> DEFINE row == job[j]
             new == [row EXCEPT !.status = "queued", !.attempt = 0,
                                !.owner = IF VersionOf[t] = 2 THEN 0 ELSE @,
                                !.lease = IF VersionOf[t] = 2 THEN Lapsed ELSE @]
  <2>2. row \in JobRows /\ row.task \in Tasks /\ row.role \in Roles
    BY <1>0, <2>1 DEF RowsOK
  <2>3. new \in JobRows /\ new.task = row.task /\ new.role = row.role
    BY <2>2 DEF JobRows, Statuses, Deadlines, Lapsed
  <2>4. job' = [job EXCEPT ![j] = new]
    BY <1>0, <2>1 DEF RowsOK
  <2> HIDE DEF row, new
  <2>5. RowsOK(job')
    BY <1>0, <2>2, <2>3, <2>4, ChangedRow
  <2> QED
    BY <1>0, <1>11, <2>5, MovedType, PinTypes, LeadType, TypeFromParts DEF RetryFailed
<1>12. CASE RetryProposal(t)
  <2>1. PICK j \in Jobs :
          /\ job[j].status = "done"
          /\ job' = [job EXCEPT ![j].status = "queued", ![j].attempt = 0, ![j].owner = 0]
    BY <1>12 DEF RetryProposal
  <2> DEFINE row == job[j]
             new == [row EXCEPT !.status = "queued", !.attempt = 0, !.owner = 0]
  <2>2. row \in JobRows /\ row.task \in Tasks /\ row.role \in Roles
    BY <1>0, <2>1 DEF RowsOK
  <2>3. new \in JobRows /\ new.task = row.task /\ new.role = row.role
    BY <2>2 DEF JobRows, Statuses
  <2>4. job' = [job EXCEPT ![j] = new]
    BY <1>0, <2>1 DEF RowsOK
  <2> HIDE DEF row, new
  <2>5. RowsOK(job')
    BY <1>0, <2>2, <2>3, <2>4, ChangedRow
  <2> QED
    BY <1>0, <1>12, <2>5, MovedType, PinTypes, LeadType, TypeFromParts DEF RetryProposal
<1> QED
  BY <1>1, <1>2, <1>3, <1>4, <1>5, <1>6, <1>7, <1>9, <1>10, <1>11, <1>12
     DEF Command
-----------------------------------------------------------------------------
(* Executions keep the types *)

LEMMA ReplaceType ==
    ASSUME TablesOK, NEW x \in exec, NEW seen \in Deadlines \cup {Unread}
    PROVE  /\ [x EXCEPT !.seen = seen] \in Executions
           /\ Replace(x, [x EXCEPT !.seen = seen]) => exec' \subseteq Executions
           /\ (exec' = exec \ {x}) => exec' \subseteq Executions
<1>1. x \in Executions /\ exec \subseteq Executions
  BY DEF TablesOK
<1>2. [x EXCEPT !.seen = seen] \in Executions
  BY <1>1 DEF Executions
<1> QED
  BY <1>1, <1>2 DEF Replace

LEMMA NewReviewType ==
    ASSUME NEW t \in Tasks, NEW identity \in Pins
    PROVE  /\ NewJob(t, "review", Lead, identity, FALSE) \in JobRows
           /\ NewJob(t, "review", Lead, identity, FALSE).task \in Tasks
           /\ NewJob(t, "review", Lead, identity, FALSE).role \in Roles
<1>1. "review" \in Kinds /\ Lead \in Roles
  BY LeadType
<1> QED
  BY <1>1 DEF NewJob, JobRows, Statuses, Deadlines, Lapsed

(* A row whose status, identity, lease or mark changes stays well-typed.    *)
LEMMA RowChange ==
    ASSUME NEW row \in JobRows, row.task \in Tasks, row.role \in Roles,
           NEW status \in Statuses, NEW identity \in Pins, NEW lease \in Deadlines
    PROVE  /\ [row EXCEPT !.status = status] \in JobRows
           /\ [row EXCEPT !.status = status].task \in Tasks
           /\ [row EXCEPT !.status = status].role \in Roles
           /\ [row EXCEPT !.identity = identity] \in JobRows
           /\ [row EXCEPT !.identity = identity].task \in Tasks
           /\ [row EXCEPT !.identity = identity].role \in Roles
           /\ [row EXCEPT !.lease = lease] \in JobRows
           /\ [row EXCEPT !.lease = lease].task \in Tasks
           /\ [row EXCEPT !.lease = lease].role \in Roles
           /\ [row EXCEPT !.lease = lease, !.heard = TRUE] \in JobRows
           /\ [row EXCEPT !.lease = lease, !.heard = TRUE].task \in Tasks
           /\ [row EXCEPT !.lease = lease, !.heard = TRUE].role \in Roles
           /\ [row EXCEPT !.status = status, !.reformatted = TRUE] \in JobRows
           /\ [row EXCEPT !.status = status, !.reformatted = TRUE].task \in Tasks
           /\ [row EXCEPT !.status = status, !.reformatted = TRUE].role \in Roles
  BY DEF JobRows

LEMMA ExecutionType ==
    ASSUME TablesOK, TokenFences, NEW x \in exec, Execution(x)
    PROVE  TablesOK'
<1> DEFINE j == x.job
           t == job[j].task
<1>0. /\ leader \in Nat /\ task \in [Tasks -> TaskRows] /\ RowsOK(job)
      /\ repoLease \in [Repos -> Leases \cup {NoLease}]
      /\ exec \subseteq Executions /\ deploying \in BOOLEAN
  BY RowsOfType DEF TablesOK
<1>a. /\ j \in Jobs /\ job[j] \in JobRows /\ t \in Tasks /\ job[j].role \in Roles
      /\ job[j].status # "absent"
  BY <1>0 DEF TokenFences, Created, RowsOK
<1>b. /\ Unread \in Deadlines \cup {Unread} /\ LeaseSeconds \in Deadlines
      /\ job[j].lease \in Deadlines
      /\ "done" \in Statuses /\ "queued" \in Statuses /\ "failed" \in Statuses
  BY <1>a, SchedulerAssumption DEF Deadlines, JobRows, Statuses
<1>c. \A status \in Statuses :
        RowsOK([job EXCEPT ![j].status = status])
  <2> SUFFICES ASSUME NEW status \in Statuses
               PROVE  RowsOK([job EXCEPT ![j].status = status])
    OBVIOUS
  <2> DEFINE new == [job[j] EXCEPT !.status = status]
  <2>1. new \in JobRows /\ new.task \in Tasks /\ new.role \in Roles
    BY <1>a, <1>b, RowChange, SchedulerAssumption, LeadType
  <2>2. [job EXCEPT ![j].status = status] = [job EXCEPT ![j] = new]
    BY <1>0, <1>a DEF RowsOK
  <2> HIDE DEF new, j, t
  <2> QED
    BY <1>0, <1>a, <2>1, <2>2, ChangedRow
<1>1. CASE ReadJob(x)
  BY <1>0, <1>1, <1>b, ReplaceType, TypeFromParts DEF ReadJob
<1>2. CASE Heartbeat(x)
  <2>1. repoLease' \in [Repos -> Leases \cup {NoLease}]
    <3> SUFFICES ASSUME NEW r \in Repos, repoLease[r].job = x.job, repoLease[r] # NoLease
                 PROVE  [repoLease[r] EXCEPT !.expires = LeaseSeconds] \in Leases \cup {NoLease}
      BY <1>0, <1>2, <1>a DEF Heartbeat, NoLease, NoJob, Jobs
    <3>1. repoLease[r] \in Leases
      BY <1>0
    <3> QED
      BY <3>1, <1>b DEF Leases
  <2>2. RowsOK(job')
    <3> DEFINE new == [job[j] EXCEPT !.lease = LeaseSeconds, !.heard = TRUE]
    <3>1. new \in JobRows /\ new.task \in Tasks /\ new.role \in Roles
      BY <1>a, <1>b, RowChange, LeadType
    <3>2. job' = [job EXCEPT ![j] = new]
      BY <1>0, <1>2, <1>a DEF Heartbeat, RowsOK
    <3> HIDE DEF new, j, t
    <3> QED
      BY <1>0, <1>a, <3>1, <3>2, ChangedRow
  <2>3. exec' \subseteq Executions
    BY <1>2, <1>b, ReplaceType DEF Heartbeat
  <2> QED
    BY <1>0, <1>2, <2>1, <2>2, <2>3, TypeFromParts DEF Heartbeat
<1>3. CASE External(x)
  BY <1>0, <1>3, <1>b, ReplaceType, TypeFromParts DEF External
<1>4. CASE Refused(x)
  BY <1>0, <1>4, <1>b, ReplaceType, TypeFromParts DEF Refused
<1>5. CASE Record(x)
  <2>1. task' \in [Tasks -> TaskRows]
    BY <1>5, <1>a, MovedType, PinTypes, LeadType DEF Record
  <2>2. RowsOK(job')
    <3> DEFINE new == [job[j] EXCEPT !.identity = task[t].identity + 1]
    <3>1. new \in JobRows /\ new.task \in Tasks /\ new.role \in Roles
      BY <1>a, <1>b, PinTypes, RowChange
    <3>2. job' = [job EXCEPT ![j] = new]
      BY <1>0, <1>5, <1>a DEF Record, RowsOK
    <3> HIDE DEF new, j, t
    <3> QED
      BY <1>0, <1>a, <3>1, <3>2, ChangedRow
  <2>3. exec' \subseteq Executions
    BY <1>5, <1>b, ReplaceType DEF Record
  <2> QED
    BY <1>0, <1>5, <2>1, <2>2, <2>3, TypeFromParts DEF Record
<1>6. CASE Finish(x)
  <2> DEFINE done == [job EXCEPT ![j].status = "done"]
  <2>1. RowsOK(done)
    BY <1>b, <1>c
  <2>2. RowsOK(job') /\ task' \in [Tasks -> TaskRows]
    <3>1. CASE job' = done /\ UNCHANGED task
      BY <1>0, <2>1, <3>1
    <3>2. CASE job' = done /\ task' = [task EXCEPT ![t] = Transition(@, "Blocked")]
      BY <1>a, <2>1, <3>2, MovedType, PinTypes, LeadType
    <3>3. ASSUME NEW identity \in {task[t].identity, task[t].identity + 1},
                 task' = [task EXCEPT ![t] = Under(Transition(@, "Active"), identity)],
                 \/ job' = done
                 \/ \E n \in Jobs :
                       job' = [done EXCEPT ![n] = NewJob(t, "review", Lead, identity, FALSE)]
          PROVE  RowsOK(job') /\ task' \in [Tasks -> TaskRows]
      <4>1. identity \in Nat /\ identity \in Pins
        BY <1>a, PinTypes
      <4>2. task' \in [Tasks -> TaskRows]
        BY <1>a, <3>3, <4>1, MovedType, LeadType
      <4>3. ASSUME NEW n \in Jobs,
                   job' = [done EXCEPT ![n] = NewJob(t, "review", Lead, identity, FALSE)]
            PROVE  RowsOK(job')
        <5> DEFINE new == NewJob(t, "review", Lead, identity, FALSE)
        <5>1. new \in JobRows /\ new.task \in Tasks /\ new.role \in Roles
          <6> HIDE DEF t, j
          <6> QED
            BY <1>a, <4>1, NewReviewType
        <5>2. ASSUME NEW rows, RowsOK(rows) PROVE RowsOK([rows EXCEPT ![n] = new])
          <6> HIDE DEF new
          <6> QED
            BY <5>1, <5>2, ChangedRow
        <5> QED
          BY <2>1, <4>3, <5>2
      <4> HIDE DEF done, t
      <4> QED
        BY <2>1, <3>3, <4>2, <4>3
    <3> QED
      BY <1>6, <3>1, <3>2, <3>3 DEF Finish
  <2>3. exec' \subseteq Executions
    BY <1>6, <1>b, ReplaceType DEF Finish
  <2>4. repoLease' \in [Repos -> Leases \cup {NoLease}]
    BY <1>6, ReleasedType DEF Finish
  <2> QED
    BY <1>0, <1>6, <2>2, <2>3, <2>4, TypeFromParts DEF Finish
<1>d. ASSUME NEW rows, Fail(x, rows), RowsOK(rows), task' \in [Tasks -> TaskRows]
      PROVE  TablesOK'
  <2>1. exec' \subseteq Executions /\ repoLease' \in [Repos -> Leases \cup {NoLease}]
    BY <1>d, <1>b, ReplaceType, ReleasedType DEF Fail
  <2> QED
    BY <1>0, <1>d, <2>1, TypeFromParts DEF Fail
<1>7. CASE FailReformat(x)
  <2> DEFINE new == [job[j] EXCEPT !.status = "queued", !.reformatted = TRUE]
             rows == [job EXCEPT ![j].status = "queued", ![j].reformatted = TRUE]
  <2>1. new \in JobRows /\ new.task \in Tasks /\ new.role \in Roles
    BY <1>a, <1>b, RowChange, LeadType
  <2>2. rows = [job EXCEPT ![j] = new]
    BY <1>0, <1>a DEF RowsOK
  <2>3. RowsOK([job EXCEPT ![j] = new])
    <3> HIDE DEF new, j, t
    <3> QED
      BY <1>0, <1>a, <2>1, ChangedRow
  <2>4. RowsOK(rows)
    BY <2>2, <2>3
  <2> QED
    BY <1>0, <1>7, <1>d, <2>4 DEF FailReformat
<1>8. CASE FailRetry(x)
  BY <1>0, <1>8, <1>b, <1>c, <1>d DEF FailRetry
<1>9. CASE FailFallback(x)
  <2>1. PICK n \in Jobs :
          Fail(x, [job EXCEPT ![j].status = "failed",
                              ![n] = NewJob(t, job[j].kind, Fallback[job[j].role],
                                            job[j].identity, job[j].reformatted)])
    BY <1>9 DEF FailFallback
  <2> DEFINE failed == [job EXCEPT ![j].status = "failed"]
             new == NewJob(t, job[j].kind, Fallback[job[j].role], job[j].identity,
                           job[j].reformatted)
  <2>2. Fallback[job[j].role] \in Roles
    BY <1>9, <1>a, SchedulerAssumption DEF FailFallback
  <2>3. job[j].kind \in Kinds /\ job[j].identity \in Pins /\ job[j].reformatted \in BOOLEAN
    BY <1>a DEF JobRows
  <2>4. new \in JobRows /\ new.task \in Tasks /\ new.role \in Roles
    BY <1>a, <2>2, <2>3, NewJobType
  <2>5. RowsOK(failed)
    BY <1>b, <1>c
  <2>6. RowsOK([failed EXCEPT ![n] = new])
    <3> HIDE DEF failed, new
    <3> QED
      BY <2>4, <2>5, ChangedRow
  <2> QED
    BY <1>0, <1>9, <1>d, <2>1, <2>6 DEF FailFallback
<1>10. CASE FailBlock(x)
  <2>1. task' \in [Tasks -> TaskRows]
    BY <1>10, <1>a, MovedType, PinTypes, LeadType DEF FailBlock
  <2> QED
    BY <1>10, <1>b, <1>c, <1>d, <2>1 DEF FailBlock
<1> QED
  BY <1>1, <1>2, <1>3, <1>4, <1>5, <1>6, <1>7, <1>8, <1>9, <1>10 DEF Execution
-----------------------------------------------------------------------------
(* Claim keeps the types *)

(* The rows a claim can leave behind for a waiting job.                     *)
LEMMA FencedType ==
    ASSUME TablesOK, NEW j \in Jobs
    PROVE  /\ Fenced(j) \in JobRows
           /\ Fenced(j).task = job[j].task /\ Fenced(j).role = job[j].role
           /\ Fenced(j).kind = job[j].kind
           /\ Fenced(j).status = IF Expired(j) THEN "queued" ELSE job[j].status
           /\ Fenced(j).fence \in Nat /\ Fenced(j).fence >= job[j].fence
<1> DEFINE row == job[j]
<1>1. row \in JobRows
  BY DEF TablesOK
<1>2. row.fence \in Nat /\ row.fence + 1 \in Nat /\ row.fence + 1 >= row.fence
      /\ row.fence >= row.fence
  BY <1>1 DEF JobRows
<1>3. CASE Expired(j)
  <2> DEFINE new == [row EXCEPT !.status = "queued", !.fence = row.fence + 1]
  <2>1. Fenced(j) = new
    BY <1>3 DEF Fenced
  <2>2. new \in JobRows /\ new.task = row.task /\ new.role = row.role /\ new.kind = row.kind
        /\ new.status = "queued" /\ new.fence = row.fence + 1
    BY <1>1, <1>2 DEF JobRows, Statuses
  <2> QED
    BY <1>2, <1>3, <2>1, <2>2
<1>4. CASE ~Expired(j)
  BY <1>1, <1>2, <1>4 DEF Fenced
<1> QED
  BY <1>3, <1>4

LEMMA StartedType ==
    ASSUME TablesOK, NEW j \in Jobs
    PROVE  /\ Started(j) \in JobRows
           /\ Started(j).task = job[j].task /\ Started(j).role = job[j].role
           /\ Started(j).kind = job[j].kind
           /\ Started(j).status = "running" /\ Started(j).owner = leader
           /\ Started(j).fence = Fenced(j).fence + 1
           /\ Started(j).lease = LeaseSeconds
<1>1. Fenced(j) \in JobRows
  BY FencedType
<1>2. Fenced(j).fence + 1 \in Nat /\ Fenced(j).attempt + 1 \in Nat /\ leader \in Nat
      /\ LeaseSeconds \in Deadlines /\ "running" \in Statuses
  BY <1>1, SchedulerAssumption DEF TablesOK, JobRows, Deadlines, Statuses
<1> DEFINE f == Fenced(j)
           a == f.attempt + 1
           b == f.fence + 1
<1>3. Started(j) = [f EXCEPT !.status = "running", !.owner = leader, !.fence = b,
                             !.attempt = a, !.lease = LeaseSeconds,
                             !.heard = (job[j].kind = "implement")]
  BY DEF Started
<1>4. f.task = job[j].task /\ f.role = job[j].role /\ f.kind = job[j].kind
  BY FencedType
<1>5. f \in JobRows /\ a \in Nat /\ b \in Nat
  BY <1>1, <1>2
<1> HIDE DEF f, a, b
<1>6. /\ Started(j) \in JobRows
      /\ Started(j).task = f.task /\ Started(j).role = f.role /\ Started(j).kind = f.kind
      /\ Started(j).status = "running" /\ Started(j).owner = leader
      /\ Started(j).fence = b /\ Started(j).lease = LeaseSeconds
  BY <1>2, <1>3, <1>5 DEF JobRows
<1> QED
  BY <1>4, <1>6 DEF b, f

LEMMA GivenUpType ==
    ASSUME TablesOK, NEW j \in Jobs, NEW capped
    PROVE  /\ GivenUp(j, capped) \in JobRows
           /\ GivenUp(j, capped).task = job[j].task /\ GivenUp(j, capped).role = job[j].role
           /\ GivenUp(j, capped).status \in {"cancelled", "failed"}
           /\ GivenUp(j, capped).fence >= job[j].fence
<1>1. /\ Fenced(j) \in JobRows /\ Fenced(j).fence \in Nat
      /\ Fenced(j).task = job[j].task /\ Fenced(j).role = job[j].role
      /\ Fenced(j).fence >= job[j].fence
  BY FencedType
<1>2. /\ Started(j) \in JobRows
      /\ Started(j).task = job[j].task /\ Started(j).role = job[j].role
      /\ Started(j).fence = Fenced(j).fence + 1
  BY StartedType
<1>3. job[j].fence \in Nat
  BY DEF TablesOK, JobRows
<1>4. CASE NoBudget(j) \/ j \in capped
  <2>1. GivenUp(j, capped) = [Fenced(j) EXCEPT !.status = "cancelled"]
    BY <1>4 DEF GivenUp
  <2> QED
    BY <1>1, <2>1 DEF JobRows, Statuses
<1>5. CASE ~(NoBudget(j) \/ j \in capped)
  <2>1. GivenUp(j, capped) = [Started(j) EXCEPT !.status = "failed"]
    BY <1>5 DEF GivenUp
  <2>2. /\ GivenUp(j, capped) \in JobRows /\ GivenUp(j, capped).status = "failed"
        /\ GivenUp(j, capped).task = Started(j).task
        /\ GivenUp(j, capped).role = Started(j).role
        /\ GivenUp(j, capped).fence = Started(j).fence
    BY <1>2, <2>1 DEF JobRows, Statuses
  <2>3. Started(j).fence >= job[j].fence
    BY <1>1, <1>2, <1>3
  <2> QED
    BY <1>2, <2>2, <2>3
<1> QED
  BY <1>4, <1>5

(* The task rows a claim can leave behind.                                  *)
LEMMA ChargedType ==
    ASSUME TablesOK, NEW t \in Tasks
    PROVE  Charged(task[t], t) \in TaskRows
<1>1. task[t] \in TaskRows /\ task[t].budget + 1 \in Nat
  BY DEF TablesOK, TaskRows
<1> QED
  BY <1>1 DEF Charged, TaskRows

LEMMA ClaimedTaskType ==
    ASSUME TablesOK, NEW j \in Jobs, job[j].task \in Tasks
    PROVE  BlockedBy(j) \in TaskRows /\ StartedBy(j) \in TaskRows
<1> DEFINE t == job[j].task
<1>1. task[t] \in TaskRows /\ Charged(task[t], t) \in TaskRows
  BY ChargedType DEF TablesOK
<1>2. "Exhausted" \in TaskStates /\ "Blocked" \in TaskStates /\ "Active" \in TaskStates
  BY DEF TaskStates
<1> QED
  BY <1>1, <1>2, TransitionType DEF BlockedBy, StartedBy

(* What a pass of claim does, in the terms the invariants need: it gives up
   the jobs `spent' and `stale', all waiting, and starts at most one waiting
   job that Ready admits.                                                   *)
Pass(start, spent, stale, capped) ==
    /\ start \in Jobs \cup {NoJob}
    /\ start # NoJob => start \in Waiting /\ Ready(start)
    /\ spent \subseteq Waiting /\ stale \subseteq Waiting
    /\ \A j \in spent : Ready(j)
    /\ \A j \in stale : task[job[j].task].state \notin STOPPED
    /\ Serve(start, spent, stale, capped)
    /\ recovery = NoRecovery /\ recovered' = recovered \ {start}
    /\ ~deploying /\ UNCHANGED <<leader, deploying>>

LEMMA ClaimIsPass ==
    ASSUME Claim
    PROVE  \E start, spent, stale, capped : Pass(start, spent, stale, capped)
<1>1. PICK skipped \in SUBSET {j \in Jobs : job[j].status = "queued"},
           start \in Jobs \cup {NoJob},
           capped \in SUBSET Limited :
         LET reached == Reached(Waiting \ skipped, capped, start)
             spent == {j \in reached : Spent(j, capped)}
             stale == {j \in reached : ~IdentityCurrent(j)}
         IN /\ {j \in reached : Ready(j)} \ spent = {start} \ {NoJob}
            /\ start # NoJob => Fenced(start).fence < MaxFence
            /\ Serve(start, spent, stale, capped)
            /\ recovered' = recovered \ {start}
  BY Zenon DEF Claim
<1> DEFINE reached == Reached(Waiting \ skipped, capped, start)
           spent == {j \in reached : Spent(j, capped)}
           stale == {j \in reached : ~IdentityCurrent(j)}
<1>2. reached \subseteq Waiting
  BY DEF Reached
<1>3. /\ spent \subseteq Waiting /\ stale \subseteq Waiting /\ \A j \in spent : Ready(j)
      /\ \A j \in stale : task[job[j].task].state \notin STOPPED
  BY <1>2 DEF Spent, Reached
<1>4. start # NoJob => start \in Waiting /\ Ready(start)
  <2>1. {j \in reached : Ready(j)} \ spent = {start} \ {NoJob}
    BY <1>1
  <2> HIDE DEF reached, spent
  <2> QED
    BY <1>2, <2>1
<1>5. ~deploying /\ UNCHANGED <<leader, deploying>> /\ recovery = NoRecovery
  BY DEF Claim
<1>6. Pass(start, spent, stale, capped)
  BY <1>1, <1>3, <1>4, <1>5 DEF Pass
<1> QED
  BY <1>6

LEMMA ClaimType ==
    ASSUME TablesOK, Claim
    PROVE  TablesOK'
<1>0. /\ leader \in Nat /\ task \in [Tasks -> TaskRows] /\ RowsOK(job)
      /\ repoLease \in [Repos -> Leases \cup {NoLease}]
      /\ exec \subseteq Executions /\ deploying \in BOOLEAN
  BY RowsOfType DEF TablesOK
<1>1. PICK start, spent, stale, capped : Pass(start, spent, stale, capped)
  BY ClaimIsPass
<1>2. \A j \in Waiting : j \in Jobs /\ job[j].task \in Tasks /\ job[j].role \in Roles
  BY <1>0 DEF Waiting, Expired, RowsOK
<1>3. RowsOK(job')
  <2>1. ASSUME NEW j \in Jobs
        PROVE  /\ job'[j] \in JobRows
               /\ job'[j].task = job[j].task /\ job'[j].role = job[j].role
               /\ job[j].status = "absent" => job'[j].status = "absent"
    <3>1. Fenced(j) \in JobRows /\ Fenced(j).task = job[j].task /\ Fenced(j).role = job[j].role
          /\ Fenced(j).status = IF Expired(j) THEN "queued" ELSE job[j].status
      BY FencedType
    <3>2. CASE j = start
      <4>1. job'[j] = Started(j) /\ job[j].status # "absent"
        BY <1>1, <3>2 DEF Pass, Serve, Waiting, Expired, NoJob, Jobs
      <4> QED
        BY <4>1, StartedType
    <3>3. CASE j # start /\ j \in spent
      <4>1. job'[j] = GivenUp(j, capped) /\ job[j].status # "absent"
        BY <1>1, <3>3 DEF Pass, Serve, Waiting, Expired
      <4> QED
        BY <4>1, GivenUpType
    <3>4. CASE j # start /\ j \notin spent /\ j \in stale
      <4>1. job'[j] = [Fenced(j) EXCEPT !.status = "cancelled"] /\ job[j].status # "absent"
        BY <1>1, <3>4 DEF Pass, Serve, Waiting, Expired
      <4> QED
        BY <3>1, <4>1 DEF JobRows, Statuses
    <3>5. CASE j # start /\ j \notin spent /\ j \notin stale
      <4>1. job'[j] = Fenced(j)
        BY <1>1, <3>5 DEF Pass, Serve
      <4> QED
        BY <3>1, <4>1 DEF Expired
    <3> QED
      BY <3>2, <3>3, <3>4, <3>5
  <2>2. job' = [j \in Jobs |-> job'[j]]
    BY <1>1 DEF Pass, Serve
  <2> QED
    BY <1>0, <2>1, <2>2 DEF RowsOK
<1>4. task' \in [Tasks -> TaskRows]
  <2> SUFFICES ASSUME NEW t \in Tasks PROVE task'[t] \in TaskRows
    BY <1>1 DEF Pass, Serve
  <2>1. CASE start # NoJob /\ job[start].task = t
    BY <1>1, <2>1, ClaimedTaskType DEF Pass, Serve
  <2>2. CASE ~(start # NoJob /\ job[start].task = t) /\ \E j \in spent : job[j].task = t
    <3> DEFINE j == CHOOSE j \in spent : job[j].task = t
    <3>1. j \in spent /\ job[j].task = t
      BY <2>2
    <3>2. task'[t] = BlockedBy(j)
      BY <1>1, <2>2 DEF Pass, Serve
    <3>3. j \in Jobs
      BY <1>1, <1>2, <3>1 DEF Pass, Serve
    <3> HIDE DEF j
    <3> QED
      BY <3>1, <3>2, <3>3, ClaimedTaskType
  <2>3. CASE ~(start # NoJob /\ job[start].task = t) /\ ~\E j \in spent : job[j].task = t
    BY <1>0, <1>1, <2>3 DEF Pass, Serve
  <2> QED
    BY <2>1, <2>2, <2>3
<1>5. repoLease' \in [Repos -> Leases \cup {NoLease}]
  <2>1. start # NoJob => [job |-> start, owner |-> leader, expires |-> LeaseSeconds] \in Leases
    BY <1>0, <1>1, SchedulerAssumption DEF Pass, Serve, Leases, Deadlines
  <2> QED
    BY <1>0, <1>1, <2>1 DEF Pass, Serve
<1>6. exec' \subseteq Executions
  <2>1. start # NoJob => [job |-> start, fence |-> Fenced(start).fence + 1, owner |-> leader,
                          seen |-> Unread] \in Executions
    <3>1. start # NoJob => Fenced(start).fence + 1 \in Nat
      BY <1>1, FencedType DEF Pass, Serve
    <3> QED
      BY <1>0, <1>1, <3>1 DEF Pass, Serve, Executions
  <2> QED
    BY <1>0, <1>1, <2>1 DEF Pass, Serve
<1> QED
  BY <1>0, <1>1, <1>3, <1>4, <1>5, <1>6, TypeFromParts DEF Pass, Serve

(* Time, a change of leader and releases keep the types.                    *)
LEMMA EnvironmentType ==
    ASSUME TablesOK, Tick \/ Failover \/ DeployClaim \/ DeployComplete
    PROVE  TablesOK'
<1>0. /\ leader \in Nat /\ task \in [Tasks -> TaskRows] /\ RowsOK(job)
      /\ repoLease \in [Repos -> Leases \cup {NoLease}]
      /\ exec \subseteq Executions /\ deploying \in BOOLEAN
  BY RowsOfType DEF TablesOK
<1>1. \A d \in Deadlines : Elapse(d) \in Deadlines
  BY DEF Deadlines, Elapse, Lapsed
<1>2. CASE Tick
  <2>1. RowsOK(job')
    <3>1. ASSUME NEW j \in Jobs
          PROVE  /\ job'[j] \in JobRows /\ job'[j].task = job[j].task
                 /\ job'[j].role = job[j].role /\ job'[j].status = job[j].status
      <4>1. job[j] \in JobRows /\ job'[j] = [job[j] EXCEPT !.lease = Elapse(job[j].lease)]
        BY <1>0, <1>2 DEF Tick, RowsOK
      <4>2. Elapse(job[j].lease) \in Deadlines
        BY <1>1, <4>1 DEF JobRows
      <4> QED
        BY <4>1, <4>2 DEF JobRows
    <3> QED
      BY <1>0, <1>2, <3>1 DEF RowsOK, Tick
  <2>2. repoLease' \in [Repos -> Leases \cup {NoLease}]
    <3>1. ASSUME NEW r \in Repos
          PROVE  [repoLease[r] EXCEPT !.expires = Elapse(repoLease[r].expires)]
                    \in Leases \cup {NoLease}
      <4>1. CASE repoLease[r] \in Leases
        <5>1. Elapse(repoLease[r].expires) \in Deadlines
          BY <1>1, <4>1 DEF Leases
        <5> QED
          BY <4>1, <5>1 DEF Leases
      <4>2. CASE repoLease[r] = NoLease
        BY <4>2 DEF NoLease, Elapse, Lapsed
      <4> QED
        BY <1>0, <4>1, <4>2
    <3> QED
      BY <1>2, <3>1 DEF Tick
  <2>3. exec' \subseteq Executions
    <3> SUFFICES ASSUME NEW x \in exec
                 PROVE  [x EXCEPT !.seen = IF @ = Unread THEN @ ELSE Elapse(@)] \in Executions
      BY <1>2 DEF Tick
    <3> DEFINE seen == IF x.seen = Unread THEN x.seen ELSE Elapse(x.seen)
    <3>1. x \in Executions /\ seen \in Deadlines \cup {Unread}
      BY <1>0, <1>1 DEF Executions
    <3>2. [x EXCEPT !.seen = IF @ = Unread THEN @ ELSE Elapse(@)] = [x EXCEPT !.seen = seen]
      OBVIOUS
    <3> HIDE DEF seen
    <3> QED
      BY <3>1, <3>2 DEF Executions
  <2> QED
    BY <1>0, <1>2, <2>1, <2>2, <2>3, TypeFromParts DEF Tick
<1>3. CASE Failover
  <2>1. leader + 1 \in Nat
    BY <1>0
  <2> QED
    BY <1>0, <1>3, <2>1, TypeFromParts DEF Failover
<1>4. CASE DeployClaim
  BY <1>0, <1>4, TypeFromParts DEF DeployClaim
<1>5. CASE DeployComplete
  BY <1>0, <1>5, TypeFromParts DEF DeployComplete
<1> QED
  BY <1>2, <1>3, <1>4, <1>5
-----------------------------------------------------------------------------
(* The inductive invariant.  WriterHoldsLease alone is not inductive: a     *)
(* heartbeat that read its job row before an invalidation renews a lease on *)
(* the strength of that read.  TokensSound says what a read is still worth. *)

IInv == TablesOK /\ RecoveryOK /\ TokensSound /\ WriterHoldsLease /\ DeployQuiet

(* What a command can do to the rows and the leases.                        *)
Invalidates(j) == /\ job[j].status \in {"queued", "running"}
                  /\ job'[j].status = "cancelled"
                  /\ job'[j].fence = job[j].fence + 1
Queues(j) == /\ job[j].status \in {"absent", "failed", "done"}
             /\ job'[j].status = "queued"
             /\ job[j].status # "absent" => job'[j].fence = job[j].fence

QueuesNew(j) == job[j].status = "absent" /\ Queues(j)

CommandEffect ==
    /\ UNCHANGED <<leader, exec, deploying>>
    /\ \A j \in Jobs : job'[j] = job[j] \/ Invalidates(j) \/ Queues(j)
    /\ \A r \in Repos : \/ repoLease'[r] = repoLease[r]
                        \/ /\ repoLease[r].job \in Jobs
                           /\ job'[repoLease[r].job].status # "running"

LEMMA InvalidatedEffect ==
    ASSUME TablesOK, NEW t \in Tasks, NEW j \in Jobs
    PROVE  \/ Invalidated(t)[j] = job[j] /\ ~(job[j].task = t /\ Open(j))
           \/ /\ job[j].task = t /\ job[j].status \in {"queued", "running"}
              /\ Invalidated(t)[j].status = "cancelled"
              /\ Invalidated(t)[j].fence = job[j].fence + 1
<1>1. job[j] \in JobRows
  BY DEF TablesOK
<1>2. CASE job[j].task = t /\ Open(j)
  <2>1. Invalidated(t)[j] = [job[j] EXCEPT !.status = "cancelled", !.fence = @ + 1]
    BY <1>2 DEF Invalidated
  <2>2. job[j].status \in {"queued", "running"}
    BY <1>2 DEF Open
  <2> QED
    BY <1>1, <1>2, <2>1, <2>2 DEF JobRows
<1>3. CASE ~(job[j].task = t /\ Open(j))
  BY <1>3 DEF Invalidated
<1> QED
  BY <1>2, <1>3

(* A command that queues one job over the rows it left or invalidated.      *)
LEMMA EnqueueEffect ==
    ASSUME TablesOK, NEW t \in Tasks, NEW n \in Jobs, NEW kind, NEW role, NEW identity,
           NEW rows \in {job, Invalidated(t)}, Enqueue(rows, n, t, kind, role, identity),
           NEW j \in Jobs
    PROVE  job'[j] = rows[j] \/ Queues(j)
<1>1. rows \in [Jobs -> JobRows]
  BY InvalidatedType DEF TablesOK
<1>2. job' = [rows EXCEPT ![n] = NewJob(t, kind, role, identity, FALSE)] /\ IsNext(n)
  BY DEF Enqueue
<1>3. CASE j = n
  <2>1. job'[j] = NewJob(t, kind, role, identity, FALSE) /\ job[j].status = "absent"
    BY <1>1, <1>2, <1>3 DEF IsNext
  <2> QED
    BY <2>1 DEF NewJob, Queues
<1>4. CASE j # n
  BY <1>1, <1>2, <1>4
<1> QED
  BY <1>3, <1>4

LEMMA CommandHasEffect ==
    ASSUME TablesOK, NEW t \in Tasks, Command(t)
    PROVE  CommandEffect
<1> DEFINE Rows == \A j \in Jobs : job'[j] = job[j] \/ Invalidates(j) \/ Queues(j)
<1>1. ASSUME NEW n \in Jobs, NEW kind, NEW role, NEW identity,
             Enqueue(job, n, t, kind, role, identity)
      PROVE  Rows
  BY <1>1, EnqueueEffect
<1>2. ASSUME NEW n \in Jobs, NEW kind, NEW role, NEW identity,
             Enqueue(Invalidated(t), n, t, kind, role, identity)
      PROVE  Rows
  BY <1>2, EnqueueEffect, InvalidatedEffect DEF Invalidates
<1>3. ASSUME job' = Invalidated(t) PROVE Rows
  BY <1>3, InvalidatedEffect DEF Invalidates
<1>4. CASE Submit(t)
  BY <1>1, <1>4 DEF Submit, CommandEffect
<1>5. CASE Register(t)
  BY <1>1, <1>5 DEF Register, CommandEffect
<1>6. CASE Revise(t)
  BY <1>2, <1>6 DEF Revise, CommandEffect
<1>7. CASE AnswerImplementation(t)
  BY <1>1, <1>7 DEF AnswerImplementation, CommandEffect
<1>8. CASE Reidentify(t)
  BY <1>2, <1>8 DEF Reidentify, CommandEffect
<1>9. CASE Pause(t)
  BY <1>3, <1>9 DEF Pause, CommandEffect
<1>10. CASE Cancel(t)
  <2>1. Rows
    BY <1>3, <1>10 DEF Cancel
  <2>2. ASSUME NEW r \in Repos
        PROVE  \/ repoLease'[r] = repoLease[r]
               \/ /\ repoLease[r].job \in Jobs
                  /\ job'[repoLease[r].job].status # "running"
    <3>1. \/ repoLease'[r] = repoLease[r]
          \/ repoLease[r].job \in Created /\ job[repoLease[r].job].task = t
      BY <1>10 DEF Cancel, Released
    <3>2. \A k \in Created : job[k].task = t => Invalidated(t)[k].status # "running"
      BY InvalidatedEffect DEF Created, Open
    <3> QED
      BY <1>10, <3>1, <3>2 DEF Cancel, Created
  <2> QED
    BY <1>10, <2>1, <2>2 DEF Cancel, CommandEffect
<1>11. CASE Resume(t)
  BY <1>1, <1>11 DEF Resume, Restarted, CommandEffect
<1>12. CASE RetryAnew(t)
  BY <1>1, <1>12 DEF RetryAnew, Restarted, CommandEffect
<1>13. CASE RetryFailed(t)
  <2>1. PICK j \in Jobs :
          /\ job[j].status = "failed"
          /\ job' = [job EXCEPT ![j].status = "queued", ![j].attempt = 0,
                                ![j].owner = IF VersionOf[t] = 2 THEN 0 ELSE @,
                                ![j].lease = IF VersionOf[t] = 2 THEN Lapsed ELSE @]
    BY <1>13 DEF RetryFailed
  <2>2. job \in [Jobs -> JobRows]
    BY DEF TablesOK
  <2>3. \A k \in Jobs : k # j => job'[k] = job[k]
    BY <2>1, <2>2
  <2>4. job'[j].status = "queued" /\ job'[j].fence = job[j].fence
    BY <2>1, <2>2 DEF JobRows
  <2>5. Rows
    BY <2>1, <2>3, <2>4 DEF Queues
  <2> QED
    BY <1>13, <2>5 DEF RetryFailed, CommandEffect
<1>14. CASE RetryProposal(t)
  <2>1. PICK j \in Jobs :
          /\ job[j].status = "done"
          /\ job' = [job EXCEPT ![j].status = "queued", ![j].attempt = 0, ![j].owner = 0]
    BY <1>14 DEF RetryProposal
  <2>2. job \in [Jobs -> JobRows]
    BY DEF TablesOK
  <2>3. \A k \in Jobs : k # j => job'[k] = job[k]
    BY <2>1, <2>2
  <2>4. job'[j].status = "queued" /\ job'[j].fence = job[j].fence
    BY <2>1, <2>2 DEF JobRows
  <2>5. Rows
    BY <2>1, <2>3, <2>4 DEF Queues
  <2> QED
    BY <1>14, <2>5 DEF RetryProposal, CommandEffect
<1> QED
  BY <1>4, <1>5, <1>6, <1>7, <1>8, <1>9, <1>10, <1>11, <1>12, <1>13, <1>14
     DEF Command

LEMMA CommandStep ==
    ASSUME IInv, TablesOK', RecoveryOK', ReadFences', CommandEffect
    PROVE  IInv'
<1>1. /\ exec' = exec /\ deploying' = deploying /\ exec \subseteq Executions
      /\ \A j \in Jobs : job[j] \in JobRows /\ job'[j] \in JobRows
      /\ \A j \in Jobs : job'[j] = job[j] \/ Invalidates(j) \/ Queues(j)
  BY DEF IInv, TablesOK, CommandEffect
<1>2. TokenFences'
  <2>1. ASSUME NEW x \in exec PROVE x.job \in Created' /\ x.fence <= job'[x.job].fence
    <3>1. x.job \in Jobs /\ job[x.job].status # "absent" /\ x.fence <= job[x.job].fence
      BY DEF IInv, TokensSound, TokenFences, Created
    <3>2. x.fence \in Nat /\ job[x.job].fence \in Nat
      BY <1>1, <3>1 DEF Executions, JobRows
    <3> QED
      BY <1>1, <3>1, <3>2 DEF Invalidates, Queues, Created
  <2> QED
    BY <1>1, <2>1 DEF IInv, TokensSound, TokenFences
<1>3. TokenReads'
  <2> SUFFICES ASSUME NEW x \in exec, x.seen > 0
               PROVE  \/ Readable(x)' /\ job'[x.job].lease >= x.seen
                      \/ job'[x.job].status = "cancelled"
    BY <1>1 DEF TokenReads
  <2>1. x.job \in Jobs
    BY DEF IInv, TokensSound, TokenFences, Created
  <2>2. \/ Readable(x) /\ job[x.job].lease >= x.seen
        \/ job[x.job].status = "cancelled"
    BY DEF IInv, TokensSound, TokenReads
  <2> QED
    BY <1>1, <2>1, <2>2 DEF Readable, Invalidates, Queues
<1>4. OneArmed'
  BY <1>1 DEF IInv, TokensSound, OneArmed
<1>5. WriterHoldsLease'
  <2> SUFFICES ASSUME NEW j \in Jobs, job'[j].status = "running", Writes(j)',
                      job'[j].lease # Lapsed
               PROVE  /\ repoLease'[RepoOf[job'[j].task]].job = j
                      /\ repoLease'[RepoOf[job'[j].task]].owner = job'[j].owner
                      /\ repoLease'[RepoOf[job'[j].task]].expires >= job'[j].lease
    BY DEF WriterHoldsLease, RepoOfJob
  <2>1. job'[j] = job[j]
    BY <1>1 DEF Invalidates, Queues
  <2>2. Writes(j)
    BY <2>1 DEF Writes, Class, VersionOfJob
  <2> DEFINE r == RepoOf[job[j].task]
  <2>3. /\ repoLease[r].job = j /\ repoLease[r].owner = job[j].owner
        /\ repoLease[r].expires >= job[j].lease
    BY <2>1, <2>2 DEF IInv, WriterHoldsLease, RepoOfJob
  <2>4. r \in Repos
    BY <2>1, SchedulerAssumption DEF IInv, TablesOK, Created
  <2>5. repoLease'[r] = repoLease[r]
    BY <2>3, <2>4 DEF CommandEffect
  <2> QED
    BY <2>1, <2>3, <2>5
<1>6. DeployQuiet'
  BY <1>1 DEF IInv, DeployQuiet, Invalidates, Queues
<1> QED
  BY <1>2, <1>3, <1>4, <1>5, <1>6 DEF IInv, TokensSound
-----------------------------------------------------------------------------
(* What a transaction of the execution x can do: nothing to the job but a   *)
(* read (Reads), a renewal or a new pin (Renews), or the end of the job     *)
(* (Ends); the last two only after Passes.                                  *)

Reads(x) == /\ UNCHANGED <<job, repoLease>>
            /\ \/ exec' = exec \ {x}
               \/ Replace(x, [x EXCEPT !.seen = Unread])
               \/ Readable(x) /\ Replace(x, [x EXCEPT !.seen = job[x.job].lease])

Renews(x) ==
    /\ Passes(x) /\ Replace(x, [x EXCEPT !.seen = Unread])
    /\ \A j \in Jobs : j # x.job => job'[j] = job[j]
    /\ \A f \in {"status", "task", "role", "kind", "fence", "owner"} :
          job'[x.job][f] = job[x.job][f]
    /\ \/ job'[x.job].lease = job[x.job].lease /\ UNCHANGED repoLease
       \/ /\ job'[x.job].lease = LeaseSeconds
          /\ repoLease' = [r \in Repos |->
                IF repoLease[r].job = x.job /\ repoLease[r].owner = x.owner
                THEN [repoLease[r] EXCEPT !.expires = LeaseSeconds] ELSE repoLease[r]]

Ends(x) ==
    /\ Passes(x) /\ exec' = exec \ {x}
    /\ \A j \in Jobs : j # x.job => job'[j] = job[j] \/ QueuesNew(j)
    /\ job'[x.job].status \in {"done", "queued", "failed"}
    /\ job'[x.job].fence = job[x.job].fence /\ job'[x.job].task = job[x.job].task
    /\ repoLease' = ReleasedBy({x.job}, x.owner)

LEMMA EndedRows ==
    ASSUME TablesOK, TokenFences, NEW x \in exec, NEW n \in Jobs, IsNext(n),
           NEW status, NEW new, new.status = "queued",
           job' = [job EXCEPT ![x.job].status = status, ![n] = new]
    PROVE  /\ \A j \in Jobs : j # x.job => job'[j] = job[j] \/ QueuesNew(j)
           /\ job'[x.job].status = status /\ job'[x.job].fence = job[x.job].fence
           /\ job'[x.job].task = job[x.job].task
<1>1. /\ job \in [Jobs -> JobRows] /\ x.job \in Jobs /\ job[x.job] \in JobRows
      /\ job[x.job].status # "absent" /\ job[n].status = "absent"
  BY DEF TablesOK, TokenFences, Created, IsNext
<1>2. n # x.job
  BY <1>1
<1>3. [job[x.job] EXCEPT !.status = status].status = status
      /\ [job[x.job] EXCEPT !.status = status].fence = job[x.job].fence
      /\ [job[x.job] EXCEPT !.status = status].task = job[x.job].task
  BY <1>1 DEF JobRows
<1>4. \A j \in Jobs : j # x.job /\ j # n => job'[j] = job[j]
  BY <1>1
<1>5. job'[n] = new /\ job'[x.job] = [job[x.job] EXCEPT !.status = status]
  BY <1>1, <1>2
<1>6. QueuesNew(n)
  BY <1>1, <1>5 DEF Queues, QueuesNew
<1> QED
  BY <1>3, <1>4, <1>5, <1>6

LEMMA ExecutionHasEffect ==
    ASSUME TablesOK, TokenFences, NEW x \in exec, Execution(x)
    PROVE  Reads(x) \/ Renews(x) \/ Ends(x)
<1>0. /\ job \in [Jobs -> JobRows] /\ x.job \in Jobs /\ job[x.job] \in JobRows
      /\ job[x.job].status # "absent"
  BY DEF TablesOK, TokenFences, Created
<1>1. CASE ReadJob(x)
  BY <1>1 DEF ReadJob, Reads
<1>2. CASE External(x)
  BY <1>2 DEF External, Reads
<1>3. CASE Refused(x)
  BY <1>3 DEF Refused, Reads
<1>4. CASE Heartbeat(x)
  <2> DEFINE new == [job[x.job] EXCEPT !.lease = LeaseSeconds, !.heard = TRUE]
  <2>1. job' = [job EXCEPT ![x.job] = new]
    BY <1>0, <1>4 DEF Heartbeat
  <2>2. /\ new.lease = LeaseSeconds
        /\ \A f \in {"status", "task", "role", "kind", "fence", "owner"} :
              new[f] = job[x.job][f]
    BY <1>0 DEF JobRows
  <2> HIDE DEF new
  <2>3. job'[x.job] = new /\ \A j \in Jobs : j # x.job => job'[j] = job[j]
    BY <1>0, <2>1
  <2> QED
    BY <1>4, <2>2, <2>3 DEF Heartbeat, Renews
<1>5. CASE Record(x)
  <2> DEFINE pin == task[job[x.job].task].identity + 1
             new == [job[x.job] EXCEPT !.identity = pin]
  <2>1. job' = [job EXCEPT ![x.job] = new]
    BY <1>0, <1>5 DEF Record
  <2> HIDE DEF pin
  <2>2. /\ new.lease = job[x.job].lease
        /\ \A f \in {"status", "task", "role", "kind", "fence", "owner"} :
              new[f] = job[x.job][f]
    BY <1>0 DEF JobRows
  <2> HIDE DEF new
  <2>3. job'[x.job] = new /\ \A j \in Jobs : j # x.job => job'[j] = job[j]
    BY <1>0, <2>1
  <2> QED
    BY <1>5, <2>2, <2>3 DEF Record, Renews
<1>a. \A status : /\ [job EXCEPT ![x.job].status = status][x.job].status = status
                  /\ [job EXCEPT ![x.job].status = status][x.job].fence = job[x.job].fence
                  /\ [job EXCEPT ![x.job].status = status][x.job].task = job[x.job].task
                  /\ \A j \in Jobs : j # x.job =>
                        [job EXCEPT ![x.job].status = status][j] = job[j]
  BY <1>0 DEF JobRows
<1>6. CASE Finish(x)
  <2> DEFINE done == [job EXCEPT ![x.job].status = "done"]
             t == job[x.job].task
  <2>1. CASE job' = done
    BY <1>6, <1>a, <2>1 DEF Finish, Ends
  <2>2. ASSUME NEW n \in Jobs, NEW identity, IsNext(n),
               job' = [done EXCEPT ![n] = NewJob(t, "review", Lead, identity, FALSE)]
        PROVE  /\ \A j \in Jobs : j # x.job => job'[j] = job[j] \/ QueuesNew(j)
               /\ job'[x.job].status = "done" /\ job'[x.job].fence = job[x.job].fence
               /\ job'[x.job].task = job[x.job].task
    <3> DEFINE new == NewJob(t, "review", Lead, identity, FALSE)
    <3>1. new.status = "queued"
      BY DEF NewJob
    <3>2. job' = [job EXCEPT ![x.job].status = "done", ![n] = new]
      BY <2>2
    <3>3. IsNext(n)
      BY <2>2
    <3> HIDE DEF new
    <3> QED
      BY <3>1, <3>2, <3>3, EndedRows
  <2>4. Passes(x) /\ exec' = exec \ {x} /\ repoLease' = ReleasedBy({x.job}, x.owner)
    BY <1>6 DEF Finish
  <2>3. \/ job' = done
        \/ \E n \in Jobs, identity \in {task[t].identity, task[t].identity + 1} :
             /\ IsNext(n)
             /\ job' = [done EXCEPT ![n] = NewJob(t, "review", Lead, identity, FALSE)]
    BY <1>6 DEF Finish
  <2> HIDE DEF done, t
  <2> QED
    <3>1. CASE job' = done
      BY <2>1, <3>1
    <3>2. CASE job' # done
      <4>1. /\ \A j \in Jobs : j # x.job => job'[j] = job[j] \/ QueuesNew(j)
            /\ job'[x.job].status = "done" /\ job'[x.job].fence = job[x.job].fence
            /\ job'[x.job].task = job[x.job].task
        <5>1. PICK n \in Jobs, identity \in {task[t].identity, task[t].identity + 1} :
                /\ IsNext(n)
                /\ job' = [done EXCEPT ![n] = NewJob(t, "review", Lead, identity, FALSE)]
          BY <2>3, <3>2, Zenon
        <5> QED
          BY <2>2, <5>1, Zenon
      <4> QED
        BY <2>4, <4>1 DEF Ends
    <3> QED
      BY <3>1, <3>2
<1>7. CASE FailReformat(x)
  <2>1. job' = [job EXCEPT ![x.job].status = "queued", ![x.job].reformatted = TRUE]
        /\ Fail(x, job')
    BY <1>7 DEF FailReformat, Fail
  <2>2. /\ job'[x.job].status = "queued" /\ job'[x.job].fence = job[x.job].fence
        /\ job'[x.job].task = job[x.job].task
        /\ \A j \in Jobs : j # x.job => job'[j] = job[j]
    BY <1>0, <2>1 DEF JobRows
  <2> QED
    BY <2>1, <2>2 DEF Fail, Ends
<1>8. CASE FailRetry(x)
  BY <1>8, <1>a DEF FailRetry, Fail, Ends
<1>9. CASE FailBlock(x)
  BY <1>9, <1>a DEF FailBlock, Fail, Ends
<1>10. CASE FailFallback(x)
  <2>1. PICK n \in Jobs :
          /\ IsNext(n)
          /\ Fail(x, [job EXCEPT ![x.job].status = "failed",
                                ![n] = NewJob(job[x.job].task, job[x.job].kind,
                                              Fallback[job[x.job].role], job[x.job].identity,
                                              job[x.job].reformatted)])
    BY <1>10 DEF FailFallback
  <2> DEFINE new == NewJob(job[x.job].task, job[x.job].kind, Fallback[job[x.job].role],
                           job[x.job].identity, job[x.job].reformatted)
  <2>2. new.status = "queued"
    BY DEF NewJob
  <2>3. job' = [job EXCEPT ![x.job].status = "failed", ![n] = new]
    BY <2>1 DEF Fail
  <2> HIDE DEF new
  <2>4. /\ \A j \in Jobs : j # x.job => job'[j] = job[j] \/ QueuesNew(j)
        /\ job'[x.job].status = "failed" /\ job'[x.job].fence = job[x.job].fence
        /\ job'[x.job].task = job[x.job].task
    BY <2>1, <2>2, <2>3, EndedRows
  <2> QED
    BY <2>1, <2>4 DEF Fail, Ends
<1> QED
  BY <1>1, <1>2, <1>3, <1>4, <1>5, <1>6, <1>7, <1>8, <1>9, <1>10 DEF Execution

LEMMA ExecutionFrame ==
    ASSUME NEW x \in exec, Execution(x) PROVE UNCHANGED <<leader, deploying>>
  BY DEF Execution, ReadJob, External, Refused, Heartbeat, Record, Finish,
         FailReformat, FailRetry, FailFallback, FailBlock, Fail

(* The facts of the invariant that the three effects use.                   *)
LEMMA Known ==
    ASSUME IInv
    PROVE  /\ exec \subseteq Executions
           /\ \A j \in Jobs : job[j] \in JobRows
           /\ \A y \in exec : y.job \in Jobs /\ job[y.job].status # "absent"
                             /\ y.fence <= job[y.job].fence
           /\ \A y, z \in exec : y.job = z.job /\ y.fence = z.fence => y = z
           /\ \A y, z \in exec : y.job = z.job /\ y.seen > 0 /\ z.seen > 0 => y = z
  BY DEF IInv, TablesOK, TokensSound, TokenFences, OneArmed, Created

(* The token x keeps its job, fence and owner when only its read changes.   *)
LEMMA Reread ==
    ASSUME NEW x \in Executions, NEW seen
    PROVE  /\ [x EXCEPT !.seen = seen].job = x.job /\ [x EXCEPT !.seen = seen].fence = x.fence
           /\ [x EXCEPT !.seen = seen].owner = x.owner /\ [x EXCEPT !.seen = seen].seen = seen
  BY DEF Executions

LEMMA ReadsStep ==
    ASSUME IInv, TablesOK', RecoveryOK', ReadFences', NEW x \in exec, Reads(x), UNCHANGED deploying
    PROVE  IInv'
<1>0. /\ job' = job /\ repoLease' = repoLease /\ x \in Executions
  BY Known DEF Reads
<1>1. PICK seen :
        /\ exec' \subseteq (exec \ {x}) \cup {[x EXCEPT !.seen = seen]}
        /\ seen > 0 => Readable(x) /\ seen = job[x.job].lease
  BY DEF Reads, Replace, Unread
<1> DEFINE y == [x EXCEPT !.seen = seen]
<1>2. y.job = x.job /\ y.fence = x.fence /\ y.owner = x.owner /\ y.seen = seen
  BY <1>0, Reread
<1>3. exec' \subseteq (exec \ {x}) \cup {y}
  BY <1>1
<1> HIDE DEF y
<1>4. TokenFences'
  BY <1>0, <1>2, <1>3, Known DEF TokenFences, Created
<1>5. TokenReads'
  <2> SUFFICES ASSUME NEW z \in exec', z.seen > 0
               PROVE  \/ Readable(z) /\ job[z.job].lease >= z.seen
                      \/ job[z.job].status = "cancelled"
    BY <1>0 DEF TokenReads, Readable
  <2>1. CASE z = y
    <3>1. Readable(z) /\ z.seen = job[z.job].lease
      BY <1>1, <1>2, <2>1 DEF Readable
    <3>2. x.job \in Jobs
      BY Known
    <3>3. job[z.job].lease \in Deadlines
      BY <1>2, <2>1, <3>2, Known DEF JobRows
    <3> QED
      BY <3>1, <3>3 DEF Deadlines, Lapsed
  <2>2. CASE z # y
    BY <1>3, <2>2 DEF IInv, TokensSound, TokenReads
  <2> QED
    BY <2>1, <2>2
<1>6. OneArmed'
  <2>1. ASSUME NEW z \in exec, z # x, z.job = x.job, z.seen > 0, seen > 0
        PROVE  FALSE
    <3>1. Readable(x)
      BY <1>1, <2>1
    <3>2. Readable(z)
      BY <2>1, <3>1 DEF IInv, TokensSound, TokenReads, Readable
    <3> QED
      BY <2>1, <3>1, <3>2, Known DEF Readable
  <2> QED
    BY <1>2, <1>3, <2>1, Known DEF OneArmed
<1>7. WriterHoldsLease'
  BY <1>0 DEF IInv, WriterHoldsLease, Writes, Class, VersionOfJob, RepoOfJob
<1>8. DeployQuiet'
  BY <1>0 DEF IInv, DeployQuiet
<1> QED
  BY <1>4, <1>5, <1>6, <1>7, <1>8 DEF IInv, TokensSound

LEMMA RenewsStep ==
    ASSUME IInv, TablesOK', RecoveryOK', ReadFences', NEW x \in exec, Renews(x), UNCHANGED deploying
    PROVE  IInv'
<1>0. x \in Executions /\ x.seen > 0 /\ x.job \in Jobs
  BY Known DEF Renews, Passes
<1> DEFINE y == [x EXCEPT !.seen = Unread]
<1>1. y.job = x.job /\ y.fence = x.fence /\ y.owner = x.owner /\ ~(y.seen > 0)
  BY <1>0, Reread DEF Unread
<1>2. exec' = (exec \ {x}) \cup {y}
  BY DEF Renews, Replace
<1> HIDE DEF y
<1>3. \A j \in Jobs : /\ job'[j].status = job[j].status /\ job'[j].task = job[j].task
                     /\ job'[j].role = job[j].role /\ job'[j].kind = job[j].kind
                     /\ job'[j].fence = job[j].fence /\ job'[j].owner = job[j].owner
  BY DEF Renews
<1>4. \A z \in exec : z # x /\ z.job = x.job => ~(z.seen > 0)
  BY <1>0, Known
<1>5. TokenFences'
  BY <1>0, <1>1, <1>2, <1>3, Known DEF TokenFences, Created
<1>6. TokenReads'
  <2> SUFFICES ASSUME NEW z \in exec', z.seen > 0
               PROVE  \/ Readable(z)' /\ job'[z.job].lease >= z.seen
                      \/ job'[z.job].status = "cancelled"
    BY DEF TokenReads
  <2>1. z \in exec /\ z # x /\ z.job # x.job /\ z.job \in Jobs
    BY <1>1, <1>2, <1>4, Known
  <2>2. job'[z.job] = job[z.job]
    BY <2>1 DEF Renews
  <2> QED
    BY <2>1, <2>2 DEF IInv, TokensSound, TokenReads, Readable
<1>7. OneArmed'
  BY <1>1, <1>2, Known DEF OneArmed
<1>8. WriterHoldsLease'
  <2> SUFFICES ASSUME NEW j \in Jobs, job'[j].status = "running", Writes(j)',
                      job'[j].lease # Lapsed
               PROVE  /\ repoLease'[RepoOf[job'[j].task]].job = j
                      /\ repoLease'[RepoOf[job'[j].task]].owner = job'[j].owner
                      /\ repoLease'[RepoOf[job'[j].task]].expires >= job'[j].lease
    BY DEF WriterHoldsLease, RepoOfJob
  <2> DEFINE r == RepoOf[job[j].task]
  <2>1. /\ Writes(j) /\ job[j].status = "running" /\ r = RepoOf[job'[j].task]
        /\ job'[j].owner = job[j].owner
    BY <1>3 DEF Writes, Class, VersionOfJob
  <2>2. r \in Repos
    BY <2>1, SchedulerAssumption DEF IInv, TablesOK, Created
  <2>3. job[j].lease # Lapsed
    <3>1. CASE j # x.job
      BY <3>1 DEF Renews
    <3>2. CASE j = x.job
      <4>1. job[j].lease >= x.seen /\ job[j].lease \in Deadlines
        BY <1>0, <2>1, <3>2, Known DEF IInv, TokensSound, TokenReads, JobRows
      <4>2. x.seen \in Nat
        BY <1>0 DEF Executions, Deadlines, Lapsed, Unread
      <4> QED
        BY <1>0, <4>1, <4>2 DEF Deadlines, Lapsed
    <3> QED
      BY <3>1, <3>2
  <2>4. /\ repoLease[r].job = j /\ repoLease[r].owner = job[j].owner
        /\ repoLease[r].expires >= job[j].lease
    BY <2>1, <2>3 DEF IInv, WriterHoldsLease, RepoOfJob
  <2>5. CASE j # x.job
    <3>1. job'[j] = job[j] /\ repoLease'[r] = repoLease[r]
      BY <2>2, <2>4, <2>5 DEF Renews
    <3> QED
      BY <2>1, <2>4, <3>1
  <2>6. CASE j = x.job /\ UNCHANGED repoLease /\ job'[j].lease = job[j].lease
    BY <2>1, <2>4, <2>6
  <2>7. CASE /\ j = x.job /\ job'[j].lease = LeaseSeconds
             /\ repoLease' = [q \in Repos |->
                  IF repoLease[q].job = x.job /\ repoLease[q].owner = x.owner
                  THEN [repoLease[q] EXCEPT !.expires = LeaseSeconds] ELSE repoLease[q]]
    <3>1. job[j].owner = x.owner
      BY <1>0, <2>1, <2>7 DEF IInv, TokensSound, TokenReads, Readable
    <3>2. repoLease'[r] = [repoLease[r] EXCEPT !.expires = LeaseSeconds]
      BY <2>2, <2>4, <2>7, <3>1
    <3>3. repoLease[r] \in Leases
      BY <2>2, <2>4 DEF IInv, TablesOK, NoLease, NoJob, Jobs
    <3>4. /\ repoLease'[r].job = j /\ repoLease'[r].owner = job[j].owner
          /\ repoLease'[r].expires = LeaseSeconds
      BY <2>4, <3>2, <3>3 DEF Leases
    <3>5. job'[j].lease = LeaseSeconds /\ LeaseSeconds >= LeaseSeconds
      BY <2>7, SchedulerAssumption
    <3> QED
      BY <2>1, <3>4, <3>5
  <2> QED
    BY <2>5, <2>6, <2>7 DEF Renews
<1>9. DeployQuiet'
  BY <1>3 DEF IInv, DeployQuiet
<1> QED
  BY <1>5, <1>6, <1>7, <1>8, <1>9 DEF IInv, TokensSound

LEMMA EndsStep ==
    ASSUME IInv, TablesOK', RecoveryOK', ReadFences', NEW x \in exec, Ends(x), UNCHANGED deploying
    PROVE  IInv'
<1>0. x \in Executions /\ x.seen > 0 /\ x.job \in Jobs
  BY Known DEF Ends, Passes
<1>1. exec' = exec \ {x}
  BY DEF Ends
<1>2. \A z \in exec' : z \in exec /\ z.job \in Jobs /\ (z.seen > 0 => z.job # x.job)
  BY <1>0, <1>1, Known
<1>3. \A j \in Jobs : j # x.job => job'[j] = job[j] \/ Queues(j)
  BY DEF Ends, QueuesNew
<1>4. TokenFences'
  <2>1. ASSUME NEW z \in exec' PROVE z.job \in Created' /\ z.fence <= job'[z.job].fence
    <3>1. z.job \in Jobs /\ job[z.job].status # "absent" /\ z.fence <= job[z.job].fence
      BY <1>2, Known
    <3> QED
      BY <1>3, <3>1 DEF Ends, Queues, Created
  <2> QED
    BY <1>1, <2>1, Known DEF TokenFences
<1>5. TokenReads'
  <2> SUFFICES ASSUME NEW z \in exec', z.seen > 0
               PROVE  \/ Readable(z)' /\ job'[z.job].lease >= z.seen
                      \/ job'[z.job].status = "cancelled"
    BY DEF TokenReads
  <2>1. \/ Readable(z) /\ job[z.job].lease >= z.seen
        \/ job[z.job].status = "cancelled"
    BY <1>2 DEF IInv, TokensSound, TokenReads
  <2>2. job'[z.job] = job[z.job]
    BY <1>2, <1>3, <2>1 DEF Queues, Readable
  <2> QED
    BY <2>1, <2>2 DEF Readable
<1>6. OneArmed'
  BY <1>1, Known DEF OneArmed
<1>7. WriterHoldsLease'
  <2> SUFFICES ASSUME NEW j \in Jobs, job'[j].status = "running", Writes(j)',
                      job'[j].lease # Lapsed
               PROVE  /\ repoLease'[RepoOf[job'[j].task]].job = j
                      /\ repoLease'[RepoOf[job'[j].task]].owner = job'[j].owner
                      /\ repoLease'[RepoOf[job'[j].task]].expires >= job'[j].lease
    BY DEF WriterHoldsLease, RepoOfJob
  <2>1. j # x.job /\ job'[j] = job[j]
    BY <1>3 DEF Ends, Queues
  <2> DEFINE r == RepoOf[job[j].task]
  <2>2. r \in Repos
    BY <2>1, SchedulerAssumption DEF IInv, TablesOK, Created
  <2>3. /\ repoLease[r].job = j /\ repoLease[r].owner = job[j].owner
        /\ repoLease[r].expires >= job[j].lease
    BY <2>1 DEF IInv, WriterHoldsLease, RepoOfJob, Writes, Class, VersionOfJob
  <2>4. repoLease'[r] = repoLease[r]
    BY <2>1, <2>2, <2>3 DEF Ends, ReleasedBy
  <2> QED
    BY <2>1, <2>3, <2>4
<1>8. DeployQuiet'
  BY <1>3 DEF IInv, DeployQuiet, Ends, Queues
<1> QED
  BY <1>4, <1>5, <1>6, <1>7, <1>8 DEF IInv, TokensSound
-----------------------------------------------------------------------------
(* Claim: whatever job it starts or gives up was waiting, and a writer is   *)
(* only admitted while no other live writer holds the repository.           *)

LEMMA AdmittedWriterMeetsFreeLease ==
    ASSUME IInv, NEW j \in Jobs, Ready(j), Writes(j),
           NEW k \in Jobs, k # j, job[k].status = "running", job[k].lease # Lapsed, Writes(k)
    PROVE  RepoOfJob(j) # RepoOfJob(k)
<1>1. LeaseFree(j)
  BY DEF Ready, Admitted, AdmittedV2, Writes
<1> DEFINE lease == repoLease[RepoOfJob(k)]
<1>2. lease.job = k /\ lease.expires >= job[k].lease
  BY DEF IInv, WriterHoldsLease
<1>3. job[k].lease \in Nat
  BY DEF IInv, TablesOK, JobRows, Deadlines
<1>4. lease.job # NoJob /\ lease.expires # Lapsed
  BY <1>2, <1>3 DEF Jobs, NoJob, Lapsed
<1> QED
  BY <1>1, <1>2, <1>4 DEF LeaseFree

LEMMA ClaimStep ==
    ASSUME IInv, TablesOK', RecoveryOK', ReadFences', Claim
    PROVE  IInv'
<1>1. PICK start, spent, stale, capped : Pass(start, spent, stale, capped)
  BY ClaimIsPass
<1>2. TablesOK
  BY DEF IInv
<1>3. /\ start \in Jobs \cup {NoJob} /\ NoJob \notin Jobs
      /\ \A j \in Jobs : \/ j = start /\ j \in Waiting /\ Ready(j) /\ job'[j] = Started(j)
                         \/ j \in Waiting /\ job'[j] = GivenUp(j, capped)
                         \/ j \in Waiting /\ job'[j] = [Fenced(j) EXCEPT !.status = "cancelled"]
                         \/ j # start /\ job'[j] = Fenced(j)
  BY <1>1 DEF Pass, Serve, NoJob, Jobs
<1>4. \A j \in Jobs : j \notin Waiting => job'[j] = job[j]
  BY <1>3 DEF Fenced, Waiting
<1>5. \A j \in Jobs : job[j].status # "absent" =>
          job'[j].status # "absent" /\ job'[j].fence >= job[j].fence
  <2> SUFFICES ASSUME NEW j \in Jobs, job[j].status # "absent"
               PROVE  job'[j].status # "absent" /\ job'[j].fence >= job[j].fence
    OBVIOUS
  <2>1. /\ Fenced(j) \in JobRows /\ Fenced(j).fence \in Nat
        /\ Fenced(j).fence >= job[j].fence /\ Fenced(j).status # "absent"
    BY <1>2, FencedType
  <2>2. job[j].fence \in Nat
    BY <1>2 DEF TablesOK, JobRows
  <2>3. CASE job'[j] = Started(j)
    BY <1>2, <2>1, <2>2, <2>3, StartedType
  <2>4. CASE job'[j] = GivenUp(j, capped)
    BY <1>2, <2>4, GivenUpType
  <2>5. CASE job'[j] = [Fenced(j) EXCEPT !.status = "cancelled"]
    BY <2>1, <2>5 DEF JobRows
  <2>6. CASE job'[j] = Fenced(j)
    BY <2>1, <2>6
  <2> QED
    BY <1>3, <2>3, <2>4, <2>5, <2>6
<1> DEFINE token == [job |-> start, fence |-> Fenced(start).fence + 1, owner |-> leader,
                     seen |-> Unread]
<1>6. /\ start = NoJob => exec' = exec
      /\ start # NoJob => exec' = exec \cup {token}
  BY <1>1 DEF Pass, Serve
<1>7. start # NoJob =>
        /\ start \in Jobs /\ start \in Waiting /\ Ready(start) /\ job'[start] = Started(start)
        /\ token.job = start /\ token.fence = job'[start].fence /\ ~(token.seen > 0)
        /\ job'[start].status = "running"
        /\ \A z \in exec : z.job = start => z.fence < token.fence
  <2> SUFFICES ASSUME start # NoJob
               PROVE  /\ start \in Jobs /\ start \in Waiting /\ Ready(start)
                      /\ job'[start] = Started(start)
                      /\ token.job = start /\ token.fence = job'[start].fence
                      /\ ~(token.seen > 0) /\ job'[start].status = "running"
                      /\ \A z \in exec : z.job = start => z.fence < token.fence
    OBVIOUS
  <2>1. start \in Jobs /\ start \in Waiting /\ Ready(start) /\ job'[start] = Started(start)
    BY <1>1 DEF Pass, Serve
  <2>2. Fenced(start).fence \in Nat /\ Fenced(start).fence >= job[start].fence
    BY <1>2, <2>1, FencedType
  <2>3. job'[start].fence = Fenced(start).fence + 1 /\ job'[start].status = "running"
    BY <1>2, <2>1, StartedType
  <2>4. \A z \in exec : z.job = start => z.fence < Fenced(start).fence + 1
    <3> SUFFICES ASSUME NEW z \in exec, z.job = start
                 PROVE  z.fence < Fenced(start).fence + 1
      OBVIOUS
    <3>1. z.fence <= job[start].fence /\ z.fence \in Nat /\ job[start].fence \in Nat
      BY <2>1, Known DEF Executions, JobRows
    <3> QED
      BY <2>2, <3>1
  <2> QED
    BY <2>1, <2>3, <2>4 DEF Unread
<1> HIDE DEF token
<1>8. TokenFences'
  <2>1. ASSUME NEW z \in exec PROVE z.job \in Created' /\ z.fence <= job'[z.job].fence
    <3>1. /\ z.job \in Jobs /\ job[z.job].status # "absent" /\ z.fence <= job[z.job].fence
          /\ z.fence \in Nat /\ job[z.job].fence \in Nat
      BY Known DEF Executions, JobRows
    <3>2. job'[z.job].fence \in Nat
      BY <3>1 DEF TablesOK, JobRows
    <3> QED
      BY <1>5, <3>1, <3>2 DEF Created
  <2>2. start # NoJob => token.job \in Created' /\ token.fence <= job'[token.job].fence
    <3> SUFFICES ASSUME start # NoJob
                 PROVE  token.job \in Created' /\ token.fence <= job'[token.job].fence
      OBVIOUS
    <3>1. job'[start].fence \in Nat
      BY <1>7 DEF TablesOK, JobRows
    <3> QED
      BY <1>7, <3>1 DEF Created
  <2>3. ASSUME NEW z \in exec', NEW y \in exec', z.job = y.job, z.fence = y.fence
        PROVE  z = y
    <3>1. \A w \in exec : w.fence \in Nat
      BY Known DEF Executions
    <3> QED
      BY <1>6, <1>7, <2>3, <3>1, Known
  <2> QED
    BY <1>6, <2>1, <2>2, <2>3 DEF TokenFences
<1>9. TokenReads'
  <2> SUFFICES ASSUME NEW z \in exec', z.seen > 0
               PROVE  \/ Readable(z)' /\ job'[z.job].lease >= z.seen
                      \/ job'[z.job].status = "cancelled"
    BY DEF TokenReads
  <2>1. z \in exec
    BY <1>6, <1>7
  <2>2. \/ Readable(z) /\ job[z.job].lease >= z.seen
        \/ job[z.job].status = "cancelled"
    BY <2>1 DEF IInv, TokensSound, TokenReads
  <2>3. z.job \in Jobs /\ job[z.job].lease \in Deadlines /\ z.seen \in Nat
    BY <2>1, Known DEF Executions, JobRows, Deadlines, Lapsed, Unread
  <2>4. z.job \notin Waiting
    BY <2>2, <2>3 DEF Waiting, Expired, Readable, Lapsed
  <2> QED
    BY <1>4, <2>2, <2>3, <2>4 DEF Readable
<1>10. OneArmed'
  BY <1>6, <1>7, Known DEF OneArmed
<1>11. WriterHoldsLease'
  <2> SUFFICES ASSUME NEW j \in Jobs, job'[j].status = "running", Writes(j)',
                      job'[j].lease # Lapsed
               PROVE  /\ repoLease'[RepoOf[job'[j].task]].job = j
                      /\ repoLease'[RepoOf[job'[j].task]].owner = job'[j].owner
                      /\ repoLease'[RepoOf[job'[j].task]].expires >= job'[j].lease
    BY DEF WriterHoldsLease, RepoOfJob
  <2>1. \A r \in Repos : repoLease'[r] =
            IF start # NoJob /\ Writes(start) /\ RepoOfJob(start) = r
            THEN [job |-> start, owner |-> leader, expires |-> LeaseSeconds]
            ELSE IF \E i \in spent : Writes(i) /\ RepoOfJob(i) = r THEN NoLease
            ELSE repoLease[r]
    BY <1>1 DEF Pass, Serve
  <2>2. CASE j = start
    <3>1. /\ job'[j] = Started(j) /\ Started(j).task = job[j].task
          /\ Started(j).role = job[j].role /\ Started(j).kind = job[j].kind
          /\ Started(j).owner = leader /\ Started(j).lease = LeaseSeconds
      BY <1>2, <1>3, <1>7, <2>2, StartedType
    <3>2. Writes(j)
      BY <3>1 DEF Writes, Class, VersionOfJob
    <3>3. job[j].task \in Tasks
      BY <1>2, <1>3, <1>7, <2>2 DEF TablesOK, Created, Waiting, Expired
    <3>4. repoLease'[RepoOf[job[j].task]] =
            [job |-> j, owner |-> leader, expires |-> LeaseSeconds]
      BY <1>3, <2>1, <2>2, <3>2, <3>3, SchedulerAssumption DEF RepoOfJob
    <3> QED
      BY <3>1, <3>4, SchedulerAssumption
  <2>3. CASE j # start
    <3>1. job'[j].status # "running" \/ job'[j] = Fenced(j)
      <4>1. GivenUp(j, capped).status # "running"
        BY <1>2, GivenUpType
      <4>2. [Fenced(j) EXCEPT !.status = "cancelled"].status # "running"
        BY <1>2, FencedType DEF JobRows
      <4> QED
        BY <1>3, <2>3, <4>1, <4>2
    <3>2. ~Expired(j) /\ job'[j] = job[j]
      <4>1. Fenced(j).status = "running"
        BY <3>1
      <4>2. ~Expired(j)
        <5> SUFFICES ASSUME Expired(j) PROVE FALSE
          OBVIOUS
        <5>1. Fenced(j) = [job[j] EXCEPT !.status = "queued", !.fence = job[j].fence + 1]
          BY DEF Fenced
        <5>2. job[j] \in JobRows
          BY <1>2 DEF TablesOK
        <5>3. Fenced(j).status = "queued"
          BY <5>1, <5>2 DEF JobRows
        <5> QED
          BY <4>1, <5>3
      <4> QED
        BY <3>1, <4>1, <4>2 DEF Fenced
    <3>3. Writes(j) /\ job[j].status = "running" /\ job[j].lease # Lapsed
      BY <3>2 DEF Writes, Class, VersionOfJob
    <3> DEFINE r == RepoOf[job[j].task]
    <3>4. r \in Repos
      BY <1>2, <3>3, SchedulerAssumption DEF TablesOK, Created
    <3>5. ~(start # NoJob /\ Writes(start) /\ RepoOfJob(start) = r)
      BY <1>7, <2>3, <3>3, AdmittedWriterMeetsFreeLease DEF RepoOfJob
    <3>6. ~\E i \in spent : Writes(i) /\ RepoOfJob(i) = r
      <4> SUFFICES ASSUME NEW i \in spent, Writes(i), RepoOfJob(i) = r PROVE FALSE
        OBVIOUS
      <4>1. i \in Jobs /\ i \in Waiting /\ Ready(i)
        BY <1>1 DEF Pass, Waiting
      <4>2. i # j
        BY <3>2, <3>3, <4>1 DEF Waiting
      <4> QED
        BY <3>3, <4>1, <4>2, AdmittedWriterMeetsFreeLease DEF RepoOfJob
    <3>7. repoLease'[r] = repoLease[r]
      BY <2>1, <3>4, <3>5, <3>6
    <3> QED
      BY <3>2, <3>3, <3>7 DEF IInv, WriterHoldsLease, RepoOfJob
  <2> QED
    BY <2>2, <2>3
<1>12. DeployQuiet'
  BY <1>1 DEF Pass, DeployQuiet
<1> QED
  BY <1>8, <1>9, <1>10, <1>11, <1>12 DEF IInv, TokensSound
-----------------------------------------------------------------------------
(* Time, a new leader and releases.                                         *)

(* What a token x is after the clock moved: z.                              *)
Aged(x, z) == z = [x EXCEPT !.seen = IF x.seen = Unread THEN x.seen ELSE Elapse(x.seen)]

LEMMA AgedToken ==
    ASSUME NEW x \in Executions, NEW z, Aged(x, z)
    PROVE  /\ z.job = x.job /\ z.fence = x.fence /\ z.owner = x.owner
           /\ z.seen > 0 => x.seen \in Nat /\ z.seen = x.seen - 1 /\ x.seen > 0
<1> DEFINE seen == IF x.seen = Unread THEN x.seen ELSE Elapse(x.seen)
<1>1. z.job = x.job /\ z.fence = x.fence /\ z.owner = x.owner /\ z.seen = seen
  BY Reread DEF Aged
<1>2. x.seen \in Deadlines \cup {Unread}
  BY DEF Executions
<1>3. seen > 0 => x.seen \in Nat /\ seen = x.seen - 1 /\ x.seen > 0
  BY <1>2 DEF Deadlines, Elapse, Lapsed, Unread
<1> QED
  BY <1>1, <1>3

LEMMA TickStep ==
    ASSUME IInv, TablesOK', RecoveryOK', ReadFences', Tick
    PROVE  IInv'
<1>1. \A j \in Jobs : /\ job[j] \in JobRows
                     /\ job'[j] = [job[j] EXCEPT !.lease = Elapse(job[j].lease)]
  BY Known DEF Tick
<1>2. \A j \in Jobs : /\ job'[j].status = job[j].status /\ job'[j].task = job[j].task
                     /\ job'[j].role = job[j].role /\ job'[j].kind = job[j].kind
                     /\ job'[j].fence = job[j].fence /\ job'[j].owner = job[j].owner
                     /\ job'[j].lease = Elapse(job[j].lease) /\ job[j].lease \in Deadlines
  BY <1>1 DEF JobRows
<1>3. \A z \in exec' : \E x \in exec : Aged(x, z)
  BY DEF Tick, Aged
<1>4. TokenFences'
  <2>1. ASSUME NEW z \in exec' PROVE z.job \in Created' /\ z.fence <= job'[z.job].fence
    <3>1. PICK x \in exec : Aged(x, z)
      BY <1>3
    <3>2. z.job = x.job /\ z.fence = x.fence
      BY <3>1, AgedToken, Known
    <3> QED
      BY <1>2, <3>2, Known DEF Created
  <2>2. ASSUME NEW z \in exec', NEW y \in exec', z.job = y.job, z.fence = y.fence
        PROVE  z = y
    <3>1. PICK a \in exec : Aged(a, z)
      BY <1>3
    <3>2. PICK b \in exec : Aged(b, y)
      BY <1>3
    <3>3. a.job = b.job /\ a.fence = b.fence
      BY <2>2, <3>1, <3>2, AgedToken, Known
    <3>4. a = b
      BY <3>3, Known
    <3> QED
      BY <3>1, <3>2, <3>4 DEF Aged
  <2> QED
    BY <2>1, <2>2 DEF TokenFences
<1>5. TokenReads'
  <2> SUFFICES ASSUME NEW z \in exec', z.seen > 0
               PROVE  \/ Readable(z)' /\ job'[z.job].lease >= z.seen
                      \/ job'[z.job].status = "cancelled"
    BY DEF TokenReads
  <2>0. PICK x \in exec : Aged(x, z)
    BY <1>3
  <2>1. /\ z.job = x.job /\ z.fence = x.fence /\ z.owner = x.owner
        /\ x.seen \in Nat /\ z.seen = x.seen - 1 /\ x.seen > 0
    BY <2>0, AgedToken, Known
  <2>2. x.job \in Jobs
    BY Known
  <2>3. \/ Readable(x) /\ job[x.job].lease >= x.seen
        \/ job[x.job].status = "cancelled"
    BY <2>1 DEF IInv, TokensSound, TokenReads
  <2>4. ASSUME job[x.job].lease >= x.seen PROVE job'[x.job].lease >= z.seen
    <3>1. job[x.job].lease \in Deadlines /\ job'[x.job].lease = Elapse(job[x.job].lease)
      BY <1>2, <2>2
    <3> QED
      BY <2>1, <2>4, <3>1 DEF Deadlines, Elapse, Lapsed
  <2>5. Readable(x) => Readable(z)'
    BY <1>2, <2>1, <2>2 DEF Readable
  <2> QED
    BY <1>2, <2>1, <2>2, <2>3, <2>4, <2>5
<1>6. OneArmed'
  <2> SUFFICES ASSUME NEW z \in exec', NEW y \in exec', z.job = y.job, z.seen > 0, y.seen > 0
               PROVE  z = y
    BY DEF OneArmed
  <2>1. PICK a \in exec : Aged(a, z)
    BY <1>3
  <2>2. PICK b \in exec : Aged(b, y)
    BY <1>3
  <2>3. a.seen > 0 /\ b.seen > 0 /\ a.job = b.job
    BY <2>1, <2>2, AgedToken, Known
  <2>4. a = b
    BY <2>3, Known
  <2> QED
    BY <2>1, <2>2, <2>4 DEF Aged
<1>7. WriterHoldsLease'
  <2> SUFFICES ASSUME NEW j \in Jobs, job'[j].status = "running", Writes(j)',
                      job'[j].lease # Lapsed
               PROVE  /\ repoLease'[RepoOf[job'[j].task]].job = j
                      /\ repoLease'[RepoOf[job'[j].task]].owner = job'[j].owner
                      /\ repoLease'[RepoOf[job'[j].task]].expires >= job'[j].lease
    BY DEF WriterHoldsLease, RepoOfJob
  <2> DEFINE r == RepoOf[job[j].task]
  <2>1. /\ Writes(j) /\ job[j].status = "running" /\ r = RepoOf[job'[j].task]
        /\ job'[j].owner = job[j].owner /\ job[j].lease # Lapsed /\ job[j].lease \in Nat
        /\ job'[j].lease = job[j].lease - 1
    BY <1>2 DEF Writes, Class, VersionOfJob, Elapse, Deadlines
  <2>2. r \in Repos
    BY <2>1, SchedulerAssumption DEF IInv, TablesOK, Created
  <2>3. /\ repoLease[r].job = j /\ repoLease[r].owner = job[j].owner
        /\ repoLease[r].expires >= job[j].lease
    BY <2>1 DEF IInv, WriterHoldsLease, RepoOfJob
  <2>4. repoLease[r] \in Leases
    BY <2>2, <2>3 DEF IInv, TablesOK, NoLease, NoJob, Jobs
  <2>5. repoLease'[r] = [repoLease[r] EXCEPT !.expires = Elapse(repoLease[r].expires)]
    BY <2>2 DEF Tick
  <2>6. /\ repoLease'[r].job = j /\ repoLease'[r].owner = job[j].owner
        /\ repoLease'[r].expires = Elapse(repoLease[r].expires)
        /\ repoLease[r].expires \in Deadlines
    BY <2>3, <2>4, <2>5 DEF Leases
  <2>7. repoLease'[r].expires >= job'[j].lease
    BY <2>1, <2>3, <2>6 DEF Deadlines, Elapse, Lapsed
  <2> QED
    BY <2>1, <2>6, <2>7
<1>8. DeployQuiet'
  BY <1>2 DEF IInv, DeployQuiet, Tick
<1> QED
  BY <1>4, <1>5, <1>6, <1>7, <1>8 DEF IInv, TokensSound

LEMMA ProcessStep ==
    ASSUME IInv, TablesOK', RecoveryOK', ReadFences', Failover \/ DeployClaim \/ DeployComplete
    PROVE  IInv'
<1>1. /\ job' = job /\ repoLease' = repoLease /\ exec' \subseteq exec
      /\ deploying' => DeployQuiet'
  BY DEF Failover, DeployClaim, DeployComplete, IInv, DeployQuiet
<1>2. TokensSound'
  BY <1>1 DEF IInv, TokensSound, TokenFences, TokenReads, OneArmed, Created, Readable
<1>3. WriterHoldsLease'
  BY <1>1 DEF IInv, WriterHoldsLease, Writes, Class, VersionOfJob, RepoOfJob
<1>4. DeployQuiet'
  BY <1>1 DEF DeployQuiet
<1> QED
  BY <1>2, <1>3, <1>4 DEF IInv
-----------------------------------------------------------------------------
(* What a step does to a row.                                               *)

LEMMA RowKnown ==
    ASSUME IInv
    PROVE  /\ TablesOK /\ TokenFences
           /\ \A x \in exec : x \in Executions /\ x.job \in Jobs /\ job[x.job].status # "absent"
           /\ \A j \in Jobs : job[j] \in JobRows
BY Known DEF IInv, TokensSound

(* A claim leaves the row of a job it does not start at most fenced, given
   up or cancelled: what runs after it ran before, within its lease.        *)
LEMMA PassRow ==
    ASSUME IInv, NEW start, NEW spent, NEW stale, NEW capped, Pass(start, spent, stale, capped),
           NEW j \in Jobs
    PROVE  /\ job'[j].task = job[j].task /\ job'[j].role = job[j].role
           /\ job[j].status = "absent" <=> job'[j].status = "absent"
           /\ job'[j].status = "running" =>
                /\ job'[j].kind = job[j].kind
                /\ \/ j = start /\ Ready(j)
                   \/ job'[j] = job[j] /\ j \in Running
           /\ j \notin Waiting => job'[j] = job[j]
           /\ task[job[j].task].state \in STOPPED =>
                \/ job'[j].status = job[j].status
                \/ Expired(j) /\ job'[j].status = "queued"
<1>1. TablesOK /\ job[j] \in JobRows /\ NoJob \notin Jobs
  BY RowKnown DEF NoJob, Jobs
<1>2. /\ Fenced(j) \in JobRows /\ Fenced(j).task = job[j].task /\ Fenced(j).role = job[j].role
      /\ Fenced(j).status = IF Expired(j) THEN "queued" ELSE job[j].status
  BY <1>1, FencedType
<1>3. CASE j = start
  <2>1. job'[j] = Started(j) /\ j \in Waiting /\ Ready(j)
    BY <1>1, <1>3 DEF Pass, Serve
  <2>2. job[j].status \in {"queued", "running"} /\ task[job[j].task].state \notin STOPPED
    BY <2>1 DEF Waiting, Expired, Ready
  <2>3. /\ job'[j].task = job[j].task /\ job'[j].role = job[j].role
        /\ job'[j].kind = job[j].kind /\ job'[j].status = "running"
    BY <1>1, <2>1, StartedType
  <2> QED
    BY <1>3, <2>1, <2>2, <2>3
<1>4. CASE j # start /\ j \in spent
  <2>1. job'[j] = GivenUp(j, capped) /\ j \in Waiting /\ Ready(j)
    BY <1>1, <1>4 DEF Pass, Serve
  <2>2. job[j].status \in {"queued", "running"} /\ task[job[j].task].state \notin STOPPED
    BY <2>1 DEF Waiting, Expired, Ready
  <2> QED
    BY <1>1, <2>1, <2>2, GivenUpType
<1>5. CASE j # start /\ j \notin spent /\ j \in stale
  <2>1. /\ job'[j] = [Fenced(j) EXCEPT !.status = "cancelled"] /\ j \in Waiting
        /\ task[job[j].task].state \notin STOPPED
    BY <1>1, <1>5 DEF Pass, Serve
  <2>2. job[j].status \in {"queued", "running"}
    BY <2>1 DEF Waiting, Expired
  <2>3. /\ job'[j].status = "cancelled" /\ job'[j].task = job[j].task
        /\ job'[j].role = job[j].role
    BY <1>2, <2>1 DEF JobRows
  <2> QED
    BY <2>1, <2>2, <2>3
<1>6. CASE j # start /\ j \notin spent /\ j \notin stale
  <2>1. job'[j] = Fenced(j)
    BY <1>1, <1>6 DEF Pass, Serve
  <2>2. CASE Expired(j)
    <3>1. j \in Waiting /\ job[j].status = "running"
      BY <2>2 DEF Waiting, Expired
    <3> QED
      BY <1>2, <2>1, <2>2, <3>1
  <2>3. CASE ~Expired(j)
    <3>1. job'[j] = job[j]
      BY <2>1, <2>3 DEF Fenced
    <3>2. job[j].status = "running" => j \in Running
      BY <2>3 DEF Running
    <3> QED
      BY <3>1, <3>2
  <2> QED
    BY <2>2, <2>3
<1> QED
  BY <1>3, <1>4, <1>5, <1>6

LEMMA EnqueueOwn ==
    ASSUME TablesOK, NEW t \in Tasks, NEW n \in Jobs, NEW kind, NEW role, NEW identity,
           NEW rows \in {job, Invalidated(t)}, Enqueue(rows, n, t, kind, role, identity),
           NEW j \in Jobs, job[j].status # "absent"
    PROVE  job'[j] = rows[j]
<1>1. rows \in [Jobs -> JobRows]
  BY InvalidatedType DEF TablesOK
<1>2. job' = [rows EXCEPT ![n] = NewJob(t, kind, role, identity, FALSE)] /\ n # j
  BY DEF Enqueue, IsNext
<1> QED
  BY <1>1, <1>2

(* A command does not turn a job into another.                              *)
LEMMA CommandRow ==
    ASSUME TablesOK, NEW t \in Tasks, Command(t), NEW j \in Jobs, job[j].status # "absent"
    PROVE  /\ job'[j].task = job[j].task /\ job'[j].role = job[j].role
           /\ job'[j].kind = job[j].kind
<1> DEFINE Same(row) == /\ row.task = job[j].task /\ row.role = job[j].role
                        /\ row.kind = job[j].kind
<1>1. job \in [Jobs -> JobRows] /\ job[j] \in JobRows
  BY DEF TablesOK
<1>2. Same(Invalidated(t)[j])
  BY <1>1 DEF Invalidated, JobRows
<1>3. ASSUME NEW n \in Jobs, NEW kind, NEW role, NEW identity,
             \/ Enqueue(job, n, t, kind, role, identity)
             \/ Enqueue(Invalidated(t), n, t, kind, role, identity)
      PROVE  Same(job'[j])
  BY <1>2, <1>3, EnqueueOwn
<1>4. CASE Submit(t) \/ Register(t) \/ Revise(t) \/ AnswerImplementation(t) \/ Reidentify(t)
  BY <1>3, <1>4 DEF Submit, Register, Revise, AnswerImplementation, Reidentify
<1>5. CASE Pause(t) \/ Cancel(t)
  BY <1>2, <1>5 DEF Pause, Cancel
<1>6. CASE Resume(t) \/ RetryAnew(t)
  BY <1>3, <1>6 DEF Resume, RetryAnew, Restarted
<1>7. CASE RetryFailed(t)
  BY <1>1, <1>7 DEF RetryFailed, JobRows
<1>8. CASE RetryProposal(t)
  BY <1>1, <1>8 DEF RetryProposal, JobRows
<1> QED
  BY <1>4, <1>5, <1>6, <1>7, <1>8 DEF Command

-----------------------------------------------------------------------------
(* The stall recovery.  What it has read stays true of the rows in one      *)
(* respect, the tasks of the jobs, and bounds the tokens: claim, which      *)
(* alone issues them, waits for its end.                                    *)

LEMMA RecoveryRow ==
    ASSUME IInv
    PROVE  /\ recovery \in Recoveries /\ recovery.read \subseteq Jobs
           /\ recovery.identity \in Nat
           /\ \A j \in recovery.read : job[j].status # "absent" /\ job[j].task = recovery.task
           /\ \A j \in Jobs : recovery.fence[j] \in Nat
           /\ recovered \subseteq Created
           /\ recovery.read # {} => recovery.task \in Tasks
<1>1. /\ recovery \in Recoveries /\ recovered \subseteq Created
      /\ \A j \in recovery.read : j \in Created /\ job[j].task = recovery.task
  BY DEF IInv, RecoveryOK
<1>2. recovery.read \subseteq Jobs /\ recovery.identity \in Nat
      /\ recovery.fence \in [Jobs -> Nat]
  BY <1>1 DEF Recoveries
<1>3. recovery.read # {} => recovery.task \in Tasks
  BY <1>1 DEF IInv, TablesOK
<1> QED
  BY <1>1, <1>2, <1>3 DEF Created

(* No step but a claim or the recovery issues a token or disturbs its reads. *)
KeepsTasks == \A j \in Jobs : job[j].status # "absent" =>
                  job'[j].status # "absent" /\ job'[j].task = job[j].task
KeepsTokens == \A z \in exec' : \E x \in exec : z.job = x.job /\ z.fence = x.fence

LEMMA RecoveryKept ==
    ASSUME IInv, KeepsTasks, KeepsTokens, Unrecovered
    PROVE  RecoveryOK' /\ ReadFences'
<1>1. recovery' = recovery /\ recovered' = recovered
  BY DEF Unrecovered
<1>2. \A j \in Created : j \in Created' /\ job'[j].task = job[j].task
  BY DEF KeepsTasks, Created
<1>3. RecoveryOK'
  BY <1>1, <1>2 DEF IInv, RecoveryOK
<1>4. ReadFences'
  BY <1>1 DEF IInv, TokensSound, ReadFences, KeepsTokens
<1> QED
  BY <1>3, <1>4

LEMMA NoRecoveryOK ==
    ASSUME recovery' = NoRecovery, recovered' \subseteq Created'
    PROVE  RecoveryOK' /\ ReadFences'
<1>1. NoRecovery \in Recoveries /\ NoRecovery.read = {}
  BY DEF NoRecovery, Recoveries
<1> QED
  BY <1>1 DEF RecoveryOK, ReadFences

LEMMA ExecutionKeeps ==
    ASSUME IInv, NEW x \in exec, Execution(x)
    PROVE  KeepsTasks /\ KeepsTokens
<1>1. Reads(x) \/ Renews(x) \/ Ends(x)
  BY RowKnown, ExecutionHasEffect
<1>2. x \in Executions /\ x.job \in Jobs
  BY RowKnown
<1>3. KeepsTasks
  <2> SUFFICES ASSUME NEW j \in Jobs, job[j].status # "absent"
               PROVE  job'[j].status # "absent" /\ job'[j].task = job[j].task
    BY DEF KeepsTasks
  <2>1. CASE Reads(x)
    BY <2>1 DEF Reads
  <2>2. CASE Renews(x)
    BY <2>2 DEF Renews
  <2>3. CASE Ends(x)
    BY <2>3 DEF Ends, QueuesNew
  <2> QED
    BY <1>1, <2>1, <2>2, <2>3
<1>4. KeepsTokens
  <2>1. PICK seen : exec' \subseteq (exec \ {x}) \cup {[x EXCEPT !.seen = seen]}
    BY <1>1 DEF Reads, Renews, Ends, Replace
  <2> DEFINE y == [x EXCEPT !.seen = seen]
  <2>2. y.job = x.job /\ y.fence = x.fence
    BY <1>2, Reread
  <2>3. exec' \subseteq exec \cup {y}
    BY <2>1
  <2> HIDE DEF y
  <2> QED
    BY <2>2, <2>3 DEF KeepsTokens
<1> QED
  BY <1>3, <1>4

LEMMA CommandKeeps ==
    ASSUME IInv, NEW t \in Tasks, Command(t)
    PROVE  KeepsTasks /\ KeepsTokens
<1>1. exec' = exec /\ \A j \in Jobs : job'[j] = job[j] \/ Invalidates(j) \/ Queues(j)
  BY RowKnown, CommandHasEffect DEF CommandEffect
<1>2. \A j \in Jobs : job[j].status # "absent" => job'[j].task = job[j].task
  BY RowKnown, CommandRow
<1> QED
  BY <1>1, <1>2 DEF KeepsTasks, KeepsTokens, Invalidates, Queues

LEMMA EnvironmentKeeps ==
    ASSUME IInv, Tick \/ DeployClaim \/ DeployComplete
    PROVE  KeepsTasks /\ KeepsTokens /\ Unrecovered
<1>1. CASE Tick
  <2>1. ASSUME NEW j \in Jobs
        PROVE  job'[j].status = job[j].status /\ job'[j].task = job[j].task
    <3>1. job[j] \in JobRows /\ job'[j] = [job[j] EXCEPT !.lease = Elapse(job[j].lease)]
      BY <1>1, RowKnown DEF Tick
    <3> QED
      BY <3>1 DEF JobRows
  <2>2. \A z \in exec' : \E x \in exec : Aged(x, z)
    BY <1>1 DEF Tick, Aged
  <2>3. KeepsTokens
    BY <2>2, AgedToken, Known DEF KeepsTokens
  <2> QED
    BY <1>1, <2>1, <2>3 DEF KeepsTasks, Tick, Unrecovered
<1>2. CASE DeployClaim \/ DeployComplete
  BY <1>2 DEF DeployClaim, DeployComplete, KeepsTasks, KeepsTokens, Unrecovered
<1> QED
  BY <1>1, <1>2

LEMMA ClaimKeeps ==
    ASSUME IInv, Claim
    PROVE  RecoveryOK' /\ ReadFences'
<1>1. PICK start, spent, stale, capped : Pass(start, spent, stale, capped)
  BY ClaimIsPass
<1>2. \A j \in Created : j \in Created'
  BY <1>1, PassRow DEF Created
<1>3. recovery' = NoRecovery /\ recovered' \subseteq recovered
  BY Zenon DEF Claim
<1> QED
  BY <1>2, <1>3, RecoveryRow, NoRecoveryOK

(* The write of the recovery: the rows it read are cancelled under a fence
   beyond every token, the others stay and at most one job is queued.       *)
Recalls(j) == /\ j \in recovery.read
              /\ job'[j].status = "cancelled" /\ job'[j].fence = recovery.fence[j] + 1
              /\ job'[j].task = job[j].task /\ job'[j].role = job[j].role
              /\ job'[j].kind = job[j].kind
Leaves(j) == j \notin recovery.read /\ (job'[j] = job[j] \/ QueuesNew(j))

LEMMA RecalledRows ==
    ASSUME IInv
    PROVE  /\ RowsOK(Recalled)
           /\ \A j \in recovery.read :
                /\ Recalled[j].status = "cancelled" /\ Recalled[j].fence = recovery.fence[j] + 1
                /\ Recalled[j].task = job[j].task /\ Recalled[j].role = job[j].role
                /\ Recalled[j].kind = job[j].kind
           /\ \A j \in Jobs : j \notin recovery.read => Recalled[j] = job[j]
<1>1. RowsOK(job) /\ recovery.read \subseteq Jobs
  BY RowsOfType, RecoveryRow DEF IInv
<1>2. ASSUME NEW j \in recovery.read
      PROVE  /\ Recalled[j] \in JobRows
             /\ Recalled[j].status = "cancelled" /\ Recalled[j].fence = recovery.fence[j] + 1
             /\ Recalled[j].task = job[j].task /\ Recalled[j].role = job[j].role
             /\ Recalled[j].kind = job[j].kind
  <2> DEFINE fence == recovery.fence[j] + 1
             new == [job[j] EXCEPT !.status = "cancelled", !.fence = fence]
  <2>1. j \in Jobs /\ fence \in Nat /\ job[j] \in JobRows
    BY <1>1, RecoveryRow DEF RowsOK
  <2>2. Recalled[j] = new
    BY <2>1 DEF Recalled
  <2> HIDE DEF fence
  <2>3. /\ new \in JobRows /\ new.status = "cancelled" /\ new.fence = fence
        /\ new.task = job[j].task /\ new.role = job[j].role /\ new.kind = job[j].kind
    BY <2>1 DEF JobRows, Statuses
  <2> QED
    BY <2>2, <2>3 DEF fence
<1>3. \A j \in Jobs : j \notin recovery.read => Recalled[j] = job[j]
  BY DEF Recalled
<1>4. \A j \in recovery.read : job[j].status # "absent"
  BY RecoveryRow
<1>5. \A j \in Jobs : Recalled[j] \in JobRows
  BY <1>1, <1>2, <1>3 DEF RowsOK
<1>6. Recalled \in [Jobs -> JobRows]
  BY <1>5 DEF Recalled
<1>7. RowsOK(Recalled)
  BY <1>1, <1>2, <1>3, <1>4, <1>6 DEF RowsOK
<1> QED
  BY <1>2, <1>3, <1>7

LEMMA RecoverHasEffect ==
    ASSUME IInv, RecoverStalled
    PROVE  /\ RowsOK(job') /\ task' \in [Tasks -> TaskRows]
           /\ \A j \in Jobs : Recalls(j) \/ Leaves(j)
           /\ \A u \in Tasks : u # recovery.task => task'[u] = task[u]
<1> DEFINE t == recovery.task
<1>1. /\ t \in Tasks /\ recovery.read \subseteq Jobs
      /\ recovery.identity \in Nat /\ recovery.identity \in Pins
  BY RecoveryRow DEF RecoverStalled, Pins
<1>2. task \in [Tasks -> TaskRows] /\ RowsOK(job)
  BY RowsOfType DEF IInv, TablesOK
<1>3. CASE /\ job' = Recalled
           /\ task' = [task EXCEPT ![t] = Under(Transition(@, "Blocked"), recovery.identity)]
  <2>1. task' \in [Tasks -> TaskRows]
    BY <1>1, <1>3, MovedType, LeadType DEF IInv
  <2> QED
    BY <1>2, <1>3, <2>1, RecalledRows DEF Recalls, Leaves
<1>4. ASSUME NEW latest \in recovery.read, NEW n \in Jobs, NEW retried \in BOOLEAN,
             Enqueue(Recalled, n, t, job[latest].kind, job[latest].role, recovery.identity),
             task' = [task EXCEPT ![t] = Under([@ EXCEPT !.stalled = retried],
                                               recovery.identity)]
      PROVE  /\ RowsOK(job') /\ task' \in [Tasks -> TaskRows]
             /\ \A j \in Jobs : Recalls(j) \/ Leaves(j)
             /\ \A u \in Tasks : u # t => task'[u] = task[u]
  <2>1. job[latest].kind \in Kinds /\ job[latest].role \in Roles
    BY <1>1, <1>2, RecoveryRow DEF RowsOK, JobRows
  <2>2. RowsOK(Recalled)
    BY RecalledRows
  <2>3. RowsOK(job')
    BY <1>1, <1>4, <2>1, <2>2, EnqueueType
  <2>4. task' \in [Tasks -> TaskRows] /\ \A u \in Tasks : u # t => task'[u] = task[u]
    <3> DEFINE new == Under([task[t] EXCEPT !.stalled = retried], recovery.identity)
    <3>1. new \in TaskRows
      BY <1>1, <1>2 DEF TaskRows, Under
    <3>2. task' = [task EXCEPT ![t] = new]
      BY <1>4
    <3> HIDE DEF new
    <3> QED
      BY <1>1, <1>2, <3>1, <3>2
  <2>5. job' = [Recalled EXCEPT ![n] = NewJob(t, job[latest].kind, job[latest].role,
                                             recovery.identity, FALSE)]
        /\ job[n].status = "absent"
    BY <1>4 DEF Enqueue, IsNext
  <2>6. n \notin recovery.read
    BY <2>5, RecoveryRow
  <2>7. job'[n].status = "queued" /\ \A j \in Jobs : j # n => job'[j] = Recalled[j]
    BY <2>2, <2>5 DEF RowsOK, NewJob
  <2>8. ASSUME NEW j \in Jobs PROVE Recalls(j) \/ Leaves(j)
    <3>1. CASE j = n
      BY <2>5, <2>6, <2>7, <3>1 DEF Leaves, QueuesNew, Queues
    <3>2. CASE j # n
      BY <2>7, <3>2, RecalledRows DEF Recalls, Leaves
    <3> QED
      BY <3>1, <3>2
  <2> QED
    BY <2>3, <2>4, <2>8
<1> QED
  <2>1. CASE recovery.stalled
    BY <1>3, <2>1 DEF RecoverStalled
  <2>2. CASE ~recovery.stalled
    <3>1. PICK latest \in recovery.read, n \in Jobs :
            Enqueue(Recalled, n, t, job[latest].kind, job[latest].role, recovery.identity)
      BY <2>2 DEF RecoverStalled
    <3>2. PICK retried \in {FALSE, task[t].state = "Active"} :
            task' = [task EXCEPT ![t] = Under([@ EXCEPT !.stalled = retried],
                                              recovery.identity)]
      BY <2>2 DEF RecoverStalled
    <3>3. retried \in BOOLEAN
      OBVIOUS
    <3> QED
      BY <1>4, <3>1, <3>2, <3>3
  <2> QED
    BY <2>1, <2>2

LEMMA RecoverStalledStep ==
    ASSUME IInv, RecoverStalled
    PROVE  IInv'
<1>1. /\ RowsOK(job') /\ task' \in [Tasks -> TaskRows]
      /\ \A j \in Jobs : Recalls(j) \/ Leaves(j)
  BY RecoverHasEffect
<1>2. /\ leader' = leader /\ exec' = exec /\ deploying' = deploying
      /\ recovery' = NoRecovery
      /\ recovered' = recovered \cup {j \in Created : job[j].task = recovery.task}
      /\ repoLease' = ReleasedBy(recovery.read, leader)
      /\ recovery.read # {}
  BY DEF RecoverStalled
<1>3. TablesOK'
  <2>1. leader \in Nat /\ exec \subseteq Executions /\ deploying \in BOOLEAN
        /\ repoLease' \in [Repos -> Leases \cup {NoLease}]
    BY <1>2, ReleasedType DEF IInv, TablesOK
  <2> QED
    BY <1>1, <1>2, <2>1, TypeFromParts
<1>4. \A j \in Jobs : job[j].status # "absent" => job'[j].status # "absent"
  BY <1>1 DEF Recalls, Leaves, QueuesNew, Queues
<1>5. RecoveryOK' /\ ReadFences'
  <2>1. recovered' \subseteq Created'
    BY <1>2, <1>4, RecoveryRow DEF Created
  <2> QED
    BY <1>2, <2>1, NoRecoveryOK
<1>6. \A x \in exec : /\ x.job \in Jobs /\ job[x.job].status # "absent"
                      /\ x.fence \in Nat /\ x.fence <= job[x.job].fence
                      /\ x.job \in recovery.read => x.fence <= recovery.fence[x.job]
  BY Known DEF IInv, TokensSound, ReadFences, Executions
<1>7. TokenFences'
  <2>1. ASSUME NEW x \in exec PROVE x.job \in Created' /\ x.fence <= job'[x.job].fence
    <3>1. CASE Recalls(x.job)
      BY <1>4, <1>6, <3>1, RecoveryRow DEF Recalls, Created
    <3>2. CASE Leaves(x.job)
      BY <1>4, <1>6, <3>2 DEF Leaves, QueuesNew, Created
    <3> QED
      BY <1>1, <1>6, <3>1, <3>2
  <2> QED
    BY <1>2, <2>1 DEF IInv, TokensSound, TokenFences
<1>8. TokenReads'
  BY <1>1, <1>2, <1>6
     DEF IInv, TokensSound, TokenReads, Recalls, Leaves, QueuesNew, Readable
<1>9. OneArmed'
  BY <1>2 DEF IInv, TokensSound, OneArmed
<1>10. WriterHoldsLease'
  <2> SUFFICES ASSUME NEW j \in Jobs, job'[j].status = "running", Writes(j)',
                      job'[j].lease # Lapsed
               PROVE  /\ repoLease'[RepoOf[job'[j].task]].job = j
                      /\ repoLease'[RepoOf[job'[j].task]].owner = job'[j].owner
                      /\ repoLease'[RepoOf[job'[j].task]].expires >= job'[j].lease
    BY DEF WriterHoldsLease, RepoOfJob
  <2>1. j \notin recovery.read /\ job'[j] = job[j]
    BY <1>1 DEF Recalls, Leaves, QueuesNew, Queues
  <2> DEFINE r == RepoOf[job[j].task]
  <2>2. r \in Repos
    BY <2>1, SchedulerAssumption DEF IInv, TablesOK, Created
  <2>3. /\ repoLease[r].job = j /\ repoLease[r].owner = job[j].owner
        /\ repoLease[r].expires >= job[j].lease
    BY <2>1 DEF IInv, WriterHoldsLease, RepoOfJob, Writes, Class, VersionOfJob
  <2>4. repoLease'[r] = repoLease[r]
    BY <1>2, <2>1, <2>2, <2>3 DEF ReleasedBy
  <2> QED
    BY <2>1, <2>3, <2>4
<1>11. DeployQuiet'
  BY <1>1, <1>2 DEF IInv, DeployQuiet, Recalls, Leaves, QueuesNew, Queues
<1> QED
  BY <1>3, <1>5, <1>7, <1>8, <1>9, <1>10, <1>11 DEF IInv, TokensSound

(* Its reads touch no table.                                                *)
LEMMA RecoveryReads ==
    ASSUME IInv, \E t \in Tasks : ReadStalled(t)
    PROVE  IInv' /\ UNCHANGED <<leader, task, job, repoLease, exec, deploying, recovered>>
<1>1. UNCHANGED <<leader, task, job, repoLease, exec, deploying, recovered>>
  BY DEF ReadStalled
<1>2. Created' = Created
  BY <1>1 DEF Created
<1>3. RecoveryOK' /\ ReadFences'
  <2>1. PICK t \in Tasks : ReadStalled(t)
    OBVIOUS
  <2> DEFINE identity == task[t].identity
             stalled == task[t].stalled
             open == {j \in Jobs : job[j].task = t /\ Open(j)}
             fence == [j \in Jobs |-> IF j \in open THEN job[j].fence ELSE 0]
  <2>2. identity \in Nat /\ stalled \in BOOLEAN
    <3>1. task[t] \in TaskRows
      BY DEF IInv, TablesOK
    <3> QED
      BY <3>1 DEF TaskRows
  <2>3. recovery' = [task |-> t, identity |-> identity, stalled |-> stalled,
                     read |-> open, fence |-> fence]
    BY <2>1 DEF ReadStalled
  <2>4. fence \in [Jobs -> Nat]
    BY RowKnown DEF JobRows
  <2>5. open \subseteq Created /\ open \subseteq Jobs /\ \A j \in open : job[j].task = t
    BY DEF Open, Created
  <2>6. \A j \in open : fence[j] = job[j].fence
    OBVIOUS
  <2> HIDE DEF identity, stalled, open, fence
  <2>7. /\ recovery' \in Recoveries /\ recovery'.read = open
        /\ recovery'.fence = fence /\ recovery'.task = t
    BY <2>2, <2>3, <2>4, <2>5 DEF Recoveries
  <2>8. RecoveryOK'
    BY <1>1, <1>2, <2>5, <2>7, RecoveryRow DEF RecoveryOK
  <2>9. ReadFences'
    BY <1>1, <2>6, <2>7, Known DEF ReadFences
  <2> QED
    BY <2>8, <2>9
<1>4. TablesOK' /\ TokenFences' /\ TokenReads' /\ OneArmed' /\ WriterHoldsLease' /\ DeployQuiet'
  BY <1>1, <1>2 DEF IInv, TablesOK, TokensSound, TokenFences, TokenReads, OneArmed, Readable,
     WriterHoldsLease, Writes, Class, VersionOfJob, RepoOfJob, DeployQuiet
<1> QED
  BY <1>1, <1>3, <1>4 DEF IInv, TokensSound
-----------------------------------------------------------------------------
(* The theorems *)

LEMMA Start == ASSUME Init PROVE IInv
<1>1. /\ exec = {} /\ deploying = FALSE /\ leader = 1
      /\ \A j \in Jobs : job[j].status = "absent"
  BY DEF Init
<1>2. TablesOK
  <2>1. job \in [Jobs -> JobRows]
    <3>1. [status |-> "absent", task |-> NoTask, role |-> NoRole, kind |-> "review",
           identity |-> 0, fence |-> 0, attempt |-> 0, owner |-> 0, lease |-> Lapsed,
           reformatted |-> FALSE, heard |-> FALSE] \in JobRows
      BY DEF JobRows, Statuses, Kinds, Pins, Deadlines
    <3> QED
      BY <3>1 DEF Init
  <2>2. task \in [Tasks -> TaskRows]
    BY DEF Init, TaskRows, TaskStates
  <2>3. repoLease \in [Repos -> Leases \cup {NoLease}]
    BY DEF Init
  <2>4. \A j \in Created : job[j].task \in Tasks /\ job[j].role \in Roles
    BY <1>1 DEF Created
  <2> QED
    BY <1>1, <2>1, <2>2, <2>3, <2>4 DEF TablesOK
<1>4. RecoveryOK /\ ReadFences
  <2>1. NoRecovery \in Recoveries /\ NoRecovery.read = {}
    BY DEF NoRecovery, Recoveries
  <2> QED
    BY <2>1 DEF Init, RecoveryOK, ReadFences
<1>3. TokensSound
  BY <1>1, <1>4 DEF TokensSound, TokenFences, TokenReads, OneArmed
<1> QED
  BY <1>1, <1>2, <1>3, <1>4 DEF IInv, WriterHoldsLease, DeployQuiet

LEMMA Step == ASSUME IInv, [Next]_vars PROVE IInv'
<1>0. TablesOK /\ TokenFences
  BY DEF IInv, TokensSound
<1>1. CASE Claim
  BY <1>0, <1>1, ClaimType, ClaimKeeps, ClaimStep
<1>2. ASSUME NEW x \in exec, Execution(x), Unrecovered PROVE IInv'
  <2>1. TablesOK' /\ UNCHANGED deploying
    BY <1>0, <1>2, ExecutionType, ExecutionFrame
  <2>2. Reads(x) \/ Renews(x) \/ Ends(x)
    BY <1>0, <1>2, ExecutionHasEffect
  <2>3. RecoveryOK' /\ ReadFences'
    BY <1>2, ExecutionKeeps, RecoveryKept
  <2> QED
    BY <2>1, <2>2, <2>3, ReadsStep, RenewsStep, EndsStep
<1>3. ASSUME NEW t \in Tasks, Command(t), Unrecovered PROVE IInv'
  <2>1. RecoveryOK' /\ ReadFences'
    BY <1>3, CommandKeeps, RecoveryKept
  <2> QED
    BY <1>0, <1>3, <2>1, CommandType, CommandHasEffect, CommandStep
<1>4. CASE Tick
  <2>1. RecoveryOK' /\ ReadFences'
    BY <1>4, EnvironmentKeeps, RecoveryKept
  <2> QED
    BY <1>0, <1>4, <2>1, EnvironmentType, TickStep
<1>5. CASE Failover \/ DeployClaim \/ DeployComplete
  <2>1. RecoveryOK' /\ ReadFences'
    <3>1. CASE Failover
      <4>1. recovered' \subseteq Created'
        BY <3>1, RecoveryRow DEF Failover, Created
      <4> QED
        BY <3>1, <4>1, NoRecoveryOK DEF Failover
    <3>2. CASE DeployClaim \/ DeployComplete
      BY <3>2, EnvironmentKeeps, RecoveryKept
    <3> QED
      BY <1>5, <3>1, <3>2
  <2> QED
    BY <1>0, <1>5, <2>1, EnvironmentType, ProcessStep
<1>6. CASE StallRecovery
  BY <1>6, RecoverStalledStep, RecoveryReads DEF StallRecovery
<1>7. CASE UNCHANGED vars
  BY <1>7 DEF vars, IInv, TablesOK, RecoveryOK, TokensSound, TokenFences, ReadFences, TokenReads,
       OneArmed, Created, Readable, WriterHoldsLease, Writes, Class, VersionOfJob, RepoOfJob,
       DeployQuiet
<1> QED
  BY <1>1, <1>2, <1>3, <1>4, <1>5, <1>6, <1>7 DEF Next

(* The inductive invariant holds in every reachable state.                  *)
THEOREM Inductive == Spec => []IInv
  BY Start, Step, PTL DEF Spec

(* Every reachable state is well-typed: no action of the scheduler, in any
   interleaving, writes a row the schema does not allow.                    *)
THEOREM TypeCorrect == Spec => []TypeOK
<1>1. IInv => TypeOK
  BY DEF IInv, TypeOK
<1> QED
  BY <1>1, Inductive, PTL

(* Engine.claim and heartbeat: a live writer always holds the lease of its
   repository, and holds it at least as long as its own.                    *)
THEOREM WritersHoldLeases == Spec => []WriterHoldsLease
<1>1. IInv => WriterHoldsLease
  BY DEF IInv
<1> QED
  BY <1>1, Inductive, PTL

(* Hence no two live writers of workflow v2 ever share a repository.        *)
ExclusiveWriters ==
    \A j, k \in Jobs :
        /\ job[j].status = "running" /\ Writes(j) /\ job[j].lease # Lapsed
        /\ job[k].status = "running" /\ Writes(k) /\ job[k].lease # Lapsed
        /\ RepoOfJob(j) = RepoOfJob(k)
        => j = k

THEOREM WritersExclude == Spec => []ExclusiveWriters
<1>1. WriterHoldsLease => ExclusiveWriters
  BY DEF WriterHoldsLease, ExclusiveWriters
<1> QED
  BY <1>1, WritersHoldLeases, PTL

(* Engine.current: however executions, failovers and stale reads interleave,
   at most one execution of a job can pass its guard.                       *)
THEOREM ExecutionsFenced == Spec => []OneValidExecution
<1>1. IInv => OneValidExecution
  BY DEF IInv, TokensSound, OneArmed, OneValidExecution, Passes
<1> QED
  BY <1>1, Inductive, PTL

(* deployments.bridge and claim exclude each other: no job runs while a
   release operation does.                                                  *)
THEOREM DeploymentsAreQuiet == Spec => []DeployQuiet
<1>1. IInv => DeployQuiet
  BY DEF IInv
<1> QED
  BY <1>1, Inductive, PTL

-----------------------------------------------------------------------------
(* What a step but a claim does to a row.                                   *)

(* It leaves a row as it is, ends or cancels or queues its job,
   renews its lease or its pin, or lets time pass: none makes it run.       *)
LEMMA RowStep ==
    ASSUME IInv, [Next]_vars, ~Claim, NEW j \in Jobs
    PROVE  /\ job'[j].status = "running" =>
                /\ job[j].status = "running" /\ job'[j].task = job[j].task
                /\ job'[j].role = job[j].role /\ job'[j].kind = job[j].kind
           /\ job'[j].status = "absent" =>
                job[j].status = "absent" /\ job'[j].task = job[j].task
<1>1. ASSUME NEW x \in exec, Execution(x)
      PROVE  \/ job'[j] = job[j] \/ Queues(j)
             \/ job'[j].status \in {"done", "queued", "failed"}
             \/ /\ job'[j].status = job[j].status /\ job'[j].task = job[j].task
                /\ job'[j].role = job[j].role /\ job'[j].kind = job[j].kind
  <2>1. Reads(x) \/ Renews(x) \/ Ends(x)
    BY <1>1, RowKnown, ExecutionHasEffect
  <2> QED
    BY <2>1 DEF Reads, Renews, Ends, QueuesNew
<1>2. ASSUME NEW t \in Tasks, Command(t)
      PROVE  job'[j] = job[j] \/ Invalidates(j) \/ Queues(j)
  BY <1>2, RowKnown, CommandHasEffect DEF CommandEffect
<1>3. CASE Tick
  <2>1. job[j] \in JobRows /\ job'[j] = [job[j] EXCEPT !.lease = Elapse(job[j].lease)]
    BY <1>3, RowKnown DEF Tick
  <2> QED
    BY <2>1 DEF JobRows
<1>4. CASE Failover \/ DeployClaim \/ DeployComplete \/ UNCHANGED vars
  BY <1>4 DEF Failover, DeployClaim, DeployComplete, vars
<1>5. CASE StallRecovery
  <2>1. job' = job \/ Recalls(j) \/ Leaves(j)
    BY <1>5, RecoveryReads, RecoverHasEffect DEF StallRecovery
  <2> QED
    BY <2>1 DEF Recalls, Leaves, QueuesNew, Queues
<1> QED
  BY <1>1, <1>2, <1>3, <1>4, <1>5 DEF Next, Queues, Invalidates

-----------------------------------------------------------------------------
(* The concurrency limits.  They are inductive beside the types: claim      *)
(* alone starts jobs, and it counts before it does.                         *)

Normals == {j \in V2Running : ClassOf[job[j].role] # "privileged"}
Privileged == {j \in V2Running : Class(j) = "privileged"}

LEMMA JobsFinite ==
    ASSUME NEW S, S \subseteq Jobs
    PROVE  IsFiniteSet(S) /\ Cardinality(S) \in Nat
<1>1. IsFiniteSet(Jobs)
  BY SchedulerAssumption, FS_Interval DEF Jobs
<1> QED
  BY <1>1, FS_Subset, FS_CardinalityType

(* A set of jobs that lost some and gained at most one.                     *)
LEMMA GainsOne ==
    ASSUME NEW S, S \subseteq Jobs, NEW T, NEW j \in Jobs, T \subseteq S \cup {j}
    PROVE  Cardinality(T) <= Cardinality(S) + 1
<1>1. IsFiniteSet(S) /\ Cardinality(S) \in Nat
  BY JobsFinite
<1>2. /\ IsFiniteSet(S \cup {j})
      /\ Cardinality(S \cup {j}) = Cardinality(S) \/ Cardinality(S \cup {j}) = Cardinality(S) + 1
  BY <1>1, FS_AddElement
<1>3. Cardinality(T) <= Cardinality(S \cup {j}) /\ Cardinality(T) \in Nat
  BY <1>2, FS_Subset, FS_CardinalityType
<1> QED
  BY <1>1, <1>2, <1>3

LEMMA LosesSome ==
    ASSUME NEW S, S \subseteq Jobs, NEW T, T \subseteq S
    PROVE  Cardinality(T) <= Cardinality(S)
BY JobsFinite, FS_Subset

LEMMA LimitsStep ==
    ASSUME IInv, WithinConcurrency, [Next]_vars
    PROVE  WithinConcurrency'
<1>1. Cardinality(Normals) <= NormalConcurrency /\ Cardinality(Privileged) <= PrivilegedConcurrency
  BY DEF WithinConcurrency, Normals, Privileged, V2Running
<1>2. Normals \subseteq Jobs /\ Privileged \subseteq Jobs
  BY DEF Normals, Privileged, V2Running
<1>3. /\ Cardinality(Normals) \in Nat /\ Cardinality(Privileged) \in Nat
      /\ Cardinality(Normals') \in Nat /\ Cardinality(Privileged') \in Nat
  BY JobsFinite DEF Normals, Privileged, V2Running
<1>4. NormalConcurrency \in Nat /\ PrivilegedConcurrency \in Nat
  BY SchedulerAssumption
<1>5. Cardinality(Normals') <= NormalConcurrency
      /\ Cardinality(Privileged') <= PrivilegedConcurrency
  <2>1. CASE ~Claim
    <3>1. Normals' \subseteq Normals /\ Privileged' \subseteq Privileged
      BY <2>1, RowStep DEF Normals, Privileged, V2Running, VersionOfJob, Class
    <3>2. /\ Cardinality(Normals') <= Cardinality(Normals)
          /\ Cardinality(Privileged') <= Cardinality(Privileged)
      BY <1>2, <3>1, LosesSome
    <3> QED
      BY <1>1, <1>3, <1>4, <3>2
  <2>2. CASE Claim
    <3>1. PICK start, spent, stale, capped : Pass(start, spent, stale, capped)
      BY <2>2, ClaimIsPass
    <3>2. \A j \in Jobs : j # start /\ job'[j].status = "running"
                          => job'[j] = job[j] /\ j \in Running
      BY <3>1, PassRow
    <3> DEFINE Ns == RunningClass(Classes \ {"privileged"})
               Ps == RunningClass({"privileged"})
    <3>3. Ns \subseteq Normals /\ Ps \subseteq Jobs
      BY DEF RunningClass, Running, Normals, V2Running
    <3>4. \A j \in Jobs : j # start /\ j \in Normals' => j \in Ns
      <4> SUFFICES ASSUME NEW j \in Jobs, j # start, j \in Normals' PROVE j \in Ns
        OBVIOUS
      <4>1. job'[j] = job[j] /\ j \in Running
        BY <3>2 DEF Normals, V2Running
      <4>2. VersionOfJob(j) = 2 /\ ClassOf[job[j].role] # "privileged"
        BY <4>1 DEF Normals, V2Running, VersionOfJob
      <4>3. job[j].role \in Roles
        BY <4>1, RowKnown DEF Running, TablesOK, Created
      <4> QED
        BY <4>1, <4>2, <4>3, SchedulerAssumption DEF RunningClass
    <3>5. \A j \in Jobs : j # start /\ j \in Privileged' => j \in Ps
      <4> SUFFICES ASSUME NEW j \in Jobs, j # start, j \in Privileged' PROVE j \in Ps
        OBVIOUS
      <4>1. job'[j] = job[j] /\ j \in Running
        BY <3>2 DEF Privileged, V2Running
      <4>2. VersionOfJob(j) = 2 /\ ClassOf[job[j].role] = "privileged"
        BY <4>1 DEF Privileged, V2Running, VersionOfJob, Class
      <4> QED
        BY <4>1, <4>2 DEF RunningClass
    <3>6. start \in Jobs /\ job'[start].status = "running"
          => \/ /\ Ready(start) /\ job'[start].task = job[start].task
                /\ job'[start].role = job[start].role /\ job'[start].kind = job[start].kind
             \/ job'[start] = job[start] /\ start \in Running
      BY <3>1, PassRow
    <3>7. Cardinality(Normals') <= NormalConcurrency
      <4>1. CASE start \in Normals' /\ ~(job'[start] = job[start] /\ start \in Running)
        <5>1. start \in Jobs /\ job'[start].status = "running"
          BY <4>1 DEF Normals, V2Running
        <5>2. Ready(start) /\ VersionOfJob(start) = 2 /\ Class(start) # "privileged"
          BY <3>6, <4>1, <5>1 DEF Normals, V2Running, VersionOfJob, Class
        <5>3. Cardinality(Ns) < NormalConcurrency
          BY <5>2 DEF Ready, Admitted, AdmittedV2
        <5>4. Normals' \subseteq Ns \cup {start}
          BY <1>2, <3>4 DEF Normals, V2Running
        <5>5. Ns \subseteq Jobs
          BY <3>3, <1>2
        <5> HIDE DEF Ns
        <5>6. Cardinality(Normals') <= Cardinality(Ns) + 1 /\ Cardinality(Ns) \in Nat
          BY <5>1, <5>4, <5>5, GainsOne, JobsFinite
        <5> QED
          BY <1>3, <1>4, <5>3, <5>6
      <4>2. CASE ~(start \in Normals' /\ ~(job'[start] = job[start] /\ start \in Running))
        <5>1. Normals' \subseteq Normals
          <6>1. start \in Normals' => start \in Normals
            BY <4>2 DEF Normals, V2Running, VersionOfJob
          <6> QED
            BY <3>3, <3>4, <6>1 DEF Normals, V2Running
        <5>2. Cardinality(Normals') <= Cardinality(Normals)
          BY <1>2, <5>1, LosesSome
        <5> QED
          BY <1>1, <1>3, <1>4, <5>2
      <4> QED
        BY <4>1, <4>2
    <3>8. Cardinality(Privileged') <= PrivilegedConcurrency
      <4>1. CASE start \in Privileged' /\ ~(job'[start] = job[start] /\ start \in Running)
        <5>1. start \in Jobs /\ job'[start].status = "running"
          BY <4>1 DEF Privileged, V2Running
        <5>2. Ready(start) /\ VersionOfJob(start) = 2 /\ Class(start) = "privileged"
          BY <3>6, <4>1, <5>1 DEF Privileged, V2Running, VersionOfJob, Class
        <5>3. Cardinality(Ps) < PrivilegedConcurrency
          BY <5>2 DEF Ready, Admitted, AdmittedV2
        <5>4. Privileged' \subseteq Ps \cup {start}
          BY <3>5 DEF Privileged, V2Running
        <5> HIDE DEF Ps
        <5>5. Cardinality(Privileged') <= Cardinality(Ps) + 1 /\ Cardinality(Ps) \in Nat
          BY <3>3, <5>1, <5>4, GainsOne, JobsFinite
        <5> QED
          BY <1>3, <1>4, <5>3, <5>5
      <4>2. CASE ~(start \in Privileged' /\ ~(job'[start] = job[start] /\ start \in Running))
        <5>1. \A j \in Privileged' : job'[j] = job[j] /\ j \in Jobs
          BY <3>2, <4>2 DEF Privileged, V2Running
        <5>2. Privileged' \subseteq Privileged
          BY <5>1 DEF Privileged, V2Running, VersionOfJob, Class
        <5>3. Cardinality(Privileged') <= Cardinality(Privileged)
          BY <1>2, <5>2, LosesSome
        <5> QED
          BY <1>1, <1>3, <1>4, <5>3
      <4> QED
        BY <4>1, <4>2
    <3> QED
      BY <3>7, <3>8
  <2> QED
    BY <2>1, <2>2
<1> QED
  BY <1>5 DEF WithinConcurrency, Normals, Privileged, V2Running

(* Engine.claim keeps the configured limits for any number of jobs, roles and
   classes, whatever lapses, is retried or falls back to another role.      *)
THEOREM LimitsKept == Spec => []WithinConcurrency
<1>1. Init => WithinConcurrency
  <2> SUFFICES ASSUME Init PROVE WithinConcurrency
    OBVIOUS
  <2>1. Normals = {} /\ Privileged = {}
    BY DEF Init, Normals, Privileged, V2Running
  <2>2. Cardinality({}) = 0
    BY FS_EmptySet
  <2>3. Cardinality(Normals) <= NormalConcurrency /\ Cardinality(Privileged) <= PrivilegedConcurrency
    BY <2>1, <2>2, SchedulerAssumption
  <2> QED
    BY <2>3 DEF WithinConcurrency, Normals, Privileged, V2Running
<1>2. IInv /\ WithinConcurrency /\ [Next]_vars => WithinConcurrency'
  BY LimitsStep
<1> QED
  BY <1>1, <1>2, Inductive, PTL DEF Spec

-----------------------------------------------------------------------------
(* What belongs to which task: a row that holds no job belongs to none.     *)

Vacant == \A j \in Jobs : job[j].status = "absent" => job[j].task = NoTask

LEMMA VacantStep == ASSUME IInv, Vacant, [Next]_vars PROVE Vacant'
<1> SUFFICES ASSUME NEW j \in Jobs, job'[j].status = "absent"
             PROVE  job'[j].task = NoTask
  BY DEF Vacant
<1>1. CASE Claim
  <2>1. PICK start, spent, stale, capped : Pass(start, spent, stale, capped)
    BY <1>1, ClaimIsPass
  <2>2. job[j].status = "absent" /\ job'[j].task = job[j].task
    BY <2>1, PassRow
  <2> QED
    BY <2>2 DEF Vacant
<1>2. CASE ~Claim
  BY <1>2, RowStep DEF Vacant
<1> QED
  BY <1>1, <1>2

LEMMA VacantAlways == Spec => []Vacant
<1>1. Init => Vacant
  BY DEF Init, Vacant
<1>2. IInv /\ Vacant /\ [Next]_vars => Vacant'
  BY VacantStep
<1> QED
  BY <1>1, <1>2, Inductive, PTL DEF Spec

(* A command leaves the jobs of other tasks, and the other tasks, alone.    *)
LEMMA CommandOwn ==
    ASSUME TablesOK, NEW t \in Tasks, Command(t),
           NEW j \in Jobs, job[j].status # "absent", job[j].task # t
    PROVE  job'[j] = job[j]
<1>1. Invalidated(t)[j] = job[j]
  BY InvalidatedEffect
<1>2. ASSUME NEW n \in Jobs, NEW kind, NEW role, NEW identity,
             \/ Enqueue(job, n, t, kind, role, identity)
             \/ Enqueue(Invalidated(t), n, t, kind, role, identity)
      PROVE  job'[j] = job[j]
  BY <1>1, <1>2, EnqueueOwn
<1>3. CASE Submit(t) \/ Register(t) \/ Revise(t) \/ AnswerImplementation(t) \/ Reidentify(t)
  BY <1>2, <1>3 DEF Submit, Register, Revise, AnswerImplementation, Reidentify
<1>4. CASE Pause(t) \/ Cancel(t)
  BY <1>1, <1>4 DEF Pause, Cancel
<1>5. CASE Resume(t) \/ RetryAnew(t)
  BY <1>2, <1>5 DEF Resume, RetryAnew, Restarted
<1>6. CASE RetryFailed(t)
  <2>1. job \in [Jobs -> JobRows]
    BY DEF TablesOK
  <2> QED
    BY <1>6, <2>1 DEF RetryFailed, IsLatest
<1>7. CASE RetryProposal(t)
  <2>1. job \in [Jobs -> JobRows]
    BY DEF TablesOK
  <2> QED
    BY <1>7, <2>1 DEF RetryProposal
<1> QED
  BY <1>3, <1>4, <1>5, <1>6, <1>7 DEF Command

LEMMA CommandFrame ==
    ASSUME TablesOK, NEW t \in Tasks, Command(t), NEW u \in Tasks, u # t
    PROVE  task'[u] = task[u]
<1>1. task \in [Tasks -> TaskRows]
  BY DEF TablesOK
<1> QED
  BY <1>1 DEF Command, Submit, Register, Revise, AnswerImplementation, Reidentify, Pause,
              Cancel, Resume, RetryAnew, Restarted, RetryFailed, RetryProposal

-----------------------------------------------------------------------------
(* Stopped tasks                                                            *)

(* Only a command, or a recovery that had read it before the stop, moves a
   stopped task: no execution and no claim does.                            *)
LEMMA StoppedFrame ==
    ASSUME IInv, [Next]_vars, NEW t \in Tasks, task[t].state \in STOPPED
    PROVE  task'[t] = task[t] \/ Command(t) \/ (RecoverStalled /\ recovery.task = t)
<1>1. task \in [Tasks -> TaskRows]
  BY DEF IInv, TablesOK
<1>2. CASE Claim
  <2>1. PICK start, spent, stale, capped : Pass(start, spent, stale, capped)
    BY <1>2, ClaimIsPass
  <2>2. \A j \in spent : job[j].task # t
    BY <2>1 DEF Pass, Ready
  <2>3. start # NoJob => job[start].task # t
    BY <2>1 DEF Pass, Ready
  <2> QED
    BY <2>1, <2>2, <2>3 DEF Pass, Serve
<1>3. ASSUME NEW x \in exec, Execution(x) PROVE task'[t] = task[t]
  <2>1. CASE Passes(x)
    <3>1. job[x.job].task # t
      BY <2>1 DEF Passes
    <3> QED
      BY <1>1, <1>3, <3>1
         DEF Execution, ReadJob, Heartbeat, External, Record, Finish, Refused, FailReformat,
             FailRetry, FailFallback, FailBlock
  <2>2. CASE ~Passes(x)
    BY <1>3, <2>2
       DEF Execution, ReadJob, Heartbeat, External, Record, Finish, Refused, FailReformat,
           FailRetry, FailFallback, FailBlock, Fail
  <2> QED
    BY <2>1, <2>2
<1>4. ASSUME NEW u \in Tasks, Command(u), u # t PROVE task'[t] = task[t]
  BY <1>4, RowKnown, CommandFrame
<1>5. CASE Tick \/ Failover \/ DeployClaim \/ DeployComplete \/ UNCHANGED vars
  BY <1>5 DEF Tick, Failover, DeployClaim, DeployComplete, vars
<1>6. CASE StallRecovery
  BY <1>6, RecoveryReads, RecoverHasEffect DEF StallRecovery
<1> QED
  BY <1>2, <1>3, <1>4, <1>5, <1>6 DEF Next

(* Of the commands on a stopped task only a consultation and another pause
   leave it in its state.                                                   *)
LEMMA StillStopped ==
    ASSUME TablesOK, NEW t \in Tasks, Command(t),
           task[t].state \in STOPPED, task'[t].state = task[t].state
    PROVE  Submit(t) \/ Pause(t)
<1>1. task \in [Tasks -> TaskRows] /\ task[t] \in TaskRows
  BY DEF TablesOK
<1>2. \A state \in TaskStates, identity \in Nat :
         /\ Transition(task[t], state).state = state
         /\ Under(Transition(task[t], state), identity).state = state
  BY <1>1 DEF Transition, Under, TaskRows
<1>3. "Active" \in TaskStates /\ "Cancelled" \in TaskStates /\ "Active" \notin STOPPED
  BY DEF TaskStates, STOPPED
<1>4. task[t].identity \in Nat /\ task[t].identity + 1 \in Nat
  BY <1>1 DEF TaskRows
<1>5. CASE task' = [task EXCEPT ![t] = Transition(@, "Active")]
  BY <1>1, <1>2, <1>3, <1>5
<1>6. ASSUME NEW identity \in Nat,
             task' = [task EXCEPT ![t] = Under(Transition(@, "Active"), identity)]
      PROVE  FALSE
  BY <1>1, <1>2, <1>3, <1>6
<1>7. ~Register(t)
  BY <1>3 DEF Register
<1>8. ~Revise(t) /\ ~Reidentify(t)
  BY <1>4, <1>6 DEF Revise, Reidentify
<1>9. ~Cancel(t)
  BY <1>1, <1>2, <1>3 DEF Cancel
<1> QED
  BY <1>3, <1>5, <1>7, <1>8, <1>9, <1>1, <1>2
     DEF Command, AnswerImplementation, Resume, RetryAnew, Restarted, RetryFailed, RetryProposal

LEMMA StoppedStep ==
    ASSUME IInv, Vacant, [Next]_vars, NEW t \in Tasks, task[t].state \in STOPPED,
           task'[t].state = task[t].state, ~WrittenOver(t)
    PROVE  /\ task'[t].identity = task[t].identity
           /\ \A j \in Jobs : job[j].task = t =>
                 \/ job'[j].status = job[j].status
                 \/ Expired(j) /\ job'[j].status = "queued"
                 \/ job'[j].status = "cancelled" /\ job'[j].fence > job[j].fence
<1>1. task \in [Tasks -> TaskRows] /\ task[t] \in TaskRows
  BY DEF IInv, TablesOK
<1>0. ~(RecoverStalled /\ recovery.task = t)
  BY DEF RecoverStalled, WrittenOver
<1>2. task'[t].identity = task[t].identity
  <2>1. CASE Command(t)
    <3>1. task' = task \/ task' = [task EXCEPT ![t] = Transition(@, "Paused")]
      BY <2>1, RowKnown, StillStopped DEF Submit, Pause
    <3>2. Transition(task[t], "Paused").identity = task[t].identity
      BY <1>1 DEF Transition, TaskRows
    <3> QED
      BY <1>1, <3>1, <3>2
  <2> QED
    BY <1>0, <2>1, StoppedFrame
<1>3. ASSUME NEW j \in Jobs, job[j].task = t
      PROVE  \/ job'[j].status = job[j].status
             \/ Expired(j) /\ job'[j].status = "queued"
             \/ job'[j].status = "cancelled" /\ job'[j].fence > job[j].fence
  <2>1. job[j] \in JobRows /\ job[j].status # "absent" /\ job[j].fence \in Nat
    BY <1>3, RowKnown, SchedulerAssumption DEF Vacant, JobRows
  <2>2. CASE Claim
    <3>1. PICK start, spent, stale, capped : Pass(start, spent, stale, capped)
      BY <2>2, ClaimIsPass
    <3> QED
      BY <1>3, <3>1, PassRow
  <2>3. ASSUME NEW x \in exec, Execution(x) PROVE job'[j].status = job[j].status
    <3>1. Reads(x) \/ Renews(x) \/ Ends(x)
      BY <2>3, RowKnown, ExecutionHasEffect
    <3>2. x.job = j => ~Passes(x)
      BY <1>3 DEF Passes
    <3> QED
      BY <2>1, <3>1, <3>2 DEF Reads, Renews, Ends, QueuesNew
  <2>4. CASE Command(t)
    <3>1. CASE Submit(t)
      <4>1. job'[j] = job[j]
        BY <2>1, <3>1, RowKnown, EnqueueOwn DEF Submit
      <4> QED
        BY <4>1
    <3>2. CASE Pause(t)
      BY <2>1, <3>2, RowKnown, InvalidatedEffect DEF Pause
    <3> QED
      BY <2>4, <3>1, <3>2, RowKnown, StillStopped
  <2>5. ASSUME NEW u \in Tasks, Command(u), u # t PROVE job'[j] = job[j]
    BY <1>3, <2>1, <2>5, RowKnown, CommandOwn
  <2>6. CASE Tick
    <3>1. job'[j] = [job[j] EXCEPT !.lease = Elapse(job[j].lease)]
      BY <2>6 DEF Tick
    <3> QED
      BY <2>1, <3>1 DEF JobRows
  <2>7. CASE Failover \/ DeployClaim \/ DeployComplete \/ UNCHANGED vars
    BY <2>7 DEF Failover, DeployClaim, DeployComplete, vars
  <2>8. CASE StallRecovery
    <3>1. CASE RecoverStalled
      <4>1. j \notin recovery.read
        BY <1>0, <1>3, <3>1, RecoveryRow
      <4> QED
        BY <2>1, <3>1, <4>1, RecoverHasEffect DEF Recalls, Leaves, QueuesNew
    <3> QED
      BY <2>8, <3>1, RecoveryReads DEF StallRecovery
  <2> QED
    BY <2>2, <2>3, <2>4, <2>5, <2>6, <2>7, <2>8 DEF Next
<1> QED
  BY <1>2, <1>3

(* A stopped task keeps its revision and its jobs until a command moves it,
   whatever its executions read before the stop, but for the write of a stall
   recovery that had read the task earlier.                                 *)
THEOREM StopsHold == Spec => StoppedKeepsJobs
<1>1. IInv /\ Vacant /\ [Next]_vars =>
        \A t \in Tasks :
         task[t].state \in STOPPED /\ task'[t].state = task[t].state /\ ~WrittenOver(t) =>
            /\ task'[t].identity = task[t].identity
            /\ \A j \in Jobs : job[j].task = t =>
                  \/ job'[j].status = job[j].status
                  \/ Expired(j) /\ job'[j].status = "queued"
                  \/ job'[j].status = "cancelled" /\ job'[j].fence > job[j].fence
  BY StoppedStep
<1> QED
  BY <1>1, Inductive, VacantAlways, PTL DEF StoppedKeepsJobs, Spec

-----------------------------------------------------------------------------
(* Two writers.  What WriterHoldsLease says of a running job, Armed says of  *)
(* a read: even when its job has been invalidated since, the lease of the    *)
(* repository stays for as long as the read lets the execution pass.  Only   *)
(* a cancellation deletes it earlier, and nothing passes after that, and a   *)
(* stall recovery, whose tasks are set apart.                                *)

HoldsLease(x) ==
    /\ repoLease[RepoOfJob(x.job)].job = x.job
    /\ repoLease[RepoOfJob(x.job)].owner = x.owner
    /\ repoLease[RepoOfJob(x.job)].expires >= x.seen
Armed ==
    \A x \in exec :
        x.seen > 0 /\ Writes(x.job) /\ x.job \notin recovered
                   /\ task[job[x.job].task].state # "Cancelled" => HoldsLease(x)

LEMMA CancelledStays ==
    ASSUME IInv, [Next]_vars, NEW t \in Tasks, task[t].state = "Cancelled",
           ~(RecoverStalled /\ recovery.task = t)
    PROVE  task'[t].state = "Cancelled"
<1>1. task \in [Tasks -> TaskRows]
  BY DEF IInv, TablesOK
<1>2. CASE Command(t)
  <2>1. task' = task
    BY <1>2 DEF Command, Submit, Register, Revise, AnswerImplementation, Reidentify, Pause,
                Cancel, Resume, RetryAnew, RetryFailed, RetryProposal
  <2> QED
    BY <2>1
<1> QED
  BY <1>2, StoppedFrame DEF STOPPED

(* What an armed token says of its job.                                     *)
LEMMA ArmedRow ==
    ASSUME IInv, NEW x \in exec, x.seen > 0
    PROVE  /\ x.job \in Jobs /\ x.seen \in Nat /\ job[x.job] \in JobRows
           /\ \/ /\ Readable(x) /\ job[x.job].lease \in Nat /\ job[x.job].lease >= x.seen
                 /\ ~Expired(x.job)
              \/ job[x.job].status = "cancelled"
           /\ x.job \notin Waiting /\ job[x.job].status \notin {"absent", "failed", "done"}
           /\ job[x.job].task \in Tasks /\ RepoOfJob(x.job) \in Repos
<1>1. /\ x.job \in Jobs /\ x.seen \in Nat /\ job[x.job] \in JobRows
      /\ job[x.job].status # "absent" /\ job[x.job].lease \in Deadlines
  BY RowKnown DEF Executions, Deadlines, Lapsed, Unread, JobRows
<1>2. \/ Readable(x) /\ job[x.job].lease >= x.seen
      \/ job[x.job].status = "cancelled"
  BY DEF IInv, TokensSound, TokenReads
<1>3. \/ /\ Readable(x) /\ job[x.job].lease \in Nat /\ job[x.job].lease >= x.seen
         /\ job[x.job].lease # Lapsed
      \/ job[x.job].status = "cancelled"
  BY <1>1, <1>2 DEF Deadlines, Lapsed
<1>4. job[x.job].status \in {"running", "cancelled"}
  BY <1>2 DEF Readable
<1>5. job[x.job].task \in Tasks /\ RepoOfJob(x.job) \in Repos
  BY <1>1, SchedulerAssumption DEF IInv, TablesOK, Created, RepoOfJob
<1> QED
  BY <1>1, <1>3, <1>4, <1>5 DEF Waiting, Expired

LEMMA SameWriter ==
    ASSUME NEW j, job'[j].task = job[j].task, job'[j].role = job[j].role,
           job'[j].kind = job[j].kind
    PROVE  Writes(j)' = Writes(j) /\ RepoOfJob(j)' = RepoOfJob(j)
BY DEF Writes, Class, VersionOfJob, RepoOfJob

(* A writer that a claim starts or gives up found the lease free: it is not
   the lease of an armed token.                                             *)
LEMMA ArmedLeaseTaken ==
    ASSUME IInv, NEW x \in exec, x.seen > 0, HoldsLease(x),
           NEW j \in Waiting, Ready(j), Writes(j)
    PROVE  RepoOfJob(j) # RepoOfJob(x.job)
<1>1. LeaseFree(j)
  BY DEF Ready, Admitted, AdmittedV2, Writes
<1>2. x.job \in Jobs /\ x.job \notin Waiting /\ x.seen \in Nat
  BY ArmedRow
<1> DEFINE lease == repoLease[RepoOfJob(x.job)]
<1>3. lease.job = x.job /\ lease.expires >= x.seen
  BY DEF HoldsLease
<1>4. lease.job # NoJob /\ lease.expires # Lapsed /\ lease.job # j
  BY <1>2, <1>3 DEF Jobs, NoJob, Lapsed
<1> QED
  BY <1>1, <1>4 DEF LeaseFree

LEMMA ArmedStep == ASSUME IInv, Armed, [Next]_vars PROVE Armed'
<1> SUFFICES ASSUME NEW z \in exec', z.seen > 0, Writes(z.job)', z.job \notin recovered',
                    task'[job'[z.job].task].state # "Cancelled"
             PROVE  HoldsLease(z)'
  BY DEF Armed
<1>1. ASSUME z \in exec, job'[z.job].task = job[z.job].task, job'[z.job].role = job[z.job].role,
             job'[z.job].kind = job[z.job].kind, z.job \notin recovered,
             ~(RecoverStalled /\ recovery.task = job[z.job].task)
      PROVE  HoldsLease(z) /\ RepoOfJob(z.job)' = RepoOfJob(z.job)
  <2>1. job[z.job].task \in Tasks
    BY <1>1, ArmedRow
  <2>2. task[job[z.job].task].state # "Cancelled"
    BY <1>1, <2>1, CancelledStays
  <2>3. Writes(z.job) /\ RepoOfJob(z.job)' = RepoOfJob(z.job)
    BY <1>1, SameWriter
  <2> QED
    BY <1>1, <2>2, <2>3 DEF Armed
<1>2. CASE Claim
  <2>1. PICK start, spent, stale, capped : Pass(start, spent, stale, capped)
    BY <1>2, ClaimIsPass
  <2>2. z \in exec
    <3> DEFINE token == [job |-> start, fence |-> Fenced(start).fence + 1, owner |-> leader,
                         seen |-> Unread]
    <3>1. exec' \subseteq exec \cup {token}
      BY <2>1 DEF Pass, Serve
    <3>2. ~(token.seen > 0)
      BY DEF Unread
    <3> HIDE DEF token
    <3> QED
      BY <3>1, <3>2
  <2>3. job'[z.job] = job[z.job]
    BY <2>1, <2>2, ArmedRow, PassRow
  <2>9. z.job \notin recovered /\ ~RecoverStalled
    <3>1. recovered' = recovered \ {start} \/ recovered' = recovered
      BY <2>1 DEF Pass
    <3>2. z.job # start
      BY <2>1, <2>2, ArmedRow DEF Pass, NoJob, Jobs
    <3>3. ~RecoverStalled
      BY <2>1 DEF Pass, RecoverStalled, NoRecovery
    <3> QED
      BY <3>1, <3>2, <3>3
  <2>4. HoldsLease(z) /\ RepoOfJob(z.job)' = RepoOfJob(z.job)
    BY <1>1, <2>2, <2>3, <2>9
  <2> DEFINE r == RepoOfJob(z.job)
  <2>5. r \in Repos
    BY <2>2, ArmedRow
  <2>6. ~(start # NoJob /\ Writes(start) /\ RepoOfJob(start) = r)
    BY <2>1, <2>2, <2>4, ArmedLeaseTaken DEF Pass
  <2>7. ~\E i \in spent : Writes(i) /\ RepoOfJob(i) = r
    BY <2>1, <2>2, <2>4, ArmedLeaseTaken DEF Pass
  <2>8. repoLease'[r] = repoLease[r]
    BY <2>1, <2>5, <2>6, <2>7 DEF Pass, Serve
  <2> QED
    BY <2>4, <2>8 DEF HoldsLease
<1>3. ASSUME NEW x \in exec, Execution(x), Unrecovered PROVE HoldsLease(z)'
  <2>0. z.job \notin recovered /\ ~RecoverStalled
    BY <1>3 DEF Unrecovered, RecoverStalled, NoRecovery
  <2>1. Reads(x) \/ Renews(x) \/ Ends(x)
    BY <1>3, RowKnown, ExecutionHasEffect
  <2>2. CASE Reads(x)
    <3>1. job' = job /\ repoLease' = repoLease /\ x \in Executions
      BY <2>2, RowKnown DEF Reads
    <3>2. CASE z \in exec
      BY <1>1, <2>0, <3>1, <3>2 DEF HoldsLease
    <3>3. CASE z \notin exec
      <4>1. Readable(x) /\ z = [x EXCEPT !.seen = job[x.job].lease]
        <5>1. CASE z = [x EXCEPT !.seen = Unread]
          BY <3>1, <5>1, Reread DEF Unread
        <5> QED
          BY <2>2, <3>3, <5>1 DEF Reads, Replace
      <4>2. z.job = x.job /\ z.owner = x.owner /\ z.seen = job[x.job].lease
        BY <3>1, <4>1, Reread
      <4>3. x.job \in Jobs /\ job[x.job].status = "running" /\ job[x.job].owner = x.owner
        BY <4>1, RowKnown DEF Readable
      <4>4. Writes(x.job) /\ job[x.job].lease # Lapsed
        BY <3>1, <4>2 DEF Writes, Class, VersionOfJob, Lapsed
      <4> QED
        BY <3>1, <4>2, <4>3, <4>4 DEF IInv, WriterHoldsLease, HoldsLease, RepoOfJob
    <3> QED
      BY <3>2, <3>3
  <2>3. CASE Renews(x)
    <3>1. x.seen > 0 /\ x \in Executions
      BY <2>3, RowKnown DEF Renews, Passes
    <3>2. z \in exec /\ z # x
      <4> DEFINE y == [x EXCEPT !.seen = Unread]
      <4>1. exec' = (exec \ {x}) \cup {y}
        BY <2>3 DEF Renews, Replace
      <4>2. ~(y.seen > 0)
        BY <3>1, Reread DEF Unread
      <4> HIDE DEF y
      <4> QED
        BY <4>1, <4>2
    <3>3. z.job # x.job /\ z.job \in Jobs
      BY <3>1, <3>2, Known
    <3>4. job'[z.job] = job[z.job]
      BY <2>3, <3>3 DEF Renews
    <3>5. HoldsLease(z) /\ RepoOfJob(z.job)' = RepoOfJob(z.job)
      BY <1>1, <2>0, <3>2, <3>4
    <3>6. repoLease'[RepoOfJob(z.job)] = repoLease[RepoOfJob(z.job)]
      <4>1. RepoOfJob(z.job) \in Repos
        BY <3>2, ArmedRow
      <4> QED
        BY <2>3, <3>3, <3>5, <4>1 DEF Renews, HoldsLease
    <3> QED
      BY <3>5, <3>6 DEF HoldsLease
  <2>4. CASE Ends(x)
    <3>1. x.seen > 0 /\ z \in exec /\ z # x
      BY <2>4 DEF Ends, Passes
    <3>2. z.job # x.job /\ z.job \in Jobs /\ job[z.job].status # "absent"
      BY <3>1, Known
    <3>3. job'[z.job] = job[z.job]
      BY <2>4, <3>2 DEF Ends, QueuesNew
    <3>4. HoldsLease(z) /\ RepoOfJob(z.job)' = RepoOfJob(z.job)
      BY <1>1, <2>0, <3>1, <3>3
    <3>5. repoLease'[RepoOfJob(z.job)] = repoLease[RepoOfJob(z.job)]
      <4>1. RepoOfJob(z.job) \in Repos
        BY <3>1, ArmedRow
      <4> QED
        BY <2>4, <3>2, <3>4, <4>1 DEF Ends, HoldsLease, ReleasedBy
    <3> QED
      BY <3>4, <3>5 DEF HoldsLease
  <2> QED
    BY <2>1, <2>2, <2>3, <2>4
<1>4. ASSUME NEW t \in Tasks, Command(t), Unrecovered PROVE HoldsLease(z)'
  <2>0. z.job \notin recovered /\ ~RecoverStalled
    BY <1>4 DEF Unrecovered, RecoverStalled, NoRecovery
  <2>1. z \in exec
    BY <1>4, RowKnown, CommandHasEffect DEF CommandEffect
  <2>2. z.job \in Jobs /\ job[z.job].status # "absent" /\ RepoOfJob(z.job) \in Repos
    BY <2>1, ArmedRow
  <2>3. /\ job'[z.job].task = job[z.job].task /\ job'[z.job].role = job[z.job].role
        /\ job'[z.job].kind = job[z.job].kind
    BY <1>4, <2>2, RowKnown, CommandRow
  <2>4. HoldsLease(z) /\ RepoOfJob(z.job)' = RepoOfJob(z.job)
    BY <1>1, <2>0, <2>1, <2>3
  <2>5. repoLease'[RepoOfJob(z.job)] = repoLease[RepoOfJob(z.job)]
    <3>1. CASE Cancel(t)
      <4>1. job[z.job].task # t
        <5> SUFFICES ASSUME job[z.job].task = t PROVE FALSE
          OBVIOUS
        <5>1. task[t] \in TaskRows /\ task \in [Tasks -> TaskRows]
          BY DEF IInv, TablesOK
        <5>2. task'[t].state = "Cancelled"
          BY <3>1, <5>1 DEF Cancel, Transition, TaskRows
        <5> QED
          BY <2>3, <5>2
      <4> QED
        BY <2>2, <2>4, <3>1, <4>1 DEF Cancel, Released, HoldsLease
    <3>2. CASE ~Cancel(t)
      BY <1>4, <3>2 DEF Command, Submit, Register, Revise, AnswerImplementation, Reidentify,
                        Pause, Resume, RetryAnew, RetryFailed, RetryProposal
    <3> QED
      BY <3>1, <3>2
  <2> QED
    BY <2>4, <2>5 DEF HoldsLease
<1>5. CASE Tick
  <2>1. PICK x \in exec : Aged(x, z)
    BY <1>5 DEF Tick, Aged
  <2>2. /\ z.job = x.job /\ z.owner = x.owner
        /\ x.seen \in Nat /\ z.seen = x.seen - 1 /\ x.seen > 0
    BY <2>1, AgedToken, Known
  <2>3. x.job \in Jobs /\ job[x.job] \in JobRows /\ RepoOfJob(x.job) \in Repos
    BY <2>2, ArmedRow
  <2>4. /\ job'[x.job].task = job[x.job].task /\ job'[x.job].role = job[x.job].role
        /\ job'[x.job].kind = job[x.job].kind
    BY <1>5, <2>3 DEF Tick, JobRows
  <2>5. Writes(x.job) /\ RepoOfJob(x.job)' = RepoOfJob(x.job)
    BY <2>2, <2>4, SameWriter
  <2>6. task[job[x.job].task].state # "Cancelled"
    BY <1>5, <2>2, <2>4 DEF Tick
  <2>7. HoldsLease(x)
    BY <1>5, <2>2, <2>5, <2>6 DEF Armed, Tick
  <2> DEFINE r == RepoOfJob(x.job)
  <2>8. repoLease[r] \in Leases
    BY <2>3, <2>7 DEF IInv, TablesOK, HoldsLease, NoLease, NoJob, Jobs
  <2>9. repoLease'[r] = [repoLease[r] EXCEPT !.expires = Elapse(repoLease[r].expires)]
    BY <1>5, <2>3 DEF Tick
  <2>10. /\ repoLease'[r].job = x.job /\ repoLease'[r].owner = x.owner
         /\ repoLease'[r].expires = Elapse(repoLease[r].expires)
         /\ repoLease[r].expires \in Deadlines /\ repoLease[r].expires >= x.seen
    BY <2>7, <2>8, <2>9 DEF Leases, HoldsLease
  <2>11. repoLease'[r].expires >= z.seen
    BY <2>2, <2>10 DEF Deadlines, Elapse, Lapsed
  <2> QED
    BY <2>2, <2>5, <2>10, <2>11 DEF HoldsLease
<1>6. CASE \/ Failover \/ DeployClaim \/ DeployComplete \/ UNCHANGED vars
           \/ \E t \in Tasks : ReadStalled(t)
  <2>1. /\ z \in exec /\ job' = job /\ repoLease' = repoLease
        /\ z.job \notin recovered
    BY <1>6, RecoveryReads DEF Failover, DeployClaim, DeployComplete, vars
  <2>2. task' = task /\ Writes(z.job)
    BY <1>6, <2>1, SameWriter, RecoveryReads DEF Failover, DeployClaim, DeployComplete, vars
  <2>3. HoldsLease(z)
    BY <2>1, <2>2 DEF Armed
  <2> QED
    BY <2>1, <2>3 DEF HoldsLease, RepoOfJob
<1>7. CASE RecoverStalled
  <2>1. /\ exec' = exec /\ repoLease' = ReleasedBy(recovery.read, leader)
        /\ recovered' = recovered \cup {j \in Created : job[j].task = recovery.task}
    BY <1>7 DEF RecoverStalled
  <2>2. /\ z.job \in Created /\ z.job \in Jobs /\ job[z.job].task \in Tasks
        /\ RepoOfJob(z.job) \in Repos
    BY <2>1, ArmedRow DEF Created
  <2>3. z.job \notin recovered /\ job[z.job].task # recovery.task
    BY <2>1, <2>2
  <2>4. z.job \notin recovery.read /\ job'[z.job] = job[z.job]
    <3>1. z.job \notin recovery.read
      BY <2>3, RecoveryRow
    <3> QED
      BY <1>7, <2>2, <3>1, RecoverHasEffect DEF Recalls, Leaves, QueuesNew, Created
  <2>5. HoldsLease(z) /\ RepoOfJob(z.job)' = RepoOfJob(z.job)
    BY <1>1, <2>1, <2>3, <2>4
  <2>6. repoLease'[RepoOfJob(z.job)] = repoLease[RepoOfJob(z.job)]
    BY <2>1, <2>2, <2>4, <2>5 DEF ReleasedBy, HoldsLease
  <2> QED
    BY <2>5, <2>6 DEF HoldsLease
<1> QED
  BY <1>2, <1>3, <1>4, <1>5, <1>6, <1>7 DEF Next, StallRecovery

LEMMA ArmedAlways == Spec => []Armed
<1>1. Init => Armed
  BY DEF Init, Armed
<1>2. IInv /\ Armed /\ [Next]_vars => Armed'
  BY ArmedStep
<1> QED
  BY <1>1, <1>2, Inductive, PTL DEF Spec

(* Engine.current and claim: of the executions of all writers of a repository,
   in all processes, at most one can pass its guard and publish, even while
   the lease of an earlier one has just been deleted or has changed hands;
   not so once the stall recovery has written over the task of one of them. *)
THEOREM OneWriterPasses == Spec => []OneValidWriter
<1>1. IInv /\ Armed => OneValidWriter
  <2> SUFFICES ASSUME IInv, Armed, NEW x \in exec, NEW y \in exec, Writes(x.job), Writes(y.job),
                      RepoOfJob(x.job) = RepoOfJob(y.job), Passes(x), Passes(y),
                      x.job \notin recovered, y.job \notin recovered
               PROVE  x = y
    BY DEF OneValidWriter, OneWriterOf
  <2>1. /\ x.seen > 0 /\ task[job[x.job].task].state # "Cancelled"
        /\ y.seen > 0 /\ task[job[y.job].task].state # "Cancelled"
    BY DEF Passes, STOPPED
  <2>2. HoldsLease(x) /\ HoldsLease(y)
    BY <2>1 DEF Armed
  <2> QED
    BY <2>1, <2>2, Known DEF HoldsLease
<1> QED
  BY <1>1, Inductive, ArmedAlways, PTL

(* Engine.current: what an execution has read is worth no more than the fence
   and the lease of its job allow, in any interleaving.                     *)
THEOREM TokensAreSound == Spec => []TokensSound
<1>1. IInv => TokensSound
  BY DEF IInv
<1> QED
  BY <1>1, Inductive, PTL
=============================================================================
