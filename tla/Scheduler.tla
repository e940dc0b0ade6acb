------------------------------ MODULE Scheduler ------------------------------
(***************************************************************************)
(* The job scheduler of the orchestrator: how Engine.claim hands queued    *)
(* jobs to executions, how heartbeats, results and failures come back      *)
(* through Engine.current, how leases lapse, and how the owner's commands, *)
(* the stall recovery and the Docker release gate interfere with all that. *)
(*                                                                         *)
(* Every action is one database transaction.  An execution takes two steps *)
(* per transaction, because Engine.current reads the job row before it     *)
(* waits for the lock of the task row: `seen' is what it read.  The stall  *)
(* recovery takes two steps: its transaction locks no row, so what it read *)
(* of the task and of its jobs may be old by the time it writes.           *)
(*                                                                         *)
(* Task states are abstracted to what the scheduler distinguishes: Active  *)
(* is every state outside STOPPED; Exhausted is Blocked for the reason     *)
(* "model execution limit", which /retry refuses while the limit stands.   *)
(***************************************************************************)
EXTENDS Integers, FiniteSets

CONSTANTS
    Tasks, Repos, Roles,
    RepoOf,                \* settings.repo_for(task).repository
    VersionOf,             \* task.workflow_version
    ClassOf,               \* parallel_class of a role
    Fallback,              \* fallback_role of a role, NoRole when it has none
    NoRole, NoTask,
    Submits,               \* the <<kind, role>> pairs API calls queue
    Lead,                  \* role of the jobs the commands and results queue
    MaxJobs,               \* bound: job rows that can be created
    MaxOwner,              \* bound: controller processes that ever lead
    MaxIdentity,           \* bound: revisions of a task's pinned identity
    MaxFence,              \* bound: fence of a job
    LeaseSeconds,
    MaxAttempts,           \* 3 in the code
    ModelCalls,            \* workflow_v2.model_calls_per_task
    NormalConcurrency, PrivilegedConcurrency,
    ChatGPT,               \* settings.auth_mode == "chatgpt"
    Live                   \* settings.mode == "live": daily and cost limits apply

Classes == {"coordinator", "read_only", "repository_write", "privileged"}
Kinds == {"implement", "review", "consult"}

ASSUME SchedulerAssumption ==
    /\ Tasks # {} /\ Roles # {}
    /\ RepoOf \in [Tasks -> Repos]
    /\ VersionOf \in [Tasks -> {1, 2}]
    /\ ClassOf \in [Roles -> Classes]
    /\ NoRole \notin Roles /\ NoTask \notin Tasks
    /\ Fallback \in [Roles -> Roles \cup {NoRole}]
    /\ Live \in BOOLEAN /\ ChatGPT \in BOOLEAN
    /\ MaxJobs \in Nat /\ LeaseSeconds \in Nat \ {0} /\ Lead \in Roles
    /\ Submits \subseteq Kinds \X Roles
    /\ MaxOwner \in Nat /\ MaxIdentity \in Nat /\ MaxFence \in Nat
    /\ MaxAttempts \in Nat /\ ModelCalls \in Nat
    /\ NormalConcurrency \in Nat /\ PrivilegedConcurrency \in Nat

(* A deadline is kept as the time left until it: 0 is the instant itself
   and Lapsed any time after.                                              *)
Lapsed == -1
Deadlines == {Lapsed} \cup Nat
Elapse(deadline) == IF deadline = Lapsed THEN Lapsed ELSE deadline - 1
Unread == -2

Jobs == 1..MaxJobs         \* in the order of Job.created
NoJob == 0

TaskStates == {"Active", "Paused", "Blocked", "Exhausted", "Cancelled"}
STOPPED == {"Paused", "Blocked", "Exhausted", "Cancelled"}
Statuses == {"absent", "queued", "running", "done", "failed", "cancelled"}

(* The identity of a task stands for the hashes and versions of its data
   that jobs pin: 0 while nothing is registered.  A job of workflow v2 that
   pins nothing matches whatever the task holds; one queued with the data of
   workflow v1 (Foreign) matches no v2 task.                               *)
Unpinned == 0
Foreign == -1
Pins == Nat \cup {Foreign}

JobRows == [status: Statuses, task: Tasks \cup {NoTask}, role: Roles \cup {NoRole}, kind: Kinds,
            identity: Pins,     \* the hashes and versions pinned in Job.data
            fence: Nat, attempt: Nat, owner: Nat, lease: Deadlines,
            reformatted: BOOLEAN,   \* Job.data["patch_format_retry"]
            heard: BOOLEAN]         \* its claim or a heartbeat counts as activity
TaskRows == [state: TaskStates, identity: Nat,
             budget: Nat,       \* ExecutionBudget.model_reservations
             stalled: BOOLEAN]  \* data["stalled_retry_version"] = state_version
Leases == [job: Jobs, owner: Nat, expires: Deadlines]
NoLease == [job |-> NoJob, owner |-> 0, expires |-> Lapsed]
Executions == [job: Jobs, fence: Nat, owner: Nat, seen: Deadlines \cup {Unread}]

(* What a transaction of the stall recovery has read: the row of a task and
   its open jobs with their fences.                                        *)
Recoveries == [task: Tasks \cup {NoTask}, identity: Nat, stalled: BOOLEAN,
               read: SUBSET Jobs, fence: [Jobs -> Nat]]
NoRecovery == [task |-> NoTask, identity |-> 0, stalled |-> FALSE,
               read |-> {}, fence |-> [j \in Jobs |-> 0]]

VARIABLES
    leader,      \* Engine.owner of the process that holds the leader lock
    task, job,   \* the tables
    repoLease,   \* RepositoryLease rows by repository
    exec,        \* Engine.execute coroutines alive in some process
    deploying,   \* a "deployment:%" operation is running
    recovery,    \* recover_stalled_v2 of the leader, between its queries
    recovered    \* ghost: jobs whose task it has written over since they started

vars == <<leader, task, job, repoLease, exec, deploying, recovery, recovered>>
Unrecovered == UNCHANGED <<recovery, recovered>>

-----------------------------------------------------------------------------
(* Rows and their predicates *)

VersionOfJob(j) == VersionOf[job[j].task]
RepoOfJob(j) == RepoOf[job[j].task]
Created == {j \in Jobs : job[j].status # "absent"}
Open(j) == job[j].status \in {"queued", "running"}
IsLatest(j, t) == /\ j \in Created /\ job[j].task = t
                  /\ \A k \in Created : job[k].task = t => k <= j

(* claim: a consultation counts as read_only, whatever the role's class.   *)
Class(j) == IF job[j].kind = "consult" THEN "read_only" ELSE ClassOf[job[j].role]
Writes(j) == VersionOfJob(j) = 2 /\ Class(j) = "repository_write"

IdentityCurrent(j) == \/ job[j].identity = task[job[j].task].identity
                      \/ VersionOfJob(j) = 2 /\ job[j].identity = Unpinned

(* service.transition: a new state and a new state_version.                *)
Transition(row, state) == [row EXCEPT !.state = state, !.stalled = FALSE]

Under(row, identity) == [row EXCEPT !.identity = identity]

IsNext(j) == /\ job[j].status = "absent"
             /\ \A k \in Jobs : k < j => job[k].status # "absent"
NewJob(t, kind, role, identity, reformatted) ==
    [status |-> "queued", task |-> t, role |-> role, kind |-> kind, identity |-> identity,
     fence |-> 0, attempt |-> 0, owner |-> 0, lease |-> Lapsed, reformatted |-> reformatted,
     heard |-> FALSE]

(* invalidate: queued and running jobs are cancelled and fenced.           *)
Invalidated(t) ==
    [j \in Jobs |-> IF job[j].task = t /\ Open(j)
                    THEN [job[j] EXCEPT !.status = "cancelled", !.fence = @ + 1]
                    ELSE job[j]]
(* Mutant: the lease row loses its job but stays in the table.               *)
ReleasedInPlace(gone) ==
    [r \in Repos |-> IF repoLease[r].job \in gone THEN [repoLease[r] EXCEPT !.job = NoJob]
                     ELSE repoLease[r]]
Released(gone) == [r \in Repos |-> IF repoLease[r].job \in gone THEN NoLease ELSE repoLease[r]]
(* release_repository_lease, for the jobs `gone' and the engine `owner'.   *)
ReleasedBy(gone, owner) ==
    [r \in Repos |-> IF repoLease[r].job \in gone /\ repoLease[r].owner = owner
                     THEN NoLease ELSE repoLease[r]]
-----------------------------------------------------------------------------
(* Engine.claim: one pass over the queue, in one transaction.  Engine.loop  *)
(* calls claim and reconcile in turn, so it never overlaps a stall recovery *)
(* of its own process.                                                      *)

Expired(j) == job[j].status = "running" /\ job[j].lease = Lapsed
Fenced(j) == IF Expired(j) THEN [job[j] EXCEPT !.status = "queued", !.fence = @ + 1] ELSE job[j]
Waiting == {j \in Jobs : job[j].status = "queued" \/ Expired(j)}
Running == {j \in Jobs : job[j].status = "running" /\ ~Expired(j)}

(* running_classes counts by the class of the role.                        *)
RunningClass(classes) == {k \in Running : VersionOfJob(k) = 2 /\ ClassOf[job[k].role] \in classes}
(* Mutant: any lease of the own process counts as free.                      *)
LeaseFreeToOwner(j) ==
    LET lease == repoLease[RepoOfJob(j)]
    IN lease.job = NoJob \/ lease.expires = Lapsed \/ lease.owner = leader
LeaseFree(j) ==
    LET lease == repoLease[RepoOfJob(j)]
    IN lease.job = NoJob \/ lease.expires = Lapsed \/ lease.job = j

AdmittedV1(j) == /\ \A k \in Running : job[k].role # job[j].role
                 /\ ChatGPT => Running = {}
(* Mutant: one job more than the limits.                                     *)
AdmittedV2AtLimit(j) ==
    /\ IF Class(j) = "privileged"
       THEN Cardinality(RunningClass({"privileged"})) <= PrivilegedConcurrency
       ELSE Cardinality(RunningClass(Classes \ {"privileged"})) <= NormalConcurrency
    /\ Class(j) = "repository_write" => LeaseFree(j)
AdmittedV2(j) ==
    /\ IF Class(j) = "privileged"
       THEN Cardinality(RunningClass({"privileged"})) < PrivilegedConcurrency
       ELSE Cardinality(RunningClass(Classes \ {"privileged"})) < NormalConcurrency
    /\ Class(j) = "repository_write" => LeaseFree(j)
Admitted(j) == IF VersionOfJob(j) = 1 THEN AdmittedV1(j) ELSE AdmittedV2(j)

NoBudget(j) == VersionOfJob(j) = 2 /\ task[job[j].task].budget >= ModelCalls
Ready(j) == task[job[j].task].state \notin STOPPED /\ IdentityCurrent(j) /\ Admitted(j)
(* The jobs a limit of live mode can stop: the runs per day and task of v1,
   the expenses of an API key.                                             *)
Limited == {j \in Waiting : Live /\ (VersionOfJob(j) = 1 \/ ~ChatGPT)}
(* A ready job that cannot be started: no budget, a live-mode limit (capped)
   or no attempt left.  Its task is Blocked on the spot.                    *)
Spent(j, capped) == Ready(j) /\ (NoBudget(j) \/ j \in capped \/ job[j].attempt >= MaxAttempts)

Started(j) == [Fenced(j) EXCEPT !.status = "running", !.owner = leader, !.fence = @ + 1,
                                !.attempt = @ + 1, !.lease = LeaseSeconds,
                                !.heard = (job[j].kind = "implement")]
GivenUp(j, capped) ==
    IF NoBudget(j) \/ j \in capped
    THEN [Fenced(j) EXCEPT !.status = "cancelled"]
    ELSE [Started(j) EXCEPT !.status = "failed"]

(* The task row after the pass: a Spent job blocks it, a started one is
   charged to its budget; starting an implementation is a transition.      *)
Charged(row, t) == IF VersionOf[t] = 2 THEN [row EXCEPT !.budget = @ + 1] ELSE row
BlockedBy(j) ==
    LET t == job[j].task
    IN IF NoBudget(j) THEN Transition(task[t], "Exhausted")
       ELSE Transition(Charged(task[t], t), "Blocked")
StartedBy(j) ==
    LET t == job[j].task
    IN IF job[j].kind = "implement" THEN Transition(Charged(task[t], t), "Active")
       ELSE Charged(task[t], t)

(* The jobs the pass reaches when it stops at `start' (NoJob: it does not):
   rows locked by others are skipped, and so are the jobs of a task an
   earlier job of the same pass has blocked.                               *)
Reached(visible, capped, start) ==
    {j \in visible : /\ start = NoJob \/ j <= start
                     /\ task[job[j].task].state \notin STOPPED
                     /\ \A k \in visible :
                           k < j /\ job[k].task = job[j].task => ~Spent(k, capped)}

(* The rows the pass leaves: `start' runs, `spent' jobs are given up, `stale'
   ones cancelled, expired ones fenced and back in the queue.              *)
Serve(start, spent, stale, capped) ==
    /\ job' = [j \in Jobs |->
         IF j = start THEN Started(j)
         ELSE IF j \in spent THEN GivenUp(j, capped)
         ELSE IF j \in stale THEN [Fenced(j) EXCEPT !.status = "cancelled"]
         ELSE Fenced(j)]
    /\ task' = [t \in Tasks |->
         IF start # NoJob /\ job[start].task = t THEN StartedBy(start)
         ELSE IF \E j \in spent : job[j].task = t
              THEN BlockedBy(CHOOSE j \in spent : job[j].task = t)
              ELSE task[t]]
    /\ repoLease' = [r \in Repos |->
         IF start # NoJob /\ Writes(start) /\ RepoOfJob(start) = r
         THEN [job |-> start, owner |-> leader, expires |-> LeaseSeconds]
         ELSE IF \E j \in spent : Writes(j) /\ RepoOfJob(j) = r THEN NoLease
         ELSE repoLease[r]]
    /\ exec' = exec \cup
         IF start = NoJob THEN {}
         ELSE {[job |-> start, fence |-> Fenced(start).fence + 1, owner |-> leader,
                seen |-> Unread]}

Claim ==
    /\ ~deploying /\ recovery = NoRecovery
    /\ \E skipped \in SUBSET {j \in Jobs : job[j].status = "queued"}, start \in Jobs \cup {NoJob},
          capped \in SUBSET Limited :
         LET reached == Reached(Waiting \ skipped, capped, start)
             spent == {j \in reached : Spent(j, capped)}
             stale == {j \in reached : ~IdentityCurrent(j)}
         IN /\ {j \in reached : Ready(j)} \ spent = {start} \ {NoJob}
            /\ start # NoJob => Fenced(start).fence < MaxFence
            /\ Serve(start, spent, stale, capped)
            /\ recovered' = recovered \ {start}
    /\ UNCHANGED <<leader, deploying, recovery>>
-----------------------------------------------------------------------------
(* Engine.execute: every transaction first reads the job row, then waits   *)
(* for the task lock; Passes is the rest of Engine.current's guard.        *)

Replace(x, y) == exec' = (exec \ {x}) \cup {y}

(* Mutant: the fence is not compared.                                        *)
ReadableUnfenced(x) == job[x.job].status = "running" /\ job[x.job].owner = x.owner

Readable(x) == /\ job[x.job].status = "running"
               /\ job[x.job].fence = x.fence
               /\ job[x.job].owner = x.owner

ReadJob(x) ==
    /\ x.seen = Unread /\ Readable(x)
    /\ Replace(x, [x EXCEPT !.seen = job[x.job].lease])
    /\ UNCHANGED <<leader, task, job, repoLease, deploying>>

(* Mutant: a stopped task is not noticed.                                    *)
PassesStopped(x) == x.seen > 0 /\ IdentityCurrent(x.job)

Passes(x) == /\ x.seen > 0
             /\ task[job[x.job].task].state \notin STOPPED
             /\ IdentityCurrent(x.job)

(* Mutant: the lease of the repository is not renewed with the job.          *)
HeartbeatOfJob(x) ==
    /\ x.owner = leader /\ Passes(x)
    /\ job' = [job EXCEPT ![x.job].lease = LeaseSeconds, ![x.job].heard = TRUE]
    /\ Replace(x, [x EXCEPT !.seen = Unread])
    /\ UNCHANGED <<leader, task, repoLease, deploying>>

Heartbeat(x) ==
    /\ x.owner = leader /\ Passes(x)
    /\ job' = [job EXCEPT ![x.job].lease = LeaseSeconds, ![x.job].heard = TRUE]
    /\ repoLease' = [r \in Repos |->
         IF repoLease[r].job = x.job /\ repoLease[r].owner = x.owner
         THEN [repoLease[r] EXCEPT !.expires = LeaseSeconds] ELSE repoLease[r]]
    /\ Replace(x, [x EXCEPT !.seen = Unread])
    /\ UNCHANGED <<leader, task, deploying>>

(* external: a GitHub call made under the task lock.                       *)
External(x) ==
    /\ Passes(x)
    /\ Replace(x, [x EXCEPT !.seen = Unread])
    /\ UNCHANGED <<leader, task, job, repoLease, deploying>>

(* finish_v2: the published head becomes part of the task's identity and of
   the job's.                                                              *)
Record(x) ==
    LET t == job[x.job].task
    IN /\ Passes(x) /\ job[x.job].kind = "implement" /\ task[t].identity < MaxIdentity
       /\ task' = [task EXCEPT ![t].identity = @ + 1]
       /\ job' = [job EXCEPT ![x.job].identity = task[t].identity + 1]
       /\ Replace(x, [x EXCEPT !.seen = Unread])
       /\ UNCHANGED <<leader, repoLease, deploying>>

(* finish, finish_v2: the job is done and, in the same transaction, the task
   is blocked, or moves on under the same or a new identity with or without
   a next job.                                                             *)
Finish(x) ==
    LET t == job[x.job].task
        done == [job EXCEPT ![x.job].status = "done"]
    IN /\ Passes(x)
       /\ repoLease' = ReleasedBy({x.job}, x.owner)
       /\ exec' = exec \ {x}
       /\ \/ job' = done /\ UNCHANGED task
          \/ job' = done /\ task' = [task EXCEPT ![t] = Transition(@, "Blocked")]
          \/ \E identity \in {task[t].identity, task[t].identity + 1} :
               /\ identity <= MaxIdentity
               /\ task' = [task EXCEPT ![t] = Under(Transition(@, "Active"), identity)]
               /\ \/ job' = done
                  \/ \E n \in Jobs :
                       /\ IsNext(n)
                       /\ job' = [done EXCEPT ![n] = NewJob(t, "review", Lead, identity, FALSE)]
       /\ UNCHANGED <<leader, deploying>>

(* A transaction that current refuses: the one of fail() ends the execution
   without a trace, any other raises and fail() begins the next one.       *)
Refused(x) ==
    /\ IF x.seen = Unread THEN ~Readable(x) ELSE ~Passes(x)
    /\ exec' = exec \ {x} \/ Replace(x, [x EXCEPT !.seen = Unread])
    /\ UNCHANGED <<leader, task, job, repoLease, deploying>>

(* The rest of fail(): rows is the job table it leaves.                    *)
Fail(x, rows) ==
    /\ Passes(x)
    /\ repoLease' = ReleasedBy({x.job}, x.owner)
    /\ exec' = exec \ {x}
    /\ job' = rows
    /\ UNCHANGED <<leader, deploying>>

(* No patch in the answer: asked again once, even after the last attempt.  *)
FailReformat(x) ==
    /\ VersionOfJob(x.job) = 2 /\ job[x.job].kind = "implement" /\ ~job[x.job].reformatted
    /\ Fail(x, [job EXCEPT ![x.job].status = "queued", ![x.job].reformatted = TRUE])
    /\ UNCHANGED task

FailRetry(x) ==
    /\ VersionOfJob(x.job) = 2 /\ job[x.job].attempt < MaxAttempts
    /\ Fail(x, [job EXCEPT ![x.job].status = "queued"])
    /\ UNCHANGED task

FailFallback(x) ==
    LET row == job[x.job]
    IN /\ VersionOfJob(x.job) = 2 /\ row.attempt >= MaxAttempts
       /\ Fallback[row.role] # NoRole /\ ClassOf[row.role] # "privileged"
       /\ \E n \in Jobs :
            /\ IsNext(n)
            /\ Fail(x, [job EXCEPT
                 ![x.job].status = "failed",
                 ![n] = NewJob(row.task, row.kind, Fallback[row.role], row.identity,
                               row.reformatted)])
       /\ UNCHANGED task

FailBlock(x) ==
    /\ Fail(x, [job EXCEPT ![x.job].status = "failed"])
    /\ task' = [task EXCEPT ![job[x.job].task] = Transition(@, "Blocked")]

Execution(x) ==
    \/ ReadJob(x) \/ Heartbeat(x) \/ External(x) \/ Record(x) \/ Finish(x) \/ Refused(x)
    \/ FailReformat(x) \/ FailRetry(x) \/ FailFallback(x) \/ FailBlock(x)
-----------------------------------------------------------------------------
(* What the owner's commands and the reconciliation do to the queue *)

Enqueue(rows, n, t, kind, role, identity) ==
    /\ IsNext(n)
    /\ job' = [rows EXCEPT ![n] = NewJob(t, kind, role, identity, FALSE)]

(* An API call queues work: a request or an approval for an active task, a
   consultation for any task of v2, stopped or not.                        *)
Submit(t) ==
    /\ \E n \in Jobs, s \in Submits :
         /\ IF s[1] = "consult" THEN VersionOf[t] = 2 ELSE task[t].state = "Active"
         /\ Enqueue(job, n, t, s[1], s[2], task[t].identity)
    /\ UNCHANGED <<leader, task, repoLease, exec, deploying>>

(* register_requirements, register_plan: a new identity, beside whatever
   jobs are open.                                                          *)
Register(t) ==
    /\ task[t].state = "Active" /\ task[t].identity < MaxIdentity
    /\ task' = [task EXCEPT ![t] = Under(Transition(@, "Active"), task[t].identity + 1)]
    /\ \/ UNCHANGED job
       \/ \E n \in Jobs : Enqueue(job, n, t, "review", Lead, task[t].identity + 1)
    /\ UNCHANGED <<leader, repoLease, exec, deploying>>

(* answer, revise: the open jobs are invalidated and a new draft queued,
   under a new version (v1) or pinned at most to the requirements (v2).    *)
Revise(t) ==
    /\ task[t].state # "Cancelled"
    /\ \E identity \in IF VersionOf[t] = 1 THEN {task[t].identity + 1}
                        ELSE {task[t].identity, Unpinned} :
         /\ identity <= MaxIdentity
         /\ \E n \in Jobs : Enqueue(Invalidated(t), n, t, "review", Lead, identity)
         /\ task' = [task EXCEPT ![t] =
              Under(Transition(@, "Active"),
                    IF VersionOf[t] = 1 THEN task[t].identity + 1 ELSE task[t].identity)]
    /\ UNCHANGED <<leader, repoLease, exec, deploying>>

(* answer to an implementation that asked for clarification: the same work
   is queued again for the Blocked task.                                   *)
AnswerImplementation(t) ==
    /\ VersionOf[t] = 2 /\ task[t].state = "Blocked"
    /\ \E j, n \in Jobs :
         /\ IsLatest(j, t) /\ job[j].kind = "implement" /\ job[j].status = "done"
         /\ IdentityCurrent(j)
         /\ Enqueue(job, n, t, "implement", job[j].role, task[t].identity)
    /\ task' = [task EXCEPT ![t] = Transition(@, "Active")]
    /\ UNCHANGED <<leader, repoLease, exec, deploying>>

(* reconcile, after its stall recovery, found a changed Issue, plan or head. *)
Reidentify(t) ==
    /\ recovery = NoRecovery
    /\ task[t].state \in {"Active", "Blocked", "Exhausted"} /\ task[t].identity < MaxIdentity
    /\ \E n \in Jobs :
         Enqueue(Invalidated(t), n, t, "review", Lead, task[t].identity + 1)
    /\ task' = [task EXCEPT ![t] = Under(Transition(@, "Active"), task[t].identity + 1)]
    /\ UNCHANGED <<leader, repoLease, exec, deploying>>

Pause(t) ==
    /\ task[t].state # "Cancelled"
    /\ job' = Invalidated(t)
    /\ task' = [task EXCEPT ![t] = Transition(@, "Paused")]
    /\ UNCHANGED <<leader, repoLease, exec, deploying>>

(* cancel also deletes the repository leases of the task's jobs (v2).      *)
Cancel(t) ==
    /\ task[t].state # "Cancelled"
    /\ job' = Invalidated(t)
    /\ task' = [task EXCEPT ![t] = Transition(@, "Cancelled")]
    /\ repoLease' = IF VersionOf[t] = 2
                    THEN Released({j \in Created : job[j].task = t}) ELSE repoLease
    /\ UNCHANGED <<leader, exec, deploying>>

(* The new job of resume and retry: a review when the task has a pull
   request; without one, whatever the version, a job of workflow v1.       *)
Restarted(t) ==
    /\ \E n \in Jobs, identity \in {task[t].identity}
                                  \cup IF VersionOf[t] = 2 THEN {Foreign} ELSE {} :
         Enqueue(job, n, t, "review", Lead, identity)
    /\ task' = [task EXCEPT ![t] = Transition(@, "Active")]

Resume(t) ==
    /\ task[t].state = "Paused"
    /\ Restarted(t)
    /\ UNCHANGED <<leader, repoLease, exec, deploying>>

(* Mutant: the retried job starts over with its fence, too.                  *)
RetryFailedUnfenced(t) ==
    /\ task[t].state = "Blocked"
    /\ \E j \in Jobs :
         /\ IsLatest(j, t) /\ job[j].status = "failed"
         /\ job' = [job EXCEPT ![j].status = "queued", ![j].attempt = 0, ![j].fence = 0,
                               ![j].owner = 0, ![j].lease = Lapsed]
    /\ task' = [task EXCEPT ![t] = Transition(@, "Active")]
    /\ UNCHANGED <<leader, repoLease, exec, deploying>>

(* retry of a v2 task whose latest job failed, and its automatic form after
   a connection failure (recover_connected_v2_workers): the same job again.
   v1 keeps its owner and lease.                                           *)
RetryFailed(t) ==
    /\ task[t].state = "Blocked"
    /\ \E j \in Jobs :
         /\ IsLatest(j, t) /\ job[j].status = "failed"
         /\ job' = [job EXCEPT ![j].status = "queued", ![j].attempt = 0,
                               ![j].owner = IF VersionOf[t] = 2 THEN 0 ELSE @,
                               ![j].lease = IF VersionOf[t] = 2 THEN Lapsed ELSE @]
    /\ task' = [task EXCEPT ![t] = Transition(@, "Active")]
    /\ UNCHANGED <<leader, repoLease, exec, deploying>>

(* retry of a task blocked on a requirements proposal that had to be copied
   into the Issue: the drafting job that is done is queued once more.       *)
RetryProposal(t) ==
    /\ VersionOf[t] = 2 /\ task[t].state = "Blocked"
    /\ \E j \in Jobs :
         /\ job[j].task = t /\ job[j].kind = "review" /\ job[j].status = "done"
         /\ job' = [job EXCEPT ![j].status = "queued", ![j].attempt = 0, ![j].owner = 0]
    /\ task' = [task EXCEPT ![t] = Transition(@, "Active")]
    /\ UNCHANGED <<leader, repoLease, exec, deploying>>

(* retry otherwise: v1 may do this after a failure too.                    *)
RetryAnew(t) ==
    /\ task[t].state = "Blocked"
    /\ VersionOf[t] = 2 => ~\E j \in Jobs : IsLatest(j, t) /\ job[j].status = "failed"
    /\ Restarted(t)
    /\ UNCHANGED <<leader, repoLease, exec, deploying>>

-----------------------------------------------------------------------------
(* recover_stalled_v2, the first part of reconcile: one transaction that    *)
(* locks no row until it writes.                                            *)

(* It reads a v2 task in a working state and its open jobs, none of which has
   been active for stalled_seconds.  A transition or a new job between these
   queries would be activity; nothing else in between can be told from what
   comes before or after both.  stalled_seconds (at least 300) far exceed
   lease_seconds (90) and heartbeat_seconds: a job heard of since its claim
   whose lease is alive is active.  One claimed after a long wait in the
   queue is not, although its lease is alive.                               *)
ReadStalled(t) ==
    LET open == {j \in Jobs : job[j].task = t /\ Open(j)}
    IN /\ recovery = NoRecovery
       /\ VersionOf[t] = 2 /\ task[t].state = "Active" /\ open # {}
       /\ \A j \in open :
            job[j].status = "running" /\ job[j].lease # Lapsed => ~job[j].heard
       /\ recovery' = [task |-> t, identity |-> task[t].identity, stalled |-> task[t].stalled,
                       read |-> open,
                       fence |-> [j \in Jobs |-> IF j \in open THEN job[j].fence ELSE 0]]
       /\ UNCHANGED <<leader, task, job, repoLease, exec, deploying, recovered>>

(* The rows as the recovery writes them: whatever became of a job it read,
   the job is cancelled and its fence follows the one that was read.        *)
Recalled ==
    [j \in Jobs |-> IF j \in recovery.read
                    THEN [job[j] EXCEPT !.status = "cancelled", !.fence = recovery.fence[j] + 1]
                    ELSE job[j]]
(* It writes without another look: Task.data, the identity in it, goes back
   to what was read.  A first time the latest of the jobs is queued anew and
   the state stays what it has become; whether a transition came since the
   read, so that the retry is forgotten, only the state can tell here.  A
   second time the task is Blocked, whatever it has become.                 *)
RecoverStalled ==
    LET t == recovery.task
    IN /\ recovery.read # {}
       /\ \/ /\ recovery.stalled
             /\ job' = Recalled
             /\ task' = [task EXCEPT ![t] = Under(Transition(@, "Blocked"), recovery.identity)]
          \/ /\ ~recovery.stalled
             /\ \E latest \in recovery.read, n \in Jobs :
                  /\ \A j \in recovery.read : j <= latest
                  /\ Enqueue(Recalled, n, t, job[latest].kind, job[latest].role,
                             recovery.identity)
             /\ \E retried \in {FALSE, task[t].state = "Active"} :
                  task' = [task EXCEPT ![t] = Under([@ EXCEPT !.stalled = retried],
                                                    recovery.identity)]
       /\ repoLease' = ReleasedBy(recovery.read, leader)
       /\ recovery' = NoRecovery
       /\ recovered' = recovered \cup {j \in Created : job[j].task = t}
       /\ UNCHANGED <<leader, exec, deploying>>

StallRecovery == (\E t \in Tasks : ReadStalled(t)) \/ RecoverStalled
-----------------------------------------------------------------------------
(* The environment: time, the controller process, the release supervisor *)

Tick == /\ job' = [j \in Jobs |-> [job[j] EXCEPT !.lease = Elapse(@)]]
        /\ repoLease' = [r \in Repos |-> [repoLease[r] EXCEPT !.expires = Elapse(@)]]
        /\ exec' = {[x EXCEPT !.seen = IF @ = Unread THEN @ ELSE Elapse(@)] : x \in exec}
        /\ UNCHANGED <<leader, task, deploying, recovery, recovered>>

(* A new process takes the leader lock.  The old one either died with its
   executions or only lost its connection and still runs them; a stall
   recovery of its own ends long before the new process has started.       *)
Failover ==
    /\ leader < MaxOwner
    /\ leader' = leader + 1
    /\ exec' = {} \/ exec' = exec
    /\ recovery' = NoRecovery
    /\ UNCHANGED <<task, job, repoLease, deploying, recovered>>

(* Mutant: a job whose lease has lapsed does not count as running.           *)
DeployClaimPastLapsed == /\ ~deploying
                         /\ \A j \in Jobs : job[j].status = "running" => job[j].lease = Lapsed
                         /\ deploying' = TRUE
                         /\ UNCHANGED <<leader, task, job, repoLease, exec, recovery, recovered>>

(* deployments.bridge claim and complete, under the same advisory lock as
   claim: a release starts only while no job is running.                   *)
DeployClaim == /\ ~deploying
               /\ \A j \in Jobs : job[j].status # "running"
               /\ deploying' = TRUE
               /\ UNCHANGED <<leader, task, job, repoLease, exec, recovery, recovered>>
DeployComplete == /\ deploying /\ deploying' = FALSE
                  /\ UNCHANGED <<leader, task, job, repoLease, exec, recovery, recovered>>
-----------------------------------------------------------------------------
Init == /\ leader = 1
        /\ task = [t \in Tasks |-> [state |-> "Active", identity |-> 0, budget |-> 0,
                                    stalled |-> FALSE]]
        /\ job \in [Jobs -> {[status |-> "absent", task |-> NoTask,
                              role |-> NoRole, kind |-> "review",
                              identity |-> 0, fence |-> 0, attempt |-> 0, owner |-> 0,
                              lease |-> Lapsed, reformatted |-> FALSE, heard |-> FALSE]}]
        /\ repoLease = [r \in Repos |-> NoLease]
        /\ exec = {} /\ deploying = FALSE
        /\ recovery = NoRecovery /\ recovered = {}

Command(t) == \/ Submit(t) \/ Register(t) \/ Revise(t) \/ AnswerImplementation(t)
              \/ Reidentify(t) \/ Pause(t) \/ Cancel(t) \/ Resume(t)
              \/ RetryFailed(t) \/ RetryProposal(t) \/ RetryAnew(t)

Next == \/ Claim
        \/ \E x \in exec : Execution(x) /\ Unrecovered
        \/ \E t \in Tasks : Command(t) /\ Unrecovered
        \/ StallRecovery
        \/ Tick \/ Failover \/ DeployClaim \/ DeployComplete

Spec == Init /\ [][Next]_vars
-----------------------------------------------------------------------------
(* Properties *)

(* Every row of every table and every execution has its type; a job that was
   created names a task and a role, a job the stall recovery has read its
   task.                                                                   *)
TablesOK ==
    /\ leader \in Nat
    /\ task \in [Tasks -> TaskRows]
    /\ job \in [Jobs -> JobRows]
    /\ \A j \in Created : job[j].task \in Tasks /\ job[j].role \in Roles
    /\ repoLease \in [Repos -> Leases \cup {NoLease}]
    /\ exec \subseteq Executions
    /\ deploying \in BOOLEAN
RecoveryOK ==
    /\ recovery \in Recoveries
    /\ \A j \in recovery.read : j \in Created /\ job[j].task = recovery.task
    /\ recovered \subseteq Created
TypeOK == TablesOK /\ RecoveryOK

(* A running v2 job of a repository_write role whose lease has not lapsed
   owns the lease of its repository for at least as long: whatever expires,
   fails over or is cancelled, claim can never start a second writer of the
   repository beside a job that still runs.                                *)
WriterHoldsLease ==
    \A j \in Jobs :
        job[j].status = "running" /\ Writes(j) /\ job[j].lease # Lapsed =>
            /\ repoLease[RepoOfJob(j)].job = j
            /\ repoLease[RepoOfJob(j)].owner = job[j].owner
            /\ repoLease[RepoOfJob(j)].expires >= job[j].lease

(* Of all executions of one job alive in any process, old and new, at most
   one can pass the guard of Engine.current, stale reads included.         *)
OneValidExecution ==
    \A x, y \in exec :
        x.job = y.job /\ Passes(x) /\ Passes(y) => x = y

(* Nor can two executions of two writers of one repository, not even while
   the lease of the first has just been deleted under it: only one of them
   can publish.  Excepted are the jobs of a task that the stall recovery has
   written over since they started: it deletes the lease of a live writer.  *)
OneWriterOf(jobs) ==
    \A x, y \in {z \in exec : z.job \in jobs} :
        /\ Writes(x.job) /\ Writes(y.job) /\ RepoOfJob(x.job) = RepoOfJob(y.job)
        /\ Passes(x) /\ Passes(y)
        => x = y
OneValidWriter == OneWriterOf(Jobs \ recovered)

(* Violated: the documented rule of one writer per repository at a time
   ("同じrepositoryの書き込みは1件"), without that exception.                *)
OneWriterAtATime == OneWriterOf(Jobs)

(* A task that is stopped and stays stopped keeps its revision and its jobs:
   whatever its executions had read before the stop, none of them finishes,
   fails, publishes or requeues; only claim may return a lapsed job to the
   queue, and a second pause cancel a consultation asked for since.
   Excepted is the write of a stall recovery that had read the task before. *)
WrittenOver(t) == recovery.task = t /\ recovery.read # {} /\ recovery' = NoRecovery
StoppedKeepsJobs ==
    [][\A t \in Tasks :
         task[t].state \in STOPPED /\ task'[t].state = task[t].state /\ ~WrittenOver(t) =>
            /\ task'[t].identity = task[t].identity
            /\ \A j \in Jobs : job[j].task = t =>
                  \/ job'[j].status = job[j].status
                  \/ Expired(j) /\ job'[j].status = "queued"
                  \/ job'[j].status = "cancelled" /\ job'[j].fence > job[j].fence]_vars

(* Where the executions stand to the job table: a token never runs ahead of
   the fence, nor ahead of the fence that a stall recovery in progress has
   read; no two tokens of a job bear one fence; and a token whose read
   would still let it pass belongs to the running job as it is, or to a job
   that was invalidated since the read.                                    *)
TokenFences ==
    /\ \A x \in exec : x.job \in Created /\ x.fence <= job[x.job].fence
    /\ \A x, y \in exec : x.job = y.job /\ x.fence = y.fence => x = y
ReadFences ==
    \A x \in exec : x.job \in recovery.read => x.fence <= recovery.fence[x.job]
TokenReads ==
    \A x \in exec : x.seen > 0 =>
        \/ Readable(x) /\ job[x.job].lease >= x.seen
        \/ job[x.job].status = "cancelled"
OneArmed ==
    \A x, y \in exec : x.job = y.job /\ x.seen > 0 /\ y.seen > 0 => x = y
TokensSound == TokenFences /\ ReadFences /\ TokenReads /\ OneArmed

(* While a release operation is running no job is running: claim and the
   supervisor's claim exclude each other.                                  *)
DeployQuiet == deploying => \A j \in Jobs : job[j].status # "running"

(* The concurrency limits of the configuration, as far as claim's counts keep
   them: of jobs of a role that is not privileged no more than the normal
   limit run, of those it admits as privileged no more than the other.  A
   consultation of a privileged role is in neither: claim admits it under
   the normal limit and counts it, while it runs, under the privileged one. *)
V2Running == {j \in Jobs : job[j].status = "running" /\ VersionOfJob(j) = 2}
WithinConcurrency ==
    /\ Cardinality({j \in V2Running : ClassOf[job[j].role] # "privileged"})
         <= NormalConcurrency
    /\ Cardinality({j \in V2Running : Class(j) = "privileged"}) <= PrivilegedConcurrency
=============================================================================
