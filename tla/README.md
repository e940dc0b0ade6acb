# A formal model of the agent team orchestrator

TLA+ modules, TLC runs and TLAPS proofs about the orchestrator in `src/agent_team` and the
release supervisor in `scripts`. Line numbers in this file refer to the commit beside which it is kept;
`PROJECT.json` maps every definition to the lines it stands for.

## 1. The system

A FastAPI controller (one process that holds a PostgreSQL advisory lock) keeps *tasks*. A task is
a request of the owner, who talks to it on Discord. Agents (model runs in sandboxes, behind HTTP
*workers*) draft its requirements, plan it, implement it and review it; the controller publishes
what they produce to GitHub, and the owner approves requirements, plan and merge. A *supervisor* on
the host installs approved releases of the controller's own containers.

| Component | State | Operations | Talks to |
|---|---|---|---|
| **Job scheduler** (`engine.py` claim, current, heartbeat, external, fail, execute; `db.py`) | `Job` rows (status, fence, owner, lease, attempt, pinned hashes), `RepositoryLease`, `ExecutionBudget`, the leader lock; in memory one coroutine per running job | claim one job per pass, renew its lease, fence and requeue what lapsed, accept or refuse results, retry, hand over to a fallback role, block the task | workers (HTTP), GitHub (under the task's row lock), commands (rows of the same tables) |
| **Task workflow v2** (`workflow.py`, `service.py`, `engine.py` prepare_v2, finish_v2, reconcile; `policy.py` merge_gate) | `Task` (state, state_version, data), `RequirementsReference`, `PlanVersion`, `ApprovalGrant`, `Review`, `Approval`, `Operation` | create, draft, register, approve, plan, review, implement, index, review, gate, merge; pause, cancel, revise, answer, resume, retry; reconcile with GitHub | GitHub Issue, branch and pull request; the scheduler's jobs |
| **Task workflow v1** (`service.py`, `engine.py` finish) | `Task`, `Approval`; specification instead of Issue and plan | as above with a specification approved on Discord | Discord, GitHub |
| **Release deployment** (`deployments.py`, `scripts/deploy_supervisor.py`) | an `Operation` row; on the host a journal, a baseline, a compose override and the last result | propose, approve, claim, complete; preflight, switch, verify, roll back, recover, report | `docker compose exec` into the controller that it replaces |
| **Conversation** (`adapters/discord.py` on_message, `api.py` specialist_turn, `coordination.py`) | in the gateway's memory only: the turns of one owner message and their rounds | coordinate, ask up to four specialists, continue, stand in, hand off, run dialogues, propose changes, register a task | workers (HTTP), Discord, Discord administration |
| **Consultations, delegations** (`consultations.py`, `delegations.py`) | `Consultation`, `Delegation`, budgets | request within limits per task and topic; log a request in its topic | scheduler, outbox |
| **Outbox and gateway** (`api.py`, `discord_delivery.py`, `adapters/discord.py`) | `Outbox` (sent, attempts, next_try), delivery receipts | fetch 30, send in chunks, acknowledge, back off | Discord, topics |
| **Topics and workspaces** (`workspaces.py`) | `TopicThread` open, resolved, archive_queued, archived | create once per event and purpose, remind once, archive after a day | outbox |
| **Discord administration** (`discord_sre.py`) | `DiscordChange` pending, approved, executing, completed, failed, stale | propose, approve, authorise, complete | gateway |
| **Workers** (`worker.py`, `adapters/sbx.py`, `adapters/codex.py`, `scripts/supervise_sbx_workers.py`) | map of active runs, capacity, journal of virtual machines | run, cancel, shut down; restart all when one fails | controller |
| **Text processing** (`requirements.py`, `planning.py`, `contracts.py`, `redaction.py`, `persona.py`, `prompt_context.py`, `explanations.py`, `renderer.py`, `public_github.py`, `roles.py`, `config.py`) | none, or a cache | validate, render, scan, parse | |

What is hard, and hard to test, in it:

* **Stale reads.** `Engine.current` reads the job row, then waits for the lock of the task row, then
  judges what it read. Commands, recoveries and other processes act in between.
* **Time.** Leases lapse while executions are alive. An execution may return hours later, under a new
  controller process.
* **Several transactions per step.** A finished run publishes, records, indexes, marks ready and queues the
  next job in transactions of its own; the merge takes two; the last call of a draft, a plan and a plan
  review is connected to the job that is already done by nothing but the call stack.
* **A world that does not wait.** People edit the Issue, push, move the base, merge, close and let
  approvals expire at any point. Answers of GitHub are lost.
* **Crashes between durable writes**, of the controller, the gateway, the workers and the supervisor.
* **Calls whose answer is lost**, to GitHub, to Discord and between the program's own processes: each may have
  taken effect, and the retry has to find out.
* **Everything keyed by the job or by the event.** A worker knows a run by its job, the gateway an answer by its
  event id; two of a kind can be alive at once.

The hazards are listed with their lines in `PROJECT.json`; each names the properties that would catch it going
wrong, or says why none does yet.

### What makes each component correct

* Scheduler: at most one execution of a job, and at most one writer of a repository, can act; a stopped task
  stays as it is; limits hold; a release and a job exclude each other; a silent job is retried once.
* Workflow v2: what is merged is what was reviewed and approved, as one identity of head, base,
  requirements and plan; nothing is published without its grants or twice; a pause or cancellation holds; work
  that is an agent's turn has a job.
* Deployment: the baseline names what runs; containers change only for the approved deployment, while
  no job runs; the owner hears what happened; a lost system is left alone; every deployment settles.
* Outbox: every message is delivered at least once and each of its parts at most once while it can be traced; no
  message starves another; what is marked sent was posted whole. Topics: one thread per task or purpose.
* Discord administration: a change is made at most once, as approved, onto what was there when it was approved, and
  reported as completed only if it was made, and not made any more once it is reported as failed.
* Workers: no more runs than the capacity, every virtual machine on record until it is removed, a slot that comes
  back however the run ends, and a worker that comes up again.
* Conversation: it ends, no answer is lost, and what is said to wait for the owner does.

## 2. Modules

| Module | Models | Actions |
|---|---|---|
| `Scheduler` | jobs of any number of tasks of v1 and v2 in one queue | one per transaction: `Claim`, `DeployClaim`, commands; two per transaction of an execution and of the stall recovery (below) |
| `MCScheduler` | its instances | |
| `SchedulerProofs` | theorems about `Scheduler` | |
| `WorkflowV2` | one task of v2 and its GitHub objects | one per transaction of finish_v2, reconcile, commands; the world |
| `MCWorkflowV2` | a task under an owner who changes his mind | `OrdersNext` |
| `WorkflowV2Proofs`, `WorkflowV2GrantProofs` | theorems about `WorkflowV2` | |
| `Deployment` | operation, supervisor, containers | one per durable write of the supervisor, one per container replaced |
| `MCDeployment` | the three services | |
| `DeploymentProofs` | theorems about `Deployment` | |
| `Outbox` | the outbox table, receipts, topics, the gateway's delivery loop, Discord | one per queueing transaction; one per call of the loop |
| `OutboxProofs` | theorems about `Outbox` | |
| `Worker` | requests, microVMs, child processes, cleanup lock, journal, supervision | one per stretch of code between awaits that matter |
| `WorkerProofs` | theorems about `Worker` | |
| `Approval` | what the owner is promised about a change to the guild | one per change of a change's phase |
| `DiscordChange` | the records, endpoints and press handlers behind it | one per call of a handler, per endpoint |
| `DiscordChangeProofs` | theorems about `DiscordChange` | |
| `Conversation` | one message of an owner from decision to end | one per call of a turn, one per gathering point |
| `MCConversation` | roles as `roles.py` defines them | |
| `ConversationProofs` | theorems about `Conversation` | |

`Scheduler` and `WorkflowV2` are two views of the same jobs. `Scheduler` has several tasks, time, leases, fences,
processes and stale reads, and reduces what jobs do to the ways they end and the identity they pin.
`WorkflowV2` has one task, what its jobs do and what GitHub holds, and takes from `Scheduler` that of each job
one execution acts at a time (`OneValidExecution`). `Deployment` and `Scheduler` share the gate between releases
and jobs, each with the other's side reduced to a flag (`deploying`, `busy`). `Worker` is the far end of an execution of
`Scheduler`: that one job may be posted twice, which `Scheduler` shows to be harmless for the tables, is where `Worker`
begins. `Conversation` hands plans to `DiscordChange` (`proposed` there is `LookUp` here), and the notifications of
all of them are rows of `Outbox`. `DiscordChange` composes the controller's service with the gateway's handlers and the
guild, and is shown to implement `Approval`.

### Scheduler

`job`, `task`, `repoLease` are the tables, `exec` the coroutines `Engine.execute` alive in any process,
`leader` the owner id of the process that leads, `deploying` a running deployment operation. A
deadline is kept as the time left until it (0 is the instant itself), so that `Tick` is the only action of time and
the state space needs no clock. An execution's transaction is two actions: `ReadJob` reads the row
(`Engine.current`, line 107) and keeps in `seen` the lease it read; one of `Heartbeat`, `External`, `Record`,
`Finish` and the `Fail...` actions then passes the rest of the guard (`Passes`: lines 110-119) and acts, or
`Refused` ends it. `Claim` is one whole pass over the queue: it fences what has lapsed, cancels
stale jobs, blocks tasks without budget, attempts or daily allowance, and starts the first job admitted, skipping
rows that other transactions have locked.

A task's identity (requirements hash, plan, base, head, or the specification's version and hash) is one number;
a job pins it, pins nothing, or pins the data of the other workflow (`Foreign`, which is what resume queues for a
v2 task without a pull request). Task states are Active, Paused, Blocked, Exhausted (Blocked for the execution
limit, which retry refuses) and Cancelled.

Not in it: `RepositoryLease.fence`, which nothing reads; the recovery passes for v1 tasks after a runtime change;
the row locks below a transaction. `recover_connected_v2_workers` is `RetryFailed` by another hand.

The stall recovery (`recover_stalled_v2`) is one transaction that locks no row before it writes, so it is two actions
over `recovery`: `ReadStalled` reads the row of a task, its open jobs and their fences, and
`RecoverStalled` writes from what was read, whatever has become of either: the jobs cancelled with the next fence, their
repository lease deleted, the task's data as it was read, and a new job or Blocked. Everything but the leader's own loop
(`claim` and the rest of `reconcile`, which run after it in one thread) may step in between. It tests no lease. That a job is silent
is `~heard` or a lapsed lease: `stalled_seconds` is at least 300, a running job says every 120 at most that it lives and a lease is 90, so a job heard of since its claim whose
lease lives was active; the claim of an implementation is a transition and counts, that of another kind does not. A new process
finds no recovery of the old one under way: that transaction would have to outlive the change of the leader. `recovered` is a ghost, the jobs whose task a recovery has written
over since they started, and only the properties read it. The write may leave the retry marked or not, as the state may have changed and come back.

### WorkflowV2

`task` is the row with its data, `jobs` the jobs that anything still reads, `plans`, `ledger` (grants,
reviews, approvals) the tables, `pending` the calls of WorkflowV2Service that a finished job still has to make,
`merging` that reconcile stands between its two transactions, `github` the Issue (body, updated_at), the commits
of the branch (with the job and operation that made each, and the plan files it holds), the pull request, its
review, the base, and what was merged. A plan's hash is as good as its version, a text is named by its author.
A job's `at` says how far its execution has come: start, run, result, published, recorded, indexed, ready.

`reconcile` begins with the stall recovery (`engine.py:1324`), here too two actions over `recovery`: `ReadStalled` takes the row
of a task at work and its open jobs, `RecoverStalled` writes the row back as it was read, with a new job or with Blocked. What lives in
tables of its own (the state, `body` and the approval of `RequirementsReference`, the budget) it leaves as it has become meanwhile. Everything steps in between
but `claim` (`Dispatch`) and the rest of `reconcile`, which wait in the same thread. There is no time in this
module, so a silence may come at any moment, as one of the troubles; `stalled` is that the retry of this `state_version` is used up. A write over a newer
state may leave it set or not, as versions are not counted.

Not in it: consultations, restart_cancelled, the automatic merge of low-risk changes and `merge_mode: disabled`
(the model is `human_gate`), conditional Issue updates (ADR 0012, off by default, so a draft is always
proposed as a comment that the owner copies), repository provisioning, fallback roles and model limits (in
`Scheduler`). The GitHub reads of one reconciliation are taken at one instant. Results of CI are
nondeterministic. Three failed readings of GitHub are the one action `ReconcileFails`. That GitHub closes the Issue
named in the pull request, and thereby changes its `updated_at`, when the pull request is merged, is taken from
GitHub's behaviour, not from this code; GitHub itself and the people using it are marked external.

### Deployment

`ops`, `head` and `busy` are the controller's; `journal`, `baseline`, `override` and `last` the supervisor's files;
`record`, `resumed` and `stage` its memory, lost in a `Crash`. Images are named by the commit they are
built from, and `broken` (chosen once) says which do not come up. `Refuse` is any refusal before the
switch. Every `save` is one step, replacement of containers one step each. Not in it: disk write errors (a kill between any two writes is),
a disabled configuration or removed owner, humans running compose beside the supervisor, and the manual recovery after `rollback_failed`,
where the system may really stop.

### Outbox

`rows` is the table in the order of `created`; `thread`, `topic` and `projected` are `Task.thread_id`, `TopicThread` and
`TaskProjection.status_message_id`; `receipts` are the deliveries; `places` and `messages` are Discord; `gateway` is the memory of the
one coroutine `notifications`, lost in a `Crash`. A row's text is the row, so `shows` says which row's text a message
bears (a status is written over another's). The gateway's steps are its calls: `Poll`; `Start...` and `CreateTopicThread` by the
kind of the row; `SendPart`, `SaveReceipt`, `StripMarker` for each part (a part is looked for by its marker among the last 100, then by its receipt); `OpenTaskThread`; `Ack` or `Fail`. Each may fail
before its effect (`CallFails`) or after it (`Raise` in `Answered`). A message has a marker until its receipt is
saved, and may scroll out of the 100 the gateway reads, or be deleted. There is one task of v1, which talks in its own
thread, and one of v2, with a status message and topics. `Home` is where a row belongs: the address it carries, the
channel of statuses, or, if it opens a thread, the thread that its acknowledgement binds; `AckedWhole` asks for every part there.

Not in it: rows the secret scanner blocks (each try fails: a row that is never sent), the two other writers to Discord
(`Conversation`, the press handlers), who use `send_chunked` in the same way but keep nothing to retry from,
`resolve_topic` and the archiving that follows it, which nothing in the program calls, and the length of a back-off (it ends).

### Worker

`active` is the map `active` of `worker.py`, `children` that of `CodexRunner.processes`, `names` and `journal` the memory and file of
`SbxRunner`, `cleanup` the queue at `cleanup_lock`, `vms` what `sbx ls` would show. All are keyed by job, as in
the code, with the run as value: whether an entry is still *that* run's is the question. A run goes through the
phases checks, create, work, cleanup (the `finally` of `SbxRunner.run`), report (that of the request) and done. `Created`,
`Ends`, `Cancel` and the second cancel kill whatever child is registered for the job (`Killed`). A virtual machine appears during `sbx
create` (`Appears`), also when the worker was killed meanwhile (`Outlives`). The process is up, stopping after SIGTERM,
down or starting; it is killed 15 s after SIGTERM (`TooSlow`), or at any time (`Kill`); it sweeps what it remembers before
it ends and before it serves. `Terminate` may come at any time: that is what a failing sibling under the supervisor
looks like to a worker. Not in it: who may call and which role runs which kind, checked before all of this; commands inside
a virtual machine and their results; the container mode of `CodexRunner`; `sbx` itself, which is marked external.

### DiscordChange and Approval

`changes` is the table `DiscordChange`, with `by` the interaction that approved; `guild` the channels a plan may name (one to be
created, one whose topic is to be edited); `proposal` the run of `propose_sre_change` in hand; `click` the handlers of
presses, each at its next call: `Approve`, `Read`, `Authorize`, `Execute`, `Complete` or `Fail`. `arrives` says whether the call's
answer does; `Lost` is a call that is never carried out. `Touch` is a person changing the guild, `Expire` the end of the
approval's hour. `cache` is what the gateway's discord.py client takes to be in the guild: `current_sre_target` looks there (`Seen`) and asks Discord
only for a channel that is not in it. `Notice` is the arrival of Discord's events, at any later time; several changes of a place arrive
as the last of them. `seen` is what `Read` returned; for the properties only, `behind` says that this was not what was in the guild then, and
`fresh` that nobody has changed the place since. `Approval` has for each change a phase, proposed to made or dropped, and what was reported; the refinement maps
`made` and the record's status to it. Only one kind of create and one of edit stand for the six plans. Authentication of
the owner and the shape of a plan come first and are left out; so is what `propose_sre_change` does after the record is made and the button posted, which leaves both.

### Conversation

`turns` maps a question (the dialogue it belongs to, its depth, the role asked) to how far it is: waiting for a slot, calling,
posting, over, and what it said. `Answered` lets a role say anything the checks of `api.py` and `coordination.py` pass: reply,
continue (bounded), recommend a task, a plan, hand off. `Failed`, `Unavailable` (502 or 503: the stand-in is asked once) and `PostFails`
are the ways a turn goes wrong. `Gather` waits for all the initial turns, registers one task from what they recommend and
groups what they hand off by recipient; `Follow` and `Resume` are the rounds of a dialogue. `shown` and `swallowed` are keyed
by event id: an answer whose event id is known is taken by `send_chunked` for one already sent.

Not in it: what is said; catch-up of messages missed while the gateway was away; the attempts within one turn, which hold its slot;
task registration failures beyond not registering.

## 3. Runs

| Run | Instance | Result | Shows |
|---|---|---|---|
| `scheduler` | 1 v1 and 1 v2 task, 1 repository, a writer, consultations and reviews of a privileged role, live limits | 2,419 k states | `OneValidWriter`, `WithinConcurrency`, `DeployQuiet`, `StoppedKeepsJobs` |
| `scheduler_failover` | 1 task, 2 processes, revisions of the identity, fences to 3 | 3,651 k | `TypeOK`, `OneValidExecution`, `WriterHoldsLease`, `OneValidWriter`, `TokensSound` |
| `scheduler_stall` | 2 v2 tasks, 1 repository, 2 writer roles, 1 process | violated | `OneWriterAtATime`: disagreement 1 |
| `workflow` | 7 jobs, 2 plans, 5 commits, 1 trouble, 1 revision each | 948 k | `TypeOK`, `MergedAsReviewed`, `PublishesApproved` |
| `workflow_trouble` | 5 jobs, 1 plan, 3 commits, 2 troubles | 586 k | `PublishedOnce`, `StopHolds` |
| `workflow_plan` | 9 jobs, 2 plans, revise and pause | violated | `MergedPlanApproved`: disagreement 2 |
| `deployment` | 3 services, 2 merges, 2 deployments, 2 troubles | 149 k | five safety properties, `TypeOK` and `Settles` |
| `outbox` | 3 rows (one of two parts, with files), pages of 2, 1 topic, 2 troubles | 686 k | `TypeOK`, `PostedOnce`, `OneTaskThread`, `AckedWhole`, `Delivered` |
| `worker` | 2 jobs, 2 runs, capacity 1 or 2, 2 cancels, 3 troubles | 208 k | `TypeOK`, `Journalled`, `FinallyRemoved`, `OneAtATime`, `Recovers` |
| `discord_change` | 2 messages, 2 proposals, 2 presses, 1 touch, 1 trouble | 294 k | `TypeOK`, `OverwritesApproved`, `KeepsPromise`, `Concluded` |
| `discord_change_fetch` | as `discord_change` | violated | `Refetched`: disagreement 3 |
| `conversation` | 3 roles, 2 asked at most, 1 continuation, 2 slots | 99 k | `TypeOK`, `OwnAnswersShown`, `Ends` |

**Bounds.** Two tasks on one repository are the least in which one writer can wait for another; two jobs let
one be replaced by the next, and fences to 3 let a job lapse and be claimed again under the same token
table. Two processes are enough for one to act after losing its leadership. In `scheduler_failover`
a lease of two units has an interior in which it can be renewed, an expiry instant and an after; in `scheduler` it is one unit, so that renewing
at the expiry instant is all there is. `scheduler` has limits of two normal jobs and one privileged: with two jobs the first does not bind (it would keep a second
writer away before the repository lease does), the second does. That both hold for all limits is proved. In `workflow` seven
jobs, five commits and one revision of each kind reach the merge after a rejected plan or after a fix, with one
intervention (edit, push, base move, pause, crash, lost answer, silence...) at any point; `workflow_trouble`
takes the shortest way to the merge (five jobs) with any two of them: where one costs a job, the retry's stands in
the place of the last review's, and the instance ends before the merge. `MaxEdits` bounds how often the Issue changes, by the owner's copying of a
proposal or by others; a task without interventions needs one copy, and the four allow each to be repeated. In `deployment` two merges and two operations cover
a release superseded by another, each healthy or broken, with any two crashes or failures of the good ones. A
retry of a retry beyond these repeats the same rows with higher counters, on which nothing branches but the limits.

In `outbox` three rows are one more than a page holds, and each of the four kinds appears with each of the others before or after it;
the second may be long and have files. Two troubles let a lost answer meet the crash or the deletion that hides it. In
`worker` two runs are of one job or of two, on a worker with one slot or two; three troubles let a removal be refused,
the worker be stopped and its sweep fail. In `discord_change` two messages compete for one channel, two presses for one message; a
touch or another message's change may come in between anywhere, and is noticed anywhere after. The proofs cover all bounds there. In `conversation`
two initial turns may hand off to the third, which may question both, in two rounds; one slot fewer than turns makes them wait.

Deadlock is not checked: the bounded instances stop when their counters are used up, and a merged or
cancelled task, a finished release or a lost one, an empty outbox, a conversation that is over really stop.

**Fairness.** `Scheduler` and `WorkflowV2` have none: all that is checked of them is safety, and an action property
says nothing about when. The others assume weak fairness only of what the code goes on doing by itself, and
bound the failures (`MaxTrouble`): nothing fails for ever.

* `Deployment`: the supervisor's next step, by the `while True` of `deploy_supervisor.main` (lines 268-277) and launchd's `KeepAlive` and
  `RunAtLoad` (`install_deploy_supervisor.py:37`). Every deployment that was begun settles, unless its rollback failed.
* `Outbox`: the gateway's loop, which never ends and is restarted when it dies (`restart: unless-stopped`), and the end
  of each back-off. `Delivered` names the two ways in which the code really blocks (`Clogged`, `Poisoned`) and
  the rows it passes over (`Stranded`); section 4 describes them.
* `Worker`: progress of runs, removals and the process: every command has a timeout, a stopping process is killed after 15
  seconds, and launchd starts it again.
* `DiscordChange`: each handler's next call, which has a timeout. Not a press, not a proposal. `Concluded` excludes by
  name what the code does not recover from: a crash of the gateway, and a second lost call.
* `Conversation`: its next step, all of whose calls have timeouts.

## 4. Where code and documents disagree

Backed by a run:

1. `scheduler_stall`: the stall recovery takes a writer for stalled that has just been claimed after a long wait in the queue, and deletes its repository lease
   without waiting for the task lock (`engine.py:1592-1604`). An execution that has read its job before then passes the fence beside the
   next writer of the repository, where the runbook promises one (`docs/runbooks/workflow-v2.md:58`). A call already made under the task lock is
   not part of this: the recovery's write of the task row, and with it the commit of the cancellation, waits for that lock.
2. `workflow_plan`: the merge gate tests that a plan approval exists, not which plan it approved
   (`policy.py:170`). After a revision in the window between a finished draft and its registration, a later pause and
   resume take the second plan past its approval into review and merge.
3. `discord_change_fetch`: a press is checked against the gateway's cache (`adapters/discord.py:572-578`), where gate 6 of ADR 0003
   (`docs/adr/0003-discord-sre-safety.md:76`) has the value fetched again right before the execution. An edit whose event has not arrived
   when the owner presses is overwritten by a change that was approved for what was there before it.

Seen while modelling, in the code read and not backed by a run:

* *Scheduler.* The stall recovery writes from rows it has not locked (`engine.py:1565-1580`, `1605-1617`), so that a task paused
  or cancelled in between gets a new job, old data or the state Blocked, against `db.py:1` and `docs/runbooks/operations.md:5`
  (the model does all three; `StoppedKeepsJobs` and `StopHolds` except them by name). Consultations of the privileged role are admitted
  as `read_only` and counted as `privileged` (`engine.py:156-170`), so they run in any number, where `docs/runbooks/setup.md:30`
  promises 4 + 1 (`WithinConcurrency` says what is kept). A job cancelled between `Engine.current`'s two reads (`engine.py:107`, `110`) comes
  back as done, failed or queued; what protects the task there is the comparison of identity and task state under the
  lock (`StoppedKeepsJobs`, `OneValidExecution` hold). The "once" of the stall recovery is keyed by
  `state_version`, which the claim of an implementation raises (`engine.py:260`, `1605`).
* *Workflow.* The merge's second transaction reads the pull request again, not the Issue or the plan (`engine.py:1463-1470`). A crash
  between a job's last transaction and the registration of its result leaves the task without a job
  (`engine.py:909-911`, `962-964`, `989-991`; the recovery at `1585` does not see it). A reconciliation that reads GitHub between a
  publication and its recording takes the commit for a foreign one; a merge whose answer was lost is followed by a reconciliation
  that sees the Issue closed by the merge as an edit; a v2 task resumed without a pull request is given a job of v1, which claim
  cancels, and stays in Clarifying; the phase saved for a retry (`retry_state`, `engine.py:1257`) outlives every way back to work but
  the retry itself, so a later retry of another job returns the task to it (`service.py:373`); the comparison of `review_approval` in the merge gate proved redundant in the
  runs, since every change of the identity already clears it.
* *Outbox.* A row queued for a v2 task before it has a thread (`delegations.py:137`, `workspaces.py:158`) keeps an empty `thread_id` and is
  passed over at every poll for ever; a page of such rows lets nothing else through. A row whose artifact files are
  gone fails every poll (`api.py:710-728`). The gateway does not look at the status of its acknowledgement. A status that
  backed off overwrites a newer one when its time comes. Cancelling a v2 task marks its rows as sent; the one in
  the gateway's hands is posted all the same. Each try to open a topic makes another thread (`adapters/discord.py:1320`),
  and a status that wants attention another message, where ADR 0009 speaks of one. A status whose message was written over by another
  status, and then deleted, is posted again when its own acknowledgement was lost, or is acknowledged with a message that no longer shows it.
* *Worker.* When the removal of a virtual machine is refused twice and the job is run again, its record is overwritten,
  although the runbook of the launcher promises that records are kept. On a worker of capacity 4 two runs of one job
  share their entries (`Entangled` in the module): the first to end takes the slot, the child and the name of the other. An `sbx create` that
  outlives a worker killed by SIGKILL may make its virtual machine after the next worker's sweep has found none and dropped the record
  (`adapters/sbx.py:211-216`; `Outlives`): nothing removes that one, where the runbook has what was recorded removed at the
  restart (`docs/runbooks/sbx-launcher.md:94-96`).
* *Discord administration.* A change that is executing when the gateway dies stays so. A failure before the release leaves an
  approved change that no other press can take up until it expires. The status of `complete` is ignored. A change
  that was made may be reported as failed, when only its answer was lost.
* *Conversation.* A plan of the SRE is put forward only if the role was asked by the name `sre` (`adapters/discord.py:1135`), and the coordinator is
  offered `security_sre` (`api.py:324-327`): the answer ends with the line that it waits for the owner's approval (`discord_delivery.py:75`), and nothing does.
  `adapters/discord.py` runs two rounds of a dialogue, and the recipient is never asked after the second, while
  `docs/acceptance.md:19` promises two round trips and then a final answer, and the endpoint accepts `handoff_round = 2`. A stand-in
  and an initial turn of its role share an event id, and so do two recipients' questions to one role in one round: the second answer
  is taken for the first and not shown. Three requests for one recipient are rejected (422) after they were
  all accepted as handoffs, and so are two of one role (409): that dialogue never happens. Names are compared before aliases are resolved. A
  task recommended in a later round is dropped, as is every text said before a continuation.

## 5. Proofs

Each proof module shows an inductive invariant `IInv` in three facts (it holds initially; every step keeps it; it
implies what is claimed), with one lemma per action and one step per conjunct under it. Each `IInv` was first checked
by TLC on the runs' instances. The theorems hold for all constants that the module's `ASSUME` allows.

| Module | For any | Proves of the runs' properties |
|---|---|---|
| `SchedulerProofs` | tasks, repositories, roles, classes, limits, lease length | `TypeOK`, `WriterHoldsLease`, `OneValidExecution`, `DeployQuiet`, `WithinConcurrency`, `StoppedKeepsJobs`, `OneValidWriter`, `TokensSound`; `WritersExclude`: two running writers of one repository with live leases are one job |
| `WorkflowV2Proofs` | jobs, plans, commits, revisions, troubles | `TypeOK`, `PublishedOnce`, `MergedAsReviewed` (all `Undisturbed`, below), `StopHolds` |
| `WorkflowV2GrantProofs` | as above | `PublishesApproved` (`Undisturbed`) |
| `DeploymentProofs` | services, merges, deployments, crashes and failures | `TypeOK`, `Installed`, `SwitchesQuietly`, `HonestOutcome`, `NewerOnly`, `HaltsAfterLoss` |
| `OutboxProofs` | topics, rows, page size, long and illustrated rows, troubles | `TypeOK`, `OneTaskThread`, `PostedOnce`, `AckedWhole` |
| `WorkerProofs` | jobs, runs, capacities, cancels, troubles | `TypeOK`, `Journalled`, `FinallyRemoved`, `OneAtATime` |
| `DiscordChangeProofs` | messages, presses, contents | `TypeOK`, `OverwritesApproved`, `KeepsPromise` (the refinement of `Approval`) |
| `ConversationProofs` | roles with finitely many names, slots, turns | `TypeOK`, `OwnAnswersShown` |

**Scheduler.** None of the claims is inductive. `OneValidExecution` speaks of what an execution *would* pass, and
that depends on what it read, when, and on what has happened to the row since. `IInv` adds three facts about tokens, also
checked by `scheduler_failover` as `TokensSound`: a token's fence never exceeds its job's and no two tokens of a job share one
(`TokenFences`); a read that is still unexpired belongs to the running job as it is now, with no later lease
than the job's, or to a job that was invalidated since (`TokenReads`); and of one job at most one execution holds such a read
(`OneArmed`). The first makes the reading execution unique, the second keeps its read valid through every step of others:
only a lapse lets claim take the job away, and by then the read has lapsed too. The stall recovery sets a fence from what it read; `ReadFences` says that no token is ahead of that, since claim does not run meanwhile. The third turns
that into exclusion of the stale ones. `WriterHoldsLease` needs that job and repository lease are granted and renewed together and tick
together; `DeployQuiet` that claim and the supervisor's claim test each other's table in one transaction each.

**Scheduler, the guards.** `RowStep` says once what any step may do to a row it does not start: end, cancel, queue or renew it.
`StoppedKeepsJobs` excepts the recovery's write (`WrittenOver`), `OneValidWriter` the jobs it has written over: the run `scheduler_stall` shows that without the second exception `OneValidWriter` is false, and section 4 how a write from an old read gives a stopped task new work.
`WithinConcurrency` follows because only a claim makes a job run, one at a time, and its admission counts the jobs that run then.
`OneValidWriter` needs the case that `WriterHoldsLease` leaves out, a writer whose job was cancelled under it: it holds no repository lease any
more, but what it read has a deadline no later than the lease it had, and the next writer's job was not running before.

**Workflow, the stall recovery.** The theorems about `WorkflowV2` but `StopsHold` hold for the runs in which what a stall recovery has read still stands when it
writes (`Undisturbed`: the task's row, the open jobs, no registration under way). A recovery that writes an older row over a newer one brings
back a head, a plan and approvals that the branch and the tables have left behind, and almost nothing the invariant says is true after it. That the
properties survive that too, is checked by TLC: the runs `workflow` and `workflow_trouble` have no such condition, and the recovery writes
over whatever came between. `StopsHold` is proved without it: it needs only `Shape`, which is the part of the types that the recovery cannot disturb.

**Workflow.** Jobs outlive the state they were queued in, and the invariant does not say which are open: a stale retry phase lets
them stand side by side. It says what a job's row tells of its execution (`JobRowsTell`) and what has to be there before a job of a kind exists
(`Grown`). `PublishedOnce` rests on `Branch`: a job that has put a commit on the branch either knows it, and publishes no more, or the
commit lies above the task's head, where at most one commit of any job lies; there `GitHub.publish` finds its key again instead of
committing, and any other job is refused, since the head it pins is not the branch's. `MergedAsReviewed` rests on `Approvals` (an approval in the task's row is one of the
ledger) and, for the review, on the merge approval being of the identity the review was of. A review without a plan, which resume can ask
for, would pass that with no review of its head on record; `Works` shows that it is of a head without an implementation, whose pull request is still a draft and not
merged. `StopHolds` needs no invariant beyond `Shape` and guards, each of which is shown, action by action, to be closed while the
task is stopped, whatever was read before; the recovery alone has none, and may put Blocked over a stop.

**Workflow, the grants.** A grant names a text and a version, and a job pins both, so `PublishesApproved` needs that neither comes back. `GInv`, shown on top of
`IInv`, says so: a text is named by the job that wrote it and registered once (`Named`, `Fresh`), the task's plan is the latest and has its base (`Versioned`),
and a plan is reviewed once (`ReviewedOnce`), so that its verdict cannot be that on an earlier one. `Granting` is then what carries over: an implementation
that was prepared under the task's requirements and plan was prepared under the grants of both, which are never withdrawn. The hard case is a fix that a review asked
for before there was a plan: it pins none, and the fence matches it with any (`Bare`). Its requirements are confirmed and are not offered again (`Confirmations`);
while it is current no second plan can be registered unless the first was rejected (`OnePlan`); and it does not find a later plan's files at its head (`Files`), so it
is prepared for the first plan only, once that is approved.

**Deployment.** `Installed` compares a file with containers, which differ during every switch. `IInv` follows the four places that know of a
deployment (row, journal, the supervisor's memory at each stage, containers): `Journal` says the one running row is the journal's,
`Memory` that the supervisor knows what is journalled except for what it is about to save, `Switch` how far override, images and baseline
have come at each stage, `Baseline` that outside of a switch the baseline is a release that succeeded. A crash loses only memory, and
`resume` re-enters a stage whose facts the journal alone implies.

**Outbox.** The invariant says what rows, receipts, messages and the gateway's memory tell of each other. Rows, places and messages only come
about, so most of what was true stays true (`Grows`, `BatchKept`, `PostedKept`, `NamedKept`); what is at stake is one message. `Hand` says what
the gateway has in its hands at each step of a delivery (place, part, a message that bears it, the parts before it): `AckedWhole` is `Hand` at the step
`ack`. `Copies` says why there can be two messages of one part: the older was deleted, or it scrolled out of sight with its marker on and no receipt.
`AckedWhole` also says where: `EveryAddress` shows that a message is posted where its row is addressed, although the gateway
read the address long before, since a row is addressed once, by the acknowledgement of the row that opens its thread. `Seeds` orders the threads
of a task by the seeds they hang on, so that `OneTaskThread` is `Copies` for seeds.

**Worker.** The queue at the cleanup lock is what the proof is about: every call in it stems from a run that ended (`Calls`), once per place (`Once`), and a
run that waits for the lock has a call (`Queued`). With one slot, calls of an earlier job stand before the one its run waits for (`Ordered`), hence
`OneAtATime`. For a job whose runs did not meet (`Tangled` says which may), memory, journal and machine are those of one run
(`Remembers`, `Undisturbed`, `Removes`, `OnRecord`).

**Discord administration.** That a change is made once, by the press that was approved, is spread over the record and the handler. `Records` bounds
how often a plan was carried out by the status of its record; `Handlers` says that a handler beyond its approval is
that of the press in `by`, and which status and count it finds at each step (a handler about to execute owns a record that is
executing and whose plan was never carried out); `Sight` that one whose look was not `behind` and is still `fresh` (`Informed`) knows what is at its place. Since `by` is
one press and a press has one handler, no other handler can move the record meanwhile. The refinement then maps each step to one
of `Approval` or to a stutter: only `Execute` is `Make`, and `Handlers` gives it the phase "released".

**Conversation.** Every answer heard lies before the one its turn is at: in an earlier round, of the role that a stand-in
answers for, or an earlier continuation (`Before`). `OwnAnswersShown` follows since a turn posts what it is at. That turns move on only when their dialogue does is
`Rounds` and `LaterRounds`.

**What proving corrected in the models.** `StoppedKeepsJobs` had left out that a consultation may be asked for on a stopped task and is cancelled by the next
stop; TLC's instance submitted none (it does now). `PostedOnce` and `AckedWhole` did not know that a status message may be written over by another status
and then deleted, which takes four rows; they name these cases now (`Untraceable`, `WrittenOver`), and
`StripMarker` compares whose marker it strips, as `adapters/discord.py:193` does. In `WorkflowV2` a failed job stayed where its execution had come to, though a retry
executes it from the start (`engine.py:1264`); now `Closed` puts it back. The recipients of handoffs in `Conversation` leaned on the precedence of `UNION`, and its
proof needs what `roles.py` provides: finitely many names, none its own stand-in.

**Only model-checked.** Liveness under fairness (`Settles`, `Delivered`, `Recovers`, `Concluded`, `Ends`) and anything with ENABLED are out of the provers' reach and
stay with TLC, as do the violations of section 4. Every other property of the passing runs is a theorem, those of `WorkflowV2` but `StopHolds` under `Undisturbed`. The modules use no RECURSIVE operators.

## 6. Plan

Every safety property of the passing runs is proved, those of `WorkflowV2` but `StopHolds` for runs in which what the stall recovery read still stands.
What is left, in order of what matters most:

1. An abstract specification `Gates` of what a task promises (draft, plan, implement, review, merge, each step
   only after its approval), and `WorkflowV2` shown to implement it where it does (`workflow_plan` shows where it does not).
2. The specification chain of v1; restart of cancelled tasks with the closing of Issues; the limits of consultations.
3. `MergedAsReviewed` and `PublishesApproved` proved without `Undisturbed`: the part of the invariant that survives a stale write.
4. Liveness of a reduced `WorkflowV2` (no trouble): a task whose owner answers is merged or blocked.

### Not modelled

The public GitHub reader, explanations and renderer, prompts, personas and redaction are text in and text out: no other
state depends on how they do it. Probe, smoke, backup and provisioning scripts are run by hand. Authentication, the
CLI and schema changes have no behaviour over time. Row locks below a transaction, and so the deadlocks the
database resolves by aborting one of two transactions, are below the grain of the modules.
