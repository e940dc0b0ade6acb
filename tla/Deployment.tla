------------------------------ MODULE Deployment ------------------------------
(***************************************************************************)
(* An approved release of the orchestrator's own containers: the Operation *)
(* row the owner approves (agent_team/deployments.py), and the supervisor  *)
(* on the host that installs it (scripts/deploy_supervisor.py), with its   *)
(* journal, its baseline and the compose override on disk.                 *)
(*                                                                         *)
(* The two share nothing but `docker compose exec' into the orchestrator,  *)
(* one of the containers being replaced.  The supervisor may be killed     *)
(* between any two of its durable writes; launchd starts it again, and     *)
(* what it knew beyond its files is gone.                                  *)
(***************************************************************************)
EXTENDS Integers, Sequences, FiniteSets

CONSTANTS
    Services,        \* SERVICES
    Orchestrator,    \* the one the supervisor has to reach
    MaxShas,         \* bound: merges to the base branch
    MaxOps,          \* bound: deployments proposed
    MaxTrouble       \* bound: crashes, and failures of good images

ASSUME DeploymentAssumption ==
    /\ Orchestrator \in Services
    /\ MaxShas \in Nat \ {0} /\ MaxOps \in Nat \ {0} /\ MaxTrouble \in Nat

(* Merge commits in their order; 0 is the baseline a human installed.  An
   image is named by the commit it is built from.                          *)
Shas == 0..MaxShas
Uniform(image) == [s \in Services |-> image]
Images == [Services -> Shas]

TERMINAL == {"succeeded", "rolled_back", "failed", "rollback_failed"}
Statuses == {"awaiting_approval", "queued", "running"} \cup TERMINAL
Operations == [sha: Shas, status: Statuses, expired: BOOLEAN]

(* The supervisor's record of the deployment in hand.                      *)
Records == [id: 0..MaxOps, phase: {"none", "preflight", "switching", "complete"},
            status: {"none"} \cup TERMINAL, old: Images, oldSha: Shas]
NoRecord == [id |-> 0, phase |-> "none", status |-> "none", old |-> Uniform(0), oldSha |-> 0]

(* Where a tick stands.                                                    *)
Stages == {"idle", "claimed", "preflight", "checked",
           "install", "installing", "installed", "baselined",
           "undo", "undoing", "undone", "restored",
           "report", "receipt", "unlink"}

VARIABLES
    head,        \* the base branch; the tasks merged so far are 1..head
    ops,         \* Operation rows "deployment:*" by id
    busy,        \* a Job is running
    images,      \* of the containers
    broken,      \* commits whose image does not come up
    journal, baseline, override, last,   \* files of the supervisor
    record, resumed, stage,              \* its memory
    trouble

controller == <<head, ops, busy>>
disk == <<journal, baseline, override, last>>
memory == <<record, resumed, stage>>
vars == <<controller, images, broken, disk, memory, trouble>>

Troubled == trouble < MaxTrouble /\ trouble' = trouble + 1
Calm == UNCHANGED trouble
-----------------------------------------------------------------------------
(* agent_team/deployments.py *)

Ids == 1..Len(ops)
Of(sha) == {o \in Ids : ops[o].sha = sha}
(* task.data["deployment_id"]                                              *)
Previous(sha) == CHOOSE o \in Of(sha) : \A p \in Of(sha) : p <= o
Running == {o \in Ids : ops[o].status = "running"}

Merge == /\ head < MaxShas /\ head' = head + 1
         /\ Calm /\ UNCHANGED <<ops, busy, images, broken, disk, memory>>

Propose(sha) ==
    /\ sha \in 1..head /\ Len(ops) < MaxOps
    /\ Of(sha) # {} =>
          LET previous == ops[Previous(sha)]
          IN /\ previous.status \notin {"queued", "running", "succeeded"}
             /\ previous.status = "awaiting_approval" => previous.expired
    /\ ops' = Append(ops, [sha |-> sha, status |-> "awaiting_approval", expired |-> FALSE])
    /\ Calm /\ UNCHANGED <<head, busy, images, broken, disk, memory>>

Approve(o) ==
    /\ ops[o].status = "awaiting_approval" /\ ~ops[o].expired /\ o = Previous(ops[o].sha)
    /\ ops' = [ops EXCEPT ![o].status = "queued"]
    /\ Calm /\ UNCHANGED <<head, busy, images, broken, disk, memory>>

Expire(o) ==
    /\ ~ops[o].expired /\ ops[o].status \notin TERMINAL
    /\ ops' = [ops EXCEPT ![o].expired = TRUE]
    /\ Calm /\ UNCHANGED <<head, busy, images, broken, disk, memory>>

(* Mutant: jobs do not wait for a deployment.                              *)
StartJobAnyway == /\ ~busy /\ busy' = TRUE
                  /\ Calm /\ UNCHANGED <<head, ops, images, broken, disk, memory>>
(* Engine.claim, which waits for a deployment, and the end of the last job. *)
StartJob == /\ ~busy /\ Running = {} /\ busy' = TRUE
            /\ Calm /\ UNCHANGED <<head, ops, images, broken, disk, memory>>
EndJob == /\ busy /\ busy' = FALSE
          /\ Calm /\ UNCHANGED <<head, ops, images, broken, disk, memory>>

Controller == \/ Merge \/ StartJob \/ EndJob
              \/ \E sha \in Shas : Propose(sha)
              \/ \E o \in Ids : Approve(o) \/ Expire(o)
-----------------------------------------------------------------------------
(* Supervisor.tick: a new deployment, up to the switch *)

Reachable == images[Orchestrator] \notin broken

Take(o, again) ==
    /\ record' = [NoRecord EXCEPT !.id = o, !.phase = "preflight"]
    /\ resumed' = again /\ stage' = "claimed"
(* Mutant: a deployment that is running already is nobody's.               *)
ClaimQueued ==
    /\ stage = "idle" /\ journal = NoRecord /\ last # "rollback_failed"
    /\ Reachable /\ ~busy /\ Running = {}
    /\ \E o \in Ids :
         /\ ops[o].status = "queued" /\ \A p \in 1..(o - 1) : ops[p].status # "queued"
         /\ IF ops[o].expired
            THEN ops' = [ops EXCEPT ![o].status = "failed"] /\ UNCHANGED memory
            ELSE ops' = [ops EXCEPT ![o].status = "running"] /\ Take(o, FALSE)
    /\ Calm /\ UNCHANGED <<head, busy, images, broken, disk>>
(* bridge "claim": a deployment that is running already is handed out again. *)
Claim ==
    /\ stage = "idle" /\ journal = NoRecord /\ last # "rollback_failed"
    /\ Reachable /\ ~busy
    /\ IF Running # {}
       THEN \E o \in Running : Take(o, TRUE) /\ UNCHANGED ops
       ELSE \E o \in Ids :
              /\ ops[o].status = "queued" /\ \A p \in 1..(o - 1) : ops[p].status # "queued"
              /\ IF ops[o].expired
                 THEN ops' = [ops EXCEPT ![o].status = "failed"] /\ UNCHANGED memory
                 ELSE ops' = [ops EXCEPT ![o].status = "running"] /\ Take(o, FALSE)
    /\ Calm /\ UNCHANGED <<head, busy, images, broken, disk>>

Begin == /\ stage = "claimed" /\ journal' = record /\ stage' = "preflight"
         /\ Calm /\ UNCHANGED <<controller, images, broken, baseline, override, last, record, resumed>>

(* Mutant: the candidate need not be the head of the base branch.           *)
PreflightOfAny ==
    /\ stage = "preflight" /\ ~resumed /\ ~ops[record.id].expired
    /\ \A s \in Services : images[s] \notin broken
    /\ ops[record.id].sha # baseline
    /\ record' = [record EXCEPT !.old = images, !.oldSha = baseline]
    /\ stage' = "checked"
    /\ Calm /\ UNCHANGED <<controller, images, broken, disk, resumed>>
(* The running images and the baseline are captured; the candidate has
   passed its checks and is the head of the base branch.                   *)
Candidate == ops[record.id].sha
Preflight ==
    /\ stage = "preflight" /\ ~resumed /\ ~ops[record.id].expired
    /\ \A s \in Services : images[s] \notin broken
    /\ Candidate = head /\ Candidate # baseline
    /\ record' = [record EXCEPT !.old = images, !.oldSha = baseline]
    /\ stage' = "checked"
    /\ Calm /\ UNCHANGED <<controller, images, broken, disk, resumed>>

Switching ==
    /\ stage = "checked" /\ ~ops[record.id].expired /\ images = record.old
    /\ record' = [record EXCEPT !.phase = "switching"]
    /\ journal' = record' /\ stage' = "install"
    /\ Calm /\ UNCHANGED <<controller, images, broken, baseline, override, last, resumed>>

Complete(status) ==
    /\ record' = [record EXCEPT !.phase = "complete", !.status = status]
    /\ journal' = record' /\ stage' = "report"

(* Any refusal before the switch: an approval that is stale or was handed
   out before, a check, the build, busy workers, the backup.               *)
Refuse == /\ stage \in {"preflight", "checked"} /\ Complete("failed")
          /\ Calm /\ UNCHANGED <<controller, images, broken, baseline, override, last, resumed>>
-----------------------------------------------------------------------------
(* Supervisor.switch, for the candidate and for the images before it *)

Target == IF stage \in {"install", "installing"} THEN Uniform(Candidate) ELSE record.old

SaveOverride ==
    /\ stage \in {"install", "undo"} /\ override' = Target
    /\ stage' = IF stage = "install" THEN "installing" ELSE "undoing"
    /\ Calm /\ UNCHANGED <<controller, images, broken, journal, baseline, last, record, resumed>>

(* docker compose up: one container after the other.                       *)
Replace(s) ==
    /\ stage \in {"installing", "undoing"} /\ images[s] # Target[s]
    /\ images' = [images EXCEPT ![s] = Target[s]]
    /\ Calm /\ UNCHANGED <<controller, broken, disk, memory>>

Healthy == \A s \in Services : images[s] \notin broken
Verify ==
    /\ stage \in {"installing", "undoing"} /\ images = Target /\ Healthy
    /\ stage' = IF stage = "installing" THEN "installed" ELSE "undone"
    /\ Calm /\ UNCHANGED <<controller, images, broken, disk, record, resumed>>

(* The second look at the health, then the baseline, then the outcome.     *)
SaveBaseline ==
    /\ \/ stage = "installed" /\ Healthy /\ baseline' = Candidate /\ stage' = "baselined"
       \/ stage = "undone" /\ baseline' = record.oldSha /\ stage' = "restored"
    /\ Calm /\ UNCHANGED <<controller, images, broken, journal, override, last, record, resumed>>

Succeed == /\ stage = "baselined" /\ Complete("succeeded")
           /\ Calm /\ UNCHANGED <<controller, images, broken, baseline, override, last, resumed>>
(* Mutant: an outcome that the controller does not know.                   *)
RollBackUnknown ==
    /\ stage = "restored" /\ Complete("aborted")
    /\ Calm /\ UNCHANGED <<controller, images, broken, baseline, override, last, resumed>>
RollBack == /\ stage = "restored" /\ Complete("rolled_back")
            /\ Calm /\ UNCHANGED <<controller, images, broken, baseline, override, last, resumed>>

(* Mutant: what the failed switch has replaced stays.                      *)
SwitchFailsAsItIs ==
    /\ stage \in {"install", "installing", "installed"} /\ Complete("failed")
    /\ Troubled /\ UNCHANGED <<controller, images, broken, baseline, override, last, resumed>>
(* A switch fails, for its image is broken or for no reason of its own: the
   candidate's is undone, and what undoes it is not tried again.           *)
Fails == \/ ~Healthy /\ images = Target /\ Calm
         \/ Troubled
SwitchFails ==
    /\ stage \in {"install", "installing", "installed"} /\ Fails
    /\ stage' = "undo"
    /\ UNCHANGED <<controller, images, broken, disk, record, resumed>>
UndoFails ==
    /\ stage \in {"undo", "undoing", "undone"} /\ Fails
    /\ Complete("rollback_failed")
    /\ UNCHANGED <<controller, images, broken, baseline, override, last, resumed>>
-----------------------------------------------------------------------------
(* Supervisor.tick: a journal found, and the receipt *)

(* Mutant: an interrupted switch is taken for a success.                   *)
RecoverForward ==
    /\ stage = "idle" /\ journal # NoRecord
    /\ IF journal.phase = "complete"
       THEN record' = journal /\ UNCHANGED journal
       ELSE /\ record' = [journal EXCEPT !.phase = "complete",
                            !.status = IF journal.phase = "switching" THEN "succeeded" ELSE "failed"]
            /\ journal' = record'
    /\ stage' = "report" /\ resumed' = FALSE
    /\ Calm /\ UNCHANGED <<controller, images, broken, baseline, override, last>>
(* Supervisor.recover on what the journal of an earlier tick says.         *)
Recover ==
    /\ stage = "idle" /\ journal # NoRecord
    /\ CASE journal.phase = "switching" ->
              record' = journal /\ stage' = "undo" /\ UNCHANGED journal
         [] journal.phase = "complete" ->
              record' = journal /\ stage' = "report" /\ UNCHANGED journal
         [] OTHER ->
              /\ record' = [journal EXCEPT !.phase = "complete", !.status = "failed"]
              /\ journal' = record' /\ stage' = "report"
    /\ resumed' = FALSE
    /\ Calm /\ UNCHANGED <<controller, images, broken, baseline, override, last>>

(* Mutant: the journal goes as soon as the controller knows.               *)
ReportAndForget ==
    /\ stage = "report" /\ Reachable
    /\ ops[record.id].status \in {"running", record.status}
    /\ ops' = [ops EXCEPT ![record.id].status = record.status]
    /\ journal' = NoRecord /\ stage' = "receipt"
    /\ Calm /\ UNCHANGED <<head, busy, images, broken, baseline, override, last, record, resumed>>
(* bridge "complete": idempotent, but for a different outcome.             *)
Report ==
    /\ stage = "report" /\ Reachable
    /\ ops[record.id].status \in {"running", record.status}
    /\ ops' = [ops EXCEPT ![record.id].status = record.status]
    /\ stage' = "receipt"
    /\ Calm /\ UNCHANGED <<head, busy, images, broken, disk, record, resumed>>

SaveResult == /\ stage = "receipt" /\ last' = record.status /\ stage' = "unlink"
              /\ Calm /\ UNCHANGED <<controller, images, broken, journal, baseline, override, record, resumed>>
Unlink == /\ stage = "unlink" /\ journal' = NoRecord /\ stage' = "idle"
          /\ Calm /\ UNCHANGED <<controller, images, broken, baseline, override, last, record, resumed>>

(* Killed, or an exception that leaves the tick: only the files remain.    *)
Crash == /\ stage # "idle" /\ stage' = "idle" /\ record' = NoRecord /\ resumed' = FALSE
         /\ Troubled /\ UNCHANGED <<controller, images, broken, disk>>

Tick == \/ Claim \/ Begin \/ Preflight \/ Switching \/ Refuse
        \/ SaveOverride \/ (\E s \in Services : Replace(s)) \/ Verify
        \/ SaveBaseline \/ Succeed \/ RollBack \/ SwitchFails \/ UndoFails
        \/ Recover \/ Report \/ SaveResult \/ Unlink
-----------------------------------------------------------------------------
Init ==
    /\ head = 0 /\ ops = <<>> /\ busy = FALSE
    /\ images = Uniform(0) /\ broken \in SUBSET (Shas \ {0})
    /\ journal = NoRecord /\ baseline = 0 /\ override = Uniform(0) /\ last = "none"
    /\ record = NoRecord /\ resumed = FALSE /\ stage = "idle"
    /\ trouble = 0

Next == Controller \/ Tick \/ Crash

(* `while True' in main, under launchd's KeepAlive: a tick in hand goes on. *)
Spec == Init /\ [][Next]_vars /\ WF_vars(Tick)
-----------------------------------------------------------------------------
(* Properties *)

(* Every row, file and variable has its type.                              *)
TypeOK ==
    /\ head \in Shas /\ ops \in Seq(Operations) /\ Len(ops) <= MaxOps /\ busy \in BOOLEAN
    /\ images \in Images /\ broken \subseteq Shas
    /\ journal \in Records /\ baseline \in Shas /\ override \in Images
    /\ last \in {"none"} \cup TERMINAL
    /\ record \in Records /\ resumed \in BOOLEAN /\ stage \in Stages
    /\ trouble \in 0..MaxTrouble

Lost == journal.status = "rollback_failed" \/ last = "rollback_failed"

(* The baseline, against which the next candidate's changes are judged, and
   the compose override are what the containers run whenever no switch is
   under way, whatever was killed in between.                              *)
Installed ==
    journal.phase # "switching" /\ ~Lost =>
        images = Uniform(baseline) /\ override = Uniform(baseline)

(* Containers are only replaced for a deployment the controller knows to be
   running, while no job is.                                               *)
SwitchesQuietly ==
    [][images' # images => ~busy /\ Running = {journal.id}]_vars

(* The outcome the owner is told is what happened.                         *)
HonestOutcome ==
    [][\A o \in Ids :
        ops[o].status = "running" /\ ops'[o].status \in TERMINAL =>
          CASE ops'[o].status = "succeeded" -> images = Uniform(ops[o].sha)
            [] ops'[o].status = "rollback_failed" -> TRUE
            [] OTHER -> images = Uniform(baseline) /\ ops[o].sha # baseline]_vars

(* An approval that was given out of order never replaces a newer release.  *)
NewerOnly ==
    [][baseline' # baseline => baseline' > baseline \/ baseline' = journal.oldSha]_vars

(* After a rollback that failed nothing is deployed until a human helps.    *)
HaltsAfterLoss ==
    [][(\E o \in Ids : ops[o].status = "rollback_failed") => UNCHANGED images]_vars

(* A deployment that was begun comes to an outcome the controller knows,
   unless its rollback failed and the controller may be down.              *)
Settles ==
    \A o \in 1..MaxOps :
        o \in Running ~> (o \notin Running \/ journal.status = "rollback_failed")
=============================================================================
