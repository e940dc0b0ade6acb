-------------------------------- MODULE Worker --------------------------------
(***************************************************************************)
(* A worker on the host: the HTTP service that runs jobs (worker.py), the  *)
(* runner that gives each run a microVM of its own (adapters/sbx.py), the  *)
(* registry of its child processes (adapters/codex.py), and the supervisor *)
(* that stops and restarts it (scripts/supervise_sbx_workers.py).          *)
(*                                                                         *)
(* Everything the worker knows is keyed by the job: the request in hand,   *)
(* the child process, the name of the VM.  The controller may post a job   *)
(* again while an earlier run of it goes on, when its lease lapsed or the  *)
(* controller was restarted; a run does not end with its connection.       *)
(*                                                                         *)
(* A VM is known by the run it was named for.                              *)
(***************************************************************************)
EXTENDS Integers, Sequences, FiniteSets, SequencesExt

CONSTANTS
    Jobs,
    Capacities,   \* WORKER_CONCURRENCY of the workers considered
    MaxRuns,      \* bound: requests accepted
    MaxCancels,   \* bound: POST /cancel, and runs that outlive their answer
    MaxTrouble    \* bound: kills, and failures to remove a VM

ASSUME WorkerAssumption ==
    /\ Jobs # {} /\ Capacities \subseteq 1..4
    /\ MaxRuns \in Nat \ {0} /\ MaxCancels \in Nat /\ MaxTrouble \in Nat

VARIABLES
    capacity,
    process,    \* of the worker: up, stopping, down, starting
    runs,       \* the requests accepted so far
    active,     \* job -> run whose future is kept, 0 if none
    children,   \* job -> run whose child process is registered, 0 if none
    names,      \* job -> run whose VM is remembered, 0 if none
    journal,    \* vms.json
    cleanup,    \* cancel() calls at the cleanup lock, in their order
    vms,        \* VMs that exist
    creating,   \* `sbx create' processes that outlived a killed worker
    refused,    \* VMs that could once not be removed
    late,       \* VMs made by a process that outlived its worker
    cancels, trouble

memory == <<active, children, names, cleanup>>
vars == <<capacity, process, runs, memory, journal, vms, creating, refused, late, cancels, trouble>>

Runs == 1..Len(runs)
NoRuns == [j \in Jobs |-> 0]

(* checks: the sbx settings are looked at; create, work: a child is running *)
(* or was killed; cleanup: in the finally of SbxRunner.run; report: in that *)
(* of the request; done: its slot is given back, or its process is gone.    *)
Phases == {"checks", "create", "work", "cleanup", "report", "done"}
Live(r) == runs[r].phase # "done"
Alive == {r \in Runs : Live(r)}

TypeOK ==
    /\ capacity \in Capacities
    /\ process \in {"up", "stopping", "down", "starting"}
    /\ runs \in Seq([job: Jobs, phase: Phases, child: {"none", "running", "killed"}])
    /\ {active, children, names, journal} \subseteq [Jobs -> 0..Len(runs)]
    /\ Cardinality({j \in Jobs : active[j] # 0}) <= capacity
    /\ cleanup \in Seq([job: Jobs, run: 0..Len(runs), stage: {"cleanup", "report"}, vm: -1..Len(runs)])
    /\ vms \cup creating \cup refused \cup late \subseteq Runs
    /\ \A i \in DOMAIN cleanup : cleanup[i].vm # -1 => i = 1
    /\ process = "down" => Alive = {} /\ memory = <<NoRuns, NoRuns, NoRuns, <<>>>>
    /\ cancels \in 0..MaxCancels /\ trouble \in 0..MaxTrouble

Init ==
    /\ capacity \in Capacities
    /\ process = "up" /\ runs = <<>>
    /\ active = NoRuns /\ children = NoRuns /\ names = NoRuns /\ journal = NoRuns
    /\ cleanup = <<>>
    /\ vms = {} /\ creating = {} /\ refused = {} /\ late = {}
    /\ cancels = 0 /\ trouble = 0

host == <<vms, creating, refused, late>>
bounds == <<cancels, trouble>>

-----------------------------------------------------------------------------
(* Child processes.  Whoever ends a command or cancels a job kills the     *)
(* process that is registered for the job, whosever it is.                 *)

Killed(job, changed) ==
    [r \in DOMAIN changed |->
        IF r = children[job] /\ changed[r].child = "running"
        THEN [changed[r] EXCEPT !.child = "killed"] ELSE changed[r]]

Job(r) == runs[r].job
MakesVM(r) == runs[r].phase = "create" /\ runs[r].child = "running" /\ r \notin vms
Moved(r, phase, child) == [runs EXCEPT ![r].phase = phase, ![r].child = child]

(* The lock passes from one cancel() to the next in the order of their
   calls and at once: no command of a run comes in between.                 *)
Waiting == -1
Granted == cleanup # <<>> => Head(cleanup).vm # Waiting
Call(job, r, stage) == [job |-> job, run |-> r, stage |-> stage, vm |-> Waiting]

-----------------------------------------------------------------------------
(* POST /run                                                               *)

Slots == {j \in Jobs : active[j] # 0}
(* Mutant: one request too many.                                            *)
RunTooMany(j) ==
    /\ process = "up" /\ Len(runs) < MaxRuns
    /\ Cardinality(Slots) <= capacity
    /\ runs' = Append(runs, [job |-> j, phase |-> "checks", child |-> "none"])
    /\ active' = [active EXCEPT ![j] = Len(runs) + 1]
    /\ UNCHANGED <<capacity, process, children, names, cleanup, journal, host, bounds>>
Run(j) ==
    /\ process = "up" /\ Len(runs) < MaxRuns
    /\ Cardinality(Slots) < capacity
    /\ runs' = Append(runs, [job |-> j, phase |-> "checks", child |-> "none"])
    /\ active' = [active EXCEPT ![j] = Len(runs) + 1]
    /\ UNCHANGED <<capacity, process, children, names, cleanup, journal, host, bounds>>

(* Mutant: the name is written down when the VM is there.                   *)
NameUnsaved(r) ==
    /\ runs[r].phase = "checks" /\ Granted
    /\ names' = [names EXCEPT ![Job(r)] = r] /\ UNCHANGED journal
    /\ runs' = Moved(r, "create", "running")
    /\ children' = [children EXCEPT ![Job(r)] = r]
    /\ UNCHANGED <<capacity, process, active, cleanup, host, bounds>>
(* execute: the name of the VM is saved, then `sbx create' is started.      *)
Name(r) ==
    /\ runs[r].phase = "checks" /\ Granted
    /\ names' = [names EXCEPT ![Job(r)] = r] /\ journal' = names'
    /\ runs' = Moved(r, "create", "running")
    /\ children' = [children EXCEPT ![Job(r)] = r]
    /\ UNCHANGED <<capacity, process, active, cleanup, host, bounds>>

Appears(r) ==
    /\ MakesVM(r)
    /\ vms' = vms \cup {r}
    /\ UNCHANGED <<capacity, process, runs, memory, journal, creating, refused, late, bounds>>

(* The end of one command kills what is registered, and the next command is
   registered in its place.                                                 *)
Created(r) ==
    /\ runs[r].phase = "create" /\ runs[r].child = "running" /\ r \in vms /\ Granted
    /\ runs' = [Killed(Job(r), runs) EXCEPT ![r].phase = "work", ![r].child = "running"]
    /\ children' = [children EXCEPT ![Job(r)] = r]
    /\ UNCHANGED <<capacity, process, active, names, cleanup, journal, host, bounds>>

(* A run ends with its last command, by an error (a killed child is one, and
   so is a VM that is gone), or at its timeout.  Its finally calls cancel.  A
   command of its own that another run has replaced in the registry goes on. *)
Closed(r) ==
    /\ runs' = [Killed(Job(r), runs) EXCEPT ![r].phase = "cleanup", ![r].child = "none"]
    /\ children' = [children EXCEPT ![Job(r)] = 0]
    /\ creating' = IF children[Job(r)] # r /\ MakesVM(r) THEN creating \cup {r} ELSE creating
Ends(r) ==
    /\ runs[r].phase \in {"checks", "create", "work"} /\ Granted
    /\ Closed(r)
    /\ cleanup' = Append(cleanup, Call(Job(r), r, "cleanup"))
    /\ UNCHANGED <<capacity, process, active, names, journal, vms, refused, late, bounds>>

(* Mutant: a request that stops waiting gives its slot back at once.        *)
OverdueReleases(r) ==
    /\ runs[r].phase = "cleanup" /\ cancels < MaxCancels /\ cancels' = cancels + 1
    /\ runs' = [Killed(Job(r), runs) EXCEPT ![r].phase = "report"]
    /\ active' = [active EXCEPT ![Job(r)] = 0]
    /\ cleanup' = Append(cleanup, Call(Job(r), r, "report"))
    /\ UNCHANGED <<capacity, process, children, names, journal, host, trouble>>
(* Thirty seconds after its timeout the request stops waiting for the run,
   which stays where it is in cancel.                                       *)
Overdue(r) ==
    /\ runs[r].phase = "cleanup" /\ cancels < MaxCancels /\ cancels' = cancels + 1
    /\ runs' = [Killed(Job(r), runs) EXCEPT ![r].phase = "report"]
    /\ cleanup' = Append(cleanup, Call(Job(r), r, "report"))
    /\ UNCHANGED <<capacity, process, active, children, names, journal, host, trouble>>

(* POST /cancel/{job_id}: the run kept for the job is cancelled, which ends
   it or, if it was in its finally, lets the request go on without it.      *)
Cancel(j) ==
    LET r == active[j] IN
    /\ process \in {"up", "stopping"} /\ r # 0 /\ Granted
    /\ cancels < MaxCancels /\ cancels' = cancels + 1
    /\ \/ /\ runs[r].phase \in {"checks", "create", "work"}
          /\ Closed(r)
          /\ cleanup' = cleanup \o <<Call(j, 0, "report"), Call(j, r, "cleanup")>>
       \/ /\ runs[r].phase = "cleanup"
          /\ runs' = [Killed(j, runs) EXCEPT ![r].phase = "report"]
          /\ cleanup' = cleanup \o <<Call(j, 0, "report"), Call(j, r, "report")>>
          /\ UNCHANGED <<children, creating>>
       \/ /\ runs[r].phase = "report"
          /\ runs' = Killed(j, runs)
          /\ cleanup' = Append(cleanup, Call(j, 0, "report"))
          /\ UNCHANGED <<children, creating>>
    /\ UNCHANGED <<capacity, process, active, names, journal, vms, refused, late, trouble>>

-----------------------------------------------------------------------------
(* cancel() at the lock                                                    *)

(* What its caller goes on to.  When the first cancel is through, the finally
   of the request calls cancel again; then, however that one ends, the slot
   of the job is given back.                                                *)
SlotOf(r) == [active EXCEPT ![Job(r)] = 0]
(* Mutant: an error in the second cancel goes past the slot.                *)
ReturnsUnlessRefused(failed) ==
    LET call == Head(cleanup) IN
    IF call.run = 0 \/ runs[call.run].phase # call.stage
    THEN cleanup' = Tail(cleanup) /\ UNCHANGED <<runs, active>>
    ELSE IF call.stage = "cleanup"
    THEN /\ runs' = [Killed(call.job, runs) EXCEPT ![call.run].phase = "report"]
         /\ cleanup' = Append(Tail(cleanup), Call(call.job, call.run, "report"))
         /\ UNCHANGED active
    ELSE /\ runs' = Moved(call.run, "done", "none")
         /\ active' = IF failed THEN active ELSE SlotOf(call.run)
         /\ cleanup' = Tail(cleanup)
Returns(failed) ==
    LET call == Head(cleanup) IN
    IF call.run = 0 \/ runs[call.run].phase # call.stage
    THEN cleanup' = Tail(cleanup) /\ UNCHANGED <<runs, active>>
    ELSE IF call.stage = "cleanup"
    THEN /\ runs' = [Killed(call.job, runs) EXCEPT ![call.run].phase = "report"]
         /\ cleanup' = Append(Tail(cleanup), Call(call.job, call.run, "report"))
         /\ UNCHANGED active
    ELSE /\ runs' = Moved(call.run, "done", "none")
         /\ active' = SlotOf(call.run)
         /\ cleanup' = Tail(cleanup)

(* The name is looked up under the lock.                                    *)
Grant ==
    /\ cleanup # <<>> /\ Head(cleanup).vm = Waiting
    /\ LET vm == names[Head(cleanup).job] IN
       IF vm = 0
       THEN Returns(FALSE)
       ELSE /\ cleanup' = [cleanup EXCEPT ![1].vm = vm]
            /\ UNCHANGED <<runs, active>>
    /\ UNCHANGED <<capacity, process, children, names, journal, host, bounds>>

(* `sbx rm --force' has removed the VM, or found none; the entry of the job
   goes, in memory and on disk.                                             *)
Removed ==
    /\ cleanup # <<>> /\ Head(cleanup).vm \notin {Waiting, 0}
    /\ vms' = vms \ {Head(cleanup).vm}
    /\ names' = [names EXCEPT ![Head(cleanup).job] = 0] /\ journal' = names'
    /\ Returns(FALSE)
    /\ UNCHANGED <<capacity, process, children, creating, refused, late, bounds>>
(* An error, or the timeout of a removal that may have got through.         *)
Refused ==
    /\ cleanup # <<>> /\ Head(cleanup).vm \notin {Waiting, 0}
    /\ trouble < MaxTrouble /\ trouble' = trouble + 1
    /\ refused' = refused \cup {Head(cleanup).vm}
    /\ vms' \in {vms, vms \ {Head(cleanup).vm}}
    /\ Returns(TRUE)
    /\ UNCHANGED <<capacity, process, children, names, journal, creating, late, cancels>>

-----------------------------------------------------------------------------
(* The process.  The supervisor stops all workers when one of them exits   *)
(* or fails its health checks; launchd starts them all again.  On SIGTERM  *)
(* the server waits for its requests, but is killed after 15 seconds.      *)

Terminate ==
    /\ process = "up" /\ trouble < MaxTrouble /\ trouble' = trouble + 1
    /\ process' = "stopping"
    /\ UNCHANGED <<capacity, runs, memory, journal, host, cancels>>

Gone ==
    /\ process' = "down"
    /\ runs' = [r \in Runs |-> [runs[r] EXCEPT !.phase = "done", !.child = "none"]]
    /\ active' = NoRuns /\ children' = NoRuns /\ names' = NoRuns /\ cleanup' = <<>>
    /\ creating' = creating \cup {r \in Runs : MakesVM(r)}

(* shutdown and startup remove what is remembered, one after the other.     *)
Sweeping ==
    \/ process = "starting"
    \/ process = "stopping" /\ Alive = {} /\ cleanup = <<>>
Remembered == {j \in Jobs : names[j] # 0}
Sweep(j) ==
    /\ Sweeping /\ j \in Remembered
    /\ vms' = vms \ {names[j]}
    /\ names' = [names EXCEPT ![j] = 0] /\ journal' = names'
    /\ UNCHANGED <<capacity, process, runs, active, children, cleanup,
                   creating, refused, late, bounds>>
SweepFails(j) ==   \* and the process exits
    /\ Sweeping /\ j \in Remembered /\ names[j] \in vms
    /\ trouble < MaxTrouble /\ trouble' = trouble + 1
    /\ refused' = refused \cup {names[j]}
    /\ Gone
    /\ UNCHANGED <<capacity, journal, vms, late, cancels>>
Stopped ==
    /\ process = "stopping" /\ Sweeping /\ Remembered = {}
    /\ Gone
    /\ UNCHANGED <<capacity, journal, vms, refused, late, bounds>>

(* SIGKILL: the children were started in sessions of their own.             *)
Kill ==
    /\ process # "down" /\ trouble < MaxTrouble /\ trouble' = trouble + 1
    /\ Gone
    /\ UNCHANGED <<capacity, journal, vms, refused, late, cancels>>
TooSlow ==   \* 15 seconds after SIGTERM
    /\ process = "stopping" /\ Gone
    /\ UNCHANGED <<capacity, journal, vms, refused, late, bounds>>
Outlives(r) ==
    /\ r \in creating
    /\ vms' = vms \cup {r} /\ late' = late \cup {r} /\ creating' = creating \ {r}
    /\ UNCHANGED <<capacity, process, runs, memory, journal, refused, bounds>>

(* Mutant: the journal is not read back.                                    *)
RestartForgets ==
    /\ process = "down" /\ process' = "starting"
    /\ UNCHANGED <<capacity, runs, memory, journal, host, bounds>>
Restart ==
    /\ process = "down" /\ process' = "starting"
    /\ names' = journal
    /\ UNCHANGED <<capacity, runs, active, children, cleanup, journal, host, bounds>>
Ready ==
    /\ process = "starting" /\ Remembered = {}
    /\ process' = "up"
    /\ UNCHANGED <<capacity, runs, memory, journal, host, bounds>>

-----------------------------------------------------------------------------
Step(r) ==
    Name(r) \/ Appears(r) \/ Created(r) \/ Ends(r)
Progress ==
    \/ \E r \in Runs : Step(r)
    \/ Grant \/ Removed
    \/ \E j \in Jobs : Sweep(j)
    \/ Stopped \/ TooSlow \/ Restart \/ Ready
Next ==
    \/ \E j \in Jobs : Run(j) \/ Cancel(j) \/ SweepFails(j)
    \/ \E r \in Runs : Overdue(r) \/ Outlives(r)
    \/ Progress
    \/ Refused \/ Terminate \/ Kill

(* Runs have a timeout, commands too, and launchd restarts what exits.      *)
Spec == Init /\ [][Next]_vars /\ WF_vars(Progress)

-----------------------------------------------------------------------------
(* The job of the VM was run more than once on a worker that lets its runs
   overlap, or around a removal that failed: a later run takes the entry of
   an earlier one, and a cleanup drops the entry it finds at its end.       *)
Entangled(v) ==
    /\ \E r \in Runs : r # v /\ Job(r) = Job(v)
    /\ capacity > 1 \/ \E r \in refused : Job(r) = Job(v)

(* docs/runbooks/sbx-launcher.md: the name of a VM is on record before the
   VM exists and until it is gone, whatever fails or is killed in between.
   Not for the VMs of entangled runs, nor for one whose creation outlived
   the worker.                                                              *)
Journalled ==
    \A v \in vms : journal[Job(v)] = v \/ Entangled(v) \/ v \in late

(* The VM of a run that is over is gone while the worker is up, unless `sbx'
   refused to remove it (worker.py and SbxRunner.run, both finally blocks). *)
FinallyRemoved ==
    \A v \in vms : process = "up" => Live(v) \/ v \in refused \/ Entangled(v) \/ v \in late

(* A worker of capacity 1 runs one job at a time, whatever is posted,
   cancelled or overdue.                                                    *)
OneAtATime == capacity = 1 => Cardinality(Alive) <= 1

(* Every slot is given back at last, and a worker that went down is up again
   with its journal worked off.                                             *)
Recovers == []<>(process = "up" /\ Slots = {} /\ Alive = {} /\ cleanup = <<>>)
=============================================================================
