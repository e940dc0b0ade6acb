----------------------------- MODULE WorkerProofs -----------------------------
(***************************************************************************)
(* The safety invariants of module Worker for any jobs, capacities and     *)
(* bounds: types, at most one job on a worker of capacity 1, every VM on   *)
(* record, and no VM left behind.                                          *)
(*                                                                         *)
(* The queue at the cleanup lock is what the proof is about.  Every step   *)
(* that touches the queue or the phase of a run has one of a few shapes    *)
(* (a call drops out, a run enters, a run is over ...), and one lemma per  *)
(* shape shows what the queue keeps.                                       *)
(***************************************************************************)
EXTENDS Worker, SequenceTheorems, FiniteSetTheorems, TLAPS

(* A job is tangled when runs of it may have met: it was run more than once,
   on a worker that lets runs overlap or after a removal that was refused.  *)
Tangled(j) ==
    /\ \E r, s \in Runs : r # s /\ Job(r) = j /\ Job(s) = j
    /\ capacity > 1 \/ \E r \in refused : Job(r) = j

(* Nothing runs in a worker that is down or starting.                       *)
Idle ==
    /\ process \in {"down", "starting"} =>
          Alive = {} /\ active = NoRuns /\ children = NoRuns /\ cleanup = <<>>
    /\ process = "down" => names = NoRuns

(* What is kept for a job is of the job, and the journal is what the worker
   remembers.                                                               *)
Books ==
    /\ process # "down" => names = journal
    /\ \A j \in Jobs : /\ active[j] # 0 => Job(active[j]) = j
                       /\ names[j] # 0 => Job(names[j]) = j
                       /\ journal[j] # 0 => Job(journal[j]) = j
    /\ IsFiniteSet(Slots)

(* Every call of cancel() comes from a run of its job that has ended its
   commands, and from each of its two places at most once.                  *)
Ended(r) == runs[r].phase \in {"cleanup", "report", "done"}
Calls ==
    \A i \in DOMAIN cleanup :
        /\ cleanup[i].vm # 0
        /\ \E r \in Runs : Job(r) = cleanup[i].job /\ Ended(r)
        /\ cleanup[i].run # 0 =>
              /\ Job(cleanup[i].run) = cleanup[i].job
              /\ Ended(cleanup[i].run)
              /\ cleanup[i].stage = "report" => runs[cleanup[i].run].phase # "cleanup"
Once ==
    \A i, k \in DOMAIN cleanup :
        cleanup[i].run # 0 /\ cleanup[i].run = cleanup[k].run /\ cleanup[i].stage = cleanup[k].stage
          => i = k

(* A run that waits for the lock has its call in the queue.                 *)
Pending(i) == cleanup[i].run # 0 /\ runs[cleanup[i].run].phase = cleanup[i].stage
Queued ==
    \A r \in Runs : runs[r].phase \in {"cleanup", "report"} =>
        \E i \in DOMAIN cleanup : cleanup[i].run = r /\ cleanup[i].stage = runs[r].phase

(* With one slot the run that is alive holds it, and the calls of an earlier
   job all stand before the one it waits for.                               *)
Owners == capacity = 1 => \A r \in Alive : active[Job(r)] = r
Ordered ==
    capacity = 1 =>
        \A i, k \in DOMAIN cleanup : i < k /\ cleanup[i].job # cleanup[k].job =>
            \E m \in DOMAIN cleanup : m > i /\ Pending(m)

(* For a job that is not tangled: what is remembered is the VM of a run that
   is past its checks and either goes on or could not be removed; a run at
   its commands is remembered and nobody is about to clean up after the job;
   the VM in removal is the one remembered; and a VM that exists is on record
   unless the process that made it outlived the worker.                     *)
Remembers(j) ==
    process # "starting" /\ names[j] # 0 =>
        runs[names[j]].phase # "checks" /\ (Live(names[j]) \/ names[j] \in refused)
Undisturbed(j) ==
    \A r \in Runs : Job(r) = j /\ runs[r].phase \in {"create", "work"} =>
        names[j] = r /\ \A i \in DOMAIN cleanup : cleanup[i].job # j
Removes(j) ==
    \A i \in DOMAIN cleanup : cleanup[i].job = j /\ cleanup[i].vm # Waiting =>
        cleanup[i].vm = names[j]
OnRecord(j) == \A v \in vms : Job(v) = j => journal[j] = v \/ v \in late
Recorded ==
    \A j \in Jobs : ~Tangled(j) => Remembers(j) /\ Undisturbed(j) /\ Removes(j) /\ OnRecord(j)

QInv == Calls /\ Once /\ Queued /\ Owners /\ Ordered
IInv == TypeOK /\ Idle /\ Books /\ QInv /\ Recorded

-----------------------------------------------------------------------------
(* Sequences of runs and calls                                             *)

RunRecord == [job: Jobs, phase: Phases, child: {"none", "running", "killed"}]
CallRecord(n) == [job: Jobs, run: 0..n, stage: {"cleanup", "report"}, vm: -1..n]

(* A function on 1..n is a sequence of length n.                            *)
LEMMA FunctionIsSeq ==
  ASSUME NEW S, NEW n \in Nat, NEW f \in [1..n -> S]
  PROVE  f \in Seq(S) /\ Len(f) = n /\ DOMAIN f = 1..n
<1>1. f \in Seq(S)
  BY SeqDef
<1>2. Len(f) = n
  <2>1. DOMAIN f = 1..n
    OBVIOUS
  <2> QED BY <1>1, <2>1
<1> QED BY <1>1, <1>2

(* The fields of the runs and of the calls.                                 *)
LEMMA Fields ==
  ASSUME TypeOK
  PROVE  /\ Len(runs) \in Nat /\ DOMAIN runs = Runs /\ runs \in [1..Len(runs) -> RunRecord]
         /\ \A r \in Runs : /\ Job(r) \in Jobs /\ runs[r].phase \in Phases
                            /\ runs[r].child \in {"none", "running", "killed"}
         /\ Len(cleanup) \in Nat /\ DOMAIN cleanup = 1..Len(cleanup)
         /\ cleanup \in [1..Len(cleanup) -> CallRecord(Len(runs))]
         /\ \A i \in DOMAIN cleanup :
              /\ cleanup[i].job \in Jobs /\ cleanup[i].run \in 0..Len(runs)
              /\ cleanup[i].stage \in {"cleanup", "report"} /\ cleanup[i].vm \in -1..Len(runs)
         /\ \A j \in Jobs : /\ active[j] \in 0..Len(runs) /\ children[j] \in 0..Len(runs)
                            /\ names[j] \in 0..Len(runs) /\ journal[j] \in 0..Len(runs)
         /\ capacity \in 1..4
<1>1. runs \in Seq(RunRecord) /\ cleanup \in Seq(CallRecord(Len(runs)))
  BY DEF TypeOK, RunRecord, CallRecord
<1>2. /\ Len(runs) \in Nat /\ DOMAIN runs = Runs /\ runs \in [1..Len(runs) -> RunRecord]
  BY <1>1, LenProperties DEF Runs
<1>3. /\ Len(cleanup) \in Nat /\ DOMAIN cleanup = 1..Len(cleanup)
      /\ cleanup \in [1..Len(cleanup) -> CallRecord(Len(runs))]
  BY <1>1, LenProperties
<1>4. \A r \in Runs : /\ Job(r) \in Jobs /\ runs[r].phase \in Phases
                      /\ runs[r].child \in {"none", "running", "killed"}
  BY <1>2 DEF RunRecord, Job, Runs
<1>5. \A i \in DOMAIN cleanup :
        /\ cleanup[i].job \in Jobs /\ cleanup[i].run \in 0..Len(runs)
        /\ cleanup[i].stage \in {"cleanup", "report"} /\ cleanup[i].vm \in -1..Len(runs)
  BY <1>3 DEF CallRecord
<1>6. \A j \in Jobs : /\ active[j] \in 0..Len(runs) /\ children[j] \in 0..Len(runs)
                      /\ names[j] \in 0..Len(runs) /\ journal[j] \in 0..Len(runs)
  BY DEF TypeOK
<1>7. capacity \in 1..4
  BY WorkerAssumption DEF TypeOK
<1> QED BY <1>2, <1>3, <1>4, <1>5, <1>6, <1>7

(* Killing a child changes neither job nor phase of any run.                *)
LEMMA KilledRuns ==
  ASSUME TypeOK, NEW j \in Jobs
  PROVE  /\ Killed(j, runs) \in [1..Len(runs) -> RunRecord]
         /\ \A q \in Runs : /\ Killed(j, runs)[q].job = runs[q].job
                            /\ Killed(j, runs)[q].phase = runs[q].phase
<1>1. runs \in [1..Len(runs) -> RunRecord] /\ DOMAIN runs = 1..Len(runs)
  BY Fields DEF Runs
<1>2. \A q \in Runs :
        LET k == IF q = children[j] /\ runs[q].child = "running"
                 THEN [runs[q] EXCEPT !.child = "killed"] ELSE runs[q]
        IN k \in RunRecord /\ k.job = runs[q].job /\ k.phase = runs[q].phase
  BY <1>1 DEF RunRecord, Runs
<1> QED BY <1>1, <1>2 DEF Killed, Runs

-----------------------------------------------------------------------------
(* The shapes of a step, and what the queue keeps under each               *)

(* The runs are those there were; of their phases only that of r changes.   *)
SameRuns ==
    /\ Len(runs') = Len(runs) /\ runs' \in Seq(RunRecord)
    /\ \A q \in Runs : runs'[q].job = runs[q].job
SamePhases == SameRuns /\ \A q \in Runs : runs'[q].phase = runs[q].phase
Only(r, p) ==
    /\ SameRuns
    /\ \A q \in Runs : runs'[q].phase = IF q = r THEN p ELSE runs[q].phase

(* A worker of capacity 1 has one run alive at most.                        *)
LEMMA OneAlive ==
  ASSUME TypeOK, Books, Owners, capacity = 1, NEW r \in Alive, NEW q \in Alive
  PROVE  r = q
<1>1. active[Job(r)] = r /\ active[Job(q)] = q /\ r \in Runs /\ q \in Runs
  BY DEF Owners, Alive
<1>2. Job(r) \in Slots /\ Job(q) \in Slots
  BY <1>1, Fields DEF Slots, Runs
<1>3. IsFiniteSet(Slots) /\ Cardinality(Slots) <= 1
  BY DEF Books, TypeOK, Slots
<1>4. Job(r) = Job(q)
  <2> SUFFICES ASSUME Job(r) # Job(q) PROVE FALSE
    OBVIOUS
  <2>1. IsFiniteSet({Job(r)}) /\ Cardinality({Job(r)}) = 1
    BY FS_Singleton
  <2>2. IsFiniteSet({Job(r)} \cup {Job(q)}) /\ Cardinality({Job(r)} \cup {Job(q)}) = 2
    <3>1. Job(q) \notin {Job(r)}
      OBVIOUS
    <3>2. /\ IsFiniteSet({Job(r)} \cup {Job(q)})
          /\ Cardinality({Job(r)} \cup {Job(q)}) = Cardinality({Job(r)}) + 1
      BY <2>1, <3>1, FS_AddElement
    <3> QED BY <2>1, <3>2
  <2>3. Cardinality({Job(r)} \cup {Job(q)}) <= Cardinality(Slots)
    BY <1>2, <1>3, FS_Subset
  <2>4. Cardinality(Slots) \in Nat
    BY <1>3, FS_CardinalityType
  <2> QED BY <1>3, <2>2, <2>3, <2>4
<1> QED BY <1>1, <1>4

(* A run goes on to its next command, or a removal begins.                  *)
LEMMA Onward ==
  ASSUME TypeOK, QInv, SameRuns, UNCHANGED <<capacity, active>>,
         \A q \in Runs : \/ runs'[q].phase = runs[q].phase
                         \/ /\ runs[q].phase \in {"checks", "create", "work"}
                            /\ runs'[q].phase \in {"checks", "create", "work"},
         DOMAIN cleanup' = DOMAIN cleanup,
         \A i \in DOMAIN cleanup :
            /\ cleanup'[i].job = cleanup[i].job /\ cleanup'[i].run = cleanup[i].run
            /\ cleanup'[i].stage = cleanup[i].stage /\ cleanup'[i].vm # 0
  PROVE  QInv'
<1>0. Runs' = Runs /\ (\A q \in Runs : Job(q)' = Job(q) /\ Job(q) \in Jobs) /\ DOMAIN cleanup = 1..Len(cleanup)
  BY Fields DEF SameRuns, Runs, Job
<1>1. \A i \in DOMAIN cleanup : cleanup[i].run \in Runs \cup {0} /\ cleanup[i].stage \in {"cleanup", "report"}
  BY Fields DEF Runs
<1>2. \A q \in Runs : Ended(q)' <=> Ended(q)
  BY DEF Ended
<1>3. \A i \in DOMAIN cleanup : Pending(i)' <=> Pending(i)
  BY <1>1 DEF Pending
<1>4. Calls'
  BY <1>0, <1>1, <1>2 DEF Calls, QInv, Ended
<1>5. Once'
  BY DEF Once, QInv
<1>6. Queued'
  BY <1>0 DEF Queued, QInv
<1>7. Owners'
  BY <1>0 DEF Owners, QInv, Alive, Live
<1>8. Ordered'
  BY <1>3 DEF Ordered, QInv
<1> QED BY <1>4, <1>5, <1>6, <1>7, <1>8 DEF QInv

(* A run leaves its commands for the lock, or the lock for its second call:
   its new call comes last, behind that of whoever cancelled it.            *)
LEMMA Leaves ==
  ASSUME TypeOK, QInv, UNCHANGED <<capacity, active>>,
         NEW r \in Runs, NEW stage \in {"cleanup", "report"}, NEW s \in {0, 1}, NEW m \in {0, 1},
         NEW n \in Nat, n + s = Len(cleanup), NEW last \in Nat, last = n + m + 1,
         stage = "cleanup" => runs[r].phase \in {"checks", "create", "work"},
         stage = "report" => runs[r].phase = "cleanup",
         Only(r, stage),
         s = 1 => cleanup[1].run = r,
         DOMAIN cleanup' = 1..last,
         \A i \in 1..n : cleanup'[i] = cleanup[i + s],
         m = 1 => cleanup'[n + 1] = Call(Job(r), 0, "report"),
         cleanup'[last] = Call(Job(r), r, stage)
  PROVE  QInv'
<1>0. /\ Runs' = Runs /\ (\A q \in Runs : Job(q)' = Job(q) /\ Job(q) \in Jobs)
      /\ Len(cleanup) \in Nat /\ DOMAIN cleanup = 1..Len(cleanup)
      /\ \A q \in Runs : runs'[q].phase = IF q = r THEN stage ELSE runs[q].phase
  BY Fields DEF Only, SameRuns, Runs, Job
<1>1. \A i \in DOMAIN cleanup : cleanup[i].run \in Runs \cup {0} /\ cleanup[i].stage \in {"cleanup", "report"}
  <2>1. 0..Len(runs) = Runs \cup {0}
    BY Fields DEF Runs
  <2> QED BY <2>1, Fields
<1>3. n \in Nat /\ last \in Nat /\ last > n /\ (m = 0 => last = n + 1) /\ (m = 1 => last = n + 2)
  BY <1>0
<1>4. /\ DOMAIN cleanup' = 1..last
      /\ \A i \in 1..n : i + s \in DOMAIN cleanup /\ cleanup'[i] = cleanup[i + s]
      /\ \A i \in 1..last : i \in 1..n \/ (m = 1 /\ i = n + 1) \/ i = last
  BY <1>0, <1>3
<1>5. /\ cleanup'[last].job = Job(r) /\ cleanup'[last].run = r /\ cleanup'[last].stage = stage
      /\ cleanup'[last].vm = -1
      /\ m = 1 => /\ cleanup'[n + 1].job = Job(r) /\ cleanup'[n + 1].run = 0
                  /\ cleanup'[n + 1].stage = "report" /\ cleanup'[n + 1].vm = -1
  BY DEF Call, Waiting
<1>6. r # 0 /\ last \in 1..last
  BY <1>3 DEF Runs
<1>7. \A q \in Runs : Ended(q) => Ended(q)'
  BY <1>0 DEF Ended
<1>8. Ended(r)'
  BY <1>0 DEF Ended
<1>9. Pending(last)'
  BY <1>0, <1>5, <1>6 DEF Pending
<1>10. Calls'
  <2> SUFFICES ASSUME NEW i \in 1..last, NEW c, c = cleanup'[i]
               PROVE /\ c.vm # 0
                     /\ \E q \in Runs : Job(q) = c.job /\ Ended(q)'
                     /\ c.run # 0 =>
                           /\ c.run \in Runs /\ Job(c.run) = c.job
                           /\ Ended(c.run)'
                           /\ c.stage = "report" => runs'[c.run].phase # "cleanup"
    BY <1>0, <1>4 DEF Calls, Ended, Job
  <2>1. CASE i \in 1..n
    <3>1. c = cleanup[i + s] /\ i + s \in DOMAIN cleanup
      BY <2>1, <1>4
    <3> QED BY <3>1, <1>0, <1>1, <1>7 DEF Calls, QInv, Ended
  <2>2. CASE m = 1 /\ i = n + 1
    BY <2>2, <1>5, <1>8
  <2>3. CASE i = last
    BY <2>3, <1>0, <1>5, <1>8
  <2> QED BY <1>4, <2>1, <2>2, <2>3
<1>11. Once'
  <2>1. \A i \in 1..n : ~(cleanup'[i].run = r /\ cleanup'[i].stage = stage)
    BY <1>0, <1>1, <1>4, <1>6 DEF Calls, QInv, Ended
  <2>2. \A i, k \in 1..n :
          (/\ cleanup'[i].run # 0 /\ cleanup'[i].run = cleanup'[k].run
           /\ cleanup'[i].stage = cleanup'[k].stage) => i = k
    <3> SUFFICES ASSUME NEW i \in 1..n, NEW k \in 1..n, cleanup'[i].run # 0,
                        cleanup'[i].run = cleanup'[k].run, cleanup'[i].stage = cleanup'[k].stage
                 PROVE  i = k
      OBVIOUS
    <3>1. cleanup'[i] = cleanup[i + s] /\ cleanup'[k] = cleanup[k + s]
      BY <1>4
    <3>2. i + s \in DOMAIN cleanup /\ k + s \in DOMAIN cleanup
      BY <1>4
    <3>3. i + s = k + s
      BY <3>1, <3>2 DEF Once, QInv
    <3> QED BY <3>3
  <2>3. \A i \in 1..last : cleanup'[i].run # 0 => i \in 1..n \/ i = last
    BY <1>4, <1>5
  <2> SUFFICES ASSUME NEW i \in 1..last, NEW k \in 1..last, cleanup'[i].run # 0,
                      cleanup'[i].run = cleanup'[k].run, cleanup'[i].stage = cleanup'[k].stage
               PROVE  i = k
    BY <1>4 DEF Once
  <2>4. CASE i \in 1..n /\ k \in 1..n
    BY <2>4, <2>2
  <2>5. CASE i = last \/ k = last
    BY <2>5, <2>1, <2>3, <1>5
  <2> QED BY <2>3, <2>4, <2>5
<1>12. Queued'
  <2> SUFFICES ASSUME NEW q \in Runs, runs'[q].phase \in {"cleanup", "report"}
               PROVE  \E i \in 1..last : cleanup'[i].run = q /\ cleanup'[i].stage = runs'[q].phase
    BY <1>0, <1>4 DEF Queued
  <2>1. CASE q = r
    BY <2>1, <1>0, <1>5, <1>6
  <2>2. CASE q # r
    <3>1. runs'[q].phase = runs[q].phase
      BY <2>2, <1>0
    <3>2. PICK i \in DOMAIN cleanup : cleanup[i].run = q /\ cleanup[i].stage = runs[q].phase
      BY <3>1 DEF Queued, QInv
    <3>3. i - s \in 1..n /\ (i - s) + s = i
      BY <2>2, <3>2, <1>0
    <3>4. cleanup'[i - s] = cleanup[i]
      BY <3>3, <1>4
    <3>5. i - s \in 1..last
      BY <3>3, <1>3
    <3> QED BY <3>1, <3>2, <3>4, <3>5
  <2> QED BY <2>1, <2>2
<1>13. Owners'
  BY <1>0 DEF Owners, QInv, Alive, Live
<1>14. Ordered'
  <2> SUFFICES ASSUME NEW i \in 1..last, NEW k \in 1..last, i < k
               PROVE  last > i
    BY <1>4, <1>6, <1>9 DEF Ordered
  <2> QED BY <1>3
<1> QED BY <1>10, <1>11, <1>12, <1>13, <1>14 DEF QInv

(* A run in its second call is cancelled once more.                         *)
LEMMA Again ==
  ASSUME TypeOK, Books, QInv, UNCHANGED <<capacity, active>>, SamePhases,
         NEW r \in Runs, runs[r].phase = "report",
         NEW n \in Nat, n = Len(cleanup), NEW last \in Nat, last = n + 1,
         DOMAIN cleanup' = 1..last,
         \A i \in 1..n : cleanup'[i] = cleanup[i],
         cleanup'[last] = Call(Job(r), 0, "report")
  PROVE  QInv'
<1>0. /\ Runs' = Runs /\ (\A q \in Runs : Job(q)' = Job(q) /\ Job(q) \in Jobs)
      /\ DOMAIN cleanup = 1..n /\ DOMAIN cleanup' = 1..last
      /\ \A q \in Runs : runs'[q].phase = runs[q].phase
  BY Fields DEF SamePhases, SameRuns, Runs, Job
<1>1. \A i \in DOMAIN cleanup : cleanup[i].run \in Runs \cup {0}
  BY Fields DEF Runs
<1>2. \A q \in Runs : Ended(q)' <=> Ended(q)
  BY <1>0 DEF Ended
<1>3. /\ cleanup'[last].job = Job(r) /\ cleanup'[last].run = 0 /\ cleanup'[last].vm = -1
  BY DEF Call, Waiting
<1>4. \A i \in 1..last : i \in 1..n \/ i = last
  OBVIOUS
<1>5. \A i \in 1..n : cleanup'[i] = cleanup[i] /\ i \in 1..last
  OBVIOUS
<1>6. \A i \in 1..n : Pending(i)' <=> Pending(i)
  BY <1>0, <1>1, <1>5 DEF Pending
<1>7. Calls'
  <2> SUFFICES ASSUME NEW i \in 1..last, NEW c, c = cleanup'[i]
               PROVE /\ c.vm # 0
                     /\ \E q \in Runs : Job(q) = c.job /\ Ended(q)'
                     /\ c.run # 0 =>
                           /\ c.run \in Runs /\ Job(c.run) = c.job
                           /\ Ended(c.run)'
                           /\ c.stage = "report" => runs'[c.run].phase # "cleanup"
    BY <1>0 DEF Calls, Ended, Job
  <2>1. CASE i \in 1..n
    <3>1. c = cleanup[i] /\ i \in DOMAIN cleanup
      BY <2>1, <1>0, <1>5
    <3> QED BY <3>1, <1>0, <1>1, <1>2 DEF Calls, QInv
  <2>2. CASE i = last
    <3>1. Ended(r)
      BY DEF Ended
    <3> QED BY <2>2, <3>1, <1>2, <1>3
  <2> QED BY <1>4, <2>1, <2>2
<1>8. Once'
  BY <1>0, <1>3, <1>4, <1>5 DEF Once, QInv
<1>9. Queued'
  BY <1>0, <1>5 DEF Queued, QInv
<1>10. Owners'
  BY <1>0 DEF Owners, QInv, Alive, Live
<1>11. Ordered'
  <2> SUFFICES ASSUME capacity = 1, NEW i \in 1..last, NEW k \in 1..last, i < k,
                      cleanup'[i].job # cleanup'[k].job
               PROVE  \E m \in 1..n : m > i /\ Pending(m)
    BY <1>0, <1>5, <1>6 DEF Ordered
  <2>1. i \in 1..n
    OBVIOUS
  <2>2. CASE k \in 1..n
    BY <2>1, <2>2, <1>0, <1>5 DEF Ordered, QInv
  <2>3. CASE k = last
    <3>1. PICK m \in 1..n : cleanup[m].run = r /\ cleanup[m].stage = "report"
      BY <1>0 DEF Queued, QInv
    <3>2. Pending(m) /\ cleanup[m].job = Job(r)
      BY <3>1, <1>0 DEF Pending, Calls, QInv, Runs
    <3>3. cleanup[i].job # cleanup[m].job
      BY <2>1, <2>3, <3>2, <1>3, <1>5
    <3>4. ~(m < i)
      <4> SUFFICES ASSUME m < i PROVE FALSE
        OBVIOUS
      <4>1. PICK x \in 1..n : x > m /\ Pending(x)
        BY <2>1, <3>3, <1>0 DEF Ordered, QInv
      <4>2. cleanup[x].run \in Alive /\ r \in Alive
        BY <4>1, <1>0, <1>1, Fields DEF Pending, Alive, Live
      <4>3. cleanup[x].run = r
        BY <4>2, OneAlive DEF QInv
      <4>4. x = m
        BY <4>1, <4>3, <3>1, <1>0 DEF Once, QInv, Pending, Runs
      <4> QED BY <4>1, <4>4
    <3> QED BY <3>2, <3>3, <3>4, <2>1
  <2> QED BY <2>2, <2>3, <1>4
<1> QED BY <1>7, <1>8, <1>9, <1>10, <1>11 DEF QInv

(* A call that nobody waits for any more drops out.                         *)
LEMMA Drops ==
  ASSUME TypeOK, QInv, UNCHANGED <<capacity, active>>, SamePhases,
         NEW n \in Nat, n + 1 = Len(cleanup), ~Pending(1),
         DOMAIN cleanup' = 1..n,
         \A i \in 1..n : cleanup'[i] = cleanup[i + 1]
  PROVE  QInv'
<1>0. /\ Runs' = Runs /\ (\A q \in Runs : Job(q)' = Job(q) /\ Job(q) \in Jobs)
      /\ DOMAIN cleanup = 1..(n + 1) /\ DOMAIN cleanup' = 1..n
      /\ \A q \in Runs : runs'[q].phase = runs[q].phase
  BY Fields DEF SamePhases, SameRuns, Runs, Job
<1>1. \A i \in 1..(n + 1) : cleanup[i].run \in Runs \cup {0}
  <2>1. 0..Len(runs) = Runs \cup {0}
    BY Fields DEF Runs
  <2> QED BY <1>0, <2>1, Fields
<1>2. \A q \in Runs : Ended(q)' <=> Ended(q)
  BY <1>0 DEF Ended
<1>3. \A i \in 1..n : cleanup'[i] = cleanup[i + 1] /\ i + 1 \in 1..(n + 1)
  OBVIOUS
<1>4. \A i \in 1..n : Pending(i)' <=> Pending(i + 1)
  BY <1>0, <1>1, <1>3 DEF Pending
<1>5. \A m \in 1..(n + 1) : Pending(m) => m - 1 \in 1..n /\ (m - 1) + 1 = m
  OBVIOUS
<1>6. Calls'
  <2> SUFFICES ASSUME NEW i \in 1..n, NEW c, c = cleanup'[i]
               PROVE /\ c.vm # 0
                     /\ \E q \in Runs : Job(q) = c.job /\ Ended(q)'
                     /\ c.run # 0 =>
                           /\ c.run \in Runs /\ Job(c.run) = c.job
                           /\ Ended(c.run)'
                           /\ c.stage = "report" => runs'[c.run].phase # "cleanup"
    BY <1>0 DEF Calls, Ended, Job
  <2>1. c = cleanup[i + 1] /\ i + 1 \in DOMAIN cleanup
    BY <1>0, <1>3
  <2> QED BY <2>1, <1>0, <1>1, <1>2 DEF Calls, QInv
<1>7. Once'
  <2> SUFFICES ASSUME NEW i \in 1..n, NEW k \in 1..n, cleanup'[i].run # 0,
                      cleanup'[i].run = cleanup'[k].run, cleanup'[i].stage = cleanup'[k].stage
               PROVE  i = k
    BY <1>0 DEF Once
  <2>1. i + 1 = k + 1
    BY <1>0, <1>3 DEF Once, QInv
  <2> QED BY <2>1
<1>8. Queued'
  <2> SUFFICES ASSUME NEW q \in Runs, runs[q].phase \in {"cleanup", "report"}
               PROVE  \E i \in 1..n : cleanup'[i].run = q /\ cleanup'[i].stage = runs[q].phase
    BY <1>0 DEF Queued
  <2>1. PICK m \in 1..(n + 1) : cleanup[m].run = q /\ cleanup[m].stage = runs[q].phase
    BY <1>0 DEF Queued, QInv
  <2>2. Pending(m)
    BY <2>1 DEF Pending, Runs
  <2>3. m - 1 \in 1..n /\ cleanup'[m - 1] = cleanup[m]
    BY <2>2, <1>3, <1>5
  <2> QED BY <2>1, <2>3
<1>9. Owners'
  BY <1>0 DEF Owners, QInv, Alive, Live
<1>10. Ordered'
  <2> SUFFICES ASSUME capacity = 1, NEW i \in 1..n, NEW k \in 1..n, i < k,
                      cleanup'[i].job # cleanup'[k].job
               PROVE  \E m \in 1..n : m > i /\ Pending(m)'
    BY <1>0 DEF Ordered
  <2>1. PICK m \in 1..(n + 1) : m > i + 1 /\ Pending(m)
    <3>1. i + 1 \in 1..(n + 1) /\ k + 1 \in 1..(n + 1) /\ i + 1 < k + 1
      OBVIOUS
    <3>2. cleanup[i + 1].job # cleanup[k + 1].job
      BY <1>3
    <3> QED BY <3>1, <3>2, <1>0 DEF Ordered, QInv
  <2>2. m - 1 \in 1..n /\ m - 1 > i /\ Pending(m - 1)'
    <3>1. m - 1 \in 1..n /\ m - 1 > i /\ (m - 1) + 1 = m
      BY <2>1
    <3> QED BY <2>1, <3>1, <1>4
  <2> QED BY <2>2
<1> QED BY <1>6, <1>7, <1>8, <1>9, <1>10 DEF QInv

(* The second call of a run is through: the run is over and its slot is
   given back.                                                              *)
LEMMA Finishes ==
  ASSUME TypeOK, Books, QInv, UNCHANGED capacity,
         NEW r \in Runs, runs[r].phase = "report", Only(r, "done"),
         \A j \in Jobs : active'[j] = IF j = Job(r) THEN 0 ELSE active[j],
         NEW n \in Nat, n + 1 = Len(cleanup), cleanup[1].run = r, cleanup[1].stage = "report",
         DOMAIN cleanup' = 1..n,
         \A i \in 1..n : cleanup'[i] = cleanup[i + 1]
  PROVE  QInv'
<1>0. /\ Runs' = Runs /\ (\A q \in Runs : Job(q)' = Job(q) /\ Job(q) \in Jobs)
      /\ DOMAIN cleanup = 1..(n + 1) /\ DOMAIN cleanup' = 1..n /\ 1 \in 1..(n + 1)
      /\ \A q \in Runs : runs'[q].phase = IF q = r THEN "done" ELSE runs[q].phase
  BY Fields DEF Only, SameRuns, Runs, Job
<1>1. \A i \in 1..(n + 1) : cleanup[i].run \in Runs \cup {0} /\ cleanup[i].stage \in {"cleanup", "report"}
  <2>1. 0..Len(runs) = Runs \cup {0}
    BY Fields DEF Runs
  <2> QED BY <1>0, <2>1, Fields
<1>2. \A q \in Runs : Ended(q) => Ended(q)'
  BY <1>0 DEF Ended
<1>3. \A i \in 1..n : cleanup'[i] = cleanup[i + 1] /\ i + 1 \in 1..(n + 1)
  OBVIOUS
<1>4. \A m \in 1..(n + 1) : cleanup[m].run = r /\ cleanup[m].stage = "report" => m = 1
  BY <1>0 DEF Once, QInv, Runs
<1>6. Calls'
  <2> SUFFICES ASSUME NEW i \in 1..n, NEW c, c = cleanup'[i]
               PROVE /\ c.vm # 0
                     /\ \E q \in Runs : Job(q) = c.job /\ Ended(q)'
                     /\ c.run # 0 =>
                           /\ c.run \in Runs /\ Job(c.run) = c.job
                           /\ Ended(c.run)'
                           /\ c.stage = "report" => runs'[c.run].phase # "cleanup"
    BY <1>0 DEF Calls, Ended, Job
  <2>1. c = cleanup[i + 1] /\ i + 1 \in DOMAIN cleanup
    BY <1>0, <1>3
  <2> QED BY <2>1, <1>0, <1>1, <1>2 DEF Calls, QInv
<1>7. Once'
  <2> SUFFICES ASSUME NEW i \in 1..n, NEW k \in 1..n, cleanup'[i].run # 0,
                      cleanup'[i].run = cleanup'[k].run, cleanup'[i].stage = cleanup'[k].stage
               PROVE  i = k
    BY <1>0 DEF Once
  <2>1. cleanup'[i] = cleanup[i + 1] /\ cleanup'[k] = cleanup[k + 1]
    BY <1>3
  <2>2. i + 1 \in DOMAIN cleanup /\ k + 1 \in DOMAIN cleanup
    BY <1>0
  <2>3. i + 1 = k + 1
    BY <2>1, <2>2 DEF Once, QInv
  <2> QED BY <2>3
<1>8. Queued'
  <2> SUFFICES ASSUME NEW q \in Runs, q # r, runs[q].phase \in {"cleanup", "report"}
               PROVE  \E i \in 1..n : cleanup'[i].run = q /\ cleanup'[i].stage = runs[q].phase
    <3>1. \A q \in Runs : runs'[q].phase \in {"cleanup", "report"} => q # r /\ runs'[q].phase = runs[q].phase
      BY <1>0
    <3> QED BY <1>0, <3>1 DEF Queued
  <2>1. PICK m \in 1..(n + 1) : cleanup[m].run = q /\ cleanup[m].stage = runs[q].phase
    BY <1>0 DEF Queued, QInv
  <2>2. m - 1 \in 1..n /\ (m - 1) + 1 = m
    BY <2>1
  <2>3. cleanup'[m - 1] = cleanup[m]
    BY <2>2, <1>3
  <2> QED BY <2>1, <2>2, <2>3
<1>9. Owners'
  <2> SUFFICES ASSUME capacity = 1, NEW q \in Runs, q # r, runs[q].phase # "done"
               PROVE  active'[Job(q)] = q
    <3>1. \A q \in Runs : runs'[q].phase # "done" => q # r /\ runs[q].phase # "done"
      BY <1>0
    <3> QED BY <1>0, <3>1 DEF Owners, Alive, Live
  <2>1. active[Job(q)] = q /\ active[Job(r)] = r
    BY DEF Owners, QInv, Alive, Live
  <2> QED BY <2>1, <1>0
<1>10. Ordered'
  <2> SUFFICES ASSUME capacity = 1, NEW i \in 1..n, NEW k \in 1..n, i < k,
                      cleanup'[i].job # cleanup'[k].job
               PROVE  FALSE
    BY <1>0 DEF Ordered
  <2>1. PICK m \in 1..(n + 1) : m > i + 1 /\ Pending(m)
    <3>1. i + 1 \in 1..(n + 1) /\ k + 1 \in 1..(n + 1) /\ i + 1 < k + 1
      OBVIOUS
    <3>2. cleanup[i + 1].job # cleanup[k + 1].job
      BY <1>3
    <3> QED BY <3>1, <3>2, <1>0 DEF Ordered, QInv
  <2>2. cleanup[m].run \in Alive /\ r \in Alive
    BY <2>1, <1>0, <1>1 DEF Pending, Alive, Live
  <2>3. cleanup[m].run = r
    BY <2>2, OneAlive DEF QInv
  <2>4. cleanup[m].stage = "report"
    BY <2>1, <2>3 DEF Pending
  <2> QED BY <2>1, <2>3, <2>4, <1>4
<1> QED BY <1>6, <1>7, <1>8, <1>9, <1>10 DEF QInv

(* The process is gone.                                                     *)
LEMMA Ceases ==
  ASSUME TypeOK, QInv, SameRuns, UNCHANGED capacity, cleanup' = <<>>,
         \A q \in Runs : runs'[q].phase = "done"
  PROVE  QInv'
<1>0. Runs' = Runs /\ DOMAIN cleanup' = {}
  BY Fields DEF SameRuns, Runs
<1> QED BY <1>0 DEF QInv, Calls, Once, Queued, Owners, Ordered, Alive, Live

(* A request is accepted.                                                   *)
LEMMA Accepts ==
  ASSUME TypeOK, Books, QInv, NEW j \in Jobs, Run(j)
  PROVE  QInv'
<1> DEFINE new == [job |-> j, phase |-> "checks", child |-> "none"]
<1> PICK n \in Nat : n = Len(runs)
  BY Fields
<1>0. /\ runs' \in Seq(RunRecord) /\ Len(runs') = n + 1
      /\ \A q \in 1..n : runs'[q] = runs[q]
      /\ runs'[n + 1] = new
  <2>1. new \in RunRecord
    BY DEF RunRecord, Phases
  <2>2. runs \in Seq(RunRecord)
    BY DEF TypeOK, RunRecord
  <2>3. runs' = Append(runs, new)
    BY DEF Run
  <2> HIDE DEF new
  <2> QED BY <2>1, <2>2, <2>3, AppendProperties
<1>1. /\ Runs = 1..n /\ Runs' = 1..(n + 1) /\ UNCHANGED <<capacity, cleanup>>
      /\ active' = [active EXCEPT ![j] = n + 1]
      /\ \A q \in Runs : q \in Runs' /\ Job(q)' = Job(q) /\ Job(q) \in Jobs /\ runs'[q].phase = runs[q].phase
      /\ n + 1 \in Runs' /\ Job(n + 1)' = j /\ runs'[n + 1].phase = "checks"
      /\ \A q \in Runs' : q \in Runs \/ q = n + 1
  BY <1>0, Fields DEF Run, Runs, Job
<1>2. \A i \in DOMAIN cleanup : cleanup[i].run \in Runs \cup {0}
  <2>1. 0..Len(runs) = Runs \cup {0}
    BY Fields DEF Runs
  <2> QED BY <2>1, Fields
<1>3. \A q \in Runs : Ended(q)' <=> Ended(q)
  BY <1>1 DEF Ended
<1>4. \A i \in DOMAIN cleanup : Pending(i)' <=> Pending(i)
  BY <1>1, <1>2 DEF Pending
<1>5. Calls'
  BY <1>1, <1>2, <1>3 DEF Calls, QInv, Ended
<1>6. Once'
  BY <1>1 DEF Once, QInv
<1>7. Queued'
  BY <1>1 DEF Queued, QInv
<1>8. Owners'
  <2> SUFFICES ASSUME capacity = 1, NEW q \in Runs', q \in Alive'
               PROVE  active'[Job(q)'] = q
    BY <1>1 DEF Owners, Alive
  <2>1. Slots = {}
    <3>1. IsFiniteSet(Slots) /\ Cardinality(Slots) < 1
      BY DEF Run, Books
    <3> QED BY <3>1, FS_CardinalityType, FS_EmptySet
  <2>2. Alive = {}
    <3> SUFFICES ASSUME NEW x \in Alive PROVE FALSE
      OBVIOUS
    <3>1. x \in Runs /\ active[Job(x)] = x /\ Job(x) \in Jobs
      BY Fields DEF Alive, Owners, QInv
    <3> QED BY <3>1, <2>1 DEF Slots, Runs
  <2>3. q = n + 1
    BY <2>2, <1>1 DEF Alive, Live
  <2> QED BY <2>3, <1>1 DEF TypeOK
<1>9. Ordered'
  BY <1>1, <1>4 DEF Ordered, QInv
<1> QED BY <1>5, <1>6, <1>7, <1>8, <1>9 DEF QInv

-----------------------------------------------------------------------------
(* What every step of a kind keeps                                         *)

(* A job once tangled stays so, and a VM is entangled when its job is.      *)
LEMMA Tangling ==
  ASSUME TypeOK, UNCHANGED capacity, Runs \subseteq Runs',
         \A q \in Runs : runs'[q].job = runs[q].job, refused \subseteq refused'
  PROVE  \A j \in Jobs : Tangled(j) => Tangled(j)'
<1>1. refused \subseteq Runs
  BY DEF TypeOK
<1> QED BY <1>1 DEF Tangled, Job

LEMMA EntangledJob ==
  ASSUME TypeOK, NEW v \in vms
  PROVE  Entangled(v) <=> Tangled(Job(v))
<1>1. vms \subseteq Runs
  BY DEF TypeOK
<1> QED BY <1>1 DEF Entangled, Tangled

(* Of a job that is not tangled one run is alive at most.                   *)
LEMMA Untangled ==
  ASSUME TypeOK, Books, QInv, NEW j \in Jobs, ~Tangled(j), NEW r \in Alive, NEW q \in Alive,
         Job(r) = j, Job(q) = j
  PROVE  r = q
<1>1. CASE capacity = 1
  BY <1>1, OneAlive DEF QInv
<1>2. CASE capacity # 1
  <2>1. capacity > 1
    BY <1>2, Fields
  <2> QED BY <2>1 DEF Tangled, Alive
<1> QED BY <1>1, <1>2

(* Types, what is kept for a job, and the worker at rest, under any step
   that accepts no run.                                                     *)
LEMMA Keeps ==
  ASSUME TypeOK, Idle, Books, SameRuns, UNCHANGED capacity,
         process' \in {"up", "stopping", "down", "starting"},
         {active', children', names', journal'} \subseteq [Jobs -> 0..Len(runs)],
         \A j \in Jobs : active'[j] \in {0, active[j]},
         \A j \in Jobs : \/ names'[j] \in {0, names[j], journal[j]}
                         \/ names'[j] \in Runs /\ Job(names'[j]) = j,
         \A j \in Jobs : journal'[j] \in {journal[j], names'[j]},
         process' # "down" => names' = journal',
         process' = "down" => names' = NoRuns,
         process' \in {"down", "starting"} =>
            /\ \A r \in Runs : runs'[r].phase = "done"
            /\ active' = NoRuns /\ children' = NoRuns /\ cleanup' = <<>>,
         cleanup' \in Seq(CallRecord(Len(runs))),
         \A i \in DOMAIN cleanup' : cleanup'[i].vm # -1 => i = 1,
         vms' \cup creating' \cup refused' \cup late' \subseteq Runs,
         cancels' \in 0..MaxCancels, trouble' \in 0..MaxTrouble
  PROVE  TypeOK' /\ Idle' /\ Books'
<1>1. /\ Runs' = Runs /\ Len(runs') = Len(runs)
      /\ \A q \in Runs : Job(q)' = Job(q)
  BY DEF SameRuns, Runs, Job
<1>2. 0..Len(runs) = Runs \cup {0}
  BY Fields DEF Runs
<1>3. \A j \in Jobs : active[j] \in Runs \cup {0} /\ names[j] \in Runs \cup {0} /\ journal[j] \in Runs \cup {0}
  BY <1>2, Fields
<1>4. Idle'
  BY <1>1 DEF Idle, Alive, Live
<1>5. IsFiniteSet(Slots') /\ Cardinality(Slots') <= capacity
  <2>1. Slots' \subseteq Slots
    BY DEF Slots
  <2>2. Cardinality(Slots) <= capacity /\ IsFiniteSet(Slots)
    BY DEF TypeOK, Books, Slots
  <2>3. IsFiniteSet(Slots') /\ Cardinality(Slots') <= Cardinality(Slots)
    BY <2>1, <2>2, FS_Subset
  <2>4. Cardinality(Slots') \in Nat /\ Cardinality(Slots) \in Nat /\ capacity \in 1..4
    BY <2>2, <2>3, FS_CardinalityType, Fields
  <2> QED BY <2>2, <2>3, <2>4
<1>6. Books'
  <2>1. \A j \in Jobs : active'[j] # 0 => active'[j] \in Runs /\ Job(active'[j]) = j
    BY <1>3 DEF Books
  <2>2. \A j \in Jobs : names'[j] # 0 => names'[j] \in Runs /\ Job(names'[j]) = j
    BY <1>3 DEF Books
  <2>3. \A j \in Jobs : journal'[j] # 0 => journal'[j] \in Runs /\ Job(journal'[j]) = j
    BY <1>3, <2>2 DEF Books
  <2> QED BY <1>1, <1>5, <2>1, <2>2, <2>3 DEF Books, Job
<1>7. TypeOK'
  <2>1. runs' \in Seq([job: Jobs, phase: Phases, child: {"none", "running", "killed"}])
    BY DEF SameRuns, RunRecord
  <2>2. cleanup' \in Seq([job: Jobs, run: 0..Len(runs'), stage: {"cleanup", "report"}, vm: -1..Len(runs')])
    BY <1>1 DEF CallRecord
  <2>3. process' = "down" => Alive' = {} /\ memory' = <<NoRuns, NoRuns, NoRuns, <<>>>>
    BY <1>1 DEF Alive, Live, memory
  <2>4. Cardinality({j \in Jobs : active'[j] # 0}) <= capacity'
    BY <1>5 DEF Slots
  <2> HIDE DEF memory
  <2>5. capacity' \in Capacities
    BY DEF TypeOK
  <2>6. {active', children', names', journal'} \subseteq [Jobs -> 0..Len(runs')]
    BY <1>1
  <2>7. NoRuns' = NoRuns
    BY DEF NoRuns
  <2> QED BY <1>1, <2>1, <2>2, <2>3, <2>4, <2>5, <2>6, <2>7 DEF TypeOK
<1> QED BY <1>4, <1>6, <1>7

(* The runs after a step that sets the phase of one of them, with or without
   the killing of a child.                                                  *)
LEMMA MovedRuns ==
  ASSUME TypeOK, NEW r \in Runs, NEW p \in Phases, NEW c \in {"none", "running", "killed"},
         runs' = Moved(r, p, c)
  PROVE  Only(r, p)
<1>1. Len(runs) \in Nat /\ runs \in [1..Len(runs) -> RunRecord] /\ r \in 1..Len(runs) /\ Runs = 1..Len(runs)
  BY Fields DEF Runs
<1>2. runs[r] \in RunRecord
  BY <1>1
<1>3. runs' \in [1..Len(runs) -> RunRecord]
  BY <1>1, <1>2 DEF RunRecord, Moved
<1>4. \A q \in 1..Len(runs) : runs'[q].job = runs[q].job /\ runs'[q].phase = IF q = r THEN p ELSE runs[q].phase
  BY <1>1, <1>2 DEF RunRecord, Moved
<1>5. runs' \in Seq(RunRecord) /\ Len(runs') = Len(runs)
  BY <1>1, <1>3, FunctionIsSeq
<1> QED BY <1>1, <1>4, <1>5 DEF Only, SameRuns

LEMMA KilledMoves ==
  ASSUME TypeOK, NEW j \in Jobs, NEW r \in Runs, NEW p \in Phases,
         NEW c \in {"none", "running", "killed"},
         \/ runs' = [Killed(j, runs) EXCEPT ![r].phase = p, ![r].child = c]
         \/ runs' = [Killed(j, runs) EXCEPT ![r].phase = p]
  PROVE  Only(r, p)
<1> DEFINE K == Killed(j, runs)
<1>1. Len(runs) \in Nat /\ r \in 1..Len(runs) /\ Runs = 1..Len(runs)
  BY Fields DEF Runs
<1>2. /\ K \in [1..Len(runs) -> RunRecord]
      /\ \A q \in 1..Len(runs) : K[q].job = runs[q].job /\ K[q].phase = runs[q].phase
  BY <1>1, KilledRuns
<1>3. \/ runs' = [K EXCEPT ![r].phase = p, ![r].child = c]
      \/ runs' = [K EXCEPT ![r].phase = p]
  OBVIOUS
<1> HIDE DEF K
<1>4. K[r] \in RunRecord
  BY <1>1, <1>2
<1>5. runs' \in [1..Len(runs) -> RunRecord]
  BY <1>1, <1>2, <1>3, <1>4 DEF RunRecord
<1>6. \A q \in 1..Len(runs) : runs'[q].job = K[q].job /\ runs'[q].phase = IF q = r THEN p ELSE K[q].phase
  BY <1>1, <1>2, <1>3, <1>4 DEF RunRecord
<1>7. runs' \in Seq(RunRecord) /\ Len(runs') = Len(runs)
  BY <1>1, <1>5, FunctionIsSeq
<1> QED BY <1>1, <1>2, <1>6, <1>7 DEF Only, SameRuns

LEMMA KilledStays ==
  ASSUME TypeOK, NEW j \in Jobs, runs' = Killed(j, runs)
  PROVE  SamePhases
<1>1. Len(runs) \in Nat /\ Runs = 1..Len(runs)
  BY Fields DEF Runs
<1>2. /\ runs' \in [1..Len(runs) -> RunRecord]
      /\ \A q \in Runs : /\ runs'[q].job = runs[q].job /\ runs'[q].phase = runs[q].phase
  BY KilledRuns
<1> QED BY <1>1, <1>2, FunctionIsSeq DEF SamePhases, SameRuns

(* A call of cancel() is a record of its kind.                              *)
LEMMA CallType ==
  ASSUME TypeOK, NEW r \in Runs, NEW q \in Runs \cup {0}, NEW stage \in {"cleanup", "report"}
  PROVE  Call(Job(r), q, stage) \in CallRecord(Len(runs))
<1>1. Job(r) \in Jobs /\ Len(runs) \in Nat /\ q \in 0..Len(runs) /\ -1 \in -1..Len(runs)
  BY Fields DEF Runs
<1> QED BY <1>1 DEF Call, CallRecord, Waiting

(* A run that is alive is one of a worker that is up or stopping.           *)
LEMMA Working ==
  ASSUME Idle, TypeOK, Books, Alive # {} \/ cleanup # <<>>
  PROVE  process \in {"up", "stopping"} /\ names = journal
BY DEF Idle, TypeOK, Books

(* The process is gone, whatever ended it.                                  *)
LEMMA GoneKeeps ==
  ASSUME IInv, Gone, UNCHANGED <<capacity, journal, vms, late>>,
         refused \subseteq refused', refused' \subseteq Runs,
         cancels' \in 0..MaxCancels, trouble' \in 0..MaxTrouble
  PROVE  IInv'
<1> USE DEF IInv
<1>1. SameRuns /\ \A q \in Runs : runs'[q].phase = "done"
  <2> DEFINE R == [r \in Runs |-> [runs[r] EXCEPT !.phase = "done", !.child = "none"]]
  <2>1. \A r \in 1..Len(runs) : /\ [runs[r] EXCEPT !.phase = "done", !.child = "none"] \in RunRecord
                          /\ [runs[r] EXCEPT !.phase = "done", !.child = "none"].job = runs[r].job
                          /\ [runs[r] EXCEPT !.phase = "done", !.child = "none"].phase = "done"
    <3>1. \A r \in 1..Len(runs) : runs[r] \in RunRecord
      BY Fields
    <3> QED BY <3>1 DEF RunRecord, Phases
  <2>2. R \in [1..Len(runs) -> RunRecord]
    BY <2>1 DEF Runs
  <2>3. \A r \in Runs : R[r].job = runs[r].job /\ R[r].phase = "done"
    BY <2>1 DEF Runs
  <2>4. runs' = R
    BY DEF Gone
  <2> HIDE DEF R
  <2>5. R \in Seq(RunRecord) /\ Len(R) = Len(runs)
    BY <2>2, Fields, FunctionIsSeq
  <2> QED BY <2>3, <2>4, <2>5 DEF SameRuns
<1>2. /\ active' = NoRuns /\ children' = NoRuns /\ names' = NoRuns /\ cleanup' = <<>>
      /\ process' = "down" /\ creating' = creating \cup {r \in Runs : MakesVM(r)}
  BY DEF Gone
<1>3. NoRuns \in [Jobs -> 0..Len(runs)] /\ \A j \in Jobs : NoRuns[j] = 0
  BY Fields DEF NoRuns
<1>4. TypeOK' /\ Idle' /\ Books'
  <2>1. {active', children', names', journal'} \subseteq [Jobs -> 0..Len(runs)]
    BY <1>2, <1>3 DEF TypeOK
  <2>2. cleanup' \in Seq(CallRecord(Len(runs))) /\ DOMAIN cleanup' = {}
    BY <1>2
  <2>3. vms' \cup creating' \cup refused' \cup late' \subseteq Runs
    BY <1>2 DEF TypeOK
  <2> QED BY <1>1, <1>2, <1>3, <2>1, <2>2, <2>3, Keeps
<1>5. QInv'
  BY <1>1, <1>2, Ceases
<1>6. Recorded'
  <2> SUFFICES ASSUME NEW j \in Jobs, ~Tangled(j)'
               PROVE  Remembers(j)' /\ Undisturbed(j)' /\ Removes(j)' /\ OnRecord(j)'
    BY DEF Recorded
  <2>0. Runs' = Runs /\ \A q \in Runs : Job(q)' = Job(q)
    BY <1>1 DEF SameRuns, Runs, Job
  <2>1. ~Tangled(j)
    BY <1>1, <2>0, Tangling DEF SameRuns
  <2>2. OnRecord(j)
    BY <2>1 DEF Recorded
  <2>3. OnRecord(j)'
    BY <2>0, <2>2 DEF OnRecord, TypeOK
  <2>4. Remembers(j)' /\ Undisturbed(j)' /\ Removes(j)'
    BY <1>1, <1>2, <1>3, <2>0 DEF Remembers, Undisturbed, Removes
  <2> QED BY <2>3, <2>4
<1> QED BY <1>4, <1>5, <1>6

-----------------------------------------------------------------------------
(* One lemma per action                                                    *)

LEMMA RunKeeps ==
  ASSUME IInv, NEW j \in Jobs, Run(j)
  PROVE  IInv'
<1> USE DEF IInv
<1> DEFINE new == [job |-> j, phase |-> "checks", child |-> "none"]
<1> PICK n \in Nat : n = Len(runs)
  BY Fields
<1>0. /\ runs' \in Seq(RunRecord) /\ Len(runs') = n + 1
      /\ \A q \in 1..n : runs'[q] = runs[q]
      /\ runs'[n + 1] = new
  <2>1. new \in RunRecord
    BY DEF RunRecord, Phases
  <2>2. runs \in Seq(RunRecord)
    BY DEF TypeOK, RunRecord
  <2>3. runs' = Append(runs, new)
    BY DEF Run
  <2> HIDE DEF new
  <2> QED BY <2>1, <2>2, <2>3, AppendProperties
<1>1. /\ process = "up" /\ Cardinality(Slots) < capacity
      /\ active' = [active EXCEPT ![j] = n + 1]
      /\ UNCHANGED <<capacity, process, children, names, cleanup, journal, vms, creating, refused, late,
                     cancels, trouble>>
  BY DEF Run, host, bounds
<1>2. /\ Runs = 1..n /\ Runs' = 1..(n + 1)
      /\ \A q \in Runs : q \in Runs' /\ Job(q)' = Job(q) /\ runs'[q].job = runs[q].job
                         /\ runs'[q].phase = runs[q].phase
      /\ n + 1 \in Runs' /\ Job(n + 1)' = j /\ runs'[n + 1].phase = "checks"
      /\ \A q \in Runs' : q \in Runs \/ q = n + 1
      /\ 0..Len(runs) = Runs \cup {0} /\ 0..Len(runs') = Runs \cup {0, n + 1}
  BY <1>0 DEF Runs, Job
<1>3. QInv'
  BY Accepts
<1>4. IsFiniteSet(Slots') /\ Cardinality(Slots') <= capacity
  <2>1. IsFiniteSet(Slots) /\ Cardinality(Slots) \in Nat /\ capacity \in 1..4
    BY FS_CardinalityType, Fields DEF Books
  <2>2. IsFiniteSet(Slots \cup {j}) /\ Cardinality(Slots \cup {j}) \in Nat
        /\ Cardinality(Slots \cup {j}) <= Cardinality(Slots) + 1
    <3> HIDE DEF IInv
    <3>1. /\ IsFiniteSet(Slots \cup {j})
          /\ Cardinality(Slots \cup {j}) = IF j \in Slots THEN Cardinality(Slots) ELSE Cardinality(Slots) + 1
      BY <2>1, FS_AddElement
    <3> QED BY <2>1, <3>1
  <2>3. Slots' \subseteq Slots \cup {j}
    BY <1>1 DEF Slots, TypeOK
  <2>4. IsFiniteSet(Slots') /\ Cardinality(Slots') <= Cardinality(Slots \cup {j}) /\ Cardinality(Slots') \in Nat
    BY <2>2, <2>3, FS_Subset, FS_CardinalityType
  <2> QED BY <1>1, <2>1, <2>2, <2>4
<1>5. TypeOK'
  <2>1. runs' \in Seq([job: Jobs, phase: Phases, child: {"none", "running", "killed"}])
    BY <1>0 DEF RunRecord
  <2>2. cleanup' \in Seq([job: Jobs, run: 0..Len(runs'), stage: {"cleanup", "report"}, vm: -1..Len(runs')])
    <3>1. cleanup \in Seq(CallRecord(Len(runs)))
      BY DEF TypeOK, CallRecord
    <3>2. CallRecord(n) \subseteq CallRecord(n + 1)
      BY DEF CallRecord
    <3>3. cleanup' \in Seq(CallRecord(n + 1))
      BY <1>1, <3>1, <3>2, SeqMonotonic
    <3> QED BY <1>0, <3>3 DEF CallRecord
  <2>3. {active', children', names', journal'} \subseteq [Jobs -> 0..Len(runs')]
    BY <1>1, <1>2 DEF TypeOK
  <2>4. Cardinality({x \in Jobs : active'[x] # 0}) <= capacity'
    BY <1>1, <1>4 DEF Slots
  <2>5. vms' \cup creating' \cup refused' \cup late' \subseteq Runs'
    BY <1>1, <1>2 DEF TypeOK
  <2>6. \A i \in DOMAIN cleanup' : cleanup'[i].vm # -1 => i = 1
    BY <1>1 DEF TypeOK
  <2> QED BY <1>1, <2>1, <2>2, <2>3, <2>4, <2>5, <2>6 DEF TypeOK
<1>6. Idle'
  BY <1>1 DEF Idle
<1>7. Books'
  BY <1>1, <1>2, <1>4 DEF Books, TypeOK
<1>8. Recorded'
  <2> SUFFICES ASSUME NEW k \in Jobs, ~Tangled(k)'
               PROVE  Remembers(k)' /\ Undisturbed(k)' /\ Removes(k)' /\ OnRecord(k)'
    BY DEF Recorded
  <2>1. ~Tangled(k)
    BY <1>1, <1>2, Tangling
  <2>2. Remembers(k) /\ Undisturbed(k) /\ Removes(k) /\ OnRecord(k)
    BY <2>1 DEF Recorded
  <2>3. Remembers(k)'
    BY <1>1, <1>2, <2>2, Fields DEF Remembers, Live
  <2>4. Undisturbed(k)'
    BY <1>1, <1>2, <2>2 DEF Undisturbed
  <2>5. Removes(k)'
    BY <1>1, <2>2 DEF Removes
  <2>6. OnRecord(k)'
    BY <1>1, <1>2, <2>2 DEF OnRecord, TypeOK
  <2> QED BY <2>3, <2>4, <2>5, <2>6
<1> QED BY <1>3, <1>5, <1>6, <1>7, <1>8

(* No call is waiting for a job whose run is about to start its commands,
   and nothing of it is on record, unless the job is tangled.               *)
LEMMA CleanStart ==
  ASSUME IInv, NEW r \in Runs, runs[r].phase = "checks", Granted, ~Tangled(Job(r))
  PROVE  /\ names[Job(r)] = 0
         /\ \A i \in DOMAIN cleanup : cleanup[i].job # Job(r)
<1> USE DEF IInv
<1>0. r \in Alive /\ Job(r) \in Jobs /\ process \in {"up", "stopping"}
  BY Fields, Working DEF Alive, Live
<1>1. names[Job(r)] = 0
  <2> SUFFICES ASSUME names[Job(r)] # 0 PROVE FALSE
    OBVIOUS
  <2> PICK v \in Runs : v = names[Job(r)] /\ Job(v) = Job(r)
    <3>1. 0..Len(runs) = Runs \cup {0}
      BY Fields DEF Runs
    <3> QED BY <1>0, <3>1, Fields DEF Books
  <2>1. runs[v].phase # "checks" /\ (v \in Alive \/ v \in refused)
    BY <1>0 DEF Recorded, Remembers, Alive
  <2>2. v # r
    BY <2>1
  <2>3. CASE v \in Alive
    BY <1>0, <2>2, <2>3, Untangled
  <2>4. CASE v \in refused
    BY <2>2, <2>4 DEF Tangled
  <2> QED BY <2>1, <2>3, <2>4
<1>2. ASSUME NEW k \in DOMAIN cleanup, cleanup[k].job = Job(r)
      PROVE  FALSE
  <2>1. PICK q \in Runs : Job(q) = Job(r) /\ Ended(q)
    BY <1>2 DEF QInv, Calls
  <2>2. capacity = 1
    <3>1. q # r
      BY <2>1 DEF Ended
    <3> QED BY <2>1, <3>1, Fields DEF Tangled
  <2>3. cleanup # <<>> /\ 1 \in DOMAIN cleanup /\ Head(cleanup) = cleanup[1] /\ k \in Int /\ k >= 1
    <3>1. DOMAIN cleanup = 1..Len(cleanup) /\ Len(cleanup) \in Nat
      BY Fields
    <3>2. cleanup # <<>>
      <4> SUFFICES ASSUME cleanup = <<>> PROVE FALSE
        OBVIOUS
      <4> QED BY <1>2
    <3> QED BY <3>1, <3>2
  <2>4. cleanup[1].vm # Waiting
    BY <2>3 DEF Granted
  <2>5. CASE cleanup[1].job = Job(r)
    BY <1>0, <1>1, <2>3, <2>4, <2>5 DEF Recorded, Removes, QInv, Calls
  <2>6. CASE cleanup[1].job # Job(r)
    <3>1. 1 < k
      <4>1. k # 1
        BY <1>2, <2>6
      <4> QED BY <2>3, <4>1
    <3>2. PICK m \in DOMAIN cleanup : Pending(m)
      BY <1>2, <2>2, <2>3, <2>6, <3>1 DEF QInv, Ordered
    <3>3. cleanup[m].run \in Runs /\ cleanup[m].stage \in {"cleanup", "report"}
      <4>1. 0..Len(runs) = Runs \cup {0}
        BY Fields DEF Runs
      <4> QED BY <3>2, <4>1, Fields DEF Pending
    <3>4. cleanup[m].run \in Alive /\ runs[cleanup[m].run].phase # "checks"
      BY <3>2, <3>3 DEF Pending, Alive, Live
    <3> QED BY <1>0, <2>2, <3>4, OneAlive DEF QInv
  <2> QED BY <2>5, <2>6
<1> QED BY <1>1, <1>2

LEMMA NameKeeps ==
  ASSUME IInv, NEW r \in Runs, Name(r)
  PROVE  IInv'
<1> USE DEF IInv
<1>0. /\ runs[r].phase = "checks" /\ Granted
      /\ names' = [names EXCEPT ![Job(r)] = r] /\ journal' = names'
      /\ runs' = Moved(r, "create", "running")
      /\ children' = [children EXCEPT ![Job(r)] = r]
      /\ UNCHANGED <<capacity, process, active, cleanup, vms, creating, refused, late, cancels, trouble>>
  BY DEF Name, host, bounds
<1>1. r \in Alive /\ Job(r) \in Jobs /\ process \in {"up", "stopping"} /\ names = journal
  BY <1>0, Fields, Working DEF Alive, Live
<1>2. Only(r, "create")
  BY <1>0, MovedRuns DEF Phases
<1>3. /\ Runs' = Runs /\ SameRuns
      /\ \A q \in Runs : Job(q)' = Job(q) /\ Job(q) \in Jobs /\ runs'[q].job = runs[q].job
      /\ \A q \in Runs : runs'[q].phase = IF q = r THEN "create" ELSE runs[q].phase
  BY <1>2, Fields DEF Only, SameRuns, Runs, Job
<1>4. r \in 0..Len(runs) /\ r # 0
  BY Fields DEF Runs
<1>5. /\ \A j \in Jobs : names'[j] = IF j = Job(r) THEN r ELSE names[j]
      /\ names' \in [Jobs -> 0..Len(runs)] /\ children' \in [Jobs -> 0..Len(runs)]
  BY <1>0, <1>1, <1>4 DEF TypeOK
<1>6. TypeOK' /\ Idle' /\ Books'
  <2>1. {active', children', names', journal'} \subseteq [Jobs -> 0..Len(runs)]
    BY <1>0, <1>5 DEF TypeOK
  <2>2. cleanup' \in Seq(CallRecord(Len(runs)))
    BY <1>0 DEF TypeOK, CallRecord
  <2>3. \A i \in DOMAIN cleanup' : cleanup'[i].vm # -1 => i = 1
    BY <1>0 DEF TypeOK
  <2>4. vms' \cup creating' \cup refused' \cup late' \subseteq Runs
    BY <1>0 DEF TypeOK
  <2>5. cancels' \in 0..MaxCancels /\ trouble' \in 0..MaxTrouble
    BY <1>0 DEF TypeOK
  <2>6. \A j \in Jobs : \/ names'[j] \in {0, names[j], journal[j]}
                        \/ names'[j] \in Runs /\ Job(names'[j]) = j
    BY <1>5
  <2> QED BY <1>0, <1>1, <1>3, <2>1, <2>2, <2>3, <2>4, <2>5, <2>6, Keeps
<1>7. QInv'
  BY <1>0, <1>3, Onward DEF QInv, Calls
<1>8. Recorded'
  <2> SUFFICES ASSUME NEW j \in Jobs, ~Tangled(j)'
               PROVE  Remembers(j)' /\ Undisturbed(j)' /\ Removes(j)' /\ OnRecord(j)'
    BY DEF Recorded
  <2>1. ~Tangled(j)
    BY <1>0, <1>3, Tangling
  <2>2. Remembers(j) /\ Undisturbed(j) /\ Removes(j) /\ OnRecord(j)
    BY <2>1 DEF Recorded
  <2>3. CASE j # Job(r)
    <3>1. names'[j] = names[j] /\ journal'[j] = journal[j]
      BY <1>0, <1>1, <1>5, <2>3
    <3>2. Remembers(j)'
      <4>1. names[j] # 0 => names[j] \in Runs
        BY <1>2, Fields DEF Runs
      <4> QED BY <1>0, <1>3, <2>2, <3>1, <4>1 DEF Remembers, Live
    <3>3. Undisturbed(j)'
      BY <1>0, <1>3, <2>2, <2>3, <3>1 DEF Undisturbed
    <3>4. Removes(j)'
      BY <1>0, <2>2, <3>1 DEF Removes
    <3>5. OnRecord(j)'
      BY <1>0, <1>3, <2>2, <3>1 DEF OnRecord, TypeOK
    <3> QED BY <3>2, <3>3, <3>4, <3>5
  <2>4. CASE j = Job(r)
    <3>1. names'[j] = r /\ journal'[j] = r /\ names[j] = 0 /\ journal[j] = 0
          /\ \A i \in DOMAIN cleanup : cleanup[i].job # j
      BY <1>0, <1>1, <1>5, <2>1, <2>4, CleanStart
    <3>2. Remembers(j)'
      BY <1>3, <3>1 DEF Remembers, Live
    <3>3. Undisturbed(j)'
      <4> SUFFICES ASSUME NEW q \in Runs, q # r, Job(q) = j, runs[q].phase \in {"create", "work"}
                   PROVE  FALSE
        BY <1>0, <1>3, <3>1 DEF Undisturbed
      <4>1. q \in Alive
        BY DEF Alive, Live
      <4> QED BY <1>1, <2>1, <2>4, <4>1, Untangled
    <3>4. Removes(j)'
      BY <1>0, <3>1 DEF Removes
    <3>5. OnRecord(j)'
      <4>1. \A v \in vms : v \in Runs /\ v # 0
        BY Fields DEF TypeOK, Runs
      <4> QED BY <1>0, <1>3, <2>2, <3>1, <4>1 DEF OnRecord
    <3> QED BY <3>2, <3>3, <3>4, <3>5
  <2> QED BY <2>3, <2>4
<1> QED BY <1>6, <1>7, <1>8

LEMMA AppearsKeeps ==
  ASSUME IInv, NEW r \in Runs, Appears(r)
  PROVE  IInv'
<1> USE DEF IInv
<1>0. /\ runs[r].phase = "create" /\ vms' = vms \cup {r}
      /\ UNCHANGED <<capacity, process, runs, active, children, names, cleanup, journal, creating, refused,
                     late, cancels, trouble>>
  BY DEF Appears, MakesVM, memory, bounds
<1>1. r \in Alive /\ Job(r) \in Jobs /\ names = journal
  BY <1>0, Fields, Working DEF Alive, Live
<1>2. TypeOK'
  BY <1>0 DEF TypeOK, Alive, Live, memory, Runs
<1>3. Idle' /\ Books'
  BY <1>0 DEF Idle, Books, Alive, Live, Runs, Job, Slots
<1>4. QInv'
  BY <1>0 DEF QInv, Calls, Once, Queued, Owners, Ordered, Ended, Pending, Alive, Live, Runs, Job
<1>5. Recorded'
  <2> SUFFICES ASSUME NEW j \in Jobs, ~Tangled(j)'
               PROVE  Remembers(j)' /\ Undisturbed(j)' /\ Removes(j)' /\ OnRecord(j)'
    BY DEF Recorded
  <2>0. Runs' = Runs /\ \A q \in Runs : Job(q)' = Job(q)
    BY <1>0 DEF Runs, Job
  <2>1. ~Tangled(j)
    BY <1>0, <2>0, Tangling
  <2>2. Remembers(j) /\ Undisturbed(j) /\ Removes(j) /\ OnRecord(j)
    BY <2>1 DEF Recorded
  <2>3. Remembers(j)' /\ Undisturbed(j)' /\ Removes(j)'
    BY <1>0, <2>0, <2>2 DEF Remembers, Undisturbed, Removes, Live
  <2>4. OnRecord(j)'
    BY <1>0, <1>1, <2>0, <2>2 DEF OnRecord, Undisturbed, TypeOK
  <2> QED BY <2>3, <2>4
<1> QED BY <1>2, <1>3, <1>4, <1>5

LEMMA CreatedKeeps ==
  ASSUME IInv, NEW r \in Runs, Created(r)
  PROVE  IInv'
<1> USE DEF IInv
<1>0. /\ runs[r].phase = "create"
      /\ runs' = [Killed(Job(r), runs) EXCEPT ![r].phase = "work", ![r].child = "running"]
      /\ children' = [children EXCEPT ![Job(r)] = r]
      /\ UNCHANGED <<capacity, process, active, names, cleanup, journal, vms, creating, refused, late,
                     cancels, trouble>>
  BY DEF Created, host, bounds
<1>1. r \in Alive /\ Job(r) \in Jobs /\ process \in {"up", "stopping"} /\ names = journal
  BY <1>0, Fields, Working DEF Alive, Live
<1>2. Only(r, "work")
  BY <1>0, <1>1, KilledMoves DEF Phases
<1>3. /\ Runs' = Runs /\ SameRuns
      /\ \A q \in Runs : Job(q)' = Job(q) /\ Job(q) \in Jobs /\ runs'[q].job = runs[q].job
      /\ \A q \in Runs : runs'[q].phase = IF q = r THEN "work" ELSE runs[q].phase
  BY <1>2, Fields DEF Only, SameRuns, Runs, Job
<1>6. TypeOK' /\ Idle' /\ Books'
  <2>1. {active', children', names', journal'} \subseteq [Jobs -> 0..Len(runs)]
    <3>1. r \in 0..Len(runs)
      BY Fields DEF Runs
    <3>2. {active, children, names, journal} \subseteq [Jobs -> 0..Len(runs)]
      BY DEF TypeOK
    <3>3. children' \in [Jobs -> 0..Len(runs)]
      BY <1>0, <1>1, <3>1, <3>2
    <3> QED BY <1>0, <3>2, <3>3
  <2>2. cleanup' \in Seq(CallRecord(Len(runs)))
    BY <1>0 DEF TypeOK, CallRecord
  <2>3. /\ \A i \in DOMAIN cleanup' : cleanup'[i].vm # -1 => i = 1
        /\ vms' \cup creating' \cup refused' \cup late' \subseteq Runs
        /\ cancels' \in 0..MaxCancels /\ trouble' \in 0..MaxTrouble
    BY <1>0 DEF TypeOK
  <2> QED BY <1>0, <1>1, <1>3, <2>1, <2>2, <2>3, Keeps
<1>7. QInv'
  BY <1>0, <1>3, Onward DEF QInv, Calls
<1>8. Recorded'
  <2> SUFFICES ASSUME NEW j \in Jobs, ~Tangled(j)'
               PROVE  Remembers(j)' /\ Undisturbed(j)' /\ Removes(j)' /\ OnRecord(j)'
    BY DEF Recorded
  <2>1. ~Tangled(j)
    BY <1>0, <1>3, Tangling
  <2>2. Remembers(j) /\ Undisturbed(j) /\ Removes(j) /\ OnRecord(j)
    BY <2>1 DEF Recorded
  <2>3. Remembers(j)'
    <3>1. names[j] # 0 => names[j] \in Runs
      BY Fields DEF Runs
    <3>2. CASE names[j] = r
      <4>1. names'[j] = r /\ runs'[r].phase = "work"
        BY <3>2, <1>0, <1>3
      <4> QED BY <4>1 DEF Remembers, Live
    <3>3. CASE names[j] # r
      BY <3>1, <3>3, <1>0, <1>3, <2>2 DEF Remembers, Live
    <3> QED BY <3>2, <3>3
  <2>4. Undisturbed(j)'
    BY <1>0, <1>3, <2>2 DEF Undisturbed
  <2>5. Removes(j)' /\ OnRecord(j)'
    BY <1>0, <1>3, <2>2 DEF Removes, OnRecord, TypeOK
  <2> QED BY <2>3, <2>4, <2>5
<1> QED BY <1>6, <1>7, <1>8

(* What all steps have in common in which a run leaves its commands, or goes
   from one call of cancel() to the next, or is cancelled in its second.    *)
LEMMA CancelKeeps ==
  ASSUME IInv, NEW r \in Alive, NEW p \in {"cleanup", "report"}, Only(r, p),
         p = "cleanup" => runs[r].phase \in {"checks", "create", "work"},
         p = "report" => runs[r].phase \in {"cleanup", "report"},
         QInv',
         cleanup' \in Seq(CallRecord(Len(runs))),
         \A i \in DOMAIN cleanup' :
            \/ i \in DOMAIN cleanup /\ cleanup'[i] = cleanup[i]
            \/ cleanup'[i].job = Job(r) /\ cleanup'[i].vm = -1,
         children' \in [Jobs -> 0..Len(runs)],
         creating' \subseteq Runs, cancels' \in 0..MaxCancels,
         UNCHANGED <<capacity, process, active, names, journal, vms, refused, late, trouble>>
  PROVE  IInv'
<1> USE DEF IInv
<1>1. r \in Runs /\ Job(r) \in Jobs /\ process \in {"up", "stopping"} /\ names = journal
  BY Fields, Working DEF Alive, Live
<1>3. /\ Runs' = Runs /\ SameRuns
      /\ \A q \in Runs : Job(q)' = Job(q) /\ Job(q) \in Jobs /\ runs'[q].job = runs[q].job
      /\ \A q \in Runs : runs'[q].phase = IF q = r THEN p ELSE runs[q].phase
  BY Fields DEF Only, SameRuns, Runs, Job
<1>6. TypeOK' /\ Idle' /\ Books'
  <2>1. {active', children', names', journal'} \subseteq [Jobs -> 0..Len(runs)]
    BY DEF TypeOK
  <2>2. /\ \A i \in DOMAIN cleanup' : cleanup'[i].vm # -1 => i = 1
        /\ vms' \cup creating' \cup refused' \cup late' \subseteq Runs
        /\ trouble' \in 0..MaxTrouble
    BY DEF TypeOK
  <2> QED BY <1>1, <1>3, <2>1, <2>2, Keeps
<1>8. Recorded'
  <2> SUFFICES ASSUME NEW j \in Jobs, ~Tangled(j)'
               PROVE  Remembers(j)' /\ Undisturbed(j)' /\ Removes(j)' /\ OnRecord(j)'
    BY DEF Recorded
  <2>1. ~Tangled(j)
    BY <1>3, Tangling
  <2>2. Remembers(j) /\ Undisturbed(j) /\ Removes(j) /\ OnRecord(j)
    BY <2>1 DEF Recorded
  <2>3. Remembers(j)'
    <3>1. names[j] # 0 => names[j] \in Runs
      BY Fields DEF Runs
    <3>2. p # "checks" /\ p # "done"
      OBVIOUS
    <3> QED BY <1>3, <2>2, <3>1, <3>2 DEF Remembers, Live
  <2>4. Undisturbed(j)'
    <3> SUFFICES ASSUME NEW q \in Runs, q # r, Job(q) = j, runs[q].phase \in {"create", "work"},
                        NEW i \in DOMAIN cleanup'
                 PROVE  names[j] = q /\ cleanup'[i].job # j
      <4>1. p \notin {"create", "work"}
        OBVIOUS
      <4>2. \A q \in Runs : Job(q) = j /\ runs[q].phase \in {"create", "work"} => names[j] = q
        BY <2>2 DEF Undisturbed
      <4> QED BY <1>3, <4>1, <4>2 DEF Undisturbed
    <3>1. Job(r) # j
      <4>1. q \in Alive
        BY DEF Alive, Live
      <4> QED BY <2>1, <4>1, Untangled
    <3> QED BY <2>2, <3>1 DEF Undisturbed
  <2>5. Removes(j)'
    BY <2>2 DEF Removes, Waiting
  <2>6. OnRecord(j)'
    BY <1>3, <2>2 DEF OnRecord, TypeOK
  <2> QED BY <2>3, <2>4, <2>5, <2>6
<1> QED BY <1>6, <1>8

(* The rest of the types, where a step needs them.                          *)
LEMMA Others ==
  ASSUME TypeOK
  PROVE  /\ children \in [Jobs -> 0..Len(runs)] /\ 0 \in 0..Len(runs)
         /\ vms \subseteq Runs /\ creating \subseteq Runs /\ refused \subseteq Runs /\ late \subseteq Runs
         /\ MaxCancels \in Nat /\ MaxTrouble \in Nat
         /\ cancels \in 0..MaxCancels /\ trouble \in 0..MaxTrouble
         /\ cancels < MaxCancels => cancels + 1 \in 0..MaxCancels
         /\ trouble < MaxTrouble => trouble + 1 \in 0..MaxTrouble
<1>1. MaxCancels \in Nat /\ MaxTrouble \in Nat
  BY WorkerAssumption
<1>2. cancels \in 0..MaxCancels /\ trouble \in 0..MaxTrouble
  BY DEF TypeOK
<1>3. children \in [Jobs -> 0..Len(runs)] /\ 0 \in 0..Len(runs)
  BY Fields DEF TypeOK
<1>4. vms \subseteq Runs /\ creating \subseteq Runs /\ refused \subseteq Runs /\ late \subseteq Runs
  BY DEF TypeOK
<1> QED BY <1>1, <1>2, <1>3, <1>4

LEMMA EndsKeeps ==
  ASSUME IInv, NEW r \in Runs, Ends(r)
  PROVE  IInv'
<1> USE DEF IInv
<1>0. /\ runs[r].phase \in {"checks", "create", "work"}
      /\ runs' = [Killed(Job(r), runs) EXCEPT ![r].phase = "cleanup", ![r].child = "none"]
      /\ children' = [children EXCEPT ![Job(r)] = 0]
      /\ creating' \subseteq creating \cup {r}
      /\ cleanup' = Append(cleanup, Call(Job(r), r, "cleanup"))
      /\ UNCHANGED <<capacity, process, active, names, journal, vms, refused, late, cancels, trouble>>
  BY DEF Ends, Closed, bounds
<1>1. r \in Alive /\ Job(r) \in Jobs
  BY <1>0, Fields DEF Alive, Live
<1>2. Only(r, "cleanup")
  BY <1>0, <1>1, KilledMoves DEF Phases
<1> PICK n \in Nat : n = Len(cleanup)
  BY Fields
<1>3. /\ cleanup' \in Seq(CallRecord(Len(runs))) /\ Len(cleanup') = n + 1
      /\ \A i \in 1..n : cleanup'[i] = cleanup[i]
      /\ cleanup'[n + 1] = Call(Job(r), r, "cleanup")
  <2>1. Call(Job(r), r, "cleanup") \in CallRecord(Len(runs)) /\ cleanup \in Seq(CallRecord(Len(runs)))
    BY CallType DEF TypeOK, CallRecord
  <2> QED BY <1>0, <2>1, AppendProperties
<1>4. DOMAIN cleanup' = 1..(n + 1) /\ DOMAIN cleanup = 1..n
  BY <1>3, LenProperties, Fields
<1>5. QInv'
  <2> PICK s \in {0, 1} : s = 0
    OBVIOUS
  <2> PICK m \in {0, 1} : m = 0
    OBVIOUS
  <2> PICK last \in Nat : last = n + m + 1
    OBVIOUS
  <2> PICK stage \in {"cleanup", "report"} : stage = "cleanup"
    OBVIOUS
  <2>1. n + s = Len(cleanup) /\ last = n + 1
    OBVIOUS
  <2>2. /\ \A i \in 1..n : cleanup'[i] = cleanup[i + s]
        /\ DOMAIN cleanup' = 1..last /\ cleanup'[last] = Call(Job(r), r, stage)
    BY <1>3, <1>4, <2>1
  <2>3. /\ stage = "cleanup" => runs[r].phase \in {"checks", "create", "work"}
        /\ stage = "report" => runs[r].phase = "cleanup"
        /\ s = 1 => cleanup[1].run = r
        /\ m = 1 => cleanup'[n + 1] = Call(Job(r), 0, "report")
        /\ Only(r, stage) /\ UNCHANGED <<capacity, active>>
    BY <1>0, <1>2
  <2>4. TypeOK /\ QInv
    OBVIOUS
  <2> HIDE DEF IInv
  <2> QED BY <2>1, <2>2, <2>3, <2>4, Leaves
<1>6. \A i \in DOMAIN cleanup' :
        \/ i \in DOMAIN cleanup /\ cleanup'[i] = cleanup[i]
        \/ cleanup'[i].job = Job(r) /\ cleanup'[i].vm = -1
  BY <1>3, <1>4 DEF Call, Waiting
<1>7. /\ children' \in [Jobs -> 0..Len(runs)] /\ creating' \subseteq Runs /\ cancels' \in 0..MaxCancels
  BY <1>0, <1>1, Others
<1> QED BY <1>0, <1>1, <1>2, <1>3, <1>5, <1>6, <1>7, CancelKeeps

LEMMA OverdueKeeps ==
  ASSUME IInv, NEW r \in Runs, Overdue(r)
  PROVE  IInv'
<1> USE DEF IInv
<1>0. /\ runs[r].phase = "cleanup" /\ cancels < MaxCancels /\ cancels' = cancels + 1
      /\ runs' = [Killed(Job(r), runs) EXCEPT ![r].phase = "report"]
      /\ cleanup' = Append(cleanup, Call(Job(r), r, "report"))
      /\ UNCHANGED <<capacity, process, active, children, names, journal, vms, creating, refused, late, trouble>>
  BY DEF Overdue, host
<1>1. r \in Alive /\ Job(r) \in Jobs
  BY <1>0, Fields DEF Alive, Live
<1>2. Only(r, "report")
  <2>1. "none" \in {"none", "running", "killed"} /\ "report" \in Phases
    BY DEF Phases
  <2> QED BY <1>0, <1>1, <2>1, KilledMoves
<1> PICK n \in Nat : n = Len(cleanup)
  BY Fields
<1>3. /\ cleanup' \in Seq(CallRecord(Len(runs))) /\ Len(cleanup') = n + 1
      /\ \A i \in 1..n : cleanup'[i] = cleanup[i]
      /\ cleanup'[n + 1] = Call(Job(r), r, "report")
  <2>1. Call(Job(r), r, "report") \in CallRecord(Len(runs)) /\ cleanup \in Seq(CallRecord(Len(runs)))
    BY CallType DEF TypeOK, CallRecord
  <2> QED BY <1>0, <2>1, AppendProperties
<1>4. DOMAIN cleanup' = 1..(n + 1) /\ DOMAIN cleanup = 1..n
  BY <1>3, LenProperties, Fields
<1>5. QInv'
  <2> PICK s \in {0, 1} : s = 0
    OBVIOUS
  <2> PICK m \in {0, 1} : m = 0
    OBVIOUS
  <2> PICK last \in Nat : last = n + m + 1
    OBVIOUS
  <2> PICK stage \in {"cleanup", "report"} : stage = "report"
    OBVIOUS
  <2>1. n + s = Len(cleanup) /\ last = n + 1
    OBVIOUS
  <2>2. /\ \A i \in 1..n : cleanup'[i] = cleanup[i + s]
        /\ DOMAIN cleanup' = 1..last /\ cleanup'[last] = Call(Job(r), r, stage)
    BY <1>3, <1>4, <2>1
  <2>3. /\ stage = "cleanup" => runs[r].phase \in {"checks", "create", "work"}
        /\ stage = "report" => runs[r].phase = "cleanup"
        /\ s = 1 => cleanup[1].run = r
        /\ m = 1 => cleanup'[n + 1] = Call(Job(r), 0, "report")
        /\ Only(r, stage) /\ UNCHANGED <<capacity, active>>
    BY <1>0, <1>2
  <2>4. TypeOK /\ QInv
    OBVIOUS
  <2> HIDE DEF IInv
  <2> QED BY <2>1, <2>2, <2>3, <2>4, Leaves
<1>6. \A i \in DOMAIN cleanup' :
        \/ i \in DOMAIN cleanup /\ cleanup'[i] = cleanup[i]
        \/ cleanup'[i].job = Job(r) /\ cleanup'[i].vm = -1
  BY <1>3, <1>4 DEF Call, Waiting
<1>7. /\ children' \in [Jobs -> 0..Len(runs)] /\ creating' \subseteq Runs /\ cancels' \in 0..MaxCancels
  BY <1>0, Others
<1> QED BY <1>0, <1>1, <1>2, <1>3, <1>5, <1>6, <1>7, CancelKeeps

LEMMA TwoCalls ==
  ASSUME TypeOK, NEW r \in Runs, NEW stage \in {"cleanup", "report"}, NEW n \in Nat, n = Len(cleanup),
         cleanup' = cleanup \o <<Call(Job(r), 0, "report"), Call(Job(r), r, stage)>>
  PROVE  /\ cleanup' \in Seq(CallRecord(Len(runs))) /\ Len(cleanup') = n + 2
         /\ \A i \in 1..n : cleanup'[i] = cleanup[i]
         /\ cleanup'[n + 1] = Call(Job(r), 0, "report") /\ cleanup'[n + 2] = Call(Job(r), r, stage)
<1> DEFINE a == Call(Job(r), 0, "report")
           b == Call(Job(r), r, stage)
           S == CallRecord(Len(runs))
<1>1. a \in S /\ b \in S /\ cleanup \in Seq(S)
  BY CallType DEF TypeOK, CallRecord
<1>2. cleanup' = cleanup \o <<a, b>>
  OBVIOUS
<1> HIDE DEF a, b, S
<1>3. <<a, b>> \in Seq(S) /\ Len(<<a, b>>) = 2 /\ <<a, b>>[1] = a /\ <<a, b>>[2] = b
  BY <1>1
<1>4. /\ cleanup' \in Seq(S) /\ Len(cleanup') = n + 2
      /\ \A i \in 1..(n + 2) : cleanup'[i] = IF i <= n THEN cleanup[i] ELSE <<a, b>>[i - n]
  BY <1>1, <1>2, <1>3, ConcatProperties
<1>5. cleanup'[n + 1] = a /\ cleanup'[n + 2] = b
  <2>1. n + 1 \in 1..(n + 2) /\ n + 2 \in 1..(n + 2) /\ ~(n + 1 <= n) /\ ~(n + 2 <= n)
        /\ (n + 1) - n = 1 /\ (n + 2) - n = 2
    OBVIOUS
  <2> QED BY <1>3, <1>4, <2>1
<1>6. \A i \in 1..n : cleanup'[i] = cleanup[i]
  <2>1. \A i \in 1..n : i \in 1..(n + 2) /\ i <= n
    OBVIOUS
  <2> QED BY <1>4, <2>1
<1> QED BY <1>4, <1>5, <1>6 DEF a, b, S

LEMMA CancelsKeep ==
  ASSUME IInv, NEW j \in Jobs, Cancel(j)
  PROVE  IInv'
<1> USE DEF IInv
<1> PICK r : r = active[j]
  OBVIOUS
<1> PICK n \in Nat : n = Len(cleanup)
  BY Fields
<1>0. /\ r # 0 /\ cancels < MaxCancels /\ cancels' = cancels + 1
      /\ UNCHANGED <<capacity, process, active, names, journal, vms, refused, late, trouble>>
  BY DEF Cancel
<1>1. r \in Runs /\ Job(r) = j
  <2>1. 0..Len(runs) = Runs \cup {0}
    BY Fields DEF Runs
  <2> QED BY <1>0, <2>1, Fields DEF Books
<1>3. cancels' \in 0..MaxCancels
  BY <1>0, Others
<1>4. {"cleanup", "report"} \subseteq Phases /\ "none" \in {"none", "running", "killed"}
  BY DEF Phases
<1>5. CASE /\ runs[r].phase \in {"checks", "create", "work"}
           /\ Closed(r)
           /\ cleanup' = cleanup \o <<Call(j, 0, "report"), Call(j, r, "cleanup")>>
  <2>0. /\ runs[r].phase \in {"checks", "create", "work"}
        /\ runs' = [Killed(Job(r), runs) EXCEPT ![r].phase = "cleanup", ![r].child = "none"]
        /\ cleanup' = cleanup \o <<Call(j, 0, "report"), Call(j, r, "cleanup")>>
        /\ children' \in [Jobs -> 0..Len(runs)] /\ creating' \subseteq Runs
    BY <1>1, <1>5, Others DEF Closed
  <2>1. r \in Alive
    BY <1>1, <2>0 DEF Alive, Live
  <2>2. Only(r, "cleanup")
    BY <1>1, <2>0, <1>4, KilledMoves
  <2>3. /\ cleanup' \in Seq(CallRecord(Len(runs))) /\ Len(cleanup') = n + 2
        /\ \A i \in 1..n : cleanup'[i] = cleanup[i]
        /\ cleanup'[n + 1] = Call(j, 0, "report") /\ cleanup'[n + 2] = Call(j, r, "cleanup")
    BY <1>1, <2>0, TwoCalls
  <2>4. DOMAIN cleanup' = 1..(n + 2) /\ DOMAIN cleanup = 1..n
    BY <2>3, LenProperties, Fields
  <2>5. QInv'
    <3> PICK s \in {0, 1} : s = 0
      OBVIOUS
    <3> PICK m \in {0, 1} : m = 1
      OBVIOUS
    <3> PICK last \in Nat : last = n + m + 1
      OBVIOUS
    <3> PICK stage \in {"cleanup", "report"} : stage = "cleanup"
      OBVIOUS
    <3>1. n + s = Len(cleanup) /\ last = n + 2
      OBVIOUS
    <3>2. /\ \A i \in 1..n : cleanup'[i] = cleanup[i + s]
          /\ DOMAIN cleanup' = 1..last /\ cleanup'[last] = Call(Job(r), r, stage)
      BY <1>1, <2>3, <2>4, <3>1
    <3>3. /\ stage = "cleanup" => runs[r].phase \in {"checks", "create", "work"}
          /\ stage = "report" => runs[r].phase = "cleanup"
          /\ s = 1 => cleanup[1].run = r
          /\ m = 1 => cleanup'[n + 1] = Call(Job(r), 0, "report")
          /\ Only(r, stage) /\ UNCHANGED <<capacity, active>>
      BY <1>0, <1>1, <2>0, <2>2, <2>3
    <3>4. TypeOK /\ QInv
      OBVIOUS
    <3> HIDE DEF IInv
    <3> QED BY <1>1, <3>1, <3>2, <3>3, <3>4, Leaves
  <2>6. \A i \in DOMAIN cleanup' :
          \/ i \in DOMAIN cleanup /\ cleanup'[i] = cleanup[i]
          \/ cleanup'[i].job = Job(r) /\ cleanup'[i].vm = -1
    BY <1>1, <2>3, <2>4 DEF Call, Waiting
  <2> QED BY <1>0, <1>3, <2>0, <2>1, <2>2, <2>3, <2>5, <2>6, CancelKeeps
<1>6. CASE /\ runs[r].phase = "cleanup"
           /\ runs' = [Killed(j, runs) EXCEPT ![r].phase = "report"]
           /\ cleanup' = cleanup \o <<Call(j, 0, "report"), Call(j, r, "report")>>
           /\ UNCHANGED <<children, creating>>
  <2>0. /\ runs[r].phase = "cleanup"
        /\ runs' = [Killed(j, runs) EXCEPT ![r].phase = "report"]
        /\ cleanup' = cleanup \o <<Call(j, 0, "report"), Call(j, r, "report")>>
        /\ children' \in [Jobs -> 0..Len(runs)] /\ creating' \subseteq Runs
    BY <1>6, Others
  <2>1. r \in Alive
    BY <1>1, <2>0 DEF Alive, Live
  <2>2. Only(r, "report")
    BY <1>1, <2>0, <1>4, KilledMoves
  <2>3. /\ cleanup' \in Seq(CallRecord(Len(runs))) /\ Len(cleanup') = n + 2
        /\ \A i \in 1..n : cleanup'[i] = cleanup[i]
        /\ cleanup'[n + 1] = Call(j, 0, "report") /\ cleanup'[n + 2] = Call(j, r, "report")
    BY <1>1, <2>0, TwoCalls
  <2>4. DOMAIN cleanup' = 1..(n + 2) /\ DOMAIN cleanup = 1..n
    BY <2>3, LenProperties, Fields
  <2>5. QInv'
    <3> PICK s \in {0, 1} : s = 0
      OBVIOUS
    <3> PICK m \in {0, 1} : m = 1
      OBVIOUS
    <3> PICK last \in Nat : last = n + m + 1
      OBVIOUS
    <3> PICK stage \in {"cleanup", "report"} : stage = "report"
      OBVIOUS
    <3>1. n + s = Len(cleanup) /\ last = n + 2
      OBVIOUS
    <3>2. /\ \A i \in 1..n : cleanup'[i] = cleanup[i + s]
          /\ DOMAIN cleanup' = 1..last /\ cleanup'[last] = Call(Job(r), r, stage)
      BY <1>1, <2>3, <2>4, <3>1
    <3>3. /\ stage = "cleanup" => runs[r].phase \in {"checks", "create", "work"}
          /\ stage = "report" => runs[r].phase = "cleanup"
          /\ s = 1 => cleanup[1].run = r
          /\ m = 1 => cleanup'[n + 1] = Call(Job(r), 0, "report")
          /\ Only(r, stage) /\ UNCHANGED <<capacity, active>>
      BY <1>0, <1>1, <2>0, <2>2, <2>3
    <3>4. TypeOK /\ QInv
      OBVIOUS
    <3> HIDE DEF IInv
    <3> QED BY <1>1, <3>1, <3>2, <3>3, <3>4, Leaves
  <2>6. \A i \in DOMAIN cleanup' :
          \/ i \in DOMAIN cleanup /\ cleanup'[i] = cleanup[i]
          \/ cleanup'[i].job = Job(r) /\ cleanup'[i].vm = -1
    BY <1>1, <2>3, <2>4 DEF Call, Waiting
  <2> QED BY <1>0, <1>3, <2>0, <2>1, <2>2, <2>3, <2>5, <2>6, CancelKeeps
<1>7. CASE /\ runs[r].phase = "report"
           /\ runs' = Killed(j, runs)
           /\ cleanup' = Append(cleanup, Call(j, 0, "report"))
           /\ UNCHANGED <<children, creating>>
  <2>1. r \in Alive
    BY <1>1, <1>7 DEF Alive, Live
  <2>2. SamePhases
    BY <1>7, KilledStays
  <2>3. Only(r, "report")
    BY <1>1, <1>7, <2>2 DEF Only, SamePhases
  <2>4. /\ cleanup' \in Seq(CallRecord(Len(runs))) /\ Len(cleanup') = n + 1
        /\ \A i \in 1..n : cleanup'[i] = cleanup[i]
        /\ cleanup'[n + 1] = Call(Job(r), 0, "report")
    <3>1. Call(Job(r), 0, "report") \in CallRecord(Len(runs)) /\ cleanup \in Seq(CallRecord(Len(runs)))
      BY <1>1, CallType DEF TypeOK, CallRecord
    <3>2. cleanup' = Append(cleanup, Call(Job(r), 0, "report"))
      BY <1>1, <1>7
    <3> QED BY <3>1, <3>2, AppendProperties
  <2>5. DOMAIN cleanup' = 1..(n + 1) /\ DOMAIN cleanup = 1..n /\ n + 1 \in Nat
    BY <2>4, LenProperties, Fields
  <2>6. QInv'
    BY <1>0, <1>1, <1>7, <2>2, <2>4, <2>5, Again
  <2>7. \A i \in DOMAIN cleanup' :
          \/ i \in DOMAIN cleanup /\ cleanup'[i] = cleanup[i]
          \/ cleanup'[i].job = Job(r) /\ cleanup'[i].vm = -1
    BY <1>1, <2>4, <2>5 DEF Call, Waiting
  <2>8. children' \in [Jobs -> 0..Len(runs)] /\ creating' \subseteq Runs
    BY <1>7, Others
  <2> QED BY <1>0, <1>3, <1>7, <2>1, <2>3, <2>4, <2>6, <2>7, <2>8, CancelKeeps
<1> QED BY <1>5, <1>6, <1>7 DEF Cancel

(* A call of cancel() is through.  It drops out, or its run goes on to its
   second call, or its run is over.                                         *)
LEMMA ReturnsKeeps ==
  ASSUME IInv, cleanup # <<>>, NEW failed \in BOOLEAN, Returns(failed), UNCHANGED capacity
  PROVE  /\ QInv' /\ SameRuns
         /\ cleanup' \in Seq(CallRecord(Len(runs)))
         /\ \A i \in DOMAIN cleanup' :
              /\ cleanup'[i].vm = -1
              /\ \E k \in DOMAIN cleanup : cleanup'[i].job = cleanup[k].job
         /\ \A q \in Runs :
              \/ runs'[q].phase = runs[q].phase
              \/ runs[q].phase = "cleanup" /\ runs'[q].phase = "report"
              \/ runs[q].phase = "report" /\ runs'[q].phase = "done" /\ Job(q) = cleanup[1].job
         /\ active' \in [Jobs -> 0..Len(runs)] /\ \A j \in Jobs : active'[j] \in {0, active[j]}
<1> USE DEF IInv
<1> PICK call : call = Head(cleanup)
  OBVIOUS
<1> PICK n \in Nat : n + 1 = Len(cleanup)
  <2>1. Len(cleanup) \in Nat \ {0}
    BY EmptySeq DEF TypeOK
  <2> QED BY <2>1
<1> DEFINE S == CallRecord(Len(runs))
<1>1. /\ cleanup \in Seq(S) /\ Tail(cleanup) \in Seq(S) /\ Len(Tail(cleanup)) = n
      /\ \A i \in 1..n : Tail(cleanup)[i] = cleanup[i + 1]
  <2>1. cleanup \in Seq(S)
    BY DEF TypeOK, CallRecord
  <2> HIDE DEF S
  <2> QED BY <2>1, HeadTailProperties
<1>2. DOMAIN cleanup = 1..(n + 1) /\ call = cleanup[1] /\ 1 \in 1..(n + 1)
      /\ \A i \in 1..n : i + 1 \in 1..(n + 1)
  BY Fields
<1>3. /\ call.job \in Jobs /\ call.run \in Runs \cup {0} /\ call.stage \in {"cleanup", "report"}
      /\ call.run # 0 => Job(call.run) = call.job
  <2>1. 0..Len(runs) = Runs \cup {0}
    BY Fields DEF Runs
  <2> QED BY <1>2, <2>1, Fields DEF QInv, Calls
<1>4. \A i \in 1..n : cleanup[i + 1].vm = -1
  <2>1. \A i \in 1..n : i + 1 # 1
    OBVIOUS
  <2> QED BY <1>2, <2>1 DEF TypeOK
<1>5. CASE /\ call.run = 0 \/ runs[call.run].phase # call.stage
           /\ cleanup' = Tail(cleanup) /\ UNCHANGED <<runs, active>>
  <2>1. SamePhases
    BY <1>5, Fields DEF SamePhases, SameRuns, TypeOK, RunRecord
  <2>2. ~Pending(1)
    BY <1>2, <1>5 DEF Pending
  <2>3. DOMAIN cleanup' = 1..n /\ \A i \in 1..n : cleanup'[i] = cleanup[i + 1]
    BY <1>1, <1>5, LenProperties
  <2>4. QInv'
    BY <1>5, <2>1, <2>2, <2>3, Drops
  <2>5. active' \in [Jobs -> 0..Len(runs)] /\ \A j \in Jobs : active'[j] \in {0, active[j]}
    BY <1>5 DEF TypeOK
  <2> QED BY <1>1, <1>2, <1>4, <1>5, <2>1, <2>3, <2>4, <2>5 DEF SamePhases
<1>6. CASE /\ call.run # 0 /\ runs[call.run].phase = call.stage /\ call.stage = "cleanup"
           /\ runs' = [Killed(call.job, runs) EXCEPT ![call.run].phase = "report"]
           /\ cleanup' = Append(Tail(cleanup), Call(call.job, call.run, "report"))
           /\ UNCHANGED active
  <2> PICK r \in Runs : r = call.run /\ Job(r) = call.job /\ runs[r].phase = "cleanup"
    BY <1>3, <1>6
  <2>1. Only(r, "report")
    <3>1. "none" \in {"none", "running", "killed"} /\ "report" \in Phases
      BY DEF Phases
    <3> QED BY <1>3, <1>6, <3>1, KilledMoves
  <2>2. /\ cleanup' \in Seq(S) /\ Len(cleanup') = n + 1
        /\ \A i \in 1..n : cleanup'[i] = cleanup[i + 1]
        /\ cleanup'[n + 1] = Call(Job(r), r, "report")
    <3>1. Call(Job(r), r, "report") \in S
      BY CallType
    <3>2. cleanup' = Append(Tail(cleanup), Call(Job(r), r, "report"))
      BY <1>6
    <3> HIDE DEF S
    <3> QED BY <1>1, <3>1, <3>2, AppendProperties
  <2>3. DOMAIN cleanup' = 1..(n + 1)
    BY <2>2, LenProperties
  <2>4. QInv'
    <3> PICK s \in {0, 1} : s = 1
      OBVIOUS
    <3> PICK m \in {0, 1} : m = 0
      OBVIOUS
    <3> PICK last \in Nat : last = n + m + 1
      OBVIOUS
    <3> PICK stage \in {"cleanup", "report"} : stage = "report"
      OBVIOUS
    <3>1. n + s = Len(cleanup) /\ last = n + 1
      OBVIOUS
    <3>2. /\ \A i \in 1..n : cleanup'[i] = cleanup[i + s]
          /\ DOMAIN cleanup' = 1..last /\ cleanup'[last] = Call(Job(r), r, stage)
      BY <2>2, <2>3, <3>1
    <3>3. /\ stage = "cleanup" => runs[r].phase \in {"checks", "create", "work"}
          /\ stage = "report" => runs[r].phase = "cleanup"
          /\ s = 1 => cleanup[1].run = r
          /\ m = 1 => cleanup'[n + 1] = Call(Job(r), 0, "report")
          /\ Only(r, stage) /\ UNCHANGED <<capacity, active>>
      BY <1>2, <1>6, <2>1
    <3>4. TypeOK /\ QInv
      OBVIOUS
    <3> HIDE DEF IInv
    <3> QED BY <3>1, <3>2, <3>3, <3>4, Leaves
  <2>5. \A i \in DOMAIN cleanup' :
          /\ cleanup'[i].vm = -1
          /\ \E k \in DOMAIN cleanup : cleanup'[i].job = cleanup[k].job
    <3> SUFFICES ASSUME NEW i \in 1..(n + 1)
                 PROVE  /\ cleanup'[i].vm = -1
                        /\ \E k \in DOMAIN cleanup : cleanup'[i].job = cleanup[k].job
      BY <2>3
    <3>1. CASE i \in 1..n
      BY <1>2, <1>4, <2>2, <3>1
    <3>2. CASE i = n + 1
      BY <1>2, <2>2, <3>2 DEF Call, Waiting
    <3> QED BY <3>1, <3>2
  <2>6. active' \in [Jobs -> 0..Len(runs)] /\ \A j \in Jobs : active'[j] \in {0, active[j]}
    BY <1>6 DEF TypeOK
  <2> QED BY <2>1, <2>2, <2>4, <2>5, <2>6 DEF Only
<1>7. CASE /\ call.run # 0 /\ runs[call.run].phase = call.stage /\ call.stage # "cleanup"
           /\ runs' = Moved(call.run, "done", "none")
           /\ active' = SlotOf(call.run)
           /\ cleanup' = Tail(cleanup)
  <2> PICK r \in Runs : r = call.run /\ Job(r) = call.job /\ runs[r].phase = "report"
    BY <1>3, <1>7
  <2>1. Only(r, "done")
    <3>1. "none" \in {"none", "running", "killed"} /\ "done" \in Phases
      BY DEF Phases
    <3> QED BY <1>7, <3>1, MovedRuns
  <2>2. DOMAIN cleanup' = 1..n /\ \A i \in 1..n : cleanup'[i] = cleanup[i + 1]
    BY <1>1, <1>7, LenProperties
  <2>3. \A j \in Jobs : active'[j] = IF j = Job(r) THEN 0 ELSE active[j]
    BY <1>7 DEF SlotOf, TypeOK
  <2>4. cleanup[1].run = r /\ cleanup[1].stage = "report"
    BY <1>2, <1>3, <1>7
  <2>5. QInv'
    <3>1. TypeOK /\ Books /\ QInv
      OBVIOUS
    <3> HIDE DEF IInv
    <3> QED BY <2>1, <2>2, <2>3, <2>4, <3>1, Finishes
  <2>6. active' \in [Jobs -> 0..Len(runs)] /\ \A j \in Jobs : active'[j] \in {0, active[j]}
    <3>1. active' = [active EXCEPT ![Job(r)] = 0] /\ active \in [Jobs -> 0..Len(runs)] /\ 0 \in 0..Len(runs)
      BY <1>7, Others DEF SlotOf, TypeOK
    <3>2. active' \in [Jobs -> 0..Len(runs)]
      BY <3>1
    <3> QED BY <2>3, <3>2
  <2>7. \A i \in DOMAIN cleanup' :
          /\ cleanup'[i].vm = -1
          /\ \E k \in DOMAIN cleanup : cleanup'[i].job = cleanup[k].job
    BY <1>2, <1>4, <2>2
  <2>8. cleanup' \in Seq(S)
    BY <1>1, <1>7
  <2> QED BY <1>2, <2>1, <2>5, <2>6, <2>7, <2>8 DEF Only
<1> QED BY <1>5, <1>6, <1>7 DEF Returns

(* The name that was looked up under the lock is none: the call is through. *)
LEMMA GrantKeeps ==
  ASSUME IInv, Grant
  PROVE  IInv'
<1> USE DEF IInv
<1>0. /\ cleanup # <<>> /\ Head(cleanup).vm = Waiting
      /\ UNCHANGED <<capacity, process, children, names, journal, vms, creating, refused, late, cancels, trouble>>
  BY DEF Grant, host, bounds
<1>1. /\ 1 \in DOMAIN cleanup /\ Head(cleanup) = cleanup[1] /\ cleanup[1].job \in Jobs
      /\ cleanup[1].vm = -1
  <2>1. Len(cleanup) \in Nat \ {0} /\ DOMAIN cleanup = 1..Len(cleanup)
    BY <1>0, EmptySeq, Fields DEF TypeOK
  <2> QED BY <1>0, <2>1, Fields DEF Waiting
<1>2. process \in {"up", "stopping"} /\ names = journal
  BY <1>0, Working
<1> PICK vm : vm = names[cleanup[1].job]
  OBVIOUS
<1>3. CASE vm = 0 /\ Returns(FALSE)
  <2>1. /\ QInv' /\ SameRuns
        /\ cleanup' \in Seq(CallRecord(Len(runs)))
        /\ \A i \in DOMAIN cleanup' :
             /\ cleanup'[i].vm = -1
             /\ \E k \in DOMAIN cleanup : cleanup'[i].job = cleanup[k].job
        /\ \A q \in Runs :
             \/ runs'[q].phase = runs[q].phase
             \/ runs[q].phase = "cleanup" /\ runs'[q].phase = "report"
             \/ runs[q].phase = "report" /\ runs'[q].phase = "done" /\ Job(q) = cleanup[1].job
        /\ active' \in [Jobs -> 0..Len(runs)] /\ \A j \in Jobs : active'[j] \in {0, active[j]}
    BY <1>0, <1>3, ReturnsKeeps
  <2>2. Runs' = Runs /\ \A q \in Runs : Job(q)' = Job(q)
    BY <2>1 DEF SameRuns, Runs, Job
  <2>3. TypeOK' /\ Idle' /\ Books'
    <3>1. {active', children', names', journal'} \subseteq [Jobs -> 0..Len(runs)]
      BY <1>0, <2>1 DEF TypeOK
    <3>2. vms' \cup creating' \cup refused' \cup late' \subseteq Runs
          /\ cancels' \in 0..MaxCancels /\ trouble' \in 0..MaxTrouble
      BY <1>0 DEF TypeOK
    <3> QED BY <1>0, <1>2, <2>1, <3>1, <3>2, Keeps
  <2>4. Recorded'
    <3> SUFFICES ASSUME NEW j \in Jobs, ~Tangled(j)'
                 PROVE  Remembers(j)' /\ Undisturbed(j)' /\ Removes(j)' /\ OnRecord(j)'
      BY DEF Recorded
    <3>1. ~Tangled(j)
      BY <1>0, <2>1, <2>2, Tangling DEF SameRuns
    <3>2. Remembers(j) /\ Undisturbed(j) /\ Removes(j) /\ OnRecord(j)
      BY <3>1 DEF Recorded
    <3>3. Remembers(j)'
      <4> SUFFICES ASSUME names[j] # 0
                   PROVE  runs'[names[j]].phase # "checks"
                          /\ (runs'[names[j]].phase # "done" \/ names[j] \in refused)
        BY <1>0 DEF Remembers, Live
      <4>1. names[j] \in Runs /\ Job(names[j]) = j
        BY Fields DEF Runs, Books
      <4>2. runs[names[j]].phase # "checks" /\ (runs[names[j]].phase # "done" \/ names[j] \in refused)
        BY <1>2, <3>2 DEF Remembers, Live
      <4>3. j # cleanup[1].job
        BY <1>3
      <4> QED BY <2>1, <4>1, <4>2, <4>3
    <3>4. Undisturbed(j)'
      BY <1>0, <2>1, <2>2, <3>2 DEF Undisturbed
    <3>5. Removes(j)'
      BY <2>1 DEF Removes, Waiting
    <3>6. OnRecord(j)'
      BY <1>0, <2>2, <3>2 DEF OnRecord, TypeOK
    <3> QED BY <3>3, <3>4, <3>5, <3>6
  <2> QED BY <2>1, <2>3, <2>4
<1>4. CASE vm # 0 /\ cleanup' = [cleanup EXCEPT ![1].vm = vm] /\ UNCHANGED <<runs, active>>
  <2>1. vm \in 0..Len(runs) /\ cleanup \in [1..Len(cleanup) -> CallRecord(Len(runs))]
        /\ DOMAIN cleanup = 1..Len(cleanup) /\ Len(cleanup) \in Nat /\ Len(runs) \in Nat
    BY <1>1, Fields
  <2>2. /\ cleanup' \in [1..Len(cleanup) -> CallRecord(Len(runs))]
        /\ \A i \in 1..Len(cleanup) :
             /\ cleanup'[i].job = cleanup[i].job /\ cleanup'[i].run = cleanup[i].run
             /\ cleanup'[i].stage = cleanup[i].stage
             /\ cleanup'[i].vm = IF i = 1 THEN vm ELSE cleanup[i].vm
    <3>1. cleanup[1] \in CallRecord(Len(runs)) /\ vm \in -1..Len(runs)
      BY <1>1, <2>1
    <3> QED BY <1>1, <1>4, <2>1, <3>1 DEF CallRecord
  <2>3. cleanup' \in Seq(CallRecord(Len(runs))) /\ DOMAIN cleanup' = DOMAIN cleanup
    BY <2>1, <2>2, FunctionIsSeq
  <2>4. SameRuns /\ Runs' = Runs /\ \A q \in Runs : Job(q)' = Job(q)
    BY <1>4 DEF SameRuns, Runs, Job, TypeOK, RunRecord
  <2>5. QInv'
    <3>1. \A i \in DOMAIN cleanup : cleanup[i].vm # 0
      BY DEF QInv, Calls
    <3>2. \A i \in DOMAIN cleanup :
            /\ cleanup'[i].job = cleanup[i].job /\ cleanup'[i].run = cleanup[i].run
            /\ cleanup'[i].stage = cleanup[i].stage /\ cleanup'[i].vm # 0
      BY <1>4, <2>1, <2>2, <3>1
    <3> QED BY <1>0, <1>4, <2>3, <2>4, <3>2, Onward
  <2>6. TypeOK' /\ Idle' /\ Books'
    <3>1. {active', children', names', journal'} \subseteq [Jobs -> 0..Len(runs)]
      BY <1>0, <1>4 DEF TypeOK
    <3>2. vms' \cup creating' \cup refused' \cup late' \subseteq Runs
          /\ cancels' \in 0..MaxCancels /\ trouble' \in 0..MaxTrouble
      BY <1>0 DEF TypeOK
    <3>3. \A i \in DOMAIN cleanup' : cleanup'[i].vm # -1 => i = 1
      BY <2>1, <2>2, <2>3 DEF TypeOK
    <3>4. \A j \in Jobs : active'[j] \in {0, active[j]}
      BY <1>4
    <3> QED BY <1>0, <1>2, <2>3, <2>4, <3>1, <3>2, <3>3, <3>4, Keeps
  <2>7. Recorded'
    <3> SUFFICES ASSUME NEW j \in Jobs, ~Tangled(j)'
                 PROVE  Remembers(j)' /\ Undisturbed(j)' /\ Removes(j)' /\ OnRecord(j)'
      BY DEF Recorded
    <3>1. ~Tangled(j)
      BY <1>0, <2>4, Tangling DEF SameRuns
    <3>2. Remembers(j) /\ Undisturbed(j) /\ Removes(j) /\ OnRecord(j)
      BY <3>1 DEF Recorded
    <3>3. Remembers(j)'
      BY <1>0, <1>4, <3>2 DEF Remembers, Live
    <3>4. Undisturbed(j)'
      BY <1>0, <1>4, <2>1, <2>2, <2>3, <2>4, <3>2 DEF Undisturbed
    <3>5. Removes(j)'
      BY <1>0, <2>1, <2>2, <2>3, <3>2 DEF Removes
    <3>6. OnRecord(j)'
      BY <1>0, <2>4, <3>2 DEF OnRecord, TypeOK
    <3> QED BY <3>3, <3>4, <3>5, <3>6
  <2> QED BY <2>5, <2>6, <2>7
<1> QED BY <1>1, <1>3, <1>4 DEF Grant

(* The removal is over, by success or by an error.                          *)
LEMMA RemovalKeeps ==
  ASSUME IInv, Removed \/ Refused
  PROVE  IInv'
<1> USE DEF IInv
<1>0. /\ cleanup # <<>> /\ Head(cleanup).vm \notin {Waiting, 0}
      /\ UNCHANGED <<capacity, process, children, creating, late>>
  BY DEF Removed, Refused, bounds
<1>1. /\ 1 \in DOMAIN cleanup /\ Head(cleanup) = cleanup[1] /\ cleanup[1].job \in Jobs
      /\ cleanup[1].vm \in Runs /\ cleanup[1].vm # Waiting
  <2>1. Len(cleanup) \in Nat \ {0} /\ DOMAIN cleanup = 1..Len(cleanup)
    BY <1>0, EmptySeq, Fields DEF TypeOK
  <2>2. -1..Len(runs) = Runs \cup {-1, 0}
    BY Fields DEF Runs
  <2> QED BY <1>0, <2>1, <2>2, Fields DEF Waiting
<1>2. process \in {"up", "stopping"} /\ names = journal
  BY <1>0, Working
<1> PICK vm \in Runs : vm = cleanup[1].vm
  BY <1>1
<1>3. \E failed \in BOOLEAN : Returns(failed)
  BY DEF Removed, Refused
<1>4. /\ QInv' /\ SameRuns
      /\ cleanup' \in Seq(CallRecord(Len(runs)))
      /\ \A i \in DOMAIN cleanup' :
           /\ cleanup'[i].vm = -1
           /\ \E k \in DOMAIN cleanup : cleanup'[i].job = cleanup[k].job
      /\ \A q \in Runs :
           \/ runs'[q].phase = runs[q].phase
           \/ runs[q].phase = "cleanup" /\ runs'[q].phase = "report"
           \/ runs[q].phase = "report" /\ runs'[q].phase = "done" /\ Job(q) = cleanup[1].job
      /\ active' \in [Jobs -> 0..Len(runs)] /\ \A j \in Jobs : active'[j] \in {0, active[j]}
  BY <1>0, <1>3, ReturnsKeeps
<1>5. Runs' = Runs /\ \A q \in Runs : Job(q)' = Job(q)
  BY <1>4 DEF SameRuns, Runs, Job
<1>6. \/ /\ vms' = vms \ {vm} /\ names' = [names EXCEPT ![cleanup[1].job] = 0] /\ journal' = names'
         /\ UNCHANGED <<refused, cancels, trouble>>
      \/ /\ vms' \in {vms, vms \ {vm}} /\ refused' = refused \cup {vm}
         /\ UNCHANGED <<names, journal, cancels>> /\ trouble' \in 0..MaxTrouble
  BY <1>1, Others DEF Removed, Refused, bounds
<1>7. /\ vms' \subseteq vms /\ refused \subseteq refused' /\ refused' \subseteq Runs
      /\ names' \in [Jobs -> 0..Len(runs)] /\ journal' = names'
      /\ \A j \in Jobs : names'[j] \in {0, names[j]}
      /\ cancels' \in 0..MaxCancels /\ trouble' \in 0..MaxTrouble
  <2>1. /\ names \in [Jobs -> 0..Len(runs)] /\ 0 \in 0..Len(runs)
        /\ refused \subseteq Runs /\ cancels \in 0..MaxCancels /\ trouble \in 0..MaxTrouble
    BY Others DEF TypeOK
  <2>2. vms' \subseteq vms /\ refused \subseteq refused' /\ refused' \subseteq Runs
    BY <1>6, <2>1
  <2>3. cancels' \in 0..MaxCancels /\ trouble' \in 0..MaxTrouble
    BY <1>6, <2>1
  <2>4. /\ names' \in [Jobs -> 0..Len(runs)] /\ journal' = names'
        /\ \A j \in Jobs : names'[j] \in {0, names[j]}
    <3>1. CASE names' = [names EXCEPT ![cleanup[1].job] = 0] /\ journal' = names'
      BY <1>1, <2>1, <3>1
    <3>2. CASE UNCHANGED <<names, journal>>
      BY <1>2, <2>1, <3>2
    <3> QED BY <1>6, <3>1, <3>2
  <2> QED BY <2>2, <2>3, <2>4
<1>8. TypeOK' /\ Idle' /\ Books'
  <2>1. {active', children', names', journal'} \subseteq [Jobs -> 0..Len(runs)]
    BY <1>0, <1>4, <1>7 DEF TypeOK
  <2>2. vms' \cup creating' \cup refused' \cup late' \subseteq Runs
    BY <1>0, <1>7, Others
  <2>3. \A j \in Jobs : \/ names'[j] \in {0, names[j], journal[j]}
                        \/ names'[j] \in Runs /\ Job(names'[j]) = j
    BY <1>7
  <2> QED BY <1>0, <1>2, <1>4, <1>7, <2>1, <2>2, <2>3, Keeps
<1>9. Recorded'
  <2> SUFFICES ASSUME NEW j \in Jobs, ~Tangled(j)'
               PROVE  Remembers(j)' /\ Undisturbed(j)' /\ Removes(j)' /\ OnRecord(j)'
    BY DEF Recorded
  <2>1. ~Tangled(j)
    BY <1>0, <1>4, <1>5, <1>7, Tangling DEF SameRuns
  <2>2. Remembers(j) /\ Undisturbed(j) /\ Removes(j) /\ OnRecord(j)
    BY <2>1 DEF Recorded
  <2>3. cleanup[1].job = j => vm = names[j]
    BY <1>1, <2>2 DEF Removes
  <2>4. Remembers(j)'
    <3> SUFFICES ASSUME names'[j] # 0
                 PROVE  runs'[names'[j]].phase # "checks"
                        /\ (runs'[names'[j]].phase # "done" \/ names'[j] \in refused')
      BY DEF Remembers, Live
    <3>1. names'[j] = names[j] /\ names[j] \in Runs /\ Job(names[j]) = j
      BY <1>7, Fields DEF Runs, Books
    <3>2. runs[names[j]].phase # "checks" /\ (runs[names[j]].phase # "done" \/ names[j] \in refused)
      BY <1>2, <2>2, <3>1 DEF Remembers, Live
    <3>3. CASE j # cleanup[1].job
      BY <1>4, <1>7, <3>1, <3>2, <3>3
    <3>4. CASE j = cleanup[1].job
      <4>1. names[j] \in refused'
        BY <1>1, <1>6, <2>3, <3>1, <3>4, Fields DEF TypeOK
      <4> QED BY <1>4, <3>1, <3>2, <4>1
    <3> QED BY <3>3, <3>4
  <2>5. Undisturbed(j)'
    <3>1. \A q \in Runs : runs'[q].phase \in {"create", "work"} => runs'[q].phase = runs[q].phase
      BY <1>4
    <3>2. \A q \in Runs : Job(q) = j /\ runs[q].phase \in {"create", "work"} =>
             names[j] = q /\ j # cleanup[1].job /\ \A i \in DOMAIN cleanup' : cleanup'[i].job # j
      BY <1>1, <1>4, <2>2 DEF Undisturbed
    <3>3. j # cleanup[1].job => names'[j] = names[j]
      BY <1>6 DEF TypeOK
    <3> QED BY <1>5, <3>1, <3>2, <3>3 DEF Undisturbed
  <2>6. Removes(j)'
    BY <1>4 DEF Removes, Waiting
  <2>7. OnRecord(j)'
    <3> SUFFICES ASSUME NEW v \in vms', Job(v) = j, v \notin late
                 PROVE  journal'[j] = v
      BY <1>0, <1>5, <1>7, Others DEF OnRecord
    <3>1. v \in vms /\ journal[j] = v /\ names[j] = v
      BY <1>2, <1>7, <2>2 DEF OnRecord
    <3>2. CASE UNCHANGED journal
      BY <3>1, <3>2
    <3>3. CASE vms' = vms \ {vm} /\ names' = [names EXCEPT ![cleanup[1].job] = 0] /\ journal' = names'
      BY <2>3, <3>1, <3>3 DEF TypeOK
    <3> QED BY <1>6, <3>2, <3>3
  <2> QED BY <2>4, <2>5, <2>6, <2>7
<1> QED BY <1>4, <1>8, <1>9

LEMMA SweepKeeps ==
  ASSUME IInv, NEW k \in Jobs, Sweep(k)
  PROVE  IInv'
<1> USE DEF IInv
<1>0. /\ Sweeping /\ names[k] # 0 /\ vms' = vms \ {names[k]}
      /\ names' = [names EXCEPT ![k] = 0] /\ journal' = names'
      /\ UNCHANGED <<capacity, process, runs, active, children, cleanup, creating, refused, late,
                     cancels, trouble>>
  BY DEF Sweep, Remembered, bounds
<1>1. /\ Alive = {} /\ cleanup = <<>> /\ process \in {"starting", "stopping"} /\ names = journal
  BY <1>0 DEF Sweeping, Idle, Books
<1>2. SameRuns /\ Runs' = Runs /\ \A q \in Runs : Job(q)' = Job(q)
  BY <1>0 DEF SameRuns, Runs, Job, TypeOK, RunRecord
<1>3. /\ names' \in [Jobs -> 0..Len(runs)]
      /\ \A j \in Jobs : names'[j] = IF j = k THEN 0 ELSE names[j]
  BY <1>0, Others DEF TypeOK
<1>4. TypeOK' /\ Idle' /\ Books'
  <2>1. {active', children', names', journal'} \subseteq [Jobs -> 0..Len(runs)]
    BY <1>0, <1>3 DEF TypeOK
  <2>2. vms' \cup creating' \cup refused' \cup late' \subseteq Runs
        /\ cancels' \in 0..MaxCancels /\ trouble' \in 0..MaxTrouble
    BY <1>0 DEF TypeOK
  <2>3. cleanup' \in Seq(CallRecord(Len(runs))) /\ DOMAIN cleanup' = {}
    BY <1>0, <1>1
  <2>4. \A j \in Jobs : names'[j] \in {0, names[j], journal[j]} /\ active'[j] \in {0, active[j]}
    BY <1>0, <1>3
  <2>5. process' \in {"down", "starting"} =>
            /\ \A r \in Runs : runs'[r].phase = "done"
            /\ active' = NoRuns /\ children' = NoRuns /\ cleanup' = <<>>
    BY <1>0, <1>1 DEF Idle, Alive, Live
  <2> QED BY <1>0, <1>1, <1>2, <2>1, <2>2, <2>3, <2>4, <2>5, Keeps
<1>5. QInv'
  BY <1>0, <1>1, <1>2, Onward
<1>6. Recorded'
  <2> SUFFICES ASSUME NEW j \in Jobs, ~Tangled(j)'
               PROVE  Remembers(j)' /\ Undisturbed(j)' /\ Removes(j)' /\ OnRecord(j)'
    BY DEF Recorded
  <2>1. ~Tangled(j)
    BY <1>0, <1>2, Tangling DEF SameRuns
  <2>2. Remembers(j) /\ Undisturbed(j) /\ Removes(j) /\ OnRecord(j)
    BY <2>1 DEF Recorded
  <2>3. Remembers(j)'
    BY <1>0, <1>3, <2>2 DEF Remembers, Live
  <2>4. Undisturbed(j)'
    BY <1>0, <1>1, <1>2 DEF Undisturbed, Alive, Live
  <2>5. Removes(j)'
    BY <1>0, <1>1 DEF Removes
  <2>6. OnRecord(j)'
    BY <1>0, <1>1, <1>2, <1>3, <2>2, Others DEF OnRecord
  <2> QED BY <2>3, <2>4, <2>5, <2>6
<1> QED BY <1>4, <1>5, <1>6

(* A killed worker, one that stopped, and one whose sweep failed.           *)
LEMMA DeathKeeps ==
  ASSUME IInv, (\E j \in Jobs : SweepFails(j)) \/ Stopped \/ Kill \/ TooSlow
  PROVE  IInv'
<1> USE DEF IInv
<1>1. ASSUME NEW j \in Jobs, SweepFails(j) PROVE IInv'
  <2>1. /\ Gone /\ UNCHANGED <<capacity, journal, vms, late, cancels>>
        /\ refused' = refused \cup {names[j]} /\ names[j] \in vms
        /\ trouble < MaxTrouble /\ trouble' = trouble + 1
    BY <1>1 DEF SweepFails
  <2>2. refused \subseteq refused' /\ refused' \subseteq Runs
        /\ cancels' \in 0..MaxCancels /\ trouble' \in 0..MaxTrouble
    BY <2>1, Others
  <2> QED BY <2>1, <2>2, GoneKeeps
<1>2. CASE Stopped
  BY <1>2, Others, GoneKeeps DEF Stopped, bounds
<1>3. CASE Kill
  BY <1>3, Others, GoneKeeps DEF Kill
<1>4. CASE TooSlow
  BY <1>4, Others, GoneKeeps DEF TooSlow, bounds
<1> QED BY <1>1, <1>2, <1>3, <1>4

(* A process that comes up, is told to stop, or is outlived by a creation.  *)
LEMMA ProcessKeeps ==
  ASSUME IInv, Terminate \/ Restart \/ Ready \/ \E r \in Runs : Outlives(r)
  PROVE  IInv'
<1> USE DEF IInv
<1>0. /\ UNCHANGED <<capacity, runs, active, children, cleanup, journal, refused, cancels>>
      /\ \/ /\ UNCHANGED <<process, names, trouble>> /\ late \subseteq late'
            /\ \E r \in creating : vms' = vms \cup {r} /\ late' = late \cup {r} /\ creating' = creating \ {r}
         \/ /\ UNCHANGED <<names, vms, creating, late>>
            /\ trouble < MaxTrouble /\ trouble' = trouble + 1
            /\ process = "up" /\ process' = "stopping"
         \/ /\ UNCHANGED <<vms, creating, late, trouble>>
            /\ process = "down" /\ process' = "starting" /\ names' = journal
         \/ /\ UNCHANGED <<names, vms, creating, late, trouble>>
            /\ process = "starting" /\ process' = "up" /\ Remembered = {}
  BY DEF Terminate, Restart, Ready, Outlives, memory, host, bounds
<1>1. SameRuns /\ Runs' = Runs /\ \A q \in Runs : Job(q)' = Job(q)
  BY <1>0 DEF SameRuns, Runs, Job, TypeOK, RunRecord
<1>2. /\ vms' \subseteq vms \cup late' /\ late \subseteq late' /\ late' \subseteq Runs /\ vms' \subseteq Runs
      /\ creating' \subseteq Runs /\ trouble' \in 0..MaxTrouble
  <2>1. /\ vms \subseteq Runs /\ creating \subseteq Runs /\ late \subseteq Runs
        /\ trouble \in 0..MaxTrouble
        /\ trouble < MaxTrouble => trouble + 1 \in 0..MaxTrouble
    BY Others
  <2>2. /\ vms' \subseteq vms \cup late' /\ late \subseteq late' /\ late' \subseteq Runs /\ vms' \subseteq Runs
        /\ creating' \subseteq Runs
    BY <1>0, <2>1
  <2> QED BY <1>0, <2>1, <2>2
<1>3. TypeOK' /\ Idle' /\ Books'
  <2>1. {active', children', names', journal'} \subseteq [Jobs -> 0..Len(runs)]
    BY <1>0 DEF TypeOK
  <2>2. vms' \cup creating' \cup refused' \cup late' \subseteq Runs
        /\ cancels' \in 0..MaxCancels
    BY <1>0, <1>2, Others
  <2>3. cleanup' \in Seq(CallRecord(Len(runs))) /\ \A i \in DOMAIN cleanup' : cleanup'[i].vm # -1 => i = 1
    BY <1>0 DEF TypeOK, CallRecord
  <2>4. \A j \in Jobs : names'[j] \in {0, names[j], journal[j]} /\ active'[j] \in {0, active[j]}
    BY <1>0
  <2>5. process' \in {"down", "starting"} =>
            /\ \A r \in Runs : runs'[r].phase = "done"
            /\ active' = NoRuns /\ children' = NoRuns /\ cleanup' = <<>>
    BY <1>0 DEF Idle, Alive, Live
  <2>6. /\ process' # "down" => names' = journal'
        /\ process' = "down" => names' = NoRuns
        /\ process' \in {"up", "stopping", "down", "starting"}
    BY <1>0 DEF Idle, Books, TypeOK
  <2> QED BY <1>0, <1>1, <1>2, <2>1, <2>2, <2>3, <2>4, <2>5, <2>6, Keeps
<1>4. QInv'
  <2>1. \A i \in DOMAIN cleanup : cleanup'[i].vm # 0
    BY <1>0 DEF QInv, Calls
  <2> QED BY <1>0, <1>1, <2>1, Onward
<1>5. Recorded'
  <2> SUFFICES ASSUME NEW j \in Jobs, ~Tangled(j)'
               PROVE  Remembers(j)' /\ Undisturbed(j)' /\ Removes(j)' /\ OnRecord(j)'
    BY DEF Recorded
  <2>1. ~Tangled(j)
    BY <1>0, <1>1, Tangling DEF SameRuns
  <2>2. Remembers(j) /\ Undisturbed(j) /\ Removes(j) /\ OnRecord(j)
    BY <2>1 DEF Recorded
  <2>3. Remembers(j)'
    <3>1. CASE UNCHANGED names /\ (process = "starting" => process' = "starting")
      BY <1>0, <2>2, <3>1 DEF Remembers, Live
    <3>2. CASE process' = "starting"
      BY <3>2 DEF Remembers
    <3>3. CASE UNCHANGED names /\ Remembered = {}
      BY <3>3 DEF Remembers, Remembered
    <3> QED BY <1>0, <3>1, <3>2, <3>3
  <2>4. Undisturbed(j)'
    <3>1. CASE UNCHANGED names
      BY <1>0, <1>1, <2>2, <3>1 DEF Undisturbed
    <3>2. CASE process = "down"
      BY <1>0, <1>1, <3>2 DEF Undisturbed, Idle, Alive, Live
    <3> QED BY <1>0, <3>1, <3>2
  <2>5. Removes(j)'
    <3>1. CASE UNCHANGED names
      BY <1>0, <2>2, <3>1 DEF Removes
    <3>2. CASE process = "down"
      BY <1>0, <3>2 DEF Removes, Idle
    <3> QED BY <1>0, <3>1, <3>2
  <2>6. OnRecord(j)'
    BY <1>0, <1>1, <1>2, <2>2, Others DEF OnRecord
  <2> QED BY <2>3, <2>4, <2>5, <2>6
<1> QED BY <1>3, <1>4, <1>5

-----------------------------------------------------------------------------
(* The theorems                                                            *)

LEMMA Initially == Init => IInv
<1> SUFFICES ASSUME Init PROVE IInv
  OBVIOUS
<1>0. /\ capacity \in Capacities /\ process = "up" /\ runs = <<>>
      /\ active = NoRuns /\ children = NoRuns /\ names = NoRuns /\ journal = NoRuns
      /\ cleanup = <<>> /\ vms = {} /\ creating = {} /\ refused = {} /\ late = {}
      /\ cancels = 0 /\ trouble = 0
  BY DEF Init
<1>1. Len(runs) = 0 /\ Runs = {} /\ DOMAIN cleanup = {}
  BY <1>0 DEF Runs
<1>2. Slots = {} /\ IsFiniteSet(Slots) /\ Cardinality(Slots) = 0
  <2>1. Slots = {}
    BY <1>0 DEF Slots, NoRuns
  <2> QED BY <2>1, FS_EmptySet
<1>3. TypeOK
  <2>1. capacity \in 1..4 /\ MaxCancels \in Nat /\ MaxTrouble \in Nat
    BY <1>0, WorkerAssumption
  <2>2. {active, children, names, journal} \subseteq [Jobs -> 0..Len(runs)]
    BY <1>0, <1>1 DEF NoRuns
  <2>3. /\ runs \in Seq([job: Jobs, phase: Phases, child: {"none", "running", "killed"}])
        /\ cleanup \in Seq([job: Jobs, run: 0..Len(runs), stage: {"cleanup", "report"}, vm: -1..Len(runs)])
    BY <1>0
  <2>4. Cardinality({j \in Jobs : active[j] # 0}) <= capacity
    BY <1>2, <2>1 DEF Slots
  <2> QED BY <1>0, <1>1, <2>1, <2>2, <2>3, <2>4 DEF TypeOK
<1>4. Idle /\ Books
  BY <1>0, <1>2 DEF Idle, Books, NoRuns
<1>5. QInv
  BY <1>0, <1>1 DEF QInv, Calls, Once, Queued, Owners, Ordered, Alive
<1>6. Recorded
  BY <1>0, <1>1 DEF Recorded, Remembers, Undisturbed, Removes, OnRecord, NoRuns
<1> QED BY <1>3, <1>4, <1>5, <1>6 DEF IInv

LEMMA NextKeeps == IInv /\ Next => IInv'
<1> SUFFICES ASSUME IInv, Next PROVE IInv'
  OBVIOUS
<1>1. ASSUME NEW j \in Jobs, Run(j) \/ Cancel(j) \/ Sweep(j) PROVE IInv'
  BY <1>1, RunKeeps, CancelsKeep, SweepKeeps
<1>2. ASSUME NEW r \in Runs, Overdue(r) \/ Step(r) PROVE IInv'
  BY <1>2, OverdueKeeps, NameKeeps, AppearsKeeps, CreatedKeeps, EndsKeeps DEF Step
<1>3. ASSUME Grant \/ Removed \/ Refused PROVE IInv'
  BY <1>3, GrantKeeps, RemovalKeeps
<1>4. ASSUME (\E j \in Jobs : SweepFails(j)) \/ Stopped \/ Kill \/ TooSlow PROVE IInv'
  BY <1>4, DeathKeeps
<1>5. ASSUME Terminate \/ Restart \/ Ready \/ \E r \in Runs : Outlives(r) PROVE IInv'
  BY <1>5, ProcessKeeps
<1> QED BY <1>1, <1>2, <1>3, <1>4, <1>5 DEF Next, Progress

LEMMA StutterKeeps == IInv /\ UNCHANGED vars => IInv'
<1> SUFFICES ASSUME IInv, UNCHANGED vars PROVE IInv'
  OBVIOUS
<1>0. /\ UNCHANGED <<capacity, process, runs, active, children, names, cleanup, journal>>
      /\ UNCHANGED <<vms, creating, refused, late, cancels, trouble>>
  BY DEF vars, memory
<1>1. Runs' = Runs /\ Alive' = Alive /\ Slots' = Slots
  BY <1>0 DEF Runs, Alive, Live, Slots
<1>2. TypeOK'
  BY <1>0, <1>1 DEF IInv, TypeOK, memory
<1>3. Idle' /\ Books'
  BY <1>0, <1>1 DEF IInv, Idle, Books, Job
<1>4. QInv'
  BY <1>0, <1>1 DEF IInv, QInv, Calls, Once, Queued, Owners, Ordered, Ended, Pending, Job
<1>5. Recorded'
  BY <1>0, <1>1 DEF IInv, Recorded, Tangled, Remembers, Undisturbed, Removes, OnRecord, Live, Job
<1> QED BY <1>2, <1>3, <1>4, <1>5 DEF IInv

(* The inductive invariant of the worker: the queue at the cleanup lock, the
   slots, the journal and the VMs stand together in every reachable state.  *)
THEOREM Inductive == Spec => []IInv
<1>1. IInv /\ [Next]_vars => IInv'
  BY NextKeeps, StutterKeeps
<1> QED BY Initially, <1>1, PTL DEF Spec

(* Every request, call and counter keeps its type, and no more slots are
   taken than the worker has (worker.py).                                   *)
THEOREM TypeCorrect == Spec => []TypeOK
<1>1. IInv => TypeOK
  BY DEF IInv
<1> QED BY Inductive, <1>1, PTL

(* The journal holds every VM of a job whose runs did not meet, from before
   it exists until it is gone (SbxRunner).                                  *)
THEOREM AlwaysJournalled == Spec => []Journalled
<1>1. IInv => Journalled
  BY EntangledJob, Fields DEF IInv, Journalled, Recorded, OnRecord, TypeOK
<1> QED BY Inductive, <1>1, PTL

(* No VM of a finished run of such a job is left in a worker that is up,
   unless its removal was refused (both finally blocks).                    *)
THEOREM RemovedAtLast == Spec => []FinallyRemoved
<1>1. IInv => FinallyRemoved
  <2> SUFFICES ASSUME IInv, NEW v \in vms, process = "up", ~Entangled(v), v \notin late
               PROVE  Live(v) \/ v \in refused
    BY DEF FinallyRemoved
  <2>1. v \in Runs /\ v # 0 /\ Job(v) \in Jobs /\ ~Tangled(Job(v))
    BY EntangledJob, Fields, Others DEF IInv, Runs
  <2>2. Remembers(Job(v)) /\ OnRecord(Job(v)) /\ names = journal
    BY <2>1 DEF IInv, Recorded, Books
  <2>3. names[Job(v)] = v
    BY <2>2 DEF OnRecord
  <2> QED BY <2>1, <2>2, <2>3 DEF Remembers
<1> QED BY Inductive, <1>1, PTL

(* A worker of capacity 1 has one run alive at most, whatever is posted
   again, cancelled or overdue (worker.py: the slot is given back last).    *)
THEOREM OneRun == Spec => []OneAtATime
<1>1. IInv => OneAtATime
  <2> SUFFICES ASSUME IInv, capacity = 1 PROVE Cardinality(Alive) <= 1
    BY DEF OneAtATime
  <2>1. \A r, q \in Alive : r = q
    BY OneAlive DEF IInv, QInv
  <2>2. CASE Alive = {}
    BY <2>2, FS_EmptySet
  <2>3. CASE Alive # {}
    <3> PICK r : r \in Alive
      BY <2>3
    <3>1. Alive = {r}
      BY <2>1
    <3>2. Cardinality({r}) = 1
      BY FS_Singleton
    <3> QED BY <3>1, <3>2
  <2> QED BY <2>2, <2>3
<1> QED BY Inductive, <1>1, PTL
=============================================================================
