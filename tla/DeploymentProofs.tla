--------------------------- MODULE DeploymentProofs ---------------------------
(***************************************************************************)
(* What module Deployment promises, for any services, merges, deployments, *)
(* crashes and failures: its type invariant, Installed, and the action     *)
(* properties SwitchesQuietly, HonestOutcome, NewerOnly, HaltsAfterLoss.   *)
(*                                                                         *)
(* The inductive invariant ties the four places that know of a deployment  *)
(* together: its row, the journal, the supervisor's memory at each stage,  *)
(* and what the containers run.                                            *)
(***************************************************************************)
EXTENDS Deployment, TLAPS

(* The rows.  Those of one commit are a history whose last alone may be alive
   or have succeeded; that each has a last is an invariant, too, for it is
   what Previous chooses.                                                   *)
LastOf(sha, o) == o \in Of(sha) /\ \A p \in Of(sha) : p <= o
Queue ==
    /\ \A o \in Ids : ops[o].sha \in 1..head /\ \E p \in Ids : LastOf(ops[o].sha, p)
    /\ \A o, p \in Ids : o < p /\ ops[o].sha = ops[p].sha
                         => ops[o].status \notin {"queued", "running", "succeeded"}
    /\ \A o, p \in Running : o = p
    /\ Running # {} => ~busy

(* The journal names the one deployment that is running, until its outcome has
   been reported; a lost system is known to be lost.                        *)
Journal ==
    /\ journal.phase = "none" => journal = NoRecord
    /\ journal.phase = "complete" <=> journal.status # "none"
    /\ journal.phase # "none" =>
          /\ journal.id \in Ids /\ Running \subseteq {journal.id}
          /\ \/ ops[journal.id].status = "running"
             \/ journal.phase = "complete" /\ ops[journal.id].status = journal.status
    /\ last = "rollback_failed" => journal.phase = "none" \/ journal.status = "rollback_failed"
    /\ (\E o \in Ids : ops[o].status = "rollback_failed") => Lost

(* What the supervisor remembers is what the journal says, but for what it has
   not saved yet.                                                           *)
Installing == {"install", "installing", "installed", "baselined"}
Undoing == {"undo", "undoing", "undone", "restored"}
Reporting == {"report", "receipt", "unlink"}
Memory ==
    /\ stage = "claimed" =>
          /\ journal = NoRecord /\ last # "rollback_failed"
          /\ record.id \in Ids /\ ops[record.id].status = "running"
          /\ record.phase = "preflight" /\ record.status = "none"
    /\ stage = "preflight" => journal = record /\ record.phase = "preflight"
    /\ stage = "checked" =>
          /\ journal.phase = "preflight" /\ journal.id = record.id
          /\ record.phase = "preflight" /\ record.status = "none"
          /\ record.old = Uniform(baseline) /\ record.oldSha = baseline
          /\ Candidate > baseline
    /\ stage \in Installing \cup Undoing => journal = record /\ record.phase = "switching"
    /\ stage \in Reporting => journal = record /\ record.phase = "complete"
    /\ stage \in {"receipt", "unlink"} => ops[record.id].status = record.status
    /\ stage = "unlink" => last = record.status

(* How far a switch has come.                                               *)
Earned(sha) == sha = 0 \/ \E o \in Ids : ops[o].sha = sha /\ ops[o].status = "succeeded"
Switch ==
    /\ journal.phase = "switching" =>
          /\ journal.old = Uniform(journal.oldSha) /\ Earned(journal.oldSha)
          /\ ops[journal.id].sha > journal.oldSha
    /\ stage \in {"install", "installing", "installed"} => baseline = record.oldSha
    /\ stage \in {"installing", "installed", "baselined"} => override = Uniform(Candidate)
    /\ stage \in {"installed", "baselined"} => images = Uniform(Candidate)
    /\ stage = "baselined" => baseline = Candidate
    /\ stage \in {"undoing", "undone", "restored"} => override = record.old
    /\ stage \in {"undone", "restored"} => images = record.old
    /\ stage = "restored" => baseline = record.oldSha

(* The baseline is a release that succeeded.                                *)
Baseline ==
    /\ baseline <= head
    /\ journal.status = "succeeded" => baseline = ops[journal.id].sha
    /\ journal.phase # "switching" /\ journal.status # "succeeded" /\ ~Lost => Earned(baseline)

IInv == TypeOK /\ Queue /\ Journal /\ Memory /\ Switch /\ Baseline /\ Installed

-----------------------------------------------------------------------------
(* Rows                                                                     *)

LEMMA Marking ==
    ASSUME TypeOK, NEW o \in Ids, NEW status \in Statuses,
           ops' = [ops EXCEPT ![o].status = status]
    PROVE  /\ ops' \in Seq(Operations) /\ Len(ops') = Len(ops) /\ Ids' = Ids
           /\ \A p \in Ids : /\ ops'[p].sha = ops[p].sha
                              /\ ops'[p].expired = ops[p].expired
                              /\ ops'[p].status = IF p = o THEN status ELSE ops[p].status
<1> DEFINE row == [ops[o] EXCEPT !.status = status]
<1>1. ops \in Seq(Operations) /\ Len(ops) \in Nat /\ o \in 1..Len(ops) /\ ops[o] \in Operations
  BY DEF TypeOK, Ids
<1>2. row \in Operations
  BY <1>1 DEF Operations
<1>3. ops' = [ops EXCEPT ![o] = row]
  OBVIOUS
<1> HIDE DEF row
<1>4. /\ ops' \in Seq(Operations) /\ Len(ops') = Len(ops)
      /\ \A p \in 1..Len(ops) : ops'[p] = IF p = o THEN row ELSE ops[p]
  BY <1>1, <1>2, <1>3
<1> QED
  BY <1>1, <1>4 DEF Ids, row, Operations

LEMMA Appending ==
    ASSUME TypeOK, NEW row \in Operations, ops' = Append(ops, row)
    PROVE  /\ ops' \in Seq(Operations) /\ Len(ops') = Len(ops) + 1 /\ Len(ops) \in Nat
           /\ Ids' = Ids \cup {Len(ops) + 1}
           /\ \A p \in Ids : ops'[p] = ops[p]
           /\ ops'[Len(ops) + 1] = row
<1>1. ops \in Seq(Operations) /\ Len(ops) \in Nat
  BY DEF TypeOK
<1>2. /\ ops' \in Seq(Operations) /\ Len(ops') = Len(ops) + 1
      /\ \A p \in 1..Len(ops) : ops'[p] = ops[p]
      /\ ops'[Len(ops) + 1] = row
  BY <1>1
<1> QED
  BY <1>1, <1>2 DEF Ids

LEMMA RowTypes ==
    ASSUME TypeOK
    PROVE  /\ Len(ops) \in Nat /\ Ids = 1..Len(ops)
           /\ \A o \in Ids : ops[o] \in Operations
BY DEF TypeOK, Ids

LEMMA NoRecordType == NoRecord \in Records
<1>1. 0 \in Shas /\ Uniform(0) \in Images
  BY DeploymentAssumption DEF Shas, Images, Uniform
<1> QED
  BY <1>1, DeploymentAssumption DEF NoRecord, Records

LEMMA Initially == Init => IInv
<1> SUFFICES ASSUME Init PROVE IInv
  OBVIOUS
<1> USE DEF Init
<1>0. Ids = {} /\ Running = {} /\ Len(ops) = 0 /\ ops \in Seq(Operations)
  BY DEF Ids, Running
<1>1. 0 \in Shas /\ Uniform(0) \in Images
  BY DeploymentAssumption DEF Shas, Images, Uniform
<1>2. NoRecord \in Records
  BY <1>1, DeploymentAssumption DEF NoRecord, Records
<1>3. TypeOK
  <2>1. head \in Shas /\ images \in Images /\ broken \subseteq Shas /\ journal \in Records
    BY <1>1, <1>2
  <2>2. baseline \in Shas /\ override \in Images /\ record \in Records /\ last = "none"
    BY <1>1, <1>2
  <2>3. Len(ops) <= MaxOps /\ trouble \in 0..MaxTrouble /\ stage \in Stages
    BY <1>0, DeploymentAssumption DEF Stages
  <2>4. busy \in BOOLEAN /\ resumed \in BOOLEAN
    OBVIOUS
  <2> HIDE DEF Init
  <2> QED
    BY <1>0, <2>1, <2>2, <2>3, <2>4 DEF TypeOK
<1>4. Queue
  BY <1>0 DEF Queue
<1>5. Journal /\ Memory /\ Switch
  BY <1>0 DEF Journal, Memory, Switch, NoRecord, Installing, Undoing, Reporting
<1>6. Baseline /\ Installed
  BY <1>1 DEF Baseline, Installed, Earned, NoRecord, Shas
<1> QED
  BY <1>3, <1>4, <1>5, <1>6 DEF IInv

-----------------------------------------------------------------------------
(* Steps that leave the rows and the containers alone keep what is said of
   them alone.                                                              *)

LEMMA QueueFrame ==
    ASSUME Queue, UNCHANGED controller
    PROVE  Queue'
BY DEF Queue, LastOf, Of, Running, Ids, controller

-----------------------------------------------------------------------------
(* agent_team/deployments.py                                                *)

LEMMA MergeKeeps == ASSUME IInv, Merge PROVE IInv'
<1>1. /\ head' = head + 1 /\ head < MaxShas
      /\ UNCHANGED <<ops, busy, images, broken, journal, baseline, override, last,
                     record, resumed, stage, trouble>>
  BY DEF Merge, Calm, disk, memory
<1>2. TypeOK'
  BY <1>1, DeploymentAssumption DEF IInv, TypeOK, Shas
<1>3. Queue'
  <2>1. \A o \in Ids : ops[o].sha \in 1..head /\ \E p \in Ids : LastOf(ops[o].sha, p)
    BY DEF IInv, Queue
  <2>2. head \in Nat
    BY DEF IInv, TypeOK, Shas
  <2>3. \A o \in Ids : ops[o].sha \in 1..head'
    BY <1>1, <2>1, <2>2
  <2> QED
    BY <1>1, <2>1, <2>3 DEF IInv, Queue, LastOf, Of, Running, Ids
<1>4. Journal' /\ Memory' /\ Switch' /\ Installed'
  BY <1>1 DEF IInv, Journal, Memory, Switch, Installed, Lost, Running, Ids, Earned, Candidate
<1>5. Baseline'
  BY <1>1 DEF IInv, TypeOK, Shas, Baseline, Lost, Ids, Earned
<1> QED
  BY <1>2, <1>3, <1>4, <1>5 DEF IInv

LEMMA JobKeeps == ASSUME IInv, StartJob \/ EndJob PROVE IInv'
<1>1. /\ UNCHANGED <<head, ops, images, broken, journal, baseline, override, last,
                     record, resumed, stage, trouble>>
      /\ busy' \in BOOLEAN /\ (Running # {} => ~busy')
  BY DEF IInv, Queue, StartJob, EndJob, Calm, disk, memory
<1>2. TypeOK'
  BY <1>1 DEF IInv, TypeOK
<1>3. Queue'
  BY <1>1 DEF IInv, Queue, LastOf, Of, Running, Ids
<1>4. Journal' /\ Memory' /\ Switch' /\ Baseline' /\ Installed'
  BY <1>1 DEF IInv, Journal, Memory, Switch, Baseline, Installed, Lost, Running, Ids, Earned, Candidate
<1> QED
  BY <1>2, <1>3, <1>4 DEF IInv
-----------------------------------------------------------------------------
(* Supervisor.tick, up to the switch                                        *)

LEMMA BeginKeeps == ASSUME IInv, Begin PROVE IInv'
<1>1. /\ UNCHANGED <<head, ops, busy, images, broken, baseline, override, last, record,
         resumed, trouble>>
      /\ stage = "claimed" /\ journal' = record /\ stage' = "preflight"
  BY DEF Begin, Calm, controller
<1>2. Ids' = Ids /\ Running' = Running
  BY <1>1 DEF Ids, Running
<1>3. /\ journal = NoRecord /\ ~Lost /\ record.id \in Ids /\ ops[record.id].status = "running"
      /\ record.phase = "preflight" /\ record.status = "none" /\ Running \subseteq {record.id}
  BY <1>1 DEF IInv, Memory, Queue, Running, Lost, NoRecord
<1>4. TypeOK'
  BY <1>1, <1>2, <1>3 DEF IInv, TypeOK, Stages
<1>5. Queue'
  BY <1>1, QueueFrame DEF IInv, controller
<1>6. Journal'
  BY <1>1, <1>2, <1>3 DEF IInv, Journal, Memory, Lost, NoRecord, Installing, Undoing, Reporting
<1>7. Memory'
  BY <1>1, <1>2, <1>3 DEF IInv, Memory, Journal, Switch, Lost, Candidate, NoRecord,
               Installing, Undoing, Reporting
<1>8. Switch'
  BY <1>1, <1>2, <1>3 DEF IInv, Switch, Memory, Journal, Baseline, Installed, Lost, Earned, Candidate, NoRecord,
               Installing, Undoing, Reporting
<1>9. Baseline'
  BY <1>1, <1>2, <1>3 DEF IInv, Baseline, Memory, Journal, Switch, Lost, Earned, Candidate, NoRecord,
               Installing, Undoing, Reporting
<1>10. Installed'
  BY <1>1, <1>2, <1>3 DEF IInv, Installed, Memory, Journal, Switch, Baseline, Lost, Candidate, NoRecord,
               Installing, Undoing, Reporting
<1> QED
  BY <1>4, <1>5, <1>6, <1>7, <1>8, <1>9, <1>10 DEF IInv

LEMMA PreflightKeeps == ASSUME IInv, Preflight PROVE IInv'
<1>1. /\ UNCHANGED <<head, ops, busy, images, broken, journal, baseline, override, last,
         resumed, trouble>>
      /\ stage = "preflight" /\ stage' = "checked"
      /\ Candidate = head /\ Candidate # baseline
      /\ record' = [record EXCEPT !.old = images, !.oldSha = baseline]
  BY DEF Preflight, Calm, controller, disk
<1>2. Ids' = Ids /\ Running' = Running
  BY <1>1 DEF Ids, Running
<1>3. journal = record /\ record.phase = "preflight" /\ record.status = "none" /\ ~Lost
  BY <1>1 DEF IInv, Memory, Journal, Lost
<1>4. /\ record'.id = record.id /\ record'.phase = "preflight" /\ record'.status = "none"
      /\ record'.old = images /\ record'.oldSha = baseline /\ record' \in Records
  BY <1>1, <1>3 DEF IInv, TypeOK, Records
<1>5. images = Uniform(baseline) /\ ops[record.id].sha > baseline
  BY <1>1, <1>3 DEF IInv, TypeOK, Installed, Baseline, Candidate, Shas
<1>6. TypeOK'
  BY <1>1, <1>2, <1>3, <1>4, <1>5 DEF IInv, TypeOK, Stages
<1>7. Queue'
  BY <1>1, QueueFrame DEF IInv, controller
<1>8. Journal'
  BY <1>1, <1>2, <1>3, <1>4, <1>5 DEF IInv, Journal, Memory, Lost, NoRecord, Installing, Undoing, Reporting
<1>9. Memory'
  BY <1>1, <1>2, <1>3, <1>4, <1>5 DEF IInv, Memory, Journal, Switch, Lost, Candidate, NoRecord,
               Installing, Undoing, Reporting
<1>10. Switch'
  BY <1>1, <1>2, <1>3, <1>4, <1>5 DEF IInv, Switch, Memory, Journal, Baseline, Installed, Lost, Earned, Candidate, NoRecord,
               Installing, Undoing, Reporting
<1>11. Baseline'
  BY <1>1, <1>2, <1>3, <1>4, <1>5 DEF IInv, Baseline, Memory, Journal, Switch, Lost, Earned, Candidate, NoRecord,
               Installing, Undoing, Reporting
<1>12. Installed'
  BY <1>1, <1>2, <1>3, <1>4, <1>5 DEF IInv, Installed, Memory, Journal, Switch, Baseline, Lost, Candidate, NoRecord,
               Installing, Undoing, Reporting
<1> QED
  BY <1>6, <1>7, <1>8, <1>9, <1>10, <1>11, <1>12 DEF IInv

LEMMA SwitchingKeeps == ASSUME IInv, Switching PROVE IInv'
<1>1. /\ UNCHANGED <<head, ops, busy, images, broken, baseline, override, last, resumed,
         trouble>>
      /\ stage = "checked" /\ stage' = "install"
      /\ record' = [record EXCEPT !.phase = "switching"]
      /\ journal' = record'
  BY DEF Switching, Calm, controller
<1>2. Ids' = Ids /\ Running' = Running
  BY <1>1 DEF Ids, Running
<1>3. /\ journal.phase = "preflight" /\ journal.id = record.id /\ record.status = "none"
      /\ record.old = Uniform(baseline) /\ record.oldSha = baseline /\ Candidate > baseline
      /\ journal.status = "none" /\ ~Lost
  BY <1>1 DEF IInv, Memory, Journal, Lost
<1>4. /\ record'.id = record.id /\ record'.phase = "switching" /\ record'.status = "none"
      /\ record'.old = record.old /\ record'.oldSha = baseline /\ record' \in Records
  BY <1>1, <1>3 DEF IInv, TypeOK, Records
<1>5. TypeOK'
  BY <1>1, <1>2, <1>3, <1>4 DEF IInv, TypeOK, Stages
<1>6. Queue'
  BY <1>1, QueueFrame DEF IInv, controller
<1>7. Journal'
  BY <1>1, <1>2, <1>3, <1>4 DEF IInv, Journal, Memory, Lost, NoRecord, Installing, Undoing, Reporting
<1>8. Memory'
  BY <1>1, <1>2, <1>3, <1>4 DEF IInv, Memory, Journal, Switch, Lost, Candidate, NoRecord,
               Installing, Undoing, Reporting
<1>9. Switch'
  BY <1>1, <1>2, <1>3, <1>4 DEF IInv, Switch, Memory, Journal, Baseline, Installed, Lost, Earned, Candidate, NoRecord,
               Installing, Undoing, Reporting
<1>10. Baseline'
  BY <1>1, <1>2, <1>3, <1>4 DEF IInv, Baseline, Memory, Journal, Switch, Lost, Earned, Candidate, NoRecord,
               Installing, Undoing, Reporting
<1>11. Installed'
  BY <1>1, <1>2, <1>3, <1>4 DEF IInv, Installed, Memory, Journal, Switch, Baseline, Lost, Candidate, NoRecord,
               Installing, Undoing, Reporting
<1> QED
  BY <1>5, <1>6, <1>7, <1>8, <1>9, <1>10, <1>11 DEF IInv

-----------------------------------------------------------------------------
(* Supervisor.switch                                                        *)

LEMMA SaveOverrideKeeps == ASSUME IInv, SaveOverride PROVE IInv'
<1>1. /\ UNCHANGED <<head, ops, busy, images, broken, journal, baseline, last, record,
         resumed, trouble>>
      /\ \/ stage = "install" /\ stage' = "installing" /\ override' = Uniform(Candidate)
         \/ stage = "undo" /\ stage' = "undoing" /\ override' = record.old
  BY DEF SaveOverride, Target, Calm, controller
<1>2. Ids' = Ids /\ Running' = Running
  BY <1>1 DEF Ids, Running
<1>3. journal = record /\ record.phase = "switching"
  BY <1>1 DEF IInv, Memory, Installing, Undoing
<1>4. override' \in Images
  BY <1>1, <1>3, RowTypes DEF IInv, TypeOK, Journal, Candidate, Uniform, Images, Records, Operations
<1>5. TypeOK'
  BY <1>1, <1>2, <1>3, <1>4 DEF IInv, TypeOK, Stages
<1>6. Queue'
  BY <1>1, QueueFrame DEF IInv, controller
<1>7. Journal'
  BY <1>1, <1>2, <1>3, <1>4 DEF IInv, Journal, Memory, Lost, NoRecord, Installing, Undoing, Reporting
<1>8. Memory'
  BY <1>1, <1>2, <1>3, <1>4 DEF IInv, Memory, Journal, Switch, Lost, Candidate, NoRecord,
               Installing, Undoing, Reporting
<1>9. Switch'
  BY <1>1, <1>2, <1>3, <1>4 DEF IInv, Switch, Memory, Journal, Baseline, Installed, Lost, Earned, Candidate, NoRecord,
               Installing, Undoing, Reporting
<1>10. Baseline'
  BY <1>1, <1>2, <1>3, <1>4 DEF IInv, Baseline, Memory, Journal, Switch, Lost, Earned, Candidate, NoRecord,
               Installing, Undoing, Reporting
<1>11. Installed'
  BY <1>1, <1>2, <1>3, <1>4 DEF IInv, Installed, Memory, Journal, Switch, Baseline, Lost, Candidate, NoRecord,
               Installing, Undoing, Reporting
<1> QED
  BY <1>5, <1>6, <1>7, <1>8, <1>9, <1>10, <1>11 DEF IInv

LEMMA ReplaceKeeps == ASSUME IInv, NEW s \in Services, Replace(s) PROVE IInv'
<1>1. /\ UNCHANGED <<head, ops, busy, broken, journal, baseline, override, last, record,
         resumed, stage, trouble>>
      /\ stage \in {"installing", "undoing"} /\ images' = [images EXCEPT ![s] = Target[s]]
  BY DEF Replace, Calm, controller, disk, memory
<1>2. Ids' = Ids /\ Running' = Running
  BY <1>1 DEF Ids, Running
<1>3. journal = record /\ record.phase = "switching"
  BY <1>1 DEF IInv, Memory, Installing, Undoing
<1>4. images' \in Images
  BY <1>1, <1>3, RowTypes DEF IInv, TypeOK, Journal, Target, Candidate, Uniform, Images, Records, Operations
<1>5. TypeOK'
  BY <1>1, <1>2, <1>3, <1>4 DEF IInv, TypeOK
<1>6. Queue'
  BY <1>1, QueueFrame DEF IInv, controller
<1>7. Journal'
  BY <1>1, <1>2, <1>3, <1>4 DEF IInv, Journal, Memory, Lost, NoRecord, Installing, Undoing, Reporting
<1>8. Memory'
  BY <1>1, <1>2, <1>3, <1>4 DEF IInv, Memory, Journal, Switch, Lost, Candidate, NoRecord,
               Installing, Undoing, Reporting
<1>9. Switch'
  BY <1>1, <1>2, <1>3, <1>4 DEF IInv, Switch, Memory, Journal, Baseline, Installed, Lost, Earned, Candidate, NoRecord,
               Installing, Undoing, Reporting
<1>10. Baseline'
  BY <1>1, <1>2, <1>3, <1>4 DEF IInv, Baseline, Memory, Journal, Switch, Lost, Earned, Candidate, NoRecord,
               Installing, Undoing, Reporting
<1>11. Installed'
  BY <1>1, <1>2, <1>3, <1>4 DEF IInv, Installed, Memory, Journal, Switch, Baseline, Lost, Candidate, NoRecord,
               Installing, Undoing, Reporting
<1> QED
  BY <1>5, <1>6, <1>7, <1>8, <1>9, <1>10, <1>11 DEF IInv

LEMMA VerifyKeeps == ASSUME IInv, Verify PROVE IInv'
<1>1. /\ UNCHANGED <<head, ops, busy, images, broken, journal, baseline, override, last,
         record, resumed, trouble>>
      /\ \/ stage = "installing" /\ stage' = "installed" /\ images = Uniform(Candidate)
         \/ stage = "undoing" /\ stage' = "undone" /\ images = record.old
  BY DEF Verify, Target, Calm, controller, disk
<1>2. Ids' = Ids /\ Running' = Running
  BY <1>1 DEF Ids, Running
<1>3. journal = record /\ record.phase = "switching"
  BY <1>1 DEF IInv, Memory, Installing, Undoing
<1>4. TypeOK'
  BY <1>1, <1>2, <1>3 DEF IInv, TypeOK, Stages
<1>5. Queue'
  BY <1>1, QueueFrame DEF IInv, controller
<1>6. Journal'
  BY <1>1, <1>2, <1>3 DEF IInv, Journal, Memory, Lost, NoRecord, Installing, Undoing, Reporting
<1>7. Memory'
  BY <1>1, <1>2, <1>3 DEF IInv, Memory, Journal, Switch, Lost, Candidate, NoRecord,
               Installing, Undoing, Reporting
<1>8. Switch'
  BY <1>1, <1>2, <1>3 DEF IInv, Switch, Memory, Journal, Baseline, Installed, Lost, Earned, Candidate, NoRecord,
               Installing, Undoing, Reporting
<1>9. Baseline'
  BY <1>1, <1>2, <1>3 DEF IInv, Baseline, Memory, Journal, Switch, Lost, Earned, Candidate, NoRecord,
               Installing, Undoing, Reporting
<1>10. Installed'
  BY <1>1, <1>2, <1>3 DEF IInv, Installed, Memory, Journal, Switch, Baseline, Lost, Candidate, NoRecord,
               Installing, Undoing, Reporting
<1> QED
  BY <1>4, <1>5, <1>6, <1>7, <1>8, <1>9, <1>10 DEF IInv

LEMMA SaveBaselineKeeps == ASSUME IInv, SaveBaseline PROVE IInv'
<1>1. /\ UNCHANGED <<head, ops, busy, images, broken, journal, override, last, record,
         resumed, trouble>>
      /\ \/ stage = "installed" /\ stage' = "baselined" /\ baseline' = Candidate
         \/ stage = "undone" /\ stage' = "restored" /\ baseline' = record.oldSha
  BY DEF SaveBaseline, Calm, controller
<1>2. Ids' = Ids /\ Running' = Running
  BY <1>1 DEF Ids, Running
<1>3. journal = record /\ record.phase = "switching" /\ journal.id \in Ids
  BY <1>1 DEF IInv, Memory, Journal, Installing, Undoing
<1>4. /\ ops[journal.id].sha \in 1..head /\ head \in Shas
      /\ journal.oldSha \in Nat /\ ops[journal.id].sha > journal.oldSha
  BY <1>1, <1>3 DEF IInv, TypeOK, Queue, Switch, Shas, Records
<1>5. baseline' \in Shas /\ baseline' <= head
  BY <1>1, <1>3, <1>4, DeploymentAssumption DEF Candidate, Shas
<1>6. TypeOK'
  BY <1>1, <1>2, <1>3, <1>4, <1>5 DEF IInv, TypeOK, Stages
<1>7. Queue'
  BY <1>1, QueueFrame DEF IInv, controller
<1>8. Journal'
  BY <1>1, <1>2, <1>3, <1>4, <1>5 DEF IInv, Journal, Memory, Lost, NoRecord, Installing, Undoing, Reporting
<1>9. Memory'
  BY <1>1, <1>2, <1>3, <1>4, <1>5 DEF IInv, Memory, Journal, Switch, Lost, Candidate, NoRecord,
               Installing, Undoing, Reporting
<1>10. Switch'
  BY <1>1, <1>2, <1>3, <1>4, <1>5 DEF IInv, Switch, Memory, Journal, Baseline, Installed, Lost, Earned, Candidate, NoRecord,
               Installing, Undoing, Reporting
<1>11. Baseline'
  BY <1>1, <1>2, <1>3, <1>4, <1>5 DEF IInv, Baseline, Memory, Journal, Switch, Lost, Earned, Candidate, NoRecord,
               Installing, Undoing, Reporting
<1>12. Installed'
  BY <1>1, <1>2, <1>3, <1>4, <1>5 DEF IInv, Installed, Memory, Journal, Switch, Baseline, Lost, Candidate, NoRecord,
               Installing, Undoing, Reporting
<1> QED
  BY <1>6, <1>7, <1>8, <1>9, <1>10, <1>11, <1>12 DEF IInv

LEMMA SucceedKeeps == ASSUME IInv, Succeed PROVE IInv'
<1>1. /\ UNCHANGED <<head, ops, busy, images, broken, baseline, override, last, resumed,
         trouble>>
      /\ stage = "baselined" /\ stage' = "report"
      /\ record' = [record EXCEPT !.phase = "complete", !.status = "succeeded"]
      /\ journal' = record'
  BY DEF Succeed, Complete, Calm, controller
<1>2. Ids' = Ids /\ Running' = Running
  BY <1>1 DEF Ids, Running
<1>3. /\ journal.phase \in {"preflight", "switching"} /\ journal.id = record.id
      /\ journal.id \in Ids /\ ops[journal.id].status = "running" /\ ~Lost
  BY <1>1 DEF IInv, Memory, Journal, Lost, Installing, Undoing
<1>4. /\ record'.id = record.id /\ record'.phase = "complete" /\ record'.status = "succeeded"
      /\ record'.old = record.old /\ record'.oldSha = record.oldSha /\ record' \in Records
  BY <1>1 DEF IInv, TypeOK, Records, TERMINAL
<1>5. TypeOK'
  BY <1>1, <1>2, <1>3, <1>4 DEF IInv, TypeOK, Stages
<1>6. Queue'
  BY <1>1, QueueFrame DEF IInv, controller
<1>7. Journal'
  BY <1>1, <1>2, <1>3, <1>4 DEF IInv, Journal, Memory, Lost, NoRecord, Installing, Undoing, Reporting
<1>8. Memory'
  BY <1>1, <1>2, <1>3, <1>4 DEF IInv, Memory, Journal, Switch, Lost, Candidate, NoRecord,
               Installing, Undoing, Reporting
<1>9. Switch'
  BY <1>1, <1>2, <1>3, <1>4 DEF IInv, Switch, Memory, Journal, Baseline, Installed, Lost, Earned, Candidate, NoRecord,
               Installing, Undoing, Reporting
<1>10. Baseline'
  BY <1>1, <1>2, <1>3, <1>4 DEF IInv, Baseline, Memory, Journal, Switch, Lost, Earned, Candidate, NoRecord,
               Installing, Undoing, Reporting
<1>11. Installed'
  BY <1>1, <1>2, <1>3, <1>4 DEF IInv, Installed, Memory, Journal, Switch, Baseline, Lost, Candidate, NoRecord,
               Installing, Undoing, Reporting
<1> QED
  BY <1>5, <1>6, <1>7, <1>8, <1>9, <1>10, <1>11 DEF IInv

LEMMA RollBackKeeps == ASSUME IInv, RollBack PROVE IInv'
<1>1. /\ UNCHANGED <<head, ops, busy, images, broken, baseline, override, last, resumed,
         trouble>>
      /\ stage = "restored" /\ stage' = "report"
      /\ record' = [record EXCEPT !.phase = "complete", !.status = "rolled_back"]
      /\ journal' = record'
  BY DEF RollBack, Complete, Calm, controller
<1>2. Ids' = Ids /\ Running' = Running
  BY <1>1 DEF Ids, Running
<1>3. /\ journal.phase \in {"preflight", "switching"} /\ journal.id = record.id
      /\ journal.id \in Ids /\ ops[journal.id].status = "running" /\ ~Lost
  BY <1>1 DEF IInv, Memory, Journal, Lost, Installing, Undoing
<1>4. /\ record'.id = record.id /\ record'.phase = "complete" /\ record'.status = "rolled_back"
      /\ record'.old = record.old /\ record'.oldSha = record.oldSha /\ record' \in Records
  BY <1>1 DEF IInv, TypeOK, Records, TERMINAL
<1>5. TypeOK'
  BY <1>1, <1>2, <1>3, <1>4 DEF IInv, TypeOK, Stages
<1>6. Queue'
  BY <1>1, QueueFrame DEF IInv, controller
<1>7. Journal'
  BY <1>1, <1>2, <1>3, <1>4 DEF IInv, Journal, Memory, Lost, NoRecord, Installing, Undoing, Reporting
<1>8. Memory'
  BY <1>1, <1>2, <1>3, <1>4 DEF IInv, Memory, Journal, Switch, Lost, Candidate, NoRecord,
               Installing, Undoing, Reporting
<1>9. Switch'
  BY <1>1, <1>2, <1>3, <1>4 DEF IInv, Switch, Memory, Journal, Baseline, Installed, Lost, Earned, Candidate, NoRecord,
               Installing, Undoing, Reporting
<1>10. Baseline'
  BY <1>1, <1>2, <1>3, <1>4 DEF IInv, Baseline, Memory, Journal, Switch, Lost, Earned, Candidate, NoRecord,
               Installing, Undoing, Reporting
<1>11. Installed'
  BY <1>1, <1>2, <1>3, <1>4 DEF IInv, Installed, Memory, Journal, Switch, Baseline, Lost, Candidate, NoRecord,
               Installing, Undoing, Reporting
<1> QED
  BY <1>5, <1>6, <1>7, <1>8, <1>9, <1>10, <1>11 DEF IInv

LEMMA RefuseKeeps == ASSUME IInv, Refuse PROVE IInv'
<1>1. /\ UNCHANGED <<head, ops, busy, images, broken, baseline, override, last, resumed,
         trouble>>
      /\ stage \in {"preflight", "checked"} /\ stage' = "report"
      /\ record' = [record EXCEPT !.phase = "complete", !.status = "failed"]
      /\ journal' = record'
  BY DEF Refuse, Complete, Calm, controller
<1>2. Ids' = Ids /\ Running' = Running
  BY <1>1 DEF Ids, Running
<1>3. /\ journal.phase \in {"preflight", "switching"} /\ journal.id = record.id
      /\ journal.id \in Ids /\ ops[journal.id].status = "running" /\ ~Lost
  BY <1>1 DEF IInv, Memory, Journal, Lost, Installing, Undoing
<1>4. /\ record'.id = record.id /\ record'.phase = "complete" /\ record'.status = "failed"
      /\ record'.old = record.old /\ record'.oldSha = record.oldSha /\ record' \in Records
  BY <1>1 DEF IInv, TypeOK, Records, TERMINAL
<1>5. TypeOK'
  BY <1>1, <1>2, <1>3, <1>4 DEF IInv, TypeOK, Stages
<1>6. Queue'
  BY <1>1, QueueFrame DEF IInv, controller
<1>7. Journal'
  BY <1>1, <1>2, <1>3, <1>4 DEF IInv, Journal, Memory, Lost, NoRecord, Installing, Undoing, Reporting
<1>8. Memory'
  BY <1>1, <1>2, <1>3, <1>4 DEF IInv, Memory, Journal, Switch, Lost, Candidate, NoRecord,
               Installing, Undoing, Reporting
<1>9. Switch'
  BY <1>1, <1>2, <1>3, <1>4 DEF IInv, Switch, Memory, Journal, Baseline, Installed, Lost, Earned, Candidate, NoRecord,
               Installing, Undoing, Reporting
<1>10. Baseline'
  BY <1>1, <1>2, <1>3, <1>4 DEF IInv, Baseline, Memory, Journal, Switch, Lost, Earned, Candidate, NoRecord,
               Installing, Undoing, Reporting
<1>11. Installed'
  BY <1>1, <1>2, <1>3, <1>4 DEF IInv, Installed, Memory, Journal, Switch, Baseline, Lost, Candidate, NoRecord,
               Installing, Undoing, Reporting
<1> QED
  BY <1>5, <1>6, <1>7, <1>8, <1>9, <1>10, <1>11 DEF IInv

LEMMA UndoFailsKeeps == ASSUME IInv, UndoFails PROVE IInv'
<1>1. /\ UNCHANGED <<head, ops, busy, images, broken, baseline, override, last, resumed>>
      /\ stage \in {"undo", "undoing", "undone"} /\ stage' = "report"
      /\ record' = [record EXCEPT !.phase = "complete", !.status = "rollback_failed"]
      /\ journal' = record'
      /\ trouble' = trouble \/ (trouble < MaxTrouble /\ trouble' = trouble + 1)
  BY DEF UndoFails, Complete, Calm, controller, Fails, Troubled
<1>2. Ids' = Ids /\ Running' = Running
  BY <1>1 DEF Ids, Running
<1>3. /\ journal.phase \in {"preflight", "switching"} /\ journal.id = record.id
      /\ journal.id \in Ids /\ ops[journal.id].status = "running" /\ ~Lost
  BY <1>1 DEF IInv, Memory, Journal, Lost, Installing, Undoing
<1>4. /\ record'.id = record.id /\ record'.phase = "complete" /\ record'.status = "rollback_failed"
      /\ record'.old = record.old /\ record'.oldSha = record.oldSha /\ record' \in Records
  BY <1>1 DEF IInv, TypeOK, Records, TERMINAL
<1>5. TypeOK'
  BY <1>1, <1>2, <1>3, <1>4, DeploymentAssumption DEF IInv, TypeOK, Stages
<1>6. Queue'
  BY <1>1, QueueFrame DEF IInv, controller
<1>7. Journal'
  BY <1>1, <1>2, <1>3, <1>4 DEF IInv, Journal, Memory, Lost, NoRecord, Installing, Undoing, Reporting
<1>8. Memory'
  BY <1>1, <1>2, <1>3, <1>4 DEF IInv, Memory, Journal, Switch, Lost, Candidate, NoRecord,
               Installing, Undoing, Reporting
<1>9. Switch'
  BY <1>1, <1>2, <1>3, <1>4 DEF IInv, Switch, Memory, Journal, Baseline, Installed, Lost, Earned, Candidate, NoRecord,
               Installing, Undoing, Reporting
<1>10. Baseline'
  BY <1>1, <1>2, <1>3, <1>4 DEF IInv, Baseline, Memory, Journal, Switch, Lost, Earned, Candidate, NoRecord,
               Installing, Undoing, Reporting
<1>11. Installed'
  BY <1>1, <1>2, <1>3, <1>4 DEF IInv, Installed, Memory, Journal, Switch, Baseline, Lost, Candidate, NoRecord,
               Installing, Undoing, Reporting
<1> QED
  BY <1>5, <1>6, <1>7, <1>8, <1>9, <1>10, <1>11 DEF IInv

LEMMA SwitchFailsKeeps == ASSUME IInv, SwitchFails PROVE IInv'
<1>1. /\ UNCHANGED <<head, ops, busy, images, broken, journal, baseline, override, last,
         record, resumed>>
      /\ stage \in {"install", "installing", "installed"} /\ stage' = "undo"
      /\ trouble' = trouble \/ (trouble < MaxTrouble /\ trouble' = trouble + 1)
  BY DEF SwitchFails, Fails, Troubled, Calm, controller, disk
<1>2. Ids' = Ids /\ Running' = Running
  BY <1>1 DEF Ids, Running
<1>3. journal = record /\ record.phase = "switching"
  BY <1>1 DEF IInv, Memory, Installing, Undoing
<1>4. TypeOK'
  BY <1>1, <1>2, <1>3, DeploymentAssumption DEF IInv, TypeOK, Stages
<1>5. Queue'
  BY <1>1, QueueFrame DEF IInv, controller
<1>6. Journal'
  BY <1>1, <1>2, <1>3 DEF IInv, Journal, Memory, Lost, NoRecord, Installing, Undoing, Reporting
<1>7. Memory'
  BY <1>1, <1>2, <1>3 DEF IInv, Memory, Journal, Switch, Lost, Candidate, NoRecord,
               Installing, Undoing, Reporting
<1>8. Switch'
  BY <1>1, <1>2, <1>3 DEF IInv, Switch, Memory, Journal, Baseline, Installed, Lost, Earned, Candidate, NoRecord,
               Installing, Undoing, Reporting
<1>9. Baseline'
  BY <1>1, <1>2, <1>3 DEF IInv, Baseline, Memory, Journal, Switch, Lost, Earned, Candidate, NoRecord,
               Installing, Undoing, Reporting
<1>10. Installed'
  BY <1>1, <1>2, <1>3 DEF IInv, Installed, Memory, Journal, Switch, Baseline, Lost, Candidate, NoRecord,
               Installing, Undoing, Reporting
<1> QED
  BY <1>4, <1>5, <1>6, <1>7, <1>8, <1>9, <1>10 DEF IInv

-----------------------------------------------------------------------------
(* Supervisor.recover, and the receipt                                      *)

LEMMA SaveResultKeeps == ASSUME IInv, SaveResult PROVE IInv'
<1>1. /\ UNCHANGED <<head, ops, busy, images, broken, journal, baseline, override,
         record, resumed, trouble>>
      /\ stage = "receipt" /\ last' = record.status /\ stage' = "unlink"
  BY DEF SaveResult, Calm, controller
<1>2. Ids' = Ids /\ Running' = Running
  BY <1>1 DEF Ids, Running
<1>3. journal = record /\ record.phase = "complete" /\ ops[record.id].status = record.status
  BY <1>1 DEF IInv, Memory, Reporting
<1>4. TypeOK'
  BY <1>1, <1>2, <1>3 DEF IInv, TypeOK, Stages, Records
<1>5. Queue'
  BY <1>1, QueueFrame DEF IInv, controller
<1>6. Journal'
  BY <1>1, <1>2, <1>3 DEF IInv, Journal, Memory, Lost, NoRecord, Installing, Undoing, Reporting
<1>7. Memory'
  BY <1>1, <1>2, <1>3 DEF IInv, Memory, Journal, Switch, Lost, Candidate, NoRecord,
               Installing, Undoing, Reporting
<1>8. Switch'
  BY <1>1, <1>2, <1>3 DEF IInv, Switch, Memory, Journal, Baseline, Installed, Lost, Earned, Candidate, NoRecord,
               Installing, Undoing, Reporting
<1>9. Baseline'
  BY <1>1, <1>2, <1>3 DEF IInv, Baseline, Memory, Journal, Switch, Lost, Earned, Candidate, NoRecord,
               Installing, Undoing, Reporting
<1>10. Installed'
  BY <1>1, <1>2, <1>3 DEF IInv, Installed, Memory, Journal, Switch, Baseline, Lost, Candidate, NoRecord,
               Installing, Undoing, Reporting
<1> QED
  BY <1>4, <1>5, <1>6, <1>7, <1>8, <1>9, <1>10 DEF IInv

LEMMA UnlinkKeeps == ASSUME IInv, Unlink PROVE IInv'
<1>1. /\ UNCHANGED <<head, ops, busy, images, broken, baseline, override, last, record,
         resumed, trouble>>
      /\ stage = "unlink" /\ journal' = NoRecord /\ stage' = "idle"
  BY DEF Unlink, Calm, controller
<1>2. Ids' = Ids /\ Running' = Running
  BY <1>1 DEF Ids, Running
<1>3. /\ journal = record /\ record.phase = "complete" /\ ops[record.id].status = record.status
      /\ last = record.status /\ journal.id \in Ids
  BY <1>1 DEF IInv, Memory, Journal, Reporting
<1>4. TypeOK'
  BY <1>1, <1>2, <1>3, NoRecordType DEF IInv, TypeOK, Stages
<1>5. Queue'
  BY <1>1, QueueFrame DEF IInv, controller
<1>6. Journal'
  BY <1>1, <1>2, <1>3 DEF IInv, Journal, Memory, Lost, NoRecord, Installing, Undoing, Reporting
<1>7. Memory'
  BY <1>1, <1>2, <1>3 DEF IInv, Memory, Journal, Switch, Lost, Candidate, NoRecord,
               Installing, Undoing, Reporting
<1>8. Switch'
  BY <1>1, <1>2, <1>3 DEF IInv, Switch, Memory, Journal, Baseline, Installed, Lost, Earned, Candidate, NoRecord,
               Installing, Undoing, Reporting
<1>9. Baseline'
  BY <1>1, <1>2, <1>3 DEF IInv, Baseline, Memory, Journal, Switch, Lost, Earned, Candidate, NoRecord,
               Installing, Undoing, Reporting
<1>10. Installed'
  BY <1>1, <1>2, <1>3 DEF IInv, Installed, Memory, Journal, Switch, Baseline, Lost, Candidate, NoRecord,
               Installing, Undoing, Reporting
<1> QED
  BY <1>4, <1>5, <1>6, <1>7, <1>8, <1>9, <1>10 DEF IInv

LEMMA CrashKeeps == ASSUME IInv, Crash PROVE IInv'
<1>1. /\ UNCHANGED <<head, ops, busy, images, broken, journal, baseline, override, last>>
      /\ stage' = "idle" /\ record' = NoRecord /\ resumed' = FALSE
      /\ trouble < MaxTrouble /\ trouble' = trouble + 1
  BY DEF Crash, Troubled, controller, disk
<1>2. Ids' = Ids /\ Running' = Running
  BY <1>1 DEF Ids, Running
<1>3. record' \in Records /\ stage' \in Stages /\ resumed' \in BOOLEAN
  BY <1>1, NoRecordType DEF Stages
<1>4. trouble' \in 0..MaxTrouble
  BY <1>1, DeploymentAssumption DEF IInv, TypeOK
<1>5. TypeOK'
  BY <1>1, <1>2, <1>3, <1>4 DEF IInv, TypeOK
<1>6. Queue'
  BY <1>1, QueueFrame DEF IInv, controller
<1>7. Journal'
  BY <1>1, <1>2, <1>3, <1>4 DEF IInv, Journal, Memory, Lost, NoRecord, Installing, Undoing, Reporting
<1>8. Memory'
  BY <1>1, <1>2, <1>3, <1>4 DEF IInv, Memory, Journal, Switch, Lost, Candidate, NoRecord,
               Installing, Undoing, Reporting
<1>9. Switch'
  BY <1>1, <1>2, <1>3, <1>4 DEF IInv, Switch, Memory, Journal, Baseline, Installed, Lost, Earned, Candidate, NoRecord,
               Installing, Undoing, Reporting
<1>10. Baseline'
  BY <1>1, <1>2, <1>3, <1>4 DEF IInv, Baseline, Memory, Journal, Switch, Lost, Earned, Candidate, NoRecord,
               Installing, Undoing, Reporting
<1>11. Installed'
  BY <1>1, <1>2, <1>3, <1>4 DEF IInv, Installed, Memory, Journal, Switch, Baseline, Lost, Candidate, NoRecord,
               Installing, Undoing, Reporting
<1> QED
  BY <1>5, <1>6, <1>7, <1>8, <1>9, <1>10, <1>11 DEF IInv

-----------------------------------------------------------------------------
(* Steps that change the rows                                               *)

(* Rows that are added or expire change neither who is running nor what has
   succeeded or failed for good.                                            *)
LEMMA RowsFrame ==
    ASSUME IInv,
           UNCHANGED <<images, broken, journal, baseline, override, last,
                       record, resumed, stage, trouble>>,
           head' = head, busy' = busy, Ids \subseteq Ids', Running' = Running,
           \A o \in Ids : /\ ops'[o].sha = ops[o].sha
                          /\ ops[o].status \in {"running"} \cup TERMINAL
                             => ops'[o].status = ops[o].status,
           \A o \in Ids' : ops'[o].status = "rollback_failed"
                           => o \in Ids /\ ops[o].status = "rollback_failed"
    PROVE  Journal' /\ Memory' /\ Switch' /\ Baseline' /\ Installed'
<1>1. journal \in Records
  BY DEF IInv, TypeOK
<1>2. journal.phase # "none" => journal.id \in Ids /\ ops'[journal.id].sha = ops[journal.id].sha
  BY DEF IInv, Journal
<1>3. stage # "idle" => record.id \in Ids
  BY DEF IInv, TypeOK, Journal, Memory, Stages, Installing, Undoing, Reporting
<1>4. Journal'
  BY <1>1, <1>2 DEF IInv, Journal, Lost, TERMINAL, Records
<1>5. stage # "idle" => Candidate' = Candidate
  BY <1>3 DEF Candidate
<1>6. Memory'
  <2>1. CASE stage = "idle"
    BY <2>1 DEF Memory, Reporting, Installing, Undoing
  <2>2. CASE stage # "idle"
    <3>1. stage \in Reporting => record.status \in TERMINAL
      BY DEF IInv, TypeOK, Memory, Journal, Records
    <3>2. stage = "claimed" => record.id \in Ids' /\ ops'[record.id].status = "running"
      BY <1>3, <2>2 DEF IInv, Memory
    <3>3. stage \in {"receipt", "unlink"} => ops'[record.id].status = record.status
      BY <1>3, <2>2, <3>1 DEF IInv, Memory, Reporting
    <3>4. Candidate' = Candidate
      BY <1>5, <2>2
    <3> QED
      BY <3>2, <3>3, <3>4 DEF IInv, Memory
  <2> QED
    BY <2>1, <2>2
<1>7. \A sha : Earned(sha) => Earned(sha)'
  BY DEF Earned, TERMINAL
<1>8. Switch'
  BY <1>2, <1>5, <1>7 DEF IInv, Switch
<1>9. Baseline' /\ Installed'
  BY <1>2, <1>7, <1>1 DEF IInv, Journal, Baseline, Installed, Lost
<1> QED
  BY <1>4, <1>6, <1>8, <1>9

(* Propose, Approve and Expire *)
LEMMA ProposeKeeps == ASSUME IInv, NEW sha \in Shas, Propose(sha) PROVE IInv'
<1> DEFINE row == [sha |-> sha, status |-> "awaiting_approval", expired |-> FALSE]
<1>0. PICK new \in Nat : new = Len(ops) + 1
  BY RowTypes DEF IInv
<1>1. /\ sha \in 1..head /\ Len(ops) < MaxOps /\ ops' = Append(ops, row)
      /\ UNCHANGED <<head, busy, images, broken, journal, baseline, override, last,
                     record, resumed, stage, trouble>>
  BY DEF Propose, Calm, disk, memory
<1>2. row \in Operations /\ row.sha = sha /\ row.status = "awaiting_approval"
  BY DEF Operations, Statuses
<1> HIDE DEF row
<1>3. /\ ops' \in Seq(Operations) /\ Len(ops') = new /\ Len(ops) \in Nat
      /\ Ids' = Ids \cup {new} /\ new \notin Ids /\ ops'[new] = row
      /\ \A p \in Ids : ops'[p] = ops[p] /\ p < new
  BY <1>0, <1>1, <1>2, Appending, RowTypes DEF IInv
<1>4. Running' = Running
  BY <1>2, <1>3 DEF Running
<1>5. TypeOK'
  BY <1>0, <1>1, <1>3, DeploymentAssumption DEF IInv, TypeOK
<1>6. \A o \in Of(sha) : ops[o].status \notin {"queued", "running", "succeeded"}
  <2> SUFFICES ASSUME NEW o \in Of(sha)
               PROVE  ops[o].status \notin {"queued", "running", "succeeded"}
    OBVIOUS
  <2>1. o \in Ids /\ ops[o].sha = sha
    BY DEF Of
  <2>2. PICK p \in Ids : LastOf(sha, p)
    BY <2>1 DEF IInv, Queue
  <2>3. LastOf(sha, Previous(sha))
    BY <2>2 DEF Previous, LastOf
  <2>4. ops[Previous(sha)].status \notin {"queued", "running", "succeeded"}
    BY DEF Propose
  <2>5. o = Previous(sha) \/ o < Previous(sha)
    BY <2>1, <2>3, RowTypes DEF IInv, LastOf, Of
  <2> QED
    BY <2>1, <2>3, <2>4, <2>5 DEF IInv, Queue, LastOf, Of
<1>7. Queue'
  <2>1. \A o \in Ids : ops'[o].sha = ops[o].sha /\ o < new /\ o # new
    BY <1>3
  <2>2. \A o \in Ids' : ops'[o].sha \in 1..head'
    <3>1. \A o \in Ids : ops[o].sha \in 1..head
      BY DEF IInv, Queue
    <3> QED
      BY <1>1, <1>2, <1>3, <3>1
  <2>3. LastOf(sha, new)'
    <3>1. new \in Ids' /\ ops'[new].sha = sha
      BY <1>2, <1>3
    <3>2. \A p \in Ids' : p <= new
      BY <1>0, <1>3, RowTypes DEF IInv
    <3> QED
      BY <3>1, <3>2 DEF LastOf, Of
  <2>4. \A o \in Ids' : \E p \in Ids' : LastOf(ops[o].sha, p)'
    <3> SUFFICES ASSUME NEW o \in Ids' PROVE \E p \in Ids' : LastOf(ops[o].sha, p)'
      OBVIOUS
    <3>1. CASE ops'[o].sha = sha
      <4>1. new \in Ids'
        BY <1>3
      <4> QED
        BY <2>3, <3>1, <4>1
    <3>2. CASE ops'[o].sha # sha
      <4>1. o \in Ids /\ ops'[o].sha = ops[o].sha
        BY <1>2, <1>3, <3>2
      <4>2. PICK p \in Ids : LastOf(ops[o].sha, p)
        BY <4>1 DEF IInv, Queue
      <4>3. p \in Ids' /\ ops'[p].sha = ops'[o].sha
        BY <1>3, <4>1, <4>2 DEF LastOf, Of
      <4>4. \A q \in Ids' : ops'[q].sha = ops'[o].sha => q <= p
        BY <1>2, <1>3, <2>1, <3>2, <4>1, <4>2 DEF LastOf, Of
      <4> QED
        BY <4>3, <4>4 DEF LastOf, Of
    <3> QED
      BY <3>1, <3>2
  <2>5. \A o, p \in Ids' : o < p /\ ops'[o].sha = ops'[p].sha
                           => ops'[o].status \notin {"queued", "running", "succeeded"}
    <3> SUFFICES ASSUME NEW o \in Ids', NEW p \in Ids', o < p, ops'[o].sha = ops'[p].sha
                 PROVE  ops'[o].status \notin {"queued", "running", "succeeded"}
      OBVIOUS
    <3>1. o \in Ids /\ ops'[o] = ops[o]
      BY <1>0, <1>3, RowTypes DEF IInv
    <3>2. CASE p = new
      <4>1. o \in Of(sha)
        BY <1>2, <1>3, <3>1, <3>2 DEF Of
      <4> QED
        BY <1>6, <3>1, <4>1
    <3>3. CASE p # new
      BY <1>3, <3>1, <3>3 DEF IInv, Queue
    <3> QED
      BY <3>2, <3>3
  <2>6. (\A o, p \in Running : o = p) /\ (Running # {} => ~busy)
    BY DEF IInv, Queue
  <2> QED
    BY <1>1, <1>4, <2>2, <2>4, <2>5, <2>6 DEF Queue
<1>8. \A o \in Ids' : ops'[o].status = "rollback_failed"
                      => o \in Ids /\ ops[o].status = "rollback_failed"
  BY <1>2, <1>3
<1> QED
  BY <1>1, <1>3, <1>4, <1>5, <1>7, <1>8, RowsFrame DEF IInv

(* A row that is marked as alive or successful has to be its commit's last.  *)
LEMMA MarkingKeepsHistories ==
    ASSUME IInv, NEW o \in Ids, NEW status \in Statuses,
           ops' = [ops EXCEPT ![o].status = status], head' = head,
           status \in {"queued", "running", "succeeded"}
             => \A p \in Ids : o < p => ops[p].sha # ops[o].sha
    PROVE  /\ \A p \in Ids' : ops'[p].sha \in 1..head' /\ \E q \in Ids' : LastOf(ops[p].sha, q)'
           /\ \A p, q \in Ids' : p < q /\ ops'[p].sha = ops'[q].sha
                               => ops'[p].status \notin {"queued", "running", "succeeded"}
<1>1. /\ Ids' = Ids
      /\ \A p \in Ids : /\ ops'[p].sha = ops[p].sha
                        /\ ops'[p].status = IF p = o THEN status ELSE ops[p].status
  BY Marking DEF IInv
<1>2. \A p \in Ids : ops[p].sha \in 1..head /\ \E q \in Ids : LastOf(ops[p].sha, q)
  BY DEF IInv, Queue
<1>3. \A p, q \in Ids : LastOf(ops[p].sha, q) => LastOf(ops[p].sha, q)'
  BY <1>1 DEF LastOf, Of
<1>4. \A p, q \in Ids : p < q /\ ops[p].sha = ops[q].sha
                      => ops'[p].status \notin {"queued", "running", "succeeded"}
  BY <1>1 DEF IInv, Queue
<1> QED
  BY <1>1, <1>2, <1>3, <1>4

LEMMA ApproveKeeps == ASSUME IInv, NEW o \in Ids, Approve(o) PROVE IInv'
<1>1. /\ ops[o].status = "awaiting_approval" /\ o = Previous(ops[o].sha)
      /\ ops' = [ops EXCEPT ![o].status = "queued"]
      /\ UNCHANGED <<head, busy, images, broken, journal, baseline, override, last,
                     record, resumed, stage, trouble>>
  BY DEF Approve, Calm, disk, memory
<1>2. "queued" \in Statuses
  BY DEF Statuses
<1>3. /\ ops' \in Seq(Operations) /\ Len(ops') = Len(ops) /\ Ids' = Ids
      /\ \A p \in Ids : /\ ops'[p].sha = ops[p].sha
                        /\ ops'[p].status = IF p = o THEN "queued" ELSE ops[p].status
  BY <1>1, <1>2, Marking DEF IInv
<1>4. TypeOK'
  BY <1>1, <1>3 DEF IInv, TypeOK
<1>5. Running' = Running
  BY <1>1, <1>3 DEF Running
<1>6. \A p \in Ids : o < p => ops[p].sha # ops[o].sha
  <2>1. PICK p \in Ids : LastOf(ops[o].sha, p)
    BY DEF IInv, Queue
  <2>2. LastOf(ops[o].sha, o)
    BY <1>1, <2>1 DEF Previous, LastOf
  <2> QED
    BY <2>2, RowTypes DEF IInv, LastOf, Of
<1>7. Queue'
  <2>1. (\A p, q \in Running : p = q) /\ (Running # {} => ~busy)
    BY DEF IInv, Queue
  <2> QED
    BY <1>1, <1>2, <1>5, <1>6, <2>1, MarkingKeepsHistories DEF Queue
<1>8. \A p \in Ids : ops[p].status \in {"running"} \cup TERMINAL => ops'[p].status = ops[p].status
  BY <1>1, <1>3 DEF TERMINAL
<1> QED
  BY <1>1, <1>3, <1>4, <1>5, <1>7, <1>8, RowsFrame DEF IInv

LEMMA ExpireKeeps == ASSUME IInv, NEW o \in Ids, Expire(o) PROVE IInv'
<1>1. /\ ops' = [ops EXCEPT ![o].expired = TRUE]
      /\ UNCHANGED <<head, busy, images, broken, journal, baseline, override, last,
                     record, resumed, stage, trouble>>
  BY DEF Expire, Calm, disk, memory
<1>2. /\ ops' \in Seq(Operations) /\ Len(ops') = Len(ops) /\ Ids' = Ids
      /\ \A p \in Ids : ops'[p].sha = ops[p].sha /\ ops'[p].status = ops[p].status
  <2> DEFINE row == [ops[o] EXCEPT !.expired = TRUE]
  <2>1. ops \in Seq(Operations) /\ o \in 1..Len(ops) /\ ops[o] \in Operations
    BY RowTypes DEF IInv, TypeOK
  <2>2. row \in Operations /\ row.sha = ops[o].sha /\ row.status = ops[o].status
    BY <2>1 DEF Operations
  <2>3. ops' = [ops EXCEPT ![o] = row]
    BY <1>1
  <2> HIDE DEF row
  <2> QED
    BY <2>1, <2>2, <2>3 DEF Ids
<1>3. TypeOK'
  BY <1>1, <1>2 DEF IInv, TypeOK
<1>4. Running' = Running /\ \A c : Of(c)' = Of(c)
  BY <1>1, <1>2 DEF Running, Of
<1>5. Queue'
  BY <1>1, <1>2, <1>4 DEF IInv, Queue, LastOf
<1> QED
  BY <1>1, <1>2, <1>3, <1>4, <1>5, RowsFrame DEF IInv

LEMMA TakeKeeps ==
    ASSUME IInv, stage = "idle", journal = NoRecord, last # "rollback_failed",
           UNCHANGED <<head, busy, images, broken, journal, baseline, override, last, trouble>>,
           NEW o \in Ids, NEW again \in BOOLEAN, Take(o, again),
           ops' \in Seq(Operations), Len(ops') = Len(ops), Ids' = Ids,
           ops[o].status \in {"queued", "running"}, ops'[o].status = "running",
           \A p \in Ids : /\ ops'[p].sha = ops[p].sha
                          /\ p # o => ops'[p].status = ops[p].status,
           Queue'
    PROVE  IInv'
<1>1. /\ record'.id = o /\ record'.phase = "preflight" /\ record'.status = "none"
      /\ record' \in Records /\ resumed' = again /\ stage' = "claimed"
  <2>1. o \in 0..MaxOps
    BY RowTypes, DeploymentAssumption DEF IInv, TypeOK
  <2> QED
    BY <2>1, NoRecordType DEF Take, NoRecord, Records
<1>2. journal.phase = "none" /\ journal.status = "none" /\ ~Lost
  BY DEF NoRecord, Lost
<1>3. TypeOK'
  BY <1>1 DEF IInv, TypeOK, Stages
<1>4. Journal'
  BY <1>2 DEF IInv, Journal, Lost
<1>5. Memory'
  BY <1>1, <1>2 DEF Memory, Installing, Undoing, Reporting
<1>6. Switch'
  BY <1>1, <1>2 DEF Switch
<1>7. Baseline' /\ Installed'
  BY <1>2 DEF IInv, Baseline, Installed, Lost, Earned
<1> QED
  BY <1>1, <1>3, <1>4, <1>5, <1>6, <1>7 DEF IInv

LEMMA ClaimKeeps == ASSUME IInv, Claim PROVE IInv'
<1>1. /\ stage = "idle" /\ journal = NoRecord /\ last # "rollback_failed" /\ ~busy
      /\ UNCHANGED <<head, busy, images, broken, journal, baseline, override, last, trouble>>
  BY DEF Claim, Calm, disk
<1>2. CASE Running # {}
  <2>1. PICK o \in Running : Take(o, TRUE) /\ ops' = ops
    BY <1>2 DEF Claim
  <2>2. o \in Ids /\ ops[o].status = "running" /\ Ids' = Ids
    BY <2>1 DEF Running, Ids
  <2>3. Queue' /\ ops \in Seq(Operations)
    BY <1>1, <2>1, QueueFrame DEF IInv, TypeOK, controller
  <2> QED
    BY <1>1, <2>1, <2>2, <2>3, TakeKeeps
<1>3. CASE Running = {}
  <2>1. PICK o \in Ids :
          /\ ops[o].status = "queued"
          /\ \/ ops' = [ops EXCEPT ![o].status = "failed"] /\ UNCHANGED memory
             \/ ops' = [ops EXCEPT ![o].status = "running"] /\ Take(o, FALSE)
    BY <1>3 DEF Claim
  <2>2. \A p \in Ids : o < p => ops[p].sha # ops[o].sha
    BY <2>1 DEF IInv, Queue
  <2>3. CASE ops' = [ops EXCEPT ![o].status = "failed"] /\ UNCHANGED memory
    <3>1. "failed" \in Statuses
      BY DEF Statuses, TERMINAL
    <3>2. /\ ops' \in Seq(Operations) /\ Len(ops') = Len(ops) /\ Ids' = Ids
          /\ \A p \in Ids : /\ ops'[p].sha = ops[p].sha
                            /\ ops'[p].status = IF p = o THEN "failed" ELSE ops[p].status
      BY <2>3, <3>1, Marking DEF IInv
    <3>3. Running' = Running
      BY <2>1, <3>2 DEF Running
    <3>4. TypeOK'
      BY <1>1, <2>3, <3>2 DEF IInv, TypeOK, memory
    <3>5. Queue'
      BY <1>1, <1>3, <2>2, <2>3, <3>1, <3>3, MarkingKeepsHistories DEF Queue
    <3>6. \A p \in Ids : ops[p].status \in {"running"} \cup TERMINAL
                         => ops'[p].status = ops[p].status
      BY <2>1, <3>2 DEF TERMINAL
    <3>7. UNCHANGED <<record, resumed, stage>>
      BY <2>3 DEF memory
    <3> QED
      BY <1>1, <3>2, <3>3, <3>4, <3>5, <3>6, <3>7, RowsFrame DEF IInv
  <2>4. CASE ops' = [ops EXCEPT ![o].status = "running"] /\ Take(o, FALSE)
    <3>1. "running" \in Statuses
      BY DEF Statuses
    <3>2. /\ ops' \in Seq(Operations) /\ Len(ops') = Len(ops) /\ Ids' = Ids
          /\ \A p \in Ids : /\ ops'[p].sha = ops[p].sha
                            /\ ops'[p].status = IF p = o THEN "running" ELSE ops[p].status
      BY <2>4, <3>1, Marking DEF IInv
    <3>3. Running' = {o}
      BY <1>3, <3>2 DEF Running
    <3>4. Queue'
      BY <1>1, <2>2, <2>4, <3>1, <3>3, MarkingKeepsHistories DEF Queue
    <3>5. /\ ops'[o].status = "running"
          /\ \A p \in Ids : /\ ops'[p].sha = ops[p].sha
                            /\ p # o => ops'[p].status = ops[p].status
      BY <3>2
    <3>6. Take(o, FALSE) /\ FALSE \in BOOLEAN /\ ops[o].status \in {"queued", "running"}
      BY <2>1, <2>4
    <3> QED
      BY <1>1, <3>2, <3>4, <3>5, <3>6, TakeKeeps
  <2> QED
    BY <2>1, <2>3, <2>4
<1> QED
  BY <1>2, <1>3

LEMMA ReportKeeps == ASSUME IInv, Report PROVE IInv'
<1>1. /\ stage = "report" /\ stage' = "receipt"
      /\ ops[record.id].status \in {"running", record.status}
      /\ ops' = [ops EXCEPT ![record.id].status = record.status]
      /\ UNCHANGED <<head, busy, images, broken, journal, baseline, override, last,
                     record, resumed, trouble>>
  BY DEF Report, Calm, disk
<1>2. /\ journal = record /\ record.phase = "complete" /\ record.id \in Ids
      /\ record.status \in TERMINAL /\ Running \subseteq {record.id}
  BY <1>1 DEF IInv, TypeOK, Memory, Journal, Records, Reporting
<1>3. record.status \in Statuses /\ record.status \notin {"queued", "running"}
  BY <1>2 DEF Statuses, TERMINAL
<1>4. /\ ops' \in Seq(Operations) /\ Len(ops') = Len(ops) /\ Ids' = Ids
      /\ \A p \in Ids : /\ ops'[p].sha = ops[p].sha
                        /\ ops'[p].status = IF p = record.id THEN record.status ELSE ops[p].status
  BY <1>1, <1>2, <1>3, Marking DEF IInv
<1>5. TypeOK'
  BY <1>1, <1>4 DEF IInv, TypeOK, Stages
<1>6. Running' = {}
  BY <1>2, <1>3, <1>4 DEF Running
<1>7. Queue'
  <2>1. record.status = "succeeded" => \A p \in Ids : record.id < p => ops[p].sha # ops[record.id].sha
    BY <1>1, <1>2 DEF IInv, Queue
  <2> QED
    BY <1>1, <1>2, <1>3, <1>6, <2>1, MarkingKeepsHistories DEF Queue
<1>8. Journal'
  BY <1>1, <1>2, <1>4, <1>6 DEF IInv, Journal, Lost
<1>9. Memory'
  BY <1>1, <1>2, <1>4 DEF Memory, Installing, Undoing, Reporting
<1>10. Switch'
  BY <1>1, <1>2 DEF Switch
<1>11. Baseline' /\ Installed'
  <2>1. \A sha : Earned(sha) => Earned(sha)'
    BY <1>1, <1>4 DEF Earned
  <2> QED
    BY <1>1, <1>2, <1>4, <2>1 DEF IInv, Baseline, Installed, Lost
<1> QED
  BY <1>5, <1>7, <1>8, <1>9, <1>10, <1>11 DEF IInv

LEMMA RecoverKeeps == ASSUME IInv, Recover PROVE IInv'
<1>1. /\ UNCHANGED <<head, ops, busy, images, broken, baseline, override, last, trouble>>
      /\ stage = "idle" /\ journal # NoRecord /\ resumed' = FALSE
  BY DEF Recover, Calm, controller
<1>2. Ids' = Ids /\ Running' = Running
  BY <1>1 DEF Ids, Running
<1>3. /\ journal \in Records /\ journal.phase \in {"preflight", "switching", "complete"}
      /\ journal.id \in Ids
  BY <1>1 DEF IInv, TypeOK, Journal, Records
<1>4. Queue'
  BY <1>1, QueueFrame DEF IInv, controller
<1>5. CASE journal.phase \in {"switching", "complete"}
  <2>1. /\ record' = journal /\ journal' = journal
        /\ stage' = IF journal.phase = "switching" THEN "undo" ELSE "report"
    BY <1>5 DEF Recover
  <2>2. TypeOK'
    BY <1>1, <1>3, <2>1 DEF IInv, TypeOK, Stages
  <2>3. Journal' /\ Baseline' /\ Installed'
    BY <1>1, <1>2, <2>1 DEF IInv, Journal, Baseline, Installed, Lost, Earned
  <2>4. Memory' /\ Switch'
    BY <1>1, <1>2, <1>5, <2>1
       DEF IInv, Memory, Switch, Installing, Undoing, Reporting, Earned
  <2> QED
    BY <1>4, <2>2, <2>3, <2>4 DEF IInv
<1>6. CASE journal.phase = "preflight"
  <2>1. /\ record' = [journal EXCEPT !.phase = "complete", !.status = "failed"]
        /\ journal' = record' /\ stage' = "report"
    BY <1>6 DEF Recover
  <2>2. /\ record' \in Records /\ record'.id = journal.id
        /\ record'.phase = "complete" /\ record'.status = "failed"
    BY <1>3, <2>1 DEF Records, TERMINAL
  <2>3. journal.status = "none" /\ ~Lost /\ ops[journal.id].status = "running"
    BY <1>6 DEF IInv, Journal, Lost
  <2>4. TypeOK'
    BY <1>1, <2>1, <2>2 DEF IInv, TypeOK, Stages
  <2>5. Journal'
    BY <1>1, <1>2, <1>3, <2>1, <2>2, <2>3 DEF IInv, Journal, Lost
  <2>6. Memory' /\ Switch'
    BY <2>1, <2>2 DEF Memory, Switch, Installing, Undoing, Reporting
  <2>7. Baseline' /\ Installed'
    BY <1>1, <1>2, <1>6, <2>1, <2>2, <2>3 DEF IInv, Baseline, Installed, Lost, Earned
  <2> QED
    BY <1>4, <2>4, <2>5, <2>6, <2>7 DEF IInv
<1> QED
  BY <1>3, <1>5, <1>6

-----------------------------------------------------------------------------
(* The theorems                                                             *)

LEMMA StutterKeeps == ASSUME IInv, UNCHANGED vars PROVE IInv'
<1>1. UNCHANGED <<head, ops, busy, images, broken, journal, baseline, override, last,
                  record, resumed, stage, trouble>>
  BY DEF vars, controller, disk, memory
<1>2. TypeOK' /\ Queue'
  BY <1>1, QueueFrame DEF IInv, TypeOK, controller
<1>3. Journal' /\ Memory' /\ Switch' /\ Baseline' /\ Installed'
  BY <1>1 DEF IInv, Journal, Memory, Switch, Baseline, Installed, Lost, Running, Ids,
              Earned, Candidate
<1> QED
  BY <1>2, <1>3 DEF IInv

LEMMA NextKeeps == ASSUME IInv, [Next]_vars PROVE IInv'
<1>1. ASSUME Controller PROVE IInv'
  BY <1>1, MergeKeeps, JobKeeps, ProposeKeeps, ApproveKeeps, ExpireKeeps DEF Controller
<1>2. ASSUME Claim \/ Begin \/ Preflight \/ Switching \/ Refuse PROVE IInv'
  BY <1>2, ClaimKeeps, BeginKeeps, PreflightKeeps, SwitchingKeeps, RefuseKeeps
<1>3. ASSUME SaveOverride \/ (\E s \in Services : Replace(s)) \/ Verify \/ SaveBaseline
      PROVE  IInv'
  BY <1>3, SaveOverrideKeeps, ReplaceKeeps, VerifyKeeps, SaveBaselineKeeps
<1>4. ASSUME Succeed \/ RollBack \/ SwitchFails \/ UndoFails PROVE IInv'
  BY <1>4, SucceedKeeps, RollBackKeeps, SwitchFailsKeeps, UndoFailsKeeps
<1>5. ASSUME Recover \/ Report \/ SaveResult \/ Unlink PROVE IInv'
  BY <1>5, RecoverKeeps, ReportKeeps, SaveResultKeeps, UnlinkKeeps
<1> QED
  BY <1>1, <1>2, <1>3, <1>4, <1>5, CrashKeeps, StutterKeeps DEF Next, Tick

(* The rows, the journal, the memory of the supervisor and the containers agree
   at every step of a deployment, whatever was killed in between.           *)
THEOREM Inductive == Spec => []IInv
<1>1. Init => IInv
  BY Initially
<1>2. IInv /\ [Next]_vars => IInv'
  BY NextKeeps
<1> QED
  BY <1>1, <1>2, PTL DEF Spec

(* Every row, file and variable of a deployment keeps its type.             *)
THEOREM TypeCorrect == Spec => []TypeOK
<1>1. IInv => TypeOK
  BY DEF IInv
<1> QED
  BY <1>1, Inductive, PTL

(* Whenever no switch is under way and no rollback has failed, all containers
   run the baseline, and the compose override says so.                      *)
THEOREM BaselineInstalled == Spec => []Installed
<1>1. IInv => Installed
  BY DEF IInv
<1> QED
  BY <1>1, Inductive, PTL

(* What a step that replaces a container, or moves the baseline, or marks a
   row, is. *)
LEMMA OnlyReplace ==
    ASSUME [Next]_vars, images' # images
    PROVE  \E s \in Services : Replace(s)
BY DEF Next, Controller, Tick, Merge, StartJob, EndJob, Propose, Approve, Expire,
       Claim, Begin, Preflight, Switching, Refuse, SaveOverride, Verify, SaveBaseline,
       Succeed, RollBack, SwitchFails, UndoFails, Recover, Report, SaveResult, Unlink,
       Crash, vars

LEMMA OnlySaveBaseline ==
    ASSUME [Next]_vars, baseline' # baseline
    PROVE  SaveBaseline
BY DEF Next, Controller, Tick, Merge, StartJob, EndJob, Propose, Approve, Expire,
       Claim, Begin, Preflight, Switching, Refuse, SaveOverride, Replace, Verify,
       Succeed, RollBack, SwitchFails, UndoFails, Recover, Report, SaveResult, Unlink,
       Crash, vars, disk

(* Containers are only replaced while the deployment of the journal, and no
   other, is running, and no job is.                                        *)
THEOREM SwitchesAreQuiet == Spec => SwitchesQuietly
<1>1. IInv /\ [Next]_vars => (images' # images => ~busy /\ Running = {journal.id})
  <2> SUFFICES ASSUME IInv, [Next]_vars, images' # images
               PROVE  ~busy /\ Running = {journal.id}
    OBVIOUS
  <2>1. stage \in {"installing", "undoing"}
    BY OnlyReplace DEF Replace
  <2>2. /\ journal.phase = "switching" /\ journal.id \in Ids /\ Running \subseteq {journal.id}
        /\ ops[journal.id].status = "running"
    BY <2>1 DEF IInv, Memory, Journal, Installing, Undoing
  <2>3. Running = {journal.id}
    BY <2>2 DEF Running
  <2> QED
    BY <2>3 DEF IInv, Queue
<1> QED
  BY <1>1, Inductive, PTL DEF SwitchesQuietly, Spec

(* The baseline only moves to a newer commit, or back to the one the journal
   kept: an approval given out of order never replaces a newer release.     *)
THEOREM BaselineOnlyNewer == Spec => NewerOnly
<1>1. IInv /\ [Next]_vars
        => (baseline' # baseline => baseline' > baseline \/ baseline' = journal.oldSha)
  <2> SUFFICES ASSUME IInv, [Next]_vars, baseline' # baseline
               PROVE  baseline' > baseline \/ baseline' = journal.oldSha
    OBVIOUS
  <2>1. \/ stage = "installed" /\ baseline' = Candidate
        \/ stage = "undone" /\ baseline' = record.oldSha
    BY OnlySaveBaseline DEF SaveBaseline
  <2>2. journal = record /\ journal.phase = "switching"
    BY <2>1 DEF IInv, Memory, Installing, Undoing
  <2>3. stage = "installed" => Candidate > baseline
    BY <2>2 DEF IInv, Switch, Candidate
  <2> QED
    BY <2>1, <2>2, <2>3
<1> QED
  BY <1>1, Inductive, PTL DEF NewerOnly, Spec

(* Once a rollback has failed no container is touched again.                *)
THEOREM LossHalts == Spec => HaltsAfterLoss
<1>1. IInv /\ [Next]_vars
        => ((\E o \in Ids : ops[o].status = "rollback_failed") => UNCHANGED images)
  <2> SUFFICES ASSUME IInv, [Next]_vars, images' # images
               PROVE  ~ \E o \in Ids : ops[o].status = "rollback_failed"
    OBVIOUS
  <2>1. stage \in {"installing", "undoing"}
    BY OnlyReplace DEF Replace
  <2>2. journal.phase = "switching"
    BY <2>1 DEF IInv, Memory, Installing, Undoing
  <2> QED
    BY <2>2 DEF IInv, Journal, Lost
<1> QED
  BY <1>1, Inductive, PTL DEF HaltsAfterLoss, Spec

(* A deployment is reported as a success when every container runs its commit,
   and as failed or rolled back when every container runs the release before
   it, which is another one.                                                *)
THEOREM OutcomesAreHonest == Spec => HonestOutcome
<1> DEFINE Honest(o) ==
      CASE ops'[o].status = "succeeded" -> images = Uniform(ops[o].sha)
        [] ops'[o].status = "rollback_failed" -> TRUE
        [] OTHER -> images = Uniform(baseline) /\ ops[o].sha # baseline
<1>1. IInv /\ [Next]_vars
        => \A o \in Ids : ops[o].status = "running" /\ ops'[o].status \in TERMINAL => Honest(o)
  <2> SUFFICES ASSUME IInv, [Next]_vars, NEW o \in Ids,
                      ops[o].status = "running", ops'[o].status \in TERMINAL
               PROVE  Honest(o)
    OBVIOUS
  <2> HIDE DEF Honest
  <2>1. ops \in Seq(Operations) /\ ops[o] \in Operations
    BY RowTypes DEF IInv, TypeOK
  <2>2. ~ UNCHANGED ops
    BY DEF TERMINAL
  <2>3. \A sha \in Shas : ~ Propose(sha)
    <3> SUFFICES ASSUME NEW sha \in Shas, Propose(sha) PROVE FALSE
      OBVIOUS
    <3>1. ops'[o] = ops[o]
      BY <2>1 DEF Propose, Ids
    <3> QED
      BY <3>1 DEF TERMINAL
  <2>4. \A p \in Ids : ~ Approve(p) /\ ~ Expire(p)
    <3> SUFFICES ASSUME NEW p \in Ids, Approve(p) \/ Expire(p) PROVE FALSE
      OBVIOUS
    <3>1. ops'[o].status \in {"running", "queued"}
      BY <2>1, RowTypes DEF IInv, Approve, Expire, Ids, Operations
    <3> QED
      BY <3>1 DEF TERMINAL
  <2>5. ~ Claim
    <3> SUFFICES ASSUME Claim PROVE FALSE
      OBVIOUS
    <3>1. Running # {}
      BY DEF Running
    <3> QED
      BY <2>2, <3>1 DEF Claim
  <2>6. Report
    BY <2>2, <2>3, <2>4, <2>5
       DEF Next, Controller, Tick, Merge, StartJob, EndJob, Begin, Preflight, Switching,
           Refuse, SaveOverride, Replace, Verify, SaveBaseline, Succeed, RollBack,
           SwitchFails, UndoFails, Recover, SaveResult, Unlink, Crash, vars, controller
  <2>7. /\ stage = "report" /\ journal = record /\ record.phase = "complete"
        /\ record.id \in Ids /\ Running \subseteq {record.id}
    BY <2>6 DEF IInv, Memory, Journal, Report, Reporting
  <2>8. o = record.id
    BY <2>7 DEF Running
  <2>9. record.status \in TERMINAL /\ ops'[o].status = record.status
    BY <2>1, <2>6, <2>7, <2>8 DEF IInv, TypeOK, Journal, Records, Report, Ids
  <2>10. CASE record.status = "rollback_failed"
    BY <2>9, <2>10 DEF Honest
  <2>11. CASE record.status # "rollback_failed"
    <3>1. last # "rollback_failed" /\ ~Lost
      BY <2>7, <2>11 DEF IInv, Journal, Lost
    <3>2. images = Uniform(baseline)
      BY <2>7, <3>1 DEF IInv, Installed
    <3>3. record.status = "succeeded" => ops[o].sha = baseline
      BY <2>7, <2>8 DEF IInv, Baseline
    <3>4. record.status # "succeeded" => ops[o].sha # baseline
      <4> SUFFICES ASSUME record.status # "succeeded", ops[o].sha = baseline PROVE FALSE
        OBVIOUS
      <4>1. Earned(ops[o].sha) /\ ops[o].sha \in 1..head
        BY <2>7, <3>1 DEF IInv, Baseline, Queue
      <4>2. PICK p \in Ids : ops[p].sha = ops[o].sha /\ ops[p].status = "succeeded"
        BY <4>1 DEF Earned
      <4>3. p < o \/ o < p
        BY <4>2, RowTypes DEF IInv
      <4> QED
        BY <4>2, <4>3 DEF IInv, Queue
    <3> QED
      BY <2>9, <2>11, <3>2, <3>3, <3>4 DEF Honest
  <2> QED
    BY <2>10, <2>11
<1> QED
  BY <1>1, Inductive, PTL DEF HonestOutcome, Spec
=============================================================================
