------------------------- MODULE DiscordChangeProofs -------------------------
(***************************************************************************)
(* What module DiscordChange promises, for any number of changes, presses, *)
(* touches and troubles: type correctness, OverwritesApproved, and that    *)
(* the records implement module Approval.                                  *)
(*                                                                         *)
(* The inductive invariant says which handler owns a change.  `by' names   *)
(* the press that approved a change; only its handler goes on to read,     *)
(* authorise and execute, and at each of these steps the record's status   *)
(* and the number of times its plan was carried out are known.             *)
(***************************************************************************)
EXTENDS DiscordChange, TLAPS

ClickRecords ==
    [step: Steps, of: Messages, seen: Contents, fresh: BOOLEAN, behind: BOOLEAN]
USE DEF ClickRecords

(* The steps that only the handler of the approving press takes.            *)
Owning == {"read", "authorize", "execute", "complete", "fail"}

Records ==
    \A m \in Messages :
        /\ made[m] \in {0, 1}
        /\ changes[m].status \in {"none", "pending", "approved", "stale"} => made[m] = 0
        /\ changes[m].status \in {"none", "pending"} => changes[m].by = Nobody
        /\ changes[m].status = "completed" => made[m] = 1

OwnerHandles(k) ==
    LET m == click[k].of IN
    /\ click[k].step \in Owning => changes[m].by = k
    /\ click[k].step \in {"read", "authorize"} => changes[m].status = "approved"
    /\ click[k].step = "execute" => changes[m].status = "executing" /\ made[m] = 0
    /\ click[k].step = "complete" => changes[m].status = "executing" /\ made[m] = 1
Handlers == \A k \in Clicks : OwnerHandles(k)

(* Its look at the place found what was there, and nothing changed there since. *)
Informed(k) == click[k].fresh /\ ~click[k].behind
SeesGuild(k) ==
    LET m == click[k].of IN
    Informed(k) =>
        /\ click[k].step = "authorize" => guild[Target(m)] = click[k].seen
        /\ click[k].step = "execute" => guild[Target(m)] = changes[m].before
Sight == \A k \in Clicks : SeesGuild(k)

IInv == TypeOK /\ Records /\ Handlers /\ Sight

-----------------------------------------------------------------------------
LEMMA Choices ==
    /\ Idle \in [of: Messages \cup {Nobody}, plan: Plans, before: Contents]
    /\ NoChange \in [status: Statuses, plan: Plans, before: Contents, by: Clicks \cup {Nobody}]
    /\ (CHOOSE m \in Messages : TRUE) \in Messages
<1>1. (CHOOSE m \in Messages : TRUE) \in Messages
  BY NobodyAssumption
<1>2. (CHOOSE p \in Plans : TRUE) \in Plans
  BY DEF Plans
<1> QED
  BY <1>1, <1>2 DEF Idle, NoChange, Contents, Statuses

LEMMA Initially == Init => IInv
<1> SUFFICES ASSUME Init PROVE IInv
  OBVIOUS
<1> USE DEF Init
<1>1. TypeOK
  <2>1. click \in [Clicks -> ClickRecords]
    <3> DEFINE first == CHOOSE m \in Messages : TRUE
    <3>1. first \in Messages
      BY Choices
    <3>2. click \in [Clicks -> [step: {"idle"}, of: {first}, seen: {"absent"},
                              fresh: {FALSE}, behind: {FALSE}]]
      OBVIOUS
    <3> HIDE DEF first, Init
    <3> QED
      BY <3>1, <3>2, {"idle"} \subseteq Steps, {"absent"} \subseteq Contents
         DEF Steps, Contents
  <2>2. guild \in [Places -> Contents] /\ cache \in [Places -> Contents]
    BY DEF Places, Contents
  <2>3. proposal \in [of: Messages \cup {Nobody}, plan: Plans, before: Contents]
    BY Choices
  <2>4. changes \in [Messages -> [status: Statuses, plan: Plans, before: Contents,
                                  by: Clicks \cup {Nobody}]]
    BY Choices
  <2> QED
    BY <2>1, <2>2, <2>3, <2>4 DEF TypeOK
<1>2. Records
  BY DEF Records, NoChange
<1>3. Handlers
  BY DEF Handlers, OwnerHandles, Owning
<1>4. Sight
  BY DEF Sight, SeesGuild, Informed
<1> QED
  BY <1>1, <1>2, <1>3, <1>4 DEF IInv

-----------------------------------------------------------------------------
(* The steps of propose_sre_change and of the world.                        *)

LEMMA LookUpKeeps ==
    ASSUME IInv, NEW m \in Messages, NEW p \in Plans, LookUp(m, p)
    PROVE  IInv'
<1> USE DEF LookUp
<1>1. TypeOK'
  <2>1. Seen(p.place) \in Contents
    BY DEF IInv, TypeOK, Seen, Plans, Places
  <2> QED
    BY <2>1 DEF IInv, TypeOK
<1>2. Records' /\ Handlers' /\ Sight'
  BY DEF IInv, Records, Handlers, OwnerHandles, Sight, SeesGuild, Informed, Target
<1> QED
  BY <1>1, <1>2 DEF IInv

LEMMA ProposeKeeps ==
    ASSUME IInv, NEW arrives \in BOOLEAN, Propose(proposal, arrives)
    PROVE  IInv'
<1> DEFINE of == proposal.of
           new == [status |-> "pending", plan |-> proposal.plan,
                   before |-> proposal.before, by |-> Nobody]
<1>1. of \in Messages /\ new \in [status: Statuses, plan: Plans, before: Contents,
                                   by: Clicks \cup {Nobody}]
  BY DEF IInv, TypeOK, Propose, Statuses
<1>2. CASE Acceptable(proposal) /\ changes[of].status = "none"
  <2>1. changes' = [changes EXCEPT ![of] = new] /\ UNCHANGED <<guild, cache, late, click, made>>
    BY <1>2 DEF Propose
  <2>2. buttons' \subseteq buttons \cup {of} /\ proposal' = Idle /\ lost' \in {lost, lost + 1}
        /\ UNCHANGED <<proposals, touches, crashes>>
    BY DEF Propose, Answer
  <2>3. TypeOK'
    <3>1. changes' \in [Messages -> [status: Statuses, plan: Plans, before: Contents,
                                    by: Clicks \cup {Nobody}]]
      BY <1>1, <2>1 DEF IInv, TypeOK
    <3>2. buttons' \subseteq {m \in Messages : changes'[m].status # "none"}
      BY <1>1, <2>1, <2>2 DEF IInv, TypeOK
    <3> QED
      BY <2>1, <2>2, <3>1, <3>2, Choices DEF IInv, TypeOK
  <2>4. Records'
    BY <1>1, <1>2, <2>1 DEF IInv, TypeOK, Records
  <2>5. \A k \in Clicks : click[k].of = of => click[k].step \notin Owning
    BY <1>1, <1>2, NobodyAssumption DEF IInv, Records, Handlers, OwnerHandles
  <2>6. Handlers'
    BY <1>1, <2>1, <2>5 DEF IInv, TypeOK, Handlers, OwnerHandles, Owning
  <2>7. Sight'
    BY <1>1, <2>1, <2>5 DEF IInv, TypeOK, Sight, SeesGuild, Informed, Target, Owning
  <2> QED
    BY <2>3, <2>4, <2>6, <2>7 DEF IInv
<1>3. CASE ~(Acceptable(proposal) /\ changes[of].status = "none")
  <2>1. UNCHANGED <<guild, cache, changes, late, click, made, proposals, touches, crashes>>
        /\ proposal' = Idle /\ lost' \in {lost, lost + 1}
    BY <1>3 DEF Propose, Answer
  <2>2. buttons' \subseteq {m \in Messages : changes'[m].status # "none"}
    BY <1>1, <1>3, <2>1 DEF IInv, TypeOK, Propose
  <2>3. TypeOK'
    BY <2>1, <2>2, Choices DEF IInv, TypeOK
  <2>4. Records' /\ Handlers' /\ Sight'
    BY <2>1 DEF IInv, Records, Handlers, OwnerHandles, Sight, SeesGuild, Informed, Target
  <2> QED
    BY <2>3, <2>4 DEF IInv
<1> QED
  BY <1>2, <1>3

LEMMA ExpireKeeps ==
    ASSUME IInv, NEW m \in Messages, Expire(m)
    PROVE  IInv'
<1> USE DEF Expire
<1>1. TypeOK'
  BY DEF IInv, TypeOK
<1>2. Records' /\ Handlers' /\ Sight'
  BY DEF IInv, Records, Handlers, OwnerHandles, Sight, SeesGuild, Informed, Target
<1> QED
  BY <1>1, <1>2 DEF IInv

(* Whoever is about to write to a place that changes is not informed any more. *)
LEMMA OutdatedKeeps ==
    ASSUME TypeOK, NEW place \in Places
    PROVE  /\ Outdated(place) \in [Clicks -> ClickRecords]
           /\ \A k \in Clicks :
                 /\ Outdated(place)[k].step = click[k].step
                 /\ Outdated(place)[k].of = click[k].of
                 /\ Outdated(place)[k].seen = click[k].seen
                 /\ Outdated(place)[k].fresh /\ ~Outdated(place)[k].behind
                       => Informed(k) /\ Target(click[k].of) # place
BY DEF Informed, TypeOK, Outdated

LEMMA TouchKeeps ==
    ASSUME IInv, NEW place \in Places, NEW content \in States[place], Touch(place, content)
    PROVE  IInv'
<1>1. /\ guild' = [guild EXCEPT ![place] = content] /\ click' = Outdated(place)
      /\ UNCHANGED <<cache, proposal, changes, late, buttons, made, proposals, lost, crashes>>
      /\ touches' = touches + 1
  BY DEF Touch
<1>2. content \in Contents
  BY DEF States, Contents, Places
<1>3. TypeOK'
  BY <1>1, <1>2, OutdatedKeeps DEF IInv, TypeOK
<1>4. Records'
  BY <1>1 DEF IInv, Records
<1>5. Handlers'
  BY <1>1, OutdatedKeeps DEF IInv, Handlers, OwnerHandles
<1>6. Sight'
  BY <1>1, OutdatedKeeps DEF IInv, TypeOK, Sight, SeesGuild, Informed, Target
<1> QED
  BY <1>3, <1>4, <1>5, <1>6 DEF IInv

LEMMA GoesTo ==
    ASSUME TypeOK, NEW k \in Clicks, NEW step \in Steps
    PROVE  /\ Goes(k, step) \in [Clicks -> ClickRecords]
           /\ Goes(k, step)[k].step = step /\ Goes(k, step)[k].of = click[k].of
           /\ Goes(k, step)[k].fresh /\ ~Goes(k, step)[k].behind
                 => step = "execute" /\ Informed(k)
           /\ \A j \in Clicks \ {k} : Goes(k, step)[j] = click[j]
<1> DEFINE next == [click[k] EXCEPT !.step = step, !.seen = "absent",
                                    !.fresh = @ /\ step = "execute",
                                    !.behind = @ /\ step = "execute"]
<1>1. click[k] \in ClickRecords /\ "absent" \in Contents
  BY DEF TypeOK, Contents
<1>2. next \in ClickRecords /\ next.step = step /\ next.of = click[k].of
  BY <1>1, Zenon
<1>3. Goes(k, step) = [click EXCEPT ![k] = next]
  BY DEF TypeOK, Goes
<1>4. next.fresh = (click[k].fresh /\ step = "execute")
      /\ next.behind = (click[k].behind /\ step = "execute")
  BY <1>1
<1>5. next.fresh /\ ~next.behind => step = "execute" /\ Informed(k)
  BY <1>4 DEF Informed
<1> HIDE DEF next
<1>6. Goes(k, step)[k] = next
  BY <1>3 DEF TypeOK
<1>7. \A j \in Clicks \ {k} : Goes(k, step)[j] = click[j]
  BY <1>3 DEF TypeOK
<1>8. Goes(k, step) \in [Clicks -> ClickRecords]
  BY <1>2, <1>3 DEF TypeOK
<1> QED
  BY <1>2, <1>5, <1>6, <1>7, <1>8

LEMMA CrashKeeps ==
    ASSUME IInv, Crash
    PROVE  IInv'
<1>1. /\ proposal' = Idle /\ crashes' = crashes + 1
      /\ cache' = guild
      /\ click' = [k \in Clicks |-> IF click[k].step = "idle" THEN click[k]
                                    ELSE Goes(k, "over")[k]]
      /\ UNCHANGED <<guild, changes, late, buttons, made, proposals, touches, lost>>
  BY DEF Crash
<1>0. \A k \in Clicks : Goes(k, "over")[k] \in ClickRecords /\ Goes(k, "over")[k].step = "over"
  BY GoesTo, "over" \in Steps DEF IInv, Steps
<1>2. TypeOK'
  <2>1. click' \in [Clicks -> ClickRecords]
    BY <1>0, <1>1 DEF IInv, TypeOK
  <2> QED
    BY <1>1, <2>1, Choices DEF IInv, TypeOK
<1>3. \A k \in Clicks : click'[k].step \in {"idle", "over"}
  BY <1>0, <1>1
<1>4. Records' /\ Handlers' /\ Sight'
  BY <1>1, <1>3 DEF IInv, Records, Handlers, OwnerHandles, Sight, SeesGuild, Informed, Owning
<1> QED
  BY <1>2, <1>4 DEF IInv

LEMMA NoticeKeeps ==
    ASSUME IInv, NEW place \in Places, Notice(place)
    PROVE  IInv'
<1> USE DEF Notice
<1>1. TypeOK'
  BY DEF IInv, TypeOK
<1>2. Records' /\ Handlers' /\ Sight'
  BY DEF IInv, Records, Handlers, OwnerHandles, Sight, SeesGuild, Informed, Target
<1> QED
  BY <1>1, <1>2 DEF IInv

-----------------------------------------------------------------------------
(* The steps of handle_sre_interaction.  The first lemma is about a handler  *)
(* that leaves the records and the guild alone: it may give up, or start.    *)

LEMMA ChangeIsRecord ==
    ASSUME TypeOK, NEW m \in Messages
    PROVE  changes[m] \in [status: Statuses, plan: Plans, before: Contents,
                          by: Clicks \cup {Nobody}]
BY DEF TypeOK

LEMMA GivingUpKeeps ==
    ASSUME IInv, NEW k \in Clicks, NEW step \in {"fail", "over"},
           step = "fail" => click[k].step \in Owning,
           click' = Goes(k, step), lost' \in {lost, lost + 1},
           UNCHANGED <<guild, cache, proposal, changes, late, buttons, made, proposals, touches,
                       crashes>>
    PROVE  IInv'
<1>1. step \in Steps
  BY DEF Steps
<1>0. /\ click' \in [Clicks -> ClickRecords]
      /\ click'[k].step = step /\ click'[k].of = click[k].of
      /\ click'[k].fresh /\ ~click'[k].behind => step = "execute" /\ Informed(k)
      /\ \A j \in Clicks \ {k} : click'[j] = click[j]
  BY <1>1, GoesTo DEF IInv
<1>2. TypeOK'
  BY <1>0 DEF IInv, TypeOK
<1>3. Records'
  BY DEF IInv, Records
<1>4. Handlers'
  BY <1>0 DEF IInv, TypeOK, Handlers, OwnerHandles, Owning
<1>5. Sight'
  BY <1>0 DEF IInv, TypeOK, Sight, SeesGuild, Informed, Target
<1> QED
  BY <1>2, <1>3, <1>4, <1>5 DEF IInv

(* A handler moves on, and with it the status of its change only.            *)
LEMMA MovingKeeps ==
    ASSUME IInv, NEW k \in Clicks, NEW step \in Steps, NEW record,
           LET m == click[k].of IN
           /\ record \in [status: Statuses, plan: Plans, before: Contents,
                          by: Clicks \cup {Nobody}]
           /\ record.plan = changes[m].plan /\ record.before = changes[m].before
           /\ record.status # "none"
           /\ record.status \in {"pending", "approved", "stale"} => made[m] = 0
           /\ record.status = "pending" => record.by = Nobody
           /\ record.status = "completed" => made[m] = 1
           /\ step \in Owning => record.by = k
           /\ step = "read" => record.status = "approved"
           /\ step = "execute" => record.status = "executing" /\ made[m] = 0
           /\ step = "complete" => record.status = "executing" /\ made[m] = 1
           /\ \A j \in Clicks \ {k} : click[j].of = m => click[j].step \notin Owning
           /\ step # "authorize"
           /\ step = "execute" /\ Informed(k) => guild[Target(m)] = record.before
           /\ changes' = [changes EXCEPT ![m] = record],
           click' = Goes(k, step), lost' \in {lost, lost + 1},
           UNCHANGED <<guild, cache, proposal, late, buttons, made, proposals, touches, crashes>>
    PROVE  IInv'
<1> DEFINE m == click[k].of
<1>1. m \in Messages
  BY DEF IInv, TypeOK
<1>0. /\ click' \in [Clicks -> ClickRecords]
      /\ click'[k].step = step /\ click'[k].of = click[k].of
      /\ click'[k].fresh /\ ~click'[k].behind => step = "execute" /\ Informed(k)
      /\ \A j \in Clicks \ {k} : click'[j] = click[j]
  BY GoesTo DEF IInv
<1>2. /\ changes' \in [Messages -> [status: Statuses, plan: Plans, before: Contents,
                                   by: Clicks \cup {Nobody}]]
      /\ changes'[m] = record /\ \A n \in Messages \ {m} : changes'[n] = changes[n]
  BY <1>1 DEF IInv, TypeOK
<1>3. TypeOK'
  BY <1>1, <1>2, <1>0 DEF IInv, TypeOK
<1>4. Records'
  BY <1>1, <1>2 DEF IInv, Records
<1>5. Handlers'
  <2> SUFFICES ASSUME NEW j \in Clicks PROVE OwnerHandles(j)'
    BY DEF Handlers
  <2>1. click'[j].of = click[j].of /\ click[j].of \in Messages
    BY <1>0 DEF IInv, TypeOK
  <2>2. CASE j = k
    BY <1>2, <2>1, <2>2, <1>0 DEF IInv, OwnerHandles
  <2>3. CASE j # k /\ click[j].of = m
    BY <2>1, <2>3, <1>0 DEF IInv, OwnerHandles, Owning
  <2>4. CASE j # k /\ click[j].of # m
    BY <1>2, <2>1, <2>4, <1>0 DEF IInv, Handlers, OwnerHandles
  <2> QED
    BY <2>2, <2>3, <2>4
<1>6. Sight'
  <2> SUFFICES ASSUME NEW j \in Clicks PROVE SeesGuild(j)'
    BY DEF Sight
  <2>1. click'[j].of = click[j].of /\ click[j].of \in Messages
    BY <1>0 DEF IInv, TypeOK
  <2>2. Target(click[j].of)' = Target(click[j].of)
    BY <1>2, <2>1 DEF Target
  <2>3. CASE j = k
    BY <1>2, <2>1, <2>2, <2>3, <1>0 DEF IInv, SeesGuild, Informed
  <2>4. CASE j # k /\ click[j].of = m
    BY <2>1, <2>4, <1>0 DEF IInv, SeesGuild, Informed, Owning
  <2>5. CASE j # k /\ click[j].of # m
    BY <1>2, <2>1, <2>2, <2>5, <1>0 DEF IInv, Sight, SeesGuild, Informed
  <2> QED
    BY <2>3, <2>4, <2>5
<1> QED
  BY <1>3, <1>4, <1>5, <1>6 DEF IInv

LEMMA PressKeeps ==
    ASSUME IInv, NEW k \in Clicks, NEW m \in Messages, Press(k, m)
    PROVE  IInv'
<1>1. /\ click' = [click EXCEPT ![k].step = "approve", ![k].of = m]
      /\ UNCHANGED <<guild, cache, proposal, changes, late, buttons, made, proposals, touches, lost,
                     crashes>>
  BY DEF Press
<1>2. TypeOK'
  <2>1. click \in [Clicks -> ClickRecords] /\ "approve" \in Steps
    BY DEF IInv, TypeOK, Steps
  <2>2. [click[k] EXCEPT !.step = "approve", !.of = m] \in ClickRecords
    BY <2>1
  <2>3. click' \in [Clicks -> ClickRecords]
    BY <1>1, <2>1, <2>2
  <2> QED
    BY <1>1, <2>3 DEF IInv, TypeOK
<1>3. Records'
  BY <1>1 DEF IInv, Records
<1>4. Handlers'
  BY <1>1 DEF IInv, TypeOK, Handlers, OwnerHandles, Owning
<1>5. Sight'
  BY <1>1 DEF IInv, TypeOK, Sight, SeesGuild, Informed, Target
<1> QED
  BY <1>2, <1>3, <1>4, <1>5 DEF IInv

LEMMA ApproveKeeps ==
    ASSUME IInv, NEW k \in Clicks, NEW arrives \in BOOLEAN, Approve(k, arrives)
    PROVE  IInv'
<1> DEFINE m == click[k].of
           record == [changes[m] EXCEPT !.status = "approved", !.by = k]
<1>1. m \in Messages /\ lost' \in {lost, lost + 1}
      /\ UNCHANGED <<guild, cache, proposal, late, buttons, made, proposals, touches, crashes>>
  BY DEF Approve, Answer, IInv, TypeOK
<1>2. CASE Approvable(k, m)
  <2> DEFINE step == IF arrives THEN "read" ELSE "over"
  <2>1. step \in Steps /\ step \notin {"authorize", "execute", "complete", "fail"}
    BY DEF Steps
  <2>2. /\ changes[m].status \in {"pending", "approved"} /\ changes[m].by \in {Nobody, k}
        /\ made[m] = 0
    BY <1>1, <1>2 DEF IInv, Records, Approvable
  <2>3. /\ record \in [status: Statuses, plan: Plans, before: Contents,
                       by: Clicks \cup {Nobody}]
        /\ record.plan = changes[m].plan /\ record.before = changes[m].before
        /\ record.status = "approved" /\ record.by = k
    BY <1>1, ChangeIsRecord DEF IInv, Statuses
  <2>4. \A j \in Clicks \ {k} : click[j].of = m => click[j].step \notin Owning
    BY <2>2, NobodyAssumption DEF IInv, Handlers, OwnerHandles
  <2>5. changes' = [changes EXCEPT ![m] = record] /\ click' = Goes(k, step)
    BY <1>1, <1>2, ChangeIsRecord DEF Approve, IInv, TypeOK
  <2> HIDE DEF step, record, m
  <2> QED
    BY <1>1, <2>1, <2>2, <2>3, <2>4, <2>5, MovingKeeps DEF m
<1>3. CASE ~Approvable(k, m)
  <2>1. UNCHANGED changes /\ click' = Goes(k, "over")
    BY <1>3 DEF Approve
  <2> QED
    BY <1>1, <2>1, GivingUpKeeps
<1> QED
  BY <1>2, <1>3

LEMMA ReadKeeps ==
    ASSUME IInv, NEW k \in Clicks, Read(k)
    PROVE  IInv'
<1> DEFINE place == Target(click[k].of)
<1>1. /\ click[k].step = "read"
      /\ UNCHANGED <<guild, cache, proposal, changes, late, buttons, made, proposals, touches, lost,
                     crashes>>
  BY DEF Read
<1>2. CASE place = "topic" /\ Seen(place) = "absent"
  <2>1. click' = Goes(k, "fail")
    BY <1>2 DEF Read
  <2> QED
    BY <1>1, <2>1, GivingUpKeeps DEF Owning
<1>3. CASE ~(place = "topic" /\ Seen(place) = "absent")
  <2>1. click' = [click EXCEPT ![k].step = "authorize", ![k].seen = Seen(place),
                               ![k].fresh = TRUE, ![k].behind = Seen(place) # guild[place]]
    BY <1>3 DEF Read
  <2>2. Seen(place) \in Contents
    <3>1. click[k].of \in Messages
      BY DEF IInv, TypeOK
    <3>2. place \in Places
      BY <3>1, ChangeIsRecord DEF IInv, Target, Plans, Places
    <3> QED
      BY <3>2 DEF IInv, TypeOK, Seen
  <2>3. TypeOK'
    <3> DEFINE Click == ClickRecords
    <3> HIDE DEF place
    <3>1. click \in [Clicks -> Click]
      BY DEF IInv, TypeOK
    <3>2. click[k] \in Click /\ "authorize" \in Steps
      BY <3>1 DEF Steps
    <3>3. [click[k] EXCEPT !.step = "authorize", !.seen = Seen(place), !.fresh = TRUE,
                           !.behind = Seen(place) # guild[place]] \in Click
      BY <2>2, <3>2
    <3>4. click' \in [Clicks -> Click]
      <4> HIDE DEF Click
      <4> QED
        BY <2>1, <3>1, <3>3
    <3> QED
      BY <1>1, <3>4 DEF IInv, TypeOK
  <2>4. Records'
    BY <1>1 DEF IInv, Records
  <2>5. /\ click'[k].step = "authorize" /\ click'[k].of = click[k].of
        /\ click'[k].seen = Seen(place) /\ click'[k].behind = (Seen(place) # guild[place])
        /\ \A j \in Clicks \ {k} : click'[j] = click[j]
    BY <2>1 DEF IInv, TypeOK
  <2>6. Handlers'
    BY <1>1, <2>5 DEF IInv, Handlers, OwnerHandles, Owning
  <2>7. Sight'
    <3> SUFFICES ASSUME NEW j \in Clicks, Informed(j)' PROVE SeesGuild(j)'
      BY DEF Sight, SeesGuild
    <3>1. CASE j = k
      <4>1. Seen(place) = guild[place]
        BY <2>5, <3>1 DEF Informed
      <4> QED
        BY <1>1, <2>5, <3>1, <4>1 DEF SeesGuild, Target
    <3>2. CASE j # k
      BY <1>1, <2>5, <3>2 DEF IInv, Sight, SeesGuild, Informed, Target
    <3> QED
      BY <3>1, <3>2
  <2> QED
    BY <2>3, <2>4, <2>6, <2>7 DEF IInv
<1> QED
  BY <1>2, <1>3

LEMMA AuthorizeKeeps ==
    ASSUME IInv, NEW k \in Clicks, NEW arrives \in BOOLEAN, Authorize(k, arrives)
    PROVE  IInv'
<1> DEFINE m == click[k].of
           status == IF Fits(k, m) THEN "executing" ELSE "stale"
           record == [changes[m] EXCEPT !.status = status]
           step == IF ~arrives THEN "fail"
                   ELSE IF m \notin late /\ Fits(k, m) THEN "execute" ELSE "over"
<1>1. m \in Messages /\ lost' \in {lost, lost + 1} /\ click[k].step = "authorize"
      /\ UNCHANGED <<guild, cache, proposal, late, buttons, made, proposals, touches, crashes>>
  BY DEF Authorize, Answer, IInv, TypeOK
<1>2. changes[m].status = "approved" /\ changes[m].by = k /\ made[m] = 0
  BY <1>1 DEF IInv, Records, Handlers, OwnerHandles, Owning
<1>3. click' = Goes(k, step)
  BY <1>2 DEF Authorize
<1>4. CASE m \notin late
  <2>1. changes' = [changes EXCEPT ![m] = record]
    BY <1>1, <1>2, <1>4 DEF Authorize, Marked, IInv, TypeOK
  <2>2. /\ record \in [status: Statuses, plan: Plans, before: Contents,
                       by: Clicks \cup {Nobody}]
        /\ record.plan = changes[m].plan /\ record.before = changes[m].before
        /\ record.status = status /\ record.by = k
    BY <1>1, <1>2, ChangeIsRecord DEF IInv, Statuses
  <2>3. \A j \in Clicks \ {k} : click[j].of = m => click[j].step \notin Owning
    BY <1>2 DEF IInv, Handlers, OwnerHandles
  <2>4. step \in Steps /\ step \notin {"read", "authorize", "complete"}
        /\ (step = "execute" => status = "executing") /\ status \in {"executing", "stale"}
    BY DEF Steps
  <2>5. step = "execute" /\ Informed(k) => guild[Target(m)] = changes[m].before
    BY <1>1 DEF IInv, Sight, SeesGuild, Informed, Fits
  <2> HIDE DEF step, record, status, m
  <2> QED
    BY <1>1, <1>2, <1>3, <2>1, <2>2, <2>3, <2>4, <2>5, MovingKeeps DEF m
<1>5. CASE m \in late
  <2>1. UNCHANGED changes /\ step \in {"fail", "over"}
    BY <1>5 DEF Authorize
  <2>2. click[k].step \in Owning
    BY <1>1 DEF Owning
  <2> HIDE DEF step
  <2> QED
    BY <1>1, <1>3, <2>1, <2>2, GivingUpKeeps
<1> QED
  BY <1>4, <1>5

LEMMA CompleteKeeps ==
    ASSUME IInv, NEW k \in Clicks, NEW arrives \in BOOLEAN, Complete(k, arrives)
    PROVE  IInv'
<1> DEFINE m == click[k].of
           record == [changes[m] EXCEPT !.status = "completed"]
           step == IF arrives THEN "over" ELSE "fail"
<1>1. m \in Messages /\ lost' \in {lost, lost + 1} /\ click[k].step = "complete"
      /\ click' = Goes(k, step)
      /\ UNCHANGED <<guild, cache, proposal, late, buttons, made, proposals, touches, crashes>>
  BY DEF Complete, Answer, IInv, TypeOK
<1>2. changes[m].status = "executing" /\ changes[m].by = k /\ made[m] = 1
  BY <1>1 DEF IInv, Handlers, OwnerHandles, Owning
<1>3. changes' = [changes EXCEPT ![m] = record]
  BY <1>1, <1>2 DEF Complete, Closing, Marked, IInv, TypeOK
<1>4. /\ record \in [status: Statuses, plan: Plans, before: Contents, by: Clicks \cup {Nobody}]
      /\ record.plan = changes[m].plan /\ record.before = changes[m].before
      /\ record.status = "completed" /\ record.by = k
  BY <1>1, <1>2, ChangeIsRecord DEF IInv, Statuses
<1>5. \A j \in Clicks \ {k} : click[j].of = m => click[j].step \notin Owning
  BY <1>2 DEF IInv, Handlers, OwnerHandles
<1>6. step \in Steps /\ step \in {"over", "fail"}
  BY DEF Steps
<1> HIDE DEF step, record, m
<1> QED
  BY <1>1, <1>2, <1>3, <1>4, <1>5, <1>6, MovingKeeps DEF m

LEMMA FailKeeps ==
    ASSUME IInv, NEW k \in Clicks, NEW arrives \in BOOLEAN, Fail(k, arrives)
    PROVE  IInv'
<1> DEFINE m == click[k].of
           record == [changes[m] EXCEPT !.status = "failed"]
<1>1. m \in Messages /\ lost' \in {lost, lost + 1} /\ click[k].step = "fail"
      /\ click' = Goes(k, "over")
      /\ UNCHANGED <<guild, cache, proposal, late, buttons, made, proposals, touches, crashes>>
  BY DEF Fail, Answer, IInv, TypeOK
<1>2. CASE changes[m].status = "executing"
  <2>1. changes' = [changes EXCEPT ![m] = record]
    BY <1>1, <1>2 DEF Fail, Closing, Marked, IInv, TypeOK
  <2>2. /\ record \in [status: Statuses, plan: Plans, before: Contents,
                       by: Clicks \cup {Nobody}]
        /\ record.plan = changes[m].plan /\ record.before = changes[m].before
        /\ record.status = "failed"
    BY <1>1, ChangeIsRecord DEF IInv, Statuses
  <2>3. changes[m].by = k
    BY <1>1 DEF IInv, Handlers, OwnerHandles, Owning
  <2>4. \A j \in Clicks \ {k} : click[j].of = m => click[j].step \notin Owning
    BY <2>3 DEF IInv, Handlers, OwnerHandles
  <2>5. "over" \in Steps /\ "over" \notin Owning
    BY DEF Steps, Owning
  <2> HIDE DEF record, m
  <2> QED
    BY <1>1, <2>1, <2>2, <2>4, <2>5, MovingKeeps DEF m
<1>3. CASE changes[m].status # "executing"
  <2>1. UNCHANGED changes
    BY <1>3 DEF Fail, Closing
  <2> QED
    BY <1>1, <2>1, GivingUpKeeps
<1> QED
  BY <1>2, <1>3

LEMMA LostKeeps ==
    ASSUME IInv, NEW k \in Clicks, Lost(k)
    PROVE  IInv'
<1> DEFINE step == IF click[k].step \in {"approve", "fail"} THEN "over" ELSE "fail"
<1>1. /\ click' = Goes(k, step) /\ lost' \in {lost, lost + 1}
      /\ UNCHANGED <<guild, cache, proposal, changes, late, buttons, made, proposals, touches,
                     crashes>>
  BY DEF Lost, Answer
<1>2. step \in {"fail", "over"} /\ (step = "fail" => click[k].step \in Owning)
  BY DEF Lost, Owning
<1> HIDE DEF step
<1> QED
  BY <1>1, <1>2, GivingUpKeeps

(* What Execute does to a guild where the change is possible.                *)
LEMMA ExecuteKeeps ==
    ASSUME IInv, NEW k \in Clicks, NEW arrives \in BOOLEAN, Execute(k, arrives)
    PROVE  IInv'
<1> DEFINE m == click[k].of
           place == Target(m)
           step == IF arrives THEN "complete" ELSE "fail"
<1>1. m \in Messages /\ click[k].step = "execute"
      /\ UNCHANGED <<proposal, changes, late, buttons, proposals, touches, crashes>>
  BY DEF Execute, IInv, TypeOK
<1>2. changes[m].status = "executing" /\ changes[m].by = k /\ made[m] = 0
  BY <1>1 DEF IInv, Handlers, OwnerHandles, Owning
<1>3. CASE place = "name" \/ guild[place] # "absent"
  <2>1. /\ guild' = [guild EXCEPT ![place] = changes[m].plan.to]
        /\ made' = [made EXCEPT ![m] = @ + 1]
        /\ click' = [Outdated(place) EXCEPT ![k].step = step]
        /\ cache' \in {cache, [cache EXCEPT !.name = "made"]} /\ lost' \in {lost, lost + 1}
    BY <1>3 DEF Execute, Answer
  <2>2. place \in Places /\ changes[m].plan.to \in Contents
    BY <1>1, ChangeIsRecord DEF IInv, Target, Plans, Places, Contents
  <2>3. /\ click' \in [Clicks -> ClickRecords]
        /\ click'[k].step = step
        /\ \A j \in Clicks : click'[j].of = click[j].of /\ click'[j].seen = click[j].seen
                           /\ (j # k => click'[j].step = click[j].step)
                           /\ (click'[j].fresh /\ ~click'[j].behind
                               => Informed(j) /\ Target(click[j].of) # place)
    <3>1. TypeOK /\ step \in Steps
      BY DEF IInv, Steps
    <3> HIDE DEF step, place
    <3> QED
      BY <2>1, <2>2, <3>1, OutdatedKeeps
  <2>4. TypeOK'
    <3>1. cache' \in [Places -> Contents]
      <4>1. cache \in [Places -> Contents] /\ "made" \in Contents
        BY DEF IInv, TypeOK, Contents
      <4>2. [cache EXCEPT !.name = "made"] \in [Places -> Contents]
        BY <4>1 DEF Places
      <4>3. cache' = cache \/ cache' = [cache EXCEPT !.name = "made"]
        BY <2>1
      <4> QED
        BY <4>1, <4>2, <4>3
    <3>2. guild' \in [Places -> Contents] /\ made' \in [Messages -> Nat] /\ lost' \in Nat
      <4> HIDE DEF place
      <4> QED
        BY <1>1, <2>1, <2>2 DEF IInv, TypeOK
    <3> QED
      BY <1>1, <2>3, <3>1, <3>2 DEF IInv, TypeOK
  <2>5. \A n \in Messages : made'[n] = IF n = m THEN 1 ELSE made[n]
    BY <1>1, <1>2, <2>1 DEF IInv, TypeOK
  <2>6. Records'
    BY <1>1, <1>2, <2>5 DEF IInv, Records
  <2>7. \A j \in Clicks \ {k} : click[j].of = m => click[j].step \notin Owning
    BY <1>2 DEF IInv, Handlers, OwnerHandles
  <2>8. Handlers'
    <3> SUFFICES ASSUME NEW j \in Clicks PROVE OwnerHandles(j)'
      BY DEF Handlers
    <3>1. click[j].of \in Messages
      BY DEF IInv, TypeOK
    <3>2. CASE j = k
      BY <1>1, <1>2, <2>3, <2>5, <3>1, <3>2 DEF OwnerHandles, Owning
    <3>3. CASE j # k /\ click[j].of = m
      BY <2>3, <2>7, <3>3 DEF OwnerHandles, Owning
    <3>4. CASE j # k /\ click[j].of # m
      BY <1>1, <2>3, <2>5, <3>1, <3>4 DEF IInv, Handlers, OwnerHandles
    <3> QED
      BY <3>2, <3>3, <3>4
  <2>9. Sight'
    <3> SUFFICES ASSUME NEW j \in Clicks, Informed(j)' PROVE SeesGuild(j)'
      BY DEF Sight, SeesGuild, Informed
    <3>1. click[j].of \in Messages /\ Informed(j) /\ Target(click[j].of) # place
      BY <2>3 DEF IInv, TypeOK, Informed
    <3>2. j # k
      BY <3>1
    <3>3. Target(click[j].of)' = Target(click[j].of)
      BY <1>1, <2>3 DEF Target
    <3>4. guild'[Target(click[j].of)] = guild[Target(click[j].of)]
      <4>1. Target(click[j].of) \in Places
        BY <3>1, ChangeIsRecord DEF IInv, Target, Plans, Places
      <4> HIDE DEF place
      <4> QED
        BY <2>1, <3>1, <4>1 DEF IInv, TypeOK
    <3> QED
      BY <1>1, <2>3, <3>1, <3>2, <3>3, <3>4 DEF IInv, Sight, SeesGuild, Informed
  <2> QED
    BY <2>4, <2>6, <2>8, <2>9 DEF IInv
<1>4. CASE ~(place = "name" \/ guild[place] # "absent")
  <2>1. click' = Goes(k, "fail") /\ UNCHANGED <<guild, cache, made, lost>>
    BY <1>4 DEF Execute
  <2>2. click[k].step \in Owning
    BY <1>1 DEF Owning
  <2> QED
    BY <1>1, <2>1, <2>2, GivingUpKeeps
<1> QED
  BY <1>3, <1>4

-----------------------------------------------------------------------------
LEMMA StutteringKeeps ==
    ASSUME IInv, UNCHANGED vars
    PROVE  IInv'
BY DEF IInv, TypeOK, Records, Handlers, OwnerHandles, Sight, SeesGuild, Informed, Target, vars

LEMMA NextKeeps ==
    ASSUME IInv, [Next]_vars
    PROVE  IInv'
<1>1. ASSUME NEW m \in Messages, NEW p \in Plans, LookUp(m, p) PROVE IInv'
  BY <1>1, LookUpKeeps
<1>2. ASSUME NEW m \in Messages, Expire(m) PROVE IInv'
  BY <1>2, ExpireKeeps
<1>3. ASSUME NEW arrives \in BOOLEAN, Propose(proposal, arrives) PROVE IInv'
  BY <1>3, ProposeKeeps
<1>4. ASSUME NEW k \in Clicks, NEW m \in Messages, Press(k, m) PROVE IInv'
  BY <1>4, PressKeeps
<1>5. ASSUME NEW k \in Clicks, Read(k) \/ Lost(k) PROVE IInv'
  BY <1>5, ReadKeeps, LostKeeps
<1>6. ASSUME NEW k \in Clicks, NEW arrives \in BOOLEAN, Handle(k, arrives) PROVE IInv'
  BY <1>6, ApproveKeeps, AuthorizeKeeps, ExecuteKeeps, CompleteKeeps, FailKeeps DEF Handle
<1>7. ASSUME NEW place \in Places, NEW content \in States[place], Touch(place, content)
      PROVE  IInv'
  BY <1>7, TouchKeeps
<1>8. CASE Crash
  BY <1>8, CrashKeeps
<1>9. CASE UNCHANGED vars
  BY <1>9, StutteringKeeps
<1>10. ASSUME NEW place \in Places, Notice(place) PROVE IInv'
  BY <1>10, NoticeKeeps
<1> QED
  BY <1>1, <1>2, <1>3, <1>4, <1>5, <1>6, <1>7, <1>8, <1>9, <1>10 DEF Next

(* The inductive invariant holds of every reachable state.                   *)
THEOREM Invariance == Spec => []IInv
<1>1. Init => IInv
  BY Initially
<1>2. IInv /\ [Next]_vars => IInv'
  BY NextKeeps
<1> QED
  BY <1>1, <1>2, PTL DEF Spec

(* The records, the handlers and the counters of the gateway and of
   DiscordChangeService have their types in every reachable state.           *)
THEOREM TypeCorrect == Spec => []TypeOK
<1>1. IInv => TypeOK
  BY DEF IInv
<1> QED
  BY <1>1, Invariance, PTL

(* What a change overwrites is what its owner approved the overwriting of, if
   the cache that handle_sre_interaction checked the press against showed what
   was there, and nothing happened at the place since.                       *)
THEOREM OnlyApprovedOverwritten == Spec => OverwritesApproved
<1>1. IInv => \A k \in Clicks :
          LET m == click[k].of IN
          click[k].step = "execute" /\ Informed(k) => guild[Target(m)] = changes[m].before
  BY DEF IInv, Sight, SeesGuild
<1>2. IInv /\ [Next]_vars =>
      [\A k \in Clicks :
          LET m == click[k].of IN
          made'[m] > made[m] /\ click[k].step = "execute" /\ click[k].fresh /\ ~click[k].behind
          => guild[Target(m)] = changes[m].before]_vars
  BY <1>1 DEF Informed
<1> QED
  BY <1>2, Invariance, PTL DEF Spec, OverwritesApproved

-----------------------------------------------------------------------------
(* The refinement of module Approval                                        *)

LEMMA Phases ==
    /\ PhaseOf(0, "none") = "none" /\ PhaseOf(0, "pending") = "proposed"
    /\ PhaseOf(0, "approved") = "approved" /\ PhaseOf(0, "executing") = "released"
    /\ PhaseOf(0, "stale") = "dropped" /\ PhaseOf(0, "failed") = "dropped"
    /\ \A status : PhaseOf(1, status) = "made"
BY DEF PhaseOf

(* A step that leaves every change in its phase is none of Approval's.       *)
LEMMA NoMove ==
    ASSUME late' = late,
           \A m \in Messages : Phase(m)' = Phase(m) /\ Reported(m)' = Reported(m)
    PROVE  UNCHANGED Promise!vars
BY DEF Promise!vars

LEMMA SameRecords ==
    ASSUME UNCHANGED <<changes, made, late>>
    PROVE  UNCHANGED Promise!vars
BY NoMove DEF Phase, Reported

(* One change moves from phase to phase.                                     *)
LEMMA OneMoves ==
    ASSUME NEW CONSTANT m \in Messages, late' = late,
           NEW CONSTANT from, NEW CONSTANT to, Phase(m) = from, Phase(m)' = to,
           \A n \in Messages \ {m} : Phase(n)' = Phase(n),
           \A n \in Messages : Reported(n)' = Reported(n)
    PROVE  /\ Promise!Moves(m, from, to)
           /\ UNCHANGED <<late, [n \in Messages |-> Reported(n)]>>
BY DEF Promise!Moves

(* A record takes another status.                                            *)
LEMMA OthersStay ==
    ASSUME TypeOK, NEW m \in Messages,
           \A n \in Messages \ {m} : changes'[n] = changes[n] /\ made'[n] = made[n]
    PROVE  \A n \in Messages \ {m} : Phase(n)' = Phase(n) /\ Reported(n)' = Reported(n)
BY DEF Phase, Reported

LEMMA ProposeMaps ==
    ASSUME IInv, NEW arrives \in BOOLEAN, Propose(proposal, arrives)
    PROVE  [Promise!Next]_(Promise!vars)
<1>0. PICK of \in Messages : of = proposal.of
  BY DEF IInv, TypeOK, Propose
<1>1. UNCHANGED <<late, made>> /\ TypeOK
  BY DEF IInv, TypeOK, Propose
<1>2. CASE Acceptable(proposal) /\ changes[of].status = "none"
  <2>1. /\ changes'[of].status = "pending"
        /\ \A n \in Messages \ {of} : changes'[n] = changes[n]
    BY <1>0, <1>1, <1>2 DEF Propose, TypeOK
  <2>2. Phase(of) = "none" /\ Phase(of)' = "proposed" /\ Reported(of)' = Reported(of)
    BY <1>0, <1>1, <1>2, <2>1, Phases DEF IInv, Records, Phase, Reported
  <2>3. \A n \in Messages \ {of} : Phase(n)' = Phase(n) /\ Reported(n)' = Reported(n)
    BY <1>0, <1>1, <2>1, OthersStay
  <2>4. Promise!Propose(of)
    BY <1>0, <1>1, <2>2, <2>3, OneMoves DEF Promise!Propose
  <2> QED
    BY <1>0, <1>1, <2>4 DEF Promise!Next
<1>3. CASE ~(Acceptable(proposal) /\ changes[of].status = "none")
  BY <1>0, <1>1, <1>3, SameRecords DEF Propose
<1> QED
  BY <1>2, <1>3

LEMMA ApproveMaps ==
    ASSUME IInv, NEW k \in Clicks, NEW arrives \in BOOLEAN, Approve(k, arrives)
    PROVE  [Promise!Next]_(Promise!vars)
<1>0. PICK m \in Messages : m = click[k].of
  BY DEF IInv, TypeOK
<1>1. UNCHANGED <<late, made>> /\ TypeOK
  BY DEF IInv, Approve
<1>2. CASE changes[m].status = "pending" /\ m \notin late
  <2>1. /\ changes'[m].status = "approved"
        /\ \A n \in Messages \ {m} : changes'[n] = changes[n]
    BY <1>0, <1>1, <1>2 DEF Approve, Approvable, TypeOK
  <2>2. Phase(m) = "proposed" /\ Phase(m)' = "approved" /\ Reported(m)' = Reported(m)
    BY <1>0, <1>1, <1>2, <2>1, Phases DEF IInv, Records, Phase, Reported
  <2>3. \A n \in Messages \ {m} : Phase(n)' = Phase(n) /\ Reported(n)' = Reported(n)
    BY <1>0, <1>1, <2>1, OthersStay
  <2>4. Promise!Approve(m)
    BY <1>0, <1>1, <1>2, <2>2, <2>3, OneMoves DEF Promise!Approve
  <2> QED
    BY <1>0, <1>1, <2>4 DEF Promise!Next
<1>3. CASE ~(changes[m].status = "pending" /\ m \notin late)
  <2>1. \A n \in Messages : changes'[n].status = changes[n].status
    BY <1>0, <1>1, <1>3 DEF Approve, Approvable, TypeOK
  <2> QED
    BY <1>0, <1>1, <2>1, NoMove DEF Phase, Reported
<1> QED
  BY <1>2, <1>3

LEMMA AuthorizeMaps ==
    ASSUME IInv, NEW k \in Clicks, NEW arrives \in BOOLEAN, Authorize(k, arrives)
    PROVE  [Promise!Next]_(Promise!vars)
<1>0. PICK m \in Messages : m = click[k].of
  BY DEF IInv, TypeOK
<1>1. UNCHANGED <<late, made>> /\ TypeOK
  BY DEF IInv, Authorize
<1>2. changes[m].status = "approved" /\ Phase(m) = "approved"
  BY <1>0, <1>1, Phases DEF IInv, Authorize, Handlers, OwnerHandles, Records, Phase
<1>3. CASE m \notin late
  <2>1. /\ changes'[m].status = IF Fits(k, m) THEN "executing" ELSE "stale"
        /\ \A n \in Messages \ {m} : changes'[n] = changes[n]
    BY <1>0, <1>1, <1>2, <1>3 DEF Authorize, Marked, TypeOK
  <2>2. /\ Phase(m)' = IF Fits(k, m) THEN "released" ELSE "dropped"
        /\ Reported(m)' = Reported(m)
    BY <1>0, <1>1, <1>2, <2>1, Phases DEF IInv, Records, Phase, Reported
  <2>3. \A n \in Messages \ {m} : Phase(n)' = Phase(n) /\ Reported(n)' = Reported(n)
    BY <1>0, <1>1, <2>1, OthersStay
  <2>4. Promise!Release(m) \/ Promise!Drop(m)
    BY <1>0, <1>1, <1>2, <1>3, <2>2, <2>3, OneMoves DEF Promise!Release, Promise!Drop
  <2> QED
    BY <1>0, <1>1, <2>4 DEF Promise!Next
<1>4. CASE m \in late
  BY <1>0, <1>1, <1>4, SameRecords DEF Authorize
<1> QED
  BY <1>3, <1>4

LEMMA ExecuteMaps ==
    ASSUME IInv, NEW k \in Clicks, NEW arrives \in BOOLEAN, Execute(k, arrives)
    PROVE  [Promise!Next]_(Promise!vars)
<1>0. PICK m \in Messages : m = click[k].of
  BY DEF IInv, TypeOK
<1> DEFINE place == Target(m)
<1>1. UNCHANGED <<late, changes>> /\ TypeOK
  BY DEF IInv, Execute
<1>2. changes[m].status = "executing" /\ made[m] = 0
  BY <1>0, <1>1 DEF IInv, Execute, Handlers, OwnerHandles
<1>3. CASE place = "name" \/ guild[place] # "absent"
  <2>1. made'[m] = 1 /\ \A n \in Messages \ {m} : made'[n] = made[n]
    BY <1>0, <1>1, <1>2, <1>3 DEF Execute, TypeOK
  <2>2. Phase(m) = "released" /\ Phase(m)' = "made" /\ Reported(m)' = Reported(m)
    BY <1>0, <1>1, <1>2, <2>1, Phases DEF Phase, Reported
  <2>3. \A n \in Messages \ {m} : Phase(n)' = Phase(n) /\ Reported(n)' = Reported(n)
    BY <1>0, <1>1, <2>1, OthersStay
  <2>4. Promise!Make(m)
    BY <1>0, <1>1, <2>2, <2>3, OneMoves DEF Promise!Make
  <2> QED
    BY <1>0, <1>1, <2>4 DEF Promise!Next
<1>4. CASE ~(place = "name" \/ guild[place] # "absent")
  BY <1>0, <1>1, <1>4, SameRecords DEF Execute
<1> QED
  BY <1>3, <1>4

LEMMA CompleteMaps ==
    ASSUME IInv, NEW k \in Clicks, NEW arrives \in BOOLEAN, Complete(k, arrives)
    PROVE  [Promise!Next]_(Promise!vars)
<1>0. PICK m \in Messages : m = click[k].of
  BY DEF IInv, TypeOK
<1>1. UNCHANGED <<late, made>> /\ TypeOK
  BY DEF IInv, Complete
<1>2. changes[m].status = "executing" /\ made[m] = 1
  BY <1>0 DEF IInv, Complete, Handlers, OwnerHandles
<1>3. /\ changes'[m].status = "completed"
      /\ \A n \in Messages \ {m} : changes'[n] = changes[n]
  BY <1>0, <1>1, <1>2 DEF Complete, Closing, Marked, TypeOK
<1>4. Phase(m) = "made" /\ Phase(m)' = "made" /\ Reported(m) = "open"
      /\ Reported(m)' = "completed"
  BY <1>1, <1>2, <1>3, Phases DEF Phase, Reported
<1>5. \A n \in Messages \ {m} : Phase(n)' = Phase(n) /\ Reported(n)' = Reported(n)
  BY <1>1, <1>3, OthersStay
<1>6. Promise!Completed(m)
  BY <1>1, <1>4, <1>5 DEF Promise!Completed
<1> QED
  BY <1>6 DEF Promise!Next

LEMMA FailMaps ==
    ASSUME IInv, NEW k \in Clicks, NEW arrives \in BOOLEAN, Fail(k, arrives)
    PROVE  [Promise!Next]_(Promise!vars)
<1>0. PICK m \in Messages : m = click[k].of
  BY DEF IInv, TypeOK
<1>1. UNCHANGED <<late, made>> /\ TypeOK
  BY DEF IInv, Fail
<1>2. CASE changes[m].status = "executing"
  <2>1. /\ changes'[m].status = "failed"
        /\ \A n \in Messages \ {m} : changes'[n] = changes[n]
    BY <1>0, <1>1, <1>2 DEF Fail, Closing, Marked, TypeOK
  <2>2. made[m] \in {0, 1}
    BY DEF IInv, Records
  <2>3. /\ Phase(m) \in {"released", "made"}
        /\ Phase(m)' = IF Phase(m) = "made" THEN "made" ELSE "dropped"
        /\ Reported(m) = "open" /\ Reported(m)' = "failed"
    BY <1>1, <1>2, <2>1, <2>2, Phases DEF Phase, Reported
  <2>4. \A n \in Messages \ {m} : Phase(n)' = Phase(n) /\ Reported(n)' = Reported(n)
    BY <1>1, <2>1, OthersStay
  <2>5. Promise!Failed(m)
    BY <1>1, <2>3, <2>4 DEF Promise!Failed
  <2> QED
    BY <2>5 DEF Promise!Next
<1>3. CASE changes[m].status # "executing"
  BY <1>0, <1>1, <1>3, SameRecords DEF Fail, Closing
<1> QED
  BY <1>2, <1>3

LEMMA ExpireMaps ==
    ASSUME IInv, NEW m \in Messages, Expire(m)
    PROVE  [Promise!Next]_(Promise!vars)
<1>1. \A n \in Messages : Phase(n)' = Phase(n) /\ Reported(n)' = Reported(n)
  BY DEF Expire, Phase, Reported
<1>2. Promise!Lapse(m)
  BY <1>1 DEF Expire, Promise!Lapse
<1> QED
  BY <1>2 DEF Promise!Next

LEMMA NextMaps ==
    ASSUME IInv, [Next]_vars
    PROVE  [Promise!Next]_(Promise!vars)
<1>1. ASSUME NEW arrives \in BOOLEAN, Propose(proposal, arrives)
      PROVE  [Promise!Next]_(Promise!vars)
  BY <1>1, ProposeMaps
<1>2. ASSUME NEW k \in Clicks, NEW arrives \in BOOLEAN, Handle(k, arrives)
      PROVE  [Promise!Next]_(Promise!vars)
  BY <1>2, ApproveMaps, AuthorizeMaps, ExecuteMaps, CompleteMaps, FailMaps DEF Handle
<1>3. ASSUME NEW m \in Messages, Expire(m)
      PROVE  [Promise!Next]_(Promise!vars)
  BY <1>3, ExpireMaps
<1>4. ASSUME NEW m \in Messages, NEW p \in Plans, LookUp(m, p)
      PROVE  [Promise!Next]_(Promise!vars)
  BY <1>4, SameRecords DEF LookUp
<1>5. ASSUME NEW k \in Clicks, NEW m \in Messages, Press(k, m)
      PROVE  [Promise!Next]_(Promise!vars)
  BY <1>5, SameRecords DEF Press
<1>6. ASSUME NEW k \in Clicks, Read(k) \/ Lost(k)
      PROVE  [Promise!Next]_(Promise!vars)
  BY <1>6, SameRecords DEF Read, Lost
<1>7. ASSUME NEW place \in Places, NEW content \in States[place], Touch(place, content)
      PROVE  [Promise!Next]_(Promise!vars)
  BY <1>7, SameRecords DEF Touch
<1>8. CASE Crash
  BY <1>8, SameRecords DEF Crash
<1>9. CASE UNCHANGED vars
  BY <1>9, SameRecords DEF vars
<1>10. ASSUME NEW place \in Places, Notice(place)
       PROVE  [Promise!Next]_(Promise!vars)
  BY <1>10, SameRecords DEF Notice
<1> QED
  BY <1>1, <1>2, <1>3, <1>4, <1>5, <1>6, <1>7, <1>8, <1>9, <1>10 DEF Next

(* The records of discord_sre.py implement module Approval: whatever calls
   are lost and whenever the gateway is restarted, a change is made at most
   once, after it was approved and released in time, and it is not made after
   its failure was reported, nor reported as made before it is.              *)
THEOREM Refinement == Spec => KeepsPromise
<1>1. Init => Promise!Init
  <2> SUFFICES ASSUME Init PROVE Promise!Init
    OBVIOUS
  <2>1. \A m \in Messages : changes[m].status = "none" /\ made[m] = 0
    BY DEF Init, NoChange
  <2>2. \A m \in Messages : Phase(m) = "none" /\ Reported(m) = "open"
    BY <2>1, Phases DEF Phase, Reported
  <2> QED
    BY <2>2 DEF Init, Promise!Init
<1>2. IInv /\ [Next]_vars => [Promise!Next]_(Promise!vars)
  BY NextMaps
<1> QED
  BY <1>1, <1>2, Invariance, PTL DEF Spec, KeepsPromise
=============================================================================
