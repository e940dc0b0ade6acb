---------------------------- MODULE DiscordChange ----------------------------
(***************************************************************************)
(* Changes to the Discord guild, from a specialist's plan to the report    *)
(* of what became of it: the records of discord_sre.py behind the HTTP     *)
(* interface of api.py, and the gateway's two handlers of                  *)
(* adapters/discord.py, propose_sre_change and handle_sre_interaction.     *)
(*                                                                         *)
(* The gateway alone talks to Discord, the controller alone to the         *)
(* database; the gateway calls the controller, and each call may be        *)
(* carried out without its answer being seen.  People change the guild at  *)
(* any time, and the gateway learns of it by Discord's events, which come  *)
(* when they come: what it looks at is its cache of the guild, what it     *)
(* changes the guild.  A change is known by the message it was asked for   *)
(* in.                                                                     *)
(***************************************************************************)
EXTENDS Integers, FiniteSets

CONSTANTS
    Messages,
    MaxProposals,\* bound: plans brought forward
    Clicks,      \* presses of an approval button by an owner
    MaxTouches,  \* bound: changes made to the guild by people
    MaxTrouble   \* bound: lost answers and calls, crashes of the gateway

ASSUME DiscordAssumption == MaxProposals \in Nat /\ MaxTouches \in Nat /\ MaxTrouble \in Nat

(* The two places that plans are about: a text channel to be created in a
   managed category, by its name, and the topic of a channel (the archiving
   of a thread is like it).                                                 *)
Places == {"name", "topic"}
States == [name |-> {"absent", "made"}, topic |-> {"old", "new", "absent"}]
Plans == {[place |-> "name", to |-> "made"], [place |-> "topic", to |-> "new"]}
Contents == {"absent", "made", "old", "new"}
Nobody == "nobody"
ASSUME NobodyAssumption == Nobody \notin Clicks \cup Messages /\ Messages # {}

VARIABLES
    guild,      \* what is at each place
    cache,      \* what the gateway's client takes to be there
    proposal,   \* propose_sre_change at work: message, plan and snapshot
    changes,    \* the table discord_changes
    late,       \* changes that are past `expires'
    buttons,    \* changes shown in the audit channel with their button
    click,      \* handle_sre_interaction at work
    made,       \* how often the plan of a change was carried out
    proposals, touches, lost, crashes

vars == <<guild, cache, proposal, changes, late, buttons, click, made, proposals, touches, lost,
          crashes>>

Steps == {"idle", "approve", "read", "authorize", "execute", "complete", "fail", "over"}
Statuses == {"none", "pending", "approved", "executing", "completed", "failed", "stale"}
Idle == [of |-> Nobody, plan |-> CHOOSE p \in Plans : TRUE, before |-> "absent"]
NoChange == [status |-> "none", plan |-> CHOOSE p \in Plans : TRUE, before |-> "absent", by |-> Nobody]

TypeOK ==
    /\ guild \in [Places -> Contents] /\ cache \in [Places -> Contents]
    /\ proposal \in [of: Messages \cup {Nobody}, plan: Plans, before: Contents]
    /\ changes \in [Messages -> [status: Statuses, plan: Plans, before: Contents,
                                 by: Clicks \cup {Nobody}]]
    /\ late \subseteq Messages
    /\ buttons \subseteq {m \in Messages : changes[m].status # "none"}
    /\ click \in [Clicks -> [step: Steps, of: Messages, seen: Contents,
                             fresh: BOOLEAN, behind: BOOLEAN]]
    /\ made \in [Messages -> Nat]
    /\ proposals \in Nat /\ {touches, lost, crashes} \subseteq Nat

Init ==
    /\ guild = [name |-> "absent", topic |-> "old"] /\ cache = guild
    /\ proposal = Idle
    /\ changes = [m \in Messages |-> NoChange]
    /\ late = {} /\ buttons = {}
    /\ click \in [Clicks -> [step: {"idle"}, of: {CHOOSE m \in Messages : TRUE},
                             seen: {"absent"}, fresh: {FALSE}, behind: {FALSE}]]
    /\ made = [m \in Messages |-> 0]
    /\ proposals = 0 /\ touches = 0 /\ lost = 0 /\ crashes = 0

(* Whether the answer of a call arrives.                                    *)
Answer(arrives) ==
    IF arrives THEN UNCHANGED lost ELSE lost + crashes < MaxTrouble /\ lost' = lost + 1

Target(m) == changes[m].plan.place
Marked(m, status) == [changes EXCEPT ![m].status = status]
Goes(k, step) ==
    [click EXCEPT ![k].step = step, ![k].seen = "absent",
                  ![k].fresh = @ /\ step = "execute", ![k].behind = @ /\ step = "execute"]

(* Whoever has looked at the place has not seen what is there now.          *)
Outdated(place) ==
    [k \in Clicks |-> IF Target(click[k].of) = place
                      THEN [click[k] EXCEPT !.fresh = FALSE, !.behind = FALSE] ELSE click[k]]

(* current_sre_target: the client's cache, and Discord itself only for a
   channel that is not in the cache.                                        *)
Seen(place) == IF place = "topic" /\ cache[place] = "absent" THEN guild[place] ELSE cache[place]

-----------------------------------------------------------------------------
(* propose_sre_change.  The gateway handles one message at a time, under   *)
(* coordinator_lock.                                                       *)

(* A specialist has answered a message with a plan; several turns for one
   message may.                                                             *)
LookUp(m, plan) ==
    /\ proposal = Idle /\ proposals < MaxProposals /\ proposals' = proposals + 1
    /\ plan.place = "topic" => Seen(plan.place) # "absent"
    /\ proposal' = [of |-> m, plan |-> plan, before |-> Seen(plan.place)]
    /\ UNCHANGED <<guild, cache, changes, late, buttons, click, made, touches, lost, crashes>>

(* DiscordChangeService.propose: a message that has a change keeps it, if the
   plan and the snapshot are the same.  A plan to create what exists fails.  *)
Acceptable(p) ==
    LET change == changes[p.of] IN
    IF change.status = "none"
    THEN p.plan.place = "name" => p.before = "absent"
    ELSE change.plan = p.plan /\ change.before = p.before

(* Mutant: the button is shown whatever the answer.                         *)
ProposeUnchecked(p, arrives) ==
    /\ p.of # Nobody /\ Answer(arrives)
    /\ changes' = IF Acceptable(p) /\ changes[p.of].status = "none"
                  THEN [changes EXCEPT ![p.of] = [status |-> "pending", plan |-> p.plan,
                                                  before |-> p.before, by |-> Nobody]]
                  ELSE changes
    /\ buttons' = IF arrives THEN buttons \cup {p.of} ELSE buttons
    /\ proposal' = Idle
    /\ UNCHANGED <<guild, cache, late, click, made, proposals, touches, crashes>>
Propose(p, arrives) ==
    /\ p.of # Nobody /\ Answer(arrives)
    /\ changes' = IF Acceptable(p) /\ changes[p.of].status = "none"
                  THEN [changes EXCEPT ![p.of] = [status |-> "pending", plan |-> p.plan,
                                                  before |-> p.before, by |-> Nobody]]
                  ELSE changes
    /\ buttons' = IF Acceptable(p) /\ arrives THEN buttons \cup {p.of} ELSE buttons
    /\ proposal' = Idle
    /\ UNCHANGED <<guild, cache, late, click, made, proposals, touches, crashes>>

-----------------------------------------------------------------------------
(* handle_sre_interaction                                                  *)

Press(k, m) ==
    /\ click[k].step = "idle" /\ m \in buttons
    /\ click' = [click EXCEPT ![k].step = "approve", ![k].of = m]
    /\ UNCHANGED <<guild, cache, proposal, changes, late, buttons, made, proposals, touches, lost,
                   crashes>>

(* Mutant: a second press approves an approved change again.                *)
ApprovableAgain(k, m) == changes[m].status \in {"pending", "approved"} /\ m \notin late
Approvable(k, m) ==
    \/ changes[m].status = "approved" /\ changes[m].by = k
    \/ changes[m].status = "pending" /\ m \notin late

(* An error of this call ends the handler: it is made outside its `try'.    *)
Approve(k, arrives) ==
    LET m == click[k].of
        approved == Approvable(k, m) IN
    /\ click[k].step = "approve" /\ Answer(arrives)
    /\ changes' = IF approved THEN [changes EXCEPT ![m].status = "approved", ![m].by = k]
                  ELSE changes
    /\ click' = Goes(k, IF approved /\ arrives THEN "read" ELSE "over")
    /\ UNCHANGED <<guild, cache, proposal, late, buttons, made, proposals, touches, crashes>>

(* A channel that is not in the cache and gone cannot be fetched.           *)
Read(k) ==
    LET place == Target(click[k].of) IN
    /\ click[k].step = "read"
    /\ click' = IF place = "topic" /\ Seen(place) = "absent" THEN Goes(k, "fail")
                ELSE [click EXCEPT ![k].step = "authorize", ![k].seen = Seen(place),
                                   ![k].fresh = TRUE, ![k].behind = Seen(place) # guild[place]]
    /\ UNCHANGED <<guild, cache, proposal, changes, late, buttons, made, proposals, touches, lost,
                   crashes>>

(* Mutant: the target is not compared with the one that was approved.       *)
FitsAny(k, m) == TRUE
Fits(k, m) == click[k].seen = changes[m].before

(* DiscordChangeService.authorize_execution                                 *)
Authorize(k, arrives) ==
    LET m == click[k].of
        open == changes[m].status = "approved" /\ m \notin late IN
    /\ click[k].step = "authorize" /\ Answer(arrives)
    /\ changes' = IF ~open THEN changes
                  ELSE Marked(m, IF Fits(k, m) THEN "executing" ELSE "stale")
    /\ click' = Goes(k, IF ~arrives THEN "fail"
                        ELSE IF open /\ Fits(k, m) THEN "execute" ELSE "over")
    /\ UNCHANGED <<guild, cache, proposal, late, buttons, made, proposals, touches, crashes>>

(* execute_sre_plan: the change, and a look at the result.  Discord makes a
   second channel of a name; a channel that is gone has no topic.  The client
   puts a channel that it made into its cache itself.                       *)
Execute(k, arrives) ==
    LET m == click[k].of
        place == Target(m)
        possible == place = "name" \/ guild[place] # "absent" IN
    /\ click[k].step = "execute"
    /\ IF possible
       THEN /\ guild' = [guild EXCEPT ![place] = changes[m].plan.to]
            /\ made' = [made EXCEPT ![m] = @ + 1]
            /\ cache' = IF arrives /\ place = "name" THEN [cache EXCEPT !.name = "made"] ELSE cache
            /\ click' = [Outdated(place) EXCEPT ![k].step = IF arrives THEN "complete" ELSE "fail"]
            /\ Answer(arrives)
       ELSE /\ arrives /\ click' = Goes(k, "fail")
            /\ UNCHANGED <<guild, cache, made, lost>>
    /\ UNCHANGED <<proposal, changes, late, buttons, proposals, touches, crashes>>

(* DiscordChangeService.complete, with the outcome the gateway reports.     *)
Closing(m, status) ==
    IF changes[m].status = "executing" THEN Marked(m, status) ELSE changes
Complete(k, arrives) ==
    /\ click[k].step = "complete" /\ Answer(arrives)
    /\ changes' = Closing(click[k].of, "completed")
    /\ click' = Goes(k, IF arrives THEN "over" ELSE "fail")
    /\ UNCHANGED <<guild, cache, proposal, late, buttons, made, proposals, touches, crashes>>

(* The handler of every exception.                                          *)
(* Mutant: the failure is not reported.                                     *)
FailSilently(k, arrives) ==
    /\ click[k].step = "fail" /\ Answer(arrives)
    /\ click' = Goes(k, "over")
    /\ UNCHANGED <<guild, cache, proposal, changes, late, buttons, made, proposals, touches,
                   crashes>>
Fail(k, arrives) ==
    /\ click[k].step = "fail" /\ Answer(arrives)
    /\ changes' = Closing(click[k].of, "failed")
    /\ click' = Goes(k, "over")
    /\ UNCHANGED <<guild, cache, proposal, late, buttons, made, proposals, touches, crashes>>

-----------------------------------------------------------------------------
(* A call that is never carried out.                                        *)
Lost(k) ==
    /\ click[k].step \in {"approve", "read", "authorize", "execute", "complete", "fail"}
    /\ Answer(FALSE)
    /\ click' = Goes(k, IF click[k].step \in {"approve", "fail"} THEN "over" ELSE "fail")
    /\ UNCHANGED <<guild, cache, proposal, changes, late, buttons, made, proposals, touches,
                   crashes>>

(* The gateway is restarted: nothing it was doing is taken up again, and its
   client is told what is there.                                            *)
Crash ==
    /\ lost + crashes < MaxTrouble /\ crashes' = crashes + 1
    /\ proposal' = Idle /\ cache' = guild
    /\ click' = [k \in Clicks |-> IF click[k].step = "idle" THEN click[k] ELSE Goes(k, "over")[k]]
    /\ UNCHANGED <<guild, changes, late, buttons, made, proposals, touches, lost>>

(* approval_seconds after the proposal                                      *)
Expire(m) ==
    /\ changes[m].status # "none" /\ m \notin late /\ late' = late \cup {m}
    /\ UNCHANGED <<guild, cache, proposal, changes, buttons, click, made, proposals, touches, lost,
                   crashes>>

Touch(place, content) ==
    /\ touches < MaxTouches /\ touches' = touches + 1
    /\ place = "topic" => guild[place] # "absent"   \* a deleted channel
    /\ guild[place] # content /\ guild' = [guild EXCEPT ![place] = content]
    /\ click' = Outdated(place)
    /\ UNCHANGED <<cache, proposal, changes, late, buttons, made, proposals, lost, crashes>>

(* The events of what changed at a place have arrived.                      *)
Notice(place) ==
    /\ cache[place] # guild[place] /\ cache' = [cache EXCEPT ![place] = guild[place]]
    /\ UNCHANGED <<guild, proposal, changes, late, buttons, click, made, proposals, touches, lost,
                   crashes>>

-----------------------------------------------------------------------------
Handle(k, arrives) ==
    \/ Approve(k, arrives) \/ Authorize(k, arrives) \/ Execute(k, arrives)
    \/ Complete(k, arrives) \/ Fail(k, arrives)
Next ==
    \/ \E m \in Messages : \/ \E p \in Plans : LookUp(m, p)
                           \/ Expire(m)
    \/ \E arrives \in BOOLEAN : Propose(proposal, arrives)
    \/ \E k \in Clicks : \/ \E m \in Messages : Press(k, m)
                         \/ Read(k) \/ Lost(k)
                         \/ \E arrives \in BOOLEAN : Handle(k, arrives)
    \/ \E place \in Places : \/ Notice(place)
                             \/ \E content \in States[place] : Touch(place, content)
    \/ Crash

(* A handler that was started runs on; every call has a timeout.            *)
Spec ==
    /\ Init /\ [][Next]_vars
    /\ \A k \in Clicks : WF_vars(Read(k) \/ Handle(k, TRUE))

-----------------------------------------------------------------------------
(* What is overwritten is what the owner approved the overwriting of, but for
   what happened at the place since the press was checked against it, and for
   what the cache had not learnt of by then (handle_sre_interaction,
   authorize_execution).                                                    *)
OverwritesApproved ==
    [][\A k \in Clicks :
          LET m == click[k].of IN
          made'[m] > made[m] /\ click[k].step = "execute" /\ click[k].fresh /\ ~click[k].behind
          => guild[Target(m)] = changes[m].before]_vars

(* docs/adr/0003-discord-sre-safety.md, gate 6: the current value is fetched
   again right before the execution, and the approval lapses if it changed.
   But the press is checked against the cache, so that a change released after
   the check, at a place that stayed as it was since, may be one that was not
   approved there.                                                          *)
Refetched ==
    \A k \in Clicks :
        LET m == click[k].of IN
        click[k].step = "execute" /\ click[k].fresh => guild[Target(m)] = changes[m].before

(* An approved change is released or withdrawn, unless a call or the gateway
   was lost, its channel is gone, or its time is over.  A released one comes
   to an outcome even if one call is lost on the way, wherever it is.       *)
Concluded ==
    \A m \in Messages :
        LET gone == guild.topic = "absent" /\ Target(m) = "topic" IN
        /\ changes[m].status = "approved" ~>
               \/ changes[m].status # "approved"
               \/ lost + crashes > 0 \/ m \in late \/ gone
        /\ changes[m].status = "executing" ~>
               \/ changes[m].status \in {"completed", "failed"}
               \/ crashes > 0 \/ lost > (IF gone THEN 0 ELSE 1)

(* The records keep the promise of module Approval.  A change is made when
   Discord has made it, whatever is reported later.                         *)
PhaseOf(times, status) ==
    IF times > 1 THEN "made again"
    ELSE IF times = 1 THEN "made"
    ELSE [none |-> "none", pending |-> "proposed", approved |-> "approved",
          executing |-> "released", completed |-> "dropped", failed |-> "dropped",
          stale |-> "dropped"][status]
Phase(m) == PhaseOf(made[m], changes[m].status)
Reported(m) == IF changes[m].status \in {"completed", "failed"} THEN changes[m].status ELSE "open"

Promise == INSTANCE Approval WITH
    Changes <- Messages,
    phase <- [m \in Messages |-> Phase(m)],
    lapsed <- late,
    reported <- [m \in Messages |-> Reported(m)]
KeepsPromise == Promise!Init /\ [][Promise!Next]_(Promise!vars)
=============================================================================
