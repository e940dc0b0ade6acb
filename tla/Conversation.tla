----------------------------- MODULE Conversation -----------------------------
(***************************************************************************)
(* What becomes of one message of an owner: the coordinator's decision,    *)
(* the turns of the specialists it asks, their continuations, stand-ins    *)
(* and handoffs, the dialogues that follow, and the task or Discord change *)
(* that may come of it.  The gateway (adapters/discord.py, on_message)     *)
(* runs the turns; the controller (api.py, coordination.py) has a worker   *)
(* answer each and rejects answers that break the rules.                   *)
(*                                                                         *)
(* The gateway handles one message at a time, under coordinator_lock.  The *)
(* attempts of one turn, made in a row with its slot held, are one call.   *)
(***************************************************************************)
EXTENDS Integers, FiniteSets, Sequences

CONSTANTS
    Names,         \* of roles, as a model may write them: ids and aliases
    Canon,         \* RoleRegistry.resolve
    Consults,      \* of a name: the ids that its role may consult
    StandIn,       \* of a name: fallback_role of its role, or NoRole
    NoRole,
    SRE,           \* the id of the role for Discord changes,
    SREName,       \* and the name of it that the gateway compares with
    Limit,         \* settings.specialist_continuation_limit
    Slots,         \* settings.specialist_concurrency
    MaxAsked       \* how many roles the coordinator asks at most: a bound

ASSUME ConversationAssumption ==
    /\ Canon \in [Names -> Names] /\ Consults \in [Names -> SUBSET Names]
    /\ StandIn \in [Names -> Names \cup {NoRole}] /\ NoRole \notin Names
    /\ IsFiniteSet(Names) /\ \A n \in Names : StandIn[n] # n
    /\ Limit \in 0..3 /\ Slots \in 1..4 /\ MaxAsked \in 1..10

VARIABLES
    stage,      \* coordinate, initial, dialogues, over
    initial,    \* the roles the coordinator asked
    turns,      \* specialist_turn at work, or what it returned
    dialogues,  \* run_handoff_dialogue at work
    shown,      \* answers in the channel: their event id and their turn
    swallowed,  \* answers taken for one in the channel, as if sent before
    proposed,   \* plans handed to propose_sre_change
    tasks       \* tasks registered for the message

vars == <<stage, initial, turns, dialogues, shown, swallowed, proposed, tasks>>

Turns == DOMAIN turns
(* A question to the owner, an approval request without a plan, and what a
   later turn recommends, which nobody reads, are replies to the gateway.     *)
None == [act |-> "none", to |-> {}]
Said(act) == [act |-> act, to |-> {}]
Acts == {"none", "reply", "continue", "recommend", "plan", "handoff"}

(* A turn is asked of a role in the round of a dialogue; the dialogue goes by
   the name of its recipient, the initial turns by NoRole.  `by' is who
   answers: the role, or its stand-in.                                      *)
Ask(dialogue, depth, role) == [dialogue |-> dialogue, depth |-> depth, role |-> role]
Fresh(role, round) ==
    [by |-> role, round |-> round, continued |-> 0, fallback |-> TRUE,
     phase |-> "waiting", said |-> None]

TypeOK ==
    /\ stage \in {"coordinate", "initial", "dialogues", "over"}
    /\ initial \subseteq Names
    /\ Turns \subseteq [dialogue: Names \cup {NoRole}, depth: 0..2, role: Names]
    /\ \A a \in Turns :
          /\ turns[a] \in [by: Names, round: 0..1, continued: 0..Limit, fallback: BOOLEAN,
                           phase: {"waiting", "calling", "posting", "over"},
                           said: [act: Acts, to: SUBSET Names]]
          /\ (a.depth = 0) = (a.dialogue = NoRole)
          /\ a.depth = 2 => turns[a].continued = 0
    /\ DOMAIN dialogues \subseteq Names \ initial
    /\ \A d \in DOMAIN dialogues :
          dialogues[d] \in [sources: SUBSET Names, requests: Nat, round: 0..1,
                            asks: {"recipient", "sources", "nobody"}]
    /\ Cardinality({a \in Turns : turns[a].phase = "calling"}) <= Slots
    /\ tasks \in 0..1

Init ==
    /\ stage = "coordinate" /\ initial = {}
    /\ turns = <<>> /\ dialogues = <<>>
    /\ shown = {} /\ swallowed = {} /\ proposed = {} /\ tasks = 0

-----------------------------------------------------------------------------
(* The coordinator                                                         *)

(* POST /coordinate is answered, and a task registered if the answer names a
   repository and no call fails.                                            *)
Reply(registers) ==
    /\ stage = "coordinate" /\ stage' = "over"
    /\ tasks' = IF registers THEN 1 ELSE 0
    /\ UNCHANGED <<initial, turns, dialogues, shown, swallowed, proposed>>

(* At most four, of different names; all of them when the owner says so.    *)
Delegate(roles) ==
    /\ stage = "coordinate" /\ stage' = "initial"
    /\ initial' = roles
    /\ turns' = [a \in {Ask(NoRole, 0, r) : r \in roles} |-> Fresh(a.role, 0)]
    /\ UNCHANGED <<dialogues, shown, swallowed, proposed, tasks>>

-----------------------------------------------------------------------------
(* POST /specialist-turn                                                   *)

(* What the controller lets pass of what the model of the role may say: in
   its first turn a role hands over to roles not yet asked, a recipient
   questions those who handed over to it, the others hand over to nobody.    *)
MayHandOff(a, by) ==
    CASE a.depth = 0 -> {r \in Names \ (initial \cup {by}) : Canon[r] \in Consults[by]}
      [] a.depth = 1 -> {r \in dialogues[a.dialogue].sources \ {by} : Canon[r] \in Consults[by]}
      [] OTHER -> {}

(* Mutant: the limit is looked at when it is passed.                        *)
BoundedPastLimit(a, continued) ==
    IF a.depth = 2 \/ continued > Limit THEN "reply" ELSE "continue"
(* bound_specialist_continuation                                            *)
Bounded(a, continued) ==
    IF a.depth = 2 \/ continued >= Limit THEN "reply" ELSE "continue"

Answers(a) ==
    LET t == turns[a] IN
    {Said("reply"), Said(Bounded(a, t.continued))}
    \cup (IF a.depth = 0 THEN {Said("recommend")} ELSE {})
    \cup (IF Canon[t.by] = SRE /\ a.depth # 2 THEN {Said("plan")} ELSE {})
    \cup [act: {"handoff"}, to: {to \in SUBSET MayHandOff(a, t.by) : Cardinality(to) \in 1..2}]

(* The source roles of a dialogue must be two at most (422), and differ (409,
   found when the model has answered).                                      *)
Refused(a) ==
    a.depth = 1 /\ LET d == dialogues[a.dialogue] IN
                   d.requests > 2 \/ Cardinality(d.sources) < d.requests

Call(a) ==
    /\ turns[a].phase = "waiting"
    /\ Cardinality({b \in Turns : turns[b].phase = "calling"}) < Slots
    /\ turns' = [turns EXCEPT ![a].phase = "calling"]
    /\ UNCHANGED <<stage, initial, dialogues, shown, swallowed, proposed, tasks>>

Answered(a) ==
    /\ turns[a].phase = "calling" /\ ~Refused(a)
    /\ \E said \in Answers(a) :
          turns' = [turns EXCEPT ![a].phase = "posting", ![a].said = said]
    /\ UNCHANGED <<stage, initial, dialogues, shown, swallowed, proposed, tasks>>

(* Mutant: the attempts have no limit.                                      *)
ReturnsRetried(a) == [turns EXCEPT ![a].phase = "waiting", ![a].said = None]
(* The specialist_retry_attempts were answered with 409, one with another
   error, or there was an exception.                                        *)
Returns(a) == [turns EXCEPT ![a].phase = "over", ![a].said = None]
Failed(a) ==
    /\ turns[a].phase = "calling" /\ turns' = Returns(a)
    /\ UNCHANGED <<stage, initial, dialogues, shown, swallowed, proposed, tasks>>

(* The last of them was a 502 or a 503 (this one also before the sources are
   looked at): the stand-in is asked, once, from the start and in a slot of
   its own.                                                                 *)
Unavailable(a) ==
    LET standIn == StandIn[turns[a].by] IN
    /\ turns[a].phase = "calling" /\ turns[a].fallback /\ standIn # NoRole
    /\ turns' = [turns EXCEPT ![a] = [Fresh(standIn, @.round) EXCEPT !.fallback = FALSE]]
    /\ UNCHANGED <<stage, initial, dialogues, shown, swallowed, proposed, tasks>>

-----------------------------------------------------------------------------
(* The answer is sent in parts under the event id of the turn; a plan of the
   SRE is put forward; a specialist that goes on is asked again.            *)
(* Mutant: the event id leaves out the continuation.                        *)
EventOfRound(a) ==
    [by |-> turns[a].by, depth |-> a.depth, round |-> turns[a].round, continued |-> 0]
Event(a) ==
    [by |-> turns[a].by, depth |-> a.depth, round |-> turns[a].round,
     continued |-> turns[a].continued]
After(a) ==
    IF turns[a].said.act = "continue"
    THEN [turns EXCEPT ![a].phase = "waiting", ![a].continued = @ + 1, ![a].said = None]
    ELSE [turns EXCEPT ![a].phase = "over"]

Post(a) ==
    /\ turns[a].phase = "posting"
    /\ IF \E s \in shown : s.event = Event(a)
       THEN swallowed' = swallowed \cup {[event |-> Event(a), turn |-> a]} /\ UNCHANGED shown
       ELSE shown' = shown \cup {[event |-> Event(a), turn |-> a]} /\ UNCHANGED swallowed
    /\ proposed' = IF turns[a].by = SREName /\ turns[a].said.act = "plan"
                   THEN proposed \cup {a} ELSE proposed
    /\ turns' = After(a)
    /\ UNCHANGED <<stage, initial, dialogues, tasks>>

(* An error of Discord, or a text that the renderer blocks.                 *)
PostFails(a) ==
    /\ turns[a].phase = "posting" /\ turns' = Returns(a)
    /\ UNCHANGED <<stage, initial, dialogues, shown, swallowed, proposed, tasks>>

-----------------------------------------------------------------------------
(* When all the initial turns have returned, what they recommend is
   registered as one task, for the repository that the coordinator named, and
   what they hand off is grouped by recipient.  The turns have no other use.  *)

Over(as) == \A a \in as : turns[a].phase = "over"
Result(a) == turns[a].said
Recommending == {a \in Turns : a.depth = 0 /\ Result(a).act = "recommend"}
HandingOff(r) == {a \in Turns : a.depth = 0 /\ r \in Result(a).to}

(* resolve_specialist_handoffs                                              *)
Recipients == (UNION {Result(a).to : a \in Turns}) \ initial

Gather(registers) ==
    /\ stage = "initial" /\ Over(Turns)
    /\ registers => Recommending # {}
    /\ tasks' = IF registers THEN tasks + 1 ELSE tasks
    /\ dialogues' = [d \in Recipients |->
                        [sources |-> {turns[a].by : a \in HandingOff(d)},
                         requests |-> Cardinality(HandingOff(d)),
                         round |-> 0, asks |-> "recipient"]]
    /\ turns' = [a \in {Ask(d, 1, d) : d \in Recipients} |-> Fresh(a.role, 0)]
    /\ stage' = "dialogues"
    /\ UNCHANGED <<initial, shown, swallowed, proposed>>

(* A recipient may put questions to those who handed over to it.            *)
Recipient(d) == Ask(d, 1, d)
Questioned(d) == {a \in Turns : a.dialogue = d /\ a.depth = 2}
Follow(d) ==
    LET said == Result(Recipient(d)) IN
    /\ dialogues[d].asks = "recipient" /\ Over({Recipient(d)})
    /\ dialogues' = [dialogues EXCEPT ![d].asks =
                        IF said.act = "handoff" THEN "sources" ELSE "nobody"]
    /\ turns' = [a \in (Turns \ Questioned(d)) \cup {Ask(d, 2, q) : q \in said.to} |->
                    IF a \in Turns \ Questioned(d) THEN turns[a]
                    ELSE Fresh(a.role, dialogues[d].round)]
    /\ UNCHANGED <<stage, initial, shown, swallowed, proposed, tasks>>

(* With an answer, it is asked again, in two rounds altogether.             *)
Again(d) == dialogues[d].round < 1 /\ \E a \in Questioned(d) : Result(a) # None
Resume(d) ==
    /\ dialogues[d].asks = "sources" /\ Over(Questioned(d))
    /\ dialogues' = IF Again(d) THEN [dialogues EXCEPT ![d].asks = "recipient", ![d].round = 1]
                    ELSE [dialogues EXCEPT ![d].asks = "nobody"]
    /\ turns' = IF Again(d) THEN [turns EXCEPT ![Recipient(d)] = Fresh(d, 1)] ELSE turns
    /\ UNCHANGED <<stage, initial, shown, swallowed, proposed, tasks>>

Finish ==
    /\ stage = "dialogues" /\ \A d \in DOMAIN dialogues : dialogues[d].asks = "nobody"
    /\ stage' = "over"
    /\ UNCHANGED <<initial, turns, dialogues, shown, swallowed, proposed, tasks>>

-----------------------------------------------------------------------------
Turn(a) ==
    \/ Call(a) \/ Answered(a) \/ Failed(a) \/ Unavailable(a) \/ Post(a) \/ PostFails(a)
Next ==
    \/ \E registers \in BOOLEAN : Reply(registers) \/ Gather(registers)
    \/ \E roles \in SUBSET Names \ {{}} : Cardinality(roles) <= MaxAsked /\ Delegate(roles)
    \/ \E a \in Turns : Turn(a)
    \/ \E d \in DOMAIN dialogues : Follow(d) \/ Resume(d)
    \/ Finish

(* Calls to the controller and to Discord have timeouts.                    *)
Spec == Init /\ [][Next]_vars /\ WF_vars(Next)

-----------------------------------------------------------------------------
(* A role's successive answers, its continuations, its stand-in's and those of
   the next round of a dialogue, are deliveries of their own: none is taken
   for an earlier one of the same turn and left out of the channel, as
   send_chunked does when a receipt of the event id exists.                 *)
OwnAnswersShown ==
    \A s \in swallowed : \A p \in shown : p.event = s.event => p.turn # s.turn

(* The conversation about a message ends, whatever the specialists say:
   nobody goes on, hands over or questions forever, and coordinator_lock is
   released for the next message.                                           *)
Ends == <>(stage = "over")
=============================================================================
