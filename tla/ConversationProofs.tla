-------------------------- MODULE ConversationProofs --------------------------
(***************************************************************************)
(* The safety invariants of module Conversation for any roles, whatever    *)
(* they say: types, with no more calls at a time than slots, and that no   *)
(* answer is taken for an earlier one of its own turn.                     *)
(*                                                                         *)
(* Every answer in the channel lies before the one that its turn is at.    *)
(* Most steps move a single turn: lemma Moves says what they keep.         *)
(***************************************************************************)
EXTENDS Conversation, FiniteSetTheorems, TLAPS

(* The stages: what there is to ask and to hear in each.                    *)
Heard == shown \cup swallowed
Staged ==
    /\ stage = "coordinate" => Turns = {} /\ DOMAIN dialogues = {} /\ Heard = {} /\ tasks = 0
    /\ stage = "initial" =>
          /\ Turns = {Ask(NoRole, 0, r) : r \in initial} /\ DOMAIN dialogues = {} /\ tasks = 0
          /\ \A p \in Heard : p.turn \in Turns
    /\ stage \in {"dialogues", "over"} => \A a \in Turns : a.depth # 0

(* A dialogue: its recipient is asked in the round of the dialogue or has
   not been yet, and while it is, its questions of the round before are over. *)
Rounds ==
    /\ \A d \in DOMAIN dialogues : Recipient(d) \in Turns
    /\ \A a \in Turns : a.depth # 0 =>
          /\ a.dialogue \in DOMAIN dialogues /\ turns[a].round <= dialogues[a.dialogue].round
          /\ a.depth = 1 => a.role = a.dialogue
          /\ a.depth = 2 /\ dialogues[a.dialogue].asks = "recipient" => turns[a].phase = "over"

(* A turn is answered by its role or, after that, by a stand-in of it; it is
   going on only below the limit.                                           *)
Voices ==
    \A a \in Turns :
        /\ turns[a].fallback <=> turns[a].by = a.role
        /\ turns[a].phase = "posting" /\ turns[a].said.act = "continue" =>
              a.depth # 2 /\ turns[a].continued < Limit

(* Every answer heard of a turn lies before the one the turn is at: in an
   earlier round, of the role a stand-in answers for, or an earlier
   continuation.                                                            *)
Before(e, a) ==
    \/ e.round < turns[a].round
    \/ e.round = turns[a].round /\ e.by = a.role /\ turns[a].by # a.role
    \/ /\ e.round = turns[a].round /\ e.by = turns[a].by
       /\ \/ e.continued < turns[a].continued
          \/ e.continued = turns[a].continued /\ turns[a].phase = "over"
Successive == \A p \in Heard : p.turn \in Turns => Before(p.event, p.turn)

(* A question of a dialogue that was answered is asked again in a later
   round only.                                                              *)
LaterRounds ==
    \A p \in Heard : p.turn.depth = 2 =>
        /\ p.turn.dialogue \in DOMAIN dialogues
        /\ p.event.round <= dialogues[p.turn.dialogue].round
        /\ dialogues[p.turn.dialogue].asks = "recipient" =>
              p.event.round < dialogues[p.turn.dialogue].round

HeardTypes ==
    Heard \subseteq [event: [by: Names, depth: 0..2, round: 0..1, continued: 0..Limit],
                     turn: [dialogue: Names \cup {NoRole}, depth: 0..2, role: Names]]

Calling == {a \in Turns : turns[a].phase = "calling"}

IInv ==
    /\ TypeOK /\ HeardTypes /\ IsFiniteSet(Calling)
    /\ Staged /\ Rounds /\ Voices /\ Successive /\ LaterRounds /\ OwnAnswersShown
-----------------------------------------------------------------------------
Speech == [act: Acts, to: SUBSET Names]
Phases == {"waiting", "calling", "posting", "over"}
TurnRecords ==
    [by: Names, round: 0..1, continued: 0..Limit, fallback: BOOLEAN, phase: Phases,
     said: Speech]
DialogueRecords ==
    [sources: SUBSET Names, requests: Nat, round: 0..1,
     asks: {"recipient", "sources", "nobody"}]
Questions == [dialogue: Names \cup {NoRole}, depth: 0..2, role: Names]

LEMMA Fields ==
    ASSUME TypeOK
    PROVE  /\ Turns \subseteq Questions /\ initial \subseteq Names /\ tasks \in 0..1
           /\ DOMAIN dialogues \subseteq Names \ initial
           /\ \A a \in Turns : /\ turns[a] \in TurnRecords
                               /\ (a.depth = 0) = (a.dialogue = NoRole)
                               /\ a.depth = 2 => turns[a].continued = 0
           /\ \A d \in DOMAIN dialogues : dialogues[d] \in DialogueRecords
           /\ Cardinality(Calling) <= Slots
BY DEF TypeOK, TurnRecords, Phases, Speech, DialogueRecords, Questions, Calling

LEMMA Typed ==
    ASSUME stage \in {"coordinate", "initial", "dialogues", "over"},
           Turns \subseteq Questions, initial \subseteq Names, tasks \in 0..1,
           DOMAIN dialogues \subseteq Names \ initial,
           \A a \in Turns : /\ turns[a] \in TurnRecords
                            /\ (a.depth = 0) = (a.dialogue = NoRole)
                            /\ a.depth = 2 => turns[a].continued = 0,
           \A d \in DOMAIN dialogues : dialogues[d] \in DialogueRecords,
           Cardinality(Calling) <= Slots
    PROVE  TypeOK
BY DEF TypeOK, TurnRecords, Phases, Speech, DialogueRecords, Questions, Calling

LEMMA NothingSaid == None \in Speech
BY DEF None, Acts, Speech

(* A fresh turn is one that nobody has answered yet.                        *)
LEMMA FreshTurns ==
    ASSUME NEW r \in Names, NEW n \in 0..1
    PROVE  /\ Fresh(r, n) \in TurnRecords /\ Fresh(r, n).phase = "waiting"
           /\ Fresh(r, n).by = r /\ Fresh(r, n).fallback = TRUE
           /\ Fresh(r, n).round = n /\ Fresh(r, n).continued = 0
BY ConversationAssumption, NothingSaid DEF Fresh, TurnRecords, Phases

(* A call more fits in a free slot, and the others need none.               *)
LEMMA Slotted ==
    ASSUME IsFiniteSet(Calling), Cardinality(Calling) <= Slots, NEW C,
           \/ C \subseteq Calling
           \/ \E a : C \subseteq Calling \cup {a} /\ Cardinality(Calling) < Slots
    PROVE  IsFiniteSet(C) /\ Cardinality(C) <= Slots
<1>1. Slots \in Nat /\ Cardinality(Calling) \in Nat
  BY FS_CardinalityType, ConversationAssumption
<1>2. CASE C \subseteq Calling
  <2>1. IsFiniteSet(C) /\ Cardinality(C) <= Cardinality(Calling)
    BY <1>2, FS_Subset
  <2>2. Cardinality(C) \in Nat
    BY <2>1, FS_CardinalityType
  <2> QED BY <1>1, <2>1, <2>2
<1>3. CASE \E a : C \subseteq Calling \cup {a} /\ Cardinality(Calling) < Slots
  <2> PICK a : C \subseteq Calling \cup {a} /\ Cardinality(Calling) < Slots
    BY <1>3
  <2> DEFINE D == Calling \cup {a}
  <2>1. IsFiniteSet(D)
    BY FS_AddElement
  <2>2. Cardinality(D) = IF a \in Calling THEN Cardinality(Calling) ELSE Cardinality(Calling) + 1
    BY FS_AddElement
  <2>3. Cardinality(D) <= Slots /\ Cardinality(D) \in Nat
    BY <2>1, <2>2, <1>1, FS_CardinalityType
  <2>4. IsFiniteSet(C) /\ Cardinality(C) <= Cardinality(D)
    BY <2>1, FS_Subset
  <2>5. Cardinality(C) \in Nat
    BY <2>4, FS_CardinalityType
  <2> HIDE DEF D
  <2> QED BY <1>1, <2>3, <2>4, <2>5
<1> QED BY <1>2, <1>3

-----------------------------------------------------------------------------
(* A step that moves turn a to t, in its round: onward, or to its stand-in.  *)
LEMMA Moves ==
    ASSUME IInv, NEW a \in Turns, NEW t \in TurnRecords,
           turns' = [turns EXCEPT ![a] = t], UNCHANGED <<stage, initial, dialogues, tasks>>,
           turns[a].phase # "over", t.round = turns[a].round,
           t.fallback <=> t.by = a.role,
           a.depth = 2 => t.continued = 0,
           (t.phase = "posting" /\ t.said.act = "continue") => (a.depth # 2 /\ t.continued < Limit),
           t.phase = "calling" => Cardinality(Calling) < Slots,
           \/ t.by = turns[a].by /\ t.continued >= turns[a].continued
           \/ t.by # a.role /\ turns[a].by = a.role
    PROVE  /\ TypeOK' /\ IsFiniteSet(Calling)' /\ Rounds' /\ Voices'
           /\ Turns' = Turns /\ turns'[a] = t
           /\ \A p \in Heard : p.turn \in Turns => Before(p.event, p.turn)'
<1> USE DEF IInv
<1>1. /\ Turns' = Turns /\ turns'[a] = t /\ stage' = stage /\ initial' = initial
      /\ dialogues' = dialogues /\ tasks' = tasks
      /\ \A b \in Turns : b # a => turns'[b] = turns[b]
  BY DEF Turns
<1>2. Calling' \subseteq Calling \/ (Calling' \subseteq Calling \cup {a} /\ t.phase = "calling")
  BY <1>1 DEF Calling
<1>3. IsFiniteSet(Calling') /\ Cardinality(Calling') <= Slots
  BY <1>2, Slotted, Fields
<1>4. TypeOK'
  <2>1. stage' \in {"coordinate", "initial", "dialogues", "over"}
    BY <1>1 DEF TypeOK
  <2>2. /\ Turns' \subseteq Questions /\ initial' \subseteq Names /\ tasks' \in 0..1
        /\ DOMAIN dialogues' \subseteq Names \ initial'
        /\ \A d \in DOMAIN dialogues' : dialogues'[d] \in DialogueRecords
    BY <1>1, Fields
  <2>3. ASSUME NEW b \in Turns'
        PROVE  /\ turns'[b] \in TurnRecords
               /\ (b.depth = 0) = (b.dialogue = NoRole)
               /\ b.depth = 2 => turns'[b].continued = 0
    BY <1>1, Fields
  <2> QED BY <2>1, <2>2, <2>3, <1>3 DEF TypeOK, TurnRecords, Phases, Speech, DialogueRecords, Questions, Calling
<1>5. Rounds'
  <2>1. \A d \in DOMAIN dialogues : Recipient(d) \in Turns
    BY DEF Rounds
  <2>2. ASSUME NEW b \in Turns, b.depth # 0
        PROVE  /\ b.dialogue \in DOMAIN dialogues
               /\ turns'[b].round <= dialogues[b.dialogue].round
               /\ b.depth = 1 => b.role = b.dialogue
               /\ (b.depth = 2 /\ dialogues[b.dialogue].asks = "recipient") =>
                     turns'[b].phase = "over"
    BY <1>1, <2>2 DEF Rounds
  <2> QED BY <1>1, <2>1, <2>2 DEF Rounds, Recipient, Ask
<1>6. Voices'
  BY <1>1 DEF Voices
<1>7. ASSUME NEW p \in Heard, p.turn \in Turns PROVE Before(p.event, p.turn)'
  <2>1. Before(p.event, p.turn)
    BY <1>7 DEF Successive
  <2>2. CASE p.turn # a
    BY <2>1, <2>2, <1>1, <1>7 DEF Before
  <2>3. CASE p.turn = a
    <3>1. /\ t.continued \in Int /\ turns[a].continued \in Int /\ p.event.continued \in Int
          /\ p.event.round \in Int /\ turns[a].round \in Int
      BY Fields, ConversationAssumption DEF TurnRecords, HeardTypes
    <3> QED BY <2>1, <2>3, <3>1, <1>1 DEF Before
  <2> QED BY <2>2, <2>3
<1> QED BY <1>1, <1>3, <1>4, <1>5, <1>6, <1>7

(* When it is heard of no more than before, the rest stands too.            *)
LEMMA Quiet ==
    ASSUME IInv, UNCHANGED <<stage, initial, dialogues, tasks, shown, swallowed>>,
           Turns' = Turns, TypeOK', IsFiniteSet(Calling)', Rounds', Voices',
           \A p \in Heard : p.turn \in Turns => Before(p.event, p.turn)'
    PROVE  IInv'
<1>1. Heard' = Heard
  BY DEF Heard
<1>2. HeardTypes' /\ LaterRounds' /\ OwnAnswersShown'
  BY <1>1 DEF IInv, HeardTypes, LaterRounds, OwnAnswersShown
<1>3. Staged'
  BY <1>1 DEF IInv, Staged, Ask
<1>4. Successive'
  BY <1>1 DEF Successive, Before
<1> QED BY <1>2, <1>3, <1>4 DEF IInv

-----------------------------------------------------------------------------
LEMMA CallKeeps == ASSUME IInv, NEW a \in Turns, Call(a) PROVE IInv'
<1> DEFINE t == [turns[a] EXCEPT !.phase = "calling"]
<1>1. /\ turns[a].phase = "waiting" /\ turns' = [turns EXCEPT ![a] = t]
      /\ UNCHANGED <<stage, initial, dialogues, tasks, shown, swallowed>>
      /\ Cardinality(Calling) < Slots
  BY DEF Call, Calling
<1>2. turns[a] \in TurnRecords /\ (a.depth = 2 => turns[a].continued = 0)
  BY Fields DEF IInv
<1>3. /\ t \in TurnRecords /\ t.round = turns[a].round /\ t.by = turns[a].by
      /\ t.continued = turns[a].continued /\ t.continued >= turns[a].continued
      /\ t.fallback = turns[a].fallback
      /\ t.phase = "calling" /\ t.continued \in Int
  BY <1>2, ConversationAssumption DEF TurnRecords, Phases
<1>4. t.fallback <=> t.by = a.role
  BY <1>3 DEF IInv, Voices
<1> HIDE DEF t
<1>5. /\ TypeOK' /\ IsFiniteSet(Calling)' /\ Rounds' /\ Voices' /\ Turns' = Turns
      /\ \A p \in Heard : p.turn \in Turns => Before(p.event, p.turn)'
  BY <1>1, <1>2, <1>3, <1>4, Moves
<1> QED BY <1>1, <1>5, Quiet

(* What a turn may say: one goes on only before the limit.                  *)
LEMMA Answerable ==
    ASSUME TypeOK, Rounds, NEW a \in Turns, NEW said \in Answers(a)
    PROVE  /\ said \in Speech
           /\ said.act = "continue" => (a.depth # 2 /\ turns[a].continued < Limit)
<1>1. turns[a].continued \in Int /\ Limit \in Int
  BY Fields, ConversationAssumption DEF TurnRecords
<1>2. MayHandOff(a, turns[a].by) \subseteq Names
  <2>1. CASE a.depth = 0
    BY <2>1 DEF MayHandOff
  <2>2. CASE a.depth = 1
    <3>1. MayHandOff(a, turns[a].by) \subseteq dialogues[a.dialogue].sources
      BY <2>2 DEF MayHandOff
    <3>2. a.dialogue \in DOMAIN dialogues
      BY <2>2 DEF Rounds
    <3> QED BY <3>1, <3>2, Fields DEF DialogueRecords
  <2>3. CASE a.depth \notin {0, 1}
    BY <2>3 DEF MayHandOff
  <2> QED BY <2>1, <2>2, <2>3
<1> USE DEF Speech
<1>3. CASE said \in {Said("reply"), Said("recommend"), Said("plan")}
  BY <1>3 DEF Said, Acts
<1>4. CASE said = Said(Bounded(a, turns[a].continued))
  BY <1>1, <1>4 DEF Said, Bounded, Acts
<1>5. CASE said \in [act: {"handoff"}, to: SUBSET MayHandOff(a, turns[a].by)]
  BY <1>2, <1>5 DEF Acts
<1>6. said \in [act: {"handoff"}, to: {to \in SUBSET MayHandOff(a, turns[a].by) : Cardinality(to) \in 1..2}]
         => said \in [act: {"handoff"}, to: SUBSET MayHandOff(a, turns[a].by)]
  OBVIOUS
<1> QED BY <1>3, <1>4, <1>5, <1>6 DEF Answers

LEMMA AnsweredKeeps == ASSUME IInv, NEW a \in Turns, Answered(a) PROVE IInv'
<1> PICK said \in Answers(a) :
        turns' = [turns EXCEPT ![a].phase = "posting", ![a].said = said]
  BY DEF Answered
<1> DEFINE u == [turns[a] EXCEPT !.phase = "posting"]
           t == [u EXCEPT !.said = said]
<1>1. /\ turns[a].phase = "calling" /\ turns' = [turns EXCEPT ![a] = t]
      /\ UNCHANGED <<stage, initial, dialogues, tasks, shown, swallowed>>
  BY DEF Answered
<1>2. turns[a] \in TurnRecords /\ (a.depth = 2 => turns[a].continued = 0)
  BY Fields DEF IInv
<1>3. /\ said \in Speech
      /\ said.act = "continue" => (a.depth # 2 /\ turns[a].continued < Limit)
  BY Answerable DEF IInv
<1>4. /\ t \in TurnRecords /\ t.round = turns[a].round /\ t.by = turns[a].by
      /\ t.continued = turns[a].continued /\ t.continued >= turns[a].continued
      /\ t.fallback = turns[a].fallback
      /\ t.phase = "posting" /\ t.said = said /\ t.continued \in Int
  <2>1. /\ u \in TurnRecords /\ u.round = turns[a].round /\ u.by = turns[a].by
        /\ u.continued = turns[a].continued /\ u.fallback = turns[a].fallback
        /\ u.phase = "posting"
    BY <1>2 DEF TurnRecords, Phases
  <2> HIDE DEF u
  <2>2. /\ t \in TurnRecords /\ t.round = u.round /\ t.by = u.by
        /\ t.continued = u.continued /\ t.fallback = u.fallback
        /\ t.phase = u.phase /\ t.said = said
    BY <1>3, <2>1 DEF TurnRecords
  <2> QED BY <2>1, <2>2, ConversationAssumption DEF TurnRecords
<1>5. t.fallback <=> t.by = a.role
  BY <1>4 DEF IInv, Voices
<1> HIDE DEF t
<1>6. /\ (t.phase = "posting" /\ t.said.act = "continue") => (a.depth # 2 /\ t.continued < Limit)
      /\ a.depth = 2 => t.continued = 0
  BY <1>2, <1>3, <1>4
<1>7. /\ TypeOK' /\ IsFiniteSet(Calling)' /\ Rounds' /\ Voices' /\ Turns' = Turns
      /\ \A p \in Heard : p.turn \in Turns => Before(p.event, p.turn)'
  BY <1>1, <1>4, <1>5, <1>6, Moves
<1> QED BY <1>1, <1>7, Quiet

(* A turn that returns without an answer.                                   *)
LEMMA ReturnKeeps ==
    ASSUME IInv, NEW a \in Turns, turns[a].phase # "over", turns' = Returns(a),
           UNCHANGED <<stage, initial, dialogues, tasks, shown, swallowed>>
    PROVE  IInv'
<1> DEFINE u == [turns[a] EXCEPT !.phase = "over"]
           t == [u EXCEPT !.said = None]
<1>1. turns' = [turns EXCEPT ![a] = t]
  BY DEF Returns
<1>2. turns[a] \in TurnRecords /\ (a.depth = 2 => turns[a].continued = 0)
  BY Fields DEF IInv
<1>3. /\ t \in TurnRecords /\ t.round = turns[a].round /\ t.by = turns[a].by
      /\ t.continued = turns[a].continued /\ t.continued >= turns[a].continued
      /\ t.fallback = turns[a].fallback
      /\ t.phase = "over" /\ t.continued \in Int
  <2>1. /\ u \in TurnRecords /\ u.round = turns[a].round /\ u.by = turns[a].by
        /\ u.continued = turns[a].continued /\ u.fallback = turns[a].fallback
        /\ u.phase = "over"
    BY <1>2 DEF TurnRecords, Phases
  <2> HIDE DEF u
  <2>2. /\ t \in TurnRecords /\ t.round = u.round /\ t.by = u.by
        /\ t.continued = u.continued /\ t.fallback = u.fallback
        /\ t.phase = u.phase
    BY <2>1, NothingSaid DEF TurnRecords
  <2> QED BY <2>1, <2>2, ConversationAssumption DEF TurnRecords
<1>4. t.fallback <=> t.by = a.role
  BY <1>3 DEF IInv, Voices
<1> HIDE DEF t
<1>5. /\ TypeOK' /\ IsFiniteSet(Calling)' /\ Rounds' /\ Voices' /\ Turns' = Turns
      /\ \A p \in Heard : p.turn \in Turns => Before(p.event, p.turn)'
  BY <1>1, <1>2, <1>3, <1>4, Moves
<1> QED BY <1>5, Quiet

LEMMA UnavailableKeeps == ASSUME IInv, NEW a \in Turns, Unavailable(a) PROVE IInv'
<1> DEFINE s == StandIn[turns[a].by]
           t == [Fresh(s, turns[a].round) EXCEPT !.fallback = FALSE]
<1>1. /\ turns[a].phase = "calling" /\ turns[a].fallback /\ s # NoRole
      /\ turns' = [turns EXCEPT ![a] = t]
      /\ UNCHANGED <<stage, initial, dialogues, tasks, shown, swallowed>>
  BY DEF Unavailable
<1>2. turns[a] \in TurnRecords
  BY Fields DEF IInv
<1>3. turns[a].by = a.role
  BY <1>1 DEF IInv, Voices
<1>4. s \in Names /\ s # a.role
  BY <1>1, <1>2, <1>3, ConversationAssumption DEF TurnRecords
<1>5. /\ t \in TurnRecords /\ t.round = turns[a].round /\ t.by = s
      /\ t.continued = 0 /\ t.fallback = FALSE /\ t.phase = "waiting"
  <2>1. turns[a].round \in 0..1
    BY <1>2 DEF TurnRecords
  <2>2. Fresh(s, turns[a].round) \in TurnRecords
    BY <2>1, <1>4, FreshTurns
  <2> QED BY <2>1, <2>2, <1>4 DEF Fresh, TurnRecords
<1> HIDE DEF t, s
<1>6. /\ TypeOK' /\ IsFiniteSet(Calling)' /\ Rounds' /\ Voices' /\ Turns' = Turns
      /\ \A p \in Heard : p.turn \in Turns => Before(p.event, p.turn)'
  BY <1>1, <1>3, <1>4, <1>5, Moves
<1> QED BY <1>1, <1>6, Quiet

LEMMA PostKeeps == ASSUME IInv, NEW a \in Turns, Post(a) PROVE IInv'
<1> PICK e : e = Event(a)
  OBVIOUS
<1> PICK q : q = [event |-> e, turn |-> a]
  OBVIOUS
<1>0. q.event = e /\ q.turn = a
  OBVIOUS
<1> DEFINE t == IF turns[a].said.act = "continue"
                THEN [turns[a] EXCEPT !.phase = "waiting", !.continued = @ + 1, !.said = None]
                ELSE [turns[a] EXCEPT !.phase = "over"]
<1>1. /\ turns[a].phase = "posting" /\ turns' = [turns EXCEPT ![a] = t]
      /\ UNCHANGED <<stage, initial, dialogues, tasks>>
  BY DEF Post, After
<1>2. \/ /\ \A s \in shown : s.event # e
         /\ shown' = shown \cup {q} /\ swallowed' = swallowed
      \/ swallowed' = swallowed \cup {q} /\ shown' = shown
  BY DEF Post
<1>3. /\ turns[a] \in TurnRecords /\ (a.depth = 2 => turns[a].continued = 0)
      /\ turns[a].continued \in Int /\ turns[a].round \in Int /\ a \in Questions
      /\ Limit \in Int /\ a.depth \in 0..2
  BY Fields, ConversationAssumption DEF IInv, TurnRecords, Questions
<1>4. turns[a].said.act = "continue" => (a.depth # 2 /\ turns[a].continued < Limit)
  BY <1>1 DEF IInv, Voices
<1>5. /\ t \in TurnRecords /\ t.round = turns[a].round /\ t.by = turns[a].by
      /\ t.fallback = turns[a].fallback /\ t.phase \in {"waiting", "over"}
      /\ t.continued \in Int /\ t.continued >= turns[a].continued
      /\ t.continued > turns[a].continued \/ t.phase = "over"
      /\ a.depth = 2 => t.continued = 0
  <2>1. CASE turns[a].said.act = "continue"
    <3> DEFINE u == [turns[a] EXCEPT !.phase = "waiting"]
               v == [u EXCEPT !.continued = turns[a].continued + 1]
    <3>1. t = [v EXCEPT !.said = None]
      BY <2>1
    <3>2. turns[a].continued + 1 \in 0..Limit /\ a.depth # 2
      BY <1>3, <1>4, <2>1 DEF TurnRecords
    <3> HIDE DEF t
    <3>3. /\ u \in TurnRecords /\ u.round = turns[a].round /\ u.by = turns[a].by
          /\ u.fallback = turns[a].fallback /\ u.phase = "waiting"
      BY <1>3 DEF TurnRecords, Phases
    <3> HIDE DEF u
    <3>4. /\ v \in TurnRecords /\ v.round = u.round /\ v.by = u.by
          /\ v.continued = turns[a].continued + 1 /\ v.fallback = u.fallback
          /\ v.phase = u.phase
      BY <3>2, <3>3 DEF TurnRecords
    <3> HIDE DEF v
    <3>5. /\ t \in TurnRecords /\ t.round = v.round /\ t.by = v.by
          /\ t.continued = v.continued /\ t.fallback = v.fallback /\ t.phase = v.phase
      BY <3>1, <3>4, NothingSaid DEF TurnRecords
    <3> QED BY <1>3, <3>2, <3>3, <3>4, <3>5
  <2>2. CASE turns[a].said.act # "continue"
    <3>1. t = [turns[a] EXCEPT !.phase = "over"]
      BY <2>2
    <3> HIDE DEF t
    <3> QED BY <3>1, <1>3 DEF TurnRecords, Phases
  <2> QED BY <2>1, <2>2
<1>6. t.fallback <=> t.by = a.role
  BY <1>5 DEF IInv, Voices
<1>7. e \in [by: Names, depth: 0..2, round: 0..1, continued: 0..Limit]
      /\ e.by = turns[a].by /\ e.round = turns[a].round /\ e.continued = turns[a].continued
  BY <1>3 DEF Event, TurnRecords
<1> HIDE DEF t
<1>8. /\ TypeOK' /\ IsFiniteSet(Calling)' /\ Rounds' /\ Voices' /\ Turns' = Turns
      /\ turns'[a] = t
      /\ \A p \in Heard : p.turn \in Turns => Before(p.event, p.turn)'
  BY <1>1, <1>5, <1>6, Moves
<1>9. Heard' = Heard \cup {q} /\ q.event = e /\ q.turn = a
  BY <1>0, <1>2 DEF Heard
<1>10. HeardTypes'
  BY <1>3, <1>7, <1>9 DEF IInv, HeardTypes, Questions
<1>11. Staged'
  <2>1. stage = "coordinate" => FALSE
    BY DEF IInv, Staged
  <2> QED BY <1>1, <1>8, <1>9, <2>1 DEF IInv, Staged, Ask
<1>12. Successive'
  <2>1. Before(q.event, q.turn)'
    BY <1>3, <1>5, <1>7, <1>8, <1>9 DEF Before
  <2>2. ASSUME NEW p \in Heard', p.turn \in Turns' PROVE Before(p.event, p.turn)'
    BY <2>1, <2>2, <1>8, <1>9
  <2> QED BY <2>2 DEF Successive
<1>13. LaterRounds'
  <2>1. a.depth = 2 => /\ a.dialogue \in DOMAIN dialogues
                       /\ e.round <= dialogues[a.dialogue].round
                       /\ dialogues[a.dialogue].asks # "recipient"
    BY <1>1, <1>7 DEF IInv, Rounds
  <2> QED BY <1>1, <1>9, <2>1 DEF IInv, LaterRounds
<1>14. OwnAnswersShown'
  <2>1. \A p \in Heard : p.event = e => p.turn # a
    <3> SUFFICES ASSUME NEW p \in Heard, p.event = e, p.turn = a PROVE FALSE
      OBVIOUS
    <3>1. Before(e, a)
      BY DEF IInv, Successive
    <3> QED BY <3>1, <1>1, <1>3, <1>7 DEF Before
  <2> QED BY <2>1, <1>2, <1>9 DEF IInv, OwnAnswersShown, Heard
<1> QED BY <1>8, <1>10, <1>11, <1>12, <1>13, <1>14 DEF IInv

LEMMA TurnKeeps == ASSUME IInv, NEW a \in Turns, Turn(a) PROVE IInv'
<1>1. CASE Failed(a)
  BY <1>1, ReturnKeeps DEF Failed
<1>2. CASE PostFails(a)
  BY <1>2, ReturnKeeps DEF PostFails
<1> QED BY <1>1, <1>2, CallKeeps, AnsweredKeeps, UnavailableKeeps, PostKeeps DEF Turn

-----------------------------------------------------------------------------
(* The coordinator's answer, and the end.                                   *)
LEMMA ReplyKeeps == ASSUME IInv, NEW r \in BOOLEAN, Reply(r) PROVE IInv'
<1>1. /\ stage = "coordinate" /\ stage' = "over" /\ tasks' \in 0..1
      /\ UNCHANGED <<initial, turns, dialogues, shown, swallowed>>
  BY DEF Reply
<1>2. Turns = {} /\ DOMAIN dialogues = {} /\ Heard = {}
  BY <1>1 DEF IInv, Staged
<1>3. Turns' = Turns /\ Heard' = Heard /\ Calling' = Calling
  BY <1>1 DEF Turns, Heard, Calling
<1>4. TypeOK' /\ IsFiniteSet(Calling)'
  BY <1>1, <1>3 DEF IInv, TypeOK, Calling
<1>5. HeardTypes' /\ Staged' /\ Rounds' /\ Voices' /\ Successive' /\ LaterRounds'
  BY <1>1, <1>2, <1>3 DEF IInv, HeardTypes, Staged, Rounds, Voices, Successive, LaterRounds
<1>6. OwnAnswersShown'
  BY <1>1 DEF IInv, OwnAnswersShown
<1> QED BY <1>4, <1>5, <1>6 DEF IInv

LEMMA FinishKeeps == ASSUME IInv, Finish PROVE IInv'
<1>1. /\ stage = "dialogues" /\ stage' = "over"
      /\ UNCHANGED <<initial, turns, dialogues, shown, swallowed, tasks>>
  BY DEF Finish
<1>2. Turns' = Turns /\ Heard' = Heard /\ Calling' = Calling
  BY <1>1 DEF Turns, Heard, Calling
<1>3. TypeOK' /\ IsFiniteSet(Calling)'
  BY <1>1, <1>2 DEF IInv, TypeOK, Calling
<1>4. HeardTypes' /\ OwnAnswersShown' /\ LaterRounds'
  BY <1>1, <1>2 DEF IInv, HeardTypes, OwnAnswersShown, LaterRounds
<1>5. Staged'
  BY <1>1, <1>2 DEF IInv, Staged
<1>6. Rounds' /\ Voices' /\ Successive'
  BY <1>1, <1>2 DEF IInv, Rounds, Recipient, Ask, Voices, Successive, Before
<1> QED BY <1>3, <1>4, <1>5, <1>6 DEF IInv

-----------------------------------------------------------------------------
(* The initial turns: all fresh, and none of them calls.                    *)
LEMMA DelegateKeeps ==
    ASSUME IInv, NEW roles \in SUBSET Names, Delegate(roles) PROVE IInv'
<1>1. /\ stage = "coordinate" /\ stage' = "initial" /\ initial' = roles
      /\ turns' = [a \in {Ask(NoRole, 0, r) : r \in roles} |-> Fresh(a.role, 0)]
      /\ UNCHANGED <<dialogues, shown, swallowed, tasks>>
  BY DEF Delegate
<1>2. Turns = {} /\ DOMAIN dialogues = {} /\ Heard = {} /\ tasks = 0
  BY <1>1 DEF IInv, Staged
<1>3. Turns' = {Ask(NoRole, 0, r) : r \in roles} /\ Heard' = {}
  BY <1>1, <1>2 DEF Turns, Heard
<1>4. ASSUME NEW a \in Turns'
      PROVE  /\ a \in Questions /\ a.depth = 0 /\ a.dialogue = NoRole
             /\ turns'[a] = Fresh(a.role, 0) /\ a.role \in Names
  <2>1. PICK r \in roles : a = Ask(NoRole, 0, r)
    BY <1>3
  <2> QED BY <2>1, <1>1, <1>3 DEF Ask, Questions
<1>5. \A a \in Turns' : /\ turns'[a] \in TurnRecords /\ turns'[a].phase = "waiting"
                        /\ turns'[a].by = a.role /\ turns'[a].fallback = TRUE
  <2>1. 0 \in 0..1
    OBVIOUS
  <2>2. ASSUME NEW a \in Turns'
        PROVE  /\ Fresh(a.role, 0) \in TurnRecords /\ Fresh(a.role, 0).phase = "waiting"
               /\ Fresh(a.role, 0).by = a.role /\ Fresh(a.role, 0).fallback = TRUE
    <3> PICK q : q = a.role
      OBVIOUS
    <3>1. q \in Names
      BY <1>4
    <3> QED BY <2>1, <3>1, FreshTurns
  <2> QED BY <2>2, <1>4
<1>6. Calling' = {}
  BY <1>5 DEF Calling
<1>7. IsFiniteSet(Calling') /\ Cardinality(Calling') <= Slots
  <2>1. Calling' \subseteq Calling
    BY <1>6
  <2> QED BY <2>1, Slotted, Fields DEF IInv
<1>8. TypeOK'
  <2>1. \A a \in Turns' : /\ turns'[a] \in TurnRecords
                          /\ (a.depth = 0) = (a.dialogue = NoRole)
                          /\ a.depth # 2
    BY <1>4, <1>5
  <2>2. DOMAIN dialogues' = {} /\ stage' = "initial" /\ tasks' = 0 /\ initial' \subseteq Names
    BY <1>1, <1>2
  <2> QED BY <2>1, <2>2, <1>4, <1>7
          DEF TypeOK, TurnRecords, Phases, Speech, DialogueRecords, Questions, Calling
<1>9. HeardTypes' /\ Successive' /\ LaterRounds'
  BY <1>3 DEF HeardTypes, Successive, LaterRounds
<1>10. Staged' /\ Rounds' /\ Voices'
  BY <1>1, <1>2, <1>3, <1>4, <1>5 DEF Staged, Rounds, Voices, Ask
<1>11. OwnAnswersShown'
  BY <1>1 DEF IInv, OwnAnswersShown
<1> QED BY <1>7, <1>8, <1>9, <1>10, <1>11 DEF IInv

-----------------------------------------------------------------------------
(* Of a question asked of finitely many roles there are finitely many turns. *)
LEMMA FewHandOff ==
    ASSUME IInv, stage = "initial", NEW d
    PROVE  IsFiniteSet(HandingOff(d)) /\ Cardinality(HandingOff(d)) \in Nat
<1> DEFINE role == [a \in HandingOff(d) |-> a.role]
<1>1. Turns = {Ask(NoRole, 0, r) : r \in initial} /\ initial \subseteq Names
  BY Fields DEF IInv, Staged
<1>2. role \in [HandingOff(d) -> Names]
  BY <1>1 DEF HandingOff, Ask
<1>3. \A a, b \in HandingOff(d) : role[a] = role[b] => a = b
  BY <1>1 DEF HandingOff, Ask
<1>4. role \in Injection(HandingOff(d), Names)
  BY <1>2, <1>3 DEF Injection, IsInjective
<1>5. IsFiniteSet(HandingOff(d))
  BY <1>4, FS_Injection, ConversationAssumption
<1> QED BY <1>5, FS_CardinalityType

LEMMA GatherKeeps == ASSUME IInv, NEW r \in BOOLEAN, Gather(r) PROVE IInv'
<1> PICK R : R = Recipients
  OBVIOUS
<1>1. /\ stage = "initial" /\ stage' = "dialogues"
      /\ UNCHANGED <<initial, shown, swallowed>>
  BY DEF Gather
<1>2. /\ DOMAIN dialogues = {} /\ tasks = 0
      /\ Turns = {Ask(NoRole, 0, q) : q \in initial}
      /\ \A p \in Heard : p.turn \in Turns
  BY <1>1 DEF IInv, Staged
<1>3. tasks' \in 0..1
  BY <1>2 DEF Gather
<1>4. R \subseteq Names \ initial
  <2>1. ASSUME NEW a \in Turns PROVE Result(a).to \subseteq Names
    BY Fields DEF IInv, Result, TurnRecords, Speech
  <2>2. Recipients \subseteq Names \ initial
    <3> SUFFICES ASSUME NEW d \in Recipients PROVE d \in Names /\ d \notin initial
      OBVIOUS
    <3>1. PICK a \in Turns : d \in Result(a).to
      BY DEF Recipients
    <3>2. d \notin initial
      BY DEF Recipients
    <3> QED BY <2>1, <3>1, <3>2
  <2> QED BY <2>2
<1>5. /\ DOMAIN dialogues' = R
      /\ \A d \in R : dialogues'[d] = [sources |-> {turns[a].by : a \in HandingOff(d)},
                                       requests |-> Cardinality(HandingOff(d)),
                                       round |-> 0, asks |-> "recipient"]
  BY DEF Gather
<1>6. \A d \in DOMAIN dialogues' : /\ dialogues'[d] \in DialogueRecords
                                   /\ dialogues'[d].round = 0
  <2> SUFFICES ASSUME NEW d \in R
               PROVE  dialogues'[d] \in DialogueRecords /\ dialogues'[d].round = 0
    BY <1>5
  <2>1. Cardinality(HandingOff(d)) \in Nat
    BY <1>1, FewHandOff
  <2>2. \A a \in HandingOff(d) : turns[a].by \in Names
    BY Fields DEF IInv, HandingOff, TurnRecords
  <2> QED BY <2>1, <2>2, <1>5 DEF DialogueRecords
<1>7. Turns' = {Ask(d, 1, d) : d \in R} /\ \A a \in Turns' : turns'[a] = Fresh(a.role, 0)
  BY DEF Gather, Turns
<1>8. ASSUME NEW a \in Turns'
      PROVE  /\ a \in Questions /\ a.depth = 1 /\ a.role = a.dialogue /\ a.dialogue \in R
             /\ a.dialogue # NoRole /\ turns'[a] = Fresh(a.role, 0) /\ a.role \in Names
  <2>1. PICK d \in R : a = Ask(d, 1, d)
    BY <1>7
  <2> QED BY <2>1, <1>4, <1>7, ConversationAssumption DEF Ask, Questions
<1>9. \A a \in Turns' : /\ turns'[a] \in TurnRecords /\ turns'[a].phase = "waiting"
                        /\ turns'[a].by = a.role /\ turns'[a].fallback = TRUE
                        /\ turns'[a].round = 0
  <2>1. 0 \in 0..1
    OBVIOUS
  <2>2. ASSUME NEW a \in Turns'
        PROVE  /\ Fresh(a.role, 0) \in TurnRecords /\ Fresh(a.role, 0).phase = "waiting"
               /\ Fresh(a.role, 0).by = a.role /\ Fresh(a.role, 0).fallback = TRUE
               /\ Fresh(a.role, 0).round = 0
    <3> PICK q : q = a.role
      OBVIOUS
    <3>1. q \in Names
      BY <1>8
    <3> QED BY <2>1, <3>1, FreshTurns
  <2> QED BY <2>2, <1>8
<1>10. IsFiniteSet(Calling') /\ Cardinality(Calling') <= Slots
  <2>1. Calling' \subseteq Calling
    BY <1>9 DEF Calling
  <2> QED BY <2>1, Slotted, Fields DEF IInv
<1>11. TypeOK'
  <2>1. \A a \in Turns' : /\ turns'[a] \in TurnRecords
                          /\ (a.depth = 0) = (a.dialogue = NoRole)
                          /\ a.depth # 2
    BY <1>8, <1>9
  <2>2. /\ DOMAIN dialogues' \subseteq Names \ initial' /\ stage' = "dialogues"
        /\ initial' \subseteq Names
    BY <1>1, <1>4, <1>5, Fields DEF IInv
  <2> QED BY <2>1, <2>2, <1>3, <1>6, <1>8, <1>10
          DEF TypeOK, TurnRecords, Phases, Speech, DialogueRecords, Questions, Calling
<1>12. Heard' = Heard /\ \A p \in Heard : p.turn.depth = 0
  BY <1>1, <1>2 DEF Heard, Ask
<1>13. HeardTypes' /\ OwnAnswersShown'
  BY <1>1, <1>12 DEF IInv, HeardTypes, OwnAnswersShown
<1>14. Successive' /\ LaterRounds'
  BY <1>8, <1>12 DEF Successive, LaterRounds
<1>15. Staged' /\ Voices'
  BY <1>1, <1>8, <1>9 DEF Staged, Voices
<1>16. Rounds'
  <2>1. \A d \in DOMAIN dialogues' : Recipient(d) \in Turns'
    BY <1>5, <1>7 DEF Recipient
  <2>2. \A a \in Turns' : turns'[a].round <= dialogues'[a.dialogue].round
    BY <1>5, <1>6, <1>8, <1>9
  <2> QED BY <2>1, <2>2, <1>5, <1>8 DEF Rounds, Recipient, Ask
<1> QED BY <1>10, <1>11, <1>13, <1>14, <1>15, <1>16 DEF IInv

-----------------------------------------------------------------------------
(* The questions of a dialogue: fresh, in its round; those of the round before
   go, and the others stay as they are.                                     *)
LEMMA FollowKeeps == ASSUME IInv, NEW d \in DOMAIN dialogues, Follow(d) PROVE IInv'
<1>n. PICK n : n = dialogues[d].round
  OBVIOUS
<1>t. PICK to : to = Result(Recipient(d)).to
  OBVIOUS
<1>k. PICK kept : kept = Turns \ Questioned(d)
  OBVIOUS
<1>x. PICK x : x = IF Result(Recipient(d)).act = "handoff" THEN "sources" ELSE "nobody"
  OBVIOUS
<1>0. kept \subseteq Turns
  BY <1>k
<1>1. /\ dialogues[d].asks = "recipient" /\ dialogues' = [dialogues EXCEPT ![d].asks = x]
      /\ UNCHANGED <<stage, initial, shown, swallowed, tasks>>
  BY <1>x DEF Follow
<1>2. /\ Turns' = kept \cup {Ask(d, 2, q) : q \in to}
      /\ \A a \in Turns' : turns'[a] = IF a \in kept THEN turns[a] ELSE Fresh(a.role, n)
  BY <1>n, <1>t, <1>k DEF Follow, Turns
<1>3. /\ dialogues[d] \in DialogueRecords /\ n \in 0..1 /\ d \in Names /\ d # NoRole
      /\ x \in {"sources", "nobody"}
  BY <1>n, <1>x, Fields, ConversationAssumption DEF IInv, DialogueRecords
<1>4. to \subseteq Names
  <2>1. Recipient(d) \in Turns
    BY DEF IInv, Rounds
  <2> QED BY <1>t, <2>1, Fields DEF IInv, Result, TurnRecords, Speech
<1>5. /\ DOMAIN dialogues' = DOMAIN dialogues
      /\ \A c \in DOMAIN dialogues :
            /\ dialogues'[c] \in DialogueRecords /\ dialogues'[c].round = dialogues[c].round
            /\ dialogues'[c].asks = IF c = d THEN x ELSE dialogues[c].asks
  <2>1. \A c \in DOMAIN dialogues : dialogues[c] \in DialogueRecords
    BY Fields DEF IInv
  <2> QED BY <2>1, <1>1, <1>3 DEF DialogueRecords
<1>6. ASSUME NEW a \in Turns', a \notin kept
      PROVE  /\ a \in Questions /\ a.depth = 2 /\ a.dialogue = d /\ a.role \in Names
             /\ turns'[a] = Fresh(a.role, n)
             /\ turns'[a] \in TurnRecords /\ turns'[a].phase = "waiting"
             /\ turns'[a].by = a.role /\ turns'[a].fallback = TRUE
             /\ turns'[a].round = n /\ turns'[a].continued = 0
  <2>1. PICK q \in to : a = Ask(d, 2, q)
    BY <1>2, <1>6
  <2>2. a \in Questions /\ a.depth = 2 /\ a.dialogue = d /\ a.role \in Names
    BY <2>1, <1>3, <1>4 DEF Ask, Questions
  <2>3. turns'[a] = Fresh(a.role, n)
    BY <1>2, <1>6
  <2>4. /\ Fresh(a.role, n) \in TurnRecords /\ Fresh(a.role, n).phase = "waiting"
        /\ Fresh(a.role, n).by = a.role /\ Fresh(a.role, n).fallback = TRUE
        /\ Fresh(a.role, n).round = n /\ Fresh(a.role, n).continued = 0
    <3> PICK r : r = a.role
      OBVIOUS
    <3>1. r \in Names
      BY <2>2
    <3> QED BY <3>1, <1>3, FreshTurns
  <2> QED BY <2>2, <2>3, <2>4
<1>7. \A a \in kept : a \in Turns /\ a \in Turns' /\ turns'[a] = turns[a]
                      /\ ~(a.dialogue = d /\ a.depth = 2)
  BY <1>k, <1>2 DEF Questioned
<1>8. IsFiniteSet(Calling') /\ Cardinality(Calling') <= Slots
  <2>1. Calling' \subseteq Calling
    BY <1>6, <1>7 DEF Calling
  <2> QED BY <2>1, Slotted, Fields DEF IInv
<1>9. TypeOK'
  <2>1. ASSUME NEW a \in Turns'
        PROVE  /\ a \in Questions /\ turns'[a] \in TurnRecords
               /\ (a.depth = 0) = (a.dialogue = NoRole)
               /\ a.depth = 2 => turns'[a].continued = 0
    <3>1. CASE a \in kept
      BY <3>1, <1>7, Fields DEF IInv
    <3>2. CASE a \notin kept
      <4>1. /\ a \in Questions /\ a.depth = 2 /\ a.dialogue = d
            /\ turns'[a] \in TurnRecords /\ turns'[a].continued = 0
        BY <3>2, <1>6, Zenon
      <4> QED BY <4>1, <1>3
    <3> QED BY <3>1, <3>2
  <2>2. /\ DOMAIN dialogues' \subseteq Names \ initial' /\ initial' \subseteq Names
        /\ tasks' \in 0..1
        /\ \A c \in DOMAIN dialogues' : dialogues'[c] \in DialogueRecords
    BY <1>1, <1>5, Fields DEF IInv
  <2>3. stage' \in {"coordinate", "initial", "dialogues", "over"}
    BY <1>1 DEF IInv, TypeOK
  <2> QED BY <2>1, <2>2, <2>3, <1>8
          DEF TypeOK, TurnRecords, Phases, Speech, DialogueRecords, Questions, Calling
<1>10. Heard' = Heard
  BY <1>1 DEF Heard
<1>11. HeardTypes' /\ OwnAnswersShown'
  BY <1>1, <1>10 DEF IInv, HeardTypes, OwnAnswersShown
<1>12. LaterRounds'
  <2>1. x # "recipient"
    BY <1>3
  <2> QED BY <2>1, <1>5, <1>10 DEF IInv, LaterRounds
<1>13. Successive'
  <2> SUFFICES ASSUME NEW p \in Heard, p.turn \in Turns' PROVE Before(p.event, p.turn)'
    BY <1>10 DEF Successive
  <2>1. CASE p.turn \in kept
    BY <2>1, <1>7 DEF IInv, Successive, Before
  <2>2. CASE p.turn \notin kept
    <3>1. p.event.round < n
      BY <1>n, <2>2, <1>1, <1>6 DEF IInv, LaterRounds
    <3> QED BY <3>1, <2>2, <1>6 DEF Before
  <2> QED BY <2>1, <2>2
<1>14. Staged'
  <2>1. stage \in {"dialogues", "over"}
    BY DEF IInv, Staged, TypeOK
  <2>2. \A a \in Turns' : a.depth # 0
    <3>1. ASSUME NEW a \in Turns', a \notin kept PROVE a.depth # 0
      <4>1. a.depth = 2
        BY <3>1, <1>6, Zenon
      <4> QED BY <4>1
    <3> QED BY <2>1, <3>1, <1>7 DEF IInv, Staged
  <2> QED BY <2>1, <2>2, <1>1 DEF Staged
<1>15. Voices'
  <2>1. ASSUME NEW a \in Turns'
        PROVE  /\ turns'[a].fallback <=> turns'[a].by = a.role
               /\ (turns'[a].phase = "posting" /\ turns'[a].said.act = "continue") =>
                     (a.depth # 2 /\ turns'[a].continued < Limit)
    <3>1. CASE a \in kept
      BY <3>1, <1>7 DEF IInv, Voices
    <3>2. CASE a \notin kept
      BY <3>2, <1>6
    <3> QED BY <3>1, <3>2
  <2> QED BY <2>1 DEF Voices
<1>16. Rounds'
  <2>1. ASSUME NEW c \in DOMAIN dialogues' PROVE Recipient(c) \in Turns'
    <3>1. Recipient(c) \in Turns /\ Recipient(c).depth = 1
      BY <1>5 DEF IInv, Rounds, Recipient, Ask
    <3>2. Recipient(c) \in kept
      BY <1>k, <3>1 DEF Questioned
    <3> QED BY <3>2, <1>2
  <2>2. ASSUME NEW a \in Turns', a.depth # 0
        PROVE  /\ a.dialogue \in DOMAIN dialogues'
               /\ turns'[a].round <= dialogues'[a.dialogue].round
               /\ a.depth = 1 => a.role = a.dialogue
               /\ (a.depth = 2 /\ dialogues'[a.dialogue].asks = "recipient") =>
                     turns'[a].phase = "over"
    <3>1. CASE a \in kept
      <4>1. /\ a \in Turns /\ turns'[a] = turns[a] /\ ~(a.dialogue = d /\ a.depth = 2)
        BY <3>1, <1>7
      <4> QED BY <4>1, <2>2, <1>5 DEF IInv, Rounds
    <3>2. CASE a \notin kept
      <4>1. dialogues'[d].round = n /\ dialogues'[d].asks = x /\ d \in DOMAIN dialogues'
        BY <1>n, <1>5
      <4>2. /\ a.depth = 2 /\ a.dialogue = d /\ turns'[a].round = n
        BY <3>2, <1>6, Zenon
      <4> QED BY <4>1, <4>2, <1>3
    <3> QED BY <3>1, <3>2
  <2> QED BY <2>1, <2>2 DEF Rounds, Recipient, Ask
<1> QED BY <1>8, <1>9, <1>11, <1>12, <1>13, <1>14, <1>15, <1>16 DEF IInv

LEMMA ResumeKeeps == ASSUME IInv, NEW d \in DOMAIN dialogues, Resume(d) PROVE IInv'
<1> PICK R : R = Recipient(d)
  OBVIOUS
<1>1. /\ dialogues[d].asks = "sources" /\ UNCHANGED <<stage, initial, shown, swallowed, tasks>>
      /\ Over(Questioned(d))
  BY DEF Resume
<1>2. /\ dialogues[d] \in DialogueRecords /\ d \in Names
      /\ R \in Turns /\ R.depth = 1 /\ R.role = d /\ R.dialogue = d
  BY Fields DEF IInv, Rounds, Recipient, Ask
<1>3. Heard' = Heard
  BY <1>1 DEF Heard
<1>4. HeardTypes' /\ OwnAnswersShown'
  BY <1>1, <1>3 DEF IInv, HeardTypes, OwnAnswersShown
<1>5. CASE ~Again(d)
  <2>1. dialogues' = [dialogues EXCEPT ![d].asks = "nobody"] /\ turns' = turns
    BY <1>5 DEF Resume
  <2>2. /\ DOMAIN dialogues' = DOMAIN dialogues
        /\ \A c \in DOMAIN dialogues :
              /\ dialogues'[c] \in DialogueRecords /\ dialogues'[c].round = dialogues[c].round
              /\ dialogues'[c].asks = IF c = d THEN "nobody" ELSE dialogues[c].asks
    <3>1. \A c \in DOMAIN dialogues : dialogues[c] \in DialogueRecords
      BY Fields DEF IInv
    <3> QED BY <3>1, <2>1 DEF DialogueRecords
  <2>3. Turns' = Turns /\ Calling' = Calling
    BY <2>1 DEF Turns, Calling
  <2>4. TypeOK' /\ IsFiniteSet(Calling)'
    <3>1. \A c \in DOMAIN dialogues' : dialogues'[c] \in DialogueRecords
      BY <2>2
    <3> QED BY <3>1, <2>1, <2>2, <2>3, <1>1 DEF IInv, TypeOK, DialogueRecords, Calling
  <2>5. Staged' /\ Voices' /\ Successive'
    BY <1>1, <1>3, <2>1, <2>2, <2>3 DEF IInv, Staged, Voices, Successive, Before
  <2>6. Rounds' /\ LaterRounds'
    BY <1>3, <2>1, <2>2, <2>3 DEF IInv, Rounds, LaterRounds, Recipient, Ask
  <2> QED BY <1>4, <2>4, <2>5, <2>6 DEF IInv
<1>6. CASE Again(d)
  <2> PICK t : t = Fresh(d, 1)
    OBVIOUS
  <2>1. /\ dialogues' = [dialogues EXCEPT ![d].asks = "recipient", ![d].round = 1]
        /\ turns' = [turns EXCEPT ![R] = t] /\ dialogues[d].round < 1
    BY <1>6 DEF Resume, Again
  <2>2. /\ t \in TurnRecords /\ t.phase = "waiting" /\ t.by = d /\ t.fallback = TRUE
        /\ t.round = 1 /\ t.continued = 0
    <3>1. 1 \in 0..1
      OBVIOUS
    <3> QED BY <3>1, <1>2, FreshTurns
  <2>3. /\ DOMAIN dialogues' = DOMAIN dialogues
        /\ \A c \in DOMAIN dialogues :
              /\ dialogues'[c] \in DialogueRecords
              /\ dialogues'[c].round = IF c = d THEN 1 ELSE dialogues[c].round
              /\ dialogues'[c].asks = IF c = d THEN "recipient" ELSE dialogues[c].asks
    <3> DEFINE u == [dialogues[d] EXCEPT !.asks = "recipient"]
               v == [u EXCEPT !.round = 1]
    <3>1. dialogues' = [dialogues EXCEPT ![d] = v]
      BY <2>1
    <3>2. u \in DialogueRecords /\ u.asks = "recipient"
      BY <1>2 DEF DialogueRecords
    <3> HIDE DEF u
    <3>3. v \in DialogueRecords /\ v.asks = "recipient" /\ v.round = 1
      BY <3>2 DEF DialogueRecords
    <3> HIDE DEF v
    <3>4. \A c \in DOMAIN dialogues : dialogues[c] \in DialogueRecords
      BY Fields DEF IInv
    <3> QED BY <3>1, <3>3, <3>4
  <2>4. /\ Turns' = Turns /\ turns'[R] = t
        /\ \A a \in Turns : a # R => turns'[a] = turns[a]
    BY <2>1, <1>2 DEF Turns
  <2>5. IsFiniteSet(Calling') /\ Cardinality(Calling') <= Slots
    <3>1. Calling' \subseteq Calling
      BY <2>2, <2>4 DEF Calling
    <3> QED BY <3>1, Slotted, Fields DEF IInv
  <2>6. TypeOK'
    <3>1. ASSUME NEW a \in Turns'
          PROVE  /\ a \in Questions /\ turns'[a] \in TurnRecords
                 /\ (a.depth = 0) = (a.dialogue = NoRole)
                 /\ a.depth = 2 => turns'[a].continued = 0
      <4>1. CASE a # R
        BY <4>1, <2>4, Fields DEF IInv
      <4>2. CASE a = R
        BY <4>2, <2>2, <2>4, Fields DEF IInv
      <4> QED BY <4>1, <4>2
    <3>2. /\ DOMAIN dialogues' \subseteq Names \ initial' /\ initial' \subseteq Names
          /\ tasks' \in 0..1
          /\ \A c \in DOMAIN dialogues' : dialogues'[c] \in DialogueRecords
      BY <1>1, <2>3, Fields DEF IInv
    <3>3. stage' \in {"coordinate", "initial", "dialogues", "over"}
      BY <1>1 DEF IInv, TypeOK
    <3> QED BY <3>1, <3>2, <3>3, <2>5
            DEF TypeOK, TurnRecords, Phases, Speech, DialogueRecords, Questions, Calling
  <2>7. Staged'
    <3>1. stage \in {"dialogues", "over"}
      BY DEF IInv, Staged, TypeOK
    <3> QED BY <3>1, <1>1, <2>4 DEF IInv, Staged
  <2>8. Voices'
    <3>1. ASSUME NEW a \in Turns'
          PROVE  /\ turns'[a].fallback <=> turns'[a].by = a.role
                 /\ (turns'[a].phase = "posting" /\ turns'[a].said.act = "continue") =>
                       (a.depth # 2 /\ turns'[a].continued < Limit)
      <4>1. CASE a # R
        BY <4>1, <2>4 DEF IInv, Voices
      <4>2. CASE a = R
        BY <4>2, <1>2, <2>2, <2>4
      <4> QED BY <4>1, <4>2
    <3> QED BY <3>1 DEF Voices
  <2>9. Rounds'
    <3>1. \A c \in DOMAIN dialogues' : Recipient(c) \in Turns'
      BY <2>3, <2>4 DEF IInv, Rounds
    <3>2. ASSUME NEW a \in Turns', a.depth # 0
          PROVE  /\ a.dialogue \in DOMAIN dialogues'
                 /\ turns'[a].round <= dialogues'[a.dialogue].round
                 /\ a.depth = 1 => a.role = a.dialogue
                 /\ (a.depth = 2 /\ dialogues'[a.dialogue].asks = "recipient") =>
                       turns'[a].phase = "over"
      <4>1. CASE a = R
        BY <4>1, <1>2, <2>2, <2>3, <2>4
      <4>2. CASE a # R /\ a.dialogue # d
        BY <4>2, <3>2, <2>3, <2>4 DEF IInv, Rounds
      <4>3. CASE a # R /\ a.dialogue = d
        <5>1. a \in Turns /\ turns'[a] = turns[a] /\ turns[a].round \in 0..1
          BY <4>3, <2>4, Fields DEF IInv, TurnRecords
        <5>2. a.depth = 2 => turns[a].phase = "over"
          BY <4>3, <5>1, <1>1 DEF Over, Questioned
        <5>3. a.depth = 1 => a.role = a.dialogue
          BY <5>1 DEF IInv, Rounds
        <5> QED BY <4>3, <5>1, <5>2, <5>3, <2>3
      <4> QED BY <4>1, <4>2, <4>3
    <3> QED BY <3>1, <3>2 DEF Rounds, Recipient, Ask
  <2>10. ASSUME NEW p \in Heard, p.turn.dialogue = d, p.turn \in Turns
         PROVE  p.event.round < 1
    <3>1. p.turn.depth # 0
      BY <2>10, <1>2, Fields, ConversationAssumption DEF IInv
    <3>2. Before(p.event, p.turn) /\ turns[p.turn].round <= dialogues[d].round
      BY <2>10, <3>1 DEF IInv, Successive, Rounds
    <3>3. p.event.round \in Int /\ turns[p.turn].round \in Int /\ dialogues[d].round \in Int
      BY <2>10, <1>2, Fields DEF IInv, HeardTypes, TurnRecords, DialogueRecords
    <3> QED BY <3>2, <3>3, <2>1 DEF Before
  <2>11. Successive'
    <3> SUFFICES ASSUME NEW p \in Heard, p.turn \in Turns PROVE Before(p.event, p.turn)'
      BY <1>3, <2>4 DEF Successive
    <3>1. CASE p.turn # R
      BY <3>1, <2>4 DEF IInv, Successive, Before
    <3>2. CASE p.turn = R
      BY <3>2, <1>2, <2>2, <2>4, <2>10 DEF Before
    <3> QED BY <3>1, <3>2
  <2>12. LaterRounds'
    <3> SUFFICES ASSUME NEW p \in Heard, p.turn.depth = 2
                 PROVE  /\ p.turn.dialogue \in DOMAIN dialogues'
                        /\ p.event.round <= dialogues'[p.turn.dialogue].round
                        /\ dialogues'[p.turn.dialogue].asks = "recipient" =>
                              p.event.round < dialogues'[p.turn.dialogue].round
      BY <1>3 DEF LaterRounds
    <3>1. /\ p.turn.dialogue \in DOMAIN dialogues
          /\ p.event.round <= dialogues[p.turn.dialogue].round
          /\ dialogues[p.turn.dialogue].asks = "recipient" =>
                p.event.round < dialogues[p.turn.dialogue].round
          /\ p.event.round \in Int /\ dialogues[d].round \in Int
      BY <1>2 DEF IInv, LaterRounds, HeardTypes, DialogueRecords
    <3> QED BY <3>1, <2>1, <2>3
  <2> QED BY <1>4, <2>5, <2>6, <2>7, <2>8, <2>9, <2>11, <2>12 DEF IInv
<1> QED BY <1>5, <1>6

-----------------------------------------------------------------------------
LEMMA Initially == Init => IInv
<1> SUFFICES ASSUME Init PROVE IInv
  OBVIOUS
<1>1. Turns = {} /\ DOMAIN dialogues = {} /\ Heard = {} /\ Calling = {}
  BY DEF Init, Turns, Heard, Calling
<1>2. IsFiniteSet(Calling) /\ Cardinality(Calling) <= Slots
  BY <1>1, FS_EmptySet, ConversationAssumption
<1>3. TypeOK
  BY <1>1, <1>2 DEF Init, TypeOK, Calling
<1>4. Staged /\ Rounds /\ Voices
  BY <1>1 DEF Init, Staged, Rounds, Voices
<1>5. HeardTypes /\ Successive /\ LaterRounds /\ OwnAnswersShown
  BY <1>1 DEF Init, HeardTypes, Successive, LaterRounds, OwnAnswersShown
<1> QED BY <1>2, <1>3, <1>4, <1>5 DEF IInv

LEMMA StutterKeeps == IInv /\ UNCHANGED vars => IInv'
<1> SUFFICES ASSUME IInv, UNCHANGED vars PROVE IInv'
  OBVIOUS
<1>1. UNCHANGED <<stage, initial, turns, dialogues, shown, swallowed, tasks>>
  BY DEF vars
<1>2. Turns' = Turns /\ Heard' = Heard /\ Calling' = Calling
  BY <1>1 DEF Turns, Heard, Calling
<1>3. TypeOK' /\ IsFiniteSet(Calling)'
  BY <1>1, <1>2 DEF IInv, TypeOK, Calling
<1>4. HeardTypes' /\ OwnAnswersShown' /\ LaterRounds' /\ Staged'
  BY <1>1, <1>2 DEF IInv, HeardTypes, OwnAnswersShown, LaterRounds, Staged, Ask
<1>5. Rounds' /\ Voices' /\ Successive'
  BY <1>1, <1>2 DEF IInv, Rounds, Recipient, Ask, Voices, Successive, Before
<1> QED BY <1>3, <1>4, <1>5 DEF IInv

LEMMA NextKeeps == IInv /\ Next => IInv'
BY ReplyKeeps, GatherKeeps, DelegateKeeps, TurnKeeps, FollowKeeps, ResumeKeeps, FinishKeeps
   DEF Next

(* The inductive invariant of a conversation: in each stage the turns there
   are to ask, their rounds, who answers, and what was heard of them, stand
   together in every reachable state.                                       *)
THEOREM Inductive == Spec => []IInv
<1>1. IInv /\ [Next]_vars => IInv'
  BY NextKeeps, StutterKeeps
<1> QED BY Initially, <1>1, PTL DEF Spec

(* Every turn and dialogue keeps its type, no more calls run at a time than
   there are slots (specialist_concurrency), and one task at most comes of a
   message.                                                                 *)
THEOREM TypeCorrect == Spec => []TypeOK
<1>1. IInv => TypeOK
  BY DEF IInv
<1> QED BY Inductive, <1>1, PTL

(* No answer is taken for an earlier one of the same turn and left out of the
   channel (the event ids of specialist_turn, the receipts of send_chunked).  *)
THEOREM OwnAnswersAreShown == Spec => []OwnAnswersShown
<1>1. IInv => OwnAnswersShown
  BY DEF IInv
<1> QED BY Inductive, <1>1, PTL
=============================================================================
