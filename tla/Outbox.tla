-------------------------------- MODULE Outbox --------------------------------
(***************************************************************************)
(* From a committed notification to a message on Discord: the Outbox table *)
(* with its endpoints in the controller (agent_team/api.py), the topics'   *)
(* threads (agent_team/workspaces.py), and the one gateway process that    *)
(* polls the table and posts (agent_team/adapters/discord.py,              *)
(* `notifications' and `send_chunked').                                    *)
(*                                                                         *)
(* The gateway remembers nothing across a restart, and neither a call to   *)
(* Discord nor one to the controller is sure to be answered.  A message    *)
(* carries a visible marker until its id is saved as a receipt; a retry    *)
(* finds it by the marker, among the last 100 messages of the channel, or  *)
(* by the receipt.                                                         *)
(*                                                                         *)
(* A row the secret scanner blocks is one whose every try fails; such rows *)
(* are left out, and so is the archiving of topics, which nothing in the   *)
(* program resolves.                                                       *)
(*                                                                         *)
(* There are two tasks: one of workflow v1, which talks in a thread of its *)
(* own, and one of workflow v2, which has a status message in the          *)
(* project's channel and a thread per topic.                               *)
(***************************************************************************)
EXTENDS Integers, Sequences, FiniteSets

CONSTANTS
    Topics,       \* purposes a v2 task opens a topic for
    MaxRows,      \* bound: rows of the table
    Page,         \* rows of one answer to GET /outbox (30)
    Long,         \* rows whose text makes two parts
    Illustrated,  \* rows with explanation files attached
    MaxTrouble    \* bound: crashes, failed calls, lost answers, lost files,
                  \*   cancellations, and what people do to the channels

ASSUME OutboxAssumption ==
    /\ MaxRows \in Nat \ {0} /\ Page \in Nat \ {0}
    /\ Long \subseteq 1..MaxRows /\ Illustrated \subseteq 1..MaxRows
    /\ MaxTrouble \in Nat

Tasks == {"v1", "v2"}
Kinds == {"create_thread", "project_status", "create_topic_thread", "message"}

(* Places are numbered in the order they are made; 0 is none.  The first   *)
(* is the channel both tasks are announced in.                             *)
Channel == 1

VARIABLES
    rows,      \* Outbox, in the order of `created'
    thread,    \* Task.thread_id
    topic,     \* TopicThread by purpose
    projected, \* TaskProjection.status_message_id of the v2 task, 0 if none
    receipts,  \* source "discord-delivery": <<place, row, part>> -> message
    lost,      \* rows whose files are gone
    places,    \* Discord: the channel and the threads
    messages,  \* Discord: messages of the gateway, in the order of posting
    gateway,   \* memory of the gateway
    trouble

database == <<rows, thread, topic, projected, receipts, lost>>
discord == <<places, messages>>
vars == <<database, discord, gateway, trouble>>

Rows == 1..Len(rows)
Open(r) == ~rows[r].sent
Parts(r) == IF r \in Long THEN 1..2 ELSE 1..1

(* A row read by the poll, with what the answer adds to it.                *)
Item(r) == [row |-> r, at |-> rows[r].at,
            status |-> IF rows[r].kind = "project_status" THEN projected ELSE 0]

(* What the gateway does now, for the first item of its batch: `at' is the *)
(* place it posts to, `part' the part it is at, `message' the message it   *)
(* found or made for that part, `first' the one it will acknowledge.       *)
Between(step, batch) ==
    [step |-> step, batch |-> batch, at |-> 0, part |-> 0, message |-> 0, first |-> 0]
Doing(step, at, part, message, first) ==
    [step |-> step, batch |-> gateway.batch, at |-> at, part |-> part,
     message |-> message, first |-> first]
Idle == Between("poll", <<>>)
Steps == {"poll", "item", "send", "receipt", "strip", "seeded", "ack", "fail"}
Current == Head(gateway.batch).row

TypeOK ==
    /\ rows \in Seq([task: Tasks, kind: Kinds, topic: Topics \cup {"none"}, fresh: BOOLEAN,
                     at: Nat, sent: BOOLEAN, cancelled: BOOLEAN, due: BOOLEAN, message: Nat])
    /\ \A r \in Rows : rows[r].at \in 0..Len(places) /\ rows[r].message \in 0..Len(messages)
    /\ thread \in [Tasks -> 0..Len(places)]
    /\ topic \in [Topics -> [row: 0..Len(rows), at: 0..Len(places), reminded: BOOLEAN]]
    /\ projected \in 0..Len(messages)
    /\ DOMAIN receipts \subseteq (DOMAIN places) \X Rows \X (0..2)
    /\ \A key \in DOMAIN receipts : receipts[key] \in DOMAIN messages
    /\ lost \subseteq Illustrated
    /\ places \in Seq([kind: {"channel", "task", "topic"}, of: Nat])
    /\ messages \in Seq([at: 1..Len(places), row: Rows, part: 0..2, shows: Rows,
                         marked: BOOLEAN, seen: {"recent", "old", "deleted"}])
    /\ gateway.step \in Steps /\ gateway.part \in 0..2
    /\ gateway.message \in 0..Len(messages) /\ gateway.first \in 0..Len(messages)
    /\ gateway.step # "poll" => gateway.batch # <<>>

NewRow(task, kind, p, fresh, at) ==
    [task |-> task, kind |-> kind, topic |-> p, fresh |-> fresh, at |-> at,
     sent |-> FALSE, cancelled |-> FALSE, due |-> TRUE, message |-> 0]
Init ==
    /\ rows = <<NewRow("v1", "create_thread", "none", FALSE, 0)>>
    /\ thread = [t \in Tasks |-> 0]
    /\ topic = [p \in Topics |-> [row |-> 0, at |-> 0, reminded |-> FALSE]]
    /\ projected = 0 /\ receipts = <<>> /\ lost = {}
    /\ places = <<[kind |-> "channel", of |-> 0]>> /\ messages = <<>>
    /\ gateway = Idle
    /\ trouble = 0

Troubled == trouble < MaxTrouble /\ trouble' = trouble + 1

-----------------------------------------------------------------------------
(* The controller queues rows, each in the transaction of the change it    *)
(* tells of.                                                               *)

Queued(task, kind, p, fresh, at) ==
    /\ Len(rows) < MaxRows
    /\ rows' = Append(rows, NewRow(task, kind, p, fresh, at))
    /\ UNCHANGED <<thread, projected, receipts, lost, discord, gateway, trouble>>

(* notify, _notify: `fresh' is an approval, or a state that waits for the
   owner, who must be mentioned.                                            *)
Notify(task, fresh) ==
    /\ Queued(task, IF task = "v2" THEN "project_status" ELSE "message", "none", fresh, thread[task])
    /\ UNCHANGED topic

(* create_topic: once for each purpose of the task.                         *)
CreateTopic(p) ==
    /\ topic[p].row = 0
    /\ Queued("v2", "create_topic_thread", p, FALSE, 0)
    /\ topic' = [topic EXCEPT ![p].row = Len(rows) + 1]

TopicPlace(p) == IF topic[p].at # 0 THEN topic[p].at ELSE thread["v2"]

(* DelegationService.create: the request is logged in the topic's thread.   *)
Delegate(p) ==
    /\ topic[p].row # 0
    /\ Queued("v2", "message", p, FALSE, TopicPlace(p))
    /\ UNCHANGED topic

(* enqueue_due_owner_reminders: a day after the topic was opened.           *)
Remind(p) ==
    /\ topic[p].row # 0 /\ ~topic[p].reminded
    /\ Queued("v2", "message", p, FALSE, TopicPlace(p))
    /\ topic' = [topic EXCEPT ![p].reminded = TRUE]

(* command("cancel") of the v2 task silences what it has not yet sent.      *)
CancelTask ==
    /\ \E r \in Rows : Open(r) /\ rows[r].task = "v2"
    /\ rows' = [r \in Rows |-> IF Open(r) /\ rows[r].task = "v2"
                               THEN [rows[r] EXCEPT !.sent = TRUE, !.cancelled = TRUE] ELSE rows[r]]
    /\ Troubled
    /\ UNCHANGED <<thread, topic, projected, receipts, lost, discord, gateway>>

(* Mutant: a row that failed is given up.                                   *)
BackOffEndsNever(r) == Open(r) /\ rows[r].due /\ UNCHANGED vars
(* A back-off (at most 300 seconds) runs out.                               *)
BackOffEnds(r) ==
    /\ Open(r) /\ ~rows[r].due
    /\ rows' = [rows EXCEPT ![r].due = TRUE]
    /\ UNCHANGED <<thread, topic, projected, receipts, lost, discord, gateway, trouble>>

-----------------------------------------------------------------------------
(* The gateway's loop.  A step that calls Discord or the controller may    *)
(* fail before its effect, or after it, when only the answer is lost: both *)
(* raise.                                                                  *)

Working(step) == gateway.step = step
Goes(changed) == gateway' = changed
(* Mutant: the loop over the batch does not end.                            *)
NextItemUnchecked == Between("item", Tail(gateway.batch))
NextItem ==
    Between(IF Len(gateway.batch) > 1 THEN "item" ELSE "poll", Tail(gateway.batch))
Failing == Between("fail", gateway.batch)
Raise ==
    /\ Troubled
    /\ Goes(Failing)
Answered(changed) == Raise \/ (Goes(changed) /\ UNCHANGED trouble)

CallFails ==
    /\ gateway.step \in Steps \ {"poll", "fail"} /\ Raise
    /\ UNCHANGED <<database, discord>>

(* GET /outbox: the oldest rows that are due, in their order, a page at most.
   One row without its files fails the whole answer.                        *)
Due == {r \in Rows : Open(r) /\ rows[r].due}
Oldest(page) ==
    LET on == {page[i] : i \in DOMAIN page} IN
    /\ \A i, j \in DOMAIN page : i < j => page[i] < page[j]
    /\ \A r \in Due \ on : Len(page) = Page /\ \A q \in on : q < r
    /\ on \cap lost = {}
Poll ==
    /\ Working("poll")
    /\ \E n \in 1..Page : \E page \in [1..n -> Due] :
          /\ Oldest(page)
          /\ Goes(Between("item", [i \in 1..n |-> Item(page[i])]))
    /\ UNCHANGED <<database, discord, trouble>>

(* Where send_chunked looks for a part before it posts it.  Of several
   marked copies it takes the oldest, the last it reads.                    *)
Recovered(at, r, part) ==
    {m \in DOMAIN messages : /\ messages[m].at = at /\ messages[m].shows = r
                             /\ messages[m].part = part /\ messages[m].marked
                             /\ messages[m].seen = "recent"}
Recorded(at, r, part) ==
    {m \in DOMAIN messages : /\ <<at, r, part>> \in DOMAIN receipts
                             /\ receipts[<<at, r, part>>] = m /\ messages[m].seen # "deleted"}
Eldest(ms) == {m \in ms : \A other \in ms : m <= other}
(* Mutant: the receipts are not asked.                                      *)
FoundByMarker(at, r, part) == Recovered(at, r, part)
Found(at, r, part) ==
    IF Recovered(at, r, part) # {} THEN Recovered(at, r, part) ELSE Recorded(at, r, part)

(* The messages of one place are sent and recorded part by part.            *)
Sending(at, part, first) == Doing("send", at, part, 0, first)
Having(message) == Doing("receipt", gateway.at, gateway.part, message, gateway.first)

Skip ==   \* it has nowhere to go
    /\ Working("item")
    /\ rows[Current].kind = "message" /\ Head(gateway.batch).at = 0
    /\ Goes(NextItem)
    /\ UNCHANGED <<database, discord, trouble>>

StartMessage ==
    /\ Working("item")
    /\ rows[Current].kind = "message" /\ Head(gateway.batch).at # 0
    /\ Goes(Sending(Head(gateway.batch).at, 1, 0))
    /\ UNCHANGED <<database, discord, trouble>>

(* A v1 task's thread hangs on a seed message, part 0.                      *)
StartTaskThread ==
    /\ Working("item")
    /\ rows[Current].kind = "create_thread"
    /\ Goes(Sending(Channel, 0, 0))
    /\ UNCHANGED <<database, discord, trouble>>

(* Every try makes a thread of its own.                                     *)
CreateTopicThread ==
    /\ Working("item")
    /\ rows[Current].kind = "create_topic_thread"
    /\ places' = Append(places, [kind |-> "topic", of |-> Current])
    /\ Answered(Sending(Len(places) + 1, 1, 0))
    /\ UNCHANGED <<database, messages>>

(* A status is written over the known status message, unless it is long or
   wants attention, or the message is gone.                                 *)
Overwrites ==
    /\ Parts(Current) = {1} /\ ~rows[Current].fresh
    /\ Head(gateway.batch).status # 0 /\ messages[Head(gateway.batch).status].seen # "deleted"
StartStatus ==
    /\ Working("item")
    /\ rows[Current].kind = "project_status" /\ ~Overwrites
    /\ Goes(Sending(Channel, 1, 0))
    /\ UNCHANGED <<database, discord, trouble>>
EditStatus ==
    /\ Working("item")
    /\ rows[Current].kind = "project_status" /\ Overwrites
    /\ LET m == Head(gateway.batch).status
           copies == Recovered(Channel, Current, 1)
           marked == IF messages[m].seen = "recent" THEN copies \cup {m} ELSE copies IN
       /\ messages' = [messages EXCEPT ![m].shows = Current, ![m].marked = TRUE]
       /\ \E known \in IF marked = {} THEN {m} ELSE Eldest(marked) :
             Answered(Doing("receipt", Channel, 1, known, m))
    /\ UNCHANGED <<database, places>>

SendPart ==
    /\ Working("send")
    /\ LET known == Found(gateway.at, Current, gateway.part) IN
       IF known # {}
       THEN /\ \E m \in Eldest(known) : Goes(Having(m))
            /\ UNCHANGED <<messages, trouble>>
       ELSE /\ messages' = Append(messages, [at |-> gateway.at, row |-> Current,
                                             part |-> gateway.part, shows |-> Current,
                                             marked |-> TRUE, seen |-> "recent"])
            /\ Answered(Having(Len(messages) + 1))
    /\ UNCHANGED <<database, places>>

SaveReceipt ==   \* PUT /discord-deliveries
    /\ Working("receipt")
    /\ LET now == <<gateway.at, Current, gateway.part>> IN
       receipts' = [key \in DOMAIN receipts \cup {now} |->
                       IF key = now THEN gateway.message ELSE receipts[key]]
    /\ Answered(Doing("strip", gateway.at, gateway.part, gateway.message, gateway.first))
    /\ UNCHANGED <<rows, thread, topic, projected, lost, discord>>

First == IF gateway.first = 0 THEN gateway.message ELSE gateway.first
(* Mutant: the parts after the first are forgotten.                         *)
AfterPartOne ==
    IF gateway.part = 0 THEN Doing("seeded", gateway.at, 0, gateway.message, First)
    ELSE Doing("ack", gateway.at, gateway.part, gateway.message, First)
AfterPart ==
    IF gateway.part = 0 THEN Doing("seeded", gateway.at, 0, gateway.message, First)
    ELSE IF gateway.part + 1 \in Parts(Current) THEN Sending(gateway.at, gateway.part + 1, First)
    ELSE Doing("ack", gateway.at, gateway.part, gateway.message, First)
BearsMarker(m) == messages[m].marked /\ messages[m].shows = Current
CleanAlready ==   \* it is gone already, or that of another text
    /\ Working("strip") /\ ~BearsMarker(gateway.message)
    /\ Goes(AfterPart)
    /\ UNCHANGED <<database, discord, trouble>>
StripMarker ==
    /\ Working("strip") /\ BearsMarker(gateway.message)
    /\ messages[gateway.message].seen # "deleted"
    /\ messages' = [messages EXCEPT ![gateway.message].marked = FALSE]
    /\ Answered(AfterPart)
    /\ UNCHANGED <<database, places>>
(* Editing a message that was deleted meanwhile fails of itself.            *)
StripFails ==
    /\ Working("strip") /\ BearsMarker(gateway.message)
    /\ messages[gateway.message].seen = "deleted"
    /\ Goes(Failing)
    /\ UNCHANGED <<database, discord, trouble>>

(* message.thread or create_thread                                          *)
(* Mutant: message.thread is not looked at.                                 *)
ThreadsOfNone(m) == {}
ThreadsOf(m) == {i \in DOMAIN places : places[i].kind = "task" /\ places[i].of = m}
OpenTaskThread ==
    /\ Working("seeded")
    /\ IF ThreadsOf(gateway.first) # {}
       THEN /\ \E i \in ThreadsOf(gateway.first) : Goes(Sending(i, 1, gateway.first))
            /\ UNCHANGED <<places, trouble>>
       ELSE /\ places' = Append(places, [kind |-> "task", of |-> gateway.first])
            /\ Answered(Sending(Len(places) + 1, 1, gateway.first))
    /\ UNCHANGED <<database, messages>>

(* POST /outbox/{id}/ack                                                    *)
Acked(row) == [row EXCEPT !.sent = TRUE, !.message = gateway.first]
Readdressed(r) ==
    LET row == IF r = Current THEN Acked(rows[r]) ELSE rows[r] IN
    IF rows[Current].kind = "create_thread" /\ rows[r].task = rows[Current].task /\ ~row.sent
    THEN [row EXCEPT !.at = gateway.at] ELSE row
Ack ==
    /\ Working("ack")
    /\ rows' = [r \in Rows |-> Readdressed(r)]
    /\ projected' = IF rows[Current].kind = "project_status" THEN gateway.first ELSE projected
    /\ IF rows[Current].kind = "create_topic_thread"
       THEN /\ topic' = [topic EXCEPT ![rows[Current].topic].at = gateway.at]
            /\ thread' = IF thread["v2"] = 0 THEN [thread EXCEPT !["v2"] = gateway.at] ELSE thread
       ELSE /\ UNCHANGED topic
            /\ thread' = IF rows[Current].kind = "create_thread"
                         THEN [thread EXCEPT !["v1"] = gateway.at] ELSE thread
    /\ Answered(NextItem)
    /\ UNCHANGED <<receipts, lost, discord>>
(* An error status of the ack is not looked at.                             *)
AckRefused ==
    /\ Working("ack") /\ Troubled
    /\ Goes(NextItem)
    /\ UNCHANGED <<database, discord>>

(* POST /outbox/{id}/fail backs the row off; when it fails itself the rest
   of the batch is dropped.                                                 *)
Fail ==
    /\ Working("fail")
    /\ rows' = [rows EXCEPT ![Current].due = FALSE]
    /\ Goes(NextItem)
    /\ UNCHANGED <<thread, topic, projected, receipts, lost, discord, trouble>>
FailFails ==
    /\ Working("fail") /\ Troubled
    /\ Goes(Idle)
    /\ UNCHANGED <<database, discord>>

Crash ==
    /\ gateway # Idle /\ Troubled
    /\ Goes(Idle)
    /\ UNCHANGED <<database, discord>>

LoseFiles(r) ==
    /\ r \in Rows \ lost /\ Troubled
    /\ lost' = lost \cup {r}
    /\ UNCHANGED <<rows, thread, topic, projected, receipts, discord, gateway>>

-----------------------------------------------------------------------------
(* People write on, and may delete a message of the gateway.               *)

Moved(m, where) ==
    /\ Troubled
    /\ messages' = [messages EXCEPT ![m].seen = where]
    /\ UNCHANGED <<database, places, gateway>>
Scrolls(m) == messages[m].seen = "recent" /\ Moved(m, "old")
Deleted(m) == messages[m].seen # "deleted" /\ Moved(m, "deleted")

-----------------------------------------------------------------------------
Loop ==
    \/ Poll \/ Skip \/ StartMessage \/ StartTaskThread \/ CreateTopicThread
    \/ StartStatus \/ EditStatus \/ SendPart \/ SaveReceipt \/ CleanAlready \/ StripMarker
    \/ StripFails \/ OpenTaskThread \/ Ack \/ Fail
Next ==
    \/ Notify("v1", FALSE)
    \/ \E fresh \in BOOLEAN : Notify("v2", fresh)
    \/ \E p \in Topics : CreateTopic(p) \/ Delegate(p) \/ Remind(p)
    \/ CancelTask
    \/ \E r \in Rows : BackOffEnds(r)
    \/ Loop
    \/ CallFails \/ AckRefused \/ FailFails \/ Crash
    \/ \E r \in Illustrated : LoseFiles(r)
    \/ \E m \in DOMAIN messages : Scrolls(m) \/ Deleted(m)

(* The loop never ends and is restarted when it dies (restart:
   unless-stopped); clocks go on.                                           *)
Fairness == WF_vars(Loop) /\ \A r \in 1..MaxRows : WF_vars(r \in Rows /\ BackOffEnds(r))
Spec == Init /\ [][Next]_vars /\ Fairness

-----------------------------------------------------------------------------
SamePart(l, m) == l.at = m.at /\ l.row = m.row /\ l.part = m.part

(* A message the gateway has no way to know of any more: it was never
   recorded and its marker is out of sight, or it or a copy of it was
   deleted.                                                                 *)
Unrecorded(m) == \A key \in DOMAIN receipts : receipts[key] # m
Lost(m) ==
    \/ messages[m].seen = "old" /\ messages[m].marked /\ Unrecorded(m)
    \/ \E d \in DOMAIN messages :
          messages[d].seen = "deleted" /\ SamePart(messages[d], messages[m])

(* The receipt of its part may also name another message, a status that was
   written over, and that was deleted.                                      *)
Untraceable(m) ==
    \/ Lost(m)
    \/ LET key == <<messages[m].at, messages[m].row, messages[m].part>> IN
       key \in DOMAIN receipts /\ messages[receipts[key]].seen = "deleted"

(* Each part of a row is posted once.  Another copy is posted only when those
   before cannot be traced: crashes, lost answers and retries alone, in any
   order, post nothing twice (send_chunked, DeliveryReceipts).              *)
PostedOnce ==
    [][\A new \in DOMAIN messages' \ DOMAIN messages : \A m \in DOMAIN messages :
          SamePart(messages[m], messages'[new]) => Untraceable(m)]_vars

(* A v1 task has one thread: trying again finds the seed message and the
   thread that hangs on it, even when its creation was never answered.      *)
OneTaskThread ==
    \A i, j \in DOMAIN places :
        i < j /\ places[i].kind = "task" /\ places[j].kind = "task" => Lost(places[i].of)

(* Where a row belongs: a message in the thread it is addressed to, the row
   that opens a thread in the thread its task or topic is bound to.         *)
Home(r) ==
    CASE rows[r].kind = "message" -> rows[r].at
      [] rows[r].kind = "create_thread" -> thread["v1"]
      [] rows[r].kind = "create_topic_thread" -> topic[rows[r].topic].at
      [] rows[r].kind = "project_status" -> Channel
Shown(r, part, place) == \E m \in DOMAIN messages :
    messages[m].shows = r /\ messages[m].part = part /\ messages[m].at = place

(* What is marked sent stands whole in the place it belongs to once the
   acknowledgement is through, and the message id kept with the row is that
   of a message that shows it (the approval button and the delegation hang on
   that id).  A status counts when another status was written over its
   message before it was acknowledged.                                      *)
WrittenOver(r, m) ==
    messages[m].shows # r /\ {rows[r].kind, rows[messages[m].shows].kind} = {"project_status"}
AckedWhole ==
    [][\A r \in Rows : Open(r) /\ rows'[r].sent /\ ~rows'[r].cancelled =>
           \/ WrittenOver(r, rows'[r].message)
           \/ /\ \A part \in Parts(r) : Shown(r, part, Home(r)')
              /\ messages[rows'[r].message].shows = r]_vars

(* A row of the v2 task queued before any of its threads existed keeps an
   empty thread_id: nothing fills it in, and the gateway passes it over.    *)
Stranded(r) ==
    /\ r \in Rows /\ Open(r)
    /\ rows[r].task = "v2" /\ rows[r].kind = "message" /\ rows[r].at = 0
Clogged == Cardinality({r \in Rows : Stranded(r)}) >= Page
Poisoned == \E r \in lost : r \in Rows /\ Open(r)

(* Whatever fails on the way a bounded number of times, every row is sent at
   last but the stranded ones, unless those fill the whole page or a row
   whose files are gone fails every poll.                                   *)
Drained == \A r \in Rows : Open(r) => Stranded(r)
Delivered == []<>(Drained \/ Clogged \/ Poisoned)
=============================================================================
