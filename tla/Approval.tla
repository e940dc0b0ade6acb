------------------------------- MODULE Approval -------------------------------
(***************************************************************************)
(* What DiscordChangeService (discord_sre.py) keeps of a change to the     *)
(* Discord guild: it is made at most once, after an owner approved it and  *)
(* it was released for execution, both in time; it is reported as made     *)
(* only if it was, and not made any more once it is reported as failed.    *)
(***************************************************************************)
CONSTANT Changes

VARIABLES
    phase,     \* of a change: none, proposed, approved, released, made, dropped
    lapsed,    \* changes whose time for approval and release is over
    reported   \* of a change: open, completed, failed

vars == <<phase, lapsed, reported>>

Init ==
    /\ phase = [c \in Changes |-> "none"]
    /\ lapsed = {}
    /\ reported = [c \in Changes |-> "open"]

Moves(c, from, to) == phase[c] = from /\ phase' = [phase EXCEPT ![c] = to]

Propose(c) == Moves(c, "none", "proposed") /\ UNCHANGED <<lapsed, reported>>
Approve(c) == c \notin lapsed /\ Moves(c, "proposed", "approved") /\ UNCHANGED <<lapsed, reported>>
Release(c) == c \notin lapsed /\ Moves(c, "approved", "released") /\ UNCHANGED <<lapsed, reported>>
Make(c) == Moves(c, "released", "made") /\ UNCHANGED <<lapsed, reported>>
Lapse(c) == lapsed' = lapsed \cup {c} /\ UNCHANGED <<phase, reported>>

(* An approved change that no longer fits its target.                       *)
Drop(c) == Moves(c, "approved", "dropped") /\ UNCHANGED <<lapsed, reported>>

Completed(c) ==
    /\ phase[c] = "made" /\ reported[c] = "open"
    /\ reported' = [reported EXCEPT ![c] = "completed"] /\ UNCHANGED <<phase, lapsed>>
(* What is reported as failed is not made any more.                         *)
Failed(c) ==
    /\ phase[c] \in {"released", "made"} /\ reported[c] = "open"
    /\ reported' = [reported EXCEPT ![c] = "failed"]
    /\ phase' = [phase EXCEPT ![c] = IF @ = "made" THEN "made" ELSE "dropped"]
    /\ UNCHANGED lapsed

Next == \E c \in Changes :
    \/ Propose(c) \/ Approve(c) \/ Release(c) \/ Make(c)
    \/ Lapse(c) \/ Drop(c) \/ Completed(c) \/ Failed(c)

Spec == Init /\ [][Next]_vars
=============================================================================
