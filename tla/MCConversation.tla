---------------------------- MODULE MCConversation ----------------------------
(* Four names of three roles, consulting and standing in as in roles.py.       *)
EXTENDS Conversation

MCCanon == [n \in Names |-> IF n = "sre" THEN "security_sre" ELSE n]
MCConsults ==
    [n \in Names |-> CASE n = "cto" -> {"security_sre", "qa"} [] n = "qa" -> {"cto"}
                       [] OTHER -> {"cto"}]
MCStandIn == [n \in Names |-> IF n = "qa" THEN "cto" ELSE NoRole]
=============================================================================
