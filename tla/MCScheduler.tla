----------------------------- MODULE MCScheduler -----------------------------
(* Instances of Scheduler for TLC: tasks on one repository, writing and      *)
(* privileged roles of the default role registry; consultations are the jobs *)
(* of the third class.                                                       *)
EXTENDS Scheduler

CONSTANTS t1, t2, repo, backend, frontend, sre

MCRepoOf == [t \in Tasks |-> repo]
MCAllV2 == [t \in Tasks |-> 2]
MCMixed == [t \in Tasks |-> IF t = t1 THEN 1 ELSE 2]
MCClassOf == [r \in Roles |-> IF r = sre THEN "privileged" ELSE "repository_write"]
MCImplement == {<<"implement", frontend>>}
(* With a consultation, which the owner may ask for on a stopped task.      *)
MCConsulted == MCImplement \cup {<<"consult", backend>>}
(* A writer beside consultations and reviews of a privileged role: sre is the
   one of the default registry, which may make the reviewer one, too.       *)
MCPrivileged == {<<"implement", backend>>, <<"consult", sre>>, <<"review", sre>>}
MCFallback == [r \in Roles |-> IF r = frontend THEN backend ELSE NoRole]
=============================================================================
