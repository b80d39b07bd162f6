---------------------------- MODULE MCCollection ----------------------------
(* Machines that between them meet every rule of the collectors.            *)
EXTENDS Collection, TLC

CONSTANTS root, nas, web, db, other, a1, a2, none

Fine == [used |-> root :> 84 @@ nas :> 10, memoryKnown |-> TRUE, memoryUsed |-> 89,
         temperatures |-> {40, 84}, cpuKnown |-> TRUE, networkKnown |-> TRUE,
         disksFound |-> TRUE, rapl |-> "permission_denied"]
Up == [answer |-> "list", containers |-> web :> "running" @@ db :> "running" @@ other :> "stopped"]
Account(codex, disabled, status, answers) ==
  [codex |-> codex, disabled |-> disabled, status |-> status, answers |-> answers]
NoAnswers == <<"refused", "refused">>
Quotas(x, y) == [key |-> TRUE, listed |-> TRUE, accounts |-> a1 :> x @@ a2 :> y]
Usage == Quotas(Account(TRUE, FALSE, "unknown", <<"retry", "usage">>),
                Account(FALSE, FALSE, "ok", NoAnswers))
At(host, containers, quotas) == [resources |-> host, docker |-> containers, ai_quota |-> quotas]

SomeMachines ==
  { At(Fine, Up, Usage),
    At([Fine EXCEPT !.used = root :> 95 @@ nas :> 85, !.temperatures = {85, 20}],
       [Up EXCEPT !.containers = web :> "stopped" @@ db :> "running"],
       [Usage EXCEPT !.key = FALSE]),
    At([Fine EXCEPT !.used = root :> 85, !.memoryUsed = 90, !.temperatures = {95}],
       [Up EXCEPT !.containers = web :> "unhealthy" @@ other :> "running"],
       Quotas(Account(TRUE, FALSE, "ok", <<"retry", "retry">>),
              Account(FALSE, TRUE, "ok", NoAnswers))),
    At([Fine EXCEPT !.memoryKnown = FALSE, !.temperatures = {}, !.disksFound = FALSE],
       [Up EXCEPT !.answer = "none"],
       Quotas(Account(TRUE, FALSE, "ok", <<"retry", "empty">>),
              Account(FALSE, FALSE, "unknown", NoAnswers))) }

AllAlerts ==
  UNION { UNION { {AlertOf(m, i) : i \in Found[mc][m].issues \cup FailedReading.issues} :
                  m \in Modules } : mc \in SomeMachines }
Source == [f \in AllAlerts |-> f.source]
=============================================================================
