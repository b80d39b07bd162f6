-------------------------- MODULE MCSessionAlerts --------------------------
(* Small instances of SessionAlerts; one alert of a collector stands for    *)
(* all.                                                                     *)
EXTENDS SessionAlerts

CONSTANT disk

OtherAlerts == {disk}
AllAlerts == (Sessions \X Codes) \cup OtherAlerts
Source == [f \in AllAlerts |-> IF f \in OtherAlerts THEN "collector" ELSE "agent_registry"]
=============================================================================
