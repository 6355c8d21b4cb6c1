------------------------------- MODULE Parts -------------------------------
(***************************************************************************)
(* Four parts that share no state with one another nor, at this commit,    *)
(* with the rest: the collector of metrics, the alert manager, the         *)
(* notification service and the two ways of splitting a text.  A behaviour *)
(* is one of one of them, so that a single run explores their union and    *)
(* not their product.                                                      *)
(***************************************************************************)
EXTENDS Collector, Alerts, Notices, SplitMessage

VARIABLE part  \* the one that moves

vars == <<part, collectorVars, alertVars, noticeVars, splitVars>>

Moves == {"collector", "alerts", "notices", "answer", "notice"}

PartsTypeOK ==
  /\ part \in Moves
  /\ CollectorTypeOK /\ AlertsTypeOK /\ NoticesTypeOK /\ SplitTypeOK

Init ==
  /\ part \in Moves
  /\ CollectorInit /\ AlertsInit /\ NoticesInit
  /\ SplitInit({IF part \in {"answer", "notice"} THEN part ELSE "none"})

Next ==
  /\ UNCHANGED part
  /\ \/ part = "collector" /\ CollectorNext /\ UNCHANGED <<alertVars, noticeVars, splitVars>>
     \/ part = "alerts" /\ AlertsNext /\ UNCHANGED <<collectorVars, noticeVars, splitVars>>
     \/ part = "notices" /\ NoticesNext /\ UNCHANGED <<collectorVars, alertVars, splitVars>>
     \/ SplitNext /\ UNCHANGED <<collectorVars, alertVars, noticeVars>>

Spec == Init /\ [][Next]_vars
=============================================================================
