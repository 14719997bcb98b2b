---------------------------- MODULE AlertLifecycle ---------------------------
(***************************************************************************)
(* The status of the canonical alert of one condition, as all that touch   *)
(* it promise each other to move it.  ConditionStore takes what senders    *)
(* and operators do to the alert for granted, AlertDelivery what the       *)
(* transactions of the condition do; both are shown to implement this      *)
(* module, in which each kind of step has targets of its own.              *)
(***************************************************************************)
EXTENDS AlertRows

VARIABLE alert  \* the status of the alerts row

Init == alert \in {"none", "pending"}

(* A fault is observed.  An alert that is pending, was sent or is in the   *)
(* hands of an operator stays as it is.                                    *)
Notify ==
    /\ alert \in {"none", "resolved"}
    /\ alert' = "pending"

(* The condition has recovered.                                            *)
Close ==
    /\ alert \notin {"none", "resolved"}
    /\ alert' = "resolved"

(* A delivery is completed, or an operator acts.                           *)
Answer == \E to \in AlertStatus : AlertTransition(alert, to) /\ alert' = to

(* The monitored domain is deleted.                                        *)
Delete ==
    /\ alert # "none"
    /\ alert' = "none"

Next == Notify \/ Close \/ Answer \/ Delete

Spec == Init /\ [][Next]_alert
=============================================================================
