------------------------------ MODULE AlertRows -----------------------------
(***************************************************************************)
(* The status of an alerts row and the changes the code allows to it.      *)
(* "none" is an alert that does not exist (not yet, or no longer).         *)
(***************************************************************************)

AlertStatus == {"none", "pending", "sent", "acknowledged", "suppressed", "resolved"}

(* canTransitionAlert: what updateStatus may be asked for.                 *)
CanTransition(from, to) ==
    \/ to = "acknowledged" /\ from \in {"pending", "sent", "suppressed"}
    \/ to = "suppressed" /\ from \in {"pending", "sent", "acknowledged"}
    \/ to = "resolved" /\ from \in {"pending", "sent", "acknowledged", "suppressed"}

(* updateStatus of an alert that has a signal: an operator may not resolve *)
(* it.  The variant is the rule for an alert without a signal.             *)
AnyTransition(from, to) == CanTransition(from, to)  \* variant
OperatorTransition(from, to) == CanTransition(from, to) /\ to # "resolved"

(* Everything other code does to the alert of a signal between two steps   *)
(* of the signal's own transactions: delivery marks it sent, operators     *)
(* move it.                                                                *)
AlertTransition(from, to) ==
    \/ from = "pending" /\ to = "sent"
    \/ OperatorTransition(from, to)
=============================================================================
