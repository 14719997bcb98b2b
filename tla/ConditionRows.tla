--------------------------- MODULE ConditionRows ---------------------------
(***************************************************************************)
(* The rows PostgreSQL keeps for one operational condition (one            *)
(* conditionKey): its signal, its case, its canonical alert and the case's *)
(* event log, with the functions that compute a new row from an old one.   *)
(*                                                                         *)
(* A snapshot is the natural number that gives its place in the order of   *)
(* createdAt; 0 stands for SQL NULL.  A row that does not exist has the    *)
(* status "NONE" ("none" for an alert).  The unique indexes on             *)
(* (tenant, conditionKey), signal_id and signal_id make each of the three  *)
(* rows unique, and no transaction of OperationalConditionService touches  *)
(* the rows of two conditions, so one condition is modelled.               *)
(*                                                                         *)
(* Operators marked "variant" state a rule as a plausible mistake would    *)
(* leave it.  No action uses them: putting one in the place of the rule    *)
(* next to it shows which property depends on that rule.                   *)
(***************************************************************************)
EXTENDS Naturals, Sequences, AlertRows

CONSTANTS MaxSnapshot,   \* how many snapshots are collected
          MaxVersion,    \* dispositions stop at this case version
          MaxMonitor     \* how many monitored_domains rows the domain has in turn

ASSUME BoundsAssumption ==
    MaxSnapshot \in Nat /\ MaxVersion \in Nat /\ MaxMonitor \in Nat \ {0}

(* What the persisted evaluation of a snapshot says of the condition.      *)
Outcome == {"FAULTY", "HEALTHY"}

SignalStatus == {"NONE", "ACTIVE", "RESOLVED"}
CaseStatus == {"NONE", "OPEN", "ACKNOWLEDGED", "BLOCKED", "RESOLVED", "DISMISSED"}

SignalRow == [status : SignalStatus, lastSeen : Nat]
CaseRow == [status : CaseStatus, version : Nat, updatedAt : Nat, verification : Nat]
CaseEvent == [from : CaseStatus, to : CaseStatus]
MonitorRow == [id : Nat, live : BOOLEAN]

NoSignal == [status |-> "NONE", lastSeen |-> 0]
NoCase == [status |-> "NONE", version |-> 0, updatedAt |-> 0, verification |-> 0]

-----------------------------------------------------------------------------
(* The `allowed` table of InternalCaseRepository.transition.               *)
Closed == {"RESOLVED", "DISMISSED"}
IsOpen(c) == c.status \notin {"NONE"} \cup Closed
AllowedTransition ==
    ({"OPEN"} \X {"ACKNOWLEDGED", "BLOCKED", "RESOLVED", "DISMISSED"})
      \cup ({"ACKNOWLEDGED"} \X {"BLOCKED", "RESOLVED", "DISMISSED"})
      \cup ({"BLOCKED"} \X {"OPEN", "ACKNOWLEDGED", "RESOLVED", "DISMISSED"})
      \cup (Closed \X {"OPEN"})

(* transition(c, to) is legal, and writes unless the case has the status.  *)
MayTransition(c, to) == c.status = to \/ <<c.status, to>> \in AllowedTransition
TransitionWrites(c, to) == c.status # to

(* The row that transition(c, to) writes at time t, s being the            *)
(* verification snapshot in its metadata.                                  *)
Transitioned(c, to, s, t) ==
    [status |-> to,
     version |-> c.version + 1,
     updatedAt |-> t,
     verification |-> CASE to = "RESOLVED" -> s
                        [] to = "OPEN" -> 0
                        [] OTHER -> c.verification]

(* The row setCaseDisposition writes: an OPEN case is acknowledged, any    *)
(* other keeps its status.                                                 *)
Disposed(c, t) ==
    IF c.status = "OPEN" THEN Transitioned(c, "ACKNOWLEDGED", 0, t)
    ELSE [c EXCEPT !.version = @ + 1, !.updatedAt = t]

(* The row InternalCaseRepository.create inserts.                          *)
OpenedCase(t) == [status |-> "OPEN", version |-> 1, updatedAt |-> t, verification |-> 0]

EventOf(old, new) == [from |-> old.status, to |-> new.status]

(* Snapshot s may be observed as evidence of the fault: it is not older    *)
(* than the latest one seen, and a resolved signal asks for evidence newer *)
(* than everything in its resolution.                                      *)
AnyAge(sig, s) == TRUE  \* variant
NotOlder(sig, s) == sig.status = "NONE" \/ sig.lastSeen <= s
NewerThanLastSeenOnly(sig, c, s) ==  \* variant
    sig.status = "RESOLVED" => sig.lastSeen # s
NewerThanResolution(sig, c, s) ==
    sig.status = "RESOLVED" =>
        /\ sig.lastSeen # s
        /\ c.verification # 0 => c.verification < s

(* Snapshot s is fresh enough to resolve the case.                         *)
NewerThanCaseOnly(sig, c, s) == c.updatedAt < s  \* variant
FreshForResolution(sig, c, s) == c.updatedAt < s /\ sig.lastSeen < s
=============================================================================
