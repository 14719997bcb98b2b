------------------------ MODULE ConditionLifecycle -------------------------
(***************************************************************************)
(* What OperationalConditionService promises for one condition, every      *)
(* operation being one atomic step: a fault observed in a snapshot opens   *)
(* or reopens the signal, its case and its alert; a healthy snapshot newer *)
(* than all of them resolves them; an operator's disposition moves the     *)
(* case.  ConditionStore gives the same operations as the transactions the *)
(* code runs.                                                              *)
(***************************************************************************)
EXTENDS ConditionRows

VARIABLES outcome,       \* outcome[s] is what snapshot s says of the condition
          monitor,       \* the monitored_domains row of the domain
          signal,        \* the internal_signals row
          internalCase,  \* the internal_cases row
          caseEvents,    \* the internal_case_events rows of the case
          alert          \* the status of the alerts row of the signal

vars == <<outcome, monitor, signal, internalCase, caseEvents, alert>>

TypeOK ==
    /\ outcome \in Seq(Outcome)
    /\ monitor \in MonitorRow
    /\ signal \in SignalRow
    /\ internalCase \in CaseRow
    /\ caseEvents \in Seq(CaseEvent)
    /\ alert \in AlertStatus

Init ==
    /\ outcome = <<>>
    /\ monitor = [id |-> 1, live |-> TRUE]
    /\ signal = NoSignal
    /\ internalCase = NoCase
    /\ caseEvents = <<>>
    /\ alert = "none"

Now == Len(outcome)
-----------------------------------------------------------------------------
Collect ==
    /\ Now < MaxSnapshot
    /\ \E o \in Outcome : outcome' = Append(outcome, o)
    /\ UNCHANGED <<monitor, signal, internalCase, caseEvents, alert>>

(* The case becomes `row`, and the change is logged.                       *)
CaseBecomes(row) ==
    /\ internalCase' = row
    /\ caseEvents' = Append(caseEvents, EventOf(internalCase, row))

(* The write times are those of the transaction, which may have started    *)
(* before the step that commits it.                                        *)
WriteTimes == internalCase.updatedAt .. Now

Observe(s) ==
    /\ outcome[s] = "FAULTY"
    /\ NotOlder(signal, s)
    /\ NewerThanResolution(signal, internalCase, s)
    /\ signal' = [status |-> "ACTIVE", lastSeen |-> s]
    /\ \/ /\ ~IsOpen(internalCase)
          /\ \E t \in WriteTimes :
                CaseBecomes(IF internalCase.status = "NONE" THEN OpenedCase(t)
                            ELSE Transitioned(internalCase, "OPEN", 0, t))
       \/ /\ IsOpen(internalCase)
          /\ UNCHANGED <<internalCase, caseEvents>>
    /\ CASE alert = "resolved" -> alert' = "pending"
         [] alert = "none" -> alert' \in {"none"} \cup {a \in {"pending"} : monitor.live}
         [] OTHER -> alert' = alert
    /\ UNCHANGED <<outcome, monitor>>

(* The finalizer asks for it only while the case is open.                  *)
Resolve(s) ==
    /\ outcome[s] = "HEALTHY"
    /\ IsOpen(internalCase)
    /\ FreshForResolution(signal, internalCase, s)
    /\ \E t \in WriteTimes : CaseBecomes(Transitioned(internalCase, "RESOLVED", s, t))
    /\ signal' = [signal EXCEPT !.status = "RESOLVED"]
    /\ alert' = IF alert = "none" THEN alert ELSE "resolved"
    /\ UNCHANGED <<outcome, monitor>>

Dispose ==
    /\ internalCase.status # "NONE"
    /\ internalCase.version < MaxVersion
    /\ \E t \in WriteTimes : CaseBecomes(Disposed(internalCase, t))
    /\ UNCHANGED <<outcome, monitor, signal, alert>>

AlertChange ==
    /\ \E to \in AlertStatus : AlertTransition(alert, to) /\ alert' = to
    /\ UNCHANGED <<outcome, monitor, signal, internalCase, caseEvents>>

(* Deleting the monitored domain cascades to its alerts.                   *)
DeleteMonitor ==
    /\ monitor.live
    /\ monitor' = [monitor EXCEPT !.live = FALSE]
    /\ alert' = "none"
    /\ UNCHANGED <<outcome, signal, internalCase, caseEvents>>

CreateMonitor ==
    /\ ~monitor.live
    /\ monitor.id < MaxMonitor
    /\ monitor' = [id |-> monitor.id + 1, live |-> TRUE]
    /\ UNCHANGED <<outcome, signal, internalCase, caseEvents, alert>>

Next ==
    \/ Collect
    \/ \E s \in DOMAIN outcome : Observe(s)
    \/ \E s \in DOMAIN outcome : Resolve(s)
    \/ Dispose
    \/ AlertChange
    \/ DeleteMonitor
    \/ CreateMonitor

Spec == Init /\ [][Next]_vars
=============================================================================
