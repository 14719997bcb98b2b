--------------------------- MODULE ConditionStore --------------------------
(***************************************************************************)
(* OperationalConditionService as the code runs it: every operation is a   *)
(* PostgreSQL transaction at READ COMMITTED, one statement per step.  A    *)
(* SELECT sees the committed rows; an UPDATE ... WHERE that matches a row  *)
(* another transaction has written waits for that transaction to end and   *)
(* then matches again; an INSERT waits likewise for another insert under   *)
(* the same unique key.  Writes reach the committed rows at the commit.    *)
(* A connection or the process may be lost at any step (Abort).            *)
(*                                                                         *)
(* Collector jobs run observe and resolveCase, operators (web and MCP) run *)
(* setCaseDisposition; any Worker may run any of them, one at a time.      *)
(***************************************************************************)
EXTENDS ConditionRows

CONSTANTS Worker,       \* concurrent clients of the database
          MaxAttempt,   \* attempts of observe (3 in the code)
          SerialResolves

(* FALSE is the code.  TRUE restricts the environment to one finalization  *)
(* at a time in the loop that resolves the cases of the domain: nothing in *)
(* the code ensures it, and some promises need it.                         *)
ASSUME StoreAssumption == MaxAttempt \in Nat \ {0} /\ SerialResolves \in BOOLEAN

VARIABLES outcome, monitor, signal, internalCase, caseEvents, alert,  \* committed
          pc,      \* pc[w]: the next statement of w
          job,     \* job[w]: the arguments of the operation w runs
          read,    \* read[w]: the rows w has selected
          write    \* write[w]: the rows w has written and not yet committed

rows == <<outcome, monitor, signal, internalCase, caseEvents, alert>>
locals == <<pc, job, read, write>>
vars == <<outcome, monitor, signal, internalCase, caseEvents, alert, pc, job, read, write>>

ObservePC == {"observe:signal", "observe:case", "observe:mark", "observe:reopen",
              "observe:alert", "observe:notify"}
ResolvePC == {"resolve:case", "resolve:signal", "resolve:transition",
              "resolve:mark", "resolve:alert", "resolve:close"}
DisposePC == {"dispose:case", "dispose:update"}
PC == {"idle", "commit"} \cup ObservePC \cup ResolvePC \cup DisposePC

(* In write[w] a row of status "NONE" or "none" is a row not written.      *)
JobOf(op, s, m, v, n) ==
    [op |-> op, snapshot |-> s, monitor |-> m, version |-> v, attempt |-> n]
NoJob == JobOf("none", 0, 0, 0, 0)
NoRows == [signal |-> NoSignal, case |-> NoCase, alert |-> "none"]

Job == [op : {"none", "observe", "resolve", "dispose"},
        snapshot : Nat, monitor : Nat, version : Nat, attempt : 0 .. MaxAttempt]
Rows == [signal : SignalRow, case : CaseRow, alert : AlertStatus]

TypeOK ==
    /\ outcome \in Seq(Outcome)
    /\ monitor \in MonitorRow
    /\ signal \in SignalRow
    /\ internalCase \in CaseRow
    /\ caseEvents \in Seq(CaseEvent)
    /\ alert \in AlertStatus
    /\ pc \in [Worker -> PC]
    /\ job \in [Worker -> Job]
    /\ read \in [Worker -> Rows]
    /\ write \in [Worker -> Rows]

Init ==
    /\ outcome = <<>>
    /\ monitor = [id |-> 1, live |-> TRUE]
    /\ signal = NoSignal
    /\ internalCase = NoCase
    /\ caseEvents = <<>>
    /\ alert = "none"
    /\ pc = [w \in Worker |-> "idle"]
    /\ job = [w \in Worker |-> NoJob]
    /\ read = [w \in Worker |-> NoRows]
    /\ write = [w \in Worker |-> NoRows]

Now == Len(outcome)
-----------------------------------------------------------------------------
(* The database.                                                           *)

Wrote(w, table) ==
    CASE table = "signal" -> write[w].signal # NoSignal
      [] table = "case" -> write[w].case # NoCase
      [] table = "alert" -> write[w].alert # "none"

(* No other transaction holds the row of the table.                        *)
Unlocked(w, table) == \A x \in Worker \ {w} : ~Wrote(x, table)

Goto(w, label) == pc' = [pc EXCEPT ![w] = label]

(* The transaction ends and the worker forgets the operation.              *)
Finish(w) ==
    /\ pc' = [pc EXCEPT ![w] = "idle"]
    /\ job' = [job EXCEPT ![w] = NoJob]
    /\ read' = [read EXCEPT ![w] = NoRows]
    /\ write' = [write EXCEPT ![w] = NoRows]

(* Rolled back by an error the code does not retry: the operation throws.  *)
Throw(w) == Finish(w) /\ UNCHANGED rows

(* Rolled back by 23505 or OPERATION_CONFLICT.  observe starts over while  *)
(* it has attempts left; resolveCase and setCaseDisposition throw.         *)
OneAttemptMore(w) == job[w].op = "observe" /\ job[w].attempt <= MaxAttempt  \* variant
MayRetry(w) == job[w].op = "observe" /\ job[w].attempt < MaxAttempt
Conflict(w) ==
    IF MayRetry(w)
    THEN /\ Goto(w, "observe:signal")
         /\ job' = [job EXCEPT ![w].attempt = @ + 1]
         /\ read' = [read EXCEPT ![w] = NoRows]
         /\ write' = [write EXCEPT ![w] = NoRows]
         /\ UNCHANGED rows
    ELSE Throw(w)

(* What the pending UPDATE or INSERT of w finds among the committed rows   *)
(* is no longer what w read: a compare-and-set that matches no row, or a   *)
(* unique index that already holds the key.                                *)
NeverMoved(w) == FALSE  \* variant
StatusMoved(w) ==  \* variant
    internalCase.status # read[w].case.status
SignalMoved(w) == signal # read[w].signal
CaseMoved(w) == \/ internalCase.status # read[w].case.status
                \/ internalCase.version # read[w].case.version
AlertMoved(w) == alert # read[w].alert

Commit(w) ==
    /\ pc[w] = "commit"
    /\ IF Wrote(w, "signal") THEN signal' = write[w].signal ELSE UNCHANGED signal
    /\ IF Wrote(w, "case")
       THEN /\ internalCase' = write[w].case
            /\ caseEvents' = Append(caseEvents, EventOf(read[w].case, write[w].case))
       ELSE UNCHANGED <<internalCase, caseEvents>>
    /\ IF Wrote(w, "alert") THEN alert' = write[w].alert ELSE UNCHANGED alert
    /\ Finish(w)
    /\ UNCHANGED <<outcome, monitor>>

Abort(w) ==
    /\ pc[w] # "idle"
    /\ Throw(w)
-----------------------------------------------------------------------------
(* observe(input): observeTransaction, attempted MaxAttempt times.         *)

StartObserve(w) ==
    /\ pc[w] = "idle"
    /\ monitor.live
    /\ \E s \in DOMAIN outcome :
         /\ outcome[s] = "FAULTY"
         /\ job' = [job EXCEPT ![w] = JobOf("observe", s, monitor.id, 0, 1)]
    /\ Goto(w, "observe:signal")
    /\ UNCHANGED <<rows, read, write>>

(* validateObservationOwnership, then the signal and its last snapshot.    *)
ObserveReadsSignal(w) ==
    /\ pc[w] = "observe:signal"
    /\ IF monitor = [id |-> job[w].monitor, live |-> TRUE]
          /\ NotOlder(signal, job[w].snapshot)
       THEN /\ read' = [read EXCEPT ![w].signal = signal]
            /\ Goto(w, "observe:case")
            /\ UNCHANGED <<rows, job, write>>
       ELSE Throw(w)

ObserveReadsCase(w) ==
    /\ pc[w] = "observe:case"
    /\ LET found == IF read[w].signal = NoSignal THEN NoCase ELSE internalCase IN
       IF NewerThanResolution(read[w].signal, found, job[w].snapshot)
       THEN /\ read' = [read EXCEPT ![w].case = found]
            /\ Goto(w, "observe:mark")
            /\ UNCHANGED <<rows, job, write>>
       ELSE Throw(w)

(* markObserved, or the insert of a new signal.                            *)
ObserveMarksSignal(w) ==
    /\ pc[w] = "observe:mark"
    /\ \/ /\ SignalMoved(w)
          /\ Conflict(w)
       \/ /\ ~SignalMoved(w)
          /\ Unlocked(w, "signal")
          /\ write' = [write EXCEPT ![w].signal =
                          [status |-> "ACTIVE", lastSeen |-> job[w].snapshot]]
          /\ Goto(w, "observe:reopen")
          /\ UNCHANGED <<rows, job, read>>

(* The case is created, reopened or, while it is open, left as it is.      *)
LeavesNoCase(c) == FALSE  \* variant
LeavesCase(c) == IsOpen(c)
ObserveOpensCase(w) ==
    LET c == read[w].case IN
    /\ pc[w] = "observe:reopen"
    /\ \/ /\ LeavesCase(c)
          /\ Goto(w, "observe:alert")
          /\ UNCHANGED <<rows, job, read, write>>
       \/ /\ ~LeavesCase(c)
          /\ CaseMoved(w)
          /\ Conflict(w)
       \/ /\ ~LeavesCase(c)
          /\ ~CaseMoved(w)
          /\ Unlocked(w, "case")
          /\ \/ /\ c.status = "NONE"
                /\ \E t \in job[w].snapshot .. Now :   \* now() is the start of the transaction
                     write' = [write EXCEPT ![w].case = OpenedCase(t)]
             \/ /\ c.status # "NONE"
                /\ MayTransition(c, "OPEN")
                /\ write' = [write EXCEPT ![w].case = Transitioned(c, "OPEN", 0, Now)]
          /\ Goto(w, "observe:alert")
          /\ UNCHANGED <<rows, job, read>>

ObserveReadsAlert(w) ==
    /\ pc[w] = "observe:alert"
    /\ read' = [read EXCEPT ![w].alert = alert]
    /\ Goto(w, IF alert \in {"none", "resolved"} THEN "observe:notify" ELSE "commit")
    /\ UNCHANGED <<rows, job, write>>

(* The alert is inserted, which needs its monitored_domains row, or set    *)
(* back to pending.                                                        *)
ObserveNotifies(w) ==
    /\ pc[w] = "observe:notify"
    /\ \/ /\ AlertMoved(w)
          /\ Conflict(w)
       \/ /\ ~AlertMoved(w)
          /\ alert = "none"
          /\ monitor # [id |-> job[w].monitor, live |-> TRUE]
          /\ Throw(w)
       \/ /\ ~AlertMoved(w)
          /\ alert = "none" => monitor = [id |-> job[w].monitor, live |-> TRUE]
          /\ Unlocked(w, "alert")
          /\ write' = [write EXCEPT ![w].alert = "pending"]
          /\ Goto(w, "commit")
          /\ UNCHANGED <<rows, job, read>>
-----------------------------------------------------------------------------
(* resolveCase(caseId, ...), called by the finalizer for a case it has     *)
(* listed as open and a snapshot it has evaluated as HEALTHY.              *)

StartResolve(w) ==
    /\ pc[w] = "idle"
    /\ IsOpen(internalCase)
    /\ SerialResolves => \A x \in Worker : job[x].op # "resolve"
    /\ \E s \in DOMAIN outcome :
         /\ outcome[s] = "HEALTHY"
         /\ job' = [job EXCEPT ![w] = JobOf("resolve", s, 0, 0, 0)]
    /\ Goto(w, "resolve:case")
    /\ UNCHANGED <<rows, read, write>>

ResolveReadsCase(w) ==
    /\ pc[w] = "resolve:case"
    /\ read' = [read EXCEPT ![w].case = internalCase]
    /\ Goto(w, "resolve:signal")
    /\ UNCHANGED <<rows, job, write>>

ResolveReadsSignal(w) ==
    /\ pc[w] = "resolve:signal"
    /\ IF FreshForResolution(signal, read[w].case, job[w].snapshot)
       THEN /\ read' = [read EXCEPT ![w].signal = signal]
            /\ Goto(w, "resolve:transition")
            /\ UNCHANGED <<rows, job, write>>
       ELSE Throw(w)

(* transition(case, RESOLVED): from RESOLVED to RESOLVED it returns the    *)
(* row it was given, without a write.                                      *)
ResolveTransitionsCase(w) ==
    LET c == read[w].case IN
    /\ pc[w] = "resolve:transition"
    /\ MayTransition(c, "RESOLVED")
    /\ \/ /\ ~TransitionWrites(c, "RESOLVED")
          /\ Goto(w, "resolve:mark")
          /\ UNCHANGED <<rows, job, read, write>>
       \/ /\ TransitionWrites(c, "RESOLVED")
          /\ CaseMoved(w)
          /\ Conflict(w)
       \/ /\ TransitionWrites(c, "RESOLVED")
          /\ ~CaseMoved(w)
          /\ Unlocked(w, "case")
          /\ write' = [write EXCEPT ![w].case =
                          Transitioned(c, "RESOLVED", job[w].snapshot, Now)]
          /\ Goto(w, "resolve:mark")
          /\ UNCHANGED <<rows, job, read>>

ResolveMarksSignal(w) ==
    /\ pc[w] = "resolve:mark"
    /\ \/ /\ SignalMoved(w)
          /\ Conflict(w)
       \/ /\ ~SignalMoved(w)
          /\ Unlocked(w, "signal")
          /\ write' = [write EXCEPT ![w].signal =
                          [read[w].signal EXCEPT !.status = "RESOLVED"]]
          /\ Goto(w, "resolve:alert")
          /\ UNCHANGED <<rows, job, read>>

ResolveReadsAlert(w) ==
    /\ pc[w] = "resolve:alert"
    /\ read' = [read EXCEPT ![w].alert = alert]
    /\ Goto(w, IF alert \in {"none", "resolved"} THEN "commit" ELSE "resolve:close")
    /\ UNCHANGED <<rows, job, write>>

ResolveClosesAlert(w) ==
    /\ pc[w] = "resolve:close"
    /\ \/ /\ AlertMoved(w)
          /\ Conflict(w)
       \/ /\ ~AlertMoved(w)
          /\ Unlocked(w, "alert")
          /\ write' = [write EXCEPT ![w].alert = "resolved"]
          /\ Goto(w, "commit")
          /\ UNCHANGED <<rows, job, read>>
-----------------------------------------------------------------------------
(* setCaseDisposition(input), by an operator who saw the current version.  *)

StartDispose(w) ==
    /\ pc[w] = "idle"
    /\ internalCase.status # "NONE"
    /\ internalCase.version < MaxVersion
    /\ job' = [job EXCEPT ![w] = JobOf("dispose", 0, 0, internalCase.version, 0)]
    /\ Goto(w, "dispose:case")
    /\ UNCHANGED <<rows, read, write>>

DisposeReadsCase(w) ==
    /\ pc[w] = "dispose:case"
    /\ IF internalCase.version = job[w].version
       THEN /\ read' = [read EXCEPT ![w].case = internalCase]
            /\ Goto(w, "dispose:update")
            /\ UNCHANGED <<rows, job, write>>
       ELSE Throw(w)

DisposeUpdatesCase(w) ==
    /\ pc[w] = "dispose:update"
    /\ \/ /\ CaseMoved(w)
          /\ Conflict(w)
       \/ /\ ~CaseMoved(w)
          /\ Unlocked(w, "case")
          /\ write' = [write EXCEPT ![w].case = Disposed(read[w].case, Now)]
          /\ Goto(w, "commit")
          /\ UNCHANGED <<rows, job, read>>
-----------------------------------------------------------------------------
(* The rest of the program, as far as it touches these rows.               *)

Collect ==
    /\ Now < MaxSnapshot
    /\ \E o \in Outcome : outcome' = Append(outcome, o)
    /\ UNCHANGED <<monitor, signal, internalCase, caseEvents, alert, locals>>

NoAlertLock == \A w \in Worker : ~Wrote(w, "alert")

AlertChange ==
    /\ NoAlertLock
    /\ \E to \in AlertStatus : AlertTransition(alert, to) /\ alert' = to
    /\ UNCHANGED <<outcome, monitor, signal, internalCase, caseEvents, locals>>

(* The cascade to alerts waits for the transactions that hold an alert, or *)
(* that inserted one and so share-lock the monitored_domains row.          *)
DeleteMonitor ==
    /\ monitor.live
    /\ NoAlertLock
    /\ monitor' = [monitor EXCEPT !.live = FALSE]
    /\ alert' = "none"
    /\ UNCHANGED <<outcome, signal, internalCase, caseEvents, locals>>

CreateMonitor ==
    /\ ~monitor.live
    /\ monitor.id < MaxMonitor
    /\ monitor' = [id |-> monitor.id + 1, live |-> TRUE]
    /\ UNCHANGED <<outcome, signal, internalCase, caseEvents, alert, locals>>
-----------------------------------------------------------------------------
ObserveStep(w) ==
    \/ StartObserve(w)
    \/ ObserveReadsSignal(w)
    \/ ObserveReadsCase(w)
    \/ ObserveMarksSignal(w)
    \/ ObserveOpensCase(w)
    \/ ObserveReadsAlert(w)
    \/ ObserveNotifies(w)

ResolveStep(w) ==
    \/ StartResolve(w)
    \/ ResolveReadsCase(w)
    \/ ResolveReadsSignal(w)
    \/ ResolveTransitionsCase(w)
    \/ ResolveMarksSignal(w)
    \/ ResolveReadsAlert(w)
    \/ ResolveClosesAlert(w)

DisposeStep(w) ==
    \/ StartDispose(w)
    \/ DisposeReadsCase(w)
    \/ DisposeUpdatesCase(w)

Next ==
    \/ \E w \in Worker : ObserveStep(w)
    \/ \E w \in Worker : ResolveStep(w)
    \/ \E w \in Worker : DisposeStep(w)
    \/ \E w \in Worker : Commit(w)
    \/ \E w \in Worker : Abort(w)
    \/ Collect
    \/ AlertChange
    \/ DeleteMonitor
    \/ CreateMonitor

Spec == Init /\ [][Next]_vars
-----------------------------------------------------------------------------
(* Properties of every environment.                                        *)

\* The canonical alert, while the monitored domain still has one, is resolved
\* exactly when the signal is: no interleaving of observe, resolveCase, delivery
\* and operators leaves an active signal with a resolved alert or the reverse.
AlertFollowsSignal ==
    alert # "none" => (alert = "resolved" <=> signal.status = "RESOLVED")

\* The event log accounts for every change of the case: event i+1 starts where
\* event i ended, the last one ends at the stored status and there are as many
\* as the version says, so no update of a case is ever lost or overwritten.
CaseHistoryIsAChain ==
    /\ Len(caseEvents) = internalCase.version
    /\ \A i \in 1 .. Len(caseEvents) :
          /\ caseEvents[i].from = IF i = 1 THEN "NONE" ELSE caseEvents[i - 1].to
          /\ i = Len(caseEvents) => caseEvents[i].to = internalCase.status

\* A transaction waits for another one when the row its pending statement
\* matches is held by it.  Locks never form a cycle of waiting transactions,
\* although observe takes signal, case, alert and resolveCase case, signal, alert.
WaitsForSignal(w) == pc[w] \in {"observe:mark", "resolve:mark"} /\ ~SignalMoved(w)
WaitsForCase(w) ==
    /\ \/ pc[w] = "observe:reopen" /\ ~LeavesCase(read[w].case)
       \/ pc[w] = "resolve:transition" /\ TransitionWrites(read[w].case, "RESOLVED")
       \/ pc[w] = "dispose:update"
    /\ ~CaseMoved(w)
WaitsForAlert(w) == pc[w] \in {"observe:notify", "resolve:close"} /\ ~AlertMoved(w)
WaitsFor(w, x) ==
    /\ w # x
    /\ \/ WaitsForSignal(w) /\ Wrote(x, "signal")
       \/ WaitsForCase(w) /\ Wrote(x, "case")
       \/ WaitsForAlert(w) /\ Wrote(x, "alert")
LocksNeverCycle ==
    \A cycle \in (SUBSET Worker) \ {{}} :
        \E w \in cycle : \A x \in cycle : ~WaitsFor(w, x)

\* Out-of-order finalizations and competing transactions never take a signal
\* back: its last snapshot only grows, and a resolved signal turns active again
\* only with a strictly newer snapshot.
SignalMovesForward ==
    [][\/ signal.lastSeen < signal'.lastSeen
       \/ /\ signal.lastSeen = signal'.lastSeen
          /\ signal.status = "RESOLVED" => signal'.status = "RESOLVED"]_vars

\* A case turns RESOLVED only together with its signal and on a HEALTHY snapshot
\* newer than the last one that showed the fault.
CasesResolveOnFreshEvidence ==
    [][internalCase.status # "RESOLVED" /\ internalCase'.status = "RESOLVED" =>
          /\ signal'.status = "RESOLVED"
          /\ signal'.lastSeen < internalCase'.verification
          /\ outcome[internalCase'.verification] = "HEALTHY"]_vars
\* The alert moves as AlertLifecycle says: although a transaction decides on the
\* alert in one statement and commits it later, no observation makes an alert
\* pending again that was sent or that an operator has answered in between, and
\* no resolution brings back one that is gone.
Alerts == INSTANCE AlertLifecycle
ImplementsAlertLifecycle == Alerts!Spec
-----------------------------------------------------------------------------
(* Properties that need SerialResolves.                                    *)

\* Signal and case are resolved and reopened together: neither transaction ever
\* commits one without the other, whatever it read before it was overtaken.
SignalAndCaseAgree ==
    /\ signal.status = "NONE" <=> internalCase.status = "NONE"
    /\ signal.status = "RESOLVED" <=> internalCase.status = "RESOLVED"

\* A resolved case comes back only for a fault in a snapshot newer than the one
\* that resolved it: an old snapshot finalized late never undoes a resolution.
OnlyNewerFaultsReopen ==
    [][internalCase.status = "RESOLVED" /\ internalCase'.status = "OPEN" =>
          internalCase.verification < signal'.lastSeen]_vars

\* The transactions implement the atomic operations of ConditionLifecycle.
Lifecycle == INSTANCE ConditionLifecycle
ImplementsLifecycle == Lifecycle!Spec
=============================================================================
