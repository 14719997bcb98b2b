------------------------ MODULE ConditionStoreProofs -----------------------
(***************************************************************************)
(* Theorems about ConditionStore for every value of its constants.         *)
(***************************************************************************)
EXTENDS ConditionStore, TLAPS

(* The rows the functions of ConditionRows compute are rows.               *)
LEMMA RowTypes ==
    ASSUME NEW c \in CaseRow, NEW t \in Nat, NEW s \in Nat,
           NEW to \in CaseStatus
    PROVE  /\ Transitioned(c, to, s, t) \in CaseRow
           /\ Disposed(c, t) \in CaseRow
           /\ OpenedCase(t) \in CaseRow
  <1>1. ASSUME NEW status \in CaseStatus, NEW v \in Nat
        PROVE  Transitioned(c, status, v, t) \in CaseRow
    <2>1. (CASE status = "RESOLVED" -> v
             [] status = "OPEN" -> 0
             [] OTHER -> c.verification) \in Nat
      BY DEF CaseRow
    <2>2. c.version + 1 \in Nat BY DEF CaseRow
    <2> QED BY <2>1, <2>2 DEF Transitioned, CaseRow
  <1>2. Disposed(c, t) \in CaseRow
    <2>1. CASE c.status = "OPEN"
      <3>1. "ACKNOWLEDGED" \in CaseStatus /\ 0 \in Nat BY DEF CaseStatus
      <3> QED BY <1>1, <2>1, <3>1 DEF Disposed
    <2>2. CASE c.status # "OPEN"
      <3> DEFINE bumped == [c EXCEPT !.version = c.version + 1]
      <3>1. bumped \in CaseRow BY DEF CaseRow
      <3>2. [bumped EXCEPT !.updatedAt = t] \in CaseRow BY <3>1 DEF CaseRow
      <3> QED BY <2>2, <3>2 DEF Disposed
    <2> QED BY <2>1, <2>2
  <1>3. OpenedCase(t) \in CaseRow BY DEF OpenedCase, CaseRow, CaseStatus
  <1> QED BY <1>1, <1>2, <1>3

(* The empty rows and the empty job have their types.                      *)
LEMMA NoRowTypes ==
    /\ NoSignal \in SignalRow
    /\ NoCase \in CaseRow
    /\ NoRows \in Rows
    /\ NoJob \in Job
  BY StoreAssumption
  DEF NoSignal, NoCase, NoRows, NoJob, JobOf, SignalRow, CaseRow, Rows, Job,
      SignalStatus, CaseStatus, AlertStatus

(* Ending a transaction, with or without its writes, keeps the types of the *)
(* workers' variables.                                                      *)
LEMMA FinishType ==
    ASSUME TypeOK, NEW w \in Worker, Finish(w)
    PROVE  /\ pc' \in [Worker -> PC]
           /\ job' \in [Worker -> Job]
           /\ read' \in [Worker -> Rows]
           /\ write' \in [Worker -> Rows]
  BY NoRowTypes DEF TypeOK, Finish, PC

(* A transaction rolled back for good keeps the types.                     *)
LEMMA ThrowType ==
    ASSUME TypeOK, NEW w \in Worker, Throw(w)
    PROVE  TypeOK'
  BY FinishType DEF TypeOK, Throw, rows

(* A transaction rolled back by a conflict keeps the types: the attempt    *)
(* after the last one is never counted.                                    *)
LEMMA ConflictType ==
    ASSUME TypeOK, NEW w \in Worker, Conflict(w)
    PROVE  TypeOK'
  <1>1. CASE MayRetry(w)
    <2>1. job[w] \in Job BY DEF TypeOK
    <2>2. [job[w] EXCEPT !.attempt = @ + 1] \in Job
      BY <1>1, <2>1, StoreAssumption DEF Job, MayRetry
    <2>3. job' \in [Worker -> Job]
      BY <1>1, <2>2 DEF TypeOK, Conflict
    <2>4. pc' \in [Worker -> PC]
      BY <1>1 DEF TypeOK, Conflict, Goto, PC, ObservePC
    <2>5. read' \in [Worker -> Rows] /\ write' \in [Worker -> Rows]
      BY <1>1, NoRowTypes DEF TypeOK, Conflict
    <2> QED BY <1>1, <2>3, <2>4, <2>5 DEF TypeOK, Conflict, rows
  <1>2. CASE ~MayRetry(w)
    BY <1>2, ThrowType DEF Conflict
  <1> QED BY <1>1, <1>2

(* A step to the next statement keeps pc a function to labels.             *)
LEMMA GotoType ==
    ASSUME TypeOK, NEW w \in Worker, NEW label \in PC, Goto(w, label)
    PROVE  pc' \in [Worker -> PC]
  BY DEF TypeOK, Goto

(* The initial state is well typed.                                        *)
LEMMA TypeInit == Init => TypeOK
  BY NoRowTypes
  DEF Init, TypeOK, MonitorRow, SignalRow, AlertStatus, PC

(* Every statement of observe keeps the types.                             *)
LEMMA TypeObserve ==
    ASSUME TypeOK, NEW w \in Worker, ObserveStep(w)
    PROVE  TypeOK'
  <1>1. CASE StartObserve(w)
    <2>1. PICK s \in DOMAIN outcome :
            job' = [job EXCEPT ![w] = JobOf("observe", s, monitor.id, 0, 1)]
      BY <1>1 DEF StartObserve
    <2>2. s \in Nat BY DEF TypeOK
    <2>3. JobOf("observe", s, monitor.id, 0, 1) \in Job
      BY <2>2, StoreAssumption DEF TypeOK, MonitorRow, JobOf, Job
    <2>4. job' \in [Worker -> Job] BY <2>1, <2>3 DEF TypeOK
    <2> QED BY <1>1, <2>4, GotoType DEF StartObserve, TypeOK, rows, PC, ObservePC
  <1>2. CASE ObserveReadsSignal(w)
    <2>1. CASE Throw(w) BY <2>1, ThrowType
    <2>2. CASE ~Throw(w)
      <3>1. read' = [read EXCEPT ![w].signal = signal] /\ Goto(w, "observe:case")
            /\ UNCHANGED <<rows, job, write>>
        BY <1>2, <2>2 DEF ObserveReadsSignal
      <3>2. [read[w] EXCEPT !.signal = signal] \in Rows BY DEF TypeOK, Rows
      <3>3. read' \in [Worker -> Rows] BY <3>1, <3>2 DEF TypeOK
      <3> QED BY <3>1, <3>3, GotoType DEF TypeOK, rows, PC, ObservePC
    <2> QED BY <2>1, <2>2
  <1>3. CASE ObserveReadsCase(w)
    <2>1. CASE Throw(w) BY <2>1, ThrowType
    <2>2. CASE ~Throw(w)
      <3>1. PICK found \in {NoCase, internalCase} :
              /\ read' = [read EXCEPT ![w].case = found]
              /\ Goto(w, "observe:mark")
              /\ UNCHANGED <<rows, job, write>>
        BY <1>3, <2>2 DEF ObserveReadsCase
      <3>2. [read[w] EXCEPT !.case = found] \in Rows
        BY NoRowTypes DEF TypeOK, Rows
      <3>3. read' \in [Worker -> Rows] BY <3>1, <3>2 DEF TypeOK
      <3> QED BY <3>1, <3>3, GotoType DEF TypeOK, rows, PC, ObservePC
    <2> QED BY <2>1, <2>2
  <1>4. CASE ObserveMarksSignal(w)
    <2>1. CASE Conflict(w) BY <2>1, ConflictType
    <2>2. CASE ~Conflict(w)
      <3> DEFINE marked == [status |-> "ACTIVE", lastSeen |-> job[w].snapshot]
      <3>1. write' = [write EXCEPT ![w].signal = marked] /\ Goto(w, "observe:reopen")
            /\ UNCHANGED <<rows, job, read>>
        BY <1>4, <2>2 DEF ObserveMarksSignal
      <3>2. marked \in SignalRow BY DEF TypeOK, Job, SignalRow, SignalStatus
      <3>3. [write[w] EXCEPT !.signal = marked] \in Rows BY <3>2 DEF TypeOK, Rows
      <3>4. write' \in [Worker -> Rows] BY <3>1, <3>3 DEF TypeOK
      <3> QED BY <3>1, <3>4, GotoType DEF TypeOK, rows, PC, ObservePC
    <2> QED BY <2>1, <2>2
  <1>5. CASE ObserveOpensCase(w)
    <2>1. CASE Conflict(w) BY <2>1, ConflictType
    <2>2. CASE ~Conflict(w)
      <3>0. job[w].snapshot .. Now \subseteq Nat BY DEF TypeOK, Job, Now
      <3>1. /\ UNCHANGED <<rows, job, read>>
            /\ Goto(w, "observe:alert")
            /\ \/ write' = write
               \/ \E t \in job[w].snapshot .. Now :
                    write' = [write EXCEPT ![w].case = OpenedCase(t)]
               \/ write' = [write EXCEPT ![w].case =
                                Transitioned(read[w].case, "OPEN", 0, Now)]
        BY <1>5, <2>2 DEF ObserveOpensCase
      <3>2. read[w].case \in CaseRow /\ Now \in Nat /\ "OPEN" \in CaseStatus
        BY DEF TypeOK, Rows, Now, CaseStatus
      <3>3. ASSUME NEW row \in CaseRow
            PROVE  [write EXCEPT ![w].case = row] \in [Worker -> Rows]
        <4>1. [write[w] EXCEPT !.case = row] \in Rows BY DEF TypeOK, Rows
        <4> QED BY <4>1 DEF TypeOK
      <3>4. \A t \in Nat : OpenedCase(t) \in CaseRow
        BY <3>2, RowTypes
      <3>5. Transitioned(read[w].case, "OPEN", 0, Now) \in CaseRow
        BY <3>2, RowTypes
      <3>6. write' \in [Worker -> Rows]
        BY <3>0, <3>1, <3>3, <3>4, <3>5 DEF TypeOK
      <3> QED BY <3>1, <3>6, GotoType DEF TypeOK, rows, PC, ObservePC
    <2> QED BY <2>1, <2>2
  <1>6. CASE ObserveReadsAlert(w)
    <2>1. [read[w] EXCEPT !.alert = alert] \in Rows BY DEF TypeOK, Rows
    <2>2. read' \in [Worker -> Rows] BY <1>6, <2>1 DEF TypeOK, ObserveReadsAlert
    <2> QED BY <1>6, <2>2, GotoType DEF ObserveReadsAlert, TypeOK, rows, PC, ObservePC
  <1>7. CASE ObserveNotifies(w)
    <2>1. CASE Conflict(w) BY <2>1, ConflictType
    <2>2. CASE Throw(w) BY <2>2, ThrowType
    <2>3. CASE ~Conflict(w) /\ ~Throw(w)
      <3>1. write' = [write EXCEPT ![w].alert = "pending"] /\ Goto(w, "commit")
            /\ UNCHANGED <<rows, job, read>>
        BY <1>7, <2>3 DEF ObserveNotifies
      <3>2. [write[w] EXCEPT !.alert = "pending"] \in Rows
        BY DEF TypeOK, Rows, AlertStatus
      <3>3. write' \in [Worker -> Rows] BY <3>1, <3>2 DEF TypeOK
      <3> QED BY <3>1, <3>3, GotoType DEF TypeOK, rows, PC
    <2> QED BY <2>1, <2>2, <2>3
  <1> QED BY <1>1, <1>2, <1>3, <1>4, <1>5, <1>6, <1>7 DEF ObserveStep

(* Every statement of resolveCase keeps the types.                         *)
LEMMA TypeResolve ==
    ASSUME TypeOK, NEW w \in Worker, ResolveStep(w)
    PROVE  TypeOK'
  <1>0. ASSUME NEW row \in CaseRow
        PROVE  [write EXCEPT ![w].case = row] \in [Worker -> Rows]
    <2>1. [write[w] EXCEPT !.case = row] \in Rows BY DEF TypeOK, Rows
    <2> QED BY <2>1 DEF TypeOK
  <1>1. CASE StartResolve(w)
    <2>1. PICK s \in DOMAIN outcome :
            job' = [job EXCEPT ![w] = JobOf("resolve", s, 0, 0, 0)]
      BY <1>1 DEF StartResolve
    <2>2. s \in Nat BY DEF TypeOK
    <2>3. JobOf("resolve", s, 0, 0, 0) \in Job
      BY <2>2, StoreAssumption DEF JobOf, Job
    <2>4. job' \in [Worker -> Job] BY <2>1, <2>3 DEF TypeOK
    <2> QED BY <1>1, <2>4, GotoType DEF StartResolve, TypeOK, rows, PC, ResolvePC
  <1>2. CASE ResolveReadsCase(w)
    <2>1. [read[w] EXCEPT !.case = internalCase] \in Rows BY DEF TypeOK, Rows
    <2>2. read' \in [Worker -> Rows] BY <1>2, <2>1 DEF TypeOK, ResolveReadsCase
    <2> QED BY <1>2, <2>2, GotoType DEF ResolveReadsCase, TypeOK, rows, PC, ResolvePC
  <1>3. CASE ResolveReadsSignal(w)
    <2>1. CASE Throw(w) BY <2>1, ThrowType
    <2>2. CASE ~Throw(w)
      <3>1. read' = [read EXCEPT ![w].signal = signal] /\ Goto(w, "resolve:transition")
            /\ UNCHANGED <<rows, job, write>>
        BY <1>3, <2>2 DEF ResolveReadsSignal
      <3>2. [read[w] EXCEPT !.signal = signal] \in Rows BY DEF TypeOK, Rows
      <3>3. read' \in [Worker -> Rows] BY <3>1, <3>2 DEF TypeOK
      <3> QED BY <3>1, <3>3, GotoType DEF TypeOK, rows, PC, ResolvePC
    <2> QED BY <2>1, <2>2
  <1>4. CASE ResolveTransitionsCase(w)
    <2>1. CASE Conflict(w) BY <2>1, ConflictType
    <2>2. CASE ~Conflict(w)
      <3> DEFINE row == Transitioned(read[w].case, "RESOLVED", job[w].snapshot, Now)
      <3>1. /\ UNCHANGED <<rows, job, read>>
            /\ Goto(w, "resolve:mark")
            /\ \/ write' = write
               \/ write' = [write EXCEPT ![w].case = row]
        BY <1>4, <2>2 DEF ResolveTransitionsCase
      <3>2. /\ read[w].case \in CaseRow /\ job[w].snapshot \in Nat
            /\ Now \in Nat /\ "RESOLVED" \in CaseStatus
        BY DEF TypeOK, Rows, Job, Now, CaseStatus
      <3>3. row \in CaseRow BY <3>2, RowTypes
      <3>4. write' \in [Worker -> Rows] BY <1>0, <3>1, <3>3 DEF TypeOK
      <3> QED BY <3>1, <3>4, GotoType DEF TypeOK, rows, PC, ResolvePC
    <2> QED BY <2>1, <2>2
  <1>5. CASE ResolveMarksSignal(w)
    <2>1. CASE Conflict(w) BY <2>1, ConflictType
    <2>2. CASE ~Conflict(w)
      <3> DEFINE marked == [read[w].signal EXCEPT !.status = "RESOLVED"]
      <3>1. write' = [write EXCEPT ![w].signal = marked] /\ Goto(w, "resolve:alert")
            /\ UNCHANGED <<rows, job, read>>
        BY <1>5, <2>2 DEF ResolveMarksSignal
      <3>2. marked \in SignalRow BY DEF TypeOK, Rows, SignalRow, SignalStatus
      <3>3. [write[w] EXCEPT !.signal = marked] \in Rows BY <3>2 DEF TypeOK, Rows
      <3>4. write' \in [Worker -> Rows] BY <3>1, <3>3 DEF TypeOK
      <3> QED BY <3>1, <3>4, GotoType DEF TypeOK, rows, PC, ResolvePC
    <2> QED BY <2>1, <2>2
  <1>6. CASE ResolveReadsAlert(w)
    <2>1. [read[w] EXCEPT !.alert = alert] \in Rows BY DEF TypeOK, Rows
    <2>2. read' \in [Worker -> Rows] BY <1>6, <2>1 DEF TypeOK, ResolveReadsAlert
    <2> QED BY <1>6, <2>2, GotoType DEF ResolveReadsAlert, TypeOK, rows, PC, ResolvePC
  <1>7. CASE ResolveClosesAlert(w)
    <2>1. CASE Conflict(w) BY <2>1, ConflictType
    <2>2. CASE ~Conflict(w)
      <3>1. write' = [write EXCEPT ![w].alert = "resolved"] /\ Goto(w, "commit")
            /\ UNCHANGED <<rows, job, read>>
        BY <1>7, <2>2 DEF ResolveClosesAlert
      <3>2. [write[w] EXCEPT !.alert = "resolved"] \in Rows
        BY DEF TypeOK, Rows, AlertStatus
      <3>3. write' \in [Worker -> Rows] BY <3>1, <3>2 DEF TypeOK
      <3> QED BY <3>1, <3>3, GotoType DEF TypeOK, rows, PC
    <2> QED BY <2>1, <2>2
  <1> QED BY <1>1, <1>2, <1>3, <1>4, <1>5, <1>6, <1>7 DEF ResolveStep

(* Every statement of setCaseDisposition keeps the types.                  *)
LEMMA TypeDispose ==
    ASSUME TypeOK, NEW w \in Worker, DisposeStep(w)
    PROVE  TypeOK'
  <1>1. CASE StartDispose(w)
    <2>1. JobOf("dispose", 0, 0, internalCase.version, 0) \in Job
      BY StoreAssumption DEF TypeOK, CaseRow, JobOf, Job
    <2>2. job' \in [Worker -> Job] BY <1>1, <2>1 DEF TypeOK, StartDispose
    <2> QED BY <1>1, <2>2, GotoType DEF StartDispose, TypeOK, rows, PC, DisposePC
  <1>2. CASE DisposeReadsCase(w)
    <2>1. CASE Throw(w) BY <2>1, ThrowType
    <2>2. CASE ~Throw(w)
      <3>1. read' = [read EXCEPT ![w].case = internalCase] /\ Goto(w, "dispose:update")
            /\ UNCHANGED <<rows, job, write>>
        BY <1>2, <2>2 DEF DisposeReadsCase
      <3>2. [read[w] EXCEPT !.case = internalCase] \in Rows BY DEF TypeOK, Rows
      <3>3. read' \in [Worker -> Rows] BY <3>1, <3>2 DEF TypeOK
      <3> QED BY <3>1, <3>3, GotoType DEF TypeOK, rows, PC, DisposePC
    <2> QED BY <2>1, <2>2
  <1>3. CASE DisposeUpdatesCase(w)
    <2>1. CASE Conflict(w) BY <2>1, ConflictType
    <2>2. CASE ~Conflict(w)
      <3> DEFINE row == Disposed(read[w].case, Now)
      <3>1. write' = [write EXCEPT ![w].case = row] /\ Goto(w, "commit")
            /\ UNCHANGED <<rows, job, read>>
        BY <1>3, <2>2 DEF DisposeUpdatesCase
      <3>2. read[w].case \in CaseRow /\ Now \in Nat /\ 0 \in Nat /\ "OPEN" \in CaseStatus
        BY DEF TypeOK, Rows, Now, CaseStatus
      <3>3. row \in CaseRow BY <3>2, RowTypes
      <3>4. [write[w] EXCEPT !.case = row] \in Rows BY <3>3 DEF TypeOK, Rows
      <3>5. write' \in [Worker -> Rows] BY <3>1, <3>4 DEF TypeOK
      <3> QED BY <3>1, <3>5, GotoType DEF TypeOK, rows, PC
    <2> QED BY <2>1, <2>2
  <1> QED BY <1>1, <1>2, <1>3 DEF DisposeStep

(* Commit and Abort keep the types.                                        *)
LEMMA TypeEnd ==
    ASSUME TypeOK, NEW w \in Worker, Commit(w) \/ Abort(w)
    PROVE  TypeOK'
  <1>1. CASE Abort(w) BY <1>1, ThrowType DEF Abort
  <1>2. CASE Commit(w)
    <2>1. write[w] \in Rows /\ read[w] \in Rows BY DEF TypeOK
    <2>2. signal' \in SignalRow BY <1>2, <2>1 DEF Commit, TypeOK, Rows
    <2>3. internalCase' \in CaseRow BY <1>2, <2>1 DEF Commit, TypeOK, Rows
    <2>4. alert' \in AlertStatus BY <1>2, <2>1 DEF Commit, TypeOK, Rows
    <2>5. EventOf(read[w].case, write[w].case) \in CaseEvent
      BY <2>1 DEF EventOf, CaseEvent, Rows, CaseRow
    <2>6. caseEvents' \in Seq(CaseEvent)
      <3>1. \/ caseEvents' = caseEvents
            \/ caseEvents' = Append(caseEvents, EventOf(read[w].case, write[w].case))
        BY <1>2 DEF Commit
      <3>2. caseEvents \in Seq(CaseEvent) BY DEF TypeOK
      <3> QED BY <2>5, <3>1, <3>2
    <2> QED BY <1>2, <2>2, <2>3, <2>4, <2>6, FinishType DEF Commit, TypeOK
  <1> QED BY <1>1, <1>2

(* Collection, delivery, operators and monitors keep the types.            *)
LEMMA TypeEnvironment ==
    ASSUME TypeOK, Collect \/ AlertChange \/ DeleteMonitor \/ CreateMonitor
    PROVE  TypeOK'
  <1>1. CASE Collect BY <1>1 DEF Collect, TypeOK, locals
  <1>2. CASE AlertChange BY <1>2 DEF AlertChange, TypeOK, locals
  <1>3. CASE DeleteMonitor
    BY <1>3 DEF DeleteMonitor, TypeOK, locals, MonitorRow, AlertStatus
  <1>4. CASE CreateMonitor BY <1>4 DEF CreateMonitor, TypeOK, locals, MonitorRow
  <1> QED BY <1>1, <1>2, <1>3, <1>4

(* Every reachable state is well typed, whatever the number of workers,     *)
(* snapshots, versions and attempts: in particular observe never starts an  *)
(* attempt beyond MaxAttempt.                                               *)
THEOREM TypeCorrect == Spec => []TypeOK
  <1>1. Init => TypeOK BY TypeInit
  <1>2. TypeOK /\ [Next]_vars => TypeOK'
    <2> SUFFICES ASSUME TypeOK, [Next]_vars PROVE TypeOK'
      OBVIOUS
    <2>1. CASE UNCHANGED vars BY <2>1 DEF vars, TypeOK
    <2>2. CASE Next BY <2>2, TypeObserve, TypeResolve, TypeDispose, TypeEnd,
                       TypeEnvironment DEF Next
    <2> QED BY <2>1, <2>2
  <1> QED BY <1>1, <1>2, PTL DEF Spec
-----------------------------------------------------------------------------
(* The inductive invariant.  One part per kind of fact a transaction        *)
(* carries from statement to statement.                                     *)

HoldsSignalPC == {"observe:reopen", "observe:alert", "observe:notify",
                  "resolve:alert", "resolve:close"}
HoldsCasePC == {"observe:alert", "observe:notify", "resolve:mark",
                "resolve:alert", "resolve:close", "commit"}

(* What is locked follows from where the transaction is: observe and        *)
(* resolveCase hold the signal from their mark on, and the alert is always  *)
(* the last row taken.                                                      *)
LocksFollowProgress(w) ==
    /\ pc[w] \in ObservePC => job[w].op = "observe"
    /\ pc[w] \in ResolvePC => job[w].op = "resolve"
    /\ pc[w] \in DisposePC => job[w].op = "dispose"
    /\ pc[w] = "commit" => job[w].op \in {"observe", "resolve", "dispose"}
    /\ Wrote(w, "signal") <=> \/ pc[w] \in HoldsSignalPC
                              \/ pc[w] = "commit" /\ job[w].op # "dispose"
    /\ Wrote(w, "case") => pc[w] \in HoldsCasePC
    /\ Wrote(w, "alert") => pc[w] = "commit" /\ job[w].op # "dispose"

(* A row that is locked is still the row that was read.                     *)
LockedRowsAreCurrent(w) ==
    /\ Wrote(w, "signal") => ~SignalMoved(w)
    /\ Wrote(w, "case") => ~CaseMoved(w)
    /\ Wrote(w, "alert") => ~AlertMoved(w)

(* What observe has checked and written.                                    *)
ObserveFacts(w) ==
    job[w].op = "observe" =>
        /\ pc[w] # "observe:signal" => NotOlder(read[w].signal, job[w].snapshot)
        /\ pc[w] \notin {"observe:signal", "observe:case"} =>
              NewerThanResolution(read[w].signal, read[w].case, job[w].snapshot)
        /\ Wrote(w, "signal") =>
              write[w].signal = [status |-> "ACTIVE", lastSeen |-> job[w].snapshot]
        /\ Wrote(w, "case") => /\ write[w].case.status = "OPEN"
                               /\ ~IsOpen(read[w].case)
        /\ Wrote(w, "alert") => write[w].alert = "pending"
        /\ pc[w] = "commit" /\ ~Wrote(w, "alert") => alert # "resolved"

(* What resolveCase has checked and written.                                *)
ResolveFacts(w) ==
    job[w].op = "resolve" =>
        /\ job[w].snapshot \in DOMAIN outcome
        /\ outcome[job[w].snapshot] = "HEALTHY"
        /\ pc[w] \notin {"resolve:case", "resolve:signal"} =>
              FreshForResolution(read[w].signal, read[w].case, job[w].snapshot)
        /\ Wrote(w, "signal") =>
              write[w].signal = [status |-> "RESOLVED", lastSeen |-> read[w].signal.lastSeen]
        /\ Wrote(w, "case") => /\ write[w].case.status = "RESOLVED"
                               /\ write[w].case.verification = job[w].snapshot
                               /\ IsOpen(read[w].case)
        /\ Wrote(w, "alert") => write[w].alert = "resolved"
        /\ pc[w] = "commit" /\ ~Wrote(w, "alert") => alert \in {"none", "resolved"}

(* setCaseDisposition works on a case that exists and resolves none.        *)
DisposeFacts(w) ==
    job[w].op = "dispose" =>
        /\ job[w].version # 0
        /\ pc[w] # "dispose:case" => read[w].case.status # "NONE"
        /\ Wrote(w, "case") =>
              \/ write[w].case.status = "ACKNOWLEDGED"
              \/ write[w].case.status = read[w].case.status

NextVersion(w) ==
    /\ Wrote(w, "case") => write[w].case.version = read[w].case.version + 1
    /\ read[w].case.status = "NONE" => read[w].case.version = 0

Progress(w) ==
    /\ LocksFollowProgress(w)
    /\ LockedRowsAreCurrent(w)
    /\ ObserveFacts(w)
    /\ ResolveFacts(w)
    /\ DisposeFacts(w)
    /\ NextVersion(w)

Table == {"signal", "case", "alert"}
LocksAreExclusive ==
    \A w, x \in Worker : w # x =>
        \A table \in Table : ~(Wrote(w, table) /\ Wrote(x, table))

AbsentRows ==
    /\ signal.status = "NONE" => signal.lastSeen = 0
    /\ internalCase.version = 0 <=> internalCase.status = "NONE"

IInv ==
    /\ TypeOK
    /\ LocksAreExclusive
    /\ \A w \in Worker : Progress(w)
    /\ AbsentRows
    /\ AlertFollowsSignal
    /\ CaseHistoryIsAChain
-----------------------------------------------------------------------------
(* Every step of a worker changes only its own locals, and every step but   *)
(* Commit leaves the committed rows alone.                                  *)

SameLocals(x) ==
    /\ pc'[x] = pc[x]
    /\ job'[x] = job[x]
    /\ read'[x] = read[x]
    /\ write'[x] = write[x]

(* The inductive invariant holds at first.                                 *)
LEMMA InitIInv == Init => IInv
  <1> SUFFICES ASSUME Init PROVE IInv
    OBVIOUS
  <1>1. TypeOK BY TypeInit
  <1>2. \A w \in Worker, table \in Table : ~Wrote(w, table)
    BY DEF Init, Wrote, NoRows, Table
  <1>3. \A w \in Worker : pc[w] = "idle" /\ job[w].op = "none"
    BY DEF Init, NoJob, JobOf
  <1>9. \A w \in Worker : read[w].case = NoCase
    BY DEF Init, NoRows
  <1>4. ASSUME NEW w \in Worker PROVE Progress(w)
    BY <1>2, <1>3, <1>9
    DEF NoCase, Table, Progress, LocksFollowProgress, LockedRowsAreCurrent, ObserveFacts,
        ResolveFacts, DisposeFacts, NextVersion, ObservePC, ResolvePC, DisposePC,
        HoldsSignalPC, HoldsCasePC
  <1>5. AbsentRows BY DEF Init, AbsentRows, NoSignal, NoCase
  <1>6. AlertFollowsSignal BY DEF Init, AlertFollowsSignal
  <1>7. CaseHistoryIsAChain BY DEF Init, CaseHistoryIsAChain, NoCase
  <1> QED BY <1>1, <1>2, <1>4, <1>5, <1>6, <1>7 DEF IInv, LocksAreExclusive

(* A step that leaves the rows and a worker's own variables alone leaves   *)
(* that worker's progress as it was.                                       *)
LEMMA OthersProgress ==
    ASSUME NEW x \in Worker, Progress(x), SameLocals(x), UNCHANGED rows
    PROVE  Progress(x)'
  BY DEF SameLocals, rows, Progress, LocksFollowProgress, LockedRowsAreCurrent,
         ObserveFacts, ResolveFacts, DisposeFacts, NextVersion, Wrote, SignalMoved,
         CaseMoved, AlertMoved

(* A step of one transaction that does not commit preserves the invariant   *)
(* if it keeps the facts of that transaction and locks only unlocked rows.  *)
LEMMA LocalStep ==
    ASSUME IInv, TypeOK', NEW w \in Worker, UNCHANGED rows,
           \A x \in Worker \ {w} : SameLocals(x),
           Progress(w)',
           \A table \in Table : Wrote(w, table)' => Wrote(w, table) \/ Unlocked(w, table)
    PROVE  IInv'
  <1>1. ASSUME NEW x \in Worker PROVE Progress(x)'
    BY OthersProgress DEF IInv
  <1>2. \A x \in Worker \ {w} : \A table \in Table : Wrote(x, table)' <=> Wrote(x, table)
    BY DEF SameLocals, Wrote, Table
  <1>3. LocksAreExclusive'
    BY <1>2 DEF IInv, LocksAreExclusive, Unlocked
  <1>4. AbsentRows' BY DEF IInv, AbsentRows, rows
  <1>5. AlertFollowsSignal' BY DEF IInv, AlertFollowsSignal, rows
  <1>6. CaseHistoryIsAChain' BY DEF IInv, CaseHistoryIsAChain, rows
  <1> QED BY <1>1, <1>3, <1>4, <1>5, <1>6 DEF IInv

(* A worker that has just started holds no row.                            *)
LEMMA NothingWritten ==
    ASSUME NEW w \in Worker, write'[w] = NoRows
    PROVE  \A table \in Table : ~Wrote(w, table)'
  <1>1. /\ write'[w].signal = NoSignal
        /\ write'[w].case = NoCase
        /\ write'[w].alert = "none"
    BY DEF NoRows
  <1>2. ~Wrote(w, "signal")' BY <1>1 DEF Wrote
  <1>3. ~Wrote(w, "case")' BY <1>1 DEF Wrote
  <1>4. ~Wrote(w, "alert")' BY <1>1 DEF Wrote
  <1> QED BY <1>2, <1>3, <1>4 DEF Table

(* A worker that has finished is idle and holds nothing.                   *)
LEMMA FinishProgress ==
    ASSUME TypeOK, NEW w \in Worker, Finish(w)
    PROVE  /\ Progress(w)'
           /\ \A table \in Table : ~Wrote(w, table)'
           /\ \A x \in Worker \ {w} : SameLocals(x)
  <1>1. pc'[w] = "idle" /\ job'[w].op = "none" /\ write'[w] = NoRows
        /\ read'[w].case = NoCase
    BY DEF TypeOK, Finish, NoJob, JobOf, NoRows
  <1>2. \A table \in Table : ~Wrote(w, table)'
    BY <1>1, NothingWritten
  <1>3. Progress(w)'
    BY <1>1, <1>2
    DEF NoCase, Table, Progress, LocksFollowProgress, LockedRowsAreCurrent, ObserveFacts,
        ResolveFacts, DisposeFacts, NextVersion, ObservePC, ResolvePC, DisposePC,
        HoldsSignalPC, HoldsCasePC
  <1>4. \A x \in Worker \ {w} : SameLocals(x)
    BY DEF TypeOK, Finish, SameLocals
  <1> QED BY <1>2, <1>3, <1>4

(* A rollback for good keeps the inductive invariant.                      *)
LEMMA ThrowStep ==
    ASSUME IInv, NEW w \in Worker, Throw(w)
    PROVE  IInv'
  <1>1. TypeOK' BY ThrowType DEF IInv
  <1> QED BY <1>1, FinishProgress, LocalStep DEF IInv, Throw

(* A rollback by a conflict keeps the inductive invariant.                 *)
LEMMA ConflictStep ==
    ASSUME IInv, NEW w \in Worker, Conflict(w)
    PROVE  IInv'
  <1>1. TypeOK' BY ConflictType DEF IInv
  <1>2. CASE MayRetry(w)
    <2>1. /\ pc'[w] = "observe:signal" /\ write'[w] = NoRows
          /\ job'[w].op = "observe" /\ read'[w].case = NoCase
      BY <1>2 DEF IInv, TypeOK, Conflict, Goto, MayRetry, Job, NoRows
    <2>2. \A table \in Table : ~Wrote(w, table)'
      BY <2>1, NothingWritten
    <2>3. Progress(w)'
      BY <2>1, <2>2
      DEF NoCase, Table, Progress, LocksFollowProgress, LockedRowsAreCurrent, ObserveFacts,
          ResolveFacts, DisposeFacts, NextVersion, ObservePC, ResolvePC, DisposePC,
          HoldsSignalPC, HoldsCasePC
    <2>4. \A x \in Worker \ {w} : SameLocals(x)
      BY <1>2 DEF IInv, TypeOK, Conflict, Goto, SameLocals
    <2> QED BY <1>1, <1>2, <2>2, <2>3, <2>4, LocalStep DEF Conflict
  <1>3. CASE ~MayRetry(w) BY <1>3, ThrowStep DEF Conflict
  <1> QED BY <1>2, <1>3

(* Every statement of observe keeps the inductive invariant.               *)
LEMMA ObserveInv ==
    ASSUME IInv, NEW w \in Worker, ObserveStep(w)
    PROVE  IInv'
  <1> USE DEF Progress, LocksFollowProgress, LockedRowsAreCurrent, ObserveFacts,
              ResolveFacts, DisposeFacts, NextVersion, ObservePC, ResolvePC, DisposePC,
              HoldsSignalPC, HoldsCasePC
  <1>0. TypeOK /\ TypeOK' /\ Progress(w) BY TypeObserve DEF IInv
  <1>1. CASE StartObserve(w)
    <2>1. /\ pc[w] = "idle" /\ pc'[w] = "observe:signal"
          /\ job'[w].op = "observe"
          /\ read'[w] = read[w] /\ write'[w] = write[w]
      BY <1>0, <1>1 DEF TypeOK, StartObserve, Goto, JobOf
    <2>2. \A table \in Table : ~Wrote(w, table)'
      BY <1>0, <2>1 DEF Wrote, Table
    <2>3. Progress(w)' BY <1>0, <2>1, <2>2 DEF Table
    <2>4. \A x \in Worker \ {w} : SameLocals(x)
      BY <1>0, <1>1 DEF TypeOK, StartObserve, Goto, SameLocals
    <2> QED BY <1>0, <1>1, <2>2, <2>3, <2>4, LocalStep DEF StartObserve
  <1>2. CASE ObserveReadsSignal(w)
    <2>1. CASE Throw(w) BY <2>1, ThrowStep
    <2>2. CASE ~Throw(w)
      <3>1. /\ pc[w] = "observe:signal" /\ pc'[w] = "observe:case"
            /\ NotOlder(signal, job[w].snapshot)
            /\ read'[w].signal = signal /\ read'[w].case = read[w].case
            /\ job'[w] = job[w] /\ write'[w] = write[w]
            /\ UNCHANGED rows
        BY <1>0, <1>2, <2>2 DEF TypeOK, ObserveReadsSignal, Goto, Rows
      <3>2. \A table \in Table : ~Wrote(w, table)'
        BY <1>0, <3>1 DEF Wrote, Table
      <3>3. Progress(w)' BY <1>0, <3>1, <3>2 DEF Table
      <3>4. \A x \in Worker \ {w} : SameLocals(x)
        BY <1>0, <1>2, <2>2 DEF TypeOK, ObserveReadsSignal, Goto, SameLocals
      <3> QED BY <1>0, <3>1, <3>2, <3>3, <3>4, LocalStep
    <2> QED BY <2>1, <2>2
  <1>3. CASE ObserveReadsCase(w)
    <2>1. CASE Throw(w) BY <2>1, ThrowStep
    <2>2. CASE ~Throw(w)
      <3>1. /\ pc[w] = "observe:case" /\ pc'[w] = "observe:mark"
            /\ NewerThanResolution(read'[w].signal, read'[w].case, job[w].snapshot)
            /\ read'[w].signal = read[w].signal
            /\ read'[w].case \in {NoCase, internalCase}
            /\ job'[w] = job[w] /\ write'[w] = write[w]
            /\ UNCHANGED rows
        BY <1>0, <1>3, <2>2 DEF TypeOK, ObserveReadsCase, Goto, Rows
      <3>2. \A table \in Table : ~Wrote(w, table)'
        BY <1>0, <3>1 DEF Wrote, Table
      <3>5. read'[w].case.status = "NONE" => read'[w].case.version = 0
        BY <3>1 DEF IInv, AbsentRows, NoCase
      <3>3. Progress(w)' BY <1>0, <3>1, <3>2, <3>5 DEF Table
      <3>4. \A x \in Worker \ {w} : SameLocals(x)
        BY <1>0, <1>3, <2>2 DEF TypeOK, ObserveReadsCase, Goto, SameLocals
      <3> QED BY <1>0, <3>1, <3>2, <3>3, <3>4, LocalStep
    <2> QED BY <2>1, <2>2
  <1>4. CASE ObserveMarksSignal(w)
    <2>1. CASE Conflict(w) BY <2>1, ConflictStep
    <2>2. CASE ~Conflict(w)
      <3> DEFINE marked == [status |-> "ACTIVE", lastSeen |-> job[w].snapshot]
      <3>1. /\ pc[w] = "observe:mark" /\ pc'[w] = "observe:reopen"
            /\ ~SignalMoved(w) /\ Unlocked(w, "signal")
            /\ write'[w].signal = marked
            /\ write'[w].case = write[w].case /\ write'[w].alert = write[w].alert
            /\ job'[w] = job[w] /\ read'[w] = read[w]
            /\ UNCHANGED rows
        BY <1>0, <1>4, <2>2 DEF TypeOK, ObserveMarksSignal, Goto, Rows
      <3>2. marked # NoSignal BY DEF NoSignal
      <3>3. Wrote(w, "signal")' BY <3>1, <3>2 DEF Wrote
      <3>4. ~Wrote(w, "case")' /\ ~Wrote(w, "alert")' BY <1>0, <3>1 DEF Wrote
      <3>5. ~SignalMoved(w)' BY <3>1 DEF SignalMoved, rows
      <3>6. Progress(w)' BY <1>0, <3>1, <3>3, <3>4, <3>5
      <3>7. \A x \in Worker \ {w} : SameLocals(x)
        BY <1>0, <1>4, <2>2 DEF TypeOK, ObserveMarksSignal, Goto, SameLocals
      <3>8. \A table \in Table : Wrote(w, table)' => Unlocked(w, table)
        BY <3>1, <3>4 DEF Table
      <3> QED BY <1>0, <3>1, <3>6, <3>7, <3>8, LocalStep
    <2> QED BY <2>1, <2>2
  <1>5. CASE ObserveOpensCase(w)
    <2>1. CASE Conflict(w) BY <2>1, ConflictStep
    <2>2. CASE ~Conflict(w)
      <3>1. /\ pc[w] = "observe:reopen" /\ pc'[w] = "observe:alert"
            /\ job'[w] = job[w] /\ read'[w] = read[w]
            /\ UNCHANGED rows
        BY <1>0, <1>5, <2>2 DEF TypeOK, ObserveOpensCase, Goto
      <3>2. \A x \in Worker \ {w} : SameLocals(x)
        BY <1>0, <1>5, <2>2 DEF TypeOK, ObserveOpensCase, Goto, SameLocals
      <3>3. CASE write' = write
        <4>1. \A table \in Table : Wrote(w, table)' <=> Wrote(w, table)
          BY <3>3 DEF Wrote, Table
        <4>2. ~SignalMoved(w)' BY <1>0, <3>1 DEF SignalMoved, rows
        <4>3. Progress(w)' BY <1>0, <3>1, <3>3, <4>1, <4>2 DEF Table
        <4> QED BY <1>0, <3>1, <3>2, <4>1, <4>3, LocalStep
      <3>4. CASE write' # write
        <4>1. PICK row :
                /\ write' = [write EXCEPT ![w].case = row]
                /\ row.status = "OPEN"
                /\ row.version = read[w].case.version + 1
          <5>1. CASE read[w].case.status = "NONE"
            <6>1. PICK time \in job[w].snapshot .. Now :
                    write' = [write EXCEPT ![w].case = OpenedCase(time)]
              BY <1>5, <2>2, <3>4, <5>1 DEF ObserveOpensCase
            <6>2. OpenedCase(time).status = "OPEN" /\ OpenedCase(time).version = 1
              BY DEF OpenedCase
            <6>3. read[w].case.version = 0 BY <1>0, <5>1
            <6>4. OpenedCase(time).version = read[w].case.version + 1
              BY <6>2, <6>3
            <6> QED BY <6>1, <6>2, <6>4
          <5>2. CASE read[w].case.status # "NONE"
            <6> DEFINE row == Transitioned(read[w].case, "OPEN", 0, Now)
            <6>1. write' = [write EXCEPT ![w].case = row]
              BY <1>5, <2>2, <3>4, <5>2 DEF ObserveOpensCase
            <6>2. row.status = "OPEN" /\ row.version = read[w].case.version + 1
              BY DEF Transitioned
            <6> QED BY <6>1, <6>2
          <5> QED BY <5>1, <5>2
        <4>2. ~LeavesCase(read[w].case) /\ ~CaseMoved(w) /\ Unlocked(w, "case")
          BY <1>5, <2>2, <3>4 DEF ObserveOpensCase
        <4>3. /\ write'[w].case = row
              /\ write'[w].signal = write[w].signal /\ write'[w].alert = write[w].alert
          BY <1>0, <4>1 DEF TypeOK, Rows
        <4>4. row # NoCase BY <4>1 DEF NoCase
        <4>5. /\ Wrote(w, "case")'
              /\ Wrote(w, "signal")' <=> Wrote(w, "signal")
              /\ Wrote(w, "alert")' <=> Wrote(w, "alert")
          BY <4>3, <4>4 DEF Wrote
        <4>6. ~SignalMoved(w)' /\ ~CaseMoved(w)'
          BY <1>0, <3>1, <4>2 DEF SignalMoved, CaseMoved, rows
        <4>7. Progress(w)' BY <1>0, <3>1, <4>1, <4>2, <4>3, <4>5, <4>6 DEF LeavesCase
        <4>8. \A table \in Table : Wrote(w, table)' => Wrote(w, table) \/ Unlocked(w, table)
          BY <4>2, <4>5 DEF Table
        <4> QED BY <1>0, <3>1, <3>2, <4>7, <4>8, LocalStep
      <3> QED BY <3>3, <3>4
    <2> QED BY <2>1, <2>2
  <1>6. CASE ObserveReadsAlert(w)
    <2>1. /\ pc[w] = "observe:alert"
          /\ \/ pc'[w] = "observe:notify"
             \/ pc'[w] = "commit" /\ alert \notin {"none", "resolved"}
          /\ read'[w].signal = read[w].signal /\ read'[w].case = read[w].case
          /\ job'[w] = job[w] /\ write'[w] = write[w]
          /\ UNCHANGED rows
      BY <1>0, <1>6 DEF TypeOK, ObserveReadsAlert, Goto, Rows
    <2>2. \A table \in Table : Wrote(w, table)' <=> Wrote(w, table)
      BY <2>1 DEF Wrote, Table
    <2>3. /\ SignalMoved(w)' <=> SignalMoved(w)
          /\ CaseMoved(w)' <=> CaseMoved(w)
      BY <2>1 DEF SignalMoved, CaseMoved, rows
    <2>4. Progress(w)' BY <1>0, <2>1, <2>2, <2>3 DEF Table, rows
    <2>5. \A x \in Worker \ {w} : SameLocals(x)
      BY <1>0, <1>6 DEF TypeOK, ObserveReadsAlert, Goto, SameLocals
    <2> QED BY <1>0, <2>1, <2>2, <2>4, <2>5, LocalStep
  <1>7. CASE ObserveNotifies(w)
    <2>1. CASE Conflict(w) BY <2>1, ConflictStep
    <2>2. CASE Throw(w) BY <2>2, ThrowStep
    <2>3. CASE ~Conflict(w) /\ ~Throw(w)
      <3>1. /\ pc[w] = "observe:notify" /\ pc'[w] = "commit"
            /\ ~AlertMoved(w) /\ Unlocked(w, "alert")
            /\ write'[w].alert = "pending"
            /\ write'[w].signal = write[w].signal /\ write'[w].case = write[w].case
            /\ job'[w] = job[w] /\ read'[w] = read[w]
            /\ UNCHANGED rows
        BY <1>0, <1>7, <2>3 DEF TypeOK, ObserveNotifies, Goto, Rows
      <3>2. /\ Wrote(w, "alert")'
            /\ Wrote(w, "signal")' <=> Wrote(w, "signal")
            /\ Wrote(w, "case")' <=> Wrote(w, "case")
        BY <3>1 DEF Wrote
      <3>3. /\ SignalMoved(w)' <=> SignalMoved(w)
            /\ CaseMoved(w)' <=> CaseMoved(w)
            /\ ~AlertMoved(w)'
        BY <3>1 DEF SignalMoved, CaseMoved, AlertMoved, rows
      <3>4. Progress(w)' BY <1>0, <3>1, <3>2, <3>3
      <3>5. \A table \in Table : Wrote(w, table)' => Wrote(w, table) \/ Unlocked(w, table)
        BY <3>1, <3>2 DEF Table
      <3>6. \A x \in Worker \ {w} : SameLocals(x)
        BY <1>0, <1>7, <2>3 DEF TypeOK, ObserveNotifies, Goto, SameLocals
      <3> QED BY <1>0, <3>1, <3>4, <3>5, <3>6, LocalStep
    <2> QED BY <2>1, <2>2, <2>3
  <1> QED BY <1>1, <1>2, <1>3, <1>4, <1>5, <1>6, <1>7 DEF ObserveStep

(* A case that transition() lets be resolved, and does not skip, is open.   *)
LEMMA OnlyOpenCasesResolve ==
    ASSUME NEW c, MayTransition(c, "RESOLVED"), TransitionWrites(c, "RESOLVED")
    PROVE  IsOpen(c)
  BY DEF MayTransition, TransitionWrites, AllowedTransition, IsOpen, Closed

(* Every statement of resolveCase keeps the inductive invariant.           *)
LEMMA ResolveInv ==
    ASSUME IInv, NEW w \in Worker, ResolveStep(w)
    PROVE  IInv'
  <1> USE DEF Progress, LocksFollowProgress, LockedRowsAreCurrent, ObserveFacts,
              ResolveFacts, DisposeFacts, NextVersion, ObservePC, ResolvePC, DisposePC,
              HoldsSignalPC, HoldsCasePC
  <1>0. TypeOK /\ TypeOK' /\ Progress(w) BY TypeResolve DEF IInv
  <1>1. CASE StartResolve(w)
    <2>1. /\ pc[w] = "idle" /\ pc'[w] = "resolve:case"
          /\ job'[w].op = "resolve" /\ job'[w].snapshot \in DOMAIN outcome
          /\ outcome[job'[w].snapshot] = "HEALTHY"
          /\ read'[w] = read[w] /\ write'[w] = write[w]
          /\ UNCHANGED rows
      BY <1>0, <1>1 DEF TypeOK, StartResolve, Goto, JobOf
    <2>2. \A table \in Table : ~Wrote(w, table)'
      BY <1>0, <2>1 DEF Wrote, Table
    <2>3. Progress(w)' BY <1>0, <2>1, <2>2 DEF Table, rows
    <2>4. \A x \in Worker \ {w} : SameLocals(x)
      BY <1>0, <1>1 DEF TypeOK, StartResolve, Goto, SameLocals
    <2> QED BY <1>0, <2>1, <2>2, <2>3, <2>4, LocalStep
  <1>2. CASE ResolveReadsCase(w)
    <2>1. /\ pc[w] = "resolve:case" /\ pc'[w] = "resolve:signal"
          /\ read'[w].case = internalCase
          /\ job'[w] = job[w] /\ write'[w] = write[w]
          /\ UNCHANGED rows
      BY <1>0, <1>2 DEF TypeOK, ResolveReadsCase, Goto, Rows
    <2>2. \A table \in Table : ~Wrote(w, table)'
      BY <1>0, <2>1 DEF Wrote, Table
    <2>3. Progress(w)' BY <1>0, <2>1, <2>2 DEF IInv, AbsentRows, Table, rows
    <2>4. \A x \in Worker \ {w} : SameLocals(x)
      BY <1>0, <1>2 DEF TypeOK, ResolveReadsCase, Goto, SameLocals
    <2> QED BY <1>0, <2>1, <2>2, <2>3, <2>4, LocalStep
  <1>3. CASE ResolveReadsSignal(w)
    <2>1. CASE Throw(w) BY <2>1, ThrowStep
    <2>2. CASE ~Throw(w)
      <3>1. /\ pc[w] = "resolve:signal" /\ pc'[w] = "resolve:transition"
            /\ FreshForResolution(read'[w].signal, read'[w].case, job[w].snapshot)
            /\ read'[w].case = read[w].case
            /\ job'[w] = job[w] /\ write'[w] = write[w]
            /\ UNCHANGED rows
        BY <1>0, <1>3, <2>2 DEF TypeOK, ResolveReadsSignal, Goto, Rows
      <3>2. \A table \in Table : ~Wrote(w, table)'
        BY <1>0, <3>1 DEF Wrote, Table
      <3>3. Progress(w)' BY <1>0, <3>1, <3>2 DEF Table, rows
      <3>4. \A x \in Worker \ {w} : SameLocals(x)
        BY <1>0, <1>3, <2>2 DEF TypeOK, ResolveReadsSignal, Goto, SameLocals
      <3> QED BY <1>0, <3>1, <3>2, <3>3, <3>4, LocalStep
    <2> QED BY <2>1, <2>2
  <1>4. CASE ResolveTransitionsCase(w)
    <2>1. CASE Conflict(w) BY <2>1, ConflictStep
    <2>2. CASE ~Conflict(w)
      <3>1. /\ pc[w] = "resolve:transition" /\ pc'[w] = "resolve:mark"
            /\ job'[w] = job[w] /\ read'[w] = read[w]
            /\ UNCHANGED rows
        BY <1>0, <1>4, <2>2 DEF TypeOK, ResolveTransitionsCase, Goto
      <3>2. \A x \in Worker \ {w} : SameLocals(x)
        BY <1>0, <1>4, <2>2 DEF TypeOK, ResolveTransitionsCase, Goto, SameLocals
      <3>3. CASE write' = write
        <4>1. \A table \in Table : Wrote(w, table)' <=> Wrote(w, table)
          BY <3>3 DEF Wrote, Table
        <4>2. \A table \in Table : ~Wrote(w, table)' BY <1>0, <3>1, <4>1 DEF Table
        <4>3. Progress(w)' BY <1>0, <3>1, <3>3, <4>2 DEF Table, rows
        <4> QED BY <1>0, <3>1, <3>2, <4>2, <4>3, LocalStep
      <3>4. CASE write' # write
        <4> DEFINE row == Transitioned(read[w].case, "RESOLVED", job[w].snapshot, Now)
        <4>1. /\ MayTransition(read[w].case, "RESOLVED")
              /\ TransitionWrites(read[w].case, "RESOLVED")
              /\ ~CaseMoved(w) /\ Unlocked(w, "case")
              /\ write' = [write EXCEPT ![w].case = row]
          BY <1>4, <2>2, <3>4 DEF ResolveTransitionsCase
        <4>2. IsOpen(read[w].case) BY <4>1, OnlyOpenCasesResolve
        <4>3. /\ row.status = "RESOLVED" /\ row.verification = job[w].snapshot
              /\ row.version = read[w].case.version + 1
          BY DEF Transitioned
        <4>4. /\ write'[w].case = row
              /\ write'[w].signal = write[w].signal /\ write'[w].alert = write[w].alert
          BY <1>0, <4>1 DEF TypeOK, Rows
        <4>5. row # NoCase BY <4>3 DEF NoCase
        <4>6. /\ Wrote(w, "case")'
              /\ Wrote(w, "signal")' <=> Wrote(w, "signal")
              /\ Wrote(w, "alert")' <=> Wrote(w, "alert")
          BY <4>4, <4>5 DEF Wrote
        <4>7. ~CaseMoved(w)' BY <3>1, <4>1 DEF CaseMoved, rows
        <4> HIDE DEF row
        <4>8. Progress(w)' BY <1>0, <3>1, <4>2, <4>3, <4>4, <4>6, <4>7 DEF rows
        <4>9. \A table \in Table : Wrote(w, table)' => Wrote(w, table) \/ Unlocked(w, table)
          BY <4>1, <4>6 DEF Table
        <4> QED BY <1>0, <3>1, <3>2, <4>8, <4>9, LocalStep
      <3> QED BY <3>3, <3>4
    <2> QED BY <2>1, <2>2
  <1>5. CASE ResolveMarksSignal(w)
    <2>1. CASE Conflict(w) BY <2>1, ConflictStep
    <2>2. CASE ~Conflict(w)
      <3> DEFINE marked == [read[w].signal EXCEPT !.status = "RESOLVED"]
      <3>0. /\ write' = [write EXCEPT ![w].signal = marked]
            /\ UNCHANGED <<rows, job, read>>
        BY <1>5, <2>2 DEF ResolveMarksSignal
      <3> HIDE DEF marked
      <3>1. /\ pc[w] = "resolve:mark" /\ pc'[w] = "resolve:alert"
            /\ ~SignalMoved(w) /\ Unlocked(w, "signal")
            /\ write'[w].signal = marked
            /\ write'[w].case = write[w].case /\ write'[w].alert = write[w].alert
            /\ job'[w] = job[w] /\ read'[w] = read[w]
            /\ UNCHANGED rows
        BY <1>0, <1>5, <2>2, <3>0 DEF TypeOK, ResolveMarksSignal, Goto, Rows
      <3>2. write'[w].signal = [status |-> "RESOLVED", lastSeen |-> read[w].signal.lastSeen]
        <4>1. read[w].signal \in SignalRow BY <1>0 DEF TypeOK, Rows
        <4> QED BY <3>1, <4>1 DEF marked, SignalRow
      <3>3. write'[w].signal # NoSignal BY <3>2 DEF NoSignal
      <3>4. /\ Wrote(w, "signal")'
            /\ Wrote(w, "case")' <=> Wrote(w, "case")
            /\ Wrote(w, "alert")' <=> Wrote(w, "alert")
        BY <3>1, <3>3 DEF Wrote
      <3>5. ~SignalMoved(w)' /\ (CaseMoved(w)' <=> CaseMoved(w))
        BY <3>1 DEF SignalMoved, CaseMoved, rows
      <3>6. Progress(w)' BY <1>0, <3>1, <3>2, <3>4, <3>5 DEF rows
      <3>7. \A x \in Worker \ {w} : SameLocals(x)
        BY <1>0, <1>5, <2>2 DEF TypeOK, ResolveMarksSignal, Goto, SameLocals
      <3>8. \A table \in Table : Wrote(w, table)' => Wrote(w, table) \/ Unlocked(w, table)
        BY <3>1, <3>4 DEF Table
      <3> QED BY <1>0, <3>1, <3>6, <3>7, <3>8, LocalStep
    <2> QED BY <2>1, <2>2
  <1>6. CASE ResolveReadsAlert(w)
    <2>1. /\ pc[w] = "resolve:alert"
          /\ \/ pc'[w] = "resolve:close"
             \/ pc'[w] = "commit" /\ alert \in {"none", "resolved"}
          /\ read'[w].signal = read[w].signal /\ read'[w].case = read[w].case
          /\ job'[w] = job[w] /\ write'[w] = write[w]
          /\ UNCHANGED rows
      BY <1>0, <1>6 DEF TypeOK, ResolveReadsAlert, Goto, Rows
    <2>2. \A table \in Table : Wrote(w, table)' <=> Wrote(w, table)
      BY <2>1 DEF Wrote, Table
    <2>3. /\ SignalMoved(w)' <=> SignalMoved(w)
          /\ CaseMoved(w)' <=> CaseMoved(w)
      BY <2>1 DEF SignalMoved, CaseMoved, rows
    <2>4. Progress(w)' BY <1>0, <2>1, <2>2, <2>3 DEF Table, rows
    <2>5. \A x \in Worker \ {w} : SameLocals(x)
      BY <1>0, <1>6 DEF TypeOK, ResolveReadsAlert, Goto, SameLocals
    <2> QED BY <1>0, <2>1, <2>2, <2>4, <2>5, LocalStep
  <1>7. CASE ResolveClosesAlert(w)
    <2>1. CASE Conflict(w) BY <2>1, ConflictStep
    <2>2. CASE ~Conflict(w)
      <3>1. /\ pc[w] = "resolve:close" /\ pc'[w] = "commit"
            /\ ~AlertMoved(w) /\ Unlocked(w, "alert")
            /\ write'[w].alert = "resolved"
            /\ write'[w].signal = write[w].signal /\ write'[w].case = write[w].case
            /\ job'[w] = job[w] /\ read'[w] = read[w]
            /\ UNCHANGED rows
        BY <1>0, <1>7, <2>2 DEF TypeOK, ResolveClosesAlert, Goto, Rows
      <3>2. /\ Wrote(w, "alert")'
            /\ Wrote(w, "signal")' <=> Wrote(w, "signal")
            /\ Wrote(w, "case")' <=> Wrote(w, "case")
        BY <3>1 DEF Wrote
      <3>3. /\ SignalMoved(w)' <=> SignalMoved(w)
            /\ CaseMoved(w)' <=> CaseMoved(w)
            /\ ~AlertMoved(w)'
        BY <3>1 DEF SignalMoved, CaseMoved, AlertMoved, rows
      <3>4. Progress(w)' BY <1>0, <3>1, <3>2, <3>3 DEF rows
      <3>5. \A table \in Table : Wrote(w, table)' => Wrote(w, table) \/ Unlocked(w, table)
        BY <3>1, <3>2 DEF Table
      <3>6. \A x \in Worker \ {w} : SameLocals(x)
        BY <1>0, <1>7, <2>2 DEF TypeOK, ResolveClosesAlert, Goto, SameLocals
      <3> QED BY <1>0, <3>1, <3>4, <3>5, <3>6, LocalStep
    <2> QED BY <2>1, <2>2
  <1> QED BY <1>1, <1>2, <1>3, <1>4, <1>5, <1>6, <1>7 DEF ResolveStep

(* Every statement of setCaseDisposition keeps the inductive invariant.    *)
LEMMA DisposeInv ==
    ASSUME IInv, NEW w \in Worker, DisposeStep(w)
    PROVE  IInv'
  <1> USE DEF Progress, LocksFollowProgress, LockedRowsAreCurrent, ObserveFacts,
              ResolveFacts, DisposeFacts, NextVersion, ObservePC, ResolvePC, DisposePC,
              HoldsSignalPC, HoldsCasePC
  <1>0. TypeOK /\ TypeOK' /\ Progress(w) BY TypeDispose DEF IInv
  <1>1. CASE StartDispose(w)
    <2>1. /\ pc[w] = "idle" /\ pc'[w] = "dispose:case"
          /\ job'[w].op = "dispose" /\ job'[w].version = internalCase.version
          /\ internalCase.status # "NONE"
          /\ read'[w] = read[w] /\ write'[w] = write[w]
          /\ UNCHANGED rows
      BY <1>0, <1>1 DEF TypeOK, StartDispose, Goto, JobOf
    <2>2. \A table \in Table : ~Wrote(w, table)'
      BY <1>0, <2>1 DEF Wrote, Table
    <2>3. Progress(w)' BY <1>0, <2>1, <2>2 DEF IInv, AbsentRows, Table, rows
    <2>4. \A x \in Worker \ {w} : SameLocals(x)
      BY <1>0, <1>1 DEF TypeOK, StartDispose, Goto, SameLocals
    <2> QED BY <1>0, <2>1, <2>2, <2>3, <2>4, LocalStep
  <1>2. CASE DisposeReadsCase(w)
    <2>1. CASE Throw(w) BY <2>1, ThrowStep
    <2>2. CASE ~Throw(w)
      <3>1. /\ pc[w] = "dispose:case" /\ pc'[w] = "dispose:update"
            /\ internalCase.version = job[w].version
            /\ read'[w].case = internalCase
            /\ job'[w] = job[w] /\ write'[w] = write[w]
            /\ UNCHANGED rows
        BY <1>0, <1>2, <2>2 DEF TypeOK, DisposeReadsCase, Goto, Rows
      <3>2. \A table \in Table : ~Wrote(w, table)'
        BY <1>0, <3>1 DEF Wrote, Table
      <3>3. Progress(w)' BY <1>0, <3>1, <3>2 DEF IInv, AbsentRows, Table, rows
      <3>4. \A x \in Worker \ {w} : SameLocals(x)
        BY <1>0, <1>2, <2>2 DEF TypeOK, DisposeReadsCase, Goto, SameLocals
      <3> QED BY <1>0, <3>1, <3>2, <3>3, <3>4, LocalStep
    <2> QED BY <2>1, <2>2
  <1>3. CASE DisposeUpdatesCase(w)
    <2>1. CASE Conflict(w) BY <2>1, ConflictStep
    <2>2. CASE ~Conflict(w)
      <3> DEFINE row == Disposed(read[w].case, Now)
      <3>1. /\ pc[w] = "dispose:update" /\ pc'[w] = "commit"
            /\ ~CaseMoved(w) /\ Unlocked(w, "case")
            /\ write'[w].case = row
            /\ write'[w].signal = write[w].signal /\ write'[w].alert = write[w].alert
            /\ job'[w] = job[w] /\ read'[w] = read[w]
            /\ UNCHANGED rows
        BY <1>0, <1>3, <2>2 DEF TypeOK, DisposeUpdatesCase, Goto, Rows
      <3>2. /\ row.version = read[w].case.version + 1
            /\ row.status = "ACKNOWLEDGED" \/ row.status = read[w].case.status
        <4>1. read[w].case \in CaseRow BY <1>0 DEF TypeOK, Rows
        <4>2. CASE read[w].case.status = "OPEN"
          BY <4>2 DEF Disposed, Transitioned
        <4>3. CASE read[w].case.status # "OPEN"
          BY <4>1, <4>3 DEF Disposed, CaseRow
        <4> QED BY <4>2, <4>3
      <3> HIDE DEF row
      <3>3. row # NoCase
        <4>1. read[w].case.version \in Nat BY <1>0 DEF TypeOK, Rows, CaseRow
        <4>2. row.version # 0 BY <3>2, <4>1
        <4> QED BY <4>2 DEF NoCase
      <3>4. /\ Wrote(w, "case")'
            /\ Wrote(w, "signal")' <=> Wrote(w, "signal")
            /\ Wrote(w, "alert")' <=> Wrote(w, "alert")
        BY <3>1, <3>3 DEF Wrote
      <3>5. ~CaseMoved(w)' BY <3>1 DEF CaseMoved, rows
      <3>6. Progress(w)' BY <1>0, <3>1, <3>2, <3>4, <3>5 DEF rows
      <3>7. \A x \in Worker \ {w} : SameLocals(x)
        BY <1>0, <1>3, <2>2 DEF TypeOK, DisposeUpdatesCase, Goto, SameLocals
      <3>8. \A table \in Table : Wrote(w, table)' => Wrote(w, table) \/ Unlocked(w, table)
        BY <3>1, <3>4 DEF Table
      <3> QED BY <1>0, <3>1, <3>6, <3>7, <3>8, LocalStep
    <2> QED BY <2>1, <2>2
  <1> QED BY <1>1, <1>2, <1>3 DEF DisposeStep

(* The rows a commit replaces are those the transaction has locked, so the  *)
(* facts of every other transaction survive it.                             *)
LEMMA CommitKeepsOthers ==
    ASSUME IInv, NEW w \in Worker, Commit(w), NEW x \in Worker \ {w}
    PROVE  Progress(x)'
  <1> USE DEF Progress, LocksFollowProgress, LockedRowsAreCurrent, ObserveFacts,
              ResolveFacts, DisposeFacts, NextVersion, ObservePC, ResolvePC, DisposePC,
              HoldsSignalPC, HoldsCasePC
  <1>0. TypeOK /\ Progress(w) /\ Progress(x) BY DEF IInv
  <1>1. SameLocals(x) /\ pc[w] = "commit" /\ outcome' = outcome
    BY <1>0, FinishProgress DEF Commit
  <1>2. \A table \in Table : Wrote(x, table)' <=> Wrote(x, table)
    BY <1>1 DEF SameLocals, Wrote, Table
  <1>3. \A table \in Table : Wrote(x, table) => ~Wrote(w, table)
    BY DEF IInv, LocksAreExclusive
  <1>4. Wrote(x, "signal") => ~SignalMoved(x)'
    BY <1>0, <1>1, <1>3 DEF Commit, SignalMoved, SameLocals, Table
  <1>5. Wrote(x, "case") => ~CaseMoved(x)'
    BY <1>0, <1>1, <1>3 DEF Commit, CaseMoved, SameLocals, Table
  <1>6. Wrote(x, "alert") => ~AlertMoved(x)'
    BY <1>0, <1>1, <1>3 DEF Commit, AlertMoved, SameLocals, Table
  <1>7. Wrote(x, "signal") => alert' = alert
    BY <1>0, <1>1, <1>3 DEF Commit, Table
  <1>8. LocksFollowProgress(x)' /\ LockedRowsAreCurrent(x)'
    BY <1>0, <1>1, <1>2, <1>4, <1>5, <1>6 DEF SameLocals, Table
  <1>9. ObserveFacts(x)'
    BY <1>0, <1>1, <1>2, <1>7 DEF SameLocals, Table
  <1>10. ResolveFacts(x)'
    BY <1>0, <1>1, <1>2, <1>7 DEF SameLocals, Table
  <1>11. DisposeFacts(x)' /\ NextVersion(x)'
    BY <1>0, <1>1, <1>2 DEF SameLocals, Table
  <1> QED BY <1>8, <1>9, <1>10, <1>11

(* A committed signal is ACTIVE or RESOLVED, and the alert that is left     *)
(* beside it agrees.                                                        *)
LEMMA CommitAgrees ==
    ASSUME IInv, NEW w \in Worker, Commit(w)
    PROVE  AlertFollowsSignal'
  <1> USE DEF Progress, LocksFollowProgress, ObserveFacts, ResolveFacts
  <1>0. Progress(w) /\ AlertFollowsSignal BY DEF IInv
  <1>1. pc[w] = "commit" BY DEF Commit
  <1>2. CASE job[w].op = "observe"
    <2>1. signal'.status = "ACTIVE" BY <1>0, <1>1, <1>2 DEF Commit
    <2>2. alert' # "resolved"
      BY <1>0, <1>1, <1>2 DEF Commit
    <2> QED BY <2>1, <2>2 DEF AlertFollowsSignal
  <1>3. CASE job[w].op = "resolve"
    <2>1. signal'.status = "RESOLVED" BY <1>0, <1>1, <1>3 DEF Commit
    <2>2. alert' \in {"none", "resolved"}
      BY <1>0, <1>1, <1>3 DEF Commit
    <2> QED BY <2>1, <2>2 DEF AlertFollowsSignal
  <1>4. CASE job[w].op = "dispose"
    <2>1. signal' = signal /\ alert' = alert BY <1>0, <1>1, <1>4 DEF Commit, HoldsSignalPC
    <2> QED BY <1>0, <2>1 DEF AlertFollowsSignal
  <1> QED BY <1>0, <1>1, <1>2, <1>3, <1>4

(* The event a commit appends starts at the status the case has, and the    *)
(* version grows by one with it.                                            *)
LEMMA CommitExtendsHistory ==
    ASSUME IInv, NEW w \in Worker, Commit(w)
    PROVE  CaseHistoryIsAChain' /\ AbsentRows'
  <1> USE DEF Progress, LocksFollowProgress, LockedRowsAreCurrent, ObserveFacts,
              ResolveFacts, DisposeFacts, NextVersion
  <1>0. TypeOK /\ Progress(w) /\ AbsentRows /\ CaseHistoryIsAChain BY DEF IInv
  <1>1. pc[w] = "commit" BY DEF Commit
  <1>2. signal'.status = "NONE" => signal'.lastSeen = 0
    <2>1. CASE Wrote(w, "signal")
      <3>1. job[w].op \in {"observe", "resolve"}
        BY <1>0, <1>1, <2>1 DEF HoldsSignalPC
      <3>2. write[w].signal.status \in {"ACTIVE", "RESOLVED"}
        BY <1>0, <2>1, <3>1
      <3> QED BY <2>1, <3>2 DEF Commit
    <2>2. CASE ~Wrote(w, "signal") BY <1>0, <2>2 DEF Commit, AbsentRows
    <2> QED BY <2>1, <2>2
  <1>3. CASE ~Wrote(w, "case")
    <2>1. UNCHANGED <<internalCase, caseEvents>> BY <1>3 DEF Commit
    <2> QED BY <1>0, <1>2, <2>1 DEF AbsentRows, CaseHistoryIsAChain
  <1>4. CASE Wrote(w, "case")
    <2>1. /\ internalCase' = write[w].case
          /\ caseEvents' = Append(caseEvents, EventOf(read[w].case, write[w].case))
      BY <1>4 DEF Commit
    <2>2. /\ read[w].case.status = internalCase.status
          /\ read[w].case.version = internalCase.version
          /\ write[w].case.version = internalCase.version + 1
      BY <1>0, <1>4 DEF CaseMoved
    <2>3. write[w].case.status # "NONE" BY <1>0, <1>1, <1>4
    <2>4. internalCase.version \in Nat /\ caseEvents \in Seq(CaseEvent)
      BY <1>0 DEF TypeOK, CaseRow
    <2>5. AbsentRows' BY <1>2, <2>1, <2>2, <2>3, <2>4 DEF AbsentRows
    <2> DEFINE event == EventOf(read[w].case, write[w].case)
    <2>6. event.from = internalCase.status /\ event.to = internalCase'.status
      BY <2>1, <2>2 DEF EventOf
    <2> HIDE DEF event
    <2>7. Len(caseEvents) = internalCase.version
      BY <1>0 DEF CaseHistoryIsAChain
    <2>8. Len(caseEvents') = internalCase'.version
      BY <2>1, <2>2, <2>4, <2>7
    <2>9. ASSUME NEW i \in 1 .. Len(caseEvents')
          PROVE  /\ caseEvents'[i].from = IF i = 1 THEN "NONE" ELSE caseEvents'[i - 1].to
                 /\ i = Len(caseEvents') => caseEvents'[i].to = internalCase'.status
      <3>1. caseEvents' = Append(caseEvents, event) BY <2>1 DEF event
      <3>2. CASE i \in 1 .. Len(caseEvents)
        <4>1. caseEvents'[i] = caseEvents[i] /\ i # Len(caseEvents')
          BY <2>4, <3>1, <3>2
        <4>2. i # 1 => caseEvents'[i - 1] = caseEvents[i - 1]
          BY <2>4, <3>1, <3>2
        <4> QED BY <1>0, <3>2, <4>1, <4>2 DEF CaseHistoryIsAChain
      <3>3. CASE i = Len(caseEvents) + 1
        <4>1. caseEvents'[i] = event BY <2>4, <3>1, <3>3
        <4>2. CASE i = 1
          <5>1. internalCase.version = 0 BY <2>4, <2>7, <3>3, <4>2
          <5>2. internalCase.status = "NONE" BY <1>0, <5>1 DEF AbsentRows
          <5> QED BY <2>6, <4>1, <4>2, <5>2
        <4>3. CASE i # 1
          <5>1. i - 1 = Len(caseEvents) /\ i - 1 \in 1 .. Len(caseEvents)
            BY <2>4, <3>3, <4>3
          <5>2. caseEvents'[i - 1] = caseEvents[i - 1] BY <2>4, <3>1, <5>1
          <5>3. caseEvents[i - 1].to = internalCase.status
            BY <1>0, <5>1 DEF CaseHistoryIsAChain
          <5> QED BY <2>6, <4>1, <4>3, <5>2, <5>3
        <4> QED BY <4>2, <4>3
      <3>4. i \in 1 .. Len(caseEvents) \/ i = Len(caseEvents) + 1
        BY <2>4, <3>1
      <3> QED BY <3>2, <3>3, <3>4
    <2> QED BY <2>5, <2>8, <2>9 DEF CaseHistoryIsAChain
  <1> QED BY <1>3, <1>4

(* A commit keeps the inductive invariant.                                 *)
LEMMA CommitInv ==
    ASSUME IInv, NEW w \in Worker, Commit(w)
    PROVE  IInv'
  <1>1. TypeOK /\ TypeOK' BY TypeEnd DEF IInv
  <1>2. /\ Progress(w)'
        /\ \A table \in Table : ~Wrote(w, table)'
        /\ \A x \in Worker \ {w} : SameLocals(x)
    BY <1>1, FinishProgress DEF Commit
  <1>3. \A x \in Worker : Progress(x)' BY <1>2, CommitKeepsOthers
  <1>4. \A x \in Worker \ {w} : \A table \in Table : Wrote(x, table)' <=> Wrote(x, table)
    BY <1>2 DEF SameLocals, Wrote, Table
  <1>5. LocksAreExclusive' BY <1>2, <1>4 DEF IInv, LocksAreExclusive
  <1> QED BY <1>1, <1>3, <1>5, CommitAgrees, CommitExtendsHistory DEF IInv

(* Nothing collected is changed by the rest of the program.                *)
LEMMA OutcomesStay ==
    ASSUME TypeOK, Collect \/ AlertChange \/ DeleteMonitor \/ CreateMonitor
    PROVE  \A s \in DOMAIN outcome : s \in DOMAIN outcome' /\ outcome'[s] = outcome[s]
  <1>1. CASE Collect
    <2>1. PICK o \in Outcome : outcome' = Append(outcome, o) BY <1>1 DEF Collect
    <2>2. outcome \in Seq(Outcome) BY DEF TypeOK
    <2> QED BY <2>1, <2>2
  <1>2. CASE AlertChange \/ DeleteMonitor \/ CreateMonitor
    <2>1. outcome' = outcome BY <1>2 DEF AlertChange, DeleteMonitor, CreateMonitor
    <2> QED BY <2>1
  <1> QED BY <1>1, <1>2

(* The steps of the rest of the program keep the inductive invariant.      *)
LEMMA EnvironmentInv ==
    ASSUME IInv, Collect \/ AlertChange \/ DeleteMonitor \/ CreateMonitor
    PROVE  IInv'
  <1> USE DEF Progress, LocksFollowProgress, LockedRowsAreCurrent, ObserveFacts,
              ResolveFacts, DisposeFacts, NextVersion
  <1>0. TypeOK /\ TypeOK' BY TypeEnvironment DEF IInv
  <1>1. UNCHANGED <<pc, job, read, write, signal, internalCase, caseEvents>>
    BY DEF Collect, AlertChange, DeleteMonitor, CreateMonitor, locals
  <1>2. \A w \in Worker : \A table \in Table : Wrote(w, table)' <=> Wrote(w, table)
    BY <1>1 DEF Wrote, Table
  <1>3. LocksAreExclusive' BY <1>2 DEF IInv, LocksAreExclusive
  <1>4. AbsentRows' BY <1>1 DEF IInv, AbsentRows
  <1>5. CaseHistoryIsAChain' BY <1>1 DEF IInv, CaseHistoryIsAChain
  <1>6. /\ alert' # alert => \A w \in Worker : ~Wrote(w, "alert")
        /\ alert # "resolved" => alert' # "resolved"
        /\ alert \in {"none", "resolved"} => alert' \in {"none", alert}
    BY DEF Collect, AlertChange, DeleteMonitor, CreateMonitor, NoAlertLock, AlertTransition,
           OperatorTransition, CanTransition
  <1>7. AlertFollowsSignal' BY <1>1, <1>6 DEF IInv, AlertFollowsSignal
  <1>8. \A s \in DOMAIN outcome : s \in DOMAIN outcome' /\ outcome'[s] = outcome[s]
    BY <1>0, OutcomesStay
  <1>9. ASSUME NEW w \in Worker PROVE Progress(w)'
    <2>1. Progress(w) BY DEF IInv
    <2>2. /\ SignalMoved(w)' <=> SignalMoved(w)
          /\ CaseMoved(w)' <=> CaseMoved(w)
      BY <1>1 DEF SignalMoved, CaseMoved
    <2>3. Wrote(w, "alert") => ~AlertMoved(w)' BY <1>1, <1>6, <2>1 DEF AlertMoved
    <2>4. LocksFollowProgress(w)' /\ LockedRowsAreCurrent(w)'
      BY <1>1, <1>2, <2>1, <2>2, <2>3 DEF Table
    <2>5. ObserveFacts(w)' BY <1>1, <1>2, <1>6, <2>1 DEF Table
    <2>6. ResolveFacts(w)' BY <1>1, <1>2, <1>6, <1>8, <2>1 DEF Table
    <2>7. DisposeFacts(w)' /\ NextVersion(w)' BY <1>1, <1>2, <2>1 DEF Table
    <2> QED BY <2>4, <2>5, <2>6, <2>7
  <1> QED BY <1>0, <1>3, <1>4, <1>5, <1>7, <1>9 DEF IInv

(* Every step keeps the inductive invariant.                               *)
LEMMA Inductive == IInv /\ [Next]_vars => IInv'
  <1> SUFFICES ASSUME IInv, [Next]_vars PROVE IInv'
    OBVIOUS
  <1>1. CASE UNCHANGED vars
    <2>1. UNCHANGED rows /\ \A x \in Worker : SameLocals(x)
      BY <1>1 DEF vars, rows, SameLocals
    <2>2. TypeOK' BY <1>1 DEF IInv, TypeOK, vars
    <2>3. \A x \in Worker : Progress(x)' BY <2>1, OthersProgress DEF IInv
    <2>4. \A x \in Worker : \A table \in Table : Wrote(x, table)' <=> Wrote(x, table)
      BY <1>1 DEF vars, Wrote, Table
    <2>5. LocksAreExclusive' BY <2>4 DEF IInv, LocksAreExclusive
    <2>6. AbsentRows' /\ AlertFollowsSignal' /\ CaseHistoryIsAChain'
      BY <1>1 DEF IInv, AbsentRows, AlertFollowsSignal, CaseHistoryIsAChain, vars
    <2> QED BY <2>2, <2>3, <2>5, <2>6 DEF IInv
  <1>2. CASE Next
    BY <1>2, ObserveInv, ResolveInv, DisposeInv, CommitInv, ThrowStep, EnvironmentInv
    DEF Next, Abort
  <1> QED BY <1>1, <1>2

(* The inductive invariant holds in every reachable state.                 *)
LEMMA Invariance == Spec => []IInv
  BY InitIInv, Inductive, PTL DEF Spec

(* The alert and the signal agree in every reachable state.                 *)
THEOREM AlertAgreement == Spec => []AlertFollowsSignal
  <1>1. IInv => AlertFollowsSignal BY DEF IInv
  <1> QED BY <1>1, Invariance, PTL

(* No disposition, reopen or resolution of a case is ever lost.             *)
THEOREM CaseHistory == Spec => []CaseHistoryIsAChain
  <1>1. IInv => CaseHistoryIsAChain BY DEF IInv
  <1> QED BY <1>1, Invariance, PTL
-----------------------------------------------------------------------------
(* Deadlock freedom.  Each place where a transaction can wait has a rank,   *)
(* and whoever holds the row waited for is at a place of lower rank.        *)

Rank(label) ==
    CASE label \in {"observe:notify", "resolve:close"} -> 1
      [] label = "observe:reopen" -> 2
      [] label \in {"observe:mark", "resolve:mark"} -> 3
      [] label \in {"resolve:transition", "dispose:update"} -> 4
      [] OTHER -> 0

(* The step that looks like a cycle is an observe that holds the signal and *)
(* waits for the case of a resolver: but then the case it read is closed,   *)
(* the one the resolver read is open, and both are the committed one.       *)
LEMMA WaitsDescend ==
    ASSUME IInv, NEW w \in Worker, NEW x \in Worker, WaitsFor(w, x)
    PROVE  Rank(pc[x]) < Rank(pc[w])
  <1> USE DEF Progress, LocksFollowProgress, LockedRowsAreCurrent, ObserveFacts,
              ResolveFacts, DisposeFacts
  <1>0. Progress(w) /\ Progress(x) /\ w # x BY DEF IInv, WaitsFor
  <1>1. CASE WaitsForAlert(w) /\ Wrote(x, "alert")
    <2>1. pc[x] = "commit" BY <1>0, <1>1
    <2>2. pc[w] \in {"observe:notify", "resolve:close"} BY <1>1 DEF WaitsForAlert
    <2>3. Rank(pc[x]) = 0 BY <2>1 DEF Rank
    <2>4. Rank(pc[w]) = 1 BY <2>2 DEF Rank
    <2> QED BY <2>3, <2>4
  <1>2. CASE WaitsForSignal(w) /\ Wrote(x, "signal")
    <2>1. pc[x] \in HoldsSignalPC \cup {"commit"} BY <1>0, <1>2
    <2>2. pc[w] \in {"observe:mark", "resolve:mark"} BY <1>2 DEF WaitsForSignal
    <2>3. Rank(pc[x]) \in 0 .. 2 BY <2>1 DEF Rank, HoldsSignalPC
    <2>4. Rank(pc[w]) = 3 BY <2>2 DEF Rank
    <2> QED BY <2>3, <2>4
  <1>3. CASE WaitsForCase(w) /\ Wrote(x, "case")
    <2>1. pc[x] \in HoldsCasePC BY <1>0, <1>3
    <2>2. CASE pc[w] = "observe:reopen"
      <3>1. Wrote(w, "signal") BY <1>0, <2>2 DEF HoldsSignalPC
      <3>2. ~Wrote(x, "signal")
        BY <1>0, <3>1 DEF IInv, LocksAreExclusive, Table
      <3>3. pc[x] \in {"resolve:mark", "commit"}
        BY <1>0, <2>1, <3>2 DEF HoldsSignalPC, HoldsCasePC
      <3>4. pc[x] # "resolve:mark"
        <4>1. SUFFICES ASSUME pc[x] = "resolve:mark" PROVE FALSE
          OBVIOUS
        <4>2. IsOpen(read[x].case)
          BY <1>0, <1>3, <4>1 DEF ResolvePC
        <4>3. read[x].case.status = internalCase.status
          BY <1>0, <1>3 DEF CaseMoved
        <4>4. read[w].case.status = internalCase.status /\ ~IsOpen(read[w].case)
          BY <1>3, <2>2 DEF WaitsForCase, CaseMoved, LeavesCase
        <4> QED BY <4>2, <4>3, <4>4 DEF IsOpen
      <3>5. Rank(pc[x]) = 0 BY <3>3, <3>4 DEF Rank
      <3>6. Rank(pc[w]) = 2 BY <2>2 DEF Rank
      <3> QED BY <3>5, <3>6
    <2>3. CASE pc[w] \in {"resolve:transition", "dispose:update"}
      <3>1. Rank(pc[x]) \in 0 .. 3 BY <2>1 DEF Rank, HoldsCasePC
      <3>2. Rank(pc[w]) = 4 BY <2>3 DEF Rank
      <3> QED BY <3>1, <3>2
    <2> QED BY <1>3, <2>2, <2>3 DEF WaitsForCase
  <1> QED BY <1>1, <1>2, <1>3 DEF WaitsFor

(* Five ranks do not descend for ever.                                      *)
LEMMA NoDescent ==
    ASSUME NEW S, NEW rank \in [S -> 0 .. 4], \A w \in S : \E x \in S : rank[x] < rank[w]
    PROVE  S = {}
  <1>1. \A w \in S : rank[w] \in Nat /\ rank[w] < 5 OBVIOUS
  <1>2. ASSUME NEW n \in 0 .. 4, \A w \in S : n <= rank[w]
        PROVE  \A w \in S : n + 1 <= rank[w]
    <2> TAKE w \in S
    <2>1. PICK x \in S : rank[x] < rank[w] OBVIOUS
    <2> QED BY <1>1, <1>2, <2>1
  <1>3. \A w \in S : 0 <= rank[w] BY <1>1
  <1>4. \A w \in S : 1 <= rank[w] BY <1>2, <1>3
  <1>5. \A w \in S : 2 <= rank[w] BY <1>2, <1>4
  <1>6. \A w \in S : 3 <= rank[w] BY <1>2, <1>5
  <1>7. \A w \in S : 4 <= rank[w] BY <1>2, <1>6
  <1>8. \A w \in S : 5 <= rank[w] BY <1>2, <1>7
  <1> QED BY <1>1, <1>8

(* Any set of workers has one of least rank, which waits for no other of    *)
(* the set: a worker of rank r + 1 is one step from the argument for r.     *)
LEMMA SomeoneIsFree ==
    ASSUME IInv, NEW cycle \in (SUBSET Worker) \ {{}}
    PROVE  \E w \in cycle : \A x \in cycle : ~WaitsFor(w, x)
  <1> SUFFICES ASSUME \A w \in cycle : \E x \in cycle : WaitsFor(w, x)
               PROVE  FALSE
    OBVIOUS
  <1> DEFINE rank == [w \in cycle |-> Rank(pc[w])]
  <1>1. \A label : Rank(label) \in 0 .. 4 BY DEF Rank
  <1>2. rank \in [cycle -> 0 .. 4] BY <1>1
  <1>3. \A w \in cycle : \E x \in cycle : rank[x] < rank[w]
    BY WaitsDescend
  <1> QED BY <1>2, <1>3, NoDescent

(* The transactions of the service never wait for each other in a cycle.    *)
THEOREM DeadlockFreedom == Spec => []LocksNeverCycle
  <1>1. IInv => LocksNeverCycle BY SomeoneIsFree DEF LocksNeverCycle
  <1> QED BY <1>1, Invariance, PTL
-----------------------------------------------------------------------------
(* Action properties.                                                       *)

(* The signal and the case change in commits only.                         *)
LEMMA OnlyCommitsWriteSignalAndCase ==
    ASSUME [Next]_vars, signal' # signal \/ internalCase' # internalCase
    PROVE  \E w \in Worker : Commit(w)
  <1> DEFINE Same == signal' = signal /\ internalCase' = internalCase
  <1>1. \A w \in Worker : Throw(w) \/ Conflict(w) => Same
    BY DEF Throw, Conflict, rows
  <1>2. ASSUME NEW w \in Worker, ObserveStep(w) PROVE Same
    BY <1>1, <1>2 DEF ObserveStep, StartObserve, ObserveReadsSignal, ObserveReadsCase,
       ObserveMarksSignal, ObserveOpensCase, ObserveReadsAlert, ObserveNotifies, rows
  <1>3. ASSUME NEW w \in Worker, ResolveStep(w) PROVE Same
    BY <1>1, <1>3 DEF ResolveStep, StartResolve, ResolveReadsCase, ResolveReadsSignal,
       ResolveTransitionsCase, ResolveMarksSignal, ResolveReadsAlert, ResolveClosesAlert, rows
  <1>4. ASSUME NEW w \in Worker, DisposeStep(w) \/ Abort(w) PROVE Same
    BY <1>1, <1>4 DEF DisposeStep, StartDispose, DisposeReadsCase, DisposeUpdatesCase, Abort, rows
  <1>5. ASSUME Collect \/ AlertChange \/ DeleteMonitor \/ CreateMonitor \/ UNCHANGED vars PROVE Same
    BY <1>5 DEF Collect, AlertChange, DeleteMonitor, CreateMonitor, vars, rows
  <1> HIDE DEF Same
  <1>6. ~Same BY DEF Same
  <1> QED BY <1>2, <1>3, <1>4, <1>5, <1>6 DEF Next

(* A signal never goes back, whatever order snapshots are finalized in.     *)
THEOREM SignalProgress == Spec => SignalMovesForward
  <1> DEFINE Forward == \/ signal.lastSeen < signal'.lastSeen
                        \/ /\ signal.lastSeen = signal'.lastSeen
                           /\ signal.status = "RESOLVED" => signal'.status = "RESOLVED"
  <1>1. ASSUME IInv, [Next]_vars PROVE Forward
    <2>1. CASE signal' = signal BY <2>1
    <2>2. CASE signal' # signal
      <3>1. PICK w \in Worker : Commit(w)
        BY <1>1, <2>2, OnlyCommitsWriteSignalAndCase
      <3>2. /\ TypeOK /\ AbsentRows
            /\ LocksFollowProgress(w) /\ LockedRowsAreCurrent(w)
            /\ ObserveFacts(w) /\ ResolveFacts(w)
        BY <1>1 DEF IInv, Progress
      <3>3. Wrote(w, "signal") /\ signal' = write[w].signal /\ pc[w] = "commit"
        BY <2>2, <3>1 DEF Commit
      <3>4. signal = read[w].signal BY <3>2, <3>3 DEF LockedRowsAreCurrent, SignalMoved
      <3>5. job[w].op \in {"observe", "resolve"}
        BY <3>2, <3>3 DEF LocksFollowProgress, HoldsSignalPC
      <3>6. CASE job[w].op = "resolve"
        BY <3>2, <3>3, <3>4, <3>6 DEF ResolveFacts
      <3>7. CASE job[w].op = "observe"
        <4>1. signal' = [status |-> "ACTIVE", lastSeen |-> job[w].snapshot]
          BY <3>2, <3>3, <3>7 DEF ObserveFacts
        <4>2. /\ NotOlder(signal, job[w].snapshot)
              /\ signal.status = "RESOLVED" => signal.lastSeen # job[w].snapshot
          BY <3>2, <3>3, <3>4, <3>7 DEF ObserveFacts, NewerThanResolution
        <4>3. signal.lastSeen \in Nat /\ job[w].snapshot \in Nat
          BY <3>2 DEF TypeOK, SignalRow, Job
        <4> QED BY <3>2, <4>1, <4>2, <4>3 DEF NotOlder, AbsentRows
      <3> QED BY <3>5, <3>6, <3>7
    <2> QED BY <2>1, <2>2
  <1>2. IInv /\ [Next]_vars => [Forward]_vars BY <1>1
  <1> QED BY <1>2, Invariance, PTL DEF Spec, SignalMovesForward

(* A case is resolved on fresh healthy evidence and with its signal, even   *)
(* when observations, other resolutions and dispositions overlap.           *)
THEOREM FreshResolution == Spec => CasesResolveOnFreshEvidence
  <1> DEFINE Fresh ==
        internalCase.status # "RESOLVED" /\ internalCase'.status = "RESOLVED" =>
          /\ signal'.status = "RESOLVED"
          /\ signal'.lastSeen < internalCase'.verification
          /\ outcome[internalCase'.verification] = "HEALTHY"
  <1>1. ASSUME IInv, [Next]_vars PROVE Fresh
    <2> SUFFICES ASSUME internalCase.status # "RESOLVED", internalCase'.status = "RESOLVED"
                 PROVE  /\ signal'.status = "RESOLVED"
                        /\ signal'.lastSeen < internalCase'.verification
                        /\ outcome[internalCase'.verification] = "HEALTHY"
      OBVIOUS
    <2>1. PICK w \in Worker : Commit(w)
      BY <1>1, OnlyCommitsWriteSignalAndCase
    <2>2. /\ LocksFollowProgress(w) /\ LockedRowsAreCurrent(w)
          /\ ObserveFacts(w) /\ ResolveFacts(w) /\ DisposeFacts(w)
      BY <1>1 DEF IInv, Progress
    <2>3. Wrote(w, "case") /\ internalCase' = write[w].case /\ pc[w] = "commit"
      BY <2>1 DEF Commit
    <2>4. internalCase.status = read[w].case.status
      BY <2>2, <2>3 DEF LockedRowsAreCurrent, CaseMoved
    <2>5. job[w].op = "resolve"
      BY <2>2, <2>3, <2>4 DEF LocksFollowProgress, ObserveFacts, DisposeFacts
    <2>6. Wrote(w, "signal") /\ signal' = write[w].signal
      BY <2>1, <2>2, <2>3, <2>5 DEF LocksFollowProgress, Commit
    <2>7. /\ signal' = [status |-> "RESOLVED", lastSeen |-> read[w].signal.lastSeen]
          /\ internalCase'.verification = job[w].snapshot
          /\ FreshForResolution(read[w].signal, read[w].case, job[w].snapshot)
          /\ outcome[job[w].snapshot] = "HEALTHY"
      BY <2>2, <2>3, <2>5, <2>6 DEF ResolveFacts
    <2> QED BY <2>7 DEF FreshForResolution
  <1>2. IInv /\ [Next]_vars => [Fresh]_vars BY <1>1
  <1> QED BY <1>2, Invariance, PTL DEF Spec, CasesResolveOnFreshEvidence
-----------------------------------------------------------------------------
(* The life of the alert.  A transaction decides on the alert it selects    *)
(* and writes it later: observe notifies of an alert that was absent or     *)
(* resolved, resolveCase closes one that was not.                           *)

AlertDecided(w) ==
    /\ \/ pc[w] = "observe:notify"
       \/ job[w].op = "observe" /\ Wrote(w, "alert")
       => read[w].alert \in {"none", "resolved"}
    /\ \/ pc[w] = "resolve:close"
       \/ job[w].op = "resolve" /\ Wrote(w, "alert")
       => read[w].alert \notin {"none", "resolved"}

AlertsDecided == \A w \in Worker : AlertDecided(w)

(* Nothing is decided before the alert is selected.                        *)
LEMMA Undecided ==
    ASSUME NEW w \in Worker, LocksFollowProgress(w),
           pc[w] \notin {"observe:notify", "resolve:close", "commit"}
    PROVE  AlertDecided(w)
  BY DEF AlertDecided, LocksFollowProgress

(* The selection decides.                                                  *)
LEMMA SelectingDecides ==
    ASSUME NEW w \in Worker, IInv, IInv', ObserveReadsAlert(w) \/ ResolveReadsAlert(w)
    PROVE  AlertDecided(w)'
  <1>1. TypeOK /\ LocksFollowProgress(w) /\ LocksFollowProgress(w)'
    BY DEF IInv, Progress
  <1>2. write' = write /\ job' = job /\ read'[w].alert = alert
    BY <1>1 DEF ObserveReadsAlert, ResolveReadsAlert, TypeOK, Rows
  <1>3. ~Wrote(w, "alert")
    BY <1>1 DEF ObserveReadsAlert, ResolveReadsAlert, LocksFollowProgress
  <1>4. ~Wrote(w, "alert")'
    BY <1>2, <1>3 DEF Wrote
  <1>5. /\ pc'[w] = "observe:notify" => alert \in {"none", "resolved"}
        /\ pc'[w] = "resolve:close" => alert \notin {"none", "resolved"}
    BY <1>1 DEF ObserveReadsAlert, ResolveReadsAlert, Goto, TypeOK
  <1> QED BY <1>2, <1>4, <1>5 DEF AlertDecided

(* The write keeps what was decided, and the operation it was decided for. *)
LEMMA WritingKeepsDecision ==
    ASSUME NEW w \in Worker, IInv, IInv', AlertDecided(w),
           ObserveNotifies(w) \/ ResolveClosesAlert(w)
    PROVE  AlertDecided(w)'
  <1>1. TypeOK /\ LocksFollowProgress(w) /\ LocksFollowProgress(w)'
    BY DEF IInv, Progress
  <1>2. CASE Throw(w)
    <2>1. pc'[w] = "idle" BY <1>1, <1>2 DEF Throw, Finish, TypeOK
    <2> QED BY <1>1, <2>1, Undecided DEF AlertDecided, LocksFollowProgress
  <1>3. CASE Conflict(w) /\ ~Throw(w)
    <2>1. pc'[w] = "observe:signal" BY <1>1, <1>3 DEF Conflict, Goto, TypeOK
    <2> QED BY <1>1, <2>1 DEF AlertDecided, LocksFollowProgress
  <1>4. CASE ~Throw(w) /\ ~Conflict(w)
    <2>1. pc'[w] = "commit" /\ job' = job /\ read' = read
      BY <1>1, <1>4 DEF ObserveNotifies, ResolveClosesAlert, Goto, TypeOK
    <2>2. \/ pc[w] = "observe:notify" /\ job[w].op = "observe"
          \/ pc[w] = "resolve:close" /\ job[w].op = "resolve"
      BY <1>1 DEF ObserveNotifies, ResolveClosesAlert, LocksFollowProgress, ObservePC, ResolvePC
    <2> QED BY <2>1, <2>2 DEF AlertDecided
  <1> QED BY <1>2, <1>3, <1>4

(* Every step of a worker keeps its decision.                              *)
LEMMA StepKeepsDecision ==
    ASSUME NEW w \in Worker, IInv, IInv', AlertDecided(w),
           ObserveStep(w) \/ ResolveStep(w) \/ DisposeStep(w) \/ Commit(w) \/ Abort(w)
    PROVE  AlertDecided(w)'
  <1>1. TypeOK /\ LocksFollowProgress(w) /\ LocksFollowProgress(w)'
    BY DEF IInv, Progress
  <1> DEFINE Before == pc'[w] \notin {"observe:notify", "resolve:close", "commit"}
  <1>2. ASSUME Before PROVE AlertDecided(w)'
    BY <1>1, <1>2 DEF AlertDecided, LocksFollowProgress
  <1> HIDE DEF Before
  <1>3. Throw(w) \/ Conflict(w) => Before
    BY <1>1 DEF Throw, Conflict, Finish, Goto, TypeOK, Before
  <1>4. ASSUME ObserveStep(w), ~ObserveReadsAlert(w), ~ObserveNotifies(w) PROVE Before
    <2>1. \/ Throw(w) \/ Conflict(w)
          \/ \E label \in {"observe:signal", "observe:case", "observe:mark", "observe:reopen",
                           "observe:alert"} : Goto(w, label)
      BY <1>4 DEF ObserveStep, StartObserve, ObserveReadsSignal, ObserveReadsCase,
                  ObserveMarksSignal, ObserveOpensCase
    <2> QED BY <1>1, <1>3, <2>1 DEF Goto, TypeOK, Before
  <1>5. ASSUME ResolveStep(w), ~ResolveReadsAlert(w), ~ResolveClosesAlert(w) PROVE Before
    <2>1. \/ Throw(w) \/ Conflict(w)
          \/ \E label \in {"resolve:case", "resolve:signal", "resolve:transition",
                           "resolve:mark", "resolve:alert"} : Goto(w, label)
      BY <1>5 DEF ResolveStep, StartResolve, ResolveReadsCase, ResolveReadsSignal,
                  ResolveTransitionsCase, ResolveMarksSignal
    <2> QED BY <1>1, <1>3, <2>1 DEF Goto, TypeOK, Before
  <1>6. CASE DisposeUpdatesCase(w) /\ ~Conflict(w)
    <2>1. job[w].op = "dispose" /\ job' = job /\ pc'[w] = "commit"
      BY <1>1, <1>6 DEF DisposeUpdatesCase, LocksFollowProgress, DisposePC, Goto, TypeOK
    <2> QED BY <2>1 DEF AlertDecided
  <1>7. ASSUME DisposeStep(w), ~(DisposeUpdatesCase(w) /\ ~Conflict(w)) PROVE Before
    <2>1. \/ Throw(w) \/ Conflict(w)
          \/ \E label \in {"dispose:case", "dispose:update"} : Goto(w, label)
      BY <1>7 DEF DisposeStep, StartDispose, DisposeReadsCase
    <2> QED BY <1>1, <1>3, <2>1 DEF Goto, TypeOK, Before
  <1>8. ASSUME Commit(w) \/ Abort(w) PROVE Before
    BY <1>1, <1>8 DEF Commit, Abort, Throw, Finish, TypeOK, Before
  <1> QED BY <1>2, <1>4, <1>5, <1>6, <1>7, <1>8, SelectingDecides, WritingKeepsDecision

(* A step of one worker leaves the other workers' variables alone.          *)
LEMMA StepsAreLocal ==
    ASSUME TypeOK, NEW w \in Worker,
           ObserveStep(w) \/ ResolveStep(w) \/ DisposeStep(w) \/ Commit(w) \/ Abort(w)
    PROVE  \A x \in Worker \ {w} : SameLocals(x)
  <1> USE DEF TypeOK, SameLocals, Goto, Finish, Throw, Conflict
  <1>1. CASE ObserveStep(w)
    BY <1>1 DEF ObserveStep, StartObserve, ObserveReadsSignal, ObserveReadsCase,
                ObserveMarksSignal, ObserveOpensCase, ObserveReadsAlert, ObserveNotifies
  <1>2. CASE ResolveStep(w)
    BY <1>2 DEF ResolveStep, StartResolve, ResolveReadsCase, ResolveReadsSignal,
                ResolveTransitionsCase, ResolveMarksSignal, ResolveReadsAlert,
                ResolveClosesAlert
  <1>3. CASE DisposeStep(w)
    BY <1>3 DEF DisposeStep, StartDispose, DisposeReadsCase, DisposeUpdatesCase
  <1>4. CASE Commit(w) BY <1>4 DEF Commit
  <1>5. CASE Abort(w) BY <1>5 DEF Abort
  <1> QED BY <1>1, <1>2, <1>3, <1>4, <1>5

(* Together with the inductive invariant the decisions are inductive.      *)
LEMMA DecisionsKept ==
    ASSUME IInv, AlertsDecided, [Next]_vars
    PROVE  AlertsDecided'
  <1>1. IInv' /\ TypeOK BY Inductive DEF IInv
  <1>2. ASSUME NEW x \in Worker, SameLocals(x) PROVE AlertDecided(x)'
    BY <1>2 DEF AlertsDecided, AlertDecided, SameLocals, Wrote
  <1>3. CASE \/ UNCHANGED vars \/ Collect \/ AlertChange \/ DeleteMonitor \/ CreateMonitor
    <2>1. \A x \in Worker : SameLocals(x)
      BY <1>3 DEF vars, locals, Collect, AlertChange, DeleteMonitor, CreateMonitor, SameLocals
    <2> QED BY <1>2, <2>1 DEF AlertsDecided
  <1>4. ASSUME NEW w \in Worker,
               ObserveStep(w) \/ ResolveStep(w) \/ DisposeStep(w) \/ Commit(w) \/ Abort(w)
        PROVE  AlertsDecided'
    <2>1. AlertDecided(w)' BY <1>1, <1>4, StepKeepsDecision DEF AlertsDecided
    <2>2. \A x \in Worker \ {w} : AlertDecided(x)' BY <1>1, <1>2, <1>4, StepsAreLocal
    <2> QED BY <2>1, <2>2 DEF AlertsDecided
  <1> QED BY <1>3, <1>4 DEF Next

LEMMA Decisions == Spec => [](IInv /\ AlertsDecided)
  <1>1. Init => AlertsDecided
    BY DEF Init, AlertsDecided, AlertDecided, Wrote, NoRows
  <1>2. IInv /\ AlertsDecided /\ [Next]_vars => (IInv /\ AlertsDecided)'
    BY Inductive, DecisionsKept
  <1> QED BY <1>1, <1>2, InitIInv, PTL DEF Spec

(* The alert changes in commits, in the moves of senders and operators, and *)
(* with the deletion of the monitored domain.                               *)
LEMMA OnlySomeStepsMoveAlerts ==
    ASSUME [Next]_vars, alert' # alert
    PROVE  AlertChange \/ DeleteMonitor \/ \E w \in Worker : Commit(w)
  <1> DEFINE Same == alert' = alert
  <1>1. \A w \in Worker : Throw(w) \/ Conflict(w) => Same
    BY DEF Throw, Conflict, rows
  <1>2. ASSUME NEW w \in Worker, ObserveStep(w) PROVE Same
    BY <1>1, <1>2 DEF ObserveStep, StartObserve, ObserveReadsSignal, ObserveReadsCase,
       ObserveMarksSignal, ObserveOpensCase, ObserveReadsAlert, ObserveNotifies, rows
  <1>3. ASSUME NEW w \in Worker, ResolveStep(w) PROVE Same
    BY <1>1, <1>3 DEF ResolveStep, StartResolve, ResolveReadsCase, ResolveReadsSignal,
       ResolveTransitionsCase, ResolveMarksSignal, ResolveReadsAlert, ResolveClosesAlert, rows
  <1>4. ASSUME NEW w \in Worker, DisposeStep(w) \/ Abort(w) PROVE Same
    BY <1>1, <1>4 DEF DisposeStep, StartDispose, DisposeReadsCase, DisposeUpdatesCase, Abort, rows
  <1>5. ASSUME Collect \/ CreateMonitor \/ UNCHANGED vars PROVE Same
    BY <1>5 DEF Collect, CreateMonitor, vars
  <1> HIDE DEF Same
  <1>6. ~Same BY DEF Same
  <1> QED BY <1>2, <1>3, <1>4, <1>5, <1>6 DEF Next

(* Each of them is a step of AlertLifecycle.                               *)
LEMMA AlertMoves == IInv /\ AlertsDecided /\ [Next]_vars => [Alerts!Next]_alert
  <1> SUFFICES ASSUME IInv, AlertsDecided, [Next]_vars, alert' # alert
               PROVE  Alerts!Next
    OBVIOUS
  <1>1. CASE AlertChange
    <2>1. PICK to \in AlertStatus : AlertTransition(alert, to) /\ alert' = to
      BY <1>1 DEF AlertChange
    <2>2. to \in Alerts!AlertStatus
      BY DEF AlertStatus, Alerts!AlertStatus
    <2>3. Alerts!AlertTransition(alert, to)
      BY <2>1 DEF AlertTransition, OperatorTransition, CanTransition,
                  Alerts!AlertTransition, Alerts!OperatorTransition, Alerts!CanTransition
    <2>4. Alerts!Answer BY <2>1, <2>2, <2>3 DEF Alerts!Answer
    <2> QED BY <2>4 DEF Alerts!Next
  <1>2. CASE DeleteMonitor
    BY <1>2 DEF DeleteMonitor, Alerts!Next, Alerts!Delete
  <1>3. ASSUME NEW w \in Worker, Commit(w) PROVE Alerts!Next
    <2>1. Wrote(w, "alert") /\ alert' = write[w].alert
      BY <1>3 DEF Commit
    <2>2. /\ LocksFollowProgress(w) /\ LockedRowsAreCurrent(w)
          /\ ObserveFacts(w) /\ ResolveFacts(w) /\ AlertDecided(w)
      BY DEF IInv, Progress, AlertsDecided
    <2>3. alert = read[w].alert
      BY <2>1, <2>2 DEF LockedRowsAreCurrent, AlertMoved
    <2>4. job[w].op \in {"observe", "resolve"}
      BY <2>1, <2>2 DEF LocksFollowProgress
    <2>5. CASE job[w].op = "observe"
      <3>1. alert \in {"none", "resolved"} /\ alert' = "pending"
        BY <2>1, <2>2, <2>3, <2>5 DEF AlertDecided, ObserveFacts
      <3> QED BY <3>1 DEF Alerts!Next, Alerts!Notify
    <2>6. CASE job[w].op = "resolve"
      <3>1. alert \notin {"none", "resolved"} /\ alert' = "resolved"
        BY <2>1, <2>2, <2>3, <2>6 DEF AlertDecided, ResolveFacts
      <3> QED BY <3>1 DEF Alerts!Next, Alerts!Close
    <2> QED BY <2>4, <2>5, <2>6
  <1> QED BY <1>1, <1>2, <1>3, OnlySomeStepsMoveAlerts

(* The transactions implement the life of an alert that AlertDelivery takes *)
(* for granted: what observe or resolveCase decided on the alert it selected *)
(* still holds of the alert it commits to, with any number of resolvers.    *)
THEOREM AlertRefinement == Spec => ImplementsAlertLifecycle
  <1>1. Init => Alerts!Init
    BY DEF Init, Alerts!Init
  <1> QED BY <1>1, AlertMoves, Decisions, PTL
          DEF Spec, ImplementsAlertLifecycle, Alerts!Spec
-----------------------------------------------------------------------------
(* One resolver at a time.  With SerialResolves every commit is one of the  *)
(* atomic operations of ConditionLifecycle, because of what the transaction *)
(* has read relates to the rows it finds when it commits.                   *)

(* Strictly grows with every change of the signal.                          *)
SignalAge(sig) ==
    CASE sig.status = "NONE" -> 0
      [] sig.status = "ACTIVE" -> 2 * sig.lastSeen + 1
      [] OTHER -> 2 * sig.lastSeen + 2

(* The committed rows of signal and case, between the atomic operations.    *)
RowsAgree ==
    /\ SignalAndCaseAgree
    /\ signal.status = "NONE" => signal = NoSignal
    /\ internalCase.status = "NONE" => internalCase = NoCase
    /\ internalCase.status # "DISMISSED"
    /\ internalCase.updatedAt <= Now

OneResolver ==
    \A w, x \in Worker : job[w].op = "resolve" /\ job[x].op = "resolve" => w = x

(* A row that was read and is still there is the row as it is: versions and *)
(* the signal's age never come back.                                        *)
ReadsAreOlder(w) ==
    /\ SignalAge(read[w].signal) <= SignalAge(signal)
    /\ read[w].case.version <= internalCase.version
    /\ read[w].case.version = internalCase.version => read[w].case = internalCase
    /\ read[w].case.status = "NONE" => read[w].case = NoCase
    /\ read[w].case.updatedAt <= Now

(* The case a transaction has written is computed from the one it has read. *)
CaseAfter(w, t) ==
    CASE job[w].op = "resolve" ->
              Transitioned(read[w].case, "RESOLVED", job[w].snapshot, t)
      [] job[w].op = "dispose" -> Disposed(read[w].case, t)
      [] OTHER -> IF read[w].case.status = "NONE" THEN OpenedCase(t)
                  ELSE Transitioned(read[w].case, "OPEN", 0, t)
WritesFollowReads(w) ==
    Wrote(w, "case") =>
        \E t \in read[w].case.updatedAt .. Now : write[w].case = CaseAfter(w, t)

(* An observe that leaves the case alone has read it open, and an open case *)
(* beside the signal it still finds means that the signal is active.        *)
SerialObserve(w) ==
    job[w].op = "observe" =>
        /\ job[w].snapshot \in DOMAIN outcome
        /\ outcome[job[w].snapshot] = "FAULTY"
        /\ /\ pc[w] \notin {"observe:signal", "observe:case"}
           /\ ~SignalMoved(w)
           /\ IsOpen(read[w].case)
           => read[w].signal.status = "ACTIVE"
        /\ /\ pc[w] \in {"observe:alert", "observe:notify", "commit"}
           /\ ~Wrote(w, "case")
           => IsOpen(read[w].case)
        /\ pc[w] = "observe:notify" \/ Wrote(w, "alert") =>
              read[w].alert \in {"none", "resolved"}
        /\ Wrote(w, "alert") /\ read[w].alert = "none" => monitor.live

(* The case stays open while its only resolver runs.                        *)
SerialResolve(w) ==
    job[w].op = "resolve" =>
        /\ IsOpen(internalCase)
        /\ pc[w] # "resolve:case" => IsOpen(read[w].case)
        /\ pc[w] \in {"resolve:mark", "resolve:alert", "resolve:close", "commit"} =>
              Wrote(w, "case")
        /\ pc[w] = "resolve:close" \/ Wrote(w, "alert") =>
              read[w].alert \notin {"none", "resolved"}

SerialDispose(w) ==
    job[w].op = "dispose" =>
        /\ job[w].version < MaxVersion
        /\ pc[w] # "dispose:case" => read[w].case.version = job[w].version

SerialProgress(w) ==
    /\ ReadsAreOlder(w)
    /\ WritesFollowReads(w)
    /\ SerialObserve(w)
    /\ SerialResolve(w)
    /\ SerialDispose(w)

SInv ==
    /\ RowsAgree
    /\ OneResolver
    /\ \A w \in Worker : SerialProgress(w)

(* Ages are compared as numbers.                                            *)
LEMMA SignalAgeType == ASSUME NEW sig \in SignalRow PROVE SignalAge(sig) \in Nat
  BY DEF SignalRow, SignalAge

(* A case that is locked by a transaction is the one it has read.           *)
LEMMA LockedCaseIsRead ==
    ASSUME IInv, NEW w \in Worker, SerialProgress(w), Wrote(w, "case")
    PROVE  /\ internalCase = read[w].case
           /\ \E t \in internalCase.updatedAt .. Now : write[w].case = CaseAfter(w, t)
  <1>1. read[w].case.version = internalCase.version
    BY DEF IInv, Progress, LockedRowsAreCurrent, CaseMoved
  <1>2. internalCase = read[w].case
    BY <1>1 DEF SerialProgress, ReadsAreOlder
  <1> QED BY <1>2 DEF SerialProgress, WritesFollowReads

(* So is a signal that is locked.                                           *)
LEMMA LockedSignalIsRead ==
    ASSUME IInv, NEW w \in Worker, Wrote(w, "signal")
    PROVE  signal = read[w].signal
  BY DEF IInv, Progress, LockedRowsAreCurrent, SignalMoved

(* The commit of an observe is the atomic Observe.                          *)
LEMMA ObserveCommits ==
    ASSUME IInv, SInv, NEW w \in Worker, Commit(w), job[w].op = "observe"
    PROVE  /\ job[w].snapshot \in DOMAIN outcome
           /\ Lifecycle!Observe(job[w].snapshot)
  <1> DEFINE s == job[w].snapshot
  <1>0. /\ TypeOK /\ Progress(w) /\ SerialProgress(w) /\ pc[w] = "commit"
        /\ RowsAgree /\ SignalAndCaseAgree
    BY DEF IInv, SInv, Commit, RowsAgree
  <1>1. Wrote(w, "signal") /\ signal' = write[w].signal /\ signal = read[w].signal
    BY <1>0, LockedSignalIsRead DEF Progress, LocksFollowProgress, Commit
  <1>2. signal' = [status |-> "ACTIVE", lastSeen |-> s]
    BY <1>0, <1>1 DEF Progress, ObserveFacts
  <1>3. s \in DOMAIN outcome /\ outcome[s] = "FAULTY" /\ NotOlder(signal, s)
    BY <1>0, <1>1 DEF SerialProgress, SerialObserve, Progress, ObserveFacts
  <1>4. IsOpen(read[w].case) => signal.status = "ACTIVE"
    BY <1>0, <1>1 DEF SerialProgress, SerialObserve, SignalMoved
  <1>5. IF Wrote(w, "case")
        THEN ~IsOpen(internalCase) /\ internalCase = read[w].case
        ELSE IsOpen(internalCase) /\ signal.status = "ACTIVE"
    <2>1. CASE Wrote(w, "case")
      BY <1>0, <2>1, LockedCaseIsRead DEF Progress, ObserveFacts
    <2>2. CASE ~Wrote(w, "case")
      <3>1. signal.status = "ACTIVE"
        BY <1>0, <1>4, <2>2 DEF SerialProgress, SerialObserve
      <3>2. internalCase.status \notin {"NONE", "RESOLVED", "DISMISSED"}
        BY <1>0, <3>1 DEF RowsAgree, SignalAndCaseAgree
      <3> QED BY <2>2, <3>1, <3>2 DEF IsOpen, Closed
    <2> QED BY <2>1, <2>2
  <1>6. NewerThanResolution(signal, internalCase, s)
    BY <1>0, <1>1, <1>5 DEF Progress, ObserveFacts, NewerThanResolution
  <1>7. \/ /\ ~IsOpen(internalCase)
           /\ \E t \in Lifecycle!WriteTimes :
                 Lifecycle!CaseBecomes(
                    IF internalCase.status = "NONE" THEN OpenedCase(t)
                    ELSE Transitioned(internalCase, "OPEN", 0, t))
        \/ /\ IsOpen(internalCase)
           /\ UNCHANGED <<internalCase, caseEvents>>
    <2>1. CASE Wrote(w, "case")
      <3>1. PICK t \in internalCase.updatedAt .. Now : write[w].case = CaseAfter(w, t)
        BY <1>0, <2>1, LockedCaseIsRead
      <3>2. /\ internalCase' = write[w].case
            /\ caseEvents' = Append(caseEvents, EventOf(internalCase, write[w].case))
        BY <1>5, <2>1 DEF Commit
      <3>3. write[w].case = IF internalCase.status = "NONE" THEN OpenedCase(t)
                            ELSE Transitioned(internalCase, "OPEN", 0, t)
        BY <1>5, <2>1, <3>1 DEF CaseAfter
      <3>4. t \in Lifecycle!WriteTimes
        BY <3>1 DEF Lifecycle!WriteTimes, Lifecycle!Now, Now
      <3>5. Lifecycle!CaseBecomes(write[w].case)
        BY <3>2 DEF Lifecycle!CaseBecomes, Lifecycle!EventOf, EventOf
      <3> QED BY <1>5, <2>1, <3>3, <3>4, <3>5
    <2>2. CASE ~Wrote(w, "case")
      BY <1>5, <2>2 DEF Commit
    <2> QED BY <2>1, <2>2
  <1>8. (CASE alert = "resolved" -> alert' = "pending"
           [] alert = "none" -> alert' \in {"none"} \cup {a \in {"pending"} : monitor.live}
           [] OTHER -> alert' = alert)
    <2>1. CASE Wrote(w, "alert")
      <3>1. alert' = "pending" /\ alert = read[w].alert
        BY <1>0, <2>1 DEF Commit, Progress, LockedRowsAreCurrent, AlertMoved, ObserveFacts
      <3>2. alert \in {"none", "resolved"} /\ (alert = "none" => monitor.live)
        BY <1>0, <2>1, <3>1 DEF SerialProgress, SerialObserve
      <3> QED BY <3>1, <3>2
    <2>2. CASE ~Wrote(w, "alert")
      <3>1. alert' = alert /\ alert # "resolved"
        BY <1>0, <2>2 DEF Commit, Progress, ObserveFacts
      <3> QED BY <3>1
    <2> QED BY <2>1, <2>2
  <1>9. UNCHANGED <<outcome, monitor>> BY DEF Commit
  <1> HIDE DEF s
  <1> QED BY <1>2, <1>3, <1>6, <1>7, <1>8, <1>9
          DEF s, Lifecycle!Observe, Lifecycle!NotOlder, NotOlder, Lifecycle!NewerThanResolution,
              NewerThanResolution, Lifecycle!IsOpen, IsOpen, Lifecycle!Closed, Closed,
              Lifecycle!OpenedCase, OpenedCase, Lifecycle!Transitioned, Transitioned

(* The commit of a resolveCase is the atomic Resolve.                       *)
LEMMA ResolveCommits ==
    ASSUME IInv, SInv, NEW w \in Worker, Commit(w), job[w].op = "resolve"
    PROVE  /\ job[w].snapshot \in DOMAIN outcome
           /\ Lifecycle!Resolve(job[w].snapshot)
  <1> DEFINE s == job[w].snapshot
  <1>0. TypeOK /\ Progress(w) /\ SerialProgress(w) /\ pc[w] = "commit"
    BY DEF IInv, SInv, Commit
  <1>1. Wrote(w, "signal") /\ signal' = write[w].signal /\ signal = read[w].signal
    BY <1>0, LockedSignalIsRead DEF Progress, LocksFollowProgress, Commit
  <1>2. signal' = [signal EXCEPT !.status = "RESOLVED"]
    <2>1. signal' = [status |-> "RESOLVED", lastSeen |-> signal.lastSeen]
      BY <1>0, <1>1 DEF Progress, ResolveFacts
    <2> QED BY <1>0, <2>1 DEF TypeOK, SignalRow
  <1>3. Wrote(w, "case") /\ IsOpen(internalCase)
    BY <1>0 DEF SerialProgress, SerialResolve
  <1>4. internalCase = read[w].case
    BY <1>0, <1>3, LockedCaseIsRead
  <1>5. s \in DOMAIN outcome /\ outcome[s] = "HEALTHY"
        /\ FreshForResolution(signal, internalCase, s)
    BY <1>0, <1>1, <1>4 DEF Progress, ResolveFacts
  <1>6. \E t \in Lifecycle!WriteTimes :
           Lifecycle!CaseBecomes(Transitioned(internalCase, "RESOLVED", s, t))
    <2>1. PICK t \in internalCase.updatedAt .. Now : write[w].case = CaseAfter(w, t)
      BY <1>0, <1>3, LockedCaseIsRead
    <2>2. /\ internalCase' = write[w].case
          /\ caseEvents' = Append(caseEvents, EventOf(internalCase, write[w].case))
      BY <1>3, <1>4 DEF Commit
    <2>3. write[w].case = Transitioned(internalCase, "RESOLVED", s, t)
      BY <1>4, <2>1 DEF CaseAfter
    <2>4. t \in Lifecycle!WriteTimes
      BY <2>1 DEF Lifecycle!WriteTimes, Lifecycle!Now, Now
    <2>5. Lifecycle!CaseBecomes(write[w].case)
      BY <2>2 DEF Lifecycle!CaseBecomes, Lifecycle!EventOf, EventOf
    <2> QED BY <2>3, <2>4, <2>5
  <1>7. alert' = IF alert = "none" THEN alert ELSE "resolved"
    <2>1. CASE Wrote(w, "alert")
      <3>1. alert' = "resolved" /\ alert = read[w].alert
        BY <1>0, <2>1 DEF Commit, Progress, LockedRowsAreCurrent, AlertMoved, ResolveFacts
      <3> QED BY <1>0, <2>1, <3>1 DEF SerialProgress, SerialResolve
    <2>2. CASE ~Wrote(w, "alert")
      BY <1>0, <2>2 DEF Commit, Progress, ResolveFacts
    <2> QED BY <2>1, <2>2
  <1>8. UNCHANGED <<outcome, monitor>> BY DEF Commit
  <1> HIDE DEF s
  <1> QED BY <1>2, <1>3, <1>5, <1>6, <1>7, <1>8
          DEF s, Lifecycle!Resolve, Lifecycle!FreshForResolution, FreshForResolution,
              Lifecycle!IsOpen, IsOpen, Lifecycle!Closed, Closed,
              Lifecycle!Transitioned, Transitioned

(* The commit of a setCaseDisposition is the atomic Dispose.                *)
LEMMA DisposeCommits ==
    ASSUME IInv, SInv, NEW w \in Worker, Commit(w), job[w].op = "dispose"
    PROVE  Lifecycle!Dispose \/ UNCHANGED Lifecycle!vars
  <1>0. TypeOK /\ Progress(w) /\ SerialProgress(w) /\ pc[w] = "commit"
    BY DEF IInv, SInv, Commit
  <1>1. ~Wrote(w, "signal") /\ ~Wrote(w, "alert")
    BY <1>0 DEF Progress, LocksFollowProgress, HoldsSignalPC
  <1>2. UNCHANGED <<outcome, monitor, signal, alert>> BY <1>1 DEF Commit
  <1>3. CASE ~Wrote(w, "case")
    BY <1>2, <1>3 DEF Commit, Lifecycle!vars
  <1>4. CASE Wrote(w, "case")
    <2>1. internalCase = read[w].case
      BY <1>0, <1>4, LockedCaseIsRead
    <2>2. internalCase.status # "NONE" /\ internalCase.version < MaxVersion
      BY <1>0, <2>1 DEF Progress, DisposeFacts, SerialProgress, SerialDispose
    <2>3. PICK t \in internalCase.updatedAt .. Now : write[w].case = CaseAfter(w, t)
      BY <1>0, <1>4, LockedCaseIsRead
    <2>4. /\ internalCase' = write[w].case
          /\ caseEvents' = Append(caseEvents, EventOf(internalCase, write[w].case))
      BY <1>4, <2>1 DEF Commit
    <2>5. write[w].case = Disposed(internalCase, t)
      BY <2>1, <2>3 DEF CaseAfter
    <2>6. t \in Lifecycle!WriteTimes
      BY <2>3 DEF Lifecycle!WriteTimes, Lifecycle!Now, Now
    <2>7. Lifecycle!CaseBecomes(Disposed(internalCase, t))
      BY <2>4, <2>5 DEF Lifecycle!CaseBecomes, Lifecycle!EventOf, EventOf
    <2> QED BY <1>2, <2>2, <2>6, <2>7
            DEF Lifecycle!Dispose, Lifecycle!Disposed, Disposed,
                Lifecycle!Transitioned, Transitioned
  <1> QED BY <1>3, <1>4

(* The steps of the rest of the program are those of the lifecycle.         *)
LEMMA EnvironmentSimulates ==
    /\ Collect => Lifecycle!Collect
    /\ AlertChange => Lifecycle!AlertChange
    /\ DeleteMonitor => Lifecycle!DeleteMonitor
    /\ CreateMonitor => Lifecycle!CreateMonitor
  <1>1. Collect => Lifecycle!Collect
    BY DEF Collect, Now, Outcome, Lifecycle!Collect, Lifecycle!Now, Lifecycle!Outcome
  <1>2. AlertChange => Lifecycle!AlertChange
    BY DEF AlertChange, AlertStatus, AlertTransition, OperatorTransition, CanTransition,
           Lifecycle!AlertChange, Lifecycle!AlertStatus, Lifecycle!AlertTransition,
           Lifecycle!OperatorTransition, Lifecycle!CanTransition
  <1>3. DeleteMonitor => Lifecycle!DeleteMonitor
    BY DEF DeleteMonitor, Lifecycle!DeleteMonitor
  <1>4. CreateMonitor => Lifecycle!CreateMonitor
    BY DEF CreateMonitor, Lifecycle!CreateMonitor
  <1> QED BY <1>1, <1>2, <1>3, <1>4

(* A statement that is neither a commit nor a step of the rest of the       *)
(* program leaves the committed rows alone.                                 *)
LEMMA StatementsStutter ==
    ASSUME NEW w \in Worker,
           ObserveStep(w) \/ ResolveStep(w) \/ DisposeStep(w) \/ Abort(w)
    PROVE  UNCHANGED rows
  BY DEF rows, Throw, Conflict, Abort,
         ObserveStep, StartObserve, ObserveReadsSignal, ObserveReadsCase,
         ObserveMarksSignal, ObserveOpensCase, ObserveReadsAlert, ObserveNotifies,
         ResolveStep, StartResolve, ResolveReadsCase, ResolveReadsSignal,
         ResolveTransitionsCase, ResolveMarksSignal, ResolveReadsAlert,
         ResolveClosesAlert, DisposeStep, StartDispose, DisposeReadsCase,
         DisposeUpdatesCase

(* Every step is a step of the lifecycle or leaves its variables alone.     *)
LEMMA StepSimulates ==
    ASSUME IInv, SInv, [Next]_vars
    PROVE  [Lifecycle!Next]_(Lifecycle!vars)
  <1>1. CASE UNCHANGED vars BY <1>1 DEF vars, Lifecycle!vars
  <1>2. ASSUME NEW w \in Worker,
               ObserveStep(w) \/ ResolveStep(w) \/ DisposeStep(w) \/ Abort(w)
        PROVE  UNCHANGED Lifecycle!vars
    BY <1>2, StatementsStutter DEF rows, Lifecycle!vars
  <1>3. ASSUME NEW w \in Worker, Commit(w)
        PROVE  [Lifecycle!Next]_(Lifecycle!vars)
    <2>1. job[w].op \in {"observe", "resolve", "dispose"}
      BY <1>3 DEF IInv, Progress, LocksFollowProgress, Commit
    <2> QED BY <1>3, <2>1, ObserveCommits, ResolveCommits, DisposeCommits
            DEF Lifecycle!Next
  <1>4. CASE Collect \/ AlertChange \/ DeleteMonitor \/ CreateMonitor
    BY <1>4, EnvironmentSimulates DEF Lifecycle!Next
  <1> QED BY <1>1, <1>2, <1>3, <1>4 DEF Next
-----------------------------------------------------------------------------
(* What an atomic operation does to the rows the transactions have read.    *)

(* A snapshot's outcome stays, and a signal or a case that has changed      *)
(* never comes back.                                                        *)
RowsMoveOn ==
    /\ Now <= Now'
    /\ \A s \in DOMAIN outcome : s \in DOMAIN outcome' /\ outcome'[s] = outcome[s]
    /\ signal' = signal \/ SignalAge(signal) < SignalAge(signal')
    /\ internalCase' = internalCase \/ internalCase.version < internalCase'.version

(* Observe makes the signal active and the case open: they agree, and both  *)
(* move on unless the same snapshot is observed again.                      *)
LEMMA ObserveMovesOn ==
    ASSUME TypeOK, RowsAgree, NEW s \in DOMAIN outcome, Lifecycle!Observe(s)
    PROVE  /\ RowsAgree' /\ RowsMoveOn
           /\ IsOpen(internalCase) => IsOpen(internalCase)'
  <1> USE DEF Lifecycle!Now, Now
  <1>0. /\ signal \in SignalRow /\ internalCase \in CaseRow /\ s \in Nat \ {0} /\ Now \in Nat
        /\ UNCHANGED <<outcome, monitor>>
    BY DEF TypeOK, Lifecycle!Observe
  <1>1. signal' = [status |-> "ACTIVE", lastSeen |-> s] /\ signal'.status = "ACTIVE"
    BY DEF Lifecycle!Observe
  <1>2. signal' = signal \/ SignalAge(signal) < SignalAge(signal')
    <2>1. SignalAge(signal') = 2 * s + 1 BY <1>1 DEF SignalAge
    <2>2. CASE signal.status = "NONE"
      BY <1>0, <2>1, <2>2 DEF SignalAge
    <2>3. CASE signal.status = "ACTIVE"
      <3>1. signal.lastSeen <= s BY <2>3 DEF Lifecycle!Observe, Lifecycle!NotOlder
      <3>2. CASE signal.lastSeen = s BY <1>0, <1>1, <2>3, <3>2 DEF SignalRow
      <3>3. CASE signal.lastSeen # s
        BY <1>0, <2>1, <2>3, <3>1, <3>3 DEF SignalRow, SignalAge
      <3> QED BY <3>2, <3>3
    <2>4. CASE signal.status = "RESOLVED"
      <3>1. signal.lastSeen <= s /\ signal.lastSeen # s
        BY <2>4 DEF Lifecycle!Observe, Lifecycle!NotOlder, Lifecycle!NewerThanResolution
      <3> QED BY <1>0, <2>1, <2>4, <3>1 DEF SignalRow, SignalAge
    <2> QED BY <1>0, <2>2, <2>3, <2>4 DEF SignalRow, SignalStatus
  <1>3. CASE IsOpen(internalCase)
    <2>1. UNCHANGED internalCase
      BY <1>3 DEF Lifecycle!Observe, Lifecycle!IsOpen, IsOpen, Lifecycle!Closed, Closed
    <2>2. RowsAgree'
      BY <1>0, <1>1, <1>3, <2>1 DEF RowsAgree, SignalAndCaseAgree, IsOpen, Closed
    <2> QED BY <1>0, <1>2, <1>3, <2>1, <2>2 DEF RowsMoveOn
  <1>4. CASE ~IsOpen(internalCase)
    <2>1. PICK t \in internalCase.updatedAt .. Now :
            internalCase' = IF internalCase.status = "NONE" THEN OpenedCase(t)
                            ELSE Transitioned(internalCase, "OPEN", 0, t)
      BY <1>4 DEF Lifecycle!Observe, Lifecycle!IsOpen, IsOpen, Lifecycle!Closed, Closed,
             Lifecycle!WriteTimes, Lifecycle!CaseBecomes, Lifecycle!OpenedCase, OpenedCase,
             Lifecycle!Transitioned, Transitioned
    <2>2. /\ internalCase'.status = "OPEN" /\ internalCase'.updatedAt = t
          /\ internalCase.version < internalCase'.version
      <3>1. CASE internalCase.status = "NONE"
        <4>1. internalCase.version = 0 BY <3>1 DEF RowsAgree, NoCase
        <4> QED BY <2>1, <3>1, <4>1 DEF OpenedCase
      <3>2. CASE internalCase.status # "NONE"
        <4>1. internalCase'.version = internalCase.version + 1
          BY <2>1, <3>2 DEF Transitioned
        <4> QED BY <1>0, <2>1, <3>2, <4>1 DEF Transitioned, CaseRow
      <3> QED BY <3>1, <3>2
    <2>3. t <= Now' BY <1>0, <2>1 DEF CaseRow
    <2>4. RowsAgree'
      BY <1>1, <2>2, <2>3 DEF RowsAgree, SignalAndCaseAgree
    <2> QED BY <1>0, <1>2, <1>4, <2>2, <2>4 DEF RowsMoveOn
  <1> QED BY <1>3, <1>4

(* Resolve moves both to RESOLVED, from an active signal.                   *)
LEMMA ResolveMovesOn ==
    ASSUME TypeOK, RowsAgree, NEW s \in DOMAIN outcome, Lifecycle!Resolve(s)
    PROVE  RowsAgree' /\ RowsMoveOn
  <1> USE DEF Lifecycle!Now, Now
  <1>0. /\ signal \in SignalRow /\ internalCase \in CaseRow /\ Now \in Nat
        /\ UNCHANGED <<outcome, monitor>>
    BY DEF TypeOK, Lifecycle!Resolve
  <1>1. signal.status = "ACTIVE"
    BY <1>0 DEF Lifecycle!Resolve, Lifecycle!IsOpen, Lifecycle!Closed, RowsAgree,
           SignalAndCaseAgree, SignalRow, SignalStatus
  <1>2. signal'.status = "RESOLVED" /\ signal'.lastSeen = signal.lastSeen
    BY <1>0 DEF Lifecycle!Resolve, SignalRow
  <1>3. SignalAge(signal) < SignalAge(signal')
    BY <1>0, <1>1, <1>2 DEF SignalAge, SignalRow
  <1>4. PICK t \in internalCase.updatedAt .. Now :
          internalCase' = Transitioned(internalCase, "RESOLVED", s, t)
    BY DEF Lifecycle!Resolve, Lifecycle!WriteTimes, Lifecycle!CaseBecomes,
           Lifecycle!Transitioned, Transitioned
  <1>5. /\ internalCase'.status = "RESOLVED" /\ internalCase'.updatedAt = t
        /\ internalCase'.version = internalCase.version + 1
    BY <1>4 DEF Transitioned
  <1>6. t <= Now' /\ internalCase.version < internalCase'.version
    BY <1>0, <1>4, <1>5 DEF CaseRow
  <1>7. RowsAgree' BY <1>2, <1>5, <1>6 DEF RowsAgree, SignalAndCaseAgree
  <1> QED BY <1>0, <1>3, <1>6, <1>7 DEF RowsMoveOn

(* Dispose moves the case on among the open statuses or leaves it closed.   *)
LEMMA DisposeMovesOn ==
    ASSUME TypeOK, RowsAgree, Lifecycle!Dispose
    PROVE  /\ RowsAgree' /\ RowsMoveOn
           /\ IsOpen(internalCase) => IsOpen(internalCase)'
  <1> USE DEF Lifecycle!Now, Now
  <1>0. /\ signal \in SignalRow /\ internalCase \in CaseRow /\ Now \in Nat
        /\ UNCHANGED <<outcome, monitor, signal>>
    BY DEF TypeOK, Lifecycle!Dispose
  <1>1. PICK t \in internalCase.updatedAt .. Now : internalCase' = Disposed(internalCase, t)
    BY DEF Lifecycle!Dispose, Lifecycle!WriteTimes, Lifecycle!CaseBecomes,
           Lifecycle!Disposed, Disposed, Lifecycle!Transitioned, Transitioned
  <1>2. /\ internalCase'.updatedAt = t
        /\ internalCase'.version = internalCase.version + 1
        /\ \/ internalCase'.status = internalCase.status
           \/ internalCase.status = "OPEN" /\ internalCase'.status = "ACKNOWLEDGED"
    <2>1. CASE internalCase.status = "OPEN"
      BY <1>1, <2>1 DEF Disposed, Transitioned
    <2>2. CASE internalCase.status # "OPEN"
      <3>1. internalCase' = [internalCase EXCEPT !.version = internalCase.version + 1,
                                                 !.updatedAt = t]
        BY <1>1, <2>2 DEF Disposed
      <3> QED BY <1>0, <3>1 DEF CaseRow
    <2> QED BY <2>1, <2>2
  <1>3. t <= Now' /\ internalCase.version < internalCase'.version
    BY <1>0, <1>1, <1>2 DEF CaseRow
  <1>4. internalCase.status # "NONE" BY DEF Lifecycle!Dispose
  <1>5. RowsAgree' BY <1>0, <1>2, <1>3, <1>4 DEF RowsAgree, SignalAndCaseAgree
  <1>6. IsOpen(internalCase) => IsOpen(internalCase)' BY <1>2 DEF IsOpen, Closed
  <1> QED BY <1>0, <1>3, <1>5, <1>6 DEF RowsMoveOn

(* Collection, delivery, operators and monitors touch neither of them.      *)
LEMMA EnvironmentMovesOn ==
    ASSUME TypeOK, TypeOK', RowsAgree,
           Collect \/ AlertChange \/ DeleteMonitor \/ CreateMonitor
    PROVE  RowsAgree' /\ RowsMoveOn /\ UNCHANGED internalCase
  <1>1. UNCHANGED <<signal, internalCase>> /\ Now <= Now' /\ Now \in Nat /\ Now' \in Nat
        /\ internalCase \in CaseRow
    BY DEF Collect, AlertChange, DeleteMonitor, CreateMonitor, Now, TypeOK
  <1>2. \A s \in DOMAIN outcome : s \in DOMAIN outcome' /\ outcome'[s] = outcome[s]
    <2>1. CASE Collect
      <3>1. PICK o \in Outcome : outcome' = Append(outcome, o) BY <2>1 DEF Collect
      <3> QED BY <3>1 DEF TypeOK
    <2>2. CASE ~Collect BY <2>2 DEF AlertChange, DeleteMonitor, CreateMonitor
    <2> QED BY <2>1, <2>2
  <1>3. internalCase.updatedAt <= Now'
    BY <1>1 DEF RowsAgree, CaseRow
  <1>4. RowsAgree' BY <1>1, <1>3 DEF RowsAgree, SignalAndCaseAgree
  <1> QED BY <1>1, <1>2, <1>4 DEF RowsMoveOn

(* What a transaction relies on survives the steps of everybody else, as    *)
(* long as the case stays open while it is being resolved.                  *)
LEMMA OthersSerial ==
    ASSUME TypeOK, TypeOK', NEW x \in Worker, SerialProgress(x), SameLocals(x), RowsMoveOn,
           Wrote(x, "alert") => monitor'.live \/ ~monitor.live,
           job[x].op = "resolve" => IsOpen(internalCase)'
    PROVE  SerialProgress(x)'
  <1>0. /\ signal \in SignalRow /\ signal' \in SignalRow /\ read[x].signal \in SignalRow
        /\ internalCase \in CaseRow /\ internalCase' \in CaseRow /\ read[x].case \in CaseRow
        /\ Now \in Nat /\ Now' \in Nat
    BY DEF TypeOK, Rows, Now
  <1>1. /\ pc'[x] = pc[x] /\ job'[x] = job[x] /\ read'[x] = read[x] /\ write'[x] = write[x]
    BY DEF SameLocals
  <1>2. /\ Wrote(x, "case")' <=> Wrote(x, "case")
        /\ Wrote(x, "alert")' <=> Wrote(x, "alert")
    BY <1>1 DEF Wrote
  <1>3. /\ SignalAge(signal) \in Nat /\ SignalAge(signal') \in Nat
        /\ SignalAge(read[x].signal) \in Nat
    BY <1>0, SignalAgeType
  <1>4. /\ SignalAge(read[x].signal) <= SignalAge(signal')
        /\ signal' = read[x].signal => signal = read[x].signal
    BY <1>3 DEF RowsMoveOn, SerialProgress, ReadsAreOlder
  <1>5. ReadsAreOlder(x)'
    <2>1. SignalAge(read[x].signal)' <= SignalAge(signal)'
      BY <1>1, <1>4
    <2>2. /\ read[x].case.version <= internalCase'.version
          /\ read[x].case.version = internalCase'.version => read[x].case = internalCase'
          /\ read[x].case.updatedAt <= Now'
      BY <1>0 DEF RowsMoveOn, SerialProgress, ReadsAreOlder, CaseRow
    <2> QED BY <1>1, <2>1, <2>2 DEF SerialProgress, ReadsAreOlder
  <1>6. WritesFollowReads(x)'
    <2> SUFFICES ASSUME Wrote(x, "case")
                 PROVE  \E t \in read[x].case.updatedAt .. Now' :
                          write[x].case = CaseAfter(x, t)
      BY <1>1, <1>2 DEF WritesFollowReads, CaseAfter
    <2>1. PICK t \in read[x].case.updatedAt .. Now : write[x].case = CaseAfter(x, t)
      BY DEF SerialProgress, WritesFollowReads
    <2>2. t \in read[x].case.updatedAt .. Now'
      BY <1>0, <2>1 DEF RowsMoveOn, CaseRow
    <2> QED BY <2>1, <2>2
  <1>7. SerialObserve(x)'
    BY <1>1, <1>2, <1>4 DEF SerialProgress, SerialObserve, RowsMoveOn, SignalMoved
  <1>8. SerialResolve(x)'
    BY <1>1, <1>2 DEF SerialProgress, SerialResolve
  <1>9. SerialDispose(x)'
    BY <1>1 DEF SerialProgress, SerialDispose
  <1> QED BY <1>5, <1>6, <1>7, <1>8, <1>9 DEF SerialProgress

(* A worker that begins, ends or retries has read and written nothing.      *)
LEMMA NothingRead ==
    ASSUME TypeOK', AbsentRows', RowsAgree', NEW w \in Worker,
           read'[w] = NoRows, write'[w] = NoRows,
           pc'[w] \in {"idle", "observe:signal"},
           \/ job'[w].op = "none"
           \/ /\ job'[w].op = "observe"
              /\ job'[w].snapshot \in DOMAIN outcome'
              /\ outcome'[job'[w].snapshot] = "FAULTY"
    PROVE  SerialProgress(w)'
  <1>1. \A table \in Table : ~Wrote(w, table)'
    BY NothingWritten
  <1>2. ~Wrote(w, "case")' /\ ~Wrote(w, "alert")' BY <1>1 DEF Table
  <1>3. ReadsAreOlder(w)'
    <2>1. read'[w].signal = NoSignal /\ read'[w].case = NoCase BY DEF NoRows
    <2>2. SignalAge(NoSignal) = 0 BY DEF SignalAge, NoSignal
    <2>3. /\ SignalAge(signal') \in Nat /\ internalCase'.version \in Nat /\ Now' \in Nat
      BY SignalAgeType DEF TypeOK, CaseRow, Now
    <2>4. internalCase'.version = 0 => internalCase' = NoCase
      BY DEF AbsentRows, RowsAgree
    <2>5. SignalAge(read[w].signal)' <= SignalAge(signal)'
      BY <2>1, <2>2, <2>3
    <2>6. NoCase.version = 0 /\ NoCase.updatedAt = 0 BY DEF NoCase
    <2> QED BY <2>1, <2>3, <2>4, <2>5, <2>6 DEF ReadsAreOlder
  <1>4. WritesFollowReads(w)' BY <1>2 DEF WritesFollowReads
  <1>5. SerialObserve(w)'
    <2>1. ~IsOpen(read[w].case)' BY DEF NoRows, NoCase, IsOpen
    <2> QED BY <1>2, <2>1 DEF SerialObserve
  <1>6. SerialResolve(w)' BY DEF SerialResolve
  <1>7. SerialDispose(w)' BY DEF SerialDispose
  <1> QED BY <1>3, <1>4, <1>5, <1>6, <1>7 DEF SerialProgress

(* A transaction that is rolled back or restarted relies on nothing.        *)
LEMMA ThrowSerial ==
    ASSUME IInv, SInv, IInv', NEW w \in Worker, Throw(w)
    PROVE  SerialProgress(w)'
  <1>1. RowsAgree' /\ AbsentRows' /\ TypeOK'
    BY DEF IInv, SInv, Throw, rows, RowsAgree, SignalAndCaseAgree, Now
  <1>2. read'[w] = NoRows /\ write'[w] = NoRows /\ pc'[w] = "idle" /\ job'[w].op = "none"
    BY DEF IInv, TypeOK, Throw, Finish, NoJob, JobOf
  <1> QED BY <1>1, <1>2, NothingRead

(* A retried observe keeps its snapshot and forgets all it has read.        *)
LEMMA ConflictSerial ==
    ASSUME IInv, SInv, IInv', NEW w \in Worker, Conflict(w)
    PROVE  SerialProgress(w)'
  <1>1. CASE MayRetry(w)
    <2>1. UNCHANGED rows BY <1>1 DEF Conflict
    <2>2. RowsAgree' /\ AbsentRows' /\ TypeOK'
      BY <2>1 DEF IInv, SInv, rows, RowsAgree, SignalAndCaseAgree, Now
    <2>3. /\ read'[w] = NoRows /\ write'[w] = NoRows /\ pc'[w] = "observe:signal"
          /\ job'[w].op = "observe" /\ job'[w].snapshot = job[w].snapshot
          /\ job[w].op = "observe"
      BY <1>1 DEF IInv, TypeOK, Conflict, Goto, MayRetry, Job
    <2>4. job'[w].snapshot \in DOMAIN outcome' /\ outcome'[job'[w].snapshot] = "FAULTY"
      BY <2>1, <2>3 DEF SInv, SerialProgress, SerialObserve, rows
    <2> QED BY <2>2, <2>3, <2>4, NothingRead
  <1>2. CASE ~MayRetry(w) BY <1>2, ThrowSerial DEF Conflict
  <1> QED BY <1>1, <1>2

(* Every statement of observe keeps what its transaction relies on.         *)
LEMMA ObserveSerial ==
    ASSUME IInv, SInv, IInv', NEW w \in Worker, ObserveStep(w)
    PROVE  SerialProgress(w)'
  <1> USE DEF SerialProgress, SerialObserve, SerialResolve, SerialDispose
  <1>0. /\ TypeOK /\ TypeOK' /\ Progress(w) /\ SerialProgress(w) /\ UNCHANGED rows
        /\ RowsAgree
    BY StatementsStutter DEF IInv, SInv
  <1>1. CASE StartObserve(w)
    <2>1. /\ pc[w] = "idle" /\ pc'[w] = "observe:signal"
          /\ job'[w].op = "observe" /\ job'[w].snapshot \in DOMAIN outcome
          /\ outcome[job'[w].snapshot] = "FAULTY"
          /\ read'[w] = read[w] /\ write'[w] = write[w]
      BY <1>0, <1>1 DEF TypeOK, StartObserve, Goto, JobOf
    <2>2. ~Wrote(w, "case")' /\ ~Wrote(w, "alert")'
      BY <1>0, <2>1 DEF Wrote, Progress, LocksFollowProgress, HoldsCasePC
    <2>3. ReadsAreOlder(w)' BY <1>0, <2>1 DEF rows, ReadsAreOlder, Now
    <2>4. WritesFollowReads(w)' BY <2>2 DEF WritesFollowReads
    <2>5. SerialObserve(w)' BY <1>0, <2>1, <2>2 DEF rows
    <2>6. SerialResolve(w)' /\ SerialDispose(w)' BY <2>1
    <2> QED BY <2>3, <2>4, <2>5, <2>6
  <1>2. CASE ObserveReadsSignal(w)
    <2>1. CASE Throw(w) BY <2>1, ThrowSerial
    <2>2. CASE ~Throw(w)
      <3>1. /\ pc[w] = "observe:signal" /\ pc'[w] = "observe:case"
            /\ read'[w].signal = signal /\ read'[w].case = read[w].case
            /\ job'[w] = job[w] /\ write'[w] = write[w]
        BY <1>0, <1>2, <2>2 DEF TypeOK, ObserveReadsSignal, Goto, Rows
      <3>2. ~Wrote(w, "case")' /\ ~Wrote(w, "alert")' /\ job[w].op = "observe"
        BY <1>0, <3>1 DEF Wrote, Progress, LocksFollowProgress, HoldsCasePC, ObservePC
      <3>3. SignalAge(signal) \in Nat BY <1>0, SignalAgeType DEF TypeOK
      <3>4. SignalAge(read[w].signal)' <= SignalAge(signal)'
        BY <1>0, <3>1, <3>3 DEF rows
      <3>5. ReadsAreOlder(w)' BY <1>0, <3>1, <3>4 DEF rows, ReadsAreOlder, Now
      <3> QED BY <1>0, <3>1, <3>2, <3>5 DEF rows, WritesFollowReads
    <2> QED BY <2>1, <2>2
  <1>3. CASE ObserveReadsCase(w)
    <2>1. CASE Throw(w) BY <2>1, ThrowSerial
    <2>2. CASE ~Throw(w)
      <3> DEFINE found == IF read[w].signal = NoSignal THEN NoCase ELSE internalCase
      <3>1. /\ pc[w] = "observe:case" /\ pc'[w] = "observe:mark"
            /\ read'[w].signal = read[w].signal /\ read'[w].case = found
            /\ job'[w] = job[w] /\ write'[w] = write[w]
        BY <1>0, <1>3, <2>2 DEF TypeOK, ObserveReadsCase, Goto, Rows
      <3>2. ~Wrote(w, "case")' /\ ~Wrote(w, "alert")' /\ job[w].op = "observe"
        BY <1>0, <3>1 DEF Wrote, Progress, LocksFollowProgress, HoldsCasePC, ObservePC
      <3>3. /\ found.version <= internalCase.version
            /\ found.version = internalCase.version => found = internalCase
            /\ found.status = "NONE" => found = NoCase
            /\ found.updatedAt <= Now
        <4>1. CASE read[w].signal = NoSignal
          <5>1. found = NoCase BY <4>1
          <5>2. NoCase.version = 0 /\ NoCase.updatedAt = 0 BY DEF NoCase
          <5>3. internalCase.version \in Nat /\ Now \in Nat BY <1>0 DEF TypeOK, CaseRow, Now
          <5>4. internalCase.version = 0 => internalCase = NoCase
            BY <1>0 DEF IInv, AbsentRows, RowsAgree
          <5> QED BY <5>1, <5>2, <5>3, <5>4
        <4>2. CASE read[w].signal # NoSignal
          <5>1. found = internalCase BY <4>2
          <5> HIDE DEF found
          <5> QED BY <1>0, <5>1 DEF RowsAgree, TypeOK, CaseRow
        <4> QED BY <4>1, <4>2
      <3>4. IsOpen(found) /\ signal = read[w].signal => signal.status = "ACTIVE"
        <4>1. ~IsOpen(NoCase) BY DEF IsOpen, NoCase
        <4> QED BY <1>0, <4>1
                DEF RowsAgree, SignalAndCaseAgree, IsOpen, Closed, TypeOK, SignalRow, SignalStatus
      <3> HIDE DEF found
      <3>5. SignalAge(read[w].signal)' <= SignalAge(signal)'
        BY <1>0, <3>1 DEF rows, ReadsAreOlder
      <3>6. ReadsAreOlder(w)' BY <1>0, <3>1, <3>3, <3>5 DEF rows, ReadsAreOlder, Now
      <3> QED BY <1>0, <3>1, <3>2, <3>4, <3>6 DEF rows, WritesFollowReads, SignalMoved
    <2> QED BY <2>1, <2>2
  <1>4. CASE ObserveMarksSignal(w)
    <2>1. CASE Conflict(w) BY <2>1, ConflictSerial
    <2>2. CASE ~Conflict(w)
      <3>1. /\ pc[w] = "observe:mark" /\ pc'[w] = "observe:reopen"
            /\ write'[w].case = write[w].case /\ write'[w].alert = write[w].alert
            /\ job'[w] = job[w] /\ read'[w] = read[w]
        BY <1>0, <1>4, <2>2 DEF TypeOK, ObserveMarksSignal, Goto, Rows
      <3>2. ~Wrote(w, "case")' /\ ~Wrote(w, "alert")' /\ job[w].op = "observe"
        BY <1>0, <3>1 DEF Wrote, Progress, LocksFollowProgress, HoldsCasePC, ObservePC
      <3>3. ReadsAreOlder(w)' BY <1>0, <3>1 DEF rows, ReadsAreOlder, Now
      <3> QED BY <1>0, <3>1, <3>2, <3>3 DEF rows, WritesFollowReads, SignalMoved
    <2> QED BY <2>1, <2>2
  <1>5. CASE ObserveOpensCase(w)
    <2>1. CASE Conflict(w) BY <2>1, ConflictSerial
    <2>2. CASE ~Conflict(w)
      <3>1. /\ pc[w] = "observe:reopen" /\ pc'[w] = "observe:alert"
            /\ job'[w] = job[w] /\ read'[w] = read[w]
        BY <1>0, <1>5, <2>2 DEF TypeOK, ObserveOpensCase, Goto
      <3>2. /\ ~Wrote(w, "case") /\ ~Wrote(w, "alert") /\ job[w].op = "observe"
        BY <1>0, <3>1 DEF Wrote, Progress, LocksFollowProgress, HoldsCasePC, ObservePC
      <3>3. ReadsAreOlder(w)' BY <1>0, <3>1 DEF rows, ReadsAreOlder, Now
      <3>4. write'[w].alert = write[w].alert
        BY <1>0, <1>5, <2>2 DEF TypeOK, ObserveOpensCase, Rows
      <3>5. CASE IsOpen(read[w].case)
        <4>1. write' = write BY <1>5, <2>2, <3>5 DEF ObserveOpensCase, LeavesCase
        <4>2. ~Wrote(w, "case")' /\ ~Wrote(w, "alert")' BY <3>2, <4>1 DEF Wrote
        <4> QED BY <1>0, <3>1, <3>2, <3>3, <3>5, <4>2 DEF rows, WritesFollowReads, SignalMoved
      <3>6. CASE ~IsOpen(read[w].case)
        <4> DEFINE writing(row) == [write EXCEPT ![w].case = row]
        <4>0. read[w].case.updatedAt \in Nat /\ Now \in Nat /\ job[w].snapshot \in Nat
              /\ read[w].case.updatedAt <= Now
          <5>1. read[w] \in Rows /\ job[w] \in Job BY <1>0 DEF TypeOK
          <5>2. read[w].case.updatedAt <= Now BY <1>0 DEF ReadsAreOlder
          <5>3. Now \in Nat BY <1>0 DEF TypeOK, Now
          <5> QED BY <5>1, <5>2, <5>3 DEF Rows, CaseRow, Job
        <4>1. PICK t \in read[w].case.updatedAt .. Now :
                /\ write' = writing(CaseAfter(w, t))
                /\ CaseAfter(w, t).status = "OPEN"
          <5>1. CASE read[w].case.status = "NONE"
            <6>1. PICK t \in job[w].snapshot .. Now :
                    write' = [write EXCEPT ![w].case = OpenedCase(t)]
              BY <1>5, <2>2, <3>6, <5>1 DEF ObserveOpensCase, LeavesCase
            <6>2. read[w].case.updatedAt = 0
              BY <1>0, <5>1 DEF ReadsAreOlder, NoCase
            <6>3. t \in read[w].case.updatedAt .. Now BY <4>0, <6>1, <6>2
            <6>4. CaseAfter(w, t) = OpenedCase(t) BY <3>2, <5>1 DEF CaseAfter
            <6>5. OpenedCase(t).status = "OPEN" BY DEF OpenedCase
            <6>6. write' = writing(CaseAfter(w, t)) BY <6>1, <6>4
            <6> HIDE DEF writing
            <6> QED BY <6>3, <6>4, <6>5, <6>6
          <5>2. CASE read[w].case.status # "NONE"
            <6>1. write' = [write EXCEPT ![w].case = Transitioned(read[w].case, "OPEN", 0, Now)]
              BY <1>5, <2>2, <3>6, <5>2 DEF ObserveOpensCase, LeavesCase
            <6>2. Now \in read[w].case.updatedAt .. Now BY <4>0
            <6>3. CaseAfter(w, Now) = Transitioned(read[w].case, "OPEN", 0, Now)
              BY <3>2, <5>2 DEF CaseAfter
            <6>4. CaseAfter(w, Now).status = "OPEN" BY <6>3 DEF Transitioned
            <6>5. write' = writing(CaseAfter(w, Now)) BY <6>1, <6>3
            <6> HIDE DEF writing
            <6> QED BY <6>2, <6>4, <6>5
          <5> QED BY <5>1, <5>2
        <4>2. write'[w].case = CaseAfter(w, t)
          BY <1>0, <4>1 DEF TypeOK, Rows
        <4>3. Wrote(w, "case")' /\ ~Wrote(w, "alert")'
          BY <3>2, <3>4, <4>1, <4>2 DEF Wrote, NoCase
        <4>4. Now' = Now BY <1>0 DEF rows, Now
        <4>5. WritesFollowReads(w)'
          BY <1>0, <3>1, <4>1, <4>2, <4>4 DEF WritesFollowReads, CaseAfter
        <4> QED BY <1>0, <3>1, <3>2, <3>3, <4>3, <4>5 DEF rows, SignalMoved
      <3> QED BY <3>5, <3>6
    <2> QED BY <2>1, <2>2
  <1>6. CASE ObserveReadsAlert(w)
    <2>1. /\ pc[w] = "observe:alert"
          /\ \/ pc'[w] = "observe:notify" /\ alert \in {"none", "resolved"}
             \/ pc'[w] = "commit"
          /\ read'[w].signal = read[w].signal /\ read'[w].case = read[w].case
          /\ read'[w].alert = alert
          /\ job'[w] = job[w] /\ write'[w] = write[w]
      BY <1>0, <1>6 DEF TypeOK, ObserveReadsAlert, Goto, Rows
    <2>2. /\ Wrote(w, "case")' <=> Wrote(w, "case")
          /\ ~Wrote(w, "alert")' /\ job[w].op = "observe"
      BY <1>0, <2>1 DEF Wrote, Progress, LocksFollowProgress, ObservePC
    <2>3. ReadsAreOlder(w)'
      <3>1. SignalAge(read[w].signal)' <= SignalAge(signal)'
        BY <1>0, <2>1 DEF rows, ReadsAreOlder
      <3> QED BY <1>0, <2>1, <3>1 DEF rows, ReadsAreOlder, Now
    <2>4. WritesFollowReads(w)'
      BY <1>0, <2>1, <2>2 DEF rows, WritesFollowReads, CaseAfter, Now
    <2> QED BY <1>0, <2>1, <2>2, <2>3, <2>4 DEF rows, SignalMoved
  <1>7. CASE ObserveNotifies(w)
    <2>1. CASE Conflict(w) BY <2>1, ConflictSerial
    <2>2. CASE Throw(w) BY <2>2, ThrowSerial
    <2>3. CASE ~Conflict(w) /\ ~Throw(w)
      <3>1. /\ pc[w] = "observe:notify" /\ pc'[w] = "commit"
            /\ ~AlertMoved(w)
            /\ alert = "none" => monitor = [id |-> job[w].monitor, live |-> TRUE]
            /\ write'[w].signal = write[w].signal /\ write'[w].case = write[w].case
            /\ job'[w] = job[w] /\ read'[w] = read[w]
        BY <1>0, <1>7, <2>3 DEF TypeOK, ObserveNotifies, Goto, Rows
      <3>2. /\ Wrote(w, "case")' <=> Wrote(w, "case")
            /\ job[w].op = "observe"
        BY <1>0, <3>1 DEF Wrote, Progress, LocksFollowProgress, ObservePC
      <3>3. read[w].alert = "none" => monitor.live BY <3>1 DEF AlertMoved
      <3>4. ReadsAreOlder(w)' BY <1>0, <3>1 DEF rows, ReadsAreOlder, Now
      <3>5. WritesFollowReads(w)'
        BY <1>0, <3>1, <3>2 DEF rows, WritesFollowReads, CaseAfter, Now
      <3> QED BY <1>0, <3>1, <3>2, <3>3, <3>4, <3>5 DEF rows, SignalMoved
    <2> QED BY <2>1, <2>2, <2>3
  <1> QED BY <1>1, <1>2, <1>3, <1>4, <1>5, <1>6, <1>7 DEF ObserveStep

(* Every statement of resolveCase keeps what its transaction relies on.     *)
LEMMA ResolveSerial ==
    ASSUME IInv, SInv, IInv', NEW w \in Worker, ResolveStep(w)
    PROVE  SerialProgress(w)'
  <1> USE DEF SerialProgress, SerialObserve, SerialResolve, SerialDispose
  <1>0. /\ TypeOK /\ TypeOK' /\ Progress(w) /\ SerialProgress(w) /\ UNCHANGED rows
        /\ RowsAgree
    BY StatementsStutter DEF IInv, SInv
  <1>1. CASE StartResolve(w)
    <2>1. /\ pc[w] = "idle" /\ pc'[w] = "resolve:case" /\ job'[w].op = "resolve"
          /\ IsOpen(internalCase)
          /\ read'[w] = read[w] /\ write'[w] = write[w]
      BY <1>0, <1>1 DEF TypeOK, StartResolve, Goto, JobOf
    <2>2. ~Wrote(w, "case")' /\ ~Wrote(w, "alert")'
      BY <1>0, <2>1 DEF Wrote, Progress, LocksFollowProgress, HoldsCasePC
    <2>3. ReadsAreOlder(w)' BY <1>0, <2>1 DEF rows, ReadsAreOlder, Now
    <2>4. WritesFollowReads(w)' BY <2>2 DEF WritesFollowReads
    <2> QED BY <1>0, <2>1, <2>2, <2>3, <2>4 DEF rows
  <1>2. CASE ResolveReadsCase(w)
    <2>1. /\ pc[w] = "resolve:case" /\ pc'[w] = "resolve:signal"
          /\ read'[w].signal = read[w].signal /\ read'[w].case = internalCase
          /\ job'[w] = job[w] /\ write'[w] = write[w]
      BY <1>0, <1>2 DEF TypeOK, ResolveReadsCase, Goto, Rows
    <2>2. ~Wrote(w, "case")' /\ ~Wrote(w, "alert")' /\ job[w].op = "resolve"
      BY <1>0, <2>1 DEF Wrote, Progress, LocksFollowProgress, HoldsCasePC, ResolvePC
    <2>3. internalCase.version <= internalCase.version
      BY <1>0 DEF TypeOK, CaseRow
    <2>4. SignalAge(read[w].signal)' <= SignalAge(signal)'
      BY <1>0, <2>1 DEF rows, ReadsAreOlder
    <2>5. ReadsAreOlder(w)'
      BY <1>0, <2>1, <2>3, <2>4 DEF rows, ReadsAreOlder, RowsAgree, Now
    <2>6. WritesFollowReads(w)' BY <2>2 DEF WritesFollowReads
    <2> QED BY <1>0, <2>1, <2>2, <2>5, <2>6 DEF rows
  <1>3. CASE ResolveReadsSignal(w)
    <2>1. CASE Throw(w) BY <2>1, ThrowSerial
    <2>2. CASE ~Throw(w)
      <3>1. /\ pc[w] = "resolve:signal" /\ pc'[w] = "resolve:transition"
            /\ read'[w].signal = signal /\ read'[w].case = read[w].case
            /\ job'[w] = job[w] /\ write'[w] = write[w]
        BY <1>0, <1>3, <2>2 DEF TypeOK, ResolveReadsSignal, Goto, Rows
      <3>2. ~Wrote(w, "case")' /\ ~Wrote(w, "alert")' /\ job[w].op = "resolve"
        BY <1>0, <3>1 DEF Wrote, Progress, LocksFollowProgress, HoldsCasePC, ResolvePC
      <3>3. SignalAge(signal) \in Nat BY <1>0, SignalAgeType DEF TypeOK
      <3>4. SignalAge(read[w].signal)' <= SignalAge(signal)'
        BY <1>0, <3>1, <3>3 DEF rows
      <3>5. ReadsAreOlder(w)' BY <1>0, <3>1, <3>4 DEF rows, ReadsAreOlder, Now
      <3>6. WritesFollowReads(w)' BY <3>2 DEF WritesFollowReads
      <3> QED BY <1>0, <3>1, <3>2, <3>5, <3>6 DEF rows
    <2> QED BY <2>1, <2>2
  <1>4. CASE ResolveTransitionsCase(w)
    <2>1. CASE Conflict(w) BY <2>1, ConflictSerial
    <2>2. CASE ~Conflict(w)
      <3>1. /\ pc[w] = "resolve:transition" /\ pc'[w] = "resolve:mark"
            /\ job'[w] = job[w] /\ read'[w] = read[w]
        BY <1>0, <1>4, <2>2 DEF TypeOK, ResolveTransitionsCase, Goto
      <3>2. ~Wrote(w, "alert") /\ job[w].op = "resolve" /\ IsOpen(read[w].case)
        BY <1>0, <3>1 DEF Progress, LocksFollowProgress, ResolvePC
      <3> DEFINE row == CaseAfter(w, Now)
      <3>3. /\ row = Transitioned(read[w].case, "RESOLVED", job[w].snapshot, Now)
            /\ TransitionWrites(read[w].case, "RESOLVED")
        BY <3>2 DEF CaseAfter, TransitionWrites, IsOpen, Closed
      <3>4. row.status = "RESOLVED" BY <3>3 DEF Transitioned
      <3>5. row' = row BY <1>0, <3>1 DEF rows, Now, CaseAfter
      <3> HIDE DEF row
      <3>6. write' = [write EXCEPT ![w].case = row]
        BY <1>4, <2>2, <3>3 DEF ResolveTransitionsCase
      <3>7. write'[w].case = row /\ write'[w].alert = write[w].alert
        BY <1>0, <3>6 DEF TypeOK, Rows
      <3>8. Wrote(w, "case")' /\ ~Wrote(w, "alert")'
        BY <3>2, <3>4, <3>7 DEF Wrote, NoCase
      <3>9. ReadsAreOlder(w)' BY <1>0, <3>1 DEF rows, ReadsAreOlder, Now
      <3>10. WritesFollowReads(w)'
        <4>1. /\ Now' \in Nat /\ read'[w].case.updatedAt \in Nat
              /\ read'[w].case.updatedAt <= Now'
          <5>1. read'[w] \in Rows /\ Now' \in Nat BY <1>0 DEF TypeOK, Now
          <5>2. read'[w].case.updatedAt <= Now' BY <3>9 DEF ReadsAreOlder
          <5> QED BY <5>1, <5>2 DEF Rows, CaseRow
        <4>2. Now' \in read'[w].case.updatedAt .. Now' BY <4>1
        <4>3. write'[w].case = CaseAfter(w, Now)' BY <3>5, <3>7 DEF row
        <4> QED BY <4>2, <4>3 DEF WritesFollowReads
      <3> QED BY <1>0, <3>1, <3>2, <3>8, <3>9, <3>10 DEF rows
    <2> QED BY <2>1, <2>2
  <1>5. CASE ResolveMarksSignal(w)
    <2>1. CASE Conflict(w) BY <2>1, ConflictSerial
    <2>2. CASE ~Conflict(w)
      <3> DEFINE marked == [read[w].signal EXCEPT !.status = "RESOLVED"]
      <3>0. write' = [write EXCEPT ![w].signal = marked]
        BY <1>5, <2>2 DEF ResolveMarksSignal
      <3> HIDE DEF marked
      <3>1. /\ pc[w] = "resolve:mark" /\ pc'[w] = "resolve:alert"
            /\ write'[w].case = write[w].case /\ write'[w].alert = write[w].alert
            /\ job'[w] = job[w] /\ read'[w] = read[w]
        BY <1>0, <1>5, <2>2, <3>0 DEF TypeOK, ResolveMarksSignal, Goto, Rows
      <3>2. /\ Wrote(w, "case")' <=> Wrote(w, "case")
            /\ ~Wrote(w, "alert")' /\ job[w].op = "resolve"
        BY <1>0, <3>1 DEF Wrote, Progress, LocksFollowProgress, ResolvePC
      <3>3. ReadsAreOlder(w)' BY <1>0, <3>1 DEF rows, ReadsAreOlder, Now
      <3>4. WritesFollowReads(w)'
        BY <1>0, <3>1, <3>2 DEF rows, WritesFollowReads, CaseAfter, Now
      <3> QED BY <1>0, <3>1, <3>2, <3>3, <3>4 DEF rows
    <2> QED BY <2>1, <2>2
  <1>6. CASE ResolveReadsAlert(w)
    <2>1. /\ pc[w] = "resolve:alert"
          /\ \/ pc'[w] = "resolve:close" /\ alert \notin {"none", "resolved"}
             \/ pc'[w] = "commit"
          /\ read'[w].signal = read[w].signal /\ read'[w].case = read[w].case
          /\ read'[w].alert = alert
          /\ job'[w] = job[w] /\ write'[w] = write[w]
      BY <1>0, <1>6 DEF TypeOK, ResolveReadsAlert, Goto, Rows
    <2>2. /\ Wrote(w, "case")' <=> Wrote(w, "case")
          /\ ~Wrote(w, "alert")' /\ job[w].op = "resolve"
      BY <1>0, <2>1 DEF Wrote, Progress, LocksFollowProgress, ResolvePC
    <2>3. SignalAge(read[w].signal)' <= SignalAge(signal)'
      BY <1>0, <2>1 DEF rows, ReadsAreOlder
    <2>4. ReadsAreOlder(w)' BY <1>0, <2>1, <2>3 DEF rows, ReadsAreOlder, Now
    <2>5. WritesFollowReads(w)'
      BY <1>0, <2>1, <2>2 DEF rows, WritesFollowReads, CaseAfter, Now
    <2> QED BY <1>0, <2>1, <2>2, <2>4, <2>5 DEF rows
  <1>7. CASE ResolveClosesAlert(w)
    <2>1. CASE Conflict(w) BY <2>1, ConflictSerial
    <2>2. CASE ~Conflict(w)
      <3>1. /\ pc[w] = "resolve:close" /\ pc'[w] = "commit"
            /\ write'[w].case = write[w].case
            /\ job'[w] = job[w] /\ read'[w] = read[w]
        BY <1>0, <1>7, <2>2 DEF TypeOK, ResolveClosesAlert, Goto, Rows
      <3>2. /\ Wrote(w, "case")' <=> Wrote(w, "case")
            /\ job[w].op = "resolve"
        BY <1>0, <3>1 DEF Wrote, Progress, LocksFollowProgress, ResolvePC
      <3>3. ReadsAreOlder(w)' BY <1>0, <3>1 DEF rows, ReadsAreOlder, Now
      <3>4. WritesFollowReads(w)'
        BY <1>0, <3>1, <3>2 DEF rows, WritesFollowReads, CaseAfter, Now
      <3> QED BY <1>0, <3>1, <3>2, <3>3, <3>4 DEF rows
    <2> QED BY <2>1, <2>2
  <1> QED BY <1>1, <1>2, <1>3, <1>4, <1>5, <1>6, <1>7 DEF ResolveStep

(* Every statement of setCaseDisposition keeps what its transaction relies  *)
(* on.                                                                      *)
LEMMA DisposeSerial ==
    ASSUME IInv, SInv, IInv', NEW w \in Worker, DisposeStep(w)
    PROVE  SerialProgress(w)'
  <1> USE DEF SerialProgress, SerialObserve, SerialResolve, SerialDispose
  <1>0. /\ TypeOK /\ TypeOK' /\ Progress(w) /\ SerialProgress(w) /\ UNCHANGED rows
        /\ RowsAgree
    BY StatementsStutter DEF IInv, SInv
  <1>1. CASE StartDispose(w)
    <2>1. /\ pc[w] = "idle" /\ pc'[w] = "dispose:case"
          /\ job'[w].op = "dispose" /\ job'[w].version < MaxVersion
          /\ read'[w] = read[w] /\ write'[w] = write[w]
      BY <1>0, <1>1 DEF TypeOK, StartDispose, Goto, JobOf
    <2>2. ~Wrote(w, "case")'
      BY <1>0, <2>1 DEF Wrote, Progress, LocksFollowProgress, HoldsCasePC
    <2>3. ReadsAreOlder(w)' BY <1>0, <2>1 DEF rows, ReadsAreOlder, Now
    <2>4. WritesFollowReads(w)' BY <2>2 DEF WritesFollowReads
    <2> QED BY <2>1, <2>3, <2>4
  <1>2. CASE DisposeReadsCase(w)
    <2>1. CASE Throw(w) BY <2>1, ThrowSerial
    <2>2. CASE ~Throw(w)
      <3>1. /\ pc[w] = "dispose:case" /\ pc'[w] = "dispose:update"
            /\ internalCase.version = job[w].version
            /\ read'[w].signal = read[w].signal /\ read'[w].case = internalCase
            /\ job'[w] = job[w] /\ write'[w] = write[w]
        BY <1>0, <1>2, <2>2 DEF TypeOK, DisposeReadsCase, Goto, Rows
      <3>2. ~Wrote(w, "case")' /\ job[w].op = "dispose"
        BY <1>0, <3>1 DEF Wrote, Progress, LocksFollowProgress, HoldsCasePC, DisposePC
      <3>3. internalCase.version <= internalCase.version
        BY <1>0 DEF TypeOK, CaseRow
      <3>4. SignalAge(read[w].signal)' <= SignalAge(signal)'
        BY <1>0, <3>1 DEF rows, ReadsAreOlder
      <3>5. ReadsAreOlder(w)'
        BY <1>0, <3>1, <3>3, <3>4 DEF rows, ReadsAreOlder, RowsAgree, Now
      <3>6. WritesFollowReads(w)' BY <3>2 DEF WritesFollowReads
      <3> QED BY <1>0, <3>1, <3>2, <3>5, <3>6
    <2> QED BY <2>1, <2>2
  <1>3. CASE DisposeUpdatesCase(w)
    <2>1. CASE Conflict(w) BY <2>1, ConflictSerial
    <2>2. CASE ~Conflict(w)
      <3> DEFINE row == CaseAfter(w, Now)
      <3>1. /\ pc[w] = "dispose:update" /\ pc'[w] = "commit"
            /\ write' = [write EXCEPT ![w].case = Disposed(read[w].case, Now)]
            /\ job'[w] = job[w] /\ read'[w] = read[w]
        BY <1>0, <1>3, <2>2 DEF TypeOK, DisposeUpdatesCase, Goto
      <3>2. job[w].op = "dispose"
        BY <1>0, <3>1 DEF Progress, LocksFollowProgress, DisposePC
      <3>3. row = Disposed(read[w].case, Now) BY <3>2 DEF CaseAfter
      <3>4. row' = row BY <1>0, <3>1 DEF rows, Now, CaseAfter
      <3> HIDE DEF row
      <3>5. write'[w].case = row
        BY <1>0, <3>1, <3>3 DEF TypeOK, Rows
      <3>6. ReadsAreOlder(w)' BY <1>0, <3>1 DEF rows, ReadsAreOlder, Now
      <3>7. WritesFollowReads(w)'
        <4>1. /\ Now' \in Nat /\ read'[w].case.updatedAt \in Nat
              /\ read'[w].case.updatedAt <= Now'
          <5>1. read'[w] \in Rows /\ Now' \in Nat BY <1>0 DEF TypeOK, Now
          <5>2. read'[w].case.updatedAt <= Now' BY <3>6 DEF ReadsAreOlder
          <5> QED BY <5>1, <5>2 DEF Rows, CaseRow
        <4>2. Now' \in read'[w].case.updatedAt .. Now' BY <4>1
        <4>3. write'[w].case = CaseAfter(w, Now)' BY <3>4, <3>5 DEF row
        <4> QED BY <4>2, <4>3 DEF WritesFollowReads
      <3> QED BY <1>0, <3>1, <3>2, <3>6, <3>7
    <2> QED BY <2>1, <2>2
  <1> QED BY <1>1, <1>2, <1>3 DEF DisposeStep

(* The rows and the reads of the initial state.                             *)
LEMMA InitSerial == Init => SInv
  <1> SUFFICES ASSUME Init PROVE SInv
    OBVIOUS
  <1>1. TypeOK /\ AbsentRows BY InitIInv DEF IInv
  <1>2. RowsAgree
    BY DEF Init, RowsAgree, SignalAndCaseAgree, NoSignal, NoCase, Now
  <1>3. \A w \in Worker : /\ read[w] = NoRows /\ write[w] = NoRows
                          /\ job[w].op = "none"
    BY DEF Init, NoJob, JobOf
  <1>4. OneResolver BY <1>3 DEF OneResolver
  <1>5. ASSUME NEW w \in Worker PROVE SerialProgress(w)
    <2>1. ~Wrote(w, "case") BY <1>3 DEF Wrote, NoRows
    <2>2. ReadsAreOlder(w)
      <3>1. read[w].signal = NoSignal /\ read[w].case = NoCase BY <1>3 DEF NoRows
      <3>2. SignalAge(NoSignal) = 0 /\ NoCase.version = 0 /\ NoCase.updatedAt = 0
        BY DEF SignalAge, NoSignal, NoCase
      <3>3. signal = NoSignal /\ internalCase = NoCase /\ Now \in Nat
        BY <1>1 DEF Init, TypeOK, Now
      <3> QED BY <3>1, <3>2, <3>3 DEF ReadsAreOlder
    <2> QED BY <1>3, <2>1, <2>2
            DEF SerialProgress, WritesFollowReads, SerialObserve, SerialResolve, SerialDispose
  <1> QED BY <1>2, <1>4, <1>5 DEF SInv

(* At most one worker resolves: a resolver starts when there is none.       *)
LEMMA OneResolverStays ==
    ASSUME SerialResolves, IInv, OneResolver, [Next]_vars
    PROVE  OneResolver'
  <1>0. TypeOK BY DEF IInv
  <1>1. CASE UNCHANGED vars BY <1>1 DEF vars, OneResolver
  <1>2. CASE Collect \/ AlertChange \/ DeleteMonitor \/ CreateMonitor
    BY <1>2 DEF Collect, AlertChange, DeleteMonitor, CreateMonitor, locals, OneResolver
  <1>3. ASSUME NEW w \in Worker,
               \/ ObserveStep(w) \/ ResolveStep(w) \/ DisposeStep(w)
               \/ Commit(w) \/ Abort(w)
        PROVE  OneResolver'
    <2>1. \A x \in Worker \ {w} : job'[x] = job[x]
      BY <1>0, <1>3, StepsAreLocal DEF SameLocals
    <2>2. CASE StartResolve(w)
      <3>1. \A x \in Worker : job[x].op # "resolve" BY <2>2 DEF StartResolve
      <3> QED BY <2>1, <3>1 DEF OneResolver
    <2>3. CASE ~StartResolve(w)
      <3>1. job'[w].op = "resolve" => job[w].op = "resolve"
        <4> USE DEF TypeOK, Goto, Finish, Throw, Conflict, NoJob, JobOf, Job
        <4>1. CASE ObserveStep(w)
          BY <1>0, <4>1 DEF ObserveStep, StartObserve, ObserveReadsSignal,
             ObserveReadsCase, ObserveMarksSignal, ObserveOpensCase, ObserveReadsAlert,
             ObserveNotifies
        <4>2. CASE ResolveStep(w)
          BY <1>0, <2>3, <4>2 DEF ResolveStep, ResolveReadsCase, ResolveReadsSignal,
             ResolveTransitionsCase, ResolveMarksSignal, ResolveReadsAlert,
             ResolveClosesAlert
        <4>3. CASE DisposeStep(w)
          BY <1>0, <4>3 DEF DisposeStep, StartDispose, DisposeReadsCase, DisposeUpdatesCase
        <4>4. CASE Commit(w) BY <1>0, <4>4 DEF Commit
        <4>5. CASE Abort(w) BY <1>0, <4>5 DEF Abort
        <4> QED BY <1>3, <4>1, <4>2, <4>3, <4>4, <4>5
      <3> QED BY <2>1, <3>1 DEF OneResolver
    <2> QED BY <2>2, <2>3
  <1> QED BY <1>1, <1>2, <1>3 DEF Next

(* A commit moves the rows on, and leaves an open case open unless it is    *)
(* the resolver's.                                                          *)
LEMMA CommitMovesOn ==
    ASSUME IInv, SInv, NEW w \in Worker, Commit(w)
    PROVE  /\ RowsAgree' /\ RowsMoveOn
           /\ job[w].op # "resolve" /\ IsOpen(internalCase) => IsOpen(internalCase)'
  <1>0. TypeOK /\ RowsAgree BY DEF IInv, SInv
  <1>1. job[w].op \in {"observe", "resolve", "dispose"}
    BY DEF IInv, Progress, LocksFollowProgress, Commit
  <1>2. CASE job[w].op = "observe" BY <1>0, <1>2, ObserveCommits, ObserveMovesOn
  <1>3. CASE job[w].op = "resolve" BY <1>0, <1>3, ResolveCommits, ResolveMovesOn
  <1>4. CASE job[w].op = "dispose"
    <2>1. CASE Lifecycle!Dispose BY <1>0, <2>1, DisposeMovesOn
    <2>2. CASE UNCHANGED Lifecycle!vars
      <3>1. UNCHANGED <<outcome, signal, internalCase>> BY <2>2 DEF Lifecycle!vars
      <3>2. Now \in Nat /\ Now' = Now BY <1>0, <3>1 DEF TypeOK, Now
      <3>3. RowsAgree' BY <1>0, <3>1, <3>2 DEF RowsAgree, SignalAndCaseAgree
      <3>4. RowsMoveOn BY <3>1, <3>2 DEF RowsMoveOn
      <3> QED BY <3>1, <3>3, <3>4
    <2> QED BY <1>4, <2>1, <2>2, DisposeCommits
  <1> QED BY <1>1, <1>2, <1>3, <1>4

(* With one resolver at a time every step keeps all of it.                  *)
LEMMA SerialInductive ==
    ASSUME SerialResolves, IInv, SInv, [Next]_vars
    PROVE  SInv'
  <1>0. IInv' /\ OneResolver'
    BY Inductive, OneResolverStays DEF SInv
  <1>1. TypeOK /\ TypeOK' /\ AbsentRows' /\ RowsAgree BY <1>0 DEF IInv, SInv
  <1>2. Now \in Nat BY <1>1 DEF TypeOK, Now
  <1>3. ASSUME UNCHANGED rows
        PROVE  /\ RowsAgree' /\ RowsMoveOn /\ UNCHANGED <<internalCase, monitor>>
    BY <1>1, <1>2, <1>3 DEF rows, RowsAgree, SignalAndCaseAgree, RowsMoveOn, Now
  <1>4. ASSUME NEW x \in Worker, job[x].op = "resolve"
        PROVE  IsOpen(internalCase)
    BY <1>4 DEF SInv, SerialProgress, SerialResolve
  <1>5. CASE UNCHANGED vars
    <2>1. UNCHANGED rows BY <1>5 DEF vars, rows
    <2>2. ASSUME NEW x \in Worker PROVE SerialProgress(x)'
      <3>1. SameLocals(x) BY <1>5 DEF vars, SameLocals
      <3>2. SerialProgress(x) BY DEF SInv
      <3> QED BY <1>1, <1>3, <1>4, <2>1, <3>1, <3>2, OthersSerial
    <2> QED BY <1>0, <1>3, <2>1, <2>2 DEF SInv
  <1>6. CASE Collect \/ AlertChange \/ DeleteMonitor \/ CreateMonitor
    <2>1. RowsAgree' /\ RowsMoveOn /\ UNCHANGED internalCase
      BY <1>1, <1>6, EnvironmentMovesOn
    <2>2. ASSUME NEW x \in Worker PROVE SerialProgress(x)'
      <3>1. SameLocals(x)
        BY <1>6 DEF Collect, AlertChange, DeleteMonitor, CreateMonitor, locals, SameLocals
      <3>2. SerialProgress(x) BY DEF SInv
      <3>3. Wrote(x, "alert") => monitor'.live \/ ~monitor.live
        BY <1>6 DEF Collect, AlertChange, DeleteMonitor, CreateMonitor, NoAlertLock
      <3> QED BY <1>1, <1>4, <2>1, <3>1, <3>2, <3>3, OthersSerial
    <2> QED BY <1>0, <2>1, <2>2 DEF SInv
  <1>7. ASSUME NEW w \in Worker,
               ObserveStep(w) \/ ResolveStep(w) \/ DisposeStep(w) \/ Abort(w)
        PROVE  SInv'
    <2>1. UNCHANGED rows BY <1>7, StatementsStutter
    <2>2. SerialProgress(w)'
      BY <1>0, <1>7, ObserveSerial, ResolveSerial, DisposeSerial, ThrowSerial DEF Abort
    <2>3. ASSUME NEW x \in Worker \ {w} PROVE SerialProgress(x)'
      <3>1. SameLocals(x) BY <1>1, <1>7, StepsAreLocal
      <3>2. SerialProgress(x) BY DEF SInv
      <3> QED BY <1>1, <1>3, <1>4, <2>1, <3>1, <3>2, OthersSerial
    <2> QED BY <1>0, <1>3, <2>1, <2>2, <2>3 DEF SInv
  <1>8. ASSUME NEW w \in Worker, Commit(w) PROVE SInv'
    <2>1. /\ RowsAgree' /\ RowsMoveOn
          /\ job[w].op # "resolve" /\ IsOpen(internalCase) => IsOpen(internalCase)'
      BY <1>8, CommitMovesOn
    <2>2. SerialProgress(w)'
      <3>1. read'[w] = NoRows /\ write'[w] = NoRows /\ pc'[w] = "idle" /\ job'[w].op = "none"
        BY <1>1, <1>8 DEF TypeOK, Commit, Finish, NoJob, JobOf
      <3> QED BY <1>1, <2>1, <3>1, NothingRead
    <2>3. ASSUME NEW x \in Worker \ {w} PROVE SerialProgress(x)'
      <3>1. SameLocals(x) BY <1>1, <1>8, StepsAreLocal
      <3>2. SerialProgress(x) BY DEF SInv
      <3>3. job[x].op = "resolve" => IsOpen(internalCase)'
        BY <1>4, <2>1 DEF SInv, OneResolver
      <3>4. monitor' = monitor BY <1>8 DEF Commit
      <3> QED BY <1>1, <2>1, <3>1, <3>2, <3>3, <3>4, OthersSerial
    <2> QED BY <1>0, <2>1, <2>2, <2>3 DEF SInv
  <1> QED BY <1>5, <1>6, <1>7, <1>8 DEF Next

(* Both invariants hold in every state reached with one resolver at a time. *)
LEMMA SerialInvariance == ASSUME SerialResolves PROVE Spec => [](IInv /\ SInv)
  <1>1. Init => IInv /\ SInv BY InitIInv, InitSerial
  <1>2. IInv /\ SInv /\ [Next]_vars => (IInv /\ SInv)'
    BY Inductive, SerialInductive
  <1> QED BY <1>1, <1>2, PTL DEF Spec

(* While cases are resolved by one finalization at a time, no overlap of    *)
(* observations, dispositions, the resolution, rollbacks and deletions ever *)
(* leaves a signal and its case out of step.                                *)
THEOREM SerialAgreement ==
    ASSUME SerialResolves PROVE Spec => []SignalAndCaseAgree
  <1>1. IInv /\ SInv => SignalAndCaseAgree BY DEF SInv, RowsAgree
  <1> QED BY <1>1, SerialInvariance, PTL

(* Nor does a snapshot older than the resolution ever reopen the case,      *)
(* however late it is finalized.                                            *)
THEOREM SerialReopening ==
    ASSUME SerialResolves PROVE Spec => OnlyNewerFaultsReopen
  <1> DEFINE Newer == internalCase.status = "RESOLVED" /\ internalCase'.status = "OPEN" =>
                        internalCase.verification < signal'.lastSeen
  <1>1. ASSUME IInv, SInv, [Next]_vars PROVE Newer
    <2> SUFFICES ASSUME internalCase.status = "RESOLVED", internalCase'.status = "OPEN"
                 PROVE  internalCase.verification < signal'.lastSeen
      OBVIOUS
    <2>1. PICK w \in Worker : Commit(w)
      BY <1>1, OnlyCommitsWriteSignalAndCase
    <2>2. TypeOK /\ RowsAgree BY <1>1 DEF IInv, SInv
    <2>3. job[w].op \in {"observe", "resolve", "dispose"}
      BY <1>1, <2>1 DEF IInv, Progress, LocksFollowProgress, Commit
    <2>4. job[w].op # "resolve"
      BY <1>1 DEF SInv, SerialProgress, SerialResolve, IsOpen, Closed
    <2>5. job[w].op # "dispose"
      <3>1. SUFFICES ASSUME Lifecycle!Dispose \/ UNCHANGED Lifecycle!vars PROVE FALSE
        BY <1>1, <2>1, DisposeCommits
      <3>2. Lifecycle!Dispose BY <3>1 DEF Lifecycle!vars
      <3>3. PICK t : internalCase' = Disposed(internalCase, t)
        BY <3>2 DEF Lifecycle!Dispose, Lifecycle!CaseBecomes, Lifecycle!Disposed, Disposed,
               Lifecycle!Transitioned, Transitioned
      <3>4. internalCase'.status = internalCase.status
        BY <2>2, <3>3 DEF Disposed, TypeOK, CaseRow
      <3> QED BY <3>4
    <2>6. PICK s \in DOMAIN outcome : Lifecycle!Observe(s)
      BY <1>1, <2>1, <2>3, <2>4, <2>5, ObserveCommits
    <2>7. signal.status = "RESOLVED" /\ s \in Nat \ {0} /\ internalCase.verification \in Nat
      BY <2>2 DEF RowsAgree, SignalAndCaseAgree, TypeOK, CaseRow
    <2>8. internalCase.verification # 0 => internalCase.verification < s
      BY <2>6, <2>7 DEF Lifecycle!Observe, Lifecycle!NewerThanResolution
    <2>9. signal'.lastSeen = s BY <2>6 DEF Lifecycle!Observe
    <2> QED BY <2>7, <2>8, <2>9
  <1>2. IInv /\ SInv /\ [Next]_vars => [Newer]_vars BY <1>1
  <1> QED BY <1>2, SerialInvariance, PTL DEF Spec, OnlyNewerFaultsReopen

(* The transactions, statement by statement, with their conflicts, retries, *)
(* rollbacks and lost connections, implement the atomic operations of       *)
(* ConditionLifecycle: each commit is one of them, every other step none.   *)
THEOREM SerialRefinement ==
    ASSUME SerialResolves PROVE Spec => ImplementsLifecycle
  <1>1. Init => Lifecycle!Init
    BY DEF Init, Lifecycle!Init, NoSignal, Lifecycle!NoSignal, NoCase, Lifecycle!NoCase
  <1>2. IInv /\ SInv /\ [Next]_vars => [Lifecycle!Next]_(Lifecycle!vars)
    BY StepSimulates
  <1> QED BY <1>1, <1>2, SerialInvariance, PTL
          DEF Spec, ImplementsLifecycle, Lifecycle!Spec
=============================================================================
