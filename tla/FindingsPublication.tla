------------------------- MODULE FindingsPublication -------------------------
(* Publication of the findings of one snapshot.  The collector stores the    *)
(* snapshot row, then its evidence, then evaluates the rules, each statement *)
(* on its own (storeResults and evaluateAndPersistFindings in                *)
(* apps/collector/src/dns/collector.ts).  Web requests evaluate the snapshot *)
(* again in a transaction (apps/web/hono/routes/findings.ts): a GET when it  *)
(* finds no findings of the current ruleset version, a refresh always.  They *)
(* meet at the snapshot row and at the unique index of the findings.         *)
EXTENDS Integers, FiniteSets

CONSTANTS
  Readers,       \* web requests
  Keys,          \* pairs of rule and finding type, as in the unique index
  OnNone, OnAll, \* what the rules find in no evidence and in all of it
  EarlyReaders,  \* requests may come before the evidence is stored
  Faults         \* statements may fail, processes may die

Nobody == "nobody"

ASSUME FindingsAssumption == OnNone \subseteq Keys /\ OnAll \subseteq Keys /\ Nobody \notin Readers

VARIABLES
  snapshot,  \* the row: [state, version, coverage]
  evidence,  \* the stored observations and record sets: "none" or "all"
  throws,    \* some rule throws on the evidence of this snapshot
  findings,  \* the committed rows: set of <<version, key>>
  collector, \* [phase, seen]
  request,   \* for each reader [phase, refresh, evidence, seen]
  tx,        \* for each reader its uncommitted writes
  rowLock    \* the reader whose transaction has written the snapshot row

vars == <<snapshot, evidence, throws, findings, collector, request, tx, rowLock>>

States == {"absent", "complete", "partial"}
Versions == {"none", "old", "current"}
Coverages == {"none", "COMPLETE", "PARTIAL"}
NoWrites == [row |-> {}, inserted |-> {}, deleted |-> {}]
NoRequest == [phase |-> "idle", refresh |-> FALSE, evidence |-> "none", seen |-> "absent"]
Absent == [state |-> "absent", version |-> "none", coverage |-> "none"]

(* Either the collection is about to store the snapshot, or the snapshot was *)
(* stored and evaluated with an older ruleset.                               *)
Init ==
  /\ throws \in BOOLEAN
  /\ \/ /\ snapshot = Absent
        /\ evidence = "none" /\ findings = {}
        /\ collector = [phase |-> "collected", seen |-> "absent"]
     \/ /\ snapshot = [state |-> "complete", version |-> "old", coverage |-> "COMPLETE"]
        /\ evidence = "all" /\ findings = {<<"old", k>> : k \in OnAll}
        /\ collector = [phase |-> "done", seen |-> "complete"]
  /\ request = [r \in Readers |-> NoRequest]
  /\ tx = [r \in Readers |-> NoWrites]
  /\ rowLock = Nobody

------------------------------------------------------------------------------
(* RulesEngine.evaluate: the findings, and whether every rule completed.     *)
Evaluated(e) == IF e = "all" THEN OnAll ELSE OnNone
Complete(e) == e = "none" \/ ~throws

Coverage(e) == IF Complete(e) THEN "COMPLETE" ELSE "PARTIAL"

Current(rows) == {f \in rows : f[1] = "current"}
Rows(e) == {<<"current", k>> : k \in Evaluated(e)}

(* Variant: a refresh deletes with deleteBySnapshotId.                       *)
AllOfSnapshot == findings

(* deleteBySnapshotIdAndRulesetVersionId.                                    *)
Replaced == Current(findings)

(* The row that a transaction sees: its own write or the committed one.      *)
RowOf(r) == IF tx[r].row = {} THEN snapshot ELSE CHOOSE row \in tx[r].row : TRUE
LockFree(r) == rowLock \in {r, Nobody}

(* The keys a transaction has inserted or deleted and not yet committed:     *)
(* whoever inserts one of them waits for the transaction to end.             *)
Undecided(rows, r) == \E other \in Readers \ {r} : rows \cap (tx[other].inserted \union tx[other].deleted) /= {}
Conflicts(rows, own) == rows \cap (findings \ own) /= {}

(* updateEvaluationCoverage writes the result state it read before.          *)
Covered(row, seen, coverage) ==
  [state |-> IF coverage = "PARTIAL" /\ seen = "complete" THEN "partial" ELSE seen,
   version |-> row.version, coverage |-> coverage]

(* unpublishEvaluation.                                                      *)
Unpublished(row) == [state |-> row.state, version |-> "none", coverage |-> "PARTIAL"]

------------------------------------------------------------------------------
(* The collector.                                                            *)
Collector(phase) == collector' = [collector EXCEPT !.phase = phase]

StoreSnapshot ==
  /\ collector.phase = "collected"
  /\ \E state \in {"complete", "partial"} : snapshot' = [Absent EXCEPT !.state = state]
  /\ Collector("snapshot")
  /\ UNCHANGED <<evidence, throws, findings, request, tx, rowLock>>

StoreEvidence ==
  /\ collector.phase = "snapshot"
  /\ evidence' = "all"
  /\ Collector("evidence")
  /\ UNCHANGED <<snapshot, throws, findings, request, tx, rowLock>>

(* createMany is one statement: it inserts all findings or fails.            *)
InsertFindings ==
  /\ collector.phase = "evidence"
  /\ ~Undecided(Rows("all"), Nobody)
  /\ IF Conflicts(Rows("all"), {})
     THEN findings' = findings /\ Collector("error")
     ELSE findings' = findings \union Rows("all") /\ Collector("findings")
  /\ UNCHANGED <<snapshot, evidence, throws, request, tx, rowLock>>

UpdateRulesetVersion ==
  /\ collector.phase = "findings"
  /\ IF Complete("all")
     THEN rowLock = Nobody /\ snapshot' = [snapshot EXCEPT !.version = "current"]
     ELSE snapshot' = snapshot
  /\ Collector("version")
  /\ UNCHANGED <<evidence, throws, findings, request, tx, rowLock>>

ReadForCoverage ==
  /\ collector.phase \in {"version", "error"}
  /\ collector' = [phase |-> IF collector.phase = "version" THEN "covering" ELSE "failing",
                   seen |-> snapshot.state]
  /\ UNCHANGED <<snapshot, evidence, throws, findings, request, tx, rowLock>>

UpdateCoverage ==
  /\ collector.phase \in {"covering", "failing"}
  /\ rowLock = Nobody
  /\ snapshot' = Covered(snapshot, collector.seen,
                   IF collector.phase = "covering" THEN Coverage("all") ELSE "PARTIAL")
  /\ Collector("done")
  /\ UNCHANGED <<evidence, throws, findings, request, tx, rowLock>>

(* A statement of the evaluation fails; the process may also just end.       *)
CollectorFails ==
  /\ Faults
  /\ collector.phase \in {"evidence", "findings", "version", "covering"}
  /\ Collector("error")
  /\ UNCHANGED <<snapshot, evidence, throws, findings, request, tx, rowLock>>

CollectorDies ==
  /\ Faults
  /\ collector.phase /= "done"
  /\ Collector("done")
  /\ UNCHANGED <<snapshot, evidence, throws, findings, request, tx, rowLock>>

------------------------------------------------------------------------------
(* A web request.                                                            *)
Phase(r, phase) == request' = [request EXCEPT ![r].phase = phase]

(* GET /snapshot/:id/findings, with refresh=true or not; POST evaluate and   *)
(* the backfill are refreshes.  The GET answers with the findings it finds.  *)
Begin(r, refresh) ==
  /\ request[r].phase = "idle"
  /\ snapshot.state /= "absent"
  /\ EarlyReaders \/ evidence = "all"
  /\ request' = [request EXCEPT ![r] =
       IF Current(findings) /= {} /\ ~refresh
       THEN [NoRequest EXCEPT !.phase = "answered"]
       ELSE [phase |-> "load", refresh |-> refresh, evidence |-> "none", seen |-> "absent"]]
  /\ UNCHANGED <<snapshot, evidence, throws, findings, collector, tx, rowLock>>

Load(r) ==
  /\ request[r].phase = "load"
  /\ request' = [request EXCEPT ![r] = [phase |-> IF @.refresh THEN "unpublish" ELSE "insert",
                                        refresh |-> @.refresh, evidence |-> evidence, seen |-> @.seen]]
  /\ UNCHANGED <<snapshot, evidence, throws, findings, collector, tx, rowLock>>

Write(r, row) == tx' = [tx EXCEPT ![r].row = {row}] /\ rowLock' = r

Unpublish(r) ==
  /\ request[r].phase = "unpublish"
  /\ LockFree(r)
  /\ Write(r, Unpublished(RowOf(r)))
  /\ Phase(r, "delete")
  /\ UNCHANGED <<snapshot, evidence, throws, findings, collector>>

Delete(r) ==
  /\ request[r].phase = "delete"
  /\ tx' = [tx EXCEPT ![r].deleted = Replaced]
  /\ Phase(r, "insert")
  /\ UNCHANGED <<snapshot, evidence, throws, findings, collector, rowLock>>

Insert(r) ==
  LET rows == Rows(request[r].evidence)
  IN /\ request[r].phase = "insert"
     /\ ~Undecided(rows, r)
     /\ ~Conflicts(rows, tx[r].deleted)
     /\ tx' = [tx EXCEPT ![r].inserted = rows]
     /\ Phase(r, IF Complete(request[r].evidence) THEN "version" ELSE "read")
     /\ UNCHANGED <<snapshot, evidence, throws, findings, collector, rowLock>>

PublishVersion(r) ==
  /\ request[r].phase = "version"
  /\ LockFree(r)
  /\ Write(r, [RowOf(r) EXCEPT !.version = "current"])
  /\ Phase(r, "read")
  /\ UNCHANGED <<snapshot, evidence, throws, findings, collector>>

ReadRow(r) ==
  /\ request[r].phase = "read"
  /\ request' = [request EXCEPT ![r] = [phase |-> "cover", refresh |-> @.refresh,
                                        evidence |-> @.evidence, seen |-> RowOf(r).state]]
  /\ UNCHANGED <<snapshot, evidence, throws, findings, collector, tx, rowLock>>

PublishCoverage(r) ==
  /\ request[r].phase = "cover"
  /\ LockFree(r)
  /\ Write(r, Covered(RowOf(r), request[r].seen, Coverage(request[r].evidence)))
  /\ Phase(r, "commit")
  /\ UNCHANGED <<snapshot, evidence, throws, findings, collector>>

Commit(r) ==
  /\ request[r].phase = "commit"
  /\ snapshot' = RowOf(r)
  /\ findings' = (findings \ tx[r].deleted) \union tx[r].inserted
  /\ tx' = [tx EXCEPT ![r] = NoWrites]
  /\ rowLock' = Nobody
  /\ Phase(r, "answered")
  /\ UNCHANGED <<evidence, throws, collector>>

InTransaction(r) == request[r].phase \in {"unpublish", "delete", "insert", "version", "read", "cover", "commit"}

(* Variant: the snapshot repository of publish uses db instead of tx.        *)
AbortFindingsOnly(r) ==
  /\ InTransaction(r)
  /\ snapshot' = RowOf(r)
  /\ tx' = [tx EXCEPT ![r] = NoWrites]
  /\ rowLock' = IF rowLock = r THEN Nobody ELSE rowLock
  /\ Phase(r, "failed")
  /\ UNCHANGED <<evidence, throws, findings, collector>>

(* The transaction is rolled back.                                           *)
Abort(r) ==
  /\ InTransaction(r)
  /\ tx' = [tx EXCEPT ![r] = NoWrites]
  /\ rowLock' = IF rowLock = r THEN Nobody ELSE rowLock
  /\ Phase(r, "failed")
  /\ UNCHANGED <<snapshot, evidence, throws, findings, collector>>

(* The insert meets a committed row with its key.                            *)
InsertConflicts(r) ==
  /\ request[r].phase = "insert"
  /\ ~Undecided(Rows(request[r].evidence), r)
  /\ Conflicts(Rows(request[r].evidence), tx[r].deleted)
  /\ Abort(r)

(* The writer of the row waits for a key that the other has inserted, which  *)
(* waits for the row: the database ends one of the two.                      *)
WaitForEachOther(writer, other) ==
  /\ rowLock = writer /\ request[writer].phase = "insert"
  /\ Rows(request[writer].evidence) \cap tx[other].inserted /= {}
  /\ request[other].phase \in {"version", "cover"}

(* Variant: nobody looks for deadlocks.                                      *)
NotDetected(r) == FALSE

Deadlocked(r) ==
  \E other \in Readers \ {r} : WaitForEachOther(r, other) \/ WaitForEachOther(other, r)

DeadlockAborts(r) == Deadlocked(r) /\ Abort(r)
StatementFails(r) == Faults /\ Abort(r)

(* The catch of persistEvaluatedFindings, outside of the transaction; its    *)
(* own failure is ignored.                                                   *)
UnpublishAfterFailure(r) ==
  /\ request[r].phase = "failed"
  /\ rowLock = Nobody
  /\ \/ snapshot' = Unpublished(snapshot)
     \/ Faults /\ snapshot' = snapshot
  /\ Phase(r, "answered")
  /\ UNCHANGED <<evidence, throws, findings, collector, tx, rowLock>>

Step(r) ==
  \/ Load(r) \/ Unpublish(r) \/ Delete(r) \/ Insert(r) \/ InsertConflicts(r)
  \/ PublishVersion(r) \/ ReadRow(r) \/ PublishCoverage(r) \/ Commit(r)
  \/ DeadlockAborts(r) \/ UnpublishAfterFailure(r)

CollectorStep ==
  \/ StoreSnapshot \/ StoreEvidence \/ InsertFindings \/ UpdateRulesetVersion
  \/ ReadForCoverage \/ UpdateCoverage

Next ==
  \/ CollectorStep \/ CollectorFails \/ CollectorDies
  \/ \E r \in Readers : Step(r) \/ StatementFails(r) \/ \E refresh \in BOOLEAN : Begin(r, refresh)

Spec == Init /\ [][Next]_vars
Fairness == WF_vars(CollectorStep) /\ \A r \in Readers : WF_vars(Step(r))
FairSpec == Spec /\ Fairness

------------------------------------------------------------------------------
(* The rows keep their types; what a transaction has written and not yet     *)
(* committed belongs to a request that is in its transaction.                *)
TypeOK ==
  /\ snapshot \in [state : States, version : Versions, coverage : Coverages]
  /\ evidence \in {"none", "all"} /\ throws \in BOOLEAN
  /\ findings \subseteq Versions \X Keys
  /\ rowLock \in Readers \union {Nobody}
  /\ \A r \in Readers :
       /\ ~InTransaction(r) => tx[r] = NoWrites
       /\ rowLock = r <=> tx[r].row /= {}

(* Whoever reads a snapshot that carries the current ruleset version and     *)
(* complete coverage reads exactly what the rules find in its evidence: the  *)
(* summary, the portfolio and the MCP tools trust these two columns.         *)
PublishedIsEvaluated ==
  snapshot.version = "current" /\ snapshot.coverage = "COMPLETE"
    => Current(findings) = Rows("all") /\ ~throws

(* A refresh leaves findings of older ruleset versions alone, and nobody     *)
(* ever sees it half done: the current findings are all there or not at all. *)
HistoryIsKept ==
  [][/\ {f \in findings : f[1] = "old"} \subseteq findings'
     /\ Current(findings') \in {{}, Rows("none"), Rows("all"), Rows("none") \union Rows("all")}]_vars

(* A publication says that it is unfinished only while it is: without faults *)
(* no snapshot with all its findings stays unpublished once all requests     *)
(* are answered.                                                             *)
UnfinishedIsUnderWay ==
  (/\ collector.phase = "done" /\ \A r \in Readers : request[r].phase \in {"idle", "answered"}
   /\ ~throws /\ Current(findings) = Rows("all") /\ findings /= {})
    => ~(snapshot.version = "none" /\ snapshot.coverage = "PARTIAL")

(* A request that evaluates waits for other publishers, of the findings and  *)
(* of the row, but never for ever.                                           *)
EveryRequestEnds == \A r \in Readers : request[r].phase /= "idle" ~> request[r].phase = "answered"
==============================================================================
