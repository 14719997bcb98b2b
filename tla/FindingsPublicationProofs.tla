---------------------- MODULE FindingsPublicationProofs ----------------------
(* What a publication promises, for any number of requests and any findings, *)
(* when no request comes before the evidence of the snapshot is stored.      *)
EXTENDS FindingsPublication, TLAPS

Row == [state : States, version : Versions, coverage : Coverages]
CollectorPhases == {"collected", "snapshot", "evidence", "findings", "version", "covering", "error", "failing", "done"}
InTx == {"unpublish", "delete", "insert", "version", "read", "cover", "commit"}
Phases == InTx \union {"idle", "load", "failed", "answered"}

Types ==
  /\ snapshot \in Row
  /\ evidence \in {"none", "all"} /\ throws \in BOOLEAN
  /\ findings \subseteq Versions \X Keys
  /\ collector \in [phase : CollectorPhases, seen : States]
  /\ request \in [Readers -> [phase : Phases, refresh : BOOLEAN, evidence : {"none", "all"}, seen : States]]
  /\ tx \in [Readers -> [row : SUBSET Row, inserted : SUBSET (Versions \X Keys), deleted : SUBSET (Versions \X Keys)]]
  /\ rowLock \in Readers \union {Nobody}

(* The current findings are those of all the evidence, or there are none.    *)
Full == Current(findings) = Rows("all")
FindingsInv == Current(findings) \in {{}, Rows("all")}

(* A row that carries the current version stands on findings that are        *)
(* committed, or that its own transaction has inserted.                      *)
Backed(r, row) == row.version = "current" => ~throws /\ (Full \/ tx[r].inserted = Rows("all"))

CollectorInv ==
  /\ snapshot.version = "current" => Full /\ ~throws
  /\ collector.phase = "findings" => Full
  /\ collector.phase \in {"evidence", "findings", "version"} => evidence = "all"

RequestInv(r) ==
  /\ request[r].phase # "idle" => evidence = "all"
  /\ request[r].phase \in InTx => request[r].evidence = "all"
  /\ request[r].phase \notin InTx => tx[r] = NoWrites
  /\ request[r].phase = "version" => ~throws
  /\ request[r].phase \in {"version", "read", "cover", "commit"} => tx[r].inserted = Rows("all")
  /\ request[r].phase = "commit" => tx[r].row # {}
  /\ tx[r].deleted \subseteq {"current"} \X Keys
  /\ \A row \in tx[r].row : Backed(r, row)
  /\ rowLock = r <=> tx[r].row # {}

IInv == Types /\ FindingsInv /\ CollectorInv /\ \A r \in Readers : RequestInv(r)

-----------------------------------------------------------------------------
LEMMA RowsOfAll == /\ Rows("all") \subseteq Versions \X Keys /\ Rows("all") \subseteq {"current"} \X Keys
                   /\ Current(Rows("all")) = Rows("all")
BY FindingsAssumption DEF Rows, Evaluated, Versions, Current

(* The findings of an older ruleset are no current ones.                     *)
LEMMA CurrentOf ==
  ASSUME NEW rows, NEW more \in SUBSET rows
  PROVE  /\ Current(rows \union Rows("all")) = Current(rows) \union Rows("all")
         /\ Current((rows \ more) \union Rows("all")) = (Current(rows) \ more) \union Rows("all")
BY RowsOfAll DEF Current

LEMMA InitHolds == Init => IInv
<1> SUFFICES ASSUME Init PROVE IInv
  OBVIOUS
<1>1. findings \subseteq {"old"} \X Keys /\ snapshot \in Row /\ snapshot.version # "current"
  BY FindingsAssumption DEF Init, Absent, Row, States, Versions, Coverages
<1>2. Current(findings) = {}
  BY <1>1 DEF Current
<1>3. /\ collector \in [phase : CollectorPhases, seen : States]
      /\ collector.phase \notin {"evidence", "findings", "version"}
  BY DEF Init, States, CollectorPhases
<1>4. /\ request \in [Readers -> [phase : Phases, refresh : BOOLEAN, evidence : {"none", "all"}, seen : States]]
      /\ tx \in [Readers -> [row : SUBSET Row, inserted : SUBSET (Versions \X Keys), deleted : SUBSET (Versions \X Keys)]]
  BY DEF Init, NoRequest, NoWrites, Phases, InTx, States
<1>5. Types
  BY <1>1, <1>3, <1>4 DEF Init, Types, Versions
<1>6. \A r \in Readers : RequestInv(r)
  BY FindingsAssumption DEF Init, RequestInv, NoRequest, NoWrites, InTx
<1> QED BY <1>1, <1>2, <1>3, <1>5, <1>6 DEF IInv, FindingsInv, CollectorInv

(* A request that a step leaves alone keeps what is said of it: current      *)
(* findings that are complete stay so.                                       *)
LEMMA RequestKept ==
  ASSUME NEW r \in Readers, RequestInv(r), request'[r] = request[r], tx'[r] = tx[r],
         rowLock' = r <=> rowLock = r, throws' = throws,
         evidence = "all" => evidence' = "all", Full => Full'
  PROVE  RequestInv(r)'
BY DEF RequestInv, Backed

(* The row a transaction sees has a type, and findings behind it.            *)
LEMMA RowSeen ==
  ASSUME IInv, NEW r \in Readers
  PROVE  RowOf(r) \in Row /\ Backed(r, RowOf(r))
<1>1. CASE tx[r].row = {}
  BY <1>1 DEF IInv, Types, CollectorInv, RowOf, Backed
<1>2. CASE tx[r].row # {}
  <2>1. RowOf(r) \in tx[r].row
    BY <1>2 DEF RowOf
  <2> QED BY <2>1 DEF IInv, Types, RequestInv
<1> QED BY <1>1, <1>2

(* Steps that commit neither findings nor a version.                         *)
LEMMA QuietStep ==
  ASSUME IInv, Types', findings' = findings, throws' = throws,
         evidence = "all" => evidence' = "all",
         snapshot'.version # "current" \/ snapshot'.version = snapshot.version,
         collector'.phase = "findings" => collector.phase = "findings",
         collector'.phase \in {"evidence", "findings", "version"} =>
            evidence' = "all",
         \A r \in Readers : RequestInv(r)'
  PROVE  IInv'
<1>1. Full' <=> Full
  BY DEF Full
<1> QED BY <1>1 DEF IInv, FindingsInv, CollectorInv, Full

LEMMA CollectorKeeps ==
  ASSUME IInv, CollectorStep \/ CollectorFails \/ CollectorDies
  PROVE  IInv'
<1> USE DEF Collector, CollectorPhases
<1>1. UNCHANGED <<throws, request, tx, rowLock>>
  BY DEF CollectorStep, CollectorFails, CollectorDies, StoreSnapshot, StoreEvidence, InsertFindings,
         UpdateRulesetVersion, ReadForCoverage, UpdateCoverage
<1>2. ASSUME evidence = "all" => evidence' = "all", Full => Full' PROVE \A r \in Readers : RequestInv(r)'
  BY <1>1, <1>2, RequestKept DEF IInv
<1>3. CASE StoreSnapshot
  <2>1. /\ snapshot' \in Row /\ snapshot'.version # "current" /\ collector' \in [phase : CollectorPhases, seen : States]
        /\ collector'.phase = "snapshot"
    BY <1>3 DEF StoreSnapshot, Absent, Row, States, Versions, Coverages, IInv, Types
  <2>2. Types'
    BY <1>1, <1>3, <2>1 DEF StoreSnapshot, IInv, Types
  <2> QED BY <1>1, <1>2, <1>3, <2>1, <2>2, QuietStep DEF StoreSnapshot, Full
<1>4. CASE StoreEvidence
  <2>1. /\ evidence' = "all" /\ collector' \in [phase : CollectorPhases, seen : States]
        /\ collector'.phase = "evidence" /\ UNCHANGED <<snapshot, findings>>
    BY <1>4 DEF StoreEvidence, IInv, Types
  <2>2. Types'
    BY <1>1, <2>1 DEF IInv, Types
  <2> QED BY <1>1, <1>2, <2>1, <2>2, QuietStep DEF Full
<1>5. CASE InsertFindings
  <2>1. /\ collector' \in [phase : CollectorPhases, seen : States] /\ evidence = "all"
        /\ UNCHANGED <<snapshot, evidence>>
    BY <1>5 DEF InsertFindings, IInv, Types, CollectorInv
  <2>2. CASE findings' = findings /\ collector'.phase = "error"
    <3>1. Types'
      BY <1>1, <2>1, <2>2 DEF IInv, Types
    <3> QED BY <1>1, <1>2, <2>1, <2>2, <3>1, QuietStep DEF Full
  <2>3. CASE findings' = findings \union Rows("all") /\ collector'.phase = "findings"
    <3>1. Types'
      BY <1>1, <2>1, <2>3, RowsOfAll DEF IInv, Types
    <3>2. Full'
      <4>1. Current(findings') = Current(findings) \union Rows("all")
        BY <2>3, CurrentOf
      <4> QED BY <4>1 DEF IInv, FindingsInv, Full
    <3>3. FindingsInv' /\ CollectorInv'
      BY <1>1, <2>1, <3>2 DEF FindingsInv, Full, IInv, CollectorInv
    <3> QED BY <1>2, <2>1, <3>1, <3>2, <3>3 DEF IInv
  <2>4. \/ findings' = findings /\ collector'.phase = "error"
        \/ findings' = findings \union Rows("all") /\ collector'.phase = "findings"
    BY <1>5 DEF InsertFindings, IInv, Types
  <2> QED BY <2>2, <2>3, <2>4
<1>6. CASE UpdateRulesetVersion
  <2>1. /\ UNCHANGED <<evidence, findings>> /\ collector.phase = "findings" /\ Full /\ evidence = "all"
        /\ collector' \in [phase : CollectorPhases, seen : States] /\ collector'.phase = "version"
    BY <1>6 DEF UpdateRulesetVersion, IInv, Types, CollectorInv
  <2>2. snapshot' \in Row /\ (snapshot'.version = "current" => ~throws)
    BY <1>6 DEF UpdateRulesetVersion, IInv, Types, Row, Versions, Complete, CollectorInv
  <2>3. Full'
    BY <2>1 DEF Full
  <2>4. Types' /\ FindingsInv' /\ CollectorInv'
    BY <1>1, <2>1, <2>2, <2>3 DEF IInv, Types, FindingsInv, CollectorInv, Full
  <2> QED BY <1>2, <2>1, <2>3, <2>4 DEF IInv
<1>7. CASE ReadForCoverage
  <2>1. /\ UNCHANGED <<snapshot, evidence, findings>> /\ collector'.phase \in {"covering", "failing"}
        /\ collector' \in [phase : CollectorPhases, seen : States]
    BY <1>7 DEF ReadForCoverage, IInv, Types, Row
  <2>2. Types'
    BY <1>1, <2>1 DEF IInv, Types
  <2> QED BY <1>1, <1>2, <2>1, <2>2, QuietStep DEF Full
<1>8. CASE UpdateCoverage
  <2>1. /\ UNCHANGED <<evidence, findings>> /\ collector'.phase = "done"
        /\ collector' \in [phase : CollectorPhases, seen : States]
        /\ snapshot' \in Row /\ snapshot'.version = snapshot.version
    BY <1>8 DEF UpdateCoverage, Covered, Coverage, IInv, Types, Row, States, Coverages
  <2>2. Types'
    BY <1>1, <2>1 DEF IInv, Types
  <2> QED BY <1>1, <1>2, <2>1, <2>2, QuietStep DEF Full
<1>9. CASE CollectorFails \/ CollectorDies
  <2>1. /\ UNCHANGED <<snapshot, evidence, findings>> /\ collector'.phase \in {"error", "done"}
        /\ collector' \in [phase : CollectorPhases, seen : States]
    BY <1>9 DEF CollectorFails, CollectorDies, IInv, Types
  <2>2. Types'
    BY <1>1, <2>1 DEF IInv, Types
  <2> QED BY <1>1, <1>2, <2>1, <2>2, QuietStep DEF Full
<1> QED BY <1>3, <1>4, <1>5, <1>6, <1>7, <1>8, <1>9 DEF CollectorStep
-----------------------------------------------------------------------------
(* A step of one request leaves the others and the collector alone.          *)
Aside(r) ==
  /\ UNCHANGED <<evidence, throws, collector>>
  /\ \A e \in Readers \ {r} : /\ request'[e] = request[e] /\ tx'[e] = tx[e]
                              /\ rowLock' = e <=> rowLock = e

LEMMA StepAside ==
  ASSUME IInv, NEW r \in Readers, Aside(r), Types', RequestInv(r)', findings' = findings,
         snapshot' = snapshot \/ (snapshot' \in Row /\ snapshot'.version # "current")
  PROVE  IInv'
<1>1. Full' <=> Full
  BY DEF Full
<1>2. \A e \in Readers : RequestInv(e)'
  BY <1>1, RequestKept DEF IInv, Aside
<1>3. CollectorInv' /\ FindingsInv'
  BY <1>1 DEF Aside, IInv, CollectorInv, FindingsInv
<1> QED BY <1>2, <1>3 DEF IInv

(* A request writes the row of the snapshot in its transaction.              *)
LEMMA WriteKeeps ==
  ASSUME IInv, NEW r \in Readers, NEW row \in Row, LockFree(r), Write(r, row), Backed(r, row),
         NEW from, request[r].phase = from, from \in InTx,
         NEW to, Phase(r, to), to \in InTx, to # "version",
         to \in {"read", "cover", "commit"} => tx[r].inserted = Rows("all"),
         UNCHANGED <<snapshot, evidence, throws, findings, collector>>
  PROVE  IInv'
<1>1. /\ request'[r].phase = to /\ request'[r].evidence = request[r].evidence
      /\ request' \in [Readers -> [phase : Phases, refresh : BOOLEAN, evidence : {"none", "all"}, seen : States]]
  BY DEF Phase, IInv, Types, Phases
<1>2. /\ tx'[r].row = {row} /\ tx'[r].inserted = tx[r].inserted /\ tx'[r].deleted = tx[r].deleted
      /\ tx' \in [Readers -> [row : SUBSET Row, inserted : SUBSET (Versions \X Keys), deleted : SUBSET (Versions \X Keys)]]
  <2> DEFINE Writes == [row : SUBSET Row, inserted : SUBSET (Versions \X Keys), deleted : SUBSET (Versions \X Keys)]
             written == [tx[r] EXCEPT !.row = {row}]
  <2>1. tx \in [Readers -> Writes] /\ tx' = [tx EXCEPT ![r] = written]
    BY DEF Write, IInv, Types
  <2>2. /\ tx[r] \in Writes /\ written \in Writes
        /\ written.row = {row} /\ written.inserted = tx[r].inserted /\ written.deleted = tx[r].deleted
    BY <2>1
  <2> HIDE DEF Writes, written
  <2>3. tx' \in [Readers -> Writes] /\ tx'[r] = written
    BY <2>1, <2>2
  <2> QED BY <2>2, <2>3 DEF Writes
<1>3. rowLock' = r
  BY DEF Write
<1>4. Types'
  BY <1>1, <1>2, <1>3 DEF IInv, Types
<1>5. Aside(r)
  BY FindingsAssumption DEF Aside, Phase, Write, LockFree, IInv, Types
<1>6. Full' <=> Full
  BY DEF Full
<1>7. RequestInv(r)'
  BY <1>1, <1>2, <1>3, <1>6 DEF RequestInv, IInv, Backed, InTx
<1> QED BY <1>4, <1>5, <1>7, StepAside

LEMMA WritesKeep ==
  ASSUME IInv, NEW r \in Readers, Unpublish(r) \/ PublishVersion(r) \/ PublishCoverage(r)
  PROVE  IInv'
<1>1. RowOf(r) \in Row /\ Backed(r, RowOf(r)) /\ RequestInv(r)
  BY RowSeen DEF IInv
<1>2. CASE Unpublish(r)
  <2>1. Unpublished(RowOf(r)) \in Row /\ Backed(r, Unpublished(RowOf(r)))
    BY <1>1 DEF Unpublished, Row, Versions, Coverages, Backed
  <2> QED BY <1>2, <2>1, WriteKeeps DEF Unpublish, InTx
<1>3. CASE PublishVersion(r)
  <2> DEFINE row == [RowOf(r) EXCEPT !.version = "current"]
  <2>1. row \in Row /\ Backed(r, row) /\ tx[r].inserted = Rows("all")
    BY <1>1, <1>3 DEF PublishVersion, Row, Versions, Backed, RequestInv
  <2> QED BY <1>3, <2>1, WriteKeeps DEF PublishVersion, InTx
<1>4. CASE PublishCoverage(r)
  <2> DEFINE row == Covered(RowOf(r), request[r].seen, Coverage(request[r].evidence))
  <2>1. request[r].seen \in States /\ Coverage(request[r].evidence) \in Coverages
    BY DEF IInv, Types, Coverage, Coverages
  <2>2. row \in Row /\ row.version = RowOf(r).version
    BY <1>1, <2>1 DEF Covered, Row, States
  <2>3. Backed(r, row) /\ tx[r].inserted = Rows("all")
    BY <1>1, <1>4, <2>2 DEF PublishCoverage, Backed, RequestInv
  <2> QED BY <1>4, <2>2, <2>3, WriteKeeps DEF PublishCoverage, InTx
<1> QED BY <1>2, <1>3, <1>4

(* The steps that read, insert or delete and do not touch the row.           *)
LEMMA RequestKeeps ==
  ASSUME IInv, NEW r \in Readers, ~EarlyReaders,
         (\E refresh \in BOOLEAN : Begin(r, refresh)) \/ Load(r) \/ Delete(r) \/ Insert(r) \/ ReadRow(r)
  PROVE  IInv'
<1>1. UNCHANGED <<snapshot, evidence, throws, findings, collector, rowLock>>
  BY DEF Begin, Load, Delete, Insert, ReadRow
<1>2. RequestInv(r) /\ Types
  BY DEF IInv
<1>3. Aside(r)
  BY <1>1, <1>2 DEF Aside, Begin, Load, Delete, Insert, ReadRow, Phase, Types
<1>4. Full' <=> Full
  BY <1>1 DEF Full
<1> DEFINE Request == [phase : Phases, refresh : BOOLEAN, evidence : {"none", "all"}, seen : States]
           Tx == [row : SUBSET Row, inserted : SUBSET (Versions \X Keys), deleted : SUBSET (Versions \X Keys)]
<1>5. ASSUME request' \in [Readers -> Request], tx' \in [Readers -> Tx], RequestInv(r)'
      PROVE  IInv'
  <2>1. Types'
    BY <1>1, <1>2, <1>5 DEF Types
  <2> QED BY <1>1, <1>3, <1>5, <2>1, StepAside
<1>6. ASSUME NEW refresh \in BOOLEAN, Begin(r, refresh) PROVE IInv'
  <2>1. tx' = tx /\ evidence = "all" /\ request[r].phase = "idle"
    BY <1>6 DEF Begin
  <2>2. PICK req \in Request : request' = [request EXCEPT ![r] = req] /\ req.phase \in {"answered", "load"}
    <3>1. /\ [NoRequest EXCEPT !.phase = "answered"] \in Request
          /\ [phase |-> "load", refresh |-> refresh, evidence |-> "none", seen |-> "absent"] \in Request
      BY <1>6 DEF NoRequest, Phases, States
    <3> QED BY <1>6, <3>1 DEF Begin, NoRequest
  <2>3. request' \in [Readers -> Request] /\ request'[r] = req
    BY <1>2, <2>2 DEF Types
  <2>4. RequestInv(r)'
    BY <1>1, <1>2, <1>4, <2>1, <2>2, <2>3 DEF RequestInv, InTx, Backed
  <2> QED BY <1>2, <1>5, <2>1, <2>3, <2>4 DEF Types
<1>7. CASE Load(r)
  <2>1. tx' = tx /\ evidence = "all"
    BY <1>2, <1>7 DEF Load, RequestInv
  <2>2. /\ request' \in [Readers -> Request] /\ request'[r].evidence = "all"
        /\ request'[r].phase \in {"unpublish", "insert"}
    BY <1>2, <1>7, <2>1 DEF Load, Types, Phases, InTx
  <2>3. RequestInv(r)'
    BY <1>1, <1>2, <1>4, <1>7, <2>1, <2>2 DEF Load, RequestInv, InTx, Backed, NoWrites
  <2> QED BY <1>2, <1>5, <2>1, <2>2, <2>3 DEF Types
<1>8. CASE Delete(r)
  <2>1. /\ request' \in [Readers -> Request] /\ request'[r].phase = "insert"
        /\ request'[r].evidence = request[r].evidence /\ request[r].phase = "delete"
    BY <1>2, <1>8 DEF Delete, Phase, Types, Phases, InTx
  <2>2. Replaced \subseteq Versions \X Keys /\ Replaced \subseteq {"current"} \X Keys
    BY <1>2 DEF Types, Replaced, Current
  <2>3. /\ tx' \in [Readers -> Tx] /\ tx'[r].row = tx[r].row /\ tx'[r].inserted = tx[r].inserted
        /\ tx'[r].deleted = Replaced
    BY <1>2, <1>8, <2>2 DEF Delete, Types
  <2>4. RequestInv(r)'
    BY <1>1, <1>2, <1>4, <2>1, <2>2, <2>3 DEF RequestInv, InTx, Backed
  <2> QED BY <1>5, <2>1, <2>3, <2>4
<1>9. CASE Insert(r)
  <2>1. request[r].phase = "insert" /\ request[r].evidence = "all" /\ evidence = "all"
    BY <1>2, <1>9 DEF Insert, RequestInv, InTx
  <2>2. /\ request' \in [Readers -> Request] /\ request'[r].evidence = "all"
        /\ request'[r].phase = IF throws THEN "read" ELSE "version"
    BY <1>2, <1>9, <2>1 DEF Insert, Phase, Types, Phases, InTx, Complete
  <2>3. /\ tx' \in [Readers -> Tx] /\ tx'[r].row = tx[r].row /\ tx'[r].inserted = Rows("all")
        /\ tx'[r].deleted = tx[r].deleted
    BY <1>2, <1>9, <2>1, RowsOfAll DEF Insert, Types
  <2>4. Rows("all")' = Rows("all")
    BY DEF Rows, Evaluated
  <2>5. RequestInv(r)'
    BY <1>1, <1>2, <1>4, <2>1, <2>2, <2>3, <2>4 DEF RequestInv, InTx, Backed
  <2> QED BY <1>5, <2>2, <2>3, <2>5
<1>10. CASE ReadRow(r)
  <2>1. tx' = tx /\ request[r].phase = "read" /\ RowOf(r).state \in States
    BY <1>10, RowSeen DEF ReadRow, Row
  <2>2. /\ request' \in [Readers -> Request] /\ request'[r].phase = "cover"
        /\ request'[r].evidence = request[r].evidence
    BY <1>2, <1>10, <2>1 DEF ReadRow, Types, Phases, InTx
  <2>3. RequestInv(r)'
    BY <1>1, <1>2, <1>4, <2>1, <2>2 DEF RequestInv, InTx, Backed
  <2> QED BY <1>2, <1>5, <2>1, <2>2, <2>3 DEF Types
<1> QED BY <1>6, <1>7, <1>8, <1>9, <1>10

(* A commit publishes findings and row together.                             *)
LEMMA CommitKeeps ==
  ASSUME IInv, NEW r \in Readers, Commit(r)
  PROVE  IInv'
<1>1. RequestInv(r) /\ Types /\ request[r].phase = "commit"
  BY DEF IInv, Commit
<1>2. /\ request' \in [Readers -> [phase : Phases, refresh : BOOLEAN, evidence : {"none", "all"}, seen : States]]
      /\ request'[r].phase = "answered" /\ request'[r].evidence = request[r].evidence
      /\ tx' = [tx EXCEPT ![r] = NoWrites] /\ tx'[r] = NoWrites /\ rowLock' = Nobody /\ rowLock = r
      /\ UNCHANGED <<evidence, throws, collector>>
  BY <1>1 DEF Commit, Phase, Types, Phases, RequestInv
<1>3. tx[r].inserted = Rows("all") /\ findings' = (findings \ tx[r].deleted) \union Rows("all")
  BY <1>1 DEF Commit, RequestInv
<1>4. Full'
  <2>1. Current(findings) \subseteq Rows("all")
    BY DEF IInv, FindingsInv
  <2>2. Current(findings') = (Current(findings) \ (findings \intersect tx[r].deleted)) \union Rows("all")
    <3>1. findings' = (findings \ (findings \intersect tx[r].deleted)) \union Rows("all")
      BY <1>3
    <3> QED BY <3>1, CurrentOf
  <2> QED BY <2>1, <2>2 DEF Full
<1>5. snapshot' \in Row /\ (snapshot'.version = "current" => ~throws)
  BY RowSeen DEF Commit, Backed
<1>6. Types'
  <2>1. NoWrites \in [row : SUBSET Row, inserted : SUBSET (Versions \X Keys), deleted : SUBSET (Versions \X Keys)]
    BY DEF NoWrites
  <2> QED BY <1>1, <1>2, <1>3, <1>5, <2>1, RowsOfAll DEF Types
<1>7. RequestInv(r)'
  BY <1>1, <1>2, FindingsAssumption DEF RequestInv, NoWrites, InTx
<1>8. ASSUME NEW e \in Readers \ {r} PROVE RequestInv(e)'
  BY <1>1, <1>2, <1>4, RequestKept, FindingsAssumption DEF IInv, Commit, Phase, Types
<1>9. FindingsInv' /\ CollectorInv'
  BY <1>2, <1>4, <1>5 DEF FindingsInv, Full, IInv, CollectorInv
<1> QED BY <1>6, <1>7, <1>8, <1>9 DEF IInv

LEMMA EndKeeps ==
  ASSUME IInv, NEW r \in Readers, Abort(r) \/ UnpublishAfterFailure(r)
  PROVE  IInv'
<1>1. RequestInv(r) /\ Types /\ findings' = findings
  BY DEF IInv, Abort, UnpublishAfterFailure
<1>2. CASE Abort(r)
  <2>1. /\ request' \in [Readers -> [phase : Phases, refresh : BOOLEAN, evidence : {"none", "all"}, seen : States]]
        /\ request'[r].phase = "failed" /\ request'[r].evidence = request[r].evidence
        /\ tx' = [tx EXCEPT ![r] = NoWrites] /\ tx'[r] = NoWrites
        /\ rowLock' = IF rowLock = r THEN Nobody ELSE rowLock
        /\ UNCHANGED <<evidence, throws, collector, snapshot>>
        /\ request[r].phase # "idle"
    BY <1>1, <1>2 DEF Abort, Phase, Types, Phases, InTransaction
  <2>2. NoWrites \in [row : SUBSET Row, inserted : SUBSET (Versions \X Keys), deleted : SUBSET (Versions \X Keys)]
    BY DEF NoWrites
  <2>3. Types'
    BY <1>1, <2>1, <2>2 DEF Types
  <2>4. RequestInv(r)'
    BY <1>1, <2>1, FindingsAssumption DEF RequestInv, NoWrites, InTx
  <2>5. Aside(r)
    BY <1>1, <1>2, <2>1, FindingsAssumption DEF Aside, Abort, Phase, Types
  <2> QED BY <1>1, <2>1, <2>3, <2>4, <2>5, StepAside
<1>3. CASE UnpublishAfterFailure(r)
  <2>1. /\ request' \in [Readers -> [phase : Phases, refresh : BOOLEAN, evidence : {"none", "all"}, seen : States]]
        /\ request'[r].phase = "answered" /\ request'[r].evidence = request[r].evidence
        /\ request[r].phase = "failed"
        /\ UNCHANGED <<evidence, throws, collector, tx, rowLock>>
    <3>1. /\ request' = [request EXCEPT ![r].phase = "answered"] /\ request[r].phase = "failed"
          /\ UNCHANGED <<evidence, throws, collector, tx, rowLock>>
      BY <1>3 DEF UnpublishAfterFailure, Phase
    <3> QED BY <1>1, <3>1 DEF Types, Phases
  <2>2. snapshot' = snapshot \/ (snapshot' \in Row /\ snapshot'.version # "current")
    BY <1>1, <1>3 DEF UnpublishAfterFailure, Unpublished, Types, Row, Versions, Coverages
  <2>3. Types'
    BY <1>1, <2>1, <2>2 DEF Types
  <2>4. RequestInv(r)'
    BY <1>1, <2>1 DEF RequestInv, NoWrites, InTx
  <2>5. Aside(r)
    BY <1>1, <1>3, <2>1 DEF Aside, UnpublishAfterFailure, Phase, Types
  <2> QED BY <1>1, <2>2, <2>3, <2>4, <2>5, StepAside
<1> QED BY <1>2, <1>3

LEMMA StepKeeps == ~EarlyReaders /\ IInv /\ [Next]_vars => IInv'
<1> SUFFICES ASSUME ~EarlyReaders, IInv, [Next]_vars PROVE IInv'
  OBVIOUS
<1>1. CASE UNCHANGED vars
  BY <1>1 DEF vars, IInv, Types, FindingsInv, Full, CollectorInv, RequestInv, Backed
<1>2. CASE CollectorStep \/ CollectorFails \/ CollectorDies
  BY <1>2, CollectorKeeps
<1>3. ASSUME NEW r \in Readers, Step(r) \/ StatementFails(r) \/ \E refresh \in BOOLEAN : Begin(r, refresh)
      PROVE  IInv'
  BY <1>3, RequestKeeps, WritesKeep, CommitKeeps, EndKeeps
     DEF Step, StatementFails, DeadlockAborts, InsertConflicts
<1> QED BY <1>1, <1>2, <1>3 DEF Next

LEMMA Invariant == ~EarlyReaders /\ Spec => []IInv
<1>1. ~EarlyReaders => [](~EarlyReaders)
  OBVIOUS
<1> QED BY <1>1, InitHolds, StepKeeps, PTL DEF Spec

-----------------------------------------------------------------------------
\* The committed rows keep their types, and only a request in its transaction has
\* writes that are not committed.
THEOREM TypeCorrect == ~EarlyReaders /\ Spec => []TypeOK
<1>1. IInv => TypeOK
  BY DEF IInv, Types, Row, RequestInv, TypeOK, InTransaction, InTx
<1> QED BY <1>1, Invariant, PTL

\* Whoever sees the current version with complete coverage sees exactly the findings
\* of all the evidence: whatever requests, refreshes and failures meet.
THEOREM PublishedFindings == ~EarlyReaders /\ Spec => []PublishedIsEvaluated
<1>1. IInv => PublishedIsEvaluated
  BY DEF IInv, CollectorInv, Full, PublishedIsEvaluated
<1> QED BY <1>1, Invariant, PTL

\* No step takes findings of an older ruleset away or shows a refresh half done.
THEOREM HistoryStays == ~EarlyReaders /\ Spec => HistoryIsKept
<1>1. IInv /\ IInv' /\ [Next]_vars =>
        [/\ {f \in findings : f[1] = "old"} \subseteq findings'
         /\ Current(findings') \in {{}, Rows("none"), Rows("all"), Rows("none") \union Rows("all")}]_vars
  <2> SUFFICES ASSUME IInv, IInv', [Next]_vars
               PROVE  /\ {f \in findings : f[1] = "old"} \subseteq findings'
                      /\ Current(findings') \in {{}, Rows("none"), Rows("all"), Rows("none") \union Rows("all")}
    OBVIOUS
  <2>1. Current(findings') \in {{}, Rows("all")}
    BY DEF IInv, FindingsInv, Rows, Evaluated
  <2>2. ASSUME NEW r \in Readers, Commit(r) PROVE {f \in findings : f[1] = "old"} \subseteq findings'
    <3>1. findings' = (findings \ tx[r].deleted) \union tx[r].inserted /\ tx[r].deleted \subseteq {"current"} \X Keys
      BY <2>2 DEF Commit, IInv, RequestInv
    <3>2. \A f \in tx[r].deleted : f[1] = "current"
      BY <3>1
    <3> QED BY <3>1, <3>2
  <2>3. findings \subseteq findings' \/ \E r \in Readers : Commit(r)
    BY DEF Next, vars, CollectorStep, CollectorFails, CollectorDies, StoreSnapshot, StoreEvidence,
           InsertFindings, UpdateRulesetVersion, ReadForCoverage, UpdateCoverage, Step, StatementFails,
           Begin, Load, Unpublish, Delete, Insert, InsertConflicts, PublishVersion, ReadRow,
           PublishCoverage, DeadlockAborts, Abort, UnpublishAfterFailure
  <2> QED BY <2>1, <2>2, <2>3
<1> QED BY <1>1, Invariant, PTL DEF Spec, HistoryIsKept
==============================================================================
