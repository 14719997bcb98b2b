-------------------------- MODULE ScanVerdictsProofs --------------------------
(* Theorems about ScanVerdicts for any domains, servers, answers, walks,     *)
(* pages and certificates.  A stored snapshot is what the rules make of the  *)
(* evidence there is (SnapshotInv), so what a scan says is a question about  *)
(* the rules; what the probes left was true of the world when they wrote it  *)
(* and stays so (ProbesInv), so an outcome is a question about one row.      *)
EXTENDS ScanVerdicts, FiniteSetTheorems, WellFoundedInduction, TLAPS

(* What was asked so far, of every vantage in turn.                          *)
Observation == {Observed(v, r) : v \in ToSet(Vantages), r \in UNION {Answers(q) : q \in ToSet(plan)}}
EvidenceInv ==
  /\ domain \in Domains
  /\ asked \in 0..Len(Vantages)
  /\ evidence \in [ToSet(plan) -> Seq(Observation)]
  /\ \A q \in ToSet(plan) : /\ Len(evidence[q]) = asked
                            /\ \A i \in 1..asked : evidence[q][i].vantage = Vantages[i]

(* A stored snapshot is what the rules make of the evidence there is.        *)
SnapshotInv ==
  /\ phase \in {"asking", "handshake", "walking", "done"}
  /\ snapshot = IF phase = "asking" THEN [state |-> Absent, coverage |-> Absent, findings |-> {}]
                ELSE [state |-> ResultState, coverage |-> Coverage, findings |-> Findings]

(* The walk in hand: every hop leads to the next.                            *)
Hop == [url : Urls, status : {301}, location : Urls]
WalkInv ==
  /\ now \in Nat
  /\ start \in 1..(Len(Starts) + 1)
  /\ phase /= "done" => start <= Len(Starts)
  /\ truth = [finals |-> truth.finals, page |-> truth.page]
  /\ truth.finals \in Seq(Urls \union {NoUrl}) /\ Len(truth.finals) = start - 1
  /\ hops \in Seq(Hop)
  /\ hops /= <<>> => hops[1].url = Starts[start]
  /\ \A i \in 1..(Len(hops) - 1) : hops[i].location = hops[i + 1].url

(* A row without evidence names no target; a row with evidence tells of the  *)
(* handshake, of where a walk led, or of the page at the end of the second.  *)
Sees(p, check) == /\ p.check = check /\ p.status = "OBSERVED"
                  /\ p.success = TRUE /\ p.wellFormed = TRUE /\ p.probedAt \in Int
TlsRow(p) == Sees(p, "TLS_CERTIFICATE") /\ p.evidence \in Certificates
WalkRow(p) ==
  /\ Sees(p, "REDIRECT_TOPOLOGY") /\ Linked(p.evidence)
  /\ \E k \in 1..(start - 1) : p.target = Starts[k] /\ p.evidence.final = truth.finals[k] /\ truth.finals[k] /= NoUrl
PageRow(p) ==
  /\ Sees(p, "HOMEPAGE_INDEXABILITY") /\ start > 2
  /\ p.evidence.tags = truth.page.tags /\ (p.evidence.truncated <=> truth.page.hidden /= {})
RowInv(p) == p.status = "UNKNOWN" \/ TlsRow(p) \/ WalkRow(p) \/ PageRow(p)
ProbesInv == probes \in Seq(ToSet(probes)) /\ \A p \in ToSet(probes) : RowInv(p)

IInv == EvidenceInv /\ SnapshotInv /\ WalkInv /\ ProbesInv
-----------------------------------------------------------------------------
(* A set of numbers has a least one.                                         *)
LEMMA LeastNumber ==
  ASSUME NEW S, S \subseteq Nat, S # {}
  PROVE  \E m \in S : \A n \in S : m <= n
<1>1. PICK m \in S : \A n \in S : <<n, m>> \notin OpToRel(<, Nat)
  BY NatLessThanWellFounded, WFMin
<1>2. \A n \in S : n \in Nat /\ m \in Nat /\ ~(n < m)
  BY <1>1 DEF OpToRel
<1> QED BY <1>2

(* The first of some positions is one of them.                               *)
LEMMA FirstPosition ==
  ASSUME NEW S, S \subseteq Nat, S # {}
  PROVE  Min(S) \in S
BY LeastNumber DEF Min

(* A sequence is one of its own elements.                                    *)
LEMMA OfItsElements ==
  ASSUME NEW V, NEW s \in Seq(V)
  PROVE  s \in Seq(ToSet(s)) /\ \A i \in 1..Len(s) : s[i] \in ToSet(s)
<1>1. Len(s) \in Nat /\ DOMAIN s = 1..Len(s)
  OBVIOUS
<1>2. \A i \in 1..Len(s) : s[i] \in ToSet(s)
  BY <1>1 DEF ToSet
<1> QED BY <1>1, <1>2

(* The first vantage is the resolver, and no other is.                       *)
LEMMA ServersFollow ==
  /\ Vantages \in Seq(ToSet(Vantages))
  /\ Len(Vantages) \in Nat \ {0}
  /\ Vantages[1] = Recursive
  /\ \A i \in 2..Len(Vantages) : Vantages[i] /= Recursive
<1> DEFINE V == ToSet(Servers) \union {Recursive}
<1>1. Servers \in Seq(V) /\ Recursive \notin ToSet(Servers) /\ <<>> \in Seq(V) /\ <<Recursive>> \in Seq(V)
  BY AnswersAssumption
<1>2. CASE zone = "managed"
  <2>1. Vantages = <<Recursive>> \o Servers
    BY <1>2 DEF Vantages
  <2>2. /\ Vantages \in Seq(V) /\ Len(Vantages) = 1 + Len(Servers) /\ Vantages[1] = Recursive
        /\ \A i \in 2..Len(Vantages) : Vantages[i] = Servers[i - 1] /\ i - 1 \in 1..Len(Servers)
    BY <1>1, <2>1
  <2>3. \A i \in 1..Len(Servers) : Servers[i] /= Recursive
    BY <1>1, OfItsElements
  <2>4. Vantages \in Seq(ToSet(Vantages))
    BY <2>2, OfItsElements
  <2> QED BY <1>1, <2>2, <2>3, <2>4
<1>3. CASE zone /= "managed"
  <2>1. Vantages = <<Recursive>> \o <<>>
    BY <1>3 DEF Vantages
  <2>2. Vantages \in Seq(V) /\ Len(Vantages) = 1 /\ Vantages[1] = Recursive
    BY <1>1, <2>1
  <2>3. Vantages \in Seq(ToSet(Vantages))
    BY <2>2, OfItsElements
  <2> QED BY <2>2, <2>3
<1> QED BY <1>2, <1>3

(* The invariants of the evidence hold at first, and every step keeps them.  *)
LEMMA EvidenceInit == Init => EvidenceInv /\ SnapshotInv
<1> SUFFICES ASSUME Init PROVE EvidenceInv /\ SnapshotInv
  OBVIOUS
<1>1. evidence \in [ToSet(plan) -> Seq(Observation)] /\ \A q \in ToSet(plan) : Len(evidence[q]) = 0
  BY DEF Init
<1> QED BY <1>1, ServersFollow DEF Init, EvidenceInv, SnapshotInv

LEMMA EvidenceStep ==
  ASSUME EvidenceInv, [Next]_vars
  PROVE  EvidenceInv'
<1>0. Vantages' = Vantages /\ plan' = plan /\ zone' = zone /\ domain' = domain
  BY DEF Next, vars, AskVantage, Store, Handshake, Redirected, Arrived, WalkFailed, NextStart, Tick, Vantages, plan, zone
<1>1. CASE AskVantage
  <2>1. PICK r \in [ToSet(plan) -> UNION {Answers(q) : q \in ToSet(plan)}] :
          /\ \A q \in ToSet(plan) : r[q] \in Answers(q)
          /\ evidence' = [q \in ToSet(plan) |-> Append(evidence[q], Observed(Vantages[asked + 1], r[q]))]
    BY <1>1 DEF AskVantage
  <2>2. asked + 1 \in 1..Len(Vantages) /\ asked' = asked + 1
    BY <1>1, ServersFollow DEF AskVantage, EvidenceInv
  <2>3. Vantages[asked + 1] \in ToSet(Vantages)
    BY <2>2, ServersFollow DEF ToSet
  <2>4. ASSUME NEW q \in ToSet(plan)
        PROVE  Observed(Vantages[asked + 1], r[q]) \in Observation
    <3> DEFINE responses == UNION {Answers(p) : p \in ToSet(plan)}
    <3>1. r[q] \in responses
      BY <2>1
    <3>2. Observation = {Observed(v, s) : v \in ToSet(Vantages), s \in responses}
      BY DEF Observation
    <3> HIDE DEF responses
    <3> QED BY <2>3, <3>1, <3>2
  <2>5. ASSUME NEW q \in ToSet(plan)
        PROVE  /\ evidence'[q] \in Seq(Observation) /\ Len(evidence'[q]) = asked + 1
               /\ \A i \in 1..(asked + 1) : evidence'[q][i].vantage = Vantages[i]
    <3> DEFINE o == Observed(Vantages[asked + 1], r[q])
    <3>1. evidence'[q] = Append(evidence[q], o)
      BY <2>1
    <3>2. o \in Observation /\ o.vantage = Vantages[asked + 1]
      BY <2>4 DEF Observed
    <3>3. evidence[q] \in Seq(Observation) /\ Len(evidence[q]) = asked /\ asked \in Nat
          /\ \A i \in 1..asked : evidence[q][i].vantage = Vantages[i]
      BY <2>2 DEF EvidenceInv
    <3> HIDE DEF o
    <3> QED BY <3>1, <3>2, <3>3
  <2>6. Observation' = Observation
    BY <1>0 DEF Observation
  <2>7. evidence' \in [ToSet(plan) -> Seq(Observation)]
    <3>1. evidence' = [q \in ToSet(plan) |-> evidence'[q]]
      BY <2>1
    <3> QED BY <3>1, <2>5
  <2> QED BY <1>0, <2>2, <2>5, <2>6, <2>7 DEF EvidenceInv
<1>2. CASE ~AskVantage
  <2>1. evidence' = evidence /\ asked' = asked
    BY <1>2 DEF Next, vars, dns, Store, Handshake, Redirected, Arrived, WalkFailed, NextStart, Tick
  <2>2. Observation' = Observation
    BY <1>0 DEF Observation
  <2> QED BY <1>0, <2>1, <2>2 DEF EvidenceInv
<1> QED BY <1>1, <1>2

(* Once stored, evidence, findings and coverage stay what they are.          *)
LEMMA SnapshotStep ==
  ASSUME SnapshotInv, [Next]_vars
  PROVE  SnapshotInv'
<1>1. CASE AskVantage
  BY <1>1 DEF AskVantage, SnapshotInv
<1>2. CASE ~AskVantage
  <2>1. evidence' = evidence /\ domain' = domain
    BY <1>2 DEF Next, vars, dns, Store, Handshake, Redirected, Arrived, WalkFailed, NextStart, Tick
  <2>2. Ruleset' = Ruleset /\ broken' = broken
    BY <2>1 DEF Ruleset, plan, zone, broken
  <2>3. ResultState' = ResultState /\ Coverage' = Coverage /\ Findings' = Findings
    BY <2>1, <2>2 DEF ResultState, Coverage, Findings, Threw, plan, zone
  <2>4. CASE Store
    BY <2>3, <2>4 DEF Store, SnapshotInv
  <2>5. CASE ~Store
    <3>1. snapshot' = snapshot
      BY <1>2, <2>5 DEF Next, vars, Handshake, Redirected, Arrived, WalkFailed, NextStart, Tick
    <3>2. phase' = phase \/ (phase /= "asking" /\ phase' \in {"walking", "done"})
      BY <1>2, <2>5 DEF Next, vars, Handshake, Redirected, Arrived, WalkFailed, NextStart, Tick
    <3> QED BY <2>3, <3>1, <3>2 DEF SnapshotInv
  <2> QED BY <2>4, <2>5
<1> QED BY <1>1, <1>2
-----------------------------------------------------------------------------
(* A set with two different elements has at least two.                       *)
LEMMA TwoOf ==
  ASSUME NEW S, IsFiniteSet(S), NEW a \in S, NEW b \in S, a /= b
  PROVE  Cardinality(S) >= 2
<1>1. Cardinality({a, b}) = 2
  <2>1. IsFiniteSet({a}) /\ Cardinality({a}) = 1 /\ b \notin {a} /\ {a} \union {b} = {a, b}
    BY FS_Singleton
  <2> QED BY <2>1, FS_AddElement
<1>2. {a, b} \subseteq S
  OBVIOUS
<1> QED BY <1>1, <1>2, FS_Subset, FS_CardinalityType

(* The first vantage is the resolver, the others are servers.                *)
LEMMA WhoAnswers ==
  ASSUME EvidenceInv, NEW q \in ToSet(plan)
  PROVE  /\ DOMAIN evidence[q] = 1..asked /\ asked \in Nat
         /\ OfResolver(evidence[q]) = (1..asked) \intersect {1}
         /\ OfServers(evidence[q]) = 2..asked
<1>1. asked \in Nat /\ asked <= Len(Vantages) /\ DOMAIN evidence[q] = 1..asked
  BY ServersFollow DEF EvidenceInv
<1>2. \A i \in 1..asked : evidence[q][i].vantage = Vantages[i]
  BY DEF EvidenceInv
<1>3. \A i \in 1..asked : evidence[q][i].vantage = Recursive <=> i = 1
  BY <1>1, <1>2, ServersFollow
<1> QED BY <1>1, <1>3 DEF OfResolver, OfServers

(* Two answers that differ come from two servers, or else from the resolver  *)
(* and the only server: either way one of the two rules applies.             *)
LEMMA DisagreementHits ==
  ASSUME EvidenceInv, NEW q \in ToSet(plan),
         NEW i \in Successes(evidence[q]), NEW j \in Successes(evidence[q]),
         ToSet(evidence[q][i].answers) /= ToSet(evidence[q][j].answers)
  PROVE  \/ /\ ~IsConsistent(evidence[q])
            /\ Cardinality(Successes(evidence[q]) \intersect OfServers(evidence[q])) >= 2
         \/ /\ BothAnswered(evidence[q])
            /\ ValuesOf(evidence[q], OfResolver(evidence[q])) /= ValuesOf(evidence[q], OfServers(evidence[q]))
<1> DEFINE os == evidence[q]
           servers == Successes(os) \intersect OfServers(os)
<1>1. ~IsConsistent(os)
  BY DEF IsConsistent
<1>2. Successes(os) \subseteq 1..asked /\ asked \in Nat
  BY WhoAnswers DEF Successes
<1>3. IsFiniteSet(servers)
  BY <1>2, FS_Interval, FS_Subset
<1>4. CASE \E a, b \in servers : a /= b
  BY <1>1, <1>3, <1>4, TwoOf
<1>5. CASE ~\E a, b \in servers : a /= b
  <2>1. PICK a \in Successes(os), b \in Successes(os) :
          a = 1 /\ b \in servers /\ ToSet(os[a].answers) /= ToSet(os[b].answers)
    <3>1. i /= j
      OBVIOUS
    <3>2. \A k \in Successes(os) : k = 1 \/ k \in servers
      BY <1>2, WhoAnswers
    <3> QED BY <1>5, <3>1, <3>2
  <2>2. servers = {b} /\ Successes(os) \intersect OfResolver(os) = {1}
    BY <1>2, <1>5, <2>1, WhoAnswers
  <2>3. OfServers(os) \intersect Successes(os) = {b} /\ OfResolver(os) \intersect Successes(os) = {a}
    BY <2>1, <2>2
  <2>4. ValuesOf(os, OfServers(os)) = ToSet(os[b].answers) /\ ValuesOf(os, OfResolver(os)) = ToSet(os[a].answers)
    BY <2>3 DEF ValuesOf
  <2> QED BY <2>1, <2>2, <2>4 DEF BothAnswered
<1> QED BY <1>4, <1>5

(* So the disagreement is among the findings.                                *)
LEMMA DisagreementIsFound ==
  ASSUME EvidenceInv, SnapshotInv
  PROVE  DisagreementIsReported
<1> SUFFICES ASSUME snapshot.state /= Absent,
                    broken \intersect {"dns.auth-mismatch.v1", "dns.recursive-auth-mismatch.v1"} = {},
                    NEW q \in ToSet(plan), NEW o \in Answered(q), NEW p \in Answered(q),
                    ToSet(o.answers) /= ToSet(p.answers)
             PROVE  \E f \in snapshot.findings :
                      f.type \in {"dns.authoritative-mismatch", "dns.recursive-authoritative-mismatch"}
  BY DEF DisagreementIsReported
<1>1. snapshot.findings = Findings
  BY DEF SnapshotInv
<1>2. Observations(evidence, q) = evidence[q]
  BY DEF Observations, EvidenceInv
<1>3. PICK i \in Successes(evidence[q]), j \in Successes(evidence[q]) : o = evidence[q][i] /\ p = evidence[q][j]
  BY <1>2 DEF Answered
<1>4. \/ AuthoritativeMismatch(evidence, plan)
           = Finding("dns.auth-mismatch.v1", "dns.authoritative-mismatch", "critical", "certain", TRUE)
      \/ RecursiveAuthoritativeMismatch(evidence, plan)
           = Finding("dns.recursive-auth-mismatch.v1", "dns.recursive-authoritative-mismatch", "high", "certain", TRUE)
  BY <1>3, DisagreementHits DEF AuthoritativeMismatch, RecursiveAuthoritativeMismatch
<1>5. /\ AuthoritativeMismatch(evidence, plan) \subseteq Findings
      /\ RecursiveAuthoritativeMismatch(evidence, plan) \subseteq Findings
  <2>1. /\ <<"dns.auth-mismatch.v1", AuthoritativeMismatch(evidence, plan)>> \in Ruleset \ Threw
        /\ <<"dns.recursive-auth-mismatch.v1", RecursiveAuthoritativeMismatch(evidence, plan)>> \in Ruleset \ Threw
    BY DEF Ruleset, Threw
  <2> QED BY <2>1 DEF Findings
<1>7. CASE AuthoritativeMismatch(evidence, plan)
             = Finding("dns.auth-mismatch.v1", "dns.authoritative-mismatch", "critical", "certain", TRUE)
  <2>1. \E f \in AuthoritativeMismatch(evidence, plan) : f.type = "dns.authoritative-mismatch"
    BY <1>7 DEF Finding
  <2> QED BY <1>1, <1>5, <2>1
<1>8. CASE RecursiveAuthoritativeMismatch(evidence, plan)
             = Finding("dns.recursive-auth-mismatch.v1", "dns.recursive-authoritative-mismatch", "high", "certain", TRUE)
  <2>1. \E f \in RecursiveAuthoritativeMismatch(evidence, plan) : f.type = "dns.recursive-authoritative-mismatch"
    BY <1>8 DEF Finding
  <2> QED BY <1>1, <1>5, <2>1
<1> QED BY <1>4, <1>7, <1>8
-----------------------------------------------------------------------------
Absences == {"mail.no-mx-record", "mail.no-spf-record", "mail.no-dmarc-record", "mail.no-mta-sts", "mail.no-tls-rpt"}

(* The DNS rules, and two of the mail rules, never report an absence.        *)
LEMMA FailuresAreNoAbsences ==
  ASSUME EvidenceInv
  PROVE  \A f \in AuthoritativeFailure(evidence, plan, zone) : f.type \notin Absences
<1> DEFINE servers == UNION {ServerFailures(evidence, r) : r \in ToSet(plan)}
           hits == {i \in DOMAIN plan : Min(servers) \in ServerFailures(evidence, plan[i])}
           q == plan[Min(hits)]
           failures == ServerFailures(evidence, q)
<1>1. CASE servers = {}
  BY <1>1 DEF AuthoritativeFailure, None
<1>2. CASE servers /= {}
  <2>1. plan \in Seq(ToSet(plan)) /\ DOMAIN plan \subseteq Nat
    BY AnswersAssumption DEF EvidenceInv, plan
  <2>2. \A r \in ToSet(plan) : ServerFailures(evidence, r) \subseteq Nat
    <3> TAKE r \in ToSet(plan)
    <3>1. ServerFailures(evidence, r) \subseteq DOMAIN evidence[r]
      BY DEF ServerFailures, Failures
    <3>2. DOMAIN evidence[r] = 1..asked /\ asked \in Nat
      BY WhoAnswers
    <3>3. 1..asked \subseteq Nat
      BY <3>2
    <3> QED BY <3>1, <3>2, <3>3
  <2>3. Min(hits) \in hits
    <3>1. Min(servers) \in servers
      <4>1. servers \subseteq Nat
        BY <2>2
      <4> QED BY <1>2, <4>1, FirstPosition
    <3>2. PICK r \in ToSet(plan) : Min(servers) \in ServerFailures(evidence, r)
      BY <3>1
    <3>3. PICK i \in DOMAIN plan : r = plan[i]
      BY DEF ToSet
    <3>4. i \in hits
      BY <3>2, <3>3
    <3>5. hits /= {} /\ hits \subseteq Nat
      BY <2>1, <3>4
    <3> QED BY <3>5, FirstPosition
  <2>4. q \in ToSet(plan) /\ failures /= {}
    <3>1. Min(hits) \in DOMAIN plan /\ failures /= {}
      BY <2>3
    <3> QED BY <3>1 DEF ToSet
  <2>5. failures \subseteq Nat
    BY <2>2, <2>4
  <2>6. Min(failures) \in failures
    BY <2>4, <2>5, FirstPosition
  <2>7. evidence[q][Min(failures)].status \in Failed
    BY <2>6 DEF ServerFailures, Failures
  <2>8. FailureType[evidence[q][Min(failures)].status] \notin Absences
    <3>1. \A status \in Failed : FailureType[status] \notin Absences
      BY DEF FailureType, Failed, Absences
    <3> QED BY <2>7, <3>1
  <2>9. \A f \in AuthoritativeFailure(evidence, plan, zone) : f.type = FailureType[evidence[q][Min(failures)].status]
    <3>1. \A type, severity, confidence, reviewOnly :
            \A f \in Finding("dns.auth-failure.v1", type, severity, confidence, reviewOnly) : f.type = type
      BY DEF Finding
    <3>2. \E severity, confidence, reviewOnly :
            AuthoritativeFailure(evidence, plan, zone)
              = Finding("dns.auth-failure.v1", FailureType[evidence[q][Min(failures)].status],
                        severity, confidence, reviewOnly)
      BY <1>2 DEF AuthoritativeFailure
    <3> DEFINE type == FailureType[evidence[q][Min(failures)].status]
    <3> HIDE DEF type
    <3>3. PICK severity, confidence, reviewOnly :
            AuthoritativeFailure(evidence, plan, zone)
              = Finding("dns.auth-failure.v1", type, severity, confidence, reviewOnly)
      BY <3>2 DEF type
    <3>4. \A f \in AuthoritativeFailure(evidence, plan, zone) : f.type = type
      BY <3>1, <3>3
    <3> QED BY <3>4 DEF type
  <2> QED BY <2>8, <2>9
<1> QED BY <1>1, <1>2

(* No other DNS rule, nor the rules for DKIM and BIMI, report an absence.    *)
LEMMA OthersAreNoAbsences ==
  /\ \A f \in AuthoritativeMismatch(evidence, plan) : f.type \notin Absences
  /\ \A f \in RecursiveAuthoritativeMismatch(evidence, plan) : f.type \notin Absences
  /\ \A f \in CnameCoexistence(evidence) : f.type \notin Absences
  /\ \A f \in UnmanagedZonePartialCoverage(zone) : f.type \notin Absences
  /\ \A os : \A f \in DkimPresence(os) : f.type \notin Absences
  /\ \A os : \A f \in Bimi(os) : f.type \notin Absences
<1>1. \A f \in AuthoritativeMismatch(evidence, plan) : f.type \notin Absences
  BY DEF AuthoritativeMismatch, None, Finding, Absences
<1>2. \A f \in RecursiveAuthoritativeMismatch(evidence, plan) : f.type \notin Absences
  BY DEF RecursiveAuthoritativeMismatch, None, Finding, Absences
<1>3. \A f \in CnameCoexistence(evidence) : f.type \notin Absences
  BY DEF CnameCoexistence, None, Finding, Absences
<1>4. \A f \in UnmanagedZonePartialCoverage(zone) : f.type \notin Absences
  BY DEF UnmanagedZonePartialCoverage, None, Finding, Absences
<1>5. \A os : \A f \in DkimPresence(os) : f.type \notin Absences
  BY DEF DkimPresence, Finding, Absences
<1>6. \A os : \A f \in Bimi(os) : f.type \notin Absences
  BY DEF Bimi, None, Finding, Absences
<1> QED BY <1>1, <1>2, <1>3, <1>4, <1>5, <1>6

(* What each mail rule says, and when it says that a record is missing.      *)
LEMMA MxRule ==
  ASSUME NEW os, NEW f \in MxPresence(os)
  PROVE  /\ f.type \in {"mail.null-mx-configured", "mail.mx-present", "mail.mx-query-failed", "mail.no-mx-record"}
         /\ f.type = "mail.no-mx-record" => Values(os) = {} /\ (Failures(os) = {} \/ Successes(os) /= {})
BY DEF MxPresence, Finding

LEMMA SpfRule ==
  ASSUME NEW os
  PROVE  /\ \A f \in SpfAnalysis(os) :
              /\ f.type \in {"mail.spf-query-failed", "mail.no-spf-record", "mail.spf-malformed", "mail.spf-present"}
              /\ f.type = "mail.no-spf-record" =>
                   Texts(os, "v=spf1") = {} /\ (Failures(os) = {} \/ Successes(os) /= {})
         /\ Texts(os, "v=spf1") = {} /\ Failures(os) = {} =>
              \E f \in SpfAnalysis(os) : f.type = "mail.no-spf-record" /\ ~f.reviewOnly
<1>1. \A f \in SpfAnalysis(os) :
        /\ f.type \in {"mail.spf-query-failed", "mail.no-spf-record", "mail.spf-malformed", "mail.spf-present"}
        /\ f.type = "mail.no-spf-record" => Texts(os, "v=spf1") = {} /\ (Failures(os) = {} \/ Successes(os) /= {})
  BY DEF SpfAnalysis, Finding
<1>2. ASSUME Texts(os, "v=spf1") = {}, Failures(os) = {}
      PROVE  \E f \in SpfAnalysis(os) : f.type = "mail.no-spf-record" /\ ~f.reviewOnly
  <2>1. SpfAnalysis(os) = Finding(Spf, "mail.no-spf-record", "high", "certain", FALSE)
    BY <1>2 DEF SpfAnalysis
  <2> QED BY <2>1 DEF Finding
<1> QED BY <1>1, <1>2

LEMMA DmarcRule ==
  ASSUME NEW os, NEW f \in DmarcAnalysis(os)
  PROVE  /\ f.type \in {"mail.no-dmarc-record", "mail.dmarc-malformed", "mail.dmarc-present"}
         /\ f.type = "mail.no-dmarc-record" => Texts(os, "v=DMARC1") = {}
BY DEF DmarcAnalysis, Finding

LEMMA MtaStsRule ==
  ASSUME NEW os, NEW f \in MtaSts(os)
  PROVE  /\ f.type \in {"mail.no-mta-sts", "mail.mta-sts-present"}
         /\ f.type = "mail.no-mta-sts" => Texts(os, "v=STSv1") = {}
BY DEF MtaSts, Finding

LEMMA TlsRptRule ==
  ASSUME NEW os, NEW f \in TlsRpt(os)
  PROVE  /\ f.type \in {"mail.no-tls-rpt", "mail.tls-rpt-present"}
         /\ f.type = "mail.no-tls-rpt" => Texts(os, "v=TLSRPTv1") = {}
BY DEF TlsRpt, Finding
-----------------------------------------------------------------------------
(* A finding that a record is missing comes from the rule for that record.   *)
LEMMA SourceOfAbsence ==
  ASSUME EvidenceInv, NEW f \in Findings
  PROVE  /\ f.type = "mail.no-mx-record" => f \in MxPresence(Observations(evidence, <<"@", "MX">>))
         /\ f.type = "mail.no-spf-record" => f \in SpfAnalysis(Observations(evidence, <<"@", "TXT">>))
         /\ f.type = "mail.no-dmarc-record" => f \in DmarcAnalysis(Observations(evidence, <<"_dmarc", "TXT">>))
         /\ f.type = "mail.no-mta-sts" => f \in MtaSts(Observations(evidence, <<"_mta-sts", "TXT">>))
         /\ f.type = "mail.no-tls-rpt" => f \in TlsRpt(Observations(evidence, <<"_smtp._tls", "TXT">>))
<1>1. PICK entry \in Ruleset : f \in entry[2]
  BY DEF Findings
<1>2. \/ f \in AuthoritativeFailure(evidence, plan, zone)
      \/ f \in AuthoritativeMismatch(evidence, plan)
      \/ f \in RecursiveAuthoritativeMismatch(evidence, plan)
      \/ f \in CnameCoexistence(evidence)
      \/ f \in UnmanagedZonePartialCoverage(zone)
      \/ f \in MxPresence(Observations(evidence, <<"@", "MX">>))
      \/ f \in SpfAnalysis(Observations(evidence, <<"@", "TXT">>))
      \/ f \in DmarcAnalysis(Observations(evidence, <<"_dmarc", "TXT">>))
      \/ f \in DkimPresence(Observations(evidence, <<"s1._domainkey", "TXT">>))
      \/ f \in MtaSts(Observations(evidence, <<"_mta-sts", "TXT">>))
      \/ f \in TlsRpt(Observations(evidence, <<"_smtp._tls", "TXT">>))
      \/ f \in Bimi(Observations(evidence, <<"default._bimi", "TXT">>))
  BY <1>1 DEF Ruleset
<1>3. CASE f.type \notin Absences
  BY <1>3 DEF Absences
<1>4. CASE f.type \in Absences
  <2>1. \/ f \in MxPresence(Observations(evidence, <<"@", "MX">>))
        \/ f \in SpfAnalysis(Observations(evidence, <<"@", "TXT">>))
        \/ f \in DmarcAnalysis(Observations(evidence, <<"_dmarc", "TXT">>))
        \/ f \in MtaSts(Observations(evidence, <<"_mta-sts", "TXT">>))
        \/ f \in TlsRpt(Observations(evidence, <<"_smtp._tls", "TXT">>))
    BY <1>2, <1>4, FailuresAreNoAbsences, OthersAreNoAbsences
  <2>2. CASE f \in MxPresence(Observations(evidence, <<"@", "MX">>))
    BY <2>2, MxRule
  <2>3. CASE f \in SpfAnalysis(Observations(evidence, <<"@", "TXT">>))
    BY <2>3, SpfRule
  <2>4. CASE f \in DmarcAnalysis(Observations(evidence, <<"_dmarc", "TXT">>))
    BY <2>4, DmarcRule
  <2>5. CASE f \in MtaSts(Observations(evidence, <<"_mta-sts", "TXT">>))
    BY <2>5, MtaStsRule
  <2>6. CASE f \in TlsRpt(Observations(evidence, <<"_smtp._tls", "TXT">>))
    BY <2>6, TlsRptRule
  <2> QED BY <2>1, <2>2, <2>3, <2>4, <2>5, <2>6
<1> QED BY <1>3, <1>4

(* What the stored status says of the response: a success is a whole one     *)
(* with answers, and only what is conclusive or truncated did not fail.      *)
StatusTells(o) ==
  /\ o.status \in Statuses
  /\ o.status = "success" => IsWhole(o)
  /\ IsWhole(o) => o.status = "success" \/ o.answers = <<>>
  /\ o.status \in Failed <=> ~(IsConclusive(o) \/ o.truncated)

LEMMA StatusesTell ==
  ASSUME EvidenceInv, NEW o \in Observation
  PROVE  StatusTells(o)
<1>1. PICK v \in ToSet(Vantages), r \in UNION {Answers(q) : q \in ToSet(plan)} : o = Observed(v, r)
  BY DEF Observation
<1>2. r.rcode \in Rcodes /\ r.tc \in BOOLEAN
  BY <1>1, AnswersAssumption DEF EvidenceInv, plan
<1>3. o.status = DetermineStatus(r) /\ o.responseCode = r.rcode /\ o.truncated = r.tc /\ o.answers = r.answers
  BY <1>1 DEF Observed
<1>4. CASE r.tc
  <2>1. o.status = "truncated"
    BY <1>3, <1>4 DEF DetermineStatus
  <2> QED BY <1>3, <1>4, <2>1 DEF StatusTells, Statuses, Failed, IsWhole
<1>5. CASE ~r.tc /\ r.rcode = "NOERROR" /\ r.answers = <<>>
  <2>1. o.status = "nodata"
    BY <1>3, <1>5 DEF DetermineStatus
  <2> QED BY <1>3, <1>5, <2>1 DEF StatusTells, Statuses, Failed, IsConclusive
<1>6. CASE ~r.tc /\ ~(r.rcode = "NOERROR" /\ r.answers = <<>>)
  <2>1. o.status = RcodeToStatus[r.rcode]
    BY <1>3, <1>6 DEF DetermineStatus
  <2>2. /\ r.rcode = "NOERROR" => o.status = "success"
        /\ r.rcode = "NXDOMAIN" => o.status = "nxdomain"
        /\ r.rcode = "REFUSED" => o.status = "refused"
        /\ r.rcode = "SERVFAIL" => o.status = "error"
    BY <2>1 DEF RcodeToStatus
  <2> QED BY <1>2, <1>3, <1>6, <2>2 DEF StatusTells, Rcodes, Statuses, Failed, IsConclusive, IsWhole
<1> QED BY <1>2, <1>4, <1>5, <1>6

(* Observations are counted from 1, and their statuses tell.                 *)
LEMMA WhatIsObserved ==
  ASSUME EvidenceInv, NEW q
  PROVE  /\ DOMAIN Observations(evidence, q) \subseteq Nat
         /\ \A i \in DOMAIN Observations(evidence, q) : StatusTells(Observations(evidence, q)[i])
         /\ Observations(evidence, q) /= <<>> => 1 \in DOMAIN Observations(evidence, q)
<1>1. CASE q \in ToSet(plan)
  <2>1. Observations(evidence, q) = evidence[q] /\ evidence[q] \in Seq(Observation)
    BY <1>1 DEF EvidenceInv, Observations
  <2>2. \A o \in Observation : StatusTells(o)
    BY StatusesTell
  <2> HIDE DEF Observation
  <2> QED BY <2>1, <2>2
<1>2. CASE q \notin ToSet(plan)
  BY <1>2 DEF EvidenceInv, Observations
<1> QED BY <1>1, <1>2

(* A text is among the observations exactly if a whole response has it, and  *)
(* without values no whole response has anything.                            *)
LEMMA TextsAreHeld ==
  ASSUME EvidenceInv, NEW q, NEW marker
  PROVE  /\ Texts(Observations(evidence, q), marker) = {} <=> \A o \in Holders(q, marker) : ~IsWhole(o)
         /\ Values(Observations(evidence, q)) = {} => \A o \in Holders(q, marker) : ~IsWhole(o)
<1> DEFINE os == Observations(evidence, q)
           held == \E o \in Holders(q, marker) : IsWhole(o)
<1>1. \A i : (\E a \in ToSet(os[i].answers) : a.marker = marker) <=> Marked(os[i], marker) /= {}
  BY DEF ToSet, Marked
<1>2. \A i \in DOMAIN os : StatusTells(os[i])
  BY WhatIsObserved
<1>3. \A i \in DOMAIN os : (IsWhole(os[i]) /\ Marked(os[i], marker) /= {})
                          <=> (i \in Successes(os) /\ Marked(os[i], marker) /= {})
  <2> TAKE i \in DOMAIN os
  <2>1. os[i].answers = <<>> => Marked(os[i], marker) = {}
    BY DEF Marked
  <2> QED BY <1>2, <2>1 DEF StatusTells, Successes
<1>4. held <=> \E i \in DOMAIN os : IsWhole(os[i]) /\ Marked(os[i], marker) /= {}
  <2>1. \A o : o \in Holders(q, marker) <=> \E i \in DOMAIN os : o = os[i] /\ Marked(os[i], marker) /= {}
    BY <1>1 DEF Holders, ToSet
  <2> QED BY <2>1
<1>5. held <=> Texts(os, marker) /= {}
  <2>1. Successes(os) \subseteq DOMAIN os
    BY DEF Successes
  <2>2. Texts(os, marker) /= {} <=> \E i \in Successes(os) : Marked(os[i], marker) /= {}
    BY DEF Texts
  <2> HIDE DEF held
  <2> QED BY <1>3, <1>4, <2>1, <2>2
<1>6. Values(os) = {} => \A i \in Successes(os) : ToSet(os[i].answers) = {}
  BY DEF Values, ValuesOf, Successes
<1>7. Values(os) = {} => Texts(os, marker) = {}
  <2>1. \A i : ToSet(os[i].answers) = {} => Marked(os[i], marker) = {}
    BY <1>1
  <2> QED BY <1>6, <2>1 DEF Texts
<1> QED BY <1>5, <1>7

(* Someone answered for sure or was cut off, if no one failed or someone     *)
(* succeeded.                                                                *)
LEMMA SomeoneConclusive ==
  ASSUME EvidenceInv, NEW q, Observations(evidence, q) /= <<>>,
         Failures(Observations(evidence, q)) = {} \/ Successes(Observations(evidence, q)) /= {}
  PROVE  \E o \in ToSet(Observations(evidence, q)) : IsConclusive(o) \/ o.truncated
<1> DEFINE os == Observations(evidence, q)
<1>1. \A i \in DOMAIN os : os[i] \in ToSet(os) /\ StatusTells(os[i])
  BY WhatIsObserved DEF ToSet
<1>2. CASE Failures(os) = {}
  <2>1. 1 \in DOMAIN os /\ os[1].status \notin Failed
    BY <1>2, WhatIsObserved DEF Failures
  <2> QED BY <1>1, <2>1 DEF StatusTells
<1>3. CASE Successes(os) /= {}
  <2>1. PICK i \in DOMAIN os : os[i].status = "success"
    BY <1>3 DEF Successes
  <2> QED BY <1>1, <2>1 DEF StatusTells, IsWhole, IsConclusive
<1> QED BY <1>2, <1>3

(* An absence that is reported is one.                                       *)
LEMMA AbsenceIsFound ==
  ASSUME EvidenceInv, SnapshotInv
  PROVE  AbsenceIsUnanswered
<1> SUFFICES ASSUME NEW f \in snapshot.findings, NEW a \in AbsenceFindings, f.type = a[1]
             PROVE  /\ \A o \in Holders(a[2], a[3]) : ~IsWhole(o)
                    /\ a[1] \in {"mail.no-mx-record", "mail.no-spf-record"} /\ Observations(evidence, a[2]) /= <<>> =>
                         \E o \in ToSet(Observations(evidence, a[2])) : IsConclusive(o) \/ o.truncated
  BY DEF AbsenceIsUnanswered
<1>1. f \in Findings
  BY DEF SnapshotInv
<1>2. CASE a = <<"mail.no-mx-record", <<"@", "MX">>, "mx">>
  <2>1. f \in MxPresence(Observations(evidence, <<"@", "MX">>)) /\ f.type = "mail.no-mx-record"
    BY <1>1, <1>2, SourceOfAbsence
  <2> QED BY <1>2, <2>1, MxRule, TextsAreHeld, SomeoneConclusive
<1>3. CASE a = <<"mail.no-spf-record", <<"@", "TXT">>, "v=spf1">>
  <2>1. f \in SpfAnalysis(Observations(evidence, <<"@", "TXT">>)) /\ f.type = "mail.no-spf-record"
    BY <1>1, <1>3, SourceOfAbsence
  <2> QED BY <1>3, <2>1, SpfRule, TextsAreHeld, SomeoneConclusive
<1>4. CASE a = <<"mail.no-dmarc-record", <<"_dmarc", "TXT">>, "v=DMARC1">>
  <2>1. f \in DmarcAnalysis(Observations(evidence, <<"_dmarc", "TXT">>)) /\ f.type = "mail.no-dmarc-record"
    BY <1>1, <1>4, SourceOfAbsence
  <2> QED BY <1>4, <2>1, DmarcRule, TextsAreHeld
<1>5. CASE a = <<"mail.no-mta-sts", <<"_mta-sts", "TXT">>, "v=STSv1">>
  <2>1. f \in MtaSts(Observations(evidence, <<"_mta-sts", "TXT">>)) /\ f.type = "mail.no-mta-sts"
    BY <1>1, <1>5, SourceOfAbsence
  <2> QED BY <1>5, <2>1, MtaStsRule, TextsAreHeld
<1>6. CASE a = <<"mail.no-tls-rpt", <<"_smtp._tls", "TXT">>, "v=TLSRPTv1">>
  <2>1. f \in TlsRpt(Observations(evidence, <<"_smtp._tls", "TXT">>)) /\ f.type = "mail.no-tls-rpt"
    BY <1>1, <1>6, SourceOfAbsence
  <2> QED BY <1>6, <2>1, TlsRptRule, TextsAreHeld
<1> QED BY <1>2, <1>3, <1>4, <1>5, <1>6 DEF AbsenceFindings
-----------------------------------------------------------------------------
(* What joining, one element and appending make of sequences.                *)
LEMMA Joined ==
  ASSUME NEW s, NEW t, s \in Seq(ToSet(s)), t \in Seq(ToSet(t))
  PROVE  s \o t \in Seq(ToSet(s \o t)) /\ ToSet(s \o t) \subseteq ToSet(s) \union ToSet(t)
<1> DEFINE V == ToSet(s) \union ToSet(t)
<1>1. s \in Seq(V) /\ t \in Seq(V)
  OBVIOUS
<1>2. s \o t \in Seq(V)
  BY <1>1
<1>3. ToSet(s \o t) \subseteq V
  BY <1>2 DEF ToSet
<1>4. s \o t \in Seq(ToSet(s \o t))
  BY <1>2, OfItsElements
<1> QED BY <1>3, <1>4

LEMMA Single ==
  ASSUME NEW p
  PROVE  <<p>> \in Seq(ToSet(<<p>>)) /\ ToSet(<<p>>) = {p}
BY DEF ToSet

LEMMA Appended ==
  ASSUME NEW s, NEW p, s \in Seq(ToSet(s))
  PROVE  Append(s, p) \in Seq(ToSet(Append(s, p))) /\ ToSet(Append(s, p)) \subseteq ToSet(s) \union {p}
<1> DEFINE V == ToSet(s) \union {p}
<1>1. s \in Seq(V) /\ p \in V
  OBVIOUS
<1>2. Append(s, p) \in Seq(V)
  BY <1>1
<1>3. ToSet(Append(s, p)) \subseteq V
  BY <1>2 DEF ToSet
<1>4. Append(s, p) \in Seq(ToSet(Append(s, p)))
  BY <1>2, OfItsElements
<1> QED BY <1>3, <1>4

(* The rows that one start URL gives.                                        *)
LEMMA RowsOfStart ==
  ASSUME NEW redirect, NEW page
  PROVE  LET rows == <<redirect>> \o OfSecond(page)
         IN rows \in Seq(ToSet(rows)) /\ ToSet(rows) \subseteq {redirect} \union (IF start = 2 THEN {page} ELSE {})
<1>1. CASE start = 2
  BY <1>1, Single, Joined DEF OfSecond
<1>2. CASE start /= 2
  <2>1. OfSecond(page) = <<>>
    BY <1>2 DEF OfSecond
  <2>2. <<>> \in Seq(ToSet(<<>>)) /\ ToSet(<<>>) = {}
    BY DEF ToSet
  <2> QED BY <1>2, <2>1, <2>2, Single, Joined
<1> QED BY <1>1, <1>2

(* The next start leaves what the rows tell of as it is.                     *)
LEMMA NextStartKeeps ==
  ASSUME WalkInv, NEW rows, NEW final \in Urls \union {NoUrl}, NEW page, NextStart(rows, final, page),
         phase = "walking", start /= 2 => page = truth.page
  PROVE  /\ WalkInv'
         /\ truth'.finals[start] = final /\ truth'.page = page /\ start' = start + 1
         /\ \A p : RowInv(p) => RowInv(p)'
<1>0. /\ truth' = [truth EXCEPT !.finals = Append(truth.finals, final), !.page = page]
      /\ hops' = <<>> /\ start' = start + 1 /\ now' = now
      /\ phase' = IF start = Len(Starts) THEN "done" ELSE "walking"
  BY DEF NextStart
<1>1. truth'.finals = Append(truth.finals, final) /\ truth'.page = page
      /\ truth' = [finals |-> truth'.finals, page |-> truth'.page]
  BY <1>0 DEF WalkInv
<1>2. Len(Starts) \in Nat /\ start \in 1..Len(Starts)
  BY ScanAssumption DEF WalkInv
<1>3. /\ truth'.finals \in Seq(Urls \union {NoUrl}) /\ Len(truth'.finals) = start
      /\ truth'.finals[start] = final
      /\ \A k \in 1..(start - 1) : truth'.finals[k] = truth.finals[k]
  BY <1>1, <1>2 DEF WalkInv
<1>4. WalkInv'
  <2>1. start' \in 1..(Len(Starts) + 1) /\ start' - 1 = start /\ (phase' /= "done" => start' <= Len(Starts))
    BY <1>0, <1>2
  <2>2. hops' \in Seq(Hop) /\ \A i \in 1..(Len(hops') - 1) : hops'[i].location = hops'[i + 1].url
    BY <1>0
  <2>3. now' \in Nat /\ hops' = <<>>
    BY <1>0 DEF WalkInv
  <2> QED BY <1>1, <1>3, <2>1, <2>2, <2>3 DEF WalkInv
<1>5. ASSUME NEW p, WalkRow(p) PROVE WalkRow(p)'
  BY <1>0, <1>2, <1>3, <1>5 DEF WalkRow, Sees
<1>6. ASSUME NEW p, PageRow(p) PROVE PageRow(p)'
  BY <1>0, <1>1, <1>2, <1>6 DEF PageRow, Sees
<1>7. \A p : RowInv(p) => RowInv(p)'
  BY <1>5, <1>6 DEF RowInv, TlsRow, Sees
<1> QED BY <1>0, <1>1, <1>3, <1>4, <1>7

(* The walk is at the start URL or where the last hop led.                   *)
LEMMA WhereTheWalkIs ==
  ASSUME WalkInv, phase = "walking"
  PROVE  /\ Here \in Urls /\ start \in 1..Len(Starts)
         /\ hops = <<>> => Here = Starts[start]
         /\ hops /= <<>> => Len(hops) >= 1 /\ Here = hops[Len(hops)].location
<1>1. start \in 1..Len(Starts) /\ Starts[start] \in Urls
  BY ScanAssumption DEF WalkInv
<1>2. CASE hops = <<>>
  BY <1>1, <1>2 DEF Here
<1>3. CASE hops /= <<>>
  <2>1. Len(hops) >= 1 /\ hops[Len(hops)] \in Hop
    BY <1>3 DEF WalkInv
  <2> QED BY <1>1, <1>3, <2>1 DEF Here, Last, Hop
<1> QED BY <1>2, <1>3

(* A redirect lengthens the chain of the walk.                               *)
LEMMA RedirectedStep ==
  ASSUME WalkInv, ProbesInv, Redirected
  PROVE  WalkInv' /\ ProbesInv'
<1>1. PICK to \in Urls : hops' = Append(hops, [url |-> Here, status |-> 301, location |-> to])
  BY DEF Redirected
<1> DEFINE h == [url |-> Here, status |-> 301, location |-> to]
<1>2. phase = "walking"
  BY DEF Redirected
<1>3. h \in Hop /\ h.url = Here
  BY <1>2, WhereTheWalkIs DEF Hop
<1>4. hops \in Seq(Hop)
  BY DEF WalkInv
<1>5. hops' = Append(hops, h)
  BY <1>1
<1> HIDE DEF h
<1>6. hops' \in Seq(Hop) /\ Len(hops') = Len(hops) + 1 /\ hops'[Len(hops) + 1] = h /\ Len(hops) \in Nat
      /\ \A i \in 1..Len(hops) : hops'[i] = hops[i]
  BY <1>3, <1>4, <1>5
<1>7. hops'[1].url = Starts[start]
  <2>1. CASE hops = <<>>
    BY <2>1, <1>2, <1>3, <1>6, WhereTheWalkIs
  <2>2. CASE hops /= <<>>
    <3>1. Len(hops) >= 1 /\ hops[1].url = Starts[start]
      BY <2>2, <1>2, WhereTheWalkIs DEF WalkInv
    <3>2. 1 \in 1..Len(hops)
      BY <1>6, <3>1
    <3> QED BY <1>6, <3>1, <3>2
  <2> QED BY <2>1, <2>2
<1>8. \A i \in 1..(Len(hops') - 1) : hops'[i].location = hops'[i + 1].url
  <2> TAKE i \in 1..(Len(hops') - 1)
  <2>1. i \in 1..Len(hops) /\ hops'[i] = hops[i] /\ hops /= <<>>
    BY <1>4, <1>6
  <2>2. CASE i = Len(hops)
    BY <1>2, <1>3, <1>6, <2>1, <2>2, WhereTheWalkIs
  <2>3. CASE i /= Len(hops)
    <3>1. i \in 1..(Len(hops) - 1) /\ i + 1 \in 1..Len(hops)
      BY <1>6, <2>1, <2>3
    <3> QED BY <1>6, <2>1, <3>1 DEF WalkInv
  <2> QED BY <2>2, <2>3
<1>9. UNCHANGED <<start, truth, now, phase, probes>>
  BY DEF Redirected
<1>10. WalkInv'
  <2>1. hops' /= <<>> => hops'[1].url = Starts[start']
    BY <1>7, <1>9
  <2> QED BY <1>6, <1>8, <1>9, <2>1 DEF WalkInv
<1> QED BY <1>9, <1>10 DEF ProbesInv, RowInv, TlsRow, WalkRow, PageRow, Sees

(* The evidence of a walk that arrived is a chain that its reader accepts.   *)
LEMMA ArrivedChain ==
  ASSUME WalkInv, phase = "walking", NEW status \in FinalStatuses, NEW e,
         e = [start |-> Starts[start], final |-> Here, truncated |-> FALSE,
              hops |-> Append(hops, [url |-> Here, status |-> status, location |-> NoUrl])]
  PROVE  Linked(e)
<1> DEFINE h == [url |-> Here, status |-> status, location |-> NoUrl]
           n == Len(hops)
           chain == e.hops
<1>1. h.url = Here /\ h.status = status /\ ~IsRedirect(h.status)
  BY AnswersAssumption
<1>2. e.start = Starts[start] /\ e.final = Here /\ e.hops = Append(hops, h)
  OBVIOUS
<1>3. hops \in Seq(Hop \union {h}) /\ h \in Hop \union {h} /\ n \in Nat
  BY DEF WalkInv
<1> HIDE DEF h
<1>4. chain \in Seq(Hop \union {h}) /\ Len(chain) = n + 1 /\ chain[n + 1] = h
      /\ \A i \in 1..n : chain[i] = hops[i] /\ chain[i] \in Hop
  BY <1>2, <1>3 DEF WalkInv
<1> HIDE DEF chain
<1>5. Head(chain) = chain[1] /\ Last(chain) = h
  BY <1>3, <1>4 DEF Last
<1>6. chain[1].url = Starts[start]
  <2>1. CASE hops = <<>>
    BY <2>1, <1>1, <1>3, <1>4, WhereTheWalkIs
  <2>2. CASE hops /= <<>>
    <3>1. 1 \in 1..n
      BY <2>2, <1>3, WhereTheWalkIs
    <3>2. hops[1].url = Starts[start]
      BY <2>2 DEF WalkInv
    <3> QED BY <1>4, <3>1, <3>2
  <2> QED BY <2>1, <2>2
<1>7. \A i \in 1..(Len(chain) - 1) : IsRedirect(chain[i].status) /\ chain[i].location = chain[i + 1].url
  <2> TAKE i \in 1..(Len(chain) - 1)
  <2>1. i \in 1..n /\ chain[i] = hops[i] /\ chain[i].status = 301 /\ hops /= <<>>
    BY <1>3, <1>4 DEF Hop
  <2>2. IsRedirect(chain[i].status)
    <3>1. IsRedirect(301)
      BY DEF IsRedirect
    <3> QED BY <2>1, <3>1
  <2>3. CASE i = n
    BY <1>1, <1>3, <1>4, <2>1, <2>2, <2>3, WhereTheWalkIs
  <2>4. CASE i /= n
    <3>1. i \in 1..(n - 1) /\ i + 1 \in 1..n
      BY <1>3, <2>1, <2>4
    <3>2. hops[i].location = hops[i + 1].url
      BY <3>1 DEF WalkInv
    <3> QED BY <1>4, <2>1, <2>2, <3>1, <3>2
  <2> QED BY <2>3, <2>4
<1>8. chain = e.hops
  BY DEF chain
<1> QED BY <1>1, <1>2, <1>5, <1>6, <1>7, <1>8 DEF Linked

(* A row that the start in hand may add: it tells of where its walk led, or  *)
(* of the page there.                                                        *)
Tells(p, final, page) ==
  \/ p.status = "UNKNOWN"
  \/ /\ Sees(p, "REDIRECT_TOPOLOGY") /\ Linked(p.evidence)
     /\ p.target = Starts[start] /\ p.evidence.final = final /\ final /= NoUrl
  \/ /\ Sees(p, "HOMEPAGE_INDEXABILITY") /\ start = 2
     /\ p.evidence.tags = page.tags /\ (p.evidence.truncated <=> page.hidden /= {})

(* The rows that are added may tell no more than that.                       *)
LEMMA NextStartStep ==
  ASSUME WalkInv, ProbesInv, phase = "walking",
         NEW rows, NEW final \in Urls \union {NoUrl}, NEW page, NextStart(rows, final, page),
         start /= 2 => page = truth.page,
         rows \in Seq(ToSet(rows)), \A p \in ToSet(rows) : Tells(p, final, page)
  PROVE  WalkInv' /\ ProbesInv'
<1>1. /\ WalkInv' /\ truth'.finals[start] = final /\ truth'.page = page /\ start' = start + 1
      /\ \A p : RowInv(p) => RowInv(p)'
  BY NextStartKeeps
<1>2. start \in 1..(start' - 1) /\ (start = 2 => start' > 2)
  <2>1. start \in 1..(Len(Starts) + 1) /\ Len(Starts) \in Nat /\ start' = start + 1
    BY <1>1, ScanAssumption DEF WalkInv
  <2>2. start \in Nat /\ 1 <= start
    BY <2>1
  <2> QED BY <2>1, <2>2
<1>3. probes' \in Seq(ToSet(probes')) /\ ToSet(probes') \subseteq ToSet(probes) \union ToSet(rows)
  BY Joined DEF ProbesInv, NextStart
<1>4. ASSUME NEW p \in ToSet(rows) PROVE RowInv(p)'
  <2>1. CASE p.status = "UNKNOWN"
    BY <2>1 DEF RowInv
  <2>2. CASE /\ Sees(p, "REDIRECT_TOPOLOGY") /\ Linked(p.evidence)
             /\ p.target = Starts[start] /\ p.evidence.final = final /\ final /= NoUrl
    BY <1>1, <1>2, <2>2 DEF RowInv, WalkRow, Sees
  <2>3. CASE /\ Sees(p, "HOMEPAGE_INDEXABILITY") /\ start = 2
             /\ p.evidence.tags = page.tags /\ (p.evidence.truncated <=> page.hidden /= {})
    BY <1>1, <1>2, <2>3 DEF RowInv, PageRow, Sees
  <2> QED BY <2>1, <2>2, <2>3 DEF Tells
<1>5. \A p \in ToSet(probes') : RowInv(p)'
  BY <1>1, <1>3, <1>4 DEF ProbesInv
<1> QED BY <1>1, <1>3, <1>5 DEF ProbesInv

(* An arrival adds a row that tells where the walk led.                      *)
LEMMA ArrivedStep ==
  ASSUME WalkInv, ProbesInv, Arrived
  PROVE  WalkInv' /\ ProbesInv'
<1>1. phase = "walking"
  BY DEF Arrived
<1>2. PICK status \in FinalStatuses, page \in (IF start = 2 THEN Pages ELSE {truth.page}) :
        LET chain == Append(hops, [url |-> Here, status |-> status, location |-> NoUrl])
            redirect == Row("REDIRECT_TOPOLOGY", Starts[start],
              [start |-> Starts[start], final |-> Here, hops |-> chain, truncated |-> FALSE], now)
            indexability == IF page.html
              THEN Row("HOMEPAGE_INDEXABILITY", Starts[start],
                [response |-> status, tags |-> page.tags, truncated |-> page.hidden /= {}], now)
              ELSE UnknownRow("HOMEPAGE_INDEXABILITY")
        IN NextStart(<<redirect>> \o OfSecond(indexability), Here, page)
  BY DEF Arrived
<1> DEFINE e == [start |-> Starts[start], final |-> Here,
                 hops |-> Append(hops, [url |-> Here, status |-> status, location |-> NoUrl]), truncated |-> FALSE]
           i == [response |-> status, tags |-> page.tags, truncated |-> page.hidden /= {}]
           redirect == Row("REDIRECT_TOPOLOGY", Starts[start], e, now)
           found == Row("HOMEPAGE_INDEXABILITY", Starts[start], i, now)
           missing == UnknownRow("HOMEPAGE_INDEXABILITY")
           indexability == IF page.html THEN found ELSE missing
           rows == <<redirect>> \o OfSecond(indexability)
<1>3. NextStart(rows, Here, page)
  BY <1>2
<1>4. Here \in Urls /\ Here /= NoUrl /\ start \in 1..Len(Starts) /\ now \in Nat
  BY <1>1, WhereTheWalkIs, ScanAssumption DEF WalkInv
<1>5. start /= 2 => page = truth.page
  BY <1>2
<1>6. Linked(e) /\ e.final = Here
  BY <1>1, ArrivedChain
<1>7. i.tags = page.tags /\ (i.truncated <=> page.hidden /= {})
  OBVIOUS
<1> HIDE DEF e, i
<1>8. Sees(redirect, "REDIRECT_TOPOLOGY") /\ redirect.target = Starts[start] /\ redirect.evidence = e
  BY <1>4 DEF Row, Sees
<1>9. Sees(found, "HOMEPAGE_INDEXABILITY") /\ found.evidence = i
  BY <1>4 DEF Row, Sees
<1>10. missing.status = "UNKNOWN"
  BY DEF UnknownRow
<1> HIDE DEF redirect, found, missing
<1>11. Tells(redirect, Here, page)
  BY <1>4, <1>6, <1>8 DEF Tells
<1>12. start = 2 => Tells(found, Here, page)
  BY <1>7, <1>9 DEF Tells
<1>13. Tells(missing, Here, page)
  BY <1>10 DEF Tells
<1>14. start = 2 => Tells(indexability, Here, page)
  BY <1>12, <1>13
<1> HIDE DEF indexability
<1>15. rows \in Seq(ToSet(rows)) /\ ToSet(rows) \subseteq {redirect} \union (IF start = 2 THEN {indexability} ELSE {})
  BY RowsOfStart
<1> HIDE DEF rows
<1>16. \A p \in ToSet(rows) : Tells(p, Here, page)
  BY <1>11, <1>14, <1>15
<1> QED BY <1>1, <1>3, <1>4, <1>5, <1>15, <1>16, NextStartStep

(* A walk that fails adds rows without evidence.                             *)
LEMMA WalkFailedStep ==
  ASSUME WalkInv, ProbesInv, WalkFailed
  PROVE  WalkInv' /\ ProbesInv'
<1> DEFINE redirect == UnknownRow("REDIRECT_TOPOLOGY")
           indexability == UnknownRow("HOMEPAGE_INDEXABILITY")
           rows == <<redirect>> \o OfSecond(indexability)
<1>1. phase = "walking" /\ NextStart(rows, NoUrl, truth.page)
  BY DEF WalkFailed
<1>2. redirect.status = "UNKNOWN" /\ indexability.status = "UNKNOWN"
  BY DEF UnknownRow
<1> HIDE DEF redirect, indexability
<1>3. rows \in Seq(ToSet(rows)) /\ ToSet(rows) \subseteq {redirect, indexability}
  BY RowsOfStart
<1> HIDE DEF rows
<1>4. \A p \in ToSet(rows) : Tells(p, NoUrl, truth.page)
  BY <1>2, <1>3 DEF Tells
<1> QED BY <1>1, <1>3, <1>4, NextStartStep

(* A handshake adds a certificate, or a row without evidence.                *)
LEMMA HandshakeStep ==
  ASSUME WalkInv, ProbesInv, Handshake
  PROVE  WalkInv' /\ ProbesInv'
<1>1. UNCHANGED <<domain, start, hops, truth, now>> /\ phase' = "done"
  BY DEF Handshake
<1>2. WalkInv'
  BY <1>1 DEF WalkInv
<1>3. PICK row : probes' = Append(probes, row) /\ (row.status = "UNKNOWN" \/ TlsRow(row))
  <2>1. CASE probes' = Append(probes, UnknownRow("TLS_CERTIFICATE"))
    BY <2>1 DEF UnknownRow
  <2>2. ASSUME NEW c \in Certificates, NEW skew \in 0..MaxSkew,
               probes' = Append(probes, Row("TLS_CERTIFICATE", baseline.target, c, now + skew))
        PROVE  \E row : probes' = Append(probes, row) /\ (row.status = "UNKNOWN" \/ TlsRow(row))
    <3>1. now + skew \in Int
      BY ScanAssumption DEF WalkInv
    <3>2. TlsRow(Row("TLS_CERTIFICATE", baseline.target, c, now + skew))
      BY <3>1 DEF Row, TlsRow, Sees
    <3> QED BY <2>2, <3>2
  <2> QED BY <2>1, <2>2 DEF Handshake
<1>4. \A p : RowInv(p) => RowInv(p)'
  BY <1>1 DEF RowInv, TlsRow, WalkRow, PageRow, Sees
<1>5. RowInv(row)
  BY <1>3 DEF RowInv
<1> QED BY <1>2, <1>3, <1>4, <1>5, Appended DEF ProbesInv

(* The invariants of the probes hold at first, and every step keeps them.    *)
LEMMA WalkInit == Init => WalkInv /\ ProbesInv
<1> SUFFICES ASSUME Init PROVE WalkInv /\ ProbesInv
  OBVIOUS
<1>1. start = 1 /\ hops = <<>> /\ probes = <<>> /\ now = 0 /\ truth = [finals |-> <<>>, page |-> NoPage]
  BY DEF Init
<1>2. Len(Starts) \in Nat /\ Len(Starts) >= 1
  BY ScanAssumption
<1>3. probes \in Seq(ToSet(probes)) /\ ToSet(probes) = {}
  BY <1>1 DEF ToSet
<1> QED BY <1>1, <1>2, <1>3 DEF WalkInv, ProbesInv

LEMMA WalkStep ==
  ASSUME WalkInv, ProbesInv, [Next]_vars
  PROVE  WalkInv' /\ ProbesInv'
<1>1. CASE AskVantage \/ Store \/ Tick \/ UNCHANGED vars
  <2>1. UNCHANGED <<domain, start, hops, truth, probes>> /\ (now' = now \/ now' = now + 1)
    BY <1>1 DEF AskVantage, Store, Tick, vars
  <2>2. phase' = phase \/ (phase = "asking" /\ phase' /= "asking")
    BY <1>1 DEF AskVantage, Store, Tick, vars
  <2>3. WalkInv'
    BY <2>1, <2>2 DEF WalkInv
  <2>4. \A p : RowInv(p) => RowInv(p)'
    BY <2>1 DEF RowInv, TlsRow, WalkRow, PageRow, Sees
  <2> QED BY <2>1, <2>3, <2>4 DEF ProbesInv
<1> QED BY <1>1, RedirectedStep, ArrivedStep, WalkFailedStep, HandshakeStep DEF Next

(* All four invariants hold always.                                          *)
LEMMA Invariance == Spec => []IInv
<1>1. Init => IInv
  BY EvidenceInit, WalkInit DEF IInv
<1>2. IInv /\ [Next]_vars => IInv'
  BY EvidenceStep, SnapshotStep, WalkStep DEF IInv
<1> QED BY <1>1, <1>2, PTL DEF Spec
-----------------------------------------------------------------------------
(* What ProbeOutcome makes of the row it reads.                              *)
RowOutcome(p, at) ==
  CASE p.probedAt > at -> "UNKNOWN"
    [] p.probedAt <= at /\ at - p.probedAt > baseline.maxAge -> "STALE"
    [] p.probedAt <= at /\ at - p.probedAt <= baseline.maxAge /\ Status(p) /= "conclusive" -> Status(p)
    [] OTHER -> Sound(Faulty(p, baseline, at))

(* At most one row decides, and the same one at any time.                    *)
LEMMA OneRowDecides ==
  ASSUME IInv
  PROVE  \/ \A at : ProbeOutcome(baseline, probes, at) = "UNKNOWN"
         \/ \E p \in ToSet(probes) :
              /\ RowInv(p) /\ Matches(p, baseline)
              /\ \A at : ProbeOutcome(baseline, probes, at) = RowOutcome(p, at)
<1>1. CASE Matching(probes, baseline) = {}
  BY <1>1 DEF ProbeOutcome
<1>2. CASE Matching(probes, baseline) /= {}
  <2> DEFINE p == probes[Min(Matching(probes, baseline))]
  <2>1. Matching(probes, baseline) \subseteq DOMAIN probes /\ DOMAIN probes \subseteq Nat
    BY DEF Matching, IInv, ProbesInv
  <2>2. Min(Matching(probes, baseline)) \in Matching(probes, baseline)
    BY <1>2, <2>1, FirstPosition
  <2>3. p \in ToSet(probes) /\ Matches(p, baseline)
    BY <2>1, <2>2 DEF Matching, ToSet
  <2>4. \A at : ProbeOutcome(baseline, probes, at) = RowOutcome(p, at)
    BY <1>2 DEF ProbeOutcome, RowOutcome
  <2> HIDE DEF p
  <2> QED BY <2>3, <2>4 DEF IInv, ProbesInv
<1> QED BY <1>1, <1>2

(* A row that matches holds evidence, of the check of the baseline.          *)
LEMMA WhatTheRowTells ==
  ASSUME NEW p, RowInv(p), Matches(p, baseline)
  PROVE  /\ p.check = baseline.check /\ p.target = baseline.target
         /\ TlsRow(p) \/ WalkRow(p) \/ PageRow(p)
         /\ Status(p) \in {"UNKNOWN", "TRUNCATED", "conclusive"}
<1>1. p.check = baseline.check /\ p.target = baseline.target /\ (TlsRow(p) \/ WalkRow(p) \/ PageRow(p))
  BY DEF RowInv, Matches
<1>2. CASE TlsRow(p)
  BY <1>1, <1>2 DEF TlsRow, Sees, Status, TlsStatus
<1>3. CASE WalkRow(p)
  BY <1>1, <1>3 DEF WalkRow, Sees, Status, RedirectStatus
<1>4. CASE PageRow(p)
  BY <1>1, <1>4 DEF PageRow, Sees, Status, IndexabilityStatus
<1> QED BY <1>1, <1>2, <1>3, <1>4

(* The outcomes of a row, and what they say of its age and its content.      *)
LEMMA RowOutcomes ==
  ASSUME NEW p, RowInv(p), Matches(p, baseline), NEW at \in Nat, IInv
  PROVE  /\ RowOutcome(p, at) \in {"UNKNOWN", "TRUNCATED", "STALE", "FAULTY", "HEALTHY"}
         /\ RowOutcome(p, at) \in {"FAULTY", "HEALTHY"} =>
              /\ p.probedAt <= at /\ at - p.probedAt <= baseline.maxAge /\ Status(p) = "conclusive"
              /\ RowOutcome(p, at) = "FAULTY" <=> Faulty(p, baseline, at)
              /\ RowOutcome(p, at) = "HEALTHY" <=> ~Faulty(p, baseline, at)
         /\ RowOutcome(p, at) = "STALE" => p.probedAt <= at /\ at - p.probedAt > baseline.maxAge
<1>1. p.probedAt \in Int /\ Status(p) \in {"UNKNOWN", "TRUNCATED", "conclusive"}
  BY WhatTheRowTells DEF TlsRow, WalkRow, PageRow, Sees
<1>2. baseline.maxAge \in Nat
  BY AgesAssumption DEF IInv, EvidenceInv, baseline
<1> DEFINE faulty == Faulty(p, baseline, at)
<1>3. RowOutcome(p, at) =
        IF p.probedAt > at THEN "UNKNOWN"
        ELSE IF at - p.probedAt > baseline.maxAge THEN "STALE"
        ELSE IF Status(p) /= "conclusive" THEN Status(p)
        ELSE IF faulty THEN "FAULTY" ELSE "HEALTHY"
  BY <1>1, <1>2 DEF RowOutcome, Sound
<1> HIDE DEF faulty
<1>4. /\ RowOutcome(p, at) \in {"UNKNOWN", "TRUNCATED", "STALE", "FAULTY", "HEALTHY"}
      /\ RowOutcome(p, at) \in {"FAULTY", "HEALTHY"} =>
           /\ p.probedAt <= at /\ at - p.probedAt <= baseline.maxAge /\ Status(p) = "conclusive"
           /\ RowOutcome(p, at) = "FAULTY" <=> faulty
           /\ RowOutcome(p, at) = "HEALTHY" <=> ~faulty
      /\ RowOutcome(p, at) = "STALE" => p.probedAt <= at /\ at - p.probedAt > baseline.maxAge
  BY <1>1, <1>2, <1>3
<1> QED BY <1>4 DEF faulty
-----------------------------------------------------------------------------
(* What decides: a complete snapshot, and its findings or the row.           *)
LEMMA VerdictCases ==
  ASSUME IInv
  PROVE  \/ Verdict = Absent
         \/ /\ phase = "done" /\ snapshot.state = "complete" /\ baseline.check = "SPF"
            /\ Verdict = MailOutcome(snapshot)
         \/ /\ phase = "done" /\ snapshot.state = "complete" /\ baseline.check /= "SPF"
            /\ \/ Verdict = "UNKNOWN"
               \/ \E p \in ToSet(probes) : RowInv(p) /\ Matches(p, baseline) /\ Verdict = RowOutcome(p, now)
<1>1. CASE phase /= "done"
  BY <1>1 DEF Verdict
<1>2. CASE phase = "done" /\ snapshot.state /= "complete"
  BY <1>2 DEF Verdict, Outcome
<1>3. CASE phase = "done" /\ snapshot.state = "complete" /\ baseline.check = "SPF"
  BY <1>3 DEF Verdict, Outcome
<1>4. CASE phase = "done" /\ snapshot.state = "complete" /\ baseline.check /= "SPF"
  <2>1. Verdict = ProbeOutcome(baseline, probes, now)
    BY <1>4 DEF Verdict, Outcome
  <2> QED BY <1>4, <2>1, OneRowDecides
<1> QED BY <1>1, <1>2, <1>3, <1>4

(* An SPF outcome follows from the responses: none was an error, so the rule *)
(* reports an absence exactly if no whole response has a text.               *)
LEMMA SpfIsEarned ==
  ASSUME IInv, phase = "done", snapshot.state = "complete",
         MailOutcome(snapshot) \in {"FAULTY", "HEALTHY"}
  PROVE  /\ Threw = {}
         /\ \A o \in ToSet(Observations(evidence, <<"@", "TXT">>)) : IsConclusive(o)
         /\ MailOutcome(snapshot) = "HEALTHY" <=> \E o \in Holders(<<"@", "TXT">>, "v=spf1") : IsWhole(o)
<1> DEFINE q == <<"@", "TXT">>
           os == Observations(evidence, q)
           missing(f) == f.type = "mail.no-spf-record" /\ ~f.reviewOnly
<1>1. snapshot.state = ResultState /\ snapshot.coverage = Coverage /\ snapshot.findings = Findings
  BY DEF IInv, SnapshotInv
<1>2. Threw = {}
  BY <1>1 DEF MailOutcome, Coverage
<1>3. \A o \in UNION {ToSet(evidence[r]) : r \in ToSet(plan)} : IsConclusive(o)
  BY <1>1 DEF ResultState
<1>4. \A o \in ToSet(os) : IsConclusive(o)
  <2>1. CASE q \in ToSet(plan)
    BY <1>3, <2>1 DEF Observations, IInv, EvidenceInv
  <2>2. CASE q \notin ToSet(plan)
    <3>1. os = <<>>
      BY <2>2 DEF Observations, IInv, EvidenceInv
    <3> QED BY <3>1 DEF ToSet
  <2> QED BY <2>1, <2>2
<1>5. Failures(os) = {}
  <2>1. \A i \in DOMAIN os : IsConclusive(os[i]) /\ StatusTells(os[i])
    BY <1>4, WhatIsObserved DEF ToSet, IInv
  <2> QED BY <2>1 DEF Failures, StatusTells
<1>6. MailOutcome(snapshot) = "HEALTHY" <=> ~\E f \in Findings : missing(f)
  BY <1>1 DEF MailOutcome, Sound
<1>7. (\E f \in Findings : missing(f)) <=> Texts(os, "v=spf1") = {}
  <2>1. ASSUME NEW f \in Findings, missing(f) PROVE Texts(os, "v=spf1") = {}
    BY <2>1, SourceOfAbsence, SpfRule DEF IInv
  <2>2. ASSUME Texts(os, "v=spf1") = {} PROVE \E f \in Findings : missing(f)
    <3>1. PICK f \in SpfAnalysis(os) : missing(f)
      BY <1>5, <2>2, SpfRule
    <3>2. <<"mail.spf-analysis.v1", SpfAnalysis(os)>> \in Ruleset \ Threw
      BY <1>2 DEF Ruleset
    <3>3. f \in Findings
      BY <3>1, <3>2 DEF Findings
    <3> QED BY <3>1, <3>3
  <2> QED BY <2>1, <2>2
<1>8. Texts(os, "v=spf1") = {} <=> \A o \in Holders(q, "v=spf1") : ~IsWhole(o)
  BY TextsAreHeld DEF IInv
<1> QED BY <1>2, <1>4, <1>6, <1>7, <1>8

(* The outcome of a redirect row agrees with where the walk really led.      *)
LEMMA RedirectIsEarned ==
  ASSUME IInv, NEW p, RowInv(p), Matches(p, baseline), RowOutcome(p, now) \in {"FAULTY", "HEALTHY"},
         baseline.check = "REDIRECT_TOPOLOGY"
  PROVE  \E i \in 1..Len(Starts) :
           /\ Starts[i] = baseline.target /\ truth.finals[i] /= NoUrl
           /\ (RowOutcome(p, now) = "HEALTHY") <=> (truth.finals[i] = baseline.policy.final)
<1>1. WalkRow(p) /\ p.target = baseline.target
  BY WhatTheRowTells DEF TlsRow, PageRow, Sees
<1>2. PICK k \in 1..(start - 1) : p.target = Starts[k] /\ p.evidence.final = truth.finals[k] /\ truth.finals[k] /= NoUrl
  BY <1>1 DEF WalkRow
<1>3. k \in 1..Len(Starts)
  BY ScanAssumption DEF IInv, WalkInv
<1>4. RowOutcome(p, now) = "HEALTHY" <=> ~Faulty(p, baseline, now)
  BY RowOutcomes DEF IInv, WalkInv
<1>5. Faulty(p, baseline, now) <=> truth.finals[k] /= baseline.policy.final
  BY <1>2 DEF Faulty, RedirectFaulty
<1> QED BY <1>1, <1>2, <1>3, <1>4, <1>5

(* The outcome of a page row agrees with the whole page: a page that was not *)
(* cut off was all seen, and one that was decides only by what was seen.     *)
LEMMA IndexabilityIsEarned ==
  ASSUME IInv, NEW p, RowInv(p), Matches(p, baseline), RowOutcome(p, now) \in {"FAULTY", "HEALTHY"},
         baseline.check = "HOMEPAGE_INDEXABILITY"
  PROVE  (RowOutcome(p, now) = "HEALTHY") <=>
           (baseline.policy.indexable <=> (truth.page.tags \union truth.page.hidden) \intersect {"noindex", "none"} = {})
<1>1. PageRow(p)
  BY WhatTheRowTells DEF TlsRow, WalkRow, Sees
<1>2. RowOutcome(p, now) = "HEALTHY" <=> ~Faulty(p, baseline, now)
  BY RowOutcomes DEF IInv, WalkInv
<1>3. Status(p) = "conclusive"
  BY RowOutcomes DEF IInv, WalkInv
<1>4. Noindex(p.evidence) \/ ~p.evidence.truncated
  BY <1>1, <1>3 DEF PageRow, Sees, Status, IndexabilityStatus
<1>5. Noindex(p.evidence) <=> (truth.page.tags \union truth.page.hidden) \intersect {"noindex", "none"} /= {}
  BY <1>1, <1>4 DEF PageRow, Noindex
<1>6. Faulty(p, baseline, now) <=> IF baseline.policy.indexable THEN Noindex(p.evidence) ELSE ~Noindex(p.evidence)
  BY DEF Faulty, IndexabilityFaulty
<1> QED BY <1>2, <1>5, <1>6

(* Hence every verdict is earned.                                            *)
LEMMA VerdictsEarned == IInv => VerdictsAreEarned
<1> SUFFICES ASSUME IInv PROVE VerdictsAreEarned
  OBVIOUS
<1>1. CASE Verdict = Absent
  BY <1>1 DEF VerdictsAreEarned, SpfVerdictIsEarned, WebVerdictIsEarned, Decided, Absent
<1>2. CASE /\ phase = "done" /\ snapshot.state = "complete" /\ baseline.check = "SPF"
           /\ Verdict = MailOutcome(snapshot)
  <2>1. Verdict \in {"UNKNOWN", "FAULTY", "HEALTHY"}
    BY <1>2 DEF MailOutcome, Sound
  <2>2. SpfVerdictIsEarned
    BY <1>2, SpfIsEarned DEF SpfVerdictIsEarned, Decided
  <2> QED BY <1>2, <2>1, <2>2 DEF VerdictsAreEarned, WebVerdictIsEarned
<1>3. CASE /\ phase = "done" /\ snapshot.state = "complete" /\ baseline.check /= "SPF"
           /\ Verdict = "UNKNOWN"
  BY <1>3 DEF VerdictsAreEarned, SpfVerdictIsEarned, WebVerdictIsEarned, Decided
<1>4. ASSUME phase = "done", snapshot.state = "complete", baseline.check /= "SPF",
             NEW p \in ToSet(probes), RowInv(p), Matches(p, baseline), Verdict = RowOutcome(p, now)
      PROVE  VerdictsAreEarned
  <2>1. Verdict /= "MALFORMED"
    BY <1>4, RowOutcomes DEF IInv, WalkInv
  <2>2. WebVerdictIsEarned
    <3>1. ASSUME baseline.check = "REDIRECT_TOPOLOGY", Decided
          PROVE  \E i \in 1..Len(Starts) : /\ Starts[i] = baseline.target /\ truth.finals[i] /= NoUrl
                                           /\ (Verdict = "HEALTHY") <=> (truth.finals[i] = baseline.policy.final)
      BY <1>4, <3>1, RedirectIsEarned DEF Decided
    <3>2. ASSUME baseline.check = "HOMEPAGE_INDEXABILITY", Decided
          PROVE  (Verdict = "HEALTHY") <=>
                   (baseline.policy.indexable <=> (truth.page.tags \union truth.page.hidden) \intersect {"noindex", "none"} = {})
      BY <1>4, <3>2, IndexabilityIsEarned DEF Decided
    <3> QED BY <3>1, <3>2 DEF WebVerdictIsEarned
  <2> QED BY <1>4, <2>1, <2>2 DEF VerdictsAreEarned, SpfVerdictIsEarned
<1> QED BY <1>1, <1>2, <1>3, <1>4, VerdictCases
-----------------------------------------------------------------------------
(* The evidence of a row gets older with every tick.                         *)
LEMMA RowsAge ==
  ASSUME IInv, NEW p, RowInv(p), Matches(p, baseline)
  PROVE  /\ RowOutcome(p, now) = "FAULTY" => RowOutcome(p, now + 1) \in {"FAULTY", "STALE"}
         /\ RowOutcome(p, now) = "STALE" => RowOutcome(p, now + 1) = "STALE"
<1>1. now \in Nat /\ now + 1 \in Nat /\ baseline.maxAge \in Nat /\ p.probedAt \in Int
  <2>1. now \in Nat
    BY DEF IInv, WalkInv
  <2>2. baseline.maxAge \in Nat
    BY AgesAssumption DEF IInv, EvidenceInv, baseline
  <2>3. p.probedAt \in Int
    BY WhatTheRowTells DEF TlsRow, WalkRow, PageRow, Sees
  <2> QED BY <2>1, <2>2, <2>3
<1>2. ASSUME RowOutcome(p, now) = "STALE" PROVE RowOutcome(p, now + 1) = "STALE"
  <2>1. p.probedAt <= now /\ now - p.probedAt > baseline.maxAge
    BY <1>1, <1>2, RowOutcomes
  <2>2. ~(p.probedAt > now + 1) /\ p.probedAt <= now + 1 /\ now + 1 - p.probedAt > baseline.maxAge
    BY <1>1, <2>1
  <2> QED BY <1>1, <2>2 DEF RowOutcome
<1>3. ASSUME RowOutcome(p, now) = "FAULTY" PROVE RowOutcome(p, now + 1) \in {"FAULTY", "STALE"}
  <2>1. /\ p.probedAt <= now /\ now - p.probedAt <= baseline.maxAge /\ Status(p) = "conclusive"
        /\ Faulty(p, baseline, now)
    BY <1>1, <1>3, RowOutcomes
  <2>2. Faulty(p, baseline, now + 1)
    <3>1. CASE baseline.check = "TLS_CERTIFICATE"
      <4>1. p.evidence \in Certificates /\ domain \in Domains
        BY <3>1, WhatTheRowTells DEF TlsRow, WalkRow, PageRow, Sees, IInv, EvidenceInv
      <4>2. p.evidence.validTo \in Int /\ baseline.policy.remaining \in Int
        BY <3>1, <4>1, AgesAssumption DEF baseline
      <4>3. TlsFaulty(p, baseline.policy, now)
        BY <2>1, <3>1 DEF Faulty
      <4>4. TlsFaulty(p, baseline.policy, now + 1)
        BY <1>1, <4>2, <4>3 DEF TlsFaulty
      <4> QED BY <3>1, <4>4 DEF Faulty
    <3>2. CASE baseline.check = "REDIRECT_TOPOLOGY"
      BY <2>1, <3>2 DEF Faulty
    <3>3. CASE baseline.check \notin {"TLS_CERTIFICATE", "REDIRECT_TOPOLOGY"}
      BY <2>1, <3>3 DEF Faulty
    <3> QED BY <3>1, <3>2, <3>3
  <2>3. CASE now + 1 - p.probedAt > baseline.maxAge
    <3>1. ~(p.probedAt > now + 1) /\ p.probedAt <= now + 1
      BY <1>1, <2>1
    <3> QED BY <1>1, <2>3, <3>1 DEF RowOutcome
  <2>4. CASE now + 1 - p.probedAt <= baseline.maxAge
    <3>1. ~(p.probedAt > now + 1) /\ ~(now + 1 - p.probedAt > baseline.maxAge)
      BY <1>1, <2>1, <2>4
    <3> QED BY <2>1, <2>2, <3>1 DEF RowOutcome, Sound
  <2> QED BY <1>1, <2>3, <2>4
<1> QED BY <1>2, <1>3

(* So no step turns a fault into health.                                     *)
LEMMA AgeingStep ==
  ASSUME IInv, [Next]_vars
  PROVE  /\ Verdict = "FAULTY" => Verdict' \in {"FAULTY", "STALE"}
         /\ Verdict = "STALE" => Verdict' = "STALE"
<1>1. CASE phase /= "done"
  BY <1>1 DEF Verdict, Absent
<1>2. CASE phase = "done"
  <2>1. UNCHANGED <<domain, phase, snapshot, probes>> /\ (now' = now \/ now' = now + 1)
    BY <1>2 DEF Next, vars, AskVantage, Store, Handshake, Redirected, Arrived, WalkFailed, Tick
  <2>2. baseline' = baseline
    BY <2>1 DEF baseline
  <2>3. Verdict' = Outcome(baseline, snapshot, probes, now')
    BY <1>2, <2>1, <2>2 DEF Verdict
  <2>4. CASE now' = now
    BY <1>2, <2>3, <2>4 DEF Verdict
  <2>5. CASE now' = now + 1
    <3>1. CASE snapshot.state = "complete" /\ baseline.check /= "SPF"
      <4>1. Verdict = ProbeOutcome(baseline, probes, now) /\ Verdict' = ProbeOutcome(baseline, probes, now + 1)
        BY <1>2, <2>3, <2>5, <3>1 DEF Verdict, Outcome
      <4> QED BY <4>1, OneRowDecides, RowsAge
    <3>2. CASE ~(snapshot.state = "complete" /\ baseline.check /= "SPF")
      BY <1>2, <2>3, <3>2 DEF Verdict, Outcome
    <3> QED BY <3>1, <3>2
  <2> QED BY <2>1, <2>4, <2>5
<1> QED BY <1>1, <1>2
-----------------------------------------------------------------------------
(* Whatever the vantages answer and wherever the walks lead, a scan decides  *)
(* a baseline only on a complete snapshot and on evidence that says so of    *)
(* the world, where truncated responses are left out, and it never misreads  *)
(* a row that the probes wrote.                                              *)
THEOREM EvidenceEarnsVerdicts == Spec => []VerdictsAreEarned
<1>1. IInv => VerdictsAreEarned
  BY VerdictsEarned
<1> QED BY <1>1, Invariance, PTL

(* However many servers there are, two answers that differ never go without  *)
(* a finding of one of the two mismatch rules, if neither threw.             *)
THEOREM MismatchesAreFound == Spec => []DisagreementIsReported
<1>1. IInv => DisagreementIsReported
  BY DisagreementIsFound DEF IInv
<1> QED BY <1>1, Invariance, PTL

(* No rule says that a mail record is missing that any whole response has,   *)
(* and those of MX and SPF do not when every vantage failed and no response  *)
(* was truncated.                                                            *)
THEOREM AbsencesAreReal == Spec => []AbsenceIsUnanswered
<1>1. IInv => AbsenceIsUnanswered
  BY AbsenceIsFound DEF IInv
<1> QED BY <1>1, Invariance, PTL

(* A fault that is evaluated again stays a fault until its evidence is too   *)
(* old, and what is too old stays so.                                        *)
THEOREM FaultsAge == Spec => AgeingNeverHeals
<1>1. IInv /\ [Next]_vars =>
        [/\ Verdict = "FAULTY" => Verdict' \in {"FAULTY", "STALE"}
         /\ Verdict = "STALE" => Verdict' = "STALE"]_vars
  BY AgeingStep
<1> QED BY <1>1, Invariance, PTL DEF Spec, AgeingNeverHeals
==============================================================================
