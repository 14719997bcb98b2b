------------------------------- MODULE DnsRules -------------------------------
(* The DNS rules (packages/rules/src/dns/rules.ts).  A rule that finds       *)
(* several queries at fault reports the first it meets, so each returns one  *)
(* finding; which query that was only shows in its blast radius.             *)
EXTENDS RecordSets

(* The query of the first failure, in the order in which observations are    *)
(* stored: vantage by vantage, and the queries of a vantage as planned.      *)
ServerFailures(evidence, q) == Failures(evidence[q]) \intersect OfServers(evidence[q])
FailureType == [timeout |-> "dns.authoritative-timeout", error |-> "dns.authoritative-error",
                refused |-> "dns.authoritative-refused"]

AuthoritativeFailure(evidence, order, zone) ==
  LET servers == UNION {ServerFailures(evidence, q) : q \in ToSet(order)}
      hits == {i \in DOMAIN order : Min(servers) \in ServerFailures(evidence, order[i])}
      q == order[Min(hits)]
      failures == ServerFailures(evidence, q)
      kinds == {evidence[q][i].status : i \in failures}
      severity == IF "timeout" \in kinds THEN "high" ELSE "medium"
      confidence == IF Cardinality(kinds) = Cardinality(failures) THEN "certain" ELSE "high"
  IN IF servers = {} THEN None
     ELSE Finding("dns.auth-failure.v1", FailureType[evidence[q][Min(failures)].status], severity, confidence,
                  IsReviewOnly(severity, InferBlastRadius(zone, q[2]), confidence))

AuthoritativeMismatch(evidence, order) ==
  LET hit(q) == /\ ~IsConsistent(evidence[q])
                /\ Cardinality(Successes(evidence[q]) \intersect OfServers(evidence[q])) >= 2
  IN IF \A q \in ToSet(order) : ~hit(q) THEN None
     ELSE Finding("dns.auth-mismatch.v1", "dns.authoritative-mismatch", "critical", "certain", TRUE)

BothAnswered(os) == /\ Successes(os) \intersect OfResolver(os) /= {}
                    /\ Successes(os) \intersect OfServers(os) /= {}

(* Variant: a resolver that knows fewer values than the servers agrees.      *)
MismatchBeyondServers(evidence, order) ==
  LET hit(q) == /\ BothAnswered(evidence[q])
                /\ ~(ValuesOf(evidence[q], OfResolver(evidence[q])) \subseteq ValuesOf(evidence[q], OfServers(evidence[q])))
  IN IF \A q \in ToSet(order) : ~hit(q) THEN None
     ELSE Finding("dns.recursive-auth-mismatch.v1", "dns.recursive-authoritative-mismatch", "high", "certain", TRUE)

RecursiveAuthoritativeMismatch(evidence, order) ==
  LET hit(q) == /\ BothAnswered(evidence[q])
                /\ ValuesOf(evidence[q], OfResolver(evidence[q])) /= ValuesOf(evidence[q], OfServers(evidence[q]))
  IN IF \A q \in ToSet(order) : ~hit(q) THEN None
     ELSE Finding("dns.recursive-auth-mismatch.v1", "dns.recursive-authoritative-mismatch", "high", "certain", TRUE)

(* Record sets of the same owner, whether they hold values or not.           *)
CnameCoexistence(evidence) ==
  LET sets == DOMAIN RecordSets(evidence)
  IN IF \E c, q \in sets : c[2] = "CNAME" /\ c[1] = q[1] /\ q[2] \notin {"CNAME", "RRSIG", "NSEC", "NSEC3", "DNSKEY"}
     THEN Finding("dns.cname-coexistence.v1", "dns.cname-coexistence-conflict", "critical", "certain", TRUE)
     ELSE None

UnmanagedZonePartialCoverage(zone) ==
  IF zone = "unmanaged"
  THEN Finding("dns.unmanaged-partial.v1", "dns.partial-coverage-unmanaged", "info", "certain", FALSE)
  ELSE None
==============================================================================
