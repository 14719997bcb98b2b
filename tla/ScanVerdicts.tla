----------------------------- MODULE ScanVerdicts -----------------------------
(* From the answers of the network to what a scan says of a domain: the      *)
(* collector stores the observations of its vantages, runs the rule packs    *)
(* over them (dns/collector.ts, rules/src/engine), adds the evidence of the  *)
(* TLS and web probes (probes/domain-evidence.ts, http-web.ts) and evaluates *)
(* an accepted baseline; the evaluation is repeated, later, whenever the     *)
(* finalization of the snapshot is.  World and evidence are kept apart, so   *)
(* that a verdict can be compared with what was really there.                *)
EXTENDS DnsRules, MailRules, ConditionEvaluation

CONSTANTS
  Domains,       \* [zone, plan, baseline, broken]: the plan is the sequence of
                 \* queries; the baseline is [check, target, policy, maxAge],
                 \* with Absent for the check if none was accepted; broken is
                 \* the set of the rules that throw on the domain's data
  Answers(_),    \* the responses of a vantage to a query: [rcode, tc, answers]
  Servers,       \* the authoritative servers, in the order of discovery
  Certificates,  \* evidence of a TLS handshake: [hostname, chain, canonical, validTo]
  Urls, Starts,  \* the start URLs, in the order of collection, are Urls
  FinalStatuses, \* of responses that end a walk
  Pages,         \* [html, tags, hidden]: hidden is what lies beyond the body limit
  MaxRedirects, MaxSkew, MaxTime

NoUrl == 0
NoPage == [html |-> FALSE, tags |-> {}, hidden |-> {}]

ASSUME ScanAssumption ==
  /\ MaxRedirects \in Nat /\ MaxSkew \in Nat /\ MaxTime \in Nat
  /\ Starts \in Seq(Urls) /\ Starts /= <<>>
  /\ NoUrl \notin Urls

(* The responses have the codes of the contract and a TC flag, the servers   *)
(* are not the public resolver, a redirect (isRedirectStatus) never ends a   *)
(* walk, and ages and instants are numbers.                                  *)
ASSUME AnswersAssumption ==
  /\ Servers \in Seq(ToSet(Servers)) /\ Recursive \notin ToSet(Servers)
  /\ \A d \in Domains : /\ d.plan \in Seq(ToSet(d.plan))
                        /\ \A q \in ToSet(d.plan) : \A r \in Answers(q) : r.rcode \in Rcodes /\ r.tc \in BOOLEAN
  /\ \A status \in FinalStatuses : ~IsRedirect(status)

ASSUME AgesAssumption ==
  /\ \A d \in Domains : /\ d.baseline.maxAge \in Nat
                        /\ d.baseline.check = "TLS_CERTIFICATE" => d.baseline.policy.remaining \in Int
  /\ \A c \in Certificates : c.validTo \in Int

VARIABLES
  domain,           \* the scanned domain, one of Domains
  evidence, asked,  \* the observations; how many vantages were asked
  phase,            \* asking, handshake, walking, done
  snapshot,         \* [state, coverage, findings]
  start, hops,      \* the walk from the start URL in hand
  truth,            \* what the walks met: [finals, page]
  probes, now

zone == domain.zone
plan == domain.plan
baseline == domain.baseline
broken == domain.broken
dns == <<evidence, asked>>
vars == <<domain, dns, phase, snapshot, start, hops, truth, probes, now>>

Init ==
  /\ domain \in Domains
  /\ evidence = [q \in ToSet(plan) |-> <<>>] /\ asked = 0
  /\ phase = "asking"
  /\ snapshot = [state |-> Absent, coverage |-> Absent, findings |-> {}]
  /\ start = 1 /\ hops = <<>>
  /\ truth = [finals |-> <<>>, page |-> NoPage]
  /\ probes = <<>> /\ now = 0

------------------------------------------------------------------------------
(* collect asks the public resolver, and the servers of a managed zone.      *)
Vantages == <<Recursive>> \o (IF zone = "managed" THEN Servers ELSE <<>>)

AskVantage ==
  /\ phase = "asking" /\ asked < Len(Vantages)
  /\ \E r \in [ToSet(plan) -> UNION {Answers(q) : q \in ToSet(plan)}] :
       /\ \A q \in ToSet(plan) : r[q] \in Answers(q)
       /\ evidence' = [q \in ToSet(plan) |-> Append(evidence[q], Observed(Vantages[asked + 1], r[q]))]
  /\ asked' = asked + 1
  /\ UNCHANGED <<domain, phase, snapshot, start, hops, truth, probes, now>>

(* calculateResultState; the servers modelled here set the AA flag, and      *)
(* Collection has those that do not.                                         *)
ResultState ==
  LET os == UNION {ToSet(evidence[q]) : q \in ToSet(plan)}
      conclusive == {o \in os : IsConclusive(o)}
  IN IF os = {} THEN "failed"
     ELSE IF zone = "managed" /\ Servers = <<>> THEN "partial"
     ELSE IF conclusive = os THEN IF zone = "unmanaged" THEN "partial" ELSE "complete"
     ELSE IF conclusive /= {} THEN "partial" ELSE "failed"

(* The rules of createCombinedRuleset, each over the whole snapshot:         *)
(* <<rule, result>>.                                                         *)
Ruleset == {
  <<"dns.auth-failure.v1", AuthoritativeFailure(evidence, plan, zone)>>,
  <<"dns.auth-mismatch.v1", AuthoritativeMismatch(evidence, plan)>>,
  <<"dns.recursive-auth-mismatch.v1", RecursiveAuthoritativeMismatch(evidence, plan)>>,
  <<"dns.cname-coexistence.v1", CnameCoexistence(evidence)>>,
  <<"dns.unmanaged-partial.v1", UnmanagedZonePartialCoverage(zone)>>,
  <<"mail.mx-presence.v1", MxPresence(Observations(evidence, <<"@", "MX">>))>>,
  <<"mail.spf-analysis.v1", SpfAnalysis(Observations(evidence, <<"@", "TXT">>))>>,
  <<"mail.dmarc-analysis.v1", DmarcAnalysis(Observations(evidence, <<"_dmarc", "TXT">>))>>,
  <<"mail.dkim-presence.v1", DkimPresence(Observations(evidence, <<"s1._domainkey", "TXT">>))>>,
  <<"mail.mta-sts-presence.v1", MtaSts(Observations(evidence, <<"_mta-sts", "TXT">>))>>,
  <<"mail.tls-rpt-presence.v1", TlsRpt(Observations(evidence, <<"_smtp._tls", "TXT">>))>>,
  <<"mail.bimi-presence.v1", Bimi(Observations(evidence, <<"default._bimi", "TXT">>))>>}

(* RulesEngine.evaluate: a rule that throws is an error of the coverage, and *)
(* the others still report.                                                  *)
Threw == {entry \in Ruleset : entry[1] \in broken}
Findings == UNION {entry[2] : entry \in Ruleset \ Threw}
Coverage == IF Threw /= {} THEN "PARTIAL" ELSE "COMPLETE"

Store ==
  /\ phase = "asking" /\ asked = Len(Vantages)
  /\ snapshot' = [state |-> ResultState, coverage |-> Coverage, findings |-> Findings]
  /\ phase' = CASE baseline.check = "TLS_CERTIFICATE" -> "handshake"
                [] baseline.check \in {"REDIRECT_TOPOLOGY", "HOMEPAGE_INDEXABILITY"} -> "walking"
                [] OTHER -> "done"
  /\ UNCHANGED <<domain, dns, start, hops, truth, probes, now>>

------------------------------------------------------------------------------
(* externalEvidenceToObservation: an UNKNOWN result has no evidence, and so  *)
(* no target that a baseline could match.                                    *)
Row(check, target, ev, at) ==
  [check |-> check, target |-> target, success |-> TRUE, status |-> "OBSERVED",
   wellFormed |-> TRUE, probedAt |-> at, evidence |-> ev]
UnknownRow(check) ==
  [check |-> check, target |-> NoUrl, success |-> FALSE, status |-> "UNKNOWN",
   wellFormed |-> TRUE, probedAt |-> now, evidence |-> Absent]

(* The clocks of the process that probes and of the one that evaluates may   *)
(* differ by MaxSkew.                                                        *)
Handshake ==
  /\ phase = "handshake"
  /\ \/ \E c \in Certificates, skew \in 0..MaxSkew :
          probes' = Append(probes, Row("TLS_CERTIFICATE", baseline.target, c, now + skew))
     \/ probes' = Append(probes, UnknownRow("TLS_CERTIFICATE"))
  /\ phase' = "done"
  /\ UNCHANGED <<domain, dns, snapshot, start, hops, truth, now>>

(* collectOne: the walk from one start URL, a response at a time.            *)
Here == IF hops = <<>> THEN Starts[start] ELSE Last(hops).location

Redirected ==
  /\ phase = "walking" /\ Len(hops) < MaxRedirects
  /\ \E to \in Urls : hops' = Append(hops, [url |-> Here, status |-> 301, location |-> to])
  /\ UNCHANGED <<domain, dns, phase, snapshot, start, truth, probes, now>>

(* The indexability comes with the second start, the HTTPS one.              *)
NextStart(rows, final, page) ==
  /\ probes' = probes \o rows
  /\ truth' = [truth EXCEPT !.finals = Append(truth.finals, final), !.page = page]
  /\ hops' = <<>>
  /\ start' = start + 1
  /\ phase' = IF start = Len(Starts) THEN "done" ELSE "walking"
  /\ UNCHANGED <<domain, dns, snapshot, now>>
OfSecond(row) == IF start = 2 THEN <<row>> ELSE <<>>

(* A response that does not redirect ends the walk.  boundedText cuts the    *)
(* body off, with whatever directives lie beyond the limit.                  *)
Arrived ==
  /\ phase = "walking"
  /\ \E status \in FinalStatuses, page \in (IF start = 2 THEN Pages ELSE {truth.page}) :
       LET chain == Append(hops, [url |-> Here, status |-> status, location |-> NoUrl])
           redirect == Row("REDIRECT_TOPOLOGY", Starts[start],
             [start |-> Starts[start], final |-> Here, hops |-> chain, truncated |-> FALSE], now)
           indexability == IF page.html
             THEN Row("HOMEPAGE_INDEXABILITY", Starts[start],
               [response |-> status, tags |-> page.tags, truncated |-> page.hidden /= {}], now)
             ELSE UnknownRow("HOMEPAGE_INDEXABILITY")
       IN NextStart(<<redirect>> \o OfSecond(indexability), Here, page)

(* An unsafe target, a redirect without a target or one too many, a          *)
(* connection that fails or the deadline ends the walk without evidence.     *)
WalkFailed ==
  /\ phase = "walking"
  /\ NextStart(<<UnknownRow("REDIRECT_TOPOLOGY")>> \o OfSecond(UnknownRow("HOMEPAGE_INDEXABILITY")),
               NoUrl, truth.page)

Tick ==
  /\ phase = "done" /\ now < MaxTime
  /\ now' = now + 1
  /\ UNCHANGED <<domain, dns, phase, snapshot, start, hops, truth, probes>>

Next == AskVantage \/ Store \/ Handshake \/ Redirected \/ Arrived \/ WalkFailed \/ Tick

Spec == Init /\ [][Next]_vars

------------------------------------------------------------------------------
(* What a finalization at this moment makes of the baseline.                 *)
Verdict == IF phase = "done" THEN Outcome(baseline, snapshot, probes, now) ELSE Absent
Decided == Verdict \in {"HEALTHY", "FAULTY"}

Answered(q) == LET os == Observations(evidence, q) IN {os[i] : i \in Successes(os)}

(* The responses that have a record with a marker, whatever became of their  *)
(* status; and a response that is whole: without an error, and all of it.    *)
Holders(q, marker) ==
  {o \in ToSet(Observations(evidence, q)) : \E a \in ToSet(o.answers) : a.marker = marker}
IsWhole(o) == o.responseCode = "NOERROR" /\ ~o.truncated

(* An SPF verdict rests on rules that all ran and vantages that all answered *)
(* without an error: HEALTHY if one of them gave an SPF text in a response   *)
(* that was whole, FAULTY if none did.  A truncated response is the          *)
(* exception: it counts as an answer, and an SPF text in it as none.         *)
SpfVerdictIsEarned ==
  baseline.check = "SPF" /\ Decided =>
    /\ Threw = {}
    /\ \A o \in ToSet(Observations(evidence, <<"@", "TXT">>)) : IsConclusive(o)
    /\ (Verdict = "HEALTHY") <=> \E o \in Holders(<<"@", "TXT">>, "v=spf1") : IsWhole(o)

(* A web verdict agrees with the walk that the start URL really led to, and  *)
(* with the directives of the whole page, those beyond the limit included.   *)
WebVerdictIsEarned ==
  /\ baseline.check = "REDIRECT_TOPOLOGY" /\ Decided =>
       \E i \in 1..Len(Starts) : /\ Starts[i] = baseline.target /\ truth.finals[i] /= NoUrl
                                 /\ (Verdict = "HEALTHY") <=> (truth.finals[i] = baseline.policy.final)
  /\ baseline.check = "HOMEPAGE_INDEXABILITY" /\ Decided =>
       (Verdict = "HEALTHY") <=>
         (baseline.policy.indexable <=> (truth.page.tags \union truth.page.hidden) \intersect {"noindex", "none"} = {})

(* A scan decides a baseline only on evidence that says so of the world, but *)
(* for truncated responses, and never on a snapshot that is not complete:    *)
(* not after a rule threw, a query failed, a walk broke off or a page was    *)
(* cut.  And what the probes write, the evaluation can read.                 *)
VerdictsAreEarned ==
  /\ Decided => snapshot.state = "complete"
  /\ Verdict /= "MALFORMED"
  /\ SpfVerdictIsEarned
  /\ WebVerdictIsEarned

(* Finalizing a snapshot again, later, never turns a fault into health: the  *)
(* evidence only gets older, until it decides nothing and stays that way.    *)
AgeingNeverHeals ==
  [][/\ Verdict = "FAULTY" => Verdict' \in {"FAULTY", "STALE"}
     /\ Verdict = "STALE" => Verdict' = "STALE"]_vars

(* Whenever two vantages gave different answers to a query, and neither of   *)
(* the two mismatch rules threw, one of them says so.                        *)
DisagreementIsReported ==
  snapshot.state /= Absent /\ broken \intersect {"dns.auth-mismatch.v1", "dns.recursive-auth-mismatch.v1"} = {} =>
    \A q \in ToSet(plan) : \A o, p \in Answered(q) :
      ToSet(o.answers) /= ToSet(p.answers) =>
        \E f \in snapshot.findings : f.type \in {"dns.authoritative-mismatch", "dns.recursive-authoritative-mismatch"}

(* The findings that say a record is missing, the query it would answer, and *)
(* the text it would have.                                                   *)
AbsenceFindings == {
  <<"mail.no-mx-record", <<"@", "MX">>, "mx">>, <<"mail.no-spf-record", <<"@", "TXT">>, "v=spf1">>,
  <<"mail.no-dmarc-record", <<"_dmarc", "TXT">>, "v=DMARC1">>, <<"mail.no-mta-sts", <<"_mta-sts", "TXT">>, "v=STSv1">>,
  <<"mail.no-tls-rpt", <<"_smtp._tls", "TXT">>, "v=TLSRPTv1">>}

(* A finding that a mail record is missing is never given while any vantage  *)
(* has that record in a whole response, whatever the others said or failed   *)
(* to say; and for MX and SPF it is not given when every vantage failed,     *)
(* unless a response was truncated.                                          *)
AbsenceIsUnanswered ==
  \A f \in snapshot.findings : \A a \in AbsenceFindings :
    f.type = a[1] =>
      /\ \A o \in Holders(a[2], a[3]) : ~IsWhole(o)
      /\ a[1] \in {"mail.no-mx-record", "mail.no-spf-record"} /\ Observations(evidence, a[2]) /= <<>> =>
           \E o \in ToSet(Observations(evidence, a[2])) : IsConclusive(o) \/ o.truncated

(* Without the exception: what is said to be missing is in no response.  It  *)
(* does not hold, although result states are to handle "truncation"          *)
(* explicitly (plans/IMPLEMENTATION_BEADS): a truncated response makes a     *)
(* snapshot complete, the rules leave its records out, and report a certain  *)
(* absence, on which an SPF baseline is FAULTY.                              *)
AbsenceIsReal ==
  \A f \in snapshot.findings : \A a \in AbsenceFindings : f.type = a[1] => Holders(a[2], a[3]) = {}

(* The CNAME rule reports a name that "has a CNAME record coexisting with"   *)
(* others only where an answer has a CNAME record.  It does not: the record  *)
(* set of a CNAME query that found nothing counts.                           *)
CnameConflictHasACname ==
  (\E f \in snapshot.findings : f.type = "dns.cname-coexistence-conflict") =>
    \E q \in ToSet(plan) : q[2] = "CNAME" /\ Answered(q) /= {}

(* That "a failed query becomes absence rather than UNKNOWN" (phase-0-1/04-  *)
(* review-gates) must not be; of DMARC, MTA-STS and TLS-RPT rules it is so.  *)
FailureIsNotAbsence ==
  \A f \in snapshot.findings : \A a \in AbsenceFindings :
    f.type = a[1] /\ Observations(evidence, a[2]) /= <<>> => \E o \in ToSet(evidence[a[2]]) : IsConclusive(o)
==============================================================================
