------------------------- MODULE ConditionEvaluation --------------------------
(* evaluateOperationalConditions of the collector                            *)
(* (jobs/operational-condition-evaluation.ts): what a finished snapshot says *)
(* of each accepted baseline.  Only HEALTHY and FAULTY say anything; every   *)
(* other outcome asks for a fresh scan.  A probe row is                      *)
(* [check, target, success, status, wellFormed, probedAt, evidence]; urls    *)
(* and instants are small numbers, one unit being the coarsest step that the *)
(* comparisons tell apart.                                                   *)
EXTENDS Integers, SequencesExt

Absent == "absent"

(* matchingTlsProbe, matchingHttpProbe: the first row of the check and the   *)
(* target.  A row without evidence names no target.                          *)
Matches(p, b) == p.check = b.check /\ p.status = "OBSERVED" /\ p.target = b.target
Matching(probes, b) == {i \in DOMAIN probes : Matches(probes[i], b)}

(* parseTlsEvidence: validTo must be a canonical instant.                    *)
TlsStatus(p) ==
  CASE ~p.success -> "UNKNOWN"
    [] p.success /\ ~p.wellFormed -> "MALFORMED"
    [] p.success /\ p.wellFormed /\ ~p.evidence.canonical -> "UNKNOWN"
    [] OTHER -> "conclusive"

TlsFaulty(p, policy, now) ==
  \/ policy.hostname /\ ~p.evidence.hostname
  \/ policy.chain /\ ~p.evidence.chain
  \/ p.evidence.validTo - now < policy.remaining

(* parseRedirectEvidence: hops are [url, status, location], and each but the *)
(* last must lead to the next.                                               *)
IsRedirect(status) == status \in 300..399

Linked(e) ==
  /\ Head(e.hops).url = e.start /\ Last(e.hops).url = e.final
  /\ ~IsRedirect(Last(e.hops).status)
  /\ \A i \in 1..(Len(e.hops) - 1) : IsRedirect(e.hops[i].status) /\ e.hops[i].location = e.hops[i + 1].url

RedirectStatus(p) ==
  CASE ~p.success -> "UNKNOWN"
    [] p.success /\ ~p.wellFormed -> "MALFORMED"
    [] p.success /\ p.wellFormed /\ (p.evidence.truncated \/ p.evidence.hops = <<>>) -> "TRUNCATED"
    [] OTHER -> IF Linked(p.evidence) THEN "conclusive" ELSE "MALFORMED"

RedirectFaulty(p, policy) == p.evidence.final /= policy.final

(* parseIndexabilityEvidence: a noindex that was seen decides, even in a     *)
(* body that was cut off; its absence does not.                              *)
Noindex(e) == e.tags \intersect {"noindex", "none"} /= {}

(* Variant: a body that was cut off is read as if it were whole.             *)
IndexabilityStatusOfCut(p) ==
  CASE ~p.success -> "UNKNOWN"
    [] p.success /\ ~p.wellFormed -> "MALFORMED"
    [] p.success /\ p.wellFormed /\ p.evidence.response \notin 200..299 -> "UNKNOWN"
    [] OTHER -> "conclusive"

IndexabilityStatus(p) ==
  CASE ~p.success -> "UNKNOWN"
    [] p.success /\ ~p.wellFormed -> "MALFORMED"
    [] p.success /\ p.wellFormed /\ p.evidence.response \notin 200..299 -> "UNKNOWN"
    [] OTHER -> IF p.evidence.truncated /\ ~Noindex(p.evidence) THEN "TRUNCATED" ELSE "conclusive"

IndexabilityFaulty(p, policy) == IF policy.indexable THEN Noindex(p.evidence) ELSE ~Noindex(p.evidence)

------------------------------------------------------------------------------
Status(p) ==
  CASE p.check = "TLS_CERTIFICATE" -> TlsStatus(p)
    [] p.check = "REDIRECT_TOPOLOGY" -> RedirectStatus(p)
    [] OTHER -> IndexabilityStatus(p)

Faulty(p, b, now) ==
  CASE b.check = "TLS_CERTIFICATE" -> TlsFaulty(p, b.policy, now)
    [] b.check = "REDIRECT_TOPOLOGY" -> RedirectFaulty(p, b.policy)
    [] OTHER -> IndexabilityFaulty(p, b.policy)

Sound(faulty) == IF faulty THEN "FAULTY" ELSE "HEALTHY"

(* Variant: a row that is too old is read as health.                         *)
ProbeOutcomeSticky(b, probes, now) ==
  IF Matching(probes, b) = {} THEN "UNKNOWN"
  ELSE LET p == probes[Min(Matching(probes, b))]
       IN CASE p.probedAt <= now /\ now - p.probedAt > b.maxAge -> "HEALTHY"
            [] p.probedAt <= now /\ now - p.probedAt <= b.maxAge /\ Status(p) /= "conclusive" -> Status(p)
            [] p.probedAt <= now /\ now - p.probedAt <= b.maxAge /\ Status(p) = "conclusive" -> Sound(Faulty(p, b, now))
            [] OTHER -> "UNKNOWN"

(* The order of the tests is the code's: a row from the future, an old row,  *)
(* an unusable row, and only then the policy.                                *)
ProbeOutcome(b, probes, now) ==
  IF Matching(probes, b) = {} THEN "UNKNOWN"
  ELSE LET p == probes[Min(Matching(probes, b))]
       IN CASE p.probedAt > now -> "UNKNOWN"
            [] p.probedAt <= now /\ now - p.probedAt > b.maxAge -> "STALE"
            [] p.probedAt <= now /\ now - p.probedAt <= b.maxAge /\ Status(p) /= "conclusive" -> Status(p)
            [] OTHER -> Sound(Faulty(p, b, now))

(* The findings are those of this snapshot and of its ruleset version, which *)
(* is set when the coverage is complete.                                     *)
MailOutcome(snapshot) ==
  IF snapshot.coverage /= "COMPLETE" THEN "UNKNOWN"
  ELSE Sound(\E f \in snapshot.findings : f.type = "mail.no-spf-record" /\ ~f.reviewOnly)

(* Absent: a snapshot that is not complete evaluates no condition.           *)
Outcome(b, snapshot, probes, now) ==
  CASE snapshot.state /= "complete" -> Absent
    [] snapshot.state = "complete" /\ b.check = "SPF" -> MailOutcome(snapshot)
    [] OTHER -> ProbeOutcome(b, probes, now)
==============================================================================
