------------------------------ MODULE RecordSets ------------------------------
(* What a snapshot keeps of its queries, and the rules that read it.  A      *)
(* query is a pair <<owner, type>>; evidence maps each query to the sequence *)
(* of its observations, one per vantage, in the order of collection.  An     *)
(* observation is [vantage, status, responseCode, truncated, answers] and    *)
(* its answers are a sequence of values of the type that was asked           *)
(* (resolver.ts keeps no others).                                            *)
EXTENDS Integers, FiniteSets, SequencesExt

Recursive == "8.8.8.8"

Statuses == {"success", "nodata", "nxdomain", "refused", "error", "timeout", "truncated"}

(* A response is [rcode, tc, answers]; SERVFAIL stands for every other code. *)
(* A query that got no response is given one of the codes of errors.         *)
Rcodes == {"NOERROR", "NXDOMAIN", "REFUSED", "SERVFAIL"}
RcodeToStatus == [NOERROR |-> "success", NXDOMAIN |-> "nxdomain", REFUSED |-> "refused", SERVFAIL |-> "error"]

(* The TC flag goes first, whatever the code and the answers.                *)
DetermineStatus(r) ==
  CASE r.tc -> "truncated"
    [] ~r.tc /\ r.rcode = "NOERROR" /\ r.answers = <<>> -> "nodata"
    [] OTHER -> RcodeToStatus[r.rcode]

(* What is stored of the response of a vantage.                              *)
Observed(vantage, r) ==
  [vantage |-> vantage, status |-> DetermineStatus(r), responseCode |-> r.rcode, truncated |-> r.tc, answers |-> r.answers]

(* What the rules count as failed.  A truncated answer is neither a success  *)
(* to them nor a failure.                                                    *)
Failed == {"timeout", "error", "refused"}

(* The filters of the rules, by position.                                    *)
Successes(os) == {i \in DOMAIN os : os[i].status = "success"}
Failures(os) == {i \in DOMAIN os : os[i].status \in Failed}
OfServers(os) == {i \in DOMAIN os : os[i].vantage /= Recursive}
OfResolver(os) == {i \in DOMAIN os : os[i].vantage = Recursive}
Observations(evidence, q) == IF q \in DOMAIN evidence THEN evidence[q] ELSE <<>>

(* extractUniqueValues; extractValues without the owner, which is the name   *)
(* that was asked in everything modelled here.                               *)
ValuesOf(os, group) == UNION {ToSet(os[i].answers) : i \in group \intersect Successes(os)}
Values(os) == ValuesOf(os, DOMAIN os)

(* isConclusiveDnsResult: success is NOERROR, and the TC flag is not read.   *)
IsConclusive(o) == o.responseCode \in {"NOERROR", "NXDOMAIN"}

(* The vantages agree and none failed: here whatever is not a success, as    *)
(* NODATA, NXDOMAIN and a truncated answer are not, counts as failed.        *)
IsConsistent(os) ==
  /\ \A i, j \in Successes(os) : ToSet(os[i].answers) = ToSet(os[j].answers)
  /\ Successes(os) = DOMAIN os

(* observationsToRecordSets makes one record set per query that was asked,   *)
(* with no values when no vantage had an answer.                             *)
HasRecordSet(evidence, q) == Observations(evidence, q) /= <<>>
RecordSets(evidence) ==
  [q \in {r \in DOMAIN evidence : HasRecordSet(evidence, r)} |->
     [values |-> Values(evidence[q]), isConsistent |-> IsConsistent(evidence[q])]]

------------------------------------------------------------------------------
(* What a rule returns: no finding, or one.                                  *)
None == {}
Finding(rule, type, severity, confidence, reviewOnly) ==
  {[rule |-> rule, type |-> type, severity |-> severity, confidence |-> confidence, reviewOnly |-> reviewOnly]}

InferBlastRadius(zone, type) ==
  IF zone = "managed" /\ type \in {"NS", "SOA"} THEN "subdomain-tree" ELSE "single-domain"

IsReviewOnly(severity, blastRadius, confidence) ==
  \/ severity \in {"critical", "high"}
  \/ blastRadius \in {"related-domains", "infrastructure", "organization-wide"}
  \/ confidence \in {"low", "heuristic"}
==============================================================================
