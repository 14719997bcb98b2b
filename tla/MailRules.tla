------------------------------- MODULE MailRules ------------------------------
(* The mail rules (packages/rules/src/mail/rules.ts) and the parsers they    *)
(* use (packages/parsing/src/mail).  A TXT value is a record: marker is the  *)
(* version text it contains, and the other fields are what the parsers see.  *)
(* An MX value has the marker "mx", and null says whether it is "0 .".       *)
EXTENDS RecordSets

(* The answers with a version text, the observations that have one, and the  *)
(* first such text, in the order of the observations.                        *)
Marked(o, marker) == {k \in DOMAIN o.answers : o.answers[k].marker = marker}
Texts(os, marker) == {i \in Successes(os) : Marked(os[i], marker) /= {}}
FirstText(os, marker) ==
  LET o == os[Min(Texts(os, marker))] IN o.answers[Min(Marked(o, marker))]

------------------------------------------------------------------------------
Mx == "mail.mx-presence.v1"

(* Variant: failures count only when nothing else came back.                 *)
MxPresenceBlind(os) ==
  IF \E v \in Values(os) : v.null THEN Finding(Mx, "mail.null-mx-configured", "info", "certain", FALSE)
  ELSE IF Values(os) /= {} THEN Finding(Mx, "mail.mx-present", "info", "certain", FALSE)
  ELSE Finding(Mx, "mail.no-mx-record", "medium", "certain", FALSE)

MxPresence(os) ==
  IF \E v \in Values(os) : v.null THEN Finding(Mx, "mail.null-mx-configured", "info", "certain", FALSE)
  ELSE IF Values(os) /= {} THEN Finding(Mx, "mail.mx-present", "info", "certain", FALSE)
  ELSE IF Failures(os) /= {} /\ Successes(os) = {}
  THEN Finding(Mx, "mail.mx-query-failed", "medium", "low", TRUE)
  ELSE Finding(Mx, "mail.no-mx-record", "medium", "certain", FALSE)

------------------------------------------------------------------------------
(* parseSPF wants the version to come first; assessFirstLevelSpf looks at    *)
(* the mechanisms of the record itself.  A mechanism is [type, prefix,       *)
(* hasValue]; redirects is the sequence of the redirect modifiers, of which  *)
(* each says whether it has a value.                                         *)
Spf == "mail.spf-analysis.v1"
SpfMechanisms == {"all", "include", "a", "mx", "ptr", "ip4", "ip6", "exists"}

DirectlyInvalid(t) ==
  \/ \E m \in ToSet(t.mechanisms) : m.type \notin SpfMechanisms \/ (m.type = "include" /\ ~m.hasValue)
  \/ Len(t.redirects) > 1
  \/ \E r \in ToSet(t.redirects) : ~r

(* The severity of the issues: what "all" lets through, and whether the      *)
(* record names any sender.                                                  *)
SpfSeverity(t) ==
  LET all == SelectSeq(t.mechanisms, LAMBDA m : m.type = "all")
      prefix == IF all = <<>> THEN "absent" ELSE Head(all).prefix
      noSources == \A m \in ToSet(t.mechanisms) : m.type \notin {"include", "a", "mx", "ip4", "ip6"}
  IN CASE prefix = "+" -> "critical"
       [] prefix /= "+" /\ (prefix \in {"~", "?", "absent"} \/ noSources) -> "medium"
       [] OTHER -> "info"

SpfAnalysis(os) ==
  LET texts == Texts(os, "v=spf1")
      text == FirstText(os, "v=spf1")
  IN IF texts = {} /\ Failures(os) /= {} /\ Successes(os) = {}
     THEN Finding(Spf, "mail.spf-query-failed", "medium", "low", TRUE)
     ELSE IF texts = {} THEN Finding(Spf, "mail.no-spf-record", "high", "certain", FALSE)
     ELSE IF ~text.first \/ DirectlyInvalid(text) THEN Finding(Spf, "mail.spf-malformed", "critical", "certain", TRUE)
     ELSE Finding(Spf, "mail.spf-present", SpfSeverity(text), "certain", SpfSeverity(text) /= "info")

------------------------------------------------------------------------------
(* parseDMARC: a policy that is missing or invalid is read as "none" when    *)
(* the record has a usable report address, and makes it unreadable if not.   *)
Dmarc == "mail.dmarc-analysis.v1"
Unreadable == "unreadable"
DmarcPolicy(t) ==
  IF ~t.first THEN Unreadable
  ELSE IF t.p \in {"none", "quarantine", "reject"} /\ t.policiesValid THEN t.p
  ELSE IF t.validRua THEN "none" ELSE Unreadable

DmarcAnalysis(os) ==
  LET texts == Texts(os, "v=DMARC1")
      text == FirstText(os, "v=DMARC1")
      policy == DmarcPolicy(text)
      severity == CASE policy = "none" -> "medium"
                    [] policy /= "none" /\ ~text.rua -> "low"
                    [] OTHER -> "info"
  IN IF texts = {} THEN Finding(Dmarc, "mail.no-dmarc-record", "high", "certain", FALSE)
     ELSE IF policy = Unreadable THEN Finding(Dmarc, "mail.dmarc-malformed", "critical", "certain", TRUE)
     ELSE Finding(Dmarc, "mail.dmarc-present", severity, "certain", severity /= "info")

------------------------------------------------------------------------------
(* The rule takes every observation of a selector, and only its first text.  *)
Dkim == "mail.dkim-presence.v1"
ValidKey(o) == o.status = "success" /\ Head(o.answers).marker = "v=DKIM1" /\ Head(o.answers).key
DkimPresence(os) ==
  IF os = <<>> THEN Finding(Dkim, "mail.no-dkim-queried", "medium", "heuristic", FALSE)
  ELSE IF \A o \in ToSet(os) : ~ValidKey(o) THEN Finding(Dkim, "mail.dkim-no-valid-keys", "high", "certain", FALSE)
  ELSE Finding(Dkim, "mail.dkim-keys-present", "info", "certain", FALSE)

(* The three rules that look for a version text only.  BIMI is optional: its *)
(* absence is not reported.                                                  *)
MtaSts(os) ==
  IF Texts(os, "v=STSv1") = {} THEN Finding("mail.mta-sts-presence.v1", "mail.no-mta-sts", "low", "certain", FALSE)
  ELSE Finding("mail.mta-sts-presence.v1", "mail.mta-sts-present", "info", "certain", FALSE)
TlsRpt(os) ==
  IF Texts(os, "v=TLSRPTv1") = {} THEN Finding("mail.tls-rpt-presence.v1", "mail.no-tls-rpt", "low", "certain", FALSE)
  ELSE Finding("mail.tls-rpt-presence.v1", "mail.tls-rpt-present", "info", "certain", FALSE)
Bimi(os) ==
  IF Texts(os, "v=BIMI1") = {} THEN None
  ELSE Finding("mail.bimi-presence.v1", "mail.bimi-present", "info", "certain", FALSE)
==============================================================================
