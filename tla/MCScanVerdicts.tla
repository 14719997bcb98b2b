---------------------------- MODULE MCScanVerdicts ----------------------------
(* One scene per rule pack and per probe: a plan of one or two queries, with *)
(* every mix of responses from the resolver and two servers, whole ones and  *)
(* truncated ones, or a trivial plan and every walk or handshake.            *)
EXTENDS ScanVerdicts

SpfText(first, mechanisms, redirects) ==
  [marker |-> "v=spf1", first |-> first, mechanisms |-> mechanisms, redirects |-> redirects]
All(prefix) == [type |-> "all", prefix |-> prefix, hasValue |-> FALSE]
Include(hasValue) == [type |-> "include", prefix |-> "+", hasValue |-> hasValue]
Dmarc1(p, rua) == [marker |-> "v=DMARC1", first |-> TRUE, p |-> p, policiesValid |-> TRUE, validRua |-> rua, rua |-> rua]
Mark(m) == [marker |-> m]
Mx1(null) == [marker |-> "mx", null |-> null]
Key(valid) == [marker |-> "v=DKIM1", key |-> valid]
Address(n) == [marker |-> "A", value |-> n]

Whole(rcode, answers) == [rcode |-> rcode, tc |-> FALSE, answers |-> answers]
Cut(rcode, answers) == [rcode |-> rcode, tc |-> TRUE, answers |-> answers]

Contents(q) ==
  CASE q = <<"@", "TXT">> -> {<<SpfText(TRUE, <<Include(TRUE), All("-")>>, <<>>)>>, <<Mark("other"), SpfText(FALSE, <<>>, <<>>)>>,
                              <<SpfText(TRUE, <<All("+")>>, <<FALSE>>)>>, <<Mark("other")>>}
    [] q = <<"@", "MX">> -> {<<Mx1(FALSE)>>, <<Mx1(TRUE)>>}
    [] q = <<"_dmarc", "TXT">> -> {<<Dmarc1("reject", FALSE)>>, <<Dmarc1("unknown", FALSE)>>, <<Mark("other")>>}
    [] q = <<"s1._domainkey", "TXT">> -> {<<Key(TRUE)>>, <<Key(FALSE), Key(TRUE)>>, <<Mark("other")>>}
    [] q = <<"_mta-sts", "TXT">> -> {<<Mark("v=STSv1")>>, <<Mark("other")>>}
    [] q = <<"_smtp._tls", "TXT">> -> {<<Mark("v=TLSRPTv1")>>, <<Mark("other")>>}
    [] q = <<"@", "CNAME">> -> {<<Mark("alias")>>}
    [] OTHER -> {<<Address(1)>>, <<Address(2)>>, <<Address(1), Address(2)>>}
Truncated(q) == IF q[2] \in {"NS", "CNAME"} THEN {Cut("NOERROR", <<>>)}
                ELSE {Cut("NOERROR", c) : c \in Contents(q)} \union {Cut("SERVFAIL", <<>>)}
MCAnswers(q) == IF q = <<"@", "SOA">> THEN {Whole("NOERROR", <<Mark("soa")>>)}
                ELSE {Whole("NOERROR", c) : c \in Contents(q)} \union {Whole(r, <<>>) : r \in Rcodes} \union Truncated(q)

NoBaseline == [check |-> Absent, target |-> NoUrl, policy |-> [kind |-> Absent], maxAge |-> 0]
SpfBaseline == [NoBaseline EXCEPT !.check = "SPF"]
TlsBaseline == [check |-> "TLS_CERTIFICATE", target |-> 1, maxAge |-> 2,
                policy |-> [hostname |-> TRUE, chain |-> FALSE, remaining |-> 2]]
WebBaselines ==
  {[check |-> "REDIRECT_TOPOLOGY", target |-> t, policy |-> [final |-> 2], maxAge |-> 1] : t \in {1, 2}} \union
  {[check |-> "HOMEPAGE_INDEXABILITY", target |-> 2, policy |-> [indexable |-> i], maxAge |-> 1] : i \in BOOLEAN}

Zones == {"managed", "unmanaged", "unknown"}
Throwing == {{}, {"mail.spf-analysis.v1"}, {"dns.auth-failure.v1"}}
SinglePlans == {<<q>> : q \in {<<"@", "MX">>, <<"_dmarc", "TXT">>, <<"s1._domainkey", "TXT">>, <<"_mta-sts", "TXT">>,
                                <<"_smtp._tls", "TXT">>, <<"@", "A">>}}
PairPlans == {<<<<"@", "NS">>, <<"@", "CNAME">>>>}
Of(zones, plans, baselines, thrown) ==
  [zone : zones, plan : plans, baseline : baselines, broken : thrown]
MCDomains ==
  Of(Zones, {<<<<"@", "TXT">>>>}, {SpfBaseline}, Throwing)
    \union Of({"managed", "unknown"}, SinglePlans \union PairPlans, {NoBaseline}, {{}})
    \union Of(Zones, {<<<<"@", "SOA">>>>}, {TlsBaseline}, {{}})
    \union Of({"managed"}, {<<<<"@", "SOA">>>>}, WebBaselines, {{}})

MCServers == <<"ns1", "ns2">>
MCCertificates == [hostname : BOOLEAN, chain : {FALSE}, canonical : BOOLEAN, validTo : 0..4]
MCUrls == 1..3
MCStarts == <<1, 2>>
MCPages == {NoPage} \union [html : {TRUE}, tags : {{}, {"noindex"}}, hidden : {{}, {"nofollow"}, {"noindex"}}]
==============================================================================
