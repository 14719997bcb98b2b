----------------------------- MODULE Collection ------------------------------
(* One collection of a domain and what may be done with it afterwards.       *)
(* DNSCollector.collect (apps/collector/src/dns/collector.ts) asks a public  *)
(* resolver and, for a managed zone, the authoritative servers; it follows   *)
(* the aliases of the MTA-STS owner, gives the snapshot its result state and *)
(* stores one record set per owner and type.  Later the probe routes walk    *)
(* the same aliases through the stored record sets                           *)
(* (probes/persisted-dns-authorization.ts) before they open a socket.        *)
EXTENDS Integers, FiniteSets

CONSTANTS
  Owners,      \* DNS names
  Start,       \* the owner _mta-sts.<domain>
  Zones,       \* functions from owners to their alias, or to End
  Servers,     \* the authoritative servers that discovery finds
  MaxHops      \* MAX_DNS_CNAME_HOPS

End == -1
Managements == {"managed", "unmanaged", "unknown"}
Types == {"CNAME", "TXT"}
Recursive == "8.8.8.8"

ASSUME CollectionAssumption ==
  /\ Start \in Owners /\ End \notin Owners /\ MaxHops \in Nat
  /\ Zones \subseteq [Owners -> Owners \union {End}]
  /\ Recursive \notin Servers

VARIABLES
  alias,     \* the zone that the public resolver sees
  servers,   \* what each authoritative server says of Start
  broken,    \* queries to the public resolver that time out
  managed,   \* the zone management of the domain
  phase,     \* initial, walking, stored, authorizing, decided
  results,   \* the results of all queries
  queried, pending, hop,          \* the walk of the collector
  snapshot,  \* [state, coverage]
  at, visited, hops, verdict      \* the walk of the authorization

world == <<alias, servers, broken, managed>>
walk == <<queried, pending, hop>>
authorization == <<at, visited, hops, verdict>>
vars == <<world, phase, results, walk, snapshot, authorization>>

(* An authoritative server answers with the AA flag or without it, with the  *)
(* alias or another one, times out, or its name does not resolve.            *)
ServerAnswers(zone) ==
  {[outcome |-> "answer", aa |-> aa, target |-> t] : aa \in BOOLEAN, t \in {zone[Start], End}}
    \union {[outcome |-> o, aa |-> FALSE, target |-> End] : o \in {"timeout", "ENOTFOUND"}}

Init ==
  /\ alias \in Zones
  /\ servers \in [Servers -> ServerAnswers(alias)]
  /\ broken \in {{}} \union {{q} : q \in Owners \X Types}
  /\ managed \in Managements
  /\ phase = "initial" /\ results = {}
  /\ queried = {} /\ pending = {} /\ hop = 0
  /\ snapshot = [state |-> "none", coverage |-> "none"]
  /\ at = Start /\ visited = {} /\ hops = 0 /\ verdict = "none"

------------------------------------------------------------------------------
(* DNSResolver.query: a response, or errorResult with the code it derives    *)
(* from the message of the error.  The text of a TXT answer is whatever      *)
(* distinguishes it: the vantage's view of the alias stands for it.          *)
Result(owner, type, vantage, outcome, target, aa) ==
  [owner |-> owner, type |-> type, vantage |-> vantage, aa |-> aa,
   success |-> outcome = "answer",
   rcode |-> IF outcome = "answer" THEN "NOERROR" ELSE IF outcome = "ENOTFOUND" THEN "NXDOMAIN" ELSE "SERVFAIL",
   timedOut |-> outcome = "timeout",
   answers |-> IF outcome /= "answer" \/ (type = "CNAME" /\ target = End) THEN {} ELSE {target}]

FromResolver(owner, type) ==
  Result(owner, type, Recursive, IF <<owner, type>> \in broken THEN "timeout" ELSE "answer", alias[owner], FALSE)
FromServer(server, type) ==
  Result(Start, type, server, servers[server].outcome, servers[server].target, servers[server].aa)

IsConclusive(r) == r.success \/ r.rcode = "NXDOMAIN"

(* determineStatus of what the collector stores: the code decides.           *)
Status(r) ==
  CASE r.success -> IF r.answers = {} THEN "nodata" ELSE "success"
    [] ~r.success /\ r.rcode = "NXDOMAIN" -> "nxdomain"
    [] OTHER -> "error"

(* extractMtaStsCnameTargets.                                                *)
Targets(rs, owners) == UNION {r.answers : r \in {x \in rs : x.type = "CNAME" /\ x.success /\ x.owner \in owners}}

Queries(owners) == {FromResolver(o, t) : o \in owners, t \in Types}

CollectInitial ==
  /\ phase = "initial"
  /\ results' = Queries({Start})
       \union (IF managed = "managed" THEN {FromServer(s, t) : s \in Servers, t \in Types} ELSE {})
  /\ queried' = {Start}
  /\ pending' = Targets(results', {Start})
  /\ hop' = 1
  /\ phase' = "walking"
  /\ UNCHANGED <<world, snapshot, authorization>>

(* Variant: the last hop is left out.                                        *)
FollowsShort == hop < MaxHops /\ pending \ queried /= {}

(* The condition of the loop and its early end.                              *)
Follows == hop <= MaxHops /\ pending \ queried /= {}

FollowAliases ==
  LET owners == pending \ queried
  IN /\ phase = "walking" /\ Follows
     /\ results' = results \union Queries(owners)
     /\ queried' = queried \union owners
     /\ pending' = Targets(Queries(owners), owners)
     /\ hop' = hop + 1
     /\ UNCHANGED <<world, phase, snapshot, authorization>>

------------------------------------------------------------------------------
Authoritative(rs) == {r \in rs : r.vantage \in Servers}

(* Variant: a single conclusive result is enough.                            *)
SomeConclusive(rs) == \E r \in rs : IsConclusive(r)

AllConclusive(rs) == \A r \in rs : IsConclusive(r)

LacksAuthoritativeProof(rs) ==
  Authoritative(rs) = {} \/ \E r \in Authoritative(rs) : r.success /\ ~r.aa

(* calculateResultState.                                                     *)
ResultState(rs) ==
  CASE rs = {} -> "failed"
    [] rs /= {} /\ managed = "managed" /\ LacksAuthoritativeProof(rs) -> "partial"
    [] rs /= {} /\ ~(managed = "managed" /\ LacksAuthoritativeProof(rs)) /\ AllConclusive(rs)
         -> IF managed = "unmanaged" THEN "partial" ELSE "complete"
    [] OTHER -> IF \E r \in rs : IsConclusive(r) THEN "partial" ELSE "failed"

(* getAuthoritativeEvidenceCoverage.                                         *)
EvidenceCoverage(rs) ==
  CASE managed /= "managed" -> "NOT_REQUESTED"
    [] managed = "managed" /\ Authoritative(rs) /= {} /\ (\A r \in Authoritative(rs) : r.success /\ r.aa) -> "VERIFIED"
    [] OTHER -> "UNKNOWN"

Store ==
  /\ phase = "walking" /\ ~Follows
  /\ snapshot' = [state |-> ResultState(results), coverage |-> EvidenceCoverage(results)]
  /\ phase' = "stored"
  /\ UNCHANGED <<world, results, walk, authorization>>

------------------------------------------------------------------------------
(* observationsToRecordSets: one record set for the results of an owner and  *)
(* a type.                                                                   *)
Sources(owner, type) == {r \in results : r.owner = owner /\ r.type = type}
Values(owner, type) == UNION {r.answers : r \in {x \in Sources(owner, type) : Status(x) = "success"}}

(* Variant: a failed vantage does not make a record set inconsistent.        *)
ConsistentValues(owner, type) ==
  \A x, y \in {r \in Sources(owner, type) : Status(r) = "success"} : x.answers = y.answers

Consistent(owner, type) ==
  /\ \A r \in Sources(owner, type) : Status(r) = "success"
  /\ \A x, y \in Sources(owner, type) : x.answers = y.answers

(* loadRelevantObservations refuses a source for its status or its flags.    *)
Trusted(r, allowNoAnswers) ==
  /\ Status(r) = "success" \/ (allowNoAnswers /\ Status(r) = "nodata")
  /\ r.vantage \in Servers => r.aa

Decide(v) == phase' = "decided" /\ verdict' = v /\ UNCHANGED <<at, visited, hops>>

(* loadTrustedSnapshot.                                                      *)
BeginAuthorization ==
  /\ phase = "stored"
  /\ \/ /\ snapshot.state = "complete"
        /\ phase' = "authorizing" /\ UNCHANGED authorization
     \/ /\ snapshot.state /= "complete"
        /\ Decide("incomplete-snapshot")
  /\ UNCHANGED <<world, results, walk, snapshot>>

(* The end of the aliases: the TXT record set of the canonical owner.        *)
AtTerminal ==
  \/ /\ Sources(at, "TXT") = {} /\ Decide("missing-record-set")
  \/ /\ Sources(at, "TXT") /= {} /\ ~Consistent(at, "TXT") /\ Decide("inconsistent-record-set")
  \/ /\ Sources(at, "TXT") /= {} /\ Consistent(at, "TXT")
     /\ \/ (\A r \in Sources(at, "TXT") : Trusted(r, FALSE)) /\ Decide("ok")
        \/ (\E r \in Sources(at, "TXT") : ~Trusted(r, FALSE)) /\ Decide("untrusted")

(* One turn of the loop of loadPersistedCnameChain.                          *)
IsTerminal ==
  Values(at, "CNAME") = {} /\ \A r \in Sources(at, "CNAME") : Trusted(r, TRUE)

Refusal ==
  CASE \E r \in Sources(at, "CNAME") : ~Trusted(r, TRUE) -> "untrusted"
    [] (\A r \in Sources(at, "CNAME") : Trusted(r, TRUE)) /\ hops >= MaxHops -> "cname-chain-hop-limit"
    [] OTHER -> "inconsistent-cname-record-set"

Walks ==
  /\ \A r \in Sources(at, "CNAME") : Trusted(r, TRUE)
  /\ hops < MaxHops
  /\ Consistent(at, "CNAME") /\ Cardinality(Values(at, "CNAME")) = 1

VisitOwner ==
  /\ phase = "authorizing"
  /\ \/ IsTerminal /\ AtTerminal
     \/ ~IsTerminal /\ ~Walks /\ Decide(Refusal)
     \/ /\ ~IsTerminal /\ Walks
        /\ LET target == CHOOSE t \in Values(at, "CNAME") : TRUE
           IN IF target \in visited \union {at} THEN Decide("cname-chain-loop")
              ELSE /\ at' = target /\ visited' = visited \union {at} /\ hops' = hops + 1
                   /\ UNCHANGED <<phase, verdict>>
  /\ UNCHANGED <<world, results, walk, snapshot>>

Next == CollectInitial \/ FollowAliases \/ Store \/ BeginAuthorization \/ VisitOwner
Spec == Init /\ [][Next]_vars

------------------------------------------------------------------------------
(* The owner that n aliases lead to, End behind the last one.                *)
Nth[n \in 0..(MaxHops + 1)] ==
  IF n = 0 THEN Start ELSE IF Nth[n - 1] \in Owners THEN alias[Nth[n - 1]] ELSE End

ServersAgree == \A s \in Servers : servers[s] = [outcome |-> "answer", aa |-> TRUE, target |-> alias[Start]]

(* The types of the walk: nothing is queried twice and only known owners.    *)
TypeOK ==
  /\ phase \in {"initial", "walking", "stored", "authorizing", "decided"}
  /\ queried \subseteq Owners /\ pending \subseteq Owners /\ hop \in 0..(MaxHops + 1)
  /\ \A r \in results : r.owner \in queried /\ r.answers \subseteq Owners \union {End}
  /\ at \in Owners /\ visited \subseteq Owners /\ hops = Cardinality(visited) /\ hops <= MaxHops

(* A socket is opened only for an owner that is the real end of the aliases, *)
(* reached within the bound, and only when every server that was asked       *)
(* proved the same first alias.                                              *)
AuthorizedTerminalIsReal ==
  verdict = "ok" =>
    /\ alias[at] = End /\ \E n \in 0..MaxHops : Nth[n] = at
    /\ managed = "managed" => ServersAgree

(* The collector and the authorization count hops the same way: aliases that *)
(* end within the bound, without a failure, are collected to their end and   *)
(* authorized, up to and with the last hop.                                  *)
ShortChainsAreAuthorized ==
  (/\ phase = "decided" /\ broken = {}
   /\ managed = "managed" => Servers /= {} /\ ServersAgree
   /\ managed /= "unmanaged"
   /\ \E n \in 0..MaxHops : Nth[n] /= End /\ Nth[n + 1] = End)
    => verdict = "ok"

(* A complete snapshot holds a conclusive answer for every owner on the way, *)
(* as far as the bound: the evaluations take a missing one for an absence.   *)
CompleteMeansAnswered ==
  snapshot.state = "complete" =>
    \A n \in 0..MaxHops, t \in Types : Nth[n] /= End =>
      \E r \in results : r.owner = Nth[n] /\ r.type = t /\ r.vantage = Recursive /\ IsConclusive(r)

(* A managed zone is complete only when every direct nameserver response     *)
(* proves that it is authoritative.                                          *)
CompleteIsVerified == managed = "managed" /\ snapshot.state = "complete" => snapshot.coverage = "VERIFIED"

(* A query that timed out is stored as a timeout, which the rules report     *)
(* with a severity of its own.                                               *)
TimeoutsAreStored == \A r \in results : r.timedOut => Status(r) = "timeout"
==============================================================================
