------------------------- MODULE ProbeRequestsProofs -------------------------
(* For every number of requests, domains, hosts and permits: the probe routes*)
(* implement the semaphore and so keep its limit and its order, and no probe *)
(* opens a socket, and no allowlist entry is made, without persisted         *)
(* evidence behind it.                                                       *)
EXTENDS ProbeRequests, FiniteSetTheorems, SequenceTheorems, TLAPS

(* The hosts s follow each other in the targets of a domain: what a request  *)
(* has still to probe, and what it starts at once, never mixes domains.      *)
IsPart(T, s) == \E i \in 1..(Len(T) + 1), j \in 0..Len(T) : s = SubSeq(T, i, j)

TargetsOf(r) == Targets[request[r].domain]

(* What a request carries was read from a snapshot that is still there.      *)
RequestsCarryEvidence ==
  /\ \A d \in Domains : latest[d] # 0 => latest[d] \in persisted[d]
  /\ \A r \in Requests : request[r].phase # "idle" =>
       /\ request[r].expiresAt \in persisted[request[r].domain]
       /\ IsPart(TargetsOf(r), request[r].todo)
       /\ request[r].phase = "read" => request[r].todo # <<>>

(* A probe belongs to a request that is in progress and names the host.      *)
ProbesBelongToRequests ==
  \A r \in Requests, h \in Hosts : probe[<<r, h>>] # "none" =>
    request[r].phase = "probing" /\ h \in ToSet(TargetsOf(r))

IInv == TypeOK /\ RequestsCarryEvidence /\ ProbesBelongToRequests /\ EntriesComeFromEvidence

-----------------------------------------------------------------------------
LEMMA PartOfPart ==
  ASSUME NEW T \in Seq(Hosts), NEW s, IsPart(T, s),
         NEW m \in 1..(Len(s) + 1), NEW n \in 0..Len(s)
  PROVE  /\ s \in Seq(Hosts)
         /\ IsPart(T, SubSeq(s, m, n))
         /\ SubSeq(s, m, n) \in Seq(Hosts)
<1>1. PICK i \in 1..(Len(T) + 1), j \in 0..Len(T) : s = SubSeq(T, i, j)
  BY DEF IsPart
<1>2. Len(T) \in Nat /\ i \in Int /\ j \in Int
  BY LenProperties
<1>3. \A k \in i..j : T[k] \in Hosts
  BY <1>1, <1>2
<1>4. s \in Seq(Hosts) /\ Len(s) = IF i <= j THEN j - i + 1 ELSE 0
  BY <1>1, <1>2, <1>3, SubSeqProperties
<1>5. Len(s) \in Nat /\ m \in Int /\ n \in Int
  BY <1>4, LenProperties
<1>6. CASE n < m
  <2>1. SubSeq(s, m, n) = <<>> /\ SubSeq(T, 1, 0) = <<>>
    BY <1>5, <1>6, SubSeqEmpty
  <2>2. SubSeq(s, m, n) = SubSeq(T, 1, 0) /\ 1 \in 1..(Len(T) + 1) /\ 0 \in 0..Len(T)
    BY <1>2, <2>1
  <2>3. IsPart(T, SubSeq(s, m, n))
    BY <2>2 DEF IsPart
  <2> QED BY <1>4, <2>1, <2>3, EmptySeq
<1>7. CASE m <= n
  <2>1. i <= j /\ Len(s) = j - i + 1
    BY <1>2, <1>4, <1>5, <1>7
  <2>2. i \in 1..Len(T) /\ j \in 1..Len(T) /\ m \in 1..(j - i + 1) /\ n \in 1..(j - i + 1)
    BY <1>2, <1>5, <1>7, <2>1
  <2>3. SubSeq(s, m, n) = SubSeq(T, i + m - 1, i + n - 1)
    BY <1>1, <2>2, SubSeqOfSubSeq
  <2>4. i + m - 1 \in 1..(Len(T) + 1) /\ i + n - 1 \in 0..Len(T)
    BY <1>2, <2>2
  <2>5. IsPart(T, SubSeq(s, m, n))
    BY <2>3, <2>4 DEF IsPart
  <2>6. SubSeq(s, m, n) \in Seq(Hosts)
    <3>1. \A k \in m..n : s[k] \in Hosts
      BY <1>4, <1>5
    <3> QED BY <1>5, <3>1, SubSeqProperties
  <2> QED BY <1>4, <2>5, <2>6
<1> QED BY <1>5, <1>6, <1>7

LEMMA HostIsPart ==
  ASSUME NEW T \in Seq(Hosts), NEW s, IsPart(T, s), NEW h \in ToSet(s)
  PROVE  <<h>> \in Seq(Hosts) /\ IsPart(T, <<h>>)
<1>1. s \in Seq(Hosts)
  <2>1. PICK i \in 1..(Len(T) + 1), j \in 0..Len(T) : s = SubSeq(T, i, j)
    BY DEF IsPart
  <2>2. \A k \in i..j : T[k] \in Hosts
    BY LenProperties
  <2>3. i \in Int /\ j \in Int
    BY LenProperties
  <2> QED BY <2>1, <2>2, <2>3, SubSeqProperties
<1>2. PICK m \in 1..Len(s) : s[m] = h
  BY <1>1 DEF ToSet
<1>3. SubSeq(s, m, m) = <<h>> /\ h \in Hosts
  <2>1. h \in Hosts /\ m \in Int /\ \A k \in m..m : s[k] \in Hosts
    BY <1>1, <1>2
  <2>2. /\ SubSeq(s, m, m) \in Seq(Hosts)
        /\ Len(SubSeq(s, m, m)) = IF m <= m THEN m - m + 1 ELSE 0
        /\ \A k \in 1..(m - m + 1) : SubSeq(s, m, m)[k] = s[m + k - 1]
    BY <2>1, SubSeqProperties
  <2>3. Len(SubSeq(s, m, m)) = 1 /\ SubSeq(s, m, m)[1] = h
    BY <1>2, <2>1, <2>2
  <2>4. <<h>> \in Seq(Hosts) /\ Len(<<h>>) = 1 /\ <<h>>[1] = h
    BY <2>1
  <2> HIDE <2>1
  <2>5. \A k \in 1..Len(SubSeq(s, m, m)) : SubSeq(s, m, m)[k] = <<h>>[k]
    BY <2>3, <2>4
  <2>6. SubSeq(s, m, m) = <<h>>
    BY <2>2, <2>3, <2>4, <2>5, SeqEqual
  <2> QED BY <2>1, <2>6
<1>4. m \in 1..(Len(s) + 1) /\ m \in 0..Len(s)
  BY <1>1, <1>2
<1> QED BY <1>3, <1>4, PartOfPart

(* A batch is one of those the semaphore is specified for.                   *)
LEMMA BatchIsABatch ==
  ASSUME NEW r \in Requests, NEW d \in Domains, NEW hosts \in Seq(Hosts), hosts # <<>>,
         IsPart(Targets[d], hosts)
  PROVE  /\ BatchOf(r, hosts) \in Batches
         /\ BatchSize(hosts) \in 1..Len(hosts)
         /\ \A i \in 1..BatchSize(hosts) : hosts[i] \in ToSet(Targets[d])
<1> DEFINE T == Targets[d]
           n == BatchSize(hosts)
           first == SubSeq(hosts, 1, n)
<1>1. T \in Seq(Hosts) /\ Len(T) \in Nat /\ Len(hosts) \in Nat /\ Len(hosts) # 0
  BY TargetsAssumption, LenProperties, EmptySeq
<1>2. n \in 1..Len(hosts) /\ n \in Nat
  BY <1>1, TargetsAssumption DEF BatchSize
<1>3. PICK i \in 1..(Len(T) + 1), j \in 0..Len(T) : hosts = SubSeq(T, i, j)
  BY DEF IsPart
<1>4. \A k \in i..j : T[k] \in Hosts
  BY <1>1
<1>5. /\ Len(hosts) = IF i <= j THEN j - i + 1 ELSE 0
      /\ \A k \in 1..(j - i + 1) : hosts[k] = T[i + k - 1]
  BY <1>1, <1>3, <1>4, SubSeqProperties
<1>6. i <= j /\ Len(hosts) = j - i + 1 /\ i \in 1..Len(T) /\ i + n - 1 \in 1..Len(T)
  <2>1. /\ Len(hosts) = IF i <= j THEN j - i + 1 ELSE 0
        /\ Len(T) \in Nat /\ Len(hosts) # 0 /\ i \in Nat /\ j \in Nat /\ 1 <= i /\ j <= Len(T)
    BY <1>1, <1>5
  <2>2. i <= j /\ Len(hosts) = j - i + 1
    BY <2>1
  <2>3. n \in Nat /\ 1 <= n /\ n <= Len(hosts)
    BY <1>1, <1>2
  <2> HIDE DEF n, T
  <2> QED BY <2>1, <2>2, <2>3
<1>7. /\ Len(first) = n
      /\ \A k \in 1..n : first[k] = hosts[k]
      /\ first = SubSeq(T, i, i + n - 1)
  <2>1. 1 \in 1..(j - i + 1) /\ n \in 1..(j - i + 1) /\ j \in 1..Len(T)
    BY <1>1, <1>2, <1>6
  <2>2. first = SubSeq(T, i + 1 - 1, i + n - 1)
    BY <1>1, <1>3, <1>6, <2>1, SubSeqOfSubSeq
  <2>3. \A k \in 1..n : hosts[k] \in Hosts
    BY <1>1, <1>2
  <2>4. /\ Len(first) = IF 1 <= n THEN n - 1 + 1 ELSE 0
        /\ \A k \in 1..(n - 1 + 1) : first[k] = hosts[1 + k - 1]
    BY <1>2, <2>3, SubSeqProperties
  <2>5. i + 1 - 1 = i
    BY <1>1
  <2> HIDE DEF n, first
  <2>6. Len(first) = n /\ \A k \in 1..n : first[k] = hosts[k]
    <3>1. n - 1 + 1 = n /\ 1 <= n
      BY <1>2
    <3>2. \A k \in 1..n : 1 + k - 1 = k
      BY <1>2
    <3> QED BY <2>4, <3>1, <3>2
  <2> QED BY <2>2, <2>5, <2>6
<1>8. \A k \in 1..n : hosts[k] \in ToSet(T)
  <2> TAKE k \in 1..n
  <2>1. k \in 1..(j - i + 1) /\ hosts[k] = T[i + k - 1]
    BY <1>2, <1>5, <1>6
  <2>2. i + k - 1 \in 1..Len(T)
    <3>1. Len(T) \in Nat /\ i \in Nat /\ j \in Nat /\ 1 <= i /\ j <= Len(T)
      BY <1>1
    <3> HIDE DEF n, T
    <3> QED BY <2>1, <3>1
  <2>3. 1..Len(T) = DOMAIN T
    BY <1>1
  <2> HIDE DEF n, T
  <2> QED BY <2>1, <2>2, <2>3 DEF ToSet
<1>9. BatchOf(r, hosts) = [k \in 1..Len(first) |-> <<r, first[k]>>]
  BY <1>7 DEF BatchOf
<1> HIDE DEF first
<1>10. first \in {SubSeq(Targets[d], a, b) : a, b \in 1..Len(Targets[d])}
  <2>1. \E a, b \in 1..Len(Targets[d]) : first = SubSeq(Targets[d], a, b)
    BY <1>6, <1>7
  <2> QED BY <2>1
<1>11. BatchOf(r, hosts) \in Batches
  BY <1>9, <1>10 DEF Batches
<1> QED BY <1>2, <1>8, <1>11

-----------------------------------------------------------------------------
LEMMA InitHolds == Init => IInv
<1> SUFFICES ASSUME Init PROVE IInv
  OBVIOUS
<1>1. \A phase \in {"idle"} : NoRequest(phase).phase = phase /\ NoRequest(phase) \in
        [phase : {"idle", "read", "probing"}, domain : Domains, expiresAt : 0..MaxTime, todo : Seq(Hosts)]
  BY TargetsAssumption DEF NoRequest
<1>2. TypeOK
  BY <1>1, TargetsAssumption DEF Init, TypeOK
<1>3. RequestsCarryEvidence
  <2>1. \A r \in Requests : request[r].phase = "idle"
    BY <1>1 DEF Init
  <2> QED BY <2>1 DEF Init, RequestsCarryEvidence
<1>4. ProbesBelongToRequests
  <2>1. \A r \in Requests, h \in Hosts : <<r, h>> \in Tasks
    BY DEF Tasks
  <2> QED BY <2>1 DEF Init, ProbesBelongToRequests
<1> QED BY <1>2, <1>3, <1>4 DEF Init, IInv, EntriesComeFromEvidence

(* The entries that a request makes carry the expiry of its evidence.        *)
LEMMA EntriesAreEvidence ==
  ASSUME IInv, NEW r \in Requests, request[r].phase # "idle"
  PROVE  \A h \in Hosts : WithEntries(r)[h] # 0 =>
           \E d \in Domains : h \in ToSet(Targets[d]) /\ WithEntries(r)[h] \in persisted[d]
<1> SUFFICES ASSUME NEW h \in Hosts, WithEntries(r)[h] # 0
             PROVE  \E d \in Domains : h \in ToSet(Targets[d]) /\ WithEntries(r)[h] \in persisted[d]
  OBVIOUS
<1>1. request[r].domain \in Domains /\ request[r].expiresAt \in persisted[request[r].domain]
  BY DEF IInv, TypeOK, RequestsCarryEvidence
<1>2. CASE h \in ToSet(Targets[request[r].domain])
  BY <1>1, <1>2 DEF WithEntries, EntryExpiry
<1>3. CASE h \notin ToSet(Targets[request[r].domain])
  BY <1>3 DEF WithEntries, IInv, EntriesComeFromEvidence
<1> QED BY <1>2, <1>3

(* The requests and the entries depend on the evidence, the probes on the    *)
(* requests; a step that leaves one of these alone keeps what is said of it. *)
LEMMA EnterBatchKeeps ==
  ASSUME IInv, NEW r \in Requests, NEW hosts \in Seq(Hosts), hosts # <<>>,
         IsPart(TargetsOf(r), hosts),
         request[r].phase # "idle", Answered(r),
         EnterBatch(r, hosts), UNCHANGED <<now, persisted, latest>>,
         allowlist' \in {allowlist, WithEntries(r)}
  PROVE  IInv'
<1> USE DEF IInv
<1> DEFINE d == request[r].domain
           e == request[r].expiresAt
           rest == SubSeq(hosts, BatchSize(hosts) + 1, Len(hosts))
           new == [phase |-> "probing", domain |-> d, expiresAt |-> e, todo |-> rest]
<1>1. d \in Domains /\ e \in 0..MaxTime /\ Targets[d] \in Seq(Hosts)
  BY TargetsAssumption DEF TypeOK
<1>2. e \in persisted[d]
  BY DEF RequestsCarryEvidence
<1>3. /\ BatchSize(hosts) \in 1..Len(hosts)
      /\ \A i \in 1..BatchSize(hosts) : hosts[i] \in ToSet(Targets[d])
  BY <1>1, BatchIsABatch DEF TargetsOf
<1>4. rest \in Seq(Hosts) /\ IsPart(Targets[d], rest)
  <2>1. BatchSize(hosts) + 1 \in 1..(Len(hosts) + 1) /\ Len(hosts) \in 0..Len(hosts)
    BY <1>3, LenProperties
  <2> QED BY <1>1, <2>1, PartOfPart DEF TargetsOf
<1>5. request' = [request EXCEPT ![r] = new]
  BY DEF EnterBatch
<1>6. probe' = [t \in Tasks |->
       IF \E i \in 1..BatchSize(hosts) : t = <<r, hosts[i]>> THEN "called" ELSE probe[t]]
  BY DEF EnterBatch
<1> HIDE DEF rest
<1>7. request'[r] = new /\ \A q \in Requests \ {r} : request'[q] = request[q]
  BY <1>5 DEF TypeOK
<1>8. TypeOK'
  <2>1. new \in [phase : {"idle", "read", "probing"}, domain : Domains, expiresAt : 0..MaxTime, todo : Seq(Hosts)]
    BY <1>1, <1>4
  <2>2. request' \in [Requests -> [phase : {"idle", "read", "probing"}, domain : Domains,
                                   expiresAt : 0..MaxTime, todo : Seq(Hosts)]]
    BY <1>5, <2>1 DEF TypeOK
  <2>3. probe' \in [Tasks -> {"none", "called", "resolving", "connected"}]
    BY <1>6 DEF TypeOK
  <2>4. allowlist' \in [Hosts -> 0..MaxTime]
    BY <1>1 DEF TypeOK, WithEntries, EntryExpiry
  <2> QED BY <2>2, <2>3, <2>4 DEF TypeOK
<1>9. RequestsCarryEvidence'
  <2>1. ASSUME NEW q \in Requests, request'[q].phase # "idle"
        PROVE  /\ request'[q].expiresAt \in persisted[request'[q].domain]
               /\ IsPart(Targets[request'[q].domain], request'[q].todo)
               /\ request'[q].phase = "read" => request'[q].todo # <<>>
    <3>1. CASE q = r
      BY <1>2, <1>4, <1>7, <3>1
    <3>2. CASE q # r
      <4>1. request'[q] = request[q]
        BY <1>7, <3>2
      <4> QED BY <2>1, <4>1 DEF RequestsCarryEvidence, TargetsOf
    <3> QED BY <3>1, <3>2
  <2> QED BY <2>1 DEF RequestsCarryEvidence, TargetsOf
<1>10. ProbesBelongToRequests'
  <2> SUFFICES ASSUME NEW q \in Requests, NEW h \in Hosts, probe'[<<q, h>>] # "none"
               PROVE  request'[q].phase = "probing" /\ h \in ToSet(Targets[request'[q].domain])
    BY DEF ProbesBelongToRequests, TargetsOf
  <2>1. <<q, h>> \in Tasks
    BY DEF Tasks
  <2>2. CASE \E i \in 1..BatchSize(hosts) : <<q, h>> = <<r, hosts[i]>>
    BY <1>3, <1>7, <2>2
  <2>3. CASE ~\E i \in 1..BatchSize(hosts) : <<q, h>> = <<r, hosts[i]>>
    <3>1. probe[<<q, h>>] # "none"
      BY <1>6, <2>1, <2>3
    <3>2. q # r
      BY <3>1 DEF Answered
    <3> QED BY <1>7, <3>1, <3>2 DEF ProbesBelongToRequests, TargetsOf
  <2> QED BY <2>2, <2>3
<1>11. EntriesComeFromEvidence'
  <2>1. CASE allowlist' = allowlist
    BY <2>1 DEF EntriesComeFromEvidence
  <2>2. CASE allowlist' = WithEntries(r)
    BY <2>2, EntriesAreEvidence DEF EntriesComeFromEvidence
  <2> QED BY <2>1, <2>2
<1> QED BY <1>8, <1>9, <1>10, <1>11

(* A probe of the request goes on or ends.                                   *)
LEMMA ProbeStepKeeps ==
  ASSUME IInv, NEW t \in Tasks, probe[t] # "none",
         NEW v \in {"none", "called", "resolving", "connected"},
         probe' = [probe EXCEPT ![t] = v], UNCHANGED <<now, persisted, latest, allowlist, request>>
  PROVE  IInv'
<1>1. TypeOK'
  BY DEF IInv, TypeOK
<1>2. ProbesBelongToRequests'
  <2> SUFFICES ASSUME NEW q \in Requests, NEW h \in Hosts, probe'[<<q, h>>] # "none"
               PROVE  request[q].phase = "probing" /\ h \in ToSet(Targets[request[q].domain])
    BY DEF ProbesBelongToRequests, TargetsOf
  <2>1. probe[<<q, h>>] # "none"
    BY DEF IInv, TypeOK, Tasks
  <2> QED BY <2>1 DEF IInv, ProbesBelongToRequests, TargetsOf
<1> QED BY <1>1, <1>2 DEF IInv, RequestsCarryEvidence, EntriesComeFromEvidence, TargetsOf

(* A request that is over, or has not begun, has no probes.                  *)
LEMMA RequestStepKeeps ==
  ASSUME IInv, NEW r \in Requests, \A h \in Hosts : probe[<<r, h>>] = "none",
         NEW new \in [phase : {"idle", "read", "probing"}, domain : Domains, expiresAt : 0..MaxTime, todo : Seq(Hosts)],
         new.phase # "idle" =>
           /\ new.expiresAt \in persisted[new.domain] /\ IsPart(Targets[new.domain], new.todo)
           /\ new.phase = "read" => new.todo # <<>>,
         request' = [request EXCEPT ![r] = new], UNCHANGED <<now, persisted, latest, probe>>,
         allowlist' \in [Hosts -> 0..MaxTime]
  PROVE  TypeOK' /\ RequestsCarryEvidence' /\ ProbesBelongToRequests'
<1>1. request'[r] = new /\ \A q \in Requests \ {r} : request'[q] = request[q]
  BY DEF IInv, TypeOK
<1>2. request' \in [Requests -> [phase : {"idle", "read", "probing"}, domain : Domains,
                                 expiresAt : 0..MaxTime, todo : Seq(Hosts)]]
  BY DEF IInv, TypeOK
<1>3. TypeOK'
  BY <1>2 DEF IInv, TypeOK
<1>4. RequestsCarryEvidence'
  <2>1. ASSUME NEW q \in Requests, request'[q].phase # "idle"
        PROVE  /\ request'[q].expiresAt \in persisted[request'[q].domain]
               /\ IsPart(Targets[request'[q].domain], request'[q].todo)
               /\ request'[q].phase = "read" => request'[q].todo # <<>>
    <3>1. CASE q = r
      BY <1>1, <2>1, <3>1
    <3>2. CASE q # r
      BY <1>1, <2>1, <3>2 DEF IInv, RequestsCarryEvidence, TargetsOf
    <3> QED BY <3>1, <3>2
  <2> QED BY <2>1 DEF IInv, RequestsCarryEvidence, TargetsOf
<1>5. ProbesBelongToRequests'
  <2> SUFFICES ASSUME NEW q \in Requests, NEW h \in Hosts, probe[<<q, h>>] # "none"
               PROVE  request'[q].phase = "probing" /\ h \in ToSet(Targets[request'[q].domain])
    BY DEF ProbesBelongToRequests, TargetsOf
  <2>1. request'[q] = request[q]
    BY <1>1
  <2> QED BY <2>1 DEF IInv, ProbesBelongToRequests, TargetsOf
<1> QED BY <1>3, <1>4, <1>5

(* What Authorize and NextBatch start are hosts of the evidence.             *)
LEMMA AuthorizedHosts ==
  ASSUME IInv, NEW r \in Requests, NEW hosts, Authorize(r, hosts)
  PROVE  hosts \in Seq(Hosts) /\ IsPart(TargetsOf(r), hosts) /\ hosts # <<>>
<1>1. /\ request[r].todo \in Seq(Hosts) /\ TargetsOf(r) \in Seq(Hosts)
      /\ IsPart(TargetsOf(r), request[r].todo) /\ request[r].todo # <<>>
  BY TargetsAssumption DEF Authorize, IInv, TypeOK, RequestsCarryEvidence, TargetsOf
<1>2. CASE hosts = request[r].todo
  BY <1>1, <1>2
<1>3. CASE hosts \in {<<h>> : h \in ToSet(request[r].todo)}
  <2>1. PICK h \in ToSet(request[r].todo) : hosts = <<h>>
    BY <1>3
  <2> QED BY <1>1, <2>1, HostIsPart
<1> QED BY <1>2, <1>3 DEF Authorize

LEMMA NextHosts ==
  ASSUME IInv, NEW r \in Requests, NextBatch(r)
  PROVE  request[r].todo \in Seq(Hosts) /\ IsPart(TargetsOf(r), request[r].todo)
BY DEF NextBatch, IInv, TypeOK, RequestsCarryEvidence, TargetsOf

LEMMA NextKeeps ==
  ASSUME IInv, [Next]_vars
  PROVE  IInv'
<1>1. ASSUME NEW d \in Domains, NEW e \in {0} \union (now + 1)..MaxTime, Publish(d, e)
      PROVE  IInv'
  <2>1. e \in 0..MaxTime /\ (e # 0 => e \in 1..MaxTime)
    BY TargetsAssumption DEF IInv, TypeOK
  <2>2. /\ \A c \in Domains : persisted[c] \subseteq persisted'[c]
        /\ persisted' \in [Domains -> SUBSET (1..MaxTime)] /\ latest' \in [Domains -> 0..MaxTime]
        /\ \A c \in Domains : latest'[c] # 0 => latest'[c] \in persisted'[c]
    BY <1>1, <2>1 DEF Publish, IInv, TypeOK, RequestsCarryEvidence
  <2>3. UNCHANGED <<now, allowlist, request, probe>>
    BY <1>1 DEF Publish
  <2>4. TypeOK'
    BY <2>2, <2>3 DEF IInv, TypeOK
  <2>5. RequestsCarryEvidence'
    <3>1. \A r \in Requests : request[r].domain \in Domains
      BY DEF IInv, TypeOK
    <3> QED BY <2>2, <2>3, <3>1 DEF IInv, RequestsCarryEvidence, TargetsOf
  <2>6. ProbesBelongToRequests'
    BY <2>3 DEF IInv, ProbesBelongToRequests, TargetsOf
  <2>7. EntriesComeFromEvidence'
    BY <2>2, <2>3 DEF IInv, EntriesComeFromEvidence
  <2> QED BY <2>4, <2>5, <2>6, <2>7 DEF IInv
<1>2. ASSUME NEW r \in Requests, NEW d \in Domains, Read(r, d)
      PROVE  IInv'
  <2> DEFINE new == [phase |-> "read", domain |-> d, expiresAt |-> latest[d], todo |-> Targets[d]]
  <2>1. Targets[d] \in Seq(Hosts) /\ Targets[d] # <<>> /\ Len(Targets[d]) \in Nat
    BY TargetsAssumption, LenProperties
  <2>2. new \in [phase : {"idle", "read", "probing"}, domain : Domains, expiresAt : 0..MaxTime, todo : Seq(Hosts)]
    BY <2>1 DEF IInv, TypeOK
  <2>3. latest[d] \in persisted[d]
    <3>1. latest[d] # 0
      BY <1>2 DEF Read, Fresh, IInv, TypeOK
    <3> QED BY <3>1 DEF IInv, RequestsCarryEvidence
  <2>4. IsPart(Targets[d], Targets[d])
    <3>1. Targets[d] = SubSeq(Targets[d], 1, Len(Targets[d]))
      BY <2>1, SubSeqFull
    <3>2. 1 \in 1..(Len(Targets[d]) + 1) /\ Len(Targets[d]) \in 0..Len(Targets[d])
      BY <2>1
    <3> QED BY <3>1, <3>2 DEF IsPart
  <2>5. \A h \in Hosts : probe[<<r, h>>] = "none"
    BY <1>2 DEF Read, IInv, ProbesBelongToRequests
  <2>6. request' = [request EXCEPT ![r] = new] /\ UNCHANGED <<now, persisted, latest, probe, allowlist>>
    BY <1>2 DEF Read
  <2>7. allowlist' \in [Hosts -> 0..MaxTime]
    BY <2>6 DEF IInv, TypeOK
  <2>8. TypeOK' /\ RequestsCarryEvidence' /\ ProbesBelongToRequests'
    BY <2>1, <2>2, <2>3, <2>4, <2>5, <2>6, <2>7, RequestStepKeeps
  <2> QED BY <2>6, <2>8 DEF IInv, EntriesComeFromEvidence
<1>3. ASSUME NEW r \in Requests, NEW hosts, Authorize(r, hosts)
      PROVE  IInv'
  <2>2. hosts \in Seq(Hosts) /\ IsPart(TargetsOf(r), hosts) /\ hosts # <<>>
    BY <1>3, AuthorizedHosts
  <2>3. Answered(r)
    BY <1>3 DEF Authorize, Answered, IInv, ProbesBelongToRequests
  <2>4. /\ request[r].phase # "idle" /\ EnterBatch(r, hosts)
        /\ allowlist' = WithEntries(r) /\ UNCHANGED <<now, persisted, latest>>
    BY <1>3 DEF Authorize
  <2> QED BY <2>2, <2>3, <2>4, EnterBatchKeeps
<1>4. ASSUME NEW r \in Requests, Generate(r) \/ Refuse(r) \/ Respond(r)
      PROVE  IInv'
  <2>1. \A h \in Hosts : probe[<<r, h>>] = "none"
    BY <1>4 DEF Generate, Refuse, Respond, Answered, IInv, ProbesBelongToRequests
  <2>2. /\ request' = [request EXCEPT ![r] = NoRequest("idle")]
        /\ UNCHANGED <<now, persisted, latest, probe>>
        /\ allowlist' = allowlist \/ (request[r].phase = "read" /\ allowlist' = WithEntries(r))
    BY <1>4 DEF Generate, Refuse, Respond
  <2> DEFINE d == request[r].domain
             e == request[r].expiresAt
  <2>3. d \in Domains /\ e \in 0..MaxTime
    BY DEF IInv, TypeOK
  <2>4. allowlist' \in [Hosts -> 0..MaxTime]
    BY <2>2, <2>3 DEF IInv, TypeOK, WithEntries, EntryExpiry
  <2>5. TypeOK' /\ RequestsCarryEvidence' /\ ProbesBelongToRequests'
    <3>1. NoRequest("idle").phase = "idle" /\ NoRequest("idle") \in
            [phase : {"idle", "read", "probing"}, domain : Domains, expiresAt : 0..MaxTime, todo : Seq(Hosts)]
      BY TargetsAssumption, EmptySeq DEF NoRequest
    <3> QED BY <2>1, <2>2, <2>4, <3>1, RequestStepKeeps
  <2>6. EntriesComeFromEvidence'
    <3>1. CASE allowlist' = allowlist
      BY <2>2, <3>1 DEF IInv, EntriesComeFromEvidence
    <3>2. CASE request[r].phase = "read" /\ allowlist' = WithEntries(r)
      BY <2>2, <2>3, <3>2, EntriesAreEvidence DEF EntriesComeFromEvidence
    <3> QED BY <2>2, <3>1, <3>2
  <2> QED BY <2>5, <2>6 DEF IInv
<1>5. ASSUME NEW r \in Requests, NextBatch(r)
      PROVE  IInv'
  <2>1. /\ request[r].phase # "idle" /\ Answered(r) /\ request[r].todo # <<>>
        /\ EnterBatch(r, request[r].todo) /\ UNCHANGED <<now, persisted, latest, allowlist>>
    BY <1>5 DEF NextBatch
  <2> QED BY <1>5, <2>1, NextHosts, EnterBatchKeeps
<1>6. ASSUME NEW t \in Tasks, Start(t) \/ Connect(t) \/ Finish(t)
      PROVE  IInv'
  <2>1. probe[t] # "none" /\ UNCHANGED <<now, persisted, latest, allowlist, request>>
    BY <1>6 DEF Start, Connect, Finish
  <2>2. \E v \in {"none", "called", "resolving", "connected"} : probe' = [probe EXCEPT ![t] = v]
    BY <1>6 DEF Start, Connect, Finish, EndsEarly, Ends
  <2> QED BY <2>1, <2>2, ProbeStepKeeps
<1>7. CASE Tick
  <2>1. now' \in 0..MaxTime
    BY <1>7, TargetsAssumption DEF Tick, IInv, TypeOK
  <2> QED BY <1>7, <2>1 DEF Tick, IInv, TypeOK, RequestsCarryEvidence, ProbesBelongToRequests,
                          EntriesComeFromEvidence, TargetsOf
<1>8. CASE UNCHANGED vars
  BY <1>8 DEF vars, IInv, TypeOK, RequestsCarryEvidence, ProbesBelongToRequests,
              EntriesComeFromEvidence, TargetsOf
<1>9. CASE Next
  BY <1>9, <1>1, <1>2, <1>3, <1>4, <1>5, <1>6, <1>7 DEF Next
<1> QED BY <1>8, <1>9

LEMMA Invariant == Spec => []IInv
BY InitHolds, NextKeeps, PTL DEF Spec

-----------------------------------------------------------------------------
(* The routes as they interleave take and give permits as the semaphore      *)
(* promises: whatever holds of it, below, holds of the whole process.        *)
THEOREM RoutesImplementSemaphore == Spec => KeepsSemaphore
<1>1. Init => Sem!Init
  BY DEF Init
<1>2. IInv /\ [Next]_vars => [Sem!Next]_(Sem!vars)
  <2> SUFFICES ASSUME IInv, [Next]_vars PROVE Sem!Next \/ UNCHANGED semaphore
    BY DEF Sem!vars, semaphore
  <2>1. ASSUME NEW r \in Requests, NEW hosts \in Seq(Hosts), hosts # <<>>,
               IsPart(TargetsOf(r), hosts), EnterBatch(r, hosts)
        PROVE  Sem!Next
    <3>1. Sem!Enter(BatchOf(r, hosts))
      BY <2>1 DEF EnterBatch, Acquire
    <3>2. BatchOf(r, hosts) \in Batches
      <4>1. request[r].domain \in Domains
        BY DEF IInv, TypeOK
      <4> QED BY <2>1, <4>1, BatchIsABatch DEF TargetsOf
    <3> QED BY <3>1, <3>2 DEF Sem!Next
  <2>2. ASSUME NEW r \in Requests, NEW hosts, Authorize(r, hosts)
        PROVE  Sem!Next
    <3>1. EnterBatch(r, hosts)
      BY <2>2 DEF Authorize
    <3> QED BY <2>1, <2>2, <3>1, AuthorizedHosts
  <2>3. ASSUME NEW r \in Requests, NextBatch(r)
        PROVE  Sem!Next
    <3>1. EnterBatch(r, request[r].todo) /\ request[r].todo # <<>>
      BY <2>3 DEF NextBatch
    <3> QED BY <2>1, <2>3, <3>1, NextHosts
  <2>4. ASSUME NEW t \in Tasks, Start(t) \/ Connect(t) \/ Finish(t)
        PROVE  Sem!Next \/ UNCHANGED semaphore
    BY <2>4 DEF Start, Connect, Finish, EndsEarly, Ends, Sem!Next
  <2>5. ASSUME \/ \E d \in Domains, e \in {0} \union (now + 1)..MaxTime : Publish(d, e)
               \/ \E r \in Requests, d \in Domains : Read(r, d)
               \/ \E r \in Requests : Generate(r) \/ Refuse(r) \/ Respond(r)
               \/ Tick \/ UNCHANGED vars
        PROVE  UNCHANGED semaphore
    BY <2>5 DEF Publish, Read, Generate, Refuse, Respond, Tick, vars, semaphore
  <2> QED BY <2>2, <2>3, <2>4, <2>5 DEF Next
<1> QED BY <1>1, <1>2, Invariant, PTL DEF Spec, KeepsSemaphore

(* The allowlist never outlives the evidence (generateFromDnsResults).       *)
THEOREM AllowlistIsEvidence == Spec => []EntriesComeFromEvidence
<1>1. IInv => EntriesComeFromEvidence
  BY DEF IInv
<1> QED BY <1>1, Invariant, PTL

(* However long a probe waits for its permit and its lookup, it connects     *)
(* only on evidence that is fresh then (isExpiryFresh in probe-routes.ts).   *)
THEOREM ConnectedOnFreshEvidence == Spec => SocketsNeedFreshEvidence
<1> DEFINE Earned == \A t \in Tasks :
       (probe'[t] = "connected" /\ probe[t] # "connected") =>
         \E d \in Domains : /\ t[2] \in ToSet(Targets[d])
                            /\ \E e \in persisted[d] : e > now
<1>1. IInv /\ [Next]_vars => [Earned]_vars
  <2> SUFFICES ASSUME IInv, Next, NEW t \in Tasks, probe'[t] = "connected", probe[t] # "connected"
               PROVE  \E d \in Domains : /\ t[2] \in ToSet(Targets[d])
                                         /\ \E e \in persisted[d] : e > now
    OBVIOUS
  <2>1. Connect(t) /\ FreshAtSocket(request[t[1]].expiresAt) /\ probe[t] = "resolving"
    <3>1. probe \in [Tasks -> {"none", "called", "resolving", "connected"}]
      BY DEF IInv, TypeOK
    <3>2. ASSUME NEW u \in Tasks, Start(u) \/ Connect(u) \/ Finish(u)
          PROVE  Connect(t) /\ FreshAtSocket(request[t[1]].expiresAt) /\ probe[t] = "resolving"
      BY <3>1, <3>2 DEF Start, Connect, Finish, EndsEarly, Ends
    <3>3. ASSUME NEW r \in Requests, NEW hosts, EnterBatch(r, hosts)
          PROVE  FALSE
      BY <3>1, <3>3 DEF EnterBatch
    <3> QED BY <3>1, <3>2, <3>3 DEF Next, Publish, Read, Authorize, Generate, Refuse, NextBatch, Respond, Tick
  <2>2. t = <<t[1], t[2]>> /\ t[1] \in Requests /\ t[2] \in Hosts
    BY DEF Tasks
  <2>3. request[t[1]].phase = "probing" /\ t[2] \in ToSet(TargetsOf(t[1]))
    BY <2>1, <2>2 DEF IInv, ProbesBelongToRequests
  <2>4. request[t[1]].domain \in Domains /\ request[t[1]].expiresAt \in persisted[request[t[1]].domain]
    BY <2>2, <2>3 DEF IInv, TypeOK, RequestsCarryEvidence
  <2>5. request[t[1]].expiresAt > now
    BY <2>1 DEF FreshAtSocket, Fresh
  <2> QED BY <2>3, <2>4, <2>5 DEF TargetsOf
<1>2. Spec => [][Earned]_vars
  BY <1>1, Invariant, PTL DEF Spec
<1> QED BY <1>2 DEF SocketsNeedFreshEvidence

-----------------------------------------------------------------------------

(* What holds between two handlers: permits that are held and permits that   *)
(* are counted make up the number there are, and nobody waits while one is   *)
(* free, so an empty count is needed before a task is queued.                *)
SemIInv ==
  /\ Sem!TypeOK
  /\ IsFiniteSet(holding)
  /\ Sem!PermitsConserved
  /\ Sem!WaitingMeansFull
  /\ Sem!QueuedOnce

(* The semaphore counts its holders as this module does.                     *)
LEMMA SameCount == Sem!PermitsConserved <=> permits + Cardinality(holding) = Permits
<1>1. Sem!Cardinality(holding) = Cardinality(holding)
  BY DEF Sem!Cardinality, Cardinality
<1> QED BY <1>1 DEF Sem!PermitsConserved

LEMMA SameCountNext == Sem!PermitsConserved' <=> permits' + Cardinality(holding') = Permits
<1>1. Sem!Cardinality(holding') = Cardinality(holding')
  BY DEF Sem!Cardinality, Cardinality
<1> QED BY <1>1 DEF Sem!PermitsConserved

(* The first n tasks of a batch are n tasks.                                 *)
LEMMA FirstOfBatch ==
  ASSUME NEW batch \in Seq(Tasks), Sem!Distinct(batch), NEW n \in Nat, n <= Len(batch)
  PROVE  /\ IsFiniteSet({batch[i] : i \in 1..n})
         /\ Cardinality({batch[i] : i \in 1..n}) = n
<1> DEFINE S == {batch[i] : i \in 1..n}
           f == [i \in 1..n |-> batch[i]]
<1>1. f \in Bijection(1..n, S)
  <2>1. f \in Injection(1..n, S)
    BY DEF Sem!Distinct, Injection, IsInjective
  <2>2. f \in Surjection(1..n, S)
    BY DEF Surjection
  <2> QED BY <2>1, <2>2 DEF Bijection
<1>2. ExistsBijection(1..n, S)
  BY <1>1 DEF ExistsBijection
<1>3. IsFiniteSet(1..n)
  BY FS_Interval
<1> QED BY <1>2, <1>3, FS_Bijection, FS_CountingElements

(* A queue without repetitions stays so when other tasks line up behind it.  *)
LEMMA LinedUp ==
  ASSUME NEW q \in Seq(Tasks), NEW r \in Seq(Tasks), Sem!Distinct(q), Sem!Distinct(r),
         \A i \in 1..Len(q), j \in 1..Len(r) : q[i] # r[j]
  PROVE  /\ Sem!Distinct(q \o r)
         /\ \A k \in 1..Len(q \o r) :
              \/ \E i \in 1..Len(q) : (q \o r)[k] = q[i]
              \/ \E j \in 1..Len(r) : (q \o r)[k] = r[j]
<1>1. /\ Len(q) \in Nat /\ Len(r) \in Nat /\ Len(q \o r) = Len(q) + Len(r)
      /\ \A k \in 1..(Len(q) + Len(r)) :
           (q \o r)[k] = IF k <= Len(q) THEN q[k] ELSE r[k - Len(q)]
  BY ConcatProperties
<1> DEFINE both == q \o r
<1> HIDE DEF both
<1>2. ASSUME NEW k \in 1..Len(both)
      PROVE  \/ k \in 1..Len(q) /\ both[k] = q[k]
             \/ k - Len(q) \in 1..Len(r) /\ both[k] = r[k - Len(q)]
  BY <1>1 DEF both
<1>3. Sem!Distinct(both)
  <2> SUFFICES ASSUME NEW k \in 1..Len(both), NEW l \in 1..Len(both), both[k] = both[l] PROVE k = l
    BY DEF Sem!Distinct
  <2>1. CASE k \in 1..Len(q) /\ both[k] = q[k]
    <3>1. l \in 1..Len(q) /\ both[l] = q[l]
      BY <1>2, <2>1
    <3> QED BY <2>1, <3>1 DEF Sem!Distinct
  <2>2. CASE k - Len(q) \in 1..Len(r) /\ both[k] = r[k - Len(q)]
    <3>1. l - Len(q) \in 1..Len(r) /\ both[l] = r[l - Len(q)]
      BY <1>2, <2>2
    <3>2. k - Len(q) = l - Len(q)
      BY <2>2, <3>1 DEF Sem!Distinct
    <3> QED BY <1>1, <3>2, <1>1 DEF both
  <2> QED BY <1>2, <2>1, <2>2
<1> QED BY <1>2, <1>3 DEF both

(* A batch takes what is counted and queues the rest: the queue grows only   *)
(* when the count is used up.                                                *)
LEMMA EnterKeepsIInv ==
  ASSUME Sem!PermitsAssumption, Sem!BatchesAssumption, SemIInv, NEW batch \in Batches, Sem!Enter(batch)
  PROVE  SemIInv'
<1> DEFINE n == Sem!Admitted(batch)
           S == {batch[i] : i \in 1..n}
           rest == SubSeq(batch, n + 1, Len(batch))
<1>1. batch \in Seq(Tasks) /\ Sem!Distinct(batch)
  BY DEF Sem!BatchesAssumption
<1>2. permits \in 0..Permits /\ Permits \in Nat /\ queue \in Seq(Tasks) /\ holding \subseteq Tasks
  BY DEF SemIInv, Sem!TypeOK, Sem!PermitsAssumption
<1>3. n \in Nat /\ n <= Len(batch) /\ n <= permits /\ (n < Len(batch) => n = permits)
  BY <1>1, <1>2 DEF Sem!Admitted
<1>4. \A i \in 1..Len(batch) : Sem!Absent(batch[i])
  BY DEF Sem!Enter
<1>5. permits' = permits - n /\ holding' = holding \union S /\ queue' = queue \o rest
  BY DEF Sem!Enter
<1> HIDE DEF n
<1>6. rest \in Seq(Tasks) /\ Len(rest) = Len(batch) - n
        /\ \A i \in 1..Len(rest) : rest[i] = batch[n + i]
  BY <1>1, <1>3
<1>7. IsFiniteSet(S) /\ Cardinality(S) = n
  BY <1>1, <1>3, FirstOfBatch
<1>8. S \cap holding = {}
  BY <1>3, <1>4 DEF Sem!Absent
<1> HIDE DEF S, rest
<1>9. Sem!TypeOK'
  <2>1. S \subseteq Tasks
    BY <1>1, <1>3 DEF S
  <2> QED BY <1>2, <1>3, <1>5, <1>6, <2>1 DEF Sem!TypeOK
<1>10. IsFiniteSet(holding') /\ Sem!PermitsConserved'
  <2>1. IsFiniteSet(holding) /\ Cardinality(holding) \in Nat
    BY FS_CardinalityType DEF SemIInv
  <2>2. permits + Cardinality(holding) = Permits
    BY SameCount DEF SemIInv
  <2>3. holding \cap S = {} /\ Cardinality({}) = 0
    BY <1>8, FS_EmptySet
  <2>4. IsFiniteSet(holding \union S)
          /\ Cardinality(holding \union S) = Cardinality(holding) + Cardinality(S) - Cardinality(holding \cap S)
    BY <1>7, <2>1, FS_Union
  <2>5. Cardinality(holding \union S) = Cardinality(holding) + n
    <3>1. Cardinality(holding \cap S) = 0
      BY <2>3
    <3> QED BY <1>7, <2>1, <2>4, <3>1, <1>3
  <2>6. holding' = holding \union S /\ permits' = permits - n
    BY <1>5
  <2>7. permits' + Cardinality(holding') = Permits
    BY <1>2, <1>3, <2>1, <2>2, <2>5, <2>6
  <2> QED BY <2>4, <2>6, <2>7, SameCountNext
<1>11. Sem!WaitingMeansFull'
  <2>1. CASE queue = <<>>
    <3>1. queue' # <<>> => Len(rest) # 0
      BY <1>5, <1>6, <2>1
    <3> QED BY <1>1, <1>2, <1>3, <1>5, <1>6, <3>1 DEF Sem!WaitingMeansFull
  <2>2. CASE queue # <<>>
    BY <1>2, <1>3, <1>5, <2>2 DEF SemIInv, Sem!WaitingMeansFull
  <2> QED BY <2>1, <2>2
<1>12. Sem!QueuedOnce'
  <2>1. \A j \in 1..Len(batch) : batch[j] \notin holding /\ \A i \in 1..Len(queue) : queue[i] # batch[j]
    BY <1>4 DEF Sem!Absent
  <2>2. \A i \in 1..Len(rest) : n + i \in 1..Len(batch)
    BY <1>1, <1>3, <1>6
  <2>3. Sem!Distinct(rest)
    <3> SUFFICES ASSUME NEW i \in 1..Len(rest), NEW j \in 1..Len(rest), rest[i] = rest[j] PROVE i = j
      BY DEF Sem!Distinct
    <3>1. batch[n + i] = batch[n + j]
      BY <1>6
    <3>2. n + i = n + j
      BY <1>1, <2>2, <3>1 DEF Sem!Distinct
    <3> QED BY <1>3, <1>6, <3>2
  <2>4. Sem!Distinct(queue) /\ \A i \in 1..Len(queue) : queue[i] \notin holding
    BY DEF SemIInv, Sem!QueuedOnce
  <2>5. \A i \in 1..Len(queue), j \in 1..Len(rest) : queue[i] # rest[j]
    BY <1>6, <2>1, <2>2
  <2>6. Sem!Distinct(queue \o rest)
    BY <1>2, <1>6, <2>3, <2>4, <2>5, LinedUp
  <2>7. \A k \in 1..Len(queue \o rest) :
              \/ \E i \in 1..Len(queue) : (queue \o rest)[k] = queue[i]
              \/ \E j \in 1..Len(rest) : (queue \o rest)[k] = rest[j]
    BY <1>2, <1>6, <2>3, <2>4, <2>5, LinedUp
  <2>8. \A i \in 1..Len(queue) : queue[i] \notin holding \union S
    BY <1>3, <2>1, <2>4 DEF S
  <2>9. \A j \in 1..Len(rest) : rest[j] \notin holding \union S
    <3> SUFFICES ASSUME NEW j \in 1..Len(rest) PROVE rest[j] \notin holding \union S
      OBVIOUS
    <3>1. n + j \in 1..Len(batch) /\ rest[j] = batch[n + j]
      BY <1>6, <2>2
    <3>2. \A i \in 1..n : i \in 1..Len(batch) /\ i # n + j
      BY <1>3, <1>6
    <3>3. \A i \in 1..n : batch[i] # batch[n + j]
      BY <1>1, <3>1, <3>2 DEF Sem!Distinct
    <3>4. rest[j] \notin S
      BY <3>1, <3>3 DEF S
    <3>5. rest[j] \notin holding
      BY <2>1, <3>1
    <3> QED BY <3>4, <3>5
  <2>10. \A k \in 1..Len(queue \o rest) : (queue \o rest)[k] \notin holding \union S
    BY <2>7, <2>8, <2>9
  <2> QED BY <1>5, <2>6, <2>10 DEF Sem!QueuedOnce
<1> QED BY <1>9, <1>10, <1>11, <1>12 DEF SemIInv

(* Without its first task the queue is the others, in their order.           *)
LEMMA QueueMovesUp ==
  ASSUME NEW q \in Seq(Tasks), q # <<>>
  PROVE  LET up == SubSeq(q, 1, 0) \o SubSeq(q, 2, Len(q))
         IN  up \in Seq(Tasks) /\ Len(up) = Len(q) - 1 /\ \A i \in 1..Len(up) : up[i] = q[i + 1]
<1> DEFINE tail == SubSeq(q, 2, Len(q))
<1>1. Len(q) \in Nat /\ Len(q) >= 1
  OBVIOUS
<1>2. tail \in Seq(Tasks) /\ Len(tail) = Len(q) - 1 /\ \A i \in 1..(Len(q) - 1) : tail[i] = q[i + 1]
  <2>1. \A i \in 2..Len(q) : q[i] \in Tasks
    BY <1>1
  <2>2. Len(q) \in Int /\ 2 \in Int
    BY <1>1
  <2>3. /\ tail \in Seq(Tasks) /\ Len(tail) = IF 2 <= Len(q) THEN Len(q) - 2 + 1 ELSE 0
        /\ \A i \in 1..(Len(q) - 2 + 1) : tail[i] = q[2 + i - 1]
    BY <2>1, <2>2, SubSeqProperties
  <2> HIDE DEF tail
  <2>4. Len(tail) = Len(q) - 1
    <3>1. CASE Len(q) = 1
      BY <2>3, <3>1
    <3>2. CASE Len(q) >= 2
      BY <2>2, <2>3, <3>2
    <3>3. Len(q) = 1 \/ Len(q) >= 2
      <4>1. \A m \in Nat : m >= 1 => m = 1 \/ m >= 2
        OBVIOUS
      <4> QED BY <1>1, <4>1
    <3> QED BY <3>1, <3>2, <3>3
  <2>5. \A i \in 1..(Len(q) - 1) : 2 + i - 1 = i + 1 /\ i \in 1..(Len(q) - 2 + 1)
    BY <1>1
  <2> QED BY <2>3, <2>4, <2>5
<1>3. SubSeq(q, 1, 0) = <<>>
  BY SubSeqEmpty
<1> HIDE DEF tail
<1>4. SubSeq(q, 1, 0) \o tail = tail
  BY <1>2, <1>3, ConcatEmptySeq
<1> QED BY <1>2, <1>4 DEF tail

(* A release either hands the permit on, and the count and the number of     *)
(* holders stay, or counts it because nobody waits.                          *)
LEMMA LeaveKeepsIInv ==
  ASSUME Sem!PermitsAssumption, SemIInv, NEW t \in Tasks, Sem!Leave(t)
  PROVE  SemIInv'
<1>1. permits \in 0..Permits /\ Permits \in Nat /\ queue \in Seq(Tasks) /\ holding \subseteq Tasks
  BY DEF SemIInv, Sem!TypeOK, Sem!PermitsAssumption
<1>2. IsFiniteSet(holding) /\ Cardinality(holding) \in Nat /\ permits + Cardinality(holding) = Permits
  BY SameCount, FS_CardinalityType DEF SemIInv
<1>3. t \in holding /\ permits' = Sem!Recounted
  BY DEF Sem!Leave
<1>4. IsFiniteSet(holding \ {t}) /\ Cardinality(holding \ {t}) = Cardinality(holding) - 1
  BY <1>2, <1>3, FS_RemoveElement
<1>5. CASE queue = <<>>
  <2>1. permits' = permits + 1 /\ holding' = holding \ {t} /\ queue' = queue
    BY <1>5, <1>3 DEF Sem!Leave, Sem!Recounted
  <2>2. Cardinality(holding') = Cardinality(holding) - 1 /\ Cardinality(holding') \in Nat /\ IsFiniteSet(holding')
    BY <1>4, <2>1, FS_CardinalityType
  <2>3. Sem!TypeOK' /\ Sem!PermitsConserved'
    BY <1>1, <1>2, <2>1, <2>2, SameCountNext DEF Sem!TypeOK
  <2> QED BY <1>5, <2>1, <2>2, <2>3 DEF SemIInv, Sem!WaitingMeansFull, Sem!QueuedOnce, Sem!Distinct
<1>6. CASE queue # <<>>
  <2> DEFINE w == queue[1]
  <2>1. /\ permits' = permits /\ permits = 0
        /\ holding' = (holding \ {t}) \union {w}
        /\ queue' = SubSeq(queue, 1, 0) \o SubSeq(queue, 2, Len(queue))
    BY <1>6, <1>3 DEF Sem!Leave, Sem!Recounted, Sem!StillQueued, Sem!Woken, Sem!RemoveAt, SemIInv, Sem!WaitingMeansFull
  <2>2. Len(queue) \in Nat /\ Len(queue) >= 1
    BY <1>1, <1>6
  <2>3. queue' \in Seq(Tasks) /\ Len(queue') = Len(queue) - 1
          /\ \A i \in 1..Len(queue') : queue'[i] = queue[i + 1]
    BY <1>1, <1>6, <2>1, QueueMovesUp
  <2>4. w \in Tasks /\ w \notin holding
    BY <1>1, <2>2 DEF SemIInv, Sem!QueuedOnce
  <2>5. IsFiniteSet(holding') /\ Cardinality(holding') = Cardinality(holding)
    <3>1. w \notin holding \ {t}
      BY <2>4
    <3>2. IsFiniteSet((holding \ {t}) \union {w})
            /\ Cardinality((holding \ {t}) \union {w}) = Cardinality(holding \ {t}) + 1
      BY <1>4, <3>1, FS_AddElement
    <3>3. Cardinality((holding \ {t}) \union {w}) = Cardinality(holding)
      BY <1>2, <1>4, <3>2
    <3> QED BY <2>1, <3>2, <3>3
  <2>6. Sem!TypeOK' /\ Sem!PermitsConserved' /\ Sem!WaitingMeansFull'
    BY <1>1, <1>2, <2>1, <2>3, <2>4, <2>5, SameCountNext DEF Sem!TypeOK, Sem!WaitingMeansFull
  <2>7. Sem!QueuedOnce'
    <3>1. ASSUME NEW i \in 1..Len(queue'), NEW j \in 1..Len(queue'), queue'[i] = queue'[j]
          PROVE  i = j
      BY <1>1, <2>2, <2>3, <3>1 DEF SemIInv, Sem!QueuedOnce, Sem!Distinct
    <3>2. ASSUME NEW i \in 1..Len(queue')
          PROVE  queue'[i] \notin holding'
      <4>1. i + 1 \in 1..Len(queue) /\ 1 \in 1..Len(queue) /\ i + 1 # 1
        BY <2>2, <2>3
      <4>2. queue[i + 1] \notin holding /\ queue[i + 1] # w
        BY <4>1 DEF SemIInv, Sem!QueuedOnce, Sem!Distinct
      <4> QED BY <2>1, <2>3, <4>2
    <3> QED BY <3>1, <3>2 DEF Sem!QueuedOnce, Sem!Distinct
  <2> QED BY <2>5, <2>6, <2>7 DEF SemIInv
<1> QED BY <1>5, <1>6

(* Hosts that follow each other in distinct targets are distinct.            *)
LEMMA PartIsDistinct ==
  ASSUME NEW T \in Seq(Hosts), Sem!Distinct(T), NEW i \in 1..Len(T), NEW j \in 1..Len(T)
  PROVE  SubSeq(T, i, j) \in Seq(Hosts) /\ Sem!Distinct(SubSeq(T, i, j))
<1> DEFINE s == SubSeq(T, i, j)
<1>1. Len(T) \in Nat /\ i \in Int /\ j \in Int
  BY LenProperties
<1>2. \A k \in i..j : T[k] \in Hosts
  BY <1>1
<1>3. /\ s \in Seq(Hosts) /\ Len(s) = IF i <= j THEN j - i + 1 ELSE 0
      /\ \A k \in 1..(j - i + 1) : s[k] = T[i + k - 1]
  BY <1>1, <1>2, SubSeqProperties
<1> HIDE DEF s
<1>4. ASSUME NEW k \in 1..Len(s), NEW l \in 1..Len(s), s[k] = s[l]
      PROVE  k = l
  <2>1. k \in 1..(j - i + 1) /\ l \in 1..(j - i + 1)
    BY <1>1, <1>3
  <2>2. i + k - 1 \in 1..Len(T) /\ i + l - 1 \in 1..Len(T)
    BY <1>1, <2>1
  <2>3. i + k - 1 = i + l - 1
    BY <1>3, <1>4, <2>1, <2>2 DEF Sem!Distinct
  <2> QED BY <1>1, <2>1, <2>3
<1>5. Sem!Distinct(s)
  BY <1>4 DEF Sem!Distinct
<1> QED BY <1>3, <1>5 DEF s

(* A request is paired with each of its hosts.                               *)
LEMMA BatchOfDistinct ==
  ASSUME NEW r \in Requests, NEW hosts \in Seq(Hosts), Sem!Distinct(hosts)
  PROVE  /\ [i \in 1..Len(hosts) |-> <<r, hosts[i]>>] \in Seq(Tasks)
         /\ Sem!Distinct([i \in 1..Len(hosts) |-> <<r, hosts[i]>>])
<1> DEFINE b == [i \in 1..Len(hosts) |-> <<r, hosts[i]>>]
<1>1. Len(hosts) \in Nat /\ \A i \in 1..Len(hosts) : hosts[i] \in Hosts
  OBVIOUS
<1>2. b \in Seq(Tasks) /\ Len(b) = Len(hosts)
  BY <1>1 DEF Tasks
<1> QED BY <1>2 DEF Sem!Distinct

(* The batches of the routes meet what the semaphore asks of its callers:    *)
(* the hosts that a domain's evidence names are distinct (allMxHosts and the *)
(* policy hosts are sets), so no task is in a batch twice.                   *)
LEMMA BatchesAreDistinct == Sem!PermitsAssumption /\ Sem!BatchesAssumption
<1>1. Sem!PermitsAssumption
  BY TargetsAssumption DEF Sem!PermitsAssumption
<1>2. ASSUME NEW h \in Hosts
      PROVE  <<h>> \in Seq(Hosts) /\ Sem!Distinct(<<h>>)
  BY DEF Sem!Distinct
<1>3. ASSUME NEW d \in Domains, NEW i \in 1..Len(Targets[d]), NEW j \in 1..Len(Targets[d])
      PROVE  SubSeq(Targets[d], i, j) \in Seq(Hosts) /\ Sem!Distinct(SubSeq(Targets[d], i, j))
  <2>1. Targets[d] \in Seq(Hosts) /\ Sem!Distinct(Targets[d])
    BY TargetsAssumption DEF IsInjective, Sem!Distinct
  <2> QED BY <2>1, PartIsDistinct
<1>4. ASSUME NEW batch \in Batches
      PROVE  batch \in Seq(Tasks) /\ Sem!Distinct(batch)
  <2> DEFINE Parts == {{SubSeq(Targets[d], i, j) : i, j \in 1..Len(Targets[d])} : d \in Domains}
             Singles == {<<h>> : h \in Hosts}
  <2>1. PICK r \in Requests, hosts \in Singles \union UNION Parts :
          batch = [i \in 1..Len(hosts) |-> <<r, hosts[i]>>]
    BY DEF Batches
  <2>2. ASSUME hosts \in Singles
        PROVE  hosts \in Seq(Hosts) /\ Sem!Distinct(hosts)
    <3>1. PICK h \in Hosts : hosts = <<h>>
      BY <2>2
    <3> QED BY <1>2, <3>1
  <2>3. ASSUME hosts \in UNION Parts
        PROVE  hosts \in Seq(Hosts) /\ Sem!Distinct(hosts)
    <3>1. PICK d \in Domains : \E i, j \in 1..Len(Targets[d]) : hosts = SubSeq(Targets[d], i, j)
      BY <2>3
    <3>2. PICK i \in 1..Len(Targets[d]), j \in 1..Len(Targets[d]) : hosts = SubSeq(Targets[d], i, j)
      BY <3>1
    <3> QED BY <1>3, <3>2
  <2> HIDE DEF Singles, Parts
  <2>4. hosts \in Seq(Hosts) /\ Sem!Distinct(hosts)
    BY <2>1, <2>2, <2>3
  <2> QED BY <2>1, <2>4, BatchOfDistinct
<1> QED BY <1>1, <1>4 DEF Sem!BatchesAssumption

(* The process keeps the semaphore's invariant, because every step of the    *)
(* routes is one of the semaphore or leaves it alone.                        *)
LEMMA SemaphoreInvariant == Spec => []SemIInv
<1>1. Sem!Init => SemIInv
  BY BatchesAreDistinct, FS_EmptySet, SameCount DEF Sem!Init, SemIInv, Sem!TypeOK,
     Sem!WaitingMeansFull, Sem!QueuedOnce, Sem!Distinct, Sem!PermitsAssumption
<1>2. SemIInv /\ [Sem!Next]_(Sem!vars) => SemIInv'
  <2> SUFFICES ASSUME SemIInv, [Sem!Next]_(Sem!vars) PROVE SemIInv'
    OBVIOUS
  <2>1. CASE \E batch \in Batches : Sem!Enter(batch)
    BY <2>1, BatchesAreDistinct, EnterKeepsIInv
  <2>2. CASE \E t \in Tasks : Sem!Leave(t)
    BY <2>2, BatchesAreDistinct, LeaveKeepsIInv
  <2>3. CASE UNCHANGED (Sem!vars)
    BY <2>3 DEF Sem!vars, SemIInv, Sem!TypeOK, Sem!PermitsConserved, Sem!WaitingMeansFull,
       Sem!QueuedOnce, Sem!Distinct
  <2> QED BY <2>1, <2>2, <2>3 DEF Sem!Next
<1> QED BY <1>1, <1>2, RoutesImplementSemaphore, PTL DEF KeepsSemaphore

(* The limit of concurrent probes holds for the life of the process, over    *)
(* all requests together: no early return of a route loses a permit and no   *)
(* release makes one (Semaphore.acquire, release).                           *)
THEOREM LimitHolds == Spec => []Sem!PermitsConserved
<1>1. SemIInv => Sem!PermitsConserved
  BY DEF SemIInv
<1> QED BY <1>1, SemaphoreInvariant, PTL

(* No wake-up is lost: a probe waits only while all permits are held         *)
(* (Semaphore.release hands its permit to the oldest waiter).                *)
THEOREM NoLostWakeup == Spec => []Sem!WaitingMeansFull
<1>1. SemIInv => Sem!WaitingMeansFull
  BY DEF SemIInv
<1> QED BY <1>1, SemaphoreInvariant, PTL

(* Probes get their permits in the order in which they asked for them         *)
(* (Semaphore.queue is appended to and shifted).                             *)
THEOREM FirstComeFirstServed == Spec => Sem!ServedInOrder
<1> DEFINE InOrder == \A i, j \in 1..Len(queue) :
                        (i < j /\ queue[j] \in holding') => queue[i] \in holding'
<1>1. SemIInv /\ [Sem!Next]_(Sem!vars) => [InOrder]_(Sem!vars)
  <2> SUFFICES ASSUME SemIInv, Sem!Next,
                      NEW i \in 1..Len(queue), NEW j \in 1..Len(queue), i < j, queue[j] \in holding'
               PROVE  FALSE
    OBVIOUS
  <2>1. queue \in Seq(Tasks) /\ queue[j] \notin holding /\ queue[j] # queue[1]
    <3>1. j # 1 /\ 1 \in 1..Len(queue)
      OBVIOUS
    <3> QED BY <3>1 DEF SemIInv, Sem!TypeOK, Sem!QueuedOnce, Sem!Distinct
  <2>2. CASE \E batch \in Batches : Sem!Enter(batch)
    <3>1. PICK batch \in Batches : Sem!Enter(batch)
      BY <2>2
    <3>2. Len(batch) \in Nat /\ permits \in Nat
      BY BatchesAreDistinct DEF Sem!BatchesAssumption, Sem!PermitsAssumption, SemIInv, Sem!TypeOK
    <3>3. \A l \in 1..Sem!Admitted(batch) : l \in 1..Len(batch)
      BY <3>2 DEF Sem!Admitted
    <3>4. \A l \in 1..Sem!Admitted(batch) : batch[l] # queue[j]
      BY <3>1, <3>3 DEF Sem!Enter, Sem!Absent
    <3>5. holding' = holding \union {batch[l] : l \in 1..Sem!Admitted(batch)}
      BY <3>1 DEF Sem!Enter
    <3> QED BY <2>1, <3>4, <3>5
  <2>3. CASE \E t \in Tasks : Sem!Leave(t)
    BY <2>1, <2>3 DEF Sem!Leave, Sem!Woken
  <2> QED BY <2>2, <2>3 DEF Sem!Next
<1>2. Spec => [][InOrder]_(Sem!vars)
  BY <1>1, SemaphoreInvariant, RoutesImplementSemaphore, PTL DEF KeepsSemaphore
<1> QED BY <1>2 DEF Sem!ServedInOrder

-----------------------------------------------------------------------------

(* What the routes and the semaphore know of the same probes: a probe has    *)
(* been called and has not ended exactly while it holds a permit or waits.   *)
Waits(t) == \E i \in 1..Len(queue) : queue[i] = t
Starts(t, batch) == \E i \in 1..Len(batch) : batch[i] = t

PermitsMatchProbes ==
  /\ \A t \in Tasks : probe[t] # "none" <=> t \in holding \/ Waits(t)
  /\ \A t \in Tasks : Waits(t) => probe[t] = "called"

(* Each permit that is taken is held by a probe that is under way, and what  *)
(* waits has not started: a probe never runs without a permit, and no permit *)
(* stays with a probe that ended early.                                      *)
PermitsAreInUse ==
  PermitsMatchProbes /\ (queue # <<>> => \E t \in holding : probe[t] # "none")

(* The tasks that are with the semaphore after the two operations.           *)
LEMMA EnterAdds ==
  ASSUME SemIInv, NEW batch \in Seq(Tasks), Sem!Enter(batch), NEW t
  PROVE  /\ t \in holding' \/ Waits(t)' <=> t \in holding \/ Waits(t) \/ Starts(t, batch)
         /\ Waits(t)' => Waits(t) \/ Starts(t, batch)
<1> DEFINE n == Sem!Admitted(batch)
           rest == SubSeq(batch, n + 1, Len(batch))
<1>1. queue \in Seq(Tasks) /\ permits \in Nat
  BY BatchesAreDistinct DEF SemIInv, Sem!TypeOK, Sem!PermitsAssumption
<1>2. n \in 0..Len(batch) /\ Len(batch) \in Nat
  BY <1>1 DEF Sem!Admitted
<1>3. holding' = holding \union {batch[i] : i \in 1..n} /\ queue' = queue \o rest
  BY DEF Sem!Enter
<1> HIDE DEF n
<1>4. rest \in Seq(Tasks) /\ Len(rest) = Len(batch) - n /\ \A i \in 1..Len(rest) : rest[i] = batch[n + i]
  BY <1>2
<1> HIDE DEF rest
<1>5. /\ Len(queue') = Len(queue) + Len(rest) /\ Len(queue) \in Nat
      /\ \A k \in 1..(Len(queue) + Len(rest)) :
           queue'[k] = IF k <= Len(queue) THEN queue[k] ELSE rest[k - Len(queue)]
  <2> DEFINE both == queue \o rest
  <2>1. /\ Len(both) = Len(queue) + Len(rest) /\ Len(queue) \in Nat
        /\ \A k \in 1..(Len(queue) + Len(rest)) :
             both[k] = IF k <= Len(queue) THEN queue[k] ELSE rest[k - Len(queue)]
    BY <1>1, <1>4, ConcatProperties
  <2> QED BY <1>3, <2>1
<1>6. \A i \in 1..Len(queue) : i \in 1..Len(queue') /\ queue'[i] = queue[i]
  BY <1>2, <1>4, <1>5
<1>7. \A i \in 1..Len(rest) : Len(queue) + i \in 1..Len(queue') /\ queue'[Len(queue) + i] = batch[n + i]
  BY <1>2, <1>4, <1>5
<1>8. ASSUME NEW k \in 1..Len(queue')
      PROVE  \/ k \in 1..Len(queue) /\ queue'[k] = queue[k]
             \/ k - Len(queue) \in 1..Len(rest) /\ queue'[k] = rest[k - Len(queue)]
  BY <1>2, <1>4, <1>5
<1>9. \A i \in 1..Len(rest) : n + i \in 1..Len(batch)
  BY <1>2, <1>4
<1>10. Waits(t)' => Waits(t) \/ Starts(t, batch)
  BY <1>4, <1>8, <1>9 DEF Waits, Starts
<1>11. Waits(t) => Waits(t)'
  BY <1>6 DEF Waits
<1>12. t \in holding' => t \in holding \/ Starts(t, batch)
  BY <1>2, <1>3 DEF Starts
<1>13. Starts(t, batch) => t \in holding' \/ Waits(t)'
  <2> SUFFICES ASSUME NEW i \in 1..Len(batch), batch[i] = t PROVE t \in holding' \/ Waits(t)'
    BY DEF Starts
  <2>1. CASE i \in 1..n
    BY <1>3, <2>1
  <2>2. CASE i \notin 1..n
    <3>1. i - n \in 1..Len(rest) /\ n + (i - n) = i
      BY <1>2, <1>4, <2>2
    <3> QED BY <1>7, <3>1 DEF Waits
  <2> QED BY <2>1, <2>2
<1> QED BY <1>3, <1>10, <1>11, <1>12, <1>13

LEMMA LeaveRemoves ==
  ASSUME SemIInv, NEW u \in Tasks, Sem!Leave(u), NEW t
  PROVE  /\ t \in holding' \/ Waits(t)' <=> t # u /\ (t \in holding \/ Waits(t))
         /\ Waits(t)' => Waits(t)
<1>1. queue \in Seq(Tasks) /\ u \in holding /\ ~Waits(u)
  BY DEF SemIInv, Sem!TypeOK, Sem!QueuedOnce, Sem!Leave, Waits
<1>2. CASE queue = <<>>
  <2>1. holding' = holding \ {u} /\ queue' = queue
    BY <1>2 DEF Sem!Leave
  <2> QED BY <1>1, <2>1 DEF Waits
<1>3. CASE queue # <<>>
  <2>1. /\ holding' = (holding \ {u}) \union {queue[1]}
        /\ queue' = SubSeq(queue, 1, 0) \o SubSeq(queue, 2, Len(queue))
    BY <1>3 DEF Sem!Leave, Sem!StillQueued, Sem!Woken, Sem!RemoveAt
  <2>2. Len(queue') = Len(queue) - 1 /\ \A i \in 1..Len(queue') : queue'[i] = queue[i + 1]
    BY <1>1, <1>3, <2>1, QueueMovesUp
  <2>3. Len(queue) \in Nat /\ 1 \in 1..Len(queue)
    BY <1>1, <1>3
  <2>4. \A i \in 1..Len(queue') : i + 1 \in 1..Len(queue)
    BY <2>2, <2>3
  <2>5. \A i \in 1..Len(queue) : i = 1 \/ (i - 1 \in 1..Len(queue') /\ (i - 1) + 1 = i)
    BY <2>2, <2>3
  <2>6. Waits(t)' => Waits(t)
    BY <2>2, <2>4 DEF Waits
  <2>7. Waits(t) => t = queue[1] \/ Waits(t)'
    <3> SUFFICES ASSUME NEW i \in 1..Len(queue), queue[i] = t, i # 1 PROVE Waits(t)'
      BY DEF Waits
    <3>1. i - 1 \in 1..Len(queue') /\ queue'[i - 1] = queue[i]
      BY <2>2, <2>5
    <3> QED BY <3>1 DEF Waits
  <2>8. Waits(queue[1])
    BY <2>3 DEF Waits
  <2> QED BY <1>1, <2>1, <2>6, <2>7, <2>8
<1> QED BY <1>2, <1>3

(* A batch is called as a whole, whether its tasks get permits or wait.      *)
LEMMA EnterMatches ==
  ASSUME IInv, SemIInv, PermitsMatchProbes, NEW r \in Requests, NEW hosts \in Seq(Hosts), hosts # <<>>,
         IsPart(TargetsOf(r), hosts), EnterBatch(r, hosts)
  PROVE  PermitsMatchProbes'
<1> DEFINE batch == BatchOf(r, hosts)
<1>1. batch \in Batches /\ Sem!Enter(batch)
  <2>1. request[r].domain \in Domains
    BY DEF IInv, TypeOK
  <2> QED BY <2>1, BatchIsABatch DEF TargetsOf, EnterBatch, Acquire
<1>2. batch \in Seq(Tasks)
  BY <1>1, BatchesAreDistinct DEF Sem!BatchesAssumption
<1>3. \A t : Starts(t, batch) <=> \E i \in 1..BatchSize(hosts) : t = <<r, hosts[i]>>
  <2>1. BatchSize(hosts) \in Nat
    BY TargetsAssumption DEF BatchSize
  <2> QED BY <2>1 DEF Starts, BatchOf
<1> HIDE DEF batch
<1>4. \A t \in Tasks : probe'[t] = IF Starts(t, batch) THEN "called" ELSE probe[t]
  BY <1>3 DEF EnterBatch
<1>5. \A t \in Tasks : /\ t \in holding' \/ Waits(t)' <=> t \in holding \/ Waits(t) \/ Starts(t, batch)
                       /\ Waits(t)' => Waits(t) \/ Starts(t, batch)
  BY <1>1, <1>2, EnterAdds
<1> QED BY <1>4, <1>5 DEF PermitsMatchProbes

(* A probe that ends gives its permit back, on every way out.                *)
LEMMA EndsMatches ==
  ASSUME IInv, SemIInv, PermitsMatchProbes, NEW t \in Tasks, Ends(t)
  PROVE  PermitsMatchProbes'
<1>1. Sem!Leave(t) /\ \A u \in Tasks : probe'[u] = IF u = t THEN "none" ELSE probe[u]
  BY DEF Ends, IInv, TypeOK
<1>2. \A u \in Tasks : /\ u \in holding' \/ Waits(u)' <=> u # t /\ (u \in holding \/ Waits(u))
                       /\ Waits(u)' => Waits(u)
  BY <1>1, LeaveRemoves
<1> QED BY <1>1, <1>2 DEF PermitsMatchProbes

LEMMA StepMatches ==
  ASSUME IInv, SemIInv, PermitsMatchProbes, [Next]_vars
  PROVE  PermitsMatchProbes'
<1>1. ASSUME NEW r \in Requests, NEW hosts, Authorize(r, hosts)
      PROVE  PermitsMatchProbes'
  <2>1. hosts \in Seq(Hosts) /\ IsPart(TargetsOf(r), hosts) /\ hosts # <<>>
    BY <1>1, AuthorizedHosts
  <2> QED BY <1>1, <2>1, EnterMatches DEF Authorize
<1>2. ASSUME NEW r \in Requests, NextBatch(r)
      PROVE  PermitsMatchProbes'
  <2>1. request[r].todo \in Seq(Hosts) /\ IsPart(TargetsOf(r), request[r].todo)
    BY <1>2, NextHosts
  <2> QED BY <1>2, <2>1, EnterMatches DEF NextBatch
<1>3. ASSUME NEW t \in Tasks, NEW v \in {"resolving", "connected"}, probe[t] # "none", ~Waits(t),
             probe' = [probe EXCEPT ![t] = v], UNCHANGED semaphore
      PROVE  PermitsMatchProbes'
  <2>1. \A u \in Tasks : probe'[u] = IF u = t THEN v ELSE probe[u]
    BY <1>3 DEF IInv, TypeOK
  <2>2. \A u \in Tasks : Waits(u)' <=> Waits(u)
    BY <1>3 DEF Waits, semaphore
  <2> QED BY <1>3, <2>1, <2>2 DEF PermitsMatchProbes, semaphore
<1>4. ASSUME NEW t \in Tasks, Start(t)
      PROVE  PermitsMatchProbes'
  <2>1. probe[t] # "none" /\ ~Waits(t)
    BY <1>4 DEF Start, SemIInv, Sem!QueuedOnce, Waits
  <2>2. CASE MayStart(t)
    BY <1>3, <1>4, <2>1, <2>2 DEF Start
  <2>3. CASE ~MayStart(t)
    BY <1>4, <2>3, EndsMatches DEF Start, EndsEarly
  <2> QED BY <2>2, <2>3
<1>5. ASSUME NEW t \in Tasks, Connect(t)
      PROVE  PermitsMatchProbes'
  <2>1. probe[t] # "none" /\ ~Waits(t)
    BY <1>5 DEF Connect, PermitsMatchProbes
  <2>2. CASE FreshAtSocket(request[t[1]].expiresAt)
    BY <1>3, <1>5, <2>1, <2>2 DEF Connect
  <2>3. CASE ~FreshAtSocket(request[t[1]].expiresAt)
    BY <1>5, <2>3, EndsMatches DEF Connect, EndsEarly
  <2> QED BY <2>2, <2>3
<1>6. ASSUME NEW t \in Tasks, Finish(t)
      PROVE  PermitsMatchProbes'
  BY <1>6, EndsMatches DEF Finish
<1>7. ASSUME UNCHANGED <<probe, semaphore>>
      PROVE  PermitsMatchProbes'
  BY <1>7 DEF PermitsMatchProbes, Waits, semaphore
<1>8. ASSUME \/ \E d \in Domains, e \in {0} \union (now + 1)..MaxTime : Publish(d, e)
             \/ \E r \in Requests, d \in Domains : Read(r, d)
             \/ \E r \in Requests : Generate(r) \/ Refuse(r) \/ Respond(r)
             \/ Tick \/ UNCHANGED vars
      PROVE  UNCHANGED <<probe, semaphore>>
  BY <1>8 DEF Publish, Read, Generate, Refuse, Respond, Tick, vars, semaphore
<1> QED BY <1>1, <1>2, <1>4, <1>5, <1>6, <1>7, <1>8 DEF Next

(* The routes lose no permit and lend none: whoever waits, waits for a probe *)
(* that is under way and ends by its deadline (Semaphore.run's finally).     *)
(* This is what EveryRequestIsAnswered needs besides fairness.               *)
THEOREM NoPermitIsLost == Spec => []PermitsAreInUse
<1>1. Init => PermitsMatchProbes
  BY DEF Init, Sem!Init, PermitsMatchProbes, Waits
<1>2. IInv /\ SemIInv /\ PermitsMatchProbes /\ [Next]_vars => PermitsMatchProbes'
  BY StepMatches
<1>3. SemIInv /\ PermitsMatchProbes => PermitsAreInUse
  <2> SUFFICES ASSUME SemIInv, PermitsMatchProbes, queue # <<>>
               PROVE  \E t \in holding : probe[t] # "none"
    BY DEF PermitsAreInUse
  <2>1. permits = 0 /\ permits + Cardinality(holding) = Permits /\ Permits # 0
    BY SameCount, TargetsAssumption DEF SemIInv, Sem!WaitingMeansFull
  <2>2. holding # {}
    BY <2>1, FS_EmptySet
  <2> QED BY <2>2 DEF PermitsMatchProbes, SemIInv, Sem!TypeOK
<1> QED BY <1>1, <1>2, <1>3, Invariant, SemaphoreInvariant, PTL DEF Spec

=============================================================================
