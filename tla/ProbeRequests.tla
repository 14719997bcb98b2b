---------------------------- MODULE ProbeRequests ----------------------------
(* The probe routes of apps/collector/src/jobs/probe-routes.ts for one tenant*)
(* with what they share: the persisted DNS evidence, the tenant's allowlist  *)
(* (probes/allowlist.ts) and the process-wide semaphore (ProbeSemaphore).    *)
(* A request reads the evidence of its domain, puts the targets on the       *)
(* allowlist with the evidence's expiry, waits for permits and probes.  Time *)
(* passes, snapshots are replaced and other requests run at every await in   *)
(* between: an expiry is checked again after each of them.                   *)
EXTENDS Integers, Sequences, SequencesExt, FiniteSets

CONSTANTS
  Requests,   \* the HTTP requests that can be in progress
  Domains,    \* the tenant's registered domains
  Hosts,      \* probe destinations (an MX host on port 25, a policy host on 443)
  Targets,    \* for each domain the sequence of hosts its evidence names
  Permits,    \* PROBE_CONCURRENCY: the semaphore, and the batch of one request
  MaxTime     \* bound of the clock

ASSUME TargetsAssumption ==
  /\ Domains # {} /\ Targets \in [Domains -> Seq(Hosts)]
  /\ \A d \in Domains : Targets[d] # <<>> /\ IsInjective(Targets[d])
  /\ Permits \in Nat \ {0} /\ MaxTime \in Nat

VARIABLES
  now,        \* Date.now()
  persisted,  \* for each domain the expiries of the evidence in its snapshots
  latest,     \* the expiry of the evidence in the latest snapshot, 0 if none
  allowlist,  \* for each host the expiresAt of its entry, 0 if it has none
  request,    \* for each request [phase, domain, expiresAt, todo]
  probe,      \* for each <<request, host>> where its function stands
  permits, queue, holding     \* the semaphore

semaphore == <<permits, queue, holding>>
vars == <<now, persisted, latest, allowlist, request, probe, permits, queue, holding>>

Tasks == Requests \X Hosts
Batches ==
  {[i \in 1..Len(hosts) |-> <<r, hosts[i]>>] : r \in Requests,
     hosts \in {<<h>> : h \in Hosts}
             \union UNION {{SubSeq(Targets[d], i, j) : i, j \in 1..Len(Targets[d])} : d \in Domains}}
Sem == INSTANCE ProbeSemaphore WITH Tasks <- Tasks, Batches <- Batches, Permits <- Permits,
         permits <- permits, queue <- queue, holding <- holding

NoRequest(phase) == [phase |-> phase, domain |-> CHOOSE d \in Domains : TRUE, expiresAt |-> 0, todo |-> <<>>]

Init ==
  /\ now = 0
  /\ persisted = [d \in Domains |-> {}]
  /\ latest = [d \in Domains |-> 0]
  /\ allowlist = [h \in Hosts |-> 0]
  /\ request = [r \in Requests |-> NoRequest("idle")]
  /\ probe = [t \in Tasks |-> "none"]
  /\ Sem!Init

(* Variant: nobody looks at the clock after the first check.                 *)
FreshOnce(expiresAt) == expiresAt > 0

(* isExpiryFresh, and what isAllowed finds after it dropped expired entries. *)
Fresh(expiresAt) == expiresAt > now

FreshAtSocket(expiresAt) == Fresh(expiresAt)

IsAllowed(h) == allowlist[h] > now

(* The collector publishes a complete snapshot whose answers are fresh until *)
(* queriedAt + min(TTL, five minutes).  A snapshot that is not complete, or  *)
(* has no such records, leaves the domain without evidence.                  *)
Publish(d, expiresAt) ==
  /\ latest' = [latest EXCEPT ![d] = expiresAt]
  /\ persisted' = [persisted EXCEPT ![d] = @ \union ({expiresAt} \ {0})]
  /\ UNCHANGED <<now, allowlist, request, probe, semaphore>>

(* loadPersistedMxEvidence, loadPersistedMtaStsEvidence: the reads.          *)
Read(r, d) ==
  /\ request[r].phase = "idle"
  /\ Fresh(latest[d])
  /\ request' = [request EXCEPT ![r] =
       [phase |-> "read", domain |-> d, expiresAt |-> latest[d], todo |-> Targets[d]]]
  /\ UNCHANGED <<now, persisted, latest, allowlist, probe, semaphore>>

(* Variant: an entry gets the default TTL of five minutes, here two ticks.   *)
DefaultTtl(r) == now + 2

(* generateFromDnsResults sets an entry per target, over any it had, with    *)
(* the expiry of this evidence.                                              *)
EntryExpiry(r) == request[r].expiresAt

WithEntries(r) ==
  [h \in Hosts |-> IF h \in ToSet(Targets[request[r].domain])
                   THEN EntryExpiry(r) ELSE allowlist[h]]

(* The hosts whose probes start with one Promise.all: one host for a request *)
(* that names it (/mta-sts, or /smtp-starttls with hostname), else the next  *)
(* `concurrency` MX hosts.                                                   *)
BatchSize(todo) == IF Len(todo) < Permits THEN Len(todo) ELSE Permits
BatchOf(r, hosts) == [i \in 1..BatchSize(hosts) |-> <<r, hosts[i]>>]

(* Variant: the batch itself is the only bound, as before the semaphore.     *)
StartAtOnce(batch) ==
  /\ holding' = holding \union ToSet(batch)
  /\ UNCHANGED <<permits, queue>>

Acquire(batch) == Sem!Enter(batch)

EnterBatch(r, hosts) ==
  /\ Acquire(BatchOf(r, hosts))
  /\ probe' = [t \in Tasks |->
       IF \E i \in 1..BatchSize(hosts) : t = <<r, hosts[i]>> THEN "called" ELSE probe[t]]
  /\ request' = [request EXCEPT ![r] =
       [phase |-> "probing", domain |-> @.domain, expiresAt |-> @.expiresAt,
        todo |-> SubSeq(hosts, BatchSize(hosts) + 1, Len(hosts))]]

(* After the last read, without an await: the evidence is checked, the       *)
(* entries are made, and the first batch calls run.                          *)
Authorize(r, hosts) ==
  /\ request[r].phase = "read"
  /\ Fresh(request[r].expiresAt)
  /\ hosts \in {request[r].todo} \union {<<h>> : h \in ToSet(request[r].todo)}
  /\ allowlist' = WithEntries(r)
  /\ EnterBatch(r, hosts)
  /\ UNCHANGED <<now, persisted, latest>>

(* /allowlist/generate makes the entries and probes nothing; between its two *)
(* loads the first evidence may have expired, which nothing checks.          *)
Generate(r) ==
  /\ request[r].phase = "read"
  /\ allowlist' = WithEntries(r)
  /\ request' = [request EXCEPT ![r] = NoRequest("idle")]
  /\ UNCHANGED <<now, persisted, latest, probe, semaphore>>

(* The reads took too long: 403, stale-evidence.                             *)
Refuse(r) ==
  /\ request[r].phase = "read"
  /\ ~Fresh(request[r].expiresAt)
  /\ request' = [request EXCEPT ![r] = NoRequest("idle")]
  /\ UNCHANGED <<now, persisted, latest, allowlist, probe, semaphore>>

Answered(r) == \A h \in Hosts : probe[<<r, h>>] = "none"

(* await Promise.all(batchPromises): the loop goes on when all have ended.   *)
NextBatch(r) ==
  /\ request[r].phase = "probing" /\ Answered(r)
  /\ request[r].todo # <<>>
  /\ EnterBatch(r, request[r].todo)
  /\ UNCHANGED <<now, persisted, latest, allowlist>>

Respond(r) ==
  /\ request[r].phase = "probing" /\ Answered(r)
  /\ request[r].todo = <<>>
  /\ request' = [request EXCEPT ![r] = NoRequest("idle")]
  /\ UNCHANGED <<now, persisted, latest, allowlist, probe, semaphore>>

Ends(t) ==
  /\ Sem!Leave(t)
  /\ probe' = [probe EXCEPT ![t] = "none"]

(* Variant: a probe that returns early keeps its permit.                     *)
EndsWithoutRelease(t) ==
  /\ UNCHANGED semaphore
  /\ probe' = [probe EXCEPT ![t] = "none"]

EndsEarly(t) == Ends(t)

(* The function starts with its permit.  It returns before the lookup of the *)
(* host's address when the evidence expired in the queue or the allowlist    *)
(* has no entry.                                                             *)
MayStart(t) == Fresh(request[t[1]].expiresAt) /\ IsAllowed(t[2])

Start(t) ==
  /\ t \in holding /\ probe[t] = "called"
  /\ IF MayStart(t)
     THEN probe' = [probe EXCEPT ![t] = "resolving"] /\ UNCHANGED semaphore
     ELSE EndsEarly(t)
  /\ UNCHANGED <<now, persisted, latest, allowlist, request>>

(* The lookup answered: the expiry is checked once more before the socket.   *)
Connect(t) ==
  /\ probe[t] = "resolving"
  /\ IF FreshAtSocket(request[t[1]].expiresAt)
     THEN probe' = [probe EXCEPT ![t] = "connected"] /\ UNCHANGED semaphore
     ELSE EndsEarly(t)
  /\ UNCHANGED <<now, persisted, latest, allowlist, request>>

(* Answer, failure or deadline of the lookup or of the conversation.         *)
Finish(t) ==
  /\ probe[t] \in {"resolving", "connected"}
  /\ Ends(t)
  /\ UNCHANGED <<now, persisted, latest, allowlist, request>>

Tick ==
  /\ now < MaxTime
  /\ now' = now + 1
  /\ UNCHANGED <<persisted, latest, allowlist, request, probe, semaphore>>

Next ==
  \/ \E d \in Domains, e \in {0} \union (now + 1)..MaxTime : Publish(d, e)
  \/ \E r \in Requests, d \in Domains : Read(r, d)
  \/ \E r \in Requests : \E hosts \in {request[r].todo} \union {<<h>> : h \in Hosts} :
       Authorize(r, hosts)
  \/ \E r \in Requests : Generate(r) \/ Refuse(r) \/ NextBatch(r) \/ Respond(r)
  \/ \E t \in Tasks : Start(t) \/ Connect(t) \/ Finish(t)
  \/ Tick

(* A request that began runs on: its reads and its probes have deadlines.    *)
Fairness ==
  /\ \A r \in Requests :
       WF_vars(Refuse(r) \/ NextBatch(r) \/ Respond(r)
               \/ \E hosts \in {request[r].todo} \union {<<h>> : h \in Hosts} : Authorize(r, hosts))
  /\ \A t \in Tasks : WF_vars(Start(t)) /\ WF_vars(Finish(t))

Spec == Init /\ [][Next]_vars /\ Fairness

-----------------------------------------------------------------------------
TypeOK ==
  /\ now \in 0..MaxTime
  /\ persisted \in [Domains -> SUBSET (1..MaxTime)]
  /\ latest \in [Domains -> 0..MaxTime]
  /\ allowlist \in [Hosts -> 0..MaxTime]
  /\ request \in [Requests -> [phase : {"idle", "read", "probing"}, domain : Domains,
                               expiresAt : 0..MaxTime, todo : Seq(Hosts)]]
  /\ probe \in [Tasks -> {"none", "called", "resolving", "connected"}]

(* A probe opens its socket only while persisted evidence that names the     *)
(* host is fresh, however long it waited for its permit or for the lookup    *)
(* (probe-routes.ts: "The evidence may expire while waiting for a permit").  *)
SocketsNeedFreshEvidence ==
  [][\A t \in Tasks :
       (probe'[t] = "connected" /\ probe[t] # "connected") =>
         \E d \in Domains : /\ t[2] \in ToSet(Targets[d])
                            /\ \E e \in persisted[d] : e > now]_vars

(* An entry never outlives the evidence it was derived from: its expiry is   *)
(* that of a snapshot of a domain that names the host.                       *)
EntriesComeFromEvidence ==
  \A h \in Hosts : allowlist[h] # 0 =>
    \E d \in Domains : h \in ToSet(Targets[d]) /\ allowlist[h] \in persisted[d]

(* All routes together implement the semaphore: permits are taken before and *)
(* given back after every probe, on every early return.                      *)
KeepsSemaphore == Sem!Init /\ [][Sem!Next]_(Sem!vars)

(* Every request is answered: a batch never waits for itself or for probes   *)
(* that have ended.                                                          *)
EveryRequestIsAnswered == \A r \in Requests : request[r].phase # "idle" ~> request[r].phase = "idle"
=============================================================================
