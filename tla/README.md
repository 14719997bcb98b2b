# A verification of dns-ops

TLA+ models of the parts of dns-ops where several actors change the same state
or where a verdict must be earned by its evidence, TLC runs that check them on
small instances, and TLAPS proofs of their main properties for instances of
every size. Paths below are relative to the repository's root.

## The system

Two Node processes, `apps/web` (Hono API, MCP server and UI) and
`apps/collector` (Hono API and BullMQ workers), share one PostgreSQL database at
READ COMMITTED. Redis holds the job queues. The web application calls the
collector over HTTP through `collector-proxy.ts`. Several instances of each
process may run, a worker runs five collections at a time, and jobs are retried
three times, so everything below happens concurrently.

| Component | State | Operations | Hard because | Correct when | Module |
|---|---|---|---|---|---|
| Operational conditions, `packages/db/src/repos/operations.ts` | rows of signals, cases, case events, and the alert of a signal | `observe`, `resolveCase`, `setCaseDisposition` | transactions interleave statement by statement, take locks in opposite orders, are retried or lost; snapshots arrive out of order | signal, case and alert agree; nothing goes back to older evidence; no update is lost; no deadlock | `ConditionStore` |
| Alert rows, `repos/portfolio.ts` | status, claim token, lease | claim, release, complete, `updateStatus` | claims expire under their holders; operators act on what they read earlier | only the holder of the claim completes it | `AlertDelivery` |
| Alert delivery, `jobs/operational-condition-finalizer.ts`, `notifications/webhook.ts` | the claim a sender was given | claim, post, complete or release | stalls, crashes, lost answers, reopened alerts | sent means delivered; duplicates only after faults; no alert is forgotten | `AlertDelivery` |
| Finalizer, job workers and queues, `jobs/worker.ts` | jobs in Redis, `lastCheckAt` | refresh, collect, evaluate, observe every fault, deliver, resolve healthy cases, stamp | a failure in the middle ends it; overlapping, repeated and stalled jobs; monitors that are paused and deleted under it | every fault is delivered and every recovery seen; a check is stamped only when it had its effects | `MonitoringJobs` |
| Condition evaluation, `jobs/operational-condition-evaluation.ts` | none | evidence to FAULTY, HEALTHY, STALE, ... | partial, cut or old evidence | no verdict without conclusive evidence; age never heals | `ConditionEvaluation` |
| Rule packs, `packages/rules` | none | observations to findings | vantages that fail or disagree, rules that throw | absence is not claimed of what is there; disagreement is reported | `DnsRules`, `MailRules`, `ScanVerdicts` |
| Collection, `dns/collector.ts` | snapshot, observations, record sets | query both vantages, follow aliases, store | partial failures, loops, the bound on hops | a complete snapshot has its evidence | `Collection` |
| Findings, `dns/collector.ts`, `hono/routes/findings.ts` | findings, ruleset version and coverage of a snapshot | evaluate, replace, publish | readers that evaluate beside the collector; failing statements | what is published as complete is what the rules find | `FindingsPublication` |
| Probe semaphore, routes and allowlist, `probes/`, `jobs/probe-routes.ts` | permits and waiters; entries per tenant | acquire, release; authorize, probe, expire | hand-over of permits; evidence that expires while a probe waits | the limit holds, no permit is lost, sockets need fresh evidence | `ProbeSemaphore`, `ProbeRequests` |
| Rate limits, `middleware/rate-limit.ts`, `mcp-scan-rate-limit.ts` | token buckets in memory | refill and consume | rounding | never more than the rate, no starvation | `TokenBucket` |
| MCP commands, `repos/mcp-command.ts`, `hono/lib/mcp-*-service.ts` | rows of commands | claim, perform, complete | three separate steps, concurrent and repeated calls, crashes | at most one effect per key, one answer per key | `McpCommands` |
| Collector proxy, `hono/lib/collector-proxy.ts` | circuit breaker in memory | `allowRequest`, `recordSuccess`, `recordFailure` | overlapping requests end in any order | never wedged, closes again | `CollectorCircuit` |
| Baselines, `repos/operational-baseline.ts` | active and superseded baselines | `accept` | jobs hold evaluations of the superseded one | the next collection puts it right | `MonitoringJobs` |
| Monitored domains, `routes/monitoring.ts` | `isActive`, schedule, `lastCheckAt` | create, toggle, update, delete | read, then write without a guard | queued work acts only on the monitor it was queued for | `MonitoringJobs`, `ConditionStore` |
| Scheduler, fleet and shared reports, legacy alerts, drills, portfolio | rows, and a map in memory | create, complete, publish, expire | retries, crashes, restarts | a report ends; a schedule is kept | |
| Remediation, suggestions, parity | rows | status changes | no guard on the old status | | |
| Contracts, logging, auth, UI | none that is shared | pure functions and I/O | | | |

The components interact like this. A refresh queues a collection job for every
monitored domain whose check is due. The job collects a snapshot, stores and
publishes its evidence and findings, and calls the finalizer. The finalizer
evaluates the snapshot, runs `observe` for every fault and delivers the alert it
returns if that is pending; then it runs `resolveCase` for every open case the
snapshot shows healthy, and the job stamps the monitored domain. Operators
change cases, baselines and alerts through routes and MCP tools. MCP scan
requests are charged to a token bucket and go through the proxy to the
collector. Probe requests open sockets to hosts that a stored snapshot names.
Deleting a monitored domain deletes its alerts.

The models compose accordingly. `MonitoringJobs` takes each transaction of
`ConditionStore` and each delivery of `AlertDelivery` as one step, which
`ConditionLifecycle` (a refinement, proved for resolutions that do not overlap)
and the claims justify.
`ConditionStore` and `AlertDelivery` meet in the alert: each takes for granted
what the other does to it. `AlertLifecycle` says how the status of an alert may
move at all, with its own targets for observing, resolving, answering and
deleting, and both modules are proved to implement it, so neither
assumes steps of the other that this contract does not have.
`ProbeRequests` contains `ProbeSemaphore` and implements it, by proof.
`ScanVerdicts` puts `RecordSets`, `DnsRules`, `MailRules` and
`ConditionEvaluation` in the place where the collector calls them.

`PROJECT.json` lists every component with its sources and status, and under
`hazards` what can go wrong at which line and which property would show it.

## The modules

| Module | Models |
|---|---|
| `AlertRows` | alert statuses and the transitions the code allows |
| `AlertLifecycle` | the abstract specification of one alert: how its status may move; `ConditionStore` and `AlertDelivery` both implement it |
| `ConditionRows` | the rows of one condition, and the functions from an old row to a new one |
| `ConditionLifecycle` | the abstract specification: every operation on a condition is one atomic step |
| `ConditionStore`, `ConditionStoreProofs` | the same operations as PostgreSQL transactions, one statement per step |
| `AlertDelivery`, `AlertDeliveryProofs` | claims, leases and posts of one alert |
| `MonitoringJobs`, `MonitoringJobsProofs` | refresh, collection jobs and finalization of one monitored domain |
| `FindingsPublication`, `FindingsPublicationProofs` | the findings of one snapshot and who publishes them |
| `Collection`, `CollectionProofs` | the queries of both vantages, aliases, the stored snapshot, and the authorization of probes from it |
| `RecordSets`, `DnsRules`, `MailRules` | what a snapshot keeps of its queries, and the rule packs, as pure operators |
| `ConditionEvaluation` | the outcome of a baseline, as pure operators |
| `ScanVerdicts`, `ScanVerdictsProofs` | scan, rule engine and evaluation together, against what was really there |
| `ProbeSemaphore` | the abstract specification of the semaphore |
| `ProbeRequests`, `ProbeRequestsProofs` | probe routes, allowlist and semaphore; a refinement of `ProbeSemaphore` |
| `TokenBucket` | the rate limiters beside exact buckets |
| `CollectorCircuit` | the circuit breaker |
| `McpCommands` | idempotent MCP commands |
| `AdmissionProofs` | theorems about the three modules above, which share no name |
| `MC*` | the instances: sets, functions and symmetry for TLC; scalar bounds are in the `.cfg` files |

Some modules define operators marked `variant`: a rule as a plausible mistake
would leave it. No action uses them. Each was put in the place of the rule beside
it to see that the property that depends on the rule fails (`mutants` in
`PROJECT.json`).

### ConditionRows, ConditionLifecycle, ConditionStore

*State.* `signal`, `internalCase`, `caseEvents` and `alert` are the committed
rows of one condition key. No transaction of `OperationalConditionService`
touches two conditions, so one is enough. `outcome[s]` is what snapshot `s`
says of the condition; snapshots are numbered by `createdAt`, and a snapshot
number also serves as the time between snapshots, because the code compares only
`createdAt` of snapshots with each other and with `updatedAt` of the case. 0 is
SQL NULL. `monitor` is the monitored domain. `pc`, `job`, `read` and `write` are
the statement, arguments, selected rows and uncommitted rows of each worker.

*Actions.* One per statement: `ObserveReadsSignal` to `ObserveNotifies`,
`ResolveReadsCase` to `ResolveClosesAlert`, `DisposeReadsCase` and
`DisposeUpdatesCase`, then `Commit`. Reads that cannot change what follows (the
tenant checks of rows that never change owner) are folded into the statement
next to them. An UPDATE waits while another transaction holds the row it
matches (`Unlocked`) and then matches again (`SignalMoved`, `CaseMoved`,
`AlertMoved`); an INSERT waits for another insert under the unique key. A
predicate that matches nothing, or error 23505, is a `Conflict`: `observe`
starts over up to three times in all, the others throw. `Abort` is a lost
connection or process at any point. `AlertChange` is what delivery and operators
do to the alert in between, `DeleteMonitor` and `CreateMonitor` what an operator
does to the monitored domain. A row inserted by `InternalCaseRepository.create`
carries the time its transaction started, hence the choice in `ObserveOpensCase`.

*Abstractions.* The evidence checks of `resolveCase` (complete, conclusive,
healthy, not among the active conditions) are the guard `outcome[s] =
"HEALTHY"` of `StartResolve`, since the finalizer passes the result of its own
evaluation. `isActive` is not a variable: the finalizer returns at once for an
inactive monitor, and an observation that has not started is no step. No
production code moves a case to BLOCKED or DISMISSED; the table of transitions
has them, no action does.

### AlertDelivery

The claim on one alert, as rows see it: every call is one guarded UPDATE.
`Start` to `Release` are the calls of one sender, either
`deliverCanonicalAlert`, which claims and releases itself, or the notification
route, where `sendAlertNotification` does: the effects on the row are the same.
`lease` counts down; a lease that has run out and no lease are both 0, since the
claim predicate does not distinguish them. A post is aborted by its timeout, 5 s
against a lease of 30 s. Tokens are random UUIDs, so a claim takes one that
nobody holds. `Resolve`, `Reopen` and `Delete` are the commits of the other
components. In the other direction, `AlertTransition` in `AlertRows` is all that
this module does to the alert between two commits of `ConditionStore`;
`AlertLifecycle` states both directions, and its `alert` is the status field
here and the row there.

`occurrence`, `claimed`, `held`, `accepted` and `faults` are history. A fault is
a crash, an accepted post reported as failed, or a lease that runs out in the hands
of a stalled sender; faults are bounded per occurrence, and only when they could
cost this occurrence a duplicate.

### CollectorCircuit

The four fields of `CollectorCircuitBreaker` and, for every request, whether it
waits for `fetch` or for the body. Methods run without interruption; requests
interleave at the two awaits. `failures` stops at the threshold, because the
code only asks whether it has been reached. `cooling` counts down from
`COOLDOWN_MS`. A request that was under way while the collector was down may
fail or succeed, any other succeeds. Line 217 returns after `allowRequest` when
the proxy is not configured; the configuration is fixed at start, and a process
without it never sends a request, so this is not modelled.

### McpCommands

One row per key, where a key stands for tenant, actor, operation and idempotency
key. `Find`, `Insert` and the second `Find` are `claim`; `Charge` is the quota of
scan requests; `Perform` is the scan, the disposition or the look-up; `Complete`
is the guarded update. `Crash` loses a call anywhere. `effects`, `charged` and
`answers` are history.

### MonitoringJobs

*State.* `monitor` is the row of the domain, with an id for every time it was
created; `due` stands for `lastCheckAt` being old enough; `faults` are the
conditions that the domain really contradicts now; `open`, `alert` and `claim`
are what the transactions leave; `job` says for every job which call of
`processCollectDomain` comes next, what its snapshot says and which conditions
are still to be done. Snapshots are not numbered: `older`, `stale` and `touched`
keep for each job which comparisons of `createdAt` would fail, which is all the
code asks, and keeps the state space finite without a bound on time. `todo` is a
set; the code lists conditions in the order of their keys, so a step takes the
`First` of it and leaves the `Rest`.

*Actions.* `Refresh` queues a collection when the check is due and looks at no
job that is already there. `Collect` to `Stamp` are the steps of a job;
everything that throws is `Throw`, the retry of BullMQ. `Die` is a worker that
stalls: its claims stay until `LeaseRunsOut`. `Change` and `AcceptBaseline` are
the world and the operator; `Toggle`, `Delete` and `Create` the routes on the
monitor. A snapshot may be complete, partial, or say nothing of some conditions.

*Abstractions.* One tenant and one domain, since no job touches two. A partial
snapshot carries no verdicts, as the evaluation gives none for it. `MaxEvents`
bounds what the world does to the jobs: a liveness property under a bounded
number of faults says that the system recovers when they cease.

### FindingsPublication

*State.* The snapshot row, the stored evidence, the committed findings as pairs
of ruleset version and key, and for every transaction what it has written.
*Actions.* The collector's statements are single commits, in the order of
`storeResults` and `evaluateAndPersistFindings`; each may fail (the code catches
and goes on, or throws) and the process may die. A web request reads, evaluates
and publishes in a transaction at READ COMMITTED: it waits at the unique index of
the findings and at the snapshot row, and PostgreSQL breaks a cycle of waits by
failing one of them. `EarlyReaders` lets requests come between the storing of
the snapshot and of its evidence.

### Collection

One collection of the aliases of `_mta-sts.<domain>`, with every answer an
authoritative server may give (with or without AA, another alias, a timeout, no
address) and any one query of the public resolver broken; then the walk of
`persisted-dns-authorization.ts` through the stored record sets. Zones are a
function from owners to aliases; `MCCollection` takes every line and every lasso
up to two beyond the bound of five hops, since the walk can reach no other
shape. DKIM selectors and delegation ask more queries of the same kind.

### RecordSets, DnsRules, MailRules, ConditionEvaluation, ScanVerdicts

The pure modules follow the order of tests in the code; each rule is an operator
from observations to at most one finding. The filters of the rules
(`Successes`, `Failures`, `OfServers`) are sets of positions in the sequence of
observations, and where the code takes the first match an operator takes the
least position. A vantage gives a response, a code with the TC flag and the
answers, and what is stored keeps all three beside the status that
`determineStatus` makes of them: the rules read the status, while
`isConclusiveDnsResult` reads the code. The two differ for a truncated response
(TCP does not exclude one: only UDP is asked again), which is conclusive when its
code is NOERROR or NXDOMAIN but neither a success nor a failure to the rules. A TXT
value is a record with the fields that the parsers look at; URLs and instants are small numbers, with one
unit for the coarsest step the comparisons tell apart. `ScanVerdicts` asks each
query of each vantage, runs all rules (those in `broken` throw, and the engine
turns that into partial coverage), walks redirects, reads pages up to a limit,
shakes hands, and then lets time pass. It remembers in `truth` what was really
there: the end of the redirects and the directives beyond the cut. The
evaluation is a state function, because the finalizer evaluates whenever it is
called, not once.

### ProbeSemaphore, ProbeRequests

`ProbeSemaphore` has two actions: a batch of tasks enters (all calls of `run` in
one turn of the event loop) and a task leaves, handing its permit to the first
waiter. `ProbeRequests` has the awaits of the probe routes around it: the
evidence is read, the targets are put on the allowlist with its expiry, a batch
waits for permits, each probe checks the expiry again after its permit and after
its look-up, connects, and ends. In between time passes, snapshots are replaced
and other requests add and expire entries.

### TokenBucket

The bucket as it is in both limiters: whole tokens only, `lastRefill` moved to
now when tokens were added, so that the fraction of a token is forgotten. Beside
it run two buckets without rounding, one at the full rate and one at half of it;
they are history and the code's state does not depend on them.

## What the runs check

| Run | Result | Distinct states | Bounds |
|---|---|---|---|
| `conditions_safety` | holds | 2.0 million | 2 workers, 3 snapshots, 2 attempts, case versions up to 3, 2 monitors in turn |
| `conditions_serial` | holds | 1.8 million | 2 workers, 4 snapshots, 2 attempts, versions up to 2, 1 monitor |
| `conditions_overlap` | violated | 327 thousand | 2 workers, 4 snapshots, 1 attempt |
| `delivery` | holds | 289 thousand | 2 senders, 1 operator, 4 tokens, 2 occurrences, 1 fault each, lease 2, timeout 1 |
| `jobs` | holds | 514 thousand | 2 jobs, 2 conditions, 2 attempts, 2 events |
| `findings` | holds | 41 thousand | 2 requests, 3 findings, faults, no early requests |
| `collection` | holds | 636 thousand | every line and lasso of aliases up to 7, 2 servers, 5 hops, one broken query |
| `verdicts` | holds | 846 thousand | a scene for each rule pack and probe, a resolver and 2 servers, 2 redirects, skew 1, clock to 4 |
| `probes` | holds | 35 thousand | 2 requests, 1 domain with 3 hosts, 2 permits, clock to 2 |
| `bucket` | holds | 17 thousand | limit 4, window 7, clock to 20 |
| `circuit` | holds | 50 thousand | 4 requests, threshold 3, cooldown 2 |
| `mcp_safety` | holds | 320 thousand | 3 callers, a scan and another command, 2 inputs |

Why the bounds are enough to be interesting. *Conditions*: two workers give
every pair of transactions; three snapshots give a fault, a healthy one and a
newer fault, and the fourth in `conditions_serial` lets an old one be finalized
after a resolution; two attempts give a retry and its exhaustion; two monitors
give a deletion and a new epoch. *Delivery*: two occurrences let a claim survive
into the next one. *Jobs*: two jobs overlap in every way, two conditions let the
failure of the first keep the second from being done, two attempts let a job be
given up; two events are, for instance, a pause and a failing delivery, or two
deaths. *Findings*: two requests race each other and the collector; one finding
of an absence that the full evidence contradicts, and two that only the full
evidence gives, tell every publication apart. *Collection*: aliases end before,
at and behind the bound, or loop. *Probes*: three hosts and two permits give two
batches, of which a second request can hold the permits. *Bucket*: 4 and 7 have
no common divisor, so every refill rounds. *Circuit*: more requests than the
threshold let late failures arrive after it opened. *MCP*: an owner, a racing
insert and a replay. The theorems below hold without these bounds.
`CHECK_DEADLOCK FALSE` appears where the bounds let the system stop: no
snapshots or events left, the alert deleted, the request answered, the scan
done.

`conditions_safety` asks what holds in every environment. The alert is resolved
exactly when the signal is (`AlertFollowsSignal`); the event log is a chain that
accounts for each version of the case (`CaseHistoryIsAChain`); transactions
never wait for each other in a cycle (`LocksNeverCycle`); the signal never goes
back to older evidence (`SignalMovesForward`); a case is resolved only together
with its signal and on newer, healthy evidence (`CasesResolveOnFreshEvidence`);
and of the alert, the transactions move it only as `AlertLifecycle` says: a
pending, sent or acknowledged alert is not made pending again by an observation
that decided on an older row (`ImplementsAlertLifecycle`).

`conditions_serial` asks what holds in addition when no two resolve loops of the
domain overlap (`SerialResolves`): signal and case agree, an old snapshot never
reopens a case, and the transactions implement `ConditionLifecycle`. All
variables of the abstract specification are the committed rows, so the
refinement mapping is the identity; each commit is an abstract step, any other
statement a stutter. The code does not ensure `SerialResolves`; it holds as long as
one finalization of a domain runs at a time.

`conditions_overlap` shows that it is needed. A resolver that listed the case
OPEN reads it after another resolver committed; the case is RESOLVED now. An
observe reopens signal, case and alert. The first resolver reads the ACTIVE
signal, its snapshot is newer, and `transition` from RESOLVED to RESOLVED
returns the case it was given without the compare-and-set (line 168). It commits
signal and alert RESOLVED beside an OPEN case.

`delivery`: an alert is `sent` only if this occurrence was accepted; no two
senders work on one occurrence unless one has outlived its lease; the receiver
gets an occurrence more than once only after as many faults; the guarded updates
of senders and operators move the alert only as `AlertLifecycle` says, however
old what they read (`ImplementsAlertLifecycle`); and a pending alert does not
stay pending. Fairness: time passes; a collection starts again and again
while the alert is pending, because the domain is monitored by a repeatable job
and `needsCanonicalDelivery` accepts a pending alert; a sender that has not
crashed goes on; a post that is tried again and again succeeds in the end
(strong fairness of `PostSucceeds`: without it a receiver that is down for ever
keeps the alert pending, and rightly so). Operators and resolutions owe nothing.
Without the bounds on faults a sender could crash for ever; the bound is the
assumption that it does not.

`jobs`: `lastCheckAt` is stamped only for a complete snapshot of which every
fault that is not superseded has its case and its delivered alert and every
recovery has closed its case (`StampsAreEarned`); a fault that lasts is
delivered in the end (`FaultsAreDelivered`) and a recovery that lasts closes the
case (`RecoveriesAreSeen`), after any two events of the world and with any
overlap of jobs. Fairness: the interval passes, the repeatable refresh runs,
leases run out, and a job that is not disturbed goes on. Nothing is assumed of
operators, of failures or of deaths but that they are bounded. The run shows why
several jobs of one domain do no lasting harm: what the older one cannot do
because its evidence is superseded, the next collection does.

`findings`: whoever reads a snapshot with the current ruleset version and
complete coverage reads exactly what the rules find in all of its evidence
(`PublishedIsEvaluated`); findings of older rulesets stay and no refresh is seen
half done (`HistoryIsKept`); every request is answered, also when two of them
wait for each other and the database fails one (`EveryRequestEnds`; fairness: the
collector and each request take their next step). The assumption is that
requests come after the evidence is stored: `FindingsPublication_early.cfg`
drops it, and a request that meets the snapshot before its evidence publishes
the findings of no evidence as complete.

`collection`: a socket is authorized only for the owner at which the aliases
really end, within the bound, and with every server agreeing
(`AuthorizedTerminalIsReal`); collector and authorization count hops alike, so
aliases that end within the bound are followed to their end by both
(`ShortChainsAreAuthorized`); a snapshot is complete only if it has a conclusive
answer for every owner on the way (`CompleteMeansAnswered`), because the
evaluation takes a missing one for an absence.

`verdicts`: a baseline is decided only on a complete snapshot, by what was
really there, and the evaluation can read what the probes wrote
(`VerdictsAreEarned`); a later finalization of the same snapshot never turns a
fault into health (`AgeingNeverHeals`); whenever vantages gave different answers
a mismatch rule says so (`DisagreementIsReported`); a mail record is never
reported missing while a whole response has it, nor MX and SPF when every vantage
failed and no response was truncated (`AbsenceIsUnanswered`). Truncated responses
are among those the vantages give, and are the exception in both properties about
records: an SPF baseline is healthy exactly when a whole response has an SPF text,
so a text that came only in truncated ones makes it FAULTY, and MX and SPF are
reported missing although the record is stored. `ScanVerdicts_truncated.cfg`
asks for the claim without the exception and gets this counterexample.

`probes`: probes open sockets only while the evidence that names the host is
fresh (`SocketsNeedFreshEvidence`); no allowlist entry outlives its evidence
(`EntriesComeFromEvidence`); every request is answered although batches wait for
permits that others hold (`EveryRequestIsAnswered`; fairness: a request goes on,
and a probe starts and ends, as it has deadlines of its own); the routes
implement the semaphore (`KeepsSemaphore`).

`bucket`: the integer bucket admits nothing that an exact one would refuse, and
everything that an exact one of half the rate would admit with half a token to
spare; who is refused and waits the window is admitted.

`circuit`: the flag of the probe always stands for a probe still waiting, so
requests are not refused for ever; the circuit is closed exactly below the
threshold; once the collector stays up the circuit closes and stays closed.
Fairness: clients go on asking, `fetch` ends every request, the clock ticks; the
collector owes nothing.

`mcp_safety`: a key's command takes effect and is charged at most once; all
answers are one answer. A call lost after its insert leaves the row PENDING for
good: the model has this behaviour, and no document promises otherwise.

### Where the code differs from what is said of it

Seven further configurations are kept beside the runs. Each checks one sentence of
the repository, or one assumption of a run, that does not hold.

| Configuration | Property | What TLC shows |
|---|---|---|
| `CollectorCircuit_probe` | `OneProbeAtATime` | `collector-proxy.ts:72` speaks of one probe. With a probe in flight, a request sent before the circuit opened fails, `recordFailure` clears the flag, and after another cooldown a second probe is let through: one more request, not a wedged circuit |
| `FindingsPublication_early` | `PublishedIsEvaluated` | a request between snapshot and evidence, as above |
| `FindingsPublication_loser` | `UnfinishedIsUnderWay` | a GET that began before the collector published loses at the unique index, and its catch block takes the version off the snapshot that was published meanwhile: complete findings stay unpublished until a refresh |
| `Collection_timeouts` | `TimeoutsAreStored` | a query that timed out gets the code SERVFAIL, and the status is made of the code: it is stored as an error, so the rule that gives timeouts a severity of their own never sees one |
| `Collection_verified` | `CompleteIsVerified` | a nameserver whose name does not resolve counts as the conclusive answer NXDOMAIN: the snapshot of a managed zone is complete, with coverage UNKNOWN |
| `ScanVerdicts_truncated` | `AbsenceIsReal` | `docs/plans/IMPLEMENTATION_BEADS.md:205-210` asks for explicit handling of "timeout/refusal/truncation" and that failure states are "not swallowed". A response with the TC flag is stored as `truncated` (`contracts/dns.ts:112`) and counts as conclusive (`dns/collector.ts:100`), so the snapshot is complete; the MX and SPF rules filter on `success`, and their lists of failures have no `truncated` (`mail/rules.ts:37-70`, `:169-192`), so the record is certainly missing to them, with `reviewOnly` false, and an accepted SPF baseline is FAULTY, although the text is in the stored answer |
| `TokenBucket_remaining` | `RemainingIsLeft` | `X-RateLimit-Remaining` is the limit less the tokens, which is what was used |

Other facts a reader of the code should know, visible in the models:
- `CnameConflictHasACname`: the CNAME query of every scanned apex makes an empty
  record set, and the coexistence rule counts it, so the critical finding comes
  without any CNAME;
- `FailureIsNotAbsence`: the DMARC, MTA-STS and TLS-RPT rules report a certain
  absence after queries that failed; MX and SPF do not;
- one vantage that failed or had no data makes a record set inconsistent, and
  with two servers that agree the critical mismatch is reported all the same;
- the engine says that high and critical severities always need review, while
  three mail findings of severity high are made with `reviewOnly` false;
- the DKIM rule looks at the first TXT answer only, and an SPF baseline does not
  look at `maxEvidenceAgeSeconds`;
- a monitor that is paused when the finalization looks and active again before
  the stamp is stamped without a finalization (the exception in
  `StampsAreEarned`);
- while the receiver is broken, a finalization does not get beyond the first
  fault of the domain;
- a job that evaluated the old baseline may open a case after a new one was
  accepted; the next collection closes it;
- the refresh runs hourly, skips domains checked less than 54 minutes ago, and
  `lastCheckAt` is stamped at the end of a collection; one that takes more than
  six minutes is therefore skipped every other time;
- two toggles that read the same row lose one of the two.

## What is proved

TLAPS checks every step of the theorems below, for all values of the constants
that satisfy the named assumptions of the modules: `BoundsAssumption`,
`StoreAssumption`, `DeliveryAssumption`, `FindingsAssumption`,
`JobsAssumption`, `NamesAssumption`, `CollectionAssumption`, `ScanAssumption`,
`AnswersAssumption`, `AgesAssumption`, `TargetsAssumption`, `LimitAssumption`,
`CircuitAssumption`, `CommandAssumption`. They give the constants their types,
exclude empty bounds and say how parts of the world differ: the mark at the end
of a chain of aliases is no owner, no server is the public resolver, no redirect
is the status of a page, no job has the name that stands for no claim,
conditions have an order. Two theories assume more:
`FindingsPublicationProofs` the absence of early requests, and three theorems of
`ConditionStoreProofs` that no two resolutions of a condition overlap. In
particular the number of workers, senders, requests, callers, jobs, owners,
servers or answers is arbitrary. Each inductive invariant below was checked by
TLC before it was proved, and every invariant and every action property that a
passing run checks is now also the statement of a theorem.

`ConditionStoreProofs`: `TypeCorrect`, `AlertAgreement`, `CaseHistory`,
`DeadlockFreedom`, `SignalProgress`, `FreshResolution`, `AlertRefinement`, for
both values of `SerialResolves`. None of the invariants is inductive by itself.
`IInv` adds three things:
- `LocksAreExclusive`: two workers never have an uncommitted row of the same
  table;
- `Progress(w)`: what a worker at each statement has read and written, and that
  what it has written still matches the committed row it replaces. A lock keeps
  a row as it was read; this is where the compare-and-set predicates enter;
- `AbsentRows`: a signal that does not exist has seen no snapshot, and a case has
  version 0 exactly while it does not exist.

From there the argument is short. A commit replaces the rows its transaction
holds, and `Progress` says these are consistent with each other and with the
rows left alone. The alert follows the signal although the two are written by
different statements, because a transaction that changes the signal's status
holds the signal until it has brought the alert in line, and operators may not
resolve a canonical alert. Deadlock is impossible although the lock orders
differ. The dangerous pair is an observer that holds the signal and waits for
the case of a resolver that waits for the signal. That observer reopens, so the
case it read is closed; the resolver has written the case, so the one it read is
open; and a row that is awaited or locked is still the committed one, so both
read the same case. Hence every wait goes to a transaction of lower rank
(`WaitsDescend`), and a set of waiting transactions has one that is free
(`SomeoneIsFree`).

`AlertRefinement` shows that the transactions implement `AlertLifecycle`. What
`observe` and `resolveCase` decide on the alert they select is kept until they
write it (`AlertDecided`): the first notifies only of an alert that was absent
or resolved, the second closes only one that was neither. The write matches the
selected row, and the lock keeps it until the commit, so the decision still fits
the row that the commit replaces; every other statement leaves the alert alone.
No bound on overlapping resolutions is needed.

`SerialAgreement`, `SerialReopening` and `SerialRefinement` have the hypothesis
`SerialResolves`; `conditions_overlap` shows that without it the first is false.
The strengthening `SInv` says that there is one resolver at a time, that the
signal and the case that are committed agree unless a transaction under way
holds both of them, and what each transaction may still assume of the row it has
not locked: with a single resolver, a case that was listed OPEN can only be
closed by that resolver. The refinement then is a simulation with the identity
as its mapping: a commit is the step of `ConditionLifecycle` for the operation
that commits, with the rows the operation has written as the result of the
abstract one, and every other statement leaves the committed rows alone.

`AlertDeliveryProofs`: `SentWasDelivered`, `NobodySendsBeside`,
`DuplicatesAreFaults`, `DeliveryRefinement`, and type correctness. A sender that
has a claim on the pending row of its own occurrence either holds the row's
token, and then the time it has had and the lease that is left add up to
`Lease`, or has outlived the lease (`SenderInv`); tokens differ. So a second
claim needs a lease that ran out under the first. Duplicates are a balance of
debts: what the receiver has accepted of the occurrence, the senders that may
still post it or must report a failure, and the free row that invites one more,
are together at most one more than the faults (`Balance`). A claim turns the
free row into a debt, an accepted post a debt into an acceptance, and only a
fault adds one. `DeliveryRefinement` maps the status field to `AlertLifecycle`:
completing a claim and an operator's update are its `Answer`, as both match the
status they were decided on, and claims, leases and releases are stutters.

`FindingsPublicationProofs`: `PublishedFindings` and `HistoryStays`, and type
correctness. The current findings are committed all or none (`FindingsInv`); a
row that says the current version stands on findings that are committed or were
inserted by the transaction that wrote the row (`Backed`), which holds the row
lock until both become visible together. A request that starts when the evidence
is there evaluates all of it.

`MonitoringJobsProofs`: `StampsFollowEffects` and `NoClaimIsForgotten`. What a
job has achieved for a condition (`FaultsStand`, `RecoveriesStand` in `JobInv`)
must survive until it stamps, whatever other jobs, routes and the world do in
between. Of two jobs in progress one has the older snapshot (`Ordered`), and a
job that has written to a condition and is not stale there has made every older
job stale there (`OlderAreStale`). So only a newer job can undo what it did, and
when a newer one writes it makes this job stale, which is the exception the
property names. The alert of a fault can otherwise change only through a
delivery, which serves the job, or with the monitor, whose id the stamp
compares. Only `Stamp` makes `due` false, and only for the monitor that is still
there.

`NoClaimIsForgotten` is the part of `FaultsAreDelivered` that is safety: a
claimed alert is pending, and its claim belongs to a job that is posting this
very alert, which lets it go whatever comes of the post, or to a dead worker,
whose lease runs out (`ClaimsAreHeld`, inductive with the types).

`CollectionProofs`: `AuthorizedIsReal`, `ShortChainsPass`, `CompleteHasNoGap`,
and `TypeCorrect`. The owner after `n` aliases, `Nth[n]`, is what three walks are
compared with: the collector has queried exactly `Nth[0]` to `Nth[hops - 1]` and
has at most `Nth[hops]` before it; a complete snapshot has every `Nth[n]` up to
the bound, or the chain has ended; the authorization stands at `Nth[hops]` and
leaves an owner only when the servers agree on its alias. Two walks in step with
the same sequence agree with each other, which is the content of the theorems.
That a chain that ends within the bound is never taken for a loop needs an
argument of its own: if two of its owners were equal the chain would repeat and
never end.

`ScanVerdictsProofs`: `EvidenceEarnsVerdicts`, `MismatchesAreFound`,
`AbsencesAreReal`, `FaultsAge`. The invariant has two halves. A stored snapshot
is what the rules make of the evidence (`SnapshotInv`), so a statement about
findings is one about the rules. The two mismatch rules cover every
disagreement, because two answers that differ come from two servers, or from the
resolver and the only server that answered; a finding of an absence can come
from one rule only, and that rule found no text in any answer. What the rules
read, the status, is tied to the response by `StatusTells`: a success is a whole
response with answers, and exactly what is neither conclusive nor truncated
failed. So the theorems speak of responses, truncated ones included, and except
these openly. And what the
probes wrote was true when they wrote it (`ProbesInv`): each row is without
evidence or tells of a handshake, of where a walk led, or of the page at the end
of the second walk, and its chain of hops is one that the evaluation accepts. An
outcome is then decided by one row, the same at any time, of which time changes
only the age.

`ProbeRequestsProofs`: `RoutesImplementSemaphore` (every step of the routes is a
step of `ProbeSemaphore` or leaves it alone), `AllowlistIsEvidence`,
`ConnectedOnFreshEvidence`, and type correctness. What a request carries was
read from a snapshot that is stored, the hosts still to be probed are a part of
that domain's targets, and a probe belongs to a request that waits for it; so
batches are sequences of distinct tasks, and an expiry is always the expiry of
evidence. Along the refinement the semaphore's own guarantees become theorems
about the routes: `LimitHolds` (`PermitsConserved`), `NoLostWakeup`
(`WaitingMeansFull`) and `FirstComeFirstServed` (`ServedInOrder`). Free and held
permits add up to `Permits`, a task waits only while no permit is free, and
nobody waits twice. `NoPermitIsLost` relates the two sides: a probe has been
called and has not ended exactly while its task holds a permit or waits, what
waits has not started, and whoever waits, waits for a probe that is under way
(`PermitsAreInUse`). It covers every early return of a probe and is the part of
`EveryRequestIsAnswered` that is safety.

`AdmissionProofs`, on `TokenBucket`: `NeverAdmitsTooMuch`, `AdmitsHalfTheRate`,
`RetryAfterIsEnough`. The invariant relates the integer bucket to the two exact
ones: its tokens with the time since the last refill are worth no more than the
exact bucket's credit and no less than half of the half-rate bucket's. A bucket
in use is never full after a request, because the request took a token: this is
why capping forgets no more than rounding does.

`AdmissionProofs`, on `CollectorCircuit`: `CircuitTypes`, `NeverWedged`,
`ClosedUntilThreshold`. Here type correctness, `ProbingHasAProbe` and
`ClosedMeansFewFailures` together are the inductive invariant.

`AdmissionProofs`, on `McpCommands`: `TypeCorrect`, `RunsOnce`, `OneAnswer`. A
caller between insert and completion owns its key. The invariant says that two
owners never share a key, that an owned row is PENDING with the owner's input
and has no effect before it is performed, and that a settled row carries its
response and, when COMPLETED, exactly one effect.

Only model-checked is liveness, which is out of the prover's reach:
`PendingIsServed`, `FaultsAreDelivered`, `RecoveriesAreSeen`,
`EveryRequestEnds`, `EveryRequestIsAnswered`, `RecoversAfterOutage`. The seven
configurations of the previous section are counterexamples and need no proof.
The values that rules compute, such as the severity of an SPF text, are
translated but are the subject of no property.

## What is not modelled, and the plan

Everything with status `not_modelled` in `PROJECT.json`, for the reason given
there. Most of the code's lines are of these kinds: the user interface, API
routes that check a request and read or write one row, the contracts that give the
API its types, the database schema, network protocols (resolving, SMTP, TLS,
RDAP), text formats and logging. They have no interleaving of their own to get
wrong, or work on data that TLC cannot enumerate; a model of them would repeat
the code. The models cover the code that has state shared by several actors, or
verdicts that depend on partial evidence: about a tenth of the lines.

In part modelled are the following; the rest is left out because:
- baselines: two accepts at once are decided by the unique index on the active
  baseline, one statement;
- collection: DKIM selectors and delegation only add queries;
- job workers: the direct branch of the refresh, which works on a list of domains
  it is given, the fleet reports and the alerts made of findings; the `/check`
  route, which asks for collections over HTTP;
- probes: the checks of names and addresses before a socket is opened, the
  protocols spoken over it;
- `/allowlist/generate` may make entries of evidence that expired between its two
  reads; the probes check the evidence again, which is what is modelled and proved.

What a continuation would add, in this order:

1. `Scheduler`: the map in memory against the repeatable jobs in Redis over
   restarts; `FleetReports`: a report repeated by a retry.
2. `SharedReports` (expiry and revocation), `Drills`, alerts made of findings.
3. Theorems about the rest of the composition: that the steps which
   `MonitoringJobs` takes for a transaction or a delivery are steps of
   `ConditionLifecycle` and of `AlertLifecycle`.
