---------------------------- MODULE MonitoringJobs -----------------------------
(* The monitoring of one domain: the scheduled refresh that queues a         *)
(* collection, and the jobs of apps/collector/src/jobs/worker.ts that        *)
(* collect, finalize the conditions (operational-condition-finalizer.ts),    *)
(* deliver their alerts and stamp lastCheckAt, while time passes, faults     *)
(* come and go, operators accept new baselines, the monitor is paused,       *)
(* deleted and created again, deliveries fail and workers die.  One step is  *)
(* one transaction; what goes on inside them is in ConditionStore and        *)
(* AlertDelivery.                                                            *)
EXTENDS Integers, Sequences, SequencesExt, FiniteSets

CONSTANTS
  Jobs,        \* collection jobs that can be queued or in progress at a time
  Conditions,  \* the accepted baselines of the domain, in the order of evaluation
  Attempts,    \* how often a job is tried, 3 in the code
  MaxEvents    \* bound of what the world does to the jobs: faults and baselines
               \* that change, failures, deaths of workers, changes of the monitor

ASSUME JobsAssumption ==
  /\ Conditions \in Seq(Range(Conditions)) /\ IsInjective(Conditions)
  /\ Attempts \in Nat \ {0} /\ MaxEvents \in Nat

VARIABLES
  monitor,  \* the row of the domain: its id (0 if there is none) and isActive
  created,  \* the id of the latest monitor
  due,      \* lastCheckAt is null or lies back 90 % of the interval
  faults,   \* the conditions whose baseline the domain contradicts now, which
            \* nobody stored
  open,     \* conditions whose signal is active and case open
  alert,    \* of each condition: pending, sent, or none (also when resolved)
  claim,    \* of each condition: the job that holds the claim of its alert
  job,      \* the jobs
  events    \* how much the world did

vars == <<monitor, created, due, faults, open, alert, claim, job, events>>

Known == Range(Conditions)
None == "none"
Lost == "lost"     \* the claim of a worker that died, until its lease runs out

ASSUME NamesAssumption == {None, Lost} \intersect Jobs = {}

(* What a collection leaves: its result state, its evaluation coverage, and  *)
(* the conditions it evaluates to FAULTY and to HEALTHY.                     *)
NoSnapshot == [complete |-> FALSE, covered |-> FALSE, faulty |-> {}, healthy |-> {}]
PartialSnapshots ==
  {NoSnapshot, [NoSnapshot EXCEPT !.complete = TRUE, !.covered = TRUE],
   [complete |-> TRUE, covered |-> FALSE, faulty |-> faults, healthy |-> Known \ faults]}

(* A job: older are the jobs with an older snapshot in their hands, stale    *)
(* the conditions whose signal refers to a newer one than its own, touched   *)
(* those whose case changed since its own was taken.                         *)
Idle == [phase |-> "idle", monitor |-> 0, failures |-> 0, snapshot |-> NoSnapshot, accepted |-> FALSE,
         todo |-> {}, older |-> {}, stale |-> {}, touched |-> {}]
Queued(id, failures) == [Idle EXCEPT !.phase = "queued", !.monitor = id, !.failures = failures]
InProgress(j) == job[j].phase \notin {"idle", "queued"}

Init ==
  /\ monitor = [id |-> 1, active |-> TRUE] /\ created = 1 /\ due = TRUE
  /\ faults \in SUBSET Known /\ open = {}
  /\ alert = [c \in Known |-> "none"] /\ claim = [c \in Known |-> None]
  /\ job = [j \in Jobs |-> Idle]
  /\ events = 0

rows == <<monitor, created, due, open, alert>>

Disturbs == events < MaxEvents /\ events' = events + 1

------------------------------------------------------------------------------
(* How a job goes on.  Forget: nobody compares with its snapshot any more.   *)
Forget(jobs, j) == [k \in Jobs |-> [jobs[k] EXCEPT !.older = @ \ {j}]]
Goto(j, phase, todo) == job' = [job EXCEPT ![j].phase = phase, ![j].todo = todo]
End(j) == job' = Forget([job EXCEPT ![j] = Idle], j)

(* BullMQ: a job that throws is tried again until its attempts are used up.  *)
Throw(j) ==
  job' = Forget([job EXCEPT ![j] = IF @.failures + 1 < Attempts
                                   THEN Queued(@.monitor, @.failures + 1) ELSE Idle], j)

Accepts(j) == monitor.id = job[j].monitor /\ monitor.active

(* The loops go through their conditions in the order of evaluation.         *)
First(conditions) ==
  Conditions[CHOOSE i \in 1..Len(Conditions) :
    Conditions[i] \in conditions /\ \A k \in 1..(i - 1) : Conditions[k] \notin conditions]
Rest(conditions) == conditions \ {First(conditions)}

------------------------------------------------------------------------------
(* processMonitoringRefresh of the scheduled job.  It looks at lastCheckAt   *)
(* and at no job of the same domain that is still queued or in progress.     *)
Refresh(j) ==
  /\ monitor.id /= 0 /\ monitor.active /\ due
  /\ job[j].phase = "idle"
  /\ job' = [job EXCEPT ![j] = Queued(monitor.id, 0)]
  /\ UNCHANGED <<rows, claim, faults, events>>

(* DNSCollector.collect and the evidence of the probes: a new snapshot.      *)
CollectAs(j, s) ==
  /\ job[j].phase = "queued"
  /\ job' = [Forget(job, j) EXCEPT
               ![j] = [@ EXCEPT !.phase = "finalize", !.snapshot = s, !.older = {k \in Jobs : InProgress(k)}]]
  /\ UNCHANGED <<rows, claim, faults>>

Collect(j) ==
  /\ CollectAs(j, [complete |-> TRUE, covered |-> TRUE, faulty |-> faults, healthy |-> Known \ faults])
  /\ UNCHANGED events

CollectPart(j) == \E s \in PartialSnapshots : CollectAs(j, s) /\ Disturbs

CollectThrows(j) ==
  /\ job[j].phase = "queued"
  /\ Throw(j)
  /\ Disturbs
  /\ UNCHANGED <<rows, claim, faults>>

(* finalizePersistedCanonicalConditions looks at the monitor once.           *)
Finalize(j) ==
  /\ job[j].phase = "finalize"
  /\ job' = [job EXCEPT ![j] = [@ EXCEPT !.accepted = Accepts(j),
               !.phase = IF Accepts(j) THEN "observe" ELSE "resolve",
               !.todo = IF Accepts(j) THEN job[j].snapshot.faulty ELSE {}]]
  /\ UNCHANGED <<rows, claim, faults, events>>

(* A signal that j marks is newer than what the jobs in older hold; a case   *)
(* that changes is newer than every snapshot in hand.                        *)
Marked(j, c, caseChanges) ==
  [k \in Jobs |-> [job[k] EXCEPT !.stale = IF k \in job[j].older THEN @ \union {c} ELSE @,
                                 !.touched = IF caseChanges /\ k /= j /\ InProgress(k) THEN @ \union {c} ELSE @]]

(* Variant: only an alert that this observation created or reopened.         *)
NeedsNewDelivery(c) == alert[c] = "none"

(* needsCanonicalDelivery, asked of the alert before the observation.        *)
NeedsDelivery(c) == alert[c] \in {"none", "pending"}

(* observe commits, or throws as the evidence is not newer or the monitor    *)
(* was deleted.                                                              *)
Observe(j) ==
  /\ job[j].phase = "observe" /\ job[j].todo /= {}
  /\ LET c == First(job[j].todo)
         done == IF NeedsDelivery(c) THEN "claim" ELSE "observe"
     IN IF c \in job[j].stale \/ monitor.id /= job[j].monitor
        THEN Throw(j) /\ UNCHANGED <<open, alert, claim>>
        ELSE /\ open' = open \union {c}
             /\ alert' = [alert EXCEPT ![c] = IF @ = "none" THEN "pending" ELSE @]
             /\ claim' = [claim EXCEPT ![c] = IF alert[c] = "none" THEN None ELSE @]
             /\ job' = [Marked(j, c, c \notin open) EXCEPT ![j].phase = done,
                          ![j].todo = IF done = "observe" THEN Rest(@) ELSE @]
  /\ UNCHANGED <<monitor, created, due, faults, events>>

(* deliverCanonicalAlert.                                                    *)
Claim(j) ==
  /\ job[j].phase = "claim"
  /\ LET c == First(job[j].todo)
     IN \/ /\ alert[c] /= "pending" \/ monitor.id /= job[j].monitor
           /\ Goto(j, "observe", Rest(job[j].todo)) /\ UNCHANGED claim
        \/ /\ alert[c] = "pending" /\ monitor.id = job[j].monitor /\ claim[c] = None
           /\ Goto(j, "post", job[j].todo) /\ claim' = [claim EXCEPT ![c] = j]
        \/ /\ alert[c] = "pending" /\ monitor.id = job[j].monitor /\ claim[c] /= None
           /\ Throw(j) /\ UNCHANGED claim
  /\ UNCHANGED <<rows, faults, events>>

Released(j, c) == [claim EXCEPT ![c] = IF @ = j THEN None ELSE @]

PostSucceeds(j) ==
  /\ job[j].phase = "post"
  /\ LET c == First(job[j].todo)
     IN /\ alert' = [alert EXCEPT ![c] = IF claim[c] = j /\ @ = "pending" THEN "sent" ELSE @]
        /\ claim' = Released(j, c)
        /\ IF monitor.id = job[j].monitor /\ alert'[c] /= "pending"
           THEN Goto(j, "observe", Rest(job[j].todo)) ELSE Throw(j)
  /\ UNCHANGED <<monitor, created, due, open, faults, events>>

(* Variant: a delivery that fails is left to the next collection.            *)
PostFailsQuietly(j) ==
  /\ job[j].phase = "post"
  /\ claim' = Released(j, First(job[j].todo))
  /\ Goto(j, "observe", Rest(job[j].todo))
  /\ Disturbs
  /\ UNCHANGED <<rows, faults>>

PostFails(j) ==
  /\ job[j].phase = "post"
  /\ claim' = Released(j, First(job[j].todo))
  /\ Throw(j)
  /\ Disturbs
  /\ UNCHANGED <<rows, faults>>

------------------------------------------------------------------------------
(* Variant: a snapshot that shows a fault resolves nothing.                  *)
ResolvableWhenQuiet(j) == IF job[j].snapshot.faulty = {} THEN open \intersect job[j].snapshot.healthy ELSE {}

(* The open cases whose condition is evaluated to HEALTHY.                   *)
Resolvable(j) == open \intersect job[j].snapshot.healthy

ListCases(j) ==
  /\ job[j].phase = "observe" /\ job[j].todo = {}
  /\ Goto(j, "resolve", Resolvable(j))
  /\ UNCHANGED <<rows, claim, faults, events>>

(* resolveCase wants evidence newer than signal and case, and complete.      *)
Resolve(j) ==
  /\ job[j].phase = "resolve" /\ job[j].todo /= {}
  /\ LET c == First(job[j].todo)
     IN IF ~job[j].snapshot.covered \/ c \in job[j].stale \union job[j].touched
        THEN Throw(j) /\ UNCHANGED <<open, alert, claim>>
        ELSE /\ open' = open \ {c}
             /\ alert' = [alert EXCEPT ![c] = "none"]
             /\ claim' = [claim EXCEPT ![c] = None]
             /\ job' = [Marked(j, c, TRUE) EXCEPT ![j].todo = Rest(@)]
  /\ UNCHANGED <<monitor, created, due, faults, events>>

(* stampActiveMonitorLastCheck, unless the result state is not complete.     *)
Stamp(j) ==
  /\ job[j].phase = "resolve" /\ job[j].todo = {}
  /\ IF job[j].snapshot.complete
     THEN due' = (due /\ ~Accepts(j)) /\ End(j)
     ELSE due' = due /\ Throw(j)
  /\ UNCHANGED <<monitor, created, open, alert, claim, faults, events>>

(* What a job does unless something fails.                                   *)
JobProceeds(j) ==
  \/ Collect(j) \/ Finalize(j) \/ Observe(j) \/ Claim(j) \/ PostSucceeds(j) \/ ListCases(j)
  \/ Resolve(j) \/ Stamp(j)

JobStep(j) == JobProceeds(j) \/ CollectPart(j) \/ CollectThrows(j) \/ PostFails(j)

------------------------------------------------------------------------------
(* A worker dies: BullMQ finds the job stalled and queues it again.          *)
Die(j) ==
  /\ InProgress(j)
  /\ job' = Forget([job EXCEPT ![j] = Queued(@.monitor, @.failures)], j)
  /\ claim' = [c \in Known |-> IF claim[c] = j THEN Lost ELSE claim[c]]
  /\ Disturbs
  /\ UNCHANGED <<rows, faults>>

LeaseRunsOut(c) ==
  /\ claim[c] = Lost
  /\ claim' = [claim EXCEPT ![c] = None]
  /\ UNCHANGED <<rows, faults, job, events>>

IntervalPasses ==
  /\ ~due
  /\ due' = TRUE
  /\ UNCHANGED <<monitor, created, open, alert, claim, faults, job, events>>

(* A fault comes or goes.                                                    *)
Change(c) ==
  /\ faults' = IF c \in faults THEN faults \ {c} ELSE faults \union {c}
  /\ Disturbs
  /\ UNCHANGED <<rows, claim, job>>

(* OperationalBaselineRepository.accept commits: the state that was faulty   *)
(* is the accepted one now and the other way round, also for snapshots that  *)
(* are collected already, as the finalization reads the active baselines.    *)
Swapped(s, c) ==
  [s EXCEPT !.faulty = (@ \ {c}) \union ({c} \intersect s.healthy),
            !.healthy = (@ \ {c}) \union ({c} \intersect s.faulty)]

AcceptBaseline(c) ==
  /\ faults' = IF c \in faults THEN faults \ {c} ELSE faults \union {c}
  /\ job' = [j \in Jobs |-> IF job[j].phase = "finalize" THEN [job[j] EXCEPT !.snapshot = Swapped(@, c)] ELSE job[j]]
  /\ Disturbs
  /\ UNCHANGED <<rows, claim>>

(* The routes of the web application on the row of the monitor.              *)
Toggle ==
  /\ monitor.id /= 0
  /\ monitor' = [monitor EXCEPT !.active = ~@]
  /\ Disturbs
  /\ UNCHANGED <<created, due, open, alert, claim, faults, job>>

Delete ==
  /\ monitor.id /= 0
  /\ monitor' = [id |-> 0, active |-> FALSE]
  /\ alert' = [c \in Known |-> "none"] /\ claim' = [c \in Known |-> None]
  /\ Disturbs
  /\ UNCHANGED <<created, due, open, faults, job>>

Create ==
  /\ monitor.id = 0
  /\ created' = created + 1
  /\ monitor' = [id |-> created', active |-> TRUE]
  /\ due' = TRUE
  /\ Disturbs
  /\ UNCHANGED <<open, alert, claim, faults, job>>

Next ==
  \/ \E j \in Jobs : Refresh(j) \/ JobStep(j) \/ Die(j)
  \/ \E c \in Known : LeaseRunsOut(c) \/ Change(c) \/ AcceptBaseline(c)
  \/ IntervalPasses \/ Toggle \/ Delete \/ Create

(* The scheduler, the queue and the workers go on, leases run out, and a job *)
(* that is not disturbed takes its next step.                                *)
Fairness ==
  /\ WF_vars(IntervalPasses)
  /\ WF_vars(\E j \in Jobs : Refresh(j))
  /\ \A c \in Known : WF_vars(LeaseRunsOut(c))
  /\ \A j \in Jobs : WF_vars(JobProceeds(j))

Spec == Init /\ [][Next]_vars /\ Fairness

------------------------------------------------------------------------------
Stamps(j) == job[j].phase = "resolve" /\ job'[j].phase = "idle" /\ due /\ ~due'

(* lastCheckAt lets the next refreshes skip the domain, so it moves only     *)
(* when a complete snapshot has had all its effects: each fault that is not  *)
(* superseded has its case and its alert delivered, and each recovery closed *)
(* its case (worker.ts: a failure of finalization throws before the stamp).  *)
(* The exception is a monitor that was paused when the finalization looked.  *)
StampsAreEarned ==
  [][\A j \in Jobs : Stamps(j) =>
       /\ job[j].snapshot.complete
       /\ job[j].accepted =>
            /\ \A c \in job[j].snapshot.faulty \ job[j].stale : c \in open /\ alert[c] = "sent"
            /\ \A c \in job[j].snapshot.healthy \ (job[j].stale \union job[j].touched) : c \notin open]_vars

(* A fault that lasts is delivered in the end, whatever failures, crashes,   *)
(* pauses and overlapping jobs came before: the alert that an earlier job    *)
(* left pending is picked up again, even when that job used up its attempts. *)
FaultsAreDelivered ==
  \A c \in Known : <>[](c \in faults /\ monitor.active) => <>[](alert[c] = "sent")

(* A condition that has recovered for good loses its case and its alert,     *)
(* also when a job with older evidence or another fault of the domain gets   *)
(* in between.                                                               *)
RecoveriesAreSeen ==
  \A c \in Known : <>[](c \notin faults /\ monitor.active) => <>[](c \notin open /\ alert[c] = "none")
==============================================================================
