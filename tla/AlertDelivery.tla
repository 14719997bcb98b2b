---------------------------- MODULE AlertDelivery ---------------------------
(***************************************************************************)
(* The delivery of one canonical alert to the webhook of its monitored     *)
(* domain.  A sender is a collector job that finalizes a snapshot, or the  *)
(* notification route.  It claims the pending alert with a token and a     *)
(* lease of 30 s, posts the webhook, which is aborted after 5 s, and       *)
(* marks the alert sent.  Every database call is one guarded UPDATE, so    *)
(* one step; senders interleave between calls, and may crash or stall.     *)
(*                                                                         *)
(* The transactions of the condition (ConditionStore) resolve the alert    *)
(* and set it back to pending, which starts a new occurrence of it.        *)
(* Operators read the alert and then change its status.                    *)
(***************************************************************************)
EXTENDS Naturals, AlertRows

CONSTANTS Sender,
          Operator,
          Token,          \* stands for the random UUIDs
          NoToken,
          Lease,          \* ticks until a claim may be taken over
          Timeout,        \* ticks until a post is aborted
          MaxOccurrence,  \* occurrences of the alert
          MaxFaults       \* faults of the environment in one occurrence

(* NOTIFICATION_LEASE_MS is 30000 and WEBHOOK_TIMEOUT_MS is 5000.          *)
ASSUME DeliveryAssumption ==
    /\ NoToken \notin Token
    /\ Timeout \in Nat \ {0}
    /\ Lease \in Nat
    /\ Timeout < Lease
    /\ MaxOccurrence \in Nat \ {0}
    /\ MaxFaults \in Nat

VARIABLES alert,       \* the alerts row; lease is the time its claim still runs
          pc, token,   \* of each sender: the next call, and the claim it was given
          timer,       \* timer[d]: time left before the post of d is aborted
          seen,        \* seen[o]: the status operator o has read, or "none"
          (* History *)
          occurrence,  \* how often the alert has become pending
          claimed,     \* claimed[d]: the occurrence d holds or held a claim on
          held,        \* held[d]: time since that claim, up to Lease
          accepted,    \* posts of this occurrence that the receiver accepted
          faults       \* faults met by the claims of this occurrence

vars == <<alert, pc, token, timer, seen, occurrence, claimed, held, accepted, faults>>
sending == <<pc, token, timer, claimed, held>>

(* Only a pending alert carries a claim.                                   *)
Alert == {a \in [status : AlertStatus, lease : 0 .. Lease, token : Token \cup {NoToken}] :
            a.status # "pending" => a.lease = 0 /\ a.token = NoToken}
PC == {"idle", "claim", "post", "posting", "complete", "release"}

TypeOK ==
    /\ alert \in Alert
    /\ pc \in [Sender -> PC]
    /\ token \in [Sender -> Token \cup {NoToken}]
    /\ timer \in [Sender -> 0 .. Timeout]
    /\ seen \in [Operator -> AlertStatus]
    /\ occurrence \in 1 .. MaxOccurrence
    /\ claimed \in [Sender -> 0 .. MaxOccurrence]
    /\ held \in [Sender -> 0 .. Lease]
    /\ accepted \in Nat
    /\ faults \in 0 .. MaxFaults

Init ==
    /\ alert = [status |-> "pending", lease |-> 0, token |-> NoToken]
    /\ pc = [d \in Sender |-> "idle"]
    /\ token = [d \in Sender |-> NoToken]
    /\ timer = [d \in Sender |-> 0]
    /\ seen = [o \in Operator |-> "none"]
    /\ occurrence = 1
    /\ claimed = [d \in Sender |-> 0]
    /\ held = [d \in Sender |-> 0]
    /\ accepted = 0
    /\ faults = 0

(* A row that is written with a status and no claim.                       *)
Unclaimed(status) == [status |-> status, lease |-> 0, token |-> NoToken]

Active(d) == pc[d] \in {"post", "posting", "complete", "release"}
Current(d) == claimed[d] = occurrence

(* Faults are counted while they may cost a duplicate in this occurrence.  *)
Fault(d) ==
    IF Current(d) THEN faults < MaxFaults /\ faults' = faults + 1
    ELSE UNCHANGED faults
Accept(d) == accepted' = IF Current(d) THEN accepted + 1 ELSE accepted

(* The sender is done with the alert, or has lost its memory of it.        *)
Stop(d) ==
    /\ pc' = [pc EXCEPT ![d] = "idle"]
    /\ token' = [token EXCEPT ![d] = NoToken]
    /\ timer' = [timer EXCEPT ![d] = 0]
    /\ claimed' = [claimed EXCEPT ![d] = 0]
    /\ held' = [held EXCEPT ![d] = 0]
Goto(d, label) == pc' = [pc EXCEPT ![d] = label]
-----------------------------------------------------------------------------
(* needsCanonicalDelivery: the alert was pending when observe returned it. *)
Start(d) ==
    /\ pc[d] = "idle"
    /\ alert.status = "pending"
    /\ Goto(d, "claim")
    /\ UNCHANGED <<alert, token, timer, seen, occurrence, claimed, held, accepted, faults>>

AlwaysClaimable == alert.status = "pending"  \* variant
NeverTakenOver == alert.status = "pending" /\ alert.token = NoToken  \* variant
Claimable == alert.status = "pending" /\ alert.lease = 0

(* claimPendingNotification.  A sender that gets no claim reads the alert, *)
(* to report it as leased or complete, and gives up.                       *)
Claim(d) ==
    /\ pc[d] = "claim"
    /\ \/ /\ Claimable
          /\ \E t \in Token \ ({alert.token} \cup {token[x] : x \in Sender}) :
                /\ alert' = [status |-> alert.status, lease |-> Lease, token |-> t]
                /\ token' = [token EXCEPT ![d] = t]
          /\ claimed' = [claimed EXCEPT ![d] = occurrence]
          /\ Goto(d, "post")
          /\ UNCHANGED <<timer, held>>
       \/ /\ ~Claimable
          /\ Stop(d)
          /\ UNCHANGED alert
    /\ UNCHANGED <<seen, occurrence, accepted, faults>>

Post(d) ==
    /\ pc[d] = "post"
    /\ timer' = [timer EXCEPT ![d] = Timeout]
    /\ Goto(d, "posting")
    /\ UNCHANGED <<alert, token, seen, occurrence, claimed, held, accepted, faults>>

PostSucceeds(d) ==
    /\ pc[d] = "posting"
    /\ Accept(d)
    /\ timer' = [timer EXCEPT ![d] = 0]
    /\ Goto(d, "complete")
    /\ UNCHANGED <<alert, token, seen, occurrence, claimed, held, faults>>

(* Any other answer, an error or the abort.  The receiver may have         *)
(* accepted the alert all the same.                                        *)
PostFails(d) ==
    /\ pc[d] = "posting"
    /\ \/ UNCHANGED <<accepted, faults>>
       \/ Accept(d) /\ Fault(d)
    /\ timer' = [timer EXCEPT ![d] = 0]
    /\ Goto(d, "release")
    /\ UNCHANGED <<alert, token, seen, occurrence, claimed, held>>

AnyClaim(d) == alert.status = "pending" /\ alert.token # NoToken  \* variant
HoldsClaim(d) == alert.status = "pending" /\ alert.token = token[d]

(* completeNotificationClaim.  When it changes no row the alert is read    *)
(* again, only to choose what the job reports: a pending alert fails the   *)
(* job, and the claim is kept because the webhook was posted.              *)
Complete(d) ==
    /\ pc[d] = "complete"
    /\ alert' = IF HoldsClaim(d) THEN Unclaimed("sent") ELSE alert
    /\ Stop(d)
    /\ UNCHANGED <<seen, occurrence, accepted, faults>>

(* releaseNotificationClaim, after a post that failed.                     *)
Release(d) ==
    /\ pc[d] = "release"
    /\ alert' = IF HoldsClaim(d) THEN Unclaimed("pending") ELSE alert
    /\ Stop(d)
    /\ UNCHANGED <<seen, occurrence, accepted, faults>>

(* The process dies, or the database refuses the call: the claim stays     *)
(* until its lease has run out.  A post under way may still be accepted.   *)
Crash(d) ==
    /\ Active(d)
    /\ Fault(d)
    /\ IF pc[d] = "posting" THEN Accept(d) \/ UNCHANGED accepted ELSE UNCHANGED accepted
    /\ Stop(d)
    /\ UNCHANGED <<alert, seen, occurrence>>
-----------------------------------------------------------------------------
(* updateStatus: a read, then an UPDATE of the row if it has that status.  *)
NotCompared(o) == TRUE  \* variant
StillAsRead(o) == alert.status = seen[o]
OperatorReads(o) ==
    /\ seen[o] = "none"
    /\ alert.status # "none"
    /\ seen' = [seen EXCEPT ![o] = alert.status]
    /\ UNCHANGED <<alert, sending, occurrence, accepted, faults>>

OperatorWrites(o) ==
    /\ seen[o] # "none"
    /\ \/ /\ StillAsRead(o)
          /\ \E to \in AlertStatus : OperatorTransition(seen[o], to) /\ alert' = Unclaimed(to)
       \/ UNCHANGED alert  \* an illegal transition, or the row has changed
    /\ seen' = [seen EXCEPT ![o] = "none"]
    /\ UNCHANGED <<sending, occurrence, accepted, faults>>

(* resolveCase commits.                                                    *)
Resolve ==
    /\ alert.status \notin {"none", "resolved"}
    /\ alert' = Unclaimed("resolved")
    /\ UNCHANGED <<sending, seen, occurrence, accepted, faults>>

(* observe commits: a resolved alert is pending again.                     *)
Reopen ==
    /\ alert.status = "resolved"
    /\ occurrence < MaxOccurrence
    /\ alert' = Unclaimed("pending")
    /\ occurrence' = occurrence + 1
    /\ accepted' = 0
    /\ faults' = 0
    /\ UNCHANGED <<sending, seen>>

(* The monitored domain is deleted, and its alerts with it.                *)
Delete ==
    /\ alert.status # "none"
    /\ alert' = Unclaimed("none")
    /\ UNCHANGED <<sending, seen, occurrence, accepted, faults>>

(* Time passes.  No post outlives its abort.  A claim that runs out in the *)
(* hands of its sender is a fault: the sender has stalled between calls.   *)
Less(n) == IF n = 0 THEN 0 ELSE n - 1
StalledSenders == {d \in Sender : Active(d) /\ HoldsClaim(d)}
Tick ==
    /\ alert.lease > 0 \/ \E d \in Sender : timer[d] > 0
    /\ \A d \in Sender : pc[d] = "posting" => timer[d] > 0
    /\ IF alert.lease = 1 /\ StalledSenders # {}
       THEN faults < MaxFaults /\ faults' = faults + 1
       ELSE UNCHANGED faults
    /\ alert' = [alert EXCEPT !.lease = Less(@)]
    /\ timer' = [d \in Sender |-> Less(timer[d])]
    /\ held' = [d \in Sender |-> IF Active(d) /\ held[d] < Lease THEN held[d] + 1 ELSE held[d]]
    /\ UNCHANGED <<pc, token, seen, occurrence, claimed, accepted>>
-----------------------------------------------------------------------------
SenderStep(d) ==
    \/ Start(d)
    \/ Claim(d)
    \/ Post(d)
    \/ PostSucceeds(d)
    \/ PostFails(d)
    \/ Complete(d)
    \/ Release(d)
    \/ Crash(d)

Next ==
    \/ \E d \in Sender : SenderStep(d)
    \/ \E o \in Operator : OperatorReads(o)
    \/ \E o \in Operator : OperatorWrites(o)
    \/ Resolve
    \/ Reopen
    \/ Delete
    \/ Tick

Spec == Init /\ [][Next]_vars

(* A monitored domain is collected again and again and each collection     *)
(* starts a delivery while the alert is pending; a job goes on unless it   *)
(* crashes; a receiver that is tried again and again answers in the end.   *)
(* Operators and resolutions owe nothing.                                  *)
Fairness ==
    /\ WF_vars(Tick)
    /\ \A d \in Sender :
          /\ WF_vars(Start(d))
          /\ WF_vars(Claim(d) \/ Post(d) \/ PostSucceeds(d) \/ PostFails(d)
                       \/ Complete(d) \/ Release(d))
          /\ SF_vars(PostSucceeds(d))

FairSpec == Spec /\ Fairness
-----------------------------------------------------------------------------
\* An alert says "sent" only if the webhook of this very occurrence was accepted:
\* a sender that claimed the alert before it was resolved and reopened, or that
\* lost its claim to another, never marks it.
SentMeansDelivered == alert.status = "sent" => accepted > 0

\* At most one sender that has not outlived its lease is busy with an occurrence:
\* two jobs never post the same one side by side unless one of them has stalled
\* between two calls for the whole lease.
OneSenderPerOccurrence ==
    \A d, e \in Sender :
        d # e /\ Active(d) /\ Active(e) /\ claimed[d] = claimed[e] =>
            held[d] = Lease \/ held[e] = Lease

\* The receiver gets an occurrence more often than once only if a fault hit one of
\* its claims, and no more often than there were faults: retries, concurrent
\* finalizers and operators alone never duplicate a notification.
DuplicatesNeedFaults == accepted <= 1 + faults

\* The alert moves as AlertLifecycle says: what a sender or an operator decided
\* on the alert before a resolution, a reopening or another operator changed it
\* never overwrites that change.
Alerts == INSTANCE AlertLifecycle WITH alert <- alert.status
ImplementsAlertLifecycle == Alerts!Spec

\* A pending alert does not stay pending for ever: no crash, lost claim or failed
\* post leaves it where no later collection can deliver it.
PendingIsServed == alert.status = "pending" ~> alert.status # "pending"
=============================================================================
