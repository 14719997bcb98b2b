-------------------------- MODULE CollectorCircuit -------------------------
(***************************************************************************)
(* The circuit breaker of the web application's proxy to the collector.    *)
(* It is one object of the process.  Its methods run without interruption, *)
(* but a proxied request waits for fetch, and then for the body of the     *)
(* answer, between the method that lets it through and the one that        *)
(* records how it ended, so requests overlap and end in any order.         *)
(***************************************************************************)
EXTENDS Naturals, FiniteSets

CONSTANTS Requests,    \* requests that may be under way at the same time
          Threshold,   \* FAILURE_THRESHOLD, 3 in the code
          Cooldown     \* COOLDOWN_MS, in ticks of the clock

ASSUME CircuitAssumption == Threshold \in Nat \ {0} /\ Cooldown \in Nat \ {0}

VARIABLES state,     \* closed, open or half-open
          failures,  \* consecutiveFailures; beyond Threshold it is not counted
          cooling,   \* time until COOLDOWN_MS after lastFailureAt
          probing,   \* halfOpenProbeInFlight
          req,       \* of each request: where it is and what became of it
          up         \* the collector is running

circuitVars == <<state, failures, cooling, probing, req, up>>

(* A request is a probe when the half-open circuit let it through, and     *)
(* broken when the collector was down while it was under way; a broken     *)
(* request may end either way.  An idle one is a request not made.         *)
Ended == [pc |-> "idle", probe |-> FALSE, broken |-> FALSE]
RequestState ==
    {Ended} \cup [pc : {"waiting", "reading"}, probe : BOOLEAN, broken : BOOLEAN]

CircuitTypeOK ==
    /\ state \in {"closed", "open", "half-open"}
    /\ failures \in 0 .. Threshold
    /\ cooling \in 0 .. Cooldown
    /\ probing \in BOOLEAN
    /\ req \in [Requests -> RequestState]
    /\ up \in BOOLEAN

CircuitInit ==
    /\ state = "closed"
    /\ failures = 0
    /\ cooling = 0
    /\ probing = FALSE
    /\ req = [r \in Requests |-> Ended]
    /\ up = TRUE
-----------------------------------------------------------------------------
(* getState: an open circuit whose cooldown is over has become half-open.  *)
CurrentState == IF state = "open" /\ cooling = 0 THEN "half-open" ELSE state

RecordSuccess ==
    /\ state' = "closed"
    /\ failures' = 0
    /\ probing' = FALSE
    /\ UNCHANGED cooling

(* The failures that open the circuit.                                     *)
OneTooMany(n) == n > Threshold  \* variant
Opens(n) == n >= Threshold

(* After a failure no probe is in flight.  The variant forgets to say so.  *)
StillProbing == probing  \* variant
NotProbing == FALSE
RecordFailure ==
    /\ failures' = IF failures < Threshold THEN failures + 1 ELSE failures
    /\ state' = IF Opens(failures + 1) THEN "open" ELSE state
    /\ cooling' = Cooldown
    /\ probing' = NotProbing
-----------------------------------------------------------------------------
Send(r, probe) ==
    req' = [req EXCEPT ![r] = [pc |-> "waiting", probe |-> probe, broken |-> ~up]]

(* allowRequest and the start of the fetch, or the answer 503.             *)
Ask(r) ==
    /\ req[r].pc = "idle"
    /\ state' = CurrentState
    /\ \/ /\ CurrentState = "closed"
          /\ Send(r, FALSE)
          /\ UNCHANGED probing
       \/ /\ CurrentState = "half-open"
          /\ ~probing
          /\ probing' = TRUE
          /\ Send(r, TRUE)
       \/ /\ CurrentState = "open" \/ (CurrentState = "half-open" /\ probing)
          /\ UNCHANGED <<req, probing>>
    /\ UNCHANGED <<failures, cooling, up>>

StaysMarked(r) == req' = [req EXCEPT ![r].pc = "idle"]  \* variant
End(r) == req' = [req EXCEPT ![r] = Ended]

(* An answer 2xx, whose body is still to be read, or 4xx.                  *)
Answered(r) ==
    /\ req[r].pc = "waiting"
    /\ RecordSuccess
    /\ \/ req' = [req EXCEPT ![r].pc = "reading"]
       \/ End(r)
    /\ UNCHANGED up

(* An answer 5xx, or a fetch that fails.                                   *)
Failed(r) ==
    /\ req[r].pc = "waiting"
    /\ req[r].broken
    /\ RecordFailure
    /\ End(r)
    /\ UNCHANGED up

BodyRead(r) ==
    /\ req[r].pc = "reading"
    /\ End(r)
    /\ UNCHANGED <<state, failures, cooling, probing, up>>

(* The body of a successful answer does not arrive: the request has been   *)
(* recorded as a success and is now recorded as a failure, too.            *)
BodyFailed(r) ==
    /\ req[r].pc = "reading"
    /\ req[r].broken
    /\ RecordFailure
    /\ End(r)
    /\ UNCHANGED up

(* getInfo, called by the detailed health check.                           *)
GetInfo ==
    /\ state' = CurrentState
    /\ UNCHANGED <<failures, cooling, probing, req, up>>

CoolDown ==
    /\ cooling > 0
    /\ cooling' = cooling - 1
    /\ UNCHANGED <<state, failures, probing, req, up>>

CollectorStops ==
    /\ up
    /\ up' = FALSE
    /\ req' = [r \in Requests |-> IF req[r].pc = "idle" THEN req[r]
                                 ELSE [req[r] EXCEPT !.broken = TRUE]]
    /\ UNCHANGED <<state, failures, cooling, probing>>

CollectorStarts ==
    /\ ~up
    /\ up' = TRUE
    /\ UNCHANGED <<state, failures, cooling, probing, req>>

Ends(r) == Answered(r) \/ Failed(r) \/ BodyRead(r) \/ BodyFailed(r)

CircuitNext ==
    \/ \E r \in Requests : Ask(r)
    \/ \E r \in Requests : Answered(r)
    \/ \E r \in Requests : Failed(r)
    \/ \E r \in Requests : BodyRead(r)
    \/ \E r \in Requests : BodyFailed(r)
    \/ GetInfo
    \/ CoolDown
    \/ CollectorStops
    \/ CollectorStarts

CircuitSpec == CircuitInit /\ [][CircuitNext]_circuitVars

(* Clients go on asking; fetch ends every request, at the latest by its    *)
(* own timeouts.  The collector owes nothing.                              *)
Fairness ==
    /\ WF_circuitVars(CoolDown)
    /\ \A r \in Requests : WF_circuitVars(Ask(r)) /\ WF_circuitVars(Ends(r))

FairSpec == CircuitSpec /\ Fairness
-----------------------------------------------------------------------------
InFlight(r) == req[r].pc # "idle"

\* The flag that turns requests away stands for a probe that will come back and
\* clear it, however the requests sent before and after the probe end: the
\* breaker never refuses every request for ever.
ProbingHasAProbe ==
    probing => state = "half-open" /\ \E r \in Requests : req[r].pc = "waiting" /\ req[r].probe

\* The circuit is closed exactly while fewer than Threshold failures have been
\* recorded in a row, whatever the order in which overlapping requests end.
ClosedMeansFewFailures == state = "closed" <=> failures < Threshold

\* Once the collector is back for good, requests flow again for good: late
\* failures of requests from the outage delay this but do not prevent it.
RecoversAfterOutage == <>[]up => <>[](state = "closed")

\* "In half-open state, only one probe request is allowed at a time."
OneProbeAtATime ==
    state = "half-open" => Cardinality({r \in Requests : InFlight(r) /\ req[r].probe}) <= 1
=============================================================================
