--------------------------- MODULE ProbeSemaphore ---------------------------
(* The counting semaphore of apps/collector/src/probes/semaphore.ts.  Every  *)
(* probe of the process, and every query of one DNS collection, runs under   *)
(* one: `run` acquires a permit, awaits the function and releases the permit *)
(* in a finally block.  JavaScript runs each handler to its next await, so a *)
(* map over tasks that calls `run` for each of them (probeMXHosts,           *)
(* collectQueriesConcurrently) enters all of them in one step.               *)
EXTENDS Integers, Sequences, SequencesExt, FiniteSets

CONSTANTS
  Tasks,      \* the calls of run, each of which may come again
  Batches,    \* the sequences of tasks that a caller maps over
  Permits     \* the number the semaphore is made with

Distinct(s) == \A i, j \in 1..Len(s) : s[i] = s[j] => i = j

PermitsAssumption == Permits \in Nat \ {0}
BatchesAssumption == Batches \subseteq Seq(Tasks) /\ \A batch \in Batches : Distinct(batch)

VARIABLES
  permits,    \* Semaphore.permits
  queue,      \* Semaphore.queue: the tasks whose promise is not resolved
  holding     \* the tasks that are past `await this.acquire()`

vars == <<permits, queue, holding>>

Init ==
  /\ permits = Permits
  /\ queue = <<>>
  /\ holding = {}

Absent(t) == t \notin holding /\ \A i \in 1..Len(queue) : queue[i] # t

(* How many tasks of a batch find a permit when they call acquire in turn.   *)
Admitted(batch) == IF Len(batch) < permits THEN Len(batch) ELSE permits

(* The synchronous part of run for each task of a batch: acquire takes a     *)
(* permit while there is one, and queues the rest in order.                  *)
Enter(batch) ==
  LET n == Admitted(batch) IN
  /\ \A i \in 1..Len(batch) : Absent(batch[i])
  /\ permits' = permits - n
  /\ holding' = holding \union {batch[i] : i \in 1..n}
  /\ queue' = queue \o SubSeq(batch, n + 1, Len(batch))

(* release wakes the oldest waiter and takes it off the queue.               *)
Woken == 1

StillQueued == RemoveAt(queue, Woken)

(* release counts the permit only when nobody was there to take it.          *)
Recounted == IF queue = <<>> THEN permits + 1 ELSE permits

Leave(t) ==
  /\ t \in holding
  /\ permits' = Recounted
  /\ IF queue = <<>>
     THEN /\ holding' = holding \ {t}
          /\ queue' = queue
     ELSE /\ holding' = (holding \ {t}) \union {queue[Woken]}
          /\ queue' = StillQueued

Next ==
  \/ \E batch \in Batches : Enter(batch)
  \/ \E t \in Tasks : Leave(t)

Spec == Init /\ [][Next]_vars

-----------------------------------------------------------------------------
TypeOK ==
  /\ permits \in 0..Permits
  /\ queue \in Seq(Tasks)
  /\ holding \subseteq Tasks

(* No permit is lost and none is made: what is held and what is counted add  *)
(* up to the configured concurrency, so the limit holds for the life of the  *)
(* process (semaphore.ts: "Limits the number of concurrent outbound probe    *)
(* connections across all requests").                                        *)
PermitsConserved == permits + Cardinality(holding) = Permits

(* A task waits only while every permit is held by another one: a batch that *)
(* queues up is never left behind by releases that came before it.           *)
WaitingMeansFull == queue # <<>> => permits = 0

(* A waiting task is queued once and is not past its await yet, so a release *)
(* never wakes a task that already runs or is gone.                          *)
QueuedOnce == Distinct(queue) /\ \A i \in 1..Len(queue) : queue[i] \notin holding

(* First in, first out: a task never enters before one that waited already   *)
(* when it came.                                                             *)
ServedInOrder ==
  [][\A i, j \in 1..Len(queue) :
        (i < j /\ queue[j] \in holding') => queue[i] \in holding']_vars

=============================================================================
