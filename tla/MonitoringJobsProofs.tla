------------------------- MODULE MonitoringJobsProofs --------------------------
(* For any number of jobs, conditions, attempts and disturbances: what a job *)
(* has written stands until it stamps lastCheckAt, unless a job with newer   *)
(* evidence has written to the same condition.                               *)
EXTENDS MonitoringJobs, WellFoundedInduction, TLAPS

Phases == {"idle", "queued", "finalize", "observe", "claim", "post", "resolve"}
SnapshotState ==
  [complete : BOOLEAN, covered : BOOLEAN, faulty : SUBSET Known, healthy : SUBSET Known]
JobState ==
  [phase : Phases, monitor : Nat, failures : Nat, snapshot : SnapshotState, accepted : BOOLEAN,
   todo : SUBSET Known, older : SUBSET Jobs, stale : SUBSET Known, touched : SUBSET Known]

Types ==
  /\ monitor \in [id : Nat, active : BOOLEAN]
  /\ created \in Nat /\ monitor.id <= created
  /\ due \in BOOLEAN
  /\ faults \in SUBSET Known
  /\ open \in SUBSET Known
  /\ alert \in [Known -> {"none", "pending", "sent"}]
  /\ job \in [Jobs -> JobState]

(* The loop over the faults, which the monitor of an accepted job goes       *)
(* through, has an alert at hand while it claims and posts it.               *)
Loop == {"observe", "claim", "post"}
Accepted(j) == job[j].accepted = TRUE

(* The faults of a job whose turn is over, and the one at hand.              *)
Passed(j, c) ==
  /\ c \in job[j].snapshot.faulty
  /\ \/ job[j].phase \in Loop /\ c \notin job[j].todo
     \/ job[j].phase = "resolve" /\ Accepted(j)
AtHand(j, c) == job[j].phase \in {"claim", "post"} /\ c = First(job[j].todo)

Shape(j) ==
  /\ job[j].snapshot.faulty \intersect job[j].snapshot.healthy = {}
  /\ job[j].phase \in Loop => Accepted(j) /\ job[j].todo \subseteq job[j].snapshot.faulty
  /\ job[j].phase \in {"claim", "post"} => job[j].todo # {}
  /\ job[j].phase = "resolve" => job[j].todo \subseteq job[j].snapshot.healthy
  /\ job[j].phase # "idle" => job[j].monitor # 0 /\ job[j].monitor <= created
  /\ \A k \in job[j].older : InProgress(k)

(* A job that has written to a condition and was not overtaken there has     *)
(* overtaken all jobs with an older snapshot.                                *)
OlderAreStale(j) ==
  \A c \in Known \ job[j].stale :
    Passed(j, c) \/ AtHand(j, c) => \A k \in job[j].older : c \in job[k].stale

(* What it has written is still there, as long as its monitor is.            *)
FaultsStand(j) ==
  monitor.id = job[j].monitor =>
    \A c \in Known \ job[j].stale :
      /\ Passed(j, c) => c \in open /\ alert[c] = "sent"
      /\ AtHand(j, c) => c \in open /\ alert[c] # "none"

RecoveriesStand(j) ==
  job[j].phase = "resolve" /\ Accepted(j) =>
    \A c \in job[j].snapshot.healthy \ job[j].todo :
      c \notin job[j].stale \union job[j].touched => c \notin open

JobInv(j) == Shape(j) /\ OlderAreStale(j) /\ FaultsStand(j) /\ RecoveriesStand(j)

(* Of two jobs in progress one has the older snapshot.                       *)
Ordered ==
  \A j, k \in Jobs : InProgress(j) /\ InProgress(k) /\ j # k =>
    k \in job[j].older \/ j \in job[k].older

IInv == Types /\ Ordered /\ \A j \in Jobs : JobInv(j)

------------------------------------------------------------------------------
(* A set of numbers has a least one.                                         *)
LEMMA LeastNumber ==
  ASSUME NEW S, S \subseteq Nat, S # {}
  PROVE  \E m \in S : \A n \in S : m <= n
<1>1. PICK m \in S : \A n \in S : <<n, m>> \notin OpToRel(<, Nat)
  BY NatLessThanWellFounded, WFMin
<1>2. \A n \in S : n \in Nat /\ m \in Nat /\ ~(n < m)
  BY <1>1 DEF OpToRel
<1>3. \A n \in S : m <= n
  BY <1>2
<1> QED BY <1>3

(* The loops take a condition that is left to do.                            *)
LEMMA FirstIsThere ==
  ASSUME NEW S \in SUBSET Known, S # {}
  PROVE  First(S) \in S
<1> DEFINE At == {i \in 1..Len(Conditions) : Conditions[i] \in S}
<1>1. Conditions \in Seq(Known)
  BY JobsAssumption DEF Known
<1>2. At \subseteq Nat /\ At # {}
  <2>1. PICK c : c \in S
    OBVIOUS
  <2>2. PICK i \in DOMAIN Conditions : Conditions[i] = c
    BY <2>1 DEF Known, Range
  <2>3. DOMAIN Conditions = 1..Len(Conditions) /\ Len(Conditions) \in Nat
    BY <1>1
  <2> QED BY <2>1, <2>2, <2>3
<1>3. PICK m \in At : \A n \in At : m <= n
  BY <1>2, LeastNumber
<1>4. \A k \in 1..(m - 1) : Conditions[k] \notin S
  <2> SUFFICES ASSUME NEW k \in 1..(m - 1), Conditions[k] \in S PROVE FALSE
    OBVIOUS
  <2>1. Len(Conditions) \in Nat /\ m \in 1..Len(Conditions)
    BY <1>1, <1>3
  <2>2. k \in 1..Len(Conditions) /\ ~(m <= k)
    BY <2>1
  <2>3. k \in At
    BY <2>2
  <2> QED BY <1>3, <2>2, <2>3
<1> DEFINE Is(i) == Conditions[i] \in S /\ \A k \in 1..(i - 1) : Conditions[k] \notin S
<1>5. \E i \in 1..Len(Conditions) : Is(i)
  BY <1>3, <1>4
<1>6. Is(CHOOSE i \in 1..Len(Conditions) : Is(i))
  BY <1>5
<1> QED BY <1>6 DEF First

(* What becomes of the records of jobs.                                      *)
LEMMA ForgetFields ==
  ASSUME NEW jobs \in [Jobs -> JobState], NEW j \in Jobs
  PROVE  /\ Forget(jobs, j) \in [Jobs -> JobState]
         /\ \A k \in Jobs : Forget(jobs, j)[k] = [jobs[k] EXCEPT !.older = jobs[k].older \ {j}]
<1>1. \A k \in Jobs : jobs[k] \in JobState
  OBVIOUS
<1>2. \A k \in Jobs : [jobs[k] EXCEPT !.older = jobs[k].older \ {j}] \in JobState
  BY <1>1 DEF JobState
<1> QED BY <1>2 DEF Forget

MarkedWith(r, s, t) == [r EXCEPT !.stale = s, !.touched = t]
StaleAfter(k, j, c) == IF k \in job[j].older THEN job[k].stale \union {c} ELSE job[k].stale
TouchedAfter(k, j, c, caseChanges) ==
  IF caseChanges /\ k # j /\ InProgress(k) THEN job[k].touched \union {c} ELSE job[k].touched

LEMMA MarkedFields ==
  ASSUME Types, NEW j \in Jobs, NEW c \in Known, NEW b \in BOOLEAN
  PROVE  /\ Marked(j, c, b) \in [Jobs -> JobState]
         /\ \A k \in Jobs :
              Marked(j, c, b)[k] = MarkedWith(job[k], StaleAfter(k, j, c), TouchedAfter(k, j, c, b))
<1>1. \A k \in Jobs : job[k] \in JobState
  BY DEF Types
<1>2. ASSUME NEW k \in Jobs
      PROVE  StaleAfter(k, j, c) \in SUBSET Known /\ TouchedAfter(k, j, c, b) \in SUBSET Known
  BY <1>1 DEF JobState, StaleAfter, TouchedAfter
<1>3. \A s, t \in SUBSET Known : \A k \in Jobs : MarkedWith(job[k], s, t) \in JobState
  <2> TAKE s, t \in SUBSET Known
  <2> TAKE k \in Jobs
  <2>1. job[k] \in JobState
    BY <1>1
  <2> QED BY <2>1 DEF JobState, MarkedWith
<1> DEFINE marked(k) == MarkedWith(job[k], StaleAfter(k, j, c), TouchedAfter(k, j, c, b))
<1>4. Marked(j, c, b) = [k \in Jobs |-> marked(k)]
  BY DEF Marked, MarkedWith, StaleAfter, TouchedAfter
<1>5. \A k \in Jobs : marked(k) \in JobState
  <2> TAKE k \in Jobs
  <2>1. StaleAfter(k, j, c) \in SUBSET Known /\ TouchedAfter(k, j, c, b) \in SUBSET Known
    BY <1>2
  <2> QED BY <1>3, <2>1
<1> HIDE DEF marked
<1>6. Marked(j, c, b) \in [Jobs -> JobState] /\ \A k \in Jobs : Marked(j, c, b)[k] = marked(k)
  BY <1>4, <1>5
<1> QED BY <1>6 DEF marked

LEMMA QueuedIsAJob ==
  /\ Idle \in JobState
  /\ \A id, n \in Nat : Queued(id, n) \in JobState
<1>1. NoSnapshot \in SnapshotState
  BY DEF NoSnapshot, SnapshotState
<1> QED BY <1>1 DEF Idle, Queued, JobState, Phases
------------------------------------------------------------------------------
(* What a job keeps while another one takes a step.                          *)
Keeps(k) ==
  /\ job'[k].phase = job[k].phase /\ job'[k].todo = job[k].todo
  /\ job'[k].monitor = job[k].monitor
  /\ job'[k].snapshot = job[k].snapshot /\ job'[k].accepted = job[k].accepted
  /\ job'[k].older \subseteq job[k].older
  /\ job[k].stale \subseteq job'[k].stale /\ job[k].touched \subseteq job'[k].touched

OlderGoOn(k) ==
  \A i \in job'[k].older : i \in Jobs /\ InProgress(i)' /\ job[i].stale \subseteq job'[i].stale

(* A step may undo what a job has written only when it makes the job stale   *)
(* or touched there, or the monitor is not the job's any more.               *)
RowsGoOn(k) ==
  InProgress(k) =>
    /\ monitor'.id = job[k].monitor =>
         /\ monitor.id = job[k].monitor
         /\ \A c \in Known \ job'[k].stale :
              (Passed(k, c) \/ AtHand(k, c)) /\ c \in open /\ alert[c] # "none" =>
                c \in open' /\ alert'[c] # "none" /\ (alert[c] = "sent" => alert'[c] = "sent")
    /\ \A c \in Known \ job'[k].touched : c \notin open => c \notin open'

LEMMA RowsUnchanged ==
  ASSUME monitor' = monitor, open' = open, alert' = alert
  PROVE  \A k \in Jobs : RowsGoOn(k)
BY DEF RowsGoOn

LEMMA Spectator ==
  ASSUME Types, created' \in Nat, created <= created', NEW k \in Jobs, JobInv(k),
         Keeps(k), OlderGoOn(k), RowsGoOn(k)
  PROVE  JobInv(k)'
<1>0. /\ job[k] \in JobState
      /\ job[k].snapshot.healthy \subseteq Known
  BY DEF Types, JobState, SnapshotState
<1>1. Shape(k)'
  <2>1. job[k].monitor \in Nat /\ created \in Nat
    BY <1>0 DEF Types, JobState
  <2>2. job[k].monitor <= created => job[k].monitor <= created'
    BY <2>1
  <2> QED BY <2>2 DEF JobInv, Shape, Keeps, Accepted, OlderGoOn
<1>2. \A c \in Known : Passed(k, c)' => Passed(k, c)
  BY DEF Passed, Keeps, Accepted
<1>3. \A c \in Known : AtHand(k, c)' => AtHand(k, c)
  BY DEF AtHand, Keeps
<1>4. OlderAreStale(k)'
  <2> SUFFICES ASSUME NEW c \in Known \ job'[k].stale, Passed(k, c) \/ AtHand(k, c),
                      NEW i \in job'[k].older
               PROVE  c \in job'[i].stale
    BY <1>2, <1>3 DEF OlderAreStale
  <2>1. c \notin job[k].stale /\ i \in job[k].older
    BY DEF Keeps
  <2>2. c \in job[i].stale
    BY <2>1 DEF JobInv, OlderAreStale
  <2> QED BY <2>2 DEF OlderGoOn
<1>5. FaultsStand(k)'
  <2> SUFFICES ASSUME monitor'.id = job'[k].monitor, NEW c \in Known \ job'[k].stale,
                      Passed(k, c) \/ AtHand(k, c)
               PROVE  /\ c \in open' /\ alert'[c] # "none"
                      /\ Passed(k, c) => alert'[c] = "sent"
    BY <1>2, <1>3 DEF FaultsStand
  <2>1. c \notin job[k].stale /\ monitor'.id = job[k].monitor
    BY DEF Keeps
  <2>2. InProgress(k)
    BY DEF Passed, AtHand, InProgress, Loop
  <2>3. monitor.id = job[k].monitor
    BY <2>1, <2>2 DEF RowsGoOn
  <2>4. c \in open /\ alert[c] # "none" /\ (Passed(k, c) => alert[c] = "sent")
    BY <2>1, <2>3 DEF JobInv, FaultsStand
  <2> QED BY <2>1, <2>2, <2>4 DEF RowsGoOn
<1>6. RecoveriesStand(k)'
  <2> SUFFICES ASSUME job'[k].phase = "resolve", Accepted(k)',
                      NEW c \in job'[k].snapshot.healthy \ job'[k].todo,
                      c \notin job'[k].stale \union job'[k].touched
               PROVE  c \notin open'
    BY DEF RecoveriesStand
  <2>1. /\ job[k].phase = "resolve" /\ Accepted(k) /\ InProgress(k)
        /\ c \in job[k].snapshot.healthy \ job[k].todo /\ c \in Known
        /\ c \notin job[k].stale \union job[k].touched
    BY <1>0 DEF Keeps, Accepted, InProgress
  <2>2. c \notin open
    BY <2>1 DEF JobInv, RecoveriesStand
  <2> QED BY <2>1, <2>2 DEF RowsGoOn
<1> QED BY <1>1, <1>4, <1>5, <1>6 DEF JobInv

(* A job that has written nothing yet owes nothing.                          *)
LEMMA NothingWritten ==
  ASSUME NEW k \in Jobs, job'[k].phase \in {"idle", "queued", "finalize"}, Shape(k)'
  PROVE  JobInv(k)'
<1>1. \A c : ~Passed(k, c)' /\ ~AtHand(k, c)'
  BY DEF Passed, AtHand, Loop
<1>2. OlderAreStale(k)' /\ FaultsStand(k)'
  BY <1>1 DEF OlderAreStale, FaultsStand
<1>3. RecoveriesStand(k)'
  BY DEF RecoveriesStand
<1> QED BY <1>2, <1>3 DEF JobInv

LEMMA OrderKept ==
  ASSUME Ordered,
         \A a, b \in Jobs : InProgress(a)' /\ InProgress(b)' /\ a # b =>
           InProgress(a) /\ InProgress(b) /\ (b \in job[a].older => b \in job'[a].older)
  PROVE  Ordered'
BY DEF Ordered

------------------------------------------------------------------------------
(* A job that ends, throws or loses its worker is forgotten by the others.   *)
LEMMA ResetJob ==
  ASSUME IInv, created' = created, NEW j \in Jobs, NEW b \in JobState,
         b.phase = "idle" \/ (b.phase = "queued" /\ b.monitor # 0 /\ b.monitor <= created),
         b.snapshot = NoSnapshot, b.older = {},
         job' = Forget([job EXCEPT ![j] = b], j),
         \A k \in Jobs : RowsGoOn(k)
  PROVE  job' \in [Jobs -> JobState] /\ Ordered' /\ \A k \in Jobs : JobInv(k)'
<1> DEFINE jobs == [job EXCEPT ![j] = b]
<1>1. jobs \in [Jobs -> JobState] /\ jobs[j] = b /\ \A k \in Jobs \ {j} : jobs[k] = job[k]
  BY DEF IInv, Types
<1>2. job' = Forget(jobs, j)
  OBVIOUS
<1> HIDE DEF jobs
<1>3. /\ job' \in [Jobs -> JobState]
      /\ \A k \in Jobs : job'[k] = [jobs[k] EXCEPT !.older = jobs[k].older \ {j}]
  <2>1. /\ Forget(jobs, j) \in [Jobs -> JobState]
        /\ \A k \in Jobs : Forget(jobs, j)[k] = [jobs[k] EXCEPT !.older = jobs[k].older \ {j}]
    BY <1>1, ForgetFields
  <2> QED BY <1>2, <2>1
<1>4. ASSUME NEW k \in Jobs \ {j}
      PROVE  Keeps(k) /\ job'[k].older = job[k].older \ {j}
  <2>1. job'[k] = [job[k] EXCEPT !.older = job[k].older \ {j}] /\ job[k] \in JobState
    BY <1>1, <1>3 DEF IInv, Types
  <2> QED BY <2>1 DEF Keeps, JobState
<1>5. /\ job'[j].phase = b.phase /\ job'[j].monitor = b.monitor /\ job'[j].older = {}
      /\ job'[j].snapshot = NoSnapshot
  <2>1. job'[j] = [b EXCEPT !.older = b.older \ {j}]
    BY <1>1, <1>3
  <2> QED BY <2>1 DEF JobState
<1>6. ~InProgress(j)' /\ \A k \in Jobs \ {j} : InProgress(k)' <=> InProgress(k)
  BY <1>4, <1>5 DEF InProgress, Keeps
<1>7. Ordered'
  BY <1>4, <1>6, OrderKept DEF IInv
<1>8. ASSUME NEW k \in Jobs \ {j} PROVE JobInv(k)'
  <2>1. OlderGoOn(k)
    <3> SUFFICES ASSUME NEW i \in job'[k].older
                 PROVE  i \in Jobs /\ InProgress(i)' /\ job[i].stale \subseteq job'[i].stale
      BY DEF OlderGoOn
    <3>1. i \in job[k].older /\ i # j
      BY <1>4
    <3>2. i \in Jobs /\ InProgress(i)
      BY <3>1 DEF IInv, Types, JobState, JobInv, Shape
    <3> QED BY <1>4, <1>6, <3>1, <3>2 DEF Keeps
  <2>2. Types /\ JobInv(k) /\ created' \in Nat /\ created <= created'
    BY DEF IInv, Types
  <2> QED BY <1>4, <2>1, <2>2, Spectator
<1>9. JobInv(j)'
  <2>1. Shape(j)'
    <3>1. job'[j].monitor = b.monitor /\ created' = created
      BY <1>5
    <3>2. job'[j].snapshot.faulty \intersect job'[j].snapshot.healthy = {}
      BY <1>5 DEF NoSnapshot
    <3>3. job'[j].phase \notin {"observe", "claim", "post", "resolve"}
      BY <1>5
    <3> QED BY <1>5, <3>1, <3>2, <3>3 DEF Shape, Loop
  <2> QED BY <1>5, <2>1, NothingWritten
<1> QED BY <1>3, <1>7, <1>8, <1>9

(* A job goes on: nobody is forgotten, and what is stale stays so.           *)
Moves(j) ==
  /\ job' \in [Jobs -> JobState]
  /\ InProgress(j) /\ InProgress(j)'
  /\ job'[j].older = job[j].older /\ job[j].stale \subseteq job'[j].stale
  /\ \A k \in Jobs \ {j} : Keeps(k) /\ job'[k].older = job[k].older

LEMMA Others ==
  ASSUME IInv, created' = created, NEW j \in Jobs, Moves(j),
         \A k \in Jobs \ {j} : RowsGoOn(k)
  PROVE  /\ Ordered'
         /\ \A k \in Jobs \ {j} : JobInv(k)'
         /\ \A k \in job'[j].older :
              k \in job[j].older /\ InProgress(k)' /\ job[k].stale \subseteq job'[k].stale
<1>1. \A k \in Jobs : InProgress(k)' <=> InProgress(k)
  BY DEF Moves, Keeps, InProgress
<1>2. Ordered'
  BY <1>1, OrderKept DEF Moves, IInv
<1>3. \A k \in Jobs : job'[k].older = job[k].older /\ job[k].stale \subseteq job'[k].stale
  BY DEF Moves, Keeps
<1>4. ASSUME NEW k \in Jobs, NEW i \in job'[k].older
      PROVE  i \in Jobs /\ InProgress(i)' /\ job[i].stale \subseteq job'[i].stale
  <2>1. i \in job[k].older /\ job[k] \in JobState
    BY <1>3 DEF IInv, Types
  <2>2. i \in Jobs /\ InProgress(i)
    BY <2>1 DEF IInv, JobState, JobInv, Shape
  <2> QED BY <1>1, <1>3, <2>2
<1>5. ASSUME NEW k \in Jobs \ {j} PROVE JobInv(k)'
  <2>1. OlderGoOn(k)
    BY <1>4 DEF OlderGoOn
  <2>2. Types /\ JobInv(k) /\ created' \in Nat /\ created <= created' /\ Keeps(k) /\ RowsGoOn(k)
    BY DEF IInv, Types, Moves
  <2> QED BY <2>1, <2>2, Spectator
<1> QED BY <1>2, <1>3, <1>4, <1>5
------------------------------------------------------------------------------
(* Fields of the records that steps change.                                  *)
Gone(r, p, T) == [r EXCEPT !.phase = p, !.todo = T]
LEMMA GotoFields ==
  \A r \in JobState, p \in Phases, T \in SUBSET Known :
    /\ Gone(r, p, T) \in JobState
    /\ Gone(r, p, T).phase = p /\ Gone(r, p, T).todo = T
    /\ Gone(r, p, T).monitor = r.monitor /\ Gone(r, p, T).snapshot = r.snapshot
    /\ Gone(r, p, T).accepted = r.accepted /\ Gone(r, p, T).older = r.older
    /\ Gone(r, p, T).stale = r.stale /\ Gone(r, p, T).touched = r.touched
<1> TAKE r \in JobState, p \in Phases, T \in SUBSET Known
<1> QED BY DEF JobState, Gone

LEMMA MarkFields ==
  \A r \in JobState, s, t \in SUBSET Known :
    /\ MarkedWith(r, s, t) \in JobState
    /\ MarkedWith(r, s, t).phase = r.phase /\ MarkedWith(r, s, t).todo = r.todo
    /\ MarkedWith(r, s, t).monitor = r.monitor /\ MarkedWith(r, s, t).snapshot = r.snapshot
    /\ MarkedWith(r, s, t).accepted = r.accepted /\ MarkedWith(r, s, t).older = r.older
    /\ MarkedWith(r, s, t).stale = s /\ MarkedWith(r, s, t).touched = t
<1> TAKE r \in JobState, s, t \in SUBSET Known
<1> QED BY DEF JobState, MarkedWith

LEMMA GotoMoves ==
  ASSUME IInv, NEW j \in Jobs, InProgress(j), NEW p \in Phases \ {"idle", "queued"},
         NEW T \in SUBSET Known, Goto(j, p, T)
  PROVE  /\ Moves(j)
         /\ job'[j].phase = p /\ job'[j].todo = T
         /\ job'[j].monitor = job[j].monitor /\ job'[j].snapshot = job[j].snapshot
         /\ job'[j].accepted = job[j].accepted /\ job'[j].stale = job[j].stale
         /\ job'[j].touched = job[j].touched
<1>1. \A k \in Jobs : job[k] \in JobState
  BY DEF IInv, Types
<1>2. Gone(job[j], p, T) \in JobState
  BY <1>1, GotoFields
<1>3. /\ job' \in [Jobs -> JobState]
      /\ job'[j] = Gone(job[j], p, T)
      /\ \A k \in Jobs \ {j} : job'[k] = job[k]
  BY <1>1, <1>2 DEF Goto, IInv, Types, Gone
<1>4. /\ job'[j].phase = p /\ job'[j].todo = T
      /\ job'[j].monitor = job[j].monitor /\ job'[j].snapshot = job[j].snapshot
      /\ job'[j].accepted = job[j].accepted /\ job'[j].older = job[j].older
      /\ job'[j].stale = job[j].stale /\ job'[j].touched = job[j].touched
  BY <1>1, <1>3, GotoFields
<1>5. Moves(j)
  BY <1>3, <1>4 DEF Moves, InProgress, Keeps
<1> QED BY <1>4, <1>5

(* A job that writes to a condition marks it.                                *)
MarksAndGoes(j, c, b, p, T) == job' = [Marked(j, c, b) EXCEPT ![j].phase = p, ![j].todo = T]
LEMMA MarkedMoves ==
  ASSUME IInv, NEW j \in Jobs, InProgress(j), NEW c \in Known, NEW b \in BOOLEAN,
         NEW p \in Phases \ {"idle", "queued"}, NEW T \in SUBSET Known,
         MarksAndGoes(j, c, b, p, T)
  PROVE  /\ Moves(j)
         /\ job'[j].phase = p /\ job'[j].todo = T
         /\ job'[j].monitor = job[j].monitor /\ job'[j].snapshot = job[j].snapshot
         /\ job'[j].accepted = job[j].accepted /\ job'[j].touched = job[j].touched
         /\ \A k \in job[j].older : c \in job'[k].stale
         /\ \A k \in Jobs \ {j} : b /\ InProgress(k) => c \in job'[k].touched
<1> DEFINE jobs == Marked(j, c, b)
           s(k) == StaleAfter(k, j, c)
           u(k) == TouchedAfter(k, j, c, b)
<1>1. /\ jobs \in [Jobs -> JobState]
      /\ \A k \in Jobs : jobs[k] = MarkedWith(job[k], s(k), u(k))
  <2>1. Types
    BY DEF IInv
  <2> QED BY <2>1, MarkedFields
<1>2. job' = [jobs EXCEPT ![j].phase = p, ![j].todo = T]
  BY DEF MarksAndGoes
<1> HIDE DEF jobs
<1>3. \A k \in Jobs : job[k] \in JobState /\ jobs[k] \in JobState
  BY <1>1 DEF IInv, Types
<1>4. Gone(jobs[j], p, T) \in JobState
  BY <1>3, GotoFields
<1>5. /\ job' \in [Jobs -> JobState]
      /\ job'[j] = Gone(jobs[j], p, T)
      /\ \A k \in Jobs \ {j} : job'[k] = jobs[k]
  BY <1>1, <1>2, <1>4 DEF Gone
<1>6. ASSUME NEW k \in Jobs
      PROVE  /\ jobs[k].phase = job[k].phase /\ jobs[k].todo = job[k].todo
             /\ jobs[k].monitor = job[k].monitor /\ jobs[k].snapshot = job[k].snapshot
             /\ jobs[k].accepted = job[k].accepted /\ jobs[k].older = job[k].older
             /\ job[k].stale \subseteq jobs[k].stale /\ job[k].touched \subseteq jobs[k].touched
             /\ k \in job[j].older => c \in jobs[k].stale
             /\ b /\ k # j /\ InProgress(k) => c \in jobs[k].touched
             /\ k = j => jobs[k].touched = job[k].touched
  <2>1. job[k] \in JobState /\ s(k) \in SUBSET Known /\ u(k) \in SUBSET Known
    BY <1>3 DEF JobState, StaleAfter, TouchedAfter
  <2>2. jobs[k] = MarkedWith(job[k], s(k), u(k))
    BY <1>1
  <2>3. /\ jobs[k].phase = job[k].phase /\ jobs[k].todo = job[k].todo
        /\ jobs[k].monitor = job[k].monitor /\ jobs[k].snapshot = job[k].snapshot
        /\ jobs[k].accepted = job[k].accepted /\ jobs[k].older = job[k].older
        /\ jobs[k].stale = s(k) /\ jobs[k].touched = u(k)
    <3> HIDE DEF s, u
    <3> QED BY <2>1, <2>2, MarkFields
  <2> QED BY <2>3 DEF StaleAfter, TouchedAfter
<1>7. /\ job'[j].phase = p /\ job'[j].todo = T
      /\ job'[j].monitor = jobs[j].monitor /\ job'[j].snapshot = jobs[j].snapshot
      /\ job'[j].accepted = jobs[j].accepted /\ job'[j].older = jobs[j].older
      /\ job'[j].stale = jobs[j].stale /\ job'[j].touched = jobs[j].touched
  <2>1. jobs[j] \in JobState /\ p \in Phases /\ job'[j] = Gone(jobs[j], p, T)
    BY <1>3, <1>5
  <2>2. /\ Gone(jobs[j], p, T).phase = p /\ Gone(jobs[j], p, T).todo = T
        /\ Gone(jobs[j], p, T).monitor = jobs[j].monitor
        /\ Gone(jobs[j], p, T).snapshot = jobs[j].snapshot
        /\ Gone(jobs[j], p, T).accepted = jobs[j].accepted
        /\ Gone(jobs[j], p, T).older = jobs[j].older
        /\ Gone(jobs[j], p, T).stale = jobs[j].stale
        /\ Gone(jobs[j], p, T).touched = jobs[j].touched
    BY <2>1, GotoFields
  <2> QED BY <2>1, <2>2
<1>8. \A k \in Jobs \ {j} : Keeps(k) /\ job'[k].older = job[k].older
  BY <1>5, <1>6 DEF Keeps
<1>9. job[j].older \subseteq Jobs
  BY <1>3 DEF JobState
<1>10. Moves(j)
  BY <1>5, <1>6, <1>7, <1>8 DEF Moves, InProgress
<1>11. \A k \in job[j].older : c \in job'[k].stale
  BY <1>5, <1>6, <1>7, <1>9
<1> QED BY <1>5, <1>6, <1>7, <1>10, <1>11

(* What Throw, End and Die make of the records.                              *)
LEMMA ThrowResets ==
  ASSUME IInv, NEW j \in Jobs, job[j].phase # "idle", created' = created,
         \A k \in Jobs : RowsGoOn(k),
         Throw(j) \/ End(j) \/ job' = Forget([job EXCEPT ![j] = Queued(@.monitor, @.failures)], j)
  PROVE  job' \in [Jobs -> JobState] /\ Ordered' /\ \A k \in Jobs : JobInv(k)'
<1>1. job[j] \in JobState /\ job[j].monitor # 0 /\ job[j].monitor <= created
  BY DEF IInv, Types, JobInv, Shape
<1>2. job[j].monitor \in Nat /\ job[j].failures \in Nat /\ job[j].failures + 1 \in Nat
  BY <1>1 DEF JobState
<1> DEFINE b1 == Queued(job[j].monitor, job[j].failures + 1)
           b2 == Queued(job[j].monitor, job[j].failures)
<1>3. \E b \in {Idle, b1, b2} : job' = Forget([job EXCEPT ![j] = b], j)
  BY DEF Throw, End
<1>4. PICK b \in {Idle, b1, b2} : job' = Forget([job EXCEPT ![j] = b], j)
  BY <1>3
<1>5. b \in JobState
  BY <1>2, QueuedIsAJob
<1>6. /\ b.phase = "idle" \/ (b.phase = "queued" /\ b.monitor = job[j].monitor)
      /\ b.snapshot = NoSnapshot /\ b.older = {}
  <2>1. CASE b = Idle
    BY <2>1 DEF Idle
  <2>2. ASSUME NEW n, b = Queued(job[j].monitor, n)
        PROVE  b.phase = "queued" /\ b.monitor = job[j].monitor /\ b.snapshot = NoSnapshot /\ b.older = {}
    BY <2>2 DEF Idle, Queued
  <2> QED BY <2>1, <2>2
<1>7. b.phase = "idle" \/ (b.phase = "queued" /\ b.monitor # 0 /\ b.monitor <= created)
  BY <1>1, <1>6
<1> HIDE DEF b1, b2
<1> QED BY <1>4, <1>5, <1>6, <1>7, ResetJob
------------------------------------------------------------------------------
(* The steps of a job, one by one.                                           *)
LEMMA RefreshInv ==
  ASSUME IInv, NEW j \in Jobs, Refresh(j)
  PROVE  IInv'
<1>1. /\ monitor.id \in Nat /\ monitor.id # 0 /\ monitor.id <= created /\ created \in Nat
      /\ job[j].phase = "idle" /\ ~InProgress(j)
      /\ UNCHANGED <<monitor, created, due, open, alert, faults>>
  BY DEF IInv, Types, Refresh, rows, InProgress
<1>2. Queued(monitor.id, 0) \in JobState
  BY <1>1, QueuedIsAJob
<1>3. /\ job' \in [Jobs -> JobState]
      /\ job'[j] = Queued(monitor.id, 0)
      /\ \A k \in Jobs \ {j} : job'[k] = job[k]
  BY <1>2 DEF Refresh, IInv, Types
<1>4. /\ job'[j].phase = "queued" /\ job'[j].monitor = monitor.id /\ job'[j].older = {}
      /\ job'[j].snapshot = NoSnapshot
  BY <1>3 DEF Queued, Idle
<1>5. \A k \in Jobs : InProgress(k)' => InProgress(k) /\ k # j
  BY <1>3, <1>4 DEF InProgress
<1>6. Ordered'
  BY <1>3, <1>5, OrderKept DEF IInv
<1>7. Types'
  BY <1>1, <1>3 DEF IInv, Types
<1>8. ASSUME NEW k \in Jobs \ {j} PROVE JobInv(k)'
  <2>1. \A i \in job[k].older : i \in Jobs /\ InProgress(i)
    BY DEF IInv, Types, JobState, JobInv, Shape
  <2>2. OlderGoOn(k)
    BY <1>1, <1>3, <2>1 DEF OlderGoOn, InProgress
  <2>3. Keeps(k)
    BY <1>3 DEF Keeps
  <2>4. Types /\ JobInv(k) /\ created' \in Nat /\ created <= created' /\ RowsGoOn(k)
    BY <1>1, RowsUnchanged DEF IInv
  <2> QED BY <2>2, <2>3, <2>4, Spectator
<1>9. JobInv(j)'
  <2>1. Shape(j)'
    BY <1>1, <1>4 DEF Shape, Loop, NoSnapshot
  <2> QED BY <1>4, <2>1, NothingWritten
<1> QED BY <1>6, <1>7, <1>8, <1>9 DEF IInv

Collected(r, s, O) == [r EXCEPT !.phase = "finalize", !.snapshot = s, !.older = O]
LEMMA CollectedFields ==
  \A r \in JobState, s \in SnapshotState, O \in SUBSET Jobs :
    /\ Collected(r, s, O) \in JobState
    /\ Collected(r, s, O).phase = "finalize" /\ Collected(r, s, O).snapshot = s
    /\ Collected(r, s, O).older = O /\ Collected(r, s, O).monitor = r.monitor
<1> TAKE r \in JobState, s \in SnapshotState, O \in SUBSET Jobs
<1> QED BY DEF JobState, Collected, Phases

(* The new snapshot is newer than those of all jobs in progress.             *)
LEMMA CollectInv ==
  ASSUME IInv, NEW j \in Jobs, NEW s \in SnapshotState, s.faulty \intersect s.healthy = {},
         CollectAs(j, s)
  PROVE  IInv'
<1> DEFINE O == {k \in Jobs : InProgress(k)}
           jobs == Forget(job, j)
<1>1. /\ job[j].phase = "queued" /\ ~InProgress(j)
      /\ UNCHANGED <<monitor, created, due, open, alert, faults>>
      /\ job' = [jobs EXCEPT ![j] = Collected(jobs[j], s, O)]
  <2>1. job' = [jobs EXCEPT ![j] = [@ EXCEPT !.phase = "finalize", !.snapshot = s, !.older = O]]
    BY DEF CollectAs
  <2>2. jobs \in [Jobs -> JobState]
    BY ForgetFields DEF IInv, Types
  <2> QED BY <2>1, <2>2 DEF CollectAs, rows, InProgress, Collected
<1>2. /\ jobs \in [Jobs -> JobState]
      /\ \A k \in Jobs : jobs[k] = [job[k] EXCEPT !.older = job[k].older \ {j}]
  BY ForgetFields DEF IInv, Types
<1> HIDE DEF jobs, O
<1>3. O \in SUBSET Jobs /\ \A k \in O : InProgress(k) /\ k # j
  BY <1>1 DEF O
<1>4. /\ job' \in [Jobs -> JobState] /\ job'[j] = Collected(jobs[j], s, O)
      /\ \A k \in Jobs \ {j} : job'[k] = jobs[k]
  BY <1>1, <1>2, <1>3, CollectedFields
<1>5. /\ job'[j].phase = "finalize" /\ job'[j].snapshot = s /\ job'[j].older = O
      /\ job'[j].monitor = jobs[j].monitor
  BY <1>2, <1>3, <1>4, CollectedFields
<1>6. ASSUME NEW k \in Jobs
      PROVE  /\ jobs[k].older = job[k].older \ {j} /\ jobs[k].monitor = job[k].monitor
             /\ k # j => Keeps(k)
  <2>1. job[k] \in JobState /\ jobs[k] = [job[k] EXCEPT !.older = job[k].older \ {j}]
    BY <1>2 DEF IInv, Types
  <2> QED BY <1>4, <2>1 DEF JobState, Keeps
<1>7. \A k \in Jobs \ {j} : InProgress(k)' <=> InProgress(k)
  BY <1>6 DEF Keeps, InProgress
<1>8. Ordered'
  <2> SUFFICES ASSUME NEW a \in Jobs, NEW b \in Jobs, InProgress(a)', InProgress(b)', a # b
               PROVE  b \in job'[a].older \/ a \in job'[b].older
    BY DEF Ordered
  <2>1. CASE a = j
    BY <2>1, <1>5, <1>7 DEF O
  <2>2. CASE b = j
    BY <2>2, <1>5, <1>7 DEF O
  <2>3. CASE a # j /\ b # j
    <3>1. b \in job[a].older \/ a \in job[b].older
      BY <2>3, <1>7 DEF IInv, Ordered
    <3> QED BY <2>3, <3>1, <1>4, <1>6
  <2> QED BY <2>1, <2>2, <2>3
<1>9. Types'
  BY <1>1, <1>4 DEF IInv, Types
<1>10. ASSUME NEW k \in Jobs \ {j} PROVE JobInv(k)'
  <2>1. \A i \in job[k].older : i \in Jobs /\ InProgress(i)
    BY DEF IInv, Types, JobState, JobInv, Shape
  <2>2. job'[k].older \subseteq job[k].older /\ j \notin job'[k].older
    BY <1>4, <1>6
  <2>3. OlderGoOn(k)
    BY <1>6, <1>7, <2>1, <2>2 DEF OlderGoOn, Keeps
  <2>4. Types /\ JobInv(k) /\ created' \in Nat /\ created <= created' /\ RowsGoOn(k)
    BY <1>1, RowsUnchanged DEF IInv, Types
  <2> QED BY <1>6, <2>3, <2>4, Spectator
<1>11. JobInv(j)'
  <2>1. job[j].monitor # 0 /\ job[j].monitor <= created
    BY <1>1 DEF IInv, JobInv, Shape
  <2>2. Shape(j)'
    BY <1>1, <1>3, <1>5, <1>6, <1>7, <2>1 DEF Shape, Loop
  <2> QED BY <1>5, <2>2, NothingWritten
<1> QED BY <1>8, <1>9, <1>10, <1>11 DEF IInv

LEMMA CollectsInv ==
  ASSUME IInv, NEW j \in Jobs, Collect(j) \/ CollectPart(j)
  PROVE  IInv'
<1>1. faults \in SUBSET Known
  BY DEF IInv, Types
<1>2. PICK s : CollectAs(j, s) /\ s \in PartialSnapshots \union
        {[complete |-> TRUE, covered |-> TRUE, faulty |-> faults, healthy |-> Known \ faults]}
  BY DEF Collect, CollectPart
<1>3. s \in SnapshotState /\ s.faulty \intersect s.healthy = {}
  <2>1. CASE s = NoSnapshot
    BY <2>1 DEF NoSnapshot, SnapshotState
  <2>0. CASE s = [NoSnapshot EXCEPT !.complete = TRUE, !.covered = TRUE]
    <3>1. s = [complete |-> TRUE, covered |-> TRUE, faulty |-> {}, healthy |-> {}]
      BY <2>0 DEF NoSnapshot
    <3> QED BY <3>1 DEF SnapshotState
  <2>2. CASE s = [complete |-> TRUE, covered |-> TRUE, faulty |-> faults, healthy |-> Known \ faults]
    BY <1>1, <2>2 DEF SnapshotState
  <2>3. CASE s = [complete |-> TRUE, covered |-> FALSE, faulty |-> faults, healthy |-> Known \ faults]
    BY <1>1, <2>3 DEF SnapshotState
  <2> QED BY <1>2, <2>0, <2>1, <2>2, <2>3 DEF PartialSnapshots
<1> QED BY <1>2, <1>3, CollectInv

(* Steps that end in a job that throws, ends or dies.                        *)
LEMMA CollectThrowsInv ==
  ASSUME IInv, NEW j \in Jobs, CollectThrows(j) \/ Die(j) \/ PostFails(j) \/ Stamp(j)
  PROVE  IInv'
<1>1. /\ UNCHANGED <<monitor, created, open, alert, faults>> /\ due' \in BOOLEAN
      /\ job[j].phase # "idle"
  BY DEF CollectThrows, Die, PostFails, Stamp, rows, IInv, Types, InProgress
<1>2. Throw(j) \/ End(j) \/ job' = Forget([job EXCEPT ![j] = Queued(@.monitor, @.failures)], j)
  BY DEF CollectThrows, Die, PostFails, Stamp
<1>3. \A k \in Jobs : RowsGoOn(k)
  BY <1>1, RowsUnchanged
<1>4. job' \in [Jobs -> JobState] /\ Ordered' /\ \A k \in Jobs : JobInv(k)'
  BY <1>1, <1>2, <1>3, ThrowResets
<1>5. Types'
  BY <1>1, <1>4 DEF IInv, Types
<1> QED BY <1>4, <1>5 DEF IInv

FinalizedAs(r, p, T, a) == [r EXCEPT !.accepted = a, !.phase = p, !.todo = T]
LEMMA FinalizedFields ==
  \A r \in JobState, p \in Phases, T \in SUBSET Known, a \in BOOLEAN :
    /\ FinalizedAs(r, p, T, a) \in JobState
    /\ FinalizedAs(r, p, T, a).phase = p /\ FinalizedAs(r, p, T, a).todo = T
    /\ FinalizedAs(r, p, T, a).accepted = a
    /\ FinalizedAs(r, p, T, a).monitor = r.monitor /\ FinalizedAs(r, p, T, a).snapshot = r.snapshot
    /\ FinalizedAs(r, p, T, a).older = r.older /\ FinalizedAs(r, p, T, a).stale = r.stale
<1> TAKE r \in JobState, p \in Phases, T \in SUBSET Known, a \in BOOLEAN
<1> QED BY DEF JobState, FinalizedAs

(* An accepted job starts with all its faults to do, and another one has     *)
(* nothing to do.                                                            *)
LEMMA FinalizeInv ==
  ASSUME IInv, NEW j \in Jobs, Finalize(j)
  PROVE  IInv'
<1> DEFINE p == IF Accepts(j) THEN "observe" ELSE "resolve"
           T == IF Accepts(j) THEN job[j].snapshot.faulty ELSE {}
           a == Accepts(j)
<1>1. /\ job[j].phase = "finalize"
      /\ UNCHANGED <<monitor, created, due, open, alert, faults>>
      /\ job' = [job EXCEPT ![j] = FinalizedAs(job[j], p, T, a)]
  BY DEF Finalize, rows, FinalizedAs, IInv, Types
<1>2. job[j] \in JobState /\ p \in Phases /\ T \in SUBSET Known /\ a \in BOOLEAN
  BY DEF IInv, Types, JobState, SnapshotState, Phases, Accepts
<1>3. \/ p = "observe" /\ T = job[j].snapshot.faulty /\ a = TRUE
      \/ p = "resolve" /\ T = {} /\ a = FALSE
  <2>1. CASE Accepts(j)
    <3>1. a = TRUE
      BY <2>1 DEF Accepts
    <3> QED BY <2>1, <3>1
  <2>2. CASE ~Accepts(j)
    <3>1. a = FALSE
      BY <2>2 DEF Accepts
    <3> QED BY <2>2, <3>1
  <2> QED BY <2>1, <2>2
<1> HIDE DEF p, T, a
<1>4. /\ job' \in [Jobs -> JobState] /\ job'[j] = FinalizedAs(job[j], p, T, a)
      /\ \A k \in Jobs \ {j} : job'[k] = job[k]
  BY <1>1, <1>2, FinalizedFields DEF IInv, Types
<1>5. /\ job'[j].phase = p /\ job'[j].todo = T /\ job'[j].accepted = a
      /\ job'[j].monitor = job[j].monitor /\ job'[j].snapshot = job[j].snapshot
      /\ job'[j].older = job[j].older /\ job'[j].stale = job[j].stale
  <2>1. FinalizedAs(job[j], p, T, a).accepted = a
    BY <1>2, FinalizedFields
  <2> QED BY <1>2, <1>4, <2>1, FinalizedFields
<1>6. Moves(j)
  BY <1>1, <1>3, <1>4, <1>5 DEF Moves, Keeps, InProgress
<1>7. /\ Ordered' /\ (\A k \in Jobs \ {j} : JobInv(k)')
      /\ \A k \in job'[j].older :
           k \in job[j].older /\ InProgress(k)' /\ job[k].stale \subseteq job'[k].stale
  BY <1>1, <1>6, RowsUnchanged, Others
<1>8. Types'
  BY <1>1, <1>4 DEF IInv, Types
<1>9. JobInv(j)'
  <2>1. Shape(j) /\ created' = created
    BY <1>1 DEF IInv, JobInv
  <2>2. Shape(j)'
    BY <1>1, <1>3, <1>5, <1>7, <2>1 DEF Shape, Loop, Accepted
  <2>3. \A c : ~Passed(j, c)' /\ ~AtHand(j, c)'
    BY <1>3, <1>5 DEF Passed, AtHand, Loop, Accepted
  <2>4. OlderAreStale(j)' /\ FaultsStand(j)'
    BY <2>3 DEF OlderAreStale, FaultsStand
  <2>5. RecoveriesStand(j)'
    BY <1>3, <1>5 DEF RecoveriesStand, Accepted
  <2> QED BY <2>2, <2>4, <2>5 DEF JobInv
<1> QED BY <1>7, <1>8, <1>9 DEF IInv

(* The loop over the faults is over; what is open of the healthy ones is     *)
(* left to resolve.                                                          *)
LEMMA ListCasesInv ==
  ASSUME IInv, NEW j \in Jobs, ListCases(j)
  PROVE  IInv'
<1> DEFINE T == open \intersect job[j].snapshot.healthy
<1>1. /\ job[j].phase = "observe" /\ job[j].todo = {} /\ InProgress(j)
      /\ UNCHANGED <<monitor, created, due, open, alert, faults>>
      /\ Goto(j, "resolve", T)
  BY DEF ListCases, rows, InProgress, Resolvable
<1>2. T \in SUBSET Known /\ "resolve" \in Phases \ {"idle", "queued"}
  BY DEF IInv, Types, Phases
<1>3. T \subseteq job[j].snapshot.healthy /\ \A c \in job[j].snapshot.healthy \ T : c \notin open
  OBVIOUS
<1> HIDE DEF T
<1>4. /\ Moves(j)
      /\ job'[j].phase = "resolve" /\ job'[j].todo = T
      /\ job'[j].monitor = job[j].monitor /\ job'[j].snapshot = job[j].snapshot
      /\ job'[j].accepted = job[j].accepted /\ job'[j].stale = job[j].stale
  BY <1>1, <1>2, GotoMoves
<1>5. /\ Ordered' /\ (\A k \in Jobs \ {j} : JobInv(k)')
      /\ \A k \in job'[j].older :
           k \in job[j].older /\ InProgress(k)' /\ job[k].stale \subseteq job'[k].stale
  BY <1>1, <1>4, RowsUnchanged, Others
<1>6. Types'
  BY <1>1, <1>4 DEF IInv, Types, Moves
<1>7. JobInv(j)'
  <2>1. JobInv(j)
    BY DEF IInv
  <2>2. Shape(j)'
    BY <1>1, <1>3, <1>4, <1>5, <2>1 DEF JobInv, Shape, Loop
  <2>3. \A c : (Passed(j, c)' => Passed(j, c)) /\ ~AtHand(j, c)'
    BY <1>1, <1>4 DEF Passed, AtHand, Loop
  <2>4. OlderAreStale(j)'
    BY <1>4, <1>5, <2>1, <2>3 DEF OlderAreStale, JobInv
  <2>5. FaultsStand(j)'
    BY <1>1, <1>4, <2>1, <2>3 DEF FaultsStand, JobInv
  <2>6. RecoveriesStand(j)'
    BY <1>1, <1>3, <1>4 DEF RecoveriesStand
  <2> QED BY <2>2, <2>4, <2>5, <2>6 DEF JobInv
<1> QED BY <1>5, <1>6, <1>7 DEF IInv

(* A condition of the job is marked and its case and alert are written: the  *)
(* jobs with older evidence are stale there from now on.                     *)
LEMMA ObserveInv ==
  ASSUME IInv, NEW j \in Jobs, Observe(j)
  PROVE  IInv'
<1> DEFINE c == First(job[j].todo)
           b == c \notin open
           p == IF NeedsDelivery(c) THEN "claim" ELSE "observe"
           T == IF p = "observe" THEN Rest(job[j].todo) ELSE job[j].todo
<1>0. /\ Types /\ JobInv(j) /\ job[j] \in JobState /\ job[j].todo \subseteq Known
      /\ job[j].snapshot.faulty \subseteq Known
  BY DEF IInv, Types, JobState, SnapshotState
<1>1. /\ job[j].phase = "observe" /\ job[j].todo # {} /\ InProgress(j)
      /\ UNCHANGED <<monitor, created, due, faults>>
  BY DEF Observe, InProgress
<1>2. c \in job[j].todo /\ c \in Known
  BY <1>0, <1>1, FirstIsThere
<1>3. CASE Throw(j) /\ UNCHANGED <<open, alert, claim>>
  <2>1. \A k \in Jobs : RowsGoOn(k)
    BY <1>1, <1>3, RowsUnchanged
  <2>2. job' \in [Jobs -> JobState] /\ Ordered' /\ \A k \in Jobs : JobInv(k)'
    BY <1>1, <1>3, <2>1, ThrowResets
  <2>3. Types'
    BY <1>1, <1>3, <2>2 DEF IInv, Types
  <2> QED BY <2>2, <2>3 DEF IInv
<1>4. CASE ~(Throw(j) /\ UNCHANGED <<open, alert, claim>>)
  <2>1. /\ open' = open \union {c}
        /\ alert' = [alert EXCEPT ![c] = IF @ = "none" THEN "pending" ELSE @]
        /\ MarksAndGoes(j, c, b, p, T)
    <3>1. /\ open' = open \union {c}
          /\ alert' = [alert EXCEPT ![c] = IF @ = "none" THEN "pending" ELSE @]
          /\ job' = [Marked(j, c, b) EXCEPT ![j].phase = p,
                       ![j].todo = IF p = "observe" THEN Rest(@) ELSE @]
      BY <1>4 DEF Observe
    <3>2. Marked(j, c, b)[j].todo = job[j].todo /\ Marked(j, c, b) \in [Jobs -> JobState]
      <4>1. b \in BOOLEAN
        OBVIOUS
      <4> HIDE DEF b, c
      <4>2. /\ Marked(j, c, b) \in [Jobs -> JobState]
            /\ Marked(j, c, b)[j] = MarkedWith(job[j], StaleAfter(j, j, c), TouchedAfter(j, j, c, b))
        BY <1>0, <1>2, <4>1, MarkedFields
      <4>3. StaleAfter(j, j, c) \in SUBSET Known /\ TouchedAfter(j, j, c, b) \in SUBSET Known
        BY <1>0, <1>2 DEF StaleAfter, TouchedAfter, JobState
      <4> QED BY <1>0, <4>2, <4>3, MarkFields
    <3> HIDE DEF b, c
    <3> QED BY <3>1, <3>2 DEF MarksAndGoes
  <2>2. b \in BOOLEAN /\ p \in Phases \ {"idle", "queued"} /\ T \in SUBSET Known /\ T \subseteq job[j].todo
    BY <1>0, <1>2 DEF Phases, Rest
  <2>3. \/ p = "claim" /\ T = job[j].todo
        \/ p = "observe" /\ T = job[j].todo \ {c} /\ alert[c] = "sent"
    BY <1>0, <1>2 DEF NeedsDelivery, Rest, Types
  <2>4. b = (c \notin open)
    OBVIOUS
  <2> HIDE DEF b, p, T
  <2>5. /\ Moves(j)
        /\ job'[j].phase = p /\ job'[j].todo = T
        /\ job'[j].monitor = job[j].monitor /\ job'[j].snapshot = job[j].snapshot
        /\ job'[j].accepted = job[j].accepted
        /\ \A k \in job[j].older : c \in job'[k].stale
        /\ \A k \in Jobs \ {j} : b /\ InProgress(k) => c \in job'[k].touched
    <3> HIDE DEF c
    <3> QED BY <1>1, <1>2, <2>1, <2>2, MarkedMoves
  <2>6. /\ alert' \in [Known -> {"none", "pending", "sent"}]
        /\ alert'[c] # "none" /\ (alert[c] = "sent" => alert'[c] = "sent")
        /\ \A d \in Known \ {c} : alert'[d] = alert[d]
    BY <1>0, <1>2, <2>1 DEF Types
  <2>7. \A k \in Jobs \ {j} : RowsGoOn(k)
    <3> SUFFICES ASSUME NEW k \in Jobs \ {j}, InProgress(k)
                 PROVE  RowsGoOn(k)
      BY DEF RowsGoOn
    <3>1. \A d \in Known : alert[d] # "none" => alert'[d] # "none" /\ (alert[d] = "sent" => alert'[d] = "sent")
      BY <2>6
    <3>2. \A d \in Known \ job'[k].touched : d \notin open => d \notin open'
      BY <2>1, <2>4, <2>5
    <3> QED BY <1>1, <2>1, <3>1, <3>2 DEF RowsGoOn
  <2>8. /\ Ordered' /\ (\A k \in Jobs \ {j} : JobInv(k)')
        /\ \A k \in job'[j].older :
             k \in job[j].older /\ InProgress(k)' /\ job[k].stale \subseteq job'[k].stale
    BY <1>1, <2>5, <2>7, Others
  <2>9. Types'
    BY <1>0, <1>1, <1>2, <2>1, <2>5, <2>6 DEF Types, Moves
  <2>10. \A d \in Known : Passed(j, d)' \/ AtHand(j, d)' => d = c \/ Passed(j, d)
    BY <1>1, <2>3, <2>5 DEF Passed, AtHand, Loop
  <2>11. job[j].stale \subseteq job'[j].stale
    BY <2>5 DEF Moves
  <2>12. JobInv(j)'
    <3>1. Shape(j)'
      BY <1>0, <1>1, <2>2, <2>3, <2>5, <2>8 DEF JobInv, Shape, Loop, Accepted
    <3>2. OlderAreStale(j)'
      BY <1>0, <2>5, <2>8, <2>10, <2>11 DEF OlderAreStale, JobInv
    <3>3. FaultsStand(j)'
      <4> SUFFICES ASSUME monitor.id = job[j].monitor, NEW d \in Known \ job'[j].stale,
                          Passed(j, d)' \/ AtHand(j, d)'
                   PROVE  /\ d \in open' /\ alert'[d] # "none"
                          /\ Passed(j, d)' => alert'[d] = "sent"
        BY <1>1, <2>5 DEF FaultsStand
      <4>1. CASE d = c
        <5>1. Passed(j, d)' => alert[d] = "sent"
          BY <4>1, <1>1, <1>2, <2>3, <2>5 DEF Passed, Loop
        <5>2. c \in open' /\ alert'[c] # "none" /\ (alert[c] = "sent" => alert'[c] = "sent")
          BY <2>1, <2>6
        <5>3. d \in open' /\ alert'[d] # "none" /\ (alert[d] = "sent" => alert'[d] = "sent")
          BY <4>1, <5>2
        <5> QED BY <5>1, <5>3
      <4>2. CASE d # c
        <5>1. Passed(j, d) /\ d \notin job[j].stale
          BY <4>2, <2>10, <2>11
        <5>2. d \in open /\ alert[d] = "sent"
          BY <1>0, <5>1 DEF JobInv, FaultsStand
        <5> QED BY <4>2, <5>2, <2>1, <2>6
      <4> QED BY <4>1, <4>2
    <3>4. RecoveriesStand(j)'
      BY <2>3, <2>5 DEF RecoveriesStand
    <3> QED BY <3>1, <3>2, <3>3, <3>4 DEF JobInv
  <2> QED BY <2>8, <2>9, <2>12 DEF IInv
<1> QED BY <1>3, <1>4

(* A step on the condition at hand: claimed, delivered by somebody else, or  *)
(* its monitor gone.                                                         *)
LEMMA HeadDone ==
  ASSUME IInv, NEW j \in Jobs, job[j].phase \in {"claim", "post"},
         UNCHANGED <<monitor, created, due, open, faults>>,
         alert' \in [Known -> {"none", "pending", "sent"}],
         \A d \in Known : alert'[d] = alert[d] \/ (alert[d] = "pending" /\ alert'[d] = "sent"),
         NEW p \in {"observe", "post"}, NEW T \in SUBSET Known, Goto(j, p, T),
         \/ p = "observe" /\ T = Rest(job[j].todo)
         \/ p = "post" /\ T = job[j].todo,
         p = "observe" /\ monitor.id = job[j].monitor => alert'[First(job[j].todo)] # "pending"
  PROVE  IInv'
<1> DEFINE c == First(job[j].todo)
<1>0. /\ Types /\ JobInv(j) /\ job[j] \in JobState /\ job[j].todo \subseteq Known
      /\ job[j].snapshot.faulty \subseteq Known /\ InProgress(j)
  BY DEF IInv, Types, JobState, SnapshotState, InProgress
<1>1. c \in job[j].todo /\ c \in Known
  BY <1>0, FirstIsThere DEF JobInv, Shape
<1>2. /\ Moves(j)
      /\ job'[j].phase = p /\ job'[j].todo = T
      /\ job'[j].monitor = job[j].monitor /\ job'[j].snapshot = job[j].snapshot
      /\ job'[j].accepted = job[j].accepted /\ job'[j].stale = job[j].stale
  <2>1. p \in Phases \ {"idle", "queued"}
    BY DEF Phases
  <2> QED BY <1>0, <2>1, GotoMoves
<1>3. \A k \in Jobs \ {j} : RowsGoOn(k)
  BY DEF RowsGoOn
<1>4. /\ Ordered' /\ (\A k \in Jobs \ {j} : JobInv(k)')
      /\ \A k \in job'[j].older :
           k \in job[j].older /\ InProgress(k)' /\ job[k].stale \subseteq job'[k].stale
  BY <1>2, <1>3, Others
<1>5. Types'
  BY <1>0, <1>2 DEF Types, Moves
<1>6. T \subseteq job[j].todo /\ (p = "observe" => T = job[j].todo \ {c})
  BY DEF Rest
<1>7. \A d \in Known :
        /\ Passed(j, d)' => Passed(j, d) \/ (AtHand(j, d) /\ p = "observe")
        /\ AtHand(j, d)' => AtHand(j, d)
  BY <1>1, <1>2, <1>6 DEF Passed, AtHand, Loop
<1>8. JobInv(j)'
  <2>1. Shape(j)'
    BY <1>0, <1>1, <1>2, <1>4, <1>6 DEF JobInv, Shape, Loop, Accepted
  <2>2. OlderAreStale(j)'
    BY <1>0, <1>2, <1>4, <1>7 DEF OlderAreStale, JobInv
  <2>3. FaultsStand(j)'
    <3> SUFFICES ASSUME monitor.id = job[j].monitor, NEW d \in Known \ job[j].stale
                 PROVE  /\ Passed(j, d)' => d \in open /\ alert'[d] = "sent"
                        /\ AtHand(j, d)' => d \in open /\ alert'[d] # "none"
      BY <1>2 DEF FaultsStand
    <3>1. /\ Passed(j, d) => d \in open /\ alert[d] = "sent"
          /\ AtHand(j, d) => d \in open /\ alert[d] # "none"
      BY <1>0 DEF JobInv, FaultsStand
    <3>2. AtHand(j, d) /\ p = "observe" => alert'[d] # "pending"
      BY DEF AtHand
    <3>3. alert'[d] = alert[d] \/ (alert[d] = "pending" /\ alert'[d] = "sent")
      OBVIOUS
    <3>4. alert[d] # "none" /\ alert'[d] # "pending" => alert'[d] = "sent"
      BY <3>3
    <3> QED BY <1>7, <3>1, <3>2, <3>3, <3>4
  <2>4. RecoveriesStand(j)'
    BY <1>2 DEF RecoveriesStand
  <2> QED BY <2>1, <2>2, <2>3, <2>4 DEF JobInv
<1> QED BY <1>4, <1>5, <1>8 DEF IInv

LEMMA ClaimInv ==
  ASSUME IInv, NEW j \in Jobs, Claim(j)
  PROVE  IInv'
<1> DEFINE c == First(job[j].todo)
<1>0. /\ job[j].phase = "claim"
      /\ UNCHANGED <<monitor, created, due, open, alert, faults>>
      /\ alert \in [Known -> {"none", "pending", "sent"}]
      /\ job[j].todo \in SUBSET Known /\ Rest(job[j].todo) \in SUBSET Known
  BY DEF Claim, rows, IInv, Types, JobState, Rest
<1>1. CASE (alert[c] # "pending" \/ monitor.id # job[j].monitor) /\ Goto(j, "observe", Rest(job[j].todo))
  <2>1. monitor.id = job[j].monitor => alert'[c] # "pending"
    BY <1>0, <1>1
  <2> QED BY <1>0, <1>1, <2>1, HeadDone
<1>2. CASE Goto(j, "post", job[j].todo)
  BY <1>0, <1>2, HeadDone
<1>3. CASE Throw(j)
  <2>1. \A k \in Jobs : RowsGoOn(k)
    BY <1>0, RowsUnchanged
  <2>2. job' \in [Jobs -> JobState] /\ Ordered' /\ \A k \in Jobs : JobInv(k)'
    BY <1>0, <1>3, <2>1, ThrowResets
  <2>3. Types'
    BY <1>0, <2>2 DEF IInv, Types
  <2> QED BY <2>2, <2>3 DEF IInv
<1> QED BY <1>1, <1>2, <1>3 DEF Claim

(* A delivery makes an alert sent, and nothing else of it.                   *)
LEMMA PostSucceedsInv ==
  ASSUME IInv, NEW j \in Jobs, PostSucceeds(j)
  PROVE  IInv'
<1> DEFINE c == First(job[j].todo)
<1>0. /\ job[j].phase = "post" /\ job[j].todo # {}
      /\ UNCHANGED <<monitor, created, due, open, faults>>
      /\ alert \in [Known -> {"none", "pending", "sent"}]
      /\ job[j].todo \in SUBSET Known /\ Rest(job[j].todo) \in SUBSET Known
  BY DEF PostSucceeds, IInv, Types, JobState, JobInv, Shape, Rest
<1>1. c \in Known
  BY <1>0, FirstIsThere
<1>2. /\ alert' = [alert EXCEPT ![c] = IF claim[c] = j /\ @ = "pending" THEN "sent" ELSE @]
      /\ \/ monitor.id = job[j].monitor /\ alert'[c] # "pending" /\ Goto(j, "observe", Rest(job[j].todo))
         \/ Throw(j)
  BY DEF PostSucceeds
<1>3. /\ alert' \in [Known -> {"none", "pending", "sent"}]
      /\ \A d \in Known : alert'[d] = alert[d] \/ (alert[d] = "pending" /\ alert'[d] = "sent")
  BY <1>0, <1>1, <1>2
<1>4. CASE monitor.id = job[j].monitor /\ alert'[c] # "pending" /\ Goto(j, "observe", Rest(job[j].todo))
  BY <1>0, <1>3, <1>4, HeadDone
<1>5. CASE Throw(j)
  <2>1. \A k \in Jobs : RowsGoOn(k)
    BY <1>0, <1>3 DEF RowsGoOn
  <2>2. job' \in [Jobs -> JobState] /\ Ordered' /\ \A k \in Jobs : JobInv(k)'
    BY <1>0, <1>5, <2>1, ThrowResets
  <2>3. Types'
    BY <1>0, <1>3, <2>2 DEF IInv, Types
  <2> QED BY <2>2, <2>3 DEF IInv
<1> QED BY <1>2, <1>4, <1>5

(* Evidence that resolves a case is newer than what any job that wrote the   *)
(* fault and is not stale has: it would have made this job stale.            *)
LEMMA ResolveInv ==
  ASSUME IInv, NEW j \in Jobs, Resolve(j)
  PROVE  IInv'
<1> DEFINE c == First(job[j].todo)
<1>0. /\ Types /\ JobInv(j) /\ job[j] \in JobState /\ job[j].todo \subseteq Known
      /\ job[j].snapshot.healthy \subseteq Known /\ Rest(job[j].todo) \in SUBSET Known
  BY DEF IInv, Types, JobState, SnapshotState, Rest
<1>1. /\ job[j].phase = "resolve" /\ job[j].todo # {} /\ InProgress(j)
      /\ UNCHANGED <<monitor, created, due, faults>>
  BY DEF Resolve, InProgress
<1>2. c \in job[j].todo /\ c \in Known /\ c \in job[j].snapshot.healthy
  BY <1>0, <1>1, FirstIsThere DEF JobInv, Shape
<1>3. CASE Throw(j) /\ UNCHANGED <<open, alert, claim>>
  <2>1. \A k \in Jobs : RowsGoOn(k)
    BY <1>1, <1>3, RowsUnchanged
  <2>2. job' \in [Jobs -> JobState] /\ Ordered' /\ \A k \in Jobs : JobInv(k)'
    BY <1>1, <1>3, <2>1, ThrowResets
  <2>3. Types'
    BY <1>1, <1>3, <2>2 DEF IInv, Types
  <2> QED BY <2>2, <2>3 DEF IInv
<1>4. CASE ~(Throw(j) /\ UNCHANGED <<open, alert, claim>>)
  <2> DEFINE b == TRUE
  <2>0. b \in BOOLEAN
    OBVIOUS
  <2>1. /\ c \notin job[j].stale \union job[j].touched
        /\ open' = open \ {c}
        /\ alert' = [alert EXCEPT ![c] = "none"]
        /\ MarksAndGoes(j, c, b, "resolve", Rest(job[j].todo))
    <3> DEFINE m == Marked(j, c, b)
    <3>1. /\ c \notin job[j].stale \union job[j].touched
          /\ open' = open \ {c}
          /\ alert' = [alert EXCEPT ![c] = "none"]
          /\ job' = [m EXCEPT ![j].todo = Rest(@)]
      BY <1>4 DEF Resolve
    <3>2. /\ m \in [Jobs -> JobState] /\ m[j] \in JobState
          /\ m[j].todo = job[j].todo /\ m[j].phase = "resolve"
      <4> HIDE DEF b, c
      <4>1. /\ m \in [Jobs -> JobState]
            /\ m[j] = MarkedWith(job[j], StaleAfter(j, j, c), TouchedAfter(j, j, c, b))
        BY <1>0, <1>2, <2>0, MarkedFields
      <4>2. StaleAfter(j, j, c) \in SUBSET Known /\ TouchedAfter(j, j, c, b) \in SUBSET Known
        BY <1>0, <1>2 DEF StaleAfter, TouchedAfter, JobState
      <4> QED BY <1>0, <1>1, <4>1, <4>2, MarkFields
    <3>3. [m EXCEPT ![j].todo = Rest(@)] = [m EXCEPT ![j].phase = "resolve", ![j].todo = Rest(job[j].todo)]
      <4> HIDE DEF m, b, c
      <4>1. [m[j] EXCEPT !.todo = Rest(job[j].todo)] =
              [m[j] EXCEPT !.phase = "resolve", !.todo = Rest(job[j].todo)]
        BY <3>2 DEF JobState
      <4> QED BY <3>2, <4>1
    <3> QED BY <3>1, <3>3 DEF MarksAndGoes
  <2> HIDE DEF b
  <2>2. "resolve" \in Phases \ {"idle", "queued"} /\ Rest(job[j].todo) = job[j].todo \ {c}
    BY DEF Phases, Rest
  <2>3. /\ Moves(j)
        /\ job'[j].phase = "resolve" /\ job'[j].todo = job[j].todo \ {c}
        /\ job'[j].monitor = job[j].monitor /\ job'[j].snapshot = job[j].snapshot
        /\ job'[j].accepted = job[j].accepted /\ job'[j].touched = job[j].touched
        /\ \A k \in job[j].older : c \in job'[k].stale
    <3> HIDE DEF c
    <3> QED BY <1>0, <1>1, <1>2, <2>0, <2>1, <2>2, MarkedMoves
  <2>4. /\ alert' \in [Known -> {"none", "pending", "sent"}]
        /\ \A d \in Known \ {c} : alert'[d] = alert[d]
    BY <1>0, <1>2, <2>1 DEF Types
  <2>5. ASSUME NEW k \in Jobs \ {j}, InProgress(k), Passed(k, c) \/ AtHand(k, c)
        PROVE  c \in job'[k].stale
    <3>1. CASE k \in job[j].older
      BY <3>1, <2>3
    <3>2. CASE j \in job[k].older
      <4>1. c \in job[k].stale
        BY <1>2, <2>1, <2>5, <3>2 DEF IInv, JobInv, OlderAreStale
      <4> QED BY <4>1, <2>3 DEF Moves, Keeps
    <3>3. k \in job[j].older \/ j \in job[k].older
      BY <1>1, <2>5 DEF IInv, Ordered
    <3> QED BY <3>1, <3>2, <3>3
  <2>6. \A k \in Jobs \ {j} : RowsGoOn(k)
    <3> SUFFICES ASSUME NEW k \in Jobs \ {j}, InProgress(k)
                 PROVE  RowsGoOn(k)
      BY DEF RowsGoOn
    <3>1. ASSUME NEW d \in Known \ job'[k].stale, Passed(k, d) \/ AtHand(k, d), d \in open, alert[d] # "none"
          PROVE  d \in open' /\ alert'[d] = alert[d]
      <4>1. d # c
        BY <2>5, <3>1
      <4> QED BY <4>1, <3>1, <2>1, <2>4
    <3> QED BY <1>1, <2>1, <3>1 DEF RowsGoOn
  <2>7. /\ Ordered' /\ (\A k \in Jobs \ {j} : JobInv(k)')
        /\ \A k \in job'[j].older :
             k \in job[j].older /\ InProgress(k)' /\ job[k].stale \subseteq job'[k].stale
    BY <1>1, <2>3, <2>6, Others
  <2>8. Types'
    BY <1>0, <1>1, <2>1, <2>3, <2>4 DEF Types, Moves
  <2>9. \A d \in Known : (Passed(j, d)' => Passed(j, d) /\ d # c) /\ ~AtHand(j, d)'
    BY <1>0, <1>1, <1>2, <2>3 DEF Passed, AtHand, Loop, Accepted, JobInv, Shape
  <2>10. job[j].stale \subseteq job'[j].stale
    BY <2>3 DEF Moves
  <2>11. JobInv(j)'
    <3>1. Shape(j)'
      BY <1>0, <1>1, <2>3, <2>7 DEF JobInv, Shape, Loop
    <3>2. OlderAreStale(j)'
      BY <1>0, <2>7, <2>9, <2>10 DEF OlderAreStale, JobInv
    <3>3. FaultsStand(j)'
      <4> SUFFICES ASSUME monitor.id = job[j].monitor, NEW d \in Known \ job'[j].stale,
                          Passed(j, d), d # c
                   PROVE  d \in open' /\ alert'[d] = "sent"
        BY <1>1, <2>3, <2>9 DEF FaultsStand
      <4>1. d \in open /\ alert[d] = "sent"
        BY <1>0, <2>10 DEF JobInv, FaultsStand
      <4> QED BY <4>1, <2>1, <2>4
    <3>4. RecoveriesStand(j)'
      BY <1>0, <1>1, <2>1, <2>3, <2>10 DEF RecoveriesStand, JobInv, Accepted
    <3> QED BY <3>1, <3>2, <3>3, <3>4 DEF JobInv
  <2> QED BY <2>7, <2>8, <2>11 DEF IInv
<1> QED BY <1>3, <1>4

------------------------------------------------------------------------------
(* What the world does beside the jobs.                                      *)
LEMMA WorldInv ==
  ASSUME IInv,
         \/ \E c \in Known : LeaseRunsOut(c) \/ Change(c)
         \/ IntervalPasses \/ Toggle \/ Delete \/ Create
  PROVE  IInv'
<1>1. job' = job /\ open' = open /\ created' \in Nat /\ created <= created'
  BY DEF LeaseRunsOut, Change, IntervalPasses, Toggle, Delete, Create, rows, IInv, Types
<1>2. Types'
  <2>1. /\ due' \in BOOLEAN /\ faults' \in SUBSET Known
        /\ alert' \in [Known -> {"none", "pending", "sent"}]
    BY DEF LeaseRunsOut, Change, IntervalPasses, Toggle, Delete, Create, rows, IInv, Types
  <2>2. monitor' \in [id : Nat, active : BOOLEAN] /\ monitor'.id <= created'
    <3>1. monitor \in [id : Nat, active : BOOLEAN] /\ monitor.id <= created /\ created \in Nat
      BY DEF IInv, Types
    <3>2. CASE Toggle
      BY <3>1, <3>2 DEF Toggle
    <3>3. CASE Delete
      BY <3>1, <3>3 DEF Delete
    <3>4. CASE Create
      BY <3>1, <3>4 DEF Create
    <3>5. CASE monitor' = monitor /\ created' = created
      BY <3>1, <3>5
    <3> QED BY <3>2, <3>3, <3>4, <3>5 DEF LeaseRunsOut, Change, IntervalPasses, rows
  <2> QED BY <1>1, <2>1, <2>2 DEF IInv, Types
<1>3. (monitor'.id = monitor.id /\ alert' = alert) \/ monitor'.id = 0 \/ monitor'.id = created + 1
  BY DEF LeaseRunsOut, Change, IntervalPasses, Toggle, Delete, Create, rows, IInv, Types
<1>4. Ordered'
  BY <1>1 DEF IInv, Ordered, InProgress
<1>5. ASSUME NEW k \in Jobs PROVE JobInv(k)'
  <2>1. Types /\ JobInv(k) /\ Keeps(k)
    BY <1>1 DEF IInv, Keeps
  <2>2. OlderGoOn(k)
    <3>1. \A i \in job[k].older : i \in Jobs /\ InProgress(i)
      BY <2>1 DEF Types, JobState, JobInv, Shape
    <3> QED BY <1>1, <3>1 DEF OlderGoOn, InProgress
  <2>3. RowsGoOn(k)
    <3>1. InProgress(k) => job[k].monitor \in Nat /\ job[k].monitor # 0 /\ job[k].monitor <= created
      BY <2>1 DEF Types, JobState, JobInv, Shape, InProgress
    <3>2. InProgress(k) /\ monitor'.id = job[k].monitor => monitor'.id = monitor.id /\ alert' = alert
      <4>1. created \in Nat
        BY <2>1 DEF Types
      <4> QED BY <1>3, <3>1, <4>1
    <3> QED BY <1>1, <3>2 DEF RowsGoOn
  <2> QED BY <1>1, <2>1, <2>2, <2>3, Spectator
<1> QED BY <1>2, <1>4, <1>5 DEF IInv

(* A baseline changes what an unfinalized snapshot means, but no job that    *)
(* has read the baselines.                                                   *)
LEMMA SwappedShape ==
  \A s \in SnapshotState, c \in Known : s.faulty \intersect s.healthy = {} =>
    /\ Swapped(s, c) \in SnapshotState
    /\ Swapped(s, c).faulty \intersect Swapped(s, c).healthy = {}
<1> TAKE s \in SnapshotState, c \in Known
<1>1. /\ Swapped(s, c).faulty = (s.faulty \ {c}) \union ({c} \intersect s.healthy)
      /\ Swapped(s, c).healthy = (s.healthy \ {c}) \union ({c} \intersect s.faulty)
  BY DEF Swapped, SnapshotState
<1>2. Swapped(s, c) \in SnapshotState
  BY DEF Swapped, SnapshotState
<1> QED BY <1>1, <1>2

LEMMA AcceptBaselineInv ==
  ASSUME IInv, NEW c \in Known, AcceptBaseline(c)
  PROVE  IInv'
<1>1. /\ UNCHANGED <<monitor, created, due, open, alert>> /\ faults' \in SUBSET Known
      /\ job' = [j \in Jobs |-> IF job[j].phase = "finalize"
                                THEN [job[j] EXCEPT !.snapshot = Swapped(@, c)] ELSE job[j]]
  BY DEF AcceptBaseline, rows, IInv, Types
<1>2. ASSUME NEW k \in Jobs
      PROVE  /\ job'[k] \in JobState
             /\ job'[k].phase = job[k].phase /\ job'[k].older = job[k].older
             /\ job'[k].stale = job[k].stale /\ job'[k].monitor = job[k].monitor
             /\ job[k].phase # "finalize" => job'[k] = job[k]
             /\ job'[k].snapshot.faulty \intersect job'[k].snapshot.healthy = {}
  <2>1. /\ job[k] \in JobState /\ job[k].snapshot \in SnapshotState
        /\ job[k].snapshot.faulty \intersect job[k].snapshot.healthy = {}
    BY DEF IInv, Types, JobState, JobInv, Shape
  <2>2. CASE job[k].phase # "finalize"
    BY <1>1, <2>1, <2>2
  <2>3. CASE job[k].phase = "finalize"
    <3> DEFINE s == Swapped(job[k].snapshot, c)
    <3>1. s \in SnapshotState /\ s.faulty \intersect s.healthy = {}
      BY <2>1, SwappedShape
    <3>2. job'[k] = [job[k] EXCEPT !.snapshot = s]
      BY <1>1, <2>3
    <3> HIDE DEF s
    <3> QED BY <2>1, <2>3, <3>1, <3>2 DEF JobState
  <2> QED BY <2>2, <2>3
<1>3. job' \in [Jobs -> JobState]
  <2>1. job' = [k \in Jobs |-> job'[k]]
    BY <1>1
  <2> QED BY <1>2, <2>1
<1>4. Types'
  BY <1>1, <1>3 DEF IInv, Types
<1>5. \A k \in Jobs : InProgress(k)' <=> InProgress(k)
  BY <1>2 DEF InProgress
<1>6. Ordered'
  BY <1>2, <1>5, OrderKept DEF IInv
<1>7. ASSUME NEW k \in Jobs PROVE JobInv(k)'
  <2>1. \A i \in job[k].older : i \in Jobs /\ InProgress(i)
    BY DEF IInv, Types, JobState, JobInv, Shape
  <2>2. CASE job[k].phase = "finalize"
    <3>1. Shape(k)'
      <4>1. job[k].monitor # 0 /\ job[k].monitor <= created
        BY <2>2 DEF IInv, JobInv, Shape
      <4> QED BY <1>1, <1>2, <1>5, <2>1, <2>2, <4>1 DEF Shape, Loop
    <3> QED BY <1>2, <2>2, <3>1, NothingWritten
  <2>3. CASE job[k].phase # "finalize"
    <3>1. Keeps(k)
      BY <1>2, <2>3 DEF Keeps
    <3>2. OlderGoOn(k)
      BY <1>2, <1>5, <2>1 DEF OlderGoOn
    <3>3. Types /\ JobInv(k) /\ created' \in Nat /\ created <= created' /\ RowsGoOn(k)
      BY <1>1, RowsUnchanged DEF IInv, Types
    <3> QED BY <3>1, <3>2, <3>3, Spectator
  <2> QED BY <2>2, <2>3
<1> QED BY <1>4, <1>6, <1>7 DEF IInv

LEMMA InitIInv == Init => IInv
<1> SUFFICES ASSUME Init PROVE IInv
  OBVIOUS
<1>1. Types
  <2>1. job \in [Jobs -> JobState]
    BY QueuedIsAJob DEF Init
  <2> QED BY <2>1 DEF Init, Types
<1>2. \A j \in Jobs : job[j].phase = "idle" /\ job[j].older = {} /\ job[j].snapshot = NoSnapshot
  BY DEF Init, Idle
<1>3. Ordered
  BY <1>2 DEF Ordered, InProgress
<1>4. ASSUME NEW j \in Jobs PROVE JobInv(j)
  <2>1. Shape(j)
    BY <1>2 DEF Shape, Loop, NoSnapshot
  <2>2. \A c : ~Passed(j, c) /\ ~AtHand(j, c)
    BY <1>2 DEF Passed, AtHand, Loop
  <2> QED BY <1>2, <2>1, <2>2 DEF JobInv, OlderAreStale, FaultsStand, RecoveriesStand
<1> QED BY <1>1, <1>3, <1>4 DEF IInv

LEMMA NextInv == IInv /\ [Next]_vars => IInv'
<1> SUFFICES ASSUME IInv, [Next]_vars PROVE IInv'
  OBVIOUS
<1>1. ASSUME NEW j \in Jobs, Refresh(j) \/ JobStep(j) \/ Die(j) PROVE IInv'
  BY <1>1, RefreshInv, CollectsInv, CollectThrowsInv, FinalizeInv, ObserveInv, ClaimInv,
     PostSucceedsInv, ListCasesInv, ResolveInv
  DEF JobStep, JobProceeds
<1>2. ASSUME NEW c \in Known, AcceptBaseline(c) PROVE IInv'
  BY <1>2, AcceptBaselineInv
<1>3. CASE UNCHANGED vars
  BY <1>3 DEF vars, IInv, Types, Ordered, JobInv, Shape, OlderAreStale, FaultsStand, RecoveriesStand,
     Passed, AtHand, Accepted, InProgress
<1> QED BY <1>1, <1>2, <1>3, WorldInv DEF Next

LEMMA Invariant == Spec => []IInv
BY InitIInv, NextInv, PTL DEF Spec

(* Only the job that stamps makes a due monitor not due.                     *)
LEMMA OnlyStampsStamp ==
  ASSUME IInv, Next, NEW j \in Jobs, Stamps(j)
  PROVE  Stamp(j)
<1>1. \E i \in Jobs : Stamp(i)
  <2>1. due = TRUE /\ ~due'
    BY DEF Stamps
  <2>2. ASSUME NEW i \in Jobs, JobStep(i) PROVE Stamp(i)
    <3>1. CASE Collect(i) \/ CollectPart(i)
      BY <2>1, <3>1 DEF Collect, CollectPart, CollectAs, rows
    <3>2. CASE CollectThrows(i) \/ PostFails(i)
      BY <2>1, <3>2 DEF CollectThrows, PostFails, rows
    <3>3. CASE Finalize(i) \/ Claim(i) \/ ListCases(i)
      BY <2>1, <3>3 DEF Finalize, Claim, ListCases, rows
    <3>4. CASE Observe(i) \/ PostSucceeds(i) \/ Resolve(i)
      <4>1. due' = due
        BY <3>4 DEF Observe, PostSucceeds, Resolve
      <4> QED BY <2>1, <4>1
    <3> QED BY <2>2, <3>1, <3>2, <3>3, <3>4 DEF JobStep, JobProceeds
  <2>3. ASSUME NEW i \in Jobs, Refresh(i) \/ Die(i) PROVE FALSE
    BY <2>1, <2>3 DEF Refresh, Die, rows
  <2>4. ASSUME NEW c \in Known, LeaseRunsOut(c) \/ Change(c) \/ AcceptBaseline(c) PROVE FALSE
    BY <2>1, <2>4 DEF LeaseRunsOut, Change, AcceptBaseline, rows
  <2>5. ~(IntervalPasses \/ Toggle \/ Delete \/ Create)
    BY <2>1 DEF IntervalPasses, Toggle, Delete, Create
  <2> QED BY <2>2, <2>3, <2>4, <2>5 DEF Next
<1>2. PICK i \in Jobs : Stamp(i)
  BY <1>1
<1>3. CASE i # j
  <2>1. End(i)
    BY <1>2 DEF Stamp, Stamps
  <2>2. [job EXCEPT ![i] = Idle] \in [Jobs -> JobState]
    BY QueuedIsAJob DEF IInv, Types
  <2>3. job'[j] = [job[j] EXCEPT !.older = job[j].older \ {i}]
    <3> DEFINE jobs == [job EXCEPT ![i] = Idle]
    <3>1. jobs \in [Jobs -> JobState] /\ jobs[j] = job[j] /\ job' = Forget(jobs, i)
      BY <1>3, <2>1, <2>2 DEF End, IInv, Types
    <3> HIDE DEF jobs
    <3>2. \A k \in Jobs : Forget(jobs, i)[k] = [jobs[k] EXCEPT !.older = jobs[k].older \ {i}]
      BY <3>1, ForgetFields
    <3> QED BY <3>1, <3>2
  <2>4. job'[j].phase = job[j].phase
    BY <2>3 DEF IInv, Types, JobState
  <2> QED BY <2>4 DEF Stamps
<1> QED BY <1>2, <1>3

(* A job that stamps lastCheckAt had a complete snapshot, and each fault it  *)
(* showed has its case and its alert delivered, each recovery no case any    *)
(* more, unless a newer job or another hand has been there since             *)
(* (worker.ts, finalizePersistedCanonicalConditions).                        *)
THEOREM StampsFollowEffects == Spec => StampsAreEarned
<1>1. IInv /\ [Next]_vars =>
        [\A j \in Jobs : Stamps(j) =>
           /\ job[j].snapshot.complete
           /\ job[j].accepted =>
                /\ \A c \in job[j].snapshot.faulty \ job[j].stale : c \in open /\ alert[c] = "sent"
                /\ \A c \in job[j].snapshot.healthy \ (job[j].stale \union job[j].touched) : c \notin open]_vars
  <2> SUFFICES ASSUME IInv, Next, NEW j \in Jobs, Stamps(j)
               PROVE  /\ job[j].snapshot.complete
                      /\ job[j].accepted =>
                           /\ \A c \in job[j].snapshot.faulty \ job[j].stale : c \in open /\ alert[c] = "sent"
                           /\ \A c \in job[j].snapshot.healthy \ (job[j].stale \union job[j].touched) :
                                c \notin open
    OBVIOUS
  <2>1. Stamp(j)
    BY OnlyStampsStamp
  <2>2. /\ job[j].phase = "resolve" /\ job[j].todo = {}
        /\ job[j].snapshot.complete /\ monitor.id = job[j].monitor
    BY <2>1 DEF Stamp, Stamps, Accepts
  <2>3. JobInv(j) /\ job[j].snapshot.faulty \subseteq Known
    BY DEF IInv, Types, JobState, SnapshotState
  <2>4. ASSUME job[j].accepted, NEW c \in job[j].snapshot.faulty \ job[j].stale
        PROVE  c \in open /\ alert[c] = "sent"
    <3>1. Accepted(j)
      BY <2>4 DEF Accepted, IInv, Types, JobState
    <3>2. c \in Known /\ Passed(j, c)
      BY <2>2, <2>3, <2>4, <3>1 DEF Passed
    <3> QED BY <2>2, <2>3, <2>4, <3>2 DEF JobInv, FaultsStand
  <2>5. ASSUME job[j].accepted, NEW c \in job[j].snapshot.healthy \ (job[j].stale \union job[j].touched)
        PROVE  c \notin open
    <3>1. Accepted(j)
      BY <2>5 DEF Accepted, IInv, Types, JobState
    <3> QED BY <2>2, <2>3, <2>5, <3>1 DEF JobInv, RecoveriesStand
  <2> QED BY <2>2, <2>4, <2>5
<1> QED BY <1>1, Invariant, PTL DEF Spec, StampsAreEarned

------------------------------------------------------------------------------
(* Who holds the claim of an alert: the job that posts it, or nobody alive.  *)
(* Such an alert is pending.                                                 *)
ClaimsAreHeld ==
  \A c \in Known : claim[c] # None =>
    /\ alert[c] = "pending"
    /\ claim[c] # Lost =>
         claim[c] \in Jobs /\ job[claim[c]].phase = "post" /\ First(job[claim[c]].todo) = c

ClaimsHeld == claim \in [Known -> Jobs \union {None, Lost}] /\ ClaimsAreHeld

Stays(k) == job'[k].phase = job[k].phase /\ job'[k].todo = job[k].todo

(* A step may take claims away, and leaves alone those that it does not.     *)
LEMMA ClaimsKept ==
  ASSUME ClaimsHeld, claim' \in [Known -> Jobs \union {None, Lost}],
         \A c \in Known : claim'[c] # None =>
           claim'[c] = claim[c] /\ alert'[c] = alert[c] /\ (claim[c] # Lost => Stays(claim[c]))
  PROVE  ClaimsHeld'
<1> SUFFICES ASSUME NEW c \in Known, claim'[c] # None
             PROVE  /\ alert'[c] = "pending"
                    /\ claim'[c] # Lost =>
                         /\ claim'[c] \in Jobs /\ job'[claim'[c]].phase = "post"
                         /\ First(job'[claim'[c]].todo) = c
  BY DEF ClaimsHeld, ClaimsAreHeld
<1>1. claim'[c] = claim[c] /\ alert'[c] = alert[c] /\ (claim[c] # Lost => Stays(claim[c]))
  OBVIOUS
<1> QED BY <1>1 DEF ClaimsHeld, ClaimsAreHeld, Stays

(* A job that is not posting holds none.                                     *)
LEMMA HoldersPost ==
  ASSUME ClaimsHeld, NEW j \in Jobs, NEW c \in Known, claim[c] # None, claim[c] # Lost,
         job[j].phase # "post" \/ First(job[j].todo) # c
  PROVE  claim[c] \in Jobs \ {j}
BY DEF ClaimsHeld, ClaimsAreHeld

(* The step of a job leaves the others where they are.                       *)
LEMMA ThrowStays ==
  ASSUME IInv, NEW j \in Jobs,
         Throw(j) \/ End(j) \/ job' = Forget([job EXCEPT ![j] = Queued(@.monitor, @.failures)], j)
  PROVE  \A k \in Jobs \ {j} : Stays(k)
<1>1. job[j].monitor \in Nat /\ job[j].failures \in Nat /\ job[j].failures + 1 \in Nat
  BY DEF IInv, Types, JobState
<1> DEFINE b1 == Queued(job[j].monitor, job[j].failures + 1)
           b2 == Queued(job[j].monitor, job[j].failures)
<1>2. \E b \in {Idle, b1, b2} : job' = Forget([job EXCEPT ![j] = b], j)
  BY DEF Throw, End
<1>3. PICK b \in {Idle, b1, b2} : job' = Forget([job EXCEPT ![j] = b], j)
  BY <1>2
<1>4. b \in JobState
  BY <1>1, QueuedIsAJob
<1> DEFINE jobs == [job EXCEPT ![j] = b]
<1>5. jobs \in [Jobs -> JobState] /\ \A k \in Jobs \ {j} : jobs[k] = job[k]
  BY <1>4 DEF IInv, Types
<1>6. job' = Forget(jobs, j)
  BY <1>3
<1> HIDE DEF jobs
<1> SUFFICES ASSUME NEW k \in Jobs \ {j} PROVE Stays(k)
  OBVIOUS
<1>7. job'[k] = [job[k] EXCEPT !.older = job[k].older \ {j}]
  <2>1. \A i \in Jobs : Forget(jobs, j)[i] = [jobs[i] EXCEPT !.older = jobs[i].older \ {j}]
    BY <1>5, ForgetFields
  <2> QED BY <1>5, <1>6, <2>1
<1>8. job[k] \in JobState
  BY DEF IInv, Types
<1> QED BY <1>7, <1>8 DEF Stays, JobState

LEMMA CollectStays ==
  ASSUME IInv, NEW j \in Jobs, NEW s, CollectAs(j, s)
  PROVE  \A k \in Jobs \ {j} : Stays(k)
<1> DEFINE jobs == Forget(job, j)
<1>1. /\ jobs \in [Jobs -> JobState]
      /\ \A k \in Jobs : jobs[k] = [job[k] EXCEPT !.older = job[k].older \ {j}]
  BY ForgetFields DEF IInv, Types
<1>2. job' = [jobs EXCEPT ![j] = [@ EXCEPT !.phase = "finalize", !.snapshot = s, !.older = {k \in Jobs : InProgress(k)}]]
  BY DEF CollectAs
<1> HIDE DEF jobs
<1>3. \A k \in Jobs \ {j} : job'[k] = jobs[k]
  BY <1>1, <1>2
<1> SUFFICES ASSUME NEW k \in Jobs \ {j} PROVE Stays(k)
  OBVIOUS
<1>4. job'[k] = [job[k] EXCEPT !.older = job[k].older \ {j}] /\ job[k] \in JobState
  BY <1>1, <1>3 DEF IInv, Types
<1> QED BY <1>4 DEF Stays, JobState

LEMMA GotoStays ==
  ASSUME IInv, NEW j \in Jobs, NEW p, NEW T, Goto(j, p, T)
  PROVE  /\ \A k \in Jobs \ {j} : Stays(k)
         /\ job'[j].phase = p /\ job'[j].todo = T
<1>1. \A k \in Jobs \ {j} : job'[k] = job[k]
  BY DEF Goto, IInv, Types
<1>2. job'[j].phase = p /\ job'[j].todo = T
  BY DEF Goto, IInv, Types, JobState
<1> QED BY <1>1, <1>2 DEF Stays

LEMMA MarkedStays ==
  ASSUME IInv, NEW j \in Jobs, NEW c \in Known, NEW b \in BOOLEAN, NEW p, NEW T,
         MarksAndGoes(j, c, b, p, T)
  PROVE  \A k \in Jobs \ {j} : Stays(k)
<1> DEFINE jobs == Marked(j, c, b)
           s(k) == StaleAfter(k, j, c)
           u(k) == TouchedAfter(k, j, c, b)
<1>1. /\ jobs \in [Jobs -> JobState]
      /\ \A k \in Jobs : jobs[k] = MarkedWith(job[k], s(k), u(k))
  <2>1. Types
    BY DEF IInv
  <2> QED BY <2>1, MarkedFields
<1>2. job' = [jobs EXCEPT ![j].phase = p, ![j].todo = T]
  BY DEF MarksAndGoes
<1> HIDE DEF jobs
<1>3. \A k \in Jobs \ {j} : job'[k] = jobs[k]
  BY <1>1, <1>2
<1> SUFFICES ASSUME NEW k \in Jobs \ {j} PROVE Stays(k)
  OBVIOUS
<1>4. job[k] \in JobState /\ s(k) \in SUBSET Known /\ u(k) \in SUBSET Known
  BY DEF IInv, Types, JobState, StaleAfter, TouchedAfter
<1>5. job'[k] = MarkedWith(job[k], s(k), u(k))
  BY <1>1, <1>3
<1> HIDE DEF s, u
<1> QED BY <1>4, <1>5, MarkFields DEF Stays

(* A step of a job that holds no claim, or lets its claim go.                *)
LEMMA OthersKeepClaims ==
  ASSUME ClaimsHeld, NEW j \in Jobs, \A k \in Jobs \ {j} : Stays(k),
         claim' \in [Known -> Jobs \union {None, Lost}],
         \A c \in Known : claim'[c] # None =>
           /\ claim'[c] = claim[c] /\ alert'[c] = alert[c]
           /\ job[j].phase # "post" \/ First(job[j].todo) # c \/ claim[c] # j
  PROVE  ClaimsHeld'
<1> SUFFICES ASSUME NEW c \in Known, claim'[c] # None
             PROVE  claim'[c] = claim[c] /\ alert'[c] = alert[c] /\ (claim[c] # Lost => Stays(claim[c]))
  BY ClaimsKept
<1>1. claim'[c] = claim[c] /\ alert'[c] = alert[c]
  OBVIOUS
<1>2. CASE claim[c] # Lost
  <2>1. claim[c] \in Jobs \ {j}
    BY <1>1, <1>2, HoldersPost DEF ClaimsHeld, ClaimsAreHeld
  <2> QED BY <1>1, <2>1
<1> QED BY <1>1, <1>2

LEMMA WritesKeepClaims ==
  ASSUME IInv, ClaimsHeld, NEW j \in Jobs, Observe(j) \/ Resolve(j)
  PROVE  ClaimsHeld'
<1>1. job[j].phase \in {"observe", "resolve"} /\ job[j].todo # {}
  BY DEF Observe, Resolve
<1> DEFINE c == First(job[j].todo)
<1>2. c \in Known /\ job[j].todo \in SUBSET Known
  <2>1. job[j].todo \in SUBSET Known
    BY DEF IInv, Types, JobState
  <2> QED BY <1>1, <2>1, FirstIsThere
<1> HIDE DEF c
<1>3. CASE Throw(j) /\ UNCHANGED <<open, alert, claim>>
  <2>1. \A k \in Jobs \ {j} : Stays(k)
    BY <1>3, ThrowStays
  <2> QED BY <1>1, <1>3, <2>1, OthersKeepClaims DEF ClaimsHeld
<1>4. ASSUME NEW b \in BOOLEAN, NEW p, NEW T, MarksAndGoes(j, c, b, p, T),
             claim' \in [Known -> Jobs \union {None, Lost}],
             \A d \in Known : claim'[d] # None => claim'[d] = claim[d] /\ alert'[d] = alert[d]
      PROVE  ClaimsHeld'
  <2>1. \A k \in Jobs \ {j} : Stays(k)
    BY <1>2, <1>4, MarkedStays
  <2> QED BY <1>1, <1>4, <2>1, OthersKeepClaims
<1>5. alert \in [Known -> {"none", "pending", "sent"}] /\ claim \in [Known -> Jobs \union {None, Lost}]
  BY DEF IInv, Types, ClaimsHeld
<1> DEFINE b == c \notin open
           done == IF NeedsDelivery(c) THEN "claim" ELSE "observe"
<1>6. CASE /\ alert' = [alert EXCEPT ![c] = IF @ = "none" THEN "pending" ELSE @]
           /\ claim' = [claim EXCEPT ![c] = IF alert[c] = "none" THEN None ELSE @]
           /\ job' = [Marked(j, c, b) EXCEPT ![j].phase = done,
                        ![j].todo = IF done = "observe" THEN Rest(@) ELSE @]
  <2> DEFINE T == IF done = "observe" THEN Rest(Marked(j, c, b)[j].todo) ELSE Marked(j, c, b)[j].todo
  <2>1. Marked(j, c, b) \in [Jobs -> JobState]
    BY <1>2, MarkedFields DEF IInv
  <2>2. MarksAndGoes(j, c, b, done, T)
    BY <1>6, <2>1 DEF MarksAndGoes, JobState
  <2>3. claim' \in [Known -> Jobs \union {None, Lost}]
    BY <1>2, <1>5, <1>6
  <2>4. \A d \in Known : claim'[d] # None => claim'[d] = claim[d] /\ alert'[d] = alert[d]
    BY <1>2, <1>5, <1>6
  <2> HIDE DEF T, done
  <2> QED BY <1>4, <2>2, <2>3, <2>4
<1>7. CASE /\ alert' = [alert EXCEPT ![c] = "none"]
           /\ claim' = [claim EXCEPT ![c] = None]
           /\ job' = [Marked(j, c, TRUE) EXCEPT ![j].todo = Rest(@)]
  <2> DEFINE p == Marked(j, c, TRUE)[j].phase
             T == Rest(Marked(j, c, TRUE)[j].todo)
  <2>1. Marked(j, c, TRUE) \in [Jobs -> JobState]
    BY <1>2, MarkedFields DEF IInv
  <2>2. MarksAndGoes(j, c, TRUE, p, T)
    BY <1>7, <2>1 DEF MarksAndGoes, JobState
  <2>3. claim' \in [Known -> Jobs \union {None, Lost}]
    BY <1>2, <1>5, <1>7
  <2>4. \A d \in Known : claim'[d] # None => claim'[d] = claim[d] /\ alert'[d] = alert[d]
    BY <1>2, <1>5, <1>7
  <2> HIDE DEF p, T
  <2> QED BY <1>4, <2>2, <2>3, <2>4
<1> HIDE DEF b, done
<1> QED BY <1>3, <1>6, <1>7 DEF Observe, Resolve, c, b, done

(* Claim takes one for an alert that is pending and goes on to post it.      *)
LEMMA ClaimKeepsClaims ==
  ASSUME IInv, ClaimsHeld, NEW j \in Jobs, Claim(j)
  PROVE  ClaimsHeld'
<1> DEFINE c == First(job[j].todo)
<1>1. /\ job[j].phase = "claim" /\ alert' = alert
      /\ \/ Goto(j, "observe", Rest(job[j].todo)) /\ claim' = claim
         \/ /\ alert[c] = "pending" /\ Goto(j, "post", job[j].todo)
            /\ claim' = [claim EXCEPT ![c] = j]
         \/ Throw(j) /\ claim' = claim
  BY DEF Claim, rows
<1>2. c \in Known
  <2>1. job[j].todo \in SUBSET Known /\ job[j].todo # {}
    BY <1>1 DEF IInv, Types, JobState, JobInv, Shape
  <2> QED BY <2>1, FirstIsThere
<1>3. \A k \in Jobs \ {j} : Stays(k)
  BY <1>1, ThrowStays, GotoStays
<1>4. CASE claim' = claim
  BY <1>1, <1>3, <1>4, OthersKeepClaims DEF ClaimsHeld
<1>5. CASE alert[c] = "pending" /\ Goto(j, "post", job[j].todo) /\ claim' = [claim EXCEPT ![c] = j]
  <2>1. job'[j].phase = "post" /\ job'[j].todo = job[j].todo
    BY <1>5, GotoStays
  <2>2. claim' \in [Known -> Jobs \union {None, Lost}]
    BY <1>2, <1>5 DEF ClaimsHeld
  <2> SUFFICES ASSUME NEW d \in Known, claim'[d] # None
               PROVE  /\ alert'[d] = "pending"
                      /\ claim'[d] # Lost =>
                           /\ claim'[d] \in Jobs /\ job'[claim'[d]].phase = "post"
                           /\ First(job'[claim'[d]].todo) = d
    BY <2>2 DEF ClaimsHeld, ClaimsAreHeld
  <2>3. CASE d = c
    BY <1>1, <1>2, <1>5, <2>1, <2>3 DEF ClaimsHeld
  <2>4. CASE d # c
    <3>1. claim'[d] = claim[d]
      BY <1>5, <2>4 DEF ClaimsHeld
    <3>2. alert'[d] = "pending"
      BY <1>1, <3>1 DEF ClaimsHeld, ClaimsAreHeld
    <3>3. CASE claim[d] # Lost
      <4>1. claim[d] \in Jobs \ {j}
        BY <1>1, <3>1, <3>3, HoldersPost
      <4>2. Stays(claim[d])
        BY <1>3, <4>1
      <4>3. /\ claim[d] \in Jobs /\ job[claim[d]].phase = "post"
            /\ First(job[claim[d]].todo) = d
        BY <3>1, <3>3 DEF ClaimsHeld, ClaimsAreHeld
      <4> QED BY <3>1, <3>2, <4>2, <4>3 DEF Stays
    <3> QED BY <3>1, <3>2, <3>3
  <2> QED BY <2>3, <2>4
<1> HIDE DEF c
<1> QED BY <1>1, <1>4, <1>5

(* Whatever came of the post, the claim is let go.                           *)
LEMMA PostLetsGo ==
  ASSUME IInv, ClaimsHeld, NEW j \in Jobs, PostSucceeds(j) \/ PostFails(j)
  PROVE  ClaimsHeld'
<1> DEFINE c == First(job[j].todo)
<1>1. /\ claim' = [claim EXCEPT ![c] = IF @ = j THEN None ELSE @]
      /\ alert' \in {alert, [alert EXCEPT ![c] = IF claim[c] = j /\ @ = "pending" THEN "sent" ELSE @]}
      /\ Throw(j) \/ Goto(j, "observe", Rest(job[j].todo))
  BY DEF PostSucceeds, PostFails, Released, rows
<1>2. \A k \in Jobs \ {j} : Stays(k)
  BY <1>1, ThrowStays, GotoStays
<1>3. claim' \in [Known -> Jobs \union {None, Lost}]
  BY <1>1 DEF ClaimsHeld
<1> HIDE DEF c
<1>4. ASSUME NEW d \in Known, claim'[d] # None
      PROVE  claim'[d] = claim[d] /\ alert'[d] = alert[d] /\ (d # c \/ claim[d] # j)
  <2>1. claim \in [Known -> Jobs \union {None, Lost}] /\ alert \in [Known -> {"none", "pending", "sent"}]
    BY DEF ClaimsHeld, IInv, Types
  <2>2. CASE d = c
    BY <1>1, <1>4, <2>1, <2>2
  <2>3. CASE d # c
    BY <1>1, <2>1, <2>3
  <2> QED BY <2>2, <2>3
<1> QED BY <1>2, <1>3, <1>4, OthersKeepClaims DEF c

(* The claims of a worker that dies are lost, not given to another one.      *)
LEMMA DieLosesClaims ==
  ASSUME IInv, ClaimsHeld, NEW j \in Jobs, Die(j)
  PROVE  ClaimsHeld'
<1>1. /\ alert' = alert /\ claim' = [c \in Known |-> IF claim[c] = j THEN Lost ELSE claim[c]]
      /\ \A k \in Jobs \ {j} : Stays(k)
  BY ThrowStays DEF Die, rows
<1>2. claim' \in [Known -> Jobs \union {None, Lost}]
  BY <1>1 DEF ClaimsHeld
<1>3. j # None
  BY NamesAssumption
<1> SUFFICES ASSUME NEW c \in Known, claim'[c] # None
             PROVE  /\ alert'[c] = "pending"
                    /\ claim'[c] # Lost =>
                         /\ claim'[c] \in Jobs /\ job'[claim'[c]].phase = "post"
                         /\ First(job'[claim'[c]].todo) = c
  BY <1>2 DEF ClaimsHeld, ClaimsAreHeld
<1>4. claim[c] # None /\ alert'[c] = "pending"
  BY <1>1, <1>3 DEF ClaimsHeld, ClaimsAreHeld
<1>5. CASE claim'[c] # Lost
  <2>1. claim'[c] = claim[c] /\ claim[c] # j
    BY <1>1, <1>5
  <2>2. /\ claim[c] \in Jobs \ {j} /\ job[claim[c]].phase = "post"
        /\ First(job[claim[c]].todo) = c
    BY <1>4, <1>5, <2>1 DEF ClaimsHeld, ClaimsAreHeld
  <2>3. Stays(claim[c])
    BY <1>1, <2>2
  <2> QED BY <1>4, <2>1, <2>2, <2>3 DEF Stays
<1> QED BY <1>4, <1>5

LEMMA StepHoldsClaims ==
  ASSUME IInv, ClaimsHeld, [Next]_vars
  PROVE  ClaimsHeld'
<1>1. ASSUME NEW j \in Jobs, \A k \in Jobs \ {j} : Stays(k), job[j].phase # "post", UNCHANGED <<alert, claim>>
      PROVE  ClaimsHeld'
  BY <1>1, OthersKeepClaims DEF ClaimsHeld
<1>2. ASSUME NEW j \in Jobs, Refresh(j) \/ Finalize(j)
      PROVE  ClaimsHeld'
  <2>1. job[j].phase # "post" /\ UNCHANGED <<alert, claim>>
    BY <1>2 DEF Refresh, Finalize, rows
  <2>2. \A k \in Jobs \ {j} : job'[k] = job[k]
    BY <1>2 DEF Refresh, Finalize, IInv, Types
  <2> QED BY <1>1, <2>1, <2>2 DEF Stays
<1>3. ASSUME NEW j \in Jobs, Collect(j) \/ CollectPart(j)
      PROVE  ClaimsHeld'
  <2>1. PICK s : CollectAs(j, s)
    BY <1>3 DEF Collect, CollectPart
  <2>2. job[j].phase # "post" /\ UNCHANGED <<alert, claim>>
    BY <2>1 DEF CollectAs, rows
  <2> QED BY <1>1, <2>1, <2>2, CollectStays
<1>4. ASSUME NEW j \in Jobs, CollectThrows(j) \/ Stamp(j) \/ ListCases(j)
      PROVE  ClaimsHeld'
  <2>1. job[j].phase # "post" /\ UNCHANGED <<alert, claim>>
    BY <1>4 DEF CollectThrows, Stamp, ListCases, rows
  <2>2. Throw(j) \/ End(j) \/ Goto(j, "resolve", Resolvable(j))
    BY <1>4 DEF CollectThrows, Stamp, ListCases
  <2>3. \A k \in Jobs \ {j} : Stays(k)
    BY <2>2, ThrowStays, GotoStays
  <2> QED BY <1>1, <2>1, <2>3
<1>5. ASSUME NEW j \in Jobs, Refresh(j) \/ JobStep(j) \/ Die(j)
      PROVE  ClaimsHeld'
  BY <1>2, <1>3, <1>4, <1>5, WritesKeepClaims, ClaimKeepsClaims, PostLetsGo, DieLosesClaims
  DEF JobStep, JobProceeds
<1>6. ASSUME \A k \in Jobs : Stays(k), UNCHANGED <<alert, claim>>
      PROVE  ClaimsHeld'
  <2>1. \A c \in Known : claim[c] # None /\ claim[c] # Lost => claim[c] \in Jobs
    BY DEF ClaimsHeld, ClaimsAreHeld
  <2>2. claim' \in [Known -> Jobs \union {None, Lost}]
    BY <1>6 DEF ClaimsHeld
  <2> QED BY <1>6, <2>1, <2>2, ClaimsKept
<1>7. ASSUME NEW c \in Known, LeaseRunsOut(c)
      PROVE  ClaimsHeld'
  <2>1. claim' = [claim EXCEPT ![c] = None] /\ alert' = alert /\ job' = job
    BY <1>7 DEF LeaseRunsOut, rows
  <2>2. claim' \in [Known -> Jobs \union {None, Lost}]
    BY <2>1 DEF ClaimsHeld
  <2>3. \A d \in Known : claim'[d] # None => claim'[d] = claim[d]
    BY <2>1 DEF ClaimsHeld
  <2> QED BY <2>1, <2>2, <2>3, ClaimsKept DEF Stays
<1>8. ASSUME NEW c \in Known, AcceptBaseline(c)
      PROVE  ClaimsHeld'
  <2>1. UNCHANGED <<alert, claim>>
    BY <1>8 DEF AcceptBaseline, rows
  <2>2. ASSUME NEW k \in Jobs PROVE Stays(k)
    <3>1. job[k] \in JobState
      BY DEF IInv, Types
    <3>2. job'[k] = IF job[k].phase = "finalize" THEN [job[k] EXCEPT !.snapshot = Swapped(@, c)] ELSE job[k]
      BY <1>8 DEF AcceptBaseline
    <3> QED BY <3>1, <3>2 DEF Stays, JobState
  <2> QED BY <1>6, <2>1, <2>2
<1>9. CASE Delete
  <2>1. claim' = [c \in Known |-> None]
    BY <1>9 DEF Delete
  <2> QED BY <2>1 DEF ClaimsHeld, ClaimsAreHeld
<1>10. CASE (\E c \in Known : Change(c)) \/ IntervalPasses \/ Toggle \/ Create \/ UNCHANGED vars
  <2>1. UNCHANGED <<alert, claim, job>>
    BY <1>10 DEF Change, IntervalPasses, Toggle, Create, vars, rows
  <2> QED BY <1>6, <2>1 DEF Stays
<1> QED BY <1>5, <1>7, <1>8, <1>9, <1>10 DEF Next

(* A claim is in the hands of a job that posts this alert and lets it go     *)
(* whatever comes of it, or it is a dead worker's and its lease runs out; so *)
(* no alert is claimed by two jobs at once, or by one that has moved on, and *)
(* no claim outlives its alert (claim, releaseClaim of the repositories).    *)
(* This is what FaultsAreDelivered needs besides fairness.                   *)
THEOREM NoClaimIsForgotten == Spec => []ClaimsAreHeld
<1>1. Init => ClaimsHeld
  BY DEF Init, ClaimsHeld, ClaimsAreHeld
<1>2. IInv /\ ClaimsHeld /\ [Next]_vars => ClaimsHeld'
  BY StepHoldsClaims
<1>3. ClaimsHeld => ClaimsAreHeld
  BY DEF ClaimsHeld
<1> QED BY <1>1, <1>2, <1>3, Invariant, PTL DEF Spec
==============================================================================
