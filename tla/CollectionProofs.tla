--------------------------- MODULE CollectionProofs ---------------------------
(* For every zone, every bound on the hops and any number of authoritative   *)
(* servers: what the collector calls complete has no gap, and what the       *)
(* authorization makes of it afterwards is neither more nor less than the    *)
(* zone allows.  A walk is reasoned about through Nth, the owner that n      *)
(* aliases lead to: both walks move from one n to the next.                  *)
EXTENDS Collection, FiniteSetTheorems, WellFoundedInduction, TLAPS

(* The zone, its servers and what is known of its management.                *)
World ==
  /\ alias \in [Owners -> Owners \union {End}]
  /\ servers \in [Servers -> ServerAnswers(alias)]
  /\ managed \in Managements

(* What the authoritative servers answered, if they were asked.              *)
ServerResults == IF managed = "managed" THEN {FromServer(s, t) : s \in Servers, t \in Types} ELSE {}

(* The collector has queried the first `hop` owners of the walk, and what is *)
(* left to query is the next one at most; it is left unless the resolver did *)
(* not answer or there is none.                                              *)
Collected ==
  /\ results = Queries(queried) \union ServerResults
  /\ hop \in 1..(MaxHops + 1)
  /\ queried = {Nth[n] : n \in 0..(hop - 1)} /\ queried \subseteq Owners
  /\ pending \subseteq {Nth[hop]} \ {End}
  /\ <<Nth[hop - 1], "CNAME">> \notin broken => pending = {Nth[hop]} \ {End}

NotCollected == results = {} /\ queried = {} /\ pending = {} /\ hop = 0

(* A complete snapshot has no gap: the resolver answered every query, and    *)
(* what it was not asked lies behind the last hop.                           *)
Complete ==
  /\ AllConclusive(results)
  /\ \A n \in 0..MaxHops : Nth[n] \in queried \union {End}

CollectorInv ==
  /\ phase \in {"initial", "walking", "stored", "authorizing", "decided"}
  /\ phase = "initial" => NotCollected
  /\ phase # "initial" => Collected
  /\ snapshot.state = "complete" => Complete /\ phase \in {"stored", "authorizing", "decided"}

(* The authorization stands where its hops lead, on owners it has not        *)
(* visited before, and leaves the first one only when all servers agree.     *)
WalkInv ==
  /\ hops \in 0..MaxHops /\ at \in Owners /\ at = Nth[hops]
  /\ visited = {Nth[n] : n \in 0..(hops - 1)} /\ visited \subseteq Owners /\ at \notin visited
  /\ IsFiniteSet(visited) /\ hops = Cardinality(visited)
  /\ phase \in {"initial", "walking", "stored"} => hops = 0
  /\ phase = "authorizing" => snapshot.state = "complete"
  /\ phase # "decided" => verdict = "none"
  /\ hops > 0 /\ managed = "managed" => ServersAgree
  /\ verdict = "ok" => alias[at] = End /\ (managed = "managed" => ServersAgree)

(* Nothing fails on the way: the hypothesis of ShortChainsAreAuthorized.     *)
Benign ==
  /\ broken = {}
  /\ managed = "managed" => Servers # {} /\ ServersAgree
  /\ managed # "unmanaged"
  /\ \E n \in 0..MaxHops : Nth[n] # End /\ Nth[n + 1] = End

BenignInv ==
  Benign => /\ phase \in {"stored", "authorizing", "decided"} => snapshot.state = "complete"
            /\ phase = "decided" => verdict = "ok"

IInv == World /\ CollectorInv /\ WalkInv /\ BenignInv
-----------------------------------------------------------------------------
(* A set of numbers has a least one.                                         *)
LEMMA LeastNumber ==
  ASSUME NEW S, S \subseteq Nat, S # {}
  PROVE  \E m \in S : \A n \in S : m <= n
<1>1. PICK m \in S : \A n \in S : <<n, m>> \notin OpToRel(<, Nat)
  BY NatLessThanWellFounded, WFMin
<1>2. \A n \in S : n \in Nat /\ m \in Nat /\ ~(n < m)
  BY <1>1 DEF OpToRel
<1>3. \A n \in S : m <= n
  BY <1>2
<1> QED BY <1>3

(* Where the walk goes from an owner, or from the end.                       *)
Onward(owner) == IF owner \in Owners THEN alias[owner] ELSE End

(* Nth is defined, as far as the walk may go, by its equation.               *)
LEMMA NthEquation ==
  /\ Nth[0] = Start
  /\ \A n \in 0..MaxHops : Nth[n + 1] = Onward(Nth[n])
<1> DEFINE Goes(f, m) == f = [n \in 0..m |-> IF n = 0 THEN Start ELSE Onward(f[n - 1])]
           S == {m \in Nat : ~\E f : Goes(f, m)}
<1>1. S = {}
  <2> SUFFICES ASSUME S # {} PROVE FALSE
    OBVIOUS
  <2>1. PICK m \in S : \A n \in S : m <= n
    BY LeastNumber
  <2>2. CASE m = 0
    <3>1. Goes([n \in 0..0 |-> Start], 0)
      OBVIOUS
    <3> QED BY <2>1, <2>2, <3>1
  <2>3. CASE m # 0
    <3>1. m \in Nat /\ m - 1 \in Nat /\ ~(m <= m - 1)
      BY <2>1, <2>3
    <3>0. m - 1 \notin S
      BY <2>1, <3>1
    <3>2. PICK f : Goes(f, m - 1)
      BY <3>1, <3>0
    <3> DEFINE g == [n \in 0..m |-> IF n < m THEN f[n] ELSE Onward(f[m - 1])]
    <3>3. ASSUME NEW n \in 0..m
          PROVE  g[n] = IF n = 0 THEN Start ELSE Onward(g[n - 1])
      <4>1. CASE n < m
        <5>1. n \in 0..(m - 1) /\ g[n] = f[n]
          BY <4>1, <2>1
        <5>2. f[n] = IF n = 0 THEN Start ELSE Onward(f[n - 1])
          BY <3>2, <5>1
        <5>3. n # 0 => n - 1 \in 0..m /\ n - 1 < m
          BY <4>1, <2>1
        <5> QED BY <5>1, <5>2, <5>3
      <4>2. CASE n = m
        <5>1. n # 0 /\ n - 1 = m - 1 /\ m - 1 \in 0..m /\ m - 1 < m /\ ~(n < m)
          BY <2>1, <2>3, <4>2
        <5> QED BY <5>1, <4>2
      <4> QED BY <2>1, <4>1, <4>2
    <3>4. Goes(g, m)
      BY <3>3
    <3> QED BY <2>1, <3>4
  <2> QED BY <2>2, <2>3
<1>2. PICK f : Goes(f, MaxHops + 1)
  <2>1. MaxHops + 1 \in Nat
    BY CollectionAssumption
  <2> QED BY <1>1, <2>1
<1>3. Nth = [n \in 0..(MaxHops + 1) |-> IF n = 0 THEN Start ELSE Onward(Nth[n - 1])]
  BY <1>2 DEF Nth, Onward
<1> HIDE DEF Goes, S
<1>4. 0 \in 0..(MaxHops + 1) /\ Nth[0] = Start
  BY <1>3, CollectionAssumption
<1>5. \A k \in 0..(MaxHops + 1) : Nth[k] = IF k = 0 THEN Start ELSE Onward(Nth[k - 1])
  BY <1>3
<1>6. ASSUME NEW n \in 0..MaxHops
      PROVE  Nth[n + 1] = Onward(Nth[n])
  <2>1. n + 1 \in 0..(MaxHops + 1) /\ n + 1 # 0 /\ n + 1 - 1 = n
    BY CollectionAssumption
  <2>2. Nth[n + 1] = IF n + 1 = 0 THEN Start ELSE Onward(Nth[n + 1 - 1])
    BY <1>5, <2>1
  <2> QED BY <2>1, <2>2
<1> QED BY <1>4, <1>6

(* What holds of the first owner and of the next after one that has it,      *)
(* holds of all.                                                             *)
LEMMA StepByStep ==
  ASSUME NEW K \in Nat, NEW T, 0 \in T, \A n \in 0..K : n \in T /\ n < K => n + 1 \in T
  PROVE  0..K \subseteq T
<1> SUFFICES ASSUME (0..K) \ T # {} PROVE FALSE
  OBVIOUS
<1> DEFINE Missing == (0..K) \ T
<1>0. Missing \subseteq Nat /\ Missing # {}
  OBVIOUS
<1> HIDE DEF Missing
<1>1. PICK m \in Missing : \A n \in Missing : m <= n
  BY <1>0, LeastNumber
<1> USE DEF Missing
<1>2. m \in Nat /\ m # 0 /\ m <= K
  BY <1>1
<1>3. m - 1 \in 0..K /\ m - 1 < K /\ ~(m <= m - 1) /\ m - 1 + 1 = m
  BY <1>2
<1>4. m - 1 \in T
  BY <1>1, <1>3
<1> QED BY <1>1, <1>3, <1>4

(* The walk stays in a set of owners that has the alias of each of them.     *)
LEMMA WalkStays ==
  ASSUME NEW S, S \subseteq Owners, Start \in S, \A o \in S : alias[o] \in S \union {End}
  PROVE  \A n \in 0..(MaxHops + 1) : Nth[n] \in S \union {End}
<1> DEFINE T == {n \in 0..(MaxHops + 1) : Nth[n] \in S \union {End}}
<1>1. MaxHops \in Nat /\ MaxHops + 1 \in Nat /\ End \notin Owners
  BY CollectionAssumption
<1>2. 0 \in T
  BY <1>1, NthEquation
<1>3. ASSUME NEW n \in 0..(MaxHops + 1), n \in T, n < MaxHops + 1
      PROVE  n + 1 \in T
  <2>1. n \in 0..MaxHops /\ n + 1 \in 0..(MaxHops + 1)
    BY <1>1, <1>3
  <2>2. Nth[n + 1] = Onward(Nth[n])
    BY <2>1, NthEquation
  <2>3. Onward(Nth[n]) \in S \union {End}
    BY <1>1, <1>3 DEF Onward
  <2> QED BY <2>1, <2>2, <2>3
<1> HIDE DEF T
<1>4. 0..(MaxHops + 1) \subseteq T
  BY <1>1, <1>2, <1>3, StepByStep
<1> QED BY <1>4 DEF T

(* Owners, or End and then End for ever.                                     *)
LEMMA WalkIsOwners ==
  ASSUME World
  PROVE  \A n \in 0..(MaxHops + 1) : Nth[n] \in Owners \union {End}
<1>1. Start \in Owners /\ \A o \in Owners : alias[o] \in Owners \union {End}
  BY CollectionAssumption DEF World
<1> QED BY <1>1, WalkStays

LEMMA EndStays ==
  ASSUME NEW m \in 0..(MaxHops + 1), Nth[m] = End, NEW n \in m..(MaxHops + 1)
  PROVE  Nth[n] = End
<1> DEFINE K == MaxHops + 1 - m
           T == {k \in 0..K : Nth[m + k] = End}
<1>1. MaxHops \in Nat /\ m \in Nat /\ K \in Nat /\ End \notin Owners
  BY CollectionAssumption
<1>2. 0 \in T
  BY <1>1
<1>3. ASSUME NEW k \in 0..K, k \in T, k < K
      PROVE  k + 1 \in T
  <2>1. m + k \in 0..MaxHops /\ m + k + 1 = m + (k + 1) /\ k + 1 \in 0..K
    BY <1>1, <1>3
  <2>2. Nth[m + k + 1] = Onward(Nth[m + k])
    BY <2>1, NthEquation
  <2>3. Onward(End) = End
    BY <1>1 DEF Onward
  <2> QED BY <1>3, <2>1, <2>2, <2>3
<1> HIDE DEF T
<1>4. 0..K \subseteq T
  BY <1>1, <1>2, <1>3, StepByStep
<1>5. n - m \in 0..K /\ m + (n - m) = n
  BY <1>1
<1>6. n - m \in T
  BY <1>4, <1>5
<1> QED BY <1>5, <1>6 DEF T

(* Aliases that end do not come back to an owner.                            *)
LEMMA NoLoop ==
  ASSUME NEW N \in 0..MaxHops, Nth[N] # End, Nth[N + 1] = End,
         NEW i \in 0..N, NEW j \in 0..N, i < j
  PROVE  Nth[i] # Nth[j]
<1> SUFFICES ASSUME Nth[i] = Nth[j] PROVE FALSE
  OBVIOUS
<1> DEFINE K == N + 1 - j
           T == {k \in 0..K : Nth[i + k] = Nth[j + k]}
<1>1. MaxHops \in Nat /\ N \in Nat /\ i \in Nat /\ j \in Nat /\ K \in Nat /\ N <= MaxHops /\ j <= N
  BY CollectionAssumption
<1>2. 0 \in T
  BY <1>1
<1>3. ASSUME NEW k \in 0..K, k \in T, k < K
      PROVE  k + 1 \in T
  <2>1. /\ i + k \in 0..MaxHops /\ j + k \in 0..MaxHops /\ k + 1 \in 0..K
        /\ i + k + 1 = i + (k + 1) /\ j + k + 1 = j + (k + 1)
    BY <1>1, <1>3
  <2>2. Nth[i + k + 1] = Onward(Nth[i + k]) /\ Nth[j + k + 1] = Onward(Nth[j + k])
    BY <2>1, NthEquation
  <2> QED BY <1>3, <2>1, <2>2
<1> HIDE DEF T
<1>4. 0..K \subseteq T
  BY <1>1, <1>2, <1>3, StepByStep
<1>5. K \in T /\ j + K = N + 1 /\ i + K \in 0..(MaxHops + 1) /\ N \in (i + K)..(MaxHops + 1)
  BY <1>1, <1>4
<1>6. Nth[i + K] = End
  BY <1>5 DEF T
<1> QED BY <1>5, <1>6, EndStays


(* Who asked whom for what: the shape of every result.                       *)
LEMMA ResultShape ==
  ASSUME NEW o, NEW s, NEW t
  PROVE  /\ FromResolver(o, t).owner = o /\ FromResolver(o, t).type = t
         /\ FromResolver(o, t).vantage = Recursive
         /\ FromServer(s, t).owner = Start /\ FromServer(s, t).type = t
         /\ FromServer(s, t).vantage = s /\ FromServer(s, t).aa = servers[s].aa
BY DEF FromResolver, FromServer, Result

(* What a query to the public resolver brings.                               *)
Held(o, t) == IF t = "CNAME" /\ alias[o] = End THEN {} ELSE {alias[o]}

LEMMA ResolverAnswer ==
  ASSUME NEW o, NEW t
  PROVE  /\ IsConclusive(FromResolver(o, t)) <=> <<o, t>> \notin broken
         /\ FromResolver(o, t).success <=> <<o, t>> \notin broken
         /\ <<o, t>> \notin broken => FromResolver(o, t).answers = Held(o, t)
         /\ <<o, t>> \in broken =>
              FromResolver(o, t).answers = {} /\ Status(FromResolver(o, t)) = "error"
         /\ <<o, t>> \notin broken /\ Held(o, t) = {} => Status(FromResolver(o, t)) = "nodata"
         /\ <<o, t>> \notin broken /\ Held(o, t) # {} => Status(FromResolver(o, t)) = "success"
BY DEF FromResolver, Result, IsConclusive, Status, Held

(* What a query to an authoritative server brings.                           *)
Told(s, t) == IF t = "CNAME" /\ servers[s].target = End THEN {} ELSE {servers[s].target}

LEMMA ServerAnswer ==
  ASSUME World, NEW s \in Servers, NEW t
  PROVE  /\ FromServer(s, t).success <=> servers[s].outcome = "answer"
         /\ servers[s].outcome = "answer" =>
              FromServer(s, t).answers = Told(s, t) /\ IsConclusive(FromServer(s, t))
         /\ servers[s].outcome # "answer" =>
              FromServer(s, t).answers = {} /\ Status(FromServer(s, t)) \in {"nxdomain", "error"}
         /\ servers[s].outcome = "answer" /\ Told(s, t) = {} => Status(FromServer(s, t)) = "nodata"
         /\ servers[s].outcome = "answer" /\ Told(s, t) # {} => Status(FromServer(s, t)) = "success"
         /\ Told(s, t) \in {{}, {alias[Start]}, {End}}
<1>1. servers[s] \in ServerAnswers(alias)
  BY DEF World
<1>2. servers[s].target \in {alias[Start], End} /\ servers[s].outcome \in {"answer", "timeout", "ENOTFOUND"}
  BY <1>1 DEF ServerAnswers
<1>3. Told(s, t) \in {{}, {alias[Start]}, {End}}
  BY <1>2 DEF Told
<1> QED BY <1>2, <1>3 DEF FromServer, Result, IsConclusive, Status, Told

(* The results are the resolver's and the servers'.                          *)
LEMMA SourceIs ==
  ASSUME World, Collected, NEW o, NEW t \in Types, NEW r \in Sources(o, t)
  PROVE  \/ o \in queried /\ r = FromResolver(o, t)
         \/ managed = "managed" /\ o = Start /\ \E s \in Servers : r = FromServer(s, t)
<1>1. r \in results /\ r.owner = o /\ r.type = t
  BY DEF Sources
<1>2. CASE r \in Queries(queried)
  <2>1. PICK q \in queried, u \in Types : r = FromResolver(q, u)
    BY <1>2 DEF Queries
  <2>2. r.owner = q /\ r.type = u
    BY <2>1, ResultShape
  <2> QED BY <1>1, <2>1, <2>2
<1>3. CASE managed = "managed" /\ r \in {FromServer(s, u) : s \in Servers, u \in Types}
  <2>1. PICK s \in Servers, u \in Types : r = FromServer(s, u)
    BY <1>3
  <2>2. r.owner = Start /\ r.type = u
    BY <2>1, ResultShape
  <2> QED BY <1>1, <1>3, <2>1, <2>2
<1> QED BY <1>1, <1>2, <1>3 DEF Collected, ServerResults

LEMMA IsSource ==
  ASSUME World, Collected, NEW t \in Types
  PROVE  /\ \A o \in queried : FromResolver(o, t) \in Sources(o, t) /\ FromResolver(o, t) \in results
         /\ managed = "managed" =>
              \A s \in Servers : FromServer(s, t) \in Sources(Start, t) /\ FromServer(s, t) \in results
         /\ Start \in queried
<1>1. ASSUME NEW o \in queried
      PROVE  FromResolver(o, t) \in Sources(o, t) /\ FromResolver(o, t) \in results
  <2>1. FromResolver(o, t) \in results
    BY DEF Collected, Queries
  <2>2. FromResolver(o, t).owner = o /\ FromResolver(o, t).type = t
    BY ResultShape
  <2> QED BY <2>1, <2>2 DEF Sources
<1>2. ASSUME managed = "managed", NEW s \in Servers
      PROVE  FromServer(s, t) \in Sources(Start, t) /\ FromServer(s, t) \in results
  <2>1. FromServer(s, t) \in results
    BY <1>2 DEF Collected, ServerResults
  <2>2. FromServer(s, t).owner = Start /\ FromServer(s, t).type = t
    BY ResultShape
  <2> QED BY <2>1, <2>2 DEF Sources
<1>3. Start \in queried
  <2>1. 0 \in 0..(hop - 1)
    BY CollectionAssumption DEF Collected
  <2> QED BY <2>1, NthEquation DEF Collected
<1> QED BY <1>1, <1>2, <1>3

-----------------------------------------------------------------------------
(* What the world is does not change during a collection.                    *)
LEMMA SameWorld ==
  ASSUME UNCHANGED world
  PROVE  /\ Nth' = Nth /\ ServerResults' = ServerResults /\ Queries(queried)' = Queries(queried')
         /\ alias' = alias /\ broken' = broken /\ managed' = managed /\ servers' = servers
         /\ (ServersAgree' <=> ServersAgree) /\ (Benign' <=> Benign) /\ (World' <=> World)
<1>1. alias' = alias /\ servers' = servers /\ broken' = broken /\ managed' = managed
  BY DEF world
<1>2. Nth' = Nth
  BY <1>1 DEF Nth
<1>3. ServerResults' = ServerResults
  BY <1>1 DEF ServerResults, FromServer
<1>4. Queries(queried)' = Queries(queried')
  BY <1>1 DEF Queries, FromResolver
<1>5. ServersAgree' <=> ServersAgree
  BY <1>1 DEF ServersAgree
<1>6. Benign' <=> Benign
  BY <1>1, <1>2, <1>5 DEF Benign
<1>7. World' <=> World
  BY <1>1 DEF World, ServerAnswers
<1> QED BY <1>1, <1>2, <1>3, <1>4, <1>5, <1>6, <1>7

LEMMA InitHolds == Init => IInv
<1> SUFFICES ASSUME Init PROVE IInv
  OBVIOUS
<1>1. World
  BY CollectionAssumption DEF Init, World
<1>2. CollectorInv
  BY DEF Init, CollectorInv, NotCollected
<1>3. WalkInv
  <2>1. {Nth[n] : n \in 0..(0 - 1)} = {}
    OBVIOUS
  <2> QED BY <2>1, CollectionAssumption, NthEquation, FS_EmptySet DEF Init, WalkInv
<1>4. BenignInv
  BY DEF Init, BenignInv
<1> QED BY <1>1, <1>2, <1>3, <1>4 DEF IInv

(* The alias of an owner is what the resolver gives for it, if it answers.   *)
LEMMA QueryTargets ==
  ASSUME World, NEW o \in Owners
  PROVE  /\ Targets(Queries({o}), {o}) \subseteq {alias[o]} \ {End}
         /\ <<o, "CNAME">> \notin broken => Targets(Queries({o}), {o}) = {alias[o]} \ {End}
<1> DEFINE Found == Targets(Queries({o}), {o})
           answer == FromResolver(o, "CNAME")
<1>1. Held(o, "CNAME") = {alias[o]} \ {End}
  BY DEF Held
<1>2. Found \subseteq {alias[o]} \ {End}
  <2> SUFFICES ASSUME NEW r \in Queries({o}), r.type = "CNAME", r.success, NEW x \in r.answers
               PROVE  x \in {alias[o]} \ {End}
    BY DEF Targets
  <2>1. PICK t \in Types : r = FromResolver(o, t)
    BY DEF Queries
  <2>2. t = "CNAME"
    BY <2>1, ResultShape
  <2> QED BY <1>1, <2>1, <2>2, ResolverAnswer
<1>3. ASSUME <<o, "CNAME">> \notin broken
      PROVE  {alias[o]} \ {End} \subseteq Found
  <2>1. answer \in Queries({o}) /\ answer.type = "CNAME" /\ answer.owner = o
    BY ResultShape DEF Queries, Types
  <2>2. answer.success /\ answer.answers = {alias[o]} \ {End}
    BY <1>1, <1>3, ResolverAnswer
  <2> HIDE DEF answer
  <2> QED BY <2>1, <2>2 DEF Targets
<1> QED BY <1>2, <1>3

(* The servers know no other alias of the first owner.                       *)
LEMMA FirstTargets ==
  ASSUME World
  PROVE  LET found == Targets(Queries({Start}) \union ServerResults, {Start}) IN
         /\ found \subseteq {alias[Start]} \ {End}
         /\ <<Start, "CNAME">> \notin broken => found = {alias[Start]} \ {End}
<1> DEFINE found == Targets(Queries({Start}) \union ServerResults, {Start})
           told == Targets(ServerResults, {Start})
<1>1. found = Targets(Queries({Start}), {Start}) \union told
  BY DEF Targets
<1>2. told \subseteq {alias[Start]} \ {End}
  <2> SUFFICES ASSUME NEW r \in ServerResults, r.type = "CNAME", r.success, NEW x \in r.answers
               PROVE  x \in {alias[Start]} \ {End}
    BY DEF Targets
  <2>1. PICK s \in Servers, t \in Types : r = FromServer(s, t)
    BY DEF ServerResults
  <2>2. t = "CNAME"
    BY <2>1, ResultShape
  <2>3. servers[s].outcome = "answer" /\ x \in Told(s, "CNAME")
    BY <2>1, <2>2, ServerAnswer
  <2>4. Told(s, "CNAME") \in {{}, {alias[Start]}, {End}}
    BY ServerAnswer
  <2> QED BY <2>3, <2>4 DEF Told
<1>3. Start \in Owners
  BY CollectionAssumption
<1> HIDE DEF found, told
<1>4. /\ Targets(Queries({Start}), {Start}) \subseteq {alias[Start]} \ {End}
      /\ <<Start, "CNAME">> \notin broken =>
           Targets(Queries({Start}), {Start}) = {alias[Start]} \ {End}
  BY <1>3, QueryTargets
<1>5. /\ found \subseteq {alias[Start]} \ {End}
      /\ <<Start, "CNAME">> \notin broken => found = {alias[Start]} \ {End}
  BY <1>1, <1>2, <1>4
<1> QED BY <1>5 DEF found

(* The first queries leave at most the alias of the first owner to query.    *)
LEMMA CollectInitialKeeps ==
  ASSUME IInv, CollectInitial
  PROVE  IInv'
<1>1. /\ phase = "initial" /\ phase' = "walking" /\ UNCHANGED world /\ UNCHANGED <<snapshot, authorization>>
      /\ results' = Queries({Start}) \union ServerResults
      /\ queried' = {Start} /\ hop' = 1
      /\ pending' = Targets(Queries({Start}) \union ServerResults, {Start})
  BY DEF CollectInitial, ServerResults
<1>2. World /\ World' /\ Nth' = Nth /\ broken' = broken /\ (ServersAgree' <=> ServersAgree)
  BY <1>1, SameWorld DEF IInv
<1>3. snapshot.state # "complete"
  BY <1>1 DEF IInv, CollectorInv
<1>4. Collected'
  <2>1. MaxHops \in Nat /\ Start \in Owners /\ Nth[0] = Start /\ Nth[1] = alias[Start]
    <3>1. 0 \in 0..MaxHops /\ 0 + 1 = 1
      BY CollectionAssumption
    <3> QED BY <3>1, CollectionAssumption, NthEquation DEF Onward
  <2>2. results' = Queries(queried)' \union ServerResults'
    BY <1>1, SameWorld
  <2>3. queried' = {Nth[n] : n \in 0..(1 - 1)}
    BY <1>1, <2>1
  <2>4. /\ pending' \subseteq {Nth[1]} \ {End}
        /\ <<Nth[0], "CNAME">> \notin broken => pending' = {Nth[1]} \ {End}
    BY <1>1, <1>2, <2>1, FirstTargets
  <2>5. 1 - 1 = 0 /\ 1 \in 1..(MaxHops + 1)
    BY <2>1
  <2>6. hop' \in 1..(MaxHops + 1) /\ hop' - 1 = 0 /\ queried' = {Nth[n] : n \in 0..(hop' - 1)}
    BY <1>1, <2>3, <2>5
  <2>7. Nth'[hop'] = Nth[1] /\ Nth'[hop' - 1] = Nth[0] /\ broken' = broken
    BY <1>1, <1>2, <2>6
  <2>8. queried' = {Nth'[n] : n \in 0..(hop' - 1)} /\ queried' \subseteq Owners
    BY <1>1, <1>2, <2>1, <2>6
  <2> QED BY <2>2, <2>4, <2>6, <2>7, <2>8 DEF Collected
<1>5. CollectorInv'
  BY <1>1, <1>3, <1>4 DEF CollectorInv
<1>6. WalkInv'
  BY <1>1, <1>2 DEF IInv, WalkInv, authorization, world
<1>7. BenignInv'
  BY <1>1 DEF BenignInv
<1> QED BY <1>2, <1>5, <1>6, <1>7 DEF IInv

(* Each turn of the loop queries the one owner that is next.                 *)
LEMMA FollowAliasesKeeps ==
  ASSUME IInv, FollowAliases
  PROVE  IInv'
<1> DEFINE owners == pending \ queried
<1>1. /\ phase = "walking" /\ hop <= MaxHops /\ owners # {}
      /\ UNCHANGED world /\ UNCHANGED <<phase, snapshot, authorization>>
      /\ results' = results \union Queries(owners) /\ queried' = queried \union owners
      /\ pending' = Targets(Queries(owners), owners) /\ hop' = hop + 1
  BY DEF FollowAliases, Follows
<1>2. World /\ World' /\ Nth' = Nth /\ alias' = alias /\ broken' = broken /\ (ServersAgree' <=> ServersAgree)
  BY <1>1, SameWorld DEF IInv
<1>3. Collected /\ snapshot.state # "complete"
  BY <1>1 DEF IInv, CollectorInv
<1>4. hop \in 1..MaxHops /\ MaxHops \in Nat /\ hop \in 0..(MaxHops + 1)
  BY <1>1, <1>3, CollectionAssumption DEF Collected
<1> DEFINE o == Nth[hop]
<1>5. owners = {o} /\ o \in Owners
  <2>1. owners = {o} /\ o # End
    BY <1>1, <1>3 DEF Collected
  <2> QED BY <1>2, <1>4, <2>1, WalkIsOwners
<1> HIDE DEF owners
<1>6. Collected'
  <2>1. results' = Queries(queried)' \union ServerResults'
    <3>1. Queries(queried \union owners) = Queries(queried) \union Queries(owners)
      BY DEF Queries
    <3>2. results = Queries(queried) \union ServerResults
      BY <1>3 DEF Collected
    <3>3. Queries(queried)' = Queries(queried \union owners) /\ ServerResults' = ServerResults
      BY <1>1, SameWorld
    <3> QED BY <1>1, <3>1, <3>2, <3>3
  <2>2. queried' = {Nth[n] : n \in 0..((hop + 1) - 1)}
    <3>1. queried = {Nth[n] : n \in 0..(hop - 1)}
      BY <1>3 DEF Collected
    <3>2. 0..((hop + 1) - 1) = 0..(hop - 1) \union {hop}
      BY <1>4
    <3> QED BY <1>1, <1>5, <3>1, <3>2
  <2>3. queried' \subseteq Owners
    BY <1>1, <1>3, <1>5 DEF Collected
  <2>4. Nth[hop + 1] = alias[o]
    BY <1>4, <1>5, NthEquation DEF Onward
  <2>5. /\ pending' \subseteq {Nth[hop + 1]} \ {End}
        /\ <<Nth[hop], "CNAME">> \notin broken => pending' = {Nth[hop + 1]} \ {End}
    BY <1>1, <1>2, <1>5, <2>4, QueryTargets
  <2>6. hop + 1 - 1 = hop /\ hop + 1 \in 1..(MaxHops + 1)
    BY <1>4
  <2> HIDE DEF o
  <2>7. queried' = {Nth'[n] : n \in 0..(hop' - 1)}
    BY <1>1, <1>2, <2>2
  <2>8. hop' \in 1..(MaxHops + 1) /\ Nth'[hop'] = Nth[hop + 1] /\ Nth'[hop' - 1] = Nth[hop]
    <3>1. hop' = hop + 1 /\ hop' - 1 = hop
      BY <1>1, <1>4
    <3> QED BY <1>2, <2>6, <3>1
  <2>9. /\ pending' \subseteq {Nth'[hop']} \ {End}
        /\ <<Nth'[hop' - 1], "CNAME">> \notin broken' => pending' = {Nth'[hop']} \ {End}
    BY <1>2, <2>5, <2>8
  <2> QED BY <2>1, <2>3, <2>7, <2>8, <2>9 DEF Collected
<1>7. CollectorInv'
  BY <1>1, <1>3, <1>6 DEF CollectorInv
<1>8. WalkInv'
  BY <1>1, <1>2 DEF IInv, WalkInv, authorization, world
<1>9. BenignInv'
  BY <1>1 DEF BenignInv
<1> QED BY <1>2, <1>7, <1>8, <1>9 DEF IInv

(* When the resolver answered everything, the walk ends only where there is  *)
(* nothing more to ask within the bound: the queries have come full circle,  *)
(* or to an end, or to the last hop.                                         *)
LEMMA WalkIsComplete ==
  ASSUME World, Collected, ~Follows, \A o \in queried : <<o, "CNAME">> \notin broken
  PROVE  \A n \in 0..MaxHops : Nth[n] \in queried \union {End}
<1>1. /\ MaxHops \in Nat /\ End \notin Owners /\ hop \in 1..(MaxHops + 1) /\ hop \in 0..(MaxHops + 1)
      /\ queried = {Nth[n] : n \in 0..(hop - 1)} /\ queried \subseteq Owners
  BY CollectionAssumption DEF Collected
<1>2. CASE hop > MaxHops
  <2>1. hop - 1 = MaxHops
    BY <1>1, <1>2
  <2> QED BY <1>1, <2>1
<1>3. CASE hop <= MaxHops
  <2>1. hop - 1 \in 0..(hop - 1) /\ Nth[hop - 1] \in queried
    BY <1>1
  <2>2. pending = {Nth[hop]} \ {End} /\ pending \subseteq queried
    BY <1>3, <2>1 DEF Follows, Collected
  <2>3. ASSUME NEW o \in queried
        PROVE  alias[o] \in queried \union {End}
    <3>1. PICK n \in 0..(hop - 1) : o = Nth[n]
      BY <1>1
    <3>2. n \in 0..MaxHops /\ n + 1 \in 0..hop
      BY <1>1
    <3>3. Nth[n + 1] = alias[o]
      BY <1>1, <3>1, <3>2, NthEquation DEF Onward
    <3>4. CASE n + 1 = hop
      BY <2>2, <3>3, <3>4
    <3>5. CASE n + 1 # hop
      <4>1. n + 1 \in 0..(hop - 1)
        BY <1>1, <3>2, <3>5
      <4> QED BY <1>1, <3>3, <4>1
    <3> QED BY <3>4, <3>5
  <2>4. Start \in queried
    BY IsSource DEF Types
  <2>5. \A n \in 0..(MaxHops + 1) : Nth[n] \in queried \union {End}
    BY <1>1, <2>3, <2>4, WalkStays
  <2>6. \A n \in 0..MaxHops : n \in 0..(MaxHops + 1)
    BY <1>1
  <2> QED BY <2>5, <2>6
<1> QED BY <1>1, <1>2, <1>3

(* What a complete snapshot says of the resolver.                            *)
LEMMA ConclusiveMeansAnswered ==
  ASSUME World, Collected, AllConclusive(results)
  PROVE  \A o \in queried, t \in Types : <<o, t>> \notin broken
BY IsSource, ResolverAnswer DEF AllConclusive

(* The collection ends: a complete snapshot has no gap, and one that nothing *)
(* disturbed is complete.                                                    *)
LEMMA StoreKeeps ==
  ASSUME IInv, Store
  PROVE  IInv'
<1>1. /\ phase = "walking" /\ phase' = "stored" /\ ~Follows
      /\ snapshot'.state = ResultState(results)
      /\ UNCHANGED world /\ UNCHANGED <<results, walk, authorization>>
  BY DEF Store
<1>2. World /\ World' /\ Nth' = Nth /\ alias' = alias /\ (ServersAgree' <=> ServersAgree)
  BY <1>1, SameWorld DEF IInv
<1>3. Collected /\ Collected'
  <2>1. Collected
    BY <1>1 DEF IInv, CollectorInv
  <2> QED BY <1>1, <2>1, SameWorld DEF Collected, walk
<1>4. snapshot'.state = "complete" => Complete'
  <2> SUFFICES ASSUME ResultState(results) = "complete" PROVE Complete'
    BY <1>1
  <2>1. AllConclusive(results)
    BY DEF ResultState
  <2>2. \A n \in 0..MaxHops : Nth[n] \in queried \union {End}
    <3>1. \A o \in queried : <<o, "CNAME">> \notin broken
      BY <1>2, <1>3, <2>1, ConclusiveMeansAnswered DEF Types
    <3> QED BY <1>1, <1>2, <1>3, <3>1, WalkIsComplete
  <2> QED BY <1>1, <1>2, <2>1, <2>2 DEF Complete, walk
<1>5. Benign => ResultState(results) = "complete"
  <2> SUFFICES ASSUME Benign PROVE ResultState(results) = "complete"
    OBVIOUS
  <2>1. results # {} /\ managed # "unmanaged"
    <3>1. FromResolver(Start, "TXT") \in results
      BY <1>2, <1>3, IsSource DEF Types
    <3> QED BY <3>1 DEF Benign
  <2>2. AllConclusive(results)
    <3> SUFFICES ASSUME NEW r \in results PROVE IsConclusive(r)
      BY DEF AllConclusive
    <3>1. CASE r \in Queries(queried)
      BY <3>1, ResolverAnswer DEF Queries, Benign
    <3>2. CASE r \in ServerResults
      <4>1. PICK s \in Servers, t \in Types : managed = "managed" /\ r = FromServer(s, t)
        BY <3>2 DEF ServerResults
      <4>2. servers[s].outcome = "answer"
        BY <4>1 DEF Benign, ServersAgree
      <4> QED BY <1>2, <4>1, <4>2, ServerAnswer
    <3> QED BY <1>3, <3>1, <3>2 DEF Collected
  <2>3. ~(managed = "managed" /\ LacksAuthoritativeProof(results))
    <3> SUFFICES ASSUME managed = "managed" PROVE ~LacksAuthoritativeProof(results)
      OBVIOUS
    <3>1. Authoritative(results) # {}
      <4>1. PICK s \in Servers : TRUE
        BY DEF Benign
      <4>2. FromServer(s, "TXT") \in results /\ FromServer(s, "TXT").vantage = s
        BY <1>2, <1>3, IsSource, ResultShape DEF Types
      <4> QED BY <4>2 DEF Authoritative
    <3>2. ASSUME NEW r \in Authoritative(results)
          PROVE  r.aa
      <4>1. r \in results /\ r.vantage \in Servers
        BY DEF Authoritative
      <4>2. r \notin Queries(queried)
        BY <4>1, ResultShape, CollectionAssumption DEF Queries
      <4>3. PICK s \in Servers, t \in Types : r = FromServer(s, t)
        BY <1>3, <4>1, <4>2 DEF Collected, ServerResults
      <4>4. servers[s].aa
        BY DEF Benign, ServersAgree
      <4> QED BY <4>3, <4>4, ResultShape
    <3> QED BY <3>1, <3>2 DEF LacksAuthoritativeProof
  <2> QED BY <2>1, <2>2, <2>3 DEF ResultState
<1>6. CollectorInv'
  BY <1>1, <1>3, <1>4 DEF CollectorInv
<1>7. WalkInv'
  BY <1>1, <1>2 DEF IInv, WalkInv, authorization, world
<1>8. BenignInv'
  BY <1>1, <1>5, SameWorld DEF BenignInv
<1> QED BY <1>2, <1>6, <1>7, <1>8 DEF IInv

LEMMA BeginAuthorizationKeeps ==
  ASSUME IInv, BeginAuthorization
  PROVE  IInv'
<1>1. /\ phase = "stored" /\ UNCHANGED world /\ UNCHANGED <<results, walk, snapshot>>
      /\ \/ snapshot.state = "complete" /\ phase' = "authorizing" /\ UNCHANGED authorization
         \/ /\ snapshot.state # "complete" /\ phase' = "decided" /\ verdict' = "incomplete-snapshot"
            /\ UNCHANGED <<at, visited, hops>>
  BY DEF BeginAuthorization, Decide
<1>2. World /\ World' /\ Nth' = Nth /\ alias' = alias /\ (ServersAgree' <=> ServersAgree)
      /\ (Benign' <=> Benign) /\ managed' = managed
  BY <1>1, SameWorld DEF IInv
<1>3. Collected'
  BY <1>1, SameWorld DEF IInv, CollectorInv, Collected, walk
<1>4. CollectorInv'
  BY <1>1, <1>2, <1>3 DEF IInv, CollectorInv, Complete, walk
<1>5. WalkInv'
  BY <1>1, <1>2 DEF IInv, WalkInv, authorization
<1>6. BenignInv'
  BY <1>1, <1>2 DEF IInv, BenignInv
<1> QED BY <1>2, <1>4, <1>5, <1>6 DEF IInv

-----------------------------------------------------------------------------
(* The authorization always stands on an owner that was queried with an      *)
(* answer, so the stored record sets say the alias it has.                   *)
LEMMA StandsOnAnswers ==
  ASSUME IInv, phase = "authorizing"
  PROVE  /\ World /\ Collected /\ at \in queried /\ at \in Owners
         /\ \A o \in queried, t \in Types : <<o, t>> \notin broken
<1>1. World /\ Collected /\ Complete
  BY DEF IInv, CollectorInv, WalkInv
<1>2. at \in queried /\ at \in Owners
  BY <1>1, CollectionAssumption DEF IInv, WalkInv, Complete
<1> QED BY <1>1, <1>2, ConclusiveMeansAnswered DEF Complete

LEMMA AliasValues ==
  ASSUME World, Collected, NEW o \in queried, <<o, "CNAME">> \notin broken
  PROVE  Values(o, "CNAME") = {alias[o]} \ {End}
<1> DEFINE mine == FromResolver(o, "CNAME")
<1>1. Held(o, "CNAME") = {alias[o]} \ {End} /\ "CNAME" \in Types
  BY DEF Held, Types
<1>2. ASSUME NEW r \in Sources(o, "CNAME")
      PROVE  r.answers \subseteq {alias[o]} \ {End}
  <2>1. CASE r = mine
    BY <1>1, <2>1, ResolverAnswer
  <2>2. CASE o = Start /\ \E s \in Servers : r = FromServer(s, "CNAME")
    <3>1. PICK s \in Servers : r = FromServer(s, "CNAME")
      BY <2>2
    <3>2. r.answers \subseteq Told(s, "CNAME") /\ Told(s, "CNAME") \in {{}, {alias[Start]}, {End}}
      BY <3>1, ServerAnswer
    <3> QED BY <2>2, <3>2 DEF Told
  <2> QED BY <1>1, <2>1, <2>2, SourceIs
<1>3. ASSUME alias[o] # End
      PROVE  alias[o] \in Values(o, "CNAME")
  <2>1. mine \in Sources(o, "CNAME")
    BY <1>1, IsSource
  <2>2. mine.answers = {alias[o]} /\ Status(mine) = "success"
    BY <1>1, <1>3, ResolverAnswer
  <2> HIDE DEF mine
  <2> QED BY <2>1, <2>2 DEF Values
<1>4. Values(o, "CNAME") \subseteq {alias[o]} \ {End}
  BY <1>2 DEF Values
<1> QED BY <1>3, <1>4

(* To leave the first owner, or to end there, every server must have proved  *)
(* the alias that the resolver gave.                                         *)
LEMMA TrustMeansAgreement ==
  ASSUME World, Collected, managed = "managed", <<Start, "CNAME">> \notin broken,
         \A r \in Sources(Start, "CNAME") : Trusted(r, TRUE),
         Values(Start, "CNAME") = {} \/ Consistent(Start, "CNAME")
  PROVE  ServersAgree
<1> SUFFICES ASSUME NEW s \in Servers
             PROVE  servers[s] = [outcome |-> "answer", aa |-> TRUE, target |-> alias[Start]]
  BY DEF ServersAgree
<1> DEFINE his == FromServer(s, "CNAME")
           mine == FromResolver(Start, "CNAME")
<1>1. "CNAME" \in Types /\ Start \in queried
  BY IsSource DEF Types
<1>2. his \in Sources(Start, "CNAME") /\ mine \in Sources(Start, "CNAME")
  BY <1>1, IsSource
<1>3. Trusted(his, TRUE) /\ his.vantage = s /\ his.aa = servers[s].aa
  BY <1>2, ResultShape
<1>4. servers[s].outcome = "answer"
  <2>1. Status(his) \in {"success", "nodata"}
    BY <1>3 DEF Trusted
  <2> QED BY <2>1, ServerAnswer
<1>5. servers[s] \in ServerAnswers(alias)
  BY DEF World
<1>6. servers[s].target = alias[Start]
  <2>1. CASE alias[Start] = End
    BY <1>5, <2>1 DEF ServerAnswers
  <2>2. CASE alias[Start] # End
    <3>1. Consistent(Start, "CNAME")
      BY <1>1, <2>2, AliasValues
    <3>2. his.answers = mine.answers
      BY <1>2, <3>1 DEF Consistent
    <3>3. mine.answers = {alias[Start]}
      BY <1>1, <2>2, ResolverAnswer DEF Held
    <3>4. his.answers = Told(s, "CNAME")
      BY <1>4, ServerAnswer
    <3>5. Told(s, "CNAME") = {alias[Start]}
      BY <3>2, <3>3, <3>4
    <3> QED BY <3>5 DEF Told
  <2> QED BY <2>1, <2>2
<1>7. servers[s].aa
  BY <1>3 DEF Trusted
<1>8. PICK aa \in BOOLEAN, target \in {alias[Start], End} :
        servers[s] = [outcome |-> "answer", aa |-> aa, target |-> target]
  BY <1>4, <1>5 DEF ServerAnswers
<1>9. servers[s].aa = aa /\ servers[s].target = target
  BY <1>8
<1>10. aa = TRUE
  BY <1>7, <1>9
<1> QED BY <1>6, <1>8, <1>9, <1>10

(* Where nothing fails, all sources of an owner on the way say what the zone *)
(* says, and are trusted.                                                    *)
LEMMA BenignSources ==
  ASSUME IInv, phase = "authorizing", Benign, NEW t \in Types, NEW r \in Sources(at, t)
  PROVE  /\ r.answers = Held(at, t) /\ Trusted(r, TRUE)
         /\ Held(at, t) # {} => Status(r) = "success" /\ Trusted(r, FALSE)
<1>1. World /\ Collected /\ at \in queried /\ <<at, t>> \notin broken
  BY StandsOnAnswers
<1>2. CASE r = FromResolver(at, t)
  <2>1. r.answers = Held(at, t) /\ r.vantage \notin Servers
    BY <1>1, <1>2, ResolverAnswer, ResultShape, CollectionAssumption
  <2>2. Status(r) = IF Held(at, t) = {} THEN "nodata" ELSE "success"
    BY <1>1, <1>2, ResolverAnswer
  <2> QED BY <2>1, <2>2 DEF Trusted
<1>3. CASE managed = "managed" /\ at = Start /\ \E s \in Servers : r = FromServer(s, t)
  <2>1. PICK s \in Servers : r = FromServer(s, t)
    BY <1>3
  <2>2. servers[s].outcome = "answer" /\ servers[s].target = alias[Start] /\ servers[s].aa
    BY <1>3 DEF Benign, ServersAgree
  <2>3. Told(s, t) = Held(at, t)
    BY <1>3, <2>2 DEF Told, Held
  <2>4. r.answers = Held(at, t) /\ r.aa
    BY <1>1, <2>1, <2>2, <2>3, ServerAnswer, ResultShape
  <2>5. Status(r) = IF Held(at, t) = {} THEN "nodata" ELSE "success"
    BY <1>1, <2>1, <2>2, <2>3, ServerAnswer
  <2> QED BY <2>4, <2>5 DEF Trusted
<1> QED BY <1>1, <1>2, <1>3, SourceIs

(* Where nothing fails, the authorization does not stop before the end.      *)
LEMMA BenignWalks ==
  ASSUME IInv, phase = "authorizing", Benign, alias[at] # End
  PROVE  ~IsTerminal /\ Walks /\ alias[at] \notin visited \union {at}
<1>1. World /\ Collected /\ at \in queried /\ at \in Owners /\ <<at, "CNAME">> \notin broken
  BY StandsOnAnswers DEF Types
<1>2. PICK N \in 0..MaxHops : Nth[N] # End /\ Nth[N + 1] = End
  BY DEF Benign
<1>3. /\ MaxHops \in Nat /\ N \in Nat /\ N <= MaxHops /\ hops \in 0..MaxHops /\ at = Nth[hops] /\ at # End
      /\ visited = {Nth[n] : n \in 0..(hops - 1)}
  BY <1>1, <1>2, CollectionAssumption DEF IInv, WalkInv
<1>4. Nth[hops + 1] = alias[at]
  BY <1>1, <1>3, NthEquation DEF Onward
<1>5. hops < N
  <2>1. CASE hops > N
    <3>1. N + 1 \in 0..(MaxHops + 1) /\ hops \in (N + 1)..(MaxHops + 1)
      BY <1>3, <2>1
    <3>2. Nth[hops] = End
      BY <1>2, <3>1, EndStays
    <3> QED BY <1>3, <3>2
  <2>2. CASE hops = N
    BY <1>2, <1>4, <2>2
  <2> QED BY <1>3, <2>1, <2>2
<1>6. Values(at, "CNAME") = {alias[at]}
  BY <1>1, AliasValues
<1>7. Held(at, "CNAME") = {alias[at]} /\ "CNAME" \in Types
  BY DEF Held, Types
<1>8. \A r \in Sources(at, "CNAME") :
         r.answers = {alias[at]} /\ Status(r) = "success" /\ Trusted(r, TRUE)
  BY <1>7, BenignSources
<1>9. Walks
  <2>1. Cardinality(Values(at, "CNAME")) = 1
    BY <1>6, FS_Singleton
  <2>2. hops < MaxHops
    BY <1>3, <1>5
  <2> QED BY <1>8, <2>1, <2>2 DEF Walks, Consistent
<1>10. \A n \in 0..hops : Nth[n] # Nth[hops + 1]
  <2> SUFFICES ASSUME NEW n \in 0..hops PROVE Nth[n] # Nth[hops + 1]
    OBVIOUS
  <2>1. n \in 0..N /\ hops + 1 \in 0..N /\ n < hops + 1
    BY <1>3, <1>5
  <2> QED BY <1>2, <2>1, NoLoop
<1>11. alias[at] \notin visited \union {at}
  <2>1. \A n \in 0..(hops - 1) : n \in 0..hops
    BY <1>3
  <2>2. hops \in 0..hops
    BY <1>3
  <2> QED BY <1>3, <1>4, <1>10, <2>1, <2>2
<1> QED BY <1>6, <1>9, <1>11 DEF IsTerminal

(* Where nothing fails, the end of the aliases is authorized.                *)
LEMMA BenignEnds ==
  ASSUME IInv, phase = "authorizing", Benign, alias[at] = End
  PROVE  /\ IsTerminal
         /\ Sources(at, "TXT") # {} /\ Consistent(at, "TXT")
         /\ \A r \in Sources(at, "TXT") : Trusted(r, FALSE)
<1>1. World /\ Collected /\ at \in queried /\ <<at, "CNAME">> \notin broken
  BY StandsOnAnswers DEF Types
<1>2. "CNAME" \in Types /\ "TXT" \in Types /\ Held(at, "TXT") # {}
  BY DEF Types, Held
<1>3. IsTerminal
  <2>1. Values(at, "CNAME") = {}
    BY <1>1, AliasValues
  <2>2. \A r \in Sources(at, "CNAME") : Trusted(r, TRUE)
    BY <1>2, BenignSources
  <2> QED BY <2>1, <2>2 DEF IsTerminal
<1>4. Sources(at, "TXT") # {}
  BY <1>1, <1>2, IsSource
<1>5. \A r \in Sources(at, "TXT") :
         r.answers = Held(at, "TXT") /\ Status(r) = "success" /\ Trusted(r, FALSE)
  BY <1>2, BenignSources
<1> QED BY <1>3, <1>4, <1>5 DEF Consistent

(* A decision ends the walk: "ok" only at the real end and behind the        *)
(* agreement of the servers, and nothing else where nothing fails.           *)
LEMMA DecideKeeps ==
  ASSUME IInv, phase = "authorizing", NEW v, v # "none", Decide(v),
         UNCHANGED <<world, results, walk, snapshot>>,
         v = "ok" => alias[at] = End /\ (managed = "managed" => ServersAgree),
         Benign => v = "ok"
  PROVE  IInv'
<1>1. /\ phase' = "decided" /\ verdict' = v /\ UNCHANGED <<at, visited, hops>>
      /\ UNCHANGED world /\ UNCHANGED <<results, walk, snapshot>>
  BY DEF Decide
<1>2. World /\ World' /\ Nth' = Nth /\ alias' = alias /\ (ServersAgree' <=> ServersAgree)
      /\ (Benign' <=> Benign) /\ managed' = managed
  BY <1>1, SameWorld DEF IInv
<1>3. Collected'
  BY <1>1, SameWorld DEF IInv, CollectorInv, Collected, walk
<1>4. CollectorInv'
  BY <1>1, <1>2, <1>3 DEF IInv, CollectorInv, Complete, walk
<1>5. WalkInv'
  BY <1>1, <1>2 DEF IInv, WalkInv
<1>6. BenignInv'
  BY <1>1, <1>2 DEF IInv, WalkInv, BenignInv
<1> QED BY <1>2, <1>4, <1>5, <1>6 DEF IInv

(* One more hop, to an owner that was not visited before.                    *)
LEMMA HopKeeps ==
  ASSUME IInv, phase = "authorizing", hops < MaxHops, alias[at] # End, alias[at] \notin visited \union {at},
         managed = "managed" => ServersAgree,
         at' = alias[at], visited' = visited \union {at}, hops' = hops + 1,
         UNCHANGED <<phase, verdict>>, UNCHANGED <<world, results, walk, snapshot>>
  PROVE  IInv'
<1>1. World /\ World' /\ Nth' = Nth /\ alias' = alias /\ (ServersAgree' <=> ServersAgree)
      /\ (Benign' <=> Benign) /\ managed' = managed
  BY SameWorld DEF IInv
<1>2. Collected'
  BY SameWorld DEF IInv, CollectorInv, Collected, walk
<1>3. CollectorInv'
  BY <1>1, <1>2 DEF IInv, CollectorInv, Complete, walk
<1>4. /\ MaxHops \in Nat /\ hops \in 0..MaxHops /\ at \in Owners /\ at = Nth[hops]
      /\ visited = {Nth[n] : n \in 0..(hops - 1)} /\ visited \subseteq Owners /\ at \notin visited
      /\ IsFiniteSet(visited) /\ hops = Cardinality(visited)
      /\ snapshot.state = "complete" /\ verdict = "none"
  BY CollectionAssumption DEF IInv, WalkInv
<1>5. hops' \in 0..MaxHops /\ hops' - 1 = hops /\ hops' > 0
  BY <1>4
<1>6. at' \in Owners /\ at' = Nth[hops']
  <2>1. Nth[hops + 1] = alias[at]
    BY <1>4, NthEquation DEF Onward
  <2> QED BY <1>1, <1>4, <2>1 DEF World
<1>7. visited' = {Nth[n] : n \in 0..(hops' - 1)}
  <2>1. 0..(hops' - 1) = 0..(hops - 1) \union {hops}
    <3>1. \A h \in Nat : 0..h = 0..(h - 1) \union {h}
      OBVIOUS
    <3>2. hops \in Nat
      BY <1>4
    <3> QED BY <1>5, <3>1, <3>2
  <2> QED BY <1>4, <2>1
<1>8. IsFiniteSet(visited') /\ hops' = Cardinality(visited')
  <2>1. /\ IsFiniteSet(visited \union {at})
        /\ Cardinality(visited \union {at}) = Cardinality(visited) + 1
    BY <1>4, FS_AddElement
  <2>2. visited' = visited \union {at} /\ hops' = hops + 1
    OBVIOUS
  <2>3. hops' = Cardinality(visited) + 1
    BY <1>4, <2>2
  <2> QED BY <2>1, <2>2, <2>3
<1>9. WalkInv'
  <2>1. visited' \subseteq Owners /\ at' \notin visited'
    BY <1>4
  <2>2. hops' \in 0..MaxHops /\ at' \in Owners /\ at' = Nth'[hops'] /\ visited' = {Nth'[n] : n \in 0..(hops' - 1)}
    BY <1>1, <1>5, <1>6, <1>7
  <2>3. phase' = "authorizing" /\ snapshot'.state = "complete" /\ verdict' = "none"
    BY <1>4
  <2>4. managed' = "managed" => ServersAgree'
    BY <1>1
  <2> QED BY <1>8, <2>1, <2>2, <2>3, <2>4 DEF WalkInv
<1>10. BenignInv'
  BY <1>1, <1>4 DEF IInv, BenignInv
<1> QED BY <1>1, <1>3, <1>9, <1>10 DEF IInv

(* Each turn of the loop of loadPersistedCnameChain.                         *)
LEMMA VisitOwnerKeeps ==
  ASSUME IInv, VisitOwner
  PROVE  IInv'
<1>1. phase = "authorizing" /\ UNCHANGED <<world, results, walk, snapshot>>
  BY DEF VisitOwner
<1>2. /\ World /\ Collected /\ at \in queried /\ at \in Owners
      /\ <<at, "CNAME">> \notin broken /\ <<Start, "CNAME">> \notin broken
  BY <1>1, StandsOnAnswers, IsSource DEF Types
<1>3. Values(at, "CNAME") = {alias[at]} \ {End}
  BY <1>2, AliasValues
<1>4. /\ hops \in Nat /\ at = Nth[hops] /\ (hops > 0 /\ managed = "managed" => ServersAgree)
      /\ Nth[0] = Start
  BY NthEquation DEF IInv, WalkInv
<1>5. ASSUME managed = "managed", \A r \in Sources(at, "CNAME") : Trusted(r, TRUE),
             Values(at, "CNAME") = {} \/ Consistent(at, "CNAME")
      PROVE  ServersAgree
  <2>1. CASE hops > 0
    BY <1>4, <1>5, <2>1
  <2>2. CASE hops = 0
    <3>1. at = Start
      BY <1>4, <2>2
    <3> QED BY <1>2, <1>5, <3>1, TrustMeansAgreement
  <2> QED BY <1>4, <2>1, <2>2
<1>6. CASE IsTerminal /\ AtTerminal
  <2>1. alias[at] = End /\ (managed = "managed" => ServersAgree)
    BY <1>3, <1>5, <1>6 DEF IsTerminal
  <2>2. PICK v \in {"missing-record-set", "inconsistent-record-set", "ok", "untrusted"} :
          Decide(v) /\ (Benign => v = "ok")
    <3>1. CASE Benign
      BY <1>1, <1>6, <2>1, <3>1, BenignEnds DEF AtTerminal
    <3>2. CASE ~Benign
      BY <1>6, <3>2 DEF AtTerminal
    <3> QED BY <3>1, <3>2
  <2> QED BY <1>1, <2>1, <2>2, DecideKeeps
<1>7. CASE ~IsTerminal /\ ~Walks /\ Decide(Refusal)
  <2>1. Refusal \in {"untrusted", "cname-chain-hop-limit", "inconsistent-cname-record-set"}
    BY DEF Refusal
  <2>2. ~Benign
    BY <1>1, <1>7, BenignEnds, BenignWalks
  <2> QED BY <1>1, <1>7, <2>1, <2>2, DecideKeeps
<1>8. ASSUME Walks, NEW target, target = CHOOSE t \in Values(at, "CNAME") : TRUE,
             IF target \in visited \union {at} THEN Decide("cname-chain-loop")
             ELSE /\ at' = target /\ visited' = visited \union {at} /\ hops' = hops + 1
                  /\ UNCHANGED <<phase, verdict>>
      PROVE  IInv'
  <2>1. Values(at, "CNAME") # {}
    BY <1>8, FS_EmptySet DEF Walks
  <2>2. target = alias[at] /\ alias[at] # End
    BY <1>3, <1>8, <2>1
  <2>3. managed = "managed" => ServersAgree
    BY <1>5, <1>8 DEF Walks
  <2>4. CASE target \in visited \union {at}
    <3>1. Decide("cname-chain-loop") /\ ~Benign
      BY <1>1, <1>8, <2>2, <2>4, BenignWalks
    <3> QED BY <1>1, <3>1, DecideKeeps
  <2>5. CASE target \notin visited \union {at}
    <3>1. hops < MaxHops
      BY <1>8 DEF Walks
    <3> QED BY <1>1, <1>8, <2>2, <2>3, <2>5, <3>1, HopKeeps
  <2> QED BY <2>4, <2>5
<1> QED BY <1>6, <1>7, <1>8 DEF VisitOwner

LEMMA Invariant == Spec => []IInv
<1>1. IInv /\ [Next]_vars => IInv'
  <2> SUFFICES ASSUME IInv, [Next]_vars PROVE IInv'
    OBVIOUS
  <2>1. CASE UNCHANGED vars
    <3>1. UNCHANGED world /\ UNCHANGED <<phase, results, walk, snapshot, authorization>>
      BY <2>1 DEF vars
    <3>2. Collected => Collected'
      BY <3>1, SameWorld DEF Collected, walk
    <3>3. CollectorInv'
      BY <3>1, <3>2, SameWorld DEF IInv, CollectorInv, NotCollected, Complete, walk
    <3>4. WalkInv'
      BY <3>1, SameWorld DEF IInv, WalkInv, authorization
    <3>5. BenignInv' /\ World'
      BY <3>1, SameWorld DEF IInv, BenignInv, authorization
    <3> QED BY <3>3, <3>4, <3>5 DEF IInv
  <2> QED BY <2>1, CollectInitialKeeps, FollowAliasesKeeps, StoreKeeps, BeginAuthorizationKeeps,
             VisitOwnerKeeps DEF Next
<1> QED BY <1>1, InitHolds, PTL DEF Spec

-----------------------------------------------------------------------------
(* Owners, results and hops have their types, and a hop is counted for every *)
(* owner visited (DNSCollector.collect, loadPersistedCnameChain).            *)
THEOREM TypeCorrect == Spec => []TypeOK
<1>1. IInv => TypeOK
  <2> SUFFICES ASSUME IInv PROVE TypeOK
    OBVIOUS
  <2>1. World /\ MaxHops \in Nat /\ Start \in Owners
    BY CollectionAssumption DEF IInv
  <2>2. CASE phase = "initial"
    BY <2>1, <2>2 DEF IInv, CollectorInv, NotCollected, WalkInv, TypeOK
  <2>3. CASE phase # "initial"
    <3>1. Collected
      BY <2>3 DEF IInv, CollectorInv
    <3>2. queried \subseteq Owners /\ hop \in 0..(MaxHops + 1) /\ pending \subseteq Owners
      <4>1. hop \in 0..(MaxHops + 1) /\ pending \subseteq {Nth[hop]} \ {End}
        BY <2>1, <3>1 DEF Collected
      <4> QED BY <2>1, <3>1, <4>1, WalkIsOwners DEF Collected
    <3>3. ASSUME NEW r \in results
          PROVE  r.owner \in queried /\ r.answers \subseteq Owners \union {End}
      <4>1. \A o \in Owners : alias[o] \in Owners \union {End}
        BY <2>1 DEF World
      <4>2. CASE r \in Queries(queried)
        <5>1. PICK o \in queried, t \in Types : r = FromResolver(o, t)
          BY <4>2 DEF Queries
        <5>2. r.answers \subseteq {alias[o]}
          <6>1. r.answers = {} \/ r.answers = Held(o, t)
            BY <5>1, ResolverAnswer
          <6>2. Held(o, t) \subseteq {alias[o]}
            BY DEF Held
          <6> QED BY <6>1, <6>2
        <5> QED BY <3>2, <4>1, <5>1, <5>2, ResultShape
      <4>3. CASE r \in ServerResults
        <5>1. PICK s \in Servers, t \in Types : r = FromServer(s, t)
          BY <4>3 DEF ServerResults
        <5>2. r.answers \subseteq Told(s, t) /\ Told(s, t) \in {{}, {alias[Start]}, {End}}
          BY <2>1, <5>1, ServerAnswer
        <5>3. Start \in queried
          BY <2>1, <3>1, IsSource DEF Types
        <5> QED BY <2>1, <4>1, <5>1, <5>2, <5>3, ResultShape
      <4> QED BY <3>1, <4>2, <4>3 DEF Collected
    <3>4. phase \in {"initial", "walking", "stored", "authorizing", "decided"}
      BY DEF IInv, CollectorInv
    <3>5. at \in Owners /\ visited \subseteq Owners /\ hops = Cardinality(visited) /\ hops <= MaxHops
      BY <2>1 DEF IInv, WalkInv
    <3> QED BY <3>2, <3>3, <3>4, <3>5 DEF TypeOK
  <2> QED BY <2>2, <2>3
<1> QED BY <1>1, Invariant, PTL

(* A socket is opened only at the real end of the aliases, reached within    *)
(* the bound, and for a managed zone only when every server proved the same  *)
(* first alias (loadPersistedCnameChain, loadRelevantObservations).          *)
THEOREM AuthorizedIsReal == Spec => []AuthorizedTerminalIsReal
<1>1. IInv => AuthorizedTerminalIsReal
  BY DEF IInv, WalkInv, AuthorizedTerminalIsReal
<1> QED BY <1>1, Invariant, PTL

(* The collector and the authorization count hops alike: where nothing fails,*)
(* aliases that end within MAX_DNS_CNAME_HOPS are authorized, the last hop   *)
(* included.                                                                 *)
THEOREM ShortChainsPass == Spec => []ShortChainsAreAuthorized
<1>1. IInv => ShortChainsAreAuthorized
  BY DEF IInv, BenignInv, Benign, ShortChainsAreAuthorized
<1> QED BY <1>1, Invariant, PTL

(* A snapshot called complete has a conclusive answer of the resolver for    *)
(* every owner on the way (calculateResultState).                            *)
THEOREM CompleteHasNoGap == Spec => []CompleteMeansAnswered
<1>1. IInv => CompleteMeansAnswered
  <2> SUFFICES ASSUME IInv, snapshot.state = "complete",
                      NEW n \in 0..MaxHops, NEW t \in Types, Nth[n] # End
               PROVE  \E r \in results : /\ r.owner = Nth[n] /\ r.type = t
                                         /\ r.vantage = Recursive /\ IsConclusive(r)
    BY DEF CompleteMeansAnswered
  <2>1. World /\ Complete /\ Collected
    BY DEF IInv, CollectorInv
  <2>2. Nth[n] \in queried
    BY <2>1 DEF Complete
  <2>3. FromResolver(Nth[n], t) \in results
    BY <2>1, <2>2, IsSource
  <2>4. IsConclusive(FromResolver(Nth[n], t))
    BY <2>1, <2>3 DEF Complete, AllConclusive
  <2> QED BY <2>3, <2>4, ResultShape
<1> QED BY <1>1, Invariant, PTL

==============================================================================
