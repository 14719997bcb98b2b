----------------------------- MODULE TokenBucket -----------------------------
(* The token bucket of the collector's rate limiter (apps/collector/src/     *)
(* middleware/rate-limit.ts) and of the MCP scan quota (apps/web/hono/lib/   *)
(* mcp-scan-rate-limit.ts), which says it is the same algorithm: buckets per *)
(* key in memory, made full by the first request, refilled by whole tokens   *)
(* when a request comes.  A refill that adds tokens forgets the fraction of  *)
(* a token that had accrued, so two exact buckets, which forget nothing, are *)
(* kept beside each bucket to say how far it can be off.                     *)
EXTENDS Integers

CONSTANTS
  Keys,       \* tenant and path
  Limit,      \* tokens of a full bucket
  Window,     \* time in which an empty bucket fills
  MaxTime     \* bound of the clock

ASSUME LimitAssumption == Limit \in Nat \ {0} /\ Window \in Nat \ {0} /\ MaxTime \in Nat

VARIABLES
  now,
  tokens,     \* for each key RateLimitEntry.tokens, None before the first request
  lastRefill, \* for each key RateLimitEntry.lastRefill
  deniedAt,   \* for each key the time of a refusal since when no request was admitted
  remaining,  \* for each key the X-RateLimit-Remaining of its last answer
  exact,      \* credit of an exact bucket at the full rate, Window units a token
  half        \* credit of an exact bucket at half the rate, 2 * Window a token

bucketVars == <<now, tokens, lastRefill, deniedAt, remaining, exact, half>>

None == -1
Least(a, b) == IF a < b THEN a ELSE b
Most(a, b) == IF a > b THEN a ELSE b

BucketInit ==
  /\ now = 0
  /\ tokens = [k \in Keys |-> None]
  /\ lastRefill = [k \in Keys |-> 0]
  /\ deniedAt = [k \in Keys |-> None]
  /\ remaining = [k \in Keys |-> None]
  /\ exact = [k \in Keys |-> Limit * Window]
  /\ half = [k \in Keys |-> 2 * Limit * Window]

(* getEntry: what the bucket holds before the refill.                        *)
Held(k) == IF tokens[k] = None THEN Limit ELSE tokens[k]
Since(k) == IF tokens[k] = None THEN now ELSE lastRefill[k]

(* Variant: tokens are rounded up.                                           *)
AddedRoundedUp(k) == ((now - Since(k)) * Limit + Window - 1) \div Window

(* refillTokens: Math.floor((elapsed / windowMs) * limit).                   *)
Added(k) == ((now - Since(k)) * Limit) \div Window

(* Variant: the bucket is not capped.                                        *)
Uncapped(n) == n

Capped(n) == Least(Limit, n)

Refilled(k) == IF Added(k) > 0 THEN Capped(Held(k) + Added(k)) ELSE Held(k)

(* Variant: the time of the refill is set also when nothing was added.       *)
AlwaysNow(k) == now

RefilledAt(k) == IF Added(k) > 0 THEN now ELSE Since(k)

(* The middleware reports limit - tokens, which is what was used.            *)
Reported(left) == Most(0, Limit - left)

(* tryConsume admits: the header is set from the entry after the decrement.  *)
Admit(k) ==
  /\ Refilled(k) > 0
  /\ tokens' = [tokens EXCEPT ![k] = Refilled(k) - 1]
  /\ lastRefill' = [lastRefill EXCEPT ![k] = RefilledAt(k)]
  /\ deniedAt' = [deniedAt EXCEPT ![k] = None]
  /\ remaining' = [remaining EXCEPT ![k] = Reported(Refilled(k) - 1)]
  /\ exact' = [exact EXCEPT ![k] = @ - Window]
  /\ half' = [half EXCEPT ![k] = Most(0, @ - 2 * Window)]
  /\ UNCHANGED now

(* 429: the refused request pays nothing, and is told to wait for a window.  *)
Refuse(k) ==
  /\ Refilled(k) <= 0
  /\ tokens' = [tokens EXCEPT ![k] = Refilled(k)]
  /\ lastRefill' = [lastRefill EXCEPT ![k] = RefilledAt(k)]
  /\ deniedAt' = [deniedAt EXCEPT ![k] = IF @ = None THEN now ELSE @]
  /\ remaining' = [remaining EXCEPT ![k] = 0]
  /\ UNCHANGED <<now, exact, half>>

Request(k) == Admit(k) \/ Refuse(k)

Tick ==
  /\ now < MaxTime
  /\ now' = now + 1
  /\ exact' = [k \in Keys |-> Least(Limit * Window, exact[k] + Limit)]
  /\ half' = [k \in Keys |-> Least(2 * Limit * Window, half[k] + Limit)]
  /\ UNCHANGED <<tokens, lastRefill, deniedAt, remaining>>

BucketNext == Tick \/ \E k \in Keys : Request(k)

BucketSpec == BucketInit /\ [][BucketNext]_bucketVars

-----------------------------------------------------------------------------
BucketTypeOK ==
  /\ now \in 0..MaxTime
  /\ tokens \in [Keys -> None..Limit]
  /\ lastRefill \in [Keys -> 0..MaxTime]
  /\ deniedAt \in [Keys -> None..MaxTime]
  /\ remaining \in [Keys -> None..Limit]
  /\ exact \in [Keys -> Int]
  /\ half \in [Keys -> 0..(2 * Limit * Window)]

(* The limiter never admits more than an exact bucket does: that one is      *)
(* never overdrawn, whatever the pattern of requests.  It is close: a        *)
(* fraction that accrues while the bucket is full would be too much, but     *)
(* every request that fills the bucket takes a token from it.                *)
NeverOverExact == \A k \in Keys : exact[k] >= 0

(* The forgotten fractions cost at most half of the rate: a tenant to whom a *)
(* bucket of half the rate owes as much as half a token is admitted, however *)
(* badly its requests are timed.                                             *)
HalfRateGuaranteed ==
  \A k \in Keys : half[k] >= Window => Refilled(k) > 0

(* Retry-After is honest: a tenant who was refused is admitted a window      *)
(* later, also when it kept asking in between.                               *)
RetryAfterSuffices ==
  \A k \in Keys : (deniedAt[k] # None /\ now >= deniedAt[k] + Window) => Refilled(k) > 0

(* What an admitted caller is told to have left is what it has left, as      *)
(* checkRateLimit ("Check rate limit without middleware") reports it.        *)
RemainingIsLeft ==
  [][\A k \in Keys : (tokens'[k] # tokens[k] /\ remaining'[k] # remaining[k])
                       => remaining'[k] = tokens'[k]]_bucketVars
=============================================================================
