---------------------------- MODULE RateLimiter ----------------------------
(***************************************************************************)
(* system-services/ai-daemon/src/ratelimit.rs: token buckets per client,   *)
(* for one category (the buckets of a client are created and discarded     *)
(* together; the condition for discarding them is that all are near full,  *)
(* which the other buckets are when only this category is used).           *)
(*                                                                         *)
(* Tokens are counted in units of 1/Scale, so that a refill may leave a    *)
(* fraction of a token.  Every operation holds the lock of the client map. *)
(***************************************************************************)
EXTENDS Integers, FiniteSets

CONSTANTS
  Client,      \* client keys: session tokens or client ids
  Scale,       \* units per token
  Rate,        \* refill_rate, in units per tick
  Burst,       \* capacity, in tokens
  MaxClock,    \* bound: ticks of the clock
  MaxCleanups  \* bound: how often the buckets of a client are discarded

ASSUME RateAssumption ==
  /\ {Scale, Rate, Burst} \subseteq Nat \ {0}
  /\ {MaxClock, MaxCleanups} \subseteq Nat

Full == Burst * Scale

VARIABLES
  bucket,      \* clients: the tokens and last_refill of each client tracked
  active,      \* stats.active_clients
  clock,       \* Instant::now()
  since,       \* auxiliary: when each client's record began
  allowed,     \* auxiliary: the requests granted to each client since then
  discarded,   \* auxiliary: how often its buckets were discarded since then
  denied       \* auxiliary: when a client was last denied and has not been
               \* granted a request since, or -1

limiterVars == <<bucket, active, clock, since, allowed, discarded, denied>>

Bucket == [tokens: 0..Full, last: 0..MaxClock]

LimiterInit ==
  /\ bucket = [c \in {} |-> 0]
  /\ active = 0
  /\ clock = 0
  /\ since = [c \in Client |-> -1]
  /\ allowed = [c \in Client |-> 0]
  /\ discarded = [c \in Client |-> 0]
  /\ denied = [c \in Client |-> -1]

Smaller(a, b) == IF a <= b THEN a ELSE b

\* TokenBucket::refill.
Refill(b) == [tokens |-> Smaller(b.tokens + (clock - b.last) * Rate, Full), last |-> clock]

\* The bucket check_rate_limit works on: a new client starts with a full one.
BucketOf(c) == IF c \in DOMAIN bucket THEN bucket[c] ELSE [tokens |-> Full, last |-> clock]

Put(c, b) == bucket' = [d \in DOMAIN bucket \cup {c} |-> IF d = c THEN b ELSE bucket[d]]

\* Faulty variant: a request is counted as a client.
CountRequest(c) == active' = active + 1

CountClient(c) == active' = IF c \in DOMAIN bucket THEN active ELSE active + 1

\* Faulty variant: the test for a whole token is dropped.
AllowUnchecked(c) ==
  LET b == Refill(BucketOf(c))
  IN  /\ Put(c, [b EXCEPT !.tokens = @ - Scale])
      /\ CountClient(c)
      /\ allowed' = [allowed EXCEPT ![c] = @ + 1]
      /\ since' = [since EXCEPT ![c] = IF @ = -1 THEN clock ELSE @]
      /\ denied' = [denied EXCEPT ![c] = -1]
      /\ UNCHANGED <<clock, discarded>>

\* check_rate_limit: Ok.
Allow(c) ==
  LET b == Refill(BucketOf(c))
  IN  /\ b.tokens >= Scale
      /\ Put(c, [b EXCEPT !.tokens = @ - Scale])
      /\ CountClient(c)
      /\ allowed' = [allowed EXCEPT ![c] = @ + 1]
      /\ since' = [since EXCEPT ![c] = IF @ = -1 THEN clock ELSE @]
      /\ denied' = [denied EXCEPT ![c] = -1]
      /\ UNCHANGED <<clock, discarded>>

\* Faulty variant: last_refill is not set when a request is denied early.
DenyLosingTime(c) ==
  LET b == Refill(BucketOf(c))
  IN  /\ b.tokens < Scale
      /\ Put(c, [BucketOf(c) EXCEPT !.last = clock])
      /\ CountClient(c)
      /\ denied' = [denied EXCEPT ![c] = IF @ = -1 THEN clock ELSE @]
      /\ UNCHANGED <<clock, since, allowed, discarded>>

\* check_rate_limit: RateLimitExceeded.  The refill has been stored.
Deny(c) ==
  LET b == Refill(BucketOf(c))
  IN  /\ b.tokens < Scale
      /\ Put(c, b)
      /\ CountClient(c)
      /\ denied' = [denied EXCEPT ![c] = IF @ = -1 THEN clock ELSE @]
      /\ UNCHANGED <<clock, since, allowed, discarded>>

\* TokenBucket::remaining: whole tokens, without storing the refill.
Remaining(c) == Refill(bucket[c]).tokens \div Scale

\* Faulty variant: the threshold is applied to half the capacity.
StaleAtHalf == {c \in DOMAIN bucket : Remaining(c) * 2 >= Burst}

\* remaining >= capacity * 0.95.
Stale == {c \in DOMAIN bucket : Remaining(c) * 20 >= Burst * 19}

Discard(S) ==
  /\ bucket' = [c \in DOMAIN bucket \ S |-> bucket[c]]
  /\ active' = active - Cardinality(S)
  /\ discarded' = [c \in Client |-> IF c \in S THEN discarded[c] + 1 ELSE discarded[c]]

\* cleanup_stale.
CleanupStale ==
  /\ Stale # {}
  /\ \A c \in Stale : discarded[c] < MaxCleanups
  /\ Discard(Stale)
  /\ UNCHANGED <<clock, since, allowed, denied>>

Advance ==
  /\ clock < MaxClock
  /\ clock' = clock + 1
  /\ UNCHANGED <<bucket, active, since, allowed, discarded, denied>>

LimiterNext ==
  \/ \E c \in Client : Allow(c) \/ Deny(c)
  \/ CleanupStale
  \/ Advance

LimiterSpec == LimiterInit /\ [][LimiterNext]_limiterVars

-----------------------------------------------------------------------------

\* Type invariant.
LimiterTypeOK ==
  /\ DOMAIN bucket \subseteq Client
  /\ \A c \in DOMAIN bucket : bucket[c] \in Bucket /\ bucket[c].last <= clock
  /\ active \in Nat
  /\ clock \in 0..MaxClock
  /\ allowed \in [Client -> Nat] /\ discarded \in [Client -> Nat]
  /\ since \in [Client -> -1..MaxClock] /\ denied \in [Client -> -1..MaxClock]

\* The tokens that discarding a bucket at 95% can give away, in units.
GivenAway == Full - ((Burst * 19 + 19) \div 20) * Scale

(***************************************************************************)
(* A client is never granted more than its burst and what has been refilled *)
(* since its first request, but for the twentieth of the burst that each    *)
(* cleanup_stale between its requests may give it.                          *)
(***************************************************************************)
GrantsBounded ==
  \A c \in Client :
    since[c] # -1 =>
      allowed[c] * Scale <= Full + (clock - since[c]) * Rate + discarded[c] * GivenAway

\* stats.active_clients is the number of clients tracked, after any sequence
\* of first requests and cleanups.
ActiveCounted == active = Cardinality(DOMAIN bucket)

(***************************************************************************)
(* retry_after is enough: a client denied at one time is not denied again  *)
(* once the 1/refill_rate it was told to wait has passed, however often it *)
(* asked in between.                                                       *)
(***************************************************************************)
RetryAfterSuffices ==
  \A c \in DOMAIN bucket :
    denied[c] # -1 /\ (clock - denied[c]) * Rate >= Scale => Refill(bucket[c]).tokens >= Scale

(***************************************************************************)
(* The limiter's own figures are honest: buckets hold no more than the     *)
(* burst, the gauge counts the clients tracked, and retry_after is enough. *)
(***************************************************************************)
LimiterInv == LimiterTypeOK /\ ActiveCounted /\ RetryAfterSuffices

=============================================================================
