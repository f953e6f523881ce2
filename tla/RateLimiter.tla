----------------------------- MODULE RateLimiter -----------------------------
(***************************************************************************)
(* The token bucket in front of the writes of an account.  A thread reads  *)
(* the clock first and takes the lock afterwards, so buckets see the times *)
(* of their requests in any order.  Tokens are counted in parts, Cost of   *)
(* which pay for one request and Rate of which come back in a unit of time.*)
(***************************************************************************)
EXTENDS Integers

CONSTANTS Threads, Accounts, Capacity, Rate, Cost

ASSUME LimiterAssumption ==
  Capacity \in Nat \ {0} /\ Rate \in Nat \ {0} /\ Cost \in 1..Capacity

VARIABLES
  clock,      \* time.monotonic()
  stamps,     \* the last time each thread has read
  buckets,    \* the _Bucket of each account: tokens, updated
  admitted,   \* history: the tokens each account was ever granted
  regress     \* history: by how much updated was ever set back

limiterVars == <<clock, stamps, buckets, admitted, regress>>

\* A bucket is made full, with the time of its first request; one that was
\* full when the clock started behaves in the same way.
LimiterInit ==
  /\ clock = 0
  /\ stamps = [t \in Threads |-> 0]
  /\ buckets = [a \in Accounts |-> [tokens |-> Capacity, updated |-> 0]]
  /\ admitted = [a \in Accounts |-> 0]
  /\ regress = [a \in Accounts |-> 0]

Lesser(x, y) == IF x < y THEN x ELSE y
Positive(x) == IF x > 0 THEN x ELSE 0

\* The tokens of a bucket when a request with the time now looks at it.
Filled(bucket, now) ==
  Lesser(Capacity, bucket.tokens + Rate * Positive(now - bucket.updated))

Allowed(bucket, now) == Filled(bucket, now) >= Cost

\* A plausible bug: the waiting time is rounded down.
RetryAfterFloored(tokens) == (Cost - tokens) \div Rate

\* retry_after_seconds of a refusal.
RetryAfter(tokens) == (Cost - tokens) \div Rate + 1

Tick == clock' = clock + 1 /\ UNCHANGED <<stamps, buckets, admitted, regress>>

ReadClock(t) ==
  /\ stamps' = [stamps EXCEPT ![t] = clock]
  /\ UNCHANGED <<clock, buckets, admitted, regress>>

\* A plausible bug: the time is not remembered when a request is refused.
ConsumeForgetful(t, a) ==
  LET now == stamps[t]
      spent == IF Allowed(buckets[a], now) THEN Cost ELSE 0
  IN  /\ buckets' = [buckets EXCEPT ![a].tokens = Filled(buckets[a], now) - spent,
                                    ![a].updated = IF spent = 0 THEN @ ELSE now]
      /\ admitted' = [admitted EXCEPT ![a] = @ + spent]
      /\ regress' = [regress EXCEPT ![a] = @ + Positive(buckets[a].updated - now)]
      /\ UNCHANGED <<clock, stamps>>

\* consume, under the lock.
Consume(t, a) ==
  LET now == stamps[t]
      spent == IF Allowed(buckets[a], now) THEN Cost ELSE 0
  IN  /\ buckets' = [buckets EXCEPT ![a].tokens = Filled(buckets[a], now) - spent,
                                    ![a].updated = now]
      /\ admitted' = [admitted EXCEPT ![a] = @ + spent]
      /\ regress' = [regress EXCEPT ![a] = @ + Positive(buckets[a].updated - now)]
      /\ UNCHANGED <<clock, stamps>>

LimiterNext ==
  \/ Tick
  \/ \E t \in Threads : ReadClock(t) \/ \E a \in Accounts : Consume(t, a)

LimiterSpec == LimiterInit /\ [][LimiterNext]_limiterVars

\* ------------------------------------------------------------ properties

\* Type correctness of the limiter.
LimiterTypeOK ==
  /\ clock \in Nat
  /\ stamps \in [Threads -> Nat]
  /\ buckets \in [Accounts -> [tokens : 0..Capacity, updated : Nat]]
  /\ admitted \in [Accounts -> Nat]
  /\ regress \in [Accounts -> Nat]

\* identity/rate_limit.py: an account is granted no more than a full bucket and
\* what came back since, however its requests overtake each other between the
\* clock and the lock - except that a bucket whose time is set back by a late
\* request pays that stretch of time out again.
RateBound ==
  \A a \in Accounts : admitted[a] <= Capacity + Rate * (clock + regress[a])

\* A client that was refused and comes back after retry_after_seconds finds
\* enough tokens, whatever the order in which the refusals were made.
WaitIsEnough ==
  \A a \in Accounts :
    buckets[a].tokens < Cost =>
      Allowed(buckets[a], buckets[a].updated + RetryAfter(buckets[a].tokens))
=============================================================================
