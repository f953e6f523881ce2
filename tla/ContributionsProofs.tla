------------------------- MODULE ContributionsProofs -------------------------
(***************************************************************************)
(* Members' requests for any number of threads, any requests in any order  *)
(* and any tables the database can hold when they arrive; first the        *)
(* limiter they pass, for any capacity, rate and price.                    *)
(***************************************************************************)
EXTENDS Contributions, FiniteSetTheorems, TLAPS

(***************************************************************************)
(* The token bucket                                                        *)
(***************************************************************************)

\* What a bucket holds and has paid out came from its time.
Balanced ==
  \A a \in Accounts :
    admitted[a] + buckets[a].tokens <= Capacity + Rate * (buckets[a].updated + regress[a])

\* No time is ahead of the clock.
PastOnly ==
  /\ \A t \in Threads : stamps[t] <= clock
  /\ \A a \in Accounts : buckets[a].updated <= clock

LimiterInv == LimiterTypeOK /\ PastOnly /\ Balanced

\* Facts about products with the rate.
LEMMA RateProduct ==
  ASSUME NEW x \in Nat, NEW y \in Nat
  PROVE  Rate * x \in Nat /\ Rate * y \in Nat /\ Rate * (x + y) = Rate * x + Rate * y
BY LimiterAssumption

\* Filling keeps a bucket within its capacity and adds no more than the time
\* that passed is worth.
LEMMA FilledBounds ==
  ASSUME NEW bucket \in [tokens : 0..Capacity, updated : Nat], NEW now \in Nat
  PROVE  /\ Filled(bucket, now) \in 0..Capacity
         /\ Filled(bucket, now) >= bucket.tokens
         /\ Filled(bucket, now) <= bucket.tokens + Rate * Positive(now - bucket.updated)
<1> DEFINE gain == Rate * Positive(now - bucket.updated)
<1>0. bucket.tokens \in 0..Capacity /\ bucket.updated \in Nat  OBVIOUS
<1>1. Positive(now - bucket.updated) \in Nat  BY <1>0 DEF Positive
<1>2. gain \in Nat  BY <1>1, RateProduct
<1>3. Filled(bucket, now) = Lesser(Capacity, bucket.tokens + gain)  BY DEF Filled
<1> HIDE DEF gain
<1>4. /\ Lesser(Capacity, bucket.tokens + gain) \in 0..Capacity
      /\ Lesser(Capacity, bucket.tokens + gain) >= bucket.tokens
      /\ Lesser(Capacity, bucket.tokens + gain) <= bucket.tokens + gain
  BY <1>0, <1>2, LimiterAssumption DEF Lesser
<1> QED  BY <1>3, <1>4 DEF gain

\* One request keeps the invariant.
LEMMA ConsumeKeeps ==
  ASSUME LimiterInv, NEW t \in Threads, NEW a \in Accounts, Consume(t, a)
  PROVE  LimiterInv'
<1> DEFINE now == stamps[t]
           bucket == buckets[a]
           spent == IF Allowed(bucket, now) THEN Cost ELSE 0
           filled == Filled(bucket, now)
           late == Positive(bucket.updated - now)
           early == Positive(now - bucket.updated)
<1>1. now \in Nat /\ bucket \in [tokens : 0..Capacity, updated : Nat] /\ now <= clock
  BY DEF LimiterInv, LimiterTypeOK, PastOnly
<1>2. /\ filled \in 0..Capacity
      /\ filled <= bucket.tokens + Rate * early
  BY <1>1, FilledBounds
<1>3. spent \in Nat /\ spent <= filled /\ filled - spent \in 0..Capacity
  BY <1>2, LimiterAssumption DEF Allowed
<1>4. late \in Nat /\ early \in Nat /\ now + late = bucket.updated + early
  BY <1>1 DEF Positive
<1>5. /\ buckets' = [buckets EXCEPT ![a].tokens = filled - spent, ![a].updated = now]
      /\ admitted' = [admitted EXCEPT ![a] = @ + spent]
      /\ regress' = [regress EXCEPT ![a] = @ + late]
      /\ clock' = clock /\ stamps' = stamps
  BY DEF Consume
<1> HIDE DEF spent, filled, late, early, now
<1>6. /\ buckets'[a] = [tokens |-> filled - spent, updated |-> now]
      /\ admitted'[a] = admitted[a] + spent
      /\ regress'[a] = regress[a] + late
      /\ \A b \in Accounts \ {a} : /\ buckets'[b] = buckets[b]
                                   /\ admitted'[b] = admitted[b]
                                   /\ regress'[b] = regress[b]
  BY <1>5 DEF LimiterInv, LimiterTypeOK
<1>7. LimiterTypeOK'
  <2>1. buckets' \in [Accounts -> [tokens : 0..Capacity, updated : Nat]]
    BY <1>1, <1>3, <1>5, <1>6 DEF LimiterInv, LimiterTypeOK
  <2>2. admitted' \in [Accounts -> Nat] /\ regress' \in [Accounts -> Nat]
    BY <1>3, <1>4, <1>5, <1>6 DEF LimiterInv, LimiterTypeOK
  <2> QED  BY <1>5, <2>1, <2>2 DEF LimiterInv, LimiterTypeOK
<1>8. PastOnly'
  <2>1. \A u \in Threads : stamps'[u] <= clock'
    BY <1>5 DEF LimiterInv, PastOnly
  <2>2. ASSUME NEW b \in Accounts PROVE buckets'[b].updated <= clock'
    <3>1. CASE b = a  BY <1>1, <1>5, <1>6, <3>1
    <3>2. CASE b # a  BY <1>5, <1>6, <3>2 DEF LimiterInv, PastOnly
    <3> QED  BY <3>1, <3>2
  <2> QED  BY <2>1, <2>2 DEF PastOnly
<1>9. Balanced'
  <2> SUFFICES ASSUME NEW b \in Accounts
               PROVE  admitted'[b] + buckets'[b].tokens
                        <= Capacity + Rate * (buckets'[b].updated + regress'[b])
    BY DEF Balanced
  <2>1. CASE b # a
    BY <1>6, <2>1 DEF LimiterInv, Balanced
  <2>2. CASE b = a
    <3>1. admitted[a] \in Nat /\ regress[a] \in Nat
          /\ bucket.tokens \in Nat /\ bucket.updated \in Nat
      BY <1>1, LimiterAssumption DEF LimiterInv, LimiterTypeOK
    <3>2. admitted[a] + bucket.tokens <= Capacity + Rate * (bucket.updated + regress[a])
      BY DEF LimiterInv, Balanced
    <3> DEFINE x == bucket.updated + regress[a]
    <3>3. x \in Nat /\ early \in Nat /\ now + (regress[a] + late) = x + early
      <4>1. \A n, l, u, r, k \in Nat : n + l = u + k => n + (r + l) = (u + r) + k
        OBVIOUS
      <4>2. now \in Nat /\ late \in Nat  BY <1>1, <1>4
      <4> QED  BY <1>4, <3>1, <4>1, <4>2
    <3> HIDE DEF x
    <3>4. /\ Rate * (x + early) = Rate * x + Rate * early
          /\ Rate * x \in Nat /\ Rate * early \in Nat
      BY <3>3, RateProduct
    <3>5. (admitted[a] + spent) + (filled - spent) <= Capacity + (Rate * x + Rate * early)
      BY <1>2, <1>3, <3>1, <3>2, <3>4, LimiterAssumption DEF x
    <3> QED  BY <1>6, <2>2, <3>3, <3>4, <3>5
  <2> QED  BY <2>1, <2>2
<1> QED  BY <1>7, <1>8, <1>9 DEF LimiterInv

\* The limiter starts with full buckets that have paid nothing out.
LEMMA InitInv == LimiterInit => LimiterInv
<1> SUFFICES ASSUME LimiterInit PROVE LimiterInv  OBVIOUS
<1>1. LimiterTypeOK  BY LimiterAssumption DEF LimiterInit, LimiterTypeOK
<1>2. PastOnly  BY DEF LimiterInit, PastOnly
<1>3. Balanced  BY LimiterAssumption DEF LimiterInit, Balanced
<1> QED  BY <1>1, <1>2, <1>3 DEF LimiterInv

\* Every step keeps the invariant.
LEMMA StepInv == LimiterInv /\ [LimiterNext]_limiterVars => LimiterInv'
<1> SUFFICES ASSUME LimiterInv, [LimiterNext]_limiterVars PROVE LimiterInv'  OBVIOUS
<1> USE DEF LimiterInv, LimiterTypeOK, PastOnly, Balanced
<1>1. CASE Tick  BY <1>1 DEF Tick
<1>2. CASE \E t \in Threads : ReadClock(t)  BY <1>2 DEF ReadClock
<1>3. CASE \E t \in Threads, a \in Accounts : Consume(t, a)
  BY <1>3, ConsumeKeeps
<1>4. CASE UNCHANGED limiterVars  BY <1>4 DEF limiterVars
<1> QED  BY <1>1, <1>2, <1>3, <1>4 DEF LimiterNext

\* The inductive invariant holds in every behaviour.
THEOREM LimiterSafe == LimiterSpec => []LimiterInv
BY InitInv, StepInv, PTL DEF LimiterSpec

\* Type correctness for every size of the limiter.
THEOREM LimiterTyped == LimiterSpec => []LimiterTypeOK
<1>1. LimiterInv => LimiterTypeOK  BY DEF LimiterInv
<1> QED  BY <1>1, LimiterSafe, PTL

\* An account is never granted more than its bucket, what time brought back,
\* and the stretches that late requests made it count twice.
THEOREM RateIsBound == LimiterSpec => []RateBound
<1>1. ASSUME LimiterInv PROVE RateBound
  <2> SUFFICES ASSUME NEW a \in Accounts
               PROVE  admitted[a] <= Capacity + Rate * (clock + regress[a])
    BY DEF RateBound
  <2> DEFINE old == buckets[a].updated + regress[a]
             more == clock - buckets[a].updated
  <2>1. /\ buckets[a].tokens \in Nat /\ buckets[a].updated \in Nat /\ admitted[a] \in Nat
        /\ regress[a] \in Nat /\ clock \in Nat /\ buckets[a].updated <= clock
    BY <1>1, LimiterAssumption DEF LimiterInv, LimiterTypeOK, PastOnly
  <2>2. old \in Nat /\ more \in Nat /\ clock + regress[a] = old + more  BY <2>1
  <2>3. admitted[a] + buckets[a].tokens <= Capacity + Rate * old
    BY <1>1 DEF LimiterInv, Balanced
  <2> HIDE DEF old, more
  <2>4. /\ Rate * (old + more) = Rate * old + Rate * more
        /\ Rate * old \in Nat /\ Rate * more \in Nat
    BY <2>2, RateProduct
  <2>5. admitted[a] <= Capacity + (Rate * old + Rate * more)
    BY <2>1, <2>3, <2>4, LimiterAssumption
  <2> QED  BY <2>2, <2>4, <2>5
<1> QED  BY <1>1, LimiterSafe, PTL

\* A refused client that waits as it was told is served.
THEOREM WaitSuffices == LimiterSpec => []WaitIsEnough
<1>1. ASSUME LimiterTypeOK PROVE WaitIsEnough
  <2> SUFFICES ASSUME NEW a \in Accounts, buckets[a].tokens < Cost
               PROVE  Allowed(buckets[a], buckets[a].updated + RetryAfter(buckets[a].tokens))
    BY DEF WaitIsEnough
  <2> DEFINE tokens == buckets[a].tokens
             wait == RetryAfter(tokens)
  <2>1. tokens \in 0..Capacity /\ buckets[a].updated \in Nat
    BY <1>1 DEF LimiterTypeOK
  <2>2. Cost - tokens \in Nat /\ Rate \in Nat \ {0} /\ Cost \in 1..Capacity /\ Capacity \in Nat
    BY <2>1, LimiterAssumption
  <2>3. wait \in Nat /\ Rate * wait >= Cost - tokens
    <3> DEFINE lack == Cost - tokens
               quotient == lack \div Rate
    <3>1. lack \in Nat  BY <2>2
    <3> HIDE DEF lack
    <3>2. quotient \in Nat /\ Rate * quotient + (lack % Rate) = lack /\ lack % Rate \in 0..(Rate - 1)
      BY <2>2, <3>1
    <3>3. wait = quotient + 1  BY DEF RetryAfter, lack
    <3> HIDE DEF quotient, wait
    <3>4. wait \in Nat /\ Rate * wait = Rate * quotient + Rate
      BY <2>2, <3>2, <3>3
    <3>5. Rate * quotient \in Nat  BY <3>2, RateProduct
    <3>6. Rate * wait >= lack  BY <2>2, <3>1, <3>2, <3>4, <3>5
    <3> QED  BY <3>4, <3>6 DEF lack
  <2> HIDE DEF wait
  <2>4. Positive((buckets[a].updated + wait) - buckets[a].updated) = wait
    BY <2>1, <2>3 DEF Positive
  <2>5. Rate * wait \in Nat  BY <2>3, RateProduct
  <2>6. Filled(buckets[a], buckets[a].updated + wait) = Lesser(Capacity, tokens + Rate * wait)
    BY <2>4 DEF Filled
  <2>7. Lesser(Capacity, tokens + Rate * wait) >= Cost
    BY <2>1, <2>2, <2>3, <2>5 DEF Lesser
  <2> QED  BY <2>6, <2>7 DEF Allowed, wait
<1>2. LimiterTypeOK => WaitIsEnough  BY <1>1
<1> QED  BY <1>2, LimiterTyped, PTL

(***************************************************************************)
(* The life of a request                                                   *)
(***************************************************************************)

\* A request is pending, with one thread, or answered; what was recorded when
\* it arrived stays, and names only requests that were answered by then.
Sched ==
  /\ scenario \in Scenarios
  /\ pending \subseteq DOMAIN requests
  /\ DOMAIN begun = DOMAIN requests \ pending
  /\ DOMAIN answers \subseteq DOMAIN begun
  /\ DOMAIN work = Threads
  /\ \A t \in Threads : work[t] # Idle =>
       /\ DOMAIN work[t] = {"request", "step", "seen"}
       /\ work[t].request \in DOMAIN begun
       /\ work[t].request \notin DOMAIN answers
  /\ \A t, u \in Threads :
       t # u /\ work[t] # Idle /\ work[u] # Idle => work[t].request # work[u].request
  /\ \A i \in DOMAIN begun : begun[i].answers \subseteq DOMAIN answers

\* What a step may never undo.
Bookkept ==
  /\ scenario' = scenario /\ pending' \subseteq pending
  /\ DOMAIN begun \subseteq DOMAIN begun'
  /\ \A i \in DOMAIN begun : begun'[i] = begun[i]
  /\ DOMAIN answers \subseteq DOMAIN answers'
  /\ \A i \in DOMAIN answers : answers'[i] = answers[i]

\* The threads other than t go on with what they were doing; a reader may be
\* left with fewer reviews to rely on.
OthersWait(t) ==
  \A u \in Threads \ {t} :
    /\ work'[u] = Idle <=> work[u] = Idle
    /\ work[u] # Idle => /\ DOMAIN work'[u] = DOMAIN work[u]
                         /\ work'[u].request = work[u].request
                         /\ work'[u].step = work[u].step
                         /\ Request(u).kind # "read" => work'[u].seen = work[u].seen

\* Thread t answers its request, or goes on with it.
Answers(t, status, value) ==
  /\ work[t] # Idle /\ work'[t] = Idle /\ OthersWait(t)
  /\ answers' = With(answers, work[t].request, [status |-> status, value |-> value])
  /\ DOMAIN work' = DOMAIN work /\ UNCHANGED <<scenario, pending, begun>>

GoesOn(t, step, seen) ==
  /\ work[t] # Idle /\ work'[t] # Idle /\ OthersWait(t)
  /\ DOMAIN work'[t] = DOMAIN work[t]
  /\ work'[t].request = work[t].request
  /\ work'[t].step = step /\ work'[t].seen = seen
  /\ DOMAIN work' = DOMAIN work /\ UNCHANGED <<scenario, pending, begun, answers>>

Arrives(t, i) ==
  /\ work[t] = Idle /\ i \in pending
  /\ pending' = pending \ {i} /\ scenario' = scenario
  /\ work' = [work EXCEPT ![t] = work'[t]] /\ work'[t] # Idle
  /\ DOMAIN work'[t] = {"request", "step", "seen"}
  /\ work'[t].request = i /\ work'[t].step = FirstStep(requests[i])
  /\ begun' = With(begun, i, [rows |-> Len(rows), votes |-> Len(votes), emails |-> Len(emails),
                              reports |-> Len(reports), answers |-> DOMAIN answers])
  /\ UNCHANGED <<tables, answers>>

Waits == UNCHANGED <<scenario, pending, work, tables, answers, begun>>

\* Nothing happens to requests of a kind but that one may arrive.
Rests(kind) ==
  /\ Bookkept
  /\ \A t \in Threads : work'[t] # Idle /\ Request(t)'.kind = kind =>
       \/ work[t] # Idle /\ work'[t].request = work[t].request
          /\ work'[t].step = work[t].step /\ (kind # "read" => work'[t].seen = work[t].seen)
       \/ work'[t].request \notin DOMAIN begun /\ work'[t].step \in {"limit", "read"}
  /\ \A i \in DOMAIN answers' : requests[i].kind = kind => i \in DOMAIN answers
  /\ \A i \in DOMAIN begun' \ DOMAIN begun :
       begun'[i] = [rows |-> Len(rows), votes |-> Len(votes), emails |-> Len(emails),
                    reports |-> Len(reports), answers |-> DOMAIN answers]

\* Requests are numbered from one.
LEMMA SentRequests ==
  ASSUME scenario \in Scenarios
  PROVE  /\ requests \in Seq(Sent) /\ scenario.rows \in Seq(Review) /\ scenario.horizon \in Nat
         /\ DOMAIN requests = 1..Len(requests) /\ Len(requests) \in Nat
         /\ 0 \notin DOMAIN requests
         /\ \A i \in DOMAIN requests : requests[i] \in Sent
<1>1. scenario \in [rows : Seq(Review), requests : Seq(Sent), horizon : Nat]
  BY ContributionsAssumption
<1>2. requests \in Seq(Sent) /\ scenario.rows \in Seq(Review) /\ scenario.horizon \in Nat
  BY <1>1 DEF requests
<1> QED  BY <1>2

\* Answer and Proceed, as what they do to the threads.
LEMMA AnswerAnswers ==
  ASSUME Sched, NEW t \in Threads, work[t] # Idle, NEW status, NEW value,
         Answer(t, status, value), UNCHANGED <<scenario, pending, begun>>
  PROVE  Answers(t, status, value)
BY DEF Sched, Answer, Answers, OthersWait

LEMMA ProceedGoesOn ==
  ASSUME Sched, NEW t \in Threads, work[t] # Idle, NEW step, NEW seen,
         Proceed(t, step, seen), UNCHANGED <<scenario, pending, begun>>
  PROVE  GoesOn(t, step, seen)
<1>1. work' = [work EXCEPT ![t].step = step, ![t].seen = seen] /\ UNCHANGED answers
  BY DEF Proceed
<1>2. DOMAIN work[t] = {"request", "step", "seen"} /\ DOMAIN work = Threads
      /\ work[t].request # 0
  BY SentRequests DEF Sched
<1>3. /\ DOMAIN work'[t] = DOMAIN work[t] /\ work'[t].request = work[t].request
      /\ work'[t].step = step /\ work'[t].seen = seen /\ DOMAIN work' = DOMAIN work
      /\ \A u \in Threads \ {t} : work'[u] = work[u]
  BY <1>1, <1>2
<1>4. work'[t] # Idle  BY <1>2, <1>3 DEF Idle
<1> QED  BY <1>1, <1>3, <1>4 DEF GoesOn, OthersWait

\* Request(t) stands still while t works on it.
LEMMA RequestStays ==
  ASSUME NEW t, scenario' = scenario, work'[t].request = work[t].request
  PROVE  Request(t)' = Request(t)
BY DEF Request, requests

LEMMA AnswersKeep ==
  ASSUME Sched, NEW t \in Threads, NEW status, NEW value, Answers(t, status, value)
  PROVE  /\ Sched' /\ Bookkept
         /\ work[t].request \in DOMAIN answers'
         /\ answers'[work[t].request] = [status |-> status, value |-> value]
         /\ answers'[work[t].request].status = status
         /\ DOMAIN answers' = DOMAIN answers \cup {work[t].request}
         /\ \A kind : Request(t).kind # kind => Rests(kind)
<1> DEFINE i == work[t].request
<1>1. /\ DOMAIN answers' = DOMAIN answers \cup {i}
      /\ answers'[i] = [status |-> status, value |-> value]
      /\ \A j \in DOMAIN answers : j # i => answers'[j] = answers[j]
  BY DEF Answers, With
<1>2. work[t] # Idle /\ i \in DOMAIN begun /\ i \notin DOMAIN answers
  BY DEF Answers, Sched
<1>3. UNCHANGED <<scenario, pending, begun>> /\ requests' = requests
  BY DEF Answers, requests
<1>4. Bookkept  BY <1>1, <1>2, <1>3 DEF Bookkept
<1>5. \A u \in Threads : work'[u] # Idle =>
        /\ u # t /\ work[u] # Idle /\ DOMAIN work'[u] = DOMAIN work[u]
        /\ work'[u].request = work[u].request /\ work'[u].step = work[u].step
        /\ (Request(u).kind # "read" => work'[u].seen = work[u].seen)
  BY DEF Answers, OthersWait
<1>6. \A u \in Threads : work'[u] # Idle => work[u].request # i
  BY <1>2, <1>5 DEF Sched
<1>7. Sched'
  <2> HIDE DEF i
  <2>1. \A u \in Threads : work'[u] # Idle =>
          /\ DOMAIN work'[u] = {"request", "step", "seen"}
          /\ work'[u].request \in DOMAIN begun'
          /\ work'[u].request \notin DOMAIN answers'
    BY <1>1, <1>3, <1>5, <1>6 DEF Sched
  <2>2. \A u, v \in Threads :
          u # v /\ work'[u] # Idle /\ work'[v] # Idle => work'[u].request # work'[v].request
    BY <1>5 DEF Sched
  <2>3. DOMAIN work' = Threads  BY DEF Answers, Sched
  <2>4. /\ scenario' \in Scenarios /\ pending' \subseteq DOMAIN requests'
        /\ DOMAIN begun' = DOMAIN requests' \ pending'
        /\ DOMAIN answers' \subseteq DOMAIN begun'
        /\ \A j \in DOMAIN begun' : begun'[j].answers \subseteq DOMAIN answers'
    BY <1>1, <1>2, <1>3 DEF Sched
  <2>5. Idle' = Idle  BY DEF Idle
  <2> QED  BY <2>1, <2>2, <2>3, <2>4, <2>5 DEF Sched
<1>8. ASSUME NEW kind, Request(t).kind # kind PROVE Rests(kind)
  <2>1. \A u \in Threads : work'[u] # Idle /\ Request(u)'.kind = kind =>
          work[u] # Idle /\ work'[u].request = work[u].request
          /\ work'[u].step = work[u].step /\ (kind # "read" => work'[u].seen = work[u].seen)
    BY <1>3, <1>5, RequestStays
  <2>2. requests[i].kind # kind  BY <1>8 DEF Request
  <2>3. \A j \in DOMAIN answers' : requests[j].kind = kind => j \in DOMAIN answers
    BY <1>1, <2>2
  <2>4. DOMAIN begun' \ DOMAIN begun = {}  BY <1>3
  <2> QED  BY <1>4, <2>1, <2>3, <2>4 DEF Rests
<1>9. answers'[i].status = status
  <2> DEFINE answer == [status |-> status, value |-> value]
  <2>1. answer.status = status  OBVIOUS
  <2> QED  BY <1>1, <2>1
<1> QED  BY <1>1, <1>4, <1>7, <1>8, <1>9

LEMMA GoesOnKeeps ==
  ASSUME Sched, NEW t \in Threads, NEW step, NEW seen, GoesOn(t, step, seen)
  PROVE  /\ Sched' /\ Bookkept
         /\ \A kind : Request(t).kind # kind => Rests(kind)
<1>1. UNCHANGED <<scenario, pending, begun, answers>> /\ requests' = requests
  BY DEF GoesOn, requests
<1>2. Bookkept  BY <1>1 DEF Bookkept
<1>3. \A u \in Threads : /\ work'[u] = Idle <=> work[u] = Idle
                         /\ work[u] # Idle => /\ DOMAIN work'[u] = DOMAIN work[u]
                                              /\ work'[u].request = work[u].request
  BY DEF GoesOn, OthersWait
<1>4. \A u \in Threads : u # t /\ work[u] # Idle =>
        work'[u].step = work[u].step /\ (Request(u).kind # "read" => work'[u].seen = work[u].seen)
  BY DEF GoesOn, OthersWait
<1>5. Sched'
  <2>1. DOMAIN work' = Threads /\ Idle' = Idle  BY DEF GoesOn, Sched, Idle
  <2>2. \A u \in Threads : work'[u] # Idle =>
          /\ DOMAIN work'[u] = {"request", "step", "seen"}
          /\ work'[u].request \in DOMAIN begun'
          /\ work'[u].request \notin DOMAIN answers'
    BY <1>1, <1>3 DEF Sched
  <2>3. \A u, v \in Threads :
          u # v /\ work'[u] # Idle /\ work'[v] # Idle => work'[u].request # work'[v].request
    BY <1>3 DEF Sched
  <2> QED  BY <1>1, <2>1, <2>2, <2>3 DEF Sched
<1>6. ASSUME NEW kind, Request(t).kind # kind PROVE Rests(kind)
  <2>1. \A u \in Threads : work'[u] # Idle /\ Request(u)'.kind = kind =>
          work[u] # Idle /\ work'[u].request = work[u].request
          /\ work'[u].step = work[u].step /\ (kind # "read" => work'[u].seen = work[u].seen)
    BY <1>1, <1>3, <1>4, <1>6, RequestStays
  <2>2. DOMAIN begun' \ DOMAIN begun = {} /\ DOMAIN answers' = DOMAIN answers  BY <1>1
  <2> QED  BY <1>2, <2>1, <2>2 DEF Rests
<1> QED  BY <1>2, <1>5, <1>6

LEMMA ArrivesKeeps ==
  ASSUME Sched, NEW t \in Threads, NEW i, Arrives(t, i)
  PROVE  Sched' /\ Bookkept /\ \A kind : Rests(kind)
<1> DEFINE now == [rows |-> Len(rows), votes |-> Len(votes), emails |-> Len(emails),
                   reports |-> Len(reports), answers |-> DOMAIN answers]
<1>1. /\ DOMAIN begun' = DOMAIN begun \cup {i} /\ begun'[i] = now
      /\ \A j \in DOMAIN begun : j # i => begun'[j] = begun[j]
  BY DEF Arrives, With
<1>2. i \in DOMAIN requests /\ i \notin DOMAIN begun /\ i \notin DOMAIN answers
  BY DEF Arrives, Sched
<1>3. UNCHANGED <<scenario, answers>> /\ requests' = requests /\ pending' = pending \ {i}
  BY DEF Arrives, requests
<1>4. /\ \A u \in Threads : u # t => work'[u] = work[u]
      /\ work'[t] # Idle /\ work'[t].request = i /\ DOMAIN work' = Threads
      /\ DOMAIN work'[t] = {"request", "step", "seen"}
  BY DEF Arrives, Sched
<1>5. now.answers = DOMAIN answers  OBVIOUS
<1> HIDE DEF now
<1>6. Bookkept  BY <1>1, <1>2, <1>3 DEF Bookkept
<1>7. Sched'
  <2>1. Idle' = Idle  BY DEF Idle
  <2>2. \A u \in Threads : work'[u] # Idle =>
          /\ DOMAIN work'[u] = {"request", "step", "seen"}
          /\ work'[u].request \in DOMAIN begun'
          /\ work'[u].request \notin DOMAIN answers'
    BY <1>1, <1>2, <1>3, <1>4 DEF Sched
  <2>3. \A u, v \in Threads :
          u # v /\ work'[u] # Idle /\ work'[v] # Idle => work'[u].request # work'[v].request
    BY <1>2, <1>4 DEF Sched
  <2>4. \A j \in DOMAIN begun' : begun'[j].answers \subseteq DOMAIN answers'
    BY <1>1, <1>2, <1>3, <1>5 DEF Sched
  <2>5. /\ scenario' \in Scenarios /\ pending' \subseteq DOMAIN requests'
        /\ DOMAIN begun' = DOMAIN requests' \ pending'
        /\ DOMAIN answers' \subseteq DOMAIN begun'
    BY <1>1, <1>2, <1>3 DEF Sched
  <2> QED  BY <1>4, <2>1, <2>2, <2>3, <2>4, <2>5 DEF Sched
<1>8. ASSUME NEW kind PROVE Rests(kind)
  <2>1. work'[t].request \notin DOMAIN begun /\ work'[t].step \in {"limit", "read"}
    BY <1>2, <1>4 DEF Arrives, FirstStep
  <2>2. \A u \in Threads : work'[u] # Idle =>
          u = t \/ (work[u] # Idle /\ work'[u] = work[u])
    BY <1>4
  <2>3. \A j \in DOMAIN begun' \ DOMAIN begun : begun'[j] = now  BY <1>1
  <2> QED  BY <1>3, <1>6, <2>1, <2>2, <2>3 DEF Rests, now
<1> QED  BY <1>6, <1>7, <1>8

LEMMA WaitsKeeps ==
  ASSUME Sched, Waits
  PROVE  Sched' /\ Bookkept /\ \A kind : Rests(kind)
<1>1. UNCHANGED <<scenario, pending, work, answers, begun>> /\ requests' = requests
  BY DEF Waits, requests
<1>2. Sched'  BY <1>1 DEF Sched, Idle
<1>3. Bookkept  BY <1>1 DEF Bookkept
<1>4. DOMAIN begun' \ DOMAIN begun = {}  BY <1>1
<1>5. ASSUME NEW kind PROVE Rests(kind)  BY <1>1, <1>3, <1>4 DEF Rests
<1> QED  BY <1>2, <1>3, <1>5

\* A thread whose step is not "idle" has a request.
LEMMA Busy ==
  ASSUME NEW t, NEW kind, NEW step, At(t, kind, step), step # "idle"
  PROVE  work[t] # Idle /\ Request(t).kind = kind /\ work[t].step = step
BY DEF At, Idle

(***************************************************************************)
(* What each step does, in these terms                                     *)
(***************************************************************************)

LEMMA ArriveActs ==
  ASSUME Sched, NEW t \in Threads, Arrive(t)
  PROVE  \E i \in pending : Arrives(t, i)
<1>1. PICK i \in pending :
        /\ pending' = pending \ {i}
        /\ work' = [work EXCEPT ![t] =
             [request |-> i, step |-> FirstStep(requests[i]),
              seen |-> IF requests[i].kind = "read"
                       THEN [items |-> <<>>, cursor |-> None, steady |-> Public(rows)] ELSE None]]
        /\ begun' = With(begun, i, [rows |-> Len(rows), votes |-> Len(votes), emails |-> Len(emails),
                                    reports |-> Len(reports), answers |-> DOMAIN answers])
  BY Zenon DEF Arrive
<1>2. work[t] = Idle /\ UNCHANGED <<scenario, tables, answers>>  BY DEF Arrive
<1> DEFINE seen == IF requests[i].kind = "read"
                   THEN [items |-> <<>>, cursor |-> None, steady |-> Public(rows)] ELSE None
<1>3. work' = [work EXCEPT ![t] = [request |-> i, step |-> FirstStep(requests[i]), seen |-> seen]]
  BY <1>1
<1> HIDE DEF seen
<1>4. work'[t] = [request |-> i, step |-> FirstStep(requests[i]), seen |-> seen]
      /\ work' = [work EXCEPT ![t] = work'[t]]
  BY <1>3 DEF Sched
<1>5. i # 0  BY SentRequests DEF Sched
<1>6. /\ DOMAIN work'[t] = {"request", "step", "seen"} /\ work'[t].request = i
      /\ work'[t].step = FirstStep(requests[i]) /\ work'[t] # Idle
  BY <1>4, <1>5 DEF Idle
<1> QED  BY <1>1, <1>2, <1>4, <1>6 DEF Arrives

LEMMA LimitActs ==
  ASSUME Sched, NEW t \in Threads, Limit(t)
  PROVE  /\ work[t] # Idle /\ Request(t).kind = "create" /\ UNCHANGED tables
         /\ \/ Answers(t, "rate_limited", None)
            \/ Request(t).body # "ok" /\ Answers(t, "invalid", None)
            \/ Request(t).body = "malformed" /\ Answers(t, "internal_error", None)
            \/ Request(t).key \in {None, Empty} /\ GoesOn(t, "policy", None)
            \/ Request(t).key \notin {None, Empty} /\ GoesOn(t, "key", None)
<1>1. work[t] # Idle /\ Request(t).kind = "create"  BY Busy DEF Limit
<1>2. UNCHANGED <<scenario, pending, begun>> /\ UNCHANGED tables  BY DEF Limit
<1>3. \/ Answer(t, "rate_limited", None)
      \/ Request(t).body # "ok" /\ Answer(t, "invalid", None)
      \/ Request(t).body = "malformed" /\ Answer(t, "internal_error", None)
      \/ Request(t).key \in {None, Empty} /\ Proceed(t, "policy", None)
      \/ Request(t).key \notin {None, Empty} /\ Proceed(t, "key", None)
  BY DEF Limit
<1> QED  BY <1>1, <1>2, <1>3, AnswerAnswers, ProceedGoesOn

LEMMA CheckKeyActs ==
  ASSUME Sched, NEW t \in Threads, CheckKey(t)
  PROVE  /\ work[t] # Idle /\ Request(t).kind = "create" /\ work[t].step = "key"
         /\ UNCHANGED tables
         /\ \/ /\ \A r \in DOMAIN rows : rows[r].key # Request(t).key
               /\ GoesOn(t, "policy", None)
            \/ \E r \in DOMAIN rows :
                 /\ rows[r].key = Request(t).key
                 /\ \/ rows[r].account # Request(t).account /\ Answers(t, "conflict", None)
                    \/ rows[r].account = Request(t).account /\ Answers(t, "created", r)
<1>1. work[t] # Idle /\ Request(t).kind = "create" /\ work[t].step = "key"
  BY Busy DEF CheckKey
<1>2. UNCHANGED <<scenario, pending, begun>> /\ UNCHANGED tables  BY DEF CheckKey
<1>3. \/ /\ \A r \in DOMAIN rows : rows[r].key # Request(t).key
         /\ Proceed(t, "policy", None)
      \/ \E r \in DOMAIN rows :
           /\ rows[r].key = Request(t).key
           /\ \/ rows[r].account # Request(t).account /\ Answer(t, "conflict", None)
              \/ rows[r].account = Request(t).account /\ Answer(t, "created", r)
  BY DEF CheckKey
<1> QED  BY <1>1, <1>2, <1>3, AnswerAnswers, ProceedGoesOn

LEMMA CheckPolicyActs ==
  ASSUME Sched, NEW t \in Threads, CheckPolicy(t)
  PROVE  /\ work[t] # Idle /\ Request(t).kind = "create" /\ work[t].step = "policy"
         /\ UNCHANGED tables
         /\ \/ Answers(t, "conflict", None)
            \/ \E seen :
                 /\ seen = {"rejected"} \/ \A r \in DOMAIN rows : ~SameSlot(rows[r], Request(t))
                 /\ GoesOn(t, "insert", seen)
<1>1. work[t] # Idle /\ Request(t).kind = "create" /\ work[t].step = "policy"
  BY Busy DEF CheckPolicy
<1>2. UNCHANGED <<scenario, pending, begun>> /\ UNCHANGED tables  BY DEF CheckPolicy
<1> DEFINE others == {r \in DOMAIN rows : SameSlot(rows[r], Request(t))}
           seen == {rows[r].status : r \in others}
<1>3. \/ Answer(t, "conflict", None)
      \/ (\A r \in others : rows[r].status = "rejected") /\ Proceed(t, "insert", seen)
  BY DEF CheckPolicy
<1>4. CASE (\A r \in others : rows[r].status = "rejected") /\ Proceed(t, "insert", seen)
  <2>1. seen = {"rejected"} \/ \A r \in DOMAIN rows : ~SameSlot(rows[r], Request(t))
    BY <1>4
  <2> HIDE DEF seen
  <2>2. GoesOn(t, "insert", seen)  BY <1>1, <1>2, <1>4, ProceedGoesOn
  <2> QED  BY <1>1, <1>2, <2>1, <2>2
<1> QED  BY <1>1, <1>2, <1>3, <1>4, AnswerAnswers

LEMMA InsertActs ==
  ASSUME Sched, NEW t \in Threads, Insert(t)
  PROVE  /\ work[t] # Idle /\ Request(t).kind = "create" /\ work[t].step = "insert"
         /\ UNCHANGED <<votes, reports, emails>>
         /\ \/ /\ rows' = rows /\ Answers(t, "internal_error", work[t].seen)
               /\ \/ Request(t).slot \notin Offered
                  \/ \E r \in DOMAIN rows : \/ SameSlot(rows[r], Request(t))
                                            \/ rows[r].key # None /\ rows[r].key = Request(t).key
            \/ /\ rows' = Append(rows, NewReview(Request(t))) /\ Request(t).slot \in Offered
               /\ Answers(t, "created", Len(rows) + 1)
               /\ \A r \in DOMAIN rows : /\ ~SameSlot(rows[r], Request(t))
                                         /\ rows[r].key = Request(t).key => rows[r].key = None
<1>1. work[t] # Idle /\ Request(t).kind = "create" /\ work[t].step = "insert"
  BY Busy DEF Insert
<1>2. UNCHANGED <<scenario, pending, begun, votes, reports, emails>>  BY DEF Insert
<1>3. \/ /\ rows' = rows /\ Answer(t, "internal_error", work[t].seen)
         /\ \/ Request(t).slot \notin Offered
            \/ \E r \in DOMAIN rows : \/ SameSlot(rows[r], Request(t))
                                      \/ rows[r].key # None /\ rows[r].key = Request(t).key
      \/ /\ rows' = Append(rows, NewReview(Request(t))) /\ Request(t).slot \in Offered
         /\ Answer(t, "created", Len(rows) + 1)
         /\ \A r \in DOMAIN rows : /\ ~SameSlot(rows[r], Request(t))
                                   /\ rows[r].key = Request(t).key => rows[r].key = None
  BY DEF Insert
<1> QED  BY <1>1, <1>2, <1>3, AnswerAnswers

LEMMA VoteReadActs ==
  ASSUME Sched, NEW t \in Threads, VoteRead(t)
  PROVE  /\ work[t] # Idle /\ Request(t).kind = "vote" /\ UNCHANGED tables
         /\ \/ Answers(t, "not_found", None) \/ Answers(t, "conflict", None)
            \/ LET mine == {v \in DOMAIN votes : /\ votes[v].account = Request(t).account
                                                 /\ votes[v].review = Request(t).review}
               IN  GoesOn(t, "write", [v \in mine |-> votes[v].helpful])
<1>1. work[t] # Idle /\ Request(t).kind = "vote"  BY Busy DEF VoteRead
<1>2. UNCHANGED <<scenario, pending, begun>> /\ UNCHANGED tables  BY DEF VoteRead
<1> DEFINE mine == {v \in DOMAIN votes : /\ votes[v].account = Request(t).account
                                         /\ votes[v].review = Request(t).review}
           seen == [v \in mine |-> votes[v].helpful]
<1>3. Answer(t, "not_found", None) \/ Answer(t, "conflict", None) \/ Proceed(t, "write", seen)
  BY DEF VoteRead
<1> HIDE DEF seen
<1>4. Answers(t, "not_found", None) \/ Answers(t, "conflict", None) \/ GoesOn(t, "write", seen)
  BY <1>1, <1>2, <1>3, AnswerAnswers, ProceedGoesOn
<1> QED  BY <1>1, <1>2, <1>4 DEF seen

LEMMA VoteWriteActs ==
  ASSUME Sched, NEW t \in Threads, VoteWrite(t)
  PROVE  LET mine == DOMAIN work[t].seen
             raced == \E v \in DOMAIN votes : /\ votes[v].account = Request(t).account
                                              /\ votes[v].review = Request(t).review
         IN  /\ work[t] # Idle /\ Request(t).kind = "vote" /\ work[t].step = "write"
             /\ UNCHANGED <<rows, reports, emails>>
             /\ \/ mine = {} /\ raced /\ votes' = votes /\ Answers(t, "internal_error", None)
                \/ /\ mine = {} /\ ~raced /\ votes' = Append(votes, NewVote(Request(t)))
                   /\ Answers(t, "ok", None)
                \/ /\ mine # {}
                   /\ votes' = [v \in DOMAIN votes |->
                                  IF v \in mine /\ work[t].seen[v] # Request(t).helpful
                                  THEN NewVote(Request(t)) ELSE votes[v]]
                   /\ Answers(t, "ok", None)
<1>1. work[t] # Idle /\ Request(t).kind = "vote" /\ work[t].step = "write"
  BY Busy DEF VoteWrite
<1>2. UNCHANGED <<scenario, pending, begun, rows, reports, emails>>  BY DEF VoteWrite
<1> DEFINE mine == DOMAIN work[t].seen
           raced == \E v \in DOMAIN votes : /\ votes[v].account = Request(t).account
                                            /\ votes[v].review = Request(t).review
           changed == [v \in DOMAIN votes |->
                         IF v \in mine /\ work[t].seen[v] # Request(t).helpful
                         THEN NewVote(Request(t)) ELSE votes[v]]
<1>3. \/ mine = {} /\ raced /\ votes' = votes /\ Answer(t, "internal_error", None)
      \/ /\ mine = {} /\ ~raced /\ votes' = Append(votes, NewVote(Request(t)))
         /\ Answer(t, "ok", None)
      \/ mine # {} /\ votes' = changed /\ Answer(t, "ok", None)
  BY DEF VoteWrite
<1> HIDE DEF mine, raced, changed
<1>4. \/ mine = {} /\ raced /\ votes' = votes /\ Answers(t, "internal_error", None)
      \/ /\ mine = {} /\ ~raced /\ votes' = Append(votes, NewVote(Request(t)))
         /\ Answers(t, "ok", None)
      \/ mine # {} /\ votes' = changed /\ Answers(t, "ok", None)
  BY <1>1, <1>2, <1>3, AnswerAnswers
<1> QED  BY <1>1, <1>2, <1>4 DEF mine, raced, changed

LEMMA ReportReadActs ==
  ASSUME Sched, NEW t \in Threads, ReportRead(t)
  PROVE  /\ work[t] # Idle /\ Request(t).kind = "report" /\ UNCHANGED tables
         /\ \/ Answers(t, "not_found", None) \/ Answers(t, "conflict", None)
            \/ \E p \in DOMAIN reports : Answers(t, "created", p)
            \/ /\ \A p \in DOMAIN reports : \/ reports[p].account # Request(t).account
                                            \/ reports[p].review # Request(t).review
               /\ GoesOn(t, "write", None)
<1>1. work[t] # Idle /\ Request(t).kind = "report"  BY Busy DEF ReportRead
<1>2. UNCHANGED <<scenario, pending, begun>> /\ UNCHANGED tables  BY DEF ReportRead
<1>3. \/ Answer(t, "not_found", None) \/ Answer(t, "conflict", None)
      \/ \E p \in DOMAIN reports : Answer(t, "created", p)
      \/ /\ \A p \in DOMAIN reports : \/ reports[p].account # Request(t).account
                                      \/ reports[p].review # Request(t).review
         /\ Proceed(t, "write", None)
  BY DEF ReportRead
<1> QED  BY <1>1, <1>2, <1>3, AnswerAnswers, ProceedGoesOn

LEMMA ReportWriteActs ==
  ASSUME Sched, NEW t \in Threads, ReportWrite(t)
  PROVE  /\ work[t] # Idle /\ Request(t).kind = "report" /\ work[t].step = "write"
         /\ UNCHANGED <<rows, votes, emails>> /\ Answers(t, "created", Len(reports) + 1)
         /\ reports' = Append(reports, [account |-> Request(t).account, review |-> Request(t).review,
                                        request |-> work[t].request])
<1>1. work[t] # Idle /\ Request(t).kind = "report" /\ work[t].step = "write"
  BY Busy DEF ReportWrite
<1>2. UNCHANGED <<scenario, pending, begun>>  BY DEF ReportWrite
<1>3. Answer(t, "created", Len(reports) + 1)  BY DEF ReportWrite
<1>4. Answers(t, "created", Len(reports) + 1)  BY <1>1, <1>2, <1>3, AnswerAnswers
<1> QED  BY <1>1, <1>4 DEF ReportWrite

LEMMA RegisterReadActs ==
  ASSUME Sched, NEW t \in Threads, RegisterRead(t)
  PROVE  /\ work[t] # Idle /\ Request(t).kind = "register" /\ UNCHANGED tables
         /\ \/ Answers(t, "conflict", None)
            \/ /\ \A n \in DOMAIN emails : emails[n] # Request(t).email
               /\ GoesOn(t, "write", None)
<1>1. work[t] # Idle /\ Request(t).kind = "register"  BY Busy DEF RegisterRead
<1>2. UNCHANGED <<scenario, pending, begun>> /\ UNCHANGED tables  BY DEF RegisterRead
<1>3. \/ Answer(t, "conflict", None)
      \/ /\ \A n \in DOMAIN emails : emails[n] # Request(t).email
         /\ Proceed(t, "write", None)
  BY DEF RegisterRead
<1> QED  BY <1>1, <1>2, <1>3, AnswerAnswers, ProceedGoesOn

LEMMA RegisterWriteActs ==
  ASSUME Sched, NEW t \in Threads, RegisterWrite(t)
  PROVE  /\ work[t] # Idle /\ Request(t).kind = "register" /\ work[t].step = "write"
         /\ UNCHANGED <<rows, votes, reports>>
         /\ \/ /\ emails' = emails /\ Answers(t, "internal_error", None)
               /\ \E n \in DOMAIN emails : emails[n] = Request(t).email
            \/ /\ emails' = Append(emails, Request(t).email)
               /\ Answers(t, "created", Len(emails) + 1)
               /\ \A n \in DOMAIN emails : emails[n] # Request(t).email
<1>1. work[t] # Idle /\ Request(t).kind = "register" /\ work[t].step = "write"
  BY Busy DEF RegisterWrite
<1>2. UNCHANGED <<scenario, pending, begun, rows, votes, reports>>  BY DEF RegisterWrite
<1>3. \/ /\ emails' = emails /\ Answer(t, "internal_error", None)
         /\ \E n \in DOMAIN emails : emails[n] = Request(t).email
      \/ /\ emails' = Append(emails, Request(t).email)
         /\ Answer(t, "created", Len(emails) + 1)
         /\ \A n \in DOMAIN emails : emails[n] # Request(t).email
  BY DEF RegisterWrite
<1> QED  BY <1>1, <1>2, <1>3, AnswerAnswers

LEMMA MoveActs ==
  ASSUME Sched, NEW t \in Threads, Move(t)
  PROVE  /\ work[t] # Idle /\ Request(t).kind = "move" /\ UNCHANGED <<votes, reports, emails>>
         /\ \/ rows' = rows /\ Answers(t, "conflict", None)
            \/ /\ Request(t).target \in Transitions(rows[Request(t).review].status)
               /\ rows' = [rows EXCEPT ![Request(t).review].status = Request(t).target,
                             ![Request(t).review].shown = @ \/ Request(t).target = "published"]
               /\ Answers(t, "ok", None)
<1>1. work[t] # Idle /\ Request(t).kind = "move"  BY Busy DEF Move
<1>2. UNCHANGED <<scenario, pending, begun, votes, reports, emails>>  BY DEF Move
<1> DEFINE moved == [rows EXCEPT ![Request(t).review].status = Request(t).target,
                       ![Request(t).review].shown = @ \/ Request(t).target = "published"]
<1>3. CASE rows' = rows /\ Answer(t, "conflict", None)
  BY <1>1, <1>2, <1>3, AnswerAnswers
<1>4. CASE /\ Request(t).target \in Transitions(rows[Request(t).review].status)
           /\ rows' = moved
           /\ answers' = With(answers, work[t].request, [status |-> "ok", value |-> None])
           /\ work' = [u \in Threads |->
                IF u = t THEN Idle
                ELSE IF work[u] # Idle /\ Request(u).kind = "read"
                THEN [work[u] EXCEPT !.seen.steady = @ \cap Public(moved)]
                ELSE work[u]]
  <2> HIDE DEF moved
  <2>1. ASSUME NEW u \in Threads \ {t}
        PROVE  /\ work'[u] = Idle <=> work[u] = Idle
               /\ work[u] # Idle => /\ DOMAIN work'[u] = DOMAIN work[u]
                                    /\ work'[u].request = work[u].request
                                    /\ work'[u].step = work[u].step
                                    /\ Request(u).kind # "read" => work'[u].seen = work[u].seen
    <3>1. CASE work[u] # Idle /\ Request(u).kind = "read"
      <4>1. work'[u] = [work[u] EXCEPT !.seen.steady = @ \cap Public(moved)]
        BY <1>4, <3>1
      <4>2. DOMAIN work[u] = {"request", "step", "seen"} /\ work[u].request # 0
        BY <3>1, SentRequests DEF Sched
      <4>3. /\ DOMAIN work'[u] = DOMAIN work[u] /\ work'[u].request = work[u].request
            /\ work'[u].step = work[u].step
        BY <4>1, <4>2
      <4>4. work'[u] # Idle  BY <4>2, <4>3 DEF Idle
      <4> QED  BY <3>1, <4>3, <4>4
    <3>2. CASE ~(work[u] # Idle /\ Request(u).kind = "read")
      <4>1. work'[u] = work[u]  BY <1>4, <3>2
      <4> QED  BY <4>1
    <3> QED  BY <3>1, <3>2
  <2>2. work'[t] = Idle /\ DOMAIN work' = Threads  BY <1>4
  <2>3. OthersWait(t)  BY <2>1 DEF OthersWait
  <2>4. Answers(t, "ok", None)  BY <1>1, <1>2, <1>4, <2>2, <2>3 DEF Answers, Sched
  <2> QED  BY <1>1, <1>2, <1>4, <2>4 DEF moved
<1> QED  BY <1>3, <1>4 DEF Move

LEMMA ReadPageActs ==
  ASSUME Sched, NEW t \in Threads, ReadPage(t)
  PROVE  /\ work[t] # Idle /\ Request(t).kind = "read" /\ UNCHANGED tables
         /\ \E seen : GoesOn(t, "read", seen) \/ Answers(t, "ok", seen)
<1>1. work[t] # Idle /\ Request(t).kind = "read"  BY Busy DEF ReadPage
<1>2. UNCHANGED <<scenario, pending, begun>> /\ UNCHANGED tables  BY DEF ReadPage
<1>3. \E seen : Proceed(t, "read", seen) \/ Answer(t, "ok", seen)
  BY Zenon DEF ReadPage
<1> QED  BY <1>1, <1>2, <1>3, AnswerAnswers, ProceedGoesOn

\* A transition writes the status of one review and whether it is shown.
RowMoved ==
  \E r \in Nat, status \in Statuses : \E shown :
    /\ r \in DOMAIN rows => shown \in BOOLEAN
    /\ rows' = [rows EXCEPT ![r].status = status, ![r].shown = shown]

\* The requests of the four kinds that leave rows: which steps serve them, and
\* that all the other steps leave them and their table alone.
LEMMA Divided ==
  ASSUME Sched, rows \in Seq(Review), [ContributionsNext]_allVars
  PROVE  /\ Sched' /\ Bookkept
         /\ \/ \E t \in Threads : Limit(t) \/ CheckKey(t) \/ CheckPolicy(t) \/ Insert(t)
            \/ Rests("create") /\ (rows' = rows \/ RowMoved)
         /\ (\E t \in Threads : VoteRead(t) \/ VoteWrite(t)) \/ (Rests("vote") /\ votes' = votes)
         /\ \/ \E t \in Threads : ReportRead(t) \/ ReportWrite(t)
            \/ Rests("report") /\ reports' = reports
         /\ \/ \E t \in Threads : RegisterRead(t) \/ RegisterWrite(t)
            \/ Rests("register") /\ emails' = emails
         /\ \A i \in DOMAIN answers' \ DOMAIN answers :
              answers'[i].status = "internal_error" =>
                requests[i].kind \in {"create", "vote", "register"}
<1> DEFINE Goal ==
             /\ Sched' /\ Bookkept
             /\ \/ \E t \in Threads : Limit(t) \/ CheckKey(t) \/ CheckPolicy(t) \/ Insert(t)
                \/ Rests("create") /\ (rows' = rows \/ RowMoved)
             /\ (\E t \in Threads : VoteRead(t) \/ VoteWrite(t)) \/ (Rests("vote") /\ votes' = votes)
             /\ \/ \E t \in Threads : ReportRead(t) \/ ReportWrite(t)
                \/ Rests("report") /\ reports' = reports
             /\ \/ \E t \in Threads : RegisterRead(t) \/ RegisterWrite(t)
                \/ Rests("register") /\ emails' = emails
             /\ \A i \in DOMAIN answers' \ DOMAIN answers :
                  answers'[i].status = "internal_error" =>
                    requests[i].kind \in {"create", "vote", "register"}
<1>a. ASSUME NEW t \in Threads, work[t] # Idle,
             (\E status, value : Answers(t, status, value)) \/ (\E step, seen : GoesOn(t, step, seen))
      PROVE  /\ Sched' /\ Bookkept
             /\ \A kind : Request(t).kind # kind => Rests(kind)
             /\ \A i \in DOMAIN answers' \ DOMAIN answers : i = work[t].request
  <2>1. ASSUME NEW status, NEW value, Answers(t, status, value)
        PROVE  /\ Sched' /\ Bookkept
               /\ \A kind : Request(t).kind # kind => Rests(kind)
               /\ \A i \in DOMAIN answers' \ DOMAIN answers : i = work[t].request
    BY <2>1, AnswersKeep
  <2>2. ASSUME NEW step, NEW seen, GoesOn(t, step, seen)
        PROVE  /\ Sched' /\ Bookkept
               /\ \A kind : Request(t).kind # kind => Rests(kind)
               /\ \A i \in DOMAIN answers' \ DOMAIN answers : i = work[t].request
    <3>1. DOMAIN answers' \ DOMAIN answers = {}  BY <2>2 DEF GoesOn
    <3> QED  BY <2>2, <3>1, GoesOnKeeps
  <2> QED  BY <1>a, <2>1, <2>2
<1>b. \A t : work[t].request \in DOMAIN requests => Request(t) = requests[work[t].request]
  BY DEF Request
<1>1. ASSUME TimePasses \/ UNCHANGED allVars PROVE Goal
  <2>1. Waits  BY <1>1 DEF TimePasses, allVars, Waits
  <2>2. DOMAIN answers' \ DOMAIN answers = {} /\ UNCHANGED <<rows, votes, reports, emails>>
    BY <2>1 DEF Waits, tables
  <2> QED  BY <2>1, <2>2, WaitsKeeps
<1>2. ASSUME NEW t \in Threads, Arrive(t) PROVE Goal
  <2>1. PICK i \in pending : Arrives(t, i)  BY <1>2, ArriveActs
  <2>2. DOMAIN answers' \ DOMAIN answers = {} /\ UNCHANGED <<rows, votes, reports, emails>>
    BY <2>1 DEF Arrives, tables
  <2> QED  BY <2>1, <2>2, ArrivesKeeps
<1>3. ASSUME NEW t \in Threads, Limit(t) \/ CheckKey(t) \/ CheckPolicy(t) \/ Insert(t) PROVE Goal
  <2>1. /\ work[t] # Idle /\ Request(t).kind = "create"
        /\ UNCHANGED <<votes, reports, emails>>
        /\ \/ \E status, value : Answers(t, status, value)
           \/ \E step, seen : GoesOn(t, step, seen)
    <3>1. CASE Limit(t)  BY <3>1, LimitActs DEF tables
    <3>2. CASE CheckKey(t)  BY <3>2, CheckKeyActs DEF tables
    <3>3. CASE CheckPolicy(t)  BY <3>3, CheckPolicyActs DEF tables
    <3>4. CASE Insert(t)  BY <3>4, InsertActs
    <3> QED  BY <1>3, <3>1, <3>2, <3>3, <3>4
  <2>2. /\ Sched' /\ Bookkept /\ Rests("vote") /\ Rests("report") /\ Rests("register")
        /\ \A i \in DOMAIN answers' \ DOMAIN answers : requests[i].kind = "create"
    BY <1>a, <2>1 DEF Request
  <2> QED  BY <1>3, <2>1, <2>2
<1>4. ASSUME NEW t \in Threads, VoteRead(t) \/ VoteWrite(t) PROVE Goal
  <2>1. /\ work[t] # Idle /\ Request(t).kind = "vote"
        /\ UNCHANGED <<rows, reports, emails>>
        /\ \/ \E status, value : Answers(t, status, value)
           \/ \E step, seen : GoesOn(t, step, seen)
    <3>1. CASE VoteRead(t)  BY <3>1, VoteReadActs DEF tables
    <3>2. CASE VoteWrite(t)  BY <3>2, VoteWriteActs
    <3> QED  BY <1>4, <3>1, <3>2
  <2>2. /\ Sched' /\ Bookkept /\ Rests("create") /\ Rests("report") /\ Rests("register")
        /\ \A i \in DOMAIN answers' \ DOMAIN answers : requests[i].kind = "vote"
    BY <1>a, <2>1 DEF Request
  <2> QED  BY <1>4, <2>1, <2>2
<1>5. ASSUME NEW t \in Threads, ReportRead(t) \/ ReportWrite(t) PROVE Goal
  <2>1. /\ work[t] # Idle /\ Request(t).kind = "report"
        /\ UNCHANGED <<rows, votes, emails>>
        /\ \/ Answers(t, "not_found", None) \/ Answers(t, "conflict", None)
           \/ \E p : Answers(t, "created", p)
           \/ \E step, seen : GoesOn(t, step, seen)
    <3>1. CASE ReportRead(t)  BY <3>1, ReportReadActs DEF tables
    <3>2. CASE ReportWrite(t)  BY <3>2, ReportWriteActs
    <3> QED  BY <1>5, <3>1, <3>2
  <2>2. /\ Sched' /\ Bookkept /\ Rests("create") /\ Rests("vote") /\ Rests("register")
        /\ \A i \in DOMAIN answers' \ DOMAIN answers : i = work[t].request
    BY <1>a, <2>1
  <2>3. \A i \in DOMAIN answers' \ DOMAIN answers : answers'[i].status # "internal_error"
    <3>1. ASSUME NEW status, NEW value, Answers(t, status, value)
          PROVE  answers'[work[t].request].status = status
      BY <3>1, AnswersKeep
    <3>2. CASE \E step, seen : GoesOn(t, step, seen)
      BY <3>2 DEF GoesOn
    <3>3. CASE ~\E step, seen : GoesOn(t, step, seen)
      <4>1. answers'[work[t].request].status \in {"not_found", "conflict", "created"}
        BY <2>1, <3>1, <3>3
      <4> QED  BY <2>2, <4>1
    <3> QED  BY <3>2, <3>3
  <2> QED  BY <1>5, <2>1, <2>2, <2>3
<1>6. ASSUME NEW t \in Threads, RegisterRead(t) \/ RegisterWrite(t) PROVE Goal
  <2>1. /\ work[t] # Idle /\ Request(t).kind = "register"
        /\ UNCHANGED <<rows, votes, reports>>
        /\ \/ \E status, value : Answers(t, status, value)
           \/ \E step, seen : GoesOn(t, step, seen)
    <3>1. CASE RegisterRead(t)  BY <3>1, RegisterReadActs DEF tables
    <3>2. CASE RegisterWrite(t)  BY <3>2, RegisterWriteActs
    <3> QED  BY <1>6, <3>1, <3>2
  <2>2. /\ Sched' /\ Bookkept /\ Rests("create") /\ Rests("vote") /\ Rests("report")
        /\ \A i \in DOMAIN answers' \ DOMAIN answers : requests[i].kind = "register"
    BY <1>a, <2>1 DEF Request
  <2> QED  BY <1>6, <2>1, <2>2
<1>7. ASSUME NEW t \in Threads, Move(t) \/ ReadPage(t) PROVE Goal
  <2>1. /\ work[t] # Idle /\ Request(t).kind \in {"move", "read"}
        /\ UNCHANGED <<votes, reports, emails>>
        /\ \/ \E status \in {"ok", "conflict"} : \E value : Answers(t, status, value)
           \/ \E step, seen : GoesOn(t, step, seen)
    <3>1. CASE Move(t)  BY <3>1, MoveActs
    <3>2. CASE ReadPage(t)  BY <3>2, ReadPageActs DEF tables
    <3> QED  BY <1>7, <3>1, <3>2
  <2>2. rows' = rows \/ RowMoved
    <3>1. CASE ReadPage(t)  BY <3>1, ReadPageActs DEF tables
    <3>2. CASE Move(t)
      <4> DEFINE r == Request(t).review
                 shown == rows[r].shown \/ Request(t).target = "published"
      <4>1. Request(t) \in Sent /\ Request(t).kind = "move"
        BY <3>2, MoveActs, SentRequests DEF Sched, Request
      <4>2. r \in Nat /\ Request(t).target \in Statuses  BY <4>1 DEF Sent
      <4>3. rows' = rows \/ rows' = [rows EXCEPT ![r].status = Request(t).target, ![r].shown = shown]
        BY <3>2, MoveActs
      <4>4. r \in DOMAIN rows => shown \in BOOLEAN
        <5>1. \A q \in DOMAIN rows : rows[q] \in Review  OBVIOUS
        <5> QED  BY <5>1 DEF Review
      <4> HIDE DEF r, shown
      <4> QED  BY <4>2, <4>3, <4>4 DEF RowMoved
    <3> QED  BY <1>7, <3>1, <3>2
  <2>3. /\ Sched' /\ Bookkept
        /\ Rests("create") /\ Rests("vote") /\ Rests("report") /\ Rests("register")
        /\ \A i \in DOMAIN answers' \ DOMAIN answers : i = work[t].request
    BY <1>a, <2>1
  <2>4. \A i \in DOMAIN answers' \ DOMAIN answers : answers'[i].status # "internal_error"
    <3>1. ASSUME NEW status \in {"ok", "conflict"}, NEW value, Answers(t, status, value)
          PROVE  answers'[work[t].request].status = status
      BY <3>1, AnswersKeep
    <3>2. CASE \E step, seen : GoesOn(t, step, seen)
      BY <3>2 DEF GoesOn
    <3>3. CASE ~\E step, seen : GoesOn(t, step, seen)
      <4>1. answers'[work[t].request].status \in {"ok", "conflict"}
        BY <2>1, <3>1, <3>3
      <4> QED  BY <2>3, <4>1
    <3> QED  BY <3>2, <3>3
  <2> QED  BY <2>1, <2>2, <2>3, <2>4
<1> HIDE DEF Goal
<1>8. Goal
  BY <1>1, <1>2, <1>3, <1>4, <1>5, <1>6, <1>7 DEF ContributionsNext
<1> QED  BY <1>8 DEF Goal

(***************************************************************************)
(* New reviews                                                             *)
(***************************************************************************)

\* The rows that were there when the request of t arrived do not have its key,
\* unless it is the empty one; they do not have its place, unless by a rejected
\* review.
KeyClaim(t) ==
  Request(t).key \notin {None, Empty} =>
    \A r \in DOMAIN rows : rows[r].key = Request(t).key => r > begun[work[t].request].rows

SlotClaim(t) ==
  \/ work[t].seen = {"rejected"}
  \/ \A r \in DOMAIN rows : SameSlot(rows[r], Request(t)) => r > begun[work[t].request].rows

CreateClaims(t) ==
  work[t] # Idle /\ Request(t).kind = "create" =>
    /\ work[t].step = "key" => Request(t).key \notin {None, Empty}
    /\ work[t].step \in {"policy", "insert"} => KeyClaim(t)
    /\ work[t].step = "insert" => SlotClaim(t)

\* A request that got a review has the row of its account and key, which was
\* there before every request that came after the answer.
RowOf(i) ==
  requests[i].kind = "create" /\ answers[i].status = "created" =>
    \E r \in DOMAIN rows :
      /\ answers[i] = [status |-> "created", value |-> r]
      /\ rows[r].key = requests[i].key /\ rows[r].account = requests[i].account
      /\ \A j \in DOMAIN begun : i \in Earlier(j) => r <= begun[j].rows

\* Requests without a key have each a row of its own.
OwnRows ==
  \A i, j \in DOMAIN answers :
    /\ i # j /\ Created(i) /\ Created(j) /\ requests[i].key = None /\ requests[j].key = None
    => answers[i].value # answers[j].value

CreateError(i) ==
  requests[i].kind = "create" /\ answers[i].status = "internal_error" =>
    \/ requests[i].body = "malformed" \/ requests[i].slot \notin Offered
    \/ requests[i].key = Empty /\ \E r \in DOMAIN rows : rows[r].key = Empty
    \/ answers[i].value = {"rejected"}
    \/ \E r \in (begun[i].rows + 1)..Len(rows) :
         SameSlot(rows[r], requests[i]) \/ rows[r].key = requests[i].key

RowsOK == rows \in Seq(Review) /\ UniqueReviews(rows)

RowsCounted == \A i \in DOMAIN begun : begun[i].rows \in 0..Len(rows)

CreateInv ==
  /\ RowsOK /\ RowsCounted
  /\ \A t \in Threads : CreateClaims(t)
  /\ \A i \in DOMAIN answers : RowOf(i) /\ CreateError(i)
  /\ OwnRows /\ RetryGetsSameReview

(***************************************************************************)
(* Votes                                                                   *)
(***************************************************************************)

VoteRow == [account : Accounts, review : Nat, helpful : BOOLEAN]

VotesOK ==
  /\ votes \in Seq(VoteRow)
  /\ \A v, w \in DOMAIN votes : v # w => \/ votes[v].account # votes[w].account
                                         \/ votes[v].review # votes[w].review

\* Vote v is the one that request i is about.
Concerns(v, i) == votes[v].account = requests[i].account /\ votes[v].review = requests[i].review

\* The vote of request j is stored.
Stands(j) == \E v \in DOMAIN votes : votes[v] = NewVote(requests[j])

\* A vote that no later one followed decides what is stored for request i; it
\* was cast after that request came.
Ruling(j, i) == j \in DOMAIN answers /\ Latest(j) /\ SameVote(i, j) /\ Stands(j)
Overruled(i) == \E j \in DOMAIN answers : Ruling(j, i) /\ j \notin Earlier(i)

\* What t has read of the votes is still so: that they are the account's; that
\* there was none at its arrival; and their value, unless it was overruled.
VoteClaims(t) ==
  \A i \in DOMAIN begun :
    work[t] # Idle /\ work[t].request = i /\ requests[i].kind = "vote" /\ work[t].step = "write" =>
    LET mine == DOMAIN work[t].seen
    IN  /\ \A v \in mine : v \in DOMAIN votes /\ Concerns(v, i)
        /\ mine = {} => \A v \in DOMAIN votes : Concerns(v, i) => v > begun[i].votes
        /\ \A v \in mine : votes[v].helpful = work[t].seen[v] \/ Overruled(i)

VoteError(i) ==
  requests[i].kind = "vote" /\ answers[i].status = "internal_error" =>
    \E v \in (begun[i].votes + 1)..Len(votes) : Concerns(v, i)

VoteStands(i) == Voted(i) => \E j \in DOMAIN answers : Ruling(j, i)

\* Of two requests one came when the other's predecessors were answered.
Arrivals == \A i, j \in DOMAIN begun : Earlier(i) \subseteq Earlier(j) \/ Earlier(j) \subseteq Earlier(i)

VotesCounted == \A i \in DOMAIN begun : begun[i].votes \in 0..Len(votes)

VoteInv ==
  /\ VotesOK /\ VotesCounted /\ Arrivals
  /\ \A t \in Threads : VoteClaims(t)
  /\ \A i \in DOMAIN answers : VoteError(i) /\ VoteStands(i)

(***************************************************************************)
(* Reports                                                                 *)
(***************************************************************************)

ReportRow == [account : Accounts, review : Nat, request : Nat]

\* Two reports of one account on one review overlapped.
ReportsOK ==
  /\ reports \in Seq(ReportRow)
  /\ \A p \in DOMAIN reports : reports[p].request \in DOMAIN begun
  /\ \A p, q \in DOMAIN reports :
       p < q /\ reports[p].account = reports[q].account /\ reports[p].review = reports[q].review
       => begun[reports[q].request].reports < p

ReportClaims(t) ==
  work[t] # Idle /\ Request(t).kind = "report" /\ work[t].step = "write" =>
    \A p \in DOMAIN reports :
      reports[p].account = Request(t).account /\ reports[p].review = Request(t).review
      => p > begun[work[t].request].reports

ReportsCounted == \A i \in DOMAIN begun : begun[i].reports \in 0..Len(reports)

ReportInv == ReportsOK /\ ReportsCounted /\ \A t \in Threads : ReportClaims(t)

(***************************************************************************)
(* Accounts                                                                *)
(***************************************************************************)

EmailsOK ==
  /\ emails \in Seq(Addresses)
  /\ \A m, n \in DOMAIN emails : m # n => emails[m] # emails[n]

RegisterClaims(t) ==
  work[t] # Idle /\ Request(t).kind = "register" /\ work[t].step = "write" =>
    \A n \in DOMAIN emails : emails[n] = Request(t).email => n > begun[work[t].request].emails

RegisterError(i) ==
  requests[i].kind = "register" /\ answers[i].status = "internal_error" =>
    \E n \in (begun[i].emails + 1)..Len(emails) : emails[n] = requests[i].email

EmailsCounted == \A i \in DOMAIN begun : begun[i].emails \in 0..Len(emails)

RegisterInv ==
  /\ EmailsOK /\ EmailsCounted
  /\ \A t \in Threads : RegisterClaims(t)
  /\ \A i \in DOMAIN answers : RegisterError(i)

\* What a reader has got is in order and stands before everything its cursor
\* leaves; what was public all the time is among the two.
Reads(seen) ==
  /\ seen \in [items : Seq(DOMAIN rows), cursor : DOMAIN rows \cup {None},
               steady : SUBSET Public(rows)]
  /\ \A k, l \in DOMAIN seen.items : k < l => Newer(seen.items[k], seen.items[l])
  /\ \A k \in DOMAIN seen.items :
       /\ seen.cursor # None
       /\ seen.items[k] = seen.cursor \/ Newer(seen.items[k], seen.cursor)
  /\ \A s \in seen.steady : Past(s, seen.cursor) \/ s \in Range(seen.items)

ReadClaims(t) == work[t] # Idle /\ Request(t).kind = "read" => Reads(work[t].seen)

ReadInv == PagingComplete /\ \A t \in Threads : ReadClaims(t)

OtherError(i) ==
  answers[i].status = "internal_error" => requests[i].kind \in {"create", "vote", "register"}

ContributionsInv ==
  /\ Sched /\ CreateInv /\ VoteInv /\ ReportInv /\ RegisterInv /\ ReadInv
  /\ \A i \in DOMAIN answers : OtherError(i)

(***************************************************************************)
(* Preservation                                                            *)
(***************************************************************************)

\* A thread that works has a request that arrived and is not answered.
LEMMA Working ==
  ASSUME Sched, NEW t \in Threads, work[t] # Idle
  PROVE  /\ work[t].request \in DOMAIN begun /\ work[t].request \in DOMAIN requests
         /\ work[t].request \notin DOMAIN answers
         /\ Request(t) = requests[work[t].request] /\ Request(t) \in Sent
BY SentRequests DEF Sched, Request

\* Thread u is where it was.
Still(u) ==
  /\ work[u] # Idle /\ work'[u].request = work[u].request
  /\ work'[u].step = work[u].step /\ work'[u].seen = work[u].seen

LEMMA OthersStill ==
  ASSUME NEW t \in Threads, OthersWait(t), scenario' = scenario,
         NEW u \in Threads, u # t, work'[u] # Idle, Request(u)'.kind # "read"
  PROVE  Still(u) /\ Request(u)' = Request(u)
<1>1. work[u] # Idle /\ work'[u].request = work[u].request  BY DEF OthersWait
<1>2. Request(u)' = Request(u)  BY <1>1, RequestStays
<1> QED  BY <1>1, <1>2 DEF OthersWait, Still

LEMMA StillRequest ==
  ASSUME NEW u, Still(u), Bookkept
  PROVE  Request(u)' = Request(u) /\ requests' = requests
BY DEF Still, Bookkept, Request, requests

\* A table with one row more.
Grown(old, more, S, new) ==
  /\ more \in Seq(S) /\ Len(old) \in Nat /\ Len(more) \in Nat /\ Len(more) = Len(old) + 1
  /\ DOMAIN old = 1..Len(old) /\ DOMAIN more = 1..Len(more)
  /\ \A n \in DOMAIN old : n \in DOMAIN more /\ more[n] = old[n]
  /\ \A n \in DOMAIN more : n \notin DOMAIN old => n = Len(old) + 1 /\ more[n] = new

LEMMA Appended ==
  ASSUME NEW S, NEW old \in Seq(S), NEW new \in S, NEW more, more = Append(old, new)
  PROVE  Grown(old, more, S, new)
<1>1. /\ Append(old, new) \in Seq(S) /\ Len(Append(old, new)) = Len(old) + 1
      /\ Len(old) \in Nat /\ DOMAIN old = 1..Len(old)
  OBVIOUS
<1>2. /\ \A n \in 1..Len(old) : Append(old, new)[n] = old[n]
      /\ Append(old, new)[Len(old) + 1] = new
  OBVIOUS
<1>3. DOMAIN more = 1..(Len(old) + 1)  BY <1>1
<1>4. \A n \in DOMAIN old : n \in DOMAIN more /\ more[n] = old[n]  BY <1>1, <1>2, <1>3
<1>5. \A n \in DOMAIN more : n \notin DOMAIN old => n = Len(old) + 1  BY <1>1, <1>3
<1> QED  BY <1>1, <1>2, <1>3, <1>4, <1>5 DEF Grown

LEMMA RegisterStep ==
  ASSUME Sched, Sched', Bookkept, RegisterInv,
         \/ \E t \in Threads : RegisterRead(t) \/ RegisterWrite(t)
         \/ Rests("register") /\ emails' = emails
  PROVE  RegisterInv'
<1>0. /\ emails \in Seq(Addresses) /\ Len(emails) \in Nat
      /\ DOMAIN emails = 1..Len(emails)
      /\ \A i \in DOMAIN begun : begun[i].emails \in 0..Len(emails) /\ begun'[i] = begun[i]
      /\ requests' = requests
  BY DEF RegisterInv, EmailsOK, EmailsCounted, Bookkept, requests
\* What every step does to the addresses: nothing, or one more that is new.
<1>1. CASE Rests("register") /\ emails' = emails
  <2>1. EmailsOK'  BY <1>1 DEF RegisterInv, EmailsOK
  <2>2. EmailsCounted'
    <3>1. ASSUME NEW i \in DOMAIN begun' PROVE begun'[i].emails \in 0..Len(emails)
      <4>1. CASE i \in DOMAIN begun  BY <1>0, <4>1
      <4>2. CASE i \notin DOMAIN begun
        <5>1. begun'[i].emails = Len(emails)  BY <1>1, <4>2 DEF Rests
        <5> QED  BY <1>0, <5>1
      <4> QED  BY <4>1, <4>2
    <3> QED  BY <1>1, <3>1 DEF EmailsCounted
  <2>3. ASSUME NEW t \in Threads PROVE RegisterClaims(t)'
    <3> SUFFICES ASSUME work'[t] # Idle, Request(t)'.kind = "register", work'[t].step = "write"
                 PROVE  \A n \in DOMAIN emails : emails[n] = Request(t)'.email =>
                          n > begun'[work'[t].request].emails
      BY <1>1 DEF RegisterClaims
    <3>1. /\ work[t] # Idle /\ work'[t].request = work[t].request /\ work[t].step = "write"
      BY <1>1 DEF Rests
    <3>2. Request(t)' = Request(t)  BY <3>1, RequestStays DEF Bookkept
    <3>3. begun'[work'[t].request] = begun[work[t].request]  BY <1>0, <3>1, Working
    <3> QED  BY <3>1, <3>2, <3>3 DEF RegisterInv, RegisterClaims
  <2>4. ASSUME NEW i \in DOMAIN answers' PROVE RegisterError(i)'
    <3>1. CASE requests[i].kind = "register"
      <4>1. i \in DOMAIN answers /\ i \in DOMAIN begun  BY <1>1, <3>1 DEF Rests, Sched
      <4>2. answers'[i] = answers[i] /\ begun'[i] = begun[i]  BY <4>1 DEF Bookkept
      <4> QED  BY <1>0, <1>1, <4>1, <4>2 DEF RegisterInv, RegisterError
    <3>2. CASE requests[i].kind # "register"  BY <1>0, <3>2 DEF RegisterError
    <3> QED  BY <3>1, <3>2
  <2> QED  BY <2>1, <2>2, <2>3, <2>4 DEF RegisterInv
<1>2. ASSUME NEW t \in Threads, RegisterRead(t) PROVE RegisterInv'
  <2>1. /\ work[t] # Idle /\ Request(t).kind = "register" /\ UNCHANGED emails
        /\ \/ Answers(t, "conflict", None)
           \/ /\ \A n \in DOMAIN emails : emails[n] # Request(t).email
              /\ GoesOn(t, "write", None)
    BY <1>2, RegisterReadActs DEF tables
  <2>2. EmailsOK' /\ EmailsCounted'
    <3>1. begun' = begun  BY <2>1 DEF Answers, GoesOn
    <3> QED  BY <2>1, <3>1 DEF RegisterInv, EmailsOK, EmailsCounted
  <2>3. OthersWait(t) /\ scenario' = scenario /\ begun' = begun
    BY <2>1 DEF Answers, GoesOn
  <2>4. ASSUME NEW u \in Threads PROVE RegisterClaims(u)'
    <3> SUFFICES ASSUME work'[u] # Idle, Request(u)'.kind = "register", work'[u].step = "write"
                 PROVE  \A n \in DOMAIN emails : emails[n] = Request(u)'.email =>
                          n > begun[work'[u].request].emails
      BY <2>1, <2>3 DEF RegisterClaims
    <3>1. CASE u = t
      <4>1. GoesOn(t, "write", None)  BY <2>1, <3>1 DEF Answers
      <4>2. Request(u)' = Request(u)  BY <3>1, <4>1, RequestStays DEF GoesOn
      <4>3. \A n \in DOMAIN emails : emails[n] # Request(t).email
        BY <2>1, <3>1 DEF Answers
      <4> QED  BY <3>1, <4>2, <4>3
    <3>2. CASE u # t
      <4>1. Still(u) /\ Request(u)' = Request(u)  BY <2>3, <3>2, OthersStill
      <4> QED  BY <4>1 DEF RegisterInv, RegisterClaims, Still
    <3> QED  BY <3>1, <3>2
  <2>5. ASSUME NEW i \in DOMAIN answers' PROVE RegisterError(i)'
    <3>1. CASE i \in DOMAIN answers
      <4>1. answers'[i] = answers[i]  BY <3>1 DEF Bookkept
      <4> QED  BY <1>0, <2>1, <2>3, <3>1, <4>1 DEF RegisterInv, RegisterError
    <3>2. CASE i \notin DOMAIN answers
      <4>1. Answers(t, "conflict", None)  BY <2>1, <3>2 DEF GoesOn
      <4>2. i = work[t].request  BY <3>2, <4>1, AnswersKeep
      <4>3. answers'[i].status = "conflict"  BY <4>1, <4>2, AnswersKeep
      <4> QED  BY <4>3 DEF RegisterError
    <3> QED  BY <3>1, <3>2
  <2> QED  BY <2>2, <2>4, <2>5 DEF RegisterInv
<1>3. ASSUME NEW t \in Threads, RegisterWrite(t) PROVE RegisterInv'
  <2>1. /\ work[t] # Idle /\ Request(t).kind = "register" /\ work[t].step = "write"
        /\ \/ /\ emails' = emails /\ Answers(t, "internal_error", None)
              /\ \E n \in DOMAIN emails : emails[n] = Request(t).email
           \/ /\ emails' = Append(emails, Request(t).email)
              /\ Answers(t, "created", Len(emails) + 1)
              /\ \A n \in DOMAIN emails : emails[n] # Request(t).email
    BY <1>3, RegisterWriteActs
  <2>2. OthersWait(t) /\ scenario' = scenario /\ begun' = begun /\ work'[t] = Idle
    BY <2>1 DEF Answers
  <2>3. Request(t).email \in Addresses /\ Request(t) = requests[work[t].request]
        /\ work[t].request \in DOMAIN begun
    BY <2>1, Working DEF Sent
  <2>4. /\ emails' \in Seq(Addresses) /\ Len(emails') \in Nat /\ Len(emails') >= Len(emails)
        /\ DOMAIN emails' = 1..Len(emails')
        /\ \A n \in DOMAIN emails : n \in DOMAIN emails' /\ emails'[n] = emails[n]
        /\ \A n \in DOMAIN emails' : n \notin DOMAIN emails =>
             /\ n = Len(emails) + 1 /\ emails'[n] = Request(t).email
             /\ \A m \in DOMAIN emails : emails[m] # Request(t).email
    <3>1. CASE emails' = emails  BY <1>0, <3>1
    <3>2. CASE /\ emails' = Append(emails, Request(t).email)
               /\ \A n \in DOMAIN emails : emails[n] # Request(t).email
      <4>1. Grown(emails, emails', Addresses, Request(t).email)
        BY <1>0, <2>3, <3>2, Appended
      <4>2. /\ emails' \in Seq(Addresses) /\ Len(emails') \in Nat /\ DOMAIN emails' = 1..Len(emails')
            /\ \A n \in DOMAIN emails : n \in DOMAIN emails' /\ emails'[n] = emails[n]
            /\ \A n \in DOMAIN emails' : n \notin DOMAIN emails =>
                 n = Len(emails) + 1 /\ emails'[n] = Request(t).email
        BY <4>1 DEF Grown
      <4>3. Len(emails') >= Len(emails)  BY <4>1 DEF Grown
      <4> QED  BY <3>2, <4>2, <4>3
    <3> QED  BY <2>1, <3>1, <3>2
  <2>5. EmailsOK'
    BY <1>0, <2>4 DEF RegisterInv, EmailsOK
  <2>6. EmailsCounted'  BY <1>0, <2>2, <2>4 DEF EmailsCounted
  <2>7. ASSUME NEW u \in Threads PROVE RegisterClaims(u)'
    <3> SUFFICES ASSUME work'[u] # Idle, Request(u)'.kind = "register", work'[u].step = "write",
                        NEW n \in DOMAIN emails', emails'[n] = Request(u)'.email
                 PROVE  n > begun[work'[u].request].emails
      BY <2>2 DEF RegisterClaims
    <3>1. u # t /\ Still(u) /\ Request(u)' = Request(u)  BY <2>2, OthersStill
    <3>2. work[u] # Idle /\ work[u].step = "write" /\ work'[u].request = work[u].request
      BY <3>1 DEF Still
    <3>3. begun[work[u].request].emails \in 0..Len(emails)  BY <1>0, <3>2, Working
    <3>4. CASE n \in DOMAIN emails
      BY <2>4, <3>1, <3>2, <3>4 DEF RegisterInv, RegisterClaims
    <3>5. CASE n \notin DOMAIN emails
      BY <1>0, <2>4, <3>2, <3>3, <3>5
    <3> QED  BY <3>4, <3>5
  <2>8. ASSUME NEW i \in DOMAIN answers' PROVE RegisterError(i)'
    <3>1. CASE i \in DOMAIN answers
      <4>1. answers'[i] = answers[i] /\ i \in DOMAIN begun  BY <3>1 DEF Bookkept, Sched
      <4> SUFFICES ASSUME requests[i].kind = "register", answers[i].status = "internal_error"
                   PROVE  \E n \in (begun[i].emails + 1)..Len(emails') :
                            emails'[n] = requests[i].email
        BY <1>0, <2>2, <4>1 DEF RegisterError
      <4>2. PICK n \in (begun[i].emails + 1)..Len(emails) : emails[n] = requests[i].email
        BY <3>1 DEF RegisterInv, RegisterError
      <4>3. n \in DOMAIN emails /\ n \in (begun[i].emails + 1)..Len(emails')
        BY <1>0, <2>4, <4>1, <4>2
      <4> QED  BY <2>4, <4>2, <4>3
    <3>2. CASE i \notin DOMAIN answers
      <4>1. i = work[t].request  BY <2>1, <3>2, AnswersKeep
      <4>2. CASE Answers(t, "created", Len(emails) + 1)
        <5>1. answers'[i].status = "created"  BY <4>1, <4>2, AnswersKeep
        <5> QED  BY <5>1 DEF RegisterError
      <4>3. CASE emails' = emails /\ \E n \in DOMAIN emails : emails[n] = Request(t).email
        <5>1. PICK n \in DOMAIN emails : emails[n] = Request(t).email  BY <4>3
        <5>2. n > begun[i].emails  BY <2>1, <4>1, <5>1 DEF RegisterInv, RegisterClaims
        <5>3. n \in (begun[i].emails + 1)..Len(emails)  BY <1>0, <2>3, <4>1, <5>2
        <5>4. requests[i].email = emails[n]  BY <2>3, <4>1, <5>1
        <5> QED  BY <1>0, <2>2, <4>3, <5>3, <5>4 DEF RegisterError
      <4> QED  BY <2>1, <4>2, <4>3
    <3> QED  BY <3>1, <3>2
  <2> QED  BY <2>5, <2>6, <2>7, <2>8 DEF RegisterInv
<1> QED  BY <1>1, <1>2, <1>3

LEMMA ReportStep ==
  ASSUME Sched, Sched', Bookkept, ReportInv,
         \/ \E t \in Threads : ReportRead(t) \/ ReportWrite(t)
         \/ Rests("report") /\ reports' = reports
  PROVE  ReportInv'
<1>0. /\ reports \in Seq(ReportRow) /\ Len(reports) \in Nat
      /\ DOMAIN reports = 1..Len(reports)
      /\ \A i \in DOMAIN begun : /\ begun[i].reports \in 0..Len(reports)
                                 /\ i \in DOMAIN begun' /\ begun'[i] = begun[i]
      /\ requests' = requests
  BY DEF ReportInv, ReportsOK, ReportsCounted, Bookkept, requests
<1>1. ASSUME reports' = reports PROVE ReportsOK'
  <2>1. /\ reports' \in Seq(ReportRow)
        /\ \A p \in DOMAIN reports : reports[p].request \in DOMAIN begun
    BY <1>0, <1>1 DEF ReportInv, ReportsOK
  <2>2. \A p \in DOMAIN reports' : reports'[p].request \in DOMAIN begun'  BY <1>0, <1>1, <2>1
  <2>3. ASSUME NEW p \in DOMAIN reports, NEW q \in DOMAIN reports, p < q,
               reports[p].account = reports[q].account, reports[p].review = reports[q].review
        PROVE  begun'[reports[q].request].reports < p
    <3>1. begun[reports[q].request].reports < p  BY <2>3 DEF ReportInv, ReportsOK
    <3> QED  BY <1>0, <2>1, <3>1
  <2> QED  BY <1>1, <2>1, <2>2, <2>3 DEF ReportsOK
<1>2. CASE Rests("report") /\ reports' = reports
  <2>1. ReportsCounted'
    <3>1. ASSUME NEW i \in DOMAIN begun' PROVE begun'[i].reports \in 0..Len(reports)
      <4>1. CASE i \in DOMAIN begun  BY <1>0, <4>1
      <4>2. CASE i \notin DOMAIN begun
        <5>1. begun'[i].reports = Len(reports)  BY <1>2, <4>2 DEF Rests
        <5> QED  BY <1>0, <5>1
      <4> QED  BY <4>1, <4>2
    <3> QED  BY <1>2, <3>1 DEF ReportsCounted
  <2>2. ASSUME NEW t \in Threads PROVE ReportClaims(t)'
    <3> SUFFICES ASSUME work'[t] # Idle, Request(t)'.kind = "report", work'[t].step = "write"
                 PROVE  \A p \in DOMAIN reports :
                          /\ reports[p].account = Request(t)'.account
                          /\ reports[p].review = Request(t)'.review
                          => p > begun'[work'[t].request].reports
      BY <1>2 DEF ReportClaims
    <3>1. /\ work[t] # Idle /\ work'[t].request = work[t].request /\ work[t].step = "write"
      BY <1>2 DEF Rests
    <3>2. Request(t)' = Request(t)  BY <3>1, RequestStays DEF Bookkept
    <3>3. begun'[work'[t].request] = begun[work[t].request]  BY <1>0, <3>1, Working
    <3> QED  BY <3>1, <3>2, <3>3 DEF ReportInv, ReportClaims
  <2> QED  BY <1>1, <1>2, <2>1, <2>2 DEF ReportInv
<1>3. ASSUME NEW t \in Threads, ReportRead(t) PROVE ReportInv'
  <2>1. /\ work[t] # Idle /\ Request(t).kind = "report" /\ UNCHANGED reports
        /\ \/ \E status, value : Answers(t, status, value)
           \/ /\ \A p \in DOMAIN reports : \/ reports[p].account # Request(t).account
                                           \/ reports[p].review # Request(t).review
              /\ GoesOn(t, "write", None)
    BY <1>3, ReportReadActs DEF tables
  <2>2. OthersWait(t) /\ scenario' = scenario /\ begun' = begun
    BY <2>1 DEF Answers, GoesOn
  <2>3. ReportsCounted'  BY <2>1, <2>2 DEF ReportInv, ReportsCounted
  <2>4. ASSUME NEW u \in Threads PROVE ReportClaims(u)'
    <3> SUFFICES ASSUME work'[u] # Idle, Request(u)'.kind = "report", work'[u].step = "write",
                        NEW p \in DOMAIN reports, reports[p].account = Request(u)'.account,
                        reports[p].review = Request(u)'.review
                 PROVE  p > begun[work'[u].request].reports
      BY <2>1, <2>2 DEF ReportClaims
    <3>1. CASE u = t
      <4>1. /\ \A q \in DOMAIN reports : \/ reports[q].account # Request(t).account
                                         \/ reports[q].review # Request(t).review
            /\ GoesOn(t, "write", None)
        BY <2>1, <3>1 DEF Answers
      <4>2. Request(u)' = Request(u)  BY <3>1, <4>1, RequestStays DEF GoesOn
      <4> QED  BY <3>1, <4>1, <4>2
    <3>2. CASE u # t
      <4>1. Still(u) /\ Request(u)' = Request(u)  BY <2>2, <3>2, OthersStill
      <4> QED  BY <4>1 DEF ReportInv, ReportClaims, Still
    <3> QED  BY <3>1, <3>2
  <2> QED  BY <1>1, <2>1, <2>3, <2>4 DEF ReportInv
<1>4. ASSUME NEW t \in Threads, ReportWrite(t) PROVE ReportInv'
  <2> DEFINE new == [account |-> Request(t).account, review |-> Request(t).review,
                     request |-> work[t].request]
  <2>1. /\ work[t] # Idle /\ Request(t).kind = "report" /\ work[t].step = "write"
        /\ Answers(t, "created", Len(reports) + 1) /\ reports' = Append(reports, new)
    BY <1>4, ReportWriteActs
  <2>2. OthersWait(t) /\ scenario' = scenario /\ begun' = begun /\ work'[t] = Idle
    BY <2>1 DEF Answers
  <2>3. /\ Request(t).account \in Accounts /\ Request(t).review \in Nat
        /\ work[t].request \in DOMAIN begun /\ work[t].request \in Nat
    BY <2>1, Working, SentRequests DEF Sent, Sched
  <2>4. /\ new \in ReportRow /\ new.account = Request(t).account
        /\ new.review = Request(t).review /\ new.request = work[t].request
    BY <2>3 DEF ReportRow
  <2> HIDE DEF new
  <2>5. Grown(reports, reports', ReportRow, new)  BY <1>0, <2>1, <2>4, Appended
  <2>6. /\ reports' \in Seq(ReportRow) /\ Len(reports') \in Nat /\ DOMAIN reports' = 1..Len(reports')
        /\ \A p \in DOMAIN reports : p \in DOMAIN reports' /\ reports'[p] = reports[p]
        /\ \A p \in DOMAIN reports' : p \notin DOMAIN reports =>
             p = Len(reports) + 1 /\ reports'[p] = new
        /\ Len(reports') = Len(reports) + 1
    BY <2>5 DEF Grown
  <2>7. ReportsOK'
    <3>1. ASSUME NEW p \in DOMAIN reports' PROVE reports'[p].request \in DOMAIN begun
      BY <2>3, <2>4, <2>6 DEF ReportInv, ReportsOK
    <3>2. ASSUME NEW p \in DOMAIN reports', NEW q \in DOMAIN reports', p < q,
                 reports'[p].account = reports'[q].account, reports'[p].review = reports'[q].review
          PROVE  begun[reports'[q].request].reports < p
      <4>1. p \in DOMAIN reports  BY <1>0, <2>6, <3>2
      <4>2. CASE q \in DOMAIN reports
        BY <2>6, <3>2, <4>1, <4>2 DEF ReportInv, ReportsOK
      <4>3. CASE q \notin DOMAIN reports
        <5>1. p > begun[work[t].request].reports
          BY <2>1, <2>4, <2>6, <3>2, <4>1, <4>3 DEF ReportInv, ReportClaims
        <5>2. begun[work[t].request].reports \in Nat /\ p \in Nat  BY <1>0, <2>3, <4>1
        <5> QED  BY <2>4, <2>6, <4>3, <5>1, <5>2
      <4> QED  BY <4>2, <4>3
    <3> QED  BY <2>2, <2>6, <3>1, <3>2 DEF ReportsOK
  <2>8. ReportsCounted'  BY <1>0, <2>2, <2>6 DEF ReportsCounted
  <2>9. ASSUME NEW u \in Threads PROVE ReportClaims(u)'
    <3> SUFFICES ASSUME work'[u] # Idle, Request(u)'.kind = "report", work'[u].step = "write",
                        NEW p \in DOMAIN reports', reports'[p].account = Request(u)'.account,
                        reports'[p].review = Request(u)'.review
                 PROVE  p > begun[work'[u].request].reports
      BY <2>2 DEF ReportClaims
    <3>1. u # t /\ Still(u) /\ Request(u)' = Request(u)  BY <2>2, OthersStill
    <3>2. work[u] # Idle /\ work[u].step = "write" /\ work'[u].request = work[u].request
      BY <3>1 DEF Still
    <3>3. begun[work[u].request].reports \in 0..Len(reports)  BY <1>0, <3>2, Working
    <3>4. CASE p \in DOMAIN reports
      BY <2>6, <3>1, <3>2, <3>4 DEF ReportInv, ReportClaims
    <3>5. CASE p \notin DOMAIN reports
      BY <1>0, <2>6, <3>2, <3>3, <3>5
    <3> QED  BY <3>4, <3>5
  <2> QED  BY <2>7, <2>8, <2>9 DEF ReportInv
<1> QED  BY <1>2, <1>3, <1>4

\* What a write of the vote of request i does to the table.
VoteWritten(i) ==
  /\ Len(votes) \in Nat /\ Len(votes') \in Nat /\ Len(votes') >= Len(votes)
  /\ DOMAIN votes = 1..Len(votes) /\ DOMAIN votes' = 1..Len(votes')
  /\ \A v \in DOMAIN votes : v \in DOMAIN votes'
  /\ \A v \in DOMAIN votes : \/ votes'[v] = votes[v]
                             \/ Concerns(v, i) /\ votes'[v] = NewVote(requests[i])
  /\ \A v \in DOMAIN votes' : v \notin DOMAIN votes =>
       v = Len(votes) + 1 /\ votes'[v] = NewVote(requests[i])

LEMMA NewVoteIs ==
  ASSUME NEW i \in DOMAIN begun, Sched, requests[i].kind = "vote"
  PROVE  /\ NewVote(requests[i]) \in VoteRow
         /\ NewVote(requests[i]).account = requests[i].account
         /\ NewVote(requests[i]).review = requests[i].review
         /\ NewVote(requests[i]).helpful = requests[i].helpful
<1>1. requests[i] \in Sent  BY SentRequests DEF Sched
<1>2. /\ requests[i].account \in Accounts /\ requests[i].review \in Nat
      /\ requests[i].helpful \in BOOLEAN
  BY <1>1 DEF Sent
<1> QED  BY <1>2 DEF NewVote, VoteRow

\* Request i is answered now: its vote is stored, or one that it did not follow
\* and could not know of, or it was refused.
VoteOutcome(i) ==
  \/ Voted(i)' /\ Stands(i)'
  \/ Voted(i)' /\ votes' = votes /\ Overruled(i)
  \/ ~Voted(i)' /\ votes' = votes

\* The answered requests are what they were.
LEMMA VotedStays ==
  ASSUME Sched, Bookkept, NEW j \in DOMAIN answers
  PROVE  /\ Voted(j)' <=> Voted(j)
         /\ j \in DOMAIN begun /\ Earlier(j)' = Earlier(j)
         /\ \A i : SameVote(i, j)' <=> SameVote(i, j)
         /\ \A i : SameVote(j, i)' <=> SameVote(j, i)
BY DEF Sched, Bookkept, Voted, Earlier, SameVote, requests

\* A vote that stands is not overtaken by who did not know of it.
LEMMA LatestStays ==
  ASSUME Sched, Bookkept, NEW j \in DOMAIN answers, Latest(j),
         \A k \in DOMAIN answers' \ DOMAIN answers :
           Voted(k)' /\ SameVote(j, k) => j \notin Earlier(k)'
  PROVE  Latest(j)'
<1>1. Voted(j)'  BY VotedStays DEF Latest
<1>2. requests' = requests  BY DEF Bookkept, requests
<1>3. ASSUME NEW k \in DOMAIN answers', Voted(k)', SameVote(j, k)' PROVE j \notin Earlier(k)'
  <2>1. CASE k \in DOMAIN answers  BY <1>3, <2>1, VotedStays DEF Latest
  <2>2. CASE k \notin DOMAIN answers
    <3>1. SameVote(j, k)  BY <1>2, <1>3 DEF SameVote
    <3> QED  BY <1>3, <2>2, <3>1
  <2> QED  BY <2>1, <2>2
<1> QED  BY <1>1, <1>3 DEF Latest

\* What holds of the votes that stand goes on to hold.
LEMMA VotesRuled ==
  ASSUME Sched, Sched', Bookkept, VoteInv, begun' = begun,
         NEW i \in DOMAIN begun, i \notin DOMAIN answers, requests[i].kind = "vote",
         VoteWritten(i), DOMAIN answers' = DOMAIN answers \cup {i}, VoteOutcome(i)
  PROVE  /\ \A x : \A k \in DOMAIN begun, v \in DOMAIN votes :
              Concerns(v, k) /\ (votes[v].helpful = x \/ Overruled(k))
              => votes'[v].helpful = x \/ Overruled(k)'
         /\ \A k \in DOMAIN answers' : VoteStands(k)'
<1>0. requests' = requests /\ i \in DOMAIN answers'
  BY DEF Bookkept, requests
<1>1. \A k \in DOMAIN begun : i \notin Earlier(k) /\ Earlier(k)' = Earlier(k)
  BY DEF Sched, Earlier
<1>2. /\ NewVote(requests[i]).account = requests[i].account
      /\ NewVote(requests[i]).review = requests[i].review
  BY NewVoteIs
<1>3. \A j, k : SameVote(j, k)' <=> SameVote(j, k)  BY <1>0 DEF SameVote
<1>4. ASSUME NEW j \in DOMAIN answers, Latest(j), Voted(i)' /\ SameVote(j, i) => j \notin Earlier(i)
      PROVE  Latest(j)'
  <2>1. ASSUME NEW k \in DOMAIN answers' \ DOMAIN answers, Voted(k)' /\ SameVote(j, k)
        PROVE  j \notin Earlier(k)'
    <3>1. k = i  OBVIOUS
    <3> QED  BY <1>1, <1>4, <2>1, <3>1
  <2> QED  BY <1>4, <2>1, LatestStays
<1>5. ASSUME NEW j \in DOMAIN answers, Voted(j), Stands(j), ~SameVote(i, j) \/ votes' = votes
      PROVE  Stands(j)'
  <2>1. PICK v \in DOMAIN votes : votes[v] = NewVote(requests[j])  BY <1>5 DEF Stands
  <2>2. j \in DOMAIN begun /\ requests[j].kind = "vote"  BY <1>5 DEF Sched, Voted
  <2>3. votes[v].account = requests[j].account /\ votes[v].review = requests[j].review
    BY <2>1, <2>2, NewVoteIs
  <2>4. v \in DOMAIN votes' /\ votes'[v] = votes[v]
    BY <1>5, <2>3 DEF VoteWritten, Concerns, SameVote
  <2> QED  BY <1>0, <2>1, <2>4 DEF Stands
\* Votes of others, and of this one if no new vote is stored.
<1>6. ASSUME NEW k, NEW j \in DOMAIN answers, Ruling(j, k), ~SameVote(i, k) \/ votes' = votes,
             Voted(i)' /\ SameVote(j, i) => j \notin Earlier(i)
      PROVE  Ruling(j, k)'
  <2>1. Voted(j) /\ Latest(j) /\ SameVote(k, j) /\ Stands(j)  BY <1>6 DEF Ruling, Latest
  <2>2. Latest(j)'  BY <1>4, <1>6, <2>1
  <2>3. ~SameVote(i, j) \/ votes' = votes  BY <1>6, <2>1 DEF SameVote
  <2>4. Stands(j)'  BY <1>5, <2>1, <2>3
  <2> QED  BY <1>3, <2>1, <2>2, <2>4 DEF Ruling, Bookkept
\* Nothing follows request i yet.
<1>7. ASSUME Voted(i)' PROVE Latest(i)'
  <2>1. \A k \in DOMAIN answers' : i \notin Earlier(k)'
    BY <1>1 DEF Sched
  <2> QED  BY <1>7, <2>1 DEF Latest
<1>8. ASSUME NEW k \in DOMAIN begun, NEW v \in DOMAIN votes, NEW x, Concerns(v, k),
             votes[v].helpful = x \/ Overruled(k), votes'[v].helpful # x
      PROVE  Overruled(k)'
  <2>1. ASSUME NEW j \in DOMAIN answers', Ruling(j, k)', j \notin Earlier(k) PROVE Overruled(k)'
    BY <1>1, <2>1 DEF Overruled
  <2>2. CASE votes'[v] # votes[v]
    <3>1. Voted(i)' /\ Stands(i)'  BY <2>2 DEF VoteOutcome
    <3>2. SameVote(k, i)  BY <1>8, <2>2 DEF VoteWritten, Concerns, SameVote
    <3>3. Ruling(i, k)'  BY <1>0, <1>3, <1>7, <3>1, <3>2 DEF Ruling
    <3> QED  BY <1>0, <1>1, <2>1, <3>3
  <2>3. CASE votes'[v] = votes[v]
    <3>1. PICK j \in DOMAIN answers : Ruling(j, k) /\ j \notin Earlier(k)
      BY <1>8, <2>3 DEF Overruled
    <3>2. j \in DOMAIN answers'  BY DEF Bookkept
    <3>3. SameVote(k, j)  BY <3>1 DEF Ruling
    <3>4. CASE ~SameVote(i, k)
      <4>1. ~SameVote(j, i)  BY <3>3, <3>4 DEF SameVote
      <4> QED  BY <1>6, <2>1, <3>1, <3>2, <3>4, <4>1
    <3>5. CASE SameVote(i, k) /\ Voted(i)' /\ Stands(i)'
      <4>1. SameVote(k, i)  BY <3>5 DEF SameVote
      <4>2. Ruling(i, k)'  BY <1>0, <1>3, <1>7, <3>5, <4>1 DEF Ruling
      <4> QED  BY <1>0, <1>1, <2>1, <4>2
    <3>6. CASE SameVote(i, k) /\ Voted(i)' /\ votes' = votes /\ Overruled(i)
      <4>1. PICK w \in DOMAIN answers : Ruling(w, i) /\ w \notin Earlier(i)  BY <3>6 DEF Overruled
      <4>2. CASE j \notin Earlier(i)  BY <1>6, <2>1, <3>1, <3>2, <3>6, <4>2
      <4>3. CASE j \in Earlier(i)
        <5>1. Earlier(k) \subseteq Earlier(i)  BY <3>1, <4>3 DEF VoteInv, Arrivals
        <5>2. Ruling(w, k)  BY <3>6, <4>1 DEF Ruling, SameVote
        <5>3. Ruling(w, k)'  BY <1>6, <3>6, <4>1, <5>2
        <5>4. w \in DOMAIN answers'  BY DEF Bookkept
        <5> QED  BY <2>1, <4>1, <5>1, <5>3, <5>4
      <4> QED  BY <4>2, <4>3
    <3>7. CASE ~Voted(i)' /\ votes' = votes  BY <1>6, <2>1, <3>1, <3>2, <3>7
    <3> QED  BY <3>4, <3>5, <3>6, <3>7 DEF VoteOutcome
  <2> QED  BY <2>2, <2>3
<1>9. ASSUME NEW k \in DOMAIN answers', Voted(k)' PROVE \E j \in DOMAIN answers' : Ruling(j, k)'
  <2>1. CASE SameVote(i, k) /\ Voted(i)' /\ Stands(i)'
    <3>1. SameVote(k, i)  BY <2>1 DEF SameVote
    <3> QED  BY <1>0, <1>3, <1>7, <2>1, <3>1 DEF Ruling
  <2>2. CASE SameVote(i, k) /\ Voted(i)' /\ votes' = votes /\ Overruled(i)
    <3>1. PICK w \in DOMAIN answers : Ruling(w, i) /\ w \notin Earlier(i)  BY <2>2 DEF Overruled
    <3>2. Ruling(w, k)  BY <2>2, <3>1 DEF Ruling, SameVote
    <3> QED  BY <1>6, <2>2, <3>1, <3>2 DEF Bookkept
  <2>3. CASE ~SameVote(i, k) \/ (~Voted(i)' /\ votes' = votes)
    <3>1. k \in DOMAIN answers  BY <1>9, <2>3 DEF SameVote
    <3>2. Voted(k)  BY <1>9, <3>1, VotedStays
    <3>3. PICK j \in DOMAIN answers : Ruling(j, k)  BY <3>1, <3>2 DEF VoteInv, VoteStands
    <3>4. Voted(i)' /\ SameVote(j, i) => j \notin Earlier(i)
      BY <2>3, <3>3 DEF Ruling, SameVote
    <3> QED  BY <1>6, <2>3, <3>3, <3>4 DEF Bookkept
  <2> QED  BY <2>1, <2>2, <2>3 DEF VoteOutcome
<1> QED  BY <1>8, <1>9 DEF VoteStands

\* The others of the table are no worse for it.
LEMMA VoteWrittenKeeps ==
  ASSUME Sched, Sched', Bookkept, VoteInv, NEW t \in Threads, work[t] # Idle, OthersWait(t),
         begun' = begun, NEW i \in DOMAIN begun, i = work[t].request, requests[i].kind = "vote",
         VoteWritten(i), DOMAIN answers' = DOMAIN answers \cup {i}, VoteOutcome(i)
  PROVE  /\ \A u \in Threads : u # t => VoteClaims(u)'
         /\ \A j \in DOMAIN answers : VoteError(j)'
         /\ \A j \in DOMAIN answers' : VoteStands(j)'
<1>0. requests' = requests /\ scenario' = scenario /\ i \notin DOMAIN answers
  BY Working DEF Bookkept, requests
<1>1. /\ NewVote(requests[i]).account = requests[i].account
      /\ NewVote(requests[i]).review = requests[i].review
  BY NewVoteIs
<1>3. ASSUME NEW v \in DOMAIN votes
      PROVE  votes'[v].account = votes[v].account /\ votes'[v].review = votes[v].review
  BY <1>1 DEF VoteWritten, Concerns
<1>4. /\ \A x : \A k \in DOMAIN begun, v \in DOMAIN votes :
           Concerns(v, k) /\ (votes[v].helpful = x \/ Overruled(k))
           => votes'[v].helpful = x \/ Overruled(k)'
      /\ \A k \in DOMAIN answers' : VoteStands(k)'
  BY <1>0, VotesRuled
<1>5. ASSUME NEW u \in Threads, u # t PROVE VoteClaims(u)'
  <2> DEFINE mine == DOMAIN work[u].seen
  <2> SUFFICES ASSUME NEW j \in DOMAIN begun, work'[u] # Idle, work'[u].request = j,
                      requests[j].kind = "vote", work'[u].step = "write"
               PROVE  LET own == DOMAIN work'[u].seen
                      IN  /\ \A v \in own : v \in DOMAIN votes' /\ Concerns(v, j)'
                          /\ own = {} => \A v \in DOMAIN votes' : Concerns(v, j)' => v > begun[j].votes
                          /\ \A v \in own : votes'[v].helpful = work'[u].seen[v] \/ Overruled(j)'
    BY <1>0 DEF VoteClaims, Idle
  <2>1. Request(u)'.kind = "vote"  BY <1>0 DEF Request, requests
  <2>2. Still(u)  BY <1>0, <1>5, <2>1, OthersStill
  <2>3. work[u] # Idle /\ work[u].request = j /\ work[u].step = "write" /\ work'[u].seen = work[u].seen
    BY <2>2 DEF Still
  <2>4. j # i  BY <1>5, <2>3 DEF Sched
  <2>5. /\ \A v \in mine : v \in DOMAIN votes /\ Concerns(v, j)
        /\ mine = {} => \A v \in DOMAIN votes : Concerns(v, j) => v > begun[j].votes
        /\ \A v \in mine : votes[v].helpful = work[u].seen[v] \/ Overruled(j)
    BY <2>3 DEF VoteInv, VoteClaims
  <2> HIDE DEF mine
  <2>6. ASSUME NEW v \in mine PROVE v \in DOMAIN votes' /\ Concerns(v, j)'
    BY <1>0, <1>3, <2>5 DEF VoteWritten, Concerns
  <2>7. ASSUME mine = {}, NEW v \in DOMAIN votes', Concerns(v, j)' PROVE v > begun[j].votes
    <3>1. CASE v \in DOMAIN votes  BY <1>0, <1>3, <2>5, <2>7, <3>1 DEF Concerns
    <3>2. CASE v \notin DOMAIN votes
      <4>1. begun[j].votes \in 0..Len(votes)  BY DEF VoteInv, VotesCounted
      <4>2. v = Len(votes) + 1 /\ Len(votes) \in Nat  BY <2>7, <3>2 DEF VoteWritten
      <4> QED  BY <4>1, <4>2
    <3> QED  BY <3>1, <3>2
  <2>8. ASSUME NEW v \in mine PROVE votes'[v].helpful = work[u].seen[v] \/ Overruled(j)'
    BY <1>4, <2>5
  <2> QED  BY <2>3, <2>6, <2>7, <2>8 DEF mine
<1>6. ASSUME NEW j \in DOMAIN answers PROVE VoteError(j)'
  <2>1. answers'[j] = answers[j] /\ j \in DOMAIN begun  BY DEF Bookkept, Sched
  <2> SUFFICES ASSUME requests[j].kind = "vote", answers[j].status = "internal_error"
               PROVE  \E v \in (begun[j].votes + 1)..Len(votes') : Concerns(v, j)'
    BY <1>0, <2>1 DEF VoteError
  <2>2. PICK v \in (begun[j].votes + 1)..Len(votes) : Concerns(v, j)
    BY DEF VoteInv, VoteError
  <2>3. begun[j].votes \in 0..Len(votes)  BY <2>1 DEF VoteInv, VotesCounted
  <2>4. v \in DOMAIN votes /\ v \in (begun[j].votes + 1)..Len(votes')
    BY <2>2, <2>3 DEF VoteWritten
  <2>5. Concerns(v, j)'  BY <1>0, <1>3, <2>2, <2>4 DEF Concerns
  <2> QED  BY <2>4, <2>5
<1> QED  BY <1>4, <1>5, <1>6

LEMMA VotesUntouched ==
  ASSUME Sched, Sched', Bookkept, VoteInv, votes' = votes,
         \A j \in DOMAIN answers' \ DOMAIN answers : ~Voted(j)'
  PROVE  /\ VotesOK'
         /\ \A u \in Threads : Still(u) => VoteClaims(u)'
         /\ \A j \in DOMAIN answers : VoteError(j)' /\ VoteStands(j)'
<1>0. requests' = requests /\ \A j \in DOMAIN begun : j \in DOMAIN begun' /\ begun'[j] = begun[j]
  BY DEF Bookkept, requests
<1>1. VotesOK'  BY DEF VoteInv, VotesOK
<1>5. ASSUME NEW i, NEW j \in DOMAIN answers, Ruling(j, i) PROVE Ruling(j, i)' /\ j \in DOMAIN answers'
  <2>1. Latest(j)'  BY <1>5, LatestStays DEF Ruling
  <2>2. j \in DOMAIN answers'  BY DEF Bookkept
  <2>3. SameVote(i, j)' /\ Stands(j)'  BY <1>0, <1>5 DEF Ruling, SameVote, Stands
  <2> QED  BY <2>1, <2>2, <2>3 DEF Ruling
<1>2. \A v, j : Concerns(v, j)' <=> Concerns(v, j)  BY <1>0 DEF Concerns
<1>3. ASSUME NEW u \in Threads, Still(u) PROVE VoteClaims(u)'
  <2> SUFFICES ASSUME NEW j \in DOMAIN begun', work'[u] # Idle, work'[u].request = j,
                      requests[j].kind = "vote", work'[u].step = "write"
               PROVE  LET own == DOMAIN work'[u].seen
                      IN  /\ \A v \in own : v \in DOMAIN votes /\ Concerns(v, j)'
                          /\ own = {} => \A v \in DOMAIN votes : Concerns(v, j)' => v > begun'[j].votes
                          /\ \A v \in own : votes[v].helpful = work'[u].seen[v] \/ Overruled(j)'
    BY <1>0 DEF VoteClaims, Idle
  <2>1. work[u] # Idle /\ work[u].request = j /\ work[u].step = "write" /\ work'[u].seen = work[u].seen
    BY <1>3 DEF Still
  <2>2. j \in DOMAIN begun  BY <2>1, Working
  <2>3. begun'[j] = begun[j] /\ (Overruled(j) => Overruled(j)')
    BY <1>0, <1>5, <2>2 DEF Overruled, Earlier
  <2>4. LET own == DOMAIN work[u].seen
        IN  /\ \A v \in own : v \in DOMAIN votes /\ Concerns(v, j)
            /\ own = {} => \A v \in DOMAIN votes : Concerns(v, j) => v > begun[j].votes
            /\ \A v \in own : votes[v].helpful = work[u].seen[v] \/ Overruled(j)
    BY <2>1, <2>2 DEF VoteInv, VoteClaims
  <2> QED  BY <1>2, <2>1, <2>3, <2>4
<1>4. ASSUME NEW j \in DOMAIN answers PROVE VoteError(j)' /\ VoteStands(j)'
  <2>1. answers'[j] = answers[j] /\ j \in DOMAIN begun  BY DEF Bookkept, Sched
  <2>2. begun'[j] = begun[j]  BY <1>0, <2>1
  <2>3. VoteError(j)'  BY <1>0, <1>2, <2>1, <2>2 DEF VoteInv, VoteError
  <2>4. VoteStands(j)'
    <3> SUFFICES ASSUME Voted(j) PROVE \E k \in DOMAIN answers' : Ruling(k, j)'
      BY VotedStays DEF VoteStands
    <3>1. PICK k \in DOMAIN answers : Ruling(k, j)  BY DEF VoteInv, VoteStands
    <3> QED  BY <1>5, <3>1
  <2> QED  BY <2>3, <2>4
<1> QED  BY <1>1, <1>3, <1>4

LEMMA VoteStep ==
  ASSUME Sched, Sched', Bookkept, VoteInv,
         \/ \E t \in Threads : VoteRead(t) \/ VoteWrite(t)
         \/ Rests("vote") /\ votes' = votes
  PROVE  VoteInv'
<1>0. /\ votes \in Seq(VoteRow) /\ Len(votes) \in Nat /\ DOMAIN votes = 1..Len(votes)
      /\ \A i \in DOMAIN begun : /\ begun[i].votes \in 0..Len(votes)
                                 /\ i \in DOMAIN begun' /\ begun'[i] = begun[i]
      /\ requests' = requests
  BY DEF VoteInv, VotesOK, VotesCounted, Bookkept, requests
<1>a. Arrivals /\ (begun' = begun => Arrivals')  BY DEF VoteInv, Arrivals, Earlier
<1>1. CASE Rests("vote") /\ votes' = votes
  <2>0. ASSUME NEW j \in DOMAIN answers' \ DOMAIN answers PROVE ~Voted(j)'
    BY <1>0, <1>1 DEF Rests, Voted
  <2>4. Arrivals'
    <3> SUFFICES ASSUME NEW i \in DOMAIN begun', NEW j \in DOMAIN begun'
                 PROVE  Earlier(i)' \subseteq Earlier(j)' \/ Earlier(j)' \subseteq Earlier(i)'
      BY DEF Arrivals
    <3>1. \A k \in DOMAIN begun : Earlier(k)' = Earlier(k) /\ Earlier(k) \subseteq DOMAIN answers
      BY <1>0 DEF Earlier, Sched
    <3>2. \A k \in DOMAIN begun' : k \notin DOMAIN begun => Earlier(k)' = DOMAIN answers
      BY <1>1 DEF Rests, Earlier
    <3> QED  BY <1>a, <3>1, <3>2 DEF Arrivals
  <2>1. VotesCounted'
    <3>1. ASSUME NEW i \in DOMAIN begun' PROVE begun'[i].votes \in 0..Len(votes)
      <4>1. CASE i \in DOMAIN begun  BY <1>0, <4>1
      <4>2. CASE i \notin DOMAIN begun
        <5>1. begun'[i].votes = Len(votes)  BY <1>1, <4>2 DEF Rests
        <5> QED  BY <1>0, <5>1
      <4> QED  BY <4>1, <4>2
    <3> QED  BY <1>1, <3>1 DEF VotesCounted
  <2>2. ASSUME NEW t \in Threads PROVE VoteClaims(t)'
    <3>1. CASE Still(t)  BY <1>1, <2>0, <3>1, VotesUntouched
    <3>2. CASE ~Still(t)
      <4>1. ~(work'[t] # Idle /\ Request(t)'.kind = "vote" /\ work'[t].step = "write")
        BY <1>1, <3>2 DEF Rests, Still
      <4>2. Idle' = Idle  BY DEF Idle
      <4> QED  BY <4>1, <4>2 DEF VoteClaims, Request
    <3> QED  BY <3>1, <3>2
  <2>3. ASSUME NEW i \in DOMAIN answers' PROVE VoteError(i)' /\ VoteStands(i)'
    <3>1. CASE requests[i].kind = "vote"
      <4>1. i \in DOMAIN answers  BY <1>1, <3>1 DEF Rests
      <4> QED  BY <1>1, <2>0, <4>1, VotesUntouched
    <3>2. CASE requests[i].kind # "vote"  BY <1>0, <3>2 DEF VoteError, VoteStands, Voted
    <3> QED  BY <3>1, <3>2
  <2> QED  BY <1>1, <2>0, <2>1, <2>2, <2>3, <2>4, VotesUntouched DEF VoteInv
<1>2. ASSUME NEW t \in Threads, VoteRead(t) PROVE VoteInv'
  <2> DEFINE mine == {v \in DOMAIN votes : /\ votes[v].account = Request(t).account
                                           /\ votes[v].review = Request(t).review}
             seen == [v \in mine |-> votes[v].helpful]
  <2>1. /\ work[t] # Idle /\ Request(t).kind = "vote" /\ votes' = votes
        /\ \/ Answers(t, "not_found", None) \/ Answers(t, "conflict", None)
           \/ GoesOn(t, "write", seen)
    BY <1>2, VoteReadActs DEF tables
  <2> HIDE DEF seen
  <2>2. OthersWait(t) /\ scenario' = scenario /\ begun' = begun
    BY <2>1 DEF Answers, GoesOn
  <2>3. VotesCounted'  BY <2>1, <2>2 DEF VoteInv, VotesCounted
  <2>6. ASSUME NEW i \in DOMAIN answers' \ DOMAIN answers PROVE ~Voted(i)' /\ ~(answers'[i].status = "internal_error")
    <3>1. Answers(t, "not_found", None) \/ Answers(t, "conflict", None)
      BY <2>1 DEF GoesOn
    <3>2. i = work[t].request  BY <3>1, AnswersKeep
    <3>3. answers'[i].status \in {"not_found", "conflict"}  BY <3>1, <3>2, AnswersKeep
    <3> QED  BY <3>3 DEF Voted
  <2>4. ASSUME NEW u \in Threads PROVE VoteClaims(u)'
    <3> SUFFICES ASSUME NEW j \in DOMAIN begun', work'[u] # Idle, work'[u].request = j,
                        requests[j].kind = "vote", work'[u].step = "write"
                 PROVE  VoteClaims(u)'
      BY <1>0 DEF VoteClaims, Idle
    <3>1. CASE u = t
      <4>1. /\ work'[t].request = work[t].request /\ work'[t].seen = seen
        BY <2>1, <3>1 DEF Answers, GoesOn
      <4>2. Request(t) = requests[j]  BY <3>1, <4>1 DEF Request
      <4>3. \A v : Concerns(v, j)' <=>
              votes[v].account = requests[j].account /\ votes[v].review = requests[j].review
        BY <1>0, <2>1 DEF Concerns
      <4>4. DOMAIN seen = mine /\ \A v \in mine : seen[v] = votes[v].helpful  BY DEF seen
      <4>5. \A v \in DOMAIN votes : v \in mine <=> Concerns(v, j)'  BY <4>2, <4>3
      <4>6. mine \subseteq DOMAIN votes  OBVIOUS
      <4> HIDE DEF mine
      <4> QED  BY <2>1, <3>1, <4>1, <4>4, <4>5, <4>6 DEF VoteClaims
    <3>2. CASE u # t
      <4>1. Request(u)'.kind = "vote"  BY <1>0 DEF Request, requests
      <4>2. Still(u)  BY <2>2, <3>2, <4>1, OthersStill
      <4> QED  BY <2>1, <2>6, <4>2, VotesUntouched
    <3> QED  BY <3>1, <3>2
  <2>5. ASSUME NEW i \in DOMAIN answers' PROVE VoteError(i)' /\ VoteStands(i)'
    <3>1. CASE i \in DOMAIN answers  BY <2>1, <2>6, <3>1, VotesUntouched
    <3>2. CASE i \notin DOMAIN answers  BY <2>6, <3>2 DEF VoteError, VoteStands
    <3> QED  BY <3>1, <3>2
  <2> QED  BY <1>a, <2>1, <2>2, <2>3, <2>4, <2>5, <2>6, VotesUntouched DEF VoteInv
<1>3. ASSUME NEW t \in Threads, VoteWrite(t) PROVE VoteInv'
  <2>0. work[t] # Idle /\ Request(t).kind = "vote" /\ work[t].step = "write"
    BY <1>3, VoteWriteActs
  <2>1. PICK i \in DOMAIN begun : i = work[t].request /\ Request(t) = requests[i]
    BY <2>0, Working
  <2> DEFINE mine == DOMAIN work[t].seen
             new == NewVote(requests[i])
             changed == [v \in DOMAIN votes |->
                           IF v \in mine /\ work[t].seen[v] # requests[i].helpful THEN new ELSE votes[v]]
  <2>2. \/ /\ mine = {} /\ \E v \in DOMAIN votes : Concerns(v, i)
           /\ votes' = votes /\ Answers(t, "internal_error", None)
        \/ /\ mine = {} /\ \A v \in DOMAIN votes : ~Concerns(v, i)
           /\ votes' = Append(votes, new) /\ Answers(t, "ok", None)
        \/ mine # {} /\ votes' = changed /\ Answers(t, "ok", None)
    BY <1>3, <2>1, VoteWriteActs DEF Concerns
  <2>3. /\ new \in VoteRow /\ new.account = requests[i].account
        /\ new.review = requests[i].review /\ new.helpful = requests[i].helpful
    BY <2>0, <2>1, NewVoteIs
  <2>4. /\ \A v \in mine : v \in DOMAIN votes /\ Concerns(v, i)
        /\ mine = {} => \A v \in DOMAIN votes : Concerns(v, i) => v > begun[i].votes
        /\ \A v \in mine : votes[v].helpful = work[t].seen[v] \/ Overruled(i)
    BY <2>0, <2>1 DEF VoteInv, VoteClaims
  <2>5. OthersWait(t) /\ scenario' = scenario /\ begun' = begun /\ work'[t] = Idle
    BY <2>2 DEF Answers
  <2>a. /\ DOMAIN answers' = DOMAIN answers \cup {i}
        /\ requests' = requests /\ requests[i].kind = "vote"
        /\ answers'[i].status = "ok" => Voted(i)'
        /\ Voted(i)' => answers'[i].status = "ok"
    <3>1. Answers(t, "internal_error", None) \/ Answers(t, "ok", None)  BY <2>2
    <3>2. DOMAIN answers' = DOMAIN answers \cup {i}  BY <2>1, <3>1, AnswersKeep
    <3> QED  BY <1>0, <2>0, <2>1, <3>2 DEF Voted
  <2>b. (\E v \in DOMAIN votes' : votes'[v] = new) => Stands(i)'
    BY <1>0 DEF Stands
  <2> HIDE DEF new, mine
  <2>6. /\ VoteWritten(i) /\ VotesOK'
        /\ answers'[i].status = "internal_error" =>
             votes' = votes /\ \E v \in DOMAIN votes : v > begun[i].votes /\ Concerns(v, i)
        /\ VoteOutcome(i)
    <3>1. CASE /\ mine = {} /\ \E v \in DOMAIN votes : Concerns(v, i)
               /\ votes' = votes /\ Answers(t, "internal_error", None)
      <4>1. VoteWritten(i) /\ VotesOK'  BY <1>0, <3>1 DEF VoteWritten, VoteInv, VotesOK
      <4>2. answers'[i].status = "internal_error"  BY <2>1, <3>1, AnswersKeep
      <4>3. VoteOutcome(i)  BY <2>a, <3>1, <4>2 DEF VoteOutcome
      <4> QED  BY <2>4, <3>1, <4>1, <4>2, <4>3
    <3>2. CASE /\ mine = {} /\ \A v \in DOMAIN votes : ~Concerns(v, i)
               /\ votes' = Append(votes, new) /\ Answers(t, "ok", None)
      <4>1. Grown(votes, votes', VoteRow, new)  BY <1>0, <2>3, <3>2, Appended
      <4>2. VoteWritten(i)  BY <4>1 DEF Grown, VoteWritten, new
      <4>3. ASSUME NEW v \in DOMAIN votes', NEW w \in DOMAIN votes', v # w
            PROVE  votes'[v].account # votes'[w].account \/ votes'[v].review # votes'[w].review
        <5>1. CASE v \in DOMAIN votes /\ w \in DOMAIN votes
          BY <4>1, <4>3, <5>1 DEF Grown, VoteInv, VotesOK
        <5>2. CASE v \in DOMAIN votes /\ w \notin DOMAIN votes
          BY <2>3, <3>2, <4>1, <5>2 DEF Grown, Concerns
        <5>3. CASE v \notin DOMAIN votes /\ w \in DOMAIN votes
          BY <2>3, <3>2, <4>1, <5>3 DEF Grown, Concerns
        <5>4. CASE v \notin DOMAIN votes /\ w \notin DOMAIN votes
          BY <4>1, <4>3, <5>4 DEF Grown
        <5> QED  BY <5>1, <5>2, <5>3, <5>4
      <4>4. VotesOK'  BY <4>1, <4>3 DEF Grown, VotesOK
      <4>5. answers'[i].status = "ok"  BY <2>1, <3>2, AnswersKeep
      <4>6. Len(votes) + 1 \in DOMAIN votes' /\ votes'[Len(votes) + 1] = new
        BY <4>1 DEF Grown
      <4>7. VoteOutcome(i)  BY <2>a, <2>b, <4>5, <4>6 DEF VoteOutcome
      <4> QED  BY <4>2, <4>4, <4>5, <4>7
    <3>3. CASE mine # {} /\ votes' = changed /\ Answers(t, "ok", None)
      <4>1. /\ DOMAIN votes' = DOMAIN votes
            /\ \A v \in DOMAIN votes :
                 votes'[v] = IF v \in mine /\ work[t].seen[v] # requests[i].helpful
                             THEN new ELSE votes[v]
        BY <3>3
      <4>2. votes' \in Seq(VoteRow) /\ Len(votes') = Len(votes)
        <5>1. \A v \in DOMAIN votes : votes[v] \in VoteRow  BY <1>0
        <5>2. \A v \in 1..Len(votes) : changed[v] \in VoteRow  BY <1>0, <2>3, <5>1
        <5>3. changed = [v \in 1..Len(votes) |-> changed[v]]  BY <1>0
        <5> HIDE DEF changed
        <5>4. [v \in 1..Len(votes) |-> changed[v]] \in [1..Len(votes) -> VoteRow]  BY <5>2
        <5>5. changed \in Seq(VoteRow) /\ DOMAIN changed = 1..Len(votes)  BY <1>0, <5>3, <5>4
        <5> QED  BY <1>0, <3>3, <5>5
      <4>3. VoteWritten(i)  BY <1>0, <2>4, <4>1, <4>2 DEF VoteWritten, new
      <4>4. ASSUME NEW v \in DOMAIN votes
            PROVE  votes'[v].account = votes[v].account /\ votes'[v].review = votes[v].review
        BY <2>3, <2>4, <4>1 DEF Concerns
      <4>5. VotesOK'  BY <4>1, <4>2, <4>4 DEF VoteInv, VotesOK
      <4>6. answers'[i].status = "ok"  BY <2>1, <3>3, AnswersKeep
      <4>7. VoteOutcome(i)
        <5>1. PICK v \in mine : TRUE  BY <3>3
        <5>2. /\ v \in DOMAIN votes /\ Concerns(v, i)
              /\ votes[v].helpful = work[t].seen[v] \/ Overruled(i)
          BY <2>4
        <5>3. votes[v] \in VoteRow  BY <1>0, <5>2
        <5>4. CASE work[t].seen[v] # requests[i].helpful
          <6>1. votes'[v] = new  BY <4>1, <5>1, <5>2, <5>4
          <6> QED  BY <2>a, <2>b, <4>1, <4>6, <5>2, <6>1 DEF VoteOutcome
        <5>5. CASE work[t].seen[v] = requests[i].helpful
          <6>1. \A w \in mine : w = v
            BY <2>4, <5>2 DEF VoteInv, VotesOK, Concerns
          <6>2. \A w \in DOMAIN votes : votes'[w] = votes[w]  BY <4>1, <5>5, <6>1
          <6>3. votes' = votes  BY <1>0, <4>1, <4>2, <6>2
          <6>4. CASE votes[v].helpful = requests[i].helpful
            <7>1. votes[v] = new  BY <2>3, <5>2, <5>3, <6>4 DEF Concerns, VoteRow
            <7> QED  BY <2>a, <2>b, <4>6, <5>2, <6>3, <7>1 DEF VoteOutcome
          <6>5. CASE Overruled(i)  BY <2>a, <4>6, <6>3, <6>5 DEF VoteOutcome
          <6> QED  BY <5>2, <5>5, <6>4, <6>5
        <5> QED  BY <5>4, <5>5
      <4> QED  BY <4>3, <4>5, <4>6, <4>7
    <3> QED  BY <2>2, <3>1, <3>2, <3>3
  <2>7. /\ \A u \in Threads : u # t => VoteClaims(u)'
        /\ \A j \in DOMAIN answers : VoteError(j)'
        /\ \A j \in DOMAIN answers' : VoteStands(j)'
    BY <2>0, <2>1, <2>5, <2>6, <2>a, VoteWrittenKeeps
  <2>8. VoteClaims(t)'
    <3>1. Idle' = Idle  BY DEF Idle
    <3> QED  BY <2>5, <3>1 DEF VoteClaims
  <2>9. VotesCounted'
    <3>1. Len(votes') \in Nat /\ Len(votes') >= Len(votes)  BY <2>6 DEF VoteWritten
    <3> QED  BY <1>0, <2>5, <3>1 DEF VotesCounted
  <2>10. ASSUME NEW j \in DOMAIN answers', j \notin DOMAIN answers PROVE VoteError(j)'
    <3>1. j = i  BY <2>a, <2>10
    <3>2. VoteError(i)'
      <4>1. ASSUME answers'[i].status = "internal_error"
            PROVE  \E v \in (begun[i].votes + 1)..Len(votes) :
                     votes[v].account = requests[i].account /\ votes[v].review = requests[i].review
        <5>1. PICK v \in DOMAIN votes : v > begun[i].votes /\ Concerns(v, i)  BY <2>6, <4>1
        <5>2. v \in (begun[i].votes + 1)..Len(votes)  BY <1>0, <5>1
        <5> QED  BY <5>1, <5>2 DEF Concerns
      <4> QED  BY <1>0, <2>5, <2>6, <4>1 DEF VoteError, Concerns
    <3> QED  BY <3>1, <3>2
  <2> QED  BY <1>a, <2>5, <2>6, <2>7, <2>8, <2>9, <2>10 DEF VoteInv
<1> QED  BY <1>1, <1>2, <1>3

\* No step takes a review away, or changes its account, slot or key.
RowsLater ==
  /\ rows' \in Seq(Review)
  /\ Len(rows) \in Nat /\ DOMAIN rows = 1..Len(rows)
  /\ Len(rows') \in Nat /\ DOMAIN rows' = 1..Len(rows') /\ Len(rows') >= Len(rows)
  /\ \A r \in DOMAIN rows :
       /\ r \in DOMAIN rows' /\ rows'[r].account = rows[r].account
       /\ rows'[r].slot = rows[r].slot /\ rows'[r].key = rows[r].key
  /\ \A r \in DOMAIN rows' : r \notin DOMAIN rows => r = Len(rows) + 1

LEMMA MovedLater ==
  ASSUME RowsOK, rows' = rows \/ RowMoved
  PROVE  RowsLater /\ RowsOK'
<1>0. /\ rows \in Seq(Review) /\ Len(rows) \in Nat /\ DOMAIN rows = 1..Len(rows)
      /\ \A r \in DOMAIN rows : rows[r] \in Review
  BY DEF RowsOK
<1>1. CASE rows' = rows  BY <1>0, <1>1 DEF RowsOK, RowsLater
<1>2. CASE RowMoved
  <2>0. PICK r \in Nat, status \in Statuses : \E shown :
          /\ r \in DOMAIN rows => shown \in BOOLEAN
          /\ rows' = [rows EXCEPT ![r].status = status, ![r].shown = shown]
    BY <1>2 DEF RowMoved
  <2>1. PICK shown :
          /\ r \in DOMAIN rows => shown \in BOOLEAN
          /\ rows' = [rows EXCEPT ![r].status = status, ![r].shown = shown]
    BY <2>0
  <2>2. DOMAIN rows' = DOMAIN rows  BY <2>1
  <2>3. ASSUME NEW s \in DOMAIN rows
        PROVE  /\ rows'[s] \in Review /\ rows'[s].account = rows[s].account
               /\ rows'[s].slot = rows[s].slot /\ rows'[s].key = rows[s].key
    <3>1. CASE s # r
      <4>1. rows'[s] = rows[s]  BY <2>1, <3>1
      <4> QED  BY <1>0, <4>1
    <3>2. CASE s = r
      <4>1. rows'[s] = [[rows[s] EXCEPT !.status = status] EXCEPT !.shown = shown]
        BY <2>1, <3>2
      <4>2. rows[s] \in Review /\ shown \in BOOLEAN  BY <1>0, <2>1, <3>2
      <4> QED  BY <2>1, <4>1, <4>2 DEF Review
    <3> QED  BY <3>1, <3>2
  <2>4. rows' \in Seq(Review) /\ Len(rows') = Len(rows)
    <3>1. rows' = [s \in 1..Len(rows) |-> rows'[s]]  BY <1>0, <2>1
    <3>2. \A s \in 1..Len(rows) : rows'[s] \in Review  BY <1>0, <2>3
    <3>3. [s \in 1..Len(rows) |-> rows'[s]] \in [1..Len(rows) -> Review]  BY <3>2
    <3>4. rows' \in [1..Len(rows) -> Review]  BY <3>1, <3>3
    <3> QED  BY <1>0, <3>4
  <2>5. RowsLater  BY <1>0, <2>2, <2>3, <2>4 DEF RowsLater
  <2>6. UniqueReviews(rows)'
    <3>1. UniqueReviews(rows)  BY DEF RowsOK
    <3> QED  BY <2>2, <2>3, <3>1 DEF UniqueReviews, SameSlot
  <2> QED  BY <2>4, <2>5, <2>6 DEF RowsOK
<1> QED  BY <1>1, <1>2

\* What is known of the requests that t does not work on stays known.
LEMMA CreateKept ==
  ASSUME Sched, Sched', Bookkept, CreateInv, RowsLater,
         \A j \in DOMAIN begun' : j \notin DOMAIN begun => begun'[j].rows = Len(rows)
  PROVE  /\ RowsCounted'
         /\ \A u \in Threads : Still(u) => CreateClaims(u)'
         /\ \A i \in DOMAIN answers : RowOf(i)' /\ CreateError(i)'
<1>0. /\ requests' = requests
      /\ \A j \in DOMAIN begun : j \in DOMAIN begun' /\ begun'[j] = begun[j]
      /\ \A j \in DOMAIN begun : begun[j].rows \in 0..Len(rows)
  BY DEF Bookkept, requests, CreateInv, RowsCounted
<1>1. RowsCounted'
  <2> SUFFICES ASSUME NEW j \in DOMAIN begun' PROVE begun'[j].rows \in 0..Len(rows')
    BY DEF RowsCounted
  <2>1. CASE j \in DOMAIN begun
    <3>1. begun'[j].rows \in 0..Len(rows)  BY <1>0, <2>1
    <3> QED  BY <3>1 DEF RowsLater
  <2>2. CASE j \notin DOMAIN begun  BY <2>2 DEF RowsLater
  <2> QED  BY <2>1, <2>2
<1>2. ASSUME NEW u \in Threads, Still(u) PROVE CreateClaims(u)'
  <2> SUFFICES ASSUME work'[u] # Idle, Request(u)'.kind = "create"
               PROVE  /\ work'[u].step = "key" => Request(u)'.key \notin {None, Empty}
                      /\ work'[u].step \in {"policy", "insert"} => KeyClaim(u)'
                      /\ work'[u].step = "insert" => SlotClaim(u)'
    BY DEF CreateClaims, Idle
  <2>1. /\ work[u] # Idle /\ work'[u].request = work[u].request
        /\ work'[u].step = work[u].step /\ work'[u].seen = work[u].seen
        /\ Request(u)' = Request(u)
    BY <1>2, StillRequest DEF Still
  <2>2. PICK j \in DOMAIN begun : j = work[u].request /\ begun'[j] = begun[j]
    BY <1>0, <2>1, Working
  <2>3. \A r \in DOMAIN rows' : r \in DOMAIN rows \/ r > begun[j].rows
    <3>1. begun[j].rows \in 0..Len(rows)  BY <1>0
    <3> QED  BY <3>1 DEF RowsLater
  <2>4. ASSUME work[u].step \in {"policy", "insert"} PROVE KeyClaim(u)'
    <3>1. KeyClaim(u)  BY <2>1, <2>4 DEF CreateInv, CreateClaims
    <3>2. ASSUME Request(u).key \notin {None, Empty}, NEW r \in DOMAIN rows', rows'[r].key = Request(u).key
          PROVE  r > begun[j].rows
      BY <2>2, <2>3, <3>1, <3>2 DEF KeyClaim, RowsLater
    <3> QED  BY <2>1, <2>2, <3>2 DEF KeyClaim
  <2>5. ASSUME work[u].step = "insert" PROVE SlotClaim(u)'
    <3>1. SlotClaim(u)  BY <2>1, <2>5 DEF CreateInv, CreateClaims
    <3>2. ASSUME work[u].seen # {"rejected"}, NEW r \in DOMAIN rows', SameSlot(rows'[r], Request(u))
          PROVE  r > begun[j].rows
      <4>1. r \in DOMAIN rows => SameSlot(rows[r], Request(u))
        BY <3>2 DEF RowsLater, SameSlot
      <4> QED  BY <2>2, <2>3, <3>1, <3>2, <4>1 DEF SlotClaim
    <3> QED  BY <2>1, <2>2, <3>2 DEF SlotClaim
  <2>6. work[u].step = "key" => Request(u).key \notin {None, Empty}
    BY <2>1 DEF CreateInv, CreateClaims
  <2> QED  BY <2>1, <2>4, <2>5, <2>6
<1>3. ASSUME NEW i \in DOMAIN answers PROVE RowOf(i)'
  <2>1. answers'[i] = answers[i]  BY DEF Bookkept
  <2> SUFFICES ASSUME requests[i].kind = "create", answers[i].status = "created"
               PROVE  \E r \in DOMAIN rows' :
                        /\ answers[i] = [status |-> "created", value |-> r]
                        /\ rows'[r].key = requests[i].key /\ rows'[r].account = requests[i].account
                        /\ \A j \in DOMAIN begun' : i \in Earlier(j)' => r <= begun'[j].rows
    BY <1>0, <2>1 DEF RowOf
  <2>2. PICK r \in DOMAIN rows :
          /\ answers[i] = [status |-> "created", value |-> r]
          /\ rows[r].key = requests[i].key /\ rows[r].account = requests[i].account
          /\ \A j \in DOMAIN begun : i \in Earlier(j) => r <= begun[j].rows
    BY DEF CreateInv, RowOf
  <2>3. ASSUME NEW j \in DOMAIN begun', i \in Earlier(j)' PROVE r <= begun'[j].rows
    <3>1. CASE j \in DOMAIN begun
      <4>1. begun'[j] = begun[j]  BY <1>0, <3>1
      <4> QED  BY <2>2, <2>3, <3>1, <4>1 DEF Earlier
    <3>2. CASE j \notin DOMAIN begun  BY <3>2 DEF RowsLater
    <3> QED  BY <3>1, <3>2
  <2>4. r \in DOMAIN rows' /\ rows'[r].key = rows[r].key /\ rows'[r].account = rows[r].account
    BY DEF RowsLater
  <2> QED  BY <2>2, <2>3, <2>4
<1>4. ASSUME NEW i \in DOMAIN answers PROVE CreateError(i)'
  <2>1. answers'[i] = answers[i] /\ i \in DOMAIN begun /\ begun'[i] = begun[i]
    BY <1>0 DEF Bookkept, Sched
  <2> SUFFICES ASSUME requests[i].kind = "create", answers[i].status = "internal_error",
                      requests[i].body # "malformed", requests[i].slot \in Offered,
                      answers[i].value # {"rejected"},
                      ~(requests[i].key = Empty /\ \E r \in DOMAIN rows' : rows'[r].key = Empty)
               PROVE  \E r \in (begun[i].rows + 1)..Len(rows') :
                        SameSlot(rows'[r], requests[i]) \/ rows'[r].key = requests[i].key
    BY <1>0, <2>1 DEF CreateError
  <2>0. ~(requests[i].key = Empty /\ \E r \in DOMAIN rows : rows[r].key = Empty)
    BY DEF RowsLater
  <2>2. PICK r \in (begun[i].rows + 1)..Len(rows) :
          SameSlot(rows[r], requests[i]) \/ rows[r].key = requests[i].key
    BY <2>0 DEF CreateInv, CreateError
  <2>3. begun[i].rows \in 0..Len(rows)  BY <1>0, <2>1
  <2>4. r \in DOMAIN rows /\ r \in (begun[i].rows + 1)..Len(rows')
    BY <2>2, <2>3 DEF RowsLater
  <2>5. SameSlot(rows'[r], requests[i]) \/ rows'[r].key = requests[i].key
    BY <2>2, <2>4 DEF RowsLater, SameSlot
  <2> QED  BY <2>4, <2>5
<1> QED  BY <1>1, <1>2, <1>3, <1>4

\* Request i, answered now, gets what an earlier one with its key got.
Retried(i) ==
  \A k \in DOMAIN answers :
    /\ requests[k].kind = "create" /\ k \in Earlier(i) /\ requests[k].key \notin {None, Empty}
    /\ requests[k].key = requests[i].key /\ requests[k].account = requests[i].account
    /\ answers[k].status = "created" /\ requests[i].body = "ok"
    => answers'[i].status = "rate_limited" \/ answers'[i] = answers[k]

LEMMA RetryKept ==
  ASSUME Sched, Bookkept, RetryGetsSameReview,
         \A i \in DOMAIN answers' : i \notin DOMAIN answers /\ requests[i].kind = "create" =>
           i \in DOMAIN begun /\ Retried(i)
  PROVE  RetryGetsSameReview'
<1>0. requests' = requests  BY DEF Bookkept, requests
<1> SUFFICES ASSUME NEW i \in DOMAIN answers', NEW j \in DOMAIN answers',
                    requests[i].kind = "create", requests[j].kind = "create", i \in Earlier(j)',
                    requests[i].key \notin {None, Empty}, requests[i].key = requests[j].key,
                    requests[i].account = requests[j].account, answers'[i].status = "created",
                    requests[j].body = "ok"
             PROVE  answers'[j].status = "rate_limited" \/ answers'[j] = answers'[i]
  BY <1>0 DEF RetryGetsSameReview
<1>1. j \in DOMAIN begun  BY DEF Sched
<1>2. begun'[j] = begun[j]  BY <1>1 DEF Bookkept
<1>3. i \in Earlier(j) /\ i \in DOMAIN answers  BY <1>1, <1>2 DEF Earlier, Sched
<1>4. answers'[i] = answers[i]  BY <1>3 DEF Bookkept
<1>5. CASE j \in DOMAIN answers
  <2>1. answers'[j] = answers[j]  BY <1>5 DEF Bookkept
  <2> QED  BY <1>3, <1>4, <1>5, <2>1 DEF RetryGetsSameReview
<1>6. CASE j \notin DOMAIN answers
  <2>1. Retried(j)  BY <1>6
  <2> QED  BY <1>3, <1>4, <2>1 DEF Retried
<1> QED  BY <1>5, <1>6

\* A request without a key gets a row that nobody has.
LEMMA OwnRowsKept ==
  ASSUME Sched, Bookkept, CreateInv,
         \/ \A i \in DOMAIN answers' : requests[i].kind = "create" => i \in DOMAIN answers
         \/ \E j : \A i \in DOMAIN answers' \ DOMAIN answers :
              /\ i = j
              /\ requests[i].key = None /\ answers'[i].status = "created"
                 => answers'[i].value \notin DOMAIN rows
  PROVE  OwnRows'
<1>0. requests' = requests /\ \A i \in DOMAIN answers : answers'[i] = answers[i]
  BY DEF Bookkept, requests
<1>1. ASSUME NEW i \in DOMAIN answers, Created(i) PROVE answers[i].value \in DOMAIN rows
  <2>1. PICK r \in DOMAIN rows : answers[i] = [status |-> "created", value |-> r]
    BY <1>1 DEF CreateInv, RowOf, Created
  <2> QED  BY <2>1
<1> SUFFICES ASSUME NEW i \in DOMAIN answers', NEW j \in DOMAIN answers', i # j,
                    requests[i].kind = "create", answers'[i].status = "created",
                    requests[j].kind = "create", answers'[j].status = "created",
                    requests[i].key = None, requests[j].key = None
             PROVE  answers'[i].value # answers'[j].value
  BY <1>0 DEF OwnRows, Created
<1>2. CASE i \in DOMAIN answers /\ j \in DOMAIN answers
  BY <1>0, <1>2 DEF CreateInv, OwnRows, Created
<1>3. CASE i \in DOMAIN answers /\ j \notin DOMAIN answers
  BY <1>0, <1>1, <1>3 DEF Created
<1>4. CASE i \notin DOMAIN answers /\ j \in DOMAIN answers
  BY <1>0, <1>1, <1>4 DEF Created
<1>5. i \in DOMAIN answers \/ j \in DOMAIN answers
  <2>1. CASE \A k \in DOMAIN answers' : requests[k].kind = "create" => k \in DOMAIN answers
    BY <2>1
  <2>2. CASE \E k : \A l \in DOMAIN answers' \ DOMAIN answers : l = k
    BY <2>2
  <2> QED  BY <2>1, <2>2
<1> QED  BY <1>2, <1>3, <1>4, <1>5

\* One step of a thread that serves a new review.
LEMMA CreateServed ==
  ASSUME Sched, Sched', Bookkept, CreateInv, RowsLater, RowsOK', NEW t \in Threads,
         work[t] # Idle, OthersWait(t), begun' = begun, CreateClaims(t)',
         \A i \in DOMAIN answers' : i \notin DOMAIN answers =>
           i \in DOMAIN begun /\ RowOf(i)' /\ CreateError(i)' /\ Retried(i),
         OwnRows'
  PROVE  CreateInv'
<1>1. scenario' = scenario  BY DEF Bookkept
<1>2. /\ RowsCounted' /\ \A u \in Threads : Still(u) => CreateClaims(u)'
      /\ \A i \in DOMAIN answers : RowOf(i)' /\ CreateError(i)'
  BY CreateKept
<1>3. ASSUME NEW u \in Threads PROVE CreateClaims(u)'
  <2>1. CASE u = t  BY <2>1
  <2>2. CASE u # t /\ work'[u] # Idle /\ Request(u)'.kind = "create"
    <3>1. Still(u)  BY <1>1, <2>2, OthersStill
    <3> QED  BY <1>2, <3>1
  <2>3. CASE ~(work'[u] # Idle /\ Request(u)'.kind = "create")
    BY <2>3 DEF CreateClaims, Idle
  <2> QED  BY <2>1, <2>2, <2>3
<1>4. RetryGetsSameReview'  BY RetryKept DEF CreateInv
<1> QED  BY <1>2, <1>3, <1>4 DEF CreateInv

LEMMA CreateAnswered ==
  ASSUME Sched, Sched', Bookkept, CreateInv, RowsLater, RowsOK', NEW t \in Threads,
         work[t] # Idle, NEW j \in DOMAIN begun, j = work[t].request,
         NEW status, NEW value, Answers(t, status, value),
         RowOf(j)', CreateError(j)', Retried(j),
         requests[j].key = None /\ status = "created" => value \notin DOMAIN rows
  PROVE  CreateInv'
<1>1. begun' = begun /\ OthersWait(t) /\ work'[t] = Idle  BY DEF Answers
<1>2. CreateClaims(t)'  BY <1>1 DEF CreateClaims, Idle
<1>3. DOMAIN answers' = DOMAIN answers \cup {j}  BY AnswersKeep
<1>4. \A i \in DOMAIN answers' : i \notin DOMAIN answers => i = j  BY <1>3
<1>5. ASSUME NEW i \in DOMAIN answers', i \notin DOMAIN answers
      PROVE  i \in DOMAIN begun /\ RowOf(i)' /\ CreateError(i)' /\ Retried(i)
  <2>1. i = j  BY <1>4, <1>5
  <2> QED  BY <2>1
<1>6. OwnRows'
  <2>1. answers'[j] = [status |-> status, value |-> value]  BY AnswersKeep
  <2>2. answers'[j].status = status /\ answers'[j].value = value  BY <2>1
  <2> QED  BY <1>4, <2>2, OwnRowsKept
<1> QED  BY <1>1, <1>2, <1>5, <1>6, CreateServed

LEMMA CreateStep ==
  ASSUME Sched, Sched', Bookkept, CreateInv, clock \in Nat,
         \/ \E t \in Threads : Limit(t) \/ CheckKey(t) \/ CheckPolicy(t) \/ Insert(t)
         \/ Rests("create") /\ (rows' = rows \/ RowMoved)
  PROVE  CreateInv'
<1>0. /\ requests' = requests /\ RowsOK /\ UniqueReviews(rows) /\ rows \in Seq(Review)
      /\ \A j \in DOMAIN begun : begun[j].answers \subseteq DOMAIN answers /\ begun'[j] = begun[j]
  BY DEF Bookkept, requests, CreateInv, RowsOK, Sched
<1>1. CASE Rests("create") /\ (rows' = rows \/ RowMoved)
  <2>1. RowsLater /\ RowsOK'  BY <1>0, <1>1, MovedLater
  <2>2. \A j \in DOMAIN begun' : j \notin DOMAIN begun => begun'[j].rows = Len(rows)
    BY <1>1 DEF Rests
  <2>3. /\ RowsCounted' /\ \A u \in Threads : Still(u) => CreateClaims(u)'
        /\ \A i \in DOMAIN answers : RowOf(i)' /\ CreateError(i)'
    BY <2>1, <2>2, CreateKept
  <2>4. ASSUME NEW u \in Threads PROVE CreateClaims(u)'
    <3>1. CASE Still(u)  BY <2>3, <3>1
    <3>2. CASE ~Still(u)
      <4>1. ~(work'[u] # Idle /\ Request(u)'.kind = "create") \/ work'[u].step \in {"limit", "read"}
        BY <1>1, <3>2 DEF Rests, Still
      <4> QED  BY <4>1 DEF CreateClaims, Idle
    <3> QED  BY <3>1, <3>2
  <2>5. \A i \in DOMAIN answers' : requests[i].kind = "create" => i \in DOMAIN answers
    BY <1>1 DEF Rests
  <2>6. RetryGetsSameReview'  BY <2>5, RetryKept DEF CreateInv
  <2>7. ASSUME NEW i \in DOMAIN answers' PROVE RowOf(i)' /\ CreateError(i)'
    <3>1. CASE requests[i].kind = "create"  BY <2>3, <2>5, <3>1
    <3>2. CASE requests[i].kind # "create"  BY <1>0, <3>2 DEF RowOf, CreateError
    <3> QED  BY <3>1, <3>2
  <2>8. OwnRows'  BY <2>5, OwnRowsKept
  <2> QED  BY <2>1, <2>3, <2>4, <2>6, <2>7, <2>8 DEF CreateInv
\* An answer of t: no request that arrived before knows of it.
<1>2. ASSUME NEW t \in Threads, work[t] # Idle, NEW status, NEW value, Answers(t, status, value)
      PROVE  /\ begun' = begun
             /\ answers'[work[t].request] = [status |-> status, value |-> value]
             /\ answers'[work[t].request].status = status
             /\ answers'[work[t].request].value = value
             /\ work[t].request \in DOMAIN begun /\ Request(t) = requests[work[t].request]
             /\ \A j \in DOMAIN begun : work[t].request \notin Earlier(j)'
  <2>1. begun' = begun  BY <1>2 DEF Answers
  <2>3. /\ answers'[work[t].request] = [status |-> status, value |-> value]
        /\ DOMAIN answers' = DOMAIN answers \cup {work[t].request}
    BY <1>2, AnswersKeep
  <2>4. /\ work[t].request \in DOMAIN begun /\ work[t].request \notin DOMAIN answers
        /\ Request(t) = requests[work[t].request]
    BY <1>2, Working
  <2>5. \A j \in DOMAIN begun : work[t].request \notin Earlier(j)'
    BY <1>0, <2>4 DEF Earlier
  <2>6. [status |-> status, value |-> value].status = status
        /\ [status |-> status, value |-> value].value = value
    OBVIOUS
  <2> QED  BY <2>1, <2>3, <2>4, <2>5, <2>6
\* Who has passed the check of the key repeats nobody.
<1>3. ASSUME NEW t \in Threads, work[t] # Idle, KeyClaim(t) PROVE Retried(work[t].request)
  <2>1. work[t].request \in DOMAIN begun /\ Request(t) = requests[work[t].request]
    BY <1>3, Working
  <2> SUFFICES ASSUME NEW k \in DOMAIN answers, requests[k].kind = "create",
                      k \in Earlier(work[t].request), requests[k].key \notin {None, Empty},
                      requests[k].key = Request(t).key, answers[k].status = "created"
               PROVE  FALSE
    BY <2>1 DEF Retried
  <2>2. PICK r \in DOMAIN rows : rows[r].key = requests[k].key /\ r <= begun[work[t].request].rows
    BY <2>1 DEF CreateInv, RowOf
  <2>3. r > begun[work[t].request].rows  BY <1>3, <2>2 DEF KeyClaim
  <2>4. r \in Nat /\ begun[work[t].request].rows \in Nat
    BY <1>0, <2>1 DEF CreateInv, RowsCounted
  <2> QED  BY <2>2, <2>3, <2>4
<1>4. ASSUME NEW t \in Threads, UNCHANGED rows PROVE RowsLater /\ RowsOK'
  BY <1>0, <1>4, MovedLater
<1>5. ASSUME NEW t \in Threads, NEW step, NEW seen, GoesOn(t, step, seen)
      PROVE  /\ begun' = begun /\ OthersWait(t) /\ DOMAIN answers' = DOMAIN answers
             /\ Request(t)' = Request(t) /\ work'[t].request = work[t].request
             /\ work'[t].step = step /\ work'[t].seen = seen /\ work[t] # Idle
             /\ OwnRows'
  <2>1. OwnRows'
    <3>1. DOMAIN answers' = DOMAIN answers  BY <1>5 DEF GoesOn
    <3> QED  BY <3>1, OwnRowsKept
  <2> QED  BY <1>5, <2>1, RequestStays DEF GoesOn
<1>6. ASSUME NEW t \in Threads, Limit(t) PROVE CreateInv'
  <2>1. /\ work[t] # Idle /\ Request(t).kind = "create" /\ UNCHANGED rows
        /\ \/ Answers(t, "rate_limited", None)
           \/ Request(t).body # "ok" /\ Answers(t, "invalid", None)
           \/ Request(t).body = "malformed" /\ Answers(t, "internal_error", None)
           \/ Request(t).key \in {None, Empty} /\ GoesOn(t, "policy", None)
           \/ Request(t).key \notin {None, Empty} /\ GoesOn(t, "key", None)
    BY <1>6, LimitActs DEF tables
  <2>2. RowsLater /\ RowsOK'  BY <1>4, <2>1
  <2>3. ASSUME NEW status, Answers(t, status, None), status # "created",
               status = "rate_limited" \/ Request(t).body # "ok",
               status = "internal_error" => Request(t).body = "malformed"
        PROVE  CreateInv'
    <3>1. PICK j \in DOMAIN begun : j = work[t].request /\ Request(t) = requests[j]
      BY <2>1, Working
    <3>2. answers'[j].status = status  BY <1>2, <2>1, <2>3, <3>1
    <3>3. RowOf(j)' /\ CreateError(j)' /\ Retried(j)
      BY <1>0, <2>3, <3>1, <3>2 DEF RowOf, CreateError, Retried
    <3> QED  BY <2>1, <2>2, <2>3, <3>1, <3>3, CreateAnswered
  <2>4. CASE Request(t).key \in {None, Empty} /\ GoesOn(t, "policy", None)
    <3>1. CreateClaims(t)'  BY <1>5, <2>4 DEF CreateClaims, KeyClaim
    <3> QED  BY <1>5, <2>1, <2>2, <2>4, <3>1, CreateServed
  <2>5. CASE Request(t).key \notin {None, Empty} /\ GoesOn(t, "key", None)
    <3>1. CreateClaims(t)'  BY <1>5, <2>5 DEF CreateClaims
    <3> QED  BY <1>5, <2>1, <2>2, <2>5, <3>1, CreateServed
  <2> QED  BY <2>1, <2>3, <2>4, <2>5
<1>7. ASSUME NEW t \in Threads, CheckKey(t) PROVE CreateInv'
  <2>1. /\ work[t] # Idle /\ Request(t).kind = "create" /\ work[t].step = "key" /\ UNCHANGED rows
        /\ \/ /\ \A r \in DOMAIN rows : rows[r].key # Request(t).key
              /\ GoesOn(t, "policy", None)
           \/ \E r \in DOMAIN rows :
                /\ rows[r].key = Request(t).key
                /\ \/ rows[r].account # Request(t).account /\ Answers(t, "conflict", None)
                   \/ rows[r].account = Request(t).account /\ Answers(t, "created", r)
    BY <1>7, CheckKeyActs DEF tables
  <2>2. RowsLater /\ RowsOK'  BY <1>4, <2>1
  <2>3. PICK j \in DOMAIN begun : j = work[t].request /\ Request(t) = requests[j]
    BY <2>1, Working
  <2>4. CASE /\ \A r \in DOMAIN rows : rows[r].key # Request(t).key
             /\ GoesOn(t, "policy", None)
    <3>1. CreateClaims(t)'
      <4>1. KeyClaim(t)'  BY <1>5, <2>1, <2>4 DEF KeyClaim
      <4> QED  BY <1>5, <2>4, <4>1 DEF CreateClaims
    <3> QED  BY <1>5, <2>1, <2>2, <2>4, <3>1, CreateServed
  \* The row of an earlier answer is the one with the key.
  <2>5. ASSUME NEW r \in DOMAIN rows, rows[r].key = Request(t).key,
               NEW k \in DOMAIN answers, requests[k].kind = "create", k \in Earlier(j),
               requests[k].key \notin {None, Empty}, requests[k].key = requests[j].key,
               requests[k].account = requests[j].account, answers[k].status = "created"
        PROVE  /\ answers[k] = [status |-> "created", value |-> r]
               /\ rows[r].account = Request(t).account
    <3>1. PICK q \in DOMAIN rows :
            /\ answers[k] = [status |-> "created", value |-> q]
            /\ rows[q].key = requests[k].key /\ rows[q].account = requests[k].account
      BY <2>5 DEF CreateInv, RowOf
    <3>2. q = r  BY <1>0, <2>3, <2>5, <3>1 DEF UniqueReviews
    <3> QED  BY <2>3, <2>5, <3>1, <3>2
  <2>6. ASSUME NEW r \in DOMAIN rows, rows[r].key = Request(t).key,
               rows[r].account # Request(t).account, Answers(t, "conflict", None)
        PROVE  CreateInv'
    <3>1. answers'[j].status = "conflict"  BY <1>2, <2>1, <2>3, <2>6
    <3>2. RowOf(j)' /\ CreateError(j)'  BY <3>1 DEF RowOf, CreateError
    <3>3. Retried(j)  BY <2>5, <2>6 DEF Retried
    <3> QED  BY <2>1, <2>2, <2>3, <2>6, <3>2, <3>3, CreateAnswered
  <2>7. ASSUME NEW r \in DOMAIN rows, rows[r].key = Request(t).key,
               rows[r].account = Request(t).account, Answers(t, "created", r)
        PROVE  CreateInv'
    <3>1. /\ answers'[j] = [status |-> "created", value |-> r] /\ answers'[j].status = "created"
          /\ begun' = begun /\ \A i \in DOMAIN begun : j \notin Earlier(i)'
      BY <1>2, <2>1, <2>3, <2>7
    <3>2. RowOf(j)'
      <4>1. /\ r \in DOMAIN rows' /\ rows'[r].key = requests[j].key
            /\ rows'[r].account = requests[j].account
        BY <2>1, <2>3, <2>7
      <4> QED  BY <1>0, <3>1, <4>1 DEF RowOf
    <3>3. CreateError(j)'  BY <3>1 DEF CreateError
    <3>4. Retried(j)  BY <2>5, <2>7, <3>1 DEF Retried
    <3>5. requests[j].key # None  BY <2>1, <2>3 DEF CreateInv, CreateClaims
    <3> QED  BY <2>1, <2>2, <2>3, <2>7, <3>2, <3>3, <3>4, <3>5, CreateAnswered
  <2> QED  BY <2>1, <2>4, <2>6, <2>7
<1>8. ASSUME NEW t \in Threads, CheckPolicy(t) PROVE CreateInv'
  <2>1. /\ work[t] # Idle /\ Request(t).kind = "create" /\ work[t].step = "policy" /\ UNCHANGED rows
        /\ \/ Answers(t, "conflict", None)
           \/ \E seen :
                /\ seen = {"rejected"} \/ \A r \in DOMAIN rows : ~SameSlot(rows[r], Request(t))
                /\ GoesOn(t, "insert", seen)
    BY <1>8, CheckPolicyActs DEF tables
  <2>2. RowsLater /\ RowsOK'  BY <1>4, <2>1
  <2>3. PICK j \in DOMAIN begun : j = work[t].request /\ Request(t) = requests[j]
    BY <2>1, Working
  <2>4. KeyClaim(t)  BY <2>1 DEF CreateInv, CreateClaims
  <2>5. CASE Answers(t, "conflict", None)
    <3>1. answers'[j].status = "conflict"  BY <1>2, <2>1, <2>3, <2>5
    <3>2. RowOf(j)' /\ CreateError(j)'  BY <3>1 DEF RowOf, CreateError
    <3>3. Retried(j)  BY <1>3, <2>1, <2>3, <2>4
    <3> QED  BY <2>1, <2>2, <2>3, <2>5, <3>2, <3>3, CreateAnswered
  <2>6. ASSUME NEW seen, GoesOn(t, "insert", seen),
               seen = {"rejected"} \/ \A r \in DOMAIN rows : ~SameSlot(rows[r], Request(t))
        PROVE  CreateInv'
    <3>1. KeyClaim(t)'  BY <1>5, <2>1, <2>4, <2>6 DEF KeyClaim
    <3>2. SlotClaim(t)'  BY <1>5, <2>1, <2>6 DEF SlotClaim
    <3>3. CreateClaims(t)'  BY <1>5, <2>6, <3>1, <3>2 DEF CreateClaims
    <3> QED  BY <1>5, <2>1, <2>2, <2>6, <3>3, CreateServed
  <2> QED  BY <2>1, <2>5, <2>6
<1>9. ASSUME NEW t \in Threads, Insert(t) PROVE CreateInv'
  <2>1. /\ work[t] # Idle /\ Request(t).kind = "create" /\ work[t].step = "insert"
        /\ \/ /\ rows' = rows /\ Answers(t, "internal_error", work[t].seen)
              /\ \/ Request(t).slot \notin Offered
                 \/ \E r \in DOMAIN rows : \/ SameSlot(rows[r], Request(t))
                                           \/ rows[r].key # None /\ rows[r].key = Request(t).key
           \/ /\ rows' = Append(rows, NewReview(Request(t))) /\ Request(t).slot \in Offered
              /\ Answers(t, "created", Len(rows) + 1)
              /\ \A r \in DOMAIN rows : /\ ~SameSlot(rows[r], Request(t))
                                        /\ rows[r].key = Request(t).key => rows[r].key = None
    BY <1>9, InsertActs
  <2>2. PICK j \in DOMAIN begun : j = work[t].request /\ Request(t) = requests[j]
    BY <2>1, Working
  <2>3. KeyClaim(t) /\ SlotClaim(t)  BY <2>1 DEF CreateInv, CreateClaims
  <2>4. Retried(j)  BY <1>3, <2>1, <2>2, <2>3
  <2>5. CASE /\ rows' = rows /\ Answers(t, "internal_error", work[t].seen)
             /\ \/ Request(t).slot \notin Offered
                \/ \E r \in DOMAIN rows : \/ SameSlot(rows[r], Request(t))
                                          \/ rows[r].key # None /\ rows[r].key = Request(t).key
    <3>1. RowsLater /\ RowsOK'  BY <1>4, <2>5
    <3>2. PICK seen : seen = work[t].seen /\ Answers(t, "internal_error", seen)  BY <2>5
    <3>3. /\ answers'[j].status = "internal_error" /\ answers'[j].value = seen /\ begun' = begun
      <4>1. answers'[j] = [status |-> "internal_error", value |-> seen]
        BY <2>1, <2>2, <3>2, AnswersKeep
      <4>2. begun' = begun  BY <3>2 DEF Answers
      <4> QED  BY <4>1, <4>2
    <3>4. RowOf(j)'  BY <3>3 DEF RowOf
    <3>5. CreateError(j)'
      <4> SUFFICES ASSUME requests[j].slot \in Offered,
                          ~(requests[j].key = Empty /\ \E r \in DOMAIN rows : rows[r].key = Empty)
                   PROVE  seen = {"rejected"} \/ \E q \in (begun[j].rows + 1)..Len(rows) :
                            SameSlot(rows[q], requests[j]) \/ rows[q].key = requests[j].key
        BY <1>0, <2>5, <3>3 DEF CreateError
      <4>1. PICK r \in DOMAIN rows : \/ SameSlot(rows[r], Request(t))
                                     \/ rows[r].key # None /\ rows[r].key = Request(t).key
        BY <2>2, <2>5
      <4>2. seen = {"rejected"} \/ r > begun[j].rows
        BY <2>2, <2>3, <3>2, <4>1 DEF KeyClaim, SlotClaim
      <4>3. begun[j].rows \in 0..Len(rows)  BY DEF CreateInv, RowsCounted
      <4>4. r > begun[j].rows => r \in (begun[j].rows + 1)..Len(rows)  BY <1>0, <4>3
      <4> QED  BY <2>2, <4>1, <4>2, <4>4
    <3> QED  BY <2>1, <2>2, <2>4, <3>1, <3>2, <3>4, <3>5, CreateAnswered
  <2>6. CASE /\ rows' = Append(rows, NewReview(Request(t))) /\ Request(t).slot \in Offered
             /\ Answers(t, "created", Len(rows) + 1)
             /\ \A r \in DOMAIN rows : /\ ~SameSlot(rows[r], Request(t))
                                       /\ rows[r].key = Request(t).key => rows[r].key = None
    <3> DEFINE new == NewReview(Request(t))
    <3>1. /\ new \in Review /\ new.account = Request(t).account /\ new.slot = Request(t).slot
          /\ new.key = Request(t).key
      <4>1. Request(t) \in Sent  BY <2>1, Working
      <4>2. /\ Request(t).account \in Accounts /\ Request(t).slot \in Offered
            /\ Request(t).key \in Keys \cup {None}
        BY <2>1, <2>6, <4>1 DEF Sent
      <4> QED  BY <4>2 DEF NewReview, Review, Statuses
    <3> HIDE DEF new
    <3>2. Grown(rows, rows', Review, new)  BY <1>0, <2>6, <3>1, Appended DEF new
    <3>3. RowsLater
      <4>1. Len(rows') >= Len(rows)  BY <3>2 DEF Grown
      <4> QED  BY <3>2, <4>1 DEF Grown, RowsLater
    <3>4. UniqueReviews(rows)'
      <4>1. ASSUME NEW r \in DOMAIN rows
            PROVE  /\ ~SameSlot(rows[r], new) /\ ~SameSlot(new, rows[r])
                   /\ rows[r].key = new.key => rows[r].key = None
        BY <2>6, <3>1 DEF SameSlot
      <4>2. ASSUME NEW r \in DOMAIN rows', NEW s \in DOMAIN rows', r # s
            PROVE  /\ ~SameSlot(rows'[r], rows'[s])
                   /\ rows'[r].key = rows'[s].key => rows'[r].key = None
        <5>1. CASE r \in DOMAIN rows /\ s \in DOMAIN rows
          BY <1>0, <3>2, <4>2, <5>1 DEF Grown, UniqueReviews
        <5>2. CASE r \in DOMAIN rows /\ s \notin DOMAIN rows
          BY <3>2, <4>1, <5>2 DEF Grown
        <5>3. CASE r \notin DOMAIN rows /\ s \in DOMAIN rows
          BY <3>2, <4>1, <5>3 DEF Grown
        <5>4. CASE r \notin DOMAIN rows /\ s \notin DOMAIN rows
          BY <3>2, <4>2, <5>4 DEF Grown
        <5> QED  BY <5>1, <5>2, <5>3, <5>4
      <4> QED  BY <4>2 DEF UniqueReviews
    <3>5. RowsOK'  BY <3>2, <3>4 DEF Grown, RowsOK
    <3>6. PICK r : r = Len(rows) + 1 /\ Answers(t, "created", r)  BY <2>6
    <3>7. /\ answers'[j] = [status |-> "created", value |-> r] /\ answers'[j].status = "created"
          /\ begun' = begun /\ \A i \in DOMAIN begun : j \notin Earlier(i)'
      BY <1>2, <2>1, <2>2, <3>6
    <3>8. RowOf(j)'
      <4>1. r \in DOMAIN rows' /\ rows'[r] = new  BY <3>2, <3>6 DEF Grown
      <4>2. rows'[r].key = requests[j].key /\ rows'[r].account = requests[j].account
        BY <2>2, <3>1, <4>1
      <4> QED  BY <1>0, <3>7, <4>1, <4>2 DEF RowOf
    <3>9. CreateError(j)'  BY <3>7 DEF CreateError
    <3>10. r \notin DOMAIN rows  BY <1>0, <3>6
    <3> QED  BY <2>1, <2>2, <2>4, <3>3, <3>5, <3>6, <3>8, <3>9, <3>10, CreateAnswered
  <2> QED  BY <2>1, <2>5, <2>6
<1> QED  BY <1>1, <1>6, <1>7, <1>8, <1>9

(***************************************************************************)
(* Readers                                                                 *)
(***************************************************************************)

\* The order of reviews is a strict one and does not change with the status.
LEMMA NewerOrders ==
  ASSUME rows \in Seq(Review)
  PROVE  /\ \A r, s, q \in DOMAIN rows : Newer(r, s) /\ Newer(s, q) => Newer(r, q)
         /\ \A r \in DOMAIN rows : ~Newer(r, r)
<1>1. /\ DOMAIN rows \subseteq Nat
      /\ \A r \in DOMAIN rows : rows[r] \in Review
  OBVIOUS
<1>2. \A r \in DOMAIN rows : rows[r].at \in Nat  BY <1>1 DEF Review
<1> QED  BY <1>1, <1>2 DEF Newer

\* No step changes when a review was written.
TimesStay == \A r \in DOMAIN rows : r \in DOMAIN rows' /\ rows'[r].at = rows[r].at

LEMMA NewerStays ==
  ASSUME TimesStay
  PROVE  \A r, s \in DOMAIN rows : Newer(r, s)' <=> Newer(r, s)
BY DEF TimesStay, Newer

\* A reader that waits while the tables change relies on what stays public.
LEMMA ReadsLater ==
  ASSUME NEW seen, Reads(seen), TimesStay, None \notin DOMAIN rows,
         NEW steady \in SUBSET seen.steady, steady \subseteq Public(rows')
  PROVE  Reads([seen EXCEPT !.steady = steady])'
<1> DEFINE later == [seen EXCEPT !.steady = steady]
<1>1. /\ seen.items \in Seq(DOMAIN rows) /\ seen.cursor \in DOMAIN rows \cup {None}
      /\ later.items = seen.items /\ later.cursor = seen.cursor /\ later.steady = steady
      /\ later = [items |-> seen.items, cursor |-> seen.cursor, steady |-> steady]
  BY DEF Reads
<1>2. \A k \in DOMAIN seen.items : seen.items[k] \in DOMAIN rows  BY <1>1
<1>3. seen.items \in Seq(DOMAIN rows')
  <2>1. DOMAIN rows \subseteq DOMAIN rows'  BY DEF TimesStay
  <2> QED  BY <1>1, <2>1
<1>4. later \in [items : Seq(DOMAIN rows'), cursor : DOMAIN rows' \cup {None},
                 steady : SUBSET Public(rows')]
  BY <1>1, <1>3 DEF TimesStay
<1>5. \A r, s \in DOMAIN rows : Newer(r, s)' <=> Newer(r, s)  BY NewerStays
<1>6. \A k, l \in DOMAIN seen.items : k < l => Newer(seen.items[k], seen.items[l])'
  BY <1>2, <1>5 DEF Reads
<1>7. ASSUME NEW k \in DOMAIN seen.items
      PROVE  /\ seen.cursor # None
             /\ seen.items[k] = seen.cursor \/ Newer(seen.items[k], seen.cursor)'
  BY <1>1, <1>2, <1>5 DEF Reads
<1>8. ASSUME NEW s \in steady PROVE Past(s, seen.cursor)' \/ s \in Range(seen.items)
  <2>1. s \in DOMAIN rows  BY DEF Reads, Public
  <2> QED  BY <1>1, <1>5, <2>1 DEF Reads, Past
<1> HIDE DEF later
<1>9. Reads(later)'  BY <1>1, <1>4, <1>6, <1>7, <1>8 DEF Reads
<1> QED  BY <1>9 DEF later

\* Two sequences one after the other.
Follows(old, page, all, S) ==
  /\ all \in Seq(S) /\ Len(all) = Len(old) + Len(page)
  /\ DOMAIN old = 1..Len(old) /\ Len(old) \in Nat
  /\ \A k \in DOMAIN old : k \in DOMAIN all /\ all[k] = old[k]
  /\ \A k \in DOMAIN all : k \notin DOMAIN old =>
       k - Len(old) \in DOMAIN page /\ all[k] = page[k - Len(old)]
  /\ \A k \in DOMAIN page : Len(old) + k \in DOMAIN all /\ all[Len(old) + k] = page[k]

LEMMA Joined ==
  ASSUME NEW S, NEW old \in Seq(S), NEW page \in Seq(S), NEW all, all = old \o page
  PROVE  Follows(old, page, all, S)
<1>1. /\ all \in Seq(S) /\ Len(all) = Len(old) + Len(page)
      /\ DOMAIN old = 1..Len(old) /\ Len(old) \in Nat
  OBVIOUS
<1>2. /\ \A k \in DOMAIN old : k \in DOMAIN all /\ all[k] = old[k]
      /\ \A k \in DOMAIN page : Len(old) + k \in DOMAIN all /\ all[Len(old) + k] = page[k]
  OBVIOUS
<1>3. \A k \in DOMAIN all : k \notin DOMAIN old =>
        k - Len(old) \in DOMAIN page /\ all[k] = page[k - Len(old)]
  OBVIOUS
<1> QED  BY <1>1, <1>2, <1>3 DEF Follows

\* A page is the next part of the order: what is read stays in order, and
\* what is left over stands behind the page.
LEMMA PageJoins ==
  ASSUME rows \in Seq(Review), None \notin DOMAIN rows, NEW seen, Reads(seen),
         NEW left, left = {r \in Public(rows) : Past(r, seen.cursor)},
         NEW page \in Pages(left), NEW all, all = seen.items \o page
  PROVE  /\ all \in Seq(DOMAIN rows) /\ Len(all) = Len(seen.items) + Len(page)
         /\ IsFiniteSet(left) /\ Len(page) = Lesser(PageSize, Cardinality(left))
         /\ page \in [1..Len(page) -> left] /\ page \in Seq(DOMAIN rows)
         /\ Len(page) \in Nat
         /\ \A k, l \in DOMAIN page : k < l => Newer(page[k], page[l])
         /\ \A k, l \in DOMAIN all : k < l => Newer(all[k], all[l])
         /\ \A r \in Range(seen.items) \cup Range(page) : r \in Range(all)
<1>1. left \subseteq DOMAIN rows  BY DEF Public
<1>2. IsFiniteSet(left) /\ Cardinality(left) \in Nat
  <2>1. IsFiniteSet(DOMAIN rows)  BY FS_Interval
  <2> QED  BY <1>1, <2>1, FS_Subset, FS_CardinalityType
<1> DEFINE n == Lesser(PageSize, Cardinality(left))
<1>3. n \in Nat  BY <1>2, ContributionsAssumption DEF Lesser
<1> HIDE DEF n
<1>4. /\ page \in [1..n -> left]
      /\ \A k, l \in DOMAIN page : k < l => Newer(page[k], page[l])
  BY DEF Pages, n
<1>5. page \in Seq(left) /\ Len(page) = n  BY <1>3, <1>4
<1>6. page \in Seq(DOMAIN rows)  BY <1>1, <1>3, <1>4
<1>7. seen.items \in Seq(DOMAIN rows) /\ seen.cursor \in DOMAIN rows \cup {None}  BY DEF Reads
<1>8. /\ all \in Seq(DOMAIN rows) /\ Len(all) = Len(seen.items) + Len(page)
      /\ \A k \in DOMAIN seen.items : k \in DOMAIN all /\ all[k] = seen.items[k]
      /\ \A k \in DOMAIN all : k \notin DOMAIN seen.items =>
           k - Len(seen.items) \in DOMAIN page /\ all[k] = page[k - Len(seen.items)]
      /\ \A k \in DOMAIN page : Len(seen.items) + k \in DOMAIN all
                                /\ all[Len(seen.items) + k] = page[k]
      /\ DOMAIN seen.items = 1..Len(seen.items) /\ Len(seen.items) \in Nat
  <2>1. Follows(seen.items, page, all, DOMAIN rows)  BY <1>6, <1>7, Joined
  <2> QED  BY <2>1 DEF Follows
<1>9. ASSUME NEW k \in DOMAIN all, NEW l \in DOMAIN all, k < l PROVE Newer(all[k], all[l])
  <2>0. k \in Int /\ l \in Int /\ k >= 1  BY <1>8
  <2>1. CASE k \in DOMAIN seen.items /\ l \in DOMAIN seen.items
    BY <1>8, <1>9, <2>1 DEF Reads
  <2>2. CASE k \notin DOMAIN seen.items /\ l \notin DOMAIN seen.items
    BY <1>4, <1>8, <1>9, <2>0, <2>2
  <2>3. CASE k \in DOMAIN seen.items /\ l \notin DOMAIN seen.items
    <3>1. /\ seen.cursor # None /\ seen.items[k] \in DOMAIN rows
          /\ seen.items[k] = seen.cursor \/ Newer(seen.items[k], seen.cursor)
      BY <1>7, <2>3 DEF Reads
    <3>2. all[l] \in left  BY <1>4, <1>8, <2>3
    <3>3. Newer(seen.cursor, all[l]) /\ all[l] \in DOMAIN rows
      BY <1>1, <3>1, <3>2 DEF Past
    <3>4. Newer(seen.items[k], all[l])  BY <1>7, <3>1, <3>3, NewerOrders
    <3> QED  BY <1>8, <2>3, <3>4
  <2>4. CASE k \notin DOMAIN seen.items /\ l \in DOMAIN seen.items
    BY <1>8, <1>9, <2>0, <2>4
  <2> QED  BY <2>1, <2>2, <2>3, <2>4
<1>10. ASSUME NEW r \in Range(seen.items) \cup Range(page) PROVE r \in Range(all)
  <2>1. CASE r \in Range(seen.items)
    <3>1. PICK k \in DOMAIN seen.items : r = seen.items[k]  BY <2>1 DEF Range
    <3>2. k \in DOMAIN all /\ all[k] = r  BY <1>8, <3>1
    <3> QED  BY <3>2 DEF Range
  <2>2. CASE r \in Range(page)
    <3>1. PICK k \in DOMAIN page : r = page[k]  BY <2>2 DEF Range
    <3>2. Len(seen.items) + k \in DOMAIN all /\ all[Len(seen.items) + k] = r  BY <1>8, <3>1
    <3> QED  BY <3>2 DEF Range
  <2> QED  BY <2>1, <2>2
<1> QED  BY <1>2, <1>3, <1>4, <1>5, <1>6, <1>8, <1>9, <1>10 DEF n

\* A page that is not the last: its last review is the next cursor.
LEMMA PageReads ==
  ASSUME rows \in Seq(Review), None \notin DOMAIN rows, NEW seen, Reads(seen),
         NEW left, left = {r \in Public(rows) : Past(r, seen.cursor)},
         NEW page \in Pages(left), Cardinality(left) > PageSize
  PROVE  Reads([[seen EXCEPT !.items = @ \o page] EXCEPT !.cursor = page[PageSize]])
<1> DEFINE all == seen.items \o page
           last == page[PageSize]
           read == [[seen EXCEPT !.items = @ \o page] EXCEPT !.cursor = page[PageSize]]
<1>1. /\ all \in Seq(DOMAIN rows) /\ Len(all) = Len(seen.items) + Len(page)
      /\ IsFiniteSet(left) /\ Len(page) = Lesser(PageSize, Cardinality(left))
      /\ page \in [1..Len(page) -> left] /\ page \in Seq(DOMAIN rows)
      /\ \A k, l \in DOMAIN page : k < l => Newer(page[k], page[l])
      /\ \A k, l \in DOMAIN all : k < l => Newer(all[k], all[l])
      /\ \A r \in Range(seen.items) \cup Range(page) : r \in Range(all)
  BY PageJoins
<1>2. PageSize \in Nat \ {0} /\ Cardinality(left) \in Nat
  BY <1>1, ContributionsAssumption, FS_CardinalityType
<1>3. Len(page) = PageSize /\ PageSize \in DOMAIN page /\ DOMAIN page = 1..PageSize
  BY <1>1, <1>2 DEF Lesser
<1>4. last \in left /\ last \in DOMAIN rows /\ last # None  BY <1>1, <1>3 DEF Public
<1>5. read = [items |-> all, cursor |-> last, steady |-> seen.steady]
  <2> HIDE DEF all, last
  <2>1. seen = [items |-> seen.items, cursor |-> seen.cursor, steady |-> seen.steady]
    BY DEF Reads
  <2>2. [seen EXCEPT !.items = all]
          = [items |-> all, cursor |-> seen.cursor, steady |-> seen.steady]
    BY <2>1
  <2>3. read = [[seen EXCEPT !.items = all] EXCEPT !.cursor = last]  BY DEF all, last
  <2>4. [[items |-> all, cursor |-> seen.cursor, steady |-> seen.steady] EXCEPT !.cursor = last]
          = [items |-> all, cursor |-> last, steady |-> seen.steady]
    OBVIOUS
  <2> HIDE DEF read
  <2> QED  BY <2>2, <2>3, <2>4
<1> HIDE DEF all, last, read
<1>6. read \in [items : Seq(DOMAIN rows), cursor : DOMAIN rows \cup {None},
                steady : SUBSET Public(rows)]
  BY <1>1, <1>4, <1>5 DEF Reads
<1>7. ASSUME NEW k \in DOMAIN all PROVE all[k] = last \/ Newer(all[k], last)
  <2>1. /\ Len(all) \in DOMAIN all /\ all[Len(all)] = last /\ k <= Len(all)
        /\ Len(all) \in Nat /\ k \in Nat
    <3>1. seen.items \in Seq(DOMAIN rows)  BY DEF Reads
    <3>2. /\ \A l \in DOMAIN page : Len(seen.items) + l \in DOMAIN all
                                    /\ all[Len(seen.items) + l] = page[l]
      <4>1. Follows(seen.items, page, all, DOMAIN rows)  BY <1>1, <3>1, Joined DEF all
      <4> QED  BY <4>1 DEF Follows
    <3>3. DOMAIN all = 1..Len(all) /\ Len(all) \in Nat  BY <1>1
    <3>4. Len(all) = Len(seen.items) + PageSize  BY <1>1, <1>3
    <3>5. Len(all) \in DOMAIN all /\ all[Len(all)] = last
      BY <1>3, <3>2, <3>4 DEF last
    <3> QED  BY <3>3, <3>5
  <2>2. CASE k = Len(all)  BY <2>1, <2>2
  <2>3. CASE k < Len(all)
    <3>1. \A i, j \in DOMAIN all : i < j => Newer(all[i], all[j])  BY <1>1
    <3>2. Newer(all[k], all[Len(all)])  BY <2>1, <2>3, <3>1
    <3> QED  BY <2>1, <3>2
  <2> QED  BY <2>1, <2>2, <2>3
<1>8. ASSUME NEW s \in seen.steady PROVE Past(s, last) \/ s \in Range(all)
  <2>1. CASE s \in Range(seen.items)  BY <1>1, <2>1
  <2>2. CASE Past(s, seen.cursor)
    <3>1. s \in left  BY <2>2 DEF Reads
    <3>2. s \in Range(page) \/ Newer(last, s)  BY <1>3, <3>1 DEF Pages, last
    <3> QED  BY <1>1, <3>2 DEF Past
  <2> QED  BY <2>1, <2>2 DEF Reads
<1>9. Reads(read)  BY <1>1, <1>4, <1>5, <1>6, <1>7, <1>8 DEF Reads
<1> QED  BY <1>9 DEF read

\* The last page has everything that was left.
LEMMA LastPageReads ==
  ASSUME rows \in Seq(Review), None \notin DOMAIN rows, NEW seen, Reads(seen),
         NEW left, left = {r \in Public(rows) : Past(r, seen.cursor)},
         NEW page \in Pages(left), ~(Cardinality(left) > PageSize)
  PROVE  IsInjective(seen.items \o page) /\ seen.steady \subseteq Range(seen.items \o page)
<1> DEFINE all == seen.items \o page
<1>1. /\ all \in Seq(DOMAIN rows)
      /\ IsFiniteSet(left) /\ Len(page) = Lesser(PageSize, Cardinality(left))
      /\ page \in [1..Len(page) -> left] /\ page \in Seq(DOMAIN rows) /\ Len(page) \in Nat
      /\ \A k, l \in DOMAIN page : k < l => Newer(page[k], page[l])
      /\ \A k, l \in DOMAIN all : k < l => Newer(all[k], all[l])
      /\ \A r \in Range(seen.items) \cup Range(page) : r \in Range(all)
  BY PageJoins
<1> HIDE DEF all
<1>2. PageSize \in Nat \ {0} /\ Cardinality(left) \in Nat
  BY <1>1, ContributionsAssumption, FS_CardinalityType
<1>3. Len(page) = Cardinality(left)  BY <1>1, <1>2 DEF Lesser
<1>4. Range(page) = left
  <2>1. ASSUME NEW k \in 1..Len(page), NEW l \in 1..Len(page), page[k] = page[l] PROVE k = l
    <3>1. page[k] \in DOMAIN rows /\ page[l] \in DOMAIN rows  BY <1>1
    <3>2. ~(k < l) /\ ~(l < k)  BY <1>1, <2>1, <3>1, NewerOrders
    <3> QED  BY <1>1, <3>2
  <2>2. page \in Injection(1..Len(page), left)  BY <1>1, <2>1 DEF Injection, IsInjective
  <2>3. Cardinality(1..Len(page)) = Len(page)
    <3>1. Len(page) \in Int /\ 1 \in Int /\ Len(page) >= 0  BY <1>1
    <3>2. Cardinality(1..Len(page)) = IF 1 > Len(page) THEN 0 ELSE Len(page) - 1 + 1
      BY <3>1, FS_Interval, Zenon
    <3> QED  BY <3>1, <3>2
  <2>4. page \in Surjection(1..Len(page), left)  BY <1>1, <1>3, <2>2, <2>3, FS_Injection
  <2> QED  BY <1>1, <2>4 DEF Surjection, Range
<1>5. ASSUME NEW k \in DOMAIN all, NEW l \in DOMAIN all, all[k] = all[l] PROVE k = l
  <2>1. all[k] \in DOMAIN rows /\ all[l] \in DOMAIN rows /\ k \in Nat /\ l \in Nat  BY <1>1
  <2>2. ~(k < l) /\ ~(l < k)  BY <1>1, <1>5, <2>1, NewerOrders
  <2> QED  BY <2>1, <2>2
<1>6. ASSUME NEW s \in seen.steady PROVE s \in Range(all)
  <2>1. CASE Past(s, seen.cursor)
    <3>1. s \in left  BY <2>1 DEF Reads
    <3> QED  BY <1>1, <1>4, <3>1
  <2>2. CASE s \in Range(seen.items)  BY <1>1, <2>2
  <2> QED  BY <2>1, <2>2 DEF Reads
<1>7. IsInjective(all) /\ seen.steady \subseteq Range(all)  BY <1>5, <1>6 DEF IsInjective
<1> QED  BY <1>7 DEF all

\* Every step but a transition leaves the other threads alone.
LEMMA OthersSame ==
  ASSUME Sched, NEW t \in Threads,
         \/ Arrive(t) \/ Limit(t) \/ CheckKey(t) \/ CheckPolicy(t) \/ Insert(t)
         \/ VoteRead(t) \/ VoteWrite(t) \/ ReportRead(t) \/ ReportWrite(t)
         \/ RegisterRead(t) \/ RegisterWrite(t) \/ ReadPage(t)
  PROVE  \A u \in Threads \ {t} : work'[u] = work[u]
<1> DEFINE Serves == (\E status, value : Answer(t, status, value))
                     \/ (\E step, seen : Proceed(t, step, seen))
<1>1. Serves => \A u \in Threads \ {t} : work'[u] = work[u]
  BY DEF Answer, Proceed, Sched
<1>2. CASE Arrive(t)  BY <1>2 DEF Arrive, Sched
<1>3. CASE Limit(t)  BY <1>1, <1>3, Zenon DEF Limit
<1>4. CASE CheckKey(t)  BY <1>1, <1>4, Zenon DEF CheckKey
<1>5. CASE CheckPolicy(t)  BY <1>1, <1>5, Zenon DEF CheckPolicy
<1>6. CASE Insert(t)  BY <1>1, <1>6, Zenon DEF Insert
<1>7. CASE VoteRead(t)  BY <1>1, <1>7, Zenon DEF VoteRead
<1>8. CASE VoteWrite(t)  BY <1>1, <1>8, Zenon DEF VoteWrite
<1>9. CASE ReportRead(t)  BY <1>1, <1>9, Zenon DEF ReportRead
<1>10. CASE ReportWrite(t)  BY <1>1, <1>10, Zenon DEF ReportWrite
<1>11. CASE RegisterRead(t)  BY <1>1, <1>11, Zenon DEF RegisterRead
<1>12. CASE RegisterWrite(t)  BY <1>1, <1>12, Zenon DEF RegisterWrite
<1>13. CASE ReadPage(t)  BY <1>1, <1>13, Zenon DEF ReadPage
<1> QED  BY <1>2, <1>3, <1>4, <1>5, <1>6, <1>7, <1>8, <1>9, <1>10, <1>11, <1>12, <1>13

\* The steps that serve requests of the other kinds, and what they leave of
\* the reviews.
LEMMA OthersServed ==
  ASSUME Sched, NEW t \in Threads,
         \/ Limit(t) \/ CheckKey(t) \/ CheckPolicy(t) \/ Insert(t) \/ VoteRead(t) \/ VoteWrite(t)
         \/ ReportRead(t) \/ ReportWrite(t) \/ RegisterRead(t) \/ RegisterWrite(t) \/ Move(t)
  PROVE  /\ work[t] # Idle /\ Request(t).kind # "read"
         /\ \/ \E status, value : Answers(t, status, value)
            \/ \E step, seen : GoesOn(t, step, seen)
         /\ Move(t) \/ rows' = rows \/ \E new : rows' = Append(rows, new)
<1>1. CASE Limit(t)  BY <1>1, LimitActs DEF tables
<1>2. CASE CheckKey(t)  BY <1>2, CheckKeyActs DEF tables
<1>3. CASE CheckPolicy(t)  BY <1>3, CheckPolicyActs DEF tables
<1>4. CASE Insert(t)  BY <1>4, InsertActs
<1>5. CASE VoteRead(t)  BY <1>5, VoteReadActs DEF tables
<1>6. CASE VoteWrite(t)  BY <1>6, VoteWriteActs
<1>7. CASE ReportRead(t)  BY <1>7, ReportReadActs DEF tables
<1>8. CASE ReportWrite(t)  BY <1>8, ReportWriteActs
<1>9. CASE RegisterRead(t)  BY <1>9, RegisterReadActs DEF tables
<1>10. CASE RegisterWrite(t)  BY <1>10, RegisterWriteActs
<1>11. CASE Move(t)  BY <1>11, MoveActs
<1> QED  BY <1>1, <1>2, <1>3, <1>4, <1>5, <1>6, <1>7, <1>8, <1>9, <1>10, <1>11

\* A new review is behind the others, and nobody can read it yet or no longer.
LEMMA RowsStay ==
  ASSUME rows \in Seq(Review), rows' = rows \/ \E new : rows' = Append(rows, new)
  PROVE  TimesStay /\ Public(rows) \subseteq Public(rows')
<1>1. CASE rows' = rows  BY <1>1 DEF TimesStay
<1>2. ASSUME NEW new, rows' = Append(rows, new)
      PROVE  TimesStay /\ Public(rows) \subseteq Public(rows')
  <2>1. \A r \in DOMAIN rows : r \in DOMAIN rows' /\ rows'[r] = rows[r]  BY <1>2
  <2> QED  BY <2>1 DEF TimesStay, Public
<1> QED  BY <1>1, <1>2

\* The readers among the threads that a step leaves alone.
LEMMA ReadersKept ==
  ASSUME Sched, Bookkept, rows \in Seq(Review), ReadInv, TimesStay,
         Public(rows) \subseteq Public(rows'), NEW u \in Threads, work'[u] = work[u]
  PROVE  ReadClaims(u)'
<1> SUFFICES ASSUME work[u] # Idle, Request(u)'.kind = "read" PROVE Reads(work[u].seen)'
  BY DEF ReadClaims
<1>1. Request(u)' = Request(u)  BY RequestStays DEF Bookkept
<1>2. PICK seen : seen = work[u].seen  OBVIOUS
<1>3. Reads(seen)  BY <1>1, <1>2 DEF ReadInv, ReadClaims
<1>4. [seen EXCEPT !.steady = seen.steady] = seen /\ seen.steady \subseteq Public(rows')
  BY <1>3 DEF Reads
<1>5. None \notin DOMAIN rows  BY ContributionsAssumption
<1>6. Reads([seen EXCEPT !.steady = seen.steady])'  BY <1>3, <1>4, <1>5, ReadsLater
<1>7. Reads(seen)'  BY <1>4, <1>6
<1> QED  BY <1>2, <1>7

\* Answers that are not to readers tell nothing of pages.
LEMMA AnswersRead ==
  ASSUME Sched, Bookkept, PagingComplete,
         \A i \in DOMAIN answers' \ DOMAIN answers : requests[i].kind # "read"
  PROVE  PagingComplete'
<1>1. requests' = requests  BY DEF Bookkept, requests
<1> SUFFICES ASSUME NEW i \in DOMAIN answers', requests[i].kind = "read"
             PROVE  /\ IsInjective(answers'[i].value.items)
                    /\ answers'[i].value.steady \subseteq Range(answers'[i].value.items)
  BY <1>1 DEF PagingComplete
<1>2. i \in DOMAIN answers /\ answers'[i] = answers[i]  BY DEF Bookkept
<1> QED  BY <1>2 DEF PagingComplete

\* A transition takes what it hides from the readers that rely on it.
LEMMA MoveReads ==
  ASSUME Sched, Bookkept, rows \in Seq(Review), ReadInv, NEW t \in Threads, Move(t)
  PROVE  \A u \in Threads \ {t} : ReadClaims(u)'
<1>1. CASE rows' = rows /\ Answer(t, "conflict", None)
  <2>1. \A u \in Threads \ {t} : work'[u] = work[u]  BY <1>1 DEF Answer, Sched
  <2>2. TimesStay /\ Public(rows) \subseteq Public(rows')  BY <1>1, RowsStay
  <2> QED  BY <2>1, <2>2, ReadersKept
<1>2. CASE /\ rows' = [rows EXCEPT ![Request(t).review].status = Request(t).target,
                        ![Request(t).review].shown = @ \/ Request(t).target = "published"]
           /\ work' = [u \in Threads |->
                IF u = t THEN Idle
                ELSE IF work[u] # Idle /\ Request(u).kind = "read"
                THEN [work[u] EXCEPT !.seen.steady = @ \cap Public(rows')]
                ELSE work[u]]
  <2>1. TimesStay
    <3> DEFINE r == Request(t).review
               status == Request(t).target
               shown == rows[r].shown \/ Request(t).target = "published"
    <3>1. rows' = [rows EXCEPT ![r].status = status, ![r].shown = shown]  BY <1>2
    <3> HIDE DEF r, status, shown
    <3>2. DOMAIN rows' = DOMAIN rows  BY <3>1
    <3>3. ASSUME NEW s \in DOMAIN rows PROVE rows'[s].at = rows[s].at
      <4>1. CASE s # r
        <5>1. rows'[s] = rows[s]  BY <3>1, <4>1
        <5> QED  BY <5>1
      <4>2. CASE s = r
        <5>1. rows'[s] = [[rows[s] EXCEPT !.status = status] EXCEPT !.shown = shown]
          BY <3>1, <4>2
        <5>2. rows[s] \in Review  OBVIOUS
        <5> QED  BY <5>1, <5>2 DEF Review
      <4> QED  BY <4>1, <4>2
    <3> QED  BY <3>2, <3>3 DEF TimesStay
  <2>2. ASSUME NEW u \in Threads \ {t} PROVE ReadClaims(u)'
    <3>1. CASE work[u] # Idle /\ Request(u).kind = "read"
      <4>1. work'[u] = [work[u] EXCEPT !.seen.steady = @ \cap Public(rows')]
        BY <1>2, <3>1
      <4>2. DOMAIN work[u] = {"request", "step", "seen"}  BY <3>1 DEF Sched
      <4>3. PICK seen : seen = work[u].seen  OBVIOUS
      <4>4. Reads(seen)  BY <3>1, <4>3 DEF ReadInv, ReadClaims
      <4>5. PICK steady : steady = seen.steady \cap Public(rows')  OBVIOUS
      <4>6. work'[u].seen = [seen EXCEPT !.steady = steady]
        BY <4>1, <4>2, <4>3, <4>5
      <4>7. None \notin DOMAIN rows  BY ContributionsAssumption
      <4>8. Reads([seen EXCEPT !.steady = steady])'
        BY <2>1, <4>4, <4>5, <4>7, ReadsLater
      <4>9. PICK later : later = [seen EXCEPT !.steady = steady]  OBVIOUS
      <4>10. Reads(later)' /\ work'[u].seen = later  BY <4>6, <4>8, <4>9
      <4> QED  BY <4>10 DEF ReadClaims
    <3>2. CASE work[u] = Idle
      <4>1. work'[u] = Idle  BY <1>2, <3>2
      <4> QED  BY <4>1 DEF ReadClaims, Idle
    <3>3. CASE work[u] # Idle /\ Request(u).kind # "read"
      <4>1. work'[u] = work[u]  BY <1>2, <3>3
      <4>2. Request(u)' = Request(u)  BY <4>1, RequestStays DEF Bookkept
      <4> QED  BY <3>3, <4>2 DEF ReadClaims
    <3> QED  BY <3>1, <3>2, <3>3
  <2> QED  BY <2>2
<1> QED  BY <1>1, <1>2 DEF Move

\* One page: more of the order, or everything.
LEMMA PageStep ==
  ASSUME Sched, Sched', Bookkept, rows \in Seq(Review), ReadInv, NEW t \in Threads, ReadPage(t)
  PROVE  ReadClaims(t)' /\ PagingComplete'
<1>1. work[t] # Idle /\ Request(t).kind = "read" /\ UNCHANGED tables  BY ReadPageActs
<1>2. rows' = rows /\ UNCHANGED <<scenario, pending, begun>>  BY <1>1 DEF tables, ReadPage
<1>3. PICK seen : seen = work[t].seen  OBVIOUS
<1>4. Reads(seen) /\ None \notin DOMAIN rows
  BY <1>1, <1>3, ContributionsAssumption DEF ReadInv, ReadClaims
<1>5. PICK left : left = {r \in Public(rows) : Past(r, seen.cursor)}  OBVIOUS
<1>6. PICK page \in Pages(left) :
        IF Cardinality(left) > PageSize
        THEN Proceed(t, "read", [[seen EXCEPT !.items = @ \o page] EXCEPT !.cursor = page[PageSize]])
        ELSE Answer(t, "ok", [seen EXCEPT !.items = @ \o page])
  BY <1>3, <1>5, Zenon DEF ReadPage
<1>7. CASE Cardinality(left) > PageSize
  <2>1. PICK read : read = [[seen EXCEPT !.items = @ \o page] EXCEPT !.cursor = page[PageSize]]
    OBVIOUS
  <2>2. Reads(read)  BY <1>4, <1>5, <1>7, <2>1, PageReads
  <2>3. GoesOn(t, "read", read)  BY <1>1, <1>2, <1>6, <1>7, <2>1, ProceedGoesOn
  <2>4. work'[t].seen = read  BY <2>3 DEF GoesOn
  <2>5. Reads(read)'  BY <1>2, <2>2 DEF Reads, Newer, Past, Public
  <2>6. ReadClaims(t)'  BY <2>4, <2>5 DEF ReadClaims
  <2>7. DOMAIN answers' \ DOMAIN answers = {}  BY <2>3 DEF GoesOn
  <2>8. PagingComplete'  BY <2>7, AnswersRead DEF ReadInv
  <2> QED  BY <2>6, <2>8
<1>8. CASE ~(Cardinality(left) > PageSize)
  <2>1. PICK read : read = [seen EXCEPT !.items = @ \o page]  OBVIOUS
  <2>2. read.items = seen.items \o page /\ read.steady = seen.steady
    BY <1>4, <2>1 DEF Reads
  <2>3. IsInjective(read.items) /\ read.steady \subseteq Range(read.items)
    BY <1>4, <1>5, <1>8, <2>2, LastPageReads
  <2>4. Answers(t, "ok", read)  BY <1>1, <1>2, <1>6, <1>8, <2>1, AnswerAnswers
  <2>5. ReadClaims(t)'  BY <2>4 DEF Answers, ReadClaims, Idle
  <2>6. /\ answers'[work[t].request] = [status |-> "ok", value |-> read]
        /\ DOMAIN answers' = DOMAIN answers \cup {work[t].request}
    BY <2>4, AnswersKeep
  <2>7. ASSUME NEW i \in DOMAIN answers', requests[i].kind = "read"
        PROVE  /\ IsInjective(answers'[i].value.items)
               /\ answers'[i].value.steady \subseteq Range(answers'[i].value.items)
    <3>1. CASE i \in DOMAIN answers
      <4>1. answers'[i] = answers[i]  BY <3>1 DEF Bookkept
      <4> QED  BY <2>7, <3>1, <4>1 DEF ReadInv, PagingComplete
    <3>2. CASE i \notin DOMAIN answers
      <4>1. answers'[i].value = read  BY <2>6, <3>2
      <4> QED  BY <2>3, <4>1
    <3> QED  BY <3>1, <3>2
  <2>8. requests' = requests  BY <1>2 DEF requests
  <2>9. PagingComplete'  BY <2>7, <2>8 DEF PagingComplete
  <2> QED  BY <2>5, <2>9
<1> QED  BY <1>7, <1>8

LEMMA ReadStep ==
  ASSUME Sched, Sched', Bookkept, rows \in Seq(Review), ReadInv, [ContributionsNext]_allVars
  PROVE  ReadInv'
<1>1. CASE TimePasses \/ UNCHANGED allVars
  <2>1. UNCHANGED <<scenario, pending, work, tables, answers, begun>>
    BY <1>1 DEF TimePasses, allVars
  <2>2. rows' = rows /\ work' = work /\ answers' = answers  BY <2>1 DEF tables
  <2>3. TimesStay /\ Public(rows) \subseteq Public(rows')  BY <2>2, RowsStay
  <2>4. \A u \in Threads : ReadClaims(u)'  BY <2>2, <2>3, ReadersKept
  <2>5. PagingComplete'  BY <2>2, AnswersRead DEF ReadInv
  <2> QED  BY <2>4, <2>5 DEF ReadInv
<1>2. ASSUME NEW t \in Threads, Arrive(t) PROVE ReadInv'
  <2>1. PICK i \in pending :
          work' = [work EXCEPT ![t] =
             [request |-> i, step |-> FirstStep(requests[i]),
              seen |-> IF requests[i].kind = "read"
                       THEN [items |-> <<>>, cursor |-> None, steady |-> Public(rows)] ELSE None]]
    BY <1>2, Zenon DEF Arrive
  <2>2. rows' = rows /\ answers' = answers /\ scenario' = scenario
    BY <1>2 DEF Arrive, tables
  <2>3. TimesStay /\ Public(rows) \subseteq Public(rows')  BY <2>2, RowsStay
  <2>4. \A u \in Threads \ {t} : work'[u] = work[u]  BY <1>2, OthersSame
  <2>5. \A u \in Threads \ {t} : ReadClaims(u)'  BY <2>3, <2>4, ReadersKept
  <2>6. ReadClaims(t)'
    <3> DEFINE first == [items |-> <<>>, cursor |-> None, steady |-> Public(rows)]
    <3>1. work'[t].request = i
          /\ (requests[i].kind = "read" => work'[t].seen = first)
      BY <2>1 DEF Sched
    <3>2. Request(t)' = requests[i]  BY <2>2, <3>1 DEF Request, requests
    <3>3. PICK seen : seen = first  OBVIOUS
    <3>4. Reads(seen)'
      <4>1. /\ seen.items = <<>> /\ seen.cursor = None /\ seen.steady = Public(rows)
            /\ seen = [items |-> <<>>, cursor |-> None, steady |-> Public(rows)]
        BY <3>3
      <4>2. DOMAIN seen.items = {}  BY <4>1
      <4>3. seen \in [items : Seq(DOMAIN rows), cursor : DOMAIN rows \cup {None},
                      steady : SUBSET Public(rows)]
        BY <4>1
      <4>4. \A s \in seen.steady : Past(s, seen.cursor)'  BY <4>1 DEF Past
      <4>5. Public(rows') = Public(rows)  BY <2>2
      <4> QED  BY <2>2, <4>2, <4>3, <4>4, <4>5 DEF Reads
    <3> QED  BY <3>1, <3>2, <3>3, <3>4 DEF ReadClaims
  <2>7. PagingComplete'  BY <2>2, AnswersRead DEF ReadInv
  <2> QED  BY <2>5, <2>6, <2>7 DEF ReadInv
<1>3. ASSUME NEW t \in Threads, ReadPage(t) PROVE ReadInv'
  <2>1. rows' = rows  BY <1>3, ReadPageActs DEF tables
  <2>2. TimesStay /\ Public(rows) \subseteq Public(rows')  BY <2>1, RowsStay
  <2>3. \A u \in Threads \ {t} : work'[u] = work[u]  BY <1>3, OthersSame
  <2>4. \A u \in Threads \ {t} : ReadClaims(u)'  BY <2>2, <2>3, ReadersKept
  <2>5. ReadClaims(t)' /\ PagingComplete'  BY <1>3, PageStep
  <2> QED  BY <2>4, <2>5 DEF ReadInv
<1>4. ASSUME NEW t \in Threads,
             \/ Limit(t) \/ CheckKey(t) \/ CheckPolicy(t) \/ Insert(t) \/ VoteRead(t)
             \/ VoteWrite(t) \/ ReportRead(t) \/ ReportWrite(t) \/ RegisterRead(t)
             \/ RegisterWrite(t) \/ Move(t)
      PROVE  ReadInv'
  <2>1. /\ work[t] # Idle /\ Request(t).kind # "read"
        /\ \/ \E status, value : Answers(t, status, value)
           \/ \E step, seen : GoesOn(t, step, seen)
        /\ Move(t) \/ rows' = rows \/ \E new : rows' = Append(rows, new)
    BY <1>4, OthersServed
  <2>2. \A i \in DOMAIN answers' \ DOMAIN answers : requests[i].kind # "read"
    <3>1. ASSUME NEW status, NEW value, Answers(t, status, value)
          PROVE  \A i \in DOMAIN answers' \ DOMAIN answers : i = work[t].request
      <4>1. DOMAIN answers' = DOMAIN answers \cup {work[t].request}  BY <3>1, AnswersKeep
      <4> QED  BY <4>1
    <3>2. (\E step, seen : GoesOn(t, step, seen)) => DOMAIN answers' \ DOMAIN answers = {}
      BY DEF GoesOn
    <3> QED  BY <2>1, <3>1, <3>2 DEF Request
  <2>3. PagingComplete'  BY <2>2, AnswersRead DEF ReadInv
  <2>4. ReadClaims(t)'
    <3>1. work'[t] = Idle \/ work'[t].request = work[t].request
      BY <2>1 DEF Answers, GoesOn
    <3>2. work'[t].request = work[t].request => Request(t)' = Request(t)
      BY RequestStays DEF Bookkept
    <3> QED  BY <2>1, <3>1, <3>2 DEF ReadClaims, Idle
  <2>5. \A u \in Threads \ {t} : ReadClaims(u)'
    <3>1. CASE Move(t)  BY <3>1, MoveReads
    <3>2. CASE ~Move(t)
      <4>1. TimesStay /\ Public(rows) \subseteq Public(rows')  BY <2>1, <3>2, RowsStay
      <4>2. \A u \in Threads \ {t} : work'[u] = work[u]  BY <1>4, <3>2, OthersSame
      <4> QED  BY <4>1, <4>2, ReadersKept
    <3> QED  BY <3>1, <3>2
  <2> QED  BY <2>3, <2>4, <2>5 DEF ReadInv
<1> QED  BY <1>1, <1>2, <1>3, <1>4 DEF ContributionsNext

\* What starts with the tables of a scenario, with no request at work.
LEMMA ContributionsStart == ContributionsInit => ContributionsInv /\ LimiterInv
<1> SUFFICES ASSUME ContributionsInit PROVE ContributionsInv /\ LimiterInv  OBVIOUS
<1>1. /\ scenario \in Scenarios /\ rows = scenario.rows /\ pending = DOMAIN requests
      /\ work = [t \in Threads |-> Idle] /\ votes = <<>> /\ reports = <<>> /\ emails = <<>>
      /\ answers = <<>> /\ begun = <<>> /\ LimiterInit
  BY DEF ContributionsInit, requests
<1>2. DOMAIN answers = {} /\ DOMAIN begun = {} /\ \A t \in Threads : work[t] = Idle
  BY <1>1
<1>3. Sched  BY <1>1, <1>2 DEF Sched
<1>4. CreateInv
  <2>1. RowsOK  BY <1>1, SentRequests, ContributionsAssumption DEF RowsOK
  <2>2. RowsCounted /\ OwnRows /\ RetryGetsSameReview
    BY <1>2 DEF RowsCounted, OwnRows, RetryGetsSameReview
  <2>3. \A t \in Threads : CreateClaims(t)  BY <1>2 DEF CreateClaims
  <2> QED  BY <1>2, <2>1, <2>2, <2>3 DEF CreateInv
<1>5. VoteInv
  <2>1. VotesOK
    <3>1. votes \in Seq(VoteRow) /\ DOMAIN votes = {}  BY <1>1
    <3> QED  BY <3>1 DEF VotesOK
  <2>2. \A t \in Threads : VoteClaims(t)  BY <1>2 DEF VoteClaims
  <2> QED  BY <1>2, <2>1, <2>2 DEF VoteInv, VotesCounted, Arrivals
<1>6. ReportInv
  <2>1. ReportsOK
    <3>1. reports \in Seq(ReportRow) /\ DOMAIN reports = {}  BY <1>1
    <3> QED  BY <3>1 DEF ReportsOK
  <2>2. \A t \in Threads : ReportClaims(t)  BY <1>2 DEF ReportClaims
  <2> QED  BY <1>2, <2>1, <2>2 DEF ReportInv, ReportsCounted
<1>7. RegisterInv
  <2>1. EmailsOK
    <3>1. emails \in Seq(Addresses) /\ DOMAIN emails = {}  BY <1>1
    <3> QED  BY <3>1 DEF EmailsOK
  <2>2. \A t \in Threads : RegisterClaims(t)  BY <1>2 DEF RegisterClaims
  <2> QED  BY <1>2, <2>1, <2>2 DEF RegisterInv, EmailsCounted
<1>8. ReadInv  BY <1>2 DEF ReadInv, ReadClaims, PagingComplete
<1> QED  BY <1>1, <1>2, <1>3, <1>4, <1>5, <1>6, <1>7, <1>8, InitInv DEF ContributionsInv

\* For the limiter, a request is the reading of a clock and, once, a consume.
LEMMA LimiterStep ==
  ASSUME Sched, [ContributionsNext]_allVars
  PROVE  [LimiterNext]_limiterVars
<1>1. CASE TimePasses  BY <1>1 DEF TimePasses, LimiterNext
<1>2. ASSUME NEW t \in Threads, Arrive(t) PROVE [LimiterNext]_limiterVars
  <2>1. ReadClock(t) \/ UNCHANGED limiterVars  BY <1>2 DEF Arrive
  <2> QED  BY <2>1 DEF LimiterNext
<1>3. ASSUME NEW t \in Threads, Limit(t) PROVE [LimiterNext]_limiterVars
  <2>1. Consume(t, Request(t).account)  BY <1>3 DEF Limit
  <2>2. Request(t).account \in Accounts
    <3>1. work[t] # Idle /\ Request(t).kind = "create"  BY <1>3, LimitActs
    <3>2. Request(t) \in Sent  BY <3>1, Working
    <3> QED  BY <3>1, <3>2 DEF Sent
  <2> QED  BY <2>1, <2>2 DEF LimiterNext
<1>4. ASSUME NEW t \in Threads,
             \/ CheckKey(t) \/ CheckPolicy(t) \/ Insert(t) \/ VoteRead(t) \/ VoteWrite(t)
             \/ ReportRead(t) \/ ReportWrite(t) \/ RegisterRead(t) \/ RegisterWrite(t)
             \/ Move(t) \/ ReadPage(t)
      PROVE  UNCHANGED limiterVars
  BY <1>4 DEF CheckKey, CheckPolicy, Insert, VoteRead, VoteWrite, ReportRead, ReportWrite,
              RegisterRead, RegisterWrite, Move, ReadPage
<1>5. CASE UNCHANGED allVars  BY <1>5 DEF allVars
<1> QED  BY <1>1, <1>2, <1>3, <1>4, <1>5 DEF ContributionsNext

\* Every step keeps the invariant.
LEMMA ContributionsStep ==
  ContributionsInv /\ LimiterInv /\ [ContributionsNext]_allVars => ContributionsInv' /\ LimiterInv'
<1> SUFFICES ASSUME ContributionsInv, LimiterInv, [ContributionsNext]_allVars
             PROVE  ContributionsInv' /\ LimiterInv'
  OBVIOUS
<1>1. Sched /\ CreateInv /\ VoteInv /\ ReportInv /\ RegisterInv /\ ReadInv
  BY DEF ContributionsInv
<1>2. LimiterInv'  BY <1>1, LimiterStep, StepInv
<1>3. /\ Sched' /\ Bookkept
      /\ \/ \E t \in Threads : Limit(t) \/ CheckKey(t) \/ CheckPolicy(t) \/ Insert(t)
         \/ Rests("create") /\ (rows' = rows \/ RowMoved)
      /\ (\E t \in Threads : VoteRead(t) \/ VoteWrite(t)) \/ (Rests("vote") /\ votes' = votes)
      /\ \/ \E t \in Threads : ReportRead(t) \/ ReportWrite(t)
         \/ Rests("report") /\ reports' = reports
      /\ \/ \E t \in Threads : RegisterRead(t) \/ RegisterWrite(t)
         \/ Rests("register") /\ emails' = emails
      /\ \A i \in DOMAIN answers' \ DOMAIN answers :
           answers'[i].status = "internal_error" =>
             requests[i].kind \in {"create", "vote", "register"}
  BY <1>1, Divided DEF CreateInv, RowsOK
<1>4. clock \in Nat  BY DEF LimiterInv, LimiterTypeOK
<1>5. CreateInv'  BY <1>1, <1>3, <1>4, CreateStep
<1>6. VoteInv'  BY <1>1, <1>3, VoteStep
<1>7. ReportInv'  BY <1>1, <1>3, ReportStep
<1>8. RegisterInv'  BY <1>1, <1>3, RegisterStep
<1>9. ASSUME NEW i \in DOMAIN answers' PROVE OtherError(i)'
  <2>1. requests' = requests  BY <1>3 DEF Bookkept, requests
  <2>2. CASE i \in DOMAIN answers
    <3>1. answers'[i] = answers[i]  BY <1>3, <2>2 DEF Bookkept
    <3> QED  BY <2>1, <2>2, <3>1 DEF ContributionsInv, OtherError
  <2>3. CASE i \notin DOMAIN answers  BY <1>3, <2>1, <2>3 DEF OtherError
  <2> QED  BY <2>2, <2>3
<1>10. ReadInv'  BY <1>1, <1>3, ReadStep DEF CreateInv, RowsOK
<1> QED  BY <1>2, <1>3, <1>5, <1>6, <1>7, <1>8, <1>9, <1>10 DEF ContributionsInv

(***************************************************************************)
(* Theorems                                                                *)
(***************************************************************************)

\* The inductive invariant holds in every behaviour: what each thread has read
\* and still relies on, and what every answer tells of the tables.
THEOREM ContributionsSafe == ContributionsSpec => [](ContributionsInv /\ LimiterInv)
BY ContributionsStart, ContributionsStep, PTL DEF ContributionsSpec

\* Every request goes through the limiter as the limiter is specified, so all
\* that is proved of the limiter holds of the application.
THEOREM RequestsAreLimited == ContributionsSpec => LimiterSpec
<1>1. ContributionsInit => LimiterInit  BY DEF ContributionsInit
<1>2. ContributionsInv /\ [ContributionsNext]_allVars => [LimiterNext]_limiterVars
  BY LimiterStep DEF ContributionsInv
<1> QED  BY <1>1, <1>2, ContributionsSafe, PTL DEF ContributionsSpec, LimiterSpec

\* What an account is granted is bounded, and a refused client that waits as it
\* was told is served, with every request of the application in between.
THEOREM ContributionsLimited == ContributionsSpec => [](RateBound /\ WaitIsEnough)
BY RequestsAreLimited, RateIsBound, WaitSuffices, PTL

\* Two requests are answered with the same review exactly if one repeats the
\* other, by its account and its key, and also when both were on their way at
\* once: the look for the key, the unchecked time after it and the table's
\* refusal work together.
THEOREM SameReviewAlways == ContributionsSpec => []SameReviewForSameKey
<1>1. ASSUME ContributionsInv PROVE SameReviewForSameKey
  <2> SUFFICES ASSUME NEW i \in DOMAIN answers, NEW j \in DOMAIN answers, i # j,
                      Created(i), Created(j)
               PROVE  answers[i].value = answers[j].value
                        <=> /\ requests[i].key # None /\ requests[i].key = requests[j].key
                            /\ requests[i].account = requests[j].account
    BY DEF SameReviewForSameKey
  <2>1. UniqueReviews(rows) /\ OwnRows /\ RowOf(i) /\ RowOf(j)
    BY <1>1 DEF ContributionsInv, CreateInv, RowsOK
  <2>2. PICK r \in DOMAIN rows :
          /\ answers[i] = [status |-> "created", value |-> r]
          /\ rows[r].key = requests[i].key /\ rows[r].account = requests[i].account
    BY <2>1 DEF RowOf, Created
  <2>3. PICK q \in DOMAIN rows :
          /\ answers[j] = [status |-> "created", value |-> q]
          /\ rows[q].key = requests[j].key /\ rows[q].account = requests[j].account
    BY <2>1 DEF RowOf, Created
  <2>4. answers[i].value = r /\ answers[j].value = q  BY <2>2, <2>3
  <2>5. requests[i].key = None /\ requests[j].key = None => r # q
    BY <2>1, <2>4 DEF OwnRows
  <2>6. requests[i].key # None /\ requests[i].key = requests[j].key => r = q
    BY <2>1, <2>2, <2>3 DEF UniqueReviews
  <2> QED  BY <2>2, <2>3, <2>4, <2>5, <2>6
<1>2. ContributionsInv => SameReviewForSameKey  BY <1>1
<1> QED  BY <1>2, ContributionsSafe, PTL

\* A request sent again with its key gets the review of the first answer.
THEOREM RetriesAgree == ContributionsSpec => []RetryGetsSameReview
<1>1. ContributionsInv => RetryGetsSameReview  BY DEF ContributionsInv, CreateInv
<1> QED  BY <1>1, ContributionsSafe, PTL

\* An internal error has its cause in a request served at the same time, in the
\* table that refuses to replace a rejected review, or in what the endpoint does
\* not check: a malformed rating, an unknown course or term, an empty key.
THEOREM ErrorsHaveCauses == ContributionsSpec => []ErrorsExplained
<1>1. ASSUME ContributionsInv PROVE ErrorsExplained
  <2> SUFFICES ASSUME NEW i \in DOMAIN answers, answers[i].status = "internal_error"
               PROVE  CASE requests[i].kind = "create" ->
                             \/ requests[i].body = "malformed" \/ requests[i].slot \notin Offered
                             \/ requests[i].key = Empty /\ \E r \in DOMAIN rows : rows[r].key = Empty
                             \/ answers[i].value = {"rejected"}
                             \/ \E r \in (begun[i].rows + 1)..Len(rows) :
                                  SameSlot(rows[r], requests[i]) \/ rows[r].key = requests[i].key
                        [] requests[i].kind = "vote" ->
                             \E v \in (begun[i].votes + 1)..Len(votes) :
                               /\ votes[v].account = requests[i].account
                               /\ votes[v].review = requests[i].review
                        [] requests[i].kind = "register" ->
                             \E n \in (begun[i].emails + 1)..Len(emails) : emails[n] = requests[i].email
    BY DEF ErrorsExplained
  <2>1. requests[i].kind \in {"create", "vote", "register"}
    BY <1>1 DEF ContributionsInv, OtherError
  <2>2. CreateError(i) /\ VoteError(i) /\ RegisterError(i)
    BY <1>1 DEF ContributionsInv, CreateInv, VoteInv, RegisterInv
  <2>3. CASE requests[i].kind = "create"  BY <2>2, <2>3 DEF CreateError
  <2>4. CASE requests[i].kind = "vote"  BY <2>2, <2>4 DEF VoteError, Concerns
  <2>5. CASE requests[i].kind = "register"  BY <2>2, <2>5 DEF RegisterError
  <2> QED  BY <2>1, <2>3, <2>4, <2>5
<1>2. ContributionsInv => ErrorsExplained  BY <1>1
<1> QED  BY <1>2, ContributionsSafe, PTL

\* The stored vote of an account on a review is one that no later vote of the
\* account followed, however its requests overlap and with stale copies of it.
THEOREM LastVoteIsStored == ContributionsSpec => []VoteOfRecord
<1>1. ContributionsInv => VoteOfRecord
  BY DEF ContributionsInv, VoteInv, VoteStands, Ruling, Stands, VoteOfRecord
<1> QED  BY <1>1, ContributionsSafe, PTL

\* The moderators' count of reports is a count of accounts, unless an account
\* reported twice, and then both reports were on their way when the first of
\* them was stored.
THEOREM QueueCountsAccounts == ContributionsSpec => []QueueCountsReporters
<1>1. ASSUME ContributionsInv PROVE QueueCountsReporters
  <2> SUFFICES ASSUME NEW r \in DOMAIN ModerationQueue
               PROVE  LET of == {p \in DOMAIN reports : reports[p].review = r}
                          twice == {pq \in of \X of : /\ pq[1] < pq[2]
                                                       /\ reports[pq[1]].account = reports[pq[2]].account}
                      IN  /\ twice = {} => ModerationQueue[r] = Cardinality({reports[p].account : p \in of})
                          /\ \A pq \in twice : begun[reports[pq[2]].request].reports < pq[1]
    BY DEF QueueCountsReporters
  <2> DEFINE of == {p \in DOMAIN reports : reports[p].review = r}
             twice == {pq \in of \X of : /\ pq[1] < pq[2]
                                          /\ reports[pq[1]].account = reports[pq[2]].account}
             accounts == {reports[p].account : p \in of}
             by == [p \in of |-> reports[p].account]
  <2>1. ModerationQueue[r] = Cardinality(of)  BY DEF ModerationQueue
  <2>2. ReportsOK /\ DOMAIN reports = 1..Len(reports) /\ Len(reports) \in Nat
    BY <1>1 DEF ContributionsInv, ReportInv, ReportsOK
  <2>3. IsFiniteSet(of)
    <3>1. IsFiniteSet(1..Len(reports))  BY <2>2, FS_Interval
    <3>2. of \in SUBSET (1..Len(reports))  BY <2>2
    <3> QED  BY <3>1, <3>2, FS_Subset
  <2>4. ASSUME NEW pq \in twice PROVE begun[reports[pq[2]].request].reports < pq[1]
    <3>1. PICK p \in of, q \in of : pq = <<p, q>>  OBVIOUS
    <3>2. p < q /\ reports[p].account = reports[q].account  BY <2>4, <3>1
    <3> QED  BY <2>2, <3>1, <3>2 DEF ReportsOK
  <2>5. ASSUME twice = {} PROVE ModerationQueue[r] = Cardinality(accounts)
    <3>0. ASSUME NEW p \in of, NEW q \in of, reports[p].account = reports[q].account PROVE p = q
      <4>1. <<p, q>> \notin twice /\ <<q, p>> \notin twice  BY <2>5
      <4>2. ~(p < q) /\ ~(q < p)  BY <3>0, <4>1
      <4>3. p \in Nat /\ q \in Nat  BY <2>2
      <4> QED  BY <4>2, <4>3
    <3>1. by \in Bijection(of, accounts)
      BY <3>0, Zenon DEF Bijection, Injection, Surjection, IsInjective
    <3> HIDE DEF of, accounts, by
    <3>2. Cardinality(accounts) = Cardinality(of)
      BY <2>3, <3>1, FS_Bijection DEF ExistsBijection
    <3> QED  BY <2>1, <3>2
  <2> QED  BY <2>4, <2>5
<1>2. ContributionsInv => QueueCountsReporters  BY <1>1
<1> QED  BY <1>2, ContributionsSafe, PTL

\* Who reads all pages gets no review twice, and every review that was public
\* all the time, whatever is published and hidden between the pages.
THEOREM PagesAreComplete == ContributionsSpec => []PagingComplete
<1>1. ContributionsInv => PagingComplete  BY DEF ContributionsInv, ReadInv
<1> QED  BY <1>1, ContributionsSafe, PTL

=============================================================================
