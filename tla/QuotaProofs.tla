------------------------------- MODULE QuotaProofs -------------------------------
(***************************************************************************)
(* Proofs about Quota for every number of installs, tenants and calls, all *)
(* limits and every length of the run.                                     *)
(*                                                                         *)
(* The budgets are not inductive: they speak of the units ever admitted,   *)
(* the script only sees counters that may have expired.  The invariant     *)
(* adds why that is harmless: a daily counter forgets only once every call *)
(* that could still name its bucket has ended, and a per-second counter    *)
(* lives RateTTL at a time, so that calls of bounded age meet few lives.   *)
(***************************************************************************)
EXTENDS Quota, TLAPS

DayStart(d) == d * DayLen

(* A call under way is no older than MaxLatency. *)
CallsAreYoung ==
    \A c \in Calls : step[c] = "calling" =>
        now[c] <= clock /\ clock <= now[c] + MaxLatency

(* A daily counter is exact until its day has been over for a day. *)
DayExact ==
    \A t \in Tenants, d \in Days :
        /\ day[t][d] # dayTaken[t][d] => clock >= DayStart(d) + DayTTL
        /\ day[t][d] > 0 => dayExp[t][d] >= DayStart(d) + DayTTL

(* The earliest start of a per-second counter's life number k, and what an *)
(* install may have been admitted in the k lives before it.                *)
Born(s, k) == s * Sec + k * RateTTL
Full(i, k) == RPS[i] * k

(* A per-second counter was never used, or it is in some life k: it holds  *)
(* all that was admitted in this life, and this life lasts its RateTTL.    *)
InLife(i, s, k) ==
    /\ clock >= Born(s, k)
    /\ rateTaken[i][s] <= Full(i, k) + rate[i][s]
    /\ rate[i][s] > 0 => rateExp[i][s] >= Born(s, k + 1)

RateLives ==
    \A i \in Installs, s \in Seconds : RPS[i] > 0 =>
        /\ rate[i][s] <= RPS[i]
        /\ \/ rate[i][s] = 0 /\ rateTaken[i][s] = 0
           \/ \E k \in Nat : InLife(i, s, k)

(* Whoever was denied may come back only after its bucket is over. *)
DenialsOutlast ==
    \A c \in Calls :
        /\ step[c] = "rate_limit" => retryAt[c] >= Born(SecOf(now[c]), 0) + Sec
        /\ step[c] = "daily_quota" => retryAt[c] >= DayStart(DayOf(now[c])) + DayLen

IInv ==
    /\ TypeOK /\ CallsAreYoung /\ DenialsOutlast
    /\ DayExact /\ DayBudget
    /\ RateLives /\ RateStretch

(* A time lies in its day. *)
LEMMA DayBounds ==
    ASSUME NEW t \in Nat
    PROVE  /\ DayOf(t) \in Nat
           /\ DayStart(DayOf(t)) <= t
           /\ t < DayStart(DayOf(t)) + DayLen
           /\ DayStart(DayOf(t)) \in Nat
           /\ UntilNextDay(t) = DayStart(DayOf(t)) + DayLen - t
<1> DEFINE q == t \div DayLen
           m == t % DayLen
<1>1. DayLen \in Nat \ {0}
  BY QuotaAssumption
<1>2. q \in Int /\ m \in 0 .. DayLen - 1 /\ t = DayLen * q + m
  BY <1>1, Z3
<1> QED
  BY <1>1, <1>2, Z3 DEF DayOf, DayStart, UntilNextDay

(* A time lies in its second. *)
LEMMA SecBounds ==
    ASSUME NEW t \in Nat
    PROVE  /\ SecOf(t) \in Nat
           /\ Born(SecOf(t), 0) \in Nat
           /\ Born(SecOf(t), 0) <= t
           /\ t < Born(SecOf(t), 0) + Sec
<1> DEFINE q == t \div Sec
           m == t % Sec
<1>1. Sec \in Nat \ {0} /\ RateTTL \in Nat
  BY QuotaAssumption
<1>2. q \in Int /\ m \in 0 .. Sec - 1 /\ t = Sec * q + m
  BY <1>1, Z3
<1> QED
  BY <1>1, <1>2, Z3 DEF SecOf, Born

(* The Retry-After header covers the wait it was computed from, fractions  *)
(* of a second included.                                                   *)
LEMMA HeaderCoversWait ==
    ASSUME NEW w \in Nat
    PROVE  RetryAfter(w) * Sec \in Nat /\ RetryAfter(w) * Sec > w
<1> DEFINE q == w \div Sec
           m == w % Sec
<1>1. Sec \in Nat \ {0}
  BY QuotaAssumption
<1>2. q \in Int /\ m \in 0 .. Sec - 1 /\ w = Sec * q + m
  BY <1>1, Z3
<1>3. (q + 1) * Sec = Sec * q + Sec
  <2> HIDE DEF q
  <2> QED BY <1>1, <1>2, Z3
<1> QED
  BY <1>1, <1>2, <1>3, Z3 DEF RetryAfter

(* A caller that is denied its second or its day is sent past the end of   *)
(* it.                                                                     *)
LEMMA DenialOutlasts ==
    ASSUME NEW t \in Nat, NEW k \in Nat, t <= k
    PROVE  /\ k + RetryAfter(Sec) * Sec \in Nat
           /\ k + RetryAfter(Sec) * Sec >= Born(SecOf(t), 0) + Sec
           /\ k + RetryAfter(UntilNextDay(t)) * Sec \in Nat
           /\ k + RetryAfter(UntilNextDay(t)) * Sec >= DayStart(DayOf(t)) + DayLen
<1>1. /\ DayStart(DayOf(t)) \in Nat /\ t < DayStart(DayOf(t)) + DayLen
      /\ UntilNextDay(t) = DayStart(DayOf(t)) + DayLen - t
  BY DayBounds
<1>2. Born(SecOf(t), 0) \in Nat /\ Born(SecOf(t), 0) <= t
  BY SecBounds
<1>3. Sec \in Nat /\ DayLen \in Nat
  BY QuotaAssumption
<1>4. RetryAfter(Sec) * Sec \in Nat /\ RetryAfter(Sec) * Sec > Sec
  BY <1>3, HeaderCoversWait
<1>5. UntilNextDay(t) \in Nat
  BY <1>1, <1>3
<1>6. RetryAfter(UntilNextDay(t)) * Sec \in Nat
      /\ RetryAfter(UntilNextDay(t)) * Sec > UntilNextDay(t)
  BY <1>5, HeaderCoversWait
<1>7. ASSUME NEW d \in Nat, NEW n \in Nat, NEW u \in Nat, NEW h \in Nat,
             u = d + n - t, h > u
      PROVE  k + h \in Nat /\ k + h >= d + n
  BY <1>7
<1>8. ASSUME NEW b \in Nat, NEW n \in Nat, NEW h \in Nat, b <= t, h > n
      PROVE  k + h \in Nat /\ k + h >= b + n
  BY <1>8
<1>9. k + RetryAfter(Sec) * Sec \in Nat
      /\ k + RetryAfter(Sec) * Sec >= Born(SecOf(t), 0) + Sec
  BY <1>2, <1>3, <1>4, <1>8
<1>10. k + RetryAfter(UntilNextDay(t)) * Sec \in Nat
       /\ k + RetryAfter(UntilNextDay(t)) * Sec >= DayStart(DayOf(t)) + DayLen
  BY <1>1, <1>3, <1>5, <1>6, <1>7
<1> QED BY <1>9, <1>10

(* A time of the run lies in one of the run's days. *)
LEMMA DayInRange == ASSUME NEW t \in Times PROVE DayOf(t) \in Days
<1> DEFINE L == DayLen
           p == DayOf(t)
           q == DayOf(MaxClock)
<1>1. L \in Nat \ {0} /\ t \in Nat /\ MaxClock \in Nat /\ t <= MaxClock
  BY QuotaAssumption DEF Times
<1>2. p \in Nat /\ q \in Nat /\ p * L <= t /\ MaxClock < q * L + L
  BY <1>1, DayBounds DEF DayStart
<1>3. p * L < (q + 1) * L
  <2> HIDE DEF p, q
  <2> QED BY <1>1, <1>2, Z3
<1>4. p <= q
  <2> HIDE DEF p, q
  <2>1. SUFFICES ASSUME p >= q + 1 PROVE FALSE
    BY <1>2, Z3
  <2>2. p * L >= (q + 1) * L
    BY <1>1, <1>2, <2>1, Z3
  <2> QED BY <1>1, <1>2, <1>3, <2>2, Z3
<1> QED
  BY <1>2, <1>4 DEF Days

(* ... and in one of its seconds. *)
LEMMA SecInRange == ASSUME NEW t \in Times PROVE SecOf(t) \in Seconds
<1> DEFINE L == Sec
           p == SecOf(t)
           q == SecOf(MaxClock)
<1>1. L \in Nat \ {0} /\ t \in Nat /\ MaxClock \in Nat /\ t <= MaxClock /\ RateTTL \in Nat
  BY QuotaAssumption DEF Times
<1>2. p \in Nat /\ q \in Nat /\ p * L <= t /\ MaxClock < q * L + L
  <2>1. /\ p \in Nat /\ q \in Nat
        /\ Born(p, 0) <= t /\ MaxClock < Born(q, 0) + L
    BY <1>1, SecBounds
  <2>2. Born(p, 0) = p * L /\ Born(q, 0) = q * L
    <3> HIDE DEF p, q
    <3> QED BY <1>1, <2>1, Z3 DEF Born
  <2> QED BY <2>1, <2>2
<1>3. p * L < (q + 1) * L
  <2> HIDE DEF p, q
  <2> QED BY <1>1, <1>2, Z3
<1>4. p <= q
  <2> HIDE DEF p, q
  <2>1. SUFFICES ASSUME p >= q + 1 PROVE FALSE
    BY <1>2, Z3
  <2>2. p * L >= (q + 1) * L
    BY <1>1, <1>2, <2>1, Z3
  <2> QED BY <1>1, <1>2, <1>3, <2>2, Z3
<1> QED
  BY <1>2, <1>4 DEF Seconds

(* Lives follow each other RateTTL apart, and each adds one RPS. *)
LEMMA LifeSteps ==
    ASSUME NEW s \in Nat, NEW k \in Nat, NEW i \in Installs
    PROVE  /\ Born(s, k) \in Nat /\ Born(s, k + 1) = Born(s, k) + RateTTL
           /\ Full(i, k) \in Nat /\ Full(i, k + 1) = Full(i, k) + RPS[i]
           /\ Full(i, 0) = 0
<1>1. Sec \in Nat /\ RateTTL \in Nat /\ RPS[i] \in Nat
  BY QuotaAssumption
<1>2. (k + 1) * RateTTL = k * RateTTL + RateTTL
  BY <1>1, Z3
<1>3. RPS[i] * (k + 1) = RPS[i] * k + RPS[i]
  <2>1. ASSUME NEW r \in Nat PROVE r * (k + 1) = r * k + r
    BY Z3
  <2> QED BY <1>1, <2>1
<1>4. s * Sec \in Nat /\ k * RateTTL \in Nat /\ RPS[i] * k \in Nat /\ RPS[i] * 0 = 0
  BY <1>1, Z3
<1> QED BY <1>1, <1>2, <1>3, <1>4 DEF Born, Full

(* A call no older than MaxLatency meets one of the counter's first Lives. *)
LEMMA LifeInRange ==
    ASSUME NEW t \in Nat, NEW k \in Nat, NEW c \in Nat, NEW i \in Installs,
           c <= t + MaxLatency, c >= Born(SecOf(t), k)
    PROVE  Full(i, k) + RPS[i] <= RPS[i] * Lives
<1> DEFINE b == Born(SecOf(t), 0)
           q == (Sec - 1 + MaxLatency) \div RateTTL
           m == (Sec - 1 + MaxLatency) % RateTTL
<1>1. Sec \in Nat \ {0} /\ RateTTL \in Nat \ {0} /\ MaxLatency \in Nat /\ RPS[i] \in Nat
  BY QuotaAssumption
<1>2. SecOf(t) \in Nat /\ b \in Nat /\ t < b + Sec
  BY SecBounds
<1>3. Born(SecOf(t), k) = b + k * RateTTL
  <2>1. ASSUME NEW s \in Nat PROVE Born(s, k) = Born(s, 0) + k * RateTTL
    BY <1>1, Z3 DEF Born
  <2> QED BY <1>2, <2>1
<1>4. k * RateTTL \in Nat
  BY <1>1, Z3
<1>5. k * RateTTL <= Sec - 1 + MaxLatency
  <2> HIDE DEF b
  <2> QED BY <1>1, <1>2, <1>3, <1>4
<1>6. q \in Int /\ m \in 0 .. RateTTL - 1 /\ Sec - 1 + MaxLatency = RateTTL * q + m
  BY <1>1, Z3
<1> HIDE DEF b, q, m
<1>7. k <= q
  <2>1. SUFFICES ASSUME k >= q + 1 PROVE FALSE
    BY <1>6, Z3
  <2>2. k * RateTTL >= (q + 1) * RateTTL
    BY <1>1, <1>6, <2>1, Z3
  <2>3. (q + 1) * RateTTL = RateTTL * q + RateTTL
    BY <1>1, <1>6, Z3
  <2> QED BY <1>1, <1>4, <1>5, <1>6, <2>2, <2>3, Z3
<1>8. RPS[i] * k + RPS[i] <= RPS[i] * (1 + q)
  <2> DEFINE r == RPS[i]
  <2>1. r \in Nat
    BY <1>1
  <2> HIDE DEF r
  <2>2. r * k + r <= r * (1 + q)
    <3>1. q - k \in Nat
      BY <1>6, <1>7
    <3>2. r * (q - k) >= 0
      BY <2>1, <3>1, Z3
    <3>3. r * (1 + q) = r * k + r + r * (q - k)
      BY <1>6, <2>1, Z3
    <3>4. r * k \in Int /\ r * (q - k) \in Int
      BY <1>6, <2>1, Z3
    <3> QED BY <2>1, <3>2, <3>3, <3>4, Z3
  <2> QED BY <2>2 DEF r
<1> QED BY <1>8 DEF Full, Lives, q

(* A call under way still finds its daily counter exact. *)
LEMMA DayCounterExact ==
    ASSUME TypeOK, CallsAreYoung, DayExact,
           NEW c \in Calls, step[c] = "calling", NEW t \in Tenants
    PROVE  /\ DayOf(now[c]) \in Days
           /\ day[t][DayOf(now[c])] = dayTaken[t][DayOf(now[c])]
           /\ clock + DayTTL >= DayStart(DayOf(now[c])) + DayTTL
<1> DEFINE d == DayOf(now[c])
<1>1. now[c] \in Times /\ now[c] \in Nat /\ clock \in Nat
  BY QuotaAssumption DEF TypeOK, Times
<1>2. d \in Days /\ DayStart(d) \in Nat /\ DayStart(d) <= now[c]
      /\ now[c] < DayStart(d) + DayLen
  BY <1>1, DayBounds, DayInRange
<1>3. now[c] <= clock /\ clock <= now[c] + MaxLatency
  BY DEF CallsAreYoung
<1>4. clock < DayStart(d) + DayTTL /\ clock >= DayStart(d)
  BY <1>1, <1>2, <1>3, QuotaAssumption DEF DayTTL
<1> QED
  <2> HIDE DEF d
  <2>1. day[t][d] = dayTaken[t][d]
    BY <1>1, <1>2, <1>4, QuotaAssumption DEF DayExact, DayTTL
  <2> QED
    BY <1>1, <1>2, <1>4, <2>1, QuotaAssumption DEF d, DayTTL

(* What the script does to the counters keeps the daily budget and keeps   *)
(* the counters exact, whether or not its answer arrives.                  *)
LEMMA ChargeKeepsCounters ==
    ASSUME IInv, NEW c \in Calls, step[c] = "calling", Charge(c), UNCHANGED clock
    PROVE  /\ rate' \in [Installs -> [Seconds -> Nat]]
           /\ rateExp' \in [Installs -> [Seconds -> Nat]]
           /\ day' \in [Tenants -> [Days -> Nat]]
           /\ dayExp' \in [Tenants -> [Days -> Nat]]
           /\ rateTaken' \in [Installs -> [Seconds -> Nat]]
           /\ dayTaken' \in [Tenants -> [Days -> Nat]]
           /\ DayExact' /\ DayBudget' /\ RateLives' /\ RateStretch'
<1> DEFINE i == Inst[c]
           t == TenantOf[i]
           z == SecOf(now[c])
           d == DayOf(now[c])
           n == Units[c]
<1>1. i \in Installs /\ t \in Tenants /\ z \in Seconds /\ z \in Nat /\ n \in Nat
      /\ clock \in Nat
  <2>1. now[c] \in Times /\ clock \in Times
    BY DEF IInv, TypeOK
  <2>2. now[c] \in Nat /\ clock \in Nat
    BY <2>1, QuotaAssumption DEF Times
  <2>3. i \in Installs /\ n \in Nat
    BY QuotaAssumption
  <2>4. t \in Tenants
    BY <2>3, QuotaAssumption
  <2>5. z \in Seconds /\ z \in Nat
    BY <2>1, <2>2, SecInRange, SecBounds
  <2> QED BY <2>1, <2>2, <2>3, <2>4, <2>5
<1>2. d \in Days /\ day[t][d] = dayTaken[t][d]
      /\ clock + DayTTL >= DayStart(d) + DayTTL
  BY <1>1, DayCounterExact DEF IInv
<1>3. /\ rate' = [rate EXCEPT ![i][z] = @ + n]
      /\ rateExp' = [rateExp EXCEPT ![i][z] = clock + RateTTL]
      /\ day' = [day EXCEPT ![t][d] = @ + n]
      /\ dayExp' = [dayExp EXCEPT ![t][d] = clock + DayTTL]
      /\ rateTaken' = [rateTaken EXCEPT ![i][z] = @ + n]
      /\ dayTaken' = [dayTaken EXCEPT ![t][d] = @ + n]
      /\ ~(DailyEvents[t] > 0 /\ day[t][d] + n > DailyEvents[t])
      /\ ~(RPS[i] > 0 /\ rate[i][z] + n > RPS[i])
  BY DEF Charge, OverDaily, OverRate
<1>4. DayTTL \in Nat /\ RateTTL \in Nat
  BY QuotaAssumption DEF DayTTL
<1>4a. /\ clock >= Born(z, 0)
       /\ \A k \in Nat : clock >= Born(z, k) => Full(i, k) + RPS[i] <= RPS[i] * Lives
  <2>1. now[c] \in Nat /\ now[c] <= clock /\ clock <= now[c] + MaxLatency
    BY QuotaAssumption DEF IInv, TypeOK, Times, CallsAreYoung
  <2>2. Born(z, 0) \in Nat /\ Born(z, 0) <= now[c]
    BY <2>1, SecBounds
  <2>3. clock >= Born(z, 0)
    <3> HIDE DEF z
    <3> QED BY <1>1, <2>1, <2>2
  <2>4. ASSUME NEW k \in Nat, clock >= Born(z, k)
        PROVE  Full(i, k) + RPS[i] <= RPS[i] * Lives
    BY <1>1, <2>1, <2>4, LifeInRange
  <2> QED BY <2>3, <2>4
<1> HIDE DEF i, t, z, d, n
<1>5. rate' \in [Installs -> [Seconds -> Nat]] /\ rateTaken' \in [Installs -> [Seconds -> Nat]]
  BY <1>1, <1>3 DEF IInv, TypeOK
<1>6. rateExp' \in [Installs -> [Seconds -> Nat]]
  BY <1>1, <1>3, <1>4 DEF IInv, TypeOK
<1>7. day' \in [Tenants -> [Days -> Nat]] /\ dayTaken' \in [Tenants -> [Days -> Nat]]
  BY <1>1, <1>2, <1>3 DEF IInv, TypeOK
<1>8. dayExp' \in [Tenants -> [Days -> Nat]]
  BY <1>1, <1>2, <1>3, <1>4 DEF IInv, TypeOK
<1>9. DayExact'
  <2> SUFFICES ASSUME NEW u \in Tenants, NEW e \in Days
               PROVE  /\ day'[u][e] # dayTaken'[u][e] => clock >= DayStart(e) + DayTTL
                      /\ day'[u][e] > 0 => dayExp'[u][e] >= DayStart(e) + DayTTL
    BY DEF DayExact, DayStart, DayTTL
  <2>1. CASE u = t /\ e = d
    BY <1>1, <1>2, <1>3, <2>1 DEF IInv, TypeOK
  <2>2. CASE ~(u = t /\ e = d)
    <3>1. day'[u][e] = day[u][e] /\ dayTaken'[u][e] = dayTaken[u][e]
          /\ dayExp'[u][e] = dayExp[u][e]
      BY <1>1, <1>2, <1>3, <2>2 DEF IInv, TypeOK
    <3> QED BY <3>1 DEF IInv, DayExact
  <2> QED BY <2>1, <2>2
<1>10. DayBudget'
  <2> SUFFICES ASSUME NEW u \in Tenants, NEW e \in Days, DailyEvents[u] > 0
               PROVE  dayTaken'[u][e] <= DailyEvents[u]
    BY DEF DayBudget
  <2>1. CASE u = t /\ e = d
    <3>1. dayTaken'[u][e] = day[t][d] + n /\ day[t][d] \in Nat /\ DailyEvents[t] \in Nat
      BY <1>1, <1>2, <1>3, <2>1, QuotaAssumption DEF IInv, TypeOK
    <3> QED BY <1>1, <1>3, <2>1, <3>1
  <2>2. CASE ~(u = t /\ e = d)
    <3>1. dayTaken'[u][e] = dayTaken[u][e]
      BY <1>1, <1>2, <1>3, <2>2 DEF IInv, TypeOK
    <3> QED BY <3>1 DEF IInv, DayBudget
  <2> QED BY <2>1, <2>2
<1>11. RateLives' /\ RateStretch'
  <2> SUFFICES ASSUME NEW j \in Installs, NEW s \in Seconds, RPS[j] > 0
               PROVE  /\ rate'[j][s] <= RPS[j]
                      /\ \/ rate'[j][s] = 0 /\ rateTaken'[j][s] = 0
                         \/ \E k \in Nat : InLife(j, s, k)'
                      /\ rateTaken'[j][s] <= RPS[j] * Lives
    BY DEF RateLives, RateStretch
  <2>1. CASE j = i /\ s = z
    <3>1. /\ rate'[j][s] = rate[j][s] + n /\ rateTaken'[j][s] = rateTaken[j][s] + n
          /\ rateExp'[j][s] = clock + RateTTL
          /\ rate[j][s] \in Nat /\ rateTaken[j][s] \in Nat
      BY <1>1, <1>3, <2>1 DEF IInv, TypeOK
    <3>2. rate'[j][s] <= RPS[j] /\ RPS[j] \in Nat
      <4>1. RPS[j] \in Nat
        BY QuotaAssumption
      <4> QED BY <1>1, <1>3, <2>1, <3>1, <4>1
    <3>3. PICK k \in Nat : clock >= Born(z, k)
                            /\ rateTaken[j][s] <= Full(j, k) + rate[j][s]
      <4>1. CASE rate[j][s] = 0 /\ rateTaken[j][s] = 0
        <5>1. Full(j, 0) = 0
          BY <1>1, LifeSteps
        <5> QED BY <1>4a, <4>1, <5>1
      <4>2. CASE \E k \in Nat : InLife(j, s, k)
        BY <2>1, <4>2 DEF InLife
      <4> QED BY <4>1, <4>2 DEF IInv, RateLives
    <3>4. /\ Born(z, k) \in Nat /\ Born(z, k + 1) = Born(z, k) + RateTTL
          /\ Full(j, k) \in Nat
      BY <1>1, LifeSteps
    <3>5. InLife(j, s, k)'
      <4>1. clock' >= Born(z, k)
        BY <3>3
      <4>2. rateTaken'[j][s] <= Full(j, k) + rate'[j][s]
        BY <1>1, <3>1, <3>3, <3>4
      <4>3. rateExp'[j][s] >= Born(z, k + 1)
        BY <1>1, <1>4, <3>1, <3>3, <3>4
      <4> QED BY <2>1, <4>1, <4>2, <4>3 DEF InLife, Born, Full
    <3>6. rateTaken'[j][s] <= RPS[j] * Lives
      <4>1. Full(j, k) + RPS[j] <= RPS[j] * Lives
        BY <1>4a, <2>1, <3>3
      <4>2. RPS[j] * Lives \in Int
        BY <3>2, QuotaAssumption, Z3 DEF Lives
      <4>3. rateTaken'[j][s] <= Full(j, k) + rate'[j][s]
        BY <1>1, <3>1, <3>3, <3>4
      <4> QED BY <1>1, <3>1, <3>2, <3>4, <4>1, <4>2, <4>3
    <3> QED BY <3>2, <3>5, <3>6
  <2>2. CASE ~(j = i /\ s = z)
    <3>1. rate'[j][s] = rate[j][s] /\ rateTaken'[j][s] = rateTaken[j][s]
          /\ rateExp'[j][s] = rateExp[j][s]
      BY <1>1, <1>3, <2>2 DEF IInv, TypeOK
    <3>2. \A k \in Nat : InLife(j, s, k) => InLife(j, s, k)'
      BY <3>1 DEF InLife, Born, Full
    <3> QED BY <3>1, <3>2 DEF IInv, RateLives, RateStretch
  <2> QED BY <2>1, <2>2
<1> QED
  BY <1>5, <1>6, <1>7, <1>8, <1>9, <1>10, <1>11

(* The initial state: every counter is zero. *)
LEMMA InitIInv == Init => IInv
<1> SUFFICES ASSUME Init PROVE IInv
  OBVIOUS
<1>0. 0 \in Times
  BY QuotaAssumption DEF Times
<1>1. TypeOK
  BY <1>0 DEF Init, TypeOK
<1>2. CallsAreYoung /\ DenialsOutlast
  BY DEF Init, CallsAreYoung, DenialsOutlast
<1>3. DayExact
  BY DEF Init, DayExact
<1>5. RateLives
  BY QuotaAssumption DEF Init, RateLives
<1>6. RateStretch
  <2> SUFFICES ASSUME NEW i \in Installs, NEW s \in Seconds
               PROVE  rateTaken[i][s] <= RPS[i] * Lives
    BY DEF RateStretch
  <2>1. Lives \in Nat
    <3> DEFINE q == (Sec - 1 + MaxLatency) \div RateTTL
               m == (Sec - 1 + MaxLatency) % RateTTL
    <3>1. Sec \in Nat \ {0} /\ RateTTL \in Nat \ {0} /\ MaxLatency \in Nat
      BY QuotaAssumption
    <3>2. q \in Int /\ m \in 0 .. RateTTL - 1 /\ Sec - 1 + MaxLatency = RateTTL * q + m
      BY <3>1, Z3
    <3>3. 1 + q \in Nat
      BY <3>1, <3>2, Z3
    <3> QED BY <3>3 DEF Lives
  <2>2. RPS[i] \in Nat
    BY QuotaAssumption
  <2>3. RPS[i] * Lives >= 0
    BY <2>1, <2>2, Z3
  <2> QED BY <2>3 DEF Init
<1>4. DayBudget
  BY QuotaAssumption DEF Init, DayBudget
<1> QED BY <1>1, <1>2, <1>3, <1>4, <1>5, <1>6 DEF IInv

(* The invariant is inductive: one step per action. *)
LEMMA NextIInv == IInv /\ [Next]_vars => IInv'
<1> SUFFICES ASSUME IInv, [Next]_vars PROVE IInv'
  OBVIOUS
<1> USE DEF IInv
<1>0. clock \in Nat /\ MaxLatency \in Nat /\ \A c \in Calls : now[c] \in Nat /\ now[c] \in Times
  BY QuotaAssumption DEF TypeOK, Times
<1>1. ASSUME NEW c \in Calls, Arrive(c) PROVE IInv'
  <2>1. TypeOK'
    BY <1>1 DEF Arrive, TypeOK, redis, taken
  <2>2. CallsAreYoung'
    BY <1>0, <1>1, QuotaAssumption DEF Arrive, TypeOK, CallsAreYoung
  <2>3. DayExact' /\ DayBudget' /\ RateLives' /\ RateStretch'
    BY <1>1 DEF Arrive, redis, taken, DayExact, DayBudget,
           RateLives, RateStretch, InLife, Born, Full
  <2>4. DenialsOutlast'
    BY <1>1 DEF Arrive, TypeOK, DenialsOutlast
  <2> QED BY <2>1, <2>2, <2>3, <2>4
<1>2. ASSUME NEW c \in Calls, Admit(c) PROVE IInv'
  <2>0. 0 \in Times
    BY QuotaAssumption DEF Times
  <2>1. TypeOK'
    BY <1>2, <2>0, ChargeKeepsCounters DEF Admit, TypeOK
  <2>2. CallsAreYoung' /\ DenialsOutlast'
    BY <1>2 DEF Admit, TypeOK, CallsAreYoung, DenialsOutlast
  <2>3. DayExact' /\ DayBudget' /\ RateLives' /\ RateStretch'
    BY <1>2, ChargeKeepsCounters DEF Admit
  <2> QED BY <2>1, <2>2, <2>3
<1>3. ASSUME NEW c \in Calls, AdmitUnheard(c) PROVE IInv'
  <2>1. TypeOK'
    BY <1>3, ChargeKeepsCounters DEF AdmitUnheard, TypeOK
  <2>2. CallsAreYoung' /\ DenialsOutlast'
    BY <1>3 DEF AdmitUnheard, CallsAreYoung, DenialsOutlast
  <2>3. DayExact' /\ DayBudget' /\ RateLives' /\ RateStretch'
    BY <1>3, ChargeKeepsCounters DEF AdmitUnheard
  <2> QED BY <2>1, <2>2, <2>3
<1>4. ASSUME NEW c \in Calls, Deny(c) PROVE IInv'
  <2>1. now[c] <= clock /\ step[c] = "calling"
    BY <1>4 DEF Deny, CallsAreYoung
  <2>2. /\ clock + RetryAfter(Sec) * Sec \in Nat
        /\ clock + RetryAfter(Sec) * Sec >= Born(SecOf(now[c]), 0) + Sec
        /\ clock + RetryAfter(UntilNextDay(now[c])) * Sec \in Nat
        /\ clock + RetryAfter(UntilNextDay(now[c])) * Sec
             >= DayStart(DayOf(now[c])) + DayLen
    <3>1. now[c] \in Nat /\ clock \in Nat /\ now[c] <= clock
      BY <1>0, <2>1
    <3> QED BY <3>1, DenialOutlasts, Zenon
  <2>3. TypeOK'
    <3>1. step' \in [Calls -> {"idle", "calling", "rate_limit", "daily_quota"}]
      BY <1>4 DEF Deny, TypeOK
    <3>2. \E r \in Nat : retryAt' = [retryAt EXCEPT ![c] = r]
      BY <1>4, <2>2, Zenon DEF Deny
    <3>3. retryAt' \in [Calls -> Nat]
      BY <3>2 DEF TypeOK
    <3>4. UNCHANGED <<clock, now, rate, rateExp, day, dayExp, rateTaken, dayTaken>>
      BY <1>4 DEF Deny, redis, taken
    <3> QED BY <3>1, <3>3, <3>4 DEF TypeOK
  <2>4. CallsAreYoung'
    BY <1>4 DEF Deny, TypeOK, CallsAreYoung
  <2>5. DenialsOutlast'
    <3> SUFFICES ASSUME NEW b \in Calls
                 PROVE  /\ step'[b] = "rate_limit"
                             => retryAt'[b] >= Born(SecOf(now[b]), 0) + Sec
                        /\ step'[b] = "daily_quota"
                             => retryAt'[b] >= DayStart(DayOf(now[b])) + DayLen
      BY <1>4 DEF DenialsOutlast, Deny, DayStart, DayOf, Born, SecOf
    <3>1. CASE b = c
      BY <1>4, <2>2, <3>1 DEF Deny, TypeOK
    <3>2. CASE b # c
      BY <1>4, <3>2 DEF Deny, TypeOK, DenialsOutlast
    <3> QED BY <3>1, <3>2
  <2>6. DayExact' /\ DayBudget' /\ RateLives' /\ RateStretch'
    BY <1>4 DEF Deny, redis, taken, DayExact, DayBudget,
           RateLives, RateStretch, InLife, Born, Full
  <2> QED BY <2>3, <2>4, <2>5, <2>6
<1>5. ASSUME NEW c \in Calls, Fail(c) PROVE IInv'
  <2>0. 0 \in Times
    BY QuotaAssumption DEF Times
  <2>1. TypeOK'
    BY <1>5, <2>0 DEF Fail, TypeOK, redis, taken
  <2>2. CallsAreYoung' /\ DenialsOutlast'
    BY <1>5 DEF Fail, TypeOK, CallsAreYoung, DenialsOutlast
  <2>3. DayExact' /\ DayBudget' /\ RateLives' /\ RateStretch'
    BY <1>5 DEF Fail, redis, taken, DayExact, DayBudget,
           RateLives, RateStretch, InLife, Born, Full
  <2> QED BY <2>1, <2>2, <2>3
<1>6. ASSUME NEW i \in Installs, NEW s \in Seconds, ExpireRate(i, s) PROVE IInv'
  <2>1. TypeOK'
    BY <1>6 DEF ExpireRate, TypeOK, taken
  <2>2. CallsAreYoung' /\ DenialsOutlast' /\ DayExact' /\ DayBudget'
    BY <1>6 DEF ExpireRate, taken, CallsAreYoung, DenialsOutlast, DayExact, DayBudget
  <2>3. rate[i][s] > 0 /\ clock >= rateExp[i][s] /\ rateTaken' = rateTaken
        /\ rate' = [rate EXCEPT ![i][s] = 0] /\ rateExp' = [rateExp EXCEPT ![i][s] = 0]
        /\ clock' = clock
    BY <1>6 DEF ExpireRate, taken
  <2>4. RateStretch'
    BY <2>3 DEF RateStretch
  <2>5. RateLives'
    <3> SUFFICES ASSUME NEW j \in Installs, NEW r \in Seconds, RPS[j] > 0
                 PROVE  /\ rate'[j][r] <= RPS[j]
                        /\ \/ rate'[j][r] = 0 /\ rateTaken'[j][r] = 0
                           \/ \E k \in Nat : InLife(j, r, k)'
      BY DEF RateLives
    <3>1. CASE j = i /\ r = s
      <4>1. /\ rate'[j][r] = 0 /\ rateTaken'[j][r] = rateTaken[j][r]
            /\ rate[j][r] \in Nat /\ rateTaken[j][r] \in Nat
            /\ rateExp[j][r] \in Nat /\ clock >= rateExp[j][r] /\ rate[j][r] > 0
        BY <2>3, <3>1 DEF TypeOK
      <4>2. PICK k \in Nat : InLife(j, r, k)
        BY <4>1 DEF RateLives
      <4>3. RPS[j] \in Nat /\ rate[j][r] <= RPS[j] /\ r \in Nat
        BY QuotaAssumption DEF RateLives, Seconds
      <4>4. /\ Born(r, k + 1) \in Nat /\ Full(j, k) \in Nat
            /\ Full(j, k + 1) = Full(j, k) + RPS[j]
        <5>1. k + 1 \in Nat
          OBVIOUS
        <5>2. Born(r, k + 1) \in Nat
          BY <4>3, <5>1, LifeSteps
        <5> QED BY <4>3, <5>2, LifeSteps
      <4>5. clock >= Born(r, k + 1)
        BY <1>0, <4>1, <4>2, <4>4 DEF InLife
      <4>6. rateTaken[j][r] <= Full(j, k + 1)
        BY <4>1, <4>2, <4>3, <4>4 DEF InLife
      <4>7. InLife(j, r, k + 1)'
        <5>1. clock' >= Born(r, k + 1) /\ rateTaken'[j][r] <= Full(j, k + 1) + rate'[j][r]
              /\ ~(rate'[j][r] > 0)
          BY <2>3, <4>1, <4>3, <4>4, <4>5, <4>6
        <5> QED BY <5>1 DEF InLife, Born, Full
      <4> QED BY <4>1, <4>3, <4>7
    <3>2. CASE ~(j = i /\ r = s)
      <4>1. rate'[j][r] = rate[j][r] /\ rateTaken'[j][r] = rateTaken[j][r]
            /\ rateExp'[j][r] = rateExp[j][r]
        BY <2>3, <3>2 DEF TypeOK
      <4>2. \A k \in Nat : InLife(j, r, k) => InLife(j, r, k)'
        BY <2>3, <4>1 DEF InLife, Born, Full
      <4> QED BY <4>1, <4>2 DEF RateLives
    <3> QED BY <3>1, <3>2
  <2> QED BY <2>1, <2>2, <2>4, <2>5
<1>7. ASSUME NEW t \in Tenants, NEW d \in Days, ExpireDay(t, d) PROVE IInv'
  <2>1. TypeOK'
    BY <1>7 DEF ExpireDay, TypeOK, taken
  <2>2. CallsAreYoung' /\ DenialsOutlast' /\ RateLives' /\ RateStretch' /\ DayBudget'
    BY <1>7 DEF ExpireDay, taken, CallsAreYoung, DenialsOutlast, DayBudget,
                RateLives, RateStretch, InLife, Born, Full
  <2>3. DayExact'
    <3>1. DayTTL \in Nat /\ dayExp[t][d] \in Nat /\ DayStart(d) \in Int
      <4>1. d \in Int /\ DayLen \in Nat
        BY QuotaAssumption DEF Days
      <4> QED BY <4>1, QuotaAssumption DEF TypeOK, DayTTL, DayStart
    <3>2. clock >= DayStart(d) + DayTTL
      BY <1>0, <1>7, <3>1 DEF ExpireDay, DayExact
    <3> SUFFICES ASSUME NEW u \in Tenants, NEW e \in Days
                 PROVE  /\ day'[u][e] # dayTaken[u][e] => clock >= DayStart(e) + DayTTL
                        /\ day'[u][e] > 0 => dayExp'[u][e] >= DayStart(e) + DayTTL
      BY <1>7 DEF DayExact, DayStart, DayTTL, ExpireDay, taken
    <3>3. CASE u = t /\ e = d
      BY <1>7, <3>2, <3>3 DEF ExpireDay, TypeOK
    <3>4. CASE ~(u = t /\ e = d)
      <4>1. day'[u][e] = day[u][e] /\ dayExp'[u][e] = dayExp[u][e]
        BY <1>7, <3>4 DEF ExpireDay, TypeOK
      <4> QED BY <4>1 DEF DayExact
    <3> QED BY <3>3, <3>4
  <2> QED BY <2>1, <2>2, <2>3
<1>8. CASE Tick
  <2>1. clock' \in Times /\ clock' = clock + 1
    BY <1>0, <1>8, QuotaAssumption DEF Tick, Times
  <2>2. TypeOK'
    BY <1>8, <2>1 DEF Tick, TypeOK, redis, taken
  <2>3. CallsAreYoung'
    BY <1>0, <1>8, <2>1 DEF Tick, CallsAreYoung
  <2>4. DayExact'
    <3> SUFFICES ASSUME NEW u \in Tenants, NEW e \in Days
                 PROVE  /\ day[u][e] # dayTaken[u][e] => clock' >= DayStart(e) + DayTTL
                        /\ day[u][e] > 0 => dayExp[u][e] >= DayStart(e) + DayTTL
      BY <1>8 DEF DayExact, DayStart, DayTTL, Tick, redis, taken
    <3>1. DayTTL \in Nat /\ DayStart(e) \in Int
      <4>1. e \in Int /\ DayLen \in Nat
        BY QuotaAssumption DEF Days
      <4> QED BY <4>1, QuotaAssumption DEF DayTTL, DayStart
    <3> QED BY <1>0, <2>1, <3>1 DEF DayExact
  <2>5. DayBudget' /\ DenialsOutlast'
    BY <1>8 DEF Tick, DayBudget, DenialsOutlast, redis, taken
  <2>6. RateStretch' /\ RateLives'
    <3>1. UNCHANGED <<rate, rateExp, rateTaken>>
      BY <1>8 DEF Tick, redis, taken
    <3>2. ASSUME NEW i \in Installs, NEW s \in Seconds, NEW k \in Nat, InLife(i, s, k)
          PROVE  InLife(i, s, k)'
      <4>1. Born(s, k) \in Nat
        <5>1. s \in Nat
          BY DEF Seconds
        <5> QED BY <5>1, LifeSteps
      <4>2. clock' >= Born(s, k)
        BY <1>0, <2>1, <3>2, <4>1 DEF InLife
      <4> QED BY <3>1, <3>2, <4>2 DEF InLife, Born, Full
    <3> QED BY <3>1, <3>2 DEF RateLives, RateStretch
  <2> QED BY <2>2, <2>3, <2>4, <2>5, <2>6
<1>9. CASE UNCHANGED vars
  BY <1>9 DEF vars, redis, taken, TypeOK, CallsAreYoung, DayExact, DayBudget,
              RateLives, RateStretch, InLife, Born, Full, DenialsOutlast
<1> QED
  BY <1>1, <1>2, <1>3, <1>4, <1>5, <1>6, <1>7, <1>8, <1>9 DEF Next

(* Every reachable state satisfies the invariant. *)
THEOREM Invariance == Spec => []IInv
  BY InitIInv, NextIInv, PTL DEF Spec

(* The counters, their expiries and the calls keep their types. *)
THEOREM TypeCorrect == Spec => []TypeOK
  BY Invariance, PTL DEF IInv

(* No tenant is ever admitted more than its daily budget for one UTC day,  *)
(* although every counter is forgotten in the end: Allow's MaxLatency is   *)
(* below the 24 hours by which a counter outlives its day.                 *)
THEOREM DailyBudgetHolds == Spec => []DayBudget
  BY Invariance, PTL DEF IInv

(* The per-second limit under every latency: an install is admitted at     *)
(* most RPS units per life of the second's counter, and the counter has no *)
(* more than Lives of them however long uploads take.  With the code's 2 s *)
(* TTL and a 60 s upload that is 31 times RPS.                             *)
THEOREM RateStretchHolds == Spec => []RateStretch
  BY Invariance, PTL DEF IInv

(* A script that runs before the TTL of a counter born with its second is  *)
(* over meets its first life: then the limit is RPS itself.                *)
LEMMA OneLife ==
    ASSUME Sec - 1 + MaxLatency < RateTTL, RateStretch PROVE RateBudget
<1>1. Sec \in Nat \ {0} /\ RateTTL \in Nat \ {0} /\ MaxLatency \in Nat
      /\ \A i \in Installs : RPS[i] \in Nat
  BY QuotaAssumption
<1>2. (Sec - 1 + MaxLatency) \div RateTTL = 0
  BY <1>1, Z3
<1> QED BY <1>1, <1>2 DEF RateStretch, RateBudget, Lives

(* A client that waits out its Retry-After comes back to another bucket,   *)
(* whatever fraction of a second batch.go 144 cuts off its wait.           *)
THEOREM RetryAfterIsHonest == Spec => RetryMeetsFreshBucket
<1> DEFINE Fresh == \A c \in Calls :
             step'[c] = "calling" =>
               /\ step[c] = "rate_limit" => SecOf(now'[c]) # SecOf(now[c])
               /\ step[c] = "daily_quota" => DayOf(now'[c]) # DayOf(now[c])
<1>1. IInv /\ [Next]_vars => [Fresh]_vars
  <2> SUFFICES ASSUME IInv, Next, NEW c \in Calls, step'[c] = "calling",
                      step[c] \in {"rate_limit", "daily_quota"}
               PROVE  /\ step[c] = "rate_limit" => SecOf(now'[c]) # SecOf(now[c])
                      /\ step[c] = "daily_quota" => DayOf(now'[c]) # DayOf(now[c])
    OBVIOUS
  <2>1. Arrive(c)
    BY DEF Next, Arrive, Admit, AdmitUnheard, Deny, Fail, ExpireRate, ExpireDay, Tick,
           IInv, TypeOK
  <2>2. now[c] \in Nat /\ clock \in Nat /\ retryAt[c] \in Nat /\ DayLen \in Nat
    BY QuotaAssumption DEF IInv, TypeOK, Times
  <2>3. now'[c] = clock /\ clock >= retryAt[c]
    BY <2>1 DEF Arrive, IInv, TypeOK
  <2>4. CASE step[c] = "rate_limit"
    <3>1. retryAt[c] >= Born(SecOf(now[c]), 0) + Sec
      BY <2>4 DEF IInv, DenialsOutlast
    <3>2. Born(SecOf(now[c]), 0) \in Nat /\ Sec \in Nat
      BY <2>2, SecBounds, QuotaAssumption
    <3>3. clock < Born(SecOf(clock), 0) + Sec /\ Born(SecOf(clock), 0) \in Nat
      BY <2>2, SecBounds
    <3>4. SecOf(clock) # SecOf(now[c])
      BY <2>2, <2>3, <3>1, <3>2, <3>3
    <3> QED BY <2>3, <2>4, <3>4
  <2>5. CASE step[c] = "daily_quota"
    <3>1. clock >= DayStart(DayOf(now[c])) + DayLen /\ DayStart(DayOf(now[c])) \in Nat
      <4>1. DayStart(DayOf(now[c])) \in Nat
        BY <2>2, DayBounds
      <4>2. retryAt[c] >= DayStart(DayOf(now[c])) + DayLen
        BY <2>5 DEF IInv, DenialsOutlast
      <4> QED BY <2>2, <2>3, <4>1, <4>2
    <3>2. clock < DayStart(DayOf(clock)) + DayLen /\ DayStart(DayOf(clock)) \in Nat
      BY <2>2, DayBounds
    <3>3. DayOf(clock) # DayOf(now[c])
      BY <2>2, <3>1, <3>2
    <3> QED BY <2>3, <2>5, <3>3
  <2> QED BY <2>4, <2>5
<1> QED
  BY <1>1, Invariance, PTL DEF Spec, RetryMeetsFreshBucket
================================================================================
