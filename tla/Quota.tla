--------------------------------- MODULE Quota ---------------------------------
(***************************************************************************)
(* Admission control of services/ingest/internal/quota/quota.go: the Redis *)
(* counters behind POST /v1/batch, with their expiry.                      *)
(*                                                                         *)
(* Time is counted in ticks, Sec to the second.  A caller names its        *)
(* buckets with the receivedAt of its request, read before the token was   *)
(* verified and the body was uploaded: the per-second bucket with the      *)
(* second it lies in, the daily one with the UTC day.  The script runs up  *)
(* to MaxLatency later, on counters whose TTL runs on Redis' clock.        *)
(***************************************************************************)
EXTENDS Integers

CONSTANTS
    Installs, Tenants, TenantOf,
    RPS,           \* per install; 0 is unlimited
    DailyEvents,   \* per tenant; 0 is unlimited
    Calls,         \* clients' batches, sent again and again
    Inst, Units,   \* per call: whose batch, how many units it charges
    Sec,           \* ticks of a second
    DayLen,        \* ticks of a UTC day, and so on
    RateTTL,       \* TTL of a per-second counter
    MaxLatency,    \* longest time from receivedAt to the script
    MaxClock

(* A daily counter lives 48 hours after it was last touched. *)
DayTTL == 2 * DayLen

ASSUME QuotaAssumption ==
    /\ TenantOf \in [Installs -> Tenants]
    /\ RPS \in [Installs -> Nat] /\ DailyEvents \in [Tenants -> Nat]
    /\ Inst \in [Calls -> Installs] /\ Units \in [Calls -> Nat \ {0}]
    /\ Sec \in Nat \ {0} /\ DayLen \in Nat \ {0} /\ RateTTL \in Nat \ {0}
    /\ MaxLatency \in Nat /\ MaxLatency <= DayLen
    /\ MaxClock \in Nat

Times == 0 .. MaxClock
SecOf(t) == t \div Sec
Seconds  == 0 .. SecOf(MaxClock)
DayOf(t) == t \div DayLen
Days  == 0 .. DayOf(MaxClock)

VARIABLES
    clock,
    step,        \* per call: idle, calling, or the reason it was denied
    now,         \* per call: receivedAt
    retryAt,     \* per call: when Retry-After lets it come back
    rate,        \* rl:{tenant}:install:second counters
    rateExp,     \* when they expire
    day,         \* q:{tenant}:date counters
    dayExp,
    rateTaken,   \* history: all the units a bucket ever admitted
    dayTaken

redis  == <<rate, rateExp, day, dayExp>>
taken  == <<rateTaken, dayTaken>>
vars   == <<clock, step, now, retryAt, redis, taken>>

TypeOK ==
    /\ clock \in Times
    /\ step \in [Calls -> {"idle", "calling", "rate_limit", "daily_quota"}]
    /\ now \in [Calls -> Times]
    /\ retryAt \in [Calls -> Nat]
    /\ rate \in [Installs -> [Seconds -> Nat]]
    /\ rateExp \in [Installs -> [Seconds -> Nat]]
    /\ day \in [Tenants -> [Days -> Nat]]
    /\ dayExp \in [Tenants -> [Days -> Nat]]
    /\ rateTaken \in [Installs -> [Seconds -> Nat]]
    /\ dayTaken \in [Tenants -> [Days -> Nat]]

Init ==
    /\ clock = 0
    /\ step = [c \in Calls |-> "idle"]
    /\ now = [c \in Calls |-> 0]
    /\ retryAt = [c \in Calls |-> 0]
    /\ rate = [i \in Installs |-> [s \in Seconds |-> 0]]
    /\ rateExp = rate
    /\ day = [t \in Tenants |-> [d \in Days |-> 0]]
    /\ dayExp = day
    /\ rateTaken = rate
    /\ dayTaken = day

-------------------------------------------------------------------------------
(* MUTANT of Arrive: receivedAt is rounded up. *)
ArriveRoundedUp(c) ==
    /\ step[c] # "calling"
    /\ clock >= retryAt[c]
    /\ step' = [step EXCEPT ![c] = "calling"]
    /\ now' = [now EXCEPT ![c] = clock + 1]
    /\ UNCHANGED <<clock, retryAt, redis, taken>>

(* A batch arrives and reads the clock, for the first time or when it      *)
(* comes back after a 429.                                                 *)
Arrive(c) ==
    /\ step[c] # "calling"
    /\ clock >= retryAt[c]
    /\ step' = [step EXCEPT ![c] = "calling"]
    /\ now' = [now EXCEPT ![c] = clock]
    /\ UNCHANGED <<clock, retryAt, redis, taken>>

(* MUTANTS of OverRate and OverDaily: the batch's own units are left out. *)
OverRateBefore(c) ==
    RPS[Inst[c]] > 0 /\ rate[Inst[c]][SecOf(now[c])] > RPS[Inst[c]]
OverDailyBefore(c) ==
    LET t == TenantOf[Inst[c]]
    IN  DailyEvents[t] > 0 /\ day[t][DayOf(now[c])] > DailyEvents[t]

OverRate(c) ==
    RPS[Inst[c]] > 0 /\ rate[Inst[c]][SecOf(now[c])] + Units[c] > RPS[Inst[c]]
OverDaily(c) ==
    LET t == TenantOf[Inst[c]]
    IN  DailyEvents[t] > 0 /\ day[t][DayOf(now[c])] + Units[c] > DailyEvents[t]

(* Both counters grow and both TTLs start afresh. *)
Charge(c) ==
    LET i == Inst[c]
        t == TenantOf[i]
        s == SecOf(now[c])
        d == DayOf(now[c])
    IN  /\ ~OverRate(c) /\ ~OverDaily(c)
        /\ rate' = [rate EXCEPT ![i][s] = @ + Units[c]]
        /\ rateExp' = [rateExp EXCEPT ![i][s] = clock + RateTTL]
        /\ day' = [day EXCEPT ![t][d] = @ + Units[c]]
        /\ dayExp' = [dayExp EXCEPT ![t][d] = clock + DayTTL]
        /\ rateTaken' = [rateTaken EXCEPT ![i][s] = @ + Units[c]]
        /\ dayTaken' = [dayTaken EXCEPT ![t][d] = @ + Units[c]]

(* The script admits the batch; the call ends. *)
Admit(c) ==
    /\ step[c] = "calling"
    /\ Charge(c)
    /\ step' = [step EXCEPT ![c] = "idle"]
    /\ retryAt' = [retryAt EXCEPT ![c] = 0]
    /\ now' = [now EXCEPT ![c] = 0]
    /\ UNCHANGED clock

(* The script admits the batch but its answer is lost: the Redis client    *)
(* may run it again under the same keys, or the caller gives up (Fail).    *)
AdmitUnheard(c) ==
    /\ step[c] = "calling"
    /\ Charge(c)
    /\ UNCHANGED <<clock, step, now, retryAt>>

(* untilNextUTCDay *)
UntilNextDay(t) == (DayOf(t) + 1) * DayLen - t

(* MUTANT of RetryAfter: the wait is only truncated. *)
RetryAfterTruncated(wait) == wait \div Sec

(* The Retry-After header: the wait truncated to whole seconds, and one    *)
(* second more for what was cut off.                                       *)
RetryAfter(wait) == wait \div Sec + 1

(* Nothing is consumed; the client is told how many seconds to stay away. *)
Deny(c) ==
    /\ step[c] = "calling"
    /\ \/ /\ OverRate(c)
          /\ step' = [step EXCEPT ![c] = "rate_limit"]
          /\ retryAt' = [retryAt EXCEPT ![c] = clock + RetryAfter(Sec) * Sec]
       \/ /\ ~OverRate(c) /\ OverDaily(c)
          /\ step' = [step EXCEPT ![c] = "daily_quota"]
          /\ retryAt' = [retryAt EXCEPT ![c] =
                            clock + RetryAfter(UntilNextDay(now[c])) * Sec]
    /\ UNCHANGED <<clock, now, redis, taken>>

(* Redis is unreachable, the body does not arrive, or the pod dies. *)
Fail(c) ==
    /\ step[c] = "calling"
    /\ step' = [step EXCEPT ![c] = "idle"]
    /\ retryAt' = [retryAt EXCEPT ![c] = 0]
    /\ now' = [now EXCEPT ![c] = 0]
    /\ UNCHANGED <<clock, redis, taken>>

(* Redis drops a counter whose TTL has passed. *)
ExpireRate(i, s) ==
    /\ rate[i][s] > 0 /\ clock >= rateExp[i][s]
    /\ rate' = [rate EXCEPT ![i][s] = 0]
    /\ rateExp' = [rateExp EXCEPT ![i][s] = 0]
    /\ UNCHANGED <<clock, step, now, retryAt, day, dayExp, taken>>

ExpireDay(t, d) ==
    /\ day[t][d] > 0 /\ clock >= dayExp[t][d]
    /\ day' = [day EXCEPT ![t][d] = 0]
    /\ dayExp' = [dayExp EXCEPT ![t][d] = 0]
    /\ UNCHANGED <<clock, step, now, retryAt, rate, rateExp, taken>>

(* Counters due at this tick are gone by the next. *)
NoneOverdue ==
    /\ \A i \in Installs, s \in Seconds : rate[i][s] > 0 => clock < rateExp[i][s]
    /\ \A t \in Tenants, d \in Days : day[t][d] > 0 => clock < dayExp[t][d]

(* No call stays between receivedAt and the script longer than MaxLatency. *)
Tick ==
    /\ clock < MaxClock
    /\ NoneOverdue
    /\ \A c \in Calls : step[c] = "calling" => clock - now[c] < MaxLatency
    /\ clock' = clock + 1
    /\ UNCHANGED <<step, now, retryAt, redis, taken>>

Next ==
    \/ \E c \in Calls : \/ Arrive(c) \/ Admit(c) \/ AdmitUnheard(c)
                        \/ Deny(c) \/ Fail(c)
    \/ \E i \in Installs, s \in Seconds : ExpireRate(i, s)
    \/ \E t \in Tenants, d \in Days : ExpireDay(t, d)
    \/ Tick

Spec == Init /\ [][Next]_vars

-------------------------------------------------------------------------------
(* The daily budget is never exceeded: over all installs, pods, retries    *)
(* and repeated scripts, and although the counters expire, the units       *)
(* admitted for one UTC day stay within the tenant's budget (quota.go      *)
(* 46-70, 84, 88).                                                         *)
DayBudget ==
    \A t \in Tenants, d \in Days :
        DailyEvents[t] > 0 => dayTaken[t][d] <= DailyEvents[t]

(* An install is admitted at most RPS units with one second's receivedAt   *)
(* (quota.go 72-79), although the counter expires two seconds after use.   *)
RateBudget ==
    \A i \in Installs, s \in Seconds : RPS[i] > 0 => rateTaken[i][s] <= RPS[i]

(* How often the counter of one second can be started: it lives RateTTL at *)
(* a time, from the start of its second to the script of the last call     *)
(* that was received in it.                                                *)
Lives == 1 + (Sec - 1 + MaxLatency) \div RateTTL

(* Slow uploads stretch the per-second limit (see RateBudget) by no more   *)
(* than the lives of its counter: however the calls interleave with the    *)
(* expiry of the counter they name, however often a script is repeated,    *)
(* an install is admitted at most RPS units per life (quota.go 46-70, 83). *)
RateStretch ==
    \A i \in Installs, s \in Seconds :
        RPS[i] > 0 => rateTaken[i][s] <= RPS[i] * Lives

(* Retry-After is honest: a client that waits it out does not come back to *)
(* the bucket that refused it, also when it was refused a fraction of a    *)
(* second before midnight (batch.go 144, quota.go 100-104, 139-144).       *)
RetryMeetsFreshBucket ==
    [][\A c \in Calls :
         step'[c] = "calling" =>
           /\ step[c] = "rate_limit" => SecOf(now'[c]) # SecOf(now[c])
           /\ step[c] = "daily_quota" => DayOf(now'[c]) # DayOf(now[c])]_vars
================================================================================
