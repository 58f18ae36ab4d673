-------------------------------- MODULE Verifier --------------------------------
(***************************************************************************)
(* The JWKS cache of pkg/tenant/verify.go: how one pod resolves the kid of *)
(* a bearer token while signing keys are published and retired, fetches    *)
(* fail, and requests queue behind the mutex with the receivedAt they read *)
(* on arrival.  Signature and claim checks are not part of this module.    *)
(***************************************************************************)
EXTENDS Integers

CONSTANTS
    Kids,         \* key ids, among them ids nobody ever publishes
    FirstKids,    \* the keys published at the start
    Requests,     \* slots for requests in progress
    MinRefetch,   \* jwksMinRefetch
    TTL,          \* jwksTTL
    Grace,        \* jwksStaleGrace
    MaxWait,      \* longest time from receivedAt to holding the mutex
    MaxClock,
    None

ASSUME VerifierAssumption ==
    /\ Kids # {} /\ FirstKids \subseteq Kids
    /\ MinRefetch \in Nat \ {0} /\ TTL \in Nat /\ Grace \in Nat
    /\ MinRefetch <= TTL
    /\ MaxWait \in Nat /\ MaxClock \in Nat
    /\ (\A S \in SUBSET Kids : S # None) /\ None \notin Requests /\ None \notin Nat

VARIABLES
    clock,
    publishedAt,  \* signing_keys.created_at, None for a key that is not there
    retiredAt,    \* signing_keys.retired_at, None for NULL
    set,          \* Verifier.set, None for nil
    fetchedAt,    \* Verifier.fetchedAt
    lastRefetch,  \* Verifier.lastRefetch
    lastTry,      \* history: the clock at the last fetch attempt
    lastFailed,   \* history: whether that attempt failed
    mutex,        \* the request fetching with Verifier.mu held, or None
    step, kid, now  \* per request

keys  == <<publishedAt, retiredAt>>
cache == <<set, fetchedAt>>
tries == <<lastRefetch, lastTry, lastFailed>>
vars  == <<clock, keys, cache, tries, mutex, step, kid, now>>

Times == 0 .. MaxClock

TypeOK ==
    /\ clock \in Times
    /\ publishedAt \in [Kids -> Times \union {None}]
    /\ retiredAt \in [Kids -> Times \union {None}]
    /\ set \in (SUBSET Kids) \union {None}
    /\ fetchedAt \in Int /\ lastRefetch \in Int /\ lastTry \in Int
    /\ lastFailed \in BOOLEAN
    /\ mutex \in Requests \union {None}
    /\ step \in [Requests -> {"idle", "waiting", "refresh", "miss", "accepted", "refused"}]
    /\ kid \in [Requests -> Kids]
    /\ now \in [Requests -> Times]

AnyKid == CHOOSE k \in Kids : TRUE

(* Go's zero time is longer ago than any interval compared with it. *)
Init ==
    /\ clock = 0
    /\ publishedAt = [k \in Kids |-> IF k \in FirstKids THEN 0 ELSE None]
    /\ retiredAt = [k \in Kids |-> None]
    /\ set = None
    /\ fetchedAt = -(TTL + Grace + 1)
    /\ lastRefetch = -MinRefetch /\ lastTry = -MinRefetch
    /\ lastFailed = FALSE
    /\ mutex = None
    /\ step = [r \in Requests |-> "idle"]
    /\ kid = [r \in Requests |-> AnyKid]
    /\ now = [r \in Requests |-> 0]

-------------------------------------------------------------------------------
(* What the JWKS endpoint serves: every key that is not retired. *)
PublicJWKS == {k \in Kids : publishedAt[k] # None /\ retiredAt[k] = None}

Age(r)      == now[r] - fetchedAt
Stale(r)    == set = None \/ Age(r) > TTL
MayFetch(r) == now[r] - lastRefetch >= MinRefetch

(* MUTANT of Expired: a set that cannot be refreshed is kept. *)
ExpiredNever(r) == set = None

(* Past the grace period the set is not even a fallback. *)
Expired(r)  == set = None \/ Age(r) > TTL + Grace
Known(r)    == set # None /\ kid[r] \in set

Decide(r, ok) ==
    /\ step' = [step EXCEPT ![r] = IF ok THEN "accepted" ELSE "refused"]
    /\ UNCHANGED <<clock, keys, kid, now>>

(* MUTANT of Refetch: a failing fetch does not count against the limit. *)
RefetchUncounted(r, why) ==
    /\ mutex' = r
    /\ lastTry' = clock
    /\ step' = [step EXCEPT ![r] = why]
    /\ UNCHANGED <<clock, keys, cache, lastRefetch, lastFailed, kid, now>>

(* refetchLocked up to the request: the attempt counts before its outcome. *)
Refetch(r, why) ==
    /\ mutex' = r
    /\ lastRefetch' = now[r]
    /\ lastTry' = clock
    /\ step' = [step EXCEPT ![r] = why]
    /\ UNCHANGED <<clock, keys, cache, lastFailed, kid, now>>

(* MUTANT of Arrive: receivedAt is rounded up. *)
ArriveRoundedUp(r) ==
    /\ step[r] = "idle"
    /\ step' = [step EXCEPT ![r] = "waiting"]
    /\ kid' \in {[kid EXCEPT ![r] = k] : k \in Kids}
    /\ now' = [now EXCEPT ![r] = clock + 1]
    /\ UNCHANGED <<clock, keys, cache, tries, mutex>>

(* A token with some kid arrives; receivedAt is read. *)
Arrive(r) ==
    /\ step[r] = "idle"
    /\ step' = [step EXCEPT ![r] = "waiting"]
    /\ kid' \in {[kid EXCEPT ![r] = k] : k \in Kids}
    /\ now' = [now EXCEPT ![r] = clock]
    /\ UNCHANGED <<clock, keys, cache, tries, mutex>>

(* MUTANT of Key: a kid that is missing from a fresh set is not looked for. *)
KeyWithoutMiss(r) ==
    /\ step[r] = "waiting"
    /\ mutex = None
    /\ \/ Stale(r) /\ MayFetch(r) /\ Refetch(r, "refresh")
       \/ /\ Stale(r) /\ ~MayFetch(r) /\ Expired(r)
          /\ set' = None
          /\ Decide(r, FALSE)
          /\ UNCHANGED <<fetchedAt, tries, mutex>>
       \/ /\ Stale(r) => ~MayFetch(r) /\ ~Expired(r)
          /\ Decide(r, Known(r))
          /\ UNCHANGED <<cache, tries, mutex>>

(* key, from taking the mutex to its answer or to the first fetch. *)
Key(r) ==
    /\ step[r] = "waiting"
    /\ mutex = None
    /\ \/ Stale(r) /\ MayFetch(r) /\ Refetch(r, "refresh")
       \/ /\ Stale(r) /\ ~MayFetch(r) /\ Expired(r)
          /\ set' = None
          /\ Decide(r, FALSE)
          /\ UNCHANGED <<fetchedAt, tries, mutex>>
       \/ /\ Stale(r) => ~MayFetch(r) /\ ~Expired(r)
          /\ \/ ~Known(r) /\ MayFetch(r) /\ Refetch(r, "miss")
             \/ /\ Known(r) \/ ~MayFetch(r)
                /\ Decide(r, Known(r))
                /\ UNCHANGED <<cache, tries, mutex>>

(* The endpoint answers: a fresh set, and no second fetch if the kid is    *)
(* missing from it.                                                        *)
Fetched(r) ==
    /\ step[r] \in {"refresh", "miss"}
    /\ set' = PublicJWKS
    /\ fetchedAt' = now[r]
    /\ lastFailed' = FALSE
    /\ mutex' = None
    /\ Decide(r, kid[r] \in PublicJWKS)
    /\ UNCHANGED <<lastRefetch, lastTry>>

(* The fetch fails, by the endpoint's fault or because this request was    *)
(* cancelled.  A stale set within its grace period still answers.          *)
FetchFailed(r) ==
    /\ step[r] \in {"refresh", "miss"}
    /\ lastFailed' = TRUE
    /\ mutex' = None
    /\ set' = IF step[r] = "refresh" /\ Expired(r) THEN None ELSE set
    /\ Decide(r, step[r] = "refresh" /\ ~Expired(r) /\ Known(r))
    /\ UNCHANGED <<fetchedAt, lastRefetch, lastTry>>

Finish(r) ==
    /\ step[r] \in {"accepted", "refused"}
    /\ step' = [step EXCEPT ![r] = "idle"]
    /\ kid' = [kid EXCEPT ![r] = AnyKid]
    /\ now' = [now EXCEPT ![r] = 0]
    /\ UNCHANGED <<clock, keys, cache, tries, mutex>>

-------------------------------------------------------------------------------
(* Key rotation, by an operator on signing_keys. *)
Publish(k) ==
    /\ publishedAt[k] = None
    /\ publishedAt' = [publishedAt EXCEPT ![k] = clock]
    /\ UNCHANGED <<clock, retiredAt, cache, tries, mutex, step, kid, now>>

Retire(k) ==
    /\ k \in PublicJWKS
    /\ retiredAt' = [retiredAt EXCEPT ![k] = clock]
    /\ UNCHANGED <<clock, publishedAt, cache, tries, mutex, step, kid, now>>

Tick ==
    /\ clock < MaxClock
    /\ \A r \in Requests :
          step[r] \in {"waiting", "refresh", "miss"} => clock - now[r] < MaxWait
    /\ clock' = clock + 1
    /\ UNCHANGED <<keys, cache, tries, mutex, step, kid, now>>

Next ==
    \/ \E r \in Requests : \/ Arrive(r) \/ Key(r) \/ Fetched(r)
                           \/ FetchFailed(r) \/ Finish(r)
    \/ \E k \in Kids : Publish(k) \/ Retire(k)
    \/ Tick

Spec == Init /\ [][Next]_vars

-------------------------------------------------------------------------------
(* A retired key dies: no token is accepted more than TTL + Grace after    *)
(* its key was retired, however long the endpoint stays unreachable and    *)
(* whatever the order in which queued requests see the cache (verify.go    *)
(* 41-45, 193-202).                                                        *)
RetiredKeyDies ==
    \A r \in Requests :
        step[r] = "accepted" /\ retiredAt[kid[r]] # None
            => now[r] - retiredAt[kid[r]] <= TTL + Grace

(* The step that refuses r's token. *)
Refused(r) == step[r] # "refused" /\ step'[r] = "refused"

(* A published key is picked up: a token under a key of the endpoint's set *)
(* is refused only within MinRefetch of the key's publication, or after a  *)
(* fetch that failed (verify.go 206-220).                                  *)
PublishedKeyPickedUp ==
    [][\A r \in Requests :
         Refused(r) /\ kid[r] \in PublicJWKS
             => now[r] - publishedAt[kid[r]] < MinRefetch \/ lastFailed']_vars

(* Forged kids cannot hammer the endpoint: a fetch starts MinRefetch after *)
(* the last attempt, less what a request may have waited for the mutex     *)
(* (verify.go 33-35, 223-224).                                             *)
FetchesAreSpaced ==
    [][mutex = None /\ mutex' # None
         => clock - lastTry >= MinRefetch - MaxWait]_vars
=================================================================================
