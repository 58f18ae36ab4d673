----------------------------- MODULE VerifierProofs -----------------------------
(***************************************************************************)
(* Proofs about the JWKS cache for any number of keys and requests and for *)
(* all values of the three intervals, under every order in which queued    *)
(* requests take the mutex with the receivedAt they arrived with.          *)
(***************************************************************************)
EXTENDS Verifier, TLAPS

Fetching == {"refresh", "miss"}

(* Only the request that holds the mutex is fetching: the last attempt. *)
OneFetcher == \A r \in Requests :
    step[r] \in Fetching => mutex = r /\ lastRefetch = now[r]

(* Nobody is younger than the clock, nor waits longer than MaxWait. *)
RequestsAreYoung ==
    \A r \in Requests :
        /\ now[r] <= clock
        /\ step[r] \in {"waiting"} \union Fetching => clock - now[r] <= MaxWait

(* Only a published key is retired. *)
RetiredWerePublished == \A k \in Kids : publishedAt[k] = None => retiredAt[k] = None

(* A cached key was not yet retired when its set was fetched. *)
CacheHonest ==
    /\ fetchedAt <= clock
    /\ set # None => \A k \in set : retiredAt[k] # None => fetchedAt <= retiredAt[k]

(* lastTry and lastRefetch are the same attempt on two clocks. *)
TriesPaired == lastRefetch <= lastTry /\ lastTry <= lastRefetch + MaxWait
               /\ lastTry <= clock

(* Between fetches, if the last one did not fail, the cache misses only    *)
(* keys that were published since.                                         *)
CacheComplete ==
    mutex = None /\ ~lastFailed =>
        /\ set # None => fetchedAt = lastRefetch
        /\ set = None => lastRefetch = -MinRefetch
        /\ set # None => \A k \in PublicJWKS : k \in set \/ publishedAt[k] >= lastRefetch

IInv == /\ TypeOK /\ OneFetcher /\ RequestsAreYoung /\ RetiredWerePublished
        /\ CacheHonest /\ TriesPaired /\ CacheComplete /\ RetiredKeyDies

-------------------------------------------------------------------------------
(* The initial state: nothing cached, nobody waiting. *)
LEMMA InitIInv == Init => IInv
<1> SUFFICES ASSUME Init PROVE IInv
  OBVIOUS
<1>1. AnyKid \in Kids
  BY VerifierAssumption DEF AnyKid
<1>2. TypeOK
  <2>1. 0 \in Times /\ -(TTL + Grace + 1) \in Int /\ -MinRefetch \in Int
    BY VerifierAssumption DEF Times
  <2>2. publishedAt \in [Kids -> Times \union {None}]
    BY <2>1 DEF Init
  <2> QED BY <1>1, <2>1, <2>2 DEF Init, TypeOK
<1>3. OneFetcher /\ RequestsAreYoung
  BY VerifierAssumption DEF Init, OneFetcher, RequestsAreYoung, Fetching
<1>4. RetiredWerePublished
  <2>1. 0 # None
    BY VerifierAssumption
  <2> QED BY <2>1 DEF Init, RetiredWerePublished
<1>5. CacheHonest /\ TriesPaired /\ CacheComplete
  BY VerifierAssumption DEF Init, CacheHonest, TriesPaired, CacheComplete, PublicJWKS
<1>6. RetiredKeyDies
  BY DEF Init, RetiredKeyDies
<1> QED BY <1>2, <1>3, <1>4, <1>5, <1>6 DEF IInv

(* An arriving request changes only its own slot. *)
LEMMA ArriveKeeps == ASSUME IInv, NEW r \in Requests, Arrive(r) PROVE IInv'
<1>1. PICK k \in Kids : kid' = [kid EXCEPT ![r] = k]
  BY DEF Arrive
<1>2. /\ step[r] = "idle" /\ step' = [step EXCEPT ![r] = "waiting"]
      /\ now' = [now EXCEPT ![r] = clock]
      /\ UNCHANGED <<clock, publishedAt, retiredAt, set, fetchedAt,
                     lastRefetch, lastTry, lastFailed, mutex>>
  BY DEF Arrive, keys, cache, tries
<1>3. TypeOK'
  BY <1>1, <1>2 DEF IInv, TypeOK
<1>4. OneFetcher'
  BY <1>2 DEF IInv, TypeOK, OneFetcher, Fetching
<1>5. RequestsAreYoung'
  BY <1>2, VerifierAssumption DEF IInv, TypeOK, Times, RequestsAreYoung, Fetching
<1>6. RetiredWerePublished' /\ CacheHonest' /\ TriesPaired' /\ CacheComplete'
  BY <1>2 DEF IInv, RetiredWerePublished, CacheHonest, TriesPaired, CacheComplete,
              PublicJWKS
<1>7. RetiredKeyDies'
  BY <1>1, <1>2 DEF IInv, TypeOK, RetiredKeyDies
<1> QED BY <1>3, <1>4, <1>5, <1>6, <1>7 DEF IInv

(* A finished request gives its slot back. *)
LEMMA FinishKeeps == ASSUME IInv, NEW r \in Requests, Finish(r) PROVE IInv'
<1>1. AnyKid \in Kids
  BY VerifierAssumption DEF AnyKid
<1>2. /\ step' = [step EXCEPT ![r] = "idle"] /\ kid' = [kid EXCEPT ![r] = AnyKid]
      /\ now' = [now EXCEPT ![r] = 0]
      /\ UNCHANGED <<clock, publishedAt, retiredAt, set, fetchedAt,
                     lastRefetch, lastTry, lastFailed, mutex>>
  BY DEF Finish, keys, cache, tries
<1>3. TypeOK'
  BY <1>1, <1>2, VerifierAssumption DEF IInv, TypeOK, Times
<1>4. OneFetcher'
  BY <1>2 DEF IInv, TypeOK, OneFetcher, Fetching
<1>5. RequestsAreYoung'
  BY <1>2, VerifierAssumption DEF IInv, TypeOK, Times, RequestsAreYoung, Fetching
<1>6. RetiredWerePublished' /\ CacheHonest' /\ TriesPaired' /\ CacheComplete'
  BY <1>2 DEF IInv, RetiredWerePublished, CacheHonest, TriesPaired, CacheComplete,
              PublicJWKS
<1>7. RetiredKeyDies'
  BY <1>1, <1>2 DEF IInv, TypeOK, RetiredKeyDies
<1> QED BY <1>3, <1>4, <1>5, <1>6, <1>7 DEF IInv

(* The attempt is recorded with the request's receivedAt. *)
LEMMA RefetchKeeps ==
    ASSUME IInv, NEW r \in Requests, NEW why \in Fetching,
           step[r] = "waiting", mutex = None, MayFetch(r), Refetch(r, why)
    PROVE  IInv'
<1>1. /\ mutex' = r /\ lastRefetch' = now[r] /\ lastTry' = clock
      /\ step' = [step EXCEPT ![r] = why]
      /\ UNCHANGED <<clock, publishedAt, retiredAt, set, fetchedAt,
                     lastFailed, kid, now>>
  BY DEF Refetch, keys, cache
<1>2. why # "accepted" /\ why \in {"refresh", "miss"}
  BY DEF Fetching
<1>3. TypeOK'
  BY <1>1, <1>2 DEF IInv, TypeOK, Times
<1>4. OneFetcher'
  BY <1>1, VerifierAssumption DEF IInv, TypeOK, OneFetcher
<1>5. RequestsAreYoung'
  BY <1>1 DEF IInv, TypeOK, RequestsAreYoung
<1>6. RetiredWerePublished' /\ CacheHonest'
  BY <1>1 DEF IInv, RetiredWerePublished, CacheHonest
<1>7. TriesPaired'
  BY <1>1, VerifierAssumption DEF IInv, TypeOK, Times, RequestsAreYoung, TriesPaired
<1>8. CacheComplete'
  BY <1>1, VerifierAssumption DEF CacheComplete, PublicJWKS
<1>9. RetiredKeyDies'
  BY <1>1, <1>2 DEF IInv, TypeOK, RetiredKeyDies
<1> QED BY <1>3, <1>4, <1>5, <1>6, <1>7, <1>8, <1>9 DEF IInv

(* A decision leaves every request but its own alone. *)
LEMMA DecideKeeps ==
    ASSUME IInv, NEW r \in Requests, NEW ok \in BOOLEAN, Decide(r, ok),
           mutex' = mutex \/ (mutex' = None /\ mutex = r), lastRefetch' = lastRefetch,
           ok => (retiredAt[kid[r]] # None =>
                     now[r] - retiredAt[kid[r]] <= TTL + Grace)
    PROVE  OneFetcher' /\ RequestsAreYoung' /\ RetiredWerePublished' /\ RetiredKeyDies'
           /\ step' \in [Requests -> {"idle", "waiting", "refresh", "miss",
                                      "accepted", "refused"}]
<1>1. /\ step' = [step EXCEPT ![r] = IF ok THEN "accepted" ELSE "refused"]
      /\ UNCHANGED <<clock, publishedAt, retiredAt, kid, now>>
  BY DEF Decide, keys
<1>2. OneFetcher'
  BY <1>1 DEF IInv, TypeOK, OneFetcher, Fetching
<1>3. RequestsAreYoung'
  BY <1>1 DEF IInv, TypeOK, RequestsAreYoung, Fetching
<1>4. RetiredWerePublished'
  BY <1>1 DEF IInv, RetiredWerePublished
<1>5. RetiredKeyDies'
  BY <1>1 DEF IInv, TypeOK, RetiredKeyDies
<1>6. step' \in [Requests -> {"idle", "waiting", "refresh", "miss", "accepted", "refused"}]
  BY <1>1 DEF IInv, TypeOK
<1> QED BY <1>2, <1>3, <1>4, <1>5, <1>6

(* A key of a cached set that is not expired was retired recently at most. *)
LEMMA KnownIsYoung ==
    ASSUME IInv, NEW r \in Requests, ~Expired(r), Known(r), retiredAt[kid[r]] # None
    PROVE  now[r] - retiredAt[kid[r]] <= TTL + Grace
<1>1. /\ now[r] \in Nat /\ fetchedAt \in Int /\ retiredAt[kid[r]] \in Nat
      /\ TTL \in Nat /\ Grace \in Nat
  BY VerifierAssumption DEF IInv, TypeOK, Times
<1>2. fetchedAt <= retiredAt[kid[r]]
  BY DEF IInv, CacheHonest, Known
<1>3. now[r] - fetchedAt <= TTL + Grace
  BY <1>1 DEF Expired, Age
<1> QED BY <1>1, <1>2, <1>3

(* What key does with the mutex held, fetching or not. *)
LEMMA KeyKeeps == ASSUME IInv, NEW r \in Requests, Key(r) PROVE IInv'
<1>1. step[r] = "waiting" /\ mutex = None
  BY DEF Key
<1>2. ASSUME NEW why \in Fetching, MayFetch(r), Refetch(r, why) PROVE IInv'
  BY <1>1, <1>2, RefetchKeeps
<1>3. CASE /\ ~MayFetch(r) /\ Expired(r) /\ set' = None /\ Decide(r, FALSE)
           /\ UNCHANGED <<fetchedAt, tries, mutex>>
  <2>1. /\ OneFetcher' /\ RequestsAreYoung' /\ RetiredWerePublished' /\ RetiredKeyDies'
        /\ step' \in [Requests -> {"idle", "waiting", "refresh", "miss",
                                   "accepted", "refused"}]
    BY <1>3, DecideKeeps DEF tries
  <2>2. UNCHANGED <<clock, publishedAt, retiredAt, kid, now, fetchedAt,
                    lastRefetch, lastTry, lastFailed, mutex>>
    BY <1>3 DEF Decide, keys, tries
  <2>3. TypeOK'
    BY <1>3, <2>1, <2>2 DEF IInv, TypeOK
  <2>4. CacheHonest' /\ TriesPaired'
    BY <1>3, <2>2 DEF IInv, CacheHonest, TriesPaired
  <2>5. CacheComplete'
    <3> SUFFICES ASSUME ~lastFailed PROVE lastRefetch = -MinRefetch
      BY <1>3, <2>2 DEF CacheComplete, PublicJWKS
    <3>1. CASE set = None
      BY <1>1, <3>1 DEF IInv, CacheComplete, PublicJWKS
    <3>2. CASE set # None
      <4>1. fetchedAt = lastRefetch
        BY <1>1, <3>2 DEF IInv, CacheComplete, PublicJWKS
      <4>2. now[r] - fetchedAt > TTL + Grace /\ now[r] - lastRefetch < MinRefetch
        <5>1. now[r] \in Int /\ lastRefetch \in Int
          BY DEF IInv, TypeOK, Times
        <5> QED BY <1>3, <3>2, <5>1, VerifierAssumption DEF MayFetch, Expired, Age
      <4>3. now[r] \in Int /\ lastRefetch \in Int
        BY DEF IInv, TypeOK, Times
      <4> QED BY <4>1, <4>2, <4>3, VerifierAssumption
    <3> QED BY <3>1, <3>2
  <2> QED BY <2>1, <2>3, <2>4, <2>5 DEF IInv
<1>4. CASE /\ ~Expired(r) /\ Decide(r, Known(r))
           /\ UNCHANGED <<cache, tries, mutex>>
  <2>1. Known(r) \in BOOLEAN
    BY DEF Known
  <2>2. /\ OneFetcher' /\ RequestsAreYoung' /\ RetiredWerePublished' /\ RetiredKeyDies'
        /\ step' \in [Requests -> {"idle", "waiting", "refresh", "miss",
                                   "accepted", "refused"}]
    BY <1>4, <2>1, DecideKeeps, KnownIsYoung DEF tries
  <2>3. UNCHANGED <<clock, publishedAt, retiredAt, kid, now, set, fetchedAt,
                    lastRefetch, lastTry, lastFailed, mutex>>
    BY <1>4 DEF Decide, keys, tries, cache
  <2>4. TypeOK'
    BY <2>2, <2>3 DEF IInv, TypeOK
  <2>5. CacheHonest' /\ TriesPaired' /\ CacheComplete'
    BY <2>3 DEF IInv, CacheHonest, TriesPaired, CacheComplete, PublicJWKS
  <2> QED BY <2>2, <2>4, <2>5 DEF IInv
<1>5. ~Stale(r) => ~Expired(r)
  <2>1. now[r] \in Int /\ fetchedAt \in Int
    BY DEF IInv, TypeOK, Times
  <2> QED BY <2>1, VerifierAssumption DEF Stale, Expired, Age
<1> QED BY <1>2, <1>3, <1>4, <1>5 DEF Key, Fetching

(* A fetched set is complete, and dated no later than its contents. *)
LEMMA FetchedKeeps == ASSUME IInv, NEW r \in Requests, Fetched(r) PROVE IInv'
<1>1. /\ step[r] \in Fetching /\ set' = PublicJWKS /\ fetchedAt' = now[r]
      /\ lastFailed' = FALSE /\ mutex' = None /\ Decide(r, kid[r] \in PublicJWKS)
      /\ UNCHANGED <<lastRefetch, lastTry>>
  BY DEF Fetched, Fetching
<1>2. mutex = r /\ lastRefetch = now[r]
  BY <1>1 DEF IInv, OneFetcher
<1>3. UNCHANGED <<clock, publishedAt, retiredAt, kid, now>>
  BY <1>1 DEF Decide, keys
<1>4. kid[r] \in PublicJWKS => retiredAt[kid[r]] = None
  BY DEF PublicJWKS
<1>5. /\ OneFetcher' /\ RequestsAreYoung' /\ RetiredWerePublished' /\ RetiredKeyDies'
      /\ step' \in [Requests -> {"idle", "waiting", "refresh", "miss",
                                 "accepted", "refused"}]
  <2>1. (kid[r] \in PublicJWKS) \in BOOLEAN
    OBVIOUS
  <2> QED BY <1>1, <1>2, <1>4, <2>1, DecideKeeps
<1>6. TypeOK'
  <2>1. now[r] \in Int /\ PublicJWKS \in (SUBSET Kids) \union {None}
    BY DEF IInv, TypeOK, Times, PublicJWKS
  <2> QED BY <1>1, <1>3, <1>5, <2>1 DEF IInv, TypeOK
<1>7. CacheHonest'
  BY <1>1, <1>3 DEF IInv, TypeOK, RequestsAreYoung, PublicJWKS, CacheHonest
<1>8. TriesPaired'
  BY <1>1, <1>3 DEF IInv, TriesPaired
<1>9. CacheComplete'
  <2>1. set' # None
    BY <1>1, VerifierAssumption DEF PublicJWKS
  <2> QED BY <1>1, <1>2, <1>3, <2>1 DEF CacheComplete, PublicJWKS
<1> QED BY <1>5, <1>6, <1>7, <1>8, <1>9 DEF IInv

(* A failed fetch leaves a set only within its grace period. *)
LEMMA FetchFailedKeeps == ASSUME IInv, NEW r \in Requests, FetchFailed(r) PROVE IInv'
<1> DEFINE ok == step[r] = "refresh" /\ ~Expired(r) /\ Known(r)
<1>1. /\ step[r] \in Fetching /\ lastFailed' = TRUE /\ mutex' = None
      /\ set' = set \/ set' = None
      /\ Decide(r, ok) /\ UNCHANGED <<fetchedAt, lastRefetch, lastTry>>
  BY DEF FetchFailed, Fetching
<1>2. mutex = r
  BY <1>1 DEF IInv, OneFetcher
<1>3. UNCHANGED <<clock, publishedAt, retiredAt, kid, now>>
  BY <1>1 DEF Decide, keys
<1>4. /\ OneFetcher' /\ RequestsAreYoung' /\ RetiredWerePublished' /\ RetiredKeyDies'
      /\ step' \in [Requests -> {"idle", "waiting", "refresh", "miss",
                                 "accepted", "refused"}]
  BY <1>1, <1>2, DecideKeeps, KnownIsYoung
<1>5. TypeOK'
  BY <1>1, <1>3, <1>4 DEF IInv, TypeOK
<1>6. CacheHonest' /\ TriesPaired'
  BY <1>1, <1>3 DEF IInv, CacheHonest, TriesPaired
<1>7. CacheComplete'
  BY <1>1 DEF CacheComplete, PublicJWKS
<1> QED BY <1>4, <1>5, <1>6, <1>7 DEF IInv

(* A key is published once, later than every attempt so far. *)
LEMMA PublishKeeps == ASSUME IInv, NEW k \in Kids, Publish(k) PROVE IInv'
<1>1. /\ publishedAt[k] = None
      /\ publishedAt' = [publishedAt EXCEPT ![k] = clock]
      /\ UNCHANGED <<clock, retiredAt, set, fetchedAt, lastRefetch, lastTry,
                     lastFailed, mutex, step, kid, now>>
  BY DEF Publish, cache, tries
<1>2. TypeOK'
  BY <1>1 DEF IInv, TypeOK
<1>3. OneFetcher' /\ RequestsAreYoung' /\ CacheHonest' /\ TriesPaired' /\ RetiredKeyDies'
  BY <1>1 DEF IInv, OneFetcher, RequestsAreYoung, CacheHonest, TriesPaired, RetiredKeyDies
<1>4. clock # None
  BY VerifierAssumption DEF IInv, TypeOK, Times
<1>5. RetiredWerePublished'
  BY <1>1, <1>4 DEF IInv, TypeOK, RetiredWerePublished
<1>6. CacheComplete'
  <2>1. clock >= lastRefetch
    BY DEF IInv, TypeOK, Times, TriesPaired
  <2> QED BY <1>1, <2>1 DEF IInv, TypeOK, CacheComplete, PublicJWKS
<1> QED BY <1>2, <1>3, <1>5, <1>6 DEF IInv

(* A key is retired no earlier than any set that still holds it. *)
LEMMA RetireKeeps == ASSUME IInv, NEW k \in Kids, Retire(k) PROVE IInv'
<1>1. /\ k \in PublicJWKS
      /\ retiredAt' = [retiredAt EXCEPT ![k] = clock]
      /\ UNCHANGED <<clock, publishedAt, set, fetchedAt, lastRefetch, lastTry,
                     lastFailed, mutex, step, kid, now>>
  BY DEF Retire, cache, tries
<1>2. TypeOK'
  BY <1>1 DEF IInv, TypeOK
<1>3. OneFetcher' /\ RequestsAreYoung' /\ TriesPaired' /\ CacheComplete'
  BY <1>1 DEF IInv, OneFetcher, RequestsAreYoung, TriesPaired, CacheComplete, PublicJWKS
<1>4. RetiredWerePublished'
  BY <1>1 DEF IInv, TypeOK, RetiredWerePublished, PublicJWKS
<1>5. CacheHonest'
  BY <1>1 DEF IInv, TypeOK, CacheHonest
<1>6. RetiredKeyDies'
  <2> SUFFICES ASSUME NEW r \in Requests, step[r] = "accepted", retiredAt'[kid[r]] # None
               PROVE  now[r] - retiredAt'[kid[r]] <= TTL + Grace
    BY <1>1 DEF RetiredKeyDies
  <2>1. CASE kid[r] = k
    <3>1. now[r] <= clock /\ now[r] \in Int /\ clock \in Int
      BY DEF IInv, TypeOK, Times, RequestsAreYoung
    <3>2. retiredAt'[kid[r]] = clock
      BY <1>1, <2>1 DEF IInv, TypeOK
    <3> QED BY <3>1, <3>2, VerifierAssumption
  <2>2. CASE kid[r] # k
    BY <1>1, <2>2 DEF IInv, TypeOK, RetiredKeyDies
  <2> QED BY <2>1, <2>2
<1> QED BY <1>2, <1>3, <1>4, <1>5, <1>6 DEF IInv

(* Time passes only while nobody has waited for MaxWait. *)
LEMMA TickKeeps == ASSUME IInv, Tick PROVE IInv'
<1>1. /\ clock < MaxClock /\ clock' = clock + 1
      /\ \A r \in Requests :
            step[r] \in {"waiting", "refresh", "miss"} => clock - now[r] < MaxWait
      /\ UNCHANGED <<publishedAt, retiredAt, set, fetchedAt, lastRefetch,
                     lastTry, lastFailed, mutex, step, kid, now>>
  BY DEF Tick, keys, cache, tries
<1>2. TypeOK'
  BY <1>1, VerifierAssumption DEF IInv, TypeOK, Times
<1>3. RequestsAreYoung'
  BY <1>1, VerifierAssumption DEF IInv, TypeOK, Times, RequestsAreYoung, Fetching
<1>4. CacheHonest' /\ TriesPaired'
  BY <1>1 DEF IInv, TypeOK, Times, CacheHonest, TriesPaired
<1>5. OneFetcher' /\ RetiredWerePublished' /\ CacheComplete' /\ RetiredKeyDies'
  BY <1>1 DEF IInv, OneFetcher, RetiredWerePublished, CacheComplete, PublicJWKS,
              RetiredKeyDies
<1> QED BY <1>2, <1>3, <1>4, <1>5 DEF IInv

(* Every step keeps the invariant. *)
LEMMA NextIInv == IInv /\ [Next]_vars => IInv'
<1> SUFFICES ASSUME IInv, [Next]_vars PROVE IInv'
  OBVIOUS
<1>1. CASE UNCHANGED vars
  BY <1>1 DEF vars, keys, cache, tries, IInv, TypeOK, OneFetcher, RequestsAreYoung,
              RetiredWerePublished, CacheHonest, TriesPaired, CacheComplete, PublicJWKS,
              RetiredKeyDies
<1> QED
  BY <1>1, ArriveKeeps, KeyKeeps, FetchedKeeps, FetchFailedKeeps, FinishKeeps,
     PublishKeeps, RetireKeeps, TickKeeps DEF Next

(* Every reachable state satisfies the invariant. *)
THEOREM Invariance == Spec => []IInv
  BY InitIInv, NextIInv, PTL DEF Spec

-------------------------------------------------------------------------------
(* All state keeps its type. *)
THEOREM TypeCorrect == Spec => []TypeOK
  BY Invariance, PTL DEF IInv

(* No pod accepts a token more than TTL + Grace after its key was retired, *)
(* whatever fetches fail and in whatever order requests reach the cache.   *)
THEOREM RetiredKeysDie == Spec => []RetiredKeyDies
  BY Invariance, PTL DEF IInv

(* Two fetch attempts are MinRefetch apart, less the wait for the mutex.   *)
THEOREM EndpointIsSpared == Spec => FetchesAreSpaced
<1>1. ASSUME IInv, [Next]_vars
      PROVE  [mutex = None /\ mutex' # None
                => clock - lastTry >= MinRefetch - MaxWait]_vars
  <2> SUFFICES ASSUME mutex = None, mutex' # None
               PROVE  clock - lastTry >= MinRefetch - MaxWait
    OBVIOUS
  <2>1. \E r \in Requests : Key(r)
    BY <1>1 DEF Next, vars, Arrive, Fetched, FetchFailed, Finish,
                Publish, Retire, Tick
  <2>2. PICK r \in Requests : Key(r)
    BY <2>1
  <2>3. MayFetch(r) /\ step[r] = "waiting"
    BY <2>2 DEF Key, Refetch
  <2>4. /\ now[r] <= clock /\ now[r] - lastRefetch >= MinRefetch
        /\ lastTry <= lastRefetch + MaxWait
    BY <1>1, <2>3 DEF MayFetch, IInv, RequestsAreYoung, TriesPaired
  <2>5. now[r] \in Int /\ clock \in Int /\ lastRefetch \in Int /\ lastTry \in Int
    BY <1>1 DEF IInv, TypeOK, Times
  <2> QED BY <2>3, <2>4, <2>5, VerifierAssumption
<1> QED BY <1>1, Invariance, PTL DEF Spec, FetchesAreSpaced

(* A token under a published key is refused only within MinRefetch of the  *)
(* key's publication or while the last fetch has failed.                   *)
THEOREM RotationIsNoticed == Spec => PublishedKeyPickedUp
<1>1. ASSUME IInv, [Next]_vars, NEW r \in Requests, Refused(r), kid[r] \in PublicJWKS
      PROVE  now[r] - publishedAt[kid[r]] < MinRefetch \/ lastFailed'
  <2>1. Key(r) \/ Fetched(r) \/ FetchFailed(r)
    BY <1>1 DEF Next, vars, Refused, Arrive, Key, Fetched, FetchFailed, Finish, Publish,
       Retire, Tick, Decide, Refetch, IInv, TypeOK
  <2>2. CASE Fetched(r)
    BY <1>1, <2>2 DEF Fetched, Decide, Refused, IInv, TypeOK
  <2>3. CASE FetchFailed(r)
    BY <2>3 DEF FetchFailed
  <2>4. CASE Key(r)
    <3> SUFFICES ASSUME ~lastFailed' PROVE now[r] - publishedAt[kid[r]] < MinRefetch
      OBVIOUS
    <3>1. /\ mutex = None /\ ~MayFetch(r) /\ UNCHANGED lastFailed
          /\ ~Known(r) \/ Expired(r)
      <4>1. mutex = None /\ step[r] = "waiting"
        BY <2>4 DEF Key
      <4>2. ASSUME NEW why \in Fetching, Refetch(r, why) PROVE FALSE
        BY <1>1, <4>2 DEF Refetch, Refused, Fetching, IInv, TypeOK
      <4>3. Decide(r, Known(r)) => ~Known(r)
        BY <1>1 DEF Decide, Refused, IInv, TypeOK
      <4> QED BY <2>4, <4>1, <4>2, <4>3 DEF Key, tries, Fetching
    <3>2. /\ now[r] \in Int /\ lastRefetch \in Int /\ publishedAt[kid[r]] \in Int
      BY <1>1 DEF IInv, TypeOK, Times, PublicJWKS
    <3>3. set # None
      BY <1>1, <3>1, <3>2, VerifierAssumption
         DEF IInv, TypeOK, Times, CacheComplete, MayFetch
    <3>4. now[r] - lastRefetch < MinRefetch
      BY <3>1, <3>2, VerifierAssumption DEF MayFetch
    <3>5. ~Known(r)
      <4>1. fetchedAt = lastRefetch
        BY <1>1, <3>1, <3>3 DEF IInv, CacheComplete, PublicJWKS
      <4> QED BY <3>1, <3>2, <3>3, <3>4, <4>1, VerifierAssumption DEF Expired, Age
    <3>6. publishedAt[kid[r]] >= lastRefetch
      BY <1>1, <3>1, <3>3, <3>5 DEF IInv, CacheComplete, PublicJWKS, Known
    <3> QED BY <3>2, <3>4, <3>6, VerifierAssumption
  <2> QED BY <2>1, <2>2, <2>3, <2>4
<1>2. IInv /\ [Next]_vars =>
        [\A r \in Requests :
           Refused(r) /\ kid[r] \in PublicJWKS
             => now[r] - publishedAt[kid[r]] < MinRefetch \/ lastFailed']_vars
  BY <1>1
<1> QED BY <1>2, Invariance, PTL DEF Spec, PublishedKeyPickedUp
=================================================================================
