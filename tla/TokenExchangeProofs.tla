--------------------------- MODULE TokenExchangeProofs ---------------------------
(***************************************************************************)
(* Proofs about TokenExchange for all sets of clients, devices, hints and  *)
(* request slots, every interleaving, and any limits and lifetimes.        *)
(*                                                                         *)
(* Each property needs to know what a request in progress carries from one *)
(* store round-trip to the next: a nonce it alone has taken out of Redis,  *)
(* a lookup that was made before the revocation, a place in the counters.  *)
(***************************************************************************)
EXTENDS TokenExchange, FiniteSetTheorems, TLAPS

Busy == {r \in Requests : pc[r] # "idle"}

(* Every nonce and every install row was asked for; nonces come in order. *)
Funded ==
    /\ IsFiniteSet(Busy) /\ IsFiniteSet(installs) /\ IsFiniteSet(minted)
    /\ \E k \in 0 .. MaxAsks :
         /\ \A n \in Nonces : issuedAt[n] # None <=> n <= k
         /\ k + Cardinality(installs) + Cardinality(Busy) + asks <= MaxAsks

(* A request in progress names a device, and has not been at it too long. *)
Underway ==
    \A r \in Requests :
        /\ admitted[r] <= clock
        /\ pc[r] # "idle" =>
             /\ req[r].kind \in Endpoints /\ req[r].device \in Devices
             /\ req[r].kind = "token" => req[r].hint \in Hints
             /\ start[r] <= clock /\ clock <= start[r] + MaxExchange
        /\ pc[r] = "tiered" => req[r].kind = "token"

(* Whatever passed the lookup started before the revocation. *)
LookedUpInTime ==
    /\ \A c \in Clients : revokedAt[c] # None => revokedAt[c] <= clock
    /\ \A r \in Requests :
         pc[r] \in {"resolved", "admitted", "tiered"} /\ revokedAt[Client(r)] # None
            => start[r] <= revokedAt[Client(r)]
    /\ \A tok \in minted :
         /\ tok.exp = tok.nbf + TokenTTL /\ tok.nbf <= clock
         /\ revokedAt[tok.client] # None => tok.nbf <= revokedAt[tok.client] + MaxExchange

(* The unique indexes of the installs table, and the rows behind tokens. *)
RowsUnique ==
    /\ \A a, b \in installs :
         /\ a.id = b.id => a = b
         /\ a.tenant = b.tenant /\ a.anchor = b.anchor => a = b
    /\ \A a \in installs : a.id <= Cardinality(installs)
    /\ \A tok \in minted : \E a \in installs : /\ a.id = tok.install
                                               /\ a.tenant = tok.tenant
                                               /\ a.anchor = tok.anchor

(* A nonce that is out of Redis for good, taken with an attestation. *)
Taken(n, a) ==
    /\ n \in Nonces /\ issuedAt[n] # None /\ a = TRUE
    /\ \A c \in Clients : challenge[c].nonce # n

(* A request that took its nonce and will mint a Tier 0 token. *)
Holds(r) == pc[r] = "tiered" /\ tier[r] = 0

(* A nonce is in Redis, with one request, or in one token. *)
NoncesMove ==
    /\ \A c \in Clients : challenge[c].nonce # None
                            => issuedAt[challenge[c].nonce] # None
    /\ \A c, d \in Clients : challenge[c].nonce # None
                                /\ challenge[c].nonce = challenge[d].nonce => c = d
    /\ \A r \in Requests : Holds(r) =>
         /\ Taken(req[r].nonce, req[r].attested)
         /\ \A tok \in minted : tok.tier = 0 => tok.nonce # req[r].nonce
         /\ \A q \in Requests : Holds(q) /\ req[q].nonce = req[r].nonce => q = r
    /\ \A tok \in minted : tok.tier = 0 => Taken(tok.nonce, tok.attested)
    /\ \A t, u \in minted : t.tier = 0 /\ u.tier = 0 /\ t.nonce = u.nonce => t = u

Core == TypeOK /\ Funded /\ Underway
IInv == Core /\ LookedUpInTime /\ RowsUnique /\ NoncesMove

-------------------------------------------------------------------------------
(* The types of the request slots. *)
PcSteps == {"idle", "arrived", "resolved", "admitted", "tiered"}
Reqs    == [kind : Endpoints \union {"none"}, device : Devices \union {None},
            hint : Hints \union {None}, nonce : Nonces \union {None},
            attested : BOOLEAN]
SlotTypes == /\ pc \in [Requests -> PcSteps]
             /\ req \in [Requests -> Reqs]
             /\ start \in [Requests -> Times]
             /\ admitted \in [Requests -> Times]
             /\ tier \in [Requests -> {0, 1}]

(* A step of one request leaves the other requests alone. *)
OnlySlot(r) ==
    \A q \in Requests : q # r =>
        /\ pc'[q] = pc[q] /\ req'[q] = req[q] /\ start'[q] = start[q]
        /\ admitted'[q] = admitted[q] /\ tier'[q] = tier[q]

(* The request of the slot was answered, or goes on. *)
Freed(r) == pc'[r] = "idle" /\ admitted'[r] = 0 /\ tier'[r] = 1
Goes(r)  == /\ pc'[r] \in {"resolved", "admitted", "tiered"}
            /\ req'[r] = req[r] /\ start'[r] = start[r]
            /\ admitted'[r] <= clock
            /\ pc'[r] = "tiered" => req[r].kind = "token"

(* An answer frees the slot of its request. *)
LEMMA AnswerSlot ==
    ASSUME TypeOK, NEW r \in Requests, Answer(r)
    PROVE  SlotTypes' /\ OnlySlot(r) /\ Freed(r)
<1>1. NoReq \in Reqs /\ 0 \in Times
  BY ExchangeAssumption DEF NoReq, Reqs, Times
<1>2. SlotTypes
  BY DEF TypeOK, SlotTypes, PcSteps, Reqs
<1>3. SlotTypes'
  BY <1>1, <1>2 DEF Answer, SlotTypes, PcSteps
<1>4. OnlySlot(r) /\ Freed(r)
  BY <1>2 DEF Answer, SlotTypes, OnlySlot, Freed
<1> QED BY <1>3, <1>4

(* A request that goes on keeps what it carries. *)
LEMMA AdvanceSlot ==
    ASSUME TypeOK, NEW r \in Requests, NEW st \in PcSteps, Advance(r, st),
           UNCHANGED admitted \/ admitted' = [admitted EXCEPT ![r] = clock],
           UNCHANGED tier \/ \E b \in {0, 1} : tier' = [tier EXCEPT ![r] = b]
    PROVE  /\ SlotTypes' /\ OnlySlot(r)
           /\ pc'[r] = st /\ req'[r] = req[r] /\ start'[r] = start[r]
           /\ admitted'[r] = admitted[r] \/ admitted'[r] = clock
<1>1. SlotTypes /\ clock \in Times
  BY DEF TypeOK, SlotTypes, PcSteps, Reqs
<1>2. SlotTypes'
  BY <1>1 DEF Advance, SlotTypes, PcSteps
<1>3. OnlySlot(r)
  BY <1>1 DEF Advance, SlotTypes, OnlySlot
<1> QED BY <1>1, <1>2, <1>3 DEF Advance, SlotTypes

(* Faults are counted down; time and the requests to come stay. *)
LEMMA Dials ==
    ASSUME TypeOK, Fault \/ Calm
    PROVE  faults' \in Nat /\ clock' = clock /\ asks' = asks
  BY DEF TypeOK, Fault, Calm, dials

(* The requests in progress after an answer and after a step forward. *)
LEMMA BusyLeaves ==
    ASSUME Core, NEW r \in Requests, pc[r] # "idle", OnlySlot(r), pc'[r] = "idle"
    PROVE  /\ IsFiniteSet(Busy') /\ Cardinality(Busy') = Cardinality(Busy) - 1
           /\ Cardinality(Busy) \in Nat
<1>1. Busy' = Busy \ {r} /\ r \in Busy
  BY DEF Busy, OnlySlot
<1>2. IsFiniteSet(Busy)
  BY DEF Core, Funded
<1> QED BY <1>1, <1>2, FS_RemoveElement, FS_CardinalityType

(* A request that goes on is as busy as before. *)
LEMMA BusyStays ==
    ASSUME NEW r \in Requests, pc[r] # "idle", OnlySlot(r), pc'[r] # "idle"
    PROVE  Busy' = Busy
  BY DEF Busy, OnlySlot

(* What a request in progress refers to exists. *)
LEMMA Named ==
    ASSUME Core, NEW r \in Requests, pc[r] # "idle"
    PROVE  /\ req[r].device \in Devices /\ req[r].kind \in Endpoints
           /\ Client(r) \in Clients /\ Tenant(r) \in Tenants
  BY ExchangeAssumption DEF Core, Underway, Client, Tenant

(* A step of one request that issues no nonce and leaves no row. *)
LEMMA CoreStill ==
    ASSUME Core, NEW r \in Requests, pc[r] # "idle", OnlySlot(r), SlotTypes',
           Freed(r) \/ Goes(r),
           faults' \in Nat /\ clock' = clock /\ asks' = asks,
           challenge' \in [Clients -> [nonce : Nonces \union {None}, exp : Nat]],
           hits' \in [Endpoints \X Clients -> [n : Nat, exp : Nat]],
           UNCHANGED <<revokedAt, installs, issuedAt, given, minted>>
    PROVE  Core'
<1> USE DEF Core
<1>1. TypeOK'
  BY DEF TypeOK, SlotTypes, PcSteps, Reqs
<1>2. Funded'
  <2>1. PICK k \in 0 .. MaxAsks :
          /\ \A n \in Nonces : issuedAt[n] # None <=> n <= k
          /\ k + Cardinality(installs) + Cardinality(Busy) + asks <= MaxAsks
    BY DEF Funded
  <2>2. /\ Cardinality(installs) \in Nat /\ asks \in Nat
        /\ IsFiniteSet(Busy) /\ Cardinality(Busy) \in Nat
    BY FS_CardinalityType DEF Funded, TypeOK
  <2>3. /\ IsFiniteSet(Busy') /\ Cardinality(Busy') \in Nat
        /\ Cardinality(Busy') <= Cardinality(Busy)
    <3>1. CASE Freed(r)
      BY <2>2, <3>1, BusyLeaves, FS_CardinalityType DEF Freed
    <3>2. CASE Goes(r)
      BY <2>2, <3>2, BusyStays DEF Goes
    <3> QED BY <3>1, <3>2
  <2>4. k + Cardinality(installs) + Cardinality(Busy') + asks <= MaxAsks
    BY <2>1, <2>2, <2>3, ExchangeAssumption
  <2> QED BY <2>1, <2>3, <2>4 DEF Funded
<1>3. Underway'
  <2> SUFFICES ASSUME NEW q \in Requests
               PROVE  /\ admitted'[q] <= clock
                      /\ pc'[q] # "idle" =>
                           /\ req'[q].kind \in Endpoints /\ req'[q].device \in Devices
                           /\ req'[q].kind = "token" => req'[q].hint \in Hints
                           /\ start'[q] <= clock /\ clock <= start'[q] + MaxExchange
                      /\ pc'[q] = "tiered" => req'[q].kind = "token"
    BY DEF Underway
  <2>1. CASE q = r
    BY <2>1 DEF Underway, Freed, Goes, TypeOK, Times
  <2>2. CASE q # r
    BY <2>2 DEF Underway, OnlySlot
  <2> QED BY <2>1, <2>2
<1> QED BY <1>1, <1>2, <1>3

-------------------------------------------------------------------------------
(* No request passes the lookup in this step, or its client is not revoked. *)
LEMMA LookedUpStill ==
    ASSUME Core, LookedUpInTime, NEW r \in Requests, pc[r] # "idle", OnlySlot(r),
           Freed(r) \/ Goes(r), UNCHANGED <<clock, revokedAt, minted>>,
           pc[r] = "arrived" /\ Goes(r) => revokedAt[Client(r)] = None
    PROVE  LookedUpInTime'
<1>1. ASSUME NEW q \in Requests, pc'[q] \in {"resolved", "admitted", "tiered"},
             revokedAt[Client(q)'] # None
      PROVE  start'[q] <= revokedAt[Client(q)']
  <2>1. CASE q = r
    <3>1. Goes(r) /\ Client(r)' = Client(r)
      BY <1>1, <2>1 DEF Freed, Goes, Client
    <3>2. pc[r] # "arrived"
      BY <1>1, <2>1, <3>1
    <3>3. pc[r] \in {"resolved", "admitted", "tiered"}
      BY <3>2 DEF Core, TypeOK
    <3> QED BY <1>1, <2>1, <3>1, <3>3 DEF LookedUpInTime, Goes
  <2>2. CASE q # r
    <3>1. pc'[q] = pc[q] /\ start'[q] = start[q] /\ Client(q)' = Client(q)
      BY <2>2 DEF OnlySlot, Client
    <3> QED BY <1>1, <3>1 DEF LookedUpInTime
  <2> QED BY <2>1, <2>2
<1> QED BY <1>1 DEF LookedUpInTime

(* The rows and the tokens stay as they are. *)
LEMMA RowsStill == ASSUME RowsUnique, UNCHANGED <<installs, minted>> PROVE RowsUnique'
  BY DEF RowsUnique

(* A step that at most takes a nonce out of Redis, and lets none be held. *)
LEMMA NoncesStill ==
    ASSUME NoncesMove, NEW r \in Requests, OnlySlot(r), ~Holds(r)',
           \A c \in Clients : challenge'[c].nonce \in {challenge[c].nonce, None},
           UNCHANGED <<issuedAt, minted>>
    PROVE  NoncesMove'
<1>0. None \notin Nonces
  BY ExchangeAssumption DEF Nonces
<1>1. \A q \in Requests : Holds(q)' => Holds(q) /\ req'[q] = req[q]
  BY DEF OnlySlot, Holds
<1>2. \A n, a : Taken(n, a) => Taken(n, a)'
  BY <1>0 DEF Taken
<1>3. ASSUME NEW q \in Requests, Holds(q)'
      PROVE  /\ Taken(req[q].nonce, req[q].attested)'
             /\ \A tok \in minted : tok.tier = 0 => tok.nonce # req'[q].nonce
             /\ \A p \in Requests : Holds(p)' /\ req'[p].nonce = req'[q].nonce => p = q
  <2>1. Holds(q) /\ req'[q] = req[q]
    BY <1>1, <1>3
  <2>2. Taken(req[q].nonce, req[q].attested)
    BY <2>1 DEF NoncesMove
  <2>3. Taken(req[q].nonce, req[q].attested)'
    BY <1>0, <2>1, <2>2 DEF Taken
  <2> QED BY <1>1, <2>1, <2>3 DEF NoncesMove
<1>4. \A tok \in minted : tok.tier = 0 => Taken(tok.nonce, tok.attested)'
  BY <1>2 DEF NoncesMove
<1>5. /\ \A c \in Clients : challenge'[c].nonce # None
                             => issuedAt[challenge'[c].nonce] # None
      /\ \A c, d \in Clients : challenge'[c].nonce # None
                                 /\ challenge'[c].nonce = challenge'[d].nonce => c = d
  BY DEF NoncesMove
<1>6. \A t, u \in minted : t.tier = 0 /\ u.tier = 0 /\ t.nonce = u.nonce => t = u
  BY DEF NoncesMove
<1> QED BY <1>3, <1>4, <1>5, <1>6 DEF NoncesMove

(* The three together: errors, lookups and counters. *)
LEMMA QuietStep ==
    ASSUME IInv, NEW r \in Requests, pc[r] # "idle", OnlySlot(r), SlotTypes',
           Freed(r) \/ Goes(r), pc'[r] # "tiered",
           pc[r] = "arrived" /\ Goes(r) => revokedAt[Client(r)] = None,
           faults' \in Nat /\ clock' = clock /\ asks' = asks,
           hits' \in [Endpoints \X Clients -> [n : Nat, exp : Nat]],
           UNCHANGED <<revokedAt, challenge, installs, issuedAt, given, minted>>
    PROVE  IInv'
<1>1. challenge' \in [Clients -> [nonce : Nonces \union {None}, exp : Nat]]
  BY DEF IInv, Core, TypeOK
<1>2. Core'
  BY <1>1, CoreStill DEF IInv
<1>3. LookedUpInTime'
  BY LookedUpStill DEF IInv
<1>4. RowsUnique'
  BY RowsStill DEF IInv
<1>5. NoncesMove'
  <2>1. ~Holds(r)'
    BY DEF Holds
  <2> QED BY <2>1, NoncesStill DEF IInv
<1> QED BY <1>2, <1>3, <1>4, <1>5 DEF IInv

(* The lookup lets only clients pass that are not revoked now. *)
LEMMA ResolveKeeps == ASSUME IInv, NEW r \in Requests, Resolve(r) PROVE IInv'
<1>1. /\ pc[r] = "arrived"
      /\ UNCHANGED <<revokedAt, challenge, hits, installs, issuedAt, given, minted>>
  BY DEF Resolve, stores
<1>2. hits' \in [Endpoints \X Clients -> [n : Nat, exp : Nat]]
  BY <1>1 DEF IInv, Core, TypeOK
<1>3. CASE (Fault \/ Calm) /\ Answer(r)
  <2>1. SlotTypes' /\ OnlySlot(r) /\ Freed(r)
    BY <1>3, AnswerSlot DEF IInv, Core
  <2>2. faults' \in Nat /\ clock' = clock /\ asks' = asks
    BY <1>3, Dials DEF IInv, Core
  <2>3. ~Goes(r) /\ pc'[r] # "tiered"
    BY <2>1 DEF Freed, Goes
  <2> QED BY <1>1, <1>2, <2>1, <2>2, <2>3, QuietStep
<1>4. CASE /\ revokedAt[Client(r)] = None /\ Calm
           /\ Advance(r, "resolved") /\ UNCHANGED <<admitted, tier>>
  <2>1. "resolved" \in PcSteps
    BY DEF PcSteps
  <2>2. /\ SlotTypes' /\ OnlySlot(r) /\ pc'[r] = "resolved"
        /\ req'[r] = req[r] /\ start'[r] = start[r]
    BY <1>4, <2>1, AdvanceSlot DEF IInv, Core
  <2>3. Goes(r)
    BY <1>4, <2>2 DEF Goes, IInv, Core, Underway
  <2>4. faults' \in Nat /\ clock' = clock /\ asks' = asks
    BY <1>4, Dials DEF IInv, Core
  <2> QED BY <1>1, <1>2, <1>4, <2>2, <2>3, <2>4, QuietStep
<1> QED BY <1>3, <1>4 DEF Resolve

(* The counters keep their type. *)
LEMMA IncrType ==
    ASSUME TypeOK, NEW x \in Endpoints \X Clients
    PROVE  /\ Incr(x) \in [n : Nat, exp : Nat]
           /\ [hits EXCEPT ![x] = Incr(x)] \in [Endpoints \X Clients -> [n : Nat, exp : Nat]]
<1>1. hits[x] \in [n : Nat, exp : Nat] /\ clock \in Nat
  BY DEF TypeOK, Times
<1>2. hits[x].n + 1 \in Nat /\ clock + RateWindow \in Nat
  BY <1>1, ExchangeAssumption
<1>3. Incr(x) \in [n : Nat, exp : Nat]
  BY <1>1, <1>2 DEF Incr
<1> QED BY <1>3 DEF TypeOK

(* The rate limit admits or answers. *)
LEMMA LimitKeeps == ASSUME IInv, NEW r \in Requests, Limit(r) PROVE IInv'
<1> DEFINE x == <<req[r].kind, Client(r)>>
<1>1. /\ pc[r] = "resolved"
      /\ UNCHANGED <<revokedAt, challenge, installs, issuedAt, given, minted>>
  BY DEF Limit
<1>2. x \in Endpoints \X Clients
  BY <1>1, Named DEF IInv
<1>3. hits' = [hits EXCEPT ![x] = Incr(x)] \/ UNCHANGED hits
  BY DEF Limit
<1> HIDE DEF x
<1>4. hits' \in [Endpoints \X Clients -> [n : Nat, exp : Nat]]
  <2>1. [hits EXCEPT ![x] = Incr(x)] \in [Endpoints \X Clients -> [n : Nat, exp : Nat]]
    BY <1>2, IncrType DEF IInv, Core
  <2> QED BY <1>3, <2>1 DEF IInv, Core, TypeOK
<1>5. CASE (Fault \/ Calm) /\ Answer(r)
  <2>1. SlotTypes' /\ OnlySlot(r) /\ Freed(r)
    BY <1>5, AnswerSlot DEF IInv, Core
  <2>2. faults' \in Nat /\ clock' = clock /\ asks' = asks
    BY <1>5, Dials DEF IInv, Core
  <2>3. pc'[r] # "tiered"
    BY <2>1 DEF Freed
  <2> QED BY <1>1, <1>4, <2>1, <2>2, <2>3, QuietStep
<1>6. CASE /\ Calm /\ admitted' = [admitted EXCEPT ![r] = clock]
           /\ Advance(r, "admitted") /\ UNCHANGED tier
  <2>1. "admitted" \in PcSteps
    BY DEF PcSteps
  <2>2. /\ SlotTypes' /\ OnlySlot(r) /\ pc'[r] = "admitted"
        /\ req'[r] = req[r] /\ start'[r] = start[r]
    BY <1>6, <2>1, AdvanceSlot DEF IInv, Core
  <2>3. admitted'[r] = clock /\ clock \in Nat
    BY <1>6 DEF IInv, Core, TypeOK, Times
  <2>4. Goes(r)
    BY <2>2, <2>3 DEF Goes
  <2>5. faults' \in Nat /\ clock' = clock /\ asks' = asks
    BY <1>6, Dials DEF IInv, Core
  <2> QED BY <1>1, <1>4, <2>2, <2>4, <2>5, QuietStep
<1> QED BY <1>5, <1>6 DEF Limit

-------------------------------------------------------------------------------
(* The next nonce is the first that was never issued. *)
LEMMA FreshNonce ==
    ASSUME Core, NEW r \in Requests, pc[r] # "idle", NEW k \in 0 .. MaxAsks,
           \A n \in Nonces : issuedAt[n] # None <=> n <= k,
           k + Cardinality(installs) + Cardinality(Busy) + asks <= MaxAsks
    PROVE  /\ (CHOOSE x \in Fresh : \A y \in Fresh : x <= y) = k + 1
           /\ k + 1 \in Nonces /\ issuedAt[k + 1] = None
<1>1. IsFiniteSet(Busy) /\ IsFiniteSet(installs) /\ asks \in Nat
  BY DEF Core, Funded, TypeOK
<1>2. Cardinality(Busy) \in Nat /\ Cardinality(installs) \in Nat
  BY <1>1, FS_CardinalityType
<1>3. Cardinality(Busy) # 0
  BY <1>1, FS_EmptySet DEF Busy
<1>4. k + 1 \in Nonces
  BY <1>1, <1>2, <1>3, ExchangeAssumption DEF Nonces
<1>5. k + 1 \in Fresh
  BY <1>4 DEF Fresh
<1>6. \A y \in Fresh : k + 1 <= y
  BY DEF Fresh, Nonces
<1>7. \A x \in Fresh : (\A y \in Fresh : x <= y) => x = k + 1
  <2> SUFFICES ASSUME NEW x \in Fresh, \A y \in Fresh : x <= y PROVE x = k + 1
    OBVIOUS
  <2>1. x <= k + 1 /\ k + 1 <= x /\ x \in Int
    BY <1>5, <1>6 DEF Fresh, Nonces
  <2> QED BY <2>1
<1> QED BY <1>4, <1>5, <1>6, <1>7 DEF Fresh

(* A new challenge replaces the client's outstanding one. *)
LEMMA IssueKeeps == ASSUME IInv, NEW r \in Requests, Issue(r) PROVE IInv'
<1> DEFINE m == CHOOSE x \in Fresh : \A y \in Fresh : x <= y
<1>1. /\ pc[r] = "admitted" /\ Answer(r) /\ (Fault \/ Calm)
      /\ UNCHANGED <<revokedAt, hits, installs, minted>>
  BY DEF Issue
<1>2. SlotTypes' /\ OnlySlot(r) /\ Freed(r)
  BY <1>1, AnswerSlot DEF IInv, Core
<1>3. faults' \in Nat /\ clock' = clock /\ asks' = asks
  BY <1>1, Dials DEF IInv, Core
<1>4. req[r].device \in Devices /\ Client(r) \in Clients
  BY <1>1, Named DEF IInv
<1>5. /\ hits' \in [Endpoints \X Clients -> [n : Nat, exp : Nat]]
      /\ pc'[r] # "tiered" /\ ~Goes(r)
  BY <1>1, <1>2 DEF IInv, Core, TypeOK, Freed, Goes
<1>6. CASE UNCHANGED <<challenge, issuedAt, given>>
  BY <1>1, <1>2, <1>3, <1>5, <1>6, QuietStep
<1>7. CASE /\ challenge' = [challenge EXCEPT ![Client(r)] =
                             [nonce |-> m, exp |-> clock + ChallengeTTL]]
           /\ issuedAt' = [issuedAt EXCEPT ![m] = clock]
           /\ given' = given \union {<<req[r].device, m>>} \/ UNCHANGED given
  <2>1. PICK k \in 0 .. MaxAsks :
          /\ \A n \in Nonces : issuedAt[n] # None <=> n <= k
          /\ k + Cardinality(installs) + Cardinality(Busy) + asks <= MaxAsks
    BY DEF IInv, Core, Funded
  <2>2. m = k + 1 /\ m \in Nonces /\ issuedAt[m] = None
    BY <1>1, <2>1, FreshNonce DEF IInv
  <2> HIDE DEF m
  <2>3. clock \in Times /\ clock \in Nat /\ clock + ChallengeTTL \in Nat
    BY ExchangeAssumption DEF IInv, Core, TypeOK, Times
  <2>4. /\ challenge' \in [Clients -> [nonce : Nonces \union {None}, exp : Nat]]
        /\ issuedAt' \in [Nonces -> Times \union {None}]
        /\ given' \subseteq Devices \X Nonces
    <3>1. challenge' \in [Clients -> [nonce : Nonces \union {None}, exp : Nat]]
      BY <1>4, <1>7, <2>2, <2>3 DEF IInv, Core, TypeOK
    <3>2. issuedAt' \in [Nonces -> Times \union {None}]
      BY <1>7, <2>2, <2>3 DEF IInv, Core, TypeOK
    <3> QED BY <1>4, <1>7, <2>2, <3>1, <3>2 DEF IInv, Core, TypeOK
  <2>5. \A n \in Nonces : issuedAt'[n] = IF n = m THEN clock ELSE issuedAt[n]
    BY <1>7, <2>2 DEF IInv, Core, TypeOK
  <2>6. \A c \in Clients : challenge'[c].nonce = IF c = Client(r) THEN m
                                                 ELSE challenge[c].nonce
    BY <1>4, <1>7 DEF IInv, Core, TypeOK
  <2>7. clock # None
    BY <2>3, ExchangeAssumption
  <2>8. Core'
    <3>1. TypeOK'
      BY <1>1, <1>2, <1>3, <1>5, <2>4 DEF IInv, Core, TypeOK, SlotTypes, PcSteps, Reqs
    <3>2. Funded'
      <4>1. /\ Cardinality(installs) \in Nat /\ asks \in Nat
            /\ IsFiniteSet(installs) /\ IsFiniteSet(minted)
        BY FS_CardinalityType DEF IInv, Core, Funded, TypeOK
      <4>2. /\ IsFiniteSet(Busy') /\ Cardinality(Busy') = Cardinality(Busy) - 1
            /\ Cardinality(Busy) \in Nat
        BY <1>1, <1>2, BusyLeaves DEF IInv, Freed
      <4>3. k + 1 \in 0 .. MaxAsks
        BY <2>2 DEF Nonces
      <4>4. \A n \in Nonces : issuedAt'[n] # None <=> n <= k + 1
        <5> SUFFICES ASSUME NEW n \in Nonces PROVE issuedAt'[n] # None <=> n <= k + 1
          OBVIOUS
        <5>1. n \in Int /\ k \in Int
          BY DEF Nonces
        <5>2. n <= k + 1 <=> n <= k \/ n = k + 1
          BY <5>1
        <5> QED BY <2>1, <2>2, <2>5, <2>7, <5>2
      <4>5. (k + 1) + Cardinality(installs) + Cardinality(Busy') + asks <= MaxAsks
        BY <2>1, <4>1, <4>2, ExchangeAssumption
      <4> QED BY <1>1, <1>3, <4>1, <4>2, <4>3, <4>4, <4>5 DEF Funded
    <3>3. Underway'
      BY <1>2, <1>3, <2>3 DEF IInv, Core, Underway, OnlySlot, Freed
    <3> QED BY <3>1, <3>2, <3>3 DEF Core
  <2>9. LookedUpInTime'
    BY <1>1, <1>2, <1>3, <1>5, LookedUpStill DEF IInv
  <2>10. RowsUnique'
    BY <1>1, RowsStill DEF IInv
  <2>11. NoncesMove'
    <3>0. None \notin Nonces
      BY ExchangeAssumption DEF Nonces
    <3>1. \A q \in Requests : Holds(q)' => Holds(q) /\ req'[q] = req[q]
      BY <1>2 DEF OnlySlot, Holds, Freed
    <3>2. \A n, a : Taken(n, a) => Taken(n, a)'
      <4> SUFFICES ASSUME NEW n, NEW a, Taken(n, a) PROVE Taken(n, a)'
        OBVIOUS
      <4>1. n \in Nonces /\ issuedAt[n] # None /\ n # m
        BY <2>2 DEF Taken
      <4>2. issuedAt'[n] # None
        BY <2>5, <4>1
      <4>3. \A c \in Clients : challenge'[c].nonce # n
        BY <2>6, <4>1 DEF Taken
      <4> QED BY <4>1, <4>2, <4>3 DEF Taken
    <3>3. ASSUME NEW q \in Requests, Holds(q)'
          PROVE  /\ Taken(req[q].nonce, req[q].attested)'
                 /\ \A tok \in minted : tok.tier = 0 => tok.nonce # req'[q].nonce
                 /\ \A p \in Requests : Holds(p)' /\ req'[p].nonce = req'[q].nonce => p = q
      <4>1. Holds(q) /\ req'[q] = req[q]
        BY <3>1, <3>3
      <4>2. /\ Taken(req[q].nonce, req[q].attested)
            /\ \A tok \in minted : tok.tier = 0 => tok.nonce # req[q].nonce
            /\ \A p \in Requests : Holds(p) /\ req[p].nonce = req[q].nonce => p = q
        BY <4>1 DEF IInv, NoncesMove
      <4>3. Taken(req[q].nonce, req[q].attested)'
        BY <2>2, <2>5, <2>6, <2>7, <4>1, <4>2 DEF Taken
      <4> QED BY <3>1, <4>1, <4>2, <4>3
    <3>4. \A tok \in minted : tok.tier = 0 => Taken(tok.nonce, tok.attested)'
      BY <3>2 DEF IInv, NoncesMove
    <3>5. \A c \in Clients : challenge'[c].nonce # None
                             => issuedAt'[challenge'[c].nonce] # None
      <4> SUFFICES ASSUME NEW c \in Clients, challenge'[c].nonce # None
                   PROVE  issuedAt'[challenge'[c].nonce] # None
        OBVIOUS
      <4>1. challenge'[c].nonce \in Nonces
        BY <2>4
      <4> QED BY <2>5, <2>6, <2>7, <4>1 DEF IInv, NoncesMove
    <3>6. \A c \in Clients : challenge[c].nonce # m
      BY <2>2, <3>0 DEF IInv, NoncesMove
    <3>7. \A c, d \in Clients : challenge'[c].nonce # None
                                 /\ challenge'[c].nonce = challenge'[d].nonce => c = d
      BY <2>6, <3>6 DEF IInv, NoncesMove
    <3>8. \A t, u \in minted : t.tier = 0 /\ u.tier = 0 /\ t.nonce = u.nonce => t = u
      BY DEF IInv, NoncesMove
    <3> QED BY <1>1, <3>3, <3>4, <3>5, <3>7, <3>8 DEF NoncesMove
  <2> QED BY <2>8, <2>9, <2>10, <2>11 DEF IInv
<1> QED BY <1>6, <1>7 DEF Issue

-------------------------------------------------------------------------------
(* GETDEL hands an outstanding nonce to one request at most. *)
LEMMA ConsumeKeeps ==
    ASSUME IInv, NEW r \in Requests, req[r].kind = "token", Consume(r) PROVE IInv'
<1> DEFINE c == Client(r)
           n == req[r].nonce
<1>1. /\ pc[r] = "admitted" /\ Advance(r, "tiered") /\ (Fault \/ Calm)
      /\ UNCHANGED <<revokedAt, hits, installs, issuedAt, given, minted, admitted>>
  BY DEF Consume
<1>2. c \in Clients
  BY <1>1, Named DEF IInv
<1>3. \E b \in {0, 1} : tier' = [tier EXCEPT ![r] = b]
  BY DEF Consume
<1>4. /\ SlotTypes' /\ OnlySlot(r) /\ pc'[r] = "tiered"
      /\ req'[r] = req[r] /\ start'[r] = start[r]
  <2>1. "tiered" \in PcSteps
    BY DEF PcSteps
  <2> QED BY <1>1, <1>3, <2>1, AdvanceSlot DEF IInv, Core
<1>5. Goes(r)
  BY <1>1, <1>4 DEF Goes, IInv, Core, Underway
<1>6. faults' \in Nat /\ clock' = clock /\ asks' = asks
  BY <1>1, Dials DEF IInv, Core
<1>7. challenge' = [challenge EXCEPT ![c] = NoKey] \/ UNCHANGED challenge
  BY DEF Consume, GetDel
<1>8. tier'[r] = 0 => /\ n # None /\ challenge[c].nonce = n /\ req[r].attested
                      /\ challenge' = [challenge EXCEPT ![c] = NoKey]
  BY DEF Consume, GetDel, Matches, Attests, IInv, Core, TypeOK
<1>9. /\ n \in Nonces \union {None} /\ req[r].attested \in BOOLEAN
      /\ challenge \in [Clients -> [nonce : Nonces \union {None}, exp : Nat]]
  BY DEF IInv, Core, TypeOK
<1> HIDE DEF c, n
<1>10. \A d \in Clients : challenge'[d].nonce \in {challenge[d].nonce, None}
  BY <1>2, <1>7, <1>9 DEF NoKey
<1>11. Core'
  <2>1. challenge' \in [Clients -> [nonce : Nonces \union {None}, exp : Nat]]
    BY <1>2, <1>7, <1>9 DEF NoKey
  <2>2. hits' \in [Endpoints \X Clients -> [n : Nat, exp : Nat]]
    BY <1>1 DEF IInv, Core, TypeOK
  <2> QED BY <1>1, <1>4, <1>5, <1>6, <2>1, <2>2, CoreStill DEF IInv
<1>12. LookedUpInTime'
  BY <1>1, <1>4, <1>5, <1>6, LookedUpStill DEF IInv
<1>13. RowsUnique'
  BY <1>1, RowsStill DEF IInv
<1>14. CASE tier'[r] # 0
  <2>1. ~Holds(r)'
    BY <1>14 DEF Holds
  <2>2. NoncesMove'
    BY <1>1, <1>4, <1>10, <2>1, NoncesStill DEF IInv
  <2> QED BY <1>11, <1>12, <1>13, <2>2 DEF IInv
<1>15. CASE tier'[r] = 0
  <2>1. None \notin Nonces
    BY ExchangeAssumption DEF Nonces
  <2>2. n \in Nonces /\ challenge[c].nonce = n /\ req[r].attested = TRUE
    BY <1>8, <1>9, <1>15
  <2>3. \A d \in Clients : challenge'[d].nonce = IF d = c THEN None ELSE challenge[d].nonce
    BY <1>2, <1>8, <1>9, <1>15 DEF NoKey
  <2>4. \A d \in Clients : challenge'[d].nonce # n
    <3>1. \A d \in Clients : d # c => challenge[d].nonce # n
      BY <1>2, <2>1, <2>2 DEF IInv, NoncesMove
    <3> QED BY <2>1, <2>2, <2>3, <3>1
  <2>5. issuedAt[n] # None
    BY <1>2, <2>1, <2>2 DEF IInv, NoncesMove
  <2>6. /\ \A tok \in minted : tok.tier = 0 => tok.nonce # n
        /\ \A q \in Requests : Holds(q) => req[q].nonce # n
    BY <1>2, <2>2 DEF IInv, NoncesMove, Taken
  <2>7. Taken(n, req[r].attested)'
    BY <1>1, <1>4, <2>2, <2>4, <2>5 DEF Taken, n
  <2>8. \A m, a : Taken(m, a) => Taken(m, a)'
    BY <1>1, <1>10, <2>1 DEF Taken
  <2>9. \A q \in Requests : q # r /\ Holds(q)' => Holds(q) /\ req'[q] = req[q]
    BY <1>4 DEF OnlySlot, Holds
  <2>10. ASSUME NEW q \in Requests, Holds(q)'
         PROVE  /\ Taken(req[q].nonce, req[q].attested)'
                /\ \A tok \in minted : tok.tier = 0 => tok.nonce # req'[q].nonce
                /\ \A p \in Requests : Holds(p)' /\ req'[p].nonce = req'[q].nonce => p = q
    <3>1. CASE q = r
      <4>1. req'[r].nonce = n
        BY <1>4 DEF n
      <4> QED BY <2>6, <2>7, <2>9, <3>1, <4>1 DEF n
    <3>2. CASE q # r
      <4>1. Holds(q) /\ req'[q] = req[q]
        BY <2>9, <2>10, <3>2
      <4>2. /\ Taken(req[q].nonce, req[q].attested)
            /\ \A tok \in minted : tok.tier = 0 => tok.nonce # req[q].nonce
            /\ \A p \in Requests : Holds(p) /\ req[p].nonce = req[q].nonce => p = q
        BY <4>1 DEF IInv, NoncesMove
      <4>3. Taken(req[q].nonce, req[q].attested)'
        BY <1>1, <1>10, <2>1, <4>1, <4>2 DEF Taken
      <4>4. req'[r].nonce = n
        BY <1>4 DEF n
      <4> QED BY <2>6, <2>9, <4>1, <4>2, <4>3, <4>4
    <3> QED BY <3>1, <3>2
  <2>11. \A tok \in minted : tok.tier = 0 => Taken(tok.nonce, tok.attested)'
    BY <2>8 DEF IInv, NoncesMove
  <2>12. /\ \A d \in Clients : challenge'[d].nonce # None
                               => issuedAt[challenge'[d].nonce] # None
         /\ \A d, e \in Clients : challenge'[d].nonce # None
                                   /\ challenge'[d].nonce = challenge'[e].nonce => d = e
    BY <1>10 DEF IInv, NoncesMove
  <2>13. \A t, u \in minted : t.tier = 0 /\ u.tier = 0 /\ t.nonce = u.nonce => t = u
    BY DEF IInv, NoncesMove
  <2>14. NoncesMove'
    BY <1>1, <2>10, <2>11, <2>12, <2>13 DEF NoncesMove
  <2> QED BY <1>11, <1>12, <1>13, <2>14 DEF IInv
<1> QED BY <1>14, <1>15

-------------------------------------------------------------------------------
(* An exchange finds the row of its anchor, or makes the only one. *)
LEMMA UpsertFinds ==
    ASSUME Core, RowsUnique, NEW r \in Requests, pc[r] = "tiered"
    PROVE  /\ Upsert(r) \in Ids /\ Anchor(r) \in Anchors
           /\ NewId = Cardinality(installs) + 1 /\ Cardinality(installs) \in Nat
           /\ Upsert(r) # NewId => \E a \in installs : /\ a.id = Upsert(r)
                                                       /\ a.tenant = Tenant(r)
                                                       /\ a.anchor = Anchor(r)
           /\ Upsert(r) = NewId => \A a \in installs :
                                      ~(a.tenant = Tenant(r) /\ a.anchor = Anchor(r))
<1> DEFINE old == {row \in installs : row.tenant = Tenant(r) /\ row.anchor = Anchor(r)}
<1>1. IsFiniteSet(installs) /\ Cardinality(installs) \in Nat
  BY FS_CardinalityType DEF Core, Funded
<1>2. NewId = Cardinality(installs) + 1 /\ NewId \in Ids
  <2>1. PICK k \in 0 .. MaxAsks :
          k + Cardinality(installs) + Cardinality(Busy) + asks <= MaxAsks
    BY DEF Core, Funded
  <2>2. IsFiniteSet(Busy) /\ r \in Busy /\ asks \in Nat
    BY DEF Core, Funded, Busy, TypeOK
  <2>3. Cardinality(Busy) \in Nat /\ Cardinality(Busy) # 0
    BY <2>2, FS_CardinalityType, FS_EmptySet
  <2>4. Cardinality(installs) + 1 <= MaxAsks
    BY <1>1, <2>1, <2>2, <2>3, ExchangeAssumption
  <2> QED BY <1>1, <2>4, ExchangeAssumption DEF NewId, Ids
<1>3. Anchor(r) \in Anchors
  <2>1. req[r].device \in Devices /\ Client(r) \in Clients /\ req[r].hint \in Hints
    BY Named DEF Core, Underway
  <2> QED BY <2>1 DEF Anchor, Anchors
<1>4. CASE old = {}
  <2>1. Upsert(r) = NewId
    BY <1>4 DEF Upsert
  <2> QED BY <1>1, <1>2, <1>3, <1>4, <2>1
<1>5. CASE old # {}
  <2> DEFINE a == CHOOSE row \in old : TRUE
  <2>1. a \in old
    BY <1>5
  <2>2. Upsert(r) = a.id
    BY <1>5 DEF Upsert
  <2> HIDE DEF a
  <2>3. a.id \in Ids /\ a.id <= Cardinality(installs)
    BY <2>1 DEF Core, TypeOK, RowsUnique
  <2>4. a.id # NewId
    BY <1>1, <1>2, <2>3 DEF Ids
  <2> QED BY <1>1, <1>2, <1>3, <2>1, <2>2, <2>3, <2>4
<1> QED BY <1>4, <1>5

(* The row InsertRow may add. *)
NewRow(r) == [id |-> NewId, tenant |-> Tenant(r), anchor |-> Anchor(r),
              client |-> Client(r), admitted |-> admitted[r]]

(* The upsert leaves the table as it is, or adds the row of a new anchor. *)
LEMMA RowAdded ==
    ASSUME Core, RowsUnique, NEW r \in Requests, pc[r] = "tiered",
           InsertRow(r) \/ UNCHANGED installs
    PROVE  /\ installs \subseteq installs' /\ IsFiniteSet(installs')
           /\ installs' \subseteq [id : Ids, tenant : Tenants, anchor : Anchors,
                                   client : Clients, admitted : Times]
           /\ Cardinality(installs') \in Nat /\ Cardinality(installs) \in Nat
           /\ Cardinality(installs') <= Cardinality(installs) + 1
           /\ installs' \subseteq installs \union {NewRow(r)}
           /\ \A a, b \in installs' :
                 /\ a.id = b.id => a = b
                 /\ a.tenant = b.tenant /\ a.anchor = b.anchor => a = b
           /\ \A a \in installs' : a.id <= Cardinality(installs')
           /\ InsertRow(r) => \E a \in installs' : /\ a.id = Upsert(r)
                                                   /\ a.tenant = Tenant(r)
                                                   /\ a.anchor = Anchor(r)
<1>1. IsFiniteSet(installs) /\ Cardinality(installs) \in Nat
  BY FS_CardinalityType DEF Core, Funded
<1>2. installs \subseteq [id : Ids, tenant : Tenants, anchor : Anchors,
                         client : Clients, admitted : Times]
  BY DEF Core, TypeOK
<1>3. /\ \A a, b \in installs : /\ a.id = b.id => a = b
                                /\ a.tenant = b.tenant /\ a.anchor = b.anchor => a = b
      /\ \A a \in installs : a.id <= Cardinality(installs)
  BY DEF RowsUnique
<1>4. /\ Upsert(r) \in Ids /\ Anchor(r) \in Anchors
      /\ NewId = Cardinality(installs) + 1
      /\ Upsert(r) # NewId => \E a \in installs : /\ a.id = Upsert(r)
                                                  /\ a.tenant = Tenant(r)
                                                  /\ a.anchor = Anchor(r)
      /\ Upsert(r) = NewId => \A a \in installs :
                                 ~(a.tenant = Tenant(r) /\ a.anchor = Anchor(r))
  BY UpsertFinds
<1>5. CASE installs' = installs /\ (InsertRow(r) => Upsert(r) # NewId)
  <2>1. Cardinality(installs') <= Cardinality(installs) + 1
    BY <1>1, <1>5
  <2>2. InsertRow(r) => \E a \in installs' : /\ a.id = Upsert(r)
                                             /\ a.tenant = Tenant(r)
                                             /\ a.anchor = Anchor(r)
    BY <1>4, <1>5
  <2> QED BY <1>1, <1>2, <1>3, <1>5, <2>1, <2>2
<1>6. CASE Upsert(r) = NewId /\ installs' = installs \union {NewRow(r)}
  <2>1. NewRow(r) \in [id : Ids, tenant : Tenants, anchor : Anchors,
                      client : Clients, admitted : Times]
    <3>1. Tenant(r) \in Tenants /\ Client(r) \in Clients /\ admitted[r] \in Times
      BY Named DEF Core, TypeOK
    <3> QED BY <1>4, <1>6, <3>1 DEF NewRow
  <2>2. \A a \in installs : a.id \in Int /\ a.id # NewId
    BY <1>1, <1>2, <1>3, <1>4 DEF Ids
  <2>3. NewRow(r) \notin installs
    BY <2>2 DEF NewRow
  <2>4. IsFiniteSet(installs') /\ Cardinality(installs') = Cardinality(installs) + 1
    BY <1>1, <1>6, <2>3, FS_AddElement
  <2>5. /\ NewRow(r).id = NewId /\ NewRow(r).tenant = Tenant(r)
        /\ NewRow(r).anchor = Anchor(r)
    BY DEF NewRow
  <2>6. \A a, b \in installs' : /\ a.id = b.id => a = b
                                /\ a.tenant = b.tenant /\ a.anchor = b.anchor => a = b
    BY <1>3, <1>4, <1>6, <2>2, <2>5
  <2>7. \A a \in installs' : a.id <= Cardinality(installs')
    <3> SUFFICES ASSUME NEW a \in installs' PROVE a.id <= Cardinality(installs')
      OBVIOUS
    <3>1. CASE a \in installs
      BY <1>1, <1>3, <2>2, <2>4, <3>1
    <3>2. CASE a = NewRow(r)
      BY <1>1, <1>4, <2>4, <2>5, <3>2
    <3> QED BY <1>6, <3>1, <3>2
  <2>8. /\ Cardinality(installs') \in Nat
        /\ Cardinality(installs') <= Cardinality(installs) + 1
    BY <1>1, <2>4
  <2>9. /\ installs' \subseteq [id : Ids, tenant : Tenants, anchor : Anchors,
                               client : Clients, admitted : Times]
        /\ installs \subseteq installs' /\ installs' \subseteq installs \union {NewRow(r)}
    BY <1>2, <1>6, <2>1
  <2>10. \E a \in installs' : /\ a.id = Upsert(r)
                              /\ a.tenant = Tenant(r) /\ a.anchor = Anchor(r)
    BY <1>6, <2>5
  <2> QED BY <1>1, <2>4, <2>6, <2>7, <2>8, <2>9, <2>10
<1> QED BY <1>5, <1>6 DEF InsertRow, NewRow

(* A token is minted for a request that was looked up in time, for the row *)
(* of its anchor and, at Tier 0, for a nonce nobody else has.              *)
LEMMA MintKeeps == ASSUME IInv, NEW r \in Requests, Mint(r) PROVE IInv'
<1>1. /\ pc[r] = "tiered" /\ Answer(r) /\ (Fault \/ Calm)
      /\ UNCHANGED <<revokedAt, challenge, hits, issuedAt, given>>
      /\ InsertRow(r) \/ UNCHANGED installs
  BY DEF Mint
<1>2. SlotTypes' /\ OnlySlot(r) /\ Freed(r) /\ ~Goes(r)
  BY <1>1, AnswerSlot DEF IInv, Core, Freed, Goes
<1>3. faults' \in Nat /\ clock' = clock /\ asks' = asks
  BY <1>1, Dials DEF IInv, Core
<1>4. /\ req[r].device \in Devices /\ Client(r) \in Clients /\ Tenant(r) \in Tenants
  BY <1>1, Named DEF IInv
<1>5. /\ installs \subseteq installs' /\ IsFiniteSet(installs')
      /\ installs' \subseteq [id : Ids, tenant : Tenants, anchor : Anchors,
                              client : Clients, admitted : Times]
      /\ Cardinality(installs') \in Nat /\ Cardinality(installs) \in Nat
      /\ Cardinality(installs') <= Cardinality(installs) + 1
      /\ \A a, b \in installs' :
            /\ a.id = b.id => a = b
            /\ a.tenant = b.tenant /\ a.anchor = b.anchor => a = b
      /\ \A a \in installs' : a.id <= Cardinality(installs')
      /\ InsertRow(r) => \E a \in installs' : /\ a.id = Upsert(r)
                                              /\ a.tenant = Tenant(r)
                                              /\ a.anchor = Anchor(r)
  BY <1>1, RowAdded DEF IInv
<1>6. \/ minted' = minted
      \/ InsertRow(r) /\ minted' = minted \union {Token(r)}
  BY DEF Mint
<1>7. IsFiniteSet(minted) /\ Cardinality(minted) + 1 \in Nat
  BY FS_CardinalityType DEF IInv, Core, Funded
<1>8. /\ clock \in Times /\ clock \in Nat /\ clock + TokenTTL \in Nat
      /\ admitted[r] \in Times /\ tier[r] \in {0, 1}
      /\ req[r].nonce \in Nonces \union {None} /\ req[r].attested \in BOOLEAN
  BY ExchangeAssumption DEF IInv, Core, TypeOK, Times
<1>9. Core'
  <2>1. IsFiniteSet(minted')
    BY <1>6, <1>7, FS_AddElement
  <2>2. minted' \subseteq [serial : Nat, device : Devices, client : Clients, install : Ids,
                          tenant : Tenants, anchor : Anchors, tier : {0, 1},
                          nonce : Nonces \union {None}, attested : BOOLEAN,
                          admitted : Times, nbf : Times, exp : Nat]
    <3>1. Upsert(r) \in Ids /\ Anchor(r) \in Anchors
      BY <1>1, UpsertFinds DEF IInv
    <3>2. Token(r) \in [serial : Nat, device : Devices, client : Clients, install : Ids,
                       tenant : Tenants, anchor : Anchors, tier : {0, 1},
                       nonce : Nonces \union {None}, attested : BOOLEAN,
                       admitted : Times, nbf : Times, exp : Nat]
      BY <1>4, <1>7, <1>8, <3>1 DEF Token
    <3> QED BY <1>6, <3>2 DEF IInv, Core, TypeOK
  <2>3. TypeOK'
    BY <1>1, <1>2, <1>3, <1>5, <2>2 DEF IInv, Core, TypeOK, SlotTypes, PcSteps, Reqs
  <2>4. Funded'
    <3>1. PICK k \in 0 .. MaxAsks :
            /\ \A n \in Nonces : issuedAt[n] # None <=> n <= k
            /\ k + Cardinality(installs) + Cardinality(Busy) + asks <= MaxAsks
      BY DEF IInv, Core, Funded
    <3>2. /\ IsFiniteSet(Busy') /\ Cardinality(Busy') = Cardinality(Busy) - 1
          /\ Cardinality(Busy) \in Nat /\ asks \in Nat
      BY <1>1, <1>2, BusyLeaves DEF IInv, Core, TypeOK, Freed
    <3>3. k + Cardinality(installs') + Cardinality(Busy') + asks <= MaxAsks
      BY <1>5, <3>1, <3>2, ExchangeAssumption
    <3> QED BY <1>1, <1>3, <1>5, <2>1, <3>1, <3>2, <3>3 DEF Funded
  <2>5. Underway'
    BY <1>2, <1>3, <1>8 DEF IInv, Core, Underway, OnlySlot, Freed
  <2> QED BY <2>3, <2>4, <2>5 DEF Core
<1>10. LookedUpInTime'
  <2>1. ASSUME NEW q \in Requests, pc'[q] \in {"resolved", "admitted", "tiered"},
               revokedAt[Client(q)'] # None
        PROVE  start'[q] <= revokedAt[Client(q)']
    <3>1. q # r
      BY <1>2, <2>1 DEF Freed
    <3>2. pc'[q] = pc[q] /\ start'[q] = start[q] /\ Client(q)' = Client(q)
      BY <1>2, <3>1 DEF OnlySlot, Client
    <3> QED BY <2>1, <3>2 DEF IInv, LookedUpInTime
  <2>2. ASSUME NEW tok \in minted'
        PROVE  /\ tok.exp = tok.nbf + TokenTTL /\ tok.nbf <= clock
               /\ revokedAt[tok.client] # None
                    => tok.nbf <= revokedAt[tok.client] + MaxExchange
    <3>1. CASE tok \in minted
      BY <3>1 DEF IInv, LookedUpInTime
    <3>2. CASE tok = Token(r)
      <4>1. tok.nbf = clock /\ tok.exp = clock + TokenTTL /\ tok.client = Client(r)
        BY <3>2 DEF Token
      <4>2. CASE revokedAt[Client(r)] # None
        <5>1. start[r] <= revokedAt[Client(r)] /\ clock <= start[r] + MaxExchange
          BY <1>1, <4>2 DEF IInv, LookedUpInTime, Core, Underway
        <5>2. start[r] \in Nat /\ revokedAt[Client(r)] \in Nat
          BY <1>4, <4>2 DEF IInv, Core, TypeOK, Times
        <5> QED BY <1>8, <4>1, <5>1, <5>2, ExchangeAssumption
      <4> QED BY <1>8, <4>1, <4>2
    <3> QED BY <1>6, <3>1, <3>2
  <2> QED BY <1>1, <1>3, <2>1, <2>2 DEF IInv, LookedUpInTime
<1>11. RowsUnique'
  <2> SUFFICES ASSUME NEW tok \in minted'
               PROVE  \E a \in installs' : /\ a.id = tok.install /\ a.tenant = tok.tenant
                                           /\ a.anchor = tok.anchor
    BY <1>5 DEF RowsUnique
  <2>1. CASE tok \in minted
    BY <1>5, <2>1 DEF IInv, RowsUnique
  <2>2. CASE InsertRow(r) /\ tok = Token(r)
    <3>1. /\ tok.install = Upsert(r) /\ tok.tenant = Tenant(r) /\ tok.anchor = Anchor(r)
      BY <2>2 DEF Token
    <3> QED BY <1>5, <2>2, <3>1
  <2> QED BY <1>6, <2>1, <2>2
<1>12. NoncesMove'
  <2>1. /\ Token(r).nonce = req[r].nonce /\ Token(r).attested = req[r].attested
        /\ Token(r).tier = tier[r]
    BY DEF Token
  <2>2. \A n, a : Taken(n, a) => Taken(n, a)'
    BY <1>1 DEF Taken
  <2>3. \A q \in Requests : Holds(q)' => q # r /\ Holds(q) /\ req'[q] = req[q]
    BY <1>2 DEF OnlySlot, Holds, Freed
  <2>4. tier[r] = 0 => Holds(r)
    BY <1>1 DEF Holds
  <2>5. ASSUME NEW q \in Requests, Holds(q)'
        PROVE  /\ Taken(req[q].nonce, req[q].attested)'
               /\ \A tok \in minted' : tok.tier = 0 => tok.nonce # req'[q].nonce
               /\ \A p \in Requests : Holds(p)' /\ req'[p].nonce = req'[q].nonce => p = q
    <3>1. Holds(q) /\ req'[q] = req[q] /\ q # r
      BY <2>3, <2>5
    <3>2. /\ Taken(req[q].nonce, req[q].attested)
          /\ \A tok \in minted : tok.tier = 0 => tok.nonce # req[q].nonce
          /\ \A p \in Requests : Holds(p) /\ req[p].nonce = req[q].nonce => p = q
      BY <3>1 DEF IInv, NoncesMove
    <3>3. Taken(req[q].nonce, req[q].attested)'
      BY <1>1, <3>1, <3>2 DEF Taken
    <3>4. tier[r] = 0 => req[r].nonce # req[q].nonce
      BY <2>4, <3>1, <3>2
    <3> QED BY <1>6, <2>1, <2>3, <3>1, <3>2, <3>3, <3>4
  <2>6. ASSUME NEW tok \in minted', tok.tier = 0
        PROVE  Taken(tok.nonce, tok.attested)'
    <3>1. CASE tok \in minted
      BY <2>2, <2>6, <3>1 DEF IInv, NoncesMove
    <3>2. CASE tok = Token(r)
      <4>1. Taken(tok.nonce, tok.attested)
        BY <2>1, <2>4, <2>6, <3>2 DEF IInv, NoncesMove
      <4> QED BY <2>2, <4>1
    <3> QED BY <1>6, <3>1, <3>2
  <2>7. \A t, u \in minted' : t.tier = 0 /\ u.tier = 0 /\ t.nonce = u.nonce => t = u
    <3>1. tier[r] = 0 => \A tok \in minted : tok.tier = 0 => tok.nonce # req[r].nonce
      BY <2>4 DEF IInv, NoncesMove
    <3> QED BY <1>6, <2>1, <3>1 DEF IInv, NoncesMove
  <2>8. /\ \A c \in Clients : challenge[c].nonce # None
                              => issuedAt[challenge[c].nonce] # None
        /\ \A c, d \in Clients : challenge[c].nonce # None
                                  /\ challenge[c].nonce = challenge[d].nonce => c = d
    BY DEF IInv, NoncesMove
  <2> QED BY <1>1, <2>5, <2>6, <2>7, <2>8 DEF NoncesMove
<1> QED BY <1>9, <1>10, <1>11, <1>12 DEF IInv

-------------------------------------------------------------------------------
(* A new request costs one of the requests to come. *)
LEMMA AskKeeps == ASSUME IInv, NEW r \in Requests, Ask(r) PROVE IInv'
<1>1. /\ pc[r] = "idle" /\ asks > 0 /\ asks' = asks - 1
      /\ pc' = [pc EXCEPT ![r] = "arrived"] /\ start' = [start EXCEPT ![r] = clock]
      /\ UNCHANGED <<clock, faults, revokedAt, challenge, hits, installs, issuedAt, given,
                     minted, admitted, tier>>
  BY DEF Ask, stores
<1>2. PICK q \in Reqs : /\ req' = [req EXCEPT ![r] = q]
                        /\ q.kind \in Endpoints /\ q.device \in Devices
                        /\ q.kind = "token" => q.hint \in Hints
  <2>1. PICK d \in Devices, h \in Hints :
          \/ req' = [req EXCEPT ![r] = [NoReq EXCEPT !.kind = "challenge", !.device = d]]
          \/ req' = [req EXCEPT ![r] = [NoReq EXCEPT !.kind = "token", !.device = d,
                                                     !.hint = h]]
          \/ \E n \in Nonces, a \in BOOLEAN :
               /\ <<d, n>> \in given
               /\ req' = [req EXCEPT ![r] = [kind |-> "token", device |-> d, hint |-> h,
                                             nonce |-> n, attested |-> a]]
    BY Zenon DEF Ask
  <2> DEFINE x1 == [NoReq EXCEPT !.kind = "challenge"]
             q1 == [x1 EXCEPT !.device = d]
             x2 == [NoReq EXCEPT !.kind = "token"]
             y2 == [x2 EXCEPT !.device = d]
             q2 == [y2 EXCEPT !.hint = h]
  <2>2. /\ [NoReq EXCEPT !.kind = "challenge", !.device = d] = q1
        /\ [NoReq EXCEPT !.kind = "token", !.device = d, !.hint = h] = q2
    BY Zenon
  <2>3. /\ q1 \in Reqs /\ q1.kind = "challenge" /\ q1.device = d
        /\ q2 \in Reqs /\ q2.kind = "token" /\ q2.device = d /\ q2.hint = h
    <3>1. NoReq \in Reqs
      BY DEF NoReq, Reqs
    <3>2. /\ x1 \in Reqs /\ x1.kind = "challenge"
          /\ x2 \in Reqs /\ x2.kind = "token"
      BY <3>1 DEF Reqs, Endpoints
    <3> HIDE DEF x1, x2
    <3>3. /\ q1 \in Reqs /\ q1.kind = "challenge" /\ q1.device = d
          /\ y2 \in Reqs /\ y2.kind = "token" /\ y2.device = d
      BY <3>2 DEF Reqs
    <3> HIDE DEF y2
    <3>4. q2 \in Reqs /\ q2.kind = "token" /\ q2.device = d /\ q2.hint = h
      BY <3>3 DEF Reqs
    <3> QED BY <3>3, <3>4
  <2> HIDE DEF q1, q2
  <2>4. CASE req' = [req EXCEPT ![r] = q1]
    BY <2>3, <2>4 DEF Endpoints
  <2>5. CASE req' = [req EXCEPT ![r] = q2]
    BY <2>3, <2>5 DEF Endpoints
  <2>6. ASSUME NEW n \in Nonces, NEW a \in BOOLEAN,
               req' = [req EXCEPT ![r] = [kind |-> "token", device |-> d, hint |-> h,
                                          nonce |-> n, attested |-> a]]
        PROVE  \E q \in Reqs : /\ req' = [req EXCEPT ![r] = q]
                               /\ q.kind \in Endpoints /\ q.device \in Devices
                               /\ q.kind = "token" => q.hint \in Hints
    <3> DEFINE q3 == [kind |-> "token", device |-> d, hint |-> h,
                      nonce |-> n, attested |-> a]
    <3>1. q3 \in Reqs
      BY DEF Reqs, Endpoints
    <3>2. q3.kind \in Endpoints /\ q3.device \in Devices /\ q3.hint \in Hints
      BY DEF Endpoints
    <3> QED BY <2>6, <3>1, <3>2
  <2> QED BY <2>1, <2>2, <2>4, <2>5, <2>6, Zenon
<1>3. SlotTypes /\ clock \in Times /\ asks \in Nat
  BY DEF IInv, Core, TypeOK, SlotTypes, PcSteps, Reqs
<1>4. SlotTypes'
  BY <1>1, <1>2, <1>3 DEF SlotTypes, PcSteps
<1>5. OnlySlot(r) /\ pc'[r] = "arrived" /\ req'[r] = q /\ start'[r] = clock
  BY <1>1, <1>2, <1>3 DEF SlotTypes, OnlySlot
<1>6. asks' \in Nat
  BY <1>1, <1>3
<1>7. TypeOK'
  BY <1>1, <1>4, <1>6 DEF IInv, Core, TypeOK, SlotTypes, PcSteps, Reqs
<1>8. Funded'
  <2>1. PICK k \in 0 .. MaxAsks :
          /\ \A n \in Nonces : issuedAt[n] # None <=> n <= k
          /\ k + Cardinality(installs) + Cardinality(Busy) + asks <= MaxAsks
    BY DEF IInv, Core, Funded
  <2>2. /\ IsFiniteSet(installs) /\ IsFiniteSet(minted) /\ IsFiniteSet(Busy)
        /\ Cardinality(installs) \in Nat /\ Cardinality(Busy) \in Nat
    BY FS_CardinalityType DEF IInv, Core, Funded
  <2>3. Busy' = Busy \union {r} /\ r \notin Busy
    BY <1>1, <1>5 DEF Busy, OnlySlot
  <2>4. IsFiniteSet(Busy') /\ Cardinality(Busy') = Cardinality(Busy) + 1
    BY <2>2, <2>3, FS_AddElement
  <2>5. k + Cardinality(installs) + Cardinality(Busy') + asks' <= MaxAsks
    BY <1>1, <1>3, <2>1, <2>2, <2>4, ExchangeAssumption
  <2> QED BY <1>1, <2>1, <2>2, <2>4, <2>5 DEF Funded
<1>9. Underway'
  <2> SUFFICES ASSUME NEW p \in Requests
               PROVE  /\ admitted[p] <= clock
                      /\ pc'[p] # "idle" =>
                           /\ req'[p].kind \in Endpoints /\ req'[p].device \in Devices
                           /\ req'[p].kind = "token" => req'[p].hint \in Hints
                           /\ start'[p] <= clock /\ clock <= start'[p] + MaxExchange
                      /\ pc'[p] = "tiered" => req'[p].kind = "token"
    BY <1>1 DEF Underway
  <2>1. CASE p = r
    <3>1. clock <= clock /\ clock <= clock + MaxExchange
      BY <1>3, ExchangeAssumption DEF Times
    <3> QED BY <1>2, <1>5, <2>1, <3>1 DEF IInv, Core, Underway
  <2>2. CASE p # r
    BY <1>5, <2>2 DEF IInv, Core, Underway, OnlySlot
  <2> QED BY <2>1, <2>2
<1>10. LookedUpInTime'
  <2>1. ASSUME NEW p \in Requests, pc'[p] \in {"resolved", "admitted", "tiered"},
               revokedAt[Client(p)'] # None
        PROVE  start'[p] <= revokedAt[Client(p)']
    <3>1. p # r
      BY <1>5, <2>1
    <3>2. pc'[p] = pc[p] /\ start'[p] = start[p] /\ Client(p)' = Client(p)
      BY <1>5, <3>1 DEF OnlySlot, Client
    <3> QED BY <2>1, <3>2 DEF IInv, LookedUpInTime
  <2> QED BY <1>1, <2>1 DEF IInv, LookedUpInTime
<1>11. RowsUnique'
  BY <1>1, RowsStill DEF IInv
<1>12. NoncesMove'
  <2>1. ~Holds(r)' /\ \A c \in Clients : challenge'[c].nonce \in {challenge[c].nonce, None}
    BY <1>1, <1>5 DEF Holds
  <2> QED BY <1>1, <1>5, <2>1, NoncesStill DEF IInv
<1> QED BY <1>7, <1>8, <1>9, <1>10, <1>11, <1>12 DEF IInv, Core

(* A revocation comes after the start of every request in progress. *)
LEMMA RevokeKeeps == ASSUME IInv, NEW c \in Clients, Revoke(c) PROVE IInv'
<1>1. /\ revokedAt[c] = None /\ revokedAt' = [revokedAt EXCEPT ![c] = clock]
      /\ UNCHANGED <<clock, faults, asks, challenge, hits, installs, issuedAt, given, minted,
                     pc, req, start, admitted, tier>>
  BY DEF Revoke, dials
<1>2. clock \in Times /\ clock \in Nat
  BY DEF IInv, Core, TypeOK, Times
<1>3. \A d \in Clients : revokedAt'[d] = IF d = c THEN clock ELSE revokedAt[d]
  BY <1>1 DEF IInv, Core, TypeOK
<1>4. TypeOK'
  BY <1>1, <1>2 DEF IInv, Core, TypeOK
<1>5. Funded' /\ Underway'
  BY <1>1 DEF IInv, Core, Funded, Underway, Busy
<1>6. LookedUpInTime'
  <2>1. ASSUME NEW r \in Requests, pc[r] \in {"resolved", "admitted", "tiered"},
               revokedAt'[Client(r)] # None
        PROVE  start[r] <= revokedAt'[Client(r)]
    <3>1. Client(r) \in Clients /\ start[r] <= clock
      BY <2>1, Named DEF IInv, Core, Underway
    <3> QED BY <1>3, <2>1, <3>1 DEF IInv, LookedUpInTime
  <2>2. ASSUME NEW tok \in minted
        PROVE  /\ tok.exp = tok.nbf + TokenTTL /\ tok.nbf <= clock
               /\ revokedAt'[tok.client] # None
                    => tok.nbf <= revokedAt'[tok.client] + MaxExchange
    <3>1. tok.client \in Clients /\ tok.nbf \in Nat
      BY DEF IInv, Core, TypeOK, Times
    <3>2. tok.exp = tok.nbf + TokenTTL /\ tok.nbf <= clock
      BY DEF IInv, LookedUpInTime
    <3>3. tok.nbf <= clock + MaxExchange
      BY <1>2, <3>1, <3>2, ExchangeAssumption
    <3> QED BY <1>3, <3>1, <3>2, <3>3 DEF IInv, LookedUpInTime
  <2>3. \A d \in Clients : revokedAt'[d] # None => revokedAt'[d] <= clock
    BY <1>2, <1>3 DEF IInv, LookedUpInTime
  <2>4. \A r \in Requests : Client(r)' = Client(r)
    BY <1>1 DEF Client
  <2> QED BY <1>1, <2>1, <2>2, <2>3, <2>4 DEF LookedUpInTime
<1>7. RowsUnique' /\ NoncesMove'
  BY <1>1 DEF IInv, RowsUnique, NoncesMove, Holds, Taken
<1> QED BY <1>4, <1>5, <1>6, <1>7 DEF IInv, Core

(* Time waits for requests that have taken long enough. *)
LEMMA TickKeeps == ASSUME IInv, Tick PROVE IInv'
<1>1. /\ clock < MaxClock /\ clock' = clock + 1
      /\ \A r \in Requests : pc[r] # "idle" => clock - start[r] < MaxExchange
      /\ UNCHANGED <<faults, asks, revokedAt, challenge, hits, installs, issuedAt, given,
                     minted, pc, req, start, admitted, tier>>
  BY DEF Tick, stores
<1>2. clock \in Nat /\ clock' \in Times
  BY <1>1, ExchangeAssumption DEF IInv, Core, TypeOK, Times
<1>3. TypeOK'
  BY <1>1, <1>2 DEF IInv, Core, TypeOK
<1>4. Funded'
  BY <1>1 DEF IInv, Core, Funded, Busy
<1>5. Underway'
  <2> SUFFICES ASSUME NEW r \in Requests
               PROVE  /\ admitted[r] <= clock + 1
                      /\ pc[r] # "idle" =>
                           /\ req[r].kind \in Endpoints /\ req[r].device \in Devices
                           /\ req[r].kind = "token" => req[r].hint \in Hints
                           /\ start[r] <= clock + 1 /\ clock + 1 <= start[r] + MaxExchange
                      /\ pc[r] = "tiered" => req[r].kind = "token"
    BY <1>1 DEF Underway
  <2>1. start[r] \in Nat /\ admitted[r] \in Nat
    BY DEF IInv, Core, TypeOK, Times
  <2>2. pc[r] # "idle" => start[r] <= clock + 1 /\ clock + 1 <= start[r] + MaxExchange
    <3>1. pc[r] # "idle" => start[r] <= clock /\ clock - start[r] < MaxExchange
      BY <1>1 DEF IInv, Core, Underway
    <3> QED BY <1>2, <2>1, <3>1, ExchangeAssumption
  <2>3. admitted[r] <= clock + 1
    <3>1. admitted[r] <= clock
      BY DEF IInv, Core, Underway
    <3> QED BY <1>2, <2>1, <3>1
  <2> QED BY <2>2, <2>3 DEF IInv, Core, Underway
<1>6. LookedUpInTime'
  <2>1. \A c \in Clients : revokedAt[c] # None => revokedAt[c] <= clock + 1
    BY <1>2 DEF IInv, LookedUpInTime, Core, TypeOK, Times
  <2>2. \A tok \in minted : tok.nbf <= clock + 1
    BY <1>2 DEF IInv, LookedUpInTime, Core, TypeOK, Times
  <2>3. \A r \in Requests : Client(r)' = Client(r)
    BY <1>1 DEF Client
  <2> QED BY <1>1, <2>1, <2>2, <2>3 DEF IInv, LookedUpInTime
<1>7. RowsUnique' /\ NoncesMove'
  BY <1>1 DEF IInv, RowsUnique, NoncesMove, Holds, Taken
<1> QED BY <1>3, <1>4, <1>5, <1>6, <1>7 DEF IInv, Core

-------------------------------------------------------------------------------
(* At first there are no requests, rows, nonces or tokens. *)
LEMMA InitIInv == Init => IInv
<1> SUFFICES ASSUME Init PROVE IInv
  OBVIOUS
<1>1. /\ NoReq \in Reqs /\ 0 \in Times
      /\ NoKey \in [nonce : Nonces \union {None}, exp : Nat]
      /\ NoHits \in [n : Nat, exp : Nat]
  BY ExchangeAssumption DEF NoReq, Reqs, Times, NoKey, NoHits
<1>2. TypeOK
  BY <1>1, ExchangeAssumption DEF Init, TypeOK, Reqs
<1>3. Funded
  <2>1. Busy = {} /\ installs = {} /\ minted = {} /\ asks = MaxAsks
    BY DEF Init, Busy
  <2>2. IsFiniteSet({}) /\ Cardinality({}) = 0
    BY FS_EmptySet
  <2>3. 0 \in 0 .. MaxAsks /\ 0 + 0 + 0 + MaxAsks <= MaxAsks
    BY ExchangeAssumption
  <2>4. \A n \in Nonces : issuedAt[n] # None <=> n <= 0
    BY DEF Init, Nonces
  <2> QED BY <2>1, <2>2, <2>3, <2>4 DEF Funded
<1>4. Underway /\ LookedUpInTime /\ RowsUnique
  BY DEF Init, Underway, LookedUpInTime, RowsUnique
<1>5. NoncesMove
  BY DEF Init, NoncesMove, NoKey, Holds
<1> QED BY <1>2, <1>3, <1>4, <1>5 DEF IInv, Core

(* Every step keeps the invariant. *)
LEMMA NextIInv == IInv /\ [Next]_vars => IInv'
<1> SUFFICES ASSUME IInv, [Next]_vars PROVE IInv'
  OBVIOUS
<1>1. CASE UNCHANGED vars
  <2>1. UNCHANGED <<clock, faults, asks, revokedAt, challenge, hits, installs, issuedAt,
                    given, minted, pc, req, start, admitted, tier>>
    BY <1>1 DEF vars, dials, stores
  <2>2. TypeOK'
    BY <2>1 DEF IInv, Core, TypeOK
  <2>3. Funded' /\ Underway'
    BY <2>1 DEF IInv, Core, Funded, Busy, Underway
  <2>4. LookedUpInTime'
    BY <2>1 DEF IInv, LookedUpInTime, Client
  <2>5. RowsUnique' /\ NoncesMove'
    BY <2>1 DEF IInv, RowsUnique, NoncesMove, Holds, Taken
  <2> QED BY <2>2, <2>3, <2>4, <2>5 DEF IInv, Core
<1>2. ASSUME NEW r \in Requests, Ask(r) \/ NewChallenge(r) \/ NewToken(r) PROVE IInv'
  BY <1>2, AskKeeps, ResolveKeeps, LimitKeeps, IssueKeeps, ConsumeKeeps, MintKeeps
     DEF NewChallenge, NewToken
<1> QED BY <1>1, <1>2, RevokeKeeps, TickKeeps DEF Next

(* Every reachable state satisfies the invariant. *)
THEOREM Invariance == Spec => []IInv
  BY InitIInv, NextIInv, PTL DEF Spec

(* All state keeps its type: among other things the nonces and the install *)
(* ids never run out, and a minted token names an existing device.         *)
THEOREM TypeCorrect == Spec => []TypeOK
  BY Invariance, PTL DEF IInv, Core

(* A nonce buys one Tier 0 token at most, and only with an attestation,    *)
(* however many exchanges present it and whatever answers are lost.        *)
THEOREM NoncesAreSpentOnce == Spec => []NonceSpentOnce
<1>1. IInv => NonceSpentOnce
  BY DEF IInv, NoncesMove, NonceSpentOnce, Taken
<1> QED BY <1>1, Invariance, PTL

(* Tokens share an install exactly when they share tenant and anchor.      *)
THEOREM InstallsAreAnchored == Spec => []OneInstallPerAnchor
<1>1. IInv => OneInstallPerAnchor
  <2> SUFFICES ASSUME IInv, NEW t \in minted, NEW u \in minted
               PROVE  t.install = u.install <=> t.tenant = u.tenant /\ t.anchor = u.anchor
    BY DEF OneInstallPerAnchor
  <2>1. PICK a \in installs : /\ a.id = t.install /\ a.tenant = t.tenant
                              /\ a.anchor = t.anchor
    BY DEF IInv, RowsUnique
  <2>2. PICK b \in installs : /\ b.id = u.install /\ b.tenant = u.tenant
                              /\ b.anchor = u.anchor
    BY DEF IInv, RowsUnique
  <2>3. /\ a.id = b.id => a = b
        /\ a.tenant = b.tenant /\ a.anchor = b.anchor => a = b
    BY DEF IInv, RowsUnique
  <2> QED BY <2>1, <2>2, <2>3
<1> QED BY <1>1, Invariance, PTL

(* No token of a revoked client id is accepted longer after the revocation *)
(* than an exchange under way, a token's lifetime and the skew allow.      *)
THEOREM RevocationIsBounded == Spec => []RevocationTakesEffect
<1>1. IInv => RevocationTakesEffect
  <2> SUFFICES ASSUME IInv, NEW tok \in minted, revokedAt[tok.client] # None,
                      Accepts(tok, clock)
               PROVE  clock - revokedAt[tok.client] <= MaxExchange + TokenTTL + ClockSkew
    BY DEF RevocationTakesEffect
  <2>1. tok.client \in Clients /\ tok.nbf \in Nat /\ clock \in Nat
    BY DEF IInv, Core, TypeOK, Times
  <2>2. revokedAt[tok.client] \in Nat
    BY <2>1 DEF IInv, Core, TypeOK, Times
  <2>3. /\ tok.exp = tok.nbf + TokenTTL
        /\ tok.nbf <= revokedAt[tok.client] + MaxExchange
    BY DEF IInv, LookedUpInTime
  <2>4. clock <= tok.exp + ClockSkew
    BY DEF Accepts
  <2> QED BY <2>1, <2>2, <2>3, <2>4, ExchangeAssumption
<1> QED BY <1>1, Invariance, PTL
==================================================================================
