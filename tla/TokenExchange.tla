----------------------------- MODULE TokenExchange -----------------------------
(***************************************************************************)
(* POST /v1/auth/challenge and POST /v1/auth/token                         *)
(* (services/ingest/internal/handler/token.go): how a device trades the    *)
(* public client id of its app, and an attestation over a server nonce,    *)
(* for an ingest token.  Every store round-trip of a request is an action; *)
(* requests of other devices, lost answers, revocation and time come       *)
(* between.  A key that Redis has expired is one whose exp has passed.     *)
(***************************************************************************)
EXTENDS Integers, FiniteSets

CONSTANTS
    Clients, Tenants, TenantOf,   \* client_ids and their tenants
    Devices, ClientOf,            \* devices and the client id in their app
    Hints,                        \* device_hint values a device may send
    Requests,                     \* slots for requests in progress
    Genuine,                      \* FALSE: attest.Noop, TRUE: a real attestor
    ChallengeTTL,
    RateLimit, RateWindow,        \* tokenRatePerMinute, tokenRateWindow
    TokenTTL, ClockSkew,
    MaxExchange,                  \* longest time a request takes
    MaxAsks, MaxFaults, MaxClock, \* bounds on requests, faults and time
    None

ASSUME ExchangeAssumption ==
    /\ TenantOf \in [Clients -> Tenants] /\ ClientOf \in [Devices -> Clients]
    /\ Genuine \in BOOLEAN
    /\ ChallengeTTL \in Nat \ {0} /\ RateWindow \in Nat \ {0} /\ RateLimit \in Nat \ {0}
    /\ TokenTTL \in Nat /\ ClockSkew \in Nat /\ MaxExchange \in Nat
    /\ MaxAsks \in Nat /\ MaxFaults \in Nat /\ MaxClock \in Nat
    /\ None \notin Nat

VARIABLES
    clock, faults, asks,
    revokedAt,    \* client_ids.revoked_at
    challenge,    \* Redis att:{client}: the outstanding nonce and its expiry
    hits,         \* Redis rl:token and rl:challenge counters and their expiry
    installs,     \* Postgres installs
    issuedAt,     \* history: when a nonce was issued
    given,        \* the nonces each device was answered with
    minted,       \* every token signed so far
    pc, req, start, admitted, tier   \* per request

dials  == <<clock, faults, asks>>
stores == <<revokedAt, challenge, hits, installs>>
vars   == <<dials, stores, issuedAt, given, minted, pc, req, start, admitted, tier>>

Times     == 0 .. MaxClock
Endpoints == {"challenge", "token"}
Nonces    == 1 .. MaxAsks
Ids       == 1 .. MaxAsks
NoKey     == [nonce |-> None, exp |-> 0]
NoHits    == [n |-> 0, exp |-> 0]
NoReq     == [kind |-> "none", device |-> None, hint |-> None, nonce |-> None,
              attested |-> FALSE]

(* What identifies an install: its attestation subject or its device key. *)
Anchors == {<<"subject", d>> : d \in Devices}
           \union {<<"device", c, h>> : c \in Clients, h \in Hints}

TypeOK ==
    /\ clock \in Times /\ faults \in Nat /\ asks \in Nat
    /\ revokedAt \in [Clients -> Times \union {None}]
    /\ challenge \in [Clients -> [nonce : Nonces \union {None}, exp : Nat]]
    /\ hits \in [Endpoints \X Clients -> [n : Nat, exp : Nat]]
    /\ installs \subseteq [id : Ids, tenant : Tenants, anchor : Anchors,
                           client : Clients, admitted : Times]
    /\ issuedAt \in [Nonces -> Times \union {None}]
    /\ given \subseteq Devices \X Nonces
    /\ minted \subseteq [serial : Nat, device : Devices, client : Clients, install : Ids, 
                         tenant : Tenants, anchor : Anchors, tier : {0, 1},
                         nonce : Nonces \union {None}, attested : BOOLEAN,
                         admitted : Times, nbf : Times, exp : Nat]
    /\ pc \in [Requests -> {"idle", "arrived", "resolved", "admitted", "tiered"}]
    /\ req \in [Requests -> [kind : Endpoints \union {"none"}, device : Devices \union {None},
                             hint : Hints \union {None}, nonce : Nonces \union {None},
                             attested : BOOLEAN]]
    /\ start \in [Requests -> Times]
    /\ admitted \in [Requests -> Times]
    /\ tier \in [Requests -> {0, 1}]

Init ==
    /\ clock = 0 /\ faults = MaxFaults /\ asks = MaxAsks
    /\ revokedAt = [c \in Clients |-> None]
    /\ challenge = [c \in Clients |-> NoKey]
    /\ hits = [x \in Endpoints \X Clients |-> NoHits]
    /\ installs = {}
    /\ issuedAt = [n \in Nonces |-> None]
    /\ given = {}
    /\ minted = {}
    /\ pc = [r \in Requests |-> "idle"]
    /\ req = [r \in Requests |-> NoReq]
    /\ start = [r \in Requests |-> 0]
    /\ admitted = [r \in Requests |-> 0]
    /\ tier = [r \in Requests |-> 1]

-------------------------------------------------------------------------------
Fault == faults > 0 /\ faults' = faults - 1 /\ UNCHANGED <<clock, asks>>
Calm  == UNCHANGED dials

Client(r) == ClientOf[req[r].device]
Tenant(r) == TenantOf[Client(r)]

Advance(r, step) == /\ pc' = [pc EXCEPT ![r] = step]
                    /\ UNCHANGED <<req, start>>

(* The request is answered, with a result or with an error. *)
Answer(r) ==
    /\ pc' = [pc EXCEPT ![r] = "idle"]
    /\ req' = [req EXCEPT ![r] = NoReq]
    /\ start' = [start EXCEPT ![r] = 0]
    /\ admitted' = [admitted EXCEPT ![r] = 0]
    /\ tier' = [tier EXCEPT ![r] = 1]

-------------------------------------------------------------------------------
(* The devices: external.  A device may exchange without a nonce, with the *)
(* nonce it was given last or, when an answer was lost, with an older one. *)
Ask(r) ==
    /\ pc[r] = "idle"
    /\ asks > 0 /\ asks' = asks - 1
    /\ pc' = [pc EXCEPT ![r] = "arrived"]
    /\ start' = [start EXCEPT ![r] = clock]
    /\ \E d \in Devices, h \in Hints :
        \/ req' = [req EXCEPT ![r] = [NoReq EXCEPT !.kind = "challenge", !.device = d]]
        \/ req' = [req EXCEPT ![r] = [NoReq EXCEPT !.kind = "token", !.device = d,
                                                   !.hint = h]]
        \/ \E n \in Nonces, a \in BOOLEAN :
            /\ <<d, n>> \in given
            /\ req' = [req EXCEPT ![r] = [kind |-> "token", device |-> d, hint |-> h,
                                          nonce |-> n, attested |-> a]]
    /\ UNCHANGED <<clock, faults, stores, issuedAt, given, minted, admitted, tier>>

(* MUTANT of Resolve: revoked_at is not looked at. *)
ResolveAny(r) ==
    /\ pc[r] = "arrived"
    /\ \/ Calm /\ Advance(r, "resolved") /\ UNCHANGED <<admitted, tier>>
       \/ Fault /\ Answer(r)
    /\ UNCHANGED <<stores, issuedAt, given, minted>>

(* ResolveTenant: an unknown or revoked client id is a 401, and so is a    *)
(* failed lookup.                                                          *)
Resolve(r) ==
    /\ pc[r] = "arrived"
    /\ \/ /\ revokedAt[Client(r)] = None
          /\ Calm
          /\ Advance(r, "resolved")
          /\ UNCHANGED <<admitted, tier>>
       \/ revokedAt[Client(r)] # None /\ Calm /\ Answer(r)
       \/ Fault /\ Answer(r)
    /\ UNCHANGED <<stores, issuedAt, given, minted>>

(* MUTANT of Incr: the window is cut short. *)
IncrShort(x) == IF clock < hits[x].exp
                THEN [hits[x] EXCEPT !.n = @ + 1]
                ELSE [n |-> 1, exp |-> clock + RateWindow - 1]

(* clientRateScript: INCR, and EXPIRE for the first hit of a window. *)
Incr(x) == IF clock < hits[x].exp
           THEN [hits[x] EXCEPT !.n = @ + 1]
           ELSE [n |-> 1, exp |-> clock + RateWindow]

Allowed(n) == n <= RateLimit

(* AllowClient on the endpoint's own counter: 429 over the limit, 503 when *)
(* the script's answer is lost, whether or not it ran.                     *)
Limit(r) ==
    LET x == <<req[r].kind, Client(r)>>
    IN  /\ pc[r] = "resolved"
        /\ \/ /\ Calm
              /\ hits' = [hits EXCEPT ![x] = Incr(x)]
              /\ \/ /\ Allowed(Incr(x).n)
                    /\ admitted' = [admitted EXCEPT ![r] = clock]
                    /\ Advance(r, "admitted")
                    /\ UNCHANGED tier
                 \/ ~Allowed(Incr(x).n) /\ Answer(r)
           \/ /\ Fault
              /\ hits' = [hits EXCEPT ![x] = Incr(x)] \/ UNCHANGED hits
              /\ Answer(r)
        /\ UNCHANGED <<revokedAt, challenge, installs, issuedAt, given, minted>>

Fresh == {n \in Nonces : issuedAt[n] = None}

(* RedisChallenges.Issue: SET replaces the client's outstanding nonce. *)
Issue(r) ==
    /\ pc[r] = "admitted"
    /\ LET n   == CHOOSE x \in Fresh : \A y \in Fresh : x <= y
           set == /\ challenge' = [challenge EXCEPT ![Client(r)] =
                                    [nonce |-> n, exp |-> clock + ChallengeTTL]]
                  /\ issuedAt' = [issuedAt EXCEPT ![n] = clock]
       IN  \/ Calm /\ set /\ given' = given \union {<<req[r].device, n>>}
           \/ Fault /\ (set \/ UNCHANGED <<challenge, issuedAt>>) /\ UNCHANGED given
    /\ Answer(r)
    /\ UNCHANGED <<revokedAt, hits, installs, minted>>

Live(c)    == clock < challenge[c].exp
GetDel(c)  == challenge' = [challenge EXCEPT ![c] = NoKey]
Matches(r) == Live(Client(r)) /\ challenge[Client(r)].nonce = req[r].nonce

(* The attestor: external.  Noop refuses everything; a real one accepts an *)
(* attestation over the challenge presented with it.                       *)
Attests(r) == Genuine /\ req[r].attested

(* MUTANT of Consume: GET, and the key is left for its TTL. *)
ConsumeByGet(r) ==
    /\ pc[r] = "admitted"
    /\ tier' = [tier EXCEPT ![r] =
                 IF req[r].nonce # None /\ Matches(r) /\ Attests(r) THEN 0 ELSE 1]
    /\ Calm
    /\ Advance(r, "tiered")
    /\ UNCHANGED <<stores, issuedAt, given, minted, admitted>>

(* RedisChallenges.Consume and the attestation: they assign a tier and     *)
(* never refuse.  GETDEL takes the key whether or not it matches.          *)
Consume(r) ==
    /\ pc[r] = "admitted"
    /\ \/ /\ req[r].nonce = None
          /\ tier' = [tier EXCEPT ![r] = 1]
          /\ Calm
          /\ UNCHANGED challenge
       \/ /\ req[r].nonce # None
          /\ tier' = [tier EXCEPT ![r] = IF Matches(r) /\ Attests(r) THEN 0 ELSE 1]
          /\ Calm
          /\ GetDel(Client(r))
       \/ /\ req[r].nonce # None
          /\ tier' = [tier EXCEPT ![r] = 1]
          /\ Fault
          /\ GetDel(Client(r)) \/ UNCHANGED challenge
    /\ Advance(r, "tiered")
    /\ UNCHANGED <<revokedAt, hits, installs, issuedAt, given, minted, admitted>>

(* deviceKey is the anchor of an install without an attestation subject. *)
Anchor(r) == IF tier[r] = 0 THEN <<"subject", req[r].device>>
             ELSE <<"device", Client(r), req[r].hint>>

NewId == Cardinality(installs) + 1

(* MUTANTS of Upsert: NULL subjects never conflict; a conflict that does   *)
(* nothing returns no id.                                                  *)
UpsertSubject(r) ==
    LET old == {row \in installs : /\ row.tenant = Tenant(r) /\ row.anchor = Anchor(r)
                                   /\ tier[r] = 0}
    IN  IF old # {} THEN (CHOOSE row \in old : TRUE).id ELSE NewId
UpsertNothing(r) ==
    IF \E row \in installs : row.tenant = Tenant(r) /\ row.anchor = Anchor(r)
    THEN 0 ELSE NewId

(* The id that the upsert of IssueInstall returns: one partial unique      *)
(* index per kind of anchor.                                               *)
Upsert(r) ==
    LET old == {row \in installs : row.tenant = Tenant(r) /\ row.anchor = Anchor(r)}
    IN  IF old # {} THEN (CHOOSE row \in old : TRUE).id ELSE NewId

(* The row it leaves behind when the anchor was new. *)
InsertRow(r) ==
    installs' = IF Upsert(r) = NewId
                THEN installs \union {[id |-> NewId, tenant |-> Tenant(r),
                                       anchor |-> Anchor(r), client |-> Client(r),
                                       admitted |-> admitted[r]]}
                ELSE installs

(* Minter.Mint: what the token says, and for how long. *)
Token(r) == [serial |-> Cardinality(minted) + 1,
             device |-> req[r].device, client |-> Client(r), install |-> Upsert(r),
             tenant |-> Tenant(r), anchor |-> Anchor(r), tier |-> tier[r],
             nonce |-> req[r].nonce, attested |-> req[r].attested,
             admitted |-> admitted[r], nbf |-> clock, exp |-> clock + TokenTTL]

(* IssueInstall and Mint: 503 when the row's fate is unknown. *)
Mint(r) ==
    /\ pc[r] = "tiered"
    /\ \/ /\ Calm
          /\ InsertRow(r)
          /\ minted' = minted \union {Token(r)}
       \/ /\ Fault
          /\ InsertRow(r) \/ UNCHANGED installs
          /\ UNCHANGED minted
    /\ Answer(r)
    /\ UNCHANGED <<revokedAt, challenge, hits, issuedAt, given>>

(* The two handlers. *)
NewChallenge(r) == req[r].kind = "challenge" /\ (Resolve(r) \/ Limit(r) \/ Issue(r))
NewToken(r)     == /\ req[r].kind = "token"
                   /\ Resolve(r) \/ Limit(r) \/ Consume(r) \/ Mint(r)

(* An operator revokes a client id. *)
Revoke(c) ==
    /\ revokedAt[c] = None
    /\ revokedAt' = [revokedAt EXCEPT ![c] = clock]
    /\ UNCHANGED <<dials, challenge, hits, installs, issuedAt, given, minted,
                   pc, req, start, admitted, tier>>

Tick ==
    /\ clock < MaxClock
    /\ \A r \in Requests : pc[r] # "idle" => clock - start[r] < MaxExchange
    /\ clock' = clock + 1
    /\ UNCHANGED <<faults, asks, stores, issuedAt, given, minted,
                   pc, req, start, admitted, tier>>

Next ==
    \/ \E r \in Requests : Ask(r) \/ NewChallenge(r) \/ NewToken(r)
    \/ \E c \in Clients : Revoke(c)
    \/ Tick

Spec == Init /\ [][Next]_vars

-------------------------------------------------------------------------------
(* Verifier.Verify: the time checks a token that Mint built must pass. *)
Accepts(tok, now) == now <= tok.exp + ClockSkew /\ now + ClockSkew >= tok.nbf

(* One attestation, one privileged token: however many exchanges present   *)
(* the same nonce, at once or as a retry, one of them gets Tier 0, and     *)
(* only with an attestation over it (attest.go 44-53, 76-85).              *)
NonceSpentOnce ==
    \A t1, t2 \in minted :
        t1.tier = 0 /\ t2.tier = 0 /\ t1.nonce = t2.nonce => t1 = t2 /\ t1.attested

(* An install identity is one bucket: racing, repeated and half-failed     *)
(* exchanges of an anchor agree on its install, and no two anchors or      *)
(* tenants share one (store.go 36-71).                                     *)
OneInstallPerAnchor ==
    \A t1, t2 \in minted :
        t1.install = t2.install <=> t1.tenant = t2.tenant /\ t1.anchor = t2.anchor

(* Install rows grow slowly: of the exchanges admitted in an interval of   *)
(* one window, less than twice the limit leave a new row, whatever hints   *)
(* the client sends (token.go 43-50, quota.go 107-137).                    *)
RowGrowthBounded ==
    \A c \in Clients, s \in Times :
        Cardinality({row \in installs : /\ row.client = c
                                        /\ row.admitted >= s
                                        /\ row.admitted < s + RateWindow})
            < 2 * RateLimit

(* Revocation takes effect: no token of a revoked client id is accepted    *)
(* longer than an exchange under way, the token's lifetime and the skew    *)
(* allow (store.go 24-34, token.go 56-85, verify.go 122-127).              *)
RevocationTakesEffect ==
    \A tok \in minted :
        revokedAt[tok.client] # None /\ Accepts(tok, clock)
            => clock - revokedAt[tok.client] <= MaxExchange + TokenTTL + ClockSkew

(* ADR-0007's tiers: an attestation over the nonce its device was given    *)
(* last, unexpired and presented only once, earns Tier 0.                  *)
AttestationEarnsTierZero ==
    \A tok \in minted :
        /\ tok.attested
        /\ \A n \in Nonces : <<tok.device, n>> \in given => n <= tok.nonce
        /\ tok.admitted - issuedAt[tok.nonce] < ChallengeTTL - MaxExchange
        => \/ tok.tier = 0
           \/ \E other \in minted : other # tok /\ other.nonce = tok.nonce
           \/ \E r \in Requests : req[r].nonce = tok.nonce
================================================================================
