# A TLA+ verification of the event-tracking ingest service

The repository implements one service, `services/ingest`, on four shared packages
(`pkg/tenant`, `pkg/controlplane`, `pkg/clickhouse`, `pkg/limits`). Mobile clients
record events in a local outbox, trade a public client id for a short-lived token,
and post batches; the service stores them in ClickHouse and the client deletes what
was acknowledged. Any number of pods run the same code; they share Postgres, Redis
and ClickHouse and nothing else.

This directory models the parts of that service in which several requests, pods,
failures or clocks meet, checks them with TLC on small instances, and proves the
most important results with TLAPS for every instance.

## The system

| Part | State | Operations | Where it is hard |
|---|---|---|---|
| Batch handler (`handler/batch.go`) | per request: receivedAt, looked-up offsets | authorise, decode, validate, charge quota, pin offsets, insert, answer | any step may fail after the step before it took effect; clients retry while the first request still runs |
| Session offsets (`enrich/postgres_offset_store.go`, `skew.go`) | Postgres `session_offsets` | GetOrSet, Correct | first contacts of one session on two pods; clocks that are days off |
| Quota (`quota/quota.go`) | Redis per-second and per-day counters with TTLs | Allow, AllowClient | all-or-nothing over two counters; buckets named by a time read long before the script runs |
| Verifier (`tenant/verify.go`) | per pod: key set, fetchedAt, lastRefetch, under a mutex | key, refetchLocked | rotation, outages, forged kids, requests queued with old times |
| Token exchange (`handler/token.go`, `attest/attest.go`) | Redis nonces, Postgres installs | Issue, Consume, IssueInstall, Mint | replays, races for one nonce or one install row, revocation under way |
| Control plane (`controlplane/store.go`) | Postgres client ids, quotas, installs, legacy cutoff | ResolveTenant, LimitsFor, IssueInstall, ResolveLegacy | a cutoff while legacy clients still hold events |
| Signing keys (`controlplane/keys.go`) | Postgres `signing_keys`; per pod: the minter's key | EnsureSigningKey, ActiveSigningKey, PublicJWKS | replicas that bootstrap a key together; rotation while pods keep the old key |
| ClickHouse (`clickhouse/insert.go`) | the `events` table | InsertEvents | an insert that fails may have written some of its rows |
| Migrations (`controlplane/migrate.go`, `clickhouse/migrate.go`) | two ledgers, an advisory lock, the pool's connections | Migrate | replicas that start together, die half-way, or lose the lock unnoticed; ClickHouse has no lock and no transactions |
| Process (`services/ingest/cmd/main.go`) | one process per pod | start, serve, drain, exit | a pod that never comes up; a pod that drains with an old key |
| Validation, row building, limits | none | | |

Interaction is by calls within a request and by the shared stores between requests:
the batch handler calls the verifier, the control plane, the quota, the offset store
and ClickHouse in this order; the token handlers call the control plane, the quota,
the nonces and the control plane again. The verifier fetches the key set from the
service's own JWKS endpoint.

What makes the parts correct:

* batch handler: an acknowledged event is stored; deliveries of an event merge; every
  event is settled in the end; storage stays within the budget;
* quota: the daily budget holds, the rate is stretched no further than slow uploads
  can, and a refused client is told an honest time;
* verifier: retired keys stop working, new ones start working, the endpoint is spared;
* token exchange: a nonce is spent once, a device has one install, revocation works;
* startup: each migration is applied once and completely before traffic, there is one
  active key, what was signed can be verified, and every pod comes up.

`PROJECT.json` lists each hazard at its line with the properties that cover it.

## The modules

| Module | Models | Notes |
|---|---|---|
| `Skew` | `CandidateOffset`, `Correct` | operators only |
| `AtLeastOnce` | what ADR-0004 promises the clients | the abstract specification |
| `BatchIngest` | `POST /v1/batch` end to end | extends `Skew`, implements `AtLeastOnce` |
| `Quota` | the admission script with TTLs | the detail behind `Admit` of `BatchIngest` |
| `Verifier` | the JWKS cache of one pod | the detail behind `Authorize` of `BatchIngest` |
| `TokenExchange` | `POST /v1/auth/challenge`, `/v1/auth/token` | uses the time checks of `Verify` |
| `Startup` | the pods' life: both migrations, the signing keys, shutdown, rotation | where the keys that `Verifier` fetches and `TokenExchange` signs with come from |
| `MC*` | constants and symmetry for TLC | |
| `*Proofs` | the theorems | |

Definitions keep the source's names; those marked MUTANT are wrong versions of the
definition that follows them, each the way a plausible bug would have it, and show
that the property they are paired with notices.

**BatchIngest.** A request is a slot with a program counter; each action is one
stretch of the handler between two store round-trips, so every interleaving at a
round-trip is explored. `Receive` reads receivedAt, `Authorize` is VerifyOrLegacy,
`Decode` goes from the body to the limits, `Admit` is the quota, `PinOffset` one
session's GetOrSet (the loop over the events visits each session once, in any
order), `Insert` the rows and the answer. A failing round-trip may have taken effect
or not. `Abort` is a pod or connection that dies between any two steps. Time is
counted in days; the per-second bucket is then an unknown, and a full one is a fault
that costs nothing. `Decode` has every early return in the handler's order: a body
over `MaxBatchBytes` (413) or one whose upload breaks off (400, if `BodyReadFails`), a
batch with an event in `Undecodable` (400: protojson is strict), more than
`MaxEventsPerBatch` events (413), a failing control plane (503). `BodyBytes` is any
size that does not shrink when a batch grows. `table` is what a query that merges
duplicates sees; `written` counts physical rows, redeliveries and parts of failed
inserts included.

Clients follow the status-code table of `services/ingest/README.md`: they delete
accepted events, mark rejected ones dead, drop the batch on 400, halve it on 413 (and
mark an event dead that is too large alone), keep it on 429 and 5xx. On 401 they
retry once and then stop syncing (`sync`), until the app is started again (`Resume`).
Installs in `Legacy` send a write key instead of a token; `CutOff` and `RollBack` are
the operator's change of a tenant's legacy mode, which `ResolveLegacy` reads on every
request, and a cut-off install is answered 401 and keeps its events. The SDK's cap of
20 attempts and its outbox limit are left out: they are the client's counted decision
to lose, and leaving them out asks more of the service.

**AtLeastOnce.** Events are held, stored or dropped. An event that can be stored may be,
any number of times, held or not; it leaves the outbox once it is stored or if no delivery can store
it (`Settle`), or with a batch the client is told to drop (`Drop`), which only events
that are exposed to such a batch can meet. `BatchIngest` instantiates it with
`Unstorable`, the invalid events and those over the byte cap alone, and `Exposed`, the
events that may share a batch with a broken upload or an undecodable event.

**Quota.** Time in ticks, `Sec` to the second: a per-second bucket covers `Sec` ticks,
and `RetryAfter` cuts a wait down to whole seconds as the header does. A call reads
its time (`Arrive`), and up to `MaxLatency`
later the script runs (`Admit`, `Deny`), runs without its answer arriving
(`AdmitUnheard`), or never runs (`Fail`). `Inst` and `Units` say whose call it is and
how much it asks for. Redis drops counters when their TTL passes.
`rateTaken` and `dayTaken` record what was ever admitted.

**Verifier.** One pod, its mutex held across the fetch. `Key` is the whole of `key`
up to its answer or the fetch; `Fetched` and `FetchFailed` are the fetch's outcomes.
Requests may wait `MaxWait` for the mutex, so `now` can go backwards between two
holders, as it does in the code. Go's zero time is a time long ago.

**TokenExchange.** One action per round-trip again. Nonces and install ids are
numbered in order of creation; random ones that never collide are as good as numbers.
The attestor is external: `Genuine` chooses between `Noop` and one that accepts an
attestation made over the presented challenge. One platform is modelled; another
one is another key.

**Startup.** A pod is a process with the program counter of `main`; an action is one
statement that another pod may see or disturb. `Lock` to `Migrated` are
`controlplane.Migrate`: the lock is taken on one connection and each file's
transaction (`Begin`, `Commit`) on another, so `conns` counts against the pool. A
file committed by another pod since `Begin` makes the DDL or the ledger's primary
key fail, and the process exits. `ReadLedger` to `Skip` are `clickhouse.Migrate`:
the ledger is read once, the statements run one by one, the ledger row is written
after the last. The `INSERT` of `EnsureSigningKey` is two actions
(`NotExists`, `Insert`), since its `WHERE NOT EXISTS` reads a snapshot while the unique
index sees what others commit; `Recheck` is the query that follows when no row was
inserted. A row of `keys` remembers who made the
key pair: pods that bootstrap the same kid have different keys. `Load`, `Listen`,
`Mint`, `Stop` and `Drained` are the rest of `main`. `Die` is a crash or any failing
call, both of which end the process; `LoseLock` is a server that drops the idle
session that holds the lock. `Deactivate`, `Activate` and `Retire` are the operator's
rotation as the comments of `keys.go` and the schema describe it: nothing in `src/`
runs them, so they stand for statements made by hand. `Retire` waits `RetireWait`
after the last pod that held the old key has left: that wait is an assumption about
the operator, and `TokensStayVerifiable` shows what it is good for.

## The runs

| Run | Expect | What it shows |
|---|---|---|
| `batch_storage` | pass | `DuplicatesCollapse`, `PartitionsBounded`, `BudgetBoundsStorage` and `NoSilentLoss` over crashes, broken uploads, lost answers and retries across midnight |
| `batch_delivery` | pass | `BatchIngest` implements `AtLeastOnce` (`ImplementsAtLeastOnce`, `NoSilentLoss`), only damaged batches are dropped (`OnlyDamageDrops`), and every event ends deleted or dead, unless its client has stopped syncing (`EveryEventSettles`) |
| `batch_clamp` | violation | a clamped event delivered twice on two days has two `ts` |
| `batch_upload` | violation | an upload that breaks off is answered 400 and its events are dropped (`RetriedUntilAcknowledged`) |
| `batch_rate_starvation` | violation | a batch larger than the rate is refused for ever |
| `quota` | pass | `DayBudget`, `RateStretch` and `RetryMeetsFreshBucket` for two installs of a tenant, with time below the second |
| `quota_slow_upload` | violation | a request that outlasts the rate counter's TTL spends its second's rate again (`RateBudget`) |
| `verifier` | pass | `RetiredKeyDies`, `PublishedKeyPickedUp`, `FetchesAreSpaced` |
| `token_exchange` | pass | `NonceSpentOnce`, `OneInstallPerAnchor`, `RevocationTakesEffect`, and `RowGrowthBounded` for a client that rotates its hints |
| `token_tier` | violation | a device's nonce is replaced by another device's and it misses Tier 0 |
| `startup` | pass | `PgExactlyOnce`, `SchemaBeforeTraffic`, `OneActiveKey`, `TokensStayVerifiable`, `NoCrashLoop`, and that every pod serves in the end |
| `clickhouse_race` | violation | two pods read the ClickHouse ledger before either has written it, and a file that is to be applied "exactly once" runs twice |

### Bounds, and why they suffice

* Two request slots are two pods or a request and its retry; a third would repeat
  what the second shows, as every shared store answers one request at a time.
* `BatchStorage`: two valid events in two sessions and an invalid one. `a2` was stamped
  by a clock three days ahead and is clamped on arrival; `a1` is from the day before, so
  that a delivery on the second day may fall out of the past bound. Batches of up to
  two, three being answered 413, and a budget of two, so that a batch that does not
  fit meets one that does; two days; two faults (the first delivery fails, and so
  does the retry). The device clock is ahead by more than the future bound: a request
  that arrives on the day it was sent pins offset 0, a later one pins -1, and racing
  first contacts disagree.
* `BatchDelivery`: `i1`, a legacy install that may be cut off and let in again, holds a
  valid event and one that is over the byte cap alone; `i2` holds one that does not
  decode. So 413 on bytes, for a batch and for a single event, 400 and 401 all happen.
  A budget of one for two days: a delivery that was charged and then failed has to wait
  for the next day. One fault, which may be a cutoff (`BatchStorage` checks
  `NoSilentLoss` with two, and with an invalid event). On the last day of the bounded
  clock a spent budget cannot be waited out: `WaitsForTomorrow` names those states and
  `EveryEventSettles` excepts them.
* `Quota`: two ticks to a second, two seconds to a day, a TTL of two seconds as in the
  code, calls of up to one and a half seconds: a second's counter has two lives, and the
  bound of `RateStretch` is reached. One install sends single events at one a second,
  the other, without a rate, batches of two; three units a day, so that a call may be
  refused for the day half a second before midnight. Midnight, both TTLs and a return
  after each kind of denial fit into `MaxClock`. `QuotaSlowUpload` asks for the
  undisturbed rate, with calls of up to two seconds.
* `Verifier`: one key and its successor; a successor not yet published is a forged
  kid. `MaxClock` exceeds `TTL + Grace + MinRefetch`.
* `TokenExchange`: four requests of one device that may send a new hint each time, two
  at once, one fault, a limit of two and time for two windows: an exchange at the start
  and at the end of the first and two at the start of the second leave three rows in an
  interval of one window, the most that `RowGrowthBounded` allows. A nonce can run out,
  be replaced, and be presented by two exchanges at once. A token's life, the skew and a
  revocation between two steps of an exchange end before `MaxClock`. An exchange takes
  less than a tick (`MaxExchange = 0`); the proofs cover those that last longer.
  `TokenTier` has two devices of one app.
* `Startup`: two pods race for every lock, ledger and key. Two Postgres files, so that
  order matters; one ClickHouse file of two statements, so that it can be left half
  applied (`clickhouse_race` has a second file, for a pod that skips one file and runs
  the next). A pool of two is the smallest with which `Migrate` can work at all, and
  is where a pod that kept a connection too many would hang. Two kids: pods configured
  alike or differently, and a rotation from one to the other. One fault and one
  rotation, at any point, of a pod in any step; a second of either starts from a state
  like the first. A token life of 0 with a wait of 1 is the tightest that
  `RetireWait > TokenTTL + ClockSkew` admits, and `MaxClock = 1` reaches a retirement.
  The safety properties are proved for all values of these constants.

Request slots and hints are interchangeable wherever a configuration
declares symmetry; liveness is checked without symmetry.

Every configuration but `Startup.cfg` and `StartupClickHouse.cfg` says
`CHECK_DEADLOCK FALSE`: the clock stops at its bound and the clients stop when their
outboxes are empty. The two check for deadlock as well: a pod always has a next step.

### Fairness

`EveryEventSettles` needs it: `FairSpec` of `BatchIngest` is weakly fair to a
request's handler (goroutines run, every round-trip has a deadline), to the discarding
of an answer nobody reads, to a client that has something to send or an answer to read
(the sync loop), and to the clock, since a refusal for the day ends with the day.
Nothing forces a fault, a timeout, the operator's rollback or the restart of an app
that has stopped syncing: a client that stays stopped, or stops again and again, keeps
its events, as the status-code table says, and the property excepts it. Faults are
finite: the property speaks of what happens once they stop.

`EveryPodServes` needs it too: `Spec` of `Startup` is weakly fair to each step of a
pod's start (Kubernetes restarts what exited, the stores answer), to its stop and its
draining (SIGTERM, and a shutdown with a limit), and to the operator's `Activate`: a
rotation that stops after its first statement leaves no active key, and pods then
exit until there is one. Nothing forces `Mint`, `Tick`, a fault, or the beginning of a
rotation.

## What is proved

The `*Proofs` modules hold machine-checked proofs of every safety property of the
passing runs, for every number of requests, clients, events, pods, files and keys,
every limit and every length of the run. Each rests on an inductive invariant (`IInv`;
five of them in `StartupProofs`; `Covered` and `Metered` on top of an `IInv` in the
two modules about counting), with one step per action.

* **BatchIngest.** The properties speak of the table and of outboxes; the invariant
  adds what is in flight: an offset a request has memorised is the pinned one and
  pinned offsets never change (hence rows agree, `RetriesCollapse`); every row
  carries the timestamp that `Correct` yields for its session's offset (hence
  `PartitionsStayBounded`); every answer is true of the batch it answers, whoever still
  waits for it (`RepliesTrue`): what it accepts is stored, what it rejects is invalid,
  a 413 means that it is over one of the caps, so that a single event, which
  `MaxEventsPerBatch` always admits, is over the byte cap alone; a 400 means that the
  upload broke off or an event does not decode. `Fitting` says that a batch past
  `Decode` is within the byte cap, so that no event over it is ever stored, and
  `Awaited` that a client still holds what it waits for. Hence `Delivers`, the refinement of
  `AtLeastOnce`, `NothingIsLost` and `OversizeIsNeverDropped`, for uploads that break
  off too.
* **BatchIngest, storage** (`BatchBudgetProofs`). The budget counts units, `written`
  rows; between the charge and the insert a request's units are pledged to its valid
  events. `Covered`: per tenant and day, rows written and pledges together are at most the
  units spent, and those at most the budget. An admission charges at least as many
  units as it pledges; an insert, whole or partial, turns pledges into rows; a crash
  lets pledges lapse and leaves their units spent; a redelivery is charged again and
  written again. Hence `StorageWithinBudget`.
* **Quota.** The budgets count units ever admitted, the script sees counters that
  expire. A daily counter forgets only after its day has been over for a day
  (`DayExact`), and a call under way is too young to name such a bucket: `MaxLatency <=
  DayLen` gives `DailyBudgetHolds`. A per-second counter may forget under the calls that
  name it. `RateLives` counts its lives: the k-th starts no earlier than k TTLs after its
  second began, and all that was admitted fits one `RPS` per life. The last call of a
  second runs within `Sec - 1 + MaxLatency` of the second's start, so there are at most
  `Lives` of them: `RateStretchHolds`, with no assumption on latency (31 times the rate
  with the code's 60 s uploads and 2 s TTL). The lemma `OneLife` says when the factor is
  one. `RetryAfterIsHonest` rests on `DenialsOutlast`, which places every retry time
  beyond its bucket; `HeaderCoversWait` is the arithmetic of the header's rounding.
* **Verifier.** The cached set holds only keys that were published when it was
  fetched and not retired before it (`CacheHonest`), unless the last fetch
  failed it misses only keys published since (`CacheComplete`), and the recorded limit pairs with the
  last attempt (`TriesPaired`). `RetiredKeysDie`, `RotationIsNoticed` and
  `EndpointIsSpared` follow. They assume `MinRefetch <= TTL`, as in the code.
* **TokenExchange.** The exchange is four store round-trips; the invariant says what a
  request carries from one to the next. `Funded` traces each nonce and each install
  row to a request (hence `TypeCorrect`: their numbers do not run out). `NoncesMove`:
  a nonce is in Redis, with one request, or in one token, and never returns (hence
  `NoncesAreSpentOnce`). `RowsUnique`: ids and anchors identify rows and a token's
  row exists (hence `InstallsAreAnchored`). `LookedUpInTime`: whatever has passed the
  lookup started before the revocation (hence `RevocationIsBounded`).
* **TokenExchange, rate** (`TokenRateProofs`). The limiter counts hits of windows that
  open at the first hit after the last one ran out, the property rows of an arbitrary
  interval of that length. `Metered` counts rows together with the requests that may
  still write one: those of the current window are paid for by its hits, and an
  interval meets two windows at most, missing the opening hit of the earlier. Hence
  `RowsGrowSlowly`, with fewer than `2 * RateLimit` rows; `RateLimit` is assumed to be
  positive (the code's is 30), as with a limit of 0 there would be none to miss.
* **Startup.** `Local` ties the connections and the values of a process to its step,
  which gives `TypeCorrect`. `PgMigrating`: a process in the loop finds every file
  before its own in the ledger (hence `PostgresAppliedOnce`; the lock is not used, the
  ledger's primary key is enough). `ChMigrating`: the ledger a process read is part of
  the present one, a recorded file is complete, and the statements a process has
  passed have run (with the above, `SchemasComplete`). `Serial`: until the first fault
  a process in the loop holds the lock and its file is not in the ledger (hence
  `LockPreventsCrashLoop`: this is where the lock is needed). `Keyed`: there are no two
  active keys, a pod's key is published, a pod started since the last rotation has the
  active one, and what an inactive key signed is not younger than the last old pod's
  exit (hence `NeverTwoActiveKeys` and `IssuedTokensVerify`). TLC checked each of the
  five on the instance of `Startup.cfg` before it was proved.

Assumptions on constants are the named `ASSUME`s of the modules, which TLC evaluates
in the runs.

## What is only model-checked

`EveryEventSettles` and `EveryPodServes`: liveness is beyond the proof system. The
runs that expect a violation are counterexamples and need no proof.

## What is not modelled

* Stateless checks: signatures, and the checks of `alg`, `typ`, `iss`, `aud`, `scope`
  and `trust_tier` in `Verify`; the individual rules of `validate.Event`; `propsJSON`
  and the columns no property tells apart. They are functions of one request with no
  state to get wrong, and the repository tests them case by case.
* The effect of the DDL itself (a migration is a count of runs), ClickHouse's merges
  and replication, the metrics callbacks, the probes.
* The retention sweep of `0002_session_offsets_retention.sql`: a statement an operator
  may schedule, outside this code. It deletes pinned offsets, and `DuplicatesCollapse`
  holds only for sessions it has not reached; how long an outbox holds events is up to
  an SDK that is not in this repository.
* The query service and the SDK, which exist as designs only (the SDK's reactions to
  the status codes are the clients of `BatchIngest`).
* Generated code, the import-boundary checker and the golden-file helper: no state.

Replies have no 500: encoding a response does not fail for the values the handlers
build.

## Plan

The components with state are modelled and their safety properties proved. What is
left:

1. That the `Admit` step of `BatchIngest`, which spends units of a day at once, is
   what the script of `Quota` does as long as its counters have not expired.
2. Theorems that complement the other runs that expect a violation, as
   `RateStretchHolds` does for `quota_slow_upload`: the condition under which the
   documented claim does hold.
