------------------------------ MODULE BatchIngest ------------------------------
(***************************************************************************)
(* POST /v1/batch (services/ingest/internal/handler/batch.go) served to    *)
(* several clients by any number of pods.  A request is a slot that walks  *)
(* through the handler; between two of its steps every other request, the  *)
(* clock, a crash or an impatient client may act.  The stores the handler  *)
(* shares between pods are variables: the session offsets in Postgres, the *)
(* daily counters in Redis and the event table in ClickHouse.              *)
(*                                                                         *)
(* Time is counted in days, the unit of the daily budget and of the skew   *)
(* bounds.  The per-second rate bucket is far below that resolution, so    *)
(* its fill level is an unknown 0..RPS (module Quota has it in detail).    *)
(*                                                                         *)
(* The clients follow the status-code contract of services/ingest/README,  *)
(* on a 400 and a 401 too: they drop the batch, or retry once and then     *)
(* stop syncing.                                                           *)
(***************************************************************************)
EXTENDS Skew, FiniteSets

CONSTANTS
    Installs, Tenants, TenantOf,       \* credentials: an install and its tenant
    Legacy,                            \* installs that still send a wk_live_ key
    Events, Owner, Session, TsClient,  \* recorded events and their envelope
    Invalid,                           \* the events validate.Event rejects
    Undecodable,                       \* events protojson does not decode: an
                                       \* unknown field, a value out of range
    BodyBytes,                         \* size of the body that carries a batch
    Requests,                          \* slots for requests in progress
    SentSkews,                         \* device clock minus server clock
    RPS,                               \* per install: tier 0, tier 1 or legacy
    DailyEvents,                       \* daily budget of a tenant, 0 for none
    MaxEventsPerBatch, MaxBatchBytes,
    BodyReadFails,                     \* whether uploads may break off or stall
    StartTime, MaxClock,               \* bounds of the clock
    MaxFaults,                         \* bound on faults of every kind
    None

Sessions == {Session[e] : e \in Events}     \* (device_id, session_id) pairs
Keys     == Tenants \X Sessions             \* enrich.SessionKey
Days     == StartTime .. MaxClock

ASSUME BatchAssumption ==
    /\ IsFiniteSet(Events) /\ Invalid \subseteq Events
    /\ Undecodable \subseteq Events /\ BodyBytes \in [SUBSET Events -> Nat]
    /\ \A S, T \in SUBSET Events : S \subseteq T => BodyBytes[S] <= BodyBytes[T]
    /\ TenantOf \in [Installs -> Tenants] /\ Legacy \subseteq Installs
    /\ Owner \in [Events -> Installs]
    /\ TsClient \in [Events -> Int]
    /\ SentSkews \subseteq Int
    /\ RPS \in [Installs -> Nat]
    /\ DailyEvents \in Nat /\ MaxEventsPerBatch \in Nat \ {0}
    /\ MaxBatchBytes \in Nat
    /\ BodyReadFails \in BOOLEAN
    /\ StartTime \in Nat /\ MaxClock \in Nat /\ StartTime <= MaxClock
    /\ MaxFaults \in Nat
    /\ None \notin Int /\ None \notin Requests

VARIABLES
    clock,     \* server time
    faults,    \* faults still to come
    local,     \* outbox: the state of every event on its device
    waiting,   \* per install, the request whose answer it waits for
    size,      \* per install, the largest batch it will send
    sync,      \* per install, whether it syncs, retries a 401 or has stopped
    pc,        \* per request, the handler step it is at
    msg,       \* per request, what the client sent
    at,        \* per request, receivedAt
    memo,      \* per request, the offsets it has looked up
    reply,     \* per request, the answer
    offsets,   \* Postgres session_offsets
    spent,     \* Redis q:{tenant}:day counters
    table,     \* ClickHouse rows: what a query that merges duplicates sees
    written,   \* history: rows written per tenant and day, duplicates included
    cutoff     \* tenants whose legacy_key_mode accepts no write key

client == <<local, waiting, size, sync>>
rows   == <<table, written>>
stores == <<offsets, spent, rows, cutoff>>
vars   == <<clock, faults, client, pc, msg, at, memo, reply, stores>>

(* What becomes of an event on its device: deleted once accepted, dead     *)
(* when the server has refused it, dropped with a batch answered 400.      *)
Fates    == {"pending", "deleted", "dead", "dropped"}
Syncing  == {"on", "retrying", "halted"}
Steps    == {"idle", "sent", "received", "verified", "decoded", "admitted", "replied"}
Statuses == {0, 200, 400, 401, 413, 429, 503}
NoMsg    == [inst |-> None, evs |-> {}, sentAt |-> 0]
NoReply  == [status |-> 0, accepted |-> {}, rejected |-> {}]
NoMemo   == [k \in Keys |-> None]

TypeOK ==
    /\ clock \in Days
    /\ faults \in Nat
    /\ local \in [Events -> Fates]
    /\ waiting \in [Installs -> Requests \union {None}]
    /\ size \in [Installs -> Nat]
    /\ sync \in [Installs -> Syncing]
    /\ pc \in [Requests -> Steps]
    /\ msg \in [Requests -> [inst : Installs \union {None}, evs : SUBSET Events,
                             sentAt : Int]]
    /\ at \in [Requests -> Int]
    /\ memo \in [Requests -> [Keys -> Int \union {None}]]
    /\ reply \in [Requests -> [status : Statuses, accepted : SUBSET Events,
                               rejected : SUBSET Events]]
    /\ offsets \in [Keys -> Int \union {None}]
    /\ spent \in [Tenants -> [Days -> Nat]]
    /\ table \subseteq [tenant : Tenants, event : Events, ts : Int, received : Int]
    /\ written \in [Tenants -> [Days -> Nat]]
    /\ cutoff \subseteq Tenants

Init ==
    /\ clock = StartTime
    /\ faults = MaxFaults
    /\ local = [e \in Events |-> "pending"]
    /\ waiting = [i \in Installs |-> None]
    /\ size = [i \in Installs |-> Cardinality(Events)]
    /\ sync = [i \in Installs |-> "on"]
    /\ pc = [r \in Requests |-> "idle"]
    /\ msg = [r \in Requests |-> NoMsg]
    /\ at = [r \in Requests |-> 0]
    /\ memo = [r \in Requests |-> NoMemo]
    /\ reply = [r \in Requests |-> NoReply]
    /\ offsets = [k \in Keys |-> None]
    /\ spent = [t \in Tenants |-> [d \in Days |-> 0]]
    /\ table = {}
    /\ written = spent
    /\ cutoff = {}

-------------------------------------------------------------------------------
(* What the handler computes from a request. *)

TenantId(r) == TenantOf[msg[r].inst]
Valid(r)    == msg[r].evs \ Invalid
Key(t, e)   == <<t, Session[e]>>
KeysOf(r)   == {Key(TenantId(r), e) : e \in Valid(r)}

(* At least one unit, or an all-garbage batch would cost nothing. *)
ChargeUnits(r) == IF Valid(r) = {} THEN 1 ELSE Cardinality(Valid(r))

Row(r, e) == [tenant   |-> TenantId(r), event |-> e, received |-> at[r],
              ts       |-> Correct(TsClient[e], memo[r][Key(TenantId(r), e)], at[r])]
RowsOf(r) == {Row(r, e) : e \in Valid(r)}

-------------------------------------------------------------------------------
(* Building blocks of the actions. *)

Fault == faults > 0 /\ faults' = faults - 1
Calm  == UNCHANGED faults

Respond(r, status, accepted, rejected) ==
    /\ pc' = [pc EXCEPT ![r] = "replied"]
    /\ reply' = [reply EXCEPT ![r] = [status   |-> status,
                                      accepted |-> accepted,
                                      rejected |-> rejected]]
    /\ UNCHANGED <<clock, client, msg, at, memo>>

(* httpError: the answer carries no verdict on any event. *)
HttpError(r, status) == Respond(r, status, {}, {})

Advance(r, step) ==
    /\ pc' = [pc EXCEPT ![r] = step]
    /\ UNCHANGED <<clock, client, msg, reply>>

Free(r) ==
    /\ pc' = [pc EXCEPT ![r] = "idle"]
    /\ msg' = [msg EXCEPT ![r] = NoMsg]
    /\ at' = [at EXCEPT ![r] = 0]
    /\ memo' = [memo EXCEPT ![r] = NoMemo]
    /\ reply' = [reply EXCEPT ![r] = NoReply]

-------------------------------------------------------------------------------
(* The handler, one action per store round-trip. *)

(* receivedAt is read first, before the token and the body. *)
Receive(r) ==
    /\ pc[r] = "sent"
    /\ at' = [at EXCEPT ![r] = clock]
    /\ Advance(r, "received")
    /\ Calm
    /\ UNCHANGED <<memo, stores>>

(* ResolveLegacy reads the tenant's mode for every request; dual_accept    *)
(* and deprecating accept a write key, anything else does not.             *)
ResolveLegacy(r) == TenantId(r) \notin cutoff

(* VerifyOrLegacy: every failure, of the credential or of the JWKS or      *)
(* control-plane lookup behind it, is a 401.                               *)
Authorize(r) ==
    /\ pc[r] = "received"
    /\ \/ /\ msg[r].inst \in Legacy => ResolveLegacy(r)
          /\ Calm /\ Advance(r, "verified") /\ UNCHANGED <<at, memo>>
       \/ /\ msg[r].inst \in Legacy /\ ~ResolveLegacy(r)
          /\ Calm /\ HttpError(r, 401)
       \/ Fault /\ HttpError(r, 401)
    /\ UNCHANGED stores

(* MUTANT of ReadBody: the error of MaxBytesReader is not told apart. *)
ReadBodyUnmapped(r) ==
    /\ \/ BodyReadFails /\ Fault
       \/ BodyBytes[msg[r].evs] > MaxBatchBytes /\ Calm
    /\ HttpError(r, 400)

(* MUTANT of OverBytes: the cap is not applied to the smallest batch. *)
OverBytesExceptOne(r) ==
    Cardinality(msg[r].evs) > 1 /\ BodyBytes[msg[r].evs] > MaxBatchBytes

(* The ways readBody fails: an upload that breaks off or outlasts          *)
(* ReadTimeout, and a body over the cap, which has an answer of its own.   *)
OverBytes(r) == BodyBytes[msg[r].evs] > MaxBatchBytes
ReadBody(r)  == \/ BodyReadFails /\ Fault /\ HttpError(r, 400)
                \/ OverBytes(r) /\ Calm /\ HttpError(r, 413)

(* protojson decodes strictly: one event it does not know spoils the batch. *)
Malformed(r) == msg[r].evs \intersect Undecodable # {}
OverCount(r) == Cardinality(msg[r].evs) > MaxEventsPerBatch

(* LimitsFor finds the tenant's quota, or its default, or no database. *)
LimitsFor(r) == \/ Calm /\ Advance(r, "decoded") /\ UNCHANGED <<at, memo>>
                \/ Fault /\ HttpError(r, 503)

(* From the body to the quota, each check on what the one before let       *)
(* through: no store is written.                                           *)
Decode(r) ==
    /\ pc[r] = "verified"
    /\ \/ ReadBody(r)
       \/ /\ ~OverBytes(r) /\ Malformed(r)
          /\ Calm /\ HttpError(r, 400)
       \/ /\ ~OverBytes(r) /\ ~Malformed(r) /\ OverCount(r)
          /\ Calm /\ HttpError(r, 413)
       \/ /\ ~OverBytes(r) /\ ~Malformed(r) /\ ~OverCount(r)
          /\ LimitsFor(r)
    /\ UNCHANGED stores

(* MUTANT of OverDaily: the counters of earlier days still count. *)
OverDailyEver(r) ==
    DailyEvents > 0 /\ \E d \in StartTime .. at[r] :
                          spent[TenantId(r)][d] + ChargeUnits(r) > DailyEvents

(* MUTANTS of Consume: the counter runs down instead of up; the retry of a *)
(* batch that is already stored is free.                                   *)
ConsumeDown(r) == spent' = [spent EXCEPT ![TenantId(r)][at[r]] = @ - ChargeUnits(r)]
ConsumeOnce(r) ==
    spent' = [spent EXCEPT ![TenantId(r)][at[r]] =
                 IF Valid(r) \subseteq {row.event : row \in table}
                 THEN @ ELSE @ + ChargeUnits(r)]

(* The admission script takes nothing unless it takes the whole batch. *)
OverDaily(r) ==
    DailyEvents > 0 /\ spent[TenantId(r)][at[r]] + ChargeUnits(r) > DailyEvents
OverRate(r)  == RPS[msg[r].inst] > 0 /\ ChargeUnits(r) > RPS[msg[r].inst]
Denied(r)    == OverRate(r) \/ OverDaily(r)
Consume(r)   == spent' = [spent EXCEPT ![TenantId(r)][at[r]] = @ + ChargeUnits(r)]

(* Quota.Allow.  The install's bucket for this second may already hold     *)
(* units of another batch: a denial that costs a fault.  A script whose    *)
(* answer is lost has run all the same.                                    *)
Admit(r) ==
    /\ pc[r] = "decoded"
    /\ \/ /\ Denied(r)
          /\ Calm
          /\ HttpError(r, 429)
          /\ UNCHANGED spent
       \/ /\ RPS[msg[r].inst] > 0
          /\ Fault
          /\ HttpError(r, 429)
          /\ UNCHANGED spent
       \/ /\ Fault
          /\ HttpError(r, 503)
          /\ (~Denied(r) /\ Consume(r)) \/ UNCHANGED spent
       \/ /\ ~Denied(r)
          /\ Calm
          /\ Consume(r)
          /\ Advance(r, "admitted")
          /\ UNCHANGED <<at, memo>>
    /\ UNCHANGED <<offsets, rows, cutoff>>

(* MUTANT of GetOrSet: the upsert overwrites, the last request wins. *)
GetOrSetLastWins(k, candidate) == candidate

(* PostgresOffsetStore.GetOrSet: one atomic upsert that returns the value  *)
(* of whoever came first.                                                  *)
GetOrSet(k, candidate) == IF offsets[k] = None THEN candidate ELSE offsets[k]

(* One round-trip per session of the batch; the answer may be lost after   *)
(* the row was written.                                                    *)
PinOffset(r) ==
    /\ pc[r] = "admitted"
    /\ \E k \in {x \in KeysOf(r) : memo[r][x] = None} :
        LET offset == GetOrSet(k, CandidateOffset(msg[r].sentAt, at[r]))
        IN  \/ /\ Calm
               /\ offsets' = [offsets EXCEPT ![k] = offset]
               /\ memo' = [memo EXCEPT ![r][k] = offset]
               /\ Advance(r, "admitted")
               /\ UNCHANGED at
            \/ /\ Fault
               /\ offsets' = [offsets EXCEPT ![k] = offset] \/ UNCHANGED offsets
               /\ HttpError(r, 503)
    /\ UNCHANGED <<spent, rows, cutoff>>

(* Rows reach the table.  Written again, on the same day or not, they are  *)
(* more rows until a merge; a day is precise enough for receivedAt, since  *)
(* it is written that counts them.                                         *)
Write(r, new) ==
    /\ table' = table \union new
    /\ written' = [written EXCEPT ![TenantId(r)][at[r]] = @ + Cardinality(new)]

(* MUTANT of Insert: the answer does not wait for the insert's result. *)
InsertUnchecked(r) ==
    /\ pc[r] = "admitted"
    /\ \A k \in KeysOf(r) : memo[r][k] # None
    /\ (Calm /\ Write(r, RowsOf(r))) \/ (Fault /\ UNCHANGED rows)
    /\ Respond(r, 200, Valid(r), msg[r].evs \intersect Invalid)
    /\ UNCHANGED <<offsets, spent, cutoff>>

(* InsertEvents returns once its rows are written.  One that fails may     *)
(* have written any part of them (one block per partition); without rows   *)
(* there is nothing to fail.                                               *)
InsertEvents(r)      == Calm /\ Write(r, RowsOf(r))
InsertEventsFails(r) == /\ Valid(r) # {}
                        /\ Fault
                        /\ \E new \in SUBSET RowsOf(r) : Write(r, new)

(* The insert and, only after it, the verdict on every event. *)
Insert(r) ==
    /\ pc[r] = "admitted"
    /\ \A k \in KeysOf(r) : memo[r][k] # None
    /\ \/ /\ InsertEvents(r)
          /\ Respond(r, 200, Valid(r), msg[r].evs \intersect Invalid)
       \/ /\ InsertEventsFails(r)
          /\ HttpError(r, 503)
    /\ UNCHANGED <<offsets, spent, cutoff>>

(* The pod dies, or the connection breaks and cancels the request context. *)
Abort(r) ==
    /\ pc[r] # "idle"
    /\ Fault
    /\ Free(r)
    /\ waiting' = [i \in Installs |-> IF waiting[i] = r THEN None ELSE waiting[i]]
    /\ sync' = [i \in Installs |-> IF waiting[i] = r THEN "on" ELSE sync[i]]
    /\ UNCHANGED <<clock, local, size, stores>>

(* An operator sets the mode of a tenant with legacy installs to cutoff,   *)
(* and rolls a stranded tenant back to dual_accept.                        *)
CutOff(t) ==
    /\ t \notin cutoff /\ \E i \in Legacy : TenantOf[i] = t
    /\ Fault
    /\ cutoff' = cutoff \union {t}
    /\ UNCHANGED <<clock, client, pc, msg, at, memo, reply, offsets, spent, rows>>

RollBack(t) ==
    /\ t \in cutoff
    /\ cutoff' = cutoff \ {t}
    /\ UNCHANGED <<clock, faults, client, pc, msg, at, memo, reply, offsets, spent, rows>>

Handler(r) == Receive(r) \/ Authorize(r) \/ Decode(r) \/ Admit(r)
              \/ PinOffset(r) \/ Insert(r)

-------------------------------------------------------------------------------
(* The clients: external, from the status-code contract. *)

Pending(i) == {e \in Events : Owner[e] = i /\ local[e] = "pending"}

Send(i) ==
    /\ waiting[i] = None /\ sync[i] # "halted"
    /\ \E r \in Requests, evs \in SUBSET Pending(i), s \in SentSkews :
        /\ pc[r] = "idle"
        /\ evs # {} /\ Cardinality(evs) <= size[i]
        /\ pc' = [pc EXCEPT ![r] = "sent"]
        /\ msg' = [msg EXCEPT ![r] = [inst |-> i, evs |-> evs, sentAt |-> clock + s]]
        /\ waiting' = [waiting EXCEPT ![i] = r]
    /\ UNCHANGED <<clock, faults, local, size, sync, at, memo, reply, stores>>

(* Events of r the client deletes, those it marks dead and those it drops. *)
Deletes(r) == reply[r].accepted
Buries(r)  == IF reply[r].status = 413 /\ Cardinality(msg[r].evs) = 1
              THEN msg[r].evs ELSE reply[r].rejected
Drops(r)   == IF reply[r].status = 400 THEN msg[r].evs ELSE {}

(* A 401 is retried once with a fresh token; a second in a row halts. *)
SyncAfter(i, status) == CASE status # 401 -> "on"
                          [] status = 401 /\ sync[i] = "on" -> "retrying"
                          [] OTHER -> "halted"

(* After a 429 or a 503 the client sends again later. *)
Handle(i) ==
    /\ waiting[i] # None
    /\ pc[waiting[i]] = "replied"
    /\ LET r == waiting[i]
       IN  /\ local' = [e \in Events |-> CASE e \in Deletes(r) -> "deleted"
                                           [] e \in Buries(r)  -> "dead"
                                           [] e \in Drops(r)   -> "dropped"
                                           [] OTHER -> local[e]]
           /\ size' = IF reply[r].status = 413 /\ Cardinality(msg[r].evs) > 1
                      THEN [size EXCEPT ![i] = Cardinality(msg[r].evs) \div 2]
                      ELSE size
           /\ sync' = [sync EXCEPT ![i] = SyncAfter(i, reply[r].status)]
           /\ Free(r)
    /\ waiting' = [waiting EXCEPT ![i] = None]
    /\ UNCHANGED <<clock, faults, stores>>

(* The client stops waiting; the request goes on without it. *)
Timeout(i) ==
    /\ waiting[i] # None
    /\ Fault
    /\ waiting' = [waiting EXCEPT ![i] = None]
    /\ sync' = [sync EXCEPT ![i] = "on"]
    /\ UNCHANGED <<clock, local, size, pc, msg, at, memo, reply, stores>>

(* The app is started again, with its outbox and a fresh sync loop. *)
Resume(i) ==
    /\ sync[i] = "halted"
    /\ sync' = [sync EXCEPT ![i] = "on"]
    /\ size' = [size EXCEPT ![i] = Cardinality(Events)]
    /\ UNCHANGED <<clock, faults, local, waiting, pc, msg, at, memo, reply, stores>>

(* An answer nobody waits for. *)
Discard(r) ==
    /\ pc[r] = "replied"
    /\ \A i \in Installs : waiting[i] # r
    /\ Free(r)
    /\ UNCHANGED <<clock, faults, client, stores>>

Tick ==
    /\ clock < MaxClock
    /\ clock' = clock + 1
    /\ UNCHANGED <<faults, client, pc, msg, at, memo, reply, stores>>

Next ==
    \/ \E r \in Requests : Handler(r) \/ Abort(r) \/ Discard(r)
    \/ \E i \in Installs : Send(i) \/ Handle(i) \/ Timeout(i) \/ Resume(i)
    \/ \E t \in Tenants : CutOff(t) \/ RollBack(t)
    \/ Tick

Spec == Init /\ [][Next]_vars

(* Requests that are running go on, clients keep sending what they hold    *)
(* and read the answers they wait for, and time passes.  Nothing forces a  *)
(* fault, an operator's rollback or a restart of a halted client.          *)
FairSpec ==
    /\ Spec
    /\ \A r \in Requests : WF_vars(Handler(r)) /\ WF_vars(Discard(r))
    /\ \A i \in Installs : WF_vars(Send(i)) /\ WF_vars(Handle(i))
    /\ WF_vars(Tick)

-------------------------------------------------------------------------------
Stored  == {row.event : row \in table}
Held    == {e \in Events : local[e] = "pending"}
Dropped == {e \in Events : local[e] = "dropped"}

(* What no delivery can store: an event that fails validation, and one     *)
(* that alone is over the byte cap.                                        *)
Unstorable == Invalid \union {e \in Events : BodyBytes[{e}] > MaxBatchBytes}

(* What may share a batch that is answered 400. *)
Exposed == {e \in Events : BodyReadFails \/ \E u \in Undecodable : Owner[u] = Owner[e]}

(* The promise to the clients, which the handler implements. *)
Promise == INSTANCE AtLeastOnce WITH held <- Held, stored <- Stored, dropped <- Dropped
ImplementsAtLeastOnce == Promise!Spec

(* No silent loss: whatever crashes, times out or is answered late, an     *)
(* event that left its outbox is in the table, or no delivery could store  *)
(* it, or it went with a batch the client was told to drop (batch.go       *)
(* 185-194: accepted is set only once the insert has returned).            *)
NoSilentLoss == Promise!NothingLost

(* A batch that is only too large is never dropped: a 400 takes an event   *)
(* only when an upload broke off or when its client recorded an event this *)
(* build does not decode (batch.go 71-76, 88-95, 226-233).                 *)
OnlyDamageDrops == Dropped \subseteq Exposed

(* ADR-0004's claim: a client retries until the server has accepted or     *)
(* refused the event; none is given up with a batch.                       *)
RetriedUntilAcknowledged == Dropped = {}

(* Retries collapse: however many pods, first contacts and retries raced,  *)
(* all rows of an event whose timestamps were not clamped carry one ts, so *)
(* ReplacingMergeTree can merge them (postgres_offset_store.go 18-37).     *)
DuplicatesCollapse ==
    \A r1, r2 \in table :
        LET Trusted(x) == ~Clamped(TsClient[x.event],
                                   offsets[Key(x.tenant, x.event)], x.received)
        IN  r1.event = r2.event /\ Trusted(r1) /\ Trusted(r2) => r1.ts = r2.ts

(* ADR-0003's claim: ts is a function of the event, clamped or not. *)
TsIsAFunctionOfTheEvent ==
    \A r1, r2 \in table : r1.event = r2.event => r1.ts = r2.ts

(* Partitions stay bounded: no row lands further from its arrival than the *)
(* skew bounds, whichever offset its session was pinned to by an earlier   *)
(* request (skew.go 42-52).                                                *)
PartitionsBounded ==
    \A row \in table : /\ row.ts - row.received <= MaxFutureSkew
                       /\ row.received - row.ts <= MaxPastSkew

(* Storage never outruns the budget: the rows a tenant gets written with   *)
(* one day's receivedAt, every retry and every part of a failed insert     *)
(* counted again, fit its daily budget (batch.go 130-147, quota.go 46-70). *)
BudgetBoundsStorage ==
    DailyEvents > 0 => \A t \in Tenants, d \in Days : written[t][d] <= DailyEvents

(* The bound on the clock bites: on the last day the tenant has spent so   *)
(* much that what its clients hold may have to wait for the next.          *)
WaitsForTomorrow(t) ==
    /\ DailyEvents > 0 /\ clock = MaxClock /\ spent[t][clock] > 0
    /\ spent[t][clock] + Cardinality({e \in Held : TenantOf[Owner[e]] = t}) > DailyEvents

(* Delivery: whatever is denied, halved, retried and raced on the way,     *)
(* every event a 400 cannot take ends deleted if it can be stored and dead *)
(* if it cannot (services/ingest/README 13-18), unless its client has      *)
(* stopped syncing after two 401s and stays so or stops again and again.   *)
EveryEventSettles ==
    \A e \in Events \ Exposed :
        \/ <>(local[e] = IF e \in Unstorable THEN "dead" ELSE "deleted")
        \/ []<>(sync[Owner[e]] = "halted")
        \/ <>[]WaitsForTomorrow(TenantOf[Owner[e]])
================================================================================
